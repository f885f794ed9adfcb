-------------------------- MODULE MCInstanceManager --------------------------
(* Instances of InstanceManager for TLC: sets of operations the            *)
(* configurations choose from, and symmetry for the runs without liveness. *)
EXTENDS InstanceManager, TLC

(* Operations whose requests leave the names of the instances alone.       *)
NamedKinds == AllKinds \ {"edit", "duplicate"}

(* Operations whose effect on the table is that of one call on one row.    *)
SingleKinds == AllKinds \ {"token"}

Symmetry == Permutations(Procs) \cup Permutations(Names)
            \cup Permutations(Rooms) \cup Permutations(Tokens)

=============================================================================
