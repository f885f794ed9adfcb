----------------------------- MODULE MCAutoSetup -----------------------------
(* Instances of AutoSetup for TLC.                                         *)
EXTENDS AutoSetup, TLC

NoneOrAll == {<<>>, CHOOSE list \in RoomLists : Len(list) = RoomLimit}

(* One that has the name for the first room, but another provider, and one *)
(* that is what the wizard would create.                                   *)
SomeForeign ==
  {[name |-> 1, provider |-> "telemost"], [name |-> TeleName, provider |-> "telemost"]}

Symmetry == Permutations(Tabs)

=============================================================================
