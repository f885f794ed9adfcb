---------------------------- MODULE TrafficMeter ----------------------------
(***************************************************************************)
(* What traffic accounting promises: a payload event is counted at most    *)
(* once, for the instance that produced it, and stays counted until the    *)
(* counter of that instance is reset or the instance is deleted.           *)
(***************************************************************************)
EXTENDS Naturals

CONSTANTS Units, Events

VARIABLES
  live,   (* the instances there are                                       *)
  seen,   (* events that have been accounted for                           *)
  meter   (* how often each event counts in the meter of each instance     *)

vars == <<live, seen, meter>>

Nothing == [e \in Events |-> 0]

Init ==
  /\ live = Units
  /\ seen = {}
  /\ meter = [u \in Units |-> Nothing]

Count(e, u) ==
  /\ u \in live /\ e \notin seen
  /\ seen' = seen \cup {e}
  /\ meter' = [meter EXCEPT ![u][e] = @ + 1]
  /\ UNCHANGED live

Reset(u) ==
  /\ meter' = [meter EXCEPT ![u] = Nothing]
  /\ UNCHANGED <<live, seen>>

Delete(u) ==
  /\ live' = live \ {u}
  /\ meter' = [meter EXCEPT ![u] = Nothing]
  /\ seen \subseteq seen' /\ seen' \subseteq Events

Next == \E u \in Units : Reset(u) \/ Delete(u) \/ \E e \in Events : Count(e, u)

Spec == Init /\ [][Next]_vars

=============================================================================
