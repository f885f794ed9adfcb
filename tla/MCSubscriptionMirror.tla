------------------------ MODULE MCSubscriptionMirror ------------------------
(* Instances of SubscriptionMirror for TLC.                                *)
EXTENDS SubscriptionMirror, TLC

Symmetry == Permutations(Requests) \cup Permutations(Workers)

=============================================================================
