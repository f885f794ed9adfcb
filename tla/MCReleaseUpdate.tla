--------------------------- MODULE MCReleaseUpdate ---------------------------
(* ReleaseUpdate with the installed bundle, one that works and one whose   *)
(* panel does not serve; two settings requests that could end in paths     *)
(* that overlap.                                                           *)
EXTENDS ReleaseUpdate, TLC

Request(ip, port, panelPath, subPath) ==
  [ip |-> ip, port |-> port, panel_path |-> panelPath, subscription_path |-> subPath]

SomeInputs == {
  Request(TRUE, "p2", None, None),
  Request(FALSE, None, <<"a">>, None),
  Request(FALSE, None, None, <<"a", "s">>) }

DefaultConfig == [port |-> "p1", panel_path |-> <<>>, subscription_path |-> <<"s">>]

Symmetry == Permutations(Handlers)

(* What a request that is over has read or sent does not matter any more,  *)
(* and of the keys only which are the same.                                *)
Rest(h, value) == IF step[h] = "idle" THEN None ELSE value
View ==
  << [h \in Handlers |->
        << step[h], Rest(h, input[h]), Rest(h, candidate[h]),
           Rest(h, own[h] = cert) >>],
     cert = key, stored, torn, events, links, assets, unit, panel,
     script, browser, view, history >>
=============================================================================
