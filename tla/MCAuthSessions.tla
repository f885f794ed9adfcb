---- MODULE MCAuthSessions ----
(* Instances of AuthSessions for TLC.                                      *)
EXTENDS AuthSessions, TLC

CONSTANTS Client, Proxy

SomeClaims == {<< >>, <<Nil, Client>>, <<Proxy>>}
Symmetry == Permutations(Procs) \cup Permutations(Tokens)

(* What a request has in its variables after its last use, a deleted row   *)
(* and an address the limiter has forgotten do not tell states apart.      *)
Local(p) ==
  CASE pc[p] = "idle" -> << >>
    [] pc[p] \in {"read", "fail", "success"} -> <<who[p], ip[p]>>
    [] pc[p] \in {"plan", "touch"} -> <<tok[p], IF csrf[p] = tok[p] THEN kind[p] ELSE "get",
                                      copy[p], plan[p], stamp[p]>>
    [] pc[p] = "logout" -> <<tok[p]>>
    [] OTHER -> << >>
View ==
  <<clock, version, requests, issued,
    [t \in live |-> <<created[t], expires[t], seen[t], opened[t]>>],
    [a \in tracked |-> <<fails[a], first[a], until[a]>>],
    [p \in Procs |-> <<pc[p], Local(p)>>]>>

====
