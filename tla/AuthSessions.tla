----------------------------- MODULE AuthSessions -----------------------------
(***************************************************************************)
(* Sign-in: handleLogin and the other handlers of internal/server/auth.go, *)
(* requireAuth, the login limiter and the resolution of client addresses   *)
(* in server.go, and the table "sessions" of internal/store/auth.go.       *)
(*                                                                         *)
(* Every statement of the store and every call of the limiter is a step of *)
(* its own.  A password is right or wrong; a credential is the number of   *)
(* changes so far.  A statement fails when its client has gone.            *)
(***************************************************************************)
EXTENDS Integers, Sequences, FiniteSets

CONSTANTS
  Procs,        (* requests the server handles at the same time            *)
  Ips,
  Trusted,      (* trusted_proxies                                         *)
  Claims,       (* what clients send as X-Forwarded-For                    *)
  Nil,          (* a forwarded item that is no address; no token           *)
  Tokens,       (* session tokens the generator may return                 *)
  MaxFailures,  (* 5 failures                                              *)
  Window,       (* 10 minutes                                              *)
  Idle,         (* 12 hours                                                *)
  Renew,        (* 1 hour                                                  *)
  Life,         (* 7 days                                                  *)
  MaxClock,     (* bound: clock                                            *)
  MaxVersion,   (* bound: changes of the credentials                       *)
  MaxRequests   (* bound: requests                                         *)

ASSUME IpAssumption == Trusted \subseteq Ips /\ Nil \notin Ips \cup Tokens
ASSUME ClaimsAssumption == Claims \subseteq Seq(Ips \cup {Nil})
ASSUME ProcsAssumption == IsFiniteSet(Procs)
ASSUME TimeAssumption ==
  /\ MaxFailures \in Nat \ {0} /\ Window \in Nat /\ Renew \in Nat
  /\ Idle \in Nat /\ Renew <= Idle /\ Life \in Nat /\ Idle <= Life
ASSUME BoundAssumption == MaxClock \in Nat /\ MaxVersion \in Nat /\ MaxRequests \in Nat

VARIABLES
  clock,
  version,                  (* the row of admin_users                      *)
  issued,                   (* tokens the generator has returned           *)
  live,                     (* rows of sessions, with their columns:       *)
  created, expires, seen,
  tracked,                  (* addresses the limiter knows, with values:   *)
  fails, first, until,
  pc, who, ip,              (* requests: step, client, its address         *)
  tok, kind, csrf,          (* session, what is asked, CSRF token sent     *)
  copy, stamp, plan,        (* expires_at read, time.Now(), new expires_at *)
  opened,                   (* history: version when a session was created *)
  requests                  (* requests the bound still allows             *)

limiter == <<tracked, fails, first, until>>
rows == <<live, created, expires, seen, issued, opened>>
request == <<who, ip, tok, kind, csrf>>
reading == <<copy, stamp, plan>>
vars == <<clock, version, rows, limiter, pc, request, reading, requests>>

Min2(a, b) == IF a < b THEN a ELSE b
Goto(p, step) == pc' = [pc EXCEPT ![p] = step]

Init ==
  /\ clock = 0 /\ version = 0
  /\ issued = {} /\ live = {} /\ tracked = {}
  /\ created = [t \in Tokens |-> 0] /\ expires = created /\ seen = created /\ opened = created
  /\ fails = [a \in Ips |-> 0] /\ first = fails /\ until = fails
  /\ pc = [p \in Procs |-> "idle"]
  /\ who = [p \in Procs |-> Nil] /\ ip = who /\ tok = who /\ csrf = who
  /\ kind = [p \in Procs |-> "get"]
  /\ copy = [p \in Procs |-> 0] /\ stamp = copy /\ plan = copy
  /\ requests = MaxRequests

-----------------------------------------------------------------------------
(* Addresses.                                                              *)

(* Mutant: the leftmost address is the client's.                           *)
ClientIP_Left(peer, header) ==
  IF peer \in Trusted /\ \E i \in DOMAIN header : header[i] # Nil
  THEN header[CHOOSE i \in DOMAIN header :
                header[i] # Nil /\ \A j \in 1 .. i - 1 : header[j] = Nil]
  ELSE peer

(* resolveClientIP: only a trusted proxy is believed; the last address in  *)
(* its header that is not a trusted proxy counts, or else the first.       *)
ClientIP(peer, header) ==
  LET valid == {i \in DOMAIN header : header[i] # Nil}
      foreign == {i \in valid : header[i] \notin Trusted}
      last == {i \in foreign : \A j \in foreign : j <= i}
      leftmost == {i \in valid : \A j \in valid : i <= j}
  IN IF peer \notin Trusted THEN peer
     ELSE IF last # {} THEN header[CHOOSE i \in last : TRUE]
     ELSE IF leftmost # {} THEN header[CHOOSE i \in leftmost : TRUE]
     ELSE peer

(* A request arrives from the client itself or through proxies, which      *)
(* append the address they were called from.                               *)
Forwarded(c) ==
  {Append(claim, c) : claim \in Claims}
    \cup UNION {{claim \o <<c, r>> : claim \in Claims} : r \in Trusted}
Arrivals(c) == ({c} \X Claims) \cup (Trusted \X Forwarded(c))

-----------------------------------------------------------------------------
(* handleLogin.                                                            *)

(* The window of an address is over, or there is none.                     *)
Over(a) == a \notin tracked \/ clock - first[a] > Window

(* allow; a request it refuses ends with 429.                              *)
LoginAllow(p, c) ==
  /\ pc[p] = "idle" /\ requests > 0
  /\ \E arrival \in Arrivals(c) :
       LET a == ClientIP(arrival[1], arrival[2])
       IN /\ Over(a) \/ clock >= until[a]
          /\ tracked' = IF Over(a) THEN tracked \ {a} ELSE tracked
          /\ ip' = [ip EXCEPT ![p] = a]
  /\ who' = [who EXCEPT ![p] = c]
  /\ requests' = requests - 1
  /\ Goto(p, "read")
  /\ UNCHANGED <<clock, version, rows, fails, first, until, tok, kind, csrf, reading>>

(* The row is read and the password verified; an error counts as a wrong   *)
(* password, a body that is no JSON does not count.                        *)
LoginRead(p) ==
  /\ pc[p] = "read"
  /\ \E step \in {"success", "fail", "idle"} : Goto(p, step)
  /\ UNCHANGED <<clock, version, rows, limiter, request, reading, requests>>

(* Mutant: the block begins one failure late.                              *)
Blocks_Late(failures) == failures > MaxFailures

Blocks(failures) == failures >= MaxFailures

(* fail: the answer comes after a delay, which blocks nobody else.         *)
LoginFail(p) ==
  LET a == ip[p]
      start == IF Over(a) THEN clock ELSE first[a]
      failures == IF Over(a) THEN 1 ELSE fails[a] + 1
  IN /\ pc[p] = "fail"
     /\ tracked' = tracked \cup {a}
     /\ fails' = [fails EXCEPT ![a] = failures]
     /\ first' = [first EXCEPT ![a] = start]
     /\ until' = [until EXCEPT ![a] = IF Blocks(failures) THEN start + Window
                                      ELSE IF Over(a) THEN 0 ELSE @]
     /\ Goto(p, "idle")
     /\ UNCHANGED <<clock, version, rows, request, reading, requests>>

(* success forgets the failures of the address.                            *)
LoginSuccess(p) ==
  /\ pc[p] = "success"
  /\ tracked' = tracked \ {ip[p]}
  /\ Goto(p, "create")
  /\ UNCHANGED <<clock, version, rows, fails, first, until, request, reading, requests>>

(* CreateSession with a token nobody has had.                              *)
LoginCreate(p) ==
  /\ pc[p] = "create"
  /\ \/ \E t \in Tokens \ issued :
          /\ issued' = issued \cup {t} /\ live' = live \cup {t}
          /\ created' = [created EXCEPT ![t] = clock]
          /\ expires' = [expires EXCEPT ![t] = clock + Idle]
          /\ seen' = [seen EXCEPT ![t] = clock]
          /\ opened' = [opened EXCEPT ![t] = version]
     \/ UNCHANGED rows
  /\ Goto(p, "idle")
  /\ UNCHANGED <<clock, version, limiter, request, reading, requests>>

-----------------------------------------------------------------------------
(* requireAuth, in front of every other handler.                           *)

Kinds == {"get", "logout", "revoke", "change"}
Valid(t) == t \in live /\ expires[t] > clock

(* Session reads the row if it has not expired.                            *)
AuthRead(p, t, what, sent) ==
  /\ pc[p] = "idle" /\ requests > 0
  /\ t \in issued /\ sent \in issued \cup {Nil}
  /\ Valid(t)
  /\ tok' = [tok EXCEPT ![p] = t]
  /\ kind' = [kind EXCEPT ![p] = what]
  /\ csrf' = [csrf EXCEPT ![p] = sent]
  /\ copy' = [copy EXCEPT ![p] = expires[t]]
  /\ requests' = requests - 1
  /\ Goto(p, "plan")
  /\ UNCHANGED <<clock, version, rows, limiter, who, ip, stamp, plan>>

(* Mutant: a session may be extended for ever.                             *)
Extended_Open(expiry, t) == IF expiry - clock < Renew THEN clock + Idle ELSE expiry

(* authenticate: a session with less than Renew left gets Idle more, up to *)
(* Life after its creation.                                                *)
Extended(expiry, t) ==
  IF expiry - clock < Renew THEN Min2(clock + Idle, created[t] + Life) ELSE expiry

AuthPlan(p) ==
  /\ pc[p] = "plan"
  /\ stamp' = [stamp EXCEPT ![p] = clock]
  /\ plan' = [plan EXCEPT ![p] = Extended(copy[p], tok[p])]
  /\ Goto(p, "touch")
  /\ UNCHANGED <<clock, version, rows, limiter, request, copy, requests>>

(* Mutant: a row that is not there is inserted again.                      *)
Touched_Upsert(t) == {t}

(* The rows an UPDATE of a session finds.                                  *)
Touched(t) == live \cap {t}

(* TouchSession, whose error is ignored, then the check of the CSRF token  *)
(* for everything but reading.                                             *)
AuthTouch(p) ==
  LET t == tok[p]
  IN /\ pc[p] = "touch"
     /\ \/ /\ Touched(t) # {}
           /\ live' = live \cup Touched(t)
           /\ expires' = [expires EXCEPT ![t] = plan[p]]
           /\ seen' = [seen EXCEPT ![t] = stamp[p]]
        \/ UNCHANGED <<live, expires, seen>>
     /\ Goto(p, IF kind[p] = "get" \/ csrf[p] # t THEN "idle" ELSE kind[p])
     /\ UNCHANGED <<clock, version, issued, created, opened, limiter, request, reading, requests>>

-----------------------------------------------------------------------------
(* The handlers that end sessions.                                         *)

EndSessions(gone) ==
  /\ live' = live \ gone
  /\ UNCHANGED <<issued, created, expires, seen, opened>>

(* handleLogout: DeleteSession, whose error is ignored.                    *)
Logout(p) ==
  /\ pc[p] = "logout"
  /\ EndSessions({tok[p]}) \/ UNCHANGED rows
  /\ Goto(p, "idle")
  /\ UNCHANGED <<clock, version, limiter, request, reading, requests>>

(* handleDeleteSessions.                                                   *)
RevokeAll(p) ==
  /\ pc[p] = "revoke"
  /\ EndSessions(live) \/ UNCHANGED rows
  /\ Goto(p, "idle")
  /\ UNCHANGED <<clock, version, limiter, request, reading, requests>>

(* Mutant: the sessions stay.                                              *)
UpdateAdminCredentials_Stay ==
  /\ version < MaxVersion /\ version' = version + 1
  /\ UNCHANGED rows

(* UpdateAdminCredentials: the row and all sessions in one transaction.    *)
UpdateAdminCredentials ==
  /\ version < MaxVersion /\ version' = version + 1
  /\ EndSessions(live)

(* handleCredentials verifies the current password first.                  *)
ChangeRead(p) ==
  /\ pc[p] = "change"
  /\ Goto(p, "write") \/ Goto(p, "idle")
  /\ UNCHANGED <<clock, version, rows, limiter, request, reading, requests>>

ChangeWrite(p) ==
  /\ pc[p] = "write"
  /\ UpdateAdminCredentials \/ UNCHANGED <<version, rows>>
  /\ Goto(p, "idle")
  /\ UNCHANGED <<clock, limiter, request, reading, requests>>

(* "olcrtc-panel credentials reset" or "set", in a process of its own.     *)
CredentialsCommand ==
  /\ UpdateAdminCredentials
  /\ UNCHANGED <<clock, limiter, pc, request, reading, requests>>

-----------------------------------------------------------------------------
(* The panel ends and starts again: the limiter is in its memory.          *)
Restart ==
  /\ requests > 0 /\ requests' = requests - 1
  /\ tracked' = {}
  /\ pc' = [p \in Procs |-> "idle"]
  /\ UNCHANGED <<clock, version, rows, fails, first, until, request, reading>>

Tick ==
  /\ clock < MaxClock /\ clock' = clock + 1
  /\ UNCHANGED <<version, rows, limiter, pc, request, reading, requests>>

Login(p) ==
  \/ \E c \in Ips : LoginAllow(p, c)
  \/ LoginRead(p) \/ LoginFail(p) \/ LoginSuccess(p) \/ LoginCreate(p)

Request(p) ==
  \/ \E t \in Tokens, what \in Kinds, sent \in Tokens \cup {Nil} : AuthRead(p, t, what, sent)
  \/ AuthPlan(p) \/ AuthTouch(p)
  \/ Logout(p) \/ RevokeAll(p) \/ ChangeRead(p) \/ ChangeWrite(p)

Next ==
  \/ \E p \in Procs : Login(p) \/ Request(p)
  \/ CredentialsCommand \/ Restart \/ Tick

Spec == Init /\ [][Next]_vars

-----------------------------------------------------------------------------
Steps == {"idle", "read", "success", "fail", "create", "plan", "touch", "write"} \cup Kinds

TypeOK ==
  /\ clock \in Nat /\ version \in Nat /\ requests \in Nat
  /\ issued \subseteq Tokens /\ live \subseteq issued
  /\ created \in [Tokens -> Nat] /\ expires \in [Tokens -> Int] /\ seen \in [Tokens -> Nat]
  /\ opened \in [Tokens -> Nat]
  /\ fails \in [Ips -> Nat] /\ first \in [Ips -> Nat] /\ until \in [Ips -> Nat]
  /\ pc \in [Procs -> Steps]
  /\ kind \in [Procs -> Kinds]
  /\ tok \in [Procs -> Tokens \cup {Nil}] /\ ip \in [Procs -> Ips \cup {Nil}]
  /\ tracked \subseteq Ips
  /\ copy \in [Procs -> Int] /\ stamp \in [Procs -> Nat] /\ plan \in [Procs -> Int]

(* A change of the credentials signs everybody out: no session that was    *)
(* opened before it is there after it, whatever requests were under way    *)
(* and write back what they have read.  (auth.go:119, "all sessions        *)
(* revoked".)                                                              *)
ChangeSignsOut == \A t \in live : opened[t] = version

(* A session that has ended does not come back.  One that was deleted is   *)
(* gone for good; one that has only expired is valid again if a request    *)
(* that found it valid extends it late.                                    *)
NoReturn ==
  [][\A t \in issued :
       ~Valid(t) /\ Valid(t)' => t \in live /\ \E p \in Procs : pc[p] = "touch" /\ tok[p] = t]_vars

(* The columns of a session agree, whichever of several requests wrote     *)
(* last: it is open for Renew after the use it records, unless its life    *)
(* ends, and its life ends Life after its creation.                        *)
SessionWindow ==
  \A t \in live :
    /\ expires[t] <= created[t] + Life
    /\ expires[t] >= Min2(seen[t] + Renew, created[t] + Life)

(* Attempts the limiter has let in and that may still fail.                *)
Pending(a) == {p \in Procs : pc[p] \in {"read", "success", "fail"} /\ ip[p] = a}

(* While the window of an address runs, it has at most one failure less    *)
(* than the limit and those of attempts under way: what overlaps with the  *)
(* failure that reaches the limit still counts, what comes later is        *)
(* refused.                                                                *)
LockoutBounded ==
  \A a \in tracked :
    clock < first[a] + Window =>
      fails[a] + Cardinality(Pending(a)) <= MaxFailures - 1 + Cardinality(Procs)

(* Failures of a client are counted for its own address, whatever it says  *)
(* in X-Forwarded-For and through one trusted proxy it came or two.        *)
OwnAddress ==
  \A p \in Procs : pc[p] \in {"read", "success", "fail"} /\ who[p] \notin Trusted => ip[p] = who[p]

=============================================================================
