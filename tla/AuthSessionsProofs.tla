-------------------------- MODULE AuthSessionsProofs --------------------------
(***************************************************************************)
(* For every number of requests, clients, tokens and every length of the   *)
(* times: a change of the credentials signs everybody out, what was signed *)
(* out stays out, the columns of a session agree, and the limiter refuses  *)
(* what comes after the last failure it allows.                            *)
(***************************************************************************)
EXTENDS AuthSessions, FiniteSetTheorems, TLAPS

Attempting == {"read", "success", "fail"}
Cap(t) == created[t] + Life

(* A request that has read a session will write columns that agree.        *)
Reading ==
  \A p \in Procs :
    /\ pc[p] \in Attempting => ip[p] \in Ips
    /\ pc[p] \in {"plan", "touch", "logout"} => tok[p] \in issued
    /\ pc[p] \in {"plan", "touch"} => copy[p] <= Cap(tok[p])
    /\ pc[p] = "touch" => /\ plan[p] <= Cap(tok[p])
                          /\ plan[p] >= Min2(stamp[p] + Renew, Cap(tok[p]))

(* An address with all its failures is blocked until its window ends.      *)
Blocked == \A a \in tracked : fails[a] >= MaxFailures => until[a] >= first[a] + Window

Inv == TypeOK /\ Reading /\ ChangeSignsOut /\ SessionWindow
Lock == Inv /\ Blocked /\ LockoutBounded

(* The address that is counted is one of a client or of a proxy.           *)
LEMMA ClientIPType ==
  ASSUME NEW peer \in Ips, NEW header \in Seq(Ips \cup {Nil})
  PROVE  ClientIP(peer, header) \in Ips
<1> DEFINE valid == {i \in DOMAIN header : header[i] # Nil}
           foreign == {i \in valid : header[i] \notin Trusted}
           last == {i \in foreign : \A j \in foreign : j <= i}
           leftmost == {i \in valid : \A j \in valid : i <= j}
<1>1. \A i \in valid : header[i] \in Ips
  BY DEF valid
<1>2. last \subseteq valid /\ leftmost \subseteq valid
  OBVIOUS
<1>3. last # {} => (CHOOSE i \in last : TRUE) \in last
  OBVIOUS
<1>4. leftmost # {} => (CHOOSE i \in leftmost : TRUE) \in leftmost
  OBVIOUS
<1> HIDE DEF valid, foreign, last, leftmost
<1>5. ClientIP(peer, header) = IF peer \notin Trusted THEN peer
        ELSE IF last # {} THEN header[CHOOSE i \in last : TRUE]
        ELSE IF leftmost # {} THEN header[CHOOSE i \in leftmost : TRUE]
        ELSE peer
  BY DEF ClientIP, valid, foreign, last, leftmost
<1> QED BY <1>1, <1>2, <1>3, <1>4, <1>5

(* Proxies hand on lists of addresses.                                     *)
LEMMA ForwardedType ==
  ASSUME NEW c \in Ips, NEW header \in Forwarded(c)
  PROVE  header \in Seq(Ips \cup {Nil})
<1>1. Claims \subseteq Seq(Ips \cup {Nil}) /\ Trusted \subseteq Ips
  BY ClaimsAssumption, IpAssumption
<1>2. CASE \E claim \in Claims : header = Append(claim, c)
  BY <1>1, <1>2
<1>3. CASE \E r \in Trusted : header \in {claim \o <<c, r>> : claim \in Claims}
  <2>1. PICK r \in Trusted, claim \in Claims : header = claim \o <<c, r>>
    BY <1>3
  <2>2. claim \in Seq(Ips \cup {Nil}) /\ <<c, r>> \in Seq(Ips \cup {Nil})
    BY <1>1
  <2> QED BY <2>1, <2>2
<1> QED BY <1>2, <1>3 DEF Forwarded

(* So every request has an address.                                        *)
LEMMA ArrivalsType ==
  ASSUME NEW c \in Ips, NEW arrival \in Arrivals(c)
  PROVE  ClientIP(arrival[1], arrival[2]) \in Ips
<1>1. Claims \subseteq Seq(Ips \cup {Nil}) /\ Trusted \subseteq Ips
  BY ClaimsAssumption, IpAssumption
<1>2. \A header \in Forwarded(c) : header \in Seq(Ips \cup {Nil})
  BY ForwardedType
<1>3. arrival[1] \in Ips /\ arrival[2] \in Seq(Ips \cup {Nil})
  <2>1. CASE arrival \in {c} \X Claims
    BY <1>1, <2>1
  <2>2. CASE arrival \in Trusted \X Forwarded(c)
    BY <1>1, <1>2, <2>2
  <2> QED BY <2>1, <2>2 DEF Arrivals
<1> QED BY <1>3, ClientIPType

(* In the beginning there are no sessions and no failures.                 *)
LEMMA InitInv == Init => Lock
<1> SUFFICES ASSUME Init PROVE Lock OBVIOUS
<1>1. TypeOK
  BY BoundAssumption DEF Init, TypeOK, Steps, Kinds
<1>2. Reading /\ ChangeSignsOut /\ SessionWindow /\ Blocked /\ LockoutBounded
  BY DEF Init, Reading, ChangeSignsOut, SessionWindow, Blocked, LockoutBounded, Attempting
<1> QED BY <1>1, <1>2 DEF Lock, Inv

-----------------------------------------------------------------------------
(* The steps of a login.                                                   *)

(* What a request gets when it is let in.                                  *)
LEMMA AllowFacts ==
  ASSUME TypeOK, NEW p \in Procs, NEW c \in Ips, LoginAllow(p, c)
  PROVE  \E a \in Ips :
           /\ Over(a) \/ clock >= until[a]
           /\ tracked' = IF Over(a) THEN tracked \ {a} ELSE tracked
           /\ ip' = [ip EXCEPT ![p] = a]
<1>1. PICK arrival \in Arrivals(c) :
        LET a == ClientIP(arrival[1], arrival[2])
        IN /\ Over(a) \/ clock >= until[a]
           /\ tracked' = IF Over(a) THEN tracked \ {a} ELSE tracked
           /\ ip' = [ip EXCEPT ![p] = a]
  BY DEF LoginAllow
<1> QED BY <1>1, ArrivalsType

(* A login changes the sessions only when it creates one.                  *)
LEMMA LoginInv ==
  ASSUME Inv, NEW p \in Procs, Login(p)
  PROVE  Inv'
<1> USE DEF Inv
<1>1. ASSUME NEW c \in Ips, LoginAllow(p, c) PROVE Inv'
  <2>1. PICK a \in Ips : tracked' = (IF Over(a) THEN tracked \ {a} ELSE tracked)
                         /\ ip' = [ip EXCEPT ![p] = a]
    BY <1>1, AllowFacts
  <2>2. TypeOK'
    BY <1>1, <2>1 DEF LoginAllow, TypeOK, Goto, Steps, rows, reading
  <2>3. Reading'
    BY <1>1, <2>1 DEF LoginAllow, TypeOK, Goto, rows, reading, Reading, Attempting, Cap
  <2>4. ChangeSignsOut' /\ SessionWindow'
    BY <1>1 DEF LoginAllow, rows, ChangeSignsOut, SessionWindow
  <2> QED BY <2>2, <2>3, <2>4
<1>2. CASE LoginRead(p) \/ LoginFail(p) \/ LoginSuccess(p)
  <2>1. TypeOK'
    <3>1. CASE LoginRead(p) \/ LoginSuccess(p)
      BY <3>1 DEF LoginRead, LoginSuccess, TypeOK, Goto, Steps, rows, limiter, request, reading
    <3>2. CASE LoginFail(p)
      <4>1. ip[p] \in Ips
        BY <3>2 DEF LoginFail, Reading, Attempting
      <4>2. clock \in Nat /\ first[ip[p]] \in Nat /\ fails[ip[p]] \in Nat /\ until[ip[p]] \in Nat
        BY <4>1 DEF TypeOK
      <4> QED BY <3>2, <4>1, <4>2, TimeAssumption
              DEF LoginFail, TypeOK, Goto, Steps, rows, request, reading
    <3> QED BY <1>2, <3>1, <3>2
  <2>2. Reading'
    BY <1>2 DEF LoginRead, LoginFail, LoginSuccess, TypeOK, Goto, rows, request, reading,
                Reading, Attempting, Cap
  <2>3. ChangeSignsOut' /\ SessionWindow'
    BY <1>2 DEF LoginRead, LoginFail, LoginSuccess, rows, ChangeSignsOut, SessionWindow
  <2> QED BY <2>1, <2>2, <2>3
<1>3. CASE LoginCreate(p)
  <2>1. TypeOK'
    BY <1>3, TimeAssumption DEF LoginCreate, TypeOK, Goto, Steps, rows, limiter, request, reading
  <2>2. \A t \in issued : t \in issued' /\ created'[t] = created[t]
    BY <1>3 DEF LoginCreate, rows, TypeOK
  <2>3. Reading'
    BY <1>3, <2>2 DEF LoginCreate, TypeOK, Goto, request, reading, Reading, Attempting, Cap
  <2>4. ChangeSignsOut'
    BY <1>3 DEF LoginCreate, rows, TypeOK, ChangeSignsOut
  <2>5. SessionWindow'
    BY <1>3, TimeAssumption DEF LoginCreate, rows, TypeOK, SessionWindow, Min2
  <2> QED BY <2>1, <2>3, <2>4, <2>5
<1> QED BY <1>1, <1>2, <1>3 DEF Login

-----------------------------------------------------------------------------
(* The steps of the other requests.                                        *)

(* An extension is long enough and ends with the life of the session.      *)
LEMMA ExtendedFacts ==
  ASSUME TypeOK, NEW t \in Tokens, NEW expiry \in Int, expiry <= Cap(t)
  PROVE  /\ Extended(expiry, t) \in Int
         /\ Extended(expiry, t) <= Cap(t)
         /\ Extended(expiry, t) >= Min2(clock + Renew, Cap(t))
BY TimeAssumption DEF TypeOK, Extended, Min2, Cap

(* Reading a session, planning and touching.                               *)
LEMMA AuthInv ==
  ASSUME Inv, NEW p \in Procs,
         \/ \E t \in Tokens, what \in Kinds, sent \in Tokens \cup {Nil} : AuthRead(p, t, what, sent)
         \/ AuthPlan(p) \/ AuthTouch(p)
  PROVE  Inv'
<1> USE DEF Inv
<1>1. ASSUME NEW t \in Tokens, NEW what \in Kinds, NEW sent \in Tokens \cup {Nil},
             AuthRead(p, t, what, sent)
      PROVE  Inv'
  <2>1. TypeOK'
    BY <1>1 DEF AuthRead, TypeOK, Goto, Steps, rows, limiter
  <2>2. expires[t] <= Cap(t)
    BY <1>1 DEF AuthRead, Valid, SessionWindow, Cap
  <2>3. Reading'
    BY <1>1, <2>2 DEF AuthRead, TypeOK, Goto, rows, Reading, Attempting, Cap
  <2>4. ChangeSignsOut' /\ SessionWindow'
    BY <1>1 DEF AuthRead, rows, ChangeSignsOut, SessionWindow
  <2> QED BY <2>1, <2>3, <2>4
<1>2. CASE AuthPlan(p)
  <2> DEFINE x == Extended(copy[p], tok[p])
  <2>1. tok[p] \in Tokens /\ copy[p] \in Int /\ copy[p] <= Cap(tok[p])
    BY <1>2 DEF AuthPlan, TypeOK, Reading
  <2>2. x \in Int /\ x <= Cap(tok[p]) /\ x >= Min2(clock + Renew, Cap(tok[p]))
    BY <2>1, ExtendedFacts
  <2>3. plan' = [plan EXCEPT ![p] = x] /\ stamp' = [stamp EXCEPT ![p] = clock]
    BY <1>2 DEF AuthPlan
  <2> HIDE DEF x
  <2>4. TypeOK'
    BY <1>2, <2>2, <2>3 DEF AuthPlan, TypeOK, Goto, Steps, rows, limiter, request
  <2>5. Reading'
    BY <1>2, <2>2, <2>3 DEF AuthPlan, TypeOK, Goto, rows, request, Reading, Attempting, Cap
  <2>6. ChangeSignsOut' /\ SessionWindow'
    BY <1>2 DEF AuthPlan, rows, ChangeSignsOut, SessionWindow
  <2> QED BY <2>4, <2>5, <2>6
<1>3. CASE AuthTouch(p)
  <2>1. /\ live' = live /\ UNCHANGED <<clock, version, issued, created, opened>>
        /\ tok[p] \in issued /\ pc[p] = "touch"
    BY <1>3 DEF AuthTouch, Touched, Reading
  <2>2. TypeOK'
    BY <1>3, <2>1 DEF AuthTouch, TypeOK, Goto, Steps, limiter, request, reading
  <2>3. Reading'
    BY <1>3 DEF AuthTouch, TypeOK, Goto, Kinds, request, reading, Reading, Attempting, Cap
  <2>4. ChangeSignsOut'
    BY <2>1 DEF ChangeSignsOut
  <2>5. ASSUME NEW t \in live' PROVE /\ expires'[t] <= created'[t] + Life
                                     /\ expires'[t] >= Min2(seen'[t] + Renew, created'[t] + Life)
    <3>1. CASE UNCHANGED <<expires, seen>>
      BY <2>1, <2>5, <3>1 DEF SessionWindow
    <3>2. CASE /\ expires' = [expires EXCEPT ![tok[p]] = plan[p]]
               /\ seen' = [seen EXCEPT ![tok[p]] = stamp[p]]
      <4>1. CASE t = tok[p]
        BY <2>1, <3>2, <4>1 DEF Reading, Cap, TypeOK
      <4>2. CASE t # tok[p]
        BY <2>1, <2>5, <3>2, <4>2 DEF SessionWindow, TypeOK
      <4> QED BY <4>1, <4>2
    <3> QED BY <1>3, <3>1, <3>2 DEF AuthTouch
  <2> QED BY <2>2, <2>3, <2>4, <2>5 DEF SessionWindow
<1> QED BY <1>1, <1>2, <1>3

(* Handlers and the command that end sessions leave the others as they are.*)
LEMMA EndInv ==
  ASSUME Inv,
         \/ \E p \in Procs : Logout(p) \/ RevokeAll(p) \/ ChangeRead(p) \/ ChangeWrite(p)
         \/ CredentialsCommand
  PROVE  Inv'
<1> USE DEF Inv
<1>1. /\ \/ live' \subseteq live /\ version' = version
         \/ live' = {} /\ version' \in Nat
      /\ UNCHANGED <<issued, created, expires, seen, opened>>
  BY DEF Logout, RevokeAll, ChangeRead, ChangeWrite, CredentialsCommand, EndSessions,
         UpdateAdminCredentials, rows, TypeOK
<1>2. UNCHANGED <<clock, limiter, request, reading, requests>>
  BY DEF Logout, RevokeAll, ChangeRead, ChangeWrite, CredentialsCommand
<1>3. /\ pc' \in [Procs -> Steps]
      /\ \A p \in Procs : pc'[p] # pc[p] => pc'[p] \in {"idle", "write"}
  BY DEF Logout, RevokeAll, ChangeRead, ChangeWrite, CredentialsCommand, Goto, TypeOK, Steps
<1>4. TypeOK'
  BY <1>1, <1>2, <1>3 DEF TypeOK, limiter, request, reading
<1>5. Reading'
  BY <1>1, <1>2, <1>3 DEF Reading, Attempting, Cap, request, reading
<1>6. ChangeSignsOut' /\ SessionWindow'
  BY <1>1 DEF ChangeSignsOut, SessionWindow
<1> QED BY <1>4, <1>5, <1>6

(* Nothing else changes a session.                                         *)
LEMMA NextInv == Inv /\ [Next]_vars => Inv'
<1> SUFFICES ASSUME Inv, [Next]_vars PROVE Inv' OBVIOUS
<1>1. CASE Restart
  BY <1>1 DEF Restart, Inv, TypeOK, Steps, Reading, Attempting, Cap, ChangeSignsOut, SessionWindow,
              rows, request, reading
<1>2. CASE Tick
  BY <1>2 DEF Tick, Inv, TypeOK, Reading, Attempting, Cap, ChangeSignsOut, SessionWindow,
              rows, limiter, request, reading
<1>3. CASE UNCHANGED vars
  BY <1>3 DEF vars, Inv, TypeOK, Reading, Attempting, Cap, ChangeSignsOut, SessionWindow,
              rows, limiter, request, reading
<1> QED BY <1>1, <1>2, <1>3, LoginInv, AuthInv, EndInv DEF Next, Request

(* The variables keep their types.                                         *)
THEOREM TypeCorrect == Spec => []TypeOK
<1>1. Init => Inv
  BY InitInv DEF Lock
<1>2. Inv => TypeOK
  BY DEF Inv
<1> QED BY <1>1, <1>2, NextInv, PTL DEF Spec

(* A change of the credentials signs everybody out.                        *)
THEOREM ChangeSignsOutHolds == Spec => []ChangeSignsOut
<1>1. Init => Inv
  BY InitInv DEF Lock
<1>2. Inv => ChangeSignsOut
  BY DEF Inv
<1> QED BY <1>1, <1>2, NextInv, PTL DEF Spec

(* Sessions end in time, and not before it, whoever wrote last.            *)
THEOREM SessionWindowHolds == Spec => []SessionWindow
<1>1. Init => Inv
  BY InitInv DEF Lock
<1>2. Inv => SessionWindow
  BY DEF Inv
<1> QED BY <1>1, <1>2, NextInv, PTL DEF Spec

-----------------------------------------------------------------------------
(* What has ended.                                                         *)

(* A session that is valid again after a step was in the table, and a      *)
(* request was about to write its expiry.                                  *)
LEMMA Revived ==
  ASSUME Inv, [Next]_vars, NEW t \in issued, ~Valid(t), Valid(t)'
  PROVE  t \in live /\ \E p \in Procs : pc[p] = "touch" /\ tok[p] = t
<1> USE DEF Inv
<1>1. CASE \E p \in Procs : AuthTouch(p)
  <2>1. PICK p \in Procs : AuthTouch(p)
    BY <1>1
  <2>2. live' = live /\ clock' = clock /\ pc[p] = "touch"
    BY <2>1 DEF AuthTouch, Touched
  <2>3. t \in live /\ expires[t] <= clock
    BY <2>2 DEF Valid, TypeOK
  <2>4. expires'[t] # expires[t]
    BY <2>2, <2>3 DEF Valid, TypeOK
  <2>5. expires' = [expires EXCEPT ![tok[p]] = plan[p]]
    BY <2>1, <2>4 DEF AuthTouch
  <2>6. tok[p] = t
    BY <2>4, <2>5 DEF TypeOK
  <2> QED BY <2>2, <2>3, <2>6
<1>2. CASE ~\E p \in Procs : AuthTouch(p)
  <2>1. /\ t \in live' => t \in live
        /\ expires'[t] = expires[t] /\ clock' \in Nat /\ clock' >= clock
    <3>1. CASE \E p \in Procs : LoginCreate(p)
      BY <3>1 DEF LoginCreate, rows, TypeOK
    <3>2. CASE \E p \in Procs : Login(p) /\ ~LoginCreate(p)
      BY <3>2 DEF Login, LoginAllow, LoginRead, LoginFail, LoginSuccess, rows, TypeOK
    <3>3. CASE \E p \in Procs : Request(p)
      BY <1>2, <3>3 DEF Request, AuthRead, AuthPlan, Logout, RevokeAll, ChangeRead, ChangeWrite,
                        EndSessions, UpdateAdminCredentials, rows, TypeOK
    <3>4. CASE CredentialsCommand \/ Restart \/ Tick \/ UNCHANGED vars
      BY <3>4 DEF CredentialsCommand, UpdateAdminCredentials, EndSessions, Restart, Tick,
                  rows, vars, TypeOK
    <3> QED BY <3>1, <3>2, <3>3, <3>4 DEF Next
  <2> QED BY <2>1 DEF Valid, TypeOK
<1> QED BY <1>1, <1>2

(* What has been signed out does not come back.                            *)
THEOREM NoReturnHolds == Spec => NoReturn
<1>1. Init => Inv
  BY InitInv DEF Lock
<1>2. Inv /\ [Next]_vars =>
        [\A t \in issued :
           ~Valid(t) /\ Valid(t)' => t \in live /\ \E p \in Procs : pc[p] = "touch" /\ tok[p] = t]_vars
  BY Revived
<1> QED BY <1>1, <1>2, NextInv, PTL DEF Spec, NoReturn

-----------------------------------------------------------------------------
(* The limiter.                                                            *)

(* Attempts are requests.                                                  *)
LEMMA PendingFacts ==
  ASSUME NEW a
  PROVE  /\ Pending(a) \subseteq Procs /\ IsFiniteSet(Pending(a))
         /\ Cardinality(Pending(a)) \in Nat /\ Cardinality(Procs) \in Nat
         /\ Cardinality(Pending(a)) <= Cardinality(Procs)
<1>1. Pending(a) \subseteq Procs
  BY DEF Pending
<1> QED BY <1>1, ProcsAssumption, FS_Subset, FS_CardinalityType

(* The same after a step.                                                  *)
LEMMA PendingFactsNext ==
  ASSUME NEW a
  PROVE  /\ Pending(a)' \subseteq Procs /\ IsFiniteSet(Pending(a)')
         /\ Cardinality(Pending(a)') \in Nat /\ Cardinality(Procs) \in Nat
         /\ Cardinality(Pending(a)') <= Cardinality(Procs)
<1>1. Pending(a)' \subseteq Procs
  BY DEF Pending
<1> QED BY <1>1, ProcsAssumption, FS_Subset, FS_CardinalityType

(* Fewer attempts do not count for more.                                   *)
LEMMA FewerPending ==
  ASSUME NEW a, Pending(a)' \subseteq Pending(a)
  PROVE  Cardinality(Pending(a)') <= Cardinality(Pending(a))
BY PendingFacts, FS_Subset

(* A step that lets nobody in and counts no failure.                       *)
LEMMA QuietLock ==
  ASSUME Lock, Inv', UNCHANGED <<fails, first, until>>, tracked' \subseteq tracked,
         clock' >= clock, \A a \in tracked' : Pending(a)' \subseteq Pending(a)
  PROVE  Lock'
<1>1. Blocked'
  BY DEF Lock, Blocked
<1>2. ASSUME NEW a \in tracked', clock' < first'[a] + Window
      PROVE  fails'[a] + Cardinality(Pending(a)') <= MaxFailures - 1 + Cardinality(Procs)
  <2>1. a \in tracked /\ first[a] \in Nat /\ clock \in Nat /\ clock' \in Nat /\ fails[a] \in Nat
    BY <1>2 DEF Lock, Inv, TypeOK
  <2>2. fails[a] + Cardinality(Pending(a)) <= MaxFailures - 1 + Cardinality(Procs)
    BY <1>2, <2>1, TimeAssumption DEF Lock, LockoutBounded
  <2>3. Cardinality(Pending(a)') <= Cardinality(Pending(a))
    BY <1>2, FewerPending
  <2> QED BY <2>1, <2>2, <2>3, PendingFacts, PendingFactsNext, TimeAssumption
<1> QED BY <1>1, <1>2 DEF Lock, LockoutBounded

(* Letting an attempt in: the address has not reached the limit.           *)
LEMMA AllowLock ==
  ASSUME Lock, Inv', NEW p \in Procs, NEW c \in Ips, LoginAllow(p, c)
  PROVE  Lock'
<1> USE DEF Lock, Inv
<1>1. PICK b \in Ips : /\ Over(b) \/ clock >= until[b]
                       /\ tracked' = IF Over(b) THEN tracked \ {b} ELSE tracked
                       /\ ip' = [ip EXCEPT ![p] = b]
  BY AllowFacts
<1>2. UNCHANGED <<fails, first, until, clock>> /\ tracked' \subseteq tracked
  BY <1>1 DEF LoginAllow
<1>3. Blocked'
  BY <1>2 DEF Blocked
<1>4. ASSUME NEW a \in tracked', clock' < first'[a] + Window
      PROVE  fails'[a] + Cardinality(Pending(a)') <= MaxFailures - 1 + Cardinality(Procs)
  <2>1. a \in tracked /\ first[a] \in Nat /\ clock \in Nat /\ fails[a] \in Nat /\ until[a] \in Nat
    BY <1>2, <1>4 DEF TypeOK
  <2>2. CASE a = b
    <3>1. clock >= until[a]
      BY <1>1, <1>4, <2>2 DEF Over
    <3>2. fails[a] < MaxFailures
      BY <1>2, <1>4, <2>1, <3>1, TimeAssumption DEF Blocked
    <3> QED BY <1>2, <2>1, <3>2, PendingFactsNext, TimeAssumption
  <2>3. CASE a # b
    <3>1. Pending(a)' \subseteq Pending(a)
      BY <1>1, <2>3 DEF LoginAllow, Goto, Pending, TypeOK
    <3>2. Cardinality(Pending(a)') <= Cardinality(Pending(a))
      BY <3>1, FewerPending
    <3>3. fails[a] + Cardinality(Pending(a)) <= MaxFailures - 1 + Cardinality(Procs)
      BY <1>2, <1>4, <2>1 DEF LockoutBounded
    <3> QED BY <1>2, <2>1, <3>2, <3>3, PendingFacts, PendingFactsNext, TimeAssumption
  <2> QED BY <2>2, <2>3
<1> QED BY <1>3, <1>4 DEF LockoutBounded

(* Counting a failure: the attempt is no longer under way.                 *)
LEMMA FailLock ==
  ASSUME Lock, Inv', NEW p \in Procs, LoginFail(p)
  PROVE  Lock'
<1> USE DEF Lock, Inv
<1>0. PICK b \in Ips : b = ip[p]
  BY DEF LoginFail, Reading, Attempting
<1>1. p \in Pending(b)
  BY <1>0 DEF LoginFail, Pending
<1>2. /\ clock \in Nat /\ clock' = clock /\ first[b] \in Nat /\ fails[b] \in Nat /\ until[b] \in Nat
      /\ tracked' = tracked \cup {b} /\ ip' = ip
  BY <1>0 DEF TypeOK, LoginFail, request
<1>3. /\ fails'[b] = IF Over(b) THEN 1 ELSE fails[b] + 1
      /\ first'[b] = IF Over(b) THEN clock ELSE first[b]
      /\ fails'[b] >= MaxFailures => until'[b] = first'[b] + Window
  BY <1>0 DEF LoginFail, Blocks, TypeOK
<1>4. \A a \in Ips : a # b => fails'[a] = fails[a] /\ first'[a] = first[a] /\ until'[a] = until[a]
  BY <1>0 DEF LoginFail, TypeOK
<1>5. tracked \subseteq Ips
  BY DEF TypeOK
<1>6. Blocked'
  <2>1. ASSUME NEW a \in tracked', fails'[a] >= MaxFailures PROVE until'[a] >= first'[a] + Window
    <3>1. CASE a = b
      BY <1>2, <1>3, <2>1, <3>1, TimeAssumption
    <3>2. CASE a # b
      BY <1>2, <1>4, <1>5, <2>1, <3>2 DEF Blocked
    <3> QED BY <3>1, <3>2
  <2> QED BY <2>1 DEF Blocked
<1>7. \A a : Pending(a)' \subseteq Pending(a) \ {p}
  BY <1>2 DEF LoginFail, Goto, Pending, TypeOK
<1>8. ASSUME NEW a \in tracked', clock' < first'[a] + Window
      PROVE  fails'[a] + Cardinality(Pending(a)') <= MaxFailures - 1 + Cardinality(Procs)
  <2>1. CASE a # b
    <3>1. a \in tracked /\ fails'[a] = fails[a] /\ first'[a] = first[a] /\ fails[a] \in Nat
      BY <1>2, <1>4, <1>5, <1>8, <2>1 DEF TypeOK
    <3>2. Cardinality(Pending(a)') <= Cardinality(Pending(a))
      BY <1>7, FewerPending
    <3>3. fails[a] + Cardinality(Pending(a)) <= MaxFailures - 1 + Cardinality(Procs)
      BY <1>2, <1>8, <3>1 DEF LockoutBounded
    <3> QED BY <3>1, <3>2, <3>3, PendingFacts, PendingFactsNext, TimeAssumption
  <2>2. CASE a = b /\ Over(b)
    <3>1. Pending(b)' \subseteq Procs \ {p}
      BY <1>7, PendingFactsNext
    <3>2. /\ IsFiniteSet(Procs \ {p})
          /\ Cardinality(Procs \ {p}) = Cardinality(Procs) - 1
      BY ProcsAssumption, FS_RemoveElement
    <3>3. Cardinality(Pending(b)') <= Cardinality(Procs) - 1
      BY <3>1, <3>2, FS_Subset
    <3> QED BY <1>3, <2>2, <3>3, PendingFactsNext, TimeAssumption
  <2>3. CASE a = b /\ ~Over(b)
    <3>1. /\ IsFiniteSet(Pending(b) \ {p})
          /\ Cardinality(Pending(b) \ {p}) = Cardinality(Pending(b)) - 1
      BY <1>1, PendingFacts, FS_RemoveElement
    <3>2. Cardinality(Pending(b)') <= Cardinality(Pending(b)) - 1
      BY <1>7, <3>1, FS_Subset
    <3>3. b \in tracked /\ first'[b] = first[b] /\ fails'[b] = fails[b] + 1
      BY <1>3, <2>3 DEF Over
    <3>4. fails[b] + Cardinality(Pending(b)) <= MaxFailures - 1 + Cardinality(Procs)
      BY <1>2, <1>8, <2>3, <3>3 DEF LockoutBounded
    <3> QED BY <1>2, <2>3, <3>2, <3>3, <3>4, PendingFacts, PendingFactsNext, TimeAssumption
  <2> QED BY <2>1, <2>2, <2>3
<1> QED BY <1>6, <1>8 DEF LockoutBounded

(* Every other step is quiet.                                              *)
LEMMA NextLock == Lock /\ [Next]_vars => Lock'
<1> SUFFICES ASSUME Lock, [Next]_vars PROVE Lock' OBVIOUS
<1>1. Inv'
  BY NextInv DEF Lock
<1>2. TypeOK
  BY DEF Lock, Inv
<1>3. CASE \E p \in Procs : LoginRead(p) \/ LoginSuccess(p) \/ LoginCreate(p)
  <2>1. /\ UNCHANGED <<fails, first, until, clock>> /\ tracked' \subseteq tracked
        /\ \A a : Pending(a)' \subseteq Pending(a)
    BY <1>2, <1>3 DEF LoginRead, LoginSuccess, LoginCreate, Goto, limiter, request, Pending, TypeOK
  <2> QED BY <1>1, <1>2, <2>1, QuietLock DEF TypeOK
<1>4. CASE \E p \in Procs : Request(p)
  <2>1. UNCHANGED <<limiter, ip, clock>>
    BY <1>4 DEF Request, AuthRead, AuthPlan, AuthTouch, Logout, RevokeAll, ChangeRead, ChangeWrite,
                request
  <2>2. \A p \in Procs : pc'[p] # pc[p] => pc'[p] \notin {"read", "success", "fail"}
    BY <1>2, <1>4 DEF Request, AuthRead, AuthPlan, AuthTouch, Logout, RevokeAll, ChangeRead,
                      ChangeWrite, Goto, TypeOK, Kinds
  <2>3. \A a : Pending(a)' \subseteq Pending(a)
    BY <2>1, <2>2 DEF Pending
  <2> QED BY <1>1, <1>2, <2>1, <2>3, QuietLock DEF TypeOK, limiter
<1>5. CASE CredentialsCommand \/ Tick \/ UNCHANGED vars
  <2>1. UNCHANGED <<limiter, ip, pc>> /\ clock' >= clock
    BY <1>2, <1>5 DEF CredentialsCommand, Tick, vars, request, TypeOK
  <2>2. \A a : Pending(a)' \subseteq Pending(a)
    BY <2>1 DEF Pending
  <2> QED BY <1>1, <2>1, <2>2, QuietLock DEF limiter
<1>6. CASE Restart
  BY <1>1, <1>6 DEF Restart, Lock, Blocked, LockoutBounded
<1> QED BY <1>1, <1>3, <1>4, <1>5, <1>6, AllowLock, FailLock DEF Next, Login

(* What comes after the last failure that is allowed is refused.           *)
THEOREM LockoutHolds == Spec => []LockoutBounded
<1>1. Lock => LockoutBounded
  BY DEF Lock
<1> QED BY <1>1, InitInv, NextLock, PTL DEF Spec

-----------------------------------------------------------------------------
(* The address that is counted.                                            *)

(* Of a list whose last item, or last but a trusted one, is a client, the  *)
(* client is taken.                                                        *)
LEMMA ClientIPOwn ==
  ASSUME NEW c \in Ips, c \notin Trusted, NEW arrival \in Arrivals(c)
  PROVE  ClientIP(arrival[1], arrival[2]) = c
<1>1. Claims \subseteq Seq(Ips \cup {Nil}) /\ Trusted \subseteq Ips /\ Nil \notin Ips
  BY ClaimsAssumption, IpAssumption
<1>2. CASE arrival \in {c} \X Claims
  BY <1>2 DEF ClientIP
<1>3. CASE arrival \in Trusted \X Forwarded(c)
  <2> DEFINE header == arrival[2]
  <2>1. arrival[1] \in Trusted /\ header \in Forwarded(c)
    BY <1>3
  <2>2. \E k \in DOMAIN header :
          header[k] = c /\ \A j \in DOMAIN header : j > k => header[j] \in Trusted
    <3>1. CASE \E claim \in Claims : header = Append(claim, c)
      <4>1. PICK claim \in Claims : header = Append(claim, c)
        BY <3>1
      <4>2. claim \in Seq(Ips \cup {Nil})
        BY <1>1
      <4>3. Len(header) = Len(claim) + 1 /\ DOMAIN header = 1 .. Len(claim) + 1
        BY <1>1, <4>1, <4>2
      <4>4. header[Len(claim) + 1] = c
        BY <4>1, <4>2
      <4> QED BY <4>2, <4>3, <4>4
    <3>2. CASE \E r \in Trusted : header \in {claim \o <<c, r>> : claim \in Claims}
      <4>1. PICK r \in Trusted, claim \in Claims : header = claim \o <<c, r>>
        BY <3>2
      <4>2. claim \in Seq(Ips \cup {Nil}) /\ <<c, r>> \in Seq(Ips \cup {Nil})
        BY <1>1
      <4>3. Len(header) = Len(claim) + 2 /\ DOMAIN header = 1 .. Len(claim) + 2
        BY <4>1, <4>2
      <4>4. header[Len(claim) + 1] = c /\ header[Len(claim) + 2] = r
        BY <4>1, <4>2
      <4> QED BY <4>2, <4>3, <4>4
    <3> QED BY <2>1, <3>1, <3>2 DEF Forwarded
  <2>3. DOMAIN header \subseteq Nat
    <3>1. header \in Seq(Ips \cup {Nil})
      BY <2>1, ForwardedType
    <3> QED BY <3>1
  <2> HIDE DEF header
  <2> DEFINE valid == {i \in DOMAIN header : header[i] # Nil}
             foreign == {i \in valid : header[i] \notin Trusted}
             last == {i \in foreign : \A j \in foreign : j <= i}
  <2>4. PICK k \in DOMAIN header :
          header[k] = c /\ \A j \in DOMAIN header : j > k => header[j] \in Trusted
    BY <2>2
  <2>5. k \in foreign /\ \A j \in foreign : j <= k
    BY <1>1, <2>3, <2>4
  <2>6. last = {k}
    BY <2>3, <2>5
  <2>7. last # {} /\ (CHOOSE i \in last : TRUE) = k
    BY <2>6
  <2>8. ClientIP(arrival[1], header) = header[CHOOSE i \in last : TRUE]
    BY <2>1, <2>7 DEF ClientIP
  <2> QED BY <2>4, <2>7, <2>8 DEF header
<1> QED BY <1>2, <1>3 DEF Arrivals

Owned == who \in [Procs -> Ips \cup {Nil}] /\ OwnAddress

(* Only a login that begins sets the address.                              *)
LEMMA NextOwned == TypeOK /\ Owned /\ [Next]_vars => Owned'
<1> SUFFICES ASSUME TypeOK, Owned, [Next]_vars PROVE Owned' OBVIOUS
<1>1. CASE \E p \in Procs, c \in Ips : LoginAllow(p, c)
  <2>1. PICK p \in Procs, c \in Ips : LoginAllow(p, c)
    BY <1>1
  <2>2. PICK arrival \in Arrivals(c) :
          ip' = [ip EXCEPT ![p] = ClientIP(arrival[1], arrival[2])]
    BY <2>1 DEF LoginAllow
  <2>3. c \notin Trusted => ip'[p] = c
    BY <2>2, ClientIPOwn DEF TypeOK
  <2> QED BY <2>1, <2>2, <2>3 DEF LoginAllow, Goto, Owned, OwnAddress, TypeOK
<1>2. CASE \E p \in Procs : LoginRead(p) \/ LoginFail(p) \/ LoginSuccess(p) \/ LoginCreate(p)
  BY <1>2 DEF LoginRead, LoginFail, LoginSuccess, LoginCreate, Goto, request, Owned, OwnAddress,
              TypeOK
<1>3. CASE \E p \in Procs : Request(p)
  <2>1. UNCHANGED <<who, ip>>
    BY <1>3 DEF Request, AuthRead, AuthPlan, AuthTouch, Logout, RevokeAll, ChangeRead, ChangeWrite,
                request
  <2>2. \A p \in Procs : pc'[p] # pc[p] => pc'[p] \notin {"read", "success", "fail"}
    BY <1>3 DEF Request, AuthRead, AuthPlan, AuthTouch, Logout, RevokeAll, ChangeRead,
                ChangeWrite, Goto, TypeOK, Kinds
  <2> QED BY <2>1, <2>2 DEF Owned, OwnAddress
<1>4. CASE CredentialsCommand \/ Tick \/ Restart \/ UNCHANGED vars
  BY <1>4 DEF CredentialsCommand, Tick, Restart, vars, request, Owned, OwnAddress, TypeOK
<1> QED BY <1>1, <1>2, <1>3, <1>4 DEF Next, Login

(* Failures are counted for the client's own address (resolveClientIP).    *)
THEOREM OwnAddressHolds == Spec => []OwnAddress
<1>1. Init => Owned
  BY DEF Init, Owned, OwnAddress
<1>2. Owned => OwnAddress
  BY DEF Owned
<1> QED BY <1>1, <1>2, NextOwned, TypeCorrect, PTL DEF Spec

=============================================================================
