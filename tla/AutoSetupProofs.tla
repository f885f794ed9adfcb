--------------------------- MODULE AutoSetupProofs ---------------------------
(***************************************************************************)
(* Theorems about the wizard for any number of tabs, requests, rooms and   *)
(* faults, however their requests interleave: what was decided about       *)
(* showing it holds, and a completion without an error is a true one.      *)
(***************************************************************************)
EXTENDS AutoSetup, WellFoundedInduction, TLAPS

(* States and requests by their fields only.  That the rooms of a state    *)
(* are a list without a room twice is a matter of FirstRooms, a fold, and  *)
(* no theorem here rests on it.                                            *)
Shaped(s) == DOMAIN s = {"step", "progress", "rooms", "tele", "skip", "created", "error"}
Whole(r) ==
  /\ DOMAIN r = {"kind", "pc", "copy", "base", "todo", "known", "named", "failures", "manual",
                 "gone", "stale", "mixed"}
  /\ Shaped(r.copy) /\ Shaped(r.base)
  /\ r.todo \in SUBSET Names /\ DOMAIN r.known = Names

Instance == [name: Names, provider: Providers, live: BOOLEAN]

(* A state that says "completed" tells the truth, in a panel where list    *)
(* are the instances there have ever been.                                 *)
Is(list, id, n) ==
  id \in 1..Len(list) /\ list[id].name = n /\ list[id].provider = ProviderOf(n)
Provides(list, s, n) == \E id \in s.created : Is(list, id, n)
Honest(list, s) ==
  s.step = "completed" =>
    s.progress = "full" /\ (~s.error => \A n \in Wanted(s) : Provides(list, s, n))

(* A request on its way to write its copy as it is, and one that creates   *)
(* instances: it has seen instances of those names, and has one for every  *)
(* name that is done, unless it has noticed a failure.                     *)
Written(r) == r.pc \in {"draft", "start", "advance", "poll", "creating"}
Creating(list, r) ==
  /\ \A n \in Names : r.known[n] # 0 => r.known[n] \in 1..Len(list) /\ list[r.known[n]].name = n
  /\ ~r.failures => \A n \in Wanted(r.copy) \ r.todo : Provides(list, r.copy, n)

Fine(list, r) ==
  /\ Whole(r)
  /\ Written(r) => Honest(list, r.copy)
  /\ r.pc = "manual" => Wanted(r.copy) = {}
  /\ r.pc = "create" => Creating(list, r)

(* Who is about to clear the second flag has set the first, and it is set  *)
(* unless a trigger has come since.                                        *)
Sure(done, r) == r.pc = "force" /\ ~r.mixed => done

Good(list, s) == s # Nil => Shaped(s) /\ Honest(list, s)

Decided ==
  /\ verdict = "shown" => forced
  /\ verdict = "done" => ~forced /\ completed

Inv ==
  /\ instances \in Seq(Instance)
  /\ Good(instances, saved)
  /\ DOMAIN req = Tabs
  /\ \A t \in Tabs : Fine(instances, req[t]) /\ Sure(completed, req[t])
  /\ Decided

-----------------------------------------------------------------------------
(* The least name.                                                         *)

(* The naturals are well-founded.                                          *)
LEMMA Order == \E R : IsWellFoundedOn(R, Nat) /\ \A x, y \in Nat : y < x => <<y, x>> \in R
<1> DEFINE R == OpToRel(<, Nat)
<1>1. IsWellFoundedOn(R, Nat)
  BY NatLessThanWellFounded
<1>2. \A x, y \in Nat : y < x => <<y, x>> \in R
  BY DEF OpToRel
<1> HIDE DEF R
<1> QED BY <1>1, <1>2

(* So a request always knows which name is next.                           *)
LEMMA NextIsOne ==
  ASSUME NEW t \in Tabs, req[t].todo \in SUBSET Names, req[t].todo # {}
  PROVE  NextName(t) \in req[t].todo
<1>1. PICK R : IsWellFoundedOn(R, Nat) /\ \A x, y \in Nat : y < x => <<y, x>> \in R
  BY Order
<1>2. Names \subseteq Nat
  BY DEF Names, OwnName
<1>3. PICK n \in req[t].todo : \A k \in req[t].todo : <<k, n>> \notin R
  BY <1>1, <1>2, WFMin
<1>4. \A k \in req[t].todo : n <= k
  <2> SUFFICES ASSUME NEW k \in req[t].todo PROVE n <= k
    OBVIOUS
  <2>1. k \in Nat /\ n \in Nat
    BY <1>2
  <2>2. ~(k < n)
    BY <1>1, <1>3, <2>1
  <2> QED BY <2>1, <2>2
<1> QED BY <1>4 DEF NextName

-----------------------------------------------------------------------------
(* Steps.                                                                  *)

(* No instance is ever forgotten.                                          *)
Grows ==
  /\ instances' \in Seq(Instance)
  /\ Len(instances) <= Len(instances')
  /\ \A id \in 1..Len(instances) :
       instances'[id].name = instances[id].name /\ instances'[id].provider = instances[id].provider

(* The request of another tab, as a save or a decision leaves it.          *)
Alike(old, new) ==
  /\ Whole(new)
  /\ new.pc = old.pc /\ new.copy = old.copy /\ new.todo = old.todo /\ new.known = old.known
  /\ new.failures = old.failures
  /\ old.mixed => new.mixed

(* What was provided stays provided.                                       *)
LEMMA GrowingIs ==
  ASSUME instances \in Seq(Instance), Grows, NEW id, NEW n, Is(instances, id, n)
  PROVE  Is(instances', id, n)
<1>1. Len(instances) \in Nat /\ Len(instances') \in Nat
  BY DEF Grows
<1> QED BY <1>1 DEF Grows, Is

LEMMA GrowingProvides ==
  ASSUME instances \in Seq(Instance), Grows, NEW s, NEW n, Provides(instances, s, n)
  PROVE  Provides(instances', s, n)
BY GrowingIs DEF Provides

LEMMA GrowingHonest ==
  ASSUME instances \in Seq(Instance), Grows, NEW s, Honest(instances, s)
  PROVE  Honest(instances', s)
BY GrowingProvides DEF Honest

(* So the other requests stay what they are.                               *)
LEMMA AlikeFine ==
  ASSUME instances \in Seq(Instance), Grows, NEW old, NEW new, Fine(instances, old),
         Alike(old, new)
  PROVE  Fine(instances', new)
<1>1. Written(new) => Honest(instances', new.copy)
  BY GrowingHonest DEF Fine, Alike, Written
<1>2. ASSUME new.pc = "create" PROVE Creating(instances', new)
  <2>1. Creating(instances, old)
    BY <1>2 DEF Fine, Alike
  <2>2. Len(instances) \in Nat /\ Len(instances') \in Nat
    BY DEF Grows
  <2>3. ASSUME NEW n \in Names, new.known[n] # 0
        PROVE  new.known[n] \in 1..Len(instances') /\ instances'[new.known[n]].name = n
    BY <2>1, <2>2, <2>3 DEF Creating, Grows, Alike
  <2>4. ASSUME ~new.failures, NEW n \in Wanted(new.copy) \ new.todo
        PROVE  Provides(instances', new.copy, n)
    BY <2>1, <2>4, GrowingProvides DEF Creating, Alike
  <2> QED BY <2>3, <2>4 DEF Creating
<1>3. Whole(new) /\ (new.pc = "manual" => Wanted(new.copy) = {})
  BY DEF Fine, Alike
<1> QED BY <1>1, <1>2, <1>3 DEF Fine

(* A step of request t.                                                    *)
LEMMA Step ==
  ASSUME Inv, NEW t \in Tabs, Grows, completed => completed',
         Good(instances', saved'), Decided', DOMAIN req' = Tabs,
         Fine(instances', req'[t]), Sure(completed', req'[t]),
         \A x \in Tabs \ {t} : Alike(req[x], req'[x])
  PROVE  Inv'
<1>1. ASSUME NEW x \in Tabs PROVE Fine(instances', req'[x]) /\ Sure(completed', req'[x])
  <2>1. CASE x = t
    BY <2>1
  <2>2. CASE x # t
    <3>1. Alike(req[x], req'[x]) /\ Fine(instances, req[x]) /\ Sure(completed, req[x])
      BY <2>2 DEF Inv
    <3>2. Fine(instances', req'[x])
      BY <3>1, AlikeFine DEF Inv
    <3>3. Sure(completed', req'[x])
      BY <3>1 DEF Alike, Sure
    <3> QED BY <3>2, <3>3
  <2> QED BY <2>1, <2>2
<1> QED BY <1>1 DEF Inv, Grows

-----------------------------------------------------------------------------
(* Requests that come, go on and end.                                      *)

LEMMA StateFields ==
  /\ Shaped(DefaultState) /\ DefaultState.step = "welcome"
  /\ \A s : Shaped(s) => \A step, progress :
       LET new == Moved(s, step, progress) IN
       /\ Shaped(new) /\ new.step = step /\ new.progress = progress /\ new.rooms = s.rooms
       /\ new.tele = s.tele /\ new.skip = s.skip /\ new.created = s.created /\ new.error = s.error
BY DEF Shaped, DefaultState, Moved

LEMMA NoRequestFine ==
  /\ Whole(NoRequest) /\ NoRequest.pc = "idle" /\ \A list : Fine(list, NoRequest)
  /\ \A done : Sure(done, NoRequest)
<1>1. Whole(NoRequest)
  BY StateFields DEF Whole, NoRequest, Names
<1>2. NoRequest.pc = "idle"
  BY DEF NoRequest
<1> QED BY <1>1, <1>2 DEF Fine, Sure, Written

(* The others do not notice a request that changes by itself.              *)
Alone(t) == DOMAIN req' = Tabs /\ \A x \in Tabs \ {t} : Alike(req[x], req'[x])

LEMMA SameAlike == ASSUME NEW r, Whole(r) PROVE Alike(r, r)
BY DEF Alike

LEMMA ReplaceAlone ==
  ASSUME Inv, NEW t \in Tabs, NEW r, req' = [req EXCEPT ![t] = r]
  PROVE  req'[t] = r /\ Alone(t)
<1>1. DOMAIN req = Tabs /\ \A x \in Tabs : Whole(req[x])
  BY DEF Inv, Fine
<1>2. req'[t] = r /\ DOMAIN req' = Tabs /\ \A x \in Tabs \ {t} : req'[x] = req[x]
  BY <1>1
<1> QED BY <1>1, <1>2, SameAlike DEF Alone

LEMMA EndAlone ==
  ASSUME Inv, NEW t \in Tabs, End(t)
  PROVE  /\ Alone(t) /\ Fine(instances', req'[t]) /\ Sure(completed', req'[t])
<1>1. req'[t] = NoRequest /\ Alone(t)
  BY ReplaceAlone DEF End
<1> QED BY <1>1, NoRequestFine

(* With another step, or the fields that only the invariants of steps need. *)
LEMMA PcFields ==
  ASSUME NEW r, Whole(r), NEW pc
  PROVE  LET new == [r EXCEPT !.pc = pc] IN
         /\ Whole(new) /\ new.pc = pc /\ new.copy = r.copy /\ new.base = r.base
         /\ new.todo = r.todo /\ new.known = r.known /\ new.failures = r.failures
         /\ new.mixed = r.mixed /\ new.kind = r.kind
BY DEF Whole

LEMMA GotoAlone ==
  ASSUME Inv, NEW t \in Tabs, NEW pc, Goto(t, pc)
  PROVE  /\ Alone(t) /\ Whole(req'[t]) /\ req'[t].pc = pc /\ req'[t].copy = req[t].copy
         /\ req'[t].mixed = req[t].mixed
<1>1. Whole(req[t]) /\ DOMAIN req = Tabs
  BY DEF Inv, Fine
<1>2. req' = [req EXCEPT ![t] = [req[t] EXCEPT !.pc = pc]]
  BY DEF Goto
<1>3. req'[t] = [req[t] EXCEPT !.pc = pc] /\ Alone(t)
  BY <1>2, ReplaceAlone
<1> QED BY <1>1, <1>3, PcFields

(* At a step without a claim nothing is to be shown.                       *)
Plain == {"idle", "start", "run", "operation", "list", "flag", "failed", "delete", "show", "read",
          "count", "upgrade"}

LEMMA PlainFine ==
  ASSUME NEW r, Whole(r), r.pc \in Plain \ {"start"}
  PROVE  (\A list : Fine(list, r)) /\ \A done : Sure(done, r)
BY DEF Fine, Sure, Plain, Written

LEMMA GotoPlain ==
  ASSUME Inv, NEW t \in Tabs, NEW pc \in Plain \ {"start"}, Goto(t, pc)
  PROVE  /\ Alone(t) /\ Fine(instances', req'[t]) /\ Sure(completed', req'[t])
BY GotoAlone, PlainFine

(* A request that arrives is to write an honest state, or nothing.         *)
LEMMA ArriveAlone ==
  ASSUME Inv, NEW t \in Tabs, NEW kind, NEW pc \in Plain \cup {"draft", "poll"}, NEW copy, Shaped(copy),
         Honest(instances', copy), Arrive(t, kind, pc, copy)
  PROVE  /\ Alone(t) /\ Fine(instances', req'[t]) /\ Sure(completed', req'[t])
<1> DEFINE r == [NoRequest EXCEPT !.kind = kind, !.pc = pc, !.copy = copy]
<1>1. Whole(r) /\ r.pc = pc /\ r.copy = copy
  BY NoRequestFine DEF Whole
<1>2. req'[t] = r /\ Alone(t)
  BY ReplaceAlone DEF Arrive
<1> HIDE DEF r
<1> QED BY <1>1, <1>2 DEF Fine, Sure, Plain

(* A save makes other copies stale, nothing else.                          *)
LEMMA SaveAlone ==
  ASSUME Inv, NEW t \in Tabs, NEW state, NEW r, Save(t, state, r)
  PROVE  saved' = state /\ req'[t] = r /\ Alone(t)
<1>1. req' = [x \in Tabs |-> IF x = t THEN r
                             ELSE [req[x] EXCEPT !.stale = @ \/ req[x].pc \in Holding]]
  BY DEF Save
<1>2. req'[t] = r /\ DOMAIN req' = Tabs
  BY <1>1
<1>3. ASSUME NEW x \in Tabs \ {t} PROVE Alike(req[x], req'[x])
  <2> DEFINE stale == req[x].stale \/ req[x].pc \in Holding
  <2>1. req'[x] = [req[x] EXCEPT !.stale = stale]
    BY <1>1
  <2> HIDE DEF stale
  <2>2. Whole(req[x])
    BY DEF Inv, Fine
  <2> QED BY <2>1, <2>2 DEF Whole, Alike
<1> QED BY <1>2, <1>3 DEF Alone, Save

(* Steps that leave the instances alone.                                   *)
LEMMA SameGrows == ASSUME Inv, UNCHANGED instances PROVE Grows
<1>1. instances \in Seq(Instance)
  BY DEF Inv
<1>2. Len(instances) \in Nat
  BY <1>1
<1> QED BY <1>1, <1>2 DEF Grows

(* What is read is as honest as the row.                                   *)
LEMMA LoadedHonest == ASSUME Inv PROVE Shaped(Loaded) /\ Honest(instances, Loaded)
<1>1. CASE saved = Nil
  BY <1>1, StateFields DEF Loaded, Honest
<1>2. CASE saved # Nil /\ saved.step = "creating_instances"
  <2>1. Shaped(saved)
    BY <1>2 DEF Inv, Good
  <2>2. Loaded = [saved EXCEPT !.step = "wb_rooms_create", !.progress = "part"]
    BY <1>2 DEF Loaded
  <2> QED BY <2>1, <2>2 DEF Shaped, Honest
<1>3. CASE saved # Nil /\ saved.step # "creating_instances"
  BY <1>3 DEF Loaded, Inv, Good
<1> QED BY <1>1, <1>2, <1>3

(* Most steps leave the flags and the instances alone.                     *)
LEMMA StepQuiet ==
  ASSUME Inv, NEW t \in Tabs, UNCHANGED <<flags, instances>>, Good(instances', saved'),
         Alone(t), Fine(instances', req'[t]), Sure(completed', req'[t])
  PROVE  Inv'
<1>1. Grows
  BY SameGrows
<1>2. Decided' /\ (completed => completed')
  BY DEF Decided, flags, Inv
<1> QED BY <1>1, <1>2, Step DEF Alone

LEMMA SameSaved ==
  ASSUME Inv, UNCHANGED instances
  PROVE  Good(instances', saved)
BY DEF Inv

-----------------------------------------------------------------------------
(* Start.                                                                  *)

(* A draft belongs to a wizard that is not completed.                      *)
LEMMA MergedHonest ==
  ASSUME Inv, NEW in \in Begins \cup Drafts, Resumes(in)
  PROVE  Shaped(Merged(in)) /\ \A list : Honest(list, Merged(in))
<1>1. Shaped(Loaded) /\ Loaded.step # "completed"
  BY LoadedHonest DEF Resumes, Honest
<1>2. in.step = Nil \/ in.step \in DraftSteps
  BY DEF Begins, Drafts
<1>3. Merged(in).step = (IF in.step = Nil THEN Loaded.step ELSE in.step) /\ Shaped(Merged(in))
  BY <1>1 DEF Merged, Shaped
<1>4. Merged(in).step # "completed"
  BY <1>1, <1>2, <1>3 DEF DraftSteps
<1> QED BY <1>3, <1>4 DEF Honest

LEMMA FreshHonest ==
  ASSUME Inv, NEW in \in Begins \cup Drafts
  PROVE  Shaped(Fresh(in)) /\ \A list : Honest(list, Fresh(in))
<1> DEFINE from == IF in.restart \/ Loaded.progress = "full" \/ Loaded.step = "dismissed"
                   THEN DefaultState ELSE Loaded
<1> DEFINE begun == Moved(from, "playwright_check", "part")
<1>1. Shaped(from)
  BY LoadedHonest, StateFields
<1> HIDE DEF from
<1>2. Shaped(begun) /\ begun.step = "playwright_check"
  BY <1>1, StateFields
<1>3. Fresh(in) = [begun EXCEPT !.skip = in.skip, !.rooms = in.rooms, !.tele = in.tele]
  BY DEF Fresh, from
<1> HIDE DEF begun
<1>4. Shaped(Fresh(in)) /\ Fresh(in).step = "playwright_check"
  BY <1>2, <1>3 DEF Shaped
<1> QED BY <1>4 DEF Honest

LEMMA StartInv == ASSUME Inv, NEW t \in Tabs, Start(t) PROVE Inv'
<1>1. UNCHANGED <<saved, flags, instances, host>>
  BY DEF Start
<1>2. PICK in \in Begins \cup Drafts :
        \/ Resumes(in) /\ Changes(in) /\ Arrive(t, "start", "draft", Merged(in))
        \/ ~Resumes(in) /\ Arrive(t, "start", "start", Fresh(in))
  BY DEF Start
<1>3. Alone(t) /\ Fine(instances', req'[t]) /\ Sure(completed', req'[t])
  <2>1. CASE Resumes(in) /\ Arrive(t, "start", "draft", Merged(in))
    BY <2>1, ArriveAlone, MergedHonest
  <2>2. CASE Arrive(t, "start", "start", Fresh(in))
    BY <2>2, ArriveAlone, FreshHonest DEF Plain
  <2> QED BY <1>2, <2>1, <2>2
<1> QED BY <1>1, <1>3, SameSaved, StepQuiet

(* A copy that is written.                                                 *)
LEMMA SaveDraftInv == ASSUME Inv, NEW t \in Tabs, SaveDraft(t) PROVE Inv'
<1>1. UNCHANGED <<flags, instances>>
  BY DEF SaveDraft
<1>2. CASE Save(t, req[t].copy, NoRequest)
  <2>1. Good(instances', req[t].copy)
    BY <1>1 DEF SaveDraft, At, Inv, Fine, Whole, Written, Good
  <2> QED BY <1>1, <1>2, <2>1, SaveAlone, NoRequestFine, StepQuiet
<1>3. CASE End(t) /\ UNCHANGED saved
  BY <1>1, <1>3, EndAlone, SameSaved, StepQuiet
<1> QED BY <1>2, <1>3 DEF SaveDraft

LEMMA SavePollInv == ASSUME Inv, NEW t \in Tabs, SavePoll(t) PROVE Inv'
<1>1. UNCHANGED <<flags, instances>>
  BY DEF SavePoll
<1>2. CASE Save(t, req[t].copy, NoRequest)
  <2>1. Good(instances', req[t].copy)
    BY <1>1 DEF SavePoll, At, Inv, Fine, Whole, Written, Good
  <2> QED BY <1>1, <1>2, <2>1, SaveAlone, NoRequestFine, StepQuiet
<1>3. CASE End(t) /\ UNCHANGED saved
  BY <1>1, <1>3, EndAlone, SameSaved, StepQuiet
<1> QED BY <1>2, <1>3 DEF SavePoll

LEMMA SaveStartInv == ASSUME Inv, NEW t \in Tabs, SaveStart(t) PROVE Inv'
<1>1. UNCHANGED <<flags, instances>>
  BY DEF SaveStart
<1>2. Whole(req[t]) /\ Shaped(req[t].copy) /\ Honest(instances, req[t].copy)
  BY DEF SaveStart, At, Inv, Fine, Whole, Written
<1>3. CASE Save(t, req[t].copy, [Then(t, "run") EXCEPT !.base = req[t].copy])
  <2> DEFINE r == [Then(t, "run") EXCEPT !.base = req[t].copy]
  <2>1. Whole(r) /\ r.pc = "run"
    BY <1>2 DEF Then, Whole
  <2> HIDE DEF r
  <2>2. Save(t, req[t].copy, r)
    BY <1>3 DEF r
  <2>3. Fine(instances', r) /\ Sure(completed', r)
    BY <2>1, PlainFine DEF Plain
  <2> QED BY <1>1, <1>2, <2>2, <2>3, SaveAlone, StepQuiet DEF Good
<1>4. CASE End(t) /\ UNCHANGED saved
  BY <1>1, <1>4, EndAlone, SameSaved, StepQuiet
<1> QED BY <1>3, <1>4 DEF SaveStart

(* How far the wizard goes by itself.                                      *)
LEMMA AdvancedHonest ==
  ASSUME NEW s, Shaped(s), NEW token
  PROVE  Shaped(Advanced(s, token)) /\ Advanced(s, token).step # "completed"
<1>1. \/ Advanced(s, token) = Moved(s, "playwright_install", "part")
      \/ Advanced(s, token) = Moved(s, "wb_auth_prompt", "part")
      \/ Advanced(s, token) = Moved(s, "telemost_prompt", "part")
      \/ Advanced(s, token) = Moved(s, "wb_rooms_create", "part")
  BY DEF Advanced
<1> QED BY <1>1, StateFields


LEMMA RunInv == ASSUME Inv, NEW t \in Tabs, Run(t) PROVE Inv'
<1>1. UNCHANGED <<saved, flags, instances, host>> /\ Whole(req[t])
  BY DEF Run, Inv, Fine
<1>2. ASSUME NEW token \in BOOLEAN, NEW s, s = [Loaded EXCEPT !.skip = req[t].base.skip],
             req' = [req EXCEPT ![t] = [Then(t, IF Ready(s) THEN "list" ELSE "advance") EXCEPT
                       !.copy = IF Ready(s) THEN s ELSE Advanced(s, token), !.stale = FALSE]]
      PROVE  Inv'
  <2> DEFINE pc == IF Ready(s) THEN "list" ELSE "advance"
  <2> DEFINE copy == IF Ready(s) THEN s ELSE Advanced(s, token)
  <2> DEFINE r == [Then(t, pc) EXCEPT !.copy = copy, !.stale = FALSE]
  <2>1. Shaped(s)
    BY <1>2, LoadedHonest DEF Shaped
  <2>2. Shaped(copy) /\ (pc = "list" \/ (pc = "advance" /\ copy.step # "completed"))
    BY <2>1, AdvancedHonest
  <2>3. req' = [req EXCEPT ![t] = r]
    BY <1>2
  <2> HIDE DEF pc, copy
  <2>4. Whole(r) /\ r.pc = pc /\ r.copy = copy
    BY <1>1, <2>2 DEF Then, Whole
  <2> HIDE DEF r
  <2>5. Fine(instances', r) /\ Sure(completed', r)
    BY <2>2, <2>4 DEF Fine, Sure, Honest, Written
  <2> QED BY <1>1, <2>3, <2>5, ReplaceAlone, SameSaved, StepQuiet
<1>3. ASSUME Goto(t, "failed") PROVE Inv'
  BY <1>1, <1>3, GotoPlain, SameSaved, StepQuiet DEF Plain
<1> QED BY <1>2, <1>3 DEF Run

LEMMA AdvanceInv == ASSUME Inv, NEW t \in Tabs, Advance(t) PROVE Inv'
<1>1. UNCHANGED <<flags, instances>>
  BY DEF Advance
<1>2. Whole(req[t]) /\ Shaped(req[t].copy) /\ Honest(instances, req[t].copy)
  BY DEF Advance, At, Inv, Fine, Whole, Written
<1>3. CASE Save(t, req[t].copy, Then(t, "operation"))
  <2>1. Whole(Then(t, "operation")) /\ Then(t, "operation").pc = "operation"
    BY <1>2, PcFields DEF Then
  <2>2. Fine(instances', Then(t, "operation")) /\ Sure(completed', Then(t, "operation"))
    BY <2>1, PlainFine DEF Plain
  <2> QED BY <1>1, <1>2, <1>3, <2>2, SaveAlone, StepQuiet DEF Good
<1>4. CASE Goto(t, "failed") /\ UNCHANGED saved
  BY <1>1, <1>4, GotoPlain, SameSaved, StepQuiet DEF Plain
<1> QED BY <1>3, <1>4 DEF Advance

LEMMA InstallInv == ASSUME Inv, NEW t \in Tabs, Install(t) PROVE Inv'
<1>1. UNCHANGED <<saved, flags, instances>> /\ End(t)
  BY DEF Install
<1> QED BY <1>1, EndAlone, SameSaved, StepQuiet

LEMMA StartingInv == ASSUME Inv, NEW t \in Tabs, Starting(t) PROVE Inv'
BY StartInv, SaveDraftInv, SaveStartInv, RunInv, AdvanceInv, InstallInv DEF Starting

-----------------------------------------------------------------------------
(* Polls and skips.                                                        *)

(* What a poll reads may be completed; then it changes nothing.            *)
LEMMA PolledHonest ==
  ASSUME Inv, NEW percent, NEW report \in Rooms \cup {"tele", Nil}
  PROVE  Shaped(Captured(Installed(Loaded, percent), report))
         /\ Honest(instances, Captured(Installed(Loaded, percent), report))
<1> DEFINE s == Installed(Loaded, percent)
<1>1. Shaped(Loaded) /\ Honest(instances, Loaded)
  BY LoadedHonest
<1>2. Shaped(s) /\ Honest(instances, s)
  <2>1. CASE s = Loaded
    BY <1>1, <2>1
  <2>2. CASE s = Moved(Loaded, "wb_auth_prompt", "part")
    BY <1>1, <2>2, StateFields DEF Honest
  <2>3. CASE s = [Moved(Loaded, "error", percent) EXCEPT !.error = TRUE]
    <3> DEFINE m == Moved(Loaded, "error", percent)
    <3>1. Shaped(m) /\ m.step = "error"
      BY <1>1, StateFields
    <3> HIDE DEF m
    <3>2. s = [m EXCEPT !.error = TRUE]
      BY <2>3 DEF m
    <3> HIDE DEF s
    <3> QED BY <3>1, <3>2 DEF Honest, Shaped
  <2> QED BY <2>1, <2>2, <2>3 DEF Installed
<1> HIDE DEF s
<1> DEFINE rooms == FirstRooms(Append(s.rooms, report))
<1> DEFINE step == IF Len(rooms) = RoomLimit /\ ~s.skip /\ ~s.tele
                   THEN "telemost_prompt" ELSE "wb_rooms_create"
<1>3. CASE Captured(s, report) = s
  BY <1>2, <1>3 DEF s
<1>4. CASE Captured(s, report) = [Moved(s, "telemost_room_create", "part") EXCEPT !.tele = TRUE]
  <2> DEFINE m == Moved(s, "telemost_room_create", "part")
  <2>1. Shaped(m) /\ m.step = "telemost_room_create"
    BY <1>2, StateFields
  <2> HIDE DEF m
  <2>2. Captured(s, report) = [m EXCEPT !.tele = TRUE]
    BY <1>4 DEF m
  <2>3. Shaped(Captured(s, report)) /\ Captured(s, report).step = "telemost_room_create"
    BY <2>1, <2>2 DEF Shaped
  <2> QED BY <2>3 DEF Honest, s
<1>5. CASE Captured(s, report) = [Moved(s, step, "part") EXCEPT !.rooms = rooms]
  <2> DEFINE m == Moved(s, step, "part")
  <2>1. Shaped(m) /\ m.step = step /\ step # "completed"
    BY <1>2, StateFields
  <2>2. Captured(s, report) = [m EXCEPT !.rooms = rooms]
    BY <1>5
  <2> HIDE DEF m, step, rooms
  <2>3. Shaped(Captured(s, report)) /\ Captured(s, report).step # "completed"
    BY <2>1, <2>2 DEF Shaped
  <2> QED BY <2>3 DEF Honest, s
<1>6. \/ Captured(s, report) = s
      \/ Captured(s, report) = [Moved(s, "telemost_room_create", "part") EXCEPT !.tele = TRUE]
      \/ Captured(s, report) = [Moved(s, step, "part") EXCEPT !.rooms = rooms]
  BY DEF Captured
<1> HIDE DEF rooms, step
<1> QED BY <1>3, <1>4, <1>5, <1>6


LEMMA PollInv == ASSUME Inv, NEW t \in Tabs, Poll(t) PROVE Inv'
<1>1. UNCHANGED <<saved, flags, instances, host>>
  BY DEF Poll
<1>2. PICK report \in Rooms \cup {"tele", Nil}, percent \in {"none", "part", "full"} :
        Arrive(t, "poll", "poll", Captured(Installed(Loaded, percent), report))
  BY DEF Poll
<1> DEFINE copy == Captured(Installed(Loaded, percent), report)
<1>3. Shaped(copy) /\ Honest(instances', copy)
  BY <1>1, PolledHonest
<1> HIDE DEF copy
<1>4. Arrive(t, "poll", "poll", copy)
  BY <1>2 DEF copy
<1> QED BY <1>1, <1>3, <1>4, ArriveAlone, SameSaved, StepQuiet

(* A skip asks for less.                                                   *)
LEMMA SkippedHonest ==
  ASSUME NEW list, NEW s, Shaped(s), Honest(list, s), NEW new,
         new = [s EXCEPT !.skip = TRUE, !.tele = FALSE]
  PROVE  Shaped(new) /\ new.step = s.step /\ Honest(list, new)
<1>1. /\ Shaped(new) /\ new.step = s.step /\ new.progress = s.progress /\ new.error = s.error
      /\ new.rooms = s.rooms /\ new.created = s.created /\ ~new.tele
  BY DEF Shaped
<1>2. Wanted(new) \subseteq Wanted(s)
  BY <1>1 DEF Wanted
<1> QED BY <1>1, <1>2 DEF Honest, Provides

LEMMA SkipTelemostInv == ASSUME Inv, NEW t \in Tabs, SkipTelemost(t) PROVE Inv'
<1> DEFINE s == [Loaded EXCEPT !.skip = TRUE, !.tele = FALSE]
<1> DEFINE new == IF s.step \in {"telemost_prompt", "telemost_room_create"}
                  THEN Moved(s, "wb_rooms_create", "part") ELSE s
<1>1. UNCHANGED <<flags, instances>> /\ Save(t, new, NoRequest)
  BY DEF SkipTelemost
<1>2. Shaped(s) /\ Honest(instances, s)
  BY LoadedHonest, SkippedHonest
<1> HIDE DEF s
<1>3. Shaped(new) /\ Honest(instances, new)
  BY <1>2, StateFields DEF Honest
<1> HIDE DEF new
<1> QED BY <1>1, <1>3, SaveAlone, NoRequestFine, StepQuiet DEF Good

-----------------------------------------------------------------------------
(* Complete.                                                               *)

LEMMA CompleteInv == ASSUME Inv, NEW t \in Tabs, Complete(t) PROVE Inv'
<1>1. UNCHANGED <<saved, flags, instances, host>>
  BY DEF Complete
<1>2. PICK in \in [rooms: Typed, tele: BOOLEAN, skip: BOOLEAN] :
        req' = [req EXCEPT ![t] = [NoRequest EXCEPT
                 !.kind = "complete", !.pc = "creating", !.copy = Completion(in),
                 !.named = in.rooms # <<>>]]
  BY DEF Complete
<1> DEFINE m == Moved(Loaded, "creating_instances", "part")
<1>3. Shaped(m) /\ m.step = "creating_instances"
  BY LoadedHonest, StateFields
<1>4. Completion(in) = [m EXCEPT !.rooms = IF in.rooms = <<>> THEN @ ELSE in.rooms,
                                 !.tele = in.tele \/ (@ /\ ~in.skip),
                                 !.skip = @ \/ in.skip]
  BY DEF Completion
<1> HIDE DEF m
<1>5. Shaped(Completion(in)) /\ Completion(in).step = "creating_instances"
  BY <1>3, <1>4 DEF Shaped
<1> DEFINE copy == Completion(in)
<1> DEFINE named == in.rooms # <<>>
<1> HIDE DEF copy, named
<1> DEFINE r == [NoRequest EXCEPT !.kind = "complete", !.pc = "creating", !.copy = copy,
                                  !.named = named]
<1>6. Whole(r) /\ r.pc = "creating" /\ r.copy = copy
  BY <1>5, NoRequestFine DEF Whole, copy
<1>7. req' = [req EXCEPT ![t] = r]
  BY <1>2 DEF copy, named
<1> HIDE DEF r
<1>8. Fine(instances', r) /\ Sure(completed', r)
  BY <1>5, <1>6 DEF Fine, Sure, Honest, Written, copy
<1>9. req'[t] = r /\ Alone(t)
  BY <1>7, ReplaceAlone
<1> QED BY <1>1, <1>8, <1>9, SameSaved, StepQuiet

LEMMA SaveCreatingInv == ASSUME Inv, NEW t \in Tabs, SaveCreating(t) PROVE Inv'
<1>1. UNCHANGED <<flags, instances>>
  BY DEF SaveCreating
<1>2. Whole(req[t]) /\ Shaped(req[t].copy) /\ Honest(instances, req[t].copy)
  BY DEF SaveCreating, At, Inv, Fine, Whole, Written
<1> DEFINE pc == IF Wanted(req[t].copy) = {} THEN "manual" ELSE "list"
<1>3. CASE Save(t, req[t].copy, Then(t, pc))
  <2>1. /\ Whole(Then(t, pc)) /\ Then(t, pc).pc = pc /\ Then(t, pc).copy = req[t].copy
    BY <1>2, PcFields DEF Then
  <2>2. pc = "list" \/ (pc = "manual" /\ Wanted(req[t].copy) = {})
    OBVIOUS
  <2> HIDE DEF pc
  <2> DEFINE r == Then(t, pc)
  <2> HIDE DEF r
  <2>3. Fine(instances', r) /\ Sure(completed', r)
    BY <2>1, <2>2 DEF Fine, Sure, Written, r
  <2>4. Save(t, req[t].copy, r)
    BY <1>3 DEF r
  <2> QED BY <1>1, <1>2, <2>3, <2>4, SaveAlone, StepQuiet DEF Good
<1>4. CASE End(t) /\ UNCHANGED saved
  BY <1>1, <1>4, EndAlone, SameSaved, StepQuiet
<1> QED BY <1>3, <1>4 DEF SaveCreating

(* A state with nothing to create may say that it is completed.            *)
LEMMA ManualInv == ASSUME Inv, NEW t \in Tabs, Manual(t) PROVE Inv'
<1>1. UNCHANGED <<flags, instances>>
  BY DEF Manual
<1>2. Whole(req[t]) /\ Shaped(req[t].copy) /\ Wanted(req[t].copy) = {}
  BY DEF Manual, At, Inv, Fine, Whole
<1>3. CASE Save(t, Moved(req[t].copy, "completed", "full"),
                [Then(t, "flag") EXCEPT !.manual = TRUE])
  <2> DEFINE s == Moved(req[t].copy, "completed", "full")
  <2> DEFINE r == [Then(t, "flag") EXCEPT !.manual = TRUE]
  <2>1. /\ Shaped(s) /\ s.progress = "full"
        /\ s.rooms = req[t].copy.rooms /\ s.tele = req[t].copy.tele /\ s.skip = req[t].copy.skip
    BY <1>2, StateFields
  <2> HIDE DEF s
  <2>2. Wanted(s) = {}
    BY <1>2, <2>1 DEF Wanted
  <2>3. Good(instances', s)
    BY <2>1, <2>2 DEF Good, Honest
  <2>4. Whole(Then(t, "flag")) /\ Then(t, "flag").pc = "flag"
    BY <1>2, PcFields DEF Then
  <2>5. Whole(r) /\ r.pc = "flag"
    BY <2>4 DEF Whole
  <2>6. Save(t, s, r)
    BY <1>3 DEF s
  <2> HIDE DEF r
  <2>7. Fine(instances', r) /\ Sure(completed', r)
    BY <2>5, PlainFine DEF Plain
  <2> QED BY <1>1, <2>3, <2>6, <2>7, SaveAlone, StepQuiet
<1>4. CASE End(t) /\ UNCHANGED saved
  BY <1>1, <1>4, EndAlone, SameSaved, StepQuiet
<1> QED BY <1>3, <1>4 DEF Manual


(* The instances with a name, and the one that is taken.                   *)
LEMMA HolderIs ==
  ASSUME Inv, NEW n, Holder(n) # {}
  PROVE  LET id == CHOOSE id \in Holder(n) : TRUE
         IN  id \in 1..Len(instances) /\ instances[id].name = n
<1>1. DOMAIN instances = 1..Len(instances)
  BY DEF Inv
<1>2. (CHOOSE id \in Holder(n) : TRUE) \in Holder(n)
  OBVIOUS
<1> QED BY <1>1, <1>2 DEF Holder, Live

LEMMA ListInv == ASSUME Inv, NEW t \in Tabs, List(t) PROVE Inv'
<1>1. UNCHANGED <<saved, flags, instances, host>> /\ Whole(req[t])
  BY DEF List, Inv, Fine
<1> DEFINE known == [n \in Names |-> IF Holder(n) = {} THEN 0
                                     ELSE CHOOSE id \in Holder(n) : TRUE]
<1> DEFINE todo == Wanted(req[t].copy)
<1> DEFINE r == [Then(t, "create") EXCEPT !.todo = todo, !.known = known]
<1>2. CASE req' = [req EXCEPT ![t] = r]
  <2>1. \A n \in Names : known[n] # 0 => known[n] \in 1..Len(instances) /\ instances[known[n]].name = n
    BY HolderIs
  <2>2. DOMAIN known = Names /\ todo \in SUBSET Names
    BY DEF Wanted
  <2>3. todo = Wanted(req[t].copy)
    OBVIOUS
  <2> HIDE DEF known, todo
  <2>4. Whole(Then(t, "create")) /\ Then(t, "create").pc = "create" /\ Then(t, "create").copy = req[t].copy
    BY <1>1, PcFields DEF Then
  <2>5. Whole(r) /\ r.pc = "create" /\ r.copy = req[t].copy /\ r.todo = todo /\ r.known = known
    BY <2>2, <2>4 DEF Whole
  <2> HIDE DEF r
  <2>6. Creating(instances', r)
    BY <1>1, <2>1, <2>3, <2>5 DEF Creating
  <2>7. Fine(instances', r) /\ Sure(completed', r)
    BY <2>5, <2>6 DEF Fine, Sure, Written
  <2> QED BY <1>1, <1>2, <2>7, ReplaceAlone, SameSaved, StepQuiet
<1>3. CASE Goto(t, "failed")
  BY <1>1, <1>3, GotoPlain, SameSaved, StepQuiet DEF Plain
<1> QED BY <1>2, <1>3 DEF List

(* One name is done: there is an instance for it, or a failure is noted.   *)
LEMMA HandledFine ==
  ASSUME Inv, NEW t \in Tabs, At(t, "create"), req[t].todo # {}, Grows,
         NEW ids, NEW failure \in BOOLEAN, Handled(t, ids, failure),
         failure \/ \E id \in ids : Is(instances', id, NextName(t))
  PROVE  Alone(t) /\ Fine(instances', req'[t]) /\ Sure(completed', req'[t])
<1> DEFINE n == NextName(t)
<1> DEFINE copy == [req[t].copy EXCEPT !.created = @ \cup ids]
<1> DEFINE failures == req[t].failures \/ failure
<1> DEFINE r == [req[t] EXCEPT !.todo = @ \ {n}, !.known[n] = 0,
                               !.copy.created = @ \cup ids, !.failures = @ \/ failure]
<1>1. Whole(req[t]) /\ Creating(instances, req[t]) /\ req[t].pc = "create"
  BY DEF Inv, Fine, At
<1>2. n \in req[t].todo /\ n \in Names
  BY <1>1, NextIsOne DEF Whole
<1>3. req' = [req EXCEPT ![t] = r]
  BY DEF Handled
<1>4. failure \/ \E id \in ids : Is(instances', id, n)
  OBVIOUS
<1> HIDE DEF n
<1>5. /\ Shaped(copy) /\ copy.created = req[t].copy.created \cup ids /\ copy.rooms = req[t].copy.rooms
      /\ copy.tele = req[t].copy.tele /\ copy.skip = req[t].copy.skip
  BY <1>1 DEF Whole, Shaped
<1>6. Wanted(copy) = Wanted(req[t].copy)
  BY <1>5 DEF Wanted
<1> HIDE DEF copy
<1>7. ~failures <=> ~req[t].failures /\ ~failure
  OBVIOUS
<1> HIDE DEF failures
<1>8. /\ Whole(r) /\ r.pc = "create" /\ r.copy = copy /\ r.todo = req[t].todo \ {n}
      /\ r.known = [req[t].known EXCEPT ![n] = 0] /\ r.failures = failures
  BY <1>1, <1>2, <1>5 DEF Whole, copy, failures
<1> HIDE DEF r
<1>9. ASSUME NEW k \in Names, r.known[k] # 0
      PROVE  r.known[k] \in 1..Len(instances') /\ instances'[r.known[k]].name = k
  <2>1. k # n /\ r.known[k] = req[t].known[k]
    BY <1>1, <1>2, <1>8, <1>9 DEF Whole
  <2>2. Len(instances) \in Nat /\ Len(instances') \in Nat
    BY DEF Inv, Grows
  <2> QED BY <1>1, <1>9, <2>1, <2>2 DEF Creating, Grows
<1>10. ASSUME ~r.failures, NEW k \in Wanted(r.copy) \ r.todo PROVE Provides(instances', r.copy, k)
  <2>1. CASE k = n
    BY <1>4, <1>5, <1>7, <1>8, <1>10, <2>1 DEF Provides
  <2>2. CASE k # n
    <3>1. Provides(instances, req[t].copy, k)
      BY <1>1, <1>6, <1>7, <1>8, <1>10, <2>2 DEF Creating
    <3>2. Provides(instances', req[t].copy, k)
      BY <3>1, GrowingProvides DEF Inv
    <3> QED BY <1>5, <1>8, <3>2 DEF Provides
  <2> QED BY <2>1, <2>2
<1>11. Fine(instances', r) /\ Sure(completed', r)
  BY <1>8, <1>9, <1>10 DEF Fine, Sure, Written, Creating
<1> QED BY <1>3, <1>11, ReplaceAlone


(* A new instance is the last one, and what was asked for.                 *)
LEMMA AddGrows ==
  ASSUME Inv, NEW name \in Names, NEW provider \in Providers, Add(name, provider)
  PROVE  /\ Grows /\ Len(instances') \in 1..Len(instances')
         /\ instances'[Len(instances')].name = name
         /\ instances'[Len(instances')].provider = provider
<1> DEFINE new == [name |-> name, provider |-> provider, live |-> TRUE]
<1>1. instances' = Append(instances, new)
  BY DEF Add
<1>2. instances \in Seq(Instance) /\ new \in Instance /\ new.name = name /\ new.provider = provider
  BY DEF Inv, Instance
<1> HIDE DEF new
<1>3. /\ instances' \in Seq(Instance) /\ Len(instances') = Len(instances) + 1
      /\ \A id \in 1..Len(instances) : instances'[id] = instances[id]
      /\ instances'[Len(instances) + 1] = new
  BY <1>1, <1>2
<1>4. Len(instances) \in Nat
  BY <1>2
<1> QED BY <1>2, <1>3, <1>4 DEF Grows

LEMMA CreateInv == ASSUME Inv, NEW t \in Tabs, Create(t) PROVE Inv'
<1> DEFINE n == NextName(t)
<1> DEFINE id == req[t].known[n]
<1>1. At(t, "create") /\ req[t].todo # {} /\ UNCHANGED <<saved, flags, host>>
  BY DEF Create
<1>2. Whole(req[t]) /\ Creating(instances, req[t])
  BY <1>1 DEF Inv, Fine, At
<1>3. n \in req[t].todo /\ n \in Names
  BY <1>1, <1>2, NextIsOne DEF Whole
<1>4. ASSUME Grows, NEW ids, NEW failure \in BOOLEAN, Handled(t, ids, failure),
             failure \/ \E k \in ids : Is(instances', k, n)
      PROVE  Inv'
  <2>1. Alone(t) /\ Fine(instances', req'[t]) /\ Sure(completed', req'[t])
    BY <1>1, <1>4, HandledFine
  <2>2. Good(instances', saved')
    BY <1>1, <1>4, GrowingHonest DEF Inv, Good
  <2>3. Decided' /\ (completed => completed')
    BY <1>1 DEF Inv, Decided, flags
  <2> QED BY <1>4, <2>1, <2>2, <2>3, Step DEF Alone
<1>5. CASE id # 0 /\ UNCHANGED instances /\ instances[id].provider = ProviderOf(n) /\ Handled(t, {id}, FALSE)
  <2>1. Is(instances', id, n)
    BY <1>2, <1>3, <1>5 DEF Creating, Is
  <2> QED BY <1>4, <1>5, <2>1, SameGrows
<1>6. CASE id = 0 /\ Add(n, ProviderOf(n)) /\ Handled(t, {Len(instances')}, FALSE)
  <2>1. ProviderOf(n) \in Providers
    BY DEF ProviderOf, Providers
  <2>2. Grows /\ Is(instances', Len(instances'), n)
    BY <1>3, <1>6, <2>1, AddGrows DEF Is
  <2> QED BY <1>4, <1>6, <2>2
<1>7. CASE UNCHANGED instances /\ Handled(t, {}, TRUE)
  BY <1>4, <1>7, SameGrows
<1> QED BY <1>5, <1>6, <1>7 DEF Create

(* The result: completed and without an error only with every instance.    *)
LEMMA FinishInv == ASSUME Inv, NEW t \in Tabs, Finish(t) PROVE Inv'
<1>1. /\ UNCHANGED <<flags, instances>> /\ req[t].todo = {} /\ Whole(req[t])
      /\ Creating(instances, req[t])
  BY DEF Finish, At, Inv, Fine
<1>2. PICK start, unstarted \in BOOLEAN :
        LET s == Finished(t, req[t].failures \/ unstarted) IN
        \/ Works(t) /\ Save(t, s, [Then(t, "flag") EXCEPT !.copy = s])
        \/ /\ Fails(t)
           /\ req' = [req EXCEPT ![t] = [Then(t, "failed") EXCEPT !.copy = s]]
           /\ UNCHANGED saved
  BY DEF Finish
<1> DEFINE failures == req[t].failures \/ unstarted
<1> DEFINE s == Finished(t, failures)
<1>3. ~failures => ~req[t].failures
  OBVIOUS
<1> HIDE DEF failures
<1> DEFINE m == Moved(req[t].copy, "completed", "full")
<1>4. /\ Shaped(m) /\ m.progress = "full" /\ m.rooms = req[t].copy.rooms
      /\ m.tele = req[t].copy.tele /\ m.skip = req[t].copy.skip
      /\ m.created = req[t].copy.created
  BY <1>1, StateFields DEF Whole
<1>5. s = [m EXCEPT !.error = failures]
  BY DEF Finished
<1> HIDE DEF m, s
<1>6. /\ Shaped(s) /\ s.progress = "full" /\ s.rooms = req[t].copy.rooms /\ s.error = failures
      /\ s.tele = req[t].copy.tele /\ s.skip = req[t].copy.skip
      /\ s.created = req[t].copy.created
  BY <1>4, <1>5 DEF Shaped
<1>7. Wanted(s) = Wanted(req[t].copy)
  BY <1>6 DEF Wanted
<1>8. Good(instances', s)
  <2>1. ASSUME ~s.error, NEW n \in Wanted(s) PROVE Provides(instances', s, n)
    BY <1>1, <1>3, <1>6, <1>7, <2>1 DEF Creating, Provides
  <2> QED BY <1>6, <2>1 DEF Good, Honest
<1>9. ASSUME NEW pc \in {"flag", "failed"}, NEW r, r = [Then(t, pc) EXCEPT !.copy = s]
      PROVE  Fine(instances', r) /\ Sure(completed', r)
  <2>1. Whole(Then(t, pc)) /\ Then(t, pc).pc = pc
    BY <1>1, PcFields DEF Then
  <2>2. Whole(r) /\ r.pc = pc
    BY <1>6, <1>9, <2>1 DEF Whole
  <2> QED BY <2>2, PlainFine DEF Plain
<1>10. CASE Save(t, s, [Then(t, "flag") EXCEPT !.copy = s])
  <2> DEFINE r == [Then(t, "flag") EXCEPT !.copy = s]
  <2>1. Fine(instances', r) /\ Sure(completed', r)
    BY <1>9
  <2> HIDE DEF r
  <2>2. Save(t, s, r)
    BY <1>10 DEF r
  <2> QED BY <1>1, <1>8, <2>1, <2>2, SaveAlone, StepQuiet
<1>11. CASE /\ req' = [req EXCEPT ![t] = [Then(t, "failed") EXCEPT !.copy = s]]
            /\ UNCHANGED saved
  <2> DEFINE r == [Then(t, "failed") EXCEPT !.copy = s]
  <2>1. Fine(instances', r) /\ Sure(completed', r)
    BY <1>9
  <2> HIDE DEF r
  <2>2. req'[t] = r /\ Alone(t)
    BY <1>11, ReplaceAlone DEF r
  <2> QED BY <1>1, <1>11, <2>1, <2>2, SameSaved, StepQuiet
<1> QED BY <1>2, <1>10, <1>11 DEF s, failures


-----------------------------------------------------------------------------
(* The flags.                                                              *)

(* A step that changes the flags leaves the wizard's state and the         *)
(* instances alone.                                                        *)
LEMMA StepFlags ==
  ASSUME Inv, NEW t \in Tabs, UNCHANGED <<saved, instances>>, Decided',
         DOMAIN req' = Tabs, Fine(instances', req'[t]), Sure(completed', req'[t]),
         \A x \in Tabs \ {t} : Alike(req[x], req'[x]),
         \A x \in Tabs \ {t} : Sure(completed, req[x]) => Sure(completed', req'[x])
  PROVE  Inv'
<1>1. ASSUME NEW x \in Tabs PROVE Fine(instances', req'[x]) /\ Sure(completed', req'[x])
  <2>1. CASE x = t
    BY <2>1
  <2>2. CASE x # t
    <3>1. Alike(req[x], req'[x]) /\ Fine(instances, req[x]) /\ Sure(completed, req[x])
      BY <2>2 DEF Inv
    <3>2. Fine(instances', req'[x])
      BY <3>1, SameGrows, AlikeFine DEF Inv
    <3> QED BY <2>2, <3>1, <3>2
  <2> QED BY <2>1, <2>2
<1> QED BY <1>1 DEF Inv

(* Whoever meets one of the opposite kind knows, and the other, too.       *)
LEMMA MeetsAlone ==
  ASSUME Inv, NEW t \in Tabs, NEW others, NEW pc, Meets(t, others, pc)
  PROVE  /\ DOMAIN req' = Tabs
         /\ Whole(req'[t]) /\ req'[t].pc = pc
         /\ \A x \in Tabs \ {t} : Alike(req[x], req'[x]) /\ (x \in others => req'[x].mixed)
<1>1. req' = [x \in Tabs |->
            IF x = t THEN [Then(t, pc) EXCEPT !.mixed = others # {}]
            ELSE [req[x] EXCEPT !.mixed = @ \/ x \in others]]
  BY DEF Meets
<1>2. DOMAIN req' = Tabs
  BY <1>1
<1>3. Whole(req'[t]) /\ req'[t].pc = pc
  <2> DEFINE mixed == others # {}
  <2>1. req'[t] = [Then(t, pc) EXCEPT !.mixed = mixed]
    BY <1>1
  <2> HIDE DEF mixed
  <2>2. Whole(Then(t, pc)) /\ Then(t, pc).pc = pc
    BY PcFields DEF Then, Inv, Fine
  <2> QED BY <2>1, <2>2 DEF Whole
<1>4. ASSUME NEW x \in Tabs \ {t} PROVE Alike(req[x], req'[x]) /\ (x \in others => req'[x].mixed)
  <2> DEFINE mixed == req[x].mixed \/ x \in others
  <2>1. req'[x] = [req[x] EXCEPT !.mixed = mixed]
    BY <1>1
  <2>2. (req[x].mixed => mixed) /\ (x \in others => mixed)
    OBVIOUS
  <2> HIDE DEF mixed
  <2>3. Whole(req[x])
    BY DEF Inv, Fine
  <2>4. /\ Whole(req'[x]) /\ req'[x].mixed = mixed
        /\ req'[x].pc = req[x].pc /\ req'[x].copy = req[x].copy /\ req'[x].todo = req[x].todo
        /\ req'[x].known = req[x].known /\ req'[x].failures = req[x].failures
    BY <2>1, <2>3 DEF Whole
  <2> QED BY <2>2, <2>4 DEF Alike
<1> QED BY <1>2, <1>3, <1>4

LEMMA SetCompletedInv == ASSUME Inv, NEW t \in Tabs, SetCompleted(t) PROVE Inv'
<1>1. UNCHANGED <<saved, forced, instances, host>>
  BY DEF SetCompleted
<1>2. CASE /\ completed' = TRUE /\ verdict' = IF verdict = "shown" THEN "open" ELSE verdict
           /\ Meets(t, Triggering, "force")
  <2>1. Decided'
    BY <1>1, <1>2 DEF Inv, Decided
  <2>2. \A r : Sure(completed', r)
    BY <1>2 DEF Sure
  <2>3. Fine(instances', req'[t])
    BY <1>2, MeetsAlone DEF Fine, Written
  <2> QED BY <1>1, <1>2, <2>1, <2>2, <2>3, MeetsAlone, StepFlags
<1>3. CASE End(t) /\ UNCHANGED <<completed, verdict>>
  BY <1>1, <1>3, EndAlone, SameSaved, StepQuiet DEF flags
<1>4. CASE Goto(t, "failed") /\ UNCHANGED <<completed, verdict>>
  BY <1>1, <1>4, GotoPlain, SameSaved, StepQuiet DEF flags, Plain
<1> QED BY <1>2, <1>3, <1>4 DEF SetCompleted

(* When the second flag is cleared the first is set, or it was a meeting.  *)
LEMMA ClearForcedInv == ASSUME Inv, NEW t \in Tabs, ClearForced(t) PROVE Inv'
<1>1. UNCHANGED <<saved, completed, instances, host>> /\ At(t, "force")
  BY DEF ClearForced
<1>2. End(t) \/ Goto(t, "operation") \/ Goto(t, "failed")
  BY DEF ClearForced
<1>3. Alone(t) /\ Fine(instances', req'[t]) /\ Sure(completed', req'[t])
  BY <1>2, EndAlone, GotoPlain DEF Plain
<1>4. Decided'
  <2>1. CASE forced' = FALSE /\ verdict' = IF req[t].mixed THEN "open" ELSE "done"
    <3>1. ~req[t].mixed => completed
      BY <1>1 DEF Inv, Sure, At
    <3> QED BY <1>1, <2>1, <3>1 DEF Decided
  <2>2. CASE UNCHANGED <<forced, verdict>>
    BY <1>1, <2>2 DEF Inv, Decided
  <2> QED BY <2>1, <2>2 DEF ClearForced
<1>5. \A x \in Tabs \ {t} : Sure(completed, req[x]) => Sure(completed', req'[x])
  BY <1>1, <1>3 DEF Alone, Alike, Sure
<1> QED BY <1>1, <1>3, <1>4, <1>5, StepFlags DEF Alone

LEMMA ReportFailureInv == ASSUME Inv, NEW t \in Tabs, ReportFailure(t) PROVE Inv'
<1> DEFINE s == IF req[t].kind = "start" THEN req[t].base ELSE req[t].copy
<1> DEFINE new == [s EXCEPT !.step = "error", !.error = TRUE]
<1>1. UNCHANGED <<flags, instances, host>>
  BY DEF ReportFailure
<1>2. Shaped(s)
  BY DEF Inv, Fine, Whole
<1>3. CASE Save(t, new, NoRequest)
  <2> HIDE DEF s
  <2>1. Shaped(new) /\ new.step = "error"
    BY <1>2 DEF Shaped
  <2>2. Good(instances', new)
    BY <2>1 DEF Good, Honest
  <2> HIDE DEF new
  <2> QED BY <1>1, <1>3, <2>2, SaveAlone, NoRequestFine, StepQuiet
<1>4. CASE End(t) /\ UNCHANGED saved
  BY <1>1, <1>4, EndAlone, SameSaved, StepQuiet
<1> QED BY <1>3, <1>4 DEF ReportFailure

LEMMA CompletingInv == ASSUME Inv, NEW t \in Tabs, Completing(t) PROVE Inv'
BY CompleteInv, SaveCreatingInv, ManualInv, ListInv, CreateInv, FinishInv, SetCompletedInv,
   ClearForcedInv, ReportFailureInv DEF Completing

LEMMA DismissInv == ASSUME Inv, NEW t \in Tabs, Dismiss(t) PROVE Inv'
<1> DEFINE s == Moved(Loaded, "dismissed", "full")
<1> DEFINE r == [NoRequest EXCEPT !.kind = "dismiss", !.pc = "flag"]
<1>1. UNCHANGED <<flags, instances, host>> /\ Save(t, s, r)
  BY DEF Dismiss
<1>2. Good(instances', s)
  BY LoadedHonest, StateFields DEF Good, Honest
<1>3. Whole(r) /\ r.pc = "flag"
  BY NoRequestFine DEF Whole
<1> HIDE DEF s, r
<1>4. Fine(instances', r) /\ Sure(completed', r)
  BY <1>3, PlainFine DEF Plain
<1> QED BY <1>1, <1>2, <1>4, SaveAlone, StepQuiet

(* A trigger opens the question again, and whoever is about to decide it   *)
(* learns of it.                                                           *)
LEMMA TriggerInv == ASSUME Inv, NEW t \in Tabs, Trigger(t) PROVE Inv'
<1>1. /\ UNCHANGED <<saved, forced, instances, host>> /\ At(t, "idle")
      /\ completed' = FALSE /\ verdict' = "open"
  BY DEF Trigger
<1>2. Decided'
  BY <1>1 DEF Decided
<1> DEFINE mixed == Deciding # {}
<1> DEFINE r == [NoRequest EXCEPT !.kind = "trigger", !.pc = "delete", !.mixed = mixed]
<1>3. req' = [x \in Tabs |-> IF x = t THEN r ELSE [req[x] EXCEPT !.mixed = @ \/ x \in Deciding]]
  BY DEF Trigger
<1> HIDE DEF mixed
<1>4. Whole(r) /\ r.pc = "delete"
  BY NoRequestFine DEF Whole
<1> HIDE DEF r
<1>5. Fine(instances', r) /\ Sure(completed', r)
  BY <1>4, PlainFine DEF Plain
<1>6. req'[t] = r /\ DOMAIN req' = Tabs
  BY <1>3
<1>7. ASSUME NEW x \in Tabs \ {t} PROVE Alike(req[x], req'[x]) /\ Sure(completed', req'[x])
  <2> DEFINE met == req[x].mixed \/ x \in Deciding
  <2>1. req'[x] = [req[x] EXCEPT !.mixed = met]
    BY <1>3
  <2>2. (req[x].mixed => met) /\ (req[x].pc = "force" => met)
    BY DEF Deciding, At
  <2> HIDE DEF met
  <2>3. Whole(req[x])
    BY DEF Inv, Fine
  <2>4. /\ Whole(req'[x]) /\ req'[x].mixed = met
        /\ req'[x].pc = req[x].pc /\ req'[x].copy = req[x].copy /\ req'[x].todo = req[x].todo
        /\ req'[x].known = req[x].known /\ req'[x].failures = req[x].failures
    BY <2>1, <2>3 DEF Whole
  <2> QED BY <2>2, <2>4 DEF Alike, Sure
<1> QED BY <1>1, <1>2, <1>5, <1>6, <1>7, StepFlags

LEMMA DeleteStateInv == ASSUME Inv, NEW t \in Tabs, DeleteState(t) PROVE Inv'
<1>1. UNCHANGED <<flags, instances, host>>
  BY DEF DeleteState
<1>2. CASE Save(t, Nil, Then(t, "show"))
  <2>1. Whole(Then(t, "show")) /\ Then(t, "show").pc = "show"
    BY PcFields DEF Then, Inv, Fine
  <2>2. Fine(instances', Then(t, "show")) /\ Sure(completed', Then(t, "show"))
    BY <2>1, PlainFine DEF Plain
  <2>3. Good(instances', Nil)
    BY DEF Good
  <2> QED BY <1>1, <1>2, <2>2, <2>3, SaveAlone, StepQuiet
<1>3. CASE End(t) /\ UNCHANGED saved
  BY <1>1, <1>3, EndAlone, SameSaved, StepQuiet
<1> QED BY <1>2, <1>3 DEF DeleteState

LEMMA SetForcedInv == ASSUME Inv, NEW t \in Tabs, SetForced(t) PROVE Inv'
<1>1. UNCHANGED <<saved, completed, instances, host>> /\ End(t)
  BY DEF SetForced
<1>2. Alone(t) /\ Fine(instances', req'[t]) /\ Sure(completed', req'[t])
  BY <1>1, EndAlone
<1>3. Decided'
  <2>1. CASE forced' = TRUE /\ verdict' = IF req[t].mixed THEN "open" ELSE "shown"
    BY <1>1, <2>1 DEF Decided
  <2>2. CASE UNCHANGED <<forced, verdict>>
    BY <1>1, <2>2 DEF Inv, Decided
  <2> QED BY <2>1, <2>2 DEF SetForced
<1>4. \A x \in Tabs \ {t} : Sure(completed, req[x]) => Sure(completed', req'[x])
  BY <1>1, <1>2 DEF Alone, Alike, Sure
<1> QED BY <1>1, <1>2, <1>3, <1>4, StepFlags DEF Alone


-----------------------------------------------------------------------------
(* The question whether to show the wizard, and the rest of the panel.     *)

LEMMA ReadForcedInv == ASSUME Inv, NEW t \in Tabs, ReadForced(t) PROVE Inv'
<1>1. UNCHANGED <<saved, flags, instances, host>> /\ Arrive(t, "status", "read", DefaultState)
  BY DEF ReadForced
<1>2. Alone(t) /\ Fine(instances', req'[t]) /\ Sure(completed', req'[t])
  BY <1>1, StateFields, ArriveAlone DEF Plain, Honest
<1> QED BY <1>1, <1>2, SameSaved, StepQuiet

LEMMA ReadCompletedInv == ASSUME Inv, NEW t \in Tabs, ReadCompleted(t) PROVE Inv'
<1>1. UNCHANGED <<saved, flags, instances, host>> /\ (End(t) \/ Goto(t, "count"))
  BY DEF ReadCompleted
<1>2. Alone(t) /\ Fine(instances', req'[t]) /\ Sure(completed', req'[t])
  BY <1>1, EndAlone, GotoPlain DEF Plain
<1> QED BY <1>1, <1>2, SameSaved, StepQuiet

LEMMA CountInv == ASSUME Inv, NEW t \in Tabs, Count(t) PROVE Inv'
<1>1. UNCHANGED <<saved, flags, instances, host>> /\ (End(t) \/ Goto(t, "upgrade"))
  BY DEF Count
<1>2. Alone(t) /\ Fine(instances', req'[t]) /\ Sure(completed', req'[t])
  BY <1>1, EndAlone, GotoPlain DEF Plain
<1> QED BY <1>1, <1>2, SameSaved, StepQuiet

(* An upgrade only sets the first flag.                                    *)
LEMMA UpgradeInv == ASSUME Inv, NEW t \in Tabs, Upgrade(t) PROVE Inv'
<1>1. UNCHANGED <<saved, forced, verdict, instances, host>> /\ End(t) /\ (completed => completed')
  BY DEF Upgrade
<1>2. Alone(t) /\ Fine(instances', req'[t]) /\ Sure(completed', req'[t])
  BY <1>1, EndAlone
<1>3. Decided'
  BY <1>1 DEF Inv, Decided
<1>4. \A x \in Tabs \ {t} : Sure(completed, req[x]) => Sure(completed', req'[x])
  BY <1>1, <1>2 DEF Alone, Alike, Sure
<1> QED BY <1>1, <1>2, <1>3, <1>4, StepFlags DEF Alone

(* Steps of which no request takes notice.                                 *)
LEMMA StepElsewhere ==
  ASSUME Inv, Grows, UNCHANGED <<saved, flags>>, DOMAIN req' = Tabs,
         \A x \in Tabs : Alike(req[x], req'[x])
  PROVE  Inv'
<1>1. ASSUME NEW x \in Tabs PROVE Fine(instances', req'[x]) /\ Sure(completed', req'[x])
  <2>1. Alike(req[x], req'[x]) /\ Fine(instances, req[x]) /\ Sure(completed, req[x])
    BY DEF Inv
  <2>2. Fine(instances', req'[x])
    BY <2>1, AlikeFine DEF Inv
  <2> QED BY <2>1, <2>2 DEF Alike, Sure, flags
<1>2. Good(instances', saved')
  BY GrowingHonest DEF Inv, Good
<1> QED BY <1>1, <1>2 DEF Inv, Grows, Decided, flags

LEMMA DisconnectInv == ASSUME Inv, NEW t \in Tabs, Disconnect(t) PROVE Inv'
<1>1. /\ UNCHANGED <<saved, flags, instances, host>>
      /\ req' = [req EXCEPT ![t] = [req[t] EXCEPT !.gone = TRUE]]
  BY DEF Disconnect
<1>2. req'[t] = [req[t] EXCEPT !.gone = TRUE] /\ Alone(t)
  BY <1>1, ReplaceAlone
<1>3. Whole(req[t])
  BY DEF Inv, Fine
<1>4. Alike(req[t], req'[t])
  BY <1>2, <1>3 DEF Whole, Alike
<1> QED BY <1>1, <1>2, <1>4, SameGrows, StepElsewhere DEF Alone

LEMMA AskingInv == ASSUME Inv, NEW t \in Tabs, Asking(t) PROVE Inv'
BY ReadForcedInv, ReadCompletedInv, CountInv, UpgradeInv DEF Asking

LEMMA OtherInv == ASSUME Inv, NEW t \in Tabs, Other(t) PROVE Inv'
BY PollInv, SavePollInv, SkipTelemostInv, DismissInv, TriggerInv, DeleteStateInv, SetForcedInv,
   DisconnectInv DEF Other

LEMMA SameAlikes ==
  ASSUME Inv, UNCHANGED req
  PROVE  DOMAIN req' = Tabs /\ \A x \in Tabs : Alike(req[x], req'[x])
BY SameAlike DEF Inv, Fine

LEMMA AddElsewhereInv == ASSUME Inv, AddElsewhere PROVE Inv'
<1>1. UNCHANGED <<saved, flags, host, req>>
  BY DEF AddElsewhere
<1>2. PICK other \in Foreign : Add(other.name, other.provider)
  BY DEF AddElsewhere
<1>3. other.name \in Names /\ other.provider \in Providers
  BY ForeignAssumption
<1>4. Grows
  BY <1>2, <1>3, AddGrows
<1> QED BY <1>1, <1>4, SameAlikes, StepElsewhere

LEMMA DeleteElsewhereInv == ASSUME Inv, DeleteElsewhere PROVE Inv'
<1>1. UNCHANGED <<saved, flags, host, req>>
  BY DEF DeleteElsewhere
<1>2. PICK id \in Live : instances' = [instances EXCEPT ![id].live = FALSE]
  BY DEF DeleteElsewhere
<1>3. instances \in Seq(Instance)
  BY DEF Inv
<1>4. id \in 1..Len(instances) /\ instances[id] \in Instance
  BY <1>3 DEF Live
<1> DEFINE new == [instances[id] EXCEPT !.live = FALSE]
<1>5. new \in Instance /\ new.name = instances[id].name /\ new.provider = instances[id].provider
  BY <1>4 DEF Instance
<1>6. instances' = [instances EXCEPT ![id] = new]
  BY <1>2
<1> HIDE DEF new
<1>7. /\ instances' \in Seq(Instance) /\ Len(instances') = Len(instances)
      /\ instances'[id] = new /\ \A k \in 1..Len(instances) : k # id => instances'[k] = instances[k]
  BY <1>3, <1>4, <1>5, <1>6
<1>8. Grows
  BY <1>3, <1>5, <1>7 DEF Grows
<1> QED BY <1>1, <1>8, SameAlikes, StepElsewhere

LEMMA CrashInv == ASSUME Inv, Crash PROVE Inv'
<1>1. UNCHANGED <<saved, flags, instances>> /\ req' = [t \in Tabs |-> NoRequest]
  BY DEF Crash
<1>2. DOMAIN req' = Tabs /\ \A t \in Tabs : req'[t] = NoRequest
  BY <1>1
<1> QED BY <1>1, <1>2, NoRequestFine DEF Inv, Decided, flags

(* The browser components are no matter of these properties.               *)
LEMMA HostInv == ASSUME Inv, OperationEnds \/ Operate PROVE Inv'
<1>1. UNCHANGED <<saved, flags, instances, req>>
  BY DEF OperationEnds, Operate
<1> QED BY <1>1, SameGrows, SameAlikes, StepElsewhere

-----------------------------------------------------------------------------
(* The invariant, and what follows from it.                                *)

LEMMA InitInv == Init => Inv
<1> SUFFICES ASSUME Init PROVE Inv
  OBVIOUS
<1>1. instances \in Seq(Instance)
  BY DEF Init
<1>2. DOMAIN req = Tabs /\ \A t \in Tabs : req[t] = NoRequest
  BY DEF Init
<1> QED BY <1>1, <1>2, NoRequestFine DEF Init, Inv, Good, Decided

LEMMA NextInv == Inv /\ [Next]_vars => Inv'
<1> SUFFICES ASSUME Inv, [Next]_vars PROVE Inv'
  OBVIOUS
<1>1. ASSUME NEW t \in Tabs, Starting(t) \/ Completing(t) \/ Asking(t) \/ Other(t) PROVE Inv'
  BY <1>1, StartingInv, CompletingInv, AskingInv, OtherInv
<1>2. CASE OperationEnds \/ Operate
  BY <1>2, HostInv
<1>3. CASE AddElsewhere \/ DeleteElsewhere \/ Crash
  BY <1>3, AddElsewhereInv, DeleteElsewhereInv, CrashInv
<1>4. CASE UNCHANGED vars
  <2>1. UNCHANGED <<saved, flags, instances, req>>
    BY <1>4 DEF vars, flags
  <2> QED BY <2>1, SameGrows, SameAlikes, StepElsewhere
<1> QED BY <1>1, <1>2, <1>3, <1>4 DEF Next

LEMMA SpecInv == Spec => []Inv
BY InitInv, NextInv, PTL DEF Spec

(* Whenever the wizard says that it is completed without an error, there   *)
(* was an instance of the right name and provider for every room that it   *)
(* has recorded: finishAutoSetup loses no error (auto_setup.go:670), and   *)
(* no poll, skip or draft of another tab puts a completion into words that *)
(* are not its own.                                                        *)
THEOREM CompletionHonestHolds == Spec => []CompletionHonest
<1>1. Inv => CompletionHonest
  <2> SUFFICES ASSUME Inv, saved # Nil, saved.step = "completed", ~saved.error,
                      NEW n \in Wanted(saved)
               PROVE  \E id \in saved.created :
                        id \in DOMAIN instances /\ instances[id].name = n
                        /\ instances[id].provider = ProviderOf(n)
    BY DEF CompletionHonest
  <2>1. DOMAIN instances = 1..Len(instances)
    BY DEF Inv
  <2>2. Provides(instances, saved, n)
    BY DEF Inv, Good, Honest
  <2> QED BY <2>1, <2>2 DEF Provides, Is
<1> QED BY <1>1, SpecInv, PTL

(* A wizard that was asked for is shown, and one that was completed or     *)
(* dismissed is not shown again, whatever polls and completions of other   *)
(* tabs write meanwhile (shouldShowAutoSetup, auto_setup.go).              *)
THEOREM VerdictHoldsAlways == Spec => []VerdictHolds
<1>1. Inv => VerdictHolds
  BY DEF Inv, Decided, VerdictHolds, ShouldShow
<1> QED BY <1>1, SpecInv, PTL

=============================================================================
