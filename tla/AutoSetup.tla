------------------------------ MODULE AutoSetup ------------------------------
(***************************************************************************)
(* The wizard of the first run: internal/server/auto_setup.go, and what it *)
(* uses of operations.go, system.go and the instance manager.              *)
(*                                                                         *)
(* The state of the wizard is one row of the settings, next to the flags   *)
(* first_run_completed and auto_setup_forced.  Requests of several tabs    *)
(* read the state, work on their copy and save it whole: autoSetupMu       *)
(* covers each read and each save, and both together only in               *)
(* updateAutoSetupState.  A request's first step is its arrival and its    *)
(* read; one that then changes nothing is left out.                        *)
(*                                                                         *)
(* Rooms are members of Rooms; of Telemost only whether a room is known.   *)
(* What the worker reports to a poll, and whether the Wildberries token is *)
(* there, is chosen freely.  Progress is "none", "part" (1..99) or "full". *)
(***************************************************************************)
EXTENDS Naturals, Sequences, FiniteSets, SequencesExt

CONSTANTS
  Tabs,         (* requests that are under way at the same time            *)
  Nil,          (* no row, no room                                         *)
  Rooms,        (* room IDs of WB Stream                                   *)
  RoomLimit,    (* rooms the wizard asks for: 3 in the code                *)
  Typed,        (* the lists of rooms a tab may send                       *)
  Foreign,      (* instances that may be added elsewhere in the panel      *)
  Hosts,        (* the state the components may be in at the beginning     *)
  MaxRequests,  (* bound: requests                                         *)
  MaxEvents     (* bound: instances added and deleted, and operations      *)
                (* started, elsewhere in the panel, crashes, disconnects   *)
                (* and failing store calls                                 *)

ASSUME NilAssumption == Nil \notin Rooms
ASSUME InputAssumption ==
  /\ \A list \in Typed : list \in Seq(Rooms) /\ Len(list) <= RoomLimit /\ IsInjective(list)
  /\ Hosts \subseteq {"unsupported", "missing", "installed"}
ASSUME BoundAssumption ==
  /\ RoomLimit \in Nat \ {0}
  /\ MaxRequests \in Nat /\ MaxEvents \in Nat

VARIABLES
  saved,      (* setting auto_setup_state, Nil without a row                *)
  completed,  (* setting first_run_completed                                *)
  forced,     (* setting auto_setup_forced                                  *)
  instances,  (* every instance there has ever been, by id                  *)
  components, (* the browser components on this host                        *)
  tracker,    (* operationTracker.values["wb"]                              *)
  unit,       (* olcrtc-wb-components, as its file in /run tells            *)
  req,        (* the requests under way                                     *)
  verdict,    (* what was last decided about showing the wizard             *)
  left        (* what the bounds still allow                                *)

flags == <<completed, forced, verdict>>
host == <<components, tracker, unit>>
vars == <<saved, completed, forced, instances, components, tracker, unit, req, verdict, left>>

Steps == {"welcome", "playwright_check", "playwright_install", "wb_auth_prompt", "telemost_prompt",
          "telemost_room_create", "wb_rooms_create", "creating_instances", "completed",
          "dismissed", "error"}
Capturing == {"wb_auth_prompt", "telemost_prompt", "telemost_room_create", "wb_rooms_create"}
(* The steps a tab sends a draft of; the code takes any step, also three   *)
(* that nothing sets ("wb_auth_vnc", "telemost_auth_vnc" and               *)
(* "starting_instances"), which are left out.                              *)
DraftSteps == {"telemost_prompt", "telemost_room_create", "wb_rooms_create"}

(* Names of instances: "# WB n", the name for Telemost, any other name.    *)
TeleName == RoomLimit + 1
OwnName == RoomLimit + 2
Names == 1..OwnName
Providers == {"wbstream", "telemost"}
ProviderOf(name) == IF name = TeleName THEN "telemost" ELSE "wbstream"

ASSUME ForeignAssumption == Foreign \subseteq [name: Names, provider: Providers]

RoomLists == {list \in UNION {[1..n -> Rooms] : n \in 0..RoomLimit} : IsInjective(list)}
State == [step: Steps, progress: {"none", "part", "full"}, rooms: RoomLists, tele: BOOLEAN,
          skip: BOOLEAN, created: SUBSET Nat, error: BOOLEAN]
DefaultState == [step |-> "welcome", progress |-> "none", rooms |-> <<>>, tele |-> FALSE,
                 skip |-> FALSE, created |-> {}, error |-> FALSE]

(* A request: where it is, its copy of the state, the copy an error of     *)
(* Start is reported on, what it creates next, the instances it has seen.  *)
(* stale: the row was written since it read it; mixed: a decision of the   *)
(* opposite kind was under way at the same time; named: it came with rooms *)
(* of its own.                                                             *)
Request == [kind: {"none", "start", "poll", "complete", "dismiss", "trigger", "status"},
            pc: {"idle", "draft", "start", "run", "advance", "operation", "poll", "creating",
                 "manual", "list", "create", "flag", "force", "failed",
                 "delete", "show", "read", "count", "upgrade"},
            copy: State, base: State, todo: SUBSET Names, known: [Names -> Nat],
            named: BOOLEAN, failures: BOOLEAN, manual: BOOLEAN,
            gone: BOOLEAN, stale: BOOLEAN, mixed: BOOLEAN]
NoRequest == [kind |-> "none", pc |-> "idle", copy |-> DefaultState, base |-> DefaultState,
              todo |-> {}, known |-> [n \in Names |-> 0], named |-> FALSE,
              failures |-> FALSE, manual |-> FALSE, gone |-> FALSE, stale |-> FALSE, mixed |-> FALSE]

Limits == [requests |-> MaxRequests, events |-> MaxEvents]

TypeOK ==
  /\ saved \in State \cup {Nil}
  /\ completed \in BOOLEAN /\ forced \in BOOLEAN
  /\ instances \in Seq([name: Names, provider: Providers, live: BOOLEAN])
  /\ components \in {"unsupported", "missing", "installed"}
  /\ tracker \in {"idle", "running", "completed", "failed"}
  /\ unit \in {"idle", "installing", "removing", "completed", "failed"}
  /\ req \in [Tabs -> Request]
  /\ verdict \in {"open", "shown", "done"}
  /\ left \in [DOMAIN Limits -> Nat]

Init ==
  /\ saved = Nil /\ completed = FALSE /\ forced = FALSE
  /\ instances = <<>>
  /\ components \in Hosts
  /\ tracker = "idle" /\ unit = "idle"
  /\ req = [t \in Tabs |-> NoRequest]
  /\ verdict = "open"
  /\ left = Limits

Spend(what) == left[what] > 0 /\ left' = [left EXCEPT ![what] = @ - 1]
At(t, pc) == req[t].pc = pc
Goto(t, pc) == req' = [req EXCEPT ![t].pc = pc]
End(t) == req' = [req EXCEPT ![t] = NoRequest]

(* A call that uses the request's context works, or fails: always once the *)
(* client has gone, and otherwise when the database does.                  *)
Works(t) == ~req[t].gone /\ UNCHANGED left
Fails(t) == IF req[t].gone THEN UNCHANGED left ELSE Spend("events")

(* A request that has read the state and goes on.                          *)
Arrive(t, kind, pc, copy) ==
  /\ At(t, "idle") /\ Spend("requests")
  /\ req' = [req EXCEPT ![t] = [NoRequest EXCEPT !.kind = kind, !.pc = pc, !.copy = copy]]

-----------------------------------------------------------------------------
(* The state and its row.                                                  *)

(* autoSetupRooms: no room twice, and only as many as are asked for.       *)
FirstRooms(list) ==
  FoldLeft(LAMBDA rooms, room : IF room \in ToSet(rooms) \/ Len(rooms) = RoomLimit
                                THEN rooms ELSE Append(rooms, room), <<>>, list)

(* A creation that was interrupted is taken up at the rooms.               *)
Loaded ==
  CASE saved = Nil -> DefaultState
    [] saved # Nil /\ saved.step = "creating_instances" ->
         [saved EXCEPT !.step = "wb_rooms_create", !.progress = "part"]
    [] OTHER -> saved

(* Where a request goes on with a copy.                                    *)
Holding == {"draft", "start", "advance", "poll", "creating", "manual", "list", "create",
            "flag", "force", "failed"}

(* The row is replaced and request t becomes r; all others that go on with *)
(* a copy have a stale one now.                                            *)
Save(t, state, r) ==
  /\ saved' = state
  /\ req' = [x \in Tabs |-> IF x = t THEN r
                            ELSE [req[x] EXCEPT !.stale = @ \/ req[x].pc \in Holding]]

Then(t, pc) == [req[t] EXCEPT !.pc = pc]

Moved(s, step, progress) == [s EXCEPT !.step = step, !.progress = progress]

-----------------------------------------------------------------------------
(* The operation "wb" of the tracker: install or remove the components.    *)

(* operationProgressFrom: after a restart of the panel only the file tells. *)
Running == unit \in {"installing", "removing"}
Progress ==
  CASE tracker # "idle" -> tracker
    [] tracker = "idle" /\ Running -> "running"
    [] OTHER -> unit

(* One at a time; a unit that an earlier panel has started is in the way.  *)
StartOperation(what) ==
  /\ IF tracker = "running" THEN UNCHANGED <<tracker, unit>>
     ELSE IF Running THEN tracker' = "failed" /\ UNCHANGED unit
     ELSE tracker' = "running" /\ unit' = what
  /\ UNCHANGED components

OperationEnds ==
  /\ Running
  /\ \/ /\ unit' = "completed"
        /\ components' = IF unit = "installing" THEN "installed" ELSE "missing"
     \/ unit' = "failed" /\ UNCHANGED components
  /\ tracker' = IF tracker = "running" THEN unit' ELSE tracker
  /\ UNCHANGED <<saved, flags, instances, req, left>>

(* handleWBInstall and handleWBRemove, on the page of the settings.        *)
Operate ==
  /\ components # "unsupported"
  /\ Spend("events")
  /\ \E what \in {"installing", "removing"} : StartOperation(what)
  /\ UNCHANGED <<saved, flags, instances, req>>

-----------------------------------------------------------------------------
(* handleAutoSetupStart: a draft of a wizard under way, or a new start.    *)

(* The buttons "start" and "retry", and the drafts of the tabs.            *)
Begins == [restart: BOOLEAN, rooms: {<<>>}, tele: {FALSE}, skip: {FALSE}, step: {Nil}]
Drafts == [restart: {FALSE}, rooms: Typed, tele: BOOLEAN, skip: BOOLEAN, step: DraftSteps]

Resumes(in) == ~in.restart /\ Loaded.progress = "part" /\ Loaded.step # "welcome"

Changes(in) ==
  in.rooms # <<>> \/ in.tele \/ (in.skip /\ ~Loaded.skip) \/ in.step \notin {Nil, Loaded.step}

Merged(in) ==
  [Loaded EXCEPT !.rooms = FirstRooms(@ \o in.rooms), !.tele = @ \/ in.tele, !.skip = @ \/ in.skip,
                 !.step = IF in.step = Nil THEN @ ELSE in.step]

Fresh(in) ==
  LET from == IF in.restart \/ Loaded.progress = "full" \/ Loaded.step = "dismissed"
              THEN DefaultState ELSE Loaded
  IN  [Moved(from, "playwright_check", "part") EXCEPT
         !.skip = in.skip, !.rooms = in.rooms, !.tele = in.tele]

Start(t) ==
  /\ At(t, "idle")
  /\ \E in \in Begins \cup Drafts :
       \/ Resumes(in) /\ Changes(in) /\ Arrive(t, "start", "draft", Merged(in))
       \/ ~Resumes(in) /\ Arrive(t, "start", "start", Fresh(in))
  /\ UNCHANGED <<saved, flags, instances, host>>

SaveDraft(t) ==
  /\ At(t, "draft")
  /\ \/ Works(t) /\ Save(t, req[t].copy, NoRequest)
     \/ Fails(t) /\ End(t) /\ UNCHANGED saved
  /\ UNCHANGED <<flags, instances, host>>

SaveStart(t) ==
  /\ At(t, "start")
  /\ \/ /\ Works(t)
        /\ Save(t, req[t].copy, [Then(t, "run") EXCEPT !.base = req[t].copy])
     \/ Fails(t) /\ End(t) /\ UNCHANGED saved
  /\ UNCHANGED <<flags, instances, host>>

(* runAutoSetup reads the state again: how far can it go by itself?        *)
Advanced(s, token) ==
  CASE components = "missing" -> Moved(s, "playwright_install", "part")
    [] components = "unsupported" -> Moved(s, "wb_auth_prompt", "part")
    [] components = "installed" /\ ~token /\ s.rooms = <<>> -> Moved(s, "wb_auth_prompt", "part")
    [] components = "installed" /\ (token \/ s.rooms # <<>>) /\ ~s.skip /\ ~s.tele ->
         Moved(s, "telemost_prompt", "part")
    [] OTHER -> Moved(s, "wb_rooms_create", "part")

(* Nothing is left to ask for.                                             *)
Ready(s) ==
  components = "installed" /\ (s.skip \/ s.tele) /\ Len(s.rooms) = RoomLimit

Run(t) ==
  /\ At(t, "run")
  /\ \/ /\ Works(t)
        /\ \E token \in BOOLEAN :
             LET s == [Loaded EXCEPT !.skip = req[t].base.skip] IN
             req' = [req EXCEPT ![t] = [Then(t, IF Ready(s) THEN "list" ELSE "advance") EXCEPT
                       !.copy = IF Ready(s) THEN s ELSE Advanced(s, token), !.stale = FALSE]]
     \/ Fails(t) /\ Goto(t, "failed")
  /\ UNCHANGED <<saved, flags, instances, host>>

Advance(t) ==
  /\ At(t, "advance")
  /\ \/ Works(t) /\ Save(t, req[t].copy, Then(t, "operation"))
     \/ Fails(t) /\ Goto(t, "failed") /\ UNCHANGED saved
  /\ UNCHANGED <<flags, instances, host>>

(* A state that cannot be read starts nothing.                             *)
Install(t) ==
  /\ At(t, "operation")
  /\ \/ Works(t) /\ Loaded.step = "playwright_install" /\ StartOperation("installing")
     \/ Works(t) /\ Loaded.step # "playwright_install" /\ UNCHANGED host
     \/ Fails(t) /\ UNCHANGED host
  /\ End(t)
  /\ UNCHANGED <<saved, flags, instances>>

-----------------------------------------------------------------------------
(* handleAutoSetupProgress and handleAutoSetupSkipTelemost.                *)

Installed(s, percent) ==
  CASE s.step = "playwright_install" /\ (components = "installed" \/ Progress = "completed") ->
         Moved(s, "wb_auth_prompt", "part")
    [] s.step = "playwright_install" /\ components # "installed" /\ Progress = "failed" ->
         [Moved(s, "error", percent) EXCEPT !.error = TRUE]
    [] OTHER -> s

(* report: the room the worker shows, "tele" for one of Telemost, or Nil.  *)
Captured(s, report) ==
  LET rooms == FirstRooms(Append(s.rooms, report)) IN
  CASE s.step \notin Capturing \/ report = Nil -> s
    [] s.step \in Capturing /\ report = "tele" ->
         [Moved(s, "telemost_room_create", "part") EXCEPT !.tele = TRUE]
    [] s.step \in Capturing /\ report \in Rooms ->
         [Moved(s, IF Len(rooms) = RoomLimit /\ ~s.skip /\ ~s.tele
                   THEN "telemost_prompt" ELSE "wb_rooms_create", "part") EXCEPT !.rooms = rooms]

Poll(t) ==
  /\ \E report \in Rooms \cup {"tele", Nil}, percent \in {"none", "part", "full"} :
       /\ Progress # "failed" => percent = "part"
       /\ Arrive(t, "poll", "poll", Captured(Installed(Loaded, percent), report))
  /\ UNCHANGED <<saved, flags, instances, host>>

SavePoll(t) ==
  /\ At(t, "poll")
  /\ \/ Works(t) /\ Save(t, req[t].copy, NoRequest)
     \/ Fails(t) /\ End(t) /\ UNCHANGED saved
  /\ UNCHANGED <<flags, instances, host>>

(* One critical section.                                                   *)
SkipTelemost(t) ==
  /\ At(t, "idle") /\ Spend("requests")
  /\ LET s == [Loaded EXCEPT !.skip = TRUE, !.tele = FALSE] IN
     Save(t, IF s.step \in {"telemost_prompt", "telemost_room_create"}
             THEN Moved(s, "wb_rooms_create", "part") ELSE s, NoRequest)
  /\ UNCHANGED <<flags, instances, host>>

-----------------------------------------------------------------------------
(* handleAutoSetupComplete and finishAutoSetup.                            *)

(* Mutant: a completion without rooms forgets those the server has.        *)
Completion_Overwrites(in) ==
  [Moved(Loaded, "creating_instances", "part") EXCEPT
     !.rooms = in.rooms, !.tele = in.tele \/ (@ /\ ~in.skip), !.skip = @ \/ in.skip]

(* Rooms and Telemost as the tab has them, or as the server has them.  A   *)
(* tab that skips Telemost sends no room of it.                            *)
Completion(in) ==
  [Moved(Loaded, "creating_instances", "part") EXCEPT
     !.rooms = IF in.rooms = <<>> THEN @ ELSE in.rooms,
     !.tele = in.tele \/ (@ /\ ~in.skip),
     !.skip = @ \/ in.skip]

Complete(t) ==
  /\ At(t, "idle") /\ Spend("requests")
  /\ \E in \in [rooms: Typed, tele: BOOLEAN, skip: BOOLEAN] :
       /\ ~(in.tele /\ in.skip)
       /\ req' = [req EXCEPT ![t] = [NoRequest EXCEPT
                 !.kind = "complete", !.pc = "creating", !.copy = Completion(in),
                 !.named = in.rooms # <<>>]]
  /\ UNCHANGED <<saved, flags, instances, host>>

(* The names the rooms ask for.                                            *)
Wanted(s) ==
  {n \in Names : n \in DOMAIN s.rooms \/ (n = TeleName /\ s.tele /\ ~s.skip)}

SaveCreating(t) ==
  /\ At(t, "creating")
  /\ \/ /\ Works(t)
        /\ Save(t, req[t].copy, Then(t, IF Wanted(req[t].copy) = {} THEN "manual" ELSE "list"))
     \/ Fails(t) /\ End(t) /\ UNCHANGED saved
  /\ UNCHANGED <<flags, instances, host>>

(* Without rooms nothing is created: the user does it elsewhere.           *)
Manual(t) ==
  /\ At(t, "manual")
  /\ \/ /\ Works(t)
        /\ Save(t, Moved(req[t].copy, "completed", "full"),
                 [Then(t, "flag") EXCEPT !.manual = TRUE])
     \/ Fails(t) /\ End(t) /\ UNCHANGED saved
  /\ UNCHANGED <<flags, instances, host>>

Live == {id \in DOMAIN instances : instances[id].live}
Holder(name) == {id \in Live : instances[id].name = name}

List(t) ==
  /\ At(t, "list")
  /\ \/ /\ Works(t)
        /\ req' = [req EXCEPT ![t] = [Then(t, "create") EXCEPT
                     !.todo = Wanted(req[t].copy),
                     !.known = [n \in Names |-> IF Holder(n) = {} THEN 0
                                                ELSE CHOOSE id \in Holder(n) : TRUE]]]
     \/ Fails(t) /\ Goto(t, "failed")
  /\ UNCHANGED <<saved, flags, instances, host>>

(* instance.Manager.Create: no name twice; see InstanceManager.            *)
Add(name, provider) ==
  /\ Holder(name) = {}
  /\ instances' = Append(instances, [name |-> name, provider |-> provider, live |-> TRUE])

NextName(t) == CHOOSE n \in req[t].todo : \A k \in req[t].todo : n <= k

(* Mutant: an error is logged and goes on, but is not kept.                *)
Handled_Silent(t, ids, failure) ==
  req' = [req EXCEPT ![t] = [req[t] EXCEPT
            !.todo = @ \ {NextName(t)}, !.known[NextName(t)] = 0,
            !.copy.created = @ \cup ids]]

Handled(t, ids, failure) ==
  req' = [req EXCEPT ![t] = [req[t] EXCEPT
            !.todo = @ \ {NextName(t)}, !.known[NextName(t)] = 0,
            !.copy.created = @ \cup ids, !.failures = @ \/ failure]]

(* One name: an instance that was there before is taken as it is, if only  *)
(* its provider is the right one; another is created.  An error does not   *)
(* keep the others from being created.                                     *)
Create(t) ==
  /\ At(t, "create") /\ req[t].todo # {}
  /\ LET n == NextName(t)
         id == req[t].known[n] IN
     \/ /\ id # 0 /\ UNCHANGED <<instances, left>>
        /\ IF instances[id].provider = ProviderOf(n)
           THEN Handled(t, {id}, FALSE) ELSE Handled(t, {}, TRUE)
     \/ /\ id = 0 /\ Works(t) /\ Add(n, ProviderOf(n))
        /\ Handled(t, {Len(instances')}, FALSE)
     \/ /\ id = 0 /\ Holder(n) # {} /\ UNCHANGED <<instances, left>>
        /\ Handled(t, {}, TRUE)
     \/ /\ id = 0 /\ Fails(t) /\ UNCHANGED instances
        /\ Handled(t, {}, TRUE)
  /\ UNCHANGED <<saved, flags, host>>

(* All of them are started, if the tab wants it, and that may fail, too;   *)
(* the result is saved.  The copy is changed even if it cannot be saved.   *)
Finished(t, failures) ==
  [Moved(req[t].copy, "completed", "full") EXCEPT !.error = failures]

Finish(t) ==
  /\ At(t, "create") /\ req[t].todo = {}
  /\ \E start, unstarted \in BOOLEAN :
       /\ start => req[t].kind = "complete"
       /\ unstarted => start
       /\ start /\ ~(req[t].copy.created \subseteq Live) => unstarted
       /\ LET s == Finished(t, req[t].failures \/ unstarted) IN
          \/ Works(t) /\ Save(t, s, [Then(t, "flag") EXCEPT !.copy = s])
          \/ /\ Fails(t)
             /\ req' = [req EXCEPT ![t] = [Then(t, "failed") EXCEPT !.copy = s]]
             /\ UNCHANGED saved
  /\ UNCHANGED <<flags, instances, host>>

(* The two flags: first_run_completed, then auto_setup_forced.             *)
Deciding == {t \in Tabs : At(t, "force")}
Triggering == {t \in Tabs : req[t].pc \in {"delete", "show"}}

(* t takes the first of its steps that decide about showing the wizard.    *)
Meets(t, others, pc) ==
  req' = [x \in Tabs |->
            IF x = t THEN [Then(t, pc) EXCEPT !.mixed = others # {}]
            ELSE [req[x] EXCEPT !.mixed = @ \/ x \in others]]

Answers(t) == req[t].kind = "dismiss" \/ req[t].manual

SetCompleted(t) ==
  /\ At(t, "flag")
  /\ \/ /\ Works(t)
        /\ completed' = TRUE
        /\ verdict' = IF verdict = "shown" THEN "open" ELSE verdict
        /\ Meets(t, Triggering, "force")
     \/ /\ Fails(t)
        /\ IF Answers(t) THEN End(t) ELSE Goto(t, "failed")
        /\ UNCHANGED <<completed, verdict>>
  /\ UNCHANGED <<saved, forced, instances, host>>

(* Mutant: the end of the wizard sets first_run_completed only.            *)
ClearForced_Not(t) ==
  /\ At(t, "force")
  /\ verdict' = IF req[t].mixed THEN "open" ELSE "done"
  /\ IF req[t].kind = "start" THEN Goto(t, "operation") ELSE End(t)
  /\ UNCHANGED <<saved, completed, forced, instances, host, left>>

(* Dismiss, and Complete without rooms, drop the error.                    *)
ClearForced(t) ==
  /\ At(t, "force")
  /\ \/ /\ Works(t)
        /\ forced' = FALSE
        /\ verdict' = IF req[t].mixed THEN "open" ELSE "done"
        /\ IF req[t].kind = "start" THEN Goto(t, "operation") ELSE End(t)
     \/ /\ Fails(t)
        /\ IF Answers(t) THEN End(t) ELSE Goto(t, "failed")
        /\ UNCHANGED <<forced, verdict>>
  /\ UNCHANGED <<saved, completed, instances, host>>

(* The error path; Start reports it on the state it had begun with.        *)
ReportFailure(t) ==
  /\ At(t, "failed")
  /\ LET s == IF req[t].kind = "start" THEN req[t].base ELSE req[t].copy IN
     \/ Works(t) /\ Save(t, [s EXCEPT !.step = "error", !.error = TRUE], NoRequest)
     \/ Fails(t) /\ End(t) /\ UNCHANGED saved
  /\ UNCHANGED <<flags, instances, host>>

-----------------------------------------------------------------------------
(* Dismiss, Trigger, and the question whether to show the wizard.          *)

Dismiss(t) ==
  /\ At(t, "idle") /\ Spend("requests")
  /\ Save(t, Moved(Loaded, "dismissed", "full"),
           [NoRequest EXCEPT !.kind = "dismiss", !.pc = "flag"])
  /\ UNCHANGED <<flags, instances, host>>

Trigger(t) ==
  /\ At(t, "idle") /\ Spend("requests")
  /\ completed' = FALSE /\ verdict' = "open"
  /\ req' = [x \in Tabs |->
               IF x = t THEN [NoRequest EXCEPT !.kind = "trigger", !.pc = "delete",
                                               !.mixed = Deciding # {}]
               ELSE [req[x] EXCEPT !.mixed = @ \/ x \in Deciding]]
  /\ UNCHANGED <<saved, forced, instances, host>>

DeleteState(t) ==
  /\ At(t, "delete")
  /\ \/ Works(t) /\ Save(t, Nil, Then(t, "show"))
     \/ Fails(t) /\ End(t) /\ UNCHANGED saved
  /\ UNCHANGED <<flags, instances, host>>

SetForced(t) ==
  /\ At(t, "show")
  /\ \/ /\ Works(t)
        /\ forced' = TRUE
        /\ verdict' = IF req[t].mixed THEN "open" ELSE "shown"
     \/ Fails(t) /\ UNCHANGED <<forced, verdict>>
  /\ End(t)
  /\ UNCHANGED <<saved, completed, instances, host>>

(* shouldShowAutoSetup, its answer when nothing happens meanwhile...       *)
ShouldShow == forced \/ (~completed /\ Live = {})

(* ... and its steps: with instances but without the flag, an upgrade.  It *)
(* goes on when the flag is not set, and also when it cannot be read.      *)
ReadForced(t) ==
  /\ Arrive(t, "status", "read", DefaultState)
  /\ UNCHANGED <<saved, flags, instances, host>>

ReadCompleted(t) ==
  /\ At(t, "read")
  /\ IF completed \/ req[t].gone THEN End(t) ELSE Goto(t, "count")
  /\ UNCHANGED <<saved, flags, instances, host, left>>

Count(t) ==
  /\ At(t, "count")
  /\ IF Live = {} \/ req[t].gone THEN End(t) ELSE Goto(t, "upgrade")
  /\ UNCHANGED <<saved, flags, instances, host, left>>

Upgrade(t) ==
  /\ At(t, "upgrade")
  /\ completed' = (completed \/ ~req[t].gone)
  /\ End(t)
  /\ UNCHANGED <<saved, forced, verdict, instances, host, left>>

-----------------------------------------------------------------------------
(* The rest of the panel, clients that go away, and the end of the panel.  *)

AddElsewhere ==
  /\ Spend("events")
  /\ \E other \in Foreign : Add(other.name, other.provider)
  /\ UNCHANGED <<saved, flags, host, req>>

DeleteElsewhere ==
  /\ Spend("events")
  /\ \E id \in Live : instances' = [instances EXCEPT ![id].live = FALSE]
  /\ UNCHANGED <<saved, flags, host, req>>

Disconnect(t) ==
  /\ ~At(t, "idle") /\ ~req[t].gone
  /\ Spend("events")
  /\ req' = [req EXCEPT ![t].gone = TRUE]
  /\ UNCHANGED <<saved, flags, instances, host>>

Crash ==
  /\ Spend("events")
  /\ req' = [t \in Tabs |-> NoRequest]
  /\ tracker' = "idle"
  /\ UNCHANGED <<saved, flags, instances, components, unit>>

Starting(t) == Start(t) \/ SaveDraft(t) \/ SaveStart(t) \/ Run(t) \/ Advance(t) \/ Install(t)
Completing(t) ==
  \/ Complete(t) \/ SaveCreating(t) \/ Manual(t) \/ List(t) \/ Create(t) \/ Finish(t)
  \/ SetCompleted(t) \/ ClearForced(t) \/ ReportFailure(t)
Asking(t) == ReadForced(t) \/ ReadCompleted(t) \/ Count(t) \/ Upgrade(t)
Other(t) ==
  \/ Poll(t) \/ SavePoll(t) \/ SkipTelemost(t) \/ Dismiss(t)
  \/ Trigger(t) \/ DeleteState(t) \/ SetForced(t) \/ Disconnect(t)

Next ==
  \/ \E t \in Tabs : Starting(t) \/ Completing(t) \/ Asking(t) \/ Other(t)
  \/ OperationEnds \/ Operate \/ AddElsewhere \/ DeleteElsewhere \/ Crash

Spec == Init /\ [][Next]_vars

-----------------------------------------------------------------------------
(* When the wizard says it is completed, without an error, there is an     *)
(* instance of the right name and provider for every room it has recorded, *)
(* and for Telemost unless that was skipped: finishAutoSetup goes on after *)
(* an error and must not lose it (auto_setup.go:670, docs/auto-setup.md:   *)
(* the errors of single instances are stored in "error"), also when two    *)
(* tabs complete at the same time and one finds the name taken.  It may    *)
(* have been deleted elsewhere since.                                      *)
CompletionHonest ==
  saved # Nil /\ saved.step = "completed" /\ ~saved.error =>
    \A n \in Wanted(saved) : \E id \in saved.created :
      id \in DOMAIN instances /\ instances[id].name = n /\ instances[id].provider = ProviderOf(n)

(* The wizard that was asked for from the settings is shown, whatever      *)
(* instances there are and whoever asks meanwhile (an installation with    *)
(* instances counts as an upgrade and sets first_run_completed); one that  *)
(* was completed or dismissed is not shown again, whatever stale polls     *)
(* write into its state.  verdict is "open" while neither is decided: a    *)
(* trigger and a completion overlapped, or one of them failed halfway.     *)
VerdictHolds ==
  /\ verdict = "shown" => ShouldShow
  /\ verdict = "done" => ~ShouldShow

(* What the wizard has recorded is not lost by polls, skips, dismissals    *)
(* and completions: rooms stay, in their order (their places decide about  *)
(* names and fps), and a skip stays.  Exceptions: saves by Start, which    *)
(* has choices of its own, saves of a copy that was overtaken (a poll of   *)
(* another tab may write an older step over "dismissed"), and a completion *)
(* that names rooms.                                                       *)
Acts(t) == req'[t].pc # req[t].pc
Replaces(t) == req[t].kind = "start" \/ req[t].stale \/ (req[t].named /\ At(t, "creating"))

NothingForgotten ==
  [][saved # Nil /\ saved' # Nil /\ saved' # saved /\ (\A t \in Tabs : Acts(t) => ~Replaces(t))
     => /\ saved.skip => saved'.skip
        /\ IsPrefix(saved.rooms, saved'.rooms)]_vars

=============================================================================
