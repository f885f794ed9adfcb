------------------------------ MODULE WBSession ------------------------------
(***************************************************************************)
(* The browser session that captures a Wildberries token: the handlers and *)
(* the monitor of internal/server/settings.go, olcrtc-wb-session.service   *)
(* and its worker (assets/files/wb/worker.mjs).                            *)
(*                                                                         *)
(* Panel and worker talk through three files: job.json and control.json    *)
(* say what to do and until when, state.json how far it is, and at the end *)
(* the token.  One goroutine of the panel takes the token out of the file: *)
(* the monitor, or a poll when no monitor runs.  Every session captures a  *)
(* token of its own; sessions, their tokens and their monitors have the    *)
(* number of their start.  The provider is wbstream.                       *)
(***************************************************************************)
EXTENDS Naturals, FiniteSets

CONSTANTS
  Procs,        (* goroutines of HTTP requests                              *)
  Nil,          (* nobody                                                   *)
  Length,       (* how long a session and its extension last               *)
  MaxClock,     (* bound: the clock                                        *)
  MaxStarts,    (* bound: requests to start a session                      *)
  MaxRequests,  (* bound: other requests                                   *)
  MaxFaults     (* bound: crashes, disconnects and failing calls           *)

Runs == 1..MaxStarts
Actors == Procs \cup Runs

ASSUME ActorAssumption == Nil \notin Actors /\ Procs \cap Runs = {}
ASSUME BoundAssumption ==
  /\ Length \in Nat \ {0} /\ MaxClock \in Nat
  /\ MaxStarts \in Nat /\ MaxRequests \in Nat /\ MaxFaults \in Nat

VARIABLES
  state,       (* state.json: its phase, and the session it tells of       *)
  job,         (* job.json: the deadline in it, 0 without a file           *)
  control,     (* control.json: the deadline in it, 0 without a file       *)
  expires,     (* setting wb_session_expires, 0 when there is none         *)
  extended,    (* setting wb_session_extended                              *)
  wbToken,     (* setting wb_token                                         *)
  applied,     (* how often UpdateWBToken was called with each token       *)
  service,     (* the unit and its worker                                  *)
  task,        (* requests and monitors                                    *)
  generation,  (* wbSessionMonitor.generation                              *)
  current,     (* the monitor wbSessionMonitor.cancel belongs to, or 0     *)
  stateMu,     (* who holds wbSessionStateMu                               *)
  latest,      (* the session whose job was written last                   *)
  shown,       (* the last success a poll was answered: its session, the   *)
               (* token that came with it, and latest at that moment       *)
  clock,
  left,        (* what the bounds still allow                              *)
  happened     (* events the properties make exceptions of                 *)

files == <<state, job, control>>
settings == <<expires, extended>>
tokens == <<wbToken, applied>>
monitors == <<generation, current>>
vars == <<state, job, control, expires, extended, wbToken, applied, service, task,
          generation, current, stateMu, latest, shown, clock, left, happened>>

Phases == {"none", "queued", "busy", "captured", "applying", "success", "error"}
Kinds == {"start", "stop", "reset", "extend", "poll"}
Steps == {"idle", "lock", "halt", "kill", "clean", "job", "launch", "ready", "save", "watch",
          "forget", "read_expires", "control", "extended", "peek", "check", "look", "store",
          "secure", "apply", "report", "attach", "mark", "leave", "cleanup"}
Task == [kind: Kinds \cup {"none", "monitor"}, pc: Steps, run: Nat, deadline: Nat, gen: Nat,
         cancelled: BOOLEAN]
NoTask == [kind |-> "none", pc |-> "idle", run |-> 0, deadline |-> 0, gen |-> 0,
           cancelled |-> FALSE]
Off == [pc |-> "off", run |-> 0, deadline |-> 0]
Nothing == [run |-> 0, token |-> 0, last |-> 0]

Limits == [starts |-> MaxStarts, requests |-> MaxRequests, faults |-> MaxFaults]

(* Where wbSessionStateMu is held: all of Start, and the first part of      *)
(* consumeWBSessionState.                                                  *)
Holding(x) ==
  \/ task[x].kind = "start" /\ task[x].pc # "lock"
  \/ task[x].pc \in {"store", "secure"}

(* Types, and the discipline of wbSessionStateMu: no error path of Start    *)
(* and consumeWBSessionState keeps it, nobody else is ever inside.         *)
TypeOK ==
  /\ state \in [phase: Phases, run: Nat]
  /\ job \in Nat /\ control \in Nat /\ expires \in Nat /\ extended \in BOOLEAN
  /\ wbToken \in Nat /\ applied \in [Runs -> Nat]
  /\ service \in [pc: {"off", "boot", "login", "working"}, run: Nat, deadline: Nat]
  /\ task \in [Actors -> Task]
  /\ generation \in Nat /\ current \in Nat
  /\ stateMu \in Actors \cup {Nil}
  /\ \A x \in Actors : stateMu = x <=> Holding(x)
  /\ latest \in Nat /\ clock \in Nat
  /\ shown \in [run: Nat, token: Nat, last: Nat]
  /\ left \in [DOMAIN Limits -> Nat]
  /\ happened \subseteq {"crash", "cancel", "fault", "unwatched", "late monitor", "forgotten",
                       "two applying", "overtaken", "unstopped", "unmarked"}

NoState == [phase |-> "none", run |-> 0]

Init ==
  /\ state = NoState /\ job = 0 /\ control = 0
  /\ expires = 0 /\ extended = FALSE
  /\ wbToken = 0 /\ applied = [r \in Runs |-> 0]
  /\ service = Off
  /\ task = [x \in Actors |-> NoTask]
  /\ generation = 0 /\ current = 0 /\ stateMu = Nil
  /\ latest = 0 /\ shown = Nothing /\ clock = 1
  /\ left = Limits
  /\ happened = {}

Spend(what) == left[what] > 0 /\ left' = [left EXCEPT ![what] = @ - 1]
Disturbed(event) == Spend("faults") /\ happened' = happened \cup {event}
Fault == Disturbed("fault")
NoFault == UNCHANGED <<left, happened>>
At(x, pc) == task[x].pc = pc
Goto(x, pc) == task' = [task EXCEPT ![x] = [@ EXCEPT !.pc = pc]]
End(x) == task' = [task EXCEPT ![x] = NoTask]
Lock(x) == stateMu = Nil /\ stateMu' = x
Unlock == stateMu' = Nil

-----------------------------------------------------------------------------
(* wbSessionMonitor: stop and start, each under its own mutex.             *)

Cancelled(m) == [task EXCEPT ![m].cancelled = TRUE]

StopMonitor(p, pc) ==
  /\ generation' = generation + 1
  /\ current' = 0
  /\ task' = [(IF current = 0 THEN task ELSE Cancelled(current)) EXCEPT ![p].pc = pc]

(* A monitor that has already found its session expired is not told.       *)
Late ==
  IF \E r \in Runs : task[r].pc \in {"kill", "mark"} THEN {"late monitor"} ELSE {}

-----------------------------------------------------------------------------
(* Requests arrive; a client may disconnect.                               *)

FirstStep(kind) ==
  CASE kind = "start" -> "lock"
    [] kind \in {"stop", "reset"} -> "halt"
    [] kind = "extend" -> "read_expires"
    [] kind = "poll" -> "peek"

(* An extension first looks whether there was one.                         *)
Begin(p, kind) ==
  /\ At(p, "idle")
  /\ kind = "extend" => ~extended
  /\ Spend(IF kind = "start" THEN "starts" ELSE "requests")
  /\ task' = [task EXCEPT ![p] =
                [NoTask EXCEPT !.kind = kind, !.pc = FirstStep(kind),
                               !.run = IF kind = "start" THEN MaxStarts - left.starts + 1 ELSE 0]]
  /\ UNCHANGED <<files, settings, tokens, service, monitors, stateMu, latest, shown, clock, happened>>

(* From now on every call that is given the request's context fails.       *)
Cancel(p) ==
  /\ ~At(p, "idle") /\ ~task[p].cancelled
  /\ Disturbed("cancel")
  /\ task' = Cancelled(p)
  /\ UNCHANGED <<files, settings, tokens, service, monitors, stateMu, latest, shown, clock>>

-----------------------------------------------------------------------------
(* handleWBSessionStart, all of it under wbSessionStateMu.                 *)

(* Without the request's context neither the setting nor the unit is seen. *)
Active(p) == ~task[p].cancelled /\ clock < expires /\ service.pc # "off"

StartLock(p) ==
  /\ At(p, "lock") /\ stateMu = Nil
  /\ \/ Active(p) /\ End(p) /\ UNCHANGED stateMu
     \/ /\ ~Active(p) /\ Lock(p)
        /\ task' = [task EXCEPT ![p].pc = "halt", ![p].deadline = clock + Length]
  /\ UNCHANGED <<files, settings, tokens, service, monitors, latest, shown, clock, left, happened>>

(* Start, Stop and ProfileReset: the monitor, then the unit, then the files. *)
Halt(p) ==
  /\ At(p, "halt")
  /\ StopMonitor(p, IF task[p].kind = "stop" THEN "forget" ELSE "kill")
  /\ happened' = happened \cup Late
  /\ UNCHANGED <<files, settings, tokens, service, stateMu, latest, shown, clock, left>>

(* Errors of systemctl are dropped: the unit may go on.                    *)
StaysOn == service.pc # "off" /\ UNCHANGED service /\ Disturbed("unstopped")

Kill(p) ==
  /\ At(p, "kill")
  /\ \/ ~task[p].cancelled /\ service' = Off /\ NoFault
     \/ task[p].cancelled /\ UNCHANGED service /\ NoFault
     \/ StaysOn
  /\ Goto(p, "clean")
  /\ UNCHANGED <<files, settings, tokens, monitors, stateMu, latest, shown, clock>>

NoFiles == state' = NoState /\ job' = 0 /\ control' = 0

(* The files of the last session go; the preparations may fail.            *)
StartClean(p) ==
  /\ At(p, "clean") /\ task[p].kind = "start"
  /\ NoFiles
  /\ \/ ~task[p].cancelled /\ Goto(p, "job") /\ UNCHANGED stateMu /\ NoFault
     \/ task[p].cancelled /\ End(p) /\ Unlock /\ NoFault
     \/ End(p) /\ Unlock /\ Fault
  /\ UNCHANGED <<settings, tokens, service, monitors, latest, shown, clock>>

(* A poll that is answered at this moment speaks of the session before.    *)
Overtaken ==
  IF \E p \in Procs : task[p].kind = "poll" /\ task[p].run # 0 THEN {"overtaken"} ELSE {}

(* writeWBJob writes three files; an error ends the request.               *)
StartJob(p) ==
  /\ At(p, "job")
  /\ \/ /\ ~task[p].cancelled
        /\ job' = task[p].deadline /\ control' = task[p].deadline
        /\ state' = [phase |-> "queued", run |-> task[p].run] /\ latest' = task[p].run
        /\ Goto(p, "launch")
        /\ happened' = happened \cup Overtaken
        /\ UNCHANGED <<stateMu, left>>
     \/ /\ task[p].cancelled
        /\ End(p) /\ Unlock /\ NoFault
        /\ UNCHANGED <<files, latest>>
     \/ /\ ~task[p].cancelled /\ Fault
        /\ \E written \in 0..2 :
             /\ job' = IF written > 0 THEN task[p].deadline ELSE job
             /\ control' = IF written > 1 THEN task[p].deadline ELSE control
        /\ End(p) /\ Unlock
        /\ UNCHANGED <<state, latest>>
  /\ UNCHANGED <<settings, tokens, service, monitors, shown, clock>>

(* systemctl start, which leaves a unit alone that still runs; after an    *)
(* error the files go again.                                               *)
StartLaunch(p) ==
  /\ At(p, "launch")
  /\ \/ /\ ~task[p].cancelled
        /\ service' = IF service.pc # "off" THEN service
                      ELSE [pc |-> "boot", run |-> task[p].run, deadline |-> 0]
        /\ Goto(p, "ready")
        /\ UNCHANGED <<files, stateMu>> /\ NoFault
     \/ task[p].cancelled /\ NoFiles /\ End(p) /\ Unlock /\ UNCHANGED service /\ NoFault
     \/ NoFiles /\ End(p) /\ Unlock /\ UNCHANGED service /\ Fault
  /\ UNCHANGED <<settings, tokens, monitors, latest, shown, clock>>

(* noVNC and the unit are waited for.  If that fails the files go and the  *)
(* unit goes on, without a monitor.                                        *)
Unwatched == IF service.pc = "off" THEN {} ELSE {"unwatched"}

StartReady(p) ==
  /\ At(p, "ready")
  /\ \/ /\ ~task[p].cancelled /\ service.pc # "off"
        /\ Goto(p, "save")
        /\ UNCHANGED <<files, stateMu>> /\ NoFault
     \/ /\ task[p].cancelled \/ service.pc = "off"
        /\ NoFiles /\ End(p) /\ Unlock
        /\ happened' = happened \cup Unwatched /\ UNCHANGED left
     \/ /\ Spend("faults") /\ happened' = happened \cup {"fault"} \cup Unwatched
        /\ NoFiles /\ End(p) /\ Unlock
  /\ UNCHANGED <<settings, tokens, service, monitors, latest, shown, clock>>

(* The settings of the session; errors are dropped.                        *)
StartSave(p) ==
  /\ At(p, "save")
  /\ \/ /\ ~task[p].cancelled
        /\ expires' = task[p].deadline /\ extended' = FALSE
        /\ NoFault
     \/ task[p].cancelled /\ UNCHANGED settings /\ NoFault
     \/ /\ ~task[p].cancelled /\ Fault
        /\ expires' \in {expires, task[p].deadline} /\ extended' \in {extended, FALSE}
  /\ Goto(p, "watch")
  /\ UNCHANGED <<files, tokens, service, monitors, stateMu, latest, shown, clock>>

(* startWBSessionMonitor, and the answer.                                  *)
StartWatch(p) ==
  /\ At(p, "watch")
  /\ LET r == task[p].run IN
     /\ generation' = generation + 1
     /\ current' = r
     /\ task' = [(IF current = 0 THEN task ELSE Cancelled(current)) EXCEPT
                   ![p] = NoTask,
                   ![r] = [NoTask EXCEPT !.kind = "monitor", !.pc = "look", !.gen = generation']]
  /\ Unlock
  /\ UNCHANGED <<files, settings, tokens, service, latest, shown, clock, left, happened>>

Starting(p) ==
  \/ StartLock(p) \/ StartClean(p) \/ StartJob(p) \/ StartLaunch(p)
  \/ StartReady(p) \/ StartSave(p) \/ StartWatch(p)

-----------------------------------------------------------------------------
(* handleWBSessionStop, handleWBProfileReset and handleWBSessionExtend.    *)

(* The settings are deleted, by Stop before the unit is stopped, by        *)
(* ProfileReset last: they may be those of a new session by then.  Errors  *)
(* are dropped.                                                            *)
Forgotten(p) ==
  IF task[p].kind = "reset" /\ (current # 0 \/ stateMu # Nil) THEN {"forgotten"} ELSE {}

Forget(p) ==
  /\ At(p, "forget")
  /\ IF task[p].kind = "stop" THEN Goto(p, "kill") ELSE End(p)
  /\ \/ /\ ~task[p].cancelled
        /\ expires' = 0 /\ extended' = FALSE
        /\ happened' = happened \cup Forgotten(p) /\ UNCHANGED left
     \/ task[p].cancelled /\ UNCHANGED settings /\ NoFault
     \/ /\ expires' \in {expires, 0} /\ extended' \in {extended, FALSE}
        /\ Spend("faults") /\ happened' = happened \cup {"fault"} \cup Forgotten(p)
  /\ UNCHANGED <<files, tokens, service, monitors, stateMu, latest, shown, clock>>

(* cleanupWBWorkerFiles, under the mutex.                                  *)
Clean(p) ==
  /\ At(p, "clean") /\ task[p].kind \in {"stop", "reset"}
  /\ stateMu = Nil
  /\ NoFiles
  /\ IF task[p].kind = "stop" THEN End(p) ELSE Goto(p, "forget")
  /\ UNCHANGED <<settings, tokens, service, monitors, stateMu, latest, shown, clock, left, happened>>

ReadExpires(p) ==
  /\ At(p, "read_expires")
  /\ IF task[p].cancelled \/ expires = 0 \/ clock > expires
     THEN End(p)
     ELSE task' = [task EXCEPT ![p].pc = "control", ![p].deadline = expires + Length]
  /\ UNCHANGED <<files, settings, tokens, service, monitors, stateMu, latest, shown, clock, left, happened>>

(* The worker learns the new deadline first.                               *)
WriteControl(p) ==
  /\ At(p, "control")
  /\ \/ control' = task[p].deadline /\ Goto(p, "extended") /\ NoFault
     \/ UNCHANGED control /\ End(p) /\ Fault
  /\ UNCHANGED <<state, job, settings, tokens, service, monitors, stateMu, latest, shown, clock>>

(* Errors are dropped.                                                     *)
SetExtended(p) ==
  /\ At(p, "extended")
  /\ End(p)
  /\ \/ ~task[p].cancelled /\ expires' = task[p].deadline /\ extended' = TRUE /\ NoFault
     \/ task[p].cancelled /\ UNCHANGED settings /\ NoFault
     \/ expires' \in {expires, task[p].deadline} /\ extended' \in {extended, TRUE} /\ Fault
  /\ UNCHANGED <<files, tokens, service, monitors, stateMu, latest, shown, clock>>

Changing(p) ==
  \/ Halt(p) \/ Kill(p) \/ Forget(p) \/ Clean(p)
  \/ ReadExpires(p) \/ WriteControl(p) \/ SetExtended(p)

-----------------------------------------------------------------------------
(* consumeWBSessionState, by the monitor, and by handleWBSessionGet while  *)
(* no monitor runs.                                                        *)

(* What the caller does with the phase it is given: a poll answers, the    *)
(* monitor ends or goes on.                                                *)
Proceed(x, phase) ==
  IF x \in Runs
  THEN Goto(x, IF phase \in {"success", "error"} THEN "leave" ELSE "look")
  ELSE IF phase = "success" THEN Goto(x, "attach") ELSE End(x)

(* Only a state with a token is of interest.                               *)
Take(x) ==
  /\ At(x, "look") /\ state.phase = "captured"
  /\ Lock(x)
  /\ task' = [task EXCEPT ![x].pc = "store", ![x].run = state.run]
  /\ UNCHANGED <<files, settings, tokens, service, monitors, latest, shown, clock, left, happened>>

(* A poll first reads the file, for the answer it gives when a monitor is  *)
(* at work; without one it looks for the token itself.                     *)
Succeeded == IF state.phase = "success" THEN state.run ELSE 0

PollPeek(p) ==
  /\ At(p, "peek") /\ stateMu = Nil
  /\ task' = [task EXCEPT ![p].pc = "check", ![p].run = Succeeded]
  /\ UNCHANGED <<files, settings, tokens, service, monitors, stateMu, latest, shown, clock, left, happened>>

PollCheck(p) ==
  /\ At(p, "check")
  /\ \/ current = 0 /\ task' = [task EXCEPT ![p].pc = "look", ![p].run = 0]
     \/ current # 0 /\ IF task[p].run # 0 THEN Goto(p, "attach") ELSE End(p)
  /\ UNCHANGED <<files, settings, tokens, service, monitors, stateMu, latest, shown, clock, left, happened>>

PollInVain(p) ==
  /\ At(p, "look") /\ state.phase # "captured" /\ stateMu = Nil
  /\ IF Succeeded # 0
     THEN task' = [task EXCEPT ![p].pc = "attach", ![p].run = Succeeded]
     ELSE End(p)
  /\ UNCHANGED <<files, settings, tokens, service, monitors, stateMu, latest, shown, clock, left, happened>>

(* The answer of success, with the token of the setting: only a session    *)
(* that creates a room asks for it, and it may not be read.                *)
PollAttach(p) ==
  /\ At(p, "attach")
  /\ \E token \in {0, wbToken} :
       shown' = [run |-> task[p].run, token |-> token, last |-> latest]
  /\ End(p)
  /\ UNCHANGED <<files, settings, tokens, service, monitors, stateMu, latest, clock, left, happened>>

Polling(p) == PollPeek(p) \/ PollCheck(p) \/ PollInVain(p) \/ PollAttach(p)

(* saveWBToken; when it fails the token is lost, but perhaps stored, or it *)
(* stays in the file when that cannot be written either.                   *)
StoreToken(x) ==
  /\ At(x, "store")
  /\ \/ /\ ~task[x].cancelled
        /\ wbToken' = task[x].run
        /\ Goto(x, "secure")
        /\ UNCHANGED <<state, stateMu>> /\ NoFault
     \/ /\ IF task[x].cancelled THEN UNCHANGED wbToken /\ NoFault
                                ELSE wbToken' \in {wbToken, task[x].run} /\ Fault
        /\ state' = [state EXCEPT !.phase = "error"]
        /\ Unlock /\ Proceed(x, "error")
     \/ /\ IF task[x].cancelled THEN UNCHANGED wbToken
                                ELSE wbToken' \in {wbToken, task[x].run}
        /\ Disturbed("unmarked") /\ UNCHANGED state
        /\ Unlock /\ Proceed(x, "error")
  /\ UNCHANGED <<job, control, settings, applied, service, monitors, latest, shown, clock>>

(* Mutant: the token stays in the file while it is applied.                *)
Secure_KeepsToken(x) ==
  /\ At(x, "secure")
  /\ Unlock
  /\ Goto(x, "apply")
  /\ UNCHANGED <<files, settings, tokens, service, monitors, latest, shown, clock, left, happened>>

(* The token is taken out of the file before the mutex is released.        *)
Secure(x) ==
  /\ At(x, "secure")
  /\ Unlock
  /\ \/ /\ state' = [phase |-> "applying", run |-> task[x].run]
        /\ Goto(x, "apply")
        /\ happened' = happened \cup
             (IF \E y \in Actors : task[y].pc \in {"apply", "report"} THEN {"two applying"} ELSE {})
        /\ UNCHANGED left
     \/ UNCHANGED state /\ Proceed(x, "applying") /\ Fault
  /\ UNCHANGED <<job, control, settings, tokens, service, monitors, latest, shown, clock>>

(* UpdateWBToken, see InstanceManager, without the mutex; it may fail for  *)
(* some instances, or for all when its context is cancelled.               *)
Apply(x) ==
  /\ At(x, "apply")
  /\ applied' = [applied EXCEPT ![task[x].run] = @ + 1]
  /\ Goto(x, "report")
  /\ UNCHANGED <<files, settings, wbToken, service, monitors, stateMu, latest, shown, clock, left, happened>>

(* Mutant: the result is written whatever the file says by now.            *)
Report_Always(x) ==
  /\ At(x, "report") /\ stateMu = Nil
  /\ state' = [phase |-> "success", run |-> task[x].run]
  /\ Proceed(x, "success")
  /\ UNCHANGED <<job, control, settings, tokens, service, monitors, stateMu, latest, shown, clock, left, happened>>

(* The result is written if a token is still being applied.                *)
Report(x) ==
  /\ At(x, "report") /\ stateMu = Nil
  /\ \/ /\ state' = IF state.phase = "applying"
                    THEN [phase |-> "success", run |-> task[x].run] ELSE state
        /\ NoFault
     \/ UNCHANGED state /\ Fault
  /\ Proceed(x, "success")
  /\ UNCHANGED <<job, control, settings, tokens, service, monitors, stateMu, latest, shown, clock>>

Consume(x) == Take(x) \/ StoreToken(x) \/ Secure(x) \/ Apply(x) \/ Report(x)

-----------------------------------------------------------------------------
(* monitorWBSession.  Once a second it looks for a token, for the end of   *)
(* the session and at the time; a second with nothing to do is left out.   *)

Expired == expires # 0 /\ expires <= clock

(* Mutant: at the deadline the monitor ends and touches nothing.           *)
Look_Leaves(r) ==
  /\ At(r, "look") /\ state.phase # "captured" /\ stateMu = Nil
  /\ state.phase \in {"success", "error"} \/ task[r].cancelled \/ Expired
  /\ Goto(r, "leave")
  /\ UNCHANGED <<files, settings, tokens, service, monitors, stateMu, latest, shown, clock, left, happened>>

Look(r) ==
  /\ At(r, "look") /\ state.phase # "captured" /\ stateMu = Nil
  /\ \/ /\ state.phase \in {"success", "error"} \/ task[r].cancelled
        /\ Goto(r, "leave")
     \/ /\ state.phase \notin {"success", "error"} /\ ~task[r].cancelled /\ Expired
        /\ Goto(r, "kill")
  /\ UNCHANGED <<files, settings, tokens, service, monitors, stateMu, latest, shown, clock, left, happened>>

MonitorKill(r) ==
  /\ At(r, "kill")
  /\ (service' = Off /\ NoFault) \/ StaysOn
  /\ Goto(r, "mark")
  /\ UNCHANGED <<files, settings, tokens, monitors, stateMu, latest, shown, clock>>

(* An error of the write is dropped.                                       *)
Mark(r) ==
  /\ At(r, "mark") /\ stateMu = Nil
  /\ \/ state' = [state EXCEPT !.phase = "error"] /\ NoFault
     \/ UNCHANGED state /\ Disturbed("unmarked")
  /\ Goto(r, "leave")
  /\ UNCHANGED <<job, control, settings, tokens, service, monitors, stateMu, latest, shown, clock>>

(* The deferred function; the files go when the mutex is free again.       *)
Leave(r) ==
  /\ At(r, "leave")
  /\ IF generation = task[r].gen
     THEN current' = 0 /\ Goto(r, "cleanup")
     ELSE UNCHANGED current /\ End(r)
  /\ UNCHANGED <<files, settings, tokens, service, generation, stateMu, latest, shown, clock, left, happened>>

Cleanup(r) ==
  /\ At(r, "cleanup")
  /\ job' = 0 /\ control' = 0
  /\ End(r)
  /\ UNCHANGED <<state, settings, tokens, service, monitors, stateMu, latest, shown, clock, left, happened>>

Monitor(r) == Look(r) \/ MonitorKill(r) \/ Mark(r) \/ Leave(r) \/ Cleanup(r)

-----------------------------------------------------------------------------
(* The unit and its worker, which writes state.json as it likes.           *)

Writes(phase) == state' = [phase |-> phase, run |-> service.run]

(* run-session.sh and the worker start; without a job.json they fail.      *)
WorkerBoots ==
  /\ service.pc = "boot"
  /\ IF job = 0
     THEN service' = Off /\ UNCHANGED state
     ELSE service' = [service EXCEPT !.pc = "login", !.deadline = job] /\ Writes("busy")
  /\ UNCHANGED <<job, control, settings, tokens, task, monitors, stateMu, latest, shown, clock, left, happened>>

Deadline == IF control = 0 THEN service.deadline ELSE control

(* The deadline itself counts as past: the clock stands for the time until *)
(* its next tick.                                                          *)
LoginExpires ==
  /\ service.pc = "login" /\ clock >= Deadline
  /\ Writes("error")
  /\ service' = Off
  /\ UNCHANGED <<job, control, settings, tokens, task, monitors, stateMu, latest, shown, clock, left, happened>>

(* The administrator signs in at the remote browser.                       *)
LogIn ==
  /\ service.pc = "login"
  /\ service' = [service EXCEPT !.pc = "working"]
  /\ Writes("busy")
  /\ UNCHANGED <<job, control, settings, tokens, task, monitors, stateMu, latest, shown, clock, left, happened>>

(* Token and room are found; or a wait times out or the browser fails.     *)
WorkerEnds ==
  /\ \/ service.pc = "working" /\ Writes("captured")
     \/ service.pc \in {"login", "working"} /\ Writes("error")
  /\ service' = Off
  /\ UNCHANGED <<job, control, settings, tokens, task, monitors, stateMu, latest, shown, clock, left, happened>>

(* The worker or its browser is killed.                                    *)
WorkerDies ==
  /\ service.pc # "off"
  /\ service' = Off
  /\ Fault
  /\ UNCHANGED <<files, settings, tokens, task, monitors, stateMu, latest, shown, clock>>

Worker == WorkerBoots \/ LoginExpires \/ WorkerEnds

(* The panel is killed and started again; no monitor is started for a      *)
(* session that goes on.                                                   *)
Crash ==
  /\ Disturbed("crash")
  /\ task' = [x \in Actors |-> NoTask]
  /\ generation' = 0 /\ current' = 0 /\ stateMu' = Nil
  /\ UNCHANGED <<files, settings, tokens, service, latest, shown, clock>>

Tick ==
  /\ clock < MaxClock
  /\ clock' = clock + 1
  /\ UNCHANGED <<files, settings, tokens, service, task, monitors, stateMu, latest, shown, left, happened>>

-----------------------------------------------------------------------------
Handle(p) == Starting(p) \/ Changing(p) \/ Polling(p) \/ Consume(p)
Watch(r) == Consume(r) \/ Monitor(r)

Next ==
  \/ \E p \in Procs : Handle(p) \/ Cancel(p) \/ \E kind \in Kinds : Begin(p, kind)
  \/ \E r \in Runs : Watch(r)
  \/ Worker \/ LogIn \/ WorkerDies \/ Crash \/ Tick

Spec == Init /\ [][Next]_vars

-----------------------------------------------------------------------------
Without(events) == happened \cap events = {}

(* UpdateWBToken is called at most once with the token of a session,       *)
(* although the monitor and the polls of every open tab look for it.       *)
AppliedOnce == \A r \in Runs : applied[r] <= 1

(* A success in the file is that of the last session, and the setting has  *)
(* the token that session captured, whatever an earlier one is still       *)
(* doing; and the success that a poll answers, from the file or from its   *)
(* own copy when it has applied the token, is that of the session which is *)
(* the last one at that moment, with no token but that session's.  The     *)
(* exceptions: two sessions that apply at the same time, a unit that a new *)
(* session could not stop, and for the answer a session that was started   *)
(* while the poll was under way.                                           *)
StateOfSession ==
  /\ state.phase = "success" /\ Without({"two applying", "unstopped"}) =>
       state.run = latest /\ wbToken = state.run
  /\ shown.run # 0 /\ Without({"two applying", "unstopped", "overtaken"}) =>
       shown.run = shown.last /\ shown.token \in {0, shown.run}

(* Progress that is shown always has somebody who will end it: a request   *)
(* at work on the session, a monitor that sees the deadline or at least a  *)
(* worker, and for a token a goroutine that takes it.  A session may be    *)
(* left without a monitor by a crash, a disconnect, a start that waited in *)
(* vain or that came while an earlier monitor ended its session, and       *)
(* without a deadline by a profile reset or when the write of the setting  *)
(* fails; a failing write may also leave the phase "applying".  When the   *)
(* unit could not be stopped, or "error" not be written, the file goes on  *)
(* showing progress that nobody ends.                                      *)
AtWork == \E p \in Procs : task[p].kind \in {"start", "stop", "reset"}
Watched == \E r \in Runs : At(r, "look") /\ ~task[r].cancelled
Applying == \E x \in Actors : task[x].pc \in {"store", "secure", "apply", "report"}
Ending == \E r \in Runs : task[r].pc \in {"kill", "mark"}

Progress ==
  Without({"crash", "cancel", "unwatched", "late monitor", "forgotten", "unstopped",
           "unmarked"}) =>
    /\ state.phase \in {"queued", "busy"} =>
         AtWork \/ Ending \/ (Watched /\ (expires # 0 \/ service.pc # "off" \/ "fault" \in happened))
    /\ state.phase = "captured" => AtWork \/ Ending \/ Watched \/ Applying
    /\ state.phase = "applying" /\ Without({"fault"}) => Applying

=============================================================================
