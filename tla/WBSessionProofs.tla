--------------------------- MODULE WBSessionProofs ---------------------------
(***************************************************************************)
(* For any number of requests, sessions, faults and restarts of the panel: *)
(* the mutex excludes, the token of a session is applied at most once, a   *)
(* success that is shown is that of the last session, and progress that is *)
(* shown has somebody who will end it.                                     *)
(***************************************************************************)
EXTENDS WBSession, TLAPS

Waiting == {"lock", "halt", "kill", "clean", "job", "launch"}
Consuming == {"store", "secure", "apply", "report"}
Events == {"crash", "cancel", "fault", "unwatched", "late monitor", "forgotten", "two applying",
           "overtaken", "unstopped", "unmarked"}

(* The steps that a goroutine of each kind goes through.                   *)
Fits(x, t) ==
  /\ t \in Task
  /\ t.kind = "none" => t.pc = "idle"
  /\ t.kind = "start" => t.pc \in Waiting \cup {"ready", "save", "watch"} /\ t.run \in Runs
  /\ t.kind = "stop" => t.pc \in {"halt", "forget", "kill", "clean"}
  /\ t.kind = "reset" => t.pc \in {"halt", "kill", "clean", "forget"}
  /\ t.kind = "extend" => t.pc \in {"read_expires", "control", "extended"}
  /\ t.kind = "poll" => t.pc \in {"peek", "check", "look", "attach"} \cup Consuming
  /\ t.kind = "monitor" => t.pc \in {"look", "kill", "mark", "leave", "cleanup"} \cup Consuming
  /\ x \in Procs => t.kind # "monitor"
  /\ x \in Runs => t.kind \in {"none", "monitor"}
  /\ t.pc \in Consuming => t.run \in Runs

Holds(t) == (t.kind = "start" /\ t.pc # "lock") \/ t.pc \in {"store", "secure"}

Tasks == task \in [Actors -> Task] /\ \A x \in Actors : Fits(x, task[x])

Mutex ==
  /\ stateMu \in Actors \cup {Nil}
  /\ \A x \in Actors : stateMu = x <=> Holds(task[x])

(* The rest of the types.  A session has a number when its unit runs, and  *)
(* when its token is in the file.                                          *)
Files == state \in [phase: Phases, run: Nat] /\ job \in Nat /\ control \in Nat
Stored == expires \in Nat /\ extended \in BOOLEAN /\ wbToken \in Nat /\ applied \in [Runs -> Nat]
Unit == service \in [pc: {"off", "boot", "login", "working"}, run: Nat, deadline: Nat]
Counts ==
  /\ generation \in Nat /\ current \in Runs \cup {0}
  /\ latest \in Nat /\ clock \in Nat /\ shown \in [run: Nat, token: Nat, last: Nat]
  /\ left \in [DOMAIN Limits -> Nat] /\ left.starts <= MaxStarts
Known == happened \subseteq Events
Numbered ==
  /\ service.pc # "off" => service.run \in Runs
  /\ state.phase = "captured" => state.run \in Runs

Typed == Tasks /\ Mutex /\ Files /\ Stored /\ Unit /\ Counts /\ Known /\ Numbered

(* The parts are the type invariant.                                       *)
LEMMA TypedIsTypeOK == Typed => TypeOK
<1>1. \A x \in Actors : Holds(task[x]) <=> Holding(x)
  BY DEF Holds, Holding
<1> SUFFICES ASSUME Typed PROVE TypeOK
  OBVIOUS
<1>2. current \in Nat
  BY DEF Runs, Typed, Counts
<1>3. task \in [Actors -> Task]
  BY DEF Typed, Tasks
<1>4. stateMu \in Actors \cup {Nil} /\ \A x \in Actors : stateMu = x <=> Holding(x)
  BY <1>1 DEF Typed, Mutex
<1> QED
  BY <1>2, <1>3, <1>4, Zenon
  DEF Typed, Files, Stored, Unit, Counts, Known, Events, TypeOK

(* Nobody holds the mutex when it is free.                                 *)
LEMMA FreeMutex == ASSUME Mutex, stateMu = Nil PROVE \A x \in Actors : ~Holds(task[x])
BY ActorAssumption DEF Mutex

(* A step of one goroutine fits when its new state does.                   *)
LEMMA TaskStep ==
  ASSUME Tasks, NEW x \in Actors, NEW t, Fits(x, t), task' = [task EXCEPT ![x] = t]
  PROVE  Tasks' /\ task'[x] = t /\ \A y \in Actors : y # x => task'[y] = task[y]
BY DEF Tasks, Fits

(* It may keep the mutex or do without it, take it, or give it back.       *)
LEMMA MutexStep ==
  ASSUME Tasks, Mutex, NEW x \in Actors, NEW t, task' = [task EXCEPT ![x] = t],
         \/ stateMu' = stateMu /\ (Holds(t) <=> Holds(task[x]))
         \/ stateMu = Nil /\ stateMu' = x /\ Holds(t)
         \/ Holds(task[x]) /\ stateMu' = Nil /\ ~Holds(t)
  PROVE  Mutex'
<1>1. task'[x] = t /\ \A y \in Actors : y # x => task'[y] = task[y]
  BY DEF Tasks
<1>2. CASE stateMu' = stateMu /\ (Holds(t) <=> Holds(task[x]))
  BY <1>1, <1>2 DEF Mutex
<1>3. CASE stateMu = Nil /\ stateMu' = x /\ Holds(t)
  BY <1>1, <1>3, FreeMutex DEF Mutex
<1>4. CASE Holds(task[x]) /\ stateMu' = Nil /\ ~Holds(t)
  BY <1>1, <1>4, ActorAssumption DEF Mutex
<1> QED BY <1>2, <1>3, <1>4

(* The state of a goroutine that has ended.                                *)
LEMMA EndFits == ASSUME NEW x \in Actors PROVE Fits(x, NoTask) /\ ~Holds(NoTask)
BY DEF Fits, Holds, NoTask, Task, Kinds, Steps, Consuming, Waiting

(* A step that takes no token any further.                                 *)
Calm(old, new) ==
  /\ new.kind = "start" /\ new.pc \in Waiting =>
       old.kind = "start" /\ old.pc \in Waiting /\ new.run = old.run
  /\ new.pc \in {"store", "secure"} => old.pc \in {"store", "secure"} /\ new.run = old.run
  /\ new.pc = "apply" => old.pc = "apply" /\ new.run = old.run

Quiet == \A x \in Actors : Calm(task[x], task'[x])

(* A goroutine that ends gives back the mutex if it has it.                *)
LEMMA EndTyped ==
  ASSUME Tasks, Mutex, NEW x \in Actors, End(x),
         \/ stateMu' = stateMu /\ ~Holds(task[x])
         \/ Unlock /\ Holds(task[x])
  PROVE  Tasks' /\ Mutex' /\ Quiet
<1>1. Fits(x, NoTask) /\ ~Holds(NoTask) /\ task' = [task EXCEPT ![x] = NoTask]
  BY EndFits DEF End
<1>2. Tasks' /\ task'[x] = NoTask /\ \A y \in Actors : y # x => task'[y] = task[y]
  BY <1>1, TaskStep
<1>3. Mutex'
  BY <1>1, MutexStep DEF Unlock
<1>4. Quiet
  BY <1>2 DEF Quiet, Calm, NoTask, Waiting
<1> QED BY <1>2, <1>3, <1>4

(* A goroutine that goes on keeps its kind and its session.                *)
LEMMA GotoFields ==
  ASSUME NEW t \in Task, NEW pc \in Steps
  PROVE  LET next == [t EXCEPT !.pc = pc]
         IN  /\ next \in Task
             /\ next.pc = pc /\ next.kind = t.kind /\ next.run = t.run
             /\ next.deadline = t.deadline /\ next.gen = t.gen /\ next.cancelled = t.cancelled
BY DEF Task

(* So it fits at any step that its kind goes through.                      *)
LEMMA GotoTyped ==
  ASSUME Tasks, Mutex, NEW x \in Actors, NEW pc \in Steps, Goto(x, pc),
         NEW t, t = [task[x] EXCEPT !.pc = pc], Fits(x, t),
         \/ stateMu' = stateMu /\ (Holds(t) <=> Holds(task[x]))
         \/ Lock(x) /\ Holds(t)
         \/ Unlock /\ Holds(task[x]) /\ ~Holds(t)
  PROVE  Tasks' /\ Mutex' /\ (Calm(task[x], t) => Quiet)
<1>1. task' = [task EXCEPT ![x] = t]
  BY DEF Goto
<1>2. Tasks' /\ task'[x] = t /\ \A y \in Actors : y # x => task'[y] = task[y]
  BY <1>1, TaskStep
<1>3. Mutex'
  BY <1>1, MutexStep DEF Unlock, Lock
<1>4. Calm(task[x], t) => Quiet
  BY <1>2 DEF Quiet, Calm
<1> QED BY <1>2, <1>3, <1>4

(* The files of the last session go.                                       *)
LEMMA StartCleanTasks == ASSUME Typed, NEW p \in Procs, StartClean(p) PROVE Tasks' /\ Mutex' /\ Quiet
<1>0. p \in Actors /\ Fits(p, task[p]) /\ task[p] \in Task /\ Tasks /\ Mutex
  BY DEF Actors, Typed, Tasks, Fits
<1>1. \/ Goto(p, "job") /\ stateMu' = stateMu
      \/ End(p) /\ Unlock
  BY DEF StartClean, Unlock
<1>2. CASE Goto(p, "job") /\ stateMu' = stateMu
  <2> DEFINE t == [task[p] EXCEPT !.pc = "job"]
  <2>1. "job" \in Steps
    BY DEF Steps
  <2>2. /\ t \in Task
        /\ t.pc = "job" /\ t.kind = task[p].kind /\ t.run = task[p].run
    BY <1>0, <2>1, GotoFields
  <2> HIDE DEF t
  <2>3. Fits(p, t)
    BY <1>0, <1>2, <2>2, ActorAssumption DEF StartClean, At, Fits, Waiting, Consuming, Task, Kinds
  <2>4. (Holds(t) <=> Holds(task[p]))
    BY <1>0, <2>2 DEF StartClean, At, Fits, Holds, Waiting, Consuming, Task, Kinds
  <2>5. Calm(task[p], t)
    BY <1>0, <2>2 DEF StartClean, At, Fits, Calm, Waiting, Consuming, Task, Kinds
  <2> QED BY <1>0, <1>2, <2>1, <2>3, <2>4, <2>5, GotoTyped DEF t
<1>3. CASE End(p) /\ Unlock
  <2>1. Holds(task[p])
    BY <1>0 DEF StartClean, At, Fits, Holds, Waiting, Consuming, Task, Kinds
  <2> QED BY <1>0, <1>3, <2>1, EndTyped
<1> QED BY <1>1, <1>2, <1>3

(* The job is written.                                                     *)
LEMMA StartJobTasks == ASSUME Typed, NEW p \in Procs, StartJob(p) PROVE Tasks' /\ Mutex' /\ Quiet
<1>0. p \in Actors /\ Fits(p, task[p]) /\ task[p] \in Task /\ Tasks /\ Mutex
  BY DEF Actors, Typed, Tasks, Fits
<1>1. \/ Goto(p, "launch") /\ stateMu' = stateMu
      \/ End(p) /\ Unlock
  BY DEF StartJob, Unlock
<1>2. CASE Goto(p, "launch") /\ stateMu' = stateMu
  <2> DEFINE t == [task[p] EXCEPT !.pc = "launch"]
  <2>1. "launch" \in Steps
    BY DEF Steps
  <2>2. /\ t \in Task
        /\ t.pc = "launch" /\ t.kind = task[p].kind /\ t.run = task[p].run
    BY <1>0, <2>1, GotoFields
  <2> HIDE DEF t
  <2>3. Fits(p, t)
    BY <1>0, <1>2, <2>2, ActorAssumption DEF StartJob, At, Fits, Waiting, Consuming, Task, Kinds
  <2>4. (Holds(t) <=> Holds(task[p]))
    BY <1>0, <2>2 DEF StartJob, At, Fits, Holds, Waiting, Consuming, Task, Kinds
  <2>5. Calm(task[p], t)
    BY <1>0, <2>2 DEF StartJob, At, Fits, Calm, Waiting, Consuming, Task, Kinds
  <2> QED BY <1>0, <1>2, <2>1, <2>3, <2>4, <2>5, GotoTyped DEF t
<1>3. CASE End(p) /\ Unlock
  <2>1. Holds(task[p])
    BY <1>0 DEF StartJob, At, Fits, Holds, Waiting, Consuming, Task, Kinds
  <2> QED BY <1>0, <1>3, <2>1, EndTyped
<1> QED BY <1>1, <1>2, <1>3

(* The unit is started.                                                    *)
LEMMA StartLaunchTasks == ASSUME Typed, NEW p \in Procs, StartLaunch(p) PROVE Tasks' /\ Mutex' /\ Quiet
<1>0. p \in Actors /\ Fits(p, task[p]) /\ task[p] \in Task /\ Tasks /\ Mutex
  BY DEF Actors, Typed, Tasks, Fits
<1>1. \/ Goto(p, "ready") /\ stateMu' = stateMu
      \/ End(p) /\ Unlock
  BY DEF StartLaunch, Unlock
<1>2. CASE Goto(p, "ready") /\ stateMu' = stateMu
  <2> DEFINE t == [task[p] EXCEPT !.pc = "ready"]
  <2>1. "ready" \in Steps
    BY DEF Steps
  <2>2. /\ t \in Task
        /\ t.pc = "ready" /\ t.kind = task[p].kind /\ t.run = task[p].run
    BY <1>0, <2>1, GotoFields
  <2> HIDE DEF t
  <2>3. Fits(p, t)
    BY <1>0, <1>2, <2>2, ActorAssumption DEF StartLaunch, At, Fits, Waiting, Consuming, Task, Kinds
  <2>4. (Holds(t) <=> Holds(task[p]))
    BY <1>0, <2>2 DEF StartLaunch, At, Fits, Holds, Waiting, Consuming, Task, Kinds
  <2>5. Calm(task[p], t)
    BY <1>0, <2>2 DEF StartLaunch, At, Fits, Calm, Waiting, Consuming, Task, Kinds
  <2> QED BY <1>0, <1>2, <2>1, <2>3, <2>4, <2>5, GotoTyped DEF t
<1>3. CASE End(p) /\ Unlock
  <2>1. Holds(task[p])
    BY <1>0 DEF StartLaunch, At, Fits, Holds, Waiting, Consuming, Task, Kinds
  <2> QED BY <1>0, <1>3, <2>1, EndTyped
<1> QED BY <1>1, <1>2, <1>3

(* The unit is waited for.                                                 *)
LEMMA StartReadyTasks == ASSUME Typed, NEW p \in Procs, StartReady(p) PROVE Tasks' /\ Mutex' /\ Quiet
<1>0. p \in Actors /\ Fits(p, task[p]) /\ task[p] \in Task /\ Tasks /\ Mutex
  BY DEF Actors, Typed, Tasks, Fits
<1>1. \/ Goto(p, "save") /\ stateMu' = stateMu
      \/ End(p) /\ Unlock
  BY DEF StartReady, Unlock
<1>2. CASE Goto(p, "save") /\ stateMu' = stateMu
  <2> DEFINE t == [task[p] EXCEPT !.pc = "save"]
  <2>1. "save" \in Steps
    BY DEF Steps
  <2>2. /\ t \in Task
        /\ t.pc = "save" /\ t.kind = task[p].kind /\ t.run = task[p].run
    BY <1>0, <2>1, GotoFields
  <2> HIDE DEF t
  <2>3. Fits(p, t)
    BY <1>0, <1>2, <2>2, ActorAssumption DEF StartReady, At, Fits, Waiting, Consuming, Task, Kinds
  <2>4. (Holds(t) <=> Holds(task[p]))
    BY <1>0, <2>2 DEF StartReady, At, Fits, Holds, Waiting, Consuming, Task, Kinds
  <2>5. Calm(task[p], t)
    BY <1>0, <2>2 DEF StartReady, At, Fits, Calm, Waiting, Consuming, Task, Kinds
  <2> QED BY <1>0, <1>2, <2>1, <2>3, <2>4, <2>5, GotoTyped DEF t
<1>3. CASE End(p) /\ Unlock
  <2>1. Holds(task[p])
    BY <1>0 DEF StartReady, At, Fits, Holds, Waiting, Consuming, Task, Kinds
  <2> QED BY <1>0, <1>3, <2>1, EndTyped
<1> QED BY <1>1, <1>2, <1>3

(* The settings are written.                                               *)
LEMMA StartSaveTasks == ASSUME Typed, NEW p \in Procs, StartSave(p) PROVE Tasks' /\ Mutex' /\ Quiet
<1>0. p \in Actors /\ Fits(p, task[p]) /\ task[p] \in Task /\ Tasks /\ Mutex
  BY DEF Actors, Typed, Tasks, Fits
<1>1. Goto(p, "watch") /\ stateMu' = stateMu
  BY DEF StartSave
<1>2. CASE Goto(p, "watch") /\ stateMu' = stateMu
  <2> DEFINE t == [task[p] EXCEPT !.pc = "watch"]
  <2>1. "watch" \in Steps
    BY DEF Steps
  <2>2. /\ t \in Task
        /\ t.pc = "watch" /\ t.kind = task[p].kind /\ t.run = task[p].run
    BY <1>0, <2>1, GotoFields
  <2> HIDE DEF t
  <2>3. Fits(p, t)
    BY <1>0, <1>2, <2>2, ActorAssumption DEF StartSave, At, Fits, Waiting, Consuming, Task, Kinds
  <2>4. (Holds(t) <=> Holds(task[p]))
    BY <1>0, <2>2 DEF StartSave, At, Fits, Holds, Waiting, Consuming, Task, Kinds
  <2>5. Calm(task[p], t)
    BY <1>0, <2>2 DEF StartSave, At, Fits, Calm, Waiting, Consuming, Task, Kinds
  <2> QED BY <1>0, <1>2, <2>1, <2>3, <2>4, <2>5, GotoTyped DEF t
<1> QED BY <1>1, <1>2

(* The unit is stopped.                                                    *)
LEMMA KillTasks == ASSUME Typed, NEW p \in Procs, Kill(p) PROVE Tasks' /\ Mutex' /\ Quiet
<1>0. p \in Actors /\ Fits(p, task[p]) /\ task[p] \in Task /\ Tasks /\ Mutex
  BY DEF Actors, Typed, Tasks, Fits
<1>1. Goto(p, "clean") /\ stateMu' = stateMu
  BY DEF Kill
<1>2. CASE Goto(p, "clean") /\ stateMu' = stateMu
  <2> DEFINE t == [task[p] EXCEPT !.pc = "clean"]
  <2>1. "clean" \in Steps
    BY DEF Steps
  <2>2. /\ t \in Task
        /\ t.pc = "clean" /\ t.kind = task[p].kind /\ t.run = task[p].run
    BY <1>0, <2>1, GotoFields
  <2> HIDE DEF t
  <2>3. Fits(p, t)
    BY <1>0, <1>2, <2>2, ActorAssumption DEF Kill, At, Fits, Waiting, Consuming, Task, Kinds
  <2>4. (Holds(t) <=> Holds(task[p]))
    BY <1>0, <2>2 DEF Kill, At, Fits, Holds, Waiting, Consuming, Task, Kinds
  <2>5. Calm(task[p], t)
    BY <1>0, <2>2 DEF Kill, At, Fits, Calm, Waiting, Consuming, Task, Kinds
  <2> QED BY <1>0, <1>2, <2>1, <2>3, <2>4, <2>5, GotoTyped DEF t
<1> QED BY <1>1, <1>2

(* The settings are deleted.                                               *)
LEMMA ForgetTasks == ASSUME Typed, NEW p \in Procs, Forget(p) PROVE Tasks' /\ Mutex' /\ Quiet
<1>0. p \in Actors /\ Fits(p, task[p]) /\ task[p] \in Task /\ Tasks /\ Mutex
  BY DEF Actors, Typed, Tasks, Fits
<1>1. \/ Goto(p, "kill") /\ stateMu' = stateMu
      \/ End(p) /\ stateMu' = stateMu
  BY DEF Forget
<1>2. CASE Goto(p, "kill") /\ stateMu' = stateMu
  <2> DEFINE t == [task[p] EXCEPT !.pc = "kill"]
  <2>1. "kill" \in Steps
    BY DEF Steps
  <2>2. /\ t \in Task
        /\ t.pc = "kill" /\ t.kind = task[p].kind /\ t.run = task[p].run
    BY <1>0, <2>1, GotoFields
  <2> HIDE DEF t
  <2>3. Fits(p, t)
    BY <1>0, <1>2, <2>2, ActorAssumption DEF Forget, At, Fits, Waiting, Consuming, Task, Kinds
  <2>4. (Holds(t) <=> Holds(task[p]))
    BY <1>0, <2>2 DEF Forget, At, Fits, Holds, Waiting, Consuming, Task, Kinds
  <2>5. Calm(task[p], t)
    BY <1>0, <2>2 DEF Forget, At, Fits, Calm, Waiting, Consuming, Task, Kinds
  <2> QED BY <1>0, <1>2, <2>1, <2>3, <2>4, <2>5, GotoTyped DEF t
<1>3. CASE End(p) /\ stateMu' = stateMu
  <2>1. ~Holds(task[p])
    BY <1>0 DEF Forget, At, Fits, Holds, Waiting, Consuming, Task, Kinds
  <2> QED BY <1>0, <1>3, <2>1, EndTyped
<1> QED BY <1>1, <1>2, <1>3

(* The files are deleted.                                                  *)
LEMMA CleanTasks == ASSUME Typed, NEW p \in Procs, Clean(p) PROVE Tasks' /\ Mutex' /\ Quiet
<1>0. p \in Actors /\ Fits(p, task[p]) /\ task[p] \in Task /\ Tasks /\ Mutex
  BY DEF Actors, Typed, Tasks, Fits
<1>1. \/ Goto(p, "forget") /\ stateMu' = stateMu
      \/ End(p) /\ stateMu' = stateMu
  BY DEF Clean
<1>2. CASE Goto(p, "forget") /\ stateMu' = stateMu
  <2> DEFINE t == [task[p] EXCEPT !.pc = "forget"]
  <2>1. "forget" \in Steps
    BY DEF Steps
  <2>2. /\ t \in Task
        /\ t.pc = "forget" /\ t.kind = task[p].kind /\ t.run = task[p].run
    BY <1>0, <2>1, GotoFields
  <2> HIDE DEF t
  <2>3. Fits(p, t)
    BY <1>0, <1>2, <2>2, ActorAssumption DEF Clean, At, Fits, Waiting, Consuming, Task, Kinds
  <2>4. (Holds(t) <=> Holds(task[p]))
    BY <1>0, <2>2 DEF Clean, At, Fits, Holds, Waiting, Consuming, Task, Kinds
  <2>5. Calm(task[p], t)
    BY <1>0, <2>2 DEF Clean, At, Fits, Calm, Waiting, Consuming, Task, Kinds
  <2> QED BY <1>0, <1>2, <2>1, <2>3, <2>4, <2>5, GotoTyped DEF t
<1>3. CASE End(p) /\ stateMu' = stateMu
  <2>1. ~Holds(task[p])
    BY <1>0 DEF Clean, At, Fits, Holds, Waiting, Consuming, Task, Kinds
  <2> QED BY <1>0, <1>3, <2>1, EndTyped
<1> QED BY <1>1, <1>2, <1>3

(* The worker learns the deadline.                                         *)
LEMMA WriteControlTasks == ASSUME Typed, NEW p \in Procs, WriteControl(p) PROVE Tasks' /\ Mutex' /\ Quiet
<1>0. p \in Actors /\ Fits(p, task[p]) /\ task[p] \in Task /\ Tasks /\ Mutex
  BY DEF Actors, Typed, Tasks, Fits
<1>1. \/ Goto(p, "extended") /\ stateMu' = stateMu
      \/ End(p) /\ stateMu' = stateMu
  BY DEF WriteControl
<1>2. CASE Goto(p, "extended") /\ stateMu' = stateMu
  <2> DEFINE t == [task[p] EXCEPT !.pc = "extended"]
  <2>1. "extended" \in Steps
    BY DEF Steps
  <2>2. /\ t \in Task
        /\ t.pc = "extended" /\ t.kind = task[p].kind /\ t.run = task[p].run
    BY <1>0, <2>1, GotoFields
  <2> HIDE DEF t
  <2>3. Fits(p, t)
    BY <1>0, <1>2, <2>2, ActorAssumption DEF WriteControl, At, Fits, Waiting, Consuming, Task, Kinds
  <2>4. (Holds(t) <=> Holds(task[p]))
    BY <1>0, <2>2 DEF WriteControl, At, Fits, Holds, Waiting, Consuming, Task, Kinds
  <2>5. Calm(task[p], t)
    BY <1>0, <2>2 DEF WriteControl, At, Fits, Calm, Waiting, Consuming, Task, Kinds
  <2> QED BY <1>0, <1>2, <2>1, <2>3, <2>4, <2>5, GotoTyped DEF t
<1>3. CASE End(p) /\ stateMu' = stateMu
  <2>1. ~Holds(task[p])
    BY <1>0 DEF WriteControl, At, Fits, Holds, Waiting, Consuming, Task, Kinds
  <2> QED BY <1>0, <1>3, <2>1, EndTyped
<1> QED BY <1>1, <1>2, <1>3

(* The extension is remembered.                                            *)
LEMMA SetExtendedTasks == ASSUME Typed, NEW p \in Procs, SetExtended(p) PROVE Tasks' /\ Mutex' /\ Quiet
<1>0. p \in Actors /\ Fits(p, task[p]) /\ task[p] \in Task /\ Tasks /\ Mutex
  BY DEF Actors, Typed, Tasks, Fits
<1>1. End(p) /\ stateMu' = stateMu
  BY DEF SetExtended
<1>2. CASE End(p) /\ stateMu' = stateMu
  <2>1. ~Holds(task[p])
    BY <1>0 DEF SetExtended, At, Fits, Holds, Waiting, Consuming, Task, Kinds
  <2> QED BY <1>0, <1>2, <2>1, EndTyped
<1> QED BY <1>1, <1>2

(* The token is stored.                                                    *)
LEMMA StoreTokenTasks == ASSUME Typed, NEW x \in Actors, StoreToken(x) PROVE Tasks' /\ Mutex' /\ Quiet
<1>0. x \in Actors /\ Fits(x, task[x]) /\ task[x] \in Task /\ Tasks /\ Mutex
  BY DEF Actors, Typed, Tasks, Fits
<1>1. \/ Goto(x, "secure") /\ stateMu' = stateMu
      \/ Goto(x, "leave") /\ Unlock /\ x \in Runs
      \/ Goto(x, "look") /\ Unlock /\ x \in Runs
      \/ End(x) /\ Unlock
  BY DEF StoreToken, Unlock, Proceed
<1>2. CASE Goto(x, "secure") /\ stateMu' = stateMu
  <2> DEFINE t == [task[x] EXCEPT !.pc = "secure"]
  <2>1. "secure" \in Steps
    BY DEF Steps
  <2>2. /\ t \in Task
        /\ t.pc = "secure" /\ t.kind = task[x].kind /\ t.run = task[x].run
    BY <1>0, <2>1, GotoFields
  <2> HIDE DEF t
  <2>3. Fits(x, t)
    BY <1>0, <1>2, <2>2, ActorAssumption DEF StoreToken, At, Fits, Waiting, Consuming, Task, Kinds
  <2>4. (Holds(t) <=> Holds(task[x]))
    BY <1>0, <2>2 DEF StoreToken, At, Fits, Holds, Waiting, Consuming, Task, Kinds
  <2>5. Calm(task[x], t)
    BY <1>0, <2>2 DEF StoreToken, At, Fits, Calm, Waiting, Consuming, Task, Kinds
  <2> QED BY <1>0, <1>2, <2>1, <2>3, <2>4, <2>5, GotoTyped DEF t
<1>3. CASE Goto(x, "leave") /\ Unlock /\ x \in Runs
  <2> DEFINE t == [task[x] EXCEPT !.pc = "leave"]
  <2>1. "leave" \in Steps
    BY DEF Steps
  <2>2. /\ t \in Task
        /\ t.pc = "leave" /\ t.kind = task[x].kind /\ t.run = task[x].run
    BY <1>0, <2>1, GotoFields
  <2> HIDE DEF t
  <2>3. Fits(x, t)
    BY <1>0, <1>3, <2>2, ActorAssumption DEF StoreToken, At, Fits, Waiting, Consuming, Task, Kinds
  <2>4. Holds(task[x]) /\ ~Holds(t)
    BY <1>0, <2>2 DEF StoreToken, At, Fits, Holds, Waiting, Consuming, Task, Kinds
  <2>5. Calm(task[x], t)
    BY <1>0, <2>2 DEF StoreToken, At, Fits, Calm, Waiting, Consuming, Task, Kinds
  <2> QED BY <1>0, <1>3, <2>1, <2>3, <2>4, <2>5, GotoTyped DEF t
<1>4. CASE Goto(x, "look") /\ Unlock /\ x \in Runs
  <2> DEFINE t == [task[x] EXCEPT !.pc = "look"]
  <2>1. "look" \in Steps
    BY DEF Steps
  <2>2. /\ t \in Task
        /\ t.pc = "look" /\ t.kind = task[x].kind /\ t.run = task[x].run
    BY <1>0, <2>1, GotoFields
  <2> HIDE DEF t
  <2>3. Fits(x, t)
    BY <1>0, <1>4, <2>2, ActorAssumption DEF StoreToken, At, Fits, Waiting, Consuming, Task, Kinds
  <2>4. Holds(task[x]) /\ ~Holds(t)
    BY <1>0, <2>2 DEF StoreToken, At, Fits, Holds, Waiting, Consuming, Task, Kinds
  <2>5. Calm(task[x], t)
    BY <1>0, <2>2 DEF StoreToken, At, Fits, Calm, Waiting, Consuming, Task, Kinds
  <2> QED BY <1>0, <1>4, <2>1, <2>3, <2>4, <2>5, GotoTyped DEF t
<1>5. CASE End(x) /\ Unlock
  <2>1. Holds(task[x])
    BY <1>0 DEF StoreToken, At, Fits, Holds, Waiting, Consuming, Task, Kinds
  <2> QED BY <1>0, <1>5, <2>1, EndTyped
<1> QED BY <1>1, <1>2, <1>3, <1>4, <1>5

(* The token leaves the file.                                              *)
LEMMA SecureTasks == ASSUME Typed, NEW x \in Actors, Secure(x) PROVE Tasks' /\ Mutex'
<1>0. x \in Actors /\ Fits(x, task[x]) /\ task[x] \in Task /\ Tasks /\ Mutex
  BY DEF Actors, Typed, Tasks, Fits
<1>1. \/ Goto(x, "apply") /\ Unlock
      \/ Goto(x, "leave") /\ Unlock /\ x \in Runs
      \/ Goto(x, "look") /\ Unlock /\ x \in Runs
      \/ End(x) /\ Unlock
  BY DEF Secure, Unlock, Proceed
<1>2. CASE Goto(x, "apply") /\ Unlock
  <2> DEFINE t == [task[x] EXCEPT !.pc = "apply"]
  <2>1. "apply" \in Steps
    BY DEF Steps
  <2>2. /\ t \in Task
        /\ t.pc = "apply" /\ t.kind = task[x].kind /\ t.run = task[x].run
    BY <1>0, <2>1, GotoFields
  <2> HIDE DEF t
  <2>3. Fits(x, t)
    BY <1>0, <1>2, <2>2, ActorAssumption DEF Secure, At, Fits, Waiting, Consuming, Task, Kinds
  <2>4. Holds(task[x]) /\ ~Holds(t)
    BY <1>0, <2>2 DEF Secure, At, Fits, Holds, Waiting, Consuming, Task, Kinds
  <2> QED BY <1>0, <1>2, <2>1, <2>3, <2>4, GotoTyped DEF t
<1>3. CASE Goto(x, "leave") /\ Unlock /\ x \in Runs
  <2> DEFINE t == [task[x] EXCEPT !.pc = "leave"]
  <2>1. "leave" \in Steps
    BY DEF Steps
  <2>2. /\ t \in Task
        /\ t.pc = "leave" /\ t.kind = task[x].kind /\ t.run = task[x].run
    BY <1>0, <2>1, GotoFields
  <2> HIDE DEF t
  <2>3. Fits(x, t)
    BY <1>0, <1>3, <2>2, ActorAssumption DEF Secure, At, Fits, Waiting, Consuming, Task, Kinds
  <2>4. Holds(task[x]) /\ ~Holds(t)
    BY <1>0, <2>2 DEF Secure, At, Fits, Holds, Waiting, Consuming, Task, Kinds
  <2> QED BY <1>0, <1>3, <2>1, <2>3, <2>4, GotoTyped DEF t
<1>4. CASE Goto(x, "look") /\ Unlock /\ x \in Runs
  <2> DEFINE t == [task[x] EXCEPT !.pc = "look"]
  <2>1. "look" \in Steps
    BY DEF Steps
  <2>2. /\ t \in Task
        /\ t.pc = "look" /\ t.kind = task[x].kind /\ t.run = task[x].run
    BY <1>0, <2>1, GotoFields
  <2> HIDE DEF t
  <2>3. Fits(x, t)
    BY <1>0, <1>4, <2>2, ActorAssumption DEF Secure, At, Fits, Waiting, Consuming, Task, Kinds
  <2>4. Holds(task[x]) /\ ~Holds(t)
    BY <1>0, <2>2 DEF Secure, At, Fits, Holds, Waiting, Consuming, Task, Kinds
  <2> QED BY <1>0, <1>4, <2>1, <2>3, <2>4, GotoTyped DEF t
<1>5. CASE End(x) /\ Unlock
  <2>1. Holds(task[x])
    BY <1>0 DEF Secure, At, Fits, Holds, Waiting, Consuming, Task, Kinds
  <2> QED BY <1>0, <1>5, <2>1, EndTyped
<1> QED BY <1>1, <1>2, <1>3, <1>4, <1>5

(* The token is applied.                                                   *)
LEMMA ApplyTasks == ASSUME Typed, NEW x \in Actors, Apply(x) PROVE Tasks' /\ Mutex' /\ Quiet
<1>0. x \in Actors /\ Fits(x, task[x]) /\ task[x] \in Task /\ Tasks /\ Mutex
  BY DEF Actors, Typed, Tasks, Fits
<1>1. Goto(x, "report") /\ stateMu' = stateMu
  BY DEF Apply
<1>2. CASE Goto(x, "report") /\ stateMu' = stateMu
  <2> DEFINE t == [task[x] EXCEPT !.pc = "report"]
  <2>1. "report" \in Steps
    BY DEF Steps
  <2>2. /\ t \in Task
        /\ t.pc = "report" /\ t.kind = task[x].kind /\ t.run = task[x].run
    BY <1>0, <2>1, GotoFields
  <2> HIDE DEF t
  <2>3. Fits(x, t)
    BY <1>0, <1>2, <2>2, ActorAssumption DEF Apply, At, Fits, Waiting, Consuming, Task, Kinds
  <2>4. (Holds(t) <=> Holds(task[x]))
    BY <1>0, <2>2 DEF Apply, At, Fits, Holds, Waiting, Consuming, Task, Kinds
  <2>5. Calm(task[x], t)
    BY <1>0, <2>2 DEF Apply, At, Fits, Calm, Waiting, Consuming, Task, Kinds
  <2> QED BY <1>0, <1>2, <2>1, <2>3, <2>4, <2>5, GotoTyped DEF t
<1> QED BY <1>1, <1>2

(* The result is written.                                                  *)
LEMMA ReportTasks == ASSUME Typed, NEW x \in Actors, Report(x) PROVE Tasks' /\ Mutex' /\ Quiet
<1>0. x \in Actors /\ Fits(x, task[x]) /\ task[x] \in Task /\ Tasks /\ Mutex
  BY DEF Actors, Typed, Tasks, Fits
<1>1. \/ Goto(x, "leave") /\ stateMu' = stateMu /\ x \in Runs
      \/ Goto(x, "look") /\ stateMu' = stateMu /\ x \in Runs
      \/ Goto(x, "attach") /\ stateMu' = stateMu /\ x \notin Runs
      \/ End(x) /\ stateMu' = stateMu
  BY DEF Report, Proceed
<1>2. CASE Goto(x, "leave") /\ stateMu' = stateMu /\ x \in Runs
  <2> DEFINE t == [task[x] EXCEPT !.pc = "leave"]
  <2>1. "leave" \in Steps
    BY DEF Steps
  <2>2. /\ t \in Task
        /\ t.pc = "leave" /\ t.kind = task[x].kind /\ t.run = task[x].run
    BY <1>0, <2>1, GotoFields
  <2> HIDE DEF t
  <2>3. Fits(x, t)
    BY <1>0, <1>2, <2>2, ActorAssumption DEF Report, At, Fits, Waiting, Consuming, Task, Kinds
  <2>4. (Holds(t) <=> Holds(task[x]))
    BY <1>0, <2>2 DEF Report, At, Fits, Holds, Waiting, Consuming, Task, Kinds
  <2>5. Calm(task[x], t)
    BY <1>0, <2>2 DEF Report, At, Fits, Calm, Waiting, Consuming, Task, Kinds
  <2> QED BY <1>0, <1>2, <2>1, <2>3, <2>4, <2>5, GotoTyped DEF t
<1>3. CASE Goto(x, "look") /\ stateMu' = stateMu /\ x \in Runs
  <2> DEFINE t == [task[x] EXCEPT !.pc = "look"]
  <2>1. "look" \in Steps
    BY DEF Steps
  <2>2. /\ t \in Task
        /\ t.pc = "look" /\ t.kind = task[x].kind /\ t.run = task[x].run
    BY <1>0, <2>1, GotoFields
  <2> HIDE DEF t
  <2>3. Fits(x, t)
    BY <1>0, <1>3, <2>2, ActorAssumption DEF Report, At, Fits, Waiting, Consuming, Task, Kinds
  <2>4. (Holds(t) <=> Holds(task[x]))
    BY <1>0, <2>2 DEF Report, At, Fits, Holds, Waiting, Consuming, Task, Kinds
  <2>5. Calm(task[x], t)
    BY <1>0, <2>2 DEF Report, At, Fits, Calm, Waiting, Consuming, Task, Kinds
  <2> QED BY <1>0, <1>3, <2>1, <2>3, <2>4, <2>5, GotoTyped DEF t
<1>4. CASE End(x) /\ stateMu' = stateMu
  <2>1. ~Holds(task[x])
    BY <1>0 DEF Report, At, Fits, Holds, Waiting, Consuming, Task, Kinds
  <2> QED BY <1>0, <1>4, <2>1, EndTyped
<1>5. CASE Goto(x, "attach") /\ stateMu' = stateMu /\ x \notin Runs
  <2> DEFINE t == [task[x] EXCEPT !.pc = "attach"]
  <2>1. "attach" \in Steps
    BY DEF Steps
  <2>2. /\ t \in Task
        /\ t.pc = "attach" /\ t.kind = task[x].kind /\ t.run = task[x].run
    BY <1>0, <2>1, GotoFields
  <2> HIDE DEF t
  <2>3. Fits(x, t)
    BY <1>0, <1>5, <2>2, ActorAssumption DEF Report, At, Fits, Actors, Waiting, Consuming, Task, Kinds
  <2>4. (Holds(t) <=> Holds(task[x]))
    BY <1>0, <2>2 DEF Report, At, Fits, Holds, Waiting, Consuming, Task, Kinds
  <2>5. Calm(task[x], t)
    BY <1>0, <2>2 DEF Report, At, Fits, Calm, Waiting, Consuming, Task, Kinds
  <2> QED BY <1>0, <1>5, <2>1, <2>3, <2>4, <2>5, GotoTyped DEF t
<1> QED BY <1>1, <1>2, <1>3, <1>4, <1>5

(* The monitor looks.                                                      *)
LEMMA LookTasks == ASSUME Typed, NEW r \in Runs, Look(r) PROVE Tasks' /\ Mutex' /\ Quiet
<1>0. r \in Actors /\ Fits(r, task[r]) /\ task[r] \in Task /\ Tasks /\ Mutex
  BY DEF Actors, Typed, Tasks, Fits
<1>1. \/ Goto(r, "leave") /\ stateMu' = stateMu
      \/ Goto(r, "kill") /\ stateMu' = stateMu
  BY DEF Look
<1>2. CASE Goto(r, "leave") /\ stateMu' = stateMu
  <2> DEFINE t == [task[r] EXCEPT !.pc = "leave"]
  <2>1. "leave" \in Steps
    BY DEF Steps
  <2>2. /\ t \in Task
        /\ t.pc = "leave" /\ t.kind = task[r].kind /\ t.run = task[r].run
    BY <1>0, <2>1, GotoFields
  <2> HIDE DEF t
  <2>3. Fits(r, t)
    BY <1>0, <1>2, <2>2, ActorAssumption DEF Look, At, Fits, Waiting, Consuming, Task, Kinds
  <2>4. (Holds(t) <=> Holds(task[r]))
    BY <1>0, <2>2 DEF Look, At, Fits, Holds, Waiting, Consuming, Task, Kinds
  <2>5. Calm(task[r], t)
    BY <1>0, <2>2 DEF Look, At, Fits, Calm, Waiting, Consuming, Task, Kinds
  <2> QED BY <1>0, <1>2, <2>1, <2>3, <2>4, <2>5, GotoTyped DEF t
<1>3. CASE Goto(r, "kill") /\ stateMu' = stateMu
  <2> DEFINE t == [task[r] EXCEPT !.pc = "kill"]
  <2>1. "kill" \in Steps
    BY DEF Steps
  <2>2. /\ t \in Task
        /\ t.pc = "kill" /\ t.kind = task[r].kind /\ t.run = task[r].run
    BY <1>0, <2>1, GotoFields
  <2> HIDE DEF t
  <2>3. Fits(r, t)
    BY <1>0, <1>3, <2>2, ActorAssumption DEF Look, At, Fits, Waiting, Consuming, Task, Kinds
  <2>4. (Holds(t) <=> Holds(task[r]))
    BY <1>0, <2>2 DEF Look, At, Fits, Holds, Waiting, Consuming, Task, Kinds
  <2>5. Calm(task[r], t)
    BY <1>0, <2>2 DEF Look, At, Fits, Calm, Waiting, Consuming, Task, Kinds
  <2> QED BY <1>0, <1>3, <2>1, <2>3, <2>4, <2>5, GotoTyped DEF t
<1> QED BY <1>1, <1>2, <1>3

(* The monitor stops the unit.                                             *)
LEMMA MonitorKillTasks == ASSUME Typed, NEW r \in Runs, MonitorKill(r) PROVE Tasks' /\ Mutex' /\ Quiet
<1>0. r \in Actors /\ Fits(r, task[r]) /\ task[r] \in Task /\ Tasks /\ Mutex
  BY DEF Actors, Typed, Tasks, Fits
<1>1. Goto(r, "mark") /\ stateMu' = stateMu
  BY DEF MonitorKill
<1>2. CASE Goto(r, "mark") /\ stateMu' = stateMu
  <2> DEFINE t == [task[r] EXCEPT !.pc = "mark"]
  <2>1. "mark" \in Steps
    BY DEF Steps
  <2>2. /\ t \in Task
        /\ t.pc = "mark" /\ t.kind = task[r].kind /\ t.run = task[r].run
    BY <1>0, <2>1, GotoFields
  <2> HIDE DEF t
  <2>3. Fits(r, t)
    BY <1>0, <1>2, <2>2, ActorAssumption DEF MonitorKill, At, Fits, Waiting, Consuming, Task, Kinds
  <2>4. (Holds(t) <=> Holds(task[r]))
    BY <1>0, <2>2 DEF MonitorKill, At, Fits, Holds, Waiting, Consuming, Task, Kinds
  <2>5. Calm(task[r], t)
    BY <1>0, <2>2 DEF MonitorKill, At, Fits, Calm, Waiting, Consuming, Task, Kinds
  <2> QED BY <1>0, <1>2, <2>1, <2>3, <2>4, <2>5, GotoTyped DEF t
<1> QED BY <1>1, <1>2

(* The monitor reports the end.                                            *)
LEMMA MarkTasks == ASSUME Typed, NEW r \in Runs, Mark(r) PROVE Tasks' /\ Mutex' /\ Quiet
<1>0. r \in Actors /\ Fits(r, task[r]) /\ task[r] \in Task /\ Tasks /\ Mutex
  BY DEF Actors, Typed, Tasks, Fits
<1>1. Goto(r, "leave") /\ stateMu' = stateMu
  BY DEF Mark
<1>2. CASE Goto(r, "leave") /\ stateMu' = stateMu
  <2> DEFINE t == [task[r] EXCEPT !.pc = "leave"]
  <2>1. "leave" \in Steps
    BY DEF Steps
  <2>2. /\ t \in Task
        /\ t.pc = "leave" /\ t.kind = task[r].kind /\ t.run = task[r].run
    BY <1>0, <2>1, GotoFields
  <2> HIDE DEF t
  <2>3. Fits(r, t)
    BY <1>0, <1>2, <2>2, ActorAssumption DEF Mark, At, Fits, Waiting, Consuming, Task, Kinds
  <2>4. (Holds(t) <=> Holds(task[r]))
    BY <1>0, <2>2 DEF Mark, At, Fits, Holds, Waiting, Consuming, Task, Kinds
  <2>5. Calm(task[r], t)
    BY <1>0, <2>2 DEF Mark, At, Fits, Calm, Waiting, Consuming, Task, Kinds
  <2> QED BY <1>0, <1>2, <2>1, <2>3, <2>4, <2>5, GotoTyped DEF t
<1> QED BY <1>1, <1>2

(* The monitor leaves.                                                     *)
LEMMA LeaveTasks == ASSUME Typed, NEW r \in Runs, Leave(r) PROVE Tasks' /\ Mutex' /\ Quiet
<1>0. r \in Actors /\ Fits(r, task[r]) /\ task[r] \in Task /\ Tasks /\ Mutex
  BY DEF Actors, Typed, Tasks, Fits
<1>1. \/ Goto(r, "cleanup") /\ stateMu' = stateMu
      \/ End(r) /\ stateMu' = stateMu
  BY DEF Leave
<1>2. CASE Goto(r, "cleanup") /\ stateMu' = stateMu
  <2> DEFINE t == [task[r] EXCEPT !.pc = "cleanup"]
  <2>1. "cleanup" \in Steps
    BY DEF Steps
  <2>2. /\ t \in Task
        /\ t.pc = "cleanup" /\ t.kind = task[r].kind /\ t.run = task[r].run
    BY <1>0, <2>1, GotoFields
  <2> HIDE DEF t
  <2>3. Fits(r, t)
    BY <1>0, <1>2, <2>2, ActorAssumption DEF Leave, At, Fits, Waiting, Consuming, Task, Kinds
  <2>4. (Holds(t) <=> Holds(task[r]))
    BY <1>0, <2>2 DEF Leave, At, Fits, Holds, Waiting, Consuming, Task, Kinds
  <2>5. Calm(task[r], t)
    BY <1>0, <2>2 DEF Leave, At, Fits, Calm, Waiting, Consuming, Task, Kinds
  <2> QED BY <1>0, <1>2, <2>1, <2>3, <2>4, <2>5, GotoTyped DEF t
<1>3. CASE End(r) /\ stateMu' = stateMu
  <2>1. ~Holds(task[r])
    BY <1>0 DEF Leave, At, Fits, Holds, Waiting, Consuming, Task, Kinds
  <2> QED BY <1>0, <1>3, <2>1, EndTyped
<1> QED BY <1>1, <1>2, <1>3

(* The monitor deletes the files.                                          *)
LEMMA CleanupTasks == ASSUME Typed, NEW r \in Runs, Cleanup(r) PROVE Tasks' /\ Mutex' /\ Quiet
<1>0. r \in Actors /\ Fits(r, task[r]) /\ task[r] \in Task /\ Tasks /\ Mutex
  BY DEF Actors, Typed, Tasks, Fits
<1>1. End(r) /\ stateMu' = stateMu
  BY DEF Cleanup
<1>2. CASE End(r) /\ stateMu' = stateMu
  <2>1. ~Holds(task[r])
    BY <1>0 DEF Cleanup, At, Fits, Holds, Waiting, Consuming, Task, Kinds
  <2> QED BY <1>0, <1>2, <2>1, EndTyped
<1> QED BY <1>1, <1>2

(* The same of a step that changes more than the place.                    *)
LEMMA StepTyped ==
  ASSUME Tasks, Mutex, NEW x \in Actors, NEW t, Fits(x, t), task' = [task EXCEPT ![x] = t],
         \/ stateMu' = stateMu /\ (Holds(t) <=> Holds(task[x]))
         \/ Lock(x) /\ Holds(t)
  PROVE  Tasks' /\ Mutex' /\ (Calm(task[x], t) => Quiet)
         /\ task'[x] = t /\ \A y \in Actors : y # x => task'[y] = task[y]
<1>1. Tasks' /\ task'[x] = t /\ \A y \in Actors : y # x => task'[y] = task[y]
  BY TaskStep
<1>2. Mutex'
  BY MutexStep DEF Lock
<1>3. Calm(task[x], t) => Quiet
  BY <1>1 DEF Quiet, Calm
<1> QED BY <1>1, <1>2, <1>3

(* A poll goes on to a step that needs no mutex, perhaps with a session it *)
(* has read, or ends.                                                      *)
PollsOn(p, pc) == \E run \in Nat : task' = [task EXCEPT ![p].pc = pc, ![p].run = run]

LEMMA PollsOnTasks ==
  ASSUME Typed, NEW p \in Procs, task[p].kind = "poll", ~Holds(task[p]), stateMu' = stateMu,
         NEW pc \in {"check", "look", "attach"}, PollsOn(p, pc)
  PROVE  Tasks' /\ Mutex' /\ Quiet
<1>0. p \in Actors /\ Fits(p, task[p]) /\ task[p] \in Task /\ Tasks /\ Mutex
  BY DEF Actors, Typed, Tasks, Fits
<1>1. PICK run \in Nat : task' = [task EXCEPT ![p].pc = pc, ![p].run = run]
  BY DEF PollsOn
<1> DEFINE t == [task[p] EXCEPT !.pc = pc, !.run = run]
<1>2. task' = [task EXCEPT ![p] = t]
  BY <1>0, <1>1
<1>3. t \in Task /\ t.pc = pc /\ t.kind = "poll"
  BY <1>0 DEF Task, Steps
<1> HIDE DEF t
<1>4. Fits(p, t) /\ ~Holds(t) /\ Calm(task[p], t)
  BY <1>3, ActorAssumption DEF Fits, Holds, Calm, Consuming, Waiting
<1> QED BY <1>0, <1>2, <1>4, StepTyped

(* The steps of a poll around its look for a token.                        *)
LEMMA PollingSteps ==
  ASSUME Typed, NEW p \in Procs, Polling(p)
  PROVE  /\ task[p].kind = "poll" /\ task[p].pc \in {"peek", "check", "look", "attach"}
         /\ (\E pc \in {"check", "look", "attach"} : PollsOn(p, pc)) \/ End(p)
         /\ UNCHANGED <<files, settings, tokens, service, monitors, stateMu, latest, left, happened>>
<1>0. p \in Actors /\ Fits(p, task[p]) /\ task \in [Actors -> Task] /\ state.run \in Nat
  BY DEF Actors, Typed, Tasks, Files
<1>1. Succeeded \in Nat
  BY <1>0 DEF Succeeded
<1>2. CASE PollPeek(p)
  BY <1>0, <1>1, <1>2, ActorAssumption DEF PollPeek, PollsOn, At, Fits, Consuming, Waiting, Task, Kinds
<1>3. CASE PollCheck(p)
  <2>1. Goto(p, "attach") => task' = [task EXCEPT ![p].pc = "attach", ![p].run = task[p].run]
    BY <1>0 DEF Goto, Task
  <2>2. task[p].run \in Nat /\ 0 \in Nat
    BY <1>0 DEF Task
  <2>3. (\E pc \in {"check", "look", "attach"} : PollsOn(p, pc)) \/ End(p)
    BY <1>3, <2>1, <2>2 DEF PollCheck, PollsOn
  <2> QED BY <1>0, <1>3, <2>3, ActorAssumption DEF PollCheck, At, Fits, Consuming, Waiting, Task, Kinds
<1>4. CASE PollInVain(p)
  <2>1. (\E pc \in {"check", "look", "attach"} : PollsOn(p, pc)) \/ End(p)
    BY <1>1, <1>4 DEF PollInVain, PollsOn
  <2> QED BY <1>0, <1>4, <2>1, ActorAssumption DEF PollInVain, At, Fits, Consuming, Waiting, Task, Kinds
<1>5. CASE PollAttach(p)
  BY <1>0, <1>5, ActorAssumption DEF PollAttach, At, Fits, Consuming, Waiting, Task, Kinds
<1> QED BY <1>2, <1>3, <1>4, <1>5 DEF Polling

LEMMA PollingTasks == ASSUME Typed, NEW p \in Procs, Polling(p) PROVE Tasks' /\ Mutex' /\ Quiet
<1>1. p \in Actors /\ ~Holds(task[p]) /\ stateMu' = stateMu /\ Tasks /\ Mutex
  BY PollingSteps DEF Actors, Typed, Holds
<1> QED BY <1>1, PollingSteps, PollsOnTasks, EndTyped

(* A request begins at the first step of its kind.                         *)
LEMMA BeginTasks ==
  ASSUME Typed, NEW p \in Procs, NEW kind \in Kinds, Begin(p, kind)
  PROVE  /\ Tasks' /\ Mutex'
         /\ kind # "start" => Quiet
         /\ task'[p].kind = kind
         /\ kind = "start" => task'[p].run = MaxStarts - left.starts + 1 /\ task'[p].pc = "lock"
         /\ \A y \in Actors : y # p => task'[y] = task[y]
<1>0. p \in Actors /\ Fits(p, task[p]) /\ Tasks /\ Mutex
  BY DEF Actors, Typed, Tasks
<1> DEFINE number == IF kind = "start" THEN MaxStarts - left.starts + 1 ELSE 0
           t == [NoTask EXCEPT !.kind = kind, !.pc = FirstStep(kind), !.run = number]
<1>1. number \in Nat /\ (kind = "start" => number \in Runs)
  <2>1. left.starts \in Nat /\ left.starts <= MaxStarts
    BY DEF Typed, Counts, Limits
  <2>2. kind = "start" => left.starts > 0
    BY DEF Begin, Spend
  <2> QED BY <2>1, <2>2, BoundAssumption DEF Runs
<1>2. FirstStep(kind) \in Steps /\ FirstStep(kind) \in
        (CASE kind = "start" -> {"lock"} [] kind \in {"stop", "reset"} -> {"halt"}
           [] kind = "extend" -> {"read_expires"} [] kind = "poll" -> {"peek"})
  BY DEF FirstStep, Kinds, Steps
<1>3. task' = [task EXCEPT ![p] = t]
  BY DEF Begin
<1> HIDE DEF number
<1>4. /\ t \in Task
      /\ t.kind = kind /\ t.pc = FirstStep(kind) /\ t.run = number
  BY <1>1, <1>2 DEF NoTask, Task
<1> HIDE DEF t
<1>5. Fits(p, t)
  BY <1>1, <1>2, <1>4, ActorAssumption DEF Fits, Kinds, Waiting, Consuming
<1>6. ~Holds(t)
  BY <1>2, <1>4 DEF Holds, Kinds
<1>7. ~Holds(task[p])
  BY <1>0 DEF Begin, At, Holds, Fits, Waiting
<1>8. kind # "start" => Calm(task[p], t)
  BY <1>2, <1>4 DEF Calm, Kinds, Waiting
<1>9. stateMu' = stateMu
  BY DEF Begin
<1>10. kind = "start" => number = MaxStarts - left.starts + 1 /\ FirstStep(kind) = "lock"
  BY <1>2 DEF number
<1> QED BY <1>0, <1>3, <1>4, <1>5, <1>6, <1>7, <1>8, <1>9, <1>10, StepTyped

(* A request whose context is cancelled goes on.                           *)
LEMMA CancelTasks == ASSUME Typed, NEW p \in Procs, Cancel(p) PROVE Tasks' /\ Mutex' /\ Quiet
<1>0. p \in Actors /\ Fits(p, task[p]) /\ task[p] \in Task /\ Tasks /\ Mutex
  BY DEF Actors, Typed, Tasks, Fits
<1> DEFINE t == [task[p] EXCEPT !.cancelled = TRUE]
<1>1. task' = [task EXCEPT ![p] = t] /\ stateMu' = stateMu
  BY DEF Cancel, Cancelled
<1>2. t \in Task /\ t.pc = task[p].pc /\ t.kind = task[p].kind /\ t.run = task[p].run
  BY <1>0 DEF Task
<1> HIDE DEF t
<1>3. Fits(p, t) /\ (Holds(t) <=> Holds(task[p])) /\ Calm(task[p], t)
  BY <1>0, <1>2 DEF Fits, Holds, Calm
<1> QED BY <1>0, <1>1, <1>3, StepTyped

(* A start takes the mutex, or ends when a session runs.                   *)
LEMMA StartLockTasks ==
  ASSUME Typed, NEW p \in Procs, StartLock(p) PROVE Tasks' /\ Mutex' /\ Quiet
<1>0. p \in Actors /\ Fits(p, task[p]) /\ task[p] \in Task /\ Tasks /\ Mutex
  BY DEF Actors, Typed, Tasks, Fits
<1>1. ~Holds(task[p])
  BY <1>0, FreeMutex DEF StartLock
<1>2. CASE End(p) /\ UNCHANGED stateMu
  BY <1>0, <1>1, <1>2, EndTyped
<1>3. CASE Lock(p) /\ task' = [task EXCEPT ![p].pc = "halt", ![p].deadline = clock + Length]
  <2> DEFINE t == [task[p] EXCEPT !.pc = "halt", !.deadline = clock + Length]
  <2>1. task' = [task EXCEPT ![p] = t]
    BY <1>3 DEF Tasks
  <2>2. clock + Length \in Nat /\ "halt" \in Steps
    BY BoundAssumption DEF Typed, Counts, Steps
  <2>3. t \in Task /\ t.pc = "halt" /\ t.kind = task[p].kind /\ t.run = task[p].run
    BY <1>0, <2>2 DEF Task
  <2> HIDE DEF t
  <2>4. Fits(p, t) /\ Holds(t) /\ Calm(task[p], t)
    BY <1>0, <2>3 DEF StartLock, At, Fits, Holds, Calm, Waiting, Consuming, Task, Kinds
  <2> QED BY <1>0, <1>3, <2>1, <2>4, StepTyped
<1> QED BY <1>2, <1>3 DEF StartLock

(* An extension computes the new deadline, or ends.                        *)
LEMMA ReadExpiresTasks ==
  ASSUME Typed, NEW p \in Procs, ReadExpires(p) PROVE Tasks' /\ Mutex' /\ Quiet
<1>0. p \in Actors /\ Fits(p, task[p]) /\ task[p] \in Task /\ Tasks /\ Mutex
  BY DEF Actors, Typed, Tasks, Fits
<1>1. ~Holds(task[p]) /\ stateMu' = stateMu
  BY <1>0 DEF ReadExpires, At, Fits, Holds, Waiting, Consuming, Task, Kinds
<1>2. CASE End(p)
  BY <1>0, <1>1, <1>2, EndTyped
<1>3. CASE task' = [task EXCEPT ![p].pc = "control", ![p].deadline = expires + Length]
  <2> DEFINE t == [task[p] EXCEPT !.pc = "control", !.deadline = expires + Length]
  <2>1. task' = [task EXCEPT ![p] = t]
    BY <1>3 DEF Tasks
  <2>2. expires + Length \in Nat /\ "control" \in Steps
    BY BoundAssumption DEF Typed, Stored, Steps
  <2>3. t \in Task /\ t.pc = "control" /\ t.kind = task[p].kind /\ t.run = task[p].run
    BY <1>0, <2>2 DEF Task
  <2> HIDE DEF t
  <2>4. Fits(p, t) /\ ~Holds(t) /\ Calm(task[p], t)
    BY <1>0, <2>3 DEF ReadExpires, At, Fits, Holds, Calm, Waiting, Consuming, Task, Kinds
  <2> QED BY <1>0, <1>1, <2>1, <2>4, StepTyped
<1> QED BY <1>2, <1>3 DEF ReadExpires

(* Whoever finds a token takes the mutex.                                  *)
LEMMA TakeTasks ==
  ASSUME Typed, NEW x \in Actors, Take(x)
  PROVE  /\ Tasks' /\ Mutex'
         /\ task'[x].pc = "store" /\ task'[x].run = state.run
         /\ task'[x].kind # "start"
         /\ \A y \in Actors : y # x => task'[y] = task[y]
<1>0. Fits(x, task[x]) /\ task[x] \in Task /\ Tasks /\ Mutex
  BY DEF Typed, Tasks, Fits
<1> DEFINE t == [task[x] EXCEPT !.pc = "store", !.run = state.run]
<1>1. task' = [task EXCEPT ![x] = t]
  BY DEF Take, Typed, Tasks
<1>2. state.run \in Nat /\ state.run \in Runs /\ "store" \in Steps
  BY DEF Take, Typed, Files, Numbered, Steps
<1>3. t \in Task /\ t.pc = "store" /\ t.kind = task[x].kind /\ t.run = state.run
  BY <1>0, <1>2 DEF Task
<1> HIDE DEF t
<1>4. Fits(x, t) /\ Holds(t) /\ t.kind # "start"
  BY <1>0, <1>2, <1>3 DEF Take, At, Fits, Holds, Waiting, Consuming, Task, Kinds
<1> QED BY <1>0, <1>1, <1>3, <1>4, StepTyped DEF Take

(* A monitor that is told to stop keeps its place.                         *)
LEMMA StoppedMonitor ==
  ASSUME Tasks, current \in Runs \cup {0}, NEW told,
         told = IF current = 0 THEN task ELSE Cancelled(current)
  PROVE  /\ told \in [Actors -> Task]
         /\ \A y \in Actors : /\ Fits(y, told[y])
                              /\ told[y].kind = task[y].kind
                              /\ told[y].pc = task[y].pc
                              /\ told[y].run = task[y].run
<1>1. CASE current = 0
  BY <1>1 DEF Tasks
<1>2. CASE current # 0
  <2>1. current \in Actors
    BY <1>2 DEF Actors
  <2> DEFINE t == [task[current] EXCEPT !.cancelled = TRUE]
  <2>2. told = [task EXCEPT ![current] = t]
    BY <1>2 DEF Cancelled
  <2>3. task[current] \in Task /\ Fits(current, task[current]) /\ task \in [Actors -> Task]
    BY <2>1 DEF Tasks
  <2>4. t \in Task /\ t.pc = task[current].pc /\ t.kind = task[current].kind /\ t.run = task[current].run
    BY <2>3 DEF Task
  <2> HIDE DEF t
  <2>5. Fits(current, t)
    BY <2>3, <2>4 DEF Fits
  <2> QED BY <2>1, <2>2, <2>3, <2>4, <2>5 DEF Tasks
<1> QED BY <1>1, <1>2

(* The monitor is told, then the request goes on.                          *)
LEMMA HaltTasks == ASSUME Typed, NEW p \in Procs, Halt(p) PROVE Tasks' /\ Mutex' /\ Quiet
<1>0. p \in Actors /\ Tasks /\ Mutex /\ current \in Runs \cup {0}
  BY DEF Actors, Typed, Counts
<1>1. PICK told : told = IF current = 0 THEN task ELSE Cancelled(current)
  OBVIOUS
<1>2. PICK pc \in {"forget", "kill"} :
        /\ pc = (IF task[p].kind = "stop" THEN "forget" ELSE "kill")
        /\ task' = [told EXCEPT ![p].pc = pc]
  BY <1>1 DEF Halt, StopMonitor
<1>3. /\ told \in [Actors -> Task]
      /\ \A y \in Actors : /\ Fits(y, told[y])
                           /\ told[y].kind = task[y].kind
                           /\ told[y].pc = task[y].pc
                           /\ told[y].run = task[y].run
  BY <1>0, <1>1, StoppedMonitor
<1>4. PICK t : t = [told[p] EXCEPT !.pc = pc]
  OBVIOUS
<1>5. /\ t \in Task /\ t.pc = pc /\ t.kind = task[p].kind /\ t.run = task[p].run
  <2>1. told[p] \in Task /\ pc \in Steps
    BY <1>0, <1>3 DEF Steps
  <2> QED BY <1>0, <1>3, <1>4, <2>1, GotoFields
<1>6. task' = [told EXCEPT ![p] = t]
  BY <1>2, <1>3, <1>4
<1>7. Fits(p, task[p]) /\ task[p].pc = "halt"
  BY <1>0 DEF Tasks, Halt, At
<1>8. Fits(p, t) /\ (Holds(t) <=> Holds(task[p])) /\ Calm(task[p], t)
  BY <1>0, <1>2, <1>5, <1>7 DEF Fits, Holds, Calm, Waiting, Consuming, Task, Kinds
<1>9. task'[p] = t /\ \A y \in Actors : y # p => task'[y] = told[y]
  BY <1>0, <1>3, <1>6
<1>10. Tasks'
  BY <1>3, <1>5, <1>6, <1>8, <1>9 DEF Tasks
<1>11. Mutex'
  <2>1. \A y \in Actors : Holds(task'[y]) <=> Holds(task[y])
    BY <1>3, <1>8, <1>9 DEF Holds
  <2>2. stateMu' = stateMu
    BY DEF Halt
  <2> QED BY <2>1, <2>2 DEF Mutex, Typed
<1>12. Quiet
  BY <1>3, <1>8, <1>9 DEF Quiet, Calm
<1> QED BY <1>10, <1>11, <1>12

(* The new monitor starts and the request ends.                            *)
LEMMA StartWatchTasks ==
  ASSUME Typed, NEW p \in Procs, StartWatch(p) PROVE Tasks' /\ Mutex' /\ Quiet
<1>0. p \in Actors /\ Tasks /\ Mutex /\ current \in Runs \cup {0} /\ Fits(p, task[p])
  BY DEF Actors, Typed, Counts, Tasks
<1>1. PICK told : told = IF current = 0 THEN task ELSE Cancelled(current)
  OBVIOUS
<1>2. /\ told \in [Actors -> Task]
      /\ \A y \in Actors : /\ Fits(y, told[y])
                           /\ told[y].kind = task[y].kind
                           /\ told[y].pc = task[y].pc
                           /\ told[y].run = task[y].run
  BY <1>0, <1>1, StoppedMonitor
<1>3. PICK r \in Runs : r = task[p].run
  BY <1>0 DEF StartWatch, At, Fits, Waiting, Consuming, Task, Kinds
<1>4. r \in Actors /\ r # p /\ task[p].kind = "start"
  BY <1>0, ActorAssumption DEF StartWatch, At, Actors, Fits, Waiting, Consuming, Task, Kinds
<1>5. PICK t : t = [NoTask EXCEPT !.kind = "monitor", !.pc = "look", !.gen = generation']
  OBVIOUS
<1>6. task' = [told EXCEPT ![p] = NoTask, ![r] = t]
  BY <1>1, <1>3, <1>5 DEF StartWatch
<1>7. t \in Task /\ t.pc = "look" /\ t.kind = "monitor"
  <2>1. generation' \in Nat
    BY DEF StartWatch, Typed, Counts
  <2>2. "look" \in Steps
    BY DEF Steps
  <2> QED BY <1>5, <2>1, <2>2 DEF NoTask, Task
<1>8. Fits(r, t) /\ ~Holds(t)
  BY <1>7, <1>3, ActorAssumption DEF Fits, Holds, Consuming
<1>9. Fits(p, NoTask) /\ ~Holds(NoTask)
  BY <1>0, EndFits
<1>10. /\ task' \in [Actors -> Task]
       /\ task'[p] = NoTask /\ task'[r] = t
       /\ \A y \in Actors : y # p /\ y # r => task'[y] = told[y]
  BY <1>0, <1>2, <1>4, <1>6, <1>7, <1>9 DEF Fits
<1>11. Tasks'
  BY <1>2, <1>8, <1>9, <1>10 DEF Tasks
<1>12. Holds(task[p])
  BY <1>4 DEF StartWatch, At, Holds
<1>13. Mutex'
  <2>1. stateMu' = Nil /\ stateMu = p
    BY <1>0, <1>12 DEF StartWatch, Unlock, Mutex
  <2>2. \A y \in Actors : ~Holds(task'[y])
    <3> SUFFICES ASSUME NEW y \in Actors, y # p, y # r PROVE ~Holds(task'[y])
      BY <1>8, <1>9, <1>10
    <3>1. ~Holds(task[y])
      BY <1>0, <2>1 DEF Mutex
    <3> QED BY <1>2, <1>10, <3>1 DEF Holds
  <2> QED BY <2>1, <2>2, ActorAssumption DEF Mutex
<1>14. Quiet
  <2>1. Calm(task[p], NoTask)
    BY DEF Calm, NoTask, Waiting
  <2>2. Calm(task[r], t)
    BY <1>7 DEF Calm
  <2>3. \A y \in Actors : Calm(task[y], told[y])
    BY <1>2 DEF Calm
  <2> QED BY <1>10, <2>1, <2>2, <2>3 DEF Quiet
<1> QED BY <1>11, <1>13, <1>14

(* After a restart there is neither a request nor a monitor.               *)
LEMMA CrashTasks == ASSUME Typed, Crash PROVE Tasks' /\ Mutex' /\ Quiet
<1>1. \A x \in Actors : Fits(x, NoTask) /\ ~Holds(NoTask)
  BY EndFits
<1>2. task' = [x \in Actors |-> NoTask] /\ stateMu' = Nil
  BY DEF Crash
<1>3. \A x \in Actors : task'[x] = NoTask
  BY <1>2
<1>4. Tasks'
  BY <1>1, <1>2, <1>3 DEF Tasks, Fits
<1>5. Mutex'
  BY <1>1, <1>2, <1>3, ActorAssumption DEF Mutex
<1>6. Quiet
  BY <1>3 DEF Quiet, Calm, NoTask, Waiting
<1> QED BY <1>4, <1>5, <1>6

-----------------------------------------------------------------------------
(* The other variables.                                                    *)

Rest == Files /\ Stored /\ Unit /\ Counts /\ Known /\ Numbered

(* No session gets a number, no unit and no token comes to be.             *)
Still ==
  /\ applied' = applied /\ left'.starts = left.starts
  /\ service'.pc # "off" => service.pc # "off" /\ service'.run = service.run
  /\ state'.phase = "captured" => state.phase = "captured" /\ state'.run = state.run

(* A budget that is spent is still one.                                    *)
LEMMA SpendCounts ==
  ASSUME Counts, NEW what \in {"starts", "requests", "faults"}, Spend(what)
  PROVE  /\ left' \in [DOMAIN Limits -> Nat] /\ left'.starts <= MaxStarts
         /\ what # "starts" => left'.starts = left.starts
         /\ what = "starts" => left.starts > 0 /\ left'.starts = left.starts - 1
<1>1. DOMAIN Limits = {"starts", "requests", "faults"}
  BY DEF Limits
<1>2. left[what] \in Nat /\ left[what] > 0 /\ left' = [left EXCEPT ![what] = @ - 1]
  BY <1>1 DEF Counts, Spend
<1> QED BY <1>1, <1>2, BoundAssumption DEF Counts

(* What a fault and its absence leave.                                     *)
LEMMA FaultCounts ==
  ASSUME Counts, Known, NEW event \in Events, Disturbed(event) \/ Fault \/ NoFault
  PROVE  /\ left' \in [DOMAIN Limits -> Nat] /\ left'.starts <= MaxStarts
         /\ left'.starts = left.starts
         /\ Known'
<1>1. CASE Disturbed(event)
  BY <1>1, SpendCounts DEF Disturbed, Known
<1>2. CASE Fault
  BY <1>2, SpendCounts DEF Fault, Disturbed, Known, Events
<1>3. CASE NoFault
  BY <1>3 DEF NoFault, Counts, Known
<1> QED BY <1>1, <1>2, <1>3

(* The sets that events are added from.                                    *)
LEMMA EventTypes ==
  /\ Late \subseteq Events /\ Unwatched \subseteq Events /\ Overtaken \subseteq Events
  /\ \A p : Forgotten(p) \subseteq Events
BY DEF Late, Unwatched, Overtaken, Forgotten, Events

(* A request costs one of the budget.                                      *)
LEMMA BeginRest == ASSUME Typed, NEW p \in Procs, NEW kind \in Kinds, Begin(p, kind) PROVE Rest'
<1>1. left' \in [DOMAIN Limits -> Nat] /\ left'.starts <= MaxStarts
  BY SpendCounts DEF Begin, Typed, Counts, Kinds
<1>2. Files' /\ Stored' /\ Unit'
  BY DEF Begin, Typed, Files, files, Stored, settings, tokens, Unit
<1>3. Counts'
  BY <1>1 DEF Begin, Typed, Counts, monitors
<1>4. Known'
  BY EventTypes DEF Begin, Typed, Known, Events, Late
<1>5. Numbered'
  BY <1>1 DEF Begin, Typed, Numbered, tokens, files
<1> QED BY <1>2, <1>3, <1>4, <1>5 DEF Rest

(* A disconnect costs one of the budget.                                   *)
LEMMA CancelRest == ASSUME Typed, NEW p \in Procs, Cancel(p) PROVE Rest' /\ Still
<1>1. left' \in [DOMAIN Limits -> Nat] /\ left'.starts <= MaxStarts /\ left'.starts = left.starts
  BY SpendCounts DEF Cancel, Disturbed, Typed, Counts
<1>2. Files' /\ Stored' /\ Unit'
  BY DEF Cancel, Typed, Files, files, Stored, settings, tokens, Unit
<1>3. Counts'
  BY <1>1 DEF Cancel, Typed, Counts, monitors
<1>4. Known'
  BY EventTypes DEF Cancel, Typed, Known, Events, Disturbed, Late
<1>5. Numbered' /\ Still
  BY <1>1 DEF Cancel, Typed, Numbered, Still, tokens, files
<1> QED BY <1>2, <1>3, <1>4, <1>5 DEF Rest

(* The lock changes nothing else.                                          *)
LEMMA StartLockRest == ASSUME Typed, NEW p \in Procs, StartLock(p) PROVE Rest' /\ Still
<1>1. Files' /\ Stored' /\ Unit' /\ Counts' /\ Known'
  BY DEF StartLock, Typed, Files, files, Stored, settings, tokens, Unit, Counts, monitors, Known
<1>2. Numbered' /\ Still
  BY DEF StartLock, Typed, Numbered, Still, tokens, files
<1> QED BY <1>1, <1>2 DEF Rest

(* The monitor has a new generation.                                       *)
LEMMA HaltRest == ASSUME Typed, NEW p \in Procs, Halt(p) PROVE Rest' /\ Still
<1>1. Files' /\ Stored' /\ Unit'
  BY DEF Halt, Typed, Files, files, Stored, settings, tokens, Unit
<1>2. Counts'
  BY DEF Halt, StopMonitor, Typed, Counts
<1>3. Known'
  BY EventTypes DEF Halt, Typed, Known, Events, Late
<1>4. Numbered' /\ Still
  BY DEF Halt, Typed, Numbered, Still, tokens, files
<1> QED BY <1>1, <1>2, <1>3, <1>4 DEF Rest

(* The unit is off, or left alone.                                         *)
LEMMA KillRest == ASSUME Typed, NEW p \in Procs, Kill(p) PROVE Rest' /\ Still
<1>1. (Disturbed("unstopped") \/ NoFault) /\ (service' = service \/ service' = Off)
  BY DEF Kill, StaysOn
<1>2. Files' /\ Stored' /\ Counts' /\ Known' /\ left'.starts = left.starts
  BY <1>1, FaultCounts DEF Kill, Typed, Files, files, Stored, settings, tokens, Counts, monitors, Events
<1>3. Unit'
  BY <1>1 DEF Typed, Unit, Off
<1>4. Numbered' /\ Still
  BY <1>1, <1>2 DEF Kill, Typed, Numbered, Still, tokens, files, Off, Unit
<1> QED BY <1>2, <1>3, <1>4 DEF Rest

(* There are no files, perhaps a fault.                                    *)
LEMMA StartCleanRest == ASSUME Typed, NEW p \in Procs, StartClean(p) PROVE Rest' /\ Still
<1>1. left' \in [DOMAIN Limits -> Nat] /\ left'.starts <= MaxStarts /\ left'.starts = left.starts
  BY SpendCounts DEF StartClean, Fault, NoFault, Disturbed, Typed, Counts
<1>2. Stored' /\ Unit'
  BY DEF StartClean, Typed, Stored, settings, tokens, Unit
<1>3. Files'
  BY DEF StartClean, Typed, Files, Phases, NoFiles, NoState, Unit
<1>4. Counts'
  BY <1>1 DEF StartClean, Typed, Counts, monitors
<1>5. Known'
  BY EventTypes DEF StartClean, Typed, Known, Events, Fault, NoFault, Disturbed, Late
<1>6. Numbered' /\ Still
  BY <1>1 DEF StartClean, Typed, Numbered, Still, tokens, NoFiles, NoState, Files
<1> QED BY <1>2, <1>3, <1>4, <1>5, <1>6 DEF Rest

(* The job is written, or a part of it.                                    *)
LEMMA StartJobRest == ASSUME Typed, NEW p \in Procs, StartJob(p) PROVE Rest' /\ Still
<1>1. left' \in [DOMAIN Limits -> Nat] /\ left'.starts <= MaxStarts /\ left'.starts = left.starts
  BY SpendCounts DEF StartJob, Fault, NoFault, Disturbed, Typed, Counts
<1>2. Stored' /\ Unit'
  BY DEF StartJob, Typed, Stored, settings, tokens, Unit
<1>3. Files'
  BY DEF StartJob, Typed, Tasks, Fits, Task, Actors, Files, files, Phases, Unit
<1>4. Counts'
  BY <1>1 DEF StartJob, Typed, Tasks, Fits, Task, Actors, Counts, monitors
<1>5. Known'
  BY EventTypes DEF StartJob, Typed, Known, Events, Fault, NoFault, Disturbed, Late
<1>6. Numbered' /\ Still
  BY <1>1 DEF StartJob, Typed, Numbered, Still, tokens, Files, files
<1> QED BY <1>2, <1>3, <1>4, <1>5, <1>6 DEF Rest

(* The unit boots, or the files go.                                        *)
LEMMA StartLaunchRest == ASSUME Typed, NEW p \in Procs, StartLaunch(p) PROVE Rest'
<1>1. left' \in [DOMAIN Limits -> Nat] /\ left'.starts <= MaxStarts /\ left'.starts = left.starts
  BY SpendCounts DEF StartLaunch, Fault, NoFault, Disturbed, Typed, Counts
<1>2. Stored'
  BY DEF StartLaunch, Typed, Stored, settings, tokens
<1>3. Files'
  BY DEF StartLaunch, Typed, Files, files, Phases, NoFiles, NoState, Unit
<1>4. Unit'
  BY DEF StartLaunch, Typed, Tasks, Fits, Task, Actors, Unit
<1>5. Counts'
  BY <1>1 DEF StartLaunch, Typed, Counts, monitors
<1>6. Known'
  BY EventTypes DEF StartLaunch, Typed, Known, Events, Fault, NoFault, Disturbed, Late
<1>7. Numbered'
  BY <1>1 DEF StartLaunch, Typed, Numbered, tokens, NoFiles, NoState, Files, Unit, At, Tasks, Fits, Actors, Waiting, Consuming, Task, Kinds, files
<1> QED BY <1>2, <1>3, <1>4, <1>5, <1>6, <1>7 DEF Rest

(* The files stay or go.                                                   *)
LEMMA StartReadyRest == ASSUME Typed, NEW p \in Procs, StartReady(p) PROVE Rest' /\ Still
<1>1. left' \in [DOMAIN Limits -> Nat] /\ left'.starts <= MaxStarts /\ left'.starts = left.starts
  BY SpendCounts DEF StartReady, NoFault, Typed, Counts
<1>2. Stored' /\ Unit'
  BY DEF StartReady, Typed, Stored, settings, tokens, Unit
<1>3. Files'
  BY DEF StartReady, Typed, Files, files, Phases, NoFiles, NoState, Unit
<1>4. Counts'
  BY <1>1 DEF StartReady, Typed, Counts, monitors
<1>5. Known'
  BY EventTypes DEF StartReady, Typed, Known, Events, NoFault, Late
<1>6. Numbered' /\ Still
  BY <1>1 DEF StartReady, Typed, Numbered, Still, tokens, NoFiles, NoState, Files, files
<1> QED BY <1>2, <1>3, <1>4, <1>5, <1>6 DEF Rest

(* The settings are those of the session, or some of them.                 *)
LEMMA StartSaveRest == ASSUME Typed, NEW p \in Procs, StartSave(p) PROVE Rest' /\ Still
<1>1. left' \in [DOMAIN Limits -> Nat] /\ left'.starts <= MaxStarts /\ left'.starts = left.starts
  BY SpendCounts DEF StartSave, Fault, NoFault, Disturbed, Typed, Counts
<1>2. Files' /\ Unit'
  BY DEF StartSave, Typed, Files, files, Unit
<1>3. Stored'
  BY DEF StartSave, Typed, Tasks, Fits, Task, Actors, Stored, settings, tokens
<1>4. Counts'
  BY <1>1 DEF StartSave, Typed, Counts, monitors
<1>5. Known'
  BY EventTypes DEF StartSave, Typed, Known, Events, Fault, NoFault, Disturbed, Late
<1>6. Numbered' /\ Still
  BY <1>1 DEF StartSave, Typed, Numbered, Still, tokens, files
<1> QED BY <1>2, <1>3, <1>4, <1>5, <1>6 DEF Rest

(* The new monitor is the current one.                                     *)
LEMMA StartWatchRest == ASSUME Typed, NEW p \in Procs, StartWatch(p) PROVE Rest' /\ Still
<1>1. Files' /\ Stored' /\ Unit' /\ Known'
  BY DEF StartWatch, Typed, Files, files, Stored, settings, tokens, Unit, Known
<1>2. Counts'
  BY DEF StartWatch, At, Typed, Tasks, Fits, Waiting, Consuming, Task, Kinds, Counts, Actors
<1>3. Numbered' /\ Still
  BY DEF StartWatch, Typed, Numbered, Still, tokens, files
<1> QED BY <1>1, <1>2, <1>3 DEF Rest

(* The settings are empty, or some of them.                                *)
LEMMA ForgetRest == ASSUME Typed, NEW p \in Procs, Forget(p) PROVE Rest' /\ Still
<1>1. left' \in [DOMAIN Limits -> Nat] /\ left'.starts <= MaxStarts /\ left'.starts = left.starts
  BY SpendCounts DEF Forget, NoFault, Typed, Counts
<1>2. Files' /\ Unit'
  BY DEF Forget, Typed, Files, files, Unit
<1>3. Stored'
  <2>1. expires' \in {expires, 0} /\ extended' \in {extended, FALSE} /\ UNCHANGED tokens
    BY DEF Forget, settings
  <2>2. extended' \in BOOLEAN
    BY <2>1, Zenon DEF Typed, Stored
  <2>3. expires' \in Nat /\ wbToken' = wbToken /\ applied' = applied
    BY <2>1 DEF Typed, Stored, tokens
  <2> QED BY <2>2, <2>3 DEF Typed, Stored
<1>4. Counts'
  BY <1>1 DEF Forget, Typed, Counts, monitors
<1>5. Known'
  BY EventTypes DEF Forget, Typed, Known, Events, NoFault, Late
<1>6. Numbered' /\ Still
  BY <1>1 DEF Forget, Typed, Numbered, Still, tokens, files
<1> QED BY <1>2, <1>3, <1>4, <1>5, <1>6 DEF Rest

(* There are no files.                                                     *)
LEMMA CleanRest == ASSUME Typed, NEW p \in Procs, Clean(p) PROVE Rest' /\ Still
<1>1. Stored' /\ Unit' /\ Counts' /\ Known'
  BY DEF Clean, Typed, Stored, settings, tokens, Unit, Counts, monitors, Known
<1>2. Files'
  BY DEF Clean, Typed, Files, Phases, NoFiles, NoState, Unit
<1>3. Numbered' /\ Still
  BY DEF Clean, Typed, Numbered, Still, tokens, NoFiles, NoState, Files
<1> QED BY <1>1, <1>2, <1>3 DEF Rest

(* Reading changes nothing else.                                           *)
LEMMA ReadExpiresRest == ASSUME Typed, NEW p \in Procs, ReadExpires(p) PROVE Rest' /\ Still
<1>1. Files' /\ Stored' /\ Unit' /\ Counts' /\ Known'
  BY DEF ReadExpires, Typed, Files, files, Stored, settings, tokens, Unit, Counts, monitors, Known
<1>2. Numbered' /\ Still
  BY DEF ReadExpires, Typed, Numbered, Still, tokens, files
<1> QED BY <1>1, <1>2 DEF Rest

(* The deadline is written, perhaps a fault.                               *)
LEMMA WriteControlRest == ASSUME Typed, NEW p \in Procs, WriteControl(p) PROVE Rest' /\ Still
<1>1. left' \in [DOMAIN Limits -> Nat] /\ left'.starts <= MaxStarts /\ left'.starts = left.starts
  BY SpendCounts DEF WriteControl, Fault, NoFault, Disturbed, Typed, Counts
<1>2. Stored' /\ Unit'
  BY DEF WriteControl, Typed, Stored, settings, tokens, Unit
<1>3. Files'
  BY DEF WriteControl, Typed, Tasks, Fits, Task, Actors, Files, Phases, Unit
<1>4. Counts'
  BY <1>1 DEF WriteControl, Typed, Counts, monitors
<1>5. Known'
  BY EventTypes DEF WriteControl, Typed, Known, Events, Fault, NoFault, Disturbed, Late
<1>6. Numbered' /\ Still
  BY <1>1 DEF WriteControl, Typed, Numbered, Still, tokens, Files
<1> QED BY <1>2, <1>3, <1>4, <1>5, <1>6 DEF Rest

(* The settings are extended, or one of them.                              *)
LEMMA SetExtendedRest == ASSUME Typed, NEW p \in Procs, SetExtended(p) PROVE Rest' /\ Still
<1>1. left' \in [DOMAIN Limits -> Nat] /\ left'.starts <= MaxStarts /\ left'.starts = left.starts
  BY SpendCounts DEF SetExtended, Fault, NoFault, Disturbed, Typed, Counts
<1>2. Files' /\ Unit'
  BY DEF SetExtended, Typed, Files, files, Unit
<1>3. Stored'
  BY DEF SetExtended, Typed, Tasks, Fits, Task, Actors, Stored, settings, tokens
<1>4. Counts'
  BY <1>1 DEF SetExtended, Typed, Counts, monitors
<1>5. Known'
  BY EventTypes DEF SetExtended, Typed, Known, Events, Fault, NoFault, Disturbed, Late
<1>6. Numbered' /\ Still
  BY <1>1 DEF SetExtended, Typed, Numbered, Still, tokens, files
<1> QED BY <1>2, <1>3, <1>4, <1>5, <1>6 DEF Rest

(* The poll changes nothing but what it has answered.                      *)
LEMMA PollingRest == ASSUME Typed, NEW p \in Procs, Polling(p) PROVE Rest' /\ Still
<1>1. Files' /\ Stored' /\ Unit' /\ Known' /\ Numbered' /\ Still
  BY PollingSteps DEF Typed, Files, files, Stored, settings, tokens, Unit, Known, Numbered, Still
<1>2. shown' \in [run: Nat, token: Nat, last: Nat]
  <2>1. CASE PollAttach(p)
    <3>1. task[p].run \in Nat /\ wbToken \in Nat /\ latest \in Nat
      BY DEF Typed, Tasks, Task, Actors, Stored, Counts
    <3> QED BY <2>1, <3>1 DEF PollAttach
  <2>2. CASE ~PollAttach(p)
    BY <2>2 DEF Polling, PollPeek, PollCheck, PollInVain, Typed, Counts
  <2> QED BY <2>1, <2>2
<1>3. clock' = clock
  BY DEF Polling, PollPeek, PollCheck, PollInVain, PollAttach
<1>4. Counts'
  BY <1>2, <1>3, PollingSteps DEF Typed, Counts, monitors
<1> QED BY <1>1, <1>4 DEF Rest

(* Taking changes nothing else.                                            *)
LEMMA TakeRest == ASSUME Typed, NEW x \in Actors, Take(x) PROVE Rest' /\ Still
<1>1. Files' /\ Stored' /\ Unit' /\ Counts' /\ Known'
  BY DEF Take, Typed, Files, files, Stored, settings, tokens, Unit, Counts, monitors, Known
<1>2. Numbered' /\ Still
  BY DEF Take, Typed, Numbered, Still, tokens, files
<1> QED BY <1>1, <1>2 DEF Rest

(* The token is stored, or the state says error.                           *)
LEMMA StoreTokenRest == ASSUME Typed, NEW x \in Actors, StoreToken(x) PROVE Rest' /\ Still
<1>1. left' \in [DOMAIN Limits -> Nat] /\ left'.starts <= MaxStarts /\ left'.starts = left.starts
  BY SpendCounts DEF StoreToken, Fault, NoFault, Disturbed, Typed, Counts
<1>2. Unit'
  BY DEF StoreToken, Typed, Unit
<1>3. Files'
  BY DEF StoreToken, Typed, Files, Phases, Unit
<1>4. Stored'
  BY DEF StoreToken, Typed, Tasks, Fits, Task, Actors, Stored, settings
<1>5. Counts'
  BY <1>1 DEF StoreToken, Typed, Counts, monitors
<1>6. Known'
  BY EventTypes DEF StoreToken, Typed, Known, Events, Fault, NoFault, Disturbed, Late
<1>7. Numbered' /\ Still
  BY <1>1 DEF StoreToken, Typed, Numbered, Still, Files
<1> QED BY <1>2, <1>3, <1>4, <1>5, <1>6, <1>7 DEF Rest

(* The state says applying, perhaps a fault.                               *)
LEMMA SecureRest == ASSUME Typed, NEW x \in Actors, Secure(x) PROVE Rest' /\ Still
<1>1. left' \in [DOMAIN Limits -> Nat] /\ left'.starts <= MaxStarts /\ left'.starts = left.starts
  BY SpendCounts DEF Secure, Fault, Disturbed, Typed, Counts
<1>2. Stored' /\ Unit'
  BY DEF Secure, Typed, Stored, settings, tokens, Unit
<1>3. Files'
  <2>1. task[x].run \in Nat
    BY DEF Typed, Tasks, Fits, Task
  <2>2. UNCHANGED <<job, control>>
        /\ (state' = state \/ state' = [phase |-> "applying", run |-> task[x].run])
    BY DEF Secure
  <2> QED BY <2>1, <2>2 DEF Typed, Files, Phases
<1>4. Counts'
  BY <1>1 DEF Secure, Typed, Counts, monitors
<1>5. Known'
  BY EventTypes DEF Secure, Typed, Known, Events, Fault, Disturbed, Late
<1>6. Numbered' /\ Still
  <2>1. UNCHANGED <<applied, service>>
        /\ (state' = state \/ state' = [phase |-> "applying", run |-> task[x].run])
    BY DEF Secure, tokens
  <2> QED BY <1>1, <2>1 DEF Typed, Numbered, Still
<1> QED BY <1>2, <1>3, <1>4, <1>5, <1>6 DEF Rest

(* The token is applied once more.                                         *)
LEMMA ApplyRest == ASSUME Typed, NEW x \in Actors, Apply(x) PROVE Rest'
<1>1. Files' /\ Unit' /\ Counts' /\ Known'
  BY DEF Apply, Typed, Files, files, Unit, Counts, monitors, Known
<1>2. Stored'
  <2>1. task[x].run \in Runs
    BY DEF Apply, At, Typed, Tasks, Fits, Consuming
  <2>2. UNCHANGED <<expires, extended, wbToken>>
        /\ applied' = [applied EXCEPT ![task[x].run] = @ + 1]
    BY DEF Apply, settings
  <2> QED BY <2>1, <2>2 DEF Typed, Stored
<1>3. Numbered'
  BY DEF Apply, Typed, Numbered, files
<1> QED BY <1>1, <1>2, <1>3 DEF Rest

(* The state says success, or is left.                                     *)
LEMMA ReportRest == ASSUME Typed, NEW x \in Actors, Report(x) PROVE Rest' /\ Still
<1>1. left' \in [DOMAIN Limits -> Nat] /\ left'.starts <= MaxStarts /\ left'.starts = left.starts
  BY SpendCounts DEF Report, Fault, NoFault, Disturbed, Typed, Counts
<1>2. Stored' /\ Unit'
  BY DEF Report, Typed, Stored, settings, tokens, Unit
<1>3. Files'
  BY DEF Report, Typed, Tasks, Fits, Task, Actors, Files, Phases, Unit
<1>4. Counts'
  BY <1>1 DEF Report, Typed, Counts, monitors
<1>5. Known'
  BY EventTypes DEF Report, Typed, Known, Events, Fault, NoFault, Disturbed, Late
<1>6. Numbered' /\ Still
  BY <1>1 DEF Report, Typed, Numbered, Still, tokens, Files
<1> QED BY <1>2, <1>3, <1>4, <1>5, <1>6 DEF Rest

(* Looking changes nothing else.                                           *)
LEMMA LookRest == ASSUME Typed, NEW r \in Runs, Look(r) PROVE Rest' /\ Still
<1>1. Files' /\ Stored' /\ Unit' /\ Counts' /\ Known'
  BY DEF Look, Typed, Files, files, Stored, settings, tokens, Unit, Counts, monitors, Known
<1>2. Numbered' /\ Still
  BY DEF Look, Typed, Numbered, Still, tokens, files
<1> QED BY <1>1, <1>2 DEF Rest

(* The unit is off.                                                        *)
LEMMA MonitorKillRest == ASSUME Typed, NEW r \in Runs, MonitorKill(r) PROVE Rest' /\ Still
<1>1. (Disturbed("unstopped") \/ NoFault) /\ (service' = service \/ service' = Off)
  BY DEF MonitorKill, StaysOn
<1>2. Files' /\ Stored' /\ Counts' /\ Known' /\ left'.starts = left.starts
  BY <1>1, FaultCounts DEF MonitorKill, Typed, Files, files, Stored, settings, tokens, Counts, monitors, Events
<1>3. Unit'
  BY <1>1 DEF Typed, Unit, Off
<1>4. Numbered' /\ Still
  BY <1>1, <1>2 DEF MonitorKill, Typed, Numbered, Still, tokens, files, Off, Unit
<1> QED BY <1>2, <1>3, <1>4 DEF Rest

(* The state says error, or what it said.                                  *)
LEMMA MarkRest == ASSUME Typed, NEW r \in Runs, Mark(r) PROVE Rest' /\ Still
<1>0. /\ Disturbed("unmarked") \/ NoFault
      /\ state' = state \/ state' = [state EXCEPT !.phase = "error"]
  BY DEF Mark
<1>1. Stored' /\ Unit' /\ Counts' /\ Known' /\ left'.starts = left.starts
  BY <1>0, FaultCounts DEF Mark, Typed, Stored, settings, tokens, Unit, Counts, monitors, Events
<1>2. Files'
  BY <1>0 DEF Mark, Typed, Files, Phases, Unit
<1>3. Numbered' /\ Still
  BY <1>0, <1>1 DEF Mark, Typed, Numbered, Still, tokens, Files
<1> QED BY <1>1, <1>2, <1>3 DEF Rest

(* There is no current monitor, or another one.                            *)
LEMMA LeaveRest == ASSUME Typed, NEW r \in Runs, Leave(r) PROVE Rest' /\ Still
<1>1. Files' /\ Stored' /\ Unit' /\ Known'
  BY DEF Leave, Typed, Files, files, Stored, settings, tokens, Unit, Known
<1>2. Counts'
  BY DEF Leave, Typed, Counts
<1>3. Numbered' /\ Still
  BY DEF Leave, Typed, Numbered, Still, tokens, files
<1> QED BY <1>1, <1>2, <1>3 DEF Rest

(* There is no job.                                                        *)
LEMMA CleanupRest == ASSUME Typed, NEW r \in Runs, Cleanup(r) PROVE Rest' /\ Still
<1>1. Stored' /\ Unit' /\ Counts' /\ Known'
  BY DEF Cleanup, Typed, Stored, settings, tokens, Unit, Counts, monitors, Known
<1>2. Files'
  BY DEF Cleanup, Typed, Files, Phases, Unit
<1>3. Numbered' /\ Still
  BY DEF Cleanup, Typed, Numbered, Still, tokens, Files
<1> QED BY <1>1, <1>2, <1>3 DEF Rest

(* The worker is busy, or has failed.                                      *)
LEMMA WorkerBootsRest == ASSUME Typed, WorkerBoots PROVE Rest' /\ Still
<1>1. Stored' /\ Counts' /\ Known'
  BY DEF WorkerBoots, Typed, Stored, settings, tokens, Counts, monitors, Known
<1>2. Files'
  BY DEF WorkerBoots, Typed, Files, Phases, Writes, Unit
<1>3. Unit'
  <2>1. service' = Off \/ service' = [service EXCEPT !.pc = "login", !.deadline = job]
    BY DEF WorkerBoots
  <2>2. Off \in [pc: {"off", "boot", "login", "working"}, run: Nat, deadline: Nat]
    BY DEF Off
  <2>3. [service EXCEPT !.pc = "login", !.deadline = job]
          \in [pc: {"off", "boot", "login", "working"}, run: Nat, deadline: Nat]
    BY DEF Typed, Files, Unit
  <2> QED BY <2>1, <2>2, <2>3 DEF Unit
<1>4. Numbered' /\ Still
  <2>1. /\ service.pc # "off" /\ UNCHANGED <<applied, left>>
        /\ service'.pc # "off" => service'.run = service.run
        /\ state' = state \/ state'.phase = "busy"
    <3>1. UNCHANGED <<applied, left>> /\ service.pc # "off"
      BY DEF WorkerBoots, tokens
    <3>2. CASE service' = Off /\ UNCHANGED state
      BY <3>1, <3>2 DEF Off
    <3>3. CASE service' = [service EXCEPT !.pc = "login", !.deadline = job] /\ Writes("busy")
      BY <3>1, <3>3 DEF Writes, Typed, Unit
    <3> QED BY <3>2, <3>3 DEF WorkerBoots
  <2> QED BY <2>1 DEF Typed, Numbered, Still
<1> QED BY <1>1, <1>2, <1>3, <1>4 DEF Rest

(* The worker has failed.                                                  *)
LEMMA LoginExpiresRest == ASSUME Typed, LoginExpires PROVE Rest' /\ Still
<1>1. Stored' /\ Counts' /\ Known'
  BY DEF LoginExpires, Typed, Stored, settings, tokens, Counts, monitors, Known
<1>2. Files'
  BY DEF LoginExpires, Typed, Files, Phases, Writes, Unit
<1>3. Unit'
  BY DEF LoginExpires, Typed, Unit, Off
<1>4. Numbered' /\ Still
  BY DEF LoginExpires, Typed, Numbered, Still, tokens, Writes, Files, Off, Unit
<1> QED BY <1>1, <1>2, <1>3, <1>4 DEF Rest

(* The worker is busy.                                                     *)
LEMMA LogInRest == ASSUME Typed, LogIn PROVE Rest' /\ Still
<1>1. Stored' /\ Counts' /\ Known'
  BY DEF LogIn, Typed, Stored, settings, tokens, Counts, monitors, Known
<1>2. Files'
  BY DEF LogIn, Typed, Files, Phases, Writes, Unit
<1>3. Unit'
  BY DEF LogIn, Typed, Unit
<1>4. Numbered' /\ Still
  BY DEF LogIn, Typed, Numbered, Still, tokens, Writes, Files, Unit
<1> QED BY <1>1, <1>2, <1>3, <1>4 DEF Rest

(* The token is in the file, or an error.                                  *)
LEMMA WorkerEndsRest == ASSUME Typed, WorkerEnds PROVE Rest'
<1>1. Stored' /\ Counts' /\ Known'
  BY DEF WorkerEnds, Typed, Stored, settings, tokens, Counts, monitors, Known
<1>2. Files'
  BY DEF WorkerEnds, Typed, Files, Phases, Writes, Unit
<1>3. Unit'
  BY DEF WorkerEnds, Typed, Unit, Off
<1>4. Numbered'
  BY DEF WorkerEnds, Typed, Numbered, tokens, Writes, Files, Off, Unit
<1> QED BY <1>1, <1>2, <1>3, <1>4 DEF Rest

(* The unit is off.                                                        *)
LEMMA WorkerDiesRest == ASSUME Typed, WorkerDies PROVE Rest' /\ Still
<1>1. left' \in [DOMAIN Limits -> Nat] /\ left'.starts <= MaxStarts /\ left'.starts = left.starts
  BY SpendCounts DEF WorkerDies, Fault, Disturbed, Typed, Counts
<1>2. Files' /\ Stored'
  BY DEF WorkerDies, Typed, Files, files, Stored, settings, tokens
<1>3. Unit'
  BY DEF WorkerDies, Typed, Unit, Off
<1>4. Counts'
  BY <1>1 DEF WorkerDies, Typed, Counts, monitors
<1>5. Known'
  BY EventTypes DEF WorkerDies, Typed, Known, Events, Fault, Disturbed, Late
<1>6. Numbered' /\ Still
  BY <1>1 DEF WorkerDies, Typed, Numbered, Still, tokens, files, Off, Unit
<1> QED BY <1>2, <1>3, <1>4, <1>5, <1>6 DEF Rest

(* The numbers of the monitors are lost.                                   *)
LEMMA CrashRest == ASSUME Typed, Crash PROVE Rest' /\ Still
<1>1. left' \in [DOMAIN Limits -> Nat] /\ left'.starts <= MaxStarts /\ left'.starts = left.starts
  BY SpendCounts DEF Crash, Disturbed, Typed, Counts
<1>2. Files' /\ Stored' /\ Unit'
  BY DEF Crash, Typed, Files, files, Stored, settings, tokens, Unit
<1>3. Counts'
  BY <1>1 DEF Crash, Typed, Counts
<1>4. Known'
  BY EventTypes DEF Crash, Typed, Known, Events, Disturbed, Late
<1>5. Numbered' /\ Still
  BY <1>1 DEF Crash, Typed, Numbered, Still, tokens, files
<1> QED BY <1>2, <1>3, <1>4, <1>5 DEF Rest

(* The clock goes on.                                                      *)
LEMMA TickRest == ASSUME Typed, Tick PROVE Rest' /\ Still
<1>1. Files' /\ Stored' /\ Unit' /\ Known'
  BY DEF Tick, Typed, Files, files, Stored, settings, tokens, Unit, Known
<1>2. Counts'
  BY DEF Tick, Typed, Counts, monitors
<1>3. Numbered' /\ Still
  BY DEF Tick, Typed, Numbered, Still, tokens, files
<1> QED BY <1>1, <1>2, <1>3 DEF Rest

-----------------------------------------------------------------------------
(* Where the token of a session can be.                                    *)

Begun == MaxStarts - left.starts

Planned(x, r) == task[x].kind = "start" /\ task[x].pc \in Waiting /\ task[x].run = r
Serving(r) == service.pc # "off" /\ service.run = r
InFile(r) == state.phase = "captured" /\ state.run = r
Held(x, r) == task[x].pc \in {"store", "secure"} /\ task[x].run = r
InHand(x, r) == task[x].pc = "apply" /\ task[x].run = r

(* Each place excludes those after it, and a token that was applied is in  *)
(* none of them.  A goroutine that holds a token may still find it in the  *)
(* file.                                                                   *)
OnceFor(r) ==
  /\ applied[r] <= 1
  /\ r > Begun => applied[r] = 0
  /\ \A x \in Actors : Planned(x, r) =>
       /\ r <= Begun /\ applied[r] = 0
       /\ ~Serving(r) /\ ~InFile(r)
       /\ \A y \in Actors : ~Held(y, r) /\ ~InHand(y, r) /\ (Planned(y, r) => y = x)
  /\ Serving(r) =>
       /\ r <= Begun /\ applied[r] = 0
       /\ ~InFile(r)
       /\ \A y \in Actors : ~Held(y, r) /\ ~InHand(y, r)
  /\ InFile(r) =>
       /\ r <= Begun /\ applied[r] = 0
       /\ \A y \in Actors : ~InHand(y, r)
  /\ \A x \in Actors : Held(x, r) =>
       /\ r <= Begun /\ applied[r] = 0
       /\ \A y \in Actors : ~InHand(y, r)
  /\ \A x \in Actors : InHand(x, r) =>
       /\ r <= Begun /\ applied[r] = 0
       /\ \A y \in Actors : InHand(y, r) => y = x

Once == \A r \in Runs : OnceFor(r)

(* The places that a quiet step leaves were taken before.                  *)
LEMMA QuietPlaces ==
  ASSUME NEW x \in Actors, Calm(task[x], task'[x]), NEW r
  PROVE  /\ Planned(x, r)' => Planned(x, r)
         /\ Held(x, r)' => Held(x, r)
         /\ InHand(x, r)' => InHand(x, r)
BY DEF Calm, Planned, Held, InHand

(* Where nothing comes to be, nothing is taken twice.                      *)
LEMMA FewerPlaces ==
  ASSUME NEW r \in Runs, OnceFor(r), Begun' = Begun, applied'[r] = applied[r],
         \A x \in Actors : /\ Planned(x, r)' => Planned(x, r)
                           /\ Held(x, r)' => Held(x, r)
                           /\ InHand(x, r)' => InHand(x, r),
         Serving(r)' => Serving(r), InFile(r)' => InFile(r)
  PROVE  OnceFor(r)'
BY DEF OnceFor

(* So does a step that takes no token further.                             *)
LEMMA QuietOnce == ASSUME Once, Quiet, Still PROVE Once'
<1> SUFFICES ASSUME NEW r \in Runs PROVE OnceFor(r)'
  BY DEF Once
<1>1. \A x \in Actors : /\ Planned(x, r)' => Planned(x, r)
                        /\ Held(x, r)' => Held(x, r)
                        /\ InHand(x, r)' => InHand(x, r)
  BY QuietPlaces DEF Quiet
<1>2. (Serving(r)' => Serving(r)) /\ (InFile(r)' => InFile(r))
  BY DEF Still, Serving, InFile
<1>3. Begun' = Begun /\ applied'[r] = applied[r]
  BY DEF Still, Begun
<1>4. OnceFor(r)
  BY DEF Once
<1> QED BY <1>1, <1>2, <1>3, <1>4, FewerPlaces

(* A start is given a number that nobody has had.                          *)
LEMMA BeginOnce ==
  ASSUME Typed, Once, NEW p \in Procs, NEW kind \in Kinds, Begin(p, kind) PROVE Once'
<1>0. p \in Actors /\ UNCHANGED <<state, service, applied>>
  BY DEF Begin, Actors, files, tokens
<1>1. CASE kind # "start"
  <2>1. left'.starts = left.starts
    BY <1>1, SpendCounts DEF Begin, Typed
  <2>2. Still
    BY <1>0, <2>1 DEF Still
  <2> QED BY <1>1, <2>2, BeginTasks, QuietOnce
<1>2. CASE kind = "start"
  <2>1. left.starts \in 1..MaxStarts /\ left'.starts = left.starts - 1
    BY <1>2, SpendCounts, BoundAssumption DEF Begin, Typed, Counts, Limits
  <2>2. Begun' = Begun + 1 /\ Begun \in Nat
    BY <2>1, BoundAssumption DEF Begun
  <2>3. /\ task'[p].kind = "start" /\ task'[p].pc = "lock" /\ task'[p].run = Begun + 1
        /\ \A y \in Actors : y # p => task'[y] = task[y]
    <3>1. MaxStarts - left.starts + 1 = Begun + 1
      BY DEF Begun
    <3> QED BY <1>2, <3>1, BeginTasks
  <2> SUFFICES ASSUME NEW r \in Runs PROVE OnceFor(r)'
    BY DEF Once
  <2>4. OnceFor(r) /\ r \in Nat
    BY DEF Once, Runs
  <2>5. (Serving(r)' <=> Serving(r)) /\ (InFile(r)' <=> InFile(r)) /\ applied'[r] = applied[r]
    BY <1>0 DEF Serving, InFile
  <2>6. \A x \in Actors : /\ Held(x, r)' => Held(x, r)
                          /\ InHand(x, r)' => InHand(x, r)
                          /\ Planned(x, r)' => Planned(x, r) \/ (x = p /\ r = Begun + 1)
    BY <2>3 DEF Held, InHand, Planned
  <2>7. CASE r = Begun + 1
    <3>1. /\ ~Serving(r) /\ ~InFile(r) /\ applied[r] = 0
          /\ \A x \in Actors : ~Planned(x, r) /\ ~Held(x, r) /\ ~InHand(x, r)
      BY <2>2, <2>4, <2>7 DEF OnceFor
    <3> QED BY <2>2, <2>5, <2>6, <2>7, <3>1 DEF OnceFor
  <2>8. CASE r # Begun + 1
    BY <2>2, <2>4, <2>5, <2>6, <2>8 DEF OnceFor
  <2> QED BY <2>7, <2>8
<1> QED BY <1>1, <1>2

(* The unit gets the number of the start.                                  *)
LEMMA LaunchOnce == ASSUME Typed, Once, NEW p \in Procs, StartLaunch(p) PROVE Once'
<1>0. p \in Actors /\ Fits(p, task[p]) /\ task \in [Actors -> Task]
  BY DEF Actors, Typed, Tasks
<1>1. Quiet
  BY StartLaunchTasks
<1>2. left'.starts = left.starts /\ applied' = applied
  BY StartLaunchRest, SpendCounts DEF StartLaunch, tokens, Fault, NoFault, Disturbed, Typed
<1>3. CASE UNCHANGED service
  <2>1. UNCHANGED state \/ state' = NoState
    BY DEF StartLaunch, files, NoFiles
  <2>2. Still
    BY <1>2, <1>3, <2>1 DEF Still, NoState
  <2> QED BY <1>1, <2>2, QuietOnce
<1>4. CASE service' = [pc |-> "boot", run |-> task[p].run, deadline |-> 0]
           /\ Goto(p, "ready") /\ UNCHANGED files
  <2>1. task[p].kind = "start" /\ task[p].pc = "launch"
    BY <1>0 DEF StartLaunch, At, Fits, Waiting, Consuming, Task, Kinds
  <2>2. task'[p].pc = "ready"
    BY <1>0, <1>4 DEF Goto, Task
  <2> SUFFICES ASSUME NEW r \in Runs PROVE OnceFor(r)'
    BY DEF Once
  <2>3. OnceFor(r)
    BY DEF Once
  <2>4. \A x \in Actors : /\ Planned(x, r)' => Planned(x, r)
                          /\ Held(x, r)' => Held(x, r)
                          /\ InHand(x, r)' => InHand(x, r)
    BY <1>1, QuietPlaces DEF Quiet
  <2>5. (InFile(r)' <=> InFile(r)) /\ applied'[r] = applied[r] /\ Begun' = Begun
    BY <1>2, <1>4 DEF InFile, files, Begun
  <2>6. CASE r # task[p].run
    <3>1. ~Serving(r)'
      BY <1>4, <2>6 DEF Serving
    <3> QED BY <2>3, <2>4, <2>5, <3>1, FewerPlaces
  <2>7. CASE r = task[p].run
    <3>1. Planned(p, r)
      BY <2>1, <2>7 DEF Planned, Waiting
    <3>2. /\ r <= Begun /\ applied[r] = 0 /\ ~InFile(r)
          /\ \A y \in Actors : ~Held(y, r) /\ ~InHand(y, r) /\ (Planned(y, r) => y = p)
      BY <1>0, <2>3, <3>1 DEF OnceFor
    <3>3. ~Planned(p, r)'
      BY <2>2 DEF Planned, Waiting
    <3> QED BY <2>3, <2>4, <2>5, <3>2, <3>3 DEF OnceFor
  <2> QED BY <2>6, <2>7
<1> QED BY <1>3, <1>4 DEF StartLaunch

(* The worker leaves the token of its session, and ends.                   *)
LEMMA WorkerEndsOnce == ASSUME Typed, Once, WorkerEnds PROVE Once'
<1>1. UNCHANGED <<task, applied, left>> /\ service' = Off
  BY DEF WorkerEnds, tokens
<1>2. service.pc # "off"
  BY DEF WorkerEnds
<1> SUFFICES ASSUME NEW r \in Runs PROVE OnceFor(r)'
  BY DEF Once
<1>3. OnceFor(r)
  BY DEF Once
<1>4. /\ \A x \in Actors : /\ Planned(x, r)' <=> Planned(x, r)
                           /\ Held(x, r)' <=> Held(x, r)
                           /\ InHand(x, r)' <=> InHand(x, r)
      /\ applied'[r] = applied[r] /\ Begun' = Begun
  BY <1>1 DEF Planned, Held, InHand, Begun
<1>5. ~Serving(r)'
  BY <1>1 DEF Serving, Off
<1>6. InFile(r)' => Serving(r)
  BY <1>2 DEF WorkerEnds, Writes, InFile, Serving
<1>7. CASE Serving(r)
  <2>1. /\ r <= Begun /\ applied[r] = 0
        /\ \A x \in Actors : ~Planned(x, r) /\ ~Held(x, r) /\ ~InHand(x, r)
    BY <1>3, <1>7 DEF OnceFor
  <2> QED BY <1>4, <1>5, <2>1 DEF OnceFor
<1>8. CASE ~Serving(r)
  BY <1>3, <1>4, <1>5, <1>6, <1>8, FewerPlaces
<1> QED BY <1>7, <1>8

(* Who takes a token from the file holds one that nobody has in hand.      *)
LEMMA TakeOnce == ASSUME Typed, Once, NEW x \in Actors, Take(x) PROVE Once'
<1>1. UNCHANGED <<state, service, applied, left>> /\ state.phase = "captured"
  BY DEF Take, files, tokens
<1>2. /\ task'[x].pc = "store" /\ task'[x].run = state.run
      /\ \A y \in Actors : y # x => task'[y] = task[y]
  BY TakeTasks
<1> SUFFICES ASSUME NEW r \in Runs PROVE OnceFor(r)'
  BY DEF Once
<1>3. OnceFor(r)
  BY DEF Once
<1>4. /\ (Serving(r)' <=> Serving(r)) /\ (InFile(r)' <=> InFile(r))
      /\ applied'[r] = applied[r] /\ Begun' = Begun
  BY <1>1 DEF Serving, InFile, Begun
<1>5. \A y \in Actors : /\ Planned(y, r)' => Planned(y, r)
                        /\ InHand(y, r)' => InHand(y, r)
                        /\ Held(y, r)' => Held(y, r) \/ InFile(r)
  BY <1>1, <1>2 DEF Planned, InHand, Held, InFile, Waiting
<1>6. CASE InFile(r)
  <2>1. /\ r <= Begun /\ applied[r] = 0 /\ ~Serving(r)
        /\ \A y \in Actors : ~Planned(y, r) /\ ~InHand(y, r)
    BY <1>3, <1>6 DEF OnceFor
  <2> QED BY <1>4, <1>5, <2>1 DEF OnceFor
<1>7. CASE ~InFile(r)
  BY <1>3, <1>4, <1>5, <1>7, FewerPlaces
<1> QED BY <1>6, <1>7

(* The token leaves the file for one hand: the mutex excludes another      *)
(* goroutine that holds it.                                                *)
LEMMA SecureOnce == ASSUME Typed, Once, NEW x \in Actors, Secure(x) PROVE Once'
<1>0. Fits(x, task[x]) /\ task[x].pc = "secure" /\ task[x] \in Task
      /\ task \in [Actors -> Task]
  BY DEF Typed, Tasks, Fits, Secure, At
<1>1. UNCHANGED <<service, applied>> /\ left'.starts = left.starts
  BY SecureRest DEF Secure, tokens, Still
<1>2. CASE UNCHANGED state /\ Proceed(x, "applying")
  <2>1. PICK t \in Task : /\ task' = [task EXCEPT ![x] = t]
                          /\ t.pc \in {"idle", "look"}
    <3>1. CASE End(x)
      BY <3>1, EndFits DEF End, Fits, NoTask
    <3>2. CASE Goto(x, "look")
      <4>1. "look" \in Steps
        BY DEF Steps
      <4>2. [task[x] EXCEPT !.pc = "look"] \in Task /\ [task[x] EXCEPT !.pc = "look"].pc = "look"
        BY <1>0, <4>1, GotoFields
      <4> QED BY <3>2, <4>2 DEF Goto
    <3> QED BY <1>2, <3>1, <3>2 DEF Proceed
  <2>2. task'[x] = t /\ \A y \in Actors : y # x => task'[y] = task[y]
    BY <1>0, <2>1
  <2>3. Quiet
    BY <2>1, <2>2 DEF Quiet, Calm, Waiting
  <2>4. Still
    BY <1>1, <1>2 DEF Still
  <2> QED BY <2>3, <2>4, QuietOnce
<1>3. CASE state' = [phase |-> "applying", run |-> task[x].run] /\ Goto(x, "apply")
  <2>1. /\ task'[x].pc = "apply" /\ task'[x].run = task[x].run
        /\ \A y \in Actors : y # x => task'[y] = task[y]
    BY <1>0, <1>3 DEF Goto, Task
  <2>2. \A y \in Actors : y # x => task[y].pc \notin {"store", "secure"}
    <3>1. stateMu = x
      BY <1>0 DEF Typed, Mutex, Holds
    <3> QED BY <3>1 DEF Typed, Mutex, Holds
  <2> SUFFICES ASSUME NEW r \in Runs PROVE OnceFor(r)'
    BY DEF Once
  <2>3. OnceFor(r)
    BY DEF Once
  <2>4. (Serving(r)' <=> Serving(r)) /\ ~InFile(r)' /\ applied'[r] = applied[r] /\ Begun' = Begun
    BY <1>1, <1>3 DEF Serving, InFile, Begun
  <2>5. \A y \in Actors : /\ Planned(y, r)' => Planned(y, r)
                          /\ ~Held(y, r)'
                          /\ InHand(y, r)' => InHand(y, r) \/ (y = x /\ Held(x, r))
    BY <1>0, <2>1, <2>2 DEF Planned, Held, InHand, Waiting
  <2>6. CASE Held(x, r)
    <3>1. /\ r <= Begun /\ applied[r] = 0 /\ ~Serving(r)
          /\ \A y \in Actors : ~Planned(y, r) /\ ~InHand(y, r)
      BY <2>3, <2>6 DEF OnceFor
    <3> QED BY <2>4, <2>5, <3>1 DEF OnceFor
  <2>7. CASE ~Held(x, r)
    BY <2>3, <2>4, <2>5, <2>7, FewerPlaces
  <2> QED BY <2>6, <2>7
<1> QED BY <1>2, <1>3 DEF Secure

(* The token that is applied was in this hand only.                        *)
LEMMA ApplyOnce == ASSUME Typed, Once, NEW x \in Actors, Apply(x) PROVE Once'
<1>0. Fits(x, task[x]) /\ task[x].pc = "apply" /\ task \in [Actors -> Task]
      /\ applied \in [Runs -> Nat]
  BY DEF Typed, Tasks, Stored, Apply, At
<1>1. UNCHANGED <<state, service, left>> /\ applied' = [applied EXCEPT ![task[x].run] = @ + 1]
  BY DEF Apply, files
<1>2. Quiet
  BY ApplyTasks
<1>3. task'[x].pc = "report"
  BY <1>0 DEF Apply, Goto, Task
<1> SUFFICES ASSUME NEW r \in Runs PROVE OnceFor(r)'
  BY DEF Once
<1>4. OnceFor(r)
  BY DEF Once
<1>5. (Serving(r)' <=> Serving(r)) /\ (InFile(r)' <=> InFile(r)) /\ Begun' = Begun
  BY <1>1 DEF Serving, InFile, Begun
<1>6. \A y \in Actors : /\ Planned(y, r)' => Planned(y, r)
                        /\ Held(y, r)' => Held(y, r)
                        /\ InHand(y, r)' => InHand(y, r)
  BY <1>2, QuietPlaces DEF Quiet
<1>7. CASE r # task[x].run
  <2>1. applied'[r] = applied[r]
    BY <1>0, <1>1, <1>7
  <2> QED BY <1>4, <1>5, <1>6, <2>1, FewerPlaces
<1>8. CASE r = task[x].run
  <2>1. InHand(x, r)
    BY <1>0, <1>8 DEF InHand
  <2>2. /\ r <= Begun /\ applied[r] = 0 /\ ~Serving(r) /\ ~InFile(r)
        /\ \A y \in Actors : ~Planned(y, r) /\ ~Held(y, r) /\ (InHand(y, r) => y = x)
    BY <1>4, <2>1 DEF OnceFor
  <2>3. applied'[r] = 1
    BY <1>0, <1>1, <1>8, <2>2
  <2>4. ~InHand(x, r)'
    BY <1>3 DEF InHand
  <2>5. r \in Nat /\ Begun \in Nat
    BY BoundAssumption DEF Runs, Begun, Typed, Counts, Limits
  <2> QED BY <1>5, <1>6, <2>2, <2>3, <2>4, <2>5 DEF OnceFor
<1> QED BY <1>7, <1>8

-----------------------------------------------------------------------------
Inv == Typed /\ Once

(* Before the first request there is no token.                             *)
LEMMA InitInv == Init => Inv
<1> SUFFICES ASSUME Init PROVE Inv
  OBVIOUS
<1>1. \A x \in Actors : task[x] = NoTask /\ Fits(x, NoTask) /\ ~Holds(NoTask)
  BY EndFits DEF Init
<1>2. Tasks
  BY <1>1 DEF Init, Tasks, Fits
<1>3. Mutex
  BY <1>1, ActorAssumption DEF Init, Mutex
<1>4. Files /\ Stored /\ Unit /\ Numbered
  BY DEF Init, Files, Stored, Unit, Numbered, NoState, Phases, Off
<1>5. Counts /\ Known
  BY BoundAssumption DEF Init, Counts, Known, Limits, Nothing
<1>6. Once
  <2>1. \A r \in Runs : applied[r] = 0
    BY DEF Init
  <2>2. \A r : ~Serving(r) /\ ~InFile(r)
    BY DEF Init, Serving, InFile, Off, NoState
  <2>3. \A r \in Runs, x \in Actors : ~Planned(x, r) /\ ~Held(x, r) /\ ~InHand(x, r)
    BY <1>1 DEF Planned, Held, InHand, NoTask
  <2>4. ASSUME NEW r \in Runs PROVE OnceFor(r)
    <3>1. applied[r] = 0 /\ applied[r] <= 1
      BY <2>1
    <3> QED BY <3>1, <2>2, <2>3 DEF OnceFor
  <2> QED BY <2>4 DEF Once
<1> QED BY <1>2, <1>3, <1>4, <1>5, <1>6 DEF Inv, Typed

(* What a step keeps.                                                      *)
Kept == Tasks' /\ Mutex' /\ Rest' /\ Once'

(* The parts that every step keeps are the invariant.                      *)
LEMMA KeptInv == Kept => Inv'
BY DEF Kept, Rest, Inv, Typed

(* consumeWBSessionState.                                                  *)
LEMMA ConsumeKept == ASSUME Inv, NEW x \in Actors, Consume(x) PROVE Kept
<1> Typed /\ Once
  BY DEF Inv
<1>1. CASE Take(x)
  BY <1>1, TakeTasks, TakeRest, TakeOnce DEF Kept
<1>2. CASE StoreToken(x)
  BY <1>2, StoreTokenTasks, StoreTokenRest, QuietOnce DEF Kept
<1>3. CASE Secure(x)
  BY <1>3, SecureTasks, SecureRest, SecureOnce DEF Kept
<1>4. CASE Apply(x)
  BY <1>4, ApplyTasks, ApplyRest, ApplyOnce DEF Kept
<1>5. CASE Report(x)
  BY <1>5, ReportTasks, ReportRest, QuietOnce DEF Kept
<1> QED BY <1>1, <1>2, <1>3, <1>4, <1>5 DEF Consume

(* handleWBSessionStart.                                                   *)
LEMMA StartingKept == ASSUME Inv, NEW p \in Procs, Starting(p) PROVE Kept
<1> Typed /\ Once
  BY DEF Inv
<1>1. CASE StartLock(p)
  BY <1>1, StartLockTasks, StartLockRest, QuietOnce DEF Kept
<1>2. CASE StartClean(p)
  BY <1>2, StartCleanTasks, StartCleanRest, QuietOnce DEF Kept
<1>3. CASE StartJob(p)
  BY <1>3, StartJobTasks, StartJobRest, QuietOnce DEF Kept
<1>4. CASE StartLaunch(p)
  BY <1>4, StartLaunchTasks, StartLaunchRest, LaunchOnce DEF Kept
<1>5. CASE StartReady(p)
  BY <1>5, StartReadyTasks, StartReadyRest, QuietOnce DEF Kept
<1>6. CASE StartSave(p)
  BY <1>6, StartSaveTasks, StartSaveRest, QuietOnce DEF Kept
<1>7. CASE StartWatch(p)
  BY <1>7, StartWatchTasks, StartWatchRest, QuietOnce DEF Kept
<1> QED BY <1>1, <1>2, <1>3, <1>4, <1>5, <1>6, <1>7 DEF Starting

(* The other handlers.                                                     *)
LEMMA ChangingKept == ASSUME Inv, NEW p \in Procs, Changing(p) PROVE Kept
<1> Typed /\ Once
  BY DEF Inv
<1>1. CASE Halt(p)
  BY <1>1, HaltTasks, HaltRest, QuietOnce DEF Kept
<1>2. CASE Kill(p)
  BY <1>2, KillTasks, KillRest, QuietOnce DEF Kept
<1>3. CASE Forget(p)
  BY <1>3, ForgetTasks, ForgetRest, QuietOnce DEF Kept
<1>4. CASE Clean(p)
  BY <1>4, CleanTasks, CleanRest, QuietOnce DEF Kept
<1>5. CASE ReadExpires(p)
  BY <1>5, ReadExpiresTasks, ReadExpiresRest, QuietOnce DEF Kept
<1>6. CASE WriteControl(p)
  BY <1>6, WriteControlTasks, WriteControlRest, QuietOnce DEF Kept
<1>7. CASE SetExtended(p)
  BY <1>7, SetExtendedTasks, SetExtendedRest, QuietOnce DEF Kept
<1> QED BY <1>1, <1>2, <1>3, <1>4, <1>5, <1>6, <1>7 DEF Changing

(* monitorWBSession.                                                       *)
LEMMA MonitorKept == ASSUME Inv, NEW r \in Runs, Monitor(r) PROVE Kept
<1> Typed /\ Once
  BY DEF Inv
<1>1. CASE Look(r)
  BY <1>1, LookTasks, LookRest, QuietOnce DEF Kept
<1>2. CASE MonitorKill(r)
  BY <1>2, MonitorKillTasks, MonitorKillRest, QuietOnce DEF Kept
<1>3. CASE Mark(r)
  BY <1>3, MarkTasks, MarkRest, QuietOnce DEF Kept
<1>4. CASE Leave(r)
  BY <1>4, LeaveTasks, LeaveRest, QuietOnce DEF Kept
<1>5. CASE Cleanup(r)
  BY <1>5, CleanupTasks, CleanupRest, QuietOnce DEF Kept
<1> QED BY <1>1, <1>2, <1>3, <1>4, <1>5 DEF Monitor

(* The unit and the clock leave the goroutines alone.                      *)
LEMMA OutsideKept ==
  ASSUME Inv, Worker \/ LogIn \/ WorkerDies \/ Tick \/ UNCHANGED vars
  PROVE  Kept
<1> Typed /\ Once
  BY DEF Inv
<1>1. UNCHANGED <<task, stateMu>>
  BY DEF Worker, WorkerBoots, LoginExpires, WorkerEnds, LogIn, WorkerDies, Tick, vars
<1>2. Tasks' /\ Mutex' /\ Quiet
  BY <1>1 DEF Typed, Tasks, Mutex, Quiet, Calm
<1>3. CASE WorkerBoots
  BY <1>2, <1>3, WorkerBootsRest, QuietOnce DEF Kept
<1>4. CASE LoginExpires
  BY <1>2, <1>4, LoginExpiresRest, QuietOnce DEF Kept
<1>5. CASE WorkerEnds
  BY <1>2, <1>5, WorkerEndsRest, WorkerEndsOnce DEF Kept
<1>6. CASE LogIn
  BY <1>2, <1>6, LogInRest, QuietOnce DEF Kept
<1>7. CASE WorkerDies
  BY <1>2, <1>7, WorkerDiesRest, QuietOnce DEF Kept
<1>8. CASE Tick
  BY <1>2, <1>8, TickRest, QuietOnce DEF Kept
<1>9. CASE UNCHANGED vars
  <2>1. Rest'
    BY <1>9 DEF vars, Rest, Files, Stored, Unit, Counts, Known, Numbered, Typed
  <2>2. Still
    BY <1>9 DEF vars, Still
  <2> QED BY <1>2, <2>1, <2>2, QuietOnce DEF Kept
<1> QED BY <1>3, <1>4, <1>5, <1>6, <1>7, <1>8, <1>9 DEF Worker

(* Every step.                                                             *)
LEMMA NextInv == Inv /\ [Next]_vars => Inv'
<1> SUFFICES ASSUME Inv, [Next]_vars PROVE Inv'
  OBVIOUS
<1> Typed /\ Once
  BY DEF Inv
<1>1. ASSUME NEW p \in Procs, Handle(p) PROVE Kept
  <2>1. CASE Polling(p)
    BY <2>1, PollingTasks, PollingRest, QuietOnce DEF Kept
  <2>2. p \in Actors
    BY DEF Actors
  <2> QED BY <1>1, <2>1, <2>2, StartingKept, ChangingKept, ConsumeKept DEF Handle
<1>2. ASSUME NEW p \in Procs, Cancel(p) PROVE Kept
  BY <1>2, CancelTasks, CancelRest, QuietOnce DEF Kept
<1>3. ASSUME NEW p \in Procs, NEW kind \in Kinds, Begin(p, kind) PROVE Kept
  BY <1>3, BeginTasks, BeginRest, BeginOnce DEF Kept
<1>4. ASSUME NEW r \in Runs, Watch(r) PROVE Kept
  <2>1. r \in Actors
    BY DEF Actors
  <2> QED BY <1>4, <2>1, ConsumeKept, MonitorKept DEF Watch
<1>5. CASE Crash
  BY <1>5, CrashTasks, CrashRest, QuietOnce, KeptInv DEF Kept
<1>6. CASE Worker \/ LogIn \/ WorkerDies \/ Tick \/ UNCHANGED vars
  BY <1>6, OutsideKept, KeptInv
<1> QED BY <1>1, <1>2, <1>3, <1>4, <1>5, <1>6, KeptInv DEF Next

(* What every reachable state satisfies.                                   *)
LEMMA SpecInv == Spec => []Inv
BY InitInv, NextInv, PTL DEF Spec

(* wbSessionStateMu excludes, for any number of requests, sessions and     *)
(* faults: no error path of Start and consumeWBSessionState keeps it, and  *)
(* nobody else is ever inside.                                             *)
THEOREM TypeCorrect == Spec => []TypeOK
<1>1. Inv => TypeOK
  BY TypedIsTypeOK DEF Inv
<1> QED BY <1>1, SpecInv, PTL

(* UpdateWBToken is called at most once with the token of a session, for   *)
(* any number of monitors and polls that look for it, crashes and faults.  *)
THEOREM AppliedOnceHolds == Spec => []AppliedOnce
<1>1. Inv => AppliedOnce
  BY DEF Inv, Once, OnceFor, AppliedOnce
<1> QED BY <1>1, SpecInv, PTL

-----------------------------------------------------------------------------
(* The session a poll is told of.                                          *)

(* A start that has stopped the last unit and has not started its own.     *)
Ready(t) == t.kind = "start" /\ (t.pc \in {"job", "launch"} \/ (t.pc = "clean" /\ ~t.cancelled))

(* The unit, its token and what is done with the token all belong to the   *)
(* last session, because no start gives it a number while one of them is   *)
(* there.  A token that is applied may be overtaken, but not without       *)
(* notice.                                                                 *)
Session ==
  /\ service.pc # "off" => service.run = latest
  /\ state.phase = "captured" => state.run = latest /\ service.pc = "off"
  /\ \A x \in Actors :
       /\ Ready(task[x]) => service.pc = "off"
       /\ task[x].kind = "start" /\ task[x].pc = "launch" =>
            task[x].run = latest /\ state.phase # "captured"
       /\ task[x].pc \in {"store", "secure"} => state.phase = "captured" /\ task[x].run = latest
       /\ task[x].pc = "secure" => wbToken = task[x].run
  /\ Without({"two applying"}) =>
       /\ state.phase \in {"applying", "success"} => state.run = latest /\ wbToken = latest
       /\ state.phase = "applying" =>
            \A x \in Actors : task[x].pc \in {"apply", "report"} => task[x].run = latest

(* A step after which a goroutine claims nothing that it did not claim.    *)
Modest(old, new) ==
  /\ Ready(new) => Ready(old) \/ service'.pc = "off"
  /\ new.kind = "start" /\ new.pc = "launch" =>
       old.kind = "start" /\ old.pc = "launch" /\ new.run = old.run
  /\ new.pc \in {"store", "secure"} => old.pc \in {"store", "secure"} /\ new.run = old.run
  /\ new.pc = "secure" => old.pc = "secure"

Applies(t) == t.pc \in {"apply", "report"}
Follows(old, new) == Modest(old, new) /\ (Applies(new) => Applies(old) /\ new.run = old.run)

Claimless == Steps \ {"clean", "job", "launch", "store", "secure", "apply", "report"}

AllModest == \A y \in Actors : Modest(task[y], task'[y])
AllFollow == \A y \in Actors : Follows(task[y], task'[y])

LEMMA SameFollows == ASSUME NEW t PROVE Follows(t, t)
BY DEF Follows, Modest, Applies

LEMMA GotoFollows ==
  ASSUME Typed, NEW x \in Actors, NEW pc \in Claimless, Goto(x, pc)
  PROVE  AllFollow
<1>1. task'[x].pc = pc /\ \A y \in Actors : y # x => task'[y] = task[y]
  BY DEF Typed, Tasks, Goto, Task, Claimless
<1>2. Follows(task[x], task'[x])
  BY <1>1 DEF Follows, Modest, Applies, Claimless, Ready
<1> QED BY <1>1, <1>2, SameFollows DEF AllFollow

LEMMA EndFollows == ASSUME Typed, NEW x \in Actors, End(x) PROVE AllFollow
<1>1. task'[x] = NoTask /\ \A y \in Actors : y # x => task'[y] = task[y]
  BY DEF Typed, Tasks, End
<1>2. Follows(task[x], task'[x])
  BY <1>1 DEF Follows, Modest, Applies, NoTask, Ready
<1> QED BY <1>1, <1>2, SameFollows DEF AllFollow

(* No session gets a number, no unit starts.                               *)
Stays ==
  /\ latest' = latest /\ happened \subseteq happened'
  /\ service'.pc # "off" => service.pc # "off" /\ service'.run = service.run

(* Nobody has a token in hand.                                             *)
NoToken == \A y \in Actors : task[y].pc \notin {"store", "secure"}

(* What a goroutine claims.                                                *)
Claims(x) ==
  /\ Ready(task[x]) => service.pc = "off"
  /\ task[x].kind = "start" /\ task[x].pc = "launch" =>
       task[x].run = latest /\ state.phase # "captured"
  /\ task[x].pc \in {"store", "secure"} => state.phase = "captured" /\ task[x].run = latest
  /\ task[x].pc = "secure" => wbToken = task[x].run

LEMMA SessionClaims == Session => \A x \in Actors : Claims(x)
BY DEF Session, Claims

(* The claims stay true when the state file stays, or has no token while   *)
(* no goroutine has one in hand.                                           *)
LEMMA ModestClaims ==
  ASSUME Session, AllModest, Stays,
         \/ state' = state /\ wbToken' = wbToken
         \/ state'.phase # "captured" /\ NoToken'
  PROVE  \A x \in Actors : Claims(x)'
<1> SUFFICES ASSUME NEW x \in Actors PROVE Claims(x)'
  OBVIOUS
<1>1. Modest(task[x], task'[x]) /\ Claims(x)
  BY SessionClaims DEF AllModest
<1>2. Ready(task'[x]) => service'.pc = "off"
  BY <1>1 DEF Modest, Claims, Stays
<1>3. task'[x].kind = "start" /\ task'[x].pc = "launch" =>
        task'[x].run = latest' /\ state'.phase # "captured"
  BY <1>1 DEF Modest, Claims, Stays
<1>4. task'[x].pc \in {"store", "secure"} => state'.phase = "captured" /\ task'[x].run = latest'
  BY <1>1 DEF Modest, Claims, Stays, NoToken
<1>5. task'[x].pc = "secure" => wbToken' = task'[x].run
  BY <1>1 DEF Modest, Claims, Stays, NoToken
<1> QED BY <1>2, <1>3, <1>4, <1>5 DEF Claims

(* A step after which nobody claims more keeps the invariant.              *)
LEMMA FollowSession ==
  ASSUME Session, AllFollow, Stays,
         \/ state' = state /\ wbToken' = wbToken
         \/ state'.phase \notin {"captured", "applying", "success"} /\ NoToken'
  PROVE  Session'
<1>1. /\ service'.pc # "off" => service'.run = latest'
      /\ state'.phase = "captured" => state'.run = latest' /\ service'.pc = "off"
  BY DEF Session, Stays
<1>2. \A x \in Actors : Claims(x)'
  BY ModestClaims DEF AllFollow, AllModest, Follows
<1>3. ASSUME Without({"two applying"})'
      PROVE  /\ state'.phase \in {"applying", "success"} => state'.run = latest' /\ wbToken' = latest'
             /\ state'.phase = "applying" =>
                  \A x \in Actors : task'[x].pc \in {"apply", "report"} => task'[x].run = latest'
  <2>1. Without({"two applying"})
    BY <1>3 DEF Without, Stays
  <2>2. state'.phase \in {"applying", "success"} => state'.run = latest' /\ wbToken' = latest'
    BY <2>1 DEF Session, Stays
  <2>3. state'.phase = "applying" =>
          \A x \in Actors : task'[x].pc \in {"apply", "report"} => task'[x].run = latest'
    BY <2>1 DEF Session, Stays, AllFollow, Follows, Applies
  <2> QED BY <2>2, <2>3
<1> QED BY <1>1, <1>2, <1>3 DEF Session, Claims

(* Nobody gets a token in hand while the mutex is free, or kept by a       *)
(* goroutine that has none then.                                           *)
LEMMA FreeOfTokens ==
  ASSUME Typed, AllModest,
         stateMu = Nil \/ \E x \in Actors : Holds(task[x]) /\ task'[x].pc \notin {"store", "secure"}
  PROVE  NoToken'
<1> SUFFICES ASSUME NEW y \in Actors, task'[y].pc \in {"store", "secure"} PROVE FALSE
  BY DEF NoToken
<1>1. task[y].pc \in {"store", "secure"} /\ Holds(task[y])
  BY DEF AllModest, Modest, Holds
<1>2. CASE stateMu = Nil
  BY <1>1, <1>2, FreeMutex DEF Typed
<1>3. CASE \E x \in Actors : Holds(task[x]) /\ task'[x].pc \notin {"store", "secure"}
  BY <1>1, <1>3 DEF Typed, Mutex
<1> QED BY <1>2, <1>3

LEMMA EventsStay ==
  ASSUME NoFault \/ Fault \/ \E event : Disturbed(event)
  PROVE  happened \subseteq happened'
BY DEF NoFault, Fault, Disturbed

(* Two facts that a goroutine goes on to such a step, or ends.             *)
LEMMA ClaimlessSteps ==
  {"idle", "lock", "halt", "kill", "ready", "save", "watch", "forget", "read_expires", "control",
   "extended", "look", "attach", "mark", "leave", "cleanup"} \subseteq Claimless
BY DEF Claimless, Steps

LEMMA ProceedFollows ==
  ASSUME Typed, NEW x \in Actors, NEW phase, Proceed(x, phase)
  PROVE  AllFollow /\ task'[x].pc \notin {"store", "secure", "apply", "report"}
<1>1. \/ \E pc \in {"leave", "look", "attach"} : Goto(x, pc)
      \/ End(x)
  BY DEF Proceed
<1>2. CASE \E pc \in {"leave", "look", "attach"} : Goto(x, pc)
  BY <1>2, GotoFollows, ClaimlessSteps DEF Goto, Typed, Tasks, Task
<1>3. CASE End(x)
  BY <1>3, EndFollows DEF End, Typed, Tasks, NoTask
<1> QED BY <1>1, <1>2, <1>3

(* A request arrives, or its client leaves.                                *)
LEMMA BeginSession ==
  ASSUME Typed, Session, NEW p \in Procs, NEW kind \in Kinds, Begin(p, kind) PROVE Session'
<1>1. p \in Actors
  BY DEF Actors
<1>2. task'[p].pc = FirstStep(kind) /\ \A y \in Actors : y # p => task'[y] = task[y]
  BY <1>1 DEF Begin, Typed, Tasks, NoTask
<1>3. FirstStep(kind) \in {"lock", "halt", "read_expires", "peek"}
  BY DEF FirstStep, Kinds
<1>4. Follows(task[p], task'[p])
  BY <1>2, <1>3 DEF Follows, Modest, Applies, Ready
<1>5. AllFollow
  BY <1>2, <1>4, SameFollows DEF AllFollow
<1>6. Stays /\ state' = state /\ wbToken' = wbToken
  BY DEF Begin, Stays, files, tokens
<1> QED BY <1>5, <1>6, FollowSession

LEMMA CancelSession == ASSUME Typed, Session, NEW p \in Procs, Cancel(p) PROVE Session'
<1>1. p \in Actors
  BY DEF Actors
<1>2. /\ task'[p].pc = task[p].pc /\ task'[p].kind = task[p].kind /\ task'[p].run = task[p].run
      /\ task'[p].cancelled
      /\ \A y \in Actors : y # p => task'[y] = task[y]
  BY <1>1 DEF Cancel, Cancelled, Typed, Tasks, Task
<1>3. Follows(task[p], task'[p])
  BY <1>2 DEF Follows, Modest, Applies, Ready
<1>4. AllFollow
  BY <1>2, <1>3, SameFollows DEF AllFollow
<1>5. Stays /\ state' = state /\ wbToken' = wbToken
  BY EventsStay DEF Cancel, Stays, files, tokens
<1> QED BY <1>4, <1>5, FollowSession

(* handleWBSessionStart.                                                   *)
LEMMA StartLockSession == ASSUME Typed, Session, NEW p \in Procs, StartLock(p) PROVE Session'
<1>1. p \in Actors
  BY DEF Actors
<1>2. CASE End(p)
  BY <1>1, <1>2, EndFollows, FollowSession DEF StartLock, Stays, files, tokens
<1>3. CASE task' = [task EXCEPT ![p].pc = "halt", ![p].deadline = clock + Length]
  <2>1. task'[p].pc = "halt" /\ \A y \in Actors : y # p => task'[y] = task[y]
    BY <1>1, <1>3 DEF Typed, Tasks, Task
  <2>2. Follows(task[p], task'[p])
    BY <2>1 DEF Follows, Modest, Applies, Ready
  <2>3. AllFollow
    BY <2>1, <2>2, SameFollows DEF AllFollow
  <2> QED BY <2>3, FollowSession DEF StartLock, Stays, files, tokens
<1> QED BY <1>2, <1>3 DEF StartLock

LEMMA StartCleanSession == ASSUME Typed, Session, NEW p \in Procs, StartClean(p) PROVE Session'
<1>1. p \in Actors /\ Holds(task[p])
  BY DEF Actors, StartClean, At, Holds
<1>2. AllFollow /\ task'[p].pc \in {"job", "idle"}
  <2>1. CASE ~task[p].cancelled /\ Goto(p, "job")
    <3>1. /\ task'[p].pc = "job" /\ task'[p].kind = task[p].kind
          /\ \A y \in Actors : y # p => task'[y] = task[y]
      BY <1>1, <2>1 DEF Goto, Typed, Tasks, Task
    <3>2. Follows(task[p], task'[p])
      BY <2>1, <3>1 DEF Follows, Modest, Applies, Ready, StartClean, At
    <3> QED BY <3>1, <3>2, SameFollows DEF AllFollow
  <2>2. CASE End(p)
    BY <1>1, <2>2, EndFollows DEF End, Typed, Tasks, NoTask
  <2> QED BY <2>1, <2>2 DEF StartClean
<1>3. NoToken'
  BY <1>1, <1>2, FreeOfTokens DEF AllModest, AllFollow, Follows
<1>4. Stays
  BY EventsStay DEF StartClean, Stays
<1>5. state'.phase = "none"
  BY DEF StartClean, NoFiles, NoState
<1> QED BY <1>2, <1>3, <1>4, <1>5, FollowSession

(* The session has a number when its job is written: no unit runs then.    *)
LEMMA StartJobSession == ASSUME Typed, Session, NEW p \in Procs, StartJob(p) PROVE Session'
<1>1. p \in Actors /\ task[p].pc = "job" /\ Tasks /\ Fits(p, task[p])
  BY DEF Actors, StartJob, At, Typed, Tasks
<1>2. task[p].kind = "start"
  BY <1>1 DEF Fits, Task, Kinds, Waiting, Consuming
<1>3. Holds(task[p]) /\ service.pc = "off"
  BY <1>1, <1>2 DEF Holds, Session, Ready
<1>4. CASE End(p)
  <2>1. AllFollow
    BY <1>1, <1>4, EndFollows
  <2>2. state' = state /\ latest' = latest
    <3>1. ~Goto(p, "launch")
      BY <1>1, <1>4 DEF Goto, End, Tasks, NoTask, Task
    <3> QED BY <3>1 DEF StartJob, files
  <2>3. Stays /\ wbToken' = wbToken
    BY <2>2, EventsStay DEF StartJob, Stays, tokens
  <2> QED BY <2>1, <2>2, <2>3, FollowSession
<1>5. CASE /\ Goto(p, "launch") /\ happened' = happened \cup Overtaken
           /\ state' = [phase |-> "queued", run |-> task[p].run] /\ latest' = task[p].run
  <2>1. /\ task'[p].pc = "launch" /\ task'[p].kind = "start" /\ task'[p].run = task[p].run
        /\ \A y \in Actors : y # p => task'[y] = task[y]
    BY <1>1, <1>2, <1>5 DEF Goto, Tasks, Task
  <2>2. state'.phase = "queued" /\ service' = service
    BY <1>5 DEF StartJob
  <2>3. ASSUME NEW y \in Actors PROVE Claims(y)'
    <3>1. CASE y = p
      BY <1>3, <1>5, <2>1, <2>2, <3>1 DEF Claims
    <3>2. CASE y # p
      <4>1. ~Holds(task[y]) /\ task'[y] = task[y]
        BY <1>1, <1>3, <2>1, <3>2 DEF Typed, Mutex
      <4> QED BY <1>3, <2>2, <4>1 DEF Claims, Holds
    <3> QED BY <3>1, <3>2
  <2> QED BY <1>3, <2>2, <2>3 DEF Session, Claims
<1> QED BY <1>4, <1>5 DEF StartJob

LEMMA StartLaunchSession == ASSUME Typed, Session, NEW p \in Procs, StartLaunch(p) PROVE Session'
<1>1. p \in Actors /\ task[p].pc = "launch" /\ Tasks /\ Fits(p, task[p])
  BY DEF Actors, StartLaunch, At, Typed, Tasks
<1>2. task[p].kind = "start"
  BY <1>1 DEF Fits, Task, Kinds, Waiting, Consuming
<1>3. Holds(task[p]) /\ task[p].run = latest /\ state.phase # "captured"
  BY <1>1, <1>2 DEF Holds, Session
<1>4. Stays \/ service' # service
  BY EventsStay DEF StartLaunch, Stays
<1>5. CASE NoFiles /\ End(p) /\ UNCHANGED service
  <2>1. AllFollow /\ task'[p].pc = "idle"
    BY <1>1, <1>5, EndFollows DEF End, Tasks, NoTask
  <2>2. NoToken'
    BY <1>1, <1>3, <2>1, FreeOfTokens DEF AllModest, AllFollow, Follows
  <2>3. state'.phase = "none"
    BY <1>5 DEF NoFiles, NoState
  <2> QED BY <1>4, <1>5, <2>1, <2>2, <2>3, FollowSession
<1>6. CASE /\ Goto(p, "ready") /\ UNCHANGED files /\ NoFault
           /\ service' = IF service.pc # "off" THEN service
                          ELSE [pc |-> "boot", run |-> task[p].run, deadline |-> 0]
  <2>1. /\ task'[p].pc = "ready" /\ \A y \in Actors : y # p => task'[y] = task[y]
    BY <1>1, <1>6 DEF Goto, Tasks, Task
  <2>2. AllFollow
    BY <1>1, <1>6, GotoFollows, ClaimlessSteps
  <2>3. state' = state /\ latest' = latest /\ wbToken' = wbToken /\ happened' = happened
    BY <1>6 DEF StartLaunch, files, tokens, NoFault
  <2>4. service'.run = latest'
    BY <1>3, <1>6, <2>3 DEF Session
  <2>5. ASSUME NEW y \in Actors
        PROVE  task'[y].kind # "start" \/ task'[y].pc \notin {"clean", "job", "launch"}
    BY <1>1, <1>3, <2>1 DEF Typed, Mutex, Holds
  <2>6. ASSUME NEW y \in Actors PROVE Claims(y)'
    <3>1. task'[y].pc \notin {"store", "secure"}
      BY <1>1, <1>3, <2>1 DEF Typed, Mutex, Holds
    <3> QED BY <2>5, <3>1 DEF Claims, Ready
  <2>7. ASSUME Without({"two applying"})'
        PROVE  /\ state'.phase \in {"applying", "success"} => state'.run = latest' /\ wbToken' = latest'
               /\ state'.phase = "applying" =>
                    \A x \in Actors : task'[x].pc \in {"apply", "report"} => task'[x].run = latest'
    BY <2>2, <2>3, <2>7 DEF Session, Without, AllFollow, Follows, Applies
  <2> QED BY <1>3, <2>3, <2>4, <2>6, <2>7 DEF Session, Claims
<1> QED BY <1>5, <1>6 DEF StartLaunch

LEMMA StartReadySession == ASSUME Typed, Session, NEW p \in Procs, StartReady(p) PROVE Session'
<1>1. p \in Actors /\ task[p].pc = "ready" /\ Tasks /\ Fits(p, task[p])
  BY DEF Actors, StartReady, At, Typed, Tasks
<1>2. Holds(task[p])
  BY <1>1 DEF Fits, Task, Kinds, Waiting, Consuming, Holds
<1>3. Stays
  BY EventsStay DEF StartReady, Stays
<1>4. CASE Goto(p, "save") /\ UNCHANGED files
  BY <1>1, <1>3, <1>4, GotoFollows, ClaimlessSteps, FollowSession DEF StartReady, files, tokens
<1>5. CASE NoFiles /\ End(p)
  <2>1. AllFollow /\ task'[p].pc = "idle"
    BY <1>1, <1>5, EndFollows DEF End, Tasks, NoTask
  <2>2. NoToken'
    BY <1>1, <1>2, <2>1, FreeOfTokens DEF AllModest, AllFollow, Follows
  <2>3. state'.phase = "none"
    BY <1>5 DEF NoFiles, NoState
  <2> QED BY <1>3, <2>1, <2>2, <2>3, FollowSession
<1> QED BY <1>4, <1>5 DEF StartReady

LEMMA StartSaveSession == ASSUME Typed, Session, NEW p \in Procs, StartSave(p) PROVE Session'
<1>1. p \in Actors /\ Goto(p, "watch")
  BY DEF Actors, StartSave
<1>2. Stays /\ state' = state /\ wbToken' = wbToken
  BY EventsStay DEF StartSave, Stays, files, tokens
<1> QED BY <1>1, <1>2, GotoFollows, ClaimlessSteps, FollowSession

LEMMA StartWatchSession == ASSUME Typed, Session, NEW p \in Procs, StartWatch(p) PROVE Session'
<1>0. p \in Actors /\ Tasks /\ current \in Runs \cup {0} /\ Fits(p, task[p])
  BY DEF Actors, Typed, Counts, Tasks
<1>1. PICK told : told = IF current = 0 THEN task ELSE Cancelled(current)
  OBVIOUS
<1>2. /\ told \in [Actors -> Task]
      /\ \A y \in Actors : /\ told[y].kind = task[y].kind
                           /\ told[y].pc = task[y].pc
                           /\ told[y].run = task[y].run
  BY <1>0, <1>1, StoppedMonitor
<1>3. \A y \in Actors : told[y].cancelled = task[y].cancelled \/ y \in Runs
  BY <1>0, <1>1 DEF Cancelled, Tasks
<1>4. PICK r \in Runs : r = task[p].run
  BY <1>0 DEF StartWatch, At, Fits, Waiting, Consuming, Task, Kinds
<1>5. PICK t : t = [NoTask EXCEPT !.kind = "monitor", !.pc = "look", !.gen = generation']
  OBVIOUS
<1>6. task' = [told EXCEPT ![p] = NoTask, ![r] = t]
  BY <1>1, <1>4, <1>5 DEF StartWatch
<1>7. t.pc = "look" /\ NoTask.pc = "idle"
  BY <1>5 DEF NoTask
<1>8. \A y \in Actors : task'[y] = told[y] \/ task'[y] = NoTask \/ task'[y] = t
  BY <1>2, <1>6
<1>9. ASSUME NEW y \in Actors PROVE Follows(task[y], task'[y])
  <2>1. CASE task'[y] = told[y]
    <3>1. Ready(task'[y]) => Ready(task[y])
      <4>1. y \in Runs => task[y].kind # "start"
        BY <1>0 DEF Tasks, Fits
      <4> QED BY <1>2, <1>3, <2>1, <4>1 DEF Ready
    <3> QED BY <1>2, <2>1, <3>1 DEF Follows, Modest, Applies
  <2>2. CASE task'[y] = NoTask \/ task'[y] = t
    BY <1>7, <2>2 DEF Follows, Modest, Applies, Ready
  <2> QED BY <1>8, <2>1, <2>2
<1>10. Stays /\ state' = state /\ wbToken' = wbToken
  BY DEF StartWatch, Stays, files, tokens
<1> QED BY <1>9, <1>10, FollowSession DEF AllFollow

(* Stop, ProfileReset and Extend.                                          *)
LEMMA HaltSession == ASSUME Typed, Session, NEW p \in Procs, Halt(p) PROVE Session'
<1>0. p \in Actors /\ Tasks /\ current \in Runs \cup {0}
  BY DEF Actors, Typed, Counts
<1>1. PICK told : told = IF current = 0 THEN task ELSE Cancelled(current)
  OBVIOUS
<1>2. PICK pc \in {"forget", "kill"} : task' = [told EXCEPT ![p].pc = pc]
  BY <1>1 DEF Halt, StopMonitor
<1>3. /\ told \in [Actors -> Task]
      /\ \A y \in Actors : /\ told[y].kind = task[y].kind
                           /\ told[y].pc = task[y].pc
                           /\ told[y].run = task[y].run
  BY <1>0, <1>1, StoppedMonitor
<1>4. \A y \in Actors : told[y].cancelled = task[y].cancelled \/ y \in Runs
  BY <1>0, <1>1 DEF Cancelled, Tasks
<1>5. task'[p].pc = pc /\ \A y \in Actors : y # p => task'[y] = told[y]
  BY <1>0, <1>2, <1>3 DEF Task
<1>6. ASSUME NEW y \in Actors PROVE Follows(task[y], task'[y])
  <2>1. CASE y # p
    <3>1. Ready(task'[y]) => Ready(task[y])
      <4>1. y \in Runs => task[y].kind # "start"
        BY <1>0 DEF Tasks, Fits
      <4> QED BY <1>3, <1>4, <1>5, <2>1, <4>1 DEF Ready
    <3> QED BY <1>3, <1>5, <2>1, <3>1 DEF Follows, Modest, Applies
  <2>2. CASE y = p
    BY <1>5, <2>2 DEF Follows, Modest, Applies, Ready
  <2> QED BY <2>1, <2>2
<1>7. Stays /\ state' = state /\ wbToken' = wbToken
  BY DEF Halt, Stays, files, tokens
<1> QED BY <1>6, <1>7, FollowSession DEF AllFollow

(* A start that goes on to clean has stopped the unit, or is cancelled.    *)
Stopped == Without({"unstopped"})

LEMMA NotStopped == ASSUME Stopped' PROVE ~StaysOn
BY DEF Stopped, Without, StaysOn, Disturbed

LEMMA KillSession == ASSUME Typed, Session, Stopped', NEW p \in Procs, Kill(p) PROVE Session'
<1>1. p \in Actors
  BY DEF Actors
<1>2. /\ task'[p].pc = "clean" /\ task'[p].cancelled = task[p].cancelled
      /\ \A y \in Actors : y # p => task'[y] = task[y]
  BY <1>1 DEF Kill, Goto, Typed, Tasks, Task
<1>3. Follows(task[p], task'[p])
  <2>1. Ready(task'[p]) => service'.pc = "off"
    BY <1>2, NotStopped DEF Kill, Ready, Off
  <2> QED BY <1>2, <2>1 DEF Follows, Modest, Applies
<1>4. AllFollow
  BY <1>2, <1>3, SameFollows DEF AllFollow
<1>5. Stays /\ state' = state /\ wbToken' = wbToken
  BY NotStopped DEF Kill, Stays, files, tokens, Off, NoFault
<1> QED BY <1>4, <1>5, FollowSession

LEMMA ForgetSession == ASSUME Typed, Session, NEW p \in Procs, Forget(p) PROVE Session'
<1>1. p \in Actors /\ (Goto(p, "kill") \/ End(p))
  BY DEF Actors, Forget
<1>2. Stays /\ state' = state /\ wbToken' = wbToken
  BY EventsStay DEF Forget, Stays, files, tokens
<1> QED BY <1>1, <1>2, GotoFollows, EndFollows, ClaimlessSteps, FollowSession

LEMMA CleanSession == ASSUME Typed, Session, NEW p \in Procs, Clean(p) PROVE Session'
<1>1. p \in Actors /\ (Goto(p, "forget") \/ End(p))
  BY DEF Actors, Clean
<1>2. AllFollow
  BY <1>1, GotoFollows, EndFollows, ClaimlessSteps
<1>3. NoToken'
  BY <1>2, FreeOfTokens DEF Clean, AllModest, AllFollow, Follows
<1>4. Stays /\ state'.phase = "none"
  BY DEF Clean, Stays, NoFiles, NoState
<1> QED BY <1>2, <1>3, <1>4, FollowSession

LEMMA ReadExpiresSession == ASSUME Typed, Session, NEW p \in Procs, ReadExpires(p) PROVE Session'
<1>1. p \in Actors
  BY DEF Actors
<1>2. CASE End(p)
  BY <1>1, <1>2, EndFollows, FollowSession DEF ReadExpires, Stays, files, tokens
<1>3. CASE task' = [task EXCEPT ![p].pc = "control", ![p].deadline = expires + Length]
  <2>1. task'[p].pc = "control" /\ \A y \in Actors : y # p => task'[y] = task[y]
    BY <1>1, <1>3 DEF Typed, Tasks, Task
  <2>2. Follows(task[p], task'[p])
    BY <2>1 DEF Follows, Modest, Applies, Ready
  <2>3. AllFollow
    BY <2>1, <2>2, SameFollows DEF AllFollow
  <2> QED BY <2>3, FollowSession DEF ReadExpires, Stays, files, tokens
<1> QED BY <1>2, <1>3 DEF ReadExpires

LEMMA WriteControlSession == ASSUME Typed, Session, NEW p \in Procs, WriteControl(p) PROVE Session'
<1>1. p \in Actors /\ (Goto(p, "extended") \/ End(p))
  BY DEF Actors, WriteControl
<1>2. Stays /\ state' = state /\ wbToken' = wbToken
  BY EventsStay DEF WriteControl, Stays, tokens
<1> QED BY <1>1, <1>2, GotoFollows, EndFollows, ClaimlessSteps, FollowSession

LEMMA SetExtendedSession == ASSUME Typed, Session, NEW p \in Procs, SetExtended(p) PROVE Session'
<1>1. p \in Actors /\ End(p)
  BY DEF Actors, SetExtended
<1>2. Stays /\ state' = state /\ wbToken' = wbToken
  BY EventsStay DEF SetExtended, Stays, files, tokens
<1> QED BY <1>1, <1>2, EndFollows, FollowSession

LEMMA PollingSession == ASSUME Typed, Session, NEW p \in Procs, Polling(p) PROVE Session'
<1>1. p \in Actors /\ Stays /\ state' = state /\ wbToken' = wbToken
  BY PollingSteps DEF Actors, Stays, files, tokens
<1>2. CASE End(p)
  BY <1>1, <1>2, EndFollows, FollowSession
<1>3. CASE \E pc \in {"check", "look", "attach"} : PollsOn(p, pc)
  <2>1. task'[p].pc \in {"check", "look", "attach"} /\ \A y \in Actors : y # p => task'[y] = task[y]
    BY <1>1, <1>3 DEF PollsOn, Typed, Tasks, Task
  <2>2. Follows(task[p], task'[p])
    BY <2>1 DEF Follows, Modest, Applies, Ready
  <2>3. AllFollow
    BY <2>1, <2>2, SameFollows DEF AllFollow
  <2> QED BY <1>1, <2>3, FollowSession
<1> QED BY <1>2, <1>3, PollingSteps

(* consumeWBSessionState.  The token that is found is the last session's.  *)
LEMMA TakeSession == ASSUME Typed, Session, NEW x \in Actors, Take(x) PROVE Session'
<1>1. /\ state.phase = "captured" /\ task' = [task EXCEPT ![x].pc = "store", ![x].run = state.run]
      /\ UNCHANGED <<state, wbToken, service, latest, happened>>
  BY DEF Take, files, tokens
<1>2. /\ task'[x].pc = "store" /\ task'[x].run = latest
      /\ \A y \in Actors : y # x => task'[y] = task[y]
  BY <1>1 DEF Typed, Tasks, Task, Session
<1>3. ASSUME NEW y \in Actors PROVE Claims(y)'
  <2>1. CASE y = x
    BY <1>1, <1>2, <2>1 DEF Claims, Ready
  <2>2. CASE y # x
    BY <1>1, <1>2, <2>2, SessionClaims DEF Claims
  <2> QED BY <2>1, <2>2
<1> QED BY <1>1, <1>3 DEF Session, Claims

LEMMA StoreTokenSession == ASSUME Typed, Session, NEW x \in Actors, StoreToken(x) PROVE Session'
<1>1. /\ task[x].pc = "store" /\ Holds(task[x]) /\ task \in [Actors -> Task]
      /\ state.phase = "captured" /\ task[x].run = latest /\ Stays
  BY EventsStay DEF StoreToken, At, Holds, Session, Stays, Typed, Tasks
<1>2. CASE wbToken' = task[x].run /\ Goto(x, "secure") /\ UNCHANGED state
  <2>1. /\ task'[x].pc = "secure" /\ task'[x].run = latest
        /\ \A y \in Actors : y # x => task'[y] = task[y]
    BY <1>1, <1>2 DEF Goto, Typed, Tasks, Task
  <2>2. UNCHANGED <<state, service, latest>>
    BY <1>2 DEF StoreToken
  <2>3. ASSUME NEW y \in Actors PROVE Claims(y)'
    <3>1. CASE y = x
      BY <1>1, <1>2, <2>1, <2>2, <3>1 DEF Claims, Ready
    <3>2. CASE y # x
      <4>1. ~Holds(task[y])
        BY <1>1, <3>2 DEF Typed, Mutex
      <4> QED BY <2>1, <2>2, <3>2, <4>1, SessionClaims DEF Claims, Holds
    <3> QED BY <3>1, <3>2
  <2> QED BY <1>1, <2>2, <2>3 DEF Session, Claims
<1>3. CASE state' = [state EXCEPT !.phase = "error"] /\ Proceed(x, "error")
  <2>1. AllFollow /\ task'[x].pc \notin {"store", "secure"}
    BY <1>3, ProceedFollows
  <2>2. NoToken'
    BY <1>1, <2>1, FreeOfTokens DEF AllModest, AllFollow, Follows
  <2>3. state'.phase = "error"
    BY <1>3 DEF Typed, Files
  <2> QED BY <1>1, <2>1, <2>2, <2>3, FollowSession
<1>4. CASE UNCHANGED state /\ wbToken' \in {wbToken, task[x].run} /\ Proceed(x, "error")
  <2>1. AllFollow /\ task'[x].pc \notin {"store", "secure"}
    BY <1>4, ProceedFollows
  <2>2. NoToken'
    BY <1>1, <2>1, FreeOfTokens DEF AllModest, AllFollow, Follows
  <2>3. UNCHANGED <<state, service, latest>> /\ AllModest
    BY <1>4, <2>1 DEF StoreToken, AllModest, AllFollow, Follows
  <2>4. \A y \in Actors : Claims(y)'
    <3> SUFFICES ASSUME NEW y \in Actors PROVE Claims(y)'
      OBVIOUS
    <3>1. Modest(task[y], task'[y]) /\ Claims(y) /\ task'[y].pc \notin {"store", "secure"}
      BY <2>2, <2>3, SessionClaims DEF AllModest, NoToken
    <3> QED BY <2>3, <3>1 DEF Claims, Modest
  <2> QED BY <1>1, <2>3, <2>4 DEF Session, Claims
<1> QED BY <1>2, <1>3, <1>4 DEF StoreToken

(* From now on the file tells of the session whose token is stored; an     *)
(* earlier session whose token is still applied is an event.               *)
LEMMA SecureSession == ASSUME Typed, Session, NEW x \in Actors, Secure(x) PROVE Session'
<1>1. /\ task[x].pc = "secure" /\ Holds(task[x]) /\ task \in [Actors -> Task]
      /\ state.phase = "captured" /\ task[x].run = latest /\ wbToken = latest
  BY DEF Secure, At, Holds, Session, Typed, Tasks
<1>2. UNCHANGED <<wbToken, service, latest>>
  BY DEF Secure, tokens
<1>3. CASE /\ state' = [phase |-> "applying", run |-> task[x].run] /\ Goto(x, "apply")
           /\ happened' = happened \cup
                (IF \E y \in Actors : task[y].pc \in {"apply", "report"} THEN {"two applying"} ELSE {})
  <2>1. /\ task'[x].pc = "apply" /\ task'[x].run = latest
        /\ \A y \in Actors : y # x => task'[y] = task[y]
    BY <1>1, <1>3 DEF Goto, Typed, Tasks, Task
  <2>2. Modest(task[x], task'[x])
    BY <2>1 DEF Modest, Ready
  <2>3. AllModest
    BY <2>1, <2>2, SameFollows DEF AllModest, Follows
  <2>4. NoToken'
    BY <1>1, <2>1, <2>3, FreeOfTokens
  <2>5. state'.phase = "applying" /\ state'.run = latest'
    BY <1>1, <1>2, <1>3
  <2>6. \A y \in Actors : Claims(y)'
    BY <1>2, <1>3, <2>3, <2>4, <2>5, ModestClaims DEF Stays
  <2>7. ASSUME Without({"two applying"})' PROVE \A y \in Actors : task'[y].pc \in {"apply", "report"} => task'[y].run = latest'
    <3>1. \A y \in Actors : task[y].pc \notin {"apply", "report"}
      BY <1>3, <2>7 DEF Without
    <3> QED BY <1>2, <2>1, <3>1
  <2>8. service'.pc # "off" => service'.run = latest'
    BY <1>2 DEF Session
  <2> QED BY <1>1, <1>2, <2>5, <2>6, <2>7, <2>8 DEF Session, Claims
<1>4. CASE UNCHANGED state /\ Proceed(x, "applying") /\ Fault
  BY <1>2, <1>4, ProceedFollows, EventsStay, FollowSession DEF Stays
<1> QED BY <1>3, <1>4 DEF Secure

LEMMA ApplySession == ASSUME Typed, Session, NEW x \in Actors, Apply(x) PROVE Session'
<1>1. /\ task[x].pc = "apply" /\ task'[x].pc = "report" /\ task'[x].run = task[x].run
      /\ \A y \in Actors : y # x => task'[y] = task[y]
  BY DEF Apply, At, Goto, Typed, Tasks, Task
<1>2. Follows(task[x], task'[x])
  BY <1>1 DEF Follows, Modest, Applies, Ready
<1>3. AllFollow
  BY <1>1, <1>2, SameFollows DEF AllFollow
<1> QED BY <1>3, FollowSession DEF Apply, Stays, files

(* A success is written over nothing but the state of that session.        *)
LEMMA ReportSession == ASSUME Typed, Session, NEW x \in Actors, Report(x) PROVE Session'
<1>1. /\ task[x].pc = "report" /\ stateMu = Nil /\ Stays
      /\ UNCHANGED <<wbToken, service, latest>>
  BY EventsStay DEF Report, At, Stays, tokens
<1>2. AllFollow
  BY ProceedFollows DEF Report
<1>3. CASE state' = state
  BY <1>1, <1>2, <1>3, FollowSession
<1>4. CASE state.phase = "applying" /\ state' = [phase |-> "success", run |-> task[x].run]
  <2>1. NoToken'
    BY <1>1, <1>2, FreeOfTokens DEF AllModest, AllFollow, Follows
  <2>2. \A y \in Actors : Claims(y)'
    BY <1>1, <1>2, <1>4, <2>1, ModestClaims DEF AllModest, AllFollow, Follows
  <2>3. Without({"two applying"})' => state'.run = latest' /\ wbToken' = latest'
    BY <1>1, <1>4 DEF Session, Without, Stays
  <2>4. service'.pc # "off" => service'.run = latest'
    BY <1>1 DEF Session
  <2> QED BY <1>4, <2>2, <2>3, <2>4 DEF Session, Claims
<1> QED BY <1>3, <1>4 DEF Report

(* monitorWBSession.                                                       *)
LEMMA MonitorSession == ASSUME Typed, Session, Stopped', NEW r \in Runs, Monitor(r) PROVE Session'
<1>0. r \in Actors
  BY DEF Actors
<1>1. CASE Look(r)
  BY <1>0, <1>1, GotoFollows, ClaimlessSteps, FollowSession DEF Look, Stays, files, tokens
<1>2. CASE MonitorKill(r)
  BY <1>0, <1>2, NotStopped, GotoFollows, ClaimlessSteps, FollowSession
  DEF MonitorKill, Stays, files, tokens, Off, NoFault
<1>3. CASE Mark(r)
  <2>1. AllFollow
    BY <1>0, <1>3, GotoFollows, ClaimlessSteps DEF Mark
  <2>2. NoToken'
    BY <1>3, <2>1, FreeOfTokens DEF Mark, AllModest, AllFollow, Follows
  <2>3. state'.phase = "error" \/ state' = state
    BY <1>3 DEF Mark, Typed, Files
  <2>4. Stays /\ wbToken' = wbToken
    BY <1>3, EventsStay DEF Mark, Stays, tokens
  <2> QED BY <2>1, <2>2, <2>3, <2>4, FollowSession
<1>4. CASE Leave(r)
  BY <1>0, <1>4, GotoFollows, EndFollows, ClaimlessSteps, FollowSession DEF Leave, Stays, files, tokens
<1>5. CASE Cleanup(r)
  BY <1>0, <1>5, EndFollows, FollowSession DEF Cleanup, Stays, tokens
<1> QED BY <1>1, <1>2, <1>3, <1>4, <1>5 DEF Monitor

(* The unit writes its own session's state; it runs alone.                 *)
LEMMA OutsideSession ==
  ASSUME Typed, Session, Worker \/ LogIn \/ WorkerDies \/ Tick \/ UNCHANGED vars
  PROVE  Session'
<1>1. UNCHANGED <<task, latest, wbToken>>
  BY DEF Worker, WorkerBoots, LoginExpires, WorkerEnds, LogIn, WorkerDies, Tick, vars, tokens
<1>2. AllFollow
  BY <1>1, SameFollows DEF AllFollow
<1>3. Stays /\ (state' = state \/ (service.pc # "off" /\
        \E phase \in {"busy", "error", "captured"} :
          Writes(phase) /\ (phase = "captured" => service'.pc = "off")))
  <2>1. CASE WorkerBoots
    <3>1. service.pc # "off" /\ latest' = latest /\ happened' = happened
      BY <2>1 DEF WorkerBoots
    <3>2. CASE job = 0
      <4>1. service' = Off /\ state' = state
        BY <2>1, <3>2 DEF WorkerBoots
      <4> QED BY <3>1, <4>1 DEF Stays, Off
    <3>3. CASE job # 0
      <4>1. service' = [service EXCEPT !.pc = "login", !.deadline = job] /\ Writes("busy")
        BY <2>1, <3>3 DEF WorkerBoots
      <4>2. service'.run = service.run
        BY <4>1 DEF Typed, Unit
      <4> QED BY <3>1, <4>1, <4>2 DEF Stays
    <3> QED BY <3>2, <3>3
  <2>2. CASE LoginExpires
    BY <2>2 DEF LoginExpires, Stays, Off
  <2>3. CASE LogIn
    BY <2>3 DEF LogIn, Stays, Typed, Unit
  <2>4. CASE WorkerEnds
    BY <2>4 DEF WorkerEnds, Stays, Off
  <2>5. CASE WorkerDies
    BY <2>5, EventsStay DEF WorkerDies, Stays, Off, files
  <2>6. CASE Tick \/ UNCHANGED vars
    BY <2>6 DEF Tick, vars, Stays, files
  <2> QED BY <2>1, <2>2, <2>3, <2>4, <2>5, <2>6 DEF Worker
<1>4. CASE state' # state
  <2>1. service.pc # "off" /\ Stays /\ state'.phase \in {"busy", "error", "captured"}
        /\ (state'.phase = "captured" => service'.pc = "off" /\ state'.run = service.run)
    BY <1>3, <1>4 DEF Writes
  <2>2. NoToken /\ NoToken' /\ \A x \in Actors : ~Ready(task[x])
    BY <1>1, <2>1 DEF Session, NoToken
  <2>3. CASE state'.phase # "captured"
    BY <1>1, <1>2, <2>1, <2>2, <2>3, FollowSession
  <2>4. CASE state'.phase = "captured"
    <3>1. state'.run = latest' /\ service'.pc = "off"
      BY <1>1, <2>1, <2>4 DEF Session
    <3>2. \A x \in Actors : ~Ready(task'[x]) /\ task'[x].pc \notin {"store", "secure"}
      BY <1>1, <2>2 DEF NoToken
    <3> QED BY <2>4, <3>1, <3>2 DEF Session, Ready
  <2> QED BY <2>3, <2>4
<1> QED BY <1>1, <1>2, <1>3, <1>4, FollowSession

LEMMA CrashSession == ASSUME Typed, Session, Crash PROVE Session'
<1>1. \A y \in Actors : task'[y] = NoTask
  BY DEF Crash
<1>2. AllFollow
  BY <1>1 DEF AllFollow, Follows, Modest, Applies, NoTask, Ready
<1>3. Stays /\ state' = state /\ wbToken' = wbToken
  BY EventsStay DEF Crash, Stays, files, tokens
<1> QED BY <1>2, <1>3, FollowSession

(* What happened stays.                                                    *)
LEMMA NextEvents == Typed /\ [Next]_vars => happened \subseteq happened'
<1> SUFFICES ASSUME Typed, [Next]_vars PROVE happened \subseteq happened'
  OBVIOUS
<1>1. ASSUME NEW x \in Actors, Consume(x) PROVE happened \subseteq happened'
  <2>1. CASE Secure(x)
    BY <2>1, EventsStay DEF Secure
  <2>2. CASE ~Secure(x)
    BY <1>1, <2>2, EventsStay DEF Consume, Take, StoreToken, Apply, Report
  <2> QED BY <2>1, <2>2
<1>2. ASSUME NEW p \in Procs, Starting(p) PROVE happened \subseteq happened'
  <2>1. CASE StartReady(p)
    BY <2>1 DEF StartReady, NoFault
  <2>2. CASE StartJob(p)
    BY <2>2, EventsStay DEF StartJob
  <2>3. CASE ~StartReady(p) /\ ~StartJob(p)
    BY <1>2, <2>3, EventsStay
    DEF Starting, StartLock, StartClean, StartLaunch, StartSave, StartWatch
  <2> QED BY <2>1, <2>2, <2>3
<1>3. ASSUME NEW p \in Procs, Changing(p) \/ Polling(p) PROVE happened \subseteq happened'
  <2>1. CASE Halt(p)
    BY <2>1 DEF Halt
  <2>2. CASE Forget(p)
    BY <2>2, EventsStay DEF Forget
  <2>3. CASE Polling(p)
    BY <2>3, PollingSteps
  <2>4. CASE ~Halt(p) /\ ~Forget(p) /\ ~Polling(p)
    BY <1>3, <2>4, EventsStay
    DEF Changing, Kill, StaysOn, Clean, ReadExpires, WriteControl, SetExtended
  <2> QED BY <2>1, <2>2, <2>3, <2>4
<1>4. ASSUME NEW r \in Runs, Monitor(r) PROVE happened \subseteq happened'
  BY <1>4, EventsStay DEF Monitor, Look, MonitorKill, StaysOn, Mark, Leave, Cleanup
<1>5. ASSUME NEW p \in Procs, Cancel(p) \/ \E kind \in Kinds : Begin(p, kind)
      PROVE  happened \subseteq happened'
  BY <1>5 DEF Cancel, Disturbed, Begin
<1>6. CASE Worker \/ LogIn \/ WorkerDies \/ Crash \/ Tick \/ UNCHANGED vars
  BY <1>6, EventsStay DEF Worker, WorkerBoots, LoginExpires, WorkerEnds, LogIn, WorkerDies, Crash, Tick, vars
<1> QED BY <1>1, <1>2, <1>3, <1>4, <1>5, <1>6 DEF Next, Handle, Watch, Actors

(* Every step, unless a unit could not be stopped.                         *)
LEMMA NextSession == Typed /\ (Stopped => Session) /\ [Next]_vars => (Stopped => Session)'
<1> SUFFICES ASSUME Typed, Stopped => Session, [Next]_vars, Stopped' PROVE Session'
  OBVIOUS
<1>0. Session
  BY NextEvents DEF Stopped, Without
<1>1. ASSUME NEW x \in Actors, Consume(x) PROVE Session'
  BY <1>0, <1>1, TakeSession, StoreTokenSession, SecureSession, ApplySession, ReportSession DEF Consume
<1>2. ASSUME NEW p \in Procs, Starting(p) PROVE Session'
  BY <1>0, <1>2, StartLockSession, StartCleanSession, StartJobSession, StartLaunchSession,
     StartReadySession, StartSaveSession, StartWatchSession DEF Starting
<1>3. ASSUME NEW p \in Procs, Changing(p) PROVE Session'
  BY <1>0, <1>3, HaltSession, KillSession, ForgetSession, CleanSession, ReadExpiresSession,
     WriteControlSession, SetExtendedSession DEF Changing
<1>4. ASSUME NEW p \in Procs, Handle(p) PROVE Session'
  <2>1. p \in Actors
    BY DEF Actors
  <2> QED BY <1>0, <1>1, <1>2, <1>3, <1>4, <2>1, PollingSession DEF Handle
<1>5. ASSUME NEW r \in Runs, Watch(r) PROVE Session'
  <2>1. r \in Actors
    BY DEF Actors
  <2> QED BY <1>0, <1>1, <1>5, <2>1, MonitorSession DEF Watch
<1> QED BY <1>0, <1>4, <1>5, BeginSession, CancelSession, CrashSession, OutsideSession DEF Next

LEMMA InitSession == Init => Session
BY DEF Init, Session, NoState, Off, NoTask, Ready

LEMMA SpecSession == Spec => [](Stopped => Session)
<1>1. Inv => Typed
  BY DEF Inv
<1> QED BY <1>1, SpecInv, InitSession, NextSession, PTL DEF Spec

-----------------------------------------------------------------------------
(* Where the steps of a goroutine lead.                                    *)

Alone(x) == \A y \in Actors : y # x => task'[y] = task[y]
Ends(x) == task'[x] = NoTask /\ Alone(x)
Moves(x, pc) ==
  /\ task'[x].pc = pc /\ task'[x].kind = task[x].kind
  /\ task'[x].gen = task[x].gen /\ task'[x].cancelled = task[x].cancelled
  /\ task[x].kind = "start" => task'[x].run = task[x].run
  /\ pc \notin {"halt", "control"} => task'[x].deadline = task[x].deadline
  /\ Alone(x)

LEMMA EndEnds == ASSUME Typed, NEW x \in Actors, End(x) PROVE Ends(x)
BY DEF End, Ends, Alone, Typed, Tasks

LEMMA GotoMoves ==
  ASSUME Typed, NEW x \in Actors, NEW pc, Goto(x, pc)
  PROVE  Moves(x, pc)
BY DEF Goto, Moves, Alone, Typed, Tasks, Task

LEMMA ProceedMoves ==
  ASSUME Typed, NEW x \in Actors, NEW phase, Proceed(x, phase)
  PROVE  /\ x \in Runs => Moves(x, IF phase \in {"success", "error"} THEN "leave" ELSE "look")
         /\ x \notin Runs => IF phase = "success" THEN Moves(x, "attach") ELSE Ends(x)
BY GotoMoves, EndEnds DEF Proceed

(* A goroutine whose step is known is of a kind that goes through it.      *)
LEMMA KindOf ==
  ASSUME Typed, NEW x \in Actors
  PROVE  /\ task[x].pc \in {"lock", "job", "launch", "ready", "save", "watch"} => task[x].kind = "start"
         /\ task[x].pc = "halt" => task[x].kind \in {"start", "stop", "reset"}
         /\ task[x].pc = "forget" => task[x].kind \in {"stop", "reset"}
         /\ task[x].pc \in {"kill", "clean"} => task[x].kind \in {"start", "stop", "reset", "monitor"}
         /\ task[x].pc \in {"read_expires", "control", "extended"} => task[x].kind = "extend"
         /\ task[x].pc \in {"mark", "leave", "cleanup"} => task[x].kind = "monitor"
         /\ task[x].pc \in {"look", "store", "secure", "apply", "report"} => task[x].kind \in {"poll", "monitor"}
         /\ task[x].pc \in {"peek", "check", "attach"} => task[x].kind = "poll"
         /\ task[x].pc = "idle" <=> task[x].kind = "none"
         /\ x \in Procs => task[x].kind # "monitor"
         /\ x \in Runs => task[x].kind \in {"none", "monitor"}
         /\ task[x].kind = "start" => task[x].run \in Runs
<1>1. Fits(x, task[x])
  BY DEF Typed, Tasks
<1> QED BY <1>1 DEF Fits, Task, Kinds, Waiting, Consuming

(* A goroutine keeps its kind, and a start its session, until it ends.     *)
Keeps(old, new) ==
  new.kind = "none" \/ (new.kind = old.kind /\ (new.kind = "start" => new.run = old.run))

LEMMA MovesKeep ==
  ASSUME NEW x \in Actors, Ends(x) \/ \E pc : Moves(x, pc)
  PROVE  \A y \in Actors : Keeps(task[y], task'[y])
<1>1. Keeps(task[x], task'[x])
  BY DEF Ends, Moves, Keeps, NoTask
<1> QED BY <1>1 DEF Ends, Moves, Alone, Keeps

-----------------------------------------------------------------------------
(* A session has one start, and no monitor before that start is done.      *)

Fresh ==
  /\ \A p \in Procs : task[p].kind = "start" => task[p].run <= Begun
  /\ \A r \in Runs : task[r].kind = "monitor" =>
       r <= Begun /\ \A p \in Procs : task[p].kind = "start" => task[p].run # r
  /\ \A p, q \in Procs : task[p].kind = "start" /\ task[q].kind = "start" /\ p # q =>
       task[p].run # task[q].run

LEMMA KeepsFresh ==
  ASSUME Fresh, \A y \in Actors : Keeps(task[y], task'[y]), left'.starts = left.starts
  PROVE  Fresh'
<1>1. Begun' = Begun /\ Procs \subseteq Actors /\ Runs \subseteq Actors
  BY DEF Begun, Actors
<1>2. \A p \in Procs : task'[p].kind = "start" => task[p].kind = "start" /\ task'[p].run = task[p].run
  BY <1>1 DEF Keeps
<1>3. \A r \in Runs : task'[r].kind = "monitor" => task[r].kind = "monitor"
  BY <1>1 DEF Keeps
<1> QED BY <1>1, <1>2, <1>3 DEF Fresh

LEMMA BeginFresh ==
  ASSUME Typed, Fresh, NEW p \in Procs, NEW kind \in Kinds, Begin(p, kind) PROVE Fresh'
<1>1. p \in Actors /\ Procs \subseteq Actors /\ Runs \subseteq Actors /\ p \notin Runs
  BY ActorAssumption DEF Actors
<1>2. /\ task'[p].kind = kind /\ (kind = "start" => task'[p].run = Begun + 1)
      /\ \A y \in Actors : y # p => task'[y] = task[y]
  BY BeginTasks DEF Begun
<1>3. CASE kind # "start"
  <2>1. \A y \in Actors :
          \/ Keeps(task[y], task'[y])
          \/ (task[y].kind # "start" /\ task'[y].kind \notin {"start", "monitor"})
    BY <1>1, <1>2, <1>3, KindOf DEF Keeps, Begin, At, Kinds
  <2>2. left'.starts = left.starts
    BY <1>3, SpendCounts DEF Begin, Typed, Counts
  <2>3. Begun' = Begun
    BY <2>2 DEF Begun
  <2>4. \A q \in Procs : task'[q].kind = "start" => task[q].kind = "start" /\ task'[q].run = task[q].run
    BY <1>1, <2>1 DEF Keeps
  <2>5. \A r \in Runs : task'[r].kind = "monitor" => task[r].kind = "monitor"
    BY <1>1, <2>1 DEF Keeps
  <2> QED BY <2>3, <2>4, <2>5 DEF Fresh
<1>4. CASE kind = "start"
  <2>1. left'.starts = left.starts - 1 /\ left.starts \in Nat
    BY <1>4, SpendCounts DEF Begin, Typed, Counts, Limits
  <2>2. Begun' = Begun + 1 /\ Begun \in Nat
    BY <2>1, BoundAssumption DEF Begun, Typed, Counts
  <2>3. \A q \in Procs : task'[q].kind = "start" =>
          \/ q = p /\ task'[q].run = Begun + 1
          \/ q # p /\ task[q].kind = "start" /\ task'[q].run = task[q].run /\ task[q].run <= Begun
    BY <1>1, <1>2, <1>4 DEF Fresh
  <2>4. \A r \in Runs : task'[r].kind = "monitor" => task[r].kind = "monitor" /\ r <= Begun
    BY <1>1, <1>2 DEF Fresh
  <2>5. \A q \in Procs : task[q].kind = "start" => task[q].run \in Nat
    BY <1>1, KindOf DEF Runs
  <2>6. \A q \in Procs : task'[q].kind = "start" => task'[q].run <= Begun'
    BY <2>2, <2>3, <2>5
  <2>7. \A r \in Runs : task'[r].kind = "monitor" =>
          r <= Begun' /\ \A q \in Procs : task'[q].kind = "start" => task'[q].run # r
    <3>1. \A r \in Runs : r \in Nat
      BY DEF Runs
    <3> QED BY <2>2, <2>3, <2>4, <3>1 DEF Fresh
  <2>8. \A q, o \in Procs : task'[q].kind = "start" /\ task'[o].kind = "start" /\ q # o =>
          task'[q].run # task'[o].run
    BY <2>2, <2>3, <2>5 DEF Fresh
  <2> QED BY <2>6, <2>7, <2>8 DEF Fresh
<1> QED BY <1>3, <1>4

(* Halt tells the monitor, and watch starts one.                           *)
Told(y, new) ==
  /\ new.kind = task[y].kind /\ new.pc = task[y].pc /\ new.run = task[y].run
  /\ new.gen = task[y].gen /\ new.deadline = task[y].deadline
  /\ new.cancelled <=> (task[y].cancelled \/ (current # 0 /\ y = current))

LEMMA ToldMonitor ==
  ASSUME Typed, NEW told, told = IF current = 0 THEN task ELSE Cancelled(current)
  PROVE  told \in [Actors -> Task] /\ \A y \in Actors : Told(y, told[y])
<1>1. told \in [Actors -> Task]
  BY StoppedMonitor DEF Typed, Counts
<1>2. CASE current = 0
  <2>1. \A y \in Actors : task[y].cancelled \in BOOLEAN
    BY DEF Typed, Tasks, Task
  <2> QED BY <1>1, <1>2, <2>1 DEF Told
<1>3. CASE current # 0
  <2>1. ASSUME NEW y \in Actors PROVE Told(y, told[y])
    <3>1. CASE y = current
      BY <1>3, <2>1, <3>1 DEF Told, Cancelled, Typed, Tasks, Task
    <3>2. CASE y # current
      BY <1>3, <2>1, <3>2 DEF Told, Cancelled, Typed, Tasks, Task
    <3> QED BY <3>1, <3>2
  <2> QED BY <1>1, <2>1
<1> QED BY <1>2, <1>3

LEMMA HaltMoves ==
  ASSUME Typed, NEW p \in Procs, Halt(p)
  PROVE  /\ task'[p].pc = (IF task[p].kind = "stop" THEN "forget" ELSE "kill")
         /\ task'[p].kind = task[p].kind /\ task'[p].run = task[p].run
         /\ (task'[p].cancelled <=> task[p].cancelled) /\ task'[p].deadline = task[p].deadline
         /\ \A y \in Actors : y # p => Told(y, task'[y])
<1>1. PICK told : told = IF current = 0 THEN task ELSE Cancelled(current)
  OBVIOUS
<1>2. PICK pc : /\ pc = (IF task[p].kind = "stop" THEN "forget" ELSE "kill")
                /\ task' = [told EXCEPT ![p].pc = pc]
  BY <1>1 DEF Halt, StopMonitor
<1>3. p \in Actors /\ ~(current # 0 /\ p = current)
  BY ActorAssumption DEF Actors, Typed, Counts
<1>4. told \in [Actors -> Task] /\ \A y \in Actors : Told(y, told[y])
  BY <1>1, ToldMonitor
<1>5. \A y \in Actors : y # p => task'[y] = told[y]
  BY <1>2, <1>4
<1>6. task'[p] = [told[p] EXCEPT !.pc = pc]
  BY <1>2, <1>3, <1>4
<1>7. told[p] \in Task /\ Told(p, told[p])
  BY <1>3, <1>4
<1>8. /\ task'[p].pc = pc /\ task'[p].kind = told[p].kind /\ task'[p].run = told[p].run
      /\ task'[p].cancelled = told[p].cancelled /\ task'[p].deadline = told[p].deadline
  BY <1>6, <1>7 DEF Task
<1>9. told[p].cancelled <=> task[p].cancelled
  BY <1>3, <1>7 DEF Told, Typed, Tasks, Task
<1> QED BY <1>2, <1>4, <1>5, <1>7, <1>8, <1>9 DEF Told

LEMMA StartWatchMoves ==
  ASSUME Typed, NEW p \in Procs, StartWatch(p)
  PROVE  \E r \in Runs :
           /\ r = task[p].run /\ r # p /\ current' = r /\ task[p].kind = "start"
           /\ task'[p] = NoTask
           /\ task'[r].kind = "monitor" /\ task'[r].pc = "look" /\ task'[r].gen = generation + 1
           /\ ~task'[r].cancelled
           /\ \A y \in Actors : y # p /\ y # r => Told(y, task'[y])
<1>1. PICK told : told = IF current = 0 THEN task ELSE Cancelled(current)
  OBVIOUS
<1>2. p \in Actors /\ task[p].kind = "start" /\ task[p].run \in Runs
  BY KindOf DEF Actors, StartWatch, At
<1>3. PICK r \in Runs : r = task[p].run
  BY <1>2
<1>4. r \in Actors /\ r # p
  BY ActorAssumption DEF Actors
<1>5. PICK t : t = [NoTask EXCEPT !.kind = "monitor", !.pc = "look", !.gen = generation']
  OBVIOUS
<1>6. /\ task' = [told EXCEPT ![p] = NoTask, ![r] = t]
      /\ current' = r /\ generation' = generation + 1
  BY <1>1, <1>3, <1>5 DEF StartWatch
<1>7. told \in [Actors -> Task] /\ \A y \in Actors : Told(y, told[y])
  BY <1>1, ToldMonitor
<1>8. task'[p] = NoTask /\ task'[r] = t /\ \A y \in Actors : y # p /\ y # r => task'[y] = told[y]
  BY <1>2, <1>4, <1>6, <1>7
<1>9. t.kind = "monitor" /\ t.pc = "look" /\ t.gen = generation + 1 /\ ~t.cancelled
  BY <1>5, <1>6 DEF NoTask
<1> QED BY <1>2, <1>3, <1>4, <1>6, <1>7, <1>8, <1>9

LEMMA StartWatchFresh == ASSUME Typed, Fresh, NEW p \in Procs, StartWatch(p) PROVE Fresh'
<1>1. PICK r \in Runs :
        /\ r = task[p].run /\ r # p /\ task[p].kind = "start" /\ task'[p] = NoTask
        /\ task'[r].kind = "monitor"
        /\ \A y \in Actors : y # p /\ y # r => Told(y, task'[y])
  BY StartWatchMoves
<1>2. Begun' = Begun /\ Procs \subseteq Actors /\ Runs \subseteq Actors /\ r \notin Procs
  BY ActorAssumption DEF StartWatch, Begun, Actors
<1>3. \A q \in Procs : task'[q].kind = "start" =>
        q # p /\ task[q].kind = "start" /\ task'[q].run = task[q].run
  BY <1>1, <1>2 DEF Told, NoTask
<1>4. \A m \in Runs : task'[m].kind = "monitor" => m = r \/ task[m].kind = "monitor"
  BY <1>1, <1>2, ActorAssumption DEF Told
<1>5. \A q \in Procs : task'[q].kind = "start" => task'[q].run # r
  BY <1>1, <1>3 DEF Fresh
<1>6. r <= Begun
  BY <1>1 DEF Fresh
<1> QED BY <1>2, <1>3, <1>4, <1>5, <1>6 DEF Fresh

(* The steps of each handler.                                              *)
LEMMA StartingMoves ==
  ASSUME Typed, NEW p \in Procs
  PROVE  /\ StartLock(p) => Ends(p) \/ (Moves(p, "halt") /\ task'[p].deadline = clock + Length)
         /\ StartClean(p) => Ends(p) \/ Moves(p, "job")
         /\ StartJob(p) => Ends(p) \/ Moves(p, "launch")
         /\ StartLaunch(p) => Ends(p) \/ Moves(p, "ready")
         /\ StartReady(p) => Ends(p) \/ Moves(p, "save")
         /\ StartSave(p) => Moves(p, "watch")
<1>1. p \in Actors
  BY DEF Actors
<1>2. StartLock(p) => Ends(p) \/ (Moves(p, "halt") /\ task'[p].deadline = clock + Length)
  <2> SUFFICES ASSUME StartLock(p), ~End(p)
               PROVE  Moves(p, "halt") /\ task'[p].deadline = clock + Length
    BY <1>1, EndEnds
  <2>1. task' = [task EXCEPT ![p].pc = "halt", ![p].deadline = clock + Length]
    BY DEF StartLock
  <2> QED BY <1>1, <2>1 DEF Moves, Alone, Typed, Tasks, Task
<1>3. StartClean(p) => Ends(p) \/ Moves(p, "job")
  BY <1>1, EndEnds, GotoMoves DEF StartClean
<1>4. StartJob(p) => Ends(p) \/ Moves(p, "launch")
  BY <1>1, EndEnds, GotoMoves DEF StartJob
<1>5. StartLaunch(p) => Ends(p) \/ Moves(p, "ready")
  BY <1>1, EndEnds, GotoMoves DEF StartLaunch
<1>6. StartReady(p) => Ends(p) \/ Moves(p, "save")
  BY <1>1, EndEnds, GotoMoves DEF StartReady
<1>7. StartSave(p) => Moves(p, "watch")
  BY <1>1, EndEnds, GotoMoves DEF StartSave
<1> QED BY <1>2, <1>3, <1>4, <1>5, <1>6, <1>7

LEMMA ChangingMoves ==
  ASSUME Typed, NEW p \in Procs
  PROVE  /\ Kill(p) => Moves(p, "clean")
         /\ Forget(p) => IF task[p].kind = "stop" THEN Moves(p, "kill") ELSE Ends(p)
         /\ Clean(p) => IF task[p].kind = "stop" THEN Ends(p) ELSE Moves(p, "forget")
         /\ ReadExpires(p) =>
              Ends(p) \/ (Moves(p, "control") /\ task'[p].deadline = expires + Length)
         /\ WriteControl(p) => Ends(p) \/ Moves(p, "extended")
         /\ SetExtended(p) => Ends(p)
         /\ Polling(p) => Ends(p) \/ \E pc \in {"check", "look", "attach"} : Moves(p, pc)
<1>1. p \in Actors
  BY DEF Actors
<1>2. Kill(p) => Moves(p, "clean")
  BY <1>1, GotoMoves DEF Kill
<1>3. Forget(p) => IF task[p].kind = "stop" THEN Moves(p, "kill") ELSE Ends(p)
  BY <1>1, EndEnds, GotoMoves DEF Forget
<1>4. Clean(p) => IF task[p].kind = "stop" THEN Ends(p) ELSE Moves(p, "forget")
  BY <1>1, EndEnds, GotoMoves DEF Clean
<1>5. ReadExpires(p) => Ends(p) \/ (Moves(p, "control") /\ task'[p].deadline = expires + Length)
  <2> SUFFICES ASSUME ReadExpires(p), ~End(p)
               PROVE  Moves(p, "control") /\ task'[p].deadline = expires + Length
    BY <1>1, EndEnds
  <2>1. task' = [task EXCEPT ![p].pc = "control", ![p].deadline = expires + Length]
    BY DEF ReadExpires
  <2> QED BY <1>1, <2>1 DEF Moves, Alone, Typed, Tasks, Task
<1>6. WriteControl(p) => Ends(p) \/ Moves(p, "extended")
  BY <1>1, EndEnds, GotoMoves DEF WriteControl
<1>7. SetExtended(p) => Ends(p)
  BY <1>1, EndEnds DEF SetExtended
<1>8. Polling(p) => Ends(p) \/ \E pc \in {"check", "look", "attach"} : Moves(p, pc)
  <2>1. ASSUME NEW pc \in {"check", "look", "attach"}, PollsOn(p, pc) PROVE Moves(p, pc)
    BY <1>1, <2>1 DEF PollsOn, Moves, Alone, Typed, Tasks, Task
  <2> QED BY <1>1, <2>1, PollingSteps, EndEnds
<1> QED BY <1>2, <1>3, <1>4, <1>5, <1>6, <1>7, <1>8

(* What the caller of consumeWBSessionState does with the phase.           *)
Answers(x, phase) ==
  /\ x \in Runs => Moves(x, IF phase \in {"success", "error"} THEN "leave" ELSE "look")
  /\ x \notin Runs => IF phase = "success" THEN Moves(x, "attach") ELSE Ends(x)

LEMMA ConsumeMoves ==
  ASSUME Typed, NEW x \in Actors
  PROVE  /\ Take(x) => Moves(x, "store")
         /\ StoreToken(x) => Moves(x, "secure") \/ Answers(x, "error")
         /\ Secure(x) => Moves(x, "apply") \/ Answers(x, "applying")
         /\ Apply(x) => Moves(x, "report")
         /\ Report(x) => Answers(x, "success")
<1>1. Take(x) => Moves(x, "store")
  <2> SUFFICES ASSUME Take(x) PROVE Moves(x, "store")
    OBVIOUS
  <2>1. task' = [task EXCEPT ![x].pc = "store", ![x].run = state.run] /\ task[x].kind # "start"
    BY KindOf DEF Take, At
  <2> QED BY <2>1 DEF Moves, Alone, Typed, Tasks, Task
<1>2. StoreToken(x) => Moves(x, "secure") \/ Answers(x, "error")
  BY GotoMoves, ProceedMoves DEF StoreToken, Answers
<1>3. Secure(x) => Moves(x, "apply") \/ Answers(x, "applying")
  BY GotoMoves, ProceedMoves DEF Secure, Answers
<1>4. Apply(x) => Moves(x, "report")
  BY GotoMoves DEF Apply
<1>5. Report(x) => Answers(x, "success")
  BY ProceedMoves DEF Report, Answers
<1> QED BY <1>1, <1>2, <1>3, <1>4, <1>5

LEMMA MonitorMoves ==
  ASSUME Typed, NEW r \in Runs
  PROVE  /\ Look(r) => Moves(r, "leave") \/ Moves(r, "kill")
         /\ MonitorKill(r) => Moves(r, "mark")
         /\ Mark(r) => Moves(r, "leave")
         /\ Leave(r) => IF generation = task[r].gen THEN Moves(r, "cleanup") ELSE Ends(r)
         /\ Cleanup(r) => Ends(r)
<1>1. r \in Actors
  BY DEF Actors
<1>2. Look(r) => Moves(r, "leave") \/ Moves(r, "kill")
  BY <1>1, GotoMoves DEF Look
<1>3. MonitorKill(r) => Moves(r, "mark")
  BY <1>1, GotoMoves DEF MonitorKill
<1>4. Mark(r) => Moves(r, "leave")
  BY <1>1, GotoMoves DEF Mark
<1>5. Leave(r) => IF generation = task[r].gen THEN Moves(r, "cleanup") ELSE Ends(r)
  BY <1>1, EndEnds, GotoMoves DEF Leave
<1>6. Cleanup(r) => Ends(r)
  BY <1>1, EndEnds DEF Cleanup
<1> QED BY <1>2, <1>3, <1>4, <1>5, <1>6

(* Only a request begins a session.                                        *)
LEMMA StartsStay ==
  ASSUME Typed, left' = left \/ Fault \/ NoFault \/ Spend("faults") \/ \E e \in Events : Disturbed(e)
  PROVE  left'.starts = left.starts
BY SpendCounts DEF Typed, Counts, Fault, NoFault, Disturbed, Events

LEMMA NextFresh == Typed /\ Fresh /\ [Next]_vars => Fresh'
<1> SUFFICES ASSUME Typed, Fresh, [Next]_vars PROVE Fresh'
  OBVIOUS
<1>1. ASSUME NEW x \in Actors, Consume(x) PROVE Fresh'
  <2>1. left'.starts = left.starts
    <3>1. CASE StoreToken(x)
      BY <3>1, StartsStay DEF StoreToken, Events
    <3>2. CASE ~StoreToken(x)
      BY <1>1, <3>2, StartsStay DEF Consume, Take, Secure, Apply, Report, NoFault
    <3> QED BY <3>1, <3>2
  <2>2. Ends(x) \/ \E pc : Moves(x, pc)
    BY <1>1, ConsumeMoves DEF Consume, Answers
  <2> QED BY <2>1, <2>2, MovesKeep, KeepsFresh
<1>2. ASSUME NEW p \in Procs, Starting(p), ~StartWatch(p) PROVE Fresh'
  <2>1. left'.starts = left.starts
    BY <1>2, StartsStay
    DEF Starting, StartLock, StartClean, StartJob, StartLaunch, StartReady, StartSave, NoFault
  <2>2. (Ends(p) \/ \E pc : Moves(p, pc)) /\ p \in Actors
    BY <1>2, StartingMoves DEF Starting, Actors
  <2> QED BY <2>1, <2>2, MovesKeep, KeepsFresh
<1>3. ASSUME NEW p \in Procs, Changing(p) \/ Polling(p), ~Halt(p) PROVE Fresh'
  <2>1. left'.starts = left.starts
    BY <1>3, StartsStay, PollingSteps
    DEF Changing, Kill, StaysOn, Events, Forget, Clean, ReadExpires, WriteControl, SetExtended, NoFault
  <2>2. (Ends(p) \/ \E pc : Moves(p, pc)) /\ p \in Actors
    BY <1>3, ChangingMoves DEF Changing, Actors
  <2> QED BY <2>1, <2>2, MovesKeep, KeepsFresh
<1>4. ASSUME NEW p \in Procs, Halt(p) PROVE Fresh'
  <2>1. \A y \in Actors : Keeps(task[y], task'[y])
    BY <1>4, HaltMoves DEF Keeps, Told
  <2> QED BY <1>4, <2>1, KeepsFresh DEF Halt
<1>5. ASSUME NEW r \in Runs, Monitor(r) PROVE Fresh'
  <2>1. left'.starts = left.starts
    BY <1>5, StartsStay DEF Monitor, Look, MonitorKill, StaysOn, Mark, Leave, Cleanup, Events
  <2>2. (Ends(r) \/ \E pc : Moves(r, pc)) /\ r \in Actors
    BY <1>5, MonitorMoves DEF Monitor, Actors
  <2> QED BY <2>1, <2>2, MovesKeep, KeepsFresh
<1>6. ASSUME NEW p \in Procs, Cancel(p) PROVE Fresh'
  <2>1. left'.starts = left.starts
    BY <1>6, StartsStay DEF Cancel, Events
  <2>2. \A y \in Actors : Keeps(task[y], task'[y])
    BY <1>6 DEF Cancel, Cancelled, Keeps, Typed, Tasks, Task, Actors
  <2> QED BY <2>1, <2>2, KeepsFresh
<1>7. CASE Crash
  <2>1. left'.starts = left.starts
    BY <1>7, StartsStay DEF Crash, Events
  <2>2. \A y \in Actors : Keeps(task[y], task'[y])
    BY <1>7 DEF Crash, Keeps, NoTask
  <2> QED BY <2>1, <2>2, KeepsFresh
<1>8. CASE Worker \/ LogIn \/ WorkerDies \/ Tick \/ UNCHANGED vars
  <2>1. left'.starts = left.starts
    BY <1>8, StartsStay
    DEF Worker, WorkerBoots, LoginExpires, WorkerEnds, LogIn, WorkerDies, Tick, vars
  <2>2. \A y \in Actors : Keeps(task[y], task'[y])
    BY <1>8 DEF Worker, WorkerBoots, LoginExpires, WorkerEnds, LogIn, WorkerDies, Tick, vars, Keeps
  <2> QED BY <2>1, <2>2, KeepsFresh
<1>9. ASSUME NEW p \in Procs, Handle(p) PROVE Fresh'
  <2>1. p \in Actors
    BY DEF Actors
  <2> QED BY <1>1, <1>2, <1>3, <1>4, <1>9, <2>1, StartWatchFresh DEF Handle, Starting, Changing
<1>10. ASSUME NEW r \in Runs, Watch(r) PROVE Fresh'
  <2>1. r \in Actors
    BY DEF Actors
  <2> QED BY <1>1, <1>5, <1>10, <2>1 DEF Watch
<1> QED BY <1>6, <1>7, <1>8, <1>9, <1>10, BeginFresh DEF Next

-----------------------------------------------------------------------------
(* What a poll answers.  A poll that holds a success, read from the file   *)
(* or its own, holds that of the last session, and the setting its token.  *)

Fine == Without({"two applying", "unstopped", "overtaken"})
Owed(t) == t.kind = "poll" /\ t.run # 0 /\ t.pc \in {"check", "apply", "report", "attach"}

Shown ==
  Fine =>
    /\ shown.run # 0 => shown.run = shown.last /\ shown.token \in {0, shown.run}
    /\ \A p \in Procs : Owed(task[p]) => task[p].run = latest /\ wbToken = latest

(* Nobody gets a success.                                                  *)
LEMMA OthersShown ==
  ASSUME Shown, happened \subseteq happened', UNCHANGED <<latest, shown>>,
         wbToken' \in {wbToken, latest},
         \A q \in Procs : Owed(task'[q]) => Owed(task[q]) /\ task'[q].run = task[q].run
  PROVE  Shown'
<1>1. Fine' => Fine
  BY DEF Fine, Without
<1> QED BY <1>1 DEF Shown

(* A poll gets one.                                                        *)
LEMMA OneShown ==
  ASSUME Shown, happened \subseteq happened', UNCHANGED <<latest, shown, wbToken>>,
         NEW p \in Procs, \A q \in Procs : q # p => task'[q] = task[q],
         Fine /\ Owed(task'[p]) => task'[p].run = latest /\ wbToken = latest
  PROVE  Shown'
<1>1. Fine' => Fine
  BY DEF Fine, Without
<1> QED BY <1>1 DEF Shown

(* A goroutine that is no poll, or ends, holds none.                       *)
LEMMA MovesOwed ==
  ASSUME NEW x \in Actors,
         Ends(x) \/ \E pc : Moves(x, pc) /\ (task[x].kind # "poll" \/ x \notin Procs \/
                                             pc \notin {"check", "apply", "report", "attach"})
  PROVE  \A q \in Procs : Owed(task'[q]) => Owed(task[q]) /\ task'[q].run = task[q].run
<1> SUFFICES ASSUME NEW q \in Procs, Owed(task'[q])
             PROVE  Owed(task[q]) /\ task'[q].run = task[q].run
  OBVIOUS
<1>1. q \in Actors
  BY DEF Actors
<1>2. CASE q = x
  BY <1>2 DEF Ends, Moves, NoTask, Owed
<1>3. CASE q # x
  BY <1>1, <1>3 DEF Ends, Moves, Alone
<1> QED BY <1>2, <1>3

LEMMA ToldOwed ==
  ASSUME NEW q \in Actors, Told(q, task'[q])
  PROVE  Owed(task'[q]) => Owed(task[q]) /\ task'[q].run = task[q].run
BY DEF Told, Owed

LEMMA ConsumeShown ==
  ASSUME Typed, Session, Shown, happened \subseteq happened', NEW x \in Actors, Consume(x)
  PROVE  Shown'
<1>1. UNCHANGED <<latest, shown>>
  BY DEF Consume, Take, StoreToken, Secure, Apply, Report
<1>2. CASE Take(x)
  <2>1. Moves(x, "store") /\ wbToken' = wbToken
    BY <1>2, ConsumeMoves DEF Take, tokens
  <2> QED BY <1>1, <2>1, MovesOwed, OthersShown
<1>3. CASE StoreToken(x)
  <2>1. task[x].run = latest
    BY <1>3 DEF StoreToken, At, Session
  <2>2. wbToken' \in {wbToken, latest}
    BY <1>3, <2>1 DEF StoreToken
  <2>3. \/ Moves(x, "secure") \/ (x \notin Runs /\ Ends(x))
        \/ x \notin Procs /\ \E pc : Moves(x, pc)
    BY <1>3, ConsumeMoves, ActorAssumption DEF Answers
  <2> QED BY <1>1, <2>2, <2>3, MovesOwed, OthersShown
<1>4. CASE Secure(x)
  <2>1. task[x].run = latest /\ wbToken = latest /\ wbToken' = wbToken
    BY <1>4 DEF Secure, At, Session, tokens
  <2>2. CASE Goto(x, "apply")
    <3>1. task'[x].run = latest /\ Alone(x)
      BY <2>1, <2>2 DEF Goto, Alone, Typed, Tasks, Task
    <3>2. CASE x \in Procs
      BY <1>1, <2>1, <3>1, <3>2, OneShown DEF Alone, Actors
    <3>3. CASE x \notin Procs
      BY <1>1, <2>1, <3>1, <3>3, OthersShown DEF Alone, Actors
    <3> QED BY <3>2, <3>3
  <2>3. CASE Proceed(x, "applying")
    <3>1. Ends(x) \/ (x \notin Procs /\ \E pc : Moves(x, pc))
      BY <2>3, ProceedMoves, ActorAssumption
    <3> QED BY <1>1, <2>1, <3>1, MovesOwed, OthersShown
  <2> QED BY <1>4, <2>2, <2>3 DEF Secure
<1>5. CASE Apply(x) \/ Report(x)
  <2>1. /\ task[x].pc \in {"apply", "report"} /\ wbToken' = wbToken
        /\ \/ \E pc : Goto(x, pc)
           \/ End(x)
    BY <1>5 DEF Apply, Report, Proceed, At, tokens
  <2>2. /\ \A y \in Actors : y # x => task'[y] = task[y]
        /\ task'[x] = NoTask \/ (task'[x].run = task[x].run /\ task'[x].kind = task[x].kind)
    BY <2>1 DEF Goto, End, Typed, Tasks, Task
  <2>3. \A q \in Procs : Owed(task'[q]) => Owed(task[q]) /\ task'[q].run = task[q].run
    BY <2>1, <2>2 DEF Owed, NoTask, Actors
  <2> QED BY <1>1, <2>1, <2>3, OthersShown
<1> QED BY <1>2, <1>3, <1>4, <1>5 DEF Consume

LEMMA PollingShown ==
  ASSUME Typed, Session, Shown, happened \subseteq happened', NEW p \in Procs, Polling(p)
  PROVE  Shown'
<1>0. /\ p \in Actors /\ task \in [Actors -> Task] /\ task[p].kind = "poll"
      /\ UNCHANGED <<latest, wbToken>>
  BY PollingSteps DEF Typed, Tasks, Actors, tokens
<1>1. Fine /\ Succeeded # 0 => Succeeded = latest /\ wbToken = latest
  BY DEF Session, Succeeded, Fine, Without
<1>2. CASE PollPeek(p)
  <2>1. task'[p].run = Succeeded /\ \A y \in Actors : y # p => task'[y] = task[y]
    BY <1>0, <1>2 DEF PollPeek, Task
  <2> QED BY <1>0, <1>1, <1>2, <2>1, OneShown DEF PollPeek, Owed, Actors
<1>3. CASE PollInVain(p)
  <2>1. /\ \A y \in Actors : y # p => task'[y] = task[y]
        /\ task'[p] = NoTask \/ task'[p].run = Succeeded
    BY <1>0, <1>3 DEF PollInVain, End, Task
  <2> QED BY <1>0, <1>1, <1>3, <2>1, OneShown DEF PollInVain, Owed, Actors, NoTask
<1>4. CASE PollCheck(p)
  <2>1. /\ \A y \in Actors : y # p => task'[y] = task[y]
        /\ \/ task'[p].run = 0 \/ task'[p] = NoTask
           \/ task[p].pc = "check" /\ task'[p].run = task[p].run
    BY <1>0, <1>4 DEF PollCheck, Goto, End, At, Task
  <2>2. \A q \in Procs : Owed(task'[q]) => Owed(task[q]) /\ task'[q].run = task[q].run
    BY <1>0, <2>1 DEF Owed, NoTask, Actors
  <2> QED BY <1>0, <1>4, <2>2, OthersShown DEF PollCheck
<1>5. CASE PollAttach(p)
  <2>1. \A q \in Procs : Owed(task'[q]) => Owed(task[q]) /\ task'[q].run = task[q].run
    BY <1>0, <1>5, EndEnds, MovesOwed DEF PollAttach
  <2>2. PICK token \in {0, wbToken} : shown' = [run |-> task[p].run, token |-> token, last |-> latest]
    BY <1>5 DEF PollAttach
  <2>3. Fine /\ task[p].run # 0 => task[p].run = latest /\ wbToken = latest
    BY <1>0, <1>5 DEF PollAttach, At, Shown, Owed
  <2>4. Fine' => Fine
    BY DEF Fine, Without
  <2> QED BY <1>0, <2>1, <2>2, <2>3, <2>4 DEF Shown
<1> QED BY <1>2, <1>3, <1>4, <1>5 DEF Polling

(* A new session is an event when a poll holds a success.                  *)
LEMMA StartJobShown ==
  ASSUME Typed, Shown, happened \subseteq happened', NEW p \in Procs, StartJob(p)
  PROVE  Shown'
<1>1. p \in Actors /\ task[p].kind = "start" /\ UNCHANGED <<wbToken, shown>>
  BY KindOf DEF Actors, StartJob, At, tokens
<1>2. Ends(p) \/ Moves(p, "launch")
  BY StartingMoves
<1>3. \A q \in Procs : Owed(task'[q]) => Owed(task[q]) /\ task'[q].run = task[q].run
  BY <1>1, <1>2, MovesOwed
<1>4. CASE latest' = latest
  BY <1>1, <1>3, <1>4, OthersShown
<1>5. CASE latest' # latest
  <2>1. happened' = happened \cup Overtaken
    BY <1>5 DEF StartJob
  <2>2. Fine' => Fine /\ \A q \in Procs : ~Owed(task[q])
    BY <2>1 DEF Fine, Without, Overtaken, Owed
  <2> QED BY <1>1, <1>3, <2>2 DEF Shown
<1> QED BY <1>4, <1>5

LEMMA StartingShown ==
  ASSUME Typed, Shown, happened \subseteq happened', NEW p \in Procs, Starting(p), ~StartJob(p)
  PROVE  Shown'
<1>1. p \in Actors /\ UNCHANGED <<wbToken, latest, shown>>
  BY DEF Actors, Starting, StartLock, StartClean, StartLaunch, StartReady, StartSave, StartWatch, tokens
<1>2. CASE StartWatch(p)
  <2>1. PICK r \in Runs :
          /\ r \notin Procs /\ task'[p] = NoTask
          /\ \A y \in Actors : y # p /\ y # r => Told(y, task'[y])
    BY <1>2, StartWatchMoves, ActorAssumption
  <2>2. \A q \in Procs : Owed(task'[q]) => Owed(task[q]) /\ task'[q].run = task[q].run
    BY <2>1, ToldOwed DEF Actors, Owed, NoTask
  <2> QED BY <1>1, <2>2, OthersShown
<1>3. CASE ~StartWatch(p)
  <2>1. Ends(p) \/ \E pc \in {"halt", "job", "ready", "save", "watch"} : Moves(p, pc)
    BY <1>3, StartingMoves DEF Starting
  <2> QED BY <1>1, <2>1, MovesOwed, OthersShown
<1> QED BY <1>2, <1>3

LEMMA ChangingShown ==
  ASSUME Typed, Shown, happened \subseteq happened', NEW p \in Procs, Changing(p)
  PROVE  Shown'
<1>1. p \in Actors /\ UNCHANGED <<wbToken, latest, shown>>
  BY DEF Actors, Changing, Halt, Kill, Forget, Clean, ReadExpires, WriteControl, SetExtended, tokens
<1>2. CASE Halt(p)
  <2>1. task'[p].pc \in {"forget", "kill"} /\ \A y \in Actors : y # p => Told(y, task'[y])
    BY <1>2, HaltMoves
  <2>2. \A q \in Procs : Owed(task'[q]) => Owed(task[q]) /\ task'[q].run = task[q].run
    BY <2>1, ToldOwed DEF Actors, Owed
  <2> QED BY <1>1, <2>2, OthersShown
<1>3. CASE ~Halt(p)
  <2>1. Ends(p) \/ \E pc \in {"clean", "kill", "forget", "control", "extended"} : Moves(p, pc)
    BY <1>3, ChangingMoves DEF Changing
  <2> QED BY <1>1, <2>1, MovesOwed, OthersShown
<1> QED BY <1>2, <1>3

LEMMA NextShown == Typed /\ (Stopped => Session) /\ Shown /\ [Next]_vars => Shown'
<1> SUFFICES ASSUME Typed, Stopped => Session, Shown, [Next]_vars, Fine' PROVE Shown'
  BY DEF Shown
<1>0. Session /\ happened \subseteq happened'
  BY NextEvents DEF Stopped, Fine, Without
<1>1. ASSUME NEW p \in Procs, Handle(p) PROVE Shown'
  BY <1>0, <1>1, StartJobShown, StartingShown, ChangingShown, PollingShown, ConsumeShown DEF Handle, Actors
<1>2. ASSUME NEW r \in Runs, Monitor(r) PROVE Shown'
  <2>1. r \in Actors /\ r \notin Procs /\ UNCHANGED <<wbToken, latest, shown>>
    BY <1>2, ActorAssumption DEF Actors, Monitor, Look, MonitorKill, Mark, Leave, Cleanup, tokens
  <2>2. Ends(r) \/ \E pc : Moves(r, pc)
    BY <1>2, MonitorMoves DEF Monitor
  <2> QED BY <1>0, <2>1, <2>2, MovesOwed, OthersShown
<1>3. ASSUME NEW p \in Procs, NEW kind \in Kinds, Begin(p, kind) PROVE Shown'
  <2>1. p \in Actors /\ UNCHANGED <<wbToken, latest, shown>> /\ FirstStep(kind) \notin {"check", "apply", "report", "attach"}
    BY <1>3 DEF Actors, Begin, tokens, FirstStep, Kinds
  <2>2. task'[p].pc = FirstStep(kind) /\ \A y \in Actors : y # p => task'[y] = task[y]
    BY <1>3, <2>1 DEF Begin, Typed, Tasks, NoTask
  <2>3. \A q \in Procs : Owed(task'[q]) => Owed(task[q]) /\ task'[q].run = task[q].run
    BY <2>1, <2>2 DEF Owed, Actors
  <2> QED BY <1>0, <2>1, <2>3, OthersShown
<1>4. ASSUME NEW p \in Procs, Cancel(p) PROVE Shown'
  <2>1. \A q \in Procs : Owed(task'[q]) => Owed(task[q]) /\ task'[q].run = task[q].run
    BY <1>4 DEF Cancel, Cancelled, Owed, Typed, Tasks, Task, Actors
  <2> QED BY <1>0, <1>4, <2>1, OthersShown DEF Cancel, tokens
<1>5. CASE Crash
  <2>1. \A q \in Procs : ~Owed(task'[q])
    BY <1>5 DEF Crash, Owed, NoTask, Actors
  <2> QED BY <1>0, <1>5, <2>1, OthersShown DEF Crash, tokens
<1>6. CASE Worker \/ LogIn \/ WorkerDies \/ Tick \/ UNCHANGED vars
  <2>1. UNCHANGED <<wbToken, latest, shown, task>>
    BY <1>6 DEF Worker, WorkerBoots, LoginExpires, WorkerEnds, LogIn, WorkerDies, Tick, vars, tokens
  <2> QED BY <1>0, <2>1, OthersShown
<1> QED BY <1>0, <1>1, <1>2, <1>3, <1>4, <1>5, <1>6, ConsumeShown DEF Next, Watch, Actors

LEMMA InitShown == Init => Shown
BY DEF Init, Shown, Nothing, NoTask, Owed, Actors

LEMMA SpecShown == Spec => []Shown
<1>1. Inv => Typed
  BY DEF Inv
<1> QED BY <1>1, SpecInv, SpecSession, InitShown, NextShown, PTL DEF Spec

(* The success in the file, with the token in the setting, and the success *)
(* that a poll answers are those of the last session, for any number of    *)
(* sessions whose monitors, polls and workers are still at it, with the    *)
(* exceptions of StateOfSession.                                           *)
THEOREM StateOfSessionHolds == Spec => []StateOfSession
<1>1. (Stopped => Session) /\ Shown => StateOfSession
  <2> SUFFICES ASSUME Stopped => Session, Shown PROVE StateOfSession
    OBVIOUS
  <2>1. state.phase = "success" /\ Without({"two applying", "unstopped"}) =>
          state.run = latest /\ wbToken = state.run
    BY DEF Session, Stopped, Without
  <2> QED BY <2>1 DEF Shown, Fine, StateOfSession
<1> QED BY <1>1, SpecSession, SpecShown, PTL

-----------------------------------------------------------------------------
(* Who sees to it that the progress shown comes to an end.  All of it is   *)
(* about histories without the events that Progress makes exceptions of.   *)

Smooth == Without({"crash", "cancel", "unwatched", "late monitor", "forgotten", "unstopped",
                   "unmarked"})

Is(t, kind, pcs) == t.kind = kind /\ t.pc \in pcs
Mon(t) == t.kind = "monitor" /\ t.pc # "cleanup"
Halted(t) == Is(t, "start", {"kill", "clean", "job", "launch", "ready", "save", "watch"})

(* A request that will stop the unit, or start a monitor for it; and one   *)
(* that will delete the files, or start a monitor for them.                *)
Kills(t) ==
  \/ Is(t, "start", {"kill", "ready", "save", "watch"})
  \/ Is(t, "stop", {"forget", "kill"})
  \/ Is(t, "reset", {"kill"})
Clears(t) ==
  \/ Kills(t)
  \/ Is(t, "start", {"clean", "launch"}) \/ Is(t, "stop", {"clean"}) \/ Is(t, "reset", {"clean"})

(* The current monitor is the only one that has not been told to end, and  *)
(* there is none while a request prepares a session.                       *)
Monitors ==
  /\ \A p \in Procs : ~task[p].cancelled
  /\ current # 0 => Mon(task[current]) /\ ~task[current].cancelled /\ task[current].gen = generation
  /\ \A r \in Runs : Mon(task[r]) /\ r # current => task[r].cancelled /\ task[r].gen < generation
  /\ \A r \in Runs : task[r].pc \in {"kill", "mark"} => ~task[r].cancelled
  /\ \A p \in Procs : Halted(task[p]) => current = 0

(* Then a unit that is to be stopped is, and "error" is written.           *)
LEMMA SmoothStops ==
  ASSUME Smooth'
  PROVE  ~StaysOn /\ ~Disturbed("unmarked")
BY DEF Smooth, Without, StaysOn, Disturbed

(* A monitor has a monitor's place.                                        *)
LEMMA CurrentRun == ASSUME Typed, Monitors PROVE current # 0 => current \in Runs
BY DEF Typed, Counts

LEMMA LiveIsCurrent ==
  ASSUME Typed, Monitors, NEW r \in Runs, Mon(task[r]),
         ~task[r].cancelled \/ task[r].gen = generation
  PROVE  r = current
<1>1. ~(generation < generation)
  BY DEF Typed, Counts
<1> QED BY <1>1 DEF Monitors

(* A step of a request.                                                    *)
LEMMA ProcMonitors ==
  ASSUME Typed, Monitors, NEW p \in Procs, Alone(p), UNCHANGED monitors,
         ~task'[p].cancelled, Halted(task'[p]) => Halted(task[p])
  PROVE  Monitors'
<1>1. Procs \subseteq Actors /\ Runs \subseteq Actors /\ p \notin Runs
  BY ActorAssumption DEF Actors
<1>2. \A r \in Runs : task'[r] = task[r]
  BY <1>1 DEF Alone
<1>3. \A q \in Procs : q # p => task'[q] = task[q]
  BY <1>1 DEF Alone
<1>4. current' = current /\ generation' = generation /\ (current # 0 => current \in Runs)
  BY CurrentRun DEF monitors
<1> QED BY <1>2, <1>3, <1>4 DEF Monitors

LEMMA MovesMonitors ==
  ASSUME Typed, Monitors, NEW p \in Procs, UNCHANGED monitors,
         Ends(p) \/ \E pc : Moves(p, pc) /\ (pc # "halt" /\ task[p].kind = "start" => Halted(task[p]))
  PROVE  Monitors'
<1>1. p \in Actors
  BY DEF Actors
<1>2. CASE Ends(p)
  <2>1. Alone(p) /\ ~task'[p].cancelled /\ ~Halted(task'[p])
    BY <1>2 DEF Ends, NoTask, Halted, Is
  <2> QED BY <2>1, ProcMonitors
<1>3. ASSUME NEW pc, Moves(p, pc), (pc # "halt" /\ task[p].kind = "start" => Halted(task[p]))
      PROVE  Monitors'
  <2>1. Alone(p) /\ ~task'[p].cancelled /\ (Halted(task'[p]) => Halted(task[p]))
    BY <1>3 DEF Moves, Halted, Is, Monitors
  <2> QED BY <2>1, ProcMonitors
<1> QED BY <1>2, <1>3

(* A step of a monitor that stays one.                                     *)
LEMMA RunMonitors ==
  ASSUME Typed, Monitors, NEW r \in Runs, UNCHANGED monitors, NEW pc, Moves(r, pc),
         Mon(task[r]), pc # "cleanup", pc \in {"kill", "mark"} => ~task[r].cancelled
  PROVE  Monitors'
<1>1. Procs \subseteq Actors /\ Runs \subseteq Actors /\ r \notin Procs
  BY ActorAssumption DEF Actors
<1>2. \A m \in Runs : m # r => task'[m] = task[m]
  BY <1>1 DEF Moves, Alone
<1>3. \A q \in Procs : task'[q] = task[q]
  BY <1>1 DEF Moves, Alone
<1>4. current' = current /\ generation' = generation /\ (current # 0 => current \in Runs)
  BY CurrentRun DEF monitors
<1>5. /\ Mon(task'[r]) /\ task'[r].cancelled = task[r].cancelled /\ task'[r].gen = task[r].gen
      /\ task'[r].pc = pc
  BY DEF Moves, Mon
<1> QED BY <1>2, <1>3, <1>4, <1>5 DEF Monitors

(* The end of one that is not the current one.                             *)
LEMMA EndMonitors ==
  ASSUME Typed, Monitors, NEW r \in Runs, UNCHANGED monitors, Ends(r), r # current
  PROVE  Monitors'
<1>1. Procs \subseteq Actors /\ Runs \subseteq Actors /\ r \notin Procs
  BY ActorAssumption DEF Actors
<1>2. \A m \in Runs : m # r => task'[m] = task[m]
  BY <1>1 DEF Ends, Alone
<1>3. \A q \in Procs : task'[q] = task[q]
  BY <1>1 DEF Ends, Alone
<1>4. current' = current /\ generation' = generation /\ (current # 0 => current \in Runs)
  BY CurrentRun DEF monitors
<1>5. ~Mon(task'[r]) /\ task'[r].pc = "idle"
  BY DEF Ends, Mon, NoTask
<1> QED BY <1>2, <1>3, <1>4, <1>5 DEF Monitors

LEMMA BeginMonitors ==
  ASSUME Typed, Monitors, NEW p \in Procs, NEW kind \in Kinds, Begin(p, kind) PROVE Monitors'
<1>1. p \in Actors
  BY DEF Actors
<1>2. Alone(p) /\ ~task'[p].cancelled /\ task'[p].pc = FirstStep(kind)
  BY <1>1 DEF Begin, Alone, Typed, Tasks, NoTask
<1>3. ~Halted(task'[p])
  BY <1>2 DEF Halted, Is, FirstStep, Kinds
<1> QED BY <1>2, <1>3, ProcMonitors DEF Begin

LEMMA StartingMonitors ==
  ASSUME Typed, Monitors, NEW p \in Procs, Starting(p), ~StartWatch(p) PROVE Monitors'
<1>1. p \in Actors /\ UNCHANGED monitors
  BY DEF Starting, StartLock, StartClean, StartJob, StartLaunch, StartReady, StartSave, Actors
<1>2. CASE StartLock(p)
  BY <1>1, <1>2, StartingMoves, MovesMonitors
<1>3. CASE ~StartLock(p)
  <2>1. Halted(task[p])
    BY <1>1, <1>3, KindOf DEF Starting, StartClean, StartJob, StartLaunch, StartReady, StartSave, At, Halted, Is
  <2>2. Ends(p) \/ \E pc : Moves(p, pc)
    BY <1>3, StartingMoves DEF Starting
  <2> QED BY <1>1, <2>1, <2>2, MovesMonitors
<1> QED BY <1>2, <1>3

LEMMA ChangingMonitors ==
  ASSUME Typed, Monitors, NEW p \in Procs, Changing(p) \/ Polling(p), ~Halt(p) PROVE Monitors'
<1>1. p \in Actors /\ UNCHANGED monitors
  BY PollingSteps DEF Changing, Kill, Forget, Clean, ReadExpires, WriteControl, SetExtended, Actors
<1>2. CASE Kill(p)
  <2>1. task[p].kind = "start" => Halted(task[p])
    BY <1>2 DEF Kill, At, Halted, Is
  <2>2. Moves(p, "clean")
    BY <1>2, ChangingMoves
  <2> QED BY <1>1, <2>1, <2>2, MovesMonitors
<1>3. CASE ~Kill(p)
  <2>1. task[p].kind # "start"
    BY <1>1, <1>3, KindOf, PollingSteps
    DEF Changing, Forget, Clean, ReadExpires, WriteControl, SetExtended, At
  <2>2. Ends(p) \/ \E pc : Moves(p, pc)
    BY <1>3, ChangingMoves DEF Changing
  <2> QED BY <1>1, <2>1, <2>2, MovesMonitors
<1> QED BY <1>2, <1>3

LEMMA ConsumeMonitors == ASSUME Typed, Monitors, NEW x \in Actors, Consume(x) PROVE Monitors'
<1>1. UNCHANGED monitors /\ task[x].pc \in {"look", "store", "secure", "apply", "report"}
  BY DEF Consume, Take, StoreToken, Secure, Apply, Report, At
<1>2. CASE x \in Procs
  <2>1. task[x].kind # "start" /\ x \notin Runs
    BY <1>1, <1>2, KindOf, ActorAssumption
  <2>2. Ends(x) \/ \E pc : Moves(x, pc)
    BY ConsumeMoves DEF Consume, Answers
  <2> QED BY <1>1, <1>2, <2>1, <2>2, MovesMonitors
<1>3. CASE x \in Runs
  <2>1. Mon(task[x])
    BY <1>1, <1>3, KindOf DEF Mon
  <2>2. \E pc : Moves(x, pc) /\ pc \in {"store", "secure", "apply", "report", "leave", "look"}
    BY <1>3, ConsumeMoves DEF Consume, Answers
  <2>3. PICK pc : Moves(x, pc) /\ pc \notin {"cleanup", "kill", "mark"}
    BY <2>2
  <2> QED BY <1>1, <1>3, <2>1, <2>3, RunMonitors
<1> QED BY <1>2, <1>3 DEF Actors

LEMMA MonitorMonitors == ASSUME Typed, Monitors, NEW r \in Runs, Monitor(r) PROVE Monitors'
<1>1. r \in Actors /\ task[r].kind = "monitor"
  BY KindOf DEF Actors, Monitor, Look, MonitorKill, Mark, Leave, Cleanup, At
<1>2. CASE Look(r)
  <2>1. UNCHANGED monitors /\ Mon(task[r])
    BY <1>1, <1>2 DEF Look, At, Mon
  <2>2. Moves(r, "leave") \/ (Moves(r, "kill") /\ ~task[r].cancelled)
    BY <1>1, <1>2, GotoMoves DEF Look
  <2> QED BY <2>1, <2>2, RunMonitors
<1>3. CASE MonitorKill(r)
  <2>1. UNCHANGED monitors /\ Mon(task[r]) /\ ~task[r].cancelled /\ Moves(r, "mark")
    BY <1>1, <1>3, MonitorMoves DEF MonitorKill, At, Mon, Monitors
  <2> QED BY <2>1, RunMonitors
<1>4. CASE Mark(r)
  <2>1. UNCHANGED monitors /\ Mon(task[r]) /\ Moves(r, "leave")
    BY <1>1, <1>4, MonitorMoves DEF Mark, At, Mon
  <2> QED BY <2>1, RunMonitors
<1>5. CASE Leave(r)
  <2>1. Mon(task[r])
    BY <1>1, <1>5 DEF Leave, At, Mon
  <2>2. CASE generation = task[r].gen
    <3>1. r = current /\ current' = 0 /\ generation' = generation /\ Moves(r, "cleanup")
      BY <1>5, <2>1, <2>2, LiveIsCurrent, MonitorMoves DEF Leave
    <3>2. /\ \A q \in Procs : task'[q] = task[q]
          /\ \A m \in Runs : m # r => task'[m] = task[m]
      BY <3>1, ActorAssumption DEF Moves, Alone, Actors
    <3>3. task'[r].pc = "cleanup" /\ ~Mon(task'[r])
      BY <3>1 DEF Moves, Mon
    <3> QED BY <3>1, <3>2, <3>3 DEF Monitors
  <2>3. CASE generation # task[r].gen
    <3>1. r # current /\ UNCHANGED monitors /\ Ends(r)
      <4>1. current \in Runs => current # 0
        BY DEF Runs
      <4> QED BY <1>5, <2>3, <4>1, MonitorMoves DEF Leave, Monitors, monitors
    <3> QED BY <3>1, EndMonitors
  <2> QED BY <2>2, <2>3
<1>6. CASE Cleanup(r)
  <2>1. r # current /\ UNCHANGED monitors /\ Ends(r)
    <3>1. current \in Runs => current # 0
      BY DEF Runs
    <3> QED BY <1>6, <3>1, MonitorMoves DEF Cleanup, At, Mon, Monitors
  <2> QED BY <2>1, EndMonitors
<1> QED BY <1>2, <1>3, <1>4, <1>5, <1>6 DEF Monitor

(* A monitor that is told to end too late is an event.                     *)
LEMMA HaltMonitors == ASSUME Typed, Monitors, Smooth', NEW p \in Procs, Halt(p) PROVE Monitors'
<1>1. Procs \subseteq Actors /\ Runs \subseteq Actors /\ p \notin Runs
  BY ActorAssumption DEF Actors
<1>2. current' = 0 /\ generation' = generation + 1 /\ generation \in Nat
  BY DEF Halt, StopMonitor, Typed, Counts
<1>3. \A r \in Runs : Told(r, task'[r])
  BY <1>1, HaltMoves
<1>4. \A r \in Runs : task[r].pc \notin {"kill", "mark"}
  BY DEF Halt, Late, Smooth, Without
<1>5. \A q \in Procs : ~task'[q].cancelled
  <2>1. \A q \in Procs : ~(current # 0 /\ q = current)
    BY CurrentRun, ActorAssumption
  <2>2. \A q \in Procs : q # p => Told(q, task'[q])
    BY <1>1, HaltMoves
  <2>3. ~task'[p].cancelled
    BY HaltMoves DEF Monitors
  <2> QED BY <2>1, <2>2, <2>3 DEF Monitors, Told
<1>6. \A r \in Runs : Mon(task'[r]) => task'[r].cancelled /\ task'[r].gen < generation'
  <2> SUFFICES ASSUME NEW r \in Runs, Mon(task'[r]) PROVE task'[r].cancelled /\ task'[r].gen < generation'
    OBVIOUS
  <2>1. Mon(task[r]) /\ task'[r].gen = task[r].gen /\ task[r].gen \in Nat
    BY <1>1, <1>3 DEF Told, Mon, Typed, Tasks, Task
  <2>2. CASE r = current
    <3>1. current # 0
      BY <2>2 DEF Runs
    <3> QED BY <1>2, <1>3, <2>1, <2>2, <3>1 DEF Told, Monitors
  <2>3. CASE r # current
    BY <1>2, <1>3, <2>1, <2>3 DEF Told, Monitors
  <2> QED BY <2>2, <2>3
<1>7. \A r \in Runs : task'[r].pc \notin {"kill", "mark"}
  BY <1>3, <1>4 DEF Told
<1> QED BY <1>2, <1>5, <1>6, <1>7 DEF Monitors

LEMMA StartWatchMonitors ==
  ASSUME Typed, Monitors, NEW p \in Procs, StartWatch(p) PROVE Monitors'
<1>1. PICK r \in Runs :
        /\ r = task[p].run /\ r # p /\ current' = r /\ task[p].kind = "start" /\ task'[p] = NoTask
        /\ task'[r].kind = "monitor" /\ task'[r].pc = "look" /\ task'[r].gen = generation + 1
        /\ ~task'[r].cancelled
        /\ \A y \in Actors : y # p /\ y # r => Told(y, task'[y])
  BY StartWatchMoves
<1>2. Procs \subseteq Actors /\ Runs \subseteq Actors /\ p \notin Runs /\ r \notin Procs
  BY ActorAssumption DEF Actors
<1>3. current = 0 /\ generation' = generation + 1 /\ generation \in Nat
  BY <1>1 DEF StartWatch, At, Monitors, Halted, Is, Typed, Counts
<1>4. \A q \in Procs : ~task'[q].cancelled /\ ~Halted(task'[q])
  <2> SUFFICES ASSUME NEW q \in Procs PROVE ~task'[q].cancelled /\ ~Halted(task'[q])
    OBVIOUS
  <2>1. CASE q = p
    BY <1>1, <2>1 DEF NoTask, Halted, Is
  <2>2. CASE q # p
    <3>1. Told(q, task'[q])
      BY <1>1, <1>2, <2>2
    <3>2. ~Holds(task[q])
      BY <1>1, <1>2, <2>2 DEF StartWatch, At, Typed, Mutex, Holds
    <3> QED BY <1>3, <3>1, <3>2 DEF Told, Monitors, Holds, Halted, Is
  <2> QED BY <2>1, <2>2
<1>5. \A m \in Runs : m # r => Told(m, task'[m])
  BY <1>1, <1>2
<1>6. \A m \in Runs : Mon(task'[m]) /\ m # r => task'[m].cancelled /\ task'[m].gen < generation'
  <2> SUFFICES ASSUME NEW m \in Runs, Mon(task'[m]), m # r
               PROVE  task'[m].cancelled /\ task'[m].gen < generation'
    OBVIOUS
  <2>1. Mon(task[m]) /\ task'[m].gen = task[m].gen /\ task[m].gen \in Nat /\ m # 0
    BY <1>2, <1>5 DEF Told, Mon, Typed, Tasks, Task, Runs
  <2>2. task[m].cancelled /\ task[m].gen < generation
    BY <1>3, <2>1 DEF Monitors
  <2> QED BY <1>3, <1>5, <2>1, <2>2 DEF Told
<1>7. \A m \in Runs : task'[m].pc \in {"kill", "mark"} => ~task'[m].cancelled
  <2> SUFFICES ASSUME NEW m \in Runs, task'[m].pc \in {"kill", "mark"} PROVE ~task'[m].cancelled
    OBVIOUS
  <2>1. CASE m = r
    BY <1>1, <2>1
  <2>2. CASE m # r
    BY <1>3, <1>5, <2>2 DEF Told, Monitors
  <2> QED BY <2>1, <2>2
<1>8. Mon(task'[r])
  BY <1>1 DEF Mon
<1> QED BY <1>1, <1>3, <1>4, <1>6, <1>7, <1>8 DEF Monitors

-----------------------------------------------------------------------------
(* A unit that runs, and a file that shows progress, are seen to.          *)

UnitSeen ==
  service.pc # "off" =>
    /\ state.phase \in {"none", "queued", "busy"}
    /\ current = 0 => \E p \in Procs : Kills(task[p])
    /\ current # 0 => task[current].pc \in {"look", "kill"}

FileSeen ==
  state.phase \in {"queued", "busy", "captured"} =>
    /\ current = 0 => \E p \in Procs : Clears(task[p])
    /\ current # 0 => \/ task[current].pc \in {"look", "kill", "mark"}
                      \/ state.phase = "captured" /\ task[current].pc \in {"store", "secure"}

JobSeen ==
  /\ \A p \in Procs : Is(task[p], "start", {"job"}) => state.phase \notin {"queued", "busy", "captured"}
  /\ \A p \in Procs : Is(task[p], "start", {"launch"}) => state.phase = "queued"

Seen == UnitSeen /\ FileSeen /\ JobSeen

(* The unit runs on, at most.                                              *)
UnitStays == service' = service \/ service'.pc = "off"

(* A request that leaves the file alone, and its part to nobody.           *)
LEMMA ProcSeen ==
  ASSUME Typed, Monitors, Seen, NEW p \in Procs, Alone(p), current' = current, state' = state, UnitStays,
         Kills(task[p]) => Kills(task'[p]) \/ service'.pc = "off",
         Clears(task[p]) => Clears(task'[p]) \/ state.phase \notin {"queued", "busy", "captured"},
         ~Is(task'[p], "start", {"job", "launch"})
  PROVE  Seen'
<1>1. Procs \subseteq Actors /\ Runs \subseteq Actors /\ p \notin Runs
  BY ActorAssumption DEF Actors
<1>2. \A q \in Procs : q # p => task'[q] = task[q]
  BY <1>1 DEF Alone
<1>3. current # 0 => task'[current] = task[current]
  BY <1>1, CurrentRun DEF Alone
<1>4. service'.pc # "off" => service.pc # "off"
  BY DEF UnitStays
<1>5. UnitSeen'
  <2>1. (\E q \in Procs : Kills(task[q])) /\ service'.pc # "off" => \E q \in Procs : Kills(task'[q])
    BY <1>2
  <2> QED BY <1>3, <1>4, <2>1 DEF Seen, UnitSeen
<1>6. FileSeen'
  <2>1. (\E q \in Procs : Clears(task[q])) /\ state.phase \in {"queued", "busy", "captured"} =>
          \E q \in Procs : Clears(task'[q])
    BY <1>2
  <2> QED BY <1>3, <2>1 DEF Seen, FileSeen
<1>7. JobSeen'
  BY <1>2 DEF Seen, JobSeen, Is
<1> QED BY <1>5, <1>6, <1>7 DEF Seen

(* A monitor that leaves the file alone.                                   *)
LEMMA RunSeen ==
  ASSUME Typed, Monitors, Seen, NEW r \in Runs, Alone(r), current' = current, state' = state, UnitStays,
         r = current /\ service'.pc # "off" => task'[r].pc \in {"look", "kill"},
         r = current /\ state.phase \in {"queued", "busy", "captured"} =>
           \/ task'[r].pc \in {"look", "kill", "mark"}
           \/ state.phase = "captured" /\ task'[r].pc \in {"store", "secure"}
  PROVE  Seen'
<1>1. Procs \subseteq Actors /\ Runs \subseteq Actors /\ r \notin Procs
  BY ActorAssumption DEF Actors
<1>2. \A q \in Procs : task'[q] = task[q]
  BY <1>1 DEF Alone
<1>3. current # 0 /\ current # r => task'[current] = task[current]
  BY <1>1, CurrentRun DEF Alone
<1>4. service'.pc # "off" => service.pc # "off"
  BY DEF UnitStays
<1>5. UnitSeen'
  BY <1>2, <1>3, <1>4 DEF Seen, UnitSeen
<1>6. FileSeen'
  BY <1>2, <1>3 DEF Seen, FileSeen
<1>7. JobSeen'
  BY <1>2 DEF Seen, JobSeen
<1> QED BY <1>5, <1>6, <1>7 DEF Seen

(* A step that ends the progress when no unit runs.                        *)
LEMMA DoneSeen ==
  ASSUME service'.pc = "off", state'.phase \notin {"queued", "busy", "captured"},
         \A p \in Procs : ~Is(task'[p], "start", {"launch"})
  PROVE  Seen'
BY DEF Seen, UnitSeen, FileSeen, JobSeen, Is

(* No start is at its last preparations while another goroutine has the    *)
(* mutex, or nobody.                                                       *)
LEMMA NoLaunch ==
  ASSUME Typed, NEW x \in Actors, Alone(x), stateMu = Nil \/ Holds(task[x]),
         ~Is(task'[x], "start", {"job", "launch"})
  PROVE  \A p \in Procs : ~Is(task'[p], "start", {"job", "launch"})
<1> SUFFICES ASSUME NEW p \in Procs, p # x PROVE ~Is(task'[p], "start", {"job", "launch"})
  OBVIOUS
<1>1. p \in Actors /\ task'[p] = task[p]
  BY DEF Actors, Alone
<1>2. ~Holds(task[p])
  BY <1>1, FreeMutex DEF Typed, Mutex
<1> QED BY <1>1, <1>2 DEF Is, Holds

LEMMA BeginSeen ==
  ASSUME Typed, Monitors, Seen, NEW p \in Procs, NEW kind \in Kinds, Begin(p, kind) PROVE Seen'
<1>1. p \in Actors /\ task[p].kind = "none"
  BY KindOf DEF Actors, Begin, At
<1>2. Alone(p) /\ task'[p].pc = FirstStep(kind)
  BY <1>1 DEF Begin, Alone, Typed, Tasks, NoTask
<1>3. ~Kills(task[p]) /\ ~Clears(task[p])
  BY <1>1 DEF Kills, Clears, Is
<1>4. ~Is(task'[p], "start", {"job", "launch"})
  BY <1>2 DEF Is, FirstStep, Kinds
<1>5. current' = current /\ state' = state /\ UnitStays
  BY DEF Begin, monitors, files, UnitStays
<1> QED BY <1>2, <1>3, <1>4, <1>5, ProcSeen

(* handleWBSessionStart.                                                   *)
LEMMA StartLockSeen ==
  ASSUME Typed, Monitors, Seen, NEW p \in Procs, StartLock(p) PROVE Seen'
<1>1. /\ p \in Actors /\ task[p].pc = "lock" /\ task[p].kind = "start"
      /\ current' = current /\ state' = state /\ UnitStays
  BY KindOf DEF Actors, StartLock, At, monitors, files, UnitStays
<1>2. ~Kills(task[p]) /\ ~Clears(task[p])
  BY <1>1 DEF Kills, Clears, Is
<1>3. Alone(p) /\ ~Is(task'[p], "start", {"job", "launch"})
  BY StartingMoves DEF Ends, Moves, NoTask, Is
<1> QED BY <1>1, <1>2, <1>3, ProcSeen

LEMMA StartCleanSeen ==
  ASSUME Typed, Session, Monitors, Seen, NEW p \in Procs, StartClean(p) PROVE Seen'
<1>1. p \in Actors /\ task[p].pc = "clean" /\ task[p].kind = "start" /\ Holds(task[p])
  BY DEF Actors, StartClean, At, Holds
<1>2. service'.pc = "off"
  BY <1>1 DEF StartClean, Session, Ready, Monitors
<1>3. state'.phase = "none"
  BY DEF StartClean, NoFiles, NoState
<1>4. ASSUME NEW q \in Procs PROVE ~Is(task'[q], "start", {"launch"})
  <2>1. CASE q = p
    BY <2>1, StartingMoves DEF Ends, Moves, NoTask, Is
  <2>2. CASE q # p
    <3>0. q \in Actors /\ Alone(p)
      BY StartingMoves DEF Actors, Ends, Moves
    <3>1. q \in Actors /\ task'[q] = task[q]
      BY <2>2, <3>0 DEF Alone
    <3>2. ~Holds(task[q])
      BY <1>1, <2>2, <3>1 DEF Typed, Mutex
    <3> QED BY <3>1, <3>2 DEF Holds, Is
  <2> QED BY <2>1, <2>2
<1> QED BY <1>2, <1>3, <1>4, DoneSeen

LEMMA StartJobSeen ==
  ASSUME Typed, Session, Monitors, Seen, NEW p \in Procs, StartJob(p) PROVE Seen'
<1>1. p \in Actors /\ task[p].pc = "job" /\ task[p].kind = "start" /\ Holds(task[p])
  BY KindOf DEF Actors, StartJob, At, Holds
<1>2. service.pc = "off" /\ current = 0 /\ ~task[p].cancelled
  BY <1>1 DEF Session, Ready, Monitors, Halted, Is
<1>3. UNCHANGED <<service, current>>
  BY DEF StartJob, monitors
<1>4. state.phase \notin {"queued", "busy", "captured"}
  BY <1>1 DEF Seen, JobSeen, Is
<1>5. \A q \in Procs : q # p => task'[q] = task[q] /\ ~Holds(task[q])
  BY <1>1, StartingMoves DEF Typed, Mutex, Ends, Moves, Alone, Actors
<1>6. CASE Goto(p, "launch") /\ state' = [phase |-> "queued", run |-> task[p].run]
  <2>1. Is(task'[p], "start", {"launch"})
    BY <1>1, <1>6, GotoMoves DEF Moves, Is
  <2>2. Clears(task'[p])
    BY <2>1 DEF Clears, Is
  <2>3. \A q \in Procs : ~Is(task'[q], "start", {"job"})
    BY <1>5, <2>1 DEF Is, Holds
  <2> QED BY <1>2, <1>3, <1>6, <2>2, <2>3 DEF Seen, UnitSeen, FileSeen, JobSeen
<1>7. CASE End(p) /\ state' = state
  <2>1. task'[p] = NoTask
    BY <1>1, <1>7, EndEnds DEF Ends
  <2>2. \A q \in Procs : ~Is(task'[q], "start", {"launch"})
    BY <1>5, <2>1 DEF Is, Holds, NoTask
  <2> QED BY <1>2, <1>3, <1>4, <1>7, <2>2, DoneSeen
<1> QED BY <1>2, <1>6, <1>7 DEF StartJob

LEMMA StartLaunchSeen ==
  ASSUME Typed, Session, Monitors, Seen, NEW p \in Procs, StartLaunch(p) PROVE Seen'
<1>1. p \in Actors /\ task[p].pc = "launch" /\ task[p].kind = "start" /\ Holds(task[p])
  BY KindOf DEF Actors, StartLaunch, At, Holds
<1>2. service.pc = "off" /\ current = 0 /\ current' = current /\ state.phase = "queued"
  BY <1>1 DEF Session, Ready, Monitors, Halted, Is, Seen, JobSeen, StartLaunch, monitors
<1>3. Alone(p) /\ ~Is(task'[p], "start", {"job", "launch"})
  BY StartingMoves DEF Ends, Moves, NoTask, Is
<1>4. \A q \in Procs : ~Is(task'[q], "start", {"job", "launch"})
  BY <1>1, <1>3, NoLaunch
<1>5. CASE Goto(p, "ready") /\ UNCHANGED files
  <2>1. Is(task'[p], "start", {"ready"})
    BY <1>1, <1>5, GotoMoves DEF Moves, Is
  <2>2. Kills(task'[p]) /\ Clears(task'[p])
    BY <2>1 DEF Kills, Clears, Is
  <2>3. state'.phase = "queued"
    BY <1>2, <1>5 DEF files
  <2> QED BY <1>2, <1>4, <2>2, <2>3 DEF Seen, UnitSeen, FileSeen, JobSeen, Is
<1>6. CASE NoFiles /\ UNCHANGED service
  <2>1. \A q \in Procs : ~Is(task'[q], "start", {"launch"})
    BY <1>4 DEF Is
  <2> QED BY <1>2, <1>6, <2>1, DoneSeen DEF NoFiles, NoState
<1> QED BY <1>5, <1>6 DEF StartLaunch

(* A unit that is left without a monitor is an event.                      *)
LEMMA StartReadySeen ==
  ASSUME Typed, Monitors, Seen, Smooth', NEW p \in Procs, StartReady(p) PROVE Seen'
<1>1. p \in Actors /\ task[p].pc = "ready" /\ task[p].kind = "start" /\ Holds(task[p])
  BY KindOf DEF Actors, StartReady, At, Holds
<1>2. current' = current /\ service' = service
  BY DEF StartReady, monitors
<1>3. Alone(p) /\ ~Is(task'[p], "start", {"job", "launch"})
  BY StartingMoves DEF Ends, Moves, NoTask, Is
<1>4. CASE Goto(p, "save") /\ UNCHANGED files
  <2>1. Is(task'[p], "start", {"save"})
    BY <1>1, <1>4, GotoMoves DEF Moves, Is
  <2>2. Kills(task'[p]) /\ Clears(task'[p])
    BY <2>1 DEF Kills, Clears, Is
  <2> QED BY <1>2, <1>3, <1>4, <2>2, ProcSeen DEF UnitStays, files
<1>5. CASE NoFiles /\ Unwatched \subseteq happened'
  <2>1. service.pc = "off"
    BY <1>5 DEF Unwatched, Smooth, Without
  <2>2. \A q \in Procs : ~Is(task'[q], "start", {"launch"})
    BY <1>1, <1>3, NoLaunch DEF Is
  <2> QED BY <1>2, <1>5, <2>1, <2>2, DoneSeen DEF NoFiles, NoState
<1> QED BY <1>4, <1>5 DEF StartReady

LEMMA StartSaveSeen ==
  ASSUME Typed, Monitors, Seen, NEW p \in Procs, StartSave(p) PROVE Seen'
<1>1. p \in Actors /\ task[p].pc = "save" /\ task[p].kind = "start"
  BY KindOf DEF Actors, StartSave, At
<1>2. current' = current /\ service' = service /\ state' = state
  BY DEF StartSave, monitors, files
<1>3. Alone(p) /\ Is(task'[p], "start", {"watch"})
  BY <1>1, StartingMoves DEF Moves, Is
<1>4. Kills(task'[p]) /\ Clears(task'[p]) /\ ~Is(task'[p], "start", {"job", "launch"})
  BY <1>3 DEF Kills, Clears, Is
<1> QED BY <1>2, <1>3, <1>4, ProcSeen DEF UnitStays

LEMMA StartWatchSeen ==
  ASSUME Typed, Monitors, Seen, NEW p \in Procs, StartWatch(p) PROVE Seen'
<1>1. PICK r \in Runs :
        /\ r # p /\ current' = r /\ task[p].kind = "start" /\ task'[p] = NoTask /\ task'[r].pc = "look"
        /\ \A y \in Actors : y # p /\ y # r => Told(y, task'[y])
  BY StartWatchMoves
<1>2. Procs \subseteq Actors /\ r \notin Procs /\ r # 0
  BY ActorAssumption DEF Actors, Runs
<1>3. UNCHANGED <<state, service>>
  BY DEF StartWatch, files
<1>4. ASSUME NEW q \in Procs, Is(task'[q], "start", {"job", "launch"}) PROVE FALSE
  <2>1. q # p /\ Told(q, task'[q])
    BY <1>1, <1>2, <1>4 DEF NoTask, Is
  <2>2. Holds(task[q]) /\ Holds(task[p])
    BY <1>1, <1>4, <2>1 DEF Told, Is, Holds, StartWatch, At
  <2> QED BY <1>2, <2>1, <2>2 DEF Typed, Mutex
<1> QED BY <1>1, <1>2, <1>3, <1>4 DEF Seen, UnitSeen, FileSeen, JobSeen, Is

(* Stop, ProfileReset and Extend.                                          *)
LEMMA HaltSeen == ASSUME Typed, Seen, NEW p \in Procs, Halt(p) PROVE Seen'
<1>1. p \in Actors /\ task[p].kind \in {"start", "stop", "reset"}
  BY KindOf DEF Actors, Halt, At
<1>2. /\ task'[p].pc = (IF task[p].kind = "stop" THEN "forget" ELSE "kill")
      /\ task'[p].kind = task[p].kind
      /\ \A y \in Actors : y # p => Told(y, task'[y])
  BY HaltMoves
<1>3. Kills(task'[p]) /\ Clears(task'[p]) /\ ~Is(task'[p], "start", {"job", "launch"})
  BY <1>1, <1>2 DEF Kills, Clears, Is
<1>4. current' = 0 /\ UNCHANGED <<state, service>>
  BY DEF Halt, StopMonitor, files
<1>5. JobSeen'
  <2>1. ASSUME NEW q \in Procs, NEW pcs \in {{"job"}, {"launch"}}, Is(task'[q], "start", pcs)
        PROVE  Is(task[q], "start", pcs)
    <3>1. q # p /\ q \in Actors
      BY <1>3, <2>1 DEF Is, Actors
    <3> QED BY <1>2, <2>1, <3>1 DEF Told, Is
  <2> QED BY <1>4, <2>1 DEF Seen, JobSeen
<1> QED BY <1>3, <1>4, <1>5 DEF Seen, UnitSeen, FileSeen

LEMMA KillSeen == ASSUME Typed, Monitors, Seen, Smooth', NEW p \in Procs, Kill(p) PROVE Seen'
<1>1. p \in Actors /\ task[p].kind \in {"start", "stop", "reset"}
  BY KindOf DEF Actors, Kill, At
<1>2. service'.pc = "off" /\ current' = current /\ state' = state
  BY SmoothStops DEF Kill, Monitors, Off, monitors, files
<1>3. Alone(p) /\ task'[p].pc = "clean" /\ task'[p].kind = task[p].kind
  BY ChangingMoves DEF Moves
<1>4. Clears(task'[p]) /\ ~Is(task'[p], "start", {"job", "launch"})
  BY <1>1, <1>3 DEF Clears, Is
<1> QED BY <1>2, <1>3, <1>4, ProcSeen DEF UnitStays

LEMMA ForgetSeen == ASSUME Typed, Monitors, Seen, NEW p \in Procs, Forget(p) PROVE Seen'
<1>1. p \in Actors /\ task[p].kind \in {"stop", "reset"} /\ task[p].pc = "forget"
  BY KindOf DEF Actors, Forget, At
<1>2. current' = current /\ state' = state /\ UnitStays
  BY DEF Forget, monitors, files, UnitStays
<1>3. CASE task[p].kind = "stop"
  <2>1. Alone(p) /\ Is(task'[p], "stop", {"kill"})
    BY <1>3, ChangingMoves DEF Moves, Is
  <2>2. Kills(task'[p]) /\ Clears(task'[p]) /\ ~Is(task'[p], "start", {"job", "launch"})
    BY <2>1 DEF Kills, Clears, Is
  <2> QED BY <1>2, <2>1, <2>2, ProcSeen
<1>4. CASE task[p].kind = "reset"
  <2>1. ~Kills(task[p]) /\ ~Clears(task[p])
    BY <1>1, <1>4 DEF Kills, Clears, Is
  <2>2. Alone(p) /\ ~Is(task'[p], "start", {"job", "launch"})
    BY <1>4, ChangingMoves DEF Ends, NoTask, Is
  <2> QED BY <1>2, <2>1, <2>2, ProcSeen
<1> QED BY <1>1, <1>3, <1>4

(* The unit of a file that is deleted may run on for a request that has    *)
(* yet to stop it.                                                         *)
LEMMA CleanSeen == ASSUME Typed, Monitors, Seen, NEW p \in Procs, Clean(p) PROVE Seen'
<1>1. /\ p \in Actors /\ task[p].kind \in {"stop", "reset"} /\ task[p].pc = "clean"
      /\ stateMu = Nil
  BY DEF Actors, Clean, At
<1>2. current' = current /\ service' = service /\ state'.phase = "none"
  BY DEF Clean, monitors, NoFiles, NoState
<1>3. Alone(p) /\ ~Is(task'[p], "start", {"job", "launch"})
  BY <1>1, ChangingMoves DEF Ends, Moves, NoTask, Is
<1>4. \A q \in Procs : ~Is(task'[q], "start", {"job", "launch"})
  BY <1>1, <1>3, NoLaunch
<1>5. ~Kills(task[p])
  BY <1>1 DEF Kills, Is
<1>6. \A q \in Procs : Kills(task[q]) => Kills(task'[q])
  BY <1>3, <1>5 DEF Alone, Actors
<1>7. current # 0 => task'[current] = task[current]
  BY <1>3, CurrentRun, ActorAssumption DEF Alone, Actors
<1>8. UnitSeen'
  BY <1>2, <1>6, <1>7 DEF Seen, UnitSeen
<1>9. FileSeen' /\ JobSeen'
  BY <1>2, <1>4 DEF FileSeen, JobSeen, Is
<1> QED BY <1>8, <1>9 DEF Seen

LEMMA ExtendSeen ==
  ASSUME Typed, Monitors, Seen, NEW p \in Procs,
         ReadExpires(p) \/ WriteControl(p) \/ SetExtended(p) \/ Polling(p)
  PROVE  Seen'
<1>1. p \in Actors /\ task[p].kind \in {"extend", "poll", "monitor"}
  BY KindOf, PollingSteps DEF Actors, ReadExpires, WriteControl, SetExtended, At
<1>2. current' = current /\ state' = state /\ UnitStays
  BY PollingSteps DEF ReadExpires, WriteControl, SetExtended, monitors, files, UnitStays
<1>3. ~Kills(task[p]) /\ ~Clears(task[p])
  BY <1>1 DEF Kills, Clears, Is
<1>4. Alone(p) /\ ~Is(task'[p], "start", {"job", "launch"})
  BY <1>1, ChangingMoves DEF Ends, Moves, NoTask, Is
<1> QED BY <1>2, <1>3, <1>4, ProcSeen

(* consumeWBSessionState.  A goroutine that leaves the file alone.         *)
LEMMA ConsumerSeen ==
  ASSUME Typed, Monitors, Seen, NEW x \in Actors, state' = state, current' = current, UnitStays,
         task[x].kind \in {"poll", "monitor"},
         (Ends(x) /\ x \notin Runs) \/ (\E pc : Moves(x, pc)),
         x \in Runs /\ x = current /\ service'.pc # "off" => task'[x].pc \in {"look", "kill"},
         x \in Runs /\ x = current /\ state.phase \in {"queued", "busy", "captured"} =>
           \/ task'[x].pc \in {"look", "kill", "mark"}
           \/ state.phase = "captured" /\ task'[x].pc \in {"store", "secure"}
  PROVE  Seen'
<1>1. Alone(x)
  BY DEF Ends, Moves
<1>2. CASE x \in Runs
  BY <1>1, <1>2, RunSeen
<1>3. CASE x \in Procs
  <2>1. ~Kills(task[x]) /\ ~Clears(task[x])
    BY DEF Kills, Clears, Is
  <2>2. ~Is(task'[x], "start", {"job", "launch"})
    BY DEF Ends, Moves, NoTask, Is
  <2> QED BY <1>1, <1>3, <2>1, <2>2, ProcSeen
<1> QED BY <1>2, <1>3 DEF Actors

(* One that ends the progress: no unit runs with a token.                  *)
LEMMA ConsumedSeen ==
  ASSUME Typed, Seen, NEW x \in Actors, UNCHANGED service,
         state.phase \in {"captured", "applying"}, stateMu = Nil \/ Holds(task[x]),
         state'.phase \notin {"queued", "busy", "captured"}, task[x].kind \in {"poll", "monitor"},
         Ends(x) \/ \E pc : Moves(x, pc)
  PROVE  Seen'
<1>1. service'.pc = "off"
  BY DEF Seen, UnitSeen
<1>2. Alone(x) /\ ~Is(task'[x], "start", {"job", "launch"})
  BY DEF Ends, Moves, NoTask, Is
<1>3. \A q \in Procs : ~Is(task'[q], "start", {"launch"})
  BY <1>2, NoLaunch DEF Is
<1> QED BY <1>1, <1>3, DoneSeen

LEMMA ConsumeSeen ==
  ASSUME Typed, Session, Monitors, Seen, Smooth', NEW x \in Actors, Consume(x) PROVE Seen'
<1>1. task[x].kind \in {"poll", "monitor"} /\ current' = current /\ service' = service
  BY KindOf DEF Consume, Take, StoreToken, Secure, Apply, Report, At, monitors
<1>2. (Ends(x) /\ x \notin Runs) \/ \E pc : Moves(x, pc)
  BY ConsumeMoves DEF Consume, Answers
<1>3. CASE Take(x)
  <2>1. state' = state /\ state.phase = "captured" /\ task'[x].pc = "store" /\ service.pc = "off"
    BY <1>3, ConsumeMoves DEF Take, files, Moves, Session
  <2> QED BY <1>1, <1>2, <2>1, ConsumerSeen DEF UnitStays
<1>4. CASE StoreToken(x)
  <2>1. state.phase = "captured" /\ service.pc = "off" /\ Holds(task[x])
    BY <1>4 DEF StoreToken, At, Session, Holds
  <2>2. CASE state' = state /\ Goto(x, "secure")
    <3>1. task'[x].pc = "secure"
      BY <2>2, GotoMoves DEF Moves
    <3> QED BY <1>1, <1>2, <2>1, <2>2, <3>1, ConsumerSeen DEF UnitStays
  <2>3. CASE state' = [state EXCEPT !.phase = "error"]
    <3>1. state'.phase = "error"
      BY <2>3 DEF Typed, Files
    <3> QED BY <1>1, <1>2, <2>1, <3>1, ConsumedSeen
  <2> QED BY <1>4, <2>2, <2>3, SmoothStops DEF StoreToken
<1>5. CASE Secure(x)
  <2>1. state.phase = "captured" /\ service.pc = "off" /\ Holds(task[x])
    BY <1>5 DEF Secure, At, Session, Holds
  <2>2. CASE state' = state /\ Proceed(x, "applying")
    <3>1. x \in Runs => task'[x].pc = "look"
      BY <2>2, ProceedMoves DEF Moves
    <3> QED BY <1>1, <1>2, <2>1, <2>2, <3>1, ConsumerSeen DEF UnitStays
  <2>3. CASE state' = [phase |-> "applying", run |-> task[x].run]
    BY <1>1, <1>2, <2>1, <2>3, ConsumedSeen
  <2> QED BY <1>5, <2>2, <2>3 DEF Secure
<1>6. CASE Apply(x) \/ (Report(x) /\ state' = state)
  <2>1. state' = state /\ task[x].pc \in {"apply", "report"}
    BY <1>6 DEF Apply, Report, files, At
  <2>2. x \in Runs /\ x = current => service.pc = "off" /\ state.phase \notin {"queued", "busy", "captured"}
    <3>1. x \in Runs => x # 0
      BY DEF Runs
    <3> QED BY <2>1, <3>1 DEF Seen, UnitSeen, FileSeen
  <2> QED BY <1>1, <1>2, <2>1, <2>2, ConsumerSeen DEF UnitStays
<1>7. CASE Report(x) /\ state' # state
  <2>1. state.phase = "applying" /\ state'.phase = "success" /\ stateMu = Nil
    BY <1>7 DEF Report
  <2> QED BY <1>1, <1>2, <2>1, ConsumedSeen
<1> QED BY <1>3, <1>4, <1>5, <1>6, <1>7 DEF Consume

(* monitorWBSession.                                                       *)
LEMMA LookSeen == ASSUME Typed, Monitors, Seen, NEW r \in Runs, Look(r) PROVE Seen'
<1>1. /\ task[r].pc = "look" /\ task[r].kind = "monitor" /\ state.phase # "captured"
      /\ current' = current /\ state' = state /\ service' = service
  BY KindOf DEF Look, At, monitors, files, Actors
<1>2. \/ Moves(r, "leave") /\ (state.phase \in {"success", "error"} \/ task[r].cancelled)
      \/ Moves(r, "kill")
  BY GotoMoves DEF Look, Actors
<1>3. CASE Moves(r, "kill")
  BY <1>1, <1>3, RunSeen DEF Moves, UnitStays
<1>4. CASE Moves(r, "leave") /\ (state.phase \in {"success", "error"} \/ task[r].cancelled)
  <2>1. r = current => state.phase \in {"success", "error"}
    <3>1. r # 0
      BY DEF Runs
    <3> QED BY <1>4, <3>1 DEF Monitors
  <2>2. r = current => service.pc = "off" /\ state.phase \notin {"queued", "busy", "captured"}
    BY <2>1 DEF Seen, UnitSeen
  <2> QED BY <1>1, <1>4, <2>2, RunSeen DEF Moves, UnitStays
<1> QED BY <1>2, <1>3, <1>4

LEMMA MonitorKillSeen ==
  ASSUME Typed, Monitors, Seen, Smooth', NEW r \in Runs, MonitorKill(r) PROVE Seen'
<1>1. current' = current /\ state' = state /\ service'.pc = "off" /\ Moves(r, "mark")
  BY MonitorMoves, SmoothStops DEF MonitorKill, monitors, files, Off
<1> QED BY <1>1, RunSeen DEF Moves, UnitStays

LEMMA MarkSeen == ASSUME Typed, Monitors, Seen, Smooth', NEW r \in Runs, Mark(r) PROVE Seen'
<1>1. r \in Actors /\ Moves(r, "leave") /\ r # 0 /\ r \notin Procs
  BY MonitorMoves, ActorAssumption DEF Actors, Runs
<1>2. task[r].pc = "mark" /\ task[r].kind = "monitor"
  BY <1>1, KindOf DEF Mark, At
<1>3. service.pc = "off"
  <2>1. r = current
    BY <1>2, LiveIsCurrent DEF Mon, Monitors
  <2> QED BY <1>1, <1>2, <2>1 DEF Seen, UnitSeen
<1>4. service' = service /\ stateMu = Nil /\ state'.phase = "error"
  BY SmoothStops DEF Mark, Typed, Files
<1>5. Alone(r) /\ ~Is(task'[r], "start", {"job", "launch"})
  BY <1>1 DEF Moves, Is
<1>6. \A q \in Procs : ~Is(task'[q], "start", {"launch"})
  BY <1>1, <1>4, <1>5, NoLaunch DEF Is
<1> QED BY <1>3, <1>4, <1>6, DoneSeen

LEMMA LeaveSeen == ASSUME Typed, Monitors, Seen, NEW r \in Runs, Leave(r) PROVE Seen'
<1>1. /\ r \in Actors /\ task[r].pc = "leave" /\ task[r].kind = "monitor" /\ r # 0 /\ r \notin Procs
      /\ UNCHANGED <<state, service>>
  BY KindOf, ActorAssumption DEF Actors, Leave, At, Runs, files
<1>2. CASE generation = task[r].gen
  <2>1. r = current /\ current' = 0 /\ Moves(r, "cleanup")
    BY <1>1, <1>2, LiveIsCurrent, MonitorMoves DEF Leave, Mon
  <2>2. service.pc = "off" /\ state.phase \notin {"queued", "busy", "captured"}
    BY <1>1, <2>1 DEF Seen, UnitSeen, FileSeen
  <2>3. \A q \in Procs : task'[q] = task[q]
    BY <1>1, <2>1 DEF Moves, Alone, Actors
  <2> QED BY <1>1, <2>2, <2>3 DEF Seen, UnitSeen, FileSeen, JobSeen
<1>3. CASE generation # task[r].gen
  <2>1. r # current /\ current' = current /\ Ends(r)
    BY <1>1, <1>3, MonitorMoves DEF Leave, Monitors
  <2> QED BY <1>1, <2>1, RunSeen DEF Ends, UnitStays
<1> QED BY <1>2, <1>3

LEMMA CleanupSeen == ASSUME Typed, Monitors, Seen, NEW r \in Runs, Cleanup(r) PROVE Seen'
<1>1. r # 0 /\ task[r].pc = "cleanup"
  BY DEF Cleanup, At, Runs
<1>2. r # current
  BY <1>1 DEF Monitors, Mon
<1>3. Ends(r) /\ current' = current /\ UNCHANGED <<state, service>>
  BY MonitorMoves DEF Cleanup, monitors
<1> QED BY <1>2, <1>3, RunSeen DEF Ends, UnitStays

(* The unit ends, or goes on and shows it.                                 *)
LEMMA OutsideSeen ==
  ASSUME Typed, Session, Monitors, Seen, Worker \/ LogIn \/ WorkerDies \/ Tick \/ UNCHANGED vars
  PROVE  Seen'
<1>1. UNCHANGED <<task, current>>
  BY DEF Worker, WorkerBoots, LoginExpires, WorkerEnds, LogIn, WorkerDies, Tick, vars, monitors
<1>2. /\ service.pc # "off" => \A p \in Procs : ~Is(task[p], "start", {"job", "launch"})
      /\ \A p \in Procs : Kills(task[p]) => Clears(task[p])
  BY DEF Session, Ready, Is, Clears, Actors
<1>3. CASE state' = state /\ UnitStays
  BY <1>1, <1>3 DEF Seen, UnitSeen, FileSeen, JobSeen, UnitStays
<1>4. CASE service.pc # "off" /\ state'.phase = "busy"
  BY <1>1, <1>2, <1>4 DEF Seen, UnitSeen, FileSeen, JobSeen, Is
<1>5. CASE service.pc # "off" /\ service'.pc = "off" /\ state'.phase \in {"error", "captured"}
  BY <1>1, <1>2, <1>5 DEF Seen, UnitSeen, FileSeen, JobSeen, Is
<1>6. CASE WorkerBoots
  <2>1. CASE job = 0
    <3>1. service' = Off /\ state' = state
      BY <1>6, <2>1 DEF WorkerBoots
    <3> QED BY <1>3, <3>1 DEF UnitStays, Off
  <2>2. CASE job # 0
    BY <1>4, <1>6, <2>2 DEF WorkerBoots, Writes
  <2> QED BY <2>1, <2>2
<1>7. CASE LoginExpires
  BY <1>5, <1>7 DEF LoginExpires, Writes, Off
<1>8. CASE LogIn
  BY <1>4, <1>8 DEF LogIn, Writes
<1>9. CASE WorkerEnds
  BY <1>5, <1>9 DEF WorkerEnds, Writes, Off
<1>10. CASE WorkerDies
  BY <1>3, <1>10 DEF WorkerDies, UnitStays, Off, files
<1>11. CASE Tick \/ UNCHANGED vars
  BY <1>3, <1>11 DEF Tick, vars, UnitStays, files
<1> QED BY <1>6, <1>7, <1>8, <1>9, <1>10, <1>11 DEF Worker

-----------------------------------------------------------------------------
(* The monitor knows a deadline, and a token that is applied has somebody  *)
(* who applies it.                                                         *)

Monitored == current # 0 \/ \E p \in Procs : Is(task[p], "start", {"watch"})
Dated == expires # 0 \/ "fault" \in happened

(* A stop deletes the setting before it stops the unit.                    *)
Deadlined ==
  Monitored =>
    /\ service.pc # "off" => Dated \/ \E p \in Procs : Is(task[p], "stop", {"kill"})
    /\ state.phase \in {"queued", "busy"} =>
         Dated \/ \E p \in Procs : Is(task[p], "stop", {"kill", "clean"})

HasDeadline(t) ==
  (t.kind = "start" /\ t.pc # "lock") \/ Is(t, "extend", {"control", "extended"}) => t.deadline # 0
Deadlines == \A p \in Procs : HasDeadline(task[p])

Tasked ==
  state.phase = "applying" /\ "fault" \notin happened => \E x \in Actors : Applies(task[x])

(* A step that takes nothing from it.                                      *)
LEMMA StillTasked ==
  ASSUME Tasked, happened \subseteq happened',
         state'.phase = "applying" => state.phase = "applying",
         state'.phase = "applying" => \A y \in Actors : Applies(task[y]) => Applies(task'[y])
  PROVE  Tasked'
BY DEF Tasked

LEMMA StillDeadlined ==
  ASSUME Deadlined, happened \subseteq happened', expires' = expires, Monitored' => Monitored,
         service'.pc # "off" => service.pc # "off",
         state'.phase \in {"queued", "busy"} => state.phase \in {"queued", "busy"} \/ service.pc # "off",
         \A q \in Procs :
           /\ Is(task[q], "stop", {"kill"}) => Is(task'[q], "stop", {"kill"}) \/ service'.pc = "off"
           /\ Is(task[q], "stop", {"kill", "clean"}) =>
                Is(task'[q], "stop", {"kill", "clean"}) \/ state'.phase \notin {"queued", "busy"}
  PROVE  Deadlined'
<1> SUFFICES ASSUME Monitored'
             PROVE  /\ service'.pc # "off" => Dated' \/ \E p \in Procs : Is(task'[p], "stop", {"kill"})
                    /\ state'.phase \in {"queued", "busy"} =>
                         Dated' \/ \E p \in Procs : Is(task'[p], "stop", {"kill", "clean"})
  BY DEF Deadlined
<1>1. Monitored /\ (Dated => Dated')
  BY DEF Dated
<1>2. ASSUME service'.pc # "off" PROVE Dated' \/ \E p \in Procs : Is(task'[p], "stop", {"kill"})
  BY <1>1, <1>2 DEF Deadlined
<1>3. ASSUME state'.phase \in {"queued", "busy"}
      PROVE  Dated' \/ \E p \in Procs : Is(task'[p], "stop", {"kill", "clean"})
  <2>1. \A q \in Procs : Is(task[q], "stop", {"kill"}) => Is(task[q], "stop", {"kill", "clean"})
    BY DEF Is
  <2>2. Dated \/ \E p \in Procs : Is(task[p], "stop", {"kill", "clean"})
    BY <1>1, <1>3, <2>1 DEF Deadlined
  <2> QED BY <1>1, <1>3, <2>2
<1> QED BY <1>2, <1>3

(* A goroutine that does not stop the session.                             *)
LEMMA AloneDeadlined ==
  ASSUME Typed, Deadlined, NEW x \in Actors, Alone(x), happened \subseteq happened', expires' = expires,
         current' = 0 \/ current' = current, ~Is(task'[x], "start", {"watch"}),
         x \in Procs => task[x].kind # "stop",
         service'.pc # "off" => service.pc # "off",
         state'.phase \in {"queued", "busy"} => state.phase \in {"queued", "busy"}
  PROVE  Deadlined'
<1>1. \A q \in Procs : q # x => task'[q] = task[q]
  BY DEF Alone, Actors
<1>2. Monitored' => Monitored
  BY <1>1 DEF Monitored
<1>3. \A q \in Procs : task[q].kind = "stop" => task'[q] = task[q]
  BY <1>1
<1> QED BY <1>2, <1>3, StillDeadlined DEF Is

LEMMA AloneDeadlines ==
  ASSUME Typed, Deadlines, NEW x \in Actors, Alone(x), x \in Procs => HasDeadline(task'[x])
  PROVE  Deadlines'
BY DEF Deadlines, Alone, Actors

(* A step on, or the end.                                                  *)
LEMMA MovesDeadlines ==
  ASSUME Typed, Deadlines, NEW x \in Actors,
         \/ Ends(x)
         \/ \E pc : /\ Moves(x, pc)
                    /\ task[x].kind = "start" => task[x].pc # "lock"
                    /\ task[x].kind = "extend" => task[x].pc = "control"
                    /\ pc \notin {"halt", "control"}
  PROVE  Deadlines'
<1>1. Alone(x)
  BY DEF Ends, Moves
<1>2. x \in Procs => HasDeadline(task'[x])
  <2>1. CASE Ends(x)
    BY <2>1 DEF Ends, NoTask, HasDeadline, Is
  <2>2. CASE ~Ends(x)
    <3> SUFFICES ASSUME x \in Procs PROVE HasDeadline(task'[x])
      OBVIOUS
    <3>1. HasDeadline(task[x])
      BY DEF Deadlines
    <3>2. task'[x].kind = task[x].kind /\ task'[x].deadline = task[x].deadline
      BY <2>2 DEF Moves
    <3> QED BY <2>2, <3>1, <3>2 DEF HasDeadline, Is
  <2> QED BY <2>1, <2>2
<1> QED BY <1>1, <1>2, AloneDeadlines

LEMMA AloneTasked ==
  ASSUME Tasked, NEW x \in Actors, Alone(x), ~Applies(task[x]), happened \subseteq happened',
         state'.phase = "applying" => state.phase = "applying"
  PROVE  Tasked'
<1>1. \A y \in Actors : Applies(task[y]) => Applies(task'[y])
  BY DEF Alone
<1> QED BY <1>1, StillTasked

LEMMA StartingDeadlines ==
  ASSUME Typed, Deadlines, NEW p \in Procs, Starting(p), ~StartWatch(p) PROVE Deadlines'
<1>1. p \in Actors
  BY DEF Actors
<1>2. CASE StartLock(p)
  <2>1. CASE Ends(p)
    BY <1>1, <2>1, MovesDeadlines
  <2>2. CASE Moves(p, "halt") /\ task'[p].deadline = clock + Length
    <3>1. clock + Length # 0
      BY BoundAssumption DEF Typed, Counts
    <3>2. HasDeadline(task'[p]) /\ Alone(p)
      BY <2>2, <3>1 DEF HasDeadline, Moves
    <3> QED BY <1>1, <3>2, AloneDeadlines
  <2> QED BY <1>2, <2>1, <2>2, StartingMoves
<1>3. CASE ~StartLock(p)
  <2>1. task[p].kind = "start" /\ task[p].pc # "lock"
    BY <1>1, <1>3, KindOf DEF Starting, StartClean, StartJob, StartLaunch, StartReady, StartSave, At
  <2>2. Ends(p) \/ \E pc : Moves(p, pc) /\ pc \notin {"halt", "control"}
    BY <1>3, StartingMoves DEF Starting
  <2> QED BY <1>1, <2>1, <2>2, MovesDeadlines
<1> QED BY <1>2, <1>3

LEMMA ChangingDeadlines ==
  ASSUME Typed, Deadlines, NEW p \in Procs, Changing(p) \/ Polling(p), ~Halt(p) PROVE Deadlines'
<1>1. p \in Actors
  BY DEF Actors
<1>2. CASE ReadExpires(p)
  <2>1. CASE Ends(p)
    BY <1>1, <2>1, MovesDeadlines
  <2>2. CASE Moves(p, "control") /\ task'[p].deadline = expires + Length
    <3>1. expires + Length # 0
      BY BoundAssumption DEF Typed, Stored
    <3>2. HasDeadline(task'[p]) /\ Alone(p)
      BY <2>2, <3>1 DEF HasDeadline, Moves
    <3> QED BY <1>1, <3>2, AloneDeadlines
  <2> QED BY <1>2, <2>1, <2>2, ChangingMoves
<1>3. CASE ~ReadExpires(p)
  <2>1. CASE SetExtended(p) \/ Polling(p)
    <3>1. Ends(p) \/ (task[p].kind = "poll" /\ \E pc \in {"check", "look", "attach"} : Moves(p, pc))
      BY <1>1, <2>1, ChangingMoves, PollingSteps
    <3> QED BY <1>1, <3>1, MovesDeadlines
  <2>2. CASE ~(SetExtended(p) \/ Polling(p))
    <3>1. /\ task[p].kind = "start" => task[p].pc # "lock"
          /\ task[p].kind = "extend" => task[p].pc = "control"
      BY <1>1, <1>3, <2>2, KindOf DEF Changing, Kill, Forget, Clean, WriteControl, At
    <3>2. Ends(p) \/ \E pc : Moves(p, pc) /\ pc \notin {"halt", "control"}
      BY <1>3, <2>2, ChangingMoves DEF Changing
    <3> QED BY <1>1, <3>1, <3>2, MovesDeadlines
  <2> QED BY <2>1, <2>2
<1> QED BY <1>2, <1>3

LEMMA HaltDeadlines == ASSUME Typed, Deadlines, NEW p \in Procs, Halt(p) PROVE Deadlines'
<1>1. p \in Actors /\ Procs \subseteq Actors /\ task[p].kind \in {"start", "stop", "reset"} /\ task[p].pc = "halt"
  BY KindOf DEF Actors, Halt, At
<1>2. /\ task'[p].kind = task[p].kind /\ task'[p].deadline = task[p].deadline
      /\ \A y \in Actors : y # p => Told(y, task'[y])
  BY HaltMoves
<1>3. HasDeadline(task'[p])
  BY <1>1, <1>2 DEF Deadlines, HasDeadline, Is
<1>4. \A q \in Procs : q # p => HasDeadline(task'[q])
  BY <1>1, <1>2 DEF Deadlines, HasDeadline, Is, Told
<1> QED BY <1>3, <1>4 DEF Deadlines

LEMMA StartWatchDeadlines == ASSUME Typed, Deadlines, NEW p \in Procs, StartWatch(p) PROVE Deadlines'
<1>1. PICK r \in Runs : /\ task'[p] = NoTask
                        /\ \A y \in Actors : y # p /\ y # r => Told(y, task'[y])
  BY StartWatchMoves
<1>2. Procs \subseteq Actors /\ r \notin Procs
  BY ActorAssumption DEF Actors
<1>3. HasDeadline(task'[p])
  BY <1>1 DEF NoTask, HasDeadline, Is
<1>4. \A q \in Procs : q # p => HasDeadline(task'[q])
  BY <1>1, <1>2 DEF Deadlines, HasDeadline, Is, Told
<1> QED BY <1>3, <1>4 DEF Deadlines

LEMMA BeginDeadlines ==
  ASSUME Typed, Deadlines, NEW p \in Procs, NEW kind \in Kinds, Begin(p, kind) PROVE Deadlines'
<1>1. p \in Actors
  BY DEF Actors
<1>2. /\ Alone(p) /\ task'[p].pc = FirstStep(kind) /\ task'[p].kind = kind
  BY <1>1 DEF Begin, Alone, Typed, Tasks, NoTask
<1>3. HasDeadline(task'[p])
  BY <1>2 DEF HasDeadline, Is, FirstStep, Kinds
<1> QED BY <1>1, <1>2, <1>3, AloneDeadlines

LEMMA ConsumeDeadlines == ASSUME Typed, Deadlines, NEW x \in Actors, Consume(x) PROVE Deadlines'
<1>1. task[x].kind \in {"poll", "monitor"}
  BY KindOf DEF Consume, Take, StoreToken, Secure, Apply, Report, At
<1>2. Ends(x) \/ \E pc : Moves(x, pc) /\ pc \notin {"halt", "control"}
  BY ConsumeMoves DEF Consume, Answers
<1> QED BY <1>1, <1>2, MovesDeadlines

LEMMA MonitorDeadlines == ASSUME Typed, Deadlines, NEW r \in Runs, Monitor(r) PROVE Deadlines'
<1>1. r \in Actors /\ r \notin Procs
  BY ActorAssumption DEF Actors
<1>2. Alone(r)
  BY MonitorMoves DEF Monitor, Ends, Moves
<1> QED BY <1>1, <1>2, AloneDeadlines

(* A start that prepares a session has no monitor yet, and no other start  *)
(* is about to have one.                                                   *)
LEMMA UnmonitoredDeadlined ==
  ASSUME Typed, Monitors, NEW p \in Procs, Holds(task[p]), Halted(task[p]), Alone(p), current' = current,
         ~Is(task'[p], "start", {"watch"})
  PROVE  Deadlined'
<1>1. current' = 0
  BY DEF Monitors
<1>2. ASSUME NEW q \in Procs PROVE ~Is(task'[q], "start", {"watch"})
  <2>1. CASE q # p
    <3>1. p \in Actors /\ q \in Actors /\ task'[q] = task[q]
      BY <2>1 DEF Actors, Alone
    <3>2. ~Holds(task[q])
      BY <2>1, <3>1 DEF Typed, Mutex
    <3> QED BY <3>1, <3>2 DEF Is, Holds
  <2> QED BY <2>1
<1> QED BY <1>1, <1>2 DEF Deadlined, Monitored

LEMMA DatedDeadlined == ASSUME Dated' PROVE Deadlined'
BY DEF Deadlined

LEMMA BeginDeadlined ==
  ASSUME Typed, Deadlined, NEW p \in Procs, NEW kind \in Kinds, Begin(p, kind) PROVE Deadlined'
<1>1. p \in Actors /\ task[p].kind = "none"
  BY KindOf DEF Actors, Begin, At
<1>2. Alone(p) /\ task'[p].pc = FirstStep(kind)
  BY <1>1 DEF Begin, Alone, Typed, Tasks, NoTask
<1>3. ~Is(task'[p], "start", {"watch"})
  BY <1>2 DEF Is, FirstStep, Kinds
<1>4. UNCHANGED <<happened, expires, current, service, state>>
  BY DEF Begin, settings, monitors, files
<1> QED BY <1>1, <1>2, <1>3, <1>4, AloneDeadlined

(* The preparations of a start; the setting is written before the monitor  *)
(* is started.                                                             *)
LEMMA StartingDeadlined ==
  ASSUME Typed, Monitors, Deadlined, Deadlines, NEW p \in Procs, Starting(p) PROVE Deadlined'
<1>1. p \in Actors
  BY DEF Actors
<1>2. CASE StartLock(p)
  <2>1. task[p].kind = "start"
    BY <1>1, <1>2, KindOf DEF StartLock, At
  <2>2. Alone(p) /\ ~Is(task'[p], "start", {"watch"})
    BY <1>2, StartingMoves DEF Ends, Moves, NoTask, Is
  <2>3. UNCHANGED <<happened, expires, current, service, state>>
    BY <1>2 DEF StartLock, settings, monitors, files
  <2> QED BY <1>1, <2>1, <2>2, <2>3, AloneDeadlined
<1>3. CASE StartClean(p) \/ StartJob(p) \/ StartLaunch(p) \/ StartReady(p)
  <2>1. task[p].kind = "start" /\ task[p].pc \in {"clean", "job", "launch", "ready"}
    BY <1>1, <1>3, KindOf DEF StartClean, StartJob, StartLaunch, StartReady, At
  <2>2. Holds(task[p]) /\ Halted(task[p])
    BY <2>1 DEF Holds, Halted, Is
  <2>3. Alone(p) /\ ~Is(task'[p], "start", {"watch"})
    BY <1>3, StartingMoves DEF Ends, Moves, NoTask, Is
  <2>4. current' = current
    BY <1>3 DEF StartClean, StartJob, StartLaunch, StartReady, monitors
  <2> QED BY <2>2, <2>3, <2>4, UnmonitoredDeadlined
<1>4. CASE StartSave(p)
  <2>1. task[p].kind = "start" /\ task[p].pc = "save"
    BY <1>1, <1>4, KindOf DEF StartSave, At
  <2>2. task[p].deadline # 0 /\ ~task[p].cancelled
    BY <2>1 DEF Deadlines, HasDeadline, Monitors
  <2>3. expires' = task[p].deadline \/ Fault
    BY <1>4, <2>2 DEF StartSave
  <2>4. Dated'
    BY <2>2, <2>3 DEF Dated, Fault, Disturbed
  <2> QED BY <2>4, DatedDeadlined
<1>5. CASE StartWatch(p)
  <2>1. task[p].kind = "start" /\ task[p].pc = "watch"
    BY <1>1, <1>5, KindOf DEF StartWatch, At
  <2>2. Monitored
    BY <2>1 DEF Monitored, Is
  <2>3. PICK r \in Runs : \A y \in Actors : y # p /\ y # r => Told(y, task'[y])
    BY <1>5, StartWatchMoves
  <2>4. \A q \in Procs : task[q].kind = "stop" =>
          task'[q].kind = "stop" /\ task'[q].pc = task[q].pc
    BY <2>1, <2>3, ActorAssumption DEF Told, Actors
  <2>5. UNCHANGED <<happened, expires, service, state>>
    BY <1>5 DEF StartWatch, settings, files
  <2> QED BY <2>2, <2>4, <2>5, StillDeadlined DEF Is
<1> QED BY <1>2, <1>3, <1>4, <1>5 DEF Starting

LEMMA HaltDeadlined == ASSUME Typed, Deadlined, NEW p \in Procs, Halt(p) PROVE Deadlined'
<1>1. p \in Actors /\ Procs \subseteq Actors /\ task[p].pc = "halt"
  BY DEF Actors, Halt, At
<1>2. /\ task'[p].pc \in {"forget", "kill"}
      /\ \A y \in Actors : y # p => Told(y, task'[y])
  BY HaltMoves
<1>3. UNCHANGED <<expires, service, state>> /\ happened \subseteq happened' /\ current' = 0
  BY DEF Halt, StopMonitor, settings, files
<1>4. Monitored' => Monitored
  <2> SUFFICES ASSUME NEW q \in Procs, Is(task'[q], "start", {"watch"})
               PROVE  Is(task[q], "start", {"watch"})
    BY <1>3 DEF Monitored
  <2>1. q # p
    BY <1>2 DEF Is
  <2> QED BY <1>1, <1>2, <2>1 DEF Told, Is
<1>5. \A q \in Procs : Is(task[q], "stop", {"kill", "clean"}) =>
        task'[q].kind = "stop" /\ task'[q].pc = task[q].pc
  BY <1>1, <1>2 DEF Told, Is
<1> QED BY <1>3, <1>4, <1>5, StillDeadlined DEF Is

LEMMA KillDeadlined ==
  ASSUME Typed, Monitors, Deadlined, Smooth', NEW p \in Procs, Kill(p) PROVE Deadlined'
<1>1. p \in Actors /\ task[p].pc = "kill"
  BY DEF Actors, Kill, At
<1>2. service'.pc = "off" /\ UNCHANGED <<happened, expires, current, state>>
  BY SmoothStops DEF Kill, Monitors, Off, monitors, files, settings, NoFault
<1>3. Alone(p) /\ task'[p].pc = "clean" /\ task'[p].kind = task[p].kind
  BY ChangingMoves DEF Moves
<1>4. Monitored' => Monitored
  BY <1>2, <1>3 DEF Monitored, Is, Alone, Actors
<1>5. \A q \in Procs : Is(task[q], "stop", {"kill", "clean"}) => Is(task'[q], "stop", {"kill", "clean"})
  BY <1>3 DEF Is, Alone, Actors
<1> QED BY <1>2, <1>4, <1>5, StillDeadlined

(* A stop that deletes the setting is still to stop the unit; a reset that *)
(* deletes it when there is a session again is an event.                   *)
LEMMA ForgetDeadlined ==
  ASSUME Typed, Monitors, Deadlined, Smooth', NEW p \in Procs, Forget(p) PROVE Deadlined'
<1>1. p \in Actors /\ task[p].kind \in {"stop", "reset"} /\ task[p].pc = "forget"
  BY KindOf DEF Actors, Forget, At
<1>2. CASE task[p].kind = "stop"
  <2>1. Is(task'[p], "stop", {"kill"}) /\ Is(task'[p], "stop", {"kill", "clean"})
    BY <1>2, ChangingMoves DEF Moves, Is
  <2> QED BY <2>1 DEF Deadlined
<1>3. CASE task[p].kind = "reset"
  <2>1. Forgotten(p) \subseteq happened' \/ "fault" \in happened'
    BY DEF Forget, Monitors
  <2>2. CASE "fault" \in happened'
    BY <2>2, DatedDeadlined DEF Dated
  <2>3. CASE Forgotten(p) \subseteq happened'
    <3>1. current = 0 /\ stateMu = Nil
      BY <1>3, <2>3 DEF Forgotten, Smooth, Without
    <3>2. \A q \in Procs : ~Is(task[q], "start", {"watch"})
      BY <3>1, FreeMutex DEF Typed, Is, Holds, Actors
    <3>3. Ends(p)
      BY <1>3, ChangingMoves
    <3>4. \A q \in Procs : ~Is(task'[q], "start", {"watch"})
      BY <3>2, <3>3 DEF Ends, Alone, NoTask, Is, Actors
    <3>5. current' = 0
      BY <3>1 DEF Forget, monitors
    <3> QED BY <3>4, <3>5 DEF Deadlined, Monitored
  <2> QED BY <2>1, <2>2, <2>3
<1> QED BY <1>1, <1>2, <1>3

LEMMA CleanDeadlined == ASSUME Typed, Deadlined, NEW p \in Procs, Clean(p) PROVE Deadlined'
<1>1. p \in Actors /\ task[p].pc = "clean"
  BY DEF Actors, Clean, At
<1>2. UNCHANGED <<happened, expires, current, service>> /\ state'.phase = "none"
  BY DEF Clean, monitors, settings, NoFiles, NoState
<1>3. Alone(p) /\ ~Is(task'[p], "start", {"watch"})
  BY ChangingMoves DEF Ends, Moves, NoTask, Is
<1>4. Monitored' => Monitored
  BY <1>2, <1>3 DEF Monitored, Alone, Actors
<1>5. \A q \in Procs : Is(task[q], "stop", {"kill"}) => Is(task'[q], "stop", {"kill"})
  BY <1>1, <1>3 DEF Is, Alone, Actors
<1> QED BY <1>2, <1>4, <1>5, StillDeadlined

LEMMA ExtendDeadlined ==
  ASSUME Typed, Monitors, Deadlined, Deadlines, NEW p \in Procs,
         ReadExpires(p) \/ WriteControl(p) \/ SetExtended(p) \/ Polling(p)
  PROVE  Deadlined'
<1>1. p \in Actors /\ task[p].kind \in {"extend", "poll"} /\ (SetExtended(p) => task[p].kind = "extend")
  BY KindOf, ActorAssumption, PollingSteps DEF Actors, ReadExpires, WriteControl, SetExtended, At
<1>2. Alone(p) /\ ~Is(task'[p], "start", {"watch"})
  BY ChangingMoves DEF Ends, Moves, NoTask, Is
<1>3. CASE SetExtended(p)
  <2>1. task[p].deadline # 0 /\ ~task[p].cancelled
    BY <1>1, <1>3 DEF Deadlines, HasDeadline, Monitors, SetExtended, At, Is
  <2>2. expires' = task[p].deadline \/ Fault
    BY <1>3, <2>1 DEF SetExtended
  <2>3. Dated'
    BY <2>1, <2>2 DEF Dated, Fault, Disturbed
  <2> QED BY <2>3, DatedDeadlined
<1>4. CASE ReadExpires(p) \/ WriteControl(p) \/ Polling(p)
  <2>1. /\ UNCHANGED <<expires, current, service, state>>
        /\ happened \subseteq happened'
    BY <1>4, EventsStay, PollingSteps DEF ReadExpires, WriteControl, settings, monitors, files
  <2> QED BY <1>1, <1>2, <2>1, AloneDeadlined
<1> QED BY <1>3, <1>4

LEMMA ConsumeDeadlined == ASSUME Typed, Deadlined, NEW x \in Actors, Consume(x) PROVE Deadlined'
<1>1. task[x].kind \in {"poll", "monitor"}
  BY KindOf DEF Consume, Take, StoreToken, Secure, Apply, Report, At
<1>2. Alone(x) /\ ~Is(task'[x], "start", {"watch"})
  BY <1>1, ConsumeMoves DEF Consume, Answers, Ends, Moves, NoTask, Is
<1>3. UNCHANGED <<expires, current, service>>
  BY DEF Consume, Take, StoreToken, Secure, Apply, Report, settings, monitors
<1>4. happened \subseteq happened'
  <2>1. CASE Take(x) \/ StoreToken(x) \/ Apply(x) \/ Report(x)
    BY <2>1, EventsStay DEF Take, StoreToken, Apply, Report
  <2>2. CASE Secure(x)
    BY <2>2, EventsStay DEF Secure
  <2> QED BY <2>1, <2>2 DEF Consume
<1>5. state' = state \/ state'.phase \in {"error", "applying", "success"}
  <2>1. CASE Take(x) \/ Apply(x)
    BY <2>1 DEF Take, Apply, files
  <2>2. CASE StoreToken(x)
    <3>1. UNCHANGED state \/ state' = [state EXCEPT !.phase = "error"]
      BY <2>2 DEF StoreToken
    <3> QED BY <3>1 DEF Typed, Files
  <2>3. CASE Secure(x)
    <3>1. UNCHANGED state \/ state' = [phase |-> "applying", run |-> task[x].run]
      BY <2>3 DEF Secure
    <3> QED BY <3>1
  <2>4. CASE Report(x)
    <3>1. UNCHANGED state \/ state' = [phase |-> "success", run |-> task[x].run]
      BY <2>4 DEF Report
    <3> QED BY <3>1
  <2> QED BY <2>1, <2>2, <2>3, <2>4 DEF Consume
<1> QED BY <1>1, <1>2, <1>3, <1>4, <1>5, AloneDeadlined

LEMMA MonitorDeadlined == ASSUME Typed, Deadlined, Smooth', NEW r \in Runs, Monitor(r) PROVE Deadlined'
<1>1. r \in Actors /\ r \notin Procs
  BY ActorAssumption DEF Actors
<1>2. task[r].kind = "monitor" \/ task[r].pc = "look"
  BY <1>1, KindOf DEF Monitor, Look, MonitorKill, Mark, Leave, Cleanup, At
<1>3. task[r].kind # "start"
  BY <1>1, <1>2, KindOf
<1>4. Alone(r) /\ ~Is(task'[r], "start", {"watch"})
  BY <1>3, MonitorMoves DEF Monitor, Ends, Moves, NoTask, Is
<1>5. UNCHANGED <<expires, happened>>
  BY SmoothStops DEF Monitor, Look, MonitorKill, Mark, Leave, Cleanup, settings, NoFault
<1>6. current' = 0 \/ current' = current
  BY DEF Monitor, Look, MonitorKill, Mark, Leave, Cleanup, monitors
<1>7. service'.pc = "off" \/ service' = service
  BY SmoothStops DEF Monitor, Look, MonitorKill, Mark, Leave, Cleanup, Off
<1>8. state' = state \/ state'.phase = "error"
  BY DEF Monitor, Look, MonitorKill, Mark, Leave, Cleanup, files, Typed, Files
<1> QED BY <1>1, <1>4, <1>5, <1>6, <1>7, <1>8, AloneDeadlined

LEMMA OutsideDeadlined ==
  ASSUME Typed, Deadlined, Worker \/ LogIn \/ WorkerDies \/ Tick \/ UNCHANGED vars PROVE Deadlined'
<1>1. UNCHANGED <<task, current, expires>>
  BY DEF Worker, WorkerBoots, LoginExpires, WorkerEnds, LogIn, WorkerDies, Tick, vars, monitors, settings
<1>2. happened \subseteq happened'
  BY EventsStay DEF Worker, WorkerBoots, LoginExpires, WorkerEnds, LogIn, WorkerDies, Tick, vars
<1>3. service'.pc # "off" => service.pc # "off"
  BY DEF Worker, WorkerBoots, LoginExpires, WorkerEnds, LogIn, WorkerDies, Tick, vars, Off
<1>4. state' = state \/ service.pc # "off"
  BY DEF Worker, WorkerBoots, LoginExpires, WorkerEnds, LogIn, WorkerDies, Tick, vars, files
<1>5. Monitored' => Monitored
  BY <1>1 DEF Monitored
<1> QED BY <1>1, <1>2, <1>3, <1>4, <1>5, StillDeadlined

(* Whoever applies a token goes on until the result is written.            *)
LEMMA BeginTasked ==
  ASSUME Typed, Tasked, NEW p \in Procs, NEW kind \in Kinds, Begin(p, kind) PROVE Tasked'
<1>1. p \in Actors /\ Alone(p) /\ ~Applies(task[p])
  BY DEF Actors, Begin, At, Alone, Applies, Typed, Tasks
<1>2. UNCHANGED <<happened, state>>
  BY DEF Begin, files
<1> QED BY <1>1, <1>2, AloneTasked

LEMMA StartingTasked ==
  ASSUME Typed, Fresh, Tasked, NEW p \in Procs, Starting(p) PROVE Tasked'
<1>1. p \in Actors /\ ~Applies(task[p])
  BY DEF Actors, Applies, At, Starting, StartLock, StartClean, StartJob, StartLaunch, StartReady, StartSave,
         StartWatch
<1>2. happened \subseteq happened'
  <2>1. CASE StartReady(p)
    BY <2>1 DEF StartReady, NoFault
  <2>2. CASE ~StartReady(p)
    BY <2>2, EventsStay DEF Starting, StartLock, StartClean, StartJob, StartLaunch, StartSave, StartWatch
  <2> QED BY <2>1, <2>2
<1>3. state'.phase = "applying" => state.phase = "applying"
  <2>1. CASE StartJob(p)
    <3>1. state' = state \/ state' = [phase |-> "queued", run |-> task[p].run]
      BY <2>1 DEF StartJob, files
    <3> QED BY <3>1
  <2>2. CASE ~StartJob(p)
    <3>1. state' = state \/ state' = NoState
      BY <2>2 DEF Starting, StartLock, StartClean, StartLaunch, StartReady, StartSave, StartWatch, files, NoFiles
    <3> QED BY <3>1 DEF NoState
  <2> QED BY <2>1, <2>2
<1>4. CASE StartWatch(p)
  <2>1. PICK r \in Runs : /\ r = task[p].run /\ task[p].kind = "start"
                          /\ \A y \in Actors : y # p /\ y # r => Told(y, task'[y])
    BY <1>4, StartWatchMoves
  <2>2. r \in Actors /\ task[r].kind # "monitor"
    BY <2>1 DEF Fresh, Actors
  <2>3. ~Applies(task[r])
    BY <2>2, KindOf DEF Applies
  <2>4. \A y \in Actors : Applies(task[y]) => Applies(task'[y])
    BY <1>1, <2>1, <2>3 DEF Told, Applies
  <2> QED BY <1>2, <1>3, <2>4, StillTasked
<1>5. CASE ~StartWatch(p)
  <2>1. Alone(p)
    BY <1>5, StartingMoves DEF Starting, Ends, Moves
  <2> QED BY <1>1, <1>2, <1>3, <2>1, AloneTasked
<1> QED BY <1>4, <1>5

LEMMA ChangingTasked ==
  ASSUME Typed, Tasked, NEW p \in Procs, Changing(p) \/ Polling(p) PROVE Tasked'
<1>1. p \in Actors /\ ~Applies(task[p])
  BY PollingSteps
  DEF Actors, Applies, At, Changing, Halt, Kill, Forget, Clean, ReadExpires, WriteControl, SetExtended
<1>2. happened \subseteq happened'
  <2>1. CASE Halt(p)
    BY <2>1 DEF Halt
  <2>2. CASE Forget(p)
    BY <2>2, EventsStay DEF Forget
  <2>3. CASE ~Halt(p) /\ ~Forget(p)
    BY <2>3, EventsStay, PollingSteps
    DEF Changing, Kill, StaysOn, Clean, ReadExpires, WriteControl, SetExtended
  <2> QED BY <2>1, <2>2, <2>3
<1>3. state' = state \/ state' = NoState
  BY PollingSteps
  DEF Changing, Halt, Kill, Forget, Clean, ReadExpires, WriteControl, SetExtended, files, NoFiles
<1>4. state'.phase = "applying" => state.phase = "applying"
  BY <1>3 DEF NoState
<1>5. CASE Halt(p)
  <2>1. \A y \in Actors : y # p => Told(y, task'[y])
    BY <1>5, HaltMoves
  <2>2. \A y \in Actors : Applies(task[y]) => Applies(task'[y])
    BY <1>1, <2>1 DEF Told, Applies
  <2> QED BY <1>2, <1>4, <2>2, StillTasked
<1>6. CASE ~Halt(p)
  <2>1. Alone(p)
    BY <1>6, ChangingMoves DEF Changing, Ends, Moves
  <2> QED BY <1>1, <1>2, <1>4, <2>1, AloneTasked
<1> QED BY <1>5, <1>6

LEMMA ConsumeTasked == ASSUME Typed, Tasked, NEW x \in Actors, Consume(x) PROVE Tasked'
<1>1. CASE Take(x)
  <2>1. Alone(x) /\ ~Applies(task[x]) /\ UNCHANGED <<happened, state>>
    BY <1>1, ConsumeMoves DEF Moves, Applies, Take, At, files
  <2> QED BY <2>1, AloneTasked
<1>2. CASE StoreToken(x)
  <2>1. Alone(x) /\ ~Applies(task[x]) /\ happened \subseteq happened'
    BY <1>2, ConsumeMoves, EventsStay DEF Answers, Ends, Moves, Applies, StoreToken, At
  <2>2. UNCHANGED state \/ state' = [state EXCEPT !.phase = "error"]
    BY <1>2 DEF StoreToken
  <2>3. state'.phase = "applying" => state.phase = "applying"
    BY <2>2 DEF Typed, Files
  <2> QED BY <2>1, <2>3, AloneTasked
<1>3. CASE Secure(x)
  <2>1. CASE Goto(x, "apply")
    BY <2>1, GotoMoves DEF Moves, Applies, Tasked
  <2>2. CASE Fault
    BY <2>2 DEF Fault, Disturbed, Tasked
  <2> QED BY <1>3, <2>1, <2>2 DEF Secure
<1>4. CASE Apply(x)
  BY <1>4, ConsumeMoves DEF Moves, Applies, Tasked
<1>5. CASE Report(x)
  <2>1. CASE Fault
    BY <2>1 DEF Fault, Disturbed, Tasked
  <2>2. CASE state' = IF state.phase = "applying" THEN [phase |-> "success", run |-> task[x].run] ELSE state
    <3>1. state'.phase # "applying"
      BY <2>2
    <3> QED BY <3>1 DEF Tasked
  <2> QED BY <1>5, <2>1, <2>2 DEF Report
<1> QED BY <1>1, <1>2, <1>3, <1>4, <1>5 DEF Consume

LEMMA MonitorTasked == ASSUME Typed, Tasked, Smooth', NEW r \in Runs, Monitor(r) PROVE Tasked'
<1>1. r \in Actors /\ ~Applies(task[r]) /\ UNCHANGED happened
  BY SmoothStops DEF NoFault, Actors, Applies, At, Monitor, Look, MonitorKill, Mark, Leave, Cleanup
<1>2. Alone(r)
  BY MonitorMoves DEF Monitor, Ends, Moves
<1>3. state' = state \/ state'.phase = "error"
  BY DEF Monitor, Look, MonitorKill, Mark, Leave, Cleanup, files, Typed, Files
<1> QED BY <1>1, <1>2, <1>3, AloneTasked

LEMMA OutsideTasked ==
  ASSUME Tasked, Worker \/ LogIn \/ WorkerDies \/ Tick \/ UNCHANGED vars PROVE Tasked'
<1>1. UNCHANGED task
  BY DEF Worker, WorkerBoots, LoginExpires, WorkerEnds, LogIn, WorkerDies, Tick, vars
<1>2. happened \subseteq happened'
  BY EventsStay DEF Worker, WorkerBoots, LoginExpires, WorkerEnds, LogIn, WorkerDies, Tick, vars
<1>3. state' = state \/ state'.phase \in {"busy", "error", "captured"}
  BY DEF Worker, WorkerBoots, LoginExpires, WorkerEnds, LogIn, WorkerDies, Writes, Tick, vars, files
<1> QED BY <1>1, <1>2, <1>3, StillTasked

-----------------------------------------------------------------------------
(* All of it together.                                                     *)

Whole == Monitors /\ Seen /\ Deadlined /\ Deadlines /\ Tasked
Watching == Fresh /\ (Smooth => Whole)

(* A disconnect and a crash are exceptions.                               *)
LEMMA SmoothBefore ==
  ASSUME Typed, [Next]_vars, Smooth'
  PROVE  Smooth /\ ~Crash /\ \A p \in Procs : ~Cancel(p)
<1>1. Smooth
  BY NextEvents DEF Smooth, Without
<1>2. ~Crash
  BY DEF Crash, Disturbed, Smooth, Without
<1>3. \A p \in Procs : ~Cancel(p)
  BY DEF Cancel, Disturbed, Smooth, Without
<1> QED BY <1>1, <1>2, <1>3

LEMMA StartingWhole ==
  ASSUME Typed, Session, Fresh, Whole, Smooth', NEW p \in Procs, Starting(p) PROVE Whole'
<1> USE DEF Whole
<1>1. Monitors'
  BY StartingMonitors, StartWatchMonitors
<1>2. Seen'
  BY StartLockSeen, StartCleanSeen, StartJobSeen, StartLaunchSeen, StartReadySeen, StartSaveSeen,
     StartWatchSeen DEF Starting
<1>3. Deadlines'
  BY StartingDeadlines, StartWatchDeadlines
<1> QED BY <1>1, <1>2, <1>3, StartingDeadlined, StartingTasked

LEMMA ChangingWhole ==
  ASSUME Typed, Session, Fresh, Whole, Smooth', NEW p \in Procs, Changing(p) \/ Polling(p) PROVE Whole'
<1> USE DEF Whole
<1>1. Monitors'
  BY ChangingMonitors, HaltMonitors
<1>2. Seen'
  BY HaltSeen, KillSeen, ForgetSeen, CleanSeen, ExtendSeen DEF Changing
<1>3. Deadlines'
  BY ChangingDeadlines, HaltDeadlines
<1>4. Deadlined'
  BY HaltDeadlined, KillDeadlined, ForgetDeadlined, CleanDeadlined, ExtendDeadlined DEF Changing
<1> QED BY <1>1, <1>2, <1>3, <1>4, ChangingTasked

LEMMA ConsumeWhole ==
  ASSUME Typed, Session, Whole, Smooth', NEW x \in Actors, Consume(x) PROVE Whole'
BY ConsumeMonitors, ConsumeSeen, ConsumeDeadlined, ConsumeDeadlines, ConsumeTasked DEF Whole

LEMMA MonitorWhole == ASSUME Typed, Whole, Smooth', NEW r \in Runs, Monitor(r) PROVE Whole'
<1> USE DEF Whole
<1>1. Seen'
  BY LookSeen, MonitorKillSeen, MarkSeen, LeaveSeen, CleanupSeen DEF Monitor
<1> QED BY <1>1, MonitorMonitors, MonitorDeadlined, MonitorDeadlines, MonitorTasked

LEMMA OutsideWhole ==
  ASSUME Typed, Session, Whole, Worker \/ LogIn \/ WorkerDies \/ Tick \/ UNCHANGED vars PROVE Whole'
<1> USE DEF Whole
<1>1. UNCHANGED <<task, current, generation>>
  BY DEF Worker, WorkerBoots, LoginExpires, WorkerEnds, LogIn, WorkerDies, Tick, vars, monitors
<1>2. Monitors'
  BY <1>1 DEF Monitors
<1>3. Deadlines'
  BY <1>1 DEF Deadlines
<1> QED BY <1>2, <1>3, OutsideSeen, OutsideDeadlined, OutsideTasked

LEMMA NextWatching == Typed /\ (Stopped => Session) /\ Watching /\ [Next]_vars => Watching'
<1> SUFFICES ASSUME Typed, Stopped => Session, Watching, [Next]_vars, Smooth' PROVE Whole'
  BY NextFresh DEF Watching
<1>1. Session /\ Fresh /\ Whole /\ ~Crash /\ \A p \in Procs : ~Cancel(p)
  BY SmoothBefore DEF Watching, Smooth, Stopped, Without
<1>2. ASSUME NEW p \in Procs, Handle(p) PROVE Whole'
  <2>1. p \in Actors
    BY DEF Actors
  <2> QED BY <1>1, <1>2, <2>1, StartingWhole, ChangingWhole, ConsumeWhole DEF Handle
<1>3. ASSUME NEW r \in Runs, Watch(r) PROVE Whole'
  <2>1. r \in Actors
    BY DEF Actors
  <2> QED BY <1>1, <1>3, <2>1, ConsumeWhole, MonitorWhole DEF Watch
<1>4. ASSUME NEW p \in Procs, NEW kind \in Kinds, Begin(p, kind) PROVE Whole'
  BY <1>1, <1>4, BeginMonitors, BeginSeen, BeginDeadlined, BeginDeadlines, BeginTasked DEF Whole
<1>5. CASE Worker \/ LogIn \/ WorkerDies \/ Tick \/ UNCHANGED vars
  BY <1>1, <1>5, OutsideWhole
<1> QED BY <1>1, <1>2, <1>3, <1>4, <1>5 DEF Next

LEMMA InitWatching == Init => Watching
<1> SUFFICES ASSUME Init PROVE Watching
  OBVIOUS
<1>1. \A x \in Actors : task[x].kind = "none" /\ task[x].pc = "idle" /\ ~task[x].cancelled
  BY DEF Init, NoTask
<1>2. Procs \subseteq Actors /\ Runs \subseteq Actors
  BY DEF Actors
<1>3. current = 0 /\ service.pc = "off" /\ state.phase = "none"
  BY DEF Init, Off, NoState
<1>4. Fresh
  BY <1>1, <1>2 DEF Fresh
<1>5. Monitors
  BY <1>1, <1>2, <1>3 DEF Monitors, Mon, Halted, Is
<1>6. Seen /\ Tasked
  BY <1>1, <1>2, <1>3 DEF Seen, UnitSeen, FileSeen, JobSeen, Is, Tasked
<1>7. Deadlined /\ Deadlines
  BY <1>1, <1>2, <1>3 DEF Deadlined, Deadlines, HasDeadline, Is
<1> QED BY <1>4, <1>5, <1>6, <1>7 DEF Watching, Whole

LEMMA SpecWatching == Spec => []Watching
<1>1. Inv => Typed
  BY DEF Inv
<1> QED BY <1>1, SpecInv, SpecSession, InitWatching, NextWatching, PTL DEF Spec

(* Progress that is shown has somebody who ends it, for any number of      *)
(* requests and sessions: a request at work, a monitor that has a          *)
(* deadline, or the goroutine that applies the token.  The exceptions are  *)
(* those of Progress, failing calls whose errors are dropped among them.   *)
THEOREM ProgressHolds == Spec => []Progress
<1>1. ASSUME Typed, Watching PROVE Progress
  <2> SUFFICES ASSUME Smooth
               PROVE  /\ state.phase \in {"queued", "busy"} =>
                           \/ AtWork \/ Ending
                           \/ (Watched /\ (expires # 0 \/ service.pc # "off" \/ "fault" \in happened))
                      /\ state.phase = "captured" => AtWork \/ Ending \/ Watched \/ Applying
                      /\ state.phase = "applying" /\ Without({"fault"}) => Applying
    BY DEF Progress, Smooth
  <2>1. Monitors /\ Seen /\ Deadlined /\ Tasked
    BY <1>1 DEF Watching, Whole
  <2>2. CASE current = 0
    <3>1. state.phase \in {"queued", "busy", "captured"} => AtWork
      BY <2>1, <2>2 DEF Seen, FileSeen, Clears, Kills, Is, AtWork
    <3> QED BY <2>1, <3>1 DEF Tasked, Applies, Applying, Without
  <2>3. CASE current # 0
    <3>1. current \in Runs /\ current \in Actors /\ ~task[current].cancelled
      BY <1>1, <2>1, <2>3, CurrentRun DEF Monitors, Actors
    <3>2. CASE state.phase \in {"queued", "busy"}
      <4>1. task[current].pc \in {"look", "kill", "mark"}
        BY <2>1, <2>3, <3>2 DEF Seen, FileSeen
      <4>2. Dated \/ AtWork
        BY <2>1, <2>3, <3>2 DEF Deadlined, Monitored, Is, AtWork
      <4> QED BY <3>1, <3>2, <4>1, <4>2 DEF Watched, Ending, At, Dated
    <3>3. CASE state.phase = "captured"
      <4>1. task[current].pc \in {"look", "kill", "mark", "store", "secure"}
        BY <2>1, <2>3, <3>3 DEF Seen, FileSeen
      <4> QED BY <3>1, <3>3, <4>1 DEF Watched, Ending, Applying, At
    <3>4. CASE state.phase = "applying"
      BY <2>1, <3>4 DEF Tasked, Applies, Applying, Without
    <3> QED BY <3>2, <3>3, <3>4
  <2> QED BY <2>2, <2>3
<1>2. Inv => Typed
  BY DEF Inv
<1> QED BY <1>1, <1>2, SpecInv, SpecWatching, PTL

=============================================================================
