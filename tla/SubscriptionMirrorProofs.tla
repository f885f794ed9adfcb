---------------------- MODULE SubscriptionMirrorProofs ----------------------
(***************************************************************************)
(* For any number of requests, syncs, faults and base paths: the mutex     *)
(* excludes, a deleted subscription leaves no file unless its mirror was   *)
(* turned off or the base path changed, and the mirror never goes back.    *)
(* What subscribers get: a revision that tells them of every change, and a *)
(* mirror URL behind which there is a public file.                         *)
(***************************************************************************)
EXTENDS SubscriptionMirror, TLAPS

(* What is uploaded was rendered after everything there is at Yandex Disk. *)
Ordered ==
  /\ \A path \in Paths : file[path].content <= content
  /\ \A t \in Workers :
       task[t].pc = "upload" =>
         task[t].content <= content /\ \A path \in Paths : file[path].content <= task[t].content

(* A file belongs to a row with a mirror; when the row goes, it is gone.   *)
Owned ==
  /\ yandex.path = DefaultPath
  /\ \A path \in Paths : file[path].there => path = DefaultPath /\ row.here /\ row.mirror
  /\ \A t \in Workers :
       /\ task[t].pc \in {"upload", "publish", "remove"} => task[t].path = DefaultPath
       /\ task[t].pc \in {"render", "upload", "publish"} => row.here /\ row.mirror
       /\ task[t].pc = "local" => \A path \in Paths : ~file[path].there

(* A goroutine that works on a file knows its path.                        *)
Located == \A t \in Workers : task[t].pc \in {"upload", "publish", "remove"} => task[t].path \in Paths

Inv == TypeOK /\ Located /\ Ordered /\ (Without({"off", "moved"}) => Owned)

-----------------------------------------------------------------------------
(* Lemmas about the helpers.                                               *)

LEMMA Constants ==
  /\ Idle \in Request /\ NoTask \in Task /\ NoFile \in File /\ Absent \in Row
  /\ Waiting("sync") \in Task /\ Waiting("delete") \in Task
  /\ None \notin Workers
<1>1. Absent \in Row
  BY DEF Absent, Row
<1>2. Idle \in Request
  BY <1>1 DEF Idle, Request
<1>3. NoTask \in Task
  BY DEF NoTask, Task
<1>4. NoFile \in File
  BY DEF NoFile, File
<1>5. Waiting("sync") \in Task /\ Waiting("delete") \in Task
  BY <1>3 DEF Waiting, Task
<1> QED BY <1>1, <1>2, <1>3, <1>4, <1>5, NoneAssumption

(* The bounds are numbers.                                                 *)
LEMMA LimitsType == Limits \in Budget
BY BoundAssumption DEF Limits, Budget

(* Spending from the budget leaves a budget.                               *)
LEMMA SpendType ==
  ASSUME left \in Budget,
         NEW what \in {"creates", "puts", "changes", "deletes", "syncs", "settings", "fetches"},
         Spend(what)
  PROVE  left' \in Budget
BY DEF Spend, Budget

(* A request that goes on or ends is a request.                            *)
LEMMA RequestType ==
  ASSUME op \in [Requests -> Request], NEW p \in Requests,
         End(p) \/ Goto(p, "touch") \/ Goto(p, "spawn")
  PROVE  op' \in [Requests -> Request]
<1>1. \A pc \in {"touch", "spawn"} : [Idle EXCEPT !.pc = pc] \in Request
  BY Constants DEF Request
<1>2. CASE End(p)
  BY <1>2, Constants DEF End
<1>3. CASE Goto(p, "touch")
  BY <1>1, <1>3 DEF Goto
<1>4. CASE Goto(p, "spawn")
  BY <1>1, <1>4 DEF Goto
<1> QED BY <1>2, <1>3, <1>4

(* The step of one goroutine leaves the others.                            *)
LEMMA OneTask ==
  ASSUME task \in [Workers -> Task], NEW t \in Workers, NEW v \in Task,
         task' = [task EXCEPT ![t] = v]
  PROVE  /\ task' \in [Workers -> Task] /\ task'[t] = v
         /\ \A u \in Workers : u # t => task'[u] = task[u]
OBVIOUS

(* Inside the mutex there is one goroutine.                                *)
LEMMA Alone ==
  ASSUME TypeOK, NEW t \in Workers, task[t].pc \notin {"idle", "lock"}
  PROVE  mirrorMu = t /\ \A u \in Workers : u # t => task[u].pc \in {"idle", "lock"}
BY DEF TypeOK

(* A step inside the mutex.                                                *)
LEMMA StepType ==
  ASSUME task \in [Workers -> Task], NEW t \in Workers,
         NEW pc \in {"publish", "address", "store", "failed", "local"}, Step(t, pc)
  PROVE  /\ task' \in [Workers -> Task]
         /\ task'[t] = [task[t] EXCEPT !.pc = pc] /\ task'[t].pc = pc
         /\ task'[t].path = task[t].path
         /\ \A u \in Workers : u # t => task'[u] = task[u]
         /\ mirrorMu' = mirrorMu
<1>1. task[t] \in Task
  OBVIOUS
<1> DEFINE v == [task[t] EXCEPT !.pc = pc]
<1>2. v \in Task /\ v.pc = pc /\ v.path = task[t].path
  BY <1>1 DEF Task
<1>3. task' = [task EXCEPT ![t] = v] /\ mirrorMu' = mirrorMu
  BY DEF Step
<1> HIDE DEF v
<1>4. /\ task' \in [Workers -> Task] /\ task'[t] = v
      /\ \A u \in Workers : u # t => task'[u] = task[u]
  BY <1>2, <1>3, OneTask
<1> QED BY <1>2, <1>3, <1>4 DEF v

(* The end of a goroutine gives the mutex back.                            *)
LEMMA ReturnType ==
  ASSUME task \in [Workers -> Task], NEW t \in Workers, Return(t)
  PROVE  /\ task' \in [Workers -> Task] /\ task'[t].pc = "idle" /\ mirrorMu' = None
         /\ \A u \in Workers : u # t => task'[u] = task[u]
<1>1. task' = [task EXCEPT ![t] = NoTask] /\ mirrorMu' = None
  BY DEF Return
<1>2. NoTask.pc = "idle"
  BY DEF NoTask
<1> QED BY <1>1, <1>2, Constants, OneTask

(* Events only add up.                                                     *)
LEMMA Growing ==
  ASSUME happened \subseteq happened', Without({"off", "moved"})'
  PROVE  Without({"off", "moved"})
BY DEF Without

-----------------------------------------------------------------------------
(* The invariant.                                                          *)

(* At the start there is neither a row nor a file.                         *)
LEMMA InitInv == Init => Inv
<1> SUFFICES ASSUME Init PROVE Inv OBVIOUS
<1>1. \A t \in Workers : task[t].pc = "idle"
  BY DEF Init, NoTask
<1>2. \A path \in Paths : ~file[path].there /\ file[path].content = 0
  BY DEF Init, NoFile
<1>3. TypeOK
  <2>1. row \in Row /\ file \in [Paths -> File] /\ op \in [Requests -> Request]
        /\ task \in [Workers -> Task] /\ left \in Budget
    BY Constants, LimitsType DEF Init
  <2>2. yandex \in [on: BOOLEAN, path: Paths]
        /\ client \in [state: {"none", "reading", "has"}, rev: Nat, content: Nat]
    BY PathAssumption DEF Init
  <2> QED BY <1>1, <2>1, <2>2 DEF Init, TypeOK
<1>4. Located /\ Ordered /\ Owned
  BY <1>1, <1>2 DEF Init, Located, Ordered, Owned
<1> QED BY <1>3, <1>4 DEF Inv

(* A step that touches neither goroutines nor files, takes nothing back    *)
(* from the feed and turns no mirror off.                                  *)
LEMMA Outside ==
  ASSUME Inv, TypeOK', UNCHANGED <<file, task, mirrorMu>>, yandex'.path = yandex.path,
         content' >= content, happened \subseteq happened',
         Without({"off", "moved"})' /\ row.here /\ row.mirror => row'.here /\ row'.mirror
  PROVE  Inv'
<1>1. Located' /\ Ordered'
  BY DEF Inv, TypeOK, File, Task, Located, Ordered
<1>2. Without({"off", "moved"})' => Owned'
  <2> SUFFICES ASSUME Without({"off", "moved"})' PROVE Owned' OBVIOUS
  <2>1. Owned /\ (row.here /\ row.mirror => row'.here /\ row'.mirror)
    BY Growing DEF Inv
  <2> QED BY <2>1 DEF Owned
<1> QED BY <1>1, <1>2 DEF Inv

(* A goroutine that does not work on a file makes no claim.                *)
LEMMA Harmless ==
  ASSUME Inv, TypeOK', NEW t \in Workers, UNCHANGED <<row, content, file, yandex, happened>>,
         task'[t].pc \in {"idle", "lock", "check"},
         \A u \in Workers : u # t => task'[u] = task[u]
  PROVE  Inv'
<1>1. Located' /\ Ordered'
  BY DEF Inv, Located, Ordered
<1>2. Without({"off", "moved"})' => Owned'
  BY DEF Inv, Without, Owned
<1> QED BY <1>1, <1>2 DEF Inv

(* The request handlers, the subscriber and the clock.                     *)
LEMMA CreateInv ==
  ASSUME Inv, NEW p \in Requests, NEW mirror \in BOOLEAN, Create(p, mirror) PROVE Inv'
<1> DEFINE created == [Absent EXCEPT !.here = TRUE, !.enabled = TRUE, !.mirror = mirror, !.rev = clock]
           request == [Idle EXCEPT !.pc = IF mirror THEN "touch" ELSE "idle"]
<1>1. created \in Row
  BY Constants DEF Inv, TypeOK, Row
<1>2. request \in Request
  BY Constants DEF Request
<1>3. op' \in [Requests -> Request]
  BY <1>2, Constants DEF Create, Start, Inv, TypeOK
<1>4. left' \in Budget
  BY SpendType DEF Create, Inv, TypeOK
<1>5. happened \subseteq happened' /\ happened' \subseteq Events
  BY DEF Create, Fault, Inv, TypeOK, Events, Faults
<1>6. TypeOK'
  BY <1>1, <1>3, <1>4, <1>5 DEF Create, Inv, TypeOK
<1> QED BY <1>5, <1>6, Outside DEF Create, Inv, TypeOK

LEMMA PutReadInv ==
  ASSUME Inv, NEW p \in Requests, NEW mirror \in BOOLEAN, NEW enabled \in BOOLEAN,
         PutRead(p, mirror, enabled)
  PROVE  Inv'
<1> DEFINE request == [pc |-> "put", known |-> TRUE, mirror |-> mirror, enabled |-> enabled,
                       seen |-> [row EXCEPT !.rev = 0]]
<1>1. [row EXCEPT !.rev = 0] \in Row
  BY DEF Inv, TypeOK, Row
<1>2. request \in Request
  BY <1>1 DEF Request
<1>3. op' \in [Requests -> Request]
  BY <1>2 DEF PutRead, Start, Inv, TypeOK
<1>4. left' \in Budget
  BY SpendType DEF PutRead, Inv, TypeOK
<1>5. TypeOK'
  BY <1>3, <1>4 DEF PutRead, Inv, TypeOK
<1> QED BY <1>5, Outside DEF PutRead, Inv, TypeOK

LEMMA PutWriteInv == ASSUME Inv, NEW p \in Requests, PutWrite(p) PROVE Inv'
<1>1. op[p] \in Request
  BY DEF Inv, TypeOK
<1> DEFINE written == [row EXCEPT !.enabled = op[p].enabled, !.mirror = op[p].mirror,
                                  !.url = op[p].seen.url, !.rev = clock,
                                  !.status = IF op[p].mirror THEN op[p].seen.status ELSE "disabled"]
<1>2. written \in Row
  BY <1>1 DEF Inv, TypeOK, Request, Row
<1>3. op' \in [Requests -> Request]
  BY RequestType DEF PutWrite, Inv, TypeOK
<1>4. row' \in Row /\ content' \in Nat /\ content' >= content
  BY <1>2 DEF PutWrite, Inv, TypeOK
<1>5. happened \subseteq happened' /\ happened' \subseteq Events
  BY DEF PutWrite, Faulty, TurnedOff, Inv, TypeOK, Events, Faults
<1>6. Without({"off", "moved"})' /\ row.here /\ row.mirror => row'.here /\ row'.mirror
  <2> SUFFICES ASSUME Without({"off", "moved"})', row.here, row.mirror
               PROVE  row'.here /\ row'.mirror
    OBVIOUS
  <2>1. row' = written /\ TurnedOff(p) \subseteq happened'
    BY DEF PutWrite
  <2>2. op[p].mirror
    BY <2>1, <1>1 DEF Without, TurnedOff, Request
  <2> QED BY <2>1, <2>2 DEF Inv, TypeOK, Row
<1>7. TypeOK'
  BY <1>3, <1>4, <1>5 DEF PutWrite, Inv, TypeOK
<1> QED BY <1>4, <1>5, <1>6, <1>7, Outside DEF PutWrite

LEMMA EntryReadInv ==
  ASSUME Inv, NEW p \in Requests, NEW kind \in {"entry", "link"}, EntryRead(p, kind) PROVE Inv'
<1>1. [Idle EXCEPT !.pc = kind, !.known = TRUE] \in Request
  BY Constants DEF Request
<1>2. op' \in [Requests -> Request]
  BY <1>1 DEF EntryRead, Start, Inv, TypeOK
<1>3. left' \in Budget
  BY SpendType DEF EntryRead, Inv, TypeOK
<1>4. TypeOK'
  BY <1>2, <1>3 DEF EntryRead, Inv, TypeOK
<1> QED BY <1>4, Outside DEF EntryRead, Inv, TypeOK

LEMMA EntryWriteInv == ASSUME Inv, NEW p \in Requests, EntryWrite(p) PROVE Inv'
<1>1. op' \in [Requests -> Request]
  BY RequestType DEF EntryWrite, Inv, TypeOK
<1>2. content' \in Nat /\ content' >= content /\ linked' \in BOOLEAN
  <2>1. content' = content + 1 \/ content' = content
    BY DEF EntryWrite
  <2>2. linked' \in BOOLEAN
    BY DEF EntryWrite, Inv, TypeOK
  <2> QED BY <2>1, <2>2 DEF Inv, TypeOK
<1>3. happened \subseteq happened' /\ happened' \subseteq Events
  BY DEF EntryWrite, Faulty, LateLink, Inv, TypeOK, Events, Faults
<1>4. TypeOK'
  BY <1>1, <1>2, <1>3 DEF EntryWrite, Inv, TypeOK
<1> QED BY <1>2, <1>3, <1>4, Outside DEF EntryWrite

LEMMA InstanceReadInv == ASSUME Inv, NEW p \in Requests, InstanceRead(p) PROVE Inv'
<1>1. [Idle EXCEPT !.pc = "instance", !.known = linked] \in Request
  BY Constants DEF Request, Inv, TypeOK
<1>2. op' \in [Requests -> Request]
  BY <1>1 DEF InstanceRead, Start, Inv, TypeOK
<1>3. left' \in Budget
  BY SpendType DEF InstanceRead, Inv, TypeOK
<1>4. TypeOK'
  BY <1>2, <1>3 DEF InstanceRead, Inv, TypeOK
<1> QED BY <1>4, Outside DEF InstanceRead, Inv, TypeOK

LEMMA InstanceWriteInv == ASSUME Inv, NEW p \in Requests, InstanceWrite(p) PROVE Inv'
<1>1. op' \in [Requests -> Request]
  BY RequestType DEF InstanceWrite, Inv, TypeOK
<1>2. content' \in Nat /\ content' >= content /\ linked' \in BOOLEAN
  <2>1. content' = content + 1 \/ content' = content
    BY DEF InstanceWrite
  <2>2. linked' \in BOOLEAN
    BY DEF InstanceWrite, Inv, TypeOK
  <2> QED BY <2>1, <2>2 DEF Inv, TypeOK
<1>3. happened \subseteq happened' /\ happened' \subseteq Events
  BY DEF InstanceWrite, Fault, Inv, TypeOK, Events, Faults
<1>4. TypeOK'
  BY <1>1, <1>2, <1>3 DEF InstanceWrite, Inv, TypeOK
<1> QED BY <1>2, <1>3, <1>4, Outside DEF InstanceWrite

LEMMA TouchInv == ASSUME Inv, NEW p \in Requests, Touch(p) PROVE Inv'
<1>1. op' \in [Requests -> Request]
  BY RequestType DEF Touch, Inv, TypeOK
<1>2. NextRevision \in Nat
  BY DEF NextRevision, Inv, TypeOK, Row
<1>3. [row EXCEPT !.rev = NextRevision] \in Row
      /\ [row EXCEPT !.rev = NextRevision].here = row.here
      /\ [row EXCEPT !.rev = NextRevision].mirror = row.mirror
  BY <1>2 DEF Inv, TypeOK, Row
<1>4. row' \in Row /\ row'.here = row.here /\ row'.mirror = row.mirror
  BY <1>3 DEF Touch, Inv, TypeOK
<1>5. happened \subseteq happened' /\ happened' \subseteq Events
  BY DEF Touch, Fault, Inv, TypeOK, Events, Faults
<1>6. TypeOK'
  BY <1>1, <1>4, <1>5 DEF Touch, Inv, TypeOK
<1> QED BY <1>4, <1>5, <1>6, Outside DEF Touch, Inv, TypeOK

LEMMA FetchInv == ASSUME Inv, FetchRow \/ FetchEntries \/ Tick \/ Toggle PROVE Inv'
<1>1. client' \in [state: {"none", "reading", "has"}, rev: Nat, content: Nat]
  <2>1. CASE FetchRow
    BY <2>1 DEF FetchRow, Inv, TypeOK, Row
  <2>2. CASE FetchEntries
    BY <2>2 DEF FetchEntries, Inv, TypeOK
  <2>3. CASE Tick \/ Toggle
    BY <2>3 DEF Tick, Toggle, Inv, TypeOK
  <2> QED BY <2>1, <2>2, <2>3
<1>2. left' \in Budget
  BY SpendType DEF FetchRow, FetchEntries, Tick, Toggle, Inv, TypeOK
<1>3. yandex' \in [on: BOOLEAN, path: Paths] /\ yandex'.path = yandex.path
  BY DEF FetchRow, FetchEntries, Tick, Toggle, Inv, TypeOK
<1>4. happened \subseteq happened' /\ happened' \subseteq Events
  BY DEF FetchRow, FetchEntries, Tick, Toggle, Event, Inv, TypeOK, Events
<1>5. UNCHANGED <<row, content, linked, file, op, task, mirrorMu>> /\ clock' \in Nat
  BY DEF FetchRow, FetchEntries, Tick, Toggle, Inv, TypeOK
<1>6. TypeOK'
  BY <1>1, <1>2, <1>3, <1>4, <1>5 DEF Inv, TypeOK
<1> QED BY <1>3, <1>4, <1>5, <1>6, Outside DEF Inv, TypeOK

(* The base path, the process, and the start of the goroutines.            *)
LEMMA MoveInv == ASSUME Inv, NEW path \in Paths, Move(path) PROVE Inv'
<1>1. left' \in Budget
  BY SpendType DEF Move, Inv, TypeOK
<1>2. yandex' \in [on: BOOLEAN, path: Paths]
  BY DEF Move, Inv, TypeOK
<1>3. happened' \subseteq Events /\ ~Without({"off", "moved"})'
  BY DEF Move, Event, Without, Inv, TypeOK, Events
<1>4. TypeOK'
  BY <1>1, <1>2, <1>3 DEF Move, Inv, TypeOK
<1>5. Located' /\ Ordered'
  BY DEF Move, Inv, Located, Ordered
<1> QED BY <1>3, <1>4, <1>5 DEF Inv

LEMMA CrashInv == ASSUME Inv, Crash PROVE Inv'
<1>1. op' \in [Requests -> Request] /\ task' \in [Workers -> Task]
  BY Constants DEF Crash
<1>2. \A t \in Workers : task'[t].pc = "idle"
  BY DEF Crash, NoTask
<1>3. happened \subseteq happened' /\ happened' \subseteq Events
  BY DEF Crash, Fault, Inv, TypeOK, Events, Faults
<1>4. UNCHANGED <<row, content, linked, file, yandex, client, clock, left>> /\ mirrorMu' = None
  BY DEF Crash
<1>5. TypeOK'
  BY <1>1, <1>2, <1>3, <1>4 DEF Inv, TypeOK
<1>6. Located' /\ Ordered'
  BY <1>2, <1>4 DEF Inv, Located, Ordered
<1>7. Without({"off", "moved"})' => Owned'
  BY <1>2, <1>3, <1>4, Growing DEF Inv, Owned
<1> QED BY <1>5, <1>6, <1>7 DEF Inv

LEMMA SpawnInv == ASSUME Inv, NEW p \in Requests, Spawn(p) PROVE Inv'
<1>1. op' \in [Requests -> Request]
  BY RequestType DEF Spawn, Inv, TypeOK
<1>2. UNCHANGED <<row, content, linked, file, yandex, mirrorMu, client, clock, left>>
  BY DEF Spawn
<1>3. CASE UNCHANGED task /\ (UNCHANGED happened \/ Fault("database"))
  <2>1. happened \subseteq happened' /\ happened' \subseteq Events
    BY <1>3 DEF Fault, Inv, TypeOK, Events, Faults
  <2>2. TypeOK'
    BY <1>1, <1>2, <1>3, <2>1 DEF Inv, TypeOK
  <2> QED BY <1>2, <1>3, <2>1, <2>2, Outside DEF Inv, TypeOK
<1>4. ASSUME NEW t \in Workers, task[t].pc = "idle", task' = [task EXCEPT ![t] = Waiting("sync")],
             UNCHANGED happened
      PROVE  Inv'
  <2>1. /\ task' \in [Workers -> Task] /\ task'[t] = Waiting("sync")
        /\ \A u \in Workers : u # t => task'[u] = task[u]
    BY <1>4, Constants, OneTask DEF Inv, TypeOK
  <2>2. task'[t].pc = "lock"
    BY <2>1 DEF Waiting, NoTask
  <2>3. TypeOK'
    BY <1>1, <1>2, <1>4, <2>1, <2>2 DEF Inv, TypeOK
  <2> QED BY <1>2, <1>4, <2>1, <2>2, <2>3, Harmless
<1> QED BY <1>3, <1>4 DEF Spawn

LEMMA ArriveInv ==
  ASSUME Inv, NEW t \in Workers, NEW kind \in {"sync", "delete"}, Arrive(t, kind) PROVE Inv'
<1>1. task' = [task EXCEPT ![t] = Waiting(kind)] /\ Waiting(kind) \in Task
  BY Constants DEF Arrive
<1>2. /\ task' \in [Workers -> Task] /\ task'[t] = Waiting(kind)
      /\ \A u \in Workers : u # t => task'[u] = task[u]
  BY <1>1, OneTask DEF Inv, TypeOK
<1>3. task'[t].pc = "lock"
  BY <1>2 DEF Waiting, NoTask
<1>4. left' \in Budget
  BY SpendType DEF Arrive, Inv, TypeOK
<1>5. TypeOK'
  BY <1>2, <1>3, <1>4 DEF Arrive, Inv, TypeOK
<1> QED BY <1>2, <1>3, <1>5, Harmless DEF Arrive

LEMMA AcquireInv == ASSUME Inv, NEW t \in Workers, Acquire(t) PROVE Inv'
<1> DEFINE v == [task[t] EXCEPT !.pc = "check"]
<1>1. v \in Task /\ v.pc = "check"
  BY DEF Inv, TypeOK, Task
<1>2. task' = [task EXCEPT ![t] = v]
  BY DEF Acquire
<1> HIDE DEF v
<1>3. /\ task' \in [Workers -> Task] /\ task'[t] = v
      /\ \A u \in Workers : u # t => task'[u] = task[u]
  BY <1>1, <1>2, OneTask DEF Inv, TypeOK
<1>4. \A u \in Workers : task[u].pc \in {"idle", "lock"}
  BY Constants DEF Acquire, Inv, TypeOK
<1>5. TypeOK'
  BY <1>3, <1>4 DEF Acquire, Inv, TypeOK
<1> QED BY <1>1, <1>3, <1>5, Harmless DEF Acquire

-----------------------------------------------------------------------------
(* Inside the mutex only the claims of the one goroutine matter.           *)
LEMMA Claims ==
  ASSUME Inv, TypeOK', NEW t \in Workers, task[t].pc \notin {"idle", "lock"},
         \A u \in Workers : u # t => task'[u] = task[u],
         happened \subseteq happened', UNCHANGED yandex,
         task'[t].pc \in {"upload", "publish", "remove"} => task'[t].path \in Paths,
         \A path \in Paths : file'[path].content <= content',
         task'[t].pc = "upload" =>
           /\ task'[t].content <= content'
           /\ \A path \in Paths : file'[path].content <= task'[t].content,
         Owned =>
           /\ \A path \in Paths : file'[path].there => path = DefaultPath /\ row'.here /\ row'.mirror
           /\ task'[t].pc \in {"upload", "publish", "remove"} => task'[t].path = DefaultPath
           /\ task'[t].pc \in {"render", "upload", "publish"} => row'.here /\ row'.mirror
           /\ task'[t].pc = "local" => \A path \in Paths : ~file'[path].there
  PROVE  Inv'
<1>1. \A u \in Workers : u # t => task'[u].pc \in {"idle", "lock"}
  BY Alone DEF Inv
<1>2. Located' /\ Ordered'
  BY <1>1 DEF Located, Ordered
<1>3. Without({"off", "moved"})' => Owned'
  BY <1>1, Growing DEF Inv, Owned
<1> QED BY <1>2, <1>3 DEF Inv

LEMMA SyncCheckInv == ASSUME Inv, NEW t \in Workers, SyncCheck(t) PROVE Inv'
<1>1. task[t].pc = "check"
      /\ UNCHANGED <<row, content, linked, file, yandex, op, client, clock, left, happened>>
  BY DEF SyncCheck, In
<1>2. CASE yandex.on /\ row.here /\ row.mirror
  <2> DEFINE v == [task[t] EXCEPT !.pc = "render", !.url = row.url]
  <2>1. v \in Task /\ v.pc = "render"
    <3>1. row.url \in Paths \cup {None} /\ task[t] \in Task
      BY DEF Inv, TypeOK, Row
    <3> QED BY <3>1 DEF Task
  <2>2. task' = [task EXCEPT ![t] = v] /\ mirrorMu' = mirrorMu
    BY <1>2 DEF SyncCheck
  <2> HIDE DEF v
  <2>3. /\ task' \in [Workers -> Task] /\ task'[t] = v
        /\ \A u \in Workers : u # t => task'[u] = task[u]
    BY <2>1, <2>2, OneTask DEF Inv, TypeOK
  <2>4. TypeOK'
    BY <1>1, <2>2, <2>3 DEF Inv, TypeOK
  <2> QED BY <1>1, <1>2, <2>1, <2>3, <2>4, Claims DEF Inv, Ordered, Owned
<1>3. CASE Return(t)
  <2>1. /\ task' \in [Workers -> Task] /\ task'[t].pc = "idle" /\ mirrorMu' = None
        /\ \A u \in Workers : u # t => task'[u] = task[u]
    BY <1>3, ReturnType DEF Inv, TypeOK
  <2>2. TypeOK'
    BY <1>1, <2>1, Alone DEF Inv, TypeOK
  <2> QED BY <1>1, <2>1, <2>2, Harmless
<1> QED BY <1>2, <1>3 DEF SyncCheck

LEMMA RenderInv == ASSUME Inv, NEW t \in Workers, Render(t) PROVE Inv'
<1>1. task[t].pc = "render"
      /\ UNCHANGED <<row, content, linked, file, yandex, op, client, clock, left>>
  BY DEF Render, In
<1>0. task \in [Workers -> Task] /\ yandex.path \in Paths /\ content \in Nat
  BY DEF Inv, TypeOK
<1>2. happened \subseteq happened' /\ happened' \subseteq Events
  BY DEF Render, Fault, Inv, TypeOK, Events, Faults
<1> DEFINE v == [task[t] EXCEPT !.pc = "upload", !.content = content, !.path = yandex.path]
<1>3. CASE task' = [task EXCEPT ![t] = v] /\ mirrorMu' = mirrorMu
  <2>1. v \in Task /\ v.pc = "upload" /\ v.content = content /\ v.path = yandex.path
        /\ yandex.path \in Paths
    BY <1>0 DEF Task
  <2>2. task' = [task EXCEPT ![t] = v]
    BY <1>3
  <2> HIDE DEF v
  <2>3. /\ task' \in [Workers -> Task] /\ task'[t] = v
        /\ \A u \in Workers : u # t => task'[u] = task[u]
    BY <2>1, <2>2, OneTask DEF Inv, TypeOK
  <2>4. TypeOK'
    BY <1>1, <1>2, <1>3, <2>3 DEF Inv, TypeOK
  <2>5. content \in Nat /\ \A path \in Paths : file[path].content <= content
    BY DEF Inv, TypeOK, Ordered
  <2> QED BY <1>1, <1>2, <2>1, <2>3, <2>4, <2>5, Claims DEF Owned
<1>4. CASE Return(t)
  <2>1. /\ task' \in [Workers -> Task] /\ task'[t].pc = "idle" /\ mirrorMu' = None
        /\ \A u \in Workers : u # t => task'[u] = task[u]
    BY <1>4, ReturnType DEF Inv, TypeOK
  <2>2. TypeOK'
    BY <1>1, <1>2, <2>1, Alone DEF Inv, TypeOK
  <2> QED BY <1>1, <1>2, <2>1, <2>2, Claims DEF Inv, Ordered, Owned
<1> QED BY <1>3, <1>4 DEF Render

(* A call to Yandex Disk that may replace the file of the goroutine.       *)
LEMMA CallInv ==
  ASSUME Inv, NEW t \in Workers, task[t].pc \in {"upload", "publish", "address"},
         NEW f \in File, f.content <= content, NEW next \in {"publish", "address", "store"},
         next = "publish" => task[t].pc = "upload" /\ task[t].path \in Paths,
         NEW changed,
         \/ changed = file
         \/ task[t].pc # "address" /\ changed = [file EXCEPT ![task[t].path] = f],
         Call(t, changed, next),
         UNCHANGED <<row, content, linked, yandex, op, client, clock, left>>
  PROVE  Inv'
<1>1. changed \in [Paths -> File] /\ file' \in {file, changed}
  BY DEF Inv, TypeOK, Call
<1>2. Step(t, next) \/ Step(t, "failed")
  BY DEF Call
<1>3. /\ task' \in [Workers -> Task] /\ task'[t].pc \in {next, "failed"}
      /\ task'[t].path = task[t].path /\ mirrorMu' = mirrorMu
      /\ \A u \in Workers : u # t => task'[u] = task[u]
  BY <1>2, StepType DEF Inv, TypeOK
<1>4. happened \subseteq happened' /\ happened' \subseteq Events
  BY DEF Call, Fault, Inv, TypeOK, Events, Faults
<1>5. TypeOK'
  BY <1>1, <1>3, <1>4, Alone DEF Inv, TypeOK
<1>6. \A path \in Paths :
        \/ file'[path] = file[path]
        \/ path = task[t].path /\ file'[path] = f /\ task[t].pc \in {"upload", "publish"}
  BY <1>1 DEF Inv, TypeOK
<1>7. \A path \in Paths : file'[path].content <= content
  BY <1>6 DEF Inv, Ordered
<1>8. ASSUME Owned
      PROVE  /\ \A path \in Paths : file'[path].there => path = DefaultPath /\ row.here /\ row.mirror
             /\ task'[t].pc = "publish" => task'[t].path = DefaultPath /\ row.here /\ row.mirror
  <2>1. task[t].pc \in {"upload", "publish"} => task[t].path = DefaultPath /\ row.here /\ row.mirror
    BY <1>8 DEF Owned
  <2>2. \A path \in Paths : file'[path].there => path = DefaultPath /\ row.here /\ row.mirror
    BY <1>6, <1>8, <2>1 DEF Owned
  <2> QED BY <2>1, <2>2, <1>3
<1> QED BY <1>3, <1>4, <1>5, <1>7, <1>8, Claims

LEMMA UploadInv == ASSUME Inv, NEW t \in Workers, Upload(t) PROVE Inv'
<1> DEFINE f == [there |-> TRUE, public |-> file[task[t].path].public, content |-> task[t].content]
<1>1. task[t].pc = "upload" /\ task[t].path \in Paths /\ task[t].content <= content
  BY DEF Upload, In, Inv, Located, Ordered
<1>2. f \in File /\ f.content <= content
  BY <1>1 DEF Inv, TypeOK, File, Task
<1>3. Call(t, [file EXCEPT ![task[t].path] = f], "publish")
  BY DEF Upload
<1>4. UNCHANGED <<row, content, linked, yandex, op, client, clock, left>>
  BY DEF Upload
<1> HIDE DEF f
<1> QED BY <1>1, <1>2, <1>3, <1>4, CallInv

LEMMA PublishInv == ASSUME Inv, NEW t \in Workers, Publish(t) PROVE Inv'
<1> DEFINE f == [file[task[t].path] EXCEPT !.public = TRUE]
<1>1. task[t].pc = "publish" /\ task[t].path \in Paths
  BY DEF Publish, In, Inv, Located
<1>2. f \in File /\ f.content <= content
  <2>1. file[task[t].path] \in File /\ file[task[t].path].content <= content
    BY <1>1 DEF Inv, TypeOK, Ordered
  <2> QED BY <2>1 DEF File
<1>3. Call(t, [file EXCEPT ![task[t].path] = f], "address")
  BY DEF Publish
<1>4. UNCHANGED <<row, content, linked, yandex, op, client, clock, left>>
  BY DEF Publish
<1> HIDE DEF f
<1> QED BY <1>1, <1>2, <1>3, <1>4, CallInv

LEMMA AddressInv == ASSUME Inv, NEW t \in Workers, Address(t) PROVE Inv'
<1>1. task[t].pc = "address" /\ Call(t, file, "store")
      /\ UNCHANGED <<row, content, linked, yandex, op, client, clock, left>>
  BY DEF Address, In
<1>2. NoFile \in File /\ NoFile.content <= content
  BY Constants DEF NoFile, Inv, TypeOK
<1> QED BY <1>1, <1>2, CallInv

(* A goroutine that leaves the mutex, whatever it wrote into the row.      *)
LEMMA LeaveInv ==
  ASSUME Inv, NEW t \in Workers, task[t].pc \notin {"idle", "lock"}, Return(t),
         row' \in Row, happened \subseteq happened', happened' \subseteq Events,
         file' \in [Paths -> File],
         \A path \in Paths : file'[path] = file[path] \/ file'[path] = NoFile,
         Owned => \A path \in Paths : file'[path].there => row'.here /\ row'.mirror,
         linked' \in BOOLEAN,
         client' \in [state: {"none", "reading", "has"}, rev: Nat, content: Nat],
         UNCHANGED <<content, yandex, op, clock, left>>
  PROVE  Inv'
<1>1. /\ task' \in [Workers -> Task] /\ task'[t].pc = "idle" /\ mirrorMu' = None
      /\ \A u \in Workers : u # t => task'[u] = task[u]
  BY ReturnType DEF Inv, TypeOK
<1>2. \A u \in Workers : task'[u].pc \in {"idle", "lock"}
  BY <1>1, Alone DEF Inv
<1>3. TypeOK'
  BY <1>1, <1>2 DEF Inv, TypeOK
<1>4. \A path \in Paths :
        file'[path].content <= content /\ (file'[path].there => file[path].there)
  BY DEF Inv, TypeOK, Ordered, NoFile
<1>5. Located' /\ Ordered'
  BY <1>2, <1>4 DEF Located, Ordered
<1>6. Without({"off", "moved"})' => Owned'
  BY <1>2, <1>4, Growing DEF Inv, Owned
<1> QED BY <1>3, <1>5, <1>6 DEF Inv

LEMMA StoreInv == ASSUME Inv, NEW t \in Workers, Store(t) \/ Failed(t) PROVE Inv'
<1>1. task[t].pc \in {"store", "failed"} /\ Return(t) /\ file' = file
      /\ UNCHANGED <<content, linked, yandex, op, client, clock, left>>
  BY DEF Store, Failed, In
<1>2. PICK url \in Paths \cup {None}, status \in {"synced", "error"} : SetMirror(url, status)
  <2>1. task[t].path \in Paths \cup {None} /\ task[t].url \in Paths \cup {None}
    BY DEF Inv, TypeOK, Task
  <2> QED BY <2>1 DEF Store, Failed
<1>3. [row EXCEPT !.url = url, !.status = status] \in Row
      /\ [row EXCEPT !.url = url, !.status = status].here = row.here
      /\ [row EXCEPT !.url = url, !.status = status].mirror = row.mirror
  BY DEF Inv, TypeOK, Row
<1>4. row' \in Row /\ row'.here = row.here /\ row'.mirror = row.mirror
  BY <1>2, <1>3 DEF SetMirror, Inv, TypeOK
<1>5. happened \subseteq happened' /\ happened' \subseteq Events
  BY <1>2 DEF SetMirror, Fault, Inv, TypeOK, Events, Faults
<1> QED BY <1>1, <1>4, <1>5, LeaveInv DEF Inv, TypeOK, Owned

LEMMA DeleteCheckInv == ASSUME Inv, NEW t \in Workers, DeleteCheck(t) PROVE Inv'
<1>1. task[t].pc = "check"
      /\ UNCHANGED <<row, content, linked, file, yandex, op, client, clock, left, happened>>
  BY DEF DeleteCheck, In
<1> DEFINE v == [task[t] EXCEPT !.pc = "remove", !.path = yandex.path]
<1>2. CASE task' = [task EXCEPT ![t] = v] /\ mirrorMu' = mirrorMu
  <2>1. v \in Task /\ v.pc = "remove" /\ v.path = yandex.path /\ yandex.path \in Paths
    <3>1. task \in [Workers -> Task] /\ yandex.path \in Paths
      BY DEF Inv, TypeOK
    <3> QED BY <3>1 DEF Task
  <2>2. task' = [task EXCEPT ![t] = v]
    BY <1>2
  <2> HIDE DEF v
  <2>3. /\ task' \in [Workers -> Task] /\ task'[t] = v
        /\ \A u \in Workers : u # t => task'[u] = task[u]
    BY <2>1, <2>2, OneTask DEF Inv, TypeOK
  <2>4. TypeOK'
    BY <1>1, <1>2, <2>3, Alone DEF Inv, TypeOK
  <2> QED BY <1>1, <2>1, <2>3, <2>4, Claims DEF Inv, Ordered, Owned
<1>3. CASE ~MirrorMayExist /\ Step(t, "local")
  <2>1. /\ task' \in [Workers -> Task] /\ task'[t].pc = "local" /\ mirrorMu' = mirrorMu
        /\ \A u \in Workers : u # t => task'[u] = task[u]
    BY <1>3, StepType DEF Inv, TypeOK
  <2>2. TypeOK'
    BY <1>1, <2>1, Alone DEF Inv, TypeOK
  <2>3. Owned => \A path \in Paths : ~file[path].there
    BY <1>3 DEF MirrorMayExist, Owned
  <2> QED BY <1>1, <2>1, <2>2, <2>3, Claims DEF Inv, Ordered, Owned
<1>4. CASE Return(t)
  <2>1. row \in Row /\ file \in [Paths -> File] /\ linked \in BOOLEAN
        /\ client \in [state: {"none", "reading", "has"}, rev: Nat, content: Nat]
        /\ happened \subseteq Events
    BY DEF Inv, TypeOK
  <2> QED BY <1>1, <1>4, <2>1, LeaveInv DEF Owned
<1> QED BY <1>2, <1>3, <1>4 DEF DeleteCheck

LEMMA RemoveInv == ASSUME Inv, NEW t \in Workers, Remove(t) PROVE Inv'
<1> DEFINE gone == [file EXCEPT ![task[t].path] = NoFile]
<1>1. task[t].pc = "remove" /\ task[t].path \in Paths
      /\ UNCHANGED <<row, content, linked, yandex, op, client, clock, left>>
  BY DEF Remove, In, Inv, Located
<1>2. gone \in [Paths -> File]
      /\ \A path \in Paths : gone[path] = IF path = task[t].path THEN NoFile ELSE file[path]
  BY <1>1, Constants DEF Inv, TypeOK
<1>3. happened \subseteq happened' /\ happened' \subseteq Events
  BY DEF Remove, Fault, Inv, TypeOK, Events, Faults
<1>4. CASE file' = gone /\ Step(t, "local")
  <2> HIDE DEF gone
  <2>1. /\ task' \in [Workers -> Task] /\ task'[t].pc = "local" /\ mirrorMu' = mirrorMu
        /\ \A u \in Workers : u # t => task'[u] = task[u]
    BY <1>4, StepType DEF Inv, TypeOK
  <2>2. TypeOK'
    BY <1>1, <1>2, <1>3, <1>4, <2>1, Alone DEF Inv, TypeOK
  <2>3. \A path \in Paths : file'[path].content <= content
    BY <1>2, <1>4 DEF Inv, TypeOK, Ordered, NoFile
  <2>4. Owned => \A path \in Paths : ~file'[path].there
    BY <1>1, <1>2, <1>4 DEF Owned, NoFile
  <2> QED BY <1>1, <1>3, <2>1, <2>2, <2>3, <2>4, Claims
<1>5. CASE file' \in {file, gone} /\ Return(t)
  <2> HIDE DEF gone
  <2>1. file' \in [Paths -> File]
        /\ \A path \in Paths : file'[path] = file[path] \/ file'[path] = NoFile
    BY <1>2, <1>5 DEF Inv, TypeOK
  <2>2. Owned => \A path \in Paths : file'[path].there => row.here /\ row.mirror
    BY <2>1 DEF Owned, NoFile
  <2> QED BY <1>1, <1>3, <1>5, <2>1, <2>2, LeaveInv DEF Inv, TypeOK
<1> QED BY <1>4, <1>5 DEF Remove

LEMMA LocalInv == ASSUME Inv, NEW t \in Workers, Local(t) PROVE Inv'
<1>1. task[t].pc = "local" /\ Return(t)
      /\ UNCHANGED <<content, file, yandex, op, clock, left>>
  BY DEF Local, In
<1>2. happened \subseteq happened' /\ happened' \subseteq Events
  BY DEF Local, Fault, Inv, TypeOK, Events, Faults
<1>3. row' \in Row
  BY Constants DEF Local, Inv, TypeOK, Row, Absent
<1>4. linked' \in BOOLEAN
  BY DEF Local, Inv, TypeOK
<1>5. client' \in [state: {"none", "reading", "has"}, rev: Nat, content: Nat]
  BY DEF Local, Inv, TypeOK
<1>6. Owned => \A path \in Paths : ~file[path].there
  BY <1>1 DEF Owned
<1> QED BY <1>1, <1>2, <1>3, <1>4, <1>5, <1>6, LeaveInv DEF Inv, TypeOK

-----------------------------------------------------------------------------
(* Every step keeps the invariant.                                         *)
LEMMA NextInv == Inv /\ [Next]_vars => Inv'
<1> SUFFICES ASSUME Inv, [Next]_vars PROVE Inv' OBVIOUS
<1>1. ASSUME NEW p \in Requests, Handler(p) PROVE Inv'
  BY <1>1, PutWriteInv, EntryWriteInv, InstanceWriteInv, TouchInv, SpawnInv DEF Handler
<1>2. ASSUME NEW p \in Requests, InstanceRead(p) PROVE Inv'
  BY <1>2, InstanceReadInv
<1>3. ASSUME NEW p \in Requests, NEW kind \in {"entry", "link"}, EntryRead(p, kind) PROVE Inv'
  BY <1>3, EntryReadInv
<1>4. ASSUME NEW p \in Requests, NEW mirror \in BOOLEAN, Create(p, mirror) PROVE Inv'
  BY <1>4, CreateInv
<1>5. ASSUME NEW p \in Requests, NEW mirror \in BOOLEAN, NEW enabled \in BOOLEAN,
             PutRead(p, mirror, enabled)
      PROVE  Inv'
  BY <1>5, PutReadInv
<1>6. ASSUME NEW t \in Workers, Acquire(t) PROVE Inv'
  BY <1>6, AcquireInv
<1>7. ASSUME NEW t \in Workers, Inside(t) PROVE Inv'
  BY <1>7, SyncCheckInv, RenderInv, UploadInv, PublishInv, AddressInv, StoreInv,
     DeleteCheckInv, RemoveInv, LocalInv DEF Inside
<1>8. ASSUME NEW t \in Workers, NEW kind \in {"sync", "delete"}, Arrive(t, kind) PROVE Inv'
  BY <1>8, ArriveInv
<1>9. ASSUME NEW path \in Paths, Move(path) PROVE Inv'
  BY <1>9, MoveInv
<1>10. CASE Crash
  BY <1>10, CrashInv
<1>11. CASE FetchRow \/ FetchEntries \/ Tick \/ Toggle
  BY <1>11, FetchInv
<1>12. CASE UNCHANGED vars
  <2>1. TypeOK'
    BY <1>12 DEF vars, Inv, TypeOK
  <2> QED BY <1>12, <2>1, Outside DEF vars, Inv, TypeOK
<1> QED
  BY <1>1, <1>2, <1>3, <1>4, <1>5, <1>6, <1>7, <1>8, <1>9, <1>10, <1>11, <1>12 DEF Next

(* The invariant holds.                                                    *)
LEMMA SpecInv == Spec => []Inv
BY InitInv, NextInv, PTL DEF Spec

(* Every variable keeps its type, and mirrorMu excludes: two goroutines    *)
(* are never inside SyncMirror or Delete together.                         *)
THEOREM TypeCorrect == Spec => []TypeOK
<1>1. Inv => TypeOK
  BY DEF Inv
<1> QED BY <1>1, SpecInv, PTL

(* A deleted subscription leaves no file at Yandex Disk, for any number of *)
(* requests, failing calls and crashes, if its mirror was not turned off   *)
(* and the base path not changed.                                          *)
THEOREM DeleteRemovesHolds == Spec => []DeleteRemoves
<1>1. Inv => DeleteRemoves
  BY DEF Inv, Owned, DeleteRemoves, NoOrphan
<1> QED BY <1>1, SpecInv, PTL

(* No step replaces a file by an older feed.                               *)
NotOlder == \A path \in Paths : file'[path].there => file'[path].content >= file[path].content

LEMMA NextNotOlder == Inv /\ [Next]_vars => NotOlder
<1> SUFFICES ASSUME Inv, [Next]_vars PROVE NotOlder OBVIOUS
<1>1. CASE file' = file
  BY <1>1 DEF NotOlder, Inv, TypeOK, File
<1>2. ASSUME NEW t \in Workers, Upload(t) PROVE NotOlder
  <2> DEFINE f == [there |-> TRUE, public |-> file[task[t].path].public, content |-> task[t].content]
  <2>1. task[t].content \in Nat /\ \A path \in Paths : file[path].content <= task[t].content
    BY <1>2 DEF Upload, In, Inv, TypeOK, Task, Ordered
  <2>2. file' = file \/ file' = [file EXCEPT ![task[t].path] = f]
    BY <1>2 DEF Upload, Call
  <2> HIDE DEF f
  <2>3. f.content = task[t].content
    BY DEF f
  <2>4. CASE file' = [file EXCEPT ![task[t].path] = f]
    <3>1. \A path \in Paths : file'[path] = file[path] \/ file'[path] = f
      BY <2>4 DEF Inv, TypeOK
    <3> QED BY <2>1, <2>3, <3>1 DEF NotOlder, Inv, TypeOK, File
  <2> QED BY <1>1, <2>2, <2>4
<1>3. ASSUME NEW t \in Workers, Publish(t) PROVE NotOlder
  <2> DEFINE f == [file[task[t].path] EXCEPT !.public = TRUE]
  <2>1. task[t].path \in Paths
    BY <1>3 DEF Publish, In, Inv, Located
  <2>2. f.content = file[task[t].path].content
    BY <2>1 DEF Inv, TypeOK, File
  <2>3. file' = file \/ file' = [file EXCEPT ![task[t].path] = f]
    BY <1>3 DEF Publish, Call
  <2> HIDE DEF f
  <2>4. \A path \in Paths : file'[path].content = file[path].content
    BY <2>2, <2>3 DEF Inv, TypeOK
  <2> QED BY <2>4 DEF NotOlder, Inv, TypeOK, File
<1>4. ASSUME NEW t \in Workers, Remove(t) PROVE NotOlder
  <2>1. \A path \in Paths : file'[path] = file[path] \/ file'[path] = NoFile
    BY <1>4 DEF Remove, Inv, TypeOK
  <2>2. ~NoFile.there
    BY DEF NoFile
  <2> QED BY <2>1, <2>2 DEF NotOlder, Inv, TypeOK, File
<1>5. file' = file \/ \E t \in Workers : Upload(t) \/ Publish(t) \/ Remove(t)
  BY DEF Next, vars, Handler, Inside, Create, PutRead, PutWrite, EntryRead, EntryWrite,
     InstanceRead, InstanceWrite, Touch, Spawn, Arrive, Acquire, SyncCheck, Render, Address, Call,
     Store, Failed, DeleteCheck, Local, Move, Toggle, Crash, FetchRow, FetchEntries, Tick
<1> QED BY <1>1, <1>2, <1>3, <1>4, <1>5

(* The mirror never goes back to an older feed: what a sync uploads was    *)
(* rendered inside the mutex.                                              *)
THEOREM MirrorNotOlderHolds == Spec => MirrorNotOlder
<1>1. Inv /\ [Next]_vars =>
        [\A path \in Paths : file'[path].there => file'[path].content >= file[path].content]_vars
  BY NextNotOlder DEF NotOlder
<1> QED BY <1>1, SpecInv, PTL DEF Spec, MirrorNotOlder

-----------------------------------------------------------------------------
(* Revisions.  A subscriber that has fetched something else has an older   *)
(* revision, or a request is about to raise it.                            *)
Undisturbed == left.puts = MaxPuts /\ Without({"database", "crash", "late link"})
Untold == \E p \in Requests : At(p, "touch")

Told ==
  /\ \A p \in Requests : ~At(p, "put") /\ (linked /\ At(p, "instance") => op[p].known)
  /\ client.state # "none" => client.rev <= row.rev
  /\ client.state = "has" /\ client.content # content => client.rev < row.rev \/ Untold

Revisions ==
  /\ client.state # "none" => row.here
  /\ left.puts <= MaxPuts
  /\ Undisturbed => Told

(* Mirror URLs.  Every URL that is stored or may yet be stored is that of  *)
(* a public file, until the subscription is being deleted.                 *)
Served(url) == url # None => file[url].there /\ file[url].public
Deleting == \E t \in Workers : task[t].pc = "local"
Deleted == ~row.here /\ left.creates < MaxCreates

AllServed ==
  /\ Served(row.url)
  /\ \A p \in Requests : At(p, "put") => Served(op[p].seen.url)
  /\ \A t \in Workers :
       /\ task[t].pc \in {"publish", "address", "store"} =>
            task[t].path \in Paths /\ file[task[t].path].there
       /\ task[t].pc \in {"address", "store"} => file[task[t].path].public

Smooth == Without(Faults) /\ left.creates + 1 >= MaxCreates

Urls ==
  /\ row.mirror => row.here
  /\ left.creates <= MaxCreates
  /\ row.here => left.creates < MaxCreates
  /\ \A t \in Workers : task[t].pc \in {"remove", "local"} => left.creates < MaxCreates
  /\ Without(Faults) => \A t \in Workers : task[t].pc # "failed"
  /\ Smooth => Deleting \/ Deleted \/ AllServed

-----------------------------------------------------------------------------
(* Lemmas about the helpers.                                               *)

(* Spending takes one from one budget.                                     *)
LEMMA Spending ==
  ASSUME TypeOK,
         NEW what \in {"creates", "puts", "changes", "deletes", "syncs", "settings", "fetches"},
         Spend(what)
  PROVE  /\ left'.puts = IF what = "puts" THEN left.puts - 1 ELSE left.puts
         /\ left'.creates = IF what = "creates" THEN left.creates - 1 ELSE left.creates
         /\ left.puts \in Nat /\ left.creates \in Nat /\ left[what] > 0
BY DEF TypeOK, Spend, Budget

(* The step of one request leaves the others.                              *)
LEMMA OneRequest ==
  ASSUME TypeOK, NEW p \in Requests, NEW v, op' = [op EXCEPT ![p] = v]
  PROVE  op'[p] = v /\ \A q \in Requests : q # p => op'[q] = op[q]
BY DEF TypeOK

(* A request that goes on, or ends, is at its next step.                   *)
LEMMA GoesOn ==
  ASSUME TypeOK, NEW p \in Requests
  PROVE  /\ Goto(p, "touch") => At(p, "touch")' /\ \A q \in Requests : q # p => op'[q] = op[q]
         /\ Goto(p, "spawn") => At(p, "spawn")' /\ \A q \in Requests : q # p => op'[q] = op[q]
         /\ End(p) => At(p, "idle")' /\ \A q \in Requests : q # p => op'[q] = op[q]
<1>1. Idle.pc = "idle" /\ \A pc \in {"touch", "spawn"} : [Idle EXCEPT !.pc = pc].pc = pc
  BY DEF Idle
<1>2. CASE Goto(p, "touch") \/ Goto(p, "spawn")
  <2>1. PICK pc \in {"touch", "spawn"} : Goto(p, pc)
    BY <1>2
  <2>2. op'[p] = [Idle EXCEPT !.pc = pc] /\ \A q \in Requests : q # p => op'[q] = op[q]
    BY <2>1, OneRequest DEF Goto
  <2> QED BY <1>1, <1>2, <2>2, OneRequest DEF At, Goto, End
<1>3. CASE End(p)
  BY <1>1, <1>3, OneRequest DEF At, End, Goto
<1> QED BY <1>2, <1>3

-----------------------------------------------------------------------------
(* Revisions.                                                              *)

(* Events and spent budgets do not come back.                              *)
LEMMA Disturbing ==
  ASSUME left.puts <= MaxPuts, left.puts \in Nat, left'.puts \in Nat, left'.puts <= left.puts,
         happened \subseteq happened', Undisturbed'
  PROVE  Undisturbed
<1>1. left'.puts = MaxPuts
  BY DEF Undisturbed
<1>2. MaxPuts \in Nat
  BY BoundAssumption
<1>3. left.puts = MaxPuts
  BY <1>1, <1>2
<1> QED BY <1>3 DEF Undisturbed, Without

(* A step that is none of the requests', the subscriber's or Delete's.     *)
LEMMA Aside ==
  ASSUME TypeOK, TypeOK', Revisions, UNCHANGED <<content, linked, op, client>>,
         row'.here = row.here, row'.rev = row.rev, left'.puts = left.puts,
         happened \subseteq happened'
  PROVE  Revisions'
<1>1. Undisturbed' => Undisturbed
  BY Disturbing DEF TypeOK, Budget, Revisions
<1> QED BY <1>1 DEF Revisions, Told, Untold, At

(* A request begins that does not raise the revision.                      *)
LEMMA BeginsTold ==
  ASSUME TypeOK, TypeOK', Revisions, NEW p \in Requests, NEW v, Start(p, v),
         v.pc \in {"entry", "link", "instance"}, v.pc = "instance" => v.known = linked,
         UNCHANGED <<row, content, linked, client, happened>>, left'.puts = left.puts
  PROVE  Revisions'
<1>1. At(p, "idle") /\ op'[p] = v /\ \A q \in Requests : q # p => op'[q] = op[q]
  BY OneRequest DEF Start
<1>2. Undisturbed' => Undisturbed
  BY DEF Undisturbed, Without
<1>3. Untold => Untold'
  BY <1>1 DEF Untold, At
<1>4. Told => Told'
  <2>1. ASSUME Told, NEW q \in Requests
        PROVE  ~At(q, "put")' /\ (linked /\ At(q, "instance") => op[q].known)'
    BY <1>1, <2>1 DEF Told, At
  <2> QED BY <1>3, <2>1 DEF Told
<1> QED BY <1>2, <1>4 DEF Revisions

(* The feed changes, and the request is going to raise the revision, or    *)
(* it does not change for anybody.                                         *)
LEMMA ChangesTold ==
  ASSUME TypeOK, TypeOK', Revisions, NEW p \in Requests,
         UNCHANGED <<row, client, left>>, happened \subseteq happened',
         \A q \in Requests : q # p => op'[q] = op[q],
         Undisturbed' => \/ At(p, "touch")'
                         \/ content' = content /\ ~At(p, "touch")
                              /\ At(p, "idle")',
         Undisturbed' => \/ linked' => linked
                         \/ \A q \in Requests : At(q, "instance") => op[q].known
  PROVE  Revisions'
<1>1. Undisturbed' => Undisturbed
  BY Disturbing DEF TypeOK, Budget, Revisions
<1> SUFFICES ASSUME Undisturbed', Told PROVE Told'
  BY <1>1 DEF Revisions
<1>2. \A q \in Requests : ~At(q, "put")' /\ (linked /\ At(q, "instance") => op[q].known)'
  <2> SUFFICES ASSUME NEW q \in Requests
               PROVE  ~At(q, "put")' /\ (linked /\ At(q, "instance") => op[q].known)'
    OBVIOUS
  <2>1. CASE q = p
    BY <2>1 DEF At
  <2>2. CASE q # p
    BY <2>2 DEF At, Told
  <2> QED BY <2>1, <2>2
<1>3. CASE At(p, "touch")'
  BY <1>2, <1>3 DEF Told, Untold
<1>4. CASE content' = content /\ ~At(p, "touch")
  <2>1. Untold => Untold'
    BY <1>4 DEF Untold, At
  <2> QED BY <1>2, <1>4, <2>1 DEF Told
<1> QED BY <1>3, <1>4

(* A new subscription has no subscribers yet.                              *)
LEMMA CreateTold ==
  ASSUME TypeOK, TypeOK', Revisions, NEW p \in Requests, NEW mirror \in BOOLEAN,
         Create(p, mirror)
  PROVE  Revisions'
<1>1. ~row.here /\ client' = client /\ client.state = "none" /\ linked' = linked
  BY DEF Create, Revisions
<1>2. left'.puts = left.puts
  BY Spending DEF Create
<1>3. happened \subseteq happened'
  BY DEF Create, Fault
<1>4. Undisturbed' => Undisturbed
  BY <1>2, <1>3 DEF Undisturbed, Without
<1>5. PICK v : Start(p, v) /\ v.pc \in {"touch", "idle"}
  <2> DEFINE w == [Idle EXCEPT !.pc = IF mirror THEN "touch" ELSE "idle"]
  <2>1. w.pc \in {"touch", "idle"} /\ Idle.pc = "idle"
    BY DEF Idle
  <2> HIDE DEF w
  <2>2. Start(p, w) \/ Start(p, Idle)
    BY DEF Create, w
  <2> QED BY <2>1, <2>2
<1>6. op'[p] = v /\ \A q \in Requests : q # p => op'[q] = op[q]
  BY <1>5, OneRequest DEF Start
<1>7. Told => Told'
  BY <1>1, <1>5, <1>6 DEF Told, At
<1> QED BY <1>1, <1>2, <1>4, <1>7 DEF Revisions

(* An update of the subscription is an exception.                          *)
LEMMA PutReadTold ==
  ASSUME TypeOK, Revisions, NEW p \in Requests, NEW mirror \in BOOLEAN,
         NEW enabled \in BOOLEAN, PutRead(p, mirror, enabled)
  PROVE  Revisions'
<1>1. left'.puts = left.puts - 1 /\ left.puts \in Nat /\ left.puts > 0
  BY Spending DEF PutRead
<1>2. left.puts <= MaxPuts /\ MaxPuts \in Nat
  BY BoundAssumption DEF Revisions
<1>4. left'.puts # MaxPuts /\ left'.puts <= MaxPuts
  BY <1>1, <1>2
<1>5. ~Undisturbed'
  BY <1>4 DEF Undisturbed
<1> QED BY <1>4, <1>5 DEF PutRead, Revisions

(* Without one under way none writes.                                      *)
LEMMA PutWriteTold ==
  ASSUME TypeOK, TypeOK', Revisions, NEW p \in Requests, PutWrite(p) PROVE Revisions'
<1>1. ~Undisturbed
  BY DEF PutWrite, Revisions, Told
<1>2. happened \subseteq happened' /\ left' = left
  BY DEF PutWrite
<1>3. ~Undisturbed'
  BY <1>1, <1>2 DEF Undisturbed, Without
<1>4. client' = client /\ (row.here => row'.here)
  <2> DEFINE written == [row EXCEPT !.enabled = op[p].enabled, !.mirror = op[p].mirror,
                                    !.url = op[p].seen.url, !.rev = clock,
                                    !.status = IF op[p].mirror THEN op[p].seen.status ELSE "disabled"]
  <2>1. written.here = row.here
    BY DEF TypeOK, Row
  <2>2. row' = written \/ row' = row
    BY DEF PutWrite
  <2> HIDE DEF written
  <2> QED BY <2>1, <2>2 DEF PutWrite
<1> QED BY <1>2, <1>3, <1>4 DEF Revisions

(* A request that will change an entry or an instance.                     *)
LEMMA ReadTold ==
  ASSUME TypeOK, TypeOK', Revisions, NEW p \in Requests,
         InstanceRead(p) \/ \E kind \in {"entry", "link"} : EntryRead(p, kind)
  PROVE  Revisions'
<1>1. CASE InstanceRead(p)
  <2> DEFINE v == [Idle EXCEPT !.pc = "instance", !.known = linked]
  <2>1. v.pc = "instance" /\ v.known = linked
    BY DEF Idle
  <2>2. left'.puts = left.puts
    BY <1>1, Spending DEF InstanceRead
  <2>3. Start(p, v) /\ UNCHANGED <<row, content, linked, client, happened>>
    BY <1>1 DEF InstanceRead
  <2> HIDE DEF v
  <2> QED BY <2>1, <2>2, <2>3, BeginsTold
<1>2. ASSUME NEW kind \in {"entry", "link"}, EntryRead(p, kind) PROVE Revisions'
  <2> DEFINE v == [Idle EXCEPT !.pc = kind, !.known = TRUE]
  <2>1. v.pc = kind
    BY DEF Idle
  <2>2. left'.puts = left.puts
    BY <1>2, Spending DEF EntryRead
  <2>3. Start(p, v) /\ UNCHANGED <<row, content, linked, client, happened>>
    BY <1>2 DEF EntryRead
  <2> HIDE DEF v
  <2> QED BY <2>1, <2>2, <2>3, BeginsTold
<1> QED BY <1>1, <1>2

(* A changed entry; who links an instance is followed by an instance       *)
(* request that knows of it, or the link is late.                          *)
LEMMA EntryWriteTold ==
  ASSUME TypeOK, TypeOK', Revisions, NEW p \in Requests, EntryWrite(p) PROVE Revisions'
<1>1. ~At(p, "touch") /\ UNCHANGED <<row, client, left>>
  BY DEF EntryWrite, At
<1>2. happened \subseteq happened'
  BY DEF EntryWrite
<1>3. Goto(p, "touch") \/ End(p)
  BY DEF EntryWrite
<1>4. \A q \in Requests : q # p => op'[q] = op[q]
  BY <1>3, GoesOn
<1>5. Undisturbed' => At(p, "touch")' \/ (content' = content /\ At(p, "idle")')
  <2>1. Goto(p, "touch") => At(p, "touch")'
    BY GoesOn
  <2>2. End(p) => At(p, "idle")'
    BY GoesOn
  <2>3. Goto(p, "touch") \/ "database" \in happened' \/ (End(p) /\ content' = content)
    BY DEF EntryWrite
  <2> QED BY <2>1, <2>2, <2>3 DEF Undisturbed, Without
<1>6. Undisturbed' => \/ linked' => linked
                      \/ \A q \in Requests : At(q, "instance") => op[q].known
  <2>1. CASE linked' => linked
    BY <2>1
  <2>2. CASE At(p, "link") /\ LateLink(p) \subseteq happened'
    BY <2>2 DEF LateLink, Undisturbed, Without
  <2> QED BY <2>1, <2>2 DEF EntryWrite
<1> QED BY <1>1, <1>2, <1>4, <1>5, <1>6, ChangesTold

(* A changed instance; without a link it does not concern the feed.        *)
LEMMA InstanceWriteTold ==
  ASSUME TypeOK, TypeOK', Revisions, NEW p \in Requests, InstanceWrite(p) PROVE Revisions'
<1>1. At(p, "instance") /\ ~At(p, "touch") /\ UNCHANGED <<row, client, left>>
  BY DEF InstanceWrite, At
<1>2. happened \subseteq happened'
  BY DEF InstanceWrite, Fault
<1>3. (op[p].known /\ Goto(p, "touch")) \/ (~op[p].known /\ End(p))
        \/ (End(p) /\ "database" \in happened')
  BY DEF InstanceWrite, Fault
<1>4. \A q \in Requests : q # p => op'[q] = op[q]
  BY <1>3, GoesOn
<1>5. Undisturbed' => Told
  BY <1>1, <1>2 DEF Revisions, Undisturbed, Without
<1>6. ASSUME Undisturbed'
      PROVE  At(p, "touch")' \/ (content' = content /\ At(p, "idle")')
  <2>1. CASE op[p].known /\ Goto(p, "touch")
    BY <2>1, GoesOn
  <2>2. CASE ~op[p].known /\ End(p)
    <3>1. ~linked
      BY <1>1, <1>5, <1>6, <2>2 DEF Told
    <3> QED BY <2>2, <3>1, GoesOn DEF InstanceWrite
  <2>3. "database" \notin happened'
    BY <1>6 DEF Undisturbed, Without
  <2> QED BY <1>3, <2>1, <2>2, <2>3
<1>7. linked' => linked
  BY DEF InstanceWrite
<1> QED BY <1>1, <1>2, <1>4, <1>6, <1>7, ChangesTold

(* TouchSubscriptions raises the revision above what anybody has.          *)
LEMMA TouchTold ==
  ASSUME TypeOK, TypeOK', Revisions, NEW p \in Requests, Touch(p) PROVE Revisions'
<1>1. UNCHANGED <<content, linked, client, left>> /\ happened \subseteq happened'
  BY DEF Touch, Fault
<1>2. Undisturbed' => Undisturbed
  BY <1>1 DEF Undisturbed, Without
<1>3. At(p, "spawn")' /\ \A q \in Requests : q # p => op'[q] = op[q]
  BY GoesOn DEF Touch
<1>4. NextRevision > row.rev /\ NextRevision \in Nat /\ row.rev \in Nat
  BY DEF NextRevision, TypeOK, Row
<1> DEFINE touched == [row EXCEPT !.rev = NextRevision]
<1>5. touched.here = row.here /\ touched.rev = NextRevision
  BY DEF TypeOK, Row
<1>6. (row.here => row' = touched \/ "database" \in happened') /\ (row' = touched \/ row' = row)
  BY DEF Touch, Fault
<1> HIDE DEF touched
<1>7. row'.here = row.here
  BY <1>5, <1>6
<1>8. ASSUME Undisturbed', Told, client.state # "none" PROVE client.rev < row'.rev
  <2>1. row' = touched
    BY <1>6, <1>8 DEF Revisions, Undisturbed, Without
  <2> QED BY <1>4, <1>5, <1>8, <2>1 DEF Told, TypeOK
<1>9. ASSUME Undisturbed', Told PROVE Told'
  <2>1. \A q \in Requests : ~At(q, "put")' /\ (linked /\ At(q, "instance") => op[q].known)'
    BY <1>1, <1>3, <1>9 DEF Told, At
  <2>2. client'.state # "none" => client'.rev < row'.rev
    BY <1>1, <1>8, <1>9
  <2>3. client'.rev \in Nat /\ row'.rev \in Nat
    BY DEF TypeOK, Row
  <2>4. client'.state # "none" => client'.rev <= row'.rev
    BY <2>2, <2>3
  <2>5. client'.state = "has" => client'.rev < row'.rev
    BY <2>2
  <2> QED BY <2>1, <2>4, <2>5 DEF Told
<1> QED BY <1>1, <1>2, <1>7, <1>9 DEF Revisions

(* The second half of subscriptionsChanged raises nothing.                 *)
LEMMA SpawnTold ==
  ASSUME TypeOK, TypeOK', Revisions, NEW p \in Requests, Spawn(p) PROVE Revisions'
<1>1. UNCHANGED <<row, content, linked, client, left>> /\ happened \subseteq happened'
  BY DEF Spawn, Fault
<1>2. ~At(p, "touch") /\ At(p, "idle")' /\ \A q \in Requests : q # p => op'[q] = op[q]
  BY GoesOn DEF Spawn, At
<1> QED BY <1>1, <1>2, ChangesTold

(* The subscriber reads the revision before what it is the revision of.    *)
LEMMA FetchTold ==
  ASSUME TypeOK, Revisions, FetchRow \/ FetchEntries PROVE Revisions'
<1>1. UNCHANGED <<row, content, linked, op, happened>> /\ left'.puts = left.puts
  BY Spending DEF FetchRow, FetchEntries
<1>2. Undisturbed' => Undisturbed
  BY <1>1 DEF Undisturbed, Without
<1>3. CASE FetchRow
  <2>1. client'.state = "reading" /\ client'.rev = row.rev /\ row.here /\ row.rev \in Nat
    BY <1>3 DEF FetchRow, TypeOK, Row
  <2> QED BY <1>1, <1>2, <2>1 DEF Revisions, Told, At
<1>4. CASE FetchEntries
  <2>1. client'.content = content /\ client'.rev = client.rev /\ client.state # "none"
    BY <1>4 DEF FetchEntries, TypeOK
  <2> QED BY <1>1, <1>2, <2>1 DEF Revisions, Told, At
<1> QED BY <1>3, <1>4

(* With the subscription its subscribers go.                               *)
LEMMA LocalTold == ASSUME TypeOK, Revisions, NEW t \in Workers, Local(t) PROVE Revisions'
<1>1. UNCHANGED <<content, op, left>> /\ happened \subseteq happened'
  BY DEF Local, Fault
<1>2. Undisturbed' => Undisturbed
  BY <1>1 DEF Undisturbed, Without
<1>3. (~linked' /\ client'.state = "none") \/ UNCHANGED <<row, linked, client>>
  BY DEF Local
<1> QED BY <1>1, <1>2, <1>3 DEF Revisions, Told, Untold, At

(* A crash is an exception.                                                *)
LEMMA CrashTold == ASSUME Revisions, Crash PROVE Revisions'
BY DEF Crash, Fault, Revisions, Undisturbed, Without

(* The goroutines at Yandex Disk write neither the revision nor the feed.  *)
LEMMA AsideTold ==
  ASSUME TypeOK, TypeOK', Revisions,
         \/ \E t \in Workers : \/ Acquire(t) \/ \E kind \in {"sync", "delete"} : Arrive(t, kind)
                               \/ Inside(t) /\ ~Local(t)
         \/ \E path \in Paths : Move(path)
         \/ Toggle \/ Tick \/ UNCHANGED vars
  PROVE  Revisions'
<1>1. UNCHANGED <<content, linked, op, client>>
  BY DEF Acquire, Arrive, Inside, SyncCheck, Render, Upload, Publish, Address, Store, Failed,
     DeleteCheck, Remove, Move, Toggle, Tick, vars
<1>2. happened \subseteq happened'
  BY DEF Acquire, Arrive, Inside, SyncCheck, Render, Upload, Publish, Address, Call, Store, Failed,
     SetMirror, Fault, DeleteCheck, Remove, Move, Toggle, Event, Tick, vars
<1>3. left'.puts = left.puts
  <2>1. left' = left \/ \E what \in {"deletes", "syncs", "settings"} : Spend(what)
    BY DEF Acquire, Arrive, Inside, SyncCheck, Render, Upload, Publish, Address, Store, Failed,
       DeleteCheck, Remove, Move, Toggle, Tick, vars
  <2> QED BY <2>1, Spending
<1>4. row'.here = row.here /\ row'.rev = row.rev
  <2>1. row' = row \/ \E url, status : row' = [row EXCEPT !.url = url, !.status = status]
    BY DEF Acquire, Arrive, Inside, SyncCheck, Render, Upload, Publish, Address, Store, Failed,
       SetMirror, DeleteCheck, Remove, Move, Toggle, Tick, vars
  <2>2. row \in Row
    BY DEF TypeOK
  <2>3. CASE row' = row
    BY <2>3
  <2>4. CASE \E url, status : row' = [row EXCEPT !.url = url, !.status = status]
    <3>1. PICK url, status : row' = [row EXCEPT !.url = url, !.status = status]
      BY <2>4
    <3>2. row'.here = row.here
      BY <2>2, <3>1 DEF Row
    <3>3. row'.rev = row.rev
      BY <2>2, <3>1 DEF Row
    <3> QED BY <3>2, <3>3
  <2> QED BY <2>1, <2>3, <2>4
<1> QED BY <1>1, <1>2, <1>3, <1>4, Aside

(* At the start there is neither a feed nor a subscriber.                  *)
LEMMA InitTold == Init => Revisions
BY BoundAssumption DEF Init, Revisions, Told, Limits, Absent, Idle, At

(* Every step.                                                             *)
LEMMA NextTold == TypeOK /\ TypeOK' /\ Revisions /\ [Next]_vars => Revisions'
<1> SUFFICES ASSUME TypeOK, TypeOK', Revisions, [Next]_vars PROVE Revisions' OBVIOUS
<1>1. ASSUME NEW p \in Requests, Handler(p) PROVE Revisions'
  BY <1>1, PutWriteTold, EntryWriteTold, InstanceWriteTold, TouchTold, SpawnTold DEF Handler
<1>2. ASSUME NEW p \in Requests,
             InstanceRead(p) \/ \E kind \in {"entry", "link"} : EntryRead(p, kind)
      PROVE  Revisions'
  BY <1>2, ReadTold
<1>3. ASSUME NEW p \in Requests, NEW mirror \in BOOLEAN, Create(p, mirror) PROVE Revisions'
  BY <1>3, CreateTold
<1>4. ASSUME NEW p \in Requests, NEW mirror \in BOOLEAN, NEW enabled \in BOOLEAN,
             PutRead(p, mirror, enabled)
      PROVE  Revisions'
  BY <1>4, PutReadTold
<1>5. ASSUME NEW t \in Workers, Inside(t) PROVE Revisions'
  BY <1>5, LocalTold, AsideTold
<1>6. ASSUME NEW t \in Workers,
             Acquire(t) \/ \E kind \in {"sync", "delete"} : Arrive(t, kind)
      PROVE  Revisions'
  BY <1>6, AsideTold
<1>7. CASE (\E path \in Paths : Move(path)) \/ Toggle \/ Tick \/ UNCHANGED vars
  BY <1>7, AsideTold
<1>8. CASE FetchRow \/ FetchEntries
  BY <1>8, FetchTold
<1>9. CASE Crash
  BY <1>9, CrashTold
<1> QED BY <1>1, <1>2, <1>3, <1>4, <1>5, <1>6, <1>7, <1>8, <1>9 DEF Next

(* A subscriber that has fetched something else than there is now will see *)
(* another revision, for any number of changes, instances and syncs; the   *)
(* exceptions are those of ClientsNotice.                                  *)
THEOREM ClientsNoticeHolds == Spec => []ClientsNotice
<1>1. TypeOK /\ Revisions => ClientsNotice
  <2> SUFFICES ASSUME TypeOK, Revisions, client.state = "has", Quiet, client.content # content,
                      Undisturbed
               PROVE  client.rev # row.rev
    BY DEF ClientsNotice, Undisturbed
  <2>1. ~Untold
    BY DEF Quiet, Untold, At, Idle
  <2>2. client.rev < row.rev
    BY <2>1 DEF Revisions, Told
  <2> QED BY <2>2 DEF TypeOK, Row
<1> QED BY <1>1, InitTold, NextTold, TypeCorrect, PTL DEF Spec

-----------------------------------------------------------------------------
(* Mirror URLs.                                                            *)

(* Faults do not come back, and at most one subscription was created.      *)
LEMMA Smoother ==
  ASSUME happened \subseteq happened'
  PROVE  /\ Without(Faults)' => Without(Faults)
         /\ left'.creates = left.creates /\ Smooth' => Smooth
BY DEF Smooth, Without

(* A URL stays good while files only come to be.                           *)
LEMMA StaysServed ==
  ASSUME NEW url \in Paths \cup {None}, Served(url),
         \A path \in Paths : /\ file[path].there => file'[path].there
                             /\ file[path].public => file'[path].public
  PROVE  url # None => file'[url].there /\ file'[url].public
BY DEF Served

(* The URLs of the rows that requests have read.                           *)
LEMMA SeenUrl == ASSUME TypeOK, NEW p \in Requests PROVE op[p].seen.url \in Paths \cup {None}
BY DEF TypeOK, Request, Row

(* A step that writes no URL, no file, and is not behind the upload.       *)
LEMMA Leaves ==
  ASSUME TypeOK, Urls, file' = file, row'.url = row.url, row'.here = row.here,
         row'.mirror = row.mirror, left'.creates = left.creates, happened \subseteq happened',
         \A p \in Requests : At(p, "put")' => op'[p] = op[p],
         \A t \in Workers : \/ task'[t] = task[t]
                            \/ task'[t].pc \in {"idle", "lock", "check", "render", "upload"}
                                 /\ task[t].pc # "local"
  PROVE  Urls'
<1>1. (Without(Faults)' => Without(Faults)) /\ (Smooth' => Smooth)
  BY Smoother
<1>2. Deleting => Deleting'
  BY DEF Deleting
<1>3. AllServed => AllServed'
  <2> SUFFICES ASSUME AllServed PROVE AllServed' OBVIOUS
  <2>1. Served(row.url)'
    BY DEF AllServed, Served
  <2>2. ASSUME NEW p \in Requests, At(p, "put")' PROVE Served(op[p].seen.url)'
    <3>1. op'[p] = op[p] /\ At(p, "put")
      BY <2>2 DEF At
    <3>2. Served(op[p].seen.url)
      BY <3>1 DEF AllServed
    <3> QED BY <3>1, <3>2 DEF Served
  <2>3. ASSUME NEW t \in Workers
        PROVE  /\ task'[t].pc \in {"publish", "address", "store"} =>
                    task'[t].path \in Paths /\ file'[task'[t].path].there
               /\ task'[t].pc \in {"address", "store"} => file'[task'[t].path].public
    BY <2>3 DEF AllServed
  <2> QED BY <2>1, <2>2, <2>3 DEF AllServed
<1>4. Deleted => Deleted'
  BY DEF Deleted
<1>5. \A t \in Workers : /\ task'[t].pc \in {"remove", "local"} => task[t].pc = task'[t].pc
                         /\ task'[t].pc = "failed" => task[t].pc = "failed"
  OBVIOUS
<1> QED BY <1>1, <1>2, <1>3, <1>4, <1>5 DEF Urls

(* The first subscription has no URL, and there is no second one.          *)
LEMMA CreateUrls ==
  ASSUME TypeOK, Urls, NEW p \in Requests, NEW mirror \in BOOLEAN, Create(p, mirror)
  PROVE  Urls'
<1>1. left'.creates = left.creates - 1 /\ left.creates \in Nat
  BY Spending DEF Create
<1>2. MaxCreates \in Nat /\ left.creates <= MaxCreates
  BY BoundAssumption DEF Urls
<1>3. left'.creates < MaxCreates /\ left'.creates <= MaxCreates
  BY <1>1, <1>2
<1>4. row'.here /\ row'.url = None /\ UNCHANGED <<file, task>> /\ happened \subseteq happened'
  BY DEF Create, Absent, Fault
<1>5. ASSUME NEW q \in Requests, At(q, "put")' PROVE At(q, "put") /\ op'[q] = op[q]
  <2> DEFINE v == [Idle EXCEPT !.pc = IF mirror THEN "touch" ELSE "idle"]
  <2>1. v.pc # "put" /\ Idle.pc # "put"
    BY DEF Idle
  <2> HIDE DEF v
  <2>2. op' = [op EXCEPT ![p] = v] \/ op' = [op EXCEPT ![p] = Idle]
    BY DEF Create, Start, v
  <2>3. q # p
    BY <1>5, <2>1, <2>2, OneRequest DEF At
  <2> QED BY <1>5, <2>2, <2>3, OneRequest DEF At
<1>6. ASSUME Smooth' PROVE AllServed'
  <2>1. left'.creates + 1 >= MaxCreates
    BY <1>6 DEF Smooth
  <2>2. left.creates = MaxCreates
    BY <1>1, <1>2, <2>1
  <2>3. ~Deleting /\ ~Deleted
    BY <1>2, <2>2 DEF Urls, Deleting, Deleted
  <2>4. Without(Faults)
    BY <1>4, <1>6, Smoother DEF Smooth
  <2>5. left.creates + 1 >= MaxCreates
    BY <1>2, <2>2
  <2>6. AllServed
    BY <2>3, <2>4, <2>5 DEF Urls, Smooth
  <2>7. ASSUME NEW q \in Requests, At(q, "put")' PROVE Served(op[q].seen.url)'
    BY <1>4, <1>5, <2>6, <2>7 DEF AllServed, Served
  <2>8. \A t \in Workers : task'[t] = task[t]
    BY <1>4
  <2> QED BY <1>4, <2>6, <2>7, <2>8 DEF AllServed, Served
<1>7. Without(Faults)' => Without(Faults)
  BY <1>4, Smoother
<1>8. \A t \in Workers : task'[t] = task[t]
  BY <1>4
<1> QED BY <1>3, <1>4, <1>6, <1>7, <1>8 DEF Urls

(* What an update will write back is the URL it read.                      *)
LEMMA PutReadUrls ==
  ASSUME TypeOK, Urls, NEW p \in Requests, NEW mirror \in BOOLEAN, NEW enabled \in BOOLEAN,
         PutRead(p, mirror, enabled)
  PROVE  Urls'
<1> DEFINE seen == [row EXCEPT !.rev = 0]
           v == [pc |-> "put", known |-> TRUE, mirror |-> mirror, enabled |-> enabled, seen |-> seen]
<1>1. seen.url = row.url
  BY DEF TypeOK, Row
<1>2. v.seen = seen
  OBVIOUS
<1>3. op' = [op EXCEPT ![p] = v]
  BY DEF PutRead, Start
<1> HIDE DEF v
<1>4. op'[p].seen.url = row.url /\ \A q \in Requests : q # p => op'[q] = op[q]
  BY <1>1, <1>2, <1>3, OneRequest
<1>5. UNCHANGED <<row, file, task, happened>> /\ left'.creates = left.creates
  BY Spending DEF PutRead
<1>6. Smooth' => Smooth
  BY <1>5 DEF Smooth, Without
<1>7. AllServed => AllServed'
  <2>1. ASSUME AllServed, NEW q \in Requests, At(q, "put")' PROVE Served(op[q].seen.url)'
    <3>1. CASE q = p
      BY <1>4, <1>5, <2>1, <3>1 DEF AllServed, Served
    <3>2. CASE q # p
      BY <1>4, <1>5, <2>1, <3>2 DEF AllServed, Served, At
    <3> QED BY <3>1, <3>2
  <2> QED BY <1>5, <2>1 DEF AllServed, Served
<1> QED BY <1>5, <1>6, <1>7 DEF Urls, Deleting, Deleted, Without

(* So what it writes is good, too.                                         *)
LEMMA PutWriteUrls == ASSUME TypeOK, Urls, NEW p \in Requests, PutWrite(p) PROVE Urls'
<1> DEFINE written == [row EXCEPT !.enabled = op[p].enabled, !.mirror = op[p].mirror,
                                  !.url = op[p].seen.url, !.rev = clock,
                                  !.status = IF op[p].mirror THEN op[p].seen.status ELSE "disabled"]
<1>1. written.here = row.here /\ written.url = op[p].seen.url
  BY DEF TypeOK, Row
<1>2. (row.here /\ row' = written) \/ row' = row
  BY DEF PutWrite
<1> HIDE DEF written
<1>3. row'.here = row.here /\ (row'.mirror => row'.here)
  BY <1>1, <1>2 DEF Urls
<1>4. UNCHANGED <<file, task, left>> /\ happened \subseteq happened' /\ At(p, "put")
  BY DEF PutWrite
<1>5. \A q \in Requests : At(q, "put")' => At(q, "put") /\ op'[q] = op[q]
  <2>1. Goto(p, "touch") \/ End(p)
    BY DEF PutWrite
  <2>2. ~At(p, "put")' /\ \A q \in Requests : q # p => op'[q] = op[q]
    BY <2>1, GoesOn DEF At
  <2> QED BY <2>2 DEF At
<1>6. (Without(Faults)' => Without(Faults)) /\ (Smooth' => Smooth)
  BY <1>4, Smoother
<1>7. AllServed => AllServed'
  <2> SUFFICES ASSUME AllServed PROVE AllServed' OBVIOUS
  <2>1. Served(row.url)'
    BY <1>1, <1>2, <1>4 DEF AllServed, Served
  <2>2. \A q \in Requests : At(q, "put")' => Served(op[q].seen.url)'
    BY <1>4, <1>5 DEF AllServed, Served
  <2> QED BY <1>4, <2>1, <2>2 DEF AllServed
<1> QED BY <1>3, <1>4, <1>6, <1>7 DEF Urls, Deleting, Deleted

(* The other requests, the subscriber, the settings and the clock.         *)
LEMMA OtherUrls ==
  ASSUME TypeOK, Urls,
         \/ \E p \in Requests :
              \/ EntryWrite(p) \/ InstanceWrite(p) \/ Touch(p) \/ Spawn(p) \/ InstanceRead(p)
              \/ \E kind \in {"entry", "link"} : EntryRead(p, kind)
         \/ \E path \in Paths : Move(path)
         \/ Toggle \/ FetchRow \/ FetchEntries \/ Tick \/ UNCHANGED vars
  PROVE  Urls'
<1>1. file' = file
  BY DEF EntryWrite, InstanceWrite, Touch, Spawn, InstanceRead, EntryRead, Move, Toggle, FetchRow,
     FetchEntries, Tick, vars
<1>2. happened \subseteq happened'
  BY DEF EntryWrite, InstanceWrite, Touch, Spawn, InstanceRead, EntryRead, Move, Toggle, FetchRow,
     FetchEntries, Tick, vars, Fault, Event
<1>3. left'.creates = left.creates
  <2>1. left' = left \/ \E what \in {"changes", "settings", "fetches"} : Spend(what)
    BY DEF EntryWrite, InstanceWrite, Touch, Spawn, InstanceRead, EntryRead, Move, Toggle, FetchRow,
       FetchEntries, Tick, vars
  <2> QED BY <2>1, Spending
<1>4. row'.here = row.here /\ row'.mirror = row.mirror /\ row'.url = row.url
  <2>1. row' = row \/ row' = [row EXCEPT !.rev = NextRevision]
    BY DEF EntryWrite, InstanceWrite, Touch, Spawn, InstanceRead, EntryRead, Move, Toggle, FetchRow,
       FetchEntries, Tick, vars
  <2> QED BY <2>1 DEF TypeOK, Row
<1>5. \A q \in Requests : At(q, "put")' => op'[q] = op[q]
  <2>1. CASE op' = op
    BY <2>1
  <2>2. ASSUME NEW p \in Requests, Goto(p, "touch") \/ Goto(p, "spawn") \/ End(p)
        PROVE  \A q \in Requests : At(q, "put")' => op'[q] = op[q]
    BY <2>2, GoesOn DEF At
  <2>3. ASSUME NEW p \in Requests, NEW kind \in {"entry", "link", "instance"}, NEW known,
               op' = [op EXCEPT ![p] = [Idle EXCEPT !.pc = kind, !.known = known]]
        PROVE  \A q \in Requests : At(q, "put")' => op'[q] = op[q]
    <3> DEFINE v == [Idle EXCEPT !.pc = kind, !.known = known]
    <3>1. v.pc # "put"
      BY DEF Idle
    <3> HIDE DEF v
    <3>2. op'[p] = v /\ \A q \in Requests : q # p => op'[q] = op[q]
      BY <2>3, OneRequest DEF v
    <3> QED BY <3>1, <3>2 DEF At
  <2>4. \/ op' = op
        \/ \E p \in Requests : Goto(p, "touch") \/ Goto(p, "spawn") \/ End(p)
        \/ \E p \in Requests, kind \in {"entry", "link", "instance"}, known \in BOOLEAN :
             op' = [op EXCEPT ![p] = [Idle EXCEPT !.pc = kind, !.known = known]]
    <3>1. linked \in BOOLEAN
      BY DEF TypeOK
    <3> QED BY <3>1 DEF EntryWrite, InstanceWrite, Touch, Spawn, InstanceRead, EntryRead, Start, Move,
               Toggle, FetchRow, FetchEntries, Tick, vars
  <2> QED BY <2>1, <2>2, <2>3, <2>4
<1>6. \A t \in Workers : \/ task'[t] = task[t]
                         \/ task'[t].pc \in {"idle", "lock", "check", "render", "upload"}
                              /\ task[t].pc # "local"
  <2>1. \/ task' = task
        \/ \E u \in Workers : task[u].pc = "idle" /\ task' = [task EXCEPT ![u] = Waiting("sync")]
    BY DEF EntryWrite, InstanceWrite, Touch, Spawn, InstanceRead, EntryRead, Move, Toggle, FetchRow,
       FetchEntries, Tick, vars
  <2>2. Waiting("sync").pc = "lock"
    BY DEF Waiting, NoTask
  <2> QED BY <2>1, <2>2 DEF TypeOK
<1> QED BY <1>1, <1>2, <1>3, <1>4, <1>5, <1>6, Leaves

(* A goroutine before the upload, or one that has nothing to do.           *)
Arrives(t) == \E kind \in {"sync", "delete"} : Arrive(t, kind)
Early(t) == Acquire(t) \/ SyncCheck(t) \/ Render(t) \/ (DeleteCheck(t) /\ Return(t)) \/ Arrives(t)

LEMMA EarlyUrls == ASSUME TypeOK, Urls, NEW t \in Workers, Early(t) PROVE Urls'
<1>1. UNCHANGED <<row, file, op>> /\ happened \subseteq happened'
  BY DEF Early, Arrives, Acquire, SyncCheck, Render, DeleteCheck, Arrive, Fault
<1>2. left'.creates = left.creates
  <2>1. left' = left \/ \E what \in {"syncs", "deletes"} : Spend(what)
    BY DEF Early, Arrives, Acquire, SyncCheck, Render, DeleteCheck, Arrive
  <2> QED BY <2>1, Spending
<1>3. task[t].pc # "local"
  BY DEF Early, Arrives, Acquire, SyncCheck, Render, DeleteCheck, Arrive, In
<1>4. PICK v : task' = [task EXCEPT ![t] = v]
  BY DEF Early, Arrives, Acquire, SyncCheck, Render, DeleteCheck, Arrive, Return
<1>5. task'[t].pc \in {"idle", "lock", "check", "render", "upload"}
  <2>1. task[t] \in Task /\ NoTask.pc = "idle" /\ \A kind : Waiting(kind).pc = "lock"
    BY DEF TypeOK, NoTask, Waiting
  <2>2. CASE Return(t)
    BY <2>1, <2>2 DEF Return, TypeOK
  <2>3. CASE Acquire(t)
    BY <2>1, <2>3 DEF Acquire, TypeOK, Task
  <2>4. CASE SyncCheck(t)
    <3> DEFINE w == [task[t] EXCEPT !.pc = "render", !.url = row.url]
    <3>1. w.pc = "render"
      BY <2>1 DEF Task
    <3>2. task' = [task EXCEPT ![t] = w] \/ Return(t)
      BY <2>4 DEF SyncCheck
    <3> HIDE DEF w
    <3> QED BY <2>2, <3>1, <3>2 DEF TypeOK
  <2>5. CASE Render(t)
    <3> DEFINE w == [task[t] EXCEPT !.pc = "upload", !.content = content, !.path = yandex.path]
    <3>1. w.pc = "upload"
      BY <2>1 DEF Task
    <3>2. task' = [task EXCEPT ![t] = w] \/ Return(t)
      BY <2>5 DEF Render
    <3> HIDE DEF w
    <3> QED BY <2>2, <3>1, <3>2 DEF TypeOK
  <2>6. ASSUME NEW kind \in {"sync", "delete"}, Arrive(t, kind)
        PROVE  task'[t].pc = "lock"
    BY <2>1, <2>6 DEF Arrive, TypeOK
  <2> QED BY <2>2, <2>3, <2>4, <2>5, <2>6 DEF Early, Arrives
<1>6. \A u \in Workers : u # t => task'[u] = task[u]
  BY <1>4 DEF TypeOK
<1> QED BY <1>1, <1>2, <1>3, <1>5, <1>6, Leaves

(* A call of a sync: files only come to be, and the next step knows that   *)
(* the last one succeeded.                                                 *)
LEMMA CallUrls ==
  ASSUME TypeOK, Urls, NEW t \in Workers, task[t].pc \in {"upload", "publish", "address"},
         NEW changed, NEW next \in {"publish", "address", "store"}, Call(t, changed, next),
         UNCHANGED <<row, op, left>>,
         \A path \in Paths : /\ file[path].there => changed[path].there
                             /\ file[path].public => changed[path].public,
         AllServed => /\ task[t].path \in Paths /\ changed[task[t].path].there
                      /\ next # "publish" => changed[task[t].path].public
  PROVE  Urls'
<1>1. happened \subseteq happened'
  BY DEF Call, Fault
<1>2. (Without(Faults)' => Without(Faults)) /\ (Smooth' => Smooth)
  BY <1>1, Smoother
<1>3. ~Deleting
  BY Alone DEF Deleting
<1>4. /\ task'[t].pc \in {next, "failed"} /\ task'[t].path = task[t].path
      /\ \A u \in Workers : u # t => task'[u] = task[u]
  BY StepType DEF Call, TypeOK
<1>5. ASSUME Without(Faults)' PROVE file' = changed /\ task'[t].pc = next
  <2>1. "remote" \notin happened'
    BY <1>5 DEF Without, Faults
  <2>2. file' = changed /\ Step(t, next)
    BY <2>1 DEF Call, Fault
  <2>3. task \in [Workers -> Task]
    BY DEF TypeOK
  <2> QED BY <2>2, <2>3, StepType
<1>6. ASSUME AllServed, Without(Faults)' PROVE AllServed'
  <2>1. Served(row.url)'
    <3>1. row.url \in Paths \cup {None} /\ Served(row.url)
      BY <1>6 DEF TypeOK, Row, AllServed
    <3> QED BY <1>5, <1>6, <3>1, StaysServed DEF Served
  <2>2. ASSUME NEW p \in Requests, At(p, "put")' PROVE Served(op[p].seen.url)'
    <3>1. Served(op[p].seen.url)
      BY <1>6, <2>2 DEF AllServed, At
    <3> QED BY <1>5, <1>6, <3>1, SeenUrl, StaysServed DEF Served
  <2>3. ASSUME NEW u \in Workers
        PROVE  /\ task'[u].pc \in {"publish", "address", "store"} =>
                    task'[u].path \in Paths /\ file'[task'[u].path].there
               /\ task'[u].pc \in {"address", "store"} => file'[task'[u].path].public
    <3>1. CASE u = t
      BY <1>4, <1>5, <1>6, <3>1
    <3>2. CASE u # t
      BY <1>4, <3>2, Alone
    <3> QED BY <3>1, <3>2
  <2> QED BY <2>1, <2>2, <2>3 DEF AllServed
<1>7. Without(Faults)' => \A u \in Workers : task'[u].pc # "failed"
  BY <1>2, <1>4, <1>5 DEF Urls
<1>8. \A u \in Workers : task'[u].pc \in {"remove", "local"} => task[u].pc \in {"remove", "local"}
  BY <1>4
<1>9. Smooth' => Deleted' \/ AllServed'
  BY <1>2, <1>3, <1>6 DEF Urls, Deleted, Smooth
<1> QED BY <1>7, <1>8, <1>9 DEF Urls

(* The file is there, then public, then its address is known.              *)
LEMMA DiskUrls ==
  ASSUME TypeOK, Located, Urls, NEW t \in Workers, Upload(t) \/ Publish(t) \/ Address(t)
  PROVE  Urls'
<1>1. UNCHANGED <<row, op, left>>
  BY DEF Upload, Publish, Address
<1>2. CASE Upload(t)
  <2> DEFINE f == [there |-> TRUE, public |-> file[task[t].path].public,
                   content |-> task[t].content]
             changed == [file EXCEPT ![task[t].path] = f]
  <2>1. task[t].pc = "upload" /\ task[t].path \in Paths /\ Call(t, changed, "publish")
    BY <1>2 DEF Upload, In, Located
  <2>2. \A path \in Paths : changed[path] = IF path = task[t].path THEN f ELSE file[path]
    BY <2>1 DEF TypeOK
  <2>3. f.there /\ (file[task[t].path].public => f.public)
    OBVIOUS
  <2> HIDE DEF f, changed
  <2> QED BY <1>1, <2>1, <2>2, <2>3, CallUrls
<1>3. CASE Publish(t)
  <2> DEFINE f == [file[task[t].path] EXCEPT !.public = TRUE]
             changed == [file EXCEPT ![task[t].path] = f]
  <2>1. task[t].pc = "publish" /\ task[t].path \in Paths /\ Call(t, changed, "address")
    BY <1>3 DEF Publish, In, Located
  <2>2. \A path \in Paths : changed[path] = IF path = task[t].path THEN f ELSE file[path]
    BY <2>1 DEF TypeOK
  <2>3. f.public /\ f.there = file[task[t].path].there
    BY <2>1 DEF TypeOK, File
  <2> HIDE DEF f, changed
  <2>4. AllServed => file[task[t].path].there
    BY <2>1 DEF AllServed
  <2> QED BY <1>1, <2>1, <2>2, <2>3, <2>4, CallUrls
<1>4. CASE Address(t)
  <2>1. task[t].pc = "address" /\ Call(t, file, "store")
    BY <1>4 DEF Address, In
  <2>2. AllServed => /\ task[t].path \in Paths /\ file[task[t].path].there
                     /\ file[task[t].path].public
    BY <2>1 DEF AllServed
  <2> QED BY <1>1, <2>1, <2>2, CallUrls
<1> QED BY <1>2, <1>3, <1>4

(* The URL that is stored is that of the file; without faults no sync      *)
(* stores an older one.                                                    *)
LEMMA StoreUrls ==
  ASSUME TypeOK, Urls, NEW t \in Workers, Store(t) \/ Failed(t) PROVE Urls'
<1>1. /\ task[t].pc \in {"store", "failed"} /\ UNCHANGED <<file, op, left>> /\ Return(t)
      /\ happened \subseteq happened'
  BY DEF Store, Failed, In, SetMirror, Fault
<1>2. (Without(Faults)' => Without(Faults)) /\ (Smooth' => Smooth)
  BY <1>1, Smoother
<1>3. task'[t].pc = "idle" /\ \A u \in Workers : u # t => task'[u] = task[u]
  BY <1>1, ReturnType DEF TypeOK
<1>4. ~Deleting /\ \A u \in Workers : task'[u].pc \in {"idle", "lock"}
  BY <1>1, <1>3, Alone DEF Deleting
<1>5. row'.here = row.here /\ row'.mirror = row.mirror
  <2>1. row' = row \/ \E url, status : row' = [row EXCEPT !.url = url, !.status = status]
    BY DEF Store, Failed, SetMirror
  <2> QED BY <2>1 DEF TypeOK, Row
<1>6. ASSUME AllServed, Without(Faults)' PROVE AllServed'
  <2>1. Store(t)
    BY <1>2, <1>6 DEF Urls, Failed, In
  <2>2. row' = row \/ row'.url = task[t].path
    BY <2>1 DEF Store, SetMirror, TypeOK, Row
  <2>3. task[t].pc = "store"
    BY <2>1 DEF Store, In
  <2>4. file[task[t].path].there /\ file[task[t].path].public
    BY <1>6, <2>3 DEF AllServed
  <2>5. Served(row.url)'
    BY <1>1, <1>6, <2>2, <2>4 DEF AllServed, Served
  <2>6. \A p \in Requests : At(p, "put")' => Served(op[p].seen.url)'
    BY <1>1, <1>6 DEF AllServed, Served, At
  <2> QED BY <1>4, <2>5, <2>6 DEF AllServed
<1>7. Smooth' => Deleted' \/ AllServed'
  BY <1>1, <1>2, <1>4, <1>5, <1>6 DEF Urls, Deleted, Smooth
<1> QED BY <1>1, <1>4, <1>5, <1>7 DEF Urls

(* Delete begins with the file, or with the row.                           *)
LEMMA DeleteUrls == ASSUME TypeOK, Urls, NEW t \in Workers, DeleteCheck(t) PROVE Urls'
<1>1. task[t].pc = "check" /\ UNCHANGED <<row, file, op, left, happened>>
  BY DEF DeleteCheck, In
<1>2. CASE Return(t)
  BY <1>2, EarlyUrls DEF Early
<1>3. CASE ~Return(t)
  <2>1. row.here /\ left.creates < MaxCreates
    BY <1>3 DEF DeleteCheck, Urls
  <2>2. task'[t].pc \in {"remove", "local"} /\ \A u \in Workers : u # t => task'[u] = task[u]
    <3>1. CASE Step(t, "local")
      BY <3>1, StepType DEF TypeOK
    <3>2. CASE task' = [task EXCEPT ![t] = [@ EXCEPT !.pc = "remove", !.path = yandex.path]]
      BY <3>2 DEF TypeOK, Task
    <3> QED BY <1>3, <3>1, <3>2 DEF DeleteCheck
  <2>3. Smooth' => Smooth
    BY <1>1 DEF Smooth, Without
  <2>4. AllServed => AllServed'
    BY <1>1, <2>2 DEF AllServed, Served, At
  <2>5. Deleting => Deleting'
    BY <1>1, <2>2 DEF Deleting
  <2> QED BY <1>1, <2>1, <2>2, <2>3, <2>4, <2>5 DEF Urls, Deleted, Without
<1> QED BY <1>2, <1>3

(* The file goes; nothing else does before the row.                        *)
LEMMA RemoveUrls == ASSUME TypeOK, Urls, NEW t \in Workers, Remove(t) PROVE Urls'
<1>1. /\ task[t].pc = "remove" /\ UNCHANGED <<row, op, left>> /\ happened \subseteq happened'
      /\ left.creates < MaxCreates
  BY DEF Remove, In, Fault, Urls
<1>2. Without(Faults)' => Without(Faults)
  BY <1>1, Smoother
<1>3. task'[t].pc \in {"local", "idle"} /\ \A u \in Workers : u # t => task'[u] = task[u]
  BY StepType, ReturnType DEF Remove, TypeOK
<1>4. Without(Faults)' => task'[t].pc = "local"
  <2>1. Step(t, "local") \/ "remote" \in happened'
    BY DEF Remove, Fault
  <2> QED BY <2>1, StepType DEF TypeOK, Without, Faults
<1> QED BY <1>1, <1>2, <1>3, <1>4 DEF Urls, Smooth, Deleting

(* The row goes.                                                           *)
LEMMA LocalUrls == ASSUME TypeOK, Urls, NEW t \in Workers, Local(t) PROVE Urls'
<1>1. /\ task[t].pc = "local" /\ UNCHANGED <<file, op, left>> /\ happened \subseteq happened'
      /\ left.creates < MaxCreates
  BY DEF Local, In, Fault, Urls
<1>2. Without(Faults)' => Without(Faults)
  BY <1>1, Smoother
<1>3. task'[t].pc = "idle" /\ \A u \in Workers : u # t => task'[u] = task[u]
  BY ReturnType DEF Local, TypeOK
<1>4. row' = Absent \/ (row' = row /\ "database" \in happened')
  BY DEF Local, Fault
<1>5. ~Absent.here /\ ~Absent.mirror
  BY DEF Absent
<1>6. Smooth' => Deleted'
  BY <1>1, <1>4, <1>5 DEF Smooth, Without, Faults, Deleted
<1> QED BY <1>1, <1>2, <1>3, <1>4, <1>5, <1>6 DEF Urls

(* A crash is an exception.                                                *)
LEMMA CrashUrls == ASSUME Urls, Crash PROVE Urls'
<1>1. ~Without(Faults)' /\ UNCHANGED <<row, left>>
  BY DEF Crash, Fault, Without, Faults
<1>2. \A t \in Workers : task'[t].pc = "idle"
  BY DEF Crash, NoTask
<1> QED BY <1>1, <1>2 DEF Urls, Smooth

(* At the start there is no URL.                                           *)
LEMMA InitUrls == Init => Urls
<1> SUFFICES ASSUME Init PROVE Urls OBVIOUS
<1>1. ~row.here /\ ~row.mirror /\ row.url = None /\ left.creates = MaxCreates
  BY DEF Init, Absent, Limits
<1>2. \A t \in Workers : task[t].pc = "idle"
  BY DEF Init, NoTask
<1>3. \A p \in Requests : ~At(p, "put")
  BY DEF Init, Idle, At
<1>4. AllServed
  BY <1>1, <1>2, <1>3 DEF AllServed, Served
<1> QED BY <1>1, <1>2, <1>4, BoundAssumption DEF Urls

(* Every step.                                                             *)
LEMMA NextUrls == TypeOK /\ Located /\ Urls /\ [Next]_vars => Urls'
<1> SUFFICES ASSUME TypeOK, Located, Urls, [Next]_vars PROVE Urls' OBVIOUS
<1>1. ASSUME NEW p \in Requests, Handler(p) PROVE Urls'
  BY <1>1, PutWriteUrls, OtherUrls DEF Handler
<1>2. ASSUME NEW p \in Requests,
             InstanceRead(p) \/ \E kind \in {"entry", "link"} : EntryRead(p, kind)
      PROVE  Urls'
  BY <1>2, OtherUrls
<1>3. ASSUME NEW p \in Requests, NEW mirror \in BOOLEAN, Create(p, mirror) PROVE Urls'
  BY <1>3, CreateUrls
<1>4. ASSUME NEW p \in Requests, NEW mirror \in BOOLEAN, NEW enabled \in BOOLEAN,
             PutRead(p, mirror, enabled)
      PROVE  Urls'
  BY <1>4, PutReadUrls
<1>5. ASSUME NEW t \in Workers, Inside(t) PROVE Urls'
  <2>1. SyncCheck(t) \/ Render(t) => Early(t)
    BY DEF Early
  <2>2. CASE Early(t)
    BY <2>2, EarlyUrls
  <2> QED
    BY <1>5, <2>1, <2>2, DiskUrls, StoreUrls, DeleteUrls, RemoveUrls, LocalUrls DEF Inside
<1>6. ASSUME NEW t \in Workers,
             Acquire(t) \/ \E kind \in {"sync", "delete"} : Arrive(t, kind)
      PROVE  Urls'
  <2>1. Early(t)
    BY <1>6 DEF Early, Arrives
  <2> QED BY <2>1, EarlyUrls
<1>7. CASE (\E path \in Paths : Move(path)) \/ Toggle \/ FetchRow \/ FetchEntries \/ Tick
             \/ UNCHANGED vars
  BY <1>7, OtherUrls
<1>8. CASE Crash
  BY <1>8, CrashUrls
<1> QED BY <1>1, <1>2, <1>3, <1>4, <1>5, <1>6, <1>7, <1>8 DEF Next

(* The mirror URL of the bundle is that of a public file, for any number   *)
(* of requests, syncs and base paths, and whatever update writes back the  *)
(* URL it read; the exceptions are those of BundleMirrorExists.            *)
THEOREM BundleMirrorExistsHolds == Spec => []BundleMirrorExists
<1>1. TypeOK /\ Urls => BundleMirrorExists
  <2> SUFFICES ASSUME TypeOK, Urls, row.mirror, row.url # None, mirrorMu = None, Smooth
               PROVE  file[row.url].there /\ file[row.url].public
    BY DEF BundleMirrorExists, Smooth
  <2>1. ~Deleting
    BY NoneAssumption DEF Deleting, TypeOK
  <2>2. ~Deleted
    BY DEF Deleted, Urls
  <2>3. Served(row.url)
    BY <2>1, <2>2 DEF Urls, AllServed
  <2> QED BY <2>3 DEF Served
<1>2. Spec => [](TypeOK /\ Located)
  <2>1. Inv => TypeOK /\ Located
    BY DEF Inv
  <2> QED BY <2>1, SpecInv, PTL
<1> QED BY <1>1, <1>2, InitUrls, NextUrls, PTL DEF Spec

=============================================================================
