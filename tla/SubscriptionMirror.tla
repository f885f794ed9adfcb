-------------------------- MODULE SubscriptionMirror --------------------------
(***************************************************************************)
(* A subscription, its public feed and its mirror at Yandex Disk:          *)
(* internal/subscription/service.go, internal/store/subscriptions.go,      *)
(* internal/mirror/mirror.go, the handlers of server/subscriptions.go and  *)
(* subscriptionsChanged of server/instances.go.                            *)
(*                                                                         *)
(* Subscriptions share nothing but mirrorMu and the settings, the module   *)
(* has one of them.  What its feed says is abstracted to a version number, *)
(* which every change of an entry, of the subscription or of the linked    *)
(* instance increases.  Time is counted in seconds, as "#update:" does.    *)
(***************************************************************************)
EXTENDS Naturals, FiniteSets

CONSTANTS
  Requests,    (* goroutines of HTTP requests that change something        *)
  Workers,     (* goroutines of SyncMirror and Delete                      *)
  Paths,       (* values of the setting yandex_base_path                   *)
  DefaultPath, (* yandex_base_path until it is set                         *)
  None,        (* no URL, no goroutine                                     *)
  MaxClock,    (* bound: the clock                                         *)
  MaxFaults,   (* bound: kinds of faults in one behaviour                  *)
  MaxCreates, MaxPuts, MaxChanges, MaxDeletes, MaxSyncs, MaxSettings, MaxFetches
               (* bounds: requests of each kind                            *)

ASSUME NoneAssumption == None \notin Paths \cup Requests \cup Workers
ASSUME PathAssumption == DefaultPath \in Paths
ASSUME BoundAssumption ==
  /\ MaxClock \in Nat /\ MaxFaults \in Nat /\ MaxCreates \in Nat /\ MaxPuts \in Nat
  /\ MaxChanges \in Nat /\ MaxDeletes \in Nat /\ MaxSyncs \in Nat /\ MaxSettings \in Nat
  /\ MaxFetches \in Nat

VARIABLES
  row,        (* the row of the subscription                               *)
  content,    (* the version of what the feed says                         *)
  linked,     (* an entry links the instance                               *)
  file,       (* the mirror file below each base path                      *)
  yandex,     (* the settings yandex_enabled and yandex_base_path          *)
  op,         (* the requests                                              *)
  task,       (* the goroutines in or before mirrorMu                      *)
  mirrorMu,   (* the goroutine that holds the mutex                        *)
  client,     (* what a subscriber fetched last                            *)
  clock,
  left,       (* the requests the bounds still allow                       *)
  happened    (* faults and other events the properties make exceptions of *)

vars == <<row, content, linked, file, yandex, op, task, mirrorMu, client, clock, left, happened>>

Faults == {"remote", "database", "crash"}
Events == Faults \cup {"off", "moved", "toggled", "late link"}

Row == [here: BOOLEAN, enabled: BOOLEAN, mirror: BOOLEAN, url: Paths \cup {None},
        status: {"disabled", "synced", "error"}, rev: Nat]
Absent == [here |-> FALSE, enabled |-> FALSE, mirror |-> FALSE, url |-> None,
           status |-> "disabled", rev |-> 0]

File == [there: BOOLEAN, public: BOOLEAN, content: Nat]
NoFile == [there |-> FALSE, public |-> FALSE, content |-> 0]

(* What a request needs for its change: an instance request whether the    *)
(* subscription is known to list the instance, an update the columns it    *)
(* was sent and the row it has seen.                                       *)
Request == [pc: {"idle", "put", "entry", "link", "instance", "touch", "spawn"},
            known: BOOLEAN, mirror: BOOLEAN, enabled: BOOLEAN, seen: Row]
Idle == [pc |-> "idle", known |-> FALSE, mirror |-> FALSE, enabled |-> FALSE, seen |-> Absent]

Task == [kind: {"none", "sync", "delete"},
         pc: {"idle", "lock", "check", "render", "upload", "publish", "address", "store",
              "failed", "remove", "local"},
         url: Paths \cup {None}, path: Paths \cup {None}, content: Nat]
NoTask == [kind |-> "none", pc |-> "idle", url |-> None, path |-> None, content |-> 0]
Waiting(kind) == [NoTask EXCEPT !.kind = kind, !.pc = "lock"]

Limits == [creates |-> MaxCreates, puts |-> MaxPuts, changes |-> MaxChanges,
           deletes |-> MaxDeletes, syncs |-> MaxSyncs, settings |-> MaxSettings,
           fetches |-> MaxFetches]
Budget == [creates: Nat, puts: Nat, changes: Nat, deletes: Nat, syncs: Nat, settings: Nat,
           fetches: Nat]

TypeOK ==
  /\ row \in Row
  /\ content \in Nat
  /\ linked \in BOOLEAN
  /\ file \in [Paths -> File]
  /\ yandex \in [on: BOOLEAN, path: Paths]
  /\ op \in [Requests -> Request]
  /\ task \in [Workers -> Task]
  /\ mirrorMu \in Workers \cup {None}
  /\ \A t \in Workers : task[t].pc \notin {"idle", "lock"} => mirrorMu = t
  /\ client \in [state: {"none", "reading", "has"}, rev: Nat, content: Nat]
  /\ clock \in Nat
  /\ left \in Budget
  /\ happened \subseteq Events

Init ==
  /\ row = Absent
  /\ content = 0
  /\ linked = FALSE
  /\ file = [p \in Paths |-> NoFile]
  /\ yandex = [on |-> TRUE, path |-> DefaultPath]
  /\ op = [p \in Requests |-> Idle]
  /\ task = [t \in Workers |-> NoTask]
  /\ mirrorMu = None
  /\ client = [state |-> "none", rev |-> 0, content |-> 0]
  /\ clock = 0
  /\ left = Limits
  /\ happened = {}

Spend(what) == left[what] > 0 /\ left' = [left EXCEPT ![what] = @ - 1]
Faulty == Cardinality(happened \cap Faults) < MaxFaults
Fault(what) == Faulty /\ happened' = happened \cup {what}
Event(what) == happened' = happened \cup {what}
At(p, pc) == op[p].pc = pc
Start(p, request) == At(p, "idle") /\ op' = [op EXCEPT ![p] = request]
Goto(p, pc) == op' = [op EXCEPT ![p] = [Idle EXCEPT !.pc = pc]]
End(p) == op' = [op EXCEPT ![p] = Idle]

-----------------------------------------------------------------------------
(* The requests.                                                           *)

(* handleSubscriptionsCreate: INSERT, and the new subscription is only     *)
(* announced if it has a mirror and can be read back.                      *)
Create(p, mirror) ==
  /\ ~row.here
  /\ Spend("creates")
  /\ row' = [Absent EXCEPT !.here = TRUE, !.enabled = TRUE, !.mirror = mirror, !.rev = clock]
  /\ content' = content + 1
  /\ \/ /\ Start(p, [Idle EXCEPT !.pc = IF mirror THEN "touch" ELSE "idle"])
        /\ UNCHANGED happened
     \/ Start(p, Idle) /\ Fault("database")
  /\ UNCHANGED <<linked, file, yandex, task, mirrorMu, client, clock>>

(* handleSubscriptionUpdate reads the row, not under mirrorMu.             *)
PutRead(p, mirror, enabled) ==
  /\ row.here
  /\ Spend("puts")
  /\ Start(p, [pc |-> "put", known |-> TRUE, mirror |-> mirror, enabled |-> enabled,
               seen |-> [row EXCEPT !.rev = 0]])
  /\ UNCHANGED <<row, content, linked, file, yandex, task, mirrorMu, client, clock, happened>>

(* UpdateSubscription writes every column, the URL as it was read, and     *)
(* reads the row again; if that fails, nobody is told of the change.       *)
TurnedOff(p) == IF (row.mirror \/ op[p].seen.mirror) /\ ~op[p].mirror THEN {"off"} ELSE {}

PutWrite(p) ==
  /\ At(p, "put")
  /\ \/ /\ row.here
        /\ row' = [row EXCEPT !.enabled = op[p].enabled, !.mirror = op[p].mirror,
                              !.url = op[p].seen.url, !.rev = clock,
                              !.status = IF op[p].mirror THEN op[p].seen.status ELSE "disabled"]
        /\ content' = content + 1
        /\ \/ Goto(p, "touch") /\ happened' = happened \cup TurnedOff(p)
           \/ End(p) /\ Faulty /\ happened' = happened \cup {"database"} \cup TurnedOff(p)
     \/ /\ ~row.here
        /\ End(p)
        /\ UNCHANGED <<row, content, happened>>
  /\ UNCHANGED <<linked, file, yandex, task, mirrorMu, client, clock, left>>

(* The handlers of entries look the subscription up.                       *)
EntryRead(p, kind) ==
  /\ row.here
  /\ kind = "link" => ~linked
  /\ Spend("changes")
  /\ Start(p, [Idle EXCEPT !.pc = kind, !.known = TRUE])
  /\ UNCHANGED <<row, content, linked, file, yandex, task, mirrorMu, client, clock, happened>>

(* A request that has decided whether it concerns the subscription before  *)
(* the instance was linked.                                                *)
LateLink(p) ==
  IF At(p, "link") /\ \E q \in Requests : At(q, "instance") /\ ~op[q].known
  THEN {"late link"} ELSE {}

EntryWrite(p) ==
  /\ op[p].pc \in {"entry", "link"}
  /\ \/ /\ row.here
        /\ content' = content + 1
        /\ linked' \in IF At(p, "link") THEN {TRUE} ELSE {linked, FALSE}
        /\ \/ Goto(p, "touch") /\ happened' = happened \cup LateLink(p)
           \/ End(p) /\ Faulty /\ happened' = happened \cup {"database"} \cup LateLink(p)
     \/ /\ ~row.here
        /\ End(p)
        /\ UNCHANGED <<content, linked, happened>>
  /\ UNCHANGED <<row, file, yandex, task, mirrorMu, client, clock, left>>

(* The handlers of instances look the subscriptions up that list the       *)
(* instance, before they change it.                                        *)
InstanceRead(p) ==
  /\ Spend("changes")
  /\ Start(p, [Idle EXCEPT !.pc = "instance", !.known = linked])
  /\ UNCHANGED <<row, content, linked, file, yandex, task, mirrorMu, client, clock, happened>>

(* The change, see InstanceManager: a deleted instance takes its entry     *)
(* along; without a subscription, or after an error, nobody is told.       *)
InstanceWrite(p) ==
  /\ At(p, "instance")
  /\ linked' \in {linked, FALSE}
  /\ content' = IF linked THEN content + 1 ELSE content
  /\ \/ (IF op[p].known THEN Goto(p, "touch") ELSE End(p)) /\ UNCHANGED happened
     \/ End(p) /\ Fault("database")
  /\ UNCHANGED <<row, file, yandex, task, mirrorMu, client, clock, left>>

(* Mutant: the revision is the time of the change.                         *)
NextRevision_Now == clock

(* TouchSubscriptions: later than now, and than the last revision.         *)
NextRevision == IF clock > row.rev THEN clock ELSE row.rev + 1

(* subscriptionsChanged, first half; an error is dropped.                  *)
Touch(p) ==
  /\ At(p, "touch")
  /\ Goto(p, "spawn")
  /\ \/ /\ row' = IF row.here THEN [row EXCEPT !.rev = NextRevision] ELSE row
        /\ UNCHANGED happened
     \/ UNCHANGED row /\ Fault("database")
  /\ UNCHANGED <<content, linked, file, yandex, task, mirrorMu, client, clock, left>>

(* Mutant: no second goroutine is started for a subscription.              *)
Spawn_Once(p) ==
  /\ At(p, "spawn")
  /\ End(p)
  /\ \/ /\ row.here /\ row.mirror /\ \A t \in Workers : task[t].kind # "sync"
        /\ \E t \in Workers :
             task[t].pc = "idle" /\ task' = [task EXCEPT ![t] = Waiting("sync")]
     \/ ~(row.here /\ row.mirror /\ \A t \in Workers : task[t].kind # "sync") /\ UNCHANGED task
  /\ UNCHANGED <<row, content, linked, file, yandex, mirrorMu, client, clock, left, happened>>

(* The second half: a goroutine of its own, with a context that the client *)
(* cannot cancel, synchronises the mirror; if the row cannot be read, none *)
(* is started and nobody is told.                                          *)
Spawn(p) ==
  /\ At(p, "spawn")
  /\ End(p)
  /\ \/ /\ row.here /\ row.mirror
        /\ \E t \in Workers :
             task[t].pc = "idle" /\ task' = [task EXCEPT ![t] = Waiting("sync")]
        /\ UNCHANGED happened
     \/ ~(row.here /\ row.mirror) /\ UNCHANGED <<task, happened>>
     \/ UNCHANGED task /\ Fault("database")
  /\ UNCHANGED <<row, content, linked, file, yandex, mirrorMu, client, clock, left>>

-----------------------------------------------------------------------------
(* SyncMirror and Delete, both under mirrorMu.                             *)

Arrive(t, kind) ==
  /\ task[t].pc = "idle"
  /\ Spend(IF kind = "sync" THEN "syncs" ELSE "deletes")
  /\ task' = [task EXCEPT ![t] = Waiting(kind)]
  /\ UNCHANGED <<row, content, linked, file, yandex, op, mirrorMu, client, clock, happened>>

(* Mutant: nobody waits for the mutex.                                     *)
Acquire_Always(t) ==
  /\ task[t].pc = "lock"
  /\ mirrorMu' = t
  /\ task' = [task EXCEPT ![t] = [@ EXCEPT !.pc = "check"]]
  /\ UNCHANGED <<row, content, linked, file, yandex, op, client, clock, left, happened>>

Acquire(t) ==
  /\ task[t].pc = "lock" /\ mirrorMu = None
  /\ mirrorMu' = t
  /\ task' = [task EXCEPT ![t] = [@ EXCEPT !.pc = "check"]]
  /\ UNCHANGED <<row, content, linked, file, yandex, op, client, clock, left, happened>>

In(t, pc) == task[t].pc = pc
Step(t, pc) == task' = [task EXCEPT ![t] = [@ EXCEPT !.pc = pc]] /\ UNCHANGED mirrorMu
Return(t) == task' = [task EXCEPT ![t] = NoTask] /\ mirrorMu' = None

(* A sync reads the setting and the row, the URL in it is used again if    *)
(* the upload fails.                                                       *)
SyncCheck(t) ==
  /\ In(t, "check") /\ task[t].kind = "sync"
  /\ IF yandex.on /\ row.here /\ row.mirror
     THEN /\ task' = [task EXCEPT ![t] = [@ EXCEPT !.pc = "render", !.url = row.url]]
          /\ UNCHANGED mirrorMu
     ELSE Return(t)
  /\ UNCHANGED <<row, content, linked, file, yandex, op, client, clock, left, happened>>

(* render, encryption and the settings of the client; without an OAuth     *)
(* token the sync ends here.                                               *)
Render(t) ==
  /\ In(t, "render")
  /\ \/ /\ row.enabled
        /\ task' = [task EXCEPT ![t] =
                      [@ EXCEPT !.pc = "upload", !.content = content, !.path = yandex.path]]
        /\ UNCHANGED <<mirrorMu, happened>>
     \/ ~row.enabled /\ Return(t) /\ UNCHANGED happened
     \/ Return(t) /\ Fault("remote")
  /\ UNCHANGED <<row, content, linked, file, yandex, op, client, clock, left>>

(* A call to Yandex Disk: it fails before or after it had its effect.      *)
Call(t, changed, next) ==
  \/ file' = changed /\ Step(t, next) /\ UNCHANGED happened
  \/ file' \in {file, changed} /\ Step(t, "failed") /\ Fault("remote")

Upload(t) ==
  /\ In(t, "upload")
  /\ Call(t, [file EXCEPT ![task[t].path] =
                [there |-> TRUE, public |-> @.public, content |-> task[t].content]], "publish")
  /\ UNCHANGED <<row, content, linked, yandex, op, client, clock, left>>

(* Mutant: the file is not published.                                      *)
Publish_Not(t) ==
  /\ In(t, "publish")
  /\ Call(t, file, "address")
  /\ UNCHANGED <<row, content, linked, yandex, op, client, clock, left>>

Publish(t) ==
  /\ In(t, "publish")
  /\ Call(t, [file EXCEPT ![task[t].path] = [@ EXCEPT !.public = TRUE]], "address")
  /\ UNCHANGED <<row, content, linked, yandex, op, client, clock, left>>

(* The public URL is read from the metadata of the file.                   *)
Address(t) ==
  /\ In(t, "address")
  /\ Call(t, file, "store")
  /\ UNCHANGED <<row, content, linked, yandex, op, client, clock, left>>

(* SetSubscriptionMirror, with the context of the request for a sync that  *)
(* the administrator asked for.                                            *)
SetMirror(url, status) ==
  \/ row' = [row EXCEPT !.url = url, !.status = status] /\ UNCHANGED happened
  \/ UNCHANGED row /\ Fault("database")

Store(t) ==
  /\ In(t, "store")
  /\ SetMirror(task[t].path, "synced")
  /\ Return(t)
  /\ UNCHANGED <<content, linked, file, yandex, op, client, clock, left>>

Failed(t) ==
  /\ In(t, "failed")
  /\ SetMirror(task[t].url, "error")
  /\ Return(t)
  /\ UNCHANGED <<content, linked, file, yandex, op, client, clock, left>>

(* Mutant: only a known URL tells of a file.                               *)
MirrorMayExist_Url == row.url # None

MirrorMayExist == row.mirror \/ row.url # None \/ row.status # "disabled"

DeleteCheck(t) ==
  /\ In(t, "check") /\ task[t].kind = "delete"
  /\ \/ /\ row.here /\ MirrorMayExist
        /\ task' = [task EXCEPT ![t] = [@ EXCEPT !.pc = "remove", !.path = yandex.path]]
        /\ UNCHANGED mirrorMu
     \/ row.here /\ ~MirrorMayExist /\ Step(t, "local")
     \/ ~row.here /\ Return(t)
  /\ UNCHANGED <<row, content, linked, file, yandex, op, client, clock, left, happened>>

(* Client.Delete; "not found" is a success, an error ends the request.     *)
Remove(t) ==
  /\ In(t, "remove")
  /\ LET gone == [file EXCEPT ![task[t].path] = NoFile]
     IN \/ file' = gone /\ Step(t, "local") /\ UNCHANGED happened
        \/ file' \in {file, gone} /\ Return(t) /\ Fault("remote")
  /\ UNCHANGED <<row, content, linked, yandex, op, client, clock, left>>

(* DeleteSubscription; the entries go with the row.                        *)
Local(t) ==
  /\ In(t, "local")
  /\ \/ /\ row' = Absent
        /\ linked' = FALSE
        /\ client' = [state |-> "none", rev |-> 0, content |-> 0]
        /\ UNCHANGED happened
     \/ UNCHANGED <<row, linked, client>> /\ Fault("database")
  /\ Return(t)
  /\ UNCHANGED <<content, file, yandex, op, clock, left>>

-----------------------------------------------------------------------------
(* The settings, the panel's process, the subscriber and time.             *)

Move(path) ==
  /\ path # yandex.path
  /\ Spend("settings")
  /\ Event("moved")
  /\ yandex' = [yandex EXCEPT !.path = path]
  /\ UNCHANGED <<row, content, linked, file, op, task, mirrorMu, client, clock>>

Toggle ==
  /\ Spend("settings")
  /\ Event("toggled")
  /\ yandex' = [yandex EXCEPT !.on = ~@]
  /\ UNCHANGED <<row, content, linked, file, op, task, mirrorMu, client, clock>>

(* The panel is killed and started again; no sync is resumed.              *)
Crash ==
  /\ Fault("crash")
  /\ op' = [p \in Requests |-> Idle]
  /\ task' = [t \in Workers |-> NoTask]
  /\ mirrorMu' = None
  /\ UNCHANGED <<row, content, linked, file, yandex, client, clock, left>>

(* A subscriber fetches the feed: render reads the row, then the entries.  *)
FetchRow ==
  /\ row.here /\ row.enabled
  /\ client.state # "reading"
  /\ Spend("fetches")
  /\ client' = [state |-> "reading", rev |-> row.rev, content |-> 0]
  /\ UNCHANGED <<row, content, linked, file, yandex, op, task, mirrorMu, clock, happened>>

FetchEntries ==
  /\ client.state = "reading"
  /\ client' = [client EXCEPT !.state = "has", !.content = content]
  /\ UNCHANGED <<row, content, linked, file, yandex, op, task, mirrorMu, clock, left, happened>>

Tick ==
  /\ clock < MaxClock
  /\ clock' = clock + 1
  /\ UNCHANGED <<row, content, linked, file, yandex, op, task, mirrorMu, client, left, happened>>

-----------------------------------------------------------------------------
Handler(p) == PutWrite(p) \/ EntryWrite(p) \/ InstanceWrite(p) \/ Touch(p) \/ Spawn(p)
Inside(t) ==
  \/ SyncCheck(t) \/ Render(t) \/ Upload(t) \/ Publish(t) \/ Address(t) \/ Store(t) \/ Failed(t)
  \/ DeleteCheck(t) \/ Remove(t) \/ Local(t)

Next ==
  \/ \E p \in Requests :
       \/ Handler(p) \/ InstanceRead(p)
       \/ \E kind \in {"entry", "link"} : EntryRead(p, kind)
       \/ \E mirror \in BOOLEAN : Create(p, mirror)
       \/ \E mirror, enabled \in BOOLEAN : PutRead(p, mirror, enabled)
  \/ \E t \in Workers :
       Acquire(t) \/ Inside(t) \/ \E kind \in {"sync", "delete"} : Arrive(t, kind)
  \/ \E path \in Paths : Move(path)
  \/ Toggle \/ Crash \/ FetchRow \/ FetchEntries \/ Tick

Spec == Init /\ [][Next]_vars

(* Goroutines are scheduled, calls to Yandex time out after 20 seconds,    *)
(* and sync.Mutex lets nobody starve.                                      *)
FairSpec ==
  /\ Spec
  /\ \A p \in Requests : WF_vars(Handler(p))
  /\ \A t \in Workers : WF_vars(Inside(t)) /\ SF_vars(Acquire(t))

-----------------------------------------------------------------------------
Without(events) == happened \cap events = {}
Quiet == \A p \in Requests : op[p] = Idle

(* A deleted subscription leaves no file behind: Delete sees every file    *)
(* that a sync may have left, whatever failed.                             *)
NoOrphan == ~row.here => \A path \in Paths : ~file[path].there

(* The exceptions: a mirror that was turned off, and a base path that was  *)
(* changed.                                                                *)
DeleteRemoves == Without({"off", "moved"}) => NoOrphan

(* The mirror URL that Bundle hands to subscribers is that of a public     *)
(* file, as long as no call fails and no slug is used again.               *)
BundleMirrorExists ==
  row.mirror /\ row.url # None /\ mirrorMu = None /\ Without(Faults)
    /\ left.creates + 1 >= MaxCreates
    => file[row.url].there /\ file[row.url].public

(* A subscriber that has fetched something else sees another revision,     *)
(* unless the subscription itself was edited.                              *)
ClientsNotice ==
  client.state = "has" /\ row.here /\ Quiet /\ client.content # content
    /\ left.puts = MaxPuts /\ Without({"database", "crash", "late link"})
    => client.rev # row.rev

(* The mirror never goes back to an older feed.                            *)
MirrorNotOlder ==
  [][\A path \in Paths : file'[path].there => file'[path].content >= file[path].content]_vars

(* A mirror that is behind catches up, or is turned off; what may stop it  *)
(* for good is a failing call, a crash, a change of the settings, or an    *)
(* instance that is changed while it is being linked.                      *)
Current == file[yandex.path].content = content /\ file[yandex.path].public
Mirrored == row.here /\ row.mirror /\ row.enabled /\ yandex.on

MirrorCatchesUp ==
  Mirrored /\ ~Current
    ~> Current \/ ~Mirrored \/ ~Without(Faults \cup {"moved", "toggled", "late link"})

=============================================================================
