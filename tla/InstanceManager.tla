--------------------------- MODULE InstanceManager ---------------------------
(***************************************************************************)
(* The instance manager of the panel (internal/instance/manager.go).       *)
(*                                                                         *)
(* An instance is spread over four places that no lock or transaction      *)
(* covers together: a SQLite row, config.yaml, key.hex and a systemd unit. *)
(* HTTP handlers run concurrently and change the four places one step at a *)
(* time.  An action of this module is one such step: one SQL statement or  *)
(* transaction, one atomic file replacement, one systemctl call.           *)
(*                                                                         *)
(* Every instance of the model is a wbstream instance, so UpdateWBToken    *)
(* applies to each of them.  A configuration is a room and a token: the    *)
(* part of a row that RenderYAML writes.  Client IDs and keys are numbers  *)
(* drawn from one counter, so two of them are equal only if copied.        *)
(***************************************************************************)
EXTENDS Naturals, FiniteSets

CONSTANTS
  Procs,          (* request handlers that may run at the same time        *)
  MaxId,          (* the largest rowid: AUTOINCREMENT stops there          *)
  Names,          (* instance names (UNIQUE in the table)                  *)
  Rooms, Tokens,  (* what a configuration is made of                       *)
  MaxInstances,   (* cfg.MaxInstances                                      *)
  Kinds,          (* the operations the handlers are asked for             *)
  MaxOps,         (* bound: requests                                       *)
  MaxOverlaps,    (* bound: requests that do not keep apart from others    *)
  MaxCrashes,     (* bound: crashes of the panel process                   *)
  MaxCancels,     (* bound: requests whose client disconnects              *)
  MaxDisk,        (* bound: failing file writes and removals               *)
  MaxCtl,         (* bound: systemctl calls that fail by themselves        *)
  MaxDeaths,      (* bound: deaths of an instance's process                *)
  Nil,            (* no row, no file, no value                             *)
  EmptyFile,      (* a config.yaml of length 0                             *)
  Keep            (* "auth_token" left empty in a request: keep the old    *)

Ids == 1..MaxId

Row == [name: Names, room: Rooms, token: Tokens, cid: Nat]
Yaml == [room: Rooms, token: Tokens]
FileState == Yaml \cup {Nil, EmptyFile}
Request == [name: Names \cup {Nil}, room: Rooms \cup {Nil},
            token: Tokens \cup {Keep}]

AllKinds == {"create", "duplicate", "edit", "room", "token", "delete",
             "rotate_key", "rotate_client", "start", "restart", "stop"}

(* The operations that go through Manager.Update.                          *)
Edits == {"edit", "room", "token"}

Steps == {"idle", "done", "dup_read", "count", "insert", "insert_reread",
          "new_key", "new_yaml", "undo_row", "undo_files",
          "raw", "token_list", "token_next", "read", "read_files",
          "write_yaml", "exec", "reread", "undo_yaml",
          "read_key", "write_key", "status", "launch", "wait",
          "revert_row", "back_row", "back_yaml", "back_key", "back_launch",
          "check", "stop", "remove_files", "remove_row", "decorate"}

Results == {"none", "ok", "error", "rolled_back"}
UnitStates == {"stopped", "starting", "running", "failed"}

ASSUME NilAssumption ==
  /\ Nil \notin Row \cup Yaml \cup Names \cup Rooms \cup {EmptyFile}
  /\ EmptyFile \notin Yaml
  /\ Keep \notin Tokens

ASSUME BoundAssumption ==
  /\ MaxId \in Nat /\ MaxInstances \in Nat /\ MaxOps \in Nat /\ MaxOverlaps \in Nat
  /\ MaxCrashes \in Nat /\ MaxCancels \in Nat /\ MaxDisk \in Nat
  /\ MaxCtl \in Nat /\ MaxDeaths \in Nat
  /\ Kinds \subseteq AllKinds

VARIABLES
  rows,     (* the instances table                                         *)
  nextId,   (* sqlite_sequence: the next AUTOINCREMENT id                  *)
  minted,   (* the next fresh random value (client ID or key)              *)
  yaml,     (* config.yaml of each instance                                *)
  key,      (* key.hex of each instance, 0 when there is no file           *)
  unit,     (* olcrtc-instance@i.service and the files its process read;   *)
            (* early (history): read in the middle of an update            *)
  up,       (* the panel process runs                                      *)
  op,       (* what each handler is doing, and the values it has read      *)
  left      (* the faults and requests the bounds still allow              *)

vars == <<rows, nextId, minted, yaml, key, unit, up, op, left>>

IdleOp == [pc |-> "idle", kind |-> "none", id |-> 0,
           req |-> [name |-> Nil, room |-> Nil, token |-> Keep],
           snap |-> [i \in Ids |-> Nil], todo |-> {}, failed |-> {},
           old |-> Nil, new |-> Nil, oldYaml |-> Nil, oldKey |-> 0,
           cancelled |-> FALSE, result |-> "none"]

Operation ==
  [pc: Steps, kind: AllKinds \cup {"none"}, id: Ids \cup {0}, req: Request,
   snap: [Ids -> Row \cup {Nil}], todo: SUBSET Ids, failed: SUBSET (Ids \cup {0}),
   old: Row \cup {Nil}, new: Row \cup {Nil}, oldYaml: FileState, oldKey: Nat,
   cancelled: BOOLEAN, result: Results]

Unit == [state: UnitStates, yaml: FileState, key: Nat, early: BOOLEAN]
Budget == [ops: Nat, overlaps: Nat, crashes: Nat, cancels: Nat, disk: Nat, ctl: Nat, deaths: Nat]

TypeOK ==
  /\ rows \in [Ids -> Row \cup {Nil}]
  /\ nextId \in Nat \ {0}
  /\ minted \in Nat \ {0}
  /\ yaml \in [Ids -> FileState]
  /\ key \in [Ids -> Nat]
  /\ unit \in [Ids -> Unit]
  /\ up \in BOOLEAN
  /\ op \in [Procs -> Operation]
  /\ left \in Budget

Off == [state |-> "stopped", yaml |-> Nil, key |-> 0, early |-> FALSE]

Limits == [ops |-> MaxOps, overlaps |-> MaxOverlaps, crashes |-> MaxCrashes,
           cancels |-> MaxCancels, disk |-> MaxDisk, ctl |-> MaxCtl, deaths |-> MaxDeaths]

Init ==
  /\ rows = [i \in Ids |-> Nil]
  /\ nextId = 1
  /\ minted = 1
  /\ yaml = [i \in Ids |-> Nil]
  /\ key = [i \in Ids |-> 0]
  /\ unit = [i \in Ids |-> Off]
  /\ up = TRUE
  /\ op = [p \in Procs |-> IdleOp]
  /\ left = Limits

-----------------------------------------------------------------------------
(* Helpers.                                                                *)

Existing == {i \in Ids : rows[i] # Nil}
Render(row) == [room |-> row.room, token |-> row.token]

(* The UNIQUE constraint on instances.name, for a row stored under id i.   *)
NameTaken(name, i) == \E j \in Existing : j # i /\ rows[j].name = name

(* UPDATE instances SET ... WHERE id = i succeeds and changes one row.     *)
CanUpdate(p, row) ==
  /\ ~op[p].cancelled
  /\ rows[op[p].id] # Nil
  /\ ~NameTaken(row.name, op[p].id)

At(p, step) == up /\ op[p].pc = step
Go(p, step) == op' = [op EXCEPT ![p].pc = step]

(* An operation ends, UpdateWBToken turns to its next instance.            *)
Finish(p, result) ==
  op' = [op EXCEPT ![p].pc = IF op[p].kind = "token" THEN "token_next" ELSE "done",
                   ![p].result = result,
                   ![p].failed = IF result = "ok" THEN @ ELSE @ \cup {op[p].id}]

DiskFault == left.disk > 0 /\ left' = [left EXCEPT !.disk = @ - 1]

(* What a failing atomicWrite leaves: the old file, or no file when rename *)
(* failed, because atomicWrite then removes the target and tries again.    *)
Unwritten(files, p, none) == {files, [files EXCEPT ![op[p].id] = none]}

(* A systemctl call fails: its context is cancelled, or by itself.         *)
CtlFault(p) ==
  \/ op[p].cancelled /\ UNCHANGED left
  \/ left.ctl > 0 /\ left' = [left EXCEPT !.ctl = @ - 1]

(* Create and Update end with decorate, which reads the unit's status: when *)
(* it cannot, they answer with an error although all of their work is done. *)
Decorate(p) ==
  /\ At(p, "decorate")
  /\ \/ ~op[p].cancelled /\ Finish(p, "ok") /\ UNCHANGED left
     \/ CtlFault(p) /\ Finish(p, "error")
  /\ UNCHANGED <<rows, nextId, minted, yaml, key, unit, up>>

(* An operation that has succeeded ends, decorated if it returns the row.  *)
Succeed(p) ==
  IF op[p].kind \in Edits THEN Go(p, "decorate") ELSE Finish(p, "ok")

(* ExecStartPre refuses a unit whose files are missing.                    *)
Launchable(i) == yaml[i] # Nil /\ key[i] # 0

(* The unit after a start: the process has read the files on disk, or      *)
(* systemd is going to try again until the start limit is reached.         *)
Launched(i) ==
  IF Launchable(i)
  THEN {[state |-> "running", yaml |-> yaml[i], key |-> key[i], early |-> FALSE]}
  ELSE {[Off EXCEPT !.state = state] : state \in {"starting", "failed"}}

(* systemctl stop ends a process; a failed unit has none and stays failed. *)
Stopped(i) == IF unit[i].state = "failed" THEN unit[i] ELSE Off

(* Mutant: the rollback does not keep what it read.                        *)
Restored_Empty(oldYaml) == EmptyFile

(* What is written back for a file that could not be read: nothing.        *)
Restored(oldYaml) == IF oldYaml = Nil THEN EmptyFile ELSE oldYaml

(* Where an operation goes when the unit did not come up.                  *)
Recovery(kind) == IF kind = "rotate_key" THEN "back_key" ELSE "back_row"

-----------------------------------------------------------------------------
(* A request arrives.                                                      *)

FirstStep(kind) ==
  CASE kind = "create" -> "count"
    [] kind = "duplicate" -> "dup_read"
    [] kind = "room" -> "raw"
    [] kind = "token" -> "token_list"
    [] kind \in {"edit", "rotate_client"} -> "read"
    [] kind = "rotate_key" -> "read_key"
    [] OTHER -> "check"

Requests(kind) ==
  LET none == {IdleOp.req} IN
  CASE kind = "create" -> [name: Names, room: Rooms, token: Tokens]
    [] kind = "edit" -> [name: Names, room: Rooms, token: Tokens \cup {Keep}]
    [] kind = "duplicate" -> [name: Names, room: {Nil}, token: {Keep}]
    [] kind = "room" -> [name: {Nil}, room: Rooms, token: {Keep}]
    [] kind = "token" -> [name: {Nil}, room: {Nil}, token: Tokens]
    [] OTHER -> none

Targets(kind) == IF kind \in {"create", "token"} THEN {0} ELSE {i \in Ids : i < nextId}

(* Requests keep apart: one for an instance, and one that deals with       *)
(* names, at a time.                                                       *)
Naming == {"create", "duplicate", "edit"}

Clear(kind, i) ==
  \A q \in Procs : op[q].pc # "idle" =>
    /\ op[q].id # i /\ op[q].kind # "token" /\ kind # "token"
    /\ ~(op[q].kind \in Naming /\ kind \in Naming)

Begin(p) ==
  /\ At(p, "idle")
  /\ left.ops > 0
  /\ \E kind \in Kinds : \E i \in Targets(kind), req \in Requests(kind) :
       /\ Clear(kind, i) \/ left.overlaps > 0
       /\ left' = [left EXCEPT !.ops = @ - 1,
                               !.overlaps = IF Clear(kind, i) THEN @ ELSE @ - 1]
       /\ op' = [op EXCEPT ![p] = [IdleOp EXCEPT !.pc = FirstStep(kind),
                                    !.kind = kind, !.id = i, !.req = req]]
  /\ UNCHANGED <<rows, nextId, minted, yaml, key, unit, up>>

(* The response is written; the handler's values are gone.                 *)
Respond(p) ==
  /\ At(p, "done")
  /\ op' = [op EXCEPT ![p] = IdleOp]
  /\ UNCHANGED <<rows, nextId, minted, yaml, key, unit, up, left>>

(* The client disconnects: every later use of the request's context fails. *)
Cancel(p) ==
  /\ up /\ op[p].pc \notin {"idle", "done"}
  /\ ~op[p].cancelled
  /\ left.cancels > 0
  /\ left' = [left EXCEPT !.cancels = @ - 1]
  /\ op' = [op EXCEPT ![p].cancelled = TRUE]
  /\ UNCHANGED <<rows, nextId, minted, yaml, key, unit, up>>

-----------------------------------------------------------------------------
(* Create and Duplicate.                                                   *)

(* Duplicate: raw reads the row to copy; Create clears its client ID.      *)
DupRead(p) ==
  /\ At(p, "dup_read")
  /\ LET i == op[p].id IN
     \/ /\ op[p].cancelled \/ rows[i] = Nil
        /\ Finish(p, "error")
     \/ /\ ~op[p].cancelled /\ rows[i] # Nil
        /\ op' = [op EXCEPT ![p].pc = "count", ![p].req.room = rows[i].room,
                            ![p].req.token = rows[i].token]
  /\ UNCHANGED <<rows, nextId, minted, yaml, key, unit, up, left>>

(* The limit is read, in a statement of its own.                           *)
CountInstances(p) ==
  /\ At(p, "count")
  /\ \/ /\ op[p].cancelled \/ Cardinality(Existing) >= MaxInstances
        /\ Finish(p, "error")
     \/ /\ ~op[p].cancelled /\ Cardinality(Existing) < MaxInstances
        /\ Go(p, "insert")
  /\ UNCHANGED <<rows, nextId, minted, yaml, key, unit, up, left>>

NewRow(req, cid) == [name |-> req.name, room |-> req.room, token |-> req.token,
                     cid |-> cid]

(* Mutant: Duplicate does not clear the client ID of the copy.             *)
NewClientId_Copied(p) ==
  IF op[p].kind = "duplicate" /\ rows[op[p].id] # Nil THEN rows[op[p].id].cid ELSE minted

(* CreateInstance draws the client ID of a row that comes without one.     *)
NewClientId(p) == minted

(* The transaction of CreateInstance: the row and its traffic counter.     *)
InsertRow(p) ==
  /\ At(p, "insert")
  /\ \/ /\ op[p].cancelled \/ nextId \notin Ids \/ NameTaken(op[p].req.name, 0)
        /\ Finish(p, "error")
        /\ UNCHANGED <<rows, nextId, minted>>
     \/ /\ ~op[p].cancelled /\ nextId \in Ids /\ ~NameTaken(op[p].req.name, 0)
        /\ LET row == NewRow(op[p].req, NewClientId(p)) IN
             /\ rows' = [rows EXCEPT ![nextId] = row]
             /\ op' = [op EXCEPT ![p].pc = "insert_reread", ![p].id = nextId,
                                 ![p].new = row]
        /\ nextId' = nextId + 1
        /\ minted' = minted + 1
  /\ UNCHANGED <<yaml, key, unit, up, left>>

(* CreateInstance reads the row back after the commit; when that fails,    *)
(* Create returns without the clean-up it does for the files.              *)
InsertReread(p) ==
  /\ At(p, "insert_reread")
  /\ \/ /\ op[p].cancelled \/ rows[op[p].id] = Nil
        /\ Finish(p, "error")
     \/ /\ ~op[p].cancelled /\ rows[op[p].id] # Nil
        /\ Go(p, "new_key")
  /\ UNCHANGED <<rows, nextId, minted, yaml, key, unit, up, left>>

WriteNewKey(p) ==
  /\ At(p, "new_key")
  /\ \/ /\ key' = [key EXCEPT ![op[p].id] = minted]
        /\ minted' = minted + 1
        /\ Go(p, "new_yaml")
        /\ UNCHANGED left
     \/ /\ DiskFault
        /\ key' \in Unwritten(key, p, 0)
        /\ Go(p, "undo_row")
        /\ UNCHANGED minted
  /\ UNCHANGED <<rows, nextId, yaml, unit, up>>

WriteNewYaml(p) ==
  /\ At(p, "new_yaml")
  /\ \/ /\ yaml' = [yaml EXCEPT ![op[p].id] = Render(op[p].new)]
        /\ Go(p, "decorate")
        /\ UNCHANGED left
     \/ /\ DiskFault
        /\ yaml' \in Unwritten(yaml, p, Nil)
        /\ Go(p, "undo_row")
  /\ UNCHANGED <<rows, nextId, minted, key, unit, up>>

(* Create's clean-up deletes the row with the request's own context.       *)
UndoRow(p) ==
  /\ At(p, "undo_row")
  /\ rows' = IF op[p].cancelled THEN rows ELSE [rows EXCEPT ![op[p].id] = Nil]
  /\ Go(p, "undo_files")
  /\ UNCHANGED <<nextId, minted, yaml, key, unit, up, left>>

(* The errors of the two RemoveAll calls are dropped.                      *)
UndoFiles(p) ==
  /\ At(p, "undo_files")
  /\ LET i == op[p].id IN
     \/ /\ yaml' = [yaml EXCEPT ![i] = Nil]
        /\ key' = [key EXCEPT ![i] = 0]
        /\ UNCHANGED left
     \/ /\ DiskFault
        /\ yaml' \in {yaml, [yaml EXCEPT ![i] = Nil]}
        /\ key' \in {key, [key EXCEPT ![i] = 0]}
  /\ Finish(p, "error")
  /\ UNCHANGED <<rows, nextId, minted, unit, up>>

-----------------------------------------------------------------------------
(* Update, ChangeRoom and UpdateWBToken.                                   *)

(* ChangeRoom: raw reads the row, the request takes every other field.     *)
RawRead(p) ==
  /\ At(p, "raw")
  /\ LET i == op[p].id IN
     \/ /\ op[p].cancelled \/ rows[i] = Nil
        /\ Finish(p, "error")
     \/ /\ ~op[p].cancelled /\ rows[i] # Nil
        /\ op' = [op EXCEPT ![p].pc = "read", ![p].req.name = rows[i].name]
  /\ UNCHANGED <<rows, nextId, minted, yaml, key, unit, up, left>>

(* UpdateWBToken reads every instance once, before the first update.       *)
TokenList(p) ==
  /\ At(p, "token_list")
  /\ \/ /\ op[p].cancelled
        /\ op' = [op EXCEPT ![p].pc = "done", ![p].result = "error"]
     \/ /\ ~op[p].cancelled
        /\ op' = [op EXCEPT ![p].pc = "token_next", ![p].snap = rows,
                            ![p].todo = Existing]
  /\ UNCHANGED <<rows, nextId, minted, yaml, key, unit, up, left>>

(* The next instance, in the order of the ids, is updated from the         *)
(* snapshot; an instance whose update failed is recorded and passed over.  *)
TokenNext(p) ==
  /\ At(p, "token_next")
  /\ \/ /\ op[p].todo = {}
        /\ op' = [op EXCEPT ![p].pc = "done",
                            ![p].result = IF op[p].failed = {} THEN "ok" ELSE "error"]
     \/ \E i \in op[p].todo :
        /\ \A j \in op[p].todo : i <= j
        /\ op' = [op EXCEPT ![p].pc = "read", ![p].id = i, ![p].todo = @ \ {i},
                            ![p].req.name = op[p].snap[i].name,
                            ![p].req.room = op[p].snap[i].room]
  /\ UNCHANGED <<rows, nextId, minted, yaml, key, unit, up, left>>

(* Mutants: a token of the request is dropped; the client ID is not        *)
(* carried over.                                                           *)
UpdatedRow_OldToken(req, old) ==
  [name |-> req.name, room |-> req.room, token |-> old.token, cid |-> old.cid]
UpdatedRow_NoIdentity(req, old) ==
  [name |-> req.name, room |-> req.room,
   token |-> IF req.token = Keep THEN old.token ELSE req.token, cid |-> 0]

(* The row Update writes: client ID from the old row, token too if empty.  *)
UpdatedRow(req, old) ==
  [name |-> req.name, room |-> req.room,
   token |-> IF req.token = Keep THEN old.token ELSE req.token, cid |-> old.cid]

(* Update and RotateClientID read the row they are going to replace.       *)
ReadOld(p) ==
  /\ At(p, "read")
  /\ LET row == rows[op[p].id] IN
     \/ /\ op[p].cancelled \/ row = Nil
        /\ Finish(p, "error")
        /\ UNCHANGED minted
     \/ /\ ~op[p].cancelled /\ row # Nil /\ op[p].kind \in Edits
        /\ op' = [op EXCEPT ![p].pc = "read_files", ![p].old = row,
                            ![p].new = UpdatedRow(op[p].req, row)]
        /\ UNCHANGED minted
     \/ /\ ~op[p].cancelled /\ row # Nil /\ op[p].kind = "rotate_client"
        /\ op' = [op EXCEPT ![p].pc = "exec", ![p].old = row,
                            ![p].new = [row EXCEPT !.cid = minted]]
        /\ minted' = minted + 1
  /\ UNCHANGED <<rows, nextId, yaml, key, unit, up, left>>

(* The old config.yaml is kept for the rollback; without a key, no update. *)
ReadFiles(p) ==
  /\ At(p, "read_files")
  /\ \/ /\ key[op[p].id] = 0
        /\ Finish(p, "error")
     \/ /\ key[op[p].id] # 0
        /\ op' = [op EXCEPT ![p].pc = "write_yaml", ![p].oldYaml = yaml[op[p].id]]
  /\ UNCHANGED <<rows, nextId, minted, yaml, key, unit, up, left>>

WriteYaml(p) ==
  /\ At(p, "write_yaml")
  /\ \/ /\ yaml' = [yaml EXCEPT ![op[p].id] = Render(op[p].new)]
        /\ Go(p, "exec")
        /\ UNCHANGED left
     \/ /\ DiskFault
        /\ yaml' \in Unwritten(yaml, p, Nil)
        /\ Finish(p, "error")
  /\ UNCHANGED <<rows, nextId, minted, key, unit, up>>

(* UpdateInstance, its UPDATE; Update puts the old file back on an error.  *)
ExecUpdate(p) ==
  /\ At(p, "exec")
  /\ \/ /\ CanUpdate(p, op[p].new)
        /\ rows' = [rows EXCEPT ![op[p].id] = op[p].new]
        /\ Go(p, "reread")
     \/ /\ ~CanUpdate(p, op[p].new)
        /\ IF op[p].kind \in Edits THEN Go(p, "undo_yaml") ELSE Finish(p, "error")
        /\ UNCHANGED rows
  /\ UNCHANGED <<nextId, minted, yaml, key, unit, up, left>>

(* UpdateInstance reads the row back.  An error here is taken for an error *)
(* of the UPDATE, which has been committed.                                *)
Reread(p) ==
  /\ At(p, "reread")
  /\ \/ /\ op[p].cancelled \/ rows[op[p].id] = Nil
        /\ IF op[p].kind \in Edits THEN Go(p, "undo_yaml") ELSE Finish(p, "error")
     \/ /\ ~op[p].cancelled /\ rows[op[p].id] # Nil
        /\ Go(p, "status")
  /\ UNCHANGED <<rows, nextId, minted, yaml, key, unit, up, left>>

UndoYaml(p) ==
  /\ At(p, "undo_yaml")
  /\ \/ /\ yaml' = [yaml EXCEPT ![op[p].id] = Restored(op[p].oldYaml)]
        /\ UNCHANGED left
     \/ /\ DiskFault
        /\ yaml' \in Unwritten(yaml, p, Nil)
  /\ Finish(p, "error")
  /\ UNCHANGED <<rows, nextId, minted, key, unit, up>>

-----------------------------------------------------------------------------
(* RotateKey.                                                              *)

ReadKey(p) ==
  /\ At(p, "read_key")
  /\ \/ /\ key[op[p].id] = 0
        /\ Finish(p, "error")
     \/ /\ key[op[p].id] # 0
        /\ op' = [op EXCEPT ![p].pc = "write_key", ![p].oldKey = key[op[p].id]]
  /\ UNCHANGED <<rows, nextId, minted, yaml, key, unit, up, left>>

WriteKey(p) ==
  /\ At(p, "write_key")
  /\ \/ /\ key' = [key EXCEPT ![op[p].id] = minted]
        /\ minted' = minted + 1
        /\ Go(p, "status")
        /\ UNCHANGED left
     \/ /\ DiskFault
        /\ key' \in Unwritten(key, p, 0)
        /\ Finish(p, "error")
        /\ UNCHANGED minted
  /\ UNCHANGED <<rows, nextId, yaml, unit, up>>

-----------------------------------------------------------------------------
(* The common tail of Update, RotateKey and RotateClientID: a running unit *)
(* is restarted, and the change is taken back when it does not come up.    *)

(* Update and RotateKey ignore an unreadable status and restart nothing;   *)
(* RotateClientID takes its change back.                                   *)
ReadStatus(p) ==
  /\ At(p, "status")
  /\ \/ /\ CtlFault(p)
        /\ CASE op[p].kind = "rotate_client" -> Go(p, "revert_row")
             [] OTHER -> Succeed(p)
     \/ /\ ~op[p].cancelled
        /\ IF unit[op[p].id].state = "running" THEN Go(p, "launch") ELSE Succeed(p)
        /\ UNCHANGED left
  /\ UNCHANGED <<rows, nextId, minted, yaml, key, unit, up>>

GiveUp(p) ==
  IF op[p].kind \in {"start", "restart"}
  THEN Finish(p, "error") ELSE Go(p, Recovery(op[p].kind))

(* systemctl start leaves a running unit alone, restart never does.  A     *)
(* call that fails may have queued its job all the same.                   *)
Launch(p) ==
  /\ At(p, "launch")
  /\ LET i == op[p].id IN
     \E after \in IF op[p].kind = "start" /\ unit[i].state = "running"
                  THEN {unit[i]} ELSE Launched(i) :
     \/ /\ ~op[p].cancelled
        /\ unit' = [unit EXCEPT ![i] = after]
        /\ IF after.state = "running" THEN Go(p, "wait") ELSE GiveUp(p)
        /\ UNCHANGED left
     \/ /\ CtlFault(p)
        /\ unit' \in {unit, [unit EXCEPT ![i] = after]}
        /\ GiveUp(p)
  /\ UNCHANGED <<rows, nextId, minted, yaml, key, up>>

(* Mutant: WaitActive has no timeout and ignores a cancelled context.      *)
WaitActive_Forever(p) ==
  /\ At(p, "wait")
  /\ unit[op[p].id].state = "running"
  /\ Succeed(p)
  /\ UNCHANGED <<rows, nextId, minted, yaml, key, unit, up, left>>

(* WaitActive: the unit stays up for a second, or it does not in time.     *)
WaitActive(p) ==
  /\ At(p, "wait")
  /\ LET running == unit[op[p].id].state = "running" IN
     \/ /\ running /\ ~op[p].cancelled
        /\ Succeed(p)
     \/ /\ ~running \/ op[p].cancelled
        /\ GiveUp(p)
  /\ UNCHANGED <<rows, nextId, minted, yaml, key, unit, up, left>>

(* Mutants: the rollback inserts a missing row; it is left out; it writes  *)
(* the new row again.                                                      *)
RolledBackRows_Upsert(p) ==
  IF op[p].cancelled THEN rows ELSE [rows EXCEPT ![op[p].id] = op[p].old]
RolledBackRows_Skipped(p) ==
  IF op[p].kind # "room" /\ CanUpdate(p, op[p].old)
  THEN [rows EXCEPT ![op[p].id] = op[p].old] ELSE rows
RolledBackRows_New(p) ==
  IF CanUpdate(p, op[p].new) THEN [rows EXCEPT ![op[p].id] = op[p].new] ELSE rows

(* The row as the rollback leaves it; the error of UpdateInstance is       *)
(* dropped by every caller.                                                *)
RolledBackRows(p) ==
  IF CanUpdate(p, op[p].old) THEN [rows EXCEPT ![op[p].id] = op[p].old] ELSE rows

RevertRow(p) ==
  /\ At(p, "revert_row")
  /\ rows' = RolledBackRows(p)
  /\ Finish(p, "rolled_back")
  /\ UNCHANGED <<nextId, minted, yaml, key, unit, up, left>>

BackRow(p) ==
  /\ At(p, "back_row")
  /\ rows' = RolledBackRows(p)
  /\ Go(p, IF op[p].kind = "rotate_client" THEN "back_launch" ELSE "back_yaml")
  /\ UNCHANGED <<nextId, minted, yaml, key, unit, up, left>>

BackYaml(p) ==
  /\ At(p, "back_yaml")
  /\ \/ /\ yaml' = [yaml EXCEPT ![op[p].id] = Restored(op[p].oldYaml)]
        /\ UNCHANGED left
     \/ /\ DiskFault
        /\ yaml' \in Unwritten(yaml, p, Nil)
  /\ Go(p, "back_launch")
  /\ UNCHANGED <<rows, nextId, minted, key, unit, up>>

BackKey(p) ==
  /\ At(p, "back_key")
  /\ \/ /\ key' = [key EXCEPT ![op[p].id] = op[p].oldKey]
        /\ UNCHANGED left
     \/ /\ DiskFault
        /\ key' \in Unwritten(key, p, 0)
  /\ Go(p, "back_launch")
  /\ UNCHANGED <<rows, nextId, minted, yaml, unit, up>>

(* Mutant: the unit is not restarted after the files were put back.        *)
BackLaunch_NoRestart(p) ==
  /\ At(p, "back_launch")
  /\ Finish(p, "rolled_back")
  /\ UNCHANGED <<rows, nextId, minted, yaml, key, unit, up, left>>

BackLaunch(p) ==
  /\ At(p, "back_launch")
  /\ \E after \in Launched(op[p].id) :
       LET units == [unit EXCEPT ![op[p].id] = after] IN
       \/ ~op[p].cancelled /\ unit' = units /\ UNCHANGED left
       \/ CtlFault(p) /\ unit' \in {unit, units}
  /\ Finish(p, "rolled_back")
  /\ UNCHANGED <<rows, nextId, minted, yaml, key, up>>

-----------------------------------------------------------------------------
(* Start, Restart, Stop and Delete.                                        *)

(* The row must be there; handleInstanceDelete, which compares the name,   *)
(* also reads the status, and refuses when it cannot.                      *)
CheckRow(p) ==
  /\ At(p, "check")
  /\ \/ /\ op[p].cancelled \/ rows[op[p].id] = Nil
        /\ Finish(p, "error") /\ UNCHANGED left
     \/ op[p].kind = "delete" /\ CtlFault(p) /\ Finish(p, "error")
     \/ /\ ~op[p].cancelled /\ rows[op[p].id] # Nil
        /\ Go(p, IF op[p].kind \in {"start", "restart"} THEN "launch" ELSE "stop")
        /\ UNCHANGED left
  /\ UNCHANGED <<rows, nextId, minted, yaml, key, unit, up>>

(* Delete goes on when Stop or Disable fails (the unit is never enabled).  *)
StopUnit(p) ==
  /\ At(p, "stop")
  /\ LET after == [unit EXCEPT ![op[p].id] = Stopped(op[p].id)] IN
     \/ /\ ~op[p].cancelled
        /\ unit' = after
        /\ IF op[p].kind = "delete" THEN Go(p, "remove_files") ELSE Finish(p, "ok")
        /\ UNCHANGED left
     \/ /\ CtlFault(p)
        /\ unit' \in {unit, after}
        /\ IF op[p].kind = "delete" THEN Go(p, "remove_files") ELSE Finish(p, "error")
  /\ UNCHANGED <<rows, nextId, minted, yaml, key, up>>

(* Mutant: only config.yaml is removed.                                    *)
RemoveFiles_ConfigOnly(p) ==
  /\ At(p, "remove_files")
  /\ yaml' = [yaml EXCEPT ![op[p].id] = Nil]
  /\ Go(p, "remove_row")
  /\ UNCHANGED <<rows, nextId, minted, key, unit, up, left>>

(* RemoveAll of the two directories; a failing one may leave any file.     *)
RemoveFiles(p) ==
  /\ At(p, "remove_files")
  /\ LET i == op[p].id IN
     \/ /\ yaml' = [yaml EXCEPT ![i] = Nil]
        /\ key' = [key EXCEPT ![i] = 0]
        /\ Go(p, "remove_row")
        /\ UNCHANGED left
     \/ /\ DiskFault
        /\ yaml' \in {yaml, [yaml EXCEPT ![i] = Nil]}
        /\ key' \in {key, [key EXCEPT ![i] = 0]}
        /\ Finish(p, "error")
  /\ UNCHANGED <<rows, nextId, minted, unit, up>>

RemoveRow(p) ==
  /\ At(p, "remove_row")
  /\ \/ /\ op[p].cancelled \/ rows[op[p].id] = Nil
        /\ Finish(p, "error")
        /\ UNCHANGED rows
     \/ /\ ~op[p].cancelled /\ rows[op[p].id] # Nil
        /\ rows' = [rows EXCEPT ![op[p].id] = Nil]
        /\ Finish(p, "ok")
  /\ UNCHANGED <<nextId, minted, yaml, key, unit, up, left>>

-----------------------------------------------------------------------------
(* systemd, crashes of the panel, and Reconcile at its start.              *)

(* The process dies: Restart=on-failure, or the start limit is reached.    *)
UnitDies(i) ==
  /\ unit[i].state = "running"
  /\ left.deaths > 0
  /\ left' = [left EXCEPT !.deaths = @ - 1]
  /\ \E state \in {"starting", "failed"} : unit' = [unit EXCEPT ![i] = [Off EXCEPT !.state = state]]
  /\ UNCHANGED <<rows, nextId, minted, yaml, key, up, op>>

(* An update has replaced the file and not (yet) the row.                  *)
MidUpdate(i) ==
  \E p \in Procs : op[p].id = i /\ op[p].kind \in Edits /\ op[p].pc \in {"exec", "undo_yaml"}

(* systemd restarts it after RestartSec; it reads the files of that time.  *)
UnitRestarts(i) ==
  /\ unit[i].state = "starting"
  /\ \E after \in Launched(i) :
       unit' = [unit EXCEPT ![i] = [after EXCEPT !.early = MidUpdate(i)]]
  /\ UNCHANGED <<rows, nextId, minted, yaml, key, up, op, left>>

(* The panel is killed: handlers stop where they are, units go on running. *)
Crash ==
  /\ up
  /\ left.crashes > 0
  /\ left' = [left EXCEPT !.crashes = @ - 1]
  /\ up' = FALSE
  /\ op' = [p \in Procs |-> IdleOp]
  /\ UNCHANGED <<rows, nextId, minted, yaml, key, unit>>

(* Mutant: Reconcile writes only the files that are missing.               *)
Reconciled_MissingOnly ==
  [i \in Ids |-> IF rows[i] # Nil /\ yaml[i] = Nil THEN Render(rows[i]) ELSE yaml[i]]

(* Reconcile writes config.yaml of every row before the server listens.    *)
Reconciled == [i \in Ids |-> IF rows[i] # Nil THEN Render(rows[i]) ELSE yaml[i]]

Boot ==
  /\ ~up
  /\ up' = TRUE
  /\ yaml' = Reconciled
  /\ UNCHANGED <<rows, nextId, minted, key, unit, op, left>>

(* A write of Reconcile fails: the files it had read are put back, the     *)
(* panel exits and systemd starts it again.                                *)
BootFails ==
  /\ ~up
  /\ DiskFault
  /\ \E written \in SUBSET Existing :
       /\ written # Existing
       /\ yaml' = [i \in Ids |-> IF i \in written /\ yaml[i] \in {Nil, EmptyFile}
                                 THEN Render(rows[i]) ELSE yaml[i]]
  /\ UNCHANGED <<rows, nextId, minted, key, unit, up, op>>

-----------------------------------------------------------------------------
Creating(p) ==
  \/ DupRead(p) \/ CountInstances(p) \/ InsertRow(p) \/ InsertReread(p)
  \/ WriteNewKey(p) \/ WriteNewYaml(p) \/ UndoRow(p) \/ UndoFiles(p)

Updating(p) ==
  \/ RawRead(p) \/ TokenList(p) \/ TokenNext(p) \/ ReadOld(p) \/ ReadFiles(p)
  \/ WriteYaml(p) \/ ExecUpdate(p) \/ Reread(p) \/ UndoYaml(p)
  \/ ReadKey(p) \/ WriteKey(p)

Applying(p) ==
  \/ ReadStatus(p) \/ Launch(p) \/ WaitActive(p) \/ RevertRow(p) \/ BackRow(p)
  \/ BackYaml(p) \/ BackKey(p) \/ BackLaunch(p) \/ Decorate(p)

Removing(p) == CheckRow(p) \/ StopUnit(p) \/ RemoveFiles(p) \/ RemoveRow(p)

Handle(p) == Creating(p) \/ Updating(p) \/ Applying(p) \/ Removing(p) \/ Respond(p)

Next ==
  \/ \E p \in Procs : Begin(p) \/ Cancel(p) \/ Handle(p)
  \/ \E i \in Ids : UnitDies(i) \/ UnitRestarts(i)
  \/ Crash \/ Boot \/ BootFails

Spec == Init /\ [][Next]_vars

(* A handler goroutine is scheduled; systemd restarts a dead panel.        *)
FairSpec == Spec /\ (\A p \in Procs : WF_vars(Handle(p))) /\ WF_vars(Boot)

-----------------------------------------------------------------------------
(* Properties.  No lock keeps requests apart, and most properties only     *)
(* hold as long as they have kept apart by themselves; some only as long   *)
(* as certain faults have not occurred.                                    *)

Settled == up /\ \A p \in Procs : op[p].pc \in {"idle", "done"}
Spared(faults) == \A f \in faults : left[f] = Limits[f]
AllFaults == {"crashes", "cancels", "disk", "ctl"}
KeptApart == Spared({"overlaps"})

(* A deleted instance never comes back under its id, whatever a rollback   *)
(* or a late write of another handler puts into the table: UpdateInstance  *)
(* updates and never inserts, and AUTOINCREMENT never reuses an id.        *)
NoResurrection ==
  [][\A i \in Ids : i < nextId /\ rows[i] = Nil => rows'[i] = Nil]_vars

(* Two instances never carry the same client ID, although rollbacks and    *)
(* updates write back client IDs they read earlier: the unique index on    *)
(* client_id is never what stops a write.                                  *)
NoClientIdClash ==
  \A i, j \in Existing : rows[i].cid = rows[j].cid => i = j

(* When no handler is at work, config.yaml is what the row says: after     *)
(* updates, rollbacks, crashes in the middle of them and Reconcile, as     *)
(* long as requests kept apart, no file operation failed and no client     *)
(* disconnected.                                                           *)
YamlMatchesRow ==
  KeptApart /\ Settled /\ Spared({"disk", "cancels"}) => \A i \in Existing : yaml[i] = Render(rows[i])

(* When no handler is at work, a running process uses the row's            *)
(* configuration and the key on disk, as long as requests kept apart and   *)
(* nothing failed but the units.  The one gap: systemd restarts a dead unit *)
(* between Update's write of config.yaml and an UPDATE that is refused;    *)
(* Update puts the file back and does not restart the unit.                *)
RunningMatchesDisk ==
  KeptApart /\ Settled /\ Spared(AllFaults) => \A i \in Existing : unit[i].state = "running" =>
    /\ unit[i].key = key[i]
    /\ unit[i].yaml = Render(rows[i]) \/ unit[i].early

(* A handler that answers "previous configuration restored" or "was rolled *)
(* back" has put back the row, the file and the key it had replaced, as    *)
(* long as requests kept apart, no file operation failed and no client     *)
(* disconnected: the rollback drops the errors of its own writes.          *)
RollbackRestores ==
  KeptApart /\ Spared({"disk", "cancels"}) => \A p \in Procs :
    op[p].pc \in {"done", "token_next"} /\ op[p].result = "rolled_back" =>
      LET i == op[p].id IN
      /\ op[p].kind \in Edits \cup {"rotate_client"} => rows[i] = op[p].old
      /\ op[p].kind \in Edits => yaml[i] = op[p].oldYaml
      /\ op[p].kind = "rotate_key" => key[i] = op[p].oldKey

(* A deleted instance, or one whose creation was undone, leaves no file    *)
(* and no process behind, whichever write or removal of a file fails, as   *)
(* long as requests kept apart (a start or an update of an instance that   *)
(* is being deleted leaves both).  (At most one fails: the clean-up of     *)
(* Create drops the errors of its own removals.)                           *)
NoLeftovers ==
  KeptApart /\ Settled /\ Spared({"crashes", "ctl"}) /\ left.disk + 1 >= MaxDisk => \A i \in Ids : rows[i] = Nil =>
    yaml[i] = Nil /\ key[i] = 0 /\ unit[i].state \notin {"running", "starting"}

(* ChangeRoom changes the room of an instance and nothing else of its row, *)
(* as long as requests kept apart: it writes the whole row it read.        *)
RoomChangeOnlyRoom ==
  [][\A p \in Procs :
       LET i == op[p].id IN
       KeptApart' /\ op[p].kind = "room" /\ op'[p] # op[p] /\ rows[i] # Nil /\ rows'[i] # Nil
         => rows'[i] = [rows[i] EXCEPT !.room = rows'[i].room]]_vars

(* When UpdateWBToken reports no failure, every instance it was to update  *)
(* has the new token, and the rest of its row is as it was, as long as     *)
(* requests kept apart.                                                    *)
TokenReachesAll ==
  KeptApart => \A p \in Procs :
    op[p].kind = "token" /\ op[p].pc = "done" /\ op[p].result = "ok" =>
      \A i \in Ids : op[p].snap[i] # Nil =>
        rows[i] = [op[p].snap[i] EXCEPT !.token = op[p].req.token]

(* The table as InstanceRegistry sees it: a row that its handler may still *)
(* take back counts as not yet written.                                    *)
Unconfirmed(p, i) ==
  /\ op[p].id = i
  /\ op[p].pc \in {"reread", "status", "launch", "wait", "revert_row", "back_row",
                   "insert_reread", "new_key", "new_yaml", "undo_row", "decorate"}
  /\ op[p].kind \in {"create", "duplicate", "edit", "room", "rotate_client"}
  /\ rows[i] = op[p].new

Visible ==
  [i \in Ids |->
     IF \E p \in Procs : Unconfirmed(p, i)
     THEN op[CHOOSE p \in Procs : Unconfirmed(p, i)].old ELSE rows[i]]

Calls ==
  [p \in Procs |->
     LET o == op[p] IN
     IF o.pc = "idle" THEN Nil
     ELSE [kind |-> o.kind,
           id |-> IF o.kind \in {"create", "duplicate"} THEN 0 ELSE o.id,
           req |-> [name |-> IF o.kind = "room" THEN Nil ELSE o.req.name,
                    room |-> IF o.kind = "duplicate" THEN Nil ELSE o.req.room,
                    token |-> IF o.kind = "duplicate" THEN Keep ELSE o.req.token],
           reply |-> IF o.pc # "done" THEN "none"
                     ELSE IF o.result = "ok" THEN "ok" ELSE "failed"]]

Registry == INSTANCE InstanceRegistry WITH table <- Visible, call <- Calls

(* Seen from outside, create, duplicate, edit, change-room, rotate and     *)
(* delete are atomic on the table: they take effect whole when the answer  *)
(* is success and not at all when it is an error or a rollback.  (Only     *)
(* decorate may still turn a success into an error: the configuration      *)
(* leaves out a status that cannot be read.)                               *)
RefinesRegistry == Registry!Spec

(* Every request is answered, or dies with the panel.                      *)
RequestsFinish == \A p \in Procs : op[p].pc # "idle" ~> op[p].pc = "idle"

=============================================================================
