------------------------ MODULE InstanceManagerProofs ------------------------
(***************************************************************************)
(* Theorems about InstanceManager for every number of handlers, instances, *)
(* names, rooms and tokens, and every bound on faults and requests: types, *)
(* and the identity of an instance (a rowid is never used twice, a client  *)
(* ID never belongs to two instances), however the requests interleave;    *)
(* then, as long as requests have kept apart, what the disk, the units and *)
(* the database have to do with each other.                                *)
(***************************************************************************)
EXTENDS InstanceManager, TLAPS

(* What a handler has read by the time it is at a step: the part of the    *)
(* inductive invariant that makes TypeOK inductive.                        *)
Addressed == Steps \ {"idle", "done", "count", "insert", "token_list", "token_next"}

Shape(o) ==
  /\ o.pc \in Addressed => o.id \in Ids
  /\ o.pc \in {"count", "insert"} =>
       o.req.name \in Names /\ o.req.room \in Rooms /\ o.req.token \in Tokens
  /\ o.pc = "dup_read" => o.req.name \in Names
  /\ o.pc = "raw" => o.kind = "room" /\ o.req.room \in Rooms
  /\ o.pc \in {"token_list", "token_next"} => o.kind = "token"
  /\ o.kind = "token" => \A i \in o.todo : o.snap[i] \in Row
  /\ o.pc = "read" =>
       \/ o.kind = "rotate_client"
       \/ o.kind \in Edits /\ o.req.name \in Names /\ o.req.room \in Rooms
  /\ o.pc \in {"insert_reread", "new_key", "new_yaml"} => o.new \in Row
  /\ o.pc \in {"read_files", "write_yaml", "undo_yaml"} => o.kind \in Edits
  /\ o.pc \in {"exec", "reread"} => o.kind \in Edits \cup {"rotate_client"}
  /\ o.pc \in {"read_files", "write_yaml", "exec", "reread"} => o.new \in Row
  /\ o.pc \in {"read_files", "write_yaml", "exec", "reread", "undo_yaml",
               "revert_row", "back_row"} => o.old \in Row
  /\ o.pc \in {"revert_row", "back_row"} => o.kind \in Edits \cup {"rotate_client"}
  /\ o.pc \in {"status", "launch", "wait"} =>
       \/ o.kind \in Edits \cup {"rotate_client"} /\ o.old \in Row
       \/ o.kind \in {"rotate_key", "start", "restart"}
  /\ o.pc \in {"read_key", "write_key"} => o.kind = "rotate_key"
  /\ o.pc = "check" => o.kind \in {"start", "restart", "stop", "delete"}

HandlerInv == \A p \in Procs : Shape(op[p])

Typed == TypeOK /\ HandlerInv

(* A handler whose new record has the type and the shape keeps both.       *)
OpTyped == op \in [Procs -> Operation] /\ HandlerInv

(* A step of one handler to a typed record of the right shape.             *)
LEMMA OpStep ==
  ASSUME OpTyped, NEW p \in Procs, NEW o \in Operation, Shape(o),
         op' = [op EXCEPT ![p] = o]
  PROVE  OpTyped'
<1>1. op' \in [Procs -> Operation]
  BY DEF OpTyped
<1>2. \A q \in Procs : op'[q] = IF q = p THEN o ELSE op[q]
  BY DEF OpTyped
<1>3. \A q \in Procs : Shape(op'[q])
  BY <1>2 DEF OpTyped, HandlerInv
<1>4. HandlerInv'
  BY <1>3 DEF HandlerInv, Shape, Addressed, Row, Ids
<1> QED
  BY <1>1, <1>4 DEF OpTyped

(* A handler that only changes its step keeps its type and shape.          *)
LEMMA GoStep ==
  ASSUME OpTyped, NEW p \in Procs, NEW s \in Steps, Go(p, s),
         Shape([op[p] EXCEPT !.pc = s])
  PROVE  OpTyped'
<1>1. [op[p] EXCEPT !.pc = s] \in Operation
  BY DEF OpTyped, Operation
<1>2. op' = [op EXCEPT ![p] = [op[p] EXCEPT !.pc = s]]
  BY DEF Go
<1> QED
  BY <1>1, <1>2, OpStep

(* A handler that finishes keeps its type and shape.                       *)
LEMMA FinishStep ==
  ASSUME OpTyped, NEW p \in Procs, NEW r \in Results, Finish(p, r)
  PROVE  OpTyped'
<1> DEFINE step == IF op[p].kind = "token" THEN "token_next" ELSE "done"
           failed == IF r = "ok" THEN op[p].failed ELSE op[p].failed \cup {op[p].id}
           o == [op[p] EXCEPT !.pc = step, !.result = r, !.failed = failed]
<1>1. op[p] \in Operation /\ step \in Steps /\ Shape(op[p])
  BY DEF Steps, OpTyped, HandlerInv
<1>2. failed \in SUBSET (Ids \cup {0})
  BY <1>1 DEF Operation
<1>3. op' = [op EXCEPT ![p] = o]
  BY DEF Finish
<1> HIDE DEF step, failed
<1>4. o \in Operation
  BY <1>1, <1>2 DEF Operation
<1>5. /\ o.pc = step /\ o.kind = op[p].kind /\ o.todo = op[p].todo
      /\ o.snap = op[p].snap
  BY <1>1 DEF Operation
<1> HIDE DEF o
<1>6. Shape(o)
  BY <1>1, <1>5 DEF Shape, step, Addressed, Steps
<1> QED
  BY <1>3, <1>4, <1>6, OpStep

(* An idle handler has the type and the shape of a handler.                *)
LEMMA IdleType == IdleOp \in Operation /\ Shape(IdleOp)
BY DEF IdleOp, Operation, Request, FileState, Steps, Results, Shape, Addressed

(* The empty panel is well typed.                                          *)
LEMMA InitType == Init => Typed
BY BoundAssumption, IdleType
DEF Init, TypeOK, Typed, HandlerInv, Off, Unit, UnitStates, FileState, Budget, Limits

-----------------------------------------------------------------------------
(* The operations, group by group.                                         *)

(* A write that fails leaves files of the same type.                       *)
LEMMA UnwrittenType ==
  ASSUME TypeOK, NEW p \in Procs
  PROVE  /\ \A f \in Unwritten(yaml, p, Nil) : f \in [Ids -> FileState]
         /\ \A f \in Unwritten(key, p, 0) : f \in [Ids -> Nat]
<1>1. [yaml EXCEPT ![op[p].id] = Nil] \in [Ids -> FileState]
  BY DEF TypeOK, FileState
<1>2. [key EXCEPT ![op[p].id] = 0] \in [Ids -> Nat]
  BY DEF TypeOK
<1> QED
  BY <1>1, <1>2 DEF TypeOK, Unwritten

(* Create and Duplicate keep the types: what is inserted is a row.         *)
LEMMA CreatingType ==
  ASSUME Typed, NEW p \in Procs, Creating(p)
  PROVE  Typed'
<1> DEFINE o == op[p]
<1>0. OpTyped /\ o \in Operation /\ Shape(o) /\ TypeOK
  BY DEF Typed, TypeOK, HandlerInv, OpTyped
<1> SUFFICES OpTyped' /\ TypeOK'
  BY DEF Typed, OpTyped
<1> USE DEF At
<1>1. CASE DupRead(p)
  <2>1. CASE Finish(p, "error")
    BY <1>0, <1>1, <2>1, FinishStep DEF DupRead, TypeOK, OpTyped, Results
  <2>2. CASE /\ rows[o.id] # Nil
             /\ op' = [op EXCEPT ![p].pc = "count", ![p].req.room = rows[o.id].room,
                                 ![p].req.token = rows[o.id].token]
    <3> DEFINE new == [o EXCEPT !.pc = "count",
                         !.req = [o.req EXCEPT !.room = rows[o.id].room,
                                               !.token = rows[o.id].token]]
    <3>1. o.pc = "dup_read" /\ o.id \in Ids /\ o.req.name \in Names /\ rows[o.id] \in Row
      BY <1>0, <1>1, <2>2 DEF DupRead, Shape, Addressed, TypeOK, Steps
    <3>2. new \in Operation
      BY <1>0, <3>1, ZenonT(60) DEF Operation, Request, Row, Steps
    <3>3. /\ new.pc = "count" /\ new.kind = o.kind /\ new.todo = o.todo
          /\ new.snap = o.snap /\ new.req.name = o.req.name
          /\ new.req.room = rows[o.id].room /\ new.req.token = rows[o.id].token
      BY <1>0 DEF Operation, Request
    <3>4. op' = [op EXCEPT ![p] = new]
      <4>1. op \in [Procs -> Operation]
        BY <1>0 DEF OpTyped
      <4>2. op'[p] = new
        BY <2>2, <4>1 DEF Operation, Request
      <4>3. op' = [op EXCEPT ![p] = op'[p]]
        BY <2>2, <4>1
      <4> QED
        BY <4>2, <4>3
    <3> HIDE DEF new
    <3>5. Shape(new)
      BY <1>0, <3>1, <3>3 DEF Shape, Addressed, Row
    <3>6. OpTyped'
      BY <3>2, <3>4, <3>5, <1>0, OpStep
    <3> QED
      BY <3>6, <1>0, <1>1 DEF DupRead, TypeOK, OpTyped
  <2> QED
    BY <1>1, <2>1, <2>2 DEF DupRead
<1>2. CASE CountInstances(p)
  <2>1. CASE Go(p, "insert")
    <3>1. Shape([o EXCEPT !.pc = "insert"])
      BY <1>0, <1>2 DEF CountInstances, Operation, Shape, Addressed, Steps
    <3> QED
      BY <3>1, <2>1, <1>0, <1>2, GoStep DEF CountInstances, TypeOK, OpTyped, Steps
  <2>2. CASE Finish(p, "error")
    BY <1>0, <1>2, <2>2, FinishStep DEF CountInstances, TypeOK, OpTyped, Results
  <2> QED
    BY <1>2, <2>1, <2>2 DEF CountInstances
<1>3. CASE InsertRow(p)
  <2> DEFINE row == NewRow(o.req, NewClientId(p))
             new == [o EXCEPT !.pc = "insert_reread", !.id = nextId, !.new = row]
  <2>1. CASE Finish(p, "error") /\ UNCHANGED <<rows, nextId, minted>>
    BY <1>0, <1>3, <2>1, FinishStep DEF InsertRow, TypeOK, OpTyped, Results
  <2>2. CASE /\ nextId \in Ids
             /\ rows' = [rows EXCEPT ![nextId] = row]
             /\ op' = [op EXCEPT ![p].pc = "insert_reread", ![p].id = nextId, ![p].new = row]
             /\ nextId' = nextId + 1 /\ minted' = minted + 1
    <3>1. row \in Row
      BY <1>0, <1>3 DEF InsertRow, NewRow, NewClientId, Row, Shape, TypeOK
    <3> HIDE DEF row
    <3>2. new \in Operation
      BY <1>0, <2>2, <3>1 DEF Operation, Steps
    <3>3. /\ new.pc = "insert_reread" /\ new.kind = o.kind /\ new.todo = o.todo
          /\ new.snap = o.snap /\ new.id = nextId /\ new.new = row
      BY <1>0 DEF Operation
    <3>4. op' = [op EXCEPT ![p] = new]
      BY <2>2
    <3> HIDE DEF new
    <3>5. Shape(new)
      BY <1>0, <2>2, <3>1, <3>3 DEF Shape, Addressed
    <3>6. OpTyped'
      BY <3>2, <3>4, <3>5, <1>0, OpStep
    <3> QED
      BY <3>1, <3>6, <2>2, <1>0, <1>3 DEF InsertRow, TypeOK, OpTyped
  <2> QED
    BY <1>3, <2>1, <2>2 DEF InsertRow
<1>4. CASE InsertReread(p)
  <2>1. CASE Go(p, "new_key")
    <3>1. Shape([o EXCEPT !.pc = "new_key"])
      BY <1>0, <1>4 DEF InsertReread, Operation, Shape, Addressed, Steps
    <3> QED
      BY <3>1, <2>1, <1>0, <1>4, GoStep DEF InsertReread, TypeOK, OpTyped, Steps
  <2>2. CASE Finish(p, "error")
    BY <1>0, <1>4, <2>2, FinishStep DEF InsertReread, TypeOK, OpTyped, Results
  <2> QED
    BY <1>4, <2>1, <2>2 DEF InsertReread
<1>5. CASE WriteNewKey(p)
  <2>1. /\ Shape([o EXCEPT !.pc = "new_yaml"])
        /\ Shape([o EXCEPT !.pc = "undo_row"])
    BY <1>0, <1>5 DEF WriteNewKey, Operation, Shape, Addressed, Steps
  <2>2. OpTyped'
    BY <2>1, <1>0, <1>5, GoStep DEF WriteNewKey, Steps
  <2> QED
    BY <2>2, <1>0, <1>5 DEF WriteNewKey, TypeOK, OpTyped, DiskFault, Budget, Unwritten
<1>6. CASE WriteNewYaml(p)
  <2>1. o.new \in Row /\ Render(o.new) \in FileState
    BY <1>0, <1>6 DEF WriteNewYaml, Shape, Render, Row, FileState, Yaml
  <2>2. OpTyped'
    <3>1. Shape([o EXCEPT !.pc = "undo_row"]) /\ Shape([o EXCEPT !.pc = "decorate"])
      BY <1>0, <1>6 DEF WriteNewYaml, Operation, Shape, Addressed, Steps
    <3>2. CASE Go(p, "undo_row")
      BY <3>1, <3>2, <1>0, GoStep DEF Steps
    <3>3. CASE Go(p, "decorate")
      BY <3>1, <3>3, <1>0, GoStep DEF Steps
    <3> QED
      BY <3>2, <3>3, <1>6 DEF WriteNewYaml
  <2>3. yaml' \in [Ids -> FileState]
    BY <2>1, <1>0, <1>6 DEF WriteNewYaml, TypeOK, Unwritten, FileState
  <2> QED
    BY <2>2, <2>3, <1>0, <1>6 DEF WriteNewYaml, TypeOK, OpTyped, DiskFault, Budget
<1>7. CASE UndoRow(p)
  <2>1. Shape([o EXCEPT !.pc = "undo_files"])
    BY <1>0, <1>7 DEF UndoRow, Operation, Shape, Addressed, Steps
  <2>2. OpTyped'
    BY <2>1, <1>0, <1>7, GoStep DEF UndoRow, Steps
  <2> QED
    BY <2>2, <1>0, <1>7 DEF UndoRow, TypeOK, OpTyped
<1>8. CASE UndoFiles(p)
  <2>1. OpTyped'
    BY <1>0, <1>8, FinishStep DEF UndoFiles, Results
  <2>2. yaml' \in [Ids -> FileState] /\ key' \in [Ids -> Nat]
    BY <1>0, <1>8 DEF UndoFiles, TypeOK, FileState
  <2> QED
    BY <2>1, <2>2, <1>0, <1>8 DEF UndoFiles, TypeOK, OpTyped, DiskFault, Budget
<1> QED
  BY <1>1, <1>2, <1>3, <1>4, <1>5, <1>6, <1>7, <1>8 DEF Creating

(* Update, RotateKey, RotateClientID and the token loop keep the types.    *)
LEMMA UpdatingType ==
  ASSUME Typed, NEW p \in Procs, Updating(p)
  PROVE  Typed'
<1> DEFINE o == op[p]
<1>0. OpTyped /\ o \in Operation /\ Shape(o) /\ TypeOK
  BY DEF Typed, TypeOK, HandlerInv, OpTyped
<1> SUFFICES OpTyped' /\ TypeOK'
  BY DEF Typed, OpTyped
<1> USE DEF At
<1>1. CASE RawRead(p)
  <2>1. CASE Finish(p, "error")
    BY <1>0, <1>1, <2>1, FinishStep DEF RawRead, TypeOK, OpTyped, Results
  <2>2. CASE rows[o.id] # Nil /\ op' = [op EXCEPT ![p].pc = "read", ![p].req.name = rows[o.id].name]
    <3> DEFINE new == [o EXCEPT !.pc = "read", !.req = [o.req EXCEPT !.name = rows[o.id].name]]
    <3>1. o.pc = "raw" /\ o.id \in Ids /\ o.kind = "room" /\ o.req.room \in Rooms /\ rows[o.id] \in Row
      BY <1>0, <1>1, <2>2 DEF RawRead, Shape, Addressed, TypeOK, Steps
    <3>2. new \in Operation
      BY <1>0, <3>1, ZenonT(60) DEF Operation, Request, Row, Steps
    <3>3. /\ new.pc = "read" /\ new.kind = o.kind /\ new.todo = o.todo /\ new.snap = o.snap
          /\ new.req.name = rows[o.id].name /\ new.req.room = o.req.room /\ new.id = o.id
      BY <1>0 DEF Operation, Request, Row
    <3>4. op' = [op EXCEPT ![p] = new]
      BY <2>2, <1>0 DEF Operation, Request, Row, OpTyped
    <3> HIDE DEF new
    <3>5. Shape(new)
      BY <1>0, <3>1, <3>3 DEF Shape, Addressed, Edits, Row
    <3>6. OpTyped'
      BY <3>2, <3>4, <3>5, <1>0, OpStep
    <3> QED
      BY <3>6, <1>0, <1>1, <2>2 DEF RawRead, TypeOK, OpTyped
  <2> QED
    BY <1>1, <2>1, <2>2 DEF RawRead
<1>2. CASE TokenList(p)
  <2>1. CASE op' = [op EXCEPT ![p].pc = "done", ![p].result = "error"]
    <3> DEFINE new == [o EXCEPT !.pc = "done", !.result = "error"]
    <3>1. o.kind = "token"
      BY <1>0, <1>2, <2>1 DEF TokenList, Shape, Addressed, TypeOK, Steps
    <3>2. new \in Operation
      BY <1>0, <3>1, ZenonT(60) DEF Operation, Results, Steps
    <3>3. /\ new.pc = "done" /\ new.kind = o.kind /\ new.todo = o.todo /\ new.snap = o.snap
      BY <1>0 DEF Operation, Results
    <3>4. op' = [op EXCEPT ![p] = new]
      BY <2>1, <1>0 DEF Operation, Results, OpTyped
    <3> HIDE DEF new
    <3>5. Shape(new)
      BY <1>0, <3>1, <3>3 DEF Shape, Addressed
    <3>6. OpTyped'
      BY <3>2, <3>4, <3>5, <1>0, OpStep
    <3> QED
      BY <3>6, <1>0, <1>2, <2>1 DEF TokenList, TypeOK, OpTyped
  <2>2. CASE op' = [op EXCEPT ![p].pc = "token_next", ![p].snap = rows, ![p].todo = Existing]
    <3> DEFINE new == [o EXCEPT !.pc = "token_next", !.snap = rows, !.todo = Existing]
    <3>1. o.kind = "token" /\ rows \in [Ids -> Row \cup {Nil}] /\ Existing \in SUBSET Ids
          /\ \A i \in Existing : rows[i] \in Row
      BY <1>0, <1>2, <2>2 DEF TokenList, Shape, Addressed, TypeOK, Steps, Existing
    <3>2. new \in Operation
      BY <1>0, <3>1, ZenonT(60) DEF Operation, Steps
    <3>3. /\ new.pc = "token_next" /\ new.kind = o.kind /\ new.todo = Existing /\ new.snap = rows
      BY <1>0 DEF Operation
    <3>4. op' = [op EXCEPT ![p] = new]
      BY <2>2, <1>0 DEF Operation, OpTyped
    <3> HIDE DEF new
    <3>5. Shape(new)
      BY <1>0, <3>1, <3>3 DEF Shape, Addressed
    <3>6. OpTyped'
      BY <3>2, <3>4, <3>5, <1>0, OpStep
    <3> QED
      BY <3>6, <1>0, <1>2, <2>2 DEF TokenList, TypeOK, OpTyped
  <2> QED
    BY <1>2, <2>1, <2>2 DEF TokenList
<1>3. CASE TokenNext(p)
  <2>1. CASE op' = [op EXCEPT ![p].pc = "done",
                         ![p].result = IF op[p].failed = {} THEN "ok" ELSE "error"]
    <3> DEFINE result == IF o.failed = {} THEN "ok" ELSE "error"
               new == [o EXCEPT !.pc = "done", !.result = result]
    <3>1. o.kind = "token" /\ result \in Results
      BY <1>0, <1>3, <2>1 DEF TokenNext, Shape, Addressed, TypeOK, Steps, Results
    <3>a. op' = [op EXCEPT ![p].pc = "done", ![p].result = result]
      BY <2>1
    <3> HIDE DEF result
    <3>2. new \in Operation
      BY <1>0, <3>1, ZenonT(60) DEF Operation, Results, Steps
    <3>3. /\ new.pc = "done" /\ new.kind = o.kind /\ new.todo = o.todo /\ new.snap = o.snap
      BY <1>0 DEF Operation, Results
    <3>4. op' = [op EXCEPT ![p] = new]
      BY <3>a, <1>0 DEF Operation, OpTyped
    <3> HIDE DEF new
    <3>5. Shape(new)
      BY <1>0, <3>1, <3>3 DEF Shape, Addressed
    <3>6. OpTyped'
      BY <3>2, <3>4, <3>5, <1>0, OpStep
    <3> QED
      BY <3>6, <1>0, <1>3, <2>1 DEF TokenNext, TypeOK, OpTyped
  <2>2. ASSUME NEW i \in o.todo,
               op' = [op EXCEPT ![p].pc = "read", ![p].id = i, ![p].todo = @ \ {i},
                                ![p].req.name = op[p].snap[i].name,
                                ![p].req.room = op[p].snap[i].room]
        PROVE  OpTyped' /\ TypeOK'
    <3> DEFINE new == [o EXCEPT !.pc = "read", !.id = i, !.todo = @ \ {i},
                     !.req = [o.req EXCEPT !.name = o.snap[i].name, !.room = o.snap[i].room]]
    <3>1. o.kind = "token" /\ i \in Ids /\ o.snap[i] \in Row
      BY <1>0, <1>3, <2>2 DEF TokenNext, Shape, Addressed, TypeOK, Steps, Operation
    <3>2. new \in Operation
      BY <1>0, <3>1, ZenonT(60) DEF Operation, Request, Row, Steps
    <3>3. /\ new.pc = "read" /\ new.kind = o.kind /\ new.todo = o.todo \ {i} /\ new.snap = o.snap
          /\ new.id = i /\ new.req.name = o.snap[i].name /\ new.req.room = o.snap[i].room
      BY <1>0 DEF Operation, Request, Row
    <3>4. op' = [op EXCEPT ![p] = new]
      BY <2>2, <1>0 DEF Operation, Request, Row, OpTyped
    <3> HIDE DEF new
    <3>5. Shape(new)
      BY <1>0, <3>1, <3>3 DEF Shape, Addressed, Edits, Row
    <3>6. OpTyped'
      BY <3>2, <3>4, <3>5, <1>0, OpStep
    <3> QED
      BY <3>6, <1>0, <1>3, <2>2 DEF TokenNext, TypeOK, OpTyped
  <2> QED
    BY <1>3, <2>1, <2>2 DEF TokenNext
<1>4. CASE ReadOld(p)
  <2> DEFINE row == rows[o.id]
  <2>1. CASE Finish(p, "error") /\ UNCHANGED minted
    BY <1>0, <1>4, <2>1, FinishStep DEF ReadOld, TypeOK, OpTyped, Results
  <2>2. CASE /\ row # Nil /\ o.kind \in Edits
             /\ op' = [op EXCEPT ![p].pc = "read_files", ![p].old = row,
                                 ![p].new = UpdatedRow(op[p].req, row)]
             /\ UNCHANGED minted
    <3> DEFINE new == [o EXCEPT !.pc = "read_files", !.old = row, !.new = UpdatedRow(o.req, row)]
    <3>1. row \in Row /\ UpdatedRow(o.req, row) \in Row /\ o.id \in Ids
      BY <1>0, <1>4, <2>2 DEF ReadOld, Shape, Addressed, TypeOK, Steps, UpdatedRow, Row, Operation, Request, Edits
    <3>2. new \in Operation
      BY <1>0, <3>1, ZenonT(60) DEF Operation, Steps
    <3>3. /\ new.pc = "read_files" /\ new.kind = o.kind /\ new.todo = o.todo /\ new.snap = o.snap
          /\ new.id = o.id /\ new.old = row /\ new.new = UpdatedRow(o.req, row)
      BY <1>0 DEF Operation
    <3>4. op' = [op EXCEPT ![p] = new]
      BY <2>2, <1>0 DEF Operation, OpTyped
    <3> HIDE DEF new
    <3>5. Shape(new)
      BY <1>0, <3>1, <3>3, <2>2 DEF Shape, Addressed
    <3>6. OpTyped'
      BY <3>2, <3>4, <3>5, <1>0, OpStep
    <3> QED
      BY <3>6, <1>0, <1>4, <2>2 DEF ReadOld, TypeOK, OpTyped
  <2>3. CASE /\ row # Nil /\ o.kind = "rotate_client"
             /\ op' = [op EXCEPT ![p].pc = "exec", ![p].old = row,
                                 ![p].new = [row EXCEPT !.cid = minted]]
             /\ minted' = minted + 1
    <3> DEFINE new == [o EXCEPT !.pc = "exec", !.old = row, !.new = [row EXCEPT !.cid = minted]]
    <3>1. row \in Row /\ [row EXCEPT !.cid = minted] \in Row /\ o.id \in Ids
      BY <1>0, <1>4, <2>3 DEF ReadOld, Shape, Addressed, TypeOK, Steps, Row
    <3>2. new \in Operation
      BY <1>0, <3>1, ZenonT(60) DEF Operation, Steps
    <3>3. /\ new.pc = "exec" /\ new.kind = o.kind /\ new.todo = o.todo /\ new.snap = o.snap
          /\ new.id = o.id /\ new.old = row /\ new.new = [row EXCEPT !.cid = minted]
      BY <1>0 DEF Operation
    <3>4. op' = [op EXCEPT ![p] = new]
      BY <2>3, <1>0 DEF Operation, OpTyped
    <3> HIDE DEF new
    <3>5. Shape(new)
      BY <1>0, <3>1, <3>3, <2>3 DEF Shape, Addressed
    <3>6. OpTyped'
      BY <3>2, <3>4, <3>5, <1>0, OpStep
    <3> QED
      BY <3>6, <1>0, <1>4, <2>3 DEF ReadOld, TypeOK, OpTyped
  <2> QED
    BY <1>4, <2>1, <2>2, <2>3 DEF ReadOld
<1>5. CASE ReadFiles(p)
  <2>1. CASE Finish(p, "error")
    BY <1>0, <1>5, <2>1, FinishStep DEF ReadFiles, TypeOK, OpTyped, Results
  <2>2. CASE op' = [op EXCEPT ![p].pc = "write_yaml", ![p].oldYaml = yaml[op[p].id]]
    <3> DEFINE new == [o EXCEPT !.pc = "write_yaml", !.oldYaml = yaml[o.id]]
    <3>1. o.id \in Ids /\ yaml[o.id] \in FileState /\ o.kind \in Edits /\ o.old \in Row /\ o.new \in Row
      BY <1>0, <1>5, <2>2 DEF ReadFiles, Shape, Addressed, TypeOK, Steps
    <3>2. new \in Operation
      BY <1>0, <3>1, ZenonT(60) DEF Operation, Steps
    <3>3. /\ new.pc = "write_yaml" /\ new.kind = o.kind /\ new.todo = o.todo /\ new.snap = o.snap
          /\ new.id = o.id /\ new.old = o.old /\ new.new = o.new
      BY <1>0 DEF Operation
    <3>4. op' = [op EXCEPT ![p] = new]
      BY <2>2, <1>0 DEF Operation, OpTyped
    <3> HIDE DEF new
    <3>5. Shape(new)
      BY <1>0, <3>1, <3>3 DEF Shape, Addressed
    <3>6. OpTyped'
      BY <3>2, <3>4, <3>5, <1>0, OpStep
    <3> QED
      BY <3>6, <1>0, <1>5, <2>2 DEF ReadFiles, TypeOK, OpTyped
  <2> QED
    BY <1>5, <2>1, <2>2 DEF ReadFiles
<1>6. CASE WriteYaml(p)
  <2>1. o.id \in Ids /\ o.new \in Row /\ Render(o.new) \in FileState
    BY <1>0, <1>6 DEF WriteYaml, Shape, Addressed, Steps, Render, Row, FileState, Yaml
  <2>2. OpTyped'
    <3>1. Shape([o EXCEPT !.pc = "exec"])
      BY <1>0, <1>6 DEF WriteYaml, Operation, Shape, Addressed, Steps
    <3>2. CASE Go(p, "exec")
      BY <3>1, <3>2, <1>0, GoStep DEF Steps
    <3>3. CASE Finish(p, "error")
      BY <3>3, <1>0, FinishStep DEF Results
    <3> QED
      BY <3>2, <3>3, <1>6 DEF WriteYaml
  <2>3. yaml' \in [Ids -> FileState]
    BY <2>1, <1>0, <1>6, UnwrittenType DEF WriteYaml, TypeOK
  <2> QED
    BY <2>2, <2>3, <1>0, <1>6 DEF WriteYaml, TypeOK, OpTyped, DiskFault, Budget
<1>7. CASE ExecUpdate(p)
  <2>1. o.id \in Ids /\ o.new \in Row /\ o.kind \in Edits \cup {"rotate_client"}
    BY <1>0, <1>7 DEF ExecUpdate, Shape, Addressed, Steps
  <2>2. OpTyped'
    <3>1. Shape([o EXCEPT !.pc = "reread"]) /\ (o.kind \in Edits => Shape([o EXCEPT !.pc = "undo_yaml"]))
      BY <1>0, <1>7 DEF ExecUpdate, Operation, Shape, Addressed, Steps
    <3>2. CASE Go(p, "reread")
      BY <3>1, <3>2, <1>0, GoStep DEF Steps
    <3>3. CASE Go(p, "undo_yaml") /\ o.kind \in Edits
      BY <3>1, <3>3, <1>0, GoStep DEF Steps
    <3>4. CASE Finish(p, "error")
      BY <3>4, <1>0, FinishStep DEF Results
    <3> QED
      BY <3>2, <3>3, <3>4, <1>7 DEF ExecUpdate
  <2> QED
    BY <2>1, <2>2, <1>0, <1>7 DEF ExecUpdate, TypeOK, OpTyped
<1>8. CASE Reread(p)
  <2>1. OpTyped'
    <3>1. Shape([o EXCEPT !.pc = "status"]) /\ (o.kind \in Edits => Shape([o EXCEPT !.pc = "undo_yaml"]))
      BY <1>0, <1>8 DEF Reread, Operation, Shape, Addressed, Steps
    <3>2. CASE Go(p, "status")
      BY <3>1, <3>2, <1>0, GoStep DEF Steps
    <3>3. CASE Go(p, "undo_yaml") /\ o.kind \in Edits
      BY <3>1, <3>3, <1>0, GoStep DEF Steps
    <3>4. CASE Finish(p, "error")
      BY <3>4, <1>0, FinishStep DEF Results
    <3> QED
      BY <3>2, <3>3, <3>4, <1>8 DEF Reread
  <2> QED
    BY <2>1, <1>0, <1>8 DEF Reread, TypeOK, OpTyped
<1>9. CASE UndoYaml(p)
  <2>1. OpTyped'
    BY <1>0, <1>9, FinishStep DEF UndoYaml, Results
  <2>2. Restored(o.oldYaml) \in FileState
    BY <1>0 DEF Restored, Operation, FileState
  <2>3. yaml' \in [Ids -> FileState]
    BY <2>2, <1>0, <1>9, UnwrittenType DEF UndoYaml, TypeOK
  <2> QED
    BY <2>1, <2>3, <1>0, <1>9 DEF UndoYaml, TypeOK, OpTyped, DiskFault, Budget
<1>10. CASE ReadKey(p)
  <2>1. CASE Finish(p, "error")
    BY <1>0, <1>10, <2>1, FinishStep DEF ReadKey, TypeOK, OpTyped, Results
  <2>2. CASE op' = [op EXCEPT ![p].pc = "write_key", ![p].oldKey = key[op[p].id]]
    <3> DEFINE new == [o EXCEPT !.pc = "write_key", !.oldKey = key[o.id]]
    <3>1. o.id \in Ids /\ key[o.id] \in Nat /\ o.kind = "rotate_key"
      BY <1>0, <1>10, <2>2 DEF ReadKey, Shape, Addressed, TypeOK, Steps
    <3>2. new \in Operation
      BY <1>0, <3>1, ZenonT(60) DEF Operation, Steps
    <3>3. /\ new.pc = "write_key" /\ new.kind = o.kind /\ new.todo = o.todo /\ new.snap = o.snap
          /\ new.id = o.id
      BY <1>0 DEF Operation
    <3>4. op' = [op EXCEPT ![p] = new]
      BY <2>2, <1>0 DEF Operation, OpTyped
    <3> HIDE DEF new
    <3>5. Shape(new)
      BY <1>0, <3>1, <3>3 DEF Shape, Addressed
    <3>6. OpTyped'
      BY <3>2, <3>4, <3>5, <1>0, OpStep
    <3> QED
      BY <3>6, <1>0, <1>10, <2>2 DEF ReadKey, TypeOK, OpTyped
  <2> QED
    BY <1>10, <2>1, <2>2 DEF ReadKey
<1>11. CASE WriteKey(p)
  <2>1. OpTyped'
    <3>1. Shape([o EXCEPT !.pc = "status"])
      BY <1>0, <1>11 DEF WriteKey, Operation, Shape, Addressed, Steps
    <3>2. CASE Go(p, "status")
      BY <3>1, <3>2, <1>0, GoStep DEF Steps
    <3>3. CASE Finish(p, "error")
      BY <3>3, <1>0, FinishStep DEF Results
    <3> QED
      BY <3>2, <3>3, <1>11 DEF WriteKey
  <2>2. key' \in [Ids -> Nat] /\ minted' \in Nat \ {0}
    BY <1>0, <1>11, UnwrittenType DEF WriteKey, TypeOK
  <2> QED
    BY <2>1, <2>2, <1>0, <1>11 DEF WriteKey, TypeOK, OpTyped, DiskFault, Budget
<1> QED
  BY <1>1, <1>2, <1>3, <1>4, <1>5, <1>6, <1>7, <1>8, <1>9, <1>10, <1>11 DEF Updating

(* The outcome of a start is a unit, and so is a stopped one.              *)
LEMMA UnitTypes ==
  ASSUME TypeOK, NEW i \in Ids
  PROVE  Launched(i) \subseteq Unit /\ Stopped(i) \in Unit
<1>1. \A state \in UnitStates : [Off EXCEPT !.state = state] \in Unit
  BY DEF Off, Unit, FileState
<1>2. Off \in Unit /\ unit[i] \in Unit
  BY DEF TypeOK, Off, Unit, UnitStates, FileState
<1>3. [state |-> "running", yaml |-> yaml[i], key |-> key[i], early |-> FALSE] \in Unit
  BY DEF TypeOK, Unit, UnitStates
<1> QED
  BY <1>1, <1>2, <1>3 DEF Launched, Stopped, UnitStates

(* GiveUp leads a handler to the step that takes its change back.          *)
LEMMA GiveUpStep ==
  ASSUME Typed, NEW p \in Procs, op[p].pc \in {"launch", "wait"}, GiveUp(p)
  PROVE  OpTyped'
<1> DEFINE o == op[p]
<1>0. OpTyped /\ o \in Operation /\ Shape(o) /\ TypeOK
  BY DEF Typed, TypeOK, HandlerInv, OpTyped
<1>1. CASE o.kind \in {"start", "restart"}
  BY <1>0, <1>1, FinishStep DEF GiveUp, Results
<1>2. CASE o.kind = "rotate_key"
  <2>1. Shape([o EXCEPT !.pc = "back_key"])
    BY <1>0, <1>2 DEF Operation, Shape, Addressed, Steps
  <2> QED
    BY <2>1, <1>0, <1>2, GoStep DEF GiveUp, Recovery, Steps
<1>3. CASE o.kind \in Edits \cup {"rotate_client"}
  <2>1. Shape([o EXCEPT !.pc = "back_row"])
    BY <1>0, <1>3 DEF Operation, Shape, Addressed, Steps, Edits
  <2> QED
    BY <2>1, <1>0, <1>3, GoStep DEF GiveUp, Recovery, Steps, Edits
<1> QED
  BY <1>0, <1>1, <1>2, <1>3 DEF Shape

(* A success is final at once, or once the row has been decorated.         *)
LEMMA SucceedStep ==
  ASSUME Typed, NEW p \in Procs, op[p].pc \in {"status", "wait"}, Succeed(p)
  PROVE  OpTyped'
<1>0. OpTyped /\ op[p] \in Operation /\ Shape(op[p])
  BY DEF Typed, TypeOK, HandlerInv, OpTyped
<1>1. Shape([op[p] EXCEPT !.pc = "decorate"])
  BY <1>0 DEF Operation, Shape, Addressed, Steps
<1> QED
  BY <1>0, <1>1, GoStep, FinishStep DEF Succeed, Steps, Results

(* Restarting and rolling back keep the types.                             *)
LEMMA ApplyingType ==
  ASSUME Typed, NEW p \in Procs, Applying(p)
  PROVE  Typed'
<1> DEFINE o == op[p]
<1>0. OpTyped /\ o \in Operation /\ Shape(o) /\ TypeOK
  BY DEF Typed, TypeOK, HandlerInv, OpTyped
<1> SUFFICES OpTyped' /\ TypeOK'
  BY DEF Typed, OpTyped
<1> USE DEF At
<1>1. CASE ReadStatus(p)
  <2>1. Shape([o EXCEPT !.pc = "launch"])
        /\ (o.kind = "rotate_client" => Shape([o EXCEPT !.pc = "revert_row"]))
    BY <1>0, <1>1 DEF ReadStatus, Operation, Shape, Addressed, Steps, Edits
  <2>2. OpTyped'
    <3>1. CASE Go(p, "launch")
      BY <2>1, <3>1, <1>0, GoStep DEF Steps
    <3>2. CASE Go(p, "revert_row") /\ o.kind = "rotate_client"
      BY <2>1, <3>2, <1>0, GoStep DEF Steps
    <3>3. CASE Succeed(p)
      BY <3>3, <1>1, SucceedStep DEF ReadStatus
    <3> QED
      BY <3>1, <3>2, <3>3, <1>1 DEF ReadStatus
  <2> QED
    BY <2>2, <1>0, <1>1 DEF ReadStatus, TypeOK, OpTyped, CtlFault, Budget
<1>2. CASE Launch(p)
  <2> PICK after \in IF o.kind = "start" /\ unit[o.id].state = "running"
                     THEN {unit[o.id]} ELSE Launched(o.id) :
         unit' \in {unit, [unit EXCEPT ![o.id] = after]}
    BY <1>2 DEF Launch
  <2>1. o.id \in Ids /\ after \in Unit
    BY <1>0, <1>2, UnitTypes DEF Launch, Shape, Addressed, Steps, TypeOK
  <2>2. OpTyped'
    <3>1. Shape([o EXCEPT !.pc = "wait"])
      BY <1>0, <1>2 DEF Launch, Operation, Shape, Addressed, Steps
    <3>2. CASE Go(p, "wait")
      BY <3>1, <3>2, <1>0, GoStep DEF Steps
    <3>3. CASE GiveUp(p)
      BY <3>3, <1>2, GiveUpStep DEF Launch
    <3> QED
      BY <3>2, <3>3, <1>2 DEF Launch
  <2>3. unit' \in {unit, [unit EXCEPT ![o.id] = after]}
    OBVIOUS
  <2>4. unit' \in [Ids -> Unit]
    BY <2>1, <2>3, <1>0 DEF TypeOK
  <2> QED
    BY <2>2, <2>4, <1>0, <1>2 DEF Launch, TypeOK, OpTyped, CtlFault, Budget
<1>3. CASE WaitActive(p)
  <2>1. OpTyped'
    <3>1. CASE Succeed(p)
      BY <3>1, <1>3, SucceedStep DEF WaitActive
    <3>2. CASE GiveUp(p)
      BY <3>2, <1>3, GiveUpStep DEF WaitActive
    <3> QED
      BY <3>1, <3>2, <1>3 DEF WaitActive
  <2> QED
    BY <2>1, <1>0, <1>3 DEF WaitActive, TypeOK, OpTyped
<1>4. CASE RevertRow(p)
  <2>1. OpTyped'
    BY <1>0, <1>4, FinishStep DEF RevertRow, Results
  <2>2. o.old \in Row
    BY <1>0, <1>4 DEF RevertRow, Shape
  <2> QED
    BY <2>1, <2>2, <1>0, <1>4 DEF RevertRow, RolledBackRows, TypeOK, OpTyped
<1>5. CASE BackRow(p)
  <2>1. OpTyped'
    <3>1. Shape([o EXCEPT !.pc = "back_launch"]) /\ Shape([o EXCEPT !.pc = "back_yaml"])
      BY <1>0, <1>5 DEF BackRow, Operation, Shape, Addressed, Steps
    <3> QED
      BY <3>1, <1>0, <1>5, GoStep DEF BackRow, Steps
  <2>2. o.old \in Row
    BY <1>0, <1>5 DEF BackRow, Shape
  <2> QED
    BY <2>1, <2>2, <1>0, <1>5 DEF BackRow, RolledBackRows, TypeOK, OpTyped
<1>6. CASE BackYaml(p)
  <2>1. OpTyped'
    <3>1. Shape([o EXCEPT !.pc = "back_launch"])
      BY <1>0, <1>6 DEF BackYaml, Operation, Shape, Addressed, Steps
    <3> QED
      BY <3>1, <1>0, <1>6, GoStep DEF BackYaml, Steps
  <2>2. Restored(o.oldYaml) \in FileState
    BY <1>0 DEF Restored, Operation, FileState
  <2>3. yaml' \in [Ids -> FileState]
    BY <2>2, <1>0, <1>6, UnwrittenType DEF BackYaml, TypeOK
  <2> QED
    BY <2>1, <2>3, <1>0, <1>6 DEF BackYaml, TypeOK, OpTyped, DiskFault, Budget
<1>7. CASE BackKey(p)
  <2>1. OpTyped'
    <3>1. Shape([o EXCEPT !.pc = "back_launch"])
      BY <1>0, <1>7 DEF BackKey, Operation, Shape, Addressed, Steps
    <3> QED
      BY <3>1, <1>0, <1>7, GoStep DEF BackKey, Steps
  <2>2. o.oldKey \in Nat
    BY <1>0 DEF Operation
  <2>3. key' \in [Ids -> Nat]
    BY <2>2, <1>0, <1>7, UnwrittenType DEF BackKey, TypeOK
  <2> QED
    BY <2>1, <2>3, <1>0, <1>7 DEF BackKey, TypeOK, OpTyped, DiskFault, Budget
<1>8. CASE BackLaunch(p)
  <2>1. OpTyped'
    BY <1>0, <1>8, FinishStep DEF BackLaunch, Results
  <2>2. o.id \in Ids /\ Launched(o.id) \subseteq Unit
    BY <1>0, <1>8, UnitTypes DEF BackLaunch, Shape, Addressed, Steps
  <2>3. unit' \in [Ids -> Unit]
    <3> PICK after \in Launched(o.id) : unit' \in {unit, [unit EXCEPT ![o.id] = after]}
      BY <1>8 DEF BackLaunch
    <3> QED
      BY <2>2, <1>0 DEF TypeOK
  <2> QED
    BY <2>1, <2>3, <1>0, <1>8 DEF BackLaunch, TypeOK, OpTyped, CtlFault, Budget
<1>9. CASE Decorate(p)
  <2>1. OpTyped'
    BY <1>0, <1>9, FinishStep DEF Decorate, Results
  <2> QED
    BY <2>1, <1>0, <1>9 DEF Decorate, TypeOK, OpTyped, CtlFault, Budget
<1> QED
  BY <1>1, <1>2, <1>3, <1>4, <1>5, <1>6, <1>7, <1>8, <1>9 DEF Applying

(* Start, Restart, Stop and Delete keep the types.                         *)
LEMMA RemovingType ==
  ASSUME Typed, NEW p \in Procs, Removing(p)
  PROVE  Typed'
<1> DEFINE o == op[p]
<1>0. OpTyped /\ o \in Operation /\ Shape(o) /\ TypeOK
  BY DEF Typed, TypeOK, HandlerInv, OpTyped
<1> SUFFICES OpTyped' /\ TypeOK'
  BY DEF Typed, OpTyped
<1> USE DEF At
<1>1. CASE CheckRow(p)
  <2>1. OpTyped'
    <3>1. /\ o.kind \in {"start", "restart"} => Shape([o EXCEPT !.pc = "launch"])
          /\ Shape([o EXCEPT !.pc = "stop"])
      BY <1>0, <1>1 DEF CheckRow, Operation, Shape, Addressed, Steps
    <3>2. CASE Finish(p, "error")
      BY <3>2, <1>0, FinishStep DEF Results
    <3>3. CASE Go(p, "launch") /\ o.kind \in {"start", "restart"}
      BY <3>1, <3>3, <1>0, GoStep DEF Steps
    <3>4. CASE Go(p, "stop")
      BY <3>1, <3>4, <1>0, GoStep DEF Steps
    <3> QED
      BY <3>2, <3>3, <3>4, <1>1 DEF CheckRow
  <2> QED
    BY <2>1, <1>0, <1>1 DEF CheckRow, TypeOK, OpTyped, CtlFault, Budget
<1>2. CASE StopUnit(p)
  <2>1. OpTyped'
    <3>1. Shape([o EXCEPT !.pc = "remove_files"])
      BY <1>0, <1>2 DEF StopUnit, Operation, Shape, Addressed, Steps
    <3>2. CASE Go(p, "remove_files")
      BY <3>1, <3>2, <1>0, GoStep DEF Steps
    <3>3. CASE Finish(p, "ok") \/ Finish(p, "error")
      BY <3>3, <1>0, FinishStep DEF Results
    <3> QED
      BY <3>2, <3>3, <1>2 DEF StopUnit
  <2>2. o.id \in Ids /\ Stopped(o.id) \in Unit
    BY <1>0, <1>2, UnitTypes DEF StopUnit, Shape, Addressed, Steps
  <2>3. unit' \in [Ids -> Unit]
    BY <2>2, <1>0, <1>2 DEF StopUnit, TypeOK
  <2> QED
    BY <2>1, <2>3, <1>0, <1>2 DEF StopUnit, TypeOK, OpTyped, CtlFault, Budget
<1>3. CASE RemoveFiles(p)
  <2>1. OpTyped'
    <3>1. Shape([o EXCEPT !.pc = "remove_row"])
      BY <1>0, <1>3 DEF RemoveFiles, Operation, Shape, Addressed, Steps
    <3>2. CASE Go(p, "remove_row")
      BY <3>1, <3>2, <1>0, GoStep DEF Steps
    <3>3. CASE Finish(p, "error")
      BY <3>3, <1>0, FinishStep DEF Results
    <3> QED
      BY <3>2, <3>3, <1>3 DEF RemoveFiles
  <2>2. yaml' \in [Ids -> FileState] /\ key' \in [Ids -> Nat]
    BY <1>0, <1>3 DEF RemoveFiles, TypeOK, FileState
  <2> QED
    BY <2>1, <2>2, <1>0, <1>3 DEF RemoveFiles, TypeOK, OpTyped, DiskFault, Budget
<1>4. CASE RemoveRow(p)
  <2>1. OpTyped'
    BY <1>0, <1>4, FinishStep DEF RemoveRow, Results
  <2> QED
    BY <2>1, <1>0, <1>4 DEF RemoveRow, TypeOK, OpTyped
<1> QED
  BY <1>1, <1>2, <1>3, <1>4 DEF Removing

(* A request starts with what its first step needs.                        *)
LEMMA BeginType ==
  ASSUME Typed, NEW p \in Procs, Begin(p)
  PROVE  Typed'
<1>0. OpTyped /\ TypeOK
  BY DEF Typed, TypeOK, HandlerInv, OpTyped
<1>1. PICK kind \in Kinds :
        \E i \in Targets(kind), req \in Requests(kind) :
          op' = [op EXCEPT ![p] = [IdleOp EXCEPT !.pc = FirstStep(kind),
                                   !.kind = kind, !.id = i, !.req = req]]
  BY DEF Begin
<1>1a. PICK i \in Targets(kind), req \in Requests(kind) :
        op' = [op EXCEPT ![p] = [IdleOp EXCEPT !.pc = FirstStep(kind),
                                   !.kind = kind, !.id = i, !.req = req]]
  BY <1>1
<1> DEFINE o == [IdleOp EXCEPT !.pc = FirstStep(kind), !.kind = kind, !.id = i, !.req = req]
<1>2. kind \in AllKinds /\ FirstStep(kind) \in Steps
  BY BoundAssumption DEF FirstStep, Steps
<1>3. i \in Ids \cup {0} /\ (kind \notin {"create", "token"} => i \in Ids)
  BY DEF Targets
<1>4. req \in Request
  BY <1>2, IdleType DEF Requests, Request, AllKinds, Operation
<1>5. o \in Operation
  BY <1>2, <1>3, <1>4, IdleType DEF Operation
<1>6. /\ o.pc = FirstStep(kind) /\ o.kind = kind /\ o.id = i /\ o.req = req
      /\ o.todo = {}
  BY DEF IdleOp
<1>7. Shape(o)
  <2> HIDE DEF o
  <2>1. CASE kind = "create"
    BY <2>1, <1>6 DEF Shape, Addressed, FirstStep, Requests
  <2>2. CASE kind \in {"duplicate", "room", "edit"}
    BY <2>2, <1>3, <1>6 DEF Shape, Addressed, FirstStep, Requests, Edits
  <2>3. CASE kind \in {"token", "rotate_client", "rotate_key", "start", "restart", "stop", "delete"}
    BY <2>3, <1>3, <1>6 DEF Shape, Addressed, FirstStep
  <2> QED
    BY <1>2, <2>1, <2>2, <2>3 DEF AllKinds
<1>8. OpTyped'
  <2> HIDE DEF o
  <2> QED
    BY <1>0, <1>1a, <1>5, <1>7, OpStep DEF o
<1>9. left' \in Budget
  <2>1. left \in Budget /\ left.ops > 0
    BY <1>0 DEF Begin, Typed, TypeOK
  <2>2. left.ops \in Nat /\ left.overlaps \in Nat
    BY <2>1 DEF Budget
  <2>3. \E k \in Kinds, j \in Ids \cup {0} :
          /\ Clear(k, j) \/ left.overlaps > 0
          /\ left' = [left EXCEPT !.ops = @ - 1,
                                  !.overlaps = IF Clear(k, j) THEN @ ELSE @ - 1]
    BY DEF Begin, Targets
  <2>4. PICK n \in Nat : left' = [left EXCEPT !.ops = @ - 1, !.overlaps = n]
    <3>1. left.overlaps > 0 => left.overlaps - 1 \in Nat
      BY <2>2
    <3>2. left' = [left EXCEPT !.ops = @ - 1]
          => left' = [left EXCEPT !.ops = @ - 1, !.overlaps = left.overlaps]
      BY <2>1 DEF Budget
    <3> QED
      BY <2>2, <2>3, <3>1, <3>2
  <2>5. left.ops - 1 \in Nat
    BY <2>1, <2>2
  <2> QED
    BY <2>1, <2>4, <2>5 DEF Budget
<1> QED
  BY <1>0, <1>8, <1>9 DEF Begin, At, Typed, TypeOK, OpTyped

(* A client that disconnects changes no value a handler has read.          *)
LEMMA CancelType ==
  ASSUME Typed, NEW p \in Procs, Cancel(p)
  PROVE  Typed'
<1> DEFINE o == [op[p] EXCEPT !.cancelled = TRUE]
<1>0. OpTyped /\ TypeOK /\ op[p] \in Operation /\ Shape(op[p])
  BY DEF Typed, TypeOK, HandlerInv, OpTyped
<1>1. o \in Operation
  BY <1>0 DEF Operation
<1>2. /\ o.pc = op[p].pc /\ o.kind = op[p].kind /\ o.id = op[p].id
      /\ o.req = op[p].req /\ o.todo = op[p].todo /\ o.snap = op[p].snap
      /\ o.old = op[p].old /\ o.new = op[p].new
  BY <1>0 DEF Operation
<1>3. op' = [op EXCEPT ![p] = o]
  BY DEF Cancel
<1> HIDE DEF o
<1>4. Shape(o)
  BY <1>0, <1>2 DEF Shape
<1>5. OpTyped'
  BY <1>0, <1>1, <1>3, <1>4, OpStep
<1> QED
  BY <1>0, <1>5 DEF Cancel, Typed, TypeOK, OpTyped, Budget

(* A handler that has answered is idle again.                              *)
LEMMA RespondType ==
  ASSUME Typed, NEW p \in Procs, Respond(p)
  PROVE  Typed'
<1>0. OpTyped /\ TypeOK
  BY DEF Typed, TypeOK, HandlerInv, OpTyped
<1>1. OpTyped'
  BY <1>0, IdleType, OpStep DEF Respond
<1> QED
  BY <1>0, <1>1 DEF Respond, Typed, TypeOK, OpTyped

(* What systemd does to a unit keeps the types.                            *)
LEMMA UnitType ==
  ASSUME Typed, NEW i \in Ids, UnitDies(i) \/ UnitRestarts(i)
  PROVE  Typed'
<1>1. HandlerInv'
  BY DEF Typed, UnitDies, UnitRestarts, HandlerInv, Shape, Addressed, Row, Ids
<1>2. CASE UnitDies(i)
  <2>1. \A state \in UnitStates : [Off EXCEPT !.state = state] \in Unit
    BY DEF Off, Unit, FileState
  <2>2. unit' \in [Ids -> Unit]
    BY <1>2, <2>1 DEF UnitDies, Typed, TypeOK, UnitStates
  <2> QED
    BY <1>1, <1>2, <2>2 DEF UnitDies, Typed, TypeOK, Budget
<1>3. CASE UnitRestarts(i)
  <2>1. MidUpdate(i) \in BOOLEAN
    BY Zenon DEF MidUpdate
  <2>2. PICK after \in Launched(i) :
          unit' = [unit EXCEPT ![i] = [after EXCEPT !.early = MidUpdate(i)]]
    BY <1>3 DEF UnitRestarts
  <2>5. after \in Unit
    BY UnitTypes DEF Typed
  <2> DEFINE u == [after EXCEPT !.early = MidUpdate(i)]
  <2>3. u \in Unit
    BY <2>1, <2>5, ZenonT(30) DEF Unit
  <2>4. unit' = [unit EXCEPT ![i] = u]
    BY <2>2
  <2> HIDE DEF u
  <2> QED
    BY <1>1, <1>3, <2>3, <2>4 DEF UnitRestarts, Typed, TypeOK
<1> QED
  BY <1>2, <1>3

(* A crash and both outcomes of Reconcile keep the types.                  *)
LEMMA PanelType ==
  ASSUME Typed, Crash \/ Boot \/ BootFails
  PROVE  Typed'
<1>1. CASE Crash
  <2>1. op' \in [Procs -> Operation]
    BY <1>1, IdleType DEF Crash
  <2>2. \A p \in Procs : Shape(op'[p])
    BY <1>1, IdleType DEF Crash
  <2>3. HandlerInv'
    BY <2>2 DEF HandlerInv, Shape, Addressed, Row, Ids
  <2>4. left' \in Budget
    BY <1>1 DEF Crash, Typed, TypeOK, Budget
  <2>5. up' \in BOOLEAN
    BY <1>1 DEF Crash
  <2> QED
    BY <1>1, <2>1, <2>3, <2>4, <2>5 DEF Crash, Typed, TypeOK
<1>2. CASE Boot \/ BootFails
  <2>1. HandlerInv'
    BY <1>2 DEF Typed, Boot, BootFails, HandlerInv, Shape, Addressed, Row, Ids
  <2>2. \A i \in Ids : rows[i] # Nil => Render(rows[i]) \in FileState
    BY DEF Typed, TypeOK, Render, Row, FileState, Yaml
  <2>3. yaml' \in [Ids -> FileState]
    BY <1>2, <2>2 DEF Typed, TypeOK, Boot, BootFails, Reconciled, Existing
  <2>4. left' \in Budget
    BY <1>2 DEF Boot, BootFails, Typed, TypeOK, DiskFault, Budget
  <2>5. up' \in BOOLEAN
    BY <1>2 DEF Boot, BootFails, Typed, TypeOK
  <2> QED
    BY <1>2, <2>1, <2>3, <2>4, <2>5 DEF Boot, BootFails, Typed, TypeOK
<1> QED
  BY <1>1, <1>2

(* A stuttering step keeps the types.                                      *)
LEMMA StutterType == Typed /\ UNCHANGED vars => Typed'
BY DEF vars, Typed, TypeOK, HandlerInv, Shape, Addressed, Row, Ids

(* Typed is inductive.                                                     *)
LEMMA NextType == Typed /\ [Next]_vars => Typed'
BY CreatingType, UpdatingType, ApplyingType, RemovingType, BeginType, CancelType,
   RespondType, UnitType, PanelType, StutterType
DEF Next, Handle

(* Every reachable state is well typed.                                    *)
LEMMA SpecTyped == Spec => []Typed
BY InitType, NextType, PTL DEF Spec

(* The variables of the manager keep their types: in particular a rollback *)
(* never writes an undefined row or file, and no request is left without   *)
(* the values its next step needs.                                         *)
THEOREM TypeCorrect == Spec => []TypeOK
<1>1. Typed => TypeOK
  BY DEF Typed
<1> QED
  BY <1>1, SpecTyped, PTL

-----------------------------------------------------------------------------
(* NoResurrection.                                                         *)

NoneReborn == \A i \in Ids : i < nextId /\ rows[i] = Nil => rows'[i] = Nil

(* The rows a rollback leaves are the rows there were, one of them changed.*)
LEMMA RollbackReborn ==
  ASSUME Typed, NEW p \in Procs, rows' = RolledBackRows(p)
  PROVE  NoneReborn
BY DEF NoneReborn, RolledBackRows, CanUpdate, Typed, TypeOK

(* Every step leaves the ids that have been given out and freed empty.     *)
LEMMA StepReborn == Typed /\ [Next]_vars => NoneReborn
<1> SUFFICES ASSUME Typed, [Next]_vars PROVE NoneReborn
  OBVIOUS
<1> DEFINE Same == rows' = rows
<1>0. Same => NoneReborn
  BY DEF NoneReborn
<1>1. ASSUME NEW p \in Procs, Creating(p) PROVE NoneReborn
  <2>1. CASE InsertRow(p)
    BY <2>1 DEF InsertRow, NoneReborn, Typed, TypeOK
  <2>2. CASE UndoRow(p)
    BY <2>2 DEF UndoRow, NoneReborn, Typed, TypeOK
  <2>3. CASE DupRead(p) \/ CountInstances(p) \/ InsertReread(p) \/ WriteNewKey(p)
             \/ WriteNewYaml(p) \/ UndoFiles(p)
    BY <2>3, <1>0 DEF DupRead, CountInstances, InsertReread, WriteNewKey, WriteNewYaml, UndoFiles
  <2> QED
    BY <1>1, <2>1, <2>2, <2>3 DEF Creating
<1>2. ASSUME NEW p \in Procs, Updating(p) PROVE NoneReborn
  <2>1. CASE ExecUpdate(p)
    BY <2>1 DEF ExecUpdate, CanUpdate, NoneReborn, Typed, TypeOK
  <2>2. CASE RawRead(p) \/ TokenList(p) \/ TokenNext(p) \/ ReadOld(p) \/ ReadFiles(p)
    BY <2>2, <1>0 DEF RawRead, TokenList, TokenNext, ReadOld, ReadFiles
  <2>3. CASE WriteYaml(p) \/ Reread(p) \/ UndoYaml(p) \/ ReadKey(p) \/ WriteKey(p)
    BY <2>3, <1>0 DEF WriteYaml, Reread, UndoYaml, ReadKey, WriteKey
  <2> QED
    BY <1>2, <2>1, <2>2, <2>3 DEF Updating
<1>3. ASSUME NEW p \in Procs, Applying(p) PROVE NoneReborn
  <2>1. CASE RevertRow(p) \/ BackRow(p)
    BY <2>1, RollbackReborn DEF RevertRow, BackRow
  <2>2. CASE ReadStatus(p) \/ Launch(p) \/ WaitActive(p) \/ BackYaml(p) \/ BackKey(p)
             \/ BackLaunch(p) \/ Decorate(p)
    BY <2>2, <1>0 DEF ReadStatus, Launch, WaitActive, BackYaml, BackKey, BackLaunch, Decorate
  <2> QED
    BY <1>3, <2>1, <2>2 DEF Applying
<1>4. ASSUME NEW p \in Procs, Removing(p) PROVE NoneReborn
  <2>1. CASE RemoveRow(p)
    BY <2>1 DEF RemoveRow, NoneReborn, Typed, TypeOK
  <2>2. CASE CheckRow(p) \/ StopUnit(p) \/ RemoveFiles(p)
    BY <2>2, <1>0 DEF CheckRow, StopUnit, RemoveFiles
  <2> QED
    BY <1>4, <2>1, <2>2 DEF Removing
<1>5. ASSUME NEW p \in Procs, Begin(p) \/ Cancel(p) \/ Respond(p) PROVE NoneReborn
  BY <1>5, <1>0 DEF Begin, Cancel, Respond
<1>6. ASSUME NEW i \in Ids, UnitDies(i) \/ UnitRestarts(i) PROVE NoneReborn
  BY <1>6, <1>0 DEF UnitDies, UnitRestarts
<1>7. CASE Crash \/ Boot \/ BootFails \/ UNCHANGED vars
  BY <1>7, <1>0 DEF Crash, Boot, BootFails, vars
<1> QED
  BY <1>1, <1>2, <1>3, <1>4, <1>5, <1>6, <1>7 DEF Next, Handle

(* A deleted instance never comes back under its id.                       *)
THEOREM NoResurrectionHolds == Spec => NoResurrection
<1>1. Typed /\ [Next]_vars
        => [\A i \in Ids : i < nextId /\ rows[i] = Nil => rows'[i] = Nil]_vars
  BY StepReborn DEF NoneReborn
<1> QED
  BY <1>1, SpecTyped, PTL DEF Spec, NoResurrection

-----------------------------------------------------------------------------
(* NoClientIdClash.  The invariant has to speak of the client IDs that     *)
(* handlers carry as well as of those in the table: an Update or a         *)
(* RotateClientID may write its old or its new row at a later step.        *)

Carrying == {"read_files", "write_yaml", "exec", "reread", "undo_yaml", "status",
             "launch", "wait", "revert_row", "back_row"}

Carries(o) == o.kind \in Edits \cup {"rotate_client"} /\ o.pc \in Carrying

(* Client ID c is that of instance i, or of a row a handler may put there. *)
Claim(i, c) ==
  \/ rows[i] \in Row /\ rows[i].cid = c
  \/ \E p \in Procs :
       /\ Carries(op[p]) /\ op[p].id = i
       /\ \/ op[p].old \in Row /\ op[p].old.cid = c
          \/ op[p].new \in Row /\ op[p].new.cid = c

Claims ==
  \A i \in Ids, c \in Nat : Claim(i, c) =>
    /\ c < minted
    /\ \A j \in Ids : Claim(j, c) => i = j

(* A step that lets no instance claim a client ID it did not claim.        *)
LEMMA NoNewClaim ==
  ASSUME Typed, Claims, minted' \in Nat, minted' >= minted,
         \A i \in Ids, c \in Nat : Claim(i, c)' => Claim(i, c)
  PROVE  Claims'
<1>1. minted \in Nat
  BY DEF Typed, TypeOK
<1>2. ASSUME NEW i \in Ids, NEW c \in Nat, Claim(i, c)'
      PROVE  c < minted' /\ \A j \in Ids : Claim(j, c)' => i = j
  <2>1. Claim(i, c)
    BY <1>2
  <2>2. c < minted
    BY <2>1 DEF Claims
  <2>3. ASSUME NEW j \in Ids, Claim(j, c)' PROVE i = j
    <3>1. Claim(j, c)
      BY <2>3
    <3> QED
      BY <2>1, <3>1 DEF Claims
  <2> QED
    BY <2>2, <2>3, <1>1
<1> QED
  BY <1>2 DEF Claims, Ids

(* A step that gives one instance a fresh client ID.                       *)
LEMMA FreshClaim ==
  ASSUME Typed, Claims, minted' = minted + 1, NEW k \in Ids,
         \A i \in Ids, c \in Nat : Claim(i, c)' => Claim(i, c) \/ (i = k /\ c = minted)
  PROVE  Claims'
<1>1. minted \in Nat
  BY DEF Typed, TypeOK
<1>2. ASSUME NEW i \in Ids, NEW c \in Nat, Claim(i, c)'
      PROVE  c < minted' /\ \A j \in Ids : Claim(j, c)' => i = j
  <2>1. Claim(i, c) \/ (i = k /\ c = minted)
    BY <1>2
  <2>2. c < minted'
    <3>1. Claim(i, c) => c < minted
      BY DEF Claims
    <3> QED
      BY <2>1, <3>1, <1>1
  <2>3. ASSUME NEW j \in Ids, Claim(j, c)' PROVE i = j
    <3>1. Claim(j, c) \/ (j = k /\ c = minted)
      BY <2>3
    <3>2. Claim(i, c) /\ Claim(j, c) => i = j
      BY DEF Claims
    <3>3. ~Claim(i, minted) /\ ~Claim(j, minted)
      BY <1>1 DEF Claims
    <3> QED
      BY <2>1, <3>1, <3>2, <3>3
  <2> QED
    BY <2>2, <2>3
<1> QED
  BY <1>2 DEF Claims, Ids

(* A handler moves on with the rows it carries, or drops them; the table   *)
(* is left alone, loses a row, or gets one of the rows the handler carries.*)
LEMMA CarriedOn ==
  ASSUME Typed, Typed', Claims, minted' >= minted, NEW p \in Procs,
         \A q \in Procs : q # p => op'[q] = op[q],
         Carries(op'[p]) => Carries(op[p]) /\ op'[p].id = op[p].id
                              /\ op'[p].old = op[p].old /\ op'[p].new = op[p].new,
         \A i \in Ids : \/ rows'[i] = rows[i]
                        \/ rows'[i] = Nil
                        \/ /\ Carries(op[p]) /\ i = op[p].id
                           /\ rows'[i] \in {op[p].old, op[p].new}
  PROVE  Claims'
<1>1. ASSUME NEW i \in Ids, NEW c \in Nat, Claim(i, c)'
      PROVE  Claim(i, c)
  <2>1. CASE rows'[i] \in Row /\ rows'[i].cid = c
    <3>1. rows'[i] # Nil
      BY <2>1, NilAssumption
    <3> QED
      BY <2>1, <3>1 DEF Claim
  <2>2. CASE ~(rows'[i] \in Row /\ rows'[i].cid = c)
    <3>1. PICK q \in Procs :
            /\ Carries(op'[q]) /\ op'[q].id = i
            /\ \/ op'[q].old \in Row /\ op'[q].old.cid = c
               \/ op'[q].new \in Row /\ op'[q].new.cid = c
      BY <1>1, <2>2 DEF Claim, Carries, Carrying, Edits, Row
    <3>2. /\ Carries(op[q]) /\ op[q].id = i
          /\ op'[q].old = op[q].old /\ op'[q].new = op[q].new
      BY <3>1
    <3> QED
      BY <3>1, <3>2 DEF Claim
  <2> QED
    BY <2>1, <2>2
<1>2. minted' \in Nat
  BY DEF Typed, TypeOK
<1> QED
  BY <1>1, <1>2, NoNewClaim

(* A handler goes to its next step.                                        *)
LEMMA Moved ==
  ASSUME Typed, NEW p \in Procs, NEW s, Go(p, s)
  PROVE  /\ \A q \in Procs : q # p => op'[q] = op[q]
         /\ op'[p].pc = s /\ op'[p].kind = op[p].kind /\ op'[p].id = op[p].id
         /\ op'[p].old = op[p].old /\ op'[p].new = op[p].new
BY DEF Go, Typed, TypeOK, Operation

(* A handler that has finished carries nothing.                            *)
LEMMA Finished ==
  ASSUME Typed, NEW p \in Procs, NEW r, Finish(p, r)
  PROVE  /\ \A q \in Procs : q # p => op'[q] = op[q]
         /\ ~Carries(op'[p])
<1>1. op'[p].pc \in {"token_next", "done"}
  BY DEF Finish, Typed, TypeOK, Operation
<1>2. \A q \in Procs : q # p => op'[q] = op[q]
  BY DEF Finish, Typed, TypeOK
<1> QED
  BY <1>1, <1>2 DEF Carries, Carrying

(* No step that leaves the table alone and only moves a handler on, from   *)
(* or to a step where it carries nothing, adds a claim.                    *)
LEMMA Unclaimed ==
  ASSUME Typed, Typed', Claims, minted' >= minted, NEW p \in Procs,
         \A i \in Ids : rows'[i] = rows[i] \/ rows'[i] = Nil,
         \/ \E r \in Results : Finish(p, r)
         \/ \E s \in Steps : Go(p, s) /\ (Carries(op[p]) \/ ~Carries(op'[p]))
  PROVE  Claims'
<1>1. ASSUME NEW r \in Results, Finish(p, r) PROVE Claims'
  BY <1>1, Finished, CarriedOn
<1>2. ASSUME NEW s \in Steps, Go(p, s), Carries(op[p]) \/ ~Carries(op'[p]) PROVE Claims'
  BY <1>2, Moved, CarriedOn
<1> QED
  BY <1>1, <1>2

(* Create and Duplicate: the row they insert has a fresh client ID.        *)
LEMMA CreatingClaims ==
  ASSUME Typed, Typed', Claims, NEW p \in Procs, Creating(p)
  PROVE  Claims'
<1>0. /\ minted \in Nat /\ op \in [Procs -> Operation] /\ op[p] \in Operation
      /\ rows \in [Ids -> Row \cup {Nil}]
  BY DEF Typed, TypeOK
<1>1. CASE DupRead(p)
  <2>1. CASE Finish(p, "error")
    BY <1>0, <1>1, <2>1, Unclaimed DEF DupRead, Results
  <2>2. CASE op' = [op EXCEPT ![p].pc = "count", ![p].req.room = rows[op[p].id].room,
                              ![p].req.token = rows[op[p].id].token]
    <3>1. op'[p].pc = "count" /\ \A q \in Procs : q # p => op'[q] = op[q]
      BY <1>0, <2>2 DEF Operation
    <3> QED
      BY <1>0, <1>1, <3>1, CarriedOn DEF DupRead, Carries, Carrying
  <2> QED
    BY <1>1, <2>1, <2>2 DEF DupRead
<1>2. CASE CountInstances(p)
  <2>1. CASE Go(p, "insert")
    BY <1>0, <1>2, <2>1, Moved, Unclaimed DEF CountInstances, Carries, Carrying, Steps
  <2> QED
    BY <1>0, <1>2, <2>1, Unclaimed DEF CountInstances, Results
<1>3. CASE InsertRow(p)
  <2>1. CASE Finish(p, "error") /\ UNCHANGED <<rows, minted>>
    BY <1>0, <1>3, <2>1, Unclaimed DEF Results
  <2>2. CASE /\ nextId \in Ids /\ minted' = minted + 1
             /\ rows' = [rows EXCEPT ![nextId] = NewRow(op[p].req, minted)]
             /\ op' = [op EXCEPT ![p].pc = "insert_reread", ![p].id = nextId,
                                 ![p].new = NewRow(op[p].req, minted)]
    <3>1. op'[p].pc = "insert_reread" /\ \A q \in Procs : q # p => op'[q] = op[q]
      BY <1>0, <2>2 DEF Operation
    <3>2. rows'[nextId].cid = minted /\ \A i \in Ids : i # nextId => rows'[i] = rows[i]
      BY <1>0, <2>2 DEF NewRow
    <3>3. \A i \in Ids, c \in Nat :
            Claim(i, c)' => Claim(i, c) \/ (i = nextId /\ c = minted)
      BY <3>1, <3>2 DEF Claim, Carries, Carrying
    <3> QED
      BY <2>2, <3>3, FreshClaim
  <2> QED
    BY <1>3, <2>1, <2>2 DEF InsertRow, NewClientId
<1>4. CASE InsertReread(p)
  <2>1. CASE Go(p, "new_key")
    BY <1>0, <1>4, <2>1, Moved, Unclaimed DEF InsertReread, Carries, Carrying, Steps
  <2> QED
    BY <1>0, <1>4, <2>1, Unclaimed DEF InsertReread, Results
<1>5. CASE WriteNewKey(p)
  <2>1. Go(p, "new_yaml") \/ Go(p, "undo_row")
    BY <1>5 DEF WriteNewKey
  <2>2. minted' >= minted /\ rows' = rows
    BY <1>0, <1>5 DEF WriteNewKey
  <2> QED
    BY <2>1, <2>2, Moved, Unclaimed DEF Carries, Carrying, Steps
<1>6. CASE WriteNewYaml(p)
  <2>1. CASE Go(p, "decorate")
    BY <1>0, <1>6, <2>1, Moved, Unclaimed DEF WriteNewYaml, Carries, Carrying, Steps
  <2>2. CASE Go(p, "undo_row")
    BY <1>0, <1>6, <2>2, Moved, Unclaimed DEF WriteNewYaml, Carries, Carrying, Steps
  <2> QED
    BY <1>6, <2>1, <2>2 DEF WriteNewYaml
<1>7. CASE UndoRow(p)
  BY <1>0, <1>7, Moved, Unclaimed DEF UndoRow, Carries, Carrying, Steps
<1>8. CASE UndoFiles(p)
  BY <1>0, <1>8, Unclaimed DEF UndoFiles, Results
<1> QED
  BY <1>1, <1>2, <1>3, <1>4, <1>5, <1>6, <1>7, <1>8 DEF Creating

(* Update and RotateClientID: Update carries the client ID of the row it   *)
(* has just read, RotateClientID that one and a fresh one; UpdateInstance  *)
(* writes what the handler carries.                                        *)
LEMMA UpdatingClaims ==
  ASSUME Typed, Typed', Claims, NEW p \in Procs, Updating(p)
  PROVE  Claims'
<1>0. /\ minted \in Nat /\ op \in [Procs -> Operation] /\ op[p] \in Operation
      /\ Shape(op[p]) /\ rows \in [Ids -> Row \cup {Nil}]
  BY DEF Typed, TypeOK, HandlerInv
<1>1. CASE RawRead(p)
  <2>1. CASE op' = [op EXCEPT ![p].pc = "read", ![p].req.name = rows[op[p].id].name]
    <3>1. op'[p].pc = "read" /\ \A q \in Procs : q # p => op'[q] = op[q]
      BY <1>0, <2>1 DEF Operation
    <3> QED
      BY <1>0, <1>1, <3>1, CarriedOn DEF RawRead, Carries, Carrying
  <2> QED
    BY <1>0, <1>1, <2>1, Unclaimed DEF RawRead, Results
<1>2. CASE TokenList(p) \/ TokenNext(p)
  <2> DEFINE Dropped == /\ op'[p].pc \in {"done", "token_next", "read"}
                        /\ \A q \in Procs : q # p => op'[q] = op[q]
  <2>1. ASSUME Dropped PROVE Claims'
    <3>1. rows' = rows /\ minted' = minted
      BY <1>2 DEF TokenList, TokenNext
    <3> QED
      BY <1>0, <2>1, <3>1, CarriedOn DEF Carries, Carrying
  <2>2. ASSUME NEW r, op' = [op EXCEPT ![p].pc = "done", ![p].result = r]
        PROVE  Dropped
    BY <1>0, <2>2 DEF Operation
  <2>3. CASE TokenList(p)
    <3>1. CASE op' = [op EXCEPT ![p].pc = "token_next", ![p].snap = rows,
                                ![p].todo = Existing]
      <4>1. Dropped
        BY <1>0, <3>1 DEF Operation
      <4> QED
        BY <4>1, <2>1
    <3>2. CASE op' = [op EXCEPT ![p].pc = "done", ![p].result = "error"]
      BY <2>1, <2>2, <3>2
    <3> QED
      BY <2>1, <2>3, <3>1, <3>2 DEF TokenList
  <2>4. CASE TokenNext(p)
    <3>1. ASSUME NEW i \in op[p].todo, NEW name, NEW room,
                 op' = [op EXCEPT ![p].pc = "read", ![p].id = i, ![p].todo = @ \ {i},
                                  ![p].req.name = name, ![p].req.room = room]
          PROVE  Dropped
      BY <1>0, <3>1 DEF Operation, Request
    <3>2. ASSUME NEW r, op' = [op EXCEPT ![p].pc = "done", ![p].result = r]
          PROVE  Claims'
      BY <2>1, <2>2, <3>2
    <3>3. ASSUME NEW i \in op[p].todo,
                 op' = [op EXCEPT ![p].pc = "read", ![p].id = i, ![p].todo = @ \ {i},
                                  ![p].req.name = op[p].snap[i].name,
                                  ![p].req.room = op[p].snap[i].room]
          PROVE  Claims'
      BY <2>1, <3>1, <3>3
    <3> QED
      BY <2>4, <3>2, <3>3 DEF TokenNext
  <2> QED
    BY <1>2, <2>3, <2>4
<1>3. CASE ReadOld(p)
  <2> DEFINE row == rows[op[p].id]
  <2>0. op[p].id \in Ids
    BY <1>0, <1>3 DEF ReadOld, At, Shape, Addressed, Steps
  <2>1. CASE Finish(p, "error") /\ UNCHANGED minted
    BY <1>0, <1>3, <2>1, Unclaimed DEF ReadOld, Results
  <2>2. CASE /\ row # Nil /\ UNCHANGED minted
             /\ op' = [op EXCEPT ![p].pc = "read_files", ![p].old = row,
                                 ![p].new = UpdatedRow(op[p].req, row)]
    <3>1. /\ op'[p].old = row /\ op'[p].new = UpdatedRow(op[p].req, row)
          /\ op'[p].id = op[p].id
          /\ \A q \in Procs : q # p => op'[q] = op[q]
      BY <1>0, <2>2 DEF Operation
    <3>2. row \in Row /\ UpdatedRow(op[p].req, row).cid = row.cid
      BY <1>0, <2>0, <2>2 DEF UpdatedRow
    <3>3. \A i \in Ids, c \in Nat : Claim(i, c)' => Claim(i, c)
      BY <1>3, <3>1, <3>2, ZenonT(60) DEF Claim, ReadOld
    <3> QED
      BY <1>0, <2>2, <3>3, NoNewClaim
  <2>3. CASE /\ row # Nil /\ minted' = minted + 1
             /\ op' = [op EXCEPT ![p].pc = "exec", ![p].old = row,
                                 ![p].new = [row EXCEPT !.cid = minted]]
    <3>1. /\ op'[p].old = row /\ op'[p].new = [row EXCEPT !.cid = minted]
          /\ op'[p].id = op[p].id
          /\ \A q \in Procs : q # p => op'[q] = op[q]
      BY <1>0, <2>3 DEF Operation
    <3>2. row \in Row /\ [row EXCEPT !.cid = minted].cid = minted
      BY <1>0, <2>0, <2>3 DEF Row
    <3>3. \A i \in Ids, c \in Nat : Claim(i, c)' => Claim(i, c) \/ (i = op[p].id /\ c = minted)
      BY <1>3, <3>1, <3>2, ZenonT(60) DEF Claim, ReadOld
    <3> QED
      BY <2>0, <2>3, <3>3, FreshClaim
  <2> QED
    BY <1>3, <2>1, <2>2, <2>3 DEF ReadOld
<1>4. CASE ReadFiles(p)
  <2>1. CASE op' = [op EXCEPT ![p].pc = "write_yaml", ![p].oldYaml = yaml[op[p].id]]
    <3>1. /\ op'[p].kind = op[p].kind /\ op'[p].id = op[p].id
          /\ op'[p].old = op[p].old /\ op'[p].new = op[p].new
          /\ \A q \in Procs : q # p => op'[q] = op[q]
      BY <1>0, <2>1 DEF Operation
    <3> QED
      BY <1>0, <1>4, <3>1, CarriedOn DEF ReadFiles, At, Carries, Carrying
  <2> QED
    BY <1>0, <1>4, <2>1, Unclaimed DEF ReadFiles, Results
<1>5. CASE WriteYaml(p)
  <2>2. Carries(op[p])
    BY <1>0, <1>5 DEF WriteYaml, At, Shape, Carries, Carrying
  <2> QED
    BY <1>0, <1>5, <2>2, Unclaimed DEF WriteYaml, Results, Steps
<1>6. CASE ExecUpdate(p)
  <2>0. Carries(op[p]) /\ minted' >= minted
    BY <1>0, <1>6 DEF ExecUpdate, At, Shape, Carries, Carrying
  <2>1. CASE rows' = [rows EXCEPT ![op[p].id] = op[p].new] /\ Go(p, "reread")
    <3>1. \A i \in Ids : rows'[i] = rows[i] \/ (i = op[p].id /\ rows'[i] = op[p].new)
      BY <1>0, <2>1
    <3> QED
      BY <2>0, <2>1, <3>1, Moved, CarriedOn
  <2>2. CASE UNCHANGED rows /\ (Go(p, "undo_yaml") \/ Finish(p, "error"))
    BY <2>0, <2>2, Unclaimed DEF Results, Steps
  <2> QED
    BY <1>6, <2>1, <2>2 DEF ExecUpdate
<1>7. CASE Reread(p)
  <2>0. Carries(op[p])
    BY <1>0, <1>7 DEF Reread, At, Shape, Carries, Carrying
  <2> QED
    BY <1>0, <1>7, <2>0, Unclaimed DEF Reread, Results, Steps
<1>8. CASE UndoYaml(p)
  BY <1>0, <1>8, Unclaimed DEF UndoYaml, Results
<1>9. CASE ReadKey(p)
  <2>1. CASE op' = [op EXCEPT ![p].pc = "write_key", ![p].oldKey = key[op[p].id]]
    <3>1. op'[p].pc = "write_key" /\ \A q \in Procs : q # p => op'[q] = op[q]
      BY <1>0, <2>1 DEF Operation
    <3> QED
      BY <1>0, <1>9, <3>1, CarriedOn DEF ReadKey, Carries, Carrying
  <2> QED
    BY <1>0, <1>9, <2>1, Unclaimed DEF ReadKey, Results
<1>10. CASE WriteKey(p)
  <2>1. CASE Finish(p, "error")
    BY <1>0, <1>10, <2>1, Unclaimed DEF WriteKey, Results
  <2>2. CASE Go(p, "status")
    <3>1. op[p].kind = "rotate_key" /\ minted' >= minted /\ rows' = rows
      BY <1>0, <1>10 DEF WriteKey, At, Shape
    <3>2. ~Carries(op'[p])
      BY <2>2, <3>1, Moved DEF Carries, Edits
    <3> QED
      BY <2>2, <3>1, <3>2, Unclaimed DEF Steps
  <2> QED
    BY <1>10, <2>1, <2>2 DEF WriteKey
<1> QED
  BY <1>1, <1>2, <1>3, <1>4, <1>5, <1>6, <1>7, <1>8, <1>9, <1>10 DEF Updating

(* The common tail: a rollback writes the old row the handler carries.     *)
LEMMA ApplyingClaims ==
  ASSUME Typed, Typed', Claims, NEW p \in Procs, Applying(p)
  PROVE  Claims'
<1>0. minted \in Nat /\ op[p] \in Operation /\ Shape(op[p]) /\ rows \in [Ids -> Row \cup {Nil}]
  BY DEF Typed, TypeOK, HandlerInv
<1>1. ASSUME op[p].pc \in {"status", "launch", "wait"}, NEW s \in Steps, Go(p, s)
      PROVE  Carries(op[p]) \/ ~Carries(op'[p])
  <2>1. op'[p].kind = op[p].kind
    BY <1>1, Moved
  <2> QED
    BY <1>1, <2>1 DEF Carries, Carrying
<1>2. CASE ReadStatus(p)
  <2>1. op[p].pc = "status" /\ minted' >= minted /\ rows' = rows
    BY <1>0, <1>2 DEF ReadStatus, At
  <2>2. \/ Finish(p, "ok") \/ Go(p, "decorate")
        \/ Go(p, "revert_row") \/ Go(p, "launch")
    BY <1>2 DEF ReadStatus, Succeed
  <2> QED
    BY <2>1, <2>2, <1>1, Unclaimed DEF Results, Steps
<1>3. CASE Launch(p) \/ WaitActive(p)
  <2>1. op[p].pc \in {"launch", "wait"} /\ minted' >= minted /\ rows' = rows
    BY <1>0, <1>3 DEF Launch, WaitActive, At
  <2>2. \/ Finish(p, "ok") \/ Finish(p, "error") \/ Go(p, "decorate")
        \/ Go(p, "wait") \/ Go(p, "back_key") \/ Go(p, "back_row")
    BY <1>3 DEF Launch, WaitActive, GiveUp, Recovery, Succeed
  <2> QED
    BY <2>1, <2>2, <1>1, Unclaimed DEF Results, Steps
<1>4. CASE RevertRow(p) \/ BackRow(p)
  <2>1. Carries(op[p])
    BY <1>0, <1>4 DEF RevertRow, BackRow, At, Shape, Carries, Carrying
  <2>2. \A i \in Ids : rows'[i] = rows[i] \/ (i = op[p].id /\ rows'[i] = op[p].old)
    BY <1>0, <1>4 DEF RevertRow, BackRow, RolledBackRows
  <2>3. minted' >= minted
    BY <1>0, <1>4 DEF RevertRow, BackRow
  <2>4. Finish(p, "rolled_back") \/ Go(p, "back_launch") \/ Go(p, "back_yaml")
    BY <1>4 DEF RevertRow, BackRow
  <2> QED
    BY <2>1, <2>2, <2>3, <2>4, Moved, Finished, CarriedOn DEF Carries, Carrying
<1>5. CASE BackYaml(p) \/ BackKey(p)
  <2>1. op[p].pc \in {"back_yaml", "back_key"} /\ Go(p, "back_launch")
    BY <1>5 DEF BackYaml, BackKey, At
  <2>2. minted' >= minted /\ rows' = rows
    BY <1>0, <1>5 DEF BackYaml, BackKey
  <2>3. op'[p].pc = "back_launch"
    BY <2>1, Moved
  <2>4. Carries(op[p]) \/ ~Carries(op'[p])
    BY <2>1, <2>3 DEF Carries, Carrying
  <2> QED
    BY <2>1, <2>2, <2>4, Unclaimed DEF Steps
<1>6. CASE BackLaunch(p)
  BY <1>0, <1>6, Unclaimed DEF BackLaunch, Results
<1>7. CASE Decorate(p)
  BY <1>0, <1>7, Unclaimed DEF Decorate, Results
<1> QED
  BY <1>2, <1>3, <1>4, <1>5, <1>6, <1>7 DEF Applying

(* Start, Restart, Stop and Delete carry no row.                           *)
LEMMA RemovingClaims ==
  ASSUME Typed, Typed', Claims, NEW p \in Procs, Removing(p)
  PROVE  Claims'
<1>0. minted \in Nat /\ op[p] \in Operation /\ Shape(op[p]) /\ rows \in [Ids -> Row \cup {Nil}]
  BY DEF Typed, TypeOK, HandlerInv
<1>1. CASE CheckRow(p)
  <2>1. CASE Finish(p, "error")
    BY <1>0, <1>1, <2>1, Unclaimed DEF CheckRow, Results
  <2>2. CASE Go(p, IF op[p].kind \in {"start", "restart"} THEN "launch" ELSE "stop")
    <3>1. op[p].kind \in {"start", "restart", "stop", "delete"}
      BY <1>0, <1>1 DEF CheckRow, At, Shape
    <3>2. ~Carries(op'[p])
      BY <2>2, <3>1, Moved DEF Carries, Edits
    <3> QED
      BY <1>0, <1>1, <2>2, <3>2, Unclaimed DEF CheckRow, Steps
  <2> QED
    BY <1>1, <2>1, <2>2 DEF CheckRow
<1>2. CASE StopUnit(p)
  <2>1. Go(p, "remove_files") \/ Finish(p, "ok") \/ Finish(p, "error")
    BY <1>2 DEF StopUnit
  <2>2. minted' >= minted /\ \A i \in Ids : rows'[i] = rows[i] \/ rows'[i] = Nil
    BY <1>0, <1>2 DEF StopUnit
  <2>3. ASSUME Go(p, "remove_files") PROVE ~Carries(op'[p])
    BY <2>3, Moved DEF Carries, Carrying
  <2> QED
    BY <2>1, <2>2, <2>3, Unclaimed DEF Steps, Results
<1>3. CASE RemoveFiles(p)
  <2>1. Go(p, "remove_row") \/ Finish(p, "error")
    BY <1>3 DEF RemoveFiles
  <2>2. minted' >= minted /\ \A i \in Ids : rows'[i] = rows[i] \/ rows'[i] = Nil
    BY <1>0, <1>3 DEF RemoveFiles
  <2>3. ASSUME Go(p, "remove_row") PROVE ~Carries(op'[p])
    BY <2>3, Moved DEF Carries, Carrying
  <2> QED
    BY <2>1, <2>2, <2>3, Unclaimed DEF Steps, Results
<1>4. CASE RemoveRow(p)
  BY <1>0, <1>4, Unclaimed DEF RemoveRow, Results
<1> QED
  BY <1>1, <1>2, <1>3, <1>4 DEF Removing

(* Before anything is stored there is nothing to claim.                    *)
LEMMA InitClaims == Init => Claims
BY NilAssumption DEF Init, Claims, Claim, Carries, Carrying, IdleOp

(* No step of any handler, of systemd or of a restart breaks Claims.       *)
LEMMA StepClaims == Typed /\ Claims /\ [Next]_vars => Claims'
<1> SUFFICES ASSUME Typed, Claims, [Next]_vars PROVE Claims'
  OBVIOUS
<1>0. Typed' /\ minted \in Nat
  BY NextType DEF Typed, TypeOK
<1>1. ASSUME NEW p \in Procs, Creating(p) \/ Updating(p) \/ Applying(p) \/ Removing(p)
      PROVE  Claims'
  BY <1>0, <1>1, CreatingClaims, UpdatingClaims, ApplyingClaims, RemovingClaims
<1>2. ASSUME NEW p \in Procs, Begin(p) PROVE Claims'
  <2>1. PICK kind \in Kinds :
          \E i \in Targets(kind), req \in Requests(kind) :
            op' = [op EXCEPT ![p] = [IdleOp EXCEPT !.pc = FirstStep(kind),
                                      !.kind = kind, !.id = i, !.req = req]]
    BY <1>2 DEF Begin
  <2>2. op'[p].pc = FirstStep(kind) /\ \A q \in Procs : q # p => op'[q] = op[q]
    BY <2>1 DEF Typed, TypeOK, IdleOp
  <2>3. ~Carries(op'[p])
    BY <2>2, BoundAssumption DEF FirstStep, AllKinds, Carries, Carrying
  <2> QED
    BY <1>0, <1>2, <2>2, <2>3, CarriedOn DEF Begin
<1>3. ASSUME NEW p \in Procs, Cancel(p) PROVE Claims'
  <2>1. /\ op'[p].pc = op[p].pc /\ op'[p].kind = op[p].kind /\ op'[p].id = op[p].id
        /\ op'[p].old = op[p].old /\ op'[p].new = op[p].new
        /\ \A q \in Procs : q # p => op'[q] = op[q]
    BY <1>3 DEF Cancel, Typed, TypeOK, Operation
  <2> QED
    BY <1>0, <1>3, <2>1, CarriedOn DEF Cancel, Carries
<1>4. ASSUME NEW p \in Procs, Respond(p) PROVE Claims'
  <2>1. op'[p] = IdleOp /\ \A q \in Procs : q # p => op'[q] = op[q]
    BY <1>4 DEF Respond, Typed, TypeOK
  <2> QED
    BY <1>0, <1>4, <2>1, CarriedOn DEF Respond, IdleOp, Carries, Carrying
<1>5. CASE Crash
  <2>1. \A p \in Procs : op'[p] = IdleOp
    BY <1>5 DEF Crash
  <2>2. \A i \in Ids, c \in Nat : Claim(i, c)' => Claim(i, c)
    BY <1>5, <2>1 DEF Crash, Claim, Carries, Carrying, IdleOp
  <2> QED
    BY <1>0, <1>5, <2>2, NoNewClaim DEF Crash
<1>6. CASE UNCHANGED <<rows, minted, op>>
  BY <1>0, <1>6, NoNewClaim DEF Claim, Carries, Carrying, Edits, Row
<1>7. CASE \/ \E i \in Ids : UnitDies(i) \/ UnitRestarts(i)
           \/ Boot \/ BootFails \/ UNCHANGED vars
  BY <1>6, <1>7 DEF UnitDies, UnitRestarts, Boot, BootFails, vars
<1> QED
  BY <1>1, <1>2, <1>3, <1>4, <1>5, <1>7 DEF Next, Handle

(* Two rows of the table have different client IDs: Claims of the table.   *)
LEMMA ClaimsImplyNoClash == Typed /\ Claims => NoClientIdClash
<1> SUFFICES ASSUME Typed, Claims, NEW i \in Existing, NEW j \in Existing,
                    rows[i].cid = rows[j].cid
             PROVE  i = j
  BY DEF NoClientIdClash
<1>1. rows[i] \in Row /\ rows[j] \in Row /\ i \in Ids /\ j \in Ids
  BY DEF Existing, Typed, TypeOK
<1>2. Claim(i, rows[i].cid) /\ Claim(j, rows[i].cid) /\ rows[i].cid \in Nat
  BY <1>1 DEF Claim, Row
<1> QED
  BY <1>1, <1>2 DEF Claims

(* A client ID never belongs to two instances, whatever stale rows the     *)
(* rollbacks and updates of concurrent handlers write back.                *)
THEOREM NoClientIdClashHolds == Spec => []NoClientIdClash
<1>1. Init => Typed /\ Claims
  BY InitType, InitClaims
<1>2. Typed /\ Claims /\ [Next]_vars => (Typed /\ Claims)'
  BY NextType, StepClaims
<1> QED
  BY <1>1, <1>2, ClaimsImplyNoClash, PTL DEF Spec

-----------------------------------------------------------------------------
(***************************************************************************)
(* Requests that have kept apart (KeptApart): one request for an instance,  *)
(* and one that deals with names, at a time.  The row, the files and the   *)
(* unit of an instance then belong to the handler that works on it, and    *)
(* what is true of them is a function of its step.                         *)
(*                                                                         *)
(* AloneInv says whose they are; TableInv is about the rows and about the  *)
(* tokens and rooms they have; Budgets counts the faults that are left;    *)
(* FileInv is about config.yaml and the key, RunInv about the units, and   *)
(* LeftInv about what a single fault of the disk leaves behind.            *)
(***************************************************************************)

Busy(p) == op[p].pc # "idle"
Creates == {"create", "duplicate"}
Changes == Edits \cup {"rotate_client"}
NewSteps == {"insert_reread", "new_key", "new_yaml", "undo_row"}
Ended(o) == o.pc \in {"done", "token_next"}
RolledBack(o) == Ended(o) /\ o.result = "rolled_back"

(* Two handlers at work have nothing in common.                            *)
Apart ==
  \A p, q \in Procs : p # q /\ Busy(p) /\ Busy(q) =>
    /\ op[p].id # op[q].id
    /\ op[p].kind # "token"
    /\ ~(op[p].kind \in Naming /\ op[q].kind \in Naming)

(* Handlers work on ids that have been given out.                          *)
Counted ==
  /\ \A p \in Procs : Busy(p) => op[p].id < nextId /\ op[p].kind \in AllKinds
  /\ \A p \in Procs : \A i \in op[p].todo : i < nextId
  /\ \A i \in Existing : i < nextId
  /\ \A p \in Procs : ~Busy(p) => op[p] = IdleOp
  /\ ~up => \A p \in Procs : ~Busy(p)

(* Which operation a step belongs to.                                      *)
KindOfStep(o) ==
  /\ o.pc = "dup_read" => o.kind = "duplicate"
  /\ o.pc \in NewSteps \cup {"count", "insert", "undo_files"} => o.kind \in Creates
  /\ o.pc \in {"write_key", "status"} => o.kind \in Changes \cup {"rotate_key"}
  /\ o.pc = "revert_row" => o.kind = "rotate_client"
  /\ o.pc = "back_yaml" => o.kind \in Edits
  /\ o.pc = "back_key" => o.kind = "rotate_key"
  /\ o.pc = "back_launch" => o.kind \in Changes \cup {"rotate_key"}
  /\ o.pc = "stop" => o.kind \in {"stop", "delete"}
  /\ o.pc \in {"remove_files", "remove_row"} => o.kind = "delete"
  /\ o.pc = "decorate" => o.kind \in Creates \cup Edits
  /\ RolledBack(o) => o.kind \in Changes \cup {"rotate_key"} /\ o.id \in Ids
  /\ o.pc = "token_list" => o.result = "none"
  /\ o.kind = "room" => o.req.token = Keep /\ o.id # 0
  /\ o.kind = "token" => o.req.token \in Tokens

KindInv == \A p \in Procs : KindOfStep(op[p])

AloneInv == Apart /\ Counted /\ KindInv

-----------------------------------------------------------------------------
(* What the steps of a handler have in common.                             *)

(* The part of a handler's record that moving on does not change.          *)
SameWork(o, n) ==
  /\ n.kind = o.kind /\ n.id = o.id /\ n.req = o.req /\ n.snap = o.snap
  /\ n.todo = o.todo /\ n.old = o.old /\ n.new = o.new
  /\ n.oldYaml = o.oldYaml /\ n.oldKey = o.oldKey /\ n.cancelled = o.cancelled

OthersWait(p) == \A q \in Procs : q # p => op'[q] = op[q]

(* A handler goes to its next step.                                        *)
LEMMA GoesOn ==
  ASSUME Typed, NEW p \in Procs, NEW s, Go(p, s)
  PROVE  /\ OthersWait(p) /\ SameWork(op[p], op'[p])
         /\ op'[p].pc = s /\ op'[p].result = op[p].result /\ op'[p].failed = op[p].failed
BY DEF Go, Typed, TypeOK, Operation, OthersWait, SameWork

(* An operation ends.                                                      *)
Over(p) ==
  /\ OthersWait(p) /\ SameWork(op[p], op'[p])
  /\ op'[p].pc \in {"done", "token_next"}
  /\ op'[p].pc = "token_next" <=> op[p].kind = "token"

LEMMA Ends ==
  ASSUME Typed, NEW p \in Procs
  PROVE  /\ Finish(p, "ok") =>
              Over(p) /\ op'[p].result = "ok" /\ op'[p].failed = op[p].failed
         /\ Finish(p, "error") =>
              /\ Over(p) /\ op'[p].result = "error"
              /\ op'[p].failed = op[p].failed \cup {op[p].id}
         /\ Finish(p, "rolled_back") =>
              /\ Over(p) /\ op'[p].result = "rolled_back"
              /\ op'[p].failed = op[p].failed \cup {op[p].id}
BY DEF Finish, Typed, TypeOK, Operation, OthersWait, SameWork, Over

(* A handler works on one instance: it leaves the others alone.            *)
Place(p) ==
  /\ OthersWait(p)
  /\ up /\ up'
  /\ \A i \in Ids : i # op'[p].id =>
       /\ rows'[i] = rows[i] /\ yaml'[i] = yaml[i] /\ key'[i] = key[i]
       /\ unit'[i] = unit[i]

(* What becomes of the id, the kind and the instances still to be updated. *)
Course(p) ==
  /\ op'[p].kind = op[p].kind /\ op'[p].cancelled = op[p].cancelled
  /\ op[p].pc # "idle" /\ op'[p].pc # "idle"
  /\ \/ /\ op'[p].id = op[p].id /\ op'[p].todo \subseteq op[p].todo \cup Existing
        /\ nextId' = nextId
     \/ /\ op[p].pc = "token_next" /\ op[p].kind = "token"
        /\ op'[p].id \in op[p].todo
        /\ op'[p].todo \subseteq op[p].todo
        /\ nextId' = nextId
     \/ /\ op[p].pc = "insert" /\ op[p].kind \in Creates
        /\ op'[p].id = nextId /\ nextId' = nextId + 1
        /\ op'[p].todo = op[p].todo
  /\ \A i \in Ids : rows'[i] # Nil => rows[i] # Nil \/ i < nextId'

(* A step that only moves the handler on keeps to its course.              *)
LEMMA OnCourse ==
  ASSUME Typed, NEW p \in Procs, op[p].pc # "idle", op'[p].pc # "idle",
         SameWork(op[p], op'[p]), nextId' = nextId,
         \A i \in Ids : rows'[i] # Nil => rows[i] # Nil
  PROVE  Course(p)
BY DEF Course, SameWork

(* Create and Duplicate.                                                   *)
LEMMA CreatingCourse ==
  ASSUME Typed, KindInv, NEW p \in Procs, Creating(p)
  PROVE  Place(p) /\ Course(p) /\ KindOfStep(op'[p])
<1>0. /\ op \in [Procs -> Operation] /\ op[p] \in Operation /\ nextId \in Nat
      /\ rows \in [Ids -> Row \cup {Nil}] /\ yaml \in [Ids -> FileState]
      /\ key \in [Ids -> Nat] /\ KindOfStep(op[p]) /\ Shape(op[p])
  BY DEF Typed, TypeOK, KindInv, HandlerInv
<1>. USE DEF At
<1>1. CASE DupRead(p)
  <2>1. CASE Finish(p, "error")
    <3>1. Place(p)
      BY <1>0, <1>1, <2>1, Ends DEF Over, DupRead, Place
    <3> QED
      BY <3>1, <1>0, <1>1, <2>1, Ends, OnCourse
      DEF Over, DupRead, SameWork, KindOfStep, RolledBack, Ended, NewSteps
  <2>2. CASE op' = [op EXCEPT ![p].pc = "count", ![p].req.room = rows[op[p].id].room,
                              ![p].req.token = rows[op[p].id].token]
    <3>1. /\ OthersWait(p) /\ op'[p].pc = "count" /\ op'[p].kind = op[p].kind
          /\ op'[p].id = op[p].id /\ op'[p].todo = op[p].todo
          /\ op'[p].cancelled = op[p].cancelled
      BY <1>0, <2>2 DEF Operation, OthersWait
    <3>2. Place(p)
      BY <1>1, <3>1 DEF DupRead, Place
    <3>3. Course(p)
      BY <1>0, <1>1, <3>1 DEF DupRead, Course
    <3> QED
      BY <3>1, <3>2, <3>3, <1>0, <1>1 DEF DupRead, KindOfStep, RolledBack, Ended, NewSteps, Creates
  <2> QED
    BY <1>1, <2>1, <2>2 DEF DupRead
<1>2. CASE CountInstances(p) \/ InsertReread(p)
  <2>1. PICK s \in {"insert", "new_key"} : Go(p, s) \/ Finish(p, "error")
    BY <1>2 DEF CountInstances, InsertReread
  <2>2. Place(p)
    BY <1>2, <2>1, GoesOn, Ends DEF Over, CountInstances, InsertReread, Place
  <2>3. Course(p)
    BY <1>0, <1>2, <2>1, GoesOn, Ends, OnCourse DEF Over, CountInstances, InsertReread
  <2>4. KindOfStep(op'[p])
    BY <1>0, <1>2, <2>1, GoesOn, Ends
    DEF Over, CountInstances, InsertReread, SameWork, KindOfStep, RolledBack, Ended, NewSteps
  <2> QED
    BY <2>2, <2>3, <2>4
<1>3. CASE InsertRow(p)
  <2>1. CASE Finish(p, "error") /\ UNCHANGED <<rows, nextId, minted>>
    <3>1. Place(p)
      BY <1>0, <1>3, <2>1, Ends DEF Over, InsertRow, Place
    <3> QED
      BY <3>1, <1>0, <1>3, <2>1, Ends, OnCourse
      DEF Over, InsertRow, SameWork, KindOfStep, RolledBack, Ended, NewSteps
  <2>2. CASE /\ nextId \in Ids /\ nextId' = nextId + 1
             /\ rows' = [rows EXCEPT ![nextId] = NewRow(op[p].req, NewClientId(p))]
             /\ op' = [op EXCEPT ![p].pc = "insert_reread", ![p].id = nextId,
                                 ![p].new = NewRow(op[p].req, NewClientId(p))]
    <3>1. /\ OthersWait(p) /\ op'[p].pc = "insert_reread" /\ op'[p].kind = op[p].kind
          /\ op'[p].id = nextId /\ op'[p].todo = op[p].todo
          /\ op'[p].cancelled = op[p].cancelled /\ op'[p].req = op[p].req
      BY <1>0, <2>2 DEF Operation, OthersWait
    <3>2. Place(p)
      BY <1>0, <1>3, <2>2, <3>1 DEF InsertRow, Place
    <3>3. op[p].kind \in Creates
      BY <1>0, <1>3 DEF InsertRow, KindOfStep
    <3>4. \A i \in Ids : rows'[i] # Nil => rows[i] # Nil \/ i < nextId'
      BY <1>0, <2>2
    <3>5. Course(p)
      BY <1>3, <2>2, <3>1, <3>3, <3>4 DEF InsertRow, Course
    <3>6. KindOfStep(op'[p])
      BY <1>0, <3>1, <3>3 DEF KindOfStep, RolledBack, Ended, NewSteps, Creates
    <3> QED
      BY <3>2, <3>5, <3>6
  <2> QED
    BY <1>3, <2>1, <2>2 DEF InsertRow
<1>4. CASE WriteNewKey(p) \/ WriteNewYaml(p) \/ UndoRow(p)
  <2>1. PICK s \in {"new_yaml", "undo_row", "decorate", "undo_files"} : Go(p, s)
    BY <1>4 DEF WriteNewKey, WriteNewYaml, UndoRow
  <2>2. Place(p)
    BY <1>0, <1>4, <2>1, GoesOn
    DEF WriteNewKey, WriteNewYaml, UndoRow, Unwritten, Place, SameWork
  <2>3. Course(p)
    <3>1. \A i \in Ids : rows'[i] # Nil => rows[i] # Nil
      BY <1>0, <1>4 DEF WriteNewKey, WriteNewYaml, UndoRow
    <3> QED
      BY <3>1, <1>0, <1>4, <2>1, GoesOn, OnCourse DEF WriteNewKey, WriteNewYaml, UndoRow
  <2>4. KindOfStep(op'[p])
    BY <1>0, <1>4, <2>1, GoesOn
    DEF WriteNewKey, WriteNewYaml, UndoRow, SameWork, KindOfStep, RolledBack, Ended, NewSteps
  <2> QED
    BY <2>2, <2>3, <2>4
<1>5. CASE UndoFiles(p)
  <2>1. Place(p)
    BY <1>0, <1>5, Ends DEF Over, UndoFiles, Place, SameWork
  <2>2. Course(p)
    BY <1>0, <1>5, Ends, OnCourse DEF Over, UndoFiles
  <2>3. KindOfStep(op'[p])
    BY <1>0, <1>5, Ends DEF Over, UndoFiles, SameWork, KindOfStep, RolledBack, Ended, NewSteps
  <2> QED
    BY <2>1, <2>2, <2>3
<1> QED
  BY <1>1, <1>2, <1>3, <1>4, <1>5 DEF Creating

(* Update, ChangeRoom, UpdateWBToken and RotateKey.                        *)
LEMMA UpdatingCourse ==
  ASSUME Typed, KindInv, NEW p \in Procs, Updating(p)
  PROVE  Place(p) /\ Course(p) /\ KindOfStep(op'[p])
<1>0. /\ op \in [Procs -> Operation] /\ op[p] \in Operation /\ nextId \in Nat
      /\ rows \in [Ids -> Row \cup {Nil}] /\ yaml \in [Ids -> FileState]
      /\ key \in [Ids -> Nat] /\ KindOfStep(op[p]) /\ Shape(op[p])
  BY DEF Typed, TypeOK, KindInv, HandlerInv
<1>. USE DEF At, KindOfStep, RolledBack, Ended, NewSteps, Edits, Changes, Creates
<1>1. CASE RawRead(p)
  <2>1. CASE Finish(p, "error")
    <3>1. Place(p)
      BY <1>0, <1>1, <2>1, Ends DEF Over, RawRead, Place
    <3>2. Course(p)
      BY <1>0, <1>1, <2>1, Ends, OnCourse DEF Over, RawRead
    <3> QED
      BY <3>1, <3>2, <1>0, <1>1, <2>1, Ends DEF Over, RawRead, SameWork
  <2>2. CASE op' = [op EXCEPT ![p].pc = "read", ![p].req.name = rows[op[p].id].name]
    <3>1. /\ OthersWait(p) /\ op'[p].pc = "read" /\ op'[p].kind = op[p].kind
          /\ op'[p].id = op[p].id /\ op'[p].todo = op[p].todo
          /\ op'[p].cancelled = op[p].cancelled
      BY <1>0, <2>2 DEF Operation, OthersWait
    <3>2. op'[p].req.token = op[p].req.token
      BY <1>0, <2>2 DEF Operation, Request
    <3>3. Place(p)
      BY <1>1, <3>1 DEF RawRead, Place
    <3>4. Course(p)
      BY <1>0, <1>1, <3>1 DEF RawRead, Course
    <3> QED
      BY <3>1, <3>2, <3>3, <3>4, <1>0, <1>1 DEF RawRead
  <2> QED
    BY <1>1, <2>1, <2>2 DEF RawRead
<1>2. CASE TokenList(p)
  <2>1. /\ OthersWait(p) /\ op'[p].pc \in {"done", "token_next"} /\ op'[p].kind = op[p].kind
        /\ op'[p].id = op[p].id /\ op'[p].todo \in {op[p].todo, Existing}
        /\ op'[p].cancelled = op[p].cancelled /\ op'[p].req = op[p].req
    BY <1>0, <1>2 DEF TokenList, Operation, OthersWait
  <2>2. op'[p].result \in {"none", "error"}
    BY <1>0, <1>2 DEF TokenList, Operation
  <2>3. Place(p)
    BY <1>2, <2>1 DEF TokenList, Place
  <2>4. Course(p)
    BY <1>0, <1>2, <2>1 DEF TokenList, Course
  <2>5. op[p].kind = "token"
    BY <1>0, <1>2 DEF TokenList, Shape
  <2> QED
    BY <2>1, <2>2, <2>3, <2>4, <2>5, <1>0
<1>3. CASE TokenNext(p)
  <2>0. op[p].kind = "token"
    BY <1>0, <1>3 DEF TokenNext, Shape
  <2>1. CASE op[p].todo = {} /\ op' = [op EXCEPT ![p].pc = "done",
                            ![p].result = IF op[p].failed = {} THEN "ok" ELSE "error"]
    <3>1. /\ OthersWait(p) /\ op'[p].pc = "done" /\ op'[p].kind = op[p].kind
          /\ op'[p].id = op[p].id /\ op'[p].todo = op[p].todo
          /\ op'[p].cancelled = op[p].cancelled /\ op'[p].req = op[p].req
          /\ op'[p].result # "rolled_back"
      BY <1>0, <2>1 DEF Operation, OthersWait
    <3>2. Place(p)
      BY <1>3, <3>1 DEF TokenNext, Place
    <3>3. Course(p)
      BY <1>0, <1>3, <3>1 DEF TokenNext, Course
    <3> QED
      BY <2>0, <3>1, <3>2, <3>3, <1>0
  <2>2. ASSUME NEW i \in op[p].todo,
               op' = [op EXCEPT ![p].pc = "read", ![p].id = i, ![p].todo = @ \ {i},
                            ![p].req.name = op[p].snap[i].name,
                            ![p].req.room = op[p].snap[i].room]
        PROVE  Place(p) /\ Course(p) /\ KindOfStep(op'[p])
    <3>1. /\ OthersWait(p) /\ op'[p].pc = "read" /\ op'[p].kind = op[p].kind
          /\ op'[p].id = i /\ op'[p].todo \subseteq op[p].todo
          /\ op'[p].cancelled = op[p].cancelled
      BY <1>0, <2>2 DEF Operation, OthersWait
    <3>2. op'[p].req.token = op[p].req.token
      BY <1>0, <2>2 DEF Operation, Request
    <3>3. Place(p)
      BY <1>3, <3>1 DEF TokenNext, Place
    <3>4. Course(p)
      BY <1>0, <1>3, <2>0, <3>1 DEF TokenNext, Course
    <3> QED
      BY <2>0, <3>1, <3>2, <3>3, <3>4, <1>0
  <2> QED
    BY <1>3, <2>1, <2>2 DEF TokenNext
<1>4. CASE ReadOld(p)
  <2>1. CASE Finish(p, "error")
    <3>1. Place(p)
      BY <1>0, <1>4, <2>1, Ends DEF Over, ReadOld, Place
    <3>2. Course(p)
      BY <1>0, <1>4, <2>1, Ends, OnCourse DEF Over, ReadOld
    <3> QED
      BY <3>1, <3>2, <1>0, <1>4, <2>1, Ends DEF Over, ReadOld, SameWork
  <2>2. CASE ~Finish(p, "error")
    <3>1. /\ OthersWait(p) /\ op'[p].pc \in {"read_files", "exec"} /\ op'[p].kind = op[p].kind
          /\ op'[p].id = op[p].id /\ op'[p].todo = op[p].todo
          /\ op'[p].cancelled = op[p].cancelled /\ op'[p].req = op[p].req
      BY <1>0, <1>4, <2>2 DEF ReadOld, Operation, OthersWait
    <3>3. Place(p)
      BY <1>4, <3>1 DEF ReadOld, Place
    <3>4. Course(p)
      BY <1>0, <1>4, <3>1 DEF ReadOld, Course
    <3> QED
      BY <3>1, <3>3, <3>4, <1>0
  <2> QED
    BY <2>1, <2>2
<1>5. CASE ReadFiles(p) \/ ReadKey(p)
  <2>1. CASE Finish(p, "error")
    <3>1. Place(p)
      BY <1>0, <1>5, <2>1, Ends DEF Over, ReadFiles, ReadKey, Place
    <3>2. Course(p)
      BY <1>0, <1>5, <2>1, Ends, OnCourse DEF Over, ReadFiles, ReadKey
    <3> QED
      BY <3>1, <3>2, <1>0, <1>5, <2>1, Ends DEF Over, ReadFiles, ReadKey, SameWork
  <2>2. CASE ~Finish(p, "error")
    <3>1. /\ OthersWait(p) /\ op'[p].pc \in {"write_yaml", "write_key"} /\ op'[p].kind = op[p].kind
          /\ op'[p].id = op[p].id /\ op'[p].todo = op[p].todo
          /\ op'[p].cancelled = op[p].cancelled /\ op'[p].req = op[p].req
          /\ op[p].pc = "read_key" => op'[p].pc = "write_key"
          /\ op[p].pc = "read_files" => op'[p].pc = "write_yaml"
      BY <1>0, <1>5, <2>2 DEF ReadFiles, ReadKey, Operation, OthersWait
    <3>3. Place(p)
      BY <1>5, <3>1 DEF ReadFiles, ReadKey, Place
    <3>4. Course(p)
      BY <1>0, <1>5, <3>1 DEF ReadFiles, ReadKey, Course
    <3> QED
      BY <3>1, <3>3, <3>4, <1>0, <1>5 DEF ReadFiles, ReadKey, Shape
  <2> QED
    BY <2>1, <2>2
<1>6. CASE WriteYaml(p) \/ ExecUpdate(p) \/ Reread(p) \/ UndoYaml(p) \/ WriteKey(p)
  <2>1. PICK s \in {"exec", "reread", "undo_yaml", "status"} : Go(p, s) \/ Finish(p, "error")
    BY <1>6 DEF WriteYaml, ExecUpdate, Reread, UndoYaml, WriteKey
  <2>2. \A i \in Ids : i # op[p].id =>
          rows'[i] = rows[i] /\ yaml'[i] = yaml[i] /\ key'[i] = key[i] /\ unit'[i] = unit[i]
    BY <1>0, <1>6 DEF WriteYaml, ExecUpdate, Reread, UndoYaml, WriteKey, Unwritten
  <2>3. /\ up /\ up' /\ nextId' = nextId
        /\ op[p].pc \in {"write_yaml", "exec", "reread", "undo_yaml", "write_key"}
        /\ \A i \in Ids : rows'[i] # Nil => rows[i] # Nil
    BY <1>0, <1>6 DEF WriteYaml, ExecUpdate, Reread, UndoYaml, WriteKey, CanUpdate
  <2>4. OthersWait(p) /\ SameWork(op[p], op'[p]) /\ op'[p].pc # "idle"
    BY <2>1, GoesOn, Ends DEF Over
  <2>5. Place(p)
    BY <2>2, <2>3, <2>4 DEF Place, SameWork
  <2>6. Course(p)
    BY <2>3, <2>4, OnCourse
  <2>7. op[p].kind \in Edits \cup {"rotate_client", "rotate_key"}
    BY <1>0, <2>3 DEF Shape
  <2>8. CASE Go(p, s)
    BY <2>4, <2>5, <2>6, <2>7, <2>8, <1>0, GoesOn DEF SameWork
  <2>9. CASE Finish(p, "error")
    BY <2>4, <2>5, <2>6, <2>9, <1>0, Ends DEF SameWork, Over
  <2> QED
    BY <2>1, <2>8, <2>9
<1> QED
  BY <1>1, <1>2, <1>3, <1>4, <1>5, <1>6 DEF Updating

(* Where Succeed and GiveUp lead.                                          *)
LEMMA Outcome ==
  ASSUME Typed, NEW p \in Procs
  PROVE  /\ Succeed(p) => \/ op[p].kind \in Edits /\ Go(p, "decorate")
                          \/ op[p].kind \notin Edits /\ Finish(p, "ok")
         /\ GiveUp(p) => \/ op[p].kind \in {"start", "restart"} /\ Finish(p, "error")
                         \/ op[p].kind = "rotate_key" /\ Go(p, "back_key")
                         \/ /\ op[p].kind \notin {"start", "restart", "rotate_key"}
                            /\ Go(p, "back_row")
BY DEF Succeed, GiveUp, Recovery

(* Restarting the unit, and taking a change back.                          *)
LEMMA ApplyingCourse ==
  ASSUME Typed, KindInv, NEW p \in Procs, Applying(p)
  PROVE  Place(p) /\ Course(p) /\ KindOfStep(op'[p])
<1>0. /\ op \in [Procs -> Operation] /\ op[p] \in Operation /\ nextId \in Nat
      /\ rows \in [Ids -> Row \cup {Nil}] /\ yaml \in [Ids -> FileState]
      /\ key \in [Ids -> Nat] /\ unit \in [Ids -> Unit]
      /\ KindOfStep(op[p]) /\ Shape(op[p])
  BY DEF Typed, TypeOK, KindInv, HandlerInv
<1>. USE DEF At, KindOfStep, RolledBack, Ended, NewSteps, Edits, Changes, Creates
<1>1. \A i \in Ids : i # op[p].id =>
        rows'[i] = rows[i] /\ yaml'[i] = yaml[i] /\ key'[i] = key[i] /\ unit'[i] = unit[i]
  <2>1. CASE ReadStatus(p) \/ WaitActive(p) \/ Decorate(p)
    BY <2>1 DEF ReadStatus, WaitActive, Decorate
  <2>2. CASE Launch(p) \/ BackLaunch(p)
    BY <1>0, <2>2 DEF Launch, BackLaunch
  <2>3. CASE RevertRow(p) \/ BackRow(p)
    BY <1>0, <2>3 DEF RevertRow, BackRow, RolledBackRows
  <2>4. CASE BackYaml(p) \/ BackKey(p)
    BY <1>0, <2>4 DEF BackYaml, BackKey, Unwritten
  <2> QED
    BY <2>1, <2>2, <2>3, <2>4 DEF Applying
<1>2. /\ up /\ up' /\ nextId' = nextId /\ op[p].pc # "idle"
      /\ \A i \in Ids : rows'[i] # Nil => rows[i] # Nil
  <2>1. CASE ReadStatus(p) \/ WaitActive(p) \/ Decorate(p) \/ Launch(p) \/ BackLaunch(p)
             \/ BackYaml(p) \/ BackKey(p)
    BY <2>1 DEF ReadStatus, WaitActive, Decorate, Launch, BackLaunch, BackYaml, BackKey
  <2>2. CASE RevertRow(p) \/ BackRow(p)
    BY <1>0, <2>2 DEF RevertRow, BackRow, RolledBackRows, CanUpdate
  <2> QED
    BY <2>1, <2>2, <1>0 DEF Applying
<1>3. OthersWait(p) /\ SameWork(op[p], op'[p]) /\ op'[p].pc # "idle" /\ KindOfStep(op'[p])
  <2>1. CASE ReadStatus(p)
    <3>1. \/ Finish(p, "ok") \/ (op[p].kind = "rotate_client" /\ Go(p, "revert_row"))
          \/ Go(p, "launch") \/ (op[p].kind \in Edits /\ Go(p, "decorate"))
      BY <2>1, Outcome DEF ReadStatus
    <3> QED
      BY <3>1, <2>1, <1>0, GoesOn, Ends DEF SameWork, Over, ReadStatus
  <2>2. CASE Launch(p)
    <3>1. Go(p, "wait") \/ GiveUp(p)
      BY <2>2 DEF Launch
    <3>2. op[p].pc = "launch"
      BY <2>2 DEF Launch
    <3> QED
      BY <3>1, <3>2, <1>0, GoesOn, Ends, Outcome DEF SameWork, Over, Shape
  <2>3. CASE WaitActive(p)
    <3>1. Succeed(p) \/ GiveUp(p)
      BY <2>3 DEF WaitActive
    <3>2. op[p].pc = "wait"
      BY <2>3 DEF WaitActive
    <3> QED
      BY <3>1, <3>2, <1>0, GoesOn, Ends, Outcome DEF SameWork, Over, Shape
  <2>4. CASE Decorate(p)
    BY <2>4, <1>0, Ends DEF SameWork, Over, Decorate
  <2>5. CASE RevertRow(p) \/ BackLaunch(p)
    BY <2>5, <1>0, Ends DEF SameWork, Over, RevertRow, BackLaunch, Shape, Addressed, Steps
  <2>6. CASE BackRow(p)
    <3>1. \/ op[p].kind = "rotate_client" /\ Go(p, "back_launch")
          \/ op[p].kind # "rotate_client" /\ Go(p, "back_yaml")
      BY <2>6 DEF BackRow
    <3> QED
      BY <3>1, <2>6, <1>0, GoesOn DEF SameWork, BackRow, Shape
  <2>7. CASE BackYaml(p) \/ BackKey(p)
    BY <2>7, <1>0, GoesOn DEF SameWork, BackYaml, BackKey
  <2> QED
    BY <2>1, <2>2, <2>3, <2>4, <2>5, <2>6, <2>7 DEF Applying
<1>4. Place(p)
  BY <1>1, <1>2, <1>3 DEF Place, SameWork
<1>5. Course(p)
  BY <1>2, <1>3, OnCourse
<1> QED
  BY <1>3, <1>4, <1>5

(* Start, Restart, Stop and Delete.                                        *)
LEMMA RemovingCourse ==
  ASSUME Typed, KindInv, NEW p \in Procs, Removing(p)
  PROVE  Place(p) /\ Course(p) /\ KindOfStep(op'[p])
<1>0. /\ op \in [Procs -> Operation] /\ op[p] \in Operation /\ nextId \in Nat
      /\ rows \in [Ids -> Row \cup {Nil}] /\ yaml \in [Ids -> FileState]
      /\ key \in [Ids -> Nat] /\ unit \in [Ids -> Unit]
      /\ KindOfStep(op[p]) /\ Shape(op[p])
  BY DEF Typed, TypeOK, KindInv, HandlerInv
<1>. USE DEF At, KindOfStep, RolledBack, Ended, NewSteps, Edits, Changes, Creates
<1>1. \A i \in Ids : i # op[p].id =>
        rows'[i] = rows[i] /\ yaml'[i] = yaml[i] /\ key'[i] = key[i] /\ unit'[i] = unit[i]
  BY <1>0 DEF Removing, CheckRow, StopUnit, RemoveFiles, RemoveRow
<1>2. /\ up /\ up' /\ nextId' = nextId /\ op[p].pc # "idle"
      /\ \A i \in Ids : rows'[i] # Nil => rows[i] # Nil
  BY <1>0 DEF Removing, CheckRow, StopUnit, RemoveFiles, RemoveRow
<1>3. OthersWait(p) /\ SameWork(op[p], op'[p]) /\ op'[p].pc # "idle" /\ KindOfStep(op'[p])
  <2>1. CASE CheckRow(p)
    <3>1. \/ Finish(p, "error") \/ Go(p, "launch")
          \/ (op[p].kind \notin {"start", "restart"} /\ Go(p, "stop"))
      BY <2>1 DEF CheckRow
    <3> QED
      BY <3>1, <2>1, <1>0, GoesOn, Ends DEF SameWork, Over, CheckRow, Shape
  <2>2. CASE StopUnit(p)
    <3>1. \/ op[p].kind = "delete" /\ Go(p, "remove_files")
          \/ Finish(p, "ok") \/ Finish(p, "error")
      BY <2>2 DEF StopUnit
    <3> QED
      BY <3>1, <2>2, <1>0, GoesOn, Ends DEF SameWork, Over, StopUnit
  <2>3. CASE RemoveFiles(p) \/ RemoveRow(p)
    <3>1. Finish(p, "ok") \/ Finish(p, "error") \/ Go(p, "remove_row")
      BY <2>3 DEF RemoveFiles, RemoveRow
    <3> QED
      BY <3>1, <2>3, <1>0, GoesOn, Ends DEF SameWork, Over, RemoveFiles, RemoveRow
  <2> QED
    BY <2>1, <2>2, <2>3 DEF Removing
<1>4. Place(p)
  BY <1>1, <1>2, <1>3 DEF Place, SameWork
<1>5. Course(p)
  BY <1>2, <1>3, OnCourse
<1> QED
  BY <1>3, <1>4, <1>5

-----------------------------------------------------------------------------
(* A request that arrives, a client that leaves, a response.               *)

(* A request starts with an empty record, at the first step of its kind,   *)
(* and apart from the requests that are being worked on.                   *)
Arrives(p) ==
  LET n == op'[p] IN
  /\ Place(p) /\ op[p].pc = "idle"
  /\ n.kind \in AllKinds /\ n.id < nextId
  /\ n.pc = FirstStep(n.kind)
  /\ n.id = 0 <=> n.kind \in {"create", "token"}
  /\ n.kind = "room" => n.req.token = Keep
  /\ n.kind = "token" => n.req.token \in Tokens
  /\ n.todo = {} /\ n.failed = {} /\ n.snap = [i \in Ids |-> Nil]
  /\ n.result = "none" /\ n.cancelled = FALSE
  /\ \A q \in Procs : Busy(q) =>
       /\ op[q].id # n.id /\ op[q].kind # "token" /\ n.kind # "token"
       /\ ~(op[q].kind \in Naming /\ n.kind \in Naming)

LEMMA Arrival ==
  ASSUME Typed, KeptApart, KeptApart', NEW p \in Procs, Begin(p)
  PROVE  Arrives(p)
<1>0. op \in [Procs -> Operation] /\ nextId \in Nat \ {0} /\ left \in Budget
  BY DEF Typed, TypeOK
<1>1. PICK kind \in Kinds : \E i \in Targets(kind), req \in Requests(kind) :
       /\ left'.overlaps = IF Clear(kind, i) THEN left.overlaps ELSE left.overlaps - 1
       /\ op' = [op EXCEPT ![p] = [IdleOp EXCEPT !.pc = FirstStep(kind),
                                    !.kind = kind, !.id = i, !.req = req]]
  BY <1>0 DEF Begin, Budget
<1>2. PICK i \in Targets(kind), req \in Requests(kind) :
       /\ left'.overlaps = IF Clear(kind, i) THEN left.overlaps ELSE left.overlaps - 1
       /\ op' = [op EXCEPT ![p] = [IdleOp EXCEPT !.pc = FirstStep(kind),
                                    !.kind = kind, !.id = i, !.req = req]]
  BY <1>1
<1>3. /\ OthersWait(p)
      /\ op'[p] = [IdleOp EXCEPT !.pc = FirstStep(kind), !.kind = kind, !.id = i, !.req = req]
  BY <1>0, <1>2 DEF OthersWait
<1>4. /\ op'[p].pc = FirstStep(kind) /\ op'[p].kind = kind /\ op'[p].id = i
      /\ op'[p].req = req /\ op'[p].todo = {} /\ op'[p].failed = {}
      /\ op'[p].snap = [j \in Ids |-> Nil] /\ op'[p].result = "none"
      /\ op'[p].cancelled = FALSE
  BY <1>3 DEF IdleOp
<1>5. Place(p) /\ op[p].pc = "idle"
  BY <1>3 DEF Begin, At, Place
<1>6. kind \in AllKinds
  BY BoundAssumption
<1>7. /\ i < nextId
      /\ i = 0 <=> kind \in {"create", "token"}
  BY <1>0, <1>6 DEF Targets, Ids
<1>8. /\ kind = "room" => req.token = Keep
      /\ kind = "token" => req.token \in Tokens
  BY DEF Requests
<1>9. \A q \in Procs : Busy(q) =>
       /\ op[q].id # i /\ op[q].kind # "token" /\ kind # "token"
       /\ ~(op[q].kind \in Naming /\ kind \in Naming)
  <2>1. left.overlaps = MaxOverlaps /\ left'.overlaps = MaxOverlaps /\ MaxOverlaps \in Nat
    BY BoundAssumption DEF KeptApart, Spared, Limits
  <2>2. Clear(kind, i)
    BY <1>2, <2>1
  <2> QED
    BY <2>2 DEF Clear, Busy
<1> QED
  BY <1>4, <1>5, <1>6, <1>7, <1>8, <1>9 DEF Arrives

(* The client disconnects: nothing else changes.                           *)
LEMMA Departure ==
  ASSUME Typed, KindInv, NEW p \in Procs, Cancel(p)
  PROVE  /\ Place(p) /\ op[p].pc # "idle" /\ op'[p].pc = op[p].pc
         /\ op'[p].kind = op[p].kind /\ op'[p].id = op[p].id /\ op'[p].req = op[p].req
         /\ op'[p].snap = op[p].snap /\ op'[p].todo = op[p].todo
         /\ op'[p].failed = op[p].failed /\ op'[p].old = op[p].old
         /\ op'[p].new = op[p].new /\ op'[p].oldYaml = op[p].oldYaml
         /\ op'[p].oldKey = op[p].oldKey /\ op'[p].result = op[p].result
         /\ op'[p].cancelled
<1>1. /\ OthersWait(p) /\ op'[p].pc = op[p].pc
      /\ op'[p].kind = op[p].kind /\ op'[p].id = op[p].id /\ op'[p].req = op[p].req
      /\ op'[p].snap = op[p].snap /\ op'[p].todo = op[p].todo
      /\ op'[p].failed = op[p].failed /\ op'[p].old = op[p].old
      /\ op'[p].new = op[p].new /\ op'[p].oldYaml = op[p].oldYaml
      /\ op'[p].oldKey = op[p].oldKey /\ op'[p].result = op[p].result
      /\ op'[p].cancelled
  BY DEF Cancel, Typed, TypeOK, Operation, OthersWait
<1> QED
  BY <1>1 DEF Cancel, Place

(* The handler is idle again.                                              *)
LEMMA Response ==
  ASSUME Typed, NEW p \in Procs, Respond(p)
  PROVE  Place(p) /\ op[p].pc # "idle" /\ op'[p] = IdleOp
<1>1. OthersWait(p) /\ op'[p] = IdleOp
  BY DEF Respond, Typed, TypeOK, OthersWait
<1> QED
  BY <1>1 DEF Respond, At, Place

(* What the step of a handler is.                                          *)
LEMMA HandlerStep ==
  ASSUME Typed, KindInv, KeptApart, KeptApart', NEW p \in Procs, Begin(p) \/ Cancel(p) \/ Handle(p)
  PROVE  /\ Place(p)
         /\ \/ Course(p)
            \/ Arrives(p) /\ UNCHANGED <<rows, nextId>>
            \/ op[p].pc = "done" /\ op'[p] = IdleOp /\ UNCHANGED <<rows, nextId>>
            \/ /\ op'[p].kind = op[p].kind /\ op'[p].id = op[p].id
               /\ op'[p].todo = op[p].todo /\ UNCHANGED <<rows, nextId>>
               /\ op[p].pc # "idle" /\ op'[p].pc = op[p].pc
         /\ KindOfStep(op'[p])
<1>0. KindOfStep(op[p])
  BY DEF KindInv
<1>1. CASE Begin(p)
  <2>1. Arrives(p) /\ UNCHANGED <<rows, nextId>>
    BY <1>1, Arrival DEF Begin
  <2>2. KindOfStep(op'[p])
    BY <2>1 DEF Arrives, KindOfStep, FirstStep, RolledBack, Ended, Creates, NewSteps, AllKinds, Changes, Edits
  <2> QED
    BY <2>1, <2>2 DEF Arrives
<1>2. CASE Cancel(p)
  <2>1. /\ Place(p) /\ op[p].pc # "idle" /\ op'[p].pc = op[p].pc
        /\ op'[p].kind = op[p].kind /\ op'[p].id = op[p].id /\ op'[p].req = op[p].req
        /\ op'[p].todo = op[p].todo /\ op'[p].result = op[p].result
    BY <1>2, Departure
  <2>2. KindOfStep(op'[p])
    BY <1>0, <2>1 DEF KindOfStep, RolledBack, Ended
  <2>3. UNCHANGED <<rows, nextId>>
    BY <1>2 DEF Cancel
  <2> QED
    BY <2>1, <2>2, <2>3
<1>3. CASE Respond(p)
  <2>1. KindOfStep(IdleOp)
    BY DEF IdleOp, KindOfStep, RolledBack, Ended, NewSteps
  <2> QED
    BY <2>1, <1>3, Response DEF Respond, At
<1>4. CASE Creating(p) \/ Updating(p) \/ Applying(p) \/ Removing(p)
  BY <1>4, CreatingCourse, UpdatingCourse, ApplyingCourse, RemovingCourse
<1> QED
  BY <1>1, <1>2, <1>3, <1>4 DEF Handle

-----------------------------------------------------------------------------
(* Requests that arrive apart stay apart.                                  *)

(* The empty panel has no handler at work.                                 *)
LEMMA InitAlone == Init => AloneInv
<1> SUFFICES ASSUME Init PROVE AloneInv
  OBVIOUS
<1>1. \A p \in Procs : op[p] = IdleOp
  BY DEF Init
<1>2. \A p \in Procs : op[p].pc = "idle" /\ op[p].todo = {} /\ op[p].kind = "none"
                         /\ op[p].result = "none"
  BY <1>1 DEF IdleOp
<1>3. Apart /\ KindInv
  BY <1>2 DEF Apart, Busy, KindInv, KindOfStep, RolledBack, Ended, NewSteps
<1>4. Counted
  BY <1>1, <1>2 DEF Counted, Busy, Init, Existing
<1> QED
  BY <1>3, <1>4 DEF AloneInv

(* A step of a handler: it takes no id that another handler works on.      *)
LEMMA HandlerAlone ==
  ASSUME Typed, Typed', AloneInv, KeptApart, KeptApart', NEW p \in Procs,
         Begin(p) \/ Cancel(p) \/ Handle(p)
  PROVE  AloneInv'
<1>0. /\ nextId \in Nat /\ nextId' \in Nat
      /\ \A q \in Procs : op[q] \in Operation /\ op'[q] \in Operation
  BY DEF Typed, TypeOK
<1>1. OthersWait(p) /\ up /\ up'
  BY HandlerStep DEF AloneInv, Place
<1>2. CASE Course(p)
  <2>1. /\ nextId' >= nextId
        /\ \A i \in Ids : rows'[i] # Nil => i < nextId'
    BY <1>0, <1>2 DEF Course, AloneInv, Counted, Existing, Ids
  <2>2. op'[p].id < nextId' /\ op'[p].kind \in AllKinds
    BY <1>0, <1>2 DEF Course, AloneInv, Counted, Existing, Busy, Ids, Operation
  <2>3. \A i \in op'[p].todo : i < nextId'
    BY <1>0, <1>2, <2>1 DEF Course, AloneInv, Counted, Existing, Ids, Operation
  <2>4. ASSUME NEW q \in Procs, q # p, Busy(q)
        PROVE  op'[p].id # op[q].id /\ op[q].kind # "token" /\ op'[p].kind # "token"
               /\ ~(op[q].kind \in Naming /\ op'[p].kind \in Naming)
    <3>1. /\ op[p].id # op[q].id /\ op[q].kind # "token" /\ op[p].kind # "token"
          /\ ~(op[q].kind \in Naming /\ op[p].kind \in Naming)
      BY <1>2, <2>4 DEF Course, AloneInv, Apart, Busy
    <3>2. op[q].id < nextId
      BY <2>4 DEF AloneInv, Counted
    <3> QED
      BY <1>0, <1>2, <3>1, <3>2 DEF Course, Operation, Ids
  <2>5. Apart'
    BY <1>1, <2>4 DEF Apart, AloneInv, OthersWait, Busy
  <2>6. Counted'
    BY <1>0, <1>1, <1>2, <2>1, <2>2, <2>3 DEF Counted, AloneInv, OthersWait, Busy, Existing,
       Course, Operation, Ids
  <2>7. KindOfStep(op'[p])
    BY HandlerStep DEF AloneInv
  <2> QED
    BY <1>1, <2>5, <2>6, <2>7 DEF AloneInv, KindInv, OthersWait, KindOfStep, RolledBack, Ended, NewSteps
<1>3. CASE Arrives(p) /\ UNCHANGED <<rows, nextId>>
  <2>1. Apart'
    BY <1>1, <1>3 DEF Apart, AloneInv, Arrives, OthersWait, Busy
  <2>2. Counted'
    <3>1. op'[p].pc # "idle"
      BY <1>3 DEF Arrives, FirstStep
    <3> QED
      BY <1>1, <1>3, <3>1 DEF Counted, AloneInv, Arrives, OthersWait, Busy, Existing
  <2>3. KindOfStep(op'[p])
    BY HandlerStep DEF AloneInv
  <2> QED
    BY <1>1, <2>1, <2>2, <2>3 DEF AloneInv, KindInv, OthersWait, KindOfStep, RolledBack, Ended, NewSteps
<1>4. CASE op'[p] = IdleOp /\ UNCHANGED <<rows, nextId>>
  <2>0. op'[p].pc = "idle" /\ op'[p].todo = {}
    BY <1>4 DEF IdleOp
  <2>1. Apart'
    BY <1>1, <2>0 DEF Apart, AloneInv, OthersWait, Busy
  <2>2. Counted'
    BY <1>1, <1>4, <2>0 DEF Counted, AloneInv, OthersWait, Busy, Existing
  <2>3. KindOfStep(op'[p])
    BY HandlerStep DEF AloneInv
  <2> QED
    BY <1>1, <2>1, <2>2, <2>3 DEF AloneInv, KindInv, OthersWait, KindOfStep, RolledBack, Ended, NewSteps
<1>5. CASE /\ op'[p].kind = op[p].kind /\ op'[p].id = op[p].id
           /\ op'[p].todo = op[p].todo /\ UNCHANGED <<rows, nextId>>
           /\ op[p].pc # "idle" /\ op'[p].pc = op[p].pc
  <2>1. Apart'
    BY <1>1, <1>5 DEF Apart, AloneInv, OthersWait, Busy
  <2>2. Counted'
    BY <1>1, <1>5 DEF Counted, AloneInv, OthersWait, Busy, Existing
  <2>3. KindOfStep(op'[p])
    BY HandlerStep DEF AloneInv
  <2> QED
    BY <1>1, <2>1, <2>2, <2>3 DEF AloneInv, KindInv, OthersWait, KindOfStep, RolledBack, Ended, NewSteps
<1> QED
  BY <1>2, <1>3, <1>4, <1>5, HandlerStep DEF AloneInv

(* The steps that no handler takes leave the handlers where they are, or   *)
(* end them all.                                                           *)
LEMMA OtherAlone ==
  ASSUME Typed, Typed', AloneInv,
         \/ \E i \in Ids : UnitDies(i) \/ UnitRestarts(i)
         \/ Crash \/ Boot \/ BootFails \/ UNCHANGED vars
  PROVE  AloneInv' /\ rows' = rows /\ nextId' = nextId
<1>1. CASE op' = op /\ rows' = rows /\ nextId' = nextId /\ (up' \/ up' = up)
  BY <1>1 DEF AloneInv, Apart, Counted, KindInv, KindOfStep, RolledBack, Ended, NewSteps,
     Busy, Existing
<1>2. CASE Crash
  <2>1. \A p \in Procs : op'[p] = IdleOp
    BY <1>2 DEF Crash
  <2>2. \A p \in Procs : op'[p].pc = "idle" /\ op'[p].todo = {} /\ op'[p].kind = "none"
                           /\ op'[p].result = "none"
    BY <2>1 DEF IdleOp
  <2>3. Apart' /\ KindInv'
    BY <2>2 DEF Apart, Busy, KindInv, KindOfStep, RolledBack, Ended, NewSteps
  <2>4. Counted'
    BY <1>2, <2>1, <2>2 DEF AloneInv, Counted, Busy, Existing, Crash
  <2> QED
    BY <1>2, <2>3, <2>4 DEF AloneInv, Crash
<1> QED
  BY <1>1, <1>2 DEF UnitDies, UnitRestarts, Boot, BootFails, vars

Cheaper ==
  /\ left'.crashes <= left.crashes /\ left'.cancels <= left.cancels
  /\ left'.disk <= left.disk /\ left'.ctl <= left.ctl
  /\ left'.overlaps <= left.overlaps

(* What a failing write and a failing systemctl call cost.                 *)
LEMMA FaultCost ==
  ASSUME Typed
  PROVE  /\ DiskFault => /\ left'.disk < left.disk /\ left'.cancels = left.cancels
                         /\ left'.ctl = left.ctl /\ left'.crashes = left.crashes
         /\ \A p \in Procs : CtlFault(p) =>
              /\ left'.disk = left.disk /\ left'.cancels = left.cancels
              /\ left'.ctl <= left.ctl /\ left'.crashes = left.crashes
              /\ ~op[p].cancelled => left'.ctl < left.ctl
BY DEF DiskFault, CtlFault, Typed, TypeOK, Budget

(* Faults are only ever used up.                                           *)
LEMMA Spending ==
  ASSUME Typed, [Next]_vars
  PROVE  Cheaper
<1>0. left \in Budget
  BY DEF Typed, TypeOK
<1>1. UNCHANGED left => Cheaper
  BY <1>0 DEF Cheaper, Budget
<1>2. DiskFault => Cheaper
  BY <1>0 DEF DiskFault, Cheaper, Budget
<1>3. ASSUME NEW p \in Procs, CtlFault(p) PROVE Cheaper
  <2>1. /\ left'.disk = left.disk /\ left'.cancels = left.cancels
        /\ left'.ctl <= left.ctl /\ left'.crashes = left.crashes
        /\ left'.overlaps = left.overlaps
    <3>1. CASE UNCHANGED left
      BY <1>0, <3>1 DEF Budget
    <3>2. CASE left' = [left EXCEPT !.ctl = @ - 1]
      BY <1>0, <3>2 DEF Budget
    <3> QED
      BY <1>3, <3>1, <3>2 DEF CtlFault
  <2> QED
    BY <1>0, <2>1 DEF Cheaper, Budget
<1>4. ASSUME NEW p \in Procs, Creating(p) PROVE Cheaper
  BY <1>1, <1>2, <1>4 DEF Creating, DupRead, CountInstances, InsertRow, InsertReread, WriteNewKey,
     WriteNewYaml, UndoRow, UndoFiles
<1>5. ASSUME NEW p \in Procs, Updating(p) PROVE Cheaper
  BY <1>1, <1>2, <1>5 DEF Updating, RawRead, TokenList, TokenNext, ReadOld, ReadFiles, WriteYaml,
     ExecUpdate, Reread, UndoYaml, ReadKey, WriteKey
<1>6. ASSUME NEW p \in Procs, Applying(p) PROVE Cheaper
  BY <1>1, <1>2, <1>3, <1>6 DEF Applying, ReadStatus, Launch, WaitActive, RevertRow, BackRow,
     BackYaml, BackKey, BackLaunch, Decorate
<1>7. ASSUME NEW p \in Procs, Removing(p) PROVE Cheaper
  BY <1>1, <1>2, <1>3, <1>7 DEF Removing, CheckRow, StopUnit, RemoveFiles, RemoveRow
<1>8. ASSUME NEW p \in Procs, Begin(p) \/ Cancel(p) \/ Respond(p) PROVE Cheaper
  <2>1. CASE Begin(p)
    <3>1. PICK n \in {left.overlaps, left.overlaps - 1} :
            left' = [left EXCEPT !.ops = @ - 1, !.overlaps = n]
      BY <2>1 DEF Begin
    <3> QED
      BY <1>0, <3>1 DEF Cheaper, Budget
  <2>2. CASE Cancel(p)
    <3>1. left' = [left EXCEPT !.cancels = @ - 1]
      BY <2>2 DEF Cancel
    <3> QED
      BY <1>0, <3>1 DEF Cheaper, Budget
  <2> QED
    BY <1>1, <1>8, <2>1, <2>2 DEF Respond
<1>9. ASSUME NEW i \in Ids, UnitDies(i) \/ UnitRestarts(i) PROVE Cheaper
  BY <1>0, <1>1, <1>9 DEF UnitDies, UnitRestarts, Cheaper, Budget
<1>10. CASE Crash \/ Boot \/ BootFails \/ UNCHANGED vars
  BY <1>0, <1>1, <1>2, <1>10 DEF Crash, Boot, BootFails, vars, Cheaper, Budget
<1> QED
  BY <1>4, <1>5, <1>6, <1>7, <1>8, <1>9, <1>10 DEF Next, Handle

(* Requests that have not kept apart so far will never have.               *)
Few == left.overlaps <= MaxOverlaps

LEMMA StillApart ==
  ASSUME Typed, Typed', Few, [Next]_vars
  PROVE  Few' /\ (KeptApart' => KeptApart)
<1>1. /\ left \in Budget /\ left' \in Budget /\ Cheaper /\ MaxOverlaps \in Nat
  BY Spending, BoundAssumption DEF Typed, TypeOK
<1>2. /\ KeptApart <=> left.overlaps = MaxOverlaps
      /\ KeptApart' <=> left'.overlaps = MaxOverlaps
  BY DEF KeptApart, Spared, Limits
<1> QED
  BY <1>1, <1>2 DEF Few, Cheaper, Budget

(* AloneInv is inductive when requests keep apart.                         *)
LEMMA StepAlone == KeptApart /\ KeptApart' /\ Typed /\ Typed' /\ AloneInv /\ [Next]_vars => AloneInv'
BY HandlerAlone, OtherAlone DEF Next

(* Requests keep apart as long as the panel lives.                         *)
Lone == Typed /\ Few /\ (KeptApart => AloneInv)

LEMMA SpecAlone == Spec => []Lone
<1>1. Init => Lone
  BY InitType, InitAlone, BoundAssumption DEF Lone, Few, Init, Limits
<1>2. Lone /\ [Next]_vars => Lone'
  BY NextType, StepAlone, StillApart DEF Lone
<1> QED
  BY <1>1, <1>2, PTL DEF Spec

-----------------------------------------------------------------------------
(* The row of a handler's instance, as a function of its step.             *)

HoldingOld == {"read_files", "write_yaml", "exec"}
HoldingNew == {"reread", "status", "launch", "wait", "revert_row", "back_row"}

(* What the row a handler writes changes, operation by operation.          *)
Differ(o) ==
  /\ o.kind = "room" => o.new = [o.old EXCEPT !.room = o.new.room]
  /\ o.kind = "token" => o.new = [o.old EXCEPT !.token = o.req.token]
  /\ o.kind = "rotate_client" => o.new = [o.old EXCEPT !.cid = o.new.cid]

(* A change is in the table from the UPDATE on and out of it again after   *)
(* the rollback, which only a disconnected client can keep from writing.   *)
RowFacts(o, r) ==
  /\ o.pc \in NewSteps => r = o.new
  /\ o.pc = "undo_files" => r = Nil \/ r = o.new
  /\ o.pc = "read" /\ o.kind \in {"room", "token"} => r \in Row /\ r.name = o.req.name
  /\ o.pc = "read" /\ o.kind = "token" => r.room = o.req.room
  /\ o.pc \in HoldingOld => r = o.old
  /\ o.pc = "undo_yaml" => r = o.old \/ (o.cancelled /\ r = o.new)
  /\ o.pc \in HoldingNew /\ o.kind \in Changes => r = o.new
  /\ o.pc \in {"back_yaml", "back_launch"} /\ o.kind \in Changes =>
       r = o.old \/ (o.cancelled /\ r = o.new)
  /\ RolledBack(o) /\ o.kind \in Changes => r = o.old \/ o.cancelled
  /\ o.pc = "decorate" => r = o.new
  /\ o.pc \in {"launch", "wait"} /\ o.kind \in {"start", "restart"} => r \in Row
  /\ o.pc \in {"stop", "remove_files", "remove_row"} => r \in Row
  /\ o.kind \in Changes /\ o.pc \in HoldingOld \cup HoldingNew \cup {"undo_yaml"} =>
       o.old \in Row /\ o.new \in Row /\ Differ(o)
  /\ o.kind \in Changes /\ (o.pc \in {"back_yaml", "back_launch"} \/ RolledBack(o)) =>
       o.old \in Row /\ o.new \in Row

RowInv ==
  \A p \in Procs : Busy(p) /\ op[p].id \in Ids => RowFacts(op[p], rows[op[p].id])

(* Names are unique, and the name an edit may have to put back stays free. *)
Undoing == {"reread", "status", "launch", "wait", "back_row"}

UniqueNames == \A i, j \in Existing : rows[i].name = rows[j].name => i = j
NameKept ==
  \A p \in Procs : op[p].kind = "edit" /\ op[p].pc \in Undoing =>
    ~NameTaken(op[p].old.name, op[p].id)

(* How far UpdateWBToken has got with its snapshot of the table.           *)
Updated(o, j) ==
  j \in o.failed \/ rows[j] = [o.snap[j] EXCEPT !.token = o.req.token]

TokenFacts(o) ==
  /\ \A j \in o.todo : rows[j] = o.snap[j]
  /\ o.id \notin o.todo
  /\ \A j \in Ids : o.snap[j] # Nil /\ j \notin o.todo /\ (Ended(o) \/ j # o.id) =>
       Updated(o, j)
  /\ o.pc = "done" /\ o.result = "ok" => o.failed = {} /\ o.todo = {}
  /\ o.pc = "read" => rows[o.id] = o.snap[o.id]
  /\ o.pc \in HoldingOld \cup HoldingNew \cup {"undo_yaml"} => o.old = o.snap[o.id]
  /\ o.pc = "decorate" => o.new = [o.snap[o.id] EXCEPT !.token = o.req.token]
  /\ o.pc = "token_list" =>
       o.id = 0 /\ o.todo = {} /\ o.failed = {} /\ \A j \in Ids : o.snap[j] = Nil

TokenInv == \A p \in Procs : op[p].kind = "token" => TokenFacts(op[p])

TableInv == RowInv /\ UniqueNames /\ NameKept /\ TokenInv

(* The row of an instance changes under no handler but its own.            *)
LEMMA RowFrame ==
  ASSUME Typed', AloneInv', RowInv, NEW p \in Procs, Place(p),
         (Busy(p))' /\ op'[p].id \in Ids => RowFacts(op'[p], rows'[op'[p].id])
  PROVE  RowInv'
<1>1. ASSUME NEW q \in Procs, (Busy(q))', op'[q].id \in Ids
      PROVE  RowFacts(op'[q], rows'[op'[q].id])
  <2>1. CASE q = p
    BY <1>1, <2>1
  <2>2. CASE q # p
    <3>1. op'[q] = op[q] /\ Busy(q)
      BY <1>1, <2>2 DEF Place, OthersWait, Busy
    <3>2. op'[p].id # op[q].id
      <4>1. CASE (Busy(p))'
        BY <1>1, <2>2, <3>1, <4>1 DEF AloneInv, Apart
      <4>2. CASE ~(Busy(p))'
        <5>1. op'[p].id = 0
          BY <4>2 DEF AloneInv, Counted, IdleOp
        <5> QED
          BY <1>1, <3>1, <5>1 DEF Ids
      <4> QED
        BY <4>1, <4>2
    <3>3. rows'[op[q].id] = rows[op[q].id]
      BY <1>1, <3>1, <3>2 DEF Place
    <3>4. RowFacts(op[q], rows[op[q].id])
      BY <1>1, <3>1 DEF RowInv
    <3> QED
      BY <3>1, <3>3, <3>4
  <2> QED
    BY <2>1, <2>2
<1> QED
  BY <1>1 DEF RowInv, RowFacts, Ids, Row, Differ, RolledBack, Ended, HoldingOld, HoldingNew,
     NewSteps, Changes, Edits

(* What a handler that is at a step knows.                                 *)
LEMMA AtStep ==
  ASSUME Typed, AloneInv, TableInv, NEW p \in Procs, Busy(p)
  PROVE  /\ op[p] \in Operation /\ KindOfStep(op[p]) /\ Shape(op[p])
         /\ op[p].id \in Ids => RowFacts(op[p], rows[op[p].id])
         /\ op[p].kind = "token" => TokenFacts(op[p])
         /\ rows \in [Ids -> Row \cup {Nil}]
BY DEF Typed, TypeOK, HandlerInv, AloneInv, KindInv, TableInv, RowInv, TokenInv

(* Create and Duplicate.                                                   *)
LEMMA CreatingRow ==
  ASSUME Typed, AloneInv, TableInv, NEW p \in Procs, Creating(p), op'[p].id \in Ids
  PROVE  RowFacts(op'[p], rows'[op'[p].id])
<1>. USE DEF At, RowFacts, KindOfStep, Creates, Changes, Edits, NewSteps, HoldingOld, HoldingNew,
             RolledBack, Ended
<1>0. Busy(p)
  BY DEF Busy, Creating, DupRead, CountInstances, InsertRow, InsertReread, WriteNewKey,
         WriteNewYaml, UndoRow, UndoFiles
<1>1. /\ op[p] \in Operation /\ KindOfStep(op[p]) /\ Shape(op[p])
      /\ op[p].id \in Ids => RowFacts(op[p], rows[op[p].id])
      /\ rows \in [Ids -> Row \cup {Nil}] /\ op \in [Procs -> Operation]
  BY <1>0, AtStep DEF Typed, TypeOK
<1>2. CASE DupRead(p)
  <2>1. CASE Finish(p, "error")
    BY <1>1, <1>2, <2>1, Ends DEF Over, DupRead, SameWork
  <2>2. CASE op' = [op EXCEPT ![p].pc = "count", ![p].req.room = rows[op[p].id].room,
                              ![p].req.token = rows[op[p].id].token]
    <3>1. op'[p].pc = "count"
      BY <1>1, <2>2 DEF Operation
    <3> QED
      BY <3>1
  <2> QED
    BY <1>2, <2>1, <2>2 DEF DupRead
<1>3. CASE CountInstances(p)
  BY <1>1, <1>3, GoesOn, Ends DEF Over, CountInstances, SameWork
<1>4. CASE InsertRow(p)
  <2>1. CASE Finish(p, "error")
    BY <1>1, <1>4, <2>1, Ends DEF Over, InsertRow, SameWork
  <2>2. CASE /\ nextId \in Ids
             /\ rows' = [rows EXCEPT ![nextId] = NewRow(op[p].req, NewClientId(p))]
             /\ op' = [op EXCEPT ![p].pc = "insert_reread", ![p].id = nextId,
                                 ![p].new = NewRow(op[p].req, NewClientId(p))]
    <3>1. /\ op'[p].pc = "insert_reread" /\ op'[p].kind = op[p].kind
          /\ op'[p].id = nextId /\ op'[p].new = NewRow(op[p].req, NewClientId(p))
      BY <1>1, <2>2 DEF Operation
    <3>2. rows'[nextId] = NewRow(op[p].req, NewClientId(p))
      BY <1>1, <2>2
    <3>3. op[p].kind \in Creates
      BY <1>1, <1>4 DEF InsertRow
    <3> QED
      BY <3>1, <3>2, <3>3
  <2> QED
    BY <1>4, <2>1, <2>2 DEF InsertRow
<1>5. CASE InsertReread(p)
  BY <1>1, <1>5, GoesOn, Ends DEF Over, InsertReread, SameWork
<1>6. CASE WriteNewKey(p) \/ WriteNewYaml(p)
  <2>1. PICK s \in {"new_yaml", "undo_row", "decorate"} : Go(p, s)
    BY <1>6 DEF WriteNewKey, WriteNewYaml
  <2>2. op[p].pc \in {"new_key", "new_yaml"} /\ rows' = rows
    BY <1>6 DEF WriteNewKey, WriteNewYaml
  <2> QED
    BY <1>1, <2>1, <2>2, GoesOn DEF SameWork
<1>7. CASE UndoRow(p)
  <2>1. op[p].id = op'[p].id /\ op'[p].pc = "undo_files" /\ op'[p].new = op[p].new
        /\ op'[p].kind = op[p].kind
    BY <1>7, GoesOn DEF UndoRow, SameWork
  <2>2. rows'[op[p].id] \in {rows[op[p].id], Nil} /\ op[p].pc = "undo_row"
    BY <1>1, <1>7, <2>1 DEF UndoRow
  <2> QED
    BY <1>1, <2>1, <2>2
<1>8. CASE UndoFiles(p)
  BY <1>1, <1>8, Ends DEF Over, UndoFiles, SameWork
<1> QED
  BY <1>2, <1>3, <1>4, <1>5, <1>6, <1>7, <1>8 DEF Creating

(* The row an Update writes differs from the one it read as it should.     *)
LEMMA ReadDiffers ==
  ASSUME NEW o, NEW r \in Row, RowFacts(o, r), KindOfStep(o), o.pc = "read",
         o.kind \in Edits
  PROVE  LET new == UpdatedRow(o.req, r) IN
         /\ o.kind = "room" => new = [r EXCEPT !.room = new.room]
         /\ o.kind = "token" => new = [r EXCEPT !.token = o.req.token]
BY NilAssumption DEF RowFacts, KindOfStep, UpdatedRow, Row

(* Update, ChangeRoom, UpdateWBToken and RotateKey.                        *)
LEMMA UpdatingRow ==
  ASSUME Typed, AloneInv, TableInv, NEW p \in Procs, Updating(p), op'[p].id \in Ids,
         Typed'
  PROVE  RowFacts(op'[p], rows'[op'[p].id])
<1>. USE DEF At, RowFacts, KindOfStep, Creates, Changes, Edits, NewSteps, HoldingOld, HoldingNew,
             RolledBack, Ended
<1>0. Busy(p)
  BY DEF Busy, Updating, RawRead, TokenList, TokenNext, ReadOld, ReadFiles, WriteYaml,
         ExecUpdate, Reread, UndoYaml, ReadKey, WriteKey
<1>1. /\ op[p] \in Operation /\ KindOfStep(op[p]) /\ Shape(op[p])
      /\ op[p].id \in Ids => RowFacts(op[p], rows[op[p].id])
      /\ rows \in [Ids -> Row \cup {Nil}] /\ op \in [Procs -> Operation]
      /\ op[p].kind = "token" => TokenFacts(op[p])
  BY <1>0, AtStep DEF Typed, TypeOK
<1>2. CASE RawRead(p)
  <2>1. CASE Finish(p, "error")
    BY <1>1, <1>2, <2>1, Ends DEF Over, RawRead, SameWork
  <2>2. CASE rows[op[p].id] # Nil
             /\ op' = [op EXCEPT ![p].pc = "read", ![p].req.name = rows[op[p].id].name]
    <3>1. /\ op'[p].pc = "read" /\ op'[p].kind = op[p].kind /\ op'[p].id = op[p].id
          /\ op'[p].req.name = rows[op[p].id].name
      BY <1>1, <2>2 DEF Operation, Request
    <3>2. rows' = rows /\ op[p].pc = "raw" /\ op[p].kind = "room"
      BY <1>1, <1>2 DEF RawRead, Shape
    <3> QED
      BY <3>1, <3>2, <1>1, <2>2
  <2> QED
    BY <1>2, <2>1, <2>2 DEF RawRead
<1>3. CASE TokenList(p)
  <2>1. op'[p].pc \in {"done", "token_next"} /\ op'[p].kind = op[p].kind
        /\ op'[p].id = op[p].id
    BY <1>1, <1>3 DEF TokenList, Operation
  <2>2. op[p].kind = "token" /\ op[p].pc = "token_list"
    BY <1>1, <1>3 DEF TokenList, Shape
  <2>3. op[p].id = 0
    BY <1>1, <2>2 DEF TokenFacts
  <2> QED
    BY <2>1, <2>3 DEF Ids
<1>4. CASE TokenNext(p)
  <2>0. op[p].kind = "token" /\ rows' = rows
    BY <1>1, <1>4 DEF TokenNext, Shape
  <2>1. CASE op' = [op EXCEPT ![p].pc = "done",
                            ![p].result = IF op[p].failed = {} THEN "ok" ELSE "error"]
    <3>1. op'[p].pc = "done" /\ op'[p].kind = op[p].kind /\ op'[p].result # "rolled_back"
      BY <1>1, <2>1 DEF Operation
    <3> QED
      BY <2>0, <3>1
  <2>2. ASSUME NEW i \in op[p].todo,
               op' = [op EXCEPT ![p].pc = "read", ![p].id = i, ![p].todo = @ \ {i},
                            ![p].req.name = op[p].snap[i].name,
                            ![p].req.room = op[p].snap[i].room]
        PROVE  RowFacts(op'[p], rows'[op'[p].id])
    <3>1. /\ op'[p].pc = "read" /\ op'[p].kind = op[p].kind /\ op'[p].id = i
          /\ op'[p].req.name = op[p].snap[i].name /\ op'[p].req.room = op[p].snap[i].room
      BY <1>1, <2>2 DEF Operation, Request
    <3>2. rows[i] = op[p].snap[i] /\ op[p].snap[i] \in Row
      BY <1>1, <2>0 DEF TokenFacts, Shape
    <3> QED
      BY <2>0, <3>1, <3>2
  <2> QED
    BY <1>4, <2>1, <2>2 DEF TokenNext
<1>5. CASE ReadOld(p)
  <2>0. rows' = rows /\ op[p].pc = "read" /\ op[p].id \in Ids
    BY <1>1, <1>5 DEF ReadOld, Shape, Addressed, Steps
  <2> DEFINE row == rows[op[p].id]
  <2>1. CASE Finish(p, "error")
    BY <1>1, <2>0, <2>1, Ends DEF Over, SameWork
  <2>2. CASE /\ row # Nil /\ op[p].kind \in Edits
             /\ op' = [op EXCEPT ![p].pc = "read_files", ![p].old = row,
                                 ![p].new = UpdatedRow(op[p].req, row)]
    <3>1. /\ op'[p].pc = "read_files" /\ op'[p].kind = op[p].kind /\ op'[p].id = op[p].id
          /\ op'[p].old = row /\ op'[p].new = UpdatedRow(op[p].req, row)
          /\ op'[p].req = op[p].req
      BY <1>1, <2>2 DEF Operation
    <3>2. row \in Row /\ op'[p].new \in Row
      <4>1. Shape(op'[p])
        BY DEF Typed, HandlerInv
      <4> QED
        BY <1>1, <2>0, <2>2, <3>1, <4>1 DEF Shape
    <3>3. /\ op[p].kind = "room" =>
                UpdatedRow(op[p].req, row) = [row EXCEPT !.room = UpdatedRow(op[p].req, row).room]
          /\ op[p].kind = "token" =>
                UpdatedRow(op[p].req, row) = [row EXCEPT !.token = op[p].req.token]
      BY <1>1, <2>0, <2>2, <3>2, ReadDiffers
    <3>4. Differ(op'[p])
      BY <2>2, <3>1, <3>3 DEF Differ
    <3> QED
      BY <2>0, <2>2, <3>1, <3>2, <3>4
  <2>3. CASE /\ row # Nil /\ op[p].kind = "rotate_client"
             /\ op' = [op EXCEPT ![p].pc = "exec", ![p].old = row,
                                 ![p].new = [row EXCEPT !.cid = minted]]
    <3>1. /\ op'[p].pc = "exec" /\ op'[p].kind = op[p].kind /\ op'[p].id = op[p].id
          /\ op'[p].old = row /\ op'[p].new = [row EXCEPT !.cid = minted]
      BY <1>1, <2>3 DEF Operation
    <3>2. row \in Row /\ op'[p].new \in Row
      <4>1. Shape(op'[p])
        BY DEF Typed, HandlerInv
      <4> QED
        BY <1>1, <2>0, <2>3, <3>1, <4>1 DEF Shape
    <3>3. row.cid \in Nat /\ [row EXCEPT !.cid = minted].cid = minted
      BY <3>2 DEF Row
    <3>4. op'[p].kind = "rotate_client" /\ op'[p].new = [row EXCEPT !.cid = op'[p].new.cid]
      BY <2>3, <3>1, <3>3
    <3>5. Differ(op'[p])
      BY <3>1, <3>4 DEF Differ
    <3> QED
      BY <2>0, <2>3, <3>1, <3>2, <3>5
  <2> QED
    BY <1>5, <2>1, <2>2, <2>3 DEF ReadOld
<1>6. CASE ReadFiles(p)
  <2>0. rows' = rows /\ op[p].pc = "read_files" /\ op[p].id \in Ids /\ op[p].kind \in Edits
    BY <1>1, <1>6 DEF ReadFiles, Shape, Addressed, Steps
  <2>1. CASE Finish(p, "error")
    BY <1>1, <2>0, <2>1, Ends DEF Over, SameWork
  <2>2. CASE op' = [op EXCEPT ![p].pc = "write_yaml", ![p].oldYaml = yaml[op[p].id]]
    <3>1. /\ op'[p].pc = "write_yaml" /\ op'[p].kind = op[p].kind /\ op'[p].id = op[p].id
          /\ op'[p].old = op[p].old /\ op'[p].new = op[p].new /\ op'[p].req = op[p].req
      BY <1>1, <2>2 DEF Operation
    <3>2. Differ(op[p]) => Differ(op'[p])
      BY <3>1 DEF Differ
    <3> QED
      BY <1>1, <2>0, <3>1, <3>2
  <2> QED
    BY <1>6, <2>1, <2>2 DEF ReadFiles
<1>7. CASE ReadKey(p)
  <2>0. rows' = rows /\ op[p].pc = "read_key" /\ op[p].id \in Ids /\ op[p].kind = "rotate_key"
    BY <1>1, <1>7 DEF ReadKey, Shape, Addressed, Steps
  <2>1. CASE Finish(p, "error")
    BY <1>1, <2>0, <2>1, Ends DEF Over, SameWork
  <2>2. CASE op' = [op EXCEPT ![p].pc = "write_key", ![p].oldKey = key[op[p].id]]
    <3>1. op'[p].pc = "write_key" /\ op'[p].kind = op[p].kind
      BY <1>1, <2>2 DEF Operation
    <3> QED
      BY <2>0, <3>1
  <2> QED
    BY <1>7, <2>1, <2>2 DEF ReadKey
<1>8. CASE WriteYaml(p) \/ ExecUpdate(p) \/ Reread(p) \/ UndoYaml(p) \/ WriteKey(p)
  <2>0. op[p].id \in Ids
    BY <1>1, <1>8 DEF WriteYaml, ExecUpdate, Reread, UndoYaml, WriteKey, Shape, Addressed, Steps
  <2>1. SameWork(op[p], op'[p]) => (Differ(op[p]) => Differ(op'[p]))
    BY DEF SameWork, Differ
  <2>2. CASE WriteYaml(p)
    <3>1. rows' = rows /\ op[p].pc = "write_yaml" /\ (Go(p, "exec") \/ Finish(p, "error"))
      BY <2>2 DEF WriteYaml
    <3> QED
      BY <1>1, <2>0, <2>1, <3>1, GoesOn, Ends DEF Over, SameWork
  <2>3. CASE ExecUpdate(p)
    <3>1. CASE rows' = [rows EXCEPT ![op[p].id] = op[p].new] /\ Go(p, "reread")
      BY <1>1, <2>0, <2>1, <2>3, <3>1, GoesOn DEF SameWork, ExecUpdate
    <3>2. CASE rows' = rows /\ (Finish(p, "error") \/ Go(p, "undo_yaml"))
      BY <1>1, <2>0, <2>1, <2>3, <3>2, GoesOn, Ends DEF SameWork, ExecUpdate, Over
    <3> QED
      BY <2>3, <3>1, <3>2 DEF ExecUpdate
  <2>4. CASE Reread(p)
    <3>1. rows' = rows /\ op[p].pc = "reread"
      BY <2>4 DEF Reread
    <3>2. op[p].kind \in Changes /\ rows[op[p].id] = op[p].new /\ op[p].new \in Row
      BY <1>1, <2>0, <3>1 DEF Shape
    <3>a. CASE Finish(p, "error")
      BY <1>1, <2>0, <3>1, <3>2, <3>a, Ends DEF SameWork, Over
    <3>b. CASE op[p].cancelled /\ Go(p, "undo_yaml")
      <4>1. /\ op'[p].pc = "undo_yaml" /\ op'[p].id = op[p].id /\ op'[p].cancelled
            /\ op'[p].new = op[p].new /\ op'[p].old = op[p].old /\ op'[p].kind = op[p].kind
            /\ Differ(op[p]) => Differ(op'[p])
        BY <2>1, <3>b, GoesOn DEF SameWork
      <4> QED
        BY <1>1, <2>0, <3>1, <3>2, <4>1
    <3>4. CASE Go(p, "status")
      BY <1>1, <2>0, <2>1, <3>1, <3>2, <3>4, GoesOn DEF SameWork
    <3> QED
      BY <2>4, <3>2, <3>a, <3>b, <3>4, NilAssumption DEF Reread
  <2>5. CASE UndoYaml(p)
    BY <1>1, <2>0, <2>5, Ends DEF UndoYaml, Over, SameWork
  <2>6. CASE WriteKey(p)
    <3>1. op[p].kind = "rotate_key" /\ (Go(p, "status") \/ Finish(p, "error"))
      BY <1>1, <2>6 DEF WriteKey, Shape
    <3> QED
      BY <3>1, GoesOn, Ends DEF SameWork, Over
  <2> QED
    BY <1>8, <2>2, <2>3, <2>4, <2>5, <2>6
<1> QED
  BY <1>2, <1>3, <1>4, <1>5, <1>6, <1>7, <1>8 DEF Updating

(* The name a rollback puts back is free.                                  *)
LEMMA NameFree ==
  ASSUME Typed, AloneInv, TableInv, NEW p \in Procs, op[p].pc \in {"revert_row", "back_row"}
  PROVE  ~NameTaken(op[p].old.name, op[p].id)
<1>0. Busy(p)
  BY DEF Busy
<1>1. /\ KindOfStep(op[p]) /\ Shape(op[p]) /\ op[p].id \in Ids
      /\ RowFacts(op[p], rows[op[p].id]) /\ op[p].kind \in Changes
  BY <1>0, AtStep DEF Shape, Addressed, Steps, Changes
<1>2. CASE op[p].kind = "edit"
  <2>1. op[p].pc = "back_row"
    BY <1>1, <1>2 DEF KindOfStep
  <2> QED
    BY <1>2, <2>1 DEF TableInv, NameKept, Undoing
<1>3. CASE op[p].kind # "edit"
  <2>1. /\ op[p].old \in Row /\ op[p].new \in Row /\ Differ(op[p])
        /\ rows[op[p].id] = op[p].new
    BY <1>1 DEF RowFacts, HoldingNew
  <2>2. op[p].kind \in {"room", "token", "rotate_client"}
    BY <1>1, <1>3 DEF Changes, Edits
  <2>3. op[p].old.name = rows[op[p].id].name
    BY <2>1, <2>2 DEF Differ, Row
  <2>4. op[p].id \in Existing
    BY <1>1, <2>1, NilAssumption DEF Existing
  <2> QED
    BY <2>3, <2>4 DEF NameTaken, TableInv, UniqueNames
<1> QED
  BY <1>2, <1>3

(* A rollback writes the old row unless the client has gone.               *)
LEMMA RollbackWrites ==
  ASSUME Typed, AloneInv, TableInv, NEW p \in Procs, op[p].pc \in {"revert_row", "back_row"},
         rows' = RolledBackRows(p)
  PROVE  rows'[op[p].id] = IF op[p].cancelled THEN op[p].new ELSE op[p].old
<1>0. Busy(p)
  BY DEF Busy
<1>1. /\ Shape(op[p]) /\ op[p].id \in Ids /\ op[p].kind \in Changes
      /\ RowFacts(op[p], rows[op[p].id]) /\ rows \in [Ids -> Row \cup {Nil}]
  BY <1>0, AtStep DEF Shape, Addressed, Steps, Changes
<1>2. rows[op[p].id] = op[p].new /\ op[p].new # Nil
  BY <1>1, NilAssumption DEF RowFacts, HoldingNew
<1>3. CanUpdate(p, op[p].old) <=> ~op[p].cancelled
  BY <1>2, NameFree DEF CanUpdate
<1> QED
  BY <1>1, <1>2, <1>3 DEF RolledBackRows

(* Restarting the unit, and taking a change back.                          *)
LEMMA ApplyingRow ==
  ASSUME Typed, AloneInv, TableInv, NEW p \in Procs, Applying(p)
  PROVE  RowFacts(op'[p], rows'[op'[p].id])
<1>. USE DEF At, RowFacts, KindOfStep, Creates, Changes, Edits, NewSteps, HoldingOld, HoldingNew,
             RolledBack, Ended
<1>0. Busy(p)
  BY DEF Busy, Applying, ReadStatus, Launch, WaitActive, RevertRow, BackRow, BackYaml, BackKey,
         BackLaunch, Decorate
<1>1. /\ op[p] \in Operation /\ KindOfStep(op[p]) /\ Shape(op[p])
      /\ op[p].id \in Ids => RowFacts(op[p], rows[op[p].id])
      /\ rows \in [Ids -> Row \cup {Nil}] /\ op \in [Procs -> Operation]
  BY <1>0, AtStep DEF Typed, TypeOK
<1>2. op[p].id \in Ids
  BY <1>1 DEF Applying, ReadStatus, Launch, WaitActive, RevertRow, BackRow, BackYaml, BackKey,
         BackLaunch, Decorate, Shape, Addressed, Steps
<1>3. RowFacts(op[p], rows[op[p].id])
  BY <1>1, <1>2
<1>4. SameWork(op[p], op'[p]) => (Differ(op[p]) => Differ(op'[p]))
  BY DEF SameWork, Differ
<1>5. CASE ReadStatus(p)
  <2>1. rows' = rows /\ op[p].pc = "status"
    BY <1>5 DEF ReadStatus
  <2>2. \/ Finish(p, "ok") \/ (op[p].kind = "rotate_client" /\ Go(p, "revert_row"))
        \/ Go(p, "launch") \/ (op[p].kind \in Edits /\ Go(p, "decorate"))
    BY <1>5, Outcome DEF ReadStatus
  <2>3. CASE Finish(p, "ok")
    BY <2>1, <2>3, Ends DEF Over
  <2>4. CASE op[p].kind = "rotate_client" /\ Go(p, "revert_row")
    BY <1>3, <1>4, <2>1, <2>4, GoesOn DEF SameWork
  <2>5. CASE Go(p, "launch")
    BY <1>1, <1>3, <1>4, <2>1, <2>5, GoesOn DEF SameWork
  <2>6. CASE op[p].kind \in Edits /\ Go(p, "decorate")
    BY <1>3, <1>4, <2>1, <2>6, GoesOn DEF SameWork
  <2> QED
    BY <2>2, <2>3, <2>4, <2>5, <2>6
<1>6. CASE Launch(p) \/ WaitActive(p)
  <2>1. rows' = rows /\ op[p].pc \in {"launch", "wait"}
    BY <1>6 DEF Launch, WaitActive
  <2>2. Go(p, "wait") \/ GiveUp(p) \/ Succeed(p)
    BY <1>6 DEF Launch, WaitActive
  <2>3. CASE Finish(p, "ok") \/ Finish(p, "error")
    BY <2>1, <2>3, Ends DEF Over
  <2>4. CASE Go(p, "wait")
    BY <1>1, <1>3, <1>4, <2>1, <2>4, GoesOn DEF SameWork
  <2>5. CASE op[p].kind \in Edits /\ Go(p, "decorate")
    BY <1>3, <1>4, <2>1, <2>5, GoesOn DEF SameWork
  <2>6. CASE Go(p, "back_key")
    BY <1>3, <1>4, <2>1, <2>6, GoesOn DEF SameWork
  <2>7. CASE op[p].kind \notin {"start", "restart", "rotate_key"} /\ Go(p, "back_row")
    BY <1>1, <1>3, <1>4, <2>1, <2>7, GoesOn DEF SameWork, Shape
  <2> QED
    BY <2>2, <2>3, <2>4, <2>5, <2>6, <2>7, Outcome
<1>7. CASE RevertRow(p)
  <2>1. rows'[op[p].id] = IF op[p].cancelled THEN op[p].new ELSE op[p].old
    BY <1>7, RollbackWrites DEF RevertRow
  <2>2. op[p].pc = "revert_row" /\ Finish(p, "rolled_back")
    BY <1>7 DEF RevertRow
  <2>3. op[p].kind = "rotate_client" /\ op[p].old \in Row /\ op[p].new \in Row
    BY <1>1, <1>3, <2>2
  <2> QED
    BY <2>1, <2>2, <2>3, Ends DEF Over, SameWork
<1>8. CASE BackRow(p)
  <2>1. rows'[op[p].id] = IF op[p].cancelled THEN op[p].new ELSE op[p].old
    BY <1>8, RollbackWrites DEF BackRow
  <2>2. Go(p, "back_launch") \/ Go(p, "back_yaml")
    BY <1>8 DEF BackRow
  <2>3. op[p].pc = "back_row" /\ op[p].kind \in Changes /\ op[p].old \in Row /\ op[p].new \in Row
    BY <1>1, <1>3, <1>8 DEF BackRow, Shape
  <2> QED
    BY <2>1, <2>2, <2>3, GoesOn DEF SameWork
<1>9. CASE BackYaml(p) \/ BackKey(p)
  <2>1. rows' = rows /\ Go(p, "back_launch") /\ op[p].pc \in {"back_yaml", "back_key"}
    BY <1>9 DEF BackYaml, BackKey
  <2>2. op[p].pc = "back_key" => op[p].kind = "rotate_key"
    BY <1>1
  <2> QED
    BY <1>3, <2>1, <2>2, GoesOn DEF SameWork
<1>10. CASE BackLaunch(p)
  <2>1. rows' = rows /\ Finish(p, "rolled_back") /\ op[p].pc = "back_launch"
    BY <1>10 DEF BackLaunch
  <2> QED
    BY <1>3, <2>1, Ends DEF SameWork, Over
<1>11. CASE Decorate(p)
  <2>1. rows' = rows /\ (Finish(p, "ok") \/ Finish(p, "error"))
    BY <1>11 DEF Decorate
  <2> QED
    BY <2>1, Ends DEF Over
<1> QED
  BY <1>5, <1>6, <1>7, <1>8, <1>9, <1>10, <1>11 DEF Applying

(* Start, Restart, Stop and Delete.                                        *)
LEMMA RemovingRow ==
  ASSUME Typed, AloneInv, TableInv, NEW p \in Procs, Removing(p)
  PROVE  RowFacts(op'[p], rows'[op'[p].id])
<1>. USE DEF At, RowFacts, KindOfStep, Creates, Changes, Edits, NewSteps, HoldingOld, HoldingNew,
             RolledBack, Ended
<1>0. Busy(p)
  BY DEF Busy, Removing, CheckRow, StopUnit, RemoveFiles, RemoveRow
<1>1. /\ op[p] \in Operation /\ KindOfStep(op[p]) /\ Shape(op[p])
      /\ op[p].id \in Ids => RowFacts(op[p], rows[op[p].id])
      /\ rows \in [Ids -> Row \cup {Nil}]
  BY <1>0, AtStep
<1>2. op[p].id \in Ids
  BY <1>1 DEF Removing, CheckRow, StopUnit, RemoveFiles, RemoveRow, Shape, Addressed, Steps
<1>3. CASE Finish(p, "ok") \/ Finish(p, "error")
  BY <1>3, Ends DEF Over
<1>4. CASE CheckRow(p) /\ ~Finish(p, "error")
  <2>1. /\ rows' = rows /\ op[p].pc = "check" /\ rows[op[p].id] \in Row
        /\ \/ op[p].kind \in {"start", "restart"} /\ Go(p, "launch")
           \/ op[p].kind \notin {"start", "restart"} /\ Go(p, "stop")
    BY <1>1, <1>2, <1>4 DEF CheckRow
  <2>2. op[p].kind \in {"start", "restart", "stop", "delete"}
    BY <1>1, <2>1 DEF Shape
  <2> QED
    BY <2>1, <2>2, GoesOn DEF SameWork
<1>5. CASE (StopUnit(p) \/ RemoveFiles(p)) /\ ~Finish(p, "ok") /\ ~Finish(p, "error")
  <2>1. /\ rows' = rows /\ op[p].pc \in {"stop", "remove_files"}
        /\ Go(p, "remove_files") \/ Go(p, "remove_row")
    BY <1>5 DEF StopUnit, RemoveFiles
  <2>2. op[p].kind \in {"stop", "delete"} /\ rows[op[p].id] \in Row
    BY <1>1, <1>2, <2>1
  <2> QED
    BY <2>1, <2>2, GoesOn DEF SameWork
<1> QED
  BY <1>3, <1>4, <1>5 DEF Removing, RemoveRow

(* Whatever a handler does, the row of its instance is where it should be. *)
LEMMA HandlerRow ==
  ASSUME Typed, Typed', AloneInv, AloneInv', KeptApart, KeptApart', TableInv, NEW p \in Procs,
         Begin(p) \/ Cancel(p) \/ Handle(p)
  PROVE  RowInv'
<1>0. Place(p) /\ RowInv
  BY HandlerStep DEF AloneInv, TableInv
<1>1. ASSUME (Busy(p))', op'[p].id \in Ids PROVE RowFacts(op'[p], rows'[op'[p].id])
  <2>1. CASE Begin(p)
    <3>1. op'[p].pc = FirstStep(op'[p].kind) /\ op'[p].kind \in AllKinds
          /\ op'[p].result = "none"
      BY <2>1, Arrival DEF Arrives
    <3>2. op'[p].pc = "read" => op'[p].kind \notin {"room", "token"}
      BY <3>1 DEF FirstStep
    <3>3. op'[p].pc \in {"count", "dup_read", "raw", "token_list", "read", "read_key", "check"}
      BY <3>1 DEF FirstStep
    <3> QED
      BY <3>1, <3>2, <3>3 DEF RowFacts, NewSteps, HoldingOld, HoldingNew, RolledBack, Ended
  <2>2. CASE Cancel(p)
    <3>1. /\ op[p].pc # "idle" /\ op'[p].pc = op[p].pc
          /\ op'[p].kind = op[p].kind /\ op'[p].id = op[p].id /\ op'[p].req = op[p].req
          /\ op'[p].old = op[p].old /\ op'[p].new = op[p].new
          /\ op'[p].result = op[p].result /\ op'[p].cancelled
      BY <2>2, Departure DEF AloneInv
    <3>2. rows' = rows
      BY <2>2 DEF Cancel
    <3>3. RowFacts(op[p], rows[op[p].id])
      BY <1>0, <1>1, <3>1 DEF RowInv, Busy
    <3>4. Differ(op[p]) => Differ(op'[p])
      BY <3>1 DEF Differ
    <3> QED
      BY <3>1, <3>2, <3>3, <3>4 DEF RowFacts, RolledBack, Ended
  <2>3. CASE Respond(p)
    BY <1>1, <2>3, Response DEF Busy, IdleOp
  <2> QED
    BY <1>1, <2>1, <2>2, <2>3, CreatingRow, UpdatingRow, ApplyingRow, RemovingRow DEF Handle
<1> QED
  BY <1>0, <1>1, RowFrame

-----------------------------------------------------------------------------
(* Names.                                                                  *)

(* What a step of a handler may do to a row: leave it, remove it, or write *)
(* one whose name is free; only the operations that deal with names give   *)
(* an instance another name.                                               *)
Written(p, i) ==
  \/ rows'[i] = rows[i] \/ rows'[i] = Nil
  \/ /\ i = op'[p].id /\ op[p].pc # "idle"
     /\ ~NameTaken(rows'[i].name, i)
     /\ op[p].kind \notin Naming =>
          rows[i] # Nil /\ rows'[i].name = rows[i].name

LEMMA HandlerWrites ==
  ASSUME Typed, AloneInv, KeptApart, KeptApart', TableInv, NEW p \in Procs,
         Begin(p) \/ Cancel(p) \/ Handle(p), NEW i \in Ids
  PROVE  Written(p, i)
<1>. USE DEF At
<1>0. Place(p) /\ rows \in [Ids -> Row \cup {Nil}] /\ op \in [Procs -> Operation]
  BY HandlerStep DEF AloneInv, Typed, TypeOK
<1>1. CASE i # op'[p].id
  BY <1>0, <1>1 DEF Place, Written
<1>2. CASE i = op'[p].id
  <2>1. CASE InsertRow(p)
    <3>1. CASE rows' = rows
      BY <3>1 DEF Written
    <3>2. CASE /\ ~NameTaken(op[p].req.name, 0)
               /\ rows' = [rows EXCEPT ![nextId] = NewRow(op[p].req, NewClientId(p))]
               /\ op' = [op EXCEPT ![p].pc = "insert_reread", ![p].id = nextId,
                                   ![p].new = NewRow(op[p].req, NewClientId(p))]
      <4>1. op'[p].id = nextId
        BY <1>0, <3>2 DEF Operation
      <4>2. rows'[i].name = op[p].req.name
        BY <1>0, <1>2, <3>2, <4>1 DEF NewRow
      <4>3. ~NameTaken(op[p].req.name, i)
        BY <3>2 DEF NameTaken, Existing, Ids
      <4>4. op[p].kind \in Naming
        BY <2>1 DEF InsertRow, AloneInv, KindInv, KindOfStep, Creates, Naming
      <4> QED
        BY <1>2, <2>1, <4>2, <4>3, <4>4 DEF Written, InsertRow
    <3> QED
      BY <2>1, <3>1, <3>2 DEF InsertRow
  <2>2. CASE ExecUpdate(p)
    <3>1. CASE rows' = rows
      BY <3>1 DEF Written
    <3>2. CASE CanUpdate(p, op[p].new) /\ rows' = [rows EXCEPT ![op[p].id] = op[p].new]
               /\ Go(p, "reread")
      <4>1. op'[p].id = op[p].id /\ rows'[i] = op[p].new /\ rows[i] # Nil
        BY <1>0, <1>2, <3>2, GoesOn DEF SameWork, CanUpdate
      <4>2. ~NameTaken(rows'[i].name, i)
        BY <1>2, <3>2, <4>1 DEF CanUpdate
      <4>3. op[p].kind \notin Naming => rows'[i].name = rows[i].name
        <5>1. Busy(p) /\ op[p].pc = "exec"
          BY <2>2 DEF ExecUpdate, Busy
        <5>2. /\ RowFacts(op[p], rows[i]) /\ op[p].kind \in Edits \cup {"rotate_client"}
          BY <1>2, <4>1, <5>1, AtStep DEF Shape
        <5> QED
          BY <4>1, <5>1, <5>2 DEF RowFacts, Differ, HoldingOld, Changes, Edits, Naming, Row
      <4> QED
        BY <1>2, <2>2, <4>1, <4>2, <4>3 DEF Written, ExecUpdate
    <3> QED
      BY <2>2, <3>1, <3>2 DEF ExecUpdate
  <2>3. CASE RevertRow(p) \/ BackRow(p)
    <3>1. op'[p].id = op[p].id
      BY <2>3, GoesOn, Ends DEF RevertRow, BackRow, Over, SameWork
    <3>2. CASE rows' = rows
      BY <3>2 DEF Written
    <3>3. CASE CanUpdate(p, op[p].old) /\ rows' = [rows EXCEPT ![op[p].id] = op[p].old]
      <4>1. rows'[i] = op[p].old /\ rows[i] # Nil /\ ~NameTaken(rows'[i].name, i)
        BY <1>0, <1>2, <3>1, <3>3 DEF CanUpdate
      <4>2. op[p].kind \notin Naming => rows'[i].name = rows[i].name
        <5>1. Busy(p) /\ op[p].pc \in {"revert_row", "back_row"}
          BY <2>3 DEF RevertRow, BackRow, Busy
        <5>2. /\ RowFacts(op[p], rows[i]) /\ op[p].kind \in Edits \cup {"rotate_client"}
          BY <1>2, <3>1, <5>1, AtStep DEF Shape
        <5> QED
          BY <4>1, <5>1, <5>2 DEF RowFacts, Differ, HoldingNew, Changes, Edits, Naming, Row
      <4> QED
        BY <1>2, <2>3, <4>1, <4>2 DEF Written, RevertRow, BackRow
    <3> QED
      BY <2>3, <3>2, <3>3 DEF RevertRow, BackRow, RolledBackRows
  <2>4. CASE UndoRow(p) \/ RemoveRow(p)
    BY <1>0, <2>4 DEF UndoRow, RemoveRow, Written
  <2>5. CASE rows' = rows
    BY <2>5 DEF Written
  <2> QED
    BY <2>1, <2>2, <2>3, <2>4, <2>5
    DEF Handle, Creating, Updating, Applying, Removing, Begin, Cancel, Respond, DupRead,
        CountInstances, InsertReread, WriteNewKey, WriteNewYaml, UndoFiles, RawRead, TokenList,
        TokenNext, ReadOld, ReadFiles, WriteYaml, Reread, UndoYaml, ReadKey, WriteKey,
        ReadStatus, Launch, WaitActive, BackYaml, BackKey, BackLaunch, Decorate, CheckRow,
        StopUnit, RemoveFiles
<1> QED
  BY <1>1, <1>2

(* Names stay unique.                                                      *)
LEMMA HandlerUnique ==
  ASSUME Typed, AloneInv, KeptApart, KeptApart', TableInv, NEW p \in Procs,
         Begin(p) \/ Cancel(p) \/ Handle(p)
  PROVE  UniqueNames'
<1>0. /\ UniqueNames /\ \A i \in Ids : Written(p, i)
  BY HandlerWrites DEF TableInv
<1>1. ASSUME NEW i \in Ids, NEW j \in Ids, i # j, rows'[i] # Nil, rows'[j] # Nil,
             rows'[i].name = rows'[j].name
      PROVE  FALSE
  <2>1. CASE rows'[i] = rows[i] /\ rows'[j] = rows[j]
    BY <1>0, <1>1, <2>1 DEF UniqueNames, Existing
  <2>2. CASE rows'[i] # rows[i]
    <3>1. i = op'[p].id /\ ~NameTaken(rows'[i].name, i)
      BY <1>0, <1>1, <2>2 DEF Written
    <3>2. rows'[j] = rows[j]
      BY <1>0, <1>1, <3>1 DEF Written
    <3> QED
      BY <1>1, <3>1, <3>2 DEF NameTaken, Existing
  <2>3. CASE rows'[j] # rows[j]
    <3>1. j = op'[p].id /\ ~NameTaken(rows'[j].name, j)
      BY <1>0, <1>1, <2>3 DEF Written
    <3>2. rows'[i] = rows[i]
      BY <1>0, <1>1, <3>1 DEF Written
    <3> QED
      BY <1>1, <3>1, <3>2 DEF NameTaken, Existing
  <2> QED
    BY <2>1, <2>2, <2>3
<1> QED
  BY <1>1 DEF UniqueNames, Existing, Ids

(* A handler that has an old name to put back has had it for a while, or   *)
(* has just written the row that replaces it.                              *)
LEMMA UndoingFrom ==
  ASSUME Typed, Typed', AloneInv, KeptApart, KeptApart', TableInv, NEW p \in Procs,
         Begin(p) \/ Cancel(p) \/ Handle(p), op'[p].kind = "edit", op'[p].pc \in Undoing
  PROVE  /\ op[p].pc \in Undoing \cup {"exec"} /\ op[p].kind = "edit"
         /\ op'[p].id = op[p].id /\ op'[p].old = op[p].old
<1>. USE DEF At, Undoing
<1>0. op \in [Procs -> Operation] /\ op[p] \in Operation
  BY DEF Typed, TypeOK
<1>1. CASE Begin(p) \/ Respond(p)
  <2>1. Begin(p) => op'[p].pc = FirstStep(op'[p].kind)
    BY Arrival DEF Arrives
  <2>2. Respond(p) => op'[p].pc = "idle"
    BY Response DEF IdleOp
  <2> QED
    BY <1>1, <2>1, <2>2 DEF FirstStep
<1>2. CASE Cancel(p)
  BY <1>2, Departure DEF AloneInv
<1>3. CASE Creating(p)
  <2>1. op[p].kind \in Creates \/ ~Handle(p)
    BY <1>3 DEF Creating, DupRead, CountInstances, InsertRow, InsertReread, WriteNewKey,
       WriteNewYaml, UndoRow, UndoFiles, AloneInv, KindInv, KindOfStep, NewSteps, Creates, Handle
  <2>2. op'[p].kind = op[p].kind
    BY <1>3, CreatingCourse DEF Course, AloneInv
  <2> QED
    BY <1>3, <2>1, <2>2 DEF Creates, Handle
<1>4. CASE Updating(p)
  <2>0. op'[p].kind = op[p].kind
    BY <1>4, UpdatingCourse DEF Course, AloneInv
  <2>1. CASE ExecUpdate(p) \/ Reread(p)
    <3>1. PICK s \in {"reread", "undo_yaml", "status"} : Go(p, s) \/ Finish(p, "error")
      BY <2>1 DEF ExecUpdate, Reread
    <3> QED
      BY <2>0, <2>1, <3>1, GoesOn, Ends DEF SameWork, Over, ExecUpdate, Reread
  <2>2. CASE WriteYaml(p) \/ UndoYaml(p)
    <3>1. Go(p, "exec") \/ Finish(p, "error")
      BY <2>2 DEF WriteYaml, UndoYaml
    <3> QED
      BY <3>1, GoesOn, Ends DEF Over
  <2>3. CASE WriteKey(p)
    <3>1. op[p].kind = "rotate_key"
      BY <2>3 DEF WriteKey, Typed, HandlerInv, Shape
    <3> QED
      BY <2>0, <3>1
  <2>4. CASE RawRead(p) \/ TokenList(p) \/ TokenNext(p) \/ ReadOld(p) \/ ReadFiles(p) \/ ReadKey(p)
    <3>1. CASE Finish(p, "error")
      BY <3>1, Ends DEF Over
    <3>2. CASE ~Finish(p, "error")
      <4>1. CASE RawRead(p)
        BY <1>0, <3>2, <4>1 DEF RawRead, Operation
      <4>2. CASE TokenList(p)
        BY <1>0, <3>2, <4>2 DEF TokenList, Operation
      <4>3. CASE TokenNext(p)
        <5>1. op'[p].kind = op[p].kind /\ op[p].kind = "token"
          BY <2>0, <4>3 DEF TokenNext, Typed, HandlerInv, Shape
        <5> QED
          BY <5>1
      <4>4. CASE ReadOld(p)
        <5>1. op'[p].pc \in {"read_files", "exec"}
          BY <1>0, <3>2, <4>4 DEF ReadOld, Operation
        <5> QED
          BY <5>1
      <4>5. CASE ReadFiles(p) \/ ReadKey(p)
        <5>1. op'[p].pc \in {"write_yaml", "write_key"}
          BY <1>0, <3>2, <4>5 DEF ReadFiles, ReadKey, Operation
        <5> QED
          BY <5>1
      <4> QED
        BY <2>4, <4>1, <4>2, <4>3, <4>4, <4>5
    <3> QED
      BY <3>1, <3>2
  <2> QED
    BY <1>4, <2>1, <2>2, <2>3, <2>4 DEF Updating
<1>5. CASE Applying(p)
  <2>0. op'[p].kind = op[p].kind
    BY <1>5, ApplyingCourse DEF Course, AloneInv
  <2>1. CASE ReadStatus(p) \/ Launch(p) \/ WaitActive(p)
    <3>1. op[p].pc \in {"status", "launch", "wait"}
      BY <2>1 DEF ReadStatus, Launch, WaitActive
    <3>2. PICK s \in Steps : Go(p, s) \/ Finish(p, "error") \/ Finish(p, "ok")
      BY <2>1, Outcome DEF ReadStatus, Launch, WaitActive, Steps
    <3> QED
      BY <2>0, <3>1, <3>2, GoesOn, Ends DEF SameWork, Over
  <2>2. CASE RevertRow(p) \/ BackLaunch(p) \/ Decorate(p)
    BY <2>2, Ends DEF Over, RevertRow, BackLaunch, Decorate
  <2>3. CASE BackRow(p) \/ BackYaml(p) \/ BackKey(p)
    <3>1. Go(p, "back_launch") \/ Go(p, "back_yaml")
      BY <2>3 DEF BackRow, BackYaml, BackKey
    <3> QED
      BY <3>1, GoesOn
  <2> QED
    BY <1>5, <2>1, <2>2, <2>3 DEF Applying
<1>6. CASE Removing(p)
  <2>0. op'[p].kind = op[p].kind
    BY <1>6, RemovingCourse DEF Course, AloneInv
  <2>1. op[p].kind # "edit"
    BY <1>6 DEF Removing, CheckRow, StopUnit, RemoveFiles, RemoveRow, AloneInv, KindInv,
       KindOfStep, Typed, HandlerInv, Shape
  <2> QED
    BY <2>0, <2>1
<1> QED
  BY <1>1, <1>2, <1>3, <1>4, <1>5, <1>6 DEF Handle

(* The name an edit may have to put back is not taken meanwhile.           *)
LEMMA HandlerNames ==
  ASSUME Typed, Typed', AloneInv, AloneInv', KeptApart, KeptApart', TableInv, NEW p \in Procs,
         Begin(p) \/ Cancel(p) \/ Handle(p)
  PROVE  NameKept'
<1>0. /\ Place(p) /\ NameKept /\ UniqueNames /\ \A i \in Ids : Written(p, i)
      /\ rows \in [Ids -> Row \cup {Nil}]
  BY HandlerStep, HandlerWrites DEF AloneInv, TableInv, Typed, TypeOK
<1>1. ASSUME NEW q \in Procs, op'[q].kind = "edit", op'[q].pc \in Undoing,
             NEW j \in Ids, rows'[j] # Nil, j # op'[q].id, rows'[j].name = op'[q].old.name
      PROVE  FALSE
  <2>1. CASE q # p
    <3>1. op'[q] = op[q] /\ Busy(q)
      BY <1>0, <1>1, <2>1 DEF Place, OthersWait, Undoing, Busy
    <3>2. ~(rows[j] # Nil /\ rows[j].name = op[q].old.name)
      BY <1>0, <1>1, <3>1 DEF NameKept, NameTaken, Existing
    <3>3. op[p].pc # "idle" /\ (op[p].kind \notin Naming => rows[j] # Nil /\ rows'[j].name = rows[j].name)
      BY <1>0, <1>1, <3>1, <3>2 DEF Written
    <3>4. op[p].kind \notin Naming
      BY <1>1, <2>1, <3>1, <3>3 DEF AloneInv, Apart, Busy, Naming
    <3> QED
      BY <1>1, <3>1, <3>2, <3>3, <3>4
  <2>2. CASE q = p
    <3>1. /\ op[p].pc \in Undoing \cup {"exec"} /\ op[p].kind = "edit"
          /\ op'[p].id = op[p].id /\ op'[p].old = op[p].old
      BY <1>1, <2>2, UndoingFrom
    <3>2. rows'[j] = rows[j]
      BY <1>0, <1>1, <2>2 DEF Place
    <3>3. CASE op[p].pc = "exec"
      <4>1. Busy(p) /\ op[p].id \in Ids
        BY <3>3 DEF Busy, Typed, HandlerInv, Shape, Addressed, Steps
      <4>2. rows[op[p].id] = op[p].old /\ op[p].old \in Row
        BY <3>1, <3>3, <4>1, AtStep DEF RowFacts, HoldingOld, Changes, Edits
      <4>3. op[p].id \in Existing /\ j \in Existing
        BY <1>1, <3>2, <4>1, <4>2, NilAssumption DEF Existing
      <4> QED
        BY <1>0, <1>1, <2>2, <3>1, <3>2, <4>2, <4>3 DEF UniqueNames
    <3>4. CASE op[p].pc \in Undoing
      BY <1>0, <1>1, <2>2, <3>1, <3>2, <3>4 DEF NameKept, NameTaken, Existing
    <3> QED
      BY <3>1, <3>3, <3>4
  <2> QED
    BY <2>1, <2>2
<1> QED
  BY <1>1 DEF NameKept, NameTaken, Existing, Ids, Undoing

-----------------------------------------------------------------------------
(* UpdateWBToken works alone.                                              *)
LEMMA TokenAlone ==
  ASSUME AloneInv, KeptApart, KeptApart', Typed, NEW p \in Procs, NEW q \in Procs, p # q,
         Begin(p) \/ Cancel(p) \/ Handle(p)
  PROVE  op[q].kind # "token"
<1>1. SUFFICES ASSUME op[q].kind = "token" PROVE FALSE
  OBVIOUS
<1>2. Busy(q)
  BY <1>1 DEF AloneInv, Counted, IdleOp
<1>3. CASE Begin(p)
  BY <1>1, <1>2, <1>3, Arrival DEF Arrives
<1>4. CASE Busy(p)
  BY <1>1, <1>2, <1>4 DEF AloneInv, Apart
<1>5. CASE Cancel(p) \/ Respond(p)
  BY <1>4, <1>5, Departure, Response DEF Busy, AloneInv
<1>6. CASE Creating(p) \/ Updating(p) \/ Applying(p) \/ Removing(p)
  BY <1>4, <1>6, CreatingCourse, UpdatingCourse, ApplyingCourse, RemovingCourse
  DEF Busy, AloneInv, Course
<1> QED
  BY <1>3, <1>5, <1>6 DEF Handle

(* A step within the update of one instance.                               *)
LEMMA TokenOn ==
  ASSUME Typed, NEW p \in Procs, op[p].kind = "token", TokenFacts(op[p]), Place(p),
         SameWork(op[p], op'[p]),
         ~Ended(op[p]), op'[p].pc \notin {"done", "read", "token_list"},
         op[p].failed \subseteq op'[p].failed,
         op'[p].pc \in HoldingOld \cup HoldingNew \cup {"undo_yaml"} =>
           op[p].old = op[p].snap[op[p].id],
         op'[p].pc = "decorate" =>
           op[p].new = [op[p].snap[op[p].id] EXCEPT !.token = op[p].req.token],
         op'[p].pc = "token_next" /\ op[p].id \in Ids =>
           \/ op[p].id \in op'[p].failed
           \/ rows'[op[p].id] = [op[p].snap[op[p].id] EXCEPT !.token = op[p].req.token]
  PROVE  TokenFacts(op[p])'
<1>0. op[p].todo \subseteq Ids
  BY DEF Typed, TypeOK, Operation
<1>1. /\ \A j \in Ids : j # op[p].id => rows'[j] = rows[j]
  BY DEF Place, SameWork
<1>2. \A j \in op'[p].todo : rows'[j] = op'[p].snap[j]
  BY <1>0, <1>1 DEF TokenFacts, SameWork
<1>3. \A j \in Ids : op'[p].snap[j] # Nil /\ j \notin op'[p].todo /\ (Ended(op'[p]) \/ j # op'[p].id)
        => \/ j \in op'[p].failed
           \/ rows'[j] = [op'[p].snap[j] EXCEPT !.token = op'[p].req.token]
  BY <1>1 DEF TokenFacts, SameWork, Updated, Ended
<1> QED
  BY <1>2, <1>3 DEF TokenFacts, SameWork, Updated, Ended, HoldingOld, HoldingNew, Ids

(* A client that leaves, and steps with no handler, change nothing here.   *)
LEMMA TokenSame ==
  ASSUME Typed, NEW p \in Procs, TokenFacts(op[p]), rows' = rows,
         op'[p].pc = op[p].pc, op'[p].id = op[p].id, op'[p].req = op[p].req,
         op'[p].snap = op[p].snap, op'[p].todo = op[p].todo, op'[p].failed = op[p].failed,
         op'[p].old = op[p].old, op'[p].new = op[p].new, op'[p].result = op[p].result
  PROVE  TokenFacts(op[p])'
BY DEF TokenFacts, Updated, Ended, HoldingOld, HoldingNew, Ids

(* The list, and the next instance of it.                                  *)
LEMMA TokenLoop ==
  ASSUME Typed, AloneInv, TableInv, NEW p \in Procs, op[p].kind = "token",
         TokenList(p) \/ TokenNext(p) \/ ReadOld(p)
  PROVE  TokenFacts(op[p])'
<1>. USE DEF At
<1>0. /\ op[p] \in Operation /\ op \in [Procs -> Operation] /\ TokenFacts(op[p])
      /\ Shape(op[p]) /\ rows \in [Ids -> Row \cup {Nil}]
  BY DEF TableInv, TokenInv, Typed, TypeOK, HandlerInv
<1>1. CASE TokenList(p)
  <2>0. rows' = rows /\ op[p].pc = "token_list"
    BY <1>1 DEF TokenList
  <2>1. CASE op' = [op EXCEPT ![p].pc = "done", ![p].result = "error"]
    <3>1. /\ op'[p].pc = "done" /\ op'[p].result = "error" /\ op'[p].todo = op[p].todo
          /\ op'[p].id = op[p].id /\ op'[p].snap = op[p].snap
      BY <1>0, <2>1 DEF Operation
    <3> QED
      BY <1>0, <2>0, <3>1 DEF TokenFacts, HoldingOld, HoldingNew, Ids
  <2>2. CASE op' = [op EXCEPT ![p].pc = "token_next", ![p].snap = rows, ![p].todo = Existing]
    <3>1. /\ op'[p].pc = "token_next" /\ op'[p].snap = rows /\ op'[p].todo = Existing
          /\ op'[p].id = op[p].id
      BY <1>0, <2>2 DEF Operation
    <3>2. op[p].id \notin Existing
      BY <1>0, <2>0 DEF TokenFacts, Existing, Ids
    <3> QED
      BY <1>0, <2>0, <3>1, <3>2 DEF TokenFacts, HoldingOld, HoldingNew, Existing, Ids
  <2> QED
    BY <1>1, <2>1, <2>2 DEF TokenList
<1>2. CASE TokenNext(p)
  <2>0. rows' = rows /\ op[p].pc = "token_next"
    BY <1>2 DEF TokenNext
  <2>1. CASE op[p].todo = {} /\ op' = [op EXCEPT ![p].pc = "done",
                            ![p].result = IF op[p].failed = {} THEN "ok" ELSE "error"]
    <3>1. /\ op'[p].pc = "done" /\ op'[p].snap = op[p].snap /\ op'[p].todo = op[p].todo
          /\ op'[p].id = op[p].id /\ op'[p].failed = op[p].failed /\ op'[p].req = op[p].req
          /\ op'[p].result = "ok" => op[p].failed = {}
      BY <1>0, <2>1 DEF Operation
    <3> QED
      BY <1>0, <2>0, <2>1, <3>1 DEF TokenFacts, Updated, Ended, HoldingOld, HoldingNew, Ids
  <2>2. ASSUME NEW i \in op[p].todo,
               op' = [op EXCEPT ![p].pc = "read", ![p].id = i, ![p].todo = @ \ {i},
                            ![p].req.name = op[p].snap[i].name,
                            ![p].req.room = op[p].snap[i].room]
        PROVE  TokenFacts(op[p])'
    <3>1. /\ op'[p].pc = "read" /\ op'[p].id = i /\ op'[p].todo = op[p].todo \ {i}
          /\ op'[p].snap = op[p].snap /\ op'[p].failed = op[p].failed
          /\ op'[p].req.token = op[p].req.token
      BY <1>0, <2>2 DEF Operation, Request
    <3>2. rows[i] = op[p].snap[i]
      BY <1>0 DEF TokenFacts
    <3> QED
      BY <1>0, <2>0, <3>1, <3>2 DEF TokenFacts, Updated, Ended, HoldingOld, HoldingNew, Ids
  <2> QED
    BY <1>2, <2>1, <2>2 DEF TokenNext
<1>3. CASE ReadOld(p)
  <2>0. rows' = rows /\ op[p].pc = "read" /\ op[p].id \in Ids
    BY <1>0, <1>3 DEF ReadOld, Shape, Addressed, Steps
  <2>1. CASE Finish(p, "error")
    <3>1. Place(p)
      BY <1>3, UpdatingCourse DEF Updating, AloneInv
    <3> QED
      BY <1>0, <2>0, <2>1, <3>1, Ends, TokenOn DEF Over, Ended, HoldingOld, HoldingNew
  <2>2. CASE op' = [op EXCEPT ![p].pc = "read_files", ![p].old = rows[op[p].id],
                            ![p].new = UpdatedRow(op[p].req, rows[op[p].id])]
    <3>1. /\ op'[p].pc = "read_files" /\ op'[p].id = op[p].id /\ op'[p].todo = op[p].todo
          /\ op'[p].snap = op[p].snap /\ op'[p].failed = op[p].failed
          /\ op'[p].req = op[p].req /\ op'[p].old = rows[op[p].id]
      BY <1>0, <2>2 DEF Operation
    <3> QED
      BY <1>0, <2>0, <3>1 DEF TokenFacts, Updated, Ended, HoldingOld, HoldingNew, Ids
  <2> QED
    BY <1>3, <2>1, <2>2 DEF ReadOld
<1> QED
  BY <1>1, <1>2, <1>3

(* The update of one instance, from the row read to the answer.            *)
LEMMA TokenUpdate ==
  ASSUME Typed, AloneInv, TableInv, NEW p \in Procs, op[p].kind = "token",
         Creating(p) \/ Updating(p) \/ Applying(p) \/ Removing(p)
  PROVE  TokenFacts(op[p])'
<1>. USE DEF At
<1>0. /\ op[p] \in Operation /\ op \in [Procs -> Operation] /\ TokenFacts(op[p])
      /\ Shape(op[p]) /\ rows \in [Ids -> Row \cup {Nil}] /\ KindOfStep(op[p])
      /\ op[p].kind \in Changes /\ op[p].kind \in Edits
  BY DEF TableInv, TokenInv, Typed, TypeOK, HandlerInv, AloneInv, KindInv, Changes, Edits
<1>1. Place(p)
  BY CreatingCourse, UpdatingCourse, ApplyingCourse, RemovingCourse DEF AloneInv
<1>2. ~Creating(p) /\ ~Removing(p) /\ ~RawRead(p) /\ ~ReadKey(p) /\ ~WriteKey(p)
      /\ ~RevertRow(p) /\ ~BackKey(p)
  BY <1>0 DEF Creating, DupRead, CountInstances, InsertRow, InsertReread, WriteNewKey,
     WriteNewYaml, UndoRow, UndoFiles, Removing, CheckRow, StopUnit, RemoveFiles, RemoveRow,
     RawRead, ReadKey, WriteKey, RevertRow, BackKey, KindOfStep, Shape, NewSteps, Creates
<1>3. CASE ReadFiles(p)
  <2>0. rows' = rows /\ op[p].pc = "read_files" /\ op[p].old = op[p].snap[op[p].id]
    BY <1>0, <1>3 DEF ReadFiles, TokenFacts, HoldingOld
  <2>1. CASE Finish(p, "error")
    BY <1>0, <1>1, <2>0, <2>1, Ends, TokenOn DEF Over, Ended, HoldingOld, HoldingNew
  <2>2. CASE op' = [op EXCEPT ![p].pc = "write_yaml", ![p].oldYaml = yaml[op[p].id]]
    <3>1. /\ op'[p].pc = "write_yaml" /\ op'[p].id = op[p].id /\ op'[p].todo = op[p].todo
          /\ op'[p].snap = op[p].snap /\ op'[p].failed = op[p].failed
          /\ op'[p].req = op[p].req /\ op'[p].old = op[p].old
      BY <1>0, <2>2 DEF Operation
    <3> QED
      BY <1>0, <2>0, <3>1 DEF TokenFacts, Updated, Ended, HoldingOld, HoldingNew, Ids
  <2> QED
    BY <1>3, <2>1, <2>2 DEF ReadFiles
<1>4. CASE WriteYaml(p) \/ ExecUpdate(p) \/ Reread(p) \/ UndoYaml(p)
  <2>1. /\ op[p].pc \in HoldingOld \cup HoldingNew \cup {"undo_yaml"} /\ ~Ended(op[p])
        /\ op[p].old = op[p].snap[op[p].id]
    BY <1>0, <1>4 DEF WriteYaml, ExecUpdate, Reread, UndoYaml, TokenFacts, HoldingOld,
       HoldingNew, Ended
  <2>2. PICK s \in {"exec", "reread", "undo_yaml", "status"} : Go(p, s) \/ Finish(p, "error")
    BY <1>4 DEF WriteYaml, ExecUpdate, Reread, UndoYaml
  <2>3. CASE Finish(p, "error")
    BY <1>0, <1>1, <2>1, <2>3, Ends, TokenOn DEF Over
  <2>4. CASE Go(p, s)
    BY <1>0, <1>1, <2>1, <2>4, GoesOn, TokenOn
  <2> QED
    BY <2>2, <2>3, <2>4
<1>5. CASE ReadStatus(p) \/ Launch(p) \/ WaitActive(p)
  <2>0. op[p].pc \in {"status", "launch", "wait"} /\ Busy(p) /\ op[p].id \in Ids
    BY <1>0, <1>5 DEF ReadStatus, Launch, WaitActive, Busy, Shape, Addressed, Steps
  <2>1. /\ op[p].pc \in HoldingNew /\ ~Ended(op[p])
        /\ op[p].old = op[p].snap[op[p].id]
    BY <1>0, <2>0 DEF TokenFacts, HoldingNew, Ended
  <2>2. op[p].new = [op[p].snap[op[p].id] EXCEPT !.token = op[p].req.token]
    <3>1. op[p].kind = "token" /\ op[p].kind \in Changes
      BY <1>0 DEF Changes, Edits
    <3>2. RowFacts(op[p], rows[op[p].id])
      BY <2>0, AtStep
    <3>3. Differ(op[p])
      BY <2>1, <3>1, <3>2 DEF RowFacts
    <3> QED
      BY <2>1, <3>1, <3>3 DEF Differ
  <2>3. PICK s \in {"launch", "wait", "decorate", "back_row"} : Go(p, s)
    <3>1. ReadStatus(p) => Go(p, "launch") \/ Go(p, "decorate")
      BY <1>0 DEF ReadStatus, Succeed
    <3>2. Launch(p) \/ WaitActive(p) => Go(p, "wait") \/ Go(p, "back_row") \/ Go(p, "decorate")
      BY <1>0 DEF Launch, WaitActive, Succeed, GiveUp, Recovery
    <3> QED
      BY <1>5, <3>1, <3>2
  <2> QED
    BY <1>0, <1>1, <2>1, <2>2, <2>3, GoesOn, TokenOn
<1>6. CASE BackRow(p) \/ BackYaml(p)
  <2>0. op[p].pc \in {"back_row", "back_yaml"}
    BY <1>6 DEF BackRow, BackYaml
  <2>1. PICK s \in {"back_yaml", "back_launch"} : Go(p, s)
    BY <1>6 DEF BackRow, BackYaml
  <2>2. /\ SameWork(op[p], op'[p]) /\ op'[p].pc \in {"back_yaml", "back_launch"}
        /\ op'[p].failed = op[p].failed
    BY <2>1, GoesOn
  <2> QED
    BY <1>0, <1>1, <2>0, <2>2, TokenOn DEF Ended, HoldingOld, HoldingNew
<1>7. CASE BackLaunch(p)
  BY <1>0, <1>1, <1>7, Ends, TokenOn DEF BackLaunch, Over, Ended, HoldingOld, HoldingNew
<1>8. CASE Decorate(p)
  <2>0. op[p].pc = "decorate" /\ Busy(p) /\ op[p].id \in Ids /\ rows' = rows
    BY <1>0, <1>8 DEF Decorate, Busy, Shape, Addressed, Steps
  <2>1. rows[op[p].id] = [op[p].snap[op[p].id] EXCEPT !.token = op[p].req.token]
    BY <1>0, <2>0, AtStep DEF RowFacts, TokenFacts
  <2>2. Finish(p, "ok") \/ Finish(p, "error")
    BY <1>8 DEF Decorate
  <2> QED
    BY <1>0, <1>1, <2>0, <2>1, <2>2, Ends, TokenOn DEF Over, Ended, HoldingOld, HoldingNew
<1> QED
  BY <1>2, <1>3, <1>4, <1>5, <1>6, <1>7, <1>8, TokenLoop DEF Updating, Applying

(* A step of a handler leaves UpdateWBToken its snapshot.                  *)
LEMMA HandlerToken ==
  ASSUME Typed, AloneInv, AloneInv', KeptApart, KeptApart', TableInv, NEW p \in Procs,
         Begin(p) \/ Cancel(p) \/ Handle(p)
  PROVE  TokenInv'
<1>0. Place(p) /\ op \in [Procs -> Operation]
  BY HandlerStep DEF AloneInv, Typed, TypeOK
<1>1. ASSUME op'[p].kind = "token" PROVE TokenFacts(op[p])'
  <2>1. CASE Begin(p)
    <3>1. /\ op'[p].pc = "token_list" /\ op'[p].id = 0 /\ op'[p].todo = {}
          /\ op'[p].failed = {} /\ op'[p].snap = [i \in Ids |-> Nil]
      BY <1>1, <2>1, Arrival DEF Arrives, FirstStep
    <3> QED
      BY <3>1 DEF TokenFacts, Ended, HoldingOld, HoldingNew, Ids
  <2>2. CASE Cancel(p)
    <3>1. /\ op'[p].kind = op[p].kind /\ op'[p].pc = op[p].pc /\ op'[p].id = op[p].id
          /\ op'[p].req = op[p].req /\ op'[p].snap = op[p].snap /\ op'[p].todo = op[p].todo
          /\ op'[p].failed = op[p].failed /\ op'[p].old = op[p].old
          /\ op'[p].new = op[p].new /\ op'[p].result = op[p].result
      BY <2>2, Departure DEF AloneInv
    <3>2. rows' = rows
      BY <2>2 DEF Cancel
    <3>3. TokenFacts(op[p])
      BY <1>1, <3>1 DEF TableInv, TokenInv
    <3> QED
      BY <3>1, <3>2, <3>3, TokenSame
  <2>3. CASE Respond(p)
    BY <1>1, <2>3, Response DEF IdleOp
  <2>4. CASE Creating(p) \/ Updating(p) \/ Applying(p) \/ Removing(p)
    <3>1. op[p].kind = "token"
      BY <1>1, <2>4, CreatingCourse, UpdatingCourse, ApplyingCourse, RemovingCourse
      DEF Course, AloneInv
    <3> QED
      BY <2>4, <3>1, TokenUpdate
  <2> QED
    BY <2>1, <2>2, <2>3, <2>4 DEF Handle
<1>2. ASSUME NEW q \in Procs, op'[q].kind = "token" PROVE TokenFacts(op[q])'
  <2>1. CASE q = p
    BY <1>1, <1>2, <2>1
  <2>2. CASE q # p
    BY <1>0, <1>2, <2>2, TokenAlone DEF Place, OthersWait
  <2> QED
    BY <2>1, <2>2
<1> QED
  BY <1>2 DEF TokenInv

-----------------------------------------------------------------------------
(* The table.                                                              *)

LEMMA InitTable == Init => TableInv
<1> SUFFICES ASSUME Init PROVE TableInv
  OBVIOUS
<1>1. \A p \in Procs : op[p].pc = "idle" /\ op[p].kind = "none"
  BY DEF Init, IdleOp
<1> QED
  BY <1>1 DEF Init, TableInv, RowInv, Busy, UniqueNames, NameKept, TokenInv, Existing

LEMMA StepTable ==
  ASSUME KeptApart, KeptApart', Typed, Typed', AloneInv, AloneInv', TableInv, [Next]_vars
  PROVE  TableInv'
<1>1. ASSUME NEW p \in Procs, Begin(p) \/ Cancel(p) \/ Handle(p) PROVE TableInv'
  BY <1>1, HandlerRow, HandlerUnique, HandlerNames, HandlerToken DEF TableInv
<1>2. CASE op' = op /\ rows' = rows
  <2>1. RowInv'
    BY <1>2 DEF TableInv, RowInv, Busy, RowFacts, Ids, Row, Differ, RolledBack, Ended,
       HoldingOld, HoldingNew, NewSteps, Changes, Edits
  <2>2. UniqueNames' /\ NameKept'
    BY <1>2 DEF TableInv, UniqueNames, NameKept, NameTaken, Existing, Ids, Undoing
  <2>3. TokenInv'
    BY <1>2 DEF TableInv, TokenInv, TokenFacts, Updated, Ended, HoldingOld, HoldingNew, Ids
  <2> QED
    BY <2>1, <2>2, <2>3 DEF TableInv
<1>3. CASE Crash
  <2>1. \A p \in Procs : op'[p].pc = "idle" /\ op'[p].kind = "none"
    BY <1>3 DEF Crash, IdleOp
  <2>2. UniqueNames'
    BY <1>3 DEF Crash, TableInv, UniqueNames, Existing
  <2> QED
    BY <2>1, <2>2 DEF TableInv, RowInv, Busy, NameKept, TokenInv, Undoing
<1> QED
  BY <1>1, <1>2, <1>3 DEF Next, UnitDies, UnitRestarts, Boot, BootFails, vars

(* The table is as the handlers' steps say.                                *)
LEMMA SpecTable == Spec => [](Lone /\ (KeptApart => TableInv))
<1>1. Init => TableInv
  BY InitTable
<1>2. Lone /\ Lone' /\ (KeptApart => TableInv) /\ [Next]_vars => (KeptApart => TableInv)'
  BY StepTable, StillApart DEF Lone
<1> QED
  BY <1>1, <1>2, SpecAlone, PTL DEF Spec

(* When UpdateWBToken reports no failure, every instance it was to update  *)
(* has the new token and the rest of its row is as it was.                 *)
THEOREM TokenReachesAllHolds == Spec => []TokenReachesAll
<1>1. Lone /\ (KeptApart => TableInv) => TokenReachesAll
  BY DEF TableInv, TokenInv, TokenFacts, Updated, Ended, TokenReachesAll
<1> QED
  BY <1>1, SpecTable, PTL

(* The steps of ChangeRoom that write the row write old and new row, which *)
(* differ in the room.                                                     *)
OnlyRoom(p) ==
  LET i == op[p].id IN
  op[p].kind = "room" /\ op'[p] # op[p] /\ rows[i] # Nil /\ rows'[i] # Nil
    => rows'[i] = [rows[i] EXCEPT !.room = rows'[i].room]

LEMMA StepOnlyRoom ==
  ASSUME KeptApart, KeptApart', Typed, Typed', AloneInv, TableInv, [Next]_vars, NEW p \in Procs
  PROVE  OnlyRoom(p)
<1> SUFFICES ASSUME op[p].kind = "room", op'[p] # op[p],
                    rows[op[p].id] # Nil, rows'[op[p].id] # Nil
             PROVE  rows'[op[p].id] = [rows[op[p].id] EXCEPT !.room = rows'[op[p].id].room]
  BY DEF OnlyRoom
<1> DEFINE i == op[p].id
<1>0. Busy(p)
  BY DEF AloneInv, Counted, IdleOp
<1>1. /\ op[p] \in Operation /\ i \in Ids /\ KindOfStep(op[p])
      /\ RowFacts(op[p], rows[i]) /\ rows \in [Ids -> Row \cup {Nil}] /\ Shape(op[p])
  BY <1>0, AtStep DEF KindOfStep, Operation
<1>2. CASE rows' = rows
  BY <1>1, <1>2 DEF Row
<1>3. ASSUME rows'[i] = op[p].new, op[p].pc = "exec" PROVE rows'[i] = [rows[i] EXCEPT !.room = rows'[i].room]
  BY <1>1, <1>3 DEF RowFacts, HoldingOld, Differ, Changes, Edits
<1>4. ASSUME rows'[i] = op[p].old, op[p].pc = "back_row" PROVE rows'[i] = [rows[i] EXCEPT !.room = rows'[i].room]
  <2>1. /\ op[p].new = [op[p].old EXCEPT !.room = op[p].new.room]
        /\ op[p].old \in Row /\ rows[i] = op[p].new
    BY <1>1, <1>4 DEF RowFacts, HoldingNew, Differ, Changes, Edits
  <2> QED
    BY <1>4, <2>1 DEF Row
<1>5. ASSUME Handle(p), rows' # rows PROVE rows'[i] = [rows[i] EXCEPT !.room = rows'[i].room]
  <2>1. ~InsertRow(p) /\ ~UndoRow(p) /\ ~RemoveRow(p) /\ ~RevertRow(p)
    BY <1>1 DEF KindOfStep, NewSteps, Creates, InsertRow, UndoRow, RemoveRow, RevertRow, At
  <2>2. ExecUpdate(p) \/ BackRow(p)
    BY <1>5, <2>1
    DEF Handle, Creating, Updating, Applying, Removing, Respond, DupRead,
        CountInstances, InsertReread, WriteNewKey, WriteNewYaml, UndoFiles, RawRead, TokenList,
        TokenNext, ReadOld, ReadFiles, WriteYaml, Reread, UndoYaml, ReadKey, WriteKey,
        ReadStatus, Launch, WaitActive, BackYaml, BackKey, BackLaunch, Decorate, CheckRow,
        StopUnit, RemoveFiles
  <2> QED
    BY <1>1, <1>3, <1>4, <1>5, <2>2 DEF ExecUpdate, BackRow, RolledBackRows, At
<1>6. ASSUME NEW q \in Procs, Begin(q) \/ Cancel(q) \/ Handle(q)
      PROVE  rows'[i] = [rows[i] EXCEPT !.room = rows'[i].room]
  <2>1. q = p
    BY <1>6, HandlerStep DEF Place, OthersWait, AloneInv
  <2> QED
    BY <1>2, <1>5, <1>6, <2>1 DEF Begin, Cancel
<1> QED
  BY <1>2, <1>6 DEF Next, UnitDies, UnitRestarts, Crash, Boot, BootFails, vars

(* ChangeRoom changes the room of an instance and nothing else of its row, *)
(* also when it takes the change back.                                     *)
THEOREM RoomChangeOnlyRoomHolds == Spec => RoomChangeOnlyRoom
<1>1. Lone /\ Lone' /\ (KeptApart => TableInv) /\ [Next]_vars =>
        [\A p \in Procs :
           LET i == op[p].id IN
           KeptApart' /\ op[p].kind = "room" /\ op'[p] # op[p] /\ rows[i] # Nil /\ rows'[i] # Nil
             => rows'[i] = [rows[i] EXCEPT !.room = rows'[i].room]]_vars
  <2> SUFFICES ASSUME Lone, Lone', KeptApart => TableInv, [Next]_vars, NEW p \in Procs, KeptApart'
               PROVE  OnlyRoom(p)
    BY DEF OnlyRoom
  <2> QED
    BY StepOnlyRoom, StillApart DEF Lone
<1> QED
  BY <1>1, SpecTable, PTL DEF Spec, RoomChangeOnlyRoom

-----------------------------------------------------------------------------
(* The faults that are left.                                               *)

Budgets ==
  /\ left.crashes <= MaxCrashes /\ left.cancels <= MaxCancels
  /\ left.disk <= MaxDisk /\ left.ctl <= MaxCtl
  /\ ~up => left.crashes < MaxCrashes
  /\ \A p \in Procs : op[p].cancelled => left.cancels < MaxCancels

(* No file operation has failed and no client has disconnected.            *)
Calm == left.disk = MaxDisk /\ left.cancels = MaxCancels

(* No fault has occurred yet.                                              *)
LEMMA InitBudgets == Init => Budgets
<1>1. Init => \A p \in Procs : op[p].cancelled = FALSE
  BY DEF Init, IdleOp
<1> QED
  BY <1>1, BoundAssumption DEF Init, Budgets, Limits

(* Whether a client has disconnected can be seen from the budget.          *)
LEMMA StepBudgets ==
  ASSUME KeptApart, KeptApart', Typed, Typed', AloneInv, Budgets, [Next]_vars
  PROVE  Budgets'
<1>0. /\ left \in Budget /\ left' \in Budget /\ Cheaper /\ MaxCancels \in Nat
      /\ MaxCrashes \in Nat /\ MaxDisk \in Nat /\ MaxCtl \in Nat
  BY Spending, BoundAssumption DEF Typed, TypeOK
<1>1. /\ left'.crashes <= MaxCrashes /\ left'.cancels <= MaxCancels
      /\ left'.disk <= MaxDisk /\ left'.ctl <= MaxCtl
  BY <1>0 DEF Budgets, Cheaper, Budget
<1>2. ~up' => left'.crashes < MaxCrashes
  <2>1. CASE Crash
    BY <1>0, <2>1 DEF Crash, Budgets, Budget
  <2>2. CASE ~Crash /\ ~up'
    <3>1. ~up
      <4>1. ASSUME NEW p \in Procs, Begin(p) \/ Cancel(p) \/ Handle(p) PROVE up'
        BY <4>1, HandlerStep DEF Place, AloneInv
      <4> QED
        BY <2>2, <4>1 DEF Next, UnitDies, UnitRestarts, Boot, BootFails, vars
    <3> QED
      BY <1>0, <3>1 DEF Budgets, Cheaper, Budget
  <2> QED
    BY <2>1, <2>2
<1>3. ASSUME NEW q \in Procs, op'[q].cancelled PROVE left'.cancels < MaxCancels
  <2>1. CASE op[q].cancelled
    BY <1>0, <2>1 DEF Budgets, Cheaper, Budget
  <2>2. CASE ~op[q].cancelled
    <3>1. Cancel(q)
      <4>1. ASSUME NEW p \in Procs, Begin(p) \/ Cancel(p) \/ Handle(p) PROVE Cancel(q)
        <5>1. p = q
          BY <1>3, <2>2, <4>1, HandlerStep DEF Place, OthersWait, AloneInv
        <5>2. ~Begin(q) /\ ~Respond(q)
          <6>1. Begin(q) => op'[q].cancelled = FALSE
            BY Arrival DEF Arrives
          <6>2. Respond(q) => op'[q].cancelled = FALSE
            BY Response DEF IdleOp
          <6> QED
            BY <1>3, <6>1, <6>2
        <5> QED
          BY <1>3, <2>2, <4>1, <5>1, <5>2, CreatingCourse, UpdatingCourse, ApplyingCourse,
             RemovingCourse DEF Handle, Course, AloneInv
      <4>2. ~Crash
        BY <1>3 DEF Crash, IdleOp
      <4> QED
        BY <1>3, <2>2, <4>1, <4>2 DEF Next, UnitDies, UnitRestarts, Boot, BootFails, vars
    <3> QED
      BY <1>0, <3>1 DEF Cancel, Budgets, Budget
  <2> QED
    BY <2>1, <2>2
<1> QED
  BY <1>1, <1>2, <1>3 DEF Budgets

(* While it is calm no file operation fails and every context is alive.    *)
LEMMA CalmStep ==
  ASSUME Typed, Typed', Budgets, Budgets', [Next]_vars, Calm'
  PROVE  Calm /\ ~DiskFault /\ \A p \in Procs : ~op[p].cancelled /\ ~op'[p].cancelled
<1>0. /\ left \in Budget /\ left' \in Budget /\ MaxDisk \in Nat /\ MaxCancels \in Nat
  BY BoundAssumption DEF Typed, TypeOK
<1>1. left.disk >= left'.disk /\ left.cancels >= left'.cancels
  BY <1>0, Spending DEF Cheaper, Budget
<1>2. left.disk = MaxDisk /\ left.cancels = MaxCancels
  BY <1>0, <1>1 DEF Calm, Budgets, Budget
<1>3. ~DiskFault
  BY <1>0, <1>2, FaultCost DEF Calm, Budget
<1>4. \A p \in Procs : ~op[p].cancelled /\ ~op'[p].cancelled
  BY <1>0, <1>2 DEF Calm, Budgets, Budget
<1> QED
  BY <1>2, <1>3, <1>4 DEF Calm

-----------------------------------------------------------------------------
(* The files of a handler's instance, as a function of its step.           *)

(* Steps between which config.yaml and the row do not agree.               *)
Dirty(o) ==
  \/ o.pc \in {"insert_reread", "new_key", "new_yaml", "back_yaml", "remove_row"}
  \/ o.pc \in {"exec", "undo_yaml"} /\ o.kind \in Edits

HasOldFile == {"write_yaml", "exec", "undo_yaml", "reread", "status", "launch", "wait",
               "back_row", "back_yaml", "back_launch"}

FileFacts(o, r, y, k) ==
  /\ o.pc \notin {"undo_row", "undo_files"}
  /\ o.kind \in Edits /\ o.pc \in {"exec", "undo_yaml"} => y = Render(o.new)
  /\ o.kind \in Edits /\ (o.pc \in HasOldFile \/ RolledBack(o)) => o.oldYaml = Render(o.old)
  /\ o.kind = "rotate_key" /\ (o.pc = "back_launch" \/ RolledBack(o)) => k = o.oldKey
  /\ ~Dirty(o) /\ r # Nil => y = Render(r)

FileInv ==
  Calm =>
    /\ \A p \in Procs : Busy(p) /\ op[p].id \in Ids =>
         FileFacts(op[p], rows[op[p].id], yaml[op[p].id], key[op[p].id])
    /\ up => \A i \in Existing :
         (\E p \in Procs : Busy(p) /\ op[p].id = i) \/ yaml[i] = Render(rows[i])

(* What a handler knows while it is calm.                                  *)
FilesAt(p) ==
  op[p].id \in Ids => FileFacts(op[p], rows[op[p].id], yaml[op[p].id], key[op[p].id])

(* Create and Duplicate: the file is written after the row, and no step of *)
(* the clean-up is ever reached.                                           *)
LEMMA CreatingFiles ==
  ASSUME Typed, AloneInv, TableInv, NEW p \in Procs, Creating(p), ~DiskFault,
         ~op[p].cancelled, FilesAt(p)
  PROVE  FilesAt(p)'
<1>. USE DEF At, Dirty
<1>0. Busy(p)
  BY DEF Busy, Creating, DupRead, CountInstances, InsertRow, InsertReread, WriteNewKey,
         WriteNewYaml, UndoRow, UndoFiles
<1>1. /\ op[p] \in Operation /\ KindOfStep(op[p]) /\ Shape(op[p])
      /\ op[p].id \in Ids => RowFacts(op[p], rows[op[p].id])
      /\ rows \in [Ids -> Row \cup {Nil}] /\ op \in [Procs -> Operation]
      /\ yaml \in [Ids -> FileState]
  BY <1>0, AtStep DEF Typed, TypeOK
<1>2. op[p].kind \in Creates /\ op'[p].kind = op[p].kind
  <2>1. op[p].pc \in NewSteps \cup {"dup_read", "count", "insert", "undo_files"}
    BY DEF Creating, DupRead, CountInstances, InsertRow, InsertReread, WriteNewKey,
       WriteNewYaml, UndoRow, UndoFiles, NewSteps
  <2> QED
    BY <1>1, <2>1, CreatingCourse DEF KindOfStep, Creates, Course, AloneInv
<1>3. SUFFICES ASSUME op'[p].id \in Ids
      PROVE  /\ op'[p].pc \notin {"undo_row", "undo_files"}
             /\ ~Dirty(op'[p]) /\ rows'[op'[p].id] # Nil =>
                  yaml'[op'[p].id] = Render(rows'[op'[p].id])
  BY <1>2 DEF FilesAt, FileFacts, Creates, Edits
<1>4. op[p].id \in Ids =>
        /\ op[p].pc \notin {"undo_row", "undo_files"}
        /\ ~Dirty(op[p]) /\ rows[op[p].id] # Nil => yaml[op[p].id] = Render(rows[op[p].id])
  BY DEF FilesAt, FileFacts
<1>5. CASE DupRead(p)
  <2>1. /\ op'[p].pc \in {"done", "token_next", "count"} /\ op'[p].id = op[p].id
        /\ rows' = rows /\ yaml' = yaml /\ op[p].pc = "dup_read"
    BY <1>1, <1>5 DEF DupRead, Finish, Operation
  <2> QED
    BY <1>2, <1>3, <1>4, <2>1 DEF Creates, Edits
<1>6. CASE CountInstances(p)
  <2>1. /\ op'[p].pc \in {"done", "token_next", "insert"} /\ op'[p].id = op[p].id
        /\ rows' = rows /\ yaml' = yaml /\ op[p].pc = "count"
    BY <1>1, <1>6 DEF CountInstances, Finish, Go, Operation
  <2> QED
    BY <1>2, <1>3, <1>4, <2>1 DEF Creates, Edits
<1>7. CASE InsertRow(p)
  <2>1. CASE Finish(p, "error") /\ rows' = rows
    <3>1. /\ op'[p].pc \in {"done", "token_next"} /\ op'[p].id = op[p].id
          /\ yaml' = yaml /\ op[p].pc = "insert"
      BY <1>1, <1>7, <2>1 DEF InsertRow, Finish, Operation
    <3> QED
      BY <1>2, <1>3, <1>4, <2>1, <3>1 DEF Creates, Edits
  <2>2. CASE op' = [op EXCEPT ![p].pc = "insert_reread", ![p].id = nextId,
                              ![p].new = NewRow(op[p].req, NewClientId(p))]
    <3>1. op'[p].pc = "insert_reread"
      BY <1>1, <2>2 DEF Operation
    <3> QED
      BY <3>1
  <2> QED
    BY <1>7, <2>1, <2>2 DEF InsertRow
<1>8. CASE InsertReread(p)
  <2>1. op[p].id \in Ids /\ rows[op[p].id] # Nil
    BY <1>1, <1>8, NilAssumption DEF InsertReread, Shape, Addressed, Steps, RowFacts, NewSteps
  <2> QED
    BY <1>8, <2>1, GoesOn DEF InsertReread
<1>9. CASE WriteNewKey(p)
  BY <1>9, GoesOn DEF WriteNewKey
<1>10. CASE WriteNewYaml(p)
  <2>1. op[p].id \in Ids /\ rows[op[p].id] = op[p].new
    BY <1>1, <1>10 DEF WriteNewYaml, Shape, Addressed, Steps, RowFacts, NewSteps
  <2>2. /\ yaml' = [yaml EXCEPT ![op[p].id] = Render(op[p].new)] /\ Go(p, "decorate")
        /\ rows' = rows
    BY <1>10 DEF WriteNewYaml
  <2> QED
    BY <1>1, <2>1, <2>2, GoesOn DEF SameWork
<1>11. CASE UndoRow(p) \/ UndoFiles(p)
  BY <1>1, <1>4, <1>11 DEF UndoRow, UndoFiles, Shape, Addressed, Steps
<1> QED
  BY <1>5, <1>6, <1>7, <1>8, <1>9, <1>10, <1>11 DEF Creating

(* Start, Restart, Stop and Delete: the row goes right after the file.     *)
LEMMA RemovingFiles ==
  ASSUME Typed, AloneInv, TableInv, NEW p \in Procs, Removing(p), ~DiskFault,
         ~op[p].cancelled, FilesAt(p)
  PROVE  FilesAt(p)'
<1>. USE DEF At, Dirty
<1>0. Busy(p)
  BY DEF Busy, Removing, CheckRow, StopUnit, RemoveFiles, RemoveRow
<1>1. /\ op[p] \in Operation /\ KindOfStep(op[p]) /\ Shape(op[p])
      /\ op[p].id \in Ids => RowFacts(op[p], rows[op[p].id])
      /\ rows \in [Ids -> Row \cup {Nil}] /\ op \in [Procs -> Operation]
      /\ yaml \in [Ids -> FileState]
  BY <1>0, AtStep DEF Typed, TypeOK
<1>2. /\ op[p].id \in Ids /\ op[p].kind \in {"start", "restart", "stop", "delete"}
      /\ RowFacts(op[p], rows[op[p].id])
      /\ FileFacts(op[p], rows[op[p].id], yaml[op[p].id], key[op[p].id])
  BY <1>1 DEF Removing, CheckRow, StopUnit, RemoveFiles, RemoveRow, Shape, Addressed, Steps,
     KindOfStep, FilesAt
<1>3. CASE CheckRow(p) \/ StopUnit(p)
  <2>1. /\ Finish(p, "ok") \/ Finish(p, "error")
           \/ \E s \in {"launch", "stop", "remove_files"} : Go(p, s)
        /\ rows' = rows /\ yaml' = yaml /\ ~Dirty(op[p])
    BY <1>2, <1>3 DEF CheckRow, StopUnit, Edits
  <2>2. /\ op'[p].kind = op[p].kind /\ op'[p].id = op[p].id
        /\ op'[p].pc \in {"done", "token_next", "launch", "stop", "remove_files"}
    BY <2>1, GoesOn, Ends DEF SameWork, Over
  <2> QED
    BY <1>2, <2>1, <2>2 DEF FilesAt, FileFacts, Edits
<1>4. CASE RemoveFiles(p)
  <2>1. Go(p, "remove_row")
    BY <1>4 DEF RemoveFiles
  <2> QED
    BY <1>2, <2>1, GoesOn DEF SameWork, FilesAt, FileFacts, Edits
<1>5. CASE RemoveRow(p)
  <2>1. rows[op[p].id] # Nil
    BY <1>2, <1>5, NilAssumption DEF RemoveRow, RowFacts
  <2>2. rows' = [rows EXCEPT ![op[p].id] = Nil] /\ Finish(p, "ok")
    BY <1>5, <2>1 DEF RemoveRow
  <2>3. rows'[op'[p].id] = Nil /\ op'[p].pc \in {"done", "token_next"} /\ op'[p].kind = op[p].kind
    BY <1>1, <1>2, <2>2, Ends DEF Over, SameWork
  <2> QED
    BY <1>2, <2>3 DEF FilesAt, FileFacts, Edits
<1> QED
  BY <1>3, <1>4, <1>5 DEF Removing

(* The old configuration is never mistaken for a file that was not there.  *)
LEMMA RestoredRender ==
  ASSUME NEW row \in Row
  PROVE  Restored(Render(row)) = Render(row)
<1>1. Render(row) \in Yaml
  BY DEF Render, Row, Yaml
<1> QED
  BY <1>1, NilAssumption DEF Restored

(* Update, ChangeRoom, UpdateWBToken and RotateKey.  Before the UPDATE     *)
(* config.yaml is already the new one; a refused UPDATE brings it back.    *)
LEMMA UpdatingFiles ==
  ASSUME Typed, AloneInv, TableInv, NEW p \in Procs, Updating(p), ~DiskFault,
         ~op[p].cancelled, FilesAt(p),
         op[p].kind = "token" =>
           \A i \in op[p].todo : i \in Ids /\ rows[i] # Nil => yaml[i] = Render(rows[i])
  PROVE  FilesAt(p)'
<1>. USE DEF At, Dirty, Edits, RolledBack, Ended, HasOldFile
<1>0. Busy(p)
  BY DEF Busy, Updating, RawRead, TokenList, TokenNext, ReadOld, ReadFiles,
     WriteYaml, ExecUpdate, Reread, UndoYaml, ReadKey, WriteKey
<1>1. /\ op[p] \in Operation /\ KindOfStep(op[p]) /\ Shape(op[p])
      /\ op[p].id \in Ids => RowFacts(op[p], rows[op[p].id])
      /\ rows \in [Ids -> Row \cup {Nil}] /\ op \in [Procs -> Operation]
      /\ yaml \in [Ids -> FileState] /\ key \in [Ids -> Nat]
  BY <1>0, AtStep DEF Typed, TypeOK
<1>2. SUFFICES ASSUME op'[p].id \in Ids
      PROVE  FileFacts(op'[p], rows'[op'[p].id], yaml'[op'[p].id], key'[op'[p].id])
  BY DEF FilesAt
<1>3. op[p].id \in Ids => FileFacts(op[p], rows[op[p].id], yaml[op[p].id], key[op[p].id])
  BY DEF FilesAt
<1>4. CASE RawRead(p) \/ ReadKey(p)
  <2>1. /\ op'[p].id = op[p].id /\ op'[p].kind = op[p].kind
        /\ op'[p].pc \in {"done", "token_next", "read", "write_key"}
        /\ op'[p].pc \in {"done", "token_next"} => op'[p].result = "error"
        /\ rows' = rows /\ yaml' = yaml /\ op[p].pc \in {"raw", "read_key"}
    BY <1>1, <1>4 DEF RawRead, ReadKey, Finish, Operation
  <2> QED
    BY <1>2, <1>3, <2>1 DEF FileFacts
<1>5. CASE TokenList(p)
  <2>1. op'[p].id = op[p].id /\ op[p].kind = "token" /\ op[p].pc = "token_list"
    BY <1>1, <1>5 DEF TokenList, Operation, Shape
  <2>2. op[p].id = 0
    BY <1>0, <2>1, AtStep DEF TokenFacts
  <2> QED
    BY <1>2, <2>1, <2>2 DEF Ids
<1>6. CASE TokenNext(p)
  <2>0. /\ op[p].pc = "token_next" /\ rows' = rows /\ yaml' = yaml /\ op[p].kind = "token"
    BY <1>1, <1>6 DEF TokenNext, Shape
  <2>1. CASE op' = [op EXCEPT ![p].pc = "done",
                            ![p].result = IF op[p].failed = {} THEN "ok" ELSE "error"]
    <3>1. /\ op'[p].id = op[p].id /\ op'[p].kind = op[p].kind /\ op'[p].pc = "done"
          /\ op'[p].result # "rolled_back"
      BY <1>1, <2>1 DEF Operation
    <3> QED
      BY <1>2, <1>3, <2>0, <3>1 DEF FileFacts
  <2>2. ASSUME NEW i \in op[p].todo,
               op' = [op EXCEPT ![p].pc = "read", ![p].id = i, ![p].todo = @ \ {i},
                            ![p].req.name = op[p].snap[i].name,
                            ![p].req.room = op[p].snap[i].room]
        PROVE  FileFacts(op'[p], rows'[op'[p].id], yaml'[op'[p].id], key'[op'[p].id])
    <3>1. op'[p].id = i /\ op'[p].kind = op[p].kind /\ op'[p].pc = "read"
      BY <1>1, <2>2 DEF Operation
    <3> QED
      BY <1>2, <2>0, <3>1 DEF FileFacts
  <2> QED
    BY <1>6, <2>1, <2>2 DEF TokenNext
<1>7. CASE ReadOld(p)
  <2>1. /\ op'[p].id = op[p].id /\ op'[p].kind = op[p].kind
        /\ op'[p].pc \in {"done", "token_next", "read_files", "exec"}
        /\ op'[p].pc = "exec" => op[p].kind = "rotate_client"
        /\ op'[p].pc \in {"done", "token_next"} => op'[p].result = "error"
        /\ rows' = rows /\ yaml' = yaml /\ op[p].pc = "read"
    BY <1>1, <1>7 DEF ReadOld, Finish, Operation
  <2>2. op[p].kind \in Changes
    BY <1>1, <2>1 DEF Shape, Changes
  <2> QED
    BY <1>2, <1>3, <2>1, <2>2 DEF FileFacts, Changes
<1>8. CASE ReadFiles(p)
  <2>0. /\ op[p].pc = "read_files" /\ rows' = rows /\ yaml' = yaml
        /\ op[p].kind \in Edits /\ op[p].id \in Ids
    BY <1>1, <1>8 DEF ReadFiles, Shape, Addressed, Steps
  <2>1. rows[op[p].id] = op[p].old /\ op[p].old \in Row
    BY <1>1, <2>0 DEF RowFacts, HoldingOld, Changes
  <2>2. yaml[op[p].id] = Render(op[p].old)
    BY <1>3, <2>0, <2>1, NilAssumption DEF FileFacts
  <2>3. CASE Finish(p, "error")
    BY <1>2, <1>3, <2>0, <2>3, Ends DEF Over, SameWork, FileFacts
  <2>4. CASE op' = [op EXCEPT ![p].pc = "write_yaml", ![p].oldYaml = yaml[op[p].id]]
    <3>1. /\ op'[p].id = op[p].id /\ op'[p].kind = op[p].kind /\ op'[p].pc = "write_yaml"
          /\ op'[p].oldYaml = yaml[op[p].id] /\ op'[p].old = op[p].old
      BY <1>1, <2>4 DEF Operation
    <3> QED
      BY <1>2, <2>0, <2>1, <2>2, <3>1 DEF FileFacts
  <2> QED
    BY <1>8, <2>3, <2>4 DEF ReadFiles
<1>9. CASE WriteYaml(p)
  <2>1. /\ op[p].pc = "write_yaml" /\ rows' = rows /\ Go(p, "exec")
        /\ op[p].kind \in Edits /\ op[p].id \in Ids
        /\ yaml' = [yaml EXCEPT ![op[p].id] = Render(op[p].new)]
    BY <1>1, <1>9 DEF WriteYaml, Shape, Addressed, Steps
  <2> QED
    BY <1>1, <1>2, <1>3, <2>1, GoesOn DEF SameWork, FileFacts
<1>10. CASE ExecUpdate(p)
  <2>0. /\ op[p].pc = "exec" /\ yaml' = yaml /\ op[p].id \in Ids
        /\ op[p].kind \in Edits \cup {"rotate_client"} /\ op[p].new \in Row
        /\ op[p].old \in Row /\ rows[op[p].id] = op[p].old /\ Differ(op[p])
    BY <1>1, <1>10 DEF ExecUpdate, Shape, Addressed, Steps, RowFacts, HoldingOld, Changes
  <2>1. yaml[op[p].id] = Render(op[p].new)
    <3>1. CASE op[p].kind \in Edits
      BY <1>3, <2>0, <3>1 DEF FileFacts
    <3>2. CASE op[p].kind = "rotate_client"
      <4>1. Render(op[p].old) = Render(op[p].new)
        BY <2>0, <3>2 DEF Differ, Render, Row
      <4> QED
        BY <1>3, <2>0, <3>2, <4>1, NilAssumption DEF FileFacts
    <3> QED
      BY <2>0, <3>1, <3>2
  <2>2. CASE rows' = [rows EXCEPT ![op[p].id] = op[p].new] /\ Go(p, "reread")
    BY <1>1, <1>2, <1>3, <2>0, <2>1, <2>2, GoesOn DEF SameWork, FileFacts
  <2>3. CASE op[p].kind \in Edits /\ rows' = rows /\ Go(p, "undo_yaml")
    BY <1>1, <1>2, <1>3, <2>0, <2>1, <2>3, GoesOn DEF SameWork, FileFacts
  <2>4. CASE op[p].kind \notin Edits /\ rows' = rows /\ Finish(p, "error")
    BY <1>1, <1>2, <1>3, <2>0, <2>4, Ends DEF SameWork, Over, FileFacts
  <2> QED
    BY <1>10, <2>2, <2>3, <2>4 DEF ExecUpdate
<1>11. CASE Reread(p)
  <2>0. /\ op[p].pc = "reread" /\ yaml' = yaml /\ rows' = rows /\ op[p].id \in Ids
        /\ op[p].kind \in Edits \cup {"rotate_client"} /\ op[p].new \in Row
        /\ rows[op[p].id] = op[p].new
    BY <1>1, <1>11 DEF Reread, Shape, Addressed, Steps, RowFacts, HoldingNew, Changes
  <2>1. Go(p, "status")
    BY <1>11, <2>0, NilAssumption DEF Reread
  <2> QED
    BY <1>2, <1>3, <2>0, <2>1, GoesOn DEF SameWork, FileFacts
<1>12. CASE UndoYaml(p)
  <2>0. /\ op[p].pc = "undo_yaml" /\ rows' = rows /\ op[p].id \in Ids
        /\ op[p].kind \in Edits /\ op[p].old \in Row /\ rows[op[p].id] = op[p].old
    BY <1>1, <1>12 DEF UndoYaml, Shape, Addressed, Steps, RowFacts
  <2>1. Restored(op[p].oldYaml) = Render(op[p].old)
    BY <1>3, <2>0, RestoredRender DEF FileFacts
  <2>2. yaml' = [yaml EXCEPT ![op[p].id] = Render(op[p].old)] /\ Finish(p, "error")
    BY <1>12, <2>1 DEF UndoYaml
  <2> QED
    BY <1>1, <1>2, <2>0, <2>2, Ends DEF SameWork, Over, FileFacts
<1>13. CASE WriteKey(p)
  <2>0. /\ op[p].pc = "write_key" /\ rows' = rows /\ yaml' = yaml
        /\ op[p].kind = "rotate_key" /\ Go(p, "status") /\ op[p].id \in Ids
    BY <1>1, <1>13 DEF WriteKey, Shape, Addressed, Steps
  <2> QED
    BY <1>2, <1>3, <2>0, GoesOn DEF SameWork, FileFacts
<1> QED
  BY <1>4, <1>5, <1>6, <1>7, <1>8, <1>9, <1>10, <1>11, <1>12, <1>13 DEF Updating

(* Restarting the unit, and taking a change back: the old file follows the *)
(* old row.                                                                *)
LEMMA ApplyingFiles ==
  ASSUME Typed, AloneInv, TableInv, NEW p \in Procs, Applying(p), ~DiskFault,
         ~op[p].cancelled, FilesAt(p)
  PROVE  FilesAt(p)'
<1>. USE DEF At, Dirty, Edits, RolledBack, Ended, HasOldFile
<1>0. Busy(p)
  BY DEF Busy, Applying, ReadStatus, Launch, WaitActive, RevertRow, BackRow, BackYaml, BackKey,
         BackLaunch, Decorate
<1>1. /\ op[p] \in Operation /\ KindOfStep(op[p]) /\ Shape(op[p])
      /\ op[p].id \in Ids => RowFacts(op[p], rows[op[p].id])
      /\ rows \in [Ids -> Row \cup {Nil}] /\ op \in [Procs -> Operation]
      /\ yaml \in [Ids -> FileState] /\ key \in [Ids -> Nat]
  BY <1>0, AtStep DEF Typed, TypeOK
<1>2. op[p].id \in Ids
  BY <1>1 DEF Applying, ReadStatus, Launch, WaitActive, RevertRow, BackRow, BackYaml, BackKey,
         BackLaunch, Decorate, Shape, Addressed, Steps
<1>3. /\ RowFacts(op[p], rows[op[p].id])
      /\ FileFacts(op[p], rows[op[p].id], yaml[op[p].id], key[op[p].id])
  BY <1>1, <1>2 DEF FilesAt
<1>4. SUFFICES FileFacts(op'[p], rows'[op'[p].id], yaml'[op'[p].id], key'[op'[p].id])
  BY DEF FilesAt
<1>5. CASE ReadStatus(p) \/ Launch(p) \/ WaitActive(p)
  <2>1. /\ rows' = rows /\ yaml' = yaml /\ key' = key
        /\ op[p].pc \in {"status", "launch", "wait"}
    BY <1>5 DEF ReadStatus, Launch, WaitActive
  <2>2. PICK s \in {"revert_row", "launch", "wait", "decorate", "back_key", "back_row"} :
          Go(p, s) \/ Finish(p, "ok") \/ Finish(p, "error")
    BY <1>5, Outcome DEF ReadStatus, Launch, WaitActive
  <2>3. CASE Go(p, s)
    <3>1. /\ op'[p].id = op[p].id /\ op'[p].kind = op[p].kind /\ op'[p].pc = s
          /\ op'[p].oldYaml = op[p].oldYaml /\ op'[p].old = op[p].old
      BY <2>3, GoesOn DEF SameWork
    <3> QED
      BY <1>3, <2>1, <3>1 DEF FileFacts
  <2>4. CASE Finish(p, "ok") \/ Finish(p, "error")
    <3>1. /\ op'[p].id = op[p].id /\ op'[p].kind = op[p].kind
          /\ op'[p].pc \in {"done", "token_next"} /\ op'[p].result # "rolled_back"
      BY <2>4, Ends DEF Over, SameWork
    <3> QED
      BY <1>3, <2>1, <3>1 DEF FileFacts
  <2> QED
    BY <2>2, <2>3, <2>4
<1>6. CASE RevertRow(p)
  <2>1. /\ op[p].pc = "revert_row" /\ yaml' = yaml /\ Finish(p, "rolled_back")
        /\ op[p].kind = "rotate_client" /\ rows[op[p].id] = op[p].new
        /\ op[p].old \in Row /\ op[p].new \in Row /\ Differ(op[p])
    BY <1>1, <1>3, <1>6 DEF RevertRow, KindOfStep, RowFacts, HoldingNew, Changes
  <2>2. rows'[op[p].id] = op[p].old
    BY <1>6, RollbackWrites DEF RevertRow
  <2>3. Render(op[p].old) = Render(op[p].new)
    BY <2>1 DEF Differ, Render, Row
  <2>4. yaml[op[p].id] = Render(op[p].old)
    BY <1>3, <2>1, <2>3, NilAssumption DEF FileFacts
  <2> QED
    BY <2>1, <2>2, <2>4, Ends DEF Over, SameWork, FileFacts
<1>7. CASE BackRow(p)
  <2>1. /\ op[p].pc = "back_row" /\ yaml' = yaml /\ op[p].kind \in Changes
        /\ rows[op[p].id] = op[p].new
        /\ op[p].old \in Row /\ op[p].new \in Row /\ Differ(op[p])
    BY <1>1, <1>3, <1>7 DEF BackRow, Shape, RowFacts, HoldingNew, Changes
  <2>2. rows'[op[p].id] = op[p].old
    BY <1>7, RollbackWrites DEF BackRow
  <2>3. CASE op[p].kind = "rotate_client"
    <3>1. Render(op[p].old) = Render(op[p].new)
      BY <2>1, <2>3 DEF Differ, Render, Row
    <3>2. yaml[op[p].id] = Render(op[p].old)
      BY <1>3, <2>1, <3>1, NilAssumption DEF FileFacts
    <3>3. Go(p, "back_launch")
      BY <1>7, <2>3 DEF BackRow
    <3> QED
      BY <2>1, <2>2, <2>3, <3>2, <3>3, GoesOn DEF SameWork, FileFacts
  <2>4. CASE op[p].kind \in Edits
    <3>1. Go(p, "back_yaml")
      BY <1>7, <2>4 DEF BackRow
    <3> QED
      BY <1>3, <2>1, <2>4, <3>1, GoesOn DEF SameWork, FileFacts
  <2> QED
    BY <2>1, <2>3, <2>4 DEF Changes
<1>8. CASE BackYaml(p)
  <2>1. /\ op[p].pc = "back_yaml" /\ rows' = rows /\ Go(p, "back_launch")
        /\ op[p].kind \in Edits /\ rows[op[p].id] = op[p].old /\ op[p].old \in Row
    BY <1>1, <1>3, <1>8 DEF BackYaml, KindOfStep, RowFacts, Changes
  <2>2. op[p].oldYaml = Render(op[p].old)
    BY <1>3, <2>1 DEF FileFacts
  <2>3. yaml' = [yaml EXCEPT ![op[p].id] = Render(op[p].old)]
    BY <1>8, <2>1, <2>2, RestoredRender DEF BackYaml
  <2> QED
    BY <1>1, <1>2, <2>1, <2>2, <2>3, GoesOn DEF SameWork, FileFacts
<1>9. CASE BackKey(p)
  <2>1. /\ op[p].pc = "back_key" /\ rows' = rows /\ yaml' = yaml /\ Go(p, "back_launch")
        /\ op[p].kind = "rotate_key" /\ key' = [key EXCEPT ![op[p].id] = op[p].oldKey]
    BY <1>1, <1>9 DEF BackKey, KindOfStep
  <2> QED
    BY <1>1, <1>2, <1>3, <2>1, GoesOn DEF SameWork, FileFacts
<1>10. CASE BackLaunch(p)
  <2>1. /\ op[p].pc = "back_launch" /\ rows' = rows /\ yaml' = yaml /\ key' = key
        /\ Finish(p, "rolled_back")
    BY <1>10 DEF BackLaunch
  <2> QED
    BY <1>3, <2>1, Ends DEF Over, SameWork, FileFacts
<1>11. CASE Decorate(p)
  <2>1. /\ op[p].pc = "decorate" /\ rows' = rows /\ yaml' = yaml /\ key' = key
        /\ Finish(p, "ok") \/ Finish(p, "error")
    BY <1>11 DEF Decorate
  <2> QED
    BY <1>3, <2>1, Ends DEF Over, SameWork, FileFacts
<1> QED
  BY <1>5, <1>6, <1>7, <1>8, <1>9, <1>10, <1>11 DEF Applying

(* The instance of one handler is not the instance of another.             *)
LEMMA IdleElsewhere ==
  ASSUME AloneInv', NEW p \in Procs, NEW q \in Procs, q # p, (Busy(q))', op'[q].id \in Ids
  PROVE  op'[p].id # op'[q].id
<1>1. CASE (Busy(p))'
  BY <1>1 DEF AloneInv, Apart
<1>2. CASE ~(Busy(p))'
  <2>1. op'[p].id = 0
    BY <1>2 DEF AloneInv, Counted, IdleOp
  <2> QED
    BY <2>1 DEF Ids
<1> QED
  BY <1>1, <1>2

(* A free instance is not the instance of any handler.                     *)
LEMMA OwnOrNone ==
  ASSUME AloneInv', NEW p \in Procs, NEW i \in Ids, (Busy(p))' => op'[p].id # i
  PROVE  op'[p].id # i
<1>1. CASE ~(Busy(p))'
  <2>1. op'[p].id = 0
    BY <1>1 DEF AloneInv, Counted, IdleOp
  <2> QED
    BY <2>1 DEF Ids
<1> QED
  BY <1>1

(* Where a handler gives its instance up, its files are in order.          *)
LEMMA Leaves ==
  ASSUME Typed, AloneInv, KeptApart, KeptApart', NEW p \in Procs, Begin(p) \/ Cancel(p) \/ Handle(p),
         Busy(p), op'[p].id # op[p].id
  PROVE  op[p].pc \in {"insert", "token_next", "done"}
BY HandlerStep DEF AloneInv, Course, Arrives, Busy

(* An instance that no handler works on belongs to nobody else's step.     *)
Free(i) == \A p \in Procs : Busy(p) => op[p].id # i

(* A step of a handler, while it is calm.                                  *)
LEMMA HandlerFiles ==
  ASSUME Typed, Typed', AloneInv, AloneInv', KeptApart, KeptApart', TableInv, FileInv, Calm,
         ~DiskFault, NEW p \in Procs, ~op[p].cancelled,
         Begin(p) \/ Cancel(p) \/ Handle(p)
  PROVE  FileInv'
<1>0. Place(p) /\ up /\ up'
  BY HandlerStep DEF AloneInv, Place
<1>1. Busy(p) => FilesAt(p)
  BY DEF FileInv, FilesAt
<1>2. ASSUME NEW i \in Ids, rows[i] # Nil, Free(i)
      PROVE  yaml[i] = Render(rows[i])
  BY <1>0, <1>2 DEF FileInv, Free, Existing
<1>3. (Busy(p))' => FilesAt(p)'
  <2>1. CASE Begin(p)
    <3>1. /\ op'[p].pc = FirstStep(op'[p].kind) /\ op'[p].kind \in AllKinds
          /\ \A q \in Procs : Busy(q) => op[q].id # op'[p].id
      BY <2>1, Arrival DEF Arrives
    <3>2. rows' = rows /\ yaml' = yaml
      BY <2>1 DEF Begin
    <3>3. op'[p].pc \in {"count", "dup_read", "raw", "token_list", "read", "read_key", "check"}
      BY <3>1 DEF FirstStep
    <3>4. op'[p].id \in Ids /\ rows[op'[p].id] # Nil => yaml[op'[p].id] = Render(rows[op'[p].id])
      BY <1>2, <3>1 DEF Free
    <3> QED
      BY <3>2, <3>3, <3>4 DEF FilesAt, FileFacts, HasOldFile, RolledBack, Ended, Dirty
  <2>2. CASE Cancel(p)
    <3>1. /\ op[p].pc # "idle" /\ op'[p].pc = op[p].pc
          /\ op'[p].kind = op[p].kind /\ op'[p].id = op[p].id
          /\ op'[p].old = op[p].old /\ op'[p].new = op[p].new
          /\ op'[p].oldYaml = op[p].oldYaml /\ op'[p].oldKey = op[p].oldKey
          /\ op'[p].result = op[p].result
      BY <2>2, Departure DEF AloneInv
    <3>2. rows' = rows /\ yaml' = yaml /\ key' = key
      BY <2>2 DEF Cancel
    <3> QED
      BY <1>1, <3>1, <3>2 DEF FilesAt, FileFacts, HasOldFile, RolledBack, Ended, Dirty, Busy
  <2>3. CASE Respond(p)
    BY <2>3, Response DEF Busy, IdleOp
  <2>4. CASE Creating(p) \/ Updating(p) \/ Applying(p) \/ Removing(p)
    <3>1. Busy(p)
      BY <2>4, CreatingCourse, UpdatingCourse, ApplyingCourse, RemovingCourse
      DEF Course, Busy, AloneInv
    <3>2. ASSUME NEW i \in op[p].todo, i \in Ids, rows[i] # Nil, op[p].kind = "token"
          PROVE  yaml[i] = Render(rows[i])
      <4>1. op[p].id # i
        BY <3>1, <3>2, AtStep DEF TokenFacts
      <4>2. \A q \in Procs : q # p => ~Busy(q)
        BY <3>1, <3>2 DEF AloneInv, Apart
      <4> QED
        BY <1>2, <3>2, <4>1, <4>2 DEF Free
    <3>3. CASE Updating(p)
      BY <1>1, <3>1, <3>2, <3>3, UpdatingFiles
    <3> QED
      BY <1>1, <2>4, <3>1, <3>3, CreatingFiles, ApplyingFiles, RemovingFiles
  <2> QED
    BY <2>1, <2>2, <2>3, <2>4 DEF Handle
<1>4. ASSUME NEW q \in Procs, (Busy(q))', op'[q].id \in Ids
      PROVE  FileFacts(op'[q], rows'[op'[q].id], yaml'[op'[q].id], key'[op'[q].id])
  <2>1. CASE q = p
    BY <1>3, <1>4, <2>1 DEF FilesAt
  <2>2. CASE q # p
    <3>1. op'[q] = op[q] /\ Busy(q)
      BY <1>0, <1>4, <2>2 DEF Place, OthersWait, Busy
    <3>2. op'[p].id # op[q].id
      BY <1>0, <1>4, <2>2, <3>1, IdleElsewhere
    <3>3. /\ rows'[op[q].id] = rows[op[q].id] /\ yaml'[op[q].id] = yaml[op[q].id]
          /\ key'[op[q].id] = key[op[q].id]
      BY <1>0, <1>4, <3>1, <3>2 DEF Place
    <3>4. FileFacts(op[q], rows[op[q].id], yaml[op[q].id], key[op[q].id])
      BY <1>4, <3>1 DEF FileInv
    <3> QED
      BY <3>1, <3>3, <3>4
  <2> QED
    BY <2>1, <2>2
<1>5. ASSUME NEW i \in Ids, rows'[i] # Nil, Free(i)'
      PROVE  yaml'[i] = Render(rows'[i])
  <2>1. i # op'[p].id
    BY <1>5, OwnOrNone DEF Free
  <2>2. rows'[i] = rows[i] /\ yaml'[i] = yaml[i]
    BY <1>0, <2>1 DEF Place
  <2>3. CASE Busy(p) /\ op[p].id = i
    <3>1. op[p].pc \in {"insert", "token_next", "done"}
      BY <2>1, <2>3, Leaves
    <3> QED
      BY <1>1, <1>5, <2>2, <2>3, <3>1 DEF FilesAt, FileFacts, Dirty
  <2>4. CASE ~(Busy(p) /\ op[p].id = i)
    <3>1. Free(i)
      BY <1>0, <1>5, <2>4 DEF Free, Place, OthersWait, Busy
    <3> QED
      BY <1>2, <1>5, <2>2, <3>1
  <2> QED
    BY <2>3, <2>4
<1> QED
  BY <1>4, <1>5 DEF FileInv, Free, Existing

(* The steps that no handler takes: Boot is the one that writes files, and *)
(* it makes them all what the rows say.                                    *)
LEMMA OtherFiles ==
  ASSUME Typed, AloneInv, FileInv, Calm, ~DiskFault,
         \/ \E i \in Ids : UnitDies(i) \/ UnitRestarts(i)
         \/ Crash \/ Boot \/ BootFails \/ UNCHANGED vars
  PROVE  FileInv'
<1>1. CASE UNCHANGED <<rows, yaml, key, up, op>>
  <2>1. /\ \A p \in Procs : Busy(p) /\ op[p].id \in Ids =>
             FileFacts(op[p], rows[op[p].id], yaml[op[p].id], key[op[p].id])
        /\ up => \A i \in Existing :
             (\E p \in Procs : Busy(p) /\ op[p].id = i) \/ yaml[i] = Render(rows[i])
    BY DEF FileInv
  <2> QED
    BY <1>1, <2>1 DEF FileInv, Existing, Busy, FileFacts, Dirty, RolledBack, Ended, HasOldFile
<1>2. CASE Crash
  <2>1. ~up' /\ \A p \in Procs : op'[p].pc = "idle"
    BY <1>2 DEF Crash, IdleOp
  <2> QED
    BY <2>1 DEF FileInv, Busy
<1>3. CASE Boot
  <2>1. /\ rows' = rows /\ op' = op /\ \A p \in Procs : ~Busy(p)
        /\ \A i \in Existing : yaml'[i] = Render(rows[i])
    BY <1>3 DEF Boot, AloneInv, Counted, Reconciled, Existing
  <2> QED
    BY <2>1 DEF FileInv, Busy, Existing
<1> QED
  BY <1>1, <1>2, <1>3 DEF UnitDies, UnitRestarts, BootFails, vars

(* The empty panel has no files.                                           *)
LEMMA InitFiles == Init => FileInv
<1>1. Init => \A p \in Procs : op[p].pc = "idle"
  BY DEF Init, IdleOp
<1> QED
  BY <1>1 DEF Init, FileInv, Busy, Existing

(* FileInv is inductive when requests keep apart.                          *)
LEMMA StepFiles ==
  ASSUME KeptApart, KeptApart', Typed, Typed', AloneInv, AloneInv', TableInv, Budgets, Budgets', FileInv,
         [Next]_vars
  PROVE  FileInv'
<1>1. CASE ~Calm'
  BY <1>1 DEF FileInv
<1>2. CASE Calm'
  <2>1. Calm /\ ~DiskFault /\ \A p \in Procs : ~op[p].cancelled
    BY <1>2, CalmStep
  <2>2. ASSUME NEW p \in Procs, Begin(p) \/ Cancel(p) \/ Handle(p) PROVE FileInv'
    BY <2>1, <2>2, HandlerFiles
  <2> QED
    BY <2>1, <2>2, OtherFiles DEF Next
<1> QED
  BY <1>1, <1>2

(* The files and the rows keep together.                                   *)
Filed == TableInv /\ Budgets /\ FileInv

LEMMA SpecFiles == Spec => [](Lone /\ (KeptApart => Filed))
<1>1. Init => Budgets /\ FileInv
  BY InitBudgets, InitFiles
<1>2. (/\ Lone /\ (KeptApart => TableInv)
       /\ Lone' /\ (KeptApart => TableInv)' /\ [Next]_vars
       /\ KeptApart => Budgets /\ FileInv)
      => (KeptApart => Budgets /\ FileInv)'
  <2> SUFFICES ASSUME Lone, KeptApart => TableInv, Lone', (KeptApart => TableInv)',
                      [Next]_vars, KeptApart => Budgets /\ FileInv, KeptApart'
               PROVE  (Budgets /\ FileInv)'
    OBVIOUS
  <2>1. Typed /\ Typed' /\ Few
    BY DEF Lone
  <2>2. KeptApart
    BY <2>1, StillApart
  <2>3. AloneInv /\ AloneInv' /\ TableInv /\ Budgets /\ FileInv
    BY <2>2 DEF Lone
  <2>4. Budgets'
    BY <2>1, <2>2, <2>3, StepBudgets
  <2>5. FileInv'
    BY <2>1, <2>2, <2>3, <2>4, StepFiles
  <2> QED
    BY <2>4, <2>5
<1>3. Spec => [](Lone /\ (KeptApart => TableInv))
  BY SpecTable
<1>4. (KeptApart => TableInv) /\ (KeptApart => Budgets /\ FileInv) => (KeptApart => Filed)
  BY DEF Filed
<1> QED
  BY <1>1, <1>2, <1>3, <1>4, PTL DEF Spec

(* YamlMatchesRow of InstanceManager: when no handler is at work, every    *)
(* config.yaml is what RenderYAML makes of the row, after any sequence of  *)
(* updates, rollbacks, crashes and restarts of the panel, as long as no    *)
(* file operation failed and no client disconnected.                       *)
THEOREM YamlMatchesRowHolds == Spec => []YamlMatchesRow
<1>1. Lone /\ (KeptApart => Filed) => YamlMatchesRow
  <2> SUFFICES ASSUME Typed, FileInv, Settled, Spared({"disk", "cancels"}), NEW i \in Existing
               PROVE  yaml[i] = Render(rows[i])
    BY DEF YamlMatchesRow, Lone, Filed
  <2>1. Calm
    BY DEF Spared, Limits, Calm
  <2>2. CASE \E p \in Procs : Busy(p) /\ op[p].id = i
    <3>1. PICK p \in Procs : Busy(p) /\ op[p].id = i
      BY <2>2
    <3>2. op[p].pc = "done" /\ op[p].id \in Ids /\ rows[op[p].id] # Nil
      BY <3>1 DEF Settled, Busy, Existing
    <3>3. FileFacts(op[p], rows[op[p].id], yaml[op[p].id], key[op[p].id])
      BY <2>1, <3>1, <3>2 DEF FileInv
    <3> QED
      BY <3>1, <3>2, <3>3 DEF FileFacts, Dirty
  <2> QED
    BY <2>1, <2>2 DEF FileInv, Settled
<1> QED
  BY <1>1, SpecFiles, PTL

(* RollbackRestores of InstanceManager: an answer that says the previous   *)
(* configuration was restored is true of the row, of config.yaml and of    *)
(* key.hex, as long as no file operation failed and no client left.        *)
THEOREM RollbackRestoresHolds == Spec => []RollbackRestores
<1>1. Lone /\ (KeptApart => Filed) => RollbackRestores
  <2> SUFFICES ASSUME Typed, AloneInv, TableInv, Budgets, FileInv, Spared({"disk", "cancels"}),
                      NEW p \in Procs, op[p].pc \in {"done", "token_next"},
                      op[p].result = "rolled_back"
               PROVE  /\ op[p].kind \in Edits \cup {"rotate_client"} => rows[op[p].id] = op[p].old
                      /\ op[p].kind \in Edits => yaml[op[p].id] = op[p].oldYaml
                      /\ op[p].kind = "rotate_key" => key[op[p].id] = op[p].oldKey
    BY DEF RollbackRestores, Lone, Filed
  <2>1. Calm
    BY DEF Spared, Limits, Calm
  <2>2. ~op[p].cancelled
    BY <2>1, BoundAssumption DEF Calm, Budgets
  <2>3. Busy(p) /\ RolledBack(op[p])
    BY DEF Busy, RolledBack, Ended
  <2>4. op[p].id \in Ids /\ RowFacts(op[p], rows[op[p].id])
    BY <2>3, AtStep DEF KindOfStep
  <2>5. FileFacts(op[p], rows[op[p].id], yaml[op[p].id], key[op[p].id])
    BY <2>1, <2>3, <2>4 DEF FileInv
  <2>6. op[p].kind \in Changes => rows[op[p].id] = op[p].old /\ op[p].old \in Row
    BY <2>2, <2>3, <2>4 DEF RowFacts
  <2>7. op[p].kind \in Edits => yaml[op[p].id] = op[p].oldYaml
    BY <2>3, <2>5, <2>6, NilAssumption DEF FileFacts, Dirty, RolledBack, Ended, Changes
  <2>8. op[p].kind = "rotate_key" => key[op[p].id] = op[p].oldKey
    BY <2>3, <2>5 DEF FileFacts
  <2> QED
    BY <2>6, <2>7, <2>8 DEF Changes
<1> QED
  BY <1>1, SpecFiles, PTL

-----------------------------------------------------------------------------
(* The unit of an instance.                                                *)

(* There is no process, and systemd will not start one by itself.          *)
Still(u) == u.state \notin {"running", "starting"}

(* An id that has not been given out has no files and no process, and a    *)
(* new instance has no process before a request asks for one.              *)
NewInv ==
  /\ \A i \in Ids : i >= nextId => yaml[i] = Nil /\ key[i] = 0 /\ Still(unit[i])
  /\ \A p \in Procs : op[p].pc \in NewSteps \cup {"undo_files"} /\ op[p].id \in Ids =>
       Still(unit[op[p].id])

(* Only Create and Duplicate take a handler to the steps of a new instance.*)
LEMMA OldSteps ==
  ASSUME Typed, NEW p \in Procs, Updating(p) \/ Applying(p) \/ Removing(p)
  PROVE  op'[p].pc \notin NewSteps \cup {"undo_files"}
<1>0. op \in [Procs -> Operation] /\ op[p] \in Operation
  BY DEF Typed, TypeOK
<1>. USE DEF NewSteps
<1>1. CASE RawRead(p) \/ TokenList(p) \/ TokenNext(p) \/ ReadOld(p) \/ ReadFiles(p) \/ ReadKey(p)
  <2>1. CASE TokenNext(p)
    <3>1. ASSUME NEW i \in op[p].todo,
                 op' = [op EXCEPT ![p].pc = "read", ![p].id = i, ![p].todo = @ \ {i},
                            ![p].req.name = op[p].snap[i].name,
                            ![p].req.room = op[p].snap[i].room]
          PROVE  op'[p].pc = "read"
      BY <1>0, <3>1 DEF Operation
    <3>2. CASE op[p].todo = {} /\ op' = [op EXCEPT ![p].pc = "done",
                            ![p].result = IF op[p].failed = {} THEN "ok" ELSE "error"]
      BY <1>0, <3>2 DEF Operation
    <3> QED
      BY <2>1, <3>1, <3>2 DEF TokenNext
  <2>2. CASE RawRead(p) \/ TokenList(p)
    BY <1>0, <2>2 DEF RawRead, TokenList, Finish, Operation
  <2>3. CASE ReadOld(p)
    BY <1>0, <2>3 DEF ReadOld, Finish, Operation
  <2>4. CASE ReadFiles(p) \/ ReadKey(p)
    BY <1>0, <2>4 DEF ReadFiles, ReadKey, Finish, Operation
  <2> QED
    BY <1>1, <2>1, <2>2, <2>3, <2>4
<1>2. CASE WriteYaml(p) \/ ExecUpdate(p) \/ Reread(p) \/ UndoYaml(p) \/ WriteKey(p)
  BY <1>0, <1>2 DEF WriteYaml, ExecUpdate, Reread, UndoYaml, WriteKey, Finish, Go, Operation
<1>3. CASE Applying(p)
  <2>1. PICK s \in {"revert_row", "launch", "wait", "decorate", "back_key", "back_row",
                    "back_yaml", "back_launch"} :
          Go(p, s) \/ Finish(p, "ok") \/ Finish(p, "error") \/ Finish(p, "rolled_back")
    BY <1>3, Outcome DEF Applying, ReadStatus, Launch, WaitActive, RevertRow, BackRow, BackYaml,
       BackKey, BackLaunch, Decorate
  <2> QED
    BY <2>1, GoesOn, Ends DEF Over
<1>4. CASE Removing(p)
  <2>1. PICK s \in {"launch", "stop", "remove_files", "remove_row"} :
          Go(p, s) \/ Finish(p, "ok") \/ Finish(p, "error")
    BY <1>4 DEF Removing, CheckRow, StopUnit, RemoveFiles, RemoveRow
  <2> QED
    BY <2>1, GoesOn, Ends DEF Over
<1> QED
  BY <1>1, <1>2, <1>3, <1>4 DEF Updating

(* A step of a handler leaves a new instance without a process.            *)
LEMMA HandlerNew ==
  ASSUME Typed, Typed', AloneInv, AloneInv', KeptApart, KeptApart', NewInv, NEW p \in Procs,
         Begin(p) \/ Cancel(p) \/ Handle(p)
  PROVE  NewInv'
<1>0. /\ Place(p) /\ op \in [Procs -> Operation] /\ op[p] \in Operation
      /\ nextId \in Nat /\ nextId' \in Nat
  BY HandlerStep DEF AloneInv, Typed, TypeOK
<1>1. nextId' >= nextId /\ op'[p].id < nextId'
  <2>1. nextId' >= nextId
    BY <1>0, HandlerStep DEF AloneInv, Course
  <2>2. op'[p].id < nextId'
    <3>1. CASE (Busy(p))'
      BY <3>1 DEF AloneInv, Counted
    <3>2. CASE ~(Busy(p))'
      <4>1. op'[p].id = 0
        BY <3>2 DEF AloneInv, Counted, IdleOp
      <4> QED
        BY <1>0, <4>1 DEF Typed, TypeOK
    <3> QED
      BY <3>1, <3>2
  <2> QED
    BY <2>1, <2>2
<1>2. ASSUME NEW i \in Ids, i >= nextId'
      PROVE  yaml'[i] = Nil /\ key'[i] = 0 /\ Still(unit'[i])
  <2>1. i >= nextId /\ i # op'[p].id
    BY <1>0, <1>1, <1>2 DEF Ids, Typed, TypeOK, Operation
  <2> QED
    BY <1>0, <2>1 DEF Place, NewInv
<1>3. ASSUME op'[p].pc \in NewSteps \cup {"undo_files"}, op'[p].id \in Ids
      PROVE  Still(unit'[op'[p].id])
  <2>1. CASE Begin(p) \/ Cancel(p) \/ Respond(p)
    <3>1. CASE Begin(p)
      <4>1. op'[p].pc = FirstStep(op'[p].kind) /\ op'[p].kind \in AllKinds
        BY <3>1, Arrival DEF Arrives
      <4> QED
        BY <1>3, <4>1 DEF FirstStep, NewSteps
    <3>2. CASE Cancel(p)
      BY <1>3, <3>2, Departure DEF Cancel, AloneInv, NewInv
    <3>3. CASE Respond(p)
      BY <1>3, <3>3, Response DEF IdleOp, NewSteps
    <3> QED
      BY <2>1, <3>1, <3>2, <3>3
  <2>2. CASE Creating(p)
    <3>1. unit' = unit
      BY <2>2 DEF Creating, DupRead, CountInstances, InsertRow, InsertReread, WriteNewKey,
         WriteNewYaml, UndoRow, UndoFiles
    <3>2. CASE InsertRow(p)
      <4>1. op'[p].id = nextId
        BY <1>0, <1>3, <3>2 DEF InsertRow, Finish, Operation, NewSteps
      <4> QED
        BY <1>0, <1>3, <3>1, <4>1 DEF NewInv
    <3>3. CASE InsertReread(p) \/ WriteNewKey(p) \/ WriteNewYaml(p) \/ UndoRow(p) \/ UndoFiles(p)
      <4>1. op'[p].id = op[p].id /\ op[p].pc \in NewSteps \cup {"undo_files"}
        BY <1>0, <3>3 DEF InsertReread, WriteNewKey, WriteNewYaml, UndoRow, UndoFiles, At,
           Finish, Go, Operation, NewSteps
      <4> QED
        BY <1>3, <3>1, <4>1 DEF NewInv
    <3>4. CASE DupRead(p) \/ CountInstances(p)
      BY <1>0, <1>3, <3>4 DEF DupRead, CountInstances, Finish, Go, Operation, NewSteps
    <3> QED
      BY <2>2, <3>2, <3>3, <3>4 DEF Creating
  <2>3. CASE Updating(p) \/ Applying(p) \/ Removing(p)
    BY <1>3, <2>3, OldSteps
  <2> QED
    BY <2>1, <2>2, <2>3 DEF Handle
<1>4. ASSUME NEW q \in Procs, q # p, op'[q].pc \in NewSteps \cup {"undo_files"}, op'[q].id \in Ids
      PROVE  Still(unit'[op'[q].id])
  <2>1. op'[q] = op[q] /\ (Busy(q))'
    BY <1>0, <1>4 DEF Place, OthersWait, Busy, NewSteps
  <2>2. op'[p].id # op'[q].id
    BY <1>4, <2>1, IdleElsewhere
  <2> QED
    BY <1>0, <1>4, <2>1, <2>2 DEF Place, NewInv
<1> QED
  BY <1>2, <1>3, <1>4 DEF NewInv

(* Neither do systemd and the start of the panel.                          *)
LEMMA OtherNew ==
  ASSUME Typed, AloneInv, NewInv,
         \/ \E i \in Ids : UnitDies(i) \/ UnitRestarts(i)
         \/ Crash \/ Boot \/ BootFails \/ UNCHANGED vars
  PROVE  NewInv'
<1>0. /\ nextId \in Nat /\ yaml \in [Ids -> FileState] /\ unit \in [Ids -> Unit]
      /\ \A i \in Existing : ~(i >= nextId)
  BY DEF Typed, TypeOK, AloneInv, Counted, Existing, Ids
<1>1. ASSUME NEW i \in Ids, UnitDies(i) \/ UnitRestarts(i) PROVE NewInv'
  <2>1. ~Still(unit[i]) /\ UNCHANGED <<nextId, yaml, key, op>>
    BY <1>1 DEF UnitDies, UnitRestarts, Still
  <2>2. \A j \in Ids : j # i => unit'[j] = unit[j]
    BY <1>0, <1>1 DEF UnitDies, UnitRestarts
  <2>3. \A j \in Ids : j >= nextId => j # i
    BY <2>1 DEF NewInv
  <2>4. \A p \in Procs : op[p].pc \in NewSteps \cup {"undo_files"} /\ op[p].id \in Ids =>
          op[p].id # i
    BY <2>1 DEF NewInv
  <2> QED
    BY <2>1, <2>2, <2>3, <2>4 DEF NewInv
<1>2. CASE Crash
  <2>1. \A p \in Procs : op'[p].pc = "idle"
    BY <1>2 DEF Crash, IdleOp
  <2> QED
    BY <1>2, <2>1 DEF Crash, NewInv, NewSteps
<1>3. CASE Boot \/ BootFails
  <2>1. UNCHANGED <<nextId, key, unit, op>>
    BY <1>3 DEF Boot, BootFails
  <2>2. \A i \in Ids : i \notin Existing => yaml'[i] = yaml[i]
    BY <1>3 DEF Boot, BootFails, Reconciled, Existing
  <2> QED
    BY <1>0, <2>1, <2>2 DEF NewInv
<1>4. CASE UNCHANGED vars
  BY <1>4 DEF vars, NewInv
<1> QED
  BY <1>1, <1>2, <1>3, <1>4

(* The empty panel has no process.                                         *)
LEMMA InitNew == Init => NewInv
<1>1. Init => \A p \in Procs : op[p].pc = "idle"
  BY DEF Init, IdleOp
<1>2. Init => \A i \in Ids : yaml[i] = Nil /\ key[i] = 0 /\ Still(unit[i])
  BY DEF Init, Still, Off
<1> QED
  BY <1>1, <1>2 DEF NewInv, NewSteps

(* NewInv is inductive when requests keep apart.                           *)
LEMMA StepNew ==
  KeptApart /\ KeptApart' /\ Typed /\ Typed' /\ AloneInv /\ AloneInv' /\ NewInv /\ [Next]_vars
    => NewInv'
BY HandlerNew, OtherNew DEF Next

-----------------------------------------------------------------------------
(* What the process of an instance has read.                               *)

(* Nothing has failed but processes.                                       *)
Quiet == Calm /\ left.crashes = MaxCrashes /\ left.ctl = MaxCtl

(* While it is quiet every write, every systemctl call succeeds and the    *)
(* panel lives.                                                            *)
LEMMA QuietStep ==
  ASSUME Typed, Typed', Budgets, Budgets', [Next]_vars, Quiet'
  PROVE  /\ Quiet /\ ~DiskFault /\ ~Crash /\ up
         /\ \A p \in Procs : ~CtlFault(p) /\ ~op[p].cancelled
<1>0. /\ left \in Budget /\ left' \in Budget /\ MaxCtl \in Nat /\ MaxCrashes \in Nat
  BY BoundAssumption DEF Typed, TypeOK
<1>1. Calm /\ ~DiskFault /\ \A p \in Procs : ~op[p].cancelled
  BY CalmStep DEF Quiet
<1>2. left.crashes >= left'.crashes /\ left.ctl >= left'.ctl
  BY <1>0, Spending DEF Cheaper, Budget
<1>3. left.crashes = MaxCrashes /\ left.ctl = MaxCtl
  BY <1>0, <1>2 DEF Quiet, Budgets, Budget
<1>4. ~Crash
  BY <1>0, <1>3 DEF Crash, Quiet, Budget
<1>5. up
  BY <1>0, <1>3 DEF Budgets, Budget
<1>6. ASSUME NEW p \in Procs PROVE ~CtlFault(p)
  <2>1. left' # [left EXCEPT !.ctl = @ - 1]
    BY <1>0, <1>3 DEF Quiet, Budget
  <2> QED
    BY <1>1, <2>1 DEF CtlFault
<1> QED
  BY <1>1, <1>3, <1>4, <1>5, <1>6 DEF Quiet

(* Steps between a write and the restart that makes the process read it.   *)
KeyStale(o) == o.kind = "rotate_key" /\ o.pc \in {"status", "launch", "back_launch"}
YamlStale(o) ==
  /\ o.kind \in Edits
  /\ o.pc \in {"reread", "status", "launch", "back_yaml", "back_launch"}

(* A process has read what the row and the key file say; early is the      *)
(* process that systemd started in the middle of an update.                *)
RunFacts(o, r, k, u) ==
  /\ o.pc \in {"remove_files", "remove_row"} => Still(u)
  /\ r # Nil /\ u.state = "running" =>
       /\ u.key = k \/ KeyStale(o)
       /\ u.yaml = Render(r) \/ u.early \/ YamlStale(o)

RunAt(p) ==
  op[p].id \in Ids => RunFacts(op[p], rows[op[p].id], key[op[p].id], unit[op[p].id])

RunInv ==
  Quiet =>
    /\ \A p \in Procs : Busy(p) => RunAt(p)
    /\ \A i \in Existing : unit[i].state = "running" /\ Free(i) =>
         unit[i].key = key[i] /\ (unit[i].yaml = Render(rows[i]) \/ unit[i].early)

(* Create and Duplicate: there is no process yet.                          *)
LEMMA CreatingRun ==
  ASSUME Typed, AloneInv, TableInv, NewInv, NEW p \in Procs, Creating(p), RunAt(p)
  PROVE  RunAt(p)'
<1>. USE DEF At
<1>0. Busy(p) /\ unit' = unit
  BY DEF Busy, Creating, DupRead, CountInstances, InsertRow, InsertReread, WriteNewKey,
         WriteNewYaml, UndoRow, UndoFiles
<1>1. /\ op[p] \in Operation /\ KindOfStep(op[p]) /\ Shape(op[p])
      /\ rows \in [Ids -> Row \cup {Nil}] /\ op \in [Procs -> Operation]
      /\ nextId \in Nat
  BY <1>0, AtStep DEF Typed, TypeOK
<1>2. op[p].kind \in Creates /\ op'[p].kind = op[p].kind /\ KindOfStep(op'[p])
  <2>1. op[p].pc \in NewSteps \cup {"dup_read", "count", "insert", "undo_files"}
    BY DEF Creating, DupRead, CountInstances, InsertRow, InsertReread, WriteNewKey,
       WriteNewYaml, UndoRow, UndoFiles, NewSteps
  <2> QED
    BY <1>1, <2>1, CreatingCourse DEF KindOfStep, Creates, Course, AloneInv
<1>3. op'[p].pc \notin {"remove_files", "remove_row"}
  BY <1>2 DEF KindOfStep, Creates
<1>4. CASE op'[p].id \in Ids /\ Still(unit[op'[p].id])
  BY <1>0, <1>3, <1>4 DEF RunAt, RunFacts, Still
<1>5. CASE op'[p].id \in Ids /\ ~Still(unit[op'[p].id])
  <2>1. CASE DupRead(p) \/ CountInstances(p)
    <3>1. op'[p].id = op[p].id /\ UNCHANGED <<rows, key>>
      BY <1>1, <2>1 DEF DupRead, CountInstances, Finish, Go, Operation
    <3> QED
      BY <1>0, <1>2, <1>3, <1>5, <3>1 DEF RunAt, RunFacts, KeyStale, YamlStale, Creates, Edits
  <2>2. CASE InsertRow(p)
    <3>1. CASE Finish(p, "error") /\ rows' = rows
      <4>1. op'[p].id = op[p].id /\ UNCHANGED <<rows, key>>
        BY <1>1, <2>2, <3>1 DEF InsertRow, Finish, Operation
      <4> QED
        BY <1>0, <1>2, <1>3, <1>5, <4>1 DEF RunAt, RunFacts, KeyStale, YamlStale, Creates, Edits
    <3>2. CASE op' = [op EXCEPT ![p].pc = "insert_reread", ![p].id = nextId,
                                ![p].new = NewRow(op[p].req, NewClientId(p))]
      <4>1. op'[p].id = nextId
        BY <1>1, <3>2 DEF Operation
      <4> QED
        BY <1>1, <1>5, <4>1 DEF NewInv
    <3> QED
      BY <2>2, <3>1, <3>2 DEF InsertRow
  <2>3. CASE InsertReread(p) \/ WriteNewKey(p) \/ WriteNewYaml(p) \/ UndoRow(p) \/ UndoFiles(p)
    <3>1. op'[p].id = op[p].id /\ op[p].pc \in NewSteps \cup {"undo_files"}
      BY <1>1, <2>3 DEF InsertReread, WriteNewKey, WriteNewYaml, UndoRow, UndoFiles, At,
         Finish, Go, Operation, NewSteps
    <3> QED
      BY <1>5, <3>1 DEF NewInv
  <2> QED
    BY <2>1, <2>2, <2>3 DEF Creating
<1> QED
  BY <1>4, <1>5 DEF RunAt

(* Update, ChangeRoom, UpdateWBToken and RotateKey, up to the restart.     *)
LEMMA UpdatingRun ==
  ASSUME Typed, AloneInv, TableInv, NEW p \in Procs, Updating(p), ~DiskFault,
         ~op[p].cancelled, RunAt(p),
         op[p].kind = "token" =>
           \A i \in op[p].todo : i \in Ids /\ rows[i] # Nil /\ unit[i].state = "running" =>
             unit[i].key = key[i] /\ (unit[i].yaml = Render(rows[i]) \/ unit[i].early)
  PROVE  RunAt(p)'
<1>. USE DEF At, Edits
<1>0. Busy(p)
  BY DEF Busy, Updating, RawRead, TokenList, TokenNext, ReadOld, ReadFiles,
     WriteYaml, ExecUpdate, Reread, UndoYaml, ReadKey, WriteKey
<1>1. /\ op[p] \in Operation /\ KindOfStep(op[p]) /\ Shape(op[p])
      /\ op[p].id \in Ids => RowFacts(op[p], rows[op[p].id])
      /\ rows \in [Ids -> Row \cup {Nil}] /\ op \in [Procs -> Operation]
      /\ key \in [Ids -> Nat]
  BY <1>0, AtStep DEF Typed, TypeOK
<1>2. unit' = unit
  BY DEF Updating, RawRead, TokenList, TokenNext, ReadOld, ReadFiles,
     WriteYaml, ExecUpdate, Reread, UndoYaml, ReadKey, WriteKey
<1>3. SUFFICES ASSUME op'[p].id \in Ids
      PROVE  RunFacts(op'[p], rows'[op'[p].id], key'[op'[p].id], unit[op'[p].id])
  BY <1>2 DEF RunAt
<1>4. op[p].id \in Ids => RunFacts(op[p], rows[op[p].id], key[op[p].id], unit[op[p].id])
  BY DEF RunAt
<1>5. CASE RawRead(p) \/ ReadFiles(p) \/ ReadKey(p) \/ ReadOld(p)
  <2>1. /\ op'[p].id = op[p].id /\ op'[p].kind = op[p].kind /\ rows' = rows /\ key' = key
        /\ op'[p].pc \notin {"remove_files", "remove_row"}
        /\ op[p].pc \in {"raw", "read_files", "read_key", "read"}
    <3>1. CASE RawRead(p) \/ ReadFiles(p) \/ ReadKey(p)
      BY <1>1, <3>1 DEF RawRead, ReadFiles, ReadKey, Finish, Operation
    <3>2. CASE ReadOld(p)
      BY <1>1, <3>2 DEF ReadOld, Finish, Operation
    <3> QED
      BY <1>5, <3>1, <3>2
  <2> QED
    BY <1>3, <1>4, <2>1 DEF RunFacts, KeyStale, YamlStale
<1>6. CASE TokenList(p)
  <2>1. op'[p].id = op[p].id /\ op[p].kind = "token" /\ op[p].pc = "token_list"
    BY <1>1, <1>6 DEF TokenList, Operation, Shape
  <2>2. op[p].id = 0
    BY <1>0, <2>1, AtStep DEF TokenFacts
  <2> QED
    BY <1>3, <2>1, <2>2 DEF Ids
<1>7. CASE TokenNext(p)
  <2>0. /\ op[p].pc = "token_next" /\ rows' = rows /\ key' = key /\ op[p].kind = "token"
    BY <1>1, <1>7 DEF TokenNext, Shape
  <2>1. CASE op' = [op EXCEPT ![p].pc = "done",
                            ![p].result = IF op[p].failed = {} THEN "ok" ELSE "error"]
    <3>1. /\ op'[p].id = op[p].id /\ op'[p].kind = op[p].kind /\ op'[p].pc = "done"
      BY <1>1, <2>1 DEF Operation
    <3> QED
      BY <1>3, <1>4, <2>0, <3>1 DEF RunFacts, KeyStale, YamlStale
  <2>2. ASSUME NEW i \in op[p].todo,
               op' = [op EXCEPT ![p].pc = "read", ![p].id = i, ![p].todo = @ \ {i},
                            ![p].req.name = op[p].snap[i].name,
                            ![p].req.room = op[p].snap[i].room]
        PROVE  RunFacts(op'[p], rows'[op'[p].id], key'[op'[p].id], unit[op'[p].id])
    <3>1. op'[p].id = i /\ op'[p].kind = op[p].kind /\ op'[p].pc = "read"
      BY <1>1, <2>2 DEF Operation
    <3> QED
      BY <1>3, <2>0, <3>1 DEF RunFacts
  <2> QED
    BY <1>7, <2>1, <2>2 DEF TokenNext
<1>8. CASE WriteYaml(p) \/ UndoYaml(p)
  <2>1. /\ op[p].pc \in {"write_yaml", "undo_yaml"} /\ rows' = rows /\ key' = key
        /\ Go(p, "exec") \/ Finish(p, "error")
    BY <1>8 DEF WriteYaml, UndoYaml
  <2>2. /\ op'[p].id = op[p].id /\ op'[p].kind = op[p].kind
        /\ op'[p].pc \in {"exec", "done", "token_next"}
    BY <2>1, GoesOn, Ends DEF SameWork, Over
  <2> QED
    BY <1>3, <1>4, <2>1, <2>2 DEF RunFacts, KeyStale, YamlStale
<1>9. CASE ExecUpdate(p)
  <2>0. /\ op[p].pc = "exec" /\ key' = key /\ op[p].id \in Ids
        /\ op[p].kind \in Edits \cup {"rotate_client"} /\ op[p].new \in Row
        /\ op[p].old \in Row /\ rows[op[p].id] = op[p].old /\ Differ(op[p])
    BY <1>1, <1>9 DEF ExecUpdate, Shape, Addressed, Steps, RowFacts, HoldingOld, Changes
  <2>1. CASE rows' = [rows EXCEPT ![op[p].id] = op[p].new] /\ Go(p, "reread")
    <3>1. /\ op'[p].id = op[p].id /\ op'[p].kind = op[p].kind /\ op'[p].pc = "reread"
          /\ rows'[op[p].id] = op[p].new
      BY <1>1, <2>0, <2>1, GoesOn DEF SameWork
    <3>2. op[p].kind = "rotate_client" => Render(op[p].old) = Render(op[p].new)
      BY <2>0 DEF Differ, Render, Row
    <3> QED
      BY <1>4, <2>0, <3>1, <3>2, NilAssumption DEF RunFacts, KeyStale, YamlStale
  <2>2. CASE rows' = rows /\ (Go(p, "undo_yaml") \/ Finish(p, "error"))
    <3>1. /\ op'[p].id = op[p].id /\ op'[p].kind = op[p].kind
          /\ op'[p].pc \in {"undo_yaml", "done", "token_next"}
      BY <2>2, GoesOn, Ends DEF SameWork, Over
    <3> QED
      BY <1>4, <2>0, <2>2, <3>1 DEF RunFacts, KeyStale, YamlStale
  <2> QED
    BY <1>9, <2>1, <2>2 DEF ExecUpdate
<1>10. CASE Reread(p)
  <2>0. /\ op[p].pc = "reread" /\ key' = key /\ rows' = rows /\ op[p].id \in Ids
        /\ op[p].kind \in Edits \cup {"rotate_client"} /\ op[p].new \in Row
        /\ rows[op[p].id] = op[p].new
    BY <1>1, <1>10 DEF Reread, Shape, Addressed, Steps, RowFacts, HoldingNew, Changes
  <2>1. Go(p, "status")
    BY <1>10, <2>0, NilAssumption DEF Reread
  <2> QED
    BY <1>3, <1>4, <2>0, <2>1, GoesOn DEF SameWork, RunFacts, KeyStale, YamlStale
<1>11. CASE WriteKey(p)
  <2>0. /\ op[p].pc = "write_key" /\ rows' = rows
        /\ op[p].kind = "rotate_key" /\ Go(p, "status") /\ op[p].id \in Ids
    BY <1>1, <1>11 DEF WriteKey, Shape, Addressed, Steps
  <2> QED
    BY <1>3, <1>4, <2>0, GoesOn DEF SameWork, RunFacts, KeyStale, YamlStale
<1> QED
  BY <1>5, <1>6, <1>7, <1>8, <1>9, <1>10, <1>11 DEF Updating

(* A process that has been started has read the files on disk.             *)
LEMMA LaunchedReads ==
  ASSUME Typed, NEW i \in Ids, NEW after \in Launched(i), after.state = "running"
  PROVE  after.key = key[i] /\ after.yaml = yaml[i]
BY DEF Launched, Off

(* Restarting the unit, and taking a change back.                          *)
LEMMA ApplyingRun ==
  ASSUME Typed, AloneInv, TableInv, NEW p \in Procs, Applying(p), ~DiskFault, ~CtlFault(p),
         ~op[p].cancelled, FilesAt(p), RunAt(p)
  PROVE  RunAt(p)'
<1>. USE DEF At, Edits
<1>0. Busy(p)
  BY DEF Busy, Applying, ReadStatus, Launch, WaitActive, RevertRow, BackRow, BackYaml, BackKey,
         BackLaunch, Decorate
<1>1. /\ op[p] \in Operation /\ KindOfStep(op[p]) /\ Shape(op[p])
      /\ op[p].id \in Ids => RowFacts(op[p], rows[op[p].id])
      /\ rows \in [Ids -> Row \cup {Nil}] /\ op \in [Procs -> Operation]
      /\ key \in [Ids -> Nat] /\ unit \in [Ids -> Unit]
  BY <1>0, AtStep DEF Typed, TypeOK
<1>2. op[p].id \in Ids
  BY <1>1 DEF Applying, ReadStatus, Launch, WaitActive, RevertRow, BackRow, BackYaml, BackKey,
         BackLaunch, Decorate, Shape, Addressed, Steps
<1>3. /\ RowFacts(op[p], rows[op[p].id])
      /\ FileFacts(op[p], rows[op[p].id], yaml[op[p].id], key[op[p].id])
      /\ RunFacts(op[p], rows[op[p].id], key[op[p].id], unit[op[p].id])
  BY <1>1, <1>2 DEF FilesAt, RunAt
<1>4. SUFFICES RunFacts(op'[p], rows'[op'[p].id], key'[op'[p].id], unit'[op'[p].id])
  BY DEF RunAt
<1>5. CASE ReadStatus(p)
  <2>1. rows' = rows /\ key' = key /\ unit' = unit /\ op[p].pc = "status"
    BY <1>5 DEF ReadStatus
  <2>2. CASE unit[op[p].id].state = "running"
    <3>1. Go(p, "launch")
      BY <1>5, <2>2 DEF ReadStatus
    <3> QED
      BY <1>3, <2>1, <3>1, GoesOn DEF SameWork, RunFacts, KeyStale, YamlStale
  <2>3. CASE unit[op[p].id].state # "running"
    <3>1. Go(p, "decorate") \/ Finish(p, "ok")
      BY <1>5, <2>3, Outcome DEF ReadStatus
    <3>2. op'[p].id = op[p].id /\ op'[p].pc \in {"decorate", "done", "token_next"}
      BY <3>1, GoesOn, Ends DEF SameWork, Over
    <3> QED
      BY <2>1, <2>3, <3>2 DEF RunFacts
  <2> QED
    BY <2>2, <2>3
<1>6. CASE Launch(p)
  <2> DEFINE i == op[p].id
  <2>1. PICK after \in IF op[p].kind = "start" /\ unit[i].state = "running"
                       THEN {unit[i]} ELSE Launched(i) :
          /\ rows' = rows /\ key' = key /\ op[p].pc = "launch"
          /\ unit' = [unit EXCEPT ![i] = after]
          /\ IF after.state = "running" THEN Go(p, "wait") ELSE GiveUp(p)
    BY <1>6 DEF Launch
  <2>2. unit'[i] = after
    BY <1>1, <1>2, <2>1
  <2>3. rows[i] # Nil => yaml[i] = Render(rows[i])
    BY <1>3, <2>1 DEF FileFacts, Dirty
  <2>4. CASE after.state = "running"
    <3>1. Go(p, "wait")
      BY <2>1, <2>4
    <3>2. op'[p].id = i /\ op'[p].kind = op[p].kind /\ op'[p].pc = "wait"
      BY <3>1, GoesOn DEF SameWork
    <3>3. CASE after = unit[i] /\ op[p].kind = "start"
      BY <1>3, <2>1, <2>2, <3>2, <3>3 DEF RunFacts, KeyStale, YamlStale
    <3>4. CASE after \in Launched(i)
      BY <1>2, <2>1, <2>2, <2>3, <2>4, <3>2, <3>4, LaunchedReads DEF RunFacts
    <3> QED
      BY <3>3, <3>4
  <2>5. CASE after.state # "running"
    <3>1. \E s \in {"back_key", "back_row"} : Go(p, s) \/ Finish(p, "error")
      BY <2>1, <2>5, Outcome
    <3>2. op'[p].id = i /\ op'[p].pc \in {"back_key", "back_row", "done", "token_next"}
      BY <3>1, GoesOn, Ends DEF SameWork, Over
    <3> QED
      BY <2>2, <2>5, <3>2 DEF RunFacts
  <2> QED
    BY <2>4, <2>5
<1>7. CASE WaitActive(p)
  <2>1. /\ rows' = rows /\ key' = key /\ unit' = unit /\ op[p].pc = "wait"
        /\ \E s \in {"back_key", "back_row", "decorate"} :
             Go(p, s) \/ Finish(p, "error") \/ Finish(p, "ok")
    BY <1>7, Outcome DEF WaitActive
  <2>2. /\ op'[p].id = op[p].id /\ op'[p].kind = op[p].kind
        /\ op'[p].pc \in {"back_key", "back_row", "decorate", "done", "token_next"}
    BY <2>1, GoesOn, Ends DEF SameWork, Over
  <2> QED
    BY <1>3, <2>1, <2>2 DEF RunFacts, KeyStale, YamlStale
<1>8. CASE RevertRow(p) \/ BackRow(p)
  <2>1. /\ op[p].pc \in {"revert_row", "back_row"} /\ key' = key /\ unit' = unit
        /\ op[p].kind \in Changes /\ rows[op[p].id] = op[p].new
        /\ op[p].old \in Row /\ op[p].new \in Row /\ Differ(op[p])
    BY <1>1, <1>3, <1>8 DEF RevertRow, BackRow, Shape, RowFacts, HoldingNew, Changes
  <2>2. rows'[op[p].id] = op[p].old
    BY <1>8, RollbackWrites DEF RevertRow, BackRow
  <2>3. CASE op[p].kind = "rotate_client"
    <3>1. Render(op[p].old) = Render(op[p].new)
      BY <2>1, <2>3 DEF Differ, Render, Row
    <3>2. Go(p, "back_launch") \/ Finish(p, "rolled_back")
      BY <1>8, <2>3 DEF RevertRow, BackRow
    <3>3. /\ op'[p].id = op[p].id /\ op'[p].kind = op[p].kind
          /\ op'[p].pc \in {"back_launch", "done", "token_next"}
      BY <3>2, GoesOn, Ends DEF SameWork, Over
    <3> QED
      BY <1>3, <2>1, <2>2, <2>3, <3>1, <3>3, NilAssumption DEF RunFacts, KeyStale, YamlStale
  <2>4. CASE op[p].kind \in Edits
    <3>1. Go(p, "back_yaml")
      BY <1>1, <1>8, <2>4 DEF RevertRow, BackRow, KindOfStep
    <3> QED
      BY <1>3, <2>1, <2>2, <2>4, <3>1, GoesOn, NilAssumption
      DEF SameWork, RunFacts, KeyStale, YamlStale
  <2> QED
    BY <2>1, <2>3, <2>4 DEF Changes
<1>9. CASE BackYaml(p)
  <2>1. /\ op[p].pc = "back_yaml" /\ rows' = rows /\ key' = key /\ unit' = unit
        /\ Go(p, "back_launch") /\ op[p].kind \in Edits
    BY <1>1, <1>9 DEF BackYaml, KindOfStep
  <2> QED
    BY <1>3, <2>1, GoesOn DEF SameWork, RunFacts, KeyStale, YamlStale
<1>10. CASE BackKey(p)
  <2>1. /\ op[p].pc = "back_key" /\ rows' = rows /\ unit' = unit
        /\ Go(p, "back_launch") /\ op[p].kind = "rotate_key"
    BY <1>1, <1>10 DEF BackKey, KindOfStep
  <2> QED
    BY <1>3, <2>1, GoesOn DEF SameWork, RunFacts, KeyStale, YamlStale
<1>11. CASE BackLaunch(p)
  <2>1. /\ op[p].pc = "back_launch" /\ rows' = rows /\ key' = key
        /\ Finish(p, "rolled_back")
    BY <1>11 DEF BackLaunch
  <2>5. PICK after \in Launched(op[p].id) : unit' = [unit EXCEPT ![op[p].id] = after]
    BY <1>11 DEF BackLaunch
  <2>2. unit'[op[p].id] = after
    BY <1>1, <1>2, <2>5
  <2>3. rows[op[p].id] # Nil => yaml[op[p].id] = Render(rows[op[p].id])
    BY <1>3, <2>1 DEF FileFacts, Dirty
  <2>4. op'[p].id = op[p].id /\ op'[p].pc \in {"done", "token_next"}
    BY <2>1, Ends DEF SameWork, Over
  <2> QED
    BY <1>2, <2>1, <2>2, <2>3, <2>4, LaunchedReads DEF RunFacts
<1>12. CASE Decorate(p)
  <2>1. /\ op[p].pc = "decorate" /\ rows' = rows /\ key' = key /\ unit' = unit
        /\ Finish(p, "ok") \/ Finish(p, "error")
    BY <1>12 DEF Decorate
  <2> QED
    BY <1>3, <2>1, Ends DEF Over, SameWork, RunFacts, KeyStale, YamlStale
<1> QED
  BY <1>5, <1>6, <1>7, <1>8, <1>9, <1>10, <1>11, <1>12 DEF Applying

(* Start, Restart, Stop and Delete: what is removed has been stopped.      *)
LEMMA RemovingRun ==
  ASSUME Typed, AloneInv, TableInv, NEW p \in Procs, Removing(p), ~DiskFault, ~CtlFault(p),
         ~op[p].cancelled, RunAt(p)
  PROVE  RunAt(p)'
<1>. USE DEF At, Edits
<1>0. Busy(p)
  BY DEF Busy, Removing, CheckRow, StopUnit, RemoveFiles, RemoveRow
<1>1. /\ op[p] \in Operation /\ KindOfStep(op[p]) /\ Shape(op[p])
      /\ op[p].id \in Ids => RowFacts(op[p], rows[op[p].id])
      /\ rows \in [Ids -> Row \cup {Nil}] /\ op \in [Procs -> Operation]
      /\ key \in [Ids -> Nat] /\ unit \in [Ids -> Unit]
  BY <1>0, AtStep DEF Typed, TypeOK
<1>2. /\ op[p].id \in Ids /\ op[p].kind \in {"start", "restart", "stop", "delete"}
      /\ RunFacts(op[p], rows[op[p].id], key[op[p].id], unit[op[p].id])
  BY <1>1 DEF Removing, CheckRow, StopUnit, RemoveFiles, RemoveRow, Shape, Addressed, Steps,
     KindOfStep, RunAt
<1>3. CASE CheckRow(p)
  <2>1. /\ rows' = rows /\ key' = key /\ unit' = unit /\ op[p].pc = "check"
        /\ \E s \in {"launch", "stop"} : Go(p, s) \/ Finish(p, "error")
    BY <1>3 DEF CheckRow
  <2>2. /\ op'[p].kind = op[p].kind /\ op'[p].id = op[p].id
        /\ op'[p].pc \in {"done", "token_next", "launch", "stop"}
    BY <2>1, GoesOn, Ends DEF SameWork, Over
  <2> QED
    BY <1>2, <2>1, <2>2 DEF RunAt, RunFacts, KeyStale, YamlStale
<1>4. CASE StopUnit(p)
  <2>1. /\ unit' = [unit EXCEPT ![op[p].id] = Stopped(op[p].id)]
        /\ Go(p, "remove_files") \/ Finish(p, "ok")
    BY <1>4 DEF StopUnit
  <2>2. Still(unit'[op[p].id])
    BY <1>1, <1>2, <2>1 DEF Stopped, Still, Off
  <2>3. op'[p].id = op[p].id
    BY <2>1, GoesOn, Ends DEF SameWork, Over
  <2> QED
    BY <2>2, <2>3 DEF RunAt, RunFacts, Still
<1>5. CASE RemoveFiles(p) \/ RemoveRow(p)
  <2>1. /\ unit' = unit /\ op[p].pc \in {"remove_files", "remove_row"}
        /\ Go(p, "remove_row") \/ Finish(p, "ok") \/ Finish(p, "error")
    BY <1>5 DEF RemoveFiles, RemoveRow
  <2>2. op'[p].id = op[p].id
    BY <2>1, GoesOn, Ends DEF SameWork, Over
  <2> QED
    BY <1>2, <2>1, <2>2 DEF RunAt, RunFacts, Still
<1> QED
  BY <1>3, <1>4, <1>5 DEF Removing

(* A step of a handler, while it is quiet.                                 *)
LEMMA HandlerRun ==
  ASSUME Typed, Typed', AloneInv, AloneInv', KeptApart, KeptApart', TableInv, NewInv, FileInv, RunInv,
         Quiet, ~DiskFault, NEW p \in Procs, ~op[p].cancelled, ~CtlFault(p),
         Begin(p) \/ Cancel(p) \/ Handle(p)
  PROVE  RunInv'
<1>0. Place(p) /\ up /\ up'
  BY HandlerStep DEF AloneInv, Place
<1>1. Busy(p) => FilesAt(p) /\ RunAt(p)
  BY DEF FileInv, FilesAt, RunInv, Quiet
<1>2. ASSUME NEW i \in Ids, rows[i] # Nil, Free(i), unit[i].state = "running"
      PROVE  unit[i].key = key[i] /\ (unit[i].yaml = Render(rows[i]) \/ unit[i].early)
  BY <1>2 DEF RunInv, Existing
<1>3. (Busy(p))' => RunAt(p)'
  <2>1. CASE Begin(p)
    <3>1. /\ op'[p].pc = FirstStep(op'[p].kind) /\ op'[p].kind \in AllKinds
          /\ \A q \in Procs : Busy(q) => op[q].id # op'[p].id
      BY <2>1, Arrival DEF Arrives
    <3>2. rows' = rows /\ key' = key /\ unit' = unit
      BY <2>1 DEF Begin
    <3>3. op'[p].pc \in {"count", "dup_read", "raw", "token_list", "read", "read_key", "check"}
      BY <3>1 DEF FirstStep
    <3>4. op'[p].id \in Ids => Free(op'[p].id)
      BY <3>1 DEF Free
    <3> QED
      BY <1>2, <3>2, <3>3, <3>4 DEF RunAt, RunFacts
  <2>2. CASE Cancel(p)
    <3>1. /\ op[p].pc # "idle" /\ op'[p].pc = op[p].pc
          /\ op'[p].kind = op[p].kind /\ op'[p].id = op[p].id
      BY <2>2, Departure DEF AloneInv
    <3>2. rows' = rows /\ key' = key /\ unit' = unit
      BY <2>2 DEF Cancel
    <3> QED
      BY <1>1, <3>1, <3>2 DEF RunAt, RunFacts, KeyStale, YamlStale, Busy, Still
  <2>3. CASE Respond(p)
    BY <2>3, Response DEF Busy, IdleOp
  <2>4. CASE Creating(p) \/ Updating(p) \/ Applying(p) \/ Removing(p)
    <3>1. Busy(p)
      BY <2>4, CreatingCourse, UpdatingCourse, ApplyingCourse, RemovingCourse
      DEF Course, Busy, AloneInv
    <3>2. ASSUME NEW i \in op[p].todo, i \in Ids, rows[i] # Nil, op[p].kind = "token",
                 unit[i].state = "running"
          PROVE  unit[i].key = key[i] /\ (unit[i].yaml = Render(rows[i]) \/ unit[i].early)
      <4>1. op[p].id # i
        BY <3>1, <3>2, AtStep DEF TokenFacts
      <4>2. \A q \in Procs : q # p => ~Busy(q)
        BY <3>1, <3>2 DEF AloneInv, Apart
      <4> QED
        BY <1>2, <3>2, <4>1, <4>2 DEF Free
    <3>3. CASE Updating(p)
      BY <1>1, <3>1, <3>2, <3>3, UpdatingRun
    <3> QED
      BY <1>1, <2>4, <3>1, <3>3, CreatingRun, ApplyingRun, RemovingRun
  <2> QED
    BY <2>1, <2>2, <2>3, <2>4 DEF Handle
<1>4. ASSUME NEW q \in Procs, (Busy(q))' PROVE RunAt(q)'
  <2>1. CASE q = p
    BY <1>3, <1>4, <2>1
  <2>2. CASE q # p /\ op'[q].id \in Ids
    <3>1. op'[q] = op[q] /\ Busy(q)
      BY <1>0, <1>4, <2>2 DEF Place, OthersWait, Busy
    <3>2. op'[p].id # op[q].id
      BY <1>0, <1>4, <2>2, <3>1, IdleElsewhere
    <3>3. /\ rows'[op[q].id] = rows[op[q].id] /\ unit'[op[q].id] = unit[op[q].id]
          /\ key'[op[q].id] = key[op[q].id]
      BY <1>0, <2>2, <3>1, <3>2 DEF Place
    <3>4. RunFacts(op[q], rows[op[q].id], key[op[q].id], unit[op[q].id])
      BY <2>2, <3>1 DEF RunInv, RunAt
    <3>5. RunFacts(op'[q], rows'[op'[q].id], key'[op'[q].id], unit'[op'[q].id])
      BY <3>1, <3>3, <3>4
    <3> QED
      BY <3>5 DEF RunAt
  <2>3. CASE op'[q].id \notin Ids
    BY <2>3 DEF RunAt, Ids
  <2> QED
    BY <2>1, <2>2, <2>3
<1>5. ASSUME NEW i \in Ids, rows'[i] # Nil, Free(i)', unit'[i].state = "running"
      PROVE  unit'[i].key = key'[i] /\ (unit'[i].yaml = Render(rows'[i]) \/ unit'[i].early)
  <2>1. i # op'[p].id
    BY <1>5, OwnOrNone DEF Free
  <2>2. rows'[i] = rows[i] /\ unit'[i] = unit[i] /\ key'[i] = key[i]
    BY <1>0, <2>1 DEF Place
  <2>3. CASE Busy(p) /\ op[p].id = i
    <3>1. op[p].pc \in {"insert", "token_next", "done"}
      BY <2>1, <2>3, Leaves
    <3>2. RunFacts(op[p], rows[i], key[i], unit[i])
      BY <1>1, <2>3 DEF RunAt
    <3> QED
      BY <1>5, <2>2, <3>1, <3>2 DEF RunFacts, KeyStale, YamlStale
  <2>4. CASE ~(Busy(p) /\ op[p].id = i)
    <3>1. Free(i)
      BY <1>0, <1>5, <2>4 DEF Free, Place, OthersWait, Busy
    <3> QED
      BY <1>2, <1>5, <2>2, <3>1
  <2> QED
    BY <2>3, <2>4
<1> QED
  BY <1>4, <1>5 DEF RunInv, Free, Existing

(* A unit that dies and is restarted by systemd.  It reads the files of    *)
(* that time: those of the row, unless an update is under way.             *)
LEMMA UnitRun ==
  ASSUME Typed, AloneInv, TableInv, NewInv, FileInv, RunInv, Quiet, up,
         NEW i \in Ids, UnitDies(i) \/ UnitRestarts(i)
  PROVE  RunInv'
<1>0. /\ UNCHANGED <<rows, key, yaml, op>> /\ ~Still(unit[i]) /\ unit \in [Ids -> Unit]
      /\ \A j \in Ids : j # i => unit'[j] = unit[j]
  BY DEF UnitDies, UnitRestarts, Still, Typed, TypeOK
<1>1. \A p \in Procs : Busy(p) => RunAt(p) /\ FilesAt(p)
  BY DEF RunInv, FileInv, FilesAt, Quiet
<1>2. CASE unit'[i].state # "running"
  <2>1. ASSUME NEW p \in Procs, Busy(p) PROVE RunAt(p)'
    <3>1. op[p].id = i => op[p].pc \notin {"remove_files", "remove_row"}
      BY <1>0, <1>1, <2>1 DEF RunAt, RunFacts
    <3> QED
      BY <1>0, <1>1, <1>2, <2>1, <3>1 DEF RunAt, RunFacts, KeyStale, YamlStale, Still
  <2> QED
    BY <1>0, <1>2, <2>1 DEF RunInv, Busy, Free, Existing
<1>3. CASE unit'[i].state = "running"
  <2>1. /\ unit'[i].key = key[i] /\ unit'[i].yaml = yaml[i]
        /\ MidUpdate(i) => unit'[i].early
    <3>1. PICK after \in Launched(i) : unit'[i] = [after EXCEPT !.early = MidUpdate(i)]
      BY <1>0, <1>3 DEF UnitDies, UnitRestarts, Off
    <3>2. after.state = "running"
      BY <1>3, <3>1 DEF Launched, Off
    <3> QED
      BY <3>1, <3>2 DEF Launched, Off
  <2>2. ASSUME NEW p \in Procs, Busy(p), op[p].id = i
        PROVE  /\ op[p].pc \notin {"remove_files", "remove_row"}
               /\ rows[i] # Nil =>
                    unit'[i].yaml = Render(rows[i]) \/ unit'[i].early \/ YamlStale(op[p])
    <3>1. /\ RunFacts(op[p], rows[i], key[i], unit[i])
          /\ FileFacts(op[p], rows[i], yaml[i], key[i]) /\ KindOfStep(op[p])
      BY <1>1, <2>2, AtStep DEF RunAt, FilesAt
    <3>2. op[p].pc \notin NewSteps
      BY <1>0, <2>2 DEF NewInv
    <3>3. op[p].pc \notin {"remove_files", "remove_row"}
      BY <1>0, <3>1 DEF RunFacts
    <3>4. CASE op[p].pc \in {"exec", "undo_yaml"} /\ op[p].kind \in Edits
      BY <2>1, <2>2, <3>3, <3>4 DEF MidUpdate
    <3>5. CASE op[p].pc = "back_yaml"
      BY <3>1, <3>5 DEF KindOfStep, YamlStale
    <3>6. CASE ~Dirty(op[p])
      BY <2>1, <3>1, <3>3, <3>6 DEF FileFacts
    <3> QED
      BY <3>2, <3>3, <3>4, <3>5, <3>6 DEF Dirty, NewSteps
  <2>3. ASSUME NEW p \in Procs, Busy(p) PROVE RunAt(p)'
    <3>1. CASE op[p].id = i
      BY <1>0, <2>1, <2>2, <2>3, <3>1 DEF RunAt, RunFacts, KeyStale, YamlStale
    <3>2. CASE op[p].id # i
      BY <1>0, <1>1, <2>3, <3>2 DEF RunAt, RunFacts, KeyStale, YamlStale, Still
    <3> QED
      BY <3>1, <3>2
  <2>4. ASSUME NEW j \in Ids, rows[j] # Nil, Free(j), unit'[j].state = "running"
        PROVE  unit'[j].key = key[j] /\ (unit'[j].yaml = Render(rows[j]) \/ unit'[j].early)
    <3>1. CASE j = i
      <4>1. yaml[i] = Render(rows[i])
        BY <2>4, <3>1 DEF FileInv, Quiet, Free, Existing
      <4> QED
        BY <2>1, <3>1, <4>1
    <3>2. CASE j # i
      BY <1>0, <2>4, <3>2 DEF RunInv, Existing
    <3> QED
      BY <3>1, <3>2
  <2> QED
    BY <1>0, <2>3, <2>4 DEF RunInv, Busy, Free, Existing
<1> QED
  BY <1>2, <1>3

(* The empty panel has no process.                                         *)
LEMMA InitRun == Init => RunInv
<1>1. Init => \A p \in Procs : op[p].pc = "idle"
  BY DEF Init, IdleOp
<1> QED
  BY <1>1 DEF Init, RunInv, Busy, Existing

(* RunInv is inductive when requests keep apart.                           *)
LEMMA StepRun ==
  ASSUME KeptApart, KeptApart', Typed, Typed', AloneInv, AloneInv', TableInv, Budgets, Budgets', NewInv,
         FileInv, RunInv, [Next]_vars
  PROVE  RunInv'
<1>1. CASE ~Quiet'
  BY <1>1 DEF RunInv
<1>2. CASE Quiet'
  <2>1. /\ Quiet /\ ~DiskFault /\ ~Crash /\ up
        /\ \A p \in Procs : ~CtlFault(p) /\ ~op[p].cancelled
    BY <1>2, QuietStep
  <2>2. ASSUME NEW p \in Procs, Begin(p) \/ Cancel(p) \/ Handle(p) PROVE RunInv'
    BY <2>1, <2>2, HandlerRun
  <2>3. ASSUME NEW i \in Ids, UnitDies(i) \/ UnitRestarts(i) PROVE RunInv'
    BY <2>1, <2>3, UnitRun
  <2>4. ~Boot /\ ~BootFails
    BY <2>1 DEF Boot, BootFails
  <2>5. CASE UNCHANGED vars
    <3>1. /\ \A p \in Procs : Busy(p) => RunAt(p)
          /\ \A i \in Existing : unit[i].state = "running" /\ Free(i) =>
               unit[i].key = key[i] /\ (unit[i].yaml = Render(rows[i]) \/ unit[i].early)
      BY <2>1 DEF RunInv
    <3> QED
      BY <2>5, <3>1 DEF vars, RunInv, Busy, RunAt, RunFacts, KeyStale, YamlStale, Still, Free,
         Existing
  <2> QED
    BY <2>1, <2>2, <2>3, <2>4, <2>5 DEF Next
<1> QED
  BY <1>1, <1>2

(* The processes and the rows keep together.                               *)
LEMMA SpecRun == Spec => [](Typed /\ (KeptApart => RunInv))
<1>1. Init => NewInv /\ RunInv
  BY InitNew, InitRun
<1>2. /\ Lone /\ (KeptApart => Filed) /\ Lone' /\ (KeptApart => Filed)' /\ [Next]_vars
      /\ (KeptApart => NewInv /\ RunInv)
      => (KeptApart => NewInv /\ RunInv)'
  BY StepNew, StepRun, StillApart DEF Lone, Filed
<1>3. Spec => [](Lone /\ (KeptApart => Filed))
  BY SpecFiles
<1>4. Lone => Typed
  BY DEF Lone
<1> QED
  BY <1>1, <1>2, <1>3, <1>4, PTL DEF Spec

(* RunningMatchesDisk of InstanceManager: when no handler is at work, a    *)
(* running process uses the configuration of its row and the key on disk,  *)
(* as long as nothing but processes has failed; a process that systemd     *)
(* restarted in the middle of a refused update is the one exception.       *)
THEOREM RunningMatchesDiskHolds == Spec => []RunningMatchesDisk
<1>1. Typed /\ (KeptApart => RunInv) => RunningMatchesDisk
  <2> SUFFICES ASSUME Typed, RunInv, Settled, Spared(AllFaults), NEW i \in Existing,
                      unit[i].state = "running"
               PROVE  unit[i].key = key[i] /\ (unit[i].yaml = Render(rows[i]) \/ unit[i].early)
    BY DEF RunningMatchesDisk
  <2>1. Quiet
    BY DEF Spared, AllFaults, Limits, Quiet, Calm
  <2>2. CASE ~Free(i)
    <3>1. PICK p \in Procs : Busy(p) /\ op[p].id = i
      BY <2>2 DEF Free
    <3>2. op[p].pc = "done" /\ op[p].id \in Ids /\ rows[op[p].id] # Nil
      BY <3>1 DEF Settled, Busy, Existing
    <3>3. RunFacts(op[p], rows[i], key[i], unit[i])
      BY <2>1, <3>1, <3>2 DEF RunInv, RunAt
    <3> QED
      BY <3>1, <3>2, <3>3 DEF RunFacts, KeyStale, YamlStale
  <2> QED
    BY <2>1, <2>2 DEF RunInv
<1> QED
  BY <1>1, SpecRun, PTL

-----------------------------------------------------------------------------
(* What is left of an instance that is not in the table.                   *)

(* The panel has not crashed, systemctl has not failed by itself, and at   *)
(* most one file operation has failed.                                     *)
OneFault ==
  left.crashes = MaxCrashes /\ left.ctl = MaxCtl /\ left.disk + 1 >= MaxDisk

(* One fault is one fault: a second file operation does not fail, and a    *)
(* systemctl call only fails because its client has gone.                  *)
LEMMA OneFaultStep ==
  ASSUME Typed, Typed', Budgets, Budgets', [Next]_vars, OneFault'
  PROVE  /\ OneFault /\ ~Crash /\ up /\ left'.disk \in Nat /\ left.disk \in Nat
         /\ left'.disk <= left.disk
         /\ DiskFault => left.disk = MaxDisk /\ left'.disk < MaxDisk
         /\ \A p \in Procs : CtlFault(p) => op[p].cancelled
<1>0. /\ left \in Budget /\ left' \in Budget /\ MaxCtl \in Nat /\ MaxCrashes \in Nat
      /\ MaxDisk \in Nat
  BY BoundAssumption DEF Typed, TypeOK
<1>1. /\ left.crashes >= left'.crashes /\ left.ctl >= left'.ctl /\ left'.disk <= left.disk
  BY <1>0, Spending DEF Cheaper, Budget
<1>2. left.crashes = MaxCrashes /\ left.ctl = MaxCtl /\ left.disk + 1 >= MaxDisk
  BY <1>0, <1>1 DEF OneFault, Budgets, Budget
<1>3. ~Crash
  BY <1>0, <1>2 DEF Crash, OneFault, Budget
<1>4. up
  BY <1>0, <1>2 DEF Budgets, Budget
<1>5. ASSUME NEW p \in Procs, CtlFault(p) PROVE op[p].cancelled
  <2>1. left' # [left EXCEPT !.ctl = @ - 1]
    BY <1>0, <1>2 DEF OneFault, Budget
  <2> QED
    BY <1>5, <2>1 DEF CtlFault
<1>6. DiskFault => left.disk = MaxDisk /\ left'.disk < MaxDisk
  <2> SUFFICES ASSUME DiskFault PROVE left.disk = MaxDisk /\ left'.disk < MaxDisk
    OBVIOUS
  <2>1. left'.disk = left.disk - 1
    BY <1>0 DEF DiskFault, Budget
  <2>2. left'.disk + 1 >= MaxDisk /\ left.disk <= MaxDisk
    BY DEF OneFault, Budgets
  <2> QED
    BY <1>0, <2>1, <2>2 DEF Budget
<1>7. left.disk \in Nat /\ left'.disk \in Nat
  BY <1>0 DEF Budget
<1> QED
  BY <1>1, <1>2, <1>3, <1>4, <1>5, <1>6, <1>7 DEF OneFault

(* No file and no process.                                                 *)
Gone(i) == yaml[i] = Nil /\ key[i] = 0 /\ Still(unit[i])

Rotating == {"write_key", "status", "launch", "wait", "back_key", "back_launch"}

(* A clean-up of Create follows the fault; Delete has stopped the unit and *)
(* removed the files before the row; RotateKey writes for a row only.      *)
LeftFacts(o, r, y, k, u, d) ==
  /\ o.pc \in {"undo_row", "undo_files"} => d < MaxDisk
  /\ o.pc \in {"remove_files", "remove_row"} => o.cancelled \/ Still(u)
  /\ o.pc = "remove_row" => y = Nil /\ k = 0
  /\ o.kind = "rotate_key" /\ o.pc \in Rotating => r # Nil

LeftAt(p) ==
  op[p].id \in Ids =>
    LeftFacts(op[p], rows[op[p].id], yaml[op[p].id], key[op[p].id], unit[op[p].id], left.disk)

LeftInv ==
  OneFault =>
    /\ \A p \in Procs : Busy(p) => LeftAt(p)
    /\ \A i \in Ids : rows[i] = Nil =>
         Gone(i) \/ \E p \in Procs : op[p].id = i /\ op[p].pc = "undo_files"

(* Only Create's clean-up and Delete take a row out of the table.          *)
LEMMA RowStays ==
  ASSUME Typed, Typed', AloneInv, TableInv, NEW p \in Procs, Begin(p) \/ Cancel(p) \/ Handle(p),
         NEW i \in Ids, rows'[i] = Nil
  PROVE  rows[i] = Nil \/ UndoRow(p) \/ RemoveRow(p)
<1>0. rows \in [Ids -> Row \cup {Nil}] /\ op \in [Procs -> Operation] /\ Shape(op[p])
  BY DEF Typed, TypeOK, HandlerInv
<1>. USE DEF At
<1>1. CASE InsertRow(p)
  <2>1. CASE /\ rows' = [rows EXCEPT ![nextId] = NewRow(op[p].req, NewClientId(p))]
             /\ op' = [op EXCEPT ![p].pc = "insert_reread", ![p].id = nextId,
                                 ![p].new = NewRow(op[p].req, NewClientId(p))]
    <3>1. op'[p].pc = "insert_reread" /\ op'[p].new = NewRow(op[p].req, NewClientId(p))
      BY <1>0, <2>1 DEF Operation
    <3>2. NewRow(op[p].req, NewClientId(p)) \in Row
      BY <3>1 DEF Typed, HandlerInv, Shape
    <3> QED
      BY <1>0, <2>1, <3>2, NilAssumption
  <2> QED
    BY <1>1, <2>1 DEF InsertRow
<1>2. CASE ExecUpdate(p)
  <2>1. op[p].new # Nil
    BY <1>0, <1>2, NilAssumption DEF ExecUpdate, Shape
  <2> QED
    BY <1>0, <1>2, <2>1 DEF ExecUpdate
<1>3. CASE RevertRow(p) \/ BackRow(p)
  <2>1. op[p].old # Nil
    BY <1>0, <1>3, NilAssumption DEF RevertRow, BackRow, Shape
  <2> QED
    BY <1>0, <1>3, <2>1 DEF RevertRow, BackRow, RolledBackRows
<1>4. CASE rows' = rows
  BY <1>4
<1> QED
  BY <1>1, <1>2, <1>3, <1>4
  DEF Handle, Creating, Updating, Applying, Removing, Begin, Cancel, Respond, DupRead,
      CountInstances, InsertReread, WriteNewKey, WriteNewYaml, UndoFiles, RawRead, TokenList,
      TokenNext, ReadOld, ReadFiles, WriteYaml, Reread, UndoYaml, ReadKey, WriteKey,
      ReadStatus, Launch, WaitActive, BackYaml, BackKey, BackLaunch, Decorate, CheckRow,
      StopUnit, RemoveFiles

(* A handler leaves what is not in the table alone, unless it cleans up.   *)
LEMMA Untouched ==
  ASSUME Typed, AloneInv, TableInv, NEW p \in Procs,
         Creating(p) \/ Updating(p) \/ Applying(p) \/ Removing(p),
         op[p].id \in Ids, rows[op[p].id] = Nil, LeftAt(p)
  PROVE  \/ UndoFiles(p)
         \/ UNCHANGED <<yaml, key, unit>>
<1>. USE DEF At, Changes, Edits
<1>0. Busy(p)
  BY CreatingCourse, UpdatingCourse, ApplyingCourse, RemovingCourse DEF Course, Busy, AloneInv
<1>1. /\ KindOfStep(op[p]) /\ Shape(op[p]) /\ RowFacts(op[p], Nil)
      /\ op[p].kind = "rotate_key" => op[p].pc \notin Rotating /\ Nil \notin Row
  BY <1>0, AtStep, NilAssumption DEF LeftAt, LeftFacts
<1>2. CASE Creating(p)
  <2>1. ~WriteNewKey(p) /\ ~WriteNewYaml(p)
    BY <1>1, NilAssumption DEF WriteNewKey, WriteNewYaml, Shape, RowFacts, NewSteps
  <2> QED
    BY <1>2, <2>1 DEF Creating, DupRead, CountInstances, InsertRow, InsertReread, UndoRow
<1>3. CASE Updating(p)
  <2>1. ~WriteYaml(p) /\ ~UndoYaml(p)
    BY <1>1, NilAssumption DEF WriteYaml, UndoYaml, Shape, RowFacts, HoldingOld
  <2>2. ~WriteKey(p)
    BY <1>1 DEF WriteKey, Shape, Rotating
  <2> QED
    BY <1>3, <2>1, <2>2 DEF Updating, RawRead, TokenList, TokenNext, ReadOld, ReadFiles,
       ExecUpdate, Reread, ReadKey
<1>4. CASE Applying(p)
  <2>1. ~Launch(p)
    BY <1>1, NilAssumption DEF Launch, Shape, Rotating, RowFacts, HoldingNew
  <2>2. ~BackYaml(p) /\ ~BackLaunch(p)
    BY <1>1, NilAssumption DEF BackYaml, BackLaunch, KindOfStep, Rotating, RowFacts
  <2>3. ~BackKey(p)
    BY <1>1 DEF BackKey, KindOfStep, Rotating
  <2> QED
    BY <1>4, <2>1, <2>2, <2>3 DEF Applying, ReadStatus, WaitActive, RevertRow, BackRow, Decorate
<1>5. CASE Removing(p)
  <2>1. ~StopUnit(p) /\ ~RemoveFiles(p)
    BY <1>1, NilAssumption DEF StopUnit, RemoveFiles, RowFacts
  <2> QED
    BY <1>5, <2>1 DEF Removing, CheckRow, RemoveRow
<1> QED
  BY <1>2, <1>3, <1>4, <1>5

(* Create and Duplicate: the clean-up starts with the fault.               *)
LEMMA CreatingLeft ==
  ASSUME Typed, AloneInv, TableInv, NEW p \in Procs, Creating(p), LeftAt(p),
         DiskFault => left'.disk < MaxDisk
  PROVE  LeftAt(p)'
<1>. USE DEF At
<1>1. /\ op[p] \in Operation /\ KindOfStep(op[p]) /\ Shape(op[p]) /\ op \in [Procs -> Operation]
  BY DEF Typed, TypeOK, HandlerInv, AloneInv, KindInv
<1>2. op[p].kind \in Creates /\ op'[p].kind = op[p].kind /\ KindOfStep(op'[p])
  <2>1. op[p].pc \in NewSteps \cup {"dup_read", "count", "insert", "undo_files"}
    BY DEF Creating, DupRead, CountInstances, InsertRow, InsertReread, WriteNewKey,
       WriteNewYaml, UndoRow, UndoFiles, NewSteps
  <2> QED
    BY <1>1, <2>1, CreatingCourse DEF KindOfStep, Creates, Course, AloneInv
<1>3. op'[p].pc \notin {"remove_files", "remove_row"} /\ op'[p].kind # "rotate_key"
  BY <1>2 DEF KindOfStep, Creates
<1>4. SUFFICES ASSUME op'[p].id \in Ids, op'[p].pc \in {"undo_row", "undo_files"}
               PROVE  left'.disk < MaxDisk
  BY <1>3 DEF LeftAt, LeftFacts
<1>5. CASE DupRead(p) \/ CountInstances(p) \/ InsertReread(p) \/ UndoFiles(p)
  BY <1>1, <1>4, <1>5 DEF DupRead, CountInstances, InsertReread, UndoFiles, Finish, Go, Operation
<1>6. CASE InsertRow(p)
  BY <1>1, <1>4, <1>6 DEF InsertRow, Finish, Operation
<1>7. CASE WriteNewKey(p) \/ WriteNewYaml(p)
  <2>1. DiskFault \/ Go(p, "new_yaml") \/ Go(p, "decorate")
    BY <1>7 DEF WriteNewKey, WriteNewYaml
  <2> QED
    BY <1>4, <2>1, GoesOn
<1>8. CASE UndoRow(p)
  <2>1. op[p].pc = "undo_row" /\ left' = left /\ op[p].id \in Ids
    BY <1>1, <1>8 DEF UndoRow, Shape, Addressed, Steps
  <2> QED
    BY <2>1 DEF LeftAt, LeftFacts
<1> QED
  BY <1>5, <1>6, <1>7, <1>8 DEF Creating

(* Update and its like remove nothing; RotateKey starts with a key file.   *)
LEMMA UpdatingLeft ==
  ASSUME Typed, AloneInv, TableInv, NEW p \in Procs, Updating(p), LeftAt(p),
         op[p].id \in Ids /\ op[p].pc = "read_key" /\ rows[op[p].id] = Nil =>
           key[op[p].id] = 0
  PROVE  LeftAt(p)'
<1>. USE DEF At, Edits
<1>1. /\ op[p] \in Operation /\ Shape(op[p]) /\ op \in [Procs -> Operation]
  BY DEF Typed, TypeOK, HandlerInv
<1>2. op[p].kind \in Edits \cup {"rotate_client", "rotate_key"}
  BY <1>1 DEF Updating, RawRead, TokenList, TokenNext, ReadOld, ReadFiles,
     WriteYaml, ExecUpdate, Reread, UndoYaml, ReadKey, WriteKey, Shape
<1>3. op'[p].kind = op[p].kind /\ KindOfStep(op'[p])
  BY UpdatingCourse DEF Course, AloneInv
<1>4. op'[p].pc \notin {"undo_row", "undo_files", "remove_files", "remove_row"}
  BY <1>2, <1>3, OldSteps DEF KindOfStep, NewSteps
<1>5. SUFFICES ASSUME op'[p].id \in Ids, op[p].kind = "rotate_key", op'[p].pc \in Rotating
               PROVE  rows'[op'[p].id] # Nil
  BY <1>3, <1>4 DEF LeftAt, LeftFacts
<1>6. ReadKey(p) \/ WriteKey(p)
  BY <1>1, <1>5 DEF Updating, RawRead, TokenList, TokenNext, ReadOld, ReadFiles,
     WriteYaml, ExecUpdate, Reread, UndoYaml, Shape
<1>7. CASE ReadKey(p)
  <2>1. op[p].pc = "read_key" /\ rows' = rows /\ op'[p].id = op[p].id /\ key[op[p].id] # 0
    BY <1>1, <1>5, <1>7 DEF ReadKey, Finish, Operation, Rotating
  <2> QED
    BY <1>5, <2>1
<1>8. CASE WriteKey(p)
  <2>1. /\ op[p].pc = "write_key" /\ rows' = rows
        /\ Go(p, "status") \/ Finish(p, "error")
    BY <1>8 DEF WriteKey
  <2>2. op'[p].id = op[p].id
    BY <2>1, GoesOn, Ends DEF SameWork, Over
  <2> QED
    BY <1>5, <2>1, <2>2 DEF LeftAt, LeftFacts, Rotating
<1> QED
  BY <1>6, <1>7, <1>8

(* Restarting the unit, and taking a change back: the row stays.           *)
LEMMA ApplyingLeft ==
  ASSUME Typed, AloneInv, TableInv, NEW p \in Procs, Applying(p), LeftAt(p)
  PROVE  LeftAt(p)'
<1>. USE DEF At, Edits
<1>1. /\ op[p] \in Operation /\ Shape(op[p]) /\ KindOfStep(op[p]) /\ op \in [Procs -> Operation]
  BY DEF Typed, TypeOK, HandlerInv, AloneInv, KindInv
<1>2. op[p].kind # "delete"
  BY <1>1 DEF Applying, ReadStatus, Launch, WaitActive, RevertRow, BackRow, BackYaml, BackKey,
     BackLaunch, Decorate, Shape, KindOfStep, Changes, Creates
<1>3. op'[p].kind = op[p].kind /\ KindOfStep(op'[p])
  BY ApplyingCourse DEF Course, AloneInv
<1>4. op'[p].pc \notin {"undo_row", "undo_files", "remove_files", "remove_row"}
  BY <1>2, <1>3, OldSteps DEF KindOfStep, NewSteps
<1>5. SUFFICES ASSUME op'[p].id \in Ids, op[p].kind = "rotate_key", op'[p].pc \in Rotating
               PROVE  rows'[op'[p].id] # Nil
  BY <1>3, <1>4 DEF LeftAt, LeftFacts
<1>6. op[p].pc \in Rotating /\ rows' = rows
  BY <1>1, <1>5 DEF Applying, ReadStatus, Launch, WaitActive, RevertRow, BackRow, BackYaml, BackKey,
     BackLaunch, Decorate, Shape, KindOfStep, Changes, Creates, Rotating
<1>7. op'[p].id = op[p].id
  BY <1>6, ApplyingCourse DEF Course, AloneInv, Rotating
<1> QED
  BY <1>5, <1>6, <1>7 DEF LeftAt, LeftFacts

(* Delete stops the unit, then removes the files, then the row.            *)
LEMMA RemovingLeft ==
  ASSUME Typed, AloneInv, TableInv, NEW p \in Procs, Removing(p), LeftAt(p),
         CtlFault(p) => op[p].cancelled
  PROVE  LeftAt(p)'
<1>. USE DEF At, Edits
<1>1. /\ op[p] \in Operation /\ Shape(op[p]) /\ KindOfStep(op[p]) /\ op \in [Procs -> Operation]
      /\ unit \in [Ids -> Unit] /\ yaml \in [Ids -> FileState] /\ key \in [Ids -> Nat]
  BY DEF Typed, TypeOK, HandlerInv, AloneInv, KindInv
<1>2. op[p].kind # "rotate_key" /\ op[p].id \in Ids
  BY <1>1 DEF Removing, CheckRow, StopUnit, RemoveFiles, RemoveRow, Shape, KindOfStep,
     Addressed, Steps
<1>3. op'[p].kind = op[p].kind /\ op'[p].pc \notin {"undo_row", "undo_files"}
  BY RemovingCourse, OldSteps DEF Course, AloneInv, NewSteps
<1>4. LeftFacts(op[p], rows[op[p].id], yaml[op[p].id], key[op[p].id], unit[op[p].id], left.disk)
  BY <1>2 DEF LeftAt
<1>5. CASE Finish(p, "ok") \/ Finish(p, "error")
  BY <1>2, <1>3, <1>5, Ends DEF Over, LeftAt, LeftFacts
<1>6. CASE CheckRow(p) /\ ~Finish(p, "error")
  <2>1. Go(p, "launch") \/ Go(p, "stop")
    BY <1>6 DEF CheckRow
  <2> QED
    BY <1>2, <1>3, <2>1, GoesOn DEF LeftAt, LeftFacts
<1>7. CASE StopUnit(p) /\ ~Finish(p, "ok") /\ ~Finish(p, "error")
  <2>1. Go(p, "remove_files")
    BY <1>7 DEF StopUnit
  <2>2. op[p].cancelled \/ Still(unit'[op[p].id])
    <3>1. CASE unit' = [unit EXCEPT ![op[p].id] = Stopped(op[p].id)]
      BY <1>1, <1>2, <3>1 DEF Stopped, Still, Off
    <3>2. CASE CtlFault(p)
      BY <3>2
    <3> QED
      BY <1>7, <3>1, <3>2 DEF StopUnit
  <2> QED
    BY <1>2, <1>3, <2>1, <2>2, GoesOn DEF LeftAt, LeftFacts, SameWork, Still
<1>8. CASE RemoveFiles(p) /\ ~Finish(p, "error")
  <2>1. /\ op[p].pc = "remove_files" /\ Go(p, "remove_row") /\ unit' = unit
        /\ yaml' = [yaml EXCEPT ![op[p].id] = Nil] /\ key' = [key EXCEPT ![op[p].id] = 0]
    BY <1>8 DEF RemoveFiles
  <2>2. /\ op'[p].id = op[p].id /\ op'[p].pc = "remove_row"
        /\ op'[p].cancelled = op[p].cancelled
    BY <2>1, GoesOn DEF SameWork
  <2>3. yaml'[op[p].id] = Nil /\ key'[op[p].id] = 0
    BY <1>1, <1>2, <2>1
  <2> QED
    BY <1>2, <1>3, <1>4, <2>1, <2>2, <2>3 DEF LeftAt, LeftFacts, Still
<1> QED
  BY <1>5, <1>6, <1>7, <1>8 DEF Removing, RemoveRow

(* A step of a handler, with at most one fault.                            *)
LEMMA HandlerLeft ==
  ASSUME Typed, Typed', AloneInv, AloneInv', KeptApart, KeptApart', TableInv, NewInv, NewInv', LeftInv,
         OneFault, left.disk \in Nat, left'.disk \in Nat, left'.disk <= left.disk,
         DiskFault => left.disk = MaxDisk /\ left'.disk < MaxDisk, MaxDisk \in Nat,
         NEW p \in Procs, CtlFault(p) => op[p].cancelled,
         Begin(p) \/ Cancel(p) \/ Handle(p)
  PROVE  LeftInv'
<1>0. /\ Place(p) /\ op[p] \in Operation
      /\ unit \in [Ids -> Unit] /\ yaml \in [Ids -> FileState] /\ key \in [Ids -> Nat]
  BY HandlerStep DEF AloneInv, Typed, TypeOK
<1>1. Busy(p) => LeftAt(p)
  BY DEF LeftInv
<1>2. ASSUME NEW i \in Ids, rows[i] = Nil
      PROVE  Gone(i) \/ \E q \in Procs : op[q].id = i /\ op[q].pc = "undo_files"
  BY <1>2 DEF LeftInv
<1>3. (Busy(p))' => LeftAt(p)'
  <2>1. CASE Begin(p)
    <3>1. op'[p].pc = FirstStep(op'[p].kind) /\ op'[p].kind \in AllKinds
      BY <2>1, Arrival DEF Arrives
    <3>2. op'[p].pc \in {"count", "dup_read", "raw", "token_list", "read", "read_key", "check"}
      BY <3>1 DEF FirstStep
    <3> QED
      BY <3>2 DEF LeftAt, LeftFacts, Rotating
  <2>2. CASE Cancel(p)
    <3>1. /\ op[p].pc # "idle" /\ op'[p].pc = op[p].pc /\ op'[p].cancelled
          /\ op'[p].kind = op[p].kind /\ op'[p].id = op[p].id
      BY <2>2, Departure DEF AloneInv
    <3>2. rows' = rows /\ yaml' = yaml /\ key' = key /\ unit' = unit
      BY <2>2 DEF Cancel
    <3>3. op[p].id \in Ids =>
            LeftFacts(op[p], rows[op[p].id], yaml[op[p].id], key[op[p].id], unit[op[p].id], left.disk)
      BY <1>1, <3>1 DEF LeftAt, Busy
    <3> QED
      BY <3>1, <3>2, <3>3 DEF LeftAt, LeftFacts
  <2>3. CASE Respond(p)
    BY <2>3, Response DEF Busy, IdleOp
  <2>4. CASE Creating(p) \/ Updating(p) \/ Applying(p) \/ Removing(p)
    <3>1. Busy(p)
      BY <2>4, CreatingCourse, UpdatingCourse, ApplyingCourse, RemovingCourse
      DEF Course, Busy, AloneInv
    <3>2. op[p].id \in Ids /\ op[p].pc = "read_key" /\ rows[op[p].id] = Nil =>
           key[op[p].id] = 0
      <4>1. ASSUME NEW q \in Procs, op[p].pc = "read_key", op[q].id = op[p].id,
                   op[q].pc = "undo_files"
            PROVE  FALSE
        BY <3>1, <4>1 DEF AloneInv, Apart, Busy
      <4> QED
        BY <1>2, <4>1 DEF Gone
    <3> QED
      BY <1>1, <2>4, <3>1, <3>2, CreatingLeft, UpdatingLeft, ApplyingLeft, RemovingLeft
  <2> QED
    BY <2>1, <2>2, <2>3, <2>4 DEF Handle
<1>4. ASSUME NEW q \in Procs, (Busy(q))' PROVE LeftAt(q)'
  <2>1. CASE q = p
    BY <1>3, <1>4, <2>1
  <2>2. CASE q # p /\ op'[q].id \in Ids
    <3>1. op'[q] = op[q] /\ Busy(q)
      BY <1>0, <1>4, <2>2 DEF Place, OthersWait, Busy
    <3>2. op'[p].id # op[q].id
      BY <1>0, <1>4, <2>2, <3>1, IdleElsewhere
    <3>3. /\ rows'[op[q].id] = rows[op[q].id] /\ unit'[op[q].id] = unit[op[q].id]
          /\ key'[op[q].id] = key[op[q].id] /\ yaml'[op[q].id] = yaml[op[q].id]
      BY <1>0, <2>2, <3>1, <3>2 DEF Place
    <3>4. LeftFacts(op[q], rows[op[q].id], yaml[op[q].id], key[op[q].id], unit[op[q].id], left.disk)
      BY <2>2, <3>1 DEF LeftInv, LeftAt
    <3>5. op[q].pc \in {"undo_row", "undo_files"} => left'.disk < MaxDisk
      BY <3>4 DEF LeftFacts
    <3> QED
      BY <3>1, <3>3, <3>4, <3>5 DEF LeftAt, LeftFacts
  <2>3. CASE op'[q].id \notin Ids
    BY <2>3 DEF LeftAt, Ids
  <2> QED
    BY <2>1, <2>2, <2>3
<1>5. ASSUME NEW i \in Ids, rows'[i] = Nil, i # op'[p].id
      PROVE  Gone(i)' \/ \E q \in Procs : op'[q].id = i /\ op'[q].pc = "undo_files"
  <2>1. rows[i] = Nil /\ (Gone(i) => Gone(i)')
    BY <1>0, <1>5 DEF Place, Gone, Still
  <2>2. ASSUME NEW q \in Procs, op[q].id = i, op[q].pc = "undo_files"
        PROVE  op'[q].id = i /\ op'[q].pc = "undo_files"
    <3>1. CASE q # p
      BY <1>0, <2>2, <3>1 DEF Place, OthersWait
    <3>2. CASE q = p
      BY <1>5, <2>2, <3>2, Leaves DEF Busy
    <3> QED
      BY <3>1, <3>2
  <2> QED
    BY <1>2, <2>1, <2>2
<1>6. ASSUME NEW i \in Ids, i = op'[p].id, rows'[i] = Nil
      PROVE  Gone(i)' \/ op'[p].pc = "undo_files"
  <2>1. CASE UndoRow(p)
    BY <2>1, GoesOn DEF UndoRow
  <2>2. CASE UndoFiles(p)
    <3>1. op[p].pc = "undo_files" /\ unit' = unit /\ i = op[p].id
      BY <1>6, <2>2, Ends DEF UndoFiles, At, Over, SameWork
    <3>2. Busy(p) /\ left.disk < MaxDisk
      BY <1>1, <1>6, <3>1 DEF Busy, LeftAt, LeftFacts
    <3>3. ~DiskFault
      BY <3>2
    <3>4. /\ yaml' = [yaml EXCEPT ![op[p].id] = Nil] /\ key' = [key EXCEPT ![op[p].id] = 0]
      BY <2>2, <3>3 DEF UndoFiles
    <3>5. Still(unit[i])
      BY <1>6, <3>1 DEF NewInv
    <3>6. yaml'[i] = Nil /\ key'[i] = 0 /\ Still(unit'[i])
      BY <1>0, <1>6, <3>1, <3>4, <3>5
    <3> QED
      BY <3>6 DEF Gone, Still
  <2>3. CASE RemoveRow(p) /\ rows[i] # Nil
    <3>1. /\ op[p].pc = "remove_row" /\ UNCHANGED <<yaml, key, unit>> /\ i = op[p].id
          /\ Finish(p, "ok") \/ Finish(p, "error")
      BY <1>6, <2>3, Ends DEF RemoveRow, At, Over, SameWork
    <3>2. ~op[p].cancelled
      BY <1>6, <2>3 DEF RemoveRow
    <3>3. LeftFacts(op[p], rows[i], yaml[i], key[i], unit[i], left.disk)
      BY <1>1, <1>6, <3>1 DEF Busy, LeftAt
    <3> QED
      BY <3>1, <3>2, <3>3 DEF LeftFacts, Gone, Still
  <2>4. CASE rows[i] = Nil /\ ~UndoFiles(p)
    <3>1. UNCHANGED <<yaml[i], key[i], unit[i]>>
      <4>1. CASE Begin(p) \/ Cancel(p) \/ Respond(p)
        BY <4>1 DEF Begin, Cancel, Respond
      <4>2. CASE Creating(p) \/ Updating(p) \/ Applying(p) \/ Removing(p)
        <5>1. Busy(p)
          BY <4>2, CreatingCourse, UpdatingCourse, ApplyingCourse, RemovingCourse
          DEF Course, Busy, AloneInv
        <5>2. CASE op[p].id = i
          BY <1>1, <1>6, <2>4, <4>2, <5>1, <5>2, Untouched
        <5>3. CASE op[p].id # i
          <6>1. op[p].pc \in {"insert", "token_next", "done"}
            BY <1>6, <5>1, <5>3, Leaves
          <6> QED
            BY <6>1, <4>2 DEF Creating, Updating, Applying, Removing, DupRead, CountInstances,
               InsertRow, InsertReread, WriteNewKey, WriteNewYaml, UndoRow, UndoFiles, RawRead,
               TokenList, TokenNext, ReadOld, ReadFiles, WriteYaml, ExecUpdate, Reread, UndoYaml,
               ReadKey, WriteKey, ReadStatus, Launch, WaitActive, RevertRow, BackRow, BackYaml,
               BackKey, BackLaunch, Decorate, CheckRow, StopUnit, RemoveFiles, RemoveRow, At
        <5> QED
          BY <5>2, <5>3
      <4> QED
        BY <4>1, <4>2 DEF Handle
    <3>2. Gone(i) => Gone(i)'
      BY <3>1 DEF Gone, Still
    <3>3. ASSUME NEW q \in Procs, op[q].id = i, op[q].pc = "undo_files"
          PROVE  q = p /\ op'[p].pc = "undo_files"
      <4>1. q = p
        <5>1. CASE q # p
          <6>1. op'[q] = op[q] /\ (Busy(q))'
            BY <1>0, <3>3, <5>1 DEF Place, OthersWait, Busy
          <6> QED
            BY <1>6, <3>3, <5>1, <6>1, IdleElsewhere
        <5> QED
          BY <5>1
      <4>2. Cancel(p)
        BY <2>4, <3>3, <4>1 DEF Handle, Begin, Respond, Creating, Updating, Applying, Removing,
           DupRead, CountInstances,
           InsertRow, InsertReread, WriteNewKey, WriteNewYaml, UndoRow, UndoFiles, RawRead,
           TokenList, TokenNext, ReadOld, ReadFiles, WriteYaml, ExecUpdate, Reread, UndoYaml,
           ReadKey, WriteKey, ReadStatus, Launch, WaitActive, RevertRow, BackRow, BackYaml,
           BackKey, BackLaunch, Decorate, CheckRow, StopUnit, RemoveFiles, RemoveRow, At
      <4> QED
        BY <3>3, <4>1, <4>2, Departure DEF AloneInv
    <3> QED
      BY <1>2, <1>6, <2>4, <3>2, <3>3
  <2> QED
    BY <1>6, <2>1, <2>2, <2>3, <2>4, RowStays
<1>7. ASSUME NEW i \in Ids, rows'[i] = Nil
      PROVE  Gone(i)' \/ \E q \in Procs : op'[q].id = i /\ op'[q].pc = "undo_files"
  BY <1>5, <1>6, <1>7
<1> QED
  BY <1>4, <1>7 DEF LeftInv

(* The steps of systemd and of the panel's start, with at most one fault.  *)
LEMMA OtherLeft ==
  ASSUME Typed, AloneInv, NewInv, LeftInv, OneFault, up,
         (\E i \in Ids : UnitDies(i) \/ UnitRestarts(i)) \/ UNCHANGED vars
  PROVE  LeftInv'
<1>0. /\ \A p \in Procs : Busy(p) => LeftAt(p)
      /\ \A i \in Ids : rows[i] = Nil =>
           Gone(i) \/ \E p \in Procs : op[p].id = i /\ op[p].pc = "undo_files"
  BY DEF LeftInv
<1>1. ASSUME NEW i \in Ids, UnitDies(i) \/ UnitRestarts(i) PROVE LeftInv'
  <2>0. /\ UNCHANGED <<rows, key, yaml, op>> /\ ~Still(unit[i])
        /\ left'.disk = left.disk
        /\ \A j \in Ids : j # i => unit'[j] = unit[j]
    BY <1>1 DEF UnitDies, UnitRestarts, Still, Typed, TypeOK, Budget
  <2>1. ASSUME NEW p \in Procs, Busy(p) PROVE LeftAt(p)'
    <3>1. CASE op[p].id \in Ids
      <4>1. LeftFacts(op[p], rows[op[p].id], yaml[op[p].id], key[op[p].id], unit[op[p].id], left.disk)
        BY <1>0, <2>1, <3>1 DEF LeftAt
      <4>2. CASE op[p].id = i
        BY <2>0, <4>1, <4>2 DEF LeftAt, LeftFacts
      <4>3. CASE op[p].id # i
        BY <2>0, <3>1, <4>1, <4>3 DEF LeftAt, LeftFacts, Still
      <4> QED
        BY <4>2, <4>3
    <3>2. CASE op[p].id \notin Ids
      BY <2>0, <3>2 DEF LeftAt, Ids
    <3> QED
      BY <3>1, <3>2
  <2>2. ASSUME NEW j \in Ids, rows[j] = Nil
        PROVE  Gone(j)' \/ \E p \in Procs : op'[p].id = j /\ op'[p].pc = "undo_files"
    <3>1. CASE j # i
      BY <1>0, <2>0, <2>2, <3>1 DEF Gone, Still
    <3>2. CASE j = i
      <4>1. ~Gone(j)
        BY <2>0, <3>2 DEF Gone
      <4>2. PICK p \in Procs : op[p].id = j /\ op[p].pc = "undo_files"
        BY <1>0, <2>2, <4>1
      <4> QED
        BY <2>0, <4>2
    <3> QED
      BY <3>1, <3>2
  <2> QED
    BY <2>0, <2>1, <2>2 DEF LeftInv, Busy
<1>2. CASE UNCHANGED vars
  BY <1>0, <1>2 DEF vars, LeftInv, Busy, LeftAt, LeftFacts, Still, Gone
<1> QED
  BY <1>1, <1>2

(* The empty panel has nothing to leave behind.                            *)
LEMMA InitLeft == Init => LeftInv
<1>1. Init => \A p \in Procs : op[p].pc = "idle"
  BY DEF Init, IdleOp
<1>2. Init => \A i \in Ids : Gone(i)
  BY DEF Init, Gone, Still, Off
<1> QED
  BY <1>1, <1>2 DEF LeftInv, Busy

(* LeftInv is inductive when requests keep apart.                          *)
LEMMA StepLeft ==
  ASSUME KeptApart, KeptApart', Typed, Typed', AloneInv, AloneInv', TableInv, Budgets, Budgets',
         NewInv, NewInv', LeftInv, [Next]_vars
  PROVE  LeftInv'
<1>1. CASE ~OneFault'
  BY <1>1 DEF LeftInv
<1>2. CASE OneFault'
  <2>1. /\ OneFault /\ ~Crash /\ up /\ left'.disk \in Nat /\ left.disk \in Nat
        /\ left'.disk <= left.disk
        /\ DiskFault => left.disk = MaxDisk /\ left'.disk < MaxDisk
        /\ \A p \in Procs : CtlFault(p) => op[p].cancelled
    BY <1>2, OneFaultStep
  <2>2. ASSUME NEW p \in Procs, Begin(p) \/ Cancel(p) \/ Handle(p) PROVE LeftInv'
    BY <2>1, <2>2, HandlerLeft, BoundAssumption
  <2>3. ~Boot /\ ~BootFails
    BY <2>1 DEF Boot, BootFails
  <2> QED
    BY <2>1, <2>2, <2>3, OtherLeft DEF Next
<1> QED
  BY <1>1, <1>2

(* NoLeftovers of InstanceManager: an instance that was deleted, or whose  *)
(* creation was undone, leaves no config.yaml, no key.hex and no process   *)
(* behind, whichever single file operation fails and whichever client      *)
(* disconnects, as long as the panel and systemctl do not fail.            *)
THEOREM NoLeftoversHolds == Spec => []NoLeftovers
<1>1. Init => NewInv /\ LeftInv
  BY InitNew, InitLeft
<1>2. /\ Lone /\ (KeptApart => Filed) /\ Lone' /\ (KeptApart => Filed)' /\ [Next]_vars
      /\ (KeptApart => NewInv /\ LeftInv)
      => (KeptApart => NewInv /\ LeftInv)'
  BY StepNew, StepLeft, StillApart DEF Lone, Filed
<1>3. Spec => [](Lone /\ (KeptApart => Filed))
  BY SpecFiles
<1>4. (KeptApart => LeftInv) => NoLeftovers
  <2> SUFFICES ASSUME LeftInv, Settled, Spared({"crashes", "ctl"}), left.disk + 1 >= MaxDisk,
                      NEW i \in Ids, rows[i] = Nil
               PROVE  Gone(i)
    BY DEF NoLeftovers, Gone, Still
  <2>1. OneFault
    BY DEF Spared, Limits, OneFault
  <2>2. Gone(i) \/ \E p \in Procs : op[p].id = i /\ op[p].pc = "undo_files"
    BY <2>1 DEF LeftInv
  <2> QED
    BY <2>2 DEF Settled
<1> QED
  BY <1>1, <1>2, <1>3, <1>4, PTL DEF Spec

=============================================================================
