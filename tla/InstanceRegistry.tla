-------------------------- MODULE InstanceRegistry --------------------------
(***************************************************************************)
(* What the instance API promises about the table of instances: a call     *)
(* that succeeds has had its whole effect, once; a call that fails or is   *)
(* rolled back has had none; and nothing else changes the table.  When the *)
(* panel is killed, a call in progress has had its effect or not.          *)
(***************************************************************************)
EXTENDS Naturals

CONSTANTS Procs, MaxId, Nil, Keep

VARIABLES
  table,  (* the instances a client may rely on                            *)
  call    (* the call each client is waiting for, with its reply           *)

vars == <<table, call>>

Ids == 1..MaxId

Fresh(cid) == \A j \in Ids : table[j] # Nil => table[j].cid # cid
Unnamed(name, i) == \A j \in Ids \ {i} : table[j] # Nil => table[j].name # name

(* Only the entry of instance i changes.                                   *)
OnlyAt(i) == table' = [table EXCEPT ![i] = table'[i]]

(* A new instance, stopped, with an identity of its own.                   *)
Add(name, settings) ==
  \E i \in Ids :
    /\ table[i] = Nil /\ table'[i] # Nil
    /\ OnlyAt(i)
    /\ table'[i].name = name /\ Unnamed(name, i)
    /\ Fresh(table'[i].cid)
    /\ [room |-> table'[i].room, token |-> table'[i].token] \in settings

Settings(i) == [room |-> table[i].room, token |-> table[i].token]

Effect(c) ==
  CASE c.kind = "create" ->
         Add(c.req.name, {[room |-> c.req.room, token |-> c.req.token]})
    [] c.kind = "duplicate" ->
         Add(c.req.name, {Settings(i) : i \in {j \in Ids : table[j] # Nil}})
    [] c.kind = "edit" ->
         /\ table[c.id] # Nil /\ Unnamed(c.req.name, c.id)
         /\ table' = [table EXCEPT
                        ![c.id].name = c.req.name, ![c.id].room = c.req.room,
                        ![c.id].token = IF c.req.token = Keep THEN @ ELSE c.req.token]
    [] c.kind = "room" ->
         table[c.id] # Nil /\ table' = [table EXCEPT ![c.id].room = c.req.room]
    [] c.kind = "rotate_client" ->
         /\ table[c.id] # Nil /\ table'[c.id] # Nil
         /\ Fresh(table'[c.id].cid)
         /\ table' = [table EXCEPT ![c.id].cid = table'[c.id].cid]
    [] c.kind = "delete" ->
         table[c.id] # Nil /\ table' = [table EXCEPT ![c.id] = Nil]
    [] OTHER -> UNCHANGED table

Init ==
  /\ table = [i \in Ids |-> Nil]
  /\ call = [p \in Procs |-> Nil]

Call(p) ==
  /\ call[p] = Nil
  /\ call'[p] # Nil /\ call'[p].reply = "none"
  /\ call' = [call EXCEPT ![p] = call'[p]]
  /\ UNCHANGED table

Open(p) == call[p] # Nil /\ call[p].reply = "none"

Succeed(p) ==
  /\ Open(p)
  /\ Effect(call[p])
  /\ call' = [call EXCEPT ![p].reply = "ok"]

Fail(p) ==
  /\ Open(p)
  /\ call' = [call EXCEPT ![p].reply = "failed"]
  /\ UNCHANGED table

Return(p) ==
  /\ call[p] # Nil /\ ~Open(p)
  /\ call' = [call EXCEPT ![p] = Nil]
  /\ UNCHANGED table

PowerCut ==
  /\ call' = [p \in Procs |-> Nil]
  /\ UNCHANGED table \/ \E p \in Procs : Open(p) /\ Effect(call[p])

Next ==
  \/ \E p \in Procs : Call(p) \/ Succeed(p) \/ Fail(p) \/ Return(p)
  \/ PowerCut

Spec == Init /\ [][Next]_vars

=============================================================================
