--------------------------- MODULE SubscriptionFeed ---------------------------
(***************************************************************************)
(* What a subscription's feed says: the entries and their order, kept by   *)
(* the handlers of server/subscriptions.go in internal/store/subscriptions *)
(* .go, and render of internal/subscription/service.go, which reads them   *)
(* and the linked instances one statement after the other.                 *)
(*                                                                         *)
(* There is one slug; a subscription that is created again has another ID. *)
(* The revision of the feed and its mirror are in SubscriptionMirror, the  *)
(* operations on instances in InstanceManager: here an instance is edited  *)
(* in one step, and deleted files first.                                   *)
(***************************************************************************)
EXTENDS ConnectionUri, SequencesExt

CONSTANTS
  Procs,      (* goroutines of the administrator's requests                *)
  Instances,
  Configs,    (* what an instance can be configured to                     *)
  RawURIs,    (* URIs of manual entries                                    *)
  Orders,     (* values of sort_order that requests contain                *)
  ImportFile, (* the entries in a file of exported subscriptions           *)
  None,
  MaxEntries, (* bound: IDs of entries                                     *)
  MaxSubs,    (* bound: IDs of subscriptions                               *)
  MaxUsed,    (* bound: traffic of an instance                             *)
  MaxWrites,  (* bound: changes by requests                                *)
  MaxRenders  (* bound: requests for the feed                              *)

ASSUME ConfigsAssumption ==
  \A c \in Configs : /\ ValidInstance(c)
                     /\ c.token \in BOOLEAN /\ c.omit \in BOOLEAN /\ c.quota \in Nat
ASSUME OrdersAssumption == Orders \subseteq Int
ASSUME NoneAssumption == None \notin Instances \cup RawURIs
ASSUME BoundAssumption ==
  /\ MaxEntries \in Nat /\ MaxSubs \in Nat /\ MaxUsed \in Nat
  /\ MaxWrites \in Nat /\ MaxRenders \in Nat

VARIABLES
  sub,      (* the row of the subscription                                 *)
  entry,    (* the rows of entries, by ID                                  *)
  lastId,   (* AUTOINCREMENT of the entries                                *)
  inst,     (* the instances                                               *)
  fk,       (* the database checks foreign keys                            *)
  op,       (* the administrator's requests                                *)
  reader,   (* a request for the feed                                      *)
  sent,     (* history: the order the administrator has set, by position   *)
  left      (* the changes and requests the bounds still allow             *)

vars == <<sub, entry, lastId, inst, fk, op, reader, sent, left>>

EntryIds == 1..MaxEntries
Formats == {"client", "olcbox"}

NoEntry == [here |-> FALSE, sub |-> 0, source |-> None, raw |-> None, enabled |-> FALSE,
            order |-> 0]
Linked(i, order) == [NoEntry EXCEPT !.here = TRUE, !.source = i, !.enabled = TRUE,
                                    !.order = order]
Manual(uri, order) == [NoEntry EXCEPT !.here = TRUE, !.raw = uri, !.enabled = TRUE,
                                      !.order = order]

Idle == [pc |-> "idle", sub |-> 0, id |-> 0, new |-> NoEntry, ids |-> << >>, file |-> << >>]
Silent == [pc |-> "idle", format |-> "client", sub |-> 0, omit |-> FALSE, todo |-> << >>,
           item |-> None, lines |-> << >>,
           used |-> 0, available |-> 0, limited |-> TRUE, total |-> 0,
           subOpen |-> FALSE, instOpen |-> {}, moved |-> {}, steady |-> {}]

Init ==
  /\ \E omit \in BOOLEAN : sub = [id |-> 1, here |-> TRUE, enabled |-> TRUE, omit |-> omit]
  /\ \E config \in [Instances -> Configs] :
       inst = [i \in Instances |-> [here |-> TRUE, key |-> TRUE, config |-> config[i], used |-> 0]]
  /\ \E i \in Instances :
       entry = [e \in EntryIds |-> IF e = 1 THEN [Linked(i, 0) EXCEPT !.sub = 1] ELSE NoEntry]
  /\ lastId = 1 /\ fk = TRUE
  /\ op = [p \in Procs |-> Idle]
  /\ reader = Silent
  /\ sent = << >>
  /\ left = [writes |-> MaxWrites, renders |-> MaxRenders]

Spend(what) == left[what] > 0 /\ left' = [left EXCEPT ![what] = @ - 1]
Start(p, request) == op[p] = Idle /\ op' = [op EXCEPT ![p] = request]
End(p) == op' = [op EXCEPT ![p] = Idle]

(* SubscriptionEntries: ORDER BY sort_order, id; render skips the disabled.*)
Before(d, e) ==
  \/ entry[d].order < entry[e].order
  \/ entry[d].order = entry[e].order /\ d < e
Members(id) == {e \in EntryIds : entry[e].here /\ entry[e].sub = id}
Listing(id) ==
  {listed \in SetToSeqs({e \in Members(id) : entry[e].enabled}) : IsSorted(listed, Before)}

(* History: the entries that did not change since a rendering listed them  *)
(* and whose instance it could read.                                       *)
Rendering == reader.pc \in {"entries", "resolve", "uri"}
Disturbed(es) == reader' = [reader EXCEPT !.steady = @ \ es]

-----------------------------------------------------------------------------
(* The administrator changes entries: the handler reads the subscription,  *)
(* then validates, then writes.                                            *)

(* validateEntry: a link to an instance that is there, or a URI that one   *)
(* of the formats knows.                                                   *)
ValidEntry(new) ==
  IF new.source # None
  THEN inst[new.source].here
  ELSE ValidateClientURI(new.raw) \/ ValidateStandardURI(new.raw)

Sources(order) == {Linked(i, order) : i \in Instances} \cup {Manual(u, order) : u \in RawURIs}

ASSUME FileAssumption ==
  /\ ImportFile \in Seq(ToSet(ImportFile))
  /\ \A new \in ToSet(ImportFile) : new.order \in Int /\ new \in Sources(new.order)

(* The foreign keys of subscription_entries.                               *)
ForeignKeys(new) ==
  fk => /\ sub.here /\ sub.id = new.sub
        /\ new.source # None => inst[new.source].here

(* Open turns foreign keys on for its connection; after an hour            *)
(* (SetConnMaxLifetime) it is replaced by one without.                     *)
Reconnect ==
  /\ fk /\ Spend("writes")
  /\ fk' = FALSE
  /\ UNCHANGED <<sub, entry, lastId, inst, op, reader, sent>>

(* handleEntriesCreate: a sort_order of zero stands for the end.           *)
CreateBegin(p) ==
  /\ sub.here /\ Spend("writes")
  /\ \E order \in Orders :
       LET place == IF order = 0 THEN Cardinality(Members(sub.id)) ELSE order
       IN \E new \in Sources(place) :
            /\ ValidEntry(new)
            /\ Start(p, [Idle EXCEPT !.pc = "insert", !.new = [new EXCEPT !.sub = sub.id]])
  /\ UNCHANGED <<sub, entry, lastId, inst, fk, reader, sent>>

Insert(new) ==
  IF ForeignKeys(new)
  THEN lastId < MaxEntries /\ lastId' = lastId + 1
       /\ entry' = [entry EXCEPT ![lastId + 1] = new]
  ELSE UNCHANGED <<entry, lastId>>

CreateWrite(p) ==
  /\ op[p].pc = "insert"
  /\ Insert(op[p].new)
  /\ End(p)
  /\ UNCHANGED <<sub, inst, fk, reader, sent, left>>

(* handleEntryUpdate: every column is as the request says.                 *)
UpdateBegin(p) ==
  /\ sub.here /\ Spend("writes")
  /\ \E e \in Members(sub.id), order \in Orders, enabled \in BOOLEAN :
       \E new \in Sources(order) :
         /\ ValidEntry(new)
         /\ Start(p, [Idle EXCEPT !.pc = "update", !.id = e,
                                  !.new = [new EXCEPT !.sub = sub.id, !.enabled = enabled]])
  /\ UNCHANGED <<sub, entry, lastId, inst, fk, reader, sent>>

UpdateWrite(p) ==
  /\ op[p].pc = "update"
  /\ LET e == op[p].id
     IN \/ /\ entry[e].here /\ ForeignKeys(op[p].new)
           /\ entry' = [entry EXCEPT ![e] = op[p].new]
           /\ sent' = Restrict(sent, {k \in DOMAIN sent : sent[k] # e})
           /\ Disturbed({e})
        \/ /\ ~(entry[e].here /\ ForeignKeys(op[p].new))
           /\ UNCHANGED <<entry, sent, reader>>
  /\ End(p)
  /\ UNCHANGED <<sub, lastId, inst, fk, left>>

(* handleEntryDelete.                                                      *)
DeleteBegin(p) ==
  /\ sub.here /\ Spend("writes")
  /\ \E e \in 1..lastId : Start(p, [Idle EXCEPT !.pc = "delete", !.sub = sub.id, !.id = e])
  /\ UNCHANGED <<sub, entry, lastId, inst, fk, reader, sent>>

DeleteWrite(p) ==
  /\ op[p].pc = "delete"
  /\ LET gone == {op[p].id} \cap Members(op[p].sub)
     IN /\ entry' = [e \in EntryIds |-> IF e \in gone THEN NoEntry ELSE entry[e]]
        /\ Disturbed(gone)
  /\ End(p)
  /\ UNCHANGED <<sub, lastId, inst, fk, sent, left>>

(* handleEntriesReorder: the request names every entry that was read.      *)
ReorderBegin(p) ==
  /\ sub.here /\ Spend("writes")
  /\ \E ids \in SetToSeqs(Members(sub.id)) :
       Start(p, [Idle EXCEPT !.pc = "reorder", !.sub = sub.id, !.ids = ids])
  /\ UNCHANGED <<sub, entry, lastId, inst, fk, reader, sent>>

(* Mutant: the IDs are sorted in place for the comparison.                 *)
Place_Sorted(ids, e) == Cardinality({d \in ToSet(ids) : d < e})

Place(ids, e) == (CHOOSE k \in DOMAIN ids : ids[k] = e) - 1

(* ReorderSubscriptionEntries: one transaction, which an ID that is gone   *)
(* rolls back.                                                             *)
ReorderWrite(p) ==
  /\ op[p].pc = "reorder"
  /\ LET ids == op[p].ids
     IN \/ /\ ToSet(ids) \subseteq Members(op[p].sub)
           /\ entry' = [e \in EntryIds |->
                          IF e \in ToSet(ids) THEN [entry[e] EXCEPT !.order = Place(ids, e)]
                                              ELSE entry[e]]
           /\ sent' = ids
        \/ /\ ~(ToSet(ids) \subseteq Members(op[p].sub))
           /\ UNCHANGED <<entry, sent>>
  /\ End(p)
  /\ UNCHANGED <<sub, lastId, inst, fk, reader, left>>

-----------------------------------------------------------------------------
(* The administrator changes the subscription.                             *)

(* handleSubscriptionUpdate, for the columns render reads.                 *)
PutSubscription(enabled, omit) ==
  /\ sub.here /\ Spend("writes")
  /\ sub' = [sub EXCEPT !.enabled = enabled, !.omit = omit] /\ sub' # sub
  /\ reader' = IF Rendering THEN [reader EXCEPT !.subOpen = @ \/ ~omit] ELSE reader
  /\ UNCHANGED <<entry, lastId, inst, fk, op, sent>>

(* ON DELETE CASCADE: rows that refer to one that is deleted go with it.   *)
Cascade(lost) == [e \in EntryIds |-> IF fk /\ e \in lost THEN NoEntry ELSE entry[e]]

(* DeleteSubscription.                                                     *)
DropSubscription ==
  /\ sub.here /\ Spend("writes")
  /\ sub' = [sub EXCEPT !.here = FALSE]
  /\ entry' = Cascade(Members(sub.id))
  /\ sent' = << >>
  /\ Disturbed(EntryIds)
  /\ UNCHANGED <<lastId, inst, fk, op>>

(* handleSubscriptionsImport: the subscription, then its entries one by    *)
(* one; handleSubscriptionsCreate is the same without entries.             *)
NewSubscription(p, file) ==
  /\ ~sub.here /\ sub.id < MaxSubs /\ Spend("writes")
  /\ \E omit \in BOOLEAN :
       /\ sub' = [id |-> sub.id + 1, here |-> TRUE, enabled |-> TRUE, omit |-> omit]
       /\ reader' = IF Rendering THEN [reader EXCEPT !.subOpen = @ \/ ~omit] ELSE reader
  /\ Start(p, IF file = << >> THEN Idle
              ELSE [Idle EXCEPT !.pc = "import", !.sub = sub.id + 1, !.file = file])
  /\ UNCHANGED <<entry, lastId, inst, fk, sent>>

(* An entry that cannot be added is left out.                              *)
ImportEntry(p) ==
  /\ op[p].pc = "import"
  /\ LET new == [Head(op[p].file) EXCEPT !.sub = op[p].sub]
     IN IF ValidEntry(new) THEN Insert(new) ELSE UNCHANGED <<entry, lastId>>
  /\ IF Tail(op[p].file) = << >> THEN End(p)
                                 ELSE op' = [op EXCEPT ![p].file = Tail(@)]
  /\ UNCHANGED <<sub, inst, fk, reader, sent, left>>

-----------------------------------------------------------------------------
(* Instances change meanwhile.                                             *)

LinkedTo(i) == {e \in EntryIds : entry[e].source = i}

Edit(i, config) ==
  /\ inst[i].here /\ inst[i].key /\ config # inst[i].config /\ Spend("writes")
  /\ inst' = [inst EXCEPT ![i].config = config]
  /\ reader' =
       [reader EXCEPT
          !.steady = @ \ LinkedTo(i),
          !.instOpen = IF Rendering /\ ~config.omit THEN @ \cup {i} ELSE @,
          !.moved = IF /\ reader.pc = "uri" /\ Head(reader.todo).source = i
                       /\ config.provider # inst[i].config.provider
                    THEN @ \cup {i} ELSE @]
  /\ UNCHANGED <<sub, entry, lastId, fk, op, sent>>

Count(i) ==
  /\ inst[i].here /\ inst[i].used < MaxUsed /\ Spend("writes")
  /\ inst' = [inst EXCEPT ![i].used = @ + 1]
  /\ UNCHANGED <<sub, entry, lastId, fk, op, reader, sent>>

(* Manager.Delete: the files first, then the row; it may end in between.   *)
RemoveFiles(i) ==
  /\ inst[i].here /\ inst[i].key /\ Spend("writes")
  /\ inst' = [inst EXCEPT ![i].key = FALSE]
  /\ Disturbed(LinkedTo(i))
  /\ UNCHANGED <<sub, entry, lastId, fk, op, sent>>

RemoveRow(i) ==
  /\ inst[i].here /\ ~inst[i].key
  /\ inst' = [inst EXCEPT ![i].here = FALSE]
  /\ entry' = Cascade(LinkedTo(i))
  /\ Disturbed(LinkedTo(i))
  /\ UNCHANGED <<sub, lastId, fk, op, sent, left>>

-----------------------------------------------------------------------------
(* A client fetches the feed in one of the formats.                        *)

(* Subscription reads the row, then its entries.                           *)
RenderRow(format) ==
  /\ reader = Silent /\ Spend("renders")
  /\ sub.here /\ sub.enabled
  /\ reader' = [Silent EXCEPT !.pc = "entries", !.format = format, !.sub = sub.id,
                              !.omit = sub.omit, !.subOpen = ~sub.omit,
                              !.instOpen = {i \in Instances : ~inst[i].config.omit}]
  /\ UNCHANGED <<sub, entry, lastId, inst, fk, op, sent>>

RenderEntries ==
  /\ reader.pc = "entries"
  /\ \E listed \in Listing(reader.sub) :
       reader' = [reader EXCEPT !.pc = "resolve", !.steady = ToSet(listed),
                    !.todo = [k \in DOMAIN listed |->
                                [id |-> listed[k], source |-> entry[listed[k]].source,
                                 raw |-> entry[listed[k]].raw]]]
  /\ UNCHANGED <<sub, entry, lastId, inst, fk, op, sent, left>>

Line(id, source, uri, used, quota) ==
  [id |-> id, source |-> source, uri |-> uri, used |-> used, quota |-> quota]

(* Mutant: what is left of a quota may be less than nothing.               *)
Remaining_Debt(line) == line.quota - line.used

Remaining(line) == IF line.used < line.quota THEN line.quota - line.used ELSE 0

(* The next entry becomes a line.  aggregateEntries adds the lines up when *)
(* all are there, as Get has read the instances; here the sums grow with   *)
(* them.                                                                   *)
Publish(line) ==
  reader' = [reader EXCEPT
    !.pc = "resolve", !.todo = Tail(@), !.item = None, !.lines = Append(@, line),
    !.used = @ + line.used, !.available = @ + Remaining(line),
    !.limited = @ /\ line.quota > 0]
Omit == reader' = [reader EXCEPT !.todo = Tail(@)]

(* resolveEntryForFormat for a manual entry: only if the format knows it.  *)
Known(format, uri) ==
  IF format = "client" THEN ValidateClientURI(uri) ELSE ValidateStandardURI(uri)

ResolveManual ==
  /\ reader.pc = "resolve" /\ reader.todo # << >>
  /\ LET e == Head(reader.todo)
     IN /\ e.source = None
        /\ IF Known(reader.format, e.raw) THEN Publish(Line(e.id, None, e.raw, 0, 0)) ELSE Omit
  /\ UNCHANGED <<sub, entry, lastId, inst, fk, op, sent, left>>

(* Mutant: an instance has to have a token, whether it is published or not.*)
Included_Token(item) ==
  reader.format = "client" =>
    /\ ClientCompatible(item.provider, item.transport)
    /\ item.provider = "wbstream" => item.token

Included(item) ==
  reader.format = "client" =>
    /\ ClientCompatible(item.provider, item.transport)
    /\ item.provider = "wbstream" => item.token \/ item.omit \/ reader.omit

(* For a linked entry the instance is read by Get; an entry whose instance *)
(* is gone, or of no use in the format, is left out; so is one for which   *)
(* Get fails, because the database or the status of the unit is not read.  *)
ResolveGet ==
  /\ reader.pc = "resolve" /\ reader.todo # << >>
  /\ LET e == Head(reader.todo)
         i == e.source
     IN /\ i # None
        /\ \/ IF inst[i].here /\ Included(inst[i].config)
              THEN reader' = [reader EXCEPT !.pc = "uri", !.item = inst[i]]
              ELSE Omit
           \/ reader' = [reader EXCEPT !.todo = Tail(@), !.steady = @ \ {e.id}]
  /\ UNCHANGED <<sub, entry, lastId, inst, fk, op, sent, left>>

(* Manager.URI reads the instance again, and its key; an error fails the   *)
(* whole feed.                                                             *)
ResolveURI ==
  /\ reader.pc = "uri"
  /\ LET e == Head(reader.todo)
         key == IF inst[e.source].key THEN "hex" ELSE "bad"
         item == inst[e.source].config
         uri == IF ~inst[e.source].here THEN Error
                ELSE IF reader.format = "client" THEN ClientURI(item, key)
                ELSE StandardURI(item, key, item.name)
         stripped == IF reader.format = "client" /\ reader.omit
                          /\ reader.item.config.provider = "wbstream"
                     THEN StripAuthToken(uri) ELSE uri
     IN IF uri = Error
        THEN reader' = [reader EXCEPT !.pc = "failed"]
        ELSE Publish(Line(e.id, e.source, stripped, reader.item.used,
                          reader.item.config.quota))
  /\ UNCHANGED <<sub, entry, lastId, inst, fk, op, sent, left>>

(* The total of TrafficHeader: nothing if a line is unlimited.             *)
Serve ==
  /\ reader.pc = "resolve" /\ reader.todo = << >>
  /\ reader' = [reader EXCEPT !.pc = "served",
                  !.total = IF reader.limited THEN reader.used + reader.available ELSE 0]
  /\ UNCHANGED <<sub, entry, lastId, inst, fk, op, sent, left>>

Rest ==
  /\ reader.pc \in {"served", "failed"}
  /\ reader' = Silent
  /\ UNCHANGED <<sub, entry, lastId, inst, fk, op, sent, left>>

-----------------------------------------------------------------------------
Next ==
  \/ \E p \in Procs :
       \/ CreateBegin(p) \/ CreateWrite(p) \/ UpdateBegin(p) \/ UpdateWrite(p)
       \/ DeleteBegin(p) \/ DeleteWrite(p) \/ ReorderBegin(p) \/ ReorderWrite(p)
       \/ ImportEntry(p)
       \/ \E file \in {<< >>, ImportFile} : NewSubscription(p, file)
  \/ \E enabled, omit \in BOOLEAN : PutSubscription(enabled, omit)
  \/ DropSubscription \/ Reconnect
  \/ \E i \in Instances :
       Count(i) \/ RemoveFiles(i) \/ RemoveRow(i) \/ \E c \in Configs : Edit(i, c)
  \/ \E format \in Formats : RenderRow(format)
  \/ RenderEntries \/ ResolveManual \/ ResolveGet \/ ResolveURI \/ Serve \/ Rest

Spec == Init /\ [][Next]_vars

-----------------------------------------------------------------------------
(* The entries of the last order the administrator has set are published   *)
(* in that order until an update places one of them elsewhere, whatever    *)
(* was added, deleted, or reordered without success since.                 *)
OrderAsSent ==
  \A k, l \in DOMAIN sent :
    k < l /\ entry[sent[k]].here /\ entry[sent[l]].here => Before(sent[k], sent[l])

Lines == {reader.lines[k] : k \in DOMAIN reader.lines}

(* What the panel publishes it would accept as a manual entry: every line  *)
(* of a feed passes the validation of its format.  The exceptions are what *)
(* Validate lets pass in an instance and the validation of its URI does    *)
(* not: in the client's format a frame rate above 120, a batch above 64, a *)
(* DNS server that is not a numeric address with a port in 1..65535; in    *)
(* that of OLCBOX a video_qr_recovery that is blank or has a separator; in *)
(* both a room of more than 16 KiB.                                        *)
BeyondClient(uri) ==
  \/ "d" \in DOMAIN uri.params /\ uri.params["d"] # "address"
  \/ "f" \in DOMAIN uri.params /\ (uri.params["f"] > 120 \/ uri.params["b"] > 64)

BeyondStandard(uri) ==
  "video_qr_recovery" \in DOMAIN uri.payload /\ uri.payload["video_qr_recovery"] = Garbled

Beyond(format, uri) ==
  \/ "long" \in uri.room
  \/ format = "client" /\ BeyondClient(uri)
  \/ format = "olcbox" /\ BeyondStandard(uri)

LinesParse ==
  \A line \in Lines :
    \/ Known(reader.format, line.uri)
    \/ line.source # None /\ Beyond(reader.format, line.uri)

(* The token of a linked instance is in a feed only if, at some time since *)
(* the request began, the subscription allowed it, and at some time the    *)
(* instance did.  The exception is an instance whose provider was changed  *)
(* between the two readings of it.                                         *)
TokenWithheld ==
  \A line \in Lines :
    line.source # None /\ HasToken(line.uri) /\ line.source \notin reader.moved
      => reader.subOpen /\ line.source \in reader.instOpen

(* A feed that is served has every entry that was listed and enabled, did  *)
(* not change with its instance since, and whose instance Get could read,  *)
(* if it can be said in the format.                                        *)
Sayable(e) ==
  IF e.source = None
  THEN Known(reader.format, e.raw)
  ELSE /\ inst[e.source].here /\ inst[e.source].key
       /\ LET item == inst[e.source].config
          IN reader.format = "client" => ClientURI(item, "hex") # Error

NothingLost ==
  reader.pc = "served" =>
    \A e \in reader.steady : Sayable(entry[e]) => \E line \in Lines : line.id = e

(* The header never says that more was used than there is, and names no    *)
(* total exactly if a line is unlimited or the feed is empty.              *)
HeaderHonest ==
  reader.pc = "served" =>
    /\ reader.total = 0 <=> reader.lines = << >> \/ \E line \in Lines : line.quota = 0
    /\ reader.total # 0 => reader.used <= reader.total

(* A feed fails for a reason only: the instance it fails at, or the entry, *)
(* changed since the entries were listed, or the instance is being deleted.*)
(* The exception is an instance without token in a subscription that asks  *)
(* for feeds without tokens: Included lets it in, ClientURI does not.      *)
FailsForReason ==
  reader.pc = "failed" =>
    LET e == Head(reader.todo)
        item == reader.item.config
    IN \/ e.id \notin reader.steady
       \/ ~inst[e.source].key
       \/ reader.format = "client" /\ reader.omit /\ ~item.token /\ ~item.omit

=============================================================================
