------------------------- MODULE TrafficLedgerProofs -------------------------
(***************************************************************************)
(* For every number of instances, entries and faults: no event is counted  *)
(* twice, none that follows the first is left out, and the ledger with its *)
(* counters implements TrafficMeter.                                       *)
(***************************************************************************)
EXTENDS TrafficLedger, TLAPS

(* A counter contains recorded events of its own instance, each once.      *)
Consistent ==
  \A u \in exists, pos \in Positions :
    /\ counter[u][pos] <= 1
    /\ counter[u][pos] > 0 => pos \in ledger /\ journal[pos].unit = u

Inv == TypeOK /\ Consistent

(* The bounds are numbers.                                                 *)
LEMMA LimitsType == Limits \in Budget
BY BoundAssumption DEF Limits, Budget

(* The empty ledger is consistent.                                         *)
LEMMA InitInv == Init => Inv
<1> SUFFICES ASSUME Init PROVE Inv OBVIOUS
<1>1. Idle \in Reader
  BY DEF Idle, Reader
<1>2. Nothing \in [Positions -> Nat]
  BY DEF Nothing
<1>3. TypeOK
  BY <1>1, <1>2, LimitsType, BoundAssumption DEF Init, TypeOK, Entry
<1>4. Consistent
  BY DEF Init, Consistent, Nothing
<1> QED BY <1>3, <1>4 DEF Inv

(* Spending from the budget leaves a budget.                               *)
LEMMA SpendType ==
  ASSUME NEW what \in {"rotations", "stops", "resets", "deletes", "errors"},
         left \in Budget, Spend(what)
  PROVE  left' \in Budget
BY DEF Spend, Budget

(* Every entry of the journal belongs to an instance and has a time.       *)
LEMMA EntryType ==
  ASSUME TypeOK, NEW pos \in 1..Len(journal)
  PROVE  journal[pos].unit \in Units /\ journal[pos].sec \in Nat
<1>1. journal[pos] \in Entry
  BY DEF TypeOK
<1> QED BY <1>1 DEF Entry

(* What Run reads from the ledger is a state of the collector.             *)
LEMMA StartType ==
  ASSUME NEW pos \in Nat, NEW sec \in Nat
  PROVE  /\ [Idle EXCEPT !.pc = "start"] \in Reader
         /\ [Idle EXCEPT !.pc = "start", !.cursor = pos, !.sec = sec] \in Reader
<1>1. Idle \in Reader
  BY DEF Idle, Reader
<1> QED BY <1>1 DEF Reader

(* The same of a journalctl that delivers pos next.                        *)
LEMMA FollowType ==
  ASSUME reader \in Reader, NEW pos \in Nat, NEW pc \in {"follow", "fallback"}
  PROVE  /\ [reader EXCEPT !.pc = pc, !.next = pos] \in Reader
         /\ [reader EXCEPT !.next = pos] \in Reader
BY DEF Reader

(* Counting an event changes this one number.                              *)
LEMMA CountType ==
  ASSUME NEW c \in [Units -> [Positions -> Nat]], NEW u \in Units, NEW pos \in Positions,
         NEW d, d = [c EXCEPT ![u][pos] = @ + 1]
  PROVE  /\ d \in [Units -> [Positions -> Nat]]
         /\ d[u][pos] = c[u][pos] + 1
         /\ \A v \in Units, q \in Positions : ~(v = u /\ q = pos) => d[v][q] = c[v][q]
<1>1. c[u] \in [Positions -> Nat] /\ c[u][pos] \in Nat
  OBVIOUS
<1> DEFINE row == [c[u] EXCEPT ![pos] = @ + 1]
<1>2. row \in [Positions -> Nat]
  BY <1>1
<1>3. row[pos] = c[u][pos] + 1
  BY <1>1
<1>4. \A q \in Positions : q # pos => row[q] = c[u][q]
  BY <1>1
<1>5. d = [c EXCEPT ![u] = row]
  OBVIOUS
<1> HIDE DEF row
<1>6. d \in [Units -> [Positions -> Nat]]
  BY <1>2, <1>5
<1>7. d[u] = row /\ \A v \in Units : v # u => d[v] = c[v]
  BY <1>5
<1> QED BY <1>3, <1>4, <1>6, <1>7

(* Emptying a counter leaves the others.                                   *)
LEMMA ZeroType ==
  ASSUME NEW c \in [Units -> [Positions -> Nat]], NEW u \in Units,
         NEW d, d = [c EXCEPT ![u] = Nothing]
  PROVE  /\ d \in [Units -> [Positions -> Nat]]
         /\ \A q \in Positions : d[u][q] = 0
         /\ \A v \in Units : v # u => d[v] = c[v]
<1>1. Nothing \in [Positions -> Nat] /\ \A q \in Positions : Nothing[q] = 0
  BY DEF Nothing
<1> QED BY <1>1

(* A new entry changes nothing of the entries before it.                   *)
LEMMA EmitEntries ==
  ASSUME TypeOK, NEW u \in Units, Emit(u)
  PROVE  /\ Len(journal') = Len(journal) + 1
         /\ journal' \in Seq(Entry)
         /\ \A pos \in 1..Len(journal) : journal'[pos] = journal[pos]
         /\ journal'[Len(journal) + 1].unit = u
<1>1. [unit |-> u, sec |-> clock] \in Entry
  BY DEF TypeOK, Entry
<1> QED BY <1>1 DEF Emit, TypeOK

(* A new entry keeps the ledger consistent.                                *)
LEMMA EmitInv == ASSUME Inv, NEW u \in Units, Emit(u) PROVE Inv'
<1>1. TypeOK'
  <2>1. journal' \in Seq(Entry) /\ Len(journal') <= MaxEntries
    BY EmitEntries, BoundAssumption DEF Inv, TypeOK, Emit
  <2>2. ledger' \subseteq 1..Len(journal')
    BY EmitEntries DEF Inv, TypeOK, Emit
  <2> QED BY <2>1, <2>2 DEF Inv, TypeOK, Emit
<1>2. Consistent'
  <2> SUFFICES ASSUME NEW v \in exists, NEW pos \in Positions
               PROVE  /\ counter[v][pos] <= 1
                      /\ counter[v][pos] > 0 => pos \in ledger /\ journal'[pos].unit = v
    BY DEF Consistent, Emit
  <2>1. counter[v][pos] <= 1
    BY DEF Inv, Consistent
  <2>2. ASSUME counter[v][pos] > 0 PROVE pos \in ledger /\ journal'[pos].unit = v
    <3>1. pos \in ledger /\ journal[pos].unit = v
      BY <2>2 DEF Inv, Consistent
    <3>2. pos \in 1..Len(journal)
      BY <3>1 DEF Inv, TypeOK
    <3> QED BY <3>1, <3>2, EmitEntries DEF Inv
  <2> QED BY <2>1, <2>2
<1> QED BY <1>1, <1>2 DEF Inv

(* What is read is an entry of the journal.                                *)
LEMMA NextPosition ==
  ASSUME Inv, ReadEntry
  PROVE  LET pos == Larger(reader.next, first)
         IN  pos \in 1..Len(journal) /\ pos \in Positions
<1>1. first \in Nat \ {0} /\ reader.next \in Nat /\ Len(journal) \in Nat
      /\ Len(journal) <= MaxEntries
  BY DEF Inv, TypeOK, Reader
<1>2. Larger(reader.next, first) <= Len(journal)
  BY DEF ReadEntry
<1> QED BY <1>1, <1>2, BoundAssumption DEF Larger, Positions

(* Reading an entry keeps the ledger consistent: INSERT OR IGNORE is what  *)
(* stops an event that is read again.                                      *)
LEMMA ReadEntryInv == ASSUME Inv, ReadEntry PROVE Inv'
<1> DEFINE pos == Larger(reader.next, first)
           unit == journal[pos].unit
<1>1. pos \in 1..Len(journal) /\ pos \in Positions
  BY NextPosition
<1>2. unit \in Units
  BY <1>1, EntryType DEF Inv
<1>3. reader' \in Reader
  <2>1. reader' = [reader EXCEPT !.next = pos + 1]
    BY DEF ReadEntry
  <2>2. pos + 1 \in Nat
    BY <1>1
  <2> HIDE DEF pos
  <2> QED BY <2>1, <2>2, FollowType DEF Inv, TypeOK
<1>4. left' \in Budget
  BY SpendType DEF ReadEntry, Inv, TypeOK
<1>5. CASE UNCHANGED <<ledger, origin, counter>>
  BY <1>3, <1>4, <1>5 DEF ReadEntry, Inv, TypeOK, Consistent
<1>6. CASE pos \notin ledger /\ Recorded(pos)
  <2>1. ledger' = ledger \cup {pos}
    BY <1>6 DEF Recorded
  <2>2. counter' = [counter EXCEPT ![unit][pos] = @ + 1]
    BY <1>6 DEF Recorded
  <2> HIDE DEF pos, unit
  <2>3. /\ counter' \in [Units -> [Positions -> Nat]]
        /\ counter'[unit][pos] = counter[unit][pos] + 1
        /\ \A v \in Units, q \in Positions :
             ~(v = unit /\ q = pos) => counter'[v][q] = counter[v][q]
    BY <2>2, <1>1, <1>2, CountType DEF Inv, TypeOK
  <2>4. TypeOK'
    <3>1. UNCHANGED <<journal, first, clock, exists, fk>>
      BY DEF ReadEntry
    <3>2. origin' \in Nat
      <4>1. origin' \in {pos, origin}
        BY <1>6 DEF Recorded
      <4> QED BY <4>1, <1>1 DEF Inv, TypeOK
    <3> QED BY <1>1, <1>3, <1>4, <2>1, <2>3, <3>1, <3>2 DEF Inv, TypeOK
  <2>5. Consistent'
    <3> SUFFICES ASSUME NEW v \in exists, NEW q \in Positions
                 PROVE  /\ counter'[v][q] <= 1
                        /\ counter'[v][q] > 0 => q \in ledger' /\ journal[q].unit = v
      <4>1. exists' = exists /\ journal' = journal
        BY DEF ReadEntry
      <4> QED BY <4>1 DEF Consistent
    <3> v \in Units
      BY DEF Inv, TypeOK
    <3>1. CASE v = unit /\ q = pos
      <4>1. counter[v][q] = 0
        BY <1>6, <3>1 DEF Inv, Consistent, TypeOK
      <4>2. counter'[v][q] = 1
        BY <4>1, <2>3, <3>1
      <4> QED BY <4>2, <2>1, <3>1 DEF unit
    <3>2. CASE ~(v = unit /\ q = pos)
      <4>1. counter'[v][q] = counter[v][q]
        BY <2>3, <3>2
      <4> QED BY <4>1, <2>1 DEF Inv, Consistent
    <3> QED BY <3>1, <3>2
  <2> QED BY <2>4, <2>5 DEF Inv
<1>7. UNCHANGED <<ledger, origin, counter>> \/ (pos \notin ledger /\ Recorded(pos))
  BY DEF ReadEntry, Recorded
<1> QED BY <1>5, <1>6, <1>7

(* Every step keeps the ledger consistent.                                 *)
LEMMA NextInv == Inv /\ [Next]_vars => Inv'
<1> SUFFICES ASSUME Inv, [Next]_vars PROVE Inv' OBVIOUS
<1> USE DEF Inv
<1>1. ASSUME NEW u \in Units, Emit(u) PROVE Inv'
  BY <1>1, EmitInv
<1>2. ASSUME NEW u \in Units, Reset(u) PROVE Inv'
  <2>1. left' \in Budget
    BY <1>2, SpendType DEF Reset, TypeOK
  <2>2. /\ counter' \in [Units -> [Positions -> Nat]]
        /\ \A q \in Positions : counter'[u][q] = 0
        /\ \A v \in Units : v # u => counter'[v] = counter[v]
    <3>1. counter \in [Units -> [Positions -> Nat]] /\ counter' = [counter EXCEPT ![u] = Nothing]
      BY <1>2 DEF Reset, TypeOK
    <3> QED BY <3>1, ZeroType
  <2>3. TypeOK'
    BY <1>2, <2>1, <2>2 DEF Reset, TypeOK
  <2>4. Consistent'
    BY <1>2, <2>2 DEF Reset, TypeOK, Consistent
  <2> QED BY <2>3, <2>4
<1>3. ASSUME NEW u \in Units, Delete(u) PROVE Inv'
  <2>1. left' \in Budget
    BY <1>3, SpendType DEF Delete, TypeOK
  <2>2. counter' \in [Units -> [Positions -> Nat]]
    BY <1>3, ZeroType DEF Delete, TypeOK
  <2>3. ledger' \subseteq ledger
    BY <1>3 DEF Delete
  <2>4. TypeOK'
    BY <1>3, <2>1, <2>2, <2>3 DEF Delete, TypeOK
  <2>5. Consistent'
    <3> SUFFICES ASSUME NEW v \in exists, v # u, NEW q \in Positions
                 PROVE  /\ counter'[v][q] <= 1
                        /\ counter'[v][q] > 0 => q \in ledger' /\ journal[q].unit = v
      BY <1>3 DEF Delete, Consistent
    <3>1. counter'[v] = counter[v]
      BY <1>3, ZeroType DEF Delete, TypeOK
    <3> QED BY <1>3, <3>1 DEF Delete, Consistent
  <2> QED BY <2>4, <2>5
<1>4. CASE Tick
  BY <1>4 DEF Tick, TypeOK, Consistent
<1>5. CASE Rotate
  <2>1. left' \in Budget
    BY <1>5, SpendType DEF Rotate, TypeOK
  <2> QED BY <1>5, <2>1 DEF Rotate, TypeOK, Consistent
<1>6. CASE Reconnect
  BY <1>6 DEF Reconnect, TypeOK, Consistent
<1>7. CASE ReadCursor
  <2>1. left' \in Budget
    BY <1>7, SpendType DEF ReadCursor, TypeOK
  <2>2. reader' \in Reader
    <3>1. ASSUME NEW pos \in Newest
          PROVE  pos \in Nat /\ journal[pos].sec \in Nat
      <4>1. pos \in 1..Len(journal)
        BY DEF Newest, TypeOK
      <4> QED BY <4>1, EntryType
    <3>2. CASE reader' = [Idle EXCEPT !.pc = "start"]
      BY <3>2, StartType
    <3>3. ASSUME NEW pos \in Newest,
                 reader' = [Idle EXCEPT !.pc = "start", !.cursor = pos, !.sec = journal[pos].sec]
          PROVE  reader' \in Reader
      BY <3>1, <3>3, StartType
    <3> QED BY <1>7, <3>2, <3>3 DEF ReadCursor
  <2> QED BY <1>7, <2>1, <2>2 DEF ReadCursor, TypeOK, Consistent
<1>8. CASE StartJournal
  <2>1. ResumeAt \in Nat
    BY ShowsAssumption DEF ResumeAt, Larger, TypeOK, Reader
  <2>2. reader' \in Reader
    BY <1>8, <2>1, FollowType DEF StartJournal, TypeOK
  <2> QED BY <1>8, <2>2 DEF StartJournal, TypeOK, Consistent
<1>9. CASE ReadEntry
  BY <1>9, ReadEntryInv
<1>10. CASE JournalFails
  <2>1. left' \in Budget
    BY <1>10, SpendType DEF JournalFails, TypeOK
  <2>2. reader' \in Reader
    <3>1. Idle \in Reader
      BY DEF Idle, Reader
    <3>2. ASSUME NEW pos \in first..(Len(journal) + 1),
                 reader' = [Idle EXCEPT !.pc = "fallback", !.next = pos]
          PROVE  reader' \in Reader
      <4>1. pos \in Nat
        BY DEF TypeOK
      <4> QED BY <3>1, <4>1, <3>2 DEF Reader
    <3> QED BY <1>10, <3>1, <3>2 DEF JournalFails
  <2> QED BY <1>10, <2>1, <2>2 DEF JournalFails, TypeOK, Consistent
<1>11. CASE Stop
  <2>1. left' \in Budget
    BY <1>11, SpendType DEF Stop, TypeOK
  <2> QED BY <1>11, <2>1 DEF Stop, TypeOK, Consistent, Reader, Idle
<1>12. CASE UNCHANGED vars
  BY <1>12 DEF vars, TypeOK, Consistent
<1> QED
  BY <1>1, <1>2, <1>3, <1>4, <1>5, <1>6, <1>7, <1>8, <1>9, <1>10, <1>11, <1>12
  DEF Next, Collect

(* Every variable keeps its type, and every counter its events.            *)
LEMMA SpecInv == Spec => []Inv
BY InitInv, NextInv, PTL DEF Spec

(* No event is in a counter twice, for every number of instances, journal  *)
(* entries, restarts of the collector, resets, deletions and faults.       *)
THEOREM CountedOnceHolds == Spec => []CountedOnce
<1>1. Inv => CountedOnce
  BY DEF Inv, Consistent, CountedOnce
<1> QED BY <1>1, SpecInv, PTL

-----------------------------------------------------------------------------
(* Nothing is left out.                                                    *)

Clean == left.errors = MaxDbErrors

(* What follows the origin and comes before n is recorded.                 *)
Covered(n) ==
  ledger # {} =>
    \A p \in Retained : origin < p /\ p < n /\ Payload(p) => p \in ledger

(* Entries are written in the order of the clock.                          *)
Ordered ==
  /\ \A i \in 1..Len(journal) : journal[i].sec <= clock
  /\ \A i, j \in 1..Len(journal) : i <= j => journal[i].sec <= journal[j].sec

(* The collector's places are places of the journal.                       *)
Placed ==
  /\ left.errors <= MaxDbErrors
  /\ first <= Len(journal) + 1
  /\ Running => reader.next <= Len(journal) + 1
  /\ reader.pc = "follow" => reader.cursor < reader.next
  /\ reader.pc \in {"start", "follow"} /\ reader.cursor # 0 =>
       reader.cursor <= Len(journal) /\ reader.sec = journal[reader.cursor].sec

(* Up to a recorded event, to the cursor and to the place of the running   *)
(* journalctl nothing is missing; without a cursor nothing is recorded.    *)
Whole ==
  /\ \A q \in ledger : Covered(q)
  /\ Running => Covered(reader.next)
  /\ reader.pc \in {"start", "follow"} /\ reader.cursor # 0 => Covered(reader.cursor + 1)
  /\ reader.pc = "start" /\ reader.cursor = 0 => ledger = {}

Gapless == Ordered /\ Placed /\ (Clean => Whole)

(* Before the first event nothing can be missing.                          *)
LEMMA InitGapless == Init => Gapless
BY BoundAssumption
DEF Init, Gapless, Ordered, Placed, Whole, Covered, Limits, Idle, Running

(* An error that was spent is remembered.                                  *)
LEMMA SpendErrors ==
  ASSUME left \in Budget, NEW what \in {"rotations", "stops", "resets", "deletes", "errors"},
         Spend(what)
  PROVE  /\ left'.errors <= left.errors
         /\ what = "errors" => left'.errors < left.errors
BY DEF Spend, Budget

(* A covered stretch stays covered while the ledger only grows.            *)
LEMMA CoveredKept ==
  ASSUME NEW n \in Nat, Covered(n), ledger # {},
         journal' = journal, exists' = exists, origin' = origin,
         first \in Nat, first' \in Nat, first <= first', ledger \subseteq ledger'
  PROVE  Covered(n)'
BY DEF Covered, Retained, Payload

(* Up to the cursor of a recorded event nothing is missing.                *)
LEMMA CoveredPast ==
  ASSUME TypeOK, NEW q \in ledger, Covered(q) PROVE Covered(q + 1)
<1>1. q \in Nat
  BY DEF TypeOK
<1>2. \A p \in Retained : p \in Nat
  BY DEF Retained, TypeOK
<1> QED BY <1>1, <1>2 DEF Covered

(* A new entry comes after all that was covered.                           *)
LEMMA EmitGapless == ASSUME Inv, Gapless, NEW u \in Units, Emit(u) PROVE Gapless'
<1>1. /\ Len(journal') = Len(journal) + 1
      /\ \A pos \in 1..Len(journal) : journal'[pos] = journal[pos]
      /\ journal'[Len(journal) + 1].sec = clock
      /\ Len(journal) \in Nat
  BY EmitEntries DEF Inv, Emit, TypeOK
<1>2. UNCHANGED <<first, clock, exists, ledger, origin, reader, left>>
  BY DEF Emit
<1>3. Ordered'
  <2>1. ASSUME NEW i \in 1..Len(journal') PROVE journal'[i].sec <= clock
    <3>1. CASE i \in 1..Len(journal)
      BY <1>1, <3>1 DEF Gapless, Ordered
    <3>2. CASE i = Len(journal) + 1
      BY <1>1, <3>2 DEF Inv, TypeOK
    <3> QED BY <1>1, <3>1, <3>2
  <2>2. ASSUME NEW i \in 1..Len(journal'), NEW j \in 1..Len(journal'), i <= j
        PROVE  journal'[i].sec <= journal'[j].sec
    <3>1. CASE j \in 1..Len(journal)
      BY <1>1, <2>2, <3>1 DEF Gapless, Ordered
    <3>2. CASE j = Len(journal) + 1
      BY <1>1, <2>1, <3>2
    <3> QED BY <1>1, <3>1, <3>2
  <2> QED BY <1>2, <2>1, <2>2 DEF Ordered
<1>4. Placed'
  BY <1>1, <1>2 DEF Gapless, Placed, Running, Inv, TypeOK, Reader
<1>5. ASSUME NEW n \in Nat, n <= Len(journal) + 1, Covered(n) PROVE Covered(n)'
  <2>1. \A p \in Retained' : p < n => p \in Retained /\ journal'[p] = journal[p]
    BY <1>1, <1>2, <1>5 DEF Retained, Inv, TypeOK
  <2> QED BY <1>2, <1>5, <2>1 DEF Covered, Payload
<1>6. ASSUME Clean, Whole PROVE Whole'
  <2>1. \A q \in ledger : q \in Nat /\ q <= Len(journal) + 1
    BY <1>1 DEF Inv, TypeOK
  <2>2. \A q \in ledger' : Covered(q)'
    BY <1>2, <1>5, <1>6, <2>1 DEF Whole
  <2>3. Running' => Covered(reader.next)'
    <3>1. Running => reader.next \in Nat /\ reader.next <= Len(journal) + 1
      BY DEF Gapless, Placed, Inv, TypeOK, Reader
    <3> QED BY <1>2, <1>5, <1>6, <3>1 DEF Whole, Running
  <2>4. reader'.pc \in {"start", "follow"} /\ reader'.cursor # 0 => Covered(reader.cursor + 1)'
    <3>1. reader.pc \in {"start", "follow"} /\ reader.cursor # 0 =>
            reader.cursor + 1 \in Nat /\ reader.cursor + 1 <= Len(journal) + 1
      BY <1>1 DEF Gapless, Placed, Inv, TypeOK, Reader
    <3> QED BY <1>2, <1>5, <1>6, <3>1 DEF Whole
  <2> QED BY <1>2, <1>6, <2>2, <2>3, <2>4 DEF Whole
<1> QED BY <1>2, <1>3, <1>4, <1>6 DEF Gapless, Clean

(* Reading goes on where the covered stretch ends: entries in between have *)
(* left the journal, and the event that is read is recorded, unless its    *)
(* instance is gone.                                                       *)
LEMMA ReadEntryGapless == ASSUME Inv, Gapless, ReadEntry PROVE Gapless'
<1>0. PICK pos \in Nat : pos = Larger(reader.next, first)
  BY DEF Larger, Inv, TypeOK, Reader
<1>1. pos \in 1..Len(journal) /\ pos \in Positions
  BY <1>0, NextPosition
<1>2. UNCHANGED <<journal, first, clock, exists>>
  BY DEF ReadEntry
<1>3. /\ reader'.next = pos + 1 /\ reader'.pc = reader.pc
      /\ reader'.cursor = reader.cursor /\ reader'.sec = reader.sec
  BY <1>0 DEF ReadEntry, Inv, TypeOK, Reader
<1>4. left'.errors <= left.errors
  BY SpendErrors DEF ReadEntry, Inv, TypeOK, Budget
<1>5. left.errors \in Nat /\ left'.errors \in Nat
  BY SpendType DEF ReadEntry, Inv, TypeOK, Budget
<1>6. first \in Nat /\ reader.next \in Nat /\ Len(journal) \in Nat
  BY DEF Inv, TypeOK, Reader
<1>7. pos >= first /\ pos >= reader.next /\ pos \in {first, reader.next}
  BY <1>0, <1>6 DEF Larger
<1>8. Ordered'
  BY <1>2 DEF Gapless, Ordered
<1>9. Placed'
  <2>1. left'.errors <= MaxDbErrors
    BY <1>4, <1>5, BoundAssumption DEF Gapless, Placed
  <2>2. reader.pc = "follow" => reader'.cursor < reader'.next
    <3>1. reader.cursor \in Nat
      BY DEF Inv, TypeOK, Reader
    <3> QED BY <1>3, <1>6, <1>7, <3>1 DEF Gapless, Placed
  <2>3. reader'.next <= Len(journal) + 1
    BY <1>1, <1>3
  <2> QED BY <1>2, <1>3, <2>1, <2>2, <2>3 DEF Gapless, Placed
<1>10. ASSUME Clean', Whole PROVE Whole'
  <2>1. Clean /\ ~Spend("errors")
    BY <1>4, <1>5, <1>10, SpendErrors, BoundAssumption DEF Gapless, Placed, Clean, Inv, TypeOK
  <2>2. Covered(pos)
    <3>1. Running
      BY DEF ReadEntry
    <3>2. \A p \in Retained : p < pos => p < reader.next
      BY <1>1, <1>6, <1>7 DEF Retained
    <3> QED BY <1>10, <3>1, <3>2 DEF Whole, Covered
  <2>3. \/ Payload(pos) /\ pos \notin ledger /\ Recorded(pos)
        \/ ~Payload(pos) /\ pos \notin ledger /\ Recorded(pos)
        \/ (~Payload(pos) \/ pos \in ledger) /\ UNCHANGED <<ledger, origin, counter>>
    BY <1>0, <2>1 DEF ReadEntry, Payload, Recorded
  <2>4. /\ ledger \subseteq ledger' /\ ledger' \subseteq ledger \cup {pos}
        /\ ledger # {} => origin' = origin
        /\ Payload(pos) => pos \in ledger'
        /\ ledger = {} /\ ledger' # {} => origin' = pos /\ ledger' = {pos}
    BY <2>3 DEF Recorded
  <2>5. ASSUME NEW n \in Nat, Covered(n), ledger # {} PROVE Covered(n)'
    BY <1>2, <1>6, <2>4, <2>5, CoveredKept
  <2>6. Covered(pos)' /\ Covered(pos + 1)'
    <3>1. CASE ledger # {}
      <4>1. Covered(pos)'
        BY <1>1, <2>2, <2>5, <3>1
      <4>2. \A p \in Retained' : p < pos + 1 => p < pos \/ p = pos
        BY <1>1, <1>2, <1>6 DEF Retained
      <4>3. Payload(pos)' => pos \in ledger'
        BY <1>2, <2>4 DEF Payload
      <4> QED BY <4>1, <4>2, <4>3 DEF Covered
    <3>2. CASE ledger = {}
      <4>1. \A p \in Retained' : ~(pos < p /\ p < pos + 1) /\ ~(pos < p /\ p < pos)
        BY <1>1, <1>2, <1>6 DEF Retained
      <4> QED BY <2>4, <3>2, <4>1 DEF Covered
    <3> QED BY <3>1, <3>2
  <2>7. \A q \in ledger' : Covered(q)'
    <3> SUFFICES ASSUME NEW q \in ledger' PROVE Covered(q)'
      OBVIOUS
    <3>1. CASE q = pos
      BY <2>6, <3>1
    <3>2. CASE q \in ledger
      <4>1. q \in Nat
        BY <3>2 DEF Inv, TypeOK
      <4> QED BY <1>10, <2>5, <3>2, <4>1 DEF Whole
    <3> QED BY <2>4, <3>1, <3>2
  <2>8. reader'.pc \in {"start", "follow"} /\ reader'.cursor # 0 => Covered(reader.cursor + 1)'
    <3> SUFFICES ASSUME reader.pc \in {"start", "follow"}, reader.cursor # 0
                 PROVE  Covered(reader.cursor + 1)'
      BY <1>3
    <3>1. Covered(reader.cursor + 1) /\ reader.cursor + 1 \in Nat
      BY <1>10 DEF Whole, Inv, TypeOK, Reader
    <3>2. CASE ledger # {}
      <4>1. PICK n \in Nat : n = reader.cursor + 1
        BY <3>1
      <4>2. Covered(n)'
        BY <2>5, <3>1, <3>2, <4>1
      <4> QED BY <1>3, <4>1, <4>2 DEF Covered
    <3>3. CASE ledger = {} /\ ledger' = {}
      BY <3>3 DEF Covered
    <3>4. CASE ledger = {} /\ ledger' # {}
      <4>1. reader.cursor < reader.next
        BY DEF ReadEntry, Running, Gapless, Placed
      <4>2. \A p \in Retained' : ~(pos < p /\ p < reader.cursor + 1)
        BY <1>1, <1>2, <1>6, <1>7, <4>1 DEF Retained, Inv, TypeOK, Reader
      <4>3. origin' = pos /\ reader'.cursor = reader.cursor
        BY <1>3, <2>4, <3>4
      <4> QED BY <4>2, <4>3 DEF Covered
    <3> QED BY <3>2, <3>3, <3>4
  <2>9. reader'.pc # "start"
    BY <1>3 DEF ReadEntry, Running
  <2> QED BY <1>3, <2>6, <2>7, <2>8, <2>9 DEF Whole
<1>11. Clean' => Clean
  BY <1>4, <1>5, BoundAssumption DEF Gapless, Placed, Clean
<1> QED BY <1>8, <1>9, <1>10, <1>11 DEF Gapless

(* A journalctl that starts resumes where the covered stretch ends.        *)
LEMMA StartGapless == ASSUME Inv, Gapless, StartJournal PROVE Gapless'
<1>1. /\ reader.pc = "start"
      /\ reader'.pc = "follow" /\ reader'.next = ResumeAt
      /\ reader'.cursor = reader.cursor /\ reader'.sec = reader.sec
      /\ UNCHANGED <<journal, first, clock, exists, ledger, origin, left>>
  BY DEF StartJournal, Inv, TypeOK, Reader
<1>2. /\ first \in Nat \ {0} /\ Len(journal) \in Nat /\ reader.cursor \in Nat
      /\ first <= Len(journal) + 1
      /\ reader.cursor # 0 => reader.cursor <= Len(journal)
  BY <1>1 DEF Inv, TypeOK, Reader, Gapless, Placed
<1>3. /\ ResumeAt \in Nat /\ ResumeAt <= Len(journal) + 1 /\ reader.cursor < ResumeAt
      /\ reader.cursor # 0 => ResumeAt \in {first, reader.cursor + 1}
  BY <1>2, ShowsAssumption DEF ResumeAt, Larger
<1>4. Ordered' /\ Placed'
  BY <1>1, <1>2, <1>3 DEF Gapless, Ordered, Placed, Running
<1>5. ASSUME Clean, Whole PROVE Whole'
  <2>1. reader.cursor # 0 => Covered(ResumeAt)
    <3> SUFFICES ASSUME reader.cursor # 0 PROVE Covered(ResumeAt)
      OBVIOUS
    <3>1. Covered(reader.cursor + 1)
      BY <1>1, <1>5 DEF Whole
    <3>2. \A p \in Retained : p < ResumeAt => p < reader.cursor + 1
      BY <1>2, <1>3 DEF Retained
    <3> QED BY <3>1, <3>2 DEF Covered
  <2>2. reader.cursor = 0 => ledger = {}
    BY <1>1, <1>5 DEF Whole
  <2>3. Covered(ResumeAt)
    BY <2>1, <2>2 DEF Covered
  <2>4. \A n : Covered(n) => Covered(n)'
    BY <1>1 DEF Covered, Retained, Payload
  <2>5. Covered(reader.next)'
    BY <1>1, <2>3 DEF Covered, Retained, Payload
  <2>6. \A q \in ledger' : Covered(q)'
    BY <1>1, <1>5, <2>4 DEF Whole
  <2>7. reader'.cursor # 0 => Covered(reader.cursor + 1)'
    BY <1>1, <1>5 DEF Whole, Covered, Retained, Payload
  <2> QED BY <1>1, <2>5, <2>6, <2>7 DEF Whole
<1> QED BY <1>1, <1>4, <1>5 DEF Gapless, Clean

(* The fallback by time goes back to the cursor or before it: an entry     *)
(* that is a second older than the cursor's was written before it.         *)
LEMMA FailGapless == ASSUME Inv, Gapless, JournalFails PROVE Gapless'
<1>1. UNCHANGED <<journal, first, clock, exists, ledger, origin>>
  BY DEF JournalFails
<1>2. left'.errors <= left.errors /\ left.errors \in Nat /\ left'.errors \in Nat
  BY SpendErrors, SpendType DEF JournalFails, Inv, TypeOK, Budget
<1>3. Clean' => Clean
  BY <1>2, BoundAssumption DEF Gapless, Placed, Clean
<1>4. Ordered'
  BY <1>1 DEF Gapless, Ordered
<1>5. \A n : Covered(n) <=> Covered(n)'
  BY <1>1 DEF Covered, Retained, Payload
<1>6. CASE reader' = Idle
  <2>1. Placed'
    BY <1>1, <1>2, <1>6, BoundAssumption DEF Gapless, Placed, Idle, Running
  <2>2. Whole => Whole'
    BY <1>1, <1>5, <1>6 DEF Whole, Idle, Running
  <2> QED BY <1>3, <1>4, <2>1, <2>2 DEF Gapless
<1>7. ASSUME reader.cursor # 0, NEW pos \in first..(Len(journal) + 1),
             Since(reader.sec, pos), reader' = [Idle EXCEPT !.pc = "fallback", !.next = pos]
      PROVE  Gapless'
  <2>1. reader'.pc = "fallback" /\ reader'.next = pos
    BY <1>7 DEF Idle
  <2>2. Placed'
    BY <1>1, <1>2, <1>7, <2>1, BoundAssumption DEF Gapless, Placed, Running
  <2>3. ASSUME Whole PROVE Covered(pos)
    <3>1. Covered(reader.cursor + 1)
      BY <1>7, <2>3 DEF Whole, JournalFails
    <3>2. ASSUME NEW p \in Retained, p < pos PROVE p < reader.cursor + 1
      <4>1. p \in first..(pos - 1) /\ p \in 1..Len(journal)
        BY <3>2 DEF Retained, Inv, TypeOK
      <4>2. journal[p].sec + 1 < journal[reader.cursor].sec
            /\ reader.cursor \in 1..Len(journal)
        <5>1. reader.cursor \in Nat /\ Len(journal) \in Nat
          BY DEF Inv, TypeOK, Reader
        <5>2. reader.cursor <= Len(journal) /\ reader.sec = journal[reader.cursor].sec
          BY <1>7 DEF Gapless, Placed, JournalFails
        <5>3. journal[p].sec + 1 < reader.sec
          BY <1>7, <4>1 DEF Since
        <5> QED BY <1>7, <5>1, <5>2, <5>3
      <4>3. journal[p].sec \in Nat /\ journal[reader.cursor].sec \in Nat
        BY <4>1, <4>2, EntryType DEF Inv
      <4>4. ~(reader.cursor <= p)
        BY <4>1, <4>2, <4>3 DEF Gapless, Ordered
      <4> QED BY <4>1, <4>2, <4>4
    <3> QED BY <3>1, <3>2 DEF Covered
  <2>4. Whole => Whole'
    BY <1>1, <1>5, <2>1, <2>3 DEF Whole, Running, Covered, Retained, Payload
  <2> QED BY <1>3, <1>4, <2>2, <2>4 DEF Gapless
<1> QED BY <1>6, <1>7 DEF JournalFails

(* Run resumes at a recorded event, whichever it takes for the newest.     *)
LEMMA ReadCursorGapless == ASSUME Inv, Gapless, ReadCursor PROVE Gapless'
<1>1. UNCHANGED <<journal, first, clock, exists, ledger, origin>>
  BY DEF ReadCursor
<1>2. left'.errors <= left.errors /\ left.errors \in Nat /\ left'.errors \in Nat
  <2>1. Spend("errors") \/ left' = left
    BY DEF ReadCursor
  <2> QED BY <2>1, SpendErrors, SpendType DEF Inv, TypeOK, Budget
<1>3. Clean' => Clean /\ ~Spend("errors")
  BY <1>2, SpendErrors, BoundAssumption DEF Gapless, Placed, Clean, Inv, TypeOK
<1>4. Ordered'
  BY <1>1 DEF Gapless, Ordered
<1>5. \A n : Covered(n) => Covered(n)'
  BY <1>1 DEF Covered, Retained, Payload
<1>6. CASE reader' = [Idle EXCEPT !.pc = "start"]
  <2>1. reader'.pc = "start" /\ reader'.cursor = 0
    BY <1>6 DEF Idle
  <2>2. Placed'
    BY <1>1, <1>2, <2>1, BoundAssumption DEF Gapless, Placed, Running
  <2>3. ~Spend("errors") => ledger = {}
    <3>1. ASSUME NEW pos \in Newest,
                 reader' = [Idle EXCEPT !.pc = "start", !.cursor = pos, !.sec = journal[pos].sec]
          PROVE  FALSE
      <4>1. reader'.cursor = pos
        BY <3>1 DEF Idle
      <4>2. pos # 0
        BY DEF Newest, Inv, TypeOK
      <4> QED BY <2>1, <4>1, <4>2
    <3> QED BY <3>1 DEF ReadCursor
  <2>4. ASSUME Clean', Whole PROVE Whole'
    BY <1>1, <1>3, <2>1, <2>3, <2>4 DEF Whole, Covered, Running
  <2> QED BY <1>3, <1>4, <2>2, <2>4 DEF Gapless
<1>7. ASSUME NEW pos \in Newest,
             reader' = [Idle EXCEPT !.pc = "start", !.cursor = pos, !.sec = journal[pos].sec]
      PROVE  Gapless'
  <2>1. reader'.pc = "start" /\ reader'.cursor = pos /\ reader'.sec = journal[pos].sec
    BY <1>7 DEF Idle
  <2>2. pos \in ledger /\ pos \in 1..Len(journal)
    BY DEF Newest, Inv, TypeOK
  <2>3. Placed'
    BY <1>1, <1>2, <2>1, <2>2, BoundAssumption DEF Gapless, Placed, Running
  <2>4. ASSUME Whole PROVE Whole'
    <3>1. Covered(pos + 1)
      BY <2>2, <2>4, CoveredPast DEF Inv, Whole
    <3>2. Covered(reader.cursor + 1)'
      BY <1>1, <2>1, <3>1 DEF Covered, Retained, Payload
    <3> QED BY <1>1, <1>5, <2>1, <2>2, <2>4, <3>2 DEF Whole, Running
  <2> QED BY <1>3, <1>4, <2>3, <2>4 DEF Gapless
<1> QED BY <1>6, <1>7 DEF ReadCursor

(* A deletion takes the events of the instance from what must be recorded. *)
LEMMA DeleteGapless == ASSUME Inv, Gapless, NEW u \in Units, Delete(u) PROVE Gapless'
<1>1. UNCHANGED <<journal, first, clock, origin, reader>> /\ exists' = exists \ {u}
  BY DEF Delete
<1>2. left'.errors = left.errors
  BY DEF Delete, Spend, Inv, TypeOK, Budget
<1>3. /\ ledger' \subseteq ledger
      /\ \A p \in ledger : journal[p].unit # u => p \in ledger'
  BY DEF Delete
<1>4. \A n : Covered(n) => Covered(n)'
  BY <1>1, <1>3 DEF Covered, Retained, Payload
<1>5. Ordered' /\ Placed'
  BY <1>1, <1>2 DEF Gapless, Ordered, Placed, Running
<1>6. ASSUME Whole PROVE Whole'
  <2>1. \A q \in ledger' : Covered(q)'
    BY <1>3, <1>4, <1>6 DEF Whole
  <2>2. Running' => Covered(reader.next)'
    <3>1. Covered(reader.next) => Covered(reader.next)'
      BY <1>1, <1>3 DEF Covered, Retained, Payload
    <3> QED BY <1>1, <1>6, <3>1 DEF Whole, Running
  <2>3. reader'.pc \in {"start", "follow"} /\ reader'.cursor # 0 => Covered(reader.cursor + 1)'
    <3>1. Covered(reader.cursor + 1) => Covered(reader.cursor + 1)'
      BY <1>1, <1>3 DEF Covered, Retained, Payload
    <3> QED BY <1>1, <1>6, <3>1 DEF Whole
  <2>4. reader'.pc = "start" /\ reader'.cursor = 0 => ledger' = {}
    BY <1>1, <1>3, <1>6 DEF Whole
  <2> QED BY <2>1, <2>2, <2>3, <2>4 DEF Whole
<1> QED BY <1>2, <1>5, <1>6 DEF Gapless, Clean

(* Every step leaves the covered stretch whole.                            *)
LEMMA NextGapless == Inv /\ Gapless /\ [Next]_vars => Gapless'
<1> SUFFICES ASSUME Inv, Gapless, [Next]_vars PROVE Gapless' OBVIOUS
<1>1. ASSUME NEW u \in Units, Reset(u) PROVE Gapless'
  <2>1. left'.errors = left.errors
    BY <1>1 DEF Reset, Spend, Inv, TypeOK, Budget
  <2>2. UNCHANGED <<journal, first, clock, exists, ledger, origin, reader>>
    BY <1>1 DEF Reset
  <2>3. Ordered' /\ Placed'
    BY <2>1, <2>2 DEF Gapless, Ordered, Placed, Running
  <2>4. Whole => Whole'
    BY <2>2 DEF Whole, Covered, Retained, Payload, Running
  <2> QED BY <2>1, <2>3, <2>4 DEF Gapless, Clean
<1>2. CASE Tick
  <2>1. UNCHANGED <<journal, first, exists, ledger, origin, reader, left>> /\ clock' = clock + 1
    BY <1>2 DEF Tick
  <2>2. Ordered'
    BY <2>1, EntryType DEF Gapless, Ordered, Inv, TypeOK
  <2>3. Placed' /\ (Whole => Whole')
    BY <2>1 DEF Gapless, Placed, Whole, Covered, Retained, Payload, Running
  <2> QED BY <2>1, <2>2, <2>3 DEF Gapless, Clean
<1>3. CASE Rotate
  <2>1. left'.errors = left.errors
    BY <1>3 DEF Rotate, Spend, Inv, TypeOK, Budget
  <2>2. UNCHANGED <<journal, clock, exists, ledger, origin, reader>>
        /\ first' = first + 1 /\ first <= Len(journal)
    BY <1>3 DEF Rotate
  <2>3. Ordered' /\ Placed'
    BY <2>1, <2>2 DEF Gapless, Ordered, Placed, Running, Inv, TypeOK
  <2>4. Retained' \subseteq Retained
    BY <2>2 DEF Retained, Inv, TypeOK
  <2>5. Whole => Whole'
    BY <2>2, <2>4 DEF Whole, Covered, Payload, Running
  <2> QED BY <2>1, <2>3, <2>5 DEF Gapless, Clean
<1>4. CASE Stop
  <2>1. left'.errors = left.errors
    BY <1>4 DEF Stop, Spend, Inv, TypeOK, Budget
  <2>2. UNCHANGED <<journal, first, clock, exists, ledger, origin>> /\ reader' = Idle
    BY <1>4 DEF Stop
  <2>3. Ordered' /\ Placed'
    BY <2>1, <2>2 DEF Gapless, Ordered, Placed, Running, Idle
  <2>4. Whole => Whole'
    BY <2>2 DEF Whole, Covered, Retained, Payload, Running, Idle
  <2> QED BY <2>1, <2>3, <2>4 DEF Gapless, Clean
<1>5. CASE Reconnect \/ UNCHANGED vars
  <2>1. UNCHANGED <<journal, first, clock, exists, ledger, origin, reader, left>>
    BY <1>5 DEF Reconnect, vars
  <2> QED
    BY <2>1 DEF Gapless, Ordered, Placed, Whole, Clean, Covered, Retained, Payload, Running
<1> QED
  BY <1>1, <1>2, <1>3, <1>4, <1>5, EmitGapless, ReadEntryGapless, StartGapless, FailGapless,
     ReadCursorGapless, DeleteGapless
  DEF Next, Collect

(* When the collector has read to the end, every event after the one the   *)
(* accounts began with is recorded, for every number of stops, interrupted *)
(* fallbacks, rotations, resets and deletions.                             *)
THEOREM NoGapsHolds == Spec => []NoGaps
<1>1. Inv /\ Gapless => NoGaps
  <2> SUFFICES ASSUME Inv, Gapless, AtEnd, ledger # {}, Spared({"errors"}),
                      NEW pos \in Retained, origin < pos, Payload(pos)
               PROVE  pos \in ledger
    BY DEF NoGaps
  <2>1. Clean
    BY DEF Spared, Clean, Limits
  <2>2. pos < reader.next
    BY DEF AtEnd, Retained, Inv, TypeOK, Reader
  <2> QED BY <2>1, <2>2 DEF Gapless, Whole, AtEnd, Covered
<1> QED BY <1>1, InitInv, NextInv, InitGapless, NextGapless, PTL DEF Spec

-----------------------------------------------------------------------------
(* The refinement.                                                         *)

(* The empty ledger is an empty meter.                                     *)
LEMMA InitMeter == Init => Meter!Init
BY DEF Init, Meter!Init, Accounted, Shown, Nothing, Meter!Nothing

(* Reading an entry counts an event that is not accounted for, or nothing. *)
LEMMA ReadEntryMeter ==
  ASSUME Inv, ReadEntry PROVE [Meter!Next]_(Meter!vars)
<1> DEFINE pos == Larger(reader.next, first)
           unit == journal[pos].unit
<1>1. pos \in 1..Len(journal) /\ pos \in Positions
  BY NextPosition
<1>2. unit \in Units
  BY <1>1, EntryType DEF Inv
<1>3. journal' = journal /\ exists' = exists
  BY DEF ReadEntry
<1>4. CASE UNCHANGED <<ledger, counter>>
  BY <1>3, <1>4 DEF Meter!vars, Accounted, Shown
<1>5. CASE pos \notin ledger /\ Recorded(pos) /\ unit \in exists
  <2>1. ledger' = ledger \cup {pos}
    BY <1>5 DEF Recorded
  <2>2. counter' = [counter EXCEPT ![unit][pos] = @ + 1]
    BY <1>5 DEF Recorded
  <2>3. pos \notin Accounted
    BY <1>5 DEF Accounted
  <2>4. Accounted' = Accounted \cup {pos}
    BY <1>1, <1>3, <2>1 DEF Accounted
  <2>5. Shown' = [Shown EXCEPT ![unit][pos] = @ + 1]
    BY <1>2, <1>3, <1>5, <2>2 DEF Shown, Inv, TypeOK
  <2>6. Meter!Count(pos, unit)
    BY <1>3, <1>5, <2>3, <2>4, <2>5 DEF Meter!Count
  <2> QED BY <1>1, <1>2, <2>6 DEF Meter!Next
<1>6. CASE pos \notin ledger /\ Recorded(pos) /\ unit \notin exists
  <2>1. ledger' = ledger \cup {pos}
    BY <1>6 DEF Recorded
  <2>2. counter' = [counter EXCEPT ![unit][pos] = @ + 1]
    BY <1>6 DEF Recorded
  <2>3. Accounted' = Accounted
    BY <1>1, <1>3, <1>6, <2>1 DEF Accounted
  <2>4. Shown' = Shown
    BY <1>2, <1>3, <1>6, <2>2 DEF Shown, Inv, TypeOK
  <2> QED BY <1>3, <2>3, <2>4 DEF Meter!vars
<1>7. UNCHANGED <<ledger, counter>> \/ (pos \notin ledger /\ Recorded(pos))
  BY DEF ReadEntry, Recorded
<1> QED BY <1>4, <1>5, <1>6, <1>7

(* Every step is a step of the meter or none of its business.              *)
LEMMA NextMeter == Inv /\ [Next]_vars => [Meter!Next]_(Meter!vars)
<1> SUFFICES ASSUME Inv, [Next]_vars PROVE [Meter!Next]_(Meter!vars) OBVIOUS
<1>1. ASSUME NEW u \in Units, Emit(u) PROVE UNCHANGED Meter!vars
  <2>1. Shown' = Shown /\ exists' = exists
    BY <1>1 DEF Emit, Shown
  <2>2. Accounted' = Accounted
    <3>1. Len(journal') = Len(journal) + 1
          /\ (\A pos \in 1..Len(journal) : journal'[pos] = journal[pos])
          /\ journal'[Len(journal) + 1].unit = u
      BY <1>1, EmitEntries DEF Inv
    <3>2. u \in exists /\ ledger' = ledger /\ ledger \subseteq 1..Len(journal)
      BY <1>1 DEF Emit, Inv, TypeOK
    <3>3. Len(journal) \in Nat
      BY DEF Inv, TypeOK
    <3> QED BY <2>1, <3>1, <3>2, <3>3 DEF Accounted
  <2> QED BY <2>1, <2>2 DEF Meter!vars
<1>2. ASSUME NEW u \in Units, Reset(u) PROVE Meter!Reset(u)
  BY <1>2 DEF Reset, Meter!Reset, Accounted, Shown, Nothing, Meter!Nothing, Inv, TypeOK
<1>3. ASSUME NEW u \in Units, Delete(u) PROVE Meter!Delete(u)
  <2>1. exists' = exists \ {u} /\ u \in exists /\ journal' = journal
    BY <1>3 DEF Delete
  <2>2. Shown' = [Shown EXCEPT ![u] = Meter!Nothing]
    BY <1>3, <2>1 DEF Delete, Shown, Nothing, Meter!Nothing, Inv, TypeOK
  <2>3. Accounted \subseteq Accounted'
    BY <1>3, <2>1 DEF Delete, Accounted
  <2>4. Accounted' \subseteq Positions
    BY <2>1, BoundAssumption DEF Accounted, Positions, Inv, TypeOK
  <2> QED BY <2>1, <2>2, <2>3, <2>4 DEF Meter!Delete
<1>4. CASE ReadEntry
  BY <1>4, ReadEntryMeter
<1>5. CASE Tick \/ Rotate \/ Reconnect \/ ReadCursor \/ StartJournal \/ JournalFails
           \/ Stop \/ UNCHANGED vars
  <2>1. UNCHANGED <<journal, exists, ledger, counter>>
    BY <1>5 DEF Tick, Rotate, Reconnect, ReadCursor, StartJournal, JournalFails, Stop, vars
  <2> QED BY <2>1 DEF Meter!vars, Accounted, Shown
<1> QED
  BY <1>1, <1>2, <1>3, <1>4, <1>5 DEF Next, Collect, Meter!Next

(* The ledger and its counters implement TrafficMeter: an event counts at  *)
(* most once for its own instance, also when it is read again after a      *)
(* reset, and only a reset or a deletion takes it out.                     *)
THEOREM RefinesMeterHolds == Spec => RefinesMeter
BY InitMeter, NextMeter, SpecInv, PTL DEF Spec, RefinesMeter, Meter!Spec

=============================================================================
