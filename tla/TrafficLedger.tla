---------------------------- MODULE TrafficLedger ----------------------------
(***************************************************************************)
(* Traffic accounting: internal/traffic/traffic.go (the collector) and     *)
(* internal/store/traffic.go (the ledger of events and the counters).      *)
(*                                                                         *)
(* Instances write payload events to the systemd journal.  One collector   *)
(* goroutine runs journalctl and adds every event to the counter of its    *)
(* instance.  It keeps no position of its own: after a stop it resumes at  *)
(* the newest event of the ledger, or one second before that event, and    *)
(* may read events a second time; the ledger is what stops those.          *)
(*                                                                         *)
(* A journal position stands for its cursor.  A counter is abstracted to   *)
(* how often it contains each event, the byte sums follow from that.       *)
(***************************************************************************)
EXTENDS Naturals, Sequences

CONSTANTS
  Units,          (* instances, one olcrtc-instance@ unit each             *)
  Shows,          (* lines "journalctl --follow" shows of the past         *)
  MaxEntries,     (* bound: journal entries                                *)
  MaxSec,         (* bound: the clock, in seconds                          *)
  MaxRotations,   (* bound: entries vacuumed from the journal              *)
  MaxStops,       (* bound: stops of journalctl or of the panel            *)
  MaxResets,      (* bound: counter resets                                 *)
  MaxDeletes,     (* bound: deleted instances                              *)
  MaxDbErrors     (* bound: database calls that fail                       *)

ASSUME ShowsAssumption == Shows \in Nat
ASSUME BoundAssumption ==
  /\ MaxEntries \in Nat /\ MaxSec \in Nat /\ MaxRotations \in Nat
  /\ MaxStops \in Nat /\ MaxResets \in Nat /\ MaxDeletes \in Nat
  /\ MaxDbErrors \in Nat

VARIABLES
  journal,   (* every entry ever written, in order                         *)
  first,     (* the oldest position the journal still holds                *)
  clock,     (* the wall clock, in seconds                                 *)
  exists,    (* instances with a row                                       *)
  ledger,    (* traffic_events: the positions that were recorded           *)
  origin,    (* history: the event that was recorded when ledger was empty *)
  counter,   (* traffic_counters                                           *)
  fk,        (* the database connection enforces foreign keys              *)
  reader,    (* the collector goroutine                                    *)
  left       (* the events and faults the bounds still allow               *)

vars == <<journal, first, clock, exists, ledger, origin, counter, fk, reader, left>>

Positions == 1..MaxEntries
Entry == [unit: Units, sec: Nat]
Nothing == [pos \in Positions |-> 0]

(* cursor is 0 when Run found none, sec is the second of the cursor's      *)
(* event, next the position the running journalctl delivers next.          *)
Reader == [pc: {"off", "start", "follow", "fallback"}, cursor: Nat, sec: Nat, next: Nat]
Idle == [pc |-> "off", cursor |-> 0, sec |-> 0, next |-> 0]

Limits == [rotations |-> MaxRotations, stops |-> MaxStops, resets |-> MaxResets,
           deletes |-> MaxDeletes, errors |-> MaxDbErrors]
Budget == [rotations: Nat, stops: Nat, resets: Nat, deletes: Nat, errors: Nat]

TypeOK ==
  /\ journal \in Seq(Entry) /\ Len(journal) <= MaxEntries
  /\ first \in Nat \ {0}
  /\ clock \in Nat
  /\ exists \subseteq Units
  /\ ledger \subseteq 1..Len(journal)
  /\ origin \in Nat
  /\ counter \in [Units -> [Positions -> Nat]]
  /\ fk \in BOOLEAN
  /\ reader \in Reader
  /\ left \in Budget

Init ==
  /\ journal = <<>>
  /\ first = 1
  /\ clock = 0
  /\ exists = Units
  /\ ledger = {}
  /\ origin = 0
  /\ counter = [u \in Units |-> Nothing]
  /\ fk = TRUE
  /\ reader = Idle
  /\ left = Limits

Spend(what) == left[what] > 0 /\ left' = [left EXCEPT ![what] = @ - 1]
Running == reader.pc \in {"follow", "fallback"}
Larger(a, b) == IF a > b THEN a ELSE b

-----------------------------------------------------------------------------
(* The journal.                                                            *)

(* An instance writes a payload event.                                     *)
Emit(u) ==
  /\ u \in exists
  /\ Len(journal) < MaxEntries
  /\ journal' = Append(journal, [unit |-> u, sec |-> clock])
  /\ UNCHANGED <<first, clock, exists, ledger, origin, counter, fk, reader, left>>

Tick ==
  /\ clock < MaxSec
  /\ clock' = clock + 1
  /\ UNCHANGED <<journal, first, exists, ledger, origin, counter, fk, reader, left>>

(* journald drops its oldest entry.                                        *)
Rotate ==
  /\ first <= Len(journal)
  /\ Spend("rotations")
  /\ first' = first + 1
  /\ UNCHANGED <<journal, clock, exists, ledger, origin, counter, fk, reader>>

-----------------------------------------------------------------------------
(* The collector.  supervise calls Run again five seconds after it ends.   *)

(* The rows ORDER BY event_at DESC may put first: event_at is compared as  *)
(* text, and RFC3339Nano drops trailing zeros, so within one second the    *)
(* order of the texts is not the order of the times.                       *)
Newest ==
  {pos \in ledger : \A q \in ledger : journal[q].sec <= journal[pos].sec}

(* Mutant: the collector is not started again when it has ended.           *)
ReadCursor_Once ==
  /\ reader.pc = "off" /\ left.stops = MaxStops
  /\ reader' = [Idle EXCEPT !.pc = "start"]
  /\ UNCHANGED <<journal, first, clock, exists, ledger, origin, counter, fk, left>>

(* Run looks up where to resume; an error counts as "no cursor".           *)
ReadCursor ==
  /\ reader.pc = "off"
  /\ \/ /\ ledger = {}
        /\ reader' = [Idle EXCEPT !.pc = "start"]
        /\ UNCHANGED left
     \/ \E pos \in Newest :
        /\ reader' = [Idle EXCEPT !.pc = "start", !.cursor = pos, !.sec = journal[pos].sec]
        /\ UNCHANGED left
     \/ /\ Spend("errors")
        /\ reader' = [Idle EXCEPT !.pc = "start"]
  /\ UNCHANGED <<journal, first, clock, exists, ledger, origin, counter, fk>>

(* Mutant: the fallback starts at the next second.                         *)
Since_NextSecond(sec, pos) ==
  /\ \A q \in pos..Len(journal) : journal[q].sec >= sec + 1
  /\ \A q \in first..(pos - 1) : journal[q].sec < sec + 1

(* --since: pos is the oldest entry at most one second older than sec.     *)
Since(sec, pos) ==
  /\ \A q \in pos..Len(journal) : journal[q].sec + 1 >= sec
  /\ \A q \in first..(pos - 1) : journal[q].sec + 1 < sec

(* Where journalctl starts: after the cursor, or after the nearest entry   *)
(* left; without a cursor, --follow shows the last lines only.             *)
ResumeAt ==
  IF reader.cursor = 0
  THEN Larger(first, IF Len(journal) + 1 > Shows THEN (Len(journal) + 1) - Shows ELSE 1)
  ELSE Larger(first, reader.cursor + 1)

StartJournal ==
  /\ reader.pc = "start"
  /\ reader' = [reader EXCEPT !.pc = "follow", !.next = ResumeAt]
  /\ UNCHANGED <<journal, first, clock, exists, ledger, origin, counter, fk, left>>

(* journalctl ends with an error, or the cursor is unknown to it: Run      *)
(* tries once more by time, if there was a cursor, and then needs neither  *)
(* the cursor nor its time any more.                                       *)
JournalFails ==
  /\ reader.pc \in {"start", "follow"}
  /\ Spend("stops")
  /\ \/ /\ reader.cursor = 0
        /\ reader' = Idle
     \/ /\ reader.cursor # 0
        /\ \E pos \in first..(Len(journal) + 1) :
             /\ Since(reader.sec, pos)
             /\ reader' = [Idle EXCEPT !.pc = "fallback", !.next = pos]
  /\ UNCHANGED <<journal, first, clock, exists, ledger, origin, counter, fk>>

(* journalctl ends, or the panel does and comes back with a connection on  *)
(* which Open has run the PRAGMAs.  ApplyTrafficEvent is one transaction,   *)
(* a kill falls before or after it.                                        *)
Stop ==
  /\ reader.pc # "off" \/ ~fk
  /\ Spend("stops")
  /\ reader' = Idle
  /\ fk' \in {fk, TRUE}
  /\ UNCHANGED <<journal, first, clock, exists, ledger, origin, counter>>

(* Mutant: the event is counted whether or not it was recorded before.     *)
Recorded_Again(pos) ==
  /\ ledger' = ledger \cup {pos}
  /\ origin' = IF ledger = {} THEN pos ELSE origin
  /\ counter' = [counter EXCEPT ![journal[pos].unit][pos] = @ + 1]

(* ApplyTrafficEvent: INSERT OR IGNORE, and the counter if it inserted.    *)
Recorded(pos) ==
  IF pos \in ledger
  THEN UNCHANGED <<ledger, origin, counter>>
  ELSE /\ ledger' = ledger \cup {pos}
       /\ origin' = IF ledger = {} THEN pos ELSE origin
       /\ counter' = [counter EXCEPT ![journal[pos].unit][pos] = @ + 1]

(* The next payload event; lines Parse rejects are passed over and left    *)
(* out.  An event of a deleted instance violates the foreign key, and      *)
(* every error is dropped.                                                 *)
ReadEntry ==
  /\ Running
  /\ LET pos == Larger(reader.next, first)
         unit == journal[pos].unit
     IN
     /\ pos <= Len(journal)
     /\ reader' = [reader EXCEPT !.next = pos + 1]
     /\ \/ /\ unit \in exists \/ ~fk
           /\ Recorded(pos)
           /\ UNCHANGED left
        \/ /\ unit \notin exists /\ fk
           /\ UNCHANGED <<ledger, origin, counter, left>>
        \/ /\ Spend("errors")
           /\ UNCHANGED <<ledger, origin, counter>>
  /\ UNCHANGED <<journal, first, clock, exists, fk>>

-----------------------------------------------------------------------------
(* The store, used by the handlers and the reset scheduler.                *)

(* Mutant: the ledger is emptied together with the counter.                *)
Reset_Ledger(u) ==
  /\ u \in exists
  /\ Spend("resets")
  /\ counter' = [counter EXCEPT ![u] = Nothing]
  /\ ledger' = {pos \in ledger : journal[pos].unit # u}
  /\ UNCHANGED <<journal, first, clock, exists, origin, fk, reader>>

(* ResetTraffic zeroes the counter and keeps the ledger.                   *)
Reset(u) ==
  /\ u \in exists
  /\ Spend("resets")
  /\ counter' = [counter EXCEPT ![u] = Nothing]
  /\ UNCHANGED <<journal, first, clock, exists, ledger, origin, fk, reader>>

(* The row of an instance is deleted; ON DELETE CASCADE takes its events   *)
(* and its counter along, on a connection that enforces foreign keys.      *)
Delete(u) ==
  /\ u \in exists
  /\ Spend("deletes")
  /\ exists' = exists \ {u}
  /\ IF fk
     THEN /\ ledger' = {pos \in ledger : journal[pos].unit # u}
          /\ counter' = [counter EXCEPT ![u] = Nothing]
     ELSE UNCHANGED <<ledger, counter>>
  /\ UNCHANGED <<journal, first, clock, origin, fk, reader>>

(* SetConnMaxLifetime: after an hour the only connection is replaced by    *)
(* one that has not run the PRAGMAs of Open.                               *)
Reconnect ==
  /\ fk
  /\ fk' = FALSE
  /\ UNCHANGED <<journal, first, clock, exists, ledger, origin, counter, reader, left>>

-----------------------------------------------------------------------------
Collect == ReadCursor \/ StartJournal \/ ReadEntry

Next ==
  \/ \E u \in Units : Emit(u) \/ Reset(u) \/ Delete(u)
  \/ Tick \/ Rotate \/ Reconnect
  \/ Collect \/ JournalFails \/ Stop

Spec == Init /\ [][Next]_vars

(* The collector goroutine is scheduled, and restarted whenever it ends.   *)
FairSpec == Spec /\ WF_vars(Collect)

-----------------------------------------------------------------------------
Payload(pos) == journal[pos].unit \in exists
Spared(faults) == \A f \in faults : left[f] = Limits[f]
Retained == first..Len(journal)

(* No event is in a counter twice, however often the collector reads it.   *)
CountedOnce == \A u \in exists, pos \in Positions : counter[u][pos] <= 1

(* When the collector has read to the end, every event that follows the   *)
(* one the accounts began with and is still in the journal is recorded:    *)
(* stops, rotations, resets, deletions and an interrupted fallback leave   *)
(* no gap in the accounts, as long as no database call fails.  Of what was *)
(* written before, a fallback by time may record a part.                   *)
AtEnd == Running /\ reader.next > Len(journal)

NoGaps ==
  AtEnd /\ ledger # {} /\ Spared({"errors"}) =>
    \A pos \in Retained : origin < pos /\ Payload(pos) => pos \in ledger

(* What follows the event the accounts began with is recorded in the end,  *)
(* unless it leaves the journal first, a database call fails or an         *)
(* instance is deleted.                                                    *)
EventuallyCounted ==
  \A pos \in Positions :
    pos \in Retained /\ Payload(pos) /\ ledger # {} /\ origin < pos
      ~> pos \in ledger \/ pos < first \/ ~Spared({"errors", "deletes"})

(* The counters implement TrafficMeter: an event of a deleted instance     *)
(* counts as accounted for.                                                *)
Accounted ==
  {pos \in 1..Len(journal) : pos \in ledger \/ journal[pos].unit \notin exists}
Shown == [u \in Units |-> IF u \in exists THEN counter[u] ELSE Nothing]

Meter == INSTANCE TrafficMeter WITH
  Events <- Positions, live <- exists, seen <- Accounted, meter <- Shown

RefinesMeter == Meter!Spec

=============================================================================
