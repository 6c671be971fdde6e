----------------------------- MODULE EventDrain -----------------------------
(***************************************************************************)
(* The way of a debugger event to its reader: the ring of the native       *)
(* plugin, the drains that copy it into the durable log                    *)
(* (core/event_drain.py), dynamic.events that serves the log to the        *)
(* consumer, and session.recover, which puts a new debugger over the same  *)
(* log file (core/service.py).                                             *)
(*                                                                         *)
(* Two drainers share one cursor.  The pump holds drain_lock, a call holds *)
(* the runtime's lock, so nothing orders their steps: each use of the      *)
(* cursor, of the worker and of the log is a step of its own.              *)
(*                                                                         *)
(* A definition under "What if" is not part of the specification: it is    *)
(* the definition after it with a mistake the properties must catch.       *)
(***************************************************************************)
EXTENDS EventLog

CONSTANTS Drainers,     \* {"call"} without the background drain, or {"pump", "call"}
          Ring,         \* DebugEventCapacity
          Batch,        \* MAX_DEBUG_EVENT_BATCH
          Limit,        \* events asked of dynamic.events
          Rounds,       \* [pump, call, poll]: max_rounds of each drain
          MaxSeq,       \* bound: events of one debugger
          MaxBroken,    \* bound: events that stand for a lost one
          MaxLives,     \* bound: debuggers, one after the other
          MaxFaults     \* bound: reads and writes that raise

ASSUME DrainAssumption ==
    /\ {"call"} \subseteq Drainers /\ Drainers \subseteq {"pump", "call"}
    /\ {Ring, Batch, Limit} \subseteq Nat \ {0}
    /\ Rounds \in [{"pump", "call", "poll"} -> Nat \ {0}]
    /\ {MaxSeq, MaxBroken, MaxFaults} \subseteq Nat /\ MaxLives \in Nat \ {0}

VARIABLES
    life,       \* which debugger process is open
    head,       \* nextSequence_ - 1 of its ring
    broken,     \* sequences of its debug.unrecovered_gap events
    log,        \* the durable log
    dcur,       \* the drain cursor
    ccur,       \* the consumer's cursor
    pc,         \* where each drainer is
    left,       \* rounds each drainer still has
    batch,      \* the batch each drainer asks for or has read
    polling,    \* the call is in its second drain
    seen,       \* sequences given to the consumer of this debugger
    told,       \* how many it was told were dropped
    faults

journal == <<head, broken>>
drain == <<pc, left, batch, polling>>
consumer == <<ccur, seen, told>>
vars == <<life, journal, log, dcur, drain, consumer, faults>>

(* A batch holds every event above cursor + dropped and up to next. *)
Batches == [cursor : 0..MaxSeq, dropped : 0..MaxSeq, next : 0..MaxSeq, more : BOOLEAN]
NoBatch == [cursor |-> 0, dropped |-> 0, next |-> 0, more |-> FALSE]

BatchSeqs(b) == (b.cursor + b.dropped + 1)..b.next
EventsOf(b)  == {[seq |-> s, life |-> life] : s \in BatchSeqs(b)}

DrainPC == {"ask", "read", "note", "append", "mark", "check", "compare", "advance"}

Init ==
    /\ life = 1 /\ head = 0 /\ broken = {}
    /\ log = EmptyLog
    /\ dcur = 0 /\ ccur = 0 /\ seen = {} /\ told = 0
    /\ pc = [d \in Drainers |-> "idle"]
    /\ left = [d \in Drainers |-> 0]
    /\ batch = [d \in Drainers |-> NoBatch]
    /\ polling = FALSE
    /\ faults = 0

-----------------------------------------------------------------------------
(* The native ring: EventJournal *)

OldestInRing == IF head > Ring THEN head - Ring + 1 ELSE 1

(* A callback publishes its event, or one that stands for it if it threw. *)
Publish ==
    /\ head < MaxSeq
    /\ head' = head + 1
    /\ \/ UNCHANGED broken
       \/ Cardinality(broken) < MaxBroken /\ broken' = broken \cup {head'}
    /\ UNCHANGED <<life, log, dcur, drain, consumer, faults>>

(* EventJournal::Read, of the events above a cursor *)
ReadRing(cursor) ==
    LET dropped == IF cursor + 1 < OldestInRing THEN OldestInRing - cursor - 1 ELSE 0
        next    == Min({head, cursor + dropped + Batch})
    IN  [cursor |-> cursor, dropped |-> dropped, next |-> next, more |-> next < head]

-----------------------------------------------------------------------------
(* drain_native_into_log, one round of a drainer d after another.  The     *)
(* conditions on its own batch are decided with the step before them; what *)
(* the other drainer may change is read in a step of its own.              *)

GoTo(d, to) == pc' = [pc EXCEPT ![d] = to]
Stay(d, to) == GoTo(d, to) /\ UNCHANGED <<left, batch>>

(* Out of the drain, whose local variables end with it *)
Out(d, to) ==
    /\ GoTo(d, to)
    /\ left' = [left EXCEPT ![d] = 0]
    /\ batch' = [batch EXCEPT ![d] = NoBatch]

Leave(d) == Out(d, IF d = "pump" THEN "idle" ELSE "serve")

(* What if: an exception ended the pump's thread. *)
RaiseEndsPump(d) == Out(d, IF d = "pump" THEN "ended" ELSE "idle")
Raise(d) == Out(d, "idle")

AfterNote(b) == IF BatchSeqs(b) = {} THEN "check" ELSE "append"
AfterRead(b) == IF b.dropped > 0 THEN "note" ELSE AfterNote(b)

Ask(d) ==
    /\ pc[d] = "ask"
    /\ left' = [left EXCEPT ![d] = @ - 1]
    /\ batch' = [batch EXCEPT ![d] = [NoBatch EXCEPT !.cursor = dcur]]
    /\ GoTo(d, "read")
    /\ UNCHANGED <<life, journal, log, dcur, polling, consumer, faults>>

(* What if: the cursor moved before the batch is in the log. *)
AdvanceFirst(d) ==
    /\ pc[d] = "read"
    /\ batch' = [batch EXCEPT ![d] = ReadRing(@.cursor)]
    /\ dcur' = batch'[d].next
    /\ GoTo(d, AfterRead(batch'[d]))
    /\ UNCHANGED <<life, journal, log, left, polling, consumer, faults>>

Read(d) ==
    /\ pc[d] = "read"
    /\ batch' = [batch EXCEPT ![d] = ReadRing(@.cursor)]
    /\ GoTo(d, AfterRead(batch'[d]))
    /\ UNCHANGED <<life, journal, log, dcur, left, polling, consumer, faults>>

ReadRaises(d) ==
    /\ pc[d] = "read"
    /\ faults < MaxFaults
    /\ faults' = faults + 1
    /\ Raise(d)
    /\ UNCHANGED <<life, journal, log, dcur, polling, consumer>>

(* What if: the first event still in the ring were counted as lost. *)
NoteOneMore(d) ==
    /\ pc[d] = "note"
    /\ log' = NoteGap(log, dcur + batch[d].dropped + 1)
    /\ Stay(d, AfterNote(batch[d]))
    /\ UNCHANGED <<life, journal, dcur, polling, consumer, faults>>

(* The gap is counted from where the shared cursor is by now. *)
Note(d) ==
    /\ pc[d] = "note"
    /\ log' = NoteGap(log, dcur + batch[d].dropped)
    /\ Stay(d, AfterNote(batch[d]))
    /\ UNCHANGED <<life, journal, dcur, polling, consumer, faults>>

AppendBatch(d) ==
    /\ pc[d] = "append"
    /\ log' = AppendEvents(log, EventsOf(batch[d]))
    /\ Stay(d, IF broken \cap BatchSeqs(batch[d]) = {} THEN "compare" ELSE "mark")
    /\ UNCHANGED <<life, journal, dcur, polling, consumer, faults>>

AppendRaises(d) ==
    /\ pc[d] = "append"
    /\ faults < MaxFaults
    /\ faults' = faults + 1
    /\ log' \in RaisingAppends(log, EventsOf(batch[d]))
    /\ Raise(d)
    /\ UNCHANGED <<life, journal, dcur, polling, consumer>>

MarkBroken(d) ==
    /\ pc[d] = "mark"
    /\ log' = NoteGap(log, Max(broken \cap BatchSeqs(batch[d])))
    /\ Stay(d, "compare")
    /\ UNCHANGED <<life, journal, dcur, polling, consumer, faults>>

NothingNew(d) ==
    /\ pc[d] = "check"
    /\ IF batch[d].next = dcur THEN Leave(d) ELSE Stay(d, "compare")
    /\ UNCHANGED <<life, journal, log, dcur, polling, consumer, faults>>

(* DebugEventCursor.advance: compare, then set *)
Compare(d) ==
    /\ pc[d] = "compare"
    /\ IF batch[d].cursor = dcur THEN Stay(d, "advance") ELSE Raise(d)
    /\ UNCHANGED <<life, journal, log, dcur, polling, consumer, faults>>

Advance(d) ==
    /\ pc[d] = "advance"
    /\ dcur' = batch[d].next
    /\ IF batch[d].more /\ left[d] > 0 THEN Stay(d, "ask") ELSE Leave(d)
    /\ UNCHANGED <<life, journal, log, polling, consumer, faults>>

DrainStep(d) ==
    \/ Ask(d) \/ Read(d) \/ ReadRaises(d) \/ Note(d)
    \/ AppendBatch(d) \/ AppendRaises(d) \/ MarkBroken(d)
    \/ NothingNew(d) \/ Compare(d) \/ Advance(d)

-----------------------------------------------------------------------------
(* EventDrainPump: an attempt after another, however the last one ended *)

PumpWakes ==
    /\ "pump" \in Drainers
    /\ pc["pump"] = "idle"
    /\ left' = [left EXCEPT !["pump"] = Rounds["pump"]]
    /\ GoTo("pump", "ask")
    /\ UNCHANGED <<life, journal, log, dcur, batch, polling, consumer, faults>>

PumpStep == PumpWakes \/ ("pump" \in Drainers /\ DrainStep("pump"))

-----------------------------------------------------------------------------
(* dynamic.events while no navigation waits *)

CallBegins ==
    /\ pc["call"] = "idle"
    /\ left' = [left EXCEPT !["call"] = Rounds["call"]]
    /\ polling' = FALSE
    /\ GoTo("call", "ask")
    /\ UNCHANGED <<life, journal, log, dcur, batch, consumer, faults>>

Served == ReadAfter(log, ccur, Limit)

(* Nothing to serve: one more drain, if the caller's time allows it *)
PollOnce ==
    /\ pc["call"] = "serve"
    /\ Served.page = {} /\ Served.dropped = 0 /\ ~polling
    /\ polling' = TRUE
    /\ left' = [left EXCEPT !["call"] = Rounds["poll"]]
    /\ GoTo("call", "ask")
    /\ UNCHANGED <<life, journal, log, dcur, batch, consumer, faults>>

Serve ==
    /\ pc["call"] = "serve"
    /\ ccur' = Served.next
    /\ seen' = seen \cup Served.page
    /\ told' = told + Served.dropped
    /\ GoTo("call", "idle")
    /\ polling' = FALSE
    /\ UNCHANGED <<life, journal, log, dcur, left, batch, faults>>

CallStep == CallBegins \/ DrainStep("call") \/ PollOnce \/ Serve

-----------------------------------------------------------------------------
(* session.recover: the debugger died.  The pump is stopped, a call that   *)
(* was under way fails with its worker, the log is closed and a new one    *)
(* opened on the same file, under new cursors.                             *)

Recover ==
    /\ life < MaxLives
    /\ life' = life + 1
    /\ head' = 0 /\ broken' = {}
    /\ log' = Load(log)
    /\ dcur' = 0 /\ ccur' = 0 /\ seen' = {} /\ told' = 0
    /\ pc' = [d \in Drainers |-> "idle"]
    /\ left' = [d \in Drainers |-> 0]
    /\ batch' = [d \in Drainers |-> NoBatch]
    /\ polling' = FALSE
    /\ UNCHANGED faults

Next == Publish \/ PumpStep \/ CallStep \/ Recover

Spec == Init /\ [][Next]_vars

(* The pump's thread runs until its runtime is closed. *)
FairSpec == Spec /\ WF_vars(PumpStep)

-----------------------------------------------------------------------------
(* Types of the variables.                                                 *)
TypeOK ==
    /\ life \in 1..MaxLives /\ head \in 0..MaxSeq /\ broken \subseteq 1..MaxSeq
    /\ dcur \in 0..MaxSeq /\ ccur \in Nat /\ told \in Nat
    /\ seen \subseteq 1..MaxSeq
    /\ pc \in [Drainers -> {"idle", "serve"} \cup DrainPC]
    /\ left \in [Drainers -> Nat]
    /\ batch \in [Drainers -> Batches]
    /\ polling \in BOOLEAN
    /\ faults \in 0..MaxFaults

(* Every sequence number up to the consumer's cursor was given to it once  *)
(* or counted once as dropped (read_after, dynamic_events), whatever the   *)
(* drains do meanwhile and whatever the database refused.                  *)
Accounted == Cardinality(seen) + told = ccur

(* What a drain has passed is in the log, or the log says that it lost it: *)
(* it is below the gap mark or below what the table retains.  Debuggers    *)
(* after the first, and writes that raised, are another matter.            *)
Kept(s) == s \in Held(log) \/ s <= log.gap \/ s < log.oldest
DrainedIsKept == life = 1 /\ faults = 0 => \A s \in 1..dcur : Kept(s)

(* The two together: from the ring to the consumer each event arrives      *)
(* once, or is counted as dropped, at the drain or at the reader.          *)
EventsArriveOnce == Accounted /\ DrainedIsKept

(* The gap mark names only what the ring has overwritten or a callback     *)
(* has lost: a reader is not told of a gap that is not there.              *)
GapsAreReal == life = 1 => log.gap < OldestInRing \/ log.gap \in broken

(* Memory holds the newest of the table and the eviction mark is where it  *)
(* ends, so an event at or below the mark is on disk unless it was trimmed *)
(* (_evict_to_window, _trim_disk).  A write that raised leaves more in     *)
(* memory than in the table, and a second debugger, whose numbers start    *)
(* again, may fill a hole in the window it found out of order.             *)
WindowMatchesTable ==
    life = 1 /\ faults = 0 =>
        /\ InWindow(log) = {e \in log.disk : e.seq > log.evicted}
        /\ Len(log.mem) <= Window
        /\ \A i, j \in 1..Len(log.mem) : i < j => log.mem[i].seq < log.mem[j].seq

(* Two drainers count gaps that are not there, and append out of order     *)
(* (drain_native_into_log, append_events): a single one does neither.      *)
AloneLogAgrees == "pump" \notin DOMAIN pc => GapsAreReal /\ WindowMatchesTable

(* Events that remain in the ring are appended, so that they can be read   *)
(* again (the docstring of drain_native_into_log): what a drain passes is  *)
(* in the log as this debugger's event.                                    *)
RingIsAppended ==
    [][\A d \in Drainers :
           pc[d] = "advance" /\ dcur' # dcur
               => \A e \in EventsOf(batch[d]) :
                      e \in InWindow(log) \cup log.disk \/ e.seq < log.oldest]_vars

(* The pump brings the drain cursor to the end of the ring, whether or not *)
(* anybody reads, however a call moves the cursor under it, and after a    *)
(* read or an append that raised (EventDrainPump._run).                    *)
PumpKeepsUp == (head = MaxSeq) ~> (dcur = MaxSeq)
=============================================================================
