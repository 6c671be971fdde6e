------------------------------ MODULE EventLog ------------------------------
(***************************************************************************)
(* PersistentDebugEventLog (core/event_log.py) as operators on its state.  *)
(* Every method of it holds the log's own lock, so each is one step of     *)
(* whoever calls it.  Only the form the service opens is modelled, with a  *)
(* database behind the window in memory.                                   *)
(*                                                                         *)
(* A definition under "What if" is not part of the specification: it is    *)
(* the definition after it with a mistake the properties must catch.       *)
(***************************************************************************)
EXTENDS Naturals, Sequences, FiniteSets, FiniteSetsExt

CONSTANTS Window,       \* MEMORY_WINDOW_EVENTS
          Retained      \* DISK_RETAINED_EVENTS

ASSUME LogAssumption == Window \in Nat \ {0} /\ Retained \in Nat \ {0}

(* An event is its sequence number and the debugger process that numbered  *)
(* it.  The memory window is in order of insertion, the table is a set;    *)
(* saved is what the last commit made durable.                             *)
SeqsOf(S)   == {e.seq : e \in S}
InWindow(L) == {L.mem[i] : i \in 1..Len(L.mem)}
Held(L)     == SeqsOf(InWindow(L)) \cup SeqsOf(L.disk)

EmptyLog == [mem |-> <<>>, disk |-> {}, latest |-> 0, gap |-> 0, oldest |-> 0,
             stored |-> 0, evicted |-> 0, saved |-> [disk |-> {}, gap |-> 0]]

(* The n highest of a set of events *)
Newest(S, n) == {e \in S : Cardinality({f \in S : f.seq > e.seq}) < n}

(* The n lowest of a set of events *)
First(S, n) == {e \in S : Cardinality({f \in S : f.seq < e.seq}) < n}

(* A set of events in the order of their sequence numbers *)
InOrder(S) ==
    [i \in 1..Cardinality(S) |->
        CHOOSE e \in S : Cardinality({f \in S : f.seq < e.seq}) = i - 1]

NoteGap(L, s) == [L EXCEPT !.gap = Max({@, s})]

-----------------------------------------------------------------------------
(* append_events *)

(* At or below the eviction mark an event is taken to be on disk. *)
Fresh(L, events) ==
    {e \in events : e.seq \notin SeqsOf(InWindow(L)) /\ e.seq > L.evicted}

(* The window and the counters change before the database is asked. *)
Take(L, new) ==
    LET first == Min(SeqsOf(new))
    IN  [L EXCEPT
           !.gap    = IF L.latest # 0 /\ first > L.latest + 1 THEN Max({@, first - 1}) ELSE @,
           !.mem    = @ \o InOrder(new),
           !.latest = Max({@} \cup SeqsOf(new)),
           !.oldest = IF @ = 0 THEN first ELSE Min({@, first}),
           !.stored = @ + Cardinality(new)]

(* INSERT OR IGNORE *)
Insert(L, new) == [L EXCEPT !.disk = @ \cup {e \in new : e.seq \notin SeqsOf(L.disk)}]

Commit(L) == [L EXCEPT !.saved = [disk |-> L.disk, gap |-> L.gap]]

(* The front of the window is taken to be the oldest. *)
EvictToWindow(L) ==
    LET over == IF Len(L.mem) > Window THEN Len(L.mem) - Window ELSE 0
    IN  [L EXCEPT
           !.mem     = SubSeq(@, over + 1, Len(@)),
           !.evicted = Max({@} \cup {L.mem[i].seq : i \in 1..over})]

TrimDisk(L) ==
    IF L.stored <= Retained \/ Cardinality(L.disk) < Retained THEN L
    ELSE LET keep   == Newest(L.disk, Retained)
             oldest == Min(SeqsOf(keep))
             below  == Max({n \in 0..Len(L.mem) : \A i \in 1..n : L.mem[i].seq < oldest})
         IN  [L EXCEPT
                !.disk       = keep,
                !.saved.disk = keep,
                !.oldest     = oldest,
                !.stored     = Cardinality(keep),
                !.mem        = SubSeq(@, below + 1, Len(@)),
                !.evicted    = Max({@, oldest - 1})]

AppendEvents(L, events) ==
    LET new == Fresh(L, events)
    IN  IF new = {} THEN L
        ELSE TrimDisk(EvictToWindow(Commit(Insert(Take(L, new), new))))

(* What an append that raises can leave behind: the database refuses after *)
(* some of the rows, at the commit, or while it trims.                     *)
RaisingAppends(L, events) ==
    LET new   == Fresh(L, events)
        taken == Take(L, new)
    IN  IF new = {} THEN {}
        ELSE {Insert(taken, First(new, n)) : n \in 0..Cardinality(new)}
                 \cup {EvictToWindow(Commit(Insert(taken, new))), AppendEvents(L, events)}

-----------------------------------------------------------------------------
(* read_after: a page of at most limit events.  It starts above a known    *)
(* gap; a hole below an event of the page counts as dropped as well.       *)
ReadFrom(L, cursor) == IF L.gap > cursor THEN L.gap + 1 ELSE cursor + 1

Page(L, cursor, limit) ==
    LET ahead == Held(L) \cap (ReadFrom(L, cursor)..L.latest)
    IN  {s \in ahead : Cardinality({t \in ahead : t < s}) < limit}

(* What if: a hole were stepped over without being counted. *)
DroppedAtStart(L, cursor, limit) == ReadFrom(L, cursor) - cursor - 1

Dropped(L, cursor, limit) ==
    LET page  == Page(L, cursor, limit)
        first == ReadFrom(L, cursor)
    IN  (first - cursor - 1) +
        (IF page = {} THEN 0 ELSE Cardinality((first..Max(page)) \ page))

ReadAfter(L, cursor, limit) ==
    IF L.latest = 0
    THEN [page |-> {}, next |-> cursor, dropped |-> 0]
    ELSE LET page == Page(L, cursor, limit)
             lost == Dropped(L, cursor, limit)
         IN  [page |-> page, dropped |-> lost,
              next |-> IF page = {} THEN cursor + lost ELSE Max(page)]

-----------------------------------------------------------------------------
(* close, and a log opened again over the same file: what was not          *)
(* committed is gone, and memory holds the newest of the table.            *)
Load(L) ==
    LET table  == L.saved.disk
        window == Newest(table, Window)
        loaded == [EmptyLog EXCEPT !.gap = L.saved.gap, !.saved = L.saved]
    IN  IF table = {} THEN loaded
        ELSE [loaded EXCEPT
                !.mem     = InOrder(window),
                !.disk    = table,
                !.latest  = Max(SeqsOf(table)),
                !.oldest  = Min(SeqsOf(table)),
                !.stored  = Cardinality(table),
                !.evicted = Min(SeqsOf(window)) - 1]
=============================================================================
