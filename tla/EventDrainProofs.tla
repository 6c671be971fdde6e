-------------------------- MODULE EventDrainProofs --------------------------
(***************************************************************************)
(* Proofs about EventDrain and the log it extends, for any drainers, ring, *)
(* batch, window and table, any number of debuggers and any number of      *)
(* failed reads and writes: each event reaches its consumer once or is     *)
(* counted as dropped, and what was drained is kept or accounted for.  A   *)
(* drainer that is alone keeps a log that tells of real gaps only, with a  *)
(* window that agrees with its table.  At the end, the methods and the     *)
(* inspection that the run MCEventDrain explores beside it:                *)
(* TargetIsToldTruly, of its instances.                                    *)
(***************************************************************************)
EXTENDS MCEventDrain, FiniteSetTheorems, SequenceTheorems,
        WellFoundedInduction, TLAPS

-----------------------------------------------------------------------------
(***************************************************************************)
(* The inductive invariant of EventDrain.  LogInv is what every state of   *)
(* the log has in common, also one that a raising append left behind.      *)
(* DrainInv follows a batch from the ring to the cursor: by the time the   *)
(* cursor may move, the log has reached the end of the batch.  CoverInv    *)
(* says where a number is that the log has passed.                         *)
(***************************************************************************)

Event == [seq : 1..MaxSeq, life : 1..MaxLives]

(* A table has one row for a sequence number. *)
Unique(S) == \A e, f \in S : e.seq = f.seq => e = f

Log == [mem : Seq(Event), disk : SUBSET Event, latest : 0..MaxSeq, gap : Nat,
        oldest : 0..MaxSeq, stored : Nat, evicted : 0..MaxSeq,
        saved : [disk : SUBSET Event, gap : Nat]]

(* The marks of the log enclose what it holds. *)
LogInv(L) ==
    /\ L \in Log
    /\ Unique(L.disk) /\ Unique(L.saved.disk)
    /\ \A s \in Held(L) : s <= L.latest
    /\ L.evicted <= L.latest
    /\ \A s \in SeqsOf(L.disk) : 0 < L.oldest /\ L.oldest <= s

(* The batch of a drainer, and how far the log has got with it: a batch    *)
(* that skips what the ring has dropped is not empty, and before the first *)
(* append of all the skipped numbers are below the gap mark.               *)
BatchInv(d) ==
    LET b == batch[d] IN
    /\ b.cursor <= log.latest
    /\ b.dropped > 0 => BatchSeqs(b) # {}
    /\ pc[d] = "ask" => left[d] > 0
    /\ pc[d] \in {"note", "append"} => BatchSeqs(b) # {}
    /\ pc[d] = "append" /\ log.latest = 0 => b.cursor + b.dropped <= log.gap
    /\ pc[d] = "mark" => broken \cap BatchSeqs(b) # {}
    /\ pc[d] \in {"mark", "check", "compare", "advance"} => b.next <= log.latest

DrainInv == dcur <= log.latest /\ \A d \in Drainers : BatchInv(d)

(* A number the log has passed is in the table, below the gap mark, or was *)
(* trimmed from the table and from the window.                             *)
Covered(L, s) ==
    \/ s \in SeqsOf(L.disk)
    \/ s <= L.gap
    \/ s < L.oldest /\ s <= L.evicted

AllCovered(L) == \A s \in 1..L.latest : Covered(L, s)

CoverInv == life = 1 /\ faults = 0 => AllCovered(log)

(* What was seen is not seen again. *)
SeenInv == seen \subseteq 1..ccur /\ Accounted

IInv == TypeOK /\ LogInv(log) /\ DrainInv /\ CoverInv /\ SeenInv

-----------------------------------------------------------------------------
(* Least and greatest numbers of a set *)

LEMMA MinIs ==
    ASSUME NEW S \in SUBSET Nat, S # {}
    PROVE  Min(S) \in S /\ \A x \in S : Min(S) <= x
  <1>1. PICK x \in S : \A y \in S : ~ (<<y, x>> \in OpToRel(<, Nat))
    BY NatLessThanWellFounded, WFMin
  <1>2. \A y \in S : x <= y
    <2>1. ASSUME NEW y \in S, y < x
          PROVE  FALSE
      BY <1>1, <2>1 DEF OpToRel
    <2> QED
      BY <2>1
  <1> QED
    BY <1>1, <1>2 DEF Min

LEMMA MaxIs ==
    ASSUME NEW n \in Nat, NEW S \in SUBSET (0..n), S # {}
    PROVE  /\ Max(S) \in S /\ \A x \in S : x <= Max(S)
           /\ Max(S) \in 0..n
  <1> DEFINE below == {n - x : x \in S}
  <1>1. below \in SUBSET Nat /\ below # {}
    <2>1. \A x \in S : n - x \in Nat
      OBVIOUS
    <2>2. PICK x \in S : TRUE
      OBVIOUS
    <2>3. n - x \in below
      OBVIOUS
    <2> QED
      BY <2>1, <2>3
  <1>2. Min(below) \in below /\ \A x \in below : Min(below) <= x
    BY <1>1, MinIs
  <1>3. PICK x \in S : Min(below) = n - x
    BY <1>2
  <1>4. \A y \in S : x >= y
    <2> TAKE y \in S
    <2>1. n - y \in below
      OBVIOUS
    <2>2. n - x <= n - y
      BY <1>2, <1>3, <2>1
    <2>3. n \in Nat /\ x \in Nat /\ y \in Nat
      OBVIOUS
    <2> HIDE DEF below
    <2> QED
      BY <2>2, <2>3
  <1>5. Max(S) \in S /\ \A y \in S : Max(S) >= y
    BY <1>4 DEF Max
  <1> QED
    BY <1>5

LEMMA MaxOfTwo ==
    ASSUME NEW a \in Nat, NEW b \in Nat
    PROVE  Max({a, b}) = IF a < b THEN b ELSE a
  <1>1. {a, b} \in SUBSET (0..(a + b)) /\ {a, b} # {}
    OBVIOUS
  <1> QED
    BY <1>1, MaxIs

LEMMA MinOfTwo ==
    ASSUME NEW a \in Nat, NEW b \in Nat
    PROVE  Min({a, b}) = IF a < b THEN a ELSE b
  <1>1. {a, b} \in SUBSET Nat /\ {a, b} # {}
    OBVIOUS
  <1> QED
    BY <1>1, MinIs

-----------------------------------------------------------------------------
(* Sets of events in the order of their numbers *)

Rank(S, e) == Cardinality({f \in S : f.seq < e.seq})

LEMMA TableFinite ==
    ASSUME NEW S \in SUBSET Event, Unique(S)
    PROVE  IsFiniteSet(S)
  <1> DEFINE number == [e \in S |-> e.seq]
  <1>1. number \in Injection(S, 1..MaxSeq)
    BY DEF Unique, Event, Injection, IsInjective
  <1>2. IsFiniteSet(1..MaxSeq)
    BY FS_Interval, DrainAssumption
  <1> QED
    BY <1>1, <1>2, FS_Injection

(* A set of events has one of each rank below its size. *)
LEMMA Ranks ==
    ASSUME NEW S \in SUBSET Event, Unique(S)
    PROVE  /\ Cardinality(S) \in Nat
           /\ \A e \in S : Rank(S, e) \in 0..(Cardinality(S) - 1)
           /\ \A i \in 1..Cardinality(S) : \E e \in S : Rank(S, e) = i - 1
           /\ \A e, f \in S : Rank(S, e) = Rank(S, f) => e = f
  <1> DEFINE n == Cardinality(S)
             below(e) == {f \in S : f.seq < e.seq}
  <1>1. IsFiniteSet(S) /\ n \in Nat
    BY TableFinite, FS_CardinalityType
  <1>2. \A e \in S : Rank(S, e) \in 0..(n - 1)
    <2> TAKE e \in S
    <2>1. below(e) \in SUBSET S /\ below(e) # S
      BY DEF Event
    <2>2. IsFiniteSet(below(e)) /\ Cardinality(below(e)) <= n /\ Cardinality(below(e)) # n
      BY <1>1, <2>1, FS_Subset
    <2>3. Cardinality(below(e)) \in Nat
      BY <2>2, FS_CardinalityType
    <2> QED
      BY <1>1, <2>2, <2>3 DEF Rank
  <1>3. \A e, f \in S : e.seq < f.seq => Rank(S, e) < Rank(S, f)
    <2> SUFFICES ASSUME NEW e \in S, NEW f \in S, e.seq < f.seq
                 PROVE  Rank(S, e) < Rank(S, f)
      OBVIOUS
    <2>1. below(e) \in SUBSET below(f) /\ below(e) # below(f)
      BY DEF Event
    <2>2. below(f) \in SUBSET S
      OBVIOUS
    <2>3. IsFiniteSet(below(f))
      BY <1>1, <2>2, FS_Subset
    <2>4. /\ Cardinality(below(e)) <= Cardinality(below(f))
          /\ Cardinality(below(e)) # Cardinality(below(f))
      BY <2>1, <2>3, FS_Subset
    <2> QED
      BY <1>2, <2>4 DEF Rank
  <1>4. \A e, f \in S : Rank(S, e) = Rank(S, f) => e = f
    <2> SUFFICES ASSUME NEW e \in S, NEW f \in S, Rank(S, e) = Rank(S, f)
                 PROVE  e = f
      OBVIOUS
    <2>1. e.seq \in Nat /\ f.seq \in Nat
      BY DEF Event
    <2>2. ~(e.seq < f.seq) /\ ~(f.seq < e.seq)
      BY <1>2, <1>3
    <2> QED
      BY <2>1, <2>2 DEF Unique
  <1>5. \A i \in 1..n : \E e \in S : Rank(S, e) = i - 1
    <2> DEFINE rank == [e \in S |-> Rank(S, e)]
               ranks == 0..(n - 1)
    <2>1. rank \in Injection(S, ranks)
      BY <1>2, <1>4 DEF Injection, IsInjective
    <2>2. IsFiniteSet(ranks) /\ Cardinality(ranks) = n
      BY <1>1, FS_Interval
    <2>3. rank \in Surjection(S, ranks)
      BY <2>1, <2>2, FS_Injection
    <2>4. \A j \in ranks : \E e \in S : rank[e] = j
      BY <2>3 DEF Surjection
    <2> QED
      BY <1>1, <2>4
  <1> QED
    BY <1>1, <1>2, <1>4, <1>5

LEMMA InOrderIs ==
    ASSUME NEW S \in SUBSET Event, Unique(S)
    PROVE  /\ InOrder(S) \in Seq(Event)
           /\ {InOrder(S)[i] : i \in 1..Len(InOrder(S))} = S
  <1> DEFINE n == Cardinality(S)
             at(i) == CHOOSE e \in S : Rank(S, e) = i - 1
  <1>1. InOrder(S) = [i \in 1..n |-> at(i)]
    BY DEF InOrder, Rank
  <1>2. n \in Nat /\ \A i \in 1..n : at(i) \in S /\ Rank(S, at(i)) = i - 1
    BY Ranks
  <1>3. InOrder(S) \in [1..n -> Event]
    BY <1>1, <1>2
  <1>4. InOrder(S) \in Seq(Event)
    BY <1>2, <1>3, SeqDef
  <1>5. Len(InOrder(S)) = n
    BY <1>2, <1>3, <1>4, LenProperties
  <1>6. \A e \in S : \E i \in 1..n : at(i) = e
    <2> TAKE e \in S
    <2>1. Rank(S, e) + 1 \in 1..n
      BY Ranks
    <2>2. Rank(S, at(Rank(S, e) + 1)) = Rank(S, e)
      BY <1>2, <2>1, Ranks
    <2>3. at(Rank(S, e) + 1) = e
      BY <1>2, <2>1, <2>2, Ranks
    <2> QED
      BY <2>1, <2>3
  <1> QED
    BY <1>1, <1>2, <1>4, <1>5, <1>6

-----------------------------------------------------------------------------
(* The invariant of the log, event by event *)

LogFacts(L) ==
    /\ L.mem \in Seq(Event) /\ L.disk \in SUBSET Event
    /\ L.latest \in 0..MaxSeq /\ L.gap \in Nat /\ L.oldest \in 0..MaxSeq
    /\ L.stored \in Nat /\ L.evicted \in 0..MaxSeq
    /\ L.saved \in [disk : SUBSET Event, gap : Nat]
    /\ Unique(L.disk) /\ Unique(L.saved.disk)
    /\ \A i \in 1..Len(L.mem) : L.mem[i] \in Event /\ L.mem[i].seq <= L.latest
    /\ \A e \in L.disk : e.seq <= L.latest /\ 0 < L.oldest /\ L.oldest <= e.seq
    /\ L.evicted <= L.latest

LEMMA FactsOf ==
    ASSUME NEW L, LogInv(L)
    PROVE  LogFacts(L)
  <1>1. L.mem \in Seq(Event)
    BY DEF LogInv, Log
  <1>2. \A i \in 1..Len(L.mem) : L.mem[i] \in Event
    BY <1>1, ElementOfSeq
  <1> QED
    BY <1>1, <1>2 DEF LogInv, Log, LogFacts, Held, SeqsOf, InWindow

LEMMA InvFrom ==
    ASSUME NEW L \in Log, LogFacts(L)
    PROVE  LogInv(L)
  BY DEF LogInv, LogFacts, Held, SeqsOf, InWindow

-----------------------------------------------------------------------------
(* The operations of the log *)

LEMMA NoteGapKeeps ==
    ASSUME NEW L, LogInv(L), NEW s \in Nat
    PROVE  LET M == NoteGap(L, s)
           IN  /\ LogInv(M)
               /\ M.latest = L.latest /\ L.gap <= M.gap /\ s <= M.gap
               /\ AllCovered(L) => AllCovered(M)
  <1> DEFINE M == NoteGap(L, s)
             gap == Max({L.gap, s})
  <1>1. LogFacts(L) /\ L \in Log
    BY FactsOf DEF LogInv
  <1>2. gap \in Nat /\ L.gap <= gap /\ s <= gap
    BY <1>1, MaxOfTwo DEF LogFacts
  <1> HIDE DEF gap
  <1>3. M = [L EXCEPT !.gap = gap]
    BY DEF NoteGap, gap
  <1> HIDE DEF M
  <1>4. M \in Log
    BY <1>1, <1>2, <1>3 DEF Log
  <1>5. /\ M.mem = L.mem /\ M.disk = L.disk /\ M.latest = L.latest /\ M.gap = gap
        /\ M.oldest = L.oldest /\ M.stored = L.stored /\ M.evicted = L.evicted
        /\ M.saved = L.saved
    BY <1>1, <1>3 DEF Log
  <1>6. LogInv(M)
    BY <1>1, <1>2, <1>4, <1>5, InvFrom DEF LogFacts
  <1>7. AllCovered(L) => AllCovered(M)
    BY <1>1, <1>2, <1>5 DEF AllCovered, Covered, LogFacts
  <1> QED
    BY <1>2, <1>5, <1>6, <1>7 DEF M

(* What an append takes in: events the log does not know yet *)
LEMMA FreshIs ==
    ASSUME NEW L, NEW events \in SUBSET Event, Unique(events)
    PROVE  /\ Fresh(L, events) \in SUBSET Event
           /\ Unique(Fresh(L, events))
  BY DEF Fresh, Unique

LEMMA SeqsAre ==
    ASSUME NEW S \in SUBSET Event, S # {}
    PROVE  /\ SeqsOf(S) \in SUBSET (1..MaxSeq) /\ SeqsOf(S) # {}
           /\ Min(SeqsOf(S)) \in SeqsOf(S) /\ \A e \in S : Min(SeqsOf(S)) <= e.seq
           /\ Max(SeqsOf(S)) \in SeqsOf(S) /\ \A e \in S : e.seq <= Max(SeqsOf(S))
  <1>1. SeqsOf(S) \in SUBSET (1..MaxSeq) /\ SeqsOf(S) # {}
    BY DEF SeqsOf, Event
  <1>2. MaxSeq \in Nat /\ SeqsOf(S) \in SUBSET Nat /\ SeqsOf(S) \in SUBSET (0..MaxSeq)
    BY <1>1, DrainAssumption
  <1>3. \A e \in S : e.seq \in SeqsOf(S)
    BY DEF SeqsOf
  <1>4. Min(SeqsOf(S)) \in SeqsOf(S) /\ \A x \in SeqsOf(S) : Min(SeqsOf(S)) <= x
    BY <1>1, <1>2, MinIs
  <1>5. Max(SeqsOf(S)) \in SeqsOf(S) /\ \A x \in SeqsOf(S) : x <= Max(SeqsOf(S))
    BY <1>1, <1>2, MaxIs
  <1> QED
    BY <1>1, <1>3, <1>4, <1>5

(* What Take makes of the marks of the log *)
Taken(L, new, M) ==
    /\ M.disk = L.disk /\ M.saved = L.saved /\ M.evicted = L.evicted
    /\ M.latest \in {L.latest} \cup SeqsOf(new) /\ L.latest <= M.latest
    /\ L.gap <= M.gap
    /\ \A e \in new : 0 < M.oldest /\ M.oldest <= e.seq /\ e.seq <= M.latest
    /\ L.oldest # 0 => M.oldest = L.oldest \/ M.oldest \in SeqsOf(new)
    /\ L.latest # 0 =>
          \A s \in Nat : L.latest < s /\ (\A e \in new : s < e.seq) => s <= M.gap

LEMMA TakeKeeps ==
    ASSUME NEW L, LogInv(L), NEW new \in SUBSET Event, Unique(new), new # {}
    PROVE  LogInv(Take(L, new)) /\ Taken(L, new, Take(L, new))
  <1> DEFINE M      == Take(L, new)
             first  == Min(SeqsOf(new))
             gap    == IF L.latest # 0 /\ first > L.latest + 1
                       THEN Max({L.gap, first - 1}) ELSE L.gap
             mem    == L.mem \o InOrder(new)
             latest == Max({L.latest} \cup SeqsOf(new))
             oldest == IF L.oldest = 0 THEN first ELSE Min({L.oldest, first})
             stored == L.stored + Cardinality(new)
  <1>l. LogFacts(L) /\ L \in Log /\ MaxSeq \in Nat
    BY FactsOf, DrainAssumption DEF LogInv
  <1>s. /\ SeqsOf(new) \in SUBSET (1..MaxSeq) /\ SeqsOf(new) # {}
        /\ first \in SeqsOf(new) /\ first \in 1..MaxSeq /\ \A e \in new : first <= e.seq
    BY SeqsAre
  <1>1. M = [L EXCEPT !.gap = gap, !.mem = mem, !.latest = latest,
                      !.oldest = oldest, !.stored = stored]
    BY DEF Take
  <1>2. /\ gap \in Nat /\ L.gap <= gap
        /\ L.latest # 0 /\ first > L.latest + 1 => first - 1 <= gap
    <2>1. first - 1 \in Nat /\ L.gap \in Nat /\ L.latest \in Nat
      BY <1>l, <1>s DEF LogFacts
    <2> QED
      BY <2>1, MaxOfTwo
  <1>3. /\ latest \in {L.latest} \cup SeqsOf(new) /\ latest \in 0..MaxSeq
        /\ L.latest <= latest /\ \A e \in new : e.seq <= latest
    <2>1. {L.latest} \cup SeqsOf(new) \in SUBSET (0..MaxSeq)
      BY <1>l, <1>s DEF LogFacts
    <2>2. \A e \in new : e.seq \in {L.latest} \cup SeqsOf(new)
      BY DEF SeqsOf
    <2> QED
      BY <1>l, <2>1, <2>2, MaxIs
  <1>4. /\ oldest \in 1..MaxSeq /\ oldest <= first
        /\ L.oldest # 0 => oldest <= L.oldest /\ oldest \in {L.oldest, first}
    <2>1. L.oldest \in 0..MaxSeq /\ L.oldest \in Nat /\ first \in Nat
      BY <1>l, <1>s DEF LogFacts
    <2>2. Min({L.oldest, first}) = IF L.oldest < first THEN L.oldest ELSE first
      BY <2>1, MinOfTwo
    <2> HIDE DEF first
    <2> QED
      BY <1>l, <1>s, <2>1, <2>2
  <1>5. stored \in Nat
    BY <1>l, Ranks DEF LogFacts
  <1>6. /\ mem \in Seq(Event)
        /\ \A i \in 1..Len(mem) : mem[i].seq <= latest
    <2> DEFINE add == InOrder(new)
    <2>1. add \in Seq(Event) /\ L.mem \in Seq(Event)
      BY <1>l, InOrderIs DEF LogFacts
    <2>2. \A i \in 1..Len(add) : add[i] \in new
      BY InOrderIs
    <2>3. /\ mem \in Seq(Event) /\ Len(mem) = Len(L.mem) + Len(add)
          /\ \A i \in 1..Len(L.mem) + Len(add) :
                mem[i] = IF i <= Len(L.mem) THEN L.mem[i] ELSE add[i - Len(L.mem)]
      BY <2>1, ConcatProperties
    <2>4. Len(L.mem) \in Nat /\ Len(add) \in Nat
      BY <2>1, LenProperties
    <2> HIDE DEF add, mem, latest
    <2>5. \A i \in 1..Len(mem) : mem[i].seq <= latest
      <3> TAKE i \in 1..Len(mem)
      <3>1. CASE i <= Len(L.mem)
        <4>1. mem[i] = L.mem[i] /\ L.mem[i] \in Event /\ L.mem[i].seq <= L.latest
          BY <1>l, <2>3, <2>4, <3>1 DEF LogFacts
        <4> QED
          BY <4>1, <1>3, <1>l, SMTT(60) DEF Event, LogFacts
      <3>2. CASE i > Len(L.mem)
        <4>1. i - Len(L.mem) \in 1..Len(add) /\ mem[i] = add[i - Len(L.mem)]
          BY <2>3, <2>4, <3>2
        <4> QED
          BY <4>1, <2>2, <1>3
      <3> QED
        BY <2>4, <3>1, <3>2
    <2> QED
      BY <2>3, <2>5
  <1> HIDE DEF M, gap, mem, latest, oldest, stored
  <1>7. M \in Log
    <2>1. oldest \in 0..MaxSeq
      BY <1>l, <1>4
    <2> QED
      BY <1>l, <1>1, <1>2, <1>3, <1>5, <1>6, <2>1 DEF Log
  <1>8. /\ M.mem = mem /\ M.disk = L.disk /\ M.latest = latest /\ M.gap = gap
        /\ M.oldest = oldest /\ M.stored = stored /\ M.evicted = L.evicted
        /\ M.saved = L.saved
    BY <1>l, <1>1 DEF Log
  <1>9. \A e \in L.disk : e.seq <= latest /\ 0 < oldest /\ oldest <= e.seq
    BY <1>l, <1>3, <1>4 DEF LogFacts, Event
  <1>10. LogFacts(M)
    <2>1. \A i \in 1..Len(mem) : mem[i] \in Event
      BY <1>6, ElementOfSeq
    <2> QED
      BY <1>l, <1>2, <1>3, <1>4, <1>5, <1>6, <1>8, <1>9, <2>1, SMTT(60) DEF LogFacts
  <1>11. Taken(L, new, M)
    <2>1. \A e \in new : 0 < oldest /\ oldest <= e.seq /\ e.seq <= latest
      BY <1>s, <1>3, <1>4 DEF Event
    <2>2. L.latest # 0 =>
            \A s \in Nat : L.latest < s /\ (\A e \in new : s < e.seq) => s <= gap
      <3> SUFFICES ASSUME L.latest # 0, NEW s \in Nat, L.latest < s,
                          \A e \in new : s < e.seq
                   PROVE  s <= gap
        OBVIOUS
      <3>1. s < first
        BY <1>s DEF SeqsOf
      <3> QED
        BY <1>l, <1>s, <1>2, <3>1 DEF LogFacts
    <2> QED
      BY <1>l, <1>s, <1>2, <1>3, <1>4, <1>8, <2>1, <2>2 DEF Taken
  <1> QED
    BY <1>7, <1>10, <1>11, InvFrom DEF M

LEMMA InsertKeeps ==
    ASSUME NEW L, LogInv(L), NEW add \in SUBSET Event, Unique(add),
           \A e \in add : 0 < L.oldest /\ L.oldest <= e.seq /\ e.seq <= L.latest
    PROVE  LET M == Insert(L, add)
           IN  /\ LogInv(M)
               /\ M.latest = L.latest /\ M.gap = L.gap /\ M.oldest = L.oldest
               /\ M.evicted = L.evicted /\ M.mem = L.mem
               /\ SeqsOf(M.disk) = SeqsOf(L.disk) \cup SeqsOf(add)
  <1> DEFINE M == Insert(L, add)
             disk == L.disk \cup {e \in add : e.seq \notin SeqsOf(L.disk)}
  <1>1. LogFacts(L) /\ L \in Log
    BY FactsOf DEF LogInv
  <1>2. M = [L EXCEPT !.disk = disk]
    BY DEF Insert
  <1>3. /\ disk \in SUBSET Event
        /\ \A e \in disk : e.seq <= L.latest /\ 0 < L.oldest /\ L.oldest <= e.seq
        /\ SeqsOf(disk) = SeqsOf(L.disk) \cup SeqsOf(add)
    BY <1>1 DEF LogFacts, SeqsOf
  <1>4. Unique(disk)
    BY <1>1 DEF LogFacts, SeqsOf, Unique
  <1> HIDE DEF disk, M
  <1>5. M \in Log
    BY <1>1, <1>2, <1>3 DEF Log
  <1>6. /\ M.mem = L.mem /\ M.disk = disk /\ M.latest = L.latest /\ M.gap = L.gap
        /\ M.oldest = L.oldest /\ M.stored = L.stored /\ M.evicted = L.evicted
        /\ M.saved = L.saved
    BY <1>1, <1>2 DEF Log
  <1>7. LogInv(M)
    BY <1>1, <1>3, <1>4, <1>5, <1>6, InvFrom DEF LogFacts
  <1> QED
    BY <1>3, <1>6, <1>7 DEF M

LEMMA CommitKeeps ==
    ASSUME NEW L, LogInv(L)
    PROVE  LET M == Commit(L)
           IN  /\ LogInv(M)
               /\ M.latest = L.latest /\ M.gap = L.gap /\ M.oldest = L.oldest
               /\ M.evicted = L.evicted /\ M.mem = L.mem /\ M.disk = L.disk
  <1> DEFINE M == Commit(L)
             saved == [disk |-> L.disk, gap |-> L.gap]
  <1>1. LogFacts(L) /\ L \in Log
    BY FactsOf DEF LogInv
  <1>2. M = [L EXCEPT !.saved = saved]
    BY DEF Commit
  <1>3. /\ saved \in [disk : SUBSET Event, gap : Nat] /\ Unique(saved.disk)
    BY <1>1 DEF LogFacts
  <1> HIDE DEF saved, M
  <1>4. M \in Log
    BY <1>1, <1>2, <1>3 DEF Log
  <1>5. /\ M.mem = L.mem /\ M.disk = L.disk /\ M.latest = L.latest /\ M.gap = L.gap
        /\ M.oldest = L.oldest /\ M.stored = L.stored /\ M.evicted = L.evicted
        /\ M.saved = saved
    BY <1>1, <1>2 DEF Log
  <1>6. LogInv(M)
    BY <1>1, <1>3, <1>4, <1>5, InvFrom DEF LogFacts
  <1> QED
    BY <1>5, <1>6 DEF M

(* The window without its first events is a window. *)
LEMMA WindowKeeps ==
    ASSUME NEW L, LogInv(L), NEW k \in Nat, k <= Len(L.mem)
    PROVE  LET mem == SubSeq(L.mem, k + 1, Len(L.mem))
           IN  /\ mem \in Seq(Event)
               /\ \A i \in 1..Len(mem) : mem[i] \in Event /\ mem[i].seq <= L.latest
  <1> DEFINE n == Len(L.mem)
             mem == SubSeq(L.mem, k + 1, n)
  <1>1. LogFacts(L)
    BY FactsOf
  <1>2. n \in Nat
    BY <1>1, LenProperties DEF LogFacts
  <1>3. \A i \in (k + 1)..n : L.mem[i] \in Event /\ L.mem[i].seq <= L.latest
    BY <1>1, <1>2 DEF LogFacts
  <1>4. /\ mem \in Seq(Event)
        /\ Len(mem) = IF k + 1 <= n THEN n - (k + 1) + 1 ELSE 0
        /\ \A i \in 1..(n - (k + 1) + 1) : mem[i] = L.mem[(k + 1) + i - 1]
    BY <1>2, <1>3, SubSeqProperties
  <1>5. \A i \in 1..Len(mem) : mem[i] \in Event /\ mem[i].seq <= L.latest
    <2> TAKE i \in 1..Len(mem)
    <2>1. i \in 1..(n - (k + 1) + 1) /\ (k + 1) + i - 1 \in (k + 1)..n
      BY <1>2, <1>4
    <2> HIDE DEF mem, n
    <2> QED
      BY <1>3, <1>4, <2>1
  <1> QED
    BY <1>4, <1>5

LEMMA EvictKeeps ==
    ASSUME NEW L, LogInv(L)
    PROVE  LET M == EvictToWindow(L)
           IN  /\ LogInv(M)
               /\ M.latest = L.latest /\ M.gap = L.gap /\ M.oldest = L.oldest
               /\ L.evicted <= M.evicted /\ M.disk = L.disk
  <1> DEFINE M == EvictToWindow(L)
             over == IF Len(L.mem) > Window THEN Len(L.mem) - Window ELSE 0
             mem == SubSeq(L.mem, over + 1, Len(L.mem))
             gone == {L.evicted} \cup {L.mem[i].seq : i \in 1..over}
             evicted == Max(gone)
  <1>1. LogFacts(L) /\ L \in Log /\ MaxSeq \in Nat
    BY FactsOf, DrainAssumption DEF LogInv
  <1>2. M = [L EXCEPT !.mem = mem, !.evicted = evicted]
    BY DEF EvictToWindow
  <1>3. over \in Nat /\ over <= Len(L.mem)
    BY <1>1, LenProperties, LogAssumption DEF LogFacts
  <1>4. /\ mem \in Seq(Event)
        /\ \A i \in 1..Len(mem) : mem[i] \in Event /\ mem[i].seq <= L.latest
    BY <1>3, WindowKeeps
  <1>5. evicted \in 0..MaxSeq /\ L.evicted <= evicted /\ evicted <= L.latest
    <2>1. \A i \in 1..over : L.mem[i].seq \in 0..MaxSeq /\ L.mem[i].seq <= L.latest
      <3> TAKE i \in 1..over
      <3>1. i \in 1..Len(L.mem)
        BY <1>1, <1>3, LenProperties DEF LogFacts
      <3>2. L.mem[i] \in Event /\ L.mem[i].seq <= L.latest
        BY <1>1, <3>1 DEF LogFacts
      <3>3. L.mem[i].seq \in 1..MaxSeq
        BY <3>2 DEF Event
      <3> QED
        BY <1>1, <3>2, <3>3
    <2>2. gone \in SUBSET (0..MaxSeq) /\ gone # {} /\ \A x \in gone : x <= L.latest
      BY <1>1, <2>1 DEF LogFacts
    <2>3. evicted \in gone /\ evicted \in 0..MaxSeq /\ \A x \in gone : x <= evicted
      BY <1>1, <2>2, MaxIs
    <2> QED
      BY <2>2, <2>3
  <1> HIDE DEF over, mem, evicted, M
  <1>6. M \in Log
    BY <1>1, <1>2, <1>4, <1>5 DEF Log
  <1>7. /\ M.mem = mem /\ M.disk = L.disk /\ M.latest = L.latest /\ M.gap = L.gap
        /\ M.oldest = L.oldest /\ M.stored = L.stored /\ M.evicted = evicted
        /\ M.saved = L.saved
    BY <1>1, <1>2 DEF Log
  <1>8. LogInv(M)
    BY <1>1, <1>4, <1>5, <1>6, <1>7, InvFrom DEF LogFacts
  <1> QED
    BY <1>5, <1>7, <1>8 DEF M

(* Of a table the newest are kept: what goes is older than all that stays. *)
LEMMA NewestIs ==
    ASSUME NEW S \in SUBSET Event, Unique(S), S # {}, NEW n \in Nat \ {0}
    PROVE  LET keep == Newest(S, n)
           IN  /\ keep \in SUBSET S /\ keep # {} /\ Unique(keep)
               /\ \A e \in S : e \in keep \/ e.seq < Min(SeqsOf(keep))
  <1> DEFINE keep == Newest(S, n)
             above(e) == {f \in S : f.seq > e.seq}
  <1>1. IsFiniteSet(S)
    BY TableFinite
  <1>2. keep \in SUBSET S /\ Unique(keep)
    BY DEF Newest, Unique
  <1>3. keep # {}
    <2>1. PICK e \in S : e.seq = Max(SeqsOf(S))
      BY SeqsAre DEF SeqsOf
    <2>2. above(e) = {}
      <3>1. \A f \in S : f.seq <= e.seq /\ f.seq \in Nat /\ e.seq \in Nat
        BY <2>1, SeqsAre DEF Event
      <3> QED
        BY <3>1
    <2>3. Cardinality(above(e)) = 0
      BY <2>2, FS_EmptySet
    <2> QED
      BY <2>1, <2>3 DEF Newest
  <1>4. \A e \in S, k \in keep : e.seq > k.seq => e \in keep
    <2> SUFFICES ASSUME NEW e \in S, NEW k \in keep, e.seq > k.seq
                 PROVE  e \in keep
      OBVIOUS
    <2>1. above(e) \in SUBSET above(k) /\ above(k) \in SUBSET S
      BY <1>2 DEF Event
    <2>2. IsFiniteSet(above(k)) /\ IsFiniteSet(above(e))
      BY <1>1, <2>1, FS_Subset
    <2>3. Cardinality(above(e)) <= Cardinality(above(k))
      BY <2>1, <2>2, FS_Subset
    <2>4. Cardinality(above(e)) \in Nat /\ Cardinality(above(k)) \in Nat
      BY <2>2, FS_CardinalityType
    <2>5. Cardinality(above(k)) < n
      BY DEF Newest
    <2>6. Cardinality(above(e)) < n
      BY <2>3, <2>4, <2>5
    <2> QED
      BY <2>6 DEF Newest
  <1>5. PICK k \in keep : k.seq = Min(SeqsOf(keep))
    <2>1. keep \in SUBSET Event
      BY <1>2
    <2> QED
      BY <1>3, <2>1, SeqsAre DEF SeqsOf
  <1>6. \A e \in S : e \in keep \/ e.seq < k.seq
    <2> TAKE e \in S
    <2>1. e.seq \in Nat /\ k.seq \in Nat /\ k \in S
      BY <1>2 DEF Event
    <2>2. CASE e.seq = k.seq
      BY <2>1, <2>2 DEF Unique
    <2> QED
      BY <1>4, <2>1, <2>2
  <1> QED
    BY <1>2, <1>3, <1>5, <1>6

LEMMA TrimKeeps ==
    ASSUME NEW L, LogInv(L)
    PROVE  LET M == TrimDisk(L)
           IN  /\ LogInv(M)
               /\ M.latest = L.latest /\ M.gap = L.gap /\ L.evicted <= M.evicted
               /\ AllCovered(L) => AllCovered(M)
  <1> DEFINE M       == TrimDisk(L)
             keep    == Newest(L.disk, Retained)
             oldest  == Min(SeqsOf(keep))
             lengths == {n \in 0..Len(L.mem) : \A i \in 1..n : L.mem[i].seq < oldest}
             below   == Max(lengths)
             mem     == SubSeq(L.mem, below + 1, Len(L.mem))
             stored  == Cardinality(keep)
             evicted == Max({L.evicted, oldest - 1})
  <1>1. LogFacts(L) /\ L \in Log /\ MaxSeq \in Nat
    BY FactsOf, DrainAssumption DEF LogInv
  <1>2. CASE L.stored <= Retained \/ Cardinality(L.disk) < Retained
    <2>1. M = L
      BY <1>2 DEF TrimDisk
    <2> QED
      BY <1>1, <2>1 DEF LogFacts
  <1>3. CASE ~(L.stored <= Retained \/ Cardinality(L.disk) < Retained)
    <2>1. M = [L EXCEPT !.disk = keep, !.saved.disk = keep, !.oldest = oldest,
                        !.stored = stored, !.mem = mem, !.evicted = evicted]
      BY <1>3 DEF TrimDisk
    <2>2. L.disk \in SUBSET Event /\ Unique(L.disk) /\ L.disk # {}
      <3>1. L.disk = {} => Cardinality(L.disk) < Retained
        BY FS_EmptySet, LogAssumption
      <3> QED
        BY <1>1, <1>3, <3>1 DEF LogFacts
    <2>3. /\ keep \in SUBSET L.disk /\ keep # {} /\ Unique(keep)
          /\ \A e \in L.disk : e \in keep \/ e.seq < oldest
      BY <2>2, NewestIs, LogAssumption
    <2>4. keep \in SUBSET Event
      BY <2>2, <2>3
    <2>5. /\ oldest \in 1..MaxSeq /\ \A e \in keep : oldest <= e.seq
          /\ \E e \in keep : e.seq = oldest
      BY <2>3, <2>4, SeqsAre DEF SeqsOf
    <2>6. L.oldest <= oldest /\ oldest <= L.latest
      BY <1>1, <2>3, <2>5 DEF LogFacts
    <2>7. stored \in Nat
      BY <2>3, <2>4, Ranks
    <2>8. below \in Nat /\ below <= Len(L.mem)
      <3>1. Len(L.mem) \in Nat
        BY <1>1, LenProperties DEF LogFacts
      <3>2. lengths \in SUBSET (0..Len(L.mem)) /\ 0 \in lengths
        BY <3>1
      <3>3. below \in 0..Len(L.mem)
        BY <3>1, <3>2, MaxIs
      <3> HIDE DEF below
      <3> QED
        BY <3>1, <3>3
    <2>9. /\ mem \in Seq(Event)
          /\ \A i \in 1..Len(mem) : mem[i] \in Event /\ mem[i].seq <= L.latest
      BY <2>8, WindowKeeps
    <2>10. /\ evicted \in 0..MaxSeq /\ L.evicted <= evicted /\ oldest - 1 <= evicted
           /\ evicted <= L.latest
      <3>1. L.evicted \in Nat /\ oldest - 1 \in Nat /\ L.evicted \in 0..MaxSeq
        BY <1>1, <2>5 DEF LogFacts
      <3>2. evicted = IF L.evicted < oldest - 1 THEN oldest - 1 ELSE L.evicted
        BY <3>1, MaxOfTwo
      <3> HIDE DEF oldest, evicted
      <3> QED
        BY <1>1, <2>5, <2>6, <3>1, <3>2 DEF LogFacts
    <2> HIDE DEF keep, oldest, below, mem, stored, evicted, M
    <2>11. M \in Log
      <3>1. oldest \in 0..MaxSeq
        BY <1>1, <2>5
      <3> QED
        BY <1>1, <2>1, <2>4, <2>7, <2>9, <2>10, <3>1 DEF Log
    <2>12. /\ M.mem = mem /\ M.disk = keep /\ M.latest = L.latest /\ M.gap = L.gap
           /\ M.oldest = oldest /\ M.stored = stored /\ M.evicted = evicted
           /\ M.saved = [disk |-> keep, gap |-> L.saved.gap]
      BY <1>1, <2>1 DEF Log
    <2>13. LogInv(M)
      <3>1. \A e \in keep : e.seq <= L.latest /\ 0 < oldest /\ oldest <= e.seq
        BY <1>1, <2>3, <2>5 DEF LogFacts
      <3>2. M.saved \in [disk : SUBSET Event, gap : Nat] /\ Unique(M.saved.disk)
        BY <1>1, <2>3, <2>4, <2>12 DEF LogFacts
      <3>3. oldest \in 0..MaxSeq
        BY <1>1, <2>5
      <3>4. LogFacts(M)
        BY <1>1, <2>3, <2>4, <2>7, <2>9, <2>10, <2>12, <3>1, <3>2, <3>3 DEF LogFacts
      <3> QED
        BY <2>11, <3>4, InvFrom
    <2>14. ASSUME AllCovered(L)
           PROVE  AllCovered(M)
      <3> SUFFICES ASSUME NEW s \in 1..L.latest
                   PROVE  Covered(M, s)
        BY <2>12 DEF AllCovered
      <3>1. CASE s \in SeqsOf(L.disk)
        <4>1. PICK e \in L.disk : e.seq = s
          BY <3>1 DEF SeqsOf
        <4>2. CASE e \in keep
          BY <2>12, <4>1, <4>2 DEF Covered, SeqsOf
        <4>3. CASE e.seq < oldest
          BY <1>1, <2>5, <2>10, <2>12, <4>1, <4>3 DEF Covered, LogFacts
        <4> QED
          BY <2>3, <4>2, <4>3
      <3>2. CASE s <= L.gap
        BY <2>12, <3>2 DEF Covered
      <3>3. CASE s < L.oldest /\ s <= L.evicted
        <4>1. s < oldest /\ s <= evicted
          BY <1>1, <2>5, <2>6, <2>10, <3>3 DEF LogFacts
        <4> QED
          BY <2>12, <4>1 DEF Covered
      <3> QED
        BY <2>14, <3>1, <3>2, <3>3 DEF AllCovered, Covered
    <2> QED
      BY <2>10, <2>12, <2>13, <2>14 DEF M
  <1> QED
    BY <1>2, <1>3

(* From the insertion on, an append neither loses nor moves anything that  *)
(* is not accounted for.                                                   *)
LEMMA StoreKeeps ==
    ASSUME NEW L, LogInv(L)
    PROVE  LET E == EvictToWindow(Commit(L))
               M == TrimDisk(E)
           IN  /\ LogInv(E) /\ E.latest = L.latest /\ E.gap = L.gap
               /\ LogInv(M) /\ M.latest = L.latest /\ M.gap = L.gap
               /\ AllCovered(L) => AllCovered(M)
  <1> DEFINE C == Commit(L)
             E == EvictToWindow(C)
             M == TrimDisk(E)
  <1>1. /\ LogInv(C) /\ C.latest = L.latest /\ C.gap = L.gap /\ C.oldest = L.oldest
        /\ C.evicted = L.evicted /\ C.disk = L.disk
    BY CommitKeeps
  <1> HIDE DEF C
  <1>2. /\ LogInv(E) /\ E.latest = C.latest /\ E.gap = C.gap /\ E.oldest = C.oldest
        /\ C.evicted <= E.evicted /\ E.disk = C.disk
    BY <1>1, EvictKeeps
  <1>3. AllCovered(L) => AllCovered(E)
    <2>1. LogFacts(E) /\ LogFacts(C) /\ LogFacts(L)
      BY <1>1, <1>2, FactsOf
    <2> HIDE DEF E
    <2> QED
      BY <1>1, <1>2, <2>1 DEF AllCovered, Covered, LogFacts
  <1> HIDE DEF E
  <1>4. /\ LogInv(M) /\ M.latest = E.latest /\ M.gap = E.gap
        /\ AllCovered(E) => AllCovered(M)
    BY <1>2, TrimKeeps
  <1> QED
    BY <1>1, <1>2, <1>3, <1>4 DEF C, E

(* A log that has taken in and stored some new events *)
LEMMA TakenIn ==
    ASSUME NEW L, LogInv(L), NEW new \in SUBSET Event, Unique(new), new # {},
           NEW add \in SUBSET new
    PROVE  LET M == Insert(Take(L, new), add)
           IN  /\ LogInv(M) /\ L.latest <= M.latest /\ L.gap <= M.gap
               /\ \A e \in new : e.seq <= M.latest
  <1> DEFINE T == Take(L, new)
             M == Insert(T, add)
  <1>1. LogInv(T) /\ Taken(L, new, T)
    BY TakeKeeps
  <1>2. /\ add \in SUBSET Event /\ Unique(add)
        /\ \A e \in add : 0 < T.oldest /\ T.oldest <= e.seq /\ e.seq <= T.latest
    BY <1>1 DEF Taken, Unique
  <1> HIDE DEF T
  <1>3. LogInv(M) /\ M.latest = T.latest /\ M.gap = T.gap
    BY <1>1, <1>2, InsertKeeps
  <1> QED
    BY <1>1, <1>3 DEF Taken, T

(* The log after an append, also after one that raised *)
Appended(L, events, M) ==
    /\ LogInv(M) /\ L.latest <= M.latest /\ L.gap <= M.gap
    /\ \A e \in events : e.seq <= M.latest

LEMMA KnownOrNew ==
    ASSUME NEW L, LogInv(L), NEW events \in SUBSET Event, NEW e \in events
    PROVE  e \in Fresh(L, events) \/ e.seq <= L.latest
  <1>1. LogFacts(L)
    BY FactsOf
  <1>2. e.seq \in Nat /\ L.evicted \in Nat /\ L.latest \in Nat
    BY <1>1 DEF LogFacts, Event
  <1>3. CASE e.seq \in SeqsOf(InWindow(L))
    <2>1. PICK i \in 1..Len(L.mem) : e.seq = L.mem[i].seq
      BY <1>3 DEF SeqsOf, InWindow
    <2> QED
      BY <1>1, <2>1 DEF LogFacts
  <1>4. CASE e.seq <= L.evicted
    BY <1>1, <1>2, <1>4 DEF LogFacts
  <1> QED
    BY <1>2, <1>3, <1>4 DEF Fresh

LEMMA AppendKeeps ==
    ASSUME NEW L, LogInv(L), NEW events \in SUBSET Event, Unique(events)
    PROVE  Appended(L, events, AppendEvents(L, events))
  <1> DEFINE new == Fresh(L, events)
             I   == Insert(Take(L, new), new)
  <1>1. LogFacts(L)
    BY FactsOf
  <1>2. \A e \in events : e \in new \/ e.seq <= L.latest
    BY KnownOrNew
  <1>3. CASE new = {}
    <2>1. AppendEvents(L, events) = L
      BY <1>3 DEF AppendEvents
    <2>2. \A e \in events : e.seq <= L.latest
      BY <1>2, <1>3
    <2> HIDE DEF new
    <2> QED
      BY <1>1, <2>1, <2>2 DEF Appended, LogFacts
  <1>4. CASE new # {}
    <2>1. AppendEvents(L, events) = TrimDisk(EvictToWindow(Commit(I)))
      BY <1>4 DEF AppendEvents
    <2>2. new \in SUBSET Event /\ Unique(new)
      BY FreshIs
    <2>3. new \in SUBSET new
      OBVIOUS
    <2> HIDE DEF new
    <2>4. /\ LogInv(I) /\ L.latest <= I.latest /\ L.gap <= I.gap
          /\ \A e \in new : e.seq <= I.latest
      BY <1>4, <2>2, <2>3, TakenIn
    <2>5. \A e \in events : e.seq <= I.latest
      <3> TAKE e \in events
      <3>1. e.seq \in Nat /\ L.latest \in Nat /\ I.latest \in Nat
        BY <1>1, <2>4, FactsOf DEF LogFacts, Event
      <3> QED
        BY <1>2, <2>4, <3>1
    <2> HIDE DEF I
    <2> QED
      BY <2>1, <2>4, <2>5, StoreKeeps DEF Appended
  <1> QED
    BY <1>3, <1>4

LEMMA RaisingKeeps ==
    ASSUME NEW L, LogInv(L), NEW events \in SUBSET Event, Unique(events),
           NEW M \in RaisingAppends(L, events)
    PROVE  LogInv(M) /\ L.latest <= M.latest /\ L.gap <= M.gap
  <1> DEFINE new == Fresh(L, events)
             T   == Take(L, new)
  <1>1. new \in SUBSET Event /\ Unique(new)
    BY FreshIs
  <1>2. /\ new # {}
        /\ \/ \E n \in 0..Cardinality(new) : M = Insert(T, First(new, n))
           \/ M = EvictToWindow(Commit(Insert(T, new)))
           \/ M = AppendEvents(L, events)
    BY DEF RaisingAppends
  <1> HIDE DEF new
  <1>3. ASSUME NEW n \in 0..Cardinality(new), M = Insert(T, First(new, n))
        PROVE  LogInv(M) /\ L.latest <= M.latest /\ L.gap <= M.gap
    <2>1. First(new, n) \in SUBSET new
      BY DEF First
    <2> QED
      BY <1>1, <1>2, <1>3, <2>1, TakenIn
  <1>4. CASE M = EvictToWindow(Commit(Insert(T, new)))
    <2> DEFINE I == Insert(T, new)
    <2>1. new \in SUBSET new
      OBVIOUS
    <2>2. LogInv(I) /\ L.latest <= I.latest /\ L.gap <= I.gap
      BY <1>1, <1>2, <2>1, TakenIn
    <2> HIDE DEF I
    <2>3. /\ LogInv(EvictToWindow(Commit(I)))
          /\ EvictToWindow(Commit(I)).latest = I.latest
          /\ EvictToWindow(Commit(I)).gap = I.gap
      BY <2>2, StoreKeeps
    <2> QED
      BY <1>4, <2>2, <2>3 DEF I
  <1>5. CASE M = AppendEvents(L, events)
    BY <1>5, AppendKeeps DEF Appended
  <1> QED
    BY <1>2, <1>3, <1>4, <1>5

(* A batch that the log receives without an exception is accounted for,    *)
(* if it starts where the log ends or below, or above a gap that is noted. *)
LEMMA AppendCovers ==
    ASSUME NEW L, LogInv(L), AllCovered(L),
           NEW events \in SUBSET Event, Unique(events),
           NEW a \in Nat, NEW z \in Nat, SeqsOf(events) = a..z,
           L.latest = 0 => a - 1 <= L.gap
    PROVE  AllCovered(AppendEvents(L, events))
  <1> DEFINE new == Fresh(L, events)
             T   == Take(L, new)
             I   == Insert(T, new)
  <1>1. CASE new = {}
    BY <1>1 DEF AppendEvents
  <1>2. CASE new # {}
    <2>l. LogFacts(L)
      BY FactsOf
    <2>1. AppendEvents(L, events) = TrimDisk(EvictToWindow(Commit(I)))
      BY <1>2 DEF AppendEvents
    <2>2. new \in SUBSET Event /\ Unique(new)
      BY FreshIs
    <2>3. /\ SeqsOf(new) \subseteq a..z /\ SeqsOf(new) \subseteq Nat
          /\ \A s \in SeqsOf(new) : s > L.evicted
          /\ \A s \in a..z : s > L.latest => s \in SeqsOf(new)
      <3>1. \A e \in new : e \in events /\ e.seq > L.evicted
        BY DEF Fresh
      <3>2. ASSUME NEW s \in a..z, s > L.latest
            PROVE  s \in SeqsOf(new)
        <4>1. PICK e \in events : e.seq = s
          BY DEF SeqsOf
        <4>2. e \in new
          BY <2>l, <3>2, <4>1, KnownOrNew DEF LogFacts
        <4> QED
          BY <4>1, <4>2 DEF SeqsOf
      <3> QED
        BY <3>1, <3>2 DEF SeqsOf
    <2> HIDE DEF new
    <2>4. LogInv(T) /\ Taken(L, new, T)
      BY <1>2, <2>2, TakeKeeps
    <2>5. LogFacts(T)
      BY <2>4, FactsOf
    <2>6. \A e \in new : 0 < T.oldest /\ T.oldest <= e.seq /\ e.seq <= T.latest
      BY <2>4 DEF Taken
    <2> HIDE DEF T
    <2>7. /\ LogInv(I) /\ I.latest = T.latest /\ I.gap = T.gap /\ I.oldest = T.oldest
          /\ I.evicted = T.evicted
          /\ SeqsOf(I.disk) = SeqsOf(T.disk) \cup SeqsOf(new)
      BY <2>2, <2>4, <2>6, InsertKeeps
    <2> HIDE DEF I
    <2>8. ASSUME NEW s \in 1..T.latest, s <= L.latest
          PROVE  Covered(I, s)
      <3>1. s \in 1..L.latest
        BY <2>l, <2>5, <2>8 DEF LogFacts
      <3>2. Covered(L, s)
        BY <3>1 DEF AllCovered
      <3>3. CASE s \in SeqsOf(L.disk)
        BY <2>4, <2>7, <3>3 DEF Covered, Taken
      <3>4. CASE s <= L.gap
        BY <2>l, <2>4, <2>5, <2>7, <3>4 DEF Covered, Taken, LogFacts
      <3>5. CASE s < L.oldest /\ s <= L.evicted
        <4>1. T.evicted = L.evicted /\ (T.oldest = L.oldest \/ T.oldest \in SeqsOf(new))
          BY <2>l, <2>4, <3>5 DEF Taken, LogFacts
        <4>2. s < T.oldest
          BY <2>l, <2>3, <2>5, <3>5, <4>1 DEF LogFacts
        <4> QED
          BY <2>7, <3>5, <4>1, <4>2 DEF Covered
      <3> QED
        BY <3>2, <3>3, <3>4, <3>5 DEF Covered
    <2>9. ASSUME NEW s \in 1..T.latest, s > L.latest
          PROVE  Covered(I, s)
      <3>1. CASE s \in SeqsOf(new)
        BY <2>7, <3>1 DEF Covered
      <3>2. CASE s \notin SeqsOf(new)
        <4>1. s < a \/ s > z
          BY <2>3, <2>9, <3>2
        <4>2. T.latest \in SeqsOf(new) /\ T.latest <= z
          BY <2>l, <2>3, <2>4, <2>5, <2>9 DEF Taken, LogFacts
        <4>3. s < a
          BY <4>1, <4>2, <2>5 DEF LogFacts
        <4>4. \A e \in new : s < e.seq
          BY <2>3, <4>3 DEF SeqsOf
        <4>5. s <= T.gap
          <5>1. CASE L.latest = 0
            BY <2>l, <2>4, <2>5, <4>3, <5>1 DEF Taken, LogFacts
          <5>2. CASE L.latest # 0
            BY <2>4, <2>9, <4>4, <5>2 DEF Taken
          <5> QED
            BY <5>1, <5>2
        <4> QED
          BY <2>7, <4>5 DEF Covered
      <3> QED
        BY <3>1, <3>2
    <2>10. AllCovered(I)
      <3>1. \A s \in 1..T.latest : s <= L.latest \/ s > L.latest
        BY <2>l, <2>5 DEF LogFacts
      <3> QED
        BY <2>7, <2>8, <2>9, <3>1 DEF AllCovered
    <2> QED
      BY <2>1, <2>7, <2>10, StoreKeeps
  <1> QED
    BY <1>1, <1>2

LEMMA EmptyKeeps == LogInv(EmptyLog)
  <1>1. EmptyLog \in Log
    BY DrainAssumption DEF EmptyLog, Log
  <1> QED
    BY <1>1, DrainAssumption DEF EmptyLog, LogInv, Held, InWindow, SeqsOf, Unique

LEMMA LoadKeeps ==
    ASSUME NEW L, LogInv(L)
    PROVE  LogInv(Load(L))
  <1> DEFINE M       == Load(L)
             table   == L.saved.disk
             window  == Newest(table, Window)
             loaded  == [EmptyLog EXCEPT !.gap = L.saved.gap, !.saved = L.saved]
             mem     == InOrder(window)
             latest  == Max(SeqsOf(table))
             oldest  == Min(SeqsOf(table))
             stored  == Cardinality(table)
             evicted == Min(SeqsOf(window)) - 1
  <1>1. LogFacts(L) /\ MaxSeq \in Nat
    BY FactsOf, DrainAssumption
  <1>2. table \in SUBSET Event /\ Unique(table) /\ L.saved.gap \in Nat
    BY <1>1 DEF LogFacts
  <1>3. loaded \in Log
    <2>1. EmptyLog \in Log
      BY EmptyKeeps DEF LogInv
    <2>2. L.saved \in [disk : SUBSET Event, gap : Nat]
      BY <1>1 DEF LogFacts
    <2> QED
      BY <1>2, <2>1, <2>2 DEF Log
  <1>4. /\ loaded.mem = <<>> /\ loaded.disk = {} /\ loaded.latest = 0
        /\ loaded.gap = L.saved.gap /\ loaded.oldest = 0 /\ loaded.stored = 0
        /\ loaded.evicted = 0 /\ loaded.saved = L.saved
    BY DEF EmptyLog
  <1> HIDE DEF loaded
  <1>5. CASE table = {}
    <2>1. M = loaded
      BY <1>5 DEF Load, loaded
    <2>2. LogFacts(loaded)
      BY <1>1, <1>3, <1>4, EmptySeq DEF LogFacts, Log, Unique
    <2> QED
      BY <1>3, <2>1, <2>2, InvFrom
  <1>6. CASE table # {}
    <2>1. M = [loaded EXCEPT !.mem = mem, !.disk = table, !.latest = latest,
                             !.oldest = oldest, !.stored = stored, !.evicted = evicted]
      BY <1>6 DEF Load, loaded
    <2>2. /\ window \in SUBSET table /\ window # {} /\ Unique(window)
      BY <1>2, <1>6, NewestIs, LogAssumption
    <2>3. window \in SUBSET Event
      BY <1>2, <2>2
    <2>4. /\ latest \in 1..MaxSeq /\ oldest \in 1..MaxSeq
          /\ \A e \in table : e.seq <= latest /\ oldest <= e.seq
      BY <1>2, <1>6, SeqsAre
    <2>5. evicted \in 0..MaxSeq /\ evicted <= latest
      <3>1. Min(SeqsOf(window)) \in 1..MaxSeq /\ Min(SeqsOf(window)) <= latest
        BY <2>2, <2>3, <2>4, SeqsAre DEF SeqsOf
      <3> DEFINE low == Min(SeqsOf(window))
      <3> HIDE DEF low, latest
      <3> QED
        BY <1>1, <2>4, <3>1 DEF low
    <2>6. stored \in Nat
      BY <1>2, Ranks
    <2>7. mem \in Seq(Event) /\ \A i \in 1..Len(mem) : mem[i] \in window
      BY <2>2, <2>3, InOrderIs
    <2>8. \A i \in 1..Len(mem) : mem[i] \in Event /\ mem[i].seq <= latest
      BY <2>2, <2>3, <2>4, <2>7
    <2> HIDE DEF table, window, mem, latest, oldest, stored, evicted, M
    <2>9. oldest \in 0..MaxSeq /\ latest \in 0..MaxSeq
      BY <1>1, <2>4
    <2>10. M \in Log
      BY <1>2, <1>3, <2>1, <2>5, <2>6, <2>7, <2>9 DEF Log
    <2>11. /\ M.mem = mem /\ M.disk = table /\ M.latest = latest
           /\ M.gap = L.saved.gap /\ M.oldest = oldest /\ M.stored = stored
           /\ M.evicted = evicted /\ M.saved = L.saved
      BY <1>3, <1>4, <2>1 DEF Log
    <2>12. \A e \in table : e.seq <= latest /\ 0 < oldest /\ oldest <= e.seq
      BY <2>4
    <2>13. LogFacts(M)
      BY <1>1, <1>2, <2>5, <2>6, <2>7, <2>8, <2>9, <2>11, <2>12 DEF LogFacts
    <2> QED
      BY <2>10, <2>13, InvFrom DEF M
  <1> QED
    BY <1>5, <1>6

-----------------------------------------------------------------------------
(* Batches *)

Places == {"idle", "serve"} \cup DrainPC

(* What a drainer's step may do to log, ring and the types of its own state *)
Grown ==
    /\ LogInv(log) /\ LogInv(log')
    /\ log.latest <= log'.latest /\ log.gap <= log'.gap
    /\ broken \subseteq broken'

LEMMA NoBatchType == NoBatch \in Batches /\ BatchSeqs(NoBatch) = {}
  BY DrainAssumption DEF NoBatch, Batches, BatchSeqs

LEMMA ReadRingIs ==
    ASSUME TypeOK, NEW c \in 0..MaxSeq
    PROVE  /\ ReadRing(c) \in Batches
           /\ ReadRing(c).cursor = c
           /\ ReadRing(c).dropped > 0 => BatchSeqs(ReadRing(c)) # {}
  <1> DEFINE dropped == IF c + 1 < OldestInRing THEN OldestInRing - c - 1 ELSE 0
             ends    == {head, c + dropped + Batch}
             next    == Min(ends)
  <1>1. /\ MaxSeq \in Nat /\ Ring \in Nat \ {0} /\ Batch \in Nat \ {0}
        /\ head \in 0..MaxSeq
    BY DrainAssumption DEF TypeOK
  <1>2. OldestInRing \in 1..(MaxSeq + 1) /\ (OldestInRing > 1 => OldestInRing <= head)
    BY <1>1 DEF OldestInRing
  <1>3. dropped \in 0..MaxSeq /\ (dropped > 0 => c + dropped < head)
    BY <1>1, <1>2
  <1>4. ReadRing(c) = [cursor |-> c, dropped |-> dropped, next |-> next,
                       more |-> next < head]
    BY DEF ReadRing
  <1>5. next = IF head < c + dropped + Batch THEN head ELSE c + dropped + Batch
    BY <1>1, <1>3, MinOfTwo
  <1> HIDE DEF dropped, next
  <1>6. next \in 0..MaxSeq /\ (dropped > 0 => c + dropped < next)
    BY <1>1, <1>3, <1>5
  <1>7. ReadRing(c) \in Batches
    BY <1>3, <1>4, <1>6 DEF Batches
  <1>8. ASSUME dropped > 0
        PROVE  next \in (c + dropped + 1)..next
    BY <1>1, <1>3, <1>6, <1>8
  <1> QED
    BY <1>4, <1>7, <1>8 DEF BatchSeqs

(* The events of a batch are numbered from its start to its end. *)
LEMMA EventsAre ==
    ASSUME TypeOK, NEW b \in Batches
    PROVE  /\ EventsOf(b) \in SUBSET Event /\ Unique(EventsOf(b))
           /\ SeqsOf(EventsOf(b)) = (b.cursor + b.dropped + 1)..b.next
           /\ BatchSeqs(b) # {} => \E e \in EventsOf(b) : e.seq = b.next
  <1>1. /\ b.cursor \in Nat /\ b.dropped \in Nat /\ b.next \in 0..MaxSeq
        /\ MaxSeq \in Nat /\ life \in 1..MaxLives
    BY DrainAssumption DEF Batches, TypeOK
  <1>2. BatchSeqs(b) \in SUBSET (1..MaxSeq)
    BY <1>1 DEF BatchSeqs
  <1>3. EventsOf(b) \in SUBSET Event /\ Unique(EventsOf(b))
    <2>1. \A s \in BatchSeqs(b) : [seq |-> s, life |-> life] \in Event
      BY <1>1, <1>2 DEF Event
    <2>2. EventsOf(b) \in SUBSET Event
      BY <2>1 DEF EventsOf
    <2>3. \A e, f \in EventsOf(b) : e.seq = f.seq => e = f
      <3> TAKE e, f \in EventsOf(b)
      <3>1. PICK s \in BatchSeqs(b) : e = [seq |-> s, life |-> life]
        BY DEF EventsOf
      <3>2. PICK t \in BatchSeqs(b) : f = [seq |-> t, life |-> life]
        BY DEF EventsOf
      <3> QED
        BY <3>1, <3>2
    <2> QED
      BY <2>2, <2>3 DEF Unique
  <1>4. SeqsOf(EventsOf(b)) = BatchSeqs(b)
    <2>1. \A s \in BatchSeqs(b) : [seq |-> s, life |-> life] \in EventsOf(b)
      BY DEF EventsOf
    <2>2. \A s \in BatchSeqs(b) : \E e \in EventsOf(b) : e.seq = s
      <3> TAKE s \in BatchSeqs(b)
      <3>1. [seq |-> s, life |-> life].seq = s
        OBVIOUS
      <3> QED
        BY <2>1, <3>1
    <2>3. \A e \in EventsOf(b) : e.seq \in BatchSeqs(b)
      <3> TAKE e \in EventsOf(b)
      <3>1. PICK s \in BatchSeqs(b) : e = [seq |-> s, life |-> life]
        BY DEF EventsOf
      <3> QED
        BY <3>1
    <2> QED
      BY <2>2, <2>3 DEF SeqsOf
  <1>5. BatchSeqs(b) # {} => b.next \in BatchSeqs(b)
    BY <1>1 DEF BatchSeqs
  <1> QED
    BY <1>3, <1>4, <1>5 DEF SeqsOf, BatchSeqs

LEMMA OthersKeep ==
    ASSUME TypeOK, Grown, NEW e \in Drainers, BatchInv(e),
           pc'[e] = pc[e], left'[e] = left[e], batch'[e] = batch[e]
    PROVE  BatchInv(e)'
  <1>1. LogFacts(log) /\ LogFacts(log')
    BY FactsOf DEF Grown
  <1>2. batch[e] \in Batches
    BY DEF TypeOK
  <1>3. /\ log.latest \in Nat /\ log'.latest \in Nat /\ log.gap \in Nat /\ log'.gap \in Nat
        /\ batch[e].cursor \in Nat /\ batch[e].dropped \in Nat /\ batch[e].next \in Nat
    <2>1. \A L : LogFacts(L) => L.latest \in Nat /\ L.gap \in Nat
      BY DEF LogFacts
    <2>2. \A b \in Batches : b.cursor \in Nat /\ b.dropped \in Nat /\ b.next \in Nat
      BY DEF Batches
    <2> QED
      BY <1>1, <1>2, <2>1, <2>2
  <1>4. batch'[e] = batch[e]
    OBVIOUS
  <1>5. BatchSeqs(batch[e])' = BatchSeqs(batch[e])
    BY ONLY <1>4 DEF BatchSeqs
  <1> QED
    BY <1>3, <1>5 DEF BatchInv, Grown

-----------------------------------------------------------------------------
(* The step of a drainer *)

Stepped(d) ==
    /\ pc' \in [Drainers -> Places]
    /\ left' \in [Drainers -> Nat] /\ batch' \in [Drainers -> Batches]
    /\ \A e \in Drainers \ {d} :
          pc'[e] = pc[e] /\ left'[e] = left[e] /\ batch'[e] = batch[e]

LEMMA StayStep ==
    ASSUME TypeOK, NEW d \in Drainers, NEW to \in Places, Stay(d, to)
    PROVE  Stepped(d) /\ pc'[d] = to /\ left'[d] = left[d] /\ batch'[d] = batch[d]
  BY DEF TypeOK, Places, Stay, GoTo, Stepped

LEMMA OutStep ==
    ASSUME TypeOK, NEW d \in Drainers, NEW to \in {"idle", "serve"}, Out(d, to)
    PROVE  Stepped(d) /\ pc'[d] = to /\ batch'[d] = NoBatch
  BY NoBatchType DEF TypeOK, Places, Out, GoTo, Stepped

(* A drainer that is out of its drain has nothing to keep. *)
LEMMA OutKeeps ==
    ASSUME TypeOK, NEW d \in Drainers, NEW to \in {"idle", "serve"}, Out(d, to),
           LogInv(log')
    PROVE  Stepped(d) /\ BatchInv(d)'
  <1>1. Stepped(d) /\ pc'[d] = to /\ batch'[d] = NoBatch
    BY OutStep
  <1>2. 0 <= log'.latest
    BY FactsOf, DrainAssumption DEF LogFacts
  <1>3. NoBatch.cursor = 0 /\ NoBatch.dropped = 0
    BY DEF NoBatch
  <1> QED
    BY <1>1, <1>2, <1>3 DEF BatchInv

LEMMA Assemble ==
    ASSUME IInv, NEW d \in Drainers, Stepped(d), Grown, BatchInv(d)', CoverInv',
           dcur' \in 0..MaxSeq, dcur' <= log'.latest, faults' \in 0..MaxFaults,
           polling' \in BOOLEAN, UNCHANGED <<life, journal, consumer>>
    PROVE  IInv'
  <1>1. TypeOK
    BY DEF IInv
  <1>2. TypeOK'
    BY <1>1 DEF TypeOK, Stepped, Places, journal, consumer
  <1>3. DrainInv'
    <2>1. ASSUME NEW e \in Drainers, e # d
          PROVE  BatchInv(e)'
      BY <1>1, <2>1, OthersKeep DEF Stepped, IInv, DrainInv
    <2> QED
      BY <2>1 DEF DrainInv
  <1>4. SeenInv'
    BY DEF IInv, SeenInv, Accounted, consumer
  <1> QED
    BY <1>2, <1>3, <1>4 DEF IInv, Grown

(* A step that leaves the log alone *)
LEMMA Quiet ==
    ASSUME IInv, NEW d \in Drainers, Stepped(d), BatchInv(d)',
           dcur' \in 0..MaxSeq, dcur' <= log.latest, polling' \in BOOLEAN,
           UNCHANGED <<life, journal, log, consumer, faults>>
    PROVE  IInv'
  <1>1. LogInv(log) /\ LogFacts(log)
    BY FactsOf DEF IInv
  <1>2. Grown
    BY <1>1 DEF Grown, journal, LogFacts
  <1>3. CoverInv'
    BY DEF IInv, CoverInv
  <1> QED
    BY <1>2, <1>3, Assemble DEF IInv, TypeOK

LEMMA AskKeeps ==
    ASSUME IInv, NEW d \in Drainers, Ask(d)
    PROVE  IInv'
  <1> DEFINE b == [NoBatch EXCEPT !.cursor = dcur]
  <1>1. TypeOK /\ LogFacts(log) /\ BatchInv(d)
    BY FactsOf DEF IInv, DrainInv
  <1>2. /\ b \in Batches /\ b.cursor = dcur /\ b.dropped = 0
    <2>1. NoBatch \in Batches /\ NoBatch.dropped = 0
      BY NoBatchType DEF NoBatch
    <2>2. dcur \in 0..MaxSeq
      BY <1>1 DEF TypeOK
    <2> QED
      BY <2>1, <2>2 DEF Batches
  <1>3. left[d] - 1 \in Nat
    BY <1>1 DEF Ask, BatchInv, TypeOK
  <1> HIDE DEF b
  <1>4. /\ pc' = [pc EXCEPT ![d] = "read"] /\ batch' = [batch EXCEPT ![d] = b]
        /\ left' = [left EXCEPT ![d] = left[d] - 1]
    BY DEF Ask, GoTo, b
  <1>5. Stepped(d) /\ pc'[d] = "read" /\ batch'[d] = b
    BY <1>1, <1>2, <1>3, <1>4 DEF Stepped, TypeOK, Places, DrainPC
  <1>6. BatchInv(d)'
    <2>1. dcur <= log.latest /\ log' = log
      BY DEF IInv, DrainInv, Ask
    <2> QED
      BY <1>2, <1>5, <2>1 DEF BatchInv
  <1> QED
    BY <1>1, <1>5, <1>6, Quiet DEF Ask, IInv, DrainInv, TypeOK

LEMMA ReadKeeps ==
    ASSUME IInv, NEW d \in Drainers, Read(d)
    PROVE  IInv'
  <1> DEFINE b == ReadRing(batch[d].cursor)
  <1>1. TypeOK /\ LogFacts(log) /\ BatchInv(d) /\ batch[d].cursor \in 0..MaxSeq
    BY FactsOf DEF IInv, DrainInv, TypeOK, Batches
  <1>2. /\ b \in Batches /\ b.cursor = batch[d].cursor
        /\ b.dropped > 0 => BatchSeqs(b) # {}
    BY <1>1, ReadRingIs
  <1>3. b.cursor <= log.latest
    BY <1>1, <1>2 DEF BatchInv
  <1> HIDE DEF b
  <1>4. /\ batch' = [batch EXCEPT ![d] = b] /\ left' = left
        /\ pc' = [pc EXCEPT ![d] = AfterRead(batch'[d])]
    BY DEF Read, GoTo, b
  <1>5. batch'[d] = b
    BY <1>1, <1>4 DEF TypeOK
  <1>6. AfterRead(b) \in Places
    BY DEF AfterRead, AfterNote, Places, DrainPC
  <1>7. Stepped(d) /\ pc'[d] = AfterRead(b)
    BY <1>1, <1>2, <1>4, <1>5, <1>6 DEF Stepped, TypeOK, Places
  <1>8. BatchInv(d)'
    <2>1. log' = log
      BY DEF Read
    <2>2. b.cursor \in Nat /\ b.dropped \in Nat /\ b.next \in Nat
      BY <1>2 DEF Batches
    <2>3. log.latest \in Nat /\ log.gap \in Nat
      BY <1>1 DEF LogFacts
    <2>4. CASE b.dropped > 0
      <3>1. pc'[d] = "note"
        BY <1>7, <2>4 DEF AfterRead
      <3> QED
        BY <1>2, <1>3, <1>5, <2>1, <2>4, <3>1 DEF BatchInv
    <2>5. CASE b.dropped = 0 /\ BatchSeqs(b) = {}
      <3>1. pc'[d] = "check"
        BY <1>7, <2>5 DEF AfterRead, AfterNote
      <3>2. b.next <= b.cursor
        <4>1. b.next \notin (b.cursor + b.dropped + 1)..b.next
          BY <2>5 DEF BatchSeqs
        <4> QED
          BY <2>2, <2>5, <4>1
      <3>3. b.next <= log.latest
        BY <1>3, <2>2, <2>3, <3>2
      <3> QED
        BY <1>2, <1>3, <1>5, <2>1, <3>1, <3>3 DEF BatchInv
    <2>6. CASE b.dropped = 0 /\ BatchSeqs(b) # {}
      <3>1. pc'[d] = "append"
        BY <1>7, <2>6 DEF AfterRead, AfterNote
      <3>2. log.latest = 0 => b.cursor + b.dropped <= log.gap
        BY <1>3, <2>2, <2>3, <2>6
      <3> QED
        BY <1>2, <1>3, <1>5, <2>1, <2>6, <3>1, <3>2 DEF BatchInv
    <2> QED
      BY <2>2, <2>4, <2>5, <2>6
  <1> QED
    BY <1>1, <1>7, <1>8, Quiet DEF Read, IInv, DrainInv, TypeOK

LEMMA ReadRaisesKeeps ==
    ASSUME IInv, NEW d \in Drainers, ReadRaises(d)
    PROVE  IInv'
  <1>1. TypeOK /\ LogInv(log) /\ LogFacts(log) /\ log' = log
    BY FactsOf DEF IInv, ReadRaises
  <1>2. Stepped(d) /\ BatchInv(d)'
    BY <1>1, OutKeeps DEF ReadRaises, Raise
  <1>3. Grown
    BY <1>1 DEF Grown, ReadRaises, journal, LogFacts
  <1>4. faults' \in 0..MaxFaults /\ faults' # 0
    BY <1>1, DrainAssumption DEF ReadRaises, TypeOK
  <1>5. CoverInv'
    BY <1>4 DEF CoverInv
  <1> QED
    BY <1>1, <1>2, <1>3, <1>4, <1>5, Assemble DEF ReadRaises, IInv, DrainInv, TypeOK

LEMMA NoteKeeps ==
    ASSUME IInv, NEW d \in Drainers, Note(d)
    PROVE  IInv'
  <1> DEFINE b == batch[d]
             n == dcur + b.dropped
  <1>1. /\ TypeOK /\ LogInv(log) /\ LogFacts(log) /\ BatchInv(d) /\ pc[d] = "note"
        /\ dcur <= log.latest
    BY FactsOf DEF IInv, DrainInv, Note
  <1>2. /\ b \in Batches /\ b.cursor \in Nat /\ b.dropped \in Nat /\ dcur \in Nat
        /\ n \in Nat
    BY <1>1 DEF TypeOK, Batches
  <1>3. AfterNote(b) = "append"
    BY <1>1 DEF AfterNote, BatchInv
  <1>4. /\ Stepped(d) /\ pc'[d] = "append" /\ batch'[d] = b
    BY <1>1, <1>3, StayStep DEF Note, Places, DrainPC
  <1>5. log' = NoteGap(log, n)
    BY DEF Note
  <1> HIDE DEF n
  <1>6. /\ LogInv(log') /\ log'.latest = log.latest /\ log.gap <= log'.gap
        /\ n <= log'.gap /\ (AllCovered(log) => AllCovered(log'))
    BY <1>1, <1>2, <1>5, NoteGapKeeps
  <1>7. Grown
    BY <1>1, <1>6 DEF Grown, Note, journal, LogFacts
  <1>8. CoverInv'
    BY <1>6 DEF CoverInv, IInv, Note
  <1>9. BatchInv(d)'
    <2>1. log'.latest = 0 => b.cursor + b.dropped <= log'.gap
      <3>1. b.cursor <= log.latest /\ log.latest \in Nat /\ log'.gap \in Nat
        BY <1>1, <1>6, FactsOf DEF BatchInv, LogFacts
      <3>2. log.latest = 0 => b.cursor + b.dropped <= n
        BY <1>2, <3>1 DEF n
      <3> QED
        BY <1>2, <1>6, <3>1, <3>2
    <2> QED
      BY <1>1, <1>4, <1>6, <2>1 DEF BatchInv
  <1> QED
    BY <1>1, <1>4, <1>6, <1>7, <1>8, <1>9, Assemble DEF Note, TypeOK

LEMMA AppendBatchKeeps ==
    ASSUME IInv, NEW d \in Drainers, AppendBatch(d)
    PROVE  IInv'
  <1> DEFINE b  == batch[d]
             ev == EventsOf(b)
             to == IF broken \cap BatchSeqs(b) = {} THEN "compare" ELSE "mark"
  <1>1. /\ TypeOK /\ LogInv(log) /\ LogFacts(log) /\ BatchInv(d) /\ pc[d] = "append"
        /\ dcur <= log.latest
    BY FactsOf DEF IInv, DrainInv, AppendBatch
  <1>2. /\ b \in Batches /\ b.cursor \in Nat /\ b.dropped \in Nat /\ b.next \in Nat
    BY <1>1 DEF TypeOK, Batches
  <1>3. /\ ev \in SUBSET Event /\ Unique(ev)
        /\ SeqsOf(ev) = (b.cursor + b.dropped + 1)..b.next
        /\ BatchSeqs(b) # {} => \E e \in ev : e.seq = b.next
    BY <1>1, <1>2, EventsAre
  <1>4. /\ Stepped(d) /\ pc'[d] = to /\ batch'[d] = b
    <2>1. to \in Places
      BY DEF Places, DrainPC
    <2> QED
      BY <1>1, <2>1, StayStep DEF AppendBatch
  <1>5. log' = AppendEvents(log, ev)
    BY DEF AppendBatch
  <1> HIDE DEF ev
  <1>6. /\ LogInv(log') /\ log.latest <= log'.latest /\ log.gap <= log'.gap
        /\ \A e \in ev : e.seq <= log'.latest
    BY <1>1, <1>3, <1>5, AppendKeeps DEF Appended
  <1>7. Grown
    BY <1>1, <1>6 DEF Grown, AppendBatch, journal
  <1>8. CoverInv'
    <2> SUFFICES ASSUME life' = 1, faults' = 0
                 PROVE  AllCovered(log')
      BY DEF CoverInv
    <2>1. AllCovered(log)
      BY DEF IInv, CoverInv, AppendBatch
    <2>2. log.latest = 0 => b.cursor + b.dropped + 1 - 1 <= log.gap
      BY <1>1, <1>2 DEF BatchInv, LogFacts
    <2>3. b.cursor + b.dropped + 1 \in Nat
      BY <1>2
    <2> HIDE DEF b
    <2> QED
      BY <1>1, <1>2, <1>3, <1>5, <2>1, <2>2, <2>3, AppendCovers
  <1>9. BatchInv(d)'
    <2>1. BatchSeqs(b) # {} /\ b.cursor <= log.latest
      BY <1>1 DEF BatchInv
    <2>2. b.next <= log'.latest
      BY <1>3, <1>6, <2>1
    <2>3. b.cursor <= log'.latest
      <3>1. log.latest \in Nat /\ log'.latest \in Nat
        BY <1>1, <1>6, FactsOf DEF LogFacts
      <3> QED
        BY <1>2, <1>6, <2>1, <3>1
    <2>4. broken' = broken /\ to \in {"compare", "mark"}
      BY DEF AppendBatch, journal
    <2>5. to = "mark" => broken \cap BatchSeqs(b) # {}
      OBVIOUS
    <2> HIDE DEF to
    <2> QED
      BY <1>4, <2>1, <2>2, <2>3, <2>4, <2>5 DEF BatchInv
  <1>10. dcur' = dcur /\ dcur <= log'.latest
    <2>1. dcur \in Nat /\ log.latest \in Nat /\ log'.latest \in Nat
      BY <1>1, <1>6, FactsOf DEF LogFacts, TypeOK
    <2> QED
      BY <1>1, <1>6, <2>1 DEF AppendBatch
  <1> QED
    BY <1>1, <1>4, <1>7, <1>8, <1>9, <1>10, Assemble DEF AppendBatch, TypeOK

LEMMA AppendRaisesKeeps ==
    ASSUME IInv, NEW d \in Drainers, AppendRaises(d)
    PROVE  IInv'
  <1> DEFINE ev == EventsOf(batch[d])
  <1>1. /\ TypeOK /\ LogInv(log) /\ LogFacts(log) /\ dcur <= log.latest
        /\ batch[d] \in Batches
    BY FactsOf DEF IInv, DrainInv, TypeOK
  <1>2. ev \in SUBSET Event /\ Unique(ev) /\ log' \in RaisingAppends(log, ev)
    BY <1>1, EventsAre DEF AppendRaises
  <1>3. LogInv(log') /\ log.latest <= log'.latest /\ log.gap <= log'.gap
    BY <1>1, <1>2, RaisingKeeps
  <1>4. Stepped(d) /\ BatchInv(d)'
    BY <1>1, <1>3, OutKeeps DEF AppendRaises, Raise
  <1>5. Grown
    BY <1>1, <1>3 DEF Grown, AppendRaises, journal
  <1>6. faults' \in 0..MaxFaults /\ faults' # 0
    BY <1>1, DrainAssumption DEF AppendRaises, TypeOK
  <1>7. CoverInv'
    BY <1>6 DEF CoverInv
  <1>8. dcur' = dcur /\ dcur <= log'.latest
    <2>1. dcur \in Nat /\ log.latest \in Nat /\ log'.latest \in Nat
      BY <1>1, <1>3, FactsOf DEF LogFacts, TypeOK
    <2> QED
      BY <1>1, <1>3, <2>1 DEF AppendRaises
  <1> QED
    BY <1>1, <1>4, <1>5, <1>6, <1>7, <1>8, Assemble DEF AppendRaises, TypeOK

LEMMA MarkBrokenKeeps ==
    ASSUME IInv, NEW d \in Drainers, MarkBroken(d)
    PROVE  IInv'
  <1> DEFINE lost == broken \cap BatchSeqs(batch[d])
             n    == Max(lost)
  <1>1. /\ TypeOK /\ LogInv(log) /\ LogFacts(log) /\ BatchInv(d) /\ pc[d] = "mark"
        /\ dcur <= log.latest /\ MaxSeq \in Nat
    BY FactsOf, DrainAssumption DEF IInv, DrainInv, MarkBroken
  <1>2. lost \in SUBSET (0..MaxSeq) /\ lost # {}
    <2>1. broken \in SUBSET (1..MaxSeq) /\ 1..MaxSeq \subseteq 0..MaxSeq
      BY <1>1 DEF TypeOK
    <2>2. lost # {}
      BY <1>1 DEF BatchInv
    <2> QED
      BY <2>1, <2>2
  <1>3. n \in Nat
    BY <1>1, <1>2, MaxIs
  <1>4. Stepped(d) /\ pc'[d] = "compare" /\ batch'[d] = batch[d]
    BY <1>1, StayStep DEF MarkBroken, Places, DrainPC
  <1>5. log' = NoteGap(log, n)
    BY DEF MarkBroken
  <1> HIDE DEF n
  <1>6. /\ LogInv(log') /\ log'.latest = log.latest /\ log.gap <= log'.gap
        /\ (AllCovered(log) => AllCovered(log'))
    BY <1>1, <1>3, <1>5, NoteGapKeeps
  <1>7. Grown
    BY <1>1, <1>6 DEF Grown, MarkBroken, journal, LogFacts
  <1>8. CoverInv'
    BY <1>6 DEF CoverInv, IInv, MarkBroken
  <1>9. BatchInv(d)'
    BY <1>1, <1>4, <1>6 DEF BatchInv
  <1> QED
    BY <1>1, <1>4, <1>6, <1>7, <1>8, <1>9, Assemble DEF MarkBroken, TypeOK

LEMMA NothingNewKeeps ==
    ASSUME IInv, NEW d \in Drainers, NothingNew(d)
    PROVE  IInv'
  <1>1. /\ TypeOK /\ LogInv(log) /\ BatchInv(d) /\ pc[d] = "check"
        /\ dcur <= log.latest /\ log' = log
    BY DEF IInv, DrainInv, NothingNew
  <1>2. CASE Leave(d)
    BY <1>1, <1>2, OutKeeps, Quiet DEF Leave, NothingNew, TypeOK
  <1>3. CASE Stay(d, "compare")
    <2>1. Stepped(d) /\ pc'[d] = "compare" /\ batch'[d] = batch[d]
      BY <1>1, <1>3, StayStep DEF Places, DrainPC
    <2>2. BatchInv(d)'
      BY <1>1, <2>1 DEF BatchInv
    <2> QED
      BY <1>1, <2>1, <2>2, Quiet DEF NothingNew, TypeOK
  <1> QED
    BY <1>2, <1>3 DEF NothingNew

LEMMA CompareKeeps ==
    ASSUME IInv, NEW d \in Drainers, Compare(d)
    PROVE  IInv'
  <1>1. /\ TypeOK /\ LogInv(log) /\ BatchInv(d) /\ pc[d] = "compare"
        /\ dcur <= log.latest /\ log' = log
    BY DEF IInv, DrainInv, Compare
  <1>2. CASE Raise(d)
    BY <1>1, <1>2, OutKeeps, Quiet DEF Raise, Compare, TypeOK
  <1>3. CASE Stay(d, "advance")
    <2>1. Stepped(d) /\ pc'[d] = "advance" /\ batch'[d] = batch[d]
      BY <1>1, <1>3, StayStep DEF Places, DrainPC
    <2>2. BatchInv(d)'
      BY <1>1, <2>1 DEF BatchInv
    <2> QED
      BY <1>1, <2>1, <2>2, Quiet DEF Compare, TypeOK
  <1> QED
    BY <1>2, <1>3 DEF Compare

LEMMA AdvanceKeeps ==
    ASSUME IInv, NEW d \in Drainers, Advance(d)
    PROVE  IInv'
  <1>1. /\ TypeOK /\ LogInv(log) /\ BatchInv(d) /\ pc[d] = "advance"
        /\ log' = log /\ dcur' = batch[d].next
    BY DEF IInv, DrainInv, Advance
  <1>2. dcur' \in 0..MaxSeq /\ dcur' <= log.latest
    BY <1>1 DEF BatchInv, TypeOK, Batches
  <1>3. CASE Leave(d)
    BY <1>1, <1>2, <1>3, OutKeeps, Quiet DEF Leave, Advance, TypeOK
  <1>4. CASE left[d] > 0 /\ Stay(d, "ask")
    <2>1. Stepped(d) /\ pc'[d] = "ask" /\ batch'[d] = batch[d] /\ left'[d] = left[d]
      BY <1>1, <1>4, StayStep DEF Places, DrainPC
    <2>2. BatchInv(d)'
      BY <1>1, <1>4, <2>1 DEF BatchInv
    <2> QED
      BY <1>1, <1>2, <2>1, <2>2, Quiet DEF Advance, TypeOK
  <1> QED
    BY <1>3, <1>4 DEF Advance

LEMMA DrainKeeps ==
    ASSUME IInv, NEW d \in Drainers, DrainStep(d)
    PROVE  IInv'
  BY AskKeeps, ReadKeeps, ReadRaisesKeeps, NoteKeeps, AppendBatchKeeps,
     AppendRaisesKeeps, MarkBrokenKeeps, NothingNewKeeps, CompareKeeps, AdvanceKeeps
     DEF DrainStep

-----------------------------------------------------------------------------
(* The steps of the others *)

(* A round begins. *)
LEMMA RoundKeeps ==
    ASSUME IInv, NEW d \in Drainers, NEW kind \in {"pump", "call", "poll"},
           pc' = [pc EXCEPT ![d] = "ask"],
           left' = [left EXCEPT ![d] = Rounds[kind]], batch' = batch,
           polling' \in BOOLEAN,
           UNCHANGED <<life, journal, log, dcur, consumer, faults>>
    PROVE  IInv'
  <1>1. TypeOK /\ BatchInv(d) /\ Rounds[kind] \in Nat \ {0} /\ dcur <= log.latest
    BY DrainAssumption DEF IInv, DrainInv
  <1>2. Stepped(d) /\ pc'[d] = "ask" /\ batch'[d] = batch[d] /\ left'[d] = Rounds[kind]
    BY <1>1 DEF Stepped, TypeOK, Places, DrainPC
  <1>3. BatchInv(d)'
    BY <1>1, <1>2 DEF BatchInv
  <1> QED
    BY <1>1, <1>2, <1>3, Quiet DEF TypeOK

LEMMA PumpKeeps ==
    ASSUME IInv, PumpStep
    PROVE  IInv'
  <1>1. CASE PumpWakes
    BY <1>1, RoundKeeps DEF PumpWakes, GoTo, IInv, TypeOK
  <1>2. CASE "pump" \in Drainers /\ DrainStep("pump")
    BY <1>2, DrainKeeps
  <1> QED
    BY <1>1, <1>2 DEF PumpStep

(* read_after: what is served are the numbers up to the next cursor, each  *)
(* on the page or counted as dropped.                                      *)
LEMMA ServedIs ==
    ASSUME NEW L, LogInv(L), NEW c \in Nat, NEW limit \in Nat \ {0}
    PROVE  LET R == ReadAfter(L, c, limit)
           IN  /\ R.next \in Nat /\ c <= R.next
               /\ R.page \in SUBSET ((c + 1)..R.next)
               /\ R.page \in SUBSET (1..MaxSeq)
               /\ R.dropped \in Nat
               /\ Cardinality(R.page) + R.dropped = R.next - c
  <1> DEFINE R     == ReadAfter(L, c, limit)
             page  == Page(L, c, limit)
             first == ReadFrom(L, c)
             top   == Max(page)
             lost  == Dropped(L, c, limit)
  <1>1. LogFacts(L) /\ MaxSeq \in Nat /\ L.latest \in Nat /\ L.gap \in Nat
    <2>1. LogFacts(L)
      BY FactsOf
    <2>2. L.latest \in 0..MaxSeq /\ L.gap \in Nat
      BY <2>1, Zenon DEF LogFacts
    <2> QED
      BY <2>1, <2>2, DrainAssumption
  <1>2. first \in Nat /\ c + 1 <= first
    BY <1>1 DEF ReadFrom
  <1>3. page \in SUBSET (first..L.latest) /\ page \in SUBSET (1..MaxSeq)
    <2>1. Held(L) \in SUBSET (1..MaxSeq)
      <3>1. SeqsOf(InWindow(L)) \in SUBSET (1..MaxSeq)
        BY <1>1, SMTT(60) DEF LogFacts, SeqsOf, InWindow, Event
      <3>2. SeqsOf(L.disk) \in SUBSET (1..MaxSeq)
        BY <1>1 DEF LogFacts, SeqsOf, Event
      <3> QED
        BY <3>1, <3>2 DEF Held
    <2> QED
      BY <2>1 DEF Page
  <1>4. CASE L.latest = 0
    <2>1. R = [page |-> {}, next |-> c, dropped |-> 0]
      BY <1>4 DEF ReadAfter
    <2> QED
      BY <2>1, FS_EmptySet
  <1>5. CASE L.latest # 0 /\ page = {}
    <2>1. lost = first - c - 1
      BY <1>2, <1>5 DEF Dropped
    <2>2. R.page = {} /\ R.next = c + lost /\ R.dropped = lost
      BY <1>5 DEF ReadAfter
    <2> HIDE DEF first, lost, R
    <2> QED
      BY <1>2, <2>1, <2>2, FS_EmptySet DEF R
  <1>6. CASE L.latest # 0 /\ page # {}
    <2> DEFINE span == first..top
    <2>1. /\ top \in page /\ \A s \in page : s <= top
          /\ top \in Nat /\ first <= top
      <3>1. page \in SUBSET (0..MaxSeq) /\ page # {}
        BY <1>1, <1>3, <1>6
      <3>2. top \in page /\ (\A s \in page : s <= top) /\ top \in 0..MaxSeq
        BY <1>1, <3>1, MaxIs
      <3> QED
        BY <1>1, <1>2, <1>3, <3>2
    <2>2. page \in SUBSET span
      BY <1>1, <1>2, <1>3, <2>1
    <2>3. /\ IsFiniteSet(span) /\ Cardinality(span) = top - first + 1
      BY <1>2, <2>1, FS_Interval, SMTT(60)
    <2>4. IsFiniteSet(page) /\ Cardinality(page) \in Nat
      BY <2>2, <2>3, FS_Subset, FS_CardinalityType
    <2>5. /\ IsFiniteSet(span \ page)
          /\ Cardinality(span \ page) = Cardinality(span) - Cardinality(page)
      <3>1. span \cap page = page
        BY <2>2
      <3> QED
        BY <2>3, <3>1, FS_Difference
    <2>6. Cardinality(span \ page) \in Nat
      BY <2>5, FS_CardinalityType
    <2>7. lost = (first - c - 1) + Cardinality(span \ page)
      BY <1>6 DEF Dropped
    <2>8. R.page = page /\ R.next = top /\ R.dropped = lost
      BY <1>6 DEF ReadAfter
    <2>9. page \in SUBSET ((c + 1)..top)
      BY <1>2, <2>1, <2>2
    <2> HIDE DEF first, top, lost, page, R, span
    <2>10. lost \in Nat /\ Cardinality(page) + lost = top - c /\ c <= top
      BY <1>2, <2>1, <2>3, <2>4, <2>5, <2>6, <2>7
    <2> QED
      BY <1>3, <2>1, <2>8, <2>9, <2>10 DEF R
  <1> QED
    BY <1>4, <1>5, <1>6

LEMMA ServeKeeps ==
    ASSUME IInv, Serve
    PROVE  IInv'
  <1>1. /\ TypeOK /\ LogInv(log) /\ SeenInv /\ DrainInv /\ "call" \in Drainers
        /\ Limit \in Nat \ {0} /\ ccur \in Nat /\ told \in Nat
    BY DrainAssumption DEF IInv, TypeOK
  <1>2. /\ Served.next \in Nat /\ ccur <= Served.next
        /\ Served.page \in SUBSET ((ccur + 1)..Served.next)
        /\ Served.page \in SUBSET (1..MaxSeq)
        /\ Served.dropped \in Nat
        /\ Cardinality(Served.page) + Served.dropped = Served.next - ccur
    BY <1>1, ServedIs DEF Served
  <1>3. /\ ccur' = Served.next /\ seen' = seen \cup Served.page
        /\ told' = told + Served.dropped /\ pc' = [pc EXCEPT !["call"] = "idle"]
        /\ UNCHANGED <<life, journal, log, dcur, left, batch, faults>>
        /\ polling' = FALSE
    BY DEF Serve, GoTo
  <1> HIDE DEF Served
  <1>4. TypeOK'
    <2>1. seen' \in SUBSET (1..MaxSeq)
      BY <1>1, <1>2, <1>3 DEF TypeOK
    <2>2. ccur' \in Nat /\ told' \in Nat
      BY <1>1, <1>2, <1>3
    <2>3. pc' \in [Drainers -> Places]
      BY <1>1, <1>3 DEF TypeOK, Places
    <2> QED
      BY <1>1, <1>3, <2>1, <2>2, <2>3 DEF TypeOK, journal, Places
  <1>5. SeenInv'
    <2>1. seen \in SUBSET (1..ccur) /\ Cardinality(seen) + told = ccur
      BY <1>1 DEF SeenInv, Accounted
    <2>2. seen \cap Served.page = {}
      BY <1>1, <1>2, <2>1
    <2>f. IsFiniteSet(1..MaxSeq)
      BY FS_Interval, DrainAssumption
    <2>3. IsFiniteSet(seen) /\ Cardinality(seen) \in Nat
      <3>1. seen \in SUBSET (1..MaxSeq)
        BY <1>1 DEF TypeOK
      <3> QED
        BY <2>f, <3>1, FS_Subset, FS_CardinalityType
    <2>4. IsFiniteSet(Served.page) /\ Cardinality(Served.page) \in Nat
      BY <1>2, <2>f, FS_Subset, FS_CardinalityType
    <2>5. Cardinality(seen') = Cardinality(seen) + Cardinality(Served.page)
      BY <1>3, <2>2, <2>3, <2>4, FS_Union, FS_EmptySet, SMTT(60)
    <2>6. Accounted'
      <3>1. Cardinality(seen') + told' = ccur'
        <4> DEFINE old == Cardinality(seen)
                   new == Cardinality(Served.page)
                   lost == Served.dropped
                   next == Served.next
        <4>1. /\ old \in Nat /\ new \in Nat /\ lost \in Nat /\ next \in Nat
              /\ old + told = ccur /\ new + lost = next - ccur
              /\ Cardinality(seen') = old + new
              /\ told' = told + lost /\ ccur' = next
          BY <1>2, <1>3, <2>1, <2>3, <2>4, <2>5
        <4> HIDE DEF old, new, lost, next
        <4> QED
          BY <1>1, <4>1
      <3> QED
        BY <3>1 DEF Accounted
    <2>7. seen' \in SUBSET (1..ccur')
      <3>1. 1..ccur \subseteq 1..ccur' /\ (ccur + 1)..ccur' \subseteq 1..ccur'
        BY <1>1, <1>2, <1>3
      <3>2. Served.page \subseteq (ccur + 1)..ccur'
        BY <1>2, <1>3
      <3> QED
        BY <1>3, <2>1, <3>1, <3>2
    <2> QED
      BY <2>6, <2>7 DEF SeenInv
  <1>6. DrainInv'
    <2>1. ASSUME NEW e \in Drainers
          PROVE  BatchInv(e)'
      <3>1. BatchInv(e) /\ pc'[e] \in {pc[e], "idle"}
        BY <1>1, <1>3 DEF DrainInv, TypeOK
      <3>2. batch'[e] = batch[e] /\ left' = left /\ log' = log /\ broken' = broken
        BY <1>3 DEF journal
      <3> QED
        BY <3>1, <3>2 DEF BatchInv
    <2> QED
      BY <1>1, <1>3, <2>1 DEF DrainInv
  <1>7. LogInv(log') /\ CoverInv'
    BY <1>1, <1>3 DEF IInv, CoverInv
  <1> QED
    BY <1>4, <1>5, <1>6, <1>7 DEF IInv

LEMMA CallKeeps ==
    ASSUME IInv, CallStep
    PROVE  IInv'
  <1>1. "call" \in Drainers
    BY DrainAssumption
  <1>2. CASE CallBegins
    BY <1>1, <1>2, RoundKeeps DEF CallBegins, GoTo
  <1>3. CASE PollOnce
    BY <1>1, <1>3, RoundKeeps DEF PollOnce, GoTo
  <1> QED
    BY <1>1, <1>2, <1>3, DrainKeeps, ServeKeeps DEF CallStep

LEMMA PublishKeeps ==
    ASSUME IInv, Publish
    PROVE  IInv'
  <1>1. TypeOK /\ LogInv(log) /\ LogFacts(log) /\ MaxSeq \in Nat
    BY FactsOf, DrainAssumption DEF IInv
  <1>2. head' \in 1..MaxSeq
    BY <1>1 DEF Publish, TypeOK
  <1>3. broken \subseteq broken' /\ broken' \in SUBSET (1..MaxSeq)
    BY <1>1, <1>2 DEF Publish, TypeOK
  <1>4. TypeOK'
    BY <1>1, <1>2, <1>3 DEF TypeOK, Publish, drain, consumer
  <1>5. Grown
    BY <1>1, <1>3 DEF Grown, Publish, LogFacts
  <1>6. DrainInv'
    <2>1. ASSUME NEW e \in Drainers
          PROVE  BatchInv(e)'
      BY <1>1, <1>5, OthersKeep DEF IInv, DrainInv, Publish, drain
    <2> QED
      BY <2>1 DEF IInv, DrainInv, Publish
  <1>7. CoverInv' /\ SeenInv'
    BY DEF IInv, CoverInv, SeenInv, Accounted, Publish, consumer
  <1> QED
    BY <1>4, <1>5, <1>6, <1>7 DEF IInv, Grown

LEMMA RecoverKeeps ==
    ASSUME IInv, Recover
    PROVE  IInv'
  <1>1. TypeOK /\ LogInv(log) /\ MaxSeq \in Nat /\ MaxLives \in Nat
    BY DrainAssumption DEF IInv
  <1>2. LogInv(log') /\ LogFacts(log')
    BY <1>1, LoadKeeps, FactsOf DEF Recover
  <1>3. life' \in 1..MaxLives /\ life' # 1
    BY <1>1 DEF Recover, TypeOK
  <1>4. TypeOK'
    <2>1. /\ 0 \in 0..MaxSeq /\ faults' \in 0..MaxFaults
          /\ seen' \in SUBSET (1..MaxSeq) /\ broken' \in SUBSET (1..MaxSeq)
      BY <1>1 DEF TypeOK, Recover
    <2>2. /\ pc' \in [Drainers -> Places] /\ left' \in [Drainers -> Nat]
          /\ batch' \in [Drainers -> Batches]
      BY NoBatchType DEF Recover, Places
    <2> QED
      BY <1>3, <2>1, <2>2 DEF TypeOK, Recover, Places
  <1>5. DrainInv'
    <2>1. ASSUME NEW e \in Drainers
          PROVE  BatchInv(e)'
      <3>1. pc'[e] = "idle" /\ batch'[e] = NoBatch
        BY DEF Recover
      <3>2. NoBatch.cursor = 0 /\ NoBatch.dropped = 0
        BY DEF NoBatch
      <3> QED
        BY <1>2, <3>1, <3>2 DEF BatchInv, LogFacts
    <2> QED
      BY <1>2, <2>1 DEF DrainInv, Recover, LogFacts
  <1>6. CoverInv'
    BY <1>3 DEF CoverInv
  <1>7. SeenInv'
    BY FS_EmptySet DEF SeenInv, Accounted, Recover
  <1> QED
    BY <1>2, <1>4, <1>5, <1>6, <1>7 DEF IInv

-----------------------------------------------------------------------------
(* The theorems *)

LEMMA InitInv == Init => IInv
  <1> SUFFICES ASSUME Init
               PROVE  IInv
    OBVIOUS
  <1>1. TypeOK
    <2>1. /\ 0 \in 0..MaxSeq /\ 0 \in 0..MaxFaults /\ 1 \in 1..MaxLives
          /\ {} \in SUBSET (1..MaxSeq)
      BY DrainAssumption
    <2>2. /\ pc \in [Drainers -> Places] /\ left \in [Drainers -> Nat]
          /\ batch \in [Drainers -> Batches]
      BY NoBatchType DEF Init, Places
    <2> QED
      BY <2>1, <2>2 DEF Init, TypeOK, Places
  <1>2. LogInv(log) /\ log.latest = 0
    BY EmptyKeeps DEF Init, EmptyLog
  <1>3. DrainInv
    <2>1. ASSUME NEW e \in Drainers
          PROVE  BatchInv(e)
      <3>1. pc[e] = "idle" /\ batch[e] = NoBatch
        BY DEF Init
      <3>2. NoBatch.cursor = 0 /\ NoBatch.dropped = 0
        BY DEF NoBatch
      <3> QED
        BY <1>2, <3>1, <3>2 DEF BatchInv
    <2> QED
      BY <1>2, <2>1 DEF DrainInv, Init
  <1>4. CoverInv
    BY <1>2 DEF CoverInv, AllCovered
  <1>5. SeenInv
    BY FS_EmptySet DEF SeenInv, Accounted, Init
  <1> QED
    BY <1>1, <1>2, <1>3, <1>4, <1>5 DEF IInv

LEMMA StepInv == IInv /\ [Next]_vars => IInv'
  <1> SUFFICES ASSUME IInv, [Next]_vars
               PROVE  IInv'
    OBVIOUS
  <1>1. CASE Next
    BY <1>1, PublishKeeps, PumpKeeps, CallKeeps, RecoverKeeps DEF Next
  <1>2. CASE UNCHANGED vars
    <2>1. ASSUME NEW e \in Drainers
          PROVE  BatchInv(e)'
      BY <1>2, <2>1 DEF IInv, DrainInv, BatchInv, BatchSeqs, vars, drain, journal
    <2> QED
      BY <1>2, <2>1 DEF IInv, TypeOK, DrainInv, CoverInv, SeenInv, Accounted,
                        vars, drain, journal, consumer
  <1> QED
    BY <1>1, <1>2

(* The inductive invariant: the log's marks enclose what it holds, and the *)
(* log is ahead of the cursor of every drain (event_log.py,                *)
(* drain_native_into_log).                                                 *)
THEOREM InvariantHolds == Spec => []IInv
  BY InitInv, StepInv, PTL DEF Spec

(* Every variable keeps its type. *)
THEOREM TypeCorrect == Spec => []TypeOK
  <1>1. IInv => TypeOK
    BY DEF IInv
  <1> QED
    BY <1>1, InvariantHolds, PTL

(* Each event reaches the consumer once or is counted as dropped, and what *)
(* a drain has passed is in the log or accounted for by its marks          *)
(* (drain_native_into_log, append_events, read_after).                     *)
THEOREM ArrivalHolds == Spec => []EventsArriveOnce
  <1>1. IInv => EventsArriveOnce
    <2> SUFFICES ASSUME IInv
                 PROVE  Accounted /\ DrainedIsKept
      BY DEF EventsArriveOnce
    <2>1. Accounted
      BY DEF IInv, SeenInv
    <2>2. DrainedIsKept
      <3> SUFFICES ASSUME life = 1, faults = 0, NEW s \in 1..dcur
                   PROVE  Kept(s)
        BY DEF DrainedIsKept
      <3>1. LogFacts(log) /\ dcur <= log.latest /\ dcur \in Nat
        BY FactsOf DEF IInv, DrainInv, TypeOK
      <3>2. s \in 1..log.latest
        BY <3>1 DEF LogFacts
      <3>3. Covered(log, s)
        BY <3>2 DEF IInv, CoverInv, AllCovered
      <3> QED
        BY <3>3 DEF Covered, Kept, Held
    <2> QED
      BY <2>1, <2>2
  <1> QED
    BY <1>1, InvariantHolds, PTL

-----------------------------------------------------------------------------
(* The log of a drainer that is alone                                      *)

Increasing(mem) == \A i, j \in 1..Len(mem) : i < j => mem[i].seq < mem[j].seq

\* The window is in order and holds what is above the eviction mark.
InStep(L) ==
    /\ InWindow(L) = {e \in L.disk : e.seq > L.evicted}
    /\ Increasing(L.mem)

(* Events in the order of their numbers are in order.                      *)
LEMMA InOrderIncreases ==
    ASSUME NEW S \in SUBSET Event, Unique(S)
    PROVE  Increasing(InOrder(S)) /\ Len(InOrder(S)) \in Nat
  <1> DEFINE n == Cardinality(S)
             at(i) == CHOOSE e \in S : Rank(S, e) = i - 1
  <1>1. InOrder(S) = [i \in 1..n |-> at(i)]
    BY DEF InOrder, Rank
  <1>2. n \in Nat /\ \A i \in 1..n : at(i) \in S /\ Rank(S, at(i)) = i - 1
    BY Ranks
  <1>3. InOrder(S) \in Seq(Event) /\ Len(InOrder(S)) = n
    <2>1. InOrder(S) \in [1..n -> Event]
      BY <1>1, <1>2
    <2>2. InOrder(S) \in Seq(Event)
      BY InOrderIs
    <2> QED
      BY <1>2, <2>1, <2>2, LenProperties
  <1>4. \A i, j \in 1..n : i < j => at(i).seq < at(j).seq
    <2> SUFFICES ASSUME NEW i \in 1..n, NEW j \in 1..n, i < j, ~(at(i).seq < at(j).seq)
                 PROVE  FALSE
      OBVIOUS
    <2> DEFINE below(e) == {f \in S : f.seq < e.seq}
    <2>1. at(i) \in S /\ at(j) \in S /\ at(i).seq \in Nat /\ at(j).seq \in Nat
      BY <1>2 DEF Event
    <2>2. below(at(j)) \in SUBSET below(at(i)) /\ below(at(i)) \in SUBSET S
      <3> HIDE DEF at
      <3> QED BY <2>1 DEF Event
    <2>3. IsFiniteSet(below(at(i)))
      BY <2>2, TableFinite, FS_Subset
    <2>4. Cardinality(below(at(j))) <= Cardinality(below(at(i)))
      BY <2>2, <2>3, FS_Subset
    <2>5. Cardinality(below(at(i))) = i - 1 /\ Cardinality(below(at(j))) = j - 1
      BY <1>2 DEF Rank
    <2> HIDE DEF below, at, n
    <2> QED
      BY <1>2, <2>4, <2>5
  <1> HIDE DEF at
  <1> QED
    BY <1>1, <1>2, <1>3, <1>4 DEF Increasing

(* A log whose front is cut off, when all that is cut, and nothing else of  *)
(* the window, is taken from the table or put below the eviction mark.      *)
LEMMA CutKeeps ==
    ASSUME NEW L, LogInv(L), InStep(L), NEW k \in Nat, k <= Len(L.mem), NEW M,
           M.mem = SubSeq(L.mem, k + 1, Len(L.mem)), M.disk \in SUBSET L.disk,
           \A i \in 1..Len(L.mem) :
              k < i <=> L.mem[i] \in M.disk /\ L.mem[i].seq > M.evicted,
           \A e \in M.disk : e.seq > M.evicted => e.seq > L.evicted
    PROVE  InStep(M) /\ Len(M.mem) = Len(L.mem) - k
  <1> DEFINE n == Len(L.mem)
  <1>1. LogFacts(L) /\ n \in Nat
    BY FactsOf, LenProperties DEF LogFacts
  <1>2. \A i \in (k + 1)..n : L.mem[i] \in Event
    BY <1>1 DEF LogFacts
  <1>3. Len(M.mem) = n - k /\ \A i \in 1..(n - k) : M.mem[i] = L.mem[k + i]
    <2>1. /\ Len(M.mem) = IF k + 1 <= n THEN n - (k + 1) + 1 ELSE 0
          /\ \A i \in 1..(n - (k + 1) + 1) : M.mem[i] = L.mem[(k + 1) + i - 1]
      BY <1>1, <1>2, SubSeqProperties
    <2> HIDE DEF n
    <2>2. k \in Nat /\ n \in Nat /\ k <= n
      BY <1>1 DEF n
    <2>3. n - (k + 1) + 1 = n - k /\ (~(k + 1 <= n) => n - k = 0)
      BY <2>2
    <2>4. Len(M.mem) = n - k
      BY <2>1, <2>3 DEF n
    <2>5. ASSUME NEW i \in 1..(n - k)
          PROVE  M.mem[i] = L.mem[k + i]
      <3>1. (k + 1) + i - 1 = k + i /\ i \in 1..(n - (k + 1) + 1)
        BY <2>2
      <3> QED
        BY <2>1, <3>1 DEF n
    <2> QED
      BY <2>4, <2>5
  <1>4. \A e : e \in InWindow(M) <=> \E i \in 1..n : k < i /\ e = L.mem[i]
    <2>1. \A i \in 1..(n - k) : k + i \in 1..n /\ k < k + i
      BY <1>1
    <2>2. \A i \in 1..n : k < i => i - k \in 1..(n - k) /\ k + (i - k) = i
      BY <1>1
    <2> HIDE DEF n
    <2>3. ASSUME NEW e, e \in InWindow(M)
          PROVE  \E i \in 1..n : k < i /\ e = L.mem[i]
      BY <1>3, <2>1, <2>3 DEF InWindow
    <2>4. ASSUME NEW e, NEW i \in 1..n, k < i, e = L.mem[i]
          PROVE  e \in InWindow(M)
      <3>1. e = M.mem[i - k] /\ i - k \in 1..(n - k)
        BY <1>3, <2>2, <2>4
      <3> QED
        BY <1>3, <3>1 DEF InWindow
    <2> QED
      BY <2>3, <2>4
  <1>5. InWindow(M) = {e \in M.disk : e.seq > M.evicted}
    <2>1. ASSUME NEW e, e \in InWindow(M)
          PROVE  e \in M.disk /\ e.seq > M.evicted
      BY <1>4, <2>1
    <2>2. ASSUME NEW e, e \in M.disk, e.seq > M.evicted
          PROVE  e \in InWindow(M)
      <3>1. e \in InWindow(L)
        BY <2>2 DEF InStep
      <3>2. PICK i \in 1..n : e = L.mem[i]
        BY <3>1 DEF InWindow
      <3> QED
        BY <1>4, <2>2, <3>2
    <2> QED
      BY <2>1, <2>2
  <1>6. Increasing(M.mem)
    <2> SUFFICES ASSUME NEW i \in 1..(n - k), NEW j \in 1..(n - k), i < j
                 PROVE  M.mem[i].seq < M.mem[j].seq
      BY <1>3 DEF Increasing
    <2>1. k + i \in 1..n /\ k + j \in 1..n /\ k + i < k + j
      BY <1>1
    <2> HIDE DEF n
    <2>2. L.mem[k + i].seq < L.mem[k + j].seq
      BY <2>1 DEF InStep, Increasing, n
    <2> QED
      BY <1>3, <2>2
  <1> QED
    BY <1>3, <1>5, <1>6 DEF InStep

(* EvictToWindow and TrimDisk cut the front of the window.                  *)
LEMMA EvictInStep ==
    ASSUME NEW L, LogInv(L), InStep(L)
    PROVE  LET M == EvictToWindow(L)
           IN  InStep(M) /\ Len(M.mem) <= Window
  <1> DEFINE M == EvictToWindow(L)
             n == Len(L.mem)
             over == IF n > Window THEN n - Window ELSE 0
             mem == SubSeq(L.mem, over + 1, n)
             gone == {L.evicted} \cup {L.mem[i].seq : i \in 1..over}
             evicted == Max(gone)
  <1>1. LogFacts(L) /\ L \in Log /\ MaxSeq \in Nat /\ Window \in Nat /\ n \in Nat
    BY FactsOf, DrainAssumption, LogAssumption, LenProperties DEF LogInv, LogFacts
  <1>2. M = [L EXCEPT !.mem = mem, !.evicted = evicted]
    BY DEF EvictToWindow
  <1>3. over \in Nat /\ over <= n /\ n - over <= Window
    BY <1>1
  <1>4. M.mem = mem /\ M.disk = L.disk /\ M.evicted = evicted
    BY <1>1, <1>2 DEF Log
  <1>5. \A i \in 1..n : L.mem[i].seq \in 0..MaxSeq /\ L.mem[i] \in L.disk /\ L.mem[i].seq > L.evicted
    <2> TAKE i \in 1..n
    <2>1. L.mem[i] \in InWindow(L)
      BY DEF InWindow
    <2>2. L.mem[i] \in Event
      BY <1>1 DEF LogFacts
    <2>3. L.mem[i].seq \in 0..MaxSeq
      BY <1>1, <2>2 DEF Event
    <2> QED
      BY <2>1, <2>3 DEF InStep
  <1>6. evicted \in gone /\ evicted \in 0..MaxSeq /\ \A x \in gone : x <= evicted
    <2>1. 1..over \subseteq 1..n
      BY <1>1, <1>3
    <2>2. gone \in SUBSET (0..MaxSeq) /\ gone # {}
      BY <1>1, <1>5, <2>1 DEF LogFacts
    <2> QED
      BY <1>1, <2>2, MaxIs
  <1>7. \A i \in 1..n : over < i <=> L.mem[i] \in M.disk /\ L.mem[i].seq > M.evicted
    <2> TAKE i \in 1..n
    <2>1. i \in Nat /\ over \in Nat /\ L.mem[i].seq \in Nat /\ L.evicted \in Nat /\ evicted \in Nat
      BY <1>1, <1>3, <1>5, <1>6 DEF LogFacts
    <2>2. CASE over < i
      <3>1. \A j \in 1..over : L.mem[j].seq < L.mem[i].seq
        <4> TAKE j \in 1..over
        <4>1. j \in 1..n /\ j < i
          BY <1>1, <1>3, <2>1, <2>2
        <4> QED
          BY <4>1 DEF InStep, Increasing
      <3>2. evicted < L.mem[i].seq
        <4> HIDE DEF over, n, evicted
        <4> QED
          BY <1>5, <1>6, <3>1
      <3> QED
        BY <1>4, <1>5, <2>1, <2>2, <3>2
    <2>3. CASE ~(over < i)
      <3>1. i \in 1..over
        BY <2>1, <2>3
      <3>2. L.mem[i].seq \in gone
        BY <3>1
      <3>3. L.mem[i].seq <= evicted
        BY <1>6, <3>2
      <3> HIDE DEF over, n, evicted
      <3> QED
        BY <1>4, <2>1, <2>3, <3>3
    <2> QED
      BY <2>2, <2>3
  <1>8. \A e \in M.disk : e.seq > M.evicted => e.seq > L.evicted
    <2> TAKE e \in M.disk
    <2>1. e \in Event /\ L.evicted \in Nat /\ L.evicted \in gone
      BY <1>1, <1>4 DEF LogFacts
    <2>2. e.seq \in Nat /\ L.evicted <= evicted /\ evicted \in Nat
      BY <1>1, <1>6, <2>1 DEF Event
    <2> HIDE DEF evicted, gone
    <2> QED
      BY <1>4, <2>1, <2>2
  <1> HIDE DEF M, over
  <1>9. InStep(M) /\ Len(M.mem) = n - over
    BY <1>3, <1>4, <1>7, <1>8, CutKeeps
  <1> QED
    BY <1>1, <1>3, <1>9 DEF M

(* What is cut from the window was trimmed from the table.                  *)
LEMMA TrimInStep ==
    ASSUME NEW L, LogInv(L), InStep(L)
    PROVE  LET M == TrimDisk(L)
           IN  InStep(M) /\ Len(M.mem) <= Len(L.mem)
  <1> DEFINE M       == TrimDisk(L)
             n       == Len(L.mem)
             keep    == Newest(L.disk, Retained)
             oldest  == Min(SeqsOf(keep))
             lengths == {m \in 0..n : \A i \in 1..m : L.mem[i].seq < oldest}
             below   == Max(lengths)
             mem     == SubSeq(L.mem, below + 1, n)
             evicted == Max({L.evicted, oldest - 1})
  <1>1. LogFacts(L) /\ L \in Log /\ MaxSeq \in Nat /\ n \in Nat
    BY FactsOf, DrainAssumption, LenProperties DEF LogInv, LogFacts
  <1>2. CASE L.stored <= Retained \/ Cardinality(L.disk) < Retained
    <2>1. M = L
      BY <1>2 DEF TrimDisk
    <2> QED
      BY <1>1, <2>1
  <1>3. CASE ~(L.stored <= Retained \/ Cardinality(L.disk) < Retained)
    <2>1. M.mem = mem /\ M.disk = keep /\ M.evicted = evicted
      <3>1. M = [L EXCEPT !.disk = keep, !.saved.disk = keep, !.oldest = oldest,
                          !.stored = Cardinality(keep), !.mem = mem, !.evicted = evicted]
        BY <1>3 DEF TrimDisk
      <3> HIDE DEF M, mem, keep, oldest, evicted
      <3> QED
        BY <1>1, <3>1 DEF Log
    <2>2. L.disk \in SUBSET Event /\ Unique(L.disk) /\ L.disk # {}
      <3>1. L.disk = {} => Cardinality(L.disk) < Retained
        BY FS_EmptySet, LogAssumption
      <3> QED
        BY <1>1, <1>3, <3>1 DEF LogFacts
    <2>3. /\ keep \in SUBSET L.disk /\ keep # {}
          /\ \A e \in L.disk : e \in keep \/ e.seq < oldest
      BY <2>2, NewestIs, LogAssumption
    <2>4. oldest \in 1..MaxSeq /\ \A e \in keep : oldest <= e.seq
      <3>1. keep \in SUBSET Event
        BY <2>2, <2>3
      <3> QED
        BY <2>3, <3>1, SeqsAre
    <2>5. /\ L.evicted \in Nat /\ oldest \in Nat
          /\ evicted = IF L.evicted < oldest - 1 THEN oldest - 1 ELSE L.evicted
      <3>1. L.evicted \in Nat /\ oldest \in Nat /\ oldest - 1 \in Nat
        BY <1>1, <2>4 DEF LogFacts
      <3> QED
        BY <3>1, MaxOfTwo
    <2>6. /\ below \in 0..n /\ \A i \in 1..below : L.mem[i].seq < oldest
          /\ \A m \in lengths : m <= below
      <3>1. lengths \in SUBSET (0..n) /\ 0 \in lengths
        BY <1>1
      <3>2. below \in lengths /\ \A m \in lengths : m <= below
        BY <1>1, <3>1, MaxIs
      <3> QED
        BY <3>2
    <2>7. \A i \in 1..n : L.mem[i].seq \in Nat /\ L.mem[i] \in L.disk /\ L.mem[i].seq > L.evicted
      <3> TAKE i \in 1..n
      <3>1. L.mem[i] \in InWindow(L) /\ L.mem[i] \in Event
        BY <1>1 DEF InWindow, LogFacts
      <3>2. L.mem[i].seq \in Nat
        BY <3>1 DEF Event
      <3> QED
        BY <3>1, <3>2 DEF InStep
    <2> HIDE DEF keep, oldest, evicted, M, mem
    <2>8. ASSUME NEW i \in 1..n, below < i
          PROVE  ~(L.mem[i].seq < oldest)
      <3> DEFINE m == below + 1
      <3>1. m \in 1..n /\ m <= i /\ m \in 0..n /\ ~(m <= below)
        BY <1>1, <2>6, <2>8
      <3>2. PICK j \in 1..m : ~(L.mem[j].seq < oldest)
        BY <2>6, <3>1
      <3>3. j \in 1..n /\ (j = i \/ j < i)
        BY <3>1, <3>2
      <3> HIDE DEF below, m
      <3>4. j < i => L.mem[j].seq < L.mem[i].seq
        BY <3>3 DEF InStep, Increasing
      <3> QED
        BY <2>5, <2>7, <3>2, <3>3, <3>4
    <2>9. \A i \in 1..n : below < i <=> L.mem[i] \in M.disk /\ L.mem[i].seq > M.evicted
      <3> TAKE i \in 1..n
      <3>1. CASE below < i
        <4>1. ~(L.mem[i].seq < oldest) /\ L.mem[i] \in keep
          BY <2>3, <2>7, <2>8, <3>1
        <4> HIDE DEF below, n
        <4> QED
          BY <2>1, <2>5, <2>7, <3>1, <4>1
      <3>2. CASE ~(below < i)
        <4>1. i \in 1..below
          BY <1>1, <2>6, <3>2
        <4>2. L.mem[i].seq < oldest
          BY <2>6, <4>1
        <4> HIDE DEF below, n
        <4> QED
          BY <2>1, <2>5, <2>7, <3>2, <4>2
      <3> QED
        BY <3>1, <3>2
    <2>10. \A e \in M.disk : e.seq > M.evicted => e.seq > L.evicted
      <3> TAKE e \in M.disk
      <3>1. e.seq \in Nat
        BY <2>1, <2>2, <2>3 DEF Event
      <3> QED
        BY <2>1, <2>5, <3>1
    <2>11. InStep(M) /\ Len(M.mem) = n - below
      <3>1. below \in Nat /\ below <= n
        BY <1>1, <2>6
      <3> HIDE DEF below
      <3> QED
        BY <2>1, <2>3, <2>9, <2>10, <3>1, CutKeeps DEF mem
    <2>12. n - below <= n
      BY <1>1, <2>6
    <2> QED
      BY <2>11, <2>12 DEF M
  <1> QED
    BY <1>2, <1>3

(* What Take makes of window and gap mark.                                  *)
LEMMA TakeIs ==
    ASSUME NEW L, LogInv(L), NEW new \in SUBSET Event, Unique(new), new # {}
    PROVE  LET M     == Take(L, new)
               first == Min(SeqsOf(new))
           IN  /\ M.mem = L.mem \o InOrder(new)
               /\ M.gap = L.gap \/ (L.latest + 1 < first /\ M.gap = first - 1)
  <1> DEFINE M      == Take(L, new)
             first  == Min(SeqsOf(new))
             gap    == IF L.latest # 0 /\ first > L.latest + 1
                       THEN Max({L.gap, first - 1}) ELSE L.gap
             mem    == L.mem \o InOrder(new)
             latest == Max({L.latest} \cup SeqsOf(new))
             oldest == IF L.oldest = 0 THEN first ELSE Min({L.oldest, first})
             stored == L.stored + Cardinality(new)
  <1>1. LogFacts(L) /\ L \in Log
    BY FactsOf DEF LogInv
  <1>2. first \in 1..MaxSeq
    BY SeqsAre
  <1>3. gap = L.gap \/ (L.latest + 1 < first /\ gap = first - 1)
    <2>1. L.gap \in Nat /\ first - 1 \in Nat /\ L.latest \in Nat /\ first \in Nat
      BY <1>1, <1>2 DEF LogFacts
    <2>2. Max({L.gap, first - 1}) = IF L.gap < first - 1 THEN first - 1 ELSE L.gap
      BY <2>1, MaxOfTwo
    <2> HIDE DEF first
    <2> QED
      BY <2>1, <2>2
  <1>4. M = [L EXCEPT !.gap = gap, !.mem = mem, !.latest = latest, !.oldest = oldest,
                      !.stored = stored]
    BY DEF Take
  <1> HIDE DEF gap, mem, latest, oldest, stored, M
  <1>5. M.mem = mem /\ M.gap = gap
    BY <1>1, <1>4 DEF Log
  <1> QED
    BY <1>3, <1>5 DEF M, mem

(* Events above all that the log knows are taken in behind the window.      *)
LEMMA InsertInStep ==
    ASSUME NEW L, LogInv(L), InStep(L), NEW new \in SUBSET Event, Unique(new), new # {},
           \A e \in new : L.latest < e.seq
    PROVE  LET I == Insert(Take(L, new), new)
           IN  LogInv(I) /\ InStep(I) /\ I.latest \in SeqsOf(new)
  <1> DEFINE T == Take(L, new)
             I == Insert(T, new)
             n == Len(L.mem)
             added == InOrder(new)
             m == Len(added)
  <1>1. LogFacts(L) /\ n \in Nat /\ L.mem \in Seq(Event)
    BY FactsOf, LenProperties DEF LogFacts
  <1>2. /\ LogInv(T) /\ T.disk = L.disk /\ T.evicted = L.evicted
        /\ T.latest \in {L.latest} \cup SeqsOf(new)
        /\ \A e \in new : 0 < T.oldest /\ T.oldest <= e.seq /\ e.seq <= T.latest
        /\ T.mem = L.mem \o added
    BY TakeKeeps, TakeIs DEF Taken
  <1>3. T.latest \in SeqsOf(new)
    <2>1. PICK e \in new : TRUE
      OBVIOUS
    <2>2. e.seq \in Nat /\ L.latest \in Nat
      BY <1>1 DEF LogFacts, Event
    <2> HIDE DEF T
    <2> QED
      BY <1>2, <2>1, <2>2
  <1>4. /\ added \in Seq(Event) /\ m \in Nat /\ Increasing(added)
        /\ {added[i] : i \in 1..m} = new
    BY InOrderIs, InOrderIncreases
  <1> HIDE DEF T, added
  <1>5. /\ LogInv(I) /\ I.latest = T.latest /\ I.evicted = T.evicted /\ I.mem = T.mem
    BY <1>2, InsertKeeps
  <1>6. I.disk = L.disk \cup new
    <2>1. T \in Log
      BY <1>2 DEF LogInv
    <2>2. I.disk = T.disk \cup {e \in new : e.seq \notin SeqsOf(T.disk)}
      BY <2>1 DEF Insert, Log
    <2>3. \A e \in new : e.seq \notin SeqsOf(L.disk)
      <3>1. \A e \in new, f \in L.disk :
               e.seq \in Nat /\ f.seq \in Nat /\ L.latest \in Nat /\ f.seq <= L.latest
        BY <1>1 DEF LogFacts, Event
      <3> QED
        BY <3>1 DEF SeqsOf
    <2> HIDE DEF I
    <2> QED
      BY <1>2, <2>2, <2>3
  <1> HIDE DEF I
  <1>7. /\ Len(I.mem) = n + m
        /\ \A i \in 1..n : I.mem[i] = L.mem[i]
        /\ \A i \in 1..m : I.mem[n + i] = added[i]
    <2>1. I.mem = L.mem \o added
      BY <1>2, <1>5
    <2>2. /\ Len(L.mem \o added) = Len(L.mem) + Len(added)
          /\ \A i \in 1..(Len(L.mem) + Len(added)) :
                (L.mem \o added)[i] = IF i <= Len(L.mem) THEN L.mem[i] ELSE added[i - Len(L.mem)]
      BY <1>1, <1>4, ConcatProperties
    <2> HIDE DEF n, m
    <2>3. \A i \in 1..n : i \in 1..(n + m) /\ i <= n
      BY <1>1, <1>4
    <2>4. \A i \in 1..m : n + i \in 1..(n + m) /\ ~(n + i <= n) /\ (n + i) - n = i
      BY <1>1, <1>4
    <2> QED
      BY <2>1, <2>2, <2>3, <2>4 DEF n, m
  <1>8. \A i \in 1..(n + m) : i \in 1..n \/ \E j \in 1..m : i = n + j
    <2> HIDE DEF n, m
    <2> TAKE i \in 1..(n + m)
    <2>1. i \in 1..n \/ (i - n \in 1..m /\ i = n + (i - n))
      BY <1>1, <1>4
    <2> QED
      BY <2>1
  <1>9. InWindow(I) = {e \in I.disk : e.seq > I.evicted}
    <2>1. InWindow(I) = InWindow(L) \cup new
      <3>1. ASSUME NEW e \in InWindow(I)
            PROVE  e \in InWindow(L) \cup new
        <4>1. PICK i \in 1..(n + m) : e = I.mem[i]
          BY <1>7 DEF InWindow
        <4>2. CASE i \in 1..n
          BY <1>7, <4>1, <4>2 DEF InWindow
        <4>3. ASSUME NEW j \in 1..m, i = n + j
              PROVE  e \in new
          BY <1>4, <1>7, <4>1, <4>3
        <4> QED
          BY <1>8, <4>2, <4>3
      <3>2. ASSUME NEW e \in InWindow(L)
            PROVE  e \in InWindow(I)
        <4>1. PICK i \in 1..n : e = L.mem[i]
          BY DEF InWindow
        <4>2. i \in 1..(n + m)
          BY <1>1, <1>4
        <4> QED
          BY <1>7, <4>1, <4>2 DEF InWindow
      <3>3. ASSUME NEW e \in new
            PROVE  e \in InWindow(I)
        <4>1. PICK i \in 1..m : e = added[i]
          BY <1>4
        <4>2. n + i \in 1..(n + m)
          BY <1>1, <1>4
        <4> QED
          BY <1>7, <4>1, <4>2 DEF InWindow
      <3> QED
        BY <3>1, <3>2, <3>3
    <2>2. \A e \in new : e.seq > L.evicted
      <3>1. \A e \in new : e.seq \in Nat
        BY DEF Event
      <3> QED
        BY <1>1, <3>1 DEF LogFacts
    <2> QED
      BY <1>2, <1>5, <1>6, <2>1, <2>2 DEF InStep
  <1>10. Increasing(I.mem)
    <2> SUFFICES ASSUME NEW i \in 1..(n + m), NEW j \in 1..(n + m), i < j
                 PROVE  I.mem[i].seq < I.mem[j].seq
      BY <1>7 DEF Increasing
    <2>1. CASE i \in 1..n /\ j \in 1..n
      BY <1>7, <2>1 DEF InStep, Increasing
    <2>2. ASSUME NEW k \in 1..m, j = n + k, i \in 1..n
          PROVE  I.mem[i].seq < I.mem[j].seq
      <3>1. I.mem[j] \in new /\ I.mem[i] \in Event /\ I.mem[i].seq <= L.latest
        BY <1>1, <1>4, <1>7, <2>2 DEF LogFacts
      <3>2. L.latest < I.mem[j].seq /\ I.mem[j] \in Event
        BY <3>1
      <3>3. I.mem[i].seq \in Nat /\ I.mem[j].seq \in Nat /\ L.latest \in Nat
        <4>1. (\A e \in Event : e.seq \in Nat) /\ L.latest \in Nat
          BY <1>1 DEF LogFacts, Event
        <4> QED
          BY <3>1, <3>2, <4>1
      <3> QED
        BY <3>1, <3>2, <3>3
    <2>3. ASSUME NEW h \in 1..m, NEW k \in 1..m, i = n + h, j = n + k
          PROVE  I.mem[i].seq < I.mem[j].seq
      <3>1. h < k
        <4> HIDE DEF n, m
        <4> QED
          BY <1>1, <2>3
      <3>2. added[h].seq < added[k].seq
        BY <1>4, <3>1 DEF Increasing
      <3> QED
        BY <1>7, <2>3, <3>2
    <2>4. ~(j \in 1..n /\ \E h \in 1..m : i = n + h)
      <3> HIDE DEF n, m
      <3> QED
        BY <1>1, <1>4
    <2> QED
      BY <1>8, <2>1, <2>2, <2>3, <2>4
  <1> QED
    BY <1>3, <1>5, <1>9, <1>10 DEF InStep, I, T

(* An append of such events leaves a window in step, and no longer than a   *)
(* window may be.                                                           *)
LEMMA AppendInStep ==
    ASSUME NEW L, LogInv(L), InStep(L), NEW events \in SUBSET Event, Unique(events),
           events # {}, \A e \in events : L.latest < e.seq
    PROVE  LET M == AppendEvents(L, events)
           IN  InStep(M) /\ Len(M.mem) <= Window /\ M.latest \in SeqsOf(events)
  <1>1. LogFacts(L)
    BY FactsOf
  <1>2. Fresh(L, events) = events
    <2>1. \A e \in events : e.seq \in Nat /\ L.latest \in Nat /\ L.evicted \in Nat
                            /\ L.evicted <= L.latest
      BY <1>1 DEF LogFacts, Event
    <2>2. \A e \in events : e.seq \notin SeqsOf(InWindow(L))
      BY <1>1, <2>1 DEF LogFacts, SeqsOf, InWindow
    <2> QED
      BY <2>1, <2>2 DEF Fresh
  <1> DEFINE I == Insert(Take(L, events), events)
             C == Commit(I)
             E == EvictToWindow(C)
             M == TrimDisk(E)
  <1>3. LogInv(I) /\ InStep(I) /\ I.latest \in SeqsOf(events)
    BY InsertInStep
  <1>4. AppendEvents(L, events) = M
    BY <1>2 DEF AppendEvents
  <1> HIDE DEF I
  <1>5. /\ LogInv(C) /\ InStep(C) /\ C.latest = I.latest
    BY <1>3, CommitKeeps DEF InStep, InWindow
  <1> HIDE DEF C
  <1>6. LogInv(E) /\ InStep(E) /\ Len(E.mem) <= Window /\ E.latest = C.latest
    BY <1>5, EvictKeeps, EvictInStep
  <1> HIDE DEF E
  <1>7. LogInv(M) /\ InStep(M) /\ Len(M.mem) <= Len(E.mem) /\ M.latest = E.latest
    BY <1>6, TrimKeeps, TrimInStep
  <1> HIDE DEF M
  <1>8. Len(M.mem) \in Nat /\ Len(E.mem) \in Nat /\ Window \in Nat
    BY <1>6, <1>7, FactsOf, LenProperties, LogAssumption DEF LogFacts
  <1> QED
    BY <1>3, <1>4, <1>5, <1>6, <1>7, <1>8

(* An append of a batch, also one that raises, moves the gap mark only to   *)
(* where the batch begins, and only if the log has not got that far.        *)
LEMMA AppendGap ==
    ASSUME NEW L, LogInv(L), NEW events \in SUBSET Event, Unique(events),
           NEW a \in Nat, NEW z \in Nat, SeqsOf(events) = a..z,
           NEW M \in {AppendEvents(L, events)} \cup RaisingAppends(L, events)
    PROVE  M.gap = L.gap \/ (L.latest + 1 < a /\ M.gap = a - 1)
  <1> DEFINE new == Fresh(L, events)
             T   == Take(L, new)
             first == Min(SeqsOf(new))
             I == Insert(T, new)
             E == EvictToWindow(Commit(I))
  <1>1. LogFacts(L)
    BY FactsOf
  <1>2. CASE new = {}
    BY <1>2 DEF AppendEvents, RaisingAppends
  <1>3. CASE new # {}
    <2>1. new \in SUBSET Event /\ Unique(new) /\ new \in SUBSET events
      BY FreshIs DEF Fresh
    <2>2. /\ first \in SeqsOf(new) /\ \A e \in new : first <= e.seq
          /\ first \in Nat /\ L.latest \in Nat
      BY <1>1, <1>3, <2>1, SeqsAre DEF LogFacts
    <2>3. /\ LogInv(T) /\ \A e \in new : 0 < T.oldest /\ T.oldest <= e.seq /\ e.seq <= T.latest
          /\ T.gap = L.gap \/ (L.latest + 1 < first /\ T.gap = first - 1)
      BY <1>3, <2>1, TakeKeeps, TakeIs DEF Taken
    <2>4. M = AppendEvents(L, events) \/ M \in RaisingAppends(L, events)
      OBVIOUS
    <2>5. M.gap = T.gap
      <3>1. LogInv(I) /\ I.gap = T.gap
        <4> HIDE DEF T, new
        <4> QED
          BY <2>1, <2>3, InsertKeeps
      <3>2. E.gap = I.gap /\ TrimDisk(E).gap = I.gap
        <4> HIDE DEF I
        <4> QED
          BY <3>1, StoreKeeps
      <3>3. AppendEvents(L, events) = TrimDisk(E)
        BY <1>3 DEF AppendEvents
      <3>4. ASSUME NEW add \in SUBSET new
            PROVE  Insert(T, add).gap = T.gap
        <4>1. add \in SUBSET Event /\ Unique(add)
          BY <2>1 DEF Unique
        <4> HIDE DEF T, new
        <4> QED
          BY <2>3, <4>1, InsertKeeps
      <3>5. \/ M = TrimDisk(E) \/ M = E
            \/ \E n \in 0..Cardinality(new) : M = Insert(T, First(new, n))
        BY <1>3, <2>4, <3>3 DEF RaisingAppends
      <3>6. \A n : First(new, n) \in SUBSET new
        BY DEF First
      <3> HIDE DEF T, new, I, E
      <3> QED
        BY <3>1, <3>2, <3>4, <3>5, <3>6
    <2>6. ASSUME L.latest + 1 < first
          PROVE  first = a
      <3>1. first \in a..z
        <4>1. SeqsOf(new) \in SUBSET SeqsOf(events)
          BY <2>1 DEF SeqsOf
        <4> QED
          BY <2>2, <4>1
      <3> SUFFICES ASSUME a < first
                   PROVE  FALSE
        BY <2>2, <3>1
      <3>2. first - 1 \in a..z
        BY <2>2, <3>1
      <3>3. PICK e \in events : e.seq = first - 1
        BY <3>2 DEF SeqsOf
      <3>4. e \in new \/ e.seq <= L.latest
        BY KnownOrNew
      <3> HIDE DEF new, first
      <3> QED
        BY <2>2, <2>6, <3>3, <3>4
    <2> HIDE DEF new, T, first
    <2> QED
      BY <2>3, <2>5, <2>6
  <1> QED
    BY <1>2, <1>3

-----------------------------------------------------------------------------
(* The invariant of a drainer that is alone: it has moved the cursor itself *)
(* since it read it, so its batch begins where the cursor and the log end,  *)
(* and what the batch skips the ring has dropped.                           *)

Underway == {"read", "note", "append", "mark", "check", "compare", "advance"}
Stored   == {"mark", "compare", "advance"}

CursorInv ==
    LET b == batch["call"]
        p == pc["call"]
    IN  /\ dcur <= head /\ b.next <= head
        /\ p \in Underway => b.cursor = dcur
        /\ p = "note" => b.dropped > 0
        /\ p \in {"note", "append"} /\ b.dropped > 0 => b.cursor + b.dropped < OldestInRing
        /\ p = "check" => b.next = dcur
        /\ life = 1 /\ faults = 0 => log.latest = IF p \in Stored THEN b.next ELSE dcur

TableInv == life = 1 /\ faults = 0 => InStep(log) /\ Len(log.mem) <= Window

SoleInv == CursorInv /\ GapsAreReal /\ TableInv

Sole == Drainers = {"call"}

(* The invariant holds of an empty log.                                    *)
LEMMA SoleStarts == Init => SoleInv
  <1> SUFFICES ASSUME Init
               PROVE  SoleInv
    OBVIOUS
  <1>1. /\ log = EmptyLog /\ head = 0 /\ dcur = 0 /\ life = 1
        /\ pc["call"] = "idle" /\ batch["call"] = NoBatch
    BY DrainAssumption DEF Init
  <1>2. OldestInRing = 1
    BY <1>1, DrainAssumption DEF OldestInRing
  <1>3. CursorInv
    BY <1>1 DEF CursorInv, NoBatch, EmptyLog, Underway, Stored
  <1>4. GapsAreReal
    BY <1>1, <1>2 DEF GapsAreReal, EmptyLog
  <1>5. TableInv
    <2>1. log.mem = << >> /\ log.disk = {}
      BY <1>1 DEF EmptyLog
    <2>2. Len(log.mem) = 0 /\ Window \in Nat
      BY <2>1, LogAssumption
    <2> QED
      BY <2>1, <2>2 DEF TableInv, InStep, Increasing, InWindow
  <1> QED
    BY <1>3, <1>4, <1>5 DEF SoleInv

(* What the proofs about a step of the call start from.                     *)
SoleFacts ==
    /\ TypeOK /\ LogInv(log) /\ LogFacts(log) /\ BatchInv("call")
    /\ "call" \in Drainers /\ batch["call"] \in Batches
    /\ batch["call"].cursor \in Nat /\ batch["call"].dropped \in Nat
    /\ batch["call"].next \in Nat
    /\ head \in Nat /\ dcur \in Nat /\ life \in Nat /\ faults \in Nat
    /\ log.latest \in Nat /\ log.gap \in Nat
    /\ OldestInRing \in Nat /\ Ring \in Nat \ {0} /\ Batch \in Nat \ {0}
    /\ CursorInv /\ GapsAreReal /\ TableInv

(* They follow from the two invariants.                                     *)
LEMMA FactsOfSole ==
    ASSUME IInv, SoleInv
    PROVE  SoleFacts
  <1>1. TypeOK /\ LogInv(log) /\ LogFacts(log) /\ "call" \in Drainers /\ BatchInv("call")
    BY FactsOf, DrainAssumption DEF IInv, DrainInv
  <1>2. /\ batch["call"] \in Batches /\ head \in Nat /\ dcur \in Nat /\ life \in Nat
        /\ faults \in Nat
    BY <1>1, DrainAssumption DEF TypeOK
  <1>3. /\ batch["call"].cursor \in Nat /\ batch["call"].dropped \in Nat
        /\ batch["call"].next \in Nat
    BY <1>2 DEF Batches
  <1>4. log.latest \in Nat /\ log.gap \in Nat
    BY <1>1 DEF LogFacts
  <1>5. OldestInRing \in Nat /\ Ring \in Nat \ {0} /\ Batch \in Nat \ {0}
    BY <1>2, DrainAssumption DEF OldestInRing
  <1> QED
    BY <1>1, <1>2, <1>3, <1>4, <1>5 DEF SoleFacts, SoleInv

(* A step that leaves ring and log alone only has the cursor to keep.       *)
LEMMA QuietSole ==
    ASSUME SoleInv, CursorInv', UNCHANGED <<journal, log>>, life' = life,
           faults' = faults \/ faults' # 0
    PROVE  SoleInv'
  <1>1. GapsAreReal'
    BY DEF SoleInv, GapsAreReal, OldestInRing, journal
  <1>2. TableInv'
    BY DEF SoleInv, TableInv
  <1> QED
    BY <1>1, <1>2 DEF SoleInv

(* An event that is published leaves fewer in the ring, not more.           *)
LEMMA PublishSole ==
    ASSUME IInv, SoleInv, Publish
    PROVE  SoleInv'
  <1>1. SoleFacts
    BY FactsOfSole
  <1>2. /\ head' = head + 1 /\ broken \subseteq broken'
        /\ UNCHANGED <<life, log, dcur, pc, batch, faults>>
    BY DEF Publish, drain
  <1>3. OldestInRing <= OldestInRing' /\ OldestInRing' \in Nat
    BY <1>1, <1>2 DEF OldestInRing, SoleFacts
  <1>4. CursorInv'
    BY <1>1, <1>2, <1>3 DEF CursorInv, SoleFacts
  <1>5. GapsAreReal'
    BY <1>1, <1>2, <1>3 DEF GapsAreReal, SoleFacts
  <1>6. TableInv'
    BY <1>1, <1>2 DEF TableInv, SoleFacts
  <1> QED
    BY <1>4, <1>5, <1>6 DEF SoleInv

(* Beginning a drain and serving what is in the log leave the cursor.       *)
LEMMA CallSole ==
    ASSUME IInv, SoleInv, CallBegins \/ PollOnce \/ Serve
    PROVE  SoleInv'
  <1>1. SoleFacts
    BY FactsOfSole
  <1>2. /\ UNCHANGED <<life, journal, log, dcur, batch, faults>>
        /\ pc["call"] \in {"idle", "serve"}
        /\ pc'["call"] \in {"idle", "ask"}
    BY <1>1 DEF SoleFacts, TypeOK, CallBegins, PollOnce, Serve, GoTo
  <1>3. CursorInv'
    BY <1>1, <1>2 DEF CursorInv, SoleFacts, Underway, Stored, journal
  <1> QED
    BY <1>2, <1>3, QuietSole

(* A new debugger begins with new cursors.                                  *)
LEMMA RecoverSole ==
    ASSUME IInv, SoleInv, Recover
    PROVE  SoleInv'
  <1>1. SoleFacts
    BY FactsOfSole
  <1>2. /\ life' # 1 /\ head' = 0 /\ dcur' = 0
        /\ pc'["call"] = "idle" /\ batch'["call"] = NoBatch
    BY <1>1 DEF SoleFacts, TypeOK, Recover
  <1>3. CursorInv'
    BY <1>2 DEF CursorInv, Underway, NoBatch
  <1> QED
    BY <1>2, <1>3 DEF SoleInv, GapsAreReal, TableInv

-----------------------------------------------------------------------------
(* The steps of its drain                                                   *)

(* The batch begins where the cursor is.                                    *)
LEMMA AskSole ==
    ASSUME IInv, SoleInv, Ask("call")
    PROVE  SoleInv'
  <1>1. SoleFacts
    BY FactsOfSole
  <1>2. /\ UNCHANGED <<life, journal, log, dcur, faults>> /\ pc["call"] = "ask"
        /\ pc'["call"] = "read" /\ batch'["call"] = [NoBatch EXCEPT !.cursor = dcur]
    BY <1>1 DEF SoleFacts, TypeOK, Ask, GoTo
  <1>3. batch'["call"].cursor = dcur /\ batch'["call"].next = 0
    BY <1>2 DEF NoBatch
  <1>4. CursorInv'
    BY <1>1, <1>2, <1>3 DEF CursorInv, SoleFacts, Underway, Stored, journal
  <1> QED
    BY <1>2, <1>4, QuietSole

(* A batch that brings nothing ends where it begins.                        *)
LEMMA ReadSole ==
    ASSUME IInv, SoleInv, Read("call")
    PROVE  SoleInv'
  <1>1. SoleFacts
    BY FactsOfSole
  <1> DEFINE c       == batch["call"].cursor
             b       == ReadRing(c)
             dropped == IF c + 1 < OldestInRing THEN OldestInRing - c - 1 ELSE 0
             next    == Min({head, c + dropped + Batch})
  <1>2. /\ UNCHANGED <<life, journal, log, dcur, faults>> /\ pc["call"] = "read"
        /\ pc'["call"] = AfterRead(b) /\ batch'["call"] = b
    BY <1>1 DEF SoleFacts, TypeOK, Read, GoTo
  <1>3. c = dcur /\ c <= head /\ c \in Nat
    BY <1>1, <1>2 DEF SoleFacts, CursorInv, Underway
  <1>4. dropped \in Nat /\ (dropped > 0 => c + dropped < OldestInRing)
    BY <1>1, <1>3 DEF SoleFacts
  <1>5. b.cursor = c /\ b.dropped = dropped /\ b.next = next
    BY DEF ReadRing
  <1>6. next = IF head < c + dropped + Batch THEN head ELSE c + dropped + Batch
    <2>1. head \in Nat /\ c + dropped + Batch \in Nat
      BY <1>1, <1>3, <1>4 DEF SoleFacts
    <2> HIDE DEF dropped, c
    <2> QED
      BY <2>1, MinOfTwo
  <1> HIDE DEF b, dropped, next
  <1>7. next \in Nat /\ next <= head
    BY <1>1, <1>3, <1>4, <1>6 DEF SoleFacts
  <1>8. AfterRead(b) = "check" => next = dcur
    <2> SUFFICES ASSUME AfterRead(b) = "check"
                 PROVE  next = dcur
      OBVIOUS
    <2>1. dropped = 0 /\ BatchSeqs(b) = {}
      BY <1>4, <1>5 DEF AfterRead, AfterNote
    <2>2. next \notin (c + dropped + 1)..next
      BY <1>5, <2>1 DEF BatchSeqs
    <2>3. next <= c
      BY <1>3, <1>7, <2>1, <2>2
    <2> QED
      BY <1>1, <1>3, <1>6, <2>1, <2>3 DEF SoleFacts
  <1>9. AfterRead(b) \in {"note", "check", "append"} /\ (AfterRead(b) = "note" => dropped > 0)
    BY <1>5 DEF AfterRead, AfterNote
  <1>10. CursorInv'
    <2>1. OldestInRing' = OldestInRing
      BY <1>2 DEF OldestInRing, journal
    <2>2. life = 1 /\ faults = 0 => log.latest = dcur
      BY <1>1, <1>2 DEF SoleFacts, CursorInv, Stored
    <2> QED
      BY <1>1, <1>2, <1>3, <1>4, <1>5, <1>7, <1>8, <1>9, <2>1, <2>2
      DEF CursorInv, SoleFacts, Stored, journal
  <1> QED
    BY <1>2, <1>10, QuietSole

(* A drain that is left, with or without an exception.                      *)
LEMMA OutSole ==
    ASSUME SoleFacts, NEW to \in {"idle", "serve"}, Out("call", to)
    PROVE  pc'["call"] = to /\ batch'["call"] = NoBatch /\ NoBatch.next = 0
  BY DEF SoleFacts, TypeOK, Out, GoTo, NoBatch

(* A read that raised leaves the cursor where it is.                        *)
LEMMA ReadRaisesSole ==
    ASSUME IInv, SoleInv, ReadRaises("call")
    PROVE  SoleInv'
  <1>1. SoleFacts
    BY FactsOfSole
  <1>2. /\ UNCHANGED <<life, journal, log, dcur>> /\ faults' = faults + 1
        /\ pc'["call"] = "idle" /\ batch'["call"].next = 0
    BY <1>1, OutSole DEF ReadRaises, Raise
  <1>3. faults' # 0
    BY <1>1, <1>2 DEF SoleFacts
  <1>4. CursorInv'
    BY <1>1, <1>2, <1>3 DEF CursorInv, SoleFacts, Underway, journal
  <1> QED
    BY <1>2, <1>3, <1>4, QuietSole

(* NoteGap moves nothing but the mark.                                      *)
LEMMA NoteGapIs ==
    ASSUME NEW L, LogInv(L), NEW s \in Nat
    PROVE  LET M == NoteGap(L, s)
           IN  /\ M.gap \in {L.gap, s}
               /\ M.mem = L.mem /\ M.disk = L.disk /\ M.evicted = L.evicted
               /\ M.latest = L.latest
  <1>1. L.gap \in Nat /\ L \in Log
    BY DEF LogInv, Log
  <1>2. Max({L.gap, s}) \in {L.gap, s}
    BY <1>1, MaxOfTwo
  <1> QED
    BY <1>1, <1>2 DEF NoteGap, Log

(* The gap that is noted is what the ring has dropped.                      *)
LEMMA NoteSole ==
    ASSUME IInv, SoleInv, Note("call")
    PROVE  SoleInv'
  <1>1. SoleFacts
    BY FactsOfSole
  <1> DEFINE b == batch["call"]
             s == dcur + b.dropped
  <1>2. /\ UNCHANGED <<life, journal, dcur, batch, faults>> /\ pc["call"] = "note"
        /\ pc'["call"] = AfterNote(b) /\ log' = NoteGap(log, s)
    BY <1>1 DEF SoleFacts, TypeOK, Note, Stay, GoTo
  <1>3. AfterNote(b) = "append"
    BY <1>1, <1>2 DEF SoleFacts, BatchInv, AfterNote
  <1>4. s \in Nat /\ s < OldestInRing /\ b.cursor = dcur /\ b.cursor + b.dropped < OldestInRing
    BY <1>1, <1>2 DEF SoleFacts, CursorInv, Underway
  <1> HIDE DEF s
  <1>5. /\ log'.gap \in {log.gap, s} /\ log'.mem = log.mem /\ log'.disk = log.disk
        /\ log'.evicted = log.evicted /\ log'.latest = log.latest
    BY <1>1, <1>2, <1>4, NoteGapIs DEF SoleFacts
  <1>6. OldestInRing' = OldestInRing
    BY <1>2 DEF OldestInRing, journal
  <1>7. CursorInv'
    BY <1>1, <1>2, <1>3, <1>4, <1>5, <1>6 DEF CursorInv, SoleFacts, Underway, Stored, journal
  <1>8. GapsAreReal'
    BY <1>1, <1>2, <1>4, <1>5, <1>6 DEF GapsAreReal, SoleFacts, journal
  <1>9. TableInv'
    BY <1>1, <1>2, <1>5 DEF TableInv, SoleFacts, InStep, InWindow
  <1> QED
    BY <1>7, <1>8, <1>9 DEF SoleInv

(* A batch that is appended, or whose append raised, tells of no gap but of *)
(* one that the ring has made.                                              *)
LEMMA GapOfBatch ==
    ASSUME IInv, SoleInv, pc["call"] = "append", UNCHANGED <<life, journal>>,
           log' \in {AppendEvents(log, EventsOf(batch["call"]))}
                       \cup RaisingAppends(log, EventsOf(batch["call"]))
    PROVE  GapsAreReal'
  <1>1. SoleFacts
    BY FactsOfSole
  <1> DEFINE b  == batch["call"]
             ev == EventsOf(b)
             a  == b.cursor + b.dropped + 1
  <1>2. ev \in SUBSET Event /\ Unique(ev) /\ SeqsOf(ev) = a..b.next
    BY <1>1, EventsAre DEF SoleFacts
  <1>3. a \in Nat /\ b.next \in Nat /\ LogInv(log)
    BY <1>1 DEF SoleFacts
  <1>4. log' \in {AppendEvents(log, ev)} \cup RaisingAppends(log, ev)
    OBVIOUS
  <1> HIDE DEF ev, a
  <1>5. log'.gap = log.gap \/ (log.latest + 1 < a /\ log'.gap = a - 1)
    BY <1>2, <1>3, <1>4, AppendGap
  <1>6. OldestInRing' = OldestInRing
    BY DEF OldestInRing, journal
  <1>7. log.latest + 1 < a => a - 1 < OldestInRing
    <2>1. b.cursor <= log.latest
      BY <1>1 DEF SoleFacts, BatchInv
    <2>2. log.latest + 1 < a => b.dropped > 0
      BY <1>1, <2>1 DEF SoleFacts, a
    <2> QED
      BY <1>1, <2>2 DEF SoleFacts, CursorInv, a
  <1> QED
    BY <1>1, <1>5, <1>6, <1>7 DEF GapsAreReal, SoleFacts, journal

(* The log ends where the batch ends.                                       *)
LEMMA AppendBatchSole ==
    ASSUME IInv, SoleInv, AppendBatch("call")
    PROVE  SoleInv'
  <1>1. SoleFacts
    BY FactsOfSole
  <1> DEFINE b  == batch["call"]
             ev == EventsOf(b)
  <1>2. /\ UNCHANGED <<life, journal, dcur, batch, faults>> /\ pc["call"] = "append"
        /\ pc'["call"] \in {"compare", "mark"} /\ log' = AppendEvents(log, ev)
    BY <1>1 DEF SoleFacts, TypeOK, AppendBatch, Stay, GoTo
  <1>3. b.cursor = dcur /\ BatchSeqs(b) # {}
    BY <1>1, <1>2 DEF SoleFacts, CursorInv, BatchInv, Underway
  <1>4. /\ ev \in SUBSET Event /\ Unique(ev)
        /\ SeqsOf(ev) = (b.cursor + b.dropped + 1)..b.next
        /\ \E e \in ev : e.seq = b.next
    BY <1>1, <1>3, EventsAre DEF SoleFacts
  <1> HIDE DEF ev
  <1>5. ASSUME life = 1, faults = 0
        PROVE  InStep(log') /\ Len(log'.mem) <= Window /\ log'.latest = b.next
    <2>1. log.latest = dcur /\ InStep(log)
      BY <1>1, <1>2, <1>5 DEF SoleFacts, CursorInv, TableInv, Stored
    <2>2. \A e \in ev : log.latest < e.seq
      <3>1. \A e \in ev : e.seq \in (b.cursor + b.dropped + 1)..b.next
        BY <1>4 DEF SeqsOf
      <3> QED
        BY <1>1, <1>3, <2>1, <3>1 DEF SoleFacts
    <2>3. InStep(log') /\ Len(log'.mem) <= Window /\ log'.latest \in SeqsOf(ev)
      BY <1>1, <1>2, <1>4, <2>1, <2>2, AppendInStep DEF SoleFacts
    <2>4. \A e \in ev : e.seq <= log'.latest
      BY <1>1, <1>2, <1>4, AppendKeeps DEF SoleFacts, Appended
    <2>5. b.next <= log'.latest
      BY <1>4, <2>4
    <2> QED
      BY <1>1, <1>4, <2>3, <2>5 DEF SoleFacts
  <1>6. CursorInv'
    <2>1. pc'["call"] \in Stored /\ pc'["call"] \in Underway
      BY <1>2 DEF Stored, Underway
    <2> QED
      BY <1>1, <1>2, <1>3, <1>5, <2>1 DEF CursorInv, SoleFacts, journal
  <1>7. GapsAreReal'
    BY <1>2, GapOfBatch DEF ev
  <1>8. TableInv'
    BY <1>2, <1>5 DEF TableInv
  <1> QED
    BY <1>6, <1>7, <1>8 DEF SoleInv

(* An append that raised moves the mark only where the ring has a gap.      *)
LEMMA AppendRaisesSole ==
    ASSUME IInv, SoleInv, AppendRaises("call")
    PROVE  SoleInv'
  <1>1. SoleFacts
    BY FactsOfSole
  <1>2. /\ UNCHANGED <<life, journal, dcur>> /\ faults' = faults + 1
        /\ pc["call"] = "append" /\ pc'["call"] = "idle" /\ batch'["call"].next = 0
    BY <1>1, OutSole DEF AppendRaises, Raise
  <1>3. faults' # 0
    BY <1>1, <1>2 DEF SoleFacts
  <1>4. CursorInv'
    BY <1>1, <1>2, <1>3 DEF CursorInv, SoleFacts, Underway, journal
  <1>5. GapsAreReal'
    BY <1>2, GapOfBatch DEF AppendRaises
  <1> QED
    BY <1>3, <1>4, <1>5 DEF SoleInv, TableInv

(* The mark is put at an event that stands for a lost one.                  *)
LEMMA MarkBrokenSole ==
    ASSUME IInv, SoleInv, MarkBroken("call")
    PROVE  SoleInv'
  <1>1. SoleFacts
    BY FactsOfSole
  <1> DEFINE lost == broken \cap BatchSeqs(batch["call"])
             n    == Max(lost)
  <1>2. /\ UNCHANGED <<life, journal, dcur, batch, faults>> /\ pc["call"] = "mark"
        /\ pc'["call"] = "compare" /\ log' = NoteGap(log, n)
    BY <1>1 DEF SoleFacts, TypeOK, MarkBroken, Stay, GoTo
  <1>3. n \in lost /\ n \in Nat
    <2>1. MaxSeq \in Nat /\ broken \in SUBSET (1..MaxSeq)
      BY <1>1, DrainAssumption DEF SoleFacts, TypeOK
    <2>2. lost \in SUBSET (0..MaxSeq)
      <3>1. 1..MaxSeq \subseteq 0..MaxSeq
        BY <2>1
      <3> QED
        BY <2>1, <3>1
    <2>3. lost # {}
      BY <1>1, <1>2 DEF SoleFacts, BatchInv
    <2> QED
      BY <2>1, <2>2, <2>3, MaxIs
  <1> HIDE DEF n
  <1>4. /\ log'.gap \in {log.gap, n} /\ log'.mem = log.mem /\ log'.disk = log.disk
        /\ log'.evicted = log.evicted /\ log'.latest = log.latest
    BY <1>1, <1>2, <1>3, NoteGapIs DEF SoleFacts
  <1>5. CursorInv'
    BY <1>1, <1>2, <1>4 DEF CursorInv, SoleFacts, Underway, Stored, journal
  <1>6. GapsAreReal'
    <2>1. OldestInRing' = OldestInRing /\ broken' = broken
      BY <1>2 DEF OldestInRing, journal
    <2> QED
      BY <1>1, <1>2, <1>3, <1>4, <2>1 DEF GapsAreReal, SoleFacts
  <1>7. TableInv'
    BY <1>1, <1>2, <1>4 DEF TableInv, SoleFacts, InStep, InWindow
  <1> QED
    BY <1>5, <1>6, <1>7 DEF SoleInv

(* Nobody else has moved the cursor, so an empty batch ends at it.          *)
LEMMA NothingNewSole ==
    ASSUME IInv, SoleInv, NothingNew("call")
    PROVE  SoleInv'
  <1>1. SoleFacts
    BY FactsOfSole
  <1>2. /\ UNCHANGED <<life, journal, log, dcur, faults>> /\ pc["call"] = "check"
        /\ pc'["call"] = "serve" /\ batch'["call"].next = 0
    <2>1. pc["call"] = "check" /\ batch["call"].next = dcur
      BY <1>1 DEF SoleFacts, CursorInv, NothingNew
    <2>2. Out("call", "serve")
      BY <2>1 DEF NothingNew, Leave
    <2> QED
      BY <1>1, <2>1, <2>2, OutSole DEF NothingNew
  <1>3. CursorInv'
    BY <1>1, <1>2 DEF CursorInv, SoleFacts, Underway, Stored, journal
  <1> QED
    BY <1>2, <1>3, QuietSole

(* Nor is it found moved before it is advanced.                             *)
LEMMA CompareSole ==
    ASSUME IInv, SoleInv, Compare("call")
    PROVE  SoleInv'
  <1>1. SoleFacts
    BY FactsOfSole
  <1>2. pc["call"] = "compare" /\ batch["call"].cursor = dcur
    BY <1>1 DEF SoleFacts, CursorInv, Compare, Underway
  <1>3. /\ UNCHANGED <<life, journal, log, dcur, batch, faults>>
        /\ pc'["call"] = "advance"
    BY <1>1, <1>2 DEF SoleFacts, TypeOK, Compare, Stay, GoTo
  <1>4. CursorInv'
    BY <1>1, <1>2, <1>3 DEF CursorInv, SoleFacts, Underway, Stored, journal
  <1> QED
    BY <1>3, <1>4, QuietSole

(* The cursor moves to where the log ends.                                  *)
LEMMA AdvanceSole ==
    ASSUME IInv, SoleInv, Advance("call")
    PROVE  SoleInv'
  <1>1. SoleFacts
    BY FactsOfSole
  <1>2. /\ UNCHANGED <<life, journal, log, faults>> /\ pc["call"] = "advance"
        /\ dcur' = batch["call"].next
        /\ \/ pc'["call"] = "ask" /\ batch' = batch
           \/ pc'["call"] = "serve" /\ batch'["call"].next = 0
    <2>1. Stay("call", "ask") \/ Out("call", "serve")
      BY DEF Advance, Leave
    <2>2. Stay("call", "ask") => pc'["call"] = "ask" /\ batch' = batch
      BY <1>1 DEF SoleFacts, TypeOK, Stay, GoTo
    <2>3. Out("call", "serve") => pc'["call"] = "serve" /\ batch'["call"].next = 0
      BY <1>1, OutSole
    <2> QED
      BY <2>1, <2>2, <2>3 DEF Advance
  <1>3. CursorInv'
    BY <1>1, <1>2 DEF CursorInv, SoleFacts, Underway, Stored, journal
  <1> QED
    BY <1>2, <1>3, QuietSole

(* Every step, when the call is the only drainer.                           *)
LEMMA SoleStays ==
    ASSUME Sole, IInv, SoleInv, [Next]_vars
    PROVE  SoleInv'
  <1>1. CASE DrainStep("call")
    BY <1>1, AskSole, ReadSole, ReadRaisesSole, NoteSole, AppendBatchSole, AppendRaisesSole,
       MarkBrokenSole, NothingNewSole, CompareSole, AdvanceSole DEF DrainStep
  <1>2. CASE PumpStep
    BY <1>2 DEF PumpStep, PumpWakes, Sole
  <1>3. CASE UNCHANGED vars
    <2>1. CursorInv'
      BY <1>3 DEF SoleInv, CursorInv, OldestInRing, vars, journal, drain
    <2> QED
      BY <1>3, <2>1, QuietSole DEF vars
  <1> QED
    BY <1>1, <1>2, <1>3, PublishSole, CallSole, RecoverSole DEF Next, CallStep

(* The log of a drainer that is alone, in every state: it tells of no gap   *)
(* that is not there, and its window is the newest of its table, in order,  *)
(* up to a write that raised and a second debugger (drain_native_into_log,  *)
(* append_events, _evict_to_window, _trim_disk).                            *)
THEOREM AloneAgrees == Spec => []AloneLogAgrees
  <1>1. Init => (Sole => SoleInv)
    BY SoleStarts
  <1>2. IInv /\ (Sole => SoleInv) /\ [Next]_vars => (Sole => SoleInv)'
    BY SoleStays DEF Sole
  <1>3. IInv /\ (Sole => SoleInv) => AloneLogAgrees
    <2> SUFFICES ASSUME IInv, Sole => SoleInv, "pump" \notin DOMAIN pc
                 PROVE  GapsAreReal /\ WindowMatchesTable
      BY DEF AloneLogAgrees
    <2>1. DOMAIN pc = Drainers
      BY DEF IInv, TypeOK
    <2>2. Sole
      BY <2>1, DrainAssumption DEF Sole
    <2> QED
      BY <2>2 DEF SoleInv, TableInv, WindowMatchesTable, InStep, Increasing
  <1> QED
    BY <1>1, <1>2, <1>3, InvariantHolds, PTL DEF Spec

-----------------------------------------------------------------------------
(***************************************************************************)
(* The methods and the inspection of the run MCEventDrain.  DebuggerProofs *)
(* proves them for every value of their constants; here their invariants   *)
(* are taken over to the instances, under the names x1, x2, ... that the   *)
(* run gives their variables.                                              *)
(***************************************************************************)

\* What the methods and the inspection are about; the constants and variables
\* of the other systems there do not matter
Dbg == INSTANCE DebuggerProofs WITH
    Last <- 2, Tids <- {1, 2}, RestoreLimit <- 1, Chunks <- 2, MaxCalls <- 4,
    Callers <- {"a", "b"}, MaxLooks <- 3,
    deb <- x1, points <- x2, patched <- x3, loaded <- x4, dump <- x5, partial <- x6,
    final <- x7, rec <- x8, quota <- x9, answer <- x10, before <- x11, known <- x12,
    calls <- x13, at <- x1, told <- x2, file <- x3, lock <- x5, current <- x6,
    resync <- x7, missed <- x8, wiped <- x9, row <- x11, orphan <- x12,
    MaxStarts <- 1, MaxWorkers <- 1, Ring <- 1, MaxEvents <- 1, Sessions <- {},
    Archs <- {}, ArchOf <- <<>>, Profiles <- {}, call <- x1, session <- x1,
    runtime <- x1, cur <- x1, made <- x1, active <- x1, sure <- x1, worker <- x1,
    plan <- x1, mark <- x1, moved <- x1, armed <- x1, pending <- x1, steps <- x1,
    events <- x1, truth <- x1, setup <- x1, ini <- x1, phase <- x1, under <- x1, doing <- x1,
    stale <- x1, raced <- x1

(* The bounds of the instance are numbers.                                 *)
LEMMA RpcSizes == Dbg!RpcConstantsOK
  BY DEF Dbg!RpcConstantsOK

(* The system of the methods starts with its invariant.                    *)
LEMMA RpcBegins == ASSUME Rpc!Init PROVE Dbg!RpcInv
<1>1. Dbg!Rpc!Init
  BY DEF
      Rpc!None, Dbg!Rpc!None, Rpc!Ok, Dbg!Rpc!Ok, Rpc!NoTrace, Dbg!Rpc!NoTrace, Rpc!Init,
      Dbg!Rpc!Init
<1> QED BY <1>1, RpcSizes, Dbg!RpcStarts

(* Its steps keep the invariant,                                            *)
LEMMA RpcGoesOn == ASSUME Dbg!RpcInv, Rpc!Next PROVE Dbg!RpcInv'
<1>1. ASSUME NEW a, NEW n, NEW set
     PROVE  /\ Rpc!SetHardwareBreakpointRpc(a) => Dbg!Rpc!SetHardwareBreakpointRpc(a)
            /\ Rpc!RemoveHardwareBreakpointRpc(a) => Dbg!Rpc!RemoveHardwareBreakpointRpc(a)
            /\ Rpc!SetMemoryBreakpointRpc(a) => Dbg!Rpc!SetMemoryBreakpointRpc(a)
            /\ Rpc!RemoveMemoryBreakpointRpc(a) => Dbg!Rpc!RemoveMemoryBreakpointRpc(a)
            /\ Rpc!SetBreakpointConditionRpc(a) => Dbg!Rpc!SetBreakpointConditionRpc(a)
            /\ Rpc!GetBreakpointConditionRpc(a) => Dbg!Rpc!GetBreakpointConditionRpc(a)
            /\ Rpc!RestorePatch(a) => Dbg!Rpc!RestorePatch(a)
            /\ Rpc!ChangeBreakpoint(a, set) => Dbg!Rpc!ChangeBreakpoint(a, set)
            /\ Rpc!ApplyPatch(a, n) => Dbg!Rpc!ApplyPatch(a, n)
  <2>1. Rpc!SetHardwareBreakpointRpc(a) => Dbg!Rpc!SetHardwareBreakpointRpc(a)
    BY DEF
      Rpc!external, Dbg!Rpc!external, Rpc!files, Dbg!Rpc!files, Rpc!None, Dbg!Rpc!None, Rpc!Ok,
      Dbg!Rpc!Ok, Rpc!Failed, Dbg!Rpc!Failed, Rpc!RequirePaused, Dbg!Rpc!RequirePaused, Rpc!Calls,
      Dbg!Rpc!Calls, Rpc!Refuses, Dbg!Rpc!Refuses, Rpc!CommandFailure, Dbg!Rpc!CommandFailure,
      Rpc!Point, Dbg!Rpc!Point, Rpc!PointsBecome, Dbg!Rpc!PointsBecome, Rpc!Sets, Dbg!Rpc!Sets,
      Rpc!SetHardwareBreakpointRpc, Dbg!Rpc!SetHardwareBreakpointRpc
  <2>2. Rpc!RemoveHardwareBreakpointRpc(a) => Dbg!Rpc!RemoveHardwareBreakpointRpc(a)
    BY DEF
      Rpc!external, Dbg!Rpc!external, Rpc!files, Dbg!Rpc!files, Rpc!None, Dbg!Rpc!None, Rpc!Ok,
      Dbg!Rpc!Ok, Rpc!Failed, Dbg!Rpc!Failed, Rpc!RequirePaused, Dbg!Rpc!RequirePaused, Rpc!Calls,
      Dbg!Rpc!Calls, Rpc!Refuses, Dbg!Rpc!Refuses, Rpc!CommandFailure, Dbg!Rpc!CommandFailure,
      Rpc!Point, Dbg!Rpc!Point, Rpc!PointsBecome, Dbg!Rpc!PointsBecome, Rpc!Removes,
      Dbg!Rpc!Removes, Rpc!RemoveHardwareBreakpointRpc, Dbg!Rpc!RemoveHardwareBreakpointRpc
  <2>3. Rpc!SetMemoryBreakpointRpc(a) => Dbg!Rpc!SetMemoryBreakpointRpc(a)
    BY DEF
      Rpc!external, Dbg!Rpc!external, Rpc!files, Dbg!Rpc!files, Rpc!None, Dbg!Rpc!None, Rpc!Ok,
      Dbg!Rpc!Ok, Rpc!Failed, Dbg!Rpc!Failed, Rpc!RequirePaused, Dbg!Rpc!RequirePaused, Rpc!Calls,
      Dbg!Rpc!Calls, Rpc!Refuses, Dbg!Rpc!Refuses, Rpc!CommandFailure, Dbg!Rpc!CommandFailure,
      Rpc!Point, Dbg!Rpc!Point, Rpc!PointsBecome, Dbg!Rpc!PointsBecome, Rpc!Sets, Dbg!Rpc!Sets,
      Rpc!SetMemoryBreakpointRpc, Dbg!Rpc!SetMemoryBreakpointRpc
  <2>4. Rpc!RemoveMemoryBreakpointRpc(a) => Dbg!Rpc!RemoveMemoryBreakpointRpc(a)
    BY DEF
      Rpc!external, Dbg!Rpc!external, Rpc!files, Dbg!Rpc!files, Rpc!None, Dbg!Rpc!None, Rpc!Ok,
      Dbg!Rpc!Ok, Rpc!Failed, Dbg!Rpc!Failed, Rpc!RequirePaused, Dbg!Rpc!RequirePaused, Rpc!Calls,
      Dbg!Rpc!Calls, Rpc!Refuses, Dbg!Rpc!Refuses, Rpc!CommandFailure, Dbg!Rpc!CommandFailure,
      Rpc!Point, Dbg!Rpc!Point, Rpc!PointsBecome, Dbg!Rpc!PointsBecome, Rpc!Removes,
      Dbg!Rpc!Removes, Rpc!RemoveMemoryBreakpointRpc, Dbg!Rpc!RemoveMemoryBreakpointRpc
  <2>5. Rpc!SetBreakpointConditionRpc(a) => Dbg!Rpc!SetBreakpointConditionRpc(a)
    BY DEF
      Rpc!external, Dbg!Rpc!external, Rpc!files, Dbg!Rpc!files, Rpc!None, Dbg!Rpc!None, Rpc!Ok,
      Dbg!Rpc!Ok, Rpc!Failed, Dbg!Rpc!Failed, Rpc!RequirePaused, Dbg!Rpc!RequirePaused, Rpc!Calls,
      Dbg!Rpc!Calls, Rpc!Refuses, Dbg!Rpc!Refuses, Rpc!CommandFailure, Dbg!Rpc!CommandFailure,
      Rpc!Point, Dbg!Rpc!Point, Rpc!PointsBecome, Dbg!Rpc!PointsBecome, Rpc!LookupBridgeBreakpoint,
      Dbg!Rpc!LookupBridgeBreakpoint, Rpc!SetBreakpointConditionRpc,
      Dbg!Rpc!SetBreakpointConditionRpc
  <2>6. Rpc!GetBreakpointConditionRpc(a) => Dbg!Rpc!GetBreakpointConditionRpc(a)
    BY DEF
      Rpc!external, Dbg!Rpc!external, Rpc!files, Dbg!Rpc!files, Rpc!None, Dbg!Rpc!None, Rpc!Ok,
      Dbg!Rpc!Ok, Rpc!Failed, Dbg!Rpc!Failed, Rpc!Debugging, Dbg!Rpc!Debugging,
      Rpc!RequireDebugging, Dbg!Rpc!RequireDebugging, Rpc!Calls, Dbg!Rpc!Calls, Rpc!Refuses,
      Dbg!Rpc!Refuses, Rpc!Point, Dbg!Rpc!Point, Rpc!PointsBecome, Dbg!Rpc!PointsBecome,
      Rpc!LookupBridgeBreakpoint, Dbg!Rpc!LookupBridgeBreakpoint, Rpc!GetBreakpointConditionRpc,
      Dbg!Rpc!GetBreakpointConditionRpc
  <2>7. Rpc!RestorePatch(a) => Dbg!Rpc!RestorePatch(a)
    BY Zenon DEF
      Rpc!external, Dbg!Rpc!external, Rpc!files, Dbg!Rpc!files, Rpc!None, Dbg!Rpc!None,
      Rpc!Addresses, Dbg!Rpc!Addresses, Rpc!Failed, Dbg!Rpc!Failed, Rpc!RequirePaused,
      Dbg!Rpc!RequirePaused, Rpc!Calls, Dbg!Rpc!Calls, Rpc!Refuses, Dbg!Rpc!Refuses, Rpc!RunFrom,
      Dbg!Rpc!RunFrom, Rpc!GivenBack, Dbg!Rpc!GivenBack, Rpc!Restored, Dbg!Rpc!Restored,
      Rpc!RestoredIsComplete, Dbg!Rpc!RestoredIsComplete, Rpc!RestorePatch, Dbg!Rpc!RestorePatch,
      Rpc!Cardinality, Dbg!Rpc!Cardinality
  <2>8. Rpc!ChangeBreakpoint(a, set) => Dbg!Rpc!ChangeBreakpoint(a, set)
    BY DEF
      Rpc!external, Dbg!Rpc!external, Rpc!files, Dbg!Rpc!files, Rpc!None, Dbg!Rpc!None, Rpc!Ok,
      Dbg!Rpc!Ok, Rpc!Failed, Dbg!Rpc!Failed, Rpc!RequirePaused, Dbg!Rpc!RequirePaused, Rpc!Calls,
      Dbg!Rpc!Calls, Rpc!Refuses, Dbg!Rpc!Refuses, Rpc!CommandFailure, Dbg!Rpc!CommandFailure,
      Rpc!Point, Dbg!Rpc!Point, Rpc!PointsBecome, Dbg!Rpc!PointsBecome, Rpc!Sets, Dbg!Rpc!Sets,
      Rpc!Removes, Dbg!Rpc!Removes, Rpc!ChangeBreakpoint, Dbg!Rpc!ChangeBreakpoint
  <2>9. Rpc!ApplyPatch(a, n) => Dbg!Rpc!ApplyPatch(a, n)
    BY DEF
      Rpc!external, Dbg!Rpc!external, Rpc!files, Dbg!Rpc!files, Rpc!None, Dbg!Rpc!None, Rpc!Ok,
      Dbg!Rpc!Ok, Rpc!Failed, Dbg!Rpc!Failed, Rpc!RequirePaused, Dbg!Rpc!RequirePaused, Rpc!Calls,
      Dbg!Rpc!Calls, Rpc!Refuses, Dbg!Rpc!Refuses, Rpc!ApplyPatch, Dbg!Rpc!ApplyPatch
  <2> QED BY <2>1, <2>2, <2>3, <2>4, <2>5, <2>6, <2>7, <2>8, <2>9
<1>2. Rpc!Launch => Dbg!Rpc!Launch
  BY DEF
      Rpc!external, Dbg!Rpc!external, Rpc!files, Dbg!Rpc!files, Rpc!None, Dbg!Rpc!None, Rpc!Ok,
      Dbg!Rpc!Ok, Rpc!Failed, Dbg!Rpc!Failed, Rpc!Debugging, Dbg!Rpc!Debugging, Rpc!Calls,
      Dbg!Rpc!Calls, Rpc!Refuses, Dbg!Rpc!Refuses, Rpc!CommandFailure, Dbg!Rpc!CommandFailure,
      Rpc!State, Dbg!Rpc!State, Rpc!Starts, Dbg!Rpc!Starts, Rpc!Launch, Dbg!Rpc!Launch
<1>3. Rpc!Attach => Dbg!Rpc!Attach
  BY DEF
      Rpc!external, Dbg!Rpc!external, Rpc!files, Dbg!Rpc!files, Rpc!None, Dbg!Rpc!None, Rpc!Ok,
      Dbg!Rpc!Ok, Rpc!Failed, Dbg!Rpc!Failed, Rpc!Debugging, Dbg!Rpc!Debugging, Rpc!Calls,
      Dbg!Rpc!Calls, Rpc!Refuses, Dbg!Rpc!Refuses, Rpc!CommandFailure, Dbg!Rpc!CommandFailure,
      Rpc!State, Dbg!Rpc!State, Rpc!Starts, Dbg!Rpc!Starts, Rpc!Attach, Dbg!Rpc!Attach
<1>4. Rpc!RunControlCommand => Dbg!Rpc!RunControlCommand
  BY Zenon DEF
      Rpc!external, Dbg!Rpc!external, Rpc!files, Dbg!Rpc!files, Rpc!None, Dbg!Rpc!None, Rpc!Ok,
      Dbg!Rpc!Ok, Rpc!Failed, Dbg!Rpc!Failed, Rpc!Debugging, Dbg!Rpc!Debugging,
      Rpc!RequireDebugging, Dbg!Rpc!RequireDebugging, Rpc!RequirePaused, Dbg!Rpc!RequirePaused,
      Rpc!Calls, Dbg!Rpc!Calls, Rpc!Refuses, Dbg!Rpc!Refuses, Rpc!CommandFailure,
      Dbg!Rpc!CommandFailure, Rpc!State, Dbg!Rpc!State, Rpc!Executes, Dbg!Rpc!Executes,
      Rpc!RunControlCommand, Dbg!Rpc!RunControlCommand
<1>5. Rpc!PauseDebuggee => Dbg!Rpc!PauseDebuggee
  BY Zenon DEF
      Rpc!external, Dbg!Rpc!external, Rpc!files, Dbg!Rpc!files, Rpc!None, Dbg!Rpc!None, Rpc!Ok,
      Dbg!Rpc!Ok, Rpc!Failed, Dbg!Rpc!Failed, Rpc!Debugging, Dbg!Rpc!Debugging,
      Rpc!RequireDebugging, Dbg!Rpc!RequireDebugging, Rpc!Calls, Dbg!Rpc!Calls, Rpc!Refuses,
      Dbg!Rpc!Refuses, Rpc!CommandFailure, Dbg!Rpc!CommandFailure, Rpc!State, Dbg!Rpc!State,
      Rpc!Executes, Dbg!Rpc!Executes, Rpc!PauseDebuggee, Dbg!Rpc!PauseDebuggee
<1>6. Rpc!ReadThreadContext => Dbg!Rpc!ReadThreadContext
  BY DEF
      Rpc!external, Dbg!Rpc!external, Rpc!files, Dbg!Rpc!files, Rpc!None, Dbg!Rpc!None, Rpc!Ok,
      Dbg!Rpc!Ok, Rpc!Failed, Dbg!Rpc!Failed, Rpc!RequirePaused, Dbg!Rpc!RequirePaused, Rpc!Calls,
      Dbg!Rpc!Calls, Rpc!Refuses, Dbg!Rpc!Refuses, Rpc!CommandFailure, Dbg!Rpc!CommandFailure,
      Rpc!AccessAnswer, Dbg!Rpc!AccessAnswer, Rpc!ThreadContext, Dbg!Rpc!ThreadContext,
      Rpc!ReadThreadContext, Dbg!Rpc!ReadThreadContext
<1>7. Rpc!WriteThreadContext => Dbg!Rpc!WriteThreadContext
  BY DEF
      Rpc!external, Dbg!Rpc!external, Rpc!files, Dbg!Rpc!files, Rpc!None, Dbg!Rpc!None, Rpc!Ok,
      Dbg!Rpc!Ok, Rpc!Failed, Dbg!Rpc!Failed, Rpc!RequirePaused, Dbg!Rpc!RequirePaused, Rpc!Calls,
      Dbg!Rpc!Calls, Rpc!Refuses, Dbg!Rpc!Refuses, Rpc!CommandFailure, Dbg!Rpc!CommandFailure,
      Rpc!AccessAnswer, Dbg!Rpc!AccessAnswer, Rpc!ThreadContext, Dbg!Rpc!ThreadContext,
      Rpc!WriteThreadContext, Dbg!Rpc!WriteThreadContext
<1>8. Rpc!DumpModule => Dbg!Rpc!DumpModule
  BY DEF
      Rpc!external, Dbg!Rpc!external, Rpc!files, Dbg!Rpc!files, Rpc!None, Dbg!Rpc!None, Rpc!Ok,
      Dbg!Rpc!Ok, Rpc!Failed, Dbg!Rpc!Failed, Rpc!RequirePaused, Dbg!Rpc!RequirePaused, Rpc!Calls,
      Dbg!Rpc!Calls, Rpc!Refuses, Dbg!Rpc!Refuses, Rpc!FilesBecome, Dbg!Rpc!FilesBecome,
      Rpc!DumpModule, Dbg!Rpc!DumpModule
<1>9. Rpc!ReadPeHeadersRuntime => Dbg!Rpc!ReadPeHeadersRuntime
  BY DEF
      Rpc!external, Dbg!Rpc!external, Rpc!files, Dbg!Rpc!files, Rpc!None, Dbg!Rpc!None, Rpc!Ok,
      Dbg!Rpc!Ok, Rpc!Failed, Dbg!Rpc!Failed, Rpc!RequirePaused, Dbg!Rpc!RequirePaused, Rpc!Calls,
      Dbg!Rpc!Calls, Rpc!Refuses, Dbg!Rpc!Refuses, Rpc!ReadPeHeadersRuntime,
      Dbg!Rpc!ReadPeHeadersRuntime
<1>10. Rpc!StartTrace => Dbg!Rpc!StartTrace
  BY DEF
      Rpc!external, Dbg!Rpc!external, Rpc!files, Dbg!Rpc!files, Rpc!None, Dbg!Rpc!None, Rpc!Failed,
      Dbg!Rpc!Failed, Rpc!RequirePaused, Dbg!Rpc!RequirePaused, Rpc!Calls, Dbg!Rpc!Calls,
      Rpc!Refuses, Dbg!Rpc!Refuses, Rpc!CommandFailure, Dbg!Rpc!CommandFailure,
      Rpc!IsTraceRecordingActive, Dbg!Rpc!IsTraceRecordingActive, Rpc!StartTrace, Dbg!Rpc!StartTrace
<1>11. Rpc!StopTrace => Dbg!Rpc!StopTrace
  BY Zenon DEF
      Rpc!external, Dbg!Rpc!external, Rpc!files, Dbg!Rpc!files, Rpc!None, Dbg!Rpc!None, Rpc!Limits,
      Dbg!Rpc!Limits, Rpc!Ok, Dbg!Rpc!Ok, Rpc!Failed, Dbg!Rpc!Failed, Rpc!Debugging,
      Dbg!Rpc!Debugging, Rpc!Calls, Dbg!Rpc!Calls, Rpc!IsTraceRecordingActive,
      Dbg!Rpc!IsTraceRecordingActive, Rpc!StopsRecording, Dbg!Rpc!StopsRecording, Rpc!Latched,
      Dbg!Rpc!Latched, Rpc!ExitedUnsaid, Dbg!Rpc!ExitedUnsaid, Rpc!ReasonOf, Dbg!Rpc!ReasonOf,
      Rpc!Tells, Dbg!Rpc!Tells, Rpc!TraceResult, Dbg!Rpc!TraceResult, Rpc!StopTrace,
      Dbg!Rpc!StopTrace
<1>12. Rpc!TraceStatus => Dbg!Rpc!TraceStatus
  BY Zenon DEF
      Rpc!external, Dbg!Rpc!external, Rpc!files, Dbg!Rpc!files, Rpc!None, Dbg!Rpc!None, Rpc!Limits,
      Dbg!Rpc!Limits, Rpc!Ok, Dbg!Rpc!Ok, Rpc!Failed, Dbg!Rpc!Failed, Rpc!Debugging,
      Dbg!Rpc!Debugging, Rpc!Calls, Dbg!Rpc!Calls, Rpc!Refuses, Dbg!Rpc!Refuses, Rpc!CommandFailure,
      Dbg!Rpc!CommandFailure, Rpc!StopsRecording, Dbg!Rpc!StopsRecording, Rpc!Latched,
      Dbg!Rpc!Latched, Rpc!ExitedUnsaid, Dbg!Rpc!ExitedUnsaid, Rpc!ReasonOf, Dbg!Rpc!ReasonOf,
      Rpc!Tells, Dbg!Rpc!Tells, Rpc!TraceResult, Dbg!Rpc!TraceResult, Rpc!EnforceQuotas,
      Dbg!Rpc!EnforceQuotas, Rpc!TraceStatus, Dbg!Rpc!TraceStatus
<1>13. Rpc!ReadRegisters => Dbg!Rpc!ReadRegisters
  BY DEF
      Rpc!external, Dbg!Rpc!external, Rpc!files, Dbg!Rpc!files, Rpc!None, Dbg!Rpc!None, Rpc!Ok,
      Dbg!Rpc!Ok, Rpc!Failed, Dbg!Rpc!Failed, Rpc!RequirePaused, Dbg!Rpc!RequirePaused, Rpc!Calls,
      Dbg!Rpc!Calls, Rpc!Refuses, Dbg!Rpc!Refuses, Rpc!Reads, Dbg!Rpc!Reads, Rpc!ReadRegisters,
      Dbg!Rpc!ReadRegisters
<1>14. Rpc!WriteRegister => Dbg!Rpc!WriteRegister
  BY DEF
      Rpc!external, Dbg!Rpc!external, Rpc!files, Dbg!Rpc!files, Rpc!None, Dbg!Rpc!None, Rpc!Ok,
      Dbg!Rpc!Ok, Rpc!Failed, Dbg!Rpc!Failed, Rpc!RequirePaused, Dbg!Rpc!RequirePaused, Rpc!Calls,
      Dbg!Rpc!Calls, Rpc!Refuses, Dbg!Rpc!Refuses, Rpc!Reads, Dbg!Rpc!Reads, Rpc!WriteRegister,
      Dbg!Rpc!WriteRegister
<1>15. Rpc!ReadMemory => Dbg!Rpc!ReadMemory
  BY DEF
      Rpc!external, Dbg!Rpc!external, Rpc!files, Dbg!Rpc!files, Rpc!None, Dbg!Rpc!None, Rpc!Ok,
      Dbg!Rpc!Ok, Rpc!Failed, Dbg!Rpc!Failed, Rpc!RequirePaused, Dbg!Rpc!RequirePaused, Rpc!Calls,
      Dbg!Rpc!Calls, Rpc!Refuses, Dbg!Rpc!Refuses, Rpc!Reads, Dbg!Rpc!Reads, Rpc!ReadMemory,
      Dbg!Rpc!ReadMemory
<1>16. Rpc!WriteMemory => Dbg!Rpc!WriteMemory
  BY DEF
      Rpc!external, Dbg!Rpc!external, Rpc!files, Dbg!Rpc!files, Rpc!None, Dbg!Rpc!None, Rpc!Ok,
      Dbg!Rpc!Ok, Rpc!Failed, Dbg!Rpc!Failed, Rpc!RequirePaused, Dbg!Rpc!RequirePaused, Rpc!Calls,
      Dbg!Rpc!Calls, Rpc!Refuses, Dbg!Rpc!Refuses, Rpc!Reads, Dbg!Rpc!Reads, Rpc!WriteMemory,
      Dbg!Rpc!WriteMemory
<1>17. Rpc!ListMemoryRegions => Dbg!Rpc!ListMemoryRegions
  BY DEF
      Rpc!external, Dbg!Rpc!external, Rpc!files, Dbg!Rpc!files, Rpc!None, Dbg!Rpc!None, Rpc!Ok,
      Dbg!Rpc!Ok, Rpc!Failed, Dbg!Rpc!Failed, Rpc!RequirePaused, Dbg!Rpc!RequirePaused, Rpc!Calls,
      Dbg!Rpc!Calls, Rpc!Refuses, Dbg!Rpc!Refuses, Rpc!Reads, Dbg!Rpc!Reads, Rpc!ListMemoryRegions,
      Dbg!Rpc!ListMemoryRegions
<1>18. Rpc!QueryMemoryProtect => Dbg!Rpc!QueryMemoryProtect
  BY DEF
      Rpc!external, Dbg!Rpc!external, Rpc!files, Dbg!Rpc!files, Rpc!None, Dbg!Rpc!None, Rpc!Ok,
      Dbg!Rpc!Ok, Rpc!Failed, Dbg!Rpc!Failed, Rpc!RequirePaused, Dbg!Rpc!RequirePaused, Rpc!Calls,
      Dbg!Rpc!Calls, Rpc!Refuses, Dbg!Rpc!Refuses, Rpc!Reads, Dbg!Rpc!Reads, Rpc!QueryMemoryProtect,
      Dbg!Rpc!QueryMemoryProtect
<1>19. Rpc!MemoryProtection => Dbg!Rpc!MemoryProtection
  BY DEF
      Rpc!external, Dbg!Rpc!external, Rpc!files, Dbg!Rpc!files, Rpc!None, Dbg!Rpc!None, Rpc!Ok,
      Dbg!Rpc!Ok, Rpc!Failed, Dbg!Rpc!Failed, Rpc!RequirePaused, Dbg!Rpc!RequirePaused, Rpc!Calls,
      Dbg!Rpc!Calls, Rpc!Refuses, Dbg!Rpc!Refuses, Rpc!Reads, Dbg!Rpc!Reads, Rpc!MemoryProtection,
      Dbg!Rpc!MemoryProtection
<1>20. Rpc!ListModules => Dbg!Rpc!ListModules
  BY DEF
      Rpc!external, Dbg!Rpc!external, Rpc!files, Dbg!Rpc!files, Rpc!None, Dbg!Rpc!None, Rpc!Ok,
      Dbg!Rpc!Ok, Rpc!Failed, Dbg!Rpc!Failed, Rpc!RequirePaused, Dbg!Rpc!RequirePaused, Rpc!Calls,
      Dbg!Rpc!Calls, Rpc!Refuses, Dbg!Rpc!Refuses, Rpc!Reads, Dbg!Rpc!Reads, Rpc!ListModules,
      Dbg!Rpc!ListModules
<1>21. Rpc!ReadStack => Dbg!Rpc!ReadStack
  BY DEF
      Rpc!external, Dbg!Rpc!external, Rpc!files, Dbg!Rpc!files, Rpc!None, Dbg!Rpc!None, Rpc!Ok,
      Dbg!Rpc!Ok, Rpc!Failed, Dbg!Rpc!Failed, Rpc!RequirePaused, Dbg!Rpc!RequirePaused, Rpc!Calls,
      Dbg!Rpc!Calls, Rpc!Refuses, Dbg!Rpc!Refuses, Rpc!Reads, Dbg!Rpc!Reads, Rpc!ReadStack,
      Dbg!Rpc!ReadStack
<1>22. Rpc!TraceStack => Dbg!Rpc!TraceStack
  BY DEF
      Rpc!external, Dbg!Rpc!external, Rpc!files, Dbg!Rpc!files, Rpc!None, Dbg!Rpc!None, Rpc!Ok,
      Dbg!Rpc!Ok, Rpc!Failed, Dbg!Rpc!Failed, Rpc!RequirePaused, Dbg!Rpc!RequirePaused, Rpc!Calls,
      Dbg!Rpc!Calls, Rpc!Refuses, Dbg!Rpc!Refuses, Rpc!Reads, Dbg!Rpc!Reads, Rpc!TraceStack,
      Dbg!Rpc!TraceStack
<1>23. Rpc!ReadDisassembly => Dbg!Rpc!ReadDisassembly
  BY DEF
      Rpc!external, Dbg!Rpc!external, Rpc!files, Dbg!Rpc!files, Rpc!None, Dbg!Rpc!None, Rpc!Ok,
      Dbg!Rpc!Ok, Rpc!Failed, Dbg!Rpc!Failed, Rpc!RequirePaused, Dbg!Rpc!RequirePaused, Rpc!Calls,
      Dbg!Rpc!Calls, Rpc!Refuses, Dbg!Rpc!Refuses, Rpc!Reads, Dbg!Rpc!Reads, Rpc!ReadDisassembly,
      Dbg!Rpc!ReadDisassembly
<1>24. Rpc!ListSymbols => Dbg!Rpc!ListSymbols
  BY DEF
      Rpc!external, Dbg!Rpc!external, Rpc!files, Dbg!Rpc!files, Rpc!None, Dbg!Rpc!None, Rpc!Ok,
      Dbg!Rpc!Ok, Rpc!Failed, Dbg!Rpc!Failed, Rpc!RequirePaused, Dbg!Rpc!RequirePaused, Rpc!Calls,
      Dbg!Rpc!Calls, Rpc!Refuses, Dbg!Rpc!Refuses, Rpc!Reads, Dbg!Rpc!Reads, Rpc!ListSymbols,
      Dbg!Rpc!ListSymbols
<1>25. Rpc!ResolveSymbol => Dbg!Rpc!ResolveSymbol
  BY DEF
      Rpc!external, Dbg!Rpc!external, Rpc!files, Dbg!Rpc!files, Rpc!None, Dbg!Rpc!None, Rpc!Ok,
      Dbg!Rpc!Ok, Rpc!Failed, Dbg!Rpc!Failed, Rpc!Debugging, Dbg!Rpc!Debugging,
      Rpc!RequireDebugging, Dbg!Rpc!RequireDebugging, Rpc!Calls, Dbg!Rpc!Calls, Rpc!Refuses,
      Dbg!Rpc!Refuses, Rpc!Reads, Dbg!Rpc!Reads, Rpc!ResolveSymbol, Dbg!Rpc!ResolveSymbol
<1>26. Rpc!ListThreads => Dbg!Rpc!ListThreads
  BY DEF
      Rpc!external, Dbg!Rpc!external, Rpc!files, Dbg!Rpc!files, Rpc!None, Dbg!Rpc!None, Rpc!Ok,
      Dbg!Rpc!Ok, Rpc!Failed, Dbg!Rpc!Failed, Rpc!Debugging, Dbg!Rpc!Debugging,
      Rpc!RequireDebugging, Dbg!Rpc!RequireDebugging, Rpc!Calls, Dbg!Rpc!Calls, Rpc!Refuses,
      Dbg!Rpc!Refuses, Rpc!Reads, Dbg!Rpc!Reads, Rpc!ListThreads, Dbg!Rpc!ListThreads
<1>27. Rpc!CurrentThread => Dbg!Rpc!CurrentThread
  BY DEF
      Rpc!external, Dbg!Rpc!external, Rpc!files, Dbg!Rpc!files, Rpc!None, Dbg!Rpc!None, Rpc!Ok,
      Dbg!Rpc!Ok, Rpc!Failed, Dbg!Rpc!Failed, Rpc!Debugging, Dbg!Rpc!Debugging,
      Rpc!RequireDebugging, Dbg!Rpc!RequireDebugging, Rpc!Calls, Dbg!Rpc!Calls, Rpc!Refuses,
      Dbg!Rpc!Refuses, Rpc!Reads, Dbg!Rpc!Reads, Rpc!CurrentThread, Dbg!Rpc!CurrentThread
<1>28. Rpc!ListPatches => Dbg!Rpc!ListPatches
  BY DEF
      Rpc!external, Dbg!Rpc!external, Rpc!files, Dbg!Rpc!files, Rpc!None, Dbg!Rpc!None, Rpc!Ok,
      Dbg!Rpc!Ok, Rpc!Failed, Dbg!Rpc!Failed, Rpc!Debugging, Dbg!Rpc!Debugging,
      Rpc!RequireDebugging, Dbg!Rpc!RequireDebugging, Rpc!Calls, Dbg!Rpc!Calls, Rpc!Refuses,
      Dbg!Rpc!Refuses, Rpc!Reads, Dbg!Rpc!Reads, Rpc!ListPatches, Dbg!Rpc!ListPatches
<1>29. Rpc!ListBreakpointsFiltered => Dbg!Rpc!ListBreakpointsFiltered
  BY DEF
      Rpc!external, Dbg!Rpc!external, Rpc!files, Dbg!Rpc!files, Rpc!None, Dbg!Rpc!None, Rpc!Ok,
      Dbg!Rpc!Ok, Rpc!Failed, Dbg!Rpc!Failed, Rpc!Debugging, Dbg!Rpc!Debugging,
      Rpc!RequireDebugging, Dbg!Rpc!RequireDebugging, Rpc!Calls, Dbg!Rpc!Calls, Rpc!Refuses,
      Dbg!Rpc!Refuses, Rpc!Reads, Dbg!Rpc!Reads, Rpc!ListBreakpointsFiltered,
      Dbg!Rpc!ListBreakpointsFiltered
<1>30. Rpc!DispatchDebuggerMethod => Dbg!Rpc!DispatchDebuggerMethod
  BY <1>1, <1>2, <1>3, <1>4, <1>5, <1>6, <1>7, <1>8, <1>9, <1>10, <1>11, <1>12, <1>13, <1>14,
     <1>15, <1>16, <1>17, <1>18, <1>19, <1>20, <1>21, <1>22, <1>23, <1>24, <1>25, <1>26,
     <1>27, <1>28, <1>29
  DEF Rpc!DispatchDebuggerMethod, Dbg!Rpc!DispatchDebuggerMethod, Rpc!Addresses,
      Dbg!Rpc!Addresses
<1>31. Rpc!DumpChunk => Dbg!Rpc!DumpChunk
  BY DEF
      Rpc!external, Dbg!Rpc!external, Rpc!None, Dbg!Rpc!None, Rpc!Failed, Dbg!Rpc!Failed,
      Rpc!FilesBecome, Dbg!Rpc!FilesBecome, Rpc!DumpFails, Dbg!Rpc!DumpFails, Rpc!DumpChunk,
      Dbg!Rpc!DumpChunk
<1>32. Rpc!DumpRename => Dbg!Rpc!DumpRename
  BY DEF
      Rpc!external, Dbg!Rpc!external, Rpc!None, Dbg!Rpc!None, Rpc!Ok, Dbg!Rpc!Ok, Rpc!Failed,
      Dbg!Rpc!Failed, Rpc!FilesBecome, Dbg!Rpc!FilesBecome, Rpc!DumpFails, Dbg!Rpc!DumpFails,
      Rpc!DumpRename, Dbg!Rpc!DumpRename
<1>33. Rpc!DebuggeeMoves => Dbg!Rpc!DebuggeeMoves
  BY DEF
      Rpc!files, Dbg!Rpc!files, Rpc!None, Dbg!Rpc!None, Rpc!Ok, Dbg!Rpc!Ok, Rpc!Debugging,
      Dbg!Rpc!Debugging, Rpc!Itself, Dbg!Rpc!Itself, Rpc!DebuggeeMoves, Dbg!Rpc!DebuggeeMoves
<1>34. Rpc!DebuggeeExits => Dbg!Rpc!DebuggeeExits
  BY DEF
      Rpc!files, Dbg!Rpc!files, Rpc!None, Dbg!Rpc!None, Rpc!Ok, Dbg!Rpc!Ok, Rpc!Debugging,
      Dbg!Rpc!Debugging, Rpc!Itself, Dbg!Rpc!Itself, Rpc!DebuggeeExits, Dbg!Rpc!DebuggeeExits
<1>35. Rpc!ModuleComesOrGoes => Dbg!Rpc!ModuleComesOrGoes
  BY DEF
      Rpc!files, Dbg!Rpc!files, Rpc!ModuleComesOrGoes, Dbg!Rpc!ModuleComesOrGoes
<1>36. Rpc!RecorderChanges => Dbg!Rpc!RecorderChanges
  BY DEF
      Rpc!files, Dbg!Rpc!files, Rpc!None, Dbg!Rpc!None, Rpc!Limits, Dbg!Rpc!Limits, Rpc!Ok,
      Dbg!Rpc!Ok, Rpc!Itself, Dbg!Rpc!Itself, Rpc!RecorderChanges, Dbg!Rpc!RecorderChanges
<1>37. Rpc!Killed => Dbg!Rpc!Killed
  BY DEF
      Rpc!None, Dbg!Rpc!None, Rpc!Ok, Dbg!Rpc!Ok, Rpc!NoTrace, Dbg!Rpc!NoTrace, Rpc!Killed,
      Dbg!Rpc!Killed
<1>38. Dbg!Rpc!Next
  BY <1>1, <1>2, <1>3, <1>4, <1>5, <1>6, <1>7, <1>8, <1>9, <1>10, <1>11, <1>12, <1>13, <1>14,
     <1>15, <1>16, <1>17, <1>18, <1>19, <1>20, <1>21, <1>22, <1>23, <1>24, <1>25, <1>26, <1>27,
     <1>28, <1>29, <1>30, <1>31, <1>32, <1>33, <1>34, <1>35, <1>36, <1>37 DEF Rpc!Next,
     Dbg!Rpc!Next
<1> QED BY <1>38, RpcSizes, Dbg!RpcStays

(* and so does a step that leaves it alone.                                 *)
LEMMA RpcRests == ASSUME Dbg!RpcInv, UNCHANGED xs PROVE Dbg!RpcInv'
<1>1. UNCHANGED Dbg!Rpc!vars
  BY DEF xs,
      Rpc!vars, Dbg!Rpc!vars
<1> QED BY <1>1, RpcSizes, Dbg!RpcStays

(* What is to be shown follows from the invariant.                          *)
LEMMA RpcShows == ASSUME Dbg!RpcInv PROVE Rpc!ThreadKept /\ Rpc!PatchesCounted /\ Rpc!FinalIsWhole /\ Rpc!EndIsKept
<1>1. Dbg!Rpc!ThreadKept /\ Dbg!Rpc!PatchesCounted /\ Dbg!Rpc!FinalIsWhole /\ Dbg!Rpc!EndIsKept
  BY Dbg!RpcImplies
<1> QED BY <1>1 DEF
      Rpc!None, Dbg!Rpc!None, Rpc!Ok, Dbg!Rpc!Ok, Rpc!ThreadKept, Dbg!Rpc!ThreadKept,
      Rpc!PatchesCounted, Dbg!Rpc!PatchesCounted, Rpc!FinalIsWhole, Dbg!Rpc!FinalIsWhole,
      Rpc!EndIsKept, Dbg!Rpc!EndIsKept, Rpc!Cardinality, Dbg!Rpc!Cardinality

-----------------------------------------------------------------------------
(* The callers of the instance are none called "none".                     *)
LEMMA LookSizes == Dbg!LookConstantsOK
  BY DEF Dbg!LookConstantsOK

(* The system of the inspection starts with its invariant.                 *)
LEMMA LookBegins == ASSUME Look!Init PROVE Dbg!LookInv
<1>1. Dbg!Look!Init
  BY DEF
      Look!Init, Dbg!Look!Init
<1> QED BY <1>1, LookSizes, Dbg!LookStarts

(* Its steps keep the invariant,                                            *)
LEMMA LookGoesOn == ASSUME Dbg!LookInv, Look!Next PROVE Dbg!LookInv'
<1>1. ASSUME NEW c \in {"a", "b"}
     PROVE  /\ Look!Begin(c) => Dbg!Look!Begin(c)
            /\ Look!TurnedAway(c) => Dbg!Look!TurnedAway(c)
            /\ Look!DynamicRequest(c) => Dbg!Look!DynamicRequest(c)
            /\ Look!DynamicModules(c) => Dbg!Look!DynamicModules(c)
            /\ Look!ModuleCatalog(c) => Dbg!Look!ModuleCatalog(c)
            /\ Look!ExplicitModuleOperation(c) => Dbg!Look!ExplicitModuleOperation(c)
            /\ Look!PollEvents(c) => Dbg!Look!PollEvents(c)
            /\ Look!ImportsScan(c) => Dbg!Look!ImportsScan(c)
            /\ Look!ModulesDump(c) => Dbg!Look!ModulesDump(c)
  <2>1. Look!Begin(c) => Dbg!Look!Begin(c)
    BY DEF
      Look!notes, Dbg!Look!notes, Look!Goto, Dbg!Look!Goto, Look!Return, Dbg!Look!Return,
      Look!Begin, Dbg!Look!Begin
  <2>2. Look!TurnedAway(c) => Dbg!Look!TurnedAway(c)
    BY DEF
      Look!notes, Dbg!Look!notes, Look!dumps, Dbg!Look!dumps, Look!Return, Dbg!Look!Return,
      Look!TurnedAway, Dbg!Look!TurnedAway
  <2>3. Look!DynamicRequest(c) => Dbg!Look!DynamicRequest(c)
    BY DEF
      Look!notes, Dbg!Look!notes, Look!dumps, Dbg!Look!dumps, Look!Return, Dbg!Look!Return,
      Look!Enters, Dbg!Look!Enters, Look!Fails, Dbg!Look!Fails, Look!DynamicRequest,
      Dbg!Look!DynamicRequest
  <2>4. Look!DynamicModules(c) => Dbg!Look!DynamicModules(c)
    BY DEF
      Look!notes, Dbg!Look!notes, Look!dumps, Dbg!Look!dumps, Look!Goto, Dbg!Look!Goto, Look!Return,
      Dbg!Look!Return, Look!Enters, Dbg!Look!Enters, Look!Fails, Dbg!Look!Fails, Look!Lists,
      Dbg!Look!Lists, Look!TakesBack, Dbg!Look!TakesBack, Look!DynamicModules,
      Dbg!Look!DynamicModules
  <2>5. Look!ModuleCatalog(c) => Dbg!Look!ModuleCatalog(c)
    BY DEF
      Look!notes, Dbg!Look!notes, Look!dumps, Dbg!Look!dumps, Look!Goto, Dbg!Look!Goto, Look!Return,
      Dbg!Look!Return, Look!Enters, Dbg!Look!Enters, Look!Fails, Dbg!Look!Fails, Look!Lists,
      Dbg!Look!Lists, Look!TakesBack, Dbg!Look!TakesBack, Look!Snapshot, Dbg!Look!Snapshot,
      Look!ModuleCatalog, Dbg!Look!ModuleCatalog
  <2>6. Look!ExplicitModuleOperation(c) => Dbg!Look!ExplicitModuleOperation(c)
    BY DEF
      Look!notes, Dbg!Look!notes, Look!dumps, Dbg!Look!dumps, Look!Goto, Dbg!Look!Goto, Look!Return,
      Dbg!Look!Return, Look!Enters, Dbg!Look!Enters, Look!Fails, Dbg!Look!Fails, Look!Lists,
      Dbg!Look!Lists, Look!Snapshot, Dbg!Look!Snapshot, Look!ExplicitModuleOperation,
      Dbg!Look!ExplicitModuleOperation
  <2>7. Look!PollEvents(c) => Dbg!Look!PollEvents(c)
    BY DEF
      Look!dumps, Dbg!Look!dumps, Look!Return, Dbg!Look!Return, Look!Enters, Dbg!Look!Enters,
      Look!Notes, Dbg!Look!Notes, Look!PollEvents, Dbg!Look!PollEvents
  <2>8. Look!ImportsScan(c) => Dbg!Look!ImportsScan(c)
    BY DEF
      Look!notes, Dbg!Look!notes, Look!dumps, Dbg!Look!dumps, Look!Goto, Dbg!Look!Goto, Look!Return,
      Dbg!Look!Return, Look!Enters, Dbg!Look!Enters, Look!ImportsScan, Dbg!Look!ImportsScan
  <2>9. Look!DumpEnters(c) => Dbg!Look!DumpEnters(c)
    BY DEF
      Look!notes, Dbg!Look!notes, Look!dumps, Dbg!Look!dumps, Look!Goto, Dbg!Look!Goto, Look!Return,
      Dbg!Look!Return, Look!Enters, Dbg!Look!Enters, Look!DumpStep, Dbg!Look!DumpStep,
      Look!DumpEnters, Dbg!Look!DumpEnters
  <2>10. Look!ListBefore(c) => Dbg!Look!ListBefore(c)
    BY DEF
      Look!notes, Dbg!Look!notes, Look!dumps, Dbg!Look!dumps, Look!Goto, Dbg!Look!Goto,
      Look!DumpStep, Dbg!Look!DumpStep, Look!DumpBreaks, Dbg!Look!DumpBreaks, Look!ListBefore,
      Dbg!Look!ListBefore
  <2>11. Look!WorkerDumps(c) => Dbg!Look!WorkerDumps(c)
    BY DEF
      Look!notes, Dbg!Look!notes, Look!Goto, Dbg!Look!Goto, Look!DumpStep, Dbg!Look!DumpStep,
      Look!DumpBreaks, Dbg!Look!DumpBreaks, Look!WorkerDumps, Dbg!Look!WorkerDumps
  <2>12. Look!ListAfter(c) => Dbg!Look!ListAfter(c)
    BY DEF
      Look!notes, Dbg!Look!notes, Look!dumps, Dbg!Look!dumps, Look!Goto, Dbg!Look!Goto,
      Look!DumpStep, Dbg!Look!DumpStep, Look!DumpBreaks, Dbg!Look!DumpBreaks, Look!ListAfter,
      Dbg!Look!ListAfter
  <2>13. Look!Registers(c) => Dbg!Look!Registers(c)
    BY DEF
      Look!notes, Dbg!Look!notes, Look!dumps, Dbg!Look!dumps, Look!Goto, Dbg!Look!Goto,
      Look!DumpStep, Dbg!Look!DumpStep, Look!DumpBreaks, Dbg!Look!DumpBreaks, Look!Registers,
      Dbg!Look!Registers
  <2>14. Look!DumpEnds(c) => Dbg!Look!DumpEnds(c)
    BY DEF
      Look!notes, Dbg!Look!notes, Look!dumps, Dbg!Look!dumps, Look!Goto, Dbg!Look!Goto, Look!Return,
      Dbg!Look!Return, Look!DumpStep, Dbg!Look!DumpStep, Look!DumpBreaks, Dbg!Look!DumpBreaks,
      Look!DumpEnds, Dbg!Look!DumpEnds
  <2>15. Look!Discards(c) => Dbg!Look!Discards(c)
    BY DEF
      Look!notes, Dbg!Look!notes, Look!Return, Dbg!Look!Return, Look!RemovesFile,
      Dbg!Look!RemovesFile, Look!Discards, Dbg!Look!Discards
  <2> QED BY <2>1, <2>2, <2>3, <2>4, <2>5, <2>6, <2>7, <2>8, <2>9, <2>10, <2>11, <2>12, <2>13, <2>14, <2>15 DEF Look!ModulesDump, Dbg!Look!ModulesDump
<1>2. Look!ModuleMoves => Dbg!Look!ModuleMoves
  BY DEF
      Look!notes, Dbg!Look!notes, Look!dumps, Dbg!Look!dumps, Look!ModuleMoves, Dbg!Look!ModuleMoves
<1>3. Look!RuntimeGoes => Dbg!Look!RuntimeGoes
  BY DEF
      Look!notes, Dbg!Look!notes, Look!dumps, Dbg!Look!dumps, Look!RuntimeGoes, Dbg!Look!RuntimeGoes
<1>4. Look!OrphanEnds => Dbg!Look!OrphanEnds
  BY DEF
      Look!notes, Dbg!Look!notes, Look!OrphanEnds, Dbg!Look!OrphanEnds
<1>5. Dbg!Look!Next
  BY <1>1, <1>2, <1>3, <1>4 DEF Look!Next, Dbg!Look!Next
<1> QED BY <1>5, LookSizes, Dbg!LookStays

(* and so does a step that leaves it alone.                                 *)
LEMMA LookRests == ASSUME Dbg!LookInv, UNCHANGED xs PROVE Dbg!LookInv'
<1>1. UNCHANGED Dbg!Look!vars
  BY DEF xs,
      Look!vars, Dbg!Look!vars
<1> QED BY <1>1, LookSizes, Dbg!LookStays

(* What is to be shown follows from the invariant.                          *)
LEMMA LookShows == ASSUME Dbg!LookInv PROVE Look!DumpsAreFresh /\ Look!FilesMatchAnswers
<1>1. Dbg!Look!DumpsAreFresh /\ Dbg!Look!FilesMatchAnswers
  BY Dbg!LookImplies
<1> QED BY <1>1 DEF
      Look!DumpsAreFresh, Dbg!Look!DumpsAreFresh, Look!FilesMatchAnswers, Dbg!Look!FilesMatchAnswers

-----------------------------------------------------------------------------
(* The invariant of the part that the behaviour chose.                      *)
PartInv ==
    /\ part = "methods" => Dbg!RpcInv
    /\ part = "inspect" => Dbg!LookInv

(* Each part starts with its invariant.                                     *)
LEMMA PartStarts == ASSUME EitherInit PROVE PartInv
  BY RpcBegins, LookBegins DEF EitherInit, PartInv

(* A step is a step of the part that the behaviour chose.                   *)
LEMMA PartStays == ASSUME PartInv, [EitherNext]_all PROVE PartInv'
<1>1. CASE UNCHANGED all
  <2>1. UNCHANGED xs /\ part' = part
    BY <1>1 DEF all
  <2> QED BY <2>1, RpcRests, LookRests DEF PartInv
<1>2. CASE Of("methods", Rpc!Next, vars)
  BY <1>2, RpcGoesOn DEF Of, PartInv
<1>3. CASE Of("inspect", Look!Next, <<vars, x10>>)
  BY <1>3, LookGoesOn DEF Of, PartInv
<1>4. CASE part \in {"events", "scan"} /\ part' = part
  BY <1>4 DEF PartInv
<1> QED BY <1>1, <1>2, <1>3, <1>4 DEF EitherNext, Of

(* What the debugger's plugin tells is so: its methods leave and tell what  *)
(* they say they do (DispatchDebuggerMethod, rpc_methods.cpp:3206),         *)
(* and a dump follows a list of modules that is not stale and is registered *)
(* whole or leaves nothing (modules_dump, service_dynamic_inspect.py:405).  *)
THEOREM TargetToldTruly == EitherSpec => []TargetIsToldTruly
<1>1. PartInv => TargetIsToldTruly
  BY RpcShows, LookShows DEF PartInv, TargetIsToldTruly
<1> QED BY <1>1, PartStarts, PartStays, PTL DEF EitherSpec
=============================================================================
