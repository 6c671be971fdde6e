----------------------------- MODULE ImportScan -----------------------------
(***************************************************************************)
(* The search for import tables of the native plugin (ScanImports): it     *)
(* collects the exports of the loaded modules, reads the image chunk by    *)
(* chunk, and offers runs of pointers to exports, clusters of such         *)
(* pointers, and clusters of the slots that calls go through.              *)
(*                                                                         *)
(* Memory is a row of slots, a pointer wide each; the loops over it are    *)
(* steps, and at the end what they found is compared with what a candidate *)
(* is, said without a loop.  Confidence, order and the cut to              *)
(* max_candidates are left out.                                            *)
(*                                                                         *)
(* A definition under "What if" is not part of the specification: it is    *)
(* the definition after it with a mistake the properties must catch.       *)
(***************************************************************************)
EXTENDS Integers, FiniteSets, Sequences, FiniteSetsExt, SequencesExt

CONSTANTS
    Slots,      \* slots of the image, 0..Slots - 1
    Chunk,      \* slots read at a time
    Values,     \* what a slot may hold, besides 0
    Exports,    \* the addresses each module exports, module by module
    MaxCatalog, \* MaxImportApiCatalog
    MaxGap,     \* slots between two hits of a cluster (64)
    Sites       \* sets of call sites: [at, crosses, to], crosses into the next slot

VARIABLES
    mem,      \* what the slots hold
    unread,   \* chunks that cannot be read
    calls,    \* the call sites of the image
    catalog,  \* addresses of exports, found so far
    module,   \* modules enumerated
    at,       \* slots scanned
    current,  \* the open run: its first slot and its matches, or NoRun
    found,    \* runs offered: [first, last, matched]
    hits,     \* slots that point to an export (sparseHits)
    through   \* slots that calls go through (callSiteHits)

vars == <<mem, unread, calls, catalog, module, at, current, found, hits, through>>

Addresses == 0..(Slots - 1)
ChunkOf(i) == i \div Chunk
NoRun == [first |-> -1, last |-> -1, matched |-> 0]

TypeOK ==
    /\ mem \in [Addresses -> Values \cup {0}] /\ calls \in Sites
    /\ catalog \subseteq Values /\ module \in 0..Len(Exports)
    /\ at \in 0..Slots /\ hits \in Seq(Addresses) /\ through \in Seq(Addresses)

Init ==
    /\ mem \in [Addresses -> Values \cup {0}]
    /\ unread \in SUBSET {ChunkOf(i) : i \in Addresses}
    /\ calls \in Sites
    /\ catalog = {} /\ module = 0 /\ at = 0
    /\ current = NoRun /\ found = {} /\ hits = <<>> /\ through = <<>>

-----------------------------------------------------------------------------
(* The catalog: the modules in order of their bases, up to a limit *)

(* CollectExportSymbol: an address counts once, whoever exports it; the    *)
(* enumeration ends when the catalog is full.                              *)
CollectExportSymbol(exported) ==
    LET new == exported \ catalog
        room == MaxCatalog - Cardinality(catalog)
    IN  {catalog \cup taken : taken \in kSubset(Min({Cardinality(new), room}), new)}

CatalogFull == Cardinality(catalog) >= MaxCatalog
Collected   == module = Len(Exports) \/ CatalogFull

BuildApiCatalog ==
    /\ ~Collected
    /\ catalog' \in CollectExportSymbol(Exports[module + 1])
    /\ module' = module + 1
    /\ UNCHANGED <<mem, unread, calls, at, current, found, hits, through>>

-----------------------------------------------------------------------------
(* The scan *)

Scans == Collected /\ catalog # {} /\ at < Slots

(* flush: a run with two exports is offered *)
Flushed(run) == found \cup (IF run.matched >= 2 THEN {run} ELSE {})

(* A chunk that cannot be read ends the run and is skipped *)
SkipChunk ==
    /\ Scans /\ ChunkOf(at) \in unread
    /\ current' = NoRun /\ found' = Flushed(current)
    /\ at' = Min({(ChunkOf(at) + 1) * Chunk, Slots})
    /\ UNCHANGED <<mem, unread, calls, catalog, module, hits, through>>

(* Slots of calls whose instruction lies within the chunk; the slot called *)
(* through is read wherever it is in the image                             *)
Seen(site, c) == ChunkOf(site.at) = c /\ (site.crosses => ChunkOf(site.at + 1) = c)

CallSites(c) ==
    LET seen == {s \in calls : /\ Seen(s, c) /\ s.to \in Addresses
                               /\ ChunkOf(s.to) \notin unread /\ mem[s.to] \in catalog}
    IN  [i \in 1..Cardinality(seen) |->
            SetToSortSeq(seen, LAMBDA s, t : s.at < t.at)[i].to]

LastOfChunk == at + 1 = Slots \/ ChunkOf(at + 1) # ChunkOf(at)

ScanSlot ==
    /\ Scans /\ ChunkOf(at) \notin unread
    /\ LET value == mem[at]
       IN  /\ current' =
                CASE value = 0 -> IF current = NoRun THEN NoRun ELSE [current EXCEPT !.last = at]
                  [] value \in catalog ->
                        IF current = NoRun THEN [first |-> at, last |-> at, matched |-> 1]
                        ELSE [current EXCEPT !.last = at, !.matched = @ + 1]
                  [] OTHER -> NoRun
           /\ found' = IF value \notin catalog \cup {0} THEN Flushed(current) ELSE found
           /\ hits' = IF value \in catalog THEN Append(hits, at) ELSE hits
    /\ through' = IF LastOfChunk THEN through \o CallSites(ChunkOf(at)) ELSE through
    /\ at' = at + 1
    /\ UNCHANGED <<mem, unread, calls, catalog, module>>

Next == BuildApiCatalog \/ SkipChunk \/ ScanSlot

Spec == Init /\ [][Next]_vars

-----------------------------------------------------------------------------
(* ClusterApiHits: the hits in order, without repetitions; one that is too *)
(* far behind the last starts a new cluster                                *)

(* What if the gap were taken from the hit and not from its end? *)
AddHitNarrow(clusters, slot) ==
    IF clusters # <<>> /\ slot - Last(clusters).last <= MaxGap
    THEN Front(clusters) \o <<[Last(clusters) EXCEPT !.last = slot, !.matched = @ + 1]>>
    ELSE Append(clusters, [first |-> slot, last |-> slot, matched |-> 1])

AddHit(clusters, slot) ==
    IF clusters # <<>> /\ slot - Last(clusters).last <= MaxGap + 1
    THEN Front(clusters) \o <<[Last(clusters) EXCEPT !.last = slot, !.matched = @ + 1]>>
    ELSE Append(clusters, [first |-> slot, last |-> slot, matched |-> 1])

ClusterApiHits(slots, least) ==
    LET ordered == SetToSortSeq(ToSet(slots), LAMBDA i, j : i < j)
    IN  {c \in ToSet(FoldLeft(AddHit, <<>>, ordered)) : c.matched >= least}

(* What ScanImports offers *)
Consecutive == Flushed(current)
Sparse      == ClusterApiHits(hits, 3)
CallSite    == ClusterApiHits(through, 2)

-----------------------------------------------------------------------------
(* Properties *)

Done == Collected /\ catalog # {} /\ at = Slots

Readable(i) == ChunkOf(i) \notin unread
IsApi(i)    == Readable(i) /\ mem[i] \in catalog
InRun(i)    == Readable(i) /\ mem[i] \in catalog \cup {0}

(* A run: from an export pointer on, as far as there are only export       *)
(* pointers and nulls, with no export pointer that could come before       *)
IsRun(r) ==
    /\ r.first <= r.last /\ IsApi(r.first) /\ \A i \in r.first..r.last : InRun(i)
    /\ r.last + 1 \notin Addresses \/ ~InRun(r.last + 1)
    /\ \A i \in 0..(r.first - 1) : IsApi(i) => \E j \in i..r.first : ~InRun(j)
    /\ r.matched = Cardinality({i \in r.first..r.last : IsApi(i)}) /\ r.matched >= 2

(* A cluster: slots of S with small gaps between them and wide ones around *)
IsCluster(c, S, least) ==
    /\ c.first \in S /\ c.last \in S /\ c.first <= c.last
    /\ \A i \in S : i < c.first => c.first - i > MaxGap + 1
    /\ \A i \in S : i > c.last  => i - c.last > MaxGap + 1
    /\ \A i \in (S \ {c.last}) \cap (c.first..c.last) : \E j \in S : j > i /\ j - i <= MaxGap + 1
    /\ c.matched = Cardinality(S \cap (c.first..c.last)) /\ c.matched >= least

Candidates == [first : Addresses, last : Addresses, matched : 1..Slots]

(* What the loops offer is exactly what the candidates are: runs that no   *)
(* unreadable chunk interrupts, across the borders of chunks; clusters;    *)
(* and the slots of calls that do not cross such a border (ScanImports,    *)
(* ClusterApiHits).                                                        *)
FindsAll ==
    Done =>
        /\ Consecutive = {r \in Candidates : IsRun(r)}
        /\ Sparse = {c \in Candidates : IsCluster(c, {i \in Addresses : IsApi(i)}, 3)}
        /\ CallSite = {c \in Candidates :
               IsCluster(c, {s.to : s \in {t \in calls : /\ Readable(t.at) /\ IsApi(t.to)
                                                         /\ Seen(t, ChunkOf(t.at))}}, 2)}

(* The catalog holds every export, or as many as it may (BuildApiCatalog). *)
CatalogBounded ==
    LET all == UNION {Exports[m] : m \in 1..Len(Exports)}
    IN  /\ catalog \subseteq all
        /\ Collected => Cardinality(catalog) = Min({Cardinality(all), MaxCatalog})
=============================================================================
