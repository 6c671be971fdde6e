----------------------------- MODULE Retention -----------------------------
(***************************************************************************)
(* The byte budget of the artifact store.  A call that produced a file     *)
(* registers it, and every registration may start a collection: when the   *)
(* throttle window has elapsed, or when what was registered since the last *)
(* one amounts to a burst.  A collection removes the oldest files, but     *)
(* never the newest, until the budget is met; a file that is in use is     *)
(* skipped.  Rows are ordered by created_at, which is taken before the     *)
(* store's lock, so that calls may enter their rows in another order.      *)
(*                                                                         *)
(* Time is not modelled: the window may have elapsed at any moment.        *)
(***************************************************************************)
EXTENDS Integers, FiniteSets

LOCAL INSTANCE FiniteSetsExt

CONSTANTS
    Writers,    \* threads that register artifacts
    Sizes,      \* of artifacts
    Budget,     \* max_total_bytes
    MaxFiles,   \* bound: artifacts made
    MaxFaults   \* bound: collections that fail

VARIABLES
    made,       \* artifacts stamped so far: an id is its created_at
    size,       \* of each
    rows,       \* ids registered
    busy,       \* ids whose file another handle holds
    pending,    \* _pending_bytes
    at, doing,  \* where each thread is, and with which artifact
    skipped,    \* ids the last collection could not remove
    missed,     \* a collection failed and none has succeeded since
    faults

vars == <<made, size, rows, busy, pending, at, doing, skipped, missed, faults>>

Ids        == 1..MaxFiles
Burst      == IF Budget < 2 THEN 1 ELSE Budget \div 2
Total(ids) == MapThenSumSet(LAMBDA i : size[i], ids)
Newest     == CHOOSE i \in rows : \A j \in rows : j <= i

TypeOK ==
    /\ made \in 0..MaxFiles /\ rows \subseteq 1..made /\ busy \subseteq rows
    /\ size \in [Ids -> Sizes \cup {0}] /\ pending \in Nat
    /\ at \in [Writers -> {"idle", "insert", "note", "collect"}]

Init ==
    /\ made = 0 /\ size = [i \in Ids |-> 0] /\ rows = {} /\ busy = {} /\ pending = 0
    /\ at = [w \in Writers |-> "idle"] /\ doing = [w \in Writers |-> 0]
    /\ skipped = {} /\ missed = FALSE /\ faults = 0

-----------------------------------------------------------------------------
(* record_artifact *)

Stamp(w, s) ==
    /\ at[w] = "idle" /\ made < MaxFiles
    /\ made' = made + 1 /\ size' = [size EXCEPT ![made + 1] = s]
    /\ doing' = [doing EXCEPT ![w] = made + 1]
    /\ at' = [at EXCEPT ![w] = "insert"]
    /\ UNCHANGED <<rows, busy, pending, skipped, missed, faults>>

Insert(w) ==
    /\ at[w] = "insert"
    /\ rows' = rows \cup {doing[w]}
    /\ at' = [at EXCEPT ![w] = "note"]
    /\ UNCHANGED <<made, size, busy, pending, doing, skipped, missed, faults>>

\* What if only a burst in one piece counted?
OwedAlone(w) == size[doing[w]]

Owed(w) == pending + size[doing[w]]

\* maybe_collect, under its lock: the throttle is claimed before the collection
Note(w) ==
    /\ at[w] = "note"
    /\ \/ /\ Owed(w) < Burst
          /\ pending' = Owed(w) /\ at' = [at EXCEPT ![w] = "idle"]
       \/ \* a burst, or the window has elapsed
          pending' = 0 /\ at' = [at EXCEPT ![w] = "collect"]
    /\ UNCHANGED <<made, size, rows, busy, doing, skipped, missed, faults>>

\* The end of a session checks too, and adds nothing
Checkpoint(w) ==
    /\ at[w] = "idle" /\ pending # 0
    /\ pending' = 0 /\ at' = [at EXCEPT ![w] = "collect"]
    /\ UNCHANGED <<made, size, rows, busy, doing, skipped, missed, faults>>

-----------------------------------------------------------------------------
(* gc_artifacts, under the store's lock *)

Free == rows \ (busy \cup {Newest})

\* The pass comes to artifact i while the budget is still exceeded
Reaches(i) == i # Newest /\ Total(rows) - Total({j \in Free : j < i}) > Budget

Collect(w) ==
    /\ at[w] = "collect" /\ at' = [at EXCEPT ![w] = "idle"]
    /\ UNCHANGED <<made, size, busy, pending, doing>>
    /\ \/ /\ rows' = rows \ {i \in Free : Reaches(i)}
          /\ skipped' = {i \in busy : Reaches(i)}
          /\ missed' = FALSE /\ UNCHANGED faults
       \/ /\ faults < MaxFaults /\ faults' = faults + 1
          /\ missed' = TRUE /\ UNCHANGED <<rows, skipped>>

\* Somebody opens or closes a file
Use(i) ==
    /\ i \in rows
    /\ busy' = IF i \in busy THEN busy \ {i} ELSE busy \cup {i}
    /\ UNCHANGED <<made, size, rows, pending, at, doing, skipped, missed, faults>>

-----------------------------------------------------------------------------

Next ==
    \/ \E w \in Writers : \/ Insert(w) \/ Note(w) \/ Checkpoint(w) \/ Collect(w)
                          \/ \E s \in Sizes : Stamp(w, s)
    \/ \E i \in Ids : Use(i)

Spec == Init /\ [][Next]_vars

-----------------------------------------------------------------------------
(* Properties *)

(* When no call is in progress and the last collection succeeded, what the  *)
(* store holds exceeds its budget, or the one artifact that is larger than  *)
(* it, by less than a burst, apart from files that could not be removed     *)
(* (retention.py:108), however registrations and collections overlap.       *)
OvershootBounded ==
    (\A w \in Writers : at[w] = "idle") /\ ~missed =>
        \E newest \in {0} \cup rows :
            LET largest == IF newest = 0 THEN 0 ELSE size[newest]
            IN  Total(rows \ skipped) < Burst + IF largest > Budget THEN largest ELSE Budget
=============================================================================
