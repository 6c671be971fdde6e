----------------------------- MODULE Navigation -----------------------------
(***************************************************************************)
(* The workflow of one debugger session as its callers see it: a call that *)
(* navigates resumes the debuggee and reads its events until one matches,  *)
(* dropping the session's lock while it reads, so that other calls may     *)
(* cancel the navigation, reset the workflow, read events or navigate.     *)
(*                                                                         *)
(* The debugger is external: it numbers its events, keeps the newest Ring  *)
(* of them, stops at some and may fail a request (bound MaxFaults).        *)
(* Breakpoints and modules of the workflow are in Breakpoints.             *)
(***************************************************************************)
EXTENDS Integers, Sequences, FiniteSets

CONSTANTS
    Users,      \* threads that call the service
    MaxCalls,   \* bound: calls made
    MaxEvents,  \* bound: events of the debugger
    Ring,       \* events the debugger keeps
    Budget,     \* event_budget of a navigation
    MaxFaults   \* bound: requests that fail

VARIABLES
    lock,      \* runtime.lock
    cur,       \* runtime.event_cursor
    stop,      \* runtime.navigation_cancel
    wf,        \* the stored WorkflowRuntime: status, lifecycle cursor, navigation
    kinds,     \* the events of the debugger so far
    deb,       \* the debuggee
    at,        \* where each thread is
    doing,     \* the call of each thread
    batch,     \* the batch a navigating thread has read
    expired,   \* threads whose deadline has passed
    calls, faults

vars == <<lock, cur, stop, wf, kinds, deb, at, doing, batch, expired, calls, faults>>

Free   == "free"
Max2(a, b) == IF a > b THEN a ELSE b
Kind   == {"match", "pause", "other", "end"}
Call   == {"navigate", "cancel", "events", "reset"}
Latest == Len(kinds)
Oldest == IF Latest > Ring THEN Latest - Ring + 1 ELSE 1

NoBatch == [from |-> 0, to |-> 0, has |-> {}, lost |-> FALSE, limit |-> 1]

NoNav == [st |-> "none", seen |-> 0, from |-> 0, hit |-> 0]

NavStates == {"none", "waiting", "matched", "target_stopped", "event_loss",
              "budget_exhausted", "cancelled", "timed_out"}

Waiting == wf.nav.st = "waiting"
Failed  == wf.status = "failed"

TypeOK ==
    /\ lock \in Users \cup {Free}
    /\ cur \in 0..MaxEvents /\ stop \in BOOLEAN
    /\ wf.status \in {"idle", "active", "cancelled", "failed"}
    /\ wf.lcur \in 0..MaxEvents /\ wf.nav.st \in NavStates /\ wf.nav.seen \in 0..Budget
    /\ kinds \in Seq(Kind) /\ deb \in {"running", "paused", "idle"}
    /\ at \in [Users -> {"idle", "lock", "loop", "read", "back"}]
    /\ expired \subseteq Users

Init ==
    /\ lock = Free /\ cur = 0 /\ stop = FALSE
    /\ wf = [status |-> "idle", lcur |-> 0, nav |-> NoNav]
    /\ kinds = <<>> /\ deb = "paused"
    /\ at = [u \in Users |-> "idle"]
    /\ doing = [u \in Users |-> "events"]
    /\ batch = [u \in Users |-> NoBatch]
    /\ expired = {} /\ calls = 0 /\ faults = 0

-----------------------------------------------------------------------------
(* execute_workflow_transition: effects on the debuggee, then the state is *)
(* stored.  When the port raises, the new state is stored as FAILED, and   *)
(* advance_workflow_runtime raises on a workflow that has failed.          *)

Resume       == "resume"
EnsurePaused == "ensure_paused"
Nothing      == "nothing"

Works(effect) ==
    \/ effect = Nothing /\ UNCHANGED <<deb, kinds>>
    \/ effect = Resume /\ deb # "idle" /\ deb' = "running" /\ UNCHANGED kinds
    \/ effect = EnsurePaused /\ deb # "running" /\ UNCHANGED <<deb, kinds>>
    \/ /\ effect = EnsurePaused /\ deb = "running" /\ deb' = "paused"
       /\ kinds' = IF Latest < MaxEvents THEN Append(kinds, "pause") ELSE kinds

Breaks(effect) ==
    /\ effect # Nothing
    /\ \/ effect = Resume /\ deb = "idle" /\ UNCHANGED faults
       \/ faults < MaxFaults /\ faults' = faults + 1
    /\ UNCHANGED <<deb, kinds>>

\* The call of u goes on at `there` if the transition succeeds, else it ends
Returns(u) == at' = [at EXCEPT ![u] = "idle"] /\ lock' = Free

Execute(u, nav, lcur, effect, status, there) ==
    \/ /\ Works(effect) /\ UNCHANGED faults
       /\ IF Failed THEN UNCHANGED wf /\ Returns(u)
          ELSE /\ wf' = [status |-> status, lcur |-> lcur, nav |-> nav]
               /\ IF there = "idle" THEN Returns(u)
                  ELSE at' = [at EXCEPT ![u] = there] /\ lock' = u
    \/ /\ Breaks(effect)
       /\ wf' = [status |-> "failed", lcur |-> lcur, nav |-> nav]
       /\ Returns(u)

\* cancel_navigation and timeout_navigation: only a waiting one changes
Ended(st) == IF Waiting THEN [wf.nav EXCEPT !.st = st] ELSE wf.nav
Halts     == IF Waiting THEN EnsurePaused ELSE Nothing

-----------------------------------------------------------------------------
(* Reading events *)

\* A batch after a cursor: at most `limit` of the events that are still there
After(c, limit) ==
    LET first == IF Oldest > c + 1 THEN Oldest ELSE c + 1
    IN  {[from |-> c, to |-> n, has |-> first..n, lost |-> first > c + 1, limit |-> limit] :
            n \in IF Latest = c THEN {c} ELSE {m \in first..Latest : m < first + limit}}

FirstOf(ns) == CHOOSE n \in ns : \A m \in ns : n <= m

\* consume_navigation_events: what a batch makes of a waiting navigation
Decisive(b) == {n \in b.has : kinds[n] \in {"match", "end"}}

Consumed(b) ==
    LET nav  == wf.nav
        left == Budget - nav.seen
        near == {n \in Decisive(b) : Cardinality({m \in b.has : m <= n}) <= left}
        size == Cardinality(b.has)
    IN  IF b.lost THEN [nav EXCEPT !.st = "event_loss"]
        ELSE IF near # {}
        THEN LET n == FirstOf(near)
             IN  IF kinds[n] = "match"
                 THEN [nav EXCEPT !.st = "matched", !.hit = n,
                                  !.seen = @ + Cardinality({m \in b.has : m <= n})]
                 ELSE [nav EXCEPT !.st = "target_stopped",
                                  !.seen = @ + Cardinality({m \in b.has : m <= n})]
        ELSE IF size >= left THEN [nav EXCEPT !.st = "budget_exhausted", !.seen = Budget]
        ELSE [nav EXCEPT !.seen = @ + size]

ConsumeEffect(b) ==
    LET after == Consumed(b).st IN
    CASE after \in {"matched", "event_loss", "budget_exhausted"} -> EnsurePaused
      [] after = "target_stopped" -> Nothing
      [] OTHER -> IF \E n \in b.has : kinds[n] = "pause" THEN Resume ELSE Nothing

StatusFor(nav) == IF nav.st = "waiting" THEN "active" ELSE "idle"

-----------------------------------------------------------------------------
(* The calls.  A cancel sets its flag before it asks for the lock. *)

Begin(u, c) ==
    /\ at[u] = "idle" /\ calls < MaxCalls
    /\ calls' = calls + 1
    /\ doing' = [doing EXCEPT ![u] = c]
    /\ at' = [at EXCEPT ![u] = "lock"]
    /\ stop' = (stop \/ c = "cancel")
    /\ expired' = expired \ {u}
    /\ UNCHANGED <<lock, cur, wf, kinds, deb, batch, faults>>

\* The first half of a call that found the lock free
Takes(u, c) == at[u] = "lock" /\ lock = Free /\ doing[u] = c

Refused(u) == Returns(u) /\ UNCHANGED <<wf, deb, kinds, faults>>

Navigate(u) ==
    /\ Takes(u, "navigate")
    /\ UNCHANGED <<cur, doing, batch, expired, calls>>
    /\ \/ Failed /\ Refused(u) /\ UNCHANGED stop
       \/ ~Failed /\ Waiting /\ Refused(u) /\ stop' = FALSE
       \/ /\ ~Failed /\ ~Waiting /\ stop' = FALSE
          /\ Execute(u, [st |-> "waiting", seen |-> 0, from |-> wf.lcur, hit |-> 0],
                     wf.lcur, Resume, "active", "loop")

\* A cancellation of what does not wait pauses a running debuggee, if it can
Stopped(u) ==
    /\ wf' = IF Failed THEN wf ELSE [wf EXCEPT !.status = "cancelled"]
    /\ \/ Works(IF Failed THEN Nothing ELSE EnsurePaused) /\ UNCHANGED faults
       \/ ~Failed /\ Breaks(EnsurePaused)
    /\ Returns(u)

Cancel(u) ==
    /\ Takes(u, "cancel")
    /\ UNCHANGED <<cur, stop, doing, batch, expired, calls>>
    /\ \/ Failed /\ Refused(u)
       \/ ~Failed /\ ~Waiting /\ Stopped(u)
       \/ ~Failed /\ Waiting
          /\ Execute(u, Ended("cancelled"), wf.lcur, EnsurePaused, "cancelled", "idle")

\* dynamic_events serves the log while a navigation waits, and otherwise
\* moves the cursor and feeds the workflow
Events(u) ==
    /\ Takes(u, "events")
    /\ UNCHANGED <<stop, doing, batch, expired, calls>>
    /\ IF Waiting THEN Refused(u) /\ UNCHANGED cur
       ELSE \E b \in After(cur, Budget) :
              /\ cur' = b.to
              /\ IF Failed THEN Refused(u)
                 ELSE Execute(u, wf.nav, b.to, Nothing, StatusFor(wf.nav), "idle")

\* What if a reset kept the cursor of the workflow?
KeptCursor == wf.lcur

NewCursor == cur

Reset(u) ==
    /\ Takes(u, "reset")
    /\ UNCHANGED <<cur, stop, doing, batch, expired, calls>>
    /\ \/ /\ Works(Halts) /\ UNCHANGED faults
          /\ wf' = [status |-> "idle", lcur |-> NewCursor, nav |-> NoNav]
          /\ Returns(u)
       \/ /\ Breaks(Halts)
          /\ wf' = [wf EXCEPT !.status = "failed", !.nav = Ended("cancelled")]
          /\ Returns(u)

Late(u) == u \in expired

\* The head of the loop of _navigate_locked, with the lock held.  After a
\* cancellation the debuggee is paused once more; a failure of that is ignored.
Loop(u) ==
    /\ at[u] = "loop"
    /\ UNCHANGED <<cur, stop, doing, expired, calls>>
    /\ \/ /\ stop /\ Waiting
          /\ Execute(u, Ended("cancelled"), wf.lcur, EnsurePaused, "cancelled", "idle")
          /\ UNCHANGED batch
       \/ stop /\ ~Waiting /\ Stopped(u) /\ UNCHANGED batch
       \/ ~stop /\ ~Waiting /\ Refused(u) /\ UNCHANGED batch
       \/ /\ ~stop /\ Waiting /\ Late(u)
          /\ Execute(u, Ended("timed_out"), wf.lcur, Halts, "idle", "idle")
          /\ UNCHANGED batch
       \/ /\ ~stop /\ Waiting /\ ~Late(u)
          /\ at' = [at EXCEPT ![u] = "read"] /\ lock' = Free
          /\ batch' = [batch EXCEPT ![u].limit = Max2(1, Budget - wf.nav.seen)]
          /\ UNCHANGED <<wf, deb, kinds, faults>>

\* The cursor is read, and the events after it, without the lock
Read(u) ==
    /\ at[u] = "read"
    /\ \E b \in After(cur, batch[u].limit) : batch' = [batch EXCEPT ![u] = b]
    /\ at' = [at EXCEPT ![u] = "back"]
    /\ UNCHANGED <<lock, cur, stop, wf, kinds, deb, doing, expired, calls, faults>>

Fits(b) == b.from = cur

\* The lock again: the call goes on, ends with the error of the read or of a
\* cursor that another call has moved, or feeds its batch to the workflow
Back(u) ==
    /\ at[u] = "back" /\ lock = Free
    /\ batch' = [batch EXCEPT ![u] = NoBatch]
    /\ UNCHANGED <<stop, doing, expired, calls>>
    /\ LET b == batch[u] IN
       \/ faults < MaxFaults /\ faults' = faults + 1 /\ Returns(u) /\ UNCHANGED <<cur, wf, deb, kinds>>
       \/ /\ stop \/ ~Waiting
          /\ at' = [at EXCEPT ![u] = "loop"] /\ lock' = u
          /\ UNCHANGED <<cur, wf, deb, kinds, faults>>
       \/ ~stop /\ Waiting /\ ~Fits(b) /\ Refused(u) /\ UNCHANGED cur
       \/ /\ ~stop /\ Waiting /\ Fits(b)
          /\ cur' = b.to
          /\ IF Failed
             THEN at' = [at EXCEPT ![u] = "loop"] /\ lock' = u /\ UNCHANGED <<wf, deb, kinds, faults>>
             ELSE LET nav == Consumed(b)
                  IN  Execute(u, nav, b.to, ConsumeEffect(b), StatusFor(nav), "loop")

Expire(u) ==
    /\ at[u] \in {"loop", "read", "back"} /\ doing[u] = "navigate" /\ u \notin expired
    /\ expired' = expired \cup {u}
    /\ UNCHANGED <<lock, cur, stop, wf, kinds, deb, at, doing, batch, calls, faults>>

Happens(k) ==
    /\ deb = "running" /\ Latest < MaxEvents
    /\ kinds' = Append(kinds, k)
    /\ deb' = CASE k \in {"match", "pause"} -> "paused" [] k = "end" -> "idle" [] OTHER -> deb
    /\ UNCHANGED <<lock, cur, stop, wf, at, doing, batch, expired, calls, faults>>

-----------------------------------------------------------------------------

Step(u) ==
    Navigate(u) \/ Cancel(u) \/ Events(u) \/ Reset(u) \/ Loop(u) \/ Read(u) \/ Back(u)

Next ==
    \/ \E u \in Users : Step(u) \/ Expire(u) \/ \E c \in Call : Begin(u, c)
    \/ \E k \in Kind : Happens(k)

\* Threads run and deadlines pass; the lock need not be fair, as calls are few
Fairness == \A u \in Users : WF_vars(Step(u)) /\ WF_vars(Expire(u))

Spec == Init /\ [][Next]_vars /\ Fairness

-----------------------------------------------------------------------------
(* Properties *)

(* The workflow and the session's event cursor stay together through every  *)
(* interleaving of the calls that move them, unless the workflow has failed *)
(* (service.py:2434): otherwise each later batch would be refused.          *)
CursorsAgree == Failed \/ wf.lcur = cur

(* A navigation stops at the first event of its pattern after the place     *)
(* where it began, however many calls read events meanwhile, and within its *)
(* budget (navigation.py:204).                                              *)
StopsAtFirst ==
    wf.nav.st = "matched" =>
        /\ kinds[wf.nav.hit] = "match" /\ wf.nav.hit > wf.nav.from
        /\ \A n \in wf.nav.from + 1 .. wf.nav.hit - 1 : kinds[n] \notin {"match", "end"}

(* Every call of the workflow ends: a navigation that is neither matched    *)
(* nor cancelled ends by its deadline (service.py:2550).                    *)
EveryCallEnds == []<>(\A u \in Users : at[u] = "idle")
=============================================================================
