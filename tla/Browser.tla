------------------------------ MODULE Browser ------------------------------
(***************************************************************************)
(* The browser of a web session (WebBackend, with web_open, web_close and  *)
(* the close of the session around it).  Each open has a thread of its     *)
(* own, _Runner, that starts a driver process and then does the calls of   *)
(* the session one after another; a caller waits for its call up to a      *)
(* deadline, gives up, and the thread goes on or stays stuck for good.     *)
(***************************************************************************)
EXTENDS Integers, Sequences, FiniteSets

CONSTANTS
    Callers,
    MaxCalls,   \* bound: calls in all
    MaxOpens    \* bound: opens, each with a runner and a driver of its own

VARIABLES
    at,       \* where each caller is in its call
    mine,     \* the open it works on, None when it has none
    calls,    \* calls made
    closing,  \* the session is closing or closed
    slot,     \* _sessions: nothing, the reservation of an open, or its handle
    opens,    \* opens made
    queue,    \* what each runner has to do: by whom and what
    wedged,   \* runners whose caller gave up
    shut,     \* runners that were told to end
    driver,   \* the driver process of each open
    reaped    \* opens whose pid_box or handle was reaped

vars == <<at, mine, calls, closing, slot, opens, queue, wedged, shut, driver, reaped>>

None  == 0
Opens == 1..MaxOpens
Empty == [what |-> "none", of |-> None]

TypeOK ==
    /\ slot.what \in {"none", "opening", "live"} /\ slot.of \in Opens \cup {None}
    /\ \A n \in Opens : driver[n] \in {"none", "up", "dead"}
    /\ wedged \subseteq Opens /\ shut \subseteq Opens /\ reaped \subseteq Opens

Init ==
    /\ at = [c \in Callers |-> "idle"] /\ mine = [c \in Callers |-> None]
    /\ calls = 0 /\ closing = FALSE /\ slot = Empty /\ opens = 0
    /\ queue = [n \in Opens |-> <<>>] /\ driver = [n \in Opens |-> "none"]
    /\ wedged = {} /\ shut = {} /\ reaped = {}

At(c, place)   == at[c] = place
GoTo(c, place) == at' = [at EXCEPT ![c] = place]
Done(c)        == GoTo(c, "idle") /\ mine' = [mine EXCEPT ![c] = None]
Takes(c, n)    == mine' = [mine EXCEPT ![c] = n]

runners == <<queue, wedged, shut, driver, reaped>>

Puts(n, c, what) == queue' = [queue EXCEPT ![n] = Append(@, [by |-> c, what |-> what])]

\* shutdown(): the runner ends after what is queued before
ShutsDown(n) == shut' = shut \cup {n} /\ queue' = [queue EXCEPT ![n] = Append(@, [by |-> None, what |-> "end"])]

\* _reap_driver_pid: kills the driver, when there is one to know of
Reaps(n) ==
    /\ reaped' = reaped \cup {n}
    /\ driver' = IF driver[n] = "up" THEN [driver EXCEPT ![n] = "dead"] ELSE driver

-----------------------------------------------------------------------------
(* Calls begin *)

Begin(c, place) ==
    /\ At(c, "idle") /\ calls < MaxCalls /\ calls' = calls + 1 /\ GoTo(c, place)
    /\ UNCHANGED <<mine, closing, slot, opens, runners>>

Open(c) ==
    /\ ~closing /\ opens + Cardinality({d \in Callers : At(d, "reserve")}) < MaxOpens
    /\ Begin(c, "reserve")

Use(c)   == Begin(c, "use")
Close(c) == Begin(c, "pop")

\* _close_session marks the session first
CloseSession(c) ==
    /\ At(c, "idle") /\ ~closing /\ closing' = TRUE /\ GoTo(c, "pop")
    /\ UNCHANGED <<mine, calls, slot, opens, runners>>

-----------------------------------------------------------------------------
(* WebBackend.open and web_open *)

Reserve(c) ==
    /\ At(c, "reserve") /\ UNCHANGED <<calls, closing, wedged, shut, driver, reaped>>
    /\ \/ slot # Empty /\ Done(c) /\ UNCHANGED <<slot, opens, queue>>
       \/ /\ slot = Empty /\ opens' = opens + 1
          /\ slot' = [what |-> "opening", of |-> opens'] /\ Takes(c, opens')
          /\ Puts(opens', c, "build") /\ GoTo(c, "building")

\* runner.call gave up, at its deadline
GivesUp(c, from, to) ==
    /\ At(c, from) /\ wedged' = wedged \cup {mine[c]} /\ GoTo(c, to)
    /\ UNCHANGED <<mine, calls, closing, slot, opens, queue, shut, driver, reaped>>

BuildLate(c) == GivesUp(c, "building", "abandon")

\* The runner is told to end, the driver is killed, the reservation dropped
Abandon(c) ==
    /\ At(c, "abandon") /\ ShutsDown(mine[c]) /\ GoTo(c, "reap")
    /\ UNCHANGED <<mine, calls, closing, slot, opens, wedged, driver, reaped>>

Reap(c) ==
    /\ At(c, "reap") /\ Reaps(mine[c]) /\ GoTo(c, "release")
    /\ UNCHANGED <<mine, calls, closing, slot, opens, queue, wedged, shut>>

\* What if an open that fails dropped whatever holds the slot by then?
ReleaseAny(c) ==
    /\ At(c, "release") /\ Done(c) /\ slot' = Empty
    /\ UNCHANGED <<calls, closing, opens, runners>>

Release(c) ==
    /\ At(c, "release") /\ Done(c)
    /\ slot' = IF slot.of = mine[c] THEN Empty ELSE slot
    /\ UNCHANGED <<calls, closing, opens, runners>>

StillReserved(c) == slot = [what |-> "opening", of |-> mine[c]]

\* The handle takes the place of its reservation, or is ended
Place(c) ==
    /\ At(c, "place") /\ UNCHANGED <<calls, closing, opens, wedged>>
    /\ \/ /\ StillReserved(c) /\ slot' = [what |-> "live", of |-> mine[c]]
          /\ GoTo(c, "recheck") /\ UNCHANGED <<mine, queue, shut, driver, reaped>>
       \/ /\ ~StillReserved(c) /\ ShutsDown(mine[c]) /\ Reaps(mine[c]) /\ Done(c)
          /\ UNCHANGED slot

\* web_open looks at the session again, and undoes the open
Recheck(c) ==
    /\ At(c, "recheck")
    /\ IF closing THEN GoTo(c, "pop") /\ Takes(c, None) ELSE Done(c)
    /\ UNCHANGED <<calls, closing, slot, opens, runners>>

-----------------------------------------------------------------------------
(* WebBackend.close, and the calls of a live session *)

Pop(c) ==
    /\ At(c, "pop") /\ slot' = Empty /\ UNCHANGED <<calls, closing, opens, runners>>
    /\ IF slot.what = "live" THEN GoTo(c, "ending") /\ Takes(c, slot.of) ELSE Done(c)

\* A runner that is not wedged closes its browser itself
Ending(c) ==
    /\ At(c, "ending") /\ UNCHANGED <<mine, calls, closing, slot, opens, wedged, shut, driver, reaped>>
    /\ IF mine[c] \in wedged THEN GoTo(c, "end") /\ UNCHANGED queue
       ELSE Puts(mine[c], c, "close") /\ GoTo(c, "closing")

CloseLate(c) == GivesUp(c, "closing", "end")

\* The driver of a wedged one is killed
End(c) ==
    /\ At(c, "end") /\ ShutsDown(mine[c]) /\ Done(c)
    /\ IF mine[c] \in wedged THEN Reaps(mine[c]) ELSE UNCHANGED <<driver, reaped>>
    /\ UNCHANGED <<calls, closing, slot, opens, wedged>>

\* _get, then runner.call refuses or queues
GetHandle(c) ==
    /\ At(c, "use") /\ UNCHANGED <<calls, closing, slot, opens, runners>>
    /\ IF slot.what = "live" THEN GoTo(c, "call") /\ Takes(c, slot.of) ELSE Done(c)

Call(c) ==
    /\ At(c, "call") /\ UNCHANGED <<calls, closing, slot, opens, wedged, shut, driver, reaped>>
    /\ IF mine[c] \in wedged \cup shut THEN Done(c) /\ UNCHANGED queue
       ELSE Puts(mine[c], c, "call") /\ GoTo(c, "calling") /\ UNCHANGED mine

CallLate(c) == GivesUp(c, "calling", "done")

CallDone(c) ==
    /\ At(c, "done") /\ Done(c) /\ UNCHANGED <<calls, closing, slot, opens, runners>>

-----------------------------------------------------------------------------
(* A runner: the work at the head of its queue *)

Head1(n, what) == queue[n] # <<>> /\ Head(queue[n]).what = what

\* The caller waits for the call at the head of the queue
Waits(n, place) ==
    LET c == Head(queue[n]).by IN c # None /\ mine[c] = n /\ at[c] = place

Answers(n, place, to) ==
    /\ queue' = [queue EXCEPT ![n] = Tail(@)]
    /\ at' = IF Waits(n, place) THEN [at EXCEPT ![Head(queue[n]).by] = to] ELSE at

callers == <<mine, calls, closing, slot, opens>>

DriverStarts(n) ==
    /\ Head1(n, "build") /\ driver[n] = "none" /\ driver' = [driver EXCEPT ![n] = "up"]
    /\ UNCHANGED <<at, callers, queue, wedged, shut, reaped>>

Built(n) ==
    /\ Head1(n, "build") /\ driver[n] = "up" /\ Answers(n, "building", "place")
    /\ UNCHANGED <<callers, wedged, shut, driver, reaped>>

\* The launch or the first page fails: what was started is stopped
BuildFails(n) ==
    /\ Head1(n, "build") /\ Answers(n, "building", "abandon")
    /\ driver' = [driver EXCEPT ![n] = "dead"] /\ UNCHANGED <<callers, wedged, shut, reaped>>

Serves(n) ==
    /\ Head1(n, "call") /\ Answers(n, "calling", "done")
    /\ UNCHANGED <<callers, wedged, shut, driver, reaped>>

\* context, browser and playwright are closed; a failure means it is gone
Closes(n) ==
    /\ Head1(n, "close") /\ Answers(n, "closing", "end")
    /\ driver' = [driver EXCEPT ![n] = "dead"] /\ UNCHANGED <<callers, wedged, shut, reaped>>

DriverDies(n) ==
    /\ driver[n] = "up" /\ driver' = [driver EXCEPT ![n] = "dead"]
    /\ UNCHANGED <<at, callers, queue, wedged, shut, reaped>>

-----------------------------------------------------------------------------

Step(c) ==
    \/ Reserve(c) \/ BuildLate(c) \/ Abandon(c) \/ Reap(c) \/ Release(c) \/ Place(c) \/ Recheck(c)
    \/ Pop(c) \/ Ending(c) \/ CloseLate(c) \/ End(c)
    \/ GetHandle(c) \/ Call(c) \/ CallLate(c) \/ CallDone(c)

Runner(n) == DriverStarts(n) \/ Built(n) \/ BuildFails(n) \/ Serves(n) \/ Closes(n)

Next ==
    \/ \E c \in Callers : Open(c) \/ Use(c) \/ Close(c) \/ CloseSession(c) \/ Step(c)
    \/ \E n \in Opens : Runner(n) \/ DriverDies(n)

\* Deadlines pass; a runner may stay stuck in a call for good
Spec == Init /\ [][Next]_vars /\ \A c \in Callers : WF_vars(Step(c))

-----------------------------------------------------------------------------
(* Properties *)

Holds(c, n) == mine[c] = n

(* A driver that runs is the one of the session, or of a call in progress  *)
(* that will place or end it.  The exception is one that came up only      *)
(* after its opener had reaped what it knew of (client.py:438).            *)
DriversHeld ==
    \A n \in Opens :
        driver[n] = "up" /\ ~(n \in reaped) =>
            slot = [what |-> "live", of |-> n] \/ \E c \in Callers : Holds(c, n)

(* Once the session is closed and its calls have ended, no browser and no  *)
(* reservation of it is left (service_web.py:99).                          *)
ClosedHasNone == closing /\ (\A c \in Callers : At(c, "idle")) => slot = Empty

CallsEnd == []<>(\A c \in Callers : At(c, "idle"))
=============================================================================
