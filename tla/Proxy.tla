------------------------------- MODULE Proxy -------------------------------
(***************************************************************************)
(* The intercepting proxies (ProxyBackend, with proxy_start, proxy_stop    *)
(* and the close of a session): each start has a thread of its own that    *)
(* runs mitmproxy, and the caller knows that it is up only by connecting   *)
(* to its port.  All sessions here ask for the same port.                  *)
(***************************************************************************)
EXTENDS Integers, FiniteSets

CONSTANTS
    Callers,
    Sessions,
    MaxCalls,    \* bound: calls in all
    MaxStarts    \* bound: instances

VARIABLES
    at,        \* where each caller is in its call
    mine,      \* the session of its call and the instance it works on
    calls,     \* calls made
    closing,   \* the sessions that are closing or closed
    slot,      \* _instances: the instance of each session
    made,      \* instances made
    thread,    \* the thread of each instance
    master,    \* _master and _loop of each: set by its thread, dropped by a stop
    port,      \* the instance that listens, None when there is none
    left       \* instances whose thread outlasted the wait of a stop

vars == <<at, mine, calls, closing, slot, made, thread, master, port, left>>

None == 0
Made == 1..MaxStarts
Idle == [for |-> None, of |-> None]

TypeOK ==
    /\ closing \subseteq Sessions /\ left \subseteq Made /\ port \in Made \cup {None}
    /\ \A s \in Sessions : slot[s] \in Made \cup {None}
    /\ \A n \in Made : thread[n] \in {"none", "begun", "built", "serving", "ending", "gone"}

Init ==
    /\ at = [c \in Callers |-> "idle"] /\ mine = [c \in Callers |-> Idle] /\ calls = 0
    /\ closing = {} /\ slot = [s \in Sessions |-> None] /\ made = 0
    /\ thread = [n \in Made |-> "none"] /\ master = [n \in Made |-> FALSE]
    /\ port = None /\ left = {}

At(c, place)   == at[c] = place
GoTo(c, place) == at' = [at EXCEPT ![c] = place]
Done(c)        == GoTo(c, "idle") /\ mine' = [mine EXCEPT ![c] = Idle]
For(c)         == mine[c].for
Of(c)          == mine[c].of

proxies == <<thread, master, port, left>>

-----------------------------------------------------------------------------
(* Calls begin *)

Begin(c, s, place) ==
    /\ At(c, "idle") /\ GoTo(c, place) /\ mine' = [mine EXCEPT ![c].for = s]
    /\ UNCHANGED <<slot, made, proxies>>

Counted == calls < MaxCalls /\ calls' = calls + 1 /\ UNCHANGED closing

Start(c, s) ==
    /\ s \notin closing /\ made + Cardinality({d \in Callers : At(d, "reserve")}) < MaxStarts
    /\ Counted /\ Begin(c, s, "reserve")

Stop(c, s) == Counted /\ Begin(c, s, "pop")

\* _close_session marks the session first
Close(c, s) ==
    /\ s \notin closing /\ closing' = closing \cup {s} /\ UNCHANGED calls /\ Begin(c, s, "pop")

-----------------------------------------------------------------------------
(* ProxyBackend.start and proxy_start *)

Reserve(c) ==
    /\ At(c, "reserve") /\ UNCHANGED <<calls, closing, proxies>>
    /\ \/ (\E s \in Sessions : slot[s] # None) /\ Done(c) /\ UNCHANGED <<slot, made>>
       \/ /\ \A s \in Sessions : slot[s] = None
          /\ made' = made + 1 /\ slot' = [slot EXCEPT ![For(c)] = made']
          /\ mine' = [mine EXCEPT ![c].of = made'] /\ GoTo(c, "probe")

\* A port that is taken is refused, else the thread begins
Probe(c) ==
    /\ At(c, "probe") /\ UNCHANGED <<mine, calls, closing, slot, made, master, port, left>>
    /\ IF port # None THEN GoTo(c, "fail") /\ UNCHANGED thread
       ELSE GoTo(c, "wait") /\ thread' = [thread EXCEPT ![Of(c)] = "begun"]

\* The port accepts, whoever listens; or the thread is over; or it is late
Waited(c) ==
    /\ At(c, "wait") /\ UNCHANGED <<mine, calls, closing, slot, made, proxies>>
    /\ \/ port # None /\ GoTo(c, "recheck")
       \/ thread[Of(c)] \in {"ending", "gone"} /\ GoTo(c, "fail")
       \/ GoTo(c, "late")

\* The reservation is dropped, the instance stopped
Fail(c) ==
    /\ At(c, "fail") /\ GoTo(c, "stop")
    /\ slot' = IF slot[For(c)] = Of(c) THEN [slot EXCEPT ![For(c)] = None] ELSE slot
    /\ UNCHANGED <<mine, calls, closing, made, proxies>>

\* What if a start that found its port accepting did not look again?
NotLooked(c) == TRUE

StillReserved(c) == slot[For(c)] = Of(c)

Recheck(c) ==
    /\ At(c, "recheck") /\ GoTo(c, IF StillReserved(c) THEN "again" ELSE "stop")
    /\ UNCHANGED <<mine, calls, closing, slot, made, proxies>>

\* proxy_start looks at the session again, and undoes the start
Again(c) ==
    /\ At(c, "again") /\ UNCHANGED <<calls, closing, slot, made, proxies>>
    /\ IF For(c) \in closing THEN GoTo(c, "pop") /\ mine' = [mine EXCEPT ![c].of = None]
       ELSE Done(c)

-----------------------------------------------------------------------------
(* ProxyBackend.stop, and stop of an instance *)

Pop(c) ==
    /\ At(c, "pop") /\ UNCHANGED <<calls, closing, made, proxies>>
    /\ slot' = [slot EXCEPT ![For(c)] = None]
    /\ IF slot[For(c)] = None THEN Done(c)
       ELSE GoTo(c, "stop") /\ mine' = [mine EXCEPT ![c].of = slot[For(c)]]

\* _drain_proxy_servers: a master that is known and serves leaves its port
Drain(c, from, to) ==
    /\ At(c, from) /\ GoTo(c, to) /\ UNCHANGED <<mine, calls, closing, slot, made, thread, master, left>>
    /\ \/ port' = IF master[Of(c)] /\ port = Of(c) THEN None ELSE port
       \/ UNCHANGED port

\* The wait for the thread ends, with it or without, and the master is
\* dropped
Joined(c) ==
    /\ master' = [master EXCEPT ![Of(c)] = FALSE]
    /\ left' = IF thread[Of(c)] \in {"none", "gone"} THEN left ELSE left \cup {Of(c)}
    /\ UNCHANGED <<calls, closing, slot, made, thread, port>>

StopInstance(c) == Drain(c, "stop", "join")
Join(c)         == At(c, "join") /\ Joined(c) /\ Done(c)

\* A start that is late stops its instance before it fails
StopLate(c) == Drain(c, "late", "joinLate")
JoinLate(c) == At(c, "joinLate") /\ Joined(c) /\ GoTo(c, "fail") /\ UNCHANGED mine

-----------------------------------------------------------------------------
(* The thread of an instance *)

Moves(n, from, to) ==
    /\ thread[n] = from /\ thread' = [thread EXCEPT ![n] = to]
    /\ UNCHANGED <<at, mine, calls, closing, slot, made, left>>

Builds(n) == Moves(n, "begun", "built") /\ master' = [master EXCEPT ![n] = TRUE] /\ UNCHANGED port

\* Another listener makes the bind fail
Listens(n) ==
    /\ UNCHANGED master
    /\ \/ port = None /\ port' = n /\ Moves(n, "built", "serving")
       \/ port # None /\ UNCHANGED port /\ Moves(n, "built", "ending")

\* An error, or the shutdown that a stop asked for
Fails(n) == \E from \in {"begun", "built", "serving"} : Moves(n, from, "ending") /\ UNCHANGED <<master, port>>

\* _shutdown_loop
Ends(n) ==
    /\ Moves(n, "ending", "gone") /\ port' = (IF port = n THEN None ELSE port) /\ UNCHANGED master

-----------------------------------------------------------------------------

Step(c) ==
    \/ Reserve(c) \/ Probe(c) \/ Waited(c) \/ Fail(c) \/ Recheck(c) \/ Again(c)
    \/ Pop(c) \/ StopInstance(c) \/ Join(c) \/ StopLate(c) \/ JoinLate(c)

Next ==
    \/ \E c \in Callers, s \in Sessions : Start(c, s) \/ Stop(c, s) \/ Close(c, s)
    \/ \E c \in Callers : Step(c)
    \/ \E n \in Made : Builds(n) \/ Listens(n) \/ Fails(n) \/ Ends(n)

\* Deadlines pass; a thread may hang for good
Spec == Init /\ [][Next]_vars /\ \A c \in Callers : WF_vars(Step(c))

-----------------------------------------------------------------------------
(* Properties *)

(* A proxy that runs is the one of a session or of a call that will place  *)
(* or stop it: a start that was stopped meanwhile, by a caller that found  *)
(* no thread to wait for, stops it itself (client.py:600).  The exception  *)
(* is a thread that outlasted the ten seconds a stop waits for it.         *)
ProxiesHeld ==
    \A n \in Made :
        ~(thread[n] \in {"none", "gone"} \/ n \in left) =>
            \/ \E s \in Sessions : slot[s] = n
            \/ \E c \in Callers : Of(c) = n

(* Once a session is closed and its calls have ended, it has no proxy and  *)
(* no reservation, which would refuse the port to every other session.     *)
ClosedHasNone ==
    \A s \in closing : (\A c \in Callers : For(c) # s) => slot[s] = None

CallsEnd == []<>(\A c \in Callers : At(c, "idle"))
=============================================================================
