------------------------------ MODULE XdbgRpc ------------------------------
(***************************************************************************)
(* The connection between the service and one x64dbg worker:               *)
(*                                                                         *)
(*   callers   threads of the service in XdbgClient.request, reconnect,    *)
(*             close and terminate, which share one lock and one pipe;     *)
(*   server    the pipe thread of the worker (RpcServer::Run), which       *)
(*             serves one connection at a time;                            *)
(*   main      the debugger's own thread, which runs what the server       *)
(*             queues, one job at a time, whether anybody still waits.     *)
(*                                                                         *)
(* A request is a frame with an identity of its own, so a call that waits  *)
(* for a rebuilt connection sends two (the handshake and itself).  Time    *)
(* is not modelled: every bounded wait may run out at any moment.          *)
(***************************************************************************)
EXTENDS Integers, Sequences, SequencesExt, FiniteSets

CONSTANTS
    Callers,      \* threads that use the client
    MaxOps,       \* how often they use it
    MaxQuestions  \* requests close() may send before it lets the worker go

VARIABLES
    holder,     \* who holds _request_lock
    closed,     \* _closed
    transport,  \* _transport is not None: this end of the pipe is open
    alive,      \* the worker process runs
    at,         \* where each caller is
    call,       \* the call each caller is in, by the order of the lock
    op,         \* which method of the client each caller is in
    asked,      \* questions close() has sent
    sent,       \* identity of the frame each caller waits for; _request_id
    started,    \* operations begun
    tickets,    \* calls that got the lock
    server,     \* where the server thread is
    up,         \* frames on their way to the server
    down,       \* answers on their way to the client
    queue,      \* frames queued as jobs for the main thread
    job,        \* the one it runs
    cancelled,  \* identities of jobs whose deadline passed at the server
    done,       \* identities of jobs the main thread is through with
    effects,    \* calls in the order in which they took effect
    told        \* what the caller of each call was told

client  == <<holder, closed, transport, at, call, op, asked, sent, started, tickets, told>>
worker  == <<server, queue, job, cancelled, done, effects>>
vars    == <<client, alive, up, down, worker>>

Free  == "free"
Ops   == {"request", "reconnect", "close", "terminate"}

\* "call" may change the debuggee; "ask" is a question or stop of close()
Kinds == {"hello", "call", "read", "ask"}

\* "refused" is an error raised before the call itself was sent; "unsure"
\* one raised after, or the worker's own "completion is unknown".
Answers == {"nothing", "refused", "ok", "unsure"}

NoJob == [id |-> 0, kind |-> "read", call |-> 0]

Frame(k, c) == [id |-> sent.last + 1, kind |-> k, call |-> call[c]]

TypeOK ==
    /\ holder \in Callers \cup {Free}
    /\ closed \in BOOLEAN /\ transport \in BOOLEAN /\ alive \in BOOLEAN
    /\ at \in [Callers -> {"idle", "lock", "connect", "hello", "watch", "send",
                           "await hello", "await", "exit"}]
    /\ op \in [Callers -> Ops] /\ call \in [Callers -> Nat]
    /\ server.at \in {"listen", "read", "wait"}
    /\ \A f \in Range(queue) \cup Range(up) \cup {job} : f.kind \in Kinds
    /\ Len(up) <= 1 /\ Len(down) <= 1
    /\ DOMAIN told = 1..MaxOps /\ \A n \in 1..MaxOps : told[n] \in Answers

Init ==
    /\ holder = Free /\ closed = FALSE /\ transport = TRUE /\ alive = TRUE
    /\ at = [c \in Callers |-> "idle"]
    /\ call = [c \in Callers |-> 0]
    /\ op = [c \in Callers |-> "request"]
    /\ asked = 0 /\ started = 0 /\ tickets = 0
    /\ sent = [last |-> 0, of |-> [c \in Callers |-> 0]]
    /\ server = [at |-> "read", auth |-> TRUE, id |-> 0]
    /\ up = <<>> /\ down = <<>> /\ queue = <<>> /\ job = NoJob
    /\ cancelled = {} /\ done = {} /\ effects = <<>>
    /\ told = [n \in 1..MaxOps |-> "nothing"]

-----------------------------------------------------------------------------
(* The client.  Leave is the end of the `with` block, told or raised. *)

Tell(c, what) == told' = IF op[c] = "request" THEN [told EXCEPT ![call[c]] = what] ELSE told

Goto(c, place) == at' = [at EXCEPT ![c] = place]

Leave(c) == Goto(c, "idle") /\ holder' = Free

\* _transport.close() and _transport = None: this end of the pipe is closed;
\* what the worker has not read yet it can still read
HangUp == transport' = FALSE /\ down' = <<>>

Call(c, o) ==
    /\ at[c] = "idle" /\ started < MaxOps
    /\ op' = [op EXCEPT ![c] = o]
    /\ started' = started + 1
    /\ Goto(c, "lock")
    /\ alive' = (alive /\ o # "terminate")   \* terminate() kills before it locks
    /\ UNCHANGED <<holder, closed, transport, call, asked, sent, tickets, told, up, down, worker>>

\* What every method but close() looks at once it has the lock
Unusable == closed \/ ~alive

Locks(c) == at[c] = "lock" /\ holder = Free

Enter(c) ==
    /\ Locks(c)
    /\ tickets' = tickets + 1
    /\ call' = [call EXCEPT ![c] = tickets + 1]
    /\ UNCHANGED <<alive, op, asked, sent, started, up, worker>>
    /\ \/ /\ op[c] \in {"request", "reconnect"} /\ Unusable
          /\ Goto(c, "idle")
          /\ told' = [told EXCEPT ![tickets + 1] = "refused"]
          /\ UNCHANGED <<holder, closed, transport, down>>
       \/ /\ op[c] = "reconnect" /\ ~Unusable /\ transport
          /\ Goto(c, "idle")
          /\ UNCHANGED <<holder, closed, transport, down, told>>
       \/ /\ op[c] \in {"request", "reconnect"} /\ ~Unusable
          /\ op[c] = "reconnect" => ~transport
          /\ holder' = c
          /\ Goto(c, IF transport THEN "watch" ELSE "connect")
          /\ UNCHANGED <<closed, transport, down, told>>
       \/ /\ op[c] = "close" /\ closed
          /\ Goto(c, "idle")
          /\ UNCHANGED <<holder, closed, transport, down, told>>
       \/ /\ op[c] = "close" /\ ~closed
          /\ holder' = c
          /\ Goto(c, IF alive /\ transport THEN "send" ELSE "exit")
          /\ closed' = ~(alive /\ transport)
          /\ UNCHANGED <<transport, down, told>>
       \/ /\ op[c] = "terminate"
          /\ Goto(c, "idle")
          /\ closed' = TRUE
          /\ HangUp
          /\ UNCHANGED <<holder, told>>

\* _connect_transport: the pipe opens only while the server listens
Connect(c) ==
    /\ at[c] = "connect"
    /\ UNCHANGED <<closed, alive, call, op, asked, sent, started, tickets, up, down>>
    /\ \/ /\ alive /\ server.at = "listen"
          /\ transport' = TRUE
          /\ server' = [server EXCEPT !.at = "read", !.auth = FALSE]
          /\ Goto(c, "hello")
          /\ UNCHANGED <<holder, told, queue, job, cancelled, done, effects>>
       \/ /\ Tell(c, "refused") /\ Leave(c)
          /\ UNCHANGED <<transport, worker>>

\* request() refuses while an analyzer window is open
Watch(c) ==
    /\ at[c] = "watch"
    /\ UNCHANGED <<closed, transport, alive, call, op, asked, sent, started, tickets, up, down, worker>>
    /\ \/ Goto(c, "send") /\ UNCHANGED <<holder, told>>
       \/ Tell(c, "refused") /\ Leave(c)

\* An exchange failed.  The handshake's failure is one of a call that was
\* never sent; close() goes on to its `finally`.
Fail(c) ==
    IF op[c] = "close"
    THEN Goto(c, "exit") /\ closed' = TRUE /\ UNCHANGED <<holder, told>>
    ELSE /\ Leave(c) /\ UNCHANGED closed
         /\ Tell(c, IF at[c] \in {"hello", "await hello"} THEN "refused" ELSE "unsure")

Send(c) ==
    /\ at[c] \in {"hello", "send"}
    /\ asked' = IF op[c] = "close" THEN asked + 1 ELSE asked
    /\ UNCHANGED <<alive, call, op, started, tickets, worker>>
    /\ \E k \in IF at[c] = "hello" THEN {"hello"}
                ELSE IF op[c] = "close" THEN {"ask"} ELSE {"call", "read"} :
         \/ /\ alive
            /\ up' = Append(up, Frame(k, c))
            /\ sent' = [last |-> sent.last + 1, of |-> [sent.of EXCEPT ![c] = sent.last + 1]]
            /\ Goto(c, IF k = "hello" THEN "await hello" ELSE "await")
            /\ UNCHANGED <<holder, closed, transport, told, down>>
         \/ /\ up' \in {up} \cup (IF alive THEN {Append(up, Frame(k, c))} ELSE {})
            /\ sent' = [sent EXCEPT !.last = @ + 1]
            /\ HangUp /\ Fail(c)

Awaits(c) == at[c] \in {"await hello", "await"}

\* What if a read had no deadline?
NeverExpires(c) == Awaits(c) /\ ~alive

Expires(c) == Awaits(c)

\* The deadline of an exchange passes, or the pipe breaks: the connection is
\* dropped, so that a late answer meets nobody, and the call is not replayed
Drop(c) ==
    /\ Expires(c)
    /\ HangUp /\ Fail(c)
    /\ UNCHANGED <<alive, call, op, asked, sent, started, tickets, up, worker>>

\* What if the `ok` of an answer were not looked at?
GoodIfMine(c) == Head(down).id = sent.of[c]

Good(c) == Head(down).id = sent.of[c] /\ Head(down).ok

\* An answer arrives.  One with another identity, and an error of the worker,
\* leave the connection as it is, except that a failed handshake closes it.
\* A window seen now raises although the call was carried out.
Answer(c) ==
    /\ Awaits(c) /\ down # <<>>
    /\ UNCHANGED <<alive, call, op, asked, sent, started, tickets, up, worker>>
    /\ \/ /\ Good(c) /\ at[c] = "await hello"
          /\ down' = Tail(down)
          /\ IF op[c] = "request" THEN Goto(c, "watch") /\ UNCHANGED holder ELSE Leave(c)
          /\ UNCHANGED <<closed, transport, told>>
       \/ /\ Good(c) /\ at[c] = "await"
          /\ down' = Tail(down)
          /\ UNCHANGED transport
          /\ CASE op[c] = "request" -> Tell(c, "ok") /\ Leave(c) /\ UNCHANGED closed
               [] op[c] = "close" /\ asked < MaxQuestions ->
                     Goto(c, "send") /\ UNCHANGED <<holder, closed, told>>
               [] OTHER -> Goto(c, "exit") /\ closed' = TRUE /\ UNCHANGED <<holder, told>>
       \/ \* close() learns that nothing is left to stop
          /\ Good(c) /\ op[c] = "close" /\ asked < MaxQuestions
          /\ down' = Tail(down) /\ UNCHANGED transport
          /\ Goto(c, "exit") /\ closed' = TRUE /\ UNCHANGED <<holder, told>>
       \/ \* the error of the worker, or a window opened meanwhile
          /\ Fail(c)
          /\ IF at[c] = "await hello" THEN HangUp
             ELSE down' = Tail(down) /\ UNCHANGED transport

\* The end of close(): the worker is asked to exit, and killed if it does not
Exit(c) ==
    /\ at[c] = "exit"
    /\ alive' = FALSE
    /\ HangUp /\ Leave(c)
    /\ UNCHANGED <<closed, call, op, asked, sent, started, tickets, told, up, worker>>

-----------------------------------------------------------------------------
(* The worker *)

\* The server answers, or finds that the client has gone and listens again
Reply(id, ok) ==
    IF transport
    THEN /\ down' = Append(down, [id |-> id, ok |-> ok])
         /\ server' = [server EXCEPT !.at = "read"]
    ELSE /\ server' = [server EXCEPT !.at = "listen"]
         /\ UNCHANGED down

ReadFrame ==
    /\ alive /\ server.at = "read" /\ up # <<>>
    /\ up' = Tail(up)
    /\ UNCHANGED <<client, alive, job, cancelled, done, effects>>
    /\ LET f == Head(up) IN
       \/ /\ f.kind = "hello" /\ ~server.auth
          /\ IF transport
             THEN /\ down' = Append(down, [id |-> f.id, ok |-> TRUE])
                  /\ server' = [server EXCEPT !.auth = TRUE]
             ELSE server' = [server EXCEPT !.at = "listen"] /\ UNCHANGED down
          /\ UNCHANGED queue
       \/ /\ f.kind # "hello" /\ ~server.auth      \* authentication_required
          /\ Reply(f.id, FALSE)
          /\ UNCHANGED queue
       \/ /\ f.kind = "read" /\ server.auth        \* events.read, rpc.ping
          /\ Reply(f.id, TRUE)
          /\ UNCHANGED queue
       \/ /\ f.kind \in {"call", "ask"} /\ server.auth   \* Schedule
          /\ queue' = Append(queue, f)
          /\ server' = [server EXCEPT !.at = "wait", !.id = f.id]
          /\ UNCHANGED down

\* The read fails: the client is gone and nothing is left to read
LoseClient ==
    /\ alive /\ server.at = "read" /\ up = <<>> /\ ~transport
    /\ server' = [server EXCEPT !.at = "listen"]
    /\ UNCHANGED <<client, alive, up, down, queue, job, cancelled, done, effects>>

JobDone ==
    /\ alive /\ server.at = "wait" /\ server.id \in done
    /\ Reply(server.id, TRUE)
    /\ UNCHANGED <<client, alive, up, queue, job, cancelled, done, effects>>

DispatchTimeout ==
    /\ alive /\ server.at = "wait" /\ server.id \notin done
    /\ cancelled' = cancelled \cup {server.id}
    /\ Reply(server.id, FALSE)
    /\ UNCHANGED <<client, alive, up, queue, job, done, effects>>

\* ExecuteOnMainThread: a job is skipped only if it was cancelled before it began
MainTakes ==
    /\ alive /\ job = NoJob /\ queue # <<>>
    /\ queue' = Tail(queue)
    /\ IF Head(queue).id \in cancelled
       THEN done' = done \cup {Head(queue).id} /\ UNCHANGED job
       ELSE job' = Head(queue) /\ UNCHANGED done
    /\ UNCHANGED <<client, alive, up, down, server, cancelled, effects>>

MainFinishes ==
    /\ alive /\ job # NoJob
    /\ job' = NoJob
    /\ done' = done \cup {job.id}
    /\ effects' = IF job.kind = "call" THEN Append(effects, job.call) ELSE effects
    /\ UNCHANGED <<client, alive, up, down, server, queue, cancelled>>

Die ==
    /\ alive /\ alive' = FALSE
    /\ UNCHANGED <<client, up, down, worker>>

-----------------------------------------------------------------------------

Step(c) ==
    Enter(c) \/ Connect(c) \/ Watch(c) \/ Send(c) \/ Drop(c) \/ Answer(c) \/ Exit(c)

Next ==
    \/ \E c \in Callers : Step(c) \/ \E o \in Ops : Call(c, o)
    \/ ReadFrame \/ LoseClient \/ JobDone \/ DispatchTimeout
    \/ MainTakes \/ MainFinishes \/ Die

Spec == Init /\ [][Next]_vars /\ \A c \in Callers : WF_vars(Step(c))

-----------------------------------------------------------------------------
(* Properties *)

(* What a caller was told is true: a call that was refused before it was    *)
(* sent has not been and will not be carried out, and one reported as done  *)
(* was, unless it only read (client.py:620, rpc_server.cpp Schedule).       *)
Pending == Range(queue) \cup Range(up) \cup {job}

ToldTheTruth ==
    \A n \in 1..MaxOps :
        /\ told[n] = "refused" => n \notin Range(effects) /\ \A f \in Pending : f.kind = "call" => f.call # n
        /\ told[n] = "ok" => \A f \in Pending : f.kind = "call" => f.call # n

(* A call takes effect at most once, and never after one that got the lock  *)
(* later, although callers stop waiting, connections are rebuilt and the    *)
(* debugger's thread goes on with jobs nobody waits for (client.py:636).    *)
OnceInOrder ==
    /\ \A i, j \in DOMAIN effects : i < j => effects[i] < effects[j]
    /\ \A i \in DOMAIN effects : \A f \in Range(queue) \cup Range(up) \cup {job} :
          f.kind = "call" => effects[i] < f.call

(* Every call of the client ends, whatever the worker does: each wait under *)
(* the lock has a deadline (client.py:1178, client.py:523).  The calls are  *)
(* few, so it is enough that there is always a time when none is under way. *)
CallsEnd == []<>(\A c \in Callers : at[c] = "idle")
=============================================================================
