----------------------------- MODULE IdaWorker -----------------------------
(***************************************************************************)
(* The connection between the service and one IDA worker: a process that   *)
(* reads requests from its standard input, one line each, and writes its   *)
(* answers, and whatever else IDA prints as JSON, to its standard output.  *)
(* A thread of the service moves what it writes to a bounded queue; the    *)
(* caller that holds the lock takes messages from there until its own      *)
(* answer comes.  A call that times out kills the worker.                  *)
(*                                                                         *)
(* Edits live in the database the worker has open and are saved when it is *)
(* closed; the files of a worker that was killed are discarded.            *)
(***************************************************************************)
EXTENDS Integers, Sequences, SequencesExt, FiniteSets

CONSTANTS
    Callers,   \* threads that use the client
    MaxOps,    \* bound: how often they use it
    Batches,   \* the calls, by number, whose request is a batch of edits
    MaxNoise,  \* bound: messages that answer nothing
    Capacity   \* _MAX_PENDING_WORKER_MESSAGES

VARIABLES
    holder,    \* who holds _request_lock
    closed,    \* _closed
    at, call, op, started, tickets,   \* the callers, as in XdbgRpc
    messages,  \* _messages; None, the end of the output, is not modelled
    overflow,  \* _message_overflow
    alive,     \* the worker process runs
    input,     \* its standard input: the requests it has not read yet
    work,      \* the request it works on
    edits,     \* requests whose effect the open database has, in order: a change,
               \* or part of one, or what was found there already
    saved,     \* requests whose changes were saved
    noise,
    said,      \* history: what the worker answered to each call
    told       \* what the caller of each call was told

client == <<holder, closed, at, call, op, started, tickets, told>>
worker == <<alive, work, edits, saved, said>>
vars   == <<client, messages, overflow, worker, input, noise>>

Free    == "free"
Ops     == {"request", "close", "terminate"}
Answers == {"nothing", "refused", "ok", "failed", "unsure", "closed"}
NoWork  == [call |-> 0, close |-> FALSE]

TypeOK ==
    /\ holder \in Callers \cup {Free} /\ closed \in BOOLEAN /\ alive \in BOOLEAN
    /\ at \in [Callers -> {"idle", "lock", "await", "exit"}]
    /\ op \in [Callers -> Ops] /\ call \in [Callers -> 0..MaxOps]
    /\ Len(messages) <= Capacity /\ overflow \in BOOLEAN
    /\ Range(edits) \subseteq 1..MaxOps /\ saved \subseteq 1..MaxOps
    /\ told \in [1..MaxOps -> Answers] /\ said \in [1..MaxOps -> {"nothing", "ok", "failed"}]

Init ==
    /\ holder = Free /\ closed = FALSE
    /\ at = [c \in Callers |-> "idle"] /\ op = [c \in Callers |-> "request"]
    /\ call = [c \in Callers |-> 0] /\ started = 0 /\ tickets = 0
    /\ messages = <<>> /\ overflow = FALSE
    /\ alive = TRUE /\ input = <<>> /\ work = NoWork
    /\ edits = <<>> /\ saved = {} /\ noise = 0
    /\ told = [n \in 1..MaxOps |-> "nothing"] /\ said = [n \in 1..MaxOps |-> "nothing"]

-----------------------------------------------------------------------------
(* The client *)

\* terminate() takes no lock
Kill == alive' = FALSE /\ work' = NoWork /\ UNCHANGED <<edits, saved, said>>

Call(c, o) ==
    /\ at[c] = "idle" /\ started < MaxOps /\ started' = started + 1
    /\ op' = [op EXCEPT ![c] = o]
    /\ IF o = "terminate" THEN closed' = TRUE /\ Kill /\ UNCHANGED at
       ELSE at' = [at EXCEPT ![c] = "lock"] /\ UNCHANGED <<closed, worker>>
    /\ UNCHANGED <<holder, call, tickets, told, messages, overflow, input, noise>>

\* Leaves the lock, having told the caller something
Leave(c, n, what) ==
    at' = [at EXCEPT ![c] = "idle"] /\ holder' = Free /\ told' = [told EXCEPT ![n] = what]

Enter(c) ==
    /\ at[c] = "lock" /\ holder = Free
    /\ tickets' = tickets + 1 /\ call' = [call EXCEPT ![c] = tickets + 1]
    /\ UNCHANGED <<op, started, messages, overflow, worker, noise>>
    /\ \/ /\ closed \/ (op[c] = "request" /\ ~alive)
          /\ Leave(c, tickets + 1, "refused") /\ UNCHANGED <<closed, input>>
       \/ /\ ~closed /\ alive
          /\ input' = Append(input, [call |-> tickets + 1, close |-> op[c] = "close"])
          /\ at' = [at EXCEPT ![c] = "await"] /\ holder' = c /\ UNCHANGED <<closed, told>>
       \/ /\ ~closed /\ ~alive /\ op[c] = "close"
          /\ at' = [at EXCEPT ![c] = "exit"] /\ holder' = c /\ UNCHANGED <<closed, told, input>>

\* An exchange ended: request() leaves, close() goes on to its `finally`
Ended(c, what) ==
    IF op[c] = "close"
    THEN /\ at' = [at EXCEPT ![c] = "exit"] /\ UNCHANGED holder
         /\ told' = [told EXCEPT ![call[c]] = IF what = "ok" THEN "closed" ELSE what]
    ELSE Leave(c, call[c], what)

\* What if the first answer that comes were taken for one's own?
AnyAnswer(c, m) == m.call # 0

\* The message has the number of this request
Mine(c, m) == m.call = call[c]

\* _receive: the answer, a message that is skipped, a window, an exit, or a
\* deadline or an overflow, after which the worker is killed
Receive(c) ==
    /\ at[c] = "await"
    /\ UNCHANGED <<call, op, started, tickets, overflow, input, noise>>
    /\ \/ /\ ~overflow /\ messages # <<>> /\ messages' = Tail(messages)
          /\ UNCHANGED <<closed, worker>>
          /\ IF Mine(c, Head(messages))
             THEN Ended(c, IF Head(messages).ok THEN "ok" ELSE "failed")
             ELSE UNCHANGED <<at, holder, told>>
       \/ /\ \/ alive                                       \* a window is open
             \/ ~overflow /\ ~alive /\ messages = <<>>      \* the worker exited
          /\ Ended(c, "unsure") /\ UNCHANGED <<closed, worker, messages>>
       \/ \* overflow, or the deadline
          closed' = TRUE /\ Kill /\ Ended(c, "unsure") /\ UNCHANGED messages

\* The end of close(): a worker that does not exit in time is killed
Exit(c) ==
    /\ at[c] = "exit" /\ at' = [at EXCEPT ![c] = "idle"] /\ holder' = Free
    /\ closed' = TRUE /\ Kill
    /\ UNCHANGED <<call, op, started, tickets, told, messages, overflow, input, noise>>

-----------------------------------------------------------------------------
(* The worker, and the thread that reads its output *)

Emit(m) ==
    IF Len(messages) < Capacity THEN messages' = Append(messages, m) /\ UNCHANGED overflow
    ELSE overflow' = TRUE /\ UNCHANGED messages

Read ==
    /\ alive /\ work = NoWork /\ input # <<>>
    /\ work' = Head(input) /\ input' = Tail(input)
    /\ UNCHANGED <<client, messages, overflow, alive, edits, saved, said, noise>>

\* The worker answers the request it works on
Says(ok) ==
    /\ said' = [said EXCEPT ![work.call] = IF ok THEN "ok" ELSE "failed"]
    /\ Emit([call |-> work.call, ok |-> ok])

\* An edit that is reported was made.  One that is said to have failed may have
\* changed the database too: a function that was added and is not found, bytes
\* that were patched and are not read back.  An item of a batch that fails is
\* one result of a batch that succeeds, and an item that is malformed fails the
\* batch after the items before it were carried out.
Work ==
    /\ alive /\ work.call # 0 /\ ~work.close /\ work' = NoWork
    /\ \E ok, made \in BOOLEAN :
         /\ ok /\ work.call \notin Batches => made
         /\ edits' = IF made THEN Append(edits, work.call) ELSE edits
         /\ Says(ok)
    /\ UNCHANGED <<client, alive, saved, input, noise>>

\* What if the database were closed without packing it?
Discarded == saved

Packed == saved \cup Range(edits)

\* A close request saves the database, and the worker exits
Close ==
    /\ alive /\ work.close
    /\ saved' = Packed /\ Says(TRUE)
    /\ alive' = FALSE /\ work' = NoWork
    /\ UNCHANGED <<client, edits, input, noise>>

Die == alive /\ Kill /\ UNCHANGED <<client, messages, overflow, input, noise>>

Noise ==
    /\ alive /\ noise < MaxNoise /\ noise' = noise + 1
    /\ Emit([call |-> 0, ok |-> TRUE])
    /\ UNCHANGED <<client, worker, input>>

-----------------------------------------------------------------------------

Step(c) == Enter(c) \/ Receive(c) \/ Exit(c)

Next ==
    \/ \E c \in Callers : Step(c) \/ \E o \in Ops : Call(c, o)
    \/ Read \/ Work \/ Close \/ Die \/ Noise

Spec == Init /\ [][Next]_vars /\ \A c \in Callers : WF_vars(Step(c))

-----------------------------------------------------------------------------
(* Properties *)

(* An answer belongs to the call that gets it, although calls before it     *)
(* gave up on theirs: a call is told what the worker said of it, a single   *)
(* edit that is told it succeeded was made, one that was refused never      *)
(* reached the worker, and edits are made in the order of the calls         *)
(* (client.py:238).                                                         *)
AnswersMatch ==
    /\ \A n \in 1..MaxOps :
          /\ told[n] \in {"ok", "closed"} => said[n] = "ok"
          /\ told[n] = "failed" => said[n] = "failed"
          /\ told[n] = "ok" /\ n \notin Batches => n \in Range(edits)
          /\ told[n] = "refused" => said[n] = "nothing" /\ n \notin Range(edits)
    /\ \A i, j \in DOMAIN edits : i < j => edits[i] < edits[j]

(* Once a close was answered, every edit made before it is in the saved     *)
(* database, those whose caller had given up included (worker.py:1610).     *)
ClosedIsSaved ==
    (\E n \in 1..MaxOps : told[n] = "closed") => Range(edits) \subseteq saved

(* Every call ends, whatever the worker does or prints (client.py:325).     *)
CallsEnd == []<>(\A c \in Callers : at[c] = "idle")
=============================================================================
