------------------------------- MODULE Trace -------------------------------
(***************************************************************************)
(* The instruction traces of a session (TraceMixin): a bounded recording   *)
(* the debugger writes to a file of the session, and the state the service *)
(* keeps of it until the file is registered as an artifact with its size   *)
(* and hash.  Calls come from several threads, look at that state before   *)
(* they wait for the lock of the runtime, and may lose their answers while *)
(* the debugger goes on; the debugger may stop by itself, die and be       *)
(* replaced, and the session may be closed meanwhile.                      *)
(***************************************************************************)
EXTENDS Integers

CONSTANTS
    Callers,
    MaxStarts,    \* bound: traces, each with a state and a file of its own
    MaxCalls,     \* bound: calls in all
    MaxWorkers    \* bound: debuggers the session opens

VARIABLES
    at,       \* where each caller is in its call
    call,     \* its operation, the state it works on and the runtime it got
    calls,    \* calls made
    session,  \* state of the session
    runtime,  \* the registered runtime, None when there is none
    lock,     \* runtime.lock of each runtime: who holds it
    cur,      \* TraceStateOwner: the state of the session's last trace
    made,     \* states made
    active,   \* the states the service takes for recording
    file,     \* the file of each state: none, there, registered as an artifact
              \* with its size and hash, or stale: written to after that
    sure,     \* the states registered once nobody could write their file
    worker    \* the debuggers

vars == <<at, call, calls, session, runtime, lock, cur, made, active, file,
          sure, worker>>

service == <<session, runtime, cur, made, active, sure>>

Nobody  == "nobody"
None    == 0
States  == 1..MaxStarts
Workers == 1..MaxWorkers

\* What a debugger records, the path it reports, a start it has not come to
NoWorker == [up |-> FALSE, rec |-> None, path |-> None, late |-> None]
NoCall   == [op |-> "none", of |-> None, rt |-> None, fatal |-> FALSE, safe |-> TRUE]

TypeOK ==
    /\ runtime \in Workers \cup {None} /\ cur \in States \cup {None}
    /\ session \in {"open", "failed", "closing", "closed"}
    /\ active \subseteq States /\ sure \subseteq States
    /\ \A i \in States : file[i] \in {"none", "there", "registered", "stale"}

Init ==
    /\ at = [c \in Callers |-> "idle"] /\ call = [c \in Callers |-> NoCall] /\ calls = 0
    /\ session = "open" /\ runtime = 1 /\ lock = [w \in Workers |-> Nobody]
    /\ cur = None /\ made = 0 /\ active = {} /\ sure = {}
    /\ file = [i \in States |-> "none"]
    /\ worker = [w \in Workers |-> IF w = 1 THEN [NoWorker EXCEPT !.up = TRUE] ELSE NoWorker]

At(c, place)   == at[c] = place
GoTo(c, place) == at' = [at EXCEPT ![c] = place]
Done(c)        == GoTo(c, "idle") /\ call' = [call EXCEPT ![c] = NoCall]
Of(c)          == call[c].of
Rt(c)          == call[c].rt

-----------------------------------------------------------------------------
(* Entering a call: the runtime and, for a stop or a status, the state *)

Enter(c, op) ==
    /\ At(c, "idle") /\ calls < MaxCalls /\ calls' = calls + 1
    /\ session = "open" /\ runtime # None
    /\ op = "start" => made < MaxStarts
    /\ made' = made + (IF op = "start" THEN 1 ELSE 0)
    /\ call' = [call EXCEPT ![c] =
                   [NoCall EXCEPT !.op = op, !.rt = runtime, !.of = IF op = "start" THEN made' ELSE cur]]
    /\ GoTo(c, "lock")
    /\ UNCHANGED <<session, runtime, lock, cur, active, sure, file, worker>>

Registered(i) == file[i] \in {"registered", "stale"}

\* The state of the call is registered, and its recording over
Settled(c) == Of(c) # None /\ Of(c) \notin active /\ Registered(Of(c))

\* A start, and a status of a settled trace, only report that the runtime is
\* gone; any other call goes on as a failed stop does
Lock(c) ==
    /\ At(c, "lock") /\ lock[Rt(c)] = Nobody
    /\ UNCHANGED <<calls, session, runtime, made, sure, file, worker>>
    /\ \/ /\ runtime # Rt(c) /\ UNCHANGED <<lock, cur, active>>
          /\ IF call[c].op = "start" \/ (call[c].op = "status" /\ Settled(c)) THEN Done(c)
             ELSE GoTo(c, "fail") /\ call' = [call EXCEPT ![c].op = "stop"]
       \/ /\ runtime = Rt(c) /\ call[c].op = "start" /\ cur \in active
          /\ Done(c) /\ UNCHANGED <<lock, cur, active>>
       \/ /\ runtime = Rt(c) /\ ~(call[c].op = "start" /\ cur \in active)
          /\ lock' = [lock EXCEPT ![Rt(c)] = c] /\ GoTo(c, "asked") /\ UNCHANGED call
          /\ IF call[c].op = "start"
             THEN cur' = Of(c) /\ active' = active \cup {Of(c)}
             ELSE UNCHANGED <<cur, active>>

-----------------------------------------------------------------------------
(* What the debugger does with a request *)

Recording(w, i) == [worker[w] EXCEPT !.rec = i, !.path = i, !.late = None]
Still(w)        == [worker[w] EXCEPT !.rec = None]

\* Requests are carried out in order: a late start before the next request
Ordered(w) == worker[w].up /\ worker[w].late = None

Worker(w, is) == worker' = [worker EXCEPT ![w] = is]
Began(w, i)   == Worker(w, Recording(w, i)) /\ file' = [file EXCEPT ![i] = "there"]
Unmoved       == UNCHANGED <<worker, file>>

Unlocks(c) == lock' = [lock EXCEPT ![Rt(c)] = Nobody]

\* A request whose answer is lost was carried out, will be, or never is
Lost(c) ==
    \/ Unmoved
    \/ /\ call[c].op = "start" /\ Ordered(Rt(c)) /\ worker[Rt(c)].rec = None
       /\ \/ Began(Rt(c), Of(c))
          \/ Worker(Rt(c), [worker[Rt(c)] EXCEPT !.late = Of(c)]) /\ UNCHANGED file
    \/ /\ call[c].op = "stop" /\ Ordered(Rt(c)) /\ Worker(Rt(c), Still(Rt(c))) /\ UNCHANGED file

Errs(c, fatal) == call' = [call EXCEPT ![c].fatal = fatal]

\* trace.start answered
Started(c) ==
    /\ At(c, "asked") /\ call[c].op = "start" /\ Ordered(Rt(c)) /\ worker[Rt(c)].rec = None
    /\ Began(Rt(c), Of(c)) /\ Unlocks(c) /\ Done(c) /\ UNCHANGED <<calls, service>>

\* trace.start refused, over at once, or without an answer
StartFails(c) ==
    /\ At(c, "asked") /\ call[c].op = "start" /\ Lost(c) /\ Unlocks(c)
    /\ GoTo(c, "stop") /\ \E fatal \in BOOLEAN : Errs(c, fatal)
    /\ UNCHANGED <<calls, service>>

\* _validate_trace_status: the path must be that of the state
Answer(c) == IF call[c].op = "stop" THEN Still(Rt(c)) ELSE worker[Rt(c)]

Accepts(c) == worker[Rt(c)].path = Of(c)

\* trace.stop and trace.status answered; a status may itself stop a trace
\* that reached its quota
Answered(c) ==
    /\ At(c, "asked") /\ call[c].op # "start" /\ Ordered(Rt(c)) /\ UNCHANGED file
    /\ Worker(Rt(c), Answer(c)) \/ Worker(Rt(c), Still(Rt(c)))
    /\ Unlocks(c) /\ UNCHANGED <<calls, session, runtime, cur, made, sure>>
    /\ \/ Of(c) = None /\ Done(c) /\ UNCHANGED active
       \/ /\ Of(c) # None /\ Accepts(c)
          /\ IF worker'[Rt(c)].rec = None
             THEN active' = active \ {Of(c)} /\ GoTo(c, "register") /\ UNCHANGED call
             ELSE active' = active \cup {Of(c)} /\ Done(c)
       \/ Of(c) # None /\ ~Accepts(c) /\ GoTo(c, "error") /\ Errs(c, TRUE) /\ UNCHANGED active

\* No answer, an invalid one, or a debugger that cannot tell
Unanswered(c) ==
    /\ At(c, "asked") /\ call[c].op # "start" /\ Lost(c) /\ Unlocks(c)
    /\ GoTo(c, "error") /\ \E fatal \in BOOLEAN : Errs(c, fatal)
    /\ UNCHANGED <<calls, service>>

\* A stop that is uncertain fails the runtime; a status does when the trace
\* may be recording, and forgives when it is registered already
Error(c) ==
    /\ At(c, "error") /\ UNCHANGED <<calls, lock, service, file, worker>>
    /\ LET i == Of(c) IN
       IF call[c].op = "stop" THEN GoTo(c, "fail") /\ UNCHANGED call
       ELSE IF Settled(c) THEN Done(c)
       ELSE IF call[c].fatal \/ i \in active THEN GoTo(c, "fail") /\ UNCHANGED call
       ELSE IF i # None THEN GoTo(c, "register") /\ Errs(c, TRUE)
       ELSE Done(c)

-----------------------------------------------------------------------------
(* _stop_trace_after_failure of a start, under the lock again *)

StopAgain(c) ==
    /\ At(c, "stop") /\ lock[Rt(c)] = Nobody
    /\ lock' = [lock EXCEPT ![Rt(c)] = c] /\ GoTo(c, "stopping")
    /\ UNCHANGED <<call, calls, service, file, worker>>

\* What if a stop that fails were taken for one that succeeds?
StoppingAnyhow(c) ==
    /\ At(c, "stopping") /\ Unlocks(c) /\ GoTo(c, "register")
    /\ UNCHANGED <<call, calls, session, runtime, cur, made, sure, file>>
    /\ active' = active \ {Of(c)}
    /\ UNCHANGED worker \/ (Ordered(Rt(c)) /\ Worker(Rt(c), Still(Rt(c))))

Stopping(c) ==
    /\ At(c, "stopping") /\ Unlocks(c) /\ GoTo(c, "register")
    /\ UNCHANGED <<calls, session, runtime, cur, made, sure, file>>
    /\ \/ /\ Ordered(Rt(c)) /\ Worker(Rt(c), Still(Rt(c)))
          /\ active' = active \ {Of(c)} /\ UNCHANGED call
       \/ /\ UNCHANGED active /\ call' = [call EXCEPT ![c].safe = FALSE]
          /\ UNCHANGED worker \/ (Ordered(Rt(c)) /\ Worker(Rt(c), Still(Rt(c))))

-----------------------------------------------------------------------------
(* _finalize_trace_artifact: the file is measured and registered, once *)

Finalizes(i, final) ==
    /\ active' = active \ {i}
    /\ \/ /\ file[i] = "there" /\ file' = [file EXCEPT ![i] = "registered"]
          /\ sure' = IF final THEN sure \cup {i} ELSE sure
       \/ UNCHANGED <<file, sure>>

\* After a stop the debugger confirmed, or after an error
Register(c) ==
    /\ At(c, "register") /\ UNCHANGED <<calls, lock, session, runtime, cur, made, worker>>
    /\ LET start == call[c].op = "start" IN
       /\ Finalizes(Of(c), IF start THEN call[c].safe ELSE ~call[c].fatal)
       /\ IF start /\ (call[c].fatal \/ ~call[c].safe)
          THEN GoTo(c, "fail") /\ UNCHANGED call
          ELSE Done(c)

-----------------------------------------------------------------------------
(* _fail_runtime: whatever runtime is registered is taken out and killed *)

Fail(c) ==
    /\ At(c, "fail") /\ runtime' = None
    /\ call' = [call EXCEPT ![c].rt = runtime]
    /\ GoTo(c, IF runtime = None THEN "failed" ELSE "kill")
    /\ UNCHANGED <<calls, session, lock, cur, made, active, file, sure, worker>>

Kill(c) ==
    /\ At(c, "kill") /\ Worker(Rt(c), NoWorker) /\ GoTo(c, "loss")
    /\ UNCHANGED <<call, calls, lock, service, file>>

\* _finalize_trace_after_worker_loss, of the state that is current now
Loss(c, next) ==
    /\ GoTo(c, next)
    /\ IF cur # None /\ ~Registered(cur)
       THEN Finalizes(cur, TRUE)
       ELSE UNCHANGED <<active, file, sure>>

LossOfFailed(c) ==
    /\ At(c, "loss") /\ Loss(c, "failed")
    /\ UNCHANGED <<call, calls, session, runtime, lock, cur, made, worker>>

\* The session fails, unless it is closed, and the caller's own state is
\* finalized
Failed(c) ==
    /\ At(c, "failed") /\ UNCHANGED <<calls, runtime, lock, cur, made, worker>>
    /\ session' = IF session \in {"open", "closing"} THEN "failed" ELSE session
    /\ IF Of(c) # None /\ (call[c].op = "stop" \/ (call[c].op = "status" /\ Of(c) \notin active))
       THEN Finalizes(Of(c), FALSE) ELSE UNCHANGED <<active, file, sure>>
    /\ Done(c)

-----------------------------------------------------------------------------
(* _discard_dead_runtime and the next open, and the close of the session *)

Discard(c) ==
    /\ At(c, "idle") /\ session = "open" /\ runtime # None /\ ~worker[runtime].up
    /\ runtime < MaxWorkers /\ calls < MaxCalls /\ calls' = calls + 1
    /\ call' = [call EXCEPT ![c].op = "discard", ![c].rt = runtime]
    /\ runtime' = None /\ GoTo(c, "discard")
    /\ UNCHANGED <<session, lock, cur, made, active, file, sure, worker>>

LossOfDead(c) ==
    /\ At(c, "discard") /\ Loss(c, "reopen")
    /\ UNCHANGED <<call, calls, session, runtime, lock, cur, made, worker>>

Reopen(c) ==
    /\ At(c, "reopen") /\ Done(c) /\ UNCHANGED <<calls, session, lock, cur, made, active, file, sure>>
    /\ IF session = "open" /\ runtime = None
       THEN runtime' = Rt(c) + 1 /\ Worker(Rt(c) + 1, [NoWorker EXCEPT !.up = TRUE])
       ELSE UNCHANGED <<runtime, worker>>

Close(c) ==
    /\ At(c, "idle") /\ session \in {"open", "failed"}
    /\ session' = "closing" /\ runtime' = None
    /\ call' = [call EXCEPT ![c].op = "close", ![c].rt = runtime]
    /\ GoTo(c, IF runtime = None THEN "clear" ELSE "close")
    /\ UNCHANGED <<calls, lock, cur, made, active, file, sure, worker>>

CloseWorker(c) ==
    /\ At(c, "close") /\ lock[Rt(c)] = Nobody /\ Worker(Rt(c), NoWorker) /\ GoTo(c, "closing")
    /\ UNCHANGED <<call, calls, lock, service, file>>

LossOfClosed(c) ==
    /\ At(c, "closing") /\ Loss(c, "clear")
    /\ UNCHANGED <<call, calls, session, runtime, lock, cur, made, worker>>

Clear(c) ==
    /\ At(c, "clear") /\ cur' = None /\ session' = "closed" /\ Done(c)
    /\ UNCHANGED <<calls, runtime, lock, made, active, file, sure, worker>>

-----------------------------------------------------------------------------
(* The debugger by itself *)

Writes(w) ==
    LET i == worker[w].rec IN
    /\ i # None /\ file[i] = "registered" /\ file' = [file EXCEPT ![i] = "stale"]
    /\ UNCHANGED <<at, call, calls, lock, service, worker>>

\* A quota, the end of the target, or a write error
StopsItself(w) ==
    /\ worker[w].rec # None /\ Worker(w, Still(w))
    /\ UNCHANGED <<at, call, calls, lock, service, file>>

ComesToStart(w) ==
    LET i == worker[w].late IN
    /\ i # None /\ Began(w, i) /\ UNCHANGED <<at, call, calls, lock, service>>

Dies(w) ==
    /\ worker[w].up /\ Worker(w, NoWorker) /\ UNCHANGED <<at, call, calls, lock, service, file>>

-----------------------------------------------------------------------------

Step(c) ==
    \/ Lock(c) \/ Started(c) \/ StartFails(c) \/ Answered(c) \/ Unanswered(c) \/ Error(c)
    \/ StopAgain(c) \/ Stopping(c) \/ Register(c)
    \/ Fail(c) \/ Kill(c) \/ LossOfFailed(c) \/ Failed(c)
    \/ LossOfDead(c) \/ Reopen(c) \/ CloseWorker(c) \/ LossOfClosed(c) \/ Clear(c)

Next ==
    \/ \E c \in Callers : Step(c) \/ Discard(c) \/ Close(c)
    \/ \E c \in Callers, op \in {"start", "stop", "status"} : Enter(c, op)
    \/ \E w \in Workers : Writes(w) \/ StopsItself(w) \/ ComesToStart(w) \/ Dies(w)

Spec == Init /\ [][Next]_vars

-----------------------------------------------------------------------------
(* Properties *)

(* When no call is in progress, a debugger that records is the registered  *)
(* one, and what it records is the trace the service takes for active and  *)
(* has not registered yet: a lost answer, a failed stop or a call that     *)
(* looked at an older trace leaves no recording nobody will stop           *)
(* (service_trace.py:348).                                                 *)
RecordingIsKnown ==
    (\A c \in Callers : At(c, "idle")) =>
        \A w \in Workers : worker[w].rec # None \/ worker[w].late # None =>
            /\ w = runtime /\ worker[w].rec = cur /\ worker[w].late = None
            /\ cur \in active /\ file[cur] = "there"

(* A trace registered after its debugger confirmed the stop, or was ended, *)
(* has the size and so the hash it was registered with for good            *)
(* (service_trace.py:595).                                                 *)
ConfirmedIsFinal == \A i \in sure : file[i] = "registered"
=============================================================================
