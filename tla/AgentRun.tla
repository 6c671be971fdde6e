------------------------------ MODULE AgentRun ------------------------------
(***************************************************************************)
(* One agent run as AgentOrchestrator (agent/orchestrator.py) carries it   *)
(* out against AgentStore (agent/store.py): provider rounds, tool calls,   *)
(* the approval gate, the worker thread a tool runs in, cancellation,      *)
(* deadlines and the restart of the service.                               *)
(*                                                                         *)
(* Every run is an asyncio task on one event loop, so between two awaits   *)
(* only what runs outside the loop can interleave: the worker threads and  *)
(* the synchronous HTTP handlers (mission cancel, thread delete), which    *)
(* FastAPI runs in a thread pool.  LoopFree says when the loop is free.    *)
(*                                                                         *)
(* A definition under "What if" is not part of the specification: it is    *)
(* the definition after it with a mistake the properties must catch.       *)
(***************************************************************************)
EXTENDS AgentModels, Naturals, FiniteSets

CONSTANTS Run,          \* ids of the runs that may be created
          CallId,       \* tool call ids a provider may use
          Tool,         \* catalog tools exposed to the agent
          ReadOnly,     \* tools whose only effect is read_only
          NeverAuto,    \* AutonomyPolicy.never_auto_approve
          Verdicts,     \* the decisions operators send: "yes", "no"
          Args,         \* canonical arguments (what args_sha256 names)
          MaxToolRounds,    \* max_tool_rounds
          MaxCalls,         \* most tool calls in one provider answer
          MaxStuck,         \* _MAX_STUCK_TOOL_THREADS
          ToolThreads,      \* _TOOL_THREADS, size of the capacity limiter
          NoCall, NoTool, NoArgs

ASSUME ConstantsAssumption ==
    /\ ReadOnly \subseteq Tool /\ NeverAuto \subseteq Tool
    /\ Verdicts \subseteq {"yes", "no"}
    /\ MaxToolRounds \in Nat /\ MaxCalls \in Nat \ {0}
    /\ MaxStuck \in Nat \ {0} /\ ToolThreads \in Nat \ {0}
    /\ NoCall \notin CallId /\ NoTool \notin Tool /\ NoArgs \notin Args

ASSUME RunsAssumption == IsFiniteSet(Run)

VARIABLES
    status,     \* runs.status; "absent" before create_run, "gone" once deleted
    cancel,     \* runs.cancel_requested
    call,       \* the tool_calls rows
    auto,       \* tools the autonomy policy currently lets through
    pc,         \* where the task of the run is
    round,      \* round_index of _run_loop
    left,       \* calls of the current answer still to be handled
    cur,        \* id of the call being handled
    dying,      \* task.cancel() was called, CancelledError not yet delivered
    thread,     \* the worker thread of a call
    agreed,     \* history: <<run, call, args>> a human approved
    ran,        \* history: how often a call was handed to its backend
    late        \* history: backend calls begun after cancel was requested

store    == <<status, cancel, call>>
task     == <<pc, round, left, cur, dying>>
history  == <<agreed, ran, late>>
vars     == <<status, cancel, call, auto, pc, round, left, cur, dying,
              thread, agreed, ran, late>>

-----------------------------------------------------------------------------
(* Rows and places *)

CallStatus == {"none", "proposed", "approved", "rejected", "executing",
               "completed", "failed"}

(* "gate" is the verdict of AutonomyPolicy.decide the task acted on. *)
CallRow == [st : CallStatus, approved : {"null", "yes", "no"},
            consumed : BOOLEAN, tool : Tool \cup {NoTool},
            args : Args \cup {NoArgs}, gate : {"none", "policy", "human"}]

NoRow == [st |-> "none", approved |-> "null", consumed |-> FALSE,
          tool |-> NoTool, args |-> NoArgs, gate |-> "none"]

(* A task waits at an await, or does not exist yet or any more. *)
Suspended == {"none", "new", "stream", "await", "invoke", "done"}
TaskPC    == Suspended \cup {"round", "call", "gate", "consume", "start", "after"}

ThreadState == {"none", "queued", "running", "done"}

(* What the rest of the loop is doing does not keep task r from a step. *)
LoopFree(r) == \A q \in Run \ {r} : pc[q] \in Suspended

Live(r)     == status[r] \in ActiveRunStatuses
Begun(r)    == pc[r] \notin {"none", "new", "done"}

(* Task r takes a step of its own code: it has begun, its row is there and *)
(* no CancelledError is waiting for it.                                    *)
Steps(r, here) ==
    /\ pc[r] = here /\ LoopFree(r)
    /\ status[r] # "gone" /\ ~dying[r]

(* What if: the poll looked at the status alone. *)
StatusCancelled(r) == status[r] \in {"cancelled", "interrupted"}

(* _check_cancelled, for a row that still exists *)
CheckCancelled(r) == cancel[r] \/ status[r] \in {"cancelled", "interrupted"}

(* The threads still carrying a call, including the abandoned ones *)
StuckToolThreads == {p \in Run \X CallId : thread[p[1]][p[2]] = "running"}

(* The limiter slots in use: an abandoned thread gave its slot back *)
BusySlots == {p \in StuckToolThreads : pc[p[1]] = "invoke" /\ cur[p[1]] = p[2]}

(* What if: the policy forgot the tools it must never pass. *)
ApprovesListed(t) == t \in ReadOnly \/ t \in auto

Approves(t) == t \notin NeverAuto /\ (t \in ReadOnly \/ t \in auto)

-----------------------------------------------------------------------------
(* How a task ends *)

(* What if: work were never cancelled. *)
AbandonsNothing(r) == thread[r]

(* work.cancel() on a tool whose thread has not started keeps it from      *)
(* starting; a thread that runs is left to run.                            *)
Abandoned(r) ==
    [c \in CallId |-> IF thread[r][c] = "queued" THEN "none" ELSE thread[r][c]]

(* _finish_failure and _finish_cancel leave a terminal row as it is. *)
Finish(r, s) ==
    /\ status' = IF Live(r) THEN [status EXCEPT ![r] = s] ELSE status
    /\ pc' = [pc EXCEPT ![r] = "done"]
    /\ dying' = [dying EXCEPT ![r] = FALSE]
    /\ thread' = [thread EXCEPT ![r] = Abandoned(r)]
    /\ UNCHANGED <<cancel, auto, round, left, cur, history>>

GoTo(r, there) == pc' = [pc EXCEPT ![r] = there]

SetStatus(r, s) == status' = [status EXCEPT ![r] = s]

(* The row of the call being handled, and an UPDATE of a row *)
Row(r) == call[r][cur[r]]

SetRow(r, c, row) == call' = [call EXCEPT ![r][c] = row]

-----------------------------------------------------------------------------
(* Runs begin *)

Init ==
    /\ status = [r \in Run |-> "absent"]
    /\ cancel = [r \in Run |-> FALSE]
    /\ call = [r \in Run |-> [c \in CallId |-> NoRow]]
    /\ auto \in SUBSET (Tool \ ReadOnly)
    /\ pc = [r \in Run |-> "none"]
    /\ round = [r \in Run |-> 0]
    /\ left = [r \in Run |-> 0]
    /\ cur = [r \in Run |-> NoCall]
    /\ dying = [r \in Run |-> FALSE]
    /\ thread = [r \in Run |-> [c \in CallId |-> "none"]]
    /\ agreed = {}
    /\ ran = [r \in Run |-> [c \in CallId |-> 0]]
    /\ late = [r \in Run |-> 0]

(* start_run: the row, and a task the loop has not run yet *)
StartRun(r) ==
    /\ status[r] = "absent" /\ LoopFree(r)
    /\ SetStatus(r, "queued")
    /\ GoTo(r, "new")
    /\ UNCHANGED <<cancel, call, auto, round, left, cur, dying, thread, history>>

(* _execute enters _run_loop *)
Begin(r) ==
    /\ Steps(r, "new")
    /\ SetStatus(r, "streaming")
    /\ GoTo(r, "round")
    /\ UNCHANGED <<cancel, call, auto, round, left, cur, dying, thread, history>>

-----------------------------------------------------------------------------
(* Provider rounds *)

RoundCancelled(r) ==
    /\ Steps(r, "round") /\ CheckCancelled(r)
    /\ Finish(r, "cancelled") /\ UNCHANGED call

RoundBegins(r) ==
    /\ Steps(r, "round") /\ ~CheckCancelled(r)
    /\ GoTo(r, "stream")
    /\ UNCHANGED <<store, auto, round, left, cur, dying, thread, history>>

(* A provider event finds the run cancelled. *)
StreamCancelled(r) ==
    /\ Steps(r, "stream") /\ CheckCancelled(r)
    /\ Finish(r, "cancelled") /\ UNCHANGED call

(* A provider error, an oversized answer, or EOF with no completed event *)
StreamFails(r) ==
    /\ Steps(r, "stream")
    /\ Finish(r, "failed") /\ UNCHANGED call

(* The wrap-up round has been answered: a bound was spent. *)
RoundsExhausted(r) ==
    /\ Steps(r, "stream") /\ round[r] >= MaxToolRounds
    /\ Finish(r, "failed") /\ UNCHANGED call

(* An answer without tool calls.  Nothing re-reads cancel_requested here.  *)
RunCompletes(r) ==
    /\ Steps(r, "stream") /\ round[r] < MaxToolRounds
    /\ Finish(r, "completed") /\ UNCHANGED call

AnswerHasCalls(r) ==
    /\ Steps(r, "stream") /\ round[r] < MaxToolRounds
    /\ \E n \in 1..MaxCalls : left' = [left EXCEPT ![r] = n]
    /\ GoTo(r, "call")
    /\ UNCHANGED <<store, auto, round, cur, dying, thread, history>>

-----------------------------------------------------------------------------
(* _handle_tool_call, up to the gate *)

CallCancelled(r) ==
    /\ Steps(r, "call") /\ CheckCancelled(r)
    /\ Finish(r, "cancelled") /\ UNCHANGED call

(* catalog.require, the transport and effects test, or a bound of          *)
(* propose_tool_call raises; so does a (run, id) the provider used before. *)
CallRefused(r) ==
    /\ Steps(r, "call") /\ ~CheckCancelled(r)
    /\ Finish(r, "failed") /\ UNCHANGED call

(* Oversized arguments are answered without being stored. *)
CallOversized(r) ==
    /\ Steps(r, "call") /\ ~CheckCancelled(r)
    /\ GoTo(r, "after")
    /\ UNCHANGED <<store, auto, round, left, cur, dying, thread, history>>

(* What if: a call id could be proposed again. *)
ReproposeToolCall(r, c, t, a) ==
    /\ Steps(r, "call") /\ ~CheckCancelled(r)
    /\ SetRow(r, c, [NoRow EXCEPT !.st = "proposed", !.tool = t, !.args = a])
    /\ cur' = [cur EXCEPT ![r] = c]
    /\ GoTo(r, "gate")
    /\ UNCHANGED <<status, cancel, auto, round, left, dying, thread, history>>

ProposeToolCall(r, c, t, a) ==
    /\ Steps(r, "call") /\ ~CheckCancelled(r)
    /\ call[r][c].st = "none"
    /\ SetRow(r, c, [NoRow EXCEPT !.st = "proposed", !.tool = t, !.args = a])
    /\ cur' = [cur EXCEPT ![r] = c]
    /\ GoTo(r, "gate")
    /\ UNCHANGED <<status, cancel, auto, round, left, dying, thread, history>>

(* AutonomyPolicy.decide approves: the call goes on without a human. *)
PolicyApproves(r) ==
    /\ Steps(r, "gate") /\ Approves(Row(r).tool)
    /\ SetRow(r, cur[r], [Row(r) EXCEPT !.gate = "policy"])
    /\ GoTo(r, "start")
    /\ UNCHANGED <<status, cancel, auto, round, left, cur, dying, thread, history>>

(* It does not: the run parks on the approval. *)
ApprovalRequired(r) ==
    /\ Steps(r, "gate") /\ ~Approves(Row(r).tool)
    /\ SetRow(r, cur[r], [Row(r) EXCEPT !.gate = "human"])
    /\ SetStatus(r, "awaiting_approval")
    /\ GoTo(r, "await")
    /\ UNCHANGED <<cancel, auto, round, left, cur, dying, thread, history>>

-----------------------------------------------------------------------------
(* The approval poll *)

AwaitCancelled(r) ==
    /\ Steps(r, "await") /\ CheckCancelled(r)
    /\ Finish(r, "cancelled") /\ UNCHANGED call

AwaitTimesOut(r) ==
    /\ Steps(r, "await")
    /\ Finish(r, "failed") /\ UNCHANGED call

(* What if: a rejection only ended the wait. *)
RejectionFallsThrough(r) ==
    /\ Steps(r, "await") /\ ~CheckCancelled(r)
    /\ Row(r).approved = "no"
    /\ GoTo(r, "start")
    /\ UNCHANGED <<store, auto, round, left, cur, dying, thread, history>>

AwaitRejected(r) ==
    /\ Steps(r, "await") /\ ~CheckCancelled(r)
    /\ Row(r).approved = "no"
    /\ SetRow(r, cur[r], [Row(r) EXCEPT !.st = "failed"])
    /\ SetStatus(r, "rejected")
    /\ GoTo(r, "after")
    /\ UNCHANGED <<cancel, auto, round, left, cur, dying, thread, history>>

AwaitApproved(r) ==
    /\ Steps(r, "await") /\ ~CheckCancelled(r)
    /\ Row(r).approved = "yes"
    /\ GoTo(r, "consume")
    /\ UNCHANGED <<store, auto, round, left, cur, dying, thread, history>>

(* consume_approval reads the run row again in the transaction that spends *)
(* the approval: a cancel committed since the poll makes it refuse.        *)
Consumable(r) ==
    /\ Live(r) /\ ~cancel[r]
    /\ ~Row(r).consumed /\ Row(r).approved = "yes"

ConsumeApproval(r) ==
    /\ Steps(r, "consume") /\ Consumable(r)
    /\ SetRow(r, cur[r], [Row(r) EXCEPT !.consumed = TRUE, !.st = "executing"])
    /\ GoTo(r, "start")
    /\ UNCHANGED <<status, cancel, auto, round, left, cur, dying, thread, history>>

ConsumeRefused(r) ==
    /\ Steps(r, "consume") /\ ~Consumable(r)
    /\ Finish(r, "failed") /\ UNCHANGED call

-----------------------------------------------------------------------------
(* The tool runs in a worker thread *)

StartCancelled(r) ==
    /\ Steps(r, "start") /\ CheckCancelled(r)
    /\ Finish(r, "cancelled") /\ UNCHANGED call

ToolWorkersStuck(r) ==
    /\ Steps(r, "start") /\ ~CheckCancelled(r)
    /\ Cardinality(StuckToolThreads) >= MaxStuck
    /\ SetRow(r, cur[r], [Row(r) EXCEPT !.st = "failed"])
    /\ Finish(r, "failed")

(* What if: stuck workers were not counted. *)
StartToolAnyway(r) ==
    /\ Steps(r, "start") /\ ~CheckCancelled(r)
    /\ SetStatus(r, "executing_tool")
    /\ thread' = [thread EXCEPT ![r][cur[r]] = "queued"]
    /\ GoTo(r, "invoke")
    /\ UNCHANGED <<cancel, call, auto, round, left, cur, dying, history>>

StartTool(r) ==
    /\ Steps(r, "start") /\ ~CheckCancelled(r)
    /\ Cardinality(StuckToolThreads) < MaxStuck
    /\ SetStatus(r, "executing_tool")
    /\ thread' = [thread EXCEPT ![r][cur[r]] = "queued"]
    /\ GoTo(r, "invoke")
    /\ UNCHANGED <<cancel, call, auto, round, left, cur, dying, history>>

(* The worker takes a limiter slot and _invoke_counted calls the backend.  *)
(* It is a task of its own, so a cancel of the run may come just too late. *)
ThreadStarts(r, c) ==
    /\ thread[r][c] = "queued" /\ Cardinality(BusySlots) < ToolThreads
    /\ thread' = [thread EXCEPT ![r][c] = "running"]
    /\ ran' = [ran EXCEPT ![r][c] = @ + 1]
    /\ late' = IF cancel[r] THEN [late EXCEPT ![r] = @ + 1] ELSE late
    /\ UNCHANGED <<store, auto, task, agreed>>

ThreadEnds(r, c) ==
    /\ thread[r][c] = "running"
    /\ thread' = [thread EXCEPT ![r][c] = "done"]
    /\ UNCHANGED <<store, auto, task, history>>

InvokeCancelled(r) ==
    /\ Steps(r, "invoke") /\ CheckCancelled(r)
    /\ Finish(r, "cancelled") /\ UNCHANGED call

(* The timeout is handed to the model as a result; the thread stays. *)
InvokeTimesOut(r) ==
    /\ Steps(r, "invoke") /\ ~CheckCancelled(r)
    /\ thread[r][cur[r]] \in {"queued", "running"}
    /\ SetRow(r, cur[r], [Row(r) EXCEPT !.st = "failed"])
    /\ thread' = [thread EXCEPT ![r] = Abandoned(r)]
    /\ GoTo(r, "after")
    /\ UNCHANGED <<status, cancel, auto, round, left, cur, dying, history>>

(* complete_tool_call with the bounded result *)
InvokeReturns(r) ==
    /\ Steps(r, "invoke") /\ ~CheckCancelled(r)
    /\ thread[r][cur[r]] = "done"
    /\ \E s \in {"completed", "failed"} : SetRow(r, cur[r], [Row(r) EXCEPT !.st = s])
    /\ GoTo(r, "after")
    /\ UNCHANGED <<status, cancel, auto, round, left, cur, dying, thread, history>>

(* The handler raised instead of returning an envelope. *)
InvokeRaises(r) ==
    /\ Steps(r, "invoke") /\ ~CheckCancelled(r)
    /\ thread[r][cur[r]] = "done"
    /\ Finish(r, "failed") /\ UNCHANGED call

(* Back in _run_loop with the result *)
ResultUnwanted(r) ==
    /\ Steps(r, "after") /\ (CheckCancelled(r) \/ ~Live(r))
    /\ Finish(r, "cancelled") /\ UNCHANGED call

NextCall(r) ==
    /\ Steps(r, "after") /\ ~CheckCancelled(r) /\ Live(r) /\ left[r] > 1
    /\ left' = [left EXCEPT ![r] = @ - 1]
    /\ GoTo(r, "call")
    /\ UNCHANGED <<store, auto, round, cur, dying, thread, history>>

(* What if: the round were not counted. *)
SameRound(r) ==
    /\ Steps(r, "after") /\ ~CheckCancelled(r) /\ Live(r) /\ left[r] = 1
    /\ left' = [left EXCEPT ![r] = 0]
    /\ SetStatus(r, "streaming")
    /\ GoTo(r, "round")
    /\ UNCHANGED <<cancel, call, auto, round, cur, dying, thread, history>>

NextRound(r) ==
    /\ Steps(r, "after") /\ ~CheckCancelled(r) /\ Live(r) /\ left[r] = 1
    /\ left' = [left EXCEPT ![r] = 0]
    /\ round' = [round EXCEPT ![r] = @ + 1]
    /\ SetStatus(r, "streaming")
    /\ GoTo(r, "round")
    /\ UNCHANGED <<cancel, call, auto, cur, dying, thread, history>>

-----------------------------------------------------------------------------
(* What ends a waiting task from outside *)

(* wait_for(run_deadline) in _execute *)
DeadlineExceeded(r) ==
    /\ pc[r] \in {"stream", "await", "invoke"}
    /\ Steps(r, pc[r])
    /\ Finish(r, "failed") /\ UNCHANGED call

(* CancelledError reaches the await the task is suspended at. *)
DeliverCancel(r) ==
    /\ dying[r] /\ LoopFree(r)
    /\ Finish(r, "cancelled") /\ UNCHANGED call

(* The row of the run is gone: every store call of the task finds nothing. *)
RowGone(r) ==
    /\ status[r] = "gone" /\ pc[r] \notin {"none", "done"} /\ LoopFree(r)
    /\ Finish(r, "cancelled") /\ UNCHANGED call

(* task.cancel(): a task the loop has not run yet ends without entering    *)
(* _execute, so nothing records an outcome.                                *)
CancelTask(r) ==
    /\ pc' = IF pc[r] = "new" THEN [pc EXCEPT ![r] = "done"] ELSE pc
    /\ dying' = IF Begun(r) THEN [dying EXCEPT ![r] = TRUE] ELSE dying

(* AgentOrchestrator.cancel, from the cancel route or from the scheduler *)
Cancel(r) ==
    /\ status[r] \in RunStatus /\ \A q \in Run : pc[q] \in Suspended
    /\ cancel' = IF Live(r) THEN [cancel EXCEPT ![r] = TRUE] ELSE cancel
    /\ CancelTask(r)
    /\ UNCHANGED <<status, call, auto, round, left, cur, thread, history>>

(* _mark_runs_cancel_requested, from the thread pool at any moment *)
MarkCancelRequested(r) ==
    /\ Live(r) /\ ~cancel[r]
    /\ cancel' = [cancel EXCEPT ![r] = TRUE]
    /\ UNCHANGED <<status, call, auto, task, thread, history>>

(* MissionScheduler._await_run gives up: cancel, then INTERRUPTED at once, *)
(* before the task has seen its CancelledError.                            *)
SchedulerTimeout(r) ==
    /\ Live(r) /\ \A q \in Run : pc[q] \in Suspended
    /\ cancel' = [cancel EXCEPT ![r] = TRUE]
    /\ CancelTask(r)
    /\ SetStatus(r, "interrupted")
    /\ UNCHANGED <<call, auto, round, left, cur, thread, history>>

(* delete_thread cascades to the run, from the thread pool.  The model     *)
(* keeps the last content of the deleted rows; no action reads them again. *)
DeleteThread(r) ==
    /\ status[r] \in RunStatus
    /\ SetStatus(r, "gone")
    /\ UNCHANGED <<cancel, call, auto, task, thread, history>>

-----------------------------------------------------------------------------
(* Humans *)

(* What if: a second decision replaced the first. *)
DecideAgain(r, c, a, verdict) ==
    /\ \A q \in Run : pc[q] \in Suspended
    /\ Live(r) /\ ~cancel[r]
    /\ call[r][c].st # "none" /\ call[r][c].args = a
    /\ ~call[r][c].consumed
    /\ SetRow(r, c, [call[r][c] EXCEPT
                       !.approved = verdict,
                       !.st = IF verdict = "yes" THEN "approved" ELSE "rejected"])
    /\ agreed' = IF verdict = "yes" THEN agreed \cup {<<r, c, a>>} ELSE agreed
    /\ UNCHANGED <<status, cancel, auto, task, thread, ran, late>>

(* AgentOrchestrator.decide: the run must be active and not cancelled, the *)
(* hash must match and the row be undecided.  Whether an approval was ever *)
(* asked for is not tested.                                                *)
Decide(r, c, a, verdict) ==
    /\ \A q \in Run : pc[q] \in Suspended
    /\ Live(r) /\ ~cancel[r]
    /\ call[r][c].st # "none" /\ call[r][c].args = a
    /\ call[r][c].approved = "null" /\ ~call[r][c].consumed
    /\ SetRow(r, c, [call[r][c] EXCEPT
                       !.approved = verdict,
                       !.st = IF verdict = "yes" THEN "approved" ELSE "rejected"])
    /\ agreed' = IF verdict = "yes" THEN agreed \cup {<<r, c, a>>} ELSE agreed
    /\ UNCHANGED <<status, cancel, auto, task, thread, ran, late>>

(* The autonomy routes and "remember" replace the policy object. *)
ChangePolicy(s) ==
    /\ \A q \in Run : pc[q] \in Suspended
    /\ auto # s
    /\ auto' = s
    /\ UNCHANGED <<store, task, thread, history>>

-----------------------------------------------------------------------------
(* The process ends and recover_after_restart adopts what it left.  A      *)
(* shutdown, not a crash, first cancels the tasks that have begun.         *)
Restart(ended) ==
    /\ status' = [r \in Run |-> IF ~Live(r) THEN status[r]
                                ELSE IF r \in ended THEN "cancelled"
                                ELSE "interrupted"]
    /\ pc' = [r \in Run |-> IF pc[r] = "none" THEN "none" ELSE "done"]
    /\ dying' = [r \in Run |-> FALSE]
    /\ thread' = [r \in Run |-> [c \in CallId |->
                    IF thread[r][c] = "running" THEN "done"
                    ELSE Abandoned(r)[c]]]
    /\ UNCHANGED <<cancel, call, auto, round, left, cur, history>>

Crash == Restart({})

Shutdown ==
    /\ \A q \in Run : pc[q] \in Suspended
    /\ Restart({r \in Run : Begun(r)})

-----------------------------------------------------------------------------
TaskStep(r) ==
    \/ Begin(r)
    \/ RoundCancelled(r) \/ RoundBegins(r)
    \/ StreamCancelled(r) \/ StreamFails(r) \/ RoundsExhausted(r)
    \/ RunCompletes(r) \/ AnswerHasCalls(r)
    \/ CallCancelled(r) \/ CallRefused(r) \/ CallOversized(r)
    \/ \E c \in CallId, t \in Tool, a \in Args : ProposeToolCall(r, c, t, a)
    \/ PolicyApproves(r) \/ ApprovalRequired(r)
    \/ AwaitCancelled(r) \/ AwaitTimesOut(r) \/ AwaitRejected(r)
    \/ AwaitApproved(r) \/ ConsumeApproval(r) \/ ConsumeRefused(r)
    \/ StartCancelled(r) \/ ToolWorkersStuck(r) \/ StartTool(r)
    \/ InvokeCancelled(r) \/ InvokeTimesOut(r) \/ InvokeReturns(r)
    \/ InvokeRaises(r)
    \/ ResultUnwanted(r) \/ NextCall(r) \/ NextRound(r)
    \/ DeadlineExceeded(r) \/ DeliverCancel(r) \/ RowGone(r)

ThreadStep(r) == \E c \in CallId : ThreadStarts(r, c) \/ ThreadEnds(r, c)

Environment(r) ==
    \/ StartRun(r)
    \/ Cancel(r) \/ MarkCancelRequested(r) \/ SchedulerTimeout(r)
    \/ DeleteThread(r)
    \/ \E c \in CallId, a \in Args, v \in Verdicts : Decide(r, c, a, v)

Next ==
    \/ \E r \in Run : TaskStep(r) \/ ThreadStep(r) \/ Environment(r)
    \/ \E s \in SUBSET (Tool \ ReadOnly) : ChangePolicy(s)
    \/ Crash \/ Shutdown

Spec == Init /\ [][Next]_vars

(* The loop keeps running every task that can take a step.  The deadline of *)
(* a run bounds each of its awaits, so nothing is assumed of providers,     *)
(* humans or backends.                                                      *)
Fairness == \A r \in Run : WF_vars(TaskStep(r))

FairSpec == Spec /\ Fairness

-----------------------------------------------------------------------------
(* Properties *)

TypeOK ==
    /\ status \in [Run -> RunStatus \cup {"absent", "gone"}]
    /\ cancel \in [Run -> BOOLEAN]
    /\ call \in [Run -> [CallId -> CallRow]]
    /\ auto \in SUBSET Tool
    /\ pc \in [Run -> TaskPC]
    /\ round \in [Run -> 0..MaxToolRounds]
    /\ left \in [Run -> 0..MaxCalls]
    /\ cur \in [Run -> CallId \cup {NoCall}]
    /\ dying \in [Run -> BOOLEAN]
    /\ thread \in [Run -> [CallId -> ThreadState]]
    /\ agreed \in SUBSET (Run \X CallId \X Args)
    /\ ran \in [Run -> [CallId -> Nat]]
    /\ late \in [Run -> Nat]

(* A tool the operator listed as never auto-approved, and any call the     *)
(* policy stopped, reaches its backend only after a human approved that    *)
(* call of that run with those very arguments, whatever happened to the    *)
(* policy, the run or the row in the meantime (decide, consume_approval).  *)
HumanGate ==
    \A r \in Run, c \in CallId :
        (ran[r][c] > 0 /\ (call[r][c].gate # "policy" \/ call[r][c].tool \in NeverAuto))
            => /\ <<r, c, call[r][c].args>> \in agreed
               /\ call[r][c].consumed

(* A refused call never ran and never will, and a run that ended rejected  *)
(* names a refused call (the poll of _handle_tool_call).                   *)
RefusedNeverRuns ==
    \A r \in Run :
        /\ \A c \in CallId : (call[r][c].gate = "human" /\ call[r][c].approved = "no")
                => ran[r][c] = 0 /\ thread[r][c] = "none"
        /\ status[r] = "rejected" => \E c \in CallId :
                call[r][c].gate = "human" /\ call[r][c].approved = "no"

(* One tool call is handed to its backend at most once, across timeouts,   *)
(* repeated ids, late approvals and restarts.                              *)
AtMostOnce == \A r \in Run, c \in CallId : ran[r][c] <= 1

(* After cancel_requested is set at most one more tool call of the run     *)
(* begins: the one already handed to a worker (_invoke_tool_bounded: a     *)
(* cancel must not "leave this run free to start the next write").         *)
LateStartBound == \A r \in Run : late[r] <= 1

(* Threads that never come back are bounded: the check before a tool       *)
(* starts reads the counter the threads themselves maintain, so only the   *)
(* calls that passed it together can exceed it.                            *)
ThreadBound ==
    Cardinality(StuckToolThreads) < MaxStuck + Cardinality(Run)

(* The gate of a call as RunContract sees it. *)
GateOf(r, c) ==
    LET row == call[r][c]
    IN  IF ran[r][c] > 0 THEN "handed"
        ELSE IF row.gate = "none" THEN "idle"
        ELSE IF row.gate = "policy" \/ row.consumed THEN "cleared"
        ELSE IF row.approved = "null" THEN "pending"
        ELSE IF row.approved = "yes" THEN "granted" ELSE "refused"

gateOf == [r \in Run |-> [c \in CallId |-> GateOf(r, c)]]

Contract == INSTANCE RunContract WITH gate <- gateOf

(* Task, polls, threads and loop together keep the contract of a run: the  *)
(* row follows RUN_TRANSITIONS, each call passes its gate once, and the    *)
(* two agree at every step.                                                *)
KeepsContract == Contract!Spec

(* A run whose task the loop has begun ends: its row becomes terminal or   *)
(* is deleted (_execute and its deadline).                                 *)
BegunRunEnds == \A r \in Run : Begun(r) ~> ~Live(r)
=============================================================================
