--------------------------- MODULE AgentRunProofs ---------------------------
(***************************************************************************)
(* Proofs about AgentRun for any sets of runs, calls, tools and arguments  *)
(* and any bounds: IInv is inductive, and with it the typing, the approval *)
(* gate, at-most-once and the bound on late starts follow.  First typing,  *)
(* then GateInv, each with one step per action.                            *)
(***************************************************************************)
EXTENDS AgentRunInvariant, FiniteSetTheorems, TLAPS

-----------------------------------------------------------------------------
(* Rows *)

LEMMA SetRowType ==
    ASSUME call \in [Run -> [CallId -> CallRow]], NEW r \in Run, NEW c \in CallId,
           NEW row \in CallRow, SetRow(r, c, row)
    PROVE  call' \in [Run -> [CallId -> CallRow]]
  BY DEF SetRow

LEMMA RowFields ==
    ASSUME NEW row \in CallRow, NEW s \in CallStatus
    PROVE  /\ \A g \in {"policy", "human"} : [row EXCEPT !.gate = g] \in CallRow
           /\ [row EXCEPT !.st = s] \in CallRow
           /\ [row EXCEPT !.consumed = TRUE, !.st = s] \in CallRow
           /\ \A v \in {"yes", "no"} : [row EXCEPT !.approved = v, !.st = s] \in CallRow
  BY DEF CallRow

LEMMA NewRow ==
    ASSUME NEW t \in Tool, NEW a \in Args
    PROVE  [NoRow EXCEPT !.st = "proposed", !.tool = t, !.args = a] \in CallRow
  BY DEF CallRow, NoRow, CallStatus

(* Abandoning a run leaves its threads well typed. *)
LEMMA AbandonedType ==
    ASSUME TypeOK, NEW r \in Run
    PROVE  Abandoned(r) \in [CallId -> ThreadState]
  BY DEF TypeOK, Abandoned, ThreadState

-----------------------------------------------------------------------------
(* Typing *)

LEMMA TypeInit == Init => TypeInv
  BY ConstantsAssumption
     DEF Init, TypeInv, TypeOK, RoundInv, Handling, OnCall, NoRow, CallRow,
         CallStatus, TaskPC, Suspended, ThreadState

LEMMA FinishType ==
    ASSUME TypeInv, NEW r \in Run, NEW s \in RunStatus, Finish(r, s),
           call' \in [Run -> [CallId -> CallRow]]
    PROVE  TypeInv'
  <1>1. thread' \in [Run -> [CallId -> ThreadState]]
    BY AbandonedType DEF TypeInv, TypeOK, Finish
  <1>2. status' \in [Run -> RunStatus \cup {"absent", "gone"}]
    BY DEF TypeInv, TypeOK, Finish
  <1> QED
    BY <1>1, <1>2
       DEF TypeInv, TypeOK, Finish, history, RoundInv, Handling, OnCall, TaskPC,
           Suspended

(* Every step of a task keeps the typing. *)
LEMMA TaskType ==
    ASSUME TypeInv, NEW r \in Run, TaskStep(r)
    PROVE  TypeInv'
  <1> USE ConstantsAssumption
  <1> USE DEF TypeInv, Steps, GoTo, SetStatus, store, history
  <1>1. CASE Begin(r)
    BY <1>1 DEF Begin, TypeOK, RoundInv, Handling, OnCall, TaskPC, Suspended,
                RunStatus, ThreadState
  <1>2. CASE RoundBegins(r)
    BY <1>2 DEF RoundBegins, TypeOK, RoundInv, Handling, OnCall, TaskPC, Suspended,
                RunStatus, ThreadState
  <1>3. CASE AnswerHasCalls(r)
    BY <1>3 DEF AnswerHasCalls, TypeOK, RoundInv, Handling, OnCall, TaskPC, Suspended,
                RunStatus, ThreadState
  <1>4. CASE CallOversized(r)
    BY <1>4 DEF CallOversized, TypeOK, RoundInv, Handling, OnCall, TaskPC, Suspended,
                RunStatus, ThreadState
  <1>5. CASE AwaitApproved(r)
    BY <1>5 DEF AwaitApproved, TypeOK, RoundInv, Handling, OnCall, TaskPC, Suspended,
                RunStatus, ThreadState
  <1>6. CASE NextCall(r)
    BY <1>6 DEF NextCall, TypeOK, RoundInv, Handling, OnCall, TaskPC, Suspended,
                RunStatus, ThreadState
  <1>7. CASE NextRound(r)
    BY <1>7 DEF NextRound, TypeOK, RoundInv, Handling, OnCall, TaskPC, Suspended,
                RunStatus, ThreadState
  <1>8. CASE StartTool(r)
    BY <1>8 DEF StartTool, TypeOK, RoundInv, Handling, OnCall, TaskPC, Suspended,
                RunStatus, ThreadState
  <1>9. CASE RoundCancelled(r)
    BY <1>9, FinishType DEF RoundCancelled, TypeOK, RunStatus
  <1>10. CASE StreamCancelled(r)
    BY <1>10, FinishType DEF StreamCancelled, TypeOK, RunStatus
  <1>11. CASE StreamFails(r)
    BY <1>11, FinishType DEF StreamFails, TypeOK, RunStatus
  <1>12. CASE RoundsExhausted(r)
    BY <1>12, FinishType DEF RoundsExhausted, TypeOK, RunStatus
  <1>13. CASE RunCompletes(r)
    BY <1>13, FinishType DEF RunCompletes, TypeOK, RunStatus
  <1>14. CASE CallCancelled(r)
    BY <1>14, FinishType DEF CallCancelled, TypeOK, RunStatus
  <1>15. CASE CallRefused(r)
    BY <1>15, FinishType DEF CallRefused, TypeOK, RunStatus
  <1>16. CASE AwaitCancelled(r)
    BY <1>16, FinishType DEF AwaitCancelled, TypeOK, RunStatus
  <1>17. CASE AwaitTimesOut(r)
    BY <1>17, FinishType DEF AwaitTimesOut, TypeOK, RunStatus
  <1>18. CASE ConsumeRefused(r)
    BY <1>18, FinishType DEF ConsumeRefused, TypeOK, RunStatus
  <1>19. CASE StartCancelled(r)
    BY <1>19, FinishType DEF StartCancelled, TypeOK, RunStatus
  <1>20. CASE InvokeCancelled(r)
    BY <1>20, FinishType DEF InvokeCancelled, TypeOK, RunStatus
  <1>21. CASE InvokeRaises(r)
    BY <1>21, FinishType DEF InvokeRaises, TypeOK, RunStatus
  <1>22. CASE ResultUnwanted(r)
    BY <1>22, FinishType DEF ResultUnwanted, TypeOK, RunStatus
  <1>23. CASE DeadlineExceeded(r)
    BY <1>23, FinishType DEF DeadlineExceeded, TypeOK, RunStatus
  <1>24. CASE DeliverCancel(r)
    BY <1>24, FinishType DEF DeliverCancel, TypeOK, RunStatus
  <1>25. CASE RowGone(r)
    BY <1>25, FinishType DEF RowGone, TypeOK, RunStatus
  <1>26. ASSUME NEW c \in CallId, NEW t \in Tool, NEW a \in Args, ProposeToolCall(r, c, t, a)
       PROVE  TypeInv'
    <2>1. call' \in [Run -> [CallId -> CallRow]]
      BY <1>26, NewRow, SetRowType DEF ProposeToolCall, TypeOK
    <2> QED
      BY <1>26, <2>1 DEF ProposeToolCall, TypeOK, RoundInv, Handling, OnCall,
                       TaskPC, Suspended
  <1>27. CASE PolicyApproves(r)
    <2>1. cur[r] \in CallId /\ Row(r) \in CallRow
      BY <1>27 DEF PolicyApproves, TypeOK, RoundInv, OnCall, Row
    <2>2. call' \in [Run -> [CallId -> CallRow]]
      BY <1>27, <2>1, SetRowType, RowFields DEF PolicyApproves, TypeOK, CallStatus
    <2> QED
      BY <1>27, <2>1, <2>2 DEF PolicyApproves, TypeOK, RoundInv, Handling, OnCall, TaskPC,
                            Suspended, RunStatus
  <1>28. CASE ApprovalRequired(r)
    <2>1. cur[r] \in CallId /\ Row(r) \in CallRow
      BY <1>28 DEF ApprovalRequired, TypeOK, RoundInv, OnCall, Row
    <2>2. call' \in [Run -> [CallId -> CallRow]]
      BY <1>28, <2>1, SetRowType, RowFields DEF ApprovalRequired, TypeOK, CallStatus
    <2> QED
      BY <1>28, <2>1, <2>2 DEF ApprovalRequired, TypeOK, RoundInv, Handling, OnCall, TaskPC,
                            Suspended, RunStatus
  <1>29. CASE AwaitRejected(r)
    <2>1. cur[r] \in CallId /\ Row(r) \in CallRow
      BY <1>29 DEF AwaitRejected, TypeOK, RoundInv, OnCall, Row
    <2>2. call' \in [Run -> [CallId -> CallRow]]
      BY <1>29, <2>1, SetRowType, RowFields DEF AwaitRejected, TypeOK, CallStatus
    <2> QED
      BY <1>29, <2>1, <2>2 DEF AwaitRejected, TypeOK, RoundInv, Handling, OnCall, TaskPC,
                            Suspended, RunStatus
  <1>30. CASE ConsumeApproval(r)
    <2>1. cur[r] \in CallId /\ Row(r) \in CallRow
      BY <1>30 DEF ConsumeApproval, TypeOK, RoundInv, OnCall, Row
    <2>2. call' \in [Run -> [CallId -> CallRow]]
      BY <1>30, <2>1, SetRowType, RowFields DEF ConsumeApproval, TypeOK, CallStatus
    <2> QED
      BY <1>30, <2>1, <2>2 DEF ConsumeApproval, TypeOK, RoundInv, Handling, OnCall, TaskPC,
                            Suspended, RunStatus
  <1>31. CASE InvokeReturns(r)
    <2>1. cur[r] \in CallId /\ Row(r) \in CallRow
      BY <1>31 DEF InvokeReturns, TypeOK, RoundInv, OnCall, Row
    <2>2. call' \in [Run -> [CallId -> CallRow]]
      BY <1>31, <2>1, SetRowType, RowFields DEF InvokeReturns, TypeOK, CallStatus
    <2> QED
      BY <1>31, <2>1, <2>2 DEF InvokeReturns, TypeOK, RoundInv, Handling, OnCall, TaskPC,
                            Suspended, RunStatus
  <1>32. CASE ToolWorkersStuck(r)
    <2>1. cur[r] \in CallId /\ Row(r) \in CallRow
      BY <1>32 DEF ToolWorkersStuck, TypeOK, RoundInv, OnCall, Row
    <2>2. call' \in [Run -> [CallId -> CallRow]]
      BY <1>32, <2>1, SetRowType, RowFields DEF ToolWorkersStuck, TypeOK, CallStatus
    <2> QED
      BY <1>32, <2>2, FinishType DEF ToolWorkersStuck, RunStatus
  <1>33. CASE InvokeTimesOut(r)
    <2>1. cur[r] \in CallId /\ Row(r) \in CallRow
      BY <1>33 DEF InvokeTimesOut, TypeOK, RoundInv, OnCall, Row
    <2>2. call' \in [Run -> [CallId -> CallRow]]
      BY <1>33, <2>1, SetRowType, RowFields DEF InvokeTimesOut, TypeOK, CallStatus
    <2>3. thread' \in [Run -> [CallId -> ThreadState]]
      BY <1>33, AbandonedType DEF InvokeTimesOut, TypeOK
    <2> QED
      BY <1>33, <2>2, <2>3 DEF InvokeTimesOut, TypeOK, RoundInv, Handling, OnCall,
                            TaskPC, Suspended
  <1> QED
    BY <1>1, <1>2, <1>3, <1>4, <1>5, <1>6, <1>7, <1>8, <1>9,
       <1>10, <1>11, <1>12, <1>13, <1>14, <1>15, <1>16, <1>17, <1>18, <1>19,
       <1>20, <1>21, <1>22, <1>23, <1>24, <1>25, <1>26, <1>27, <1>28, <1>29,
       <1>30, <1>31, <1>32, <1>33
    DEF TaskStep

(* So do the worker threads, ... *)
LEMMA ThreadType ==
    ASSUME TypeInv, NEW r \in Run, ThreadStep(r)
    PROVE  TypeInv'
  <1> USE DEF TypeInv, TypeOK, RoundInv, store, task, history, ThreadState
  <1>1. ASSUME NEW c \in CallId, ThreadStarts(r, c)
       PROVE  TypeInv'
    BY <1>1 DEF ThreadStarts
  <1>2. ASSUME NEW c \in CallId, ThreadEnds(r, c)
       PROVE  TypeInv'
    BY <1>2 DEF ThreadEnds
  <1> QED
    BY <1>1, <1>2 DEF ThreadStep

(* ... and everything that reaches a run from outside its task. *)
LEMMA EnvironmentType ==
    ASSUME TypeInv, NEW r \in Run, Environment(r)
    PROVE  TypeInv'
  <1> USE ConstantsAssumption
  <1> USE DEF TypeInv, RoundInv, Handling, OnCall, store, task, history,
              SetStatus, GoTo
  <1>1. CASE StartRun(r)
    BY <1>1 DEF StartRun, TypeOK, TaskPC, Suspended, RunStatus
  <1>2. CASE Cancel(r)
    BY <1>2 DEF Cancel, CancelTask, TypeOK, TaskPC, Suspended
  <1>3. CASE MarkCancelRequested(r)
    BY <1>3 DEF MarkCancelRequested, TypeOK
  <1>4. CASE SchedulerTimeout(r)
    BY <1>4 DEF SchedulerTimeout, CancelTask, TypeOK, TaskPC, Suspended, RunStatus
  <1>5. CASE DeleteThread(r)
    BY <1>5 DEF DeleteThread, TypeOK
  <1>6. ASSUME NEW c \in CallId, NEW a \in Args, NEW v \in Verdicts, Decide(r, c, a, v)
       PROVE  TypeInv'
    <2>1. /\ call[r][c] \in CallRow /\ v \in {"yes", "no"}
          /\ (IF v = "yes" THEN "approved" ELSE "rejected") \in CallStatus
      BY <1>6 DEF TypeOK, CallStatus
    <2>2. call' \in [Run -> [CallId -> CallRow]]
      BY <1>6, <2>1, SetRowType, RowFields DEF Decide, TypeOK
    <2>3. agreed' \in SUBSET (Run \X CallId \X Args)
      BY <1>6 DEF Decide, TypeOK
    <2> QED
      BY <1>6, <2>2, <2>3 DEF Decide, TypeOK
  <1> QED
    BY <1>1, <1>2, <1>3, <1>4, <1>5, <1>6 DEF Environment

LEMMA TypeStep ==
    ASSUME TypeInv, [Next]_vars
    PROVE  TypeInv'
  <1>1. ASSUME NEW s \in SUBSET (Tool \ ReadOnly), ChangePolicy(s)
       PROVE  TypeInv'
    BY <1>1 DEF ChangePolicy, TypeInv, TypeOK, RoundInv, store, task, history
  <1>2. ASSUME NEW ended \in SUBSET Run, Restart(ended)
       PROVE  TypeInv'
    <2>1. thread' \in [Run -> [CallId -> ThreadState]]
      BY <1>2, AbandonedType DEF Restart, TypeInv, TypeOK, ThreadState
    <2>2. status' \in [Run -> RunStatus \cup {"absent", "gone"}]
      BY <1>2 DEF Restart, TypeInv, TypeOK, RunStatus
    <2> QED
      BY <1>2, <2>1, <2>2 DEF Restart, TypeInv, TypeOK, RoundInv, Handling, OnCall,
                              TaskPC, Suspended, history
  <1>3. CASE UNCHANGED vars
    BY <1>3 DEF vars, TypeInv, TypeOK, RoundInv
  <1> QED
    BY <1>1, <1>2, <1>3, TaskType, ThreadType, EnvironmentType
       DEF Next, Crash, Shutdown

(* Every variable keeps its type, and no answer is handled past the bound  *)
(* on tool rounds (_run_loop).                                             *)
THEOREM TypeCorrect == Spec => []TypeOK
  <1>1. TypeInv /\ [Next]_vars => TypeInv'
    BY TypeStep
  <1>2. TypeInv => TypeOK
    BY DEF TypeInv
  <1> QED
    BY TypeInit, <1>1, <1>2, PTL DEF Spec

-----------------------------------------------------------------------------
(* The gate *)

(* SetRow writes one row and no other. *)
LEMMA SetRowAt ==
    ASSUME call \in [Run -> [CallId -> CallRow]], NEW r \in Run, NEW c \in CallId,
           NEW row, SetRow(r, c, row)
    PROVE  /\ call'[r][c] = row
           /\ \A q \in Run, d \in CallId :
                 (q # r \/ d # c) => call'[q][d] = call[q][d]
  BY DEF SetRow

(* The row of a call stays as it was, or is only given another status. *)
SameGate(q, c) ==
    \/ call'[q][c] = call[q][c]
    \/ /\ call[q][c].st # "none" /\ call'[q][c].st # "none"
       /\ call'[q][c].approved = call[q][c].approved
       /\ call'[q][c].consumed = call[q][c].consumed
       /\ call'[q][c].tool = call[q][c].tool
       /\ call'[q][c].args = call[q][c].args
       /\ call'[q][c].gate = call[q][c].gate

(* Its thread does nothing new, and nothing is handed to its backend. *)
ThreadKept(q, c) ==
    /\ thread'[q][c] \in {thread[q][c], "none"}
          \/ (thread[q][c] = "running" /\ thread'[q][c] = "done")
    /\ ran'[q][c] = ran[q][c]

(* Such a step keeps what CallInv says of the call, *)
LEMMA CallKept ==
    ASSUME NEW q \in Run, NEW c \in CallId, CallInv(q, c),
           SameGate(q, c), ThreadKept(q, c), agreed \subseteq agreed'
    PROVE  CallInv(q, c)'
  BY DEF CallInv, Cleared, SameGate, ThreadKept, NoRow

(* and the reason of a rejection. *)
LEMMA RejectKept ==
    ASSUME NEW q \in Run, RejectInv(q), \A c \in CallId : SameGate(q, c),
           status'[q] = "rejected" => status[q] = "rejected"
    PROVE  RejectInv(q)'
  BY DEF RejectInv, SameGate

(* An UPDATE that sets only the status of the call being handled *)
LEMMA StatusUpdate ==
    ASSUME TypeInv, NEW r \in Run, pc[r] \in OnCall, NEW s \in CallStatus \ {"none"},
           SetRow(r, cur[r], [Row(r) EXCEPT !.st = s]), Row(r).st # "none"
    PROVE  \A q \in Run, c \in CallId : SameGate(q, c)
  <1> DEFINE row == [Row(r) EXCEPT !.st = s]
  <1>1. cur[r] \in CallId /\ Row(r) \in CallRow
    BY DEF TypeInv, TypeOK, RoundInv, Row
  <1>2. /\ call'[r][cur[r]] = row
        /\ \A q \in Run, d \in CallId :
              (q # r \/ d # cur[r]) => call'[q][d] = call[q][d]
    BY <1>1, SetRowAt DEF TypeInv, TypeOK
  <1>3. /\ row.st # "none" /\ row.approved = Row(r).approved
        /\ row.consumed = Row(r).consumed /\ row.tool = Row(r).tool
        /\ row.args = Row(r).args /\ row.gate = Row(r).gate
    BY <1>1 DEF CallRow
  <1> QED
    BY <1>2, <1>3 DEF SameGate, Row

LEMMA NoRowFields ==
    NoRow.st = "none" /\ NoRow.gate = "none" /\ NoRow.approved = "null"
  BY DEF NoRow

LEMMA GateInit == Init => GateInv
  BY DEF Init, GateInv, TaskInv, RejectInv, LateInv, CallInv, Cleared, NoRow

(* However a task ends, the calls are left as they were and what has not   *)
(* started never will.                                                     *)
LEMMA FinishGate ==
    ASSUME IInv, NEW r \in Run, NEW s \in RunStatus \ {"rejected"}, Finish(r, s), status[r] # "absent",
           \A q \in Run, c \in CallId : SameGate(q, c),
           \A q \in Run : q # r => call'[q] = call[q]
    PROVE  GateInv'
  <1> SUFFICES ASSUME NEW q \in Run
               PROVE  /\ TaskInv(q)' /\ RejectInv(q)' /\ LateInv(q)'
                      /\ \A c \in CallId : CallInv(q, c)'
    BY DEF GateInv
  <1>1. TaskInv(q)'
    <2>1. CASE q = r
      BY <2>1 DEF Finish, TaskInv, TypeInv, TypeOK, IInv, RunStatus
    <2>2. CASE q # r
      BY <2>2 DEF IInv, GateInv, TaskInv, Cleared, Row, Finish, history, TypeInv,
                  TypeOK
    <2> QED
      BY <2>1, <2>2
  <1>2. RejectInv(q)'
    BY RejectKept DEF IInv, GateInv, Finish, TypeInv, TypeOK, Live
  <1>3. LateInv(q)'
    BY DEF IInv, GateInv, LateInv, Finish, history, Abandoned, TypeInv, TypeOK
  <1>4. \A c \in CallId : ThreadKept(q, c)
    BY DEF IInv, Finish, history, Abandoned, ThreadKept, TypeInv, TypeOK
  <1> QED
    BY <1>1, <1>2, <1>3, <1>4, CallKept DEF IInv, GateInv, Finish, history

LEMMA TaskGate ==
    ASSUME IInv, NEW r \in Run, TaskStep(r)
    PROVE  GateInv'
  <1> USE DEF IInv, TypeInv, Steps, GoTo, SetStatus, store, history
  <1>1. CASE RoundCancelled(r)
    BY <1>1, FinishGate DEF RoundCancelled, SameGate, RunStatus, GateInv, TaskInv
  <1>2. CASE StreamCancelled(r)
    BY <1>2, FinishGate DEF StreamCancelled, SameGate, RunStatus, GateInv, TaskInv
  <1>3. CASE StreamFails(r)
    BY <1>3, FinishGate DEF StreamFails, SameGate, RunStatus, GateInv, TaskInv
  <1>4. CASE RoundsExhausted(r)
    BY <1>4, FinishGate DEF RoundsExhausted, SameGate, RunStatus, GateInv, TaskInv
  <1>5. CASE RunCompletes(r)
    BY <1>5, FinishGate DEF RunCompletes, SameGate, RunStatus, GateInv, TaskInv
  <1>6. CASE CallCancelled(r)
    BY <1>6, FinishGate DEF CallCancelled, SameGate, RunStatus, GateInv, TaskInv
  <1>7. CASE CallRefused(r)
    BY <1>7, FinishGate DEF CallRefused, SameGate, RunStatus, GateInv, TaskInv
  <1>8. CASE AwaitCancelled(r)
    BY <1>8, FinishGate DEF AwaitCancelled, SameGate, RunStatus, GateInv, TaskInv
  <1>9. CASE AwaitTimesOut(r)
    BY <1>9, FinishGate DEF AwaitTimesOut, SameGate, RunStatus, GateInv, TaskInv
  <1>10. CASE ConsumeRefused(r)
    BY <1>10, FinishGate DEF ConsumeRefused, SameGate, RunStatus, GateInv, TaskInv
  <1>11. CASE StartCancelled(r)
    BY <1>11, FinishGate DEF StartCancelled, SameGate, RunStatus, GateInv, TaskInv
  <1>12. CASE InvokeCancelled(r)
    BY <1>12, FinishGate DEF InvokeCancelled, SameGate, RunStatus, GateInv, TaskInv
  <1>13. CASE InvokeRaises(r)
    BY <1>13, FinishGate DEF InvokeRaises, SameGate, RunStatus, GateInv, TaskInv
  <1>14. CASE ResultUnwanted(r)
    BY <1>14, FinishGate DEF ResultUnwanted, SameGate, RunStatus, GateInv, TaskInv
  <1>15. CASE DeadlineExceeded(r)
    BY <1>15, FinishGate DEF DeadlineExceeded, SameGate, RunStatus, GateInv, TaskInv
  <1>16. CASE DeliverCancel(r)
    BY <1>16, FinishGate DEF DeliverCancel, SameGate, RunStatus, GateInv, TaskInv
  <1>17. CASE RowGone(r)
    BY <1>17, FinishGate DEF RowGone, SameGate, RunStatus, GateInv, TaskInv
  <1>18. CASE Begin(r)
    <2>1. \A q \in Run : TaskInv(q)' /\ LateInv(q)' /\ RejectInv(q)'
      BY <1>18 DEF Begin, TypeOK, GateInv, TaskInv, LateInv, RejectInv, Cleared, Row
    <2>2. \A q \in Run, c \in CallId : CallInv(q, c)'
      BY <1>18, CallKept DEF Begin, GateInv, SameGate, ThreadKept
    <2> QED
      BY <2>1, <2>2 DEF GateInv
  <1>19. CASE RoundBegins(r)
    <2>1. \A q \in Run : TaskInv(q)' /\ LateInv(q)' /\ RejectInv(q)'
      BY <1>19 DEF RoundBegins, TypeOK, GateInv, TaskInv, LateInv, RejectInv, Cleared, Row
    <2>2. \A q \in Run, c \in CallId : CallInv(q, c)'
      BY <1>19, CallKept DEF RoundBegins, GateInv, SameGate, ThreadKept
    <2> QED
      BY <2>1, <2>2 DEF GateInv
  <1>20. CASE AnswerHasCalls(r)
    <2>1. \A q \in Run : TaskInv(q)' /\ LateInv(q)' /\ RejectInv(q)'
      BY <1>20 DEF AnswerHasCalls, TypeOK, GateInv, TaskInv, LateInv, RejectInv, Cleared, Row
    <2>2. \A q \in Run, c \in CallId : CallInv(q, c)'
      BY <1>20, CallKept DEF AnswerHasCalls, GateInv, SameGate, ThreadKept
    <2> QED
      BY <2>1, <2>2 DEF GateInv
  <1>21. CASE CallOversized(r)
    <2>1. \A q \in Run : TaskInv(q)' /\ LateInv(q)' /\ RejectInv(q)'
      BY <1>21 DEF CallOversized, TypeOK, GateInv, TaskInv, LateInv, RejectInv, Cleared, Row
    <2>2. \A q \in Run, c \in CallId : CallInv(q, c)'
      BY <1>21, CallKept DEF CallOversized, GateInv, SameGate, ThreadKept
    <2> QED
      BY <2>1, <2>2 DEF GateInv
  <1>22. CASE NextCall(r)
    <2>1. \A q \in Run : TaskInv(q)' /\ LateInv(q)' /\ RejectInv(q)'
      BY <1>22 DEF NextCall, TypeOK, GateInv, TaskInv, LateInv, RejectInv, Cleared, Row
    <2>2. \A q \in Run, c \in CallId : CallInv(q, c)'
      BY <1>22, CallKept DEF NextCall, GateInv, SameGate, ThreadKept
    <2> QED
      BY <2>1, <2>2 DEF GateInv
  <1>23. CASE NextRound(r)
    <2>1. \A q \in Run : TaskInv(q)' /\ LateInv(q)' /\ RejectInv(q)'
      BY <1>23 DEF NextRound, TypeOK, GateInv, TaskInv, LateInv, RejectInv, Cleared, Row
    <2>2. \A q \in Run, c \in CallId : CallInv(q, c)'
      BY <1>23, CallKept DEF NextRound, GateInv, SameGate, ThreadKept
    <2> QED
      BY <2>1, <2>2 DEF GateInv
  <1>24. CASE AwaitApproved(r)
    <2>1. \A q \in Run : TaskInv(q)' /\ LateInv(q)' /\ RejectInv(q)'
      BY <1>24 DEF AwaitApproved, TypeOK, GateInv, TaskInv, LateInv, RejectInv, Cleared, Row
    <2>2. \A q \in Run, c \in CallId : CallInv(q, c)'
      BY <1>24, CallKept DEF AwaitApproved, GateInv, SameGate, ThreadKept
    <2> QED
      BY <2>1, <2>2 DEF GateInv
  <1>25. CASE AwaitRejected(r)
    <2>1. \A q \in Run, c \in CallId : SameGate(q, c)
      BY <1>25, StatusUpdate DEF AwaitRejected, OnCall, CallStatus, GateInv, TaskInv
    <2>2. /\ cur[r] \in CallId /\ Row(r).gate = "human"
          /\ \A q \in Run : q # r => call'[q] = call[q]
      BY <1>25 DEF AwaitRejected, OnCall, SetRow, TypeOK, RoundInv, GateInv, TaskInv
    <2>3. \A q \in Run, c \in CallId : CallInv(q, c)'
      BY <1>25, <2>1, CallKept DEF AwaitRejected, GateInv, ThreadKept
    <2>4. RejectInv(r)'
      BY <1>25, <2>1, <2>2 DEF AwaitRejected, RejectInv, SameGate, Row
    <2>5. \A q \in Run : q # r => RejectInv(q)'
      BY <1>25, <2>1, RejectKept DEF AwaitRejected, GateInv, TypeOK
    <2>6. \A q \in Run : TaskInv(q)' /\ LateInv(q)'
      BY <1>25, <2>2 DEF AwaitRejected, TypeOK, GateInv, TaskInv, LateInv, Cleared, Row
    <2> QED
      BY <2>3, <2>4, <2>5, <2>6 DEF GateInv
  <1>26. CASE InvokeReturns(r)
    <2>1. CallInv(r, cur[r]) /\ cur[r] \in CallId
      BY <1>26 DEF InvokeReturns, OnCall, TypeOK, RoundInv, GateInv
    <2>2. Row(r).st # "none"
      BY <1>26, <2>1 DEF InvokeReturns, CallInv, Cleared, Row, NoRow
    <2>3. \A q \in Run, c \in CallId : SameGate(q, c)
      BY <1>26, <2>2, StatusUpdate DEF InvokeReturns, OnCall, CallStatus
    <2>4. \A q \in Run : q # r => call'[q] = call[q]
      BY <1>26 DEF InvokeReturns, SetRow, TypeOK
    <2>5. \A q \in Run, c \in CallId : ThreadKept(q, c)
      BY <1>26 DEF InvokeReturns, Abandoned, ThreadKept, TypeOK
    <2>6. \A q \in Run : RejectInv(q)'
      BY <1>26, <2>3, RejectKept DEF InvokeReturns, GateInv
    <2>7. \A q \in Run : TaskInv(q)' /\ LateInv(q)'
      BY <1>26, <2>4 DEF InvokeReturns, Abandoned, TypeOK, GateInv, TaskInv, LateInv, Cleared, Row
    <2> QED
      BY <1>26, <2>3, <2>5, <2>6, <2>7, CallKept DEF InvokeReturns, GateInv
  <1>27. CASE InvokeTimesOut(r)
    <2>1. CallInv(r, cur[r]) /\ cur[r] \in CallId
      BY <1>27 DEF InvokeTimesOut, OnCall, TypeOK, RoundInv, GateInv
    <2>2. Row(r).st # "none"
      BY <1>27, <2>1 DEF InvokeTimesOut, CallInv, Cleared, Row, NoRow
    <2>3. \A q \in Run, c \in CallId : SameGate(q, c)
      BY <1>27, <2>2, StatusUpdate DEF InvokeTimesOut, OnCall, CallStatus
    <2>4. \A q \in Run : q # r => call'[q] = call[q]
      BY <1>27 DEF InvokeTimesOut, SetRow, TypeOK
    <2>5. \A q \in Run, c \in CallId : ThreadKept(q, c)
      BY <1>27 DEF InvokeTimesOut, Abandoned, ThreadKept, TypeOK
    <2>6. \A q \in Run : RejectInv(q)'
      BY <1>27, <2>3, RejectKept DEF InvokeTimesOut, GateInv
    <2>7. \A q \in Run : TaskInv(q)' /\ LateInv(q)'
      BY <1>27, <2>4 DEF InvokeTimesOut, Abandoned, TypeOK, GateInv, TaskInv, LateInv, Cleared, Row
    <2> QED
      BY <1>27, <2>3, <2>5, <2>6, <2>7, CallKept DEF InvokeTimesOut, GateInv
  <1>28. CASE ToolWorkersStuck(r)
    <2>1. \A q \in Run, c \in CallId : SameGate(q, c)
      BY <1>28, StatusUpdate DEF ToolWorkersStuck, OnCall, CallStatus, GateInv, TaskInv
    <2>2. \A q \in Run : q # r => call'[q] = call[q]
      BY <1>28 DEF ToolWorkersStuck, SetRow, TypeOK
    <2> QED
      BY <1>28, <2>1, <2>2, FinishGate DEF ToolWorkersStuck, RunStatus, GateInv, TaskInv
  <1>29. ASSUME NEW c \in CallId, NEW t \in Tool, NEW a \in Args,
              ProposeToolCall(r, c, t, a)
       PROVE  GateInv'
    <2> DEFINE row == [NoRow EXCEPT !.st = "proposed", !.tool = t, !.args = a]
    <2>1. call[r][c] = NoRow /\ thread[r][c] = "none" /\ ran[r][c] = 0
      <3>1. call[r][c] = NoRow /\ CallInv(r, c)
        BY <1>29 DEF ProposeToolCall, GateInv, CallInv
      <3>2. ~Cleared(r, c)
        BY <3>1, NoRowFields DEF Cleared
      <3>3. thread[r][c] = "none" /\ ~(ran[r][c] > 0)
        BY <3>1, <3>2 DEF CallInv
      <3>4. ran[r][c] \in Nat
        BY DEF TypeOK
      <3> QED
        BY <3>1, <3>3, <3>4
    <2>2. /\ call'[r][c] = row
          /\ \A q \in Run, d \in CallId : (q # r \/ d # c) => call'[q][d] = call[q][d]
      BY <1>29, SetRowAt DEF ProposeToolCall, TypeOK
    <2>3. row.st = "proposed" /\ row.approved = "null" /\ row.gate = "none"
      BY DEF NoRow
    <2> HIDE DEF row
    <2>4. /\ \A q \in Run : q # r => pc'[q] = pc[q] /\ cur'[q] = cur[q]
          /\ pc'[r] = "gate" /\ cur'[r] = c
      BY <1>29 DEF ProposeToolCall, TypeOK
    <2>5. TaskInv(r)' /\ CallInv(r, c)' /\ LateInv(r)'
      <3>1. TaskInv(r)'
        BY <1>29, <2>1, <2>2, <2>3, <2>4 DEF ProposeToolCall, TaskInv, Row, GateInv
      <3>2. CallInv(r, c)'
        BY <1>29, <2>1, <2>2, <2>3 DEF ProposeToolCall, CallInv
      <3>3. LateInv(r)'
        BY <1>29, <2>4 DEF ProposeToolCall, LateInv, GateInv
      <3> QED
        BY <3>1, <3>2, <3>3
    <2>6. \A q \in Run : q # r => TaskInv(q)' /\ LateInv(q)'
      BY <1>29, <2>2, <2>4
         DEF ProposeToolCall, TaskInv, LateInv, Row, Cleared, GateInv, TypeOK, RoundInv,
             OnCall
    <2>7. \A q \in Run, d \in CallId : (q # r \/ d # c) => CallInv(q, d)'
      BY <1>29, <2>2, CallKept DEF ProposeToolCall, GateInv, SameGate, ThreadKept
    <2>8. \A q \in Run : RejectInv(q)'
      BY <1>29, <2>1, <2>2 DEF ProposeToolCall, GateInv, RejectInv, NoRow
    <2> QED
      BY <2>5, <2>6, <2>7, <2>8 DEF GateInv
  <1>30. CASE PolicyApproves(r)
    <2> DEFINE row == [Row(r) EXCEPT !.gate = "policy"]
    <2>0. PICK c \in CallId : c = cur[r]
      BY <1>30 DEF PolicyApproves, OnCall, RoundInv
    <2>1. cur[r] \in CallId /\ Row(r) \in CallRow /\ CallInv(r, cur[r])
      BY <1>30 DEF PolicyApproves, OnCall, TypeOK, RoundInv, GateInv, Row
    <2>2. /\ call'[r][cur[r]] = row
          /\ \A q \in Run, d \in CallId :
                (q # r \/ d # cur[r]) => call'[q][d] = call[q][d]
      BY <1>30, <2>1, SetRowAt DEF PolicyApproves, TypeOK
    <2>3. /\ row.st = Row(r).st /\ row.approved = Row(r).approved
          /\ row.args = Row(r).args /\ row.tool = Row(r).tool
          /\ row.gate = "policy"
      BY <2>1 DEF CallRow
    <2>4. \A q \in Run : q # r => pc'[q] = pc[q]
      BY <1>30 DEF PolicyApproves, TypeOK
    <2>5. TaskInv(r)' /\ LateInv(r)'
      BY <1>30, <2>1, <2>2, <2>3
         DEF PolicyApproves, TaskInv, LateInv, Row, Cleared, GateInv, TypeOK, Approves,
             Consumable
    <2>6. CallInv(r, c)'
      BY <1>30, <2>0, <2>1, <2>2, <2>3 DEF PolicyApproves, CallInv, TaskInv, Row, GateInv, TypeOK
    <2>7. \A q \in Run : q # r => TaskInv(q)' /\ LateInv(q)'
      BY <1>30, <2>2, <2>4
         DEF PolicyApproves, TaskInv, LateInv, Row, Cleared, GateInv, TypeOK, RoundInv,
             OnCall
    <2>8. \A q \in Run, d \in CallId : (q # r \/ d # c) => CallInv(q, d)'
      BY <1>30, <2>0, <2>2, CallKept DEF PolicyApproves, GateInv, SameGate, ThreadKept
    <2>9. \A q \in Run : RejectInv(q)'
      <3>1. \A q \in Run, d \in CallId :
               call[q][d].gate = "human" /\ call[q][d].approved = "no" =>
                  call'[q][d].gate = "human" /\ call'[q][d].approved = "no"
        BY <1>30, <2>1, <2>2, <2>3 DEF Row, PolicyApproves, GateInv, TaskInv
      <3> QED
        BY <1>30, <3>1 DEF PolicyApproves, GateInv, RejectInv, TypeOK
    <2>10. \A q \in Run : TaskInv(q)' /\ LateInv(q)'
      BY <2>5, <2>7
    <2>11. \A q \in Run, d \in CallId : CallInv(q, d)'
      BY <2>6, <2>8
    <2> QED
      BY <2>9, <2>10, <2>11 DEF GateInv
  <1>31. CASE ApprovalRequired(r)
    <2> DEFINE row == [Row(r) EXCEPT !.gate = "human"]
    <2>0. PICK c \in CallId : c = cur[r]
      BY <1>31 DEF ApprovalRequired, OnCall, RoundInv
    <2>1. cur[r] \in CallId /\ Row(r) \in CallRow /\ CallInv(r, cur[r])
      BY <1>31 DEF ApprovalRequired, OnCall, TypeOK, RoundInv, GateInv, Row
    <2>2. /\ call'[r][cur[r]] = row
          /\ \A q \in Run, d \in CallId :
                (q # r \/ d # cur[r]) => call'[q][d] = call[q][d]
      BY <1>31, <2>1, SetRowAt DEF ApprovalRequired, TypeOK
    <2>3. /\ row.st = Row(r).st /\ row.approved = Row(r).approved
          /\ row.args = Row(r).args /\ row.tool = Row(r).tool
          /\ row.gate = "human"
      BY <2>1 DEF CallRow
    <2>4. \A q \in Run : q # r => pc'[q] = pc[q]
      BY <1>31 DEF ApprovalRequired, TypeOK
    <2>5. TaskInv(r)' /\ LateInv(r)'
      BY <1>31, <2>1, <2>2, <2>3
         DEF ApprovalRequired, TaskInv, LateInv, Row, Cleared, GateInv, TypeOK, Approves,
             Consumable
    <2>6. CallInv(r, c)'
      BY <1>31, <2>0, <2>1, <2>2, <2>3 DEF ApprovalRequired, CallInv, TaskInv, Row, GateInv, TypeOK
    <2>7. \A q \in Run : q # r => TaskInv(q)' /\ LateInv(q)'
      BY <1>31, <2>2, <2>4
         DEF ApprovalRequired, TaskInv, LateInv, Row, Cleared, GateInv, TypeOK, RoundInv,
             OnCall
    <2>8. \A q \in Run, d \in CallId : (q # r \/ d # c) => CallInv(q, d)'
      BY <1>31, <2>0, <2>2, CallKept DEF ApprovalRequired, GateInv, SameGate, ThreadKept
    <2>9. \A q \in Run : RejectInv(q)'
      <3>1. \A q \in Run, d \in CallId :
               call[q][d].gate = "human" /\ call[q][d].approved = "no" =>
                  call'[q][d].gate = "human" /\ call'[q][d].approved = "no"
        BY <1>31, <2>1, <2>2, <2>3 DEF Row, ApprovalRequired, GateInv, TaskInv
      <3> QED
        BY <1>31, <3>1 DEF ApprovalRequired, GateInv, RejectInv, TypeOK
    <2>10. \A q \in Run : TaskInv(q)' /\ LateInv(q)'
      BY <2>5, <2>7
    <2>11. \A q \in Run, d \in CallId : CallInv(q, d)'
      BY <2>6, <2>8
    <2> QED
      BY <2>9, <2>10, <2>11 DEF GateInv
  <1>32. CASE ConsumeApproval(r)
    <2> DEFINE row == [Row(r) EXCEPT !.consumed = TRUE, !.st = "executing"]
    <2>0. PICK c \in CallId : c = cur[r]
      BY <1>32 DEF ConsumeApproval, OnCall, RoundInv
    <2>1. cur[r] \in CallId /\ Row(r) \in CallRow /\ CallInv(r, cur[r])
      BY <1>32 DEF ConsumeApproval, OnCall, TypeOK, RoundInv, GateInv, Row
    <2>2. /\ call'[r][cur[r]] = row
          /\ \A q \in Run, d \in CallId :
                (q # r \/ d # cur[r]) => call'[q][d] = call[q][d]
      BY <1>32, <2>1, SetRowAt DEF ConsumeApproval, TypeOK
    <2>3. /\ row.st = "executing" /\ row.consumed
          /\ row.approved = Row(r).approved /\ row.gate = Row(r).gate
          /\ row.args = Row(r).args
      BY <2>1 DEF CallRow
    <2>4. \A q \in Run : q # r => pc'[q] = pc[q]
      BY <1>32 DEF ConsumeApproval, TypeOK
    <2>5. TaskInv(r)' /\ LateInv(r)'
      BY <1>32, <2>1, <2>2, <2>3
         DEF ConsumeApproval, TaskInv, LateInv, Row, Cleared, GateInv, TypeOK, Approves,
             Consumable
    <2>6. CallInv(r, c)'
      BY <1>32, <2>0, <2>1, <2>2, <2>3 DEF ConsumeApproval, CallInv, TaskInv, Row, GateInv, TypeOK
    <2>7. \A q \in Run : q # r => TaskInv(q)' /\ LateInv(q)'
      BY <1>32, <2>2, <2>4
         DEF ConsumeApproval, TaskInv, LateInv, Row, Cleared, GateInv, TypeOK, RoundInv,
             OnCall
    <2>8. \A q \in Run, d \in CallId : (q # r \/ d # c) => CallInv(q, d)'
      BY <1>32, <2>0, <2>2, CallKept DEF ConsumeApproval, GateInv, SameGate, ThreadKept
    <2>9. \A q \in Run : RejectInv(q)'
      <3>1. \A q \in Run, d \in CallId :
               call[q][d].gate = "human" /\ call[q][d].approved = "no" =>
                  call'[q][d].gate = "human" /\ call'[q][d].approved = "no"
        BY <2>1, <2>2, <2>3 DEF Row
      <3> QED
        BY <1>32, <3>1 DEF ConsumeApproval, GateInv, RejectInv, TypeOK
    <2>10. \A q \in Run : TaskInv(q)' /\ LateInv(q)'
      BY <2>5, <2>7
    <2>11. \A q \in Run, d \in CallId : CallInv(q, d)'
      BY <2>6, <2>8
    <2> QED
      BY <2>9, <2>10, <2>11 DEF GateInv
  <1>33. CASE StartTool(r)
    <2>0. PICK c \in CallId : c = cur[r]
      BY <1>33 DEF StartTool, OnCall, RoundInv
    <2>1. /\ cur[r] \in CallId /\ ~cancel[r] /\ Cleared(r, cur[r])
          /\ thread[r][cur[r]] = "none" /\ ran[r][cur[r]] = 0
      BY <1>33 DEF StartTool, OnCall, TypeOK, RoundInv, GateInv, TaskInv, CheckCancelled
    <2>2. /\ thread'[r][cur[r]] = "queued"
          /\ \A q \in Run, d \in CallId :
                (q # r \/ d # cur[r]) => thread'[q][d] = thread[q][d]
      BY <1>33, <2>1 DEF StartTool, TypeOK
    <2>3. CallInv(r, c)'
      BY <1>33, <2>0, <2>1, <2>2 DEF StartTool, CallInv, Cleared, GateInv, NoRow
    <2>4. \A q \in Run, d \in CallId : (q # r \/ d # c) => CallInv(q, d)'
      BY <1>33, <2>0, <2>2, CallKept DEF StartTool, GateInv, SameGate, ThreadKept
    <2>5. \A q \in Run : TaskInv(q)' /\ RejectInv(q)'
      BY <1>33, <2>2 DEF StartTool, TaskInv, RejectInv, Row, Cleared, GateInv, TypeOK
    <2>6. \A q \in Run : LateInv(q)'
      BY <1>33, <2>1, <2>2 DEF StartTool, LateInv, GateInv, TypeOK
    <2> QED
      BY <2>3, <2>4, <2>5, <2>6 DEF GateInv
  <1> QED
    BY <1>1, <1>2, <1>3, <1>4, <1>5, <1>6, <1>7, <1>8, <1>9, <1>10, <1>11,
       <1>12, <1>13, <1>14, <1>15, <1>16, <1>17, <1>18, <1>19, <1>20, <1>21,
       <1>22, <1>23, <1>24, <1>25, <1>26, <1>27, <1>28, <1>29, <1>30, <1>31,
       <1>32, <1>33
    DEF TaskStep

(* A worker takes its one chance to start the call, or returns. *)
LEMMA ThreadGate ==
    ASSUME IInv, NEW r \in Run, ThreadStep(r)
    PROVE  GateInv'
  <1> USE DEF IInv, TypeInv, store, task, history
  <1>1. ASSUME NEW c \in CallId, ThreadStarts(r, c)
       PROVE  GateInv'
    <2>1. /\ Cleared(r, c) /\ ran[r][c] = 0 /\ pc[r] = "invoke" /\ c = cur[r]
          /\ late[r] = 0 /\ call[r][c].st # "none"
      <3>1. Cleared(r, c) /\ ran[r][c] = 0 /\ (call[r][c].st = "none" => call[r][c] = NoRow)
        BY <1>1 DEF ThreadStarts, GateInv, CallInv
      <3>2. call[r][c].st # "none"
        BY <3>1, NoRowFields DEF Cleared
      <3>3. pc[r] = "invoke" /\ c = cur[r] /\ late[r] = 0
        BY <1>1 DEF ThreadStarts, GateInv, LateInv
      <3> QED
        BY <3>1, <3>2, <3>3
    <2>2. /\ thread'[r][c] = "running" /\ ran'[r][c] = 1
          /\ \A q \in Run, d \in CallId : (q # r \/ d # c) =>
                thread'[q][d] = thread[q][d] /\ ran'[q][d] = ran[q][d]
      BY <1>1, <2>1 DEF ThreadStarts, TypeOK
    <2>3. CallInv(r, c)'
      BY <1>1, <2>1, <2>2 DEF ThreadStarts, CallInv, Cleared, GateInv
    <2>4. \A q \in Run, d \in CallId : (q # r \/ d # c) => CallInv(q, d)'
      BY <1>1, <2>2, CallKept DEF ThreadStarts, GateInv, SameGate, ThreadKept
    <2>5. \A q \in Run : TaskInv(q)' /\ RejectInv(q)'
      BY <1>1, <2>1, <2>2 DEF ThreadStarts, TaskInv, RejectInv, Row, Cleared, GateInv,
                              TypeOK, RoundInv, OnCall
    <2>6. \A q \in Run : LateInv(q)'
      BY <1>1, <2>1, <2>2 DEF ThreadStarts, LateInv, GateInv, TypeOK
    <2> QED
      BY <2>3, <2>4, <2>5, <2>6 DEF GateInv
  <1>2. ASSUME NEW c \in CallId, ThreadEnds(r, c)
       PROVE  GateInv'
    <2>1. \A q \in Run, d \in CallId : CallInv(q, d)'
      BY <1>2, CallKept DEF ThreadEnds, GateInv, SameGate, ThreadKept, TypeOK
    <2>2. \A q \in Run : TaskInv(q)' /\ RejectInv(q)' /\ LateInv(q)'
      BY <1>2 DEF ThreadEnds, TaskInv, RejectInv, LateInv, Row, Cleared, GateInv, TypeOK
    <2> QED
      BY <2>1, <2>2 DEF GateInv
  <1> QED
    BY <1>1, <1>2 DEF ThreadStep

(* Nothing outside the task clears a call or touches a thread; a decision  *)
(* is written once, and recorded with the arguments it was given for.      *)
LEMMA EnvironmentGate ==
    ASSUME IInv, NEW r \in Run, Environment(r)
    PROVE  GateInv'
  <1> USE DEF IInv, TypeInv, GoTo, SetStatus, store, task, history
  <1>1. CASE StartRun(r)
    <2>1. \A q \in Run : TaskInv(q)' /\ LateInv(q)' /\ RejectInv(q)'
      BY <1>1 DEF StartRun, TypeOK, GateInv, TaskInv, LateInv, RejectInv, Cleared, Row,
                 CancelTask, Begun, RunStatus, Live, ActiveRunStatuses
    <2>2. \A q \in Run, c \in CallId : CallInv(q, c)'
      BY <1>1, CallKept DEF StartRun, GateInv, SameGate, ThreadKept
    <2> QED
      BY <2>1, <2>2 DEF GateInv
  <1>2. CASE Cancel(r)
    <2>1. \A q \in Run : TaskInv(q)' /\ LateInv(q)' /\ RejectInv(q)'
      BY <1>2 DEF Cancel, TypeOK, GateInv, TaskInv, LateInv, RejectInv, Cleared, Row,
                 CancelTask, Begun, RunStatus, Live, ActiveRunStatuses
    <2>2. \A q \in Run, c \in CallId : CallInv(q, c)'
      BY <1>2, CallKept DEF Cancel, GateInv, SameGate, ThreadKept
    <2> QED
      BY <2>1, <2>2 DEF GateInv
  <1>3. CASE MarkCancelRequested(r)
    <2>1. \A q \in Run : TaskInv(q)' /\ LateInv(q)' /\ RejectInv(q)'
      BY <1>3 DEF MarkCancelRequested, TypeOK, GateInv, TaskInv, LateInv, RejectInv, Cleared, Row,
                 CancelTask, Begun, RunStatus, Live, ActiveRunStatuses
    <2>2. \A q \in Run, c \in CallId : CallInv(q, c)'
      BY <1>3, CallKept DEF MarkCancelRequested, GateInv, SameGate, ThreadKept
    <2> QED
      BY <2>1, <2>2 DEF GateInv
  <1>4. CASE SchedulerTimeout(r)
    <2>1. \A q \in Run : TaskInv(q)' /\ LateInv(q)' /\ RejectInv(q)'
      BY <1>4 DEF SchedulerTimeout, TypeOK, GateInv, TaskInv, LateInv, RejectInv, Cleared, Row,
                 CancelTask, Begun, RunStatus, Live, ActiveRunStatuses
    <2>2. \A q \in Run, c \in CallId : CallInv(q, c)'
      BY <1>4, CallKept DEF SchedulerTimeout, GateInv, SameGate, ThreadKept
    <2> QED
      BY <2>1, <2>2 DEF GateInv
  <1>5. CASE DeleteThread(r)
    <2>1. \A q \in Run : TaskInv(q)' /\ LateInv(q)' /\ RejectInv(q)'
      BY <1>5 DEF DeleteThread, TypeOK, GateInv, TaskInv, LateInv, RejectInv, Cleared, Row,
                 CancelTask, Begun, RunStatus, Live, ActiveRunStatuses
    <2>2. \A q \in Run, c \in CallId : CallInv(q, c)'
      BY <1>5, CallKept DEF DeleteThread, GateInv, SameGate, ThreadKept
    <2> QED
      BY <2>1, <2>2 DEF GateInv
  <1>6. ASSUME NEW c \in CallId, NEW a \in Args, NEW v \in Verdicts, Decide(r, c, a, v)
       PROVE  GateInv'
    <2> DEFINE row == [call[r][c] EXCEPT
                         !.approved = v,
                         !.st = IF v = "yes" THEN "approved" ELSE "rejected"]
    <2>1. call[r][c] \in CallRow /\ CallInv(r, c)
      BY DEF TypeOK, GateInv
    <2>2. /\ call'[r][c] = row
          /\ \A q \in Run, d \in CallId : (q # r \/ d # c) => call'[q][d] = call[q][d]
      BY <1>6, SetRowAt DEF Decide, TypeOK
    <2>3. /\ row.st # "none" /\ row.approved = v /\ row.consumed = call[r][c].consumed
          /\ row.gate = call[r][c].gate /\ row.tool = call[r][c].tool
          /\ row.args = call[r][c].args
      BY <2>1 DEF CallRow
    <2>4. CallInv(r, c)'
      BY <1>6, <2>1, <2>2, <2>3 DEF Decide, CallInv, Cleared
    <2>5. \A q \in Run, d \in CallId : (q # r \/ d # c) => CallInv(q, d)'
      BY <1>6, <2>2, CallKept DEF Decide, GateInv, SameGate, ThreadKept
    <2>6. \A q \in Run, d \in CallId :
             /\ call'[q][d].gate = call[q][d].gate
             /\ call[q][d].st # "none" => call'[q][d].st # "none"
             /\ call[q][d].approved = "no" => call'[q][d].approved = "no"
      BY <1>6, <2>2, <2>3 DEF Decide
    <2>7. \A q \in Run : TaskInv(q)' /\ LateInv(q)'
      <3> SUFFICES ASSUME NEW q \in Run
                   PROVE  TaskInv(q)' /\ LateInv(q)'
        OBVIOUS
      <3>1. TaskInv(q) /\ LateInv(q) /\ pc[q] \notin {"gate", "consume", "start"}
        BY <1>6 DEF Decide, GateInv, Suspended
      <3>2. pc[q] = "await" => cur[q] \in CallId
        BY DEF RoundInv, OnCall
      <3>3. TaskInv(q)'
        BY <1>6, <2>6, <3>1, <3>2 DEF Decide, TaskInv, Row
      <3> QED
        BY <1>6, <3>1, <3>3 DEF Decide, LateInv
    <2>8. \A q \in Run : RejectInv(q)'
      BY <1>6, <2>6 DEF Decide, RejectInv, GateInv
    <2> QED
      BY <2>4, <2>5, <2>7, <2>8 DEF GateInv
  <1> QED
    BY <1>1, <1>2, <1>3, <1>4, <1>5, <1>6 DEF Environment

LEMMA GateStep ==
    ASSUME IInv, [Next]_vars
    PROVE  GateInv'
  <1> USE DEF IInv
  <1>1. ASSUME NEW s \in SUBSET (Tool \ ReadOnly), ChangePolicy(s)
       PROVE  GateInv'
    BY <1>1 DEF ChangePolicy, GateInv, TaskInv, RejectInv, LateInv, CallInv, Cleared,
                Row, store, task, history
  <1>2. ASSUME NEW ended \in SUBSET Run, Restart(ended)
       PROVE  GateInv'
    <2>1. \A q \in Run, c \in CallId : CallInv(q, c)'
      BY <1>2, CallKept
         DEF Restart, GateInv, SameGate, ThreadKept, Abandoned, history, TypeInv, TypeOK
    <2>2. \A q \in Run : TaskInv(q)' /\ RejectInv(q)' /\ LateInv(q)'
      BY <1>2 DEF Restart, TaskInv, RejectInv, LateInv, Abandoned, GateInv, history,
                  TypeInv, TypeOK
    <2> QED
      BY <2>1, <2>2 DEF GateInv
  <1>3. CASE UNCHANGED vars
    BY <1>3 DEF vars, GateInv, TaskInv, RejectInv, LateInv, CallInv, Cleared, Row
  <1> QED
    BY <1>1, <1>2, <1>3, TaskGate, ThreadGate, EnvironmentGate
       DEF Next, Crash, Shutdown

-----------------------------------------------------------------------------
(* The place of a task and the status of its row *)

LEMMA PlaceInit == Init => PlaceInv
  BY DEF Init, PlaceInv, StatusInv, AnswerInv, NoRow

LEMMA AnswerKept ==
    ASSUME NEW q \in Run, AnswerInv(q), \A c \in CallId : SameGate(q, c),
           pc'[q] = "gate" => pc[q] = "gate" /\ cur'[q] = cur[q] /\ cur[q] \in CallId
    PROVE  AnswerInv(q)'
  BY DEF AnswerInv, SameGate, Row

(* Task r alone moves, to a place its row agrees with. *)
LEMMA MovePlace ==
    ASSUME IInv, NEW r \in Run, NEW p \in TaskPC, pc' = [pc EXCEPT ![r] = p],
           \A q \in Run \ {r} : /\ status'[q] = status[q] /\ dying'[q] = dying[q]
                                /\ cur'[q] = cur[q],
           StatusInv(r)', p # "gate", \A q \in Run, c \in CallId : SameGate(q, c)
    PROVE  PlaceInv'
  <1>1. pc'[r] = p /\ \A q \in Run \ {r} : pc'[q] = pc[q]
    BY DEF IInv, TypeInv, TypeOK
  <1>2. ASSUME NEW q \in Run
        PROVE  AnswerInv(q)'
    <2>1. pc'[q] = "gate" => pc[q] = "gate" /\ cur'[q] = cur[q] /\ cur[q] \in CallId
      BY <1>1 DEF IInv, TypeInv, RoundInv, OnCall
    <2> QED
      BY <2>1, AnswerKept DEF IInv, PlaceInv
  <1>3. ASSUME NEW q \in Run \ {r}
        PROVE  StatusInv(q)'
    BY <1>1, <1>3 DEF StatusInv, IInv, PlaceInv
  <1> QED
    BY <1>2, <1>3 DEF PlaceInv

LEMMA FinishPlace ==
    ASSUME IInv, NEW r \in Run, NEW s \in RunStatus, Finish(r, s),
           \A q \in Run, c \in CallId : SameGate(q, c)
    PROVE  PlaceInv'
  <1>1. /\ pc' = [pc EXCEPT ![r] = "done"] /\ cur' = cur
        /\ \A q \in Run \ {r} : status'[q] = status[q] /\ dying'[q] = dying[q]
    BY DEF Finish, IInv, TypeInv, TypeOK
  <1>2. StatusInv(r)'
    BY <1>1 DEF StatusInv, IInv, TypeInv, TypeOK
  <1> QED
    BY <1>1, <1>2, MovePlace DEF TaskPC, Suspended

LEMMA TaskPlace ==
    ASSUME IInv, NEW r \in Run, TaskStep(r)
    PROVE  PlaceInv'
  <1> USE DEF Steps, GoTo, SetStatus, store, history
  <1>t. TypeOK /\ TaskInv(r) /\ StatusInv(r) /\ (pc[r] \in OnCall => cur[r] \in CallId)
    BY DEF IInv, TypeInv, GateInv, PlaceInv, RoundInv
  <1>s. call' = call => \A q \in Run, c \in CallId : SameGate(q, c)
    BY DEF SameGate
  <1>1. CASE \/ RoundCancelled(r) \/ StreamCancelled(r) \/ StreamFails(r)
             \/ RoundsExhausted(r) \/ RunCompletes(r) \/ CallCancelled(r)
             \/ CallRefused(r) \/ AwaitCancelled(r) \/ AwaitTimesOut(r)
             \/ ConsumeRefused(r) \/ StartCancelled(r) \/ InvokeCancelled(r)
             \/ InvokeRaises(r) \/ ResultUnwanted(r) \/ DeadlineExceeded(r)
             \/ DeliverCancel(r) \/ RowGone(r)
    <2>1. call' = call /\ \E s \in RunStatus : Finish(r, s)
      BY <1>1 DEF RoundCancelled, StreamCancelled, StreamFails, RoundsExhausted,
         RunCompletes, CallCancelled, CallRefused, AwaitCancelled, AwaitTimesOut,
         ConsumeRefused, StartCancelled, InvokeCancelled, InvokeRaises, ResultUnwanted,
         DeadlineExceeded, DeliverCancel, RowGone, RunStatus
    <2> QED
      BY <1>s, <2>1, FinishPlace
  <1>2. CASE ToolWorkersStuck(r)
    <2>1. \A q \in Run, c \in CallId : SameGate(q, c)
      BY <1>2, <1>t, StatusUpdate DEF ToolWorkersStuck, OnCall, CallStatus, TaskInv, IInv
    <2> QED
      BY <1>2, <2>1, FinishPlace DEF ToolWorkersStuck, RunStatus
  <1>3. CASE \/ Begin(r) \/ RoundBegins(r) \/ AnswerHasCalls(r) \/ CallOversized(r)
             \/ AwaitApproved(r) \/ NextCall(r) \/ NextRound(r)
    <2>1. call' = call /\ cur' = cur /\ dying' = dying
          /\ \A q \in Run \ {r} : status'[q] = status[q]
      BY <1>3, <1>t DEF Begin, RoundBegins, AnswerHasCalls, CallOversized, AwaitApproved,
                        NextCall, NextRound, TypeOK
    <2>2. \E p \in TaskPC \ {"gate"} : pc' = [pc EXCEPT ![r] = p]
      BY <1>3 DEF Begin, RoundBegins, AnswerHasCalls, CallOversized, AwaitApproved,
                  NextCall, NextRound, TaskPC, Suspended
    <2>3. StatusInv(r)'
      BY <1>3, <1>t DEF Begin, RoundBegins, AnswerHasCalls, CallOversized, AwaitApproved,
         NextCall, NextRound, StatusInv, TypeOK, Live, ActiveRunStatuses,
         TerminalRunStatuses
    <2> QED
      BY <1>s, <2>1, <2>2, <2>3, MovePlace
  <1>4. CASE AwaitRejected(r) \/ InvokeTimesOut(r) \/ InvokeReturns(r)
    <2>1. Row(r).st # "none" /\ cur[r] \in CallId
      <3>1. cur[r] \in CallId /\ CallInv(r, cur[r])
        BY <1>4, <1>t DEF AwaitRejected, InvokeTimesOut, InvokeReturns, OnCall, IInv,
                          GateInv
      <3> QED
        BY <1>4, <1>t, <3>1, NoRowFields
           DEF AwaitRejected, InvokeTimesOut, InvokeReturns, TaskInv, CallInv, Cleared, Row
    <2>2. \A q \in Run, c \in CallId : SameGate(q, c)
      <3>1. pc[r] \in OnCall
            /\ \E s \in CallStatus \ {"none"} :
                  SetRow(r, cur[r], [Row(r) EXCEPT !.st = s])
        BY <1>4 DEF AwaitRejected, InvokeTimesOut, InvokeReturns, OnCall, CallStatus
      <3> QED
        BY <2>1, <3>1, StatusUpdate DEF IInv
    <2>3. cur' = cur /\ dying' = dying /\ pc' = [pc EXCEPT ![r] = "after"]
          /\ \A q \in Run \ {r} : status'[q] = status[q]
      BY <1>4, <1>t DEF AwaitRejected, InvokeTimesOut, InvokeReturns, TypeOK
    <2>4. StatusInv(r)'
      BY <1>4, <1>t DEF AwaitRejected, InvokeTimesOut, InvokeReturns, StatusInv, TypeOK
    <2> QED
      BY <2>2, <2>3, <2>4, MovePlace DEF TaskPC
  <1>5. CASE StartTool(r)
    <2>1. call' = call /\ cur' = cur /\ dying' = dying /\ pc' = [pc EXCEPT ![r] = "invoke"]
          /\ \A q \in Run \ {r} : status'[q] = status[q]
      BY <1>5 DEF StartTool
    <2>2. StatusInv(r)'
      BY <1>5, <1>t DEF StartTool, StatusInv, TypeOK
    <2> QED
      BY <1>s, <2>1, <2>2, MovePlace DEF TaskPC, Suspended
  <1>6. CASE PolicyApproves(r) \/ ApprovalRequired(r) \/ ConsumeApproval(r)
    <2>1. cur' = cur /\ dying' = dying /\ \A q \in Run \ {r} : status'[q] = status[q]
      BY <1>6, <1>t DEF PolicyApproves, ApprovalRequired, ConsumeApproval, TypeOK
    <2>2. \E p \in {"start", "await"} : pc' = [pc EXCEPT ![r] = p]
      BY <1>6 DEF PolicyApproves, ApprovalRequired, ConsumeApproval
    <2>3. StatusInv(r)'
      BY <1>6, <1>t DEF PolicyApproves, ApprovalRequired, ConsumeApproval, StatusInv, TypeOK
    <2>4. \A q \in Run \ {r} : StatusInv(q)' /\ AnswerInv(q)'
      <3>1. \A q \in Run \ {r} : call'[q] = call[q] /\ pc'[q] = pc[q]
        BY <1>6, <2>2, <1>t
           DEF PolicyApproves, ApprovalRequired, ConsumeApproval, SetRow, TypeOK
      <3> QED
        BY <2>1, <3>1 DEF IInv, PlaceInv, StatusInv, AnswerInv, Row
    <2>5. AnswerInv(r)'
      <3>1. cur[r] \in CallId /\ Row(r) \in CallRow /\ AnswerInv(r)
        BY <1>6, <1>t DEF PolicyApproves, ApprovalRequired, ConsumeApproval, OnCall, Row,
                          TypeOK, IInv, PlaceInv
      <3>2. ASSUME NEW row, SetRow(r, cur[r], row), row.approved = Row(r).approved,
                   row.consumed => Row(r).consumed \/ Row(r).approved = "yes"
            PROVE  /\ call'[r][cur[r]].approved = Row(r).approved
                   /\ call'[r][cur[r]].consumed =>
                         Row(r).consumed \/ Row(r).approved = "yes"
                   /\ \A d \in CallId \ {cur[r]} : call'[r][d] = call[r][d]
        BY <1>t, <3>1, <3>2, SetRowAt DEF TypeOK
      <3>4. \E row : /\ SetRow(r, cur[r], row) /\ row.approved = Row(r).approved
                     /\ row.consumed => Row(r).consumed \/ Row(r).approved = "yes"
        <4>1. CASE PolicyApproves(r)
          <5> DEFINE row == [Row(r) EXCEPT !.gate = "policy"]
          <5>1. row.approved = Row(r).approved /\ row.consumed = Row(r).consumed
            BY <3>1 DEF CallRow
          <5> QED
            BY <4>1, <5>1 DEF PolicyApproves
        <4>2. CASE ApprovalRequired(r)
          <5> DEFINE row == [Row(r) EXCEPT !.gate = "human"]
          <5>1. row.approved = Row(r).approved /\ row.consumed = Row(r).consumed
            BY <3>1 DEF CallRow
          <5> QED
            BY <4>2, <5>1 DEF ApprovalRequired
        <4>3. CASE ConsumeApproval(r)
          <5> DEFINE row == [Row(r) EXCEPT !.consumed = TRUE, !.st = "executing"]
          <5>1. row.approved = Row(r).approved /\ Row(r).approved = "yes"
            BY <3>1, <4>3 DEF CallRow, ConsumeApproval, Consumable
          <5> QED
            BY <4>3, <5>1 DEF ConsumeApproval
        <4> QED
          BY <1>6, <4>1, <4>2, <4>3
      <3>3. pc'[r] # "gate"
        BY <2>2, <1>t DEF TypeOK
      <3> QED
        BY <2>1, <3>1, <3>2, <3>3, <3>4 DEF AnswerInv, Row
    <2> QED
      BY <2>3, <2>4, <2>5 DEF PlaceInv
  <1>7. ASSUME NEW c \in CallId, NEW t \in Tool, NEW a \in Args, ProposeToolCall(r, c, t, a)
        PROVE  PlaceInv'
    <2> DEFINE row == [NoRow EXCEPT !.st = "proposed", !.tool = t, !.args = a]
    <2>1. /\ call'[r][c] = row /\ cur'[r] = c /\ pc'[r] = "gate"
          /\ \A d \in CallId \ {c} : call'[r][d] = call[r][d]
      BY <1>7, <1>t, SetRowAt DEF ProposeToolCall, TypeOK
    <2>2. row.approved = "null" /\ ~row.consumed
      BY DEF NoRow
    <2> HIDE DEF row
    <2>3. AnswerInv(r)'
      BY <2>1, <2>2 DEF AnswerInv, Row, IInv, PlaceInv
    <2>4. StatusInv(r)'
      BY <1>7, <1>t, <2>1 DEF ProposeToolCall, StatusInv
    <2>5. ASSUME NEW q \in Run \ {r}
          PROVE  StatusInv(q)' /\ AnswerInv(q)'
      <3>1. /\ call'[q] = call[q] /\ pc'[q] = pc[q] /\ cur'[q] = cur[q]
            /\ status'[q] = status[q] /\ dying'[q] = dying[q]
        BY <1>7, <1>t DEF ProposeToolCall, SetRow, TypeOK
      <3> QED
        BY <3>1 DEF IInv, PlaceInv, StatusInv, AnswerInv, Row
    <2> QED
      BY <2>3, <2>4, <2>5 DEF PlaceInv
  <1> QED
    BY <1>1, <1>2, <1>3, <1>4, <1>5, <1>6, <1>7 DEF TaskStep

LEMMA PlaceStep ==
    ASSUME IInv, [Next]_vars
    PROVE  PlaceInv'
  <1>t. TypeOK
    BY DEF IInv, TypeInv
  <1>k. ASSUME UNCHANGED <<status, call, pc, cur>>,
               \A q \in Run : dying[q] => dying'[q]
        PROVE  PlaceInv'
    BY <1>k DEF IInv, PlaceInv, StatusInv, AnswerInv, Row
  <1>1. ASSUME NEW r \in Run, ThreadStep(r)
        PROVE  PlaceInv'
    BY <1>1, <1>k DEF ThreadStep, ThreadStarts, ThreadEnds, store, task
  <1>2. ASSUME NEW r \in Run, call' = call, cur' = cur, StatusInv(r)',
               \A q \in Run : pc'[q] = "gate" => pc[q] = "gate",
               \A q \in Run \ {r} : /\ pc'[q] = pc[q] /\ status'[q] = status[q]
                                    /\ dying'[q] = dying[q]
        PROVE  PlaceInv'
    BY <1>2 DEF IInv, PlaceInv, StatusInv, AnswerInv, Row
  <1>3. ASSUME NEW r \in Run,
               StartRun(r) \/ DeleteThread(r) \/ Cancel(r) \/ SchedulerTimeout(r)
        PROVE  PlaceInv'
    <2>1. CASE StartRun(r) \/ DeleteThread(r)
      <3>1. call' = call /\ cur' = cur /\ dying' = dying
            /\ \A q \in Run \ {r} : pc'[q] = pc[q] /\ status'[q] = status[q]
        BY <1>t, <2>1 DEF StartRun, DeleteThread, SetStatus, GoTo, TypeOK, task
      <3>2. StatusInv(r)' /\ (pc'[r] # "gate" \/ pc'[r] = pc[r])
        BY <1>t, <2>1 DEF StartRun, DeleteThread, SetStatus, GoTo, TypeOK, task, StatusInv
      <3> QED
        BY <1>2, <3>1, <3>2
    <2>2. CASE Cancel(r) \/ SchedulerTimeout(r)
      <3>1. call' = call /\ cur' = cur
            /\ \A q \in Run \ {r} : /\ pc'[q] = pc[q] /\ status'[q] = status[q]
                                     /\ dying'[q] = dying[q]
        BY <1>t, <2>2 DEF Cancel, SchedulerTimeout, CancelTask, SetStatus, TypeOK
      <3>2. /\ pc'[r] = "gate" => pc[r] = "gate"
            /\ \/ pc'[r] \in {"none", "done"}
               \/ dying'[r]
        BY <1>t, <2>2 DEF Cancel, SchedulerTimeout, CancelTask, Begun, TypeOK
      <3> QED
        BY <1>2, <3>1, <3>2 DEF StatusInv
    <2> QED
      BY <1>3, <2>1, <2>2
  <1>4. ASSUME NEW r \in Run, MarkCancelRequested(r)
        PROVE  PlaceInv'
    BY <1>4, <1>k DEF MarkCancelRequested, task
  <1>5. ASSUME NEW r \in Run, NEW c \in CallId, NEW a \in Args, NEW v \in Verdicts,
               Decide(r, c, a, v)
        PROVE  PlaceInv'
    <2>1. call[r][c] \in CallRow
      BY <1>t DEF TypeOK
    <2>2. ~call'[r][c].consumed
      <3>1. ~call[r][c].consumed
            /\ \E st \in CallStatus :
                  SetRow(r, c, [call[r][c] EXCEPT !.approved = v, !.st = st])
        BY <1>5 DEF Decide, CallStatus
      <3>2. PICK st \in CallStatus :
               SetRow(r, c, [call[r][c] EXCEPT !.approved = v, !.st = st])
        BY <3>1
      <3>3. call'[r][c] = [call[r][c] EXCEPT !.approved = v, !.st = st]
        BY <1>t, <3>2 DEF SetRow, TypeOK
      <3> QED
        BY <2>1, <3>1, <3>3 DEF CallRow
    <2>3. \A q \in Run, d \in CallId : q # r \/ d # c => call'[q][d] = call[q][d]
      BY <1>5, <1>t, SetRowAt DEF Decide, TypeOK
    <2>4. \A q \in Run : pc'[q] = pc[q] /\ pc[q] # "gate"
      BY <1>5 DEF Decide, task, Suspended
    <2> QED
      BY <1>5, <2>2, <2>3, <2>4 DEF Decide, IInv, PlaceInv, StatusInv, AnswerInv, task
  <1>6. ASSUME NEW s \in SUBSET (Tool \ ReadOnly), ChangePolicy(s)
        PROVE  PlaceInv'
    BY <1>6, <1>k DEF ChangePolicy, store, task
  <1>7. ASSUME NEW ended \in SUBSET Run, Restart(ended)
        PROVE  PlaceInv'
    BY <1>7 DEF Restart, IInv, PlaceInv, StatusInv, AnswerInv
  <1>8. CASE UNCHANGED vars
    BY <1>8, <1>k DEF vars
  <1> QED
    BY <1>1, <1>3, <1>4, <1>5, <1>6, <1>7, <1>8, TaskPlace
       DEF Next, Environment, Crash, Shutdown

-----------------------------------------------------------------------------
(* Task, row, thread and approvals agree at every step, for every instance *)
(* (_handle_tool_call, _invoke_tool_bounded, decide, recovery).            *)
THEOREM InvariantHolds == Spec => []IInv
  <1>1. Init => IInv
    BY TypeInit, GateInit, PlaceInit DEF IInv
  <1>2. IInv /\ [Next]_vars => IInv'
    BY TypeStep, GateStep, PlaceStep DEF IInv
  <1> QED
    BY <1>1, <1>2, PTL DEF Spec

(* The approval gate: for any policy changes, late decisions, cancels and  *)
(* restarts, a call the policy did not pass runs only as approved (decide, *)
(* consume_approval, AutonomyPolicy.decide).                               *)
THEOREM GateHolds == Spec => []HumanGate
  <1>1. IInv => HumanGate
    BY DEF IInv, GateInv, CallInv, Cleared, HumanGate
  <1> QED
    BY <1>1, InvariantHolds, PTL

(* A refused call never runs, and a run that ended rejected names one (the *)
(* poll of _handle_tool_call).                                             *)
THEOREM RefusalHolds == Spec => []RefusedNeverRuns
  <1>1. IInv => RefusedNeverRuns
    <2>1. ASSUME IInv, NEW r \in Run, NEW c \in CallId,
                 call[r][c].gate = "human", call[r][c].approved = "no"
          PROVE  ran[r][c] = 0 /\ thread[r][c] = "none"
      <3>1. ~Cleared(r, c) /\ CallInv(r, c) /\ ran[r][c] \in Nat
        BY <2>1 DEF Cleared, IInv, GateInv, TypeInv, TypeOK
      <3> QED
        BY <3>1 DEF CallInv
    <2> QED
      BY <2>1 DEF IInv, GateInv, RejectInv, RefusedNeverRuns
  <1> QED
    BY <1>1, InvariantHolds, PTL

(* No tool call is handed to its backend twice (_invoke_tool_bounded).     *)
THEOREM OnceHolds == Spec => []AtMostOnce
  <1>1. IInv => AtMostOnce
    BY DEF IInv, GateInv, CallInv, AtMostOnce
  <1> QED
    BY <1>1, InvariantHolds, PTL

(* After a cancel at most one more tool call of the run begins: the one    *)
(* that was already with a worker (_invoke_tool_bounded).                  *)
THEOREM LateStartHolds == Spec => []LateStartBound
  <1>1. IInv => LateStartBound
    BY DEF IInv, GateInv, LateInv, LateStartBound
  <1> QED
    BY <1>1, InvariantHolds, PTL

-----------------------------------------------------------------------------
(***************************************************************************)
(* The bound on tool threads that never come back, for any finite number   *)
(* of runs.  ThreadBound alone is not inductive: a run that passed the     *)
(* check before a tool starts is not counted before a worker takes its     *)
(* call.  PoolInv counts it too.                                           *)
(***************************************************************************)

(* The runs whose call waits for a worker *)
Queued == {r \in Run : \E c \in CallId : thread[r][c] = "queued"}

(* Threads and waiting runs together stay below the bound: a run adds its  *)
(* own only when fewer than MaxStuck threads are counted.                  *)
PoolInv ==
    /\ IsFiniteSet(StuckToolThreads)
    /\ Cardinality(StuckToolThreads) + Cardinality(Queued) < MaxStuck + Cardinality(Run)

-----------------------------------------------------------------------------
LEMMA QueuedIsFinite ==
    /\ IsFiniteSet(Queued) /\ Cardinality(Queued) \in Nat
    /\ Cardinality(Run) \in Nat
    /\ Cardinality(Queued) <= Cardinality(Run)
  BY RunsAssumption, FS_Subset, FS_CardinalityType, Queued \in SUBSET Run DEF Queued

(* A step in which threads only end, or are never begun, adds to neither   *)
(* number.                                                                 *)
ThreadsOnlyEnd ==
    \A q \in Run, c \in CallId :
        /\ thread'[q][c] = "running" => thread[q][c] = "running"
        /\ thread'[q][c] = "queued" => thread[q][c] = "queued"

LEMMA FewerThreads ==
    ASSUME PoolInv, ThreadsOnlyEnd
    PROVE  PoolInv'
  <1>1. StuckToolThreads' \subseteq StuckToolThreads /\ Queued' \subseteq Queued
    BY DEF ThreadsOnlyEnd, StuckToolThreads, Queued
  <1>2. /\ IsFiniteSet(StuckToolThreads')
        /\ Cardinality(StuckToolThreads') <= Cardinality(StuckToolThreads)
    BY <1>1, FS_Subset DEF PoolInv
  <1>3. /\ Cardinality(Queued') <= Cardinality(Queued)
        /\ Cardinality(Queued') \in Nat /\ Cardinality(Queued) \in Nat
        /\ Cardinality(Run) \in Nat
    BY <1>1, QueuedIsFinite, FS_Subset, FS_CardinalityType
  <1>4. Cardinality(StuckToolThreads) \in Nat /\ Cardinality(StuckToolThreads') \in Nat
    BY <1>2, FS_CardinalityType DEF PoolInv
  <1> QED
    BY <1>2, <1>3, <1>4, ConstantsAssumption DEF PoolInv

-----------------------------------------------------------------------------
(* The two steps that begin something *)

LEMMA PoolStart ==
    ASSUME PoolInv, TypeInv, NEW r \in Run, StartTool(r)
    PROVE  PoolInv'
  <1>1. StuckToolThreads' \subseteq StuckToolThreads
    BY DEF StartTool, StuckToolThreads, TypeInv, TypeOK
  <1>2. /\ IsFiniteSet(StuckToolThreads')
        /\ Cardinality(StuckToolThreads') <= Cardinality(StuckToolThreads)
    BY <1>1, FS_Subset DEF PoolInv
  <1>3. /\ IsFiniteSet(Queued') /\ Cardinality(Queued') <= Cardinality(Run)
        /\ Cardinality(Run) \in Nat
    BY RunsAssumption, FS_Subset, FS_CardinalityType, Queued' \in SUBSET Run DEF Queued
  <1>4. /\ Cardinality(StuckToolThreads) \in Nat /\ Cardinality(StuckToolThreads') \in Nat
        /\ Cardinality(Queued') \in Nat
    BY <1>2, <1>3, FS_CardinalityType DEF PoolInv
  <1>5. Cardinality(StuckToolThreads) < MaxStuck
    BY DEF StartTool
  <1> QED
    BY <1>2, <1>3, <1>4, <1>5, ConstantsAssumption DEF PoolInv

(* A worker takes the only waiting call of its run. *)
LEMMA PoolTake ==
    ASSUME PoolInv, IInv, NEW r \in Run, NEW c \in CallId, ThreadStarts(r, c)
    PROVE  PoolInv'
  <1> USE DEF IInv, TypeInv
  <1>1. \A d \in CallId : thread[r][d] = "queued" => d = c
    BY DEF GateInv, LateInv, ThreadStarts
  <1>2. thread' = [thread EXCEPT ![r][c] = "running"] /\ thread[r][c] = "queued"
    BY DEF ThreadStarts
  <1>3. Queued' = Queued \ {r} /\ r \in Queued
    BY <1>1, <1>2 DEF Queued, TypeOK
  <1>4. StuckToolThreads' = StuckToolThreads \cup {<<r, c>>} /\ <<r, c>> \notin StuckToolThreads
    BY <1>2 DEF StuckToolThreads, TypeOK
  <1>5. /\ IsFiniteSet(StuckToolThreads')
        /\ Cardinality(StuckToolThreads') = Cardinality(StuckToolThreads) + 1
    BY <1>4, FS_AddElement DEF PoolInv
  <1>6. Cardinality(Queued') = Cardinality(Queued) - 1
    BY <1>3, QueuedIsFinite, FS_RemoveElement
  <1>7. Cardinality(StuckToolThreads) \in Nat
    BY FS_CardinalityType DEF PoolInv
  <1> QED
    BY <1>5, <1>6, <1>7, QueuedIsFinite, ConstantsAssumption DEF PoolInv

-----------------------------------------------------------------------------
(* Every other step only ends threads. *)

LEMMA FinishEnds ==
    ASSUME TypeInv, NEW r \in Run, NEW s, Finish(r, s)
    PROVE  ThreadsOnlyEnd
  BY DEF Finish, Abandoned, ThreadsOnlyEnd, TypeInv, TypeOK

LEMMA TaskEnds ==
    ASSUME TypeInv, NEW r \in Run, TaskStep(r), ~StartTool(r)
    PROVE  ThreadsOnlyEnd
  <1>1. CASE \E s \in RunStatus : Finish(r, s)
    BY <1>1, FinishEnds
  <1>2. CASE InvokeTimesOut(r)
    BY <1>2 DEF InvokeTimesOut, Abandoned, ThreadsOnlyEnd, TypeInv, TypeOK
  <1>3. CASE thread' = thread
    BY <1>3 DEF ThreadsOnlyEnd
  <1>4. (\E s \in RunStatus : Finish(r, s)) \/ InvokeTimesOut(r) \/ thread' = thread
    BY DEF TaskStep, RunStatus, Begin, RoundCancelled, RoundBegins, StreamCancelled,
           StreamFails, RoundsExhausted, RunCompletes, AnswerHasCalls, CallCancelled,
           CallRefused, CallOversized, ProposeToolCall, PolicyApproves,
           ApprovalRequired, AwaitCancelled, AwaitTimesOut, AwaitRejected,
           AwaitApproved, ConsumeApproval, ConsumeRefused, StartCancelled,
           ToolWorkersStuck, InvokeCancelled, InvokeReturns,
           InvokeRaises, ResultUnwanted, NextCall, NextRound, DeadlineExceeded,
           DeliverCancel, RowGone
  <1> QED
    BY <1>1, <1>2, <1>3, <1>4

LEMMA RestartEnds ==
    ASSUME TypeInv, NEW ended \in SUBSET Run, Restart(ended)
    PROVE  ThreadsOnlyEnd
  BY DEF Restart, Abandoned, ThreadsOnlyEnd, TypeInv, TypeOK

LEMMA PoolStep ==
    ASSUME PoolInv, IInv, [Next]_vars
    PROVE  PoolInv'
  <1> USE DEF IInv
  <1>1. ASSUME NEW r \in Run, TaskStep(r)
        PROVE  PoolInv'
    BY <1>1, PoolStart, TaskEnds, FewerThreads
  <1>2. ASSUME NEW r \in Run, ThreadStep(r)
        PROVE  PoolInv'
    <2>1. ASSUME NEW c \in CallId, ThreadEnds(r, c)
          PROVE  ThreadsOnlyEnd
      BY <2>1 DEF ThreadEnds, ThreadsOnlyEnd, TypeInv, TypeOK
    <2> QED
      BY <1>2, <2>1, PoolTake, FewerThreads DEF ThreadStep
  <1>3. ASSUME NEW r \in Run, Environment(r)
        PROVE  PoolInv'
    <2>1. thread' = thread
      BY <1>3 DEF Environment, StartRun, Cancel, MarkCancelRequested,
                  SchedulerTimeout, DeleteThread, Decide
    <2> QED
      BY <2>1, FewerThreads DEF ThreadsOnlyEnd
  <1>4. CASE Crash \/ Shutdown
    BY <1>4, RestartEnds, FewerThreads DEF Crash, Shutdown
  <1>5. CASE UNCHANGED vars \/ \E s \in SUBSET (Tool \ ReadOnly) : ChangePolicy(s)
    BY <1>5, FewerThreads DEF vars, ChangePolicy, ThreadsOnlyEnd
  <1> QED
    BY <1>1, <1>2, <1>3, <1>4, <1>5 DEF Next

LEMMA PoolInit == Init => PoolInv
  <1> SUFFICES ASSUME Init PROVE PoolInv
    OBVIOUS
  <1>1. StuckToolThreads = {} /\ Queued = {}
    BY DEF Init, StuckToolThreads, Queued
  <1> QED
    BY <1>1, FS_EmptySet, QueuedIsFinite, ConstantsAssumption DEF PoolInv

(* However many calls pass the check before a tool at the same time, fewer *)
(* than MaxStuck threads and one per run are ever left behind              *)
(* (_invoke_tool_bounded, _invoke_counted).                                *)
THEOREM ThreadBoundHolds == Spec => []ThreadBound
  <1>1. PoolInv => ThreadBound
    <2> SUFFICES ASSUME PoolInv PROVE ThreadBound
      OBVIOUS
    <2>1. Cardinality(StuckToolThreads) \in Nat
      BY FS_CardinalityType DEF PoolInv
    <2> QED
      BY <2>1, QueuedIsFinite, ConstantsAssumption DEF PoolInv, ThreadBound
  <1>2. PoolInv /\ IInv /\ [Next]_vars => PoolInv'
    BY PoolStep
  <1> QED
    BY <1>1, <1>2, PoolInit, InvariantHolds, PTL DEF Spec

-----------------------------------------------------------------------------
(***************************************************************************)
(* AgentRun implements RunContract: every step of a task, a thread, a      *)
(* human, the scheduler or a restart is a step of the contract, or leaves  *)
(* the row and the gates as they were.  That the row may make its move is  *)
(* PlaceInv of the invariant; that a gate may is GateInv.                  *)
(***************************************************************************)

ContractVars == <<status, gateOf>>

-----------------------------------------------------------------------------
(* Gates *)

LEMMA GateKept ==
    ASSUME NEW q \in Run, NEW c \in CallId, SameGate(q, c), ran'[q][c] = ran[q][c]
    PROVE  GateOf(q, c)' = GateOf(q, c)
  BY DEF GateOf, SameGate

LEMMA GatesKept ==
    ASSUME \A q \in Run, c \in CallId : SameGate(q, c), ran' = ran
    PROVE  gateOf' = gateOf
  BY GateKept DEF gateOf

(* One gate moves. *)
LEMMA GateMoves ==
    ASSUME NEW r \in Run, NEW c \in CallId, NEW to, GateOf(r, c)' = to,
           \A q \in Run, d \in CallId : q # r \/ d # c => GateOf(q, d)' = GateOf(q, d)
    PROVE  Contract!MoveGate(r, c, GateOf(r, c), to)
  BY DEF Contract!MoveGate, gateOf

(* The gate of a call whose row one step rewrites *)
LEMMA RowMoves ==
    ASSUME TypeOK, NEW r \in Run, NEW c \in CallId, NEW row, SetRow(r, c, row), ran' = ran,
           NEW to, GateOf(r, c)' = to
    PROVE  Contract!MoveGate(r, c, GateOf(r, c), to)
  <1>1. \A q \in Run, d \in CallId : q # r \/ d # c => call'[q][d] = call[q][d]
    BY SetRowAt DEF TypeOK
  <1>2. \A q \in Run, d \in CallId : q # r \/ d # c => GateOf(q, d)' = GateOf(q, d)
    BY <1>1 DEF GateOf
  <1> QED
    BY <1>2, GateMoves

(* What is cleared and not handed over is cleared in the contract. *)
LEMMA ClearedGate ==
    ASSUME NEW r \in Run, NEW c \in CallId, Cleared(r, c), ran[r][c] = 0
    PROVE  GateOf(r, c) = "cleared"
  BY DEF Cleared, GateOf

-----------------------------------------------------------------------------
(* Rows of runs *)

LEMMA SameModels ==
    /\ Contract!RunStatus = RunStatus
    /\ Contract!ActiveRunStatuses = ActiveRunStatuses
    /\ Contract!RunTransitions = RunTransitions
  BY DEF Contract!RunStatus, RunStatus, Contract!TerminalRunStatuses, TerminalRunStatuses,
         Contract!ActiveRunStatuses, ActiveRunStatuses, Contract!RunTransitions,
         RunTransitions

LEMMA RowStays ==
    ASSUME status' = status, gateOf' = gateOf
    PROVE  [Contract!Next]_ContractVars
  BY DEF ContractVars

(* A run ends, or goes on to stream. *)
LEMMA RowMovesOn ==
    ASSUME NEW r \in Run, Live(r), NEW s \in RunTransitions[status[r]],
           s \notin {"awaiting_approval", "executing_tool", "rejected"},
           status' = [status EXCEPT ![r] = s], gateOf' = gateOf
    PROVE  Contract!Next
  BY SameModels DEF Contract!Next, Contract!Move, Contract!Active, Live

LEMMA Endings ==
    ASSUME NEW st \in ActiveRunStatuses
    PROVE  /\ {"failed", "cancelled", "interrupted"} \subseteq RunTransitions[st]
           /\ st = "streaming" => "completed" \in RunTransitions[st]
  BY DEF ActiveRunStatuses, TerminalRunStatuses, RunStatus, RunTransitions

LEMMA FinishRefines ==
    ASSUME TypeOK, NEW r \in Run, NEW s, Finish(r, s),
           s \in {"failed", "cancelled"} \/ (s = "completed" /\ status[r] = "streaming"),
           \A q \in Run, c \in CallId : SameGate(q, c)
    PROVE  [Contract!Next]_ContractVars
  <1>1. gateOf' = gateOf
    BY GatesKept DEF Finish, history
  <1>2. CASE Live(r)
    <2>1. s \in RunTransitions[status[r]]
      BY <1>2, Endings DEF Live
    <2> QED
      BY <1>1, <1>2, <2>1, RowMovesOn DEF Finish
  <1>3. CASE ~Live(r)
    BY <1>1, <1>3, RowStays DEF Finish
  <1> QED
    BY <1>2, <1>3

-----------------------------------------------------------------------------
(* Steps *)

LEMMA TaskRefines ==
    ASSUME IInv, NEW r \in Run, TaskStep(r)
    PROVE  [Contract!Next]_ContractVars
  <1> USE DEF Steps, GoTo, SetStatus, store, history
  <1>t. /\ TypeOK /\ TaskInv(r) /\ StatusInv(r) /\ AnswerInv(r)
        /\ pc[r] \in OnCall => cur[r] \in CallId
        /\ \A c \in CallId : CallInv(r, c) /\ call[r][c] \in CallRow /\ ran[r][c] \in Nat
    BY DEF IInv, TypeInv, GateInv, PlaceInv, RoundInv, TypeOK
  <1>s. call' = call => \A q \in Run, c \in CallId : SameGate(q, c)
    BY DEF SameGate
  <1>1. CASE \/ RoundCancelled(r) \/ StreamCancelled(r) \/ StreamFails(r)
             \/ RoundsExhausted(r) \/ CallCancelled(r)
             \/ CallRefused(r) \/ AwaitCancelled(r) \/ AwaitTimesOut(r)
             \/ ConsumeRefused(r) \/ StartCancelled(r) \/ InvokeCancelled(r)
             \/ InvokeRaises(r) \/ ResultUnwanted(r) \/ DeadlineExceeded(r)
             \/ DeliverCancel(r) \/ RowGone(r)
    <2>1. call' = call /\ \E s \in {"failed", "cancelled"} : Finish(r, s)
      BY <1>1 DEF RoundCancelled, StreamCancelled, StreamFails, RoundsExhausted,
         CallCancelled, CallRefused, AwaitCancelled, AwaitTimesOut,
         ConsumeRefused, StartCancelled, InvokeCancelled, InvokeRaises, ResultUnwanted,
         DeadlineExceeded, DeliverCancel, RowGone
    <2> QED
      BY <1>s, <1>t, <2>1, FinishRefines
  <1>2. CASE RunCompletes(r)
    <2>1. call' = call /\ Finish(r, "completed") /\ status[r] = "streaming"
      BY <1>2, <1>t DEF RunCompletes, StatusInv
    <2> QED
      BY <1>s, <1>t, <2>1, FinishRefines
  <1>3. CASE ToolWorkersStuck(r)
    <2>1. \A q \in Run, c \in CallId : SameGate(q, c)
      BY <1>3, <1>t, StatusUpdate DEF ToolWorkersStuck, OnCall, CallStatus, TaskInv, IInv
    <2> QED
      BY <1>3, <1>t, <2>1, FinishRefines DEF ToolWorkersStuck
  <1>4. CASE \/ RoundBegins(r) \/ AnswerHasCalls(r) \/ CallOversized(r)
             \/ AwaitApproved(r) \/ NextCall(r)
    <2>1. call' = call /\ ran' = ran /\ status' = status
      BY <1>4 DEF RoundBegins, AnswerHasCalls, CallOversized, AwaitApproved, NextCall
    <2> QED
      BY <1>s, <2>1, GatesKept, RowStays
  <1>5. CASE AwaitRejected(r) \/ InvokeTimesOut(r) \/ InvokeReturns(r)
    <2>1. Row(r).st # "none" /\ cur[r] \in CallId
      BY <1>5, <1>t, NoRowFields
         DEF AwaitRejected, InvokeTimesOut, InvokeReturns, OnCall, TaskInv, CallInv,
             Cleared, Row
    <2>2. \A q \in Run, c \in CallId : SameGate(q, c)
      <3>1. pc[r] \in OnCall
            /\ \E s \in CallStatus \ {"none"} :
                  SetRow(r, cur[r], [Row(r) EXCEPT !.st = s])
        BY <1>5 DEF AwaitRejected, InvokeTimesOut, InvokeReturns, OnCall, CallStatus
      <3> QED
        BY <2>1, <3>1, StatusUpdate DEF IInv
    <2>3. gateOf' = gateOf
      BY <1>5, <2>2, GatesKept DEF AwaitRejected, InvokeTimesOut, InvokeReturns
    <2>4. CASE AwaitRejected(r)
      <3>1. status[r] = "awaiting_approval" /\ status' = [status EXCEPT ![r] = "rejected"]
        BY <1>t, <2>4 DEF AwaitRejected, StatusInv
      <3>2. GateOf(r, cur[r]) = "refused"
        BY <1>t, <2>1, <2>4 DEF AwaitRejected, TaskInv, AnswerInv, Row, GateOf
      <3>3. "rejected" \in RunTransitions["awaiting_approval"]
            /\ "awaiting_approval" \in ActiveRunStatuses
        BY DEF RunTransitions, RunStatus, ActiveRunStatuses, TerminalRunStatuses
      <3>4. Contract!Move(r)
        BY <2>1, <2>3, <3>1, <3>2, <3>3, SameModels
           DEF Contract!Move, Contract!Active, gateOf
      <3> QED
        BY <3>4 DEF Contract!Next
    <2>5. CASE InvokeTimesOut(r) \/ InvokeReturns(r)
      BY <2>3, <2>5, RowStays DEF InvokeTimesOut, InvokeReturns
    <2> QED
      BY <1>5, <2>4, <2>5
  <1>6. CASE Begin(r) \/ NextRound(r)
    <2>1. gateOf' = gateOf /\ status' = [status EXCEPT ![r] = "streaming"]
      BY <1>6, <1>s, GatesKept DEF Begin, NextRound
    <2>2. status[r] \in {"queued", "streaming", "executing_tool"}
      BY <1>6, <1>t DEF Begin, NextRound, StatusInv, Live, ActiveRunStatuses,
                        TerminalRunStatuses
    <2>3. CASE status[r] = "streaming"
      <3>1. status' = status
        BY <1>t, <2>1, <2>3 DEF TypeOK
      <3> QED
        BY <2>1, <3>1, RowStays
    <2>4. CASE status[r] # "streaming"
      <3>1. "streaming" \in RunTransitions[status[r]] /\ Live(r)
        BY <2>2, <2>4 DEF RunTransitions, RunStatus, Live, ActiveRunStatuses,
                          TerminalRunStatuses
      <3> QED
        BY <2>1, <3>1, RowMovesOn
    <2> QED
      BY <2>3, <2>4
  <1>7. CASE StartTool(r)
    <2>1. gateOf' = gateOf /\ status' = [status EXCEPT ![r] = "executing_tool"]
      BY <1>7, <1>s, GatesKept DEF StartTool
    <2>2. status[r] \in {"streaming", "executing_tool", "awaiting_approval"}
      BY <1>7, <1>t DEF StartTool, StatusInv
    <2>3. cur[r] \in CallId /\ gateOf[r][cur[r]] = "cleared"
      BY <1>7, <1>t, ClearedGate DEF StartTool, OnCall, TaskInv, gateOf
    <2>4. CASE status[r] = "executing_tool"
      <3>1. status' = status
        BY <1>t, <2>1, <2>4 DEF TypeOK
      <3> QED
        BY <2>1, <3>1, RowStays
    <2>5. CASE status[r] # "executing_tool"
      <3>1. "executing_tool" \in RunTransitions[status[r]] /\ status[r] \in ActiveRunStatuses
        BY <2>2, <2>5 DEF RunTransitions, RunStatus, ActiveRunStatuses, TerminalRunStatuses
      <3>2. Contract!Move(r)
        BY <2>1, <2>3, <3>1, SameModels DEF Contract!Move, Contract!Active
      <3> QED
        BY <3>2 DEF Contract!Next
    <2> QED
      BY <2>4, <2>5
  <1>8. ASSUME NEW c \in CallId, c = cur[r], PolicyApproves(r) \/ ApprovalRequired(r)
        PROVE  Contract!Next
    <2>1. /\ GateOf(r, c) = "idle" /\ call[r][c] \in CallRow
          /\ call[r][c].approved = "null" /\ ~call[r][c].consumed /\ ran[r][c] = 0
      BY <1>8, <1>t DEF PolicyApproves, ApprovalRequired, TaskInv, AnswerInv, Row, GateOf
    <2>2. status[r] \in {"streaming", "executing_tool"}
      BY <1>8, <1>t DEF PolicyApproves, ApprovalRequired, StatusInv
    <2>3. CASE PolicyApproves(r)
      <3> DEFINE row == [call[r][c] EXCEPT !.gate = "policy"]
      <3>1. SetRow(r, c, row) /\ ran' = ran /\ status' = status
        BY <1>8, <2>3 DEF PolicyApproves, Row
      <3>2. row.gate = "policy"
        BY <2>1 DEF CallRow
      <3> HIDE DEF row
      <3>3. call'[r][c] = row
        BY <1>t, <3>1, SetRowAt DEF TypeOK
      <3>4. GateOf(r, c)' = "cleared"
        BY <2>1, <3>1, <3>2, <3>3 DEF GateOf
      <3>5. Contract!Clear(r, c)
        BY <1>t, <2>1, <2>2, <3>1, <3>4, RowMoves DEF Contract!Clear
      <3> QED
        BY <3>5 DEF Contract!Next
    <2>4. CASE ApprovalRequired(r)
      <3> DEFINE row == [call[r][c] EXCEPT !.gate = "human"]
      <3>1. SetRow(r, c, row) /\ ran' = ran
            /\ status' = [status EXCEPT ![r] = "awaiting_approval"]
        BY <1>8, <2>4 DEF ApprovalRequired, Row
      <3>2. row.gate = "human" /\ row.approved = "null" /\ ~row.consumed
        BY <2>1 DEF CallRow
      <3> HIDE DEF row
      <3>3. call'[r][c] = row
        BY <1>t, <3>1, SetRowAt DEF TypeOK
      <3>4. GateOf(r, c)' = "pending"
        BY <2>1, <3>1, <3>2, <3>3 DEF GateOf
      <3>5. Contract!Ask(r, c)
        BY <1>t, <2>1, <2>2, <3>1, <3>4, RowMoves DEF Contract!Ask
      <3> QED
        BY <3>5 DEF Contract!Next
    <2> QED
      BY <1>8, <2>3, <2>4
  <1>9. ASSUME NEW c \in CallId, c = cur[r], ConsumeApproval(r)
        PROVE  Contract!Next
    <2> DEFINE row == [call[r][c] EXCEPT !.consumed = TRUE, !.st = "executing"]
    <2>1. /\ GateOf(r, c) = "granted" /\ call[r][c] \in CallRow
          /\ call[r][c].gate = "human" /\ ran[r][c] = 0
      BY <1>9, <1>t DEF ConsumeApproval, Consumable, TaskInv, Row, GateOf
    <2>2. SetRow(r, c, row) /\ ran' = ran /\ status' = status
          /\ status[r] = "awaiting_approval"
      BY <1>9, <1>t DEF ConsumeApproval, Row, StatusInv
    <2>3. row.gate = "human" /\ row.consumed
      BY <2>1 DEF CallRow
    <2> HIDE DEF row
    <2>4. call'[r][c] = row
      BY <1>t, <2>2, SetRowAt DEF TypeOK
    <2>5. GateOf(r, c)' = "cleared"
      BY <2>1, <2>2, <2>3, <2>4 DEF GateOf
    <2>6. Contract!Spend(r, c)
      BY <1>t, <2>1, <2>2, <2>5, RowMoves DEF Contract!Spend
    <2> QED
      BY <2>6 DEF Contract!Next
  <1>10. ASSUME NEW c \in CallId, NEW t \in Tool, NEW a \in Args,
                ProposeToolCall(r, c, t, a)
         PROVE  [Contract!Next]_ContractVars
    <2> DEFINE row == [NoRow EXCEPT !.st = "proposed", !.tool = t, !.args = a]
    <2>1. call[r][c].gate = "none" /\ ran' = ran /\ status' = status
      BY <1>10, <1>t, NoRowFields DEF ProposeToolCall, CallInv
    <2>2. row.gate = "none"
      BY DEF NoRow
    <2>3. SetRow(r, c, row)
      BY <1>10 DEF ProposeToolCall
    <2> HIDE DEF row
    <2>4. /\ call'[r][c] = row
          /\ \A q \in Run, d \in CallId : q # r \/ d # c => call'[q][d] = call[q][d]
      BY <1>t, <2>3, SetRowAt DEF TypeOK
    <2>5. \A q \in Run, d \in CallId : GateOf(q, d)' = GateOf(q, d)
      BY <2>1, <2>2, <2>4 DEF GateOf
    <2> QED
      BY <2>1, <2>5, RowStays DEF gateOf
  <1>11. (PolicyApproves(r) \/ ApprovalRequired(r) \/ ConsumeApproval(r))
            => cur[r] \in CallId
    BY <1>t DEF PolicyApproves, ApprovalRequired, ConsumeApproval, OnCall
  <1> QED
    BY <1>1, <1>2, <1>3, <1>4, <1>5, <1>6, <1>7, <1>8, <1>9, <1>10, <1>11 DEF TaskStep

LEMMA ThreadRefines ==
    ASSUME IInv, NEW r \in Run, ThreadStep(r)
    PROVE  [Contract!Next]_ContractVars
  <1>t. TypeOK /\ \A c \in CallId : CallInv(r, c)
    BY DEF IInv, TypeInv, GateInv
  <1>1. ASSUME NEW c \in CallId, ThreadStarts(r, c)
        PROVE  Contract!Next
    <2>1. GateOf(r, c) = "cleared"
      BY <1>1, <1>t, ClearedGate DEF ThreadStarts, CallInv
    <2>2. /\ call' = call /\ status' = status /\ ran'[r][c] > 0
          /\ \A q \in Run, d \in CallId : q # r \/ d # c => ran'[q][d] = ran[q][d]
      BY <1>1, <1>t DEF ThreadStarts, store, TypeOK
    <2>3. /\ GateOf(r, c)' = "handed"
          /\ \A q \in Run, d \in CallId : q # r \/ d # c => GateOf(q, d)' = GateOf(q, d)
      BY <2>2 DEF GateOf
    <2>4. Contract!Hand(r, c)
      BY <2>1, <2>2, <2>3, GateMoves DEF Contract!Hand
    <2> QED
      BY <2>4 DEF Contract!Next
  <1>2. ASSUME NEW c \in CallId, ThreadEnds(r, c)
        PROVE  [Contract!Next]_ContractVars
    <2>1. call' = call /\ ran' = ran /\ status' = status
      BY <1>2 DEF ThreadEnds, store, history
    <2> QED
      BY <2>1, GatesKept, RowStays DEF SameGate
  <1> QED
    BY <1>1, <1>2 DEF ThreadStep

LEMMA EnvironmentRefines ==
    ASSUME IInv, NEW r \in Run, Environment(r)
    PROVE  [Contract!Next]_ContractVars
  <1> USE DEF GoTo, SetStatus, store, task, history
  <1>t. TypeOK /\ \A c \in CallId : CallInv(r, c) /\ call[r][c] \in CallRow
    BY DEF IInv, TypeInv, GateInv, TypeOK
  <1>s. call' = call /\ ran' = ran => gateOf' = gateOf
    BY GatesKept DEF SameGate
  <1>1. CASE StartRun(r)
    <2>1. Contract!Create(r)
      BY <1>1, <1>s DEF StartRun, Contract!Create
    <2> QED
      BY <2>1 DEF Contract!Next
  <1>2. CASE Cancel(r) \/ MarkCancelRequested(r)
    BY <1>2, <1>s, RowStays DEF Cancel, MarkCancelRequested
  <1>3. CASE SchedulerTimeout(r)
    BY <1>3, <1>s, Endings, RowMovesOn DEF SchedulerTimeout, Live
  <1>4. CASE DeleteThread(r)
    <2>1. Contract!Delete(r)
      BY <1>4, <1>s, SameModels DEF DeleteThread, Contract!Delete
    <2> QED
      BY <2>1 DEF Contract!Next
  <1>5. ASSUME NEW c \in CallId, NEW a \in Args, NEW v \in Verdicts, Decide(r, c, a, v)
        PROVE  [Contract!Next]_ContractVars
    <2>1. /\ status[r] \in ActiveRunStatuses /\ status' = status /\ ran' = ran
          /\ call[r][c].approved = "null" /\ ~call[r][c].consumed
      BY <1>5 DEF Decide, Live
    <2>2. PICK st \in CallStatus :
             SetRow(r, c, [call[r][c] EXCEPT !.approved = v, !.st = st])
      BY <1>5 DEF Decide, CallStatus
    <2> DEFINE row == [call[r][c] EXCEPT !.approved = v, !.st = st]
    <2>3. row.gate = call[r][c].gate /\ row.approved = v /\ row.consumed = call[r][c].consumed
      BY <1>t DEF CallRow
    <2>4. SetRow(r, c, row)
      BY <2>2
    <2> HIDE DEF row
    <2>5. /\ call'[r][c] = row
          /\ \A q \in Run, d \in CallId : q # r \/ d # c => call'[q][d] = call[q][d]
      BY <1>t, <2>4, SetRowAt DEF TypeOK
    <2>6. CASE call[r][c].gate = "human"
      <3>1. ran[r][c] = 0
        <4>1. ~Cleared(r, c) /\ ran[r][c] \in Nat
          BY <1>t, <2>1, <2>6 DEF Cleared, TypeOK
        <4>2. ~(ran[r][c] > 0)
          BY <1>t, <4>1 DEF CallInv
        <4> QED
          BY <4>1, <4>2
      <3>2. GateOf(r, c) = "pending" /\ GateOf(r, c)' \in {"granted", "refused"}
        <4>1. v = "yes" \/ v = "no"
          BY ConstantsAssumption
        <4>2. ran'[r][c] = 0
          BY <2>1, <3>1
        <4> QED
          BY <2>1, <2>3, <2>5, <2>6, <3>1, <4>1, <4>2 DEF GateOf
      <3>3. Contract!Answer(r, c)
        BY <1>t, <2>1, <2>4, <3>2, RowMoves, SameModels
           DEF Contract!Answer, Contract!Active
      <3> QED
        BY <3>3 DEF Contract!Next
    <2>7. CASE call[r][c].gate # "human"
      <3>1. call[r][c].gate \in {"none", "policy"}
        BY <1>t, <2>7 DEF CallRow
      <3>2. \A q \in Run, d \in CallId : GateOf(q, d)' = GateOf(q, d)
        BY <2>1, <2>3, <2>5, <3>1 DEF GateOf
      <3> QED
        BY <2>1, <3>2, RowStays DEF gateOf
    <2> QED
      BY <2>6, <2>7
  <1> QED
    BY <1>1, <1>2, <1>3, <1>4, <1>5 DEF Environment

LEMMA ContractInit == Init => Contract!Init
  BY DEF Init, Contract!Init, gateOf, GateOf, NoRow

LEMMA ContractStep ==
    ASSUME IInv, [Next]_vars
    PROVE  [Contract!Next]_ContractVars
  <1>s. call' = call /\ ran' = ran => gateOf' = gateOf
    BY GatesKept DEF SameGate
  <1>1. ASSUME NEW s \in SUBSET (Tool \ ReadOnly), ChangePolicy(s)
        PROVE  [Contract!Next]_ContractVars
    BY <1>1, <1>s, RowStays DEF ChangePolicy, store, history
  <1>2. ASSUME NEW ended \in SUBSET Run, Restart(ended)
        PROVE  [Contract!Next]_ContractVars
    <2>1. Contract!Restart
      BY <1>2, <1>s, SameModels DEF Restart, Contract!Restart, Contract!Active, Live, history
    <2> QED
      BY <2>1 DEF Contract!Next
  <1>3. CASE UNCHANGED vars
    BY <1>3, <1>s, RowStays DEF vars
  <1> QED
    BY <1>1, <1>2, <1>3, TaskRefines, ThreadRefines, EnvironmentRefines
       DEF Next, Crash, Shutdown

(* AgentOrchestrator keeps the contract of a run, for any number of runs,  *)
(* calls, tools and arguments: the row moves along RUN_TRANSITIONS, each   *)
(* call passes its gate once, and the two agree at every step, whatever    *)
(* polls, cancels, deadlines, late decisions and restarts come between.    *)
THEOREM ContractHolds == Spec => KeepsContract
  <1>1. IInv /\ [Next]_vars => [Contract!Next]_Contract!cvars
    BY ContractStep DEF ContractVars, Contract!cvars
  <1> QED
    BY <1>1, ContractInit, InvariantHolds, PTL DEF Spec, KeepsContract, Contract!Spec
=============================================================================
