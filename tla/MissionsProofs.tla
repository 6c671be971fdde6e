--------------------------- MODULE MissionsProofs ---------------------------
(***************************************************************************)
(* Proofs about Missions for any number of missions, any threads and runs, *)
(* any budget and any number of failures: IInv is inductive, and with it   *)
(* the typing, the budget, the serial service, the reach of a cancel, the  *)
(* truth of a verdict and the implementation of MissionQueue follow.  The  *)
(* conjuncts of IInv are taken one by one, each with the steps that can    *)
(* disturb it.                                                             *)
(***************************************************************************)
EXTENDS MissionsInvariant, TLAPS

(* What the end of a run records, component by component *)
LEMMA OutcomeOf ==
    ASSUME NEW o \in RunOutcome
    PROVE  /\ o[1] \in TerminalRunStatuses
           /\ o[2] \in BOOLEAN /\ o[3] \in BOOLEAN
           /\ o[2] \/ o[3] => o[1] \in {"completed", "failed"}
  <1>1. ASSUME NEW k \in BOOLEAN, o = <<"completed", FALSE, k>>
        PROVE  o[1] = "completed" /\ o[2] = FALSE /\ o[3] = k
    BY <1>1
  <1>2. ASSUME NEW k \in BOOLEAN, o = <<"failed", TRUE, k>>
        PROVE  o[1] = "failed" /\ o[2] = TRUE /\ o[3] = k
    BY <1>2
  <1>3. ASSUME NEW s \in {"failed", "rejected", "cancelled"}, o = <<s, FALSE, FALSE>>
        PROVE  o[1] = s /\ o[2] = FALSE /\ o[3] = FALSE
    BY <1>3
  <1>4. \/ \E k \in BOOLEAN : o = <<"completed", FALSE, k>>
        \/ \E k \in BOOLEAN : o = <<"failed", TRUE, k>>
        \/ \E s \in {"failed", "rejected", "cancelled"} : o = <<s, FALSE, FALSE>>
    BY DEF RunOutcome
  <1> QED
    BY <1>1, <1>2, <1>3, <1>4 DEF TerminalRunStatuses

-----------------------------------------------------------------------------
(* Typing *)

(* Leaving the tick lets go of the mission in hand. *)
LEMMA LeaveTickType ==
    ASSUME NEW there \in {"loop", "wait"}, LeaveTick(there)
    PROVE  /\ pc' = there /\ pc' \in SchedPC /\ pc' \notin Holding
           /\ cur' \in Mission \cup {NoMission} /\ seen' \in Nat
           /\ curRun' \in Run \cup {NoRun} /\ stopped' = FALSE
           /\ verdict' = "none" /\ exc' = "none"
  BY DEF LeaveTick, GoTo, SchedPC, Suspended, Holding

LEMMA TypeInit == Init => TypeOK
  <1> SUFFICES ASSUME Init PROVE TypeOK
    OBVIOUS
  <1>1. pc \in SchedPC /\ pc \notin Holding
    BY DEF Init, SchedPC, Suspended, Holding
  <1>2. /\ rstat \in [Run -> RunStatus \cup {"absent", "gone"}]
        /\ rtask \in [Run -> {"none", "new", "live", "dying", "done"}]
        /\ owner \in [Run -> Mission \cup {NoMission}]
        /\ rthr \in [Run -> Thread \cup {NoThread}]
        /\ rcancel \in [Run -> BOOLEAN] /\ spent \in [Run -> BOOLEAN]
        /\ marker \in [Run -> BOOLEAN]
    BY DEF Init
  <1>3. /\ mstat \in [Mission -> MissionStatus \cup {"absent", "gone"}]
        /\ thr \in [Mission -> Thread \cup {NoThread}]
        /\ last \in [Mission -> Run \cup {NoRun}]
        /\ err \in [Mission -> MissionError]
        /\ used \in [Mission -> Nat] /\ started \in [Mission -> Nat]
    BY DEF Init, MissionError
  <1> QED
    BY <1>1, <1>2, <1>3 DEF Init, TypeOK, Holding

(* The steps of the people who use the service *)
LEMMA OperatorType ==
    ASSUME TypeOK, Operator
    PROVE  TypeOK'
  <1> USE DEF TypeOK, runRows, scheduler, server, history
  <1>1. ASSUME NEW m \in Mission, NEW t \in Thread, CreateMission(m, t)
        PROVE  TypeOK'
    BY <1>1 DEF CreateMission, MissionStatus
  <1>2. ASSUME NEW m \in Mission, CancelMission(m)
        PROVE  TypeOK'
    <2>1. /\ mstat' \in [Mission -> MissionStatus \cup {"absent", "gone"}]
          /\ err' \in [Mission -> MissionError]
      BY <1>2 DEF CancelMission, MissionStatus, MissionError
    <2>2. rcancel' \in [Run -> BOOLEAN]
      BY <1>2 DEF CancelMission
    <2> QED
      BY <1>2, <2>1, <2>2 DEF CancelMission
  <1>3. ASSUME NEW t \in Thread, DeleteThread(t)
        PROVE  TypeOK'
    BY <1>3 DEF DeleteThread
  <1> QED
    BY <1>1, <1>2, <1>3 DEF Operator

(* The steps of the scheduler *)
LEMMA SchedulerType ==
    ASSUME TypeOK, SchedulerStep
    PROVE  TypeOK'
  <1> USE ConstantsAssumption
  <1> USE DEF TypeOK, missionRows, runRows, scheduler, server, history, GoTo,
              Raise, Settle, SchedPC, Suspended, Holding
  <1>1. CASE LoopTop \/ NothingPending \/ WaitEnds
    BY <1>1 DEF LoopTop, NothingPending, WaitEnds
  <1>15. CASE SweepReturns
    BY <1>15 DEF SweepReturns
  <1>2. ASSUME NEW m \in Mission, ClaimNextMission(m)
        PROVE  TypeOK'
    BY <1>2 DEF ClaimNextMission, MissionStatus
  <1>3. CASE AdvanceCancelled
    BY <1>3, LeaveTickType DEF AdvanceCancelled
  <1>16. CASE AddMessage \/ StartRaises
    BY <1>16 DEF AddMessage, StartRaises
  <1>4. CASE CheckBudget \/ Rotated
    BY <1>4 DEF CheckBudget, Rotated
  <1>5. ASSUME NEW r \in Run, StartRun(r)
        PROVE  TypeOK'
    BY <1>5 DEF StartRun, RunStatus
  <1>6. CASE NoteMissionRun
    BY <1>6 DEF NoteMissionRun
  <1>7. ASSUME StopInflightRun(curRun), curRun \in Run
        PROVE  /\ rcancel' \in [Run -> BOOLEAN]
               /\ rtask' \in [Run -> {"none", "new", "live", "dying", "done"}]
    BY <1>7 DEF StopInflightRun
  <1>8. CASE CheckStarted
    <2>1. CASE MissionCancelled
      BY <1>7, <1>8, <2>1, LeaveTickType DEF CheckStarted
    <2>2. CASE ~MissionCancelled
      BY <1>8, <2>2 DEF CheckStarted
    <2> QED
      BY <2>1, <2>2
  <1>9. CASE AwaitSeesEnd \/ AwaitSeesCancel
    BY <1>7, <1>9, ZenonT(60) DEF AwaitSeesEnd, AwaitSeesCancel
  <1>10. CASE AwaitTimesOut
    BY <1>7, <1>10 DEF AwaitTimesOut, RunStatus
  <1>11. CASE Judge
    BY <1>11 DEF Judge, Outcome
  <1>12. CASE SetMissionStatus
    BY <1>12, LeaveTickType DEF SetMissionStatus, MissionStatus, MissionError
  <1>13. CASE SettleRefused \/ SchedulerCancelled
    BY <1>13, ZenonT(60) DEF SettleRefused, SchedulerCancelled
  <1>14. CASE FailMission
    BY <1>14, LeaveTickType DEF FailMission, MissionStatus, MissionError
  <1> QED
    BY <1>1, <1>2, <1>3, <1>4, <1>5, <1>6, <1>8, <1>9, <1>10, <1>11, <1>12,
       <1>13, <1>14, <1>15, <1>16
       DEF SchedulerStep

(* The steps of the runs, and of a run that dies *)
LEMMA RunType ==
    ASSUME TypeOK, NEW r \in Run, RunStep(r) \/ RunDies(r)
    PROVE  TypeOK'
  <1> USE DEF TypeOK, missionRows, runRows, scheduler, server, history
  <1>1. CASE RunBegins(r) \/ RunCancelled(r) \/ RunDies(r)
    BY <1>1 DEF RunBegins, RunCancelled, RunDies, RunStatus
  <1>2. ASSUME NEW o \in RunOutcome, RunEnds(r, o)
        PROVE  TypeOK'
    <2>1. o[1] \in RunStatus /\ o[2] \in BOOLEAN /\ o[3] \in BOOLEAN
      BY OutcomeOf DEF RunStatus, TerminalRunStatuses
    <2> QED
      BY <1>2, <2>1 DEF RunEnds
  <1> QED
    BY <1>1, <1>2 DEF RunStep

(* Crash and restart, whatever rows the last process left *)
LEMMA RecoverType ==
    ASSUME TypeOK, NEW rows \in [Run -> RunStatus \cup {"absent", "gone"}],
           Recover(rows)
    PROVE  TypeOK'
  <1>1. /\ mstat' \in [Mission -> MissionStatus \cup {"absent", "gone"}]
        /\ rstat' \in [Run -> RunStatus \cup {"absent", "gone"}]
        /\ rtask' \in [Run -> {"none", "new", "live", "dying", "done"}]
    BY DEF TypeOK, Recover, MissionStatus, RunStatus
  <1>2. /\ pc' = "loop" /\ pc' \in SchedPC /\ pc' \notin Holding
        /\ cur' \in Mission \cup {NoMission} /\ seen' \in Nat
        /\ curRun' \in Run \cup {NoRun} /\ stopped' = FALSE
        /\ verdict' = "none" /\ exc' = "none"
    BY LeaveTickType DEF Recover
  <1>3. UNCHANGED <<thr, used, last, err, threads, rthr, rcancel, spent, marker,
                    faults, deaths, started, owner>>
    BY DEF Recover, history
  <1>4. stop' = "no" /\ dying' = FALSE /\ boots' \in Nat
    BY DEF Recover, TypeOK
  <1> QED
    BY <1>1, <1>2, <1>3, <1>4 DEF TypeOK, Holding

(* A restart adopts the rows as they are, save that the end of the event   *)
(* loop may have cancelled active runs.                                    *)
LEMMA Restarts ==
    ASSUME TypeOK, Crash \/ RestartAfterStop
    PROVE  \E rows \in [Run -> RunStatus \cup {"absent", "gone"}] :
              /\ Recover(rows)
              /\ \A r \in Run : rows[r] = rstat[r]
                                \/ (Active(r) /\ rows[r] = "cancelled")
  <1>1. CASE Crash
    BY <1>1 DEF Crash, TypeOK
  <1>2. CASE RestartAfterStop
    <2> DEFINE rows == [r \in Run |-> IF rtask[r] \in {"live", "dying"} /\ Active(r)
                                      THEN "cancelled" ELSE rstat[r]]
    <2>1. Recover(rows)
      BY <1>2 DEF RestartAfterStop
    <2>2. rows \in [Run -> RunStatus \cup {"absent", "gone"}]
      BY DEF TypeOK, RunStatus
    <2>3. \A r \in Run : rows[r] = rstat[r] \/ (Active(r) /\ rows[r] = "cancelled")
      OBVIOUS
    <2> QED
      BY <2>1, <2>2, <2>3
  <1> QED
    BY <1>1, <1>2

LEMMA RestartFrame ==
    ASSUME TypeOK, Crash \/ RestartAfterStop
    PROVE  /\ UNCHANGED <<thr, used, last, err, threads, rthr, rcancel, spent,
                          marker, faults, deaths, started, owner>>
           /\ \A m \in Mission : mstat'[m] = IF mstat[m] = "running" THEN "pending"
                                                                   ELSE mstat[m]
           /\ pc' = "loop" /\ cur' = NoMission /\ curRun' = NoRun
           /\ stop' = "no" /\ ~dying' /\ boots' = boots + 1
  <1> PICK rows \in [Run -> RunStatus \cup {"absent", "gone"}] : Recover(rows)
    BY Restarts
  <1> QED
    BY DEF Recover, LeaveTick, GoTo, history

(* No run is active after a restart, and none is forgotten. *)
LEMMA RestartEnds ==
    ASSUME TypeOK, Crash \/ RestartAfterStop
    PROVE  \A r \in Run : /\ rstat'[r] \notin ActiveRunStatuses
                          /\ rstat[r] \notin ActiveRunStatuses => rstat'[r] = rstat[r]
                          /\ rstat[r] \in ActiveRunStatuses =>
                                rstat'[r] \in {"interrupted", "cancelled"}
  <1> PICK rows \in [Run -> RunStatus \cup {"absent", "gone"}] :
              /\ Recover(rows)
              /\ \A r \in Run : rows[r] = rstat[r]
                                \/ (Active(r) /\ rows[r] = "cancelled")
    BY Restarts
  <1>1. \A r \in Run : rstat'[r] = IF rows[r] \in ActiveRunStatuses
                                   THEN "interrupted" ELSE rows[r]
    BY DEF Recover
  <1> QED
    BY <1>1 DEF Active, ActiveRunStatuses, TerminalRunStatuses

LEMMA FailureType ==
    ASSUME TypeOK, \/ SchedulerFault \/ Crash
                   \/ Shutdown \/ StopTimesOut \/ RestartAfterStop
    PROVE  TypeOK'
  <1> USE DEF TypeOK, missionRows, runRows, scheduler, history
  <1>1. CASE Shutdown
    BY <1>1 DEF Shutdown
  <1>2. CASE StopTimesOut
    BY <1>2 DEF StopTimesOut
  <1>3. CASE SchedulerFault
    <2>1. CASE Raise("exception") /\ pc \in Holding
      BY <1>3, <2>1 DEF SchedulerFault, Raise, GoTo, LeaveTick, SchedPC, Suspended,
                        Holding
    <2>2. CASE LeaveTick("wait")
      BY <1>3, <2>2, LeaveTickType DEF SchedulerFault, Holding
    <2> QED
      BY <1>3, <2>1, <2>2 DEF SchedulerFault
  <1>4. CASE Crash \/ RestartAfterStop
    BY <1>4, Restarts, RecoverType
  <1> QED
    BY <1>1, <1>2, <1>3, <1>4

LEMMA TypeNext == TypeOK /\ [Next]_vars => TypeOK'
  <1>1. CASE UNCHANGED vars
    BY <1>1 DEF vars, TypeOK
  <1> QED
    BY <1>1, OperatorType, SchedulerType, RunType, FailureType DEF Next

(* Every variable of Missions keeps its type. *)
THEOREM TypeCorrect == Spec => []TypeOK
  BY TypeInit, TypeNext, PTL DEF Spec

-----------------------------------------------------------------------------
(* Frames *)

(* Steps that change no row the properties of missions and runs read *)
Quiet ==
    \/ LoopTop \/ SweepReturns \/ NothingPending \/ WaitEnds
    \/ AdvanceCancelled \/ CheckBudget \/ Rotated \/ AddMessage \/ StartRaises
    \/ NoteMissionRun \/ CheckStarted \/ AwaitSeesEnd \/ AwaitSeesCancel
    \/ Judge \/ SettleRefused \/ SchedulerCancelled
    \/ SchedulerFault \/ Shutdown \/ StopTimesOut
    \/ \E r \in Run : RunDies(r)

LEMMA QuietFrame ==
    ASSUME Quiet
    PROVE  UNCHANGED <<mstat, thr, err, threads, rstat, rthr, spent, marker,
                       started, owner>>
  <1> USE DEF missionRows, runRows, history
  <1>1. CASE LoopTop \/ SweepReturns \/ NothingPending \/ WaitEnds
    BY <1>1 DEF LoopTop, SweepReturns, NothingPending, WaitEnds
  <1>2. CASE AdvanceCancelled \/ CheckBudget \/ Rotated \/ AddMessage \/ StartRaises
    BY <1>2 DEF AdvanceCancelled, CheckBudget, Rotated, AddMessage, StartRaises
  <1>3. CASE NoteMissionRun \/ CheckStarted \/ AwaitSeesEnd \/ AwaitSeesCancel
    BY <1>3 DEF NoteMissionRun, CheckStarted, AwaitSeesEnd, AwaitSeesCancel
  <1>4. CASE Judge \/ SettleRefused \/ SchedulerCancelled
    BY <1>4 DEF Judge, SettleRefused, SchedulerCancelled
  <1>5. CASE SchedulerFault \/ Shutdown \/ StopTimesOut
    BY <1>5 DEF SchedulerFault, Shutdown, StopTimesOut
  <1>6. CASE \E r \in Run : RunDies(r)
    BY <1>6 DEF RunDies
  <1> QED
    BY <1>1, <1>2, <1>3, <1>4, <1>5, <1>6 DEF Quiet

(* Every other step, by name *)
LEMMA QuietOrNot ==
    ASSUME Next
    PROVE  \/ Quiet
           \/ \E m \in Mission, t \in Thread : CreateMission(m, t)
           \/ \E m \in Mission : CancelMission(m) \/ ClaimNextMission(m)
           \/ \E t \in Thread : DeleteThread(t)
           \/ \E r \in Run : StartRun(r) \/ RunStep(r)
           \/ AwaitTimesOut \/ SetMissionStatus \/ FailMission
           \/ Crash \/ RestartAfterStop
  BY DEF Next, Operator, SchedulerStep, Quiet

-----------------------------------------------------------------------------
(* The rows of missions and of runs *)

LEMMA RowInit == Init => RowInv
  BY DEF Init, RowInv, Active, ActiveRunStatuses, RunStatus, NoMission

LEMMA RowNext ==
    ASSUME TypeOK, RowInv, HeldInv, Next
    PROVE  RowInv'
  <1> USE ConstantsAssumption
  <1> USE DEF RowInv, Active
  <1>1. CASE Quiet
    <2>1. dying' => stop' # "no"
      BY <1>1 DEF Quiet, LoopTop, SweepReturns, NothingPending, WaitEnds,
         AdvanceCancelled, CheckBudget, Rotated, AddMessage, StartRaises,
         NoteMissionRun, CheckStarted, AwaitSeesEnd, AwaitSeesCancel, Judge,
         SettleRefused, SchedulerCancelled, SchedulerFault, Shutdown,
         StopTimesOut, RunDies, server
    <2> QED
      BY <1>1, <2>1, QuietFrame
  <1>2. ASSUME NEW m \in Mission, NEW t \in Thread, CreateMission(m, t)
        PROVE  RowInv'
    BY <1>2 DEF CreateMission, TypeOK, runRows, server, history
  <1>3. ASSUME NEW m \in Mission, CancelMission(m)
        PROVE  RowInv'
    BY <1>3 DEF CancelMission, TypeOK, server, history
  <1>4. ASSUME NEW t \in Thread, DeleteThread(t)
        PROVE  RowInv'
    BY <1>4 DEF DeleteThread, TypeOK, server, history, ActiveRunStatuses, RunStatus
  <1>5. ASSUME NEW m \in Mission, ClaimNextMission(m)
        PROVE  RowInv'
    BY <1>5 DEF ClaimNextMission, TypeOK, runRows, server, history
  <1>6. ASSUME NEW r \in Run, StartRun(r)
        PROVE  RowInv'
    BY <1>6 DEF StartRun, TypeOK, HeldInv, Holding, missionRows, server, NoMission, Mission
  <1>7. CASE AwaitTimesOut
    BY <1>7 DEF AwaitTimesOut, TypeOK, missionRows, server, history,
                ActiveRunStatuses, RunStatus, TerminalRunStatuses
  <1>8. CASE SetMissionStatus \/ FailMission
    BY <1>8 DEF SetMissionStatus, FailMission, Settled, TypeOK, runRows, server, history
  <1>9. ASSUME NEW r \in Run, RunBegins(r) \/ RunCancelled(r)
        PROVE  RowInv'
    BY <1>9 DEF RunBegins, RunCancelled, TypeOK, missionRows, server, history,
                ActiveRunStatuses, RunStatus, TerminalRunStatuses
  <1>10. ASSUME NEW r \in Run, NEW o \in RunOutcome, RunEnds(r, o)
         PROVE  RowInv'
    BY <1>10, OutcomeOf DEF RunEnds, TypeOK, missionRows, server, history,
                ActiveRunStatuses, RunStatus, TerminalRunStatuses
  <1>11. CASE Crash \/ RestartAfterStop
    <2>1. /\ UNCHANGED <<thr, threads, rthr, spent, marker, owner>> /\ ~dying'
          /\ \A m \in Mission : mstat'[m] = IF mstat[m] = "running" THEN "pending"
                                                                 ELSE mstat[m]
      BY <1>11, RestartFrame
    <2>2. \A r \in Run : /\ rstat'[r] \notin ActiveRunStatuses
                         /\ rstat[r] # "absent" => rstat'[r] # "absent"
      BY <1>11, RestartEnds DEF ActiveRunStatuses, RunStatus
    <2>3. \A r \in Run : owner[r] \in Mission \cup {NoMission}
      BY DEF TypeOK
    <2> QED
      BY <2>1, <2>2, <2>3
  <1> QED
    BY <1>1, <1>2, <1>3, <1>4, <1>5, <1>6, <1>7, <1>8, <1>9, <1>10, <1>11,
       QuietOrNot
       DEF RunStep

-----------------------------------------------------------------------------
(* The mission in hand *)

LEMMA HeldInit == Init => HeldInv
  BY DEF Init, HeldInv, Holding, WithRun

(* Nobody but the scheduler moves it. *)
LEMMA OthersFrame ==
    ASSUME \/ Operator \/ Shutdown \/ StopTimesOut
           \/ \E r \in Run : RunStep(r) \/ RunDies(r)
    PROVE  UNCHANGED <<pc, cur, seen, curRun, stopped, verdict, exc, used, last,
                       boots, faults, started, owner>>
  <1> USE DEF scheduler, server, history, missionRows
  <1>1. CASE Operator
    BY <1>1 DEF Operator, CreateMission, CancelMission, DeleteThread
  <1>2. CASE Shutdown \/ StopTimesOut
    BY <1>2 DEF Shutdown, StopTimesOut
  <1>3. ASSUME NEW r \in Run, RunBegins(r) \/ RunCancelled(r) \/ RunDies(r)
        PROVE  UNCHANGED <<pc, cur, seen, curRun, stopped, verdict, exc, used, last,
                           boots, faults, started, owner>>
    BY <1>3 DEF RunBegins, RunCancelled, RunDies
  <1>4. ASSUME NEW r \in Run, NEW o \in RunOutcome, RunEnds(r, o)
        PROVE  UNCHANGED <<pc, cur, seen, curRun, stopped, verdict, exc, used, last,
                           boots, faults, started, owner>>
    BY <1>4 DEF RunEnds
  <1> QED
    BY <1>1, <1>2, <1>3, <1>4 DEF RunStep

(* A run that is not active stays as it is, unless it is deleted or, if it *)
(* never was, started; what an ended run says does not change.             *)
LEMMA EndedStays ==
    ASSUME TypeOK, Next, NEW r \in Run, ~Active(r), rstat[r] # "absent"
    PROVE  /\ rstat'[r] = rstat[r] \/ rstat'[r] = "gone"
           /\ marker'[r] = marker[r] /\ spent'[r] = spent[r]
  <1> USE DEF TypeOK, Active
  <1>1. CASE Quiet
    BY <1>1, QuietFrame
  <1>2. ASSUME NEW m \in Mission, NEW t \in Thread, CreateMission(m, t)
        PROVE  UNCHANGED <<rstat, marker, spent>>
    BY <1>2 DEF CreateMission, runRows
  <1>3. ASSUME NEW m \in Mission, CancelMission(m) \/ ClaimNextMission(m)
        PROVE  UNCHANGED <<rstat, marker, spent>>
    BY <1>3 DEF CancelMission, ClaimNextMission, runRows
  <1>4. ASSUME NEW t \in Thread, DeleteThread(t)
        PROVE  /\ rstat'[r] = rstat[r] \/ rstat'[r] = "gone"
               /\ marker'[r] = marker[r] /\ spent'[r] = spent[r]
    BY <1>4 DEF DeleteThread
  <1>5. ASSUME NEW q \in Run, StartRun(q) \/ RunBegins(q) \/ RunCancelled(q)
        PROVE  rstat'[r] = rstat[r] /\ UNCHANGED <<marker, spent>>
    BY <1>5 DEF StartRun, RunBegins, RunCancelled
  <1>6. ASSUME NEW q \in Run, NEW o \in RunOutcome, RunEnds(q, o)
        PROVE  /\ rstat'[r] = rstat[r]
               /\ marker'[r] = marker[r] /\ spent'[r] = spent[r]
    BY <1>6 DEF RunEnds
  <1>7. CASE AwaitTimesOut
    BY <1>7 DEF AwaitTimesOut
  <1>8. CASE SetMissionStatus \/ FailMission
    BY <1>8 DEF SetMissionStatus, FailMission, runRows
  <1>9. CASE Crash \/ RestartAfterStop
    BY <1>9, RestartFrame, RestartEnds
  <1> QED
    BY <1>1, <1>2, <1>3, <1>4, <1>5, <1>6, <1>7, <1>8, <1>9, QuietOrNot
       DEF RunStep


(* What the others do to the mission in hand and its run *)
LEMMA HeldOthers ==
    ASSUME TypeOK, HeldInv,
           \/ Operator \/ Shutdown \/ StopTimesOut
           \/ \E r \in Run : RunStep(r) \/ RunDies(r)
    PROVE  HeldInv'
  <1> USE DEF HeldInv, TypeOK, Active
  <1>1. UNCHANGED <<pc, cur, curRun, owner>>
    BY OthersFrame
  <1>2. ASSUME pc \in Holding
        PROVE  mstat'[cur] \in {"running", "cancelled", "gone"}
    <2>1. CASE Operator
      BY <1>2, <2>1 DEF Operator, CreateMission, CancelMission, DeleteThread
    <2>2. CASE Shutdown \/ StopTimesOut \/ \E r \in Run : RunDies(r)
      BY <1>2, <2>2, QuietFrame DEF Quiet
    <2>3. ASSUME NEW r \in Run, RunStep(r)
          PROVE  UNCHANGED mstat
      BY <2>3 DEF RunStep, RunBegins, RunEnds, RunCancelled, missionRows
    <2> QED
      BY <1>2, <2>1, <2>2, <2>3
  <1>3. ASSUME NEW r \in Run, rstat[r] # "absent"
        PROVE  rstat'[r] # "absent" /\ (~Active(r) => ~Active(r)')
    <2>1. CASE Operator
      BY <1>3, <2>1 DEF Operator, CreateMission, CancelMission, DeleteThread, runRows,
                        ActiveRunStatuses, RunStatus
    <2>2. CASE Shutdown \/ StopTimesOut \/ \E q \in Run : RunDies(q)
      BY <1>3, <2>2, QuietFrame DEF Quiet
    <2>3. ASSUME NEW q \in Run, RunBegins(q) \/ RunCancelled(q)
          PROVE  rstat'[r] # "absent" /\ (~Active(r) => ~Active(r)')
      BY <1>3, <2>3 DEF RunBegins, RunCancelled
    <2>4. ASSUME NEW q \in Run, NEW o \in RunOutcome, RunEnds(q, o)
          PROVE  rstat'[r] # "absent" /\ (~Active(r) => ~Active(r)')
      BY <1>3, <2>4, OutcomeOf DEF RunEnds, TerminalRunStatuses
    <2> QED
      BY <1>3, <2>1, <2>2, <2>3, <2>4 DEF RunStep
  <1>4. pc \in WithRun => pc \in Holding /\ curRun \in Run
    BY DEF WithRun, Holding
  <1> QED
    BY <1>1, <1>2, <1>3, <1>4 DEF WithRun

LEMMA HeldScheduler ==
    ASSUME TypeOK, HeldInv, SchedulerStep
    PROVE  HeldInv'
  <1> USE DEF HeldInv, TypeOK, Holding, WithRun, GoTo, Raise, Settle, missionRows,
              runRows, history
  <1>1. CASE LoopTop \/ SweepReturns \/ NothingPending \/ WaitEnds
    BY <1>1 DEF LoopTop, SweepReturns, NothingPending, WaitEnds
  <1>2. ASSUME NEW m \in Mission, ClaimNextMission(m)
        PROVE  HeldInv'
    BY <1>2 DEF ClaimNextMission
  <1>3. CASE AdvanceCancelled \/ SetMissionStatus \/ FailMission
    BY <1>3, LeaveTickType DEF AdvanceCancelled, SetMissionStatus, FailMission
  <1>4. CASE CheckBudget \/ Rotated \/ AddMessage \/ StartRaises
    BY <1>4 DEF CheckBudget, Rotated, AddMessage, StartRaises
  <1>5. ASSUME NEW r \in Run, StartRun(r)
        PROVE  HeldInv'
    BY <1>5 DEF StartRun
  <1>6. CASE NoteMissionRun
    BY <1>6 DEF NoteMissionRun
  <1>7. CASE CheckStarted
    BY <1>7, LeaveTickType DEF CheckStarted
  <1>8. CASE AwaitSeesEnd \/ AwaitSeesCancel
    BY <1>8 DEF AwaitSeesEnd, AwaitSeesCancel, Active
  <1>9. CASE AwaitTimesOut
    BY <1>9 DEF AwaitTimesOut, Active, ActiveRunStatuses, TerminalRunStatuses
  <1>10. CASE Judge \/ SettleRefused \/ SchedulerCancelled
    BY <1>10 DEF Judge, SettleRefused, SchedulerCancelled
  <1> QED
    BY <1>1, <1>2, <1>3, <1>4, <1>5, <1>6, <1>7, <1>8, <1>9, <1>10
       DEF SchedulerStep

LEMMA HeldNext ==
    ASSUME TypeOK, HeldInv, Next
    PROVE  HeldInv'
  <1>1. CASE SchedulerFault
    BY <1>1, QuietFrame, LeaveTickType
       DEF Quiet, SchedulerFault, Raise, GoTo, HeldInv, Holding, WithRun
  <1>2. CASE Crash \/ RestartAfterStop
    BY <1>2, RestartFrame DEF HeldInv, Holding, WithRun
  <1> QED
    BY <1>1, <1>2, HeldOthers, HeldScheduler DEF Next

-----------------------------------------------------------------------------
(* The budget *)

LEMMA BudgetInit == Init => BudgetInv
  BY ConstantsAssumption DEF Init, BudgetInv, BudgetBound

(* The scheduler between the claim and the count of the run *)
LEMMA BudgetScheduler ==
    ASSUME TypeOK, RowInv, HeldInv, BudgetInv, SchedulerStep
    PROVE  BudgetInv'
  <1> USE ConstantsAssumption
  <1> USE DEF BudgetInv, BudgetBound, TypeOK, GoTo, Raise, Settle, missionRows,
              server, history
  <1>1. CASE LoopTop \/ SweepReturns \/ NothingPending \/ WaitEnds
    BY <1>1 DEF LoopTop, SweepReturns, NothingPending, WaitEnds
  <1>2. ASSUME NEW m \in Mission, ClaimNextMission(m)
        PROVE  BudgetInv'
    BY <1>2 DEF ClaimNextMission, Oldest
  <1>3. CASE AdvanceCancelled
    BY <1>3, LeaveTickType DEF AdvanceCancelled
  <1>4. CASE SetMissionStatus
    BY <1>4, LeaveTickType DEF SetMissionStatus, Settled
  <1>5. CASE FailMission
    BY <1>5, LeaveTickType DEF FailMission, Settled
  <1>6. CASE Rotated \/ AddMessage \/ StartRaises
    BY <1>6 DEF Rotated, AddMessage, StartRaises
  <1>12. CASE CheckBudget
    <2>1. /\ UNCHANGED <<mstat, used, started, boots, faults, cur, seen>>
          /\ pc = "claimed"
          /\ pc' = "settle" \/ (pc' \in {"rotate", "message"} /\ seen < MaxRuns)
      BY <1>12 DEF CheckBudget
    <2> QED
      BY <2>1
  <1>7. ASSUME NEW r \in Run, StartRun(r)
        PROVE  BudgetInv'
    <2>1. cur \in Mission /\ mstat[cur] # "gone"
      BY <1>7 DEF StartRun, RowInv, Holding
    <2>2. started' = [started EXCEPT ![cur] = @ + 1]
          /\ UNCHANGED <<mstat, used, cur, seen, boots, faults>> /\ pc' = "note"
      BY <1>7 DEF StartRun
    <2>3. started[cur] <= used[cur] + boots + faults /\ seen = used[cur] /\ seen < MaxRuns
      BY <1>7, <2>1 DEF StartRun
    <2> QED
      BY <2>1, <2>2, <2>3
  <1>8. CASE NoteMissionRun
    <2>1. cur \in Mission
      BY <1>8 DEF NoteMissionRun, Holding
    <2> QED
      BY <1>8, <2>1 DEF NoteMissionRun
  <1>9. CASE CheckStarted
    BY <1>9, LeaveTickType DEF CheckStarted
  <1>10. CASE AwaitSeesEnd \/ AwaitSeesCancel \/ AwaitTimesOut
    BY <1>10 DEF AwaitSeesEnd, AwaitSeesCancel, AwaitTimesOut
  <1>11. CASE Judge \/ SettleRefused \/ SchedulerCancelled
    BY <1>11 DEF Judge, SettleRefused, SchedulerCancelled
  <1> QED
    BY <1>1, <1>2, <1>3, <1>4, <1>5, <1>6, <1>7, <1>8, <1>9, <1>10, <1>11,
       <1>12
       DEF SchedulerStep

LEMMA BudgetNext ==
    ASSUME TypeOK, RowInv, HeldInv, BudgetInv, Next
    PROVE  BudgetInv'
  <1> USE ConstantsAssumption
  <1> USE DEF BudgetInv, BudgetBound, TypeOK
  <1>1. CASE \/ Operator \/ Shutdown \/ StopTimesOut
             \/ \E r \in Run : RunStep(r) \/ RunDies(r)
    <2>1. UNCHANGED <<pc, cur, seen, used, boots, faults, started>>
      BY <1>1, OthersFrame
    <2>2. \A m \in Mission : mstat[m] = "gone" => mstat'[m] = "gone"
      <3>1. CASE Operator
        BY <3>1 DEF Operator, CreateMission, CancelMission, DeleteThread
      <3>2. CASE Shutdown \/ StopTimesOut \/ \E r \in Run : RunDies(r)
        BY <3>2, QuietFrame DEF Quiet
      <3>3. ASSUME NEW r \in Run, RunStep(r)
            PROVE  UNCHANGED mstat
        BY <3>3 DEF RunStep, RunBegins, RunEnds, RunCancelled, missionRows
      <3> QED
        BY <1>1, <3>1, <3>2, <3>3
    <2> QED
      BY <2>1, <2>2
  <1>2. CASE SchedulerFault
    <2>1. UNCHANGED <<mstat, used, boots, started>> /\ faults' = faults + 1
      BY <1>2 DEF SchedulerFault, missionRows, history
    <2>2. pc' \in {"fail", "wait"}
      BY <1>2, LeaveTickType DEF SchedulerFault, Raise, GoTo
    <2> QED
      BY <2>1, <2>2
  <1>3. CASE Crash \/ RestartAfterStop
    BY <1>3, RestartFrame
  <1> QED
    BY <1>1, <1>2, <1>3, BudgetScheduler DEF Next

-----------------------------------------------------------------------------
(* The decision on a mission and what it rests on *)

LEMMA DecisionInit == Init => DecisionInv /\ VerdictsAreTrue
  BY DEF Init, DecisionInv, VerdictsAreTrue, Holding

(* What a note about an ended run says stays true. *)
LEMMA EndingStays ==
    ASSUME TypeOK, RowInv, Next, NEW r \in Run
    PROVE  /\ marker[r] \/ rstat[r] = "gone" => marker'[r] \/ rstat'[r] = "gone"
           /\ EndedBadly(r) => EndedBadly(r)'
  <1>1. CASE rstat[r] # "absent" /\ ~Active(r)
    BY <1>1, EndedStays DEF EndedBadly
  <1>2. CASE rstat[r] = "absent" \/ Active(r)
    BY <1>2 DEF RowInv, EndedBadly, Active, ActiveRunStatuses, RunStatus,
                TerminalRunStatuses
  <1> QED
    BY <1>1, <1>2

(* What the row of mission m says of its last run, for an outcome *)
Says(m, v) ==
    /\ v = "completed" =>
          last[m] # NoRun /\ (marker[last[m]] \/ rstat[last[m]] = "gone")
    /\ v = "exhausted" => used[m] >= MaxRuns
    /\ v = "run" => last[m] # NoRun /\ EndedBadly(last[m])

(* It goes on saying so as long as the mission gets no other run. *)
LEMMA SaysStays ==
    ASSUME TypeOK, RowInv, Next, NEW m \in Mission, NEW v, Says(m, v),
           last'[m] = last[m], used'[m] = used[m]
    PROVE  Says(m, v)'
  <1>1. last[m] # NoRun => last[m] \in Run
    BY DEF TypeOK
  <1> QED
    BY <1>1, EndingStays DEF Says

(* Only noting a run changes last and used, and only for the mission in    *)
(* hand.                                                                   *)
LEMMA NotedByScheduler ==
    ASSUME TypeOK, Next, ~NoteMissionRun
    PROVE  UNCHANGED <<used, last>>
  <1>1. CASE SchedulerStep
    BY <1>1 DEF SchedulerStep, LoopTop, SweepReturns, NothingPending, WaitEnds,
       ClaimNextMission, AdvanceCancelled, CheckBudget, Rotated, AddMessage,
       StartRun, StartRaises, CheckStarted, AwaitSeesEnd, AwaitSeesCancel,
       AwaitTimesOut, Judge, SetMissionStatus, SettleRefused, FailMission,
       SchedulerCancelled, missionRows
  <1>2. CASE SchedulerFault
    BY <1>2 DEF SchedulerFault, missionRows
  <1>3. CASE Crash \/ RestartAfterStop
    BY <1>3, RestartFrame
  <1> QED
    BY <1>1, <1>2, <1>3, OthersFrame DEF Next

(* The verdict is given on what the row says. *)
LEMMA JudgedTruly ==
    ASSUME TypeOK, RowInv, HeldInv, DecisionInv, Judge
    PROVE  mstat[cur] # "gone" => Says(cur, Outcome)
  <1> SUFFICES ASSUME mstat[cur] # "gone"
               PROVE  Says(cur, Outcome)
    OBVIOUS
  <1>1. /\ cur \in Mission /\ curRun \in Run
        /\ used[cur] = seen + 1 /\ last[cur] = curRun /\ curRun # NoRun
        /\ rstat[curRun] # "absent" /\ ~Active(curRun)
    BY ConstantsAssumption DEF Judge, TypeOK, HeldInv, DecisionInv, Holding, WithRun
  <1>2. rstat[curRun] \in TerminalRunStatuses \cup {"gone"}
    BY <1>1 DEF TypeOK, Active, ActiveRunStatuses
  <1> QED
    BY <1>1, <1>2 DEF Says, Outcome, EndedBadly, TerminalRunStatuses, TypeOK

LEMMA GoneStays ==
    ASSUME TypeOK, Next, NEW m \in Mission, mstat[m] = "gone"
    PROVE  mstat'[m] = "gone"
  <1> USE DEF TypeOK
  <1>1. CASE Quiet
    BY <1>1, QuietFrame
  <1>2. ASSUME NEW n \in Mission, NEW t \in Thread, CreateMission(n, t)
        PROVE  mstat'[m] = "gone"
    BY <1>2 DEF CreateMission
  <1>3. ASSUME NEW n \in Mission, CancelMission(n) \/ ClaimNextMission(n)
        PROVE  mstat'[m] = "gone"
    BY <1>3 DEF CancelMission, ClaimNextMission, Oldest
  <1>4. ASSUME NEW t \in Thread, DeleteThread(t)
        PROVE  mstat'[m] = "gone"
    BY <1>4 DEF DeleteThread
  <1>5. ASSUME NEW r \in Run, StartRun(r) \/ RunStep(r)
        PROVE  UNCHANGED mstat
    BY <1>5 DEF StartRun, RunStep, RunBegins, RunEnds, RunCancelled, missionRows
  <1>6. CASE AwaitTimesOut
    BY <1>6 DEF AwaitTimesOut, missionRows
  <1>7. CASE SetMissionStatus \/ FailMission
    BY <1>7 DEF SetMissionStatus, FailMission, Settled
  <1>8. CASE Crash \/ RestartAfterStop
    BY <1>8, RestartFrame
  <1> QED
    BY <1>1, <1>2, <1>3, <1>4, <1>5, <1>6, <1>7, <1>8, QuietOrNot

LEMMA DecisionNext ==
    ASSUME TypeOK, RowInv, HeldInv, BudgetInv, DecisionInv, Next, TypeOK'
    PROVE  DecisionInv'
  <1> USE DEF DecisionInv
  <1>1. CASE NoteMissionRun
    BY <1>1 DEF NoteMissionRun, GoTo, TypeOK, BudgetInv, Holding
  <1>2. CASE Judge
    <2> PICK v : v = Outcome
      OBVIOUS
    <2>1. /\ pc' = "settle" /\ verdict' = v
          /\ UNCHANGED <<mstat, cur, used, last>> /\ cur \in Mission
      BY <1>2 DEF Judge, Settle, GoTo, missionRows, TypeOK, Holding
    <2>2. mstat[cur] # "gone" => Says(cur, v)'
      BY <1>2, <2>1, JudgedTruly, SaysStays
    <2> QED
      BY <2>1, <2>2 DEF Says
  <1>3. CASE CheckBudget
    BY <1>3 DEF CheckBudget, Settle, GoTo, BudgetInv, missionRows
  <1>4. CASE Rotated
    BY <1>4 DEF Rotated, Settle, GoTo
  <1>5. ASSUME ~NoteMissionRun, ~Judge, ~CheckBudget, ~Rotated,
               pc' \in {"check", "await", "verdict", "settle"}
        PROVE  /\ cur' = cur /\ seen' = seen /\ curRun' = curRun /\ verdict' = verdict
               /\ pc' \in {"check", "await", "verdict"} =>
                     pc \in {"check", "await", "verdict"}
               /\ pc' = "settle" => pc = "settle"
    <2>1. CASE SchedulerStep
      BY <1>5, <2>1, LeaveTickType DEF SchedulerStep, LoopTop, SweepReturns,
         NothingPending, WaitEnds, ClaimNextMission, AdvanceCancelled, AddMessage,
         StartRun, StartRaises, CheckStarted, AwaitSeesEnd, AwaitSeesCancel,
         AwaitTimesOut, SetMissionStatus, SettleRefused, FailMission,
         SchedulerCancelled, GoTo, Raise
    <2>2. CASE SchedulerFault
      BY <1>5, <2>2, LeaveTickType DEF SchedulerFault, Raise, GoTo
    <2>3. CASE Crash \/ RestartAfterStop
      BY <1>5, <2>3, RestartFrame
    <2> QED
      BY <2>1, <2>2, <2>3, OthersFrame DEF Next
  <1>6. CASE ~NoteMissionRun /\ ~Judge /\ ~CheckBudget /\ ~Rotated
    <2>1. CASE pc' \in {"check", "await", "verdict"}
      <3>1. /\ cur' = cur /\ seen' = seen /\ curRun' = curRun /\ cur \in Mission
            /\ pc \in {"check", "await", "verdict"} /\ pc \in Holding
        BY <1>5, <1>6, <2>1 DEF TypeOK, Holding
      <3>2. mstat'[cur] # "gone" => mstat[cur] # "gone"
        BY <3>1, GoneStays
      <3> QED
        BY <1>6, <2>1, <3>1, <3>2, NotedByScheduler
    <2>2. CASE pc' = "settle"
      <3> PICK v : v = verdict
        OBVIOUS
      <3>1. /\ cur' = cur /\ verdict' = v /\ cur \in Mission
            /\ pc = "settle" /\ pc \in Holding
        BY <1>5, <1>6, <2>2 DEF TypeOK, Holding
      <3>2. mstat'[cur] # "gone" => mstat[cur] # "gone"
        BY <3>1, GoneStays
      <3>3. mstat[cur] # "gone" => Says(cur, v)
        BY <3>1 DEF Says
      <3>4. mstat'[cur] # "gone" => Says(cur, v)'
        BY <1>6, <3>1, <3>2, <3>3, NotedByScheduler, SaysStays
      <3> QED
        BY <2>2, <3>1, <3>4 DEF Says
    <2> QED
      BY <2>1, <2>2
  <1> QED
    BY <1>1, <1>2, <1>3, <1>4, <1>6

(* An ended mission was ended by the scheduler's verdict or its handler of *)
(* exceptions, or has been before.                                         *)
LEMMA EndedBy ==
    ASSUME TypeOK, Next, NEW m \in Mission,
           mstat'[m] \in {"completed", "exhausted", "failed"}
    PROVE  \/ mstat'[m] = mstat[m] /\ err'[m] = err[m]
           \/ SetMissionStatus /\ m = cur
           \/ mstat'[m] = "failed" /\ err'[m] # "run"
  <1> USE DEF TypeOK
  <1>1. CASE Quiet
    BY <1>1, QuietFrame
  <1>2. ASSUME NEW n \in Mission, NEW t \in Thread, CreateMission(n, t)
        PROVE  mstat'[m] = mstat[m] /\ err'[m] = err[m]
    BY <1>2 DEF CreateMission
  <1>3. ASSUME NEW n \in Mission, CancelMission(n) \/ ClaimNextMission(n)
        PROVE  mstat'[m] = mstat[m] /\ err'[m] = err[m]
    BY <1>3 DEF CancelMission, ClaimNextMission
  <1>4. ASSUME NEW t \in Thread, DeleteThread(t)
        PROVE  mstat'[m] = mstat[m] /\ err'[m] = err[m]
    BY <1>4 DEF DeleteThread
  <1>5. ASSUME NEW r \in Run, StartRun(r) \/ RunStep(r)
        PROVE  UNCHANGED <<mstat, err>>
    BY <1>5 DEF StartRun, RunStep, RunBegins, RunEnds, RunCancelled, missionRows
  <1>6. CASE AwaitTimesOut
    BY <1>6 DEF AwaitTimesOut, missionRows
  <1>7. CASE SetMissionStatus
    BY <1>7 DEF SetMissionStatus
  <1>8. CASE FailMission
    BY <1>8 DEF FailMission
  <1>9. CASE Crash \/ RestartAfterStop
    BY <1>9, RestartFrame
  <1> QED
    BY <1>1, <1>2, <1>3, <1>4, <1>5, <1>6, <1>7, <1>8, <1>9, QuietOrNot

(* VerdictsAreTrue in terms of what the row says *)
LEMMA VerdictsSaid ==
    VerdictsAreTrue <=>
        \A m \in Mission :
            /\ mstat[m] = "completed" => Says(m, "completed")
            /\ mstat[m] = "exhausted" => Says(m, "exhausted")
            /\ mstat[m] = "failed" /\ err[m] = "run" => Says(m, "run")
  BY DEF VerdictsAreTrue, Says, EndedBadly

LEMMA VerdictsNext ==
    ASSUME TypeOK, RowInv, HeldInv, DecisionInv, VerdictsAreTrue, Next
    PROVE  VerdictsAreTrue'
  <1> SUFFICES ASSUME NEW m \in Mission
               PROVE  /\ mstat'[m] = "completed" => Says(m, "completed")'
                      /\ mstat'[m] = "exhausted" => Says(m, "exhausted")'
                      /\ mstat'[m] = "failed" /\ err'[m] = "run" => Says(m, "run")'
    BY DEF VerdictsAreTrue, Says, EndedBadly
  <1>1. ASSUME mstat'[m] = mstat[m], err'[m] = err[m],
               mstat[m] \in {"completed", "exhausted", "failed"}
        PROVE  /\ mstat'[m] = "completed" => Says(m, "completed")'
               /\ mstat'[m] = "exhausted" => Says(m, "exhausted")'
               /\ mstat'[m] = "failed" /\ err'[m] = "run" => Says(m, "run")'
    <2>1. last'[m] = last[m] /\ used'[m] = used[m]
      <3>1. CASE NoteMissionRun
        BY <1>1, <3>1 DEF NoteMissionRun, HeldInv, Holding, TypeOK
      <3> QED
        BY <3>1, NotedByScheduler
    <2> QED
      BY <1>1, <2>1, SaysStays, VerdictsSaid
  <1>2. ASSUME SetMissionStatus, m = cur
        PROVE  /\ mstat'[m] = "completed" => Says(m, "completed")'
               /\ mstat'[m] = "exhausted" => Says(m, "exhausted")'
               /\ mstat'[m] = "failed" /\ err'[m] = "run" => Says(m, "run")'
    <2>1. /\ mstat'[m] = "completed" => verdict = "completed"
          /\ mstat'[m] = "exhausted" => verdict = "exhausted"
          /\ mstat'[m] = "failed" /\ err'[m] = "run" => verdict = "run"
          /\ pc = "settle" /\ mstat[m] # "gone"
          /\ last' = last /\ used' = used
      BY <1>2 DEF SetMissionStatus, Settled, TypeOK
    <2>2. Says(m, verdict)
      BY <1>2, <2>1 DEF DecisionInv, Holding, Says
    <2>3. \A v : Says(m, v) => Says(m, v)'
      BY <2>1, SaysStays
    <2> QED
      BY <2>1, <2>2, <2>3
  <1> QED
    BY <1>1, <1>2, EndedBy

-----------------------------------------------------------------------------
(* Runs nobody has told to stop *)

LEMMA LooseInit == Init => LooseInv
  BY DEF Init, LooseInv, Loose, Active, ActiveRunStatuses, RunStatus

(* Only the start of a run makes one active, and no one takes back a       *)
(* request to stop.                                                        *)
LEMMA ActiveStays ==
    ASSUME TypeOK, Next, NEW r \in Run, ~StartRun(r), Active(r)'
    PROVE  Active(r) /\ (rcancel[r] => rcancel'[r])
  <1> USE DEF TypeOK, Active
  <1>1. CASE Operator
    BY <1>1 DEF Operator, CreateMission, CancelMission, DeleteThread, runRows,
                ActiveRunStatuses, RunStatus
  <1>2. CASE LoopTop \/ SweepReturns \/ NothingPending \/ WaitEnds \/ AdvanceCancelled
             \/ CheckBudget \/ Rotated \/ AddMessage \/ StartRaises
    BY <1>2 DEF LoopTop, SweepReturns, NothingPending, WaitEnds, AdvanceCancelled,
                CheckBudget, Rotated, AddMessage, StartRaises, runRows
  <1>3. CASE \/ \E m \in Mission : ClaimNextMission(m)
             \/ NoteMissionRun \/ AwaitSeesEnd \/ Judge \/ SetMissionStatus
             \/ SettleRefused \/ FailMission \/ SchedulerCancelled
    BY <1>3 DEF ClaimNextMission, NoteMissionRun, AwaitSeesEnd, Judge,
                SetMissionStatus, SettleRefused, FailMission, SchedulerCancelled,
                runRows
  <1>4. CASE \E q \in Run : StartRun(q)
    BY <1>4 DEF StartRun
  <1>5. CASE CheckStarted \/ AwaitSeesCancel \/ AwaitTimesOut
    BY <1>5 DEF CheckStarted, AwaitSeesCancel, AwaitTimesOut, StopInflightRun,
                ActiveRunStatuses, TerminalRunStatuses
  <1>6. ASSUME NEW q \in Run, RunBegins(q) \/ RunCancelled(q) \/ RunDies(q)
        PROVE  Active(r) /\ (rcancel[r] => rcancel'[r])
    BY <1>6 DEF RunBegins, RunCancelled, RunDies, runRows, ActiveRunStatuses,
                TerminalRunStatuses
  <1>7. ASSUME NEW q \in Run, NEW o \in RunOutcome, RunEnds(q, o)
        PROVE  Active(r) /\ (rcancel[r] => rcancel'[r])
    BY <1>7, OutcomeOf DEF RunEnds, ActiveRunStatuses
  <1>8. CASE SchedulerFault \/ Shutdown \/ StopTimesOut
    BY <1>8 DEF SchedulerFault, Shutdown, StopTimesOut, runRows
  <1>9. CASE Crash \/ RestartAfterStop
    BY <1>9, RestartEnds
  <1> QED
    BY <1>1, <1>2, <1>3, <1>4, <1>5, <1>6, <1>7, <1>8, <1>9
       DEF Next, SchedulerStep, RunStep

LEMMA FaultsCount ==
    ASSUME TypeOK, Next
    PROVE  faults' = faults \/ (SchedulerFault /\ faults' = faults + 1)
  <1>1. CASE SchedulerStep
    BY <1>1 DEF SchedulerStep, LoopTop, SweepReturns, NothingPending, WaitEnds,
       ClaimNextMission, AdvanceCancelled, CheckBudget, Rotated, AddMessage,
       StartRun, StartRaises, NoteMissionRun, CheckStarted, AwaitSeesEnd,
       AwaitSeesCancel, AwaitTimesOut, Judge, SetMissionStatus, SettleRefused,
       FailMission, SchedulerCancelled, server
  <1>2. CASE Crash \/ RestartAfterStop
    BY <1>2, RestartFrame
  <1> QED
    BY <1>1, <1>2, OthersFrame DEF Next, SchedulerFault

(* Where the scheduler goes from the places a loose run allows, as long as *)
(* the run stays loose *)
LEMMA LooseNext ==
    ASSUME TypeOK, RowInv, HeldInv, LooseInv, Next
    PROVE  LooseInv'
  <1> USE DEF Tended, Leaving
  <1> SUFFICES ASSUME faults' = 0
               PROVE  \A r \in Run : Loose(r)' =>
                         \/ r = curRun' /\ pc' \in Tended
                         \/ /\ pc' \in Leaving /\ stop' # "no"
                            /\ \A q \in Run : Loose(q)' => q = r
    BY DEF LooseInv
  <1>1. faults = 0 /\ ~SchedulerFault
    BY FaultsCount DEF TypeOK, SchedulerFault
  <1>2. ASSUME NEW s \in Run, StartRun(s)
        PROVE  /\ curRun' = s /\ pc' \in Tended
               /\ \A r \in Run : Loose(r)' => r = s
    <2>1. curRun' = s /\ pc' = "note" /\ pc = "start"
      BY <1>2 DEF StartRun, GoTo
    <2>2. \A r \in Run : ~Loose(r)
      BY <1>1, <2>1 DEF LooseInv
    <2>3. \A r \in Run : r # s => rstat'[r] = rstat[r] /\ rcancel'[r] = rcancel[r]
      BY <1>2 DEF StartRun, TypeOK
    <2> QED
      BY <2>1, <2>2, <2>3 DEF Loose, Active
  <1>3. ASSUME NEW r \in Run, Loose(r)', \A s \in Run : ~StartRun(s)
        PROVE  \/ r = curRun' /\ pc' \in Tended
               \/ pc' \in Leaving /\ stop' # "no"
    <2>1. Loose(r)
      BY <1>3, ActiveStays DEF Loose
    <2>2. CASE r = curRun /\ pc \in Tended
      <3>1. CASE NoteMissionRun
        BY <2>2, <3>1 DEF NoteMissionRun, GoTo
      <3>2. CASE CheckStarted
        <4>1. CASE MissionCancelled
          <5>1. StopInflightRun(r)
            BY <2>2, <3>2, <4>1 DEF CheckStarted
          <5>2. rcancel'[r]
            BY <2>1, <5>1 DEF StopInflightRun, Loose, Active, TypeOK,
                              ActiveRunStatuses, RunStatus
          <5> QED
            BY <1>3, <5>2 DEF Loose
        <4> QED
          BY <2>2, <3>2, <4>1 DEF CheckStarted, GoTo
      <3>3. CASE AwaitSeesEnd
        BY <2>1, <2>2, <3>3 DEF AwaitSeesEnd, Loose
      <3>4. CASE AwaitSeesCancel
        BY <2>2, <3>4 DEF AwaitSeesCancel
      <3>5. CASE AwaitTimesOut
        BY <1>3, <2>2, <3>5 DEF AwaitTimesOut, Loose, Active, TypeOK,
                                ActiveRunStatuses, TerminalRunStatuses
      <3>6. CASE SchedulerCancelled
        BY <3>6 DEF SchedulerCancelled, Raise, GoTo, RowInv, server
      <3>7. CASE Crash \/ RestartAfterStop
        BY <1>3, <3>7, RestartEnds DEF Loose, Active
      <3>8. SchedulerStep => NoteMissionRun \/ CheckStarted \/ AwaitSeesEnd
                             \/ AwaitSeesCancel \/ AwaitTimesOut \/ SchedulerCancelled
        BY <1>3, <2>2 DEF SchedulerStep, LoopTop, SweepReturns, NothingPending,
           WaitEnds, ClaimNextMission, AdvanceCancelled, CheckBudget, Rotated,
           AddMessage, StartRaises, Judge, SetMissionStatus, SettleRefused,
           FailMission
      <3> QED
        BY <1>1, <2>2, <3>1, <3>2, <3>3, <3>4, <3>5, <3>6, <3>7, <3>8, OthersFrame
           DEF Next
    <2>3. CASE pc \in Leaving /\ stop # "no"
      <3>1. CASE LoopTop \/ WaitEnds
        BY <2>3, <3>1 DEF LoopTop, WaitEnds, GoTo, server
      <3>2. CASE FailMission
        BY <2>3, <3>2, LeaveTickType DEF FailMission, server
      <3>3. CASE Crash \/ RestartAfterStop
        BY <1>3, <3>3, RestartEnds DEF Loose, Active
      <3>4. SchedulerStep => LoopTop \/ WaitEnds \/ FailMission
        BY <1>3, <2>3 DEF SchedulerStep, SweepReturns, NothingPending,
           ClaimNextMission, AdvanceCancelled, CheckBudget, Rotated, AddMessage,
           StartRaises, NoteMissionRun, CheckStarted, AwaitSeesEnd,
           AwaitSeesCancel, AwaitTimesOut, Judge, SetMissionStatus,
           SettleRefused, SchedulerCancelled
      <3>5. CASE \/ Operator \/ Shutdown \/ StopTimesOut
                 \/ \E q \in Run : RunStep(q) \/ RunDies(q)
        <4>1. stop' # "no"
          BY <2>3, <3>5 DEF Operator, CreateMission, CancelMission, DeleteThread,
             Shutdown, StopTimesOut, RunStep, RunBegins, RunEnds, RunCancelled,
             RunDies, server
        <4> QED
          BY <2>3, <3>5, <4>1, OthersFrame
      <3> QED
        BY <1>1, <3>1, <3>2, <3>3, <3>4, <3>5 DEF Next
    <2> QED
      BY <1>1, <2>1, <2>2, <2>3 DEF LooseInv
  <1>4. ASSUME NEW r \in Run, NEW q \in Run, Loose(r)', Loose(q)',
               \A s \in Run : ~StartRun(s)
        PROVE  r = q
    <2>1. Loose(r) /\ Loose(q)
      BY <1>4, ActiveStays DEF Loose
    <2> QED
      BY <1>1, <2>1 DEF LooseInv
  <1> QED
    BY <1>2, <1>3, <1>4

(* SerialRuns: two loose runs would both be the one in hand. *)
LEMMA LooseIsSerial == LooseInv => SerialRuns
  BY DEF LooseInv, SerialRuns, Loose, Tended, Leaving

-----------------------------------------------------------------------------
(* Missions in service, and the reach of a cancel *)

LEMMA ServiceInit == Init => NoStrandedMission /\ CancelReachesRun
  BY DEF Init, NoStrandedMission, CancelReachesRun, Active, ActiveRunStatuses,
         RunStatus

(* How the status of a mission changes, while no store access fails *)
LEMMA StatusSteps ==
    ASSUME TypeOK, RowInv, HeldInv, NoStrandedMission, Next, faults = 0,
           ~SchedulerFault
    PROVE  \/ UNCHANGED mstat
           \/ \E m \in Mission, t \in Thread : CreateMission(m, t)
           \/ \E m \in Mission : CancelMission(m)
           \/ \E t \in Thread : DeleteThread(t)
           \/ \E m \in Mission : ClaimNextMission(m)
           \/ /\ cur \in Mission /\ mstat[cur] = "running" /\ pc \in Holding
              /\ \E s \in {"pending", "completed", "failed", "exhausted"} :
                    mstat' = [mstat EXCEPT ![cur] = s]
              /\ pc' \notin Holding
  <1> USE DEF TypeOK
  <1>1. CASE Quiet
    BY <1>1, QuietFrame
  <1>2. ASSUME NEW r \in Run, StartRun(r) \/ RunStep(r)
        PROVE  UNCHANGED mstat
    BY <1>2 DEF StartRun, RunStep, RunBegins, RunEnds, RunCancelled, missionRows
  <1>3. CASE AwaitTimesOut
    BY <1>3 DEF AwaitTimesOut, missionRows
  <1>4. CASE SetMissionStatus
    <2>1. cur \in Mission /\ mstat[cur] = "running" /\ pc \in Holding
      BY <1>4 DEF SetMissionStatus, Settled, HeldInv, Holding
    <2>2. pc' \notin Holding
      BY <1>4, LeaveTickType DEF SetMissionStatus
    <2>3. verdict \in {"completed", "exhausted", "pending", "isolation", "run"}
      BY <1>4 DEF SetMissionStatus
    <2> QED
      BY <1>4, <2>1, <2>2, <2>3 DEF SetMissionStatus
  <1>5. CASE FailMission
    <2>1. cur \in Mission /\ pc \in Holding /\ pc' \notin Holding
      BY <1>5, LeaveTickType DEF FailMission, Holding
    <2>2. CASE Settled
      <3>1. mstat[cur] = "running"
        BY <2>1, <2>2 DEF Settled, HeldInv
      <3> QED
        BY <1>5, <2>1, <2>2, <3>1 DEF FailMission
    <2>3. CASE ~Settled
      BY <1>5, <2>3 DEF FailMission
    <2> QED
      BY <2>2, <2>3
  <1>6. CASE Crash \/ RestartAfterStop
    <2>1. mstat' = [m \in Mission |-> IF mstat[m] = "running" THEN "pending" ELSE mstat[m]]
          /\ pc' = "loop"
      BY <1>6, Restarts DEF Recover, LeaveTick, GoTo
    <2>2. CASE \A m \in Mission : mstat[m] # "running"
      BY <2>1, <2>2
    <2>3. CASE \E m \in Mission : mstat[m] = "running"
      <3>1. /\ cur \in Mission /\ mstat[cur] = "running" /\ pc \in Holding
            /\ \A m \in Mission : mstat[m] = "running" => m = cur
        BY <2>3 DEF NoStrandedMission
      <3>2. mstat' = [mstat EXCEPT ![cur] = "pending"]
        BY <2>1, <3>1
      <3> QED
        BY <2>1, <3>1, <3>2 DEF Holding
    <2> QED
      BY <2>2, <2>3
  <1> QED
    BY <1>1, <1>2, <1>3, <1>4, <1>5, <1>6, QuietOrNot

(* What holds a mission lets go of it only when it is not running. *)
LEMMA HoldingEnds ==
    ASSUME TypeOK, HeldInv, Next, ~SchedulerFault, pc \in Holding,
           mstat'[cur] = "running"
    PROVE  pc' \in Holding /\ cur' = cur
  <1> USE DEF TypeOK, Holding
  <1>1. CASE AdvanceCancelled
    BY <1>1 DEF AdvanceCancelled, MissionCancelled, missionRows
  <1>2. CASE CheckStarted
    BY <1>2 DEF CheckStarted, MissionCancelled, missionRows, GoTo
  <1>3. CASE SetMissionStatus
    BY <1>3 DEF SetMissionStatus
  <1>4. CASE FailMission
    BY <1>4 DEF FailMission, Settled, HeldInv
  <1>5. CASE Crash \/ RestartAfterStop
    BY <1>5, RestartFrame
  <1>6. CASE SchedulerStep /\ ~AdvanceCancelled /\ ~CheckStarted
             /\ ~SetMissionStatus /\ ~FailMission
    BY <1>6 DEF SchedulerStep, LoopTop, SweepReturns, NothingPending, WaitEnds,
       ClaimNextMission, CheckBudget, Rotated, AddMessage, StartRun, StartRaises,
       NoteMissionRun, AwaitSeesEnd, AwaitSeesCancel, AwaitTimesOut, Judge,
       SettleRefused, SchedulerCancelled, GoTo, Raise, Settle
  <1> QED
    BY <1>1, <1>2, <1>3, <1>4, <1>5, <1>6, OthersFrame DEF Next

LEMMA StrandedNext ==
    ASSUME TypeOK, RowInv, HeldInv, NoStrandedMission, Next
    PROVE  NoStrandedMission'
  <1> SUFFICES ASSUME faults' = 0, NEW m \in Mission, mstat'[m] = "running"
               PROVE  cur' = m /\ pc' \in Holding
    BY FaultsCount DEF NoStrandedMission, TypeOK
  <1>1. faults = 0 /\ ~SchedulerFault
    BY FaultsCount DEF TypeOK, SchedulerFault
  <1>2. CASE mstat[m] = "running"
    BY <1>1, <1>2, HoldingEnds DEF NoStrandedMission
  <1>3. ASSUME mstat[m] # "running", NEW n \in Mission, ClaimNextMission(n)
        PROVE  cur' = m /\ pc' \in Holding
    BY <1>3 DEF ClaimNextMission, GoTo, Holding, TypeOK
  <1>4. CASE mstat[m] # "running" /\ \A n \in Mission : ~ClaimNextMission(n)
    BY <1>1, <1>4, StatusSteps DEF CreateMission, CancelMission, DeleteThread, TypeOK
  <1> QED
    BY <1>2, <1>3, <1>4

LEMMA OwnerStays ==
    ASSUME Next, \A s \in Run : ~StartRun(s)
    PROVE  UNCHANGED owner
  <1>1. CASE SchedulerStep
    BY <1>1 DEF SchedulerStep, LoopTop, SweepReturns, NothingPending, WaitEnds,
       ClaimNextMission, AdvanceCancelled, CheckBudget, Rotated, AddMessage,
       StartRaises, NoteMissionRun, CheckStarted, AwaitSeesEnd, AwaitSeesCancel,
       AwaitTimesOut, Judge, SetMissionStatus, SettleRefused, FailMission,
       SchedulerCancelled, history
  <1>2. CASE SchedulerFault \/ Crash \/ RestartAfterStop
    BY <1>2 DEF SchedulerFault, Crash, RestartAfterStop, Recover, history
  <1> QED
    BY <1>1, <1>2, OthersFrame DEF Next

LEMMA CancelNext ==
    ASSUME TypeOK, RowInv, HeldInv, NoStrandedMission, CancelReachesRun, Next
    PROVE  CancelReachesRun'
  <1> SUFFICES ASSUME faults' = 0, NEW r \in Run, Active(r)', owner'[r] # NoMission,
                      mstat'[owner'[r]] = "cancelled"
               PROVE  rcancel'[r] \/ (curRun' = r /\ pc' \in {"note", "check"})
    BY DEF CancelReachesRun
  <1>1. faults = 0 /\ ~SchedulerFault
    BY FaultsCount DEF TypeOK, SchedulerFault
  <1>2. CASE StartRun(r)
    BY <1>2 DEF StartRun, GoTo
  <1>3. ASSUME NEW q \in Run, q # r, StartRun(q)
        PROVE  rcancel'[r]
    <2>1. /\ Active(r) /\ owner'[r] = owner[r] /\ mstat' = mstat
          /\ rcancel' = rcancel /\ pc = "start"
      BY <1>3 DEF StartRun, missionRows, Active, TypeOK
    <2> QED
      BY <1>1, <2>1 DEF CancelReachesRun
  <1>4. CASE \A s \in Run : ~StartRun(s)
    <2>1. Active(r) /\ owner' = owner /\ (rcancel[r] => rcancel'[r])
      BY <1>4, ActiveStays, OwnerStays
    <2>2. owner[r] \in Mission /\ rthr[r] = thr[owner[r]] /\ mstat[owner[r]] # "absent"
      BY <2>1 DEF RowInv, TypeOK
    <2>3. CASE mstat[owner[r]] = "cancelled"
      <3> SUFFICES ASSUME ~rcancel[r]
                   PROVE  rcancel'[r] \/ (curRun' = r /\ pc' \in {"note", "check"})
        BY <2>1
      <3>1. curRun = r /\ pc \in {"note", "check"} /\ owner[r] = cur
        BY <1>1, <2>1, <2>2, <2>3 DEF CancelReachesRun, HeldInv, WithRun, NoMission, Mission
      <3>2. CASE NoteMissionRun
        BY <3>1, <3>2 DEF NoteMissionRun, GoTo
      <3>3. CASE CheckStarted
        <4>1. StopInflightRun(r)
          BY <2>3, <3>1, <3>3 DEF CheckStarted, MissionCancelled
        <4> QED
          BY <2>1, <4>1 DEF StopInflightRun, Active, TypeOK, ActiveRunStatuses, RunStatus
      <3>4. CASE Crash \/ RestartAfterStop
        BY <3>4, RestartEnds DEF Active
      <3>5. SchedulerStep => NoteMissionRun \/ CheckStarted
        BY <1>4, <3>1 DEF SchedulerStep, LoopTop, SweepReturns, NothingPending,
           WaitEnds, ClaimNextMission, AdvanceCancelled, CheckBudget, Rotated,
           AddMessage, StartRaises, AwaitSeesEnd, AwaitSeesCancel, AwaitTimesOut,
           Judge, SetMissionStatus, SettleRefused, FailMission, SchedulerCancelled
      <3> QED
        BY <1>1, <3>1, <3>2, <3>3, <3>4, <3>5, OthersFrame DEF Next
    <2>4. CASE mstat[owner[r]] # "cancelled"
      <3>1. CancelMission(owner[r])
        BY <1>1, <2>1, <2>2, <2>4, StatusSteps
           DEF CreateMission, CancelMission, DeleteThread, ClaimNextMission, TypeOK
      <3> QED
        BY <2>1, <2>2, <3>1 DEF CancelMission
    <2> QED
      BY <2>3, <2>4
  <1> QED
    BY <1>2, <1>3, <1>4

-----------------------------------------------------------------------------
(* The invariant, and what follows from it *)

LEMMA InvariantInit == Init => IInv
  BY TypeInit, RowInit, HeldInit, BudgetInit, DecisionInit, LooseInit, ServiceInit
     DEF IInv

LEMMA InvariantNext == IInv /\ [Next]_vars => IInv'
  <1>1. CASE UNCHANGED vars
    BY <1>1 DEF vars, IInv, TypeOK, RowInv, HeldInv, BudgetInv, BudgetBound,
       DecisionInv, LooseInv, Loose, EndedBadly, Active, NoStrandedMission,
       CancelReachesRun, VerdictsAreTrue
  <1>2. ASSUME IInv, Next
        PROVE  IInv'
    <2>1. TypeOK'
      BY <1>2, TypeNext DEF IInv
    <2> QED
      BY <1>2, <2>1, RowNext, HeldNext, BudgetNext, DecisionNext, LooseNext,
         StrandedNext, CancelNext, VerdictsNext
         DEF IInv
  <1> QED
    BY <1>1, <1>2

(* IInv is an invariant of the scheduler.                                  *)
THEOREM InvariantHolds == Spec => []IInv
  BY InvariantInit, InvariantNext, PTL DEF Spec

(* No mission is given more runs than its budget, save for one per restart *)
(* or failed write that came before a run was counted (note_mission_run).  *)
THEOREM BudgetHolds == Spec => []BudgetBound
  <1>1. IInv => BudgetBound
    BY DEF IInv, BudgetInv
  <1> QED
    BY <1>1, InvariantHolds, PTL

(* While the store answers, of two active runs of missions one has been    *)
(* told to stop: missions are served one run at a time.                    *)
THEOREM ServiceIsSerial == Spec => []SerialRuns
  <1>1. IInv => SerialRuns
    BY LooseIsSerial DEF IInv
  <1> QED
    BY <1>1, InvariantHolds, PTL

(* While the store answers, a cancelled mission has no run that was not    *)
(* told to stop, save one that the scheduler is about to look at.          *)
THEOREM CancelArrives == Spec => []CancelReachesRun
  <1>1. IInv => CancelReachesRun
    BY DEF IInv
  <1> QED
    BY <1>1, InvariantHolds, PTL

(* While the store answers, a mission is running only in the hands of the  *)
(* scheduler.                                                              *)
THEOREM NoneStranded == Spec => []NoStrandedMission
  <1>1. IInv => NoStrandedMission
    BY DEF IInv
  <1> QED
    BY <1>1, InvariantHolds, PTL

(* A mission that ended says truly why, for ever after.                    *)
THEOREM VerdictsHold == Spec => []VerdictsAreTrue
  <1>1. IInv => VerdictsAreTrue
    BY DEF IInv
  <1> QED
    BY <1>1, InvariantHolds, PTL

-----------------------------------------------------------------------------
(* Missions implements MissionQueue *)

LEMMA QueueInit == Init => Queue!Init
  BY DEF Init, Queue!Init, Mission, Queue!Mission

(* Every step is a step of the queue or leaves it alone, as long as no     *)
(* store access fails.                                                     *)
LEMMA QueueNext ==
    ASSUME IInv, Next, faults = 0, faults' = 0
    PROVE  Queue!Next \/ UNCHANGED mstat
  <1> USE DEF IInv, TypeOK, Mission, Queue!Mission, Queue!Becomes
  <1>1. ~SchedulerFault
    BY DEF SchedulerFault
  <1>2. ASSUME NEW m \in Mission, NEW t \in Thread, CreateMission(m, t)
        PROVE  Queue!Submit(m)
    BY <1>2 DEF CreateMission, Queue!Submit
  <1>3. ASSUME NEW m \in Mission, CancelMission(m)
        PROVE  Queue!Cancel(m)
    BY <1>3 DEF CancelMission, Queue!Cancel
  <1>4. ASSUME NEW t \in Thread, DeleteThread(t)
        PROVE  Queue!Delete
    <2> DEFINE S == {m \in Mission : thr[m] = t}
    <2>1. t # NoThread
      BY ConstantsAssumption
    <2>2. S \in SUBSET {m \in Mission : mstat[m] # "absent"}
      BY <2>1 DEF RowInv
    <2>3. mstat' = [m \in Mission |-> IF m \in S THEN "gone" ELSE mstat[m]]
      BY <1>4 DEF DeleteThread
    <2> HIDE DEF S
    <2> QED
      BY <2>2, <2>3 DEF Queue!Delete
  <1>5. ASSUME NEW m \in Mission, ClaimNextMission(m)
        PROVE  Queue!Serve(m)
    <2>1. \A n \in Mission : mstat[n] # "running"
      BY <1>5 DEF ClaimNextMission, NoStrandedMission, Holding
    <2> QED
      BY <1>5, <2>1 DEF ClaimNextMission, Oldest, Queue!Serve
  <1>6. ASSUME cur \in Mission, mstat[cur] = "running",
               NEW s \in {"pending", "completed", "failed", "exhausted"},
               mstat' = [mstat EXCEPT ![cur] = s]
        PROVE  Queue!Requeue(cur) \/ Queue!End(cur)
    BY <1>6 DEF Queue!Requeue, Queue!End
  <1> QED
    BY <1>1, <1>2, <1>3, <1>4, <1>5, <1>6, StatusSteps DEF Queue!Next

(* Through crashes, shutdowns, cancels and deletes the scheduler serves a  *)
(* queue, in every behaviour in which no store access of its fails.        *)
THEOREM QueueServed == Spec /\ [](faults = 0) => ServesQueue
  <1>1. IInv /\ [Next]_vars /\ faults = 0 /\ (faults = 0)' => [Queue!Next]_mstat
    BY QueueNext DEF vars
  <1> QED
    BY <1>1, QueueInit, InvariantHolds, PTL DEF Spec, ServesQueue, Queue!Spec

(* So with a store that never fails the implementation is unconditional.   *)
COROLLARY FaultlessQueue ==
    ASSUME MaxFaults = 0
    PROVE  Spec => ServesQueue
  <1>1. Init => faults = 0
    BY DEF Init
  <1>2. faults = 0 /\ TypeOK /\ [Next]_vars => (faults = 0)'
    <2>1. ASSUME TypeOK, faults = 0, Next
          PROVE  faults' = 0
      BY <2>1, FaultsCount DEF SchedulerFault
    <2> QED
      BY <2>1 DEF vars
  <1>3. Spec => [](faults = 0)
    BY <1>1, <1>2, TypeCorrect, PTL DEF Spec
  <1> QED
    BY <1>3, QueueServed, PTL
=============================================================================
