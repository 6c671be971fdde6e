------------------------------ MODULE Missions ------------------------------
(***************************************************************************)
(* MissionScheduler (agent/scheduler.py) over the mission table of         *)
(* AgentStore (agent/store.py): claiming, the runs a mission is given,     *)
(* budget, cancellation by operators, isolation between samples, shutdown, *)
(* crash and restart.                                                      *)
(*                                                                         *)
(* The scheduler is one coroutine.  Every store transaction is a step of   *)
(* its own, because HTTP handlers that create, cancel and delete missions  *)
(* run in a thread pool; the tasks of the runs share its event loop and    *)
(* step only while it is suspended.  A run is reduced to what the          *)
(* scheduler can see of it: AgentRun has the rest.                         *)
(*                                                                         *)
(* A definition under "What if" is not part of the specification: it is    *)
(* the definition after it with a mistake the properties must catch.       *)
(***************************************************************************)
EXTENDS AgentModels, Integers

CONSTANTS NMissions,    \* how many missions are ever queued
          Thread,       \* agent threads
          Run,          \* ids of runs
          MaxRuns,      \* max_runs of every mission
          Isolated,     \* an isolation step is configured
          MaxBoots,     \* bound: crashes and shutdowns
          MaxFaults,    \* bound: store accesses of the scheduler that fail
          MaxDeaths,    \* bound: runs that die without recording a status
          NoRun, NoThread

ASSUME ConstantsAssumption ==
    /\ NMissions \in Nat /\ MaxRuns \in Nat \ {0} /\ Isolated \in BOOLEAN
    /\ MaxBoots \in Nat /\ MaxFaults \in Nat /\ MaxDeaths \in Nat
    /\ NoRun \notin Run /\ NoThread \notin Thread

(* Ids in the order of created_at, which is the order they are claimed in. *)
Mission == 1..NMissions

VARIABLES
    mstat, thr, used, last, err,    \* the missions rows
    threads,                        \* the threads that exist
    rstat, rthr, rcancel,           \* the runs rows
    spent,      \* runs.error names one of RUN_BUDGET_ENDINGS
    marker,     \* the final reply opens with MISSION_COMPLETE_MARKER
    rtask,      \* the asyncio task of each run
    pc, cur, seen, curRun, stopped, verdict, exc,   \* the scheduler coroutine
    stop,       \* stop(): not called, waiting, or given up waiting
    dying,      \* the scheduler task was cancelled and has not seen it yet
    boots, faults, deaths,          \* restarts and failures so far
    started,    \* history: runs ever started for a mission
    owner       \* history: the mission a run was started for

missionRows == <<mstat, thr, used, last, err, threads>>
runRows     == <<rstat, rthr, rcancel, spent, marker>>
scheduler   == <<pc, cur, seen, curRun, stopped, verdict, exc>>
server      == <<stop, dying, boots, faults, deaths>>
history     == <<started, owner>>
vars == <<mstat, thr, used, last, err, threads, rstat, rthr, rcancel, spent,
          marker, rtask, pc, cur, seen, curRun, stopped, verdict, exc,
          stop, dying, boots, faults, deaths, started, owner>>

-----------------------------------------------------------------------------
NoMission == 0

(* Where the scheduler is suspended, so that the loop runs other tasks *)
Suspended == {"sweep", "rotate", "await", "wait", "ended"}
SchedPC   == Suspended \cup {"loop", "claim", "claimed", "message", "start",
                             "note", "check", "verdict", "settle", "fail"}

(* Where a claimed mission is in the scheduler's hands *)
Holding == {"claimed", "rotate", "message", "start", "note", "check",
            "await", "verdict", "settle", "fail"}

MissionError == {"none", "cancelled", "exhausted", "isolation", "run",
                 "exception", "CancelledError"}

Active(r) == rstat[r] \in ActiveRunStatuses

(* _mission_cancelled: cancelled, or deleted with its thread *)
MissionCancelled == mstat[cur] \in {"cancelled", "gone"}

Terminal(m) == mstat[m] \in TerminalMissionStatuses

GoTo(there) == pc' = there

(* The tick is over and its local variables with it. *)
LeaveTick(there) ==
    /\ GoTo(there)
    /\ cur' = NoMission /\ seen' = 0 /\ curRun' = NoRun
    /\ stopped' = FALSE /\ verdict' = "none" /\ exc' = "none"

-----------------------------------------------------------------------------
Init ==
    /\ mstat = [m \in Mission |-> "absent"]
    /\ thr = [m \in Mission |-> NoThread]
    /\ used = [m \in Mission |-> 0]
    /\ last = [m \in Mission |-> NoRun]
    /\ err = [m \in Mission |-> "none"]
    /\ threads = Thread
    /\ rstat = [r \in Run |-> "absent"]
    /\ rthr = [r \in Run |-> NoThread]
    /\ rcancel = [r \in Run |-> FALSE]
    /\ spent = [r \in Run |-> FALSE]
    /\ marker = [r \in Run |-> FALSE]
    /\ rtask = [r \in Run |-> "none"]
    /\ pc = "loop" /\ cur = NoMission /\ seen = 0 /\ curRun = NoRun
    /\ stopped = FALSE /\ verdict = "none" /\ exc = "none"
    /\ stop = "no" /\ dying = FALSE /\ boots = 0 /\ faults = 0 /\ deaths = 0
    /\ started = [m \in Mission |-> 0]
    /\ owner = [r \in Run |-> NoMission]

-----------------------------------------------------------------------------
(* Operators, from the thread pool *)

CreateMission(m, t) ==
    /\ mstat[m] = "absent" /\ \A n \in 1..(m - 1) : mstat[n] # "absent"
    /\ t \in threads
    /\ mstat' = [mstat EXCEPT ![m] = "pending"]
    /\ thr' = [thr EXCEPT ![m] = t]
    /\ UNCHANGED <<used, last, err, threads, runRows, rtask, scheduler, server, history>>

(* The mission is terminal at once, and every run of its thread as well as *)
(* the last one it noted is asked to stop.                                 *)
CancelMission(m) ==
    /\ mstat[m] \in {"pending", "running"}
    /\ mstat' = [mstat EXCEPT ![m] = "cancelled"]
    /\ err' = [err EXCEPT ![m] = "cancelled"]
    /\ rcancel' = [r \in Run |->
                     rcancel[r] \/ (Active(r) /\ (rthr[r] = thr[m] \/ r = last[m]))]
    /\ UNCHANGED <<thr, used, last, threads, rstat, rthr, spent, marker, rtask,
                   scheduler, server, history>>

(* delete_thread cascades to its missions and runs. *)
DeleteThread(t) ==
    /\ t \in threads
    /\ threads' = threads \ {t}
    /\ mstat' = [m \in Mission |-> IF thr[m] = t THEN "gone" ELSE mstat[m]]
    /\ rstat' = [r \in Run |-> IF rthr[r] = t THEN "gone" ELSE rstat[r]]
    /\ UNCHANGED <<thr, used, last, err, rthr, rcancel, spent, marker, rtask,
                   scheduler, server, history>>

-----------------------------------------------------------------------------
(* The scheduler loop and the claim *)

(* _loop tests the stop event only here. *)
LoopTop ==
    /\ pc = "loop"
    /\ GoTo(IF stop # "no" THEN "ended" ELSE "sweep")
    /\ UNCHANGED <<missionRows, runRows, rtask, cur, seen, curRun, stopped,
                   verdict, exc, server, history>>

(* The watchdog sweep, in a thread.  A CancelledError that reaches it is   *)
(* recorded and swallowed.                                                 *)
SweepReturns ==
    /\ pc = "sweep"
    /\ GoTo("claim") /\ dying' = FALSE
    /\ UNCHANGED <<missionRows, runRows, rtask, cur, seen, curRun, stopped,
                   verdict, exc, stop, boots, faults, deaths, history>>

Oldest(m) == mstat[m] = "pending" /\ \A n \in Mission : mstat[n] = "pending" => m <= n

ClaimNextMission(m) ==
    /\ pc = "claim" /\ Oldest(m)
    /\ mstat' = [mstat EXCEPT ![m] = "running"]
    /\ cur' = m /\ seen' = used[m]
    /\ GoTo("claimed")
    /\ UNCHANGED <<thr, used, last, err, threads, runRows, rtask, curRun, stopped,
                   verdict, exc, server, history>>

NothingPending ==
    /\ pc = "claim" /\ \A m \in Mission : mstat[m] # "pending"
    /\ GoTo("wait")
    /\ UNCHANGED <<missionRows, runRows, rtask, cur, seen, curRun, stopped,
                   verdict, exc, server, history>>

(* The interval passes, or stop is set. *)
WaitEnds ==
    /\ pc = "wait"
    /\ GoTo(IF dying THEN "ended" ELSE "loop")
    /\ UNCHANGED <<missionRows, runRows, rtask, cur, seen, curRun, stopped,
                   verdict, exc, server, history>>

-----------------------------------------------------------------------------
(* _advance *)

(* It reads the mission again wherever it may have been cancelled. *)
AdvanceCancelled ==
    /\ pc \in {"claimed", "rotate", "message", "verdict"} /\ MissionCancelled
    /\ pc = "rotate" => ~dying
    /\ LeaveTick("loop")
    /\ UNCHANGED <<missionRows, runRows, rtask, server, history>>

Settle(v) == verdict' = v /\ GoTo("settle")

CheckBudget ==
    /\ pc = "claimed" /\ ~MissionCancelled
    /\ IF seen >= MaxRuns THEN Settle("exhausted")
       ELSE /\ GoTo(IF seen = 0 /\ Isolated THEN "rotate" ELSE "message")
            /\ UNCHANGED verdict
    /\ UNCHANGED <<missionRows, runRows, rtask, cur, seen, curRun, stopped, exc,
                   server, history>>

Rotated ==
    /\ pc = "rotate" /\ ~dying /\ ~MissionCancelled
    /\ Settle("isolation") \/ (GoTo("message") /\ UNCHANGED verdict)
    /\ UNCHANGED <<missionRows, runRows, rtask, cur, seen, curRun, stopped, exc,
                   server, history>>

AddMessage ==
    /\ pc = "message" /\ ~MissionCancelled
    /\ GoTo("start")
    /\ UNCHANGED <<missionRows, runRows, rtask, cur, seen, curRun, stopped,
                   verdict, exc, server, history>>

(* orchestrator.start_run: a queued row and a task that has not run yet.   *)
(* Nothing between here and the end of the check below yields to the loop. *)
StartRun(r) ==
    /\ pc = "start" /\ rstat[r] = "absent" /\ thr[cur] \in threads
    /\ rstat' = [rstat EXCEPT ![r] = "queued"]
    /\ rthr' = [rthr EXCEPT ![r] = thr[cur]]
    /\ rtask' = [rtask EXCEPT ![r] = "new"]
    /\ curRun' = r
    /\ GoTo("note")
    /\ started' = [started EXCEPT ![cur] = @ + 1]
    /\ owner' = [owner EXCEPT ![r] = cur]
    /\ UNCHANGED <<missionRows, rcancel, spent, marker, cur, seen, stopped,
                   verdict, exc, server>>

Raise(e) == exc' = e /\ GoTo("fail")

(* No such provider profile, or the thread was deleted just now *)
StartRaises ==
    /\ pc = "start"
    /\ Raise("exception")
    /\ UNCHANGED <<missionRows, runRows, rtask, cur, seen, curRun, stopped,
                   verdict, server, history>>

(* What if: the run were noted and not counted. *)
NoteUncounted ==
    /\ pc = "note"
    /\ last' = IF mstat[cur] = "gone" THEN last ELSE [last EXCEPT ![cur] = curRun]
    /\ GoTo("check")
    /\ UNCHANGED <<mstat, thr, used, err, threads, runRows, rtask, cur, seen, curRun,
                   stopped, verdict, exc, server, history>>

NoteMissionRun ==
    /\ pc = "note"
    /\ IF mstat[cur] = "gone" THEN UNCHANGED <<used, last>>
       ELSE /\ used' = [used EXCEPT ![cur] = @ + 1]
            /\ last' = [last EXCEPT ![cur] = curRun]
    /\ GoTo("check")
    /\ UNCHANGED <<mstat, thr, err, threads, runRows, rtask, cur, seen, curRun,
                   stopped, verdict, exc, server, history>>

(* AgentOrchestrator.cancel: a task the loop has not run yet just ends.    *)
StopInflightRun(r) ==
    IF rstat[r] = "gone" THEN UNCHANGED <<rcancel, rtask>>
    ELSE /\ rcancel' = IF Active(r) THEN [rcancel EXCEPT ![r] = TRUE] ELSE rcancel
         /\ rtask' = [rtask EXCEPT ![r] = CASE @ = "new"  -> "done"
                                            [] @ = "live" -> "dying"
                                            [] OTHER      -> @]

(* What if: a cancel between two checks left the run to itself. *)
CheckAndLeave ==
    /\ pc = "check"
    /\ IF MissionCancelled THEN LeaveTick("loop")
       ELSE GoTo("await") /\ UNCHANGED <<cur, seen, curRun, stopped, verdict, exc>>
    /\ UNCHANGED <<missionRows, runRows, rtask, server, history>>

CheckStarted ==
    /\ pc = "check"
    /\ IF MissionCancelled THEN StopInflightRun(curRun) /\ LeaveTick("loop")
       ELSE /\ GoTo("await")
            /\ UNCHANGED <<rcancel, rtask, cur, seen, curRun, stopped, verdict, exc>>
    /\ UNCHANGED <<missionRows, rstat, rthr, spent, marker, server, history>>

(* _await_run polls the row of the run. *)
AwaitSeesEnd ==
    /\ pc = "await" /\ ~dying /\ ~Active(curRun)
    /\ GoTo("verdict")
    /\ UNCHANGED <<missionRows, runRows, rtask, cur, seen, curRun, stopped,
                   verdict, exc, server, history>>

AwaitSeesCancel ==
    /\ pc = "await" /\ ~dying /\ Active(curRun) /\ ~stopped
    /\ rcancel[curRun] \/ MissionCancelled
    /\ StopInflightRun(curRun) /\ stopped' = TRUE
    /\ UNCHANGED <<missionRows, rstat, rthr, spent, marker, pc, cur, seen,
                   curRun, verdict, exc, server, history>>

(* What if: the wait had no bound. *)
AwaitForever == pc = "await" /\ FALSE /\ UNCHANGED vars

(* The bound ends the run, not merely the wait. *)
AwaitTimesOut ==
    /\ pc = "await" /\ ~dying /\ Active(curRun)
    /\ stopped \/ ~(rcancel[curRun] \/ MissionCancelled)
    /\ IF stopped THEN UNCHANGED <<rcancel, rtask>> ELSE StopInflightRun(curRun)
    /\ rstat' = [rstat EXCEPT ![curRun] = "interrupted"]
    /\ GoTo("verdict")
    /\ UNCHANGED <<missionRows, rthr, spent, marker, cur, seen, curRun,
                   stopped, verdict, exc, server, history>>

(* What if: a run that spent its bound counted as a failure. *)
BoundIsFailure ==
    IF rstat[curRun] = "completed"
    THEN IF marker[curRun] THEN "completed"
         ELSE IF seen + 1 >= MaxRuns THEN "exhausted" ELSE "pending"
    ELSE "run"

(* COMPLETED or a spent bound: met, out of budget, or back to the queue.   *)
(* Anything else stops the mission.                                        *)
Outcome ==
    IF rstat[curRun] = "completed" \/ (rstat[curRun] = "failed" /\ spent[curRun])
    THEN IF marker[curRun] THEN "completed"
         ELSE IF seen + 1 >= MaxRuns THEN "exhausted" ELSE "pending"
    ELSE "run"

Judge ==
    /\ pc = "verdict" /\ ~MissionCancelled
    /\ Settle(Outcome)
    /\ UNCHANGED <<missionRows, runRows, rtask, cur, seen, curRun, stopped, exc,
                   server, history>>

(* What if: a verdict replaced whatever the row said. *)
AnyRow == mstat[cur] # "gone"

(* set_mission_status refuses to leave a terminal status, or a row that is *)
(* gone: an operator may have got there since the last check.              *)
Settled == mstat[cur] \in {"pending", "running"}

(* A failed mission makes tick answer False, so the loop waits. *)
SetMissionStatus ==
    /\ pc = "settle" /\ Settled
    /\ mstat' = [mstat EXCEPT ![cur] =
                   IF verdict \in {"isolation", "run"} THEN "failed" ELSE verdict]
    /\ err' = [err EXCEPT ![cur] =
                   IF verdict \in {"isolation", "run", "exhausted"}
                   THEN verdict ELSE "none"]
    /\ LeaveTick(IF verdict \in {"isolation", "run"} THEN "wait" ELSE "loop")
    /\ UNCHANGED <<thr, used, last, threads, runRows, rtask, server, history>>

SettleRefused ==
    /\ pc = "settle" /\ ~Settled
    /\ Raise("exception")
    /\ UNCHANGED <<missionRows, runRows, rtask, cur, seen, curRun, stopped,
                   verdict, server, history>>

(* What if: the handler only logged the exception. *)
LogFailure ==
    /\ pc = "fail"
    /\ LeaveTick("wait")
    /\ UNCHANGED <<missionRows, runRows, rtask, server, history>>

(* tick's handler files the mission as failed; if that is refused as well  *)
(* the exception ends in _loop.                                            *)
FailMission ==
    /\ pc = "fail"
    /\ IF Settled THEN /\ mstat' = [mstat EXCEPT ![cur] = "failed"]
                       /\ err' = [err EXCEPT ![cur] = exc]
       ELSE UNCHANGED <<mstat, err>>
    /\ LeaveTick("wait")
    /\ UNCHANGED <<thr, used, last, threads, runRows, rtask, server, history>>

-----------------------------------------------------------------------------
(* The tasks of the runs, as far as the scheduler can tell *)

LoopFree == pc \in Suspended

RunBegins(r) ==
    /\ LoopFree /\ rtask[r] = "new"
    /\ IF Active(r) THEN /\ rtask' = [rtask EXCEPT ![r] = "live"]
                         /\ rstat' = [rstat EXCEPT ![r] = "streaming"]
       ELSE /\ rtask' = [rtask EXCEPT ![r] = "done"]
            /\ UNCHANGED rstat
    /\ UNCHANGED <<missionRows, rthr, rcancel, spent, marker, scheduler, server, history>>

(* How a task can end by itself: the status it records, whether the error  *)
(* names a spent bound, and whether the final reply - read only of a run   *)
(* that completed or spent its bound - opens with the completion marker.   *)
RunOutcome ==
    {<<"completed", FALSE, k>> : k \in BOOLEAN} \cup
    {<<"failed", TRUE, k>> : k \in BOOLEAN} \cup
    {<<s, FALSE, FALSE>> : s \in {"failed", "rejected", "cancelled"}}

RunEnds(r, o) ==
    /\ LoopFree /\ rtask[r] = "live"
    /\ o[1] = "cancelled" => rcancel[r]
    /\ rtask' = [rtask EXCEPT ![r] = "done"]
    /\ IF Active(r)
       THEN /\ rstat' = [rstat EXCEPT ![r] = o[1]]
            /\ spent' = [spent EXCEPT ![r] = o[2]]
            /\ marker' = [marker EXCEPT ![r] = o[3]]
       ELSE UNCHANGED <<rstat, spent, marker>>
    /\ UNCHANGED <<missionRows, rthr, rcancel, scheduler, server, history>>

(* CancelledError reaches _execute. *)
RunCancelled(r) ==
    /\ LoopFree /\ rtask[r] = "dying"
    /\ rtask' = [rtask EXCEPT ![r] = "done"]
    /\ rstat' = IF Active(r) THEN [rstat EXCEPT ![r] = "cancelled"] ELSE rstat
    /\ UNCHANGED <<missionRows, rthr, rcancel, spent, marker, scheduler, server, history>>

-----------------------------------------------------------------------------
(* Failures *)

(* The task dies without recording a status: its last store write failed. *)
RunDies(r) ==
    /\ deaths < MaxDeaths /\ deaths' = deaths + 1
    /\ LoopFree /\ rtask[r] = "live"
    /\ rtask' = [rtask EXCEPT ![r] = "done"]
    /\ UNCHANGED <<missionRows, runRows, scheduler, stop, dying, boots, faults, history>>

(* A store access of the scheduler raises (disk full, database locked). *)
SchedulerFault ==
    /\ faults < MaxFaults /\ faults' = faults + 1
    /\ \/ pc \in (Holding \ {"fail", "rotate"}) /\ Raise("exception")
          /\ UNCHANGED <<cur, seen, curRun, stopped, verdict>>
       \/ pc \in {"claim", "fail"} /\ LeaveTick("wait")
    /\ UNCHANGED <<missionRows, runRows, rtask, stop, dying, boots, deaths, history>>

(* What if: recovery took care of the missions alone. *)
RecoverMissions(rows) ==
    /\ rstat' = rows
    /\ mstat' = [m \in Mission |->
                   IF mstat[m] = "running" THEN "pending" ELSE mstat[m]]
    /\ rtask' = [r \in Run |-> IF rtask[r] = "none" THEN "none" ELSE "done"]
    /\ LeaveTick("loop")
    /\ stop' = "no" /\ dying' = FALSE /\ boots' = boots + 1
    /\ UNCHANGED <<thr, used, last, err, threads, rthr, rcancel, spent, marker,
                   faults, deaths, history>>

(* recover_after_restart, and a scheduler that starts afresh *)
Recover(rows) ==
    /\ rstat' = [r \in Run |->
                   IF rows[r] \in ActiveRunStatuses THEN "interrupted" ELSE rows[r]]
    /\ mstat' = [m \in Mission |->
                   IF mstat[m] = "running" THEN "pending" ELSE mstat[m]]
    /\ rtask' = [r \in Run |-> IF rtask[r] = "none" THEN "none" ELSE "done"]
    /\ LeaveTick("loop")
    /\ stop' = "no" /\ dying' = FALSE /\ boots' = boots + 1
    /\ UNCHANGED <<thr, used, last, err, threads, rthr, rcancel, spent, marker,
                   faults, deaths, history>>

Crash == boots < MaxBoots /\ Recover(rstat)

(* Shutdown of the server: stop() sets the event, ... *)
Shutdown ==
    /\ boots < MaxBoots /\ stop = "no" /\ LoopFree
    /\ stop' = "waiting"
    /\ UNCHANGED <<missionRows, runRows, rtask, scheduler, dying, boots, faults, deaths, history>>

(* ... waits for the scheduler, and after its timeout cancels it, once. *)
StopTimesOut ==
    /\ stop = "waiting" /\ pc \in {"sweep", "rotate", "await", "wait"}
    /\ stop' = "given_up" /\ dying' = TRUE
    /\ UNCHANGED <<missionRows, runRows, rtask, scheduler, boots, faults, deaths, history>>

(* The CancelledError is an exception of _advance like any other: tick     *)
(* catches BaseException.                                                  *)
SchedulerCancelled ==
    /\ dying /\ pc \in {"rotate", "await"}
    /\ Raise("CancelledError") /\ dying' = FALSE
    /\ UNCHANGED <<missionRows, runRows, rtask, cur, seen, curRun, stopped,
                   verdict, stop, boots, faults, deaths, history>>

(* The loop closes, cancelling the runs that have begun; the next process  *)
(* adopts the database.                                                    *)
RestartAfterStop ==
    /\ stop # "no" /\ pc = "ended"
    /\ Recover([r \in Run |-> IF rtask[r] \in {"live", "dying"} /\ Active(r)
                              THEN "cancelled" ELSE rstat[r]])

-----------------------------------------------------------------------------
Operator ==
    \/ \E m \in Mission : CancelMission(m) \/ \E t \in Thread : CreateMission(m, t)
    \/ \E t \in Thread : DeleteThread(t)

SchedulerStep ==
    \/ LoopTop \/ SweepReturns \/ NothingPending \/ WaitEnds
    \/ \E m \in Mission : ClaimNextMission(m)
    \/ AdvanceCancelled \/ CheckBudget \/ Rotated \/ AddMessage
    \/ \E r \in Run : StartRun(r)
    \/ StartRaises \/ NoteMissionRun \/ CheckStarted
    \/ AwaitSeesEnd \/ AwaitSeesCancel \/ AwaitTimesOut
    \/ Judge \/ SetMissionStatus \/ SettleRefused \/ FailMission
    \/ SchedulerCancelled

RunStep(r) ==
    \/ RunBegins(r) \/ RunCancelled(r)
    \/ \E o \in RunOutcome : RunEnds(r, o)

Next ==
    \/ Operator \/ SchedulerStep
    \/ \E r \in Run : RunStep(r) \/ RunDies(r)
    \/ SchedulerFault \/ Crash
    \/ Shutdown \/ StopTimesOut \/ RestartAfterStop

Spec == Init /\ [][Next]_vars

(* The event loop serves its ready tasks in turn, so a run gets its step   *)
(* although the scheduler keeps busy (SF); timers and the sweep come back; *)
(* a service told to stop is started again.                                *)
Fairness ==
    /\ WF_vars(SchedulerStep)
    /\ \A r \in Run : SF_vars(RunStep(r))
    /\ WF_vars(StopTimesOut) /\ WF_vars(RestartAfterStop)

FairSpec == Spec /\ Fairness

-----------------------------------------------------------------------------
(* Properties *)

TypeOK ==
    /\ mstat \in [Mission -> MissionStatus \cup {"absent", "gone"}]
    /\ thr \in [Mission -> Thread \cup {NoThread}]
    /\ used \in [Mission -> Nat]
    /\ last \in [Mission -> Run \cup {NoRun}]
    /\ err \in [Mission -> MissionError]
    /\ threads \in SUBSET Thread
    /\ rstat \in [Run -> RunStatus \cup {"absent", "gone"}]
    /\ rthr \in [Run -> Thread \cup {NoThread}]
    /\ rcancel \in [Run -> BOOLEAN]
    /\ spent \in [Run -> BOOLEAN]
    /\ marker \in [Run -> BOOLEAN]
    /\ rtask \in [Run -> {"none", "new", "live", "dying", "done"}]
    /\ pc \in SchedPC
    /\ cur \in Mission \cup {NoMission} /\ (pc \in Holding => cur \in Mission)
    /\ seen \in Nat
    /\ curRun \in Run \cup {NoRun}
    /\ pc \in {"note", "check", "await", "verdict"} => curRun \in Run
    /\ stopped \in BOOLEAN
    /\ verdict \in {"none", "completed", "exhausted", "pending", "isolation", "run"}
    /\ pc = "settle" => verdict # "none"
    /\ exc \in {"none", "exception", "CancelledError"}
    /\ pc = "fail" => exc # "none"
    /\ stop \in {"no", "waiting", "given_up"} /\ dying \in BOOLEAN
    /\ boots \in Nat /\ faults \in Nat /\ deaths \in Nat
    /\ started \in [Mission -> Nat]
    /\ owner \in [Run -> Mission \cup {NoMission}]

(* A mission is never given more runs than max_runs, save for one per      *)
(* crash or failed write that came between create_run and the count of it  *)
(* (note_mission_run).                                                     *)
BudgetBound == \A m \in Mission : started[m] <= MaxRuns + boots + faults

(* A mission is RUNNING only while the scheduler is working on it, so none *)
(* is parked there: only a failed write can strand one, until a restart.   *)
NoStrandedMission ==
    \A m \in Mission :
        mstat[m] = "running" => (cur = m /\ pc \in Holding) \/ faults > 0

(* Missions are served one run at a time: of two active runs at least one  *)
(* has been told to stop (the scheduler is "deliberately serial").         *)
SerialRuns ==
    faults = 0 =>
        \A r, q \in Run :
            r # q /\ Active(r) /\ Active(q) => rcancel[r] \/ rcancel[q]

(* Cancelling a mission reaches the run carrying it out, even one started  *)
(* while the cancel was being written.                                     *)
CancelReachesRun ==
    faults = 0 =>
        \A r \in Run :
            (Active(r) /\ owner[r] # NoMission /\ mstat[owner[r]] = "cancelled")
                => rcancel[r] \/ (curRun = r /\ pc \in {"note", "check"})

(* What an ended mission says is what happened: completed by a run whose   *)
(* reply carries the marker; exhausted with the budget used; failed on     *)
(* account of a run only if that run ended badly.                          *)
VerdictsAreTrue ==
    \A m \in Mission :
        /\ mstat[m] = "completed" =>
              last[m] # NoRun /\ (marker[last[m]] \/ rstat[last[m]] = "gone")
        /\ mstat[m] = "exhausted" => used[m] >= MaxRuns
        /\ mstat[m] = "failed" /\ err[m] = "run" =>
              /\ last[m] # NoRun
              /\ rstat[last[m]] \in {"rejected", "cancelled", "interrupted", "gone"}
                    \/ (rstat[last[m]] = "failed" /\ ~spent[last[m]])

(* A shutdown does not end missions: none is filed as failed because the   *)
(* scheduler itself was stopped (scheduler.py:10: an interrupted mission   *)
(* returns to PENDING).                                                    *)
ShutdownKeepsMissions == \A m \in Mission : err[m] # "CancelledError"

Queue == INSTANCE MissionQueue

(* Through crashes, shutdowns, cancels and deletes the scheduler serves a  *)
(* queue: in order, one mission at a time, each to an end.                 *)
ServesQueue == Queue!Spec

(* Every mission that is queued ends: a mission ahead of it cannot hold    *)
(* the scheduler for good, nor can a run that never records its end; only  *)
(* a failed write can, until a restart.                                    *)
MissionEnds ==
    \A m \in Mission :
        mstat[m] = "pending" ~> Terminal(m) \/ mstat[m] = "gone" \/ faults > 0

=============================================================================
