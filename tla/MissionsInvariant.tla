-------------------------- MODULE MissionsInvariant --------------------------
(***************************************************************************)
(* The inductive invariant of Missions.  A property of an ended mission    *)
(* (VerdictsAreTrue) needs what the scheduler knew when it wrote the       *)
(* status: HeldInv and DecisionInv follow a claimed mission from the claim *)
(* to the verdict.  A property of runs (SerialRuns, CancelReachesRun)      *)
(* needs RowInv, which ties the row of a run to its mission, and LooseInv, *)
(* which says where a run nobody has told to stop can be.                  *)
(***************************************************************************)
EXTENDS Missions

(* Where a run was started for the mission in hand, up to the verdict on it *)
WithRun == {"note", "check", "await", "verdict"}

(* Where the run of the mission in hand may still be on its own *)
Tended == {"note", "check", "await"}

(* From a CancelledError to the end of the scheduler *)
Leaving == {"fail", "wait", "loop", "ended"}

(* An active run that nobody has asked to stop *)
Loose(r) == Active(r) /\ ~rcancel[r]

(* A run that ended for any reason but success or a spent bound *)
EndedBadly(r) ==
    \/ rstat[r] \in {"rejected", "cancelled", "interrupted", "gone"}
    \/ rstat[r] = "failed" /\ ~spent[r]

(* The rows: a mission has a thread from its creation on and loses it only *)
(* by being deleted with it; an active run belongs to a mission of its     *)
(* thread; only a run that ended has an ending.                            *)
RowInv ==
    /\ \A m \in Mission :
          /\ mstat[m] = "absent" => thr[m] = NoThread
          /\ mstat[m] = "gone" => thr[m] \notin threads
    /\ \A r \in Run :
          /\ owner[r] # NoMission => mstat[owner[r]] # "absent"
          /\ Active(r) => owner[r] # NoMission /\ rthr[r] = thr[owner[r]]
          /\ marker[r] \/ spent[r] => ~Active(r) /\ rstat[r] # "absent"
    /\ dying => stop # "no"

(* The mission in hand: only an operator takes it from the scheduler, and  *)
(* the run in hand is its own.                                             *)
HeldInv ==
    /\ pc \in Holding => mstat[cur] \in {"running", "cancelled", "gone"}
    /\ pc \in WithRun => rstat[curRun] # "absent" /\ owner[curRun] = cur
    /\ pc = "verdict" => ~Active(curRun)

(* The budget: a mission is given a run only below its bound, on a count   *)
(* nobody else changes; what was started and not counted is in hand, or    *)
(* was lost to a restart or a failed write.                                *)
BudgetInv ==
    /\ BudgetBound
    /\ \A m \in Mission :
          /\ used[m] <= MaxRuns
          /\ mstat[m] # "gone" =>
                \/ started[m] <= used[m] + boots + faults
                \/ /\ pc = "note" /\ cur = m
                   /\ started[m] <= used[m] + 1 + boots + faults
    /\ pc \in {"claimed", "rotate", "message", "start", "note"} => seen = used[cur]
    /\ pc \in {"rotate", "message", "start", "note"} => seen < MaxRuns

(* The decision: by the time a status is written, the row of the mission   *)
(* says what it was written for, unless the row is gone.                   *)
DecisionInv ==
    pc \in Holding /\ mstat[cur] # "gone" =>
        /\ pc \in {"check", "await", "verdict"} =>
              used[cur] = seen + 1 /\ last[cur] = curRun
        /\ pc = "settle" /\ verdict = "completed" =>
              last[cur] # NoRun /\ (marker[last[cur]] \/ rstat[last[cur]] = "gone")
        /\ pc = "settle" /\ verdict = "exhausted" => used[cur] >= MaxRuns
        /\ pc = "settle" /\ verdict = "run" =>
              last[cur] # NoRun /\ EndedBadly(last[cur])

(* While no store access fails, a run nobody told to stop is the one in    *)
(* hand, or the scheduler was cancelled under it and is on its way out.    *)
LooseInv ==
    faults = 0 =>
        \A r \in Run : Loose(r) =>
            \/ r = curRun /\ pc \in Tended
            \/ pc \in Leaving /\ stop # "no" /\ \A q \in Run : Loose(q) => q = r

IInv ==
    /\ TypeOK
    /\ RowInv /\ HeldInv /\ BudgetInv /\ DecisionInv /\ LooseInv
    /\ NoStrandedMission /\ CancelReachesRun /\ VerdictsAreTrue
=============================================================================
