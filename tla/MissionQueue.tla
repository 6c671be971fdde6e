---------------------------- MODULE MissionQueue ----------------------------
(***************************************************************************)
(* What the scheduler promises of missions, with no runs, coroutine, or    *)
(* store transactions: a queue served strictly in the order missions were  *)
(* queued, one at a time.  A mission in service goes back to its place in  *)
(* the queue or ends; ended is final; only a restart may put it back       *)
(* without a decision.  Missions implements this as long as no store       *)
(* access of the scheduler fails.                                          *)
(***************************************************************************)
EXTENDS AgentModels, Naturals

CONSTANT NMissions

VARIABLE mstat

Mission == 1..NMissions

Init == mstat = [m \in Mission |-> "absent"]

Becomes(m, s) == mstat' = [mstat EXCEPT ![m] = s]

Submit(m) ==
    /\ mstat[m] = "absent" /\ \A n \in 1..(m - 1) : mstat[n] # "absent"
    /\ Becomes(m, "pending")

(* Nothing is in service and nothing older is waiting. *)
Serve(m) ==
    /\ mstat[m] = "pending"
    /\ \A n \in Mission : mstat[n] # "running" /\ (mstat[n] = "pending" => m <= n)
    /\ Becomes(m, "running")

Requeue(m) == mstat[m] = "running" /\ Becomes(m, "pending")

End(m) ==
    /\ mstat[m] = "running"
    /\ \E s \in {"completed", "failed", "exhausted"} : Becomes(m, s)

Cancel(m) == mstat[m] \in {"pending", "running"} /\ Becomes(m, "cancelled")

(* The missions of a deleted thread *)
Delete ==
    \E S \in SUBSET {m \in Mission : mstat[m] # "absent"} :
        mstat' = [m \in Mission |-> IF m \in S THEN "gone" ELSE mstat[m]]

Next ==
    \/ \E m \in Mission :
          Submit(m) \/ Serve(m) \/ Requeue(m) \/ End(m) \/ Cancel(m)
    \/ Delete

Spec == Init /\ [][Next]_mstat
=============================================================================
