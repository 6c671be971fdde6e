---------------------------- MODULE RunContract ----------------------------
(***************************************************************************)
(* What the orchestrator promises of a run, with no task, thread, poll or  *)
(* event loop: the row moves along RUN_TRANSITIONS, each tool call passes  *)
(* a one-shot gate, and the two agree - a run executes a tool only once a  *)
(* call of it is cleared, parks only to ask about one, and is rejected     *)
(* only because one was refused.  AgentRun implements this.                *)
(***************************************************************************)
EXTENDS AgentModels

CONSTANTS Run, CallId

VARIABLES status, gate

cvars == <<status, gate>>

Init ==
    /\ status = [r \in Run |-> "absent"]
    /\ gate = [r \in Run |-> [c \in CallId |-> "idle"]]

Active(r) == status[r] \in ActiveRunStatuses

MoveGate(r, c, from, to) ==
    /\ gate[r][c] = from
    /\ gate' = [gate EXCEPT ![r][c] = to]

Create(r) ==
    /\ status[r] = "absent"
    /\ status' = [status EXCEPT ![r] = "queued"]
    /\ UNCHANGED gate

Delete(r) ==
    /\ status[r] \in RunStatus
    /\ status' = [status EXCEPT ![r] = "gone"]
    /\ UNCHANGED gate

(* A run executes, or is rejected, on account of one of its calls. *)
Move(r) ==
    /\ Active(r)
    /\ \E s \in RunTransitions[status[r]] \ {"awaiting_approval"} :
          /\ s = "executing_tool" => \E c \in CallId : gate[r][c] = "cleared"
          /\ s = "rejected" => \E c \in CallId : gate[r][c] = "refused"
          /\ status' = [status EXCEPT ![r] = s]
    /\ UNCHANGED gate

(* The run parks to ask about one call. *)
Ask(r, c) ==
    /\ status[r] \in {"streaming", "executing_tool"}
    /\ MoveGate(r, c, "idle", "pending")
    /\ status' = [status EXCEPT ![r] = "awaiting_approval"]

(* The policy lets a call through without asking. *)
Clear(r, c) ==
    /\ status[r] \in {"streaming", "executing_tool"}
    /\ MoveGate(r, c, "idle", "cleared")
    /\ UNCHANGED status

(* The human answers, as long as the run is active. *)
Answer(r, c) ==
    /\ Active(r)
    /\ MoveGate(r, c, "pending", "granted") \/ MoveGate(r, c, "pending", "refused")
    /\ UNCHANGED status

(* An approval is spent once, while the run is parked on it. *)
Spend(r, c) ==
    /\ status[r] = "awaiting_approval"
    /\ MoveGate(r, c, "granted", "cleared")
    /\ UNCHANGED status

(* The backend gets a cleared call, once. *)
Hand(r, c) == MoveGate(r, c, "cleared", "handed") /\ UNCHANGED status

(* A shutdown cancels the runs it still can; the rest are adopted dead. *)
Restart ==
    /\ \E ended \in SUBSET Run :
          status' = [r \in Run |-> IF ~Active(r) THEN status[r]
                                  ELSE IF r \in ended THEN "cancelled"
                                  ELSE "interrupted"]
    /\ UNCHANGED gate

Next ==
    \/ \E r \in Run :
          \/ Create(r) \/ Delete(r) \/ Move(r)
          \/ \E c \in CallId :
                Ask(r, c) \/ Clear(r, c) \/ Answer(r, c) \/ Spend(r, c) \/ Hand(r, c)
    \/ Restart

Spec == Init /\ [][Next]_cvars
=============================================================================
