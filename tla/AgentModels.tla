---------------------------- MODULE AgentModels ----------------------------
(***************************************************************************)
(* The status vocabularies of agent/models.py, shared by the modules that  *)
(* describe the run orchestrator and the mission scheduler.                *)
(***************************************************************************)

RunStatus == {"queued", "streaming", "awaiting_approval", "executing_tool",
              "completed", "rejected", "failed", "cancelled", "interrupted"}

TerminalRunStatuses ==
    {"completed", "rejected", "failed", "cancelled", "interrupted"}

ActiveRunStatuses == RunStatus \ TerminalRunStatuses

(* RUN_TRANSITIONS: the only moves AgentStore.transition accepts besides   *)
(* writing the current status again.                                       *)
RunTransitions ==
    [s \in RunStatus |->
        CASE s = "queued" ->
                {"streaming", "cancelled", "failed", "interrupted"}
          [] s = "streaming" ->
                {"awaiting_approval", "executing_tool", "completed",
                 "cancelled", "failed", "interrupted"}
          [] s = "awaiting_approval" ->
                {"executing_tool", "streaming", "rejected",
                 "cancelled", "failed", "interrupted"}
          [] s = "executing_tool" ->
                {"streaming", "awaiting_approval", "completed",
                 "cancelled", "failed", "interrupted"}
          [] OTHER -> {}]

MissionStatus ==
    {"pending", "running", "completed", "failed", "cancelled", "exhausted"}

TerminalMissionStatuses == {"completed", "failed", "cancelled", "exhausted"}
=============================================================================
