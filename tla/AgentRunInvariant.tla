-------------------------- MODULE AgentRunInvariant --------------------------
(***************************************************************************)
(* The inductive invariant of AgentRun.  TypeOK needs RoundInv (an answer  *)
(* is handled only in a round below the bound, and wherever the task works *)
(* on a call, the call is named); the safety of the gate needs GateInv,    *)
(* which relates the row of a call to the place of the task, the thread    *)
(* and the history; that the run keeps its contract needs PlaceInv, which  *)
(* relates the row of the run to the place of the task.                    *)
(***************************************************************************)
EXTENDS AgentRun

(* Places of a task that works through the calls of an answer, and those   *)
(* where it works on the call cur                                          *)
OnCall   == {"gate", "await", "consume", "start", "invoke"}
Handling == OnCall \cup {"call", "after"}

RoundInv ==
    \A r \in Run :
        /\ pc[r] \in Handling => round[r] < MaxToolRounds
        /\ pc[r] \in OnCall => cur[r] \in CallId

TypeInv == TypeOK /\ RoundInv

(* A call may go to its backend: the policy passed it, or a human did.     *)
Cleared(r, c) ==
    \/ call[r][c].gate = "policy" /\ call[r][c].tool \notin NeverAuto
    \/ /\ call[r][c].gate = "human"
       /\ call[r][c].approved = "yes" /\ call[r][c].consumed

(* Each call: an approval on the row is one a human gave for these very    *)
(* arguments, only a cleared call has a thread or was handed over, a       *)
(* thread that has not started has handed nothing over.                    *)
CallInv(r, c) ==
    /\ call[r][c].st = "none" => call[r][c] = NoRow
    /\ call[r][c].approved = "yes" => <<r, c, call[r][c].args>> \in agreed
    /\ (thread[r][c] # "none" \/ ran[r][c] > 0) => Cleared(r, c)
    /\ thread[r][c] = "queued" => ran[r][c] = 0
    /\ ran[r][c] <= 1

(* Each task: there is none before the run is created; until it starts the *)
(* call it works on, that call is on record and untouched; it polls only   *)
(* for calls the policy stopped, and starts only cleared ones.             *)
TaskInv(r) ==
    /\ status[r] = "absent" => pc[r] = "none" /\ ~dying[r]
    /\ pc[r] \in {"gate", "await", "consume", "start"} =>
          /\ Row(r).st # "none"
          /\ thread[r][cur[r]] = "none" /\ ran[r][cur[r]] = 0
    /\ pc[r] = "gate" => Row(r).gate = "none"
    /\ pc[r] \in {"await", "consume"} => Row(r).gate = "human"
    /\ pc[r] = "start" => Cleared(r, cur[r])

(* A rejected run has a refused call.                                      *)
RejectInv(r) ==
    status[r] = "rejected" => \E c \in CallId :
        call[r][c].gate = "human" /\ call[r][c].approved = "no"

(* Only the call the task waits for can be about to start; a start counted *)
(* as late took the only such call, and nothing resets cancel_requested.   *)
LateInv(r) ==
    /\ \A c \in CallId : thread[r][c] = "queued" =>
          pc[r] = "invoke" /\ c = cur[r] /\ late[r] = 0
    /\ late[r] > 0 => cancel[r]
    /\ late[r] <= 1

GateInv == \A r \in Run :
    /\ TaskInv(r) /\ RejectInv(r) /\ LateInv(r)
    /\ \A c \in CallId : CallInv(r, c)

(* Where the task of a run is says what its row says - until the row is    *)
(* deleted, or an INTERRUPTED overtakes the CancelledError (_await_run).   *)
StatusInv(r) ==
    status[r] # "gone" /\ ~dying[r] =>
        /\ pc[r] = "new" => status[r] = "queued"
        /\ pc[r] \in {"round", "stream"} => status[r] = "streaming"
        /\ pc[r] \in {"call", "gate"} => status[r] \in {"streaming", "executing_tool"}
        /\ pc[r] \in {"await", "consume"} => status[r] = "awaiting_approval"
        /\ pc[r] = "start" =>
              status[r] \in {"streaming", "executing_tool", "awaiting_approval"}
        /\ pc[r] = "invoke" => status[r] = "executing_tool"
        /\ pc[r] = "after" => status[r] \in {"streaming", "executing_tool", "rejected"}

(* Nobody decides a call between its proposal and the policy's word on it, *)
(* and only an approval is consumed.                                       *)
AnswerInv(r) ==
    /\ pc[r] = "gate" => Row(r).approved = "null"
    /\ \A c \in CallId : call[r][c].consumed => call[r][c].approved = "yes"

PlaceInv == \A r \in Run : StatusInv(r) /\ AnswerInv(r)

(* Task, row, thread and approvals agree at every step of the handling of  *)
(* a tool call (_handle_tool_call, _invoke_tool_bounded, decide).          *)
IInv == TypeInv /\ GateInv /\ PlaceInv
=============================================================================
