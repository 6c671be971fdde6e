----------------------------- MODULE RunControl -----------------------------
(***************************************************************************)
(* The calls that make a debuggee run (core/service.py): launch, attach,   *)
(* resume, step, pause, stop, wait, and the analysis of a function, which  *)
(* arms a breakpoint and runs to it.  A call is a plan of requests, each   *)
(* under runtime.lock; between two requests another caller may have its    *)
(* turn.                                                                   *)
(*                                                                         *)
(* The debugger accepts a command and executes it soon after (external).   *)
(* Before a step or a resume the state is already "paused", so a call that *)
(* waits looks for the event of the command among those after a marker; a  *)
(* ring that is too small may have dropped it.                             *)
(*                                                                         *)
(* A definition under "What if" is not part of the specification: it is    *)
(* the definition after it with a mistake the properties must catch.       *)
(***************************************************************************)
EXTENDS Naturals, Sequences

CONSTANTS
    Callers,    \* threads that call
    Ring,       \* events the plugin keeps
    MaxCalls,   \* bound: calls
    MaxEvents   \* bound: events published

VARIABLES
    at,       \* where each caller is in its request
    plan,     \* requests it still has to make, the current one first
    mark,     \* event_cursor of its wait
    moved,    \* transition_observed
    told,     \* what its last call answered
    lock,     \* holder of runtime.lock, or "none"
    current,  \* the runtime is the session's
    deb,      \* the debuggee
    armed,    \* the breakpoint of an analysis is set
    pending,  \* commands accepted and not executed yet: [by, m]
    steps,    \* steps begun whose end was not published yet
    events,   \* kinds of all events published
    truth,    \* history: its command was executed, it was told so, others were pending
    calls

vars == <<at, plan, mark, moved, told, lock, current, deb, armed, pending, steps, events,
          truth, calls>>
debugger == <<deb, armed, pending, steps, events>>

Methods == {"launch", "attach", "resume", "step", "pause", "stop", "state",
            "modules", "decompile", "arm", "registers"}
States  == {"idle", "paused", "running"}

\* A request: its method and the states it waits for, {} if it does not wait
Request == [m : Methods, wait : SUBSET States]

TypeOK ==
    /\ at \in [Callers -> {"idle", "enter", "mark", "submit", "absorb", "events", "state"}]
    /\ plan \in [Callers -> Seq(Request)]
    /\ mark \in [Callers -> 0..MaxEvents] /\ moved \in [Callers -> BOOLEAN]
    /\ told \in [Callers -> {"none", "ok", "failed"}] /\ lock \in Callers \cup {"none"}
    /\ current \in BOOLEAN /\ deb \in States /\ armed \in BOOLEAN
    /\ pending \in Seq([by : Callers, m : Methods]) /\ steps \in Nat
    /\ events \in Seq({"resumed", "stepped", "other"})
    /\ truth \in [Callers -> [done : BOOLEAN, claimed : BOOLEAN, crowded : BOOLEAN]]
    /\ calls \in 0..MaxCalls

NoTruth == [done |-> FALSE, claimed |-> FALSE, crowded |-> FALSE]

Init ==
    /\ at = [c \in Callers |-> "idle"] /\ plan = [c \in Callers |-> <<>>]
    /\ mark = [c \in Callers |-> 0] /\ moved = [c \in Callers |-> FALSE]
    /\ told = [c \in Callers |-> "none"] /\ lock = "none" /\ current = TRUE
    /\ deb \in {"idle", "paused"} /\ armed = FALSE /\ pending = <<>>
    /\ steps = 0 /\ events = <<>>
    /\ truth = [c \in Callers |-> NoTruth] /\ calls = 0

-----------------------------------------------------------------------------
(* The calls, as plans *)

Req(m, wait) == [m |-> m, wait |-> wait]

DynamicResume(waits) == Req("resume", IF waits THEN {"paused", "idle"} ELSE {})
DynamicStep  == Req("step", {"paused", "idle"})
DynamicPause == Req("pause", {"paused"})
DynamicStop  == Req("stop", {"idle"})

DynamicWait == {<<Req("state", {s})>> : s \in States}

\* pass_system_breakpoint runs on from the first pause
DynamicLaunch ==
    {<<Req("launch", {"paused"})>>,
     <<Req("launch", {"paused"}), Req("resume", {"paused", "running"})>>}

DynamicAttach == {<<Req("attach", {"paused", "running"})>>, <<Req("attach", {"paused"})>>}

AnalyzeFunctionDynamic ==
    {<<Req("modules", {})>> \o context \o
     <<Req("arm", {}), DynamicResume(TRUE), Req("registers", {})>> :
         context \in {<<>>, <<Req("decompile", {})>>}}

Plans ==
    DynamicLaunch \cup DynamicAttach \cup DynamicWait \cup AnalyzeFunctionDynamic
        \cup {<<r>> : r \in {DynamicResume(TRUE), DynamicResume(FALSE), DynamicStep,
                             DynamicPause, DynamicStop}}

Call(c) ==
    /\ at[c] = "idle" /\ calls < MaxCalls /\ calls' = calls + 1
    /\ \E p \in Plans : plan' = [plan EXCEPT ![c] = p]
    /\ at' = [at EXCEPT ![c] = "enter"]
    /\ truth' = [truth EXCEPT ![c] = NoTruth]
    /\ UNCHANGED <<mark, moved, told, lock, current, debugger>>

-----------------------------------------------------------------------------
(* _dynamic_request *)

This(c) == Head(plan[c])

Goto(c, place) == at' = [at EXCEPT ![c] = place]

Leaves(c) == lock' = IF lock = c THEN "none" ELSE lock

Return(c, answer) ==
    /\ Goto(c, "idle") /\ told' = [told EXCEPT ![c] = answer]
    /\ plan' = [plan EXCEPT ![c] = <<>>]
    /\ mark' = [mark EXCEPT ![c] = 0] /\ moved' = [moved EXCEPT ![c] = FALSE]
    /\ Leaves(c)

Continues(c) ==
    IF Len(plan[c]) = 1 THEN Return(c, "ok")
    ELSE /\ Goto(c, "enter") /\ plan' = [plan EXCEPT ![c] = Tail(@)]
         /\ mark' = [mark EXCEPT ![c] = 0] /\ moved' = [moved EXCEPT ![c] = FALSE]
         /\ Leaves(c) /\ UNCHANGED told

(* A request that fails fails its call, but an analysis does without the   *)
(* decompilation and without the registers                                 *)
Fails(c) ==
    IF This(c).m \in {"decompile", "registers"} THEN Continues(c) ELSE Return(c, "failed")

(* Some failures mean that the debugger is gone *)
Breaks(c) ==
    /\ Fails(c)
    /\ \/ UNCHANGED <<current, debugger>>
       \/ /\ current' = FALSE /\ deb' = "idle" /\ pending' = <<>> /\ steps' = 0
          /\ UNCHANGED <<armed, events>>
    /\ UNCHANGED <<truth, calls>>

Transitions(m) ==
    CASE m = "resume" -> {"resumed"}
      [] m = "step"   -> {"resumed", "stepped"}
      [] OTHER        -> {}

Enter(c) ==
    /\ at[c] = "enter" /\ This(c).m # "decompile" /\ lock = "none" /\ current
    /\ lock' = c
    /\ IF This(c).wait # {} /\ Transitions(This(c).m) # {}
       THEN Goto(c, "mark") /\ UNCHANGED moved
       ELSE Goto(c, "submit") /\ moved' = [moved EXCEPT ![c] = TRUE]
    /\ UNCHANGED <<plan, mark, told, current, debugger, truth, calls>>

TurnedAway(c) ==
    /\ at[c] = "enter" /\ This(c).m # "decompile" /\ lock = "none" /\ ~current
    /\ Fails(c) /\ UNCHANGED <<current, debugger, truth, calls>>

(* static_decompile is another backend's *)
StaticDecompile(c) ==
    /\ at[c] = "enter" /\ This(c).m = "decompile" /\ Continues(c)
    /\ UNCHANGED <<current, debugger, truth, calls>>

(* An event that the wait would take for its own is still to come *)
Crowded(c) == pending # <<>> \/ (steps > 0 /\ "stepped" \in Transitions(This(c).m))

(* latest_sequence, of a batch read at cursor 0 *)
Mark(c) ==
    /\ at[c] = "mark"
    /\ \/ /\ mark' = [mark EXCEPT ![c] = Len(events)] /\ Goto(c, "submit")
          /\ truth' = [truth EXCEPT ![c] = [NoTruth EXCEPT !.crowded = Crowded(c)]]
          /\ UNCHANGED <<plan, moved, told, lock, current, debugger, calls>>
       \/ Breaks(c)

\* The guard of the plugin's method
Ready(m) ==
    CASE m \in {"launch", "attach"}                      -> deb = "idle"
      [] m \in {"resume", "step", "arm", "registers"}    -> deb = "paused"
      [] m \in {"pause", "stop"}                         -> deb # "idle"
      [] OTHER                                           -> TRUE

\* The method is a command to the debugger, executed later
IsCommand(m) ==
    m \in {"launch", "attach", "resume", "step", "stop"} \/ (m = "pause" /\ deb = "running")

Submitted(c) ==
    IF This(c).wait = {} THEN Continues(c)
    ELSE /\ Goto(c, "events") /\ UNCHANGED <<plan, mark, moved, told, lock>>

Submit(c) ==
    /\ at[c] = "submit" /\ Ready(This(c).m) /\ Submitted(c)
    /\ pending' = IF IsCommand(This(c).m) THEN Append(pending, [by |-> c, m |-> This(c).m])
                  ELSE pending
    /\ armed' = (armed \/ This(c).m = "arm")
    /\ UNCHANGED <<current, deb, steps, events, truth, calls>>

(* Refused; only a pause may have been made good by the target itself *)
Refused(c) ==
    /\ at[c] = "submit" /\ (~Ready(This(c).m) \/ IsCommand(This(c).m))
    /\ IF This(c).m = "pause" /\ Ready("pause")
       THEN Goto(c, "absorb") /\ UNCHANGED <<plan, mark, moved, told, lock, current, debugger,
                                             truth, calls>>
       ELSE Breaks(c)

AbsorbRedundantRunControl(c) ==
    /\ at[c] = "absorb"
    /\ \/ /\ deb = "paused" /\ Goto(c, "events")
          /\ UNCHANGED <<plan, mark, moved, told, lock, current, debugger, truth, calls>>
       \/ Breaks(c)

-----------------------------------------------------------------------------
(* wait_for_state *)

Oldest == IF Len(events) > Ring THEN Len(events) - Ring + 1 ELSE 1

HasTransition(c) ==
    \E i \in 1..Len(events) :
        i > mark[c] /\ i >= Oldest /\ events[i] \in Transitions(This(c).m)

(* What if events dropped by the ring were taken for the transition? *)
ObservedOrDropped(c) == HasTransition(c) \/ mark[c] + 1 < Oldest

Observed(c) == HasTransition(c)

ReadEvents(c) ==
    /\ at[c] = "events"
    /\ \/ /\ Goto(c, "state")
          /\ moved' = [moved EXCEPT ![c] = @ \/ Observed(c)]
          /\ mark' = IF moved[c] THEN mark ELSE [mark EXCEPT ![c] = Len(events)]
          /\ UNCHANGED <<plan, told, lock, current, debugger, truth, calls>>
       \/ Breaks(c)

Reached(c) == moved[c] /\ deb \in This(c).wait

ReadState(c) ==
    /\ at[c] = "state"
    /\ \/ /\ Reached(c) /\ Continues(c) /\ UNCHANGED <<current, debugger, calls>>
          /\ truth' = IF This(c).m \in {"resume", "step"}
                      THEN [truth EXCEPT ![c].claimed = TRUE] ELSE truth
       \/ /\ ~Reached(c) /\ Goto(c, "events")
          /\ UNCHANGED <<plan, mark, moved, told, lock, current, debugger, truth, calls>>
       \/ Breaks(c)

DynamicRequest(c) ==
    \/ Enter(c) \/ TurnedAway(c) \/ StaticDecompile(c) \/ Mark(c) \/ Submit(c)
    \/ Refused(c) \/ AbsorbRedundantRunControl(c) \/ ReadEvents(c) \/ ReadState(c)

-----------------------------------------------------------------------------
(* The debugger (external) and what the plugin publishes of it *)

\* PublishDebugEvent
Publish(kind) == Len(events) < MaxEvents /\ events' = Append(events, kind)

Callers_ == <<at, plan, mark, moved, told, lock, current, calls>>

(* A stop may come before a step that was begun has ended, and undo it *)
Interrupted == Publish("other") /\ steps' \in 0..steps

(* The oldest command is executed, if it still can be.  A step runs until *)
(* CB_STEPPED; whether the debugger reports its start is not known.       *)
Executes ==
    /\ pending # <<>> /\ pending' = Tail(pending)
    /\ LET m == Head(pending).m
       IN  \/ /\ m \in {"launch", "attach"} /\ deb = "idle"
              /\ deb' \in {"paused", "running"} /\ Publish("other")
              /\ UNCHANGED <<steps, truth>>
           \/ /\ m = "resume" /\ deb = "paused" /\ deb' = "running" /\ Publish("resumed")
              /\ truth' = [truth EXCEPT ![Head(pending).by].done = TRUE]
              /\ UNCHANGED steps
           \/ /\ m = "step" /\ deb = "paused" /\ deb' = "running" /\ steps' = steps + 1
              /\ Publish("resumed") \/ UNCHANGED events
              /\ truth' = [truth EXCEPT ![Head(pending).by].done = TRUE]
           \/ /\ m = "pause" /\ deb = "running" /\ deb' = "paused" /\ Interrupted
              /\ UNCHANGED truth
           \/ /\ m = "stop" /\ deb # "idle" /\ deb' = "idle" /\ Publish("other")
              /\ steps' = 0 /\ UNCHANGED truth
           \/ ~Ready(m) /\ UNCHANGED <<deb, steps, events, truth>>
    /\ UNCHANGED <<Callers_, armed>>

(* ... at the end of a step, elsewhere, or for good *)
DebuggeeStops ==
    /\ deb = "running"
    /\ \/ deb' = "paused" /\ steps > 0 /\ steps' = steps - 1 /\ Publish("stepped")
       \/ deb' = "paused" /\ Interrupted
       \/ deb' = "idle" /\ steps' = 0 /\ Publish("other")
    /\ UNCHANGED <<Callers_, armed, pending, truth>>

SomethingElse ==
    /\ deb # "idle" /\ Publish("other") /\ UNCHANGED <<Callers_, deb, armed, pending, steps, truth>>

Next ==
    \/ \E c \in Callers : Call(c) \/ DynamicRequest(c)
    \/ Executes \/ DebuggeeStops \/ SomethingElse

Spec == Init /\ [][Next]_vars

-----------------------------------------------------------------------------
(* Properties *)

(* A resume or a step that is told to have ended in a stop was executed,   *)
(* and the stop is a later one, unless the event of an earlier command was *)
(* still to come when its marker was read: of a command that was not       *)
(* executed yet, or of a step whose end was not published yet              *)
(* (_dynamic_request, wait_for_state).                                     *)
StopIsNew == \A c \in Callers : truth[c].claimed => truth[c].done \/ truth[c].crowded
=============================================================================
