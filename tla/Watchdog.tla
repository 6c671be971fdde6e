------------------------------ MODULE Watchdog ------------------------------
(***************************************************************************)
(* The watchdog (core/watchdog.py) over the health monitor: every sweep    *)
(* asks the service for session_health, alerts once for an outage, and     *)
(* with recovery on calls session_recover for each dead backend.           *)
(*                                                                         *)
(* A definition under "What if" is not part of the specification: it is    *)
(* the definition after it with a mistake the properties must catch.       *)
(***************************************************************************)
EXTENDS HealthMonitor

CONSTANTS Limit     \* max(1, max_recovery_attempts)

ASSUME WatchdogAssumption == Limit \in Nat \ {0}

VARIABLES
    policy,     \* off (policy.enabled), or whether dead backends are recovered
    wd,         \* where the sweep is
    streak,     \* _dead_streak
    reported,   \* _reported_disconnected
    failed,     \* _health_failed
    told,       \* history: backend_dead alerts of each backend's generation
    abandoned,  \* history: backend_recovery_abandoned alerts in a row of
    tries       \* sweeps that found it dead, and recoveries that failed in it

watchVars == <<policy, wd, streak, reported, failed, told, abandoned, tries>>
vars == <<monitorVars, watchVars>>

Policies == {"off", "report", "recover"}

Idle == [pc |-> "idle", dead |-> {}, down |-> {}, b |-> None]

AtMost(n, bound) == IF n < bound THEN n ELSE bound

-----------------------------------------------------------------------------
(* session_health: check_once(repair=False), then the report *)

Ask ==
    /\ policy # "off" /\ wd.pc = "idle" /\ sw[Asker].pc = "none"
    /\ Becomes(Asker, Sweeping)
    /\ wd' = [Idle EXCEPT !.pc = "asked"]
    /\ UNCHANGED <<backendVars, reportVars, threadVars, cl, late,
                   policy, streak, reported, failed, told, abandoned, tries>>

AskStep ==
    /\ wd.pc = "asked"
    /\ (\E b \in Backends : Check(Asker, b)) \/ Write(Asker)
    /\ UNCHANGED watchVars

(* What if a failed answer were read as no rows? *)
ReadAsEmpty ==
    /\ wd.pc = "asked"
    /\ Becomes(Asker, Quiet)
    /\ wd' = Idle
    /\ streak' = [b \in Backends |-> 0]
    /\ reported' = {}
    /\ UNCHANGED <<backendVars, reportVars, threadVars, cl, late,
                   policy, failed, told, abandoned, tries>>

(* _handle_health_unavailable *)
HealthUnavailable ==
    /\ wd.pc = "asked"
    /\ Becomes(Asker, Quiet)
    /\ wd' = Idle
    /\ failed' = TRUE
    /\ UNCHANGED <<backendVars, reportVars, threadVars, cl, late,
                   policy, streak, reported, told, abandoned, tries>>

Dead == {b \in Backends : rows[b].known /\ ~rows[b].up}
Down == {b \in Backends : rows[b].known /\ rows[b].up /\ ~rows[b].conn}

InARow(count) == [b \in Backends |-> IF b \in Dead THEN count[b] ELSE 0]

(* The rows are read; streaks of backends that are not dead are pruned *)
ReadRows ==
    /\ wd.pc = "asked" /\ sw[Asker].pc = "next" /\ sw[Asker].left = {}
    /\ Becomes(Asker, Quiet)
    /\ failed' = FALSE
    /\ streak' = InARow(streak)
    /\ tries' = InARow(tries)
    /\ abandoned' = InARow(abandoned)
    /\ reported' = reported \cap Down
    /\ wd' = [pc |-> "handle", dead |-> Dead, down |-> Down, b |-> None]
    /\ UNCHANGED <<backendVars, reportVars, threadVars, cl, late,
                   policy, told>>

-----------------------------------------------------------------------------
(* _handle_dead *)

(* One more sweep has found it dead.  Past the alert that recovery was *)
(* abandoned the count makes no difference.                            *)
Longer(b) == [streak EXCEPT ![b] = AtMost(@ + 1, Limit + 1)]

HandledBy(b) == [wd EXCEPT !.dead = @ \ {b}]

Report(b) ==
    /\ wd.pc = "handle" /\ b \in wd.dead /\ policy = "report"
    /\ streak' = Longer(b)
    /\ told' = IF streak[b] = 0 THEN [told EXCEPT ![b] = AtMost(@ + 1, 2)] ELSE told
    /\ wd' = HandledBy(b)
    /\ UNCHANGED <<monitorVars, policy, reported, failed, abandoned, tries>>

Abandon(b) ==
    /\ wd.pc = "handle" /\ b \in wd.dead /\ policy = "recover" /\ streak[b] >= Limit
    /\ streak' = Longer(b)
    /\ abandoned' = IF streak[b] = Limit THEN [abandoned EXCEPT ![b] = AtMost(@ + 1, 2)]
                    ELSE abandoned
    /\ wd' = HandledBy(b)
    /\ UNCHANGED <<monitorVars, policy, reported, failed, told, tries>>

(* session_recover is called *)
Try(b) ==
    /\ wd.pc = "handle" /\ b \in wd.dead /\ policy = "recover" /\ streak[b] < Limit
    /\ streak' = Longer(b)
    /\ tries' = [tries EXCEPT ![b] = AtMost(@ + 1, Limit + 1)]
    /\ wd' = [HandledBy(b) EXCEPT !.pc = "recover", !.b = b]
    /\ UNCHANGED <<monitorVars, policy, reported, failed, told, abandoned>>

(* _recovery_succeeded, and what the sweep does with it *)
Outcome(recovered) ==
    /\ wd' = [wd EXCEPT !.pc = "handle", !.b = None]
    /\ streak' = IF recovered THEN [streak EXCEPT ![wd.b] = 0] ELSE streak
    /\ tries' = IF recovered THEN [tries EXCEPT ![wd.b] = 0] ELSE tries

(* A session that is closed cannot be recovered; a failed one is replaced *)
(* by a new session, whose backends are others than these.                *)
RecoverEnded ==
    LET b == wd.b IN
    /\ wd.pc = "recover"
    /\ \/ /\ sess[b] = "closed"
          /\ Outcome(FALSE)
          /\ UNCHANGED monitorVars
       \/ /\ sess[b] = "failed"
          /\ sess' = [sess EXCEPT ![b] = "closed"]
          /\ TakeOut(b)
          /\ \E ok \in BOOLEAN : Outcome(ok)
          /\ UNCHANGED <<threadVars, sw, cl>>
    /\ UNCHANGED <<policy, reported, failed, told, abandoned>>

(* A live worker is kept, or its connection rebuilt; kept is no recovery *)
RecoverLive ==
    LET b == wd.b IN
    /\ wd.pc = "recover" /\ sess[b] = "open" /\ Registered(b) /\ alive[b]
    /\ IF conn[b] THEN Outcome(FALSE) /\ UNCHANGED conn
       ELSE \E ok \in BOOLEAN :
               /\ conn' = [conn EXCEPT ![b] = ok]
               /\ Outcome(ok)
    /\ UNCHANGED <<slot, sess, alive, others, drops, deaths, reportVars, threadVars, sw, cl, late,
                   policy, reported, failed, told, abandoned>>

(* _discard_dead_runtime *)
RecoverDiscards ==
    LET b == wd.b IN
    /\ wd.pc = "recover" /\ sess[b] = "open" /\ Registered(b) /\ ~alive[b]
    /\ TakeOut(b)
    /\ UNCHANGED <<sess, threadVars, sw, cl, watchVars>>

Opened(b) ==
    /\ OpenBackend(b)
    /\ told' = [told EXCEPT ![b] = 0]

(* _reopen_backend, which fails if the worker does not start *)
RecoverReopens ==
    LET b == wd.b IN
    /\ wd.pc = "recover" /\ sess[b] = "open" /\ ~Registered(b)
    /\ \/ Opened(b) /\ Outcome(TRUE)
       \/ /\ Outcome(FALSE)
          /\ UNCHANGED <<monitorVars, told>>
    /\ UNCHANGED <<policy, reported, failed, abandoned>>

(* The connections that are down are reported once, and the sweep is over *)
EndSweep ==
    /\ wd.pc = "handle" /\ wd.dead = {}
    /\ reported' = reported \cup wd.down
    /\ wd' = Idle
    /\ UNCHANGED <<monitorVars, policy, streak, failed, told, abandoned, tries>>

WatchdogStep ==
    \/ Ask \/ AskStep \/ HealthUnavailable \/ ReadRows \/ EndSweep
    \/ \E b \in Backends : Report(b) \/ Abandon(b) \/ Try(b)
    \/ RecoverEnded \/ RecoverLive \/ RecoverDiscards \/ RecoverReopens

-----------------------------------------------------------------------------
(* A caller opens a backend *)
Open(b) ==
    /\ Opened(b)
    /\ UNCHANGED <<policy, wd, streak, reported, failed, abandoned, tries>>

Init ==
    /\ MonitorInit
    /\ policy \in Policies
    /\ wd = Idle
    /\ streak = [b \in Backends |-> 0]
    /\ reported = {} /\ failed = FALSE
    /\ told = [b \in Backends |-> 0]
    /\ abandoned = [b \in Backends |-> 0]
    /\ tries = [b \in Backends |-> 0]

(* A bound: the comings and goings of runtimes that only start and stop *)
(* the monitor are explored without the watchdog.                       *)
BoundOthers == policy = "off"

Next ==
    \/ MonitorNext /\ UNCHANGED watchVars
    \/ BoundOthers /\ OpenOther /\ UNCHANGED watchVars
    \/ WatchdogStep
    \/ \E b \in Backends : Open(b)

(* The monitor's threads, the closing thread and the sweep of the watchdog *)
(* run on; nothing obliges anybody to open, close or lose anything.        *)
Fairness ==
    /\ \A t \in Sweepers : WF_vars(Sweep(t) /\ UNCHANGED watchVars)
    /\ WF_vars((CloseLooks \/ StopFlag \/ StopJoin \/ StopRemember) /\ UNCHANGED watchVars)

Spec == Init /\ [][Next]_vars /\ Fairness

-----------------------------------------------------------------------------
(* Properties *)

TypeOK ==
    /\ MonitorTypeOK
    /\ policy \in Policies /\ failed \in BOOLEAN
    /\ wd \in [pc : {"idle", "asked", "handle", "recover"}, dead : SUBSET Backends,
               down : SUBSET Backends, b : Backends \cup {None}]
    /\ streak \in [Backends -> 0..(Limit + 1)]
    /\ reported \subseteq Backends

(* One dead worker is reported once, however many sweeps find it dead and   *)
(* whatever probes fail between them; a recovery of it that fails is tried  *)
(* again a bounded number of times, and given up on once.  Only a row that  *)
(* was published after it had ceased to be true makes a second report.      *)
ToldOnce ==
    \A b \in Backends :
        /\ b \notin late => told[b] <= 1
        /\ tries[b] <= Limit /\ abandoned[b] <= 1

=============================================================================
