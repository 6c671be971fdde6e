----------------------------- MODULE Supervisor -----------------------------
(***************************************************************************)
(* `supervise`: one process that keeps one child running, restarts it when *)
(* it crashes or stops answering, and takes it down when it ends itself.   *)
(*                                                                         *)
(* A child starts workers of its own (debuggers, IDA).  On Windows the     *)
(* supervisor puts the child, and the child its workers, into a job that   *)
(* the kernel kills with its owner; either may be refused.  A process      *)
(* started by one in a job is in that job too.                             *)
(*                                                                         *)
(* Times are not modelled: a child lives as long as it likes, and whether  *)
(* that was longer than HEALTHY_UPTIME_S is free, except that a probe is   *)
(* only made when the grace period is over.                                *)
(***************************************************************************)
EXTENDS Integers, FiniteSets

CONSTANTS
    MaxSpawns,      \* bound: children that start
    RapidLimit,     \* MAX_RAPID_RESTARTS
    RestartLimit,   \* max_restarts
    StrikeLimit,    \* unhealthy_strikes
    SupProbes       \* a ready_url is given

VARIABLES
    sup,      \* where the supervisor is: pc, the local `child`, _running, and
              \* the counters strikes, rapid and restarts
    spawned,  \* children that started
    proc,     \* state of each child
    work,     \* state of each child's workers
    tied,     \* children in the job of the supervisor
    ready,    \* whether the current child would answer a probe with 2xx
    graced,   \* its grace period is over
    ended     \* how the supervisor ended

vars == <<sup, spawned, proc, work, tied, ready, graced, ended>>

Kids   == 1..MaxSpawns
NoKid  == 0

\* How a child can end by itself; "refused" is an exit code of refusal_exit_codes
OwnEnds == {"crashed", "refused", "clean"}

Endings == {"child_exited_cleanly", "child_refused_to_start", "crash_loop", "restart_limit"}

TypeOK ==
    /\ sup.pc \in {"spawn", "placed", "grouped", "watch", "judge", "sleep", "over"}
    /\ sup.child \in Kids \cup {NoKid} /\ sup.running \in Kids \cup {NoKid}
    /\ sup.strikes \in 0..StrikeLimit /\ sup.rapid \in 0..RapidLimit
    /\ sup.restarts \in 0..RestartLimit
    /\ spawned \in 0..MaxSpawns
    /\ proc \in [Kids -> {"none", "up", "killed"} \cup OwnEnds]
    /\ work \in [Kids -> {"none", "loose", "tied"}]
    /\ tied \subseteq Kids
    /\ ended \in {"no", "interrupted", "killed"} \cup Endings

Init ==
    /\ sup = [pc |-> "spawn", child |-> NoKid, running |-> NoKid, reason |-> "none",
              strikes |-> 0, rapid |-> 0, restarts |-> 0]
    /\ spawned = 0
    /\ proc = [k \in Kids |-> "none"]
    /\ work = [k \in Kids |-> "none"]
    /\ tied = {} /\ ready = FALSE /\ graced = FALSE
    /\ ended = "no"

Up(k) == k # NoKid /\ proc[k] = "up"

-----------------------------------------------------------------------------
(* What a death takes with it *)

\* proc after child k ends in a way, and the workers then left
Dies(k, how) ==
    /\ proc' = [proc EXCEPT ![k] = how]
    /\ work' = [work EXCEPT ![k] = IF @ = "tied" THEN "none" ELSE @]

\* What if only the process that was spawned were terminated?
TakeDownAlone(k) == Dies(k, "killed")

\* _terminate: the process and everything it started
TakeDown(k) ==
    /\ proc' = [proc EXCEPT ![k] = "killed"]
    /\ work' = [work EXCEPT ![k] = "none"]

\* The supervisor's process ends: its job goes with it
Ends(how) ==
    /\ ended' = how
    /\ sup' = [sup EXCEPT !.pc = "over"]
    /\ UNCHANGED <<spawned, tied, ready, graced>>

JobCloses(p, w) ==
    /\ proc' = [k \in Kids |-> IF k \in tied /\ p[k] = "up" THEN "killed" ELSE p[k]]
    /\ work' = [k \in Kids |-> IF \/ k \in tied
                                  \/ w[k] = "tied" /\ proc'[k] # "up"
                               THEN "none" ELSE w[k]]

\* The `finally` of run_forever knows the child through _running only
LastChild == IF Up(sup.running) THEN {sup.running} ELSE {}

Finally ==
    JobCloses([k \in Kids |-> IF k \in LastChild THEN "killed" ELSE proc[k]],
              [k \in Kids |-> IF k \in LastChild THEN "none" ELSE work[k]])

-----------------------------------------------------------------------------
(* The supervisor *)

Spawn ==
    /\ sup.pc = "spawn"
    /\ UNCHANGED <<work, tied, graced, ended>>
    /\ \/ /\ spawned < MaxSpawns
          /\ spawned' = spawned + 1
          /\ proc' = [proc EXCEPT ![spawned + 1] = "up"]
          /\ ready' = FALSE
          /\ sup' = [sup EXCEPT !.pc = "placed", !.child = spawned + 1]
       \/ /\ sup' = [sup EXCEPT !.pc = "judge", !.child = NoKid, !.running = NoKid,
                                !.reason = "spawn_failed"]
          /\ UNCHANGED <<spawned, proc, ready>>

Group ==
    /\ sup.pc = "placed"
    /\ \/ tied' = tied \cup {sup.child}
       \/ UNCHANGED tied
    /\ sup' = [sup EXCEPT !.pc = "grouped"]
    /\ UNCHANGED <<spawned, proc, work, ready, graced, ended>>

Remember ==
    /\ sup.pc = "grouped"
    /\ sup' = [sup EXCEPT !.pc = "watch", !.running = sup.child, !.strikes = 0]
    /\ graced' = FALSE
    /\ UNCHANGED <<spawned, proc, work, tied, ready, ended>>

\* What if the strikes were counted per probe?
StruckOnce == 1

\* Consecutive probes that failed, this one included
Struck == sup.strikes + 1

Watch ==
    /\ sup.pc = "watch"
    /\ UNCHANGED <<spawned, proc, work, tied, ready, graced, ended>>
    /\ \/ /\ ~Up(sup.child)
          /\ sup' = [sup EXCEPT !.pc = "judge",
                       !.reason = IF proc[sup.child] = "clean" THEN "stopped" ELSE "crashed"]
       \/ /\ Up(sup.child) /\ SupProbes /\ graced /\ ready
          /\ sup' = [sup EXCEPT !.strikes = 0]
       \/ /\ Up(sup.child) /\ SupProbes /\ graced /\ ~ready
          /\ sup' = IF Struck >= StrikeLimit
                    THEN [sup EXCEPT !.pc = "judge", !.reason = "unhealthy", !.strikes = 0]
                    ELSE [sup EXCEPT !.strikes = Struck]

\* What follows an ended or unhealthy child.  The exit code is read again, so
\* a child that refused while it was being found unhealthy is not restarted.
Restarts(short) ==
    LET rapid    == IF short THEN sup.rapid + 1 ELSE 0
        restarts == sup.restarts + 1
    IN  IF rapid >= RapidLimit THEN ended' = "crash_loop" /\ sup' = [sup EXCEPT !.pc = "over"]
        ELSE IF restarts >= RestartLimit
        THEN ended' = "restart_limit" /\ sup' = [sup EXCEPT !.pc = "over"]
        ELSE /\ sup' = [sup EXCEPT !.pc = "sleep", !.rapid = rapid, !.restarts = restarts]
             /\ UNCHANGED ended

Judge ==
    /\ sup.pc = "judge"
    /\ UNCHANGED <<spawned, tied, ready, graced>>
    /\ LET code == IF sup.child = NoKid THEN "none" ELSE proc[sup.child] IN
       \/ /\ sup.reason = "stopped"
          /\ ended' = "child_exited_cleanly" /\ sup' = [sup EXCEPT !.pc = "over"]
          /\ Finally
       \/ /\ sup.reason # "stopped" /\ code = "refused"
          /\ ended' = "child_refused_to_start" /\ sup' = [sup EXCEPT !.pc = "over"]
          /\ Finally
       \/ /\ sup.reason = "unhealthy" /\ code # "refused"
          /\ Restarts(FALSE)
          /\ IF ended' = "no" THEN TakeDown(sup.child)
             ELSE JobCloses([proc EXCEPT ![sup.child] = "killed"],
                            [work EXCEPT ![sup.child] = "none"])
       \/ /\ sup.reason \in {"crashed", "spawn_failed"} /\ code # "refused"
          /\ \E short \in IF sup.reason = "crashed" THEN BOOLEAN ELSE {TRUE} : Restarts(short)
          /\ IF ended' = "no" THEN UNCHANGED <<proc, work>> ELSE Finally

Slept ==
    /\ sup.pc = "sleep"
    /\ sup' = [sup EXCEPT !.pc = "spawn"]
    /\ UNCHANGED <<spawned, proc, work, tied, ready, graced, ended>>

\* Ctrl-C, anywhere
Interrupt ==
    /\ ended = "no"
    /\ Ends("interrupted")
    /\ Finally

\* TerminateProcess on the supervisor: nothing of it runs any more
Killed ==
    /\ ended = "no"
    /\ Ends("killed")
    /\ JobCloses(proc, work)

-----------------------------------------------------------------------------
(* The child *)

ChildEnds(k, how) ==
    /\ Up(k)
    /\ Dies(k, how)
    /\ UNCHANGED <<sup, spawned, tied, ready, graced, ended>>

ChildWorks(k) ==
    /\ Up(k) /\ work[k] = "none"
    /\ \E w \in {"loose", "tied"} : work' = [work EXCEPT ![k] = w]
    /\ UNCHANGED <<sup, spawned, proc, tied, ready, graced, ended>>

ReadyChanges ==
    /\ Up(sup.child)
    /\ ready' = ~ready
    /\ UNCHANGED <<sup, spawned, proc, work, tied, graced, ended>>

GraceEnds ==
    /\ sup.pc = "watch" /\ ~graced
    /\ graced' = TRUE
    /\ UNCHANGED <<sup, spawned, proc, work, tied, ready, ended>>

-----------------------------------------------------------------------------

Supervise == Spawn \/ Group \/ Remember \/ Watch \/ Judge \/ Slept

Next ==
    \/ Supervise \/ GraceEnds
    \/ Interrupt \/ Killed \/ ReadyChanges
    \/ \E k \in Kids : ChildWorks(k) \/ \E how \in OwnEnds : ChildEnds(k, how)

\* The loop is one thread whose every wait is bounded
Fairness == WF_vars(Supervise) /\ WF_vars(GraceEnds)

Spec == Init /\ [][Next]_vars /\ Fairness

-----------------------------------------------------------------------------
(* Properties *)

(* Two children never serve at once; a child the supervisor took down left  *)
(* no worker behind; and when the supervisor has ended, what still runs is  *)
(* what no job held, and only because nobody could act: the supervisor was  *)
(* killed, the child ended by itself, or an interrupt fell between its      *)
(* start and the line that remembers it (supervisor.py:188, :197, :352).    *)
NothingLeft ==
    /\ \A j, k \in Kids : Up(j) /\ Up(k) => j = k
    /\ \A k \in Kids : proc[k] = "killed" => work[k] = "none"
    /\ ended # "no" =>
         /\ \A k \in tied : ~Up(k) /\ work[k] = "none"
         /\ \A k \in Kids : Up(k) => ended = "killed" \/ k # sup.running

(* A child that stops answering for good is replaced, however it stops, and *)
(* one that has ended is followed by another or by the end of the           *)
(* supervisor (supervisor.py:311).                                          *)
Unserved(k) == ended = "no" /\ SupProbes /\ sup.child = k /\ ~(Up(k) /\ ready)

WedgedIsReplaced == []<>~(\E k \in Kids : Unserved(k))
=============================================================================
