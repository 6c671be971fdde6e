---------------------------- MODULE HealthMonitor ----------------------------
(***************************************************************************)
(* BackendHealthMonitor (core/health.py): the thread that sweeps the open  *)
(* backends and rebuilds dropped connections, and how the service starts,  *)
(* stops and is asked about it (core/service.py).                          *)
(*                                                                         *)
(* A sweeping thread reads a backend, may sit in a reconnect for long, and *)
(* publishes its row only then; stop takes the lock twice, with a join     *)
(* between.  session_health runs the same check from another thread, the   *)
(* Asker, without the repairs.  Backends live and die as Sessions says;    *)
(* each has a session of its own here.                                     *)
(*                                                                         *)
(* A definition under "What if" is not part of the specification: it is    *)
(* the definition after it with a mistake the properties must catch.       *)
(***************************************************************************)
EXTENDS Naturals, FiniteSets

CONSTANTS Backends,
          Sweepers,    \* bound: monitor threads running at once
          Asker,       \* the thread that asks for session_health
          MaxSkip,     \* _MAX_SKIPPED_CHECKS
          MaxDrops,    \* bound: connections dropped
          MaxDeaths,   \* bound: workers that die, over all backends
          None

ASSUME MonitorAssumption ==
    /\ MaxSkip \in Nat \ {0} /\ MaxDrops \in Nat /\ MaxDeaths \in Nat
    /\ None \notin Backends \cup Sweepers \cup {Asker} /\ Asker \notin Sweepers

VARIABLES
    slot,      \* the registered runtime of each backend: its generation, or 0
    sess,      \* state of its session: open, failed or closed
    alive,     \* the worker of the runtime runs
    conn,      \* its connection is up
    rows,      \* _entries
    backoff,   \* _reconnect_backoff
    thread,    \* _thread
    previous,  \* _previous
    pending,   \* _restart_pending
    stop,      \* _stop
    sw,        \* the threads that sweep
    cl,        \* the thread that closes sessions
    others,    \* runtimes are registered whose health is not followed here
    drops, deaths,
    late,      \* history: backends whose row had ceased to be true when published
    raced      \* history: a start fell between the two sections of a stop

backendVars == <<slot, sess, alive, conn, others, drops, deaths>>
reportVars  == <<rows, backoff>>
threadVars  == <<thread, previous, pending, stop, raced>>
monitorVars == <<backendVars, reportVars, threadVars, sw, cl, late>>

-----------------------------------------------------------------------------
Generation == 0..(MaxDeaths + 1)

Registered(b) == slot[b] # 0

NoRow      == [up |-> FALSE, conn |-> FALSE, known |-> FALSE]
Reading(b) == [up |-> alive[b], conn |-> conn[b], known |-> TRUE]

NoDelay == [fails |-> 0, skip |-> 0]

(* _checks_to_skip: the first failure is retried at once, then every other *)
(* check, every fourth, and so on up to the cap.                           *)
ChecksToSkip(fails) ==
    IF fails <= 1 THEN 0
    ELSE LET skip == 2 ^ (fails - 1) - 1 IN IF skip < MaxSkip THEN skip ELSE MaxSkip

(* Failures past the one that reaches the cap change nothing *)
MoreFails(n) == IF ChecksToSkip(n) = MaxSkip THEN n ELSE n + 1

Quiet == [pc |-> "none", left |-> {}, b |-> None, gen |-> 0, row |-> NoRow]

(* is_alive: a thread that has taken its last look, and is about to end, *)
(* still is                                                              *)
Running(t) == sw[t].pc # "none"

CloserIdle == [pc |-> "idle", t |-> None]

-----------------------------------------------------------------------------
(* Starting and stopping *)

(* _launch_unlocked *)
LaunchUnlocked(t, threads) ==
    /\ threads[t].pc = "none" /\ t # cl.t
    /\ thread' = t
    /\ previous' = None
    /\ pending' = FALSE
    /\ stop' = FALSE
    /\ sw' = [threads EXCEPT ![t].pc = "loop"]
    /\ raced' = (raced \/ cl.pc \in {"join", "joined"})

(* start, called under the service lock when a runtime was registered *)
Start ==
    IF thread # None THEN UNCHANGED <<threadVars, sw>>
    ELSE IF previous # None /\ Running(previous)
         THEN pending' = TRUE /\ UNCHANGED <<thread, previous, stop, raced, sw>>
         ELSE \E t \in Sweepers : LaunchUnlocked(t, sw)

(* stop: the first section *)
StopFlag ==
    /\ cl.pc = "stop"
    /\ pending' = FALSE
    /\ stop' = TRUE
    /\ thread' = None
    /\ cl' = IF thread = None THEN CloserIdle ELSE [pc |-> "join", t |-> thread]
    /\ UNCHANGED <<backendVars, reportVars, previous, raced, sw, late>>

(* ... the join ends, or times out *)
StopJoin ==
    /\ cl.pc = "join"
    /\ cl' = [cl EXCEPT !.pc = "joined"]
    /\ UNCHANGED <<backendVars, reportVars, threadVars, sw, late>>

(* What if stop forgot a thread it gave up on? *)
StopForgets ==
    /\ cl.pc = "joined"
    /\ previous' = None
    /\ cl' = CloserIdle
    /\ UNCHANGED <<backendVars, reportVars, thread, pending, stop, raced, sw, late>>

(* ... and the second section remembers a thread that is still running *)
StopRemember ==
    /\ cl.pc = "joined"
    /\ previous' = IF Running(cl.t) THEN cl.t ELSE None
    /\ cl' = CloserIdle
    /\ UNCHANGED <<backendVars, reportVars, thread, pending, stop, raced, sw, late>>

-----------------------------------------------------------------------------
(* A sweep *)

Becomes(t, new) == sw' = [sw EXCEPT ![t] = new]

Sweeping == [Quiet EXCEPT !.pc = "next", !.left = {b \in Backends : Registered(b)}]

(* The loop of _run and the snapshot of check_once *)
Loop(t) ==
    /\ sw[t].pc = "loop"
    /\ Becomes(t, IF stop THEN [Quiet EXCEPT !.pc = "final"] ELSE Sweeping)
    /\ UNCHANGED <<backendVars, reportVars, threadVars, cl, late>>

(* What if a delay were only set, never counted down? *)
DelayForever(b) == backoff[b]

(* _reconnect_is_due counts down one check it sits out *)
Delay(b) == IF backoff[b].skip > 0 THEN [backoff[b] EXCEPT !.skip = @ - 1] ELSE backoff[b]

(* What if a sweep trusted the snapshot it took? *)
TrustSnapshot(b) == TRUE

(* is_current *)
IsCurrent(b) == Registered(b)

(* The reading of _check_backend, and whether it attempts a reconnect *)
Check(t, b) ==
    /\ sw[t].pc = "next" /\ b \in sw[t].left
    /\ LET broken == t # Asker /\ alive[b] /\ ~conn[b]
           now(pc) == [pc |-> pc, left |-> sw[t].left \ {b}, b |-> b,
                       gen |-> slot[b], row |-> Reading(b)] IN
       IF ~IsCurrent(b)
       THEN Becomes(t, [sw[t] EXCEPT !.left = @ \ {b}]) /\ UNCHANGED backoff
       ELSE IF broken
       THEN /\ backoff' = [backoff EXCEPT ![b] = Delay(b)]
            /\ Becomes(t, now(IF backoff[b].skip > 0 THEN "write" ELSE "reconnect"))
       ELSE /\ backoff' = IF conn[b] THEN [backoff EXCEPT ![b] = NoDelay] ELSE backoff
            /\ Becomes(t, now("write"))
    /\ UNCHANGED <<backendVars, rows, threadVars, cl, late>>

(* reconnect() returns; only a worker that lives can have been reached *)
Reconnect(t) ==
    LET b == sw[t].b IN
    /\ sw[t].pc = "reconnect"
    /\ \/ /\ slot[b] = sw[t].gen /\ alive[b]
          /\ conn' = [conn EXCEPT ![b] = TRUE]
          /\ backoff' = [backoff EXCEPT ![b] = NoDelay]
          /\ Becomes(t, [sw[t] EXCEPT !.pc = "write", !.row.conn = TRUE])
       \/ /\ backoff' = [backoff EXCEPT ![b] =
                 [fails |-> MoreFails(@.fails), skip |-> ChecksToSkip(@.fails + 1)]]
          /\ Becomes(t, [sw[t] EXCEPT !.pc = "write"])
          /\ UNCHANGED conn
    /\ UNCHANGED <<slot, sess, alive, others, drops, deaths, rows, threadVars, cl, late>>

(* A row read from a runtime that was registered then, and is not now, or *)
(* whose worker has died since                                            *)
Overtaken(t) ==
    LET b == sw[t].b IN
    sw[t].gen # 0 /\ (slot[b] # sw[t].gen \/ sw[t].row.up # alive[b])

(* The row is published *)
Write(t) ==
    LET b == sw[t].b IN
    /\ sw[t].pc = "write"
    /\ rows' = [rows EXCEPT ![b] = sw[t].row]
    /\ late' = IF Overtaken(t) THEN late \cup {b} ELSE late
    /\ Becomes(t, [Quiet EXCEPT !.pc = "next", !.left = sw[t].left])
    /\ UNCHANGED <<backendVars, backoff, threadVars, cl>>

(* The wait ends, with the interval or the stop flag *)
Waited(t) ==
    /\ sw[t].pc = "next" /\ sw[t].left = {} /\ t # Asker
    /\ Becomes(t, [Quiet EXCEPT !.pc = "loop"])
    /\ UNCHANGED <<backendVars, reportVars, threadVars, cl, late>>

(* What if only start could launch a thread? *)
JustEnd(t) ==
    /\ sw[t].pc = "final"
    /\ Becomes(t, [Quiet EXCEPT !.pc = "ending"])
    /\ UNCHANGED <<backendVars, reportVars, threadVars, cl, late>>

(* The finally of _run, the last look: was there a start that found this *)
(* thread still running?                                                 *)
Final(t) ==
    /\ sw[t].pc = "final"
    /\ LET looked == [sw EXCEPT ![t] = [Quiet EXCEPT !.pc = "ending"]] IN
       IF pending /\ thread = None
       THEN \E u \in Sweepers : LaunchUnlocked(u, looked)
       ELSE sw' = looked /\ UNCHANGED threadVars
    /\ UNCHANGED <<backendVars, reportVars, cl, late>>

(* The lock is released, and only then does the thread end *)
Ends(t) ==
    /\ sw[t].pc = "ending"
    /\ Becomes(t, Quiet)
    /\ UNCHANGED <<backendVars, reportVars, threadVars, cl, late>>

Sweep(t) ==
    Loop(t) \/ (\E b \in Backends : Check(t, b)) \/ Reconnect(t) \/ Write(t)
    \/ Waited(t) \/ Final(t) \/ Ends(t)

-----------------------------------------------------------------------------
(* The service *)

(* forget, after a runtime was taken out of its slot *)
Forget(b) ==
    /\ rows' = [rows EXCEPT ![b] = NoRow]
    /\ backoff' = [backoff EXCEPT ![b] = NoDelay]

TakeOut(b) ==
    /\ slot' = [slot EXCEPT ![b] = 0]
    /\ Forget(b)
    /\ UNCHANGED <<alive, conn, others, drops, deaths, late>>

(* _open_backend registers a runtime and starts the monitor *)
OpenBackend(b) ==
    /\ ~Registered(b) /\ sess[b] = "open"
    /\ slot' = [slot EXCEPT ![b] = deaths + 1]
    /\ alive' = [alive EXCEPT ![b] = TRUE]
    /\ conn' = [conn EXCEPT ![b] = TRUE]
    /\ Start
    /\ UNCHANGED <<sess, others, drops, deaths, reportVars, cl, late>>

OpenOther ==
    /\ ~others /\ others' = TRUE
    /\ Start
    /\ UNCHANGED <<slot, sess, alive, conn, drops, deaths, reportVars, cl, late>>

(* _close_session ... *)
CloseSession(b) ==
    /\ cl.pc = "idle" /\ sess[b] # "closed"
    /\ sess' = [sess EXCEPT ![b] = "closed"]
    /\ TakeOut(b)
    /\ cl' = [cl EXCEPT !.pc = "look"]
    /\ UNCHANGED <<threadVars, sw>>

CloseOthers ==
    /\ cl.pc = "idle" /\ others /\ others' = FALSE
    /\ cl' = [cl EXCEPT !.pc = "look"]
    /\ UNCHANGED <<slot, sess, alive, conn, drops, deaths, reportVars, threadVars, sw, late>>

(* ... and stops the monitor if it sees no runtime left *)
CloseLooks ==
    /\ cl.pc = "look"
    /\ cl' = [cl EXCEPT !.pc = IF others \/ \E b \in Backends : Registered(b)
                             THEN "idle" ELSE "stop"]
    /\ UNCHANGED <<backendVars, reportVars, threadVars, sw, late>>

Closer ==
    (\E b \in Backends : CloseSession(b)) \/ CloseOthers \/ CloseLooks
    \/ StopFlag \/ StopJoin \/ StopRemember

(* _fail_runtime: a call finds the worker dead *)
FailRuntime(b) ==
    /\ Registered(b) /\ ~alive[b]
    /\ sess' = [sess EXCEPT ![b] = "failed"]
    /\ TakeOut(b)
    /\ UNCHANGED <<threadVars, sw, cl>>

(* The world *)
Die(b) ==
    /\ Registered(b) /\ alive[b] /\ deaths < MaxDeaths
    /\ alive' = [alive EXCEPT ![b] = FALSE]
    /\ conn' = [conn EXCEPT ![b] = FALSE]
    /\ deaths' = deaths + 1
    /\ UNCHANGED <<slot, sess, others, drops, reportVars, threadVars, sw, cl, late>>

LoseConnection(b) ==
    /\ Registered(b) /\ alive[b] /\ conn[b] /\ drops < MaxDrops
    /\ conn' = [conn EXCEPT ![b] = FALSE]
    /\ drops' = drops + 1
    /\ UNCHANGED <<slot, sess, alive, others, deaths, reportVars, threadVars, sw, cl, late>>

MonitorInit ==
    /\ slot = [b \in Backends |-> 0]
    /\ sess = [b \in Backends |-> "open"]
    /\ alive = [b \in Backends |-> FALSE]
    /\ conn = [b \in Backends |-> FALSE]
    /\ rows = [b \in Backends |-> NoRow]
    /\ backoff = [b \in Backends |-> NoDelay]
    /\ thread = None /\ previous = None /\ pending = FALSE /\ stop = FALSE
    /\ sw = [t \in Sweepers \cup {Asker} |-> Quiet]
    /\ cl = CloserIdle
    /\ others = FALSE /\ drops = 0 /\ deaths = 0 /\ late = {} /\ raced = FALSE

MonitorNext ==
    \/ \E t \in Sweepers : Sweep(t)
    \/ Closer
    \/ \E b \in Backends : FailRuntime(b) \/ Die(b) \/ LoseConnection(b)

-----------------------------------------------------------------------------
(* Properties *)

Row == [up : BOOLEAN, conn : BOOLEAN, known : BOOLEAN]

MonitorTypeOK ==
    /\ slot \in [Backends -> Generation]
    /\ sess \in [Backends -> {"open", "failed", "closed"}]
    /\ alive \in [Backends -> BOOLEAN] /\ conn \in [Backends -> BOOLEAN]
    /\ rows \in [Backends -> Row]
    /\ backoff \in [Backends -> [fails : 0..(MaxSkip + 1), skip : 0..MaxSkip]]
    /\ thread \in Sweepers \cup {None} /\ previous \in Sweepers \cup {None}
    /\ pending \in BOOLEAN /\ stop \in BOOLEAN /\ raced \in BOOLEAN
    /\ sw \in [Sweepers \cup {Asker} ->
                 [pc : {"none", "loop", "next", "reconnect", "write", "final", "ending"},
                  left : SUBSET Backends, b : Backends \cup {None},
                  gen : Generation, row : Row]]
    /\ cl \in [pc : {"idle", "look", "stop", "join", "joined"}, t : Sweepers \cup {None}]
    /\ late \subseteq Backends
    /\ others \in BOOLEAN /\ drops \in 0..MaxDrops /\ deaths \in 0..MaxDeaths

MaySweep(t) == sw[t].pc \notin {"none", "ending"}

(* At most one thread will ever sweep again, and every other one is on its  *)
(* way out: a start does not un-cancel a thread that stop gave up on.       *)
OneSweeper == ~raced => Cardinality({t \in Sweepers : MaySweep(t)}) <= 1

(* The report has no row of a session that is closed or failed, unless it   *)
(* was read before that and published after.                                *)
NoRowOfClosed == \A b \in Backends : sess[b] # "open" /\ rows[b].known => b \in late

(* A start that found the old thread winding down is honoured (start, the   *)
(* finally of _run), if the thread had its last look still to come: the     *)
(* code loses a start that falls between that look and the thread's end.    *)
RestartHonoured ==
    pending /\ ~raced /\ (\E t \in Sweepers : t = previous /\ MaySweep(t))
        ~> ~pending \/ raced

(* A connection that dropped is tried again, however often that failed, for *)
(* as long as the worker lives, the session is open and the monitor runs.   *)
TriedAgain ==
    \A b \in Backends :
        Registered(b) /\ alive[b] /\ ~conn[b] /\ thread # None
            ~> conn[b] \/ ~alive[b] \/ ~Registered(b) \/ thread = None
               \/ \E t \in Sweepers : sw[t].pc = "reconnect" /\ sw[t].b = b
=============================================================================
