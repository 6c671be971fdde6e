--------------------------- MODULE WatchdogProofs ---------------------------
(***************************************************************************)
(* Proofs about Watchdog and the HealthMonitor it extends, for any         *)
(* backends, any number of sweeping threads and any bounds: at most one    *)
(* thread sweeps, no row of a closed session stays in the report, and one  *)
(* outage is told of once.  At the end, the two systems of a debugger that *)
(* the run MCWatchdog explores beside it: RunsAsTold, of its instances.    *)
(***************************************************************************)
EXTENDS MCWatchdog, FiniteSetTheorems, TLAPS

-----------------------------------------------------------------------------
(***************************************************************************)
(* The inductive invariant of Watchdog over HealthMonitor, in three parts. *)
(* SweeperInv accounts for every thread that may sweep by the name the     *)
(* monitor has for it.  ReportInv says that a reading belongs to a runtime that    *)
(* was registered, which makes the publishing of an overtaken one late.    *)
(* AlertInv ties the counters of alerts to the streaks they are told by.   *)
(***************************************************************************)

(* Typing, but for the numbers in backoff, which none of the properties    *)
(* below reads *)
SweepState == [pc : {"none", "loop", "next", "reconnect", "write", "final", "ending"},
               left : SUBSET Backends, b : Backends \cup {None},
               gen : Nat, row : Row]

MonitorTyped ==
    /\ slot \in [Backends -> Nat]
    /\ sess \in [Backends -> {"open", "failed", "closed"}]
    /\ alive \in [Backends -> BOOLEAN] /\ conn \in [Backends -> BOOLEAN]
    /\ rows \in [Backends -> Row]
    /\ thread \in Sweepers \cup {None} /\ previous \in Sweepers \cup {None}
    /\ raced \in BOOLEAN
    /\ sw \in [Sweepers \cup {Asker} -> SweepState]
    /\ cl \in [pc : {"idle", "look", "stop", "join", "joined"},
               t : Sweepers \cup {None}]
    /\ late \subseteq Backends
    /\ deaths \in Nat

WatchTyped ==
    /\ policy \in Policies
    /\ wd \in [pc : {"idle", "asked", "handle", "recover"}, dead : SUBSET Backends,
               down : SUBSET Backends, b : Backends \cup {None}]
    /\ wd.pc = "recover" => wd.b \in Backends
    /\ streak \in [Backends -> 0..(Limit + 1)]
    /\ told \in [Backends -> Nat] /\ abandoned \in [Backends -> Nat]
    /\ tries \in [Backends -> Nat]

(* Every thread that may sweep is the monitor's, the one stop gave up on,  *)
(* or the one being joined, and there is only one of the three - unless a     *)
(* start fell between the two sections of stop.                            *)
SweeperInv ==
    /\ cl.t # None <=> cl.pc \in {"join", "joined"}
    /\ ~raced =>
          /\ thread # None => previous = None /\ cl.t = None
          /\ cl.t # None => previous = None
          /\ \A t \in Sweepers : MaySweep(t) => t \in {thread, previous, cl.t}

(* Thread t has a reading of backend b in hand. *)
Reads(t, b) == sw[t].pc \in {"reconnect", "write"} /\ sw[t].b = b

(* A reading is of a runtime that was registered; a session that is not    *)
(* open has none, and no row, unless one was published late.               *)
ReportInv ==
    /\ \A t \in Sweepers \cup {Asker} : sw[t].pc \in {"reconnect", "write"} =>
          sw[t].gen # 0 /\ sw[t].b \in Backends /\ sw[t].row.known
    /\ \A b \in Backends : sess[b] # "open" => ~Registered(b)
    /\ NoRowOfClosed

DeadRow(b) == rows[b].known /\ ~rows[b].up

(* The counters of attempts and alerts keep to the streak. *)
Counted(b) ==
    /\ told[b] > 0 => policy = "report"
    /\ tries[b] <= Limit /\ tries[b] <= streak[b]
    /\ abandoned[b] <= 1
    /\ abandoned[b] = 1 => streak[b] > Limit

(* Without recovery a runtime is registered once: nothing was read of a    *)
(* backend that waits for its first.                                       *)
Unread(b) ==
    sess[b] = "open" /\ ~Registered(b) =>
        ~rows[b].known /\ \A t \in Sweepers \cup {Asker} : ~Reads(t, b)

(* So a backend whose row says dead is dead, one that is to be handled or  *)
(* was told of has such a row until its session ends, and its streak goes  *)
(* on as long.                                                             *)
Alerted(b) ==
    b \notin late =>
        /\ sess[b] = "open" /\ DeadRow(b) => ~alive[b]
        /\ sess[b] = "open" /\ (told[b] > 0 \/ b \in wd.dead) => DeadRow(b)
        /\ told[b] > 0 => /\ told[b] = 1
                          /\ streak[b] > 0 \/ (sess[b] # "open" /\ b \notin wd.dead)

AlertInv ==
    /\ wd.pc = "recover" => policy = "recover" /\ streak[wd.b] <= Limit
    /\ \A b \in Backends : Counted(b)
    /\ policy = "report" => \A b \in Backends : Unread(b) /\ Alerted(b)

IInv == MonitorTyped /\ WatchTyped /\ SweeperInv /\ ReportInv /\ AlertInv

-----------------------------------------------------------------------------
(* Typing *)

LEMMA StateTypes ==
    /\ NoRow \in Row /\ Quiet \in SweepState
    /\ CloserIdle \in [pc : {"idle", "look", "stop", "join", "joined"},
                       t : Sweepers \cup {None}]
    /\ Sweeping \in SweepState
  BY DEF NoRow, Row, Quiet, SweepState, CloserIdle, Sweeping

(* Replacing the state of one thread by a well-typed one *)
LEMMA BecomesType ==
    ASSUME sw \in [Sweepers \cup {Asker} -> SweepState],
           NEW t \in Sweepers \cup {Asker}, NEW new \in SweepState, Becomes(t, new)
    PROVE  sw' \in [Sweepers \cup {Asker} -> SweepState]
  BY DEF Becomes

(* The variables of the monitor after a start *)
StartTyped ==
    /\ thread' \in Sweepers \cup {None} /\ previous' \in Sweepers \cup {None}
    /\ raced' \in BOOLEAN /\ sw' \in [Sweepers \cup {Asker} -> SweepState]

LEMMA LaunchType ==
    ASSUME MonitorTyped, NEW t \in Sweepers,
           NEW threads \in [Sweepers \cup {Asker} -> SweepState],
           LaunchUnlocked(t, threads)
    PROVE  StartTyped
  <1>1. [threads[t] EXCEPT !.pc = "loop"] \in SweepState
    BY DEF SweepState
  <1>2. sw' = [threads EXCEPT ![t] = [threads[t] EXCEPT !.pc = "loop"]]
    BY DEF LaunchUnlocked
  <1> QED
    BY <1>1, <1>2 DEF LaunchUnlocked, StartTyped, MonitorTyped

LEMMA StartType ==
    ASSUME MonitorTyped, Start
    PROVE  StartTyped
  <1>1. CASE \E t \in Sweepers : LaunchUnlocked(t, sw)
    BY <1>1, LaunchType DEF MonitorTyped
  <1> QED
    BY <1>1 DEF Start, StartTyped, MonitorTyped, threadVars

LEMMA SweepType ==
    ASSUME MonitorTyped, NEW t \in Sweepers \cup {Asker},
           \/ Sweep(t) /\ t \in Sweepers
           \/ \E b \in Backends : Check(t, b)
           \/ Write(t)
    PROVE  MonitorTyped'
  <1> USE DEF backendVars, reportVars, threadVars
  <1>s. sw[t] \in SweepState /\ sw \in [Sweepers \cup {Asker} -> SweepState]
    BY DEF MonitorTyped
  <1>1. CASE Loop(t)
    <2>1. [Quiet EXCEPT !.pc = "final"] \in SweepState
      BY DEF Quiet, SweepState, NoRow, Row
    <2>2. sw' \in [Sweepers \cup {Asker} -> SweepState]
      BY <1>1, <1>s, <2>1, StateTypes, BecomesType DEF Loop
    <2> QED
      BY <1>1, <2>2 DEF Loop, MonitorTyped
  <1>2. ASSUME NEW b \in Backends, Check(t, b)
        PROVE  MonitorTyped'
    <2> DEFINE now(p) == [pc |-> p, left |-> sw[t].left \ {b}, b |-> b,
                          gen |-> slot[b], row |-> Reading(b)]
    <2>1. /\ now("write") \in SweepState /\ now("reconnect") \in SweepState
          /\ [sw[t] EXCEPT !.left = @ \ {b}] \in SweepState
      BY <1>s DEF SweepState, Reading, Row, MonitorTyped
    <2>2. \/ Becomes(t, now("write")) \/ Becomes(t, now("reconnect"))
          \/ Becomes(t, [sw[t] EXCEPT !.left = @ \ {b}])
      BY <1>2 DEF Check
    <2>3. sw' \in [Sweepers \cup {Asker} -> SweepState]
      BY <1>s, <2>1, <2>2, BecomesType
    <2> QED
      BY <1>2, <2>3 DEF Check, MonitorTyped
  <1>3. CASE Reconnect(t)
    <2>1. /\ [sw[t] EXCEPT !.pc = "write", !.row.conn = TRUE] \in SweepState
          /\ [sw[t] EXCEPT !.pc = "write"] \in SweepState
      BY <1>s DEF SweepState, Row
    <2>2. sw' \in [Sweepers \cup {Asker} -> SweepState]
      BY <1>3, <1>s, <2>1, BecomesType DEF Reconnect
    <2>3. conn' \in [Backends -> BOOLEAN]
      BY <1>3 DEF Reconnect, MonitorTyped
    <2> QED
      BY <1>3, <2>2, <2>3 DEF Reconnect, MonitorTyped
  <1>4. CASE Write(t)
    <2>1. [Quiet EXCEPT !.pc = "next", !.left = sw[t].left] \in SweepState
      BY <1>s DEF Quiet, SweepState, NoRow, Row
    <2>2. sw' \in [Sweepers \cup {Asker} -> SweepState]
      BY <1>4, <1>s, <2>1, BecomesType DEF Write
    <2>3. rows' \in [Backends -> Row]
      BY <1>4, <1>s DEF Write, MonitorTyped, SweepState
    <2> QED
      BY <1>4, <2>2, <2>3 DEF Write, MonitorTyped
  <1>5. CASE Waited(t)
    <2>1. [Quiet EXCEPT !.pc = "loop"] \in SweepState
      BY DEF Quiet, SweepState, NoRow, Row
    <2>2. sw' \in [Sweepers \cup {Asker} -> SweepState]
      BY <1>5, <1>s, <2>1, BecomesType DEF Waited
    <2> QED
      BY <1>5, <2>2 DEF Waited, MonitorTyped
  <1>6. CASE Final(t)
    <2> DEFINE ended == [sw EXCEPT ![t] = [Quiet EXCEPT !.pc = "ending"]]
    <2>1. ended \in [Sweepers \cup {Asker} -> SweepState]
      <3>1. [Quiet EXCEPT !.pc = "ending"] \in SweepState
        BY DEF Quiet, SweepState, NoRow, Row
      <3> QED
        BY <1>s, <3>1
    <2>2. StartTyped
      <3>1. \/ \E u \in Sweepers : LaunchUnlocked(u, ended)
            \/ sw' = ended /\ UNCHANGED threadVars
        BY <1>6 DEF Final
      <3> HIDE DEF ended
      <3> QED
        BY <2>1, <3>1, LaunchType DEF StartTyped, MonitorTyped
    <2> QED
      BY <1>6, <2>2 DEF Final, MonitorTyped, StartTyped
  <1>7. CASE Ends(t)
    <2>1. sw' \in [Sweepers \cup {Asker} -> SweepState]
      BY <1>7, <1>s, StateTypes, BecomesType DEF Ends
    <2> QED
      BY <1>7, <2>1 DEF Ends, MonitorTyped
  <1> QED
    BY <1>1, <1>2, <1>3, <1>4, <1>5, <1>6, <1>7 DEF Sweep

(* Taking a runtime out of its slot *)
LEMMA TakeOutType ==
    ASSUME MonitorTyped, NEW b \in Backends, TakeOut(b)
    PROVE  /\ slot' \in [Backends -> Nat] /\ rows' \in [Backends -> Row]
           /\ UNCHANGED <<alive, conn, others, drops, deaths, late>>
  BY StateTypes DEF TakeOut, Forget, MonitorTyped

LEMMA CloserType ==
    ASSUME MonitorTyped, Closer
    PROVE  MonitorTyped'
  <1> USE DEF backendVars, reportVars, threadVars
  <1>1. ASSUME NEW b \in Backends, CloseSession(b)
        PROVE  MonitorTyped'
    BY <1>1, TakeOutType DEF CloseSession, MonitorTyped
  <1>2. CASE CloseOthers
    BY <1>2 DEF CloseOthers, MonitorTyped
  <1>3. CASE CloseLooks
    BY <1>3 DEF CloseLooks, MonitorTyped
  <1>4. CASE StopFlag
    BY <1>4 DEF StopFlag, MonitorTyped, CloserIdle
  <1>5. CASE StopJoin
    BY <1>5 DEF StopJoin, MonitorTyped
  <1>6. CASE StopRemember
    BY <1>6 DEF StopRemember, MonitorTyped, CloserIdle
  <1> QED
    BY <1>1, <1>2, <1>3, <1>4, <1>5, <1>6 DEF Closer

LEMMA OpenType ==
    ASSUME MonitorTyped, OpenOther \/ \E b \in Backends : OpenBackend(b)
    PROVE  MonitorTyped'
  <1>1. CASE OpenOther
    BY <1>1, StartType DEF OpenOther, StartTyped, MonitorTyped, reportVars
  <1>2. ASSUME NEW b \in Backends, OpenBackend(b)
        PROVE  MonitorTyped'
    BY <1>2, StartType DEF OpenBackend, StartTyped, MonitorTyped, reportVars
  <1> QED
    BY <1>1, <1>2

LEMMA WorldType ==
    ASSUME MonitorTyped, NEW b \in Backends,
           FailRuntime(b) \/ Die(b) \/ LoseConnection(b)
    PROVE  MonitorTyped'
  <1> USE DEF backendVars, reportVars, threadVars
  <1>1. CASE FailRuntime(b)
    BY <1>1, TakeOutType DEF FailRuntime, MonitorTyped
  <1>2. CASE Die(b)
    BY <1>2 DEF Die, MonitorTyped
  <1>3. CASE LoseConnection(b)
    BY <1>3 DEF LoseConnection, MonitorTyped
  <1> QED
    BY <1>1, <1>2, <1>3

(* The steps of the watchdog, as the monitor sees them *)
LEMMA WatchdogMonitorType ==
    ASSUME MonitorTyped, WatchTyped, WatchdogStep
    PROVE  MonitorTyped'
  <1> USE DEF backendVars, reportVars, threadVars
  <1>s. sw \in [Sweepers \cup {Asker} -> SweepState]
    BY DEF MonitorTyped
  <1>1. CASE Ask
    <2>1. sw' \in [Sweepers \cup {Asker} -> SweepState]
      BY <1>1, <1>s, StateTypes, BecomesType DEF Ask
    <2> QED
      BY <1>1, <2>1 DEF Ask, MonitorTyped
  <1>2. CASE AskStep
    BY <1>2, SweepType DEF AskStep
  <1>3. CASE HealthUnavailable \/ ReadRows
    <2>1. sw' \in [Sweepers \cup {Asker} -> SweepState]
      BY <1>3, <1>s, StateTypes, BecomesType DEF HealthUnavailable, ReadRows
    <2> QED
      BY <1>3, <2>1 DEF HealthUnavailable, ReadRows, MonitorTyped
  <1>4. ASSUME \/ EndSweep
               \/ \E b \in Backends : Report(b) \/ Abandon(b) \/ Try(b)
        PROVE  UNCHANGED monitorVars
    BY <1>4 DEF EndSweep, Report, Abandon, Try
  <1>5. CASE UNCHANGED monitorVars
    BY <1>5 DEF monitorVars, MonitorTyped
  <1> DEFINE b == wd.b
  <1>b. wd.pc = "recover" => b \in Backends
    BY DEF WatchTyped
  <1>6. CASE RecoverEnded
    <2>0. b \in Backends
      BY <1>6, <1>b DEF RecoverEnded
    <2>1. CASE UNCHANGED monitorVars
      BY <1>5, <2>1
    <2>2. CASE TakeOut(b) /\ sess' = [sess EXCEPT ![b] = "closed"]
               /\ UNCHANGED <<threadVars, sw, cl>>
      BY <2>0, <2>2, TakeOutType DEF MonitorTyped
    <2> QED
      BY <1>6, <2>1, <2>2 DEF RecoverEnded
  <1>7. CASE RecoverLive
    BY <1>7 DEF RecoverLive, MonitorTyped
  <1>8. CASE RecoverDiscards
    BY <1>8, <1>b, TakeOutType DEF RecoverDiscards, MonitorTyped
  <1>9. CASE RecoverReopens
    BY <1>9, <1>b, <1>5, OpenType DEF RecoverReopens, Opened
  <1> QED
    BY <1>1, <1>2, <1>3, <1>4, <1>5, <1>6, <1>7, <1>8, <1>9 DEF WatchdogStep

LEMMA WatchType ==
    ASSUME WatchTyped, WatchdogStep
    PROVE  WatchTyped'
  <1> USE WatchdogAssumption DEF WatchTyped
  <1>1. CASE Ask \/ HealthUnavailable \/ EndSweep
    BY <1>1 DEF Ask, HealthUnavailable, EndSweep, Idle
  <1>2. CASE AskStep
    BY <1>2 DEF AskStep, watchVars
  <1>3. CASE ReadRows
    <2>1. Dead \in SUBSET Backends /\ Down \in SUBSET Backends
      BY DEF Dead, Down
    <2>2. /\ streak' \in [Backends -> 0..(Limit + 1)]
          /\ tries' \in [Backends -> Nat] /\ abandoned' \in [Backends -> Nat]
      BY <1>3 DEF ReadRows, InARow
    <2> QED
      BY <1>3, <2>1, <2>2 DEF ReadRows
  <1>4. ASSUME NEW b \in Backends, Report(b) \/ Abandon(b) \/ Try(b)
        PROVE  WatchTyped'
    <2>1. Longer(b) \in [Backends -> 0..(Limit + 1)]
      BY DEF Longer, AtMost
    <2>2. /\ HandledBy(b) \in [pc : {"idle", "asked", "handle", "recover"},
                               dead : SUBSET Backends, down : SUBSET Backends,
                               b : Backends \cup {None}]
          /\ [HandledBy(b) EXCEPT !.pc = "recover", !.b = b]
                  \in [pc : {"idle", "asked", "handle", "recover"},
                      dead : SUBSET Backends, down : SUBSET Backends,
                      b : Backends \cup {None}]
          /\ HandledBy(b).pc = wd.pc
          /\ [HandledBy(b) EXCEPT !.pc = "recover", !.b = b].b = b
      BY DEF HandledBy
    <2>3. CASE Report(b)
      BY <2>1, <2>2, <2>3 DEF Report, AtMost
    <2>4. CASE Abandon(b)
      BY <2>1, <2>2, <2>4 DEF Abandon, AtMost
    <2>5. CASE Try(b)
      <3>1. /\ streak' \in [Backends -> 0..(Limit + 1)]
            /\ tries' \in [Backends -> Nat]
        BY <2>1, <2>5 DEF Try, AtMost
      <3>2. /\ wd' \in [pc : {"idle", "asked", "handle", "recover"},
                        dead : SUBSET Backends, down : SUBSET Backends,
                        b : Backends \cup {None}]
            /\ wd'.b \in Backends
        BY <2>2, <2>5 DEF Try
      <3> QED
        BY <3>1, <3>2, <2>5 DEF Try
    <2> QED
      BY <1>4, <2>3, <2>4, <2>5
  <1>5. ASSUME Outcome(TRUE) \/ Outcome(FALSE), UNCHANGED <<policy, abandoned>>,
               told' \in [Backends -> Nat]
        PROVE  WatchTyped'
    <2>1. wd'.pc = "handle" /\ wd' \in [pc : {"idle", "asked", "handle", "recover"},
              dead : SUBSET Backends, down : SUBSET Backends, b : Backends \cup {None}]
      BY <1>5 DEF Outcome
    <2>2. streak' \in [Backends -> 0..(Limit + 1)] /\ tries' \in [Backends -> Nat]
      <3>1. CASE Outcome(TRUE)
        <4>1. /\ streak' = [streak EXCEPT ![wd.b] = 0]
              /\ tries' = [tries EXCEPT ![wd.b] = 0]
          BY <3>1 DEF Outcome
        <4>2. 0 \in 0..(Limit + 1) /\ 0 \in Nat
          OBVIOUS
        <4> QED
          BY <4>1, <4>2
      <3>2. CASE Outcome(FALSE)
        BY <3>2 DEF Outcome
      <3> QED
        BY <1>5, <3>1, <3>2
    <2> QED
      BY <1>5, <2>1, <2>2
  <1>6. CASE RecoverEnded
    <2>1. /\ Outcome(TRUE) \/ Outcome(FALSE)
          /\ UNCHANGED <<policy, abandoned, told>>
      BY <1>6 DEF RecoverEnded
    <2> QED
      BY <1>5, <2>1
  <1>9. CASE RecoverLive
    <2>1. /\ Outcome(TRUE) \/ Outcome(FALSE)
          /\ UNCHANGED <<policy, abandoned, told>>
      BY <1>9 DEF RecoverLive
    <2> QED
      BY <1>5, <2>1
  <1>7. CASE RecoverDiscards
    BY <1>7 DEF RecoverDiscards, watchVars
  <1>8. CASE RecoverReopens
    <2>1. /\ Outcome(TRUE) \/ Outcome(FALSE)
          /\ UNCHANGED <<policy, abandoned>>
      BY <1>8 DEF RecoverReopens
    <2>2. told' \in [Backends -> Nat]
      <3>1. told' = told \/ told' = [told EXCEPT ![wd.b] = 0]
        BY <1>8 DEF RecoverReopens, Opened
      <3> QED
        BY <3>1
    <2> QED
      BY <1>5, <2>1, <2>2
  <1> QED
    BY <1>1, <1>2, <1>3, <1>4, <1>6, <1>7, <1>8, <1>9 DEF WatchdogStep

LEMMA TypeInit == Init => MonitorTyped /\ WatchTyped
  <1> SUFFICES ASSUME Init
               PROVE  MonitorTyped /\ WatchTyped
    OBVIOUS
  <1>1. MonitorTyped
    BY StateTypes DEF Init, MonitorInit, MonitorTyped
  <1>2. WatchTyped
    BY WatchdogAssumption DEF Init, WatchTyped, Idle
  <1> QED
    BY <1>1, <1>2

LEMMA TypeNext ==
    ASSUME MonitorTyped, WatchTyped, Next
    PROVE  MonitorTyped' /\ WatchTyped'
  <1>1. CASE MonitorNext /\ UNCHANGED watchVars
    <2>1. MonitorTyped'
      BY <1>1, SweepType, CloserType, WorldType DEF MonitorNext
    <2> QED
      BY <1>1, <2>1 DEF watchVars, WatchTyped
  <1>2. CASE OpenOther /\ UNCHANGED watchVars
    BY <1>2, OpenType DEF watchVars, WatchTyped
  <1>3. CASE WatchdogStep
    BY <1>3, WatchdogMonitorType, WatchType
  <1>4. ASSUME NEW b \in Backends, Open(b)
        PROVE  MonitorTyped' /\ WatchTyped'
    <2>1. MonitorTyped'
      BY <1>4, OpenType DEF Open, Opened
    <2> QED
      BY <1>4, <2>1 DEF Open, Opened, WatchTyped
  <1> QED
    BY <1>1, <1>2, <1>3, <1>4 DEF Next

-----------------------------------------------------------------------------
(* Threads that sweep *)

LEMMA SweeperInit == Init => SweeperInv
  BY MonitorAssumption
     DEF Init, MonitorInit, SweeperInv, MaySweep, CloserIdle, Quiet

(* A launch finds no other thread sweeping, unless it races with a stop. *)
LEMMA LaunchSweeps ==
    ASSUME MonitorTyped, SweeperInv, NEW t \in Sweepers,
           NEW threads \in [Sweepers \cup {Asker} -> SweepState],
           LaunchUnlocked(t, threads), UNCHANGED cl,
           ~raced /\ cl.t = None =>
              \A u \in Sweepers : threads[u].pc \in {"none", "ending"}
    PROVE  SweeperInv'
  <1>1. cl.t # None => raced'
    BY DEF LaunchUnlocked, SweeperInv
  <1>2. \A u \in Sweepers : u # t => sw'[u] = threads[u]
    BY DEF LaunchUnlocked
  <1>3. thread' = t /\ previous' = None /\ (raced => raced')
    BY DEF LaunchUnlocked
  <1> QED
    BY <1>1, <1>2, <1>3 DEF SweeperInv, Running, MaySweep

LEMMA StartSweeps ==
    ASSUME MonitorTyped, SweeperInv, Start, UNCHANGED cl
    PROVE  SweeperInv'
  <1>1. CASE UNCHANGED <<thread, previous, raced, sw>>
    BY <1>1 DEF SweeperInv, Running, MaySweep
  <1>2. ASSUME NEW t \in Sweepers, LaunchUnlocked(t, sw), thread = None,
               ~(previous # None /\ Running(previous))
        PROVE  SweeperInv'
    <2>1. ~raced /\ cl.t = None =>
             \A u \in Sweepers : sw[u].pc \in {"none", "ending"}
      BY <1>2, MonitorAssumption DEF SweeperInv, Running, MaySweep
    <2>2. sw \in [Sweepers \cup {Asker} -> SweepState]
      BY DEF MonitorTyped
    <2> QED
      BY <1>2, <2>1, <2>2, LaunchSweeps
  <1> QED
    BY <1>1, <1>2 DEF Start, threadVars

LEMMA FinalSweeps ==
    ASSUME MonitorTyped, SweeperInv, NEW t \in Sweepers, Final(t)
    PROVE  SweeperInv'
  <1> DEFINE ended == [sw EXCEPT ![t] = [Quiet EXCEPT !.pc = "ending"]]
  <1>1. /\ ended \in [Sweepers \cup {Asker} -> SweepState]
        /\ \A u \in Sweepers : ended[u].pc \notin {"none", "ending"} => u # t /\ MaySweep(u)
        /\ UNCHANGED cl
    BY StateTypes DEF MonitorTyped, MaySweep, Quiet, Final, SweepState
  <1>2. CASE sw' = ended /\ UNCHANGED threadVars
    BY <1>1, <1>2 DEF SweeperInv, MaySweep, threadVars
  <1>3. ASSUME thread = None, NEW u \in Sweepers, LaunchUnlocked(u, ended)
        PROVE  SweeperInv'
    <2>1. ~raced /\ cl.t = None => \A v \in Sweepers : ended[v].pc \in {"none", "ending"}
      <3> SUFFICES ASSUME ~raced, cl.t = None, NEW v \in Sweepers, ended[v].pc \notin {"none", "ending"}
                   PROVE  FALSE
        OBVIOUS
      <3>1. MaySweep(t) /\ MaySweep(v) /\ v # t
        BY <1>1 DEF Final, Running, MaySweep
      <3> QED
        BY <1>3, <3>1, MonitorAssumption DEF SweeperInv
    <2> HIDE DEF ended
    <2> QED
      BY <1>1, <1>3, <2>1, LaunchSweeps
  <1>4. \/ sw' = ended /\ UNCHANGED threadVars
        \/ thread = None /\ \E u \in Sweepers : LaunchUnlocked(u, ended)
    BY DEF Final
  <1> QED
    BY <1>2, <1>3, <1>4

(* The other steps of a thread start none. *)
LEMMA RunningStays ==
    ASSUME MonitorTyped, NEW t \in Sweepers \cup {Asker},
           \/ Loop(t) \/ (\E b \in Backends : Check(t, b)) \/ Reconnect(t)
           \/ Write(t) \/ Waited(t) \/ Ends(t)
    PROVE  /\ \A u \in Sweepers : MaySweep(u)' => MaySweep(u)
           /\ UNCHANGED <<threadVars, cl>>
  <1> USE DEF MaySweep, Becomes, MonitorTyped
  <1>1. CASE Loop(t)
    BY <1>1 DEF Loop
  <1>2. ASSUME NEW b \in Backends, Check(t, b)
        PROVE  /\ \A u \in Sweepers : MaySweep(u)' => MaySweep(u)
               /\ UNCHANGED <<threadVars, cl>>
    BY <1>2 DEF Check
  <1>3. CASE Reconnect(t)
    BY <1>3 DEF Reconnect
  <1>4. CASE Write(t) \/ Waited(t) \/ Ends(t)
    BY <1>4 DEF Write, Waited, Ends, Quiet
  <1> QED
    BY <1>1, <1>2, <1>3, <1>4

LEMMA CloserSweeps ==
    ASSUME MonitorTyped, SweeperInv, Closer
    PROVE  SweeperInv'
  <1> USE DEF SweeperInv, Running, MaySweep, MonitorTyped, threadVars
  <1>1. CASE (\E b \in Backends : CloseSession(b)) \/ CloseOthers \/ CloseLooks
    <2>1. cl.t = None
      BY <1>1 DEF CloseSession, CloseOthers, CloseLooks
    <2>2. cl'.t = None /\ cl'.pc \notin {"join", "joined"}
          /\ UNCHANGED <<thread, previous, raced, sw>>
      BY <1>1, <2>1 DEF CloseSession, CloseOthers, CloseLooks
    <2> QED
      BY <2>1, <2>2
  <1>2. CASE StopFlag
    <2>1. cl.t = None /\ UNCHANGED <<previous, raced, sw>> /\ thread' = None
      BY <1>2 DEF StopFlag
    <2>2. \/ thread = None /\ cl'.t = None /\ cl'.pc = "idle"
          \/ thread # None /\ cl'.t = thread /\ cl'.pc = "join"
      BY <1>2 DEF StopFlag, CloserIdle
    <2> QED
      BY <2>1, <2>2
  <1>3. CASE StopJoin
    BY <1>3 DEF StopJoin
  <1>4. CASE StopRemember
    <2>1. cl'.t = None /\ cl'.pc = "idle" /\ UNCHANGED <<thread, raced, sw>>
          /\ previous' = IF Running(cl.t) THEN cl.t ELSE None
      BY <1>4 DEF StopRemember, CloserIdle
    <2> QED
      BY <1>4, <2>1, MonitorAssumption DEF StopRemember
  <1> QED
    BY <1>1, <1>2, <1>3, <1>4 DEF Closer

LEMMA SweeperNext ==
    ASSUME MonitorTyped, WatchTyped, SweeperInv, Next
    PROVE  SweeperInv'
  <1>q. ASSUME \A u \in Sweepers : MaySweep(u)' => MaySweep(u),
               UNCHANGED <<threadVars, cl>>
        PROVE  SweeperInv'
    BY <1>q DEF SweeperInv, threadVars
  <1>1. CASE MonitorNext
    <2>1. ASSUME NEW t \in Sweepers, Sweep(t)
          PROVE  SweeperInv'
      BY <2>1, <1>q, RunningStays, FinalSweeps DEF Sweep
    <2>2. ASSUME NEW b \in Backends, FailRuntime(b) \/ Die(b) \/ LoseConnection(b)
          PROVE  SweeperInv'
      BY <2>2, <1>q DEF FailRuntime, Die, LoseConnection, MaySweep
    <2> QED
      BY <1>1, <2>1, <2>2, CloserSweeps DEF MonitorNext
  <1>2. CASE OpenOther
    BY <1>2, StartSweeps DEF OpenOther
  <1>3. CASE WatchdogStep
    <2>1. CASE Ask \/ HealthUnavailable \/ ReadRows
      BY <1>q, <2>1, MonitorAssumption
         DEF Ask, HealthUnavailable, ReadRows, Becomes, MaySweep, MonitorTyped
    <2>2. CASE AskStep
      BY <1>q, <2>2, RunningStays DEF AskStep
    <2>3. CASE EndSweep \/ \E b \in Backends : Report(b) \/ Abandon(b) \/ Try(b)
      <3>1. UNCHANGED monitorVars
        BY <2>3 DEF EndSweep, Report, Abandon, Try
      <3> QED
        BY <1>q, <3>1 DEF monitorVars, MaySweep
    <2>4. CASE RecoverEnded \/ RecoverLive \/ RecoverDiscards
      <3>1. UNCHANGED <<threadVars, sw, cl>>
        BY <2>4 DEF RecoverEnded, RecoverLive, RecoverDiscards, monitorVars
      <3> QED
        BY <1>q, <3>1 DEF MaySweep
    <2>5. CASE RecoverReopens
      <3>1. CASE OpenBackend(wd.b)
        BY <3>1, StartSweeps DEF OpenBackend
      <3>2. CASE UNCHANGED monitorVars
        BY <1>q, <3>2 DEF monitorVars, MaySweep
      <3> QED
        BY <2>5, <3>1, <3>2 DEF RecoverReopens, Opened
    <2> QED
      BY <1>3, <2>1, <2>2, <2>3, <2>4, <2>5 DEF WatchdogStep
  <1>4. ASSUME NEW b \in Backends, Open(b)
        PROVE  SweeperInv'
    BY <1>4, StartSweeps DEF Open, Opened, OpenBackend
  <1> QED
    BY <1>1, <1>2, <1>3, <1>4 DEF Next

(* At most one name is in use, so at most one thread may sweep. *)
LEMMA SweeperOne == SweeperInv => OneSweeper
  <1> SUFFICES ASSUME SweeperInv, ~raced
               PROVE  Cardinality({t \in Sweepers : MaySweep(t)}) <= 1
    BY DEF OneSweeper
  <1> DEFINE x == IF thread # None THEN thread
                 ELSE IF cl.t # None THEN cl.t ELSE previous
  <1>1. {t \in Sweepers : MaySweep(t)} \subseteq {x}
    BY MonitorAssumption DEF SweeperInv
  <1> HIDE DEF x
  <1>2. IsFiniteSet({x}) /\ Cardinality({x}) = 1
    BY FS_Singleton
  <1>3. /\ IsFiniteSet({t \in Sweepers : MaySweep(t)})
        /\ Cardinality({t \in Sweepers : MaySweep(t)}) <= Cardinality({x})
    BY <1>1, <1>2, FS_Subset
  <1> QED
    BY <1>2, <1>3

-----------------------------------------------------------------------------
(* What a step does to a backend, its session and its row *)

Untouched(b) ==
    /\ slot'[b] = slot[b] /\ sess'[b] = sess[b] /\ rows'[b] = rows[b]
    /\ alive'[b] => alive[b]

TakenOut(b) ==
    /\ slot'[b] = 0 /\ rows'[b] = NoRow /\ alive'[b] = alive[b]
    /\ sess'[b] # "open" \/ (sess'[b] = sess[b] /\ policy = "recover")

Registers(b) ==
    /\ sess[b] = "open" /\ slot[b] = 0 /\ slot'[b] # 0
    /\ sess'[b] = sess[b] /\ rows'[b] = rows[b] /\ told'[b] = 0

Published(b) ==
    /\ slot'[b] = slot[b] /\ sess'[b] = sess[b] /\ alive'[b] = alive[b]
    /\ \E t \in Sweepers \cup {Asker} :
          /\ sw[t].pc = "write" /\ sw[t].b = b /\ rows'[b] = sw[t].row
          /\ Overtaken(t) => b \in late'

Moves == \A b \in Backends : Untouched(b) \/ TakenOut(b) \/ Registers(b) \/ Published(b)

LEMMA UntouchedMoves ==
    ASSUME UNCHANGED <<slot, sess, alive, rows>>
    PROVE  Moves
  BY DEF Moves, Untouched

LEMMA TakeOutMoves ==
    ASSUME MonitorTyped, NEW c \in Backends, TakeOut(c),
           \/ \E s \in {"failed", "closed"} : sess' = [sess EXCEPT ![c] = s]
           \/ sess' = sess /\ policy = "recover"
    PROVE  Moves
  <1> SUFFICES ASSUME NEW b \in Backends
               PROVE  Untouched(b) \/ TakenOut(b)
    BY DEF Moves
  <1>1. CASE b = c
    BY <1>1 DEF TakeOut, Forget, TakenOut, MonitorTyped
  <1>2. CASE b # c
    BY <1>2 DEF TakeOut, Forget, Untouched, MonitorTyped
  <1> QED
    BY <1>1, <1>2

LEMMA OpenMoves ==
    ASSUME MonitorTyped, WatchTyped, NEW c \in Backends, Opened(c)
    PROVE  Moves /\ UNCHANGED late
  <1> SUFFICES ASSUME NEW b \in Backends
               PROVE  (Untouched(b) \/ Registers(b)) /\ UNCHANGED late
    BY DEF Moves
  <1>1. CASE b = c
    BY <1>1 DEF Opened, OpenBackend, Registers, Registered, MonitorTyped, WatchTyped,
                reportVars
  <1>2. CASE b # c
    BY <1>2 DEF Opened, OpenBackend, Untouched, MonitorTyped, reportVars
  <1> QED
    BY <1>1, <1>2

LEMMA SweepMoves ==
    ASSUME MonitorTyped, NEW t \in Sweepers \cup {Asker},
           Sweep(t) \/ (\E b \in Backends : Check(t, b)) \/ Write(t)
    PROVE  Moves /\ late \subseteq late'
  <1>1. CASE \/ Loop(t) \/ (\E b \in Backends : Check(t, b)) \/ Waited(t) \/ Final(t)
             \/ Ends(t) \/ Reconnect(t)
    <2>1. UNCHANGED <<slot, sess, alive, rows, late>>
      BY <1>1 DEF Loop, Check, Waited, Final, Ends, Reconnect, backendVars, reportVars
    <2> QED
      BY <2>1, UntouchedMoves
  <1>2. CASE Write(t)
    <2>1. UNCHANGED <<slot, sess, alive>> /\ late \subseteq late'
      BY <1>2 DEF Write, backendVars
    <2>2. ASSUME NEW b \in Backends
          PROVE  Untouched(b) \/ Published(b)
      BY <1>2, <2>1 DEF Write, Untouched, Published, MonitorTyped
    <2> QED
      BY <2>1, <2>2 DEF Moves
  <1> QED
    BY <1>1, <1>2 DEF Sweep

LEMMA BackendSteps ==
    ASSUME MonitorTyped, WatchTyped, AlertInv, Next
    PROVE  Moves /\ late \subseteq late'
  <1>1. CASE MonitorNext
    <2>1. ASSUME NEW b \in Backends, CloseSession(b)
          PROVE  Moves /\ late \subseteq late'
      BY <2>1, TakeOutMoves DEF CloseSession, TakeOut
    <2>2. CASE CloseOthers \/ CloseLooks \/ StopFlag \/ StopJoin \/ StopRemember
      <3>1. UNCHANGED <<slot, sess, alive, rows, late>>
        BY <2>2 DEF CloseOthers, CloseLooks, StopFlag, StopJoin, StopRemember,
                    backendVars, reportVars
      <3> QED
        BY <3>1, UntouchedMoves
    <2>3. ASSUME NEW b \in Backends, FailRuntime(b)
          PROVE  Moves /\ late \subseteq late'
      BY <2>3, TakeOutMoves DEF FailRuntime, TakeOut
    <2>4. ASSUME NEW b \in Backends, Die(b) \/ LoseConnection(b)
          PROVE  Moves /\ late \subseteq late'
      <3>1. UNCHANGED <<slot, sess, rows, late>>
            /\ \A c \in Backends : alive'[c] => alive[c]
        BY <2>4 DEF Die, LoseConnection, reportVars, MonitorTyped
      <3> QED
        BY <3>1 DEF Moves, Untouched
    <2> QED
      BY <1>1, <2>1, <2>2, <2>3, <2>4, SweepMoves DEF MonitorNext, Closer
  <1>2. CASE OpenOther
    BY <1>2, UntouchedMoves DEF OpenOther, reportVars
  <1>3. CASE WatchdogStep
    <2>1. CASE \/ Ask \/ HealthUnavailable \/ ReadRows \/ EndSweep
               \/ \E b \in Backends : Report(b) \/ Abandon(b) \/ Try(b)
      <3>1. UNCHANGED <<slot, sess, alive, rows, late>>
        BY <2>1 DEF Ask, HealthUnavailable, ReadRows, EndSweep, Report, Abandon,
                    Try, monitorVars, backendVars, reportVars
      <3> QED
        BY <3>1, UntouchedMoves
    <2>2. CASE AskStep
      BY <2>2, SweepMoves DEF AskStep
    <2>3. CASE RecoverEnded
      <3>1. wd.b \in Backends
        BY <2>3 DEF RecoverEnded, WatchTyped
      <3>2. CASE UNCHANGED monitorVars
        BY <3>2, UntouchedMoves DEF monitorVars, backendVars, reportVars
      <3>3. CASE TakeOut(wd.b) /\ sess' = [sess EXCEPT ![wd.b] = "closed"]
        BY <3>1, <3>3, TakeOutMoves DEF TakeOut
      <3> QED
        BY <2>3, <3>2, <3>3 DEF RecoverEnded
    <2>4. CASE RecoverLive
      BY <2>4, UntouchedMoves DEF RecoverLive, reportVars
    <2>5. CASE RecoverDiscards
      BY <2>5, TakeOutMoves DEF RecoverDiscards, TakeOut, AlertInv, WatchTyped
    <2>6. CASE RecoverReopens
      <3>1. wd.b \in Backends
        BY <2>6 DEF RecoverReopens, WatchTyped
      <3>2. CASE UNCHANGED monitorVars
        BY <3>2, UntouchedMoves DEF monitorVars, backendVars, reportVars
      <3> QED
        BY <2>6, <3>1, <3>2, OpenMoves DEF RecoverReopens
    <2> QED
      BY <1>3, <2>1, <2>2, <2>3, <2>4, <2>5, <2>6 DEF WatchdogStep
  <1>4. ASSUME NEW b \in Backends, Open(b)
        PROVE  Moves /\ late \subseteq late'
    BY <1>4, OpenMoves DEF Open
  <1> QED
    BY <1>1, <1>2, <1>3, <1>4 DEF Next

-----------------------------------------------------------------------------
(* Readings and the report *)

LEMMA ReportInit == Init => ReportInv
  BY DEF Init, MonitorInit, ReportInv, Quiet, NoRowOfClosed, NoRow, Registered

(* Thread t had its reading before, or takes it in this step. *)
KeepsReading(t) ==
    sw'[t].pc \in {"reconnect", "write"} =>
        \/ /\ sw[t].pc \in {"reconnect", "write"} /\ sw'[t].b = sw[t].b
           /\ sw'[t].gen = sw[t].gen /\ sw'[t].row.known = sw[t].row.known
        \/ \E b \in Backends :
              /\ sw'[t].b = b /\ sw'[t].gen = slot[b] /\ slot[b] # 0
              /\ sw'[t].row.known
              /\ slot' = slot /\ sess' = sess

LEMMA SweepReadings ==
    ASSUME MonitorTyped, NEW u \in Sweepers \cup {Asker}, NEW t \in Sweepers \cup {Asker},
           Sweep(u) \/ (\E b \in Backends : Check(u, b)) \/ Write(u)
    PROVE  KeepsReading(t)
  <1> USE DEF KeepsReading, Becomes, MonitorTyped
  <1>s. sw[u] \in SweepState
    OBVIOUS
  <1>1. CASE Loop(u)
    BY <1>1 DEF Loop, Quiet, Sweeping
  <1>2. ASSUME NEW b \in Backends, Check(u, b)
        PROVE  KeepsReading(t)
    <2> DEFINE now(p) == [pc |-> p, left |-> sw[u].left \ {b}, b |-> b,
                          gen |-> slot[b], row |-> Reading(b)]
    <2>1. CASE t = u /\ slot[b] # 0
      <3>1. sw'[u] = now("write") \/ sw'[u] = now("reconnect")
        BY <1>2, <2>1 DEF Check, IsCurrent, Registered
      <3>2. slot' = slot /\ sess' = sess
        BY <1>2 DEF Check, backendVars
      <3> QED
        BY <2>1, <3>1, <3>2 DEF Reading
    <2>2. CASE t = u /\ slot[b] = 0
      BY <1>2, <2>2, <1>s DEF Check, IsCurrent, Registered, SweepState
    <2>3. CASE t # u
      BY <1>2, <2>3 DEF Check
    <2> QED
      BY <2>1, <2>2, <2>3
  <1>3. CASE Reconnect(u)
    <2>1. CASE t = u
      <3>1. sw[u].pc = "reconnect"
        BY <1>3 DEF Reconnect
      <3>2. CASE sw' = [sw EXCEPT ![u] = [sw[u] EXCEPT !.pc = "write"]]
        BY <1>s, <2>1, <3>1, <3>2 DEF SweepState
      <3>3. CASE sw' = [sw EXCEPT ![u] = [sw[u] EXCEPT !.pc = "write", !.row.conn = TRUE]]
        <4>1. sw'[u].b = sw[u].b /\ sw'[u].gen = sw[u].gen
          BY <1>s, <3>3 DEF SweepState
        <4>2. sw'[u].row = [sw[u].row EXCEPT !.conn = TRUE] /\ sw[u].row \in Row
          BY <1>s, <3>3 DEF SweepState
        <4>3. sw'[u].row.known = sw[u].row.known
          BY <4>2 DEF Row
        <4> QED
          BY <2>1, <3>1, <4>1, <4>3
      <3> QED
        BY <1>3, <3>2, <3>3 DEF Reconnect
    <2>2. CASE t # u
      BY <1>3, <2>2 DEF Reconnect
    <2> QED
      BY <2>1, <2>2
  <1>4. CASE Write(u) \/ Waited(u) \/ Ends(u)
    <2>1. \E new : sw' = [sw EXCEPT ![u] = new] /\ new.pc \in {"next", "loop", "none"}
      <3>1. /\ [Quiet EXCEPT !.pc = "next", !.left = sw[u].left].pc = "next"
            /\ [Quiet EXCEPT !.pc = "loop"].pc = "loop" /\ Quiet.pc = "none"
        BY DEF Quiet
      <3> QED
        BY <1>4, <3>1, Zenon DEF Write, Waited, Ends
    <2> QED
      BY <1>s, <2>1
  <1>5. CASE Final(u)
    <2> DEFINE looked == [Quiet EXCEPT !.pc = "ending"]
    <2>1. \/ sw' = [sw EXCEPT ![u] = looked]
          \/ \E v \in Sweepers : sw' = [[sw EXCEPT ![u] = looked] EXCEPT ![v].pc = "loop"]
      BY <1>5 DEF Final, LaunchUnlocked
    <2> QED
      BY <2>1, <1>s, StateTypes DEF Quiet, SweepState
  <1> QED
    BY <1>1, <1>2, <1>3, <1>4, <1>5 DEF Sweep

LEMMA StartReadings ==
    ASSUME MonitorTyped, Start, NEW t \in Sweepers \cup {Asker}
    PROVE  KeepsReading(t)
  <1>1. \/ sw' = sw
        \/ \E v \in Sweepers : sw' = [sw EXCEPT ![v].pc = "loop"]
    BY DEF Start, LaunchUnlocked
  <1> QED
    BY <1>1 DEF KeepsReading, MonitorTyped, SweepState

LEMMA NextReadings ==
    ASSUME MonitorTyped, WatchTyped, Next, NEW t \in Sweepers \cup {Asker}
    PROVE  KeepsReading(t)
  <1>q. ASSUME UNCHANGED sw
        PROVE  KeepsReading(t)
    BY <1>q DEF KeepsReading
  <1>1. CASE MonitorNext
    <2>1. CASE Closer \/ \E b \in Backends : FailRuntime(b) \/ Die(b) \/ LoseConnection(b)
      <3>1. UNCHANGED sw
        BY <2>1 DEF Closer, CloseSession, CloseOthers, CloseLooks, StopFlag, StopJoin,
           StopRemember, FailRuntime, Die, LoseConnection
      <3> QED
        BY <1>q, <3>1
    <2> QED
      BY <1>1, <2>1, SweepReadings DEF MonitorNext
  <1>2. CASE OpenOther
    BY <1>2, StartReadings DEF OpenOther
  <1>3. CASE WatchdogStep
    <2>1. CASE Ask \/ HealthUnavailable \/ ReadRows
      <3>1. \/ sw' = [sw EXCEPT ![Asker] = Quiet]
            \/ sw' = [sw EXCEPT ![Asker] = Sweeping]
        BY <2>1 DEF Ask, HealthUnavailable, ReadRows, Becomes
      <3>2. Quiet.pc = "none" /\ Sweeping.pc = "next"
        BY DEF Quiet, Sweeping
      <3>3. CASE t = Asker
        BY <3>1, <3>2, <3>3 DEF KeepsReading, MonitorTyped
      <3>4. CASE t # Asker
        BY <3>1, <3>4 DEF KeepsReading, MonitorTyped
      <3> QED
        BY <3>3, <3>4
    <2>2. CASE AskStep
      BY <2>2, SweepReadings DEF AskStep
    <2>3. CASE \/ EndSweep \/ RecoverEnded \/ RecoverLive \/ RecoverDiscards
               \/ \E b \in Backends : Report(b) \/ Abandon(b) \/ Try(b)
      <3>1. UNCHANGED sw
        BY <2>3 DEF EndSweep, RecoverEnded, RecoverLive, RecoverDiscards, Report,
           Abandon, Try, monitorVars
      <3> QED
        BY <1>q, <3>1
    <2>4. CASE RecoverReopens
      <3>1. CASE Start
        BY <3>1, StartReadings
      <3>2. CASE UNCHANGED monitorVars
        BY <1>q, <3>2 DEF monitorVars
      <3> QED
        BY <2>4, <3>1, <3>2 DEF RecoverReopens, Opened, OpenBackend
    <2> QED
      BY <1>3, <2>1, <2>2, <2>3, <2>4 DEF WatchdogStep
  <1>4. ASSUME NEW b \in Backends, Open(b)
        PROVE  KeepsReading(t)
    BY <1>4, StartReadings DEF Open, Opened, OpenBackend
  <1> QED
    BY <1>1, <1>2, <1>3, <1>4 DEF Next

LEMMA ReportNext ==
    ASSUME MonitorTyped, WatchTyped, AlertInv, ReportInv, Next
    PROVE  ReportInv'
  <1>1. ASSUME NEW t \in Sweepers \cup {Asker}, sw'[t].pc \in {"reconnect", "write"}
        PROVE  sw'[t].gen # 0 /\ sw'[t].b \in Backends /\ sw'[t].row.known
    BY <1>1, NextReadings DEF KeepsReading, ReportInv
  <1>2. ASSUME NEW b \in Backends, sess'[b] # "open"
        PROVE  slot'[b] = 0
    BY <1>2, BackendSteps DEF Moves, Untouched, TakenOut, Registers, Published,
                              ReportInv, Registered
  <1>3. ASSUME NEW b \in Backends, sess'[b] # "open", rows'[b].known
        PROVE  b \in late'
    <2>1. CASE Untouched(b)
      BY <1>3, <2>1, BackendSteps DEF Untouched, ReportInv, NoRowOfClosed
    <2>2. CASE TakenOut(b)
      BY <1>3, <2>2 DEF TakenOut, NoRow
    <2>3. CASE Registers(b)
      BY <1>3, <2>3 DEF Registers
    <2>4. CASE Published(b)
      BY <1>3, <2>4 DEF Published, Overtaken, ReportInv, Registered
    <2> QED
      BY <2>1, <2>2, <2>3, <2>4, BackendSteps DEF Moves
  <1> QED
    BY <1>1, <1>2, <1>3 DEF ReportInv, NoRowOfClosed, Registered

-----------------------------------------------------------------------------
(* The alerts *)

LEMMA PolicyStays ==
    ASSUME Next
    PROVE  policy' = policy
  BY DEF Next, WatchdogStep, Open, Ask, AskStep, HealthUnavailable, ReadRows, EndSweep,
         Report, Abandon, Try, RecoverEnded, RecoverLive, RecoverDiscards, RecoverReopens,
         watchVars

(* Without recovery a session that has ended stays so. *)
LEMMA EndedStays ==
    ASSUME MonitorTyped, WatchTyped, AlertInv, Next, policy = "report",
           NEW b \in Backends, sess'[b] = "open"
    PROVE  sess[b] = "open" /\ (Untouched(b) \/ Registers(b) \/ Published(b))
  BY BackendSteps DEF Moves, Untouched, TakenOut, Registers, Published

LEMMA UnreadNext ==
    ASSUME MonitorTyped, WatchTyped, AlertInv, Next, policy = "report",
           NEW b \in Backends
    PROVE  Unread(b)'
  <1> SUFFICES ASSUME sess'[b] = "open", slot'[b] = 0
               PROVE  ~rows'[b].known
                      /\ \A t \in Sweepers \cup {Asker} : ~Reads(t, b)'
    BY DEF Unread, Registered
  <1>1. sess[b] = "open" /\ slot[b] = 0 /\ (Untouched(b) \/ Published(b))
    BY EndedStays DEF Untouched, Registers, Published
  <1>2. ~rows[b].known /\ \A t \in Sweepers \cup {Asker} : ~Reads(t, b)
    BY <1>1 DEF AlertInv, Unread, Registered
  <1>3. Untouched(b)
    BY <1>1, <1>2 DEF Published, Reads
  <1>4. ASSUME NEW t \in Sweepers \cup {Asker}, Reads(t, b)'
        PROVE  FALSE
    <2>1. KeepsReading(t)
      BY NextReadings
    <2> QED
      BY <1>1, <1>2, <1>4, <2>1 DEF KeepsReading, Reads
  <1> QED
    BY <1>2, <1>3, <1>4 DEF Untouched

(* A row that was not late says what was so of the runtime there is. *)
LEMMA PublishedTruly ==
    ASSUME ReportInv, NEW b \in Backends, Published(b), b \notin late'
    PROVE  rows'[b].known /\ rows'[b].up = alive[b] /\ alive'[b] = alive[b]
  BY DEF Published, Overtaken, ReportInv

LEMMA DeadRowTrue ==
    ASSUME MonitorTyped, WatchTyped, ReportInv, AlertInv, Next, policy = "report",
           NEW b \in Backends, b \notin late', sess'[b] = "open", DeadRow(b)'
    PROVE  ~alive'[b]
  <1>1. sess[b] = "open" /\ b \notin late
    BY EndedStays, BackendSteps
  <1>2. DeadRow(b) => ~alive[b] /\ Registered(b)
    BY <1>1 DEF AlertInv, Alerted, Unread, DeadRow
  <1>3. CASE Untouched(b) \/ Registers(b)
    BY <1>2, <1>3 DEF Untouched, Registers, Registered, DeadRow
  <1>4. CASE Published(b)
    BY <1>4, PublishedTruly DEF DeadRow
  <1> QED
    BY <1>3, <1>4, EndedStays

LEMMA DeadRowStays ==
    ASSUME MonitorTyped, WatchTyped, ReportInv, AlertInv, Next, policy = "report",
           NEW b \in Backends, b \notin late', sess'[b] = "open", DeadRow(b)
    PROVE  DeadRow(b)'
  <1>1. sess[b] = "open" /\ b \notin late
    BY EndedStays, BackendSteps
  <1>2. ~alive[b] /\ Registered(b)
    BY <1>1 DEF AlertInv, Alerted, Unread, DeadRow
  <1>3. CASE Untouched(b) \/ Registers(b)
    BY <1>2, <1>3 DEF Untouched, Registers, Registered, DeadRow
  <1>4. CASE Published(b)
    BY <1>2, <1>4, PublishedTruly DEF DeadRow, MonitorTyped
  <1> QED
    BY <1>3, <1>4, EndedStays

(* What a step of the watchdog without recovery does about a backend *)
Quietly(b) ==
    /\ told'[b] \in {told[b], 0} /\ streak'[b] = streak[b]
    /\ b \in wd'.dead => b \in wd.dead

Counts(b) ==
    /\ told'[b] = told[b]
    /\ streak'[b] = IF DeadRow(b) THEN streak[b] ELSE 0
    /\ b \in wd'.dead <=> DeadRow(b)

Reported(b) ==
    /\ b \in wd.dead /\ b \notin wd'.dead
    /\ streak'[b] > 0
    /\ told'[b] = IF streak[b] = 0 THEN AtMost(told[b] + 1, 2) ELSE told[b]

LEMMA AlertSteps ==
    ASSUME MonitorTyped, WatchTyped, AlertInv, Next, policy = "report",
           NEW b \in Backends
    PROVE  Quietly(b) \/ Counts(b) \/ Reported(b)
  <1>1. ASSUME UNCHANGED <<told, streak>>, b \in wd'.dead => b \in wd.dead
        PROVE  Quietly(b)
    BY <1>1 DEF Quietly
  <1>2. CASE WatchdogStep
    <2>1. CASE Ask \/ HealthUnavailable \/ EndSweep
      BY <1>1, <2>1 DEF Ask, HealthUnavailable, EndSweep, Idle
    <2>2. CASE AskStep \/ RecoverDiscards
      BY <1>1, <2>2 DEF AskStep, RecoverDiscards, watchVars
    <2>3. CASE ReadRows
      BY <2>3 DEF ReadRows, Counts, Dead, DeadRow, InARow
    <2>4. ASSUME NEW c \in Backends, Report(c)
          PROVE  Quietly(b) \/ Reported(b)
      <3>1. CASE b = c
        <4>1. streak'[b] = AtMost(streak[b] + 1, Limit + 1)
          BY <2>4, <3>1 DEF Report, Longer, WatchTyped
        <4>2. streak'[b] > 0
          BY <4>1, WatchdogAssumption DEF AtMost, WatchTyped
        <4> QED
          BY <2>4, <3>1, <4>2 DEF Report, Reported, HandledBy, WatchTyped
      <3>2. CASE b # c
        BY <2>4, <3>2 DEF Report, Quietly, HandledBy, Longer, WatchTyped
      <3> QED
        BY <3>1, <3>2
    <2>5. CASE \/ RecoverEnded \/ RecoverLive \/ RecoverReopens
               \/ \E c \in Backends : Abandon(c) \/ Try(c)
      BY <2>5 DEF RecoverEnded, RecoverLive, RecoverReopens, Abandon, Try, AlertInv
    <2> QED
      BY <1>2, <2>1, <2>2, <2>3, <2>4, <2>5 DEF WatchdogStep
  <1>3. ASSUME NEW c \in Backends, Open(c)
        PROVE  Quietly(b)
    BY <1>3 DEF Open, Opened, Quietly, WatchTyped
  <1> QED
    BY <1>1, <1>2, <1>3 DEF Next, watchVars

LEMMA AlertedNext ==
    ASSUME MonitorTyped, WatchTyped, ReportInv, AlertInv, Next, policy = "report",
           NEW b \in Backends
    PROVE  Alerted(b)'
  <1> SUFFICES ASSUME b \notin late'
               PROVE  /\ sess'[b] = "open" /\ DeadRow(b)' => ~alive'[b]
                      /\ sess'[b] = "open" /\ (told'[b] > 0 \/ b \in wd'.dead) => DeadRow(b)'
                      /\ told'[b] > 0 => /\ told'[b] = 1
                                         /\ streak'[b] > 0
                                            \/ (sess'[b] # "open" /\ b \notin wd'.dead)
    BY DEF Alerted
  <1>1. b \notin late /\ Alerted(b)
    BY BackendSteps DEF AlertInv
  <1>2. told[b] \in Nat /\ streak[b] \in Nat
    BY DEF WatchTyped
  <1>3. sess'[b] = "open" => sess[b] = "open"
    BY EndedStays
  <1>4. sess'[b] = "open" /\ (told'[b] > 0 \/ b \in wd'.dead) => DeadRow(b)
    BY <1>1, <1>2, <1>3, AlertSteps DEF Alerted, Quietly, Counts, Reported
  <1>5. ASSUME told'[b] > 0
        PROVE  /\ told'[b] = 1
               /\ streak'[b] > 0 \/ (sess'[b] # "open" /\ b \notin wd'.dead)
    <2>1. CASE Quietly(b)
      BY <1>1, <1>2, <1>3, <1>5, <2>1 DEF Alerted, Quietly
    <2>2. CASE Counts(b)
      <3>1. told[b] = 1 /\ (streak[b] > 0 \/ sess[b] # "open")
        BY <1>1, <1>5, <2>2 DEF Alerted, Counts
      <3>2. sess[b] # "open" => ~DeadRow(b)
        BY <1>1 DEF ReportInv, NoRowOfClosed, DeadRow
      <3>3. sess[b] = "open" => DeadRow(b)
        BY <1>1, <1>5, <2>2 DEF Alerted, Counts
      <3> QED
        BY <1>3, <2>2, <3>1, <3>2, <3>3 DEF Counts
    <2>3. CASE Reported(b)
      <3>1. told[b] > 0 => told[b] = 1 /\ streak[b] > 0
        BY <1>1, <2>3 DEF Alerted, Reported
      <3> QED
        BY <1>2, <1>5, <2>3, <3>1 DEF Reported, AtMost
    <2> QED
      BY <2>1, <2>2, <2>3, AlertSteps
  <1> QED
    BY <1>4, <1>5, DeadRowTrue, DeadRowStays

(* Attempts and alerts are counted with the streak. *)
LEMMA OutcomeCounts ==
    ASSUME WatchTyped, AlertInv, wd.pc = "recover", NEW ok \in BOOLEAN, Outcome(ok),
           UNCHANGED <<policy, abandoned>>, NEW b \in Backends,
           told'[b] \in {told[b], 0}
    PROVE  Counted(b)' /\ wd'.pc # "recover"
  <1>1. Counted(b) /\ streak[wd.b] <= Limit /\ wd.b \in Backends
    BY DEF AlertInv, WatchTyped
  <1>2. wd'.pc = "handle"
    BY DEF Outcome, WatchTyped
  <1>3. told'[b] > 0 => policy' = "report"
    BY <1>1 DEF Counted, WatchTyped
  <1>4. CASE ok /\ b = wd.b
    <2>1. streak'[b] = 0 /\ tries'[b] = 0
      BY <1>4 DEF Outcome, WatchTyped
    <2>2. abandoned[b] # 1
      BY <1>1, <1>4, WatchdogAssumption DEF Counted, WatchTyped
    <2> QED
      BY <1>1, <1>2, <1>3, <2>1, <2>2, WatchdogAssumption DEF Counted
  <1>5. CASE ~(ok /\ b = wd.b)
    <2>1. streak'[b] = streak[b] /\ tries'[b] = tries[b]
      BY <1>5 DEF Outcome, WatchTyped
    <2> QED
      BY <1>1, <1>2, <1>3, <2>1 DEF Counted
  <1> QED
    BY <1>4, <1>5

LEMMA CountedNext ==
    ASSUME MonitorTyped, WatchTyped, AlertInv, Next, NEW b \in Backends
    PROVE  Counted(b)'
  <1>1. Counted(b) /\ policy' = policy /\ Limit \in Nat \ {0}
    BY PolicyStays, WatchdogAssumption DEF AlertInv
  <1>2. /\ streak[b] \in 0..(Limit + 1) /\ told[b] \in Nat
        /\ tries[b] \in Nat /\ abandoned[b] \in Nat
    BY DEF WatchTyped
  <1>3. ASSUME UNCHANGED <<streak, abandoned, tries>>, told'[b] \in {told[b], 0}
        PROVE  Counted(b)'
    BY <1>1, <1>2, <1>3 DEF Counted
  <1>4. CASE WatchdogStep
    <2>1. CASE Ask \/ HealthUnavailable \/ EndSweep
      BY <1>3, <2>1 DEF Ask, HealthUnavailable, EndSweep
    <2>2. CASE AskStep \/ RecoverDiscards
      BY <1>3, <2>2 DEF AskStep, RecoverDiscards, watchVars
    <2>3. CASE ReadRows
      <3>1. /\ told' = told
            /\ \/ streak'[b] = streak[b] /\ tries'[b] = tries[b]
                  /\ abandoned'[b] = abandoned[b]
               \/ streak'[b] = 0 /\ tries'[b] = 0 /\ abandoned'[b] = 0
        BY <2>3 DEF ReadRows, InARow
      <3> QED
        BY <1>1, <1>2, <3>1 DEF Counted
    <2>4. ASSUME NEW c \in Backends, Report(c) \/ Abandon(c) \/ Try(c)
          PROVE  Counted(b)'
      <3>1. CASE b = c
        <4>1. streak'[b] = AtMost(streak[b] + 1, Limit + 1)
          BY <2>4, <3>1 DEF Report, Abandon, Try, Longer, WatchTyped
        <4>2. CASE Report(c)
          <5>1. tries' = tries /\ abandoned' = abandoned /\ policy = "report"
            BY <4>2 DEF Report
          <5> QED
            BY <1>1, <1>2, <4>1, <5>1 DEF Counted, AtMost
        <4>3. CASE Abandon(c)
          <5>1. /\ tries' = tries /\ told' = told /\ streak[b] >= Limit
                /\ abandoned'[b] = IF streak[b] = Limit THEN AtMost(abandoned[b] + 1, 2)
                                   ELSE abandoned[b]
            BY <3>1, <4>3 DEF Abandon, WatchTyped
          <5> QED
            BY <1>1, <1>2, <4>1, <5>1 DEF Counted, AtMost
        <4>4. CASE Try(c)
          <5>1. /\ abandoned' = abandoned /\ told' = told /\ streak[b] < Limit
                /\ tries'[b] = AtMost(tries[b] + 1, Limit + 1)
            BY <3>1, <4>4 DEF Try, WatchTyped
          <5> QED
            BY <1>1, <1>2, <4>1, <5>1 DEF Counted, AtMost
        <4> QED
          BY <2>4, <4>2, <4>3, <4>4
      <3>2. CASE b # c
        <4>1. /\ streak'[b] = streak[b] /\ told'[b] = told[b] /\ tries'[b] = tries[b]
              /\ abandoned'[b] = abandoned[b]
          BY <2>4, <3>2 DEF Report, Abandon, Try, Longer, WatchTyped
        <4> QED
          BY <1>1, <4>1 DEF Counted
      <3> QED
        BY <3>1, <3>2
    <2>5. CASE RecoverEnded
      <3>1. (\E ok \in BOOLEAN : Outcome(ok)) /\ UNCHANGED <<policy, abandoned, told>>
            /\ wd.pc = "recover"
        BY <2>5 DEF RecoverEnded
      <3> QED
        BY <3>1, OutcomeCounts
    <2>6. CASE RecoverLive
      <3>1. (\E ok \in BOOLEAN : Outcome(ok)) /\ UNCHANGED <<policy, abandoned, told>>
            /\ wd.pc = "recover"
        BY <2>6 DEF RecoverLive
      <3> QED
        BY <3>1, OutcomeCounts
    <2>7. CASE RecoverReopens
      <3>1. (\E ok \in BOOLEAN : Outcome(ok)) /\ UNCHANGED <<policy, abandoned>>
            /\ wd.pc = "recover" /\ told'[b] \in {told[b], 0}
        BY <2>7 DEF RecoverReopens, Opened, WatchTyped
      <3> QED
        BY <3>1, OutcomeCounts
    <2> QED
      BY <1>4, <2>1, <2>2, <2>3, <2>4, <2>5, <2>6, <2>7 DEF WatchdogStep
  <1>5. ASSUME NEW c \in Backends, Open(c)
        PROVE  Counted(b)'
    BY <1>3, <1>5 DEF Open, Opened, WatchTyped
  <1> QED
    BY <1>3, <1>4, <1>5 DEF Next, watchVars

LEMMA AttemptNext ==
    ASSUME MonitorTyped, WatchTyped, AlertInv, Next, wd'.pc = "recover"
    PROVE  policy' = "recover" /\ streak'[wd'.b] <= Limit
  <1>1. policy' = policy
    BY PolicyStays
  <1>2. ASSUME wd' = wd, streak' = streak
        PROVE  policy' = "recover" /\ streak'[wd'.b] <= Limit
    BY <1>1, <1>2 DEF AlertInv
  <1>3. CASE WatchdogStep
    <2>1. CASE Ask \/ HealthUnavailable \/ EndSweep \/ ReadRows
      BY <2>1 DEF Ask, HealthUnavailable, EndSweep, ReadRows, Idle
    <2>2. CASE AskStep \/ RecoverDiscards
      BY <1>2, <2>2 DEF AskStep, RecoverDiscards, watchVars
    <2>3. ASSUME NEW c \in Backends, Report(c) \/ Abandon(c)
          PROVE  FALSE
      BY <2>3 DEF Report, Abandon, HandledBy, WatchTyped
    <2>4. ASSUME NEW c \in Backends, Try(c)
          PROVE  policy' = "recover" /\ streak'[wd'.b] <= Limit
      <3>1. wd'.b = c /\ streak'[c] = AtMost(streak[c] + 1, Limit + 1)
            /\ streak[c] < Limit /\ policy = "recover"
        BY <2>4 DEF Try, HandledBy, Longer, WatchTyped
      <3> QED
        BY <1>1, <3>1, WatchdogAssumption DEF AtMost, WatchTyped
    <2>5. CASE RecoverEnded \/ RecoverLive \/ RecoverReopens
      <3>1. \E ok \in BOOLEAN : Outcome(ok)
        BY <2>5 DEF RecoverEnded, RecoverLive, RecoverReopens
      <3> QED
        BY <3>1 DEF Outcome, WatchTyped
    <2> QED
      BY <1>3, <2>1, <2>2, <2>3, <2>4, <2>5 DEF WatchdogStep
  <1>4. ASSUME NEW c \in Backends, Open(c)
        PROVE  wd' = wd /\ streak' = streak
    BY <1>4 DEF Open
  <1> QED
    BY <1>2, <1>3, <1>4 DEF Next, watchVars

-----------------------------------------------------------------------------
(* The invariant *)

LEMMA InvariantInit == Init => IInv
  <1>1. Init => AlertInv
    BY WatchdogAssumption
       DEF Init, MonitorInit, AlertInv, Counted, Unread, Alerted, Reads, DeadRow,
           Idle, NoRow, Quiet
  <1> QED
    BY <1>1, TypeInit, SweeperInit, ReportInit DEF IInv

LEMMA InvariantNext == IInv /\ [Next]_vars => IInv'
  <1> SUFFICES ASSUME IInv, [Next]_vars
               PROVE  IInv'
    OBVIOUS
  <1>1. CASE Next
    <2>1. MonitorTyped' /\ WatchTyped'
      BY <1>1, TypeNext DEF IInv
    <2>2. SweeperInv' /\ ReportInv'
      BY <1>1, SweeperNext, ReportNext DEF IInv
    <2>3. AlertInv'
      BY <1>1, AttemptNext, CountedNext, UnreadNext, AlertedNext, PolicyStays
         DEF IInv, AlertInv
    <2> QED
      BY <2>1, <2>2, <2>3 DEF IInv
  <1>2. CASE UNCHANGED vars
    BY <1>2 DEF vars, monitorVars, watchVars, backendVars, reportVars, threadVars,
         IInv, MonitorTyped, WatchTyped, SweeperInv, ReportInv, AlertInv, MaySweep,
         NoRowOfClosed, Registered, DeadRow, Reads, Counted, Unread, Alerted
  <1> QED
    BY <1>1, <1>2

(* The monitor and the watchdog keep the invariant, however many backends   *)
(* there are, however many threads sweep and whatever dies meanwhile.       *)
THEOREM InvariantHolds == Spec => []IInv
  <1>1. IInv /\ [Next]_vars => IInv'
    BY InvariantNext
  <1> QED
    BY <1>1, InvariantInit, PTL DEF Spec

(* BackendHealthMonitor.start and stop: of the threads that stop gave up on *)
(* and start launched at most one sweeps, unless a start fell between the   *)
(* two sections of a stop.                                                  *)
THEOREM OneSweeperHolds == Spec => []OneSweeper
  <1>1. IInv => OneSweeper
    BY SweeperOne DEF IInv
  <1> QED
    BY <1>1, InvariantHolds, PTL

(* BackendHealthMonitor.forget: the report has no row of a session that     *)
(* ended, unless a reading taken before was published after.                *)
THEOREM NoRowHolds == Spec => []NoRowOfClosed
  <1>1. IInv => NoRowOfClosed
    BY DEF IInv, ReportInv
  <1> QED
    BY <1>1, InvariantHolds, PTL

(* Watchdog._handle_dead: a dead worker is reported once however many       *)
(* sweeps find it dead, tried again at most max_recovery_attempts times and *)
(* given up on once - for every limit and every set of backends.            *)
THEOREM ToldOnceHolds == Spec => []ToldOnce
  <1>1. IInv => ToldOnce
    <2> SUFFICES ASSUME IInv, NEW b \in Backends
                 PROVE  /\ b \notin late => told[b] <= 1
                        /\ tries[b] <= Limit /\ abandoned[b] <= 1
      BY DEF ToldOnce
    <2>1. Counted(b) /\ told[b] \in Nat
      BY DEF IInv, AlertInv, WatchTyped
    <2>2. policy = "report" => Alerted(b)
      BY DEF IInv, AlertInv
    <2> QED
      BY <2>1, <2>2 DEF Counted, Alerted
  <1> QED
    BY <1>1, InvariantHolds, PTL

-----------------------------------------------------------------------------
(***************************************************************************)
(* The other systems of the run MCWatchdog.  DebuggerProofs proves them    *)
(* for every value of their constants; here their invariants are taken     *)
(* over to the instances, under the names x1, x2, ... that the run gives   *)
(* their variables.                                                        *)
(***************************************************************************)

\* What run control and the profiles are about; the constants and variables
\* of the other systems there do not matter
Dbg == INSTANCE DebuggerProofs WITH
    Callers <- Threads, Ring <- 2, MaxCalls <- 2, MaxEvents <- 5,
    Sessions <- Targets, Archs <- {"x64", "x86"},
    ArchOf <- OneArch, Profiles <- {"vmp"},
    at <- x1, plan <- x2, mark <- x3, moved <- x4, told <- x5, lock <- x6,
    current <- x7, deb <- x8, armed <- x9, pending <- x10, events <- x11,
    truth <- x12, calls <- x13, steps <- x14, setup <- x2, ini <- x3, phase <- x4,
    under <- x6, doing <- x7, stale <- x8, raced <- x9,
    MaxStarts <- 1, MaxWorkers <- 1, MaxLooks <- 1, Last <- 1, Tids <- {},
    RestoreLimit <- 1, Chunks <- 1, call <- x1, session <- x1, runtime <- x1,
    cur <- x1, made <- x1, active <- x1, file <- x1, sure <- x1, worker <- x1,
    resync <- x1, missed <- x1, wiped <- x1, loaded <- x1, row <- x1,
    orphan <- x1, points <- x1, patched <- x1, dump <- x1, partial <- x1,
    final <- x1, rec <- x1, quota <- x1, answer <- x1, before <- x1,
    known <- x1

(* The callers of the instance are none called "none".                     *)
LEMMA CtlSizes == Dbg!CtlConstantsOK
  BY DEF Dbg!CtlConstantsOK, Threads

(* Run control starts with its invariant.                                  *)
LEMMA CtlBegins == ASSUME Ctl!Init PROVE Dbg!CtlInv
<1>1. Dbg!Ctl!Init
  BY DEF
      Ctl!NoTruth, Dbg!Ctl!NoTruth, Ctl!Init, Dbg!Ctl!Init
<1> QED BY <1>1, CtlSizes, Dbg!CtlStarts

(* Its steps keep the invariant,                                            *)
LEMMA CtlGoesOn == ASSUME Dbg!CtlInv, Ctl!Next PROVE Dbg!CtlInv'
<1>1. ASSUME NEW c \in Threads
     PROVE  /\ Ctl!Call(c) => Dbg!Ctl!Call(c)
            /\ Ctl!DynamicRequest(c) => Dbg!Ctl!DynamicRequest(c)
  <2>1. Ctl!Call(c) => Dbg!Ctl!Call(c)
    BY DEF
      Ctl!debugger, Dbg!Ctl!debugger, Ctl!States, Dbg!Ctl!States, Ctl!NoTruth, Dbg!Ctl!NoTruth,
      Ctl!Req, Dbg!Ctl!Req, Ctl!DynamicResume, Dbg!Ctl!DynamicResume, Ctl!DynamicStep,
      Dbg!Ctl!DynamicStep, Ctl!DynamicPause, Dbg!Ctl!DynamicPause, Ctl!DynamicStop,
      Dbg!Ctl!DynamicStop, Ctl!DynamicWait, Dbg!Ctl!DynamicWait, Ctl!DynamicLaunch,
      Dbg!Ctl!DynamicLaunch, Ctl!DynamicAttach, Dbg!Ctl!DynamicAttach, Ctl!AnalyzeFunctionDynamic,
      Dbg!Ctl!AnalyzeFunctionDynamic, Ctl!Plans, Dbg!Ctl!Plans, Ctl!Call, Dbg!Ctl!Call
  <2>2. Ctl!Enter(c) => Dbg!Ctl!Enter(c)
    BY DEF
      Ctl!debugger, Dbg!Ctl!debugger, Ctl!This, Dbg!Ctl!This, Ctl!Goto, Dbg!Ctl!Goto,
      Ctl!Transitions, Dbg!Ctl!Transitions, Ctl!Enter, Dbg!Ctl!Enter
  <2>3. Ctl!TurnedAway(c) => Dbg!Ctl!TurnedAway(c)
    BY DEF
      Ctl!debugger, Dbg!Ctl!debugger, Ctl!This, Dbg!Ctl!This, Ctl!Goto, Dbg!Ctl!Goto, Ctl!Leaves,
      Dbg!Ctl!Leaves, Ctl!Return, Dbg!Ctl!Return, Ctl!Continues, Dbg!Ctl!Continues, Ctl!Fails,
      Dbg!Ctl!Fails, Ctl!TurnedAway, Dbg!Ctl!TurnedAway
  <2>4. Ctl!StaticDecompile(c) => Dbg!Ctl!StaticDecompile(c)
    BY DEF
      Ctl!debugger, Dbg!Ctl!debugger, Ctl!This, Dbg!Ctl!This, Ctl!Goto, Dbg!Ctl!Goto, Ctl!Leaves,
      Dbg!Ctl!Leaves, Ctl!Return, Dbg!Ctl!Return, Ctl!Continues, Dbg!Ctl!Continues,
      Ctl!StaticDecompile, Dbg!Ctl!StaticDecompile
  <2>5. Ctl!Mark(c) => Dbg!Ctl!Mark(c)
    BY DEF
      Ctl!debugger, Dbg!Ctl!debugger, Ctl!NoTruth, Dbg!Ctl!NoTruth, Ctl!This, Dbg!Ctl!This,
      Ctl!Goto, Dbg!Ctl!Goto, Ctl!Leaves, Dbg!Ctl!Leaves, Ctl!Return, Dbg!Ctl!Return, Ctl!Continues,
      Dbg!Ctl!Continues, Ctl!Fails, Dbg!Ctl!Fails, Ctl!Breaks, Dbg!Ctl!Breaks, Ctl!Transitions,
      Dbg!Ctl!Transitions, Ctl!Crowded, Dbg!Ctl!Crowded, Ctl!Mark, Dbg!Ctl!Mark
  <2>6. Ctl!Submit(c) => Dbg!Ctl!Submit(c)
    BY DEF
      Ctl!This, Dbg!Ctl!This, Ctl!Goto, Dbg!Ctl!Goto, Ctl!Leaves, Dbg!Ctl!Leaves, Ctl!Return,
      Dbg!Ctl!Return, Ctl!Continues, Dbg!Ctl!Continues, Ctl!Ready, Dbg!Ctl!Ready, Ctl!IsCommand,
      Dbg!Ctl!IsCommand, Ctl!Submitted, Dbg!Ctl!Submitted, Ctl!Submit, Dbg!Ctl!Submit
  <2>7. Ctl!Refused(c) => Dbg!Ctl!Refused(c)
    BY DEF
      Ctl!debugger, Dbg!Ctl!debugger, Ctl!This, Dbg!Ctl!This, Ctl!Goto, Dbg!Ctl!Goto, Ctl!Leaves,
      Dbg!Ctl!Leaves, Ctl!Return, Dbg!Ctl!Return, Ctl!Continues, Dbg!Ctl!Continues, Ctl!Fails,
      Dbg!Ctl!Fails, Ctl!Breaks, Dbg!Ctl!Breaks, Ctl!Ready, Dbg!Ctl!Ready, Ctl!IsCommand,
      Dbg!Ctl!IsCommand, Ctl!Refused, Dbg!Ctl!Refused
  <2>8. Ctl!AbsorbRedundantRunControl(c) => Dbg!Ctl!AbsorbRedundantRunControl(c)
    BY DEF
      Ctl!debugger, Dbg!Ctl!debugger, Ctl!This, Dbg!Ctl!This, Ctl!Goto, Dbg!Ctl!Goto, Ctl!Leaves,
      Dbg!Ctl!Leaves, Ctl!Return, Dbg!Ctl!Return, Ctl!Continues, Dbg!Ctl!Continues, Ctl!Fails,
      Dbg!Ctl!Fails, Ctl!Breaks, Dbg!Ctl!Breaks, Ctl!AbsorbRedundantRunControl,
      Dbg!Ctl!AbsorbRedundantRunControl
  <2>9. Ctl!ReadEvents(c) => Dbg!Ctl!ReadEvents(c)
    BY DEF
      Ctl!debugger, Dbg!Ctl!debugger, Ctl!This, Dbg!Ctl!This, Ctl!Goto, Dbg!Ctl!Goto, Ctl!Leaves,
      Dbg!Ctl!Leaves, Ctl!Return, Dbg!Ctl!Return, Ctl!Continues, Dbg!Ctl!Continues, Ctl!Fails,
      Dbg!Ctl!Fails, Ctl!Breaks, Dbg!Ctl!Breaks, Ctl!Transitions, Dbg!Ctl!Transitions, Ctl!Oldest,
      Dbg!Ctl!Oldest, Ctl!HasTransition, Dbg!Ctl!HasTransition, Ctl!Observed, Dbg!Ctl!Observed,
      Ctl!ReadEvents, Dbg!Ctl!ReadEvents
  <2>10. Ctl!ReadState(c) => Dbg!Ctl!ReadState(c)
    BY DEF
      Ctl!debugger, Dbg!Ctl!debugger, Ctl!This, Dbg!Ctl!This, Ctl!Goto, Dbg!Ctl!Goto, Ctl!Leaves,
      Dbg!Ctl!Leaves, Ctl!Return, Dbg!Ctl!Return, Ctl!Continues, Dbg!Ctl!Continues, Ctl!Fails,
      Dbg!Ctl!Fails, Ctl!Breaks, Dbg!Ctl!Breaks, Ctl!Reached, Dbg!Ctl!Reached, Ctl!ReadState,
      Dbg!Ctl!ReadState
  <2> QED BY <2>1, <2>2, <2>3, <2>4, <2>5, <2>6, <2>7, <2>8, <2>9, <2>10 DEF Ctl!DynamicRequest,
            Dbg!Ctl!DynamicRequest
<1>2. Ctl!Executes => Dbg!Ctl!Executes
  BY DEF
      Ctl!Ready, Dbg!Ctl!Ready, Ctl!Publish, Dbg!Ctl!Publish, Ctl!Callers_, Dbg!Ctl!Callers_,
      Ctl!Interrupted, Dbg!Ctl!Interrupted, Ctl!Executes, Dbg!Ctl!Executes
<1>3. Ctl!DebuggeeStops => Dbg!Ctl!DebuggeeStops
  BY DEF
      Ctl!Publish, Dbg!Ctl!Publish, Ctl!Callers_, Dbg!Ctl!Callers_, Ctl!Interrupted,
      Dbg!Ctl!Interrupted, Ctl!DebuggeeStops, Dbg!Ctl!DebuggeeStops
<1>4. Ctl!SomethingElse => Dbg!Ctl!SomethingElse
  BY DEF
      Ctl!Publish, Dbg!Ctl!Publish, Ctl!Callers_, Dbg!Ctl!Callers_, Ctl!SomethingElse,
      Dbg!Ctl!SomethingElse
<1>5. Dbg!Ctl!Next
  BY <1>1, <1>2, <1>3, <1>4 DEF Ctl!Next, Dbg!Ctl!Next
<1> QED BY <1>5, CtlSizes, Dbg!CtlStays

(* and so does a step that leaves it alone.                                 *)
LEMMA CtlRests == ASSUME Dbg!CtlInv, UNCHANGED xs PROVE Dbg!CtlInv'
<1>1. UNCHANGED Dbg!Ctl!vars
  BY DEF xs, from10,
      Ctl!vars, Dbg!Ctl!vars
<1> QED BY <1>1, CtlSizes, Dbg!CtlStays

(* What is to be shown follows from the invariant.                          *)
LEMMA CtlShows == ASSUME Dbg!CtlInv PROVE Ctl!StopIsNew
<1>1. Dbg!Ctl!StopIsNew
  BY Dbg!CtlImplies
<1> QED BY <1>1 DEF
      Ctl!StopIsNew, Dbg!Ctl!StopIsNew

-----------------------------------------------------------------------------
(* The sessions of the instance have an architecture each.                 *)
LEMMA HidSizes == Dbg!HidConstantsOK
  BY DEF Dbg!HidConstantsOK, Dbg!Hid!Nothing, Dbg!Hid!All, Dbg!Hid!Off, Targets, OneArch

(* The names of a call are the same.                                       *)
LEMMA HidNames ==
    /\ Hid!Nothing = Dbg!Hid!Nothing /\ Hid!All = Dbg!Hid!All
    /\ Hid!NoCall = Dbg!Hid!NoCall /\ Hid!NoTold = Dbg!Hid!NoTold
  BY DEF
      Hid!Nothing, Dbg!Hid!Nothing, Hid!Off, Dbg!Hid!Off, Hid!All, Dbg!Hid!All, Hid!NoCall,
      Dbg!Hid!NoCall, Hid!NoTold, Dbg!Hid!NoTold

(* The system of the profiles starts with its invariant.                   *)
LEMMA HidBegins == ASSUME Hid!Init PROVE Dbg!HidInv
<1>1. Dbg!Hid!Init
  BY HidNames DEF Hid!Init, Dbg!Hid!Init
<1> QED BY <1>1, HidSizes, Dbg!HidStarts

(* Its steps keep the invariant,                                            *)
LEMMA HidGoesOn == ASSUME Dbg!HidInv, Hid!Next PROVE Dbg!HidInv'
<1>1. ASSUME NEW c \in Threads
     PROVE  /\ Hid!Call(c) => Dbg!Hid!Call(c)
            /\ Hid!CallSet(c) => Dbg!Hid!CallSet(c)
            /\ Hid!Decide(c) => Dbg!Hid!Decide(c)
            /\ Hid!Check(c) => Dbg!Hid!Check(c)
            /\ Hid!Write(c) => Dbg!Hid!Write(c)
            /\ Hid!CheckIdle(c) => Dbg!Hid!CheckIdle(c)
            /\ Hid!Apply(c) => Dbg!Hid!Apply(c)
            /\ Hid!BeginOpen(c) => Dbg!Hid!BeginOpen(c)
            /\ Hid!Start(c) => Dbg!Hid!Start(c)
            /\ Hid!DebugLaunch(c) => Dbg!Hid!DebugLaunch(c)
  <2>1. Hid!Call(c) => Dbg!Hid!Call(c)
    BY Zenon DEF
      Hid!Off, Dbg!Hid!Off, Hid!Nothing, Dbg!Hid!Nothing, Hid!All, Dbg!Hid!All, Hid!NoCall,
      Dbg!Hid!NoCall, Hid!NoTold, Dbg!Hid!NoTold, Hid!Goto, Dbg!Hid!Goto, Hid!Sessions_,
      Dbg!Hid!Sessions_, Hid!Active, Dbg!Hid!Active, Hid!Call, Dbg!Hid!Call
  <2>2. Hid!CallSet(c) => Dbg!Hid!CallSet(c)
    BY Zenon DEF
      Hid!Off, Dbg!Hid!Off, Hid!Nothing, Dbg!Hid!Nothing, Hid!All, Dbg!Hid!All, Hid!NoCall,
      Dbg!Hid!NoCall, Hid!NoTold, Dbg!Hid!NoTold, Hid!Goto, Dbg!Hid!Goto, Hid!Sessions_,
      Dbg!Hid!Sessions_, Hid!CallSet, Dbg!Hid!CallSet
  <2>3. Hid!Decide(c) => Dbg!Hid!Decide(c)
    BY DEF
      Hid!Off, Dbg!Hid!Off, Hid!Nothing, Dbg!Hid!Nothing, Hid!NoCall, Dbg!Hid!NoCall, Hid!Goto,
      Dbg!Hid!Goto, Hid!Fails, Dbg!Hid!Fails, Hid!Sessions_, Dbg!Hid!Sessions_, Hid!Desired,
      Dbg!Hid!Desired, Hid!Decide, Dbg!Hid!Decide
  <2>4. Hid!Check(c) => Dbg!Hid!Check(c)
    BY DEF
      Hid!Off, Dbg!Hid!Off, Hid!Nothing, Dbg!Hid!Nothing, Hid!NoCall, Dbg!Hid!NoCall, Hid!Goto,
      Dbg!Hid!Goto, Hid!Fails, Dbg!Hid!Fails, Hid!Sessions_, Dbg!Hid!Sessions_, Hid!Active,
      Dbg!Hid!Active, Hid!LiveStealthSessions, Dbg!Hid!LiveStealthSessions, Hid!AfterPrepare,
      Dbg!Hid!AfterPrepare, Hid!Check, Dbg!Hid!Check
  <2>5. Hid!Write(c) => Dbg!Hid!Write(c)
    BY DEF
      Hid!Nothing, Dbg!Hid!Nothing, Hid!NoCall, Dbg!Hid!NoCall, Hid!Goto, Dbg!Hid!Goto, Hid!Fails,
      Dbg!Hid!Fails, Hid!Sessions_, Dbg!Hid!Sessions_, Hid!AfterPrepare, Dbg!Hid!AfterPrepare,
      Hid!Writes, Dbg!Hid!Writes, Hid!Write, Dbg!Hid!Write
  <2>6. Hid!CheckIdle(c) => Dbg!Hid!CheckIdle(c)
    BY DEF
      Hid!Nothing, Dbg!Hid!Nothing, Hid!NoCall, Dbg!Hid!NoCall, Hid!Goto, Dbg!Hid!Goto, Hid!Fails,
      Dbg!Hid!Fails, Hid!Sessions_, Dbg!Hid!Sessions_, Hid!Active, Dbg!Hid!Active,
      Hid!LiveStealthSessions, Dbg!Hid!LiveStealthSessions, Hid!CheckIdle, Dbg!Hid!CheckIdle
  <2>7. Hid!Apply(c) => Dbg!Hid!Apply(c)
    BY DEF
      Hid!Off, Dbg!Hid!Off, Hid!Nothing, Dbg!Hid!Nothing, Hid!NoCall, Dbg!Hid!NoCall, Hid!NoTold,
      Dbg!Hid!NoTold, Hid!Goto, Dbg!Hid!Goto, Hid!Fails, Dbg!Hid!Fails, Hid!Succeeds,
      Dbg!Hid!Succeeds, Hid!Sessions_, Dbg!Hid!Sessions_, Hid!Writes, Dbg!Hid!Writes, Hid!Apply,
      Dbg!Hid!Apply
  <2>8. Hid!BeginOpen(c) => Dbg!Hid!BeginOpen(c)
    BY DEF
      Hid!Nothing, Dbg!Hid!Nothing, Hid!NoCall, Dbg!Hid!NoCall, Hid!NoTold, Dbg!Hid!NoTold,
      Hid!Goto, Dbg!Hid!Goto, Hid!Fails, Dbg!Hid!Fails, Hid!Succeeds, Dbg!Hid!Succeeds,
      Hid!Sessions_, Dbg!Hid!Sessions_, Hid!AboutToWrite, Dbg!Hid!AboutToWrite, Hid!Opened,
      Dbg!Hid!Opened, Hid!BeginOpen, Dbg!Hid!BeginOpen
  <2>9. Hid!Start(c) => Dbg!Hid!Start(c)
    BY DEF
      Hid!Nothing, Dbg!Hid!Nothing, Hid!NoCall, Dbg!Hid!NoCall, Hid!NoTold, Dbg!Hid!NoTold,
      Hid!Goto, Dbg!Hid!Goto, Hid!Fails, Dbg!Hid!Fails, Hid!Succeeds, Dbg!Hid!Succeeds, Hid!Opened,
      Dbg!Hid!Opened, Hid!Start, Dbg!Hid!Start
  <2>10. Hid!DebugLaunch(c) => Dbg!Hid!DebugLaunch(c)
    BY DEF
      Hid!Nothing, Dbg!Hid!Nothing, Hid!NoCall, Dbg!Hid!NoCall, Hid!NoTold, Dbg!Hid!NoTold,
      Hid!Goto, Dbg!Hid!Goto, Hid!Fails, Dbg!Hid!Fails, Hid!Succeeds, Dbg!Hid!Succeeds,
      Hid!Sessions_, Dbg!Hid!Sessions_, Hid!DebugLaunch, Dbg!Hid!DebugLaunch
  <2> QED BY <2>1, <2>2, <2>3, <2>4, <2>5, <2>6, <2>7, <2>8, <2>9, <2>10
<1>2. ASSUME NEW s \in Targets
     PROVE  /\ Hid!Ends(s) => Dbg!Hid!Ends(s)
  <2>1. Hid!Ends(s) => Dbg!Hid!Ends(s)
    BY DEF
      Hid!Nothing, Dbg!Hid!Nothing, Hid!NoTold, Dbg!Hid!NoTold, Hid!Ends, Dbg!Hid!Ends
  <2> QED BY <2>1
<1>3. Dbg!Hid!Next
  BY <1>1, <1>2 DEF Hid!Next, Dbg!Hid!Next
<1> QED BY <1>3, HidSizes, Dbg!HidStays

(* and so does a step that leaves it alone.                                 *)
LEMMA HidRests == ASSUME Dbg!HidInv, UNCHANGED xs PROVE Dbg!HidInv'
<1>1. UNCHANGED Dbg!Hid!vars
  BY DEF xs, from10,
      Hid!vars, Dbg!Hid!vars
<1> QED BY <1>1, HidSizes, Dbg!HidStays

(* What is to be shown follows from the invariant.                          *)
LEMMA HidShows == ASSUME Dbg!HidInv PROVE Hid!FileIsWhatRuns /\ Hid!ToldWhatRuns
<1>1. Dbg!Hid!FileIsWhatRuns /\ Dbg!Hid!ToldWhatRuns
  BY Dbg!HidImplies
<1> QED BY <1>1 DEF
      Hid!Nothing, Dbg!Hid!Nothing, Hid!NoTold, Dbg!Hid!NoTold, Hid!FileIsWhatRuns,
      Dbg!Hid!FileIsWhatRuns, Hid!ToldWhatRuns, Dbg!Hid!ToldWhatRuns

-----------------------------------------------------------------------------
(* The invariant of the part that the behaviour chose.                      *)
PartInv ==
    /\ part = "control" => Dbg!CtlInv
    /\ part = "stealth" => Dbg!HidInv

(* Each part starts with its invariant.                                     *)
LEMMA PartStarts == ASSUME PartsInit PROVE PartInv
  BY CtlBegins, HidBegins DEF PartsInit, PartInv

(* A step is a step of the part that the behaviour chose.                   *)
LEMMA PartStays == ASSUME PartInv, [PartsNext]_all PROVE PartInv'
<1>1. CASE UNCHANGED all
  <2>1. UNCHANGED xs /\ part' = part
    BY <1>1 DEF all
  <2> QED BY <2>1, CtlRests, HidRests DEF PartInv
<1>2. CASE Watches(Next)
  BY <1>2 DEF Watches, Of, PartInv
<1>3. CASE Of("control", Ctl!Next, vars)
  BY <1>3, CtlGoesOn DEF Of, PartInv
<1>4. CASE Of("stealth", Hid!Next, <<vars, from10>>)
  BY <1>4, HidGoesOn DEF Of, PartInv
<1> QED BY <1>1, <1>2, <1>3, <1>4 DEF PartsNext

(* What callers of a debugger were told is so, whatever two of them do: a   *)
(* resume or a step told to have ended in a stop was executed               *)
(* (service.py:2839), and the file of profiles, what a debugger hides       *)
(* under and what callers were told of it agree (stealth.py).               *)
THEOREM RunsAreTold == PartsSpec => []RunsAsTold
<1>1. PartInv => RunsAsTold
  BY CtlShows, HidShows DEF PartInv, RunsAsTold
<1> QED BY <1>1, PartStarts, PartStays, PTL DEF PartsSpec
=============================================================================
