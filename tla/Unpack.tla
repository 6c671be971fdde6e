------------------------------- MODULE Unpack -------------------------------
(***************************************************************************)
(* The orchestration of unpacking one analysis session: an attempt with a  *)
(* phase, advanced by tool calls that start it, score and confirm an entry *)
(* point, dump, rebuild and verify.  Every call reads the stored attempt,  *)
(* works (with the debugger, or with a command line tool that a cancel can *)
(* stop through a latch), and stores what it made of the attempt it read.  *)
(* Only single reads and writes are locked.  Attempts are immutable values *)
(* and deadlines pass at any moment.                                       *)
(***************************************************************************)
EXTENDS Integers, FiniteSets

CONSTANTS
    Tools,     \* threads that call the service
    MaxTools   \* bound: calls made

VARIABLES
    open,      \* the analysis session has not begun to close
    stored,    \* _unpack_owner's attempt
    latch,     \* _unpack_cancel_events' latch; NoLatch when there is none
    set,       \* latches that are set
    expired,   \* attempts whose deadline has passed
    task,      \* what each thread is doing
    calls, attempts, latches

vars == <<open, stored, latch, set, expired, task, calls, attempts, latches>>

NoLatch  == 0
None     == [id |-> 0, phase |-> "none", why |-> "none", oep |-> FALSE, dump |-> FALSE]
Terminal == {"failed", "cancelled", "reanalyzed"}
Phases   == {"none", "detected", "running", "oep_candidate", "dumped",
             "imports_rebuilt", "verified"} \cup Terminal

Stages == {"dump", "rebuild", "scan"}      \* guarded before and after their work
Calls  == {"start", "replace", "status", "cancel", "score", "confirm", "verify", "tool"} \cup Stages

\* st is the attempt a call holds, old the one its scoring read, mine the
\* attempt and held the latch it made or took
Idle == [call |-> "none", pc |-> "idle", st |-> None, old |-> None, mine |-> 0, held |-> NoLatch]

TypeOK ==
    /\ open \in BOOLEAN /\ stored.phase \in Phases /\ latch \in 0..latches
    /\ set \subseteq 1..latches /\ expired \subseteq 1..attempts
    /\ \A t \in Tools : task[t].call \in Calls \cup {"none"} /\ task[t].st.id \in 0..attempts

Init ==
    /\ open = TRUE /\ stored = None /\ latch = NoLatch /\ set = {} /\ expired = {}
    /\ task = [t \in Tools |-> Idle]
    /\ calls = 0 /\ attempts = 0 /\ latches = 0

-----------------------------------------------------------------------------
(* What becomes of an attempt (session.py, phase_bridge.py) *)

Live(s) == s # None /\ s.phase \notin Terminal

Failed(s, why) == [s EXCEPT !.phase = "failed", !.why = why]

\* check_timeout
Checked(s) == IF Live(s) /\ s.id \in expired THEN Failed(s, "timeout") ELSE s

Cancelled(s) == IF Live(s) THEN [s EXCEPT !.phase = "cancelled"] ELSE s

Scored(s) == IF s.phase = "running" THEN [s EXCEPT !.phase = "oep_candidate"] ELSE s

Dumped(s) ==
    IF s.phase \in Terminal THEN s
    ELSE [s EXCEPT !.dump = TRUE,
                   !.phase = IF @ \in {"running", "oep_candidate"} THEN "dumped" ELSE @]

Rebuilt(s) ==
    IF s.phase \in {"oep_candidate", "dumped"} THEN [s EXCEPT !.phase = "imports_rebuilt"] ELSE s

Verified(s, reanalyzed) ==
    LET v == IF s.phase = "imports_rebuilt" THEN [s EXCEPT !.phase = "verified"] ELSE s
    IN  IF reanalyzed /\ v.phase = "verified" THEN [v EXCEPT !.phase = "reanalyzed"] ELSE v

\* _advance_unpack_after_*, on the attempt as it was read again
Advanced(call, s) ==
    LET c == Checked(s) IN
    IF c.phase = "failed" THEN {c}
    ELSE CASE call = "dump"    -> {Dumped(c)}
           [] call = "rebuild" -> {Rebuilt(c)}
           [] OTHER            -> {Verified(c, r) : r \in BOOLEAN}

-----------------------------------------------------------------------------
(* Steps of a call *)

At(t, pc)   == task[t].pc = pc
Goes(t, r)  == task' = [task EXCEPT ![t] = r]
Returns(t)  == Goes(t, Idle)
Call(t)     == task[t].call
Holds(t, s, pc) == Goes(t, [task[t] EXCEPT !.st = s, !.pc = pc])

Begin(t, call) ==
    /\ At(t, "idle") /\ calls < MaxTools /\ calls' = calls + 1
    /\ IF call = "tool" THEN Goes(t, [Idle EXCEPT !.call = call, !.pc = "reset"])
       ELSE LET here == [Idle EXCEPT !.call = call, !.st = stored] IN
            IF call \in {"start", "replace"} /\ ~open THEN UNCHANGED task
            ELSE IF stored # None
            THEN Goes(t, [here EXCEPT !.pc = IF call = "cancel" THEN "signal"
                                             ELSE IF call = "verify" THEN "work" ELSE "check"])
            ELSE IF call \in {"start", "replace"} THEN Goes(t, [here EXCEPT !.pc = "plan"])
            ELSE IF call \in {"status", "cancel", "confirm"} THEN UNCHANGED task
            ELSE Goes(t, [here EXCEPT !.pc = "work"])
    /\ UNCHANGED <<open, stored, latch, set, expired, attempts, latches>>

Other == UNCHANGED <<open, latch, set, expired, calls, attempts, latches>>

\* A deadline that has passed fails the attempt that was read, for all to see
Noted(t, c) == stored' = IF c # task[t].st THEN c ELSE stored

\* _guard_unpack_active, before and after the work of a stage or a scoring:
\* whatever attempt stops it is stored
Guard(t) ==
    /\ Call(t) \in Stages \cup {"score"} /\ (At(t, "check") \/ At(t, "again"))
    /\ LET c == Checked(task[t].st) IN
       IF Live(c) THEN Holds(t, c, IF At(t, "again") THEN "advance" ELSE "work") /\ UNCHANGED stored
       ELSE stored' = c /\ Returns(t)
    /\ Other

\* A live attempt is only replaced on request
StartLooks(t) ==
    /\ Call(t) \in {"start", "replace"} /\ At(t, "check")
    /\ LET c == Checked(task[t].st) IN
       /\ Noted(t, c)
       /\ IF Live(c) /\ Call(t) = "start" THEN Returns(t) ELSE Holds(t, c, "plan")
    /\ Other

Status(t) ==
    /\ Call(t) = "status" /\ At(t, "check")
    /\ Noted(t, Checked(task[t].st)) /\ Returns(t)
    /\ Other

Confirm(t) ==
    /\ Call(t) = "confirm" /\ At(t, "check")
    /\ LET c == Checked(task[t].st) IN
       /\ Noted(t, c)
       /\ IF c.phase \in {"running", "oep_candidate"}
          THEN Holds(t, [Scored(c) EXCEPT !.oep = TRUE], "put") ELSE Returns(t)
    /\ Other

\* The debugger, or a file, is worked on: the call fails or goes on, with the
\* attempt that is stored by then
WorkOnStage(t) ==
    /\ Call(t) \in Stages /\ At(t, "work")
    /\ Returns(t) \/ Holds(t, stored, IF stored = None THEN "advance" ELSE "again")
    /\ UNCHANGED stored /\ Other

Verify(t) ==
    /\ Call(t) = "verify" /\ At(t, "work")
    /\ Returns(t) \/ Holds(t, stored, "advance")
    /\ UNCHANGED stored /\ Other

Observe(t) ==
    /\ Call(t) = "score" /\ At(t, "work")
    /\ Returns(t) \/ Goes(t, [task[t] EXCEPT !.old = stored, !.pc = "score"])
    /\ UNCHANGED stored /\ Other

Advance(t) ==
    /\ At(t, "advance")
    /\ IF stored = None \/ Call(t) = "scan" THEN Returns(t)
       ELSE \E s \in Advanced(Call(t), stored) : Holds(t, s, "put")
    /\ UNCHANGED stored /\ Other

Put(t) ==
    /\ At(t, "put")
    /\ stored' = task[t].st
    /\ Returns(t)
    /\ UNCHANGED <<open, latch, set, expired, calls, attempts, latches>>

-----------------------------------------------------------------------------
(* The latch *)

\* What if a latch were made whether or not the session is closing?
MayMakeAlways == latches < MaxTools + 1

MayMake == open

\* _unpack_cancel_event: the latch there is, or a new one.  When it raises, the
\* call ends.
Takes(t, r) ==
    \/ latch # NoLatch /\ Goes(t, [r EXCEPT !.held = latch]) /\ UNCHANGED <<latch, latches>>
    \/ /\ latch = NoLatch /\ MayMake
       /\ latches' = latches + 1 /\ latch' = latches + 1
       /\ Goes(t, [r EXCEPT !.held = latches + 1])
    \/ latch = NoLatch /\ ~MayMake /\ Returns(t) /\ UNCHANGED <<latch, latches>>

Signal(t) ==
    /\ At(t, "signal")
    /\ Takes(t, [task[t] EXCEPT !.st = Cancelled(@), !.pc = "put"])
    /\ set' = set \cup ({task'[t].held} \ {NoLatch})
    /\ UNCHANGED <<open, stored, expired, calls, attempts>>

\* _reset_unpack_cancel, and then the attempt is made and its route chosen
Reset(t) ==
    /\ At(t, "reset") \/ At(t, "plan")
    /\ UNCHANGED <<open, stored, set, expired, calls>>
    /\ \/ /\ At(t, "plan") \/ ~open
          /\ Returns(t) /\ UNCHANGED <<latch, latches, attempts>>
       \/ /\ open /\ latches' = latches + 1 /\ latch' = latches + 1
          /\ IF Call(t) = "tool"
             THEN Goes(t, [task[t] EXCEPT !.pc = "take"]) /\ UNCHANGED attempts
             ELSE /\ attempts' = attempts + 1
                  /\ \E route \in {"take", "probe", "finish"} :
                       Goes(t, [task[t] EXCEPT !.pc = route, !.mine = attempts + 1,
                                  !.st = [None EXCEPT !.id = attempts + 1,
                                            !.phase = IF route = "probe" THEN "running" ELSE "detected"]])

Take(t) ==
    /\ At(t, "take")
    /\ Takes(t, [task[t] EXCEPT !.pc = "test"])
    /\ UNCHANGED <<open, stored, set, expired, calls, attempts>>

\* A command line tool is stopped through the latch its call has taken
Killed(t) == task[t].held \in set /\ Holds(t, task[t].st, "stopped")

RunTool(t) ==
    /\ Call(t) = "tool" /\ At(t, "test")
    /\ Returns(t) \/ Killed(t)
    /\ UNCHANGED stored /\ Other

ToolFails(t) == Holds(t, Failed(task[t].st, "tool"), "finish") /\ UNCHANGED stored

\* A test that succeeds is stored, and then the deadline looked at
UpxTest(t) ==
    /\ Call(t) # "tool" /\ At(t, "test")
    /\ \/ Holds(t, task[t].st, "tested") /\ stored' = task[t].st
       \/ ToolFails(t)
       \/ Killed(t) /\ UNCHANGED stored
    /\ Other

UpxUnpack(t) ==
    /\ At(t, "unpack")
    /\ \/ /\ \E p \in {"verified", "reanalyzed"} : Holds(t, [task[t].st EXCEPT !.phase = p], "finish")
          /\ UNCHANGED stored
       \/ ToolFails(t)
       \/ Killed(t) /\ UNCHANGED stored
    /\ Other

Tested(t) ==
    /\ At(t, "tested")
    /\ LET c == Checked(task[t].st) IN
       /\ Holds(t, c, IF Live(c) THEN "unpack" ELSE "finish")
       /\ stored' = IF Live(c) THEN stored ELSE c
    /\ Other

\* A stopped start cancels whatever attempt is stored
Stopped(t) ==
    /\ At(t, "stopped")
    /\ IF Call(t) # "tool" /\ Live(stored) THEN Holds(t, Cancelled(stored), "put") ELSE Returns(t)
    /\ UNCHANGED stored /\ Other

-----------------------------------------------------------------------------
(* The dynamic route: a start scores what is stored, which is not its own   *)
(* attempt yet                                                              *)

Probe(t) ==
    /\ At(t, "probe")
    /\ \/ Holds(t, task[t].st, "finish") /\ UNCHANGED stored      \* no debugger, or not paused
       \/ LET c == Checked(stored) IN
          /\ stored' = IF stored # None /\ ~Live(c) THEN c ELSE stored
          /\ IF stored # None /\ ~Live(c) THEN Holds(t, task[t].st, "finish")
             ELSE Goes(t, [task[t] EXCEPT !.old = stored, !.pc = "score"])
    /\ Other

Score(t) ==
    /\ At(t, "score")
    /\ stored' = IF Live(task[t].old) THEN Scored(task[t].old) ELSE stored
    /\ IF Call(t) = "score" THEN Returns(t) ELSE Holds(t, task[t].st, "refresh")
    /\ Other

Refreshed(t) == IF stored = None THEN task[t].st ELSE stored

Refresh(t) ==
    /\ At(t, "refresh") /\ Holds(t, Refreshed(t), "finish")
    /\ UNCHANGED stored /\ Other

Finish(t) ==
    /\ At(t, "finish")
    /\ IF open THEN Holds(t, task[t].st, "put") ELSE Returns(t)
    /\ UNCHANGED stored /\ Other

-----------------------------------------------------------------------------

\* The start of a close, under the service lock
Close ==
    /\ open /\ open' = FALSE
    /\ stored' = None /\ latch' = NoLatch /\ set' = set \cup ({latch} \ {NoLatch})
    /\ UNCHANGED <<expired, task, calls, attempts, latches>>

Expire ==
    /\ \E n \in 1..attempts : n \notin expired /\ expired' = expired \cup {n}
    /\ UNCHANGED <<open, stored, latch, set, task, calls, attempts, latches>>

Step(t) ==
    \/ Guard(t) \/ StartLooks(t) \/ Status(t) \/ Confirm(t) \/ WorkOnStage(t) \/ Verify(t)
    \/ Observe(t) \/ Advance(t) \/ Put(t) \/ Signal(t) \/ Reset(t) \/ Take(t) \/ RunTool(t)
    \/ UpxTest(t) \/ UpxUnpack(t) \/ Tested(t) \/ Stopped(t) \/ Probe(t) \/ Score(t)
    \/ Refresh(t) \/ Finish(t)

Next ==
    \/ \E t \in Tools : Step(t) \/ \E call \in Calls : Begin(t, call)
    \/ Close \/ Expire

Spec == Init /\ [][Next]_vars /\ \A t \in Tools : WF_vars(Step(t))

-----------------------------------------------------------------------------
(* Properties *)

(* A session that has closed keeps no latch, however its close falls among  *)
(* the calls that look for one (service.py:983), and whatever tool it was   *)
(* running can be stopped.                                                  *)
LatchesFreed ==
    ~open => /\ latch = NoLatch
             /\ \A t \in Tools : task[t].pc \in {"test", "unpack"} /\ task[t].held = latches
                                   => task[t].held \in set

(* tests/unit/test_service_unpack_paths.py:586: a start that is told to     *)
(* replace the active attempt restarts the orchestration.                   *)
ReplaceRestarts ==
    \A t \in Tools : Call(t) = "replace" /\ At(t, "put") => task[t].st.id = task[t].mine
=============================================================================
