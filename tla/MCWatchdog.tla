----------------------------- MODULE MCWatchdog -----------------------------
(***************************************************************************)
(* Instances for TLC of the watchdog over the health monitor, and of two   *)
(* systems of a debugger session that several callers use at once: the     *)
(* calls that make the debuggee run, and the profile a debugger hides      *)
(* under.                                                                  *)
(* They are explored side by side: a behaviour chooses its part at the     *)
(* start.  The watchdog uses the variables of Watchdog, the other parts    *)
(* x1, x2, ..., each under the names given below.                          *)
(***************************************************************************)
EXTENDS Watchdog

CONSTANTS b1, t1, t2, asker

OneBackend == {b1}
TwoSweepers == {t1, t2}

VARIABLES part, x1, x2, x3, x4, x5, x6, x7, x8, x9, x10, x11, x12, x13, x14

from10 == <<x10, x11, x12, x14>>
xs     == <<x1, x2, x3, x4, x5, x6, x7, x8, x9, from10, x13>>
all    == <<vars, part, xs>>

Threads == {"a", "b"}
Targets == {"s1", "s2"}
OneArch == [s \in Targets |-> "x64"]

Ctl == INSTANCE RunControl WITH
    Callers <- Threads, Ring <- 2, MaxCalls <- 2, MaxEvents <- 5,
    at <- x1, plan <- x2, mark <- x3, moved <- x4, told <- x5, lock <- x6,
    current <- x7, deb <- x8, armed <- x9, pending <- x10, events <- x11,
    truth <- x12, calls <- x13, steps <- x14

Hid == INSTANCE Stealth WITH
    Callers <- Threads, Sessions <- Targets, Archs <- {"x64", "x86"},
    ArchOf <- OneArch, Profiles <- {"vmp"}, MaxCalls <- 2,
    setup <- x2, ini <- x3, phase <- x4, under <- x6, at <- x1, doing <- x7,
    told <- x5, stale <- x8, raced <- x9, calls <- x13

-----------------------------------------------------------------------------

Zero10 == x10 = 0 /\ x11 = 0 /\ x12 = 0 /\ x14 = 0
Zero   == /\ x1 = 0 /\ x2 = 0 /\ x3 = 0 /\ x4 = 0 /\ x5 = 0 /\ x6 = 0 /\ x7 = 0
          /\ x8 = 0 /\ x9 = 0 /\ x13 = 0 /\ Zero10

\* The watchdog of the other parts is off
Off == Init /\ policy = "off"

PartsInit ==
    \/ part = "watchdog" /\ Init /\ Zero
    \/ part = "control" /\ Ctl!Init /\ Off
    \/ part = "stealth" /\ Hid!Init /\ Zero10 /\ Off

Of(name, step, rest) == part = name /\ step /\ UNCHANGED <<part, rest>>

Watches(step) == Of("watchdog", step, xs)

PartsNext ==
    \/ Watches(Next)
    \/ Of("control", Ctl!Next, vars)
    \/ Of("stealth", Hid!Next, <<vars, from10>>)

\* The fairness of Watchdog
PartsSpec ==
    /\ PartsInit /\ [][PartsNext]_all
    /\ \A t \in Sweepers : WF_all(Watches(Sweep(t) /\ UNCHANGED watchVars))
    /\ WF_all(Watches((CloseLooks \/ StopFlag \/ StopJoin \/ StopRemember)
                      /\ UNCHANGED watchVars))

-----------------------------------------------------------------------------
(* The properties of the modules *)

(* RunControl.StopIsNew: a resume or a step told to have ended in a stop    *)
(* was executed.  Stealth.FileIsWhatRuns and ToldWhatRuns: the file of      *)
(* profiles, what a debugger hides under and what callers were told agree.  *)
RunsAsTold ==
    /\ part = "control" => Ctl!StopIsNew
    /\ part = "stealth" => Hid!FileIsWhatRuns /\ Hid!ToldWhatRuns
=============================================================================
