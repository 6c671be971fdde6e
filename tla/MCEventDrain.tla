---------------------------- MODULE MCEventDrain ----------------------------
(***************************************************************************)
(* Instances for TLC of what runs against the debugger's plugin.  The way  *)
(* of its events (EventDrain), with the background drain and, as Alone,    *)
(* without it over two debuggers one after the other; its methods, its     *)
(* search for import tables, and the calls that inspect a target through   *)
(* it.                                                                     *)
(* They are explored side by side: a behaviour chooses its part at the     *)
(* start.  The events use the variables of EventDrain, the other parts     *)
(* x1, x2, ..., each under the names given below.                          *)
(***************************************************************************)
EXTENDS EventDrain

VARIABLES part, x1, x2, x3, x4, x5, x6, x7, x8, x9, x10, x11, x12, x13

xs  == <<x1, x2, x3, x4, x5, x6, x7, x8, x9, x10, x11, x12, x13>>
all == <<vars, part, xs>>

OneCaller == {"call"}
Both      == {"pump", "call"}
MCRounds  == [pump |-> 2, call |-> 2, poll |-> 1]

Alone == INSTANCE EventDrain WITH
    Drainers <- OneCaller, MaxSeq <- 6, MaxBroken <- 1, MaxLives <- 2, MaxFaults <- 0

Rpc == INSTANCE DebuggerRpc WITH
    Last <- 2, Tids <- {1, 2}, RestoreLimit <- 1, Chunks <- 2, MaxCalls <- 4,
    deb <- x1, points <- x2, patched <- x3, loaded <- x4, dump <- x5, partial <- x6,
    final <- x7, rec <- x8, quota <- x9, answer <- x10, before <- x11, known <- x12,
    calls <- x13

\* One call in the first chunk, one across its border, two in the others
CallsTo(to) == [i \in 1..4 |-> [at |-> i - 1, crosses |-> i = 2, to |-> to[i]]]
SomeCalls   == {{}, {CallsTo(<<1, 3, 3, 4>>)[i] : i \in 1..4}}

Scan == INSTANCE ImportScan WITH
    Slots <- 5, Chunk <- 2, Values <- {1, 2, 3}, Exports <- <<{1}, {1, 2, 3}>>,
    MaxCatalog <- 2, MaxGap <- 1, Sites <- SomeCalls,
    mem <- x1, unread <- x2, calls <- x3, catalog <- x4, module <- x5, at <- x6,
    current <- x7, found <- x8, hits <- x9, through <- x10

Look == INSTANCE Inspect WITH
    Callers <- {"a", "b"}, MaxCalls <- 3,
    at <- x1, told <- x2, file <- x3, loaded <- x4, lock <- x5, current <- x6,
    resync <- x7, missed <- x8, wiped <- x9, row <- x11, orphan <- x12, calls <- x13

InBackground == "pump" \in DOMAIN pc

-----------------------------------------------------------------------------

Zero10 == x10 = 0
Zero11 == x11 = 0 /\ x12 = 0 /\ x13 = 0
Zero   == /\ x1 = 0 /\ x2 = 0 /\ x3 = 0 /\ x4 = 0 /\ x5 = 0 /\ x6 = 0 /\ x7 = 0
          /\ x8 = 0 /\ x9 = 0 /\ Zero10 /\ Zero11

EitherInit ==
    \/ part = "events" /\ (Init \/ Alone!Init) /\ Zero
    \/ part = "methods" /\ Rpc!Init /\ Alone!Init
    \/ part = "scan" /\ Scan!Init /\ Zero11 /\ Alone!Init
    \/ part = "inspect" /\ Look!Init /\ Zero10 /\ Alone!Init

Of(name, step, rest) == part = name /\ step /\ UNCHANGED <<part, rest>>

EitherNext ==
    \/ Of("events", InBackground /\ Next, xs)
    \/ Of("events", ~InBackground /\ Alone!Next, xs)
    \/ Of("methods", Rpc!Next, vars)
    \/ Of("scan", Scan!Next, <<vars, x11, x12, x13>>)
    \/ Of("inspect", Look!Next, <<vars, x10>>)

EitherSpec ==
    /\ EitherInit /\ [][EitherNext]_all
    /\ WF_all(Of("events", InBackground /\ PumpStep, xs))

\* EventDrain as its configuration has it
EventsSpec ==
    Init /\ part = "events" /\ Zero /\ [][Of("events", Next, xs)]_all

-----------------------------------------------------------------------------
(* The properties of the modules *)

(* EventDrain.PumpKeepsUp, where there is a pump: it drains the ring.      *)
PumpReachesEnd ==
    InBackground /\ head = MaxSeq ~> ~InBackground \/ dcur = MaxSeq

(* DebuggerRpc.ThreadKept, PatchesCounted, FinalIsWhole and EndIsKept: the *)
(* methods of the plugin leave and tell what they say they do.             *)
(* Inspect.DumpsAreFresh and FilesMatchAnswers: dumps follow a list of     *)
(* modules that is not stale, and a dump is registered whole or leaves     *)
(* nothing.                                                                *)
TargetIsToldTruly ==
    /\ part = "methods" => /\ Rpc!ThreadKept /\ Rpc!PatchesCounted
                           /\ Rpc!FinalIsWhole /\ Rpc!EndIsKept
    /\ part = "inspect" => Look!DumpsAreFresh /\ Look!FilesMatchAnswers

(* ImportScan.FindsAll and CatalogBounded: the search offers every import  *)
(* table there is, and only those.                                         *)
ImportsFound ==
    part = "scan" => Scan!FindsAll /\ Scan!CatalogBounded
=============================================================================
