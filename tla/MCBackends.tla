----------------------------- MODULE MCBackends -----------------------------
(***************************************************************************)
(* Small instances of the systems around a session's backends: the x64dbg  *)
(* and IDA clients, a navigation, the breakpoints and the traces of a      *)
(* debugger, a browser, a proxy, an unpacking, the artifact budget, the    *)
(* run of a command line tool, the supervisor of the whole process, the    *)
(* installer of what it needs, the web page that follows a run and the     *)
(* provider that answers it.                                               *)
(* They do not call one another, so one run explores them side by side: a  *)
(* behaviour chooses its system at the start, and all use the variables    *)
(* v1, v2, ..., each under the names given below.                          *)
(***************************************************************************)
EXTENDS Integers

CONSTANTS c1, c2

VARIABLES
    system,
    v1, v2, v3, v4, v5, v6, v7, v8, v9, v10,
    v11, v12, v13, v14, v15, v16, v17, v18, v19, v20

\* The variables from the sixth on, which not every system uses
from18 == <<v18, v19, v20>>
from17 == <<v17, from18>>
from14 == <<v14, v15, v16, from17>>
from13 == <<v13, from14>>
from12 == <<v12, from13>>
from11 == <<v11, from12>>
from10 == <<v10, from11>>
from9  == <<v9, from10>>
from6  == <<v6, v7, v8, from9>>
vars   == <<system, v1, v2, v3, v4, v5, from6>>

Threads == {c1, c2}


Xdbg == INSTANCE XdbgRpc WITH
    Callers <- Threads, MaxOps <- 3, MaxQuestions <- 2,
    at <- v1, call <- v2, op <- v3, started <- v4, told <- v5, tickets <- v6,
    server <- v7, closed <- v8, alive <- v9, down <- v10, queue <- v11,
    effects <- v12, asked <- v13, sent <- v14, holder <- v15, up <- v16,
    transport <- v17, job <- v18, cancelled <- v19, done <- v20

Ida == INSTANCE IdaWorker WITH
    Callers <- Threads, MaxOps <- 3, Batches <- {2}, MaxNoise <- 2, Capacity <- 2,
    at <- v1, call <- v2, op <- v3, started <- v4, told <- v5, tickets <- v6,
    work <- v7, closed <- v8, alive <- v9, messages <- v10, overflow <- v11,
    edits <- v12, saved <- v13, input <- v14, holder <- v15, noise <- v16,
    said <- v17

Nav == INSTANCE Navigation WITH
    Users <- Threads, MaxCalls <- 3, MaxEvents <- 3, Ring <- 2, Budget <- 2, MaxFaults <- 1,
    at <- v1, doing <- v2, calls <- v3, batch <- v4, cur <- v5, expired <- v6,
    stop <- v7, lock <- v8, wf <- v9, kinds <- v10, deb <- v11, faults <- v12

Bpt == INSTANCE Breakpoints WITH
    Intents <- {1, 2}, Bases <- {10, 20}, Rvas <- {0, 1},
    MaxCalls <- 3, MaxEvents <- 2, MaxFaults <- 1,
    doing <- v1, intents <- v2, bound <- v3, mod <- v4, gen <- v5, failed <- v6,
    deb <- v7, pending <- v8, gap <- v9, unanswered <- v10, calls <- v11,
    events <- v12, faults <- v13

Tra == INSTANCE Trace WITH
    Callers <- Threads, MaxStarts <- 2, MaxCalls <- 3, MaxWorkers <- 2,
    at <- v1, call <- v2, calls <- v3, session <- v4, runtime <- v5, lock <- v6,
    cur <- v7, made <- v8, active <- v9, file <- v10, sure <- v11, worker <- v12

Web == INSTANCE Browser WITH
    Callers <- Threads, MaxCalls <- 3, MaxOpens <- 2,
    at <- v1, mine <- v2, calls <- v3, closing <- v4, slot <- v5, opens <- v6,
    reaped <- v7, wedged <- v8, shut <- v9, driver <- v10, queue <- v11

Prx == INSTANCE Proxy WITH
    Callers <- Threads, Sessions <- {1}, MaxCalls <- 3, MaxStarts <- 2,
    at <- v1, mine <- v2, calls <- v3, closing <- v4, slot <- v5, made <- v6,
    thread <- v7, master <- v8, port <- v9, left <- v10

Unp == INSTANCE Unpack WITH
    Tools <- Threads, MaxTools <- 2,
    task <- v1, open <- v2, calls <- v3, latch <- v4, set <- v5, expired <- v6,
    stored <- v7, attempts <- v8, latches <- v9

Art == INSTANCE Retention WITH
    Writers <- Threads, Sizes <- {1, 5}, Budget <- 4, MaxFiles <- 3, MaxFaults <- 1,
    at <- v1, doing <- v2, made <- v3, size <- v4, rows <- v5, busy <- v6,
    pending <- v7, skipped <- v8, missed <- v9, faults <- v10

Sup == INSTANCE Supervisor WITH
    MaxSpawns <- 3, RapidLimit <- 2, RestartLimit <- 3, StrikeLimit <- 2, SupProbes <- TRUE,
    proc <- v1, graced <- v2, sup <- v3, spawned <- v4, tied <- v5, ready <- v6,
    work <- v7, ended <- v8

Run == INSTANCE ToolRun WITH
    MaxHelpers <- 2,
    proc <- v1, why <- v2, answer <- v3, pc <- v4, code <- v5, known <- v6,
    stop <- v7, late <- v8

Ins == INSTANCE Installer WITH
    Installers <- {c1}, Files <- {0, 1, 2}, Manifest <- 0, Mirrors <- 2, MaxRuns <- 3,
    archive <- v1, final <- v2, own <- v3, runs <- v4, told <- v5

Str == INSTANCE RunStream WITH
    Runs <- {1, 2}, Chats <- {1, 2}, MaxEvents <- 3, MaxAppends <- 3, Asks <- {2},
    Keep <- 2, Window <- 1, Tries <- 2, MaxTrouble <- 1,
    log <- v1, status <- v2, chat <- v3, conn <- v4, consumer <- v5, sleepers <- v6,
    cursor <- v7, page <- v8, saved <- v9, posted <- v10, asked <- v11, seen <- v12,
    shown <- v13, repeated <- v14, replayed <- v15, cut <- v16, trouble <- v17

Prv == INSTANCE ProviderStream WITH
    MaxAttempts <- 3, Texts <- 2, Calls <- 2,
    at <- v1, attempt <- v2, form <- v3, sent <- v4, whole <- v5, emitted <- v6,
    saw <- v7, fragments <- v8, text <- v9, cut <- v10

\* A lock is told to be free by a name that no thread has
ASSUME ThreadsAreNamed ==
    Xdbg!Free \notin Threads /\ Ida!Free \notin Threads /\ Tra!Nobody \notin Threads

-----------------------------------------------------------------------------

Zero18 == v18 = 0 /\ v19 = 0 /\ v20 = 0
Zero17 == v17 = 0 /\ Zero18
Zero14 == v14 = 0 /\ v15 = 0 /\ v16 = 0 /\ Zero17
Zero13 == v13 = 0 /\ Zero14
Zero12 == v12 = 0 /\ Zero13
Zero11 == v11 = 0 /\ Zero12
Zero10 == v10 = 0 /\ Zero11
Zero9  == v9 = 0 /\ Zero10
Zero6  == v6 = 0 /\ v7 = 0 /\ v8 = 0 /\ Zero9

Init ==
    \/ system = "xdbg" /\ Xdbg!Init
    \/ system = "ida" /\ Ida!Init /\ Zero18
    \/ system = "navigation" /\ Nav!Init /\ Zero13
    \/ system = "breakpoints" /\ Bpt!Init /\ Zero14
    \/ system = "trace" /\ Tra!Init /\ Zero13
    \/ system = "browser" /\ Web!Init /\ Zero12
    \/ system = "proxy" /\ Prx!Init /\ Zero11
    \/ system = "unpacking" /\ Unp!Init /\ Zero10
    \/ system = "artifacts" /\ Art!Init /\ Zero11
    \/ system = "supervisor" /\ Sup!Init /\ Zero9
    \/ system = "tool" /\ Run!Init /\ Zero9
    \/ system = "install" /\ Ins!Init /\ Zero6
    \/ system = "stream" /\ Str!Init /\ Zero18
    \/ system = "provider" /\ Prv!Init /\ Zero11

\* A step of one system leaves alone what the system does not use
OfXdbg(step) == system = "xdbg" /\ step /\ UNCHANGED system
OfIda(step)  == system = "ida" /\ step /\ UNCHANGED <<system, from18>>
OfNav(step)  == system = "navigation" /\ step /\ UNCHANGED <<system, from13>>
OfBpt(step)  == system = "breakpoints" /\ step /\ UNCHANGED <<system, from14>>
OfTra(step)  == system = "trace" /\ step /\ UNCHANGED <<system, from13>>
OfWeb(step)  == system = "browser" /\ step /\ UNCHANGED <<system, from12>>
OfPrx(step)  == system = "proxy" /\ step /\ UNCHANGED <<system, from11>>
OfUnp(step)  == system = "unpacking" /\ step /\ UNCHANGED <<system, from10>>
OfArt(step)  == system = "artifacts" /\ step /\ UNCHANGED <<system, from11>>
OfSup(step)  == system = "supervisor" /\ step /\ UNCHANGED <<system, from9>>
OfRun(step)  == system = "tool" /\ step /\ UNCHANGED <<system, from9>>
OfIns(step)  == system = "install" /\ step /\ UNCHANGED <<system, from6>>
OfStr(step)  == system = "stream" /\ step /\ UNCHANGED <<system, from18>>
OfPrv(step)  == system = "provider" /\ step /\ UNCHANGED <<system, from11>>

Next ==
    \/ OfXdbg(Xdbg!Next) \/ OfIda(Ida!Next) \/ OfNav(Nav!Next) \/ OfBpt(Bpt!Next)
    \/ OfTra(Tra!Next) \/ OfWeb(Web!Next) \/ OfPrx(Prx!Next) \/ OfUnp(Unp!Next)
    \/ OfArt(Art!Next) \/ OfSup(Sup!Next) \/ OfRun(Run!Next) \/ OfIns(Ins!Next)
    \/ OfStr(Str!Next) \/ OfPrv(Prv!Next)

\* The fairness of the specifications: threads run, deadlines pass
Runs(c) ==
    \/ OfXdbg(Xdbg!Step(c)) \/ OfIda(Ida!Step(c)) \/ OfNav(Nav!Step(c))
    \/ OfWeb(Web!Step(c)) \/ OfPrx(Prx!Step(c))
    \/ OfSup(Sup!Supervise) \/ OfRun(Run!RunStep)

TimePasses(c) == OfNav(Nav!Expire(c)) \/ OfSup(Sup!GraceEnds) \/ OfRun(Run!Deadline)

Spec ==
    /\ Init /\ [][Next]_vars
    /\ \A c \in Threads : WF_vars(Runs(c)) /\ WF_vars(TimePasses(c))

-----------------------------------------------------------------------------
(* The properties of the modules *)

(* XdbgRpc.ToldTheTruth and OnceInOrder: what callers are told of their     *)
(* calls is true, and calls take effect once, in order.  IdaWorker          *)
(* AnswersMatch and ClosedIsSaved: an answer belongs to its call, and what  *)
(* succeeded before a close is saved by it.  Navigation.CursorsAgree and    *)
(* StopsAtFirst: the cursors stay together, and where a navigation is told  *)
(* to have stopped is the first event of its pattern.                       *)
LinksTellTheTruth ==
    /\ system = "xdbg" => Xdbg!ToldTheTruth /\ Xdbg!OnceInOrder
    /\ system = "ida" => Ida!AnswersMatch /\ Ida!ClosedIsSaved
    /\ system = "navigation" => Nav!CursorsAgree /\ Nav!StopsAtFirst

(* Whoever follows a stream keeps in step with it.                          *)
(* RunStream.NoHoles, ShownOnce and ActiveIsFollowed: the page is given the *)
(* events of a run without a hole, shows them once, and follows the run it  *)
(* calls active.  ProviderStream.OneAnswer and WholeAnswer: the run sees    *)
(* one answer of its provider, once, and all of it.                         *)
(* Breakpoints.InStep: what is armed is what the intents ask for.           *)
FollowersInStep ==
    /\ system = "stream" => Str!NoHoles /\ Str!ShownOnce /\ Str!ActiveIsFollowed
    /\ system = "provider" => Prv!OneAnswer /\ Prv!WholeAnswer
    /\ system = "breakpoints" => Bpt!InStep

(* Unpack.LatchesFreed: a closed session keeps no latch.                    *)
LatchesFreed == system = "unpacking" => Unp!LatchesFreed

(* Retention.OvershootBounded: the store exceeds its budget by less than a  *)
(* burst.                                                                   *)
OvershootBounded == system = "artifacts" => Art!OvershootBounded

(* Trace.RecordingIsKnown and ConfirmedIsFinal: nothing records that no     *)
(* call will stop, and the file of a confirmed stop stays as registered.    *)
TraceFiles == system = "trace" => Tra!RecordingIsKnown /\ Tra!ConfirmedIsFinal

(* Browser.DriversHeld and Proxy.ProxiesHeld with their ClosedHasNone,      *)
(* Supervisor.NothingLeft and ToolRun.NothingOutlives: what was started is  *)
(* held by whoever will stop it, and nothing is left of what was stopped.   *)
NothingLeft ==
    /\ system = "browser" => Web!DriversHeld /\ Web!ClosedHasNone
    /\ system = "proxy" => Prx!ProxiesHeld /\ Prx!ClosedHasNone
    /\ system = "supervisor" => Sup!NothingLeft
    /\ system = "tool" => Run!NothingOutlives

(* Installer.WholeOrAbsent: what is found installed is complete.            *)
WholeOrAbsent == system = "install" => Ins!WholeOrAbsent

(* CallsEnd of XdbgRpc, IdaWorker, Browser and Proxy, EveryCallEnds         *)
(* of Navigation, RunEnds of ToolRun: every call ends, whatever the other   *)
(* process does.                                                            *)
Waits(c) ==
    \/ system \in {"xdbg", "ida", "navigation", "browser", "proxy"} /\ v1[c] # "idle"
    \/ system = "tool" /\ Run!Running

EveryCallEnds == []<>(\A c \in Threads : ~Waits(c))

(* Supervisor.WedgedIsReplaced: a child that stops answering is replaced.   *)
WedgedIsReplaced == []<>~(system = "supervisor" /\ \E k \in Sup!Kids : Sup!Unserved(k))
=============================================================================
