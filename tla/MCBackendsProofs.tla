-------------------------- MODULE MCBackendsProofs --------------------------
(***************************************************************************)
(* What the run MCBackends checks of the links, a navigation, the latches, *)
(* the traces, the things started and the installations, proved for its    *)
(* instances. BackendProofs and DebuggerProofs prove it of each system for *)
(* any value of its constants; here their invariants are taken over to the *)
(* systems under the names v1, v2, ... that the run gives their variables, *)
(* and to a step of whichever system the behaviour chose.                  *)
(***************************************************************************)
EXTENDS MCBackends, TLAPS

\* Systems that have a variable of the same name have it at the same place
Bk == INSTANCE BackendProofs WITH
    Callers <- Threads, MaxOps <- 3, MaxQuestions <- 2, Batches <- {2},
    MaxNoise <- 2, Capacity <- 2, Tools <- Threads, MaxTools <- 2,
    MaxCalls <- 3, MaxOpens <- 2, Sessions <- {1}, MaxStarts <- 2,
    MaxSpawns <- 3, RapidLimit <- 2, RestartLimit <- 3, StrikeLimit <- 2,
    SupProbes <- TRUE, MaxHelpers <- 2, Installers <- {c1},
    Files <- {0, 1, 2}, Manifest <- 0, Mirrors <- 2, MaxRuns <- 3,
    holder <- v15, closed <- v8, transport <- v17, alive <- v9, at <- v1,
    call <- v2, op <- v3, asked <- v13, sent <- v14, started <- v4,
    tickets <- v6, server <- v7, up <- v16, down <- v10, queue <- v11,
    job <- v18, cancelled <- v19, done <- v20, effects <- v12, told <- v5,
    messages <- v10, overflow <- v11, input <- v14, work <- v7, edits <- v12,
    saved <- v13, noise <- v16, open <- v2, stored <- v7, latch <- v4,
    set <- v5, expired <- v6, task <- v1, calls <- v3, attempts <- v8,
    latches <- v9, mine <- v2, closing <- v4, slot <- v5, opens <- v6,
    wedged <- v8, shut <- v9, driver <- v10, reaped <- v7, made <- v6,
    thread <- v7, master <- v8, port <- v9, left <- v10, sup <- v3,
    spawned <- v4, proc <- v1, tied <- v5, ready <- v6, graced <- v2,
    ended <- v8, pc <- v4, why <- v2, answer <- v3, code <- v5, known <- v6,
    stop <- v7, late <- v8, archive <- v1, final <- v2, own <- v3, runs <- v4,
    Users <- Threads, MaxEvents <- 3, Ring <- 2, Budget <- 2, MaxFaults <- 1,
    lock <- v8, cur <- v5, wf <- v9, kinds <- v10, deb <- v11, doing <- v2,
    batch <- v4, faults <- v12, said <- v17

\* What the traces are about; the constants and variables of the other
\* systems there do not matter
Trace == INSTANCE DebuggerProofs WITH
    Callers <- Threads, MaxStarts <- 2, MaxCalls <- 3, MaxWorkers <- 2,
    at <- v1, call <- v2, calls <- v3, session <- v4, runtime <- v5, lock <- v6,
    cur <- v7, made <- v8, active <- v9, file <- v10, sure <- v11, worker <- v12,
    Ring <- 1, MaxEvents <- 1, Sessions <- {}, Archs <- {}, ArchOf <- <<>>,
    Profiles <- {}, Last <- 1, Tids <- {}, RestoreLimit <- 1, Chunks <- 1,
    MaxLooks <- 1, plan <- v1, mark <- v1, moved <- v1, told <- v1,
    current <- v1, deb <- v1, armed <- v1, pending <- v1, steps <- v1,
    events <- v1, truth <- v1, setup <- v1, ini <- v1, phase <- v1, under <- v1, doing <- v1,
    stale <- v1, raced <- v1, resync <- v1, missed <- v1, wiped <- v1,
    loaded <- v1, row <- v1, orphan <- v1, points <- v1, patched <- v1,
    dump <- v1, partial <- v1, final <- v1, rec <- v1, quota <- v1,
    answer <- v1, before <- v1, known <- v1

-----------------------------------------------------------------------------
(* The x64dbg client *)

(* The x64dbg client of the instance starts with its invariant.             *)
LEMMA XdbgBegins == ASSUME Xdbg!Init PROVE Bk!XdbgInv
<1>0. Bk!XdbgConstantsOK
  BY ThreadsAreNamed DEF Bk!XdbgConstantsOK, Xdbg!Free, Bk!Xdbg!Free
<1>1. Bk!Xdbg!Init
  BY DEF
      Xdbg!Free, Bk!Xdbg!Free, Xdbg!NoJob, Bk!Xdbg!NoJob, Xdbg!Init, Bk!Xdbg!Init
<1> QED BY <1>0, <1>1, Bk!XdbgInvInit

(* Its steps keep the invariant,                                            *)
LEMMA XdbgGoesOn == ASSUME Bk!XdbgInv, Xdbg!Next PROVE Bk!XdbgInv'
<1>0. Bk!XdbgConstantsOK
  BY ThreadsAreNamed DEF Bk!XdbgConstantsOK, Xdbg!Free, Bk!Xdbg!Free
<1>1. Bk!Xdbg!Next
  BY DEF
      Xdbg!client, Bk!Xdbg!client, Xdbg!worker, Bk!Xdbg!worker, Xdbg!Free, Bk!Xdbg!Free, Xdbg!Ops,
      Bk!Xdbg!Ops, Xdbg!NoJob, Bk!Xdbg!NoJob, Xdbg!Frame, Bk!Xdbg!Frame, Xdbg!Tell, Bk!Xdbg!Tell,
      Xdbg!Goto, Bk!Xdbg!Goto, Xdbg!Leave, Bk!Xdbg!Leave, Xdbg!HangUp, Bk!Xdbg!HangUp, Xdbg!Call,
      Bk!Xdbg!Call, Xdbg!Unusable, Bk!Xdbg!Unusable, Xdbg!Locks, Bk!Xdbg!Locks, Xdbg!Enter,
      Bk!Xdbg!Enter, Xdbg!Connect, Bk!Xdbg!Connect, Xdbg!Watch, Bk!Xdbg!Watch, Xdbg!Fail,
      Bk!Xdbg!Fail, Xdbg!Send, Bk!Xdbg!Send, Xdbg!Awaits, Bk!Xdbg!Awaits, Xdbg!Expires,
      Bk!Xdbg!Expires, Xdbg!Drop, Bk!Xdbg!Drop, Xdbg!Good, Bk!Xdbg!Good, Xdbg!Answer,
      Bk!Xdbg!Answer, Xdbg!Exit, Bk!Xdbg!Exit, Xdbg!Reply, Bk!Xdbg!Reply, Xdbg!ReadFrame,
      Bk!Xdbg!ReadFrame, Xdbg!LoseClient, Bk!Xdbg!LoseClient, Xdbg!JobDone, Bk!Xdbg!JobDone,
      Xdbg!DispatchTimeout, Bk!Xdbg!DispatchTimeout, Xdbg!MainTakes, Bk!Xdbg!MainTakes,
      Xdbg!MainFinishes, Bk!Xdbg!MainFinishes, Xdbg!Die, Bk!Xdbg!Die, Xdbg!Step, Bk!Xdbg!Step,
      Xdbg!Next, Bk!Xdbg!Next, Xdbg!Range, Bk!Xdbg!Range
<1> QED BY <1>0, <1>1, Bk!XdbgInvStep

(* and so does a step that leaves it alone.                                 *)
LEMMA XdbgRests == ASSUME Bk!XdbgInv, UNCHANGED vars PROVE Bk!XdbgInv'
<1>0. Bk!XdbgConstantsOK
  BY ThreadsAreNamed DEF Bk!XdbgConstantsOK, Xdbg!Free, Bk!Xdbg!Free
<1>1. UNCHANGED Bk!Xdbg!vars
  BY DEF vars, from6, from9, from10, from11, from12, from13, from14, from17, from18,
      Xdbg!client, Bk!Xdbg!client, Xdbg!worker, Bk!Xdbg!worker, Xdbg!vars, Bk!Xdbg!vars
<1> QED BY <1>0, <1>1, Bk!XdbgInvStep

(* What is to be shown follows from the invariant.                          *)
LEMMA XdbgShows == ASSUME Bk!XdbgInv PROVE Xdbg!ToldTheTruth /\ Xdbg!OnceInOrder
<1>1. Bk!Xdbg!ToldTheTruth /\ Bk!Xdbg!OnceInOrder
  BY Bk!XdbgImplies
<1> QED BY <1>1 DEF
      Xdbg!Pending, Bk!Xdbg!Pending, Xdbg!ToldTheTruth, Bk!Xdbg!ToldTheTruth, Xdbg!OnceInOrder,
      Bk!Xdbg!OnceInOrder, Xdbg!Range, Bk!Xdbg!Range

-----------------------------------------------------------------------------
(* The IDA client *)

(* The IDA client of the instance starts with its invariant.                *)
LEMMA IdaBegins == ASSUME Ida!Init PROVE Bk!IdaInv
<1>0. Bk!IdaConstantsOK
  BY ThreadsAreNamed DEF Bk!IdaConstantsOK, Ida!Free, Bk!Ida!Free
<1>1. Bk!Ida!Init
  BY DEF
      Ida!Free, Bk!Ida!Free, Ida!NoWork, Bk!Ida!NoWork, Ida!Init, Bk!Ida!Init
<1> QED BY <1>0, <1>1, Bk!IdaInvInit

(* Its steps keep the invariant,                                            *)
LEMMA IdaGoesOn == ASSUME Bk!IdaInv, Ida!Next PROVE Bk!IdaInv'
<1>0. Bk!IdaConstantsOK
  BY ThreadsAreNamed DEF Bk!IdaConstantsOK, Ida!Free, Bk!Ida!Free
<1>1. Bk!Ida!Next
  BY DEF
      Ida!client, Bk!Ida!client, Ida!worker, Bk!Ida!worker, Ida!Free, Bk!Ida!Free, Ida!Ops,
      Bk!Ida!Ops, Ida!NoWork, Bk!Ida!NoWork, Ida!Kill, Bk!Ida!Kill, Ida!Call, Bk!Ida!Call,
      Ida!Leave, Bk!Ida!Leave, Ida!Enter, Bk!Ida!Enter, Ida!Ended, Bk!Ida!Ended, Ida!Mine,
      Bk!Ida!Mine, Ida!Receive, Bk!Ida!Receive, Ida!Exit, Bk!Ida!Exit, Ida!Emit, Bk!Ida!Emit,
      Ida!Says, Bk!Ida!Says,
      Ida!Read, Bk!Ida!Read, Ida!Work, Bk!Ida!Work, Ida!Packed, Bk!Ida!Packed, Ida!Close,
      Bk!Ida!Close, Ida!Die, Bk!Ida!Die, Ida!Noise, Bk!Ida!Noise, Ida!Step, Bk!Ida!Step, Ida!Next,
      Bk!Ida!Next, Ida!Range, Bk!Ida!Range
<1> QED BY <1>0, <1>1, Bk!IdaInvStep

(* and so does a step that leaves it alone.                                 *)
LEMMA IdaRests == ASSUME Bk!IdaInv, UNCHANGED vars PROVE Bk!IdaInv'
<1>0. Bk!IdaConstantsOK
  BY ThreadsAreNamed DEF Bk!IdaConstantsOK, Ida!Free, Bk!Ida!Free
<1>1. UNCHANGED Bk!Ida!vars
  BY DEF vars, from6, from9, from10, from11, from12, from13, from14, from17, from18,
      Ida!client, Bk!Ida!client, Ida!worker, Bk!Ida!worker, Ida!vars, Bk!Ida!vars
<1> QED BY <1>0, <1>1, Bk!IdaInvStep

(* What is to be shown follows from the invariant.                          *)
LEMMA IdaShows == ASSUME Bk!IdaInv PROVE Ida!AnswersMatch /\ Ida!ClosedIsSaved
<1>1. Bk!Ida!AnswersMatch /\ Bk!Ida!ClosedIsSaved
  BY Bk!IdaImplies
<1> QED BY <1>1 DEF
      Ida!AnswersMatch, Bk!Ida!AnswersMatch, Ida!ClosedIsSaved, Bk!Ida!ClosedIsSaved, Ida!Range,
      Bk!Ida!Range

-----------------------------------------------------------------------------
(* The traces *)

(* The traces of the instance start with their invariant.                   *)
LEMMA TraBegins == ASSUME Tra!Init PROVE Trace!IInv
<1>0. Trace!ConstantsOK
  BY ThreadsAreNamed DEF Trace!ConstantsOK, Tra!Nobody, Trace!Nobody
<1>1. Trace!Init
  BY DEF
      Tra!Nobody, Trace!Nobody, Tra!None, Trace!None, Tra!States, Trace!States, Tra!Workers,
      Trace!Workers, Tra!NoWorker, Trace!NoWorker, Tra!NoCall, Trace!NoCall, Tra!Init, Trace!Init
<1> QED BY <1>0, <1>1, Trace!Starting

(* Its steps keep the invariant,                                            *)
LEMMA TraGoesOn == ASSUME Trace!IInv, Tra!Next PROVE Trace!IInv'
<1>0. Trace!ConstantsOK
  BY ThreadsAreNamed DEF Trace!ConstantsOK, Tra!Nobody, Trace!Nobody
<1>1. Trace!Next
  BY DEF
      Tra!service, Trace!service, Tra!Nobody, Trace!Nobody, Tra!None, Trace!None, Tra!Workers,
      Trace!Workers, Tra!NoWorker, Trace!NoWorker, Tra!NoCall, Trace!NoCall, Tra!At, Trace!At,
      Tra!GoTo, Trace!GoTo, Tra!Done, Trace!Done, Tra!Of, Trace!Of, Tra!Rt, Trace!Rt, Tra!Enter,
      Trace!Enter, Tra!Registered, Trace!Registered, Tra!Settled, Trace!Settled, Tra!Lock,
      Trace!Lock, Tra!Recording, Trace!Recording, Tra!Still, Trace!Still, Tra!Ordered,
      Trace!Ordered, Tra!Worker, Trace!Worker, Tra!Began, Trace!Began, Tra!Unmoved, Trace!Unmoved,
      Tra!Unlocks, Trace!Unlocks, Tra!Lost, Trace!Lost, Tra!Errs, Trace!Errs, Tra!Started,
      Trace!Started, Tra!StartFails, Trace!StartFails, Tra!Answer, Trace!Answer, Tra!Accepts,
      Trace!Accepts, Tra!Answered, Trace!Answered, Tra!Unanswered, Trace!Unanswered, Tra!Error,
      Trace!Error, Tra!StopAgain, Trace!StopAgain, Tra!Stopping, Trace!Stopping, Tra!Finalizes,
      Trace!Finalizes, Tra!Register, Trace!Register, Tra!Fail, Trace!Fail, Tra!Kill, Trace!Kill,
      Tra!Loss, Trace!Loss, Tra!LossOfFailed, Trace!LossOfFailed, Tra!Failed, Trace!Failed,
      Tra!Discard, Trace!Discard, Tra!LossOfDead, Trace!LossOfDead, Tra!Reopen, Trace!Reopen,
      Tra!Close, Trace!Close, Tra!CloseWorker, Trace!CloseWorker, Tra!LossOfClosed,
      Trace!LossOfClosed, Tra!Clear, Trace!Clear, Tra!Writes, Trace!Writes, Tra!StopsItself,
      Trace!StopsItself, Tra!ComesToStart, Trace!ComesToStart, Tra!Dies, Trace!Dies, Tra!Step,
      Trace!Step, Tra!Next, Trace!Next
<1> QED BY <1>0, <1>1, Trace!NextKeeps

(* and so does a step that leaves it alone.                                 *)
LEMMA TraRests == ASSUME Trace!IInv, UNCHANGED vars PROVE Trace!IInv'
<1>0. Trace!ConstantsOK
  BY ThreadsAreNamed DEF Trace!ConstantsOK, Tra!Nobody, Trace!Nobody
<1>1. UNCHANGED Trace!vars
  BY DEF vars, from6, from9, from10, from11, from12, from13, from14, from17, from18,
      Tra!vars, Trace!vars
<1> QED BY <1>0, <1>1, Trace!NextKeeps

(* What is to be shown follows from the invariant.                          *)
LEMMA TraShows == ASSUME Trace!IInv PROVE Tra!RecordingIsKnown /\ Tra!ConfirmedIsFinal
<1>0. Trace!ConstantsOK
  BY ThreadsAreNamed DEF Trace!ConstantsOK, Tra!Nobody, Trace!Nobody
<1>1. Trace!RecordingIsKnown /\ Trace!ConfirmedIsFinal
  BY <1>0, Trace!Implies
<1> QED BY <1>1 DEF
      Tra!None, Trace!None, Tra!Workers, Trace!Workers, Tra!At, Trace!At, Tra!RecordingIsKnown,
      Trace!RecordingIsKnown, Tra!ConfirmedIsFinal, Trace!ConfirmedIsFinal

-----------------------------------------------------------------------------
(* The browser *)

(* The browser of the instance starts with its invariant.                   *)
LEMMA WebBegins == ASSUME Web!Init PROVE Bk!WebInv
<1>1. Bk!Web!Init
  BY DEF
      Web!None, Bk!Web!None, Web!Opens, Bk!Web!Opens, Web!Empty, Bk!Web!Empty, Web!Init, Bk!Web!Init
<1> QED BY <1>1, Bk!WebStarts

(* Its steps keep the invariant,                                            *)
LEMMA WebGoesOn == ASSUME Bk!WebInv, Web!Next PROVE Bk!WebInv'
<1>1. Bk!Web!Next
  BY DEF
      Web!None, Bk!Web!None, Web!Opens, Bk!Web!Opens, Web!Empty, Bk!Web!Empty, Web!At, Bk!Web!At,
      Web!GoTo, Bk!Web!GoTo, Web!Done, Bk!Web!Done, Web!Takes, Bk!Web!Takes, Web!runners,
      Bk!Web!runners, Web!Puts, Bk!Web!Puts, Web!ShutsDown, Bk!Web!ShutsDown, Web!Reaps,
      Bk!Web!Reaps, Web!Begin, Bk!Web!Begin, Web!Open, Bk!Web!Open, Web!Use, Bk!Web!Use, Web!Close,
      Bk!Web!Close, Web!CloseSession, Bk!Web!CloseSession, Web!Reserve, Bk!Web!Reserve, Web!GivesUp,
      Bk!Web!GivesUp, Web!BuildLate, Bk!Web!BuildLate, Web!Abandon, Bk!Web!Abandon, Web!Reap,
      Bk!Web!Reap, Web!Release, Bk!Web!Release, Web!StillReserved, Bk!Web!StillReserved, Web!Place,
      Bk!Web!Place, Web!Recheck, Bk!Web!Recheck, Web!Pop, Bk!Web!Pop, Web!Ending, Bk!Web!Ending,
      Web!CloseLate, Bk!Web!CloseLate, Web!End, Bk!Web!End, Web!GetHandle, Bk!Web!GetHandle,
      Web!Call, Bk!Web!Call, Web!CallLate, Bk!Web!CallLate, Web!CallDone, Bk!Web!CallDone,
      Web!Head1, Bk!Web!Head1, Web!Waits, Bk!Web!Waits, Web!Answers, Bk!Web!Answers, Web!callers,
      Bk!Web!callers, Web!DriverStarts, Bk!Web!DriverStarts, Web!Built, Bk!Web!Built,
      Web!BuildFails, Bk!Web!BuildFails, Web!Serves, Bk!Web!Serves, Web!Closes, Bk!Web!Closes,
      Web!DriverDies, Bk!Web!DriverDies, Web!Step, Bk!Web!Step, Web!Runner, Bk!Web!Runner, Web!Next,
      Bk!Web!Next, Web!Cardinality, Bk!Web!Cardinality
<1> QED BY <1>1, Bk!WebStays

(* and so does a step that leaves it alone.                                 *)
LEMMA WebRests == ASSUME Bk!WebInv, UNCHANGED vars PROVE Bk!WebInv'
<1>1. UNCHANGED Bk!Web!vars
  BY DEF vars, from6, from9, from10, from11, from12, from13, from14, from17, from18,
      Web!vars, Bk!Web!vars
<1> QED BY <1>1, Bk!WebStays

(* What is to be shown follows from the invariant.                          *)
LEMMA WebShows == ASSUME Bk!WebInv PROVE Web!DriversHeld /\ Web!ClosedHasNone
<1>1. Bk!Web!DriversHeld /\ Bk!Web!ClosedHasNone
  BY Bk!WebImplies
<1> QED BY <1>1 DEF
      Web!None, Bk!Web!None, Web!Opens, Bk!Web!Opens, Web!Empty, Bk!Web!Empty, Web!At, Bk!Web!At,
      Web!Holds, Bk!Web!Holds, Web!DriversHeld, Bk!Web!DriversHeld, Web!ClosedHasNone,
      Bk!Web!ClosedHasNone, Web!Cardinality, Bk!Web!Cardinality

-----------------------------------------------------------------------------
(* The proxy *)

(* The proxy of the instance starts with its invariant.                     *)
LEMMA PrxBegins == ASSUME Prx!Init PROVE Bk!PrxInv
<1>1. Bk!Prx!Init
  BY DEF
      Prx!None, Bk!Prx!None, Prx!Made, Bk!Prx!Made, Prx!Idle, Bk!Prx!Idle, Prx!Init, Bk!Prx!Init
<1> QED BY <1>1, Bk!PrxStarts

(* Its steps keep the invariant,                                            *)
LEMMA PrxGoesOn == ASSUME Bk!PrxInv, Prx!Next PROVE Bk!PrxInv'
<1>1. Bk!Prx!Next
  BY DEF
      Prx!None, Bk!Prx!None, Prx!Made, Bk!Prx!Made, Prx!Idle, Bk!Prx!Idle, Prx!At, Bk!Prx!At,
      Prx!GoTo, Bk!Prx!GoTo, Prx!Done, Bk!Prx!Done, Prx!For, Bk!Prx!For, Prx!Of, Bk!Prx!Of,
      Prx!proxies, Bk!Prx!proxies, Prx!Begin, Bk!Prx!Begin, Prx!Counted, Bk!Prx!Counted, Prx!Start,
      Bk!Prx!Start, Prx!Stop, Bk!Prx!Stop, Prx!Close, Bk!Prx!Close, Prx!Reserve, Bk!Prx!Reserve,
      Prx!Probe, Bk!Prx!Probe, Prx!Waited, Bk!Prx!Waited, Prx!Fail, Bk!Prx!Fail, Prx!StillReserved,
      Bk!Prx!StillReserved, Prx!Recheck, Bk!Prx!Recheck, Prx!Again, Bk!Prx!Again, Prx!Pop,
      Bk!Prx!Pop, Prx!Drain, Bk!Prx!Drain, Prx!Joined, Bk!Prx!Joined, Prx!StopInstance,
      Bk!Prx!StopInstance, Prx!Join, Bk!Prx!Join, Prx!StopLate, Bk!Prx!StopLate, Prx!JoinLate,
      Bk!Prx!JoinLate, Prx!Moves, Bk!Prx!Moves, Prx!Builds, Bk!Prx!Builds, Prx!Listens,
      Bk!Prx!Listens, Prx!Fails, Bk!Prx!Fails, Prx!Ends, Bk!Prx!Ends, Prx!Step, Bk!Prx!Step,
      Prx!Next, Bk!Prx!Next, Prx!Cardinality, Bk!Prx!Cardinality
<1> QED BY <1>1, Bk!PrxStays

(* and so does a step that leaves it alone.                                 *)
LEMMA PrxRests == ASSUME Bk!PrxInv, UNCHANGED vars PROVE Bk!PrxInv'
<1>1. UNCHANGED Bk!Prx!vars
  BY DEF vars, from6, from9, from10, from11, from12, from13, from14, from17, from18,
      Prx!vars, Bk!Prx!vars
<1> QED BY <1>1, Bk!PrxStays

(* What is to be shown follows from the invariant.                          *)
LEMMA PrxShows == ASSUME Bk!PrxInv PROVE Prx!ProxiesHeld /\ Prx!ClosedHasNone
<1>1. Bk!Prx!ProxiesHeld /\ Bk!Prx!ClosedHasNone
  BY Bk!PrxImplies
<1> QED BY <1>1 DEF
      Prx!None, Bk!Prx!None, Prx!Made, Bk!Prx!Made, Prx!For, Bk!Prx!For, Prx!Of, Bk!Prx!Of,
      Prx!ProxiesHeld, Bk!Prx!ProxiesHeld, Prx!ClosedHasNone, Bk!Prx!ClosedHasNone, Prx!Cardinality,
      Bk!Prx!Cardinality

-----------------------------------------------------------------------------
(* The unpacking *)

(* The unpacking of the instance starts with its invariant.                 *)
LEMMA UnpBegins == ASSUME Unp!Init PROVE Bk!UnpIInv
<1>1. Bk!Unp!Init
  BY DEF
      Unp!NoLatch, Bk!Unp!NoLatch, Unp!None, Bk!Unp!None, Unp!Idle, Bk!Unp!Idle, Unp!Init,
      Bk!Unp!Init
<1> QED BY <1>1, Bk!UnpInvariantStarts

(* Its steps keep the invariant,                                            *)
LEMMA UnpGoesOn == ASSUME Bk!UnpIInv, Unp!Next PROVE Bk!UnpIInv'
<1>1. Bk!Unp!Next
  BY DEF
      Unp!NoLatch, Bk!Unp!NoLatch, Unp!None, Bk!Unp!None, Unp!Terminal, Bk!Unp!Terminal, Unp!Stages,
      Bk!Unp!Stages, Unp!Calls, Bk!Unp!Calls, Unp!Idle, Bk!Unp!Idle, Unp!Live, Bk!Unp!Live,
      Unp!Failed, Bk!Unp!Failed, Unp!Checked, Bk!Unp!Checked, Unp!Cancelled, Bk!Unp!Cancelled,
      Unp!Scored, Bk!Unp!Scored, Unp!Dumped, Bk!Unp!Dumped, Unp!Rebuilt, Bk!Unp!Rebuilt,
      Unp!Verified, Bk!Unp!Verified, Unp!Advanced, Bk!Unp!Advanced, Unp!At, Bk!Unp!At, Unp!Goes,
      Bk!Unp!Goes, Unp!Returns, Bk!Unp!Returns, Unp!Call, Bk!Unp!Call, Unp!Holds, Bk!Unp!Holds,
      Unp!Begin, Bk!Unp!Begin, Unp!Other, Bk!Unp!Other, Unp!Noted, Bk!Unp!Noted, Unp!Guard,
      Bk!Unp!Guard, Unp!StartLooks, Bk!Unp!StartLooks, Unp!Status, Bk!Unp!Status, Unp!Confirm,
      Bk!Unp!Confirm, Unp!WorkOnStage, Bk!Unp!WorkOnStage, Unp!Verify, Bk!Unp!Verify, Unp!Observe,
      Bk!Unp!Observe, Unp!Advance, Bk!Unp!Advance, Unp!Put, Bk!Unp!Put, Unp!MayMake, Bk!Unp!MayMake,
      Unp!Takes, Bk!Unp!Takes, Unp!Signal, Bk!Unp!Signal, Unp!Reset, Bk!Unp!Reset, Unp!Take,
      Bk!Unp!Take, Unp!Killed, Bk!Unp!Killed, Unp!RunTool, Bk!Unp!RunTool, Unp!ToolFails,
      Bk!Unp!ToolFails, Unp!UpxTest, Bk!Unp!UpxTest, Unp!UpxUnpack, Bk!Unp!UpxUnpack, Unp!Tested,
      Bk!Unp!Tested, Unp!Stopped, Bk!Unp!Stopped, Unp!Probe, Bk!Unp!Probe, Unp!Score, Bk!Unp!Score,
      Unp!Refreshed, Bk!Unp!Refreshed, Unp!Refresh, Bk!Unp!Refresh, Unp!Finish, Bk!Unp!Finish,
      Unp!Close, Bk!Unp!Close, Unp!Expire, Bk!Unp!Expire, Unp!Step, Bk!Unp!Step, Unp!Next,
      Bk!Unp!Next
<1> QED BY <1>1, Bk!UnpInvariantStays

(* and so does a step that leaves it alone.                                 *)
LEMMA UnpRests == ASSUME Bk!UnpIInv, UNCHANGED vars PROVE Bk!UnpIInv'
<1>1. UNCHANGED Bk!Unp!vars
  BY DEF vars, from6, from9, from10, from11, from12, from13, from14, from17, from18,
      Unp!vars, Bk!Unp!vars
<1> QED BY <1>1, Bk!UnpInvariantStays

(* What is to be shown follows from the invariant.                          *)
LEMMA UnpShows == ASSUME Bk!UnpIInv PROVE Unp!LatchesFreed
<1>1. Bk!Unp!LatchesFreed
  BY Bk!UnpImplies
<1> QED BY <1>1 DEF
      Unp!NoLatch, Bk!Unp!NoLatch, Unp!LatchesFreed, Bk!Unp!LatchesFreed

-----------------------------------------------------------------------------
(* The supervisor *)

(* The supervisor of the instance starts with its invariant.                *)
LEMMA SupBegins == ASSUME Sup!Init PROVE Bk!SupInv
<1>1. Bk!Sup!Init
  BY DEF
      Sup!Kids, Bk!Sup!Kids, Sup!NoKid, Bk!Sup!NoKid, Sup!Init, Bk!Sup!Init
<1> QED BY <1>1, Bk!SupStarts

(* Its steps keep the invariant,                                            *)
LEMMA SupGoesOn == ASSUME Bk!SupInv, Sup!Next PROVE Bk!SupInv'
<1>1. Bk!Sup!Next
  BY DEF
      Sup!Kids, Bk!Sup!Kids, Sup!NoKid, Bk!Sup!NoKid, Sup!OwnEnds, Bk!Sup!OwnEnds, Sup!Up,
      Bk!Sup!Up, Sup!Dies, Bk!Sup!Dies, Sup!TakeDown, Bk!Sup!TakeDown, Sup!Ends, Bk!Sup!Ends,
      Sup!JobCloses, Bk!Sup!JobCloses, Sup!LastChild, Bk!Sup!LastChild, Sup!Finally, Bk!Sup!Finally,
      Sup!Spawn, Bk!Sup!Spawn, Sup!Group, Bk!Sup!Group, Sup!Remember, Bk!Sup!Remember, Sup!Struck,
      Bk!Sup!Struck, Sup!Watch, Bk!Sup!Watch, Sup!Restarts, Bk!Sup!Restarts, Sup!Judge,
      Bk!Sup!Judge, Sup!Slept, Bk!Sup!Slept, Sup!Interrupt, Bk!Sup!Interrupt, Sup!Killed,
      Bk!Sup!Killed, Sup!ChildEnds, Bk!Sup!ChildEnds, Sup!ChildWorks, Bk!Sup!ChildWorks,
      Sup!ReadyChanges, Bk!Sup!ReadyChanges, Sup!GraceEnds, Bk!Sup!GraceEnds, Sup!Supervise,
      Bk!Sup!Supervise, Sup!Next, Bk!Sup!Next
<1> QED BY <1>1, Bk!SupStays

(* and so does a step that leaves it alone.                                 *)
LEMMA SupRests == ASSUME Bk!SupInv, UNCHANGED vars PROVE Bk!SupInv'
<1>1. UNCHANGED Bk!Sup!vars
  BY DEF vars, from6, from9, from10, from11, from12, from13, from14, from17, from18,
      Sup!vars, Bk!Sup!vars
<1> QED BY <1>1, Bk!SupStays

(* What is to be shown follows from the invariant.                          *)
LEMMA SupShows == ASSUME Bk!SupInv PROVE Sup!NothingLeft
<1>1. Bk!Sup!NothingLeft
  BY Bk!SupImplies
<1> QED BY <1>1 DEF
      Sup!Kids, Bk!Sup!Kids, Sup!NoKid, Bk!Sup!NoKid, Sup!Up, Bk!Sup!Up, Sup!NothingLeft,
      Bk!Sup!NothingLeft

-----------------------------------------------------------------------------
(* The run of a tool *)

(* The run of a tool of the instance starts with its invariant.             *)
LEMMA TooBegins == ASSUME Run!Init PROVE Bk!TooInv
<1>1. Bk!Too!Init
  BY DEF
      Run!Tool, Bk!Too!Tool, Run!Procs, Bk!Too!Procs, Run!Nobody, Bk!Too!Nobody, Run!Absent,
      Bk!Too!Absent, Run!Started, Bk!Too!Started, Run!Init, Bk!Too!Init
<1> QED BY <1>1, Bk!TooStarts

(* Its steps keep the invariant,                                            *)
LEMMA TooGoesOn == ASSUME Bk!TooInv, Run!Next PROVE Bk!TooInv'
<1>1. Bk!Too!Next
  BY DEF
      Run!Tool, Bk!Too!Tool, Run!Procs, Bk!Too!Procs, Run!Nobody, Bk!Too!Nobody, Run!Absent,
      Bk!Too!Absent, Run!Up, Bk!Too!Up, Run!Piped, Bk!Too!Piped, Run!Grouped, Bk!Too!Grouped,
      Run!Without, Bk!Too!Without, Run!Ends, Bk!Too!Ends, Run!Terminates, Bk!Too!Terminates,
      Run!Wait, Bk!Too!Wait, Run!Drain, Bk!Too!Drain, Run!Below, Bk!Too!Below, Run!Walk,
      Bk!Too!Walk, Run!KillGroup, Bk!Too!KillGroup, Run!Group, Bk!Too!Group, Run!Rest, Bk!Too!Rest,
      Run!Behaves, Bk!Too!Behaves, Run!Fork, Bk!Too!Fork, Run!LeaveGroup, Bk!Too!LeaveGroup,
      Run!ClosePipe, Bk!Too!ClosePipe, Run!Exit, Bk!Too!Exit, Run!Cancel, Bk!Too!Cancel,
      Run!Deadline, Bk!Too!Deadline, Run!RunStep, Bk!Too!RunStep, Run!Next, Bk!Too!Next
<1> QED BY <1>1, Bk!TooStays

(* and so does a step that leaves it alone.                                 *)
LEMMA TooRests == ASSUME Bk!TooInv, UNCHANGED vars PROVE Bk!TooInv'
<1>1. UNCHANGED Bk!Too!vars
  BY DEF vars, from6, from9, from10, from11, from12, from13, from14, from17, from18,
      Run!vars, Bk!Too!vars
<1> QED BY <1>1, Bk!TooStays

(* What is to be shown follows from the invariant.                          *)
LEMMA TooShows == ASSUME Bk!TooInv PROVE Run!NothingOutlives
<1>1. Bk!Too!NothingOutlives
  BY Bk!TooImplies
<1> QED BY <1>1 DEF
      Run!Tool, Bk!Too!Tool, Run!Procs, Bk!Too!Procs, Run!Up, Bk!Too!Up, Run!Piped, Bk!Too!Piped,
      Run!Grouped, Bk!Too!Grouped, Run!NothingOutlives, Bk!Too!NothingOutlives

-----------------------------------------------------------------------------
(* The installer *)

(* The installer of the instance starts with its invariant.                 *)
LEMMA InsBegins == ASSUME Ins!Init PROVE Bk!InsInv
<1>0. Bk!OneInstaller
  BY DEF Bk!OneInstaller
<1>1. Bk!Ins!Init
  BY DEF
      Ins!Rest, Bk!Ins!Rest, Ins!Init, Bk!Ins!Init
<1> QED BY <1>0, <1>1, Bk!InsStarts

(* Its steps keep the invariant,                                            *)
LEMMA InsGoesOn == ASSUME Bk!InsInv, Ins!Next PROVE Bk!InsInv'
<1>0. Bk!OneInstaller
  BY DEF Bk!OneInstaller
<1>1. Bk!Ins!Next
  BY DEF
      Ins!Rest, Bk!Ins!Rest, Ins!At, Bk!Ins!At, Ins!Goes, Bk!Ins!Goes, Ins!Stops, Bk!Ins!Stops,
      Ins!Returns, Bk!Ins!Returns, Ins!Begin, Bk!Ins!Begin, Ins!LookAtArchive, Bk!Ins!LookAtArchive,
      Ins!Download, Bk!Ins!Download, Ins!Found, Bk!Ins!Found, Ins!Look, Bk!Ins!Look, Ins!Extracts,
      Bk!Ins!Extracts, Ins!Extract, Bk!Ins!Extract, Ins!Clear, Bk!Ins!Clear, Ins!Activate,
      Bk!Ins!Activate, Ins!CheckRoot, Bk!Ins!CheckRoot, Ins!Fail, Bk!Ins!Fail, Ins!Next, Bk!Ins!Next
<1> QED BY <1>0, <1>1, Bk!InsStays

(* and so does a step that leaves it alone.                                 *)
LEMMA InsRests == ASSUME Bk!InsInv, UNCHANGED vars PROVE Bk!InsInv'
<1>0. Bk!OneInstaller
  BY DEF Bk!OneInstaller
<1>1. UNCHANGED Bk!Ins!vars
  BY DEF vars, from6, from9, from10, from11, from12, from13, from14, from17, from18,
      Ins!vars, Bk!Ins!vars
<1> QED BY <1>0, <1>1, Bk!InsStays

(* What is to be shown follows from the invariant.                          *)
LEMMA InsShows == ASSUME Bk!InsInv PROVE Ins!WholeOrAbsent
<1>1. Bk!Ins!WholeOrAbsent
  BY Bk!InsImplies
<1> QED BY <1>1 DEF
      Ins!Found, Bk!Ins!Found, Ins!WholeOrAbsent, Bk!Ins!WholeOrAbsent

-----------------------------------------------------------------------------
(* The navigation *)

(* The bounds of the instance are numbers.                                 *)
LEMMA NavSizes == Bk!NavConstantsOK
  BY DEF Bk!NavConstantsOK

(* The navigation starts with its invariant.                               *)
LEMMA NavBegins == ASSUME Nav!Init PROVE Bk!NavInv
<1>1. Bk!Nav!Init
  BY DEF
      Nav!Free, Bk!Nav!Free, Nav!NoBatch, Bk!Nav!NoBatch, Nav!NoNav, Bk!Nav!NoNav, Nav!Init,
      Bk!Nav!Init
<1> QED BY <1>1, NavSizes, Bk!NavStarts

(* Its steps keep the invariant,                                            *)
LEMMA NavGoesOn == ASSUME Bk!NavInv, Nav!Next PROVE Bk!NavInv'
<1>1. ASSUME NEW u \in Threads
     PROVE  /\ Nav!Step(u) => Bk!Nav!Step(u)
            /\ Nav!Expire(u) => Bk!Nav!Expire(u)
  <2>1. Nav!Navigate(u) => Bk!Nav!Navigate(u)
    BY DEF
      Nav!Free, Bk!Nav!Free, Nav!Latest, Bk!Nav!Latest, Nav!Waiting, Bk!Nav!Waiting, Nav!Failed,
      Bk!Nav!Failed, Nav!Resume, Bk!Nav!Resume, Nav!EnsurePaused, Bk!Nav!EnsurePaused, Nav!Nothing,
      Bk!Nav!Nothing, Nav!Works, Bk!Nav!Works, Nav!Breaks, Bk!Nav!Breaks, Nav!Returns,
      Bk!Nav!Returns, Nav!Execute, Bk!Nav!Execute, Nav!Takes, Bk!Nav!Takes, Nav!Refused,
      Bk!Nav!Refused, Nav!Navigate, Bk!Nav!Navigate
  <2>2. Nav!Cancel(u) => Bk!Nav!Cancel(u)
    BY DEF
      Nav!Free, Bk!Nav!Free, Nav!Latest, Bk!Nav!Latest, Nav!Waiting, Bk!Nav!Waiting, Nav!Failed,
      Bk!Nav!Failed, Nav!Resume, Bk!Nav!Resume, Nav!EnsurePaused, Bk!Nav!EnsurePaused, Nav!Nothing,
      Bk!Nav!Nothing, Nav!Works, Bk!Nav!Works, Nav!Breaks, Bk!Nav!Breaks, Nav!Returns,
      Bk!Nav!Returns, Nav!Execute, Bk!Nav!Execute, Nav!Ended, Bk!Nav!Ended, Nav!Takes, Bk!Nav!Takes,
      Nav!Refused, Bk!Nav!Refused, Nav!Stopped, Bk!Nav!Stopped, Nav!Cancel, Bk!Nav!Cancel
  <2>3. Nav!Events(u) => Bk!Nav!Events(u)
    BY DEF
      Nav!Free, Bk!Nav!Free, Nav!Latest, Bk!Nav!Latest, Nav!Oldest, Bk!Nav!Oldest, Nav!Waiting,
      Bk!Nav!Waiting, Nav!Failed, Bk!Nav!Failed, Nav!Resume, Bk!Nav!Resume, Nav!EnsurePaused,
      Bk!Nav!EnsurePaused, Nav!Nothing, Bk!Nav!Nothing, Nav!Works, Bk!Nav!Works, Nav!Breaks,
      Bk!Nav!Breaks, Nav!Returns, Bk!Nav!Returns, Nav!Execute, Bk!Nav!Execute, Nav!After,
      Bk!Nav!After, Nav!StatusFor, Bk!Nav!StatusFor, Nav!Takes, Bk!Nav!Takes, Nav!Refused,
      Bk!Nav!Refused, Nav!Events, Bk!Nav!Events
  <2>4. Nav!Reset(u) => Bk!Nav!Reset(u)
    BY DEF
      Nav!Free, Bk!Nav!Free, Nav!Latest, Bk!Nav!Latest, Nav!NoNav, Bk!Nav!NoNav, Nav!Waiting,
      Bk!Nav!Waiting, Nav!Resume, Bk!Nav!Resume, Nav!EnsurePaused, Bk!Nav!EnsurePaused, Nav!Nothing,
      Bk!Nav!Nothing, Nav!Works, Bk!Nav!Works, Nav!Breaks, Bk!Nav!Breaks, Nav!Returns,
      Bk!Nav!Returns, Nav!Ended, Bk!Nav!Ended, Nav!Halts, Bk!Nav!Halts, Nav!Takes, Bk!Nav!Takes,
      Nav!NewCursor, Bk!Nav!NewCursor, Nav!Reset, Bk!Nav!Reset
  <2>5. Nav!Loop(u) => Bk!Nav!Loop(u)
    BY DEF
      Nav!Free, Bk!Nav!Free, Nav!Max2, Bk!Nav!Max2, Nav!Latest, Bk!Nav!Latest, Nav!Waiting,
      Bk!Nav!Waiting, Nav!Failed, Bk!Nav!Failed, Nav!Resume, Bk!Nav!Resume, Nav!EnsurePaused,
      Bk!Nav!EnsurePaused, Nav!Nothing, Bk!Nav!Nothing, Nav!Works, Bk!Nav!Works, Nav!Breaks,
      Bk!Nav!Breaks, Nav!Returns, Bk!Nav!Returns, Nav!Execute, Bk!Nav!Execute, Nav!Ended,
      Bk!Nav!Ended, Nav!Halts, Bk!Nav!Halts, Nav!Refused, Bk!Nav!Refused, Nav!Stopped,
      Bk!Nav!Stopped, Nav!Late, Bk!Nav!Late, Nav!Loop, Bk!Nav!Loop
  <2>6. Nav!Read(u) => Bk!Nav!Read(u)
    BY DEF
      Nav!Latest, Bk!Nav!Latest, Nav!Oldest, Bk!Nav!Oldest, Nav!After, Bk!Nav!After, Nav!Read,
      Bk!Nav!Read
  <2>7. Nav!Back(u) => Bk!Nav!Back(u)
    BY DEF
      Nav!Free, Bk!Nav!Free, Nav!Latest, Bk!Nav!Latest, Nav!NoBatch, Bk!Nav!NoBatch, Nav!Waiting,
      Bk!Nav!Waiting, Nav!Failed, Bk!Nav!Failed, Nav!Resume, Bk!Nav!Resume, Nav!EnsurePaused,
      Bk!Nav!EnsurePaused, Nav!Nothing, Bk!Nav!Nothing, Nav!Works, Bk!Nav!Works, Nav!Breaks,
      Bk!Nav!Breaks, Nav!Returns, Bk!Nav!Returns, Nav!Execute, Bk!Nav!Execute, Nav!FirstOf,
      Bk!Nav!FirstOf, Nav!Decisive, Bk!Nav!Decisive, Nav!Consumed, Bk!Nav!Consumed,
      Nav!ConsumeEffect, Bk!Nav!ConsumeEffect, Nav!StatusFor, Bk!Nav!StatusFor, Nav!Refused,
      Bk!Nav!Refused, Nav!Fits, Bk!Nav!Fits, Nav!Back, Bk!Nav!Back, Nav!Cardinality,
      Bk!Nav!Cardinality
  <2>8. Nav!Expire(u) => Bk!Nav!Expire(u)
    BY DEF
      Nav!Expire, Bk!Nav!Expire
  <2> QED BY <2>1, <2>2, <2>3, <2>4, <2>5, <2>6, <2>7, <2>8 DEF Nav!Step, Bk!Nav!Step
<1>2. ASSUME NEW u \in Threads, NEW c \in Nav!Call
     PROVE  /\ Nav!Begin(u, c) => Bk!Nav!Begin(u, c)
  <2>1. Nav!Begin(u, c) => Bk!Nav!Begin(u, c)
    BY DEF
      Nav!Begin, Bk!Nav!Begin
  <2> QED BY <2>1
<1>3. ASSUME NEW k \in Nav!Kind
     PROVE  /\ Nav!Happens(k) => Bk!Nav!Happens(k)
  <2>1. Nav!Happens(k) => Bk!Nav!Happens(k)
    BY DEF
      Nav!Latest, Bk!Nav!Latest, Nav!Happens, Bk!Nav!Happens
  <2> QED BY <2>1
<1>4. Bk!Nav!Next
  BY <1>1, <1>2, <1>3 DEF Nav!Next, Bk!Nav!Next, Nav!Call, Bk!Nav!Call, Nav!Kind, Bk!Nav!Kind
<1> QED BY <1>4, NavSizes, Bk!NavKeeps

(* and so does a step that leaves it alone.                                 *)
LEMMA NavRests == ASSUME Bk!NavInv, UNCHANGED vars PROVE Bk!NavInv'
<1>1. UNCHANGED Bk!Nav!vars
  BY DEF vars, from6, from9, from10, from11, from12, from13, from14, from17, from18,
      Nav!vars, Bk!Nav!vars
<1> QED BY <1>1, NavSizes, Bk!NavKeeps

(* What is to be shown follows from the invariant.                          *)
LEMMA NavShows == ASSUME Bk!NavInv PROVE Nav!CursorsAgree /\ Nav!StopsAtFirst
<1>1. Bk!Nav!CursorsAgree /\ Bk!Nav!StopsAtFirst
  BY Bk!NavImplies
<1> QED BY <1>1 DEF
      Nav!Failed, Bk!Nav!Failed, Nav!CursorsAgree, Bk!Nav!CursorsAgree, Nav!StopsAtFirst,
      Bk!Nav!StopsAtFirst, Nav!Cardinality, Bk!Nav!Cardinality

-----------------------------------------------------------------------------
(* The instance *)

(* The invariant of the system that the behaviour chose.                    *)
Held ==
    /\ system = "xdbg" => Bk!XdbgInv
    /\ system = "ida" => Bk!IdaInv
    /\ system = "navigation" => Bk!NavInv
    /\ system = "trace" => Trace!IInv
    /\ system = "browser" => Bk!WebInv
    /\ system = "proxy" => Bk!PrxInv
    /\ system = "unpacking" => Bk!UnpIInv
    /\ system = "supervisor" => Bk!SupInv
    /\ system = "tool" => Bk!TooInv
    /\ system = "install" => Bk!InsInv

(* Each system starts with its invariant.                                   *)
LEMMA HeldStarts == ASSUME Init PROVE Held
  BY XdbgBegins, IdaBegins, TraBegins, WebBegins, PrxBegins, UnpBegins, SupBegins, TooBegins,
     InsBegins, NavBegins DEF Init, Held

(* A step is a step of the system that the behaviour chose.                 *)
LEMMA HeldStays == ASSUME Held, [Next]_vars PROVE Held'
<1>1. CASE UNCHANGED vars
  <2>1. system' = system
    BY <1>1 DEF vars
  <2> QED BY <1>1, <2>1, XdbgRests, IdaRests, TraRests, WebRests, PrxRests, UnpRests, SupRests,
         TooRests, InsRests, NavRests DEF Held
<1>2. CASE OfXdbg(Xdbg!Next)
  BY <1>2, XdbgGoesOn DEF OfXdbg, Held
<1>3. CASE OfIda(Ida!Next)
  BY <1>3, IdaGoesOn DEF OfIda, Held
<1>4. CASE OfTra(Tra!Next)
  BY <1>4, TraGoesOn DEF OfTra, Held
<1>5. CASE OfWeb(Web!Next)
  BY <1>5, WebGoesOn DEF OfWeb, Held
<1>6. CASE OfPrx(Prx!Next)
  BY <1>6, PrxGoesOn DEF OfPrx, Held
<1>7. CASE OfUnp(Unp!Next)
  BY <1>7, UnpGoesOn DEF OfUnp, Held
<1>8. CASE OfSup(Sup!Next)
  BY <1>8, SupGoesOn DEF OfSup, Held
<1>9. CASE OfRun(Run!Next)
  BY <1>9, TooGoesOn DEF OfRun, Held
<1>10. CASE OfIns(Ins!Next)
  BY <1>10, InsGoesOn DEF OfIns, Held
<1>11. CASE OfNav(Nav!Next)
  BY <1>11, NavGoesOn DEF OfNav, Held
<1>12. CASE OfBpt(Bpt!Next) \/ OfArt(Art!Next) \/ OfStr(Str!Next) \/ OfPrv(Prv!Next)
  BY <1>12 DEF OfBpt, OfArt, OfStr, OfPrv, Held
<1> QED BY <1>1, <1>2, <1>3, <1>4, <1>5, <1>6, <1>7, <1>8, <1>9, <1>10, <1>11, <1>12 DEF Next

(* XdbgClient.request and IdaClient.request: no caller is told of its call  *)
(* what is not so, calls take effect once and in order, and what a caller   *)
(* was told before a close is in the closed database.  _navigate_locked     *)
(* (service.py): the place where a navigation is told to have stopped is    *)
(* the first of its pattern.                                                *)
THEOREM LinksHold == Spec => []LinksTellTheTruth
<1>1. Held => LinksTellTheTruth
  BY XdbgShows, IdaShows, NavShows DEF Held, LinksTellTheTruth
<1> QED BY <1>1, HeldStarts, HeldStays, PTL DEF Spec

(* AnalysisService (service.py:983): a closed session keeps no latch, and    *)
(* what runs with the newest one can be stopped.                            *)
THEOREM LatchesHold == Spec => []LatchesFreed
<1>1. Held => LatchesFreed
  BY UnpShows DEF Held, LatchesFreed
<1> QED BY <1>1, HeldStarts, HeldStays, PTL DEF Spec

(* The traces of a debugger: nothing records that no call will stop, and    *)
(* the file of a confirmed stop stays what was registered.                  *)
THEOREM TracesHold == Spec => []TraceFiles
<1>1. Held => TraceFiles
  BY TraShows DEF Held, TraceFiles
<1> QED BY <1>1, HeldStarts, HeldStays, PTL DEF Spec

(* Browsers, proxies, supervised servers and command line tools: what was   *)
(* started is held by whoever will stop it, and nothing is left of what was *)
(* stopped.                                                                 *)
THEOREM NothingIsLeft == Spec => []NothingLeft
<1>1. Held => NothingLeft
  BY WebShows, PrxShows, SupShows, TooShows DEF Held, NothingLeft
<1> QED BY <1>1, HeldStarts, HeldStays, PTL DEF Spec

(* A release that is found installed is complete.                           *)
THEOREM InstallsAreWhole == Spec => []WholeOrAbsent
<1>1. Held => WholeOrAbsent
  BY InsShows DEF Held, WholeOrAbsent
<1> QED BY <1>1, HeldStarts, HeldStays, PTL DEF Spec
=============================================================================
