---------------------------- MODULE DebuggerProofs ----------------------------
(***************************************************************************)
(* What a debugger session is used for - its traces, the requests that     *)
(* make the debuggee run, the profile it hides under, its inspection and   *)
(* the methods of the plugin - each proved by itself for every value of    *)
(* its constants.  They share no state.  Trace is extended; the others are *)
(* instantiated under a name of their own, over the constants and          *)
(* variables of the same name, and the definitions about them begin with   *)
(* that name.                                                              *)
(***************************************************************************)

EXTENDS Trace, SequenceTheorems, FiniteSetTheorems, WellFoundedInduction, TLAPS

\* Those of Trace stand for theirs as well
CONSTANTS
    Ring, MaxEvents, Sessions, Archs, ArchOf, Profiles, Last, Tids,
    RestoreLimit, Chunks, MaxLooks

VARIABLES
    plan, mark, moved, told, current, deb, armed, pending, steps, events, truth,
    setup, ini, phase, under, doing, stale, raced, resync, missed, wiped,
    loaded, row, orphan, points, patched, dump, partial, final, rec, quota,
    answer, before, known

Ctl  == INSTANCE RunControl
Hid  == INSTANCE Stealth
Look == INSTANCE Inspect WITH MaxCalls <- MaxLooks
Rpc  == INSTANCE DebuggerRpc

-----------------------------------------------------------------------------
(***************************************************************************)
(* The traces of a debugger (Trace)                                        *)
(*                                                                         *)
(* What a debugger records is known to the service only through the state  *)
(* cur and active, which calls read and write between their requests; a    *)
(* call may lose its runtime at each of these points, and others open the  *)
(* next.  The invariant says of each place of a call what it may still     *)
(* assume, and it is kept by every action, one lemma for each outcome of   *)
(* an action; the lemmas have one step for each part of the invariant.     *)
(***************************************************************************)

(* The lock of a runtime is told to be free by a name no caller has.        *)
ConstantsOK == Nobody \notin Callers /\ MaxWorkers \in Nat \ {0} /\ MaxStarts \in Nat

Ops    == {"none", "start", "stop", "status", "discard", "close"}
Places == {"idle", "lock", "asked", "error", "stop", "stopping", "register", "fail", "kill",
           "loss", "failed", "discard", "reopen", "close", "closing", "clear"}
Calling == [op : Ops, of : 0..MaxStarts, rt : 0..MaxWorkers, fatal : BOOLEAN, safe : BOOLEAN]
Debugger == [up : BOOLEAN, rec : 0..MaxStarts, path : 0..MaxStarts, late : 0..MaxStarts]

(* The values that the variables take, and what a call and a debugger are.  *)
Typed ==
    /\ at \in [Callers -> Places] /\ call \in [Callers -> Calling]
    /\ session \in {"open", "failed", "closing", "closed"}
    /\ runtime \in 0..MaxWorkers /\ made \in 0..MaxStarts /\ cur \in 0..made
    /\ active \subseteq States /\ sure \subseteq States
    /\ lock \in [Workers -> Callers \cup {Nobody}]
    /\ file \in [States -> {"none", "there", "registered", "stale"}]
    /\ worker \in [Workers -> Debugger]

Starter(c) == call[c].op = "start"
Knows(w, i) == i \in {worker[w].rec, worker[w].late, worker[w].path}

Requests == {"start", "stop", "status"}
\* A call keeps to its operation, and has a runtime where it needs one
Placed(c) ==
    /\ Of(c) <= made
    /\ at[c] \in {"lock", "asked"} => call[c].op \in Requests /\ ~call[c].fatal
    /\ at[c] = "error" => call[c].op \in {"stop", "status"}
    /\ at[c] \in {"stop", "stopping"} => Starter(c)
    /\ at[c] = "register" => Of(c) # None
    /\ at[c] \in {"lock", "asked", "stop", "stopping"} => call[c].safe
       /\ (Starter(c) => Of(c) # None)
    /\ at[c] \in {"lock", "asked", "error", "stop", "stopping", "discard", "reopen", "kill",
       "close"} =>
          Rt(c) \in Workers
    /\ at[c] \in {"discard", "reopen"} => Rt(c) < MaxWorkers

PlaceInv == \A c \in Callers : Placed(c)
(* A call that has a request with its runtime has the runtime's lock.       *)
LockInv == \A c \in Callers : at[c] \in {"asked", "stopping"} => lock[Rt(c)] = c

\* What no start has been asked for yet is nowhere
UnusedInv == \A i \in States : i > made =>
    /\ file[i] = "none" /\ i \notin active /\ i \notin sure
    /\ \A w \in Workers : ~Knows(w, i)

Waiting(c) == at[c] \in {"lock", "asked"} /\ Starter(c)
Blank(i) == file[i] = "none" /\ i \notin sure /\ \A w \in Workers : ~Knows(w, i)
(* A trace that a call is about to start is new to the file system and to   *)
(* every debugger.                                                          *)
NewInv == \A c \in Callers : Waiting(c) => Blank(Of(c))
(* A start that waits for the lock is the only call of its trace.           *)
OwnInv == \A c \in Callers : at[c] = "lock" /\ Starter(c) =>
           /\ Of(c) # cur /\ Of(c) \notin active
           /\ \A d \in Callers : d # c => Of(d) # Of(c)
(* Where a call is about to stop a trace, no other debugger knows of it.    *)
StopInv ==
    \A c \in Callers : at[c] \in {"stop", "stopping"} =>
       \A w \in Workers : Knows(w, Of(c)) => w = Rt(c)
(* No two starts are of one trace.                                          *)
OneStarter ==
     \A c, d \in Callers : c # d /\ Waiting(c) /\ Starter(d) => Of(c) # Of(d)

\* One caller at a time has a runtime in hand that is no longer registered
Hands == {"kill", "loss", "close", "closing", "discard", "reopen"}
HandInv ==
    \A c \in Callers : at[c] \in Hands =>
       /\ runtime = None
       /\ \A d \in Callers : at[d] \in Hands => c = d
(* No call has a runtime newer than the registered one or the one that is   *)
(* taken down.                                                              *)
AgeInv ==
    /\ \A c \in Callers : runtime # None => Rt(c) <= runtime
    /\ \A c, d \in Callers : at[c] \in {"discard", "reopen"} => Rt(d) <= Rt(c)
(* Where a session is being closed, it is not open and has no runtime.      *)
ClosingInv ==
    \A c \in Callers : at[c] \in {"close", "closing", "clear"} => session # "open" /\ runtime = None

(* A debugger that has ended records nothing.                               *)
DeadInv == \A w \in Workers : ~worker[w].up =>
    worker[w].rec = None /\ worker[w].path = None /\ worker[w].late = None
(* A debugger records into the file it was last told.                       *)
PathInv == \A w \in Workers : worker[w].rec # None => worker[w].path = worker[w].rec
(* A debugger that is up and not registered is about to be killed or        *)
(* closed.                                                                  *)
UpInv == \A w \in Workers : worker[w].up /\ w # runtime =>
          \E c \in Callers : at[c] \in {"kill", "close"} /\ Rt(c) = w
(* No two debuggers know of one trace.                                      *)
KnowInv == \A w, x \in Workers, i \in States : Knows(w, i) /\ Knows(x, i) => w = x

(* The call is on its way to have the runtime taken down.                   *)
Dooms(c) ==
    \/ at[c] = "fail"
    \/ at[c] = "error" /\ call[c].op = "stop"
    \/ at[c] \in {"stop", "stopping", "register"} /\ Starter(c) /\ (call[c].fatal \/ ~call[c].safe)

(* The debugger records, or is to start to with a command it has not come   *)
(* to.                                                                      *)
Busy(w) == worker[w].rec # None \/ worker[w].late # None
Asks(c) == at[c] = "asked" /\ Starter(c) /\ Rt(c) = runtime

\* What the registered debugger may record is the trace the service has for active
GoodRec == worker[runtime].rec # None =>
          /\ worker[runtime].rec = cur /\ worker[runtime].late = None
          /\ file[cur] = "there"
GoodLate == worker[runtime].late # None =>
          /\ worker[runtime].late = cur /\ worker[runtime].rec = None
          /\ \E c \in Callers : at[c] \in {"stop", "stopping"} /\ Rt(c) = runtime /\ Of(c) = cur
GoodAsk == \A c \in Callers : Asks(c) => Of(c) = cur /\ ~Busy(runtime)
GoodCall == Busy(runtime) \/ (\E c \in Callers : Asks(c)) =>
          /\ cur \in active
          /\ \A c \in Callers : Of(c) = cur =>
               /\ at[c] # "register" /\ (at[c] = "failed" => Starter(c))
               /\ at[c] \in {"lock", "asked", "error", "stop", "stopping"} => Rt(c) = runtime
Good == runtime # None => GoodRec /\ GoodLate /\ GoodAsk /\ GoodCall

(* Either the service knows what the registered debugger records, or a      *)
(* call is about to take that debugger down.                                *)
RecordInv == Good \/ \E c \in Callers : Dooms(c)

(* No debugger records the trace or will.                                   *)
Over(i) ==
    /\ \A w \in Workers : worker[w].rec # i /\ worker[w].late # i
    /\ \A c \in Callers : Waiting(c) /\ Of(c) = i => at[c] = "asked" /\ ~worker[Rt(c)].up

(* The call is about to register the file of a stop that was confirmed.     *)
Confirmed(c) == at[c] = "register" /\ (IF Starter(c) THEN call[c].safe ELSE ~call[c].fatal)
SureInv == \A i \in sure : file[i] = "registered" /\ Over(i)
ConfirmedInv == \A c \in Callers : Confirmed(c) => Over(Of(c))

(* The invariant: types, where calls can be, whose traces are whose, and    *)
(* what is known of the debuggers.                                          *)
IInv == /\ Typed /\ PlaceInv /\ LockInv /\ UnusedInv /\ NewInv /\ OwnInv /\ StopInv /\ OneStarter
        /\ HandInv /\ AgeInv /\ ClosingInv /\ DeadInv /\ PathInv /\ UpInv /\ KnowInv
        /\ RecordInv /\ SureInv /\ ConfirmedInv

-----------------------------------------------------------------------------
(* What a step makes of a call, a debugger, a lock and a file *)

(* What a step makes of the call that takes it: where it is, and the        *)
(* fields of its record; the other calls stay.                              *)
Turns(c, place, op, of, rt, fatal, safe) ==
    /\ at'[c] = place /\ call'[c].op = op /\ call'[c].of = of /\ call'[c].rt = rt
    /\ call'[c].fatal = fatal /\ call'[c].safe = safe
    /\ \A d \in Callers : d # c => at'[d] = at[d] /\ call'[d] = call[d]
Moves(c, place) ==
    Turns(c, place, call[c].op, call[c].of, call[c].rt, call[c].fatal, call[c].safe)
Quits(c) == Turns(c, "idle", "none", None, None, FALSE, TRUE)
Holds(w, up, recs, path, late) ==
    /\ worker'[w].up = up /\ worker'[w].rec = recs /\ worker'[w].path = path
       /\ worker'[w].late = late
    /\ \A x \in Workers : x # w => worker'[x] = worker[x]

(* The numbers of runtimes and traces are numbers.                          *)
LEMMA Numbers ==
    ASSUME ConstantsOK, IInv
    PROVE  /\ \A c \in Callers : Rt(c) \in Nat /\ Of(c) \in Nat
              /\ (Of(c) # None => Of(c) \in States)
           /\ made \in Nat /\ cur \in Nat /\ runtime \in Nat
           /\ cur # None => cur \in States
           /\ None \notin States /\ 0..MaxWorkers = Workers \cup {None}
           /\ runtime \in 0..MaxWorkers /\ None \in 0..MaxWorkers
           /\ runtime # None => runtime \in Workers
  BY DEF ConstantsOK, IInv, Typed, Calling, Rt, Of, None, States, Workers

(* A call that returns is idle, with no operation.                          *)
LEMMA Quitting ==
    ASSUME ConstantsOK, IInv, NEW c \in Callers, Done(c)
    PROVE  Quits(c) /\ at' \in [Callers -> Places] /\ call' \in [Callers -> Calling]
<1>1. NoCall \in Calling /\ "idle" \in Places
  BY DEF ConstantsOK, NoCall, Calling, Ops, None, Places
<1> QED BY <1>1 DEF IInv, Typed, Done, GoTo, Quits, Turns, NoCall

(* A call that goes on changes its place and one or two of its fields.      *)
LEMMA Moving ==
    ASSUME IInv, NEW c \in Callers, NEW place \in Places, GoTo(c, place)
    PROVE  /\ at' \in [Callers -> Places]
           /\ at'[c] = place /\ \A d \in Callers : d # c => at'[d] = at[d]
           /\ UNCHANGED call => Moves(c, place) /\ call' \in [Callers -> Calling]
           /\ \A b \in BOOLEAN : call' = [call EXCEPT ![c].fatal = b] =>
                 /\ Turns(c, place, call[c].op, Of(c), Rt(c), b, call[c].safe)
                 /\ call' \in [Callers -> Calling]
           /\ \A b \in BOOLEAN : call' = [call EXCEPT ![c].safe = b] =>
                 /\ Turns(c, place, call[c].op, Of(c), Rt(c), call[c].fatal, b)
                 /\ call' \in [Callers -> Calling]
           /\ \A o \in Ops : call' = [call EXCEPT ![c].op = o] =>
                 /\ Turns(c, place, o, Of(c), Rt(c), call[c].fatal, call[c].safe)
                 /\ call' \in [Callers -> Calling]
           /\ \A w \in 0..MaxWorkers : call' = [call EXCEPT ![c].rt = w] =>
                 /\ Turns(c, place, call[c].op, Of(c), w, call[c].fatal, call[c].safe)
                 /\ call' \in [Callers -> Calling]
           /\ \A w \in 0..MaxWorkers, o \in Ops : call' = [call EXCEPT ![c].op = o, ![c].rt = w] =>
                 /\ Turns(c, place, o, Of(c), w, call[c].fatal, call[c].safe)
                 /\ call' \in [Callers -> Calling]
<1>1. /\ at \in [Callers -> Places] /\ call \in [Callers -> Calling] /\ call[c] \in Calling
  BY DEF IInv, Typed
<1>2. at' \in [Callers -> Places] /\ at'[c] = place /\ \A d \in Callers : d # c => at'[d] = at[d]
  BY <1>1 DEF GoTo
<1>3. UNCHANGED call => Moves(c, place) /\ call' \in [Callers -> Calling]
  BY <1>1, <1>2 DEF Moves, Turns
<1>4. ASSUME NEW r \in Calling, call' = [call EXCEPT ![c] = r]
      PROVE  call' \in [Callers -> Calling] /\ Turns(c, place, r.op, r.of, r.rt, r.fatal, r.safe)
  BY <1>1, <1>2, <1>4 DEF Turns
<1>5. ASSUME NEW b \in BOOLEAN PROVE
        /\ [call[c] EXCEPT !.fatal = b] \in Calling
        /\ [call[c] EXCEPT !.safe = b] \in Calling
  BY <1>1 DEF Calling
<1>7. \A b \in BOOLEAN : call' = [call EXCEPT ![c].fatal = b] =>
                 /\ Turns(c, place, call[c].op, Of(c), Rt(c), b, call[c].safe)
                 /\ call' \in [Callers -> Calling]
  BY <1>1, <1>4, <1>5 DEF Calling, Of, Rt
<1>8. \A b \in BOOLEAN : call' = [call EXCEPT ![c].safe = b] =>
                 /\ Turns(c, place, call[c].op, Of(c), Rt(c), call[c].fatal, b)
                 /\ call' \in [Callers -> Calling]
  BY <1>1, <1>4, <1>5 DEF Calling, Of, Rt
<1>9. ASSUME NEW o \in Ops, call' = [call EXCEPT ![c].op = o]
      PROVE  /\ Turns(c, place, o, Of(c), Rt(c), call[c].fatal, call[c].safe)
             /\ call' \in [Callers -> Calling]
  <2> DEFINE r == [call[c] EXCEPT !.op = o]
  <2>1. r \in Calling /\ r.op = o /\ r.of = Of(c) /\ r.rt = Rt(c) /\ r.fatal = call[c].fatal
        /\ r.safe = call[c].safe
    BY <1>1 DEF Calling, Of, Rt
  <2>2. call' = [call EXCEPT ![c] = r]
    BY <1>9
  <2> HIDE DEF r
  <2> QED BY <1>4, <2>1, <2>2
<1>10. ASSUME NEW w \in 0..MaxWorkers, call' = [call EXCEPT ![c].rt = w]
      PROVE  /\ Turns(c, place, call[c].op, Of(c), w, call[c].fatal, call[c].safe)
             /\ call' \in [Callers -> Calling]
  <2> DEFINE r == [call[c] EXCEPT !.rt = w]
  <2>1. r \in Calling /\ r.op = call[c].op /\ r.of = Of(c) /\ r.rt = w /\ r.fatal = call[c].fatal
        /\ r.safe = call[c].safe
    BY <1>1 DEF Calling, Of, Rt
  <2>2. call' = [call EXCEPT ![c] = r]
    BY <1>10
  <2> HIDE DEF r
  <2> QED BY <1>4, <2>1, <2>2
<1>11. ASSUME NEW w \in 0..MaxWorkers, NEW o \in Ops, call' = [call EXCEPT ![c].op = o, ![c].rt = w]
      PROVE  /\ Turns(c, place, o, Of(c), w, call[c].fatal, call[c].safe)
             /\ call' \in [Callers -> Calling]
  <2> DEFINE r == [call[c] EXCEPT !.op = o, !.rt = w]
  <2>1. r \in Calling /\ r.op = o /\ r.of = Of(c) /\ r.rt = w /\ r.fatal = call[c].fatal
        /\ r.safe = call[c].safe
    BY <1>1 DEF Calling, Of, Rt
  <2>2. call' = [call EXCEPT ![c] = r]
    BY <1>11
  <2> HIDE DEF r
  <2> QED BY <1>4, <2>1, <2>2
<1> QED BY <1>2, <1>3, <1>7, <1>8, <1>9, <1>10, <1>11

(* A debugger that changes becomes what it is told to be.                   *)
LEMMA Working ==
    ASSUME IInv, NEW w \in Workers, NEW is \in Debugger, Worker(w, is)
    PROVE  worker' \in [Workers -> Debugger] /\ Holds(w, is.up, is.rec, is.path, is.late)
  BY DEF IInv, Typed, Worker, Holds

Files == {"none", "there", "registered", "stale"}
Takes(c) == /\ lock[Rt(c)] = Nobody /\ lock'[Rt(c)] = c
            /\ \A w \in Workers : w # Rt(c) => lock'[w] = lock[w]
Frees(c) == /\ lock'[Rt(c)] = Nobody
            /\ \A w \in Workers : w # Rt(c) => lock'[w] = lock[w]
Files1(i, s) == file'[i] = s /\ \A j \in States : j # i => file'[j] = file[j]

(* A lock that is free is taken, or one that is held is freed.              *)
LEMMA Locking ==
    ASSUME IInv, NEW c \in Callers, Rt(c) \in Workers
    PROVE  /\ lock[Rt(c)] = Nobody /\ lock' = [lock EXCEPT ![Rt(c)] = c] => Takes(c)
              /\ lock' \in [Workers -> Callers \cup {Nobody}]
           /\ Unlocks(c) => Frees(c) /\ lock' \in [Workers -> Callers \cup {Nobody}]
  BY DEF IInv, Typed, Takes, Frees, Unlocks

(* One file changes.                                                        *)
LEMMA Filing ==
    ASSUME IInv, NEW i \in States, NEW s \in Files, file' = [file EXCEPT ![i] = s]
    PROVE  Files1(i, s) /\ file' \in [States -> Files]
  BY DEF IInv, Typed, Files1, Files

(* What the actions make of a debugger is a debugger.                       *)
LEMMA Debuggers ==
    ASSUME ConstantsOK, IInv, NEW w \in Workers
    PROVE  /\ worker[w] \in Debugger /\ NoWorker \in Debugger
              /\ [NoWorker EXCEPT !.up = TRUE] \in Debugger
           /\ Still(w) \in Debugger
           /\ \A i \in States : Recording(w, i) \in Debugger
              /\ [worker[w] EXCEPT !.late = i] \in Debugger
<1>1. worker[w] \in Debugger /\ 0 \in 0..MaxStarts
  BY DEF ConstantsOK, IInv, Typed
<1>2. NoWorker \in Debugger /\ [NoWorker EXCEPT !.up = TRUE] \in Debugger
  BY <1>1 DEF NoWorker, Debugger, None
<1>3. Still(w) \in Debugger
  BY <1>1 DEF Still, Debugger, None
<1>4. ASSUME NEW i \in States PROVE Recording(w, i) \in Debugger
             /\ [worker[w] EXCEPT !.late = i] \in Debugger
  <2>1. MaxStarts \in Nat /\ i \in 0..MaxStarts
    BY DEF ConstantsOK, States
  <2> QED BY <1>1, <2>1 DEF Recording, Debugger, None
<1> QED BY <1>1, <1>2, <1>3, <1>4

Starts(w, i) == Holds(w, worker[w].up, i, i, None)
Delays(w, i) == Holds(w, worker[w].up, worker[w].rec, worker[w].path, i)
Stills(w)    == Holds(w, worker[w].up, None, worker[w].path, worker[w].late)
Blanks(w)    == Holds(w, FALSE, None, None, None)

\* No debugger comes to know of a trace
Forgets == \A w \in Workers, i \in States : Knows(w, i)' => Knows(w, i)

\* No debugger records what it did not record before
Calms == \A w \in Workers :
    /\ worker'[w].up = worker[w].up /\ worker'[w].path = worker[w].path
    /\ worker'[w].late = worker[w].late /\ worker'[w].rec \in {None, worker[w].rec}
    /\ \A i \in States : Knows(w, i)' => Knows(w, i)

(* A debugger that goes still records nothing it did not record before.     *)
LEMMA Calming ==
    ASSUME NEW w \in Workers, Stills(w) \/ UNCHANGED worker
    PROVE  Calms
<1>1. \A x \in Workers :
        /\ worker'[x].up = worker[x].up /\ worker'[x].path = worker[x].path
        /\ worker'[x].late = worker[x].late /\ worker'[x].rec \in {None, worker[x].rec}
  BY DEF Stills, Holds
<1>2. None \notin States
  BY DEF None, States
<1> QED BY <1>1, <1>2 DEF Calms, Knows

(* A debugger that ended or was opened knows of no trace.                   *)
LEMMA Forgetting ==
    ASSUME NEW w \in Workers, NEW up, Holds(w, up, None, None, None)
    PROVE  Forgets
<1>1. None \notin States
  BY DEF None, States
<1> QED BY <1>1 DEF Forgets, Knows, Holds

(* The five ways in which an action changes a debugger.                     *)
LEMMA WorkerSteps ==
    ASSUME ConstantsOK, IInv, NEW w \in Workers
    PROVE  /\ Worker(w, Still(w)) => Stills(w) /\ worker' \in [Workers -> Debugger]
           /\ Worker(w, NoWorker) => Blanks(w) /\ worker' \in [Workers -> Debugger]
           /\ Worker(w, [NoWorker EXCEPT !.up = TRUE]) => Holds(w, TRUE, None, None, None)
              /\ worker' \in [Workers -> Debugger]
           /\ \A i \in States : Began(w, i) =>
                 /\ Starts(w, i) /\ worker' \in [Workers -> Debugger]
                 /\ Files1(i, "there") /\ file' \in [States -> Files]
           /\ \A i \in States : Worker(w, [worker[w] EXCEPT !.late = i]) => Delays(w, i)
              /\ worker' \in [Workers -> Debugger]
<1>1. worker[w] \in Debugger
  BY Debuggers
<1>2. ASSUME Worker(w, Still(w)) PROVE Stills(w) /\ worker' \in [Workers -> Debugger]
  <2>1. Still(w) \in Debugger /\ Still(w).up = worker[w].up /\ Still(w).rec = None
        /\ Still(w).path = worker[w].path /\ Still(w).late = worker[w].late
    BY <1>1, Debuggers DEF Still, Debugger
  <2> QED BY <1>2, <2>1, Working DEF Stills
<1>3. ASSUME Worker(w, NoWorker) PROVE Blanks(w) /\ worker' \in [Workers -> Debugger]
  <2>1. NoWorker.up = FALSE /\ NoWorker.rec = None /\ NoWorker.path = None /\ NoWorker.late = None
    BY DEF NoWorker
  <2> QED BY <1>3, <2>1, Working, Debuggers DEF Blanks
<1>4. ASSUME Worker(w, [NoWorker EXCEPT !.up = TRUE]) PROVE Holds(w, TRUE, None, None, None)
             /\ worker' \in [Workers -> Debugger]
  <2> DEFINE is == [NoWorker EXCEPT !.up = TRUE]
  <2>1. is.up = TRUE /\ is.rec = None /\ is.path = None /\ is.late = None /\ is \in Debugger
        /\ Worker(w, is)
    BY <1>4, Debuggers DEF NoWorker
  <2> HIDE DEF is
  <2> QED BY <2>1, Working
<1>5. ASSUME NEW i \in States, Began(w, i)
      PROVE  /\ Starts(w, i) /\ worker' \in [Workers -> Debugger]
             /\ Files1(i, "there") /\ file' \in [States -> Files]
  <2>1. Recording(w, i) \in Debugger /\ Recording(w, i).up = worker[w].up
        /\ Recording(w, i).rec = i /\ Recording(w, i).path = i /\ Recording(w, i).late = None
    BY <1>1, Debuggers DEF Recording, Debugger
  <2>2. "there" \in Files
    BY DEF Files
  <2> QED BY <1>5, <2>1, <2>2, Working, Filing DEF Starts, Began
<1>6. ASSUME NEW i \in States, Worker(w, [worker[w] EXCEPT !.late = i]) PROVE Delays(w, i)
             /\ worker' \in [Workers -> Debugger]
  <2> DEFINE is == [worker[w] EXCEPT !.late = i]
  <2>1. is \in Debugger /\ is.up = worker[w].up /\ is.rec = worker[w].rec
        /\ is.path = worker[w].path /\ is.late = i
    BY <1>1, Debuggers DEF Debugger
  <2>2. Worker(w, is)
    BY <1>6
  <2> HIDE DEF is
  <2> QED BY <2>1, <2>2, Working DEF Delays
<1> QED BY <1>2, <1>3, <1>4, <1>5, <1>6

Settles(i, done) ==
    /\ active' = active \ {i}
    /\ \A j \in States : j # i => file'[j] = file[j]
    /\ file'[i] = file[i] \/ (file[i] = "there" /\ file'[i] = "registered")
    /\ sure \subseteq sure' /\ sure' \subseteq sure \cup {i}
    /\ sure' # sure => done /\ file[i] = "there" /\ file'[i] = "registered"

(* A trace that is registered leaves active, and its file is registered if  *)
(* it was there.                                                            *)
LEMMA Settling ==
    ASSUME IInv, NEW i \in States, NEW done \in BOOLEAN, Finalizes(i, done)
    PROVE  Settles(i, done) /\ file' \in [States -> Files] /\ active' \subseteq States
           /\ sure' \subseteq States
  BY DEF IInv, Typed, Finalizes, Settles, Files

(* A call that begins waits for the lock of the runtime that it found.      *)
LEMMA Entering ==
    ASSUME ConstantsOK, IInv, NEW c \in Callers, NEW op \in Ops, NEW i \in 0..MaxStarts,
           NEW w \in 0..MaxWorkers,
           GoTo(c, "lock"), call' = [call EXCEPT ![c] = [NoCall EXCEPT !.op = op, !.rt = w, !.of = i]]
    PROVE  /\ at' \in [Callers -> Places] /\ call' \in [Callers -> Calling]
           /\ Turns(c, "lock", op, i, w, FALSE, TRUE)
<1> DEFINE r == [NoCall EXCEPT !.op = op, !.rt = w, !.of = i]
<1>1. /\ r.op = op /\ r.of = i /\ r.rt = w /\ r.fatal = FALSE /\ r.safe = TRUE /\ r \in Calling
  BY DEF NoCall, Calling
<1>2. call' = [call EXCEPT ![c] = r]
  OBVIOUS
<1> HIDE DEF r
<1>3. at \in [Callers -> Places] /\ call \in [Callers -> Calling] /\ "lock" \in Places
  BY DEF IInv, Typed, Places
<1> QED BY <1>1, <1>2, <1>3 DEF GoTo, Turns

(* What a debugger records is a trace.                                      *)
LEMMA Workable ==
    ASSUME ConstantsOK, IInv, NEW w \in Workers
    PROVE  /\ worker[w].rec # None => worker[w].rec \in States
           /\ worker[w].late # None => worker[w].late \in States
  BY DEF ConstantsOK, IInv, Typed, Debugger, States, None

-----------------------------------------------------------------------------
(* The lock of a runtime *)

(* The runtime is another one by the time the call has the lock: the call   *)
(* ends.                                                                    *)
LEMMA LockLostKeeps ==
    ASSUME ConstantsOK, IInv, NEW c \in Callers, Lock(c), runtime # Rt(c)
    PROVE  IInv'
<1>1. /\ at[c] = "lock" /\ Rt(c) \in Workers /\ call[c].op \in Requests
      /\ Starter(c) => Of(c) \in States /\ Of(c) \in 0..made
  BY Numbers DEF Lock, IInv, PlaceInv, Placed, At, Starter, Requests
<1>2. /\ UNCHANGED <<session, runtime, lock, cur, made, active, file, sure, worker>>
      /\ at' \in [Callers -> Places] /\ call' \in [Callers -> Calling]
      /\ \/ Quits(c)
         \/ Turns(c, "fail", "stop", Of(c), Rt(c), call[c].fatal, call[c].safe)
  BY Quitting, Moving DEF Places, Ops, Lock
<1>3. Typed'
  BY ConstantsOK, Numbers, <1>1, <1>2 DEF IInv, Typed, PlaceInv, Calling, Places, Ops, States,
     Workers, Debugger, Placed, Files, Turns, Quits, Of, Rt, Starter, None
<1>4. PlaceInv'
  BY ConstantsOK, Numbers, <1>1, <1>2 DEF IInv, PlaceInv, Placed, Calling, Requests, Turns, Quits,
     Of, Rt, Starter, None
<1>5. LockInv'
  BY ConstantsOK, Numbers, <1>1, <1>2 DEF IInv, PlaceInv, LockInv, Placed, ConstantsOK, Turns,
     Quits, Of, Rt, Starter, None
<1>6. UnusedInv'
  BY ConstantsOK, Numbers, <1>1, <1>2 DEF IInv, PlaceInv, UnusedInv, Knows, Placed, Turns, Quits,
     Of, Rt, Starter, None
<1>7. NewInv'
  BY ConstantsOK, Numbers, <1>1, <1>2 DEF IInv, PlaceInv, UnusedInv, NewInv, OneStarter, OwnInv,
     Waiting, Blank, Knows, Turns, Quits, Of, Rt, Starter, None
<1>8. OwnInv'
  BY ConstantsOK, Numbers, <1>1, <1>2 DEF IInv, PlaceInv, OwnInv, Placed, Turns, Quits, Of, Rt,
     Starter, None
<1>9. StopInv'
  BY ConstantsOK, Numbers, <1>1, <1>2 DEF IInv, PlaceInv, StopInv, NewInv, LockInv, OneStarter,
     Knows, Waiting, Blank, Placed, Turns, Quits, Of, Rt, Starter, None
<1>10. OneStarter'
  BY ConstantsOK, Numbers, <1>1, <1>2 DEF IInv, PlaceInv, OneStarter, OwnInv, Waiting, Placed,
     Turns, Quits, Of, Rt, Starter, None
<1>11. HandInv'
  BY ConstantsOK, Numbers, <1>1, <1>2 DEF IInv, HandInv, Hands, Turns, Quits, Of, Rt, Starter, None
<1>12. AgeInv'
  BY ConstantsOK, Numbers, <1>1, <1>2 DEF IInv, AgeInv, HandInv, Hands, Turns, Quits, Of, Rt,
     Starter, None
<1>13. ClosingInv'
  BY ConstantsOK, Numbers, <1>1, <1>2 DEF IInv, ClosingInv, Turns, Quits, Of, Rt, Starter, None
<1>14. DeadInv'
  BY ConstantsOK, Numbers, <1>1, <1>2 DEF IInv, DeadInv, Turns, Quits, Of, Rt, Starter, None
<1>15. PathInv'
  BY ConstantsOK, Numbers, <1>1, <1>2 DEF IInv, PathInv, Turns, Quits, Of, Rt, Starter, None
<1>16. UpInv'
  BY ConstantsOK, Numbers, <1>1, <1>2 DEF IInv, PlaceInv, UpInv, HandInv, Hands, Turns, Quits, Of,
     Rt, Starter, None
<1>17. KnowInv'
  BY ConstantsOK, Numbers, <1>1, <1>2 DEF IInv, NewInv, KnowInv, Knows, Waiting, Blank, Turns,
     Quits, Of, Rt, Starter, None
<1>18. \A d \in Callers : Dooms(d) => Dooms(d)'
  BY ConstantsOK, Numbers, <1>1, <1>2 DEF IInv, PlaceInv, Dooms, Placed, Turns, Quits, Of, Rt,
     Starter, None
<1>19. Good => RecordInv'
  BY ConstantsOK, Numbers, <1>1, <1>2 DEF IInv, PlaceInv, LockInv, RecordInv, Good, GoodRec,
     GoodLate, GoodAsk, GoodCall, Dooms, Busy, Asks, Turns, Quits, Of, Rt, Starter, None
<1>20. RecordInv'
  BY <1>18, <1>19 DEF IInv, RecordInv
<1>21. \A i \in States : Over(i) => Over(i)'
  BY ConstantsOK, Numbers, <1>1, <1>2 DEF IInv, PlaceInv, NewInv, HandInv, AgeInv, OwnInv,
     OneStarter, Over, Waiting, Blank, Knows, Placed, Turns, Quits, Of, Rt, Starter, None
<1>22. SureInv'
  BY ConstantsOK, Numbers, <1>1, <1>2, <1>21 DEF IInv, SureInv, NewInv, Typed, Waiting, Blank,
     Turns, Quits, Of, Rt, Starter, None
<1>23. ConfirmedInv'
  BY ConstantsOK, Numbers, <1>1, <1>2, <1>21 DEF IInv, PlaceInv, ConfirmedInv, Confirmed, Placed,
     Turns, Quits, Of, Rt, Starter, None
<1> QED BY <1>3, <1>4, <1>5, <1>6, <1>7, <1>8, <1>9, <1>10, <1>11, <1>12, <1>13, <1>14, <1>15,
           <1>16, <1>17, <1>20, <1>22, <1>23 DEF IInv

(* A start finds that the trace of the session is active: it ends.          *)
LEMMA LockRefusesKeeps ==
    ASSUME ConstantsOK, IInv, NEW c \in Callers, Lock(c), runtime = Rt(c), Starter(c),
           cur \in active
    PROVE  IInv'
<1>1. /\ at[c] = "lock" /\ Rt(c) \in Workers /\ call[c].op \in Requests
      /\ Starter(c) => Of(c) \in States /\ Of(c) \in 0..made
  BY Numbers DEF Lock, IInv, PlaceInv, Placed, At, Starter, Requests
<1>2. /\ UNCHANGED <<session, runtime, lock, cur, made, active, file, sure, worker>>
      /\ at' \in [Callers -> Places] /\ call' \in [Callers -> Calling]
      /\ Quits(c)
  BY Quitting, Moving DEF Places, Ops, Lock, Starter
<1>3. Typed'
  BY ConstantsOK, Numbers, <1>1, <1>2 DEF IInv, Typed, PlaceInv, Calling, Places, Ops, States,
     Workers, Debugger, Placed, Files, Turns, Quits, Of, Rt, Starter, None
<1>4. PlaceInv'
  BY ConstantsOK, Numbers, <1>1, <1>2 DEF IInv, PlaceInv, Placed, Calling, Requests, Turns, Quits,
     Of, Rt, Starter, None
<1>5. LockInv'
  BY ConstantsOK, Numbers, <1>1, <1>2 DEF IInv, PlaceInv, LockInv, Placed, ConstantsOK, Turns,
     Quits, Of, Rt, Starter, None
<1>6. UnusedInv'
  BY ConstantsOK, Numbers, <1>1, <1>2 DEF IInv, PlaceInv, UnusedInv, Knows, Placed, Turns, Quits,
     Of, Rt, Starter, None
<1>7. NewInv'
  BY ConstantsOK, Numbers, <1>1, <1>2 DEF IInv, PlaceInv, UnusedInv, NewInv, OneStarter, OwnInv,
     Waiting, Blank, Knows, Turns, Quits, Of, Rt, Starter, None
<1>8. OwnInv'
  BY ConstantsOK, Numbers, <1>1, <1>2 DEF IInv, PlaceInv, OwnInv, Placed, Turns, Quits, Of, Rt,
     Starter, None
<1>9. StopInv'
  BY ConstantsOK, Numbers, <1>1, <1>2 DEF IInv, PlaceInv, StopInv, NewInv, LockInv, OneStarter,
     Knows, Waiting, Blank, Placed, Turns, Quits, Of, Rt, Starter, None
<1>10. OneStarter'
  BY ConstantsOK, Numbers, <1>1, <1>2 DEF IInv, PlaceInv, OneStarter, OwnInv, Waiting, Placed,
     Turns, Quits, Of, Rt, Starter, None
<1>11. HandInv'
  BY ConstantsOK, Numbers, <1>1, <1>2 DEF IInv, HandInv, Hands, Turns, Quits, Of, Rt, Starter, None
<1>12. AgeInv'
  BY ConstantsOK, Numbers, <1>1, <1>2 DEF IInv, AgeInv, HandInv, Hands, Turns, Quits, Of, Rt,
     Starter, None
<1>13. ClosingInv'
  BY ConstantsOK, Numbers, <1>1, <1>2 DEF IInv, ClosingInv, Turns, Quits, Of, Rt, Starter, None
<1>14. DeadInv'
  BY ConstantsOK, Numbers, <1>1, <1>2 DEF IInv, DeadInv, Turns, Quits, Of, Rt, Starter, None
<1>15. PathInv'
  BY ConstantsOK, Numbers, <1>1, <1>2 DEF IInv, PathInv, Turns, Quits, Of, Rt, Starter, None
<1>16. UpInv'
  BY ConstantsOK, Numbers, <1>1, <1>2 DEF IInv, PlaceInv, UpInv, HandInv, Hands, Turns, Quits, Of,
     Rt, Starter, None
<1>17. KnowInv'
  BY ConstantsOK, Numbers, <1>1, <1>2 DEF IInv, NewInv, KnowInv, Knows, Waiting, Blank, Turns,
     Quits, Of, Rt, Starter, None
<1>18. \A d \in Callers : Dooms(d) => Dooms(d)'
  BY ConstantsOK, Numbers, <1>1, <1>2 DEF IInv, PlaceInv, Dooms, Placed, Turns, Quits, Of, Rt,
     Starter, None
<1>19. Good => RecordInv'
  <2>1. \A d \in Callers : Asks(d)' => Asks(d) /\ Of(d)' = Of(d)
    BY <1>1, <1>2 DEF Asks, Quits, Turns, Of, Rt, Starter
  <2>2. GoodRec => GoodRec'
    BY <1>2 DEF GoodRec
  <2>3. GoodLate => GoodLate'
    BY <1>1, <1>2 DEF GoodLate, Quits, Turns, Of, Rt
  <2>4. GoodAsk => GoodAsk'
    BY <1>2, <2>1 DEF GoodAsk, Busy
  <2>5. GoodCall => GoodCall'
    <3>1. \A d \in Callers : Of(d)' = cur => d = c \/ (at'[d] = at[d] /\ Of(d) = cur
             /\ Rt(d)' = Rt(d) /\ (Starter(d)' <=> Starter(d)))
      BY <1>1, <1>2 DEF Quits, Turns, Of, Rt, Starter
    <3>2. Of(c)' = cur => at'[c] = "idle"
      BY Numbers, <1>1, <1>2 DEF Quits, Turns, Of, Rt, States, None
    <3>3. Busy(runtime)' = Busy(runtime)
      BY <1>2 DEF Busy
    <3> QED BY <1>1, <1>2, <2>1, <3>1, <3>2, <3>3 DEF GoodCall
  <2> QED BY <1>2, <2>2, <2>3, <2>4, <2>5 DEF Good, RecordInv
<1>20. RecordInv'
  BY <1>18, <1>19 DEF IInv, RecordInv
<1>21. \A i \in States : Over(i) => Over(i)'
  BY ConstantsOK, Numbers, <1>1, <1>2 DEF IInv, PlaceInv, NewInv, HandInv, AgeInv, OwnInv,
     OneStarter, Over, Waiting, Blank, Knows, Placed, Turns, Quits, Of, Rt, Starter, None
<1>22. SureInv'
  BY ConstantsOK, Numbers, <1>1, <1>2, <1>21 DEF IInv, SureInv, NewInv, Typed, Waiting, Blank,
     Turns, Quits, Of, Rt, Starter, None
<1>23. ConfirmedInv'
  BY ConstantsOK, Numbers, <1>1, <1>2, <1>21 DEF IInv, PlaceInv, ConfirmedInv, Confirmed, Placed,
     Turns, Quits, Of, Rt, Starter, None
<1> QED BY <1>3, <1>4, <1>5, <1>6, <1>7, <1>8, <1>9, <1>10, <1>11, <1>12, <1>13, <1>14, <1>15,
           <1>16, <1>17, <1>20, <1>22, <1>23 DEF IInv

(* A stop or a question takes the lock and is sent.                         *)
LEMMA LockTakesKeeps ==
    ASSUME ConstantsOK, IInv, NEW c \in Callers, Lock(c), runtime = Rt(c), ~Starter(c)
    PROVE  IInv'
<1>1. /\ at[c] = "lock" /\ Rt(c) \in Workers /\ call[c].op \in Requests
      /\ Starter(c) => Of(c) \in States /\ Of(c) \in 0..made
  BY Numbers DEF Lock, IInv, PlaceInv, Placed, At, Starter, Requests
<1>2. /\ UNCHANGED <<session, runtime, cur, made, active, file, sure, worker>>
      /\ Takes(c)
      /\ lock' \in [Workers -> Callers \cup {Nobody}]
  BY <1>1, Locking DEF Lock, Starter
<1>3. /\ at' \in [Callers -> Places] /\ call' \in [Callers -> Calling]
      /\ Moves(c, "asked")
  BY Quitting, Moving DEF Places, Ops, Lock, Starter
<1>4. Typed'
  BY ConstantsOK, Numbers, <1>1, <1>2, <1>3 DEF IInv, Typed, PlaceInv, Calling, Places, Ops,
     States, Workers, Debugger, Placed, Files, Takes, Turns, Moves, Of, Rt, Starter, None
<1>5. PlaceInv'
  BY ConstantsOK, Numbers, <1>1, <1>2, <1>3 DEF IInv, PlaceInv, Placed, Calling, Requests, Takes,
     Turns, Moves, Of, Rt, Starter, None
<1>6. LockInv'
  BY ConstantsOK, Numbers, <1>1, <1>2, <1>3 DEF IInv, PlaceInv, LockInv, Placed, ConstantsOK,
     Takes, Turns, Moves, Of, Rt, Starter, None
<1>7. UnusedInv'
  BY ConstantsOK, Numbers, <1>1, <1>2, <1>3 DEF IInv, PlaceInv, UnusedInv, Knows, Placed, Takes,
     Turns, Moves, Of, Rt, Starter, None
<1>8. NewInv'
  BY ConstantsOK, Numbers, <1>1, <1>2, <1>3 DEF IInv, PlaceInv, UnusedInv, NewInv, OneStarter,
     OwnInv, Waiting, Blank, Knows, Takes, Turns, Moves, Of, Rt, Starter, None
<1>9. OwnInv'
  BY ConstantsOK, Numbers, <1>1, <1>2, <1>3 DEF IInv, PlaceInv, OwnInv, Placed, Takes, Turns,
     Moves, Of, Rt, Starter, None
<1>10. StopInv'
  BY ConstantsOK, Numbers, <1>1, <1>2, <1>3 DEF IInv, PlaceInv, StopInv, NewInv, LockInv,
     OneStarter, Knows, Waiting, Blank, Placed, Takes, Turns, Moves, Of, Rt, Starter, None
<1>11. OneStarter'
  BY ConstantsOK, Numbers, <1>1, <1>2, <1>3 DEF IInv, PlaceInv, OneStarter, OwnInv, Waiting,
     Placed, Takes, Turns, Moves, Of, Rt, Starter, None
<1>12. HandInv'
  BY ConstantsOK, Numbers, <1>1, <1>2, <1>3 DEF IInv, HandInv, Hands, Takes, Turns, Moves, Of, Rt,
     Starter, None
<1>13. AgeInv'
  BY ConstantsOK, Numbers, <1>1, <1>2, <1>3 DEF IInv, AgeInv, HandInv, Hands, Takes, Turns, Moves,
     Of, Rt, Starter, None
<1>14. ClosingInv'
  BY ConstantsOK, Numbers, <1>1, <1>2, <1>3 DEF IInv, ClosingInv, Takes, Turns, Moves, Of, Rt,
     Starter, None
<1>15. DeadInv'
  BY ConstantsOK, Numbers, <1>1, <1>2, <1>3 DEF IInv, DeadInv, Takes, Turns, Moves, Of, Rt,
     Starter, None
<1>16. PathInv'
  BY ConstantsOK, Numbers, <1>1, <1>2, <1>3 DEF IInv, PathInv, Takes, Turns, Moves, Of, Rt,
     Starter, None
<1>17. UpInv'
  BY ConstantsOK, Numbers, <1>1, <1>2, <1>3 DEF IInv, PlaceInv, UpInv, HandInv, Hands, Takes,
     Turns, Moves, Of, Rt, Starter, None
<1>18. KnowInv'
  BY ConstantsOK, Numbers, <1>1, <1>2, <1>3 DEF IInv, NewInv, KnowInv, Knows, Waiting, Blank,
     Takes, Turns, Moves, Of, Rt, Starter, None
<1>19. \A d \in Callers : Dooms(d) => Dooms(d)'
  BY ConstantsOK, Numbers, <1>1, <1>2, <1>3 DEF IInv, PlaceInv, Dooms, Placed, Takes, Turns,
     Moves, Of, Rt, Starter, None
<1>20. Good => RecordInv'
  <2>1. \A d \in Callers : Asks(d)' => Asks(d) /\ Of(d)' = Of(d)
    BY <1>1, <1>2, <1>3 DEF Asks, Moves, Turns, Of, Rt, Starter
  <2>2. GoodRec => GoodRec'
    BY <1>2 DEF GoodRec
  <2>3. GoodLate => GoodLate'
    BY <1>1, <1>2, <1>3 DEF GoodLate, Moves, Turns, Of, Rt
  <2>4. GoodAsk => GoodAsk'
    BY <1>2, <2>1 DEF GoodAsk, Busy
  <2>5. GoodCall => GoodCall'
    <3>1. \A d \in Callers : Of(d)' = cur => d = c \/ (at'[d] = at[d] /\ Of(d) = cur
             /\ Rt(d)' = Rt(d) /\ (Starter(d)' <=> Starter(d)))
      BY <1>1, <1>2, <1>3 DEF Moves, Turns, Of, Rt, Starter
    <3>2. Of(c)' = cur => at'[c] = "asked" /\ at[c] = "lock" /\ Of(c) = cur /\ Rt(c)' = Rt(c)
      BY Numbers, <1>1, <1>2, <1>3 DEF Moves, Turns, Of, Rt, States, None
    <3>3. Busy(runtime)' = Busy(runtime)
      BY <1>2 DEF Busy
    <3> QED BY <1>1, <1>2, <1>3, <2>1, <3>1, <3>2, <3>3 DEF GoodCall
  <2> QED BY <1>2, <2>2, <2>3, <2>4, <2>5 DEF Good, RecordInv
<1>21. RecordInv'
  BY <1>19, <1>20 DEF IInv, RecordInv
<1>22. \A i \in States : Over(i) => Over(i)'
  BY ConstantsOK, Numbers, <1>1, <1>2, <1>3 DEF IInv, PlaceInv, NewInv, HandInv, AgeInv, OwnInv,
     OneStarter, Over, Waiting, Blank, Knows, Placed, Takes, Turns, Moves, Of, Rt, Starter, None
<1>23. SureInv'
  BY ConstantsOK, Numbers, <1>1, <1>2, <1>3, <1>22 DEF IInv, SureInv, NewInv, Typed, Waiting,
     Blank, Takes, Turns, Moves, Of, Rt, Starter, None
<1>24. ConfirmedInv'
  BY ConstantsOK, Numbers, <1>1, <1>2, <1>3, <1>22 DEF IInv, PlaceInv, ConfirmedInv, Confirmed,
     Placed, Takes, Turns, Moves, Of, Rt, Starter, None
<1> QED BY <1>4, <1>5, <1>6, <1>7, <1>8, <1>9, <1>10, <1>11, <1>12, <1>13, <1>14, <1>15, <1>16,
           <1>17, <1>18, <1>21, <1>23, <1>24 DEF IInv

(* A start takes the lock, becomes the trace of the session, and is sent.   *)
LEMMA LockStartsKeeps ==
    ASSUME ConstantsOK, IInv, NEW c \in Callers, Lock(c), runtime = Rt(c), Starter(c),
           cur \notin active
    PROVE  IInv'
<1>1. /\ at[c] = "lock" /\ Rt(c) \in Workers /\ call[c].op \in Requests
      /\ Starter(c) => Of(c) \in States /\ Of(c) \in 0..made
  BY Numbers DEF Lock, IInv, PlaceInv, Placed, At, Starter, Requests
<1>2. /\ UNCHANGED <<session, runtime, made, file, sure, worker>>
      /\ Takes(c)
      /\ lock' \in [Workers -> Callers \cup {Nobody}]
      /\ cur' = Of(c) /\ active' = active \cup {Of(c)}
  BY <1>1, Locking DEF Lock, Starter
<1>3. /\ at' \in [Callers -> Places] /\ call' \in [Callers -> Calling]
      /\ Moves(c, "asked")
  BY Quitting, Moving DEF Places, Ops, Lock, Starter
<1>4. Typed'
  BY ConstantsOK, Numbers, <1>1, <1>2, <1>3 DEF IInv, Typed, PlaceInv, Calling, Places, Ops,
     States, Workers, Debugger, Placed, Files, Takes, Turns, Moves, Of, Rt, Starter, None
<1>5. PlaceInv'
  BY ConstantsOK, Numbers, <1>1, <1>2, <1>3 DEF IInv, PlaceInv, Placed, Calling, Requests, Takes,
     Turns, Moves, Of, Rt, Starter, None
<1>6. LockInv'
  BY ConstantsOK, Numbers, <1>1, <1>2, <1>3 DEF IInv, PlaceInv, LockInv, Placed, ConstantsOK,
     Takes, Turns, Moves, Of, Rt, Starter, None
<1>7. UnusedInv'
  BY ConstantsOK, Numbers, <1>1, <1>2, <1>3 DEF IInv, PlaceInv, UnusedInv, Knows, Placed, Takes,
     Turns, Moves, Of, Rt, Starter, None
<1>8. NewInv'
  BY ConstantsOK, Numbers, <1>1, <1>2, <1>3 DEF IInv, PlaceInv, UnusedInv, NewInv, OneStarter,
     OwnInv, Waiting, Blank, Knows, Takes, Turns, Moves, Of, Rt, Starter, None
<1>9. OwnInv'
  BY ConstantsOK, Numbers, <1>1, <1>2, <1>3 DEF IInv, PlaceInv, OwnInv, Placed, Takes, Turns,
     Moves, Of, Rt, Starter, None
<1>10. StopInv'
  BY ConstantsOK, Numbers, <1>1, <1>2, <1>3 DEF IInv, PlaceInv, StopInv, NewInv, LockInv,
     OneStarter, Knows, Waiting, Blank, Placed, Takes, Turns, Moves, Of, Rt, Starter, None
<1>11. OneStarter'
  BY ConstantsOK, Numbers, <1>1, <1>2, <1>3 DEF IInv, PlaceInv, OneStarter, OwnInv, Waiting,
     Placed, Takes, Turns, Moves, Of, Rt, Starter, None
<1>12. HandInv'
  BY ConstantsOK, Numbers, <1>1, <1>2, <1>3 DEF IInv, HandInv, Hands, Takes, Turns, Moves, Of, Rt,
     Starter, None
<1>13. AgeInv'
  BY ConstantsOK, Numbers, <1>1, <1>2, <1>3 DEF IInv, AgeInv, HandInv, Hands, Takes, Turns, Moves,
     Of, Rt, Starter, None
<1>14. ClosingInv'
  BY ConstantsOK, Numbers, <1>1, <1>2, <1>3 DEF IInv, ClosingInv, Takes, Turns, Moves, Of, Rt,
     Starter, None
<1>15. DeadInv'
  BY ConstantsOK, Numbers, <1>1, <1>2, <1>3 DEF IInv, DeadInv, Takes, Turns, Moves, Of, Rt,
     Starter, None
<1>16. PathInv'
  BY ConstantsOK, Numbers, <1>1, <1>2, <1>3 DEF IInv, PathInv, Takes, Turns, Moves, Of, Rt,
     Starter, None
<1>17. UpInv'
  BY ConstantsOK, Numbers, <1>1, <1>2, <1>3 DEF IInv, PlaceInv, UpInv, HandInv, Hands, Takes,
     Turns, Moves, Of, Rt, Starter, None
<1>18. KnowInv'
  BY ConstantsOK, Numbers, <1>1, <1>2, <1>3 DEF IInv, NewInv, KnowInv, Knows, Waiting, Blank,
     Takes, Turns, Moves, Of, Rt, Starter, None
<1>19. \A d \in Callers : Dooms(d) => Dooms(d)'
  BY ConstantsOK, Numbers, <1>1, <1>2, <1>3 DEF IInv, PlaceInv, Dooms, Placed, Takes, Turns,
     Moves, Of, Rt, Starter, None
<1>20. Good => RecordInv'
  <2> SUFFICES ASSUME Good PROVE Good'
    BY DEF RecordInv
  <2>1. runtime \in Workers /\ runtime # None /\ ~Busy(runtime) /\ (\A d \in Callers : ~Asks(d))
    BY <1>1, <1>2, <1>3, Numbers DEF Good, GoodCall, Workers, None
  <2>2. ~Busy(runtime)' /\ \A d \in Callers : Asks(d)' => d = c
    BY <1>1, <1>2, <1>3, <2>1 DEF Busy, Asks, Moves, Turns, Starter, Rt
  <2>3. \A d \in Callers : Of(d)' = cur' => d = c
    BY <1>1, <1>2, <1>3 DEF Moves, Turns, Of, IInv, OwnInv, Starter
  <2>4. GoodRec' /\ GoodLate' /\ GoodAsk'
    BY <2>2, <1>1, <1>2, <1>3 DEF GoodRec, GoodLate, GoodAsk, Busy, Moves, Turns, Of
  <2>5. GoodCall'
    BY <2>2, <2>3, <1>1, <1>2, <1>3 DEF GoodCall, Moves, Turns, Of, Rt
  <2> QED BY <2>1, <2>4, <2>5, <1>1, <1>2, <1>3 DEF Good
<1>21. RecordInv'
  BY <1>19, <1>20 DEF IInv, RecordInv
<1>22. \A i \in States : Over(i) => Over(i)'
  BY ConstantsOK, Numbers, <1>1, <1>2, <1>3 DEF IInv, PlaceInv, NewInv, HandInv, AgeInv, OwnInv,
     OneStarter, Over, Waiting, Blank, Knows, Placed, Takes, Turns, Moves, Of, Rt, Starter, None
<1>23. SureInv'
  BY ConstantsOK, Numbers, <1>1, <1>2, <1>3, <1>22 DEF IInv, SureInv, NewInv, Typed, Waiting,
     Blank, Takes, Turns, Moves, Of, Rt, Starter, None
<1>24. ConfirmedInv'
  BY ConstantsOK, Numbers, <1>1, <1>2, <1>3, <1>22 DEF IInv, PlaceInv, ConfirmedInv, Confirmed,
     Placed, Takes, Turns, Moves, Of, Rt, Starter, None
<1> QED BY <1>4, <1>5, <1>6, <1>7, <1>8, <1>9, <1>10, <1>11, <1>12, <1>13, <1>14, <1>15, <1>16,
           <1>17, <1>18, <1>21, <1>23, <1>24 DEF IInv

-----------------------------------------------------------------------------
(* What is answered *)

(* The debugger has started to record.                                      *)
LEMMA StartedKeeps ==
    ASSUME ConstantsOK, IInv, NEW c \in Callers, Started(c)
    PROVE  IInv'
<1>1. /\ at[c] = "asked" /\ Starter(c) /\ Rt(c) \in Workers /\ Of(c) \in States /\ lock[Rt(c)] = c
  BY Numbers DEF LockInv, Started, StartFails, IInv, PlaceInv, Placed, At, Starter, Requests
<1>2. /\ UNCHANGED <<session, runtime, cur, made, active, sure>>
      /\ Frees(c)
      /\ lock' \in [Workers -> Callers \cup {Nobody}]
      /\ worker[Rt(c)].up /\ worker[Rt(c)].late = None
      /\ worker[Rt(c)].rec = None
      /\ Starts(Rt(c), Of(c))
      /\ worker' \in [Workers -> Debugger]
      /\ Files1(Of(c), "there")
      /\ file' \in [States -> Files]
  BY <1>1, Locking, WorkerSteps DEF Started, Ordered, service
<1>3. /\ at' \in [Callers -> Places] /\ call' \in [Callers -> Calling]
      /\ Quits(c)
  BY Quitting, Moving DEF Places, Ops, Started
<1>4. Typed'
  BY ConstantsOK, Numbers, <1>1, <1>2, <1>3 DEF IInv, Typed, PlaceInv, Calling, Places, Ops,
     States, Workers, Debugger, Placed, Files, Frees, Files1, Starts, Turns, Quits, Holds, Of, Rt,
     Starter, None
<1>5. PlaceInv'
  BY ConstantsOK, Numbers, <1>1, <1>2, <1>3 DEF IInv, PlaceInv, Placed, Calling, Requests, Frees,
     Files1, Starts, Turns, Quits, Holds, Of, Rt, Starter, None
<1>6. LockInv'
  BY ConstantsOK, Numbers, <1>1, <1>2, <1>3 DEF IInv, PlaceInv, LockInv, Placed, ConstantsOK,
     Frees, Files1, Starts, Turns, Quits, Holds, Of, Rt, Starter, None
<1>7. UnusedInv'
  BY ConstantsOK, Numbers, <1>1, <1>2, <1>3 DEF IInv, PlaceInv, UnusedInv, Knows, Placed, Frees,
     Files1, Starts, Turns, Quits, Holds, Of, Rt, Starter, None
<1>8. NewInv'
  BY ConstantsOK, Numbers, <1>1, <1>2, <1>3 DEF IInv, PlaceInv, UnusedInv, NewInv, OneStarter,
     OwnInv, Waiting, Blank, Knows, Frees, Files1, Starts, Turns, Quits, Holds, Of, Rt, Starter,
     None
<1>9. OwnInv'
  BY ConstantsOK, Numbers, <1>1, <1>2, <1>3 DEF IInv, PlaceInv, OwnInv, Placed, Frees, Files1,
     Starts, Turns, Quits, Holds, Of, Rt, Starter, None
<1>10. StopInv'
  BY ConstantsOK, Numbers, <1>1, <1>2, <1>3 DEF IInv, PlaceInv, StopInv, NewInv, LockInv,
     OneStarter, Knows, Waiting, Blank, Placed, Frees, Files1, Starts, Turns, Quits, Holds, Of,
     Rt, Starter, None
<1>11. OneStarter'
  BY ConstantsOK, Numbers, <1>1, <1>2, <1>3 DEF IInv, PlaceInv, OneStarter, OwnInv, Waiting,
     Placed, Frees, Files1, Starts, Turns, Quits, Holds, Of, Rt, Starter, None
<1>12. HandInv'
  BY ConstantsOK, Numbers, <1>1, <1>2, <1>3 DEF IInv, HandInv, Hands, Frees, Files1, Starts,
     Turns, Quits, Holds, Of, Rt, Starter, None
<1>13. AgeInv'
  BY ConstantsOK, Numbers, <1>1, <1>2, <1>3 DEF IInv, AgeInv, HandInv, Hands, Frees, Files1,
     Starts, Turns, Quits, Holds, Of, Rt, Starter, None
<1>14. ClosingInv'
  BY ConstantsOK, Numbers, <1>1, <1>2, <1>3 DEF IInv, ClosingInv, Frees, Files1, Starts, Turns,
     Quits, Holds, Of, Rt, Starter, None
<1>15. DeadInv'
  BY ZenonT(60), ConstantsOK, Numbers, <1>1, <1>2, <1>3 DEF IInv, DeadInv, Frees, Files1, Starts,
     Turns, Quits, Holds, Of, Rt, Starter, None
<1>16. PathInv'
  BY ConstantsOK, Numbers, <1>1, <1>2, <1>3 DEF IInv, PathInv, Frees, Files1, Starts, Turns,
     Quits, Holds, Of, Rt, Starter, None
<1>17. UpInv'
  BY ConstantsOK, Numbers, <1>1, <1>2, <1>3 DEF IInv, PlaceInv, UpInv, HandInv, Hands, Frees,
     Files1, Starts, Turns, Quits, Holds, Of, Rt, Starter, None
<1>18. KnowInv'
  BY ConstantsOK, Numbers, <1>1, <1>2, <1>3 DEF IInv, NewInv, KnowInv, Knows, Waiting, Blank,
     Frees, Files1, Starts, Turns, Quits, Holds, Of, Rt, Starter, None
<1>19. \A d \in Callers : Dooms(d) => Dooms(d)'
  BY ConstantsOK, Numbers, <1>1, <1>2, <1>3 DEF IInv, PlaceInv, Dooms, Placed, Frees, Files1,
     Starts, Turns, Quits, Holds, Of, Rt, Starter, None
<1>20. Good => RecordInv'
  BY ConstantsOK, Numbers, <1>1, <1>2, <1>3 DEF IInv, PlaceInv, LockInv, RecordInv, Good, GoodRec,
     GoodLate, GoodAsk, GoodCall, Dooms, Busy, Asks, Frees, Files1, Starts, Turns, Quits, Holds,
     Of, Rt, Starter, None
<1>21. RecordInv'
  BY <1>19, <1>20 DEF IInv, RecordInv
<1>22. \A i \in States : Over(i) => Over(i)'
  BY ConstantsOK, Numbers, <1>1, <1>2, <1>3 DEF IInv, PlaceInv, NewInv, HandInv, AgeInv, OwnInv,
     OneStarter, Over, Waiting, Blank, Knows, Placed, Frees, Files1, Starts, Turns, Quits, Holds,
     Of, Rt, Starter, None
<1>23. SureInv'
  BY ConstantsOK, Numbers, <1>1, <1>2, <1>3, <1>22 DEF IInv, SureInv, NewInv, Typed, Waiting,
     Blank, Frees, Files1, Starts, Turns, Quits, Holds, Of, Rt, Starter, None
<1>24. ConfirmedInv'
  BY ConstantsOK, Numbers, <1>1, <1>2, <1>3, <1>22 DEF IInv, PlaceInv, ConfirmedInv, Confirmed,
     Placed, Frees, Files1, Starts, Turns, Quits, Holds, Of, Rt, Starter, None
<1> QED BY <1>4, <1>5, <1>6, <1>7, <1>8, <1>9, <1>10, <1>11, <1>12, <1>13, <1>14, <1>15, <1>16,
           <1>17, <1>18, <1>21, <1>23, <1>24 DEF IInv

(* A start fails without any effect on the debugger.                        *)
LEMMA StartRefusedKeeps ==
    ASSUME ConstantsOK, IInv, NEW c \in Callers, StartFails(c), NEW fatal \in BOOLEAN,
           Errs(c, fatal), Unmoved
    PROVE  IInv'
<1>1. /\ at[c] = "asked" /\ Starter(c) /\ Rt(c) \in Workers /\ Of(c) \in States /\ lock[Rt(c)] = c
  BY Numbers DEF LockInv, Started, StartFails, IInv, PlaceInv, Placed, At, Starter, Requests
<1>2. /\ UNCHANGED <<session, runtime, cur, made, active, file, sure, worker>>
      /\ Frees(c)
      /\ lock' \in [Workers -> Callers \cup {Nobody}]
  BY <1>1, Locking DEF StartFails, Unmoved, service
<1>3. /\ at' \in [Callers -> Places] /\ call' \in [Callers -> Calling]
      /\ Turns(c, "stop", "start", Of(c), Rt(c), fatal, call[c].safe)
  BY ZenonT(60), <1>1, Moving DEF Places, Starter, StartFails, Errs
<1>4. Typed'
  BY ConstantsOK, Numbers, <1>1, <1>2, <1>3 DEF IInv, Typed, PlaceInv, Calling, Places, Ops,
     States, Workers, Debugger, Placed, Files, Frees, Turns, Of, Rt, Starter, None
<1>5. PlaceInv'
  BY ConstantsOK, Numbers, <1>1, <1>2, <1>3 DEF IInv, PlaceInv, Placed, Calling, Requests, Frees,
     Turns, Of, Rt, Starter, None
<1>6. LockInv'
  BY ConstantsOK, Numbers, <1>1, <1>2, <1>3 DEF IInv, PlaceInv, LockInv, Placed, ConstantsOK,
     Frees, Turns, Of, Rt, Starter, None
<1>7. UnusedInv'
  BY ConstantsOK, Numbers, <1>1, <1>2, <1>3 DEF IInv, PlaceInv, UnusedInv, Knows, Placed, Frees,
     Turns, Of, Rt, Starter, None
<1>8. NewInv'
  BY ConstantsOK, Numbers, <1>1, <1>2, <1>3 DEF IInv, PlaceInv, UnusedInv, NewInv, OneStarter,
     OwnInv, Waiting, Blank, Knows, Frees, Turns, Of, Rt, Starter, None
<1>9. OwnInv'
  BY ConstantsOK, Numbers, <1>1, <1>2, <1>3 DEF IInv, PlaceInv, OwnInv, Placed, Frees, Turns, Of,
     Rt, Starter, None
<1>10. StopInv'
  BY ConstantsOK, Numbers, <1>1, <1>2, <1>3 DEF IInv, PlaceInv, StopInv, NewInv, LockInv,
     OneStarter, Knows, Waiting, Blank, Placed, Frees, Turns, Of, Rt, Starter, None
<1>11. OneStarter'
  BY ConstantsOK, Numbers, <1>1, <1>2, <1>3 DEF IInv, PlaceInv, OneStarter, OwnInv, Waiting,
     Placed, Frees, Turns, Of, Rt, Starter, None
<1>12. HandInv'
  BY ConstantsOK, Numbers, <1>1, <1>2, <1>3 DEF IInv, HandInv, Hands, Frees, Turns, Of, Rt,
     Starter, None
<1>13. AgeInv'
  BY ConstantsOK, Numbers, <1>1, <1>2, <1>3 DEF IInv, AgeInv, HandInv, Hands, Frees, Turns, Of,
     Rt, Starter, None
<1>14. ClosingInv'
  BY ConstantsOK, Numbers, <1>1, <1>2, <1>3 DEF IInv, ClosingInv, Frees, Turns, Of, Rt, Starter,
     None
<1>15. DeadInv'
  BY ConstantsOK, Numbers, <1>1, <1>2, <1>3 DEF IInv, DeadInv, Frees, Turns, Of, Rt, Starter, None
<1>16. PathInv'
  BY ConstantsOK, Numbers, <1>1, <1>2, <1>3 DEF IInv, PathInv, Frees, Turns, Of, Rt, Starter, None
<1>17. UpInv'
  BY ConstantsOK, Numbers, <1>1, <1>2, <1>3 DEF IInv, PlaceInv, UpInv, HandInv, Hands, Frees,
     Turns, Of, Rt, Starter, None
<1>18. KnowInv'
  BY ConstantsOK, Numbers, <1>1, <1>2, <1>3 DEF IInv, NewInv, KnowInv, Knows, Waiting, Blank,
     Frees, Turns, Of, Rt, Starter, None
<1>19. \A d \in Callers : Dooms(d) => Dooms(d)'
  BY ConstantsOK, Numbers, <1>1, <1>2, <1>3 DEF IInv, PlaceInv, Dooms, Placed, Frees, Turns, Of,
     Rt, Starter, None
<1>20. Good => RecordInv'
  BY ConstantsOK, Numbers, <1>1, <1>2, <1>3 DEF IInv, PlaceInv, LockInv, RecordInv, Good, GoodRec,
     GoodLate, GoodAsk, GoodCall, Dooms, Busy, Asks, Frees, Turns, Of, Rt, Starter, None
<1>21. RecordInv'
  BY <1>19, <1>20 DEF IInv, RecordInv
<1>22. \A i \in States : Over(i) => Over(i)'
  BY ConstantsOK, Numbers, <1>1, <1>2, <1>3 DEF IInv, PlaceInv, NewInv, HandInv, AgeInv, OwnInv,
     OneStarter, Over, Waiting, Blank, Knows, Placed, Frees, Turns, Of, Rt, Starter, None
<1>23. SureInv'
  BY ConstantsOK, Numbers, <1>1, <1>2, <1>3, <1>22 DEF IInv, SureInv, NewInv, Typed, Waiting,
     Blank, Frees, Turns, Of, Rt, Starter, None
<1>24. ConfirmedInv'
  BY ConstantsOK, Numbers, <1>1, <1>2, <1>3, <1>22 DEF IInv, PlaceInv, ConfirmedInv, Confirmed,
     Placed, Frees, Turns, Of, Rt, Starter, None
<1> QED BY <1>4, <1>5, <1>6, <1>7, <1>8, <1>9, <1>10, <1>11, <1>12, <1>13, <1>14, <1>15, <1>16,
           <1>17, <1>18, <1>21, <1>23, <1>24 DEF IInv

(* A start fails for its caller, and yet the debugger records.              *)
LEMMA StartUnheardKeeps ==
    ASSUME ConstantsOK, IInv, NEW c \in Callers, StartFails(c), NEW fatal \in BOOLEAN,
           Errs(c, fatal), Ordered(Rt(c)), worker[Rt(c)].rec = None, Began(Rt(c), Of(c))
    PROVE  IInv'
<1>1. /\ at[c] = "asked" /\ Starter(c) /\ Rt(c) \in Workers /\ Of(c) \in States /\ lock[Rt(c)] = c
  BY Numbers DEF LockInv, Started, StartFails, IInv, PlaceInv, Placed, At, Starter, Requests
<1>2. /\ UNCHANGED <<session, runtime, cur, made, active, sure>>
      /\ Frees(c)
      /\ lock' \in [Workers -> Callers \cup {Nobody}]
      /\ worker[Rt(c)].up /\ worker[Rt(c)].late = None
      /\ worker[Rt(c)].rec = None
      /\ Starts(Rt(c), Of(c))
      /\ worker' \in [Workers -> Debugger]
      /\ Files1(Of(c), "there")
      /\ file' \in [States -> Files]
  BY <1>1, Locking, WorkerSteps DEF StartFails, Ordered, service
<1>3. /\ at' \in [Callers -> Places] /\ call' \in [Callers -> Calling]
      /\ Turns(c, "stop", "start", Of(c), Rt(c), fatal, call[c].safe)
  BY ZenonT(60), <1>1, Moving DEF Places, Starter, StartFails, Errs
<1>4. Typed'
  BY ConstantsOK, Numbers, <1>1, <1>2, <1>3 DEF IInv, Typed, PlaceInv, Calling, Places, Ops,
     States, Workers, Debugger, Placed, Files, Frees, Files1, Starts, Turns, Holds, Of, Rt,
     Starter, None
<1>5. PlaceInv'
  BY ConstantsOK, Numbers, <1>1, <1>2, <1>3 DEF IInv, PlaceInv, Placed, Calling, Requests, Frees,
     Files1, Starts, Turns, Holds, Of, Rt, Starter, None
<1>6. LockInv'
  BY ConstantsOK, Numbers, <1>1, <1>2, <1>3 DEF IInv, PlaceInv, LockInv, Placed, ConstantsOK,
     Frees, Files1, Starts, Turns, Holds, Of, Rt, Starter, None
<1>7. UnusedInv'
  BY ConstantsOK, Numbers, <1>1, <1>2, <1>3 DEF IInv, PlaceInv, UnusedInv, Knows, Placed, Frees,
     Files1, Starts, Turns, Holds, Of, Rt, Starter, None
<1>8. NewInv'
  BY ConstantsOK, Numbers, <1>1, <1>2, <1>3 DEF IInv, PlaceInv, UnusedInv, NewInv, OneStarter,
     OwnInv, Waiting, Blank, Knows, Frees, Files1, Starts, Turns, Holds, Of, Rt, Starter, None
<1>9. OwnInv'
  BY ConstantsOK, Numbers, <1>1, <1>2, <1>3 DEF IInv, PlaceInv, OwnInv, Placed, Frees, Files1,
     Starts, Turns, Holds, Of, Rt, Starter, None
<1>10. StopInv'
  BY ConstantsOK, Numbers, <1>1, <1>2, <1>3 DEF IInv, PlaceInv, StopInv, NewInv, LockInv,
     OneStarter, Knows, Waiting, Blank, Placed, Frees, Files1, Starts, Turns, Holds, Of, Rt,
     Starter, None
<1>11. OneStarter'
  BY ConstantsOK, Numbers, <1>1, <1>2, <1>3 DEF IInv, PlaceInv, OneStarter, OwnInv, Waiting,
     Placed, Frees, Files1, Starts, Turns, Holds, Of, Rt, Starter, None
<1>12. HandInv'
  BY ConstantsOK, Numbers, <1>1, <1>2, <1>3 DEF IInv, HandInv, Hands, Frees, Files1, Starts,
     Turns, Holds, Of, Rt, Starter, None
<1>13. AgeInv'
  BY ConstantsOK, Numbers, <1>1, <1>2, <1>3 DEF IInv, AgeInv, HandInv, Hands, Frees, Files1,
     Starts, Turns, Holds, Of, Rt, Starter, None
<1>14. ClosingInv'
  BY ConstantsOK, Numbers, <1>1, <1>2, <1>3 DEF IInv, ClosingInv, Frees, Files1, Starts, Turns,
     Holds, Of, Rt, Starter, None
<1>15. DeadInv'
  BY ZenonT(60), ConstantsOK, Numbers, <1>1, <1>2, <1>3 DEF IInv, DeadInv, Frees, Files1, Starts,
     Turns, Holds, Of, Rt, Starter, None
<1>16. PathInv'
  BY ConstantsOK, Numbers, <1>1, <1>2, <1>3 DEF IInv, PathInv, Frees, Files1, Starts, Turns,
     Holds, Of, Rt, Starter, None
<1>17. UpInv'
  BY ConstantsOK, Numbers, <1>1, <1>2, <1>3 DEF IInv, PlaceInv, UpInv, HandInv, Hands, Frees,
     Files1, Starts, Turns, Holds, Of, Rt, Starter, None
<1>18. KnowInv'
  BY ConstantsOK, Numbers, <1>1, <1>2, <1>3 DEF IInv, NewInv, KnowInv, Knows, Waiting, Blank,
     Frees, Files1, Starts, Turns, Holds, Of, Rt, Starter, None
<1>19. \A d \in Callers : Dooms(d) => Dooms(d)'
  BY ConstantsOK, Numbers, <1>1, <1>2, <1>3 DEF IInv, PlaceInv, Dooms, Placed, Frees, Files1,
     Starts, Turns, Holds, Of, Rt, Starter, None
<1>20. Good => RecordInv'
  BY ConstantsOK, Numbers, <1>1, <1>2, <1>3 DEF IInv, PlaceInv, LockInv, RecordInv, Good, GoodRec,
     GoodLate, GoodAsk, GoodCall, Dooms, Busy, Asks, Frees, Files1, Starts, Turns, Holds, Of, Rt,
     Starter, None
<1>21. RecordInv'
  BY <1>19, <1>20 DEF IInv, RecordInv
<1>22. \A i \in States : Over(i) => Over(i)'
  BY ConstantsOK, Numbers, <1>1, <1>2, <1>3 DEF IInv, PlaceInv, NewInv, HandInv, AgeInv, OwnInv,
     OneStarter, Over, Waiting, Blank, Knows, Placed, Frees, Files1, Starts, Turns, Holds, Of, Rt,
     Starter, None
<1>23. SureInv'
  BY ConstantsOK, Numbers, <1>1, <1>2, <1>3, <1>22 DEF IInv, SureInv, NewInv, Typed, Waiting,
     Blank, Frees, Files1, Starts, Turns, Holds, Of, Rt, Starter, None
<1>24. ConfirmedInv'
  BY ConstantsOK, Numbers, <1>1, <1>2, <1>3, <1>22 DEF IInv, PlaceInv, ConfirmedInv, Confirmed,
     Placed, Frees, Files1, Starts, Turns, Holds, Of, Rt, Starter, None
<1> QED BY <1>4, <1>5, <1>6, <1>7, <1>8, <1>9, <1>10, <1>11, <1>12, <1>13, <1>14, <1>15, <1>16,
           <1>17, <1>18, <1>21, <1>23, <1>24 DEF IInv

(* A start fails for its caller, and the debugger will come to it later.    *)
LEMMA StartDelayedKeeps ==
    ASSUME ConstantsOK, IInv, NEW c \in Callers, StartFails(c), NEW fatal \in BOOLEAN,
           Errs(c, fatal), Ordered(Rt(c)), worker[Rt(c)].rec = None, UNCHANGED file,
           Worker(Rt(c), [worker[Rt(c)] EXCEPT !.late = Of(c)])
    PROVE  IInv'
<1>1. /\ at[c] = "asked" /\ Starter(c) /\ Rt(c) \in Workers /\ Of(c) \in States /\ lock[Rt(c)] = c
  BY Numbers DEF LockInv, Started, StartFails, IInv, PlaceInv, Placed, At, Starter, Requests
<1>2. /\ UNCHANGED <<session, runtime, cur, made, active, file, sure>>
      /\ Frees(c)
      /\ lock' \in [Workers -> Callers \cup {Nobody}]
      /\ worker[Rt(c)].up /\ worker[Rt(c)].late = None
      /\ worker[Rt(c)].rec = None
      /\ Delays(Rt(c), Of(c))
      /\ worker' \in [Workers -> Debugger]
  BY <1>1, Locking, WorkerSteps DEF StartFails, Ordered, service
<1>3. /\ at' \in [Callers -> Places] /\ call' \in [Callers -> Calling]
      /\ Turns(c, "stop", "start", Of(c), Rt(c), fatal, call[c].safe)
  BY ZenonT(60), <1>1, Moving DEF Places, Starter, StartFails, Errs
<1>4. Typed'
  BY ConstantsOK, Numbers, <1>1, <1>2, <1>3 DEF IInv, Typed, PlaceInv, Calling, Places, Ops,
     States, Workers, Debugger, Placed, Files, Frees, Delays, Turns, Holds, Of, Rt, Starter, None
<1>5. PlaceInv'
  BY ConstantsOK, Numbers, <1>1, <1>2, <1>3 DEF IInv, PlaceInv, Placed, Calling, Requests, Frees,
     Delays, Turns, Holds, Of, Rt, Starter, None
<1>6. LockInv'
  BY ConstantsOK, Numbers, <1>1, <1>2, <1>3 DEF IInv, PlaceInv, LockInv, Placed, ConstantsOK,
     Frees, Delays, Turns, Holds, Of, Rt, Starter, None
<1>7. UnusedInv'
  BY ConstantsOK, Numbers, <1>1, <1>2, <1>3 DEF IInv, PlaceInv, UnusedInv, Knows, Placed, Frees,
     Delays, Turns, Holds, Of, Rt, Starter, None
<1>8. NewInv'
  BY ConstantsOK, Numbers, <1>1, <1>2, <1>3 DEF IInv, PlaceInv, UnusedInv, NewInv, OneStarter,
     OwnInv, Waiting, Blank, Knows, Frees, Delays, Turns, Holds, Of, Rt, Starter, None
<1>9. OwnInv'
  BY ConstantsOK, Numbers, <1>1, <1>2, <1>3 DEF IInv, PlaceInv, OwnInv, Placed, Frees, Delays,
     Turns, Holds, Of, Rt, Starter, None
<1>10. StopInv'
  BY ConstantsOK, Numbers, <1>1, <1>2, <1>3 DEF IInv, PlaceInv, StopInv, NewInv, LockInv,
     OneStarter, Knows, Waiting, Blank, Placed, Frees, Delays, Turns, Holds, Of, Rt, Starter, None
<1>11. OneStarter'
  BY ConstantsOK, Numbers, <1>1, <1>2, <1>3 DEF IInv, PlaceInv, OneStarter, OwnInv, Waiting,
     Placed, Frees, Delays, Turns, Holds, Of, Rt, Starter, None
<1>12. HandInv'
  BY ConstantsOK, Numbers, <1>1, <1>2, <1>3 DEF IInv, HandInv, Hands, Frees, Delays, Turns, Holds,
     Of, Rt, Starter, None
<1>13. AgeInv'
  BY ConstantsOK, Numbers, <1>1, <1>2, <1>3 DEF IInv, AgeInv, HandInv, Hands, Frees, Delays,
     Turns, Holds, Of, Rt, Starter, None
<1>14. ClosingInv'
  BY ConstantsOK, Numbers, <1>1, <1>2, <1>3 DEF IInv, ClosingInv, Frees, Delays, Turns, Holds, Of,
     Rt, Starter, None
<1>15. DeadInv'
  BY ConstantsOK, Numbers, <1>1, <1>2, <1>3 DEF IInv, DeadInv, Frees, Delays, Turns, Holds, Of,
     Rt, Starter, None
<1>16. PathInv'
  BY ConstantsOK, Numbers, <1>1, <1>2, <1>3 DEF IInv, PathInv, Frees, Delays, Turns, Holds, Of,
     Rt, Starter, None
<1>17. UpInv'
  BY ConstantsOK, Numbers, <1>1, <1>2, <1>3 DEF IInv, PlaceInv, UpInv, HandInv, Hands, Frees,
     Delays, Turns, Holds, Of, Rt, Starter, None
<1>18. KnowInv'
  BY ConstantsOK, Numbers, <1>1, <1>2, <1>3 DEF IInv, NewInv, KnowInv, Knows, Waiting, Blank,
     Frees, Delays, Turns, Holds, Of, Rt, Starter, None
<1>19. \A d \in Callers : Dooms(d) => Dooms(d)'
  BY ConstantsOK, Numbers, <1>1, <1>2, <1>3 DEF IInv, PlaceInv, Dooms, Placed, Frees, Delays,
     Turns, Holds, Of, Rt, Starter, None
<1>20. Good => RecordInv'
  BY ConstantsOK, Numbers, <1>1, <1>2, <1>3 DEF IInv, PlaceInv, LockInv, RecordInv, Good, GoodRec,
     GoodLate, GoodAsk, GoodCall, Dooms, Busy, Asks, Frees, Delays, Turns, Holds, Of, Rt, Starter,
     None
<1>21. RecordInv'
  BY <1>19, <1>20 DEF IInv, RecordInv
<1>22. \A i \in States : Over(i) => Over(i)'
  BY ConstantsOK, Numbers, <1>1, <1>2, <1>3 DEF IInv, PlaceInv, NewInv, HandInv, AgeInv, OwnInv,
     OneStarter, Over, Waiting, Blank, Knows, Placed, Frees, Delays, Turns, Holds, Of, Rt,
     Starter, None
<1>23. SureInv'
  BY ConstantsOK, Numbers, <1>1, <1>2, <1>3, <1>22 DEF IInv, SureInv, NewInv, Typed, Waiting,
     Blank, Frees, Delays, Turns, Holds, Of, Rt, Starter, None
<1>24. ConfirmedInv'
  BY ConstantsOK, Numbers, <1>1, <1>2, <1>3, <1>22 DEF IInv, PlaceInv, ConfirmedInv, Confirmed,
     Placed, Frees, Delays, Turns, Holds, Of, Rt, Starter, None
<1> QED BY <1>4, <1>5, <1>6, <1>7, <1>8, <1>9, <1>10, <1>11, <1>12, <1>13, <1>14, <1>15, <1>16,
           <1>17, <1>18, <1>21, <1>23, <1>24 DEF IInv

(* A stop or a question is answered where the session had no trace.         *)
LEMMA AnswersNobodyKeeps ==
    ASSUME ConstantsOK, IInv, NEW c \in Callers, Answered(c), Of(c) = None
    PROVE  IInv'
<1>1. /\ at[c] = "asked" /\ ~Starter(c) /\ call[c].op \in {"stop", "status"} /\ Rt(c) \in Workers
         /\ lock[Rt(c)] = c /\ ~call[c].fatal
  BY DEF LockInv, Answered, Unanswered, IInv, PlaceInv, Placed, At, Starter, Requests
<1>2. /\ UNCHANGED <<session, runtime, cur, made, active, file, sure>>
      /\ Frees(c)
      /\ lock' \in [Workers -> Callers \cup {Nobody}]
      /\ worker[Rt(c)].up /\ worker[Rt(c)].late = None
      /\ worker' \in [Workers -> Debugger]
      /\ Calms
  BY <1>1, Locking, WorkerSteps, Calming DEF Answered, Ordered, Answer, Worker, IInv, Typed
<1>3. /\ UNCHANGED <<session, runtime, cur, made, active, file, sure>>
      /\ at' \in [Callers -> Places] /\ call' \in [Callers -> Calling]
      /\ Quits(c)
  BY Quitting, Moving DEF Places, Ops, Answered
<1>4. Typed'
  BY ConstantsOK, Numbers, <1>1, <1>2, <1>3 DEF IInv, Typed, PlaceInv, Calling, Places, Ops,
     States, Workers, Debugger, Placed, Files, Frees, Calms, Turns, Quits, Of, Rt, Starter, None
<1>5. PlaceInv'
  BY ConstantsOK, Numbers, <1>1, <1>2, <1>3 DEF IInv, PlaceInv, Placed, Calling, Requests, Frees,
     Calms, Turns, Quits, Of, Rt, Starter, None
<1>6. LockInv'
  BY ConstantsOK, Numbers, <1>1, <1>2, <1>3 DEF IInv, PlaceInv, LockInv, Placed, ConstantsOK,
     Frees, Calms, Turns, Quits, Of, Rt, Starter, None
<1>7. UnusedInv'
  BY ConstantsOK, Numbers, <1>1, <1>2, <1>3 DEF IInv, PlaceInv, UnusedInv, Knows, Placed, Frees,
     Calms, Turns, Quits, Of, Rt, Starter, None
<1>8. NewInv'
  BY ConstantsOK, Numbers, <1>1, <1>2, <1>3 DEF IInv, PlaceInv, UnusedInv, NewInv, OneStarter,
     OwnInv, Waiting, Blank, Knows, Frees, Calms, Turns, Quits, Of, Rt, Starter, None
<1>9. OwnInv'
  BY ConstantsOK, Numbers, <1>1, <1>2, <1>3 DEF IInv, PlaceInv, OwnInv, Placed, Frees, Calms,
     Turns, Quits, Of, Rt, Starter, None
<1>10. StopInv'
  BY ConstantsOK, Numbers, <1>1, <1>2, <1>3 DEF IInv, PlaceInv, StopInv, NewInv, LockInv,
     OneStarter, Knows, Waiting, Blank, Placed, Frees, Calms, Turns, Quits, Of, Rt, Starter, None
<1>11. OneStarter'
  BY ConstantsOK, Numbers, <1>1, <1>2, <1>3 DEF IInv, PlaceInv, OneStarter, OwnInv, Waiting,
     Placed, Frees, Calms, Turns, Quits, Of, Rt, Starter, None
<1>12. HandInv'
  BY ConstantsOK, Numbers, <1>1, <1>2, <1>3 DEF IInv, HandInv, Hands, Frees, Calms, Turns, Quits,
     Of, Rt, Starter, None
<1>13. AgeInv'
  BY ConstantsOK, Numbers, <1>1, <1>2, <1>3 DEF IInv, AgeInv, HandInv, Hands, Frees, Calms, Turns,
     Quits, Of, Rt, Starter, None
<1>14. ClosingInv'
  BY ConstantsOK, Numbers, <1>1, <1>2, <1>3 DEF IInv, ClosingInv, Frees, Calms, Turns, Quits, Of,
     Rt, Starter, None
<1>15. DeadInv'
  BY ConstantsOK, Numbers, <1>1, <1>2, <1>3 DEF IInv, DeadInv, Frees, Calms, Turns, Quits, Of, Rt,
     Starter, None
<1>16. PathInv'
  BY ConstantsOK, Numbers, <1>1, <1>2, <1>3 DEF IInv, PathInv, Frees, Calms, Turns, Quits, Of, Rt,
     Starter, None
<1>17. UpInv'
  BY ConstantsOK, Numbers, <1>1, <1>2, <1>3 DEF IInv, PlaceInv, UpInv, HandInv, Hands, Frees,
     Calms, Turns, Quits, Of, Rt, Starter, None
<1>18. KnowInv'
  BY ConstantsOK, Numbers, <1>1, <1>2, <1>3 DEF IInv, NewInv, KnowInv, Knows, Waiting, Blank,
     Frees, Calms, Turns, Quits, Of, Rt, Starter, None
<1>19. \A d \in Callers : Dooms(d) => Dooms(d)'
  BY ConstantsOK, Numbers, <1>1, <1>2, <1>3 DEF IInv, PlaceInv, Dooms, Placed, Frees, Calms,
     Turns, Quits, Of, Rt, Starter, None
<1>20. Good => RecordInv'
  BY ConstantsOK, Numbers, <1>1, <1>2, <1>3 DEF IInv, PlaceInv, LockInv, RecordInv, Good, GoodRec,
     GoodLate, GoodAsk, GoodCall, Dooms, Busy, Asks, Frees, Calms, Turns, Quits, Of, Rt, Starter,
     None
<1>21. RecordInv'
  BY <1>19, <1>20 DEF IInv, RecordInv
<1>22. \A i \in States : Over(i) => Over(i)'
  BY ConstantsOK, Numbers, <1>1, <1>2, <1>3 DEF IInv, PlaceInv, NewInv, HandInv, AgeInv, OwnInv,
     OneStarter, Over, Waiting, Blank, Knows, Placed, Frees, Calms, Turns, Quits, Of, Rt, Starter,
     None
<1>23. SureInv'
  BY ConstantsOK, Numbers, <1>1, <1>2, <1>3, <1>22 DEF IInv, SureInv, NewInv, Typed, Waiting,
     Blank, Frees, Calms, Turns, Quits, Of, Rt, Starter, None
<1>24. ConfirmedInv'
  BY ConstantsOK, Numbers, <1>1, <1>2, <1>3, <1>22 DEF IInv, PlaceInv, ConfirmedInv, Confirmed,
     Placed, Frees, Calms, Turns, Quits, Of, Rt, Starter, None
<1> QED BY <1>4, <1>5, <1>6, <1>7, <1>8, <1>9, <1>10, <1>11, <1>12, <1>13, <1>14, <1>15, <1>16,
           <1>17, <1>18, <1>21, <1>23, <1>24 DEF IInv

(* The answer is that the trace is not recorded any more.                   *)
LEMMA AnswersStoppedKeeps ==
    ASSUME ConstantsOK, IInv, NEW c \in Callers, Answered(c), Of(c) # None, Accepts(c),
           worker'[Rt(c)].rec = None
    PROVE  IInv'
<1>1. /\ at[c] = "asked" /\ ~Starter(c) /\ call[c].op \in {"stop", "status"} /\ Rt(c) \in Workers
         /\ lock[Rt(c)] = c /\ ~call[c].fatal
  BY DEF LockInv, Answered, Unanswered, IInv, PlaceInv, Placed, At, Starter, Requests
<1>2. /\ UNCHANGED <<session, runtime, cur, made, file, sure>>
      /\ Frees(c)
      /\ lock' \in [Workers -> Callers \cup {Nobody}]
      /\ worker[Rt(c)].up /\ worker[Rt(c)].late = None
      /\ worker' \in [Workers -> Debugger]
      /\ Calms
  BY <1>1, Locking, WorkerSteps, Calming DEF Answered, Ordered, Answer, Worker, IInv, Typed
<1>3. /\ active' = active \ {Of(c)}
      /\ worker[Rt(c)].path = Of(c)
      /\ at' \in [Callers -> Places] /\ call' \in [Callers -> Calling]
      /\ Moves(c, "register")
  BY Quitting, Moving DEF Places, Ops, Answered, Accepts
<1>4. Typed'
  BY ConstantsOK, Numbers, <1>1, <1>2, <1>3 DEF IInv, Typed, PlaceInv, Calling, Places, Ops,
     States, Workers, Debugger, Placed, Files, Frees, Calms, Turns, Moves, Of, Rt, Starter, None
<1>5. PlaceInv'
  BY ConstantsOK, Numbers, <1>1, <1>2, <1>3 DEF IInv, PlaceInv, Placed, Calling, Requests, Frees,
     Calms, Turns, Moves, Of, Rt, Starter, None
<1>6. LockInv'
  BY ConstantsOK, Numbers, <1>1, <1>2, <1>3 DEF IInv, PlaceInv, LockInv, Placed, ConstantsOK,
     Frees, Calms, Turns, Moves, Of, Rt, Starter, None
<1>7. UnusedInv'
  BY ConstantsOK, Numbers, <1>1, <1>2, <1>3 DEF IInv, PlaceInv, UnusedInv, Knows, Placed, Frees,
     Calms, Turns, Moves, Of, Rt, Starter, None
<1>8. NewInv'
  BY ConstantsOK, Numbers, <1>1, <1>2, <1>3 DEF IInv, PlaceInv, UnusedInv, NewInv, OneStarter,
     OwnInv, Waiting, Blank, Knows, Frees, Calms, Turns, Moves, Of, Rt, Starter, None
<1>9. OwnInv'
  BY ConstantsOK, Numbers, <1>1, <1>2, <1>3 DEF IInv, PlaceInv, OwnInv, Placed, Frees, Calms,
     Turns, Moves, Of, Rt, Starter, None
<1>10. StopInv'
  BY ConstantsOK, Numbers, <1>1, <1>2, <1>3 DEF IInv, PlaceInv, StopInv, NewInv, LockInv,
     OneStarter, Knows, Waiting, Blank, Placed, Frees, Calms, Turns, Moves, Of, Rt, Starter, None
<1>11. OneStarter'
  BY ConstantsOK, Numbers, <1>1, <1>2, <1>3 DEF IInv, PlaceInv, OneStarter, OwnInv, Waiting,
     Placed, Frees, Calms, Turns, Moves, Of, Rt, Starter, None
<1>12. HandInv'
  BY ConstantsOK, Numbers, <1>1, <1>2, <1>3 DEF IInv, HandInv, Hands, Frees, Calms, Turns, Moves,
     Of, Rt, Starter, None
<1>13. AgeInv'
  BY ConstantsOK, Numbers, <1>1, <1>2, <1>3 DEF IInv, AgeInv, HandInv, Hands, Frees, Calms, Turns,
     Moves, Of, Rt, Starter, None
<1>14. ClosingInv'
  BY ConstantsOK, Numbers, <1>1, <1>2, <1>3 DEF IInv, ClosingInv, Frees, Calms, Turns, Moves, Of,
     Rt, Starter, None
<1>15. DeadInv'
  BY ConstantsOK, Numbers, <1>1, <1>2, <1>3 DEF IInv, DeadInv, Frees, Calms, Turns, Moves, Of, Rt,
     Starter, None
<1>16. PathInv'
  BY ConstantsOK, Numbers, <1>1, <1>2, <1>3 DEF IInv, PathInv, Frees, Calms, Turns, Moves, Of, Rt,
     Starter, None
<1>17. UpInv'
  BY ConstantsOK, Numbers, <1>1, <1>2, <1>3 DEF IInv, PlaceInv, UpInv, HandInv, Hands, Frees,
     Calms, Turns, Moves, Of, Rt, Starter, None
<1>18. KnowInv'
  BY ConstantsOK, Numbers, <1>1, <1>2, <1>3 DEF IInv, NewInv, KnowInv, Knows, Waiting, Blank,
     Frees, Calms, Turns, Moves, Of, Rt, Starter, None
<1>19. \A d \in Callers : Dooms(d) => Dooms(d)'
  BY ConstantsOK, Numbers, <1>1, <1>2, <1>3 DEF IInv, PlaceInv, Dooms, Placed, Frees, Calms,
     Turns, Moves, Of, Rt, Starter, None
<1>20. Good => RecordInv'
  BY ConstantsOK, Numbers, <1>1, <1>2, <1>3 DEF IInv, PlaceInv, LockInv, RecordInv, Good, GoodRec,
     GoodLate, GoodAsk, GoodCall, Dooms, Busy, Asks, Frees, Calms, Turns, Moves, Of, Rt, Starter,
     None
<1>21. RecordInv'
  BY <1>19, <1>20 DEF IInv, RecordInv
<1>22. \A i \in States : Over(i) => Over(i)'
  BY ConstantsOK, Numbers, <1>1, <1>2, <1>3 DEF IInv, PlaceInv, NewInv, HandInv, AgeInv, OwnInv,
     OneStarter, Over, Waiting, Blank, Knows, Placed, Frees, Calms, Turns, Moves, Of, Rt, Starter,
     None
<1>23. SureInv'
  BY ConstantsOK, Numbers, <1>1, <1>2, <1>3, <1>22 DEF IInv, SureInv, NewInv, Typed, Waiting,
     Blank, Frees, Calms, Turns, Moves, Of, Rt, Starter, None
<1>24. ConfirmedInv'
  BY ConstantsOK, Numbers, <1>1, <1>2, <1>3, <1>22 DEF IInv, PlaceInv, ConfirmedInv, Confirmed,
     Placed, Frees, Calms, Turns, Moves, Of, Rt, Starter, None, KnowInv, Knows, NewInv, Waiting,
     Blank, Over
<1> QED BY <1>4, <1>5, <1>6, <1>7, <1>8, <1>9, <1>10, <1>11, <1>12, <1>13, <1>14, <1>15, <1>16,
           <1>17, <1>18, <1>21, <1>23, <1>24 DEF IInv

(* The answer is that the trace is still recorded.                          *)
LEMMA AnswersRecordingKeeps ==
    ASSUME ConstantsOK, IInv, NEW c \in Callers, Answered(c), Of(c) # None, Accepts(c),
           worker'[Rt(c)].rec # None
    PROVE  IInv'
<1>1. /\ at[c] = "asked" /\ ~Starter(c) /\ call[c].op \in {"stop", "status"} /\ Rt(c) \in Workers
         /\ lock[Rt(c)] = c /\ ~call[c].fatal
  BY DEF LockInv, Answered, Unanswered, IInv, PlaceInv, Placed, At, Starter, Requests
<1>2. /\ UNCHANGED <<session, runtime, cur, made, file, sure>>
      /\ Frees(c)
      /\ lock' \in [Workers -> Callers \cup {Nobody}]
      /\ worker[Rt(c)].up /\ worker[Rt(c)].late = None
      /\ worker' \in [Workers -> Debugger]
      /\ Calms
  BY <1>1, Locking, WorkerSteps, Calming DEF Answered, Ordered, Answer, Worker, IInv, Typed
<1>3. /\ worker[Rt(c)].rec # None /\ worker'[Rt(c)].rec = worker[Rt(c)].rec
  BY <1>1, <1>2 DEF Calms
<1>4. /\ active' = active \cup {Of(c)}
      /\ worker[Rt(c)].path = Of(c)
      /\ Of(c) \in States
      /\ at' \in [Callers -> Places] /\ call' \in [Callers -> Calling]
      /\ Quits(c)
  BY Numbers, Quitting, Moving DEF Places, Ops, Answered, Accepts
<1>5. Typed'
  BY ConstantsOK, Numbers, <1>1, <1>2, <1>3, <1>4 DEF IInv, Typed, PlaceInv, Calling, Places, Ops,
     States, Workers, Debugger, Placed, Files, Frees, Calms, Turns, Quits, Of, Rt, Starter, None
<1>6. PlaceInv'
  BY ConstantsOK, Numbers, <1>1, <1>2, <1>3, <1>4 DEF IInv, PlaceInv, Placed, Calling, Requests,
     Frees, Calms, Turns, Quits, Of, Rt, Starter, None
<1>7. LockInv'
  BY ConstantsOK, Numbers, <1>1, <1>2, <1>3, <1>4 DEF IInv, PlaceInv, LockInv, Placed,
     ConstantsOK, Frees, Calms, Turns, Quits, Of, Rt, Starter, None
<1>8. UnusedInv'
  BY ConstantsOK, Numbers, <1>1, <1>2, <1>3, <1>4 DEF IInv, PlaceInv, UnusedInv, Knows, Placed,
     Frees, Calms, Turns, Quits, Of, Rt, Starter, None
<1>9. NewInv'
  BY ConstantsOK, Numbers, <1>1, <1>2, <1>3, <1>4 DEF IInv, PlaceInv, UnusedInv, NewInv,
     OneStarter, OwnInv, Waiting, Blank, Knows, Frees, Calms, Turns, Quits, Of, Rt, Starter, None
<1>10. OwnInv'
  BY ConstantsOK, Numbers, <1>1, <1>2, <1>3, <1>4 DEF IInv, PlaceInv, OwnInv, Placed, Frees,
     Calms, Turns, Quits, Of, Rt, Starter, None
<1>11. StopInv'
  BY ConstantsOK, Numbers, <1>1, <1>2, <1>3, <1>4 DEF IInv, PlaceInv, StopInv, NewInv, LockInv,
     OneStarter, Knows, Waiting, Blank, Placed, Frees, Calms, Turns, Quits, Of, Rt, Starter, None
<1>12. OneStarter'
  BY ConstantsOK, Numbers, <1>1, <1>2, <1>3, <1>4 DEF IInv, PlaceInv, OneStarter, OwnInv, Waiting,
     Placed, Frees, Calms, Turns, Quits, Of, Rt, Starter, None
<1>13. HandInv'
  BY ConstantsOK, Numbers, <1>1, <1>2, <1>3, <1>4 DEF IInv, HandInv, Hands, Frees, Calms, Turns,
     Quits, Of, Rt, Starter, None
<1>14. AgeInv'
  BY ConstantsOK, Numbers, <1>1, <1>2, <1>3, <1>4 DEF IInv, AgeInv, HandInv, Hands, Frees, Calms,
     Turns, Quits, Of, Rt, Starter, None
<1>15. ClosingInv'
  BY ConstantsOK, Numbers, <1>1, <1>2, <1>3, <1>4 DEF IInv, ClosingInv, Frees, Calms, Turns,
     Quits, Of, Rt, Starter, None
<1>16. DeadInv'
  BY ConstantsOK, Numbers, <1>1, <1>2, <1>3, <1>4 DEF IInv, DeadInv, Frees, Calms, Turns, Quits,
     Of, Rt, Starter, None
<1>17. PathInv'
  BY ConstantsOK, Numbers, <1>1, <1>2, <1>3, <1>4 DEF IInv, PathInv, Frees, Calms, Turns, Quits,
     Of, Rt, Starter, None
<1>18. UpInv'
  BY ConstantsOK, Numbers, <1>1, <1>2, <1>3, <1>4 DEF IInv, PlaceInv, UpInv, HandInv, Hands,
     Frees, Calms, Turns, Quits, Of, Rt, Starter, None
<1>19. KnowInv'
  BY ConstantsOK, Numbers, <1>1, <1>2, <1>3, <1>4 DEF IInv, NewInv, KnowInv, Knows, Waiting,
     Blank, Frees, Calms, Turns, Quits, Of, Rt, Starter, None
<1>20. \A d \in Callers : Dooms(d) => Dooms(d)'
  BY ConstantsOK, Numbers, <1>1, <1>2, <1>3, <1>4 DEF IInv, PlaceInv, Dooms, Placed, Frees, Calms,
     Turns, Quits, Of, Rt, Starter, None
<1>21. Good => RecordInv'
  BY ConstantsOK, Numbers, <1>1, <1>2, <1>3, <1>4 DEF IInv, PlaceInv, LockInv, RecordInv, Good,
     GoodRec, GoodLate, GoodAsk, GoodCall, Dooms, Busy, Asks, Frees, Calms, Turns, Quits, Of, Rt,
     Starter, None
<1>22. RecordInv'
  BY <1>20, <1>21 DEF IInv, RecordInv
<1>23. \A i \in States : Over(i) => Over(i)'
  BY ConstantsOK, Numbers, <1>1, <1>2, <1>3, <1>4 DEF IInv, PlaceInv, NewInv, HandInv, AgeInv,
     OwnInv, OneStarter, Over, Waiting, Blank, Knows, Placed, Frees, Calms, Turns, Quits, Of, Rt,
     Starter, None
<1>24. SureInv'
  BY ConstantsOK, Numbers, <1>1, <1>2, <1>3, <1>4, <1>23 DEF IInv, SureInv, NewInv, Typed,
     Waiting, Blank, Frees, Calms, Turns, Quits, Of, Rt, Starter, None
<1>25. ConfirmedInv'
  BY ConstantsOK, Numbers, <1>1, <1>2, <1>3, <1>4, <1>23 DEF IInv, PlaceInv, ConfirmedInv,
     Confirmed, Placed, Frees, Calms, Turns, Quits, Of, Rt, Starter, None
<1> QED BY <1>5, <1>6, <1>7, <1>8, <1>9, <1>10, <1>11, <1>12, <1>13, <1>14, <1>15, <1>16, <1>17,
           <1>18, <1>19, <1>22, <1>24, <1>25 DEF IInv

(* The answer is of another trace than the session's.                       *)
LEMMA AnswersOtherKeeps ==
    ASSUME ConstantsOK, IInv, NEW c \in Callers, Answered(c), Of(c) # None, ~Accepts(c)
    PROVE  IInv'
<1>1. /\ at[c] = "asked" /\ ~Starter(c) /\ call[c].op \in {"stop", "status"} /\ Rt(c) \in Workers
         /\ lock[Rt(c)] = c /\ ~call[c].fatal
  BY DEF LockInv, Answered, Unanswered, IInv, PlaceInv, Placed, At, Starter, Requests
<1>2. /\ UNCHANGED <<session, runtime, cur, made, active, file, sure>>
      /\ Frees(c)
      /\ lock' \in [Workers -> Callers \cup {Nobody}]
      /\ worker[Rt(c)].up /\ worker[Rt(c)].late = None
      /\ worker' \in [Workers -> Debugger]
      /\ Calms
  BY <1>1, Locking, WorkerSteps, Calming DEF Answered, Ordered, Answer, Worker, IInv, Typed
<1>3. /\ UNCHANGED active
      /\ at' \in [Callers -> Places] /\ call' \in [Callers -> Calling]
      /\ Turns(c, "error", call[c].op, Of(c), Rt(c), TRUE, call[c].safe)
  BY Quitting, Moving DEF Places, Ops, Answered, Errs
<1>4. Typed'
  BY ConstantsOK, Numbers, <1>1, <1>2, <1>3 DEF IInv, Typed, PlaceInv, Calling, Places, Ops,
     States, Workers, Debugger, Placed, Files, Frees, Calms, Turns, Of, Rt, Starter, None
<1>5. PlaceInv'
  BY ConstantsOK, Numbers, <1>1, <1>2, <1>3 DEF IInv, PlaceInv, Placed, Calling, Requests, Frees,
     Calms, Turns, Of, Rt, Starter, None
<1>6. LockInv'
  BY ConstantsOK, Numbers, <1>1, <1>2, <1>3 DEF IInv, PlaceInv, LockInv, Placed, ConstantsOK,
     Frees, Calms, Turns, Of, Rt, Starter, None
<1>7. UnusedInv'
  BY ConstantsOK, Numbers, <1>1, <1>2, <1>3 DEF IInv, PlaceInv, UnusedInv, Knows, Placed, Frees,
     Calms, Turns, Of, Rt, Starter, None
<1>8. NewInv'
  BY ConstantsOK, Numbers, <1>1, <1>2, <1>3 DEF IInv, PlaceInv, UnusedInv, NewInv, OneStarter,
     OwnInv, Waiting, Blank, Knows, Frees, Calms, Turns, Of, Rt, Starter, None
<1>9. OwnInv'
  BY ConstantsOK, Numbers, <1>1, <1>2, <1>3 DEF IInv, PlaceInv, OwnInv, Placed, Frees, Calms,
     Turns, Of, Rt, Starter, None
<1>10. StopInv'
  BY ConstantsOK, Numbers, <1>1, <1>2, <1>3 DEF IInv, PlaceInv, StopInv, NewInv, LockInv,
     OneStarter, Knows, Waiting, Blank, Placed, Frees, Calms, Turns, Of, Rt, Starter, None
<1>11. OneStarter'
  BY ConstantsOK, Numbers, <1>1, <1>2, <1>3 DEF IInv, PlaceInv, OneStarter, OwnInv, Waiting,
     Placed, Frees, Calms, Turns, Of, Rt, Starter, None
<1>12. HandInv'
  BY ConstantsOK, Numbers, <1>1, <1>2, <1>3 DEF IInv, HandInv, Hands, Frees, Calms, Turns, Of, Rt,
     Starter, None
<1>13. AgeInv'
  BY ConstantsOK, Numbers, <1>1, <1>2, <1>3 DEF IInv, AgeInv, HandInv, Hands, Frees, Calms, Turns,
     Of, Rt, Starter, None
<1>14. ClosingInv'
  BY ConstantsOK, Numbers, <1>1, <1>2, <1>3 DEF IInv, ClosingInv, Frees, Calms, Turns, Of, Rt,
     Starter, None
<1>15. DeadInv'
  BY ConstantsOK, Numbers, <1>1, <1>2, <1>3 DEF IInv, DeadInv, Frees, Calms, Turns, Of, Rt,
     Starter, None
<1>16. PathInv'
  BY ConstantsOK, Numbers, <1>1, <1>2, <1>3 DEF IInv, PathInv, Frees, Calms, Turns, Of, Rt,
     Starter, None
<1>17. UpInv'
  BY ConstantsOK, Numbers, <1>1, <1>2, <1>3 DEF IInv, PlaceInv, UpInv, HandInv, Hands, Frees,
     Calms, Turns, Of, Rt, Starter, None
<1>18. KnowInv'
  BY ConstantsOK, Numbers, <1>1, <1>2, <1>3 DEF IInv, NewInv, KnowInv, Knows, Waiting, Blank,
     Frees, Calms, Turns, Of, Rt, Starter, None
<1>19. \A d \in Callers : Dooms(d) => Dooms(d)'
  BY ConstantsOK, Numbers, <1>1, <1>2, <1>3 DEF IInv, PlaceInv, Dooms, Placed, Frees, Calms,
     Turns, Of, Rt, Starter, None
<1>20. Good => RecordInv'
  BY ConstantsOK, Numbers, <1>1, <1>2, <1>3 DEF IInv, PlaceInv, LockInv, RecordInv, Good, GoodRec,
     GoodLate, GoodAsk, GoodCall, Dooms, Busy, Asks, Frees, Calms, Turns, Of, Rt, Starter, None
<1>21. RecordInv'
  BY <1>19, <1>20 DEF IInv, RecordInv
<1>22. \A i \in States : Over(i) => Over(i)'
  BY ConstantsOK, Numbers, <1>1, <1>2, <1>3 DEF IInv, PlaceInv, NewInv, HandInv, AgeInv, OwnInv,
     OneStarter, Over, Waiting, Blank, Knows, Placed, Frees, Calms, Turns, Of, Rt, Starter, None
<1>23. SureInv'
  BY ConstantsOK, Numbers, <1>1, <1>2, <1>3, <1>22 DEF IInv, SureInv, NewInv, Typed, Waiting,
     Blank, Frees, Calms, Turns, Of, Rt, Starter, None
<1>24. ConfirmedInv'
  BY ConstantsOK, Numbers, <1>1, <1>2, <1>3, <1>22 DEF IInv, PlaceInv, ConfirmedInv, Confirmed,
     Placed, Frees, Calms, Turns, Of, Rt, Starter, None
<1> QED BY <1>4, <1>5, <1>6, <1>7, <1>8, <1>9, <1>10, <1>11, <1>12, <1>13, <1>14, <1>15, <1>16,
           <1>17, <1>18, <1>21, <1>23, <1>24 DEF IInv

(* A stop or a question fails; the debugger may have stopped.               *)
LEMMA UnansweredKeeps ==
    ASSUME ConstantsOK, IInv, NEW c \in Callers, Unanswered(c), NEW fatal \in BOOLEAN,
           Errs(c, fatal)
    PROVE  IInv'
<1>1. /\ at[c] = "asked" /\ ~Starter(c) /\ call[c].op \in {"stop", "status"} /\ Rt(c) \in Workers
         /\ lock[Rt(c)] = c /\ ~call[c].fatal
  BY DEF LockInv, Answered, Unanswered, IInv, PlaceInv, Placed, At, Starter, Requests
<1>2. /\ UNCHANGED <<session, runtime, cur, made, active, file, sure>>
      /\ Frees(c)
      /\ lock' \in [Workers -> Callers \cup {Nobody}]
      /\ worker' \in [Workers -> Debugger]
      /\ Calms
  BY <1>1, Locking, WorkerSteps, Calming DEF Unanswered, Lost, Unmoved, Ordered, Starter, service,
     IInv, Typed
<1>3. /\ at' \in [Callers -> Places] /\ call' \in [Callers -> Calling]
      /\ Turns(c, "error", call[c].op, Of(c), Rt(c), fatal, call[c].safe)
  BY Quitting, Moving DEF Places, Ops, Unanswered, Errs
<1>4. Typed'
  BY ConstantsOK, Numbers, <1>1, <1>2, <1>3 DEF IInv, Typed, PlaceInv, Calling, Places, Ops,
     States, Workers, Debugger, Placed, Files, Frees, Calms, Turns, Of, Rt, Starter, None
<1>5. PlaceInv'
  BY ConstantsOK, Numbers, <1>1, <1>2, <1>3 DEF IInv, PlaceInv, Placed, Calling, Requests, Frees,
     Calms, Turns, Of, Rt, Starter, None
<1>6. LockInv'
  BY ConstantsOK, Numbers, <1>1, <1>2, <1>3 DEF IInv, PlaceInv, LockInv, Placed, ConstantsOK,
     Frees, Calms, Turns, Of, Rt, Starter, None
<1>7. UnusedInv'
  BY ConstantsOK, Numbers, <1>1, <1>2, <1>3 DEF IInv, PlaceInv, UnusedInv, Knows, Placed, Frees,
     Calms, Turns, Of, Rt, Starter, None
<1>8. NewInv'
  <2> SUFFICES ASSUME NEW d \in Callers, Waiting(d)' PROVE Blank(Of(d))'
    BY DEF NewInv
  <2>1. Waiting(d) /\ Of(d)' = Of(d)
    BY <1>1, <1>2, <1>3 DEF Waiting, Starter, Of, Moves, Quits, Turns
  <2>2. Blank(Of(d)) /\ Of(d) \in States
    BY <2>1, Numbers DEF IInv, NewInv, PlaceInv, Placed, Waiting, Starter
  <2> QED BY <2>1, <2>2, <1>1, <1>2, <1>3 DEF Blank, Calms
<1>9. OwnInv'
  BY ConstantsOK, Numbers, <1>1, <1>2, <1>3 DEF IInv, PlaceInv, OwnInv, Placed, Frees, Calms,
     Turns, Of, Rt, Starter, None
<1>10. StopInv'
  BY ConstantsOK, Numbers, <1>1, <1>2, <1>3 DEF IInv, PlaceInv, StopInv, NewInv, LockInv,
     OneStarter, Knows, Waiting, Blank, Placed, Frees, Calms, Turns, Of, Rt, Starter, None
<1>11. OneStarter'
  BY ConstantsOK, Numbers, <1>1, <1>2, <1>3 DEF IInv, PlaceInv, OneStarter, OwnInv, Waiting,
     Placed, Frees, Calms, Turns, Of, Rt, Starter, None
<1>12. HandInv'
  BY ConstantsOK, Numbers, <1>1, <1>2, <1>3 DEF IInv, HandInv, Hands, Frees, Calms, Turns, Of, Rt,
     Starter, None
<1>13. AgeInv'
  BY ConstantsOK, Numbers, <1>1, <1>2, <1>3 DEF IInv, AgeInv, HandInv, Hands, Frees, Calms, Turns,
     Of, Rt, Starter, None
<1>14. ClosingInv'
  BY ConstantsOK, Numbers, <1>1, <1>2, <1>3 DEF IInv, ClosingInv, Frees, Calms, Turns, Of, Rt,
     Starter, None
<1>15. DeadInv'
  BY ConstantsOK, Numbers, <1>1, <1>2, <1>3 DEF IInv, DeadInv, Frees, Calms, Turns, Of, Rt,
     Starter, None
<1>16. PathInv'
  BY ConstantsOK, Numbers, <1>1, <1>2, <1>3 DEF IInv, PathInv, Frees, Calms, Turns, Of, Rt,
     Starter, None
<1>17. UpInv'
  BY ConstantsOK, Numbers, <1>1, <1>2, <1>3 DEF IInv, PlaceInv, UpInv, HandInv, Hands, Frees,
     Calms, Turns, Of, Rt, Starter, None
<1>18. KnowInv'
  BY ConstantsOK, Numbers, <1>1, <1>2, <1>3 DEF IInv, NewInv, KnowInv, Knows, Waiting, Blank,
     Frees, Calms, Turns, Of, Rt, Starter, None
<1>19. \A d \in Callers : Dooms(d) => Dooms(d)'
  BY ConstantsOK, Numbers, <1>1, <1>2, <1>3 DEF IInv, PlaceInv, Dooms, Placed, Frees, Calms,
     Turns, Of, Rt, Starter, None
<1>20. Good => RecordInv'
  BY ConstantsOK, Numbers, <1>1, <1>2, <1>3 DEF IInv, PlaceInv, LockInv, RecordInv, Good, GoodRec,
     GoodLate, GoodAsk, GoodCall, Dooms, Busy, Asks, Frees, Calms, Turns, Of, Rt, Starter, None
<1>21. RecordInv'
  BY <1>19, <1>20 DEF IInv, RecordInv
<1>22. \A i \in States : Over(i) => Over(i)'
  BY ConstantsOK, Numbers, <1>1, <1>2, <1>3 DEF IInv, PlaceInv, NewInv, HandInv, AgeInv, OwnInv,
     OneStarter, Over, Waiting, Blank, Knows, Placed, Frees, Calms, Turns, Of, Rt, Starter, None
<1>23. SureInv'
  BY ConstantsOK, Numbers, <1>1, <1>2, <1>3, <1>22 DEF IInv, SureInv, NewInv, Typed, Waiting,
     Blank, Frees, Calms, Turns, Of, Rt, Starter, None
<1>24. ConfirmedInv'
  BY ConstantsOK, Numbers, <1>1, <1>2, <1>3, <1>22 DEF IInv, PlaceInv, ConfirmedInv, Confirmed,
     Placed, Frees, Calms, Turns, Of, Rt, Starter, None
<1> QED BY <1>4, <1>5, <1>6, <1>7, <1>8, <1>9, <1>10, <1>11, <1>12, <1>13, <1>14, <1>15, <1>16,
           <1>17, <1>18, <1>21, <1>23, <1>24 DEF IInv

-----------------------------------------------------------------------------
(* After an error *)

(* The error was fatal to the runtime, or the stop to its trace.            *)
LEMMA ErrorFailsKeeps ==
    ASSUME ConstantsOK, IInv, NEW c \in Callers, Error(c), GoTo(c, "fail"), UNCHANGED call
    PROVE  IInv'
<1>1. /\ at[c] = "error" /\ call[c].op \in {"stop", "status"}
      /\ UNCHANGED <<session, runtime, lock, cur, made, active, file, sure, worker>>
  BY DEF Error, service, IInv, PlaceInv, Placed, At, Starter, Requests
<1>2. /\ at' \in [Callers -> Places] /\ call' \in [Callers -> Calling]
      /\ Moves(c, "fail")
  BY Quitting, Moving DEF Places, Ops, Error
<1>3. Typed'
  BY ConstantsOK, Numbers, <1>1, <1>2 DEF IInv, Typed, PlaceInv, Calling, Places, Ops, States,
     Workers, Debugger, Placed, Files, Turns, Moves, Of, Rt, Starter, None
<1>4. PlaceInv'
  BY ConstantsOK, Numbers, <1>1, <1>2 DEF IInv, PlaceInv, Placed, Calling, Requests, Turns, Moves,
     Of, Rt, Starter, None
<1>5. LockInv'
  BY ConstantsOK, Numbers, <1>1, <1>2 DEF IInv, PlaceInv, LockInv, Placed, ConstantsOK, Turns,
     Moves, Of, Rt, Starter, None
<1>6. UnusedInv'
  BY ConstantsOK, Numbers, <1>1, <1>2 DEF IInv, PlaceInv, UnusedInv, Knows, Placed, Turns, Moves,
     Of, Rt, Starter, None
<1>7. NewInv'
  BY ConstantsOK, Numbers, <1>1, <1>2 DEF IInv, PlaceInv, UnusedInv, NewInv, OneStarter, OwnInv,
     Waiting, Blank, Knows, Turns, Moves, Of, Rt, Starter, None
<1>8. OwnInv'
  BY ConstantsOK, Numbers, <1>1, <1>2 DEF IInv, PlaceInv, OwnInv, Placed, Turns, Moves, Of, Rt,
     Starter, None
<1>9. StopInv'
  BY ConstantsOK, Numbers, <1>1, <1>2 DEF IInv, PlaceInv, StopInv, NewInv, LockInv, OneStarter,
     Knows, Waiting, Blank, Placed, Turns, Moves, Of, Rt, Starter, None
<1>10. OneStarter'
  BY ConstantsOK, Numbers, <1>1, <1>2 DEF IInv, PlaceInv, OneStarter, OwnInv, Waiting, Placed,
     Turns, Moves, Of, Rt, Starter, None
<1>11. HandInv'
  BY ConstantsOK, Numbers, <1>1, <1>2 DEF IInv, HandInv, Hands, Turns, Moves, Of, Rt, Starter, None
<1>12. AgeInv'
  BY ConstantsOK, Numbers, <1>1, <1>2 DEF IInv, AgeInv, HandInv, Hands, Turns, Moves, Of, Rt,
     Starter, None
<1>13. ClosingInv'
  BY ConstantsOK, Numbers, <1>1, <1>2 DEF IInv, ClosingInv, Turns, Moves, Of, Rt, Starter, None
<1>14. DeadInv'
  BY ConstantsOK, Numbers, <1>1, <1>2 DEF IInv, DeadInv, Turns, Moves, Of, Rt, Starter, None
<1>15. PathInv'
  BY ConstantsOK, Numbers, <1>1, <1>2 DEF IInv, PathInv, Turns, Moves, Of, Rt, Starter, None
<1>16. UpInv'
  BY ConstantsOK, Numbers, <1>1, <1>2 DEF IInv, PlaceInv, UpInv, HandInv, Hands, Turns, Moves, Of,
     Rt, Starter, None
<1>17. KnowInv'
  BY ConstantsOK, Numbers, <1>1, <1>2 DEF IInv, NewInv, KnowInv, Knows, Waiting, Blank, Turns,
     Moves, Of, Rt, Starter, None
<1>18. \A d \in Callers : Dooms(d) => Dooms(d)'
  BY ConstantsOK, Numbers, <1>1, <1>2 DEF IInv, PlaceInv, Dooms, Placed, Turns, Moves, Of, Rt,
     Starter, None
<1>19. Good => RecordInv'
  BY ConstantsOK, Numbers, <1>1, <1>2 DEF IInv, PlaceInv, LockInv, RecordInv, Good, GoodRec,
     GoodLate, GoodAsk, GoodCall, Dooms, Busy, Asks, Turns, Moves, Of, Rt, Starter, None
<1>20. RecordInv'
  BY <1>18, <1>19 DEF IInv, RecordInv
<1>21. \A i \in States : Over(i) => Over(i)'
  BY ConstantsOK, Numbers, <1>1, <1>2 DEF IInv, PlaceInv, NewInv, HandInv, AgeInv, OwnInv,
     OneStarter, Over, Waiting, Blank, Knows, Placed, Turns, Moves, Of, Rt, Starter, None
<1>22. SureInv'
  BY ConstantsOK, Numbers, <1>1, <1>2, <1>21 DEF IInv, SureInv, NewInv, Typed, Waiting, Blank,
     Turns, Moves, Of, Rt, Starter, None
<1>23. ConfirmedInv'
  BY ConstantsOK, Numbers, <1>1, <1>2, <1>21 DEF IInv, PlaceInv, ConfirmedInv, Confirmed, Placed,
     Turns, Moves, Of, Rt, Starter, None
<1> QED BY <1>3, <1>4, <1>5, <1>6, <1>7, <1>8, <1>9, <1>10, <1>11, <1>12, <1>13, <1>14, <1>15,
           <1>16, <1>17, <1>20, <1>22, <1>23 DEF IInv

(* The error is told to the caller.                                         *)
LEMMA ErrorQuitsKeeps ==
    ASSUME ConstantsOK, IInv, NEW c \in Callers, Error(c), Done(c), call[c].op # "stop"
    PROVE  IInv'
<1>1. /\ at[c] = "error" /\ call[c].op \in {"stop", "status"}
      /\ UNCHANGED <<session, runtime, lock, cur, made, active, file, sure, worker>>
  BY DEF Error, service, IInv, PlaceInv, Placed, At, Starter, Requests
<1>2. /\ at' \in [Callers -> Places] /\ call' \in [Callers -> Calling]
      /\ Quits(c)
  BY Quitting, Moving DEF Places, Ops, Error
<1>3. Typed'
  BY ConstantsOK, Numbers, <1>1, <1>2 DEF IInv, Typed, PlaceInv, Calling, Places, Ops, States,
     Workers, Debugger, Placed, Files, Turns, Quits, Of, Rt, Starter, None
<1>4. PlaceInv'
  BY ConstantsOK, Numbers, <1>1, <1>2 DEF IInv, PlaceInv, Placed, Calling, Requests, Turns, Quits,
     Of, Rt, Starter, None
<1>5. LockInv'
  BY ConstantsOK, Numbers, <1>1, <1>2 DEF IInv, PlaceInv, LockInv, Placed, ConstantsOK, Turns,
     Quits, Of, Rt, Starter, None
<1>6. UnusedInv'
  BY ConstantsOK, Numbers, <1>1, <1>2 DEF IInv, PlaceInv, UnusedInv, Knows, Placed, Turns, Quits,
     Of, Rt, Starter, None
<1>7. NewInv'
  BY ConstantsOK, Numbers, <1>1, <1>2 DEF IInv, PlaceInv, UnusedInv, NewInv, OneStarter, OwnInv,
     Waiting, Blank, Knows, Turns, Quits, Of, Rt, Starter, None
<1>8. OwnInv'
  BY ConstantsOK, Numbers, <1>1, <1>2 DEF IInv, PlaceInv, OwnInv, Placed, Turns, Quits, Of, Rt,
     Starter, None
<1>9. StopInv'
  BY ConstantsOK, Numbers, <1>1, <1>2 DEF IInv, PlaceInv, StopInv, NewInv, LockInv, OneStarter,
     Knows, Waiting, Blank, Placed, Turns, Quits, Of, Rt, Starter, None
<1>10. OneStarter'
  BY ConstantsOK, Numbers, <1>1, <1>2 DEF IInv, PlaceInv, OneStarter, OwnInv, Waiting, Placed,
     Turns, Quits, Of, Rt, Starter, None
<1>11. HandInv'
  BY ConstantsOK, Numbers, <1>1, <1>2 DEF IInv, HandInv, Hands, Turns, Quits, Of, Rt, Starter, None
<1>12. AgeInv'
  BY ConstantsOK, Numbers, <1>1, <1>2 DEF IInv, AgeInv, HandInv, Hands, Turns, Quits, Of, Rt,
     Starter, None
<1>13. ClosingInv'
  BY ConstantsOK, Numbers, <1>1, <1>2 DEF IInv, ClosingInv, Turns, Quits, Of, Rt, Starter, None
<1>14. DeadInv'
  BY ConstantsOK, Numbers, <1>1, <1>2 DEF IInv, DeadInv, Turns, Quits, Of, Rt, Starter, None
<1>15. PathInv'
  BY ConstantsOK, Numbers, <1>1, <1>2 DEF IInv, PathInv, Turns, Quits, Of, Rt, Starter, None
<1>16. UpInv'
  BY ConstantsOK, Numbers, <1>1, <1>2 DEF IInv, PlaceInv, UpInv, HandInv, Hands, Turns, Quits, Of,
     Rt, Starter, None
<1>17. KnowInv'
  BY ConstantsOK, Numbers, <1>1, <1>2 DEF IInv, NewInv, KnowInv, Knows, Waiting, Blank, Turns,
     Quits, Of, Rt, Starter, None
<1>18. \A d \in Callers : Dooms(d) => Dooms(d)'
  BY ConstantsOK, Numbers, <1>1, <1>2 DEF IInv, PlaceInv, Dooms, Placed, Turns, Quits, Of, Rt,
     Starter, None
<1>19. Good => RecordInv'
  BY ConstantsOK, Numbers, <1>1, <1>2 DEF IInv, PlaceInv, LockInv, RecordInv, Good, GoodRec,
     GoodLate, GoodAsk, GoodCall, Dooms, Busy, Asks, Turns, Quits, Of, Rt, Starter, None
<1>20. RecordInv'
  BY <1>18, <1>19 DEF IInv, RecordInv
<1>21. \A i \in States : Over(i) => Over(i)'
  BY ConstantsOK, Numbers, <1>1, <1>2 DEF IInv, PlaceInv, NewInv, HandInv, AgeInv, OwnInv,
     OneStarter, Over, Waiting, Blank, Knows, Placed, Turns, Quits, Of, Rt, Starter, None
<1>22. SureInv'
  BY ConstantsOK, Numbers, <1>1, <1>2, <1>21 DEF IInv, SureInv, NewInv, Typed, Waiting, Blank,
     Turns, Quits, Of, Rt, Starter, None
<1>23. ConfirmedInv'
  BY ConstantsOK, Numbers, <1>1, <1>2, <1>21 DEF IInv, PlaceInv, ConfirmedInv, Confirmed, Placed,
     Turns, Quits, Of, Rt, Starter, None
<1> QED BY <1>3, <1>4, <1>5, <1>6, <1>7, <1>8, <1>9, <1>10, <1>11, <1>12, <1>13, <1>14, <1>15,
           <1>16, <1>17, <1>20, <1>22, <1>23 DEF IInv

(* A question fails and the trace is no longer active: its file is          *)
(* registered.                                                              *)
LEMMA ErrorRegistersKeeps ==
    ASSUME ConstantsOK, IInv, NEW c \in Callers, Error(c), GoTo(c, "register"), Errs(c, TRUE),
           Of(c) # None,
           Of(c) \notin active, call[c].op # "stop"
    PROVE  IInv'
<1>1. /\ at[c] = "error" /\ call[c].op \in {"stop", "status"}
      /\ UNCHANGED <<session, runtime, lock, cur, made, active, file, sure, worker>>
  BY DEF Error, service, IInv, PlaceInv, Placed, At, Starter, Requests
<1>2. /\ at' \in [Callers -> Places] /\ call' \in [Callers -> Calling]
      /\ Turns(c, "register", call[c].op, Of(c), Rt(c), TRUE, call[c].safe)
  BY Quitting, Moving DEF Places, Ops, Error, Errs
<1>3. Typed'
  BY ConstantsOK, Numbers, <1>1, <1>2 DEF IInv, Typed, PlaceInv, Calling, Places, Ops, States,
     Workers, Debugger, Placed, Files, Turns, Of, Rt, Starter, None
<1>4. PlaceInv'
  BY ConstantsOK, Numbers, <1>1, <1>2 DEF IInv, PlaceInv, Placed, Calling, Requests, Turns, Of,
     Rt, Starter, None
<1>5. LockInv'
  BY ConstantsOK, Numbers, <1>1, <1>2 DEF IInv, PlaceInv, LockInv, Placed, ConstantsOK, Turns, Of,
     Rt, Starter, None
<1>6. UnusedInv'
  BY ConstantsOK, Numbers, <1>1, <1>2 DEF IInv, PlaceInv, UnusedInv, Knows, Placed, Turns, Of, Rt,
     Starter, None
<1>7. NewInv'
  BY ConstantsOK, Numbers, <1>1, <1>2 DEF IInv, PlaceInv, UnusedInv, NewInv, OneStarter, OwnInv,
     Waiting, Blank, Knows, Turns, Of, Rt, Starter, None
<1>8. OwnInv'
  BY ConstantsOK, Numbers, <1>1, <1>2 DEF IInv, PlaceInv, OwnInv, Placed, Turns, Of, Rt, Starter,
     None
<1>9. StopInv'
  BY ConstantsOK, Numbers, <1>1, <1>2 DEF IInv, PlaceInv, StopInv, NewInv, LockInv, OneStarter,
     Knows, Waiting, Blank, Placed, Turns, Of, Rt, Starter, None
<1>10. OneStarter'
  BY ConstantsOK, Numbers, <1>1, <1>2 DEF IInv, PlaceInv, OneStarter, OwnInv, Waiting, Placed,
     Turns, Of, Rt, Starter, None
<1>11. HandInv'
  BY ConstantsOK, Numbers, <1>1, <1>2 DEF IInv, HandInv, Hands, Turns, Of, Rt, Starter, None
<1>12. AgeInv'
  BY ConstantsOK, Numbers, <1>1, <1>2 DEF IInv, AgeInv, HandInv, Hands, Turns, Of, Rt, Starter, None
<1>13. ClosingInv'
  BY ConstantsOK, Numbers, <1>1, <1>2 DEF IInv, ClosingInv, Turns, Of, Rt, Starter, None
<1>14. DeadInv'
  BY ConstantsOK, Numbers, <1>1, <1>2 DEF IInv, DeadInv, Turns, Of, Rt, Starter, None
<1>15. PathInv'
  BY ConstantsOK, Numbers, <1>1, <1>2 DEF IInv, PathInv, Turns, Of, Rt, Starter, None
<1>16. UpInv'
  BY ConstantsOK, Numbers, <1>1, <1>2 DEF IInv, PlaceInv, UpInv, HandInv, Hands, Turns, Of, Rt,
     Starter, None
<1>17. KnowInv'
  BY ConstantsOK, Numbers, <1>1, <1>2 DEF IInv, NewInv, KnowInv, Knows, Waiting, Blank, Turns, Of,
     Rt, Starter, None
<1>18. \A d \in Callers : Dooms(d) => Dooms(d)'
  BY ConstantsOK, Numbers, <1>1, <1>2 DEF IInv, PlaceInv, Dooms, Placed, Turns, Of, Rt, Starter,
     None
<1>19. Good => RecordInv'
  BY ConstantsOK, Numbers, <1>1, <1>2 DEF IInv, PlaceInv, LockInv, RecordInv, Good, GoodRec,
     GoodLate, GoodAsk, GoodCall, Dooms, Busy, Asks, Turns, Of, Rt, Starter, None
<1>20. RecordInv'
  BY <1>18, <1>19 DEF IInv, RecordInv
<1>21. \A i \in States : Over(i) => Over(i)'
  BY ConstantsOK, Numbers, <1>1, <1>2 DEF IInv, PlaceInv, NewInv, HandInv, AgeInv, OwnInv,
     OneStarter, Over, Waiting, Blank, Knows, Placed, Turns, Of, Rt, Starter, None
<1>22. SureInv'
  BY ConstantsOK, Numbers, <1>1, <1>2, <1>21 DEF IInv, SureInv, NewInv, Typed, Waiting, Blank,
     Turns, Of, Rt, Starter, None
<1>23. ConfirmedInv'
  BY ConstantsOK, Numbers, <1>1, <1>2, <1>21 DEF IInv, PlaceInv, ConfirmedInv, Confirmed, Placed,
     Turns, Of, Rt, Starter, None
<1> QED BY <1>3, <1>4, <1>5, <1>6, <1>7, <1>8, <1>9, <1>10, <1>11, <1>12, <1>13, <1>14, <1>15,
           <1>16, <1>17, <1>20, <1>22, <1>23 DEF IInv

(* A start that failed takes the lock to stop what it may have started.     *)
LEMMA StopAgainKeeps ==
    ASSUME ConstantsOK, IInv, NEW c \in Callers, StopAgain(c)
    PROVE  IInv'
<1>1. /\ Starter(c) /\ Rt(c) \in Workers /\ Of(c) # None /\ call[c].safe
      /\ at[c] = "stop"
  BY DEF StopAgain, Stopping, LockInv, IInv, PlaceInv, Placed, At, Starter, Requests
<1>2. /\ UNCHANGED <<session, runtime, cur, made, active, file, sure, worker>>
      /\ Takes(c)
      /\ lock' \in [Workers -> Callers \cup {Nobody}]
  BY <1>1, Locking DEF StopAgain, service
<1>3. /\ at' \in [Callers -> Places] /\ call' \in [Callers -> Calling]
      /\ Moves(c, "stopping")
  BY Quitting, Moving DEF Places, Ops, StopAgain
<1>4. Typed'
  BY ConstantsOK, Numbers, <1>1, <1>2, <1>3 DEF IInv, Typed, PlaceInv, Calling, Places, Ops,
     States, Workers, Debugger, Placed, Files, Takes, Turns, Moves, Of, Rt, Starter, None
<1>5. PlaceInv'
  <2>1. Placed(c)'
    BY <1>1, <1>2, <1>3 DEF IInv, PlaceInv, Placed, Starter, Moves, Turns, Of, Rt
  <2>2. ASSUME NEW d \in Callers, d # c PROVE Placed(d)'
    BY <1>1, <1>2, <1>3, <2>2 DEF IInv, PlaceInv, Placed, Starter, Moves, Turns, Of, Rt
  <2> QED BY <2>1, <2>2 DEF PlaceInv
<1>6. LockInv'
  BY ConstantsOK, Numbers, <1>1, <1>2, <1>3 DEF IInv, PlaceInv, LockInv, Placed, ConstantsOK,
     Takes, Turns, Moves, Of, Rt, Starter, None
<1>7. UnusedInv'
  BY ConstantsOK, Numbers, <1>1, <1>2, <1>3 DEF IInv, PlaceInv, UnusedInv, Knows, Placed, Takes,
     Turns, Moves, Of, Rt, Starter, None
<1>8. NewInv'
  BY ConstantsOK, Numbers, <1>1, <1>2, <1>3 DEF IInv, PlaceInv, UnusedInv, NewInv, OneStarter,
     OwnInv, Waiting, Blank, Knows, Takes, Turns, Moves, Of, Rt, Starter, None
<1>9. OwnInv'
  BY ConstantsOK, Numbers, <1>1, <1>2, <1>3 DEF IInv, PlaceInv, OwnInv, Placed, Takes, Turns,
     Moves, Of, Rt, Starter, None
<1>10. StopInv'
  BY ConstantsOK, Numbers, <1>1, <1>2, <1>3 DEF IInv, PlaceInv, StopInv, NewInv, LockInv,
     OneStarter, Knows, Waiting, Blank, Placed, Takes, Turns, Moves, Of, Rt, Starter, None
<1>11. OneStarter'
  BY ConstantsOK, Numbers, <1>1, <1>2, <1>3 DEF IInv, PlaceInv, OneStarter, OwnInv, Waiting,
     Placed, Takes, Turns, Moves, Of, Rt, Starter, None
<1>12. HandInv'
  BY ConstantsOK, Numbers, <1>1, <1>2, <1>3 DEF IInv, HandInv, Hands, Takes, Turns, Moves, Of, Rt,
     Starter, None
<1>13. AgeInv'
  BY ConstantsOK, Numbers, <1>1, <1>2, <1>3 DEF IInv, AgeInv, HandInv, Hands, Takes, Turns, Moves,
     Of, Rt, Starter, None
<1>14. ClosingInv'
  BY ConstantsOK, Numbers, <1>1, <1>2, <1>3 DEF IInv, ClosingInv, Takes, Turns, Moves, Of, Rt,
     Starter, None
<1>15. DeadInv'
  BY ConstantsOK, Numbers, <1>1, <1>2, <1>3 DEF IInv, DeadInv, Takes, Turns, Moves, Of, Rt,
     Starter, None
<1>16. PathInv'
  BY ConstantsOK, Numbers, <1>1, <1>2, <1>3 DEF IInv, PathInv, Takes, Turns, Moves, Of, Rt,
     Starter, None
<1>17. UpInv'
  BY ConstantsOK, Numbers, <1>1, <1>2, <1>3 DEF IInv, PlaceInv, UpInv, HandInv, Hands, Takes,
     Turns, Moves, Of, Rt, Starter, None
<1>18. KnowInv'
  BY ConstantsOK, Numbers, <1>1, <1>2, <1>3 DEF IInv, NewInv, KnowInv, Knows, Waiting, Blank,
     Takes, Turns, Moves, Of, Rt, Starter, None
<1>19. \A d \in Callers : Dooms(d) => Dooms(d)'
  BY ConstantsOK, Numbers, <1>1, <1>2, <1>3 DEF IInv, PlaceInv, Dooms, Placed, Takes, Turns,
     Moves, Of, Rt, Starter, None
<1>20. Good => RecordInv'
  BY ConstantsOK, Numbers, <1>1, <1>2, <1>3 DEF IInv, PlaceInv, LockInv, RecordInv, Good, GoodRec,
     GoodLate, GoodAsk, GoodCall, Dooms, Busy, Asks, Takes, Turns, Moves, Of, Rt, Starter, None
<1>21. RecordInv'
  BY <1>19, <1>20 DEF IInv, RecordInv
<1>22. \A i \in States : Over(i) => Over(i)'
  BY ConstantsOK, Numbers, <1>1, <1>2, <1>3 DEF IInv, PlaceInv, NewInv, HandInv, AgeInv, OwnInv,
     OneStarter, Over, Waiting, Blank, Knows, Placed, Takes, Turns, Moves, Of, Rt, Starter, None
<1>23. SureInv'
  BY ConstantsOK, Numbers, <1>1, <1>2, <1>3, <1>22 DEF IInv, SureInv, NewInv, Typed, Waiting,
     Blank, Takes, Turns, Moves, Of, Rt, Starter, None
<1>24. ConfirmedInv'
  BY ConstantsOK, Numbers, <1>1, <1>2, <1>3, <1>22 DEF IInv, PlaceInv, ConfirmedInv, Confirmed,
     Placed, Takes, Turns, Moves, Of, Rt, Starter, None
<1> QED BY <1>4, <1>5, <1>6, <1>7, <1>8, <1>9, <1>10, <1>11, <1>12, <1>13, <1>14, <1>15, <1>16,
           <1>17, <1>18, <1>21, <1>23, <1>24 DEF IInv

(* That stop is confirmed.                                                  *)
LEMMA StoppingStopsKeeps ==
    ASSUME ConstantsOK, IInv, NEW c \in Callers, Stopping(c), Ordered(Rt(c)),
           Worker(Rt(c), Still(Rt(c))),
           active' = active \ {Of(c)}, UNCHANGED call
    PROVE  IInv'
<1>1. /\ Starter(c) /\ Rt(c) \in Workers /\ Of(c) # None /\ call[c].safe
      /\ at[c] = "stopping"
  BY DEF StopAgain, Stopping, LockInv, IInv, PlaceInv, Placed, At, Starter, Requests
<1>2. /\ lock[Rt(c)] = c
      /\ UNCHANGED <<session, runtime, cur, made, file, sure>>
      /\ Frees(c)
      /\ lock' \in [Workers -> Callers \cup {Nobody}]
  BY <1>1, Locking DEF Stopping, LockInv, IInv
<1>3. /\ Worker(Rt(c), Still(Rt(c))) \/ UNCHANGED worker
  BY DEF Stopping
<1>4. /\ Calms
      /\ worker' \in [Workers -> Debugger]
  BY <1>1, <1>3, WorkerSteps, Calming DEF IInv, Typed
<1>5. /\ worker'[Rt(c)].rec = None
      /\ worker[Rt(c)].late = None
  BY <1>1, WorkerSteps DEF Stills, Holds, Ordered
<1>6. /\ at' \in [Callers -> Places] /\ call' \in [Callers -> Calling]
      /\ Moves(c, "register")
  BY Quitting, Moving DEF Places, Ops, Stopping
<1>7. Typed'
  BY ConstantsOK, Numbers, <1>1, <1>2, <1>3, <1>4, <1>5, <1>6 DEF IInv, Typed, PlaceInv, Calling,
     Places, Ops, States, Workers, Debugger, Placed, Files, Frees, Calms, Turns, Moves, Of, Rt,
     Starter, None
<1>8. PlaceInv'
  BY ConstantsOK, Numbers, <1>1, <1>2, <1>3, <1>4, <1>5, <1>6 DEF IInv, PlaceInv, Placed, Calling,
     Requests, Frees, Calms, Turns, Moves, Of, Rt, Starter, None
<1>9. LockInv'
  BY ConstantsOK, Numbers, <1>1, <1>2, <1>3, <1>4, <1>5, <1>6 DEF IInv, PlaceInv, LockInv, Placed,
     ConstantsOK, Frees, Calms, Turns, Moves, Of, Rt, Starter, None
<1>10. UnusedInv'
  BY ConstantsOK, Numbers, <1>1, <1>2, <1>3, <1>4, <1>5, <1>6 DEF IInv, PlaceInv, UnusedInv,
     Knows, Placed, Frees, Calms, Turns, Moves, Of, Rt, Starter, None
<1>11. NewInv'
  BY ConstantsOK, Numbers, <1>1, <1>2, <1>3, <1>4, <1>5, <1>6 DEF IInv, PlaceInv, UnusedInv,
     NewInv, OneStarter, OwnInv, Waiting, Blank, Knows, Frees, Calms, Turns, Moves, Of, Rt,
     Starter, None
<1>12. OwnInv'
  BY ConstantsOK, Numbers, <1>1, <1>2, <1>3, <1>4, <1>5, <1>6 DEF IInv, PlaceInv, OwnInv, Placed,
     Frees, Calms, Turns, Moves, Of, Rt, Starter, None
<1>13. StopInv'
  BY ConstantsOK, Numbers, <1>1, <1>2, <1>3, <1>4, <1>5, <1>6 DEF IInv, PlaceInv, StopInv, NewInv,
     LockInv, OneStarter, Knows, Waiting, Blank, Placed, Frees, Calms, Turns, Moves, Of, Rt,
     Starter, None
<1>14. OneStarter'
  BY ConstantsOK, Numbers, <1>1, <1>2, <1>3, <1>4, <1>5, <1>6 DEF IInv, PlaceInv, OneStarter,
     OwnInv, Waiting, Placed, Frees, Calms, Turns, Moves, Of, Rt, Starter, None
<1>15. HandInv'
  BY ConstantsOK, Numbers, <1>1, <1>2, <1>3, <1>4, <1>5, <1>6 DEF IInv, HandInv, Hands, Frees,
     Calms, Turns, Moves, Of, Rt, Starter, None
<1>16. AgeInv'
  BY ConstantsOK, Numbers, <1>1, <1>2, <1>3, <1>4, <1>5, <1>6 DEF IInv, AgeInv, HandInv, Hands,
     Frees, Calms, Turns, Moves, Of, Rt, Starter, None
<1>17. ClosingInv'
  BY ConstantsOK, Numbers, <1>1, <1>2, <1>3, <1>4, <1>5, <1>6 DEF IInv, ClosingInv, Frees, Calms,
     Turns, Moves, Of, Rt, Starter, None
<1>18. DeadInv'
  BY ConstantsOK, Numbers, <1>1, <1>2, <1>3, <1>4, <1>5, <1>6 DEF IInv, DeadInv, Frees, Calms,
     Turns, Moves, Of, Rt, Starter, None
<1>19. PathInv'
  BY ConstantsOK, Numbers, <1>1, <1>2, <1>3, <1>4, <1>5, <1>6 DEF IInv, PathInv, Frees, Calms,
     Turns, Moves, Of, Rt, Starter, None
<1>20. UpInv'
  BY ConstantsOK, Numbers, <1>1, <1>2, <1>3, <1>4, <1>5, <1>6 DEF IInv, PlaceInv, UpInv, HandInv,
     Hands, Frees, Calms, Turns, Moves, Of, Rt, Starter, None
<1>21. KnowInv'
  BY ConstantsOK, Numbers, <1>1, <1>2, <1>3, <1>4, <1>5, <1>6 DEF IInv, NewInv, KnowInv, Knows,
     Waiting, Blank, Frees, Calms, Turns, Moves, Of, Rt, Starter, None
<1>22. \A d \in Callers : Dooms(d) => Dooms(d)'
  BY ConstantsOK, Numbers, <1>1, <1>2, <1>3, <1>4, <1>5, <1>6 DEF IInv, PlaceInv, Dooms, Placed,
     Frees, Calms, Turns, Moves, Of, Rt, Starter, None
<1>23. Good => RecordInv'
  BY ConstantsOK, Numbers, <1>1, <1>2, <1>3, <1>4, <1>5, <1>6 DEF IInv, PlaceInv, LockInv,
     RecordInv, Good, GoodRec, GoodLate, GoodAsk, GoodCall, Dooms, Busy, Asks, Frees, Calms,
     Turns, Moves, Of, Rt, Starter, None
<1>24. RecordInv'
  BY <1>22, <1>23 DEF IInv, RecordInv
<1>25. \A i \in States : Over(i) => Over(i)'
  BY ConstantsOK, Numbers, <1>1, <1>2, <1>3, <1>4, <1>5, <1>6 DEF IInv, PlaceInv, NewInv, HandInv,
     AgeInv, OwnInv, OneStarter, Over, Waiting, Blank, Knows, Placed, Frees, Calms, Turns, Moves,
     Of, Rt, Starter, None
<1>26. SureInv'
  BY ConstantsOK, Numbers, <1>1, <1>2, <1>3, <1>4, <1>5, <1>6, <1>25 DEF IInv, SureInv, NewInv,
     Typed, Waiting, Blank, Frees, Calms, Turns, Moves, Of, Rt, Starter, None
<1>27. ConfirmedInv'
  BY ConstantsOK, Numbers, <1>1, <1>2, <1>3, <1>4, <1>5, <1>6, <1>25 DEF IInv, PlaceInv,
     ConfirmedInv, Confirmed, Placed, Frees, Calms, Turns, Moves, Of, Rt, Starter, None, StopInv,
     OneStarter, Knows, Waiting, Over
<1> QED BY <1>7, <1>8, <1>9, <1>10, <1>11, <1>12, <1>13, <1>14, <1>15, <1>16, <1>17, <1>18, <1>19,
           <1>20, <1>21, <1>24, <1>26, <1>27 DEF IInv

(* That stop fails as well.                                                 *)
LEMMA StoppingFailsKeeps ==
    ASSUME ConstantsOK, IInv, NEW c \in Callers, Stopping(c), UNCHANGED active,
           call' = [call EXCEPT ![c].safe = FALSE]
    PROVE  IInv'
<1>1. /\ Starter(c) /\ Rt(c) \in Workers /\ Of(c) # None /\ call[c].safe
      /\ at[c] = "stopping"
  BY DEF StopAgain, Stopping, LockInv, IInv, PlaceInv, Placed, At, Starter, Requests
<1>2. /\ lock[Rt(c)] = c
      /\ UNCHANGED <<session, runtime, cur, made, file, sure>>
      /\ Frees(c)
      /\ lock' \in [Workers -> Callers \cup {Nobody}]
  BY <1>1, Locking DEF Stopping, LockInv, IInv
<1>3. /\ Worker(Rt(c), Still(Rt(c))) \/ UNCHANGED worker
  BY DEF Stopping
<1>4. /\ Calms
      /\ worker' \in [Workers -> Debugger]
  BY <1>1, <1>3, WorkerSteps, Calming DEF IInv, Typed
<1>5. /\ at' \in [Callers -> Places] /\ call' \in [Callers -> Calling]
      /\ Turns(c, "register", call[c].op, Of(c), Rt(c), call[c].fatal, FALSE)
  BY Quitting, Moving DEF Places, Ops, Stopping
<1>6. Typed'
  BY ConstantsOK, Numbers, <1>1, <1>2, <1>3, <1>4, <1>5 DEF IInv, Typed, PlaceInv, Calling,
     Places, Ops, States, Workers, Debugger, Placed, Files, Frees, Calms, Turns, Of, Rt, Starter,
     None
<1>7. PlaceInv'
  BY ConstantsOK, Numbers, <1>1, <1>2, <1>3, <1>4, <1>5 DEF IInv, PlaceInv, Placed, Calling,
     Requests, Frees, Calms, Turns, Of, Rt, Starter, None
<1>8. LockInv'
  BY ConstantsOK, Numbers, <1>1, <1>2, <1>3, <1>4, <1>5 DEF IInv, PlaceInv, LockInv, Placed,
     ConstantsOK, Frees, Calms, Turns, Of, Rt, Starter, None
<1>9. UnusedInv'
  BY ConstantsOK, Numbers, <1>1, <1>2, <1>3, <1>4, <1>5 DEF IInv, PlaceInv, UnusedInv, Knows,
     Placed, Frees, Calms, Turns, Of, Rt, Starter, None
<1>10. NewInv'
  <2> SUFFICES ASSUME NEW d \in Callers, Waiting(d)' PROVE Blank(Of(d))'
    BY DEF NewInv
  <2>1. Waiting(d) /\ Of(d)' = Of(d)
    BY <1>1, <1>2, <1>3, <1>4, <1>5 DEF Waiting, Starter, Of, Moves, Quits, Turns
  <2>2. Blank(Of(d)) /\ Of(d) \in States
    BY <2>1, Numbers DEF IInv, NewInv, PlaceInv, Placed, Waiting, Starter
  <2> QED BY <2>1, <2>2, <1>1, <1>2, <1>3, <1>4, <1>5 DEF Blank, Calms
<1>11. OwnInv'
  BY ConstantsOK, Numbers, <1>1, <1>2, <1>3, <1>4, <1>5 DEF IInv, PlaceInv, OwnInv, Placed, Frees,
     Calms, Turns, Of, Rt, Starter, None
<1>12. StopInv'
  BY ConstantsOK, Numbers, <1>1, <1>2, <1>3, <1>4, <1>5 DEF IInv, PlaceInv, StopInv, NewInv,
     LockInv, OneStarter, Knows, Waiting, Blank, Placed, Frees, Calms, Turns, Of, Rt, Starter, None
<1>13. OneStarter'
  BY ConstantsOK, Numbers, <1>1, <1>2, <1>3, <1>4, <1>5 DEF IInv, PlaceInv, OneStarter, OwnInv,
     Waiting, Placed, Frees, Calms, Turns, Of, Rt, Starter, None
<1>14. HandInv'
  BY ConstantsOK, Numbers, <1>1, <1>2, <1>3, <1>4, <1>5 DEF IInv, HandInv, Hands, Frees, Calms,
     Turns, Of, Rt, Starter, None
<1>15. AgeInv'
  BY ConstantsOK, Numbers, <1>1, <1>2, <1>3, <1>4, <1>5 DEF IInv, AgeInv, HandInv, Hands, Frees,
     Calms, Turns, Of, Rt, Starter, None
<1>16. ClosingInv'
  BY ConstantsOK, Numbers, <1>1, <1>2, <1>3, <1>4, <1>5 DEF IInv, ClosingInv, Frees, Calms, Turns,
     Of, Rt, Starter, None
<1>17. DeadInv'
  BY ConstantsOK, Numbers, <1>1, <1>2, <1>3, <1>4, <1>5 DEF IInv, DeadInv, Frees, Calms, Turns,
     Of, Rt, Starter, None
<1>18. PathInv'
  BY ConstantsOK, Numbers, <1>1, <1>2, <1>3, <1>4, <1>5 DEF IInv, PathInv, Frees, Calms, Turns,
     Of, Rt, Starter, None
<1>19. UpInv'
  BY ConstantsOK, Numbers, <1>1, <1>2, <1>3, <1>4, <1>5 DEF IInv, PlaceInv, UpInv, HandInv, Hands,
     Frees, Calms, Turns, Of, Rt, Starter, None
<1>20. KnowInv'
  BY ConstantsOK, Numbers, <1>1, <1>2, <1>3, <1>4, <1>5 DEF IInv, NewInv, KnowInv, Knows, Waiting,
     Blank, Frees, Calms, Turns, Of, Rt, Starter, None
<1>21. \A d \in Callers : Dooms(d) => Dooms(d)'
  BY ConstantsOK, Numbers, <1>1, <1>2, <1>3, <1>4, <1>5 DEF IInv, PlaceInv, Dooms, Placed, Frees,
     Calms, Turns, Of, Rt, Starter, None
<1>22. Good => RecordInv'
  BY ConstantsOK, Numbers, <1>1, <1>2, <1>3, <1>4, <1>5 DEF IInv, PlaceInv, LockInv, RecordInv,
     Good, GoodRec, GoodLate, GoodAsk, GoodCall, Dooms, Busy, Asks, Frees, Calms, Turns, Of, Rt,
     Starter, None
<1>23. RecordInv'
  BY <1>21, <1>22 DEF IInv, RecordInv
<1>24. \A i \in States : Over(i) => Over(i)'
  BY ConstantsOK, Numbers, <1>1, <1>2, <1>3, <1>4, <1>5 DEF IInv, PlaceInv, NewInv, HandInv,
     AgeInv, OwnInv, OneStarter, Over, Waiting, Blank, Knows, Placed, Frees, Calms, Turns, Of, Rt,
     Starter, None
<1>25. SureInv'
  BY ConstantsOK, Numbers, <1>1, <1>2, <1>3, <1>4, <1>5, <1>24 DEF IInv, SureInv, NewInv, Typed,
     Waiting, Blank, Frees, Calms, Turns, Of, Rt, Starter, None
<1>26. ConfirmedInv'
  BY ConstantsOK, Numbers, <1>1, <1>2, <1>3, <1>4, <1>5, <1>24 DEF IInv, PlaceInv, ConfirmedInv,
     Confirmed, Placed, Frees, Calms, Turns, Of, Rt, Starter, None
<1> QED BY <1>6, <1>7, <1>8, <1>9, <1>10, <1>11, <1>12, <1>13, <1>14, <1>15, <1>16, <1>17, <1>18,
           <1>19, <1>20, <1>23, <1>25, <1>26 DEF IInv

(* The file is registered, and the runtime is to be taken down.             *)
LEMMA RegisterFailsKeeps ==
    ASSUME ConstantsOK, IInv, NEW c \in Callers, Register(c), GoTo(c, "fail"), UNCHANGED call
    PROVE  IInv'
<1>1. /\ at[c] = "register" /\ Of(c) \in States
  BY Numbers DEF Register, IInv, PlaceInv, Placed, At, Starter, Requests
<1>2. /\ Finalizes(Of(c), Confirmed(c)) /\ Confirmed(c) \in BOOLEAN
      /\ UNCHANGED <<session, runtime, lock, cur, made, worker>>
  BY <1>1 DEF Register, Starter, Confirmed, IInv, Typed, Calling
<1>3. /\ sure' # sure => Confirmed(c)
      /\ Settles(Of(c), Confirmed(c))
      /\ file' \in [States -> Files]
      /\ active' \subseteq States /\ sure' \subseteq States
  BY <1>1, <1>2, Settling DEF Settles
<1>4. /\ at' \in [Callers -> Places] /\ call' \in [Callers -> Calling]
      /\ Moves(c, "fail")
  BY Quitting, Moving DEF Places, Ops, Register
<1>5. Typed'
  BY ConstantsOK, Numbers, <1>1, <1>2, <1>3, <1>4 DEF IInv, Typed, PlaceInv, Calling, Places, Ops,
     States, Workers, Debugger, Placed, Files, Settles, Turns, Moves, Of, Rt, Starter, None
<1>6. PlaceInv'
  BY ConstantsOK, Numbers, <1>1, <1>2, <1>3, <1>4 DEF IInv, PlaceInv, Placed, Calling, Requests,
     Settles, Turns, Moves, Of, Rt, Starter, None
<1>7. LockInv'
  BY ConstantsOK, Numbers, <1>1, <1>2, <1>3, <1>4 DEF IInv, PlaceInv, LockInv, Placed,
     ConstantsOK, Settles, Turns, Moves, Of, Rt, Starter, None
<1>8. UnusedInv'
  BY ConstantsOK, Numbers, <1>1, <1>2, <1>3, <1>4 DEF IInv, PlaceInv, UnusedInv, Knows, Placed,
     Settles, Turns, Moves, Of, Rt, Starter, None
<1>9. NewInv'
  <2> SUFFICES ASSUME NEW d \in Callers, Waiting(d)' PROVE Blank(Of(d))'
    BY DEF NewInv
  <2>1. Waiting(d) /\ Of(d)' = Of(d)
    BY <1>1, <1>2, <1>3, <1>4 DEF Waiting, Starter, Of, Moves, Quits, Turns
  <2>2. Blank(Of(d)) /\ Of(d) \in States
    BY <2>1, Numbers DEF IInv, NewInv, PlaceInv, Placed, Waiting, Starter
  <2>3. file'[Of(d)] = "none" /\ Of(d) \notin sure'
    BY <2>2, <1>1, <1>2, <1>3, <1>4 DEF Blank, Settles
  <2> QED BY <2>1, <2>2, <2>3, <1>1, <1>2, <1>3, <1>4 DEF Blank, Knows
<1>10. OwnInv'
  BY ConstantsOK, Numbers, <1>1, <1>2, <1>3, <1>4 DEF IInv, PlaceInv, OwnInv, Placed, Settles,
     Turns, Moves, Of, Rt, Starter, None
<1>11. StopInv'
  BY ConstantsOK, Numbers, <1>1, <1>2, <1>3, <1>4 DEF IInv, PlaceInv, StopInv, NewInv, LockInv,
     OneStarter, Knows, Waiting, Blank, Placed, Settles, Turns, Moves, Of, Rt, Starter, None
<1>12. OneStarter'
  BY ConstantsOK, Numbers, <1>1, <1>2, <1>3, <1>4 DEF IInv, PlaceInv, OneStarter, OwnInv, Waiting,
     Placed, Settles, Turns, Moves, Of, Rt, Starter, None
<1>13. HandInv'
  BY ConstantsOK, Numbers, <1>1, <1>2, <1>3, <1>4 DEF IInv, HandInv, Hands, Settles, Turns, Moves,
     Of, Rt, Starter, None
<1>14. AgeInv'
  BY ConstantsOK, Numbers, <1>1, <1>2, <1>3, <1>4 DEF IInv, AgeInv, HandInv, Hands, Settles,
     Turns, Moves, Of, Rt, Starter, None
<1>15. ClosingInv'
  BY ConstantsOK, Numbers, <1>1, <1>2, <1>3, <1>4 DEF IInv, ClosingInv, Settles, Turns, Moves, Of,
     Rt, Starter, None
<1>16. DeadInv'
  BY ConstantsOK, Numbers, <1>1, <1>2, <1>3, <1>4 DEF IInv, DeadInv, Settles, Turns, Moves, Of,
     Rt, Starter, None
<1>17. PathInv'
  BY ConstantsOK, Numbers, <1>1, <1>2, <1>3, <1>4 DEF IInv, PathInv, Settles, Turns, Moves, Of,
     Rt, Starter, None
<1>18. UpInv'
  BY ConstantsOK, Numbers, <1>1, <1>2, <1>3, <1>4 DEF IInv, PlaceInv, UpInv, HandInv, Hands,
     Settles, Turns, Moves, Of, Rt, Starter, None
<1>19. KnowInv'
  BY ConstantsOK, Numbers, <1>1, <1>2, <1>3, <1>4 DEF IInv, NewInv, KnowInv, Knows, Waiting,
     Blank, Settles, Turns, Moves, Of, Rt, Starter, None
<1>20. \A d \in Callers : Dooms(d) => Dooms(d)'
  BY ConstantsOK, Numbers, <1>1, <1>2, <1>3, <1>4 DEF IInv, PlaceInv, Dooms, Placed, Settles,
     Turns, Moves, Of, Rt, Starter, None
<1>21. Good => RecordInv'
  BY ConstantsOK, Numbers, <1>1, <1>2, <1>3, <1>4 DEF IInv, PlaceInv, LockInv, RecordInv, Good,
     GoodRec, GoodLate, GoodAsk, GoodCall, Dooms, Busy, Asks, Settles, Turns, Moves, Of, Rt,
     Starter, None
<1>22. RecordInv'
  BY <1>20, <1>21 DEF IInv, RecordInv
<1>23. \A i \in States : Over(i) => Over(i)'
  BY ConstantsOK, Numbers, <1>1, <1>2, <1>3, <1>4 DEF IInv, PlaceInv, NewInv, HandInv, AgeInv,
     OwnInv, OneStarter, Over, Waiting, Blank, Knows, Placed, Settles, Turns, Moves, Of, Rt,
     Starter, None
<1>24. SureInv'
  BY ConstantsOK, Numbers, <1>1, <1>2, <1>3, <1>4, <1>23 DEF IInv, SureInv, NewInv, Typed,
     Waiting, Blank, Settles, Turns, Moves, Of, Rt, Starter, None, ConfirmedInv
<1>25. ConfirmedInv'
  BY ConstantsOK, Numbers, <1>1, <1>2, <1>3, <1>4, <1>23 DEF IInv, PlaceInv, ConfirmedInv,
     Confirmed, Placed, Settles, Turns, Moves, Of, Rt, Starter, None
<1> QED BY <1>5, <1>6, <1>7, <1>8, <1>9, <1>10, <1>11, <1>12, <1>13, <1>14, <1>15, <1>16, <1>17,
           <1>18, <1>19, <1>22, <1>24, <1>25 DEF IInv

(* The file is registered, and the call ends.                               *)
LEMMA RegisterQuitsKeeps ==
    ASSUME ConstantsOK, IInv, NEW c \in Callers, Register(c), Done(c),
           ~(Starter(c) /\ (call[c].fatal \/ ~call[c].safe))
    PROVE  IInv'
<1>1. /\ at[c] = "register" /\ Of(c) \in States
  BY Numbers DEF Register, IInv, PlaceInv, Placed, At, Starter, Requests
<1>2. /\ Finalizes(Of(c), Confirmed(c)) /\ Confirmed(c) \in BOOLEAN
      /\ UNCHANGED <<session, runtime, lock, cur, made, worker>>
  BY <1>1 DEF Register, Starter, Confirmed, IInv, Typed, Calling
<1>3. /\ sure' # sure => Confirmed(c)
      /\ Settles(Of(c), Confirmed(c))
      /\ file' \in [States -> Files]
      /\ active' \subseteq States /\ sure' \subseteq States
  BY <1>1, <1>2, Settling DEF Settles
<1>4. /\ at' \in [Callers -> Places] /\ call' \in [Callers -> Calling]
      /\ Quits(c)
  BY Quitting, Moving DEF Places, Ops, Register
<1>5. Typed'
  BY ConstantsOK, Numbers, <1>1, <1>2, <1>3, <1>4 DEF IInv, Typed, PlaceInv, Calling, Places, Ops,
     States, Workers, Debugger, Placed, Files, Settles, Turns, Quits, Of, Rt, Starter, None
<1>6. PlaceInv'
  BY ConstantsOK, Numbers, <1>1, <1>2, <1>3, <1>4 DEF IInv, PlaceInv, Placed, Calling, Requests,
     Settles, Turns, Quits, Of, Rt, Starter, None
<1>7. LockInv'
  BY ConstantsOK, Numbers, <1>1, <1>2, <1>3, <1>4 DEF IInv, PlaceInv, LockInv, Placed,
     ConstantsOK, Settles, Turns, Quits, Of, Rt, Starter, None
<1>8. UnusedInv'
  BY ConstantsOK, Numbers, <1>1, <1>2, <1>3, <1>4 DEF IInv, PlaceInv, UnusedInv, Knows, Placed,
     Settles, Turns, Quits, Of, Rt, Starter, None
<1>9. NewInv'
  <2> SUFFICES ASSUME NEW d \in Callers, Waiting(d)' PROVE Blank(Of(d))'
    BY DEF NewInv
  <2>1. Waiting(d) /\ Of(d)' = Of(d)
    BY <1>1, <1>2, <1>3, <1>4 DEF Waiting, Starter, Of, Moves, Quits, Turns
  <2>2. Blank(Of(d)) /\ Of(d) \in States
    BY <2>1, Numbers DEF IInv, NewInv, PlaceInv, Placed, Waiting, Starter
  <2>3. file'[Of(d)] = "none" /\ Of(d) \notin sure'
    BY <2>2, <1>1, <1>2, <1>3, <1>4 DEF Blank, Settles
  <2> QED BY <2>1, <2>2, <2>3, <1>1, <1>2, <1>3, <1>4 DEF Blank, Knows
<1>10. OwnInv'
  BY ConstantsOK, Numbers, <1>1, <1>2, <1>3, <1>4 DEF IInv, PlaceInv, OwnInv, Placed, Settles,
     Turns, Quits, Of, Rt, Starter, None
<1>11. StopInv'
  BY ConstantsOK, Numbers, <1>1, <1>2, <1>3, <1>4 DEF IInv, PlaceInv, StopInv, NewInv, LockInv,
     OneStarter, Knows, Waiting, Blank, Placed, Settles, Turns, Quits, Of, Rt, Starter, None
<1>12. OneStarter'
  BY ConstantsOK, Numbers, <1>1, <1>2, <1>3, <1>4 DEF IInv, PlaceInv, OneStarter, OwnInv, Waiting,
     Placed, Settles, Turns, Quits, Of, Rt, Starter, None
<1>13. HandInv'
  BY ConstantsOK, Numbers, <1>1, <1>2, <1>3, <1>4 DEF IInv, HandInv, Hands, Settles, Turns, Quits,
     Of, Rt, Starter, None
<1>14. AgeInv'
  BY ConstantsOK, Numbers, <1>1, <1>2, <1>3, <1>4 DEF IInv, AgeInv, HandInv, Hands, Settles,
     Turns, Quits, Of, Rt, Starter, None
<1>15. ClosingInv'
  BY ConstantsOK, Numbers, <1>1, <1>2, <1>3, <1>4 DEF IInv, ClosingInv, Settles, Turns, Quits, Of,
     Rt, Starter, None
<1>16. DeadInv'
  BY ConstantsOK, Numbers, <1>1, <1>2, <1>3, <1>4 DEF IInv, DeadInv, Settles, Turns, Quits, Of,
     Rt, Starter, None
<1>17. PathInv'
  BY ConstantsOK, Numbers, <1>1, <1>2, <1>3, <1>4 DEF IInv, PathInv, Settles, Turns, Quits, Of,
     Rt, Starter, None
<1>18. UpInv'
  BY ConstantsOK, Numbers, <1>1, <1>2, <1>3, <1>4 DEF IInv, PlaceInv, UpInv, HandInv, Hands,
     Settles, Turns, Quits, Of, Rt, Starter, None
<1>19. KnowInv'
  BY ConstantsOK, Numbers, <1>1, <1>2, <1>3, <1>4 DEF IInv, NewInv, KnowInv, Knows, Waiting,
     Blank, Settles, Turns, Quits, Of, Rt, Starter, None
<1>20. \A d \in Callers : Dooms(d) => Dooms(d)'
  BY ConstantsOK, Numbers, <1>1, <1>2, <1>3, <1>4 DEF IInv, PlaceInv, Dooms, Placed, Settles,
     Turns, Quits, Of, Rt, Starter, None
<1>21. Good => RecordInv'
  BY ConstantsOK, Numbers, <1>1, <1>2, <1>3, <1>4 DEF IInv, PlaceInv, LockInv, RecordInv, Good,
     GoodRec, GoodLate, GoodAsk, GoodCall, Dooms, Busy, Asks, Settles, Turns, Quits, Of, Rt,
     Starter, None
<1>22. RecordInv'
  BY <1>20, <1>21 DEF IInv, RecordInv
<1>23. \A i \in States : Over(i) => Over(i)'
  BY ConstantsOK, Numbers, <1>1, <1>2, <1>3, <1>4 DEF IInv, PlaceInv, NewInv, HandInv, AgeInv,
     OwnInv, OneStarter, Over, Waiting, Blank, Knows, Placed, Settles, Turns, Quits, Of, Rt,
     Starter, None
<1>24. SureInv'
  BY ConstantsOK, Numbers, <1>1, <1>2, <1>3, <1>4, <1>23 DEF IInv, SureInv, NewInv, Typed,
     Waiting, Blank, Settles, Turns, Quits, Of, Rt, Starter, None, ConfirmedInv
<1>25. ConfirmedInv'
  BY ConstantsOK, Numbers, <1>1, <1>2, <1>3, <1>4, <1>23 DEF IInv, PlaceInv, ConfirmedInv,
     Confirmed, Placed, Settles, Turns, Quits, Of, Rt, Starter, None
<1> QED BY <1>5, <1>6, <1>7, <1>8, <1>9, <1>10, <1>11, <1>12, <1>13, <1>14, <1>15, <1>16, <1>17,
           <1>18, <1>19, <1>22, <1>24, <1>25 DEF IInv

-----------------------------------------------------------------------------
(* The end of a runtime *)

(* The runtime is taken from the session to be killed.                      *)
LEMMA FailKillsKeeps ==
    ASSUME ConstantsOK, IInv, NEW c \in Callers, Fail(c), runtime # None
    PROVE  IInv'
<1>1. /\ at[c] = "fail"
      /\ UNCHANGED <<session, lock, cur, made, active, file, sure, worker>>
      /\ runtime' = None /\ runtime # None
  BY DEF Fail, At, Starter
<1>2. /\ at' \in [Callers -> Places] /\ call' \in [Callers -> Calling]
      /\ Turns(c, "kill", call[c].op, Of(c), runtime, call[c].fatal, call[c].safe)
  BY Quitting, Moving DEF Places, Ops, Fail, IInv, Typed
<1>3. Typed'
  BY ConstantsOK, Numbers, <1>1, <1>2 DEF IInv, Typed, PlaceInv, Calling, Places, Ops, States,
     Workers, Debugger, Placed, Files, Turns, Of, Rt, Starter, None
<1>4. PlaceInv'
  BY ConstantsOK, Numbers, <1>1, <1>2 DEF IInv, PlaceInv, Placed, Calling, Requests, Turns, Of,
     Rt, Starter, None
<1>5. LockInv'
  BY ConstantsOK, Numbers, <1>1, <1>2 DEF IInv, PlaceInv, LockInv, Placed, ConstantsOK, Turns, Of,
     Rt, Starter, None
<1>6. UnusedInv'
  BY ConstantsOK, Numbers, <1>1, <1>2 DEF IInv, PlaceInv, UnusedInv, Knows, Placed, Turns, Of, Rt,
     Starter, None
<1>7. NewInv'
  BY ConstantsOK, Numbers, <1>1, <1>2 DEF IInv, PlaceInv, UnusedInv, NewInv, OneStarter, OwnInv,
     Waiting, Blank, Knows, Turns, Of, Rt, Starter, None
<1>8. OwnInv'
  BY ConstantsOK, Numbers, <1>1, <1>2 DEF IInv, PlaceInv, OwnInv, Placed, Turns, Of, Rt, Starter,
     None
<1>9. StopInv'
  BY ConstantsOK, Numbers, <1>1, <1>2 DEF IInv, PlaceInv, StopInv, NewInv, LockInv, OneStarter,
     Knows, Waiting, Blank, Placed, Turns, Of, Rt, Starter, None
<1>10. OneStarter'
  BY ConstantsOK, Numbers, <1>1, <1>2 DEF IInv, PlaceInv, OneStarter, OwnInv, Waiting, Placed,
     Turns, Of, Rt, Starter, None
<1>11. HandInv'
  BY ConstantsOK, Numbers, <1>1, <1>2 DEF IInv, HandInv, Hands, Turns, Of, Rt, Starter, None
<1>12. AgeInv'
  BY ConstantsOK, Numbers, <1>1, <1>2 DEF IInv, AgeInv, HandInv, Hands, Turns, Of, Rt, Starter, None
<1>13. ClosingInv'
  BY ConstantsOK, Numbers, <1>1, <1>2 DEF IInv, ClosingInv, Turns, Of, Rt, Starter, None
<1>14. DeadInv'
  BY ConstantsOK, Numbers, <1>1, <1>2 DEF IInv, DeadInv, Turns, Of, Rt, Starter, None
<1>15. PathInv'
  BY ConstantsOK, Numbers, <1>1, <1>2 DEF IInv, PathInv, Turns, Of, Rt, Starter, None
<1>16. UpInv'
  BY ConstantsOK, Numbers, <1>1, <1>2 DEF IInv, PlaceInv, UpInv, HandInv, Hands, Turns, Of, Rt,
     Starter, None
<1>17. KnowInv'
  BY ConstantsOK, Numbers, <1>1, <1>2 DEF IInv, NewInv, KnowInv, Knows, Waiting, Blank, Turns, Of,
     Rt, Starter, None
<1>18. Good'
  BY <1>1, <1>2 DEF Good
<1>19. TRUE
  OBVIOUS
<1>20. RecordInv'
  BY <1>18 DEF RecordInv
<1>21. \A i \in States : Over(i) => Over(i)'
  BY ConstantsOK, Numbers, <1>1, <1>2 DEF IInv, PlaceInv, NewInv, HandInv, AgeInv, OwnInv,
     OneStarter, Over, Waiting, Blank, Knows, Placed, Turns, Of, Rt, Starter, None
<1>22. SureInv'
  BY ConstantsOK, Numbers, <1>1, <1>2, <1>21 DEF IInv, SureInv, NewInv, Typed, Waiting, Blank,
     Turns, Of, Rt, Starter, None
<1>23. ConfirmedInv'
  BY ConstantsOK, Numbers, <1>1, <1>2, <1>21 DEF IInv, PlaceInv, ConfirmedInv, Confirmed, Placed,
     Turns, Of, Rt, Starter, None
<1> QED BY <1>3, <1>4, <1>5, <1>6, <1>7, <1>8, <1>9, <1>10, <1>11, <1>12, <1>13, <1>14, <1>15,
           <1>16, <1>17, <1>20, <1>22, <1>23 DEF IInv

(* Somebody else has taken the runtime already.                             *)
LEMMA FailFindsKeeps ==
    ASSUME ConstantsOK, IInv, NEW c \in Callers, Fail(c), runtime = None
    PROVE  IInv'
<1>1. /\ at[c] = "fail"
      /\ UNCHANGED <<session, runtime, lock, cur, made, active, file, sure, worker>>
      /\ runtime = None
  BY DEF Fail, At, Starter
<1>2. /\ at' \in [Callers -> Places] /\ call' \in [Callers -> Calling]
      /\ Turns(c, "failed", call[c].op, Of(c), None, call[c].fatal, call[c].safe)
  BY Quitting, Moving DEF Places, Ops, Fail, IInv, Typed
<1>3. Typed'
  BY ConstantsOK, Numbers, <1>1, <1>2 DEF IInv, Typed, PlaceInv, Calling, Places, Ops, States,
     Workers, Debugger, Placed, Files, Turns, Of, Rt, Starter, None
<1>4. PlaceInv'
  BY ConstantsOK, Numbers, <1>1, <1>2 DEF IInv, PlaceInv, Placed, Calling, Requests, Turns, Of,
     Rt, Starter, None
<1>5. LockInv'
  BY ConstantsOK, Numbers, <1>1, <1>2 DEF IInv, PlaceInv, LockInv, Placed, ConstantsOK, Turns, Of,
     Rt, Starter, None
<1>6. UnusedInv'
  BY ConstantsOK, Numbers, <1>1, <1>2 DEF IInv, PlaceInv, UnusedInv, Knows, Placed, Turns, Of, Rt,
     Starter, None
<1>7. NewInv'
  BY ConstantsOK, Numbers, <1>1, <1>2 DEF IInv, PlaceInv, UnusedInv, NewInv, OneStarter, OwnInv,
     Waiting, Blank, Knows, Turns, Of, Rt, Starter, None
<1>8. OwnInv'
  BY ConstantsOK, Numbers, <1>1, <1>2 DEF IInv, PlaceInv, OwnInv, Placed, Turns, Of, Rt, Starter,
     None
<1>9. StopInv'
  BY ConstantsOK, Numbers, <1>1, <1>2 DEF IInv, PlaceInv, StopInv, NewInv, LockInv, OneStarter,
     Knows, Waiting, Blank, Placed, Turns, Of, Rt, Starter, None
<1>10. OneStarter'
  BY ConstantsOK, Numbers, <1>1, <1>2 DEF IInv, PlaceInv, OneStarter, OwnInv, Waiting, Placed,
     Turns, Of, Rt, Starter, None
<1>11. HandInv'
  BY ConstantsOK, Numbers, <1>1, <1>2 DEF IInv, HandInv, Hands, Turns, Of, Rt, Starter, None
<1>12. AgeInv'
  BY ConstantsOK, Numbers, <1>1, <1>2 DEF IInv, AgeInv, HandInv, Hands, Turns, Of, Rt, Starter, None
<1>13. ClosingInv'
  BY ConstantsOK, Numbers, <1>1, <1>2 DEF IInv, ClosingInv, Turns, Of, Rt, Starter, None
<1>14. DeadInv'
  BY ConstantsOK, Numbers, <1>1, <1>2 DEF IInv, DeadInv, Turns, Of, Rt, Starter, None
<1>15. PathInv'
  BY ConstantsOK, Numbers, <1>1, <1>2 DEF IInv, PathInv, Turns, Of, Rt, Starter, None
<1>16. UpInv'
  BY ConstantsOK, Numbers, <1>1, <1>2 DEF IInv, PlaceInv, UpInv, HandInv, Hands, Turns, Of, Rt,
     Starter, None
<1>17. KnowInv'
  BY ConstantsOK, Numbers, <1>1, <1>2 DEF IInv, NewInv, KnowInv, Knows, Waiting, Blank, Turns, Of,
     Rt, Starter, None
<1>18. Good'
  BY <1>1, <1>2 DEF Good
<1>19. TRUE
  OBVIOUS
<1>20. RecordInv'
  BY <1>18 DEF RecordInv
<1>21. \A i \in States : Over(i) => Over(i)'
  BY ConstantsOK, Numbers, <1>1, <1>2 DEF IInv, PlaceInv, NewInv, HandInv, AgeInv, OwnInv,
     OneStarter, Over, Waiting, Blank, Knows, Placed, Turns, Of, Rt, Starter, None
<1>22. SureInv'
  BY ConstantsOK, Numbers, <1>1, <1>2, <1>21 DEF IInv, SureInv, NewInv, Typed, Waiting, Blank,
     Turns, Of, Rt, Starter, None
<1>23. ConfirmedInv'
  BY ConstantsOK, Numbers, <1>1, <1>2, <1>21 DEF IInv, PlaceInv, ConfirmedInv, Confirmed, Placed,
     Turns, Of, Rt, Starter, None
<1> QED BY <1>3, <1>4, <1>5, <1>6, <1>7, <1>8, <1>9, <1>10, <1>11, <1>12, <1>13, <1>14, <1>15,
           <1>16, <1>17, <1>20, <1>22, <1>23 DEF IInv

(* The debugger of the runtime is killed.                                   *)
LEMMA KillKeeps ==
    ASSUME ConstantsOK, IInv, NEW c \in Callers, Kill(c)
    PROVE  IInv'
<1>1. /\ at[c] = "kill" /\ Rt(c) \in Workers /\ runtime = None
  BY DEF HandInv, Hands, Kill, IInv, PlaceInv, Placed, At, Starter, Requests
<1>2. /\ UNCHANGED <<session, runtime, lock, cur, made, active, file, sure>>
      /\ Blanks(Rt(c))
      /\ Forgets
      /\ worker' \in [Workers -> Debugger]
  BY <1>1, WorkerSteps, Forgetting DEF Blanks, service, Kill
<1>3. /\ at' \in [Callers -> Places] /\ call' \in [Callers -> Calling]
      /\ Moves(c, "loss")
  BY Quitting, Moving DEF Places, Ops, Kill
<1>4. Typed'
  BY ConstantsOK, Numbers, <1>1, <1>2, <1>3 DEF IInv, Typed, PlaceInv, Calling, Places, Ops,
     States, Workers, Debugger, Placed, Files, Blanks, Forgets, Turns, Moves, Holds, Of, Rt,
     Starter, None
<1>5. PlaceInv'
  BY ConstantsOK, Numbers, <1>1, <1>2, <1>3 DEF IInv, PlaceInv, Placed, Calling, Requests, Blanks,
     Forgets, Turns, Moves, Holds, Of, Rt, Starter, None
<1>6. LockInv'
  BY ConstantsOK, Numbers, <1>1, <1>2, <1>3 DEF IInv, PlaceInv, LockInv, Placed, ConstantsOK,
     Blanks, Forgets, Turns, Moves, Holds, Of, Rt, Starter, None
<1>7. UnusedInv'
  BY ConstantsOK, Numbers, <1>1, <1>2, <1>3 DEF IInv, PlaceInv, UnusedInv, Knows, Placed, Blanks,
     Forgets, Turns, Moves, Holds, Of, Rt, Starter, None
<1>8. NewInv'
  <2> SUFFICES ASSUME NEW d \in Callers, Waiting(d)' PROVE Blank(Of(d))'
    BY DEF NewInv
  <2>1. Waiting(d) /\ Of(d)' = Of(d)
    BY <1>1, <1>2, <1>3 DEF Waiting, Starter, Of, Moves, Quits, Turns
  <2>2. Blank(Of(d)) /\ Of(d) \in States
    BY <2>1, Numbers DEF IInv, NewInv, PlaceInv, Placed, Waiting, Starter
  <2> QED BY <2>1, <2>2, <1>1, <1>2, <1>3 DEF Blank, Forgets
<1>9. OwnInv'
  BY ConstantsOK, Numbers, <1>1, <1>2, <1>3 DEF IInv, PlaceInv, OwnInv, Placed, Blanks, Forgets,
     Turns, Moves, Holds, Of, Rt, Starter, None
<1>10. StopInv'
  BY ConstantsOK, Numbers, <1>1, <1>2, <1>3 DEF IInv, PlaceInv, StopInv, NewInv, LockInv,
     OneStarter, Knows, Waiting, Blank, Placed, Blanks, Forgets, Turns, Moves, Holds, Of, Rt,
     Starter, None
<1>11. OneStarter'
  BY ConstantsOK, Numbers, <1>1, <1>2, <1>3 DEF IInv, PlaceInv, OneStarter, OwnInv, Waiting,
     Placed, Blanks, Forgets, Turns, Moves, Holds, Of, Rt, Starter, None
<1>12. HandInv'
  BY ConstantsOK, Numbers, <1>1, <1>2, <1>3 DEF IInv, HandInv, Hands, Blanks, Forgets, Turns,
     Moves, Holds, Of, Rt, Starter, None
<1>13. AgeInv'
  BY ConstantsOK, Numbers, <1>1, <1>2, <1>3 DEF IInv, AgeInv, HandInv, Hands, Blanks, Forgets,
     Turns, Moves, Holds, Of, Rt, Starter, None
<1>14. ClosingInv'
  BY ConstantsOK, Numbers, <1>1, <1>2, <1>3 DEF IInv, ClosingInv, Blanks, Forgets, Turns, Moves,
     Holds, Of, Rt, Starter, None
<1>15. DeadInv'
  BY ConstantsOK, Numbers, <1>1, <1>2, <1>3 DEF IInv, DeadInv, Blanks, Forgets, Turns, Moves,
     Holds, Of, Rt, Starter, None
<1>16. PathInv'
  BY ConstantsOK, Numbers, <1>1, <1>2, <1>3 DEF IInv, PathInv, Blanks, Forgets, Turns, Moves,
     Holds, Of, Rt, Starter, None
<1>17. UpInv'
  BY ConstantsOK, Numbers, <1>1, <1>2, <1>3 DEF IInv, PlaceInv, UpInv, HandInv, Hands, Blanks,
     Forgets, Turns, Moves, Holds, Of, Rt, Starter, None
<1>18. KnowInv'
  BY ConstantsOK, Numbers, <1>1, <1>2, <1>3 DEF IInv, NewInv, KnowInv, Knows, Waiting, Blank,
     Blanks, Forgets, Turns, Moves, Holds, Of, Rt, Starter, None
<1>19. Good'
  BY <1>1, <1>2, <1>3 DEF Good
<1>20. TRUE
  OBVIOUS
<1>21. RecordInv'
  BY <1>19 DEF RecordInv
<1>22. \A i \in States : Over(i) => Over(i)'
  BY ConstantsOK, Numbers, <1>1, <1>2, <1>3 DEF IInv, PlaceInv, NewInv, HandInv, AgeInv, OwnInv,
     OneStarter, Over, Waiting, Blank, Knows, Placed, Blanks, Forgets, Turns, Moves, Holds, Of,
     Rt, Starter, None
<1>23. SureInv'
  BY ConstantsOK, Numbers, <1>1, <1>2, <1>3, <1>22 DEF IInv, SureInv, NewInv, Typed, Waiting,
     Blank, Blanks, Forgets, Turns, Moves, Holds, Of, Rt, Starter, None
<1>24. ConfirmedInv'
  BY ConstantsOK, Numbers, <1>1, <1>2, <1>3, <1>22 DEF IInv, PlaceInv, ConfirmedInv, Confirmed,
     Placed, Blanks, Forgets, Turns, Moves, Holds, Of, Rt, Starter, None
<1> QED BY <1>4, <1>5, <1>6, <1>7, <1>8, <1>9, <1>10, <1>11, <1>12, <1>13, <1>14, <1>15, <1>16,
           <1>17, <1>18, <1>21, <1>23, <1>24 DEF IInv

(* The debugger of a session that closes is ended.                          *)
LEMMA CloseWorkerKeeps ==
    ASSUME ConstantsOK, IInv, NEW c \in Callers, CloseWorker(c)
    PROVE  IInv'
<1>1. /\ at[c] = "close" /\ Rt(c) \in Workers /\ runtime = None
  BY DEF HandInv, Hands, CloseWorker, IInv, PlaceInv, Placed, At, Starter, Requests
<1>2. /\ UNCHANGED <<session, runtime, lock, cur, made, active, file, sure>>
      /\ Blanks(Rt(c))
      /\ Forgets
      /\ worker' \in [Workers -> Debugger]
  BY <1>1, WorkerSteps, Forgetting DEF Blanks, service, CloseWorker
<1>3. /\ at' \in [Callers -> Places] /\ call' \in [Callers -> Calling]
      /\ Moves(c, "closing")
  BY Quitting, Moving DEF Places, Ops, CloseWorker
<1>4. Typed'
  BY ConstantsOK, Numbers, <1>1, <1>2, <1>3 DEF IInv, Typed, PlaceInv, Calling, Places, Ops,
     States, Workers, Debugger, Placed, Files, Blanks, Forgets, Turns, Moves, Holds, Of, Rt,
     Starter, None
<1>5. PlaceInv'
  BY ConstantsOK, Numbers, <1>1, <1>2, <1>3 DEF IInv, PlaceInv, Placed, Calling, Requests, Blanks,
     Forgets, Turns, Moves, Holds, Of, Rt, Starter, None
<1>6. LockInv'
  BY ConstantsOK, Numbers, <1>1, <1>2, <1>3 DEF IInv, PlaceInv, LockInv, Placed, ConstantsOK,
     Blanks, Forgets, Turns, Moves, Holds, Of, Rt, Starter, None
<1>7. UnusedInv'
  BY ConstantsOK, Numbers, <1>1, <1>2, <1>3 DEF IInv, PlaceInv, UnusedInv, Knows, Placed, Blanks,
     Forgets, Turns, Moves, Holds, Of, Rt, Starter, None
<1>8. NewInv'
  <2> SUFFICES ASSUME NEW d \in Callers, Waiting(d)' PROVE Blank(Of(d))'
    BY DEF NewInv
  <2>1. Waiting(d) /\ Of(d)' = Of(d)
    BY <1>1, <1>2, <1>3 DEF Waiting, Starter, Of, Moves, Quits, Turns
  <2>2. Blank(Of(d)) /\ Of(d) \in States
    BY <2>1, Numbers DEF IInv, NewInv, PlaceInv, Placed, Waiting, Starter
  <2> QED BY <2>1, <2>2, <1>1, <1>2, <1>3 DEF Blank, Forgets
<1>9. OwnInv'
  BY ConstantsOK, Numbers, <1>1, <1>2, <1>3 DEF IInv, PlaceInv, OwnInv, Placed, Blanks, Forgets,
     Turns, Moves, Holds, Of, Rt, Starter, None
<1>10. StopInv'
  BY ConstantsOK, Numbers, <1>1, <1>2, <1>3 DEF IInv, PlaceInv, StopInv, NewInv, LockInv,
     OneStarter, Knows, Waiting, Blank, Placed, Blanks, Forgets, Turns, Moves, Holds, Of, Rt,
     Starter, None
<1>11. OneStarter'
  BY ConstantsOK, Numbers, <1>1, <1>2, <1>3 DEF IInv, PlaceInv, OneStarter, OwnInv, Waiting,
     Placed, Blanks, Forgets, Turns, Moves, Holds, Of, Rt, Starter, None
<1>12. HandInv'
  BY ConstantsOK, Numbers, <1>1, <1>2, <1>3 DEF IInv, HandInv, Hands, Blanks, Forgets, Turns,
     Moves, Holds, Of, Rt, Starter, None
<1>13. AgeInv'
  BY ConstantsOK, Numbers, <1>1, <1>2, <1>3 DEF IInv, AgeInv, HandInv, Hands, Blanks, Forgets,
     Turns, Moves, Holds, Of, Rt, Starter, None
<1>14. ClosingInv'
  BY ConstantsOK, Numbers, <1>1, <1>2, <1>3 DEF IInv, ClosingInv, Blanks, Forgets, Turns, Moves,
     Holds, Of, Rt, Starter, None
<1>15. DeadInv'
  BY ConstantsOK, Numbers, <1>1, <1>2, <1>3 DEF IInv, DeadInv, Blanks, Forgets, Turns, Moves,
     Holds, Of, Rt, Starter, None
<1>16. PathInv'
  BY ConstantsOK, Numbers, <1>1, <1>2, <1>3 DEF IInv, PathInv, Blanks, Forgets, Turns, Moves,
     Holds, Of, Rt, Starter, None
<1>17. UpInv'
  BY ConstantsOK, Numbers, <1>1, <1>2, <1>3 DEF IInv, PlaceInv, UpInv, HandInv, Hands, Blanks,
     Forgets, Turns, Moves, Holds, Of, Rt, Starter, None
<1>18. KnowInv'
  BY ConstantsOK, Numbers, <1>1, <1>2, <1>3 DEF IInv, NewInv, KnowInv, Knows, Waiting, Blank,
     Blanks, Forgets, Turns, Moves, Holds, Of, Rt, Starter, None
<1>19. Good'
  BY <1>1, <1>2, <1>3 DEF Good
<1>20. TRUE
  OBVIOUS
<1>21. RecordInv'
  BY <1>19 DEF RecordInv
<1>22. \A i \in States : Over(i) => Over(i)'
  BY ConstantsOK, Numbers, <1>1, <1>2, <1>3 DEF IInv, PlaceInv, NewInv, HandInv, AgeInv, OwnInv,
     OneStarter, Over, Waiting, Blank, Knows, Placed, Blanks, Forgets, Turns, Moves, Holds, Of,
     Rt, Starter, None
<1>23. SureInv'
  BY ConstantsOK, Numbers, <1>1, <1>2, <1>3, <1>22 DEF IInv, SureInv, NewInv, Typed, Waiting,
     Blank, Blanks, Forgets, Turns, Moves, Holds, Of, Rt, Starter, None
<1>24. ConfirmedInv'
  BY ConstantsOK, Numbers, <1>1, <1>2, <1>3, <1>22 DEF IInv, PlaceInv, ConfirmedInv, Confirmed,
     Placed, Blanks, Forgets, Turns, Moves, Holds, Of, Rt, Starter, None
<1> QED BY <1>4, <1>5, <1>6, <1>7, <1>8, <1>9, <1>10, <1>11, <1>12, <1>13, <1>14, <1>15, <1>16,
           <1>17, <1>18, <1>21, <1>23, <1>24 DEF IInv

(* The trace of the session ends with its runtime.                          *)
LEMMA LossKeeps ==
    ASSUME ConstantsOK, IInv, NEW c \in Callers, NEW from \in {"loss", "discard", "closing"},
           NEW to \in {"failed", "reopen", "clear"},
           from = "discard" <=> to = "reopen", from = "closing" <=> to = "clear", At(c, from),
           Loss(c, to),
           UNCHANGED <<call, calls, session, runtime, lock, cur, made, worker>>
    PROVE  IInv'
<1>1. /\ at[c] = from /\ runtime = None
         /\ (from = "discard" => Rt(c) \in Workers /\ Rt(c) < MaxWorkers
         /\ \A d \in Callers : Rt(d) <= Rt(c))
      /\ (from = "closing" => session # "open")
  BY DEF HandInv, Hands, AgeInv, ClosingInv, Starter, IInv, PlaceInv, Placed, At, Starter, Requests
<1>2. /\ \A w \in Workers : ~worker[w].up /\ worker[w].rec = None /\ worker[w].late = None
  BY <1>1 DEF HandInv, Hands, UpInv, DeadInv, IInv, Workers, None
<1>3. /\ cur # None => Over(cur)
  BY <1>2, Numbers DEF IInv, OwnInv, Over, Waiting, PlaceInv, Placed, Starter, Typed, Workers
<1>4. /\ (Settles(cur, TRUE) /\ cur \in States) \/ UNCHANGED <<active, file, sure>>
      /\ file' \in [States -> Files]
      /\ active' \subseteq States /\ sure' \subseteq States
  BY Numbers, Settling DEF Loss, IInv, Typed, Files
<1>5. /\ at' \in [Callers -> Places] /\ call' \in [Callers -> Calling]
      /\ Moves(c, to)
  BY Moving DEF Places, Loss
<1>6. Typed'
  BY ConstantsOK, Numbers, <1>1, <1>2, <1>3, <1>4, <1>5 DEF IInv, Typed, PlaceInv, Calling,
     Places, Ops, States, Workers, Debugger, Placed, Files, Settles, Turns, Moves, Of, Rt,
     Starter, None
<1>7. PlaceInv'
  BY ConstantsOK, Numbers, <1>1, <1>2, <1>3, <1>4, <1>5 DEF IInv, PlaceInv, Placed, Calling,
     Requests, Settles, Turns, Moves, Of, Rt, Starter, None
<1>8. LockInv'
  BY ConstantsOK, Numbers, <1>1, <1>2, <1>3, <1>4, <1>5 DEF IInv, PlaceInv, LockInv, Placed,
     ConstantsOK, Settles, Turns, Moves, Of, Rt, Starter, None
<1>9. UnusedInv'
  BY ConstantsOK, Numbers, <1>1, <1>2, <1>3, <1>4, <1>5 DEF IInv, PlaceInv, UnusedInv, Knows,
     Placed, Settles, Turns, Moves, Of, Rt, Starter, None
<1>10. NewInv'
  <2> SUFFICES ASSUME NEW d \in Callers, Waiting(d)' PROVE Blank(Of(d))'
    BY DEF NewInv
  <2>1. Waiting(d) /\ Of(d)' = Of(d)
    BY <1>1, <1>2, <1>3, <1>4, <1>5 DEF Waiting, Starter, Of, Moves, Quits, Turns
  <2>2. Blank(Of(d)) /\ Of(d) \in States
    BY <2>1, Numbers DEF IInv, NewInv, PlaceInv, Placed, Waiting, Starter
  <2>3. file'[Of(d)] = "none" /\ Of(d) \notin sure'
    BY <2>2, <1>1, <1>2, <1>3, <1>4, <1>5 DEF Blank, Settles
  <2> QED BY <2>1, <2>2, <2>3, <1>1, <1>2, <1>3, <1>4, <1>5 DEF Blank, Knows
<1>11. OwnInv'
  BY ConstantsOK, Numbers, <1>1, <1>2, <1>3, <1>4, <1>5 DEF IInv, PlaceInv, OwnInv, Placed,
     Settles, Turns, Moves, Of, Rt, Starter, None
<1>12. StopInv'
  BY ConstantsOK, Numbers, <1>1, <1>2, <1>3, <1>4, <1>5 DEF IInv, PlaceInv, StopInv, NewInv,
     LockInv, OneStarter, Knows, Waiting, Blank, Placed, Settles, Turns, Moves, Of, Rt, Starter,
     None
<1>13. OneStarter'
  BY ConstantsOK, Numbers, <1>1, <1>2, <1>3, <1>4, <1>5 DEF IInv, PlaceInv, OneStarter, OwnInv,
     Waiting, Placed, Settles, Turns, Moves, Of, Rt, Starter, None
<1>14. HandInv'
  BY ConstantsOK, Numbers, <1>1, <1>2, <1>3, <1>4, <1>5 DEF IInv, HandInv, Hands, Settles, Turns,
     Moves, Of, Rt, Starter, None
<1>15. AgeInv'
  BY ConstantsOK, Numbers, <1>1, <1>2, <1>3, <1>4, <1>5 DEF IInv, AgeInv, HandInv, Hands, Settles,
     Turns, Moves, Of, Rt, Starter, None
<1>16. ClosingInv'
  BY ConstantsOK, Numbers, <1>1, <1>2, <1>3, <1>4, <1>5 DEF IInv, ClosingInv, Settles, Turns,
     Moves, Of, Rt, Starter, None
<1>17. DeadInv'
  BY ConstantsOK, Numbers, <1>1, <1>2, <1>3, <1>4, <1>5 DEF IInv, DeadInv, Settles, Turns, Moves,
     Of, Rt, Starter, None
<1>18. PathInv'
  BY ConstantsOK, Numbers, <1>1, <1>2, <1>3, <1>4, <1>5 DEF IInv, PathInv, Settles, Turns, Moves,
     Of, Rt, Starter, None
<1>19. UpInv'
  BY ConstantsOK, Numbers, <1>1, <1>2, <1>3, <1>4, <1>5 DEF IInv, PlaceInv, UpInv, HandInv, Hands,
     Settles, Turns, Moves, Of, Rt, Starter, None
<1>20. KnowInv'
  BY ConstantsOK, Numbers, <1>1, <1>2, <1>3, <1>4, <1>5 DEF IInv, NewInv, KnowInv, Knows, Waiting,
     Blank, Settles, Turns, Moves, Of, Rt, Starter, None
<1>21. Good'
  BY <1>1, <1>2, <1>3, <1>4, <1>5 DEF Good
<1>22. TRUE
  OBVIOUS
<1>23. RecordInv'
  BY <1>21 DEF RecordInv
<1>24. \A i \in States : Over(i) => Over(i)'
  BY ConstantsOK, Numbers, <1>1, <1>2, <1>3, <1>4, <1>5 DEF IInv, PlaceInv, NewInv, HandInv,
     AgeInv, OwnInv, OneStarter, Over, Waiting, Blank, Knows, Placed, Settles, Turns, Moves, Of,
     Rt, Starter, None
<1>25. SureInv'
  BY ConstantsOK, Numbers, <1>1, <1>2, <1>3, <1>4, <1>5, <1>24 DEF IInv, SureInv, NewInv, Typed,
     Waiting, Blank, Settles, Turns, Moves, Of, Rt, Starter, None
<1>26. ConfirmedInv'
  BY ConstantsOK, Numbers, <1>1, <1>2, <1>3, <1>4, <1>5, <1>24 DEF IInv, PlaceInv, ConfirmedInv,
     Confirmed, Placed, Settles, Turns, Moves, Of, Rt, Starter, None
<1> QED BY <1>6, <1>7, <1>8, <1>9, <1>10, <1>11, <1>12, <1>13, <1>14, <1>15, <1>16, <1>17, <1>18,
           <1>19, <1>20, <1>23, <1>25, <1>26 DEF IInv

(* The session has failed, and the call ends.                               *)
LEMMA FailedKeeps ==
    ASSUME ConstantsOK, IInv, NEW c \in Callers, Failed(c)
    PROVE  IInv'
<1>1. /\ at[c] = "failed"
      /\ UNCHANGED <<runtime, lock, cur, made, worker>>
      /\ session' \in {"failed", "closed"}
  BY DEF Failed, At, Starter, IInv, Typed
<1>2. /\ (~Starter(c) /\ Settles(Of(c), FALSE) /\ Of(c) \in States) \/ UNCHANGED <<active, file,
         sure>>
      /\ file' \in [States -> Files]
      /\ active' \subseteq States /\ sure' \subseteq States
  BY Numbers, Settling DEF Failed, Starter, IInv, Typed, Files
<1>3. /\ at' \in [Callers -> Places] /\ call' \in [Callers -> Calling]
      /\ Quits(c)
  BY Quitting, Moving DEF Places, Ops, Failed
<1>4. Typed'
  BY ConstantsOK, Numbers, <1>1, <1>2, <1>3 DEF IInv, Typed, PlaceInv, Calling, Places, Ops,
     States, Workers, Debugger, Placed, Files, Settles, Turns, Quits, Of, Rt, Starter, None
<1>5. PlaceInv'
  BY ConstantsOK, Numbers, <1>1, <1>2, <1>3 DEF IInv, PlaceInv, Placed, Calling, Requests,
     Settles, Turns, Quits, Of, Rt, Starter, None
<1>6. LockInv'
  BY ConstantsOK, Numbers, <1>1, <1>2, <1>3 DEF IInv, PlaceInv, LockInv, Placed, ConstantsOK,
     Settles, Turns, Quits, Of, Rt, Starter, None
<1>7. UnusedInv'
  BY ConstantsOK, Numbers, <1>1, <1>2, <1>3 DEF IInv, PlaceInv, UnusedInv, Knows, Placed, Settles,
     Turns, Quits, Of, Rt, Starter, None
<1>8. NewInv'
  <2> SUFFICES ASSUME NEW d \in Callers, Waiting(d)' PROVE Blank(Of(d))'
    BY DEF NewInv
  <2>1. Waiting(d) /\ Of(d)' = Of(d)
    BY <1>1, <1>2, <1>3 DEF Waiting, Starter, Of, Moves, Quits, Turns
  <2>2. Blank(Of(d)) /\ Of(d) \in States
    BY <2>1, Numbers DEF IInv, NewInv, PlaceInv, Placed, Waiting, Starter
  <2>3. file'[Of(d)] = "none" /\ Of(d) \notin sure'
    BY <2>2, <1>1, <1>2, <1>3 DEF Blank, Settles
  <2> QED BY <2>1, <2>2, <2>3, <1>1, <1>2, <1>3 DEF Blank, Knows
<1>9. OwnInv'
  BY ConstantsOK, Numbers, <1>1, <1>2, <1>3 DEF IInv, PlaceInv, OwnInv, Placed, Settles, Turns,
     Quits, Of, Rt, Starter, None
<1>10. StopInv'
  BY ConstantsOK, Numbers, <1>1, <1>2, <1>3 DEF IInv, PlaceInv, StopInv, NewInv, LockInv,
     OneStarter, Knows, Waiting, Blank, Placed, Settles, Turns, Quits, Of, Rt, Starter, None
<1>11. OneStarter'
  BY ConstantsOK, Numbers, <1>1, <1>2, <1>3 DEF IInv, PlaceInv, OneStarter, OwnInv, Waiting,
     Placed, Settles, Turns, Quits, Of, Rt, Starter, None
<1>12. HandInv'
  BY ConstantsOK, Numbers, <1>1, <1>2, <1>3 DEF IInv, HandInv, Hands, Settles, Turns, Quits, Of,
     Rt, Starter, None
<1>13. AgeInv'
  BY ConstantsOK, Numbers, <1>1, <1>2, <1>3 DEF IInv, AgeInv, HandInv, Hands, Settles, Turns,
     Quits, Of, Rt, Starter, None
<1>14. ClosingInv'
  BY ConstantsOK, Numbers, <1>1, <1>2, <1>3 DEF IInv, ClosingInv, Settles, Turns, Quits, Of, Rt,
     Starter, None
<1>15. DeadInv'
  BY ConstantsOK, Numbers, <1>1, <1>2, <1>3 DEF IInv, DeadInv, Settles, Turns, Quits, Of, Rt,
     Starter, None
<1>16. PathInv'
  BY ConstantsOK, Numbers, <1>1, <1>2, <1>3 DEF IInv, PathInv, Settles, Turns, Quits, Of, Rt,
     Starter, None
<1>17. UpInv'
  BY ConstantsOK, Numbers, <1>1, <1>2, <1>3 DEF IInv, PlaceInv, UpInv, HandInv, Hands, Settles,
     Turns, Quits, Of, Rt, Starter, None
<1>18. KnowInv'
  BY ConstantsOK, Numbers, <1>1, <1>2, <1>3 DEF IInv, NewInv, KnowInv, Knows, Waiting, Blank,
     Settles, Turns, Quits, Of, Rt, Starter, None
<1>19. \A d \in Callers : Dooms(d) => Dooms(d)'
  BY ConstantsOK, Numbers, <1>1, <1>2, <1>3 DEF IInv, PlaceInv, Dooms, Placed, Settles, Turns,
     Quits, Of, Rt, Starter, None
<1>20. Good => RecordInv'
  BY ConstantsOK, Numbers, <1>1, <1>2, <1>3 DEF IInv, PlaceInv, LockInv, RecordInv, Good, GoodRec,
     GoodLate, GoodAsk, GoodCall, Dooms, Busy, Asks, Settles, Turns, Quits, Of, Rt, Starter, None
<1>21. RecordInv'
  BY <1>19, <1>20 DEF IInv, RecordInv
<1>22. \A i \in States : Over(i) => Over(i)'
  BY ConstantsOK, Numbers, <1>1, <1>2, <1>3 DEF IInv, PlaceInv, NewInv, HandInv, AgeInv, OwnInv,
     OneStarter, Over, Waiting, Blank, Knows, Placed, Settles, Turns, Quits, Of, Rt, Starter, None
<1>23. SureInv'
  BY ConstantsOK, Numbers, <1>1, <1>2, <1>3, <1>22 DEF IInv, SureInv, NewInv, Typed, Waiting,
     Blank, Settles, Turns, Quits, Of, Rt, Starter, None
<1>24. ConfirmedInv'
  BY ConstantsOK, Numbers, <1>1, <1>2, <1>3, <1>22 DEF IInv, PlaceInv, ConfirmedInv, Confirmed,
     Placed, Settles, Turns, Quits, Of, Rt, Starter, None
<1> QED BY <1>4, <1>5, <1>6, <1>7, <1>8, <1>9, <1>10, <1>11, <1>12, <1>13, <1>14, <1>15, <1>16,
           <1>17, <1>18, <1>21, <1>23, <1>24 DEF IInv

(* A new runtime is opened for the session.                                 *)
LEMMA ReopenOpensKeeps ==
    ASSUME ConstantsOK, IInv, NEW c \in Callers, Reopen(c), session = "open"
    PROVE  IInv'
<1>1. /\ at[c] = "reopen" /\ runtime = None /\ Rt(c) \in Workers /\ Rt(c) < MaxWorkers
         /\ \A d \in Callers : Rt(d) <= Rt(c)
  BY DEF Reopen, HandInv, Hands, AgeInv, IInv, PlaceInv, Placed, At, Starter, Requests
<1>2. /\ \A w \in Workers : ~worker[w].up
  BY <1>1 DEF HandInv, Hands, UpInv, IInv, Workers, None
<1>3. /\ Rt(c) + 1 \in Workers /\ Rt(c) + 1 # None
  BY <1>1, ConstantsOK, Numbers DEF ConstantsOK, Workers, None
<1>4. /\ runtime' = Rt(c) + 1
      /\ UNCHANGED <<session, lock, cur, made, active, file, sure>>
  BY <1>1 DEF Reopen
<1>5. /\ Worker(Rt(c) + 1, [NoWorker EXCEPT !.up = TRUE])
  BY <1>1 DEF Reopen
<1>6. /\ Holds(Rt(c) + 1, TRUE, None, None, None)
      /\ Forgets
      /\ worker' \in [Workers -> Debugger]
  BY <1>3, <1>5, WorkerSteps, Forgetting
<1>7. /\ at' \in [Callers -> Places] /\ call' \in [Callers -> Calling]
      /\ Quits(c)
  BY Quitting, Moving DEF Places, Ops, Reopen
<1>8. Typed'
  BY ConstantsOK, Numbers, <1>1, <1>2, <1>3, <1>4, <1>5, <1>6, <1>7 DEF IInv, Typed, PlaceInv,
     Calling, Places, Ops, States, Workers, Debugger, Placed, Files, Forgets, Turns, Quits, Holds,
     Of, Rt, Starter, None
<1>9. PlaceInv'
  BY ConstantsOK, Numbers, <1>1, <1>2, <1>3, <1>4, <1>5, <1>6, <1>7 DEF IInv, PlaceInv, Placed,
     Calling, Requests, Forgets, Turns, Quits, Holds, Of, Rt, Starter, None
<1>10. LockInv'
  BY ConstantsOK, Numbers, <1>1, <1>2, <1>3, <1>4, <1>5, <1>6, <1>7 DEF IInv, PlaceInv, LockInv,
     Placed, ConstantsOK, Forgets, Turns, Quits, Holds, Of, Rt, Starter, None
<1>11. UnusedInv'
  BY ConstantsOK, Numbers, <1>1, <1>2, <1>3, <1>4, <1>5, <1>6, <1>7 DEF IInv, PlaceInv, UnusedInv,
     Knows, Placed, Forgets, Turns, Quits, Holds, Of, Rt, Starter, None
<1>12. NewInv'
  <2> SUFFICES ASSUME NEW d \in Callers, Waiting(d)' PROVE Blank(Of(d))'
    BY DEF NewInv
  <2>1. Waiting(d) /\ Of(d)' = Of(d)
    BY <1>1, <1>2, <1>3, <1>4, <1>5, <1>6, <1>7 DEF Waiting, Starter, Of, Moves, Quits, Turns
  <2>2. Blank(Of(d)) /\ Of(d) \in States
    BY <2>1, Numbers DEF IInv, NewInv, PlaceInv, Placed, Waiting, Starter
  <2> QED BY <2>1, <2>2, <1>1, <1>2, <1>3, <1>4, <1>5, <1>6, <1>7 DEF Blank, Forgets
<1>13. OwnInv'
  BY ConstantsOK, Numbers, <1>1, <1>2, <1>3, <1>4, <1>5, <1>6, <1>7 DEF IInv, PlaceInv, OwnInv,
     Placed, Forgets, Turns, Quits, Holds, Of, Rt, Starter, None
<1>14. StopInv'
  BY ConstantsOK, Numbers, <1>1, <1>2, <1>3, <1>4, <1>5, <1>6, <1>7 DEF IInv, PlaceInv, StopInv,
     NewInv, LockInv, OneStarter, Knows, Waiting, Blank, Placed, Forgets, Turns, Quits, Holds, Of,
     Rt, Starter, None
<1>15. OneStarter'
  BY ConstantsOK, Numbers, <1>1, <1>2, <1>3, <1>4, <1>5, <1>6, <1>7 DEF IInv, PlaceInv,
     OneStarter, OwnInv, Waiting, Placed, Forgets, Turns, Quits, Holds, Of, Rt, Starter, None
<1>16. HandInv'
  BY ConstantsOK, Numbers, <1>1, <1>2, <1>3, <1>4, <1>5, <1>6, <1>7 DEF IInv, HandInv, Hands,
     Forgets, Turns, Quits, Holds, Of, Rt, Starter, None
<1>17. AgeInv'
  BY ConstantsOK, Numbers, <1>1, <1>2, <1>3, <1>4, <1>5, <1>6, <1>7 DEF IInv, AgeInv, HandInv,
     Hands, Forgets, Turns, Quits, Holds, Of, Rt, Starter, None
<1>18. ClosingInv'
  BY ConstantsOK, Numbers, <1>1, <1>2, <1>3, <1>4, <1>5, <1>6, <1>7 DEF IInv, ClosingInv, Forgets,
     Turns, Quits, Holds, Of, Rt, Starter, None
<1>19. DeadInv'
  BY ConstantsOK, Numbers, <1>1, <1>2, <1>3, <1>4, <1>5, <1>6, <1>7 DEF IInv, DeadInv, NoWorker,
     Forgets, Turns, Quits, Holds, Of, Rt, Starter, None
<1>20. PathInv'
  BY ConstantsOK, Numbers, <1>1, <1>2, <1>3, <1>4, <1>5, <1>6, <1>7 DEF IInv, PathInv, NoWorker,
     Forgets, Turns, Quits, Holds, Of, Rt, Starter, None
<1>21. UpInv'
  BY ConstantsOK, Numbers, <1>1, <1>2, <1>3, <1>4, <1>5, <1>6, <1>7 DEF IInv, PlaceInv, UpInv,
     HandInv, Hands, Forgets, Turns, Quits, Holds, Of, Rt, Starter, None
<1>22. KnowInv'
  BY ConstantsOK, Numbers, <1>1, <1>2, <1>3, <1>4, <1>5, <1>6, <1>7 DEF IInv, NewInv, KnowInv,
     Knows, Waiting, Blank, Forgets, Turns, Quits, Holds, Of, Rt, Starter, None
<1>23. \A d \in Callers : Dooms(d) => Dooms(d)'
  BY ConstantsOK, Numbers, <1>1, <1>2, <1>3, <1>4, <1>5, <1>6, <1>7 DEF IInv, PlaceInv, Dooms,
     Placed, Forgets, Turns, Quits, Holds, Of, Rt, Starter, None
<1>24. Good => RecordInv'
  BY ConstantsOK, Numbers, <1>1, <1>2, <1>3, <1>4, <1>5, <1>6, <1>7 DEF IInv, PlaceInv, LockInv,
     RecordInv, Good, GoodRec, GoodLate, GoodAsk, GoodCall, Dooms, Busy, Asks, Forgets, Turns,
     Quits, Holds, Of, Rt, Starter, None
<1>25. RecordInv'
  BY <1>23, <1>24 DEF IInv, RecordInv
<1>26. \A i \in States : Over(i) => Over(i)'
  BY ConstantsOK, Numbers, <1>1, <1>2, <1>3, <1>4, <1>5, <1>6, <1>7 DEF IInv, PlaceInv, NewInv,
     HandInv, AgeInv, OwnInv, OneStarter, Over, Waiting, Blank, Knows, Placed, Forgets, Turns,
     Quits, Holds, Of, Rt, Starter, None
<1>27. SureInv'
  BY ConstantsOK, Numbers, <1>1, <1>2, <1>3, <1>4, <1>5, <1>6, <1>7, <1>26 DEF IInv, SureInv,
     NewInv, Typed, Waiting, Blank, Forgets, Turns, Quits, Holds, Of, Rt, Starter, None
<1>28. ConfirmedInv'
  BY ConstantsOK, Numbers, <1>1, <1>2, <1>3, <1>4, <1>5, <1>6, <1>7, <1>26 DEF IInv, PlaceInv,
     ConfirmedInv, Confirmed, Placed, Forgets, Turns, Quits, Holds, Of, Rt, Starter, None
<1> QED BY <1>8, <1>9, <1>10, <1>11, <1>12, <1>13, <1>14, <1>15, <1>16, <1>17, <1>18, <1>19,
           <1>20, <1>21, <1>22, <1>25, <1>27, <1>28 DEF IInv

(* The session has begun to close meanwhile: no runtime is opened.          *)
LEMMA ReopenLateKeeps ==
    ASSUME ConstantsOK, IInv, NEW c \in Callers, Reopen(c), session # "open"
    PROVE  IInv'
<1>1. /\ at[c] = "reopen" /\ runtime = None /\ Rt(c) \in Workers /\ Rt(c) < MaxWorkers
         /\ \A d \in Callers : Rt(d) <= Rt(c)
  BY DEF Reopen, HandInv, Hands, AgeInv, IInv, PlaceInv, Placed, At, Starter, Requests
<1>2. /\ UNCHANGED <<session, runtime, lock, cur, made, active, file, sure, worker>>
  BY <1>1 DEF Reopen
<1>3. /\ at' \in [Callers -> Places] /\ call' \in [Callers -> Calling]
      /\ Quits(c)
  BY Quitting, Moving DEF Places, Ops, Reopen
<1>4. Typed'
  BY ConstantsOK, Numbers, <1>1, <1>2, <1>3 DEF IInv, Typed, PlaceInv, Calling, Places, Ops,
     States, Workers, Debugger, Placed, Files, Turns, Quits, Of, Rt, Starter, None
<1>5. PlaceInv'
  BY ConstantsOK, Numbers, <1>1, <1>2, <1>3 DEF IInv, PlaceInv, Placed, Calling, Requests, Turns,
     Quits, Of, Rt, Starter, None
<1>6. LockInv'
  BY ConstantsOK, Numbers, <1>1, <1>2, <1>3 DEF IInv, PlaceInv, LockInv, Placed, ConstantsOK,
     Turns, Quits, Of, Rt, Starter, None
<1>7. UnusedInv'
  BY ConstantsOK, Numbers, <1>1, <1>2, <1>3 DEF IInv, PlaceInv, UnusedInv, Knows, Placed, Turns,
     Quits, Of, Rt, Starter, None
<1>8. NewInv'
  BY ConstantsOK, Numbers, <1>1, <1>2, <1>3 DEF IInv, PlaceInv, UnusedInv, NewInv, OneStarter,
     OwnInv, Waiting, Blank, Knows, Turns, Quits, Of, Rt, Starter, None
<1>9. OwnInv'
  BY ConstantsOK, Numbers, <1>1, <1>2, <1>3 DEF IInv, PlaceInv, OwnInv, Placed, Turns, Quits, Of,
     Rt, Starter, None
<1>10. StopInv'
  BY ConstantsOK, Numbers, <1>1, <1>2, <1>3 DEF IInv, PlaceInv, StopInv, NewInv, LockInv,
     OneStarter, Knows, Waiting, Blank, Placed, Turns, Quits, Of, Rt, Starter, None
<1>11. OneStarter'
  BY ConstantsOK, Numbers, <1>1, <1>2, <1>3 DEF IInv, PlaceInv, OneStarter, OwnInv, Waiting,
     Placed, Turns, Quits, Of, Rt, Starter, None
<1>12. HandInv'
  BY ConstantsOK, Numbers, <1>1, <1>2, <1>3 DEF IInv, HandInv, Hands, Turns, Quits, Of, Rt,
     Starter, None
<1>13. AgeInv'
  BY ConstantsOK, Numbers, <1>1, <1>2, <1>3 DEF IInv, AgeInv, HandInv, Hands, Turns, Quits, Of,
     Rt, Starter, None
<1>14. ClosingInv'
  BY ConstantsOK, Numbers, <1>1, <1>2, <1>3 DEF IInv, ClosingInv, Turns, Quits, Of, Rt, Starter,
     None
<1>15. DeadInv'
  BY ConstantsOK, Numbers, <1>1, <1>2, <1>3 DEF IInv, DeadInv, Turns, Quits, Of, Rt, Starter, None
<1>16. PathInv'
  BY ConstantsOK, Numbers, <1>1, <1>2, <1>3 DEF IInv, PathInv, Turns, Quits, Of, Rt, Starter, None
<1>17. UpInv'
  BY ConstantsOK, Numbers, <1>1, <1>2, <1>3 DEF IInv, PlaceInv, UpInv, HandInv, Hands, Turns,
     Quits, Of, Rt, Starter, None
<1>18. KnowInv'
  BY ConstantsOK, Numbers, <1>1, <1>2, <1>3 DEF IInv, NewInv, KnowInv, Knows, Waiting, Blank,
     Turns, Quits, Of, Rt, Starter, None
<1>19. Good'
  BY <1>1, <1>2, <1>3 DEF Good
<1>20. TRUE
  OBVIOUS
<1>21. RecordInv'
  BY <1>19 DEF RecordInv
<1>22. \A i \in States : Over(i) => Over(i)'
  BY ConstantsOK, Numbers, <1>1, <1>2, <1>3 DEF IInv, PlaceInv, NewInv, HandInv, AgeInv, OwnInv,
     OneStarter, Over, Waiting, Blank, Knows, Placed, Turns, Quits, Of, Rt, Starter, None
<1>23. SureInv'
  BY ConstantsOK, Numbers, <1>1, <1>2, <1>3, <1>22 DEF IInv, SureInv, NewInv, Typed, Waiting,
     Blank, Turns, Quits, Of, Rt, Starter, None
<1>24. ConfirmedInv'
  BY ConstantsOK, Numbers, <1>1, <1>2, <1>3, <1>22 DEF IInv, PlaceInv, ConfirmedInv, Confirmed,
     Placed, Turns, Quits, Of, Rt, Starter, None
<1> QED BY <1>4, <1>5, <1>6, <1>7, <1>8, <1>9, <1>10, <1>11, <1>12, <1>13, <1>14, <1>15, <1>16,
           <1>17, <1>18, <1>21, <1>23, <1>24 DEF IInv

(* The session is closed.                                                   *)
LEMMA ClearKeeps ==
    ASSUME ConstantsOK, IInv, NEW c \in Callers, Clear(c)
    PROVE  IInv'
<1>1. /\ at[c] = "clear" /\ runtime = None
      /\ UNCHANGED <<runtime, lock, made, active, file, sure, worker>>
      /\ cur' = None /\ session' = "closed"
  BY DEF Clear, ClosingInv, IInv, PlaceInv, Placed, At, Starter, Requests
<1>2. /\ at' \in [Callers -> Places] /\ call' \in [Callers -> Calling]
      /\ Quits(c)
  BY Quitting, Moving DEF Places, Ops, Clear
<1>3. Typed'
  BY ConstantsOK, Numbers, <1>1, <1>2 DEF IInv, Typed, PlaceInv, Calling, Places, Ops, States,
     Workers, Debugger, Placed, Files, Turns, Quits, Of, Rt, Starter, None
<1>4. PlaceInv'
  BY ConstantsOK, Numbers, <1>1, <1>2 DEF IInv, PlaceInv, Placed, Calling, Requests, Turns, Quits,
     Of, Rt, Starter, None
<1>5. LockInv'
  BY ConstantsOK, Numbers, <1>1, <1>2 DEF IInv, PlaceInv, LockInv, Placed, ConstantsOK, Turns,
     Quits, Of, Rt, Starter, None
<1>6. UnusedInv'
  BY ConstantsOK, Numbers, <1>1, <1>2 DEF IInv, PlaceInv, UnusedInv, Knows, Placed, Turns, Quits,
     Of, Rt, Starter, None
<1>7. NewInv'
  BY ConstantsOK, Numbers, <1>1, <1>2 DEF IInv, PlaceInv, UnusedInv, NewInv, OneStarter, OwnInv,
     Waiting, Blank, Knows, Turns, Quits, Of, Rt, Starter, None
<1>8. OwnInv'
  BY ConstantsOK, Numbers, <1>1, <1>2 DEF IInv, PlaceInv, OwnInv, Placed, Turns, Quits, Of, Rt,
     Starter, None
<1>9. StopInv'
  BY ConstantsOK, Numbers, <1>1, <1>2 DEF IInv, PlaceInv, StopInv, NewInv, LockInv, OneStarter,
     Knows, Waiting, Blank, Placed, Turns, Quits, Of, Rt, Starter, None
<1>10. OneStarter'
  BY ConstantsOK, Numbers, <1>1, <1>2 DEF IInv, PlaceInv, OneStarter, OwnInv, Waiting, Placed,
     Turns, Quits, Of, Rt, Starter, None
<1>11. HandInv'
  BY ConstantsOK, Numbers, <1>1, <1>2 DEF IInv, HandInv, Hands, Turns, Quits, Of, Rt, Starter, None
<1>12. AgeInv'
  BY ConstantsOK, Numbers, <1>1, <1>2 DEF IInv, AgeInv, HandInv, Hands, Turns, Quits, Of, Rt,
     Starter, None
<1>13. ClosingInv'
  BY ConstantsOK, Numbers, <1>1, <1>2 DEF IInv, ClosingInv, Turns, Quits, Of, Rt, Starter, None
<1>14. DeadInv'
  BY ConstantsOK, Numbers, <1>1, <1>2 DEF IInv, DeadInv, Turns, Quits, Of, Rt, Starter, None
<1>15. PathInv'
  BY ConstantsOK, Numbers, <1>1, <1>2 DEF IInv, PathInv, Turns, Quits, Of, Rt, Starter, None
<1>16. UpInv'
  BY ConstantsOK, Numbers, <1>1, <1>2 DEF IInv, PlaceInv, UpInv, HandInv, Hands, Turns, Quits, Of,
     Rt, Starter, None
<1>17. KnowInv'
  BY ConstantsOK, Numbers, <1>1, <1>2 DEF IInv, NewInv, KnowInv, Knows, Waiting, Blank, Turns,
     Quits, Of, Rt, Starter, None
<1>18. Good'
  BY <1>1, <1>2 DEF Good
<1>19. TRUE
  OBVIOUS
<1>20. RecordInv'
  BY <1>18 DEF RecordInv
<1>21. \A i \in States : Over(i) => Over(i)'
  BY ConstantsOK, Numbers, <1>1, <1>2 DEF IInv, PlaceInv, NewInv, HandInv, AgeInv, OwnInv,
     OneStarter, Over, Waiting, Blank, Knows, Placed, Turns, Quits, Of, Rt, Starter, None
<1>22. SureInv'
  BY ConstantsOK, Numbers, <1>1, <1>2, <1>21 DEF IInv, SureInv, NewInv, Typed, Waiting, Blank,
     Turns, Quits, Of, Rt, Starter, None
<1>23. ConfirmedInv'
  BY ConstantsOK, Numbers, <1>1, <1>2, <1>21 DEF IInv, PlaceInv, ConfirmedInv, Confirmed, Placed,
     Turns, Quits, Of, Rt, Starter, None
<1> QED BY <1>3, <1>4, <1>5, <1>6, <1>7, <1>8, <1>9, <1>10, <1>11, <1>12, <1>13, <1>14, <1>15,
           <1>16, <1>17, <1>20, <1>22, <1>23 DEF IInv

(* A runtime is discarded, to be opened again.                              *)
LEMMA DiscardKeeps ==
    ASSUME ConstantsOK, IInv, NEW c \in Callers, Discard(c)
    PROVE  IInv'
<1>1. /\ at[c] = "idle" /\ runtime \in Workers /\ runtime # None /\ runtime < MaxWorkers
         /\ ~worker[runtime].up
      /\ UNCHANGED <<session, lock, cur, made, active, file, sure, worker>>
      /\ runtime' = None
  BY Numbers DEF Discard, At, None, Starter
<1>2. /\ GoTo(c, "discard") /\ call' = [call EXCEPT ![c].op = "discard", ![c].rt = runtime]
      /\ "discard" \in Ops /\ "discard" \in Places /\ runtime \in 0..MaxWorkers
  BY <1>1, Numbers DEF Ops, Places, Discard
<1>3. /\ at' \in [Callers -> Places] /\ call' \in [Callers -> Calling]
      /\ Turns(c, "discard", "discard", Of(c), runtime, call[c].fatal, call[c].safe)
  BY <1>2, Moving
<1>4. Typed'
  BY ConstantsOK, Numbers, <1>1, <1>2, <1>3 DEF IInv, Typed, PlaceInv, Calling, Places, Ops,
     States, Workers, Debugger, Placed, Files, Turns, Of, Rt, Starter, None
<1>5. PlaceInv'
  BY ConstantsOK, Numbers, <1>1, <1>2, <1>3 DEF IInv, PlaceInv, Placed, Calling, Requests, Turns,
     Of, Rt, Starter, None
<1>6. LockInv'
  BY ConstantsOK, Numbers, <1>1, <1>2, <1>3 DEF IInv, PlaceInv, LockInv, Placed, ConstantsOK,
     Turns, Of, Rt, Starter, None
<1>7. UnusedInv'
  BY ConstantsOK, Numbers, <1>1, <1>2, <1>3 DEF IInv, PlaceInv, UnusedInv, Knows, Placed, Turns,
     Of, Rt, Starter, None
<1>8. NewInv'
  BY ConstantsOK, Numbers, <1>1, <1>2, <1>3 DEF IInv, PlaceInv, UnusedInv, NewInv, OneStarter,
     OwnInv, Waiting, Blank, Knows, Turns, Of, Rt, Starter, None
<1>9. OwnInv'
  BY ConstantsOK, Numbers, <1>1, <1>2, <1>3 DEF IInv, PlaceInv, OwnInv, Placed, Turns, Of, Rt,
     Starter, None
<1>10. StopInv'
  BY ConstantsOK, Numbers, <1>1, <1>2, <1>3 DEF IInv, PlaceInv, StopInv, NewInv, LockInv,
     OneStarter, Knows, Waiting, Blank, Placed, Turns, Of, Rt, Starter, None
<1>11. OneStarter'
  BY ConstantsOK, Numbers, <1>1, <1>2, <1>3 DEF IInv, PlaceInv, OneStarter, OwnInv, Waiting,
     Placed, Turns, Of, Rt, Starter, None
<1>12. HandInv'
  BY ConstantsOK, Numbers, <1>1, <1>2, <1>3 DEF IInv, HandInv, Hands, Turns, Of, Rt, Starter, None
<1>13. AgeInv'
  BY ConstantsOK, Numbers, <1>1, <1>2, <1>3 DEF IInv, AgeInv, HandInv, Hands, Turns, Of, Rt,
     Starter, None
<1>14. ClosingInv'
  BY ConstantsOK, Numbers, <1>1, <1>2, <1>3 DEF IInv, ClosingInv, Turns, Of, Rt, Starter, None
<1>15. DeadInv'
  BY ConstantsOK, Numbers, <1>1, <1>2, <1>3 DEF IInv, DeadInv, Turns, Of, Rt, Starter, None
<1>16. PathInv'
  BY ConstantsOK, Numbers, <1>1, <1>2, <1>3 DEF IInv, PathInv, Turns, Of, Rt, Starter, None
<1>17. UpInv'
  BY ConstantsOK, Numbers, <1>1, <1>2, <1>3 DEF IInv, PlaceInv, UpInv, HandInv, Hands, Turns, Of,
     Rt, Starter, None
<1>18. KnowInv'
  BY ConstantsOK, Numbers, <1>1, <1>2, <1>3 DEF IInv, NewInv, KnowInv, Knows, Waiting, Blank,
     Turns, Of, Rt, Starter, None
<1>19. Good'
  BY <1>1, <1>2, <1>3 DEF Good
<1>20. TRUE
  OBVIOUS
<1>21. RecordInv'
  BY <1>19 DEF RecordInv
<1>22. \A i \in States : Over(i) => Over(i)'
  BY ConstantsOK, Numbers, <1>1, <1>2, <1>3 DEF IInv, PlaceInv, NewInv, HandInv, AgeInv, OwnInv,
     OneStarter, Over, Waiting, Blank, Knows, Placed, Turns, Of, Rt, Starter, None
<1>23. SureInv'
  BY ConstantsOK, Numbers, <1>1, <1>2, <1>3, <1>22 DEF IInv, SureInv, NewInv, Typed, Waiting,
     Blank, Turns, Of, Rt, Starter, None
<1>24. ConfirmedInv'
  BY ConstantsOK, Numbers, <1>1, <1>2, <1>3, <1>22 DEF IInv, PlaceInv, ConfirmedInv, Confirmed,
     Placed, Turns, Of, Rt, Starter, None
<1> QED BY <1>4, <1>5, <1>6, <1>7, <1>8, <1>9, <1>10, <1>11, <1>12, <1>13, <1>14, <1>15, <1>16,
           <1>17, <1>18, <1>21, <1>23, <1>24 DEF IInv

(* A close takes the runtime of the session.                                *)
LEMMA CloseTakesKeeps ==
    ASSUME ConstantsOK, IInv, NEW c \in Callers, Close(c), runtime # None
    PROVE  IInv'
<1>1. /\ at[c] = "idle"
      /\ UNCHANGED <<lock, cur, made, active, file, sure, worker>>
      /\ runtime' = None /\ session' = "closing" /\ runtime \in Workers /\ runtime # None
  BY Numbers DEF Close, At, None, Starter
<1>2. /\ GoTo(c, "close") /\ call' = [call EXCEPT ![c].op = "close", ![c].rt = runtime]
      /\ "close" \in Ops /\ "close" \in Places /\ runtime \in 0..MaxWorkers
  BY <1>1, Numbers DEF Ops, Places, Close
<1>3. /\ at' \in [Callers -> Places] /\ call' \in [Callers -> Calling]
      /\ Turns(c, "close", "close", Of(c), runtime, call[c].fatal, call[c].safe)
  BY <1>2, Moving
<1>4. Typed'
  BY ConstantsOK, Numbers, <1>1, <1>2, <1>3 DEF IInv, Typed, PlaceInv, Calling, Places, Ops,
     States, Workers, Debugger, Placed, Files, Turns, Of, Rt, Starter, None
<1>5. PlaceInv'
  BY ConstantsOK, Numbers, <1>1, <1>2, <1>3 DEF IInv, PlaceInv, Placed, Calling, Requests, Turns,
     Of, Rt, Starter, None
<1>6. LockInv'
  BY ConstantsOK, Numbers, <1>1, <1>2, <1>3 DEF IInv, PlaceInv, LockInv, Placed, ConstantsOK,
     Turns, Of, Rt, Starter, None
<1>7. UnusedInv'
  BY ConstantsOK, Numbers, <1>1, <1>2, <1>3 DEF IInv, PlaceInv, UnusedInv, Knows, Placed, Turns,
     Of, Rt, Starter, None
<1>8. NewInv'
  BY ConstantsOK, Numbers, <1>1, <1>2, <1>3 DEF IInv, PlaceInv, UnusedInv, NewInv, OneStarter,
     OwnInv, Waiting, Blank, Knows, Turns, Of, Rt, Starter, None
<1>9. OwnInv'
  BY ConstantsOK, Numbers, <1>1, <1>2, <1>3 DEF IInv, PlaceInv, OwnInv, Placed, Turns, Of, Rt,
     Starter, None
<1>10. StopInv'
  BY ConstantsOK, Numbers, <1>1, <1>2, <1>3 DEF IInv, PlaceInv, StopInv, NewInv, LockInv,
     OneStarter, Knows, Waiting, Blank, Placed, Turns, Of, Rt, Starter, None
<1>11. OneStarter'
  BY ConstantsOK, Numbers, <1>1, <1>2, <1>3 DEF IInv, PlaceInv, OneStarter, OwnInv, Waiting,
     Placed, Turns, Of, Rt, Starter, None
<1>12. HandInv'
  BY ConstantsOK, Numbers, <1>1, <1>2, <1>3 DEF IInv, HandInv, Hands, Turns, Of, Rt, Starter, None
<1>13. AgeInv'
  BY ConstantsOK, Numbers, <1>1, <1>2, <1>3 DEF IInv, AgeInv, HandInv, Hands, Turns, Of, Rt,
     Starter, None
<1>14. ClosingInv'
  BY ConstantsOK, Numbers, <1>1, <1>2, <1>3 DEF IInv, ClosingInv, Turns, Of, Rt, Starter, None
<1>15. DeadInv'
  BY ConstantsOK, Numbers, <1>1, <1>2, <1>3 DEF IInv, DeadInv, Turns, Of, Rt, Starter, None
<1>16. PathInv'
  BY ConstantsOK, Numbers, <1>1, <1>2, <1>3 DEF IInv, PathInv, Turns, Of, Rt, Starter, None
<1>17. UpInv'
  BY ConstantsOK, Numbers, <1>1, <1>2, <1>3 DEF IInv, PlaceInv, UpInv, HandInv, Hands, Turns, Of,
     Rt, Starter, None
<1>18. KnowInv'
  BY ConstantsOK, Numbers, <1>1, <1>2, <1>3 DEF IInv, NewInv, KnowInv, Knows, Waiting, Blank,
     Turns, Of, Rt, Starter, None
<1>19. Good'
  BY <1>1, <1>2, <1>3 DEF Good
<1>20. TRUE
  OBVIOUS
<1>21. RecordInv'
  BY <1>19 DEF RecordInv
<1>22. \A i \in States : Over(i) => Over(i)'
  BY ConstantsOK, Numbers, <1>1, <1>2, <1>3 DEF IInv, PlaceInv, NewInv, HandInv, AgeInv, OwnInv,
     OneStarter, Over, Waiting, Blank, Knows, Placed, Turns, Of, Rt, Starter, None
<1>23. SureInv'
  BY ConstantsOK, Numbers, <1>1, <1>2, <1>3, <1>22 DEF IInv, SureInv, NewInv, Typed, Waiting,
     Blank, Turns, Of, Rt, Starter, None
<1>24. ConfirmedInv'
  BY ConstantsOK, Numbers, <1>1, <1>2, <1>3, <1>22 DEF IInv, PlaceInv, ConfirmedInv, Confirmed,
     Placed, Turns, Of, Rt, Starter, None
<1> QED BY <1>4, <1>5, <1>6, <1>7, <1>8, <1>9, <1>10, <1>11, <1>12, <1>13, <1>14, <1>15, <1>16,
           <1>17, <1>18, <1>21, <1>23, <1>24 DEF IInv

(* A close finds no runtime.                                                *)
LEMMA CloseFindsKeeps ==
    ASSUME ConstantsOK, IInv, NEW c \in Callers, Close(c), runtime = None
    PROVE  IInv'
<1>1. /\ at[c] = "idle"
      /\ UNCHANGED <<lock, cur, made, active, file, sure, worker>>
      /\ runtime' = None /\ session' = "closing" /\ runtime = None
  BY Numbers DEF Close, At, None, Starter
<1>2. /\ GoTo(c, "clear") /\ call' = [call EXCEPT ![c].op = "close", ![c].rt = runtime]
      /\ "close" \in Ops /\ "clear" \in Places /\ runtime \in 0..MaxWorkers
  BY <1>1, Numbers DEF Ops, Places, Close
<1>3. /\ at' \in [Callers -> Places] /\ call' \in [Callers -> Calling]
      /\ Turns(c, "clear", "close", Of(c), runtime, call[c].fatal, call[c].safe)
  BY <1>2, Moving
<1>4. Typed'
  BY ConstantsOK, Numbers, <1>1, <1>2, <1>3 DEF IInv, Typed, PlaceInv, Calling, Places, Ops,
     States, Workers, Debugger, Placed, Files, Turns, Of, Rt, Starter, None
<1>5. PlaceInv'
  BY ConstantsOK, Numbers, <1>1, <1>2, <1>3 DEF IInv, PlaceInv, Placed, Calling, Requests, Turns,
     Of, Rt, Starter, None
<1>6. LockInv'
  BY ConstantsOK, Numbers, <1>1, <1>2, <1>3 DEF IInv, PlaceInv, LockInv, Placed, ConstantsOK,
     Turns, Of, Rt, Starter, None
<1>7. UnusedInv'
  BY ConstantsOK, Numbers, <1>1, <1>2, <1>3 DEF IInv, PlaceInv, UnusedInv, Knows, Placed, Turns,
     Of, Rt, Starter, None
<1>8. NewInv'
  BY ConstantsOK, Numbers, <1>1, <1>2, <1>3 DEF IInv, PlaceInv, UnusedInv, NewInv, OneStarter,
     OwnInv, Waiting, Blank, Knows, Turns, Of, Rt, Starter, None
<1>9. OwnInv'
  BY ConstantsOK, Numbers, <1>1, <1>2, <1>3 DEF IInv, PlaceInv, OwnInv, Placed, Turns, Of, Rt,
     Starter, None
<1>10. StopInv'
  BY ConstantsOK, Numbers, <1>1, <1>2, <1>3 DEF IInv, PlaceInv, StopInv, NewInv, LockInv,
     OneStarter, Knows, Waiting, Blank, Placed, Turns, Of, Rt, Starter, None
<1>11. OneStarter'
  BY ConstantsOK, Numbers, <1>1, <1>2, <1>3 DEF IInv, PlaceInv, OneStarter, OwnInv, Waiting,
     Placed, Turns, Of, Rt, Starter, None
<1>12. HandInv'
  BY ConstantsOK, Numbers, <1>1, <1>2, <1>3 DEF IInv, HandInv, Hands, Turns, Of, Rt, Starter, None
<1>13. AgeInv'
  BY ConstantsOK, Numbers, <1>1, <1>2, <1>3 DEF IInv, AgeInv, HandInv, Hands, Turns, Of, Rt,
     Starter, None
<1>14. ClosingInv'
  BY ConstantsOK, Numbers, <1>1, <1>2, <1>3 DEF IInv, ClosingInv, Turns, Of, Rt, Starter, None
<1>15. DeadInv'
  BY ConstantsOK, Numbers, <1>1, <1>2, <1>3 DEF IInv, DeadInv, Turns, Of, Rt, Starter, None
<1>16. PathInv'
  BY ConstantsOK, Numbers, <1>1, <1>2, <1>3 DEF IInv, PathInv, Turns, Of, Rt, Starter, None
<1>17. UpInv'
  BY ConstantsOK, Numbers, <1>1, <1>2, <1>3 DEF IInv, PlaceInv, UpInv, HandInv, Hands, Turns, Of,
     Rt, Starter, None
<1>18. KnowInv'
  BY ConstantsOK, Numbers, <1>1, <1>2, <1>3 DEF IInv, NewInv, KnowInv, Knows, Waiting, Blank,
     Turns, Of, Rt, Starter, None
<1>19. Good'
  BY <1>1, <1>2, <1>3 DEF Good
<1>20. TRUE
  OBVIOUS
<1>21. RecordInv'
  BY <1>19 DEF RecordInv
<1>22. \A i \in States : Over(i) => Over(i)'
  BY ConstantsOK, Numbers, <1>1, <1>2, <1>3 DEF IInv, PlaceInv, NewInv, HandInv, AgeInv, OwnInv,
     OneStarter, Over, Waiting, Blank, Knows, Placed, Turns, Of, Rt, Starter, None
<1>23. SureInv'
  BY ConstantsOK, Numbers, <1>1, <1>2, <1>3, <1>22 DEF IInv, SureInv, NewInv, Typed, Waiting,
     Blank, Turns, Of, Rt, Starter, None
<1>24. ConfirmedInv'
  BY ConstantsOK, Numbers, <1>1, <1>2, <1>3, <1>22 DEF IInv, PlaceInv, ConfirmedInv, Confirmed,
     Placed, Turns, Of, Rt, Starter, None
<1> QED BY <1>4, <1>5, <1>6, <1>7, <1>8, <1>9, <1>10, <1>11, <1>12, <1>13, <1>14, <1>15, <1>16,
           <1>17, <1>18, <1>21, <1>23, <1>24 DEF IInv

-----------------------------------------------------------------------------
(* Calls that begin, and the debugger's own steps *)

(* A start begins.                                                          *)
LEMMA EnterStartsKeeps ==
    ASSUME ConstantsOK, IInv, NEW c \in Callers, Enter(c, "start")
    PROVE  IInv'
<1>1. /\ at[c] = "idle" /\ runtime # None /\ runtime \in Workers /\ session = "open"
      /\ UNCHANGED <<session, runtime, lock, cur, active, file, sure, worker>>
  BY Numbers DEF Enter, At, Starter
<1>2. /\ made' = made + 1 /\ made' \in States /\ made' \in 0..MaxStarts /\ cur \in 0..made'
         /\ made \in Nat
      /\ call' = [call EXCEPT ![c] = [NoCall EXCEPT !.op = "start", !.rt = runtime, !.of = made + 1]]
      /\ GoTo(c, "lock")
  BY <1>1, ConstantsOK, Numbers DEF ConstantsOK, Enter, States, IInv, Typed
<1>3. /\ Blank(made') /\ made' \notin active /\ made' # cur /\ \A d \in Callers : Of(d) < made'
  BY <1>2, Numbers DEF IInv, Typed, UnusedInv, Blank, PlaceInv, Placed
<1>4. /\ at' \in [Callers -> Places] /\ call' \in [Callers -> Calling]
      /\ Turns(c, "lock", "start", made', runtime, FALSE, TRUE)
  BY <1>1, <1>2, Numbers, Entering DEF Ops
<1>5. Typed'
  BY ConstantsOK, Numbers, <1>1, <1>2, <1>3, <1>4 DEF IInv, Typed, PlaceInv, Calling, Places, Ops,
     States, Workers, Debugger, Placed, Files, Turns, Of, Rt, Starter, None
<1>6. PlaceInv'
  BY ConstantsOK, Numbers, <1>1, <1>2, <1>3, <1>4 DEF IInv, PlaceInv, Placed, Calling, Requests,
     Turns, Of, Rt, Starter, None
<1>7. LockInv'
  BY ConstantsOK, Numbers, <1>1, <1>2, <1>3, <1>4 DEF IInv, PlaceInv, LockInv, Placed,
     ConstantsOK, Turns, Of, Rt, Starter, None
<1>8. UnusedInv'
  <2>1. \A i \in States : i > made' => i > made
    BY <1>2 DEF States
  <2> QED BY <1>1, <1>2, <1>3, <1>4, <2>1 DEF IInv, UnusedInv, Knows
<1>9. NewInv'
  <2> SUFFICES ASSUME NEW d \in Callers, Waiting(d)' PROVE Blank(Of(d))'
    BY DEF NewInv
  <2>1. Blank(Of(d)')
    BY <1>1, <1>2, <1>3, <1>4 DEF IInv, NewInv, Waiting, Starter, Of, Turns
  <2> QED BY <2>1, <1>1, <1>2, <1>3, <1>4 DEF Blank, Knows
<1>10. OwnInv'
  BY ConstantsOK, Numbers, <1>1, <1>2, <1>3, <1>4 DEF IInv, PlaceInv, OwnInv, Placed, Turns, Of,
     Rt, Starter, None
<1>11. StopInv'
  BY ConstantsOK, Numbers, <1>1, <1>2, <1>3, <1>4 DEF IInv, PlaceInv, StopInv, NewInv, LockInv,
     OneStarter, Knows, Waiting, Blank, Placed, Turns, Of, Rt, Starter, None
<1>12. OneStarter'
  BY ConstantsOK, Numbers, <1>1, <1>2, <1>3, <1>4 DEF IInv, PlaceInv, OneStarter, OwnInv, Waiting,
     Placed, Turns, Of, Rt, Starter, None
<1>13. HandInv'
  BY ConstantsOK, Numbers, <1>1, <1>2, <1>3, <1>4 DEF IInv, HandInv, Hands, Turns, Of, Rt,
     Starter, None
<1>14. AgeInv'
  BY ConstantsOK, Numbers, <1>1, <1>2, <1>3, <1>4 DEF IInv, AgeInv, HandInv, Hands, Turns, Of, Rt,
     Starter, None
<1>15. ClosingInv'
  BY ConstantsOK, Numbers, <1>1, <1>2, <1>3, <1>4 DEF IInv, ClosingInv, Turns, Of, Rt, Starter, None
<1>16. DeadInv'
  BY ConstantsOK, Numbers, <1>1, <1>2, <1>3, <1>4 DEF IInv, DeadInv, Turns, Of, Rt, Starter, None
<1>17. PathInv'
  BY ConstantsOK, Numbers, <1>1, <1>2, <1>3, <1>4 DEF IInv, PathInv, Turns, Of, Rt, Starter, None
<1>18. UpInv'
  BY ConstantsOK, Numbers, <1>1, <1>2, <1>3, <1>4 DEF IInv, PlaceInv, UpInv, HandInv, Hands,
     Turns, Of, Rt, Starter, None
<1>19. KnowInv'
  BY ConstantsOK, Numbers, <1>1, <1>2, <1>3, <1>4 DEF IInv, NewInv, KnowInv, Knows, Waiting,
     Blank, Turns, Of, Rt, Starter, None
<1>20. \A d \in Callers : Dooms(d) => Dooms(d)'
  BY ConstantsOK, Numbers, <1>1, <1>2, <1>3, <1>4 DEF IInv, PlaceInv, Dooms, Placed, Turns, Of,
     Rt, Starter, None
<1>21. Good => RecordInv'
  BY ConstantsOK, Numbers, <1>1, <1>2, <1>3, <1>4 DEF IInv, PlaceInv, LockInv, RecordInv, Good,
     GoodRec, GoodLate, GoodAsk, GoodCall, Dooms, Busy, Asks, Turns, Of, Rt, Starter, None
<1>22. RecordInv'
  BY <1>20, <1>21 DEF IInv, RecordInv
<1>23. \A i \in States : i # made' /\ Over(i) => Over(i)'
  BY ConstantsOK, Numbers, <1>1, <1>2, <1>3, <1>4 DEF IInv, PlaceInv, NewInv, HandInv, AgeInv,
     OwnInv, OneStarter, Over, Waiting, Blank, Knows, Placed, Turns, Of, Rt, Starter, None
<1>24. SureInv'
  BY ConstantsOK, Numbers, <1>1, <1>2, <1>3, <1>4, <1>23 DEF IInv, SureInv, NewInv, Typed,
     Waiting, Blank, Turns, Of, Rt, Starter, None, UnusedInv
<1>25. ConfirmedInv'
  BY ConstantsOK, Numbers, <1>1, <1>2, <1>3, <1>4, <1>23 DEF IInv, PlaceInv, ConfirmedInv,
     Confirmed, Placed, Turns, Of, Rt, Starter, None
<1> QED BY <1>5, <1>6, <1>7, <1>8, <1>9, <1>10, <1>11, <1>12, <1>13, <1>14, <1>15, <1>16, <1>17,
           <1>18, <1>19, <1>22, <1>24, <1>25 DEF IInv

(* A stop or a question begins.                                             *)
LEMMA EnterAsksKeeps ==
    ASSUME ConstantsOK, IInv, NEW c \in Callers, NEW op \in {"stop", "status"}, Enter(c, op)
    PROVE  IInv'
<1>1. /\ at[c] = "idle" /\ runtime # None /\ runtime \in Workers /\ session = "open"
      /\ UNCHANGED <<session, runtime, lock, cur, active, file, sure, worker>>
  BY Numbers DEF Enter, At, Starter
<1>2. /\ op # "start" /\ op \in Ops /\ cur \in 0..MaxStarts /\ made \in Nat
  BY ConstantsOK, Numbers DEF ConstantsOK, Ops, IInv, Typed
<1>3. /\ UNCHANGED made
      /\ GoTo(c, "lock")
  BY <1>2 DEF Enter
<1>4. /\ call' = [call EXCEPT ![c] = [NoCall EXCEPT !.op = op, !.rt = runtime, !.of = cur]]
  BY <1>2 DEF Enter
<1>5. /\ at' \in [Callers -> Places] /\ call' \in [Callers -> Calling]
      /\ Turns(c, "lock", op, cur, runtime, FALSE, TRUE)
  BY <1>1, <1>2, <1>3, <1>4, Numbers, Entering
<1>6. Typed'
  BY ConstantsOK, Numbers, <1>1, <1>2, <1>3, <1>4, <1>5 DEF IInv, Typed, PlaceInv, Calling,
     Places, Ops, States, Workers, Debugger, Placed, Files, Turns, Of, Rt, Starter, None
<1>7. PlaceInv'
  <2>1. Placed(c)'
    BY <1>1, <1>2, <1>3, <1>4, <1>5, Numbers DEF IInv, Typed, PlaceInv, Placed, Starter, Turns,
       Of, Rt, Requests
  <2>2. ASSUME NEW d \in Callers, d # c PROVE Placed(d)'
    BY <1>1, <1>2, <1>3, <1>4, <1>5, <2>2 DEF IInv, PlaceInv, Placed, Starter, Turns, Of, Rt
  <2> QED BY <2>1, <2>2 DEF PlaceInv
<1>8. LockInv'
  BY ConstantsOK, Numbers, <1>1, <1>2, <1>3, <1>4, <1>5 DEF IInv, PlaceInv, LockInv, Placed,
     ConstantsOK, Turns, Of, Rt, Starter, None
<1>9. UnusedInv'
  BY ConstantsOK, Numbers, <1>1, <1>2, <1>3, <1>4, <1>5 DEF IInv, PlaceInv, UnusedInv, Knows,
     Placed, Turns, Of, Rt, Starter, None
<1>10. NewInv'
  BY ConstantsOK, Numbers, <1>1, <1>2, <1>3, <1>4, <1>5 DEF IInv, PlaceInv, UnusedInv, NewInv,
     OneStarter, OwnInv, Waiting, Blank, Knows, Turns, Of, Rt, Starter, None
<1>11. OwnInv'
  BY ConstantsOK, Numbers, <1>1, <1>2, <1>3, <1>4, <1>5 DEF IInv, PlaceInv, OwnInv, Placed, Turns,
     Of, Rt, Starter, None
<1>12. StopInv'
  BY ConstantsOK, Numbers, <1>1, <1>2, <1>3, <1>4, <1>5 DEF IInv, PlaceInv, StopInv, NewInv,
     LockInv, OneStarter, Knows, Waiting, Blank, Placed, Turns, Of, Rt, Starter, None
<1>13. OneStarter'
  BY ConstantsOK, Numbers, <1>1, <1>2, <1>3, <1>4, <1>5 DEF IInv, PlaceInv, OneStarter, OwnInv,
     Waiting, Placed, Turns, Of, Rt, Starter, None
<1>14. HandInv'
  BY ConstantsOK, Numbers, <1>1, <1>2, <1>3, <1>4, <1>5 DEF IInv, HandInv, Hands, Turns, Of, Rt,
     Starter, None
<1>15. AgeInv'
  BY ConstantsOK, Numbers, <1>1, <1>2, <1>3, <1>4, <1>5 DEF IInv, AgeInv, HandInv, Hands, Turns,
     Of, Rt, Starter, None
<1>16. ClosingInv'
  BY ConstantsOK, Numbers, <1>1, <1>2, <1>3, <1>4, <1>5 DEF IInv, ClosingInv, Turns, Of, Rt,
     Starter, None
<1>17. DeadInv'
  BY ConstantsOK, Numbers, <1>1, <1>2, <1>3, <1>4, <1>5 DEF IInv, DeadInv, Turns, Of, Rt, Starter,
     None
<1>18. PathInv'
  BY ConstantsOK, Numbers, <1>1, <1>2, <1>3, <1>4, <1>5 DEF IInv, PathInv, Turns, Of, Rt, Starter,
     None
<1>19. UpInv'
  BY ConstantsOK, Numbers, <1>1, <1>2, <1>3, <1>4, <1>5 DEF IInv, PlaceInv, UpInv, HandInv, Hands,
     Turns, Of, Rt, Starter, None
<1>20. KnowInv'
  BY ConstantsOK, Numbers, <1>1, <1>2, <1>3, <1>4, <1>5 DEF IInv, NewInv, KnowInv, Knows, Waiting,
     Blank, Turns, Of, Rt, Starter, None
<1>21. \A d \in Callers : Dooms(d) => Dooms(d)'
  BY ConstantsOK, Numbers, <1>1, <1>2, <1>3, <1>4, <1>5 DEF IInv, PlaceInv, Dooms, Placed, Turns,
     Of, Rt, Starter, None
<1>22. Good => RecordInv'
  BY ConstantsOK, Numbers, <1>1, <1>2, <1>3, <1>4, <1>5 DEF IInv, PlaceInv, LockInv, RecordInv,
     Good, GoodRec, GoodLate, GoodAsk, GoodCall, Dooms, Busy, Asks, Turns, Of, Rt, Starter, None
<1>23. RecordInv'
  BY <1>21, <1>22 DEF IInv, RecordInv
<1>24. \A i \in States : Over(i) => Over(i)'
  BY ConstantsOK, Numbers, <1>1, <1>2, <1>3, <1>4, <1>5 DEF IInv, PlaceInv, NewInv, HandInv,
     AgeInv, OwnInv, OneStarter, Over, Waiting, Blank, Knows, Placed, Turns, Of, Rt, Starter, None
<1>25. SureInv'
  BY ConstantsOK, Numbers, <1>1, <1>2, <1>3, <1>4, <1>5, <1>24 DEF IInv, SureInv, NewInv, Typed,
     Waiting, Blank, Turns, Of, Rt, Starter, None
<1>26. ConfirmedInv'
  BY ConstantsOK, Numbers, <1>1, <1>2, <1>3, <1>4, <1>5, <1>24 DEF IInv, PlaceInv, ConfirmedInv,
     Confirmed, Placed, Turns, Of, Rt, Starter, None
<1> QED BY <1>6, <1>7, <1>8, <1>9, <1>10, <1>11, <1>12, <1>13, <1>14, <1>15, <1>16, <1>17, <1>18,
           <1>19, <1>20, <1>23, <1>25, <1>26 DEF IInv

(* A debugger writes what it records to the file.                           *)
LEMMA WritesKeeps ==
    ASSUME ConstantsOK, IInv, NEW w \in Workers, Writes(w)
    PROVE  IInv'
<1>1. /\ worker[w].rec \in States /\ file[worker[w].rec] = "registered"
      /\ UNCHANGED <<at, call, session, runtime, lock, cur, made, active, sure>>
      /\ UNCHANGED worker
      /\ Files1(worker[w].rec, "stale")
      /\ file' \in [States -> Files]
  BY Workable, Filing DEF Writes, service, Files
<1>2. Typed'
  BY ConstantsOK, Numbers, <1>1 DEF IInv, Typed, PlaceInv, Calling, Places, Ops, States, Workers,
     Debugger, Placed, Files, Files1, Of, Rt, Starter, None
<1>3. PlaceInv'
  BY ConstantsOK, Numbers, <1>1 DEF IInv, PlaceInv, Placed, Calling, Requests, Files1, Of, Rt,
     Starter, None
<1>4. LockInv'
  BY ConstantsOK, Numbers, <1>1 DEF IInv, PlaceInv, LockInv, Placed, ConstantsOK, Files1, Of, Rt,
     Starter, None
<1>5. UnusedInv'
  BY ConstantsOK, Numbers, <1>1 DEF IInv, PlaceInv, UnusedInv, Knows, Placed, Files1, Of, Rt,
     Starter, None
<1>6. NewInv'
  <2> SUFFICES ASSUME NEW d \in Callers, Waiting(d)' PROVE Blank(Of(d))'
    BY DEF NewInv
  <2>1. Waiting(d) /\ Of(d)' = Of(d)
    BY <1>1 DEF Waiting, Starter, Of
  <2>2. Blank(Of(d)) /\ Of(d) \in States
    BY <2>1, Numbers DEF IInv, NewInv, PlaceInv, Placed, Waiting, Starter
  <2> QED BY <2>1, <2>2, <1>1 DEF Blank, Knows, Files1
<1>7. OwnInv'
  BY ConstantsOK, Numbers, <1>1 DEF IInv, PlaceInv, OwnInv, Placed, Files1, Of, Rt, Starter, None
<1>8. StopInv'
  BY ConstantsOK, Numbers, <1>1 DEF IInv, PlaceInv, StopInv, NewInv, LockInv, OneStarter, Knows,
     Waiting, Blank, Placed, Files1, Of, Rt, Starter, None
<1>9. OneStarter'
  BY ConstantsOK, Numbers, <1>1 DEF IInv, PlaceInv, OneStarter, OwnInv, Waiting, Placed, Files1,
     Of, Rt, Starter, None
<1>10. HandInv'
  BY ConstantsOK, Numbers, <1>1 DEF IInv, HandInv, Hands, Files1, Of, Rt, Starter, None
<1>11. AgeInv'
  BY ConstantsOK, Numbers, <1>1 DEF IInv, AgeInv, HandInv, Hands, Files1, Of, Rt, Starter, None
<1>12. ClosingInv'
  BY ConstantsOK, Numbers, <1>1 DEF IInv, ClosingInv, Files1, Of, Rt, Starter, None
<1>13. DeadInv'
  BY ConstantsOK, Numbers, <1>1 DEF IInv, DeadInv, Files1, Of, Rt, Starter, None
<1>14. PathInv'
  BY ConstantsOK, Numbers, <1>1 DEF IInv, PathInv, Files1, Of, Rt, Starter, None
<1>15. UpInv'
  BY ConstantsOK, Numbers, <1>1 DEF IInv, PlaceInv, UpInv, HandInv, Hands, Files1, Of, Rt,
     Starter, None
<1>16. KnowInv'
  BY ConstantsOK, Numbers, <1>1 DEF IInv, NewInv, KnowInv, Knows, Waiting, Blank, Files1, Of, Rt,
     Starter, None
<1>17. \A d \in Callers : Dooms(d) => Dooms(d)'
  BY ConstantsOK, Numbers, <1>1 DEF IInv, PlaceInv, Dooms, Placed, Files1, Of, Rt, Starter, None
<1>18. Good => RecordInv'
  BY ConstantsOK, Numbers, <1>1 DEF IInv, PlaceInv, LockInv, RecordInv, Good, GoodRec, GoodLate,
     GoodAsk, GoodCall, Dooms, Busy, Asks, Files1, Of, Rt, Starter, None
<1>19. RecordInv'
  BY <1>17, <1>18 DEF IInv, RecordInv
<1>20. \A i \in States : Over(i) => Over(i)'
  BY ConstantsOK, Numbers, <1>1 DEF IInv, PlaceInv, NewInv, HandInv, AgeInv, OwnInv, OneStarter,
     Over, Waiting, Blank, Knows, Placed, Files1, Of, Rt, Starter, None
<1>21. SureInv'
  <2> SUFFICES ASSUME NEW i \in sure PROVE file'[i] = "registered" /\ Over(i)'
    BY <1>1 DEF SureInv
  <2>1. file[i] = "registered" /\ Over(i) /\ i \in States
    BY DEF IInv, SureInv, Typed
  <2> QED BY <2>1, <1>20, <1>1 DEF Over, Files1
<1>22. ConfirmedInv'
  BY ConstantsOK, Numbers, <1>1, <1>20 DEF IInv, PlaceInv, ConfirmedInv, Confirmed, Placed,
     Files1, Of, Rt, Starter, None
<1> QED BY <1>2, <1>3, <1>4, <1>5, <1>6, <1>7, <1>8, <1>9, <1>10, <1>11, <1>12, <1>13, <1>14,
           <1>15, <1>16, <1>19, <1>21, <1>22 DEF IInv

(* A debugger stops by itself, with the process it debugs.                  *)
LEMMA StopsItselfKeeps ==
    ASSUME ConstantsOK, IInv, NEW w \in Workers, StopsItself(w)
    PROVE  IInv'
<1>1. /\ UNCHANGED <<at, call, session, runtime, lock, cur, made, active, sure>>
      /\ UNCHANGED file
      /\ Stills(w)
      /\ worker' \in [Workers -> Debugger]
  BY WorkerSteps DEF StopsItself, service
<1>2. /\ Calms
  BY <1>1, Calming
<1>3. Typed'
  BY ConstantsOK, Numbers, <1>1, <1>2 DEF IInv, Typed, PlaceInv, Calling, Places, Ops, States,
     Workers, Debugger, Placed, Files, Stills, Calms, Holds, Of, Rt, Starter, None
<1>4. PlaceInv'
  BY ConstantsOK, Numbers, <1>1, <1>2 DEF IInv, PlaceInv, Placed, Calling, Requests, Stills,
     Calms, Holds, Of, Rt, Starter, None
<1>5. LockInv'
  BY ConstantsOK, Numbers, <1>1, <1>2 DEF IInv, PlaceInv, LockInv, Placed, ConstantsOK, Stills,
     Calms, Holds, Of, Rt, Starter, None
<1>6. UnusedInv'
  BY ConstantsOK, Numbers, <1>1, <1>2 DEF IInv, PlaceInv, UnusedInv, Knows, Placed, Stills, Calms,
     Holds, Of, Rt, Starter, None
<1>7. NewInv'
  <2> SUFFICES ASSUME NEW d \in Callers, Waiting(d)' PROVE Blank(Of(d))'
    BY DEF NewInv
  <2>1. Waiting(d) /\ Of(d)' = Of(d)
    BY <1>1, <1>2 DEF Waiting, Starter, Of, Moves, Quits, Turns
  <2>2. Blank(Of(d)) /\ Of(d) \in States
    BY <2>1, Numbers DEF IInv, NewInv, PlaceInv, Placed, Waiting, Starter
  <2> QED BY <2>1, <2>2, <1>1, <1>2 DEF Blank, Calms
<1>8. OwnInv'
  BY ConstantsOK, Numbers, <1>1, <1>2 DEF IInv, PlaceInv, OwnInv, Placed, Stills, Calms, Holds,
     Of, Rt, Starter, None
<1>9. StopInv'
  BY ConstantsOK, Numbers, <1>1, <1>2 DEF IInv, PlaceInv, StopInv, NewInv, LockInv, OneStarter,
     Knows, Waiting, Blank, Placed, Stills, Calms, Holds, Of, Rt, Starter, None
<1>10. OneStarter'
  BY ConstantsOK, Numbers, <1>1, <1>2 DEF IInv, PlaceInv, OneStarter, OwnInv, Waiting, Placed,
     Stills, Calms, Holds, Of, Rt, Starter, None
<1>11. HandInv'
  BY ConstantsOK, Numbers, <1>1, <1>2 DEF IInv, HandInv, Hands, Stills, Calms, Holds, Of, Rt,
     Starter, None
<1>12. AgeInv'
  BY ConstantsOK, Numbers, <1>1, <1>2 DEF IInv, AgeInv, HandInv, Hands, Stills, Calms, Holds, Of,
     Rt, Starter, None
<1>13. ClosingInv'
  BY ConstantsOK, Numbers, <1>1, <1>2 DEF IInv, ClosingInv, Stills, Calms, Holds, Of, Rt, Starter,
     None
<1>14. DeadInv'
  BY ConstantsOK, Numbers, <1>1, <1>2 DEF IInv, DeadInv, Stills, Calms, Holds, Of, Rt, Starter, None
<1>15. PathInv'
  BY ConstantsOK, Numbers, <1>1, <1>2 DEF IInv, PathInv, Stills, Calms, Holds, Of, Rt, Starter, None
<1>16. UpInv'
  BY ConstantsOK, Numbers, <1>1, <1>2 DEF IInv, PlaceInv, UpInv, HandInv, Hands, Stills, Calms,
     Holds, Of, Rt, Starter, None
<1>17. KnowInv'
  BY ConstantsOK, Numbers, <1>1, <1>2 DEF IInv, NewInv, KnowInv, Knows, Waiting, Blank, Stills,
     Calms, Holds, Of, Rt, Starter, None
<1>18. \A d \in Callers : Dooms(d) => Dooms(d)'
  BY ConstantsOK, Numbers, <1>1, <1>2 DEF IInv, PlaceInv, Dooms, Placed, Stills, Calms, Holds, Of,
     Rt, Starter, None
<1>19. Good => RecordInv'
  BY ConstantsOK, Numbers, <1>1, <1>2 DEF IInv, PlaceInv, LockInv, RecordInv, Good, GoodRec,
     GoodLate, GoodAsk, GoodCall, Dooms, Busy, Asks, Stills, Calms, Holds, Of, Rt, Starter, None
<1>20. RecordInv'
  BY <1>18, <1>19 DEF IInv, RecordInv
<1>21. \A i \in States : Over(i) => Over(i)'
  BY ConstantsOK, Numbers, <1>1, <1>2 DEF IInv, PlaceInv, NewInv, HandInv, AgeInv, OwnInv,
     OneStarter, Over, Waiting, Blank, Knows, Placed, Stills, Calms, Holds, Of, Rt, Starter, None
<1>22. SureInv'
  BY ConstantsOK, Numbers, <1>1, <1>2, <1>21 DEF IInv, SureInv, NewInv, Typed, Waiting, Blank,
     Stills, Calms, Holds, Of, Rt, Starter, None
<1>23. ConfirmedInv'
  BY ConstantsOK, Numbers, <1>1, <1>2, <1>21 DEF IInv, PlaceInv, ConfirmedInv, Confirmed, Placed,
     Stills, Calms, Holds, Of, Rt, Starter, None
<1> QED BY <1>3, <1>4, <1>5, <1>6, <1>7, <1>8, <1>9, <1>10, <1>11, <1>12, <1>13, <1>14, <1>15,
           <1>16, <1>17, <1>20, <1>22, <1>23 DEF IInv

(* A debugger comes to the start that was delayed.                          *)
LEMMA ComesToStartKeeps ==
    ASSUME ConstantsOK, IInv, NEW w \in Workers, ComesToStart(w)
    PROVE  IInv'
<1>1. /\ worker[w].late \in States /\ worker[w].late # None
      /\ UNCHANGED <<at, call, session, runtime, lock, cur, made, active, sure>>
      /\ Starts(w, worker[w].late)
      /\ worker' \in [Workers -> Debugger]
      /\ Files1(worker[w].late, "there")
      /\ file' \in [States -> Files]
  BY Workable, WorkerSteps DEF ComesToStart, service
<1>2. Typed'
  BY ConstantsOK, Numbers, <1>1 DEF IInv, Typed, PlaceInv, Calling, Places, Ops, States, Workers,
     Debugger, Placed, Files, Files1, Starts, Holds, Of, Rt, Starter, None
<1>3. PlaceInv'
  BY ConstantsOK, Numbers, <1>1 DEF IInv, PlaceInv, Placed, Calling, Requests, Files1, Starts,
     Holds, Of, Rt, Starter, None
<1>4. LockInv'
  BY ConstantsOK, Numbers, <1>1 DEF IInv, PlaceInv, LockInv, Placed, ConstantsOK, Files1, Starts,
     Holds, Of, Rt, Starter, None
<1>5. UnusedInv'
  BY ConstantsOK, Numbers, <1>1 DEF IInv, PlaceInv, UnusedInv, Knows, Placed, Files1, Starts,
     Holds, Of, Rt, Starter, None
<1>6. NewInv'
  <2> SUFFICES ASSUME NEW d \in Callers, Waiting(d)' PROVE Blank(Of(d))'
    BY DEF NewInv
  <2>1. Waiting(d) /\ Of(d)' = Of(d)
    BY <1>1 DEF Waiting, Starter, Of
  <2>2. Blank(Of(d)) /\ Of(d) \in States
    BY <2>1, Numbers DEF IInv, NewInv, PlaceInv, Placed, Waiting, Starter
  <2>3. Of(d) # worker[w].late /\ Of(d) # None
    BY <2>2, Numbers DEF Blank, Knows
  <2> QED BY <2>1, <2>2, <2>3, <1>1 DEF Blank, Knows, Files1, Starts, Holds
<1>7. OwnInv'
  BY ConstantsOK, Numbers, <1>1 DEF IInv, PlaceInv, OwnInv, Placed, Files1, Starts, Holds, Of, Rt,
     Starter, None
<1>8. StopInv'
  BY ConstantsOK, Numbers, <1>1 DEF IInv, PlaceInv, StopInv, NewInv, LockInv, OneStarter, Knows,
     Waiting, Blank, Placed, Files1, Starts, Holds, Of, Rt, Starter, None
<1>9. OneStarter'
  BY ConstantsOK, Numbers, <1>1 DEF IInv, PlaceInv, OneStarter, OwnInv, Waiting, Placed, Files1,
     Starts, Holds, Of, Rt, Starter, None
<1>10. HandInv'
  BY ConstantsOK, Numbers, <1>1 DEF IInv, HandInv, Hands, Files1, Starts, Holds, Of, Rt, Starter,
     None
<1>11. AgeInv'
  BY ConstantsOK, Numbers, <1>1 DEF IInv, AgeInv, HandInv, Hands, Files1, Starts, Holds, Of, Rt,
     Starter, None
<1>12. ClosingInv'
  BY ConstantsOK, Numbers, <1>1 DEF IInv, ClosingInv, Files1, Starts, Holds, Of, Rt, Starter, None
<1>13. DeadInv'
  BY ConstantsOK, Numbers, <1>1 DEF IInv, DeadInv, Files1, Starts, Holds, Of, Rt, Starter, None
<1>14. PathInv'
  BY ConstantsOK, Numbers, <1>1 DEF IInv, PathInv, Files1, Starts, Holds, Of, Rt, Starter, None
<1>15. UpInv'
  BY ConstantsOK, Numbers, <1>1 DEF IInv, PlaceInv, UpInv, HandInv, Hands, Files1, Starts, Holds,
     Of, Rt, Starter, None
<1>16. KnowInv'
  BY ConstantsOK, Numbers, <1>1 DEF IInv, NewInv, KnowInv, Knows, Waiting, Blank, Files1, Starts,
     Holds, Of, Rt, Starter, None
<1>17. \A d \in Callers : Dooms(d) => Dooms(d)'
  BY ConstantsOK, Numbers, <1>1 DEF IInv, PlaceInv, Dooms, Placed, Files1, Starts, Holds, Of, Rt,
     Starter, None
<1>18. Good => RecordInv'
  BY ConstantsOK, Numbers, <1>1 DEF IInv, PlaceInv, LockInv, RecordInv, Good, GoodRec, GoodLate,
     GoodAsk, GoodCall, Dooms, Busy, Asks, Files1, Starts, Holds, Of, Rt, Starter, None
<1>19. RecordInv'
  BY <1>17, <1>18 DEF IInv, RecordInv
<1>20. \A i \in States : Over(i) => Over(i)'
  BY ConstantsOK, Numbers, <1>1 DEF IInv, PlaceInv, NewInv, HandInv, AgeInv, OwnInv, OneStarter,
     Over, Waiting, Blank, Knows, Placed, Files1, Starts, Holds, Of, Rt, Starter, None
<1>21. SureInv'
  <2> SUFFICES ASSUME NEW i \in sure PROVE file'[i] = "registered" /\ Over(i)'
    BY <1>1 DEF SureInv
  <2>1. file[i] = "registered" /\ Over(i) /\ i \in States
    BY DEF IInv, SureInv, Typed
  <2> QED BY <2>1, <1>20, <1>1 DEF Over, Files1
<1>22. ConfirmedInv'
  BY ConstantsOK, Numbers, <1>1, <1>20 DEF IInv, PlaceInv, ConfirmedInv, Confirmed, Placed,
     Files1, Starts, Holds, Of, Rt, Starter, None
<1> QED BY <1>2, <1>3, <1>4, <1>5, <1>6, <1>7, <1>8, <1>9, <1>10, <1>11, <1>12, <1>13, <1>14,
           <1>15, <1>16, <1>19, <1>21, <1>22 DEF IInv

(* A debugger dies.                                                         *)
LEMMA DiesKeeps ==
    ASSUME ConstantsOK, IInv, NEW w \in Workers, Dies(w)
    PROVE  IInv'
<1>1. /\ UNCHANGED <<at, call, session, runtime, lock, cur, made, active, sure>>
      /\ UNCHANGED file
      /\ Blanks(w)
      /\ worker' \in [Workers -> Debugger]
  BY WorkerSteps DEF Dies, service
<1>2. /\ Forgets
  BY <1>1, Forgetting DEF Blanks
<1>3. Typed'
  BY ConstantsOK, Numbers, <1>1, <1>2 DEF IInv, Typed, PlaceInv, Calling, Places, Ops, States,
     Workers, Debugger, Placed, Files, Blanks, Forgets, Holds, Of, Rt, Starter, None
<1>4. PlaceInv'
  BY ConstantsOK, Numbers, <1>1, <1>2 DEF IInv, PlaceInv, Placed, Calling, Requests, Blanks,
     Forgets, Holds, Of, Rt, Starter, None
<1>5. LockInv'
  BY ConstantsOK, Numbers, <1>1, <1>2 DEF IInv, PlaceInv, LockInv, Placed, ConstantsOK, Blanks,
     Forgets, Holds, Of, Rt, Starter, None
<1>6. UnusedInv'
  BY ConstantsOK, Numbers, <1>1, <1>2 DEF IInv, PlaceInv, UnusedInv, Knows, Placed, Blanks,
     Forgets, Holds, Of, Rt, Starter, None
<1>7. NewInv'
  <2> SUFFICES ASSUME NEW d \in Callers, Waiting(d)' PROVE Blank(Of(d))'
    BY DEF NewInv
  <2>1. Waiting(d) /\ Of(d)' = Of(d)
    BY <1>1, <1>2 DEF Waiting, Starter, Of, Moves, Quits, Turns
  <2>2. Blank(Of(d)) /\ Of(d) \in States
    BY <2>1, Numbers DEF IInv, NewInv, PlaceInv, Placed, Waiting, Starter
  <2> QED BY <2>1, <2>2, <1>1, <1>2 DEF Blank, Forgets
<1>8. OwnInv'
  BY ConstantsOK, Numbers, <1>1, <1>2 DEF IInv, PlaceInv, OwnInv, Placed, Blanks, Forgets, Holds,
     Of, Rt, Starter, None
<1>9. StopInv'
  BY ConstantsOK, Numbers, <1>1, <1>2 DEF IInv, PlaceInv, StopInv, NewInv, LockInv, OneStarter,
     Knows, Waiting, Blank, Placed, Blanks, Forgets, Holds, Of, Rt, Starter, None
<1>10. OneStarter'
  BY ConstantsOK, Numbers, <1>1, <1>2 DEF IInv, PlaceInv, OneStarter, OwnInv, Waiting, Placed,
     Blanks, Forgets, Holds, Of, Rt, Starter, None
<1>11. HandInv'
  BY ConstantsOK, Numbers, <1>1, <1>2 DEF IInv, HandInv, Hands, Blanks, Forgets, Holds, Of, Rt,
     Starter, None
<1>12. AgeInv'
  BY ConstantsOK, Numbers, <1>1, <1>2 DEF IInv, AgeInv, HandInv, Hands, Blanks, Forgets, Holds,
     Of, Rt, Starter, None
<1>13. ClosingInv'
  BY ConstantsOK, Numbers, <1>1, <1>2 DEF IInv, ClosingInv, Blanks, Forgets, Holds, Of, Rt,
     Starter, None
<1>14. DeadInv'
  BY ConstantsOK, Numbers, <1>1, <1>2 DEF IInv, DeadInv, Blanks, Forgets, Holds, Of, Rt, Starter,
     None
<1>15. PathInv'
  BY ConstantsOK, Numbers, <1>1, <1>2 DEF IInv, PathInv, Blanks, Forgets, Holds, Of, Rt, Starter,
     None
<1>16. UpInv'
  BY ConstantsOK, Numbers, <1>1, <1>2 DEF IInv, PlaceInv, UpInv, HandInv, Hands, Blanks, Forgets,
     Holds, Of, Rt, Starter, None
<1>17. KnowInv'
  BY ConstantsOK, Numbers, <1>1, <1>2 DEF IInv, NewInv, KnowInv, Knows, Waiting, Blank, Blanks,
     Forgets, Holds, Of, Rt, Starter, None
<1>18. \A d \in Callers : Dooms(d) => Dooms(d)'
  BY ConstantsOK, Numbers, <1>1, <1>2 DEF IInv, PlaceInv, Dooms, Placed, Blanks, Forgets, Holds,
     Of, Rt, Starter, None
<1>19. Good => RecordInv'
  BY ConstantsOK, Numbers, <1>1, <1>2 DEF IInv, PlaceInv, LockInv, RecordInv, Good, GoodRec,
     GoodLate, GoodAsk, GoodCall, Dooms, Busy, Asks, Blanks, Forgets, Holds, Of, Rt, Starter, None
<1>20. RecordInv'
  BY <1>18, <1>19 DEF IInv, RecordInv
<1>21. \A i \in States : Over(i) => Over(i)'
  BY ConstantsOK, Numbers, <1>1, <1>2 DEF IInv, PlaceInv, NewInv, HandInv, AgeInv, OwnInv,
     OneStarter, Over, Waiting, Blank, Knows, Placed, Blanks, Forgets, Holds, Of, Rt, Starter, None
<1>22. SureInv'
  BY ConstantsOK, Numbers, <1>1, <1>2, <1>21 DEF IInv, SureInv, NewInv, Typed, Waiting, Blank,
     Blanks, Forgets, Holds, Of, Rt, Starter, None
<1>23. ConfirmedInv'
  BY ConstantsOK, Numbers, <1>1, <1>2, <1>21 DEF IInv, PlaceInv, ConfirmedInv, Confirmed, Placed,
     Blanks, Forgets, Holds, Of, Rt, Starter, None
<1> QED BY <1>3, <1>4, <1>5, <1>6, <1>7, <1>8, <1>9, <1>10, <1>11, <1>12, <1>13, <1>14, <1>15,
           <1>16, <1>17, <1>20, <1>22, <1>23 DEF IInv

-----------------------------------------------------------------------------
(* The invariant holds *)

(* It holds at the start.                                                   *)
LEMMA Starting ==
    ASSUME ConstantsOK, Init
    PROVE  IInv
<1>1. /\ NoCall \in Calling /\ NoCall.op = "none" /\ NoCall.of = None /\ NoCall.rt = None
      /\ ~NoCall.fatal /\ NoCall.safe
  BY DEF ConstantsOK, NoCall, Calling, Ops, None
<1>2. /\ 1 \in Workers /\ 1 # None /\ runtime = 1 /\ cur = None /\ made = 0
      /\ \A c \in Callers : at[c] = "idle" /\ call[c] = NoCall
      /\ \A i \in States : file[i] = "none" /\ i \notin active /\ i \notin sure /\ i # None
  BY DEF ConstantsOK, Init, Workers, States, None
<1>3. \A w \in Workers : worker[w].rec = None /\ worker[w].path = None /\ worker[w].late = None
                         /\ (worker[w].up <=> w = 1) /\ worker[w] \in Debugger
  <2>1. /\ NoWorker \in Debugger /\ NoWorker.rec = None /\ NoWorker.path = None
           /\ NoWorker.late = None
        /\ ~NoWorker.up
    BY DEF ConstantsOK, NoWorker, Debugger, None
  <2> DEFINE first == [NoWorker EXCEPT !.up = TRUE]
  <2>2. first.rec = None /\ first.path = None /\ first.late = None /\ first.up
    BY DEF NoWorker
  <2>4. first \in Debugger
    BY <2>1 DEF Debugger
  <2>3. \A w \in Workers : worker[w] = IF w = 1 THEN first ELSE NoWorker
    BY DEF Init
  <2> HIDE DEF first
  <2> QED BY <2>1, <2>2, <2>3, <2>4
<1>4. Typed
  <2>1. at \in [Callers -> Places] /\ call \in [Callers -> Calling]
    BY <1>1 DEF Init, Places
  <2>2. worker \in [Workers -> Debugger]
    <3> DEFINE first == [NoWorker EXCEPT !.up = TRUE]
    <3>1. worker = [w \in Workers |-> IF w = 1 THEN first ELSE NoWorker]
      BY DEF Init
    <3>2. NoWorker \in Debugger
      BY DEF ConstantsOK, NoWorker, Debugger, None
    <3>3. first \in Debugger
      BY <3>2 DEF Debugger
    <3> HIDE DEF first
    <3> QED BY <3>1, <3>2, <3>3
  <2>3. /\ session = "open" /\ active = {} /\ sure = {}
        /\ lock \in [Workers -> Callers \cup {Nobody}]
        /\ file \in [States -> {"none", "there", "registered", "stale"}]
    BY DEF Init
  <2>4. runtime \in 0..MaxWorkers /\ made \in 0..MaxStarts /\ cur \in 0..made
    BY <1>2 DEF ConstantsOK, None
  <2> QED BY <2>1, <2>2, <2>3, <2>4 DEF Typed
<1>5. PlaceInv /\ LockInv /\ NewInv /\ OwnInv /\ StopInv /\ OneStarter /\ HandInv /\ ClosingInv
      /\ ConfirmedInv
  BY <1>1, <1>2 DEF PlaceInv, Placed, LockInv, NewInv, Waiting, Starter, OwnInv, StopInv,
     OneStarter, HandInv,
                    Hands, ClosingInv, ConfirmedInv, Confirmed, Of, None
<1>6. UnusedInv /\ KnowInv /\ DeadInv /\ PathInv /\ SureInv
  BY <1>2, <1>3 DEF UnusedInv, KnowInv, Knows, DeadInv, PathInv, SureInv, Init
<1>7. UpInv /\ AgeInv
  BY <1>1, <1>2, <1>3 DEF UpInv, AgeInv, Rt, None
<1>8. RecordInv
  BY <1>2, <1>3 DEF RecordInv, Good, GoodRec, GoodLate, GoodAsk, GoodCall, Busy, Asks
<1> QED BY <1>4, <1>5, <1>6, <1>7, <1>8 DEF IInv

(* What is answered, in each way, keeps the invariant.                      *)
LEMMA AskedKeeps ==
    ASSUME ConstantsOK, IInv, NEW c \in Callers,
           Started(c) \/ StartFails(c) \/ Answered(c) \/ Unanswered(c)
    PROVE  IInv'
<1>1. CASE Started(c)
  BY <1>1, StartedKeeps
<1>2. CASE StartFails(c)
  <2>1. PICK fatal \in BOOLEAN : Errs(c, fatal)
    BY <1>2 DEF StartFails
  <2>2. CASE Unmoved
    BY <1>2, <2>1, <2>2, StartRefusedKeeps
  <2>3. CASE Ordered(Rt(c)) /\ worker[Rt(c)].rec = None /\ Began(Rt(c), Of(c))
    BY <1>2, <2>1, <2>3, StartUnheardKeeps
  <2>4. CASE /\ Ordered(Rt(c)) /\ worker[Rt(c)].rec = None
             /\ Worker(Rt(c), [worker[Rt(c)] EXCEPT !.late = Of(c)]) /\ UNCHANGED file
    BY <1>2, <2>1, <2>4, StartDelayedKeeps
  <2> QED BY <1>2, <2>2, <2>3, <2>4 DEF StartFails, Lost
<1>3. CASE Answered(c)
  <2>1. CASE Of(c) = None
    BY <1>3, <2>1, AnswersNobodyKeeps
  <2>2. CASE Of(c) # None /\ Accepts(c) /\ worker'[Rt(c)].rec = None
    BY <1>3, <2>2, AnswersStoppedKeeps
  <2>3. CASE Of(c) # None /\ Accepts(c) /\ worker'[Rt(c)].rec # None
    BY <1>3, <2>3, AnswersRecordingKeeps
  <2>4. CASE Of(c) # None /\ ~Accepts(c)
    BY <1>3, <2>4, AnswersOtherKeeps
  <2> QED BY <2>1, <2>2, <2>3, <2>4
<1>4. CASE Unanswered(c)
  <2>1. PICK fatal \in BOOLEAN : Errs(c, fatal)
    BY <1>4 DEF Unanswered
  <2> QED BY <1>4, <2>1, UnansweredKeeps
<1> QED BY <1>1, <1>2, <1>3, <1>4

(* So does a call that has the lock,                                        *)
LEMMA LockKeeps ==
    ASSUME ConstantsOK, IInv, NEW c \in Callers, Lock(c)
    PROVE  IInv'
  BY LockLostKeeps, LockRefusesKeeps, LockTakesKeeps, LockStartsKeeps

(* one that goes on after an error,                                         *)
LEMMA ErrorKeeps ==
    ASSUME ConstantsOK, IInv, NEW c \in Callers, Error(c)
    PROVE  IInv'
<1>1. \/ GoTo(c, "fail") /\ UNCHANGED call
      \/ Done(c) /\ call[c].op # "stop"
      \/ /\ GoTo(c, "register") /\ Errs(c, TRUE) /\ Of(c) # None /\ Of(c) \notin active
         /\ call[c].op # "stop"
  BY DEF Error
<1> QED BY <1>1, ErrorFailsKeeps, ErrorQuitsKeeps, ErrorRegistersKeeps

(* the stop of a start that failed,                                         *)
LEMMA StoppingKeeps ==
    ASSUME ConstantsOK, IInv, NEW c \in Callers, Stopping(c)
    PROVE  IInv'
<1>1. \/ /\ Ordered(Rt(c)) /\ Worker(Rt(c), Still(Rt(c)))
         /\ active' = active \ {Of(c)} /\ UNCHANGED call
      \/ UNCHANGED active /\ call' = [call EXCEPT ![c].safe = FALSE]
  BY DEF Stopping
<1> QED BY <1>1, StoppingStopsKeeps, StoppingFailsKeeps

(* the registration of a file,                                              *)
LEMMA RegisterKeeps ==
    ASSUME ConstantsOK, IInv, NEW c \in Callers, Register(c)
    PROVE  IInv'
<1>1. \/ GoTo(c, "fail") /\ UNCHANGED call
      \/ Done(c) /\ ~(Starter(c) /\ (call[c].fatal \/ ~call[c].safe))
  BY DEF Register, Starter
<1> QED BY <1>1, RegisterFailsKeeps, RegisterQuitsKeeps

(* the three ways in which a trace ends with its runtime,                   *)
LEMMA LossesKeep ==
    ASSUME ConstantsOK, IInv, NEW c \in Callers, LossOfFailed(c) \/ LossOfDead(c) \/ LossOfClosed(c)
    PROVE  IInv'
<1>1. CASE LossOfFailed(c)
  BY <1>1, LossKeeps DEF LossOfFailed
<1>2. CASE LossOfDead(c)
  BY <1>2, LossKeeps DEF LossOfDead
<1>3. CASE LossOfClosed(c)
  BY <1>3, LossKeeps DEF LossOfClosed
<1> QED BY <1>1, <1>2, <1>3

(* every step of a call,                                                    *)
LEMMA StepKeeps ==
    ASSUME ConstantsOK, IInv, NEW c \in Callers, Step(c)
    PROVE  IInv'
<1>1. CASE Fail(c)
  BY <1>1, FailKillsKeeps, FailFindsKeeps
<1>2. CASE Reopen(c)
  BY <1>2, ReopenOpensKeeps, ReopenLateKeeps
<1> QED BY <1>1, <1>2, LockKeeps, AskedKeeps, ErrorKeeps, StopAgainKeeps, StoppingKeeps,
           RegisterKeeps,
           KillKeeps, LossesKeep, FailedKeeps, CloseWorkerKeeps, ClearKeeps DEF Step

(* and every step.                                                          *)
LEMMA NextKeeps ==
    ASSUME ConstantsOK, IInv, [Next]_vars
    PROVE  IInv'
<1>1. CASE UNCHANGED vars
  BY <1>1 DEF vars, IInv, Typed, PlaceInv, Placed, LockInv, UnusedInv, Knows, NewInv, Waiting,
     Blank, OwnInv,
              StopInv, OneStarter, HandInv, AgeInv, ClosingInv, DeadInv, PathInv, UpInv, KnowInv,
              RecordInv,
              Good, GoodRec, GoodLate, GoodAsk, GoodCall, Busy, Asks, Dooms, SureInv, Over,
              ConfirmedInv,
              Confirmed, Starter, Of, Rt
<1>2. ASSUME NEW c \in Callers, Step(c) \/ Discard(c) \/ Close(c) PROVE IInv'
  BY <1>2, StepKeeps, DiscardKeeps, CloseTakesKeeps, CloseFindsKeeps
<1>3. ASSUME NEW c \in Callers, NEW op \in {"start", "stop", "status"}, Enter(c, op) PROVE IInv'
  BY <1>3, EnterStartsKeeps, EnterAsksKeeps
<1>4. ASSUME NEW w \in Workers, Writes(w) \/ StopsItself(w) \/ ComesToStart(w) \/ Dies(w)
             PROVE IInv'
  BY <1>4, WritesKeeps, StopsItselfKeeps, ComesToStartKeeps, DiesKeeps
<1> QED BY <1>1, <1>2, <1>3, <1>4 DEF Next

(* What is to be shown of it.                                               *)
LEMMA Implies ==
    ASSUME ConstantsOK, IInv
    PROVE  TypeOK /\ RecordingIsKnown /\ ConfirmedIsFinal
<1>1. TypeOK
  BY DEF IInv, Typed, TypeOK, Workers, States, None, ConstantsOK, Files
<1>2. ConfirmedIsFinal
  BY DEF IInv, SureInv, ConfirmedIsFinal
<1>3. RecordingIsKnown
  <2> SUFFICES ASSUME \A c \in Callers : at[c] = "idle", NEW w \in Workers, Busy(w)
               PROVE  /\ w = runtime /\ worker[w].rec = cur /\ worker[w].late = None
                      /\ cur \in active /\ file[cur] = "there"
    BY DEF RecordingIsKnown, Busy, At
  <2>1. w = runtime /\ runtime # None
    BY DEF IInv, UpInv, DeadInv, Busy, Workers, None
  <2>2. Good
    BY DEF IInv, RecordInv, Dooms
  <2> QED BY <2>1, <2>2 DEF Good, GoodRec, GoodLate, GoodCall, Busy
<1> QED BY <1>1, <1>2, <1>3

(* The invariant holds, whatever the calls of a session do and in whatever  *)
(* order.                                                                   *)
THEOREM InvariantHolds == ASSUME ConstantsOK PROVE Spec => []IInv
<1>1. Init => IInv
  BY Starting
<1>2. IInv /\ [Next]_vars => IInv'
  BY NextKeeps
<1> QED BY <1>1, <1>2, PTL DEF Spec

(* Every variable keeps its type, for every number of callers, starts and   *)
(* debuggers.                                                               *)
THEOREM TypeCorrect == ASSUME ConstantsOK PROVE Spec => []TypeOK
  BY InvariantHolds, Implies, PTL

(* Once no call is in progress, a debugger that records is the registered   *)
(* one and records the trace that the service takes for active              *)
(* (service_trace.py:348), whatever answers were lost and whatever stops    *)
(* failed before.                                                           *)
THEOREM RecordingKnown == ASSUME ConstantsOK PROVE Spec => []RecordingIsKnown
  BY InvariantHolds, Implies, PTL
(* A trace registered after its debugger confirmed the stop, or was ended,  *)
(* stays as it was registered (service_trace.py:595): no debugger writes    *)
(* to it again, not even one that comes late to its start.                  *)
THEOREM ConfirmedFinal == ASSUME ConstantsOK PROVE Spec => []ConfirmedIsFinal
  BY InvariantHolds, Implies, PTL

-----------------------------------------------------------------------------
(***************************************************************************)
(* Requests that make the debuggee run (RunControl)                        *)
(*                                                                         *)
(* The invariant gives the runtime lock to the caller that waits, and says *)
(* that what was published since its marker is not what it waits for, and  *)
(* no step will end that would be, as long as its command was not executed.*)
(***************************************************************************)

\* A caller is not the name of the free lock
CtlConstantsOK == "none" \notin Callers

CtlKinds == {"resumed", "stepped", "other"}

CtlCommand == [by : Callers, m : Ctl!Methods]

CtlTruth == [done : BOOLEAN, claimed : BOOLEAN, crowded : BOOLEAN]

CtlCallsTyped ==
    /\ at \in [Callers -> {"idle", "enter", "mark", "submit", "absorb", "events", "state"}]
    /\ mark \in [Callers -> Nat] /\ moved \in [Callers -> BOOLEAN]
    /\ plan \in [Callers -> Seq(Ctl!Request)]

CtlTyped ==
    /\ CtlCallsTyped
    /\ pending \in Seq(CtlCommand) /\ events \in Seq(CtlKinds) /\ steps \in Nat
    /\ truth \in [Callers -> CtlTruth]

\* A request is made, and waited for, under the lock; no transition is seen before it
CtlPlaced(c) ==
    /\ at[c] # "idle" => plan[c] # <<>>
    /\ at[c] \in {"mark", "submit", "absorb", "events", "state"} => lock = c
    /\ at[c] \in {"idle", "enter", "mark"} => ~moved[c]
    /\ at[c] = "absorb" => Ctl!This(c).m = "pause"
    /\ at[c] = "mark" => Ctl!This(c).m \in {"resume", "step"}

\* The caller waits for the event of a resume or a step
CtlAwaits(c) ==
    /\ at[c] \in {"submit", "events", "state"}
    /\ Ctl!This(c).m \in {"resume", "step"} /\ Ctl!This(c).wait # {}

\* What was published since the marker is not what c waits for, nor will be what
\* a step publishes that was begun
CtlQuiet(c) ==
    /\ \A i \in DOMAIN events : i > mark[c] => events[i] \notin Ctl!Transitions(Ctl!This(c).m)
    /\ "stepped" \in Ctl!Transitions(Ctl!This(c).m) => steps = 0

\* What is pending while one waits is its own, and nothing that it waits for is
\* published as long as its command was not executed
CtlWaiting(c) == CtlAwaits(c) =>
    truth[c].crowded \/
         /\ \A i \in DOMAIN pending : pending[i].by = c
         /\ moved[c] => truth[c].done
         /\ truth[c].done \/ CtlQuiet(c)

\* Who has seen an answer only waits for one if it asked for it
CtlWaits(c) ==
    at[c] \in {"events", "state"} /\ Ctl!This(c).m \in {"resume", "step"} => Ctl!This(c).wait # {}

CtlToldNew(c) == truth[c].claimed => truth[c].done \/ truth[c].crowded

CtlSound(c) == CtlPlaced(c) /\ CtlWaiting(c) /\ CtlWaits(c) /\ CtlToldNew(c)

CtlInv == CtlTyped /\ \A c \in Callers : CtlSound(c)

\* Nobody has called yet.
LEMMA CtlStarts == ASSUME CtlConstantsOK, Ctl!Init PROVE CtlInv
  BY DEF Ctl!Init, CtlInv, CtlTyped, CtlCallsTyped, CtlSound, CtlPlaced, CtlWaiting, CtlWaits,
     CtlToldNew, CtlAwaits, Ctl!NoTruth, CtlTruth, CtlKinds

\* What a step of d leaves alone
CtlAlone(d) ==
    /\ \A c \in Callers \ {d} :
         /\ at'[c] = at[c] /\ plan'[c] = plan[c] /\ mark'[c] = mark[c] /\ moved'[c] = moved[c]
         /\ truth'[c] = truth[c]
    /\ \/ lock' = lock
       \/ lock = "none" /\ lock' = d
       \/ lock = d /\ lock' = "none"
    /\ lock = d \/ (pending' = pending /\ steps' = steps /\ events' = events)

\* A step that only concerns caller d leaves what holds of the others.
LEMMA CtlOthers ==
  ASSUME CtlConstantsOK, CtlInv, NEW d \in Callers, CtlAlone(d), NEW c \in Callers, c # d
  PROVE  CtlSound(c)'
<1>1. CtlSound(c)
  BY DEF CtlInv
<1>2. at'[c] = at[c] /\ plan'[c] = plan[c] /\ mark'[c] = mark[c] /\ moved'[c] = moved[c]
      /\ truth'[c] = truth[c]
  BY DEF CtlAlone
<1>3. lock = c => lock' = c /\ pending' = pending /\ steps' = steps /\ events' = events
  BY DEF CtlAlone, CtlConstantsOK
<1>4. CtlPlaced(c)' /\ CtlWaits(c)' /\ CtlToldNew(c)'
  BY <1>1, <1>2, <1>3 DEF CtlSound, CtlPlaced, CtlWaits, CtlToldNew, Ctl!This
<1>5. CtlWaiting(c)'
  <2>1. CASE ~CtlAwaits(c)
    BY <1>2, <2>1 DEF CtlWaiting, CtlAwaits, Ctl!This
  <2>2. CASE CtlAwaits(c)
    <3>1. lock = c
      BY <1>1, <2>2 DEF CtlSound, CtlPlaced, CtlAwaits
    <3>2. CtlWaiting(c) /\ Ctl!This(c)' = Ctl!This(c)
          /\ pending' = pending /\ steps' = steps /\ events' = events
      BY <1>1, <1>2, <1>3, <3>1 DEF CtlSound, Ctl!This
    <3>3. CtlQuiet(c) => CtlQuiet(c)'
      BY <1>2, <3>2 DEF CtlQuiet, Ctl!Transitions
    <3> QED BY <1>2, <2>2, <3>2, <3>3 DEF CtlWaiting
  <2> QED BY <2>1, <2>2
<1> QED BY <1>4, <1>5 DEF CtlSound

\* So it is enough to look at d.
LEMMA CtlOneStep ==
  ASSUME CtlConstantsOK, CtlInv, NEW d \in Callers, CtlAlone(d), CtlTyped', CtlSound(d)'
  PROVE  CtlInv'
  BY CtlOthers DEF CtlInv

\* What is left of a plan after its first request
LEMMA CtlRest ==
  ASSUME NEW S, NEW s \in Seq(S), s # <<>>, Len(s) # 1
  PROVE  Tail(s) \in Seq(S) /\ Tail(s) # <<>>
<1>1. Len(s) \in Nat \ {0}
  BY EmptySeq
<1>2. Tail(s) \in Seq(S) /\ Len(Tail(s)) = Len(s) - 1
  BY HeadTailProperties
<1>3. Len(Tail(s)) # 0
  BY <1>1, <1>2
<1>4. \A t : t = <<>> => Len(t) = 0
  OBVIOUS
<1> QED BY <1>2, <1>3, <1>4

\* A plan of three requests.
LEMMA CtlThree ==
  ASSUME NEW S, NEW a \in S, NEW b \in S, NEW c \in S
  PROVE  <<a, b, c>> \in Seq(S) /\ Len(<<a, b, c>>) = 3
  OBVIOUS

\* A request that is over
LEMMA CtlReturns ==
  ASSUME CtlInv, NEW d \in Callers, NEW reply, at[d] # "idle",
         Ctl!Return(d, reply) \/ Ctl!Continues(d)
  PROVE  /\ CtlCallsTyped'
         /\ at'[d] \in {"idle", "enter"} /\ ~moved'[d] /\ (at'[d] # "idle" => plan'[d] # <<>>)
         /\ \A c \in Callers \ {d} :
              at'[c] = at[c] /\ plan'[c] = plan[c] /\ mark'[c] = mark[c] /\ moved'[c] = moved[c]
         /\ lock' = lock \/ (lock = d /\ lock' = "none")
<1>1. CtlCallsTyped /\ plan[d] # <<>> /\ plan[d] \in Seq(Ctl!Request)
  BY DEF CtlInv, CtlTyped, CtlCallsTyped, CtlSound, CtlPlaced
<1>a. lock' = IF lock = d THEN "none" ELSE lock
  BY DEF Ctl!Return, Ctl!Continues, Ctl!Leaves
<1>b. lock' = lock \/ (lock = d /\ lock' = "none")
  BY <1>a
<1>c. mark' = [mark EXCEPT ![d] = 0] /\ moved' = [moved EXCEPT ![d] = FALSE]
  BY DEF Ctl!Return, Ctl!Continues
<1>2. CASE \E x : Ctl!Return(d, x)
  <2>1. at' = [at EXCEPT ![d] = "idle"] /\ plan' = [plan EXCEPT ![d] = <<>>]
    BY <1>2 DEF Ctl!Return, Ctl!Goto
  <2>2. CtlCallsTyped'
    BY <1>1, <1>c, <2>1 DEF CtlCallsTyped
  <2> QED BY <1>1, <1>b, <1>c, <2>1, <2>2 DEF CtlCallsTyped
<1>3. CASE ~\E x : Ctl!Return(d, x)
  <2>1. Ctl!Continues(d) /\ Len(plan[d]) # 1
    BY <1>3 DEF Ctl!Continues
  <2>2. at' = [at EXCEPT ![d] = "enter"] /\ plan' = [plan EXCEPT ![d] = Tail(@)]
    BY <2>1 DEF Ctl!Continues, Ctl!Goto
  <2>3. Tail(plan[d]) \in Seq(Ctl!Request) /\ Tail(plan[d]) # <<>>
    BY <1>1, <2>1, CtlRest
  <2>4. CtlCallsTyped'
    BY <1>1, <1>c, <2>2, <2>3 DEF CtlCallsTyped
  <2> QED BY <1>1, <1>b, <1>c, <2>2, <2>3, <2>4 DEF CtlCallsTyped
<1> QED BY <1>2, <1>3

\* The caller whose request is over asks the next one of its plan, or is idle.
LEMMA CtlOver ==
  ASSUME CtlConstantsOK, CtlInv, NEW d \in Callers, at[d] # "idle", NEW reply,
         Ctl!Return(d, reply) \/ Ctl!Continues(d),
         \/ pending' = pending /\ steps' = steps /\ events' = events
         \/ lock = d /\ CtlTyped',
         \A c \in Callers \ {d} : truth'[c] = truth[c],
         truth' \in [Callers -> CtlTruth],
         CtlToldNew(d)'
  PROVE  CtlInv'
<1>1. CtlTyped'
  <2>1. CtlCallsTyped'
    BY CtlReturns
  <2> QED BY <2>1 DEF CtlInv, CtlTyped
<1>2. CtlAlone(d)
  BY CtlReturns DEF CtlAlone
<1>3. CtlSound(d)'
  <2>1. at'[d] \in {"idle", "enter"} /\ ~moved'[d] /\ (at'[d] # "idle" => plan'[d] # <<>>)
    BY CtlReturns
  <2> QED BY <2>1 DEF CtlSound, CtlPlaced, CtlWaiting, CtlWaits, CtlAwaits
<1> QED BY <1>1, <1>2, <1>3, CtlOneStep

\* A step that fails a request, and may take the debugger with it
LEMMA CtlBreaks ==
  ASSUME CtlConstantsOK, CtlInv, NEW d \in Callers, lock = d, at[d] # "idle", Ctl!Breaks(d)
  PROVE  CtlInv'
<1>1. \E x : Ctl!Return(d, x) \/ Ctl!Continues(d)
  BY DEF Ctl!Breaks, Ctl!Fails
<1>2. CtlCallsTyped'
  BY <1>1, CtlReturns
<1>3. /\ truth' = truth /\ events' = events /\ (pending' = pending \/ pending' = <<>>)
      /\ steps' \in {0, steps}
  BY DEF Ctl!Breaks, Ctl!debugger
<1>4. CtlTyped'
  <2>1. pending' \in Seq(CtlCommand)
    <3>1. pending \in Seq(CtlCommand) /\ <<>> \in Seq(CtlCommand)
      BY DEF CtlInv, CtlTyped
    <3> QED BY <1>3, <3>1
  <2>2. events' \in Seq(CtlKinds) /\ steps' \in Nat
        /\ truth' \in [Callers -> CtlTruth]
    BY <1>3 DEF CtlInv, CtlTyped
  <2> QED BY <1>2, <2>1, <2>2 DEF CtlTyped
<1>5. CtlToldNew(d)'
  BY <1>3 DEF CtlInv, CtlSound, CtlToldNew
<1> QED BY <1>1, <1>3, <1>4, <1>5, CtlOver DEF CtlInv, CtlTyped

\* Every plan is a sequence of requests, and has one
LEMMA CtlPlans ==
  ASSUME NEW p \in Ctl!Plans
  PROVE  p \in Seq(Ctl!Request) /\ p # <<>>
<1>1. \A m \in Ctl!Methods, w \in SUBSET Ctl!States : Ctl!Req(m, w) \in Ctl!Request
  BY DEF Ctl!Req, Ctl!Request
<1>2. \A q, r \in Ctl!Request : <<q>> \in Seq(Ctl!Request) /\ <<q, r>> \in Seq(Ctl!Request)
                            /\ <<q>> # <<>> /\ <<q, r>> # <<>>
  OBVIOUS
<1>3. CASE p \in Ctl!DynamicLaunch \cup Ctl!DynamicAttach \cup Ctl!DynamicWait
  BY <1>1, <1>2, <1>3 DEF Ctl!DynamicLaunch, Ctl!DynamicAttach, Ctl!DynamicWait, Ctl!Methods,
     Ctl!States
<1>4. CASE p \in {<<r>> : r \in {Ctl!DynamicResume(TRUE), Ctl!DynamicResume(FALSE), Ctl!DynamicStep,
                                 Ctl!DynamicPause, Ctl!DynamicStop}}
  BY <1>1, <1>2, <1>4 DEF Ctl!DynamicResume, Ctl!DynamicStep, Ctl!DynamicPause, Ctl!DynamicStop,
     Ctl!Methods, Ctl!States
<1>5. CASE p \in Ctl!AnalyzeFunctionDynamic
  <2>1. PICK context \in {<<>>, <<Ctl!Req("decompile", {})>>} :
          p = <<Ctl!Req("modules", {})>> \o context \o
              <<Ctl!Req("arm", {}), Ctl!DynamicResume(TRUE), Ctl!Req("registers", {})>>
    BY <1>5 DEF Ctl!AnalyzeFunctionDynamic
  <2>2. /\ <<Ctl!Req("modules", {})>> \in Seq(Ctl!Request) /\ context \in Seq(Ctl!Request)
        /\ <<Ctl!Req("arm", {}), Ctl!DynamicResume(TRUE),
           Ctl!Req("registers", {})>> \in Seq(Ctl!Request)
    <3>1. /\ Ctl!Req("modules", {}) \in Ctl!Request /\ Ctl!Req("decompile", {}) \in Ctl!Request
          /\ Ctl!Req("arm", {}) \in Ctl!Request /\ Ctl!DynamicResume(TRUE) \in Ctl!Request
          /\ Ctl!Req("registers", {}) \in Ctl!Request
      BY <1>1 DEF Ctl!DynamicResume, Ctl!Methods, Ctl!States
    <3>2. <<>> \in Seq(Ctl!Request) /\ <<Ctl!Req("decompile", {})>> \in Seq(Ctl!Request)
          /\ <<Ctl!Req("modules", {})>> \in Seq(Ctl!Request)
      BY <3>1
    <3>3. context \in Seq(Ctl!Request)
      BY <3>2
    <3> QED BY <3>1, <3>2, <3>3, CtlThree
  <2>3. Len(<<Ctl!Req("modules", {})>>) = 1
    OBVIOUS
  <2>4. <<Ctl!Req("modules", {})>> \o context \in Seq(Ctl!Request)
        /\ Len(<<Ctl!Req("modules", {})>> \o context) = 1 + Len(context)
    BY <2>2, <2>3, ConcatProperties
  <2>5. p \in Seq(Ctl!Request) /\ Len(p) = 1 + Len(context) + 3
    <3>1. Len(<<Ctl!Req("arm", {}), Ctl!DynamicResume(TRUE), Ctl!Req("registers", {})>>) = 3
      OBVIOUS
    <3>2. Len(context) \in Nat
      BY <2>2
    <3>3. \A s, t \in Seq(Ctl!Request) : s \o t \in Seq(Ctl!Request)
          /\ Len(s \o t) = Len(s) + Len(t)
      BY ConcatProperties
    <3> QED BY <2>1, <2>2, <2>4, <3>1, <3>2, <3>3
  <2> QED BY <2>2, <2>5
<1> QED BY <1>3, <1>4, <1>5 DEF Ctl!Plans

\* A call plans its requests.
LEMMA CtlCall ==
  ASSUME CtlConstantsOK, CtlInv, NEW d \in Callers, Ctl!Call(d)
  PROVE  CtlInv'
<1>1. PICK p \in Ctl!Plans : plan' = [plan EXCEPT ![d] = p]
  BY DEF Ctl!Call
<1>2. p \in Seq(Ctl!Request) /\ p # <<>>
  BY CtlPlans
<1>3. CtlTyped'
  BY <1>1, <1>2 DEF Ctl!Call, CtlInv, CtlTyped, CtlCallsTyped, Ctl!NoTruth, CtlTruth, Ctl!debugger
<1>4. CtlAlone(d)
  BY <1>1 DEF Ctl!Call, CtlInv, CtlTyped, CtlCallsTyped, CtlAlone, Ctl!debugger
<1>5. CtlSound(d)'
  BY <1>1, <1>2 DEF Ctl!Call, CtlInv, CtlTyped, CtlCallsTyped, CtlSound, CtlPlaced, CtlWaiting,
     CtlWaits, CtlToldNew, CtlAwaits,
                    Ctl!NoTruth
<1> QED BY <1>3, <1>4, <1>5, CtlOneStep

\* The request enters with the lock, or is turned away.
LEMMA CtlEnters ==
  ASSUME CtlConstantsOK, CtlInv, NEW d \in Callers, Ctl!Enter(d)
  PROVE  CtlInv'
<1>3. CtlTyped'
  BY DEF Ctl!Enter, CtlInv, CtlTyped, CtlCallsTyped, Ctl!Goto, Ctl!debugger
<1>4. CtlAlone(d)
  BY DEF Ctl!Enter, CtlInv, CtlTyped, CtlCallsTyped, Ctl!Goto, CtlAlone, Ctl!debugger
<1>5. CtlSound(d)'
  <2>1. Ctl!This(d)' = Ctl!This(d) /\ truth' = truth /\ plan' = plan /\ lock' = d
    BY DEF Ctl!Enter, Ctl!This
  <2>2. \/ at'[d] = "mark" /\ Ctl!This(d).m \in {"resume", "step"} /\ moved'[d] = moved[d]
        \/ /\ at'[d] = "submit" /\ moved'[d]
           /\ Ctl!This(d).wait = {} \/ Ctl!This(d).m \notin {"resume", "step"}
    BY DEF Ctl!Enter, Ctl!Goto, Ctl!Transitions, CtlInv, CtlTyped, CtlCallsTyped
  <2>3. CtlPlaced(d)' /\ CtlWaits(d)' /\ CtlToldNew(d)'
    BY <2>1, <2>2 DEF Ctl!Enter, CtlInv, CtlSound, CtlPlaced, CtlWaits, CtlToldNew
  <2>4. ~CtlAwaits(d)'
    BY <2>1, <2>2 DEF CtlAwaits
  <2> QED BY <2>3, <2>4 DEF CtlSound, CtlWaiting
<1> QED BY <1>3, <1>4, <1>5, CtlOneStep

\* The runtime is not the one of the session any more.
LEMMA CtlAway ==
  ASSUME CtlConstantsOK, CtlInv, NEW d \in Callers, Ctl!TurnedAway(d) \/ Ctl!StaticDecompile(d)
  PROVE  CtlInv'
<1>1. \E x : Ctl!Return(d, x) \/ Ctl!Continues(d)
  BY DEF Ctl!TurnedAway, Ctl!StaticDecompile, Ctl!Fails
<1>2. /\ pending' = pending /\ steps' = steps /\ events' = events /\ truth' = truth
      /\ at[d] # "idle"
  <2>1. CASE Ctl!TurnedAway(d)
    BY <2>1 DEF Ctl!TurnedAway, Ctl!debugger
  <2>2. CASE Ctl!StaticDecompile(d)
    BY <2>2 DEF Ctl!StaticDecompile, Ctl!debugger
  <2> QED BY <2>1, <2>2
<1>3. CtlToldNew(d)'
  BY <1>2 DEF CtlInv, CtlSound, CtlToldNew
<1> QED BY <1>1, <1>2, <1>3, CtlOver DEF CtlInv, CtlTyped

\* What a step writes into the history of a caller
LEMMA CtlWrites ==
  ASSUME CtlTyped, NEW d \in Callers, NEW b \in BOOLEAN
  PROVE  /\ truth' = [truth EXCEPT ![d] = [Ctl!NoTruth EXCEPT !.crowded = b]] =>
              /\ truth' \in [Callers -> CtlTruth] /\ \A c \in Callers \ {d} : truth'[c] = truth[c]
              /\ truth'[d].crowded = b /\ ~truth'[d].claimed /\ ~truth'[d].done
         /\ truth' = [truth EXCEPT ![d].claimed = b] =>
              /\ truth' \in [Callers -> CtlTruth] /\ \A c \in Callers \ {d} : truth'[c] = truth[c]
              /\ truth'[d].crowded = truth[d].crowded /\ truth'[d].done = truth[d].done
              /\ truth'[d].claimed = b
         /\ truth' = [truth EXCEPT ![d].done = b] =>
              /\ truth' \in [Callers -> CtlTruth] /\ \A c \in Callers \ {d} : truth'[c] = truth[c]
              /\ truth'[d].crowded = truth[d].crowded /\ truth'[d].claimed = truth[d].claimed
              /\ truth'[d].done = b
<1>0. truth \in [Callers -> CtlTruth]
  BY DEF CtlTyped
<1>1. ASSUME truth' = [truth EXCEPT ![d] = [Ctl!NoTruth EXCEPT !.crowded = b]]
      PROVE  /\ truth' \in [Callers -> CtlTruth] /\ \A c \in Callers \ {d} : truth'[c] = truth[c]
             /\ truth'[d].crowded = b /\ ~truth'[d].claimed /\ ~truth'[d].done
  <2>1. Ctl!NoTruth \in CtlTruth
    BY DEF Ctl!NoTruth, CtlTruth
  <2>2. \A r \in CtlTruth : [r EXCEPT !.crowded = b] \in CtlTruth
    BY DEF CtlTruth
  <2>3. [Ctl!NoTruth EXCEPT !.crowded = b] \in CtlTruth
    BY <2>1, <2>2
  <2>4. truth' \in [Callers -> CtlTruth]
    BY <1>0, <1>1, <2>3
  <2>5. truth'[d] = [Ctl!NoTruth EXCEPT !.crowded = b]
        /\ \A c \in Callers \ {d} : truth'[c] = truth[c]
    BY <1>0, <1>1
  <2>6. truth'[d].crowded = b /\ ~truth'[d].claimed /\ ~truth'[d].done
    BY <2>5 DEF Ctl!NoTruth
  <2> QED BY <2>4, <2>5, <2>6
<1>2. ASSUME truth' = [truth EXCEPT ![d].claimed = b]
      PROVE  /\ truth' \in [Callers -> CtlTruth] /\ \A c \in Callers \ {d} : truth'[c] = truth[c]
             /\ truth'[d].crowded = truth[d].crowded /\ truth'[d].done = truth[d].done
             /\ truth'[d].claimed = b
  BY <1>0, <1>2 DEF CtlTruth
<1>3. ASSUME truth' = [truth EXCEPT ![d].done = b]
      PROVE  /\ truth' \in [Callers -> CtlTruth] /\ \A c \in Callers \ {d} : truth'[c] = truth[c]
             /\ truth'[d].crowded = truth[d].crowded /\ truth'[d].claimed = truth[d].claimed
             /\ truth'[d].done = b
  BY <1>0, <1>3 DEF CtlTruth
<1> QED BY <1>1, <1>2, <1>3

\* The caller takes its marker before it submits the command.
LEMMA CtlMarks ==
  ASSUME CtlConstantsOK, CtlInv, NEW d \in Callers, Ctl!Mark(d)
  PROVE  CtlInv'
<1>1. lock = d /\ at[d] # "idle"
  BY DEF Ctl!Mark, CtlInv, CtlSound, CtlPlaced
<1>2. CASE Ctl!Breaks(d)
  BY <1>1, <1>2, CtlBreaks
<1>3. CASE ~Ctl!Breaks(d)
  <2>1. /\ mark' = [mark EXCEPT ![d] = Len(events)] /\ at' = [at EXCEPT ![d] = "submit"]
        /\ truth' = [truth EXCEPT ![d] = [Ctl!NoTruth EXCEPT !.crowded = Ctl!Crowded(d)]]
        /\ UNCHANGED <<plan, moved, lock, pending, steps, events>>
    BY <1>3 DEF Ctl!Mark, Ctl!Goto, Ctl!debugger
  <2>2. Len(events) \in Nat
    BY DEF CtlInv, CtlTyped
  <2>3. /\ truth' \in [Callers -> CtlTruth] /\ \A c \in Callers \ {d} : truth'[c] = truth[c]
        /\ truth'[d].crowded = Ctl!Crowded(d) /\ ~truth'[d].claimed /\ ~truth'[d].done
    <3>1. Ctl!Crowded(d) \in BOOLEAN
      BY DEF Ctl!Crowded
    <3> QED BY <2>1, <3>1, CtlWrites DEF CtlInv
  <2>4. CtlTyped'
    BY <2>1, <2>2, <2>3 DEF CtlInv, CtlTyped, CtlCallsTyped
  <2>5. CtlAlone(d)
    BY <1>1, <2>1, <2>3 DEF CtlInv, CtlTyped, CtlCallsTyped, CtlAlone
  <2>6. CtlPlaced(d)' /\ CtlWaits(d)' /\ CtlToldNew(d)'
    BY <1>1, <2>1, <2>3 DEF Ctl!Mark, CtlInv, CtlTyped, CtlCallsTyped, CtlSound, CtlPlaced,
       CtlWaits, CtlToldNew, Ctl!This
  <2>7. CtlWaiting(d)'
    <3>1. mark'[d] = Len(events)
      BY <2>1 DEF CtlInv, CtlTyped, CtlCallsTyped
    <3>2. ~moved'[d]
      BY <2>1 DEF Ctl!Mark, CtlInv, CtlSound, CtlPlaced
    <3>3. \A i \in DOMAIN events' : ~(i > mark'[d])
      BY <2>1, <3>1 DEF CtlInv, CtlTyped
    <3>4. pending' = <<>> => \A i \in DOMAIN pending' : pending'[i].by = d
      OBVIOUS
    <3>5. ~Ctl!Crowded(d) => pending = <<>> /\ CtlQuiet(d)'
      <4>1. Ctl!This(d)' = Ctl!This(d) /\ steps' = steps /\ steps \in Nat
        BY <2>1 DEF Ctl!This, CtlInv, CtlTyped
      <4> QED BY <3>3, <4>1 DEF Ctl!Crowded, CtlQuiet, Ctl!Transitions
    <3> QED BY <2>1, <2>3, <3>2, <3>4, <3>5 DEF CtlWaiting
  <2> QED BY <2>4, <2>5, <2>6, <2>7, CtlOneStep DEF CtlSound
<1> QED BY <1>2, <1>3

\* A sequence that grows by one
LEMMA CtlAppends ==
  ASSUME NEW S, NEW s \in Seq(S), NEW e \in S, NEW t, t = Append(s, e)
  PROVE  /\ t \in Seq(S) /\ DOMAIN t = 1..(Len(s) + 1) /\ DOMAIN s = 1..Len(s) /\ Len(s) \in Nat
         /\ \A i \in DOMAIN t : t[i] = IF i \in DOMAIN s THEN s[i] ELSE e
  OBVIOUS

\* and one that loses its first
LEMMA CtlTails ==
  ASSUME NEW S, NEW s \in Seq(S), s # <<>>, NEW t, t = Tail(s)
  PROVE  /\ t \in Seq(S) /\ 1 \in DOMAIN s /\ Head(s) = s[1] /\ Head(s) \in S
         /\ \A i \in DOMAIN t : i + 1 \in DOMAIN s /\ t[i] = s[i + 1]
<1>1. Len(s) \in Nat \ {0} /\ DOMAIN s = 1..Len(s)
  BY EmptySeq
<1>2. t \in Seq(S) /\ Len(t) = Len(s) - 1 /\ DOMAIN t = 1..(Len(s) - 1)
      /\ \A i \in 1..(Len(s) - 1) : t[i] = s[i + 1]
  BY <1>1, HeadTailProperties
<1> QED BY <1>1, <1>2

\* A caller that is not idle is at a request of its plan.
LEMMA CtlRequest ==
  ASSUME CtlInv, NEW d \in Callers, at[d] # "idle"
  PROVE  Ctl!This(d) \in Ctl!Request /\ Ctl!This(d).m \in Ctl!Methods
<1>1. plan[d] \in Seq(Ctl!Request) /\ plan[d] # <<>>
  BY DEF CtlInv, CtlTyped, CtlCallsTyped, CtlSound, CtlPlaced
<1>2. Ctl!This(d) \in Ctl!Request
  BY <1>1, CtlTails DEF Ctl!This
<1>3. Ctl!This(d).m \in Ctl!Methods
  BY <1>2 DEF Ctl!Request
<1> QED BY <1>2, <1>3

\* The plugin accepts the command, or refuses it.
LEMMA CtlSubmits ==
  ASSUME CtlConstantsOK, CtlInv, NEW d \in Callers, Ctl!Submit(d)
  PROVE  CtlInv'
<1>1. lock = d /\ at[d] = "submit" /\ plan[d] # <<>>
  BY DEF Ctl!Submit, CtlInv, CtlSound, CtlPlaced
<1>2. [by |-> d, m |-> Ctl!This(d).m] \in CtlCommand
  BY <1>1, CtlRequest DEF CtlCommand
<1>3. /\ pending \in Seq(CtlCommand)
      /\ pending' = Append(pending, [by |-> d, m |-> Ctl!This(d).m]) \/ pending' = pending
      /\ steps' = steps /\ events' = events /\ truth' = truth
  BY DEF Ctl!Submit, CtlInv, CtlTyped
<1>4. pending' \in Seq(CtlCommand)
      /\ ((\A i \in DOMAIN pending : pending[i].by = d)
         => \A i \in DOMAIN pending' : pending'[i].by = d)
  <2>1. CASE pending' = pending
    BY <1>3, <2>1
  <2>2. CASE pending' = Append(pending, [by |-> d, m |-> Ctl!This(d).m])
    <3>1. /\ pending' \in Seq(CtlCommand)
          /\ \A i \in DOMAIN pending' : pending'[i] = IF i \in DOMAIN pending THEN pending[i]
                                                      ELSE [by |-> d, m |-> Ctl!This(d).m]
      BY <1>2, <1>3, <2>2, CtlAppends
    <3> QED BY <3>1
  <2> QED BY <1>3, <2>1, <2>2
<1>5. CASE Ctl!This(d).wait = {}
  <2>1. Ctl!Continues(d)
    BY <1>5 DEF Ctl!Submit, Ctl!Submitted
  <2>2. CtlCallsTyped'
    BY <1>1, <2>1, CtlReturns
  <2>3. CtlTyped' /\ CtlToldNew(d)'
    BY <1>3, <1>4, <2>2 DEF CtlInv, CtlTyped, CtlSound, CtlToldNew
  <2> QED BY <1>1, <1>3, <2>1, <2>3, CtlOver DEF CtlInv, CtlTyped
<1>6. CASE Ctl!This(d).wait # {}
  <2>1. at' = [at EXCEPT ![d] = "events"] /\ UNCHANGED <<plan, mark, moved, lock>>
    BY <1>6 DEF Ctl!Submit, Ctl!Submitted, Ctl!Goto
  <2>2. CtlTyped'
    BY <1>3, <1>4, <2>1 DEF CtlInv, CtlTyped, CtlCallsTyped
  <2>3. CtlAlone(d)
    BY <1>1, <1>3, <2>1 DEF CtlInv, CtlTyped, CtlCallsTyped, CtlAlone
  <2>4. CtlPlaced(d)' /\ CtlWaits(d)' /\ CtlToldNew(d)'
    BY <1>1, <1>3, <1>6, <2>1 DEF CtlInv, CtlTyped, CtlCallsTyped, CtlSound, CtlPlaced, CtlWaits,
       CtlToldNew, Ctl!This
  <2>5. CtlWaiting(d) /\ (CtlAwaits(d)' => CtlAwaits(d))
    BY <1>1, <2>1 DEF CtlInv, CtlSound, CtlAwaits, Ctl!This
  <2>6. CtlWaiting(d)'
    <3>1. CtlQuiet(d) => CtlQuiet(d)'
      BY <1>3, <2>1 DEF CtlQuiet, Ctl!Transitions, Ctl!This
    <3> QED BY <1>3, <1>4, <2>1, <2>5, <3>1 DEF CtlWaiting
  <2> QED BY <2>2, <2>3, <2>4, <2>6, CtlOneStep DEF CtlSound
<1> QED BY <1>5, <1>6

\* A step of a waiting call that goes on to another place
LEMMA CtlGoes ==
  ASSUME CtlConstantsOK, CtlInv, NEW d \in Callers, lock = d, at[d] # "idle",
         NEW place \in {"absorb", "events", "state"}, at' = [at EXCEPT ![d] = place],
         UNCHANGED <<plan, lock, pending, steps, events>>, mark' \in [Callers -> Nat],
         moved' \in [Callers -> BOOLEAN], truth' \in [Callers -> CtlTruth],
         \A c \in Callers \ {d} : mark'[c] = mark[c] /\ moved'[c] = moved[c]
         /\ truth'[c] = truth[c],
         place = "absorb" => Ctl!This(d).m = "pause",
         CtlWaits(d)', CtlToldNew(d)', CtlWaiting(d)'
  PROVE  CtlInv'
<1>1. CtlTyped'
  BY DEF CtlInv, CtlTyped, CtlCallsTyped
<1>2. CtlAlone(d)
  BY DEF CtlInv, CtlTyped, CtlCallsTyped, CtlAlone
<1>3. CtlPlaced(d)'
  BY DEF CtlInv, CtlTyped, CtlCallsTyped, CtlSound, CtlPlaced, Ctl!This
<1> QED BY <1>1, <1>2, <1>3, CtlOneStep DEF CtlSound

\* A request refused in the state of the debuggee is over.
LEMMA CtlRefused ==
  ASSUME CtlConstantsOK, CtlInv, NEW d \in Callers,
         Ctl!Refused(d) \/ Ctl!AbsorbRedundantRunControl(d)
  PROVE  CtlInv'
<1>1. lock = d /\ at[d] # "idle"
  BY DEF Ctl!Refused, Ctl!AbsorbRedundantRunControl, CtlInv, CtlSound, CtlPlaced
<1>2. CASE Ctl!Breaks(d)
  BY <1>1, <1>2, CtlBreaks
<1>3. CASE ~Ctl!Breaks(d)
  <2>1. PICK place \in {"absorb", "events"} : at' = [at EXCEPT ![d] = place]
    BY <1>3 DEF Ctl!Refused, Ctl!AbsorbRedundantRunControl, Ctl!Goto
  <2>2. Ctl!This(d).m = "pause"
    BY <1>3 DEF Ctl!Refused, Ctl!AbsorbRedundantRunControl, CtlInv, CtlSound, CtlPlaced
  <2>3. UNCHANGED <<plan, mark, moved, lock, pending, steps, events, truth>>
    BY <1>3 DEF Ctl!Refused, Ctl!AbsorbRedundantRunControl, Ctl!debugger
  <2>4. CtlWaits(d)' /\ CtlToldNew(d)' /\ CtlWaiting(d)'
    BY <2>2, <2>3 DEF CtlInv, CtlSound, CtlWaits, CtlToldNew, CtlWaiting, CtlAwaits, Ctl!This
  <2> QED BY <1>1, <2>1, <2>2, <2>3, <2>4, CtlGoes DEF CtlInv, CtlTyped, CtlCallsTyped
<1> QED BY <1>2, <1>3

\* The caller looks for its event among those published since its marker.
LEMMA CtlReadsEvents ==
  ASSUME CtlConstantsOK, CtlInv, NEW d \in Callers, Ctl!ReadEvents(d)
  PROVE  CtlInv'
<1>1. lock = d /\ at[d] = "events"
  BY DEF Ctl!ReadEvents, CtlInv, CtlSound, CtlPlaced
<1>2. CASE Ctl!Breaks(d)
  BY <1>1, <1>2, CtlBreaks
<1>3. CASE ~Ctl!Breaks(d)
  <2>1. /\ at' = [at EXCEPT ![d] = "state"]
        /\ moved' = [moved EXCEPT ![d] = @ \/ Ctl!Observed(d)]
        /\ mark' = IF moved[d] THEN mark ELSE [mark EXCEPT ![d] = Len(events)]
        /\ UNCHANGED <<plan, lock, pending, steps, events, truth>>
    BY <1>3 DEF Ctl!ReadEvents, Ctl!Goto, Ctl!debugger
  <2>2. Len(events) \in Nat /\ DOMAIN events = 1..Len(events)
    BY DEF CtlInv, CtlTyped
  <2>3. /\ moved' \in [Callers -> BOOLEAN] /\ moved'[d] = (moved[d] \/ Ctl!Observed(d))
        /\ \A c \in Callers \ {d} : moved'[c] = moved[c]
    BY <2>1 DEF CtlInv, CtlTyped, CtlCallsTyped
  <2>4. /\ mark' \in [Callers -> Nat] /\ mark'[d] = IF moved[d] THEN mark[d] ELSE Len(events)
        /\ \A c \in Callers \ {d} : mark'[c] = mark[c]
    BY <2>1, <2>2 DEF CtlInv, CtlTyped, CtlCallsTyped
  <2>5. CtlWaits(d)' /\ CtlToldNew(d)'
    BY <1>1, <2>1 DEF CtlInv, CtlSound, CtlWaits, CtlToldNew, Ctl!This
  <2>6. CtlWaiting(d)'
    <3>1. CtlAwaits(d)' => CtlAwaits(d)
      BY <1>1, <2>1 DEF CtlAwaits, Ctl!This
    <3>2. Ctl!Observed(d) => ~CtlQuiet(d)
      BY <2>2 DEF Ctl!Observed, Ctl!HasTransition, CtlQuiet
    <3>4. CtlWaiting(d) /\ (~moved[d] => \A i \in DOMAIN events : ~(i > mark'[d]))
          /\ (moved[d] => mark'[d] = mark[d])
      BY <2>2, <2>4 DEF CtlInv, CtlSound
    <3>5. CtlQuiet(d) => CtlQuiet(d)'
      <4>1. Ctl!This(d)' = Ctl!This(d) /\ steps' = steps /\ events' = events
        BY <2>1 DEF Ctl!This
      <4> QED BY <3>4, <4>1 DEF CtlQuiet, Ctl!Transitions
    <3> QED BY <2>1, <2>3, <3>1, <3>2, <3>4, <3>5 DEF CtlWaiting
  <2> QED BY <1>1, <2>1, <2>3, <2>4, <2>5, <2>6, CtlGoes DEF CtlInv, CtlTyped
<1> QED BY <1>2, <1>3

\* It asks for the state when it saw no event.
LEMMA CtlReadsState ==
  ASSUME CtlConstantsOK, CtlInv, NEW d \in Callers, Ctl!ReadState(d)
  PROVE  CtlInv'
<1>1. lock = d /\ at[d] = "state"
  BY DEF Ctl!ReadState, CtlInv, CtlSound, CtlPlaced
<1>2. CASE Ctl!Breaks(d)
  BY <1>1, <1>2, CtlBreaks
<1>3. CASE ~Ctl!Breaks(d) /\ ~Ctl!Reached(d)
  <2>1. at' = [at EXCEPT ![d] = "events"]
        /\ UNCHANGED <<plan, mark, moved, lock, pending, steps, events, truth>>
    BY <1>3 DEF Ctl!ReadState, Ctl!Goto, Ctl!debugger
  <2>2. CtlQuiet(d) => CtlQuiet(d)'
    BY <2>1 DEF CtlQuiet, Ctl!Transitions, Ctl!This
  <2>3. CtlWaits(d)' /\ CtlToldNew(d)' /\ CtlWaiting(d)'
    BY <1>1, <2>1, <2>2 DEF CtlInv, CtlTyped, CtlCallsTyped, CtlSound, CtlWaits, CtlToldNew,
       CtlWaiting, CtlAwaits, Ctl!This
  <2> QED BY <1>1, <2>1, <2>3, CtlGoes DEF CtlInv, CtlTyped, CtlCallsTyped
<1>4. CASE ~Ctl!Breaks(d) /\ Ctl!Reached(d)
  <2>1. /\ Ctl!Continues(d) /\ UNCHANGED <<pending, steps, events>> /\ moved[d]
        /\ truth' = IF Ctl!This(d).m \in {"resume",
           "step"} THEN [truth EXCEPT ![d].claimed = TRUE] ELSE truth
    BY <1>4 DEF Ctl!ReadState, Ctl!Reached, Ctl!debugger
  <2>2. /\ truth' \in [Callers -> CtlTruth] /\ \A c \in Callers \ {d} : truth'[c] = truth[c]
        /\ truth'[d].crowded = truth[d].crowded /\ truth'[d].done = truth[d].done
        /\ Ctl!This(d).m \in {"resume", "step"} \/ truth'[d].claimed = truth[d].claimed
    BY <2>1, CtlWrites DEF CtlInv, CtlTyped
  <2>3. CtlToldNew(d)'
    <3>1. CASE Ctl!This(d).m \in {"resume", "step"}
      <4>1. CtlAwaits(d) /\ CtlWaiting(d)
        BY <1>1, <3>1 DEF CtlInv, CtlSound, CtlWaits, CtlAwaits
      <4> QED BY <2>1, <2>2, <4>1 DEF CtlWaiting, CtlToldNew
    <3>2. CASE ~(Ctl!This(d).m \in {"resume", "step"})
      BY <2>2, <3>2 DEF CtlInv, CtlSound, CtlToldNew
    <3> QED BY <3>1, <3>2
  <2> QED BY <1>1, <2>1, <2>2, <2>3, CtlOver DEF CtlInv, CtlTyped, CtlTruth
<1> QED BY <1>2, <1>3, <1>4

\* What the debugger does: callers stay where they are, what is published of
\* a command that somebody waits for is published when it was executed
LEMMA CtlDebugger ==
  ASSUME CtlConstantsOK, CtlInv, UNCHANGED <<at, plan, mark, moved, lock>>,
         pending' \in Seq(CtlCommand), truth' \in [Callers -> CtlTruth],
         \A i \in DOMAIN pending' : \E j \in DOMAIN pending : pending'[i] = pending[j],
         \A c \in Callers : truth'[c].claimed = truth[c].claimed
         /\ truth'[c].crowded = truth[c].crowded
                           /\ (truth[c].done => truth'[c].done),
         NEW kind \in CtlKinds, events' = events \/ events' = Append(events, kind),
         steps' \in Nat,
         \A c \in Callers :
            \/ truth'[c].done
            \/ \E i \in DOMAIN pending : pending[i].by # c
            \/ /\ kind = "other" \/ (kind = "stepped" /\ steps # 0)
               /\ steps = 0 => steps' = 0
  PROVE  CtlInv'
<1>1. events' \in Seq(CtlKinds)
      /\ \A i \in DOMAIN events' : events'[i] = kind \/ (i \in DOMAIN events
         /\ events'[i] = events[i])
  <2>1. CASE events' = events
    BY <2>1 DEF CtlInv, CtlTyped
  <2>2. CASE events' = Append(events, kind)
    <3>1. events \in Seq(CtlKinds)
      BY DEF CtlInv, CtlTyped
    <3>2. events' \in Seq(CtlKinds)
          /\ \A i \in DOMAIN events' : events'[i] = IF i \in DOMAIN events THEN events[i] ELSE kind
      BY <2>2, <3>1, CtlAppends
    <3> QED BY <3>2
  <2> QED BY <2>1, <2>2
<1>2. CtlTyped'
  BY <1>1 DEF CtlInv, CtlTyped, CtlCallsTyped
<1>3. ASSUME NEW c \in Callers PROVE CtlSound(c)'
  <2>1. CtlSound(c)
    BY DEF CtlInv
  <2>2. CtlPlaced(c)' /\ CtlWaits(c)' /\ CtlToldNew(c)'
    BY <2>1 DEF CtlSound, CtlPlaced, CtlWaits, CtlToldNew, Ctl!This
  <2>3. CtlWaiting(c)'
    <3>1. SUFFICES ASSUME CtlAwaits(c), ~truth[c].crowded
          PROVE  /\ \A i \in DOMAIN pending' : pending'[i].by = c
                 /\ moved[c] => truth'[c].done
                 /\ truth'[c].done \/ CtlQuiet(c)'
      BY DEF CtlWaiting, CtlAwaits, Ctl!This
    <3>2. /\ \A i \in DOMAIN pending : pending[i].by = c
          /\ moved[c] => truth[c].done
          /\ truth[c].done \/ CtlQuiet(c)
      BY <2>1, <3>1 DEF CtlSound, CtlWaiting
    <3>3. \A i \in DOMAIN pending' : pending'[i].by = c
      BY <3>2
    <3>4. \/ truth'[c].done
          \/ /\ kind = "other" \/ (kind = "stepped" /\ steps # 0)
             /\ steps = 0 => steps' = 0
      BY <3>2
    <3>5. ASSUME CtlQuiet(c), ~truth'[c].done PROVE CtlQuiet(c)'
      <4>1. Ctl!This(c)' = Ctl!This(c) /\ mark' = mark
        BY DEF Ctl!This
      <4>2. kind \notin Ctl!Transitions(Ctl!This(c).m)
        BY <3>4, <3>5 DEF CtlQuiet, Ctl!Transitions
      <4> QED BY <1>1, <3>4, <3>5, <4>1, <4>2 DEF CtlQuiet, Ctl!Transitions
    <3> QED BY <3>2, <3>3, <3>5
  <2> QED BY <2>2, <2>3 DEF CtlSound
<1> QED BY <1>2, <1>3 DEF CtlInv

\* The main thread of the debugger executes a command; what it published is new.
LEMMA CtlExecutes == ASSUME CtlConstantsOK, CtlInv, Ctl!Executes PROVE CtlInv'
<1>1. /\ UNCHANGED <<at, plan, mark, moved, lock>> /\ pending # <<>> /\ pending' = Tail(pending)
      /\ pending \in Seq(CtlCommand)
  BY DEF Ctl!Executes, Ctl!Callers_, CtlInv, CtlTyped
<1>2. /\ pending' \in Seq(CtlCommand)
      /\ 1 \in DOMAIN pending /\ Head(pending) = pending[1] /\ Head(pending).by \in Callers
      /\ \A i \in DOMAIN pending' : i + 1 \in DOMAIN pending /\ pending'[i] = pending[i + 1]
  <2>1. /\ pending' \in Seq(CtlCommand)
        /\ 1 \in DOMAIN pending /\ Head(pending) = pending[1]
        /\ Head(pending) \in CtlCommand
        /\ \A i \in DOMAIN pending' : i + 1 \in DOMAIN pending /\ pending'[i] = pending[i + 1]
    BY <1>1, CtlTails
  <2> QED BY <2>1 DEF CtlCommand
<1>3. \A i \in DOMAIN pending' : \E j \in DOMAIN pending : pending'[i] = pending[j]
  BY <1>2
<1>s. steps' \in Nat
  BY DEF Ctl!Executes, Ctl!Interrupted, CtlInv, CtlTyped
<1>4. CASE /\ truth' = truth /\ (events' = events \/ events' = Append(events, "other"))
           /\ steps = 0 => steps' = 0
  BY <1>1, <1>2, <1>3, <1>s, <1>4, CtlDebugger DEF CtlKinds, CtlInv, CtlTyped
<1>5. CASE truth' = [truth EXCEPT ![Head(pending).by].done = TRUE]
           /\ \E kind \in CtlKinds : events' = events \/ events' = Append(events, kind)
  <2>1. PICK kind \in CtlKinds : events' = events \/ events' = Append(events, kind)
    BY <1>5
  <2>2. /\ truth' \in [Callers -> CtlTruth]
        /\ \A c \in Callers \ {Head(pending).by} : truth'[c] = truth[c]
        /\ truth'[Head(pending).by].crowded = truth[Head(pending).by].crowded
        /\ truth'[Head(pending).by].claimed = truth[Head(pending).by].claimed
        /\ truth'[Head(pending).by].done
    <3>1. CtlTyped /\ TRUE \in BOOLEAN
      BY DEF CtlInv
    <3> QED BY <1>2, <1>5, <3>1, CtlWrites
  <2>3. \A c \in Callers : truth'[c].claimed = truth[c].claimed
        /\ truth'[c].crowded = truth[c].crowded
                          /\ (truth[c].done => truth'[c].done)
    BY <1>2, <2>2
  <2>4. \A c \in Callers : truth'[c].done \/ \E i \in DOMAIN pending : pending[i].by # c
    BY <1>2, <2>2
  <2> QED BY <1>1, <1>2, <1>3, <1>s, <2>1, <2>2, <2>3, <2>4, CtlDebugger
<1> QED BY <1>4, <1>5 DEF Ctl!Executes, Ctl!Publish, Ctl!Interrupted, CtlKinds

\* The debuggee stops by itself, or something else is published.
LEMMA CtlHappens ==
  ASSUME CtlConstantsOK, CtlInv, Ctl!DebuggeeStops \/ Ctl!SomethingElse \/ UNCHANGED Ctl!vars
  PROVE  CtlInv'
<1>1. /\ UNCHANGED <<at, plan, mark, moved, lock, pending, truth>>
  BY DEF Ctl!DebuggeeStops, Ctl!SomethingElse, Ctl!Callers_, Ctl!vars
<1>2. \E kind \in {"stepped", "other"} :
         /\ events' = events \/ events' = Append(events, kind)
         /\ kind = "stepped" => steps # 0
         /\ steps' \in Nat /\ (steps = 0 => steps' = 0)
  <2>1. steps \in Nat
    BY DEF CtlInv, CtlTyped
  <2>2. CASE Ctl!DebuggeeStops
    BY <2>1, <2>2 DEF Ctl!DebuggeeStops, Ctl!Interrupted, Ctl!Publish
  <2>3. CASE Ctl!SomethingElse \/ UNCHANGED Ctl!vars
    BY <2>1, <2>3 DEF Ctl!SomethingElse, Ctl!Publish, Ctl!vars
  <2> QED BY <2>2, <2>3
<1>3. PICK kind \in {"stepped", "other"} :
         /\ events' = events \/ events' = Append(events, kind)
         /\ kind = "stepped" => steps # 0
         /\ steps' \in Nat /\ (steps = 0 => steps' = 0)
  BY <1>2
<1>4. /\ kind \in CtlKinds
      /\ pending' \in Seq(CtlCommand) /\ truth' \in [Callers -> CtlTruth]
      /\ \A i \in DOMAIN pending' : \E j \in DOMAIN pending : pending'[i] = pending[j]
  BY <1>1 DEF CtlInv, CtlTyped, CtlKinds
<1>5. \A c \in Callers : /\ truth'[c].claimed = truth[c].claimed
                         /\ truth'[c].crowded = truth[c].crowded
                         /\ truth[c].done => truth'[c].done
  BY <1>1
<1>6. \A c \in Callers :
         \/ truth'[c].done
         \/ \E i \in DOMAIN pending : pending[i].by # c
         \/ /\ kind = "other" \/ (kind = "stepped" /\ steps # 0)
            /\ steps = 0 => steps' = 0
  BY <1>3
<1>7. UNCHANGED <<at, plan, mark, moved, lock>>
      /\ (events' = events \/ events' = Append(events, kind)) /\ steps' \in Nat
  BY <1>1, <1>3
<1> QED BY <1>4, <1>5, <1>6, <1>7, CtlDebugger

\* Every step keeps the invariant.
LEMMA CtlStays == ASSUME CtlConstantsOK, CtlInv, [Ctl!Next]_Ctl!vars PROVE CtlInv'
  BY CtlCall, CtlEnters, CtlAway, CtlMarks, CtlSubmits, CtlRefused, CtlReadsEvents, CtlReadsState,
     CtlExecutes, CtlHappens DEF Ctl!Next, Ctl!DynamicRequest

\* What is to be shown of it.
LEMMA CtlImplies == CtlInv => Ctl!StopIsNew
  BY DEF CtlInv, CtlSound, CtlToldNew, Ctl!StopIsNew

(* A resume or a step told to have ended in a stop was executed             *)
(* (_dynamic_request, service.py:2839), unless the event of a command of    *)
(* before was still to come: the wait takes no event of before its marker   *)
(* for its own.                                                             *)
THEOREM CtlStopIsNew == ASSUME CtlConstantsOK PROVE Ctl!Spec => []Ctl!StopIsNew
<1> QED BY CtlStarts, CtlStays, CtlImplies, PTL DEF Ctl!Spec

-----------------------------------------------------------------------------
(***************************************************************************)
(* Stealth profiles (Stealth)                                              *)
(*                                                                         *)
(* The invariant follows what a call read in the file of profiles: what it *)
(* is about to write or to start with is what the file still says, or      *)
(* somebody wrote, or a session became live, since it looked.              *)
(***************************************************************************)

\* "none" is neither a session nor a profile, and every session has an architecture
HidConstantsOK ==
    /\ Hid!Nothing \notin Sessions /\ Hid!Nothing \notin Hid!All
    /\ ArchOf \in [Sessions -> Archs] /\ MaxCalls \in Nat

HidDoing == [op : {Hid!Nothing, "launch", "open", "set"},
      s : Sessions \cup Archs \cup {Hid!Nothing},
             want : Hid!All \cup {Hid!Nothing}, saw : Hid!All \cup {Hid!Nothing},
             desired : Hid!All \cup {Hid!Nothing},
             opens : BOOLEAN, todo : SUBSET Archs]

HidTyped == Hid!TypeOK /\ doing \in [Callers -> HidDoing]

\* What a call is at, and what it read, as long as nobody has written since
HidPlaced(c) ==
    LET d == doing[c]
    IN  /\ at[c] \in {"decide", "check", "write", "begin", "start", "debug"} => d.s \in Sessions
        /\ at[c] = "apply" => d.s \in Archs
        /\ at[c] \in {"decide", "check"} => d.saw \in Hid!All
           /\ (d.saw = ini[ArchOf[d.s]] \/ stale[c])
        /\ at[c] \in {"check", "write", "set", "apply"} => d.desired \in Hid!All
        /\ at[c] \in {"begin", "start", "debug"} =>
             d.desired = Hid!Nothing \/ d.desired = ini[ArchOf[d.s]] \/ stale[c]
        /\ at[c] = "start" => phase[d.s] = "opening"

HidPlaces == \A c \in Callers : HidPlaced(c)

\* One thread starts a session's debugger
HidStarters ==
    \A c, d \in Callers : at[c] = "start" /\ at[d] = "start" /\ doing[c].s = doing[d].s => c = d

\* A session that became live under a caller about to write is known for it
HidWriters == \A s \in Sessions : Hid!Active(s) /\ Hid!AboutToWrite(ArchOf[s]) => raced[s]

HidTells(c) == told[c] # Hid!NoTold =>
    /\ told[c].s \in Sessions /\ phase[told[c].s] = "ready"
    /\ under[told[c].s] = told[c].p \/ stale[c] \/ raced[told[c].s]

HidTold == \A c \in Callers : HidTells(c)

HidInv == HidTyped /\ HidPlaces /\ HidStarters /\ HidWriters /\ Hid!FileIsWhatRuns /\ HidTold

HidAts == {"idle", "decide", "check", "write", "begin", "start", "debug", "set", "apply"}
HidTold_ == [s : Sessions \cup {Hid!Nothing}, p : Hid!All \cup {Hid!Nothing}]

\* Every file is as the profiles say, and no debugger runs.
LEMMA HidStarts == ASSUME HidConstantsOK, Hid!Init PROVE HidInv
<1>1. HidTyped
  BY DEF HidConstantsOK, Hid!Init, HidTyped, Hid!TypeOK, HidDoing, Hid!NoCall, Hid!NoTold, Hid!All
<1>2. HidPlaces /\ HidStarters /\ HidWriters /\ Hid!FileIsWhatRuns /\ HidTold
  BY DEF Hid!Init, HidPlaces, HidPlaced, HidStarters, HidWriters, Hid!FileIsWhatRuns, HidTold,
     HidTells, Hid!NoTold, Hid!Active,
         Hid!AboutToWrite
<1> QED BY <1>1, <1>2 DEF HidInv

\* A step that leaves files and debuggers alone
LEMMA HidGoes ==
  ASSUME HidConstantsOK, HidInv, NEW c \in Callers, NEW place \in HidAts \ {"start"},
         at' = [at EXCEPT ![c] = place], NEW d \in HidDoing, doing' = [doing EXCEPT ![c] = d],
         UNCHANGED <<setup, ini, phase, under, raced>>, calls' \in 0..MaxCalls,
         \/ stale' = stale
         \/ stale' = [stale EXCEPT ![c] = FALSE] /\ told' = [told EXCEPT ![c] = Hid!NoTold],
         NEW w \in HidTold_, told' = told \/ told' = [told EXCEPT ![c] = w],
         w = Hid!NoTold \/ (w.s \in Sessions /\ phase[w.s] = "ready"
                            /\ (under[w.s] = w.p \/ stale'[c] \/ raced[w.s])),
         HidPlaced(c)',
         place = "write" => Hid!LiveStealthSessions(ArchOf[d.s]) = {},
         place = "apply" => Hid!LiveStealthSessions(d.s) = {}
  PROVE  HidInv'
<1>1. /\ at' \in [Callers -> HidAts] /\ at'[c] = place /\ \A e \in Callers \ {c} : at'[e] = at[e]
      /\ doing' \in [Callers -> HidDoing] /\ doing'[c] = d
      /\ \A e \in Callers \ {c} : doing'[e] = doing[e]
      /\ stale' \in [Callers -> BOOLEAN] /\ \A e \in Callers \ {c} : stale'[e] = stale[e]
  BY DEF HidInv, HidTyped, Hid!TypeOK, HidAts
<1>2. /\ told' \in [Callers -> HidTold_] /\ \A e \in Callers \ {c} : told'[e] = told[e]
      /\ told'[c] = told[c] \/ told'[c] = w
  BY DEF HidInv, HidTyped, Hid!TypeOK, HidTold_
<1>3. HidTyped'
  BY <1>1, <1>2 DEF HidInv, HidTyped, Hid!TypeOK, HidAts, HidTold_
<1>4. HidPlaces'
  <2>1. ASSUME NEW e \in Callers, e # c PROVE HidPlaced(e)'
    BY <1>1, <2>1 DEF HidInv, HidPlaces, HidPlaced
  <2> QED BY <2>1 DEF HidPlaces
<1>5. HidStarters'
  BY <1>1 DEF HidInv, HidStarters
<1>6. HidWriters'
  <2>1. SUFFICES ASSUME NEW s \in Sessions, Hid!Active(s), NEW e \in Callers,
                        \/ at'[e] = "write" /\ ArchOf[doing'[e].s] = ArchOf[s]
                        \/ at'[e] = "apply" /\ doing'[e].s = ArchOf[s]
        PROVE  raced[s]
    BY DEF HidWriters, Hid!AboutToWrite, Hid!Active
  <2>2. CASE e = c
    BY <1>1, <2>1, <2>2 DEF Hid!LiveStealthSessions
  <2>3. CASE e # c
    <3>1. Hid!AboutToWrite(ArchOf[s])
      BY <1>1, <2>1, <2>3 DEF Hid!AboutToWrite
    <3> QED BY <2>1, <3>1 DEF HidInv, HidWriters
  <2> QED BY <2>2, <2>3
<1>7. Hid!FileIsWhatRuns'
  BY DEF HidInv, Hid!FileIsWhatRuns
<1>8. HidTold'
  <2>1. ASSUME NEW e \in Callers, e # c PROVE HidTells(e)'
    BY <1>1, <1>2, <2>1 DEF HidInv, HidTold, HidTells, Hid!NoTold
  <2>2. HidTells(c)'
    <3>1. CASE stale' = stale
      BY <1>2, <3>1 DEF HidInv, HidTold, HidTells, Hid!NoTold
    <3>2. CASE told' = [told EXCEPT ![c] = Hid!NoTold]
      BY <3>2 DEF HidInv, HidTyped, Hid!TypeOK, HidTells, Hid!NoTold
    <3> QED BY <3>1, <3>2
  <2> QED BY <2>1, <2>2 DEF HidTold
<1> QED BY <1>3, <1>4, <1>5, <1>6, <1>7, <1>8 DEF HidInv

\* A call that goes on and is told nothing yet
LEMMA HidMoves ==
  ASSUME HidConstantsOK, HidInv, NEW c \in Callers, NEW place \in HidAts \ {"start"},
         at' = [at EXCEPT ![c] = place], NEW d \in HidDoing, doing' = [doing EXCEPT ![c] = d],
         UNCHANGED <<setup, ini, phase, under, raced, stale, told, calls>>, HidPlaced(c)',
         place = "write" => Hid!LiveStealthSessions(ArchOf[d.s]) = {},
         place = "apply" => Hid!LiveStealthSessions(d.s) = {}
  PROVE  HidInv'
<1>1. Hid!NoTold \in HidTold_
  BY DEF Hid!NoTold, HidTold_
<1>2. calls' \in 0..MaxCalls
  BY DEF HidInv, HidTyped, Hid!TypeOK
<1> QED BY <1>1, <1>2, HidGoes

\* A call that begins
LEMMA HidBegins ==
  ASSUME HidConstantsOK, HidInv, NEW c \in Callers, NEW place \in {"decide", "begin", "set"},
         at' = [at EXCEPT ![c] = place], NEW d \in HidDoing, doing' = [doing EXCEPT ![c] = d],
         UNCHANGED <<setup, ini, phase, under, raced>>, calls < MaxCalls, calls' = calls + 1,
         told' = [told EXCEPT ![c] = Hid!NoTold],
         stale' = stale \/ stale' = [stale EXCEPT ![c] = FALSE], HidPlaced(c)'
  PROVE  HidInv'
<1>1. Hid!NoTold \in HidTold_
  BY DEF Hid!NoTold, HidTold_
<1>2. calls' \in 0..MaxCalls
  BY DEF HidConstantsOK, HidInv, HidTyped, Hid!TypeOK
<1>3. place \in HidAts \ {"start"}
  BY DEF HidAts
<1> QED BY <1>1, <1>2, <1>3, HidGoes

\* A call that fails was at nothing, and is
LEMMA HidFails ==
  ASSUME HidConstantsOK, HidInv, NEW c \in Callers, Hid!Fails(c), UNCHANGED <<setup, ini, phase,
         under, raced, stale, calls>>
  PROVE  HidInv'
<1>1. Hid!NoCall \in HidDoing /\ "idle" \in HidAts \ {"start"}
  BY DEF Hid!NoCall, HidDoing, HidAts
<1>2. at' = [at EXCEPT ![c] = "idle"] /\ doing' = [doing EXCEPT ![c] = Hid!NoCall] /\ told' = told
  BY DEF Hid!Fails, Hid!Goto
<1>3. HidPlaced(c)'
  BY <1>2 DEF HidInv, HidTyped, Hid!TypeOK, HidPlaced
<1> QED BY <1>1, <1>2, <1>3, HidMoves

\* A call looks at the file.
LEMMA HidCall == ASSUME HidConstantsOK, HidInv, NEW c \in Callers, Hid!Call(c) PROVE HidInv'
<1>0. /\ calls < MaxCalls /\ calls' = calls + 1 /\ told' = [told EXCEPT ![c] = Hid!NoTold]
      /\ stale' = [stale EXCEPT ![c] = FALSE] /\ UNCHANGED <<setup, ini, phase, under, raced>>
  BY DEF Hid!Call, Hid!Sessions_
<1>1. PICK s \in Sessions, d \in HidDoing, place \in {"decide", "begin"} :
          /\ at' = [at EXCEPT ![c] = place] /\ doing' = [doing EXCEPT ![c] = d]
          /\ d.s = s /\ d.saw = ini[ArchOf[s]]
          /\ place = "begin" => d.desired = Hid!Nothing
  <2>1. PICK s \in Sessions :
           \/ \E want \in Hid!All \cup {Hid!Nothing} :
                  /\ doing' = [doing EXCEPT ![c] = [Hid!NoCall EXCEPT
                         !.op = "launch", !.s = s, !.want = want, !.saw = ini[ArchOf[s]]]]
                  /\ Hid!Goto(c, "decide")
           \/ /\ doing' = [doing EXCEPT ![c] = [Hid!NoCall EXCEPT
                     !.op = "open", !.s = s, !.saw = ini[ArchOf[s]], !.opens = TRUE]]
              /\ Hid!Goto(c, IF Hid!Active(s) THEN "begin" ELSE "decide")
    BY DEF Hid!Call
  <2>2. ini[ArchOf[s]] \in Hid!All
    BY DEF HidConstantsOK, HidInv, HidTyped, Hid!TypeOK
  <2>3. CASE \E want \in Hid!All \cup {Hid!Nothing} :
                  /\ doing' = [doing EXCEPT ![c] = [Hid!NoCall EXCEPT
                         !.op = "launch", !.s = s, !.want = want, !.saw = ini[ArchOf[s]]]]
                  /\ Hid!Goto(c, "decide")
    <3>1. PICK want \in Hid!All \cup {Hid!Nothing} :
                  /\ doing' = [doing EXCEPT ![c] = [Hid!NoCall EXCEPT
                         !.op = "launch", !.s = s, !.want = want, !.saw = ini[ArchOf[s]]]]
                  /\ Hid!Goto(c, "decide")
      BY <2>3
    <3>2. PICK d : d = [Hid!NoCall EXCEPT !.op = "launch", !.s = s, !.want = want,
          !.saw = ini[ArchOf[s]]]
      OBVIOUS
    <3>3. d \in HidDoing /\ d.s = s /\ d.saw = ini[ArchOf[s]]
      BY <2>2, <3>2 DEF HidDoing, Hid!NoCall
    <3>4. doing' = [doing EXCEPT ![c] = d] /\ at' = [at EXCEPT ![c] = "decide"]
      BY <3>1, <3>2 DEF Hid!Goto
    <3> QED BY <3>3, <3>4
  <2>4. CASE /\ doing' = [doing EXCEPT ![c] = [Hid!NoCall EXCEPT
                     !.op = "open", !.s = s, !.saw = ini[ArchOf[s]], !.opens = TRUE]]
             /\ Hid!Goto(c, IF Hid!Active(s) THEN "begin" ELSE "decide")
    <3>1. PICK d : d = [Hid!NoCall EXCEPT !.op = "open", !.s = s, !.saw = ini[ArchOf[s]],
          !.opens = TRUE]
      OBVIOUS
    <3>2. d \in HidDoing /\ d.s = s /\ d.saw = ini[ArchOf[s]] /\ d.desired = Hid!Nothing
      BY <2>2, <3>1 DEF HidDoing, Hid!NoCall
    <3>3. doing' = [doing EXCEPT ![c] = d]
      BY <2>4, <3>1
    <3>4. at' = [at EXCEPT ![c] = "begin"] \/ at' = [at EXCEPT ![c] = "decide"]
      BY <2>4 DEF Hid!Goto
    <3> QED BY <3>2, <3>3, <3>4
  <2> QED BY <2>1, <2>3, <2>4
<1>2. HidPlaced(c)'
  BY <1>0, <1>1 DEF HidConstantsOK, HidInv, HidTyped, Hid!TypeOK, HidPlaced
<1> QED BY <1>0, <1>1, <1>2, HidBegins

\* A call that sets a profile.
LEMMA HidCallSet == ASSUME HidConstantsOK, HidInv, NEW c \in Callers, Hid!CallSet(c) PROVE HidInv'
<1>0. /\ calls < MaxCalls /\ calls' = calls + 1 /\ told' = [told EXCEPT ![c] = Hid!NoTold]
      /\ at' = [at EXCEPT ![c] = "set"] /\ UNCHANGED <<setup, ini, phase, under, raced, stale>>
  BY DEF Hid!CallSet, Hid!Goto, Hid!Sessions_
<1>1. PICK p \in Hid!All, todo \in SUBSET Archs :
         doing' = [doing EXCEPT ![c] = [Hid!NoCall EXCEPT !.op = "set", !.desired = p, !.todo = todo]]
  <2>1. PICK p \in Hid!All, todo \in {Archs} \cup {{ArchOf[s]} : s \in Sessions} :
         doing' = [doing EXCEPT ![c] = [Hid!NoCall EXCEPT !.op = "set", !.desired = p, !.todo = todo]]
    BY DEF Hid!CallSet
  <2>2. todo \in SUBSET Archs
    BY DEF HidConstantsOK
  <2> QED BY <2>1, <2>2
<1>2. PICK d : d = [Hid!NoCall EXCEPT !.op = "set", !.desired = p, !.todo = todo]
  OBVIOUS
<1>3. d \in HidDoing /\ d.desired = p
  BY <1>2 DEF HidDoing, Hid!NoCall
<1>4. HidPlaced(c)'
  BY <1>0, <1>1, <1>2, <1>3 DEF HidInv, HidTyped, Hid!TypeOK, HidPlaced
<1>5. doing' = [doing EXCEPT ![c] = d]
  BY <1>1, <1>2
<1> QED BY <1>0, <1>3, <1>4, <1>5, HidBegins

\* The call decides by what it read.
LEMMA HidDecide == ASSUME HidConstantsOK, HidInv, NEW c \in Callers, Hid!Decide(c) PROVE HidInv'
<1>0. UNCHANGED <<setup, ini, phase, under, raced, stale, calls>>
  BY DEF Hid!Decide, Hid!Sessions_
<1>1. CASE Hid!Fails(c)
  BY <1>0, <1>1, HidFails
<1>2. CASE ~Hid!Fails(c)
  <2>1. /\ doing' = [doing EXCEPT ![c].desired = Hid!Desired(doing[c])]
           /\ at' = [at EXCEPT ![c] = "check"]
        /\ told' = told /\ at[c] = "decide"
    BY <1>2 DEF Hid!Decide, Hid!Goto
  <2>2. doing[c] \in HidDoing /\ doing[c].s \in Sessions /\ doing[c].saw \in Hid!All
        /\ (doing[c].saw = ini[ArchOf[doing[c].s]] \/ stale[c])
    BY <2>1 DEF HidInv, HidTyped, HidPlaces, HidPlaced
  <2>3. Hid!Desired(doing[c]) \in Hid!All
    BY <2>2 DEF Hid!Desired, HidInv, HidTyped, Hid!TypeOK, HidDoing, Hid!All
  <2>4. PICK d : d = [doing[c] EXCEPT !.desired = Hid!Desired(doing[c])]
    OBVIOUS
  <2>5. d \in HidDoing /\ d.desired \in Hid!All /\ d.s = doing[c].s /\ d.saw = doing[c].saw
    BY <2>2, <2>3, <2>4 DEF HidDoing
  <2>6. doing' = [doing EXCEPT ![c] = d]
    BY <2>1, <2>4
  <2>7. HidPlaced(c)'
    BY <1>0, <2>1, <2>2, <2>5, <2>6 DEF HidInv, HidTyped, Hid!TypeOK, HidPlaced
  <2>8. "check" \in HidAts \ {"start"}
    BY DEF HidAts
  <2> QED BY <1>0, <2>1, <2>5, <2>6, <2>7, <2>8, HidMoves
<1> QED BY <1>1, <1>2

\* It finds whether a session is live.
LEMMA HidCheck == ASSUME HidConstantsOK, HidInv, NEW c \in Callers, Hid!Check(c) PROVE HidInv'
<1>0. UNCHANGED <<setup, ini, phase, under, raced, stale, calls>> /\ at[c] = "check"
  BY DEF Hid!Check, Hid!Sessions_
<1>1. CASE Hid!Fails(c)
  BY <1>0, <1>1, HidFails
<1>2. CASE ~Hid!Fails(c)
  <2>1. doing[c] \in HidDoing /\ doing[c].s \in Sessions /\ doing[c].saw \in Hid!All
        /\ doing[c].desired \in Hid!All
        /\ (doing[c].saw = ini[ArchOf[doing[c].s]] \/ stale[c])
    BY <1>0 DEF HidInv, HidTyped, HidPlaces, HidPlaced
  <2>2. PICK d : d = [doing[c] EXCEPT !.opens = @ \/ ~Hid!Active(doing[c].s)]
    OBVIOUS
  <2>3. d \in HidDoing /\ d.desired = doing[c].desired /\ d.s = doing[c].s /\ d.saw = doing[c].saw
        /\ d.want = doing[c].want
    BY <2>1, <2>2 DEF HidDoing
  <2>4. PICK n : n = [d EXCEPT !.desired = Hid!Nothing]
    OBVIOUS
  <2>5. n \in HidDoing /\ n.desired = Hid!Nothing /\ n.s = d.s
    BY <2>3, <2>4 DEF HidDoing
  <2>6. \/ Hid!AfterPrepare(c, n)
        \/ d.saw = d.desired /\ Hid!AfterPrepare(c, d)
        \/ /\ Hid!LiveStealthSessions(ArchOf[d.s]) = {} /\ doing' = [doing EXCEPT ![c] = d]
           /\ Hid!Goto(c, "write") /\ UNCHANGED told
    BY <1>2, <2>2, <2>4 DEF Hid!Check
  <2>7. PICK e \in HidDoing, place \in {"begin", "debug", "write"} :
          /\ doing' = [doing EXCEPT ![c] = e] /\ at' = [at EXCEPT ![c] = place] /\ told' = told
          /\ e.s = doing[c].s
          /\ place # "write" => e.desired = Hid!Nothing \/ e.desired = ini[ArchOf[e.s]] \/ stale[c]
          /\ place = "write" => e.desired \in Hid!All /\ Hid!LiveStealthSessions(ArchOf[e.s]) = {}
    BY <2>1, <2>3, <2>5, <2>6 DEF Hid!AfterPrepare, Hid!Goto
  <2>8. HidPlaced(c)'
    BY <1>0, <2>1, <2>7 DEF HidInv, HidTyped, Hid!TypeOK, HidPlaced
  <2>9. place \in HidAts \ {"start"}
    BY DEF HidAts
  <2> QED BY <1>0, <2>7, <2>8, <2>9, HidMoves
<1> QED BY <1>1, <1>2

\* A step that writes a file: of a caller for which no live session of it is unknown
LEMMA HidWrites ==
  ASSUME HidConstantsOK, HidInv, NEW c \in Callers, NEW a \in Archs, NEW p \in Hid!All,
         Hid!AboutToWrite(a), Hid!Writes(c, a, p),
         NEW place \in {"idle", "begin", "debug", "set"}, at' = [at EXCEPT ![c] = place],
         NEW d \in HidDoing, doing' = [doing EXCEPT ![c] = d],
         UNCHANGED <<setup, phase, under, raced, calls>>,
         told' = told \/ told' = [told EXCEPT ![c] = Hid!NoTold], HidPlaced(c)'
  PROVE  HidInv'
<1>1. /\ at' \in [Callers -> HidAts] /\ at'[c] = place /\ \A e \in Callers \ {c} : at'[e] = at[e]
      /\ doing' \in [Callers -> HidDoing] /\ doing'[c] = d
      /\ \A e \in Callers \ {c} : doing'[e] = doing[e]
  BY DEF HidInv, HidTyped, Hid!TypeOK, HidAts
<1>2. /\ stale' \in [Callers -> BOOLEAN] /\ stale'[c] = stale[c]
      /\ \A e \in Callers : stale[e] => stale'[e]
      /\ \A e \in Callers \ {c} : at[e] # "idle" => stale'[e]
  BY DEF HidInv, HidTyped, Hid!TypeOK, Hid!Writes
<1>3. /\ told' \in [Callers -> HidTold_]
         /\ \A e \in Callers : told'[e] = told[e] \/ told'[e] = Hid!NoTold
  BY DEF HidInv, HidTyped, Hid!TypeOK, HidTold_, Hid!NoTold
<1>4. /\ ini' \in [Archs -> Hid!All] /\ ini'[a] = p /\ \A b \in Archs \ {a} : ini'[b] = ini[b]
  BY DEF HidInv, HidTyped, Hid!TypeOK, Hid!Writes
<1>5. HidTyped'
  BY <1>1, <1>2, <1>3, <1>4 DEF HidInv, HidTyped, Hid!TypeOK, HidAts, HidTold_
<1>6. HidPlaces'
  <2>1. ASSUME NEW e \in Callers, e # c PROVE HidPlaced(e)'
    <3>1. HidPlaced(e) /\ at'[e] = at[e] /\ doing'[e] = doing[e] /\ (at[e] # "idle" => stale'[e])
      BY <1>1, <1>2, <2>1 DEF HidInv, HidPlaces
    <3> QED BY <3>1 DEF HidPlaced
  <2> QED BY <2>1 DEF HidPlaces
<1>7. HidStarters'
  BY <1>1 DEF HidInv, HidStarters
<1>8. HidWriters'
  <2>1. SUFFICES ASSUME NEW s \in Sessions, Hid!Active(s), NEW e \in Callers,
                        \/ at'[e] = "write" /\ ArchOf[doing'[e].s] = ArchOf[s]
                        \/ at'[e] = "apply" /\ doing'[e].s = ArchOf[s]
        PROVE  raced[s]
    BY DEF HidWriters, Hid!AboutToWrite, Hid!Active
  <2>2. e # c
    BY <1>1, <2>1
  <2>3. Hid!AboutToWrite(ArchOf[s])
    BY <1>1, <2>1, <2>2 DEF Hid!AboutToWrite
  <2> QED BY <2>1, <2>3 DEF HidInv, HidWriters
<1>9. Hid!FileIsWhatRuns'
  <2>1. SUFFICES ASSUME NEW s \in Sessions, phase[s] = "ready"
                        PROVE under[s] = ini'[ArchOf[s]] \/ raced[s]
    BY DEF Hid!FileIsWhatRuns
  <2>2. ArchOf[s] \in Archs
    BY DEF HidConstantsOK
  <2>3. CASE ArchOf[s] = a
    BY <2>1, <2>3 DEF HidInv, HidWriters, Hid!Active
  <2>4. CASE ArchOf[s] # a
    BY <1>4, <2>1, <2>2, <2>4 DEF HidInv, Hid!FileIsWhatRuns
  <2> QED BY <2>3, <2>4
<1>10. HidTold'
  <2>1. ASSUME NEW e \in Callers PROVE HidTells(e)'
    <3>1. HidTells(e) /\ (told'[e] = told[e] \/ told'[e] = Hid!NoTold) /\ (stale[e] => stale'[e])
      BY <1>2, <1>3 DEF HidInv, HidTold
    <3> QED BY <3>1 DEF HidTells
  <2> QED BY <2>1 DEF HidTold
<1> QED BY <1>5, <1>6, <1>7, <1>8, <1>9, <1>10 DEF HidInv

\* It writes the file, and so makes what the others read stale.
LEMMA HidWrite == ASSUME HidConstantsOK, HidInv, NEW c \in Callers, Hid!Write(c) PROVE HidInv'
<1>0. UNCHANGED <<setup, phase, under, raced, calls>> /\ at[c] = "write"
  BY DEF Hid!Write, Hid!Sessions_
<1>1. CASE Hid!Fails(c) /\ UNCHANGED <<ini, stale>>
  BY <1>0, <1>1, HidFails
<1>2. CASE Hid!Writes(c, ArchOf[doing[c].s], doing[c].desired) /\ Hid!AfterPrepare(c, doing[c])
  <2>1. doing[c] \in HidDoing /\ doing[c].s \in Sessions /\ doing[c].desired \in Hid!All
    BY <1>0 DEF HidInv, HidTyped, HidPlaces, HidPlaced
  <2>2. ArchOf[doing[c].s] \in Archs /\ Hid!AboutToWrite(ArchOf[doing[c].s])
    BY <1>0, <2>1 DEF HidConstantsOK, Hid!AboutToWrite
  <2>3. PICK place \in {"begin", "debug"} :
          at' = [at EXCEPT ![c] = place] /\ doing' = [doing EXCEPT ![c] = doing[c]] /\ told' = told
    BY <1>2 DEF Hid!AfterPrepare, Hid!Goto
  <2>4. ini'[ArchOf[doing[c].s]] = doing[c].desired
    BY <1>2, <2>2 DEF HidInv, HidTyped, Hid!TypeOK, Hid!Writes
  <2>5. HidPlaced(c)'
    BY <2>1, <2>3, <2>4 DEF HidInv, HidTyped, Hid!TypeOK, HidPlaced
  <2> QED BY <1>0, <1>2, <2>1, <2>2, <2>3, <2>5, HidWrites
<1> QED BY <1>0, <1>1, <1>2 DEF Hid!Write

\* A set finds that no session of the architecture is live.
LEMMA HidCheckIdle == ASSUME HidConstantsOK, HidInv, NEW c \in Callers, Hid!CheckIdle(c)
      PROVE HidInv'
<1>0. UNCHANGED <<setup, ini, phase, under, raced, stale, calls>> /\ at[c] = "set"
  BY DEF Hid!CheckIdle, Hid!Sessions_
<1>1. CASE Hid!Fails(c)
  BY <1>0, <1>1, HidFails
<1>2. CASE ~Hid!Fails(c)
  <2>1. doing[c] \in HidDoing /\ doing[c].desired \in Hid!All
    BY <1>0 DEF HidInv, HidTyped, HidPlaces, HidPlaced
  <2>2. PICK a \in doing[c].todo :
          /\ Hid!LiveStealthSessions(a) = {}
             /\ doing' = [doing EXCEPT ![c].todo = @ \ {a}, ![c].s = a]
          /\ at' = [at EXCEPT ![c] = "apply"] /\ told' = told
    BY <1>2 DEF Hid!CheckIdle, Hid!Goto
  <2>3. a \in Archs /\ doing[c].todo \in SUBSET Archs
    BY <2>1 DEF HidDoing
  <2>4. PICK d : d = [doing[c] EXCEPT !.todo = @ \ {a}, !.s = a]
    OBVIOUS
  <2>5. d \in HidDoing /\ d.s = a /\ d.desired \in Hid!All
    BY <2>1, <2>3, <2>4 DEF HidDoing
  <2>6. doing' = [doing EXCEPT ![c] = d]
    BY <2>2, <2>4 DEF HidInv, HidTyped
  <2>7. HidPlaced(c)'
    BY <1>0, <2>2, <2>3, <2>5, <2>6 DEF HidInv, HidTyped, Hid!TypeOK, HidPlaced
  <2>8. "apply" \in HidAts \ {"start"}
    BY DEF HidAts
  <2> QED BY <1>0, <2>2, <2>5, <2>6, <2>7, <2>8, HidMoves
<1> QED BY <1>1, <1>2

\* A set writes the files one after the other.
LEMMA HidApply == ASSUME HidConstantsOK, HidInv, NEW c \in Callers, Hid!Apply(c) PROVE HidInv'
<1>0. UNCHANGED <<setup, phase, under, raced, calls>> /\ at[c] = "apply"
  BY DEF Hid!Apply, Hid!Sessions_
<1>1. CASE Hid!Fails(c) /\ UNCHANGED <<ini, stale>>
  BY <1>0, <1>1, HidFails
<1>2. CASE /\ Hid!Writes(c, doing[c].s, doing[c].desired)
           /\ IF doing[c].todo = {} THEN Hid!Succeeds(c, Hid!NoTold)
              ELSE Hid!Goto(c, "set") /\ UNCHANGED <<doing, told>>
  <2>1. doing[c] \in HidDoing /\ doing[c].s \in Archs /\ doing[c].desired \in Hid!All
    BY <1>0 DEF HidInv, HidTyped, HidPlaces, HidPlaced
  <2>2. Hid!AboutToWrite(doing[c].s)
    BY <1>0 DEF Hid!AboutToWrite
  <2>3. Hid!NoCall \in HidDoing
    BY DEF Hid!NoCall, HidDoing
  <2>4. doing = [doing EXCEPT ![c] = doing[c]]
    BY DEF HidInv, HidTyped
  <2>5. PICK place \in {"idle", "set"}, d \in HidDoing :
          /\ at' = [at EXCEPT ![c] = place] /\ doing' = [doing EXCEPT ![c] = d]
          /\ told' = told \/ told' = [told EXCEPT ![c] = Hid!NoTold]
          /\ place = "set" => d.desired \in Hid!All
    BY <1>2, <2>1, <2>3, <2>4 DEF Hid!Succeeds, Hid!Goto
  <2>6. HidPlaced(c)'
    BY <2>5 DEF HidInv, HidTyped, Hid!TypeOK, HidPlaced
  <2> QED BY <1>0, <1>2, <2>1, <2>2, <2>5, <2>6, HidWrites
<1> QED BY <1>0, <1>1, <1>2 DEF Hid!Apply

\* What an open or a launch answers of a debugger that is ready
HidAnswer(c) == IF doing[c].desired = Hid!Nothing THEN Hid!NoTold ELSE [s |-> doing[c].s,
      p |-> doing[c].desired]

\* A call that succeeds tells of the profile it started or found.
LEMMA HidAnswers ==
  ASSUME HidConstantsOK, HidInv, NEW c \in Callers, at[c] \in {"begin", "debug"},
         phase[doing[c].s] = "ready",
         Hid!Succeeds(c, HidAnswer(c)), UNCHANGED <<setup, ini, phase, under, raced, stale, calls>>
  PROVE  HidInv'
<1>1. doing[c] \in HidDoing /\ doing[c].s \in Sessions
      /\ (doing[c].desired = Hid!Nothing \/ doing[c].desired = ini[ArchOf[doing[c].s]] \/ stale[c])
  BY DEF HidInv, HidTyped, HidPlaces, HidPlaced
<1>2. under[doing[c].s] = ini[ArchOf[doing[c].s]] \/ raced[doing[c].s]
  BY <1>1 DEF HidInv, Hid!FileIsWhatRuns
<1>3. PICK w : w = HidAnswer(c)
  OBVIOUS
<1>4. /\ w \in HidTold_
      /\ w = Hid!NoTold \/ (w.s \in Sessions /\ phase[w.s] = "ready"
         /\ (under[w.s] = w.p \/ stale[c] \/ raced[w.s]))
  BY <1>1, <1>2, <1>3 DEF HidAnswer, HidTold_, Hid!NoTold, HidDoing
<1>5. Hid!NoCall \in HidDoing /\ "idle" \in HidAts \ {"start"} /\ calls' \in 0..MaxCalls
  BY DEF Hid!NoCall, HidDoing, HidAts, HidInv, HidTyped, Hid!TypeOK
<1>6. /\ at' = [at EXCEPT ![c] = "idle"] /\ doing' = [doing EXCEPT ![c] = Hid!NoCall]
      /\ told' = [told EXCEPT ![c] = w]
  BY <1>3 DEF Hid!Succeeds, Hid!Goto
<1>7. HidPlaced(c)'
  BY <1>6 DEF HidInv, HidTyped, Hid!TypeOK, HidPlaced
<1> QED BY <1>4, <1>5, <1>6, <1>7, HidGoes

\* The debuggee is launched in a debugger that is ready.
LEMMA HidDebugLaunch == ASSUME HidConstantsOK, HidInv, NEW c \in Callers, Hid!DebugLaunch(c)
      PROVE HidInv'
<1>0. UNCHANGED <<setup, ini, phase, under, raced, stale, calls>> /\ at[c] = "debug"
  BY DEF Hid!DebugLaunch, Hid!Sessions_
<1>1. Hid!Fails(c) \/ (phase[doing[c].s] = "ready" /\ Hid!Succeeds(c, HidAnswer(c)))
  BY DEF Hid!DebugLaunch, HidAnswer
<1> QED BY <1>0, <1>1, HidFails, HidAnswers

\* A caller claims the session's debugger and is about to start it
LEMMA HidClaims ==
  ASSUME HidConstantsOK, HidInv, NEW c \in Callers, at[c] = "begin", phase[doing[c].s] = "absent",
         phase' = [phase EXCEPT ![doing[c].s] = "opening"],
         raced' = [raced EXCEPT ![doing[c].s] = Hid!AboutToWrite(ArchOf[doing[c].s])],
         at' = [at EXCEPT ![c] = "start"], UNCHANGED <<setup, ini, under, doing, told, stale,
         calls>>
  PROVE  HidInv'
<1>1. doing[c].s \in Sessions
  BY DEF HidInv, HidPlaces, HidPlaced
<1>2. PICK s \in Sessions : s = doing[c].s
  BY <1>1
<1>3. /\ at' \in [Callers -> HidAts] /\ at'[c] = "start" /\ \A e \in Callers \ {c} : at'[e] = at[e]
  BY DEF HidInv, HidTyped, Hid!TypeOK, HidAts
<1>4. /\ phase' \in [Sessions -> {"absent", "opening", "ready"}] /\ phase'[s] = "opening"
      /\ \A t \in Sessions \ {s} : phase'[t] = phase[t] /\ raced'[t] = raced[t]
      /\ raced' \in [Sessions -> BOOLEAN] /\ raced'[s] = Hid!AboutToWrite(ArchOf[s])
  BY <1>2 DEF HidInv, HidTyped, Hid!TypeOK, Hid!AboutToWrite
<1>5. HidTyped'
  BY <1>3, <1>4 DEF HidInv, HidTyped, Hid!TypeOK, HidAts
<1>6. HidPlaces'
  <2>1. ASSUME NEW e \in Callers, e # c PROVE HidPlaced(e)'
    <3>1. HidPlaced(e) /\ at'[e] = at[e] /\ doing' = doing
      BY <1>3, <2>1 DEF HidInv, HidPlaces
    <3> QED BY <1>4, <3>1 DEF HidPlaced
  <2>2. HidPlaced(c)'
    <3>1. HidPlaced(c) /\ doing' = doing
      BY DEF HidInv, HidPlaces
    <3> QED BY <1>2, <1>3, <1>4, <3>1 DEF HidPlaced
  <2> QED BY <2>1, <2>2 DEF HidPlaces
<1>7. HidStarters'
  <2>1. ASSUME NEW e \in Callers, at[e] = "start" PROVE doing[e].s # s
    BY <1>2, <2>1 DEF HidInv, HidPlaces, HidPlaced
  <2> QED BY <1>2, <1>3, <2>1 DEF HidInv, HidStarters
<1>8. \A a \in Archs : Hid!AboutToWrite(a)' => Hid!AboutToWrite(a)
  BY <1>3 DEF Hid!AboutToWrite
<1>9. HidWriters'
  <2>1. SUFFICES ASSUME NEW t \in Sessions, Hid!Active(t)', Hid!AboutToWrite(ArchOf[t])'
                        PROVE raced'[t]
    BY DEF HidWriters
  <2>2. Hid!AboutToWrite(ArchOf[t])
    BY <1>8, <2>1 DEF HidConstantsOK
  <2>3. CASE t = s
    BY <1>4, <2>2, <2>3
  <2>4. CASE t # s
    BY <1>4, <2>1, <2>2, <2>4 DEF HidInv, HidWriters, Hid!Active
  <2> QED BY <2>3, <2>4
<1>10. Hid!FileIsWhatRuns'
  BY <1>4 DEF HidInv, Hid!FileIsWhatRuns
<1>11. HidTold'
  <2>1. ASSUME NEW e \in Callers PROVE HidTells(e)'
    <3>1. HidTells(e) /\ told' = told /\ stale' = stale /\ under' = under
      BY DEF HidInv, HidTold
    <3>2. phase[s] = "absent"
      BY <1>2
    <3> QED BY <1>4, <3>1, <3>2 DEF HidTells
  <2> QED BY <2>1 DEF HidTold
<1> QED BY <1>5, <1>6, <1>7, <1>9, <1>10, <1>11 DEF HidInv

\* The session begins to open.
LEMMA HidBeginOpen == ASSUME HidConstantsOK, HidInv, NEW c \in Callers, Hid!BeginOpen(c)
      PROVE HidInv'
<1>0. at[c] = "begin" /\ UNCHANGED <<setup, ini, stale, calls>>
  BY DEF Hid!BeginOpen
<1>1. CASE phase[doing[c].s] = "ready" /\ Hid!Opened(c) /\ UNCHANGED Hid!Sessions_
  <2>1. UNCHANGED <<phase, under, raced>>
    BY <1>1 DEF Hid!Sessions_
  <2>2. CASE doing[c].op # "launch"
    <3>1. Hid!Succeeds(c, HidAnswer(c))
      BY <1>1, <2>2 DEF Hid!Opened, HidAnswer
    <3> QED BY <1>0, <1>1, <2>1, <3>1, HidAnswers
  <2>3. CASE doing[c].op = "launch"
    <3>1. at' = [at EXCEPT ![c] = "debug"] /\ UNCHANGED <<doing, told>>
      BY <1>1, <2>3 DEF Hid!Opened, Hid!Goto
    <3>2. doing[c] \in HidDoing /\ doing' = [doing EXCEPT ![c] = doing[c]]
          /\ "debug" \in HidAts \ {"start"}
      BY <3>1 DEF HidInv, HidTyped, HidAts
    <3>3. HidPlaced(c)'
      BY <1>0, <3>1 DEF HidInv, HidTyped, Hid!TypeOK, HidPlaces, HidPlaced
    <3> QED BY <1>0, <2>1, <3>1, <3>2, <3>3, HidMoves
  <2> QED BY <2>2, <2>3
<1>2. CASE phase[doing[c].s] = "opening" /\ Hid!Fails(c) /\ UNCHANGED Hid!Sessions_
  BY <1>0, <1>2, HidFails DEF Hid!Sessions_
<1>3. CASE /\ phase[doing[c].s] = "absent" /\ phase' = [phase EXCEPT ![doing[c].s] = "opening"]
           /\ raced' = [raced EXCEPT ![doing[c].s] = Hid!AboutToWrite(ArchOf[doing[c].s])]
           /\ Hid!Goto(c, "start") /\ UNCHANGED <<under, doing, told>>
  <2>1. at' = [at EXCEPT ![c] = "start"]
    BY <1>3 DEF Hid!Goto
  <2> QED BY <1>0, <1>3, <2>1, HidClaims
<1> QED BY <1>1, <1>2, <1>3 DEF Hid!BeginOpen

\* The start of a debugger ends, well or not
LEMMA HidStarted ==
  ASSUME HidConstantsOK, HidInv, NEW c \in Callers, at[c] = "start", UNCHANGED <<setup, ini,
         raced, stale, calls>>,
         NEW place \in {"idle", "debug"}, at' = [at EXCEPT ![c] = place],
         NEW d \in HidDoing, doing' = [doing EXCEPT ![c] = d], place = "debug" => d = doing[c],
         NEW s \in Sessions, s = doing[c].s, NEW p \in {"ready", "absent"},
         phase' = [phase EXCEPT ![s] = p],
         \/ p = "absent" /\ under' = under
         \/ under' = [under EXCEPT ![s] = ini[ArchOf[s]]],
         NEW w \in HidTold_, told' = told \/ told' = [told EXCEPT ![c] = w],
         w = Hid!NoTold \/ (p = "ready" /\ w.s = s /\ (w.p = ini[ArchOf[s]] \/ stale[c])
         /\ under'[s] = ini[ArchOf[s]])
  PROVE  HidInv'
<1>1. /\ at' \in [Callers -> HidAts] /\ at'[c] = place /\ \A e \in Callers \ {c} : at'[e] = at[e]
      /\ doing' \in [Callers -> HidDoing] /\ doing'[c] = d
      /\ \A e \in Callers \ {c} : doing'[e] = doing[e]
  BY DEF HidInv, HidTyped, Hid!TypeOK, HidAts
<1>2. /\ phase' \in [Sessions -> {"absent", "opening", "ready"}] /\ phase'[s] = p
      /\ \A t \in Sessions \ {s} : phase'[t] = phase[t] /\ under'[t] = under[t]
  BY DEF HidInv, HidTyped, Hid!TypeOK
<1>3. ini[ArchOf[s]] \in Hid!All /\ under' \in [Sessions -> Hid!All \cup {Hid!Nothing}]
      /\ (p = "ready" => under'[s] = ini[ArchOf[s]])
  BY DEF HidConstantsOK, HidInv, HidTyped, Hid!TypeOK
<1>4. /\ told' \in [Callers -> HidTold_] /\ \A e \in Callers \ {c} : told'[e] = told[e]
      /\ told'[c] = told[c] \/ told'[c] = w
  BY DEF HidInv, HidTyped, Hid!TypeOK, HidTold_
<1>5. phase[s] = "opening" /\ \A e \in Callers \ {c} : at[e] = "start" => doing[e].s # s
  BY DEF HidInv, HidPlaces, HidPlaced, HidStarters
<1>6. HidTyped'
  BY <1>1, <1>2, <1>3, <1>4 DEF HidInv, HidTyped, Hid!TypeOK, HidAts, HidTold_
<1>7. HidPlaces'
  <2>1. ASSUME NEW e \in Callers, e # c PROVE HidPlaced(e)'
    <3>1. HidPlaced(e) /\ at'[e] = at[e] /\ doing'[e] = doing[e]
          /\ (at[e] = "start" => doing[e].s # s)
      BY <1>1, <1>5, <2>1 DEF HidInv, HidPlaces
    <3> QED BY <1>2, <3>1 DEF HidPlaced
  <2>2. HidPlaced(c)'
    <3>1. HidPlaced(c)
      BY DEF HidInv, HidPlaces
    <3> QED BY <1>1, <3>1 DEF HidPlaced
  <2> QED BY <2>1, <2>2 DEF HidPlaces
<1>8. HidStarters'
  BY <1>1 DEF HidInv, HidStarters
<1>9. HidWriters'
  <2>1. SUFFICES ASSUME NEW t \in Sessions, Hid!Active(t)', NEW e \in Callers,
                        \/ at'[e] = "write" /\ ArchOf[doing'[e].s] = ArchOf[t]
                        \/ at'[e] = "apply" /\ doing'[e].s = ArchOf[t]
        PROVE  raced[t]
    BY DEF HidWriters, Hid!AboutToWrite
  <2>2. e # c
    BY <1>1, <2>1
  <2>3. Hid!AboutToWrite(ArchOf[t])
    BY <1>1, <2>1, <2>2 DEF Hid!AboutToWrite
  <2>4. Hid!Active(t)
    BY <1>2, <1>5, <2>1 DEF Hid!Active
  <2> QED BY <2>1, <2>3, <2>4 DEF HidInv, HidWriters
<1>10. Hid!FileIsWhatRuns'
  <2>1. ASSUME NEW t \in Sessions, phase'[t] = "ready" PROVE under'[t] = ini[ArchOf[t]] \/ raced[t]
    BY <1>2, <1>3, <2>1 DEF HidInv, Hid!FileIsWhatRuns
  <2> QED BY <2>1 DEF Hid!FileIsWhatRuns
<1>11. HidTold'
  <2>1. ASSUME NEW e \in Callers, told'[e] = told[e] PROVE HidTells(e)'
    <3>1. HidTells(e)
      BY DEF HidInv, HidTold
    <3> QED BY <1>2, <1>5, <2>1, <3>1 DEF HidTells
  <2>2. ASSUME NEW e \in Callers, told'[e] = w PROVE HidTells(e)'
    <3>1. e = c \/ told'[e] = told[e]
      BY <1>4
    <3>2. CASE told'[e] = told[e]
      BY <2>1, <3>2
    <3>3. CASE e = c /\ w = Hid!NoTold
      BY <2>2, <3>3 DEF HidTells
    <3>4. CASE e = c /\ w # Hid!NoTold
      BY <1>2, <2>2, <3>4 DEF HidTells
    <3> QED BY <3>1, <3>2, <3>3, <3>4
  <2> QED BY <1>4, <2>1, <2>2 DEF HidTold
<1> QED BY <1>6, <1>7, <1>8, <1>9, <1>10, <1>11 DEF HidInv

\* The debugger starts and reads the file.
LEMMA HidStart == ASSUME HidConstantsOK, HidInv, NEW c \in Callers, Hid!Start(c) PROVE HidInv'
<1>0. at[c] = "start" /\ UNCHANGED <<setup, ini, raced, stale, calls>>
  BY DEF Hid!Start
<1>1. doing[c] \in HidDoing /\ doing[c].s \in Sessions
      /\ (doing[c].desired = Hid!Nothing \/ doing[c].desired = ini[ArchOf[doing[c].s]] \/ stale[c])
  BY <1>0 DEF HidInv, HidTyped, HidPlaces, HidPlaced
<1>2. PICK s \in Sessions : s = doing[c].s
  BY <1>1
<1>3. Hid!NoCall \in HidDoing /\ Hid!NoTold \in HidTold_
  BY DEF Hid!NoCall, HidDoing, Hid!NoTold, HidTold_
<1>4. CASE phase' = [phase EXCEPT ![s] = "absent"] /\ Hid!Fails(c) /\ UNCHANGED under
  <2>1. at' = [at EXCEPT ![c] = "idle"] /\ doing' = [doing EXCEPT ![c] = Hid!NoCall] /\ told' = told
    BY <1>4 DEF Hid!Fails, Hid!Goto
  <2> QED BY <1>0, <1>2, <1>3, <1>4, <2>1, HidStarted
<1>5. CASE /\ under' = [under EXCEPT ![s] = ini[ArchOf[s]]]
           /\ phase' = [phase EXCEPT ![s] = "ready"] /\ Hid!Opened(c)
  <2>1. CASE doing[c].op = "launch"
    <3>1. at' = [at EXCEPT ![c] = "debug"] /\ UNCHANGED <<doing, told>>
      BY <1>5, <2>1 DEF Hid!Opened, Hid!Goto
    <3>2. doing' = [doing EXCEPT ![c] = doing[c]]
      BY <3>1 DEF HidInv, HidTyped
    <3> QED BY <1>0, <1>1, <1>2, <1>3, <1>5, <3>1, <3>2, HidStarted
  <2>2. CASE doing[c].op # "launch"
    <3>1. PICK w : w = HidAnswer(c)
      OBVIOUS
    <3>2. w \in HidTold_ /\ under'[s] = ini[ArchOf[s]]
      BY <1>1, <1>5, <3>1 DEF HidAnswer, HidTold_, Hid!NoTold, HidDoing, HidInv, HidTyped,
         Hid!TypeOK
    <3>3. w = Hid!NoTold \/ (w.s = s /\ (w.p = ini[ArchOf[s]] \/ stale[c]))
      BY <1>1, <1>2, <3>1 DEF HidAnswer
    <3>4. at' = [at EXCEPT ![c] = "idle"] /\ doing' = [doing EXCEPT ![c] = Hid!NoCall]
          /\ told' = [told EXCEPT ![c] = w]
      BY <1>5, <2>2, <3>1 DEF Hid!Opened, Hid!Succeeds, Hid!Goto, HidAnswer
    <3> QED BY <1>0, <1>2, <1>3, <1>5, <3>2, <3>3, <3>4, HidStarted
  <2> QED BY <2>1, <2>2
<1> QED BY <1>2, <1>4, <1>5 DEF Hid!Start

\* The debugger of a session ends.
LEMMA HidEnds == ASSUME HidConstantsOK, HidInv, NEW s \in Sessions, Hid!Ends(s) PROVE HidInv'
<1>0. UNCHANGED <<setup, ini, at, doing, stale, calls>> /\ phase[s] = "ready"
  BY DEF Hid!Ends
<1>1. /\ phase' \in [Sessions -> {"absent", "opening", "ready"}] /\ phase'[s] = "absent"
      /\ under' \in [Sessions -> Hid!All \cup {Hid!Nothing}] /\ raced' \in [Sessions -> BOOLEAN]
      /\ \A t \in Sessions \ {s} : phase'[t] = phase[t] /\ under'[t] = under[t]
         /\ raced'[t] = raced[t]
  BY DEF Hid!Ends, HidInv, HidTyped, Hid!TypeOK
<1>2. Hid!NoTold \in HidTold_
  BY DEF Hid!NoTold, HidTold_
<1>3. /\ told' \in [Callers -> HidTold_]
      /\ \A c \in Callers : told'[c] = Hid!NoTold \/ (told'[c] = told[c] /\ told[c].s # s)
  BY <1>2 DEF Hid!Ends, HidInv, HidTyped, Hid!TypeOK, HidTold_
<1>4. HidTyped'
  BY <1>0, <1>1, <1>3 DEF HidInv, HidTyped, Hid!TypeOK, HidTold_
<1>5. HidPlaces'
  <2>1. ASSUME NEW e \in Callers PROVE HidPlaced(e)'
    <3>1. HidPlaced(e)
      BY DEF HidInv, HidPlaces
    <3> QED BY <1>0, <1>1, <3>1 DEF HidPlaced
  <2> QED BY <2>1 DEF HidPlaces
<1>6. HidStarters'
  BY <1>0 DEF HidInv, HidStarters
<1>7. HidWriters'
  BY <1>0, <1>1 DEF HidInv, HidWriters, Hid!Active, Hid!AboutToWrite
<1>8. Hid!FileIsWhatRuns'
  BY <1>0, <1>1 DEF HidInv, Hid!FileIsWhatRuns
<1>9. HidTold'
  <2>1. ASSUME NEW e \in Callers PROVE HidTells(e)'
    <3>1. HidTells(e)
      BY DEF HidInv, HidTold
    <3> QED BY <1>0, <1>1, <1>3, <3>1 DEF HidTells
  <2> QED BY <2>1 DEF HidTold
<1> QED BY <1>4, <1>5, <1>6, <1>7, <1>8, <1>9 DEF HidInv

\* Every step keeps the invariant.
LEMMA HidStays == ASSUME HidConstantsOK, HidInv, [Hid!Next]_Hid!vars PROVE HidInv'
<1>1. ASSUME NEW c \in Callers,
             \/ Hid!Call(c) \/ Hid!CallSet(c) \/ Hid!Decide(c) \/ Hid!Check(c) \/ Hid!Write(c) \/ Hid!CheckIdle(c)
             \/ Hid!Apply(c) \/ Hid!BeginOpen(c) \/ Hid!Start(c) \/ Hid!DebugLaunch(c)
      PROVE  HidInv'
  BY <1>1, HidCall, HidCallSet, HidDecide, HidCheck, HidWrite, HidCheckIdle, HidApply,
     HidBeginOpen, HidStart,
     HidDebugLaunch
<1>2. CASE UNCHANGED Hid!vars
  BY <1>2 DEF Hid!vars, HidInv, HidTyped, Hid!TypeOK, HidPlaces, HidPlaced, HidStarters,
     HidWriters, Hid!FileIsWhatRuns, HidTold,
              HidTells, Hid!Active, Hid!AboutToWrite
<1> QED BY <1>1, <1>2, HidEnds DEF Hid!Next

\* What is to be shown of it.
LEMMA HidImplies == ASSUME HidInv PROVE Hid!FileIsWhatRuns /\ Hid!ToldWhatRuns
BY DEF HidInv, HidTold, HidTells, Hid!ToldWhatRuns

(* Whatever calls write the file of profiles between the looks of others    *)
(* (service.py:1669, stealth.py), a debugger hides under what the file says *)
(* of its architecture, and a call told of success was told what runs.      *)
THEOREM HidRuns == ASSUME HidConstantsOK PROVE Hid!Spec
      => [](Hid!FileIsWhatRuns /\ Hid!ToldWhatRuns)
<1>1. Hid!Init => HidInv
  BY HidStarts
<1>2. HidInv /\ [Hid!Next]_Hid!vars => HidInv'
  BY HidStays
<1>3. HidInv => Hid!FileIsWhatRuns /\ Hid!ToldWhatRuns
  BY HidImplies
<1> QED BY <1>1, <1>2, <1>3, PTL DEF Hid!Spec

-----------------------------------------------------------------------------
(***************************************************************************)
(* Inspection of a debuggee (Inspect)                                      *)
(*                                                                         *)
(* The invariant keeps the dump of a caller apart from what the worker     *)
(* still writes for one that has given up.                                 *)
(***************************************************************************)

\* A caller is not the name of the free lock
LookConstantsOK == "none" \notin Callers /\ MaxLooks \in Nat

LookDump == {"dump", "present", "dumping", "dumped", "written", "registered"}

\* A dump holds the lock over its three requests; what the worker still writes
\* is the file of a caller that has given up its dump
LookPlaced(c) ==
    /\ at[c] \in {"present", "dumping", "dumped"} => lock = c
    /\ orphan = c => at[c] \notin LookDump

LookPlaces == \A c \in Callers : LookPlaced(c)

\* That events were lost is noted, or the note was taken back
LookNoted == missed => resync \/ wiped

LookInv == Look!TypeOK /\ LookPlaces /\ LookNoted /\ Look!DumpsAreFresh /\ Look!FilesMatchAnswers

\* Nobody has called yet.
LEMMA LookStarts == ASSUME LookConstantsOK, Look!Init PROVE LookInv
<1>1. Look!TypeOK
  <2>1. calls \in 0..MaxLooks
    BY DEF LookConstantsOK, Look!Init
  <2> QED BY <2>1 DEF Look!Init, Look!TypeOK, Look!Places
<1>2. LookPlaces /\ LookNoted /\ Look!DumpsAreFresh /\ Look!FilesMatchAnswers
  BY DEF LookConstantsOK, Look!Init, LookPlaces, LookPlaced, LookNoted, Look!DumpsAreFresh,
     Look!FilesMatchAnswers
<1> QED BY <1>1, <1>2 DEF LookInv

\* What a call does to the notes and files when it is at no dump
LEMMA LookCalls ==
  ASSUME LookConstantsOK, LookInv, NEW c \in Callers,
         \/ Look!Begin(c) \/ Look!TurnedAway(c) \/ Look!DynamicRequest(c) \/ Look!DynamicModules(c)
         \/ Look!ModuleCatalog(c) \/ Look!ExplicitModuleOperation(c) \/ Look!PollEvents(c) \/ Look!ImportsScan(c)
  PROVE  LookInv'
<1>1. CASE Look!Begin(c)
  <2>1. Look!TypeOK'
    <3>1. calls' \in 0..MaxLooks
      BY <1>1 DEF LookConstantsOK, Look!Begin, LookInv, Look!TypeOK
    <3>2. at' \in [Callers -> Look!Places] /\ told' \in [Callers -> {"none", "ok", "failed"}]
      BY <1>1 DEF Look!Begin, Look!Goto, Look!Return, LookInv, Look!TypeOK, Look!Places
    <3>3. file' \in [Callers -> {"none", "whole", "late"}] /\ row' \in [Callers -> BOOLEAN]
      BY <1>1 DEF Look!Begin, LookInv, Look!TypeOK
    <3> QED BY <1>1, <3>1, <3>2, <3>3 DEF Look!Begin, Look!notes, LookInv, Look!TypeOK
  <2>2. LookPlaces'
    BY <1>1 DEF LookConstantsOK, Look!Begin, Look!Goto, Look!Return, Look!notes, Look!dumps,
       LookInv, Look!TypeOK, Look!Places, LookPlaces, LookPlaced, LookDump
  <2>3. LookNoted'
    BY <1>1 DEF Look!Begin, Look!Goto, Look!Return, Look!notes, Look!dumps, LookInv, Look!TypeOK,
       LookNoted
  <2>4. Look!DumpsAreFresh'
    BY <1>1 DEF LookConstantsOK, Look!Begin, Look!Goto, Look!Return, Look!notes, Look!dumps,
       LookInv, Look!TypeOK, Look!Places, LookPlaces, LookPlaced, LookNoted, Look!DumpsAreFresh
  <2>5. Look!FilesMatchAnswers'
    BY <1>1 DEF Look!Begin, Look!Goto, Look!Return, Look!notes, Look!dumps, LookInv, Look!TypeOK,
       Look!Places, LookPlaces, LookPlaced, LookDump, Look!FilesMatchAnswers
  <2> QED BY <2>1, <2>2, <2>3, <2>4, <2>5 DEF LookInv
<1>2. CASE Look!TurnedAway(c)
  BY <1>2 DEF LookConstantsOK, Look!TurnedAway, Look!Goto, Look!Return, Look!notes, Look!dumps,
     LookInv, Look!TypeOK, Look!Places, LookPlaces, LookPlaced, LookNoted,
       Look!DumpsAreFresh, Look!FilesMatchAnswers, LookDump
<1>3. CASE Look!DynamicRequest(c)
  <2>1. Look!TypeOK'
    BY <1>3 DEF LookConstantsOK, Look!DynamicRequest, Look!Enters, Look!Fails, Look!Goto,
       Look!Return, Look!notes, Look!dumps, LookInv, Look!TypeOK, Look!Places
  <2>2. LookPlaces'
    BY <1>3 DEF LookConstantsOK, Look!DynamicRequest, Look!Enters, Look!Fails, Look!Goto,
       Look!Return, Look!notes, Look!dumps, LookInv, Look!TypeOK, Look!Places, LookPlaces,
       LookPlaced, LookDump
  <2>3. LookNoted'
    BY <1>3 DEF Look!DynamicRequest, Look!Enters, Look!Fails, Look!Goto, Look!Return, Look!notes,
       Look!dumps, LookInv, Look!TypeOK, LookNoted
  <2>4. Look!DumpsAreFresh'
    BY <1>3 DEF LookConstantsOK, Look!DynamicRequest, Look!Enters, Look!Fails, Look!Goto,
       Look!Return, Look!notes, Look!dumps, LookInv, Look!TypeOK, Look!Places, LookPlaces,
       LookPlaced, LookNoted, Look!DumpsAreFresh
  <2>5. Look!FilesMatchAnswers'
    BY <1>3 DEF Look!DynamicRequest, Look!Enters, Look!Fails, Look!Goto, Look!Return, Look!notes,
       Look!dumps, LookInv, Look!TypeOK, Look!Places, LookPlaces, LookPlaced, LookDump,
       Look!FilesMatchAnswers
  <2> QED BY <2>1, <2>2, <2>3, <2>4, <2>5 DEF LookInv
<1>4. CASE Look!DynamicModules(c)
  <2>1. Look!TypeOK'
    BY <1>4 DEF LookConstantsOK, Look!DynamicModules, Look!Lists, Look!TakesBack, Look!Enters,
       Look!Fails, Look!Goto, Look!Return, Look!notes, Look!dumps, LookInv, Look!TypeOK, Look!Places
  <2>2. LookPlaces'
    BY <1>4 DEF LookConstantsOK, Look!DynamicModules, Look!Lists, Look!TakesBack, Look!Enters,
       Look!Fails, Look!Goto, Look!Return, Look!notes, Look!dumps, LookInv, Look!TypeOK,
       Look!Places, LookPlaces, LookPlaced, LookDump
  <2>3. LookNoted'
    BY <1>4 DEF Look!DynamicModules, Look!Lists, Look!TakesBack, Look!Enters, Look!Fails,
       Look!Goto, Look!Return, Look!notes, Look!dumps, LookInv, Look!TypeOK, LookNoted
  <2>4. Look!DumpsAreFresh'
    BY <1>4 DEF LookConstantsOK, Look!DynamicModules, Look!Lists, Look!TakesBack, Look!Enters,
       Look!Fails, Look!Goto, Look!Return, Look!notes, Look!dumps, LookInv, Look!TypeOK,
       Look!Places, LookPlaces, LookPlaced, LookNoted, Look!DumpsAreFresh
  <2>5. Look!FilesMatchAnswers'
    BY <1>4 DEF Look!DynamicModules, Look!Lists, Look!TakesBack, Look!Enters, Look!Fails,
       Look!Goto, Look!Return, Look!notes, Look!dumps, LookInv, Look!TypeOK, Look!Places,
       LookPlaces, LookPlaced, LookDump, Look!FilesMatchAnswers
  <2> QED BY <2>1, <2>2, <2>3, <2>4, <2>5 DEF LookInv
<1>5. CASE Look!ModuleCatalog(c)
  <2>1. Look!TypeOK'
    BY <1>5 DEF LookConstantsOK, Look!ModuleCatalog, Look!Snapshot, Look!Lists, Look!TakesBack,
       Look!Enters, Look!Fails, Look!Goto, Look!Return, Look!notes, Look!dumps, LookInv,
       Look!TypeOK, Look!Places
  <2>2. LookPlaces'
    BY <1>5 DEF LookConstantsOK, Look!ModuleCatalog, Look!Snapshot, Look!Lists, Look!TakesBack,
       Look!Enters, Look!Fails, Look!Goto, Look!Return, Look!notes, Look!dumps, LookInv,
       Look!TypeOK, Look!Places, LookPlaces, LookPlaced, LookDump
  <2>3. LookNoted'
    BY <1>5 DEF Look!ModuleCatalog, Look!Snapshot, Look!Lists, Look!TakesBack, Look!Enters,
       Look!Fails, Look!Goto, Look!Return, Look!notes, Look!dumps, LookInv, Look!TypeOK, LookNoted
  <2>4. Look!DumpsAreFresh'
    BY <1>5 DEF LookConstantsOK, Look!ModuleCatalog, Look!Snapshot, Look!Lists, Look!TakesBack,
       Look!Enters, Look!Fails, Look!Goto, Look!Return, Look!notes, Look!dumps, LookInv,
       Look!TypeOK, Look!Places, LookPlaces, LookPlaced, LookNoted, Look!DumpsAreFresh
  <2>5. Look!FilesMatchAnswers'
    BY <1>5 DEF Look!ModuleCatalog, Look!Snapshot, Look!Lists, Look!TakesBack, Look!Enters,
       Look!Fails, Look!Goto, Look!Return, Look!notes, Look!dumps, LookInv, Look!TypeOK,
       Look!Places, LookPlaces, LookPlaced, LookDump, Look!FilesMatchAnswers
  <2> QED BY <2>1, <2>2, <2>3, <2>4, <2>5 DEF LookInv
<1>6. CASE Look!ExplicitModuleOperation(c)
  <2>1. Look!TypeOK'
    BY <1>6 DEF LookConstantsOK, Look!ExplicitModuleOperation, Look!Snapshot, Look!Lists,
       Look!Enters, Look!Fails, Look!Goto, Look!Return, Look!notes, Look!dumps, LookInv,
       Look!TypeOK, Look!Places
  <2>2. LookPlaces'
    BY <1>6 DEF LookConstantsOK, Look!ExplicitModuleOperation, Look!Snapshot, Look!Lists,
       Look!Enters, Look!Fails, Look!Goto, Look!Return, Look!notes, Look!dumps, LookInv,
       Look!TypeOK, Look!Places, LookPlaces, LookPlaced, LookDump
  <2>3. LookNoted'
    BY <1>6 DEF Look!ExplicitModuleOperation, Look!Snapshot, Look!Lists, Look!Enters, Look!Fails,
       Look!Goto, Look!Return, Look!notes, Look!dumps, LookInv, Look!TypeOK, LookNoted
  <2>4. Look!DumpsAreFresh'
    BY <1>6 DEF LookConstantsOK, Look!ExplicitModuleOperation, Look!Snapshot, Look!Lists,
       Look!Enters, Look!Fails, Look!Goto, Look!Return, Look!notes, Look!dumps, LookInv,
       Look!TypeOK, Look!Places, LookPlaces, LookPlaced, LookNoted, Look!DumpsAreFresh
  <2>5. Look!FilesMatchAnswers'
    BY <1>6 DEF Look!ExplicitModuleOperation, Look!Snapshot, Look!Lists, Look!Enters, Look!Fails,
       Look!Goto, Look!Return, Look!notes, Look!dumps, LookInv, Look!TypeOK, Look!Places,
       LookPlaces, LookPlaced, LookDump, Look!FilesMatchAnswers
  <2> QED BY <2>1, <2>2, <2>3, <2>4, <2>5 DEF LookInv
<1>7. CASE Look!PollEvents(c)
  <2>1. Look!TypeOK'
    BY <1>7 DEF LookConstantsOK, Look!PollEvents, Look!Notes, Look!Enters, Look!Goto, Look!Return,
       Look!notes, Look!dumps, LookInv, Look!TypeOK, Look!Places
  <2>2. LookPlaces'
    BY <1>7 DEF LookConstantsOK, Look!PollEvents, Look!Notes, Look!Enters, Look!Goto, Look!Return,
       Look!notes, Look!dumps, LookInv, Look!TypeOK, Look!Places, LookPlaces, LookPlaced, LookDump
  <2>3. LookNoted'
    BY <1>7 DEF Look!PollEvents, Look!Notes, Look!Enters, Look!Goto, Look!Return, Look!notes,
       Look!dumps, LookInv, Look!TypeOK, LookNoted
  <2>4. Look!DumpsAreFresh'
    BY <1>7 DEF LookConstantsOK, Look!PollEvents, Look!Notes, Look!Enters, Look!Goto, Look!Return,
       Look!notes, Look!dumps, LookInv, Look!TypeOK, Look!Places, LookPlaces, LookPlaced,
       LookNoted, Look!DumpsAreFresh
  <2>5. Look!FilesMatchAnswers'
    BY <1>7 DEF Look!PollEvents, Look!Notes, Look!Enters, Look!Goto, Look!Return, Look!notes,
       Look!dumps, LookInv, Look!TypeOK, Look!Places, LookPlaces, LookPlaced, LookDump,
       Look!FilesMatchAnswers
  <2> QED BY <2>1, <2>2, <2>3, <2>4, <2>5 DEF LookInv
<1>8. CASE Look!ImportsScan(c)
  BY <1>8 DEF LookConstantsOK, Look!ImportsScan, Look!Enters, Look!Goto, Look!Return, Look!notes,
     Look!dumps, LookInv, Look!TypeOK,
       Look!Places, LookPlaces, LookPlaced, LookNoted, Look!DumpsAreFresh, Look!FilesMatchAnswers,
       LookDump
<1> QED BY <1>1, <1>2, <1>3, <1>4, <1>5, <1>6, <1>7, <1>8

\* A dump, request by request.
LEMMA LookDumps == ASSUME LookConstantsOK, LookInv, NEW c \in Callers, Look!ModulesDump(c)
      PROVE LookInv'
<1>1. CASE Look!DumpEnters(c)
  BY <1>1 DEF LookConstantsOK, Look!DumpEnters, Look!DumpStep, Look!Enters, Look!Goto,
     Look!Return, Look!notes, Look!dumps, LookInv, Look!TypeOK,
       Look!Places, LookPlaces, LookPlaced, LookNoted, Look!DumpsAreFresh, Look!FilesMatchAnswers,
       LookDump
<1>2. CASE Look!ListBefore(c)
  BY <1>2 DEF LookConstantsOK, Look!ListBefore, Look!DumpStep, Look!DumpBreaks, Look!Goto,
     Look!Return, Look!notes, Look!dumps, LookInv, Look!TypeOK,
       Look!Places, LookPlaces, LookPlaced, LookNoted, Look!DumpsAreFresh, Look!FilesMatchAnswers,
       LookDump
<1>3. CASE Look!WorkerDumps(c)
  BY <1>3 DEF LookConstantsOK, Look!WorkerDumps, Look!DumpStep, Look!DumpBreaks, Look!Goto,
     Look!Return, Look!notes, Look!dumps, LookInv, Look!TypeOK,
       Look!Places, LookPlaces, LookPlaced, LookNoted, Look!DumpsAreFresh, Look!FilesMatchAnswers,
       LookDump
<1>4. CASE Look!ListAfter(c)
  BY <1>4 DEF LookConstantsOK, Look!ListAfter, Look!DumpStep, Look!DumpBreaks, Look!Goto,
     Look!Return, Look!notes, Look!dumps, LookInv, Look!TypeOK,
       Look!Places, LookPlaces, LookPlaced, LookNoted, Look!DumpsAreFresh, Look!FilesMatchAnswers,
       LookDump
<1>5. CASE Look!Registers(c)
  <2>1. Look!TypeOK'
    BY <1>5 DEF LookConstantsOK, Look!Registers, Look!DumpStep, Look!DumpBreaks, Look!Goto,
       Look!Return, Look!notes, Look!dumps, LookInv, Look!TypeOK, Look!Places
  <2>2. LookPlaces'
    BY <1>5 DEF LookConstantsOK, Look!Registers, Look!DumpStep, Look!DumpBreaks, Look!Goto,
       Look!Return, Look!notes, Look!dumps, LookInv, Look!TypeOK, Look!Places, LookPlaces,
       LookPlaced, LookDump
  <2>3. LookNoted'
    BY <1>5 DEF Look!Registers, Look!DumpStep, Look!DumpBreaks, Look!Goto, Look!Return,
       Look!notes, Look!dumps, LookInv, Look!TypeOK, LookNoted
  <2>4. Look!DumpsAreFresh'
    BY <1>5 DEF LookConstantsOK, Look!Registers, Look!DumpStep, Look!DumpBreaks, Look!Goto,
       Look!Return, Look!notes, Look!dumps, LookInv, Look!TypeOK, Look!Places, LookPlaces,
       LookPlaced, LookNoted, Look!DumpsAreFresh
  <2>5. Look!FilesMatchAnswers'
    BY <1>5 DEF Look!Registers, Look!DumpStep, Look!DumpBreaks, Look!Goto, Look!Return,
       Look!notes, Look!dumps, LookInv, Look!TypeOK, Look!Places, LookPlaces, LookPlaced,
       LookDump, Look!FilesMatchAnswers
  <2> QED BY <2>1, <2>2, <2>3, <2>4, <2>5 DEF LookInv
<1>6. CASE Look!DumpEnds(c)
  BY <1>6 DEF LookConstantsOK, Look!DumpEnds, Look!DumpStep, Look!DumpBreaks, Look!Goto,
     Look!Return, Look!notes, Look!dumps, LookInv, Look!TypeOK,
       Look!Places, LookPlaces, LookPlaced, LookNoted, Look!DumpsAreFresh, Look!FilesMatchAnswers,
       LookDump
<1>7. CASE Look!Discards(c)
  BY <1>7 DEF LookConstantsOK, Look!Discards, Look!RemovesFile, Look!Goto, Look!Return,
     Look!notes, Look!dumps, LookInv, Look!TypeOK,
       Look!Places, LookPlaces, LookPlaced, LookNoted, Look!DumpsAreFresh, Look!FilesMatchAnswers,
       LookDump
<1> QED BY <1>1, <1>2, <1>3, <1>4, <1>5, <1>6, <1>7 DEF Look!ModulesDump

\* Every step keeps the invariant.
LEMMA LookStays == ASSUME LookConstantsOK, LookInv, [Look!Next]_Look!vars PROVE LookInv'
<1>1. CASE Look!ModuleMoves \/ Look!RuntimeGoes \/ UNCHANGED Look!vars
  <2>1. UNCHANGED <<at, told, calls, lock, resync, missed, wiped, file, row, orphan>>
        /\ current' \in BOOLEAN /\ loaded' \in BOOLEAN
    BY <1>1 DEF Look!ModuleMoves, Look!RuntimeGoes, Look!vars, Look!notes, Look!dumps, LookInv,
       Look!TypeOK
  <2> QED BY <2>1 DEF LookInv, Look!TypeOK, LookPlaces, LookPlaced, LookNoted, Look!DumpsAreFresh,
            Look!FilesMatchAnswers
<1>2. CASE Look!OrphanEnds
  BY <1>2 DEF LookConstantsOK, Look!OrphanEnds, Look!notes, LookInv, Look!TypeOK, LookPlaces,
     LookPlaced, LookNoted,
       Look!DumpsAreFresh, Look!FilesMatchAnswers, LookDump
<1> QED BY <1>1, <1>2, LookCalls, LookDumps DEF Look!Next

\* What is to be shown of it.
LEMMA LookImplies == LookInv => Look!DumpsAreFresh /\ Look!FilesMatchAnswers
  BY DEF LookInv

(* A dump follows a list of modules that is not stale, and a caller told of *)
(* a dump finds it whole and registered, one told of a failure finds        *)
(* nothing (modules_dump, service_dynamic_inspect.py:405), also while the   *)
(* worker still writes for a caller that gave up.                           *)
THEOREM LookFilesMatch == ASSUME LookConstantsOK PROVE Look!Spec
      => [](Look!DumpsAreFresh /\ Look!FilesMatchAnswers)
<1> QED BY LookStarts, LookStays, LookImplies, PTL DEF Look!Spec

-----------------------------------------------------------------------------
(***************************************************************************)
(* The methods of the plugin (DebuggerRpc)                                 *)
(*                                                                         *)
(* The invariant gives the debugger the thread and the patches it had, or  *)
(* the ones the method answers with; a restore counts what it gives back   *)
(* byte by byte.                                                           *)
(***************************************************************************)

RpcConstantsOK ==
    Last \in Nat /\ RestoreLimit \in Nat \ {0} /\ Chunks \in Nat /\ MaxCalls \in Nat

RpcQuota == [init : BOOLEAN, active : BOOLEAN, cancel : BOOLEAN,
             why : Rpc!Reasons \cup {"not_started", "stopped", "telemetry_unavailable"}]

RpcRec == [on : BOOLEAN, why : Rpc!Reasons, heard : BOOLEAN]
RpcFiles == 0..Chunks \cup {Rpc!None}

RpcDebuggerTyped ==
    /\ deb \in [st : {"idle", "paused", "running"}, tid : Tids]
    /\ points \subseteq [kind : Rpc!Kinds, at : Rpc!Addresses, cond : BOOLEAN]
    /\ patched \subseteq Rpc!Addresses /\ loaded \in BOOLEAN
    /\ rec \in RpcRec
    /\ before \in [tid : Tids, patched : SUBSET Rpc!Addresses]
    /\ calls \in 0..MaxCalls

RpcTyped ==
    /\ RpcDebuggerTyped
    /\ dump \in RpcFiles /\ partial \in RpcFiles /\ final \in RpcFiles
    /\ quota \in RpcQuota

\* A dump in progress has written what is in the temporary file
RpcDumped == dump # Rpc!None => partial = dump

\* The end of a trace that was told is the one that is latched
RpcEnd == known # "none" => ~quota.active

RpcInv == RpcTyped /\ RpcDumped /\ RpcEnd /\ Rpc!ThreadKept /\ Rpc!PatchesCounted
      /\ Rpc!FinalIsWhole /\ Rpc!EndIsKept

\* No debuggee runs.
LEMMA RpcStarts == ASSUME RpcConstantsOK, Rpc!Init PROVE RpcInv
<1>1. RpcTyped
  <2>1. RpcDebuggerTyped
    BY DEF RpcConstantsOK, Rpc!Init, RpcDebuggerTyped, RpcRec, Rpc!Reasons
  <2>2. quota \in RpcQuota
    BY DEF Rpc!Init, RpcQuota, Rpc!NoTrace
  <2>3. dump \in RpcFiles /\ partial \in RpcFiles /\ final \in RpcFiles
    BY DEF Rpc!Init, RpcFiles, Rpc!None
  <2> QED BY <2>1, <2>2, <2>3 DEF RpcTyped
<1>2. RpcDumped /\ RpcEnd /\ Rpc!ThreadKept /\ Rpc!PatchesCounted /\ Rpc!FinalIsWhole
      /\ Rpc!EndIsKept
  BY DEF Rpc!Init, RpcDumped, RpcEnd, Rpc!ThreadKept, Rpc!PatchesCounted, Rpc!FinalIsWhole,
     Rpc!EndIsKept, Rpc!NoTrace, Rpc!None, Rpc!Ok
<1> QED BY <1>1, <1>2 DEF RpcInv

-----------------------------------------------------------------------------
(* Methods whose answer none of the properties is about *)

RpcQuiet ==
    /\ answer'.is \notin {"registers", "restored", "trace"}
    /\ UNCHANGED <<Rpc!files, quota, known>>

\* A method that touches no file and no trace.
LEMMA RpcQuietKeeps == ASSUME RpcInv, RpcQuiet, RpcDebuggerTyped' PROVE RpcInv'
<1>1. RpcTyped' /\ RpcDumped' /\ RpcEnd' /\ Rpc!FinalIsWhole'
  BY DEF RpcInv, RpcQuiet, RpcTyped, RpcDumped, RpcEnd, Rpc!FinalIsWhole, Rpc!files
<1>2. Rpc!ThreadKept' /\ Rpc!PatchesCounted' /\ Rpc!EndIsKept'
  BY DEF RpcInv, RpcQuiet, Rpc!ThreadKept, Rpc!PatchesCounted, Rpc!EndIsKept, Rpc!Ok
<1> QED BY <1>1, <1>2 DEF RpcInv

\* A call that its guard refuses
LEMMA RpcTurnedAway ==
  ASSUME RpcConstantsOK, RpcInv, UNCHANGED <<Rpc!external, Rpc!files, quota, known>>,
         dump = Rpc!None, calls < MaxCalls, calls' = calls + 1,
         before' = [tid |-> deb.tid, patched |-> patched],
         answer'.is \notin {"registers", "restored", "trace"}
  PROVE  RpcInv'
<1>1. RpcDebuggerTyped'
  BY DEF RpcConstantsOK, RpcInv, RpcTyped, RpcDebuggerTyped, Rpc!external
<1> QED BY <1>1, RpcQuietKeeps DEF RpcQuiet

\* The words for a refusal
LEMMA RpcGuards ==
  /\ Rpc!RequireDebugging \in {"ready", "not_debugging"}
  /\ Rpc!RequirePaused \in {"ready", "not_debugging", "debuggee_running"}
  BY DEF Rpc!RequireDebugging, Rpc!RequirePaused

\* What is common to all calls
LEMMA RpcCounted ==
  ASSUME RpcConstantsOK, RpcInv, calls < MaxCalls, calls' = calls + 1,
         before' = [tid |-> deb.tid, patched |-> patched]
  PROVE  calls' \in 0..MaxCalls /\ before' \in [tid : Tids, patched : SUBSET Rpc!Addresses]
  BY DEF RpcConstantsOK, RpcInv, RpcTyped, RpcDebuggerTyped

-----------------------------------------------------------------------------
(* Launch, attach and control of the debuggee *)

\* A debuggee is started or attached to.
LEMMA RpcStartsDebuggee ==
  ASSUME RpcConstantsOK, RpcInv, Rpc!Launch \/ Rpc!Attach PROVE RpcInv'
<1>1. /\ calls' \in 0..MaxCalls /\ before' \in [tid : Tids, patched : SUBSET Rpc!Addresses]
      /\ Rpc!Starts \/ Rpc!Refuses("invalid_params")
  BY RpcCounted DEF Rpc!Launch, Rpc!Attach, Rpc!Calls
<1>2. CASE Rpc!Refuses("invalid_params") \/ Rpc!Refuses("already_debugging") \/ Rpc!CommandFailure
  <2>1. RpcQuiet
    BY <1>2 DEF Rpc!Refuses, Rpc!CommandFailure, Rpc!Failed, RpcQuiet
  <2>2. RpcDebuggerTyped'
    BY <1>1, <1>2 DEF RpcInv, RpcTyped, RpcDebuggerTyped, Rpc!Refuses, Rpc!CommandFailure,
       Rpc!external
  <2> QED BY <2>1, <2>2, RpcQuietKeeps
<1>3. ASSUME NEW st \in {"idle", "running", "paused"}, NEW t \in Tids,
             deb' = [st |-> st, tid |-> t], answer' = Rpc!State,
             UNCHANGED <<points, patched, loaded, rec, Rpc!files, quota, known>>
      PROVE  RpcInv'
  <2>1. RpcQuiet
    BY <1>3 DEF Rpc!State, Rpc!Ok, RpcQuiet
  <2>2. RpcDebuggerTyped'
    BY <1>1, <1>3 DEF RpcInv, RpcTyped, RpcDebuggerTyped
  <2> QED BY <2>1, <2>2, RpcQuietKeeps
<1> QED BY <1>1, <1>2, <1>3 DEF Rpc!Starts

\* A command for the debugger to run or to pause.
LEMMA RpcExecutes ==
  ASSUME RpcConstantsOK, RpcInv, NEW states \in SUBSET {"idle", "paused", "running"},
         Rpc!Executes(states),
         calls' \in 0..MaxCalls, before' \in [tid : Tids, patched : SUBSET Rpc!Addresses]
  PROVE  RpcInv'
<1>1. CASE Rpc!CommandFailure
  <2>1. RpcQuiet
    BY <1>1 DEF Rpc!Refuses, Rpc!CommandFailure, Rpc!Failed, RpcQuiet
  <2>2. RpcDebuggerTyped'
    BY <1>1 DEF RpcInv, RpcTyped, RpcDebuggerTyped, Rpc!Refuses, Rpc!CommandFailure, Rpc!external
  <2> QED BY <2>1, <2>2, RpcQuietKeeps
<1>2. CASE ~Rpc!CommandFailure
  <2>1. PICK st \in states \cup {deb.st}, t \in Tids : deb' = [st |-> st, tid |-> t]
    BY <1>2 DEF Rpc!Executes
  <2>2. st \in {"idle", "paused", "running"}
    BY <2>1 DEF RpcInv, RpcTyped, RpcDebuggerTyped
  <2>3. answer' = Rpc!State /\ UNCHANGED <<points, loaded, Rpc!files, quota, known>>
        /\ patched' \in SUBSET Rpc!Addresses
    BY <1>2 DEF Rpc!Executes, RpcInv, RpcTyped, RpcDebuggerTyped
  <2>4. rec' = rec \/ \E w \in {"target_exited", "cancelled", "none", rec.why} :
                         rec' = [rec EXCEPT !.on = FALSE, !.why = w]
    BY <1>2 DEF Rpc!Executes
  <2>5. rec' \in RpcRec
    BY <2>4 DEF RpcInv, RpcTyped, RpcDebuggerTyped, RpcRec, Rpc!Reasons
  <2>6. RpcDebuggerTyped'
    BY <2>1, <2>2, <2>3, <2>5 DEF RpcInv, RpcTyped, RpcDebuggerTyped
  <2>7. RpcQuiet
    BY <2>1, <2>2, <2>3 DEF Rpc!State, Rpc!Ok, RpcQuiet
  <2> QED BY <2>6, <2>7, RpcQuietKeeps
<1> QED BY <1>1, <1>2

\* Resume, step and pause.
LEMMA RpcControls ==
  ASSUME RpcConstantsOK, RpcInv, Rpc!RunControlCommand \/ Rpc!PauseDebuggee PROVE RpcInv'
<1>1. /\ calls' \in 0..MaxCalls /\ before' \in [tid : Tids, patched : SUBSET Rpc!Addresses]
      /\ dump = Rpc!None /\ calls < MaxCalls /\ calls' = calls + 1
      /\ before' = [tid |-> deb.tid, patched |-> patched]
  BY RpcCounted DEF Rpc!RunControlCommand, Rpc!PauseDebuggee, Rpc!Calls
<1>2. CASE \E why \in {"not_debugging", "debuggee_running"} :
             answer' = Rpc!Failed(why) /\ UNCHANGED <<Rpc!external, Rpc!files, quota, known>>
  BY <1>1, <1>2, RpcTurnedAway DEF Rpc!Failed
<1>3. CASE answer' = Rpc!Ok(deb.st) /\ UNCHANGED <<Rpc!external, Rpc!files, quota, known>>
  BY <1>1, <1>3, RpcTurnedAway DEF Rpc!Ok, RpcInv, RpcTyped, RpcDebuggerTyped
<1>4. CASE Rpc!Executes({"idle"}) \/ Rpc!Executes({"running", "idle"}) \/ Rpc!Executes({"paused"})
  BY <1>1, <1>4, RpcExecutes
<1> QED BY <1>2, <1>3, <1>4, RpcGuards DEF Rpc!RunControlCommand, Rpc!PauseDebuggee, Rpc!Calls

-----------------------------------------------------------------------------
(* Threads *)

\* The context of a thread: the current thread is changed and changed back.
LEMMA RpcContexts ==
  ASSUME RpcConstantsOK, RpcInv, Rpc!ReadThreadContext \/ Rpc!WriteThreadContext PROVE RpcInv'
<1>1. /\ calls' \in 0..MaxCalls /\ before' \in [tid : Tids, patched : SUBSET Rpc!Addresses]
      /\ dump = Rpc!None /\ calls < MaxCalls /\ calls' = calls + 1
      /\ before' = [tid |-> deb.tid, patched |-> patched]
  BY RpcCounted DEF Rpc!ReadThreadContext, Rpc!WriteThreadContext, Rpc!Calls
<1>2. CASE \E why \in {"not_debugging", "debuggee_running", "invalid_params",
           "debugger_command_failed"} :
             answer' = Rpc!Failed(why) /\ UNCHANGED <<Rpc!external, Rpc!files, quota, known>>
  BY <1>1, <1>2, RpcTurnedAway DEF Rpc!Failed
<1>3. ASSUME NEW t \in Tids, NEW done \in BOOLEAN, NEW back \in BOOLEAN,
             deb' = [deb EXCEPT !.tid = IF back THEN @ ELSE t],
             answer' = Rpc!AccessAnswer(done, back),
             UNCHANGED <<points, patched, loaded, rec, Rpc!files, quota, known>>
      PROVE  RpcInv'
  <2>1. RpcDebuggerTyped'
    BY <1>1, <1>3 DEF RpcInv, RpcTyped, RpcDebuggerTyped
  <2>2. RpcTyped' /\ RpcDumped' /\ RpcEnd' /\ Rpc!FinalIsWhole'
    BY <1>3, <2>1 DEF RpcInv, RpcTyped, RpcDumped, RpcEnd, Rpc!FinalIsWhole, Rpc!files
  <2>3. answer'.is \notin {"restored", "trace"} /\ (answer'.is = "registers" => back)
    BY <1>3 DEF Rpc!AccessAnswer, Rpc!Failed, Rpc!Ok
  <2>4. back => deb'.tid = before'.tid
    BY <1>1, <1>3 DEF RpcInv, RpcTyped, RpcDebuggerTyped
  <2>5. Rpc!ThreadKept' /\ Rpc!PatchesCounted' /\ Rpc!EndIsKept'
    BY <1>3, <2>3, <2>4 DEF RpcInv, Rpc!ThreadKept, Rpc!PatchesCounted, Rpc!EndIsKept, Rpc!Ok
  <2> QED BY <2>2, <2>5 DEF RpcInv
<1> QED BY <1>2, <1>3, RpcGuards
        DEF Rpc!ReadThreadContext, Rpc!WriteThreadContext, Rpc!Calls, Rpc!ThreadContext,
        Rpc!Refuses, Rpc!CommandFailure

-----------------------------------------------------------------------------
(* Breakpoints and methods that only read *)

RpcWords == {"invalid_params", "debugger_command_failed", "breakpoint_not_found",
      "patch_apply_failed",
             "patch_restore_failed", "dump_too_large", "module_not_found", "artifact_write_failed",
             "memory_read_failed", "invalid_pe", "artifact_rename_failed", "register_read_failed",
             "register_write_failed", "memory_write_failed", "memory_map_failed",
             "memory_protect_set_failed", "module_list_failed", "stack_read_failed",
             "thread_not_found", "patch_enum_failed", "insufficient_disk_space", "already_tracing",
             "not_debugging", "debuggee_running"}

\* A method that is refused or only reads
RpcReads ==
    \/ \E why \in RpcWords : Rpc!Refuses(why)
    \/ \E is \in {"read", "headers"} \cup Rpc!Kinds :
         answer' = Rpc!Ok(is) /\ UNCHANGED <<Rpc!external, Rpc!files, quota, known>>

RpcCalled ==
    /\ dump = Rpc!None /\ calls < MaxCalls /\ calls' = calls + 1
    /\ before' = [tid |-> deb.tid, patched |-> patched]

\* A method that only reads keeps the invariant.
LEMMA RpcReadsKeep == ASSUME RpcConstantsOK, RpcInv, RpcCalled, RpcReads PROVE RpcInv'
<1>1. answer'.is \notin {"registers", "restored", "trace"}
      /\ UNCHANGED <<Rpc!external, Rpc!files, quota, known>>
  BY DEF RpcReads, RpcWords, Rpc!Refuses, Rpc!Failed, Rpc!Ok, Rpc!Kinds
<1> QED BY <1>1, RpcTurnedAway DEF RpcCalled

\* A call is refused by its guard, or its method does what it does
LEMMA RpcMethod ==
  ASSUME RpcConstantsOK, RpcInv, RpcCalled,
         NEW ready \in {"ready", "not_debugging", "debuggee_running"},
         ready # "ready", answer' = Rpc!Failed(ready), UNCHANGED <<Rpc!external, Rpc!files, quota,
         known>>
  PROVE  RpcInv'
<1>1. RpcReads
  BY DEF RpcReads, RpcWords, Rpc!Refuses
<1> QED BY <1>1, RpcReadsKeep

\* The breakpoints become ps.
LEMMA RpcPoints ==
  ASSUME RpcConstantsOK, RpcInv, RpcCalled,
         NEW ps \in SUBSET [kind : Rpc!Kinds, at : Rpc!Addresses, cond : BOOLEAN],
         NEW shape \in {"set", "removed"} \cup Rpc!Kinds, Rpc!PointsBecome(ps, shape)
  PROVE  RpcInv'
<1>1. RpcDebuggerTyped'
  BY RpcCounted DEF Rpc!PointsBecome, RpcCalled, RpcInv, RpcTyped, RpcDebuggerTyped
<1>2. RpcQuiet
  BY DEF Rpc!PointsBecome, RpcQuiet, Rpc!Ok, Rpc!Kinds
<1> QED BY <1>1, <1>2, RpcQuietKeeps

\* Breakpoints are set and removed.
LEMMA RpcBreakpoints ==
  ASSUME RpcConstantsOK, RpcInv, NEW a \in Rpc!Addresses,
         \/ \E set \in BOOLEAN : Rpc!ChangeBreakpoint(a, set)
         \/ Rpc!SetHardwareBreakpointRpc(a) \/ Rpc!RemoveHardwareBreakpointRpc(a)
         \/ Rpc!SetMemoryBreakpointRpc(a) \/ Rpc!RemoveMemoryBreakpointRpc(a)
  PROVE  RpcInv'
<1>1. RpcCalled
  BY DEF RpcCalled, Rpc!ChangeBreakpoint, Rpc!SetHardwareBreakpointRpc,
     Rpc!RemoveHardwareBreakpointRpc,
         Rpc!SetMemoryBreakpointRpc, Rpc!RemoveMemoryBreakpointRpc, Rpc!Calls
<1>2. CASE Rpc!RequirePaused # "ready"
  <2>1. answer' = Rpc!Failed(Rpc!RequirePaused) /\ UNCHANGED <<Rpc!external, Rpc!files, quota,
        known>>
    BY <1>2 DEF Rpc!ChangeBreakpoint, Rpc!SetHardwareBreakpointRpc, Rpc!RemoveHardwareBreakpointRpc,
         Rpc!SetMemoryBreakpointRpc, Rpc!RemoveMemoryBreakpointRpc, Rpc!Calls
  <2> QED BY <1>1, <1>2, <2>1, RpcMethod, RpcGuards
<1>3. CASE Rpc!RequirePaused = "ready"
  <2>1. PICK k \in Rpc!Kinds : Rpc!Sets(k, a) \/ Rpc!Removes(k, a)
    BY <1>3 DEF Rpc!ChangeBreakpoint, Rpc!SetHardwareBreakpointRpc, Rpc!RemoveHardwareBreakpointRpc,
         Rpc!SetMemoryBreakpointRpc, Rpc!RemoveMemoryBreakpointRpc, Rpc!Calls, Rpc!Kinds
  <2>2. points \subseteq [kind : Rpc!Kinds, at : Rpc!Addresses, cond : BOOLEAN]
    BY DEF RpcInv, RpcTyped, RpcDebuggerTyped
  <2>3. points \cup {[kind |-> k, at |-> a, cond |-> FALSE]} \in SUBSET [kind : Rpc!Kinds,
        at : Rpc!Addresses, cond : BOOLEAN]
        /\ points \ Rpc!Point(k, a) \in SUBSET [kind : Rpc!Kinds, at : Rpc!Addresses,
           cond : BOOLEAN]
        /\ points \in SUBSET [kind : Rpc!Kinds, at : Rpc!Addresses, cond : BOOLEAN]
    <3>1. PICK b : b = [kind |-> k, at |-> a, cond |-> FALSE]
      OBVIOUS
    <3>2. b \in [kind : Rpc!Kinds, at : Rpc!Addresses, cond : BOOLEAN]
      BY <3>1
    <3>3. points \cup {b} \in SUBSET [kind : Rpc!Kinds, at : Rpc!Addresses, cond : BOOLEAN]
          /\ points \ Rpc!Point(k, a) \in SUBSET [kind : Rpc!Kinds, at : Rpc!Addresses,
             cond : BOOLEAN]
      BY <2>2, <3>2
    <3> QED BY <2>2, <3>1, <3>3
  <2>4. CASE Rpc!CommandFailure \/ Rpc!Refuses("invalid_params")
    BY <1>1, <2>4, RpcReadsKeep DEF RpcReads, RpcWords, Rpc!CommandFailure
  <2>5. CASE ~(Rpc!CommandFailure \/ Rpc!Refuses("invalid_params"))
    <3>1. \/ Rpc!PointsBecome(points \cup {[kind |-> k, at |-> a, cond |-> FALSE]}, "set")
          \/ Rpc!PointsBecome(points, "set") \/ Rpc!PointsBecome(points \ Rpc!Point(k, a),
             "removed")
      BY <2>1, <2>5 DEF Rpc!Sets, Rpc!Removes
    <3> QED BY <1>1, <2>3, <3>1, RpcPoints
  <2> QED BY <2>4, <2>5
<1> QED BY <1>2, <1>3

\* Conditions of breakpoints.
LEMMA RpcConditions ==
  ASSUME RpcConstantsOK, RpcInv, NEW a \in Rpc!Addresses,
         Rpc!SetBreakpointConditionRpc(a) \/ Rpc!GetBreakpointConditionRpc(a)
  PROVE  RpcInv'
<1>1. RpcCalled
  BY DEF RpcCalled, Rpc!SetBreakpointConditionRpc, Rpc!GetBreakpointConditionRpc, Rpc!Calls
<1>2. points \subseteq [kind : Rpc!Kinds, at : Rpc!Addresses, cond : BOOLEAN]
  BY DEF RpcInv, RpcTyped, RpcDebuggerTyped
<1>3. \A p \in Rpc!LookupBridgeBreakpoint(a) : p \in points /\ p.kind \in Rpc!Kinds
        /\ [p EXCEPT !.cond = TRUE] \in [kind : Rpc!Kinds, at : Rpc!Addresses, cond : BOOLEAN]
  BY <1>2 DEF Rpc!LookupBridgeBreakpoint, Rpc!Point
<1>4. \/ \E ready \in {"not_debugging", "debuggee_running"} :
           answer' = Rpc!Failed(ready) /\ UNCHANGED <<Rpc!external, Rpc!files, quota, known>>
      \/ \E why \in RpcWords : Rpc!Refuses(why)
      \/ \E p \in Rpc!LookupBridgeBreakpoint(a) :
           \/ Rpc!PointsBecome((points \ {p}) \cup {[p EXCEPT !.cond = TRUE]}, p.kind)
           \/ Rpc!PointsBecome(points, p.kind)
  BY RpcGuards DEF Rpc!SetBreakpointConditionRpc, Rpc!GetBreakpointConditionRpc, Rpc!Calls,
     RpcWords, Rpc!CommandFailure
<1>5. CASE \E ready \in {"not_debugging", "debuggee_running"} :
           answer' = Rpc!Failed(ready) /\ UNCHANGED <<Rpc!external, Rpc!files, quota, known>>
  BY <1>1, <1>5, RpcMethod
<1>6. CASE \E why \in RpcWords : Rpc!Refuses(why)
  BY <1>1, <1>6, RpcReadsKeep DEF RpcReads
<1>7. ASSUME NEW p \in Rpc!LookupBridgeBreakpoint(a),
             \/ Rpc!PointsBecome((points \ {p}) \cup {[p EXCEPT !.cond = TRUE]}, p.kind)
             \/ Rpc!PointsBecome(points, p.kind)
      PROVE  RpcInv'
  <2>1. (points \ {p}) \cup {[p EXCEPT !.cond = TRUE]} \in SUBSET [kind : Rpc!Kinds,
        at : Rpc!Addresses, cond : BOOLEAN]
        /\ points \in SUBSET [kind : Rpc!Kinds, at : Rpc!Addresses, cond : BOOLEAN]
        /\ p.kind \in {"set", "removed"} \cup Rpc!Kinds
    BY <1>2, <1>3
  <2> QED BY <1>1, <1>7, <2>1, RpcPoints
<1> QED BY <1>4, <1>5, <1>6, <1>7

-----------------------------------------------------------------------------
(* Patches *)

\* A patch of n bytes is applied whole or not at all.
LEMMA RpcApplies ==
  ASSUME RpcConstantsOK, RpcInv, NEW a \in Rpc!Addresses, NEW n \in 1..(Last - a + 1),
         Rpc!ApplyPatch(a, n)
  PROVE  RpcInv'
<1>1. RpcCalled
  BY DEF RpcCalled, Rpc!ApplyPatch, Rpc!Calls
<1>2. CASE \E ready \in {"not_debugging", "debuggee_running"} :
           answer' = Rpc!Failed(ready) /\ UNCHANGED <<Rpc!external, Rpc!files, quota, known>>
  BY <1>1, <1>2, RpcMethod
<1>3. CASE \E why \in RpcWords : Rpc!Refuses(why)
  BY <1>1, <1>3, RpcReadsKeep DEF RpcReads
<1>4. CASE /\ patched' = patched \cup (a..(a + n - 1)) /\ answer' = Rpc!Ok("applied")
           /\ UNCHANGED <<deb, points, loaded, rec, Rpc!files, quota, known>>
  <2>1. a..(a + n - 1) \subseteq Rpc!Addresses
    BY DEF RpcConstantsOK, Rpc!Addresses
  <2>2. RpcDebuggerTyped'
    BY <1>1, <1>4, <2>1, RpcCounted DEF RpcCalled, RpcInv, RpcTyped, RpcDebuggerTyped
  <2>3. RpcQuiet
    BY <1>4 DEF RpcQuiet, Rpc!Ok
  <2> QED BY <2>2, <2>3, RpcQuietKeeps
<1> QED BY <1>2, <1>3, <1>4, RpcGuards DEF Rpc!ApplyPatch, Rpc!Calls, RpcWords

\* Some number is the greatest of a set of bounded ones
LEMMA RpcGreatest ==
  ASSUME NEW n \in Nat, NEW S \in SUBSET (0..n), S # {}
  PROVE  \E m \in S : \A b \in S : b <= m
<1> DEFINE below == {n - x : x \in S}
<1>1. below \in SUBSET Nat /\ below # {}
  <2>1. \A x \in S : n - x \in Nat
    OBVIOUS
  <2>2. PICK x \in S : TRUE
    OBVIOUS
  <2>3. n - x \in below
    OBVIOUS
  <2> QED BY <2>1, <2>3
<1>2. PICK y \in below : \A z \in below : ~ (<<z, y>> \in OpToRel(<, Nat))
  BY <1>1, NatLessThanWellFounded, WFMin
<1>3. PICK m \in S : y = n - m
  BY <1>2
<1>4. \A b \in S : b <= m
  <2> TAKE b \in S
  <2>1. n - b \in below /\ n - b \in Nat /\ n - m \in Nat
    OBVIOUS
  <2>2. ~(n - b < n - m)
    BY <1>1, <1>2, <1>3, <2>1 DEF OpToRel
  <2>3. n \in Nat /\ b \in Nat /\ m \in Nat
    OBVIOUS
  <2> HIDE DEF below
  <2> QED BY <2>2, <2>3
<1> QED BY <1>4

\* A set of addresses without a gap from a on ends where it has as many
LEMMA RpcNoGap ==
  ASSUME RpcConstantsOK, NEW a \in Rpc!Addresses, NEW S \in SUBSET Rpc!Addresses, S # {},
         \A b \in S : b >= a /\ a..b \subseteq S
  PROVE  IsFiniteSet(S) /\ S = a..(a + Cardinality(S) - 1) /\ Cardinality(S) \in Nat \ {0}
<1>1. IsFiniteSet(S)
  <2>1. IsFiniteSet(Rpc!Addresses)
    BY FS_Interval DEF RpcConstantsOK, Rpc!Addresses
  <2> QED BY <2>1, FS_Subset
<1>2. S \subseteq Int /\ a \in Int
  BY DEF RpcConstantsOK, Rpc!Addresses
<1>3. PICK m \in S : \A b \in S : b <= m
  <2>1. S \in SUBSET (0..Last) /\ Last \in Nat
    BY DEF RpcConstantsOK, Rpc!Addresses
  <2> QED BY <2>1, RpcGreatest
<1>4. S = a..m
  <2>1. a..m \subseteq S
    BY <1>3
  <2>2. ASSUME NEW b \in S PROVE b \in a..m
    <3>1. b >= a /\ b <= m /\ b \in Int /\ m \in Int
      BY <1>2, <1>3
    <3> QED BY <1>2, <3>1
  <2> QED BY <2>1, <2>2
<1>5. Cardinality(S) = m - a + 1 /\ m >= a
  BY <1>2, <1>3, <1>4, FS_Interval
<1> QED BY <1>1, <1>2, <1>4, <1>5

\* The instance counts like everybody
LEMMA RpcCount == ASSUME NEW S PROVE Rpc!Cardinality(S) = Cardinality(S)
  BY DEF Rpc!Cardinality, Cardinality

\* The bytes a restore tells of are those no longer patched.
LEMMA RpcRestores ==
  ASSUME RpcConstantsOK, RpcInv, NEW a \in Rpc!Addresses, Rpc!Restored(a) # 0,
         before' = [tid |-> deb.tid, patched |-> patched],
         patched' = patched \ Rpc!GivenBack(a),
         answer' = [ok |-> TRUE, is |-> "restored", from |-> a, bytes |-> Rpc!Restored(a),
                    complete |-> Rpc!RestoredIsComplete(a)]
  PROVE  Rpc!PatchesCounted'
<1> DEFINE S == {b \in Rpc!RunFrom(a) : b < a + RestoreLimit}
           k == Cardinality(S)
<1>1. patched \subseteq Rpc!Addresses /\ a \in Int /\ Rpc!Addresses \subseteq Int
  BY DEF RpcInv, RpcTyped, RpcDebuggerTyped, RpcConstantsOK, Rpc!Addresses
<1>2. S \in SUBSET Rpc!Addresses /\ \A b \in S : b >= a /\ a..b \subseteq S
  BY <1>1 DEF Rpc!RunFrom, RpcConstantsOK, Rpc!Addresses
<1>3. S # {}
  BY FS_EmptySet, RpcCount DEF Rpc!Restored
<1>4. IsFiniteSet(S) /\ S = a..(a + k - 1) /\ k \in Nat \ {0}
  BY <1>2, <1>3, RpcNoGap
<1>5. Rpc!Restored(a) = k
  BY RpcCount DEF Rpc!Restored
<1>6. Rpc!RunFrom(a) \subseteq patched /\ Rpc!GivenBack(a) \subseteq patched
  <2>1. ASSUME NEW b \in Rpc!RunFrom(a) PROVE b \in patched
    <3>1. b \in Int /\ b >= a /\ a..b \subseteq patched
      BY <1>1 DEF Rpc!RunFrom
    <3>2. b \in a..b
      BY <1>1, <3>1
    <3> QED BY <3>1, <3>2
  <2> QED BY <2>1 DEF Rpc!GivenBack
<1>7. before'.patched \ patched' = Rpc!GivenBack(a)
  BY <1>6
<1>8. k < RestoreLimit => a + k \notin patched
  <2>1. SUFFICES ASSUME k < RestoreLimit, a + k \in patched PROVE FALSE
    OBVIOUS
  <2>2. a..(a + k) \subseteq patched
    <3>1. a..(a + k - 1) \subseteq patched
      BY <1>4, <1>6
    <3>2. \A b \in a..(a + k) : b \in a..(a + k - 1) \/ b = a + k
      BY <1>1, <1>4
    <3> QED BY <2>1, <3>1, <3>2
  <2>3. a + k \in S
    BY <1>1, <1>4, <2>1, <2>2 DEF Rpc!RunFrom, RpcConstantsOK
  <2> HIDE DEF S, k
  <2> QED BY <1>1, <1>4, <2>3
<1>9. Rpc!GivenBack(a) = S \/ (k >= RestoreLimit /\ Rpc!GivenBack(a) = S \cup {a + RestoreLimit})
  <2>1. Rpc!GivenBack(a) \subseteq S \cup {a + RestoreLimit} /\ S \subseteq Rpc!GivenBack(a)
    BY <1>1 DEF Rpc!GivenBack, Rpc!RunFrom, RpcConstantsOK, Rpc!Addresses
  <2>2. a + RestoreLimit \in Rpc!GivenBack(a) => k >= RestoreLimit
    <3>1. SUFFICES ASSUME a + RestoreLimit \in Rpc!GivenBack(a) PROVE k >= RestoreLimit
      OBVIOUS
    <3>2. a + RestoreLimit - 1 \in S
      BY <1>1, <3>1 DEF Rpc!GivenBack, Rpc!RunFrom, RpcConstantsOK, Rpc!Addresses
    <3> HIDE DEF S, k
    <3> QED BY <1>1, <1>4, <3>2 DEF RpcConstantsOK
  <2> QED BY <2>1, <2>2
<1>10. Cardinality(Rpc!GivenBack(a)) = k \/ (k >= RestoreLimit
       /\ Cardinality(Rpc!GivenBack(a)) = k + 1)
  <2>1. a + RestoreLimit \notin S
    BY <1>1 DEF RpcConstantsOK
  <2>2. Cardinality(S \cup {a + RestoreLimit}) = k + 1
    BY <1>4, <2>1, FS_AddElement
  <2> QED BY <1>9, <2>2
<1>11. answer'.bytes = k /\ answer'.from = a /\ (answer'.complete <=> k < RestoreLimit)
  BY <1>5 DEF Rpc!RestoredIsComplete
<1>12. answer'.complete => answer'.from + answer'.bytes \notin patched'
  BY <1>8, <1>11
<1>13. k >= RestoreLimit => ~answer'.complete
  <2>1. k \in Nat /\ RestoreLimit \in Nat
    BY <1>4 DEF RpcConstantsOK
  <2> HIDE DEF k
  <2> QED BY <1>11, <2>1
<1> HIDE DEF S, k
<1> QED BY <1>7, <1>10, <1>11, <1>12, <1>13, RpcCount DEF Rpc!PatchesCounted

\* A restore, and a refusal of one.
LEMMA RpcGivesBack ==
  ASSUME RpcConstantsOK, RpcInv, NEW a \in Rpc!Addresses, Rpc!RestorePatch(a)
  PROVE  RpcInv'
<1>1. RpcCalled
  BY DEF RpcCalled, Rpc!RestorePatch, Rpc!Calls
<1>2. CASE \E ready \in {"not_debugging", "debuggee_running"} :
           answer' = Rpc!Failed(ready) /\ UNCHANGED <<Rpc!external, Rpc!files, quota, known>>
  BY <1>1, <1>2, RpcMethod
<1>3. CASE \E why \in RpcWords : Rpc!Refuses(why)
  BY <1>1, <1>3, RpcReadsKeep DEF RpcReads
<1>4. CASE /\ Rpc!Restored(a) # 0 /\ patched' = patched \ Rpc!GivenBack(a)
           /\ answer' = [ok |-> TRUE, is |-> "restored", from |-> a, bytes |-> Rpc!Restored(a),
                         complete |-> Rpc!RestoredIsComplete(a)]
           /\ UNCHANGED <<deb, points, loaded, rec, Rpc!files, quota, known>>
  <2>1. RpcDebuggerTyped'
    BY <1>1, <1>4, RpcCounted DEF RpcCalled, RpcInv, RpcTyped, RpcDebuggerTyped
  <2>2. RpcTyped' /\ RpcDumped' /\ RpcEnd' /\ Rpc!FinalIsWhole'
    BY <1>4, <2>1 DEF RpcInv, RpcTyped, RpcDumped, RpcEnd, Rpc!FinalIsWhole, Rpc!files
  <2>3. Rpc!PatchesCounted'
    BY <1>1, <1>4, RpcRestores DEF RpcCalled
  <2>4. answer'.is = "restored"
    BY <1>4
  <2>5. Rpc!ThreadKept' /\ Rpc!EndIsKept'
    BY <1>4, <2>4 DEF RpcInv, Rpc!ThreadKept, Rpc!EndIsKept, Rpc!Ok
  <2> QED BY <2>2, <2>3, <2>5 DEF RpcInv
<1> QED BY <1>2, <1>3, <1>4, RpcGuards DEF Rpc!RestorePatch, Rpc!Calls, RpcWords

-----------------------------------------------------------------------------
(* Dumps *)

\* A dump begins.
LEMMA RpcDumps ==
  ASSUME RpcConstantsOK, RpcInv, Rpc!DumpModule
  PROVE  RpcInv'
<1>1. RpcCalled
  BY DEF RpcCalled, Rpc!DumpModule, Rpc!Calls
<1>2. CASE \E ready \in {"not_debugging", "debuggee_running"} :
           answer' = Rpc!Failed(ready) /\ UNCHANGED <<Rpc!external, Rpc!files, quota, known>>
  BY <1>1, <1>2, RpcMethod
<1>3. CASE \E why \in RpcWords : Rpc!Refuses(why)
  BY <1>1, <1>3, RpcReadsKeep DEF RpcReads
<1>4. CASE Rpc!FilesBecome(0, 0, final) /\ answer' = Rpc!Ok("dumping")
  <2>1. RpcDebuggerTyped'
    BY <1>1, <1>4, RpcCounted DEF Rpc!FilesBecome, Rpc!external, RpcCalled, RpcInv, RpcTyped,
       RpcDebuggerTyped
  <2>2. RpcTyped' /\ RpcDumped' /\ RpcEnd' /\ Rpc!FinalIsWhole'
    BY <1>4, <2>1 DEF Rpc!FilesBecome, RpcConstantsOK, RpcInv, RpcTyped, RpcDumped, RpcEnd,
       Rpc!FinalIsWhole, RpcFiles
  <2>3. Rpc!ThreadKept' /\ Rpc!PatchesCounted' /\ Rpc!EndIsKept'
    BY <1>4 DEF Rpc!FilesBecome, RpcInv, Rpc!ThreadKept, Rpc!PatchesCounted, Rpc!EndIsKept, Rpc!Ok
  <2> QED BY <2>2, <2>3 DEF RpcInv
<1> QED BY <1>2, <1>3, <1>4, RpcGuards DEF Rpc!DumpModule, Rpc!Calls, RpcWords

\* It goes on chunk by chunk; the last step renames the file.
LEMMA RpcDumpGoesOn ==
  ASSUME RpcConstantsOK, RpcInv, Rpc!DumpChunk \/ Rpc!DumpRename
  PROVE  RpcInv'
<1>1. UNCHANGED <<Rpc!external, quota, known, before, calls>>
  BY DEF Rpc!DumpChunk, Rpc!DumpRename, Rpc!DumpFails, Rpc!FilesBecome
<1>2. RpcDebuggerTyped'
  BY <1>1 DEF Rpc!external, RpcInv, RpcTyped, RpcDebuggerTyped
<1>3. \/ dump' = Rpc!None /\ partial' = Rpc!None /\ final' = final
      \/ dump # Rpc!None /\ dump < Chunks /\ dump' = dump + 1 /\ partial' = dump + 1
         /\ final' = final
      \/ dump = Chunks /\ dump' = Rpc!None /\ partial' = Rpc!None /\ final' = partial
  BY DEF Rpc!DumpChunk, Rpc!DumpRename, Rpc!DumpFails, Rpc!FilesBecome
<1>4. RpcTyped' /\ RpcDumped' /\ RpcEnd' /\ Rpc!FinalIsWhole'
  BY <1>1, <1>2, <1>3 DEF RpcConstantsOK, RpcInv, RpcTyped, RpcDumped, RpcEnd, Rpc!FinalIsWhole,
     Rpc!None, RpcFiles
<1>5. answer' = answer \/ answer'.is \notin {"registers", "restored", "trace"}
  BY DEF Rpc!DumpChunk, Rpc!DumpRename, Rpc!DumpFails, Rpc!Ok, Rpc!Failed
<1>6. Rpc!ThreadKept' /\ Rpc!PatchesCounted' /\ Rpc!EndIsKept'
  BY <1>1, <1>5 DEF Rpc!external, RpcInv, Rpc!ThreadKept, Rpc!PatchesCounted, Rpc!EndIsKept, Rpc!Ok
<1> QED BY <1>4, <1>6 DEF RpcInv

-----------------------------------------------------------------------------
(* Traces *)

\* An answer tells of the quota and of the recorder.
LEMMA RpcTells ==
  ASSUME RpcConstantsOK, RpcInv, NEW q \in RpcQuota, NEW r \in RpcRec,
         q.active = quota.active, q.why = quota.why, Rpc!TraceResult(q, r),
         calls' \in 0..MaxCalls, before' \in [tid : Tids, patched : SUBSET Rpc!Addresses]
  PROVE  RpcInv'
<1>1. UNCHANGED <<deb, points, patched, loaded, Rpc!files>> /\ rec' = r
  BY DEF Rpc!TraceResult, Rpc!Tells
<1>2. RpcDebuggerTyped'
  BY <1>1 DEF RpcInv, RpcTyped, RpcDebuggerTyped
<1>3. Rpc!ReasonOf(q, r) \in Rpc!Reasons \cup {"not_started", "stopped", "telemetry_unavailable"}
  BY DEF Rpc!ReasonOf, RpcQuota, Rpc!Reasons, RpcRec
<1>4. quota' \in RpcQuota
  <2>1. PICK n : n = [q EXCEPT !.active = FALSE, !.why = Rpc!ReasonOf(q, r)]
    OBVIOUS
  <2>2. PICK u : u = [q EXCEPT !.active = FALSE, !.why = "telemetry_unavailable"]
    OBVIOUS
  <2>3. n \in RpcQuota /\ u \in RpcQuota
    BY <1>3, <2>1, <2>2 DEF RpcQuota
  <2>4. quota' \in {q, n, u}
    BY <2>1, <2>2 DEF Rpc!TraceResult, Rpc!Tells
  <2> QED BY <2>3, <2>4
<1>5. RpcTyped' /\ RpcDumped' /\ Rpc!FinalIsWhole'
  BY <1>1, <1>2, <1>4 DEF RpcInv, RpcTyped, RpcDumped, Rpc!FinalIsWhole, Rpc!files
<1>6. answer'.is \notin {"registers", "restored"}
  BY DEF Rpc!TraceResult, Rpc!Tells, Rpc!Ok, Rpc!Failed
<1>7. Rpc!ThreadKept' /\ Rpc!PatchesCounted'
  BY <1>6 DEF Rpc!ThreadKept, Rpc!PatchesCounted, Rpc!Ok
<1>8. RpcEnd' /\ Rpc!EndIsKept'
  <2>1. CASE ~q.init
    BY <2>1 DEF Rpc!TraceResult, Rpc!Ok, RpcInv, RpcEnd, Rpc!EndIsKept
  <2>2. CASE q.init /\ ~r.heard
    <3>1. /\ quota' = [q EXCEPT !.active = FALSE, !.why = "telemetry_unavailable"]
          /\ answer' = Rpc!Failed("trace_telemetry_unavailable") /\ known' = "telemetry_unavailable"
      BY <2>2 DEF Rpc!TraceResult, Rpc!Tells
    <3>2. quota'.active = FALSE /\ quota'.why = "telemetry_unavailable"
      BY <3>1 DEF RpcQuota
    <3>3. answer'.is = "trace_telemetry_unavailable"
      BY <3>1 DEF Rpc!Failed
    <3> QED BY <3>1, <3>2, <3>3 DEF RpcEnd, Rpc!EndIsKept
  <2>3. CASE Rpc!Tells(q, r) /\ r.on
    BY <2>3 DEF Rpc!Tells, RpcInv, RpcEnd, Rpc!EndIsKept
  <2>4. CASE Rpc!Tells(q, r) /\ ~r.on
    <3>1. known # "none" => Rpc!ReasonOf(q, r) = known
      BY <2>4 DEF Rpc!ReasonOf, Rpc!Latched, RpcInv, RpcEnd, Rpc!EndIsKept
    <3>2. quota'.active = FALSE /\ quota'.why = Rpc!ReasonOf(q, r)
      BY <2>4 DEF Rpc!Tells, RpcQuota
    <3>3. answer'.why = Rpc!ReasonOf(q, r)
      BY <2>4 DEF Rpc!Tells
    <3>4. known' = IF known = "none" THEN Rpc!ReasonOf(q, r) ELSE known
      BY <2>4 DEF Rpc!Tells
    <3> QED BY <3>1, <3>2, <3>3, <3>4 DEF RpcEnd, Rpc!EndIsKept
  <2> QED BY <2>1, <2>2, <2>3, <2>4 DEF Rpc!TraceResult
<1> QED BY <1>5, <1>7, <1>8 DEF RpcInv

\* The status of a trace, and its stop.
LEMMA RpcTracesTold ==
  ASSUME RpcConstantsOK, RpcInv, Rpc!TraceStatus \/ Rpc!StopTrace
  PROVE  RpcInv'
<1>1. RpcCalled /\ calls' \in 0..MaxCalls
      /\ before' \in [tid : Tids, patched : SUBSET Rpc!Addresses]
  BY RpcCounted DEF RpcCalled, Rpc!TraceStatus, Rpc!StopTrace, Rpc!Calls
<1>2. quota \in RpcQuota /\ rec \in RpcRec
  BY DEF RpcInv, RpcTyped, RpcDebuggerTyped
<1>3. PICK q : q = [quota EXCEPT !.cancel = TRUE]
  OBVIOUS
<1>4. q \in RpcQuota /\ q.active = quota.active /\ q.why = quota.why /\ q.init = quota.init
  BY <1>2, <1>3 DEF RpcQuota
<1>5. \A r \in Rpc!StopsRecording : r \in RpcRec
  BY <1>2 DEF Rpc!StopsRecording, Rpc!Reasons, Rpc!Limits, RpcRec
<1>6. \/ \E r \in RpcRec : Rpc!TraceResult(quota, r) \/ Rpc!TraceResult(q, r)
      \/ Rpc!EnforceQuotas
      \/ quota' = q /\ answer' = Rpc!Failed("debugger_command_failed")
         /\ UNCHANGED <<Rpc!external, Rpc!files, known>>
  BY <1>2, <1>3, <1>5 DEF Rpc!TraceStatus, Rpc!StopTrace, Rpc!Calls
<1>7. ASSUME NEW r \in RpcRec, Rpc!TraceResult(quota, r) \/ Rpc!TraceResult(q, r)
      PROVE  RpcInv'
  BY <1>1, <1>2, <1>4, <1>7, RpcTells
<1>8. CASE Rpc!EnforceQuotas
  <2>1. CASE Rpc!CommandFailure
    BY <1>1, <2>1, RpcReadsKeep DEF RpcReads, RpcWords, Rpc!CommandFailure
  <2>2. ASSUME NEW r \in Rpc!StopsRecording, Rpc!Tells(quota, r) PROVE RpcInv'
    <3>1. r.heard /\ quota.init
      BY <1>2, <1>8 DEF Rpc!EnforceQuotas, Rpc!StopsRecording, RpcRec
    <3>2. Rpc!TraceResult(quota, r)
      BY <2>2, <3>1 DEF Rpc!TraceResult
    <3> QED BY <1>1, <1>2, <1>5, <3>2, RpcTells
  <2>3. CASE /\ \E r \in Rpc!StopsRecording : rec' = [r EXCEPT !.heard = FALSE]
             /\ answer' = Rpc!Failed("trace_telemetry_unavailable")
             /\ UNCHANGED <<deb, points, patched, loaded, Rpc!files, quota, known>>
    <3>1. rec' \in RpcRec
      BY <1>5, <2>3 DEF RpcRec
    <3>2. RpcDebuggerTyped'
      BY <1>1, <2>3, <3>1 DEF RpcInv, RpcTyped, RpcDebuggerTyped
    <3>3. RpcQuiet
      BY <2>3 DEF RpcQuiet, Rpc!Failed
    <3> QED BY <3>2, <3>3, RpcQuietKeeps
  <2> QED BY <1>8, <2>1, <2>2, <2>3 DEF Rpc!EnforceQuotas
<1>9. CASE quota' = q /\ answer' = Rpc!Failed("debugger_command_failed")
           /\ UNCHANGED <<Rpc!external, Rpc!files, known>>
  <2>1. RpcDebuggerTyped'
    BY <1>1, <1>9 DEF Rpc!external, RpcInv, RpcTyped, RpcDebuggerTyped
  <2>2. RpcTyped' /\ RpcDumped' /\ RpcEnd' /\ Rpc!FinalIsWhole'
    BY <1>4, <1>9, <2>1 DEF Rpc!files, RpcInv, RpcTyped, RpcDumped, RpcEnd, Rpc!FinalIsWhole
  <2>3. answer'.is = "debugger_command_failed"
    BY <1>9 DEF Rpc!Failed
  <2>4. Rpc!ThreadKept' /\ Rpc!PatchesCounted' /\ Rpc!EndIsKept'
    BY <1>4, <1>9, <2>3 DEF RpcInv, Rpc!ThreadKept, Rpc!PatchesCounted, Rpc!EndIsKept, Rpc!Ok
  <2> QED BY <2>2, <2>4 DEF RpcInv
<1> QED BY <1>6, <1>7, <1>8, <1>9

\* A trace begins, and what was known of the last one is forgotten.
LEMMA RpcStartsTrace == ASSUME RpcConstantsOK, RpcInv, Rpc!StartTrace PROVE RpcInv'
<1>1. RpcCalled /\ calls' \in 0..MaxCalls
      /\ before' \in [tid : Tids, patched : SUBSET Rpc!Addresses]
  BY RpcCounted DEF RpcCalled, Rpc!StartTrace, Rpc!Calls
<1>2. CASE \E ready \in {"not_debugging", "debuggee_running"} :
           answer' = Rpc!Failed(ready) /\ UNCHANGED <<Rpc!external, Rpc!files, quota, known>>
  BY <1>1, <1>2, RpcMethod
<1>3. CASE \E why \in RpcWords : Rpc!Refuses(why)
  BY <1>1, <1>3, RpcReadsKeep DEF RpcReads
<1>4. CASE /\ \E heard \in BOOLEAN : rec' = [on |-> FALSE, why |-> "cancelled", heard |-> heard]
           /\ answer' = Rpc!Failed("trace_quota_unavailable")
           /\ UNCHANGED <<deb, points, patched, loaded, Rpc!files, quota, known>>
  <2>1. RpcDebuggerTyped'
    BY <1>1, <1>4 DEF RpcInv, RpcTyped, RpcDebuggerTyped, RpcRec, Rpc!Reasons
  <2>2. RpcQuiet
    BY <1>4 DEF RpcQuiet, Rpc!Failed
  <2> QED BY <2>1, <2>2, RpcQuietKeeps
<1>5. CASE /\ rec' = [on |-> TRUE, why |-> "none", heard |-> TRUE]
           /\ quota' = [init |-> TRUE, active |-> TRUE, cancel |-> FALSE, why |-> "none"]
           /\ known' = "none"
           /\ answer' = [ok |-> TRUE, is |-> "trace", on |-> TRUE, why |-> "none"]
           /\ UNCHANGED <<deb, points, patched, loaded, Rpc!files>>
  <2>1. RpcDebuggerTyped'
    BY <1>1, <1>5 DEF RpcInv, RpcTyped, RpcDebuggerTyped, RpcRec, Rpc!Reasons
  <2>2. quota' \in RpcQuota
    BY <1>5 DEF RpcQuota, Rpc!Reasons
  <2>3. RpcTyped' /\ RpcDumped' /\ RpcEnd' /\ Rpc!FinalIsWhole' /\ Rpc!EndIsKept'
    BY <1>5, <2>1, <2>2 DEF Rpc!files, RpcInv, RpcTyped, RpcDumped, RpcEnd, Rpc!FinalIsWhole,
       Rpc!EndIsKept, RpcFiles
  <2>4. answer'.is = "trace"
    BY <1>5
  <2>5. Rpc!ThreadKept' /\ Rpc!PatchesCounted'
    BY <2>4 DEF Rpc!ThreadKept, Rpc!PatchesCounted, Rpc!Ok
  <2> QED BY <2>3, <2>5 DEF RpcInv
<1> QED BY <1>2, <1>3, <1>4, <1>5, RpcGuards DEF Rpc!StartTrace, Rpc!Calls, RpcWords,
           Rpc!CommandFailure

-----------------------------------------------------------------------------
(* Methods that only read *)

\* The methods that only read.
LEMMA RpcReadsAll ==
  ASSUME RpcConstantsOK, RpcInv,
         \/ Rpc!ReadPeHeadersRuntime
         \/ Rpc!ReadRegisters \/ Rpc!WriteRegister \/ Rpc!ReadMemory \/ Rpc!WriteMemory
         \/ Rpc!ListMemoryRegions \/ Rpc!QueryMemoryProtect \/ Rpc!MemoryProtection \/ Rpc!ListModules
         \/ Rpc!ReadStack \/ Rpc!TraceStack \/ Rpc!ReadDisassembly \/ Rpc!ListSymbols \/ Rpc!ResolveSymbol
         \/ Rpc!ListThreads \/ Rpc!CurrentThread \/ Rpc!ListPatches \/ Rpc!ListBreakpointsFiltered
  PROVE  RpcInv'
<1>1. ASSUME NEW ready \in {"ready", "not_debugging", "debuggee_running"}, NEW why \in RpcWords,
             Rpc!Calls(ready, Rpc!Reads(why))
      PROVE  RpcInv'
  <2>1. RpcCalled
    BY <1>1 DEF RpcCalled, Rpc!Calls
  <2>2. RpcReads
    BY <1>1 DEF Rpc!Calls, Rpc!Reads, RpcReads, RpcWords, Rpc!Refuses
  <2> QED BY <2>1, <2>2, RpcReadsKeep
<1>2. ASSUME Rpc!ReadPeHeadersRuntime PROVE RpcInv'
  <2>1. RpcCalled
    BY <1>2 DEF RpcCalled, Rpc!ReadPeHeadersRuntime, Rpc!Calls
  <2>2. RpcReads
    BY <1>2, RpcGuards DEF Rpc!ReadPeHeadersRuntime, Rpc!Calls, RpcReads, RpcWords, Rpc!Refuses
  <2> QED BY <2>1, <2>2, RpcReadsKeep
<1>3. ASSUME \/ Rpc!ReadRegisters \/ Rpc!WriteRegister \/ Rpc!ReadMemory \/ Rpc!WriteMemory
             \/ Rpc!ListMemoryRegions \/ Rpc!QueryMemoryProtect \/ Rpc!MemoryProtection \/ Rpc!ListModules
             \/ Rpc!ReadStack \/ Rpc!TraceStack \/ Rpc!ReadDisassembly \/ Rpc!ListSymbols \/ Rpc!ResolveSymbol
             \/ Rpc!ListThreads \/ Rpc!CurrentThread \/ Rpc!ListPatches \/ Rpc!ListBreakpointsFiltered
      PROVE  \E ready \in {"ready", "not_debugging", "debuggee_running"},
             why \in RpcWords : Rpc!Calls(ready, Rpc!Reads(why))
  <2>1. \/ \E why \in RpcWords : Rpc!Calls(Rpc!RequirePaused, Rpc!Reads(why))
        \/ \E why \in RpcWords : Rpc!Calls(Rpc!RequireDebugging, Rpc!Reads(why))
    BY <1>3 DEF Rpc!ReadRegisters, Rpc!WriteRegister, Rpc!ReadMemory, Rpc!WriteMemory,
       Rpc!ListMemoryRegions, Rpc!QueryMemoryProtect,
         Rpc!MemoryProtection, Rpc!ListModules, Rpc!ReadStack, Rpc!TraceStack,
         Rpc!ReadDisassembly, Rpc!ListSymbols, Rpc!ResolveSymbol,
         Rpc!ListThreads, Rpc!CurrentThread, Rpc!ListPatches, Rpc!ListBreakpointsFiltered, RpcWords
  <2> QED BY <2>1, RpcGuards
<1> QED BY <1>1, <1>2, <1>3

\* Whatever method is called.
LEMMA RpcDispatches == ASSUME RpcConstantsOK, RpcInv, Rpc!DispatchDebuggerMethod PROVE RpcInv'
BY RpcStartsDebuggee, RpcControls, RpcContexts, RpcBreakpoints, RpcConditions, RpcApplies,
   RpcGivesBack, RpcDumps,
   RpcReadsAll, RpcStartsTrace, RpcTracesTold DEF Rpc!DispatchDebuggerMethod

-----------------------------------------------------------------------------
(* What the debugger does by itself *)

\* The debuggee moves or exits, and the recorder changes, by themselves.
LEMMA RpcItself ==
  ASSUME RpcConstantsOK, RpcInv, Rpc!DebuggeeMoves \/ Rpc!DebuggeeExits \/ Rpc!RecorderChanges
  PROVE  RpcInv'
<1>1. Rpc!Itself /\ UNCHANGED <<points, loaded>>
  BY DEF Rpc!DebuggeeMoves, Rpc!DebuggeeExits, Rpc!RecorderChanges
<1>2. rec' = rec \/ \E o \in BOOLEAN, w \in Rpc!Reasons,
      h \in BOOLEAN : rec' = [on |-> o, why |-> w, heard |-> h]
  <2>1. rec \in RpcRec
    BY DEF RpcInv, RpcTyped, RpcDebuggerTyped
  <2>2. rec' \in RpcRec
    <3>1. \/ rec' = rec \/ rec' = [rec EXCEPT !.heard = ~@] \/ rec' = [rec EXCEPT !.why = "cancelled"]
          \/ \E w \in Rpc!Reasons : rec' = [rec EXCEPT !.on = FALSE, !.why = w]
      <4>1. Rpc!Limits \cup {"write_error", "target_exited", "cancelled",
            "none"} \subseteq Rpc!Reasons
        BY DEF Rpc!Reasons
      <4>2. CASE Rpc!DebuggeeMoves
        BY <4>2 DEF Rpc!DebuggeeMoves
      <4>3. CASE Rpc!DebuggeeExits
        <5>1. rec' = rec \/ \E w \in {"target_exited", "cancelled",
              "none"} : rec' = [rec EXCEPT !.on = FALSE, !.why = w]
          BY <4>3 DEF Rpc!DebuggeeExits
        <5> QED BY <4>1, <5>1
      <4>4. CASE Rpc!RecorderChanges
        BY <4>1, <4>4 DEF Rpc!RecorderChanges
      <4> QED BY <4>2, <4>3, <4>4
    <3>2. "cancelled" \in Rpc!Reasons
      BY DEF Rpc!Reasons
    <3> QED BY <2>1, <3>1, <3>2 DEF RpcRec
  <2> QED BY <2>2 DEF RpcRec
<1>3. deb' \in [st : {"idle", "paused", "running"}, tid : Tids] /\ patched' \in SUBSET Rpc!Addresses
  <2>1. deb \in [st : {"idle", "paused", "running"}, tid : Tids] /\ patched \in SUBSET Rpc!Addresses
    BY DEF RpcInv, RpcTyped, RpcDebuggerTyped
  <2>2. CASE Rpc!DebuggeeMoves
    BY <2>1, <2>2 DEF Rpc!DebuggeeMoves
  <2>3. CASE Rpc!DebuggeeExits
    <3>1. deb' = [deb EXCEPT !.st = "idle"] /\ patched' = {}
      BY <2>3 DEF Rpc!DebuggeeExits
    <3> QED BY <2>1, <3>1
  <2>4. CASE Rpc!RecorderChanges
    BY <2>1, <2>4 DEF Rpc!RecorderChanges
  <2> QED BY <2>2, <2>3, <2>4
<1>4. RpcDebuggerTyped'
  BY <1>1, <1>2, <1>3 DEF Rpc!Itself, RpcInv, RpcTyped, RpcDebuggerTyped, RpcRec
<1>5. RpcQuiet
  BY <1>1 DEF Rpc!Itself, Rpc!Ok, RpcQuiet
<1> QED BY <1>4, <1>5, RpcQuietKeeps

\* The module that is dumped comes or goes.
LEMMA RpcModuleMoves == ASSUME RpcConstantsOK, RpcInv, Rpc!ModuleComesOrGoes PROVE RpcInv'
<1>1. loaded' \in BOOLEAN /\ UNCHANGED <<deb, points, patched, rec, Rpc!files, quota, answer,
      before, known, calls>>
  BY DEF Rpc!ModuleComesOrGoes
<1>2. RpcTyped' /\ RpcDumped' /\ RpcEnd' /\ Rpc!FinalIsWhole'
  BY <1>1 DEF Rpc!files, RpcInv, RpcTyped, RpcDebuggerTyped, RpcDumped, RpcEnd, Rpc!FinalIsWhole
<1>3. Rpc!ThreadKept' /\ Rpc!PatchesCounted' /\ Rpc!EndIsKept'
  BY <1>1 DEF RpcInv, Rpc!ThreadKept, Rpc!PatchesCounted, Rpc!EndIsKept
<1> QED BY <1>2, <1>3 DEF RpcInv

\* The debugger is killed.
LEMMA RpcKilled == ASSUME RpcConstantsOK, RpcInv, Rpc!Killed PROVE RpcInv'
<1>1. RpcDebuggerTyped'
  BY DEF Rpc!Killed, RpcInv, RpcTyped, RpcDebuggerTyped, Rpc!Reasons, RpcRec
<1>2. RpcTyped' /\ RpcDumped' /\ RpcEnd' /\ Rpc!FinalIsWhole'
  <2>1. Rpc!NoTrace \in RpcQuota
    BY DEF Rpc!NoTrace, RpcQuota
  <2>2. quota' \in RpcQuota /\ known' = "none" /\ dump' = Rpc!None /\ partial' = partial
        /\ final' = final
    BY <2>1 DEF Rpc!Killed
  <2> QED BY <1>1, <2>2 DEF RpcInv, RpcTyped, RpcFiles, RpcDumped, RpcEnd, Rpc!FinalIsWhole
<1>3. Rpc!ThreadKept' /\ Rpc!PatchesCounted' /\ Rpc!EndIsKept'
  BY DEF Rpc!Killed, RpcInv, Rpc!ThreadKept, Rpc!PatchesCounted, Rpc!EndIsKept, Rpc!Ok
<1> QED BY <1>2, <1>3 DEF RpcInv

\* Every step keeps the invariant.
LEMMA RpcStays == ASSUME RpcConstantsOK, RpcInv, [Rpc!Next]_Rpc!vars PROVE RpcInv'
<1>1. CASE UNCHANGED Rpc!vars
  BY <1>1 DEF Rpc!vars, RpcInv, RpcTyped, RpcDebuggerTyped, RpcDumped, RpcEnd, Rpc!ThreadKept,
     Rpc!PatchesCounted, Rpc!FinalIsWhole,
              Rpc!EndIsKept
<1> QED BY <1>1, RpcDispatches, RpcDumpGoesOn, RpcItself, RpcModuleMoves, RpcKilled DEF Rpc!Next

\* What is to be shown of it.
LEMMA RpcImplies == ASSUME RpcInv PROVE Rpc!ThreadKept /\ Rpc!PatchesCounted /\ Rpc!FinalIsWhole
      /\ Rpc!EndIsKept
BY DEF RpcInv

(* The methods of the plugin leave and tell what they say they do           *)
(* (DispatchDebuggerMethod, rpc_methods.cpp:3206), whatever step of theirs  *)
(* fails: the current thread is put back, a restore counts the bytes that   *)
(* are given back, a dump is left whole or not at all, and the end of a     *)
(* trace that was told stays.                                               *)
THEOREM RpcMethods ==
  ASSUME RpcConstantsOK PROVE Rpc!Spec
         => [](Rpc!ThreadKept /\ Rpc!PatchesCounted /\ Rpc!FinalIsWhole /\ Rpc!EndIsKept)
<1>1. Rpc!Init => RpcInv
  BY RpcStarts
<1>2. RpcInv /\ [Rpc!Next]_Rpc!vars => RpcInv'
  BY RpcStays
<1>3. RpcInv => Rpc!ThreadKept /\ Rpc!PatchesCounted /\ Rpc!FinalIsWhole /\ Rpc!EndIsKept
  BY RpcImplies
<1> QED BY <1>1, <1>2, <1>3, PTL DEF Rpc!Spec
==============================================================================
