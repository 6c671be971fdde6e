------------------------------ MODULE Sessions ------------------------------
(***************************************************************************)
(* Sessions and the backend workers they own: SessionRegistry              *)
(* (core/session.py), BackendRuntimeOwner and the projection of the        *)
(* debuggee's state (core/runtime_state.py), and the operations of         *)
(* AnalysisService that open, call, fail, recover and close a backend      *)
(* (core/service.py).                                                      *)
(*                                                                         *)
(* Threads are concurrent tool calls.  A step is what one of them does     *)
(* between two releases of the service lock, the registry lock or the lock *)
(* of a runtime, so that whatever it read under a lock may be stale when   *)
(* it acts on it.  Workers are processes: they die at any time, and a live *)
(* one that no slot and no thread refers to is lost for good.              *)
(*                                                                         *)
(* A definition under "What if" is not part of the specification: it is    *)
(* the definition after it with a mistake the properties must catch.       *)
(***************************************************************************)
EXTENDS Naturals, Sequences, SequencesExt

CONSTANTS Ids,       \* session ids, each created at most once
          Kinds,     \* backend kinds
          Debugger,  \* the kind whose calls report the state of a debuggee
          Workers,   \* bound: worker processes ever started
          Threads,   \* concurrent tool calls
          Keep,      \* retained_closed of the registry
          None

ASSUME ConstantsAssumption ==
    /\ Debugger \in Kinds /\ Keep \in Nat \ {0}
    /\ None \notin Ids \cup Kinds \cup Workers \cup Threads

VARIABLES
    session,   \* state of every session id
    order,     \* _closed_order: the closed and failed ids, oldest first
    attached,  \* session.backends
    phase,     \* BackendRuntimeOwner.phases
    item,      \* BackendRuntimeOwner.items
    worker,    \* the processes
    lock,      \* who holds the lock of a worker's runtime
    th,        \* what every thread is doing
    home,      \* history: the slot a process was started for
    revoked    \* history: slots whose claim somebody else took back

vars == <<session, order, attached, phase, item, worker, lock, th, home, revoked>>
registry == <<session, order, attached>>
runtimes == <<phase, item, revoked>>
processes == <<worker, lock, home>>

-----------------------------------------------------------------------------
(* States and the registry *)

Live   == {"ready", "running", "suspended"}
States == Live \cup {"new", "created", "opening", "closing", "closed", "failed", "gone"}
Phases == {"absent", "opening", "ready", "failed", "closed"}

Allowed == [from \in States |->
    CASE from = "created"   -> {"opening", "closing", "failed"}
      [] from = "opening"   -> {"created", "ready", "suspended", "failed"}
      [] from = "ready"     -> {"running", "suspended", "closing", "failed"}
      [] from = "running"   -> {"suspended", "closing", "failed"}
      [] from = "suspended" -> {"running", "ready", "closing", "failed"}
      [] from = "closing"   -> {"closed", "failed"}
      [] from = "failed"    -> {"closing", "closed"}
      [] OTHER              -> {}]

(* The registry has the id: it was created and not yet dropped *)
Held(s) == session[s] \notin {"new", "gone"}

(* What if a transition were refused only to a session that is not there? *)
CanAlwaysMove(s, t) == Held(s)

CanMove(s, t) == Held(s) /\ (t = session[s] \/ t \in Allowed[session[s]])

(* _retire_closed: one id joins the history, so at most one leaves it *)
Retire(s, t) ==
    IF t \in {"closed", "failed"} /\ t # session[s] /\ ~Contains(order, s)
    THEN Append(order, s) ELSE order

(* transition: the state, then the retained history *)
Move(s, t) ==
    LET history == Retire(s, t)
        moved   == [session EXCEPT ![s] = t] IN
    IF Len(history) > Keep
    THEN /\ order' = Tail(history)
         /\ session' = [moved EXCEPT ![Head(history)] = "gone"]
    ELSE order' = history /\ session' = moved

(* ... under suppress(KeyError, InvalidStateTransition) *)
MoveIfAllowed(s, t) ==
    IF CanMove(s, t) THEN Move(s, t) ELSE UNCHANGED <<session, order>>

-----------------------------------------------------------------------------
(* Threads *)

Reopening == {"no", "same", "new"}   \* by no recovery, in place, as a replacement

PCs == {"idle", "launch", "register", "release",            \* _open_backend
        "enter", "request", "project", "accuse",            \* a call
        "terminate", "settle",                              \* _fail_runtime
        "ending", "failing", "closing",                     \* _close_session
        "recover", "replace", "discard", "drop", "detach", "open"}   \* session_recover

Idle == [pc |-> "idle", s |-> None, k |-> None, seen |-> None, hand |-> None,
         first |-> FALSE, rec |-> "no", kinds |-> {}, mine |-> {},
         broken |-> FALSE, moves |-> <<>>]

At(c, l) == th[c].pc = l

Slot(c) == <<th[c].s, th[c].k>>

Does(c, new) == th' = [th EXCEPT ![c] = new]

GoTo(c, l) == Does(c, [th[c] EXCEPT !.pc = l])

Stop(c) == Does(c, Idle)

(* An open is over: session_recover goes on with its next backend, and skips *)
(* the rest of a replacement session after a failure.                        *)
Opened(c, ok) ==
    IF th[c].rec = "no" THEN Stop(c)
    ELSE Does(c, [Idle EXCEPT !.pc = "recover", !.s = th[c].s, !.rec = th[c].rec,
                              !.kinds = IF th[c].rec = "new" /\ ~ok
                                        THEN {} ELSE th[c].kinds])

-----------------------------------------------------------------------------
(* create_session *)
Create(s) ==
    /\ session[s] = "new"
    /\ session' = [session EXCEPT ![s] = "created"]
    /\ UNCHANGED <<order, attached, runtimes, processes, th>>

(* What if begin_open only asked for a registered runtime? *)
FilledOnly(s, k) == item[s][k] # None

(* begin_open refuses the slot *)
Claimed(s, k) == item[s][k] # None \/ phase[s][k] = "opening"

(* _open_backend: the claim, under the service lock *)
OpenClaim(c, s, k, me) ==
    IF ~Held(s) \/ item[s][k] # None \/ session[s] \notin Live \cup {"created"}
    THEN /\ Opened(c, item[s][k] # None /\ session[s] \notin {"closing", "closed", "failed"})
         /\ UNCHANGED <<registry, runtimes, processes>>
    ELSE /\ IF session[s] = "created" THEN Move(s, "opening")
                                      ELSE UNCHANGED <<session, order>>
         /\ IF Claimed(s, k)
            THEN Opened(c, FALSE) /\ UNCHANGED phase
            ELSE /\ phase' = [phase EXCEPT ![s][k] = "opening"]
                 /\ Does(c, [me EXCEPT !.pc = "launch", !.s = s, !.k = k,
                                       !.first = (session[s] = "created")])
         /\ UNCHANGED <<attached, item, revoked, processes>>

Open(c, s, k) ==
    /\ At(c, "idle") /\ session[s] # "new"
    /\ OpenClaim(c, s, k, Idle)

(* The factory starts a process; no lock is held meanwhile *)
Launch(c) ==
    /\ At(c, "launch")
    /\ \E w \in Workers :
          /\ worker[w] = "free"
          /\ worker' = [worker EXCEPT ![w] = "alive"]
          /\ home' = [home EXCEPT ![w] = Slot(c)]
          /\ Does(c, [th[c] EXCEPT !.pc = "register", !.hand = w])
    /\ UNCHANGED <<registry, runtimes, lock>>

(* What if a failed open only released its claim? *)
AbandonSlot(c, mismatch) ==
    /\ item' = [item EXCEPT ![th[c].s][th[c].k] = None]
    /\ phase' = [phase EXCEPT ![th[c].s][th[c].k] = "failed"]
    /\ GoTo(c, "release") /\ UNCHANGED <<session, order>>

(* _abandon_open: the claim is released, and a first open takes the session *)
(* back to created if the target was refused, else to failed.               *)
Abandon(c, mismatch) ==
    LET s == th[c].s IN
    /\ item' = [item EXCEPT ![s][th[c].k] = None]
    /\ phase' = [phase EXCEPT ![s][th[c].k] = "failed"]
    /\ IF th[c].first THEN MoveIfAllowed(s, IF mismatch THEN "created" ELSE "failed")
                      ELSE UNCHANGED <<session, order>>
    /\ GoTo(c, "release")

(* The factory, which may refuse the target, or opening the event log after *)
(* it raises.                                                                *)
LaunchFails(c) ==
    /\ At(c, "launch")
    /\ \E mismatch \in BOOLEAN : Abandon(c, mismatch)
    /\ UNCHANGED <<attached, revoked, processes>>

LogFails(c) ==
    /\ At(c, "register") /\ th[c].k = Debugger
    /\ Abandon(c, FALSE)
    /\ UNCHANGED <<attached, revoked, processes>>

(* What if the owner took a runtime in any phase? *)
RegistrableInAnyPhase(c) ==
    /\ Held(th[c].s) /\ session[th[c].s] \notin {"closing", "closed"}
    /\ item[th[c].s][th[c].k] = None

(* The session is still open and put accepts the runtime *)
Registrable(c) ==
    /\ Held(th[c].s) /\ session[th[c].s] \notin {"closing", "closed"}
    /\ phase[th[c].s][th[c].k] = "opening" /\ item[th[c].s][th[c].k] = None

(* The runtime is registered, the handle attached and a first open makes the *)
(* session ready, which may be refused after the handle was attached.        *)
Register(c) ==
    LET s == th[c].s  k == th[c].k IN
    /\ At(c, "register")
    /\ IF ~Registrable(c)
       THEN Abandon(c, FALSE) /\ UNCHANGED attached
       ELSE /\ attached' = [attached EXCEPT ![s] = @ \cup {k}]
            /\ IF th[c].first /\ ~CanMove(s, "ready")
               THEN Abandon(c, FALSE)
               ELSE /\ item' = [item EXCEPT ![s][k] = th[c].hand]
                    /\ phase' = [phase EXCEPT ![s][k] = "ready"]
                    /\ IF th[c].first THEN Move(s, "ready")
                                      ELSE UNCHANGED <<session, order>>
                    /\ Opened(c, TRUE)
    /\ UNCHANGED <<revoked, processes>>

Ended(w) == [worker EXCEPT ![w] = "ended"]

(* What if the worker of a failed open were left alone? *)
ReleaseLogOnly(c) ==
    /\ At(c, "release") /\ Opened(c, FALSE)
    /\ UNCHANGED <<registry, runtimes, processes>>

(* _release_partial_backend_open *)
Release(c) ==
    /\ At(c, "release")
    /\ IF th[c].hand = None THEN UNCHANGED worker ELSE worker' = Ended(th[c].hand)
    /\ Opened(c, FALSE)
    /\ UNCHANGED <<registry, runtimes, lock, home>>

-----------------------------------------------------------------------------
(* A call into a backend: _dynamic_request and _static_request *)

Call(c, s, k) ==
    /\ At(c, "idle") /\ session[s] \in Live \cup {"created"} /\ item[s][k] # None
    /\ Does(c, [Idle EXCEPT !.pc = "enter", !.s = s, !.k = k, !.seen = item[s][k]])
    /\ UNCHANGED <<registry, runtimes, processes>>

(* The lock of the runtime, then _require_current_runtime *)
Enter(c) ==
    /\ At(c, "enter") /\ lock[th[c].seen] = None
    /\ IF item[th[c].s][th[c].k] = th[c].seen
       THEN GoTo(c, "request") /\ lock' = [lock EXCEPT ![th[c].seen] = c]
       ELSE Stop(c) /\ UNCHANGED lock
    /\ UNCHANGED <<registry, runtimes, worker, home>>

Unlock(c) == lock' = [lock EXCEPT ![th[c].seen] = None]

(* What the reported state of the debuggee makes of the session's *)
Projected(s, report) ==
    CASE report = "running" /\ session[s] \in {"ready", "suspended"} -> <<"running">>
      [] report = "paused" /\ session[s] \in {"ready", "running"}    -> <<"suspended">>
      [] report = "idle" /\ session[s] = "running"   -> <<"suspended", "ready">>
      [] report = "idle" /\ session[s] = "suspended" -> <<"ready">>
      [] OTHER -> <<>>

(* The worker answers; a debugger's answer is projected on the session, whose *)
(* state is read here and changed in steps of their own.                      *)
Answer(c) ==
    /\ At(c, "request") /\ worker[th[c].seen] = "alive"
    /\ IF th[c].k = Debugger /\ Held(th[c].s)
       THEN \E report \in {"running", "paused", "idle", "unknown"} :
               Does(c, [th[c] EXCEPT !.pc = "project",
                                     !.moves = Projected(th[c].s, report)])
            /\ UNCHANGED lock
       ELSE Stop(c) /\ Unlock(c)
    /\ UNCHANGED <<registry, runtimes, worker, home>>

(* _project_legacy_session_state: a refused transition ends the call *)
Project(c) ==
    /\ At(c, "project")
    /\ IF th[c].moves # <<>> /\ CanMove(th[c].s, Head(th[c].moves))
       THEN /\ Move(th[c].s, Head(th[c].moves))
            /\ Does(c, [th[c] EXCEPT !.moves = Tail(@)])
            /\ UNCHANGED lock
       ELSE Stop(c) /\ Unlock(c) /\ UNCHANGED <<session, order>>
    /\ UNCHANGED <<attached, runtimes, worker, home>>

(* A fatal error: the worker is gone, or breaks the protocol.  The lock of *)
(* the runtime is released before the runtime is failed.                   *)
Fatal(c) ==
    /\ At(c, "request")
    /\ GoTo(c, "accuse") /\ Unlock(c)
    /\ UNCHANGED <<registry, runtimes, worker, home>>

(* History: the slot was claimed by an open that has not returned *)
Revoke(c) ==
    revoked' = IF phase[th[c].s][th[c].k] = "opening" THEN revoked \cup {Slot(c)} ELSE revoked

(* _fail_runtime takes out whatever is in the slot by now *)
FailRuntime(c) ==
    LET s == th[c].s  k == th[c].k IN
    /\ At(c, "accuse")
    /\ Does(c, [th[c] EXCEPT !.pc = "terminate", !.hand = item[s][k]])
    /\ item' = [item EXCEPT ![s][k] = None]
    /\ phase' = [phase EXCEPT ![s][k] = "failed"]
    /\ Revoke(c)
    /\ UNCHANGED <<registry, processes>>

Terminate(c) ==
    /\ At(c, "terminate")
    /\ IF th[c].hand = None THEN UNCHANGED worker ELSE worker' = Ended(th[c].hand)
    /\ Does(c, [th[c] EXCEPT !.pc = "settle", !.hand = None, !.seen = None])
    /\ UNCHANGED <<registry, runtimes, lock, home>>

(* The handle goes and the session fails, unless it is past that *)
Settle(c) ==
    LET s == th[c].s IN
    /\ At(c, "settle")
    /\ IF Held(s)
       THEN /\ attached' = [attached EXCEPT ![s] = @ \ {th[c].k}]
            /\ MoveIfAllowed(s, "failed")
       ELSE UNCHANGED registry
    /\ Stop(c)
    /\ UNCHANGED <<runtimes, processes>>

-----------------------------------------------------------------------------
(* _close_session *)

ItemsOf(s) == {item[s][k] : k \in Kinds} \ {None}

Closable(s) == session[s] \notin {"closed", "opening"} /\ CanMove(s, "closing")

(* Under the service lock: closing, and every runtime taken out.  pop_session *)
(* forgets the phases with the items.                                         *)
CloseClaim(c, s, me) ==
    IF ~Closable(s)
    THEN /\ Does(c, IF me.rec = "no" THEN Idle ELSE [me EXCEPT !.pc = "replace"])
         /\ UNCHANGED <<registry, runtimes, processes>>
    ELSE /\ Move(s, "closing")
         /\ Does(c, [me EXCEPT !.pc = "ending", !.s = s, !.mine = ItemsOf(s)])
         /\ item' = [item EXCEPT ![s] = [k \in Kinds |-> None]]
         /\ phase' = [phase EXCEPT ![s] = [k \in Kinds |-> "absent"]]
         /\ UNCHANGED <<attached, revoked, processes>>

Close(c, s) ==
    /\ At(c, "idle") /\ session[s] # "new"
    /\ CloseClaim(c, s, Idle)

(* One worker after the other, each under the lock of its runtime.  A close *)
(* that raises is followed by terminate and remembered.                     *)
EndWorker(c) ==
    /\ At(c, "ending")
    /\ \E w \in th[c].mine, raises \in BOOLEAN :
          /\ lock[w] = None
          /\ worker' = Ended(w)
          /\ Does(c, [th[c] EXCEPT !.mine = @ \ {w}, !.broken = @ \/ raises])
    /\ UNCHANGED <<registry, runtimes, lock, home>>

(* The loop is over: the handles go.  An id that was dropped meanwhile raises. *)
CloseEnds(c, to) ==
    Does(c, IF to = "done" /\ th[c].rec = "no" THEN Idle
            ELSE [th[c] EXCEPT !.pc = IF to = "done" THEN "replace" ELSE to])

EndClose(c) ==
    LET s == th[c].s IN
    /\ At(c, "ending") /\ th[c].mine = {}
    /\ IF Held(s)
       THEN /\ attached' = [attached EXCEPT ![s] = {}]
            /\ CloseEnds(c, IF th[c].broken THEN "failing" ELSE "closing")
       ELSE CloseEnds(c, "done") /\ UNCHANGED attached
    /\ UNCHANGED <<session, order, runtimes, processes>>

(* transition(FAILED) if a worker did not close, then transition(CLOSED) *)
CloseMoves(c, target) ==
    /\ IF CanMove(th[c].s, target)
       THEN /\ Move(th[c].s, target)
            /\ CloseEnds(c, IF target = "failed" THEN "closing" ELSE "done")
       ELSE CloseEnds(c, "done") /\ UNCHANGED <<session, order>>
    /\ UNCHANGED <<attached, runtimes, processes>>

CloseFails(c) == At(c, "failing") /\ CloseMoves(c, "failed")

CloseDone(c) == At(c, "closing") /\ CloseMoves(c, "closed")

-----------------------------------------------------------------------------
(* session_recover *)

(* Which backends: those named, or those attached or failed *)
Lost(s) == attached[s] \cup {k \in Kinds : phase[s][k] = "failed"}

Recover(c, s) ==
    /\ At(c, "idle") /\ Held(s) /\ session[s] \notin {"closing", "closed"}
    /\ \E K \in {Lost(s)} \cup {{k} : k \in Kinds} :
          IF session[s] = "failed"
          THEN CloseClaim(c, s, [Idle EXCEPT !.s = s, !.rec = "new", !.kinds = K])
          ELSE /\ Does(c, [Idle EXCEPT !.pc = "recover", !.s = s,
                                       !.rec = "same", !.kinds = K])
               /\ UNCHANGED <<registry, runtimes, processes>>

(* _recover_by_replacement: a new session over the same binary *)
Replace(c) ==
    /\ At(c, "replace")
    /\ \/ \E t \in Ids :
             /\ session[t] = "new"
             /\ session' = [session EXCEPT ![t] = "created"]
             /\ Does(c, [Idle EXCEPT !.pc = "recover", !.s = t, !.rec = "new",
                                     !.kinds = th[c].kinds])
       \/ Stop(c) /\ UNCHANGED session      \* create_session fails
    /\ UNCHANGED <<order, attached, runtimes, processes>>

(* The next backend: kept if its worker lives, reopened if there is none; a *)
(* dead one is discarded first.                                             *)
RecoverNext(c) ==
    LET s == th[c].s IN
    /\ At(c, "recover") /\ th[c].kinds # {}
    /\ \E k \in th[c].kinds :
          LET w == item[s][k]
              me == [th[c] EXCEPT !.k = k, !.kinds = @ \ {k}] IN
          IF th[c].rec = "new" \/ w = None THEN Does(c, [me EXCEPT !.pc = "open"])
          ELSE IF worker[w] = "alive" THEN Does(c, me)
          ELSE Does(c, [me EXCEPT !.pc = "discard", !.seen = w])
    /\ UNCHANGED <<registry, runtimes, processes>>

(* _discard_dead_runtime takes out whatever is in the slot by now *)
Discard(c) ==
    LET s == th[c].s  k == th[c].k IN
    /\ At(c, "discard")
    /\ IF item[s][k] = None
       THEN /\ Does(c, [th[c] EXCEPT !.pc = "open", !.seen = None])
            /\ phase' = IF phase[s][k] \in {"absent", "closed"} THEN phase
                        ELSE [phase EXCEPT ![s][k] = "closed"]
            /\ UNCHANGED item
       ELSE /\ Does(c, [th[c] EXCEPT !.pc = "drop", !.hand = item[s][k]])
            /\ item' = [item EXCEPT ![s][k] = None]
            /\ phase' = [phase EXCEPT ![s][k] = "closed"]
    /\ Revoke(c)
    /\ UNCHANGED <<registry, processes>>

Drop(c) ==
    /\ At(c, "drop")
    /\ worker' = Ended(th[c].hand)
    /\ Does(c, [th[c] EXCEPT !.pc = "detach", !.hand = None, !.seen = None])
    /\ UNCHANGED <<registry, runtimes, lock, home>>

Detach(c) ==
    /\ At(c, "detach")
    /\ attached' = IF Held(th[c].s) THEN [attached EXCEPT ![th[c].s] = @ \ {th[c].k}]
                   ELSE attached
    /\ GoTo(c, "open")
    /\ UNCHANGED <<session, order, runtimes, processes>>

(* open_static or open_dynamic *)
Reopen(c) == At(c, "open") /\ OpenClaim(c, th[c].s, th[c].k, th[c])

RecoverEnds(c) ==
    /\ At(c, "recover") /\ th[c].kinds = {}
    /\ Stop(c)
    /\ UNCHANGED <<registry, runtimes, processes>>

-----------------------------------------------------------------------------
(* A process dies *)
Crash(w) ==
    /\ worker[w] = "alive"
    /\ worker' = [worker EXCEPT ![w] = "dead"]
    /\ UNCHANGED <<registry, runtimes, lock, home, th>>

Init ==
    /\ session = [s \in Ids |-> "new"]
    /\ order = <<>>
    /\ attached = [s \in Ids |-> {}]
    /\ phase = [s \in Ids |-> [k \in Kinds |-> "absent"]]
    /\ item = [s \in Ids |-> [k \in Kinds |-> None]]
    /\ worker = [w \in Workers |-> "free"]
    /\ lock = [w \in Workers |-> None]
    /\ th = [c \in Threads |-> Idle]
    /\ home = [w \in Workers |-> <<None, None>>]
    /\ revoked = {}

(* A thread that has begun an operation goes on with it *)
Continue(c) ==
    \/ Launch(c) \/ LaunchFails(c) \/ LogFails(c) \/ Register(c) \/ Release(c)
    \/ Enter(c) \/ Answer(c) \/ Project(c) \/ Fatal(c)
    \/ FailRuntime(c) \/ Terminate(c) \/ Settle(c)
    \/ EndWorker(c) \/ EndClose(c) \/ CloseFails(c) \/ CloseDone(c)
    \/ RecoverNext(c) \/ RecoverEnds(c) \/ Replace(c)
    \/ Discard(c) \/ Drop(c) \/ Detach(c) \/ Reopen(c)

Begin(c) ==
    \E s \in Ids :
        \/ Close(c, s) \/ Recover(c, s)
        \/ \E k \in Kinds : Open(c, s, k) \/ Call(c, s, k)

Next ==
    \/ \E s \in Ids : Create(s)
    \/ \E w \in Workers : Crash(w)
    \/ \E c \in Threads : Begin(c) \/ Continue(c)

Spec == Init /\ [][Next]_vars

-----------------------------------------------------------------------------
(* Properties *)

Threadwork == [pc : PCs, s : Ids \cup {None}, k : Kinds \cup {None},
               seen : Workers \cup {None}, hand : Workers \cup {None},
               first : BOOLEAN, rec : Reopening, kinds : SUBSET Kinds,
               mine : SUBSET Workers, broken : BOOLEAN,
               moves : {<<>>, <<"running">>, <<"suspended">>, <<"ready">>,
                        <<"suspended", "ready">>}]

TypeOK ==
    /\ session \in [Ids -> States]
    /\ order \in Seq(Ids) /\ Len(order) <= Keep
    /\ attached \in [Ids -> SUBSET Kinds]
    /\ phase \in [Ids -> [Kinds -> Phases]]
    /\ item \in [Ids -> [Kinds -> Workers \cup {None}]]
    /\ worker \in [Workers -> {"free", "alive", "dead", "ended"}]
    /\ lock \in [Workers -> Threads \cup {None}]
    /\ th \in [Threads -> Threadwork]

(* No process is lost: one that runs is in a slot, or in the hands of the  *)
(* thread that launches it or is about to end it.                          *)
WorkersOwned ==
    \A w \in Workers : worker[w] \in {"alive", "dead"} =>
        \/ \E s \in Ids, k \in Kinds : item[s][k] = w
        \/ \E c \in Threads : th[c].hand = w \/ w \in th[c].mine
        \/ home[w] \in revoked

(* A closed session has no backend, whatever was being opened, called or    *)
(* recovered while it was closed.                                           *)
ClosedIsEmpty ==
    \A s \in Ids : session[s] \in {"closing", "closed"} => \A k \in Kinds : item[s][k] = None

(* A session is in a passing state only while a thread will take it out of  *)
(* it: no failure, refusal or race leaves one opening or closing for good.  *)
PassingStatesPass ==
    \A s \in Ids :
        /\ session[s] = "opening" =>
              \E c \in Threads : th[c].s = s /\ th[c].first /\ th[c].pc \in {"launch", "register"}
        /\ session[s] = "closing" =>
              \E c \in Threads : th[c].s = s /\ th[c].pc \in {"ending", "failing", "closing"}

(* The slot of a backend has at most one thread that will fill it. *)
OneOpener ==
    \A c, d \in Threads :
        /\ th[c].pc \in {"launch", "register"} /\ th[d].pc \in {"launch", "register"}
        /\ c # d /\ th[c].s = th[d].s /\ th[c].k = th[d].k
        => Slot(c) \in revoked \/ ~(Registrable(c) /\ Registrable(d))

(* Once a close has begun the session only ends, whatever a debugger reports *)
(* or an open returns afterwards.                                            *)
ClosingIsFinal ==
    [][\A s \in Ids : session[s] \in {"closing", "closed", "gone"} =>
          session'[s] \in {"closing", "closed", "failed", "gone"}]_session

(* "Live backends are kept as-is" (session_recover), and a failed call fails *)
(* the runtime it was made to: what a thread takes out of a slot to end it   *)
(* is the worker it saw.                                                     *)
LiveKept ==
    \A c \in Threads : th[c].pc \in {"terminate", "drop"} => th[c].hand \in {None, th[c].seen}

=============================================================================
