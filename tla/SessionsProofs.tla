--------------------------- MODULE SessionsProofs ---------------------------
(***************************************************************************)
(* Proofs about Sessions for any sets of sessions, backends, workers and   *)
(* threads: typing, then what a close promises.                            *)
(***************************************************************************)
EXTENDS SessionsInvariant, SequenceTheorems, TLAPS

-----------------------------------------------------------------------------
(* The registry *)

(* A transition changes its own session, and may drop one from the history. *)
LEMMA MoveEffect ==
    ASSUME TypeOK, NEW s \in Ids, NEW t \in States, Move(s, t)
    PROVE  /\ session' \in [Ids -> States]
           /\ order' \in Seq(Ids) /\ Len(order') <= Keep
           /\ session'[s] \in {t, "gone"}
           /\ \A q \in Ids \ {s} : session'[q] \in {session[q], "gone"}
  <1> DEFINE history == Retire(s, t)
  <1>1. history \in Seq(Ids) /\ Len(history) <= Keep + 1
    BY AppendProperties, ConstantsAssumption DEF Retire, TypeOK
  <1>2. CASE Len(history) > Keep
    <2>1. history # <<>>
      BY <1>1, <1>2, ConstantsAssumption
    <2>2. Head(history) \in Ids /\ Tail(history) \in Seq(Ids)
          /\ Len(Tail(history)) = Len(history) - 1
      BY <1>1, <2>1, HeadTailProperties
    <2>3. /\ order' = Tail(history)
          /\ session' = [[session EXCEPT ![s] = t] EXCEPT ![Head(history)] = "gone"]
      BY <1>2 DEF Move
    <2>4. Len(order') <= Keep
      <3>1. Len(history) \in Nat
        BY <1>1
      <3> HIDE DEF history
      <3> QED
        BY <1>1, <2>2, <2>3, <3>1, ConstantsAssumption
    <2> HIDE DEF history
    <2>5. session' \in [Ids -> States]
      BY <2>2, <2>3 DEF TypeOK, States
    <2>6. session'[s] \in {t, "gone"}
      BY <2>2, <2>3 DEF TypeOK
    <2>7. \A q \in Ids \ {s} : session'[q] \in {session[q], "gone"}
      BY <2>2, <2>3 DEF TypeOK
    <2> QED
      BY <2>2, <2>3, <2>4, <2>5, <2>6, <2>7
  <1>3. CASE ~(Len(history) > Keep)
    <2>1. order' = history /\ session' = [session EXCEPT ![s] = t]
      BY <1>3 DEF Move
    <2> HIDE DEF history
    <2> QED
      BY <1>1, <1>3, <2>1, ConstantsAssumption DEF TypeOK
  <1> QED
    BY <1>2, <1>3

-----------------------------------------------------------------------------
(* Typing *)

Fine(t) == t \in Threadwork /\ Placed(t)

Moves == {<<>>, <<"running">>, <<"suspended">>, <<"ready">>, <<"suspended", "ready">>}

LEMMA MovesTail ==
    ASSUME NEW m \in Moves, m # <<>>
    PROVE  Tail(m) \in Moves /\ Head(m) \in Live
  <1>1. CASE m = <<"suspended", "ready">>
    <2>1. Tail(m) = <<"ready">> /\ Head(m) = "suspended"
      BY <1>1
    <2> QED
      BY <2>1 DEF Moves, Live
  <1>2. ASSUME NEW x \in Live, m = <<x>>
        PROVE  Tail(m) = <<>> /\ Head(m) = x
    BY <1>2
  <1> QED
    BY <1>1, <1>2 DEF Moves, Live

(* The parts of TypeInv, one for each group of variables *)
RegistryOK  == /\ session \in [Ids -> States]
               /\ order \in Seq(Ids) /\ Len(order) <= Keep
               /\ attached \in [Ids -> SUBSET Kinds]
RuntimesOK  == /\ phase \in [Ids -> [Kinds -> Phases]]
               /\ item \in [Ids -> [Kinds -> Workers \cup {None}]]
ProcessesOK == /\ worker \in [Workers -> {"free", "alive", "dead", "ended"}]
               /\ lock \in [Workers -> Threads \cup {None}]
ThreadsOK   == th \in [Threads -> Threadwork] /\ PlaceInv

LEMMA TypeParts == TypeInv <=> RegistryOK /\ RuntimesOK /\ ProcessesOK /\ ThreadsOK
  BY DEF TypeInv, TypeOK, RegistryOK, RuntimesOK, ProcessesOK, ThreadsOK

LEMMA ThreadType ==
    ASSUME ThreadsOK, NEW c \in Threads, NEW t, Fine(t), Does(c, t)
    PROVE  ThreadsOK'
  BY DEF ThreadsOK, PlaceInv, Does, Fine, Placed

LEMMA ThisThread ==
    ASSUME ThreadsOK, NEW c \in Threads
    PROVE  Fine(th[c])
  BY DEF ThreadsOK, PlaceInv, Fine

LEMMA MoveType ==
    ASSUME TypeInv, NEW s \in Ids, NEW t \in States, Move(s, t) \/ MoveIfAllowed(s, t)
    PROVE  /\ session' \in [Ids -> States]
           /\ order' \in Seq(Ids) /\ Len(order') <= Keep
  BY MoveEffect DEF MoveIfAllowed, TypeInv, TypeOK

LEMMA IdleFine == Fine(Idle)
  BY DEF Fine, Idle, Placed, Threadwork, PCs, Reopening, OnSlot

LEMMA GoToType ==
    ASSUME ThreadsOK, NEW c \in Threads, NEW l \in PCs \ {"idle"}, GoTo(c, l),
           th[c].pc # "idle", l \in OnSlot => th[c].k \in Kinds
    PROVE  ThreadsOK'
  <1>1. Fine([th[c] EXCEPT !.pc = l])
    BY ThisThread DEF Fine, Placed, Threadwork
  <1> QED
    BY <1>1, ThreadType DEF GoTo

LEMMA StopType ==
    ASSUME ThreadsOK, NEW c \in Threads, Stop(c)
    PROVE  ThreadsOK'
  BY ThreadType, IdleFine DEF Stop

LEMMA OpenedType ==
    ASSUME ThreadsOK, NEW c \in Threads, NEW ok \in BOOLEAN, Opened(c, ok), th[c].pc # "idle"
    PROVE  ThreadsOK'
  <1> DEFINE next == [Idle EXCEPT !.pc = "recover", !.s = th[c].s, !.rec = th[c].rec,
                                  !.kinds = IF th[c].rec = "new" /\ ~ok
                                            THEN {} ELSE th[c].kinds]
  <1>1. Fine(next)
    BY ThisThread, ZenonT(60) DEF Fine, Idle, Placed, Threadwork, PCs, Reopening, OnSlot
  <1> QED
    BY <1>1, StopType, ThreadType DEF Opened

LEMMA AbandonType ==
    ASSUME TypeInv, NEW c \in Threads, NEW m \in BOOLEAN, Abandon(c, m), th[c].pc \in OnSlot
    PROVE  /\ session' \in [Ids -> States]
           /\ order' \in Seq(Ids) /\ Len(order') <= Keep
           /\ RuntimesOK' /\ ThreadsOK'
  <1>1. th[c].s \in Ids /\ th[c].k \in Kinds /\ th[c].pc # "idle" /\ ThreadsOK
    BY TypeParts DEF TypeInv, PlaceInv, Placed, OnSlot
  <1>2. RuntimesOK'
    BY <1>1 DEF Abandon, RuntimesOK, TypeInv, TypeOK, Phases
  <1>3. ThreadsOK'
    BY <1>1, GoToType DEF Abandon, PCs, OnSlot
  <1>4. session' \in [Ids -> States] /\ order' \in Seq(Ids) /\ Len(order') <= Keep
    BY <1>1, MoveType DEF Abandon, TypeInv, TypeOK, States
  <1> QED
    BY <1>2, <1>3, <1>4

LEMMA OpenClaimType ==
    ASSUME TypeInv, NEW c \in Threads, NEW s \in Ids, NEW k \in Kinds, NEW me, Fine(me),
           th[c].pc # "idle" \/ th[c].rec = "no", OpenClaim(c, s, k, me)
    PROVE  TypeInv'
  <1>1. RegistryOK /\ RuntimesOK /\ ProcessesOK /\ ThreadsOK
    BY TypeParts
  <1>2. ASSUME NEW ok \in BOOLEAN, Opened(c, ok)
        PROVE  ThreadsOK'
    BY <1>1, <1>2, OpenedType, StopType DEF Opened
  <1>3. Fine([me EXCEPT !.pc = "launch", !.s = s, !.k = k, !.first = (session[s] = "created")])
    BY DEF Fine, Placed, Threadwork, PCs
  <1>4. ThreadsOK'
    BY <1>1, <1>2, <1>3, ThreadType DEF OpenClaim
  <1>5. RegistryOK'
    BY <1>1, MoveType DEF OpenClaim, RegistryOK, registry, States
  <1>6. RuntimesOK' /\ ProcessesOK'
    <2>1. worker' = worker /\ lock' = lock /\ item' = item
      BY DEF OpenClaim, runtimes, processes
    <2>2. phase' = phase \/ phase' = [phase EXCEPT ![s][k] = "opening"]
      BY DEF OpenClaim, runtimes
    <2>3. ProcessesOK'
      BY <1>1, <2>1 DEF ProcessesOK
    <2>4. phase' \in [Ids -> [Kinds -> Phases]]
      <3>1. CASE phase' = phase
        BY <1>1, <3>1 DEF RuntimesOK
      <3>2. CASE phase' = [phase EXCEPT ![s][k] = "opening"]
        BY <1>1, <3>2 DEF RuntimesOK, Phases
      <3> QED
        BY <2>2, <3>1, <3>2
    <2> QED
      BY <1>1, <2>1, <2>3, <2>4 DEF RuntimesOK
  <1> QED
    BY <1>4, <1>5, <1>6
       DEF TypeInv, TypeOK, RegistryOK, RuntimesOK, ProcessesOK, ThreadsOK

LEMMA CloseClaimType ==
    ASSUME TypeInv, NEW c \in Threads, NEW s \in Ids, NEW me \in Threadwork,
           me.rec # "no" => me.s \in Ids, CloseClaim(c, s, me)
    PROVE  TypeInv'
  <1>1. RegistryOK /\ RuntimesOK /\ ProcessesOK /\ ThreadsOK
    BY TypeParts
  <1>2. Fine([me EXCEPT !.pc = "ending", !.s = s, !.mine = ItemsOf(s)])
    <2>1. ItemsOf(s) \in SUBSET Workers
      BY <1>1 DEF ItemsOf, RuntimesOK
    <2> QED
      BY <2>1, ZenonT(60) DEF Fine, Placed, Threadwork, PCs, OnSlot
  <1>3. me.rec # "no" => Fine([me EXCEPT !.pc = "replace"])
    BY DEF Fine, Placed, Threadwork, PCs, OnSlot
  <1>4. ThreadsOK'
    BY <1>1, <1>2, <1>3, IdleFine, ThreadType DEF CloseClaim
  <1>5. RegistryOK'
    BY <1>1, MoveType DEF CloseClaim, RegistryOK, registry, States
  <1>6. RuntimesOK' /\ ProcessesOK'
    <2>1. worker' = worker /\ lock' = lock
      BY DEF CloseClaim, processes
    <2>2. \/ phase' = phase /\ item' = item
          \/ /\ item' = [item EXCEPT ![s] = [j \in Kinds |-> None]]
             /\ phase' = [phase EXCEPT ![s] = [j \in Kinds |-> "absent"]]
      BY DEF CloseClaim, runtimes
    <2>3. ProcessesOK'
      BY <1>1, <2>1 DEF ProcessesOK
    <2>4. RuntimesOK'
      BY <1>1, <2>1, <2>2 DEF RuntimesOK, Phases
    <2> QED
      BY <2>3, <2>4
  <1> QED
    BY <1>4, <1>5, <1>6
       DEF TypeInv, TypeOK, RegistryOK, RuntimesOK, ProcessesOK, ThreadsOK

LEMMA TypeWhole ==
    ASSUME RegistryOK', RuntimesOK', ProcessesOK', ThreadsOK'
    PROVE  TypeInv'
  BY DEF TypeInv, TypeOK, RegistryOK, RuntimesOK, ProcessesOK, ThreadsOK

(* The steps of an open, a call and a failure *)
LEMMA OpenStepType ==
    ASSUME TypeInv, NEW c \in Threads,
           Launch(c) \/ LaunchFails(c) \/ LogFails(c) \/ Register(c) \/ Release(c)
    PROVE  TypeInv'
  <1> USE DEF OnSlot
  <1>1. RegistryOK /\ RuntimesOK /\ ProcessesOK /\ ThreadsOK /\ Fine(th[c])
    BY TypeParts, ThisThread
  <1>2. th[c].pc \in OnSlot /\ th[c].s \in Ids /\ th[c].k \in Kinds /\ th[c].pc # "idle"
    BY <1>1 DEF Fine, Placed, At, Launch, LaunchFails, LogFails, Register, Release
  <1>3. CASE Launch(c)
    <2>1. PICK w \in Workers : /\ worker' = [worker EXCEPT ![w] = "alive"]
                               /\ Does(c, [th[c] EXCEPT !.pc = "register", !.hand = w])
      BY <1>3 DEF Launch
    <2>2. Fine([th[c] EXCEPT !.pc = "register", !.hand = w])
      BY <1>1, <1>2 DEF Fine, Placed, Threadwork, PCs
    <2>3. ThreadsOK' /\ ProcessesOK'
      BY <1>1, <1>3, <2>1, <2>2, ThreadType DEF Launch, ProcessesOK
    <2> QED
      BY <1>1, <1>3, <2>3, TypeWhole DEF Launch, RegistryOK, RuntimesOK, registry, runtimes
  <1>4. CASE LaunchFails(c) \/ LogFails(c)
    <2>1. PICK m \in BOOLEAN : Abandon(c, m)
      BY <1>4 DEF LaunchFails, LogFails
    <2>2. attached' = attached /\ worker' = worker /\ lock' = lock
      BY <1>4 DEF LaunchFails, LogFails, processes
    <2> QED
      BY <1>1, <1>2, <2>1, <2>2, AbandonType, TypeWhole DEF RegistryOK, ProcessesOK
  <1>5. CASE Register(c)
    <2>1. attached' \in [Ids -> SUBSET Kinds]
      <3>1. \/ attached' = attached
            \/ attached' = [attached EXCEPT ![th[c].s] = @ \cup {th[c].k}]
        BY <1>5 DEF Register
      <3> QED
        BY <1>1, <1>2, <3>1 DEF RegistryOK
    <2>2. ProcessesOK'
      BY <1>1, <1>5 DEF Register, ProcessesOK, processes
    <2>3. CASE Abandon(c, FALSE)
      BY <1>2, <2>1, <2>2, <2>3, AbandonType, TypeWhole DEF RegistryOK
    <2>4. CASE ~Abandon(c, FALSE)
      <3>1. /\ item' = [item EXCEPT ![th[c].s][th[c].k] = th[c].hand]
            /\ phase' = [phase EXCEPT ![th[c].s][th[c].k] = "ready"]
            /\ Opened(c, TRUE)
            /\ Move(th[c].s, "ready") \/ UNCHANGED <<session, order>>
        BY <1>5, <2>4 DEF Register
      <3>2. RuntimesOK'
        BY <1>1, <3>1 DEF RuntimesOK, Phases, Fine, Threadwork
      <3>3. ThreadsOK'
        BY <1>1, <1>2, <3>1, OpenedType
      <3>4. session' \in [Ids -> States] /\ order' \in Seq(Ids) /\ Len(order') <= Keep
        BY <1>1, <1>2, <3>1, MoveType DEF RegistryOK, States, Live
      <3> QED
        BY <2>1, <2>2, <3>2, <3>3, <3>4, TypeWhole DEF RegistryOK
    <2> QED
      BY <2>3, <2>4
  <1>6. CASE Release(c)
    <2>1. ThreadsOK'
      BY <1>1, <1>2, <1>6, OpenedType DEF Release
    <2>2. ProcessesOK'
      BY <1>1, <1>6 DEF Release, Ended, ProcessesOK
    <2> QED
      BY <1>1, <1>6, <2>1, <2>2, TypeWhole DEF Release, RegistryOK, RuntimesOK, registry, runtimes
  <1> QED
    BY <1>3, <1>4, <1>5, <1>6

LEMMA CallStepType ==
    ASSUME TypeInv, NEW c \in Threads,
           Enter(c) \/ Answer(c) \/ Project(c) \/ Fatal(c)
    PROVE  TypeInv'
  <1> USE DEF OnSlot
  <1>1. RegistryOK /\ RuntimesOK /\ ProcessesOK /\ ThreadsOK /\ Fine(th[c])
    BY TypeParts, ThisThread
  <1>2. th[c].s \in Ids /\ th[c].k \in Kinds /\ th[c].pc # "idle"
    BY <1>1 DEF Fine, Placed, At, Enter, Answer, Project, Fatal
  <1>3. attached' = attached /\ RuntimesOK' /\ worker' = worker
    BY <1>1 DEF Enter, Answer, Project, Fatal, RuntimesOK, registry, runtimes
  <1>4. lock' \in [Workers -> Threads \cup {None}]
    BY <1>1 DEF Enter, Answer, Project, Fatal, Unlock, ProcessesOK
  <1>5. session' \in [Ids -> States] /\ order' \in Seq(Ids) /\ Len(order') <= Keep
    <2>1. CASE Project(c)
      <3>1. th[c].moves \in Moves
        BY <1>1 DEF Fine, Threadwork, Moves
      <3> QED
        BY <1>1, <1>2, <2>1, <3>1, MovesTail, MoveType DEF Project, RegistryOK, States
    <2>2. CASE ~Project(c)
      BY <1>1, <2>2 DEF Enter, Answer, Fatal, RegistryOK, registry
    <2> QED
      BY <2>1, <2>2
  <1>6. ThreadsOK'
    <2>1. ASSUME NEW report \in {"running", "paused", "idle", "unknown"}
          PROVE  Fine([th[c] EXCEPT !.pc = "project", !.moves = Projected(th[c].s, report)])
      <3>1. Projected(th[c].s, report) \in Moves
        BY DEF Projected, Moves
      <3>2. ASSUME NEW m \in Moves
            PROVE  Fine([th[c] EXCEPT !.pc = "project", !.moves = m])
        <4>1. [th[c] EXCEPT !.pc = "project", !.moves = m] \in Threadwork
          BY <1>1 DEF Fine, Threadwork, PCs, Moves
        <4> QED
          BY <1>1, <1>2, <4>1 DEF Fine, Placed, Threadwork
      <3> QED
        BY <3>1, <3>2
    <2>2. CASE Answer(c)
      BY <1>1, <2>1, <2>2, ThreadType, StopType DEF Answer
    <2>3. CASE Project(c)
      <3>1. th[c].moves \in Moves
        BY <1>1 DEF Fine, Threadwork, Moves
      <3>2. th[c].moves # <<>> => Fine([th[c] EXCEPT !.moves = Tail(@)])
        <4>1. th[c].moves # <<>> => Tail(th[c].moves) \in Moves
          BY <3>1, MovesTail
        <4> QED
          BY <1>1, <4>1 DEF Fine, Placed, Threadwork, Moves
      <3> QED
        BY <1>1, <2>3, <3>2, ThreadType, StopType DEF Project
    <2>4. CASE Enter(c) \/ Fatal(c)
      BY <1>1, <1>2, <2>4, GoToType, StopType DEF Enter, Fatal, PCs
    <2> QED
      BY <2>2, <2>3, <2>4
  <1> QED
    BY <1>1, <1>3, <1>4, <1>5, <1>6, TypeWhole DEF RegistryOK, ProcessesOK

(* The steps of a failure, a close and a recovery *)
LEMMA EndStepType ==
    ASSUME TypeInv, NEW c \in Threads,
           \/ FailRuntime(c) \/ Terminate(c) \/ Settle(c)
           \/ EndWorker(c) \/ EndClose(c) \/ CloseFails(c) \/ CloseDone(c)
    PROVE  TypeInv'
  <1> USE DEF OnSlot
  <1>1. RegistryOK /\ RuntimesOK /\ ProcessesOK /\ ThreadsOK /\ Fine(th[c])
    BY TypeParts, ThisThread
  <1>2. th[c].s \in Ids /\ th[c].pc # "idle"
    BY <1>1 DEF Fine, Placed, At, FailRuntime, Terminate, Settle, EndWorker, EndClose,
                CloseFails, CloseDone
  <1>3. CASE FailRuntime(c)
    <2>1. th[c].k \in Kinds /\ item[th[c].s][th[c].k] \in Workers \cup {None}
      BY <1>1, <1>2, <1>3 DEF Fine, Placed, At, FailRuntime, RuntimesOK
    <2>2. Fine([th[c] EXCEPT !.pc = "terminate", !.hand = item[th[c].s][th[c].k]])
      BY <1>1, <1>2, <2>1, ZenonT(60) DEF Fine, Placed, Threadwork, PCs
    <2>3. ThreadsOK'
      BY <1>1, <1>3, <2>2, ThreadType DEF FailRuntime
    <2>4. RuntimesOK'
      BY <1>1, <1>2, <1>3 DEF FailRuntime, RuntimesOK, Phases
    <2> QED
      BY <1>1, <1>3, <2>3, <2>4, TypeWhole
         DEF FailRuntime, RegistryOK, ProcessesOK, registry, processes
  <1>4. CASE Terminate(c)
    <2>1. Fine([th[c] EXCEPT !.pc = "settle", !.hand = None, !.seen = None])
      BY <1>1, <1>2, <1>4 DEF Fine, Placed, Threadwork, PCs, Terminate, At
    <2>2. ThreadsOK'
      BY <1>1, <1>4, <2>1, ThreadType DEF Terminate
    <2>3. ProcessesOK'
      BY <1>1, <1>4 DEF Terminate, Ended, ProcessesOK
    <2> QED
      BY <1>1, <1>4, <2>2, <2>3, TypeWhole
         DEF Terminate, RegistryOK, RuntimesOK, registry, runtimes
  <1>5. CASE Settle(c)
    <2>1. ThreadsOK' /\ RuntimesOK' /\ ProcessesOK'
      BY <1>1, <1>5, StopType DEF Settle, RuntimesOK, ProcessesOK, runtimes, processes
    <2>2. attached' \in [Ids -> SUBSET Kinds]
      BY <1>1, <1>2, <1>5 DEF Settle, RegistryOK, registry
    <2>3. session' \in [Ids -> States] /\ order' \in Seq(Ids) /\ Len(order') <= Keep
      BY <1>1, <1>2, <1>5, MoveType DEF Settle, RegistryOK, registry, States
    <2> QED
      BY <2>1, <2>2, <2>3, TypeWhole DEF RegistryOK
  <1>6. CASE EndWorker(c)
    <2>1. PICK w \in th[c].mine, raises \in BOOLEAN :
             /\ worker' = Ended(w)
             /\ Does(c, [th[c] EXCEPT !.mine = @ \ {w}, !.broken = @ \/ raises])
      BY <1>6 DEF EndWorker
    <2>2. Fine([th[c] EXCEPT !.mine = @ \ {w}, !.broken = @ \/ raises])
      <3>1. (th[c].broken \/ raises) \in BOOLEAN /\ th[c].mine \ {w} \in SUBSET Workers
        BY <1>1 DEF Fine, Threadwork
      <3> QED
        BY <1>1, <1>2, <3>1 DEF Fine, Placed, Threadwork
    <2>3. ThreadsOK'
      BY <1>1, <2>1, <2>2, ThreadType
    <2>4. ProcessesOK'
      BY <1>1, <1>6, <2>1 DEF EndWorker, Ended, ProcessesOK
    <2> QED
      BY <1>1, <1>6, <2>3, <2>4, TypeWhole
         DEF EndWorker, RegistryOK, RuntimesOK, registry, runtimes
  <1>7. ASSUME NEW to \in {"done", "failing", "closing"}, CloseEnds(c, to)
        PROVE  ThreadsOK'
    <2>1. Fine([th[c] EXCEPT !.pc = IF to = "done" THEN "replace" ELSE to])
      BY <1>1, <1>2 DEF Fine, Placed, Threadwork, PCs
    <2> QED
      BY <1>1, <1>7, <2>1, IdleFine, ThreadType DEF CloseEnds
  <1>8. CASE EndClose(c)
    <2>1. ThreadsOK'
      BY <1>7, <1>8 DEF EndClose
    <2>2. RegistryOK'
      BY <1>1, <1>8 DEF EndClose, RegistryOK
    <2> QED
      BY <1>1, <1>8, <2>1, <2>2, TypeWhole
         DEF EndClose, RuntimesOK, ProcessesOK, runtimes, processes
  <1>9. CASE CloseFails(c) \/ CloseDone(c)
    <2>1. PICK target \in {"failed", "closed"} : CloseMoves(c, target)
      BY <1>9 DEF CloseFails, CloseDone
    <2>2. ThreadsOK'
      BY <1>7, <2>1 DEF CloseMoves
    <2>3. RegistryOK'
      BY <1>1, <1>2, <2>1, MoveType DEF CloseMoves, RegistryOK, States
    <2> QED
      BY <1>1, <2>1, <2>2, <2>3, TypeWhole
         DEF CloseMoves, RuntimesOK, ProcessesOK, runtimes, processes
  <1> QED
    BY <1>3, <1>4, <1>5, <1>6, <1>8, <1>9

LEMMA RecoverStepType ==
    ASSUME TypeInv, NEW c \in Threads,
           \/ RecoverNext(c) \/ RecoverEnds(c) \/ Replace(c)
           \/ Discard(c) \/ Drop(c) \/ Detach(c) \/ Reopen(c)
    PROVE  TypeInv'
  <1> USE DEF OnSlot
  <1>1. RegistryOK /\ RuntimesOK /\ ProcessesOK /\ ThreadsOK /\ Fine(th[c])
    BY TypeParts, ThisThread
  <1>2. th[c].s \in Ids /\ th[c].pc # "idle"
    BY <1>1 DEF Fine, Placed, At, RecoverNext, RecoverEnds, Replace, Discard, Drop,
                Detach, Reopen
  <1>3. CASE RecoverNext(c)
    <2>1. PICK k \in th[c].kinds :
             LET me == [th[c] EXCEPT !.k = k, !.kinds = @ \ {k}] IN
             \/ Does(c, [me EXCEPT !.pc = "open"])
             \/ Does(c, me)
             \/ Does(c, [me EXCEPT !.pc = "discard", !.seen = item[th[c].s][k]])
      BY <1>3 DEF RecoverNext
    <2> DEFINE me == [th[c] EXCEPT !.k = k, !.kinds = @ \ {k}]
    <2>2. k \in Kinds /\ item[th[c].s][k] \in Workers \cup {None}
      BY <1>1, <1>2 DEF Fine, Threadwork, RuntimesOK
    <2>3. Fine(me) /\ Fine([me EXCEPT !.pc = "open"])
      BY <1>1, <1>2, <2>2, ZenonT(60) DEF Fine, Placed, Threadwork, PCs
    <2>4. Fine([me EXCEPT !.pc = "discard", !.seen = item[th[c].s][k]])
      BY <1>1, <1>2, <2>2 DEF Fine, Placed, Threadwork, PCs
    <2>5. ThreadsOK'
      BY <1>1, <2>1, <2>3, <2>4, ThreadType
    <2> QED
      BY <1>1, <1>3, <2>5, TypeWhole
         DEF RecoverNext, RegistryOK, RuntimesOK, ProcessesOK, registry, runtimes, processes
  <1>4. CASE RecoverEnds(c)
    BY <1>1, <1>4, StopType, TypeWhole
       DEF RecoverEnds, RegistryOK, RuntimesOK, ProcessesOK, registry, runtimes, processes
  <1>5. CASE Replace(c)
    <2>1. ASSUME NEW t \in Ids
          PROVE  Fine([Idle EXCEPT !.pc = "recover", !.s = t, !.rec = "new",
                                   !.kinds = th[c].kinds])
      BY <1>1 DEF Fine, Idle, Placed, Threadwork, PCs, Reopening
    <2>2. ThreadsOK'
      BY <1>1, <1>5, <2>1, StopType, ThreadType DEF Replace
    <2>3. RegistryOK'
      BY <1>1, <1>5 DEF Replace, RegistryOK, States
    <2> QED
      BY <1>1, <1>5, <2>2, <2>3, TypeWhole
         DEF Replace, RuntimesOK, ProcessesOK, runtimes, processes
  <1>6. CASE Discard(c)
    <2>1. th[c].k \in Kinds /\ item[th[c].s][th[c].k] \in Workers \cup {None}
      BY <1>1, <1>2, <1>6 DEF Fine, Placed, At, Discard, RuntimesOK
    <2>2. Fine([th[c] EXCEPT !.pc = "open", !.seen = None])
      BY <1>1, <1>2, <2>1 DEF Fine, Placed, Threadwork, PCs
    <2>3. Fine([th[c] EXCEPT !.pc = "drop", !.hand = item[th[c].s][th[c].k]])
      BY <1>1, <1>2, <2>1, ZenonT(60) DEF Fine, Placed, Threadwork, PCs
    <2>4. ThreadsOK'
      BY <1>1, <1>6, <2>2, <2>3, ThreadType DEF Discard
    <2>5. \/ phase' = phase
          \/ phase' = [phase EXCEPT ![th[c].s][th[c].k] = "closed"]
      BY <1>6 DEF Discard
    <2>6. item' = item \/ item' = [item EXCEPT ![th[c].s][th[c].k] = None]
      BY <1>6 DEF Discard
    <2>7. phase' \in [Ids -> [Kinds -> Phases]]
      BY <1>1, <1>2, <2>1, <2>5, SMTT(60) DEF RuntimesOK, Phases
    <2>8. item' \in [Ids -> [Kinds -> Workers \cup {None}]]
      <3>1. CASE item' = item
        BY <1>1, <3>1 DEF RuntimesOK
      <3>2. CASE item' = [item EXCEPT ![th[c].s][th[c].k] = None]
        BY <1>1, <3>2 DEF RuntimesOK
      <3> QED
        BY <2>6, <3>1, <3>2
    <2> QED
      BY <1>1, <1>6, <2>4, <2>7, <2>8, TypeWhole
         DEF Discard, RegistryOK, RuntimesOK, ProcessesOK, registry, processes
  <1>7. CASE Drop(c)
    <2>1. Fine([th[c] EXCEPT !.pc = "detach", !.hand = None, !.seen = None])
      BY <1>1, <1>2, <1>7 DEF Fine, Placed, Threadwork, PCs, Drop, At
    <2>2. ThreadsOK' /\ ProcessesOK'
      BY <1>1, <1>7, <2>1, ThreadType DEF Drop, Ended, ProcessesOK
    <2> QED
      BY <1>1, <1>7, <2>2, TypeWhole
         DEF Drop, RegistryOK, RuntimesOK, registry, runtimes
  <1>8. CASE Detach(c)
    <2>1. ThreadsOK'
      BY <1>1, <1>2, <1>8, GoToType DEF Detach, At, Fine, Placed, PCs
    <2>2. RegistryOK'
      BY <1>1, <1>2, <1>8 DEF Detach, RegistryOK
    <2> QED
      BY <1>1, <1>8, <2>1, <2>2, TypeWhole
         DEF Detach, RuntimesOK, ProcessesOK, runtimes, processes
  <1>9. CASE Reopen(c)
    BY <1>1, <1>2, <1>9, OpenClaimType DEF Reopen, At, Fine, Placed
  <1> QED
    BY <1>3, <1>4, <1>5, <1>6, <1>7, <1>8, <1>9

LEMMA BeginType ==
    ASSUME TypeInv, NEW c \in Threads, Begin(c)
    PROVE  TypeInv'
  <1>1. RegistryOK /\ RuntimesOK /\ ProcessesOK /\ ThreadsOK /\ Fine(th[c])
    BY TypeParts, ThisThread
  <1>2. ASSUME NEW s \in Ids, NEW k \in Kinds, Open(c, s, k)
        PROVE  TypeInv'
    BY <1>1, <1>2, OpenClaimType, IdleFine DEF Open, At, Fine, Placed
  <1>3. ASSUME NEW s \in Ids, NEW k \in Kinds, Call(c, s, k)
        PROVE  TypeInv'
    <2>1. Fine([Idle EXCEPT !.pc = "enter", !.s = s, !.k = k, !.seen = item[s][k]])
      <3>1. item[s][k] \in Workers \cup {None}
        BY <1>1 DEF RuntimesOK
      <3> QED
        BY <3>1 DEF Fine, Idle, Placed, Threadwork, PCs, Reopening
    <2>2. ThreadsOK'
      BY <1>1, <1>3, <2>1, ThreadType DEF Call
    <2> QED
      BY <1>1, <1>3, <2>2, TypeWhole
         DEF Call, RegistryOK, RuntimesOK, ProcessesOK, registry, runtimes, processes
  <1>4. ASSUME NEW s \in Ids, Close(c, s)
        PROVE  TypeInv'
    BY <1>4, CloseClaimType, IdleFine DEF Close, Fine, Idle
  <1>5. ASSUME NEW s \in Ids, Recover(c, s)
        PROVE  TypeInv'
    <2>1. PICK K \in SUBSET Kinds :
             \/ CloseClaim(c, s, [Idle EXCEPT !.s = s, !.rec = "new", !.kinds = K])
             \/ /\ Does(c, [Idle EXCEPT !.pc = "recover", !.s = s,
                                        !.rec = "same", !.kinds = K])
                /\ UNCHANGED <<registry, runtimes, processes>>
      <3>1. Lost(s) \in SUBSET Kinds
        BY <1>1 DEF Lost, RegistryOK
      <3> QED
        BY <1>5, <3>1 DEF Recover
    <2> DEFINE me == [Idle EXCEPT !.s = s, !.rec = "new", !.kinds = K]
    <2>2. me \in Threadwork /\ me.s = s
      BY DEF Idle, Threadwork, PCs, Reopening
    <2>3. Fine([Idle EXCEPT !.pc = "recover", !.s = s, !.rec = "same", !.kinds = K])
      BY DEF Fine, Idle, Placed, Threadwork, PCs, Reopening, OnSlot
    <2>4. CASE CloseClaim(c, s, me)
      <3> HIDE DEF me
      <3> QED
        BY <2>2, <2>4, CloseClaimType
    <2>5. CASE ~CloseClaim(c, s, me)
      <3>1. ThreadsOK'
        BY <1>1, <2>1, <2>3, <2>5, ThreadType
      <3> QED
        BY <1>1, <2>1, <2>5, <3>1, TypeWhole
           DEF RegistryOK, RuntimesOK, ProcessesOK, registry, runtimes, processes
    <2> QED
      BY <2>4, <2>5
  <1> QED
    BY <1>2, <1>3, <1>4, <1>5 DEF Begin

LEMMA TypeStep ==
    ASSUME TypeInv, [Next]_vars
    PROVE  TypeInv'
  <1>1. RegistryOK /\ RuntimesOK /\ ProcessesOK /\ ThreadsOK
    BY TypeParts
  <1>2. ASSUME NEW s \in Ids, Create(s)
        PROVE  TypeInv'
    BY <1>1, <1>2, TypeWhole
       DEF Create, RegistryOK, RuntimesOK, ProcessesOK, ThreadsOK, PlaceInv, runtimes,
           processes, States
  <1>3. ASSUME NEW w \in Workers, Crash(w)
        PROVE  TypeInv'
    BY <1>1, <1>3, TypeWhole
       DEF Crash, RegistryOK, RuntimesOK, ProcessesOK, ThreadsOK, PlaceInv, registry, runtimes
  <1>4. CASE UNCHANGED vars
    BY <1>4 DEF vars, TypeInv, TypeOK, PlaceInv
  <1>5. ASSUME NEW c \in Threads, Continue(c)
        PROVE  TypeInv'
    BY <1>5, OpenStepType, CallStepType, EndStepType, RecoverStepType DEF Continue
  <1> QED
    BY <1>2, <1>3, <1>4, <1>5, BeginType DEF Next

LEMMA TypeInit == Init => TypeInv
  BY IdleFine, ConstantsAssumption
     DEF Init, TypeInv, TypeOK, PlaceInv, Fine, States, Phases

(* Every variable keeps its type, and the registry never holds more than   *)
(* Keep ended sessions (_retire_closed).                                   *)
THEOREM TypeCorrect == Spec => []TypeOK
  <1>1. TypeInv /\ [Next]_vars => TypeInv'
    BY TypeStep
  <1>2. TypeInv => TypeOK
    BY DEF TypeInv
  <1> QED
    BY TypeInit, <1>1, <1>2, PTL DEF Spec

-----------------------------------------------------------------------------
(* A close is final *)

OverKept == \A q \in Ids : session[q] \in Over => session'[q] \in Over

LEMMA CanMoveOver ==
    ASSUME TypeInv, NEW s \in Ids, NEW t \in States, CanMove(s, t), session[s] \in Over
    PROVE  t \in Over
  <1>1. session[s] \in States
    BY DEF TypeInv, TypeOK
  <1>2. /\ Allowed["closing"] = {"closed", "failed"}
        /\ Allowed["failed"] = {"closing", "closed"} /\ Allowed["closed"] = {}
    BY DEF Allowed, States, Live
  <1> QED
    BY <1>1, <1>2 DEF CanMove, Held, Over

LEMMA MoveOver ==
    ASSUME TypeInv, NEW s \in Ids, NEW t \in States,
           (Move(s, t) /\ CanMove(s, t)) \/ MoveIfAllowed(s, t)
    PROVE  OverKept
  <1>1. CASE CanMove(s, t) /\ Move(s, t)
    BY <1>1, MoveEffect, CanMoveOver DEF OverKept, TypeInv, Over
  <1> QED
    BY <1>1 DEF MoveIfAllowed, OverKept

(* No step takes a session back that is closing, closed, failed or dropped. *)
LEMMA OverStep ==
    ASSUME TypeInv, [Next]_vars
    PROVE  OverKept
  <1> USE DEF OnSlot
  <1>1. CASE session' = session
    BY <1>1 DEF OverKept
  <1>2. ASSUME NEW s \in Ids, Create(s)
        PROVE  OverKept
    BY <1>2 DEF Create, OverKept, TypeInv, TypeOK, Over
  <1>3. ASSUME NEW c \in Threads, NEW s \in Ids, NEW k \in Kinds, NEW me,
               OpenClaim(c, s, k, me)
        PROVE  OverKept
    <2>1. CASE session[s] = "created" /\ Move(s, "opening")
      <3>1. CanMove(s, "opening")
        BY <2>1 DEF CanMove, Held, Allowed, States, Live
      <3> QED
        BY <2>1, <3>1, MoveOver DEF States
    <2> QED
      BY <1>1, <1>3, <2>1 DEF OpenClaim, registry
  <1>4. ASSUME NEW c \in Threads, NEW s \in Ids, NEW me, CloseClaim(c, s, me)
        PROVE  OverKept
    BY <1>1, <1>4, MoveOver DEF CloseClaim, Closable, registry, States
  <1>5. ASSUME NEW c \in Threads, Continue(c)
        PROVE  OverKept
    <2>1. th[c].pc # "idle" => th[c].s \in Ids
      BY DEF TypeInv, PlaceInv, Placed
    <2>2. ASSUME NEW m \in BOOLEAN, Abandon(c, m), th[c].s \in Ids
          PROVE  OverKept
      BY <1>1, <2>2, MoveOver DEF Abandon, States
    <2>3. CASE LaunchFails(c) \/ LogFails(c)
      BY <2>1, <2>2, <2>3 DEF LaunchFails, LogFails, At
    <2>4. CASE Register(c)
      BY <1>1, <2>1, <2>2, <2>4, MoveOver DEF Register, At, States, Live
    <2>5. CASE Project(c)
      <3>1. th[c].moves \in Moves
        BY DEF TypeInv, TypeOK, Threadwork, Moves
      <3> QED
        BY <1>1, <2>1, <2>5, <3>1, MovesTail, MoveOver DEF Project, At, States
    <2>6. CASE Settle(c)
      BY <1>1, <2>1, <2>6, MoveOver DEF Settle, At, States, registry
    <2>7. CASE CloseFails(c) \/ CloseDone(c)
      BY <1>1, <2>1, <2>7, MoveOver DEF CloseFails, CloseDone, CloseMoves, At, States
    <2>8. CASE Replace(c)
      BY <2>8 DEF Replace, OverKept, TypeInv, TypeOK, Over
    <2>9. CASE Reopen(c)
      BY <1>3, <2>1, <2>9 DEF Reopen, At, TypeInv, PlaceInv, Placed
    <2> QED
      BY <1>1, <1>5, <2>3, <2>4, <2>5, <2>6, <2>7, <2>8, <2>9
         DEF Continue, Launch, Release, Enter, Answer, Fatal, FailRuntime, Terminate,
             EndWorker, EndClose, RecoverNext, RecoverEnds, Discard, Drop, Detach, registry
  <1>6. ASSUME NEW c \in Threads, Begin(c)
        PROVE  OverKept
    BY <1>1, <1>3, <1>4, <1>6 DEF Begin, Close, Recover, Open, Call, registry
  <1>7. ASSUME NEW w \in Workers, Crash(w)
        PROVE  session' = session
    BY <1>7 DEF Crash, registry
  <1> QED
    BY <1>1, <1>2, <1>5, <1>6, <1>7 DEF Next, vars

(* Once a close has begun, nothing a debugger reports or an open returns    *)
(* brings the session back (transition, _project_legacy_session_state).     *)
THEOREM ClosingStaysFinal == Spec => ClosingIsFinal
  <1>1. TypeInv /\ [Next]_vars => TypeInv'
    BY TypeStep
  <1>2. TypeInv /\ [Next]_vars =>
           [\A s \in Ids : session[s] \in {"closing", "closed", "gone"} =>
               session'[s] \in {"closing", "closed", "failed", "gone"}]_session
    BY OverStep DEF OverKept, Over
  <1> QED
    BY TypeInit, <1>1, <1>2, PTL DEF Spec, ClosingIsFinal

-----------------------------------------------------------------------------
(* A closed session is empty *)

EmptiedKept == \A q \in Ids : session[q] \in Over /\ Emptied(q) => Emptied(q)'

(* A step closes a session only when it empties it, or as the last step of  *)
(* a close.                                                                 *)
ClosedByClose ==
    \A q \in Ids : session'[q] \in {"closing", "closed"} =>
        \/ session[q] \in {"closing", "closed"} \/ Emptied(q)'
        \/ \E c \in Threads : th[c].pc = "closing" /\ th[c].s = q

(* A thread is in a close when it was, or when it empties the session now.  *)
InCloseFromClose ==
    \A c \in Threads, q \in Ids : th'[c].pc \in OnClose /\ th'[c].s = q =>
        \/ th[c].pc \in OnClose /\ th[c].s = q
        \/ session'[q] \in Over /\ Emptied(q)'

LEMMA CloseKept ==
    ASSUME TypeInv, TypeInv', CloseInv, OverKept, EmptiedKept, ClosedByClose, InCloseFromClose
    PROVE  CloseInv'
  <1>1. ASSUME NEW q \in Ids, session'[q] \in {"closing", "closed"}
        PROVE  Emptied(q)'
    BY <1>1 DEF CloseInv, ClosedByClose, EmptiedKept, Over, OnClose
  <1>2. ASSUME NEW c \in Threads, th'[c].pc \in OnClose
        PROVE  th'[c].s \in Ids
    BY <1>2 DEF TypeInv, PlaceInv, Placed, OnClose
  <1>3. ASSUME NEW c \in Threads, NEW q \in Ids, th'[c].pc \in OnClose, th'[c].s = q
        PROVE  session'[q] \in Over /\ Emptied(q)'
    BY <1>3 DEF CloseInv, InCloseFromClose, OverKept, EmptiedKept, Over
  <1> QED
    BY <1>1, <1>2, <1>3 DEF CloseInv, Emptied, Over

(* The three facts for a step that changes no slot of an ended session and  *)
(* moves one session to a state other than closing and closed.              *)
LEMMA QuietSlots ==
    ASSUME item' = item, phase' = phase
    PROVE  EmptiedKept
  BY DEF EmptiedKept, Emptied

LEMMA QuietSession ==
    ASSUME TypeInv, \/ session' = session
                    \/ \E s \in Ids, t \in States \ {"closing", "closed"} :
                          Move(s, t) \/ MoveIfAllowed(s, t)
    PROVE  ClosedByClose
  <1>1. CASE session' = session
    BY <1>1 DEF ClosedByClose
  <1>2. ASSUME NEW s \in Ids, NEW t \in States \ {"closing", "closed"}, Move(s, t)
        PROVE  ClosedByClose
    BY <1>2, MoveEffect DEF ClosedByClose, TypeInv
  <1> QED
    BY <1>1, <1>2 DEF MoveIfAllowed

LEMMA QuietThread ==
    ASSUME TypeInv, NEW c \in Threads, NEW t, Does(c, t), t.pc \notin OnClose
    PROVE  InCloseFromClose
  BY DEF Does, InCloseFromClose, TypeInv, TypeOK

LEMMA OpenedQuiet ==
    ASSUME TypeInv, NEW c \in Threads, NEW ok \in BOOLEAN, Opened(c, ok)
    PROVE  InCloseFromClose
  BY QuietThread DEF Opened, Stop, Idle, OnClose

LEMMA AbandonQuiet ==
    ASSUME TypeInv, NEW c \in Threads, NEW m \in BOOLEAN, Abandon(c, m), th[c].pc \in OnSlot
    PROVE  EmptiedKept /\ ClosedByClose /\ InCloseFromClose
  <1>1. th[c].s \in Ids /\ th[c].k \in Kinds /\ th[c] \in Threadwork
    BY DEF TypeInv, TypeOK, PlaceInv, Placed, OnSlot
  <1>2. EmptiedKept
    BY <1>1 DEF Abandon, EmptiedKept, Emptied, TypeInv, TypeOK
  <1>3. ClosedByClose
    BY <1>1, QuietSession DEF Abandon, States
  <1>4. InCloseFromClose
    BY <1>1, QuietThread DEF Abandon, GoTo, OnClose, Threadwork
  <1> QED
    BY <1>2, <1>3, <1>4

LEMMA OpenClaimQuiet ==
    ASSUME TypeInv, NEW c \in Threads, NEW s \in Ids, NEW k \in Kinds, NEW me \in Threadwork,
           OpenClaim(c, s, k, me)
    PROVE  EmptiedKept /\ ClosedByClose /\ InCloseFromClose
  <1>1. EmptiedKept
    <2>1. CASE phase' = phase /\ item' = item
      BY <2>1, QuietSlots
    <2>2. CASE /\ session[s] \in Live \cup {"created"} /\ item' = item
               /\ phase' = [phase EXCEPT ![s][k] = "opening"]
      BY <2>2 DEF EmptiedKept, Emptied, Over, Live, TypeInv, TypeOK
    <2> QED
      BY <2>1, <2>2 DEF OpenClaim, runtimes
  <1>2. ClosedByClose
    BY QuietSession DEF OpenClaim, registry, States
  <1>3. InCloseFromClose
    <2>1. CASE \E ok \in BOOLEAN : Opened(c, ok)
      BY <2>1, OpenedQuiet
    <2>2. CASE Does(c, [me EXCEPT !.pc = "launch", !.s = s, !.k = k,
                                  !.first = (session[s] = "created")])
      BY <2>2, QuietThread DEF OnClose, Threadwork
    <2> QED
      BY <2>1, <2>2 DEF OpenClaim
  <1> QED
    BY <1>1, <1>2, <1>3

LEMMA CloseClaimEmpties ==
    ASSUME TypeInv, NEW c \in Threads, NEW s \in Ids, NEW me \in Threadwork, CloseClaim(c, s, me)
    PROVE  EmptiedKept /\ ClosedByClose /\ InCloseFromClose
  <1>1. CASE ~Closable(s)
    <2>1. session' = session /\ item' = item /\ phase' = phase
      BY <1>1 DEF CloseClaim, registry, runtimes
    <2>2. InCloseFromClose
      BY <1>1, QuietThread DEF CloseClaim, OnClose, Threadwork, Idle
    <2> QED
      BY <2>1, <2>2, QuietSlots, QuietSession
  <1>2. CASE Closable(s)
    <2>1. /\ Move(s, "closing")
          /\ Does(c, [me EXCEPT !.pc = "ending", !.s = s, !.mine = ItemsOf(s)])
          /\ item' = [item EXCEPT ![s] = [k \in Kinds |-> None]]
          /\ phase' = [phase EXCEPT ![s] = [k \in Kinds |-> "absent"]]
      BY <1>2 DEF CloseClaim
    <2>2. Emptied(s)' /\ EmptiedKept
      BY <2>1 DEF Emptied, EmptiedKept, TypeInv, TypeOK
    <2>3. session'[s] \in Over /\ ClosedByClose
      BY <2>1, <2>2, MoveEffect DEF ClosedByClose, TypeInv, Over, States
    <2>4. th'[c].s = s /\ \A d \in Threads \ {c} : th'[d] = th[d]
      BY <2>1 DEF Does, TypeInv, TypeOK, Threadwork
    <2> QED
      BY <2>2, <2>3, <2>4 DEF InCloseFromClose
  <1> QED
    BY <1>1, <1>2

LEMMA ContinueClose ==
    ASSUME TypeInv, NEW c \in Threads, Continue(c)
    PROVE  EmptiedKept /\ ClosedByClose /\ InCloseFromClose
  <1>1. th[c] \in Threadwork /\ Placed(th[c])
    BY DEF TypeInv, TypeOK, PlaceInv
  <1>2. ASSUME NEW l \in PCs \ OnClose, GoTo(c, l)
        PROVE  InCloseFromClose
    BY <1>1, <1>2, QuietThread DEF GoTo, Threadwork
  <1>3. Stop(c) => InCloseFromClose
    BY QuietThread DEF Stop, Idle, OnClose
  <1>4. CASE Launch(c)
    BY <1>1, <1>4, QuietSlots, QuietSession, QuietThread
       DEF Launch, OnClose, Threadwork, registry, runtimes
  <1>5. CASE LaunchFails(c) \/ LogFails(c)
    BY <1>5, AbandonQuiet DEF LaunchFails, LogFails, At, OnSlot
  <1>6. CASE Register(c)
    <2>1. CASE Abandon(c, FALSE)
      BY <1>6, <2>1, AbandonQuiet DEF Register, At, OnSlot
    <2>2. CASE ~Abandon(c, FALSE)
      <3>1. /\ phase[th[c].s][th[c].k] = "opening"
            /\ item' = [item EXCEPT ![th[c].s][th[c].k] = th[c].hand]
            /\ phase' = [phase EXCEPT ![th[c].s][th[c].k] = "ready"]
            /\ Opened(c, TRUE)
            /\ Move(th[c].s, "ready") \/ session' = session
            /\ th[c].s \in Ids /\ th[c].k \in Kinds
        BY <1>1, <1>6, <2>2 DEF Register, Registrable, Placed, At, OnSlot
      <3>2. EmptiedKept
        BY <3>1 DEF EmptiedKept, Emptied, TypeInv, TypeOK
      <3> QED
        BY <3>1, <3>2, QuietSession, OpenedQuiet DEF States, Live
    <2> QED
      BY <2>1, <2>2
  <1>7. CASE Release(c)
    BY <1>7, QuietSlots, QuietSession, OpenedQuiet DEF Release, registry, runtimes
  <1>8. CASE Enter(c) \/ Fatal(c)
    BY <1>2, <1>3, <1>8, QuietSlots, QuietSession
       DEF Enter, Fatal, registry, runtimes, PCs, OnClose
  <1>9. CASE Answer(c)
    BY <1>1, <1>3, <1>9, QuietSlots, QuietSession, QuietThread
       DEF Answer, OnClose, Threadwork, registry, runtimes
  <1>10. CASE Project(c)
    <2>1. th[c].moves \in Moves /\ th[c].s \in Ids
      BY <1>1, <1>10 DEF Project, At, Placed, Threadwork, Moves
    <2>2. ClosedByClose
      BY <1>10, <2>1, MovesTail, QuietSession DEF Project, States, Live
    <2>3. InCloseFromClose
      BY <1>1, <1>3, <1>10, QuietThread DEF Project, At, OnClose, Threadwork
    <2> QED
      BY <1>10, <2>2, <2>3, QuietSlots DEF Project, runtimes
  <1>11. CASE FailRuntime(c)
    <2>1. th[c].s \in Ids /\ th[c].k \in Kinds
      BY <1>1, <1>11 DEF FailRuntime, At, Placed, OnSlot
    <2>2. EmptiedKept
      BY <1>11, <2>1 DEF FailRuntime, EmptiedKept, Emptied, TypeInv, TypeOK
    <2> QED
      BY <1>1, <1>11, <2>2, QuietSession, QuietThread
         DEF FailRuntime, OnClose, Threadwork, registry
  <1>12. CASE Terminate(c)
    BY <1>1, <1>12, QuietSlots, QuietSession, QuietThread
       DEF Terminate, OnClose, Threadwork, registry, runtimes
  <1>13. CASE Settle(c)
    <2>1. th[c].s \in Ids
      BY <1>1, <1>13 DEF Settle, At, Placed
    <2> QED
      BY <1>3, <1>13, <2>1, QuietSlots, QuietSession DEF Settle, registry, runtimes, States
  <1>14. CASE EndWorker(c)
    <2>1. \A d \in Threads : th'[d].pc = th[d].pc /\ th'[d].s = th[d].s
      BY <1>14 DEF EndWorker, Does, TypeInv, TypeOK, Threadwork
    <2> QED
      BY <1>14, <2>1, QuietSlots, QuietSession
         DEF EndWorker, InCloseFromClose, registry, runtimes
  <1>15. ASSUME NEW to, CloseEnds(c, to), th[c].pc \in OnClose
         PROVE  InCloseFromClose
    <2>1. \/ Does(c, Idle)
          \/ \E l : Does(c, [th[c] EXCEPT !.pc = l])
      BY <1>15 DEF CloseEnds
    <2>2. \A d \in Threads \ {c} : th'[d] = th[d]
      BY <2>1 DEF Does, TypeInv, TypeOK
    <2>3. th'[c].pc = "idle" \/ th'[c].s = th[c].s
      BY <1>1, <2>1 DEF Does, TypeInv, TypeOK, Threadwork, Idle
    <2> QED
      BY <1>15, <2>2, <2>3 DEF InCloseFromClose, OnClose
  <1>16. CASE EndClose(c)
    BY <1>15, <1>16, QuietSlots, QuietSession DEF EndClose, At, OnClose, runtimes
  <1>17. CASE CloseFails(c)
    <2>1. th[c].s \in Ids
      BY <1>1, <1>17 DEF CloseFails, At, Placed
    <2> QED
      BY <1>15, <1>17, <2>1, QuietSlots, QuietSession
         DEF CloseFails, CloseMoves, At, OnClose, runtimes, States
  <1>18. CASE CloseDone(c)
    <2>1. th[c].s \in Ids /\ th[c].pc = "closing"
      BY <1>1, <1>18 DEF CloseDone, At, Placed
    <2>2. ClosedByClose
      BY <1>18, <2>1, MoveEffect DEF CloseDone, CloseMoves, ClosedByClose, TypeInv, States
    <2> QED
      BY <1>15, <1>18, <2>1, <2>2, QuietSlots DEF CloseDone, CloseMoves, OnClose, runtimes
  <1>19. CASE RecoverNext(c)
    <2>1. PICK t : Does(c, t) /\ \E k, w :
             LET me == [th[c] EXCEPT !.k = k, !.kinds = @ \ {k}] IN
             \/ t = [me EXCEPT !.pc = "open"]
             \/ t = me
             \/ t = [me EXCEPT !.pc = "discard", !.seen = w]
      BY <1>19 DEF RecoverNext
    <2>2. t.pc \notin OnClose
      BY <1>1, <1>19, <2>1 DEF RecoverNext, At, Threadwork, OnClose
    <2>3. InCloseFromClose
      BY <2>1, <2>2, QuietThread
    <2> QED
      BY <1>19, <2>3, QuietSlots, QuietSession DEF RecoverNext, registry, runtimes
  <1>20. CASE RecoverEnds(c)
    BY <1>3, <1>20, QuietSlots, QuietSession DEF RecoverEnds, registry, runtimes
  <1>21. CASE Replace(c)
    <2>1. ClosedByClose
      BY <1>21 DEF Replace, ClosedByClose, TypeInv, TypeOK
    <2>2. InCloseFromClose
      BY <1>3, <1>21, QuietThread DEF Replace, Idle, OnClose
    <2> QED
      BY <1>21, <2>1, <2>2, QuietSlots DEF Replace, runtimes
  <1>22. CASE Discard(c)
    <2>1. th[c].s \in Ids /\ th[c].k \in Kinds
      BY <1>1, <1>22 DEF Discard, At, Placed, OnSlot
    <2>2. item' = item \/ item' = [item EXCEPT ![th[c].s][th[c].k] = None]
      BY <1>22 DEF Discard
    <2>3. phase' = phase \/ phase' = [phase EXCEPT ![th[c].s][th[c].k] = "closed"]
      BY <1>22 DEF Discard
    <2>4. EmptiedKept
      <3>1. \A q \in Ids, k \in Kinds : item[q][k] = None => item'[q][k] = None
        <4>1. CASE item' = [item EXCEPT ![th[c].s][th[c].k] = None]
          BY <2>1, <4>1 DEF TypeInv, TypeOK
        <4> QED
          BY <2>2, <4>1
      <3>2. \A q \in Ids, k \in Kinds : phase[q][k] # "opening" => phase'[q][k] # "opening"
        <4>1. CASE phase' = [phase EXCEPT ![th[c].s][th[c].k] = "closed"]
          BY <2>1, <4>1 DEF TypeInv, TypeOK
        <4> QED
          BY <2>3, <4>1
      <3> QED
        BY <3>1, <3>2 DEF EmptiedKept, Emptied
    <2>5. InCloseFromClose
      BY <1>1, <1>22, QuietThread DEF Discard, OnClose, Threadwork
    <2> QED
      BY <1>22, <2>4, <2>5, QuietSession DEF Discard, registry
  <1>23. CASE Drop(c) \/ Detach(c)
    <2>1. InCloseFromClose
      BY <1>1, <1>2, <1>23, QuietThread DEF Drop, Detach, PCs, OnClose, Threadwork
    <2> QED
      BY <1>23, <2>1, QuietSlots, QuietSession DEF Drop, Detach, registry, runtimes
  <1>24. CASE Reopen(c)
    BY <1>1, <1>24, OpenClaimQuiet DEF Reopen, At, Placed, OnSlot
  <1> QED
    BY <1>4, <1>5, <1>6, <1>7, <1>8, <1>9, <1>10, <1>11, <1>12, <1>13, <1>14, <1>16, <1>17,
       <1>18, <1>19, <1>20, <1>21, <1>22, <1>23, <1>24 DEF Continue

LEMMA CloseStep ==
    ASSUME TypeInv, CloseInv, [Next]_vars
    PROVE  CloseInv'
  <1>1. TypeInv' /\ OverKept
    BY TypeStep, OverStep
  <1>2. Idle \in Threadwork
    BY IdleFine DEF Fine
  <1>3. ASSUME NEW c \in Threads, Begin(c)
        PROVE  CloseInv'
    <2>1. ASSUME NEW s \in Ids, NEW k \in Kinds, Open(c, s, k)
          PROVE  CloseInv'
      BY <1>1, <1>2, <2>1, OpenClaimQuiet, CloseKept DEF Open
    <2>2. ASSUME NEW s \in Ids, NEW k \in Kinds, Call(c, s, k)
          PROVE  CloseInv'
      <3>1. InCloseFromClose
        BY <2>2, QuietThread DEF Call, Idle, OnClose
      <3> QED
        BY <1>1, <2>2, <3>1, QuietSlots, QuietSession, CloseKept DEF Call, registry, runtimes
    <2>3. ASSUME NEW s \in Ids, Close(c, s)
          PROVE  CloseInv'
      BY <1>1, <1>2, <2>3, CloseClaimEmpties, CloseKept DEF Close
    <2>4. ASSUME NEW s \in Ids, Recover(c, s)
          PROVE  CloseInv'
      <3>1. Lost(s) \in SUBSET Kinds
        BY DEF Lost, TypeInv, TypeOK
      <3>2. PICK K \in SUBSET Kinds :
               \/ CloseClaim(c, s, [Idle EXCEPT !.s = s, !.rec = "new", !.kinds = K])
               \/ /\ Does(c, [Idle EXCEPT !.pc = "recover", !.s = s,
                                          !.rec = "same", !.kinds = K])
                  /\ UNCHANGED <<registry, runtimes, processes>>
        BY <2>4, <3>1 DEF Recover
      <3> DEFINE me == [Idle EXCEPT !.s = s, !.rec = "new", !.kinds = K]
      <3>3. me \in Threadwork
        BY DEF Idle, Threadwork, PCs, Reopening
      <3>4. CASE CloseClaim(c, s, me)
        <4> HIDE DEF me
        <4> QED
          BY <1>1, <3>3, <3>4, CloseClaimEmpties, CloseKept
      <3>5. CASE ~CloseClaim(c, s, me)
        <4>1. InCloseFromClose
          BY <3>2, <3>5, QuietThread DEF Idle, OnClose
        <4> QED
          BY <1>1, <3>2, <3>5, <4>1, QuietSlots, QuietSession, CloseKept DEF registry, runtimes
      <3> QED
        BY <3>4, <3>5
    <2> QED
      BY <1>3, <2>1, <2>2, <2>3, <2>4 DEF Begin
  <1>4. ASSUME NEW c \in Threads, Continue(c)
        PROVE  CloseInv'
    BY <1>1, <1>4, ContinueClose, CloseKept
  <1>5. ASSUME NEW s \in Ids, Create(s)
        PROVE  CloseInv'
    BY <1>1, <1>5, QuietSlots, CloseKept
       DEF Create, ClosedByClose, InCloseFromClose, TypeInv, TypeOK, runtimes
  <1>6. CASE UNCHANGED vars \/ \E w \in Workers : Crash(w)
    BY <1>6 DEF vars, Crash, registry, runtimes, CloseInv, Emptied
  <1> QED
    BY <1>3, <1>4, <1>5, <1>6 DEF Next

LEMMA CloseInit == Init => CloseInv
  BY DEF Init, CloseInv, Idle, OnClose

(* Nothing that is being opened, called or recovered when its session is    *)
(* closed leaves a runtime in it (_close_session, begin_open, put).         *)
THEOREM ClosedStaysEmpty == Spec => []ClosedIsEmpty
  <1>1. TypeInv /\ CloseInv /\ [Next]_vars => TypeInv' /\ CloseInv'
    BY TypeStep, CloseStep
  <1>2. CloseInv => ClosedIsEmpty
    BY DEF CloseInv, Emptied, ClosedIsEmpty
  <1> QED
    BY TypeInit, CloseInit, <1>1, <1>2, PTL DEF Spec

-----------------------------------------------------------------------------
(***************************************************************************)
(* Ownership: no worker is lost, a slot has one opener, and no session     *)
(* stays in a passing state.  Effects says once what a step of a thread    *)
(* may do to the slots, the sessions and the workers; the parts of the     *)
(* invariant are then kept by any step with these effects.  Only the claim *)
(* of a slot (OpenClaim) and the creation of a session do more.            *)
(***************************************************************************)

(* The other threads do nothing, and claims once taken back stay so        *)
OthersStay(c) == /\ \A d \in Threads \ {c} : th'[d] = th[d]
                 /\ revoked \subseteq revoked'

(* The thread opens no slot it did not open before                         *)
NoNewOpener(c) == Opens(c)' =>
    /\ Opens(c)
    /\ th'[c].s = th[c].s /\ th'[c].k = th[c].k /\ th'[c].first = th[c].first

(* A slot stays as it is; is emptied, which an opener of it learns from its *)
(* session or from revoked; or is left by the thread that opened it.        *)
SlotStep(c, s, k) ==
    \/ item'[s][k] = item[s][k] /\ phase'[s][k] = phase[s][k]
    \/ /\ item'[s][k] = None /\ phase'[s][k] # "opening"
       /\ phase[s][k] = "opening" => <<s, k>> \in revoked' \/ session'[s] \in Over
    \/ /\ Opens(c) /\ Slot(c) = <<s, k>> /\ ~Opens(c)' /\ phase'[s][k] # "opening"
       /\ phase[s][k] # "opening" => item'[s][k] = None

(* A session stays as it is or ends; is reported on; is created; or has     *)
(* been opened by its first opener.                                         *)
SessionStep(c, q) ==
    \/ session'[q] = session[q]
    \/ session'[q] \in {"failed", "closed", "gone"}
    \/ session'[q] = "closing" /\ th'[c].pc \in OnClose /\ th'[c].s = q
    \/ session[q] \in Live \cup Over /\ session'[q] \in Live
    \/ session[q] = "new" /\ session'[q] = "created"
    \/ OpensAs(c, q) /\ ~Opens(c)' /\ session[q] = "opening" /\ session'[q] \in {"created", "ready"}

(* A thread that leaves an open or a close takes the slot and the session   *)
(* out of their passing states.                                             *)
LeavesNone(c) ==
    /\ Opens(c) /\ ~Opens(c)' => phase'[th[c].s][th[c].k] # "opening"
    /\ Opens(c) /\ th[c].first /\ ~Opens(c)' => session'[th[c].s] # "opening"
    /\ th[c].pc \in OnClose => \/ th'[c].pc \in OnClose /\ th'[c].s = th[c].s
                               \/ session'[th[c].s] # "closing"

(* What a report will change is decided while the session is open.          *)
ReportsOpen(c) == th'[c].pc = "project" /\ th'[c].moves # <<>> =>
    \/ th[c].pc = "project" /\ th[c].moves # <<>> /\ th'[c].s = th[c].s
    \/ session[th'[c].s] \in Live

(* Workers are handed on, or ended.                                         *)
Hands(c) ==
    /\ home' = home
    /\ \A w \in Workers : worker'[w] \in {worker[w], "ended"}
    /\ \A s \in Ids, k \in Kinds : item[s][k] # None =>
          \/ item'[s][k] = item[s][k] \/ th'[c].hand = item[s][k]
          \/ item[s][k] \in th'[c].mine \/ <<s, k>> \in revoked'
    /\ \A w \in Workers : th[c].hand = w \/ w \in th[c].mine =>
          \/ th'[c].hand = w \/ w \in th'[c].mine \/ worker'[w] = "ended"
          \/ \E s \in Ids, k \in Kinds : item'[s][k] = w
    /\ \A s \in Ids, k \in Kinds : item'[s][k] # None =>
          \/ item'[s][k] = item[s][k]
          \/ th[c].pc = "register" /\ Slot(c) = <<s, k>> /\ item'[s][k] = th[c].hand

(* What OwnerInv says of one thread                                         *)
HandOK(t) ==
    /\ t.hand # None => t.pc \in {"register", "release", "terminate", "drop"}
    /\ t.mine # {} => t.pc = "ending"
    /\ t.pc = "register" => t.hand \in Workers /\ home[t.hand] = <<t.s, t.k>>

OnSessions(c) ==
    /\ OthersStay(c) /\ NoNewOpener(c) /\ LeavesNone(c) /\ ReportsOpen(c)
    /\ \A s \in Ids, k \in Kinds : SlotStep(c, s, k)
    /\ \A q \in Ids : SessionStep(c, q)

Effects(c) == /\ OnSessions(c) /\ Hands(c)
              /\ HandOK(th[c]) => HandOK(th'[c])

-----------------------------------------------------------------------------
(* The parts of the invariant under such a step *)

LEMMA OpenerKept ==
    ASSUME TypeInv, TypeInv', OpenerInv, OverKept, NEW c \in Threads, OnSessions(c)
    PROVE  OpenerInv'
  <1>1. ASSUME NEW d \in Threads, Opens(d)', NEW s \in Ids, NEW k \in Kinds,
               th'[d].s = s, th'[d].k = k, <<s, k>> \notin revoked'
        PROVE  /\ item'[s][k] = None
               /\ \/ /\ phase'[s][k] = "opening"
                     /\ \A e \in Threads \ {d} : Opens(e)' => ~(th'[e].s = s /\ th'[e].k = k)
                  \/ phase'[s][k] # "opening" /\ session'[s] \in Over
    <2>1. Opens(d) /\ th[d].s = s /\ th[d].k = k /\ <<s, k>> \notin revoked
      BY <1>1 DEF OnSessions, OthersStay, NoNewOpener, Opens
    <2>2. /\ item[s][k] = None
          /\ \/ /\ phase[s][k] = "opening"
                /\ \A e \in Threads \ {d} : Opens(e) => Slot(e) # <<s, k>>
             \/ phase[s][k] # "opening" /\ session[s] \in Over
      BY <2>1 DEF OpenerInv, Slot
    <2>3. SlotStep(c, s, k)
      BY DEF OnSessions
    <2>4. \A e \in Threads : Opens(e)' /\ th'[e].s = s /\ th'[e].k = k =>
             Opens(e) /\ Slot(e) = <<s, k>>
      BY DEF OnSessions, OthersStay, NoNewOpener, Opens, Slot
    <2>5. CASE phase[s][k] = "opening" /\ \A e \in Threads \ {d} : Opens(e) => Slot(e) # <<s, k>>
      <3>1. ~(Opens(c) /\ Slot(c) = <<s, k>> /\ ~Opens(c)')
        BY <1>1, <2>5
      <3> QED
        BY <1>1, <2>2, <2>3, <2>4, <2>5, <3>1 DEF SlotStep
    <2>6. CASE phase[s][k] # "opening" /\ session[s] \in Over
      BY <2>2, <2>3, <2>6 DEF SlotStep, OverKept
    <2> QED
      BY <2>2, <2>5, <2>6
  <1>2. \A d \in Threads : Opens(d)' => th'[d].s \in Ids /\ th'[d].k \in Kinds
    BY DEF Opens, TypeInv, PlaceInv, Placed, OnSlot
  <1> QED
    BY <1>1, <1>2 DEF OpenerInv, Slot, Opens

LEMMA FirstKept ==
    ASSUME TypeInv, TypeInv', FirstInv, OverKept, NEW c \in Threads, OnSessions(c)
    PROVE  FirstInv'
  <1> USE DEF OnSessions
  <1>1. \A d \in Threads : Opens(d)' => /\ Opens(d) /\ th'[d].s = th[d].s
                                        /\ th'[d].k = th[d].k /\ th'[d].first = th[d].first
    BY DEF OthersStay, NoNewOpener, Opens
  <1>2. \A d \in Threads : Opens(d)' => th'[d].s \in Ids
    BY DEF Opens, TypeInv, PlaceInv, Placed
  <1>3. \A d \in Threads : th'[d].pc = "project" => th'[d].s \in Ids
    BY DEF TypeInv, PlaceInv, Placed
  <1>4. \A q \in Ids : session'[q] = "opening" => session[q] = "opening"
    BY DEF SessionStep, Live
  <1>5. ASSUME NEW d \in Threads, th'[d].pc = "project", th'[d].moves # <<>>
        PROVE  session'[th'[d].s] \in Live \cup Over
    <2>1. session[th'[d].s] \in Live \cup Over
      BY <1>5 DEF FirstInv, ReportsOpen, OthersStay
    <2> QED
      BY <1>3, <1>5, <2>1 DEF SessionStep, OverKept, Live, Over
  <1>6. ASSUME NEW d \in Threads, Opens(d)', th'[d].first
        PROVE  session'[th'[d].s] \in {"opening"} \cup Over
    <2>1. session[th'[d].s] \in {"opening"} \cup Over /\ OpensAs(d, th'[d].s)
      BY <1>1, <1>6 DEF FirstInv, OpensAs
    <2>2. CASE session[th'[d].s] \in Over
      BY <1>2, <1>6, <2>2 DEF OverKept
    <2>3. CASE session[th'[d].s] = "opening"
      <3>1. OpensAs(c, th'[d].s) => c = d
        BY <1>2, <1>6, <2>1, <2>3 DEF FirstInv
      <3> QED
        BY <1>2, <1>6, <2>3, <3>1 DEF SessionStep, Live, Over
    <2> QED
      BY <2>1, <2>2, <2>3
  <1>7. ASSUME NEW d \in Threads, NEW e \in Threads, NEW s \in Ids,
               OpensAs(d, s)', OpensAs(e, s)', session'[s] = "opening"
        PROVE  d = e
    BY <1>1, <1>4, <1>7 DEF FirstInv, OpensAs
  <1>8. ASSUME NEW s \in Ids, NEW k \in Kinds, phase'[s][k] = "opening"
        PROVE  /\ session'[s] \notin {"new", "created"}
               /\ session'[s] = "opening" =>
                     \E d \in Threads : OpensAs(d, s)' /\ th'[d].k = k
    <2>1. phase[s][k] = "opening" /\ ~(Opens(c) /\ Slot(c) = <<s, k>> /\ ~Opens(c)')
      BY <1>8 DEF SlotStep, LeavesNone, Slot
    <2>2. session[s] \notin {"new", "created"}
      BY <2>1 DEF FirstInv
    <2>3. ASSUME session[s] = "opening"
          PROVE  \E d \in Threads : OpensAs(d, s) /\ th[d].k = k
      BY <2>1, <2>3 DEF FirstInv
    <2>4. ASSUME NEW d \in Threads, OpensAs(d, s), th[d].k = k
          PROVE  OpensAs(d, s)' /\ th'[d].k = k
      BY <2>1, <2>4 DEF OpensAs, Opens, Slot, OthersStay, NoNewOpener
    <2>5. session'[s] \notin {"new", "created"}
      <3>1. SessionStep(c, s)
        OBVIOUS
      <3>2. CASE OpensAs(c, s) /\ ~Opens(c)' /\ session[s] = "opening"
        BY <2>3, <2>4, <3>2 DEF FirstInv, OpensAs
      <3> QED
        BY <2>2, <3>1, <3>2 DEF SessionStep, Live
    <2> QED
      BY <1>4, <2>3, <2>4, <2>5
  <1> QED
    BY <1>5, <1>6, <1>7, <1>8 DEF FirstInv, OpensAs, Opens

LEMMA PassingKept ==
    ASSUME TypeInv, PassingStatesPass, NEW c \in Threads, OnSessions(c)
    PROVE  PassingStatesPass'
  <1> USE DEF OnSessions
  <1>1. ASSUME NEW s \in Ids, session'[s] = "opening"
        PROVE  \E d \in Threads : /\ th'[d].s = s /\ th'[d].first
                                  /\ th'[d].pc \in {"launch", "register"}
    <2>1. session[s] = "opening"
      BY <1>1 DEF SessionStep, Live
    <2>2. PICK d \in Threads : OpensAs(d, s)
      BY <2>1 DEF PassingStatesPass, OpensAs, Opens
    <2>3. OpensAs(d, s)'
      BY <1>1, <2>2 DEF OpensAs, Opens, OthersStay, NoNewOpener, LeavesNone
    <2> QED
      BY <2>3 DEF OpensAs, Opens
  <1>2. ASSUME NEW s \in Ids, session'[s] = "closing"
        PROVE  \E d \in Threads : th'[d].s = s /\ th'[d].pc \in OnClose
    <2>1. CASE session[s] = "closing"
      <3>1. PICK d \in Threads : th[d].s = s /\ th[d].pc \in OnClose
        BY <2>1 DEF PassingStatesPass, OnClose
      <3> QED
        BY <1>2, <3>1 DEF OthersStay, LeavesNone
    <2>2. CASE session[s] # "closing"
      BY <1>2, <2>2 DEF SessionStep, Live
    <2> QED
      BY <2>1, <2>2
  <1> QED
    BY <1>1, <1>2 DEF PassingStatesPass, OnClose

LEMMA OwnerKept ==
    ASSUME TypeInv, OwnerInv, NEW c \in Threads, Effects(c)
    PROVE  OwnerInv'
  <1> USE DEF Effects, OnSessions
  <1>1. \A d \in Threads : HandOK(th[d])
    BY DEF OwnerInv, HandOK, Slot
  <1>2. \A d \in Threads : HandOK(th'[d])
    BY <1>1 DEF OthersStay
  <1>3. \A s \in Ids, k \in Kinds : item'[s][k] # None => home[item'[s][k]] = <<s, k>>
    <2> SUFFICES ASSUME NEW s \in Ids, NEW k \in Kinds, item'[s][k] # None
                 PROVE  home[item'[s][k]] = <<s, k>>
      OBVIOUS
    <2>1. CASE item'[s][k] = item[s][k]
      BY <2>1, SMTT(60) DEF Hands, OwnerInv
    <2>2. CASE th[c].pc = "register" /\ Slot(c) = <<s, k>> /\ item'[s][k] = th[c].hand
      BY <2>2 DEF Hands, OwnerInv
    <2> QED
      BY <2>1, <2>2 DEF Hands
  <1>4. ASSUME NEW w \in Workers, worker'[w] \in {"alive", "dead"}
        PROVE  \/ \E s \in Ids, k \in Kinds : item'[s][k] = w
               \/ \E d \in Threads : th'[d].hand = w \/ w \in th'[d].mine
               \/ home[w] \in revoked'
    <2>1. worker[w] \in {"alive", "dead"}
      BY <1>4 DEF Hands
    <2>2. ASSUME NEW s \in Ids, NEW k \in Kinds, item[s][k] = w
          PROVE  \/ item'[s][k] = w \/ th'[c].hand = w \/ w \in th'[c].mine
                 \/ home[w] \in revoked'
      <3>1. item[s][k] # None /\ home[w] = <<s, k>>
        BY <2>2, ConstantsAssumption DEF OwnerInv
      <3> QED
        BY <2>2, <3>1 DEF Hands
    <2>3. ASSUME NEW d \in Threads, th[d].hand = w \/ w \in th[d].mine
          PROVE  \/ th'[d].hand = w \/ w \in th'[d].mine
                 \/ \E s \in Ids, k \in Kinds : item'[s][k] = w
      BY <1>4, <2>3 DEF Hands, OthersStay
    <2>4. home[w] \in revoked => home[w] \in revoked'
      BY DEF OthersStay
    <2> QED
      BY <2>1, <2>2, <2>3, <2>4 DEF OwnerInv, WorkersOwned
  <1>5. home' = home
    BY DEF Hands
  <1>6. \A w \in Workers : worker'[w] = "free" => worker[w] = "free"
    BY DEF Hands
  <1> QED
    BY <1>2, <1>3, <1>4, <1>5, <1>6 DEF OwnerInv, WorkersOwned, HandOK, Slot

-----------------------------------------------------------------------------
(* Every step of a thread that claims no slot has these effects. *)

LEMMA ThisThreadOf ==
    ASSUME TypeInv, NEW c \in Threads, NEW t, Does(c, t), revoked \subseteq revoked'
    PROVE  th'[c] = t /\ OthersStay(c)
  BY DEF Does, OthersStay, TypeInv, TypeOK

LEMMA SameSlots ==
    ASSUME item' = item, phase' = phase, NEW c
    PROVE  \A s \in Ids, k \in Kinds : SlotStep(c, s, k)
  BY DEF SlotStep

LEMMA SameSessions ==
    ASSUME session' = session, NEW c
    PROVE  \A q \in Ids : SessionStep(c, q)
  BY DEF SessionStep

LEMMA EndedSessions ==
    ASSUME TypeInv, NEW c, NEW s \in Ids, NEW t \in {"failed", "closed"},
           Move(s, t) \/ MoveIfAllowed(s, t)
    PROVE  \A q \in Ids : SessionStep(c, q)
  BY MoveEffect DEF MoveIfAllowed, SessionStep, TypeInv, States

(* A thread that neither opens nor closes, and leaves slots and sessions    *)
LEMMA QuietEffects ==
    ASSUME TypeInv, NEW c \in Threads, NEW t, Does(c, t),
           session' = session, item' = item, phase' = phase, home' = home,
           revoked' = revoked, worker' = worker,
           t.pc \notin {"launch", "register"},
           t.pc = "project" /\ t.moves # <<>> => session[t.s] \in Live,
           th[c].pc \notin {"launch", "register"} \cup OnClose,
           t.mine = th[c].mine, t.hand = th[c].hand,
           HandOK(th[c]) => HandOK(t)
    PROVE  Effects(c)
  <1>1. th'[c] = t /\ OthersStay(c)
    BY ThisThreadOf
  <1>2. NoNewOpener(c) /\ LeavesNone(c)
    BY <1>1 DEF NoNewOpener, LeavesNone, Opens
  <1>4. ReportsOpen(c)
    BY <1>1 DEF ReportsOpen
  <1>3. Hands(c)
    BY <1>1 DEF Hands
  <1> QED
    BY <1>1, <1>2, <1>3, <1>4, SameSlots, SameSessions DEF Effects, OnSessions

(* ... or ends the worker it holds *)
LEMMA EndingEffects ==
    ASSUME TypeInv, NEW c \in Threads, NEW t, Does(c, t),
           session' = session, item' = item, phase' = phase, home' = home,
           revoked' = revoked,
           t.pc \notin {"launch", "register", "project"},
           th[c].pc \notin {"launch", "register"} \cup OnClose,
           HandOK(th[c]) => th[c].mine = {}, HandOK(th[c]) => HandOK(t),
           IF th[c].hand = None THEN worker' = worker ELSE worker' = Ended(th[c].hand)
    PROVE  Effects(c) \/ ~HandOK(th[c])
  <1> SUFFICES ASSUME HandOK(th[c]) PROVE Effects(c)
    OBVIOUS
  <1>1. th'[c] = t /\ OthersStay(c)
    BY ThisThreadOf
  <1>2. NoNewOpener(c) /\ LeavesNone(c) /\ ReportsOpen(c)
    BY <1>1 DEF NoNewOpener, LeavesNone, ReportsOpen, Opens
  <1>3. Hands(c)
    BY <1>1, ConstantsAssumption DEF Hands, Ended, TypeInv, TypeOK
  <1> QED
    BY <1>1, <1>2, <1>3, SameSlots, SameSessions DEF Effects, OnSessions

LEMMA FailureEffects ==
    ASSUME TypeInv, NEW c \in Threads, HandOK(th[c]),
           FailRuntime(c) \/ Terminate(c) \/ Settle(c)
    PROVE  Effects(c)
  <1>1. th[c] \in Threadwork /\ Placed(th[c])
    BY DEF TypeInv, TypeOK, PlaceInv
  <1>2. th[c].s \in Ids /\ th[c].k \in Kinds
    BY <1>1 DEF Placed, OnSlot, FailRuntime, Terminate, Settle, At
  <1>3. CASE FailRuntime(c)
    <2> DEFINE t == [th[c] EXCEPT !.pc = "terminate", !.hand = item[th[c].s][th[c].k]]
    <2>1. revoked \subseteq revoked' /\ (phase[th[c].s][th[c].k] = "opening" => Slot(c) \in revoked')
      BY <1>3 DEF FailRuntime, Revoke
    <2>2. th'[c] = t /\ OthersStay(c)
      BY <1>3, <2>1, ThisThreadOf DEF FailRuntime
    <2>3. /\ t.pc = "terminate" /\ t.hand = item[th[c].s][th[c].k] /\ t.mine = th[c].mine
          /\ th[c].pc = "accuse" /\ th[c].hand = None /\ th[c].mine = {}
      BY <1>1, <1>3 DEF FailRuntime, At, Threadwork, HandOK
    <2>4. NoNewOpener(c) /\ LeavesNone(c) /\ ReportsOpen(c) /\ HandOK(th'[c])
      BY <2>2, <2>3 DEF NoNewOpener, LeavesNone, ReportsOpen, HandOK, Opens, OnClose
    <2>5. \A s \in Ids, k \in Kinds :
             IF s = th[c].s /\ k = th[c].k
             THEN item'[s][k] = None /\ phase'[s][k] = "failed"
             ELSE item'[s][k] = item[s][k] /\ phase'[s][k] = phase[s][k]
      BY <1>2, <1>3 DEF FailRuntime, TypeInv, TypeOK
    <2>6. \A s \in Ids, k \in Kinds : SlotStep(c, s, k)
      BY <2>1, <2>5 DEF SlotStep, Slot
    <2>7. home' = home /\ worker' = worker /\ session' = session
      BY <1>3 DEF FailRuntime, processes, registry
    <2>8. Hands(c)
      BY <2>2, <2>3, <2>5, <2>7, ConstantsAssumption DEF Hands
    <2> QED
      BY <2>2, <2>4, <2>6, <2>7, <2>8, SameSessions DEF Effects, OnSessions
  <1>4. CASE Terminate(c)
    <2> DEFINE t == [th[c] EXCEPT !.pc = "settle", !.hand = None, !.seen = None]
    <2>1. /\ t.pc = "settle" /\ t.hand = None /\ t.mine = th[c].mine
          /\ th[c].pc = "terminate" /\ th[c].mine = {}
      BY <1>1, <1>4 DEF Terminate, At, Threadwork, HandOK
    <2>2. HandOK(t)
      BY <2>1 DEF HandOK
    <2> HIDE DEF t
    <2> QED
      BY <1>4, <2>1, <2>2, EndingEffects DEF Terminate, registry, runtimes, OnClose, t
  <1>5. CASE Settle(c)
    <2>1. th'[c] = Idle /\ OthersStay(c)
      BY <1>5, ThisThreadOf DEF Settle, Stop, runtimes
    <2>2. th[c].pc = "settle" /\ th[c].hand = None /\ th[c].mine = {}
      BY <1>5 DEF Settle, At, HandOK
    <2>3. NoNewOpener(c) /\ LeavesNone(c) /\ ReportsOpen(c) /\ HandOK(th'[c])
      BY <2>1, <2>2 DEF NoNewOpener, LeavesNone, ReportsOpen, HandOK, Opens, OnClose, Idle
    <2>4. \A q \in Ids : SessionStep(c, q)
      BY <1>2, <1>5, EndedSessions, SameSessions DEF Settle, registry
    <2>5. Hands(c)
      BY <1>5, <2>1, <2>2, ConstantsAssumption DEF Hands, Settle, runtimes, processes
    <2>6. item' = item /\ phase' = phase
      BY <1>5 DEF Settle, runtimes
    <2> QED
      BY <2>1, <2>3, <2>4, <2>5, <2>6, SameSlots DEF Effects, OnSessions
  <1> QED
    BY <1>3, <1>4, <1>5

LEMMA OpenedIs ==
    ASSUME NEW c \in Threads, NEW ok, Opened(c, ok)
    PROVE  \E t : /\ Does(c, t) /\ t.pc \in {"idle", "recover"}
                  /\ t.hand = None /\ t.mine = {} /\ HandOK(t)
  <1> DEFINE next == [Idle EXCEPT !.pc = "recover", !.s = th[c].s, !.rec = th[c].rec,
                                  !.kinds = IF th[c].rec = "new" /\ ~ok
                                            THEN {} ELSE th[c].kinds]
  <1>1. /\ Idle.pc = "idle" /\ Idle.hand = None /\ Idle.mine = {}
        /\ next.pc = "recover" /\ next.hand = None /\ next.mine = {}
    BY DEF Idle
  <1>2. Does(c, Idle) \/ Does(c, next)
    BY DEF Opened, Stop
  <1>3. HandOK(Idle) /\ HandOK(next)
    BY <1>1 DEF HandOK
  <1> HIDE DEF next
  <1> QED
    BY <1>1, <1>2, <1>3

(* An open that fails leaves its slot and its session. *)
LEMMA AbandonEffects ==
    ASSUME TypeInv, OpenerInv, NEW c \in Threads, HandOK(th[c]), Opens(c),
           NEW m \in BOOLEAN, Abandon(c, m),
           revoked' = revoked, home' = home, worker' = worker
    PROVE  Effects(c)
  <1> DEFINE t == [th[c] EXCEPT !.pc = "release"]
  <1>1. th[c] \in Threadwork /\ Placed(th[c])
    BY DEF TypeInv, TypeOK, PlaceInv
  <1>2. th[c].s \in Ids /\ th[c].k \in Kinds
    BY <1>1 DEF Placed, OnSlot, Opens
  <1>3. th'[c] = t /\ OthersStay(c)
    BY ThisThreadOf DEF Abandon, GoTo
  <1>4. /\ t.pc = "release" /\ t.hand = th[c].hand /\ t.mine = {} /\ th[c].mine = {}
        /\ t.s = th[c].s /\ th[c].pc \in {"launch", "register"}
    BY <1>1 DEF Threadwork, HandOK, Opens
  <1> HIDE DEF t
  <1>5. ~Opens(c)' /\ NoNewOpener(c) /\ ReportsOpen(c) /\ HandOK(th'[c])
    BY <1>3, <1>4 DEF NoNewOpener, ReportsOpen, HandOK, Opens
  <1>6. \A s \in Ids, k \in Kinds :
           IF s = th[c].s /\ k = th[c].k
           THEN item'[s][k] = None /\ phase'[s][k] = "failed"
           ELSE item'[s][k] = item[s][k] /\ phase'[s][k] = phase[s][k]
    BY <1>2 DEF Abandon, TypeInv, TypeOK
  <1>7. \A s \in Ids, k \in Kinds : SlotStep(c, s, k)
    BY <1>5, <1>6 DEF SlotStep, Slot
  <1>8. CASE ~th[c].first
    <2>1. session' = session
      BY <1>8 DEF Abandon
    <2>2. LeavesNone(c)
      BY <1>2, <1>4, <1>6, <1>8 DEF LeavesNone, OnClose
    <2> QED
      BY <1>2, <1>3, <1>4, <1>5, <1>6, <1>7, <2>1, <2>2, SameSessions, ConstantsAssumption
         DEF Effects, OnSessions, Hands, OpenerInv, Slot
  <1>9. CASE th[c].first
    <2> DEFINE to == IF m THEN "created" ELSE "failed"
    <2>1. MoveIfAllowed(th[c].s, to) /\ to \in States
      BY <1>9 DEF Abandon, States
    <2>2. CASE ~CanMove(th[c].s, to)
      <3>1. session' = session /\ session[th[c].s] # "opening"
        BY <2>1, <2>2 DEF MoveIfAllowed, CanMove, Held, Allowed, States
      <3>2. LeavesNone(c)
        BY <1>2, <1>4, <1>6, <3>1 DEF LeavesNone, OnClose
      <3> QED
        BY <1>2, <1>3, <1>4, <1>5, <1>6, <1>7, <3>1, <3>2, SameSessions, ConstantsAssumption
           DEF Effects, OnSessions, Hands, OpenerInv, Slot
    <2>3. CASE CanMove(th[c].s, to)
      <3>1. Move(th[c].s, to)
        BY <2>1, <2>3 DEF MoveIfAllowed
      <3>2. /\ session'[th[c].s] \in {to, "gone"}
            /\ \A q \in Ids \ {th[c].s} : session'[q] \in {session[q], "gone"}
        BY <1>2, <2>1, <3>1, MoveEffect DEF TypeInv
      <3>3. to = "created" => session[th[c].s] \in {"created", "opening"}
        BY <1>2, <2>3 DEF CanMove, Held, Allowed, States, Live, TypeInv, TypeOK
      <3>4. \A q \in Ids : SessionStep(c, q)
        BY <1>4, <1>5, <1>9, <3>2, <3>3 DEF SessionStep, OpensAs, Opens
      <3>5. LeavesNone(c)
        BY <1>2, <1>4, <1>6, <3>2 DEF LeavesNone, OnClose
      <3> QED
        BY <1>2, <1>3, <1>4, <1>5, <1>6, <1>7, <3>4, <3>5, ConstantsAssumption
           DEF Effects, OnSessions, Hands, OpenerInv, Slot
    <2> QED
      BY <2>2, <2>3
  <1> QED
    BY <1>8, <1>9

LEMMA RegisterEffects ==
    ASSUME TypeInv, OpenerInv, FirstInv, NEW c \in Threads, HandOK(th[c]), Register(c)
    PROVE  Effects(c)
  <1>1. th[c] \in Threadwork /\ Placed(th[c])
    BY DEF TypeInv, TypeOK, PlaceInv
  <1>2. /\ th[c].s \in Ids /\ th[c].k \in Kinds /\ Opens(c)
        /\ th[c].mine = {} /\ th[c].hand \in Workers /\ th[c].pc = "register"
    BY <1>1 DEF Placed, OnSlot, Opens, Register, At, HandOK
  <1>3. revoked' = revoked /\ home' = home /\ worker' = worker
    BY DEF Register, processes
  <1>4. CASE Abandon(c, FALSE)
    BY <1>2, <1>3, <1>4, AbandonEffects
  <1>5. CASE ~Abandon(c, FALSE)
    <2>1. /\ Registrable(c) /\ (th[c].first => CanMove(th[c].s, "ready"))
          /\ item' = [item EXCEPT ![th[c].s][th[c].k] = th[c].hand]
          /\ phase' = [phase EXCEPT ![th[c].s][th[c].k] = "ready"]
          /\ IF th[c].first THEN Move(th[c].s, "ready") ELSE session' = session
          /\ Opened(c, TRUE)
      BY <1>5 DEF Register
    <2>2. PICK t : /\ Does(c, t) /\ t.pc \in {"idle", "recover"}
                   /\ t.hand = None /\ t.mine = {} /\ HandOK(t)
      BY <2>1, OpenedIs
    <2>3. th'[c] = t /\ OthersStay(c)
      BY <1>3, <2>2, ThisThreadOf
    <2>4. ~Opens(c)' /\ NoNewOpener(c) /\ ReportsOpen(c) /\ HandOK(th'[c])
      BY <2>2, <2>3 DEF NoNewOpener, ReportsOpen, Opens
    <2>5. \A s \in Ids, k \in Kinds :
             IF s = th[c].s /\ k = th[c].k
             THEN /\ item'[s][k] = th[c].hand /\ phase'[s][k] = "ready"
                  /\ item[s][k] = None /\ phase[s][k] = "opening"
             ELSE item'[s][k] = item[s][k] /\ phase'[s][k] = phase[s][k]
      BY <1>2, <2>1 DEF Registrable, TypeInv, TypeOK
    <2>6. \A s \in Ids, k \in Kinds : SlotStep(c, s, k)
      BY <1>2, <2>4, <2>5 DEF SlotStep, Slot
    <2>7. /\ \A q \in Ids : SessionStep(c, q)
          /\ th[c].first => session'[th[c].s] # "opening"
      <3>1. CASE ~th[c].first
        BY <2>1, <3>1, SameSessions
      <3>2. CASE th[c].first
        <4>1. session[th[c].s] = "opening"
          BY <1>2, <2>1, <3>2 DEF FirstInv, Over, CanMove, Held, Allowed, States, Live
        <4>2. /\ session'[th[c].s] \in {"ready", "gone"}
              /\ \A q \in Ids \ {th[c].s} : session'[q] \in {session[q], "gone"}
          BY <1>2, <2>1, <3>2, MoveEffect DEF States, Live, TypeInv
        <4> QED
          BY <1>2, <2>4, <3>2, <4>1, <4>2 DEF SessionStep, OpensAs
      <3> QED
        BY <3>1, <3>2
    <2>8. LeavesNone(c)
      BY <1>2, <2>5, <2>7 DEF LeavesNone, OnClose
    <2>9. Hands(c)
      <3>1. \A w \in Workers : th[c].hand = w \/ w \in th[c].mine =>
               \E s \in Ids, k \in Kinds : item'[s][k] = w
        BY <1>2, <2>5
      <3> QED
        BY <1>2, <1>3, <2>5, <3>1, ConstantsAssumption DEF Hands, Slot
    <2> QED
      BY <2>3, <2>4, <2>6, <2>7, <2>8, <2>9 DEF Effects, OnSessions
  <1> QED
    BY <1>4, <1>5

(* The rest of an open, and a call *)
LEMMA CallEffects ==
    ASSUME TypeInv, OpenerInv, FirstInv, NEW c \in Threads, HandOK(th[c]),
           \/ LaunchFails(c) \/ LogFails(c) \/ Release(c)
           \/ Enter(c) \/ Answer(c) \/ Project(c) \/ Fatal(c)
    PROVE  Effects(c)
  <1>1. th[c] \in Threadwork /\ Placed(th[c])
    BY DEF TypeInv, TypeOK, PlaceInv
  <1>2. CASE LaunchFails(c) \/ LogFails(c)
    BY <1>2, AbandonEffects DEF LaunchFails, LogFails, At, Opens, processes
  <1>3. CASE Release(c)
    <2>1. PICK t : /\ Does(c, t) /\ t.pc \in {"idle", "recover"}
                   /\ t.hand = None /\ t.mine = {} /\ HandOK(t)
      BY <1>3, OpenedIs DEF Release
    <2>2. th[c].pc = "release" /\ th[c].mine = {}
      BY <1>3 DEF Release, At, HandOK
    <2>3. /\ session' = session /\ item' = item /\ phase' = phase /\ home' = home
          /\ revoked' = revoked
          /\ IF th[c].hand = None THEN worker' = worker ELSE worker' = Ended(th[c].hand)
      BY <1>3 DEF Release, registry, runtimes
    <2> QED
      BY <2>1, <2>2, <2>3, EndingEffects DEF OnClose
  <1>4. Idle.pc = "idle" /\ Idle.hand = None /\ Idle.mine = {} /\ HandOK(Idle)
    BY DEF Idle, HandOK
  <1>5. ASSUME NEW l \in {"request", "accuse"}
        PROVE  LET t == [th[c] EXCEPT !.pc = l] IN
               t.pc = l /\ t.hand = th[c].hand /\ t.mine = th[c].mine
    BY <1>1 DEF Threadwork
  <1>6. CASE Enter(c) \/ Fatal(c)
    <2>1. /\ th[c].pc \in {"enter", "request"} /\ th[c].hand = None /\ th[c].mine = {}
          /\ session' = session /\ item' = item /\ phase' = phase /\ home' = home
          /\ revoked' = revoked /\ worker' = worker
      BY <1>6 DEF Enter, Fatal, At, HandOK, registry, runtimes
    <2>2. PICK t : /\ Does(c, t) /\ t.pc \in {"idle", "request", "accuse"}
                   /\ t.hand = None /\ t.mine = {}
      BY <1>4, <1>5, <1>6, <2>1 DEF Enter, Fatal, GoTo, Stop
    <2>3. HandOK(t)
      BY <2>2 DEF HandOK
    <2> QED
      BY <2>1, <2>2, <2>3, QuietEffects DEF OnClose
  <1>7. CASE Answer(c)
    <2>1. /\ th[c].pc = "request" /\ th[c].hand = None /\ th[c].mine = {}
          /\ session' = session /\ item' = item /\ phase' = phase /\ home' = home
          /\ revoked' = revoked /\ worker' = worker
      BY <1>7 DEF Answer, At, HandOK, registry, runtimes
    <2>2. \A report : Projected(th[c].s, report) # <<>> => session[th[c].s] \in Live
      BY DEF Projected, Live
    <2>3. \A x : LET t == [th[c] EXCEPT !.pc = "project", !.moves = x] IN
             /\ t.pc = "project" /\ t.hand = th[c].hand /\ t.mine = th[c].mine
             /\ t.s = th[c].s /\ t.moves = x
      BY <1>1 DEF Threadwork
    <2>4. \/ Does(c, Idle)
          \/ \E report : Does(c, [th[c] EXCEPT !.pc = "project",
                                              !.moves = Projected(th[c].s, report)])
      BY <1>7 DEF Answer, Stop
    <2>5. PICK t : /\ Does(c, t) /\ t.pc \in {"idle", "project"}
                   /\ t.hand = None /\ t.mine = {}
                   /\ t.pc = "project" => (t.moves # <<>> => session[t.s] \in Live)
      <3>1. CASE Does(c, Idle)
        BY <1>4, <3>1
      <3>2. ASSUME NEW x, x # <<>> => session[th[c].s] \in Live,
                   Does(c, [th[c] EXCEPT !.pc = "project", !.moves = x])
            PROVE  \E t : /\ Does(c, t) /\ t.pc \in {"idle", "project"}
                          /\ t.hand = None /\ t.mine = {}
                          /\ t.pc = "project" => (t.moves # <<>> => session[t.s] \in Live)
        <4> DEFINE t == [th[c] EXCEPT !.pc = "project", !.moves = x]
        <4>1. /\ t.pc = "project" /\ t.hand = th[c].hand /\ t.mine = th[c].mine
              /\ t.s = th[c].s /\ t.moves = x /\ Does(c, t)
          BY <2>3, <3>2
        <4> HIDE DEF t
        <4> QED
          BY <2>1, <3>2, <4>1
      <3> QED
        BY <2>2, <2>4, <3>1, <3>2
    <2>6. HandOK(t)
      BY <2>5 DEF HandOK
    <2> QED
      BY <2>1, <2>5, <2>6, QuietEffects DEF OnClose
  <1>8. CASE Project(c)
    <2>1. /\ th[c].pc = "project" /\ th[c].hand = None /\ th[c].mine = {}
          /\ item' = item /\ phase' = phase /\ home' = home
          /\ revoked' = revoked /\ worker' = worker /\ th[c].s \in Ids
      BY <1>1, <1>8 DEF Project, At, HandOK, runtimes, Placed
    <2>2. CASE th[c].moves # <<>> /\ CanMove(th[c].s, Head(th[c].moves))
      <3> DEFINE t == [th[c] EXCEPT !.moves = Tail(@)]
      <3>1. /\ t.pc = "project" /\ t.hand = th[c].hand /\ t.mine = th[c].mine
            /\ t.s = th[c].s /\ Does(c, t) /\ Move(th[c].s, Head(th[c].moves))
        BY <1>1, <1>8, <2>1, <2>2 DEF Project, Threadwork
      <3> HIDE DEF t
      <3>2. th'[c] = t /\ OthersStay(c)
        BY <2>1, <3>1, ThisThreadOf
      <3>3. Head(th[c].moves) \in Live
        BY <1>1, <2>2, MovesTail DEF Threadwork, Moves
      <3>4. /\ session'[th[c].s] \in {Head(th[c].moves), "gone"}
            /\ \A q \in Ids \ {th[c].s} : session'[q] \in {session[q], "gone"}
        BY <2>1, <3>1, <3>3, MoveEffect DEF TypeInv, States
      <3>5. session[th[c].s] \in Live \cup Over
        BY <2>1, <2>2 DEF FirstInv
      <3>6. \A q \in Ids : SessionStep(c, q)
        BY <3>3, <3>4, <3>5 DEF SessionStep
      <3>7. NoNewOpener(c) /\ LeavesNone(c) /\ ReportsOpen(c) /\ HandOK(th'[c])
        BY <2>1, <2>2, <3>1, <3>2
           DEF NoNewOpener, LeavesNone, ReportsOpen, HandOK, Opens, OnClose
      <3>8. Hands(c)
        BY <2>1, <3>1, <3>2 DEF Hands
      <3> QED
        BY <2>1, <3>2, <3>6, <3>7, <3>8, SameSlots DEF Effects, OnSessions
    <2>3. CASE ~(th[c].moves # <<>> /\ CanMove(th[c].s, Head(th[c].moves)))
      <3>1. Does(c, Idle) /\ session' = session
        BY <1>8, <2>3 DEF Project, Stop
      <3> QED
        BY <1>4, <2>1, <3>1, QuietEffects DEF OnClose
    <2> QED
      BY <2>2, <2>3
  <1> QED
    BY <1>2, <1>3, <1>6, <1>7, <1>8

(* A close takes the workers of its session, ends them and leaves. *)
LEMMA CloseClaimEffects ==
    ASSUME TypeInv, NEW c \in Threads, HandOK(th[c]), th[c].pc = "idle",
           NEW s \in Ids, NEW me \in Threadwork, me.hand = None, me.mine = {},
           CloseClaim(c, s, me)
    PROVE  Effects(c)
  <1>1. th[c].hand = None /\ th[c].mine = {}
    BY DEF HandOK
  <1>2. revoked' = revoked /\ home' = home /\ worker' = worker
    BY DEF CloseClaim, runtimes, processes
  <1>3. CASE ~Closable(s)
    <2> DEFINE r == [me EXCEPT !.pc = "replace"]
    <2>1. /\ r.pc = "replace" /\ r.hand = None /\ r.mine = {}
          /\ Idle.pc = "idle" /\ Idle.hand = None /\ Idle.mine = {}
      BY DEF Threadwork, Idle
    <2>2. Does(c, Idle) \/ Does(c, r)
      BY <1>3 DEF CloseClaim
    <2>3. HandOK(r) /\ HandOK(Idle)
      BY <2>1 DEF HandOK
    <2>4. session' = session /\ item' = item /\ phase' = phase
      BY <1>3 DEF CloseClaim, registry, runtimes
    <2> HIDE DEF r
    <2> QED
      BY <1>1, <1>2, <2>1, <2>2, <2>3, <2>4, QuietEffects DEF OnClose
  <1>4. CASE Closable(s)
    <2> DEFINE t == [me EXCEPT !.pc = "ending", !.s = s, !.mine = ItemsOf(s)]
    <2>1. /\ Move(s, "closing") /\ Does(c, t)
          /\ item' = [item EXCEPT ![s] = [k \in Kinds |-> None]]
          /\ phase' = [phase EXCEPT ![s] = [k \in Kinds |-> "absent"]]
      BY <1>4 DEF CloseClaim
    <2>2. t.pc = "ending" /\ t.s = s /\ t.mine = ItemsOf(s) /\ t.hand = None
      BY DEF Threadwork
    <2> HIDE DEF t
    <2>3. th'[c] = t /\ OthersStay(c)
      BY <1>2, <2>1, ThisThreadOf
    <2>4. NoNewOpener(c) /\ LeavesNone(c) /\ ReportsOpen(c) /\ HandOK(th'[c])
      BY <2>2, <2>3 DEF NoNewOpener, LeavesNone, ReportsOpen, HandOK, Opens, OnClose
    <2>5. /\ session'[s] \in {"closing", "gone"}
          /\ \A q \in Ids \ {s} : session'[q] \in {session[q], "gone"}
      BY <2>1, MoveEffect DEF TypeInv, States
    <2>6. \A q \in Ids : SessionStep(c, q)
      BY <2>2, <2>3, <2>5 DEF SessionStep, OnClose
    <2>7. \A q \in Ids, k \in Kinds :
             IF q = s THEN item'[q][k] = None /\ phase'[q][k] = "absent"
             ELSE item'[q][k] = item[q][k] /\ phase'[q][k] = phase[q][k]
      BY <2>1 DEF TypeInv, TypeOK
    <2>8. \A q \in Ids, k \in Kinds : SlotStep(c, q, k)
      BY <2>5, <2>7 DEF SlotStep, Over
    <2>9. Hands(c)
      BY <1>1, <1>2, <2>2, <2>3, <2>7, ConstantsAssumption DEF Hands, ItemsOf
    <2> QED
      BY <2>3, <2>4, <2>6, <2>8, <2>9 DEF Effects, OnSessions
  <1> QED
    BY <1>3, <1>4

LEMMA CloseEffects ==
    ASSUME TypeInv, NEW c \in Threads, HandOK(th[c]),
           EndWorker(c) \/ EndClose(c) \/ CloseFails(c) \/ CloseDone(c)
    PROVE  Effects(c)
  <1>1. th[c] \in Threadwork /\ Placed(th[c])
    BY DEF TypeInv, TypeOK, PlaceInv
  <1>2. /\ th[c].s \in Ids /\ th[c].pc \in OnClose /\ th[c].hand = None
        /\ item' = item /\ phase' = phase /\ home' = home /\ revoked' = revoked
    BY <1>1 DEF Placed, HandOK, OnClose, EndWorker, EndClose, CloseFails, CloseDone,
                CloseMoves, At, runtimes, processes
  <1>3. CASE EndWorker(c)
    <2>1. PICK w \in th[c].mine, b \in BOOLEAN :
             /\ worker' = Ended(w)
             /\ Does(c, [th[c] EXCEPT !.mine = @ \ {w}, !.broken = b])
      BY <1>1, <1>3 DEF EndWorker, Threadwork
    <2> DEFINE t == [th[c] EXCEPT !.mine = @ \ {w}, !.broken = b]
    <2>2. /\ t.pc = "ending" /\ t.s = th[c].s /\ t.mine = th[c].mine \ {w} /\ t.hand = None
          /\ th[c].pc = "ending" /\ Does(c, t)
      BY <1>1, <1>2, <1>3, <2>1 DEF Threadwork, EndWorker, At
    <2> HIDE DEF t
    <2>3. th'[c] = t /\ OthersStay(c)
      BY <1>2, <2>2, ThisThreadOf
    <2>4. NoNewOpener(c) /\ LeavesNone(c) /\ ReportsOpen(c) /\ HandOK(th'[c])
      BY <2>2, <2>3 DEF NoNewOpener, LeavesNone, ReportsOpen, HandOK, Opens, OnClose
    <2>5. worker' = [worker EXCEPT ![w] = "ended"] /\ w \in Workers
      BY <1>1, <2>1 DEF Ended, Threadwork
    <2>6. Hands(c)
      BY <1>2, <2>2, <2>3, <2>5, ConstantsAssumption DEF Hands, TypeInv, TypeOK
    <2>7. session' = session
      BY <1>3 DEF EndWorker, registry
    <2> QED
      BY <1>2, <2>3, <2>4, <2>6, <2>7, SameSlots, SameSessions DEF Effects, OnSessions
  <1>4. ASSUME th[c].mine = {}, worker' = worker, NEW to, CloseEnds(c, to),
               to \in OnClose \cup {"done"}, to = "done" => session'[th[c].s] # "closing",
               \A q \in Ids : SessionStep(c, q)
        PROVE  Effects(c)
    <2>1. PICK t : /\ Does(c, t) /\ t.mine = {} /\ t.hand = None
                   /\ \/ t.pc \in {"idle", "replace"} /\ session'[th[c].s] # "closing"
                      \/ t.pc \in OnClose /\ t.s = th[c].s
      <3>1. CASE Does(c, Idle) /\ to = "done"
        BY <1>4, <3>1 DEF Idle
      <3>2. ASSUME NEW l, Does(c, [th[c] EXCEPT !.pc = l]),
                   \/ l = "replace" /\ to = "done"
                   \/ l = to /\ to \in OnClose
            PROVE  \E t : /\ Does(c, t) /\ t.mine = {} /\ t.hand = None
                          /\ \/ t.pc \in {"idle", "replace"} /\ session'[th[c].s] # "closing"
                             \/ t.pc \in OnClose /\ t.s = th[c].s
        <4> DEFINE t == [th[c] EXCEPT !.pc = l]
        <4>1. t.pc = l /\ t.mine = {} /\ t.hand = None /\ t.s = th[c].s /\ Does(c, t)
          BY <1>1, <1>2, <1>4, <3>2 DEF Threadwork
        <4> HIDE DEF t
        <4> QED
          BY <1>4, <3>2, <4>1
      <3> QED
        BY <1>4, <3>1, <3>2 DEF CloseEnds
    <2>2. th'[c] = t /\ OthersStay(c)
      BY <1>2, <2>1, ThisThreadOf
    <2>3. NoNewOpener(c) /\ LeavesNone(c) /\ ReportsOpen(c) /\ HandOK(th'[c])
      BY <1>2, <2>1, <2>2 DEF NoNewOpener, LeavesNone, ReportsOpen, HandOK, Opens, OnClose
    <2>4. Hands(c)
      BY <1>2, <1>4, <2>1, <2>2, ConstantsAssumption DEF Hands
    <2> QED
      BY <1>2, <1>4, <2>2, <2>3, <2>4, SameSlots DEF Effects, OnSessions
  <1>5. CASE EndClose(c)
    <2>1. session' = session /\ worker' = worker /\ th[c].mine = {}
      BY <1>5 DEF EndClose, processes
    <2>2. \A q \in Ids : SessionStep(c, q)
      BY <2>1, SameSessions
    <2>3. CASE Held(th[c].s)
      BY <1>4, <1>5, <2>1, <2>2, <2>3 DEF EndClose, OnClose
    <2>4. CASE ~Held(th[c].s)
      BY <1>4, <1>5, <2>1, <2>2, <2>4 DEF EndClose, Held
    <2> QED
      BY <2>3, <2>4
  <1>6. CASE CloseFails(c) \/ CloseDone(c)
    <2>1. PICK target \in {"failed", "closed"} : CloseMoves(c, target)
      BY <1>6 DEF CloseFails, CloseDone
    <2>2. worker' = worker /\ th[c].mine = {}
      BY <1>6, <2>1 DEF CloseFails, CloseDone, CloseMoves, At, HandOK, processes
    <2>3. CASE CanMove(th[c].s, target)
      <3>1. Move(th[c].s, target)
        BY <2>1, <2>3 DEF CloseMoves
      <3>2. session'[th[c].s] # "closing"
        BY <1>2, <3>1, MoveEffect DEF TypeInv, States
      <3>3. \A q \in Ids : SessionStep(c, q)
        BY <1>2, <3>1, EndedSessions
      <3> QED
        BY <1>4, <2>1, <2>2, <2>3, <3>2, <3>3 DEF CloseMoves, OnClose
    <2>4. CASE ~CanMove(th[c].s, target)
      <3>1. session' = session /\ CloseEnds(c, "done")
        BY <2>1, <2>4 DEF CloseMoves
      <3>2. session[th[c].s] # "closing"
        BY <2>4 DEF CanMove, Held, Allowed, States
      <3> QED
        BY <1>4, <2>2, <3>1, <3>2, SameSessions
    <2> QED
      BY <2>3, <2>4
  <1> QED
    BY <1>3, <1>5, <1>6

LEMMA RecoverEffects ==
    ASSUME TypeInv, NEW c \in Threads, HandOK(th[c]),
           \/ RecoverNext(c) \/ RecoverEnds(c) \/ Replace(c)
           \/ Discard(c) \/ Drop(c) \/ Detach(c)
    PROVE  Effects(c)
  <1>1. th[c] \in Threadwork /\ Placed(th[c])
    BY DEF TypeInv, TypeOK, PlaceInv
  <1>2. th[c].pc \notin {"launch", "register", "ending"} \cup OnClose /\ th[c].mine = {}
    BY DEF HandOK, OnClose, At, RecoverNext, RecoverEnds, Replace, Discard, Drop, Detach
  <1>3. Idle.pc = "idle" /\ Idle.hand = None /\ Idle.mine = {} /\ HandOK(Idle)
    BY DEF Idle, HandOK
  <1>4. CASE RecoverNext(c) \/ RecoverEnds(c) \/ Detach(c)
    <2>1. /\ session' = session /\ item' = item /\ phase' = phase /\ home' = home
          /\ revoked' = revoked /\ worker' = worker /\ th[c].hand = None
      BY <1>4 DEF RecoverNext, RecoverEnds, Detach, At, HandOK, registry, runtimes, processes
    <2>2. PICK t : /\ Does(c, t) /\ t.pc \in {"open", "recover", "discard", "idle"}
                   /\ t.hand = None /\ t.mine = {}
      <3>1. CASE RecoverEnds(c)
        BY <1>3, <3>1 DEF RecoverEnds, Stop
      <3>2. CASE Detach(c)
        <4> DEFINE t == [th[c] EXCEPT !.pc = "open"]
        <4>1. t.pc = "open" /\ t.hand = None /\ t.mine = {} /\ Does(c, t)
          BY <1>1, <1>2, <2>1, <3>2 DEF Detach, GoTo, Threadwork
        <4> HIDE DEF t
        <4> QED
          BY <4>1
      <3>3. CASE RecoverNext(c)
        <4>1. PICK k, t : Does(c, t) /\
                 LET me == [th[c] EXCEPT !.k = k, !.kinds = @ \ {k}] IN
                 \/ t = [me EXCEPT !.pc = "open"]
                 \/ t = me
                 \/ \E w : t = [me EXCEPT !.pc = "discard", !.seen = w]
          BY <3>3 DEF RecoverNext
        <4>2. t.pc \in {"open", "recover", "discard"} /\ t.hand = None /\ t.mine = {}
          BY <1>1, <1>2, <2>1, <3>3, <4>1 DEF Threadwork, RecoverNext, At
        <4> QED
          BY <4>1, <4>2
      <3> QED
        BY <1>4, <3>1, <3>2, <3>3
    <2>3. HandOK(t)
      BY <2>2 DEF HandOK
    <2> QED
      BY <1>2, <2>1, <2>2, <2>3, QuietEffects
  <1>5. CASE Replace(c)
    <2>1. /\ item' = item /\ phase' = phase /\ home' = home /\ revoked' = revoked
          /\ worker' = worker /\ th[c].hand = None
      BY <1>5 DEF Replace, At, HandOK, runtimes, processes
    <2>2. PICK t : /\ Does(c, t) /\ t.pc \in {"idle", "recover"}
                   /\ t.hand = None /\ t.mine = {}
      <3>1. CASE Stop(c)
        BY <1>3, <3>1 DEF Stop
      <3>2. ASSUME NEW q \in Ids,
                   Does(c, [Idle EXCEPT !.pc = "recover", !.s = q, !.rec = "new",
                                        !.kinds = th[c].kinds])
            PROVE  \E t : /\ Does(c, t) /\ t.pc \in {"idle", "recover"}
                          /\ t.hand = None /\ t.mine = {}
        <4> DEFINE t == [Idle EXCEPT !.pc = "recover", !.s = q, !.rec = "new",
                                     !.kinds = th[c].kinds]
        <4>1. t.pc = "recover" /\ t.hand = None /\ t.mine = {} /\ Does(c, t)
          BY <3>2 DEF Idle
        <4> HIDE DEF t
        <4> QED
          BY <4>1
      <3> QED
        BY <1>5, <3>1, <3>2 DEF Replace
    <2>3. th'[c] = t /\ OthersStay(c)
      BY <2>1, <2>2, ThisThreadOf
    <2>4. NoNewOpener(c) /\ LeavesNone(c) /\ ReportsOpen(c) /\ HandOK(th'[c])
      BY <1>2, <2>2, <2>3 DEF NoNewOpener, LeavesNone, ReportsOpen, HandOK, Opens
    <2>5. \A q \in Ids : SessionStep(c, q)
      BY <1>5 DEF Replace, SessionStep, TypeInv, TypeOK
    <2>6. Hands(c)
      BY <1>2, <2>1, <2>2, <2>3, ConstantsAssumption DEF Hands
    <2> QED
      BY <2>1, <2>3, <2>4, <2>5, <2>6, SameSlots DEF Effects, OnSessions
  <1>6. CASE Discard(c)
    <2>1. th[c].s \in Ids /\ th[c].k \in Kinds /\ th[c].hand = None /\ th[c].pc = "discard"
      BY <1>1, <1>6 DEF Discard, At, Placed, OnSlot, HandOK
    <2>2. /\ revoked \subseteq revoked' /\ home' = home /\ worker' = worker
          /\ session' = session
          /\ phase[th[c].s][th[c].k] = "opening" => Slot(c) \in revoked'
      BY <1>6 DEF Discard, Revoke, registry, processes
    <2>3. PICK t : /\ Does(c, t) /\ t.pc \in {"open", "drop"} /\ t.mine = {}
                   /\ t.hand = item[th[c].s][th[c].k]
                   /\ t.pc = "open" => t.hand = None
      <3>1. CASE item[th[c].s][th[c].k] = None
        <4> DEFINE t == [th[c] EXCEPT !.pc = "open", !.seen = None]
        <4>1. t.pc = "open" /\ t.mine = {} /\ t.hand = None /\ Does(c, t)
          BY <1>1, <1>2, <1>6, <2>1, <3>1 DEF Discard, Threadwork
        <4> HIDE DEF t
        <4> QED
          BY <3>1, <4>1
      <3>2. CASE item[th[c].s][th[c].k] # None
        <4> DEFINE t == [th[c] EXCEPT !.pc = "drop", !.hand = item[th[c].s][th[c].k]]
        <4>1. t.pc = "drop" /\ t.mine = {} /\ t.hand = item[th[c].s][th[c].k] /\ Does(c, t)
          BY <1>1, <1>2, <1>6, <3>2 DEF Discard, Threadwork
        <4> HIDE DEF t
        <4> QED
          BY <4>1
      <3> QED
        BY <3>1, <3>2
    <2>4. th'[c] = t /\ OthersStay(c)
      BY <2>2, <2>3, ThisThreadOf
    <2>5. NoNewOpener(c) /\ LeavesNone(c) /\ ReportsOpen(c) /\ HandOK(th'[c])
      BY <1>2, <2>3, <2>4 DEF NoNewOpener, LeavesNone, ReportsOpen, HandOK, Opens
    <2>6. \A s \in Ids, k \in Kinds :
             IF s = th[c].s /\ k = th[c].k
             THEN item'[s][k] = None /\ phase'[s][k] # "opening"
             ELSE item'[s][k] = item[s][k] /\ phase'[s][k] = phase[s][k]
      <3>1. CASE item[th[c].s][th[c].k] = None
        <4>1. /\ item' = item
              /\ \/ phase' = phase /\ phase[th[c].s][th[c].k] # "opening"
                 \/ phase' = [phase EXCEPT ![th[c].s][th[c].k] = "closed"]
          BY <1>6, <3>1 DEF Discard
        <4>2. CASE phase' = phase /\ phase[th[c].s][th[c].k] # "opening"
          BY <3>1, <4>1, <4>2
        <4>3. CASE phase' = [phase EXCEPT ![th[c].s][th[c].k] = "closed"]
          BY <2>1, <3>1, <4>1, <4>3 DEF TypeInv, TypeOK
        <4> QED
          BY <4>1, <4>2, <4>3
      <3>2. CASE item[th[c].s][th[c].k] # None
        BY <1>6, <2>1, <3>2 DEF Discard, TypeInv, TypeOK
      <3> QED
        BY <3>1, <3>2
    <2>7. \A s \in Ids, k \in Kinds : SlotStep(c, s, k)
      BY <2>2, <2>6 DEF SlotStep, Slot
    <2>8. Hands(c)
      BY <1>2, <2>1, <2>2, <2>3, <2>4, <2>6, ConstantsAssumption DEF Hands
    <2> QED
      BY <2>2, <2>4, <2>5, <2>7, <2>8, SameSessions DEF Effects, OnSessions
  <1>7. CASE Drop(c)
    <2> DEFINE t == [th[c] EXCEPT !.pc = "detach", !.hand = None, !.seen = None]
    <2>1. t.pc = "detach" /\ t.hand = None /\ t.mine = {} /\ Does(c, t)
      BY <1>1, <1>2, <1>7 DEF Drop, Threadwork
    <2> HIDE DEF t
    <2>2. HandOK(t)
      BY <2>1 DEF HandOK
    <2>3. th[c].hand = None => worker' = worker
      <3>1. worker' = [worker EXCEPT ![th[c].hand] = "ended"]
        BY <1>7 DEF Drop, Ended
      <3> QED
        BY <3>1, ConstantsAssumption DEF TypeInv, TypeOK
    <2>4. /\ session' = session /\ item' = item /\ phase' = phase /\ home' = home
          /\ revoked' = revoked /\ worker' = Ended(th[c].hand)
      BY <1>7 DEF Drop, registry, runtimes
    <2> QED
      BY <1>2, <2>1, <2>2, <2>3, <2>4, EndingEffects
  <1> QED
    BY <1>4, <1>5, <1>6, <1>7

-----------------------------------------------------------------------------
(* The steps with more effects *)

(* The claim of a slot by an open: nobody else opens it, unless that claim  *)
(* was taken back.                                                          *)
Claims(c, s, k) ==
    /\ item[s][k] = None /\ phase[s][k] # "opening" /\ session[s] \in Live \cup {"created"}
    /\ IF session[s] = "created" THEN Move(s, "opening") ELSE session' = session
    /\ item' = item /\ phase' = [phase EXCEPT ![s][k] = "opening"] /\ revoked' = revoked
    /\ home' = home /\ worker' = worker
    /\ \A d \in Threads \ {c} : th'[d] = th[d]
    /\ th[c].pc \in {"idle", "open"}
    /\ th'[c].pc = "launch" /\ th'[c].s = s /\ th'[c].k = k
    /\ th'[c].first = (session[s] = "created")
    /\ th'[c].hand = None /\ th'[c].mine = {}

LEMMA ClaimKeeps ==
    ASSUME TypeInv, TypeInv', SessionParts, OverKept,
           NEW c \in Threads, NEW s \in Ids, NEW k \in Kinds, Claims(c, s, k)
    PROVE  SessionParts'
  <1> USE DEF Claims, SessionParts
  <1>1. /\ session[s] = "created" => session'[s] \in {"opening", "gone"}
        /\ session[s] # "created" => session' = session
        /\ \A q \in Ids \ {s} : session'[q] \in {session[q], "gone"}
    BY MoveEffect DEF TypeInv, States
  <1>2. \A q \in Ids, j \in Kinds : phase'[q][j] =
           IF q = s /\ j = k THEN "opening" ELSE phase[q][j]
    BY DEF TypeInv, TypeOK
  <1>3. \A d \in Threads : Opens(d)' /\ d # c => Opens(d) /\ th'[d] = th[d]
    BY DEF Opens
  <1>4. \A d \in Threads : Opens(d) => d # c /\ Opens(d)' /\ th'[d] = th[d]
    BY DEF Opens
  <1>5. \A d \in Threads : Opens(d)' => th'[d].s \in Ids /\ th'[d].k \in Kinds
    BY DEF Opens, TypeInv, PlaceInv, Placed, OnSlot
  <1>6. \A d \in Threads : Opens(d) /\ Slot(d) = <<s, k>> => <<s, k>> \in revoked
    BY DEF OpenerInv, Slot, Live, Over
  <1>7. OpenerInv'
    <2>1. ASSUME NEW d \in Threads, Opens(d)', NEW q \in Ids, NEW j \in Kinds,
                 th'[d].s = q, th'[d].k = j, <<q, j>> \notin revoked
          PROVE  /\ item'[q][j] = None
                 /\ \/ /\ phase'[q][j] = "opening"
                       /\ \A e \in Threads \ {d} : Opens(e)' => ~(th'[e].s = q /\ th'[e].k = j)
                    \/ phase'[q][j] # "opening" /\ session'[q] \in Over
      <3>1. CASE q = s /\ j = k
        <4>1. \A e \in Threads : Opens(e) => ~(th[e].s = q /\ th[e].k = j)
          BY <1>6, <2>1, <3>1 DEF Slot
        <4> QED
          BY <1>2, <1>3, <2>1, <3>1, <4>1
      <3>2. CASE ~(q = s /\ j = k)
        <4>1. d # c
          BY <2>1, <3>2
        <4>2. Opens(d) /\ Slot(d) = <<q, j>>
          BY <1>3, <2>1, <4>1 DEF Slot
        <4>3. /\ item[q][j] = None
              /\ \/ /\ phase[q][j] = "opening"
                    /\ \A e \in Threads \ {d} : Opens(e) => Slot(e) # <<q, j>>
                 \/ phase[q][j] # "opening" /\ session[q] \in Over
          BY <2>1, <4>2 DEF OpenerInv, Slot
        <4>4. \A e \in Threads \ {d} : Opens(e)' /\ th'[e].s = q /\ th'[e].k = j =>
                 Opens(e) /\ Slot(e) = <<q, j>>
          BY <1>3, <3>2 DEF Slot
        <4> QED
          BY <1>2, <3>2, <4>3, <4>4 DEF OverKept
      <3> QED
        BY <3>1, <3>2
    <2> QED
      BY <1>5, <2>1 DEF OpenerInv, Opens, Slot
  <1>8. FirstInv'
    <2>1. ASSUME NEW d \in Threads, th'[d].pc = "project", th'[d].moves # <<>>
          PROVE  session'[th'[d].s] \in Live \cup Over
      <3>1. d # c /\ th'[d] = th[d] /\ th[d].s \in Ids /\ session[th[d].s] \in Live \cup Over
        BY <2>1 DEF FirstInv, TypeInv, PlaceInv, Placed
      <3> QED
        BY <1>1, <3>1 DEF Live, Over
    <2>2. ASSUME NEW d \in Threads, Opens(d)', th'[d].first
          PROVE  session'[th'[d].s] \in {"opening"} \cup Over
      <3>1. CASE d = c
        BY <1>1, <2>2, <3>1 DEF Live, Over
      <3>2. CASE d # c
        <4>1. Opens(d) /\ th'[d] = th[d] /\ th[d].s \in Ids
          BY <1>3, <1>5, <2>2, <3>2
        <4>2. session[th[d].s] \in {"opening"} \cup Over
          BY <2>2, <4>1 DEF FirstInv
        <4> QED
          BY <1>1, <4>1, <4>2 DEF Live, Over
      <3> QED
        BY <3>1, <3>2
    <2>3. ASSUME NEW d \in Threads, Opens(d), th[d].first
          PROVE  th[d].s # s
      BY <2>3 DEF FirstInv, Live, Over
    <2>4. ASSUME NEW d \in Threads, NEW e \in Threads, NEW q \in Ids,
                 OpensAs(d, q)', OpensAs(e, q)', session'[q] = "opening"
          PROVE  d = e
      <3>1. CASE q = s
        BY <1>3, <2>3, <2>4, <3>1 DEF OpensAs, Opens
      <3>2. CASE q # s
        BY <1>1, <1>3, <2>4, <3>2 DEF OpensAs, FirstInv, Opens
      <3> QED
        BY <3>1, <3>2
    <2>5. ASSUME NEW q \in Ids, NEW j \in Kinds, phase'[q][j] = "opening"
          PROVE  /\ session'[q] \notin {"new", "created"}
                 /\ session'[q] = "opening" => \E d \in Threads : OpensAs(d, q)' /\ th'[d].k = j
      <3>1. CASE q = s
        <4>1. j # k => session[s] # "created"
          BY <1>2, <2>5, <3>1 DEF FirstInv
        <4>2. session[s] = "created" => OpensAs(c, q)' /\ th'[c].k = k
          BY <3>1 DEF OpensAs, Opens
        <4> QED
          BY <1>1, <3>1, <4>1, <4>2 DEF Live
      <3>2. CASE q # s
        <4>1. /\ session[q] \notin {"new", "created"}
              /\ session[q] = "opening" => \E d \in Threads : OpensAs(d, q) /\ th[d].k = j
          BY <1>2, <2>5, <3>2 DEF FirstInv
        <4>2. \A d \in Threads : OpensAs(d, q) /\ th[d].k = j => OpensAs(d, q)' /\ th'[d].k = j
          BY <1>4 DEF OpensAs
        <4> QED
          BY <1>1, <3>2, <4>1, <4>2
      <3> QED
        BY <3>1, <3>2
    <2> QED
      BY <2>1, <2>2, <2>4, <2>5 DEF FirstInv, OpensAs, Opens
  <1>9. PassingStatesPass'
    <2>1. ASSUME NEW q \in Ids, session'[q] = "opening"
          PROVE  \E d \in Threads : /\ th'[d].s = q /\ th'[d].first
                                    /\ th'[d].pc \in {"launch", "register"}
      <3>1. CASE q = s
        BY <1>1, <2>1, <3>1 DEF Live
      <3>2. CASE q # s
        BY <1>1, <1>4, <2>1, <3>2 DEF PassingStatesPass, Opens
      <3> QED
        BY <3>1, <3>2
    <2>2. ASSUME NEW q \in Ids, session'[q] = "closing"
          PROVE  \E d \in Threads : /\ th'[d].s = q
                                    /\ th'[d].pc \in {"ending", "failing", "closing"}
      <3>1. session[q] = "closing"
        BY <1>1, <2>2
      <3>2. PICK d \in Threads : th[d].s = q /\ th[d].pc \in {"ending", "failing", "closing"}
        BY <3>1 DEF PassingStatesPass
      <3> QED
        BY <3>2
    <2> QED
      BY <2>1, <2>2 DEF PassingStatesPass
  <1>10. OwnerInv'
    <2>1. th[c].hand = None /\ th[c].mine = {}
      BY DEF OwnerInv
    <2>2. WorkersOwned'
      BY <2>1, ConstantsAssumption DEF OwnerInv, WorkersOwned
    <2> QED
      BY <2>2 DEF OwnerInv, Slot
  <1> QED
    BY <1>7, <1>8, <1>9, <1>10

LEMMA OpenClaimKeeps ==
    ASSUME TypeInv, TypeInv', SessionParts, OverKept, NEW c \in Threads,
           NEW s \in Ids, NEW k \in Kinds, NEW me \in Threadwork,
           th[c].pc \in {"idle", "open"}, me.hand = None, me.mine = {},
           OpenClaim(c, s, k, me)
    PROVE  SessionParts'
  <1>1. HandOK(th[c]) /\ th[c].hand = None /\ th[c].mine = {}
    BY DEF SessionParts, OwnerInv, HandOK, Slot
  <1>2. CASE session' = session /\ phase' = phase /\ \E ok \in BOOLEAN : Opened(c, ok)
    <2>1. PICK t : /\ Does(c, t) /\ t.pc \in {"idle", "recover"}
                   /\ t.hand = None /\ t.mine = {} /\ HandOK(t)
      BY <1>2, OpenedIs
    <2>2. item' = item /\ home' = home /\ revoked' = revoked /\ worker' = worker
      BY DEF OpenClaim, runtimes, processes
    <2>3. Effects(c)
      BY <1>1, <1>2, <2>1, <2>2, QuietEffects DEF OnClose
    <2> QED
      BY <2>3, OpenerKept, OwnerKept, FirstKept, PassingKept DEF SessionParts, Effects
  <1>3. CASE ~(session' = session /\ phase' = phase /\ \E ok \in BOOLEAN : Opened(c, ok))
    <2>1. /\ item[s][k] = None /\ session[s] \in Live \cup {"created"}
          /\ IF session[s] = "created" THEN Move(s, "opening") ELSE session' = session
          /\ item' = item /\ revoked' = revoked /\ home' = home /\ worker' = worker
      BY <1>3 DEF OpenClaim, registry, runtimes, processes
    <2>2. session[s] = "created" => phase[s][k] # "opening"
      BY DEF SessionParts, FirstInv
    <2>3. phase[s][k] # "opening"
      BY <1>3, <2>1, <2>2 DEF OpenClaim, Claimed, registry, runtimes
    <2> DEFINE t == [me EXCEPT !.pc = "launch", !.s = s, !.k = k,
                               !.first = (session[s] = "created")]
    <2>4. phase' = [phase EXCEPT ![s][k] = "opening"] /\ Does(c, t)
      BY <1>3, <2>1, <2>3 DEF OpenClaim, Claimed, registry, runtimes, Held
    <2>5. /\ t.pc = "launch" /\ t.s = s /\ t.k = k /\ t.first = (session[s] = "created")
          /\ t.hand = None /\ t.mine = {}
      BY DEF Threadwork
    <2> HIDE DEF t
    <2>6. th'[c] = t /\ OthersStay(c)
      BY <2>1, <2>4, ThisThreadOf
    <2> QED
      BY <2>1, <2>3, <2>4, <2>5, <2>6, ClaimKeeps, ZenonT(60) DEF Claims, OthersStay
  <1> QED
    BY <1>2, <1>3

(* A worker is started for the slot of its thread. *)
LEMMA LaunchKeeps ==
    ASSUME TypeInv, TypeInv', SessionParts, OverKept, NEW c \in Threads, Launch(c)
    PROVE  SessionParts'
  <1>1. PICK w \in Workers :
           /\ worker[w] = "free"
           /\ worker' = [worker EXCEPT ![w] = "alive"]
           /\ home' = [home EXCEPT ![w] = Slot(c)]
           /\ Does(c, [th[c] EXCEPT !.pc = "register", !.hand = w])
    BY DEF Launch
  <1>2. th[c] \in Threadwork /\ th[c].s \in Ids /\ th[c].k \in Kinds /\ th[c].pc = "launch"
    BY DEF TypeInv, TypeOK, PlaceInv, Placed, OnSlot, Launch, At
  <1>3. session' = session /\ item' = item /\ phase' = phase /\ revoked' = revoked
    BY DEF Launch, registry, runtimes
  <1> DEFINE t == [th[c] EXCEPT !.pc = "register", !.hand = w]
  <1>4. /\ t.pc = "register" /\ t.hand = w /\ t.mine = th[c].mine
        /\ t.s = th[c].s /\ t.k = th[c].k /\ t.first = th[c].first /\ Does(c, t)
    BY <1>1, <1>2 DEF Threadwork
  <1> HIDE DEF t
  <1>5. th'[c] = t /\ OthersStay(c)
    BY <1>3, <1>4, ThisThreadOf
  <1>6. NoNewOpener(c) /\ LeavesNone(c) /\ ReportsOpen(c)
    BY <1>2, <1>4, <1>5 DEF NoNewOpener, LeavesNone, ReportsOpen, Opens, OnClose
  <1>7. OnSessions(c)
    BY <1>3, <1>5, <1>6, SameSlots, SameSessions DEF OnSessions
  <1>8. OpenerInv' /\ FirstInv' /\ PassingStatesPass'
    BY <1>7, OpenerKept, FirstKept, PassingKept DEF SessionParts
  <1>9. OwnerInv /\ th[c].hand = None /\ th[c].mine = {}
    BY <1>2 DEF SessionParts, OwnerInv
  <1>10. home[w] = <<None, None>> /\ Slot(c) # <<None, None>>
    BY <1>1, <1>2, <1>9, ConstantsAssumption DEF OwnerInv, Slot
  <1>11. \A v \in Workers : /\ home'[v] = IF v = w THEN Slot(c) ELSE home[v]
                            /\ worker'[v] = IF v = w THEN "alive" ELSE worker[v]
    BY <1>1, <1>9 DEF OwnerInv, TypeInv, TypeOK
  <1>12. \A d \in Threads : th'[d].hand # None =>
            th'[d].pc \in {"register", "release", "terminate", "drop"}
    BY <1>4, <1>5, <1>9 DEF OwnerInv, OthersStay
  <1>13. \A d \in Threads : th'[d].mine # {} => th'[d].pc = "ending"
    BY <1>4, <1>5, <1>9 DEF OwnerInv, OthersStay
  <1>14. ASSUME NEW d \in Threads, th'[d].pc = "register"
         PROVE  th'[d].hand \in Workers /\ home'[th'[d].hand] = <<th'[d].s, th'[d].k>>
    <2>1. CASE d = c
      BY <1>4, <1>5, <1>11, <2>1 DEF Slot
    <2>2. CASE d # c
      <3>1. /\ th'[d] = th[d] /\ th[d].hand \in Workers /\ home[th[d].hand] = Slot(d)
            /\ th[d].s \in Ids
        BY <1>5, <1>9, <1>14, <2>2 DEF OwnerInv, OthersStay, TypeInv, PlaceInv, Placed
      <3>2. th[d].hand # w
        BY <1>10, <3>1, ConstantsAssumption DEF Slot
      <3> QED
        BY <1>11, <3>1, <3>2 DEF Slot
    <2> QED
      BY <2>1, <2>2
  <1>15. ASSUME NEW s \in Ids, NEW k \in Kinds, item'[s][k] # None
         PROVE  home'[item'[s][k]] = <<s, k>>
    <2>1. item[s][k] \in Workers /\ home[item[s][k]] = <<s, k>>
      BY <1>3, <1>9, <1>15 DEF OwnerInv, TypeInv, TypeOK
    <2>2. item[s][k] # w
      BY <1>10, <2>1, ConstantsAssumption
    <2> QED
      BY <1>3, <1>11, <2>1, <2>2
  <1>16. home' \in [Workers -> (Ids \cup {None}) \X (Kinds \cup {None})]
    BY <1>1, <1>2, <1>9 DEF OwnerInv, Slot
  <1>17. \A v \in Workers : worker'[v] = "free" => home'[v] = <<None, None>>
    BY <1>9, <1>11 DEF OwnerInv
  <1>18. ASSUME NEW v \in Workers, worker'[v] \in {"alive", "dead"}
         PROVE  \/ \E s \in Ids, k \in Kinds : item'[s][k] = v
                \/ \E d \in Threads : th'[d].hand = v \/ v \in th'[d].mine
                \/ home'[v] \in revoked'
    <2>1. CASE v = w
      BY <1>4, <1>5, <2>1
    <2>2. CASE v # w
      <3>1. \/ \E s \in Ids, k \in Kinds : item[s][k] = v
            \/ \E d \in Threads : th[d].hand = v \/ v \in th[d].mine
            \/ home[v] \in revoked
        BY <1>9, <1>11, <1>18, <2>2 DEF OwnerInv, WorkersOwned
      <3>2. \A d \in Threads : th[d].hand = v \/ v \in th[d].mine => th'[d] = th[d]
        BY <1>5, <1>9, ConstantsAssumption DEF OthersStay
      <3> QED
        BY <1>3, <1>11, <2>2, <3>1, <3>2
    <2> QED
      BY <2>1, <2>2
  <1>19. OwnerInv'
    BY <1>12, <1>13, <1>14, <1>15, <1>16, <1>17, <1>18 DEF OwnerInv, WorkersOwned, Slot
  <1> QED
    BY <1>8, <1>19 DEF SessionParts

-----------------------------------------------------------------------------
(* Every step *)

LEMMA EffectsKeep ==
    ASSUME TypeInv, TypeInv', SessionParts, OverKept, NEW c \in Threads, Effects(c)
    PROVE  SessionParts'
  BY OpenerKept, OwnerKept, FirstKept, PassingKept DEF SessionParts, Effects

LEMMA ContinueKeeps ==
    ASSUME TypeInv, TypeInv', SessionParts, OverKept, NEW c \in Threads, Continue(c)
    PROVE  SessionParts'
  <1>1. HandOK(th[c]) /\ OpenerInv /\ FirstInv
    BY DEF SessionParts, OwnerInv, HandOK, Slot
  <1>2. CASE Reopen(c)
    <2>1. /\ th[c] \in Threadwork /\ th[c].s \in Ids /\ th[c].k \in Kinds /\ th[c].pc = "open"
          /\ th[c].hand = None /\ th[c].mine = {}
      BY <1>1, <1>2 DEF Reopen, At, HandOK, TypeInv, TypeOK, PlaceInv, Placed, OnSlot
    <2> QED
      BY <1>2, <2>1, OpenClaimKeeps DEF Reopen
  <1>3. CASE ~Reopen(c) /\ ~Launch(c)
    <2>1. Effects(c)
      BY <1>1, <1>3, RegisterEffects, CallEffects, FailureEffects, CloseEffects, RecoverEffects
         DEF Continue
    <2> QED
      BY <2>1, EffectsKeep
  <1> QED
    BY <1>2, <1>3, LaunchKeeps

LEMMA BeginKeeps ==
    ASSUME TypeInv, TypeInv', SessionParts, OverKept, NEW c \in Threads, Begin(c)
    PROVE  SessionParts'
  <1>1. HandOK(th[c])
    BY DEF SessionParts, OwnerInv, HandOK, Slot
  <1>2. /\ Idle \in Threadwork /\ Idle.hand = None /\ Idle.mine = {} /\ Idle.pc = "idle"
        /\ HandOK(Idle)
    BY IdleFine DEF Fine, Idle, HandOK
  <1>3. ASSUME NEW s \in Ids, NEW k \in Kinds, Open(c, s, k)
        PROVE  SessionParts'
    BY <1>2, <1>3, OpenClaimKeeps DEF Open, At
  <1>4. ASSUME NEW s \in Ids, NEW k \in Kinds, Call(c, s, k)
        PROVE  SessionParts'
    <2> DEFINE t == [Idle EXCEPT !.pc = "enter", !.s = s, !.k = k, !.seen = item[s][k]]
    <2>1. /\ t.pc = "enter" /\ t.hand = None /\ t.mine = {} /\ Does(c, t)
          /\ th[c].pc = "idle" /\ th[c].hand = None /\ th[c].mine = {}
      BY <1>1, <1>4 DEF Call, At, Idle, HandOK
    <2> HIDE DEF t
    <2>2. HandOK(t)
      BY <2>1 DEF HandOK
    <2>3. /\ session' = session /\ item' = item /\ phase' = phase /\ home' = home
          /\ revoked' = revoked /\ worker' = worker
      BY <1>4 DEF Call, registry, runtimes, processes
    <2> QED
      BY <2>1, <2>2, <2>3, QuietEffects, EffectsKeep DEF OnClose
  <1>5. ASSUME NEW s \in Ids, Close(c, s)
        PROVE  SessionParts'
    BY <1>1, <1>2, <1>5, CloseClaimEffects, EffectsKeep DEF Close, At
  <1>6. ASSUME NEW s \in Ids, Recover(c, s)
        PROVE  SessionParts'
    <2>1. Lost(s) \in SUBSET Kinds
      BY DEF Lost, TypeInv, TypeOK
    <2>2. PICK K \in SUBSET Kinds :
             \/ CloseClaim(c, s, [Idle EXCEPT !.s = s, !.rec = "new", !.kinds = K])
             \/ /\ Does(c, [Idle EXCEPT !.pc = "recover", !.s = s,
                                        !.rec = "same", !.kinds = K])
                /\ UNCHANGED <<registry, runtimes, processes>>
      BY <1>6, <2>1 DEF Recover
    <2>3. th[c].pc = "idle" /\ th[c].hand = None /\ th[c].mine = {}
      BY <1>1, <1>6 DEF Recover, At, HandOK
    <2> DEFINE me == [Idle EXCEPT !.s = s, !.rec = "new", !.kinds = K]
    <2>4. CASE CloseClaim(c, s, me)
      <3>1. me \in Threadwork /\ me.hand = None /\ me.mine = {}
        BY DEF Idle, Threadwork, PCs, Reopening
      <3> HIDE DEF me
      <3> QED
        BY <1>1, <2>3, <2>4, <3>1, CloseClaimEffects, EffectsKeep
    <2>5. CASE ~CloseClaim(c, s, me)
      <3> DEFINE t == [Idle EXCEPT !.pc = "recover", !.s = s, !.rec = "same", !.kinds = K]
      <3>1. t.pc = "recover" /\ t.hand = None /\ t.mine = {} /\ Does(c, t)
        BY <2>2, <2>5 DEF Idle
      <3> HIDE DEF t
      <3>2. HandOK(t)
        BY <3>1 DEF HandOK
      <3>3. /\ session' = session /\ item' = item /\ phase' = phase /\ home' = home
            /\ revoked' = revoked /\ worker' = worker
        BY <2>2, <2>5 DEF registry, runtimes, processes
      <3> QED
        BY <2>3, <3>1, <3>2, <3>3, QuietEffects, EffectsKeep DEF OnClose
    <2> QED
      BY <2>4, <2>5
  <1> QED
    BY <1>3, <1>4, <1>5, <1>6 DEF Begin

LEMMA CreateKeeps ==
    ASSUME TypeInv, SessionParts, NEW s \in Ids, Create(s)
    PROVE  SessionParts'
  <1>1. /\ \A q \in Ids : session'[q] = IF q = s THEN "created" ELSE session[q]
        /\ session[s] = "new"
    BY DEF Create, TypeInv, TypeOK
  <1>2. /\ th' = th /\ phase' = phase /\ item' = item /\ revoked' = revoked
        /\ worker' = worker /\ home' = home
    BY DEF Create, runtimes, processes
  <1>3. \A c \in Threads : th[c].pc # "idle" => th[c].s \in Ids
    BY DEF TypeInv, PlaceInv, Placed
  <1>4. OpenerInv'
    BY <1>1, <1>2, <1>3 DEF SessionParts, OpenerInv, Opens, Slot, Over
  <1>5. OwnerInv'
    BY <1>2 DEF SessionParts, OwnerInv, WorkersOwned, Slot
  <1>6. FirstInv'
    BY <1>1, <1>2, <1>3 DEF SessionParts, FirstInv, Opens, OpensAs, Over, Live
  <1>7. PassingStatesPass'
    BY <1>1, <1>2 DEF SessionParts, PassingStatesPass
  <1> QED
    BY <1>4, <1>5, <1>6, <1>7 DEF SessionParts

LEMMA CrashKeeps ==
    ASSUME TypeInv, SessionParts, NEW w \in Workers, Crash(w)
    PROVE  SessionParts'
  <1>1. /\ \A v \in Workers : worker'[v] = IF v = w THEN "dead" ELSE worker[v]
        /\ worker[w] = "alive"
    BY DEF Crash, TypeInv, TypeOK
  <1>2. /\ th' = th /\ phase' = phase /\ item' = item /\ revoked' = revoked
        /\ session' = session /\ home' = home
    BY DEF Crash, registry, runtimes
  <1>3. OwnerInv'
    BY <1>1, <1>2 DEF SessionParts, OwnerInv, WorkersOwned, Slot
  <1>4. OpenerInv' /\ FirstInv' /\ PassingStatesPass'
    BY <1>2 DEF SessionParts, OpenerInv, FirstInv, PassingStatesPass, Opens, OpensAs, Slot
  <1> QED
    BY <1>3, <1>4 DEF SessionParts

LEMMA PartsStep ==
    ASSUME TypeInv, SessionParts, [Next]_vars
    PROVE  SessionParts'
  <1>1. TypeInv' /\ OverKept
    BY TypeStep, OverStep
  <1>2. CASE UNCHANGED vars
    BY <1>2, SMTT(60) DEF vars, SessionParts, OpenerInv, OwnerInv, FirstInv, PassingStatesPass,
                WorkersOwned, Opens, OpensAs, Slot
  <1>3. CASE Next
    BY <1>1, <1>3, ContinueKeeps, BeginKeeps, CreateKeeps, CrashKeeps DEF Next
  <1> QED
    BY <1>2, <1>3

LEMMA PartsInit == Init => SessionParts
  <1> SUFFICES ASSUME Init PROVE SessionParts
    OBVIOUS
  <1>1. \A c \in Threads : th[c].pc = "idle" /\ th[c].hand = None /\ th[c].mine = {}
    BY DEF Init, Idle
  <1>2. /\ \A s \in Ids : session[s] = "new"
        /\ \A s \in Ids, k \in Kinds : item[s][k] = None /\ phase[s][k] = "absent"
        /\ \A w \in Workers : worker[w] = "free" /\ home[w] = <<None, None>>
        /\ home \in [Workers -> (Ids \cup {None}) \X (Kinds \cup {None})]
    BY DEF Init
  <1> QED
    BY <1>1, <1>2 DEF SessionParts, OpenerInv, OwnerInv, FirstInv, PassingStatesPass,
                      WorkersOwned, Opens, OpensAs

LEMMA PartsAlways == Spec => [](TypeInv /\ SessionParts)
  <1>1. TypeInv /\ SessionParts /\ [Next]_vars => TypeInv' /\ SessionParts'
    BY TypeStep, PartsStep
  <1> QED
    BY TypeInit, PartsInit, <1>1, PTL DEF Spec

(* Whatever fails, is closed or recovered while a backend opens, its worker *)
(* is in a slot or with a thread that ends it, unless its claim was taken   *)
(* back (_open_backend, _abandon_open, _fail_runtime, _close_session).      *)
THEOREM WorkersStayOwned == Spec => []WorkersOwned
  <1>1. SessionParts => WorkersOwned
    BY DEF SessionParts, OwnerInv
  <1> QED
    BY PartsAlways, <1>1, PTL

(* begin_open lets one opener into a slot, and put lets none in that lost   *)
(* its claim.                                                               *)
THEOREM SlotHasOneOpener == Spec => []OneOpener
  <1>1. SessionParts => OneOpener
    <2> SUFFICES ASSUME SessionParts, NEW c \in Threads, NEW d \in Threads, c # d,
                        Opens(c), Opens(d), Slot(c) = Slot(d), Slot(c) \notin revoked
                 PROVE  ~Registrable(c)
      BY DEF OneOpener, Opens, Slot
    <2> QED
      BY DEF SessionParts, OpenerInv, Registrable
  <1> QED
    BY PartsAlways, <1>1, PTL

(* No failure, refusal or race leaves a session opening or closing with no  *)
(* thread to take it out of that state.                                     *)
THEOREM PassingStatesEnd == Spec => []PassingStatesPass
  <1>1. SessionParts => PassingStatesPass
    BY DEF SessionParts
  <1> QED
    BY PartsAlways, <1>1, PTL
=============================================================================
