---------------------------- MODULE BackendProofs ----------------------------
(***************************************************************************)
(* The clients of x64dbg and IDA, unpacking, the browser, the proxy, the   *)
(* supervisor, the run of a command line tool, the installer and the       *)
(* navigation of a debuggee, each proved by itself for every value of its  *)
(* constants.  They do not call one another; each is instantiated under    *)
(* its own name, over the constants and variables of the same name, and    *)
(* its definitions here begin with that name:                              *)
(*                                                                         *)
(*    ...Inv       what is inductive, with the parts it is made of         *)
(*    ...Implies   what is to be shown follows from it                     *)
(*                                                                         *)
(* and the theorems come last in each part.                                *)
(***************************************************************************)
EXTENDS Integers, SequencesExt, FiniteSetTheorems, SequenceTheorems,
        WellFoundedInduction, TLAPS

CONSTANTS
    Callers, MaxOps, MaxQuestions, Batches, MaxNoise, Capacity, Tools,
    MaxTools, MaxCalls, MaxOpens, Sessions, MaxStarts, MaxSpawns,
    RapidLimit, RestartLimit, StrikeLimit, SupProbes, MaxHelpers,
    Installers, Files, Manifest, Mirrors, MaxRuns, Users, MaxEvents, Ring,
    Budget, MaxFaults

VARIABLES
    holder, closed, transport, alive, at, call, op, asked, sent, started,
    tickets, server, up, down, queue, job, cancelled, done, effects, told,
    messages, overflow, input, work, edits, saved, noise, open, stored,
    latch, set, expired, task, calls, attempts, latches, mine, closing,
    slot, opens, wedged, shut, driver, reaped, made, thread, master, port,
    left, sup, spawned, proc, tied, ready, graced, ended, pc, why, answer,
    code, known, stop, late, archive, final, own, runs, lock, cur, wf, kinds,
    deb, doing, batch, faults, said

Xdbg == INSTANCE XdbgRpc
Ida == INSTANCE IdaWorker
Unp == INSTANCE Unpack
Web == INSTANCE Browser
Prx == INSTANCE Proxy
Sup == INSTANCE Supervisor
Too == INSTANCE ToolRun
Ins == INSTANCE Installer
Nav == INSTANCE Navigation

-----------------------------------------------------------------------------
(***************************************************************************)
(* The x64dbg client (XdbgRpc)                                             *)
(*                                                                         *)
(* The invariant follows a call from the lock of the client over the pipe  *)
(* to the main thread of the debugger: what is on the way has an identity  *)
(* of its own, and what a caller is told fits what is still on the way.    *)
(***************************************************************************)

(* Where a caller can be, and what can be on either way of the pipe.       *)
XdbgPlaces == {"idle", "lock", "connect", "hello", "watch", "send", "await hello", "await", "exit"}
XdbgFrames == [id : Nat, kind : Xdbg!Kinds, call : Nat]
XdbgNotes  == [id : Nat, ok : BOOLEAN]

(* The client's state, the identities it gave out, the two ways of the     *)
(* pipe, each with one frame at most, and the worker's state.              *)
XdbgClientType ==
    /\ holder \in Callers \cup {Xdbg!Free}
    /\ closed \in BOOLEAN /\ transport \in BOOLEAN /\ alive \in BOOLEAN
    /\ at \in [Callers -> XdbgPlaces] /\ op \in [Callers -> Xdbg!Ops] /\ call \in [Callers -> Nat]
    /\ tickets \in Nat
    /\ told \in [1..MaxOps -> Xdbg!Answers]

XdbgSentType == sent \in [last : Nat, of : [Callers -> Nat]]

XdbgUpType   == up \in Seq(XdbgFrames) /\ Len(up) <= 1
XdbgDownType == down \in Seq(XdbgNotes) /\ Len(down) <= 1

XdbgWorkerType ==
    /\ server \in [at : {"listen", "read", "wait"}, auth : BOOLEAN, id : Nat]
    /\ queue \in Seq(XdbgFrames) /\ job \in XdbgFrames
    /\ cancelled \subseteq Nat /\ done \subseteq Nat /\ effects \in Seq(Nat)

XdbgTypeInv == XdbgClientType /\ XdbgSentType /\ XdbgUpType /\ XdbgDownType /\ XdbgWorkerType

(* The caller that has the lock is in the youngest call; only the methods  *)
(* that get to a place are at it; who sends or waits has a pipe open.      *)
XdbgLockInv ==
    \A c \in Callers :
        /\ at[c] \notin {"idle", "lock"} <=> holder = c
        /\ holder = c => call[c] = tickets
        /\ at[c] \in {"connect", "hello", "await hello"} => op[c] \in {"request", "reconnect"}
        /\ at[c] = "watch" => op[c] = "request"
        /\ at[c] \in {"send", "await"} => op[c] \in {"request", "close"}
        /\ at[c] = "exit" => op[c] = "close"
        /\ at[c] \in {"hello", "watch", "send", "await hello", "await"} => transport

(* One exchange at a time: an answer is on its way only when nothing is on *)
(* its way to the server, the server listens for a new client only when    *)
(* this one hung up, and whatever is under way on an open pipe is waited   *)
(* for by a caller.                                                        *)
XdbgPipeInv ==
    /\ transport => server.at # "listen"
    /\ up # <<>> => server.at = "read"
    /\ down # <<>> => up = <<>> /\ server.at = "read" /\ transport
    /\ transport /\ (up # <<>> \/ server.at = "wait" \/ down # <<>>) =>
          \E c \in Callers : Xdbg!Awaits(c)

(* What the main thread has not begun.                                     *)
XdbgComing == Xdbg!Range(queue) \cup Xdbg!Range(up)

(* Identities order the frames: the job is older than what is to come, and *)
(* what is done older than both, so an answer that says "done" means that  *)
(* no job of its identity is left.                                         *)
XdbgIdInv ==
    /\ \A f \in XdbgComing : f.id \in 1..sent.last
    /\ job.id <= sent.last /\ (job.id = 0 => job = Xdbg!NoJob)
    /\ \A f \in XdbgComing : job.id < f.id
    /\ \A i, j \in DOMAIN queue : i < j => queue[i].id < queue[j].id
    /\ \A f \in Xdbg!Range(queue), g \in Xdbg!Range(up) : f.id < g.id
    /\ \A d \in done : d <= sent.last /\ (job # Xdbg!NoJob => d < job.id)
       /\ \A f \in XdbgComing : d < f.id
    /\ server.id <= sent.last
    /\ \A a \in Xdbg!Range(down) : a.id <= sent.last
       /\ (a.ok => \A f \in Xdbg!Pending : f.kind = "call" => f.id # a.id)

(* A frame that may change the debuggee, and the caller that waits for one. *)
XdbgIsCall(f) == f.kind = "call"
XdbgSent(c) == at[c] = "await" /\ op[c] = "request"

(* So do the tickets of the lock, which the calls carry.                   *)
XdbgOrderInv ==
    /\ \A f \in Xdbg!Pending : XdbgIsCall(f) => f.call <= tickets
    /\ \A i \in DOMAIN effects : effects[i] <= tickets
    /\ \A f \in XdbgComing : XdbgIsCall(f) /\ XdbgIsCall(job) => job.call < f.call
    /\ \A i, j \in DOMAIN queue : i < j /\ XdbgIsCall(queue[i]) /\ XdbgIsCall(queue[j])
       => queue[i].call < queue[j].call
    /\ \A f \in Xdbg!Range(queue), g \in Xdbg!Range(up) : XdbgIsCall(f) /\ XdbgIsCall(g)
       => f.call < g.call
    /\ Xdbg!OnceInOrder

(* Before the holder sends its own call, every call under way or in effect *)
(* is older; once sent, it is the frame whose answer the holder waits for. *)
XdbgMineInv ==
    \A c \in Callers :
        /\ holder = c /\ ~XdbgSent(c) =>
              /\ \A f \in Xdbg!Pending : XdbgIsCall(f) => f.call < tickets
              /\ \A i \in DOMAIN effects : effects[i] < tickets
        /\ XdbgSent(c) => \A f \in Xdbg!Pending : XdbgIsCall(f) /\ f.call = tickets
           => f.id = sent.of[c]

(* Only calls that are over were told anything.                            *)
XdbgToldInv ==
    /\ \A n \in 1..MaxOps : told[n] # "nothing" => n <= tickets
       /\ (holder # Xdbg!Free => n < tickets)
    /\ Xdbg!ToldTheTruth

XdbgInv == XdbgTypeInv /\ XdbgLockInv /\ XdbgPipeInv /\ XdbgIdInv /\ XdbgOrderInv /\ XdbgMineInv
      /\ XdbgToldInv

(* The value that stands for nobody at the lock is no caller.              *)
XdbgConstantsOK == Xdbg!Free \notin Callers /\ MaxOps \in Nat

-----------------------------------------------------------------------------
(* Sequences *)

LEMMA XdbgAppendBasics ==
    ASSUME NEW S, NEW s \in Seq(S), NEW e \in S
    PROVE  /\ Append(s, e) \in Seq(S) /\ Len(Append(s, e)) = Len(s) + 1
           /\ DOMAIN Append(s, e) = 1..(Len(s) + 1) /\ DOMAIN s = 1..Len(s) /\ Len(s) \in Nat
           /\ \A i \in 1..Len(s) : Append(s, e)[i] = s[i]
           /\ Append(s, e)[Len(s) + 1] = e
  OBVIOUS

LEMMA XdbgAppendRange ==
    ASSUME NEW S, NEW s \in Seq(S), NEW e \in S
    PROVE  Xdbg!Range(Append(s, e)) = Xdbg!Range(s) \cup {e}
  <1>1. /\ Append(s, e) \in Seq(S) /\ Len(Append(s, e)) = Len(s) + 1
        /\ DOMAIN Append(s, e) = 1..(Len(s) + 1) /\ DOMAIN s = 1..Len(s) /\ Len(s) \in Nat
        /\ \A i \in 1..Len(s) : Append(s, e)[i] = s[i]
        /\ Append(s, e)[Len(s) + 1] = e
    BY XdbgAppendBasics
  <1>2. Xdbg!Range(Append(s, e)) \subseteq Xdbg!Range(s) \cup {e}
    BY <1>1 DEF Xdbg!Range
  <1>3. Xdbg!Range(s) \cup {e} \subseteq Xdbg!Range(Append(s, e))
    <2>1. ASSUME NEW x \in Xdbg!Range(s)
          PROVE  x \in Xdbg!Range(Append(s, e))
      <3>1. PICK i \in 1..Len(s) : x = s[i]
        BY <1>1 DEF Xdbg!Range
      <3>2. i \in DOMAIN Append(s, e) /\ Append(s, e)[i] = x
        BY <1>1, <3>1
      <3> QED
        BY <3>2 DEF Xdbg!Range
    <2>2. e \in Xdbg!Range(Append(s, e))
      <3>1. Len(s) + 1 \in DOMAIN Append(s, e)
        BY <1>1
      <3> QED
        BY <1>1, <3>1 DEF Xdbg!Range
    <2> QED
      BY <2>1, <2>2
  <1> QED
    BY <1>2, <1>3

LEMMA XdbgAppendFacts ==
    ASSUME NEW S, NEW s \in Seq(S), NEW e \in S
    PROVE  /\ Append(s, e) \in Seq(S) /\ Len(Append(s, e)) = Len(s) + 1
           /\ Xdbg!Range(Append(s, e)) = Xdbg!Range(s) \cup {e}
           /\ DOMAIN Append(s, e) = 1..(Len(s) + 1) /\ DOMAIN s = 1..Len(s)
           /\ \A i \in DOMAIN s : Append(s, e)[i] = s[i]
           /\ Append(s, e)[Len(s) + 1] = e
  BY XdbgAppendBasics, XdbgAppendRange

LEMMA XdbgTailFacts ==
    ASSUME NEW S, NEW s \in Seq(S), s # <<>>
    PROVE  /\ Tail(s) \in Seq(S) /\ Len(Tail(s)) = Len(s) - 1 /\ Len(s) \in Nat
           /\ Head(s) \in S /\ Head(s) \in Xdbg!Range(s) /\ Head(s) = s[1]
           /\ Xdbg!Range(Tail(s)) \subseteq Xdbg!Range(s)
           /\ DOMAIN s = 1..Len(s) /\ DOMAIN Tail(s) = 1..(Len(s) - 1)
           /\ \A i \in DOMAIN Tail(s) : Tail(s)[i] = s[i + 1] /\ i + 1 \in DOMAIN s
           /\ 1 \in DOMAIN s
  <1>1. /\ Tail(s) \in Seq(S) /\ Len(Tail(s)) = Len(s) - 1 /\ Len(s) \in Nat /\ Len(s) >= 1
        /\ Head(s) \in S /\ Head(s) = s[1]
        /\ DOMAIN s = 1..Len(s) /\ DOMAIN Tail(s) = 1..(Len(s) - 1)
        /\ \A i \in 1..(Len(s) - 1) : Tail(s)[i] = s[i + 1]
    OBVIOUS
  <1>2. 1 \in DOMAIN s /\ \A i \in DOMAIN Tail(s) : i + 1 \in DOMAIN s
    BY <1>1
  <1>3. Head(s) \in Xdbg!Range(s)
    BY <1>1, <1>2 DEF Xdbg!Range
  <1>4. Xdbg!Range(Tail(s)) \subseteq Xdbg!Range(s)
    BY <1>1, <1>2 DEF Xdbg!Range
  <1> QED
    BY <1>1, <1>2, <1>3, <1>4

LEMMA XdbgEmptyRange == Xdbg!Range(<<>>) = {}
  BY DEF Xdbg!Range

LEMMA XdbgOneFacts ==
    ASSUME NEW S, NEW s \in Seq(S), s # <<>>, Len(s) <= 1
    PROVE  Tail(s) = <<>> /\ Xdbg!Range(s) = {Head(s)} /\ Head(s) \in S
  <1>1. Len(s) = 1 /\ Head(s) = s[1] /\ DOMAIN s = 1..1 /\ Head(s) \in S
    OBVIOUS
  <1>2. Tail(s) = <<>>
    BY <1>1, XdbgTailFacts, EmptySeq
  <1>3. Xdbg!Range(s) = {Head(s)}
    BY <1>1 DEF Xdbg!Range
  <1> QED
    BY <1>1, <1>2, <1>3

LEMMA XdbgEmptyFacts ==
    ASSUME NEW S, NEW e \in S
    PROVE  /\ Append(<<>>, e) \in Seq(S) /\ Len(Append(<<>>, e)) = 1 /\ Append(<<>>, e) # <<>>
           /\ Xdbg!Range(Append(<<>>, e)) = {e} /\ <<>> \in Seq(S) /\ Len(<<>>) = 0
  <1>1. <<>> \in Seq(S) /\ Len(<<>>) = 0
    OBVIOUS
  <1>2. /\ Append(<<>>, e) \in Seq(S) /\ Len(Append(<<>>, e)) = 0 + 1
        /\ Xdbg!Range(Append(<<>>, e)) = Xdbg!Range(<<>>) \cup {e}
    <2>1. \A s \in Seq(S) : /\ Append(s, e) \in Seq(S) /\ Len(Append(s, e)) = Len(s) + 1
                            /\ Xdbg!Range(Append(s, e)) = Xdbg!Range(s) \cup {e}
      BY XdbgAppendFacts
    <2> QED
      BY <1>1, <2>1
  <1>3. Append(<<>>, e) # <<>>
    BY <1>1, <1>2
  <1> QED
    BY <1>1, <1>2, <1>3, XdbgEmptyRange

-----------------------------------------------------------------------------
(* Types *)

LEMMA XdbgEmptyPipe ==
    /\ <<>> \in Seq(XdbgNotes) /\ <<>> \in Seq(XdbgFrames) /\ Len(<<>>) = 0
  OBVIOUS

LEMMA XdbgFrameType ==
    ASSUME XdbgClientType, XdbgSentType, NEW c \in Callers, NEW k \in Xdbg!Kinds
    PROVE  Xdbg!Frame(k, c) \in XdbgFrames /\ Xdbg!Frame(k, c).id = sent.last + 1
           /\ Xdbg!Frame(k, c).kind = k /\ Xdbg!Frame(k, c).call = call[c]
  BY DEF XdbgClientType, XdbgSentType, Xdbg!Frame, XdbgFrames

LEMMA XdbgWorkerKept ==
    ASSUME XdbgWorkerType, UNCHANGED Xdbg!worker
    PROVE  XdbgWorkerType'
  BY DEF XdbgWorkerType, Xdbg!worker

LEMMA XdbgDownKept ==
    ASSUME XdbgDownType, down' = down \/ down' = <<>>
    PROVE  XdbgDownType'
  <1>1. CASE down' = down
    BY <1>1 DEF XdbgDownType
  <1>2. CASE down' = <<>>
    BY <1>2, XdbgEmptyPipe DEF XdbgDownType
  <1> QED
    BY <1>1, <1>2

LEMMA XdbgUpSentKept ==
    ASSUME XdbgUpType, XdbgSentType, UNCHANGED <<up, sent>>
    PROVE  XdbgUpType' /\ XdbgSentType'
  BY DEF XdbgUpType, XdbgSentType

LEMMA XdbgTypeOfCall ==
    ASSUME XdbgTypeInv, NEW c \in Callers, NEW o \in Xdbg!Ops, Xdbg!Call(c, o)
    PROVE  XdbgTypeInv'
  <1>1. XdbgClientType'
    BY DEF XdbgTypeInv, XdbgClientType, Xdbg!Call, Xdbg!Goto, XdbgPlaces
  <1> QED
    BY <1>1, XdbgWorkerKept, XdbgDownKept, XdbgUpSentKept DEF XdbgTypeInv, Xdbg!Call

LEMMA XdbgTypeOfEnter ==
    ASSUME XdbgTypeInv, NEW c \in Callers, Xdbg!Enter(c)
    PROVE  XdbgTypeInv'
  <1>1. /\ tickets' = tickets + 1 /\ call' = [call EXCEPT ![c] = tickets + 1]
        /\ UNCHANGED <<alive, op, asked, sent, started, up, Xdbg!worker>>
    BY DEF Xdbg!Enter
  <1>2. /\ \E p \in XdbgPlaces : at' = [at EXCEPT ![c] = p]
        /\ holder' = holder \/ holder' = c
        /\ closed' = closed \/ closed' = TRUE \/ closed' = ~(alive /\ transport)
        /\ transport' = transport \/ transport' = FALSE
        /\ told' = told \/ told' = [told EXCEPT ![tickets + 1] = "refused"]
        /\ down' = down \/ down' = <<>>
    BY DEF Xdbg!Enter, Xdbg!Goto, XdbgPlaces, Xdbg!HangUp
  <1>3. XdbgClientType'
    <2>1. at' \in [Callers -> XdbgPlaces] /\ holder' \in Callers \cup {Xdbg!Free}
      BY <1>2 DEF XdbgClientType, XdbgTypeInv
    <2>2. closed' \in BOOLEAN /\ transport' \in BOOLEAN
      BY <1>2 DEF XdbgClientType, XdbgTypeInv
    <2>3. told' \in [1..MaxOps -> Xdbg!Answers]
      BY <1>2 DEF XdbgClientType, XdbgTypeInv, Xdbg!Answers
    <2>4. tickets' \in Nat /\ call' \in [Callers -> Nat]
      BY <1>1 DEF XdbgClientType, XdbgTypeInv
    <2> QED
      BY <1>1, <2>1, <2>2, <2>3, <2>4 DEF XdbgClientType, XdbgTypeInv
  <1> QED
    BY <1>1, <1>2, <1>3, XdbgWorkerKept, XdbgDownKept, XdbgUpSentKept DEF XdbgTypeInv

LEMMA XdbgTypeOfTell ==
    ASSUME XdbgClientType, NEW c \in Callers, NEW what \in Xdbg!Answers, Xdbg!Tell(c, what)
    PROVE  told' \in [1..MaxOps -> Xdbg!Answers]
  BY DEF Xdbg!Tell, XdbgClientType

LEMMA XdbgTypeOfFail ==
    ASSUME XdbgClientType, NEW c \in Callers, Xdbg!Fail(c)
    PROVE  /\ told' \in [1..MaxOps -> Xdbg!Answers] /\ at' \in [Callers -> XdbgPlaces]
           /\ holder' \in Callers \cup {Xdbg!Free} /\ closed' \in BOOLEAN
  <1>1. told' \in [1..MaxOps -> Xdbg!Answers]
    BY XdbgTypeOfTell DEF Xdbg!Fail, XdbgClientType, Xdbg!Answers
  <1> QED
    BY <1>1 DEF Xdbg!Fail, XdbgClientType, Xdbg!Goto, Xdbg!Leave, XdbgPlaces

LEMMA XdbgTypeOfConnect ==
    ASSUME XdbgTypeInv, NEW c \in Callers, Xdbg!Connect(c)
    PROVE  XdbgTypeInv'
  <1>1. told' \in [1..MaxOps -> Xdbg!Answers]
    BY XdbgTypeOfTell DEF Xdbg!Connect, Xdbg!Answers, XdbgClientType, XdbgTypeInv
  <1>2. XdbgClientType'
    BY <1>1 DEF Xdbg!Connect, XdbgTypeInv, XdbgClientType, Xdbg!Goto, Xdbg!Leave, XdbgPlaces
  <1>3. XdbgWorkerType'
    BY DEF Xdbg!Connect, XdbgTypeInv, XdbgWorkerType, Xdbg!worker
  <1> QED
    BY <1>2, <1>3, XdbgDownKept, XdbgUpSentKept DEF XdbgTypeInv, Xdbg!Connect

LEMMA XdbgTypeOfWatch ==
    ASSUME XdbgTypeInv, NEW c \in Callers, Xdbg!Watch(c)
    PROVE  XdbgTypeInv'
  <1>1. told' \in [1..MaxOps -> Xdbg!Answers]
    BY XdbgTypeOfTell DEF Xdbg!Watch, Xdbg!Answers, XdbgClientType, XdbgTypeInv
  <1>2. XdbgClientType'
    BY <1>1 DEF Xdbg!Watch, XdbgTypeInv, XdbgClientType, Xdbg!Goto, Xdbg!Leave, XdbgPlaces
  <1> QED
    BY <1>2, XdbgWorkerKept, XdbgDownKept, XdbgUpSentKept DEF XdbgTypeInv, Xdbg!Watch

(* Nobody waits when a frame is sent, so the pipe is empty.                *)
LEMMA XdbgSendsOnEmptyPipe ==
    ASSUME XdbgConstantsOK, XdbgClientType, XdbgLockInv, XdbgPipeInv, NEW c \in Callers,
           at[c] \in {"hello", "send"}
    PROVE  up = <<>> /\ down = <<>> /\ transport /\ holder = c
  <1>1. holder = c /\ transport
    BY DEF XdbgLockInv
  <1>2. \A d \in Callers : ~Xdbg!Awaits(d)
    BY <1>1 DEF XdbgLockInv, Xdbg!Awaits, XdbgClientType
  <1> QED
    BY <1>1, <1>2 DEF XdbgPipeInv

LEMMA XdbgOneFrame ==
    ASSUME NEW f \in XdbgFrames, NEW u, u = Append(<<>>, f)
    PROVE  u \in Seq(XdbgFrames) /\ Len(u) <= 1 /\ u # <<>> /\ Xdbg!Range(u) = {f}
  BY XdbgEmptyFacts

LEMMA XdbgNoFrame ==
    ASSUME NEW u, u = <<>>
    PROVE  u \in Seq(XdbgFrames) /\ Len(u) <= 1 /\ Xdbg!Range(u) = {}
  BY XdbgEmptyPipe, XdbgEmptyRange

(* What sending does: a frame is on its way or not, and its sender waits   *)
(* for the answer or has failed.                                           *)
LEMMA XdbgSendEffect ==
    ASSUME XdbgConstantsOK, XdbgTypeInv, XdbgLockInv, XdbgPipeInv, NEW c \in Callers, Xdbg!Send(c)
    PROVE  /\ up = <<>> /\ down = <<>> /\ transport /\ holder = c
           /\ at[c] \in {"hello", "send"}
           /\ UNCHANGED <<alive, call, op, tickets, Xdbg!worker>>
           /\ sent' \in [last : Nat, of : [Callers -> Nat]] /\ sent'.last = sent.last + 1
           /\ up' \in Seq(XdbgFrames) /\ Len(up') <= 1
           /\ \/ Xdbg!Range(up') = {}
              \/ \E k \in Xdbg!Kinds : /\ Xdbg!Range(up') = {Xdbg!Frame(k, c)}
                                       /\ k = "call" => at[c] = "send" /\ op[c] # "close"
           /\ \/ /\ UNCHANGED <<holder, closed, transport, told, down>> /\ up' # <<>>
                 /\ sent'.of = [sent.of EXCEPT ![c] = sent.last + 1]
                 /\ Xdbg!Goto(c, IF at[c] = "hello" THEN "await hello" ELSE "await")
              \/ Xdbg!HangUp /\ Xdbg!Fail(c) /\ sent'.of = sent.of
  <1>0. /\ up = <<>> /\ down = <<>> /\ transport /\ holder = c /\ at[c] \in {"hello", "send"}
    BY XdbgSendsOnEmptyPipe DEF Xdbg!Send, XdbgTypeInv
  <1>1. PICK k \in IF at[c] = "hello" THEN {"hello"}
                 ELSE IF op[c] = "close" THEN {"ask"} ELSE {"call", "read"} :
         \/ /\ alive
            /\ up' = Append(up, Xdbg!Frame(k, c))
            /\ sent' = [last |-> sent.last + 1, of |-> [sent.of EXCEPT ![c] = sent.last + 1]]
            /\ Xdbg!Goto(c, IF k = "hello" THEN "await hello" ELSE "await")
            /\ UNCHANGED <<holder, closed, transport, told, down>>
         \/ /\ up' \in {up} \cup (IF alive THEN {Append(up, Xdbg!Frame(k, c))} ELSE {})
            /\ sent' = [sent EXCEPT !.last = @ + 1]
            /\ Xdbg!HangUp /\ Xdbg!Fail(c)
    BY DEF Xdbg!Send
  <1>2. k \in Xdbg!Kinds /\ (k = "hello" <=> at[c] = "hello")
        /\ (k = "call" => at[c] = "send" /\ op[c] # "close")
    BY <1>0 DEF Xdbg!Kinds
  <1>3. UNCHANGED <<alive, call, op, tickets, Xdbg!worker>>
    BY DEF Xdbg!Send
  <1>4. Xdbg!Frame(k, c) \in XdbgFrames
    BY <1>2, XdbgFrameType DEF XdbgTypeInv
  <1>5. CASE /\ up' = Append(up, Xdbg!Frame(k, c))
             /\ sent' = [last |-> sent.last + 1, of |-> [sent.of EXCEPT ![c] = sent.last + 1]]
             /\ Xdbg!Goto(c, IF k = "hello" THEN "await hello" ELSE "await")
             /\ UNCHANGED <<holder, closed, transport, told, down>>
    <2>1. sent' \in [last : Nat, of : [Callers -> Nat]] /\ sent'.last = sent.last + 1
          /\ sent'.of = [sent.of EXCEPT ![c] = sent.last + 1]
      <3>1. sent.last \in Nat /\ sent.of \in [Callers -> Nat]
        BY DEF XdbgTypeInv, XdbgSentType
      <3>2. sent.last + 1 \in Nat /\ [sent.of EXCEPT ![c] = sent.last + 1] \in [Callers -> Nat]
        BY <3>1
      <3> QED
        BY <1>5, <3>2
    <2>2. up' = Append(<<>>, Xdbg!Frame(k, c))
      BY <1>0, <1>5
    <2>3. up' \in Seq(XdbgFrames) /\ Len(up') <= 1 /\ up' # <<>>
          /\ Xdbg!Range(up') = {Xdbg!Frame(k, c)}
      BY <1>4, <2>2, XdbgOneFrame
    <2> QED
      BY <1>0, <1>2, <1>3, <1>5, <2>1, <2>3
  <1>6. CASE /\ up' \in {up} \cup (IF alive THEN {Append(up, Xdbg!Frame(k, c))} ELSE {})
             /\ sent' = [sent EXCEPT !.last = @ + 1]
             /\ Xdbg!HangUp /\ Xdbg!Fail(c)
    <2>1. sent' \in [last : Nat, of : [Callers -> Nat]] /\ sent'.last = sent.last + 1
          /\ sent'.of = sent.of
      BY <1>6 DEF XdbgTypeInv, XdbgSentType
    <2>2. up' = <<>> \/ up' = Append(<<>>, Xdbg!Frame(k, c))
      BY <1>0, <1>6
    <2>3. /\ up' \in Seq(XdbgFrames) /\ Len(up') <= 1
          /\ Xdbg!Range(up') = {} \/ Xdbg!Range(up') = {Xdbg!Frame(k, c)}
      <3>1. CASE up' = <<>>
        BY <3>1, XdbgNoFrame
      <3>2. CASE up' = Append(<<>>, Xdbg!Frame(k, c))
        BY <1>4, <3>2, XdbgOneFrame
      <3> QED
        BY <2>2, <3>1, <3>2
    <2> QED
      BY <1>0, <1>2, <1>3, <1>6, <2>1, <2>3
  <1> QED
    BY <1>1, <1>5, <1>6

(* Of that: what sending leaves alone, and the frame it puts on its way.    *)
LEMMA XdbgSendKept ==
    ASSUME XdbgConstantsOK, XdbgTypeInv, XdbgLockInv, XdbgPipeInv, NEW c \in Callers, Xdbg!Send(c)
    PROVE  /\ up = <<>> /\ down = <<>> /\ holder = c /\ at[c] \in {"hello", "send"}
           /\ UNCHANGED <<op, tickets>> /\ UNCHANGED Xdbg!worker
           /\ sent'.last = sent.last + 1
  BY XdbgSendEffect, ZenonT(30)

LEMMA XdbgSendFrame ==
    ASSUME XdbgConstantsOK, XdbgTypeInv, XdbgLockInv, XdbgPipeInv, NEW c \in Callers, Xdbg!Send(c)
    PROVE  \A f \in Xdbg!Range(up') :
             /\ f.id = sent.last + 1 /\ f.call = call[c]
             /\ XdbgIsCall(f) => at[c] = "send" /\ op[c] = "request"
  <1>1. \/ Xdbg!Range(up') = {}
        \/ \E k \in Xdbg!Kinds : /\ Xdbg!Range(up') = {Xdbg!Frame(k, c)}
                                 /\ k = "call" => at[c] = "send" /\ op[c] # "close"
    BY XdbgSendEffect, ZenonT(30)
  <1>2. at[c] = "send" => op[c] \in {"request", "close"}
    BY DEF XdbgLockInv
  <1>3. ASSUME NEW k \in Xdbg!Kinds, Xdbg!Range(up') = {Xdbg!Frame(k, c)},
               k = "call" => at[c] = "send" /\ op[c] # "close"
        PROVE  \A f \in Xdbg!Range(up') :
                 /\ f.id = sent.last + 1 /\ f.call = call[c]
                 /\ XdbgIsCall(f) => at[c] = "send" /\ op[c] = "request"
    <2>1. /\ Xdbg!Frame(k, c).id = sent.last + 1 /\ Xdbg!Frame(k, c).call = call[c]
          /\ Xdbg!Frame(k, c).kind = k
      BY XdbgFrameType DEF XdbgTypeInv
    <2> QED
      BY <1>2, <1>3, <2>1 DEF XdbgIsCall
  <1> QED
    BY <1>1, <1>3

LEMMA XdbgTypeOfSend ==
    ASSUME XdbgConstantsOK, XdbgTypeInv, XdbgLockInv, XdbgPipeInv, NEW c \in Callers, Xdbg!Send(c)
    PROVE  XdbgTypeInv'
  <1>1. /\ UNCHANGED <<alive, call, op, tickets, Xdbg!worker>> /\ XdbgSentType'
    BY XdbgSendEffect DEF XdbgSentType
  <1>2. XdbgUpType'
    BY XdbgSendEffect DEF XdbgUpType
  <1>3. XdbgClientType' /\ (down' = down \/ down' = <<>>)
    <2>1. CASE /\ UNCHANGED <<holder, closed, transport, told, down>>
               /\ Xdbg!Goto(c, IF at[c] = "hello" THEN "await hello" ELSE "await")
      BY <1>1, <2>1 DEF XdbgClientType, XdbgTypeInv, Xdbg!Goto, XdbgPlaces
    <2>2. CASE Xdbg!HangUp /\ Xdbg!Fail(c)
      BY <1>1, <2>2, XdbgTypeOfFail DEF XdbgClientType, XdbgTypeInv, Xdbg!HangUp
    <2> QED
      BY <2>1, <2>2, XdbgSendEffect
  <1> QED
    BY <1>1, <1>2, <1>3, XdbgWorkerKept, XdbgDownKept DEF XdbgTypeInv

LEMMA XdbgTypeOfDrop ==
    ASSUME XdbgTypeInv, NEW c \in Callers, Xdbg!Drop(c)
    PROVE  XdbgTypeInv'
  <1>1. XdbgClientType'
    BY XdbgTypeOfFail DEF Xdbg!Drop, XdbgTypeInv, XdbgClientType, Xdbg!HangUp
  <1> QED
    BY <1>1, XdbgWorkerKept, XdbgDownKept, XdbgUpSentKept DEF Xdbg!Drop, XdbgTypeInv, Xdbg!HangUp

(* An answer is the only one on the pipe.                                  *)
LEMMA XdbgAnswerEmpties ==
    ASSUME XdbgTypeInv, NEW c \in Callers, Xdbg!Answer(c)
    PROVE  down # <<>> /\ down' = <<>>
  <1>1. down # <<>> /\ (down' = Tail(down) \/ down' = <<>>)
    BY DEF Xdbg!Answer, Xdbg!HangUp
  <1>2. Tail(down) = <<>>
    BY <1>1, XdbgOneFacts DEF XdbgTypeInv, XdbgDownType
  <1> QED
    BY <1>1, <1>2

LEMMA XdbgTypeOfAnswer ==
    ASSUME XdbgTypeInv, NEW c \in Callers, Xdbg!Answer(c)
    PROVE  XdbgTypeInv'
  <1>1. UNCHANGED <<alive, call, op, asked, sent, started, tickets, up, Xdbg!worker>>
    BY DEF Xdbg!Answer
  <1>2. transport' = transport \/ transport' = FALSE
    BY DEF Xdbg!Answer, Xdbg!HangUp
  <1>3. XdbgClientType'
    <2>1. CASE Xdbg!Fail(c)
      <3>1. /\ told' \in [1..MaxOps -> Xdbg!Answers] /\ at' \in [Callers -> XdbgPlaces]
            /\ holder' \in Callers \cup {Xdbg!Free} /\ closed' \in BOOLEAN
        BY <2>1, XdbgTypeOfFail DEF XdbgTypeInv
      <3> QED
        BY <1>1, <1>2, <3>1 DEF XdbgClientType, XdbgTypeInv
    <2>2. CASE ~Xdbg!Fail(c)
      <3>1. /\ told' = told \/ Xdbg!Tell(c, "ok")
            /\ closed' = closed \/ closed' = TRUE
            /\ holder' = holder \/ holder' = Xdbg!Free
            /\ \/ Xdbg!Goto(c, "watch") \/ Xdbg!Goto(c, "idle") \/ Xdbg!Goto(c,
                  "send") \/ Xdbg!Goto(c, "exit")
        BY <2>2 DEF Xdbg!Answer, Xdbg!Leave
      <3>2. told' \in [1..MaxOps -> Xdbg!Answers]
        BY <3>1, XdbgTypeOfTell DEF XdbgTypeInv, XdbgClientType, Xdbg!Answers
      <3>3. at' \in [Callers -> XdbgPlaces] /\ holder' \in Callers \cup {Xdbg!Free}
            /\ closed' \in BOOLEAN
        BY <3>1 DEF Xdbg!Goto, XdbgClientType, XdbgTypeInv, XdbgPlaces
      <3> QED
        BY <1>1, <1>2, <3>2, <3>3 DEF XdbgClientType, XdbgTypeInv
    <2> QED
      BY <2>1, <2>2
  <1> QED
    BY <1>1, <1>3, XdbgWorkerKept, XdbgDownKept, XdbgUpSentKept, XdbgAnswerEmpties DEF XdbgTypeInv

LEMMA XdbgTypeOfExit ==
    ASSUME XdbgTypeInv, NEW c \in Callers, Xdbg!Exit(c)
    PROVE  XdbgTypeInv'
  <1>1. XdbgClientType'
    BY DEF Xdbg!Exit, XdbgTypeInv, XdbgClientType, Xdbg!Goto, Xdbg!Leave, Xdbg!HangUp, XdbgPlaces
  <1> QED
    BY <1>1, XdbgWorkerKept, XdbgDownKept, XdbgUpSentKept DEF Xdbg!Exit, XdbgTypeInv, Xdbg!HangUp

(* The client's own variables, apart from the pipe                          *)
LEMMA XdbgClientKept ==
    ASSUME XdbgClientType, UNCHANGED Xdbg!client, alive' \in BOOLEAN
    PROVE  XdbgClientType'
  BY DEF XdbgClientType, Xdbg!client

LEMMA XdbgReplyEffect ==
    ASSUME XdbgTypeInv, down = <<>>, NEW id \in Nat, NEW ok \in BOOLEAN, Xdbg!Reply(id, ok)
    PROVE  /\ XdbgDownType'
           /\ server' \in [at : {"listen", "read", "wait"}, auth : BOOLEAN, id : Nat]
           /\ server'.id = server.id /\ server'.auth = server.auth
           /\ transport => server'.at = "read" /\ Xdbg!Range(down') = {[id |-> id, ok |-> ok]}
           /\ ~transport => server'.at = "listen" /\ down' = <<>>
  <1> DEFINE note == [id |-> id, ok |-> ok]
  <1>1. note \in XdbgNotes
    BY DEF XdbgNotes
  <1>2. server \in [at : {"listen", "read", "wait"}, auth : BOOLEAN, id : Nat]
    BY DEF XdbgTypeInv, XdbgWorkerType
  <1>3. CASE transport
    <2>1. down' = Append(<<>>, note) /\ server' = [server EXCEPT !.at = "read"]
      BY <1>3 DEF Xdbg!Reply
    <2> HIDE DEF note
    <2>2. Append(<<>>, note) \in Seq(XdbgNotes) /\ Len(Append(<<>>, note)) = 1
          /\ Xdbg!Range(Append(<<>>, note)) = {note}
      BY <1>1, XdbgEmptyFacts
    <2> DEFINE one == Append(<<>>, note)
    <2> HIDE DEF one
    <2>3. down' = one /\ one \in Seq(XdbgNotes) /\ Len(one) = 1 /\ Xdbg!Range(one) = {note}
      BY <2>1, <2>2 DEF one
    <2>4. down' \in Seq(XdbgNotes) /\ Len(down') <= 1 /\ Xdbg!Range(down') = {note}
      BY <2>3
    <2>5. XdbgDownType'
      BY <2>4 DEF XdbgDownType
    <2> QED
      BY <1>2, <1>3, <2>1, <2>4, <2>5 DEF note
  <1>4. CASE ~transport
    <2>1. down' = <<>> /\ server' = [server EXCEPT !.at = "listen"]
      BY <1>4 DEF Xdbg!Reply
    <2>2. XdbgDownType'
      BY <2>1, XdbgDownKept DEF XdbgTypeInv
    <2> QED
      BY <1>2, <1>4, <2>1, <2>2
  <1> QED
    BY <1>3, <1>4

LEMMA XdbgOneNote ==
    ASSUME NEW a \in XdbgNotes, NEW u, u = Append(<<>>, a)
    PROVE  u \in Seq(XdbgNotes) /\ Len(u) <= 1 /\ u # <<>> /\ Xdbg!Range(u) = {a}
  BY XdbgEmptyFacts

LEMMA XdbgNoNote ==
    ASSUME NEW u, u = <<>>
    PROVE  u \in Seq(XdbgNotes) /\ Len(u) <= 1 /\ Xdbg!Range(u) = {}
  BY XdbgEmptyPipe, XdbgEmptyRange

(* What reading a frame does: it is answered, or it becomes a job.         *)
LEMMA XdbgReadEffect ==
    ASSUME XdbgTypeInv, XdbgPipeInv, Xdbg!ReadFrame
    PROVE  /\ up # <<>> /\ Xdbg!Range(up) = {Head(up)} /\ Head(up) \in XdbgFrames
           /\ up' = <<>> /\ down = <<>> /\ server.at = "read"
           /\ UNCHANGED <<Xdbg!client, alive, job, cancelled, done, effects>>
           /\ server' \in [at : {"listen", "read", "wait"}, auth : BOOLEAN, id : Nat]
           /\ XdbgDownType'
           /\ ~transport => down' = <<>>
           /\ transport => server'.at # "listen"
           /\ \/ /\ queue' = queue /\ server'.id = server.id /\ server'.at # "wait"
                 /\ \A a \in Xdbg!Range(down') : a.id = Head(up).id
                    /\ (a.ok => Head(up).kind # "call")
                 /\ down' # <<>> => server'.at = "read"
              \/ /\ queue' = Append(queue, Head(up))
                 /\ server'.at = "wait" /\ server'.id = Head(up).id
                 /\ down' = <<>>
  <1> DEFINE f == Head(up)
  <1>1. /\ up # <<>> /\ up' = Tail(up) /\ server.at = "read"
        /\ UNCHANGED <<Xdbg!client, alive, job, cancelled, done, effects>>
        /\ transport' = transport
    BY DEF Xdbg!ReadFrame, Xdbg!client
  <1>2. Xdbg!Range(up) = {f} /\ f \in XdbgFrames /\ up' = <<>>
    BY <1>1, XdbgOneFacts DEF XdbgTypeInv, XdbgUpType
  <1>3. down = <<>>
    BY <1>1 DEF XdbgPipeInv
  <1>4. server \in [at : {"listen", "read", "wait"}, auth : BOOLEAN, id : Nat]
    BY DEF XdbgTypeInv, XdbgWorkerType
  <1>5. f.id \in Nat /\ f.kind \in Xdbg!Kinds
    BY <1>2 DEF XdbgFrames
  <1>6. \/ f.kind = "hello" /\ ~server.auth
        \/ f.kind # "hello" /\ ~server.auth /\ Xdbg!Reply(f.id, FALSE) /\ queue' = queue
        \/ f.kind = "read" /\ server.auth /\ Xdbg!Reply(f.id, TRUE) /\ queue' = queue
        \/ f.kind \in {"call", "ask"} /\ server.auth
    BY DEF Xdbg!ReadFrame
  <1> HIDE DEF f
  <1>7. CASE f.kind = "hello" /\ ~server.auth
    <2>1. /\ queue' = queue
          /\ \/ /\ transport /\ down' = Append(<<>>, [id |-> f.id, ok |-> TRUE])
                /\ server' = [server EXCEPT !.auth = TRUE]
             \/ ~transport /\ server' = [server EXCEPT !.at = "listen"] /\ down' = <<>>
      BY <1>3, <1>7 DEF Xdbg!ReadFrame, f
    <2>2. CASE /\ transport /\ down' = Append(<<>>, [id |-> f.id, ok |-> TRUE])
               /\ server' = [server EXCEPT !.auth = TRUE]
      <3>1. [id |-> f.id, ok |-> TRUE] \in XdbgNotes
        BY <1>5 DEF XdbgNotes
      <3>2. down' \in Seq(XdbgNotes) /\ Len(down') <= 1
            /\ Xdbg!Range(down') = {[id |-> f.id, ok |-> TRUE]}
        BY <2>2, <3>1, XdbgOneNote
      <3>3. /\ server' \in [at : {"listen", "read", "wait"}, auth : BOOLEAN, id : Nat]
            /\ server'.at = "read" /\ server'.id = server.id
        BY <1>1, <1>4, <2>2
      <3>4. \A a \in Xdbg!Range(down') : a.id = f.id /\ (a.ok => f.kind # "call")
        BY <1>7, <3>2
      <3>5. XdbgDownType'
        BY <3>2 DEF XdbgDownType
      <3> QED
        BY <1>1, <1>2, <1>3, <2>1, <2>2, <3>3, <3>4, <3>5 DEF f
    <2>3. CASE ~transport /\ server' = [server EXCEPT !.at = "listen"] /\ down' = <<>>
      <3>1. XdbgDownType' /\ Xdbg!Range(down') = {}
        BY <2>3, XdbgNoNote DEF XdbgDownType
      <3>2. /\ server' \in [at : {"listen", "read", "wait"}, auth : BOOLEAN, id : Nat]
            /\ server'.at = "listen" /\ server'.id = server.id
        BY <1>1, <1>4, <2>3
      <3> QED
        BY <1>1, <1>2, <1>3, <2>1, <2>3, <3>1, <3>2 DEF f
    <2> QED
      BY <2>1, <2>2, <2>3
  <1>8. ASSUME NEW b \in BOOLEAN, Xdbg!Reply(f.id, b), b => f.kind # "call", queue' = queue
        PROVE  /\ XdbgDownType'
               /\ server' \in [at : {"listen", "read", "wait"}, auth : BOOLEAN, id : Nat]
               /\ server'.id = server.id /\ server'.at # "wait"
               /\ ~transport => down' = <<>>
               /\ transport => server'.at # "listen"
               /\ \A a \in Xdbg!Range(down') : a.id = f.id /\ (a.ok => f.kind # "call")
               /\ down' # <<>> => server'.at = "read"
    <2>1. /\ XdbgDownType'
          /\ server' \in [at : {"listen", "read", "wait"}, auth : BOOLEAN, id : Nat]
          /\ server'.id = server.id
          /\ transport => server'.at = "read" /\ Xdbg!Range(down') = {[id |-> f.id, ok |-> b]}
          /\ ~transport => server'.at = "listen" /\ down' = <<>>
      BY <1>3, <1>5, <1>8, XdbgReplyEffect
    <2>2. CASE transport
      BY <1>8, <2>1, <2>2
    <2>3. CASE ~transport
      BY <2>1, <2>3, XdbgEmptyRange
    <2> QED
      BY <2>2, <2>3
  <1>9. CASE f.kind \in {"call", "ask"} /\ server.auth
    <2>1. queue' = Append(queue, f) /\ server' = [server EXCEPT !.at = "wait", !.id = f.id]
          /\ down' = <<>>
      BY <1>3, <1>9 DEF Xdbg!ReadFrame, f
    <2>2. XdbgDownType'
      BY <2>1, XdbgNoNote DEF XdbgDownType
    <2>3. /\ server' \in [at : {"listen", "read", "wait"}, auth : BOOLEAN, id : Nat]
          /\ server'.at = "wait" /\ server'.id = f.id
      BY <1>4, <1>5, <2>1
    <2> QED
      BY <1>1, <1>2, <1>3, <2>1, <2>2, <2>3 DEF f
  <1>10. CASE f.kind # "hello" /\ ~server.auth /\ Xdbg!Reply(f.id, FALSE) /\ queue' = queue
    BY <1>1, <1>2, <1>3, <1>8, <1>10 DEF f
  <1>11. CASE f.kind = "read" /\ server.auth /\ Xdbg!Reply(f.id, TRUE) /\ queue' = queue
    BY <1>1, <1>2, <1>3, <1>8, <1>11 DEF f
  <1> QED
    BY <1>6, <1>7, <1>9, <1>10, <1>11 DEF f

LEMMA XdbgTypeOfReadFrame ==
    ASSUME XdbgTypeInv, XdbgPipeInv, Xdbg!ReadFrame
    PROVE  XdbgTypeInv'
  <1>1. XdbgClientType'
    BY XdbgReadEffect, XdbgClientKept DEF XdbgTypeInv, XdbgClientType
  <1>2. XdbgSentType' /\ XdbgDownType'
    BY XdbgReadEffect DEF XdbgTypeInv, XdbgSentType, Xdbg!client
  <1>3. XdbgUpType'
    BY XdbgReadEffect, XdbgNoFrame DEF XdbgUpType
  <1>4. queue' \in Seq(XdbgFrames)
    <2>1. queue' = queue \/ queue' = Append(queue, Head(up))
      BY XdbgReadEffect
    <2>2. queue \in Seq(XdbgFrames) /\ Head(up) \in XdbgFrames
      BY XdbgReadEffect DEF XdbgTypeInv, XdbgWorkerType
    <2> QED
      BY <2>1, <2>2
  <1>5. XdbgWorkerType'
    BY <1>4, XdbgReadEffect DEF XdbgTypeInv, XdbgWorkerType
  <1> QED
    BY <1>1, <1>2, <1>3, <1>5 DEF XdbgTypeInv

(* What answering a job does, done or given up.                             *)
LEMMA XdbgAnswerJobEffect ==
    ASSUME XdbgTypeInv, XdbgPipeInv, Xdbg!JobDone \/ Xdbg!DispatchTimeout
    PROVE  /\ server.at = "wait" /\ up = <<>> /\ down = <<>>
           /\ UNCHANGED <<Xdbg!client, alive, up, queue, job, done, effects>>
           /\ cancelled' \subseteq Nat
           /\ server' \in [at : {"listen", "read", "wait"}, auth : BOOLEAN, id : Nat]
           /\ server'.id = server.id /\ server'.at # "wait"
           /\ XdbgDownType'
           /\ transport => server'.at = "read"
           /\ ~transport => down' = <<>>
           /\ \A a \in Xdbg!Range(down') : a.id = server.id /\ (a.ok => server.id \in done)
  <1>1. /\ server.at = "wait" /\ UNCHANGED <<Xdbg!client, alive, up, queue, job, done, effects>>
        /\ cancelled' = cancelled \/ cancelled' = cancelled \cup {server.id}
    BY DEF Xdbg!JobDone, Xdbg!DispatchTimeout
  <1>2. up = <<>> /\ down = <<>>
    BY <1>1 DEF XdbgPipeInv
  <1>3. server.id \in Nat /\ cancelled \subseteq Nat
    BY DEF XdbgTypeInv, XdbgWorkerType
  <1>4. PICK b \in BOOLEAN : Xdbg!Reply(server.id, b) /\ (b => server.id \in done)
    <2>1. CASE Xdbg!JobDone
      BY <2>1 DEF Xdbg!JobDone
    <2>2. CASE Xdbg!DispatchTimeout
      BY <2>2 DEF Xdbg!DispatchTimeout
    <2> QED
      BY <2>1, <2>2
  <1>5. /\ XdbgDownType'
        /\ server' \in [at : {"listen", "read", "wait"}, auth : BOOLEAN, id : Nat]
        /\ server'.id = server.id
        /\ transport => server'.at = "read" /\ Xdbg!Range(down') = {[id |-> server.id, ok |-> b]}
        /\ ~transport => server'.at = "listen" /\ down' = <<>>
    BY <1>2, <1>3, <1>4, XdbgReplyEffect
  <1>6. CASE transport
    <2>1. \A a \in Xdbg!Range(down') : a.id = server.id /\ (a.ok => server.id \in done)
      <3>1. Xdbg!Range(down') = {[id |-> server.id, ok |-> b]}
        BY <1>5, <1>6
      <3> QED
        BY <1>4, <3>1
    <2>2. cancelled' \subseteq Nat
      BY <1>1, <1>3
    <2>3. server'.at = "read"
      BY <1>5, <1>6
    <2> QED
      BY <1>1, <1>2, <1>5, <1>6, <2>1, <2>2, <2>3
  <1>7. CASE ~transport
    BY <1>1, <1>2, <1>3, <1>5, <1>7, XdbgEmptyRange
  <1> QED
    BY <1>6, <1>7

LEMMA XdbgTypeOfAnswerJob ==
    ASSUME XdbgTypeInv, XdbgPipeInv, Xdbg!JobDone \/ Xdbg!DispatchTimeout
    PROVE  XdbgTypeInv'
  <1>1. XdbgClientType'
    BY XdbgAnswerJobEffect, XdbgClientKept DEF XdbgTypeInv, XdbgClientType
  <1>2. XdbgSentType' /\ XdbgUpType' /\ XdbgDownType'
    BY XdbgAnswerJobEffect DEF XdbgTypeInv, XdbgSentType, XdbgUpType, Xdbg!client
  <1>3. XdbgWorkerType'
    BY XdbgAnswerJobEffect DEF XdbgTypeInv, XdbgWorkerType
  <1> QED
    BY <1>1, <1>2, <1>3 DEF XdbgTypeInv

LEMMA XdbgTypeOfLoseClient ==
    ASSUME XdbgTypeInv, Xdbg!LoseClient
    PROVE  XdbgTypeInv'
  <1>1. UNCHANGED <<Xdbg!client, alive, up, down>>
    BY DEF Xdbg!LoseClient
  <1>2. XdbgClientType' /\ XdbgSentType' /\ XdbgUpType' /\ XdbgDownType'
    BY <1>1, XdbgClientKept, XdbgUpSentKept, XdbgDownKept DEF XdbgTypeInv, XdbgClientType,
       Xdbg!client
  <1>3. XdbgWorkerType'
    BY DEF Xdbg!LoseClient, XdbgTypeInv, XdbgWorkerType
  <1> QED
    BY <1>2, <1>3 DEF XdbgTypeInv

LEMMA XdbgNoJobType == Xdbg!NoJob \in XdbgFrames /\ Xdbg!NoJob.kind = "read" /\ Xdbg!NoJob.id = 0
  BY DEF Xdbg!NoJob, XdbgFrames, Xdbg!Kinds

LEMMA XdbgTypeOfMain ==
    ASSUME XdbgTypeInv, Xdbg!MainTakes \/ Xdbg!MainFinishes
    PROVE  XdbgTypeInv'
  <1>1. UNCHANGED <<Xdbg!client, alive, up, down, server, cancelled>>
    BY DEF Xdbg!MainTakes, Xdbg!MainFinishes
  <1>2. XdbgClientType' /\ XdbgSentType' /\ XdbgUpType' /\ XdbgDownType'
    BY <1>1, XdbgClientKept, XdbgUpSentKept, XdbgDownKept DEF XdbgTypeInv, XdbgClientType,
       Xdbg!client
  <1>3. queue \in Seq(XdbgFrames) /\ job \in XdbgFrames /\ done \subseteq Nat
        /\ effects \in Seq(Nat)
    BY DEF XdbgTypeInv, XdbgWorkerType
  <1>4. CASE Xdbg!MainTakes
    <2>1. queue # <<>> /\ queue' = Tail(queue) /\ effects' = effects
      BY <1>4 DEF Xdbg!MainTakes
    <2>2. Head(queue) \in XdbgFrames /\ queue' \in Seq(XdbgFrames)
      BY <1>3, <2>1
    <2>3. job' \in {job, Head(queue)} /\ done' \subseteq done \cup {Head(queue).id}
      BY <1>4 DEF Xdbg!MainTakes
    <2>4. Head(queue).id \in Nat
      BY <2>2 DEF XdbgFrames
    <2> QED
      BY <1>1, <1>2, <1>3, <2>1, <2>2, <2>3, <2>4 DEF XdbgTypeInv, XdbgWorkerType
  <1>5. CASE Xdbg!MainFinishes
    <2>1. job' = Xdbg!NoJob /\ done' = done \cup {job.id} /\ queue' = queue
          /\ effects' \in {effects, Append(effects, job.call)}
      BY <1>5 DEF Xdbg!MainFinishes
    <2>2. job.id \in Nat /\ job.call \in Nat
      BY <1>3 DEF XdbgFrames
    <2>3. effects' \in Seq(Nat)
      BY <1>3, <2>1, <2>2
    <2> QED
      BY <1>1, <1>2, <1>3, <2>1, <2>2, <2>3, XdbgNoJobType DEF XdbgTypeInv, XdbgWorkerType
  <1> QED
    BY <1>4, <1>5

LEMMA XdbgTypeOfDie ==
    ASSUME XdbgTypeInv, Xdbg!Die
    PROVE  XdbgTypeInv'
  <1>1. UNCHANGED <<Xdbg!client, up, down, Xdbg!worker>> /\ alive' = FALSE
    BY DEF Xdbg!Die
  <1> QED
    BY <1>1, XdbgClientKept, XdbgWorkerKept, XdbgUpSentKept, XdbgDownKept DEF XdbgTypeInv,
       Xdbg!client

-----------------------------------------------------------------------------
(* Who holds the lock *)

XdbgInLock  == {"connect", "hello", "watch", "send", "await hello", "await", "exit"}
XdbgOnPipe  == {"hello", "watch", "send", "await hello", "await"}

(* The holder of the lock goes on to a place under the lock.                *)
LEMMA XdbgHolderMoves ==
    ASSUME XdbgConstantsOK, XdbgClientType, XdbgLockInv, NEW c \in Callers, holder = c,
           UNCHANGED <<holder, call, op, tickets>>,
           NEW p \in XdbgInLock, at' = [at EXCEPT ![c] = p],
           p \in {"connect", "hello", "await hello"} => op[c] \in {"request", "reconnect"},
           p = "watch" => op[c] = "request",
           p \in {"send", "await"} => op[c] \in {"request", "close"},
           p = "exit" => op[c] = "close",
           p \in XdbgOnPipe => transport'
    PROVE  XdbgLockInv'
  <1>1. ASSUME NEW d \in Callers
        PROVE  /\ at'[d] \notin {"idle", "lock"} <=> holder' = d
               /\ holder' = d => call'[d] = tickets'
               /\ at'[d] \in {"connect", "hello", "await hello"}
                  => op'[d] \in {"request", "reconnect"}
               /\ at'[d] = "watch" => op'[d] = "request"
               /\ at'[d] \in {"send", "await"} => op'[d] \in {"request", "close"}
               /\ at'[d] = "exit" => op'[d] = "close"
               /\ at'[d] \in XdbgOnPipe => transport'
    <2>1. CASE d = c
      BY <2>1 DEF XdbgClientType, XdbgLockInv, XdbgInLock
    <2>2. CASE d # c
      <3>1. at'[d] = at[d] /\ at[d] \in {"idle", "lock"}
        BY <2>2 DEF XdbgClientType, XdbgLockInv
      <3> QED
        BY <2>2, <3>1 DEF XdbgOnPipe
    <2> QED
      BY <2>1, <2>2
  <1> QED
    BY <1>1 DEF XdbgLockInv, XdbgOnPipe

(* The holder of the lock leaves.                                           *)
LEMMA XdbgHolderLeaves ==
    ASSUME XdbgConstantsOK, XdbgClientType, XdbgLockInv, NEW c \in Callers, holder = c,
           at' = [at EXCEPT ![c] = "idle"], holder' = Xdbg!Free, UNCHANGED <<call, op, tickets>>
    PROVE  XdbgLockInv'
  <1>1. ASSUME NEW d \in Callers
        PROVE  at'[d] \in {"idle", "lock"} /\ holder' # d
    BY DEF XdbgClientType, XdbgLockInv, XdbgConstantsOK
  <1> QED
    BY <1>1 DEF XdbgLockInv

LEMMA XdbgFailEffect ==
    ASSUME NEW c \in Callers, Xdbg!Fail(c)
    PROVE  \/ /\ op[c] = "close" /\ UNCHANGED <<holder, told>>
              /\ at' = [at EXCEPT ![c] = "exit"]
           \/ /\ op[c] # "close" /\ holder' = Xdbg!Free /\ at' = [at EXCEPT ![c] = "idle"]
              /\ Xdbg!Tell(c, IF at[c] \in {"hello", "await hello"} THEN "refused" ELSE "unsure")
  BY DEF Xdbg!Fail, Xdbg!Goto, Xdbg!Leave

LEMMA XdbgFailLocks ==
    ASSUME XdbgConstantsOK, XdbgClientType, XdbgLockInv, NEW c \in Callers, holder = c,
           UNCHANGED <<call, op, tickets>>, Xdbg!Fail(c)
    PROVE  XdbgLockInv'
  <1>1. CASE op[c] = "close" /\ UNCHANGED <<holder, told>> /\ at' = [at EXCEPT ![c] = "exit"]
    <2>1. "exit" \in XdbgInLock /\ "exit" \notin XdbgOnPipe
      BY DEF XdbgInLock, XdbgOnPipe
    <2> QED
      BY <1>1, <2>1, XdbgHolderMoves
  <1>2. CASE holder' = Xdbg!Free /\ at' = [at EXCEPT ![c] = "idle"]
    BY <1>2, XdbgHolderLeaves
  <1> QED
    BY <1>1, <1>2, XdbgFailEffect

LEMMA XdbgLockOfCall ==
    ASSUME XdbgConstantsOK, XdbgClientType, XdbgLockInv, NEW c \in Callers, NEW o \in Xdbg!Ops,
           Xdbg!Call(c, o)
    PROVE  XdbgLockInv'
  <1>1. /\ at[c] = "idle" /\ at' = [at EXCEPT ![c] = "lock"] /\ op' = [op EXCEPT ![c] = o]
        /\ UNCHANGED <<holder, transport, call, tickets>>
    BY DEF Xdbg!Call, Xdbg!Goto
  <1>2. ASSUME NEW d \in Callers, d # c
        PROVE  at'[d] = at[d] /\ op'[d] = op[d]
    BY <1>1, <1>2 DEF XdbgClientType
  <1>3. at'[c] = "lock" /\ holder # c
    BY <1>1 DEF XdbgClientType, XdbgLockInv
  <1> QED
    BY <1>1, <1>2, <1>3 DEF XdbgLockInv

LEMMA XdbgLockOfEnter ==
    ASSUME XdbgConstantsOK, XdbgClientType, XdbgLockInv, NEW c \in Callers, Xdbg!Enter(c)
    PROVE  XdbgLockInv'
  <1>1. /\ at[c] = "lock" /\ holder = Xdbg!Free /\ UNCHANGED op
        /\ tickets' = tickets + 1 /\ call' = [call EXCEPT ![c] = tickets + 1]
    BY DEF Xdbg!Enter, Xdbg!Locks
  <1>2. \A d \in Callers : at[d] \in {"idle", "lock"}
    BY <1>1 DEF XdbgLockInv, XdbgClientType, XdbgConstantsOK
  <1>3. \/ holder' = Xdbg!Free /\ at' = [at EXCEPT ![c] = "idle"]
        \/ /\ holder' = c /\ transport' = transport
           /\ \/ op[c] = "request" /\ transport /\ at' = [at EXCEPT ![c] = "watch"]
              \/ op[c] \in {"request", "reconnect"} /\ at' = [at EXCEPT ![c] = "connect"]
              \/ op[c] = "close" /\ transport /\ at' = [at EXCEPT ![c] = "send"]
              \/ op[c] = "close" /\ at' = [at EXCEPT ![c] = "exit"]
    BY <1>1 DEF Xdbg!Enter, Xdbg!Goto
  <1>4. \A d \in Callers : d # c => at'[d] = at[d] /\ call'[d] = call[d]
    BY <1>1, <1>3 DEF XdbgClientType
  <1>5. call'[c] = tickets'
    BY <1>1 DEF XdbgClientType
  <1>6. CASE holder' = Xdbg!Free /\ at' = [at EXCEPT ![c] = "idle"]
    <2>1. \A d \in Callers : at'[d] \in {"idle", "lock"} /\ holder' # d
      BY <1>2, <1>4, <1>6 DEF XdbgClientType, XdbgConstantsOK
    <2> QED
      BY <2>1 DEF XdbgLockInv
  <1>7. ASSUME holder' = c, transport' = transport, NEW p \in {"watch", "connect", "send", "exit"},
               at' = [at EXCEPT ![c] = p],
               p = "watch" => op[c] = "request" /\ transport,
               p = "connect" => op[c] \in {"request", "reconnect"},
               p = "send" => op[c] = "close" /\ transport,
               p = "exit" => op[c] = "close"
        PROVE  XdbgLockInv'
    <2>1. at'[c] = p
      BY <1>7 DEF XdbgClientType
    <2>2. \A d \in Callers : d # c => at'[d] \in {"idle", "lock"} /\ holder' # d
      BY <1>2, <1>4, <1>7
    <2> QED
      BY <1>1, <1>5, <1>7, <2>1, <2>2 DEF XdbgLockInv
  <1> QED
    BY <1>3, <1>6, <1>7

LEMMA XdbgLockOfConnect ==
    ASSUME XdbgConstantsOK, XdbgClientType, XdbgLockInv, NEW c \in Callers, Xdbg!Connect(c)
    PROVE  XdbgLockInv'
  <1>1. holder = c /\ op[c] \in {"request", "reconnect"} /\ UNCHANGED <<call, op, tickets>>
    BY DEF Xdbg!Connect, XdbgLockInv
  <1>2. CASE transport' = TRUE /\ at' = [at EXCEPT ![c] = "hello"] /\ UNCHANGED holder
    <2>1. "hello" \in XdbgInLock
      BY DEF XdbgInLock
    <2> QED
      BY <1>1, <1>2, <2>1, XdbgHolderMoves
  <1>3. CASE at' = [at EXCEPT ![c] = "idle"] /\ holder' = Xdbg!Free
    BY <1>1, <1>3, XdbgHolderLeaves
  <1> QED
    BY <1>2, <1>3 DEF Xdbg!Connect, Xdbg!Goto, Xdbg!Leave

LEMMA XdbgLockOfWatch ==
    ASSUME XdbgConstantsOK, XdbgClientType, XdbgLockInv, NEW c \in Callers, Xdbg!Watch(c)
    PROVE  XdbgLockInv'
  <1>1. /\ holder = c /\ op[c] = "request" /\ transport /\ transport' = transport
        /\ UNCHANGED <<call, op, tickets>>
    BY DEF Xdbg!Watch, XdbgLockInv
  <1>2. CASE at' = [at EXCEPT ![c] = "send"] /\ UNCHANGED holder
    <2>1. "send" \in XdbgInLock
      BY DEF XdbgInLock
    <2> QED
      BY <1>1, <1>2, <2>1, XdbgHolderMoves
  <1>3. CASE at' = [at EXCEPT ![c] = "idle"] /\ holder' = Xdbg!Free
    BY <1>1, <1>3, XdbgHolderLeaves
  <1> QED
    BY <1>2, <1>3 DEF Xdbg!Watch, Xdbg!Goto, Xdbg!Leave

LEMMA XdbgLockOfSend ==
    ASSUME XdbgConstantsOK, XdbgTypeInv, XdbgLockInv, XdbgPipeInv, NEW c \in Callers, Xdbg!Send(c)
    PROVE  XdbgLockInv'
  <1>1. /\ holder = c /\ transport /\ at[c] \in {"hello", "send"} /\ UNCHANGED <<call, op, tickets>>
    BY XdbgSendEffect
  <1>2. CASE /\ UNCHANGED <<holder, transport>>
             /\ Xdbg!Goto(c, IF at[c] = "hello" THEN "await hello" ELSE "await")
    <2>1. CASE at[c] = "hello"
      <3>1. "await hello" \in XdbgInLock /\ op[c] \in {"request", "reconnect"}
        BY <2>1 DEF XdbgInLock, XdbgLockInv
      <3>2. at' = [at EXCEPT ![c] = "await hello"]
        BY <1>2, <2>1 DEF Xdbg!Goto
      <3> QED
        BY <1>1, <1>2, <3>1, <3>2, XdbgHolderMoves DEF XdbgTypeInv
    <2>2. CASE at[c] = "send"
      <3>1. "await" \in XdbgInLock /\ op[c] \in {"request", "close"}
        BY <2>2 DEF XdbgInLock, XdbgLockInv
      <3>2. at' = [at EXCEPT ![c] = "await"]
        BY <1>2, <2>2 DEF Xdbg!Goto
      <3> QED
        BY <1>1, <1>2, <3>1, <3>2, XdbgHolderMoves DEF XdbgTypeInv
    <2> QED
      BY <1>1, <2>1, <2>2
  <1>3. CASE Xdbg!Fail(c)
    BY <1>1, <1>3, XdbgFailLocks DEF XdbgTypeInv
  <1> QED
    BY <1>2, <1>3, XdbgSendEffect

LEMMA XdbgAwaitsHolds ==
    ASSUME XdbgLockInv, NEW c \in Callers, Xdbg!Awaits(c)
    PROVE  holder = c /\ transport
  BY DEF XdbgLockInv, Xdbg!Awaits

LEMMA XdbgLockOfDrop ==
    ASSUME XdbgConstantsOK, XdbgClientType, XdbgLockInv, NEW c \in Callers, Xdbg!Drop(c)
    PROVE  XdbgLockInv'
  BY XdbgFailLocks, XdbgAwaitsHolds DEF Xdbg!Drop, Xdbg!Expires

(* What becomes of the caller that an answer reaches.                       *)
LEMMA XdbgAnswerEffect ==
    ASSUME XdbgConstantsOK, XdbgTypeInv, XdbgLockInv, NEW c \in Callers, Xdbg!Answer(c)
    PROVE  /\ Xdbg!Awaits(c) /\ holder = c /\ transport /\ down # <<>> /\ down' = <<>>
           /\ UNCHANGED <<alive, call, op, sent, tickets, up, Xdbg!worker>>
           /\ \/ Xdbg!Fail(c)
              \/ /\ at[c] = "await" /\ op[c] = "request" /\ Xdbg!Good(c)
                 /\ Xdbg!Tell(c, "ok") /\ Xdbg!Leave(c)
              \/ /\ UNCHANGED told /\ Xdbg!Leave(c) /\ op[c] # "request"
              \/ /\ UNCHANGED <<holder, told>>
                 /\ \/ at[c] = "await hello" /\ op[c] = "request" /\ transport' = transport
                       /\ at' = [at EXCEPT ![c] = "watch"]
                    \/ at[c] = "await" /\ op[c] = "close" /\ transport' = transport
                       /\ at' = [at EXCEPT ![c] = "send"]
                    \/ op[c] = "close" /\ at' = [at EXCEPT ![c] = "exit"]
  <1>1. /\ Xdbg!Awaits(c) /\ holder = c /\ transport
        /\ UNCHANGED <<alive, call, op, sent, tickets, up, Xdbg!worker>>
    BY XdbgAwaitsHolds DEF Xdbg!Answer
  <1>2. down # <<>> /\ down' = <<>>
    BY XdbgAnswerEmpties
  <1>3. at[c] = "await" => op[c] \in {"request", "close"}
    BY DEF XdbgLockInv
  <1>4. CASE Xdbg!Good(c) /\ at[c] = "await hello" /\ ~Xdbg!Fail(c)
    BY <1>1, <1>2, <1>3, <1>4 DEF Xdbg!Answer, Xdbg!Goto, Xdbg!Leave
  <1>5. CASE Xdbg!Good(c) /\ at[c] = "await" /\ ~Xdbg!Fail(c)
    <2>1. transport' = transport
      BY <1>5 DEF Xdbg!Answer
    <2>2. CASE op[c] = "request"
      BY <1>1, <1>2, <1>5, <2>2 DEF Xdbg!Answer
    <2>3. CASE op[c] = "close"
      <3>1. \/ Xdbg!Goto(c, "send") /\ UNCHANGED <<holder, told>>
            \/ Xdbg!Goto(c, "exit") /\ UNCHANGED <<holder, told>>
        BY <1>5, <2>3 DEF Xdbg!Answer
      <3> QED
        BY <1>1, <1>2, <1>5, <2>1, <2>3, <3>1 DEF Xdbg!Goto
    <2> QED
      BY <1>3, <1>5, <2>2, <2>3
  <1>6. CASE Xdbg!Fail(c)
    BY <1>1, <1>2, <1>6
  <1>7. CASE ~Xdbg!Good(c) /\ ~Xdbg!Fail(c)
    BY <1>7 DEF Xdbg!Answer
  <1> QED
    BY <1>1, <1>4, <1>5, <1>6, <1>7 DEF Xdbg!Awaits

LEMMA XdbgLockOfAnswer ==
    ASSUME XdbgConstantsOK, XdbgTypeInv, XdbgLockInv, NEW c \in Callers, Xdbg!Answer(c)
    PROVE  XdbgLockInv'
  <1>1. holder = c /\ transport /\ UNCHANGED <<call, op, tickets>>
    BY XdbgAnswerEffect
  <1>2. CASE Xdbg!Fail(c)
    BY <1>1, <1>2, XdbgFailLocks DEF XdbgTypeInv
  <1>3. CASE Xdbg!Leave(c)
    BY <1>1, <1>3, XdbgHolderLeaves DEF XdbgTypeInv, Xdbg!Leave, Xdbg!Goto
  <1>4. CASE /\ UNCHANGED holder
             /\ \/ op[c] = "request" /\ transport' = transport /\ at' = [at EXCEPT ![c] = "watch"]
                \/ op[c] = "close" /\ transport' = transport /\ at' = [at EXCEPT ![c] = "send"]
                \/ op[c] = "close" /\ at' = [at EXCEPT ![c] = "exit"]
    <2>1. {"watch", "send", "exit"} \subseteq XdbgInLock /\ "exit" \notin XdbgOnPipe
      BY DEF XdbgInLock, XdbgOnPipe
    <2> QED
      BY <1>1, <1>4, <2>1, XdbgHolderMoves DEF XdbgTypeInv
  <1> QED
    BY <1>2, <1>3, <1>4, XdbgAnswerEffect

LEMMA XdbgLockOfExit ==
    ASSUME XdbgConstantsOK, XdbgClientType, XdbgLockInv, NEW c \in Callers, Xdbg!Exit(c)
    PROVE  XdbgLockInv'
  <1>1. holder = c
    BY DEF Xdbg!Exit, XdbgLockInv
  <1> QED
    BY <1>1, XdbgHolderLeaves DEF Xdbg!Exit, Xdbg!Leave, Xdbg!Goto

LEMMA XdbgLockKept ==
    ASSUME XdbgLockInv, UNCHANGED <<holder, transport, at, call, op, tickets>>
    PROVE  XdbgLockInv'
  BY DEF XdbgLockInv

-----------------------------------------------------------------------------
(* What is on the pipe *)

(* The client's steps that send nothing leave the frames, the jobs and      *)
(* their effects alone.                                                     *)
XdbgQuiet(c) ==
    \/ \E o \in Xdbg!Ops : Xdbg!Call(c, o)
    \/ Xdbg!Enter(c) \/ Xdbg!Connect(c) \/ Xdbg!Watch(c) \/ Xdbg!Drop(c) \/ Xdbg!Answer(c) \/ Xdbg!Exit(c)

(* Nothing is sent and no job moves.                                        *)
XdbgStill ==
    /\ UNCHANGED <<up, queue, job, done, effects, sent>>
    /\ server'.id = server.id
    /\ down' = down \/ down' = <<>>

LEMMA XdbgQuietIsStill ==
    ASSUME XdbgTypeInv, NEW c \in Callers, XdbgQuiet(c)
    PROVE  XdbgStill
  <1>1. CASE \E o \in Xdbg!Ops : Xdbg!Call(c, o)
    BY <1>1 DEF Xdbg!Call, XdbgStill, Xdbg!worker
  <1>2. CASE Xdbg!Enter(c)
    <2>1. down' = down \/ down' = <<>>
      BY <1>2 DEF Xdbg!Enter, Xdbg!HangUp
    <2>2. UNCHANGED <<up, sent, Xdbg!worker>>
      BY <1>2 DEF Xdbg!Enter
    <2> QED
      BY <2>1, <2>2 DEF XdbgStill, Xdbg!worker
  <1>3. CASE Xdbg!Connect(c)
    <2>1. server'.id = server.id /\ UNCHANGED <<queue, job, done, effects>>
      BY <1>3 DEF Xdbg!Connect, Xdbg!worker, XdbgTypeInv, XdbgWorkerType
    <2> QED
      BY <1>3, <2>1 DEF Xdbg!Connect, XdbgStill
  <1>4. CASE Xdbg!Watch(c)
    BY <1>4 DEF Xdbg!Watch, XdbgStill, Xdbg!worker
  <1>5. CASE Xdbg!Drop(c)
    BY <1>5 DEF Xdbg!Drop, Xdbg!HangUp, XdbgStill, Xdbg!worker
  <1>6. CASE Xdbg!Answer(c)
    BY <1>6, XdbgAnswerEmpties DEF Xdbg!Answer, XdbgStill, Xdbg!worker
  <1>7. CASE Xdbg!Exit(c)
    BY <1>7 DEF Xdbg!Exit, Xdbg!HangUp, XdbgStill, Xdbg!worker
  <1> QED
    BY <1>1, <1>2, <1>3, <1>4, <1>5, <1>6, <1>7 DEF XdbgQuiet

LEMMA XdbgPipeKept ==
    ASSUME XdbgPipeInv, UNCHANGED <<up, server, transport>>, down' = down \/ down' = <<>>,
           \A d \in Callers : Xdbg!Awaits(d) => Xdbg!Awaits(d)'
    PROVE  XdbgPipeInv'
  <1>1. CASE down' = down
    BY <1>1 DEF XdbgPipeInv
  <1>2. CASE down' = <<>>
    BY <1>2 DEF XdbgPipeInv
  <1> QED
    BY <1>1, <1>2

LEMMA XdbgPipeHungUp ==
    ASSUME XdbgPipeInv, UNCHANGED <<up, server>>, Xdbg!HangUp
    PROVE  XdbgPipeInv'
  BY DEF XdbgPipeInv, Xdbg!HangUp

(* A caller that does not wait moves, and the others stay where they are.   *)
LEMMA XdbgOthersAwait ==
    ASSUME XdbgClientType, NEW c \in Callers, ~Xdbg!Awaits(c), NEW p, at' = [at EXCEPT ![c] = p]
    PROVE  \A d \in Callers : Xdbg!Awaits(d) => Xdbg!Awaits(d)'
  BY DEF XdbgClientType, Xdbg!Awaits

LEMMA XdbgPipeOfQuiet ==
    ASSUME XdbgConstantsOK, XdbgTypeInv, XdbgLockInv, XdbgPipeInv, NEW c \in Callers, XdbgQuiet(c)
    PROVE  XdbgPipeInv'
  <1>1. CASE \E o \in Xdbg!Ops : Xdbg!Call(c, o)
    <2>1. UNCHANGED <<up, server, transport, down>> /\ at[c] = "idle"
          /\ at' = [at EXCEPT ![c] = "lock"]
      BY <1>1 DEF Xdbg!Call, Xdbg!Goto, Xdbg!worker
    <2>2. ~Xdbg!Awaits(c)
      BY <2>1 DEF Xdbg!Awaits
    <2> QED
      BY <2>1, <2>2, XdbgOthersAwait, XdbgPipeKept DEF XdbgTypeInv
  <1>2. CASE Xdbg!Enter(c)
    <2>1. UNCHANGED <<up, server>> /\ at[c] = "lock"
          /\ \E p \in XdbgPlaces : at' = [at EXCEPT ![c] = p]
      BY <1>2 DEF Xdbg!Enter, Xdbg!Locks, Xdbg!Goto, Xdbg!worker, XdbgPlaces
    <2>2. Xdbg!HangUp \/ UNCHANGED <<transport, down>>
      BY <1>2 DEF Xdbg!Enter
    <2>3. ~Xdbg!Awaits(c)
      BY <2>1 DEF Xdbg!Awaits
    <2> QED
      BY <2>1, <2>2, <2>3, XdbgOthersAwait, XdbgPipeKept, XdbgPipeHungUp DEF XdbgTypeInv
  <1>3. CASE Xdbg!Connect(c)
    <2>1. at[c] = "connect" /\ UNCHANGED <<up, down>>
          /\ \E p \in XdbgPlaces : at' = [at EXCEPT ![c] = p]
      BY <1>3 DEF Xdbg!Connect, Xdbg!Goto, Xdbg!Leave, XdbgPlaces
    <2>2. ~Xdbg!Awaits(c)
      BY <2>1 DEF Xdbg!Awaits
    <2>3. CASE UNCHANGED <<server, transport>>
      BY <2>1, <2>2, <2>3, XdbgOthersAwait, XdbgPipeKept DEF XdbgTypeInv
    <2>4. CASE server.at = "listen" /\ server' = [server EXCEPT !.at = "read", !.auth = FALSE]
      <3>1. server'.at = "read"
        BY <2>4 DEF XdbgTypeInv, XdbgWorkerType
      <3>2. up = <<>> /\ down = <<>>
        BY <2>4 DEF XdbgPipeInv
      <3> QED
        BY <2>1, <3>1, <3>2 DEF XdbgPipeInv
    <2> QED
      BY <1>3, <2>3, <2>4 DEF Xdbg!Connect, Xdbg!worker
  <1>4. CASE Xdbg!Watch(c)
    <2>1. /\ UNCHANGED <<up, server, transport, down>> /\ at[c] = "watch"
          /\ \E p \in XdbgPlaces : at' = [at EXCEPT ![c] = p]
      BY <1>4 DEF Xdbg!Watch, Xdbg!Goto, Xdbg!Leave, Xdbg!worker, XdbgPlaces
    <2>2. ~Xdbg!Awaits(c)
      BY <2>1 DEF Xdbg!Awaits
    <2> QED
      BY <2>1, <2>2, XdbgOthersAwait, XdbgPipeKept DEF XdbgTypeInv
  <1>5. CASE Xdbg!Drop(c)
    BY <1>5, XdbgPipeHungUp DEF Xdbg!Drop, Xdbg!worker
  <1>6. CASE Xdbg!Answer(c)
    <2>1. UNCHANGED <<up, server>> /\ down # <<>> /\ down' = <<>>
          /\ transport' \in {transport, FALSE}
      BY <1>6, XdbgAnswerEmpties DEF Xdbg!Answer, Xdbg!worker, Xdbg!HangUp
    <2>2. up = <<>> /\ server.at = "read"
      BY <2>1 DEF XdbgPipeInv
    <2> QED
      BY <2>1, <2>2 DEF XdbgPipeInv
  <1>7. CASE Xdbg!Exit(c)
    BY <1>7, XdbgPipeHungUp DEF Xdbg!Exit, Xdbg!worker
  <1> QED
    BY <1>1, <1>2, <1>3, <1>4, <1>5, <1>6, <1>7 DEF XdbgQuiet

LEMMA XdbgPipeOfSend ==
    ASSUME XdbgConstantsOK, XdbgTypeInv, XdbgLockInv, XdbgPipeInv, NEW c \in Callers, Xdbg!Send(c)
    PROVE  XdbgPipeInv'
  <1>1. /\ up = <<>> /\ down = <<>> /\ transport /\ holder = c /\ UNCHANGED Xdbg!worker
        /\ at[c] \in {"hello", "send"}
    BY XdbgSendEffect
  <1>2. server' = server
    BY <1>1 DEF Xdbg!worker
  <1>3. ~Xdbg!Awaits(c)
    BY <1>1 DEF Xdbg!Awaits
  <1>4. server.at = "read"
    <2>1. \A d \in Callers : ~Xdbg!Awaits(d)
      BY <1>1, <1>3 DEF XdbgLockInv, Xdbg!Awaits
    <2> QED
      BY <1>1, <2>1 DEF XdbgPipeInv, XdbgTypeInv, XdbgWorkerType
  <1>5. CASE /\ UNCHANGED <<transport, down>>
             /\ Xdbg!Goto(c, IF at[c] = "hello" THEN "await hello" ELSE "await")
    <2>1. Xdbg!Awaits(c)'
      BY <1>5 DEF Xdbg!Goto, Xdbg!Awaits, XdbgTypeInv, XdbgClientType
    <2> QED
      BY <1>1, <1>2, <1>4, <1>5, <2>1 DEF XdbgPipeInv
  <1>6. CASE Xdbg!HangUp
    BY <1>1, <1>2, <1>4, <1>6 DEF XdbgPipeInv, Xdbg!HangUp
  <1> QED
    BY <1>5, <1>6, XdbgSendEffect

LEMMA XdbgPipeOfWorker ==
    ASSUME XdbgTypeInv, XdbgPipeInv,
           Xdbg!ReadFrame \/ Xdbg!LoseClient \/ Xdbg!JobDone \/ Xdbg!DispatchTimeout
    PROVE  XdbgPipeInv'
  <1>1. CASE Xdbg!ReadFrame
    <2>1. /\ up # <<>> /\ up' = <<>> /\ UNCHANGED <<transport, at>>
          /\ transport => server'.at # "listen"
          /\ down' # <<>> => server'.at = "read" /\ transport
      BY <1>1, XdbgReadEffect DEF Xdbg!client
    <2>2. transport => \E d \in Callers : Xdbg!Awaits(d)'
      BY <2>1 DEF XdbgPipeInv, Xdbg!Awaits
    <2> QED
      BY <2>1, <2>2 DEF XdbgPipeInv
  <1>2. CASE Xdbg!LoseClient
    <2>1. ~transport /\ UNCHANGED <<transport, up, down>> /\ up = <<>>
      BY <1>2 DEF Xdbg!LoseClient, Xdbg!client
    <2> QED
      BY <2>1 DEF XdbgPipeInv
  <1>3. CASE Xdbg!JobDone \/ Xdbg!DispatchTimeout
    <2>1. /\ server.at = "wait" /\ up' = <<>> /\ UNCHANGED <<transport, at>>
          /\ transport => server'.at = "read"
          /\ ~transport => down' = <<>>
      BY <1>3, XdbgAnswerJobEffect DEF Xdbg!client
    <2>2. transport => \E d \in Callers : Xdbg!Awaits(d)'
      BY <2>1 DEF XdbgPipeInv, Xdbg!Awaits
    <2> QED
      BY <2>1, <2>2 DEF XdbgPipeInv
  <1> QED
    BY <1>1, <1>2, <1>3

-----------------------------------------------------------------------------
(* Identities *)

LEMMA XdbgIdKept ==
    ASSUME XdbgIdInv, XdbgStill
    PROVE  XdbgIdInv'
  <1>1. XdbgComing' = XdbgComing /\ Xdbg!Pending' = Xdbg!Pending
    BY DEF XdbgStill, XdbgComing, Xdbg!Pending
  <1>2. Xdbg!Range(down') \subseteq Xdbg!Range(down)
    BY XdbgEmptyRange DEF XdbgStill
  <1> QED
    BY <1>1, <1>2 DEF XdbgIdInv, XdbgStill

(* Two places of a longer sequence are two old ones, or one and the last.   *)
LEMMA XdbgAppendPairs ==
    ASSUME NEW S, NEW s \in Seq(S), NEW e \in S, NEW u, u = Append(s, e),
           NEW i \in DOMAIN u, NEW j \in DOMAIN u, i < j
    PROVE  /\ i \in DOMAIN s /\ u[i] = s[i] /\ u[i] \in Xdbg!Range(s)
           /\ (j \in DOMAIN s /\ u[j] = s[j]) \/ u[j] = e
  <1>1. i \in 1..(Len(s) + 1) /\ j \in 1..(Len(s) + 1) /\ Len(s) \in Nat /\ DOMAIN s = 1..Len(s)
    BY XdbgAppendFacts
  <1>2. i \in 1..Len(s) /\ (j \in 1..Len(s) \/ j = Len(s) + 1)
    BY <1>1
  <1>3. u[i] = s[i] /\ s[i] \in Xdbg!Range(s)
    BY <1>1, <1>2, XdbgAppendFacts DEF Xdbg!Range
  <1> QED
    BY <1>1, <1>2, <1>3, XdbgAppendFacts

(* The rest of a queue came after its head.                                 *)
LEMMA XdbgTailPairs ==
    ASSUME NEW S, NEW s \in Seq(S), s # <<>>
    PROVE  /\ Tail(s) \in Seq(S) /\ Head(s) \in S /\ Head(s) \in Xdbg!Range(s)
           /\ Xdbg!Range(Tail(s)) \subseteq Xdbg!Range(s)
           /\ \A f \in Xdbg!Range(Tail(s)) : \E j \in DOMAIN s : 1 < j /\ f = s[j]
           /\ 1 \in DOMAIN s /\ Head(s) = s[1]
           /\ \A i, j \in DOMAIN Tail(s) : i < j =>
                 /\ i + 1 \in DOMAIN s /\ j + 1 \in DOMAIN s /\ i + 1 < j + 1
                 /\ Tail(s)[i] = s[i + 1] /\ Tail(s)[j] = s[j + 1]
  <1>1. ASSUME NEW f \in Xdbg!Range(Tail(s))
        PROVE  \E j \in DOMAIN s : 1 < j /\ f = s[j]
    <2>1. PICK i \in DOMAIN Tail(s) : f = Tail(s)[i]
      BY DEF Xdbg!Range
    <2>2. i + 1 \in DOMAIN s /\ f = s[i + 1]
      BY <2>1, XdbgTailFacts
    <2>3. i \in 1..(Len(s) - 1)
      BY XdbgTailFacts
    <2>4. 1 < i + 1
      BY <2>3
    <2> QED
      BY <2>2, <2>4
  <1>2. \A i, j \in DOMAIN Tail(s) : i < j => i + 1 < j + 1
    <2>1. DOMAIN Tail(s) = 1..(Len(s) - 1)
      BY XdbgTailFacts
    <2> QED
      BY <2>1
  <1> QED
    BY <1>1, <1>2, XdbgTailFacts

LEMMA XdbgIds ==
    ASSUME XdbgTypeInv
    PROVE  /\ \A f \in Xdbg!Pending : f \in XdbgFrames /\ f.id \in Nat /\ f.call \in Nat
           /\ \A d \in done : d \in Nat
           /\ \A a \in Xdbg!Range(down) : a.id \in Nat
           /\ server.id \in Nat /\ sent.last \in Nat
           /\ job \in XdbgFrames /\ queue \in Seq(XdbgFrames)
           /\ \A i \in DOMAIN queue : queue[i] \in XdbgFrames /\ queue[i] \in Xdbg!Range(queue)
           /\ effects \in Seq(Nat) /\ \A i \in DOMAIN effects : effects[i] \in Nat
           /\ tickets \in Nat
  <1>1. queue \in Seq(XdbgFrames) /\ up \in Seq(XdbgFrames) /\ job \in XdbgFrames
        /\ down \in Seq(XdbgNotes)
        /\ effects \in Seq(Nat)
    BY DEF XdbgTypeInv, XdbgWorkerType, XdbgUpType, XdbgDownType
  <1>2. \A f \in Xdbg!Pending : f \in XdbgFrames
    BY <1>1 DEF Xdbg!Pending, Xdbg!Range
  <1>3. \A a \in Xdbg!Range(down) : a \in XdbgNotes
    BY <1>1 DEF Xdbg!Range
  <1>4. \A i \in DOMAIN queue : queue[i] \in XdbgFrames /\ queue[i] \in Xdbg!Range(queue)
    BY <1>1 DEF Xdbg!Range
  <1>5. \A i \in DOMAIN effects : effects[i] \in Nat
    BY <1>1
  <1>6. server.id \in Nat /\ done \subseteq Nat /\ sent.last \in Nat /\ tickets \in Nat
    BY DEF XdbgTypeInv, XdbgWorkerType, XdbgSentType, XdbgClientType
  <1>7. \A f \in XdbgFrames : f.id \in Nat /\ f.call \in Nat
    BY DEF XdbgFrames
  <1>8. \A a \in XdbgNotes : a.id \in Nat
    BY DEF XdbgNotes
  <1> QED
    BY <1>1, <1>2, <1>3, <1>4, <1>5, <1>6, <1>7, <1>8

LEMMA XdbgIdOfSend ==
    ASSUME XdbgConstantsOK, XdbgTypeInv, XdbgLockInv, XdbgPipeInv, XdbgIdInv, NEW c \in Callers,
           Xdbg!Send(c)
    PROVE  XdbgIdInv'
  <1>1. /\ up = <<>> /\ down = <<>> /\ UNCHANGED <<queue, job, done>> /\ server' = server
        /\ sent'.last = sent.last + 1
    BY XdbgSendKept DEF Xdbg!worker
  <1>2. Xdbg!Range(down') = {}
    <2>1. down' = <<>>
      BY <1>1, XdbgSendEffect DEF Xdbg!HangUp
    <2> QED
      BY <2>1, XdbgEmptyRange
  <1>3. Xdbg!Range(up) = {}
    BY <1>1, XdbgEmptyRange
  <1>4. \A f \in Xdbg!Range(up') : f.id = sent.last + 1
    BY XdbgSendFrame
  <1>5. \A f \in XdbgComing' : f \in Xdbg!Range(queue) \/ f.id = sent.last + 1
    BY <1>1, <1>4 DEF XdbgComing
  <1>6. Xdbg!Range(queue) \subseteq XdbgComing
    BY DEF XdbgComing
  <1>7. sent.last \in Nat /\ \A f \in XdbgComing : f.id \in Nat
    BY XdbgIds DEF XdbgComing, Xdbg!Pending
  <1>8. job.id \in Nat /\ server.id \in Nat /\ \A d \in done : d \in Nat
    BY XdbgIds DEF XdbgFrames
  <1>9. \A f \in XdbgComing' : f.id \in 1..(sent.last + 1) /\ job.id < f.id
    BY <1>5, <1>6, <1>7, <1>8 DEF XdbgIdInv
  <1>10. \A f \in Xdbg!Range(queue), g \in Xdbg!Range(up') : f.id < g.id
    BY <1>4, <1>6, <1>7 DEF XdbgIdInv
  <1>11. \A d \in done : d <= sent.last + 1 /\ \A f \in XdbgComing' : d < f.id
    BY <1>5, <1>6, <1>7, <1>8 DEF XdbgIdInv
  <1>12. job.id <= sent.last + 1 /\ server.id <= sent.last + 1
    BY <1>7, <1>8 DEF XdbgIdInv
  <1> QED
    BY <1>1, <1>2, <1>9, <1>10, <1>11, <1>12 DEF XdbgIdInv

LEMMA XdbgIdOfReadFrame ==
    ASSUME XdbgTypeInv, XdbgPipeInv, XdbgIdInv, Xdbg!ReadFrame
    PROVE  XdbgIdInv'
  <1> DEFINE f == Head(up)
  <1>1. /\ Xdbg!Range(up) = {f} /\ f \in XdbgFrames /\ Xdbg!Range(up') = {}
        /\ UNCHANGED <<job, done, sent>>
    BY XdbgReadEffect, XdbgEmptyRange DEF Xdbg!client
  <1>2. f \in XdbgComing /\ f \in Xdbg!Pending /\ XdbgComing = Xdbg!Range(queue) \cup {f}
    BY <1>1 DEF XdbgComing, Xdbg!Pending
  <1>3. f.id \in 1..sent.last /\ job.id < f.id /\ \A g \in Xdbg!Range(queue) : g.id < f.id
    BY <1>1, <1>2 DEF XdbgIdInv
  <1>4. f.id \in Nat /\ sent.last \in Nat /\ job.id \in Nat
        /\ \A g \in Xdbg!Range(queue) : g.id \in Nat
    BY <1>1, XdbgIds DEF XdbgFrames, Xdbg!Pending
  <1>5. CASE /\ queue' = queue /\ server'.id = server.id
             /\ \A a \in Xdbg!Range(down') : a.id = f.id /\ (a.ok => f.kind # "call")
    <2>1. XdbgComing' \subseteq XdbgComing /\ Xdbg!Pending' \subseteq Xdbg!Pending
          /\ \A g \in Xdbg!Pending' : g \in Xdbg!Range(queue) \/ g = job
      BY <1>1, <1>5 DEF XdbgComing, Xdbg!Pending
    <2>2. \A g \in Xdbg!Pending' : g.id # f.id
      BY <1>3, <1>4, <2>1
    <2>3. f.id <= sent.last
      BY <1>3
    <2> QED
      BY <1>1, <1>5, <2>1, <2>2, <2>3 DEF XdbgIdInv
  <1>6. CASE queue' = Append(queue, f) /\ server'.id = f.id /\ down' = <<>>
    <2>0. queue \in Seq(XdbgFrames)
      BY XdbgIds
    <2>1. Xdbg!Range(queue') = Xdbg!Range(queue) \cup {f}
      BY <1>1, <1>6, <2>0, XdbgAppendFacts
    <2>2. XdbgComing' = XdbgComing /\ Xdbg!Pending' = Xdbg!Pending
      BY <1>1, <1>2, <2>1 DEF XdbgComing, Xdbg!Pending
    <2>3. ASSUME NEW i \in DOMAIN queue', NEW j \in DOMAIN queue', i < j
          PROVE  queue'[i].id < queue'[j].id
      <3>1. /\ i \in DOMAIN queue /\ queue'[i] = queue[i] /\ queue'[i] \in Xdbg!Range(queue)
            /\ (j \in DOMAIN queue /\ queue'[j] = queue[j]) \/ queue'[j] = f
        BY <1>1, <1>6, <2>0, <2>3, XdbgAppendPairs
      <3> QED
        BY <1>3, <2>3, <3>1 DEF XdbgIdInv
    <2>4. Xdbg!Range(down') = {}
      BY <1>6, XdbgEmptyRange
    <2>5. f.id <= sent.last
      BY <1>3
    <2> QED
      BY <1>1, <1>6, <2>2, <2>3, <2>4, <2>5 DEF XdbgIdInv
  <1> QED
    BY <1>5, <1>6, XdbgReadEffect

LEMMA XdbgIdOfAnswerJob ==
    ASSUME XdbgTypeInv, XdbgPipeInv, XdbgIdInv, Xdbg!JobDone \/ Xdbg!DispatchTimeout
    PROVE  XdbgIdInv'
  <1>1. /\ UNCHANGED <<up, queue, job, done, sent>> /\ server'.id = server.id
        /\ \A a \in Xdbg!Range(down') : a.id = server.id /\ (a.ok => server.id \in done)
    BY XdbgAnswerJobEffect DEF Xdbg!client
  <1>2. XdbgComing' = XdbgComing /\ Xdbg!Pending' = Xdbg!Pending
        /\ Xdbg!Pending = XdbgComing \cup {job}
    BY <1>1 DEF XdbgComing, Xdbg!Pending
  <1>3. ASSUME server.id \in done, NEW g \in Xdbg!Pending, g.kind = "call"
        PROVE  g.id # server.id
    <2>1. CASE g \in XdbgComing
      <3>1. server.id < g.id /\ server.id \in Nat /\ g.id \in Nat
        BY <1>3, <2>1, XdbgIds DEF XdbgIdInv
      <3> QED
        BY <3>1
    <2>2. CASE g = job
      <3>1. job # Xdbg!NoJob
        BY <1>3, <2>2, XdbgNoJobType
      <3>2. server.id < job.id /\ server.id \in Nat /\ job.id \in Nat
        BY <1>3, <2>2, <3>1, XdbgIds DEF XdbgIdInv, XdbgFrames
      <3> QED
        BY <2>2, <3>2
    <2> QED
      BY <1>2, <2>1, <2>2
  <1> QED
    BY <1>1, <1>2, <1>3 DEF XdbgIdInv

LEMMA XdbgIdOfMainTakes ==
    ASSUME XdbgTypeInv, XdbgIdInv, Xdbg!MainTakes
    PROVE  XdbgIdInv'
  <1> DEFINE f == Head(queue)
  <1>0. queue \in Seq(XdbgFrames) /\ queue # <<>> /\ queue' = Tail(queue)
    BY XdbgIds DEF Xdbg!MainTakes
  <1>1. /\ job = Xdbg!NoJob /\ UNCHANGED <<up, down, server, sent>>
        /\ \/ done' = done \cup {f.id} /\ job' = job
           \/ job' = f /\ done' = done
    BY DEF Xdbg!MainTakes, Xdbg!client
  <1>2. /\ f \in XdbgFrames /\ f \in Xdbg!Range(queue)
           /\ Xdbg!Range(queue') \subseteq Xdbg!Range(queue)
        /\ \A g \in Xdbg!Range(queue') : \E j \in DOMAIN queue : 1 < j /\ g = queue[j]
        /\ 1 \in DOMAIN queue /\ f = queue[1]
    BY <1>0, XdbgTailPairs
  <1>3. \A g \in Xdbg!Range(queue') : f.id < g.id
    BY <1>2 DEF XdbgIdInv
  <1>4. f \in XdbgComing /\ XdbgComing' \subseteq XdbgComing /\ Xdbg!Pending' \subseteq Xdbg!Pending
        /\ \A g \in XdbgComing' : g \in Xdbg!Range(queue') \/ g \in Xdbg!Range(up)
    BY <1>1, <1>2 DEF XdbgComing, Xdbg!Pending
  <1>5. \A g \in XdbgComing' : f.id < g.id
    BY <1>2, <1>3, <1>4 DEF XdbgIdInv
  <1>6. f.id \in 1..sent.last /\ sent.last \in Nat
    BY <1>4, XdbgIds DEF XdbgIdInv
  <1>7. f.id <= sent.last /\ f.id # 0
    BY <1>6
  <1>8. \A i, j \in DOMAIN queue' : i < j => queue'[i].id < queue'[j].id
    <2>1. \A i, j \in DOMAIN queue' : i < j =>
             /\ i + 1 \in DOMAIN queue /\ j + 1 \in DOMAIN queue /\ i + 1 < j + 1
             /\ queue'[i] = queue[i + 1] /\ queue'[j] = queue[j + 1]
      BY <1>0, XdbgTailPairs
    <2> QED
      BY <2>1 DEF XdbgIdInv
  <1>9. \A g \in Xdbg!Range(queue'), h \in Xdbg!Range(up') : g.id < h.id
    BY <1>1, <1>2 DEF XdbgIdInv
  <1>10. \A a \in Xdbg!Range(down') : a.id <= sent'.last
         /\ (a.ok => \A g \in Xdbg!Pending' : g.kind = "call" => g.id # a.id)
    BY <1>1, <1>4 DEF XdbgIdInv
  <1>11. \A g \in XdbgComing' : g.id \in 1..sent'.last
    BY <1>1, <1>4 DEF XdbgIdInv
  <1>12. CASE done' = done \cup {f.id} /\ job' = job
    <2>1. \A d \in done' : d <= sent'.last /\ (job' # Xdbg!NoJob => d < job'.id)
          /\ \A g \in XdbgComing' : d < g.id
      BY <1>1, <1>4, <1>5, <1>7, <1>12 DEF XdbgIdInv
    <2> QED
      BY <1>1, <1>4, <1>8, <1>9, <1>10, <1>11, <1>12, <2>1 DEF XdbgIdInv
  <1>13. CASE job' = f /\ done' = done
    <2>1. \A d \in done' : d <= sent'.last /\ (job' # Xdbg!NoJob => d < job'.id)
          /\ \A g \in XdbgComing' : d < g.id
      BY <1>1, <1>4, <1>13 DEF XdbgIdInv
    <2> QED
      BY <1>1, <1>5, <1>7, <1>8, <1>9, <1>10, <1>11, <1>13, <2>1 DEF XdbgIdInv
  <1> QED
    BY <1>1, <1>12, <1>13

LEMMA XdbgIdOfMainFinishes ==
    ASSUME XdbgTypeInv, XdbgIdInv, Xdbg!MainFinishes
    PROVE  XdbgIdInv'
  <1>1. /\ job' = Xdbg!NoJob /\ done' = done \cup {job.id}
        /\ UNCHANGED <<up, down, server, sent, queue>>
    BY DEF Xdbg!MainFinishes, Xdbg!client
  <1>2. XdbgComing' = XdbgComing /\ \A g \in Xdbg!Pending' : g.kind = "call" => g \in Xdbg!Pending
    BY <1>1, XdbgNoJobType DEF XdbgComing, Xdbg!Pending
  <1>3. sent.last \in Nat /\ \A g \in XdbgComing : g.id \in Nat
    BY XdbgIds DEF XdbgComing, Xdbg!Pending
  <1>4. 0 <= sent.last /\ \A g \in XdbgComing : 0 < g.id
    BY <1>3 DEF XdbgIdInv
  <1>5. job'.id = 0
    BY <1>1, XdbgNoJobType
  <1> QED
    BY <1>1, <1>2, <1>4, <1>5 DEF XdbgIdInv

-----------------------------------------------------------------------------
(* The order of the calls *)

LEMMA XdbgOrderKept ==
    ASSUME XdbgTypeInv, XdbgOrderInv, XdbgStill, tickets' = tickets \/ tickets' = tickets + 1
    PROVE  XdbgOrderInv'
  <1>1. XdbgComing' = XdbgComing /\ Xdbg!Pending' = Xdbg!Pending /\ UNCHANGED <<queue, up, job,
        effects>>
    BY DEF XdbgStill, XdbgComing, Xdbg!Pending
  <1>2. /\ tickets \in Nat /\ \A f \in Xdbg!Pending : f.call \in Nat
        /\ \A i \in DOMAIN effects : effects[i] \in Nat
    BY XdbgIds
  <1>3. /\ \A f \in Xdbg!Pending : XdbgIsCall(f) => f.call <= tickets'
        /\ \A i \in DOMAIN effects : effects[i] <= tickets'
    BY <1>2 DEF XdbgOrderInv
  <1> QED
    BY <1>1, <1>3 DEF XdbgOrderInv, Xdbg!OnceInOrder, XdbgIsCall

LEMMA XdbgOrderOfSend ==
    ASSUME XdbgConstantsOK, XdbgTypeInv, XdbgLockInv, XdbgPipeInv, XdbgOrderInv, XdbgMineInv,
           NEW c \in Callers, Xdbg!Send(c)
    PROVE  XdbgOrderInv'
  <1>1. /\ up = <<>> /\ holder = c /\ at[c] \in {"hello", "send"}
        /\ UNCHANGED <<queue, job, effects, tickets>>
    BY XdbgSendKept DEF Xdbg!worker
  <1>2. \A f \in Xdbg!Range(up') : f.call = tickets
    <2>1. call[c] = tickets
      BY <1>1 DEF XdbgLockInv
    <2> QED
      BY <2>1, XdbgSendFrame
  <1>3. /\ \A f \in Xdbg!Pending : XdbgIsCall(f) => f.call < tickets
        /\ \A i \in DOMAIN effects : effects[i] < tickets
    BY <1>1 DEF XdbgMineInv, XdbgSent
  <1>4. Xdbg!Pending' = Xdbg!Range(queue) \cup Xdbg!Range(up') \cup {job}
        /\ XdbgComing' = Xdbg!Range(queue) \cup Xdbg!Range(up')
    BY <1>1 DEF Xdbg!Pending, XdbgComing
  <1>5. Xdbg!Range(queue) \subseteq Xdbg!Pending /\ job \in Xdbg!Pending
        /\ Xdbg!Range(queue) \subseteq XdbgComing
    BY DEF Xdbg!Pending, XdbgComing
  <1>6. tickets \in Nat
    BY XdbgIds
  <1>7. \A f \in Xdbg!Pending' : XdbgIsCall(f) => f.call <= tickets
    BY <1>2, <1>4, <1>5, <1>6 DEF XdbgOrderInv
  <1>8. \A f \in XdbgComing' : XdbgIsCall(f) /\ XdbgIsCall(job) => job.call < f.call
    BY <1>2, <1>3, <1>4, <1>5 DEF XdbgOrderInv
  <1>9. \A f \in Xdbg!Range(queue), g \in Xdbg!Range(up') : XdbgIsCall(f) /\ XdbgIsCall(g)
        => f.call < g.call
    BY <1>2, <1>3, <1>5
  <1>10. \A i \in DOMAIN effects : \A f \in Xdbg!Pending' : f.kind = "call" => effects[i] < f.call
    BY <1>2, <1>3, <1>4, <1>5 DEF XdbgOrderInv, Xdbg!OnceInOrder
  <1> QED
    BY <1>1, <1>4, <1>7, <1>8, <1>9, <1>10 DEF XdbgOrderInv, Xdbg!OnceInOrder, XdbgIsCall

LEMMA XdbgOrderOfReadFrame ==
    ASSUME XdbgTypeInv, XdbgPipeInv, XdbgOrderInv, Xdbg!ReadFrame
    PROVE  XdbgOrderInv'
  <1> DEFINE f == Head(up)
  <1>1. /\ Xdbg!Range(up) = {f} /\ f \in XdbgFrames /\ Xdbg!Range(up') = {}
        /\ UNCHANGED <<job, effects, tickets>>
        /\ queue' = queue \/ queue' = Append(queue, f)
    BY XdbgReadEffect, XdbgEmptyRange DEF Xdbg!client
  <1>2. queue \in Seq(XdbgFrames) /\ f \in XdbgComing
    BY <1>1, XdbgIds DEF XdbgComing
  <1>3. Xdbg!Range(queue') \subseteq Xdbg!Range(queue) \cup {f}
    <2>1. Xdbg!Range(Append(queue, f)) = Xdbg!Range(queue) \cup {f}
      BY <1>1, <1>2, XdbgAppendRange
    <2> QED
      BY <1>1, <2>1
  <1>4. XdbgComing' \subseteq XdbgComing /\ Xdbg!Pending' \subseteq Xdbg!Pending
    BY <1>1, <1>3 DEF XdbgComing, Xdbg!Pending
  <1>5. ASSUME NEW i \in DOMAIN queue', NEW j \in DOMAIN queue', i < j,
               XdbgIsCall(queue'[i]), XdbgIsCall(queue'[j])
        PROVE  queue'[i].call < queue'[j].call
    <2>1. CASE queue' = queue
      BY <1>5, <2>1 DEF XdbgOrderInv
    <2>2. CASE queue' = Append(queue, f)
      <3>1. /\ i \in DOMAIN queue /\ queue'[i] = queue[i] /\ queue'[i] \in Xdbg!Range(queue)
            /\ (j \in DOMAIN queue /\ queue'[j] = queue[j]) \/ queue'[j] = f
        BY <1>1, <1>2, <1>5, <2>2, XdbgAppendPairs
      <3> QED
        BY <1>1, <1>5, <3>1 DEF XdbgOrderInv
    <2> QED
      BY <1>1, <2>1, <2>2
  <1>6. \A i \in DOMAIN effects : \A g \in Xdbg!Pending' : g.kind = "call" => effects[i] < g.call
    BY <1>4 DEF XdbgOrderInv, Xdbg!OnceInOrder, Xdbg!Pending
  <1> QED
    BY <1>1, <1>4, <1>5, <1>6 DEF XdbgOrderInv, Xdbg!OnceInOrder, XdbgIsCall, Xdbg!Pending

LEMMA XdbgOrderOfMainTakes ==
    ASSUME XdbgTypeInv, XdbgOrderInv, Xdbg!MainTakes
    PROVE  XdbgOrderInv'
  <1> DEFINE f == Head(queue)
  <1>0. queue \in Seq(XdbgFrames) /\ queue # <<>> /\ queue' = Tail(queue)
    BY XdbgIds DEF Xdbg!MainTakes
  <1>1. /\ UNCHANGED <<up, effects, tickets>> /\ (job' = Xdbg!NoJob \/ job' = f)
        /\ job = Xdbg!NoJob
    BY DEF Xdbg!MainTakes, Xdbg!client
  <1>2. /\ f \in Xdbg!Range(queue) /\ Xdbg!Range(queue') \subseteq Xdbg!Range(queue)
        /\ \A g \in Xdbg!Range(queue') : \E j \in DOMAIN queue : 1 < j /\ g = queue[j]
        /\ 1 \in DOMAIN queue /\ f = queue[1]
    BY <1>0, XdbgTailPairs
  <1>3. \A g \in Xdbg!Range(queue') : XdbgIsCall(f) /\ XdbgIsCall(g) => f.call < g.call
    BY <1>2 DEF XdbgOrderInv
  <1>4. XdbgComing' \subseteq XdbgComing /\ \A g \in Xdbg!Pending' : g \in Xdbg!Pending
    BY <1>1, <1>2 DEF XdbgComing, Xdbg!Pending
  <1>5. ~XdbgIsCall(Xdbg!NoJob)
    BY XdbgNoJobType DEF XdbgIsCall
  <1>6. \A g \in XdbgComing' : XdbgIsCall(g) /\ XdbgIsCall(job') => job'.call < g.call
    <2>1. \A g \in XdbgComing' : g \in Xdbg!Range(queue') \/ g \in Xdbg!Range(up)
      BY <1>1 DEF XdbgComing
    <2> QED
      BY <1>1, <1>2, <1>3, <1>5, <2>1 DEF XdbgOrderInv
  <1>7. \A i, j \in DOMAIN queue' : i < j /\ XdbgIsCall(queue'[i]) /\ XdbgIsCall(queue'[j])
           => queue'[i].call < queue'[j].call
    <2>1. \A i, j \in DOMAIN queue' : i < j =>
             /\ i + 1 \in DOMAIN queue /\ j + 1 \in DOMAIN queue /\ i + 1 < j + 1
             /\ queue'[i] = queue[i + 1] /\ queue'[j] = queue[j + 1]
      BY <1>0, XdbgTailPairs
    <2> QED
      BY <2>1 DEF XdbgOrderInv
  <1>8. \A g \in Xdbg!Range(queue'), h \in Xdbg!Range(up') : XdbgIsCall(g) /\ XdbgIsCall(h)
        => g.call < h.call
    BY <1>1, <1>2 DEF XdbgOrderInv
  <1>9. \A i \in DOMAIN effects : \A g \in Xdbg!Pending' : g.kind = "call" => effects[i] < g.call
    BY <1>4 DEF XdbgOrderInv, Xdbg!OnceInOrder, Xdbg!Pending
  <1> QED
    BY <1>1, <1>4, <1>6, <1>7, <1>8, <1>9 DEF XdbgOrderInv, Xdbg!OnceInOrder, XdbgIsCall,
       Xdbg!Pending

LEMMA XdbgOrderOfMainFinishes ==
    ASSUME XdbgTypeInv, XdbgOrderInv, Xdbg!MainFinishes
    PROVE  XdbgOrderInv'
  <1>1. /\ job' = Xdbg!NoJob /\ UNCHANGED <<up, queue, tickets>>
        /\ effects' = effects \/ (XdbgIsCall(job) /\ effects' = Append(effects, job.call))
    BY DEF Xdbg!MainFinishes, Xdbg!client, XdbgIsCall
  <1>2. XdbgComing' = XdbgComing /\ \A g \in Xdbg!Pending' : XdbgIsCall(g) => g \in XdbgComing
    BY <1>1, XdbgNoJobType DEF XdbgComing, Xdbg!Pending, XdbgIsCall
  <1>3. XdbgComing \subseteq Xdbg!Pending /\ job \in Xdbg!Pending
    BY DEF XdbgComing, Xdbg!Pending
  <1>4. ~XdbgIsCall(job')
    BY <1>1, XdbgNoJobType DEF XdbgIsCall
  <1>5. /\ \A i, j \in DOMAIN effects : i < j => effects[i] < effects[j]
        /\ \A i \in DOMAIN effects : effects[i] <= tickets
        /\ \A i \in DOMAIN effects : \A g \in Xdbg!Pending : XdbgIsCall(g) => effects[i] < g.call
    BY DEF XdbgOrderInv, Xdbg!OnceInOrder, Xdbg!Pending, XdbgIsCall
  <1>6. CASE effects' = effects
    BY <1>1, <1>2, <1>3, <1>4, <1>5, <1>6 DEF XdbgOrderInv, Xdbg!OnceInOrder, Xdbg!Pending,
       XdbgIsCall
  <1>7. CASE XdbgIsCall(job) /\ effects' = Append(effects, job.call)
    <2>1. effects \in Seq(Nat) /\ job.call \in Nat /\ job.call <= tickets
      BY <1>3, <1>7, XdbgIds DEF XdbgOrderInv
    <2>2. ASSUME NEW i \in DOMAIN effects', NEW j \in DOMAIN effects', i < j
          PROVE  effects'[i] < effects'[j]
      <3>1. /\ i \in DOMAIN effects /\ effects'[i] = effects[i]
            /\ (j \in DOMAIN effects /\ effects'[j] = effects[j]) \/ effects'[j] = job.call
        BY <1>7, <2>1, <2>2, XdbgAppendPairs
      <3> QED
        BY <1>3, <1>5, <1>7, <2>2, <3>1
    <2>3. ASSUME NEW i \in DOMAIN effects'
          PROVE  effects'[i] = job.call \/ \E j \in DOMAIN effects : effects'[i] = effects[j]
      <3>1. /\ DOMAIN effects' = 1..(Len(effects) + 1) /\ DOMAIN effects = 1..Len(effects)
            /\ \A j \in DOMAIN effects : effects'[j] = effects[j]
            /\ effects'[Len(effects) + 1] = job.call /\ Len(effects) \in Nat
        BY <1>7, <2>1, XdbgAppendFacts
      <3>2. i \in DOMAIN effects \/ i = Len(effects) + 1
        BY <3>1
      <3> QED
        BY <3>1, <3>2
    <2>4. \A i \in DOMAIN effects' : effects'[i] <= tickets
      BY <1>5, <2>1, <2>3
    <2>5. \A i \in DOMAIN effects' : \A g \in XdbgComing : XdbgIsCall(g) => effects'[i] < g.call
      <3>1. \A g \in XdbgComing : XdbgIsCall(g) => job.call < g.call
        BY <1>7 DEF XdbgOrderInv
      <3> QED
        BY <1>3, <1>5, <2>3, <3>1
    <2> QED
      BY <1>1, <1>2, <1>3, <1>4, <2>2, <2>4, <2>5 DEF XdbgOrderInv, Xdbg!OnceInOrder,
         Xdbg!Pending, XdbgIsCall
  <1> QED
    BY <1>1, <1>6, <1>7

-----------------------------------------------------------------------------
(* The call in progress, and what the callers are told *)

(* What a caller may be told as it gives the lock back                      *)
XdbgSays(c, what) ==
    /\ op[c] = "request" /\ holder' = Xdbg!Free
    /\ told' = [told EXCEPT ![tickets] = what]

(* What a step of the client tells: nothing, what it does not know, that    *)
(* the call was never sent, or that it was done.                            *)
XdbgVerdict(c) ==
    \/ told' = told
    \/ XdbgSays(c, "unsure")
    \/ XdbgSays(c, "refused") /\ ~XdbgSent(c)
    \/ XdbgSays(c, "ok") /\ XdbgSent(c) /\ Xdbg!Good(c) /\ down # <<>>

(* A step of the caller that has the lock, which says its verdict as it     *)
(* leaves.                                                                  *)
XdbgMoves(c) ==
    /\ holder = c /\ UNCHANGED <<op, tickets>>
    /\ \E p \in XdbgPlaces :
          /\ at' = [at EXCEPT ![c] = p]
          /\ \/ holder' = Xdbg!Free /\ p = "idle"
             \/ holder' = c /\ p # "await" /\ ~XdbgSent(c)

LEMMA XdbgTelling ==
    ASSUME XdbgLockInv, NEW c \in Callers, holder = c, NEW what, Xdbg!Tell(c, what),
           holder' = Xdbg!Free
    PROVE  told' = told \/ XdbgSays(c, what)
  BY DEF XdbgLockInv, Xdbg!Tell, XdbgSays

LEMMA XdbgFailMoves ==
    ASSUME XdbgTypeInv, XdbgLockInv, NEW c \in Callers, holder = c, Xdbg!Fail(c), UNCHANGED <<op,
           tickets>>
    PROVE  XdbgMoves(c) /\ XdbgVerdict(c)
  <1>1. CASE /\ op[c] = "close" /\ UNCHANGED <<holder, told>>
             /\ at' = [at EXCEPT ![c] = "exit"]
    BY <1>1 DEF XdbgMoves, XdbgVerdict, XdbgPlaces, XdbgSent
  <1>2. CASE /\ op[c] # "close" /\ holder' = Xdbg!Free /\ at' = [at EXCEPT ![c] = "idle"]
             /\ Xdbg!Tell(c, IF at[c] \in {"hello", "await hello"} THEN "refused" ELSE "unsure")
    <2>1. XdbgMoves(c)
      BY <1>2 DEF XdbgMoves, XdbgPlaces
    <2>2. CASE at[c] \in {"hello", "await hello"}
      <3>1. told' = told \/ XdbgSays(c, "refused")
        BY <1>2, <2>2, XdbgTelling
      <3>2. ~XdbgSent(c)
        BY <2>2 DEF XdbgSent
      <3> QED
        BY <2>1, <3>1, <3>2 DEF XdbgVerdict
    <2>3. CASE at[c] \notin {"hello", "await hello"}
      <3>1. told' = told \/ XdbgSays(c, "unsure")
        BY <1>2, <2>3, XdbgTelling
      <3> QED
        BY <2>1, <3>1 DEF XdbgVerdict
    <2> QED
      BY <2>2, <2>3
  <1> QED
    BY <1>1, <1>2, XdbgFailEffect

LEMMA XdbgHolderSteps ==
    ASSUME XdbgConstantsOK, XdbgTypeInv, XdbgLockInv, NEW c \in Callers,
           Xdbg!Connect(c) \/ Xdbg!Watch(c) \/ Xdbg!Drop(c) \/ Xdbg!Answer(c) \/ Xdbg!Exit(c)
    PROVE  XdbgMoves(c) /\ XdbgVerdict(c)
  <1>1. CASE Xdbg!Connect(c)
    <2>1. holder = c /\ at[c] = "connect" /\ UNCHANGED <<op, tickets>> /\ ~XdbgSent(c)
      BY <1>1 DEF Xdbg!Connect, XdbgLockInv, XdbgSent
    <2>2. CASE at' = [at EXCEPT ![c] = "hello"] /\ UNCHANGED <<holder, told>>
      BY <2>1, <2>2 DEF XdbgMoves, XdbgVerdict, XdbgPlaces
    <2>3. CASE Xdbg!Tell(c, "refused") /\ at' = [at EXCEPT ![c] = "idle"] /\ holder' = Xdbg!Free
      <3>1. told' = told \/ XdbgSays(c, "refused")
        BY <2>1, <2>3, XdbgTelling
      <3> QED
        BY <2>1, <2>3, <3>1 DEF XdbgMoves, XdbgVerdict, XdbgPlaces
    <2> QED
      BY <1>1, <2>2, <2>3 DEF Xdbg!Connect, Xdbg!Goto, Xdbg!Leave
  <1>2. CASE Xdbg!Watch(c)
    <2>1. holder = c /\ at[c] = "watch" /\ UNCHANGED <<op, tickets>> /\ ~XdbgSent(c)
      BY <1>2 DEF Xdbg!Watch, XdbgLockInv, XdbgSent
    <2>2. CASE at' = [at EXCEPT ![c] = "send"] /\ UNCHANGED <<holder, told>>
      BY <2>1, <2>2 DEF XdbgMoves, XdbgVerdict, XdbgPlaces
    <2>3. CASE Xdbg!Tell(c, "refused") /\ at' = [at EXCEPT ![c] = "idle"] /\ holder' = Xdbg!Free
      <3>1. told' = told \/ XdbgSays(c, "refused")
        BY <2>1, <2>3, XdbgTelling
      <3> QED
        BY <2>1, <2>3, <3>1 DEF XdbgMoves, XdbgVerdict, XdbgPlaces
    <2> QED
      BY <1>2, <2>2, <2>3 DEF Xdbg!Watch, Xdbg!Goto, Xdbg!Leave
  <1>3. CASE Xdbg!Drop(c)
    BY <1>3, XdbgFailMoves, XdbgAwaitsHolds DEF Xdbg!Drop, Xdbg!Expires
  <1>4. CASE Xdbg!Answer(c)
    <2>1. holder = c /\ down # <<>> /\ UNCHANGED <<op, tickets>>
      BY <1>4, XdbgAnswerEffect
    <2>2. CASE Xdbg!Fail(c)
      BY <2>1, <2>2, XdbgFailMoves
    <2>3. CASE at[c] = "await" /\ op[c] = "request" /\ Xdbg!Good(c) /\ Xdbg!Tell(c, "ok")
               /\ Xdbg!Leave(c)
      <3>1. holder' = Xdbg!Free /\ at' = [at EXCEPT ![c] = "idle"]
        BY <2>3 DEF Xdbg!Leave, Xdbg!Goto
      <3>2. told' = told \/ XdbgSays(c, "ok")
        BY <2>1, <2>3, <3>1, XdbgTelling
      <3> QED
        BY <2>1, <2>3, <3>1, <3>2 DEF XdbgMoves, XdbgVerdict, XdbgPlaces, XdbgSent
    <2>4. CASE UNCHANGED told /\ Xdbg!Leave(c)
      BY <2>1, <2>4 DEF XdbgMoves, XdbgVerdict, XdbgPlaces, Xdbg!Leave, Xdbg!Goto
    <2>5. CASE /\ UNCHANGED <<holder, told>>
               /\ \/ at[c] = "await hello" /\ at' = [at EXCEPT ![c] = "watch"]
                  \/ op[c] = "close" /\ at' = [at EXCEPT ![c] = "send"]
                  \/ op[c] = "close" /\ at' = [at EXCEPT ![c] = "exit"]
      <3>1. ~XdbgSent(c)
        BY <2>5 DEF XdbgSent
      <3> QED
        BY <2>1, <2>5, <3>1 DEF XdbgMoves, XdbgVerdict, XdbgPlaces
    <2> QED
      BY <1>4, <2>2, <2>3, <2>4, <2>5, XdbgAnswerEffect
  <1>5. CASE Xdbg!Exit(c)
    BY <1>5 DEF Xdbg!Exit, XdbgLockInv, Xdbg!Leave, Xdbg!Goto, XdbgMoves, XdbgVerdict, XdbgPlaces
  <1> QED
    BY <1>1, <1>2, <1>3, <1>4, <1>5

LEMMA XdbgStillPending ==
    ASSUME XdbgStill
    PROVE  Xdbg!Pending' = Xdbg!Pending /\ XdbgComing' = XdbgComing /\ UNCHANGED <<effects, sent>>
  BY DEF XdbgStill, Xdbg!Pending, XdbgComing

LEMMA XdbgMineOfMoves ==
    ASSUME XdbgConstantsOK, XdbgTypeInv, XdbgLockInv, XdbgMineInv, NEW c \in Callers,
           XdbgMoves(c), XdbgStill
    PROVE  XdbgMineInv'
  <1>1. Xdbg!Pending' = Xdbg!Pending /\ UNCHANGED <<effects, sent, op, tickets>> /\ holder = c
    BY XdbgStillPending DEF XdbgMoves
  <1>2. PICK p \in XdbgPlaces :
          /\ at' = [at EXCEPT ![c] = p]
          /\ \/ holder' = Xdbg!Free /\ p = "idle"
             \/ holder' = c /\ p # "await" /\ ~XdbgSent(c)
    BY DEF XdbgMoves
  <1>3. \A d \in Callers : ~XdbgSent(d)'
    <2>1. ASSUME NEW d \in Callers, d # c
          PROVE  at'[d] # "await"
      BY <1>1, <1>2, <2>1 DEF XdbgLockInv, XdbgTypeInv, XdbgClientType
    <2>2. at'[c] # "await"
      BY <1>2 DEF XdbgTypeInv, XdbgClientType
    <2> QED
      BY <2>1, <2>2 DEF XdbgSent
  <1>4. ASSUME NEW d \in Callers, holder' = d
        PROVE  /\ \A f \in Xdbg!Pending : XdbgIsCall(f) => f.call < tickets
               /\ \A i \in DOMAIN effects : effects[i] < tickets
    <2>1. d = c /\ ~XdbgSent(c)
      BY <1>2, <1>4 DEF XdbgConstantsOK
    <2> QED
      BY <1>1, <2>1 DEF XdbgMineInv
  <1> QED
    BY <1>1, <1>3, <1>4 DEF XdbgMineInv, XdbgIsCall

LEMMA XdbgMineOfCall ==
    ASSUME XdbgTypeInv, XdbgLockInv, XdbgMineInv, NEW c \in Callers, NEW o \in Xdbg!Ops,
           Xdbg!Call(c, o), XdbgStill
    PROVE  XdbgMineInv'
  <1>1. /\ Xdbg!Pending' = Xdbg!Pending /\ UNCHANGED <<effects, sent, holder, tickets>>
        /\ at[c] = "idle" /\ at' = [at EXCEPT ![c] = "lock"] /\ op' = [op EXCEPT ![c] = o]
    BY XdbgStillPending DEF Xdbg!Call, Xdbg!Goto
  <1>2. holder # c /\ ~XdbgSent(c)'
    BY <1>1 DEF XdbgLockInv, XdbgSent, XdbgTypeInv, XdbgClientType
  <1>3. \A d \in Callers : d # c => (XdbgSent(d)' <=> XdbgSent(d))
    BY <1>1 DEF XdbgSent, XdbgTypeInv, XdbgClientType
  <1> QED
    BY <1>1, <1>2, <1>3 DEF XdbgMineInv, XdbgIsCall

LEMMA XdbgMineOfEnter ==
    ASSUME XdbgConstantsOK, XdbgTypeInv, XdbgLockInv, XdbgOrderInv, NEW c \in Callers,
           Xdbg!Enter(c), XdbgStill
    PROVE  XdbgMineInv'
  <1>1. /\ Xdbg!Pending' = Xdbg!Pending /\ UNCHANGED <<effects, sent>>
        /\ tickets' = tickets + 1 /\ holder = Xdbg!Free
        /\ at[c] = "lock" /\ \E p \in XdbgPlaces : p # "await" /\ at' = [at EXCEPT ![c] = p]
    BY XdbgStillPending DEF Xdbg!Enter, Xdbg!Locks, Xdbg!Goto, XdbgPlaces
  <1>2. \A d \in Callers : at[d] # "await"
    BY <1>1 DEF XdbgLockInv, XdbgConstantsOK
  <1>3. \A d \in Callers : ~XdbgSent(d)'
    BY <1>1, <1>2 DEF XdbgSent, XdbgTypeInv, XdbgClientType
  <1>4. /\ tickets \in Nat /\ \A f \in Xdbg!Pending : f.call \in Nat
        /\ \A i \in DOMAIN effects : effects[i] \in Nat
    BY XdbgIds
  <1>5. /\ \A f \in Xdbg!Pending : XdbgIsCall(f) => f.call < tickets + 1
        /\ \A i \in DOMAIN effects : effects[i] < tickets + 1
    BY <1>4 DEF XdbgOrderInv
  <1> QED
    BY <1>1, <1>3, <1>5 DEF XdbgMineInv, XdbgIsCall

LEMMA XdbgMineOfSend ==
    ASSUME XdbgConstantsOK, XdbgTypeInv, XdbgLockInv, XdbgPipeInv, XdbgMineInv, NEW c \in Callers,
           Xdbg!Send(c)
    PROVE  XdbgMineInv'
  <1>1. /\ up = <<>> /\ holder = c /\ at[c] \in {"hello", "send"}
        /\ UNCHANGED <<queue, job, effects, tickets, op>>
    BY XdbgSendKept DEF Xdbg!worker
  <1>2. ~XdbgSent(c) /\ call[c] = tickets
    BY <1>1 DEF XdbgSent, XdbgLockInv
  <1>3. /\ \A f \in Xdbg!Pending : XdbgIsCall(f) => f.call < tickets
        /\ \A i \in DOMAIN effects : effects[i] < tickets
    BY <1>1, <1>2 DEF XdbgMineInv
  <1>4. \A f \in Xdbg!Pending' : f \in Xdbg!Pending \/ f \in Xdbg!Range(up')
    BY <1>1 DEF Xdbg!Pending
  <1>5. \A f \in Xdbg!Range(up') : /\ f.id = sent.last + 1
                                   /\ XdbgIsCall(f) => at[c] = "send" /\ op[c] = "request"
    BY XdbgSendFrame
  <1>6. \A d \in Callers : d # c => ~XdbgSent(d) /\ at[d] # "await"
    BY <1>1 DEF XdbgLockInv, XdbgSent
  <1>7. CASE /\ UNCHANGED holder
             /\ sent'.of = [sent.of EXCEPT ![c] = sent.last + 1]
             /\ Xdbg!Goto(c, IF at[c] = "hello" THEN "await hello" ELSE "await")
    <2>1. /\ \A d \in Callers : d # c => ~XdbgSent(d)'
          /\ at'[c] = IF at[c] = "hello" THEN "await hello" ELSE "await"
      BY <1>6, <1>7 DEF Xdbg!Goto, XdbgSent, XdbgTypeInv, XdbgClientType
    <2>2. ASSUME ~XdbgSent(c)'
          PROVE  \A f \in Xdbg!Pending' : XdbgIsCall(f) => f.call < tickets
      <3>1. ~(at[c] = "send" /\ op[c] = "request")
        <4>1. at[c] = "send" => at'[c] = "await"
          BY <2>1
        <4>2. op'[c] = op[c]
          BY <1>1
        <4> QED
          BY <2>2, <4>1, <4>2 DEF XdbgSent
      <3>2. \A f \in Xdbg!Range(up') : ~XdbgIsCall(f)
        BY <1>5, <3>1
      <3> QED
        BY <1>3, <1>4, <3>2
    <2>3. sent'.of[c] = sent.last + 1
      BY <1>7 DEF XdbgTypeInv, XdbgSentType
    <2>4. \A f \in Xdbg!Pending' : XdbgIsCall(f) /\ f.call = tickets => f.id = sent'.of[c]
      <3>1. \A f \in Xdbg!Pending : XdbgIsCall(f) => f.call # tickets
        <4>1. \A f \in Xdbg!Pending : f.call \in Nat
          BY XdbgIds
        <4>2. tickets \in Nat
          BY XdbgIds
        <4> QED
          BY <1>3, <4>1, <4>2
      <3> QED
        BY <1>4, <1>5, <2>3, <3>1
    <2> QED
      BY <1>1, <1>3, <1>7, <2>1, <2>2, <2>4 DEF XdbgMineInv, XdbgIsCall
  <1>8. CASE Xdbg!Fail(c)
    <2>2. PICK p \in XdbgPlaces :
            /\ at' = [at EXCEPT ![c] = p]
            /\ \/ holder' = Xdbg!Free /\ p = "idle"
               \/ holder' = c /\ p = "exit" /\ op[c] = "close"
      BY <1>1, <1>8, XdbgFailEffect DEF XdbgPlaces
    <2>3. \A d \in Callers : ~XdbgSent(d)'
      BY <1>6, <2>2 DEF XdbgSent, XdbgTypeInv, XdbgClientType
    <2>4. ASSUME NEW d \in Callers, holder' = d
          PROVE  \A f \in Xdbg!Pending' : XdbgIsCall(f) => f.call < tickets
      <3>1. op[c] = "close"
        BY <2>2, <2>4 DEF XdbgConstantsOK
      <3> QED
        BY <1>3, <1>4, <1>5, <3>1
    <2> QED
      BY <1>1, <1>3, <2>3, <2>4 DEF XdbgMineInv, XdbgIsCall
  <1> QED
    BY <1>7, <1>8, XdbgSendEffect

(* The worker takes no step that brings a new call.                         *)
XdbgWorks ==
    \/ Xdbg!ReadFrame \/ Xdbg!LoseClient \/ Xdbg!JobDone \/ Xdbg!DispatchTimeout
    \/ Xdbg!MainTakes \/ Xdbg!MainFinishes \/ Xdbg!Die

LEMMA XdbgWorkBringsNothing ==
    ASSUME XdbgTypeInv, XdbgPipeInv, XdbgWorks
    PROVE  /\ UNCHANGED Xdbg!client
           /\ \A f \in Xdbg!Pending' : XdbgIsCall(f) => f \in Xdbg!Pending
           /\ \A n \in Xdbg!Range(effects') : n \in Xdbg!Range(effects) \/ (XdbgIsCall(job)
              /\ n = job.call)
  <1>1. CASE Xdbg!ReadFrame
    <2>1. /\ Head(up) \in Xdbg!Range(up) /\ Head(up) \in XdbgFrames /\ Xdbg!Range(up') = {}
          /\ UNCHANGED <<Xdbg!client, job, effects>>
          /\ queue' = queue \/ queue' = Append(queue, Head(up))
      BY <1>1, XdbgReadEffect, XdbgEmptyRange
    <2>2. Xdbg!Range(queue') \subseteq Xdbg!Range(queue) \cup Xdbg!Range(up)
      <3>1. queue \in Seq(XdbgFrames)
        BY XdbgIds
      <3>2. Xdbg!Range(Append(queue, Head(up))) = Xdbg!Range(queue) \cup {Head(up)}
        BY <2>1, <3>1, XdbgAppendRange
      <3> QED
        BY <2>1, <3>2
    <2> QED
      BY <2>1, <2>2 DEF Xdbg!Pending
  <1>2. CASE Xdbg!LoseClient
    BY <1>2 DEF Xdbg!LoseClient, Xdbg!Pending
  <1>3. CASE Xdbg!JobDone \/ Xdbg!DispatchTimeout
    BY <1>3, XdbgAnswerJobEffect DEF Xdbg!Pending
  <1>4. CASE Xdbg!MainTakes
    <2>1. /\ queue # <<>> /\ queue' = Tail(queue) /\ UNCHANGED <<Xdbg!client, up, effects>>
          /\ job' = job \/ job' = Head(queue)
      BY <1>4 DEF Xdbg!MainTakes
    <2>2. Head(queue) \in Xdbg!Range(queue) /\ Xdbg!Range(queue') \subseteq Xdbg!Range(queue)
      BY <2>1, XdbgIds, XdbgTailFacts
    <2> QED
      BY <2>1, <2>2 DEF Xdbg!Pending
  <1>5. CASE Xdbg!MainFinishes
    <2>1. /\ job' = Xdbg!NoJob /\ UNCHANGED <<Xdbg!client, up, queue>>
          /\ effects' = effects \/ (XdbgIsCall(job) /\ effects' = Append(effects, job.call))
      BY <1>5 DEF Xdbg!MainFinishes, XdbgIsCall
    <2>2. ~XdbgIsCall(job')
      BY <2>1, XdbgNoJobType DEF XdbgIsCall
    <2>3. effects \in Seq(Nat) /\ job.call \in Nat
      BY XdbgIds DEF XdbgFrames
    <2>4. Xdbg!Range(effects') \subseteq Xdbg!Range(effects) \cup {job.call}
      BY <2>1, <2>3, XdbgAppendRange
    <2>5. Xdbg!Range(effects') = Xdbg!Range(effects) \/ XdbgIsCall(job)
      BY <2>1
    <2> QED
      BY <2>1, <2>2, <2>4, <2>5 DEF Xdbg!Pending
  <1>6. CASE Xdbg!Die
    BY <1>6 DEF Xdbg!Die, Xdbg!worker, Xdbg!Pending
  <1> QED
    BY <1>1, <1>2, <1>3, <1>4, <1>5, <1>6 DEF XdbgWorks

LEMMA XdbgInRange ==
    ASSUME NEW s, NEW n \in Xdbg!Range(s)
    PROVE  \E i \in DOMAIN s : n = s[i]
  BY DEF Xdbg!Range

LEMMA XdbgMineOfWork ==
    ASSUME XdbgTypeInv, XdbgPipeInv, XdbgMineInv, XdbgWorks
    PROVE  XdbgMineInv'
  <1>1. /\ UNCHANGED <<holder, at, op, sent, tickets>>
        /\ \A f \in Xdbg!Pending' : XdbgIsCall(f) => f \in Xdbg!Pending
        /\ \A n \in Xdbg!Range(effects') : n \in Xdbg!Range(effects) \/ (XdbgIsCall(job)
           /\ n = job.call)
    BY XdbgWorkBringsNothing DEF Xdbg!client
  <1>2. \A d \in Callers : XdbgSent(d)' <=> XdbgSent(d)
    BY <1>1 DEF XdbgSent
  <1>3. ASSUME NEW d \in Callers, holder = d, ~XdbgSent(d)
        PROVE  \A i \in DOMAIN effects' : effects'[i] < tickets
    <2>1. /\ \A f \in Xdbg!Pending : XdbgIsCall(f) => f.call < tickets
          /\ \A i \in DOMAIN effects : effects[i] < tickets
      BY <1>3 DEF XdbgMineInv
    <2>2. \A n \in Xdbg!Range(effects) : n < tickets
      BY <2>1, XdbgInRange
    <2>3. job \in Xdbg!Pending
      BY DEF Xdbg!Pending
    <2>4. \A n \in Xdbg!Range(effects') : n < tickets
      BY <1>1, <2>1, <2>2, <2>3
    <2> QED
      BY <2>4 DEF Xdbg!Range
  <1>4. ASSUME NEW d \in Callers
        PROVE  /\ holder' = d /\ ~XdbgSent(d)' =>
                     /\ \A f \in Xdbg!Pending' : XdbgIsCall(f) => f.call < tickets'
                     /\ \A i \in DOMAIN effects' : effects'[i] < tickets'
               /\ XdbgSent(d)' => \A f \in Xdbg!Pending' : XdbgIsCall(f) /\ f.call = tickets'
                  => f.id = sent'.of[d]
    BY <1>1, <1>2, <1>3 DEF XdbgMineInv
  <1> QED
    BY <1>4 DEF XdbgMineInv, XdbgIsCall

LEMMA XdbgToldOfWork ==
    ASSUME XdbgTypeInv, XdbgPipeInv, XdbgToldInv, XdbgWorks
    PROVE  XdbgToldInv'
  <1>1. /\ UNCHANGED <<holder, told, tickets>>
        /\ \A f \in Xdbg!Pending' : XdbgIsCall(f) => f \in Xdbg!Pending
        /\ \A n \in Xdbg!Range(effects') : n \in Xdbg!Range(effects) \/ (XdbgIsCall(job)
           /\ n = job.call)
    BY XdbgWorkBringsNothing DEF Xdbg!client
  <1>2. job \in Xdbg!Pending
    BY DEF Xdbg!Pending
  <1>3. Xdbg!ToldTheTruth'
    <2>1. ASSUME NEW n \in 1..MaxOps, told[n] = "refused"
          PROVE  n \notin Xdbg!Range(effects') /\ \A f \in Xdbg!Pending' : XdbgIsCall(f)
                 => f.call # n
      BY <1>1, <1>2, <2>1 DEF XdbgToldInv, Xdbg!ToldTheTruth, XdbgIsCall
    <2>2. ASSUME NEW n \in 1..MaxOps, told[n] = "ok"
          PROVE  \A f \in Xdbg!Pending' : XdbgIsCall(f) => f.call # n
      BY <1>1, <2>2 DEF XdbgToldInv, Xdbg!ToldTheTruth, XdbgIsCall
    <2> QED
      BY <1>1, <2>1, <2>2 DEF Xdbg!ToldTheTruth, XdbgIsCall
  <1> QED
    BY <1>1, <1>3 DEF XdbgToldInv

LEMMA XdbgToldKept ==
    ASSUME XdbgToldInv, XdbgStill, UNCHANGED <<told, tickets>>,
           holder' = Xdbg!Free \/ holder' = holder
    PROVE  XdbgToldInv'
  <1>1. Xdbg!Pending' = Xdbg!Pending /\ effects' = effects
    BY XdbgStillPending
  <1> QED
    BY <1>1 DEF XdbgToldInv, Xdbg!ToldTheTruth

(* A verdict on the call in progress is true.                               *)
LEMMA XdbgToldOfSays ==
    ASSUME XdbgConstantsOK, XdbgTypeInv, XdbgToldInv, NEW c \in Callers, holder = c,
           UNCHANGED tickets,
           NEW what, XdbgSays(c, what), effects' = effects,
           \A f \in Xdbg!Pending' : XdbgIsCall(f)
           => f \in Xdbg!Pending \/ (f.call = tickets /\ what = "unsure"),
           what = "refused" => tickets \notin Xdbg!Range(effects),
           what \in {"refused", "ok"} => \A f \in Xdbg!Pending : XdbgIsCall(f) => f.call # tickets
    PROVE  XdbgToldInv'
  <1>1. /\ told' = [told EXCEPT ![tickets] = what] /\ holder' = Xdbg!Free
        /\ told \in [1..MaxOps -> Xdbg!Answers] /\ tickets \in Nat
    BY XdbgIds DEF XdbgSays, XdbgTypeInv, XdbgClientType
  <1>2. \A n \in 1..MaxOps : told'[n] = IF n = tickets THEN what ELSE told[n]
    BY <1>1
  <1>3. holder # Xdbg!Free
    BY DEF XdbgConstantsOK
  <1>4. ASSUME NEW n \in 1..MaxOps, told'[n] # "nothing"
        PROVE  n <= tickets'
    BY <1>1, <1>2, <1>4 DEF XdbgToldInv
  <1>5. ASSUME NEW n \in 1..MaxOps, n # tickets, told'[n] \in {"refused", "ok"}
        PROVE  /\ told'[n] = "refused" => n \notin Xdbg!Range(effects')
               /\ \A f \in Xdbg!Pending' : XdbgIsCall(f) => f.call # n
    BY <1>2, <1>5 DEF XdbgToldInv, Xdbg!ToldTheTruth, XdbgIsCall
  <1>6. ASSUME tickets \in 1..MaxOps, what \in {"refused", "ok"}
        PROVE  /\ what = "refused" => tickets \notin Xdbg!Range(effects')
               /\ \A f \in Xdbg!Pending' : XdbgIsCall(f) => f.call # tickets
    BY <1>6
  <1>7. Xdbg!ToldTheTruth'
    BY <1>2, <1>5, <1>6 DEF Xdbg!ToldTheTruth, XdbgIsCall
  <1> QED
    BY <1>1, <1>4, <1>7 DEF XdbgToldInv

LEMMA XdbgToldOfMoves ==
    ASSUME XdbgConstantsOK, XdbgTypeInv, XdbgMineInv, XdbgIdInv, XdbgToldInv, NEW c \in Callers,
           XdbgMoves(c), XdbgVerdict(c), XdbgStill
    PROVE  XdbgToldInv'
  <1>1. /\ Xdbg!Pending' = Xdbg!Pending /\ UNCHANGED <<effects, tickets>> /\ holder = c
        /\ holder' = Xdbg!Free \/ holder' = holder
    BY XdbgStillPending DEF XdbgMoves
  <1>2. CASE told' = told
    BY <1>1, <1>2, XdbgToldKept
  <1>3. CASE XdbgSays(c, "unsure")
    BY <1>1, <1>3, XdbgToldOfSays
  <1>4. CASE XdbgSays(c, "refused") /\ ~XdbgSent(c)
    <2>1. /\ \A f \in Xdbg!Pending : XdbgIsCall(f) => f.call < tickets
          /\ \A i \in DOMAIN effects : effects[i] < tickets
      BY <1>1, <1>4 DEF XdbgMineInv
    <2>2. tickets \in Nat /\ \A n \in Xdbg!Range(effects) : n < tickets
      BY <2>1, XdbgInRange, XdbgIds
    <2>3. tickets \notin Xdbg!Range(effects)
      BY <2>2
    <2>4. \A f \in Xdbg!Pending : XdbgIsCall(f) => f.call # tickets
      BY <2>1, <2>2
    <2> QED
      BY <1>1, <1>4, <2>3, <2>4, XdbgToldOfSays
  <1>5. CASE XdbgSays(c, "ok") /\ XdbgSent(c) /\ Xdbg!Good(c) /\ down # <<>>
    <2>1. Head(down) \in Xdbg!Range(down)
      BY <1>5, XdbgTailFacts DEF XdbgTypeInv, XdbgDownType
    <2>2. Head(down).ok /\ Head(down).id = sent.of[c]
      BY <1>5 DEF Xdbg!Good
    <2>3. \A f \in Xdbg!Pending : XdbgIsCall(f) => f.id # sent.of[c]
      BY <2>1, <2>2 DEF XdbgIdInv, XdbgIsCall
    <2>4. \A f \in Xdbg!Pending : XdbgIsCall(f) => f.call # tickets
      BY <1>5, <2>3 DEF XdbgMineInv
    <2> QED
      BY <1>1, <1>5, <2>4, XdbgToldOfSays
  <1> QED
    BY <1>2, <1>3, <1>4, <1>5 DEF XdbgVerdict

LEMMA XdbgToldOfCall ==
    ASSUME XdbgToldInv, NEW c \in Callers, NEW o \in Xdbg!Ops, Xdbg!Call(c, o), XdbgStill
    PROVE  XdbgToldInv'
  BY XdbgToldKept DEF Xdbg!Call

LEMMA XdbgToldOfEnter ==
    ASSUME XdbgConstantsOK, XdbgTypeInv, XdbgOrderInv, XdbgToldInv, NEW c \in Callers,
           Xdbg!Enter(c), XdbgStill
    PROVE  XdbgToldInv'
  <1>1. /\ Xdbg!Pending' = Xdbg!Pending /\ effects' = effects /\ tickets' = tickets + 1
           /\ holder = Xdbg!Free
        /\ \/ told' = [told EXCEPT ![tickets + 1] = "refused"] /\ holder' = Xdbg!Free
           \/ told' = told
    BY XdbgStillPending DEF Xdbg!Enter, Xdbg!Locks
  <1>2. /\ tickets \in Nat /\ told \in [1..MaxOps -> Xdbg!Answers]
        /\ \A f \in Xdbg!Pending : f.call \in Nat
        /\ \A i \in DOMAIN effects : effects[i] \in Nat
    BY XdbgIds DEF XdbgTypeInv, XdbgClientType
  <1>3. /\ \A f \in Xdbg!Pending : XdbgIsCall(f) => f.call <= tickets
        /\ \A i \in DOMAIN effects : effects[i] <= tickets
    BY DEF XdbgOrderInv
  <1>4. \A n \in Xdbg!Range(effects) : n \in Nat /\ n <= tickets
    BY <1>2, <1>3, XdbgInRange
  <1>5. tickets + 1 \notin Xdbg!Range(effects) /\ \A f \in Xdbg!Pending : XdbgIsCall(f)
        => f.call # tickets + 1
    BY <1>2, <1>3, <1>4
  <1>6. \A n \in 1..MaxOps : told[n] # "nothing" => n <= tickets /\ n < tickets + 1
    BY <1>2 DEF XdbgToldInv
  <1>7. CASE told' = told
    <2>1. Xdbg!ToldTheTruth'
      BY <1>1, <1>7 DEF XdbgToldInv, Xdbg!ToldTheTruth
    <2> QED
      BY <1>1, <1>2, <1>6, <1>7, <2>1 DEF XdbgToldInv
  <1>8. CASE told' = [told EXCEPT ![tickets + 1] = "refused"] /\ holder' = Xdbg!Free
    <2>1. \A n \in 1..MaxOps : told'[n] = IF n = tickets + 1 THEN "refused" ELSE told[n]
      BY <1>2, <1>8
    <2>2. Xdbg!ToldTheTruth'
      BY <1>1, <1>5, <2>1 DEF XdbgToldInv, Xdbg!ToldTheTruth, XdbgIsCall
    <2>3. \A n \in 1..MaxOps : told'[n] # "nothing" => n <= tickets + 1
      BY <1>2, <1>6, <2>1
    <2> QED
      BY <1>1, <1>8, <2>2, <2>3 DEF XdbgToldInv
  <1> QED
    BY <1>1, <1>7, <1>8

LEMMA XdbgToldOfSend ==
    ASSUME XdbgConstantsOK, XdbgTypeInv, XdbgLockInv, XdbgPipeInv, XdbgMineInv, XdbgToldInv,
           NEW c \in Callers, Xdbg!Send(c)
    PROVE  XdbgToldInv'
  <1>1. /\ up = <<>> /\ holder = c /\ at[c] \in {"hello", "send"}
        /\ UNCHANGED <<queue, job, effects, tickets, op>>
    BY XdbgSendKept DEF Xdbg!worker
  <1>2. ~XdbgSent(c) /\ call[c] = tickets /\ tickets \in Nat
    BY <1>1, XdbgIds DEF XdbgSent, XdbgLockInv
  <1>3. /\ \A f \in Xdbg!Pending : XdbgIsCall(f) => f.call < tickets
        /\ \A i \in DOMAIN effects : effects[i] < tickets
    BY <1>1, <1>2 DEF XdbgMineInv
  <1>4. \A f \in Xdbg!Pending' : XdbgIsCall(f)
        => f \in Xdbg!Pending \/ (f.call = tickets /\ at[c] = "send")
    <2>1. \A f \in Xdbg!Pending' : f \in Xdbg!Pending \/ f \in Xdbg!Range(up')
      BY <1>1 DEF Xdbg!Pending
    <2>2. \A f \in Xdbg!Range(up') : XdbgIsCall(f) => f.call = tickets /\ at[c] = "send"
      BY <1>2, XdbgSendFrame
    <2> QED
      BY <2>1, <2>2
  <1>5. \A n \in 1..MaxOps : told[n] # "nothing" => n < tickets
    BY <1>1 DEF XdbgToldInv, XdbgConstantsOK
  <1>6. CASE told' = told /\ (holder' = holder \/ holder' = Xdbg!Free)
    <2>1. ASSUME NEW n \in 1..MaxOps, told[n] \in {"refused", "ok"}
          PROVE  /\ told[n] = "refused" => n \notin Xdbg!Range(effects)
                 /\ \A f \in Xdbg!Pending' : XdbgIsCall(f) => f.call # n
      <3>1. n < tickets
        BY <1>5, <2>1
      <3>2. n # tickets
        BY <1>2, <3>1
      <3> QED
        BY <1>4, <2>1, <3>2 DEF XdbgToldInv, Xdbg!ToldTheTruth, XdbgIsCall
    <2>2. Xdbg!ToldTheTruth'
      BY <1>1, <1>6, <2>1 DEF Xdbg!ToldTheTruth, XdbgIsCall
    <2> QED
      BY <1>1, <1>6, <2>2 DEF XdbgToldInv
  <1>7. CASE Xdbg!Fail(c)
    <2>1. CASE at[c] = "send" /\ Xdbg!Tell(c, "unsure") /\ holder' = Xdbg!Free
      <3>1. CASE XdbgSays(c, "unsure")
        BY <1>1, <1>4, <3>1, XdbgToldOfSays
      <3> QED
        BY <1>1, <1>6, <2>1, <3>1, XdbgTelling
    <2>2. CASE at[c] = "hello" /\ Xdbg!Tell(c, "refused") /\ holder' = Xdbg!Free
      <3>1. CASE XdbgSays(c, "refused")
        <4>1. \A n \in Xdbg!Range(effects) : n < tickets
          BY <1>3, XdbgInRange
        <4>2. tickets \notin Xdbg!Range(effects)
          BY <1>2, <4>1
        <4>3. \A f \in Xdbg!Pending : XdbgIsCall(f) => f.call # tickets
          BY <1>2, <1>3
        <4>4. \A f \in Xdbg!Pending' : XdbgIsCall(f) => f \in Xdbg!Pending
          BY <1>4, <2>2
        <4> QED
          BY <1>1, <3>1, <4>2, <4>3, <4>4, XdbgToldOfSays
      <3> QED
        BY <1>1, <1>6, <2>2, <3>1, XdbgTelling
    <2>3. CASE UNCHANGED <<holder, told>>
      BY <1>6, <2>3
    <2> QED
      BY <1>1, <1>7, <2>1, <2>2, <2>3, XdbgFailEffect
  <1> QED
    BY <1>6, <1>7, XdbgSendEffect

-----------------------------------------------------------------------------
(* The invariant *)

LEMMA XdbgInvInit ==
    ASSUME XdbgConstantsOK, Xdbg!Init
    PROVE  XdbgInv
  <1>1. /\ Xdbg!Range(queue) = {} /\ Xdbg!Range(up) = {} /\ Xdbg!Range(down) = {}
        /\ DOMAIN queue = {} /\ DOMAIN effects = {} /\ Xdbg!Range(effects) = {}
    <2>1. queue = <<>> /\ up = <<>> /\ down = <<>> /\ effects = <<>>
      BY DEF Xdbg!Init
    <2>2. DOMAIN effects = {} /\ DOMAIN queue = {}
      BY <2>1
    <2> QED
      BY <2>1, <2>2, XdbgEmptyRange
  <1>2. job = Xdbg!NoJob /\ Xdbg!Pending = {Xdbg!NoJob} /\ XdbgComing = {}
    BY <1>1 DEF Xdbg!Init, Xdbg!Pending, XdbgComing
  <1>3. XdbgClientType
    BY DEF Xdbg!Init, XdbgClientType, XdbgPlaces, Xdbg!Ops, Xdbg!Answers, XdbgConstantsOK
  <1>4. XdbgSentType
    BY DEF Xdbg!Init, XdbgSentType
  <1>5. XdbgUpType /\ XdbgDownType
    BY XdbgEmptyPipe DEF Xdbg!Init, XdbgUpType, XdbgDownType
  <1>6. XdbgWorkerType
    <2>1. queue \in Seq(XdbgFrames) /\ effects \in Seq(Nat) /\ cancelled \subseteq Nat
          /\ done \subseteq Nat
      BY DEF Xdbg!Init
    <2>2. server \in [at : {"listen", "read", "wait"}, auth : BOOLEAN, id : Nat]
      BY DEF Xdbg!Init
    <2> QED
      BY <1>2, <2>1, <2>2, XdbgNoJobType DEF XdbgWorkerType
  <1>7. XdbgLockInv
    BY DEF Xdbg!Init, XdbgLockInv, XdbgConstantsOK
  <1>8. XdbgPipeInv
    BY DEF Xdbg!Init, XdbgPipeInv
  <1>9. XdbgIdInv
    BY <1>1, <1>2, XdbgNoJobType DEF Xdbg!Init, XdbgIdInv
  <1>10. ~XdbgIsCall(Xdbg!NoJob)
    BY XdbgNoJobType DEF XdbgIsCall
  <1>11. XdbgOrderInv
    BY <1>1, <1>2, <1>10 DEF XdbgOrderInv, Xdbg!OnceInOrder
  <1>12. XdbgMineInv
    <2>1. holder = Xdbg!Free /\ \A c \in Callers : ~XdbgSent(c)
      BY DEF Xdbg!Init, XdbgSent
    <2> QED
      BY <2>1 DEF XdbgMineInv, XdbgConstantsOK
  <1>13. XdbgToldInv
    BY DEF Xdbg!Init, XdbgToldInv, Xdbg!ToldTheTruth
  <1> QED
    BY <1>3, <1>4, <1>5, <1>6, <1>7, <1>8, <1>9, <1>11, <1>12, <1>13 DEF XdbgInv, XdbgTypeInv

LEMMA XdbgTypeOfQuiet ==
    ASSUME XdbgTypeInv, NEW c \in Callers, XdbgQuiet(c)
    PROVE  XdbgTypeInv'
  BY XdbgTypeOfCall, XdbgTypeOfEnter, XdbgTypeOfConnect, XdbgTypeOfWatch, XdbgTypeOfDrop,
     XdbgTypeOfAnswer, XdbgTypeOfExit
     DEF XdbgQuiet

LEMMA XdbgInvQuiet ==
    ASSUME XdbgConstantsOK, XdbgInv, NEW c \in Callers, XdbgQuiet(c)
    PROVE  XdbgInv'
  <1>1. /\ XdbgTypeInv /\ XdbgClientType /\ XdbgLockInv /\ XdbgPipeInv /\ XdbgIdInv
           /\ XdbgOrderInv /\ XdbgMineInv /\ XdbgToldInv
        /\ XdbgStill
    BY XdbgQuietIsStill DEF XdbgInv, XdbgTypeInv
  <1>2. XdbgTypeInv'
    BY <1>1, XdbgTypeOfQuiet
  <1>3. XdbgLockInv'
    BY <1>1, XdbgLockOfCall, XdbgLockOfEnter, XdbgLockOfConnect, XdbgLockOfWatch, XdbgLockOfDrop,
       XdbgLockOfAnswer, XdbgLockOfExit
       DEF XdbgQuiet
  <1>4. XdbgPipeInv'
    BY <1>1, XdbgPipeOfQuiet
  <1>5. XdbgIdInv'
    BY <1>1, XdbgIdKept
  <1>6. XdbgOrderInv'
    <2>1. tickets' = tickets \/ tickets' = tickets + 1
      BY DEF XdbgQuiet, Xdbg!Call, Xdbg!Enter, Xdbg!Connect, Xdbg!Watch, Xdbg!Drop, Xdbg!Answer,
         Xdbg!Exit
    <2> QED
      BY <1>1, <2>1, XdbgOrderKept
  <1>7. XdbgMineInv' /\ XdbgToldInv'
    <2>1. CASE \E o \in Xdbg!Ops : Xdbg!Call(c, o)
      BY <1>1, <2>1, XdbgMineOfCall, XdbgToldOfCall
    <2>2. CASE Xdbg!Enter(c)
      BY <1>1, <2>2, XdbgMineOfEnter, XdbgToldOfEnter
    <2>3. CASE Xdbg!Connect(c) \/ Xdbg!Watch(c) \/ Xdbg!Drop(c) \/ Xdbg!Answer(c) \/ Xdbg!Exit(c)
      <3>1. XdbgMoves(c) /\ XdbgVerdict(c)
        BY <1>1, <2>3, XdbgHolderSteps
      <3> QED
        BY <1>1, <3>1, XdbgMineOfMoves, XdbgToldOfMoves
    <2> QED
      BY <2>1, <2>2, <2>3 DEF XdbgQuiet
  <1> QED
    BY <1>2, <1>3, <1>4, <1>5, <1>6, <1>7 DEF XdbgInv

LEMMA XdbgInvSend ==
    ASSUME XdbgConstantsOK, XdbgInv, NEW c \in Callers, Xdbg!Send(c)
    PROVE  XdbgInv'
  <1>1. /\ XdbgTypeInv /\ XdbgLockInv /\ XdbgPipeInv /\ XdbgIdInv /\ XdbgOrderInv /\ XdbgMineInv
           /\ XdbgToldInv
    BY DEF XdbgInv
  <1>2. XdbgTypeInv' /\ XdbgLockInv' /\ XdbgPipeInv' /\ XdbgIdInv'
    BY <1>1, XdbgTypeOfSend, XdbgLockOfSend, XdbgPipeOfSend, XdbgIdOfSend
  <1>3. XdbgOrderInv' /\ XdbgMineInv' /\ XdbgToldInv'
    BY <1>1, XdbgOrderOfSend, XdbgMineOfSend, XdbgToldOfSend
  <1> QED
    BY <1>2, <1>3 DEF XdbgInv

LEMMA XdbgDieIsStill ==
    ASSUME Xdbg!Die \/ Xdbg!LoseClient, XdbgTypeInv
    PROVE  XdbgStill /\ tickets' = tickets
  BY DEF Xdbg!Die, Xdbg!LoseClient, XdbgStill, Xdbg!worker, Xdbg!client, XdbgTypeInv, XdbgWorkerType

LEMMA XdbgInvWork ==
    ASSUME XdbgConstantsOK, XdbgInv, XdbgWorks
    PROVE  XdbgInv'
  <1>1. /\ XdbgTypeInv /\ XdbgLockInv /\ XdbgPipeInv /\ XdbgIdInv /\ XdbgOrderInv /\ XdbgMineInv
           /\ XdbgToldInv
    BY DEF XdbgInv
  <1>2. XdbgTypeInv'
    BY <1>1, XdbgTypeOfReadFrame, XdbgTypeOfAnswerJob, XdbgTypeOfLoseClient, XdbgTypeOfMain,
       XdbgTypeOfDie DEF XdbgWorks
  <1>3. UNCHANGED Xdbg!client
    BY <1>1, XdbgWorkBringsNothing
  <1>4. XdbgLockInv'
    BY <1>1, <1>3, XdbgLockKept DEF Xdbg!client
  <1>5. XdbgPipeInv'
    <2>1. CASE Xdbg!ReadFrame \/ Xdbg!LoseClient \/ Xdbg!JobDone \/ Xdbg!DispatchTimeout
      BY <1>1, <2>1, XdbgPipeOfWorker
    <2>2. CASE Xdbg!MainTakes \/ Xdbg!MainFinishes \/ Xdbg!Die
      <3>1. UNCHANGED <<up, server, transport, down, at>>
        BY <1>3, <2>2 DEF Xdbg!MainTakes, Xdbg!MainFinishes, Xdbg!Die, Xdbg!client, Xdbg!worker
      <3> QED
        BY <1>1, <3>1, XdbgPipeKept DEF Xdbg!Awaits
    <2> QED
      BY <2>1, <2>2 DEF XdbgWorks
  <1>6. XdbgIdInv' /\ XdbgOrderInv'
    <2>1. CASE Xdbg!ReadFrame
      BY <1>1, <2>1, XdbgIdOfReadFrame, XdbgOrderOfReadFrame
    <2>2. CASE Xdbg!JobDone \/ Xdbg!DispatchTimeout
      <3>1. Xdbg!Pending' = Xdbg!Pending /\ XdbgComing' = XdbgComing /\ UNCHANGED <<up, queue,
            job, effects, tickets>>
        BY <1>1, <2>2, XdbgAnswerJobEffect DEF Xdbg!Pending, XdbgComing, Xdbg!client
      <3>2. XdbgOrderInv'
        BY <1>1, <3>1 DEF XdbgOrderInv, Xdbg!OnceInOrder, XdbgIsCall
      <3> QED
        BY <1>1, <2>2, <3>2, XdbgIdOfAnswerJob
    <2>3. CASE Xdbg!MainTakes
      BY <1>1, <2>3, XdbgIdOfMainTakes, XdbgOrderOfMainTakes
    <2>4. CASE Xdbg!MainFinishes
      BY <1>1, <2>4, XdbgIdOfMainFinishes, XdbgOrderOfMainFinishes
    <2>5. CASE Xdbg!Die \/ Xdbg!LoseClient
      BY <1>1, <2>5, XdbgDieIsStill, XdbgIdKept, XdbgOrderKept
    <2> QED
      BY <2>1, <2>2, <2>3, <2>4, <2>5 DEF XdbgWorks
  <1>7. XdbgMineInv' /\ XdbgToldInv'
    BY <1>1, XdbgMineOfWork, XdbgToldOfWork
  <1> QED
    BY <1>2, <1>4, <1>5, <1>6, <1>7 DEF XdbgInv

LEMMA XdbgInvStutter ==
    ASSUME XdbgInv, UNCHANGED Xdbg!vars
    PROVE  XdbgInv'
  <1>1. UNCHANGED <<Xdbg!client, alive, up, down, Xdbg!worker>>
    BY DEF Xdbg!vars
  <1>2. /\ XdbgTypeInv /\ XdbgClientType /\ XdbgSentType /\ XdbgUpType /\ XdbgDownType
           /\ XdbgWorkerType
        /\ XdbgLockInv /\ XdbgPipeInv /\ XdbgIdInv /\ XdbgOrderInv /\ XdbgMineInv /\ XdbgToldInv
    BY DEF XdbgInv, XdbgTypeInv
  <1>3. XdbgTypeInv'
    BY <1>1, <1>2, XdbgClientKept, XdbgUpSentKept, XdbgDownKept, XdbgWorkerKept DEF XdbgTypeInv,
       XdbgClientType, Xdbg!client
  <1>4. XdbgStill /\ UNCHANGED <<told, tickets, holder, transport, at, call, op, server>>
    BY <1>1 DEF XdbgStill, Xdbg!client, Xdbg!worker
  <1>5. XdbgLockInv' /\ XdbgIdInv' /\ XdbgOrderInv' /\ XdbgToldInv'
    BY <1>2, <1>4, XdbgLockKept, XdbgIdKept, XdbgOrderKept, XdbgToldKept
  <1>6. XdbgPipeInv'
    <2>1. UNCHANGED <<up, server, transport, down, at>>
      BY <1>1, <1>4
    <2> QED
      BY <1>2, <2>1, XdbgPipeKept DEF Xdbg!Awaits
  <1>7. XdbgMineInv'
    <2>1. Xdbg!Pending' = Xdbg!Pending /\ UNCHANGED <<effects, sent>>
      BY <1>4, XdbgStillPending
    <2> QED
      BY <1>2, <1>4, <2>1 DEF XdbgMineInv, XdbgSent, XdbgIsCall
  <1> QED
    BY <1>3, <1>5, <1>6, <1>7 DEF XdbgInv

LEMMA XdbgInvStep ==
    ASSUME XdbgConstantsOK, XdbgInv, [Xdbg!Next]_Xdbg!vars
    PROVE  XdbgInv'
  <1>1. CASE UNCHANGED Xdbg!vars
    BY <1>1, XdbgInvStutter
  <1>2. CASE \E c \in Callers : XdbgQuiet(c)
    BY <1>2, XdbgInvQuiet
  <1>3. CASE \E c \in Callers : Xdbg!Send(c)
    BY <1>3, XdbgInvSend
  <1>4. CASE XdbgWorks
    BY <1>4, XdbgInvWork
  <1> QED
    BY <1>1, <1>2, <1>3, <1>4 DEF Xdbg!Next, Xdbg!Step, XdbgQuiet, XdbgWorks

(* The strengthening is inductive for every step of the callers, the pipe   *)
(* server and the debugger's thread, and for the death of the worker.       *)
THEOREM XdbgInvariantHolds ==
    ASSUME XdbgConstantsOK
    PROVE  Xdbg!Spec => []XdbgInv
  <1>1. Xdbg!Init => XdbgInv
    BY XdbgInvInit
  <1>2. XdbgInv /\ [Xdbg!Next]_Xdbg!vars => XdbgInv'
    BY XdbgInvStep
  <1> QED
    BY <1>1, <1>2, PTL DEF Xdbg!Spec

(* Every variable of the connection keeps its type, and neither way of the  *)
(* pipe ever holds two frames: the client sends under _request_lock and     *)
(* hangs up when it stops waiting (client.py XdbgClient.request).           *)
THEOREM XdbgTypeCorrect ==
    ASSUME XdbgConstantsOK
    PROVE  Xdbg!Spec => []Xdbg!TypeOK
  <1>1. XdbgInv => Xdbg!TypeOK
    <2>1. ASSUME XdbgInv
          PROVE  Xdbg!TypeOK
      <3>1. \A f \in Xdbg!Pending : f.kind \in Xdbg!Kinds
        BY <2>1, XdbgIds DEF XdbgInv, XdbgFrames
      <3>2. /\ holder \in Callers \cup {Xdbg!Free}
            /\ closed \in BOOLEAN /\ transport \in BOOLEAN /\ alive \in BOOLEAN
            /\ at \in [Callers -> XdbgPlaces] /\ op \in [Callers -> Xdbg!Ops]
               /\ call \in [Callers -> Nat]
            /\ DOMAIN told = 1..MaxOps /\ \A n \in 1..MaxOps : told[n] \in Xdbg!Answers
        BY <2>1 DEF XdbgInv, XdbgTypeInv, XdbgClientType
      <3>3. server.at \in {"listen", "read", "wait"} /\ Len(up) <= 1 /\ Len(down) <= 1
        BY <2>1 DEF XdbgInv, XdbgTypeInv, XdbgUpType, XdbgDownType, XdbgWorkerType
      <3> QED
        BY <3>1, <3>2, <3>3 DEF Xdbg!TypeOK, Xdbg!Pending, XdbgPlaces
    <2> QED
      BY <2>1
  <1> QED
    BY <1>1, XdbgInvariantHolds, PTL

(* What is to be shown of it.                                               *)
LEMMA XdbgImplies == ASSUME XdbgInv PROVE Xdbg!ToldTheTruth /\ Xdbg!OnceInOrder
  BY DEF XdbgInv, XdbgToldInv, XdbgOrderInv

(* XdbgClient.request and RpcServer::Schedule: a call refused before it was *)
(* sent is never carried out, and one answered as done is not still queued  *)
(* - whatever was cancelled, timed out or dropped in between.               *)
THEOREM XdbgTruthHolds ==
    ASSUME XdbgConstantsOK
    PROVE  Xdbg!Spec => []Xdbg!ToldTheTruth
  <1>1. XdbgInv => Xdbg!ToldTheTruth
    BY XdbgImplies
  <1> QED
    BY <1>1, XdbgInvariantHolds, PTL

(* The client replays nothing and the server runs its queue in order: calls *)
(* take effect at most once and in the order in which they got the lock.    *)
THEOREM XdbgOrderHolds ==
    ASSUME XdbgConstantsOK
    PROVE  Xdbg!Spec => []Xdbg!OnceInOrder
  <1>1. XdbgInv => Xdbg!OnceInOrder
    BY XdbgImplies
  <1> QED
    BY <1>1, XdbgInvariantHolds, PTL

-----------------------------------------------------------------------------
(***************************************************************************)
(* The IDA client (IdaWorker)                                              *)
(*                                                                         *)
(* The invariant counts the calls: an answer on its way is that of the     *)
(* call under way, for the client sends under its lock and drops what is   *)
(* not its own.                                                            *)
(***************************************************************************)

(* What is on the way to the worker, what it answers, where a caller can be. *)
IdaRequests == [call : Nat, close : BOOLEAN]
IdaMessages == [call : Nat, ok : BOOLEAN]
IdaPlaces   == {"idle", "lock", "await", "exit"}
IdaVerdicts == {"nothing", "ok", "failed"}

(* The state of the client, and of the worker with the queue of its output. *)
IdaClientType ==
    /\ holder \in Callers \cup {Ida!Free} /\ closed \in BOOLEAN
    /\ at \in [Callers -> IdaPlaces] /\ op \in [Callers -> Ida!Ops] /\ call \in [Callers -> Nat]
    /\ started \in Nat /\ tickets \in Nat
    /\ told \in [1..MaxOps -> Ida!Answers]

IdaWorkerType ==
    /\ alive \in BOOLEAN /\ overflow \in BOOLEAN
    /\ messages \in Seq(IdaMessages) /\ Len(messages) <= Capacity
    /\ input \in Seq(IdaRequests) /\ work \in IdaRequests
    /\ edits \in Seq(Nat) /\ saved \subseteq Nat
    /\ said \in [1..MaxOps -> IdaVerdicts]

(* The caller that has the lock is in the youngest call, and only the      *)
(* methods that lock get there.                                            *)
IdaLockInv ==
    \A c \in Callers :
        /\ at[c] \in {"await", "exit"} <=> holder = c
        /\ holder = c => call[c] = tickets /\ 0 < tickets
        /\ call[c] <= tickets
        /\ at[c] = "exit" => op[c] = "close"
        /\ at[c] # "idle" => op[c] # "terminate"

(* A call was begun before it got the lock.                                *)
IdaWaiting == {c \in Callers : at[c] = "lock"}

(* So no ticket is given out beyond the calls that were begun.             *)
IdaCountInv ==
    /\ IsFiniteSet(IdaWaiting)
    /\ tickets + Cardinality(IdaWaiting) <= started
    /\ started <= MaxOps

(* Requests are worked on in the order of the lock: whatever was edited or *)
(* answered is older than what the worker is at, and that is older than    *)
(* what it has not read.                                                   *)
IdaFlowInv ==
    /\ \A f \in Ida!Range(input) : f.call \in 1..tickets
    /\ work.call <= tickets
    /\ \A f \in Ida!Range(input) : work.call < f.call
    /\ \A i, j \in DOMAIN input : i < j => input[i].call < input[j].call
    /\ \A n \in Ida!Range(edits) : /\ n \in 1..tickets
                                   /\ work.call # 0 => n < work.call
                                   /\ \A f \in Ida!Range(input) : n < f.call
    /\ \A m \in Ida!Range(messages) : /\ m.call <= tickets
                                      /\ work.call # 0 => m.call < work.call
                                      /\ \A f \in Ida!Range(input) : m.call < f.call
    /\ \A i, j \in DOMAIN edits : i < j => edits[i] < edits[j]
    /\ saved \subseteq 1..tickets
    /\ work = Ida!NoWork \/ work.call # 0

(* Whose request it is that is under way, and whose answer                  *)
IdaAwaitInv ==
    \A c \in Callers : at[c] = "await" =>
        /\ \A f \in Ida!Range(input) \cup {work} : f.call = tickets => f.close = (op[c] = "close")
        /\ \A m \in Ida!Range(messages) : m.call = tickets =>
              /\ op[c] = "close" => m.ok /\ ~alive /\ Ida!Range(edits) \subseteq saved
              /\ op[c] = "request" /\ tickets \notin Batches
                 => (m.ok => tickets \in Ida!Range(edits))

(* A call that was refused never reaches the worker.                        *)
IdaOver(n) == n \notin Ida!Range(edits) /\ n # work.call /\ \A f \in Ida!Range(input) : f.call # n

(* What callers were told, with what makes it stay true.                   *)
IdaToldInv ==
    \A n \in 1..MaxOps :
        /\ told[n] # "nothing" => n <= tickets
        /\ told[n] # "nothing" /\ n = tickets => \A c \in Callers : at[c] # "await"
        /\ told[n] = "refused" => IdaOver(n)
        /\ told[n] = "ok" /\ n \notin Batches => n \in Ida!Range(edits)
        /\ told[n] = "closed" => ~alive /\ Ida!Range(edits) \subseteq saved

(* A call is worked on once: what was answered is behind the worker and     *)
(* behind all that it has still to read.                                    *)
IdaPast(n) ==
    /\ n <= tickets
    /\ work.call # 0 => n < work.call
    /\ \A f \in Ida!Range(input) : n < f.call

(* So every answer in the queue is what the worker said of its call, and so *)
(* is what a caller was told.                                               *)
IdaSaidInv ==
    /\ \A n \in 1..MaxOps :
          /\ said[n] # "nothing" => IdaPast(n)
          /\ told[n] \in {"ok", "closed"} => said[n] = "ok"
          /\ told[n] = "failed" => said[n] = "failed"
          /\ told[n] = "refused" => said[n] = "nothing"
    /\ \A m \in Ida!Range(messages) : m.call \in 1..MaxOps =>
          said[m.call] = IF m.ok THEN "ok" ELSE "failed"

IdaInv == IdaClientType /\ IdaWorkerType /\ IdaLockInv /\ IdaCountInv /\ IdaFlowInv /\ IdaAwaitInv
      /\ IdaToldInv /\ IdaSaidInv

(* The lock has a value of its own for nobody.                              *)
IdaConstantsOK == Ida!Free \notin Callers /\ MaxOps \in Nat /\ Capacity \in Nat

-----------------------------------------------------------------------------
(* Sequences *)
LEMMA IdaAppendBasics ==
    ASSUME NEW S, NEW s \in Seq(S), NEW e \in S
    PROVE  /\ Append(s, e) \in Seq(S) /\ Len(Append(s, e)) = Len(s) + 1
           /\ DOMAIN Append(s, e) = 1..(Len(s) + 1) /\ DOMAIN s = 1..Len(s) /\ Len(s) \in Nat
           /\ \A i \in 1..Len(s) : Append(s, e)[i] = s[i]
           /\ Append(s, e)[Len(s) + 1] = e
  OBVIOUS

LEMMA IdaAppendRange ==
    ASSUME NEW S, NEW s \in Seq(S), NEW e \in S
    PROVE  Ida!Range(Append(s, e)) = Ida!Range(s) \cup {e}
  <1>1. /\ Append(s, e) \in Seq(S) /\ Len(Append(s, e)) = Len(s) + 1
        /\ DOMAIN Append(s, e) = 1..(Len(s) + 1) /\ DOMAIN s = 1..Len(s) /\ Len(s) \in Nat
        /\ \A i \in 1..Len(s) : Append(s, e)[i] = s[i]
        /\ Append(s, e)[Len(s) + 1] = e
    BY IdaAppendBasics
  <1>2. Ida!Range(Append(s, e)) \subseteq Ida!Range(s) \cup {e}
    BY <1>1 DEF Ida!Range
  <1>3. Ida!Range(s) \cup {e} \subseteq Ida!Range(Append(s, e))
    <2>1. ASSUME NEW x \in Ida!Range(s)
          PROVE  x \in Ida!Range(Append(s, e))
      <3>1. PICK i \in 1..Len(s) : x = s[i]
        BY <1>1 DEF Ida!Range
      <3>2. i \in DOMAIN Append(s, e) /\ Append(s, e)[i] = x
        BY <1>1, <3>1
      <3> QED
        BY <3>2 DEF Ida!Range
    <2>2. e \in Ida!Range(Append(s, e))
      <3>1. Len(s) + 1 \in DOMAIN Append(s, e)
        BY <1>1
      <3> QED
        BY <1>1, <3>1 DEF Ida!Range
    <2> QED
      BY <2>1, <2>2
  <1> QED
    BY <1>2, <1>3

LEMMA IdaAppendFacts ==
    ASSUME NEW S, NEW s \in Seq(S), NEW e \in S
    PROVE  /\ Append(s, e) \in Seq(S) /\ Len(Append(s, e)) = Len(s) + 1
           /\ Ida!Range(Append(s, e)) = Ida!Range(s) \cup {e}
           /\ DOMAIN Append(s, e) = 1..(Len(s) + 1) /\ DOMAIN s = 1..Len(s)
           /\ \A i \in DOMAIN s : Append(s, e)[i] = s[i]
           /\ Append(s, e)[Len(s) + 1] = e
  BY IdaAppendBasics, IdaAppendRange

LEMMA IdaTailFacts ==
    ASSUME NEW S, NEW s \in Seq(S), s # <<>>
    PROVE  /\ Tail(s) \in Seq(S) /\ Len(Tail(s)) = Len(s) - 1 /\ Len(s) \in Nat
           /\ Head(s) \in S /\ Head(s) \in Ida!Range(s) /\ Head(s) = s[1]
           /\ Ida!Range(Tail(s)) \subseteq Ida!Range(s)
           /\ DOMAIN s = 1..Len(s) /\ DOMAIN Tail(s) = 1..(Len(s) - 1)
           /\ \A i \in DOMAIN Tail(s) : Tail(s)[i] = s[i + 1] /\ i + 1 \in DOMAIN s
           /\ 1 \in DOMAIN s
  <1>1. /\ Tail(s) \in Seq(S) /\ Len(Tail(s)) = Len(s) - 1 /\ Len(s) \in Nat /\ Len(s) >= 1
        /\ Head(s) \in S /\ Head(s) = s[1]
        /\ DOMAIN s = 1..Len(s) /\ DOMAIN Tail(s) = 1..(Len(s) - 1)
        /\ \A i \in 1..(Len(s) - 1) : Tail(s)[i] = s[i + 1]
    OBVIOUS
  <1>2. 1 \in DOMAIN s /\ \A i \in DOMAIN Tail(s) : i + 1 \in DOMAIN s
    BY <1>1
  <1>3. Head(s) \in Ida!Range(s)
    BY <1>1, <1>2 DEF Ida!Range
  <1>4. Ida!Range(Tail(s)) \subseteq Ida!Range(s)
    BY <1>1, <1>2 DEF Ida!Range
  <1> QED
    BY <1>1, <1>2, <1>3, <1>4

LEMMA IdaEmptyRange == Ida!Range(<<>>) = {}
  BY DEF Ida!Range

LEMMA IdaInRange ==
    ASSUME NEW s, NEW n \in Ida!Range(s)
    PROVE  \E i \in DOMAIN s : n = s[i]
  BY DEF Ida!Range

LEMMA IdaAppendPairs ==
    ASSUME NEW S, NEW s \in Seq(S), NEW e \in S
    PROVE  \A i, j \in DOMAIN Append(s, e) : i < j =>
             /\ i \in DOMAIN s /\ Append(s, e)[i] = s[i] /\ s[i] \in Ida!Range(s)
             /\ (j \in DOMAIN s /\ Append(s, e)[j] = s[j]) \/ Append(s, e)[j] = e
  <1> SUFFICES ASSUME NEW i \in DOMAIN Append(s, e), NEW j \in DOMAIN Append(s, e), i < j
               PROVE  /\ i \in DOMAIN s /\ Append(s, e)[i] = s[i] /\ s[i] \in Ida!Range(s)
                      /\ (j \in DOMAIN s /\ Append(s, e)[j] = s[j]) \/ Append(s, e)[j] = e
    OBVIOUS
  <1>1. i \in 1..(Len(s) + 1) /\ j \in 1..(Len(s) + 1) /\ Len(s) \in Nat /\ DOMAIN s = 1..Len(s)
    BY IdaAppendBasics
  <1>2. i \in 1..Len(s) /\ (j \in 1..Len(s) \/ j = Len(s) + 1)
    BY <1>1
  <1>3. Append(s, e)[i] = s[i] /\ s[i] \in Ida!Range(s)
    BY <1>1, <1>2, IdaAppendBasics DEF Ida!Range
  <1> QED
    BY <1>1, <1>2, <1>3, IdaAppendBasics

LEMMA IdaTailPairs ==
    ASSUME NEW S, NEW s \in Seq(S), s # <<>>
    PROVE  /\ Tail(s) \in Seq(S) /\ Head(s) \in S /\ Head(s) \in Ida!Range(s)
           /\ Ida!Range(Tail(s)) \subseteq Ida!Range(s)
           /\ \A f \in Ida!Range(Tail(s)) : \E j \in DOMAIN s : 1 < j /\ f = s[j]
           /\ 1 \in DOMAIN s /\ Head(s) = s[1]
           /\ \A i, j \in DOMAIN Tail(s) : i < j =>
                 /\ i + 1 \in DOMAIN s /\ j + 1 \in DOMAIN s /\ i + 1 < j + 1
                 /\ Tail(s)[i] = s[i + 1] /\ Tail(s)[j] = s[j + 1]
  <1>1. ASSUME NEW f \in Ida!Range(Tail(s))
        PROVE  \E j \in DOMAIN s : 1 < j /\ f = s[j]
    <2>1. PICK i \in DOMAIN Tail(s) : f = Tail(s)[i]
      BY DEF Ida!Range
    <2>2. i + 1 \in DOMAIN s /\ f = s[i + 1]
      BY <2>1, IdaTailFacts
    <2>3. i \in 1..(Len(s) - 1)
      BY IdaTailFacts
    <2>4. 1 < i + 1
      BY <2>3
    <2> QED
      BY <2>2, <2>4
  <1>2. \A i, j \in DOMAIN Tail(s) : i < j => i + 1 < j + 1
    <2>1. DOMAIN Tail(s) = 1..(Len(s) - 1)
      BY IdaTailFacts
    <2> QED
      BY <2>1
  <1> QED
    BY <1>1, <1>2, IdaTailFacts

-----------------------------------------------------------------------------
(* Typing *)

LEMMA IdaTypes ==
    ASSUME IdaClientType, IdaWorkerType
    PROVE  /\ \A f \in Ida!Range(input) : f \in IdaRequests
           /\ \A m \in Ida!Range(messages) : m \in IdaMessages
           /\ \A n \in Ida!Range(edits) : n \in Nat
           /\ work \in IdaRequests /\ input \in Seq(IdaRequests) /\ messages \in Seq(IdaMessages)
           /\ edits \in Seq(Nat) /\ tickets \in Nat /\ started \in Nat
           /\ \A f \in IdaRequests : f.call \in Nat /\ f.close \in BOOLEAN
           /\ \A m \in IdaMessages : m.call \in Nat /\ m.ok \in BOOLEAN
  <1>1. \A f \in Ida!Range(input) : f \in IdaRequests
    BY DEF IdaWorkerType, Ida!Range
  <1>2. \A m \in Ida!Range(messages) : m \in IdaMessages
    BY DEF IdaWorkerType, Ida!Range
  <1>3. \A n \in Ida!Range(edits) : n \in Nat
    BY DEF IdaWorkerType, Ida!Range
  <1> QED
    BY <1>1, <1>2, <1>3 DEF IdaWorkerType, IdaClientType, IdaRequests, IdaMessages

LEMMA IdaNoWorkType == Ida!NoWork \in IdaRequests /\ Ida!NoWork.call = 0 /\ Ida!NoWork.close = FALSE
  BY DEF Ida!NoWork, IdaRequests

LEMMA IdaTypeOfEnded ==
    ASSUME IdaClientType, NEW c \in Callers, NEW what \in {"ok", "failed", "unsure"},
           Ida!Ended(c, what)
    PROVE  /\ at' \in [Callers -> IdaPlaces] /\ holder' \in Callers \cup {Ida!Free}
           /\ told' \in [1..MaxOps -> Ida!Answers]
  BY DEF Ida!Ended, Ida!Leave, IdaClientType, IdaPlaces, Ida!Answers

LEMMA IdaTypeOfEmit ==
    ASSUME IdaConstantsOK, IdaWorkerType, NEW m \in IdaMessages, Ida!Emit(m)
    PROVE  /\ messages' \in Seq(IdaMessages) /\ Len(messages') <= Capacity /\ overflow' \in BOOLEAN
           /\ Ida!Range(messages') \subseteq Ida!Range(messages) \cup {m}
  <1>1. CASE Len(messages) < Capacity
    <2>1. messages' = Append(messages, m) /\ overflow' = overflow
      BY <1>1 DEF Ida!Emit
    <2>2. messages \in Seq(IdaMessages) /\ overflow \in BOOLEAN
      BY DEF IdaWorkerType
    <2>3. /\ Append(messages, m) \in Seq(IdaMessages)
             /\ Len(Append(messages, m)) = Len(messages) + 1
          /\ Ida!Range(Append(messages, m)) = Ida!Range(messages) \cup {m}
      BY <2>2, IdaAppendFacts
    <2>4. Len(messages) + 1 <= Capacity
      BY <1>1, <2>2 DEF IdaConstantsOK
    <2> QED
      BY <2>1, <2>2, <2>3, <2>4
  <1>2. CASE ~(Len(messages) < Capacity)
    BY <1>2 DEF Ida!Emit, IdaWorkerType
  <1> QED
    BY <1>1, <1>2

LEMMA IdaTypeOfCall ==
    ASSUME IdaClientType, IdaWorkerType, NEW c \in Callers, NEW o \in Ida!Ops, Ida!Call(c, o)
    PROVE  IdaClientType' /\ IdaWorkerType'
  <1>1. IdaClientType'
    <2>1. at' = at \/ at' = [at EXCEPT ![c] = "lock"]
      BY DEF Ida!Call
    <2>2. at' \in [Callers -> IdaPlaces]
      BY <2>1 DEF IdaClientType, IdaPlaces
    <2>3. closed' \in BOOLEAN
      BY DEF Ida!Call, IdaClientType
    <2>4. /\ op' = [op EXCEPT ![c] = o] /\ started' = started + 1
          /\ UNCHANGED <<holder, call, tickets, told>>
      BY DEF Ida!Call
    <2>5. op' \in [Callers -> Ida!Ops] /\ started' \in Nat
      BY <2>4 DEF IdaClientType
    <2> QED
      BY <2>2, <2>3, <2>4, <2>5 DEF IdaClientType
  <1>2. IdaWorkerType'
    <2>1. /\ UNCHANGED <<messages, overflow, input, edits, saved, said>>
          /\ work' = work \/ work' = Ida!NoWork
          /\ alive' = alive \/ alive' = FALSE
      BY DEF Ida!Call, Ida!Kill, Ida!worker
    <2> QED
      BY <2>1, IdaNoWorkType DEF IdaWorkerType
  <1> QED
    BY <1>1, <1>2

LEMMA IdaTypeOfEnter ==
    ASSUME IdaClientType, IdaWorkerType, NEW c \in Callers, Ida!Enter(c)
    PROVE  IdaClientType' /\ IdaWorkerType'
  <1>1. /\ tickets' = tickets + 1 /\ call' = [call EXCEPT ![c] = tickets + 1]
        /\ UNCHANGED <<op, started, messages, overflow, Ida!worker, closed>>
        /\ \E p \in IdaPlaces : at' = [at EXCEPT ![c] = p]
        /\ holder' = c \/ holder' = Ida!Free
        /\ told' = told \/ told' = [told EXCEPT ![tickets + 1] = "refused"]
        /\ \/ input' = input
           \/ input' = Append(input, [call |-> tickets + 1, close |-> op[c] = "close"])
    BY DEF Ida!Enter, Ida!Leave, IdaPlaces
  <1>2. IdaClientType'
    <2>1. at' \in [Callers -> IdaPlaces] /\ holder' \in Callers \cup {Ida!Free}
      BY <1>1 DEF IdaClientType
    <2>2. told' \in [1..MaxOps -> Ida!Answers]
      BY <1>1 DEF IdaClientType, Ida!Answers
    <2>3. tickets' \in Nat /\ call' \in [Callers -> Nat]
      BY <1>1 DEF IdaClientType
    <2> QED
      BY <1>1, <2>1, <2>2, <2>3 DEF IdaClientType
  <1>3. input' \in Seq(IdaRequests)
    <2>1. [call |-> tickets + 1, close |-> op[c] = "close"] \in IdaRequests
      BY DEF IdaRequests, IdaClientType
    <2>2. input \in Seq(IdaRequests)
      BY DEF IdaWorkerType
    <2>3. Append(input, [call |-> tickets + 1, close |-> op[c] = "close"]) \in Seq(IdaRequests)
      BY <2>1, <2>2, IdaAppendFacts
    <2> QED
      BY <1>1, <2>2, <2>3
  <1>4. IdaWorkerType'
    BY <1>1, <1>3 DEF IdaWorkerType, Ida!worker
  <1> QED
    BY <1>2, <1>4

(* What a step of the wait for an answer does.                              *)
LEMMA IdaReceiveEffect ==
    ASSUME IdaConstantsOK, IdaClientType, IdaWorkerType, NEW c \in Callers, Ida!Receive(c)
    PROVE  /\ at[c] = "await" /\ UNCHANGED <<call, op, started, tickets, overflow, input, edits,
              saved, said>>
           /\ messages' \in Seq(IdaMessages) /\ Len(messages') <= Capacity
           /\ Ida!Range(messages') \subseteq Ida!Range(messages)
           /\ closed' \in BOOLEAN
           /\ \/ UNCHANGED <<alive, work>>
              \/ alive' = FALSE /\ work' = Ida!NoWork
           /\ \/ /\ UNCHANGED <<at, holder, told>>
              \/ Ida!Ended(c, "unsure")
              \/ \E m \in Ida!Range(messages) :
                    m.call = call[c] /\ Ida!Ended(c, IF m.ok THEN "ok" ELSE "failed")
  <1>1. at[c] = "await" /\ UNCHANGED <<call, op, started, tickets, overflow, input>>
    BY DEF Ida!Receive
  <1>2. closed \in BOOLEAN /\ messages \in Seq(IdaMessages) /\ Len(messages) <= Capacity
    BY DEF IdaClientType, IdaWorkerType
  <1>3. CASE /\ messages # <<>> /\ messages' = Tail(messages) /\ UNCHANGED <<closed, Ida!worker>>
             /\ IF Ida!Mine(c, Head(messages))
                THEN Ida!Ended(c, IF Head(messages).ok THEN "ok" ELSE "failed")
                ELSE UNCHANGED <<at, holder, told>>
    <2>1. /\ Tail(messages) \in Seq(IdaMessages) /\ Len(Tail(messages)) = Len(messages) - 1
          /\ Len(messages) \in Nat
          /\ Head(messages) \in Ida!Range(messages)
             /\ Ida!Range(Tail(messages)) \subseteq Ida!Range(messages)
      BY <1>2, <1>3, IdaTailFacts
    <2>2. Len(messages') <= Capacity
      BY <1>2, <1>3, <2>1 DEF IdaConstantsOK
    <2> QED
      BY <1>1, <1>2, <1>3, <2>1, <2>2 DEF Ida!Mine, Ida!worker
  <1>4. CASE Ida!Ended(c, "unsure") /\ UNCHANGED <<closed, Ida!worker, messages>>
    BY <1>1, <1>2, <1>4 DEF Ida!worker
  <1>5. CASE closed' = TRUE /\ Ida!Kill /\ Ida!Ended(c, "unsure") /\ UNCHANGED messages
    BY <1>1, <1>2, <1>5 DEF Ida!Kill
  <1> QED
    BY <1>3, <1>4, <1>5 DEF Ida!Receive

LEMMA IdaTypeOfReceive ==
    ASSUME IdaConstantsOK, IdaClientType, IdaWorkerType, NEW c \in Callers, Ida!Receive(c)
    PROVE  IdaClientType' /\ IdaWorkerType'
  <1>1. /\ at' \in [Callers -> IdaPlaces] /\ holder' \in Callers \cup {Ida!Free}
        /\ told' \in [1..MaxOps -> Ida!Answers]
    <2>1. CASE UNCHANGED <<at, holder, told>>
      BY <2>1 DEF IdaClientType
    <2>2. CASE Ida!Ended(c, "unsure")
      BY <2>2, IdaTypeOfEnded
    <2>3. ASSUME NEW m \in Ida!Range(messages), Ida!Ended(c, IF m.ok THEN "ok" ELSE "failed")
          PROVE  /\ at' \in [Callers -> IdaPlaces] /\ holder' \in Callers \cup {Ida!Free}
                 /\ told' \in [1..MaxOps -> Ida!Answers]
      BY <2>3, IdaTypeOfEnded
    <2> QED
      BY <2>1, <2>2, <2>3, IdaReceiveEffect
  <1>2. IdaClientType'
    BY <1>1, IdaReceiveEffect DEF IdaClientType
  <1>3. IdaWorkerType'
    BY IdaReceiveEffect, IdaNoWorkType DEF IdaWorkerType
  <1> QED
    BY <1>2, <1>3

LEMMA IdaTypeOfExit ==
    ASSUME IdaClientType, IdaWorkerType, NEW c \in Callers, Ida!Exit(c)
    PROVE  IdaClientType' /\ IdaWorkerType'
  <1>1. IdaClientType'
    BY DEF Ida!Exit, IdaClientType, IdaPlaces
  <1>2. IdaWorkerType'
    BY IdaNoWorkType DEF Ida!Exit, Ida!Kill, IdaWorkerType
  <1> QED
    BY <1>1, <1>2

(* A step of the worker, or of what it prints                               *)
IdaWorks == Ida!Read \/ Ida!Work \/ Ida!Close \/ Ida!Die \/ Ida!Noise

(* What a step of the worker does: it takes a request, or is through with   *)
(* one, having edited or saved, with or without an answer, or it ends.      *)
LEMMA IdaWorkEffect ==
    ASSUME IdaConstantsOK, IdaClientType, IdaWorkerType, IdaWorks
    PROVE  /\ UNCHANGED Ida!client /\ alive
           /\ \/ /\ Ida!Read /\ work = Ida!NoWork /\ input # <<>> /\ work' = Head(input)
                 /\ input' = Tail(input) /\ UNCHANGED <<messages, overflow, alive, edits, saved, said>>
              \/ /\ work.call # 0 /\ ~work.close /\ work' = Ida!NoWork
                 /\ \E ok, edited \in BOOLEAN :
                       /\ ok /\ work.call \notin Batches => edited
                       /\ edits' = IF edited THEN Append(edits, work.call) ELSE edits
                       /\ Ida!Says(ok)
                 /\ UNCHANGED <<alive, saved, input>>
              \/ /\ work.close /\ work' = Ida!NoWork /\ saved' = saved \cup Ida!Range(edits)
                 /\ Ida!Says(TRUE)
                 /\ alive' = FALSE /\ UNCHANGED <<edits, input>>
              \/ /\ alive' = FALSE /\ work' = Ida!NoWork
                 /\ UNCHANGED <<edits, saved, said, messages, overflow, input>>
              \/ /\ Ida!Emit([call |-> 0, ok |-> TRUE]) /\ UNCHANGED <<Ida!worker, input>>
  <1>1. CASE Ida!Read
    BY <1>1 DEF Ida!Read
  <1>2. CASE Ida!Work
    BY <1>2 DEF Ida!Work
  <1>3. CASE Ida!Close
    BY <1>3 DEF Ida!Close, Ida!Packed
  <1>4. CASE Ida!Die
    BY <1>4 DEF Ida!Die, Ida!Kill
  <1>5. CASE Ida!Noise
    BY <1>5 DEF Ida!Noise
  <1> QED
    BY <1>1, <1>2, <1>3, <1>4, <1>5 DEF IdaWorks

(* An answer is a verdict.                                                  *)
LEMMA IdaSaysTyped ==
    ASSUME IdaWorkerType, NEW ok \in BOOLEAN, Ida!Says(ok)
    PROVE  said' \in [1..MaxOps -> IdaVerdicts]
  BY DEF Ida!Says, IdaWorkerType, IdaVerdicts

LEMMA IdaTypeOfWork ==
    ASSUME IdaConstantsOK, IdaClientType, IdaWorkerType, IdaWorks
    PROVE  IdaClientType' /\ IdaWorkerType'
  <1>1. UNCHANGED Ida!client
    BY IdaWorkEffect
  <1>2. IdaClientType'
    BY <1>1 DEF IdaClientType, Ida!client
  <1>3. work.call \in Nat /\ edits \in Seq(Nat) /\ saved \subseteq Nat
    BY IdaTypes DEF IdaWorkerType
  <1>4. CASE Ida!Read
    <2>1. input # <<>> /\ work' = Head(input) /\ input' = Tail(input)
          /\ UNCHANGED <<messages, overflow, alive, edits, saved, said>>
      BY <1>4 DEF Ida!Read
    <2>2. Head(input) \in IdaRequests /\ Tail(input) \in Seq(IdaRequests)
      BY <2>1, IdaTailFacts DEF IdaWorkerType
    <2> QED
      BY <1>2, <2>1, <2>2 DEF IdaWorkerType
  <1>5. CASE Ida!Work
    <2>1. PICK ok \in BOOLEAN, edited \in BOOLEAN :
             /\ edits' = IF edited THEN Append(edits, work.call) ELSE edits
             /\ Ida!Says(ok)
      BY <1>5 DEF Ida!Work
    <2>2. [call |-> work.call, ok |-> ok] \in IdaMessages
      BY <1>3 DEF IdaMessages
    <2>3. /\ messages' \in Seq(IdaMessages) /\ Len(messages') <= Capacity /\ overflow' \in BOOLEAN
      BY <2>1, <2>2, IdaTypeOfEmit DEF Ida!Says
    <2>4. said' \in [1..MaxOps -> IdaVerdicts]
      BY <2>1, IdaSaysTyped
    <2>5. edits' \in Seq(Nat)
      BY <1>3, <2>1
    <2>6. UNCHANGED <<alive, saved, input>> /\ work' = Ida!NoWork
      BY <1>5 DEF Ida!Work
    <2> QED
      BY <1>2, <2>3, <2>4, <2>5, <2>6, IdaNoWorkType DEF IdaWorkerType
  <1>6. CASE Ida!Close
    <2>1. Ida!Says(TRUE) /\ saved' = saved \cup Ida!Range(edits)
          /\ alive' = FALSE /\ work' = Ida!NoWork /\ UNCHANGED <<edits, input>>
      BY <1>6 DEF Ida!Close, Ida!Packed
    <2>2. [call |-> work.call, ok |-> TRUE] \in IdaMessages
      BY <1>3 DEF IdaMessages
    <2>3. /\ messages' \in Seq(IdaMessages) /\ Len(messages') <= Capacity /\ overflow' \in BOOLEAN
      BY <2>1, <2>2, IdaTypeOfEmit DEF Ida!Says
    <2>4. said' \in [1..MaxOps -> IdaVerdicts]
      BY <2>1, IdaSaysTyped
    <2>5. saved' \subseteq Nat
      BY <1>3, <2>1, IdaTypes
    <2> QED
      BY <1>2, <2>1, <2>3, <2>4, <2>5, IdaNoWorkType DEF IdaWorkerType
  <1>7. CASE Ida!Die
    BY <1>2, <1>7, IdaNoWorkType DEF Ida!Die, Ida!Kill, IdaWorkerType
  <1>8. CASE Ida!Noise
    <2>1. Ida!Emit([call |-> 0, ok |-> TRUE]) /\ UNCHANGED <<Ida!worker, input>>
      BY <1>8 DEF Ida!Noise
    <2>2. [call |-> 0, ok |-> TRUE] \in IdaMessages
      BY DEF IdaMessages
    <2>3. /\ messages' \in Seq(IdaMessages) /\ Len(messages') <= Capacity /\ overflow' \in BOOLEAN
      BY <2>1, <2>2, IdaTypeOfEmit
    <2> QED
      BY <1>2, <2>1, <2>3 DEF IdaWorkerType, Ida!worker
  <1> QED
    BY <1>4, <1>5, <1>6, <1>7, <1>8 DEF IdaWorks

-----------------------------------------------------------------------------
(* The lock, and the calls that wait for it *)

LEMMA IdaLockKept ==
    ASSUME IdaLockInv, IdaCountInv, UNCHANGED <<holder, at, call, op, tickets, started>>
    PROVE  IdaLockInv' /\ IdaCountInv'
  <1>1. IdaWaiting' = IdaWaiting
    BY DEF IdaWaiting
  <1> QED
    BY <1>1 DEF IdaLockInv, IdaCountInv

(* A caller that did not wait for the lock goes where it does not either.   *)
LEMMA IdaSameWaiting ==
    ASSUME IdaClientType, IdaCountInv, NEW c \in Callers, at[c] # "lock",
           NEW p \in IdaPlaces, p # "lock", at' = [at EXCEPT ![c] = p], UNCHANGED <<tickets,
           started>>
    PROVE  IdaCountInv'
  <1>1. IdaWaiting' = IdaWaiting
    BY DEF IdaWaiting, IdaClientType
  <1> QED
    BY <1>1 DEF IdaCountInv

LEMMA IdaCountOfCall ==
    ASSUME IdaConstantsOK, IdaClientType, IdaCountInv, NEW c \in Callers, NEW o \in Ida!Ops,
           Ida!Call(c, o)
    PROVE  IdaCountInv'
  <1>1. /\ at[c] = "idle" /\ started < MaxOps /\ started' = started + 1 /\ tickets' = tickets
        /\ at' = at \/ at' = [at EXCEPT ![c] = "lock"]
    BY DEF Ida!Call
  <1>2. IdaWaiting' = IdaWaiting \/ IdaWaiting' = IdaWaiting \cup {c}
    BY <1>1 DEF IdaWaiting, IdaClientType
  <1>3. IsFiniteSet(IdaWaiting) /\ c \notin IdaWaiting
    BY <1>1 DEF IdaCountInv, IdaWaiting
  <1>4. IsFiniteSet(IdaWaiting') /\ Cardinality(IdaWaiting') <= Cardinality(IdaWaiting) + 1
        /\ Cardinality(IdaWaiting) \in Nat /\ Cardinality(IdaWaiting') \in Nat
    <2>1. /\ IsFiniteSet(IdaWaiting \cup {c})
             /\ Cardinality(IdaWaiting \cup {c}) = Cardinality(IdaWaiting) + 1
          /\ Cardinality(IdaWaiting) \in Nat
      BY <1>3, FS_AddElement, FS_CardinalityType
    <2>2. CASE IdaWaiting' = IdaWaiting
      BY <1>3, <2>1, <2>2
    <2>3. CASE IdaWaiting' = IdaWaiting \cup {c}
      BY <2>1, <2>3
    <2> QED
      BY <1>2, <2>2, <2>3
  <1>5. tickets \in Nat /\ started \in Nat /\ MaxOps \in Nat
    BY DEF IdaClientType, IdaConstantsOK
  <1> QED
    BY <1>1, <1>4, <1>5 DEF IdaCountInv

LEMMA IdaCountOfEnter ==
    ASSUME IdaClientType, IdaCountInv, NEW c \in Callers, Ida!Enter(c)
    PROVE  IdaCountInv'
  <1>1. /\ at[c] = "lock" /\ tickets' = tickets + 1 /\ started' = started
        /\ \E p \in IdaPlaces : p # "lock" /\ at' = [at EXCEPT ![c] = p]
    BY DEF Ida!Enter, Ida!Leave, IdaPlaces
  <1>2. IdaWaiting' = IdaWaiting \ {c} /\ c \in IdaWaiting
    BY <1>1 DEF IdaWaiting, IdaClientType
  <1>3. /\ IsFiniteSet(IdaWaiting \ {c})
           /\ Cardinality(IdaWaiting \ {c}) = Cardinality(IdaWaiting) - 1
        /\ Cardinality(IdaWaiting) \in Nat
    BY <1>2, FS_RemoveElement, FS_CardinalityType DEF IdaCountInv
  <1>4. tickets \in Nat /\ started \in Nat
    BY DEF IdaClientType
  <1>5. Cardinality(IdaWaiting') = Cardinality(IdaWaiting) - 1 /\ IsFiniteSet(IdaWaiting')
    BY <1>2, <1>3
  <1> QED
    BY <1>1, <1>3, <1>4, <1>5 DEF IdaCountInv

LEMMA IdaLockOfCall ==
    ASSUME IdaClientType, IdaLockInv, NEW c \in Callers, NEW o \in Ida!Ops, Ida!Call(c, o)
    PROVE  IdaLockInv'
  <1>1. /\ at[c] = "idle" /\ op' = [op EXCEPT ![c] = o]
        /\ UNCHANGED <<holder, call, tickets>>
        /\ \/ at' = at
           \/ o # "terminate" /\ at' = [at EXCEPT ![c] = "lock"]
    BY DEF Ida!Call
  <1>2. ASSUME NEW d \in Callers, d # c
        PROVE  at'[d] = at[d] /\ op'[d] = op[d]
    BY <1>1, <1>2 DEF IdaClientType
  <1>3. holder # c /\ at'[c] \in {"idle", "lock"} /\ (at'[c] # "idle" => op'[c] # "terminate")
    BY <1>1 DEF IdaClientType, IdaLockInv
  <1> QED
    BY <1>1, <1>2, <1>3 DEF IdaLockInv

LEMMA IdaLockOfEnter ==
    ASSUME IdaConstantsOK, IdaClientType, IdaLockInv, NEW c \in Callers, Ida!Enter(c)
    PROVE  IdaLockInv'
  <1>1. /\ at[c] = "lock" /\ holder = Ida!Free /\ op' = op
        /\ tickets' = tickets + 1 /\ call' = [call EXCEPT ![c] = tickets + 1]
        /\ tickets \in Nat
    BY DEF Ida!Enter, IdaClientType
  <1>2. \/ at' = [at EXCEPT ![c] = "idle"] /\ holder' = Ida!Free
        \/ at' = [at EXCEPT ![c] = "await"] /\ holder' = c
        \/ at' = [at EXCEPT ![c] = "exit"] /\ holder' = c /\ op[c] = "close"
    BY DEF Ida!Enter, Ida!Leave
  <1>3. \A d \in Callers : at[d] \in {"idle", "lock"} /\ call[d] \in Nat /\ call[d] <= tickets
    BY <1>1 DEF IdaLockInv, IdaClientType, IdaConstantsOK, IdaPlaces
  <1>4. ASSUME NEW d \in Callers, d # c
        PROVE  /\ at'[d] = at[d] /\ call'[d] = call[d] /\ holder' # d
               /\ call'[d] <= tickets'
    <2>1. at'[d] = at[d] /\ call'[d] = call[d]
      BY <1>1, <1>2, <1>4 DEF IdaClientType
    <2>2. holder' # d
      BY <1>2, <1>4 DEF IdaConstantsOK
    <2> QED
      BY <1>1, <1>3, <2>1, <2>2
  <1>5. call'[c] = tickets' /\ 0 < tickets' /\ op[c] # "terminate"
    BY <1>1 DEF IdaClientType, IdaLockInv
  <1>6. \/ at'[c] = "idle" /\ holder' = Ida!Free
        \/ at'[c] = "await" /\ holder' = c
        \/ at'[c] = "exit" /\ holder' = c /\ op[c] = "close"
    <2>1. \A p \in IdaPlaces : [at EXCEPT ![c] = p][c] = p
      BY DEF IdaClientType
    <2> QED
      BY <1>2, <2>1 DEF IdaPlaces
  <1>7. Ida!Free # c
    BY DEF IdaConstantsOK
  <1>8. ASSUME NEW d \in Callers
        PROVE  /\ at'[d] \in {"await", "exit"} <=> holder' = d
               /\ holder' = d => call'[d] = tickets' /\ 0 < tickets'
               /\ call'[d] <= tickets'
               /\ at'[d] = "exit" => op'[d] = "close"
               /\ at'[d] # "idle" => op'[d] # "terminate"
    <2>1. CASE d = c
      BY <1>1, <1>5, <1>6, <1>7, <2>1
    <2>2. CASE d # c
      <3>1. at[d] # "idle" => op[d] # "terminate"
        BY DEF IdaLockInv
      <3> QED
        BY <1>1, <1>3, <1>4, <2>2, <3>1
    <2> QED
      BY <2>1, <2>2
  <1> QED
    BY <1>8 DEF IdaLockInv

(* The holder of the lock goes on to wait for the exit, or leaves.          *)
LEMMA IdaLockOfHolder ==
    ASSUME IdaConstantsOK, IdaClientType, IdaLockInv, IdaCountInv, NEW c \in Callers, holder = c,
           UNCHANGED <<call, op, tickets, started>>,
           \/ at' = [at EXCEPT ![c] = "idle"] /\ holder' = Ida!Free
           \/ at' = [at EXCEPT ![c] = "exit"] /\ holder' = holder /\ op[c] = "close"
    PROVE  IdaLockInv' /\ IdaCountInv'
  <1>1. at[c] \in {"await", "exit"} /\ at[c] # "lock"
    BY DEF IdaLockInv
  <1>2. IdaCountInv'
    BY <1>1, IdaSameWaiting DEF IdaPlaces
  <1>3. \A d \in Callers : d # c => at'[d] = at[d] /\ at[d] \notin {"await", "exit"} /\ holder' # d
    BY DEF IdaClientType, IdaLockInv, IdaConstantsOK
  <1>4. \/ at'[c] = "idle" /\ holder' = Ida!Free
        \/ at'[c] = "exit" /\ holder' = c /\ op[c] = "close"
    <2>1. \A p \in IdaPlaces : [at EXCEPT ![c] = p][c] = p
      BY DEF IdaClientType
    <2> QED
      BY <2>1 DEF IdaPlaces
  <1>5. Ida!Free # c
    BY DEF IdaConstantsOK
  <1>6. ASSUME NEW d \in Callers
        PROVE  /\ at'[d] \in {"await", "exit"} <=> holder' = d
               /\ holder' = d => call'[d] = tickets' /\ 0 < tickets'
               /\ call'[d] <= tickets'
               /\ at'[d] = "exit" => op'[d] = "close"
               /\ at'[d] # "idle" => op'[d] # "terminate"
    <2>0. /\ holder = d => call[d] = tickets /\ 0 < tickets
          /\ call[d] <= tickets
          /\ at[d] # "idle" => op[d] # "terminate"
      BY DEF IdaLockInv
    <2>1. CASE d = c
      BY <1>1, <1>4, <1>5, <2>0, <2>1
    <2>2. CASE d # c
      BY <1>3, <2>0, <2>2
    <2> QED
      BY <2>1, <2>2
  <1>7. IdaLockInv'
    BY <1>6 DEF IdaLockInv
  <1> QED
    BY <1>2, <1>7

LEMMA IdaEndedMoves ==
    ASSUME NEW c \in Callers, NEW what, Ida!Ended(c, what)
    PROVE  \/ /\ op[c] # "close" /\ at' = [at EXCEPT ![c] = "idle"] /\ holder' = Ida!Free
              /\ told' = [told EXCEPT ![call[c]] = what]
           \/ /\ op[c] = "close" /\ at' = [at EXCEPT ![c] = "exit"] /\ holder' = holder
              /\ told' = [told EXCEPT ![call[c]] = IF what = "ok" THEN "closed" ELSE what]
  BY DEF Ida!Ended, Ida!Leave

LEMMA IdaLockOfReceive ==
    ASSUME IdaConstantsOK, IdaClientType, IdaWorkerType, IdaLockInv, IdaCountInv,
           NEW c \in Callers, Ida!Receive(c)
    PROVE  IdaLockInv' /\ IdaCountInv'
  <1>1. at[c] = "await" /\ UNCHANGED <<call, op, started, tickets>> /\ holder = c
    BY IdaReceiveEffect DEF IdaLockInv
  <1>2. CASE UNCHANGED <<at, holder, told>>
    BY <1>1, <1>2, IdaLockKept
  <1>3. ASSUME NEW what, Ida!Ended(c, what)
        PROVE  IdaLockInv' /\ IdaCountInv'
    BY <1>1, <1>3, IdaEndedMoves, IdaLockOfHolder
  <1> QED
    BY <1>2, <1>3, IdaReceiveEffect

LEMMA IdaLockOfExit ==
    ASSUME IdaConstantsOK, IdaClientType, IdaLockInv, IdaCountInv, NEW c \in Callers, Ida!Exit(c)
    PROVE  IdaLockInv' /\ IdaCountInv'
  <1>1. holder = c
    BY DEF Ida!Exit, IdaLockInv
  <1> QED
    BY <1>1, IdaLockOfHolder DEF Ida!Exit

-----------------------------------------------------------------------------
(* The order of the requests *)

LEMMA IdaFlowKept ==
    ASSUME IdaFlowInv, IdaClientType, UNCHANGED <<input, edits, saved, tickets>>,
           Ida!Range(messages') \subseteq Ida!Range(messages),
           work' = work \/ work' = Ida!NoWork
    PROVE  IdaFlowInv'
  <1>1. CASE work' = work
    BY <1>1 DEF IdaFlowInv
  <1>2. CASE work' = Ida!NoWork
    <2>1. work'.call = 0 /\ work' = Ida!NoWork
      BY <1>2, IdaNoWorkType
    <2>2. \A f \in Ida!Range(input) : f.call \in 1..tickets
      BY DEF IdaFlowInv
    <2>3. \A f \in Ida!Range(input) : 0 < f.call
      BY <2>2
    <2>4. 0 <= tickets
      BY DEF IdaClientType
    <2> QED
      BY <2>1, <2>3, <2>4 DEF IdaFlowInv
  <1> QED
    BY <1>1, <1>2

LEMMA IdaFlowOfEnter ==
    ASSUME IdaClientType, IdaWorkerType, IdaFlowInv, NEW c \in Callers, Ida!Enter(c)
    PROVE  IdaFlowInv'
  <1> DEFINE f == [call |-> tickets + 1, close |-> op[c] = "close"]
  <1>1. /\ tickets' = tickets + 1 /\ UNCHANGED <<messages, work, edits, saved>>
        /\ input' = input \/ input' = Append(input, f)
    BY DEF Ida!Enter, Ida!worker
  <1>2. f.call = tickets + 1 /\ f \in IdaRequests
    BY DEF IdaClientType, IdaRequests
  <1> HIDE DEF f
  <1>3. /\ tickets \in Nat /\ input \in Seq(IdaRequests) /\ work.call \in Nat
        /\ \A g \in Ida!Range(input) : g.call \in Nat
        /\ \A n \in Ida!Range(edits) : n \in Nat
        /\ \A m \in Ida!Range(messages) : m.call \in Nat
    BY IdaTypes
  <1>4. /\ \A n \in 1..tickets : n \in 1..(tickets + 1) /\ n < tickets + 1
        /\ \A n \in Nat : n <= tickets => n < tickets + 1 /\ n <= tickets + 1
    BY <1>3
  <1>5. \A g \in Ida!Range(input') : g \in Ida!Range(input) \/ g = f
    <2>1. Ida!Range(Append(input, f)) = Ida!Range(input) \cup {f}
      BY <1>2, <1>3, IdaAppendRange
    <2> QED
      BY <1>1, <2>1
  <1>6. \A g \in Ida!Range(input) : g.call \in 1..(tickets + 1)
    BY <1>4 DEF IdaFlowInv
  <1>7. \A g \in Ida!Range(input') : g.call \in 1..tickets' /\ work.call < g.call
    BY <1>1, <1>2, <1>3, <1>4, <1>5, <1>6 DEF IdaFlowInv
  <1>8. ASSUME NEW i \in DOMAIN input', NEW j \in DOMAIN input', i < j
        PROVE  input'[i].call < input'[j].call
    <2>1. CASE input' = input
      BY <1>8, <2>1 DEF IdaFlowInv
    <2>2. CASE input' = Append(input, f)
      <3>1. /\ i \in DOMAIN input /\ input'[i] = input[i] /\ input'[i] \in Ida!Range(input)
            /\ (j \in DOMAIN input /\ input'[j] = input[j]) \/ input'[j] = f
        <4>1. input \in Seq(IdaRequests) /\ f \in IdaRequests
          BY <1>2, <1>3
        <4>2. \A k, l \in DOMAIN Append(input, f) : k < l =>
                 /\ k \in DOMAIN input /\ Append(input, f)[k] = input[k]
                    /\ input[k] \in Ida!Range(input)
                 /\ (l \in DOMAIN input /\ Append(input, f)[l] = input[l]) \/ Append(input,
                    f)[l] = f
          BY <4>1, IdaAppendPairs
        <4> QED
          BY <1>8, <2>2, <4>2
      <3>2. input[i].call < tickets + 1
        BY <1>4, <3>1 DEF IdaFlowInv
      <3> QED
        BY <1>2, <1>8, <3>1, <3>2 DEF IdaFlowInv
    <2> QED
      BY <1>1, <2>1, <2>2
  <1>9. ASSUME NEW n \in Ida!Range(edits)
        PROVE  n \in 1..tickets' /\ \A g \in Ida!Range(input') : n < g.call
    <2>1. n \in 1..tickets /\ \A g \in Ida!Range(input) : n < g.call
      BY DEF IdaFlowInv
    <2> QED
      BY <1>1, <1>2, <1>4, <1>5, <2>1
  <1>10. ASSUME NEW m \in Ida!Range(messages)
         PROVE  m.call <= tickets' /\ \A g \in Ida!Range(input') : m.call < g.call
    <2>1. m.call <= tickets /\ m.call \in Nat /\ \A g \in Ida!Range(input) : m.call < g.call
      BY <1>3 DEF IdaFlowInv
    <2> QED
      BY <1>1, <1>2, <1>4, <1>5, <2>1
  <1>11. saved \subseteq 1..tickets' /\ work.call <= tickets'
    BY <1>1, <1>3, <1>4 DEF IdaFlowInv
  <1>12. /\ \A n \in Ida!Range(edits) : work.call # 0 => n < work.call
         /\ \A m \in Ida!Range(messages) : work.call # 0 => m.call < work.call
         /\ \A i, j \in DOMAIN edits : i < j => edits[i] < edits[j]
         /\ work = Ida!NoWork \/ work.call # 0
    BY DEF IdaFlowInv
  <1> QED
    BY <1>1, <1>7, <1>8, <1>9, <1>10, <1>11, <1>12 DEF IdaFlowInv

LEMMA IdaFlowOfRead ==
    ASSUME IdaConstantsOK, IdaClientType, IdaWorkerType, IdaFlowInv, Ida!Read
    PROVE  IdaFlowInv'
  <1> DEFINE f == Head(input)
  <1>1. /\ work = Ida!NoWork /\ input # <<>> /\ work' = f /\ input' = Tail(input)
        /\ UNCHANGED <<messages, edits, saved, tickets>>
    BY DEF Ida!Read, Ida!client
  <1>2. input \in Seq(IdaRequests) /\ tickets \in Nat
    BY IdaTypes
  <1>3. /\ f \in Ida!Range(input) /\ Ida!Range(input') \subseteq Ida!Range(input)
        /\ \A g \in Ida!Range(input') : \E j \in DOMAIN input : 1 < j /\ g = input[j]
        /\ 1 \in DOMAIN input /\ f = input[1]
    BY <1>1, <1>2, IdaTailPairs
  <1>4. \A i, j \in DOMAIN input' : i < j => input'[i].call < input'[j].call
    <2>1. \A i, j \in DOMAIN input' : i < j =>
             /\ i + 1 \in DOMAIN input /\ j + 1 \in DOMAIN input /\ i + 1 < j + 1
             /\ input'[i] = input[i + 1] /\ input'[j] = input[j + 1]
      BY <1>1, <1>2, IdaTailPairs
    <2> QED
      BY <2>1 DEF IdaFlowInv
  <1>5. \A g \in Ida!Range(input') : f.call < g.call
    BY <1>3 DEF IdaFlowInv
  <1>6. f.call \in 1..tickets
    BY <1>3 DEF IdaFlowInv
  <1>7. f.call <= tickets /\ f.call # 0
    BY <1>2, <1>6
  <1>8. /\ \A n \in Ida!Range(edits) : n < f.call /\ n \in 1..tickets
        /\ \A m \in Ida!Range(messages) : m.call < f.call /\ m.call <= tickets
        /\ \A g \in Ida!Range(input') : g.call \in 1..tickets
        /\ \A n \in Ida!Range(edits), g \in Ida!Range(input') : n < g.call
        /\ \A m \in Ida!Range(messages), g \in Ida!Range(input') : m.call < g.call
    BY <1>3 DEF IdaFlowInv
  <1> HIDE DEF f
  <1> QED
    BY <1>1, <1>4, <1>5, <1>7, <1>8 DEF IdaFlowInv

(* The worker is through with its request, which it may have carried out   *)
(* and may have answered.                                                  *)
LEMMA IdaFlowOfDone ==
    ASSUME IdaClientType, IdaWorkerType, IdaFlowInv, work.call # 0,
           UNCHANGED <<input, tickets>>, work' = Ida!NoWork,
           edits' = edits \/ edits' = Append(edits, work.call),
           \A m \in Ida!Range(messages') : m \in Ida!Range(messages) \/ m.call = work.call,
           saved' \subseteq saved \cup Ida!Range(edits)
    PROVE  IdaFlowInv'
  <1>1. /\ edits \in Seq(Nat) /\ work.call \in Nat /\ tickets \in Nat
        /\ work.call <= tickets /\ \A f \in Ida!Range(input) : work.call < f.call
    BY IdaTypes DEF IdaFlowInv
  <1>2. work.call \in 1..tickets
    BY <1>1
  <1>3. \A n \in Ida!Range(edits') : n \in Ida!Range(edits) \/ n = work.call
    <2>1. Ida!Range(Append(edits, work.call)) = Ida!Range(edits) \cup {work.call}
      BY <1>1, IdaAppendRange
    <2> QED
      BY <2>1
  <1>4. \A n \in Ida!Range(edits') : n \in 1..tickets /\ \A f \in Ida!Range(input) : n < f.call
    BY <1>1, <1>2, <1>3 DEF IdaFlowInv
  <1>5. \A m \in Ida!Range(messages') : m.call <= tickets
        /\ \A f \in Ida!Range(input) : m.call < f.call
    BY <1>1 DEF IdaFlowInv
  <1>6. ASSUME NEW i \in DOMAIN edits', NEW j \in DOMAIN edits', i < j
        PROVE  edits'[i] < edits'[j]
    <2>1. CASE edits' = edits
      BY <1>6, <2>1 DEF IdaFlowInv
    <2>2. CASE edits' = Append(edits, work.call)
      <3>1. /\ i \in DOMAIN edits /\ edits'[i] = edits[i] /\ edits'[i] \in Ida!Range(edits)
            /\ (j \in DOMAIN edits /\ edits'[j] = edits[j]) \/ edits'[j] = work.call
        <4>1. edits \in Seq(Nat) /\ work.call \in Nat
          BY <1>1
        <4>2. \A k, l \in DOMAIN Append(edits, work.call) : k < l =>
                 /\ k \in DOMAIN edits /\ Append(edits, work.call)[k] = edits[k]
                    /\ edits[k] \in Ida!Range(edits)
                 /\ \/ l \in DOMAIN edits /\ Append(edits, work.call)[l] = edits[l]
                    \/ Append(edits, work.call)[l] = work.call
          BY <4>1, IdaAppendPairs
        <4> QED
          BY <1>6, <2>2, <4>2
      <3> QED
        BY <1>6, <3>1 DEF IdaFlowInv
    <2> QED
      BY <2>1, <2>2
  <1>7. saved' \subseteq 1..tickets
    BY DEF IdaFlowInv
  <1>8. work'.call = 0 /\ work' = Ida!NoWork /\ 0 <= tickets
    BY <1>1, IdaNoWorkType
  <1>9. /\ \A f \in Ida!Range(input) : f.call \in 1..tickets /\ 0 < f.call
        /\ \A i, j \in DOMAIN input : i < j => input[i].call < input[j].call
    <2>1. \A f \in Ida!Range(input) : f.call \in 1..tickets
      BY DEF IdaFlowInv
    <2> QED
      BY <2>1 DEF IdaFlowInv
  <1> QED
    BY <1>4, <1>5, <1>6, <1>7, <1>8, <1>9 DEF IdaFlowInv

LEMMA IdaEmitMessages ==
    ASSUME IdaConstantsOK, IdaWorkerType, NEW n \in Nat, NEW b \in BOOLEAN,
           Ida!Emit([call |-> n, ok |-> b])
    PROVE  \A m \in Ida!Range(messages') : m \in Ida!Range(messages) \/ (m.call = n /\ m.ok = b)
  <1> DEFINE a == [call |-> n, ok |-> b]
  <1>1. a \in IdaMessages /\ a.call = n /\ a.ok = b
    BY DEF IdaMessages
  <1> HIDE DEF a
  <1>2. Ida!Emit(a)
    BY DEF a
  <1>3. Ida!Range(messages') \subseteq Ida!Range(messages) \cup {a}
    BY <1>1, <1>2, IdaTypeOfEmit
  <1> QED
    BY <1>1, <1>3

LEMMA IdaFlowOfNoise ==
    ASSUME IdaConstantsOK, IdaClientType, IdaWorkerType, IdaFlowInv, Ida!Noise
    PROVE  IdaFlowInv'
  <1>1. Ida!Emit([call |-> 0, ok |-> TRUE]) /\ UNCHANGED <<work, edits, saved, input, tickets>>
    BY DEF Ida!Noise, Ida!worker, Ida!client
  <1>2. \A m \in Ida!Range(messages') : m \in Ida!Range(messages) \/ m.call = 0
    BY <1>1, IdaEmitMessages
  <1>3. work.call \in Nat /\ tickets \in Nat
    BY IdaTypes
  <1>4. \A f \in Ida!Range(input) : f.call \in 1..tickets
    BY DEF IdaFlowInv
  <1>5. 0 <= tickets /\ (work.call # 0 => 0 < work.call) /\ \A f \in Ida!Range(input) : 0 < f.call
    BY <1>3, <1>4
  <1>6. \A m \in Ida!Range(messages') : /\ m.call <= tickets
                                        /\ work.call # 0 => m.call < work.call
                                        /\ \A f \in Ida!Range(input) : m.call < f.call
    BY <1>2, <1>5 DEF IdaFlowInv
  <1> QED
    BY <1>1, <1>6 DEF IdaFlowInv

LEMMA IdaFlowOfWork ==
    ASSUME IdaConstantsOK, IdaClientType, IdaWorkerType, IdaFlowInv, IdaWorks
    PROVE  IdaFlowInv'
  <1>0. tickets' = tickets /\ work.call \in Nat
    BY IdaWorkEffect, IdaTypes DEF Ida!client
  <1>1. CASE Ida!Read
    BY <1>1, IdaFlowOfRead
  <1>2. CASE Ida!Work
    <2>1. /\ work.call # 0 /\ work' = Ida!NoWork /\ UNCHANGED <<saved, input>>
      BY <1>2 DEF Ida!Work
    <2>2. PICK ok \in BOOLEAN, edited \in BOOLEAN :
             /\ edits' = IF edited THEN Append(edits, work.call) ELSE edits
             /\ Ida!Emit([call |-> work.call, ok |-> ok])
      BY <1>2 DEF Ida!Work, Ida!Says
    <2>3. \A m \in Ida!Range(messages') : m \in Ida!Range(messages) \/ m.call = work.call
      BY <1>0, <2>2, IdaEmitMessages
    <2> QED
      BY <1>0, <2>1, <2>2, <2>3, IdaFlowOfDone
  <1>3. CASE Ida!Close
    <2>1. /\ work.close /\ work' = Ida!NoWork /\ saved' = saved \cup Ida!Range(edits)
          /\ Ida!Emit([call |-> work.call, ok |-> TRUE]) /\ UNCHANGED <<edits, input>>
      BY <1>3 DEF Ida!Close, Ida!Packed, Ida!Says
    <2>2. work.call # 0
      BY <2>1, IdaNoWorkType DEF IdaFlowInv
    <2>3. \A m \in Ida!Range(messages') : m \in Ida!Range(messages) \/ m.call = work.call
      BY <1>0, <2>1, IdaEmitMessages
    <2> QED
      BY <1>0, <2>1, <2>2, <2>3, IdaFlowOfDone
  <1>4. CASE Ida!Die
    BY <1>0, <1>4, IdaFlowKept DEF Ida!Die, Ida!Kill
  <1>5. CASE Ida!Noise
    BY <1>5, IdaFlowOfNoise
  <1> QED
    BY <1>1, <1>2, <1>3, <1>4, <1>5 DEF IdaWorks

-----------------------------------------------------------------------------
(* The answer to the request under way, and what the callers are told *)

(* Nothing new is on its way: of the requests some may be gone.            *)
IdaFewer ==
    /\ UNCHANGED <<tickets, edits, saved>>
    /\ \A f \in Ida!Range(input') \cup {work'} : f \in Ida!Range(input) \cup {work} \/ f = Ida!NoWork
    /\ alive' = alive \/ alive' = FALSE
    /\ \A c \in Callers : at'[c] = "await" => at[c] = "await" /\ op'[c] = op[c]

LEMMA IdaAwaitKept ==
    ASSUME IdaClientType, IdaLockInv, IdaAwaitInv, IdaFewer,
           Ida!Range(messages') \subseteq Ida!Range(messages)
    PROVE  IdaAwaitInv'
  <1>1. ASSUME NEW c \in Callers, at'[c] = "await"
        PROVE  /\ \A f \in Ida!Range(input') \cup {work'} : f.call = tickets'
                  => f.close = (op'[c] = "close")
               /\ \A m \in Ida!Range(messages') : m.call = tickets' =>
                     /\ op'[c] = "close" => m.ok /\ ~alive' /\ Ida!Range(edits') \subseteq saved'
                     /\ op'[c] = "request" /\ tickets' \notin Batches
                        => (m.ok => tickets' \in Ida!Range(edits'))
    <2>1. at[c] = "await" /\ op'[c] = op[c] /\ holder = c /\ 0 < tickets /\ tickets \in Nat
      BY <1>1 DEF IdaFewer, IdaLockInv, IdaClientType
    <2>2. Ida!NoWork.call # tickets
      BY <2>1, IdaNoWorkType
    <2>3. \A f \in Ida!Range(input') \cup {work'} : f.call = tickets'
          => f.close = (op'[c] = "close")
      BY <2>1, <2>2 DEF IdaAwaitInv, IdaFewer
    <2>4. ASSUME NEW m \in Ida!Range(messages'), m.call = tickets'
          PROVE  /\ op'[c] = "close" => m.ok /\ ~alive' /\ Ida!Range(edits') \subseteq saved'
                 /\ op'[c] = "request" /\ tickets' \notin Batches
                    => (m.ok => tickets' \in Ida!Range(edits'))
      BY <2>1, <2>4 DEF IdaAwaitInv, IdaFewer
    <2> QED
      BY <2>3, <2>4
  <1> QED
    BY <1>1 DEF IdaAwaitInv

LEMMA IdaToldKept ==
    ASSUME IdaClientType, IdaToldInv, IdaFewer, told' = told
    PROVE  IdaToldInv'
  <1>1. ASSUME NEW n \in 1..MaxOps, IdaOver(n)
        PROVE  IdaOver(n)'
    <2>1. n # 0
      OBVIOUS
    <2>2. Ida!NoWork.call # n
      BY <2>1, IdaNoWorkType
    <2> QED
      BY <1>1, <2>2 DEF IdaOver, IdaFewer
  <1>2. ASSUME NEW n \in 1..MaxOps
        PROVE  /\ told'[n] # "nothing" => n <= tickets'
               /\ told'[n] # "nothing" /\ n = tickets' => \A c \in Callers : at'[c] # "await"
               /\ told'[n] = "refused" => IdaOver(n)'
               /\ told'[n] = "ok" /\ n \notin Batches => n \in Ida!Range(edits')
               /\ told'[n] = "closed" => ~alive' /\ Ida!Range(edits') \subseteq saved'
    BY <1>1 DEF IdaToldInv, IdaFewer
  <1> QED
    BY <1>2 DEF IdaToldInv, IdaOver

LEMMA IdaFewerOfCall ==
    ASSUME IdaClientType, NEW c \in Callers, NEW o \in Ida!Ops, Ida!Call(c, o)
    PROVE  IdaFewer /\ told' = told /\ messages' = messages
  <1>1. /\ at[c] = "idle" /\ op' = [op EXCEPT ![c] = o]
        /\ UNCHANGED <<tickets, edits, saved, input, told, messages>>
        /\ at' = at \/ at' = [at EXCEPT ![c] = "lock"]
        /\ work' = work \/ work' = Ida!NoWork
        /\ alive' = alive \/ alive' = FALSE
    BY DEF Ida!Call, Ida!Kill, Ida!worker
  <1>2. \A d \in Callers : at'[d] = "await" => at[d] = "await" /\ op'[d] = op[d]
    BY <1>1 DEF IdaClientType
  <1> QED
    BY <1>1, <1>2 DEF IdaFewer

LEMMA IdaFewerOfExit ==
    ASSUME IdaClientType, NEW c \in Callers, Ida!Exit(c)
    PROVE  IdaFewer /\ told' = told /\ messages' = messages
  <1>1. \A d \in Callers : at'[d] = "await" => at[d] = "await" /\ op'[d] = op[d]
    BY DEF Ida!Exit, IdaClientType
  <1> QED
    BY <1>1 DEF Ida!Exit, Ida!Kill, IdaFewer

LEMMA IdaFewerOfRead ==
    ASSUME IdaConstantsOK, IdaClientType, IdaWorkerType, Ida!Read
    PROVE  IdaFewer /\ told' = told /\ messages' = messages
  <1>1. /\ input # <<>> /\ work' = Head(input) /\ input' = Tail(input)
        /\ UNCHANGED <<tickets, edits, saved, alive, at, op, told, messages>>
    BY DEF Ida!Read, Ida!client
  <1>2. Head(input) \in Ida!Range(input) /\ Ida!Range(Tail(input)) \subseteq Ida!Range(input)
    BY <1>1, IdaTailFacts DEF IdaWorkerType
  <1> QED
    BY <1>1, <1>2 DEF IdaFewer

LEMMA IdaFewerOfDie ==
    ASSUME Ida!Die \/ Ida!Noise
    PROVE  IdaFewer /\ told' = told
  BY DEF Ida!Die, Ida!Noise, Ida!Kill, IdaFewer, Ida!client, Ida!worker

(* Only the holder of the lock waits for an answer, so none does when it    *)
(* leaves or the lock is free.                                              *)
LEMMA IdaNobodyAwaits ==
    ASSUME IdaConstantsOK, IdaClientType, IdaLockInv,
           \/ holder = Ida!Free
           \/ \E c \in Callers : /\ holder = c
                                 /\ \/ at' = [at EXCEPT ![c] = "idle"]
                                    \/ at' = [at EXCEPT ![c] = "exit"]
    PROVE  \/ holder = Ida!Free /\ \A d \in Callers : at[d] # "await"
           \/ \A d \in Callers : at'[d] # "await"
  BY DEF IdaClientType, IdaLockInv, IdaConstantsOK

LEMMA IdaAwaitOfEnter ==
    ASSUME IdaConstantsOK, IdaClientType, IdaWorkerType, IdaLockInv, IdaFlowInv,
           NEW c \in Callers, Ida!Enter(c)
    PROVE  IdaAwaitInv'
  <1> DEFINE g == [call |-> tickets + 1, close |-> op[c] = "close"]
  <1>1. /\ holder = Ida!Free /\ tickets' = tickets + 1 /\ UNCHANGED <<op, messages, work>>
        /\ \/ at' = [at EXCEPT ![c] = "await"] /\ input' = Append(input, g)
           \/ at' = [at EXCEPT ![c] = "idle"]
           \/ at' = [at EXCEPT ![c] = "exit"]
    BY DEF Ida!Enter, Ida!Leave, Ida!worker
  <1>2. \A d \in Callers : at[d] # "await"
    BY <1>1 DEF IdaLockInv, IdaConstantsOK
  <1>3. \A d \in Callers : at'[d] = "await" => d = c /\ input' = Append(input, g)
    BY <1>1, <1>2 DEF IdaClientType
  <1>4. /\ tickets \in Nat /\ input \in Seq(IdaRequests) /\ g \in IdaRequests
        /\ g.close = (op[c] = "close") /\ work.call \in Nat
        /\ \A m \in Ida!Range(messages) : m.call \in Nat
    BY IdaTypes DEF IdaRequests
  <1> HIDE DEF g
  <1>5. \A f \in Ida!Range(input) : f.call \in 1..tickets
    BY DEF IdaFlowInv
  <1>6. tickets + 1 \notin 1..tickets /\ work.call # tickets + 1
        /\ \A m \in Ida!Range(messages) : m.call # tickets + 1
    BY <1>4 DEF IdaFlowInv
  <1>7. ASSUME input' = Append(input, g)
        PROVE  \A f \in Ida!Range(input') : f.call = tickets + 1 => f = g
    BY <1>4, <1>5, <1>6, <1>7, IdaAppendFacts
  <1>8. ASSUME NEW d \in Callers, at'[d] = "await"
        PROVE  /\ \A f \in Ida!Range(input') \cup {work'} : f.call = tickets'
                  => f.close = (op'[d] = "close")
               /\ \A m \in Ida!Range(messages') : m.call # tickets'
    BY <1>1, <1>3, <1>4, <1>6, <1>7, <1>8
  <1> QED
    BY <1>8 DEF IdaAwaitInv

LEMMA IdaToldOfEnter ==
    ASSUME IdaConstantsOK, IdaClientType, IdaWorkerType, IdaLockInv, IdaFlowInv, IdaToldInv,
           NEW c \in Callers, Ida!Enter(c)
    PROVE  IdaToldInv'
  <1> DEFINE g == [call |-> tickets + 1, close |-> op[c] = "close"]
  <1>1. /\ holder = Ida!Free /\ tickets' = tickets + 1 /\ UNCHANGED <<edits, saved, work, alive>>
        /\ \/ told' = told /\ (input' = input \/ input' = Append(input, g))
           \/ /\ told' = [told EXCEPT ![tickets + 1] = "refused"] /\ input' = input
              /\ at' = [at EXCEPT ![c] = "idle"]
    BY DEF Ida!Enter, Ida!Leave, Ida!worker
  <1>2. /\ tickets \in Nat /\ input \in Seq(IdaRequests) /\ g \in IdaRequests
           /\ g.call = tickets + 1
        /\ work.call \in Nat /\ \A n \in Ida!Range(edits) : n \in Nat
        /\ told \in [1..MaxOps -> Ida!Answers]
    BY IdaTypes DEF IdaRequests, IdaClientType
  <1> HIDE DEF g
  <1>3. \A d \in Callers : at[d] # "await"
    BY <1>1 DEF IdaLockInv, IdaConstantsOK
  <1>4. /\ \A f \in Ida!Range(input) : f.call \in 1..tickets
        /\ \A n \in Ida!Range(edits) : n \in 1..tickets
        /\ work.call <= tickets
    BY DEF IdaFlowInv
  <1>5. \A f \in Ida!Range(input') : f \in Ida!Range(input) \/ f.call = tickets + 1
    <2>1. input \in Seq(IdaRequests)
      BY IdaTypes
    <2>2. Ida!Range(Append(input, g)) = Ida!Range(input) \cup {g}
      BY <1>2, <2>1, IdaAppendRange
    <2> QED
      BY <1>1, <1>2, <2>2
  <1>6. ASSUME NEW n \in 1..MaxOps, n <= tickets, IdaOver(n)
        PROVE  IdaOver(n)'
    <2>1. n # tickets + 1
      BY <1>2, <1>6
    <2> QED
      BY <1>1, <1>5, <1>6, <2>1 DEF IdaOver
  <1>7. ASSUME input' = input
        PROVE  tickets + 1 \notin Ida!Range(edits) /\ tickets + 1 # work.call
               /\ \A f \in Ida!Range(input') : f.call # tickets + 1
    <2>1. tickets + 1 \notin 1..tickets
      BY <1>2
    <2>2. tickets + 1 # work.call
      BY <1>2, <1>4
    <2> QED
      BY <1>4, <1>7, <2>1, <2>2
  <1>8. ASSUME NEW n \in 1..MaxOps, told'[n] = told[n]
        PROVE  /\ told'[n] # "nothing" => n <= tickets' /\ n # tickets'
               /\ told'[n] = "refused" => IdaOver(n)'
               /\ told'[n] = "ok" /\ n \notin Batches => n \in Ida!Range(edits')
               /\ told'[n] = "closed" => ~alive' /\ Ida!Range(edits') \subseteq saved'
    <2>1. told[n] # "nothing" => n <= tickets
      BY DEF IdaToldInv
    <2>2. told[n] # "nothing" => n <= tickets + 1 /\ n # tickets + 1
      BY <1>2, <2>1
    <2> QED
      BY <1>1, <1>6, <1>8, <2>1, <2>2 DEF IdaToldInv
  <1>9. CASE told' = told
    BY <1>8, <1>9 DEF IdaToldInv, IdaOver
  <1>10. CASE /\ told' = [told EXCEPT ![tickets + 1] = "refused"] /\ input' = input
              /\ at' = [at EXCEPT ![c] = "idle"]
    <2>1. \A n \in 1..MaxOps : told'[n] = IF n = tickets + 1 THEN "refused" ELSE told[n]
      BY <1>2, <1>10
    <2>2. \A d \in Callers : at'[d] # "await"
      BY <1>3, <1>10 DEF IdaClientType
    <2>3. ASSUME NEW n \in 1..MaxOps
          PROVE  /\ told'[n] # "nothing" => n <= tickets'
                 /\ told'[n] = "refused" => IdaOver(n)'
                 /\ told'[n] = "ok" /\ n \notin Batches => n \in Ida!Range(edits')
                 /\ told'[n] = "closed" => ~alive' /\ Ida!Range(edits') \subseteq saved'
      <3>1. CASE n = tickets + 1
        BY <1>1, <1>2, <1>7, <1>10, <2>1, <3>1 DEF IdaOver
      <3>2. CASE n # tickets + 1
        <4>1. told'[n] = told[n]
          BY <2>1, <3>2
        <4> QED
          BY <1>8, <4>1
      <3> QED
        BY <3>1, <3>2
    <2> QED
      BY <2>2, <2>3 DEF IdaToldInv, IdaOver
  <1> QED
    BY <1>1, <1>9, <1>10

LEMMA IdaFewerOfReceive ==
    ASSUME IdaConstantsOK, IdaClientType, IdaWorkerType, NEW c \in Callers, Ida!Receive(c)
    PROVE  IdaFewer
  <1>1. /\ at[c] = "await" /\ UNCHANGED <<op, tickets, input, edits, saved>>
        /\ UNCHANGED <<alive, work>> \/ (alive' = FALSE /\ work' = Ida!NoWork)
    BY IdaReceiveEffect
  <1>2. \/ at' = at \/ at' = [at EXCEPT ![c] = "idle"] \/ at' = [at EXCEPT ![c] = "exit"]
    BY IdaReceiveEffect, IdaEndedMoves
  <1>3. \A d \in Callers : at'[d] = "await" => at[d] = "await" /\ op'[d] = op[d]
    BY <1>1, <1>2 DEF IdaClientType
  <1> QED
    BY <1>1, <1>3 DEF IdaFewer

(* What is told at the end of an exchange is true of the call.             *)
LEMMA IdaToldOfEnded ==
    ASSUME IdaConstantsOK, IdaClientType, IdaWorkerType, IdaLockInv, IdaFlowInv, IdaAwaitInv,
           IdaToldInv,
           NEW c \in Callers, at[c] = "await", NEW what, Ida!Ended(c, what), IdaFewer,
           \/ what = "unsure"
           \/ \E m \in Ida!Range(messages) : m.call = call[c]
              /\ what = IF m.ok THEN "ok" ELSE "failed"
    PROVE  IdaToldInv'
  <1>1. holder = c /\ call[c] = tickets /\ op[c] \in {"request", "close"} /\ tickets \in Nat
        /\ told \in [1..MaxOps -> Ida!Answers]
    BY DEF IdaLockInv, IdaClientType, Ida!Ops
  <1> DEFINE says == IF op[c] = "close" /\ what = "ok" THEN "closed" ELSE what
  <1>2. /\ told' = [told EXCEPT ![tickets] = says]
        /\ at' = [at EXCEPT ![c] = "idle"] \/ at' = [at EXCEPT ![c] = "exit"]
    BY <1>1, IdaEndedMoves
  <1>3. \A d \in Callers : at'[d] # "await"
    BY <1>1, <1>2 DEF IdaClientType, IdaLockInv
  <1>4. tickets' = tickets /\ edits' = edits /\ saved' = saved
    BY DEF IdaFewer
  <1>5. \A n \in 1..MaxOps : told'[n] = IF n = tickets THEN says ELSE told[n]
    BY <1>1, <1>2
  <1>6. ASSUME NEW n \in 1..MaxOps, IdaOver(n)
        PROVE  IdaOver(n)'
    <2>1. n # 0
      OBVIOUS
    <2>2. Ida!NoWork.call # n
      BY <2>1, IdaNoWorkType
    <2> QED
      BY <1>6, <2>2 DEF IdaOver, IdaFewer
  <1>7. /\ says \in {"unsure", "ok", "failed", "closed"}
        /\ says = "ok" /\ tickets \notin Batches => tickets \in Ida!Range(edits)
        /\ says = "closed" => ~alive /\ Ida!Range(edits) \subseteq saved
    <2>1. CASE what = "unsure"
      BY <2>1
    <2>2. ASSUME NEW m \in Ida!Range(messages), m.call = tickets,
                 what = IF m.ok THEN "ok" ELSE "failed"
          PROVE  /\ says \in {"unsure", "ok", "failed", "closed"}
                 /\ says = "ok" /\ tickets \notin Batches => tickets \in Ida!Range(edits)
                 /\ says = "closed" => ~alive /\ Ida!Range(edits) \subseteq saved
      <3>1. /\ op[c] = "close" => m.ok /\ ~alive /\ Ida!Range(edits) \subseteq saved
            /\ op[c] = "request" /\ tickets \notin Batches
               => (m.ok => tickets \in Ida!Range(edits))
        BY <2>2 DEF IdaAwaitInv
      <3>2. CASE op[c] = "close"
        BY <2>2, <3>1, <3>2
      <3>3. CASE op[c] = "request"
        BY <2>2, <3>1, <3>3
      <3> QED
        BY <1>1, <3>2, <3>3
    <2> QED
      BY <1>1, <2>1, <2>2
  <1> HIDE DEF says
  <1>8. ASSUME NEW n \in 1..MaxOps
        PROVE  /\ told'[n] # "nothing" => n <= tickets'
               /\ told'[n] = "refused" => IdaOver(n)'
               /\ told'[n] = "ok" /\ n \notin Batches => n \in Ida!Range(edits')
               /\ told'[n] = "closed" => ~alive' /\ Ida!Range(edits') \subseteq saved'
    <2>0. ~alive => ~alive'
      BY DEF IdaFewer
    <2>1. CASE n = tickets
      <3>1. told'[n] = says /\ n <= tickets'
        BY <1>1, <1>4, <1>5, <2>1
      <3> QED
        BY <1>4, <1>6, <1>7, <2>0, <2>1, <3>1
    <2>2. CASE n # tickets
      <3>1. told'[n] = told[n]
        BY <1>5, <2>2
      <3> QED
        BY <1>4, <1>6, <2>0, <3>1 DEF IdaToldInv
    <2> QED
      BY <2>1, <2>2
  <1> QED
    BY <1>3, <1>8 DEF IdaToldInv, IdaOver

LEMMA IdaAnswersOfReceive ==
    ASSUME IdaConstantsOK, IdaClientType, IdaWorkerType, IdaLockInv, IdaFlowInv, IdaAwaitInv,
           IdaToldInv,
           NEW c \in Callers, Ida!Receive(c)
    PROVE  IdaAwaitInv' /\ IdaToldInv'
  <1>1. IdaFewer /\ Ida!Range(messages') \subseteq Ida!Range(messages) /\ at[c] = "await"
    BY IdaFewerOfReceive, IdaReceiveEffect
  <1>2. IdaAwaitInv'
    BY <1>1, IdaAwaitKept
  <1>3. IdaToldInv'
    <2>1. CASE told' = told
      BY <1>1, <2>1, IdaToldKept
    <2>2. CASE Ida!Ended(c, "unsure")
      BY <1>1, <2>2, IdaToldOfEnded
    <2>3. ASSUME NEW m \in Ida!Range(messages), m.call = call[c],
                 Ida!Ended(c, IF m.ok THEN "ok" ELSE "failed")
          PROVE  IdaToldInv'
      BY <1>1, <2>3, IdaToldOfEnded
    <2> QED
      BY <2>1, <2>2, <2>3, IdaReceiveEffect
  <1> QED
    BY <1>2, <1>3

LEMMA IdaToldOfDone ==
    ASSUME IdaClientType, IdaWorkerType, IdaToldInv, work.call # 0, work' = Ida!NoWork, alive,
           UNCHANGED <<input, tickets, told, at>>,
           \/ UNCHANGED <<saved, alive>> /\ edits' \in {edits, Append(edits, work.call)}
           \/ edits' = edits /\ saved' = saved \cup Ida!Range(edits) /\ alive' = FALSE
    PROVE  IdaToldInv'
  <1>1. edits \in Seq(Nat) /\ work.call \in Nat
    BY IdaTypes
  <1>2. /\ Ida!Range(edits) \subseteq Ida!Range(edits')
        /\ \A n \in Ida!Range(edits') : n \in Ida!Range(edits) \/ n = work.call
    <2>1. Ida!Range(Append(edits, work.call)) = Ida!Range(edits) \cup {work.call}
      BY <1>1, IdaAppendRange
    <2> QED
      BY <2>1
  <1>3. ASSUME NEW n \in 1..MaxOps, IdaOver(n)
        PROVE  IdaOver(n)'
    <2>1. n # 0
      OBVIOUS
    <2>2. Ida!NoWork.call # n
      BY <2>1, IdaNoWorkType
    <2> QED
      BY <1>2, <1>3, <2>2 DEF IdaOver
  <1>4. \A n \in 1..MaxOps : told[n] # "closed"
    BY DEF IdaToldInv
  <1>5. ASSUME NEW n \in 1..MaxOps
        PROVE  /\ told'[n] # "nothing" => n <= tickets'
               /\ told'[n] # "nothing" /\ n = tickets' => \A c \in Callers : at'[c] # "await"
               /\ told'[n] = "refused" => IdaOver(n)'
               /\ told'[n] = "ok" /\ n \notin Batches => n \in Ida!Range(edits')
               /\ told'[n] = "closed" => ~alive' /\ Ida!Range(edits') \subseteq saved'
    BY <1>2, <1>3, <1>4 DEF IdaToldInv
  <1> QED
    BY <1>5 DEF IdaToldInv, IdaOver

LEMMA IdaAnswersOfWork ==
    ASSUME IdaConstantsOK, IdaClientType, IdaWorkerType, IdaLockInv, IdaFlowInv, IdaAwaitInv,
           IdaToldInv, IdaWorks
    PROVE  IdaAwaitInv' /\ IdaToldInv'
  <1>0. UNCHANGED <<at, op, tickets, told>> /\ alive
    BY IdaWorkEffect DEF Ida!client
  <1>1. /\ work.call \in Nat /\ tickets \in Nat /\ edits \in Seq(Nat)
        /\ \A m \in Ida!Range(messages) : m.call \in Nat
        /\ \A n \in Ida!Range(edits) : n \in Nat
    BY IdaTypes
  <1>2. CASE Ida!Read
    BY <1>2, IdaFewerOfRead, IdaAwaitKept, IdaToldKept
  <1>3. CASE Ida!Die
    <2>1. messages' = messages
      BY <1>3 DEF Ida!Die
    <2> QED
      BY <1>3, <2>1, IdaFewerOfDie, IdaAwaitKept, IdaToldKept
  <1>4. CASE Ida!Noise
    <2>1. IdaFewer /\ UNCHANGED <<told, input, work, edits, saved, alive>>
          /\ Ida!Emit([call |-> 0, ok |-> TRUE])
      BY <1>4, IdaFewerOfDie DEF Ida!Noise, Ida!worker
    <2>2. \A m \in Ida!Range(messages') : m \in Ida!Range(messages) \/ m.call = 0
      BY <2>1, IdaEmitMessages
    <2>3. ASSUME NEW c \in Callers, at[c] = "await"
          PROVE  \A m \in Ida!Range(messages') : m.call = tickets => m \in Ida!Range(messages)
      <3>1. 0 < tickets
        BY <2>3 DEF IdaLockInv
      <3> QED
        BY <1>1, <2>2, <3>1
    <2>4. IdaAwaitInv'
      BY <1>0, <2>1, <2>3 DEF IdaAwaitInv
    <2> QED
      BY <1>4, <2>1, <2>4, IdaFewerOfDie, IdaToldKept
  <1>5. ASSUME NEW c \in Callers, at[c] = "await", work.call # 0
        PROVE  \A m \in Ida!Range(messages) : m.call # tickets
    <2>1. work.call <= tickets /\ \A m \in Ida!Range(messages) : m.call < work.call
      BY <1>5 DEF IdaFlowInv
    <2> QED
      BY <1>1, <2>1
  <1>6. CASE Ida!Work
    <2>1. /\ work.call # 0 /\ ~work.close /\ work' = Ida!NoWork /\ UNCHANGED <<alive, saved, input>>
      BY <1>6 DEF Ida!Work
    <2>2. PICK ok \in BOOLEAN, edited \in BOOLEAN :
             /\ ok /\ work.call \notin Batches => edited
             /\ edits' = IF edited THEN Append(edits, work.call) ELSE edits
             /\ Ida!Emit([call |-> work.call, ok |-> ok])
      BY <1>6 DEF Ida!Work, Ida!Says
    <2>3. \A m \in Ida!Range(messages') : m \in Ida!Range(messages) \/ (m.call = work.call
          /\ m.ok = ok)
      BY <1>1, <2>2, IdaEmitMessages
    <2>4. IdaToldInv'
      BY <1>0, <2>1, <2>2, IdaToldOfDone
    <2>5. ASSUME NEW c \in Callers, at[c] = "await"
          PROVE  /\ \A f \in Ida!Range(input') \cup {work'} : f.call = tickets'
                    => f.close = (op'[c] = "close")
                 /\ \A m \in Ida!Range(messages') : m.call = tickets' =>
                       /\ op'[c] = "close" => m.ok /\ ~alive' /\ Ida!Range(edits') \subseteq saved'
                       /\ op'[c] = "request" /\ tickets' \notin Batches
                          => (m.ok => tickets' \in Ida!Range(edits'))
      <3>1. 0 < tickets
        BY <2>5 DEF IdaLockInv
      <3>2. \A f \in Ida!Range(input') \cup {work'} : f.call = tickets'
            => f.close = (op'[c] = "close")
        <4>1. Ida!NoWork.call # tickets
          BY <1>1, <3>1, IdaNoWorkType
        <4> QED
          BY <1>0, <2>1, <2>5, <4>1 DEF IdaAwaitInv
      <3>3. ASSUME NEW m \in Ida!Range(messages'), m.call = tickets
            PROVE  /\ op[c] # "close"
                   /\ tickets \notin Batches => (m.ok => tickets \in Ida!Range(edits'))
        <4>1. m.call = work.call /\ m.ok = ok /\ work.call = tickets
          BY <1>5, <2>1, <2>3, <2>5, <3>3
        <4>2. op[c] # "close"
          BY <2>1, <2>5, <4>1 DEF IdaAwaitInv
        <4>3. CASE edited
          <5>1. Ida!Range(edits') = Ida!Range(edits) \cup {work.call}
            BY <1>1, <2>2, <4>3, IdaAppendFacts
          <5> QED
            BY <4>1, <4>2, <5>1
        <4>4. CASE ~edited
          BY <2>2, <4>1, <4>2, <4>4
        <4> QED
          BY <4>3, <4>4
      <3> QED
        BY <1>0, <3>2, <3>3
    <2>6. IdaAwaitInv'
      BY <1>0, <2>5 DEF IdaAwaitInv
    <2> QED
      BY <2>4, <2>6
  <1>7. CASE Ida!Close
    <2>1. /\ work.close /\ work' = Ida!NoWork /\ saved' = saved \cup Ida!Range(edits)
          /\ Ida!Emit([call |-> work.call, ok |-> TRUE]) /\ UNCHANGED <<edits, input>>
             /\ alive' = FALSE
      BY <1>7 DEF Ida!Close, Ida!Packed, Ida!Says
    <2>2. work.call # 0
      BY <2>1, IdaNoWorkType DEF IdaFlowInv
    <2>3. \A m \in Ida!Range(messages') : m \in Ida!Range(messages) \/ (m.call = work.call
          /\ m.ok = TRUE)
      BY <1>1, <2>1, IdaEmitMessages
    <2>4. IdaToldInv'
      BY <1>0, <2>1, <2>2, IdaToldOfDone
    <2>5. ASSUME NEW c \in Callers, at[c] = "await"
          PROVE  /\ \A f \in Ida!Range(input') \cup {work'} : f.call = tickets'
                    => f.close = (op'[c] = "close")
                 /\ \A m \in Ida!Range(messages') : m.call = tickets' =>
                       /\ op'[c] = "close" => m.ok /\ ~alive' /\ Ida!Range(edits') \subseteq saved'
                       /\ op'[c] = "request" /\ tickets' \notin Batches
                          => (m.ok => tickets' \in Ida!Range(edits'))
      <3>1. 0 < tickets
        BY <2>5 DEF IdaLockInv
      <3>2. \A f \in Ida!Range(input') \cup {work'} : f.call = tickets'
            => f.close = (op'[c] = "close")
        <4>1. Ida!NoWork.call # tickets
          BY <1>1, <3>1, IdaNoWorkType
        <4> QED
          BY <1>0, <2>1, <2>5, <4>1 DEF IdaAwaitInv
      <3>3. ASSUME NEW m \in Ida!Range(messages'), m.call = tickets
            PROVE  m.ok /\ op[c] = "close"
        <4>1. m.call = work.call /\ m.ok = TRUE /\ work.call = tickets
          BY <1>5, <2>2, <2>3, <2>5, <3>3
        <4>2. work.close = (op[c] = "close")
          BY <2>5, <4>1 DEF IdaAwaitInv
        <4> QED
          BY <2>1, <4>1, <4>2
      <3>4. Ida!Range(edits') \subseteq saved' /\ ~alive'
        BY <2>1
      <3> QED
        BY <1>0, <3>2, <3>3, <3>4
    <2>6. IdaAwaitInv'
      BY <1>0, <2>5 DEF IdaAwaitInv
    <2> QED
      BY <2>4, <2>6
  <1> QED
    BY <1>2, <1>3, <1>4, <1>6, <1>7 DEF IdaWorks

-----------------------------------------------------------------------------
(* What the worker said *)

(* Nothing is answered, nobody is told, and nothing new comes to the worker. *)
LEMMA IdaSaidKept ==
    ASSUME IdaClientType, IdaWorkerType, IdaSaidInv, UNCHANGED <<tickets, said, told>>,
           \A f \in Ida!Range(input') : f \in Ida!Range(input),
           work' = work \/ work' = Ida!NoWork \/ work' \in Ida!Range(input),
           \A m \in Ida!Range(messages') : m \in Ida!Range(messages) \/ m.call = 0
    PROVE  IdaSaidInv'
  <1>1. ASSUME NEW n \in 1..MaxOps, IdaPast(n)
        PROVE  IdaPast(n)'
    BY <1>1, IdaNoWorkType DEF IdaPast
  <1>2. 0 \notin 1..MaxOps
    OBVIOUS
  <1> QED
    BY <1>1, <1>2 DEF IdaSaidInv

(* A call that enters is younger than every call that was answered.         *)
LEMMA IdaSaidOfEnter ==
    ASSUME IdaConstantsOK, IdaClientType, IdaWorkerType, IdaSaidInv,
           NEW c \in Callers, Ida!Enter(c)
    PROVE  IdaSaidInv'
  <1> DEFINE g == [call |-> tickets + 1, close |-> op[c] = "close"]
  <1>1. /\ tickets' = tickets + 1 /\ UNCHANGED <<work, said, messages>>
        /\ input' = input \/ input' = Append(input, g)
        /\ told' = told \/ told' = [told EXCEPT ![tickets + 1] = "refused"]
    BY DEF Ida!Enter, Ida!Leave, Ida!worker
  <1>2. /\ tickets \in Nat /\ input \in Seq(IdaRequests)
        /\ g \in IdaRequests /\ g.call = tickets + 1
        /\ told \in [1..MaxOps -> Ida!Answers]
    BY IdaTypes DEF IdaRequests, IdaClientType
  <1> HIDE DEF g
  <1>3. \A f \in Ida!Range(input') : f \in Ida!Range(input) \/ f.call = tickets + 1
    <2>1. Ida!Range(Append(input, g)) = Ida!Range(input) \cup {g}
      BY <1>2, IdaAppendRange
    <2> QED
      BY <1>1, <1>2, <2>1
  <1>4. ASSUME NEW n \in 1..MaxOps, IdaPast(n)
        PROVE  IdaPast(n)' /\ n # tickets + 1
    <2>1. n <= tickets + 1 /\ n < tickets + 1 /\ n # tickets + 1
      BY <1>2, <1>4 DEF IdaPast
    <2> QED
      BY <1>1, <1>3, <1>4, <2>1 DEF IdaPast
  <1>5. \A n \in 1..MaxOps : \/ told'[n] = told[n]
                             \/ n = tickets + 1 /\ told'[n] = "refused"
    BY <1>1, <1>2
  <1>6. ASSUME NEW n \in 1..MaxOps
        PROVE  /\ said'[n] # "nothing" => IdaPast(n)'
               /\ told'[n] \in {"ok", "closed"} => said'[n] = "ok"
               /\ told'[n] = "failed" => said'[n] = "failed"
               /\ told'[n] = "refused" => said'[n] = "nothing"
    BY <1>1, <1>4, <1>5 DEF IdaSaidInv
  <1> QED
    BY <1>1, <1>6 DEF IdaSaidInv

(* A caller is told what the message says, and that is what was said.       *)
LEMMA IdaSaidOfEnded ==
    ASSUME IdaClientType, IdaWorkerType, IdaLockInv, IdaSaidInv,
           NEW c \in Callers, at[c] = "await", NEW what, Ida!Ended(c, what),
           UNCHANGED <<tickets, said, input>>, work' = work \/ work' = Ida!NoWork,
           \A m \in Ida!Range(messages') : m \in Ida!Range(messages),
           \/ what = "unsure"
           \/ \E m \in Ida!Range(messages) : m.call = call[c]
              /\ what = IF m.ok THEN "ok" ELSE "failed"
    PROVE  IdaSaidInv'
  <1> DEFINE says == IF op[c] = "close" /\ what = "ok" THEN "closed" ELSE what
  <1>1. told' = [told EXCEPT ![call[c]] = says] /\ told \in [1..MaxOps -> Ida!Answers]
    BY IdaEndedMoves DEF IdaClientType
  <1>2. \A n \in 1..MaxOps : told'[n] = IF n = call[c] THEN says ELSE told[n]
    BY <1>1
  <1>3. ASSUME call[c] \in 1..MaxOps
        PROVE  /\ says \in {"ok", "closed"} => said[call[c]] = "ok"
               /\ says = "failed" => said[call[c]] = "failed"
               /\ says # "refused"
    <2>1. CASE what = "unsure"
      BY <2>1
    <2>2. ASSUME NEW m \in Ida!Range(messages), m.call = call[c],
                 what = IF m.ok THEN "ok" ELSE "failed"
          PROVE  /\ says \in {"ok", "closed"} => said[call[c]] = "ok"
                 /\ says = "failed" => said[call[c]] = "failed"
                 /\ says # "refused"
      BY <1>3, <2>2 DEF IdaSaidInv
    <2> QED
      BY <2>1, <2>2
  <1> HIDE DEF says
  <1>4. ASSUME NEW n \in 1..MaxOps, IdaPast(n)
        PROVE  IdaPast(n)'
    BY <1>4, IdaNoWorkType DEF IdaPast
  <1>5. ASSUME NEW n \in 1..MaxOps
        PROVE  /\ said'[n] # "nothing" => IdaPast(n)'
               /\ told'[n] \in {"ok", "closed"} => said'[n] = "ok"
               /\ told'[n] = "failed" => said'[n] = "failed"
               /\ told'[n] = "refused" => said'[n] = "nothing"
    BY <1>2, <1>3, <1>4 DEF IdaSaidInv
  <1> QED
    BY <1>5 DEF IdaSaidInv

LEMMA IdaSaidOfReceive ==
    ASSUME IdaConstantsOK, IdaClientType, IdaWorkerType, IdaLockInv, IdaSaidInv,
           NEW c \in Callers, Ida!Receive(c)
    PROVE  IdaSaidInv'
  <1>1. /\ at[c] = "await" /\ UNCHANGED <<tickets, said, input>>
        /\ work' = work \/ work' = Ida!NoWork
        /\ \A m \in Ida!Range(messages') : m \in Ida!Range(messages)
    BY IdaReceiveEffect
  <1>2. CASE told' = told
    BY <1>1, <1>2, IdaSaidKept
  <1>3. CASE Ida!Ended(c, "unsure")
    BY <1>1, <1>3, IdaSaidOfEnded
  <1>4. ASSUME NEW m \in Ida!Range(messages), m.call = call[c],
               Ida!Ended(c, IF m.ok THEN "ok" ELSE "failed")
        PROVE  IdaSaidInv'
    BY <1>1, <1>4, IdaSaidOfEnded
  <1> QED
    BY <1>2, <1>3, <1>4, IdaReceiveEffect

(* The worker answers its request: it had not answered it before, and no    *)
(* caller was told anything of it but that nothing is known.                *)
LEMMA IdaSaidOfDone ==
    ASSUME IdaConstantsOK, IdaClientType, IdaWorkerType, IdaFlowInv, IdaToldInv, IdaSaidInv,
           work.call # 0, work' = Ida!NoWork, UNCHANGED <<input, tickets, told>>,
           NEW ok \in BOOLEAN, Ida!Says(ok)
    PROVE  IdaSaidInv'
  <1> DEFINE verdict == IF ok THEN "ok" ELSE "failed"
  <1>1. /\ work.call \in Nat /\ tickets \in Nat
        /\ work.call <= tickets /\ \A f \in Ida!Range(input) : work.call < f.call
        /\ \A m \in Ida!Range(messages) : m.call < work.call
    BY IdaTypes DEF IdaFlowInv
  <1>2. said' = [said EXCEPT ![work.call] = verdict] /\ said \in [1..MaxOps -> IdaVerdicts]
    BY DEF Ida!Says, IdaWorkerType
  <1>3. \A n \in 1..MaxOps : said'[n] = IF n = work.call THEN verdict ELSE said[n]
    BY <1>2
  <1>4. \A m \in Ida!Range(messages') :
           m \in Ida!Range(messages) \/ (m.call = work.call /\ m.ok = ok)
    BY <1>1, IdaEmitMessages DEF Ida!Says
  <1>5. ASSUME NEW n \in 1..MaxOps, said'[n] # "nothing"
        PROVE  IdaPast(n)'
    <2>1. CASE n = work.call
      BY <1>1, <2>1, IdaNoWorkType DEF IdaPast
    <2>2. CASE n # work.call
      BY <1>3, <1>5, <2>2, IdaNoWorkType DEF IdaSaidInv, IdaPast
    <2> QED
      BY <2>1, <2>2
  <1>6. ASSUME NEW n \in 1..MaxOps, told[n] \in {"ok", "closed", "failed", "refused"}
        PROVE  n # work.call
    <2>1. CASE told[n] = "refused"
      BY <2>1 DEF IdaToldInv, IdaOver
    <2>2. CASE told[n] # "refused"
      <3>1. said[n] # "nothing"
        BY <1>6, <2>2 DEF IdaSaidInv
      <3>2. n < work.call
        BY <3>1 DEF IdaSaidInv, IdaPast
      <3> QED
        BY <1>1, <3>2
    <2> QED
      BY <2>1, <2>2
  <1>7. ASSUME NEW m \in Ida!Range(messages'), m.call \in 1..MaxOps
        PROVE  said'[m.call] = IF m.ok THEN "ok" ELSE "failed"
    <2>1. CASE m \in Ida!Range(messages)
      <3>1. m.call # work.call
        BY <1>1, <1>7, <2>1
      <3> QED
        BY <1>3, <1>7, <2>1, <3>1 DEF IdaSaidInv
    <2>2. CASE m.call = work.call /\ m.ok = ok
      BY <1>3, <1>7, <2>2
    <2> QED
      BY <1>4, <2>1, <2>2
  <1> HIDE DEF verdict
  <1>8. ASSUME NEW n \in 1..MaxOps
        PROVE  /\ told'[n] \in {"ok", "closed"} => said'[n] = "ok"
               /\ told'[n] = "failed" => said'[n] = "failed"
               /\ told'[n] = "refused" => said'[n] = "nothing"
    BY <1>3, <1>6 DEF IdaSaidInv
  <1> QED
    BY <1>5, <1>7, <1>8 DEF IdaSaidInv

LEMMA IdaSaidOfWork ==
    ASSUME IdaConstantsOK, IdaClientType, IdaWorkerType, IdaFlowInv, IdaToldInv, IdaSaidInv,
           IdaWorks
    PROVE  IdaSaidInv'
  <1>1. UNCHANGED <<tickets, told>>
    BY IdaWorkEffect DEF Ida!client
  <1>2. CASE Ida!Read
    <2>1. /\ input # <<>> /\ work' = Head(input) /\ input' = Tail(input)
          /\ UNCHANGED <<messages, said>>
      BY <1>2 DEF Ida!Read
    <2>2. Head(input) \in Ida!Range(input) /\ Ida!Range(Tail(input)) \subseteq Ida!Range(input)
      BY <2>1, IdaTailFacts DEF IdaWorkerType
    <2> QED
      BY <1>1, <2>1, <2>2, IdaSaidKept
  <1>3. CASE Ida!Work
    <2>1. /\ work.call # 0 /\ work' = Ida!NoWork /\ UNCHANGED input
          /\ \E ok \in BOOLEAN : Ida!Says(ok)
      BY <1>3 DEF Ida!Work
    <2> QED
      BY <1>1, <2>1, IdaSaidOfDone
  <1>4. CASE Ida!Close
    <2>1. work.close /\ work' = Ida!NoWork /\ Ida!Says(TRUE) /\ UNCHANGED input
      BY <1>4 DEF Ida!Close
    <2>2. work.call # 0
      BY <2>1, IdaNoWorkType DEF IdaFlowInv
    <2> QED
      BY <1>1, <2>1, <2>2, IdaSaidOfDone
  <1>5. CASE Ida!Die
    <2>1. UNCHANGED <<input, messages, said>> /\ work' = Ida!NoWork
      BY <1>5 DEF Ida!Die, Ida!Kill
    <2> QED
      BY <1>1, <2>1, IdaSaidKept
  <1>6. CASE Ida!Noise
    <2>1. UNCHANGED <<input, work, said>> /\ Ida!Emit([call |-> 0, ok |-> TRUE])
      BY <1>6 DEF Ida!Noise, Ida!worker
    <2>2. \A m \in Ida!Range(messages') : m \in Ida!Range(messages) \/ m.call = 0
      BY <2>1, IdaEmitMessages
    <2> QED
      BY <1>1, <2>1, <2>2, IdaSaidKept
  <1> QED
    BY <1>2, <1>3, <1>4, <1>5, <1>6 DEF IdaWorks

-----------------------------------------------------------------------------
(* The theorems *)

LEMMA IdaInvInit ==
    ASSUME IdaConstantsOK, Ida!Init
    PROVE  IdaInv
  <1>1. input = <<>> /\ messages = <<>> /\ edits = <<>>
    BY DEF Ida!Init
  <1>2. /\ Ida!Range(input) = {} /\ Ida!Range(messages) = {} /\ Ida!Range(edits) = {}
        /\ DOMAIN input = {} /\ DOMAIN edits = {}
    <2>1. DOMAIN input = {} /\ DOMAIN edits = {}
      BY <1>1
    <2> QED
      BY <1>1, <2>1, IdaEmptyRange
  <1>3. IdaClientType
    BY DEF Ida!Init, IdaClientType, IdaPlaces, Ida!Ops, Ida!Answers, IdaConstantsOK
  <1>4. IdaWorkerType
    <2>1. /\ messages \in Seq(IdaMessages) /\ input \in Seq(IdaRequests) /\ edits \in Seq(Nat)
          /\ Len(messages) = 0
      BY <1>1
    <2>2. work = Ida!NoWork /\ overflow = FALSE /\ alive = TRUE /\ saved = {}
      BY DEF Ida!Init
    <2>3. 0 <= Capacity
      BY DEF IdaConstantsOK
    <2>4. said \in [1..MaxOps -> IdaVerdicts]
      BY DEF Ida!Init, IdaVerdicts
    <2> QED
      BY <2>1, <2>2, <2>3, <2>4, IdaNoWorkType DEF IdaWorkerType
  <1>5. IdaLockInv
    BY DEF Ida!Init, IdaLockInv, IdaConstantsOK
  <1>6. IdaCountInv
    <2>1. IdaWaiting = {}
      BY DEF Ida!Init, IdaWaiting
    <2> QED
      BY <2>1, FS_EmptySet DEF Ida!Init, IdaCountInv, IdaConstantsOK
  <1>7. IdaFlowInv
    BY <1>2, IdaNoWorkType DEF Ida!Init, IdaFlowInv
  <1>8. IdaAwaitInv
    BY DEF Ida!Init, IdaAwaitInv
  <1>9. IdaToldInv
    BY DEF Ida!Init, IdaToldInv
  <1>10. IdaSaidInv
    BY <1>2 DEF Ida!Init, IdaSaidInv
  <1> QED
    BY <1>3, <1>4, <1>5, <1>6, <1>7, <1>8, <1>9, <1>10 DEF IdaInv

LEMMA IdaInvCaller ==
    ASSUME IdaConstantsOK, IdaInv, NEW c \in Callers,
           Ida!Step(c) \/ \E o \in Ida!Ops : Ida!Call(c, o)
    PROVE  IdaInv'
  <1>1. IdaClientType /\ IdaWorkerType /\ IdaLockInv /\ IdaCountInv /\ IdaFlowInv /\ IdaAwaitInv
        /\ IdaToldInv /\ IdaSaidInv
    BY DEF IdaInv
  <1>2. ASSUME NEW o \in Ida!Ops, Ida!Call(c, o)
        PROVE  IdaInv'
    <2>1. IdaClientType' /\ IdaWorkerType' /\ IdaLockInv' /\ IdaCountInv'
      BY <1>1, <1>2, IdaTypeOfCall, IdaLockOfCall, IdaCountOfCall
    <2>2. IdaFewer /\ told' = told /\ messages' = messages
      BY <1>1, <1>2, IdaFewerOfCall
    <2>3. IdaFlowInv'
      <3>1. UNCHANGED <<input, edits, saved, tickets>> /\ (work' = work \/ work' = Ida!NoWork)
        BY <1>2 DEF Ida!Call, Ida!Kill, Ida!worker
      <3> QED
        BY <1>1, <2>2, <3>1, IdaFlowKept
    <2>4. IdaAwaitInv' /\ IdaToldInv'
      BY <1>1, <2>2, IdaAwaitKept, IdaToldKept
    <2>5. IdaSaidInv'
      <3>1. UNCHANGED <<input, said, tickets>> /\ (work' = work \/ work' = Ida!NoWork)
        BY <1>2 DEF Ida!Call, Ida!Kill, Ida!worker
      <3> QED
        BY <1>1, <2>2, <3>1, IdaSaidKept
    <2> QED
      BY <2>1, <2>3, <2>4, <2>5 DEF IdaInv
  <1>3. CASE Ida!Enter(c)
    <2>1. IdaClientType' /\ IdaWorkerType' /\ IdaLockInv' /\ IdaCountInv'
      BY <1>1, <1>3, IdaTypeOfEnter, IdaLockOfEnter, IdaCountOfEnter
    <2>2. IdaFlowInv' /\ IdaAwaitInv' /\ IdaToldInv' /\ IdaSaidInv'
      BY <1>1, <1>3, IdaFlowOfEnter, IdaAwaitOfEnter, IdaToldOfEnter, IdaSaidOfEnter
    <2> QED
      BY <2>1, <2>2 DEF IdaInv
  <1>4. CASE Ida!Receive(c)
    <2>1. IdaClientType' /\ IdaWorkerType' /\ IdaLockInv' /\ IdaCountInv'
      BY <1>1, <1>4, IdaTypeOfReceive, IdaLockOfReceive
    <2>2. IdaFlowInv'
      BY <1>1, <1>4, IdaReceiveEffect, IdaFlowKept
    <2>3. IdaAwaitInv' /\ IdaToldInv' /\ IdaSaidInv'
      BY <1>1, <1>4, IdaAnswersOfReceive, IdaSaidOfReceive
    <2> QED
      BY <2>1, <2>2, <2>3 DEF IdaInv
  <1>5. CASE Ida!Exit(c)
    <2>1. IdaClientType' /\ IdaWorkerType' /\ IdaLockInv' /\ IdaCountInv'
      BY <1>1, <1>5, IdaTypeOfExit, IdaLockOfExit
    <2>2. IdaFewer /\ told' = told /\ messages' = messages
      BY <1>1, <1>5, IdaFewerOfExit
    <2>3. IdaFlowInv'
      <3>1. UNCHANGED <<input, edits, saved, tickets>> /\ work' = Ida!NoWork
        BY <1>5 DEF Ida!Exit, Ida!Kill
      <3> QED
        BY <1>1, <2>2, <3>1, IdaFlowKept
    <2>4. IdaAwaitInv' /\ IdaToldInv'
      BY <1>1, <2>2, IdaAwaitKept, IdaToldKept
    <2>5. IdaSaidInv'
      <3>1. UNCHANGED <<input, said, tickets>> /\ work' = Ida!NoWork
        BY <1>5 DEF Ida!Exit, Ida!Kill
      <3> QED
        BY <1>1, <2>2, <3>1, IdaSaidKept
    <2> QED
      BY <2>1, <2>3, <2>4, <2>5 DEF IdaInv
  <1> QED
    BY <1>2, <1>3, <1>4, <1>5 DEF Ida!Step

LEMMA IdaInvWork ==
    ASSUME IdaConstantsOK, IdaInv, IdaWorks
    PROVE  IdaInv'
  <1>1. IdaClientType /\ IdaWorkerType /\ IdaLockInv /\ IdaCountInv /\ IdaFlowInv /\ IdaAwaitInv
        /\ IdaToldInv /\ IdaSaidInv
    BY DEF IdaInv
  <1>2. UNCHANGED <<holder, at, call, op, tickets, started>>
    BY <1>1, IdaWorkEffect DEF Ida!client
  <1>3. IdaClientType' /\ IdaWorkerType' /\ IdaLockInv' /\ IdaCountInv'
    BY <1>1, <1>2, IdaTypeOfWork, IdaLockKept
  <1>4. IdaFlowInv' /\ IdaAwaitInv' /\ IdaToldInv' /\ IdaSaidInv'
    BY <1>1, IdaFlowOfWork, IdaAnswersOfWork, IdaSaidOfWork
  <1> QED
    BY <1>3, <1>4 DEF IdaInv

LEMMA IdaInvStutter ==
    ASSUME IdaInv, UNCHANGED Ida!vars
    PROVE  IdaInv'
  <1>1. IdaClientType /\ IdaWorkerType /\ IdaLockInv /\ IdaCountInv /\ IdaFlowInv /\ IdaAwaitInv
        /\ IdaToldInv /\ IdaSaidInv
    BY DEF IdaInv
  <1>2. /\ UNCHANGED <<holder, closed, at, call, op, started, tickets, told>>
        /\ UNCHANGED <<messages, overflow, alive, work, edits, saved, said, input>>
    BY DEF Ida!vars, Ida!client, Ida!worker
  <1>3. IdaClientType' /\ IdaWorkerType'
    BY <1>1, <1>2 DEF IdaClientType, IdaWorkerType
  <1>4. IdaLockInv' /\ IdaCountInv' /\ IdaFlowInv'
    BY <1>1, <1>2, IdaLockKept, IdaFlowKept
  <1>5. IdaFewer
    BY <1>2 DEF IdaFewer
  <1>6. IdaAwaitInv' /\ IdaToldInv' /\ IdaSaidInv'
    BY <1>1, <1>2, <1>5, IdaAwaitKept, IdaToldKept, IdaSaidKept
  <1> QED
    BY <1>3, <1>4, <1>6 DEF IdaInv

LEMMA IdaInvStep ==
    ASSUME IdaConstantsOK, IdaInv, [Ida!Next]_Ida!vars
    PROVE  IdaInv'
  <1>1. CASE UNCHANGED Ida!vars
    BY <1>1, IdaInvStutter
  <1>2. CASE \E c \in Callers : Ida!Step(c) \/ \E o \in Ida!Ops : Ida!Call(c, o)
    BY <1>2, IdaInvCaller
  <1>3. CASE IdaWorks
    BY <1>3, IdaInvWork
  <1> QED
    BY <1>1, <1>2, <1>3 DEF Ida!Next, IdaWorks

(* The strengthening is inductive for every step of the callers, the thread *)
(* that reads the worker's output, and the worker, its death included.      *)
THEOREM IdaInvariantHolds ==
    ASSUME IdaConstantsOK
    PROVE  Ida!Spec => []IdaInv
  <1>1. Ida!Init => IdaInv
    BY IdaInvInit
  <1>2. IdaInv /\ [Ida!Next]_Ida!vars => IdaInv'
    BY IdaInvStep
  <1> QED
    BY <1>1, <1>2, PTL DEF Ida!Spec

(* Every variable keeps its type; the queue of the worker's output stays    *)
(* within its capacity (client.py, queue.Queue(maxsize)), and the tickets   *)
(* within the calls begun.                                                  *)
THEOREM IdaTypeCorrect ==
    ASSUME IdaConstantsOK
    PROVE  Ida!Spec => []Ida!TypeOK
  <1>1. IdaInv => Ida!TypeOK
    <2> SUFFICES ASSUME IdaInv PROVE Ida!TypeOK
      OBVIOUS
    <2>1. IdaClientType /\ IdaWorkerType /\ IdaLockInv /\ IdaCountInv /\ IdaFlowInv
      BY DEF IdaInv
    <2>2. tickets <= MaxOps /\ tickets \in Nat
      <3>1. Cardinality(IdaWaiting) \in Nat
        BY <2>1, FS_CardinalityType DEF IdaCountInv
      <3>2. tickets \in Nat /\ started \in Nat /\ MaxOps \in Nat
        BY <2>1 DEF IdaClientType, IdaConstantsOK
      <3> QED
        BY <2>1, <3>1, <3>2 DEF IdaCountInv
    <2>3. 1..tickets \subseteq 1..MaxOps
      BY <2>2 DEF IdaConstantsOK
    <2>4. call \in [Callers -> 0..MaxOps]
      <3>1. \A c \in Callers : call[c] \in Nat /\ call[c] <= tickets
        BY <2>1 DEF IdaClientType, IdaLockInv
      <3>2. \A c \in Callers : call[c] \in 0..MaxOps
        BY <2>2, <3>1 DEF IdaConstantsOK
      <3> QED
        BY <2>1, <3>2 DEF IdaClientType
    <2>5. Ida!Range(edits) \subseteq 1..MaxOps /\ saved \subseteq 1..MaxOps
      BY <2>1, <2>3 DEF IdaFlowInv
    <2> QED
      BY <2>1, <2>4, <2>5 DEF Ida!TypeOK, IdaClientType, IdaWorkerType, IdaPlaces, IdaVerdicts
  <1> QED
    BY <1>1, IdaInvariantHolds, PTL

(* What is to be shown of it.                                               *)
LEMMA IdaImplies == ASSUME IdaInv PROVE Ida!AnswersMatch /\ Ida!ClosedIsSaved
  BY DEF IdaInv, IdaToldInv, IdaSaidInv, IdaOver, IdaFlowInv, Ida!AnswersMatch, Ida!ClosedIsSaved

(* IdaClient.request (client.py:238): the answer a caller takes out of the  *)
(* queue is the answer to its own request, although calls before it gave up *)
(* on theirs: it is told what the worker said of its call, a single edit    *)
(* reported as done was made, and a call that was refused never reaches the *)
(* worker.                                                                  *)
THEOREM IdaAnswersHold ==
    ASSUME IdaConstantsOK
    PROVE  Ida!Spec => []Ida!AnswersMatch
  <1>1. IdaInv => Ida!AnswersMatch
    BY IdaImplies
  <1> QED
    BY <1>1, IdaInvariantHolds, PTL

(* The worker's close (worker.py:1610): when a caller was told that the     *)
(* database is closed, the worker is gone and every edit made was saved.    *)
THEOREM IdaCloseSaves ==
    ASSUME IdaConstantsOK
    PROVE  Ida!Spec => []Ida!ClosedIsSaved
  <1>1. IdaInv => Ida!ClosedIsSaved
    BY IdaImplies
  <1> QED
    BY <1>1, IdaInvariantHolds, PTL

-----------------------------------------------------------------------------
(***************************************************************************)
(* Unpacking (Unpack)                                                      *)
(*                                                                         *)
(* While the session is open its latch is the newest one; once it is       *)
(* closed it has none, and the newest is set.  Whoever runs a tool has     *)
(* taken a latch before.                                                   *)
(***************************************************************************)

UnpPcs == {"idle", "check", "plan", "signal", "work", "again", "advance", "put", "score",
        "reset", "take", "test", "tested", "unpack", "stopped", "probe", "refresh", "finish"}

\* Attempts and tasks, when n attempts and m latches have been made
UnpMade(n) == [id : 0..n, phase : Unp!Phases, why : {"none", "timeout", "tool"},
            oep : BOOLEAN, dump : BOOLEAN]

UnpDoing(n, m) == [call : Unp!Calls \cup {"none"}, pc : UnpPcs, st : UnpMade(n), old : UnpMade(n),
                mine : 0..n, held : 0..m]

UnpTyped ==
    /\ open \in BOOLEAN /\ stored \in UnpMade(attempts)
    /\ attempts \in Nat /\ latches \in Nat
    /\ latch \in 0..latches
    /\ set \subseteq 1..latches /\ expired \subseteq 1..attempts
    /\ task \in [Tools -> UnpDoing(attempts, latches)]

\* While the session is open its latch is the newest; once it closes it has
\* none, and the newest that was made is set
UnpNewestIsOurs ==
    /\ open => latch = latches
    /\ ~open => latch = Unp!NoLatch /\ (latches # 0 => latches \in set)

\* Whoever has come as far as a command line tool has taken a latch
UnpLatched == {"test", "tested", "unpack"}

UnpToolHasLatch == \A t \in Tools : task[t].pc \in UnpLatched => latches # 0

UnpIInv == UnpTyped /\ UnpNewestIsOurs /\ UnpToolHasLatch

-----------------------------------------------------------------------------
(* Attempts *)

(* What session.py makes of an attempt is an attempt.                       *)
LEMMA UnpAttemptsStay ==
    ASSUME NEW n \in Nat, NEW s \in UnpMade(n)
    PROVE  /\ Unp!Checked(s) \in UnpMade(n) /\ Unp!Cancelled(s) \in UnpMade(n)
           /\ Unp!Scored(s) \in UnpMade(n) /\ [Unp!Scored(s) EXCEPT !.oep = TRUE] \in UnpMade(n)
           /\ Unp!Failed(s, "tool") \in UnpMade(n)
           /\ Unp!Dumped(s) \in UnpMade(n) /\ Unp!Rebuilt(s) \in UnpMade(n)
           /\ \A r \in BOOLEAN : Unp!Verified(s, r) \in UnpMade(n)
<1>0. /\ s.phase \in Unp!Phases /\ {"failed", "cancelled", "oep_candidate", "dumped",
              "imports_rebuilt", "verified", "reanalyzed"} \subseteq Unp!Phases
      /\ \A p \in Unp!Phases : [s EXCEPT !.phase = p] \in UnpMade(n)
  BY DEF UnpMade, Unp!Phases, Unp!Terminal
<1>1. \A reason \in {"none", "timeout", "tool"} : Unp!Failed(s, reason) \in UnpMade(n)
  BY DEF UnpMade, Unp!Failed, Unp!Phases, Unp!Terminal
<1>2. Unp!Checked(s) \in UnpMade(n) /\ Unp!Cancelled(s) \in UnpMade(n)
  BY <1>0, <1>1 DEF Unp!Checked, Unp!Cancelled
<1>3. Unp!Scored(s) \in UnpMade(n)
  BY <1>0 DEF Unp!Scored
<1>4. [Unp!Scored(s) EXCEPT !.oep = TRUE] \in UnpMade(n)
  BY <1>3 DEF UnpMade
<1>5. Unp!Dumped(s) \in UnpMade(n)
  BY DEF Unp!Dumped, UnpMade, Unp!Phases, Unp!Terminal
<1>6. Unp!Rebuilt(s) \in UnpMade(n)
  BY <1>0 DEF Unp!Rebuilt
<1>7. \A r \in BOOLEAN : Unp!Verified(s, r) \in UnpMade(n)
  <2> TAKE r \in BOOLEAN
  <2> DEFINE v == IF s.phase = "imports_rebuilt" THEN [s EXCEPT !.phase = "verified"] ELSE s
  <2>1. v \in UnpMade(n)
    BY <1>0
  <2>2. [v EXCEPT !.phase = "reanalyzed"] \in UnpMade(n)
    BY <2>1 DEF UnpMade, Unp!Phases, Unp!Terminal
  <2> QED BY <2>1, <2>2 DEF Unp!Verified
<1> QED BY <1>1, <1>2, <1>3, <1>4, <1>5, <1>6, <1>7

(* _advance_unpack_after_* leaves an attempt.                               *)
LEMMA UnpAdvancedStays ==
    ASSUME NEW n \in Nat, NEW s \in UnpMade(n), NEW kind
    PROVE  Unp!Advanced(kind, s) \subseteq UnpMade(n)
<1> DEFINE c == Unp!Checked(s)
<1>1. c \in UnpMade(n)
  BY UnpAttemptsStay
<1> HIDE DEF c
<1>2. Unp!Dumped(c) \in UnpMade(n) /\ Unp!Rebuilt(c) \in UnpMade(n)
      /\ {Unp!Verified(c, r) : r \in BOOLEAN} \subseteq UnpMade(n)
  BY <1>1, UnpAttemptsStay
<1>3. Unp!Advanced(kind, s) \in {{c}, {Unp!Dumped(c)}, {Unp!Rebuilt(c)},
      {Unp!Verified(c, r) : r \in BOOLEAN}}
  BY DEF Unp!Advanced, c
<1> QED BY <1>1, <1>2, <1>3

(* Nothing that was well formed ceases to be when more is made.             *)
LEMMA UnpMoreIsMade ==
    ASSUME NEW n \in Nat, NEW m \in Nat, NEW k \in Nat, NEW l \in Nat, n <= k, m <= l
    PROVE  UnpMade(n) \subseteq UnpMade(k) /\ UnpDoing(n, m) \subseteq UnpDoing(k, l)
<1>1. UnpMade(n) \subseteq UnpMade(k)
  BY DEF UnpMade
<1> QED BY <1>1 DEF UnpDoing

(* No attempt and an idle thread are well formed from the start.            *)
LEMMA UnpNoneIsMade ==
    ASSUME NEW n \in Nat, NEW m \in Nat
    PROVE  Unp!None \in UnpMade(n) /\ Unp!Idle \in UnpDoing(n, m)
<1>1. Unp!None \in UnpMade(n)
  BY DEF Unp!None, UnpMade, Unp!Phases
<1> QED BY <1>1 DEF Unp!Idle, UnpDoing, UnpPcs, Unp!NoLatch
-----------------------------------------------------------------------------
(* Steps that make no latch *)

(* A thread that moves, and may store an attempt, keeps the invariant when  *)
(* what it moves to is well formed and it comes to no tool without a latch. *)
LEMMA UnpWorks ==
    ASSUME UnpIInv, NEW t \in Tools, NEW r \in UnpDoing(attempts, latches),
           Unp!Goes(t, r), stored' \in UnpMade(attempts),
           r.pc \in UnpLatched => latches # 0,
           UNCHANGED <<open, latch, set, expired, attempts, latches>>
    PROVE  UnpIInv'
<1>1. task' \in [Tools -> UnpDoing(attempts, latches)]
  BY DEF UnpIInv, UnpTyped, Unp!Goes
<1>2. UnpTyped'
  BY <1>1 DEF UnpIInv, UnpTyped
<1>3. UnpNewestIsOurs'
  BY DEF UnpIInv, UnpNewestIsOurs
<1>4. UnpToolHasLatch'
  BY DEF UnpIInv, UnpTyped, UnpToolHasLatch, Unp!Goes
<1> QED BY <1>2, <1>3, <1>4 DEF UnpIInv

(* What a thread holds, in a well-formed state.                             *)
LEMMA UnpHeld ==
    ASSUME UnpIInv, NEW t \in Tools
    PROVE  /\ task[t] \in UnpDoing(attempts, latches)
           /\ task[t].st \in UnpMade(attempts) /\ task[t].old \in UnpMade(attempts)
           /\ stored \in UnpMade(attempts) /\ attempts \in Nat /\ latches \in Nat
<1>1. /\ task[t] \in UnpDoing(attempts, latches) /\ stored \in UnpMade(attempts)
      /\ attempts \in Nat /\ latches \in Nat
  BY DEF UnpIInv, UnpTyped
<1> QED BY <1>1 DEF UnpDoing

(* A thread that returns, or goes on with an attempt.                       *)
LEMMA UnpReturnsWell ==
    ASSUME UnpIInv, NEW t \in Tools, Unp!Returns(t), stored' \in UnpMade(attempts),
           UNCHANGED <<open, latch, set, expired, attempts, latches>>
    PROVE  UnpIInv'
<1>1. Unp!Idle \in UnpDoing(attempts, latches)
  BY UnpHeld, UnpNoneIsMade
<1>2. Unp!Idle.pc \notin UnpLatched
  BY DEF Unp!Idle, UnpLatched
<1> QED BY <1>1, <1>2, UnpWorks DEF Unp!Returns

(* A thread that goes on with another attempt in hand.                      *)
LEMMA UnpHoldsWell ==
    ASSUME UnpIInv, NEW t \in Tools, NEW s \in UnpMade(attempts), NEW place \in UnpPcs,
           Unp!Holds(t, s, place), place \in UnpLatched => latches # 0,
           stored' \in UnpMade(attempts),
           UNCHANGED <<open, latch, set, expired, attempts, latches>>
    PROVE  UnpIInv'
<1> DEFINE r == [task[t] EXCEPT !.st = s, !.pc = place]
<1>1. task[t] \in UnpDoing(attempts, latches)
  BY UnpHeld
<1>2. r \in UnpDoing(attempts, latches) /\ r.pc = place
  BY <1>1 DEF UnpDoing
<1>3. Unp!Goes(t, r)
  BY DEF Unp!Holds
<1> HIDE DEF r
<1> QED BY <1>2, <1>3, UnpWorks

(* A thread that keeps the stored attempt to compare with.                  *)
LEMMA UnpRemembersWell ==
    ASSUME UnpIInv, NEW t \in Tools, NEW s \in UnpMade(attempts),
           Unp!Goes(t, [task[t] EXCEPT !.old = s, !.pc = "score"]), stored' \in UnpMade(attempts),
           UNCHANGED <<open, latch, set, expired, attempts, latches>>
    PROVE  UnpIInv'
<1> DEFINE r == [task[t] EXCEPT !.old = s, !.pc = "score"]
<1>1. task[t] \in UnpDoing(attempts, latches)
  BY UnpHeld
<1>2. r \in UnpDoing(attempts, latches) /\ r.pc = "score"
  BY <1>1 DEF UnpDoing, UnpPcs
<1>3. Unp!Goes(t, r)
  OBVIOUS
<1>4. "score" \notin UnpLatched
  BY DEF UnpLatched
<1> HIDE DEF r
<1> QED BY <1>2, <1>3, <1>4, UnpWorks

-----------------------------------------------------------------------------
(* All steps within a call but Signal, Reset and Take.                      *)
LEMMA UnpWorksWithoutLatch ==
    ASSUME UnpIInv, NEW t \in Tools,
           \/ Unp!Guard(t) \/ Unp!StartLooks(t) \/ Unp!Status(t) \/ Unp!Confirm(t) \/ Unp!WorkOnStage(t)
           \/ Unp!Verify(t) \/ Unp!Observe(t) \/ Unp!Advance(t) \/ Unp!Put(t) \/ Unp!RunTool(t) \/ Unp!UpxTest(t)
           \/ Unp!UpxUnpack(t) \/ Unp!Tested(t) \/ Unp!Stopped(t) \/ Unp!Probe(t) \/ Unp!Score(t)
           \/ Unp!Refresh(t) \/ Unp!Finish(t)
    PROVE  UnpIInv'
<1> DEFINE st == task[t].st
           here == Unp!Checked(st)
           seen == Unp!Checked(stored)
<1>1. /\ st \in UnpMade(attempts) /\ task[t].old \in UnpMade(attempts)
      /\ stored \in UnpMade(attempts) /\ attempts \in Nat
  BY UnpHeld
<1>2. /\ here \in UnpMade(attempts) /\ seen \in UnpMade(attempts)
      /\ [Unp!Scored(here) EXCEPT !.oep = TRUE] \in UnpMade(attempts)
      /\ Unp!Failed(st, "tool") \in UnpMade(attempts) /\ Unp!Cancelled(stored) \in UnpMade(attempts)
      /\ Unp!Scored(task[t].old) \in UnpMade(attempts)
      /\ Unp!Advanced(Unp!Call(t), stored) \subseteq UnpMade(attempts)
      /\ \A p \in {"verified", "reanalyzed"} : [st EXCEPT !.phase = p] \in UnpMade(attempts)
  <2>1. \A p \in {"verified", "reanalyzed"} : [st EXCEPT !.phase = p] \in UnpMade(attempts)
    BY <1>1 DEF UnpMade, Unp!Phases, Unp!Terminal
  <2>2. here \in UnpMade(attempts) /\ seen \in UnpMade(attempts)
    BY <1>1, UnpAttemptsStay
  <2>3. [Unp!Scored(here) EXCEPT !.oep = TRUE] \in UnpMade(attempts)
    BY <1>1, <2>2, UnpAttemptsStay
  <2>4. Unp!Failed(st, "tool") \in UnpMade(attempts) /\ Unp!Cancelled(stored) \in UnpMade(attempts)
        /\ Unp!Scored(task[t].old) \in UnpMade(attempts)
    BY <1>1, UnpAttemptsStay
  <2>5. Unp!Advanced(Unp!Call(t), stored) \subseteq UnpMade(attempts)
    BY <1>1, UnpAdvancedStays
  <2> QED BY <2>1, <2>2, <2>3, <2>4, <2>5
<1>3. {"check", "plan", "work", "again", "advance", "put", "score", "test", "tested", "unpack",
       "stopped", "probe", "refresh", "finish"} \subseteq UnpPcs
  BY DEF UnpPcs
<1>4. {"check", "plan", "work", "again", "advance", "put", "score", "stopped", "refresh",
       "finish"} \cap UnpLatched = {}
  BY DEF UnpLatched
<1>5. Unp!At(t, "test") \/ Unp!At(t, "tested") \/ Unp!At(t, "unpack") => latches # 0
  BY DEF UnpIInv, UnpToolHasLatch, UnpLatched, Unp!At
<1> USE DEF Unp!Other
<1> HIDE DEF st, here, seen
<1>a. CASE Unp!Guard(t)
  BY <1>1, <1>2, <1>3, <1>4, <1>a, UnpHoldsWell, UnpReturnsWell DEF Unp!Guard, st, here
<1>b. CASE Unp!StartLooks(t)
  BY <1>1, <1>2, <1>3, <1>4, <1>b, UnpHoldsWell, UnpReturnsWell DEF Unp!StartLooks, Unp!Noted, st,
     here
<1>c. CASE Unp!Status(t)
  BY <1>1, <1>2, <1>c, UnpReturnsWell DEF Unp!Status, Unp!Noted, st, here
<1>d. CASE Unp!Confirm(t)
  BY <1>1, <1>2, <1>3, <1>4, <1>d, UnpHoldsWell, UnpReturnsWell DEF Unp!Confirm, Unp!Noted, st, here
<1>e. CASE Unp!WorkOnStage(t)
  BY <1>1, <1>3, <1>4, <1>e, UnpHoldsWell, UnpReturnsWell DEF Unp!WorkOnStage
<1>f. CASE Unp!Verify(t)
  BY <1>1, <1>3, <1>4, <1>f, UnpHoldsWell, UnpReturnsWell DEF Unp!Verify
<1>g. CASE Unp!Observe(t)
  BY <1>1, <1>g, UnpRemembersWell, UnpReturnsWell DEF Unp!Observe
<1>h. CASE Unp!Advance(t)
  BY <1>1, <1>2, <1>3, <1>4, <1>h, UnpHoldsWell, UnpReturnsWell DEF Unp!Advance
<1>i. CASE Unp!Put(t)
  BY <1>1, <1>i, UnpReturnsWell DEF Unp!Put, st
<1>j. CASE Unp!RunTool(t)
  BY <1>1, <1>3, <1>4, <1>j, UnpHoldsWell, UnpReturnsWell DEF Unp!RunTool, Unp!Killed, st
<1>k. CASE Unp!UpxTest(t)
  BY <1>1, <1>2, <1>3, <1>4, <1>5, <1>k, UnpHoldsWell DEF Unp!UpxTest, Unp!ToolFails, Unp!Killed, st
<1>l. CASE Unp!UpxUnpack(t)
  BY <1>1, <1>2, <1>3, <1>4, <1>l, UnpHoldsWell DEF Unp!UpxUnpack, Unp!ToolFails, Unp!Killed, st
<1>m. CASE Unp!Tested(t)
  BY <1>1, <1>2, <1>3, <1>4, <1>5, <1>m, UnpHoldsWell DEF Unp!Tested, st, here
<1>n. CASE Unp!Stopped(t)
  BY <1>1, <1>2, <1>3, <1>4, <1>n, UnpHoldsWell, UnpReturnsWell DEF Unp!Stopped
<1>o. CASE Unp!Probe(t)
  BY <1>1, <1>2, <1>3, <1>4, <1>o, UnpHoldsWell, UnpRemembersWell DEF Unp!Probe, st, seen
<1>p. CASE Unp!Score(t)
  BY <1>1, <1>2, <1>3, <1>4, <1>p, UnpHoldsWell, UnpReturnsWell DEF Unp!Score, st
<1>q. CASE Unp!Refresh(t)
  BY <1>1, <1>3, <1>4, <1>q, UnpHoldsWell DEF Unp!Refresh, Unp!Refreshed, st
<1>r. CASE Unp!Finish(t)
  BY <1>1, <1>3, <1>4, <1>r, UnpHoldsWell, UnpReturnsWell DEF Unp!Finish, st
<1> QED BY <1>a, <1>b, <1>c, <1>d, <1>e, <1>f, <1>g, <1>h, <1>i, <1>j, <1>k, <1>l,
           <1>m, <1>n, <1>o, <1>p, <1>q, <1>r

-----------------------------------------------------------------------------
(* The steps that begin a call, and those that make, take, set or drop a   *)
(* latch                                                                    *)

(* A call begins with the stored attempt, or with nothing in hand.          *)
LEMMA UnpBeginWorks ==
    ASSUME UnpIInv, NEW t \in Tools, NEW kind \in Unp!Calls, Unp!Begin(t, kind)
    PROVE  UnpIInv'
<1> DEFINE here == [Unp!Idle EXCEPT !.call = kind, !.st = stored]
           tool == [Unp!Idle EXCEPT !.call = kind, !.pc = "reset"]
<1>1. /\ stored \in UnpMade(attempts) /\ Unp!Idle \in UnpDoing(attempts, latches)
      /\ attempts \in Nat /\ latches \in Nat
  BY UnpHeld, UnpNoneIsMade
<1>2. tool \in UnpDoing(attempts, latches) /\ tool.pc \notin UnpLatched
  BY <1>1 DEF UnpDoing, UnpPcs, UnpLatched
<1>3. here \in UnpDoing(attempts, latches)
  BY <1>1 DEF UnpDoing
<1> HIDE DEF here, tool
<1>4. \A place \in {"signal", "work", "check", "plan"} :
         /\ [here EXCEPT !.pc = place] \in UnpDoing(attempts, latches)
         /\ [here EXCEPT !.pc = place].pc \notin UnpLatched
  BY <1>3 DEF UnpDoing, UnpPcs, UnpLatched
<1>5. \/ UNCHANGED task
      \/ \E r \in UnpDoing(attempts, latches) : r.pc \notin UnpLatched /\ Unp!Goes(t, r)
  <2>1. \/ Unp!Goes(t, tool) \/ UNCHANGED task
        \/ \E place \in {"signal", "work", "check", "plan"} : Unp!Goes(t,
           [here EXCEPT !.pc = place])
    BY DEF Unp!Begin, here, tool
  <2> QED BY <1>2, <1>4, <2>1
<1>6. CASE UNCHANGED task
  BY <1>6 DEF Unp!Begin, UnpIInv, UnpTyped, UnpNewestIsOurs, UnpToolHasLatch
<1>7. ASSUME NEW r \in UnpDoing(attempts, latches), r.pc \notin UnpLatched, Unp!Goes(t, r)
             PROVE UnpIInv'
  BY <1>1, <1>7, UnpWorks DEF Unp!Begin
<1> QED BY <1>5, <1>6, <1>7

(* _unpack_cancel_event leaves well-formed threads and a newest latch that  *)
(* is the session's, and who goes on from it has a latch.                   *)
LEMMA UnpTakesWell ==
    ASSUME UnpIInv, NEW t \in Tools, NEW r \in UnpDoing(attempts, latches), Unp!Takes(t, r),
           UNCHANGED <<open, attempts>>
    PROVE  /\ latches' \in Nat /\ latches <= latches'
           /\ latch' \in 0..latches'
           /\ task' \in [Tools -> UnpDoing(attempts', latches')]
           /\ open => latch' = latches'
           /\ ~open => latch' = Unp!NoLatch /\ latches' = latches
           /\ UnpToolHasLatch'
<1>1. /\ attempts \in Nat /\ latches \in Nat /\ latch \in 0..latches
      /\ task \in [Tools -> UnpDoing(attempts, latches)]
      /\ open => latch = latches
      /\ ~open => latch = Unp!NoLatch
  BY DEF UnpIInv, UnpTyped, UnpNewestIsOurs
<1>2. /\ \A h \in 0..latches : [r EXCEPT !.held = h] \in UnpDoing(attempts, latches)
      /\ [r EXCEPT !.held = latches + 1] \in UnpDoing(attempts, latches + 1)
  BY <1>1 DEF UnpDoing
<1>3. Unp!Idle \in UnpDoing(attempts, latches) /\ Unp!Idle.pc \notin UnpLatched
  BY <1>1, UnpNoneIsMade DEF Unp!Idle, UnpLatched
<1>4. UnpDoing(attempts, latches) \subseteq UnpDoing(attempts, latches + 1)
  BY <1>1, UnpMoreIsMade
<1>5. CASE latch # Unp!NoLatch /\ Unp!Goes(t, [r EXCEPT !.held = latch]) /\ UNCHANGED <<latch,
           latches>>
  <2>1. task' \in [Tools -> UnpDoing(attempts, latches)]
    BY <1>1, <1>2, <1>5 DEF Unp!Goes
  <2>2. latches # 0
    BY <1>1, <1>5 DEF Unp!NoLatch
  <2> QED BY <1>1, <1>5, <2>1, <2>2 DEF UnpToolHasLatch
<1>6. CASE /\ latch = Unp!NoLatch /\ Unp!MayMake
           /\ latches' = latches + 1 /\ latch' = latches + 1
           /\ Unp!Goes(t, [r EXCEPT !.held = latches + 1])
  <2>1. task' \in [Tools -> UnpDoing(attempts, latches + 1)]
    BY <1>1, <1>2, <1>4, <1>6 DEF Unp!Goes
  <2> QED BY <1>1, <1>6, <2>1 DEF UnpToolHasLatch, Unp!MayMake
<1>7. CASE latch = Unp!NoLatch /\ ~Unp!MayMake /\ Unp!Returns(t) /\ UNCHANGED <<latch, latches>>
  <2>1. task' \in [Tools -> UnpDoing(attempts, latches)] /\ task' = [task EXCEPT ![t] = Unp!Idle]
    BY <1>1, <1>3, <1>7 DEF Unp!Returns, Unp!Goes
  <2>2. UnpToolHasLatch'
    BY <1>1, <1>3, <1>7, <2>1 DEF UnpToolHasLatch, UnpIInv
  <2> QED BY <1>1, <1>7, <2>1, <2>2
<1> QED BY <1>5, <1>6, <1>7 DEF Unp!Takes

(* unpack_cancel sets the latch it took, or a new one.                      *)
LEMMA UnpSignalWorks ==
    ASSUME UnpIInv, NEW t \in Tools, Unp!Signal(t)
    PROVE  UnpIInv'
<1> DEFINE r == [task[t] EXCEPT !.st = Unp!Cancelled(@), !.pc = "put"]
<1>1. r \in UnpDoing(attempts, latches)
  <2>1. task[t] \in UnpDoing(attempts, latches) /\ Unp!Cancelled(task[t].st) \in UnpMade(attempts)
    BY UnpHeld, UnpAttemptsStay
  <2> QED BY <2>1 DEF UnpDoing, UnpPcs
<1>2. /\ latches' \in Nat /\ latches <= latches' /\ latch' \in 0..latches'
      /\ task' \in [Tools -> UnpDoing(attempts', latches')]
      /\ open => latch' = latches'
      /\ ~open => latch' = Unp!NoLatch /\ latches' = latches
      /\ UnpToolHasLatch'
  <2>1. Unp!Takes(t, r) /\ UNCHANGED <<open, attempts>>
    BY DEF Unp!Signal
  <2> HIDE DEF r
  <2> QED BY <1>1, <2>1, UnpTakesWell
<1>3. task'[t].held \in 0..latches'
  BY <1>2 DEF UnpDoing
<1>4. set \subseteq 1..latches /\ set' = set \cup ({task'[t].held} \ {Unp!NoLatch})
      /\ latches \in Nat
  BY DEF Unp!Signal, UnpIInv, UnpTyped
<1>5. set' \subseteq 1..latches'
  <2>1. {task'[t].held} \ {Unp!NoLatch} \subseteq 1..latches'
    BY <1>2, <1>3 DEF Unp!NoLatch
  <2>2. 1..latches \subseteq 1..latches'
    BY <1>2, <1>4
  <2> QED BY <1>4, <2>1, <2>2
<1>6. UnpTyped'
  BY <1>2, <1>5 DEF Unp!Signal, UnpIInv, UnpTyped
<1>7. UnpNewestIsOurs'
  BY <1>2, <1>4 DEF Unp!Signal, UnpIInv, UnpNewestIsOurs
<1> QED BY <1>2, <1>6, <1>7 DEF UnpIInv

(* A command line tool begins with a latch in hand.                         *)
LEMMA UnpTakeWorks ==
    ASSUME UnpIInv, NEW t \in Tools, Unp!Take(t)
    PROVE  UnpIInv'
<1> DEFINE r == [task[t] EXCEPT !.pc = "test"]
<1>1. r \in UnpDoing(attempts, latches)
  <2>1. task[t] \in UnpDoing(attempts, latches)
    BY UnpHeld
  <2> QED BY <2>1 DEF UnpDoing, UnpPcs
<1>2. /\ latches' \in Nat /\ latches <= latches' /\ latch' \in 0..latches'
      /\ task' \in [Tools -> UnpDoing(attempts', latches')]
      /\ open => latch' = latches'
      /\ ~open => latch' = Unp!NoLatch /\ latches' = latches
      /\ UnpToolHasLatch'
  <2>1. Unp!Takes(t, r) /\ UNCHANGED <<open, attempts>>
    BY DEF Unp!Take
  <2> HIDE DEF r
  <2> QED BY <1>1, <2>1, UnpTakesWell
<1>3. UnpTyped'
  <2>1. set \subseteq 1..latches' /\ latches \in Nat
    BY <1>2 DEF UnpIInv, UnpTyped
  <2> QED BY <1>2, <2>1 DEF Unp!Take, UnpIInv, UnpTyped
<1>4. UnpNewestIsOurs'
  BY <1>2 DEF Unp!Take, UnpIInv, UnpNewestIsOurs
<1> QED BY <1>2, <1>3, <1>4 DEF UnpIInv

(* A start makes the latch anew, and an attempt if it goes that far.        *)
LEMMA UnpResetWorks ==
    ASSUME UnpIInv, NEW t \in Tools, Unp!Reset(t)
    PROVE  UnpIInv'
<1>1. /\ task[t] \in UnpDoing(attempts, latches) /\ stored \in UnpMade(attempts)
      /\ task \in [Tools -> UnpDoing(attempts, latches)]
      /\ attempts \in Nat /\ latches \in Nat
  BY UnpHeld DEF UnpIInv, UnpTyped
<1>2. CASE Unp!Returns(t) /\ UNCHANGED <<latch, latches, attempts>>
  BY <1>1, <1>2, UnpReturnsWell DEF Unp!Reset
<1>3. ASSUME NEW r \in UnpDoing(attempts', latches'), Unp!Goes(t, r),
             open, latches' = latches + 1, latch' = latches + 1,
             attempts' \in {attempts, attempts + 1}
      PROVE  UnpIInv'
  <2>1. /\ UnpMade(attempts) \subseteq UnpMade(attempts')
        /\ UnpDoing(attempts, latches) \subseteq UnpDoing(attempts', latches')
        /\ attempts' \in Nat /\ latches' \in Nat
        /\ 1..latches \subseteq 1..latches' /\ 1..attempts \subseteq 1..attempts'
    BY <1>1, <1>3, UnpMoreIsMade
  <2>2. task' \in [Tools -> UnpDoing(attempts', latches')]
    BY <1>1, <1>3, <2>1 DEF Unp!Goes
  <2>3. UnpTyped'
    BY <1>1, <1>3, <2>1, <2>2 DEF Unp!Reset, UnpIInv, UnpTyped
  <2>4. UnpNewestIsOurs' /\ UnpToolHasLatch'
    BY <1>1, <1>3 DEF Unp!Reset, UnpNewestIsOurs, UnpToolHasLatch
  <2> QED BY <2>3, <2>4 DEF UnpIInv
<1>4. CASE /\ open /\ latches' = latches + 1 /\ latch' = latches + 1
           /\ Unp!Goes(t, [task[t] EXCEPT !.pc = "take"]) /\ UNCHANGED attempts
  <2> DEFINE r == [task[t] EXCEPT !.pc = "take"]
  <2>1. r \in UnpDoing(attempts', latches')
    BY <1>1, <1>4 DEF UnpDoing, UnpPcs
  <2>2. Unp!Goes(t, r)
    BY <1>4
  <2> HIDE DEF r
  <2> QED BY <1>3, <1>4, <2>1, <2>2
<1>5. ASSUME NEW route \in {"take", "probe", "finish"},
             open, latches' = latches + 1, latch' = latches + 1, attempts' = attempts + 1,
             Unp!Goes(t, [task[t] EXCEPT !.pc = route, !.mine = attempts + 1,
                        !.st = [Unp!None EXCEPT !.id = attempts + 1,
                                  !.phase = IF route = "probe" THEN "running" ELSE "detected"]])
      PROVE  UnpIInv'
  <2> DEFINE s == [Unp!None EXCEPT !.id = attempts + 1,
                     !.phase = IF route = "probe" THEN "running" ELSE "detected"]
             r == [task[t] EXCEPT !.pc = route, !.mine = attempts + 1, !.st = s]
  <2>1. s \in UnpMade(attempts + 1)
    <3>1. attempts + 1 \in Nat /\ attempts + 1 \in 0..(attempts + 1)
          /\ (IF route = "probe" THEN "running" ELSE "detected") \in Unp!Phases
      BY <1>1 DEF Unp!Phases
    <3>2. Unp!None \in UnpMade(attempts + 1)
      BY <1>1, <3>1, UnpNoneIsMade
    <3> QED BY <3>1, <3>2 DEF UnpMade
  <2>2. task[t] \in UnpDoing(attempts + 1, latches + 1)
    BY <1>1, UnpMoreIsMade
  <2>3. Unp!Goes(t, r)
    BY <1>5
  <2> HIDE DEF s
  <2>4. r \in UnpDoing(attempts + 1, latches + 1)
    <3>1. attempts + 1 \in 0..(attempts + 1) /\ route \in UnpPcs
      BY <1>1 DEF UnpPcs
    <3>2. attempts + 1 \in Nat /\ latches + 1 \in Nat
      BY <1>1
    <3> DEFINE n == attempts + 1
    <3>3. s \in UnpMade(n) /\ task[t] \in UnpDoing(n, latches + 1) /\ n \in 0..n
      BY <2>1, <2>2, <3>1
    <3> HIDE DEF n
    <3>4. [task[t] EXCEPT !.pc = route, !.mine = n, !.st = s] \in UnpDoing(n, latches + 1)
      BY <3>1, <3>3 DEF UnpDoing
    <3> QED BY <3>4 DEF n, r
  <2> HIDE DEF r
  <2> QED BY <1>3, <1>5, <2>3, <2>4
<1> QED BY <1>2, <1>4, <1>5 DEF Unp!Reset

(* The start of a close drops the latch and sets it.                        *)
LEMMA UnpCloseWorks ==
    ASSUME UnpIInv, Unp!Close
    PROVE  UnpIInv'
<1>1. latches \in Nat /\ latch = latches /\ Unp!None \in UnpMade(attempts)
  BY UnpNoneIsMade DEF UnpIInv, UnpTyped, UnpNewestIsOurs, Unp!Close
<1>2. UnpTyped'
  <2>1. {latch} \ {Unp!NoLatch} \subseteq 1..latches /\ Unp!NoLatch \in 0..latches
    BY <1>1 DEF Unp!NoLatch
  <2>2. set' \subseteq 1..latches'
    BY <2>1 DEF UnpIInv, UnpTyped, Unp!Close
  <2> QED BY <1>1, <2>1, <2>2 DEF UnpIInv, UnpTyped, Unp!Close
<1>3. UnpNewestIsOurs' /\ UnpToolHasLatch'
  BY <1>1 DEF UnpIInv, UnpNewestIsOurs, UnpToolHasLatch, Unp!Close, Unp!NoLatch
<1> QED BY <1>2, <1>3 DEF UnpIInv

(* Nothing has been made in the beginning.                                  *)
LEMMA UnpInvariantStarts == Unp!Init => UnpIInv
<1> SUFFICES ASSUME Unp!Init PROVE UnpIInv
  OBVIOUS
<1>1. Unp!None \in UnpMade(0) /\ Unp!Idle \in UnpDoing(0, 0)
  BY UnpNoneIsMade
<1>2. UnpTyped
  BY <1>1 DEF Unp!Init, UnpTyped, Unp!NoLatch
<1>3. UnpNewestIsOurs /\ UnpToolHasLatch
  BY DEF Unp!Init, UnpNewestIsOurs, UnpToolHasLatch, Unp!NoLatch, Unp!Idle, UnpLatched
<1> QED BY <1>2, <1>3 DEF UnpIInv

(* Every step of a call, the close and the deadline keep the invariant.     *)
LEMMA UnpInvariantStays == UnpIInv /\ [Unp!Next]_Unp!vars => UnpIInv'
<1> SUFFICES ASSUME UnpIInv, [Unp!Next]_Unp!vars PROVE UnpIInv'
  OBVIOUS
<1>1. ASSUME NEW t \in Tools, Unp!Step(t) PROVE UnpIInv'
  BY <1>1, UnpWorksWithoutLatch, UnpSignalWorks, UnpResetWorks, UnpTakeWorks DEF Unp!Step
<1>2. ASSUME NEW t \in Tools, NEW kind \in Unp!Calls, Unp!Begin(t, kind) PROVE UnpIInv'
  BY <1>2, UnpBeginWorks
<1>3. CASE Unp!Close
  BY <1>3, UnpCloseWorks
<1>4. CASE Unp!Expire
  BY <1>4 DEF Unp!Expire, UnpIInv, UnpTyped, UnpNewestIsOurs, UnpToolHasLatch
<1>5. CASE UNCHANGED Unp!vars
  BY <1>5 DEF Unp!vars, UnpIInv, UnpTyped, UnpNewestIsOurs, UnpToolHasLatch
<1> QED BY <1>1, <1>2, <1>3, <1>4, <1>5 DEF Unp!Next

-----------------------------------------------------------------------------
(* Theorems *)

(* The invariant: while a session is open its latch is the newest that was  *)
(* made; once it closes it has none, and the newest is set; whoever runs a  *)
(* command line tool does so with a latch made.                             *)
THEOREM UnpInvariantHolds == Unp!Spec => []UnpIInv
<1> QED BY UnpInvariantStarts, UnpInvariantStays, PTL DEF Unp!Spec

(* Attempts, tasks and latches are what the code can hold: phases are       *)
(* phases, and no attempt or latch is referred to that was not made.        *)
THEOREM UnpTypeCorrect == Unp!Spec => []Unp!TypeOK
<1>1. UnpIInv => Unp!TypeOK
  BY DEF UnpIInv, UnpTyped, Unp!TypeOK, UnpMade, UnpDoing
<1> QED BY <1>1, UnpInvariantHolds, PTL

(* What is to be shown of it.                                               *)
LEMMA UnpImplies == ASSUME UnpIInv PROVE Unp!LatchesFreed
  BY DEF UnpIInv, UnpNewestIsOurs, UnpToolHasLatch, Unp!LatchesFreed, UnpLatched

(* A closed session keeps no latch, however its close falls among the calls *)
(* that look for one, and whatever tool runs with its newest latch can be   *)
(* stopped (service.py:983).                                                *)
THEOREM UnpLatchesAreFreed == Unp!Spec => []Unp!LatchesFreed
<1>1. UnpIInv => Unp!LatchesFreed
  BY UnpImplies
<1> QED BY <1>1, UnpInvariantHolds, PTL

-----------------------------------------------------------------------------
(***************************************************************************)
(* The browser (Browser)                                                   *)
(*                                                                         *)
(* The invariant numbers the drivers: each that runs is the one of the     *)
(* session, or of the one call that will end it, or is still to be built   *)
(* for the call that waits for it.                                         *)
(***************************************************************************)

WebPlaces == {"idle", "reserve", "building", "abandon", "reap", "release", "place", "recheck",
              "pop", "ending", "closing", "end", "use", "call", "calling", "done"}

WebTyped ==
    /\ at \in [Callers -> WebPlaces] /\ mine \in [Callers -> Nat] /\ opens \in Nat
    /\ slot \in [what : {"none", "opening", "live"}, of : Nat]
    /\ queue = [n \in Web!Opens |-> queue[n]]
    /\ driver \in [Web!Opens -> {"none", "up", "dead"}]

(* Opens are numbered as they are reserved: what is not has no work.        *)
WebNumbered ==
    /\ \A c \in Callers : mine[c] <= opens
    /\ slot.of <= opens /\ (slot.what = "none" <=> slot.of = Web!None)
    /\ \A n \in Web!Opens : opens < n => queue[n] = <<>> /\ driver[n] \in {"none", "dead"}

(* An open has one caller until its handle is placed, and until then the    *)
(* slot holds its reservation or nothing of it.                             *)
WebOpening == {"building", "abandon", "reap", "release", "place"}

WebOpeners ==
    \A c \in Callers : at[c] \in WebOpening =>
        /\ mine[c] # Web!None /\ (slot.of = mine[c] => slot.what = "opening")
        /\ \A d \in Callers : at[d] \in WebOpening /\ mine[d] = mine[c] => c = d

(* A driver is reaped before its reservation is released, and whoever ends  *)
(* a handle reaps what it could not close.                                  *)
WebEnding ==
    \A c \in Callers :
        /\ at[c] = "release" => mine[c] \in reaped
        /\ at[c] = "end" /\ mine[c] \in Web!Opens => mine[c] \in wedged \/ driver[mine[c]] = "dead"

(* A driver that runs, or will, is the one of the session or has a caller   *)
(* that places or ends it.                                                  *)
WebKept(n) ==
    \/ slot.what = "live" /\ slot.of = n
    \/ \E c \in Callers : at[c] \in (WebOpening \ {"release"}) \cup {"ending", "closing", "end"}
       /\ mine[c] = n

WebHeld == \A n \in Web!Opens : n <= opens /\ driver[n] # "dead" /\ n \notin reaped => WebKept(n)

(* A closing session has a slot taken only while a call will free it.       *)
WebClosing ==
    closing /\ slot.what # "none" =>
        \E c \in Callers : at[c] = "pop" \/ (at[c] \in WebOpening \cup {"recheck"}
        /\ mine[c] = slot.of)

WebInv == WebTyped /\ WebNumbered /\ WebOpeners /\ WebEnding /\ WebHeld /\ WebClosing

(* What a step makes of the caller that takes it.                           *)
WebTurns(c, place, n) ==
    /\ at' \in [Callers -> WebPlaces] /\ mine' \in [Callers -> Nat]
    /\ at'[c] = place /\ mine'[c] = n
    /\ \A d \in Callers : d # c => at'[d] = at[d] /\ mine'[d] = mine[d]

(* Work is queued only for what was reserved.                               *)
WebQueueType == queue' = [n \in Web!Opens |-> queue'[n]]

WebQueues ==
    /\ WebQueueType
    /\ \A n \in Web!Opens : queue[n] = <<>> /\ opens < n => queue'[n] = <<>>

(* A driver is killed, or left alone when there is none to know of.         *)
WebReaps(n) ==
    /\ reaped' = reaped \cup {n} /\ driver' \in [Web!Opens -> {"none", "up", "dead"}]
    /\ \A m \in Web!Opens : driver'[m] = driver[m] \/ driver'[m] = "dead"

WebSlotType == slot' \in [what : {"none", "opening", "live"}, of : Nat]

(* A caller moves and takes an open, or drops it.                           *)
LEMMA WebMoves ==
    ASSUME WebInv, NEW c \in Callers
    PROVE  /\ Web!Done(c) => WebTurns(c, "idle", Web!None)
           /\ \A place \in WebPlaces :
                 /\ Web!GoTo(c, place) /\ UNCHANGED mine => WebTurns(c, place, mine[c])
                 /\ \A n \in Nat : Web!GoTo(c, place) /\ Web!Takes(c, n) => WebTurns(c, place, n)
<1>1. /\ at \in [Callers -> WebPlaces] /\ mine \in [Callers -> Nat] /\ "idle" \in WebPlaces
  BY DEF WebInv, WebTyped, WebPlaces
<1>2. ASSUME NEW place \in WebPlaces, Web!GoTo(c, place), UNCHANGED mine
             PROVE WebTurns(c, place, mine[c])
  BY <1>1, <1>2 DEF Web!GoTo, WebTurns
<1>3. ASSUME NEW place \in WebPlaces, NEW n \in Nat, Web!GoTo(c, place), Web!Takes(c, n)
             PROVE WebTurns(c, place, n)
  BY <1>1, <1>3 DEF Web!GoTo, Web!Takes, WebTurns
<1>4. Web!Done(c) => WebTurns(c, "idle", Web!None)
  BY <1>1 DEF Web!Done, Web!GoTo, WebTurns, Web!None
<1> QED BY <1>2, <1>3, <1>4

(* The runner of a caller's open gets work, or its driver is reaped.        *)
LEMMA WebWorks ==
    ASSUME WebInv, NEW n \in Nat, n <= opens
    PROVE  /\ \A c, what : Web!Puts(n, c, what) => WebQueues
           /\ Web!ShutsDown(n) => WebQueues
           /\ Web!Reaps(n) => WebReaps(n)
<1>1. /\ queue = [m \in Web!Opens |-> queue[m]]
         /\ driver \in [Web!Opens -> {"none", "up", "dead"}] /\ opens \in Nat
  BY DEF WebInv, WebTyped
<1>2. \A m \in Web!Opens : opens < m => m # n
  BY <1>1 DEF Web!Opens
<1>3. ASSUME NEW q, queue' = [queue EXCEPT ![n] = q] PROVE WebQueues
  BY <1>1, <1>2, <1>3 DEF WebQueues, WebQueueType
<1>4. \A c, what : Web!Puts(n, c, what) => WebQueues
  BY <1>3 DEF Web!Puts
<1>5. Web!ShutsDown(n) => WebQueues
  BY <1>3 DEF Web!ShutsDown
<1>6. Web!Reaps(n) => WebReaps(n)
  BY <1>1 DEF Web!Reaps, WebReaps
<1> QED BY <1>4, <1>5, <1>6

(* The head of a queue is answered: its caller goes on if it still waits.   *)
WebAnswers(n, place, to) ==
    /\ WebQueues /\ at' \in [Callers -> WebPlaces]
    /\ \A c \in Callers : at'[c] = at[c] \/ (mine[c] = n /\ at[c] = place /\ at'[c] = to)

(* An answer takes the order from the queue, and the call that waits for    *)
(* it goes on.                                                              *)
LEMMA WebAnswering ==
    ASSUME WebInv, NEW n \in Web!Opens, NEW place, NEW to \in WebPlaces, queue[n] # <<>>,
           Web!Answers(n, place, to)
    PROVE  WebAnswers(n, place, to)
<1>1. /\ queue = [m \in Web!Opens |-> queue[m]] /\ at \in [Callers -> WebPlaces] /\ opens \in Nat
  BY DEF WebInv, WebTyped
<1>2. queue' = [queue EXCEPT ![n] = Tail(@)] /\ ~(opens < n)
  BY DEF Web!Answers, WebInv, WebNumbered
<1>3. WebQueues
  BY <1>1, <1>2 DEF WebQueues, WebQueueType
<1>4. CASE Web!Waits(n, place)
  <2> DEFINE c == Head(queue[n]).by
  <2>1. mine[c] = n /\ at[c] = place /\ at' = [at EXCEPT ![c] = to]
    BY <1>4 DEF Web!Waits, Web!Answers
  <2> HIDE DEF c
  <2> QED BY <1>1, <1>3, <2>1 DEF WebAnswers
<1>5. CASE ~Web!Waits(n, place)
  BY <1>1, <1>3, <1>5 DEF WebAnswers, Web!Answers
<1> QED BY <1>4, <1>5

(* The numbers of opens.                                                    *)
LEMMA WebNumbers ==
    ASSUME WebInv
    PROVE  /\ \A c \in Callers : mine[c] \in Nat /\ mine[c] <= opens
           /\ slot.of \in Nat /\ slot.of <= opens /\ opens \in Nat /\ opens + 1 \in Nat
           /\ \A n \in Web!Opens : n \in Nat /\ n # Web!None
  BY DEF WebInv, WebTyped, WebNumbered, Web!Opens, Web!None

(* What the slot is compared with.                                          *)
LEMMA WebSlot ==
    ASSUME WebInv
    PROVE  /\ slot = Web!Empty <=> slot.what = "none"
           /\ \A n : slot = [what |-> "live", of |-> n] <=> slot.what = "live" /\ slot.of = n
           /\ \A n : slot = [what |-> "opening", of |-> n] <=> slot.what = "opening" /\ slot.of = n
<1>1. slot \in [what : {"none", "opening", "live"}, of : Nat]
  BY DEF WebInv, WebTyped
<1> QED BY <1>1 DEF WebInv, WebNumbered, Web!Empty, Web!None

(* A call begins. *)
LEMMA WebBeginKeeps ==
    ASSUME WebInv, NEW c \in Callers, Web!Open(c) \/ Web!Use(c) \/ Web!Close(c)
    PROVE  WebInv'
<1>1. /\ at[c] = "idle"
      /\ UNCHANGED <<closing, slot, opens, queue, wedged, driver, reaped>>
      /\ \E place \in {"reserve", "use", "pop"} : WebTurns(c, place, mine[c])
  BY WebNumbers, WebSlot, WebMoves DEF WebPlaces, Web!runners, Web!At, Web!Open, Web!Use,
     Web!Close, Web!Begin
<1>2. WebTyped'
  BY WebNumbers, <1>1 DEF WebInv, WebTyped, WebTurns, Web!None
<1>3. WebNumbered'
  BY WebNumbers, <1>1 DEF WebInv, WebNumbered, WebTurns, Web!None
<1>4. WebOpeners'
  BY WebNumbers, <1>1 DEF WebInv, WebNumbered, WebOpeners, WebOpening, WebTurns, Web!None
<1>5. WebEnding'
  BY WebNumbers, <1>1 DEF WebInv, WebEnding, WebTurns, Web!None
<1>6. WebHeld'
  BY WebNumbers, <1>1 DEF WebInv, WebNumbered, WebEnding, WebHeld, WebKept, WebOpening, WebTurns,
     Web!None
<1>7. WebClosing'
  BY WebNumbers, <1>1 DEF WebInv, WebNumbered, WebOpeners, WebClosing, WebOpening, WebTurns,
     Web!None
<1> QED BY <1>2, <1>3, <1>4, <1>5, <1>6, <1>7 DEF WebInv

(* The session closes. *)
LEMMA WebCloseSessionKeeps ==
    ASSUME WebInv, NEW c \in Callers, Web!CloseSession(c)
    PROVE  WebInv'
<1>1. /\ at[c] = "idle"
      /\ UNCHANGED <<slot, opens, queue, wedged, driver, reaped>>
      /\ closing'
      /\ WebTurns(c, "pop", mine[c])
  BY WebNumbers, WebSlot, WebMoves DEF WebPlaces, Web!runners, Web!At, Web!CloseSession
<1>2. WebTyped'
  BY WebNumbers, <1>1 DEF WebInv, WebTyped, WebTurns, Web!None
<1>3. WebNumbered'
  BY WebNumbers, <1>1 DEF WebInv, WebNumbered, WebTurns, Web!None
<1>4. WebOpeners'
  BY WebNumbers, <1>1 DEF WebInv, WebNumbered, WebOpeners, WebOpening, WebTurns, Web!None
<1>5. WebEnding'
  BY WebNumbers, <1>1 DEF WebInv, WebEnding, WebTurns, Web!None
<1>6. WebHeld'
  BY WebNumbers, <1>1 DEF WebInv, WebNumbered, WebEnding, WebHeld, WebKept, WebOpening, WebTurns,
     Web!None
<1>7. WebClosing'
  BY WebNumbers, <1>1 DEF WebInv, WebNumbered, WebOpeners, WebClosing, WebOpening, WebTurns,
     Web!None
<1> QED BY <1>2, <1>3, <1>4, <1>5, <1>6, <1>7 DEF WebInv

(* An open reserves the slot. *)
LEMMA WebReserveKeeps ==
    ASSUME WebInv, NEW c \in Callers, Web!Reserve(c), slot = Web!Empty
    PROVE  WebInv'
<1>1. /\ at[c] = "reserve"
      /\ opens' = opens + 1 /\ slot' = [what |-> "opening", of |-> opens + 1]
      /\ Web!Takes(c, opens + 1) /\ Web!GoTo(c, "building") /\ Web!Puts(opens + 1, c, "build")
      /\ UNCHANGED <<closing, wedged, driver, reaped>>
  BY DEF Web!Reserve, Web!At
<1>2. /\ WebTurns(c, "building", opens + 1)
      /\ opens' = opens + 1 /\ opens' \in Nat /\ slot.what = "none"
      /\ WebSlotType /\ slot'.what = "opening" /\ slot'.of = opens + 1
  BY <1>1, WebNumbers, WebSlot, WebMoves DEF WebPlaces, WebSlotType
<1>3. /\ WebQueueType /\ \A n \in Web!Opens : n # opens + 1 => queue'[n] = queue[n]
  BY <1>1 DEF Web!Puts, WebQueueType, WebInv, WebTyped
<1>4. WebTyped'
  BY WebNumbers, <1>1, <1>2, <1>3 DEF WebInv, WebTyped, WebSlotType, WebQueueType, WebTurns,
     Web!None
<1>5. WebNumbered'
  BY WebNumbers, <1>1, <1>2, <1>3 DEF WebInv, WebNumbered, WebTurns, Web!None
<1>6. WebOpeners'
  BY WebNumbers, <1>1, <1>2, <1>3 DEF WebInv, WebNumbered, WebOpeners, WebOpening, WebTurns,
     Web!None
<1>7. WebEnding'
  BY WebNumbers, <1>1, <1>2, <1>3 DEF WebInv, WebEnding, WebTurns, Web!None
<1>8. WebHeld'
  BY WebNumbers, <1>1, <1>2, <1>3 DEF WebInv, WebNumbered, WebEnding, WebHeld, WebKept,
     WebOpening, WebTurns, Web!None
<1>9. WebClosing'
  BY WebNumbers, <1>1, <1>2, <1>3 DEF WebInv, WebNumbered, WebOpeners, WebClosing, WebOpening,
     WebTurns, Web!None
<1> QED BY <1>4, <1>5, <1>6, <1>7, <1>8, <1>9 DEF WebInv

(* An open finds the slot taken. *)
LEMMA WebRefuseKeeps ==
    ASSUME WebInv, NEW c \in Callers, Web!Reserve(c), slot # Web!Empty
    PROVE  WebInv'
<1>1. /\ at[c] = "reserve"
      /\ UNCHANGED <<closing, slot, opens, queue, wedged, driver, reaped>>
      /\ WebTurns(c, "idle", Web!None)
  BY WebNumbers, WebSlot, WebMoves DEF WebPlaces, Web!runners, Web!At, Web!Reserve
<1>2. WebTyped'
  BY WebNumbers, <1>1 DEF WebInv, WebTyped, WebTurns, Web!None
<1>3. WebNumbered'
  BY WebNumbers, <1>1 DEF WebInv, WebNumbered, WebTurns, Web!None
<1>4. WebOpeners'
  BY WebNumbers, <1>1 DEF WebInv, WebNumbered, WebOpeners, WebOpening, WebTurns, Web!None
<1>5. WebEnding'
  BY WebNumbers, <1>1 DEF WebInv, WebEnding, WebTurns, Web!None
<1>6. WebHeld'
  BY WebNumbers, <1>1 DEF WebInv, WebNumbered, WebEnding, WebHeld, WebKept, WebOpening, WebTurns,
     Web!None
<1>7. WebClosing'
  BY WebNumbers, <1>1 DEF WebInv, WebNumbered, WebOpeners, WebClosing, WebOpening, WebTurns,
     Web!None
<1> QED BY <1>2, <1>3, <1>4, <1>5, <1>6, <1>7 DEF WebInv

(* A caller stops waiting for its runner. *)
LEMMA WebGivesUpKeeps ==
    ASSUME WebInv, NEW c \in Callers, Web!BuildLate(c) \/ Web!CloseLate(c) \/ Web!CallLate(c)
    PROVE  WebInv'
<1>1. /\ wedged' = wedged \cup {mine[c]}
      /\ UNCHANGED <<closing, slot, opens, queue, driver, reaped>>
      /\ (at[c] = "building" /\ WebTurns(c, "abandon", mine[c])) \/ (at[c] = "closing"
         /\ WebTurns(c, "end", mine[c]))
         \/ (at[c] = "calling" /\ WebTurns(c, "done", mine[c]))
  BY WebNumbers, WebSlot, WebMoves DEF WebPlaces, Web!runners, Web!At, Web!BuildLate,
     Web!CloseLate, Web!CallLate, Web!GivesUp
<1>2. WebTyped'
  BY WebNumbers, <1>1 DEF WebInv, WebTyped, WebTurns, Web!None
<1>3. WebNumbered'
  BY WebNumbers, <1>1 DEF WebInv, WebNumbered, WebTurns, Web!None
<1>4. WebOpeners'
  BY WebNumbers, <1>1 DEF WebInv, WebNumbered, WebOpeners, WebOpening, WebTurns, Web!None
<1>5. WebEnding'
  BY WebNumbers, <1>1 DEF WebInv, WebEnding, WebTurns, Web!None
<1>6. WebHeld'
  BY WebNumbers, <1>1 DEF WebInv, WebNumbered, WebEnding, WebHeld, WebKept, WebOpening, WebTurns,
     Web!None
<1>7. WebClosing'
  BY WebNumbers, <1>1 DEF WebInv, WebNumbered, WebOpeners, WebClosing, WebOpening, WebTurns,
     Web!None
<1> QED BY <1>2, <1>3, <1>4, <1>5, <1>6, <1>7 DEF WebInv

(* The runner of an open that failed is told to end. *)
LEMMA WebAbandonKeeps ==
    ASSUME WebInv, NEW c \in Callers, Web!Abandon(c)
    PROVE  WebInv'
<1>1. /\ at[c] = "abandon"
      /\ UNCHANGED <<closing, slot, opens, wedged, driver, reaped>>
      /\ WebTurns(c, "reap", mine[c])
      /\ WebQueues
  BY WebWorks, WebNumbers, WebSlot, WebMoves DEF WebPlaces, Web!runners, Web!At, Web!Abandon
<1>2. WebTyped'
  BY WebNumbers, <1>1 DEF WebInv, WebTyped, WebQueueType, WebQueues, WebTurns, Web!None
<1>3. WebNumbered'
  BY WebNumbers, <1>1 DEF WebInv, WebNumbered, WebQueues, WebTurns, Web!None
<1>4. WebOpeners'
  BY WebNumbers, <1>1 DEF WebInv, WebNumbered, WebOpeners, WebOpening, WebTurns, Web!None
<1>5. WebEnding'
  BY WebNumbers, <1>1 DEF WebInv, WebEnding, WebTurns, Web!None
<1>6. WebHeld'
  BY WebNumbers, <1>1 DEF WebInv, WebNumbered, WebEnding, WebHeld, WebKept, WebOpening, WebTurns,
     Web!None
<1>7. WebClosing'
  BY WebNumbers, <1>1 DEF WebInv, WebNumbered, WebOpeners, WebClosing, WebOpening, WebTurns,
     Web!None
<1> QED BY <1>2, <1>3, <1>4, <1>5, <1>6, <1>7 DEF WebInv

(* The driver of an open that failed is killed. *)
LEMMA WebReapKeeps ==
    ASSUME WebInv, NEW c \in Callers, Web!Reap(c)
    PROVE  WebInv'
<1>1. /\ at[c] = "reap"
      /\ UNCHANGED <<closing, slot, opens, queue, wedged>>
      /\ WebTurns(c, "release", mine[c])
      /\ WebReaps(mine[c])
  BY WebWorks, WebNumbers, WebSlot, WebMoves DEF WebPlaces, Web!runners, Web!At, Web!Reap
<1>2. WebTyped'
  BY WebNumbers, <1>1 DEF WebInv, WebTyped, WebReaps, WebTurns, Web!None
<1>3. WebNumbered'
  BY WebNumbers, <1>1 DEF WebInv, WebNumbered, WebReaps, WebTurns, Web!None
<1>4. WebOpeners'
  BY WebNumbers, <1>1 DEF WebInv, WebNumbered, WebOpeners, WebOpening, WebTurns, Web!None
<1>5. WebEnding'
  BY WebNumbers, <1>1 DEF WebInv, WebEnding, WebReaps, WebTurns, Web!None
<1>6. WebHeld'
  <2>1. ASSUME NEW n \in Web!Opens, n <= opens, driver'[n] # "dead", n \notin reaped'
        PROVE  n # mine[c] /\ WebKept(n)
    BY <1>1, <2>1 DEF WebInv, WebTyped, WebHeld, WebReaps
  <2>2. ASSUME NEW n \in Web!Opens, n # mine[c], WebKept(n)
        PROVE  WebKept(n)'
    BY WebNumbers, <1>1, <2>2 DEF WebKept, WebTurns
  <2> QED BY <1>1, <2>1, <2>2 DEF WebHeld
<1>7. WebClosing'
  BY WebNumbers, <1>1 DEF WebInv, WebNumbered, WebOpeners, WebClosing, WebOpening, WebTurns,
     Web!None
<1> QED BY <1>2, <1>3, <1>4, <1>5, <1>6, <1>7 DEF WebInv

(* The reservation of an open that failed is dropped. *)
LEMMA WebReleaseKeeps ==
    ASSUME WebInv, NEW c \in Callers, Web!Release(c)
    PROVE  WebInv'
<1>1. /\ at[c] = "release"
      /\ UNCHANGED <<closing, opens, queue, wedged, driver, reaped>>
      /\ WebTurns(c, "idle", Web!None)
      /\ slot' = IF slot.of = mine[c] THEN Web!Empty ELSE slot
  BY WebNumbers, WebSlot, WebMoves DEF WebPlaces, Web!runners, Web!At, Web!Release
<1>2. /\ slot' = slot \/ (slot.of = mine[c] /\ slot'.what = "none" /\ slot'.of = Web!None)
      /\ slot.of = mine[c] => slot'.what = "none"
      /\ WebSlotType
  BY <1>1 DEF Web!Empty, Web!None, WebInv, WebTyped, WebSlotType
<1>3. WebTyped'
  BY WebNumbers, <1>1, <1>2 DEF WebInv, WebTyped, WebSlotType, WebTurns, Web!None
<1>4. WebNumbered'
  BY WebNumbers, <1>1, <1>2 DEF WebInv, WebNumbered, WebTurns, Web!None
<1>5. WebOpeners'
  <2>1. \A d \in Callers : at'[d] \in WebOpening =>
            at[d] \in WebOpening /\ mine'[d] = mine[d]
    BY <1>1 DEF WebTurns, WebOpening
  <2>2. WebOpeners
    BY DEF WebInv
  <2> QED BY <1>2, <2>1, <2>2 DEF WebOpeners
<1>6. WebEnding'
  BY WebNumbers, <1>1, <1>2 DEF WebInv, WebEnding, WebTurns, Web!None
<1>7. WebHeld'
  BY WebNumbers, <1>1, <1>2 DEF WebInv, WebNumbered, WebEnding, WebHeld, WebKept, WebOpening,
     WebTurns, Web!None
<1>8. WebClosing'
  BY WebNumbers, <1>1, <1>2 DEF WebInv, WebNumbered, WebOpeners, WebClosing, WebOpening, WebTurns,
     Web!None
<1> QED BY <1>3, <1>4, <1>5, <1>6, <1>7, <1>8 DEF WebInv

(* A handle takes the place of its reservation. *)
LEMMA WebPlaceKeeps ==
    ASSUME WebInv, NEW c \in Callers, Web!Place(c), Web!StillReserved(c)
    PROVE  WebInv'
<1>1. /\ at[c] = "place" /\ slot.what = "opening" /\ slot.of = mine[c]
      /\ UNCHANGED <<closing, opens, queue, wedged, driver, reaped>>
      /\ WebTurns(c, "recheck", mine[c])
      /\ slot' = [what |-> "live", of |-> mine[c]]
  BY WebNumbers, WebSlot, WebMoves DEF WebPlaces, Web!runners, Web!At, Web!Place, Web!StillReserved
<1>2. /\ slot'.what = "live" /\ slot'.of = mine[c]
      /\ WebSlotType
  BY <1>1, WebNumbers DEF WebSlotType
<1>3. WebTyped'
  BY WebNumbers, <1>1, <1>2 DEF WebInv, WebTyped, WebSlotType, WebTurns, Web!None
<1>4. WebNumbered'
  BY WebNumbers, <1>1, <1>2 DEF WebInv, WebNumbered, WebTurns, Web!None
<1>5. WebOpeners'
  BY WebNumbers, <1>1, <1>2 DEF WebInv, WebNumbered, WebOpeners, WebOpening, WebTurns, Web!None
<1>6. WebEnding'
  BY WebNumbers, <1>1, <1>2 DEF WebInv, WebEnding, WebTurns, Web!None
<1>7. WebHeld'
  BY WebNumbers, <1>1, <1>2 DEF WebInv, WebNumbered, WebEnding, WebHeld, WebKept, WebOpening,
     WebTurns, Web!None
<1>8. WebClosing'
  BY WebNumbers, <1>1, <1>2 DEF WebInv, WebNumbered, WebOpeners, WebClosing, WebOpening, WebTurns,
     Web!None
<1> QED BY <1>3, <1>4, <1>5, <1>6, <1>7, <1>8 DEF WebInv

(* A handle whose reservation is gone is ended. *)
LEMMA WebPlaceEndsKeeps ==
    ASSUME WebInv, NEW c \in Callers, Web!Place(c), ~Web!StillReserved(c)
    PROVE  WebInv'
<1>1. /\ at[c] = "place" /\ ~(slot.what = "opening" /\ slot.of = mine[c])
      /\ UNCHANGED <<closing, slot, opens, wedged>>
      /\ WebTurns(c, "idle", Web!None)
      /\ WebQueues
      /\ WebReaps(mine[c])
  BY WebWorks, WebNumbers, WebSlot, WebMoves DEF WebPlaces, Web!runners, Web!At, Web!Place,
     Web!StillReserved
<1>2. WebTyped'
  BY WebNumbers, <1>1 DEF WebInv, WebTyped, WebQueueType, WebQueues, WebReaps, WebTurns, Web!None
<1>3. WebNumbered'
  BY WebNumbers, <1>1 DEF WebInv, WebNumbered, WebQueues, WebReaps, WebTurns, Web!None
<1>4. WebOpeners'
  BY WebNumbers, <1>1 DEF WebInv, WebNumbered, WebOpeners, WebOpening, WebTurns, Web!None
<1>5. WebEnding'
  BY WebNumbers, <1>1 DEF WebInv, WebEnding, WebReaps, WebTurns, Web!None
<1>6. WebHeld'
  <2>1. ASSUME NEW n \in Web!Opens, n <= opens, driver'[n] # "dead", n \notin reaped'
        PROVE  n # mine[c] /\ WebKept(n)
    BY <1>1, <2>1 DEF WebInv, WebTyped, WebHeld, WebReaps
  <2>2. ASSUME NEW n \in Web!Opens, n # mine[c], WebKept(n)
        PROVE  WebKept(n)'
    BY WebNumbers, <1>1, <2>2 DEF WebKept, WebTurns
  <2> QED BY <1>1, <2>1, <2>2 DEF WebHeld
<1>7. WebClosing'
  BY WebNumbers, <1>1 DEF WebInv, WebNumbered, WebOpeners, WebClosing, WebOpening, WebTurns,
     Web!None
<1> QED BY <1>2, <1>3, <1>4, <1>5, <1>6, <1>7 DEF WebInv

(* An open looks at its session again. *)
LEMMA WebRecheckKeeps ==
    ASSUME WebInv, NEW c \in Callers, Web!Recheck(c)
    PROVE  WebInv'
<1>1. /\ at[c] = "recheck"
      /\ UNCHANGED <<closing, slot, opens, queue, wedged, driver, reaped>>
      /\ WebTurns(c, "pop", Web!None) \/ (WebTurns(c, "idle", Web!None) /\ ~closing)
  BY WebNumbers, WebSlot, WebMoves DEF WebPlaces, Web!runners, Web!At, Web!Recheck, Web!None
<1>2. WebTyped'
  BY WebNumbers, <1>1 DEF WebInv, WebTyped, WebTurns, Web!None
<1>3. WebNumbered'
  BY WebNumbers, <1>1 DEF WebInv, WebNumbered, WebTurns, Web!None
<1>4. WebOpeners'
  BY WebNumbers, <1>1 DEF WebInv, WebNumbered, WebOpeners, WebOpening, WebTurns, Web!None
<1>5. WebEnding'
  BY WebNumbers, <1>1 DEF WebInv, WebEnding, WebTurns, Web!None
<1>6. WebHeld'
  BY WebNumbers, <1>1 DEF WebInv, WebNumbered, WebEnding, WebHeld, WebKept, WebOpening, WebTurns,
     Web!None
<1>7. WebClosing'
  BY WebNumbers, <1>1 DEF WebInv, WebNumbered, WebOpeners, WebClosing, WebOpening, WebTurns,
     Web!None
<1> QED BY <1>2, <1>3, <1>4, <1>5, <1>6, <1>7 DEF WebInv

(* A close takes the handle out. *)
LEMMA WebPopKeeps ==
    ASSUME WebInv, NEW c \in Callers, Web!Pop(c)
    PROVE  WebInv'
<1>1. /\ at[c] = "pop"
      /\ UNCHANGED <<closing, opens, queue, wedged, driver, reaped>>
      /\ slot' = Web!Empty
      /\ (WebTurns(c, "ending", slot.of) /\ slot.what = "live") \/ (WebTurns(c, "idle", Web!None)
         /\ slot.what # "live")
  BY WebNumbers, WebSlot, WebMoves DEF WebPlaces, Web!runners, Web!At, Web!Pop
<1>2. /\ slot'.what = "none" /\ slot'.of = Web!None
      /\ WebSlotType
  BY <1>1 DEF Web!Empty, Web!None, WebSlotType
<1>3. WebTyped'
  BY WebNumbers, <1>1, <1>2 DEF WebInv, WebTyped, WebSlotType, WebTurns, Web!None
<1>4. WebNumbered'
  BY WebNumbers, <1>1, <1>2 DEF WebInv, WebNumbered, WebTurns, Web!None
<1>5. WebOpeners'
  BY WebNumbers, <1>1, <1>2 DEF WebInv, WebNumbered, WebOpeners, WebOpening, WebTurns, Web!None
<1>6. WebEnding'
  BY WebNumbers, <1>1, <1>2 DEF WebInv, WebEnding, WebTurns, Web!None
<1>7. WebHeld'
  BY WebNumbers, <1>1, <1>2 DEF WebInv, WebNumbered, WebEnding, WebHeld, WebKept, WebOpening,
     WebTurns, Web!None
<1>8. WebClosing'
  BY WebNumbers, <1>1, <1>2 DEF WebInv, WebNumbered, WebOpeners, WebClosing, WebOpening, WebTurns,
     Web!None
<1> QED BY <1>3, <1>4, <1>5, <1>6, <1>7, <1>8 DEF WebInv

(* A handle is closed by its runner unless that is wedged. *)
LEMMA WebEndingOfKeeps ==
    ASSUME WebInv, NEW c \in Callers, Web!Ending(c)
    PROVE  WebInv'
<1>1. /\ at[c] = "ending"
      /\ UNCHANGED <<closing, slot, opens, wedged, driver, reaped>>
      /\ (WebTurns(c, "end", mine[c]) /\ mine[c] \in wedged) \/ WebTurns(c, "closing", mine[c])
      /\ UNCHANGED queue \/ WebQueues
  BY WebWorks, WebNumbers, WebSlot, WebMoves DEF WebPlaces, Web!runners, Web!At, Web!Ending
<1>2. /\ WebQueues
  BY <1>1 DEF WebQueues, WebQueueType, WebInv, WebTyped
<1>3. WebTyped'
  BY WebNumbers, <1>1, <1>2 DEF WebInv, WebTyped, WebQueueType, WebQueues, WebTurns, Web!None
<1>4. WebNumbered'
  BY WebNumbers, <1>1, <1>2 DEF WebInv, WebNumbered, WebQueues, WebTurns, Web!None
<1>5. WebOpeners'
  BY WebNumbers, <1>1, <1>2 DEF WebInv, WebNumbered, WebOpeners, WebOpening, WebTurns, Web!None
<1>6. WebEnding'
  BY WebNumbers, <1>1, <1>2 DEF WebInv, WebEnding, WebTurns, Web!None
<1>7. WebHeld'
  BY WebNumbers, <1>1, <1>2 DEF WebInv, WebNumbered, WebEnding, WebHeld, WebKept, WebOpening,
     WebTurns, Web!None
<1>8. WebClosing'
  BY WebNumbers, <1>1, <1>2 DEF WebInv, WebNumbered, WebOpeners, WebClosing, WebOpening, WebTurns,
     Web!None
<1> QED BY <1>3, <1>4, <1>5, <1>6, <1>7, <1>8 DEF WebInv

(* The runner of a handle is told to end. *)
LEMMA WebEndKeeps ==
    ASSUME WebInv, NEW c \in Callers, Web!End(c)
    PROVE  WebInv'
<1>1. /\ at[c] = "end"
      /\ UNCHANGED <<closing, slot, opens, wedged>>
      /\ WebTurns(c, "idle", Web!None)
      /\ WebQueues
      /\ IF mine[c] \in wedged THEN WebReaps(mine[c]) ELSE UNCHANGED <<driver, reaped>>
  BY WebWorks, WebNumbers, WebSlot, WebMoves DEF WebPlaces, Web!runners, Web!At, Web!End
<1>2. WebTyped'
  BY WebNumbers, <1>1 DEF WebInv, WebTyped, WebQueueType, WebQueues, WebReaps, WebTurns, Web!None
<1>3. WebNumbered'
  BY WebNumbers, <1>1 DEF WebInv, WebNumbered, WebQueues, WebReaps, WebTurns, Web!None
<1>4. WebOpeners'
  BY WebNumbers, <1>1 DEF WebInv, WebNumbered, WebOpeners, WebOpening, WebTurns, Web!None
<1>5. WebEnding'
  BY WebNumbers, <1>1 DEF WebInv, WebEnding, WebReaps, WebTurns, Web!None
<1>6. WebHeld'
  BY WebNumbers, <1>1 DEF WebInv, WebNumbered, WebEnding, WebHeld, WebKept, WebOpening, WebReaps,
     WebTurns, Web!None
<1>7. WebClosing'
  BY WebNumbers, <1>1 DEF WebInv, WebNumbered, WebOpeners, WebClosing, WebOpening, WebTurns,
     Web!None
<1> QED BY <1>2, <1>3, <1>4, <1>5, <1>6, <1>7 DEF WebInv

(* A call gets the handle, or ends. *)
LEMMA WebUseKeeps ==
    ASSUME WebInv, NEW c \in Callers, Web!GetHandle(c) \/ Web!CallDone(c)
    PROVE  WebInv'
<1>1. /\ (at[c] = "use" /\ WebTurns(c, "call", slot.of)) \/ (at[c] \in {"use", "done"}
         /\ WebTurns(c, "idle", Web!None))
      /\ UNCHANGED <<closing, slot, opens, queue, wedged, driver, reaped>>
  BY WebNumbers, WebSlot, WebMoves DEF WebPlaces, Web!runners, Web!At, Web!GetHandle, Web!CallDone
<1>2. WebTyped'
  BY WebNumbers, <1>1 DEF WebInv, WebTyped, WebTurns, Web!None
<1>3. WebNumbered'
  BY WebNumbers, <1>1 DEF WebInv, WebNumbered, WebTurns, Web!None
<1>4. WebOpeners'
  BY WebNumbers, <1>1 DEF WebInv, WebNumbered, WebOpeners, WebOpening, WebTurns, Web!None
<1>5. WebEnding'
  BY WebNumbers, <1>1 DEF WebInv, WebEnding, WebTurns, Web!None
<1>6. WebHeld'
  BY WebNumbers, <1>1 DEF WebInv, WebNumbered, WebEnding, WebHeld, WebKept, WebOpening, WebTurns,
     Web!None
<1>7. WebClosing'
  BY WebNumbers, <1>1 DEF WebInv, WebNumbered, WebOpeners, WebClosing, WebOpening, WebTurns,
     Web!None
<1> QED BY <1>2, <1>3, <1>4, <1>5, <1>6, <1>7 DEF WebInv

(* A call is queued or refused. *)
LEMMA WebCallKeeps ==
    ASSUME WebInv, NEW c \in Callers, Web!Call(c)
    PROVE  WebInv'
<1>1. /\ at[c] = "call"
      /\ UNCHANGED <<closing, slot, opens, wedged, driver, reaped>>
      /\ WebTurns(c, "calling", mine[c]) \/ WebTurns(c, "idle", Web!None)
      /\ UNCHANGED queue \/ WebQueues
  BY WebWorks, WebNumbers, WebSlot, WebMoves DEF WebPlaces, Web!runners, Web!At, Web!Call
<1>2. /\ WebQueues
  BY <1>1 DEF WebQueues, WebQueueType, WebInv, WebTyped
<1>3. WebTyped'
  BY WebNumbers, <1>1, <1>2 DEF WebInv, WebTyped, WebQueueType, WebQueues, WebTurns, Web!None
<1>4. WebNumbered'
  BY WebNumbers, <1>1, <1>2 DEF WebInv, WebNumbered, WebQueues, WebTurns, Web!None
<1>5. WebOpeners'
  BY WebNumbers, <1>1, <1>2 DEF WebInv, WebNumbered, WebOpeners, WebOpening, WebTurns, Web!None
<1>6. WebEnding'
  BY WebNumbers, <1>1, <1>2 DEF WebInv, WebEnding, WebTurns, Web!None
<1>7. WebHeld'
  BY WebNumbers, <1>1, <1>2 DEF WebInv, WebNumbered, WebEnding, WebHeld, WebKept, WebOpening,
     WebTurns, Web!None
<1>8. WebClosing'
  BY WebNumbers, <1>1, <1>2 DEF WebInv, WebNumbered, WebOpeners, WebClosing, WebOpening, WebTurns,
     Web!None
<1> QED BY <1>3, <1>4, <1>5, <1>6, <1>7, <1>8 DEF WebInv

(* A runner starts its driver. *)
LEMMA WebDriverStartsKeeps ==
    ASSUME WebInv, NEW n \in Web!Opens, Web!DriverStarts(n)
    PROVE  WebInv'
<1>1. /\ UNCHANGED <<at, mine, closing, slot, opens, queue, wedged, reaped>>
      /\ queue[n] # <<>> /\ driver[n] = "none"
      /\ \A m \in Web!Opens : driver'[m] = driver[m] \/ (m = n /\ driver'[m] = "up")
      /\ driver' \in [Web!Opens -> {"none", "up", "dead"}]
  BY DEF Web!DriverStarts, Web!callers, Web!Head1, WebInv, WebTyped
<1>2. WebTyped'
  BY WebNumbers, <1>1 DEF WebInv, WebTyped, Web!None
<1>3. WebNumbered'
  BY WebNumbers, <1>1 DEF WebInv, WebNumbered, Web!None
<1>4. WebOpeners'
  BY WebNumbers, <1>1 DEF WebInv, WebNumbered, WebOpeners, WebOpening, Web!None
<1>5. WebEnding'
  BY WebNumbers, <1>1 DEF WebInv, WebEnding, Web!None
<1>6. WebHeld'
  BY WebNumbers, <1>1 DEF WebInv, WebNumbered, WebEnding, WebHeld, WebKept, WebOpening, Web!None
<1>7. WebClosing'
  BY WebNumbers, <1>1 DEF WebInv, WebNumbered, WebOpeners, WebClosing, WebOpening, Web!None
<1> QED BY <1>2, <1>3, <1>4, <1>5, <1>6, <1>7 DEF WebInv

(* A runner has built its browser, or carried out a call. *)
LEMMA WebBuiltKeeps ==
    ASSUME WebInv, NEW n \in Web!Opens, Web!Built(n) \/ Web!Serves(n)
    PROVE  WebInv'
<1>1. /\ UNCHANGED <<mine, closing, slot, opens, wedged, driver, reaped>>
      /\ WebAnswers(n, "building", "place") \/ WebAnswers(n, "calling", "done")
  BY WebAnswering DEF WebPlaces, Web!callers, Web!Head1, Web!Built, Web!Serves
<1>2. WebTyped'
  BY WebNumbers, <1>1 DEF WebInv, WebTyped, WebQueueType, WebQueues, WebAnswers, Web!None
<1>3. WebNumbered'
  BY WebNumbers, <1>1 DEF WebInv, WebNumbered, WebQueues, WebAnswers, Web!None
<1>4. WebOpeners'
  BY WebNumbers, <1>1 DEF WebInv, WebNumbered, WebOpeners, WebOpening, WebAnswers, Web!None
<1>5. WebEnding'
  BY WebNumbers, <1>1 DEF WebInv, WebEnding, WebAnswers, Web!None
<1>6. WebHeld'
  BY WebNumbers, <1>1 DEF WebInv, WebNumbered, WebEnding, WebHeld, WebKept, WebOpening,
     WebAnswers, Web!None
<1>7. WebClosing'
  BY WebNumbers, <1>1 DEF WebInv, WebNumbered, WebOpeners, WebClosing, WebOpening, WebAnswers,
     Web!None
<1> QED BY <1>2, <1>3, <1>4, <1>5, <1>6, <1>7 DEF WebInv

(* A runner has stopped its driver. *)
LEMMA WebFailsKeeps ==
    ASSUME WebInv, NEW n \in Web!Opens, Web!BuildFails(n) \/ Web!Closes(n)
    PROVE  WebInv'
<1>1. /\ UNCHANGED <<mine, closing, slot, opens, wedged, reaped>>
      /\ WebAnswers(n, "building", "abandon") \/ WebAnswers(n, "closing", "end")
  BY WebAnswering DEF WebPlaces, Web!callers, Web!Head1, Web!BuildFails, Web!Closes
<1>2. /\ driver'[n] = "dead" /\ \A m \in Web!Opens : m # n => driver'[m] = driver[m]
      /\ driver' \in [Web!Opens -> {"none", "up", "dead"}]
  BY DEF Web!BuildFails, Web!Closes, WebInv, WebTyped
<1>3. WebTyped'
  BY WebNumbers, <1>1, <1>2 DEF WebInv, WebTyped, WebQueueType, WebQueues, WebAnswers, Web!None
<1>4. WebNumbered'
  BY WebNumbers, <1>1, <1>2 DEF WebInv, WebNumbered, WebQueues, WebAnswers, Web!None
<1>5. WebOpeners'
  BY WebNumbers, <1>1, <1>2 DEF WebInv, WebNumbered, WebOpeners, WebOpening, WebAnswers, Web!None
<1>6. WebEnding'
  BY WebNumbers, <1>1, <1>2 DEF WebInv, WebEnding, WebAnswers, Web!None
<1>7. WebHeld'
  BY WebNumbers, <1>1, <1>2 DEF WebInv, WebNumbered, WebEnding, WebHeld, WebKept, WebOpening,
     WebAnswers, Web!None
<1>8. WebClosing'
  BY WebNumbers, <1>1, <1>2 DEF WebInv, WebNumbered, WebOpeners, WebClosing, WebOpening,
     WebAnswers, Web!None
<1> QED BY <1>3, <1>4, <1>5, <1>6, <1>7, <1>8 DEF WebInv

(* A driver dies. *)
LEMMA WebDriverDiesKeeps ==
    ASSUME WebInv, NEW n \in Web!Opens, Web!DriverDies(n)
    PROVE  WebInv'
<1>1. /\ UNCHANGED <<at, mine, closing, slot, opens, queue, wedged, reaped>>
      /\ driver'[n] = "dead" /\ \A m \in Web!Opens : m # n => driver'[m] = driver[m]
      /\ driver' \in [Web!Opens -> {"none", "up", "dead"}]
  BY DEF Web!DriverDies, Web!callers, WebInv, WebTyped
<1>2. WebTyped'
  BY WebNumbers, <1>1 DEF WebInv, WebTyped, Web!None
<1>3. WebNumbered'
  BY WebNumbers, <1>1 DEF WebInv, WebNumbered, Web!None
<1>4. WebOpeners'
  BY WebNumbers, <1>1 DEF WebInv, WebNumbered, WebOpeners, WebOpening, Web!None
<1>5. WebEnding'
  BY WebNumbers, <1>1 DEF WebInv, WebEnding, Web!None
<1>6. WebHeld'
  BY WebNumbers, <1>1 DEF WebInv, WebNumbered, WebEnding, WebHeld, WebKept, WebOpening, Web!None
<1>7. WebClosing'
  BY WebNumbers, <1>1 DEF WebInv, WebNumbered, WebOpeners, WebClosing, WebOpening, Web!None
<1> QED BY <1>2, <1>3, <1>4, <1>5, <1>6, <1>7 DEF WebInv

(* At the beginning nothing is open and nobody calls.                       *)
LEMMA WebStarts == ASSUME Web!Init PROVE WebInv
<1>1. /\ \A c \in Callers : at[c] = "idle" /\ mine[c] = Web!None
      /\ slot.what = "none" /\ slot.of = Web!None /\ opens = 0 /\ ~closing
      /\ \A n \in Web!Opens : queue[n] = <<>> /\ driver[n] = "none" /\ ~(n <= opens)
  BY DEF Web!Init, Web!Empty, Web!Opens
<1>2. WebTyped
  <2>1. queue = [n \in Web!Opens |-> queue[n]] /\ driver \in [Web!Opens -> {"none", "up", "dead"}]
    BY DEF Web!Init
  <2>2. slot \in [what : {"none", "opening", "live"}, of : Nat]
    BY DEF Web!Init, Web!Empty, Web!None
  <2>3. at \in [Callers -> WebPlaces] /\ mine \in [Callers -> Nat] /\ opens \in Nat
    BY DEF Web!Init, WebPlaces, Web!None
  <2> QED BY <2>1, <2>2, <2>3 DEF WebTyped
<1> QED BY <1>1, <1>2 DEF WebInv, WebNumbered, WebOpeners, WebOpening, WebEnding, WebHeld,
           WebClosing, Web!None

(* Every step keeps the invariant.                                          *)
LEMMA WebStays == ASSUME WebInv, [Web!Next]_Web!vars PROVE WebInv'
<1>1. CASE UNCHANGED Web!vars
  BY <1>1 DEF Web!vars, WebInv, WebTyped, WebNumbered, WebOpeners, WebEnding, WebHeld, WebKept,
     WebClosing
<1>2. ASSUME NEW c \in Callers, Web!Open(c) \/ Web!Use(c) \/ Web!Close(c) \/ Web!CloseSession(c)
             PROVE WebInv'
  BY <1>2, WebBeginKeeps, WebCloseSessionKeeps
<1>3. ASSUME NEW c \in Callers, Web!Step(c) PROVE WebInv'
  BY <1>3, WebReserveKeeps, WebRefuseKeeps, WebGivesUpKeeps, WebAbandonKeeps, WebReapKeeps,
     WebReleaseKeeps,
     WebPlaceKeeps, WebPlaceEndsKeeps, WebRecheckKeeps, WebPopKeeps, WebEndingOfKeeps, WebEndKeeps,
     WebUseKeeps, WebCallKeeps DEF Web!Step
<1>4. ASSUME NEW n \in Web!Opens, Web!Runner(n) \/ Web!DriverDies(n) PROVE WebInv'
  BY <1>4, WebDriverStartsKeeps, WebBuiltKeeps, WebFailsKeeps, WebDriverDiesKeeps DEF Web!Runner
<1> QED BY <1>1, <1>2, <1>3, <1>4 DEF Web!Next

(* What is to be shown of it.                                               *)
LEMMA WebImplies == ASSUME WebInv PROVE Web!DriversHeld /\ Web!ClosedHasNone
<1>1. Web!DriversHeld
  <2> SUFFICES ASSUME NEW n \in Web!Opens, driver[n] = "up", n \notin reaped
               PROVE  slot = [what |-> "live", of |-> n] \/ \E c \in Callers : Web!Holds(c, n)
    BY DEF Web!DriversHeld
  <2>1. WebKept(n)
    BY WebNumbers DEF WebInv, WebNumbered, WebHeld
  <2> QED BY <2>1, WebSlot DEF WebKept, Web!Holds
<1>2. Web!ClosedHasNone
  BY WebSlot DEF WebInv, WebClosing, WebOpening, Web!ClosedHasNone, Web!At
<1> QED BY <1>1, <1>2

(* A driver that runs is the one of the session or of a call that will end  *)
(* it, and a closed session has none (client.py:438, service_web.py:99).    *)
THEOREM WebDriversHeld == Web!Spec => [](Web!DriversHeld /\ Web!ClosedHasNone)
<1>1. Web!Init => WebInv
  BY WebStarts
<1>2. WebInv /\ [Web!Next]_Web!vars => WebInv'
  BY WebStays
<1>3. WebInv => Web!DriversHeld /\ Web!ClosedHasNone
  BY WebImplies
<1> QED BY <1>1, <1>2, <1>3, PTL DEF Web!Spec

-----------------------------------------------------------------------------
(***************************************************************************)
(* The proxy (Proxy)                                                       *)
(*                                                                         *)
(* The invariant numbers the proxies like the drivers of the browser, and  *)
(* follows the thread of each from its start to its end.                   *)
(***************************************************************************)

PrxPlaces == {"idle", "reserve", "probe", "wait", "late", "joinLate", "fail", "recheck", "again",
              "pop", "stop", "join"}
PrxCalling == [for : Sessions \cup {Prx!None}, of : Nat]
PrxThreads == {"none", "begun", "built", "serving", "ending", "gone"}

PrxTyped ==
    /\ at \in [Callers -> PrxPlaces] /\ mine \in [Callers -> PrxCalling]
    /\ closing \subseteq Sessions /\ made \in Nat
    /\ slot \in [Sessions -> Nat] /\ thread \in [Prx!Made -> PrxThreads]

(* An instance whose thread no stop has to wait for any more.               *)
PrxOver(n) == thread[n] \in {"none", "gone"} \/ n \in left

(* Where a call has no instance yet, and a session wherever it is.          *)
PrxPlaced ==
    \A c \in Callers :
        /\ at[c] \in {"idle", "reserve", "pop"} => Prx!Of(c) = Prx!None
        /\ at[c] # "idle" => Prx!For(c) \in Sessions
        /\ Prx!Of(c) <= made

(* Instances are numbered as they are reserved: what is not has no thread.  *)
PrxNumbered ==
    /\ \A s \in Sessions : slot[s] <= made
    /\ \A n \in Prx!Made : made < n => thread[n] = "none"

(* The thread of a start begins once, at its probe.                         *)
PrxBegun ==
    /\ \A c \in Callers : at[c] = "probe" /\ Prx!Of(c) \in Prx!Made =>
          /\ thread[Prx!Of(c)] = "none"
          /\ \A d \in Callers : at[d] \in {"wait", "late", "joinLate", "recheck", "again"}
             => Prx!Of(d) # Prx!Of(c)
          /\ \A d \in Callers : at[d] = "probe" /\ Prx!Of(d) = Prx!Of(c) => c = d
    /\ \A c \in Callers : at[c] \in {"wait", "late", "joinLate", "recheck", "again"}
       /\ Prx!Of(c) \in Prx!Made =>
          thread[Prx!Of(c)] # "none"

(* Whoever is about to leave an instance behind leaves it to its session,   *)
(* to a call that stops it, or nothing is left of it.                       *)
PrxLeaves ==
    \A c \in Callers : at[c] = "again" /\ Prx!Of(c) \in Prx!Made =>
        \/ PrxOver(Prx!Of(c)) \/ slot[Prx!For(c)] = Prx!Of(c)
        \/ \E d \in Callers : at[d] \in {"stop", "join"} /\ Prx!Of(d) = Prx!Of(c)

(* A closing session has an instance only while a call will take it out.    *)
PrxClosing ==
    \A s \in closing : slot[s] # Prx!None =>
        \E c \in Callers : Prx!For(c) = s /\
            \/ at[c] = "pop"
            \/ /\ at[c] \in {"probe", "wait", "late", "joinLate", "fail", "recheck", "again"}
               /\ Prx!Of(c) = slot[s]

PrxInv == PrxTyped /\ PrxPlaced /\ PrxNumbered /\ PrxBegun /\ PrxLeaves /\ PrxClosing
      /\ Prx!ProxiesHeld

(* What a step makes of the caller that takes it.                           *)
PrxTurns(c, place, for, of) ==
    /\ at' \in [Callers -> PrxPlaces] /\ mine' \in [Callers -> PrxCalling]
    /\ at'[c] = place /\ mine'[c].for = for /\ mine'[c].of = of
    /\ \A d \in Callers : d # c => at'[d] = at[d] /\ mine'[d] = mine[d]

(* A call that goes on, or returns, does so alone.                          *)
LEMMA PrxMoves ==
    ASSUME PrxInv, NEW c \in Callers
    PROVE  /\ Prx!Done(c) => PrxTurns(c, "idle", Prx!None, Prx!None)
           /\ \A place \in PrxPlaces :
                 /\ Prx!GoTo(c, place) /\ UNCHANGED mine
                    => PrxTurns(c, place, Prx!For(c), Prx!Of(c))
                 /\ \A s \in Sessions : Prx!GoTo(c, place) /\ mine' = [mine EXCEPT ![c].for = s] =>
                        PrxTurns(c, place, s, Prx!Of(c))
                 /\ \A n \in Nat : Prx!GoTo(c, place) /\ mine' = [mine EXCEPT ![c].of = n] =>
                        PrxTurns(c, place, Prx!For(c), n)
<1>1. /\ at \in [Callers -> PrxPlaces] /\ mine \in [Callers -> PrxCalling] /\ mine[c] \in PrxCalling
  BY DEF PrxInv, PrxTyped
<1>2. ASSUME NEW place \in PrxPlaces, Prx!GoTo(c, place), NEW r \in PrxCalling,
             mine' = [mine EXCEPT ![c] = r]
      PROVE  PrxTurns(c, place, r.for, r.of)
  BY <1>1, <1>2 DEF Prx!GoTo, PrxTurns
<1>3. Prx!Done(c) => PrxTurns(c, "idle", Prx!None, Prx!None)
  <2>1. Prx!Idle \in PrxCalling /\ Prx!Idle.for = Prx!None /\ Prx!Idle.of = Prx!None
        /\ "idle" \in PrxPlaces
    BY DEF Prx!Idle, PrxCalling, Prx!None, PrxPlaces
  <2> QED BY <1>2, <2>1 DEF Prx!Done
<1>4. ASSUME NEW place \in PrxPlaces, Prx!GoTo(c, place), UNCHANGED mine
      PROVE  PrxTurns(c, place, Prx!For(c), Prx!Of(c))
  BY <1>1, <1>4 DEF Prx!GoTo, PrxTurns, Prx!For, Prx!Of
<1>5. ASSUME NEW place \in PrxPlaces, NEW s \in Sessions, Prx!GoTo(c, place),
             mine' = [mine EXCEPT ![c].for = s]
      PROVE  PrxTurns(c, place, s, Prx!Of(c))
  <2> DEFINE r == [mine[c] EXCEPT !.for = s]
  <2>1. r \in PrxCalling /\ r.for = s /\ r.of = Prx!Of(c)
    BY <1>1 DEF PrxCalling, Prx!Of
  <2>2. mine' = [mine EXCEPT ![c] = r]
    BY <1>5
  <2> HIDE DEF r
  <2> QED BY <1>2, <1>5, <2>1, <2>2
<1>6. ASSUME NEW place \in PrxPlaces, NEW n \in Nat, Prx!GoTo(c, place),
             mine' = [mine EXCEPT ![c].of = n]
      PROVE  PrxTurns(c, place, Prx!For(c), n)
  <2> DEFINE r == [mine[c] EXCEPT !.of = n]
  <2>1. r \in PrxCalling /\ r.for = Prx!For(c) /\ r.of = n
    BY <1>1 DEF PrxCalling, Prx!For
  <2>2. mine' = [mine EXCEPT ![c] = r]
    BY <1>6
  <2> HIDE DEF r
  <2> QED BY <1>2, <1>6, <2>1, <2>2
<1> QED BY <1>3, <1>4, <1>5, <1>6

(* The numbers of instances.                                                *)
LEMMA PrxNumbers ==
    ASSUME PrxInv
    PROVE  /\ \A c \in Callers : Prx!Of(c) \in Nat
           /\ \A s \in Sessions : slot[s] \in Nat
           /\ made \in Nat /\ made + 1 \in Nat
           /\ \A n \in Prx!Made : n \in Nat /\ n # Prx!None
  BY DEF PrxInv, PrxTyped, PrxCalling, Prx!Of, Prx!Made, Prx!None
(* A start or a stop begins. *)
LEMMA PrxStartKeeps ==
    ASSUME PrxInv, NEW c \in Callers, NEW s \in Sessions, Prx!Start(c, s) \/ Prx!Stop(c, s)
    PROVE  PrxInv'
<1>1. /\ at[c] = "idle"
      /\ UNCHANGED <<closing, slot, made, thread, left>>
      /\ PrxTurns(c, "reserve", s, Prx!Of(c)) \/ PrxTurns(c, "pop", s, Prx!Of(c))
  BY PrxMoves DEF PrxPlaces, Prx!proxies, Prx!At, Prx!Start, Prx!Stop, Prx!Begin, Prx!Counted
<1>2. PrxTyped'
  BY PrxNumbers, <1>1 DEF PrxInv, PrxTyped, PrxTurns, Prx!For, Prx!Of, Prx!None, PrxThreads
<1>3. PrxPlaced'
  BY PrxNumbers, <1>1 DEF PrxInv, PrxPlaced, PrxTurns, Prx!For, Prx!Of, Prx!None
<1>4. PrxNumbered'
  BY PrxNumbers, <1>1 DEF PrxInv, PrxTyped, PrxPlaced, PrxNumbered, Prx!Made, PrxTurns, Prx!For,
     Prx!Of, Prx!None
<1>5. PrxBegun'
  BY PrxNumbers, <1>1 DEF PrxInv, PrxTyped, PrxPlaced, PrxNumbered, PrxBegun, PrxTurns, Prx!For,
     Prx!Of, Prx!None
<1>6. PrxLeaves'
  BY PrxNumbers, <1>1 DEF PrxInv, PrxTyped, PrxPlaced, PrxBegun, PrxLeaves, PrxOver, PrxTurns,
     Prx!For, Prx!Of, Prx!None
<1>7. PrxClosing'
  BY PrxNumbers, <1>1 DEF PrxInv, PrxTyped, PrxPlaced, PrxClosing, PrxTurns, Prx!For, Prx!Of,
     Prx!None
<1>8. Prx!ProxiesHeld'
  BY PrxNumbers, <1>1 DEF PrxInv, PrxTyped, PrxPlaced, PrxNumbered, PrxBegun, PrxLeaves,
     Prx!ProxiesHeld, PrxOver, PrxTurns, Prx!For, Prx!Of, Prx!None
<1> QED BY <1>2, <1>3, <1>4, <1>5, <1>6, <1>7, <1>8 DEF PrxInv

(* A session closes. *)
LEMMA PrxCloseKeeps ==
    ASSUME PrxInv, NEW c \in Callers, NEW s \in Sessions, Prx!Close(c, s)
    PROVE  PrxInv'
<1>1. /\ at[c] = "idle" /\ closing' = closing \cup {s}
      /\ UNCHANGED <<slot, made, thread, left>>
      /\ PrxTurns(c, "pop", s, Prx!Of(c))
  BY PrxMoves DEF PrxPlaces, Prx!proxies, Prx!At, Prx!Close, Prx!Begin
<1>2. PrxTyped'
  BY PrxNumbers, <1>1 DEF PrxInv, PrxTyped, PrxTurns, Prx!For, Prx!Of, Prx!None, PrxThreads
<1>3. PrxPlaced'
  BY PrxNumbers, <1>1 DEF PrxInv, PrxPlaced, PrxTurns, Prx!For, Prx!Of, Prx!None
<1>4. PrxNumbered'
  BY PrxNumbers, <1>1 DEF PrxInv, PrxTyped, PrxPlaced, PrxNumbered, Prx!Made, PrxTurns, Prx!For,
     Prx!Of, Prx!None
<1>5. PrxBegun'
  BY PrxNumbers, <1>1 DEF PrxInv, PrxTyped, PrxPlaced, PrxNumbered, PrxBegun, PrxTurns, Prx!For,
     Prx!Of, Prx!None
<1>6. PrxLeaves'
  BY PrxNumbers, <1>1 DEF PrxInv, PrxTyped, PrxPlaced, PrxBegun, PrxLeaves, PrxOver, PrxTurns,
     Prx!For, Prx!Of, Prx!None
<1>7. PrxClosing'
  BY PrxNumbers, <1>1 DEF PrxInv, PrxTyped, PrxPlaced, PrxClosing, PrxTurns, Prx!For, Prx!Of,
     Prx!None
<1>8. Prx!ProxiesHeld'
  BY PrxNumbers, <1>1 DEF PrxInv, PrxTyped, PrxPlaced, PrxNumbered, PrxBegun, PrxLeaves,
     Prx!ProxiesHeld, PrxOver, PrxTurns, Prx!For, Prx!Of, Prx!None
<1> QED BY <1>2, <1>3, <1>4, <1>5, <1>6, <1>7, <1>8 DEF PrxInv

(* A start reserves the next instance. *)
LEMMA PrxReserveKeeps ==
    ASSUME PrxInv, NEW c \in Callers, Prx!Reserve(c), made' # made
    PROVE  PrxInv'
<1>1. /\ at[c] = "reserve" /\ \A s \in Sessions : slot[s] = Prx!None
      /\ made' = made + 1 /\ slot' = [slot EXCEPT ![Prx!For(c)] = made + 1]
         /\ mine' = [mine EXCEPT ![c].of = made + 1] /\ Prx!GoTo(c, "probe")
      /\ UNCHANGED <<closing, thread, left>>
  BY DEF Prx!Reserve, Prx!proxies, Prx!At
<1>2. /\ PrxTurns(c, "probe", Prx!For(c), made')
      /\ made' = made + 1 /\ made' \in Nat
      /\ Prx!For(c) \in Sessions
      /\ slot' \in [Sessions -> Nat] /\ slot'[Prx!For(c)] = made'
      /\ \A s \in Sessions : s # Prx!For(c) => slot'[s] = slot[s]
  BY <1>1, PrxNumbers, PrxMoves DEF PrxPlaces, PrxInv, PrxTyped, PrxPlaced
<1>3. PrxTyped'
  BY PrxNumbers, <1>1, <1>2 DEF PrxInv, PrxTyped, PrxTurns, Prx!For, Prx!Of, Prx!None, PrxThreads
<1>4. PrxPlaced'
  BY PrxNumbers, <1>1, <1>2 DEF PrxInv, PrxPlaced, PrxTurns, Prx!For, Prx!Of, Prx!None
<1>5. PrxNumbered'
  BY PrxNumbers, <1>1, <1>2 DEF PrxInv, PrxTyped, PrxPlaced, PrxNumbered, Prx!Made, PrxTurns,
     Prx!For, Prx!Of, Prx!None
<1>6. PrxBegun'
  BY PrxNumbers, <1>1, <1>2 DEF PrxInv, PrxTyped, PrxPlaced, PrxNumbered, PrxBegun, PrxTurns,
     Prx!For, Prx!Of, Prx!None
<1>7. PrxLeaves'
  BY PrxNumbers, <1>1, <1>2 DEF PrxInv, PrxTyped, PrxPlaced, PrxBegun, PrxLeaves, PrxOver,
     PrxTurns, Prx!For, Prx!Of, Prx!None
<1>8. PrxClosing'
  BY PrxNumbers, <1>1, <1>2 DEF PrxInv, PrxTyped, PrxPlaced, PrxClosing, PrxTurns, Prx!For,
     Prx!Of, Prx!None
<1>9. Prx!ProxiesHeld'
  BY PrxNumbers, <1>1, <1>2 DEF PrxInv, PrxTyped, PrxPlaced, PrxNumbered, PrxBegun, PrxLeaves,
     Prx!ProxiesHeld, PrxOver, PrxTurns, Prx!For, Prx!Of, Prx!None
<1> QED BY <1>3, <1>4, <1>5, <1>6, <1>7, <1>8, <1>9 DEF PrxInv

(* A start finds an instance reserved. *)
LEMMA PrxRefuseKeeps ==
    ASSUME PrxInv, NEW c \in Callers, Prx!Reserve(c), made' = made
    PROVE  PrxInv'
<1>1. /\ at[c] = "reserve"
      /\ UNCHANGED <<closing, slot, made, thread, left>>
      /\ PrxTurns(c, "idle", Prx!None, Prx!None)
  BY PrxNumbers, PrxMoves DEF PrxPlaces, Prx!proxies, Prx!At, Prx!Reserve
<1>2. PrxTyped'
  BY PrxNumbers, <1>1 DEF PrxInv, PrxTyped, PrxTurns, Prx!For, Prx!Of, Prx!None, PrxThreads
<1>3. PrxPlaced'
  BY PrxNumbers, <1>1 DEF PrxInv, PrxPlaced, PrxTurns, Prx!For, Prx!Of, Prx!None
<1>4. PrxNumbered'
  BY PrxNumbers, <1>1 DEF PrxInv, PrxTyped, PrxPlaced, PrxNumbered, Prx!Made, PrxTurns, Prx!For,
     Prx!Of, Prx!None
<1>5. PrxBegun'
  BY PrxNumbers, <1>1 DEF PrxInv, PrxTyped, PrxPlaced, PrxNumbered, PrxBegun, PrxTurns, Prx!For,
     Prx!Of, Prx!None
<1>6. PrxLeaves'
  BY PrxNumbers, <1>1 DEF PrxInv, PrxTyped, PrxPlaced, PrxBegun, PrxLeaves, PrxOver, PrxTurns,
     Prx!For, Prx!Of, Prx!None
<1>7. PrxClosing'
  BY PrxNumbers, <1>1 DEF PrxInv, PrxTyped, PrxPlaced, PrxClosing, PrxTurns, Prx!For, Prx!Of,
     Prx!None
<1>8. Prx!ProxiesHeld'
  BY PrxNumbers, <1>1 DEF PrxInv, PrxTyped, PrxPlaced, PrxNumbered, PrxBegun, PrxLeaves,
     Prx!ProxiesHeld, PrxOver, PrxTurns, Prx!For, Prx!Of, Prx!None
<1> QED BY <1>2, <1>3, <1>4, <1>5, <1>6, <1>7, <1>8 DEF PrxInv

(* The port is taken. *)
LEMMA PrxProbeFailsKeeps ==
    ASSUME PrxInv, NEW c \in Callers, Prx!Probe(c), port # Prx!None
    PROVE  PrxInv'
<1>1. /\ at[c] = "probe"
      /\ UNCHANGED <<closing, slot, made, thread, left>>
      /\ PrxTurns(c, "fail", Prx!For(c), Prx!Of(c))
  BY PrxMoves DEF PrxPlaces, Prx!proxies, Prx!At, Prx!Probe
<1>2. PrxTyped'
  BY PrxNumbers, <1>1 DEF PrxInv, PrxTyped, PrxTurns, Prx!For, Prx!Of, Prx!None, PrxThreads
<1>3. PrxPlaced'
  BY PrxNumbers, <1>1 DEF PrxInv, PrxPlaced, PrxTurns, Prx!For, Prx!Of, Prx!None
<1>4. PrxNumbered'
  BY PrxNumbers, <1>1 DEF PrxInv, PrxTyped, PrxPlaced, PrxNumbered, Prx!Made, PrxTurns, Prx!For,
     Prx!Of, Prx!None
<1>5. PrxBegun'
  BY PrxNumbers, <1>1 DEF PrxInv, PrxTyped, PrxPlaced, PrxNumbered, PrxBegun, PrxTurns, Prx!For,
     Prx!Of, Prx!None
<1>6. PrxLeaves'
  BY PrxNumbers, <1>1 DEF PrxInv, PrxTyped, PrxPlaced, PrxBegun, PrxLeaves, PrxOver, PrxTurns,
     Prx!For, Prx!Of, Prx!None
<1>7. PrxClosing'
  BY PrxNumbers, <1>1 DEF PrxInv, PrxTyped, PrxPlaced, PrxClosing, PrxTurns, Prx!For, Prx!Of,
     Prx!None
<1>8. Prx!ProxiesHeld'
  BY PrxNumbers, <1>1 DEF PrxInv, PrxTyped, PrxPlaced, PrxNumbered, PrxBegun, PrxLeaves,
     Prx!ProxiesHeld, PrxOver, PrxTurns, Prx!For, Prx!Of, Prx!None
<1> QED BY <1>2, <1>3, <1>4, <1>5, <1>6, <1>7, <1>8 DEF PrxInv

(* The thread begins. *)
LEMMA PrxProbeKeeps ==
    ASSUME PrxInv, NEW c \in Callers, Prx!Probe(c), port = Prx!None
    PROVE  PrxInv'
<1>1. /\ at[c] = "probe"
      /\ thread' = [thread EXCEPT ![Prx!Of(c)] = "begun"]
      /\ UNCHANGED <<closing, slot, made, left>>
      /\ PrxTurns(c, "wait", Prx!For(c), Prx!Of(c))
  BY PrxMoves DEF PrxPlaces, Prx!proxies, Prx!At, Prx!Probe
<1>2. /\ thread' \in [Prx!Made -> PrxThreads]
         /\ (Prx!Of(c) \in Prx!Made => thread'[Prx!Of(c)] = "begun")
      /\ \A n \in Prx!Made : n # Prx!Of(c) => thread'[n] = thread[n]
  BY <1>1 DEF PrxInv, PrxTyped, PrxThreads
<1>3. PrxTyped'
  BY PrxNumbers, <1>1, <1>2 DEF PrxInv, PrxTyped, PrxTurns, Prx!For, Prx!Of, Prx!None, PrxThreads
<1>4. PrxPlaced'
  BY PrxNumbers, <1>1, <1>2 DEF PrxInv, PrxPlaced, PrxTurns, Prx!For, Prx!Of, Prx!None
<1>5. PrxNumbered'
  BY PrxNumbers, <1>1, <1>2 DEF PrxInv, PrxTyped, PrxPlaced, PrxNumbered, Prx!Made, PrxTurns,
     Prx!For, Prx!Of, Prx!None
<1>6. PrxBegun'
  BY PrxNumbers, <1>1, <1>2 DEF PrxInv, PrxTyped, PrxPlaced, PrxNumbered, PrxBegun, PrxTurns,
     Prx!For, Prx!Of, Prx!None
<1>7. PrxLeaves'
  BY PrxNumbers, <1>1, <1>2 DEF PrxInv, PrxTyped, PrxPlaced, PrxBegun, PrxLeaves, PrxOver,
     PrxTurns, Prx!For, Prx!Of, Prx!None
<1>8. PrxClosing'
  BY PrxNumbers, <1>1, <1>2 DEF PrxInv, PrxTyped, PrxPlaced, PrxClosing, PrxTurns, Prx!For,
     Prx!Of, Prx!None
<1>9. Prx!ProxiesHeld'
  BY PrxNumbers, <1>1, <1>2 DEF PrxInv, PrxTyped, PrxPlaced, PrxNumbered, PrxBegun, PrxLeaves,
     Prx!ProxiesHeld, PrxOver, PrxTurns, Prx!For, Prx!Of, Prx!None
<1> QED BY <1>3, <1>4, <1>5, <1>6, <1>7, <1>8, <1>9 DEF PrxInv

(* The wait for the port ends. *)
LEMMA PrxWaitedKeeps ==
    ASSUME PrxInv, NEW c \in Callers, Prx!Waited(c)
    PROVE  PrxInv'
<1>1. /\ at[c] = "wait"
      /\ UNCHANGED <<closing, slot, made, thread, left>>
      /\ PrxTurns(c, "recheck", Prx!For(c), Prx!Of(c)) \/ PrxTurns(c, "fail", Prx!For(c),
         Prx!Of(c)) \/ PrxTurns(c, "late", Prx!For(c), Prx!Of(c))
  BY PrxMoves DEF PrxPlaces, Prx!proxies, Prx!At, Prx!Waited
<1>2. PrxTyped'
  BY PrxNumbers, <1>1 DEF PrxInv, PrxTyped, PrxTurns, Prx!For, Prx!Of, Prx!None, PrxThreads
<1>3. PrxPlaced'
  BY PrxNumbers, <1>1 DEF PrxInv, PrxPlaced, PrxTurns, Prx!For, Prx!Of, Prx!None
<1>4. PrxNumbered'
  BY PrxNumbers, <1>1 DEF PrxInv, PrxTyped, PrxPlaced, PrxNumbered, Prx!Made, PrxTurns, Prx!For,
     Prx!Of, Prx!None
<1>5. PrxBegun'
  BY PrxNumbers, <1>1 DEF PrxInv, PrxTyped, PrxPlaced, PrxNumbered, PrxBegun, PrxTurns, Prx!For,
     Prx!Of, Prx!None
<1>6. PrxLeaves'
  BY PrxNumbers, <1>1 DEF PrxInv, PrxTyped, PrxPlaced, PrxBegun, PrxLeaves, PrxOver, PrxTurns,
     Prx!For, Prx!Of, Prx!None
<1>7. PrxClosing'
  BY PrxNumbers, <1>1 DEF PrxInv, PrxTyped, PrxPlaced, PrxClosing, PrxTurns, Prx!For, Prx!Of,
     Prx!None
<1>8. Prx!ProxiesHeld'
  BY PrxNumbers, <1>1 DEF PrxInv, PrxTyped, PrxPlaced, PrxNumbered, PrxBegun, PrxLeaves,
     Prx!ProxiesHeld, PrxOver, PrxTurns, Prx!For, Prx!Of, Prx!None
<1> QED BY <1>2, <1>3, <1>4, <1>5, <1>6, <1>7, <1>8 DEF PrxInv

(* A start that fails drops its reservation. *)
LEMMA PrxFailKeeps ==
    ASSUME PrxInv, NEW c \in Callers, Prx!Fail(c)
    PROVE  PrxInv'
<1>1. /\ at[c] = "fail"
      /\ UNCHANGED <<closing, made, thread, left>>
      /\ PrxTurns(c, "stop", Prx!For(c), Prx!Of(c))
      /\ slot' = IF slot[Prx!For(c)] = Prx!Of(c) THEN [slot EXCEPT ![Prx!For(c)] = Prx!None] ELSE slot
  BY PrxMoves DEF PrxPlaces, Prx!proxies, Prx!At, Prx!Fail
<1>2. /\ Prx!For(c) \in Sessions
      /\ slot' \in [Sessions -> Nat]
         /\ \A s \in Sessions : slot'[s] = slot[s] \/ (s = Prx!For(c) /\ slot[s] = Prx!Of(c)
         /\ slot'[s] = Prx!None)
      /\ slot[Prx!For(c)] = Prx!Of(c) => slot'[Prx!For(c)] = Prx!None
  BY <1>1 DEF PrxInv, PrxTyped, PrxPlaced, Prx!None
<1>3. PrxTyped'
  BY PrxNumbers, <1>1, <1>2 DEF PrxInv, PrxTyped, PrxTurns, Prx!For, Prx!Of, Prx!None, PrxThreads
<1>4. PrxPlaced'
  BY PrxNumbers, <1>1, <1>2 DEF PrxInv, PrxPlaced, PrxTurns, Prx!For, Prx!Of, Prx!None
<1>5. PrxNumbered'
  BY PrxNumbers, <1>1, <1>2 DEF PrxInv, PrxTyped, PrxPlaced, PrxNumbered, Prx!Made, PrxTurns,
     Prx!For, Prx!Of, Prx!None
<1>6. PrxBegun'
  BY PrxNumbers, <1>1, <1>2 DEF PrxInv, PrxTyped, PrxPlaced, PrxNumbered, PrxBegun, PrxTurns,
     Prx!For, Prx!Of, Prx!None
<1>7. PrxLeaves'
  BY PrxNumbers, <1>1, <1>2 DEF PrxInv, PrxTyped, PrxPlaced, PrxBegun, PrxLeaves, PrxOver,
     PrxTurns, Prx!For, Prx!Of, Prx!None
<1>8. PrxClosing'
  BY PrxNumbers, <1>1, <1>2 DEF PrxInv, PrxTyped, PrxPlaced, PrxClosing, PrxTurns, Prx!For,
     Prx!Of, Prx!None
<1>9. Prx!ProxiesHeld'
  BY PrxNumbers, <1>1, <1>2 DEF PrxInv, PrxTyped, PrxPlaced, PrxNumbered, PrxBegun, PrxLeaves,
     Prx!ProxiesHeld, PrxOver, PrxTurns, Prx!For, Prx!Of, Prx!None
<1> QED BY <1>3, <1>4, <1>5, <1>6, <1>7, <1>8, <1>9 DEF PrxInv

(* A start looks at its reservation again. *)
LEMMA PrxRecheckKeeps ==
    ASSUME PrxInv, NEW c \in Callers, Prx!Recheck(c)
    PROVE  PrxInv'
<1>1. /\ at[c] = "recheck"
      /\ UNCHANGED <<closing, slot, made, thread, left>>
      /\ (PrxTurns(c, "again", Prx!For(c), Prx!Of(c))
         /\ slot[Prx!For(c)] = Prx!Of(c)) \/ (PrxTurns(c, "stop", Prx!For(c), Prx!Of(c))
         /\ slot[Prx!For(c)] # Prx!Of(c))
  BY PrxMoves DEF PrxPlaces, Prx!proxies, Prx!At, Prx!Recheck, Prx!StillReserved
<1>2. PrxTyped'
  BY PrxNumbers, <1>1 DEF PrxInv, PrxTyped, PrxTurns, Prx!For, Prx!Of, Prx!None, PrxThreads
<1>3. PrxPlaced'
  BY PrxNumbers, <1>1 DEF PrxInv, PrxPlaced, PrxTurns, Prx!For, Prx!Of, Prx!None
<1>4. PrxNumbered'
  BY PrxNumbers, <1>1 DEF PrxInv, PrxTyped, PrxPlaced, PrxNumbered, Prx!Made, PrxTurns, Prx!For,
     Prx!Of, Prx!None
<1>5. PrxBegun'
  BY PrxNumbers, <1>1 DEF PrxInv, PrxTyped, PrxPlaced, PrxNumbered, PrxBegun, PrxTurns, Prx!For,
     Prx!Of, Prx!None
<1>6. PrxLeaves'
  BY PrxNumbers, <1>1 DEF PrxInv, PrxTyped, PrxPlaced, PrxBegun, PrxLeaves, PrxOver, PrxTurns,
     Prx!For, Prx!Of, Prx!None
<1>7. PrxClosing'
  BY PrxNumbers, <1>1 DEF PrxInv, PrxTyped, PrxPlaced, PrxClosing, PrxTurns, Prx!For, Prx!Of,
     Prx!None
<1>8. Prx!ProxiesHeld'
  BY PrxNumbers, <1>1 DEF PrxInv, PrxTyped, PrxPlaced, PrxNumbered, PrxBegun, PrxLeaves,
     Prx!ProxiesHeld, PrxOver, PrxTurns, Prx!For, Prx!Of, Prx!None
<1> QED BY <1>2, <1>3, <1>4, <1>5, <1>6, <1>7, <1>8 DEF PrxInv

(* A start looks at its session again. *)
LEMMA PrxAgainKeeps ==
    ASSUME PrxInv, NEW c \in Callers, Prx!Again(c)
    PROVE  PrxInv'
<1>1. /\ at[c] = "again"
      /\ UNCHANGED <<closing, slot, made, thread, left>>
      /\ (PrxTurns(c, "pop", Prx!For(c), Prx!None)) \/ (PrxTurns(c, "idle", Prx!None, Prx!None)
         /\ Prx!For(c) \notin closing)
  BY PrxMoves DEF PrxPlaces, Prx!proxies, Prx!At, Prx!Again, Prx!None
<1>2. PrxTyped'
  BY PrxNumbers, <1>1 DEF PrxInv, PrxTyped, PrxTurns, Prx!For, Prx!Of, Prx!None, PrxThreads
<1>3. PrxPlaced'
  BY PrxNumbers, <1>1 DEF PrxInv, PrxPlaced, PrxTurns, Prx!For, Prx!Of, Prx!None
<1>4. PrxNumbered'
  BY PrxNumbers, <1>1 DEF PrxInv, PrxTyped, PrxPlaced, PrxNumbered, Prx!Made, PrxTurns, Prx!For,
     Prx!Of, Prx!None
<1>5. PrxBegun'
  BY PrxNumbers, <1>1 DEF PrxInv, PrxTyped, PrxPlaced, PrxNumbered, PrxBegun, PrxTurns, Prx!For,
     Prx!Of, Prx!None
<1>6. PrxLeaves'
  BY PrxNumbers, <1>1 DEF PrxInv, PrxTyped, PrxPlaced, PrxBegun, PrxLeaves, PrxOver, PrxTurns,
     Prx!For, Prx!Of, Prx!None
<1>7. PrxClosing'
  BY PrxNumbers, <1>1 DEF PrxInv, PrxTyped, PrxPlaced, PrxClosing, PrxTurns, Prx!For, Prx!Of,
     Prx!None
<1>8. Prx!ProxiesHeld'
  BY PrxNumbers, <1>1 DEF PrxInv, PrxTyped, PrxPlaced, PrxNumbered, PrxBegun, PrxLeaves,
     Prx!ProxiesHeld, PrxOver, PrxTurns, Prx!For, Prx!Of, Prx!None
<1> QED BY <1>2, <1>3, <1>4, <1>5, <1>6, <1>7, <1>8 DEF PrxInv

(* A stop takes the instance of its session out. *)
LEMMA PrxPopKeeps ==
    ASSUME PrxInv, NEW c \in Callers, Prx!Pop(c)
    PROVE  PrxInv'
<1>1. /\ at[c] = "pop" /\ Prx!For(c) \in Sessions
      /\ UNCHANGED <<closing, made, thread, left>>
      /\ slot' = [slot EXCEPT ![Prx!For(c)] = Prx!None]
      /\ PrxTurns(c, "stop", Prx!For(c),
         slot[Prx!For(c)]) \/ (PrxTurns(c, "idle", Prx!None, Prx!None)
         /\ slot[Prx!For(c)] = Prx!None)
  BY PrxNumbers, PrxMoves DEF PrxPlaces, Prx!proxies, Prx!At, Prx!Pop, PrxInv, PrxPlaced
<1>2. /\ slot' \in [Sessions -> Nat] /\ slot'[Prx!For(c)] = Prx!None
         /\ \A s \in Sessions : s # Prx!For(c) => slot'[s] = slot[s]
  BY <1>1 DEF PrxInv, PrxTyped, Prx!None
<1>3. PrxTyped'
  BY PrxNumbers, <1>1, <1>2 DEF PrxInv, PrxTyped, PrxTurns, Prx!For, Prx!Of, Prx!None, PrxThreads
<1>4. PrxPlaced'
  BY PrxNumbers, <1>1, <1>2 DEF PrxInv, PrxPlaced, PrxTurns, Prx!For, Prx!Of, Prx!None, PrxNumbered
<1>5. PrxNumbered'
  BY PrxNumbers, <1>1, <1>2 DEF PrxInv, PrxTyped, PrxPlaced, PrxNumbered, Prx!Made, PrxTurns,
     Prx!For, Prx!Of, Prx!None
<1>6. PrxBegun'
  BY PrxNumbers, <1>1, <1>2 DEF PrxInv, PrxTyped, PrxPlaced, PrxNumbered, PrxBegun, PrxTurns,
     Prx!For, Prx!Of, Prx!None
<1>7. PrxLeaves'
  BY PrxNumbers, <1>1, <1>2 DEF PrxInv, PrxTyped, PrxPlaced, PrxBegun, PrxLeaves, PrxOver,
     PrxTurns, Prx!For, Prx!Of, Prx!None
<1>8. PrxClosing'
  BY PrxNumbers, <1>1, <1>2 DEF PrxInv, PrxTyped, PrxPlaced, PrxClosing, PrxTurns, Prx!For,
     Prx!Of, Prx!None
<1>9. Prx!ProxiesHeld'
  BY PrxNumbers, <1>1, <1>2 DEF PrxInv, PrxTyped, PrxPlaced, PrxNumbered, PrxBegun, PrxLeaves,
     Prx!ProxiesHeld, PrxOver, PrxTurns, Prx!For, Prx!Of, Prx!None
<1> QED BY <1>3, <1>4, <1>5, <1>6, <1>7, <1>8, <1>9 DEF PrxInv

(* A stop drains the servers. *)
LEMMA PrxDrainKeeps ==
    ASSUME PrxInv, NEW c \in Callers, Prx!StopInstance(c) \/ Prx!StopLate(c)
    PROVE  PrxInv'
<1>1. /\ UNCHANGED <<closing, slot, made, thread, left>>
      /\ (at[c] = "stop" /\ PrxTurns(c, "join", Prx!For(c), Prx!Of(c))) \/ (at[c] = "late"
         /\ PrxTurns(c, "joinLate", Prx!For(c), Prx!Of(c)))
  BY PrxMoves DEF PrxPlaces, Prx!proxies, Prx!At, Prx!StopInstance, Prx!StopLate, Prx!Drain
<1>2. PrxTyped'
  BY PrxNumbers, <1>1 DEF PrxInv, PrxTyped, PrxTurns, Prx!For, Prx!Of, Prx!None, PrxThreads
<1>3. PrxPlaced'
  BY PrxNumbers, <1>1 DEF PrxInv, PrxPlaced, PrxTurns, Prx!For, Prx!Of, Prx!None
<1>4. PrxNumbered'
  BY PrxNumbers, <1>1 DEF PrxInv, PrxTyped, PrxPlaced, PrxNumbered, Prx!Made, PrxTurns, Prx!For,
     Prx!Of, Prx!None
<1>5. PrxBegun'
  BY PrxNumbers, <1>1 DEF PrxInv, PrxTyped, PrxPlaced, PrxNumbered, PrxBegun, PrxTurns, Prx!For,
     Prx!Of, Prx!None
<1>6. PrxLeaves'
  BY PrxNumbers, <1>1 DEF PrxInv, PrxTyped, PrxPlaced, PrxBegun, PrxLeaves, PrxOver, PrxTurns,
     Prx!For, Prx!Of, Prx!None
<1>7. PrxClosing'
  BY PrxNumbers, <1>1 DEF PrxInv, PrxTyped, PrxPlaced, PrxClosing, PrxTurns, Prx!For, Prx!Of,
     Prx!None
<1>8. Prx!ProxiesHeld'
  BY PrxNumbers, <1>1 DEF PrxInv, PrxTyped, PrxPlaced, PrxNumbered, PrxBegun, PrxLeaves,
     Prx!ProxiesHeld, PrxOver, PrxTurns, Prx!For, Prx!Of, Prx!None
<1> QED BY <1>2, <1>3, <1>4, <1>5, <1>6, <1>7, <1>8 DEF PrxInv

(* The wait for a thread ends. *)
LEMMA PrxJoinKeeps ==
    ASSUME PrxInv, NEW c \in Callers, Prx!Join(c) \/ Prx!JoinLate(c)
    PROVE  PrxInv'
<1>1. /\ UNCHANGED <<closing, slot, made, thread>>
      /\ (at[c] = "join" /\ PrxTurns(c, "idle", Prx!None, Prx!None)) \/ (at[c] = "joinLate"
         /\ PrxTurns(c, "fail", Prx!For(c), Prx!Of(c)))
      /\ left \subseteq left' /\ (thread[Prx!Of(c)] \in {"none", "gone"} \/ Prx!Of(c) \in left')
  BY PrxMoves DEF PrxPlaces, Prx!proxies, Prx!At, Prx!Join, Prx!JoinLate, Prx!Joined
<1>2. PrxTyped'
  BY PrxNumbers, <1>1 DEF PrxInv, PrxTyped, PrxTurns, Prx!For, Prx!Of, Prx!None, PrxThreads
<1>3. PrxPlaced'
  BY PrxNumbers, <1>1 DEF PrxInv, PrxPlaced, PrxTurns, Prx!For, Prx!Of, Prx!None
<1>4. PrxNumbered'
  BY PrxNumbers, <1>1 DEF PrxInv, PrxTyped, PrxPlaced, PrxNumbered, Prx!Made, PrxTurns, Prx!For,
     Prx!Of, Prx!None
<1>5. PrxBegun'
  BY PrxNumbers, <1>1 DEF PrxInv, PrxTyped, PrxPlaced, PrxNumbered, PrxBegun, PrxTurns, Prx!For,
     Prx!Of, Prx!None
<1>6. PrxLeaves'
  BY PrxNumbers, <1>1 DEF PrxInv, PrxTyped, PrxPlaced, PrxBegun, PrxLeaves, PrxOver, PrxTurns,
     Prx!For, Prx!Of, Prx!None
<1>7. PrxClosing'
  BY PrxNumbers, <1>1 DEF PrxInv, PrxTyped, PrxPlaced, PrxClosing, PrxTurns, Prx!For, Prx!Of,
     Prx!None
<1>8. Prx!ProxiesHeld'
  BY PrxNumbers, <1>1 DEF PrxInv, PrxTyped, PrxPlaced, PrxNumbered, PrxBegun, PrxLeaves,
     Prx!ProxiesHeld, PrxOver, PrxTurns, Prx!For, Prx!Of, Prx!None
<1> QED BY <1>2, <1>3, <1>4, <1>5, <1>6, <1>7, <1>8 DEF PrxInv

(* A thread goes on. *)
LEMMA PrxThreadKeeps ==
    ASSUME PrxInv, NEW n \in Prx!Made,
           Prx!Builds(n) \/ Prx!Listens(n) \/ Prx!Fails(n) \/ Prx!Ends(n)
    PROVE  PrxInv'
<1>1. /\ UNCHANGED <<at, mine, closing, slot, made, left>>
      /\ thread[n] \notin {"none", "gone"}
         /\ \E to \in PrxThreads \ {"none"} : thread' = [thread EXCEPT ![n] = to]
  BY DEF Prx!Builds, Prx!Listens, Prx!Fails, Prx!Ends, Prx!Moves, PrxThreads
<1>2. /\ thread' \in [Prx!Made -> PrxThreads] /\ thread'[n] # "none" /\ \A m \in Prx!Made : m # n
         => thread'[m] = thread[m]
  BY <1>1 DEF PrxInv, PrxTyped
<1>3. PrxTyped'
  BY PrxNumbers, <1>1, <1>2 DEF PrxInv, PrxTyped, Prx!For, Prx!Of, Prx!None, PrxThreads
<1>4. PrxPlaced'
  BY PrxNumbers, <1>1, <1>2 DEF PrxInv, PrxPlaced, Prx!For, Prx!Of, Prx!None
<1>5. PrxNumbered'
  BY PrxNumbers, <1>1, <1>2 DEF PrxInv, PrxTyped, PrxPlaced, PrxNumbered, Prx!Made, Prx!For,
     Prx!Of, Prx!None
<1>6. PrxBegun'
  BY PrxNumbers, <1>1, <1>2 DEF PrxInv, PrxTyped, PrxPlaced, PrxNumbered, PrxBegun, Prx!For,
     Prx!Of, Prx!None
<1>7. PrxLeaves'
  BY PrxNumbers, <1>1, <1>2 DEF PrxInv, PrxTyped, PrxPlaced, PrxBegun, PrxLeaves, PrxOver,
     Prx!For, Prx!Of, Prx!None
<1>8. PrxClosing'
  BY PrxNumbers, <1>1, <1>2 DEF PrxInv, PrxTyped, PrxPlaced, PrxClosing, Prx!For, Prx!Of, Prx!None
<1>9. Prx!ProxiesHeld'
  BY PrxNumbers, <1>1, <1>2 DEF PrxInv, PrxTyped, PrxPlaced, PrxNumbered, PrxBegun, PrxLeaves,
     Prx!ProxiesHeld, PrxOver, Prx!For, Prx!Of, Prx!None
<1> QED BY <1>3, <1>4, <1>5, <1>6, <1>7, <1>8, <1>9 DEF PrxInv

(* At the beginning there is no instance and no call.                       *)
LEMMA PrxStarts == ASSUME Prx!Init PROVE PrxInv
<1>1. Prx!Idle \in PrxCalling /\ Prx!Idle.for = Prx!None /\ Prx!Idle.of = Prx!None
  BY DEF Prx!Idle, PrxCalling, Prx!None
<1>2. /\ \A c \in Callers : at[c] = "idle" /\ mine[c] = Prx!Idle
      /\ \A s \in Sessions : slot[s] = Prx!None
      /\ \A n \in Prx!Made : thread[n] = "none"
      /\ closing = {} /\ made = 0
  BY DEF Prx!Init
<1>3. PrxTyped
  BY <1>1 DEF Prx!Init, PrxTyped, PrxPlaces, PrxThreads, Prx!None
<1> QED BY <1>1, <1>2, <1>3 DEF PrxInv, PrxPlaced, PrxNumbered, PrxBegun, PrxLeaves, PrxClosing,
           Prx!ProxiesHeld,
                                Prx!For, Prx!Of, Prx!None, Prx!Made

(* Every step keeps the invariant.                                          *)
LEMMA PrxStays == ASSUME PrxInv, [Prx!Next]_Prx!vars PROVE PrxInv'
<1>1. CASE UNCHANGED Prx!vars
  BY <1>1 DEF Prx!vars, PrxInv, PrxTyped, PrxPlaced, PrxNumbered, PrxBegun, PrxLeaves, PrxOver,
     PrxClosing,
              Prx!ProxiesHeld, Prx!For, Prx!Of
<1>2. ASSUME NEW c \in Callers, NEW s \in Sessions,
             Prx!Start(c, s) \/ Prx!Stop(c, s) \/ Prx!Close(c, s) PROVE PrxInv'
  BY <1>2, PrxStartKeeps, PrxCloseKeeps
<1>3. ASSUME NEW c \in Callers, Prx!Step(c) PROVE PrxInv'
  BY <1>3, PrxReserveKeeps, PrxRefuseKeeps, PrxProbeFailsKeeps, PrxProbeKeeps, PrxWaitedKeeps,
     PrxFailKeeps,
     PrxRecheckKeeps, PrxAgainKeeps, PrxPopKeeps, PrxDrainKeeps, PrxJoinKeeps DEF Prx!Step
<1>4. ASSUME NEW n \in Prx!Made, Prx!Builds(n) \/ Prx!Listens(n) \/ Prx!Fails(n) \/ Prx!Ends(n)
             PROVE PrxInv'
  BY <1>4, PrxThreadKeeps
<1> QED BY <1>1, <1>2, <1>3, <1>4 DEF Prx!Next

(* What is to be shown of it.                                               *)
LEMMA PrxImplies == ASSUME PrxInv PROVE Prx!ProxiesHeld /\ Prx!ClosedHasNone
<1>1. Prx!ClosedHasNone
  BY DEF PrxInv, PrxClosing, Prx!ClosedHasNone
<1> QED BY <1>1 DEF PrxInv

(* A proxy that runs is the one of a session or of a call that will place   *)
(* or stop it, and a closed session has none (client.py:600).               *)
THEOREM PrxHeld == Prx!Spec => [](Prx!ProxiesHeld /\ Prx!ClosedHasNone)
<1>1. Prx!Init => PrxInv
  BY PrxStarts
<1>2. PrxInv /\ [Prx!Next]_Prx!vars => PrxInv'
  BY PrxStays
<1>3. PrxInv => Prx!ProxiesHeld /\ Prx!ClosedHasNone
  BY PrxImplies
<1> QED BY <1>1, <1>2, <1>3, PTL DEF Prx!Spec

-----------------------------------------------------------------------------
(***************************************************************************)
(* The supervisor (Supervisor)                                             *)
(*                                                                         *)
(* While the supervisor has not ended, a child that is up is the one it    *)
(* has in hand, from where it is placed in the job object to where its end *)
(* is judged.                                                              *)
(***************************************************************************)

SupPcs == {"spawn", "placed", "grouped", "watch", "judge", "sleep", "over"}
SupReasons == {"none", "spawn_failed", "stopped", "crashed", "unhealthy"}
SupStates == {"none", "up", "killed", "crashed", "refused", "clean"}
SupWorks == {"none", "loose", "tied"}
SupRecord == [pc : SupPcs, child : Sup!Kids \cup {Sup!NoKid}, running : Sup!Kids \cup {Sup!NoKid},
      reason : SupReasons,
              strikes : Int, rapid : Int, restarts : Int]

SupTyped ==
    /\ MaxSpawns \in Nat /\ spawned \in Nat /\ sup \in SupRecord
    /\ proc \in [Sup!Kids -> SupStates] /\ work \in [Sup!Kids -> SupWorks]
       /\ tied \subseteq Sup!Kids

(* Where the supervisor is, and what it may have running there: only the    *)
(* child it holds, from its start to the judgement that takes it down.      *)
SupOrder ==
    /\ sup.pc = "over" <=> ended # "no"
    /\ sup.pc \in {"placed", "grouped", "watch"} => sup.child # Sup!NoKid
    /\ sup.pc \in {"watch", "judge"} => sup.running = sup.child
    /\ sup.pc = "judge" /\ sup.reason = "unhealthy" => sup.child # Sup!NoKid

SupHeld ==
    ended = "no" => \A k \in Sup!Kids : Sup!Up(k) =>
        /\ k = sup.child /\ sup.pc \in {"placed", "grouped", "watch", "judge"}
        /\ sup.pc = "judge" => sup.reason = "unhealthy"

SupInv == SupTyped /\ SupOrder /\ SupHeld /\ Sup!NothingLeft

(* The supervisor starts with the invariant.                                *)
LEMMA SupStarts == ASSUME MaxSpawns \in Nat, Sup!Init PROVE SupInv
<1>1. SupTyped
  BY DEF Sup!Init, SupTyped, SupRecord, SupPcs, SupReasons, SupStates, SupWorks
<1>2. SupOrder /\ SupHeld /\ Sup!NothingLeft
  BY DEF Sup!Init, SupOrder, SupHeld, Sup!NothingLeft, Sup!Up
<1> QED BY <1>1, <1>2 DEF SupInv

(* The numbers of the children.                                             *)
LEMMA SupNumbers ==
    ASSUME SupInv
    PROVE  /\ Sup!NoKid \notin Sup!Kids
           /\ spawned < MaxSpawns => spawned + 1 \in Sup!Kids /\ spawned + 1 # Sup!NoKid
              /\ spawned + 1 \in Nat
<1>1. MaxSpawns \in Nat /\ spawned \in Nat
  BY DEF SupInv, SupTyped
<1> QED BY <1>1 DEF Sup!Kids, Sup!NoKid

(* The fields of the supervisor's record that the invariant speaks of.      *)
SupIs(place, child, running, reason) ==
    /\ sup' \in SupRecord /\ sup'.pc = place /\ sup'.child = child
    /\ sup'.running = running /\ sup'.reason = reason

(* What the steps of the supervisor make of its record.                     *)
LEMMA SupMoves ==
    ASSUME SupInv, NEW place \in SupPcs
    PROVE  /\ sup' = [sup EXCEPT !.pc = place] => SupIs(place, sup.child, sup.running, sup.reason)
           /\ \A k \in Sup!Kids : sup' = [sup EXCEPT !.pc = place, !.child = k] =>
                  SupIs(place, k, sup.running, sup.reason)
           /\ \A r \in SupReasons :
                /\ sup' = [sup EXCEPT !.pc = place, !.reason = r]
                   => SupIs(place, sup.child, sup.running, r)
                /\ sup' = [sup EXCEPT !.pc = place, !.reason = r, !.strikes = 0] =>
                       SupIs(place, sup.child, sup.running, r)
                /\ sup' = [sup EXCEPT !.pc = place, !.child = Sup!NoKid, !.running = Sup!NoKid,
                   !.reason = r] =>
                       SupIs(place, Sup!NoKid, Sup!NoKid, r)
           /\ sup' = [sup EXCEPT !.pc = place, !.running = sup.child, !.strikes = 0] =>
                  SupIs(place, sup.child, sup.child, sup.reason)
           /\ \A m, n \in Int : sup' = [sup EXCEPT !.pc = place, !.rapid = m, !.restarts = n] =>
                  SupIs(place, sup.child, sup.running, sup.reason)
<1>1. sup \in SupRecord
  BY DEF SupInv, SupTyped
<1> DEFINE q == [sup EXCEPT !.pc = place]
<1>2. /\ q \in SupRecord /\ q.pc = place /\ q.child = sup.child
      /\ q.running = sup.running /\ q.reason = sup.reason
  BY <1>1 DEF SupRecord
<1>3. sup' = q => SupIs(place, sup.child, sup.running, sup.reason)
  BY <1>2 DEF SupIs
<1>4. ASSUME NEW k \in Sup!Kids, sup' = [sup EXCEPT !.pc = place, !.child = k]
      PROVE  SupIs(place, k, sup.running, sup.reason)
  BY <1>1, <1>4 DEF SupIs, SupRecord
<1>5. ASSUME NEW r \in SupReasons, sup' = [sup EXCEPT !.pc = place, !.reason = r]
      PROVE  SupIs(place, sup.child, sup.running, r)
  BY <1>1, <1>5 DEF SupIs, SupRecord
<1>6. ASSUME NEW r \in SupReasons, sup' = [sup EXCEPT !.pc = place, !.reason = r, !.strikes = 0]
      PROVE  SupIs(place, sup.child, sup.running, r)
  <2> DEFINE t == [q EXCEPT !.reason = r]
             u == [t EXCEPT !.strikes = 0]
  <2>0. sup' = u
    BY <1>6
  <2> HIDE DEF q
  <2>1. /\ t \in SupRecord /\ t.pc = place /\ t.child = sup.child
        /\ t.running = sup.running /\ t.reason = r
    BY <1>2 DEF SupRecord
  <2> HIDE DEF t
  <2>2. /\ u \in SupRecord /\ u.pc = place /\ u.child = sup.child
        /\ u.running = sup.running /\ u.reason = r
    BY <2>1 DEF SupRecord
  <2> QED BY <2>0, <2>2 DEF SupIs
<1>7. ASSUME NEW r \in SupReasons,
             sup' = [sup EXCEPT !.pc = place, !.child = Sup!NoKid, !.running = Sup!NoKid,
             !.reason = r]
      PROVE  SupIs(place, Sup!NoKid, Sup!NoKid, r)
  <2> DEFINE t == [q EXCEPT !.child = Sup!NoKid]
             u == [t EXCEPT !.running = Sup!NoKid]
             v == [u EXCEPT !.reason = r]
  <2>0. sup' = v
    BY <1>7
  <2> HIDE DEF q
  <2>1. t \in SupRecord /\ t.pc = place /\ t.child = Sup!NoKid
    BY <1>2 DEF SupRecord
  <2> HIDE DEF t
  <2>2. u \in SupRecord /\ u.pc = place /\ u.child = Sup!NoKid /\ u.running = Sup!NoKid
    BY <2>1 DEF SupRecord
  <2> HIDE DEF u
  <2>3. v \in SupRecord /\ v.pc = place /\ v.child = Sup!NoKid /\ v.running = Sup!NoKid
        /\ v.reason = r
    BY <2>2 DEF SupRecord
  <2> QED BY <2>0, <2>3 DEF SupIs
<1>8. ASSUME sup' = [sup EXCEPT !.pc = place, !.running = sup.child, !.strikes = 0]
      PROVE  SupIs(place, sup.child, sup.child, sup.reason)
  <2> DEFINE t == [q EXCEPT !.running = sup.child]
             u == [t EXCEPT !.strikes = 0]
  <2>0. sup' = u
    BY <1>8
  <2>1. sup.child \in Sup!Kids \cup {Sup!NoKid}
    BY <1>1 DEF SupRecord
  <2> HIDE DEF q
  <2>2. t \in SupRecord /\ t.pc = place /\ t.child = sup.child /\ t.running = sup.child
        /\ t.reason = sup.reason
    BY <1>2, <2>1 DEF SupRecord
  <2> HIDE DEF t
  <2>3. u \in SupRecord /\ u.pc = place /\ u.child = sup.child /\ u.running = sup.child
        /\ u.reason = sup.reason
    BY <2>2 DEF SupRecord
  <2> QED BY <2>0, <2>3 DEF SupIs
<1>9. ASSUME NEW m \in Int, NEW n \in Int,
             sup' = [sup EXCEPT !.pc = place, !.rapid = m, !.restarts = n]
      PROVE  SupIs(place, sup.child, sup.running, sup.reason)
  BY <1>1, <1>9 DEF SupIs, SupRecord
<1> QED BY <1>3, <1>4, <1>5, <1>6, <1>7, <1>8, <1>9

(* Where it does not go on, its place stays.                                *)
LEMMA SupStays0 ==
    ASSUME SupInv
    PROVE  /\ \A n \in Int : sup' = [sup EXCEPT !.strikes = n] =>
                  SupIs(sup.pc, sup.child, sup.running, sup.reason)
           /\ sup' = sup => SupIs(sup.pc, sup.child, sup.running, sup.reason)
<1>1. sup \in SupRecord
  BY DEF SupInv, SupTyped
<1> QED BY <1>1 DEF SupIs, SupRecord

(* A step that no process begins in, and that kills with their workers      *)
(* those it kills, leaves of the invariant what is about the processes.     *)
SupFewer ==
    /\ proc' \in [Sup!Kids -> SupStates] /\ work' \in [Sup!Kids -> SupWorks]
    /\ \A k \in Sup!Kids : proc'[k] = "up" => proc[k] = "up"
    /\ \A k \in Sup!Kids : proc'[k] = "killed" => work'[k] = "none"

(* Nothing that ran has gone and nothing has begun to run.                  *)
LEMMA SupSame == ASSUME SupInv, UNCHANGED <<proc, work>> PROVE SupFewer
  BY DEF SupInv, SupTyped, Sup!NothingLeft, SupFewer

(* A child that dies by itself.                                             *)
LEMMA SupDies ==
    ASSUME SupInv, NEW k \in Sup!Kids, NEW how \in Sup!OwnEnds, Sup!Dies(k, how)
    PROVE  /\ SupFewer
           /\ \A j \in Sup!Kids : work[j] = "none" => work'[j] = "none"
  BY DEF SupInv, SupTyped, Sup!NothingLeft, SupFewer, Sup!Dies, Sup!OwnEnds, SupStates, SupWorks

(* A child that is taken down does not run any more.                        *)
LEMMA SupTaken ==
    ASSUME SupInv, NEW k \in Sup!Kids, Sup!TakeDown(k)
    PROVE  SupFewer /\ proc'[k] # "up"
  BY DEF SupInv, SupTyped, Sup!NothingLeft, SupFewer, Sup!TakeDown, SupStates, SupWorks

(* What the job of the supervisor leaves.                                   *)
SupClosed ==
    /\ SupFewer
    /\ \A k \in tied : proc'[k] # "up" /\ work'[k] = "none"

(* When the job object is closed, what it holds is killed.                  *)
LEMMA SupJob ==
    ASSUME SupInv, NEW p \in [Sup!Kids -> SupStates], NEW w \in [Sup!Kids -> SupWorks],
           Sup!JobCloses(p, w),
           \A k \in Sup!Kids : p[k] = "up" => proc[k] = "up",
           \A k \in Sup!Kids : p[k] = "killed" => w[k] = "none"
    PROVE  SupClosed /\ \A k \in Sup!Kids : proc'[k] = "up" => p[k] = "up"
<1>1. /\ proc' \in [Sup!Kids -> SupStates]
      /\ \A k \in Sup!Kids : proc'[k] = IF k \in tied /\ p[k] = "up" THEN "killed" ELSE p[k]
  BY DEF Sup!JobCloses, SupStates
<1>2. /\ work' \in [Sup!Kids -> SupWorks]
      /\ \A k \in Sup!Kids : work'[k] = IF k \in tied \/ (w[k] = "tied"
         /\ proc'[k] # "up") THEN "none" ELSE w[k]
  BY DEF Sup!JobCloses, SupWorks
<1>3. \A k \in Sup!Kids : proc'[k] = "up" => p[k] = "up" /\ k \notin tied
  BY <1>1
<1>4. \A k \in Sup!Kids : proc'[k] = "killed" => work'[k] = "none"
  BY <1>1, <1>2
<1>5. \A k \in tied : k \in Sup!Kids /\ work'[k] = "none"
  BY <1>2 DEF SupInv, SupTyped
<1> QED BY <1>1, <1>2, <1>3, <1>4, <1>5 DEF SupClosed, SupFewer

(* However the supervisor ends, what it started ends with it.               *)
LEMMA SupFinally ==
    ASSUME SupInv, Sup!Finally
    PROVE  SupClosed /\ \A k \in Sup!Kids : proc'[k] = "up" => k # sup.running
<1> DEFINE p == [k \in Sup!Kids |-> IF k \in Sup!LastChild THEN "killed" ELSE proc[k]]
           w == [k \in Sup!Kids |-> IF k \in Sup!LastChild THEN "none" ELSE work[k]]
<1>1. p \in [Sup!Kids -> SupStates] /\ w \in [Sup!Kids -> SupWorks]
  BY DEF SupInv, SupTyped, SupStates, SupWorks
<1>2. \A k \in Sup!Kids : p[k] = "up" => proc[k] = "up" /\ k # sup.running
  BY SupNumbers DEF Sup!LastChild, Sup!Up
<1>3. \A k \in Sup!Kids : p[k] = "killed" => w[k] = "none"
  BY DEF SupInv, Sup!NothingLeft
<1>4. Sup!JobCloses(p, w)
  BY DEF Sup!Finally
<1> HIDE DEF p, w
<1>5. tied \subseteq Sup!Kids
  BY DEF SupInv, SupTyped
<1> QED BY <1>1, <1>2, <1>3, <1>4, <1>5, SupJob

(* How a step of the supervisor that ends it keeps the invariant.           *)
LEMMA SupEnded ==
    ASSUME SupInv, ended = "no", ended' # "no", UNCHANGED <<spawned, tied>>, SupClosed,
           sup' = [sup EXCEPT !.pc = "over"],
           \A k \in Sup!Kids : proc'[k] = "up" => ended' = "killed" \/ k # sup.running
    PROVE  SupInv'
<1>1. SupIs("over", sup.child, sup.running, sup.reason)
  BY SupMoves DEF SupPcs
<1>2. SupTyped'
  BY <1>1 DEF SupInv, SupTyped, SupIs, SupClosed, SupFewer
<1>3. SupOrder' /\ SupHeld'
  BY <1>1 DEF SupOrder, SupHeld, SupIs
<1>4. Sup!NothingLeft'
  BY <1>1, SupNumbers DEF SupInv, Sup!NothingLeft, SupClosed, SupFewer, Sup!Up, SupIs
<1> QED BY <1>2, <1>3, <1>4 DEF SupInv
(* How a step within its life keeps the invariant.                          *)
LEMMA SupLives ==
    ASSUME SupInv, ended = "no", UNCHANGED ended, SupFewer, spawned' \in Nat,
           tied' \subseteq Sup!Kids,
           sup' \in SupRecord, SupOrder', SupHeld'
    PROVE  SupInv'
<1>1. SupTyped'
  BY DEF SupInv, SupTyped, SupFewer
<1>2. Sup!NothingLeft'
  BY DEF SupInv, Sup!NothingLeft, SupFewer, Sup!Up
<1> QED BY <1>1, <1>2 DEF SupInv

(* One lemma for each thing the supervisor does.                            *)
LEMMA SupLoop ==
    ASSUME SupInv, Sup!Group \/ Sup!Remember \/ Sup!Watch \/ Sup!Slept
    PROVE  SupInv'
<1>0. /\ sup.child \in Sup!Kids \cup {Sup!NoKid} /\ sup.strikes \in Int
      /\ tied \subseteq Sup!Kids /\ spawned \in Nat
  BY DEF SupInv, SupTyped, SupRecord
<1>1. UNCHANGED <<proc, work, spawned, ended>> /\ SupFewer
  BY SupSame DEF Sup!Group, Sup!Remember, Sup!Watch, Sup!Slept
<1>2. SupOrder /\ SupHeld
  BY DEF SupInv
<1>3. SUFFICES tied' \subseteq Sup!Kids /\ ended = "no" /\ sup' \in SupRecord /\ SupOrder'
      /\ SupHeld'
  BY <1>0, <1>1, <1>3, SupLives
<1>4. CASE Sup!Group
  <2>1. /\ sup.pc = "placed" /\ SupIs("grouped", sup.child, sup.running, sup.reason)
        /\ tied' \subseteq tied \cup {sup.child}
    BY <1>4, SupMoves DEF Sup!Group, SupPcs
  <2>2. tied' \subseteq Sup!Kids /\ ended = "no" /\ sup' \in SupRecord /\ SupOrder'
    BY <1>0, <1>1, <1>2, <2>1 DEF SupOrder, SupIs
  <2>3. SupHeld'
    BY <1>1, <1>2, <2>1 DEF SupHeld, SupIs, Sup!Up
  <2> QED BY <2>2, <2>3
<1>5. CASE Sup!Remember
  <2>1. /\ sup.pc = "grouped" /\ SupIs("watch", sup.child, sup.child, sup.reason)
        /\ UNCHANGED tied
    BY <1>5, SupMoves DEF Sup!Remember, SupPcs
  <2>2. tied' \subseteq Sup!Kids /\ ended = "no" /\ sup' \in SupRecord /\ SupOrder'
    BY <1>0, <1>1, <1>2, <2>1 DEF SupOrder, SupIs
  <2>3. SupHeld'
    BY <1>1, <1>2, <2>1 DEF SupHeld, SupIs, Sup!Up
  <2> QED BY <2>2, <2>3
<1>6. CASE Sup!Watch
  <2>0. sup.pc = "watch" /\ UNCHANGED tied /\ Sup!Struck \in Int
    BY <1>0, <1>6 DEF Sup!Watch, Sup!Struck
  <2>1. \/ ~Sup!Up(sup.child) /\ SupIs("judge", sup.child, sup.running, sup'.reason)
        \/ SupIs("judge", sup.child, sup.running, "unhealthy")
        \/ SupIs("watch", sup.child, sup.running, sup.reason)
    <3>1. CASE ~Sup!Up(sup.child)
      BY <1>6, <3>1, SupMoves DEF Sup!Watch, SupPcs, SupReasons, SupIs
    <3>2. CASE Sup!Up(sup.child) /\ sup' = [sup EXCEPT !.pc = "judge", !.reason = "unhealthy",
               !.strikes = 0]
      BY <3>2, SupMoves DEF SupPcs, SupReasons
    <3>3. CASE Sup!Up(sup.child) /\ \E n \in Int : sup' = [sup EXCEPT !.strikes = n]
      BY <2>0, <3>3, SupStays0
    <3> QED BY <1>6, <2>0, <3>1, <3>2, <3>3 DEF Sup!Watch
  <2>2. tied' \subseteq Sup!Kids /\ ended = "no" /\ sup' \in SupRecord /\ SupOrder'
    BY <1>0, <1>1, <1>2, <2>0, <2>1 DEF SupOrder, SupIs
  <2>3. SupHeld'
    BY <1>1, <1>2, <2>0, <2>1 DEF SupHeld, SupIs, Sup!Up
  <2> QED BY <2>2, <2>3
<1>7. CASE Sup!Slept
  <2>1. /\ sup.pc = "sleep" /\ SupIs("spawn", sup.child, sup.running, sup.reason)
        /\ UNCHANGED tied
    BY <1>7, SupMoves DEF Sup!Slept, SupPcs
  <2>2. tied' \subseteq Sup!Kids /\ ended = "no" /\ sup' \in SupRecord /\ SupOrder'
    BY <1>0, <1>1, <1>2, <2>1 DEF SupOrder, SupIs
  <2>3. SupHeld'
    BY <1>1, <1>2, <2>1 DEF SupHeld, SupIs, Sup!Up
  <2> QED BY <2>2, <2>3
<1> QED BY <1>4, <1>5, <1>6, <1>7

(* A child is started.                                                      *)
LEMMA SupSpawns == ASSUME SupInv, Sup!Spawn PROVE SupInv'
<1>0. /\ tied \subseteq Sup!Kids /\ spawned \in Nat /\ proc \in [Sup!Kids -> SupStates]
         /\ work \in [Sup!Kids -> SupWorks]
      /\ Sup!NothingLeft
  BY DEF SupInv, SupTyped
<1>1. sup.pc = "spawn" /\ ended = "no" /\ UNCHANGED <<work, tied, graced, ended>>
      /\ \A k \in Sup!Kids : proc[k] # "up"
  <2>1. sup.pc = "spawn" /\ UNCHANGED <<work, tied, graced, ended>>
    BY DEF Sup!Spawn
  <2> QED BY <2>1, SupNumbers DEF SupInv, SupOrder, SupHeld, Sup!Up
<1>2. CASE spawned < MaxSpawns /\ spawned' = spawned + 1
           /\ proc' = [proc EXCEPT ![spawned + 1] = "up"]
           /\ sup' = [sup EXCEPT !.pc = "placed", !.child = spawned + 1]
  <2> DEFINE new == spawned + 1
  <2>1. /\ new \in Sup!Kids /\ new # Sup!NoKid /\ spawned' \in Nat
        /\ SupIs("placed", new, sup.running, sup.reason)
    BY <1>2, SupNumbers, SupMoves DEF SupPcs
  <2>2. proc' \in [Sup!Kids -> SupStates] /\ proc'[new] = "up" /\ \A k \in Sup!Kids : k # new
        => proc'[k] = proc[k]
    BY <1>0, <1>2, <2>1 DEF SupStates
  <2> HIDE DEF new
  <2>3. SupTyped'
    BY <1>0, <1>1, <2>1, <2>2 DEF SupInv, SupTyped, SupIs
  <2>4. SupOrder' /\ SupHeld'
    BY <1>1, <2>1, <2>2 DEF SupInv, SupOrder, SupHeld, SupIs, Sup!Up
  <2>5. Sup!NothingLeft'
    BY <1>0, <1>1, <2>1, <2>2 DEF Sup!NothingLeft, Sup!Up
  <2> QED BY <2>3, <2>4, <2>5 DEF SupInv
<1>3. CASE /\ sup' = [sup EXCEPT !.pc = "judge", !.child = Sup!NoKid, !.running = Sup!NoKid,
              !.reason = "spawn_failed"]
           /\ UNCHANGED <<spawned, proc, ready>>
  <2>1. SupIs("judge", Sup!NoKid, Sup!NoKid, "spawn_failed") /\ SupFewer
    BY <1>1, <1>3, SupMoves, SupSame DEF SupPcs, SupReasons
  <2>2. SupOrder' /\ SupHeld'
    BY <1>1, <1>3, <2>1 DEF SupOrder, SupHeld, SupIs, Sup!Up
  <2> QED BY <1>0, <1>1, <1>3, <2>1, <2>2, SupLives DEF SupIs
<1> QED BY <1>2, <1>3 DEF Sup!Spawn

(* A judgement restarts the child once it is down, or ends the supervisor.  *)
LEMMA SupRestarts ==
    ASSUME SupInv, ended = "no", sup.pc = "judge", UNCHANGED <<spawned, tied, ready, graced>>,
           NEW short \in BOOLEAN, Sup!Restarts(short),
           ended' = "no" => SupFewer /\ \A k \in Sup!Kids : proc'[k] # "up",
           ended' # "no" => SupClosed /\ \A k \in Sup!Kids : proc'[k] = "up" => k # sup.running
    PROVE  SupInv'
<1>1. CASE ended' = "no"
  <2>0. sup.rapid \in Int /\ sup.restarts \in Int
    BY DEF SupInv, SupTyped, SupRecord
  <2> DEFINE rapid == IF short THEN sup.rapid + 1 ELSE 0
             restarts == sup.restarts + 1
  <2>1. /\ rapid \in Int /\ restarts \in Int
        /\ sup' = [sup EXCEPT !.pc = "sleep", !.rapid = rapid, !.restarts = restarts]
    BY <1>1, <2>0 DEF Sup!Restarts
  <2> HIDE DEF rapid, restarts
  <2>2. SupIs("sleep", sup.child, sup.running, sup.reason)
    BY <2>1, SupMoves DEF SupPcs
  <2>3. SupOrder' /\ SupHeld'
    BY <1>1, <2>2 DEF SupOrder, SupHeld, SupIs, Sup!Up
  <2>4. spawned' \in Nat /\ tied' \subseteq Sup!Kids
    BY DEF SupInv, SupTyped
  <2> QED BY <1>1, <2>2, <2>3, <2>4, SupLives DEF SupIs
<1>2. CASE ended' # "no"
  <2>1. sup' = [sup EXCEPT !.pc = "over"]
    BY <1>2 DEF Sup!Restarts
  <2> QED BY <1>2, <2>1, SupEnded
<1> QED BY <1>1, <1>2

(* A child that ended, or stopped answering, is judged.                     *)
LEMMA SupJudges == ASSUME SupInv, Sup!Judge PROVE SupInv'
<1> DEFINE exit == IF sup.child = Sup!NoKid THEN "none" ELSE proc[sup.child]
<1>0. /\ sup.pc = "judge" /\ ended = "no" /\ sup.running = sup.child
      /\ UNCHANGED <<spawned, tied, ready, graced>>
      /\ sup.reason # "unhealthy" => \A k \in Sup!Kids : proc[k] # "up"
      /\ sup.reason = "unhealthy" => sup.child \in Sup!Kids
      /\ \A k \in Sup!Kids : proc[k] = "up" => k = sup.child
  <2>1. sup.pc = "judge" /\ UNCHANGED <<spawned, tied, ready, graced>>
    BY DEF Sup!Judge
  <2>2. sup.child \in Sup!Kids \cup {Sup!NoKid}
    BY DEF SupInv, SupTyped, SupRecord
  <2> QED BY <2>1, <2>2, SupNumbers DEF SupInv, SupOrder, SupHeld, Sup!Up
<1>1. CASE Sup!Finally /\ ended' \in Sup!Endings /\ sup' = [sup EXCEPT !.pc = "over"]
  <2>1. ended' # "no" /\ SupClosed /\ \A k \in Sup!Kids : proc'[k] = "up" => k # sup.running
    BY <1>1, SupFinally DEF Sup!Endings
  <2> QED BY <1>0, <1>1, <2>1, SupEnded
<1>2. CASE /\ sup.reason = "unhealthy" /\ Sup!Restarts(FALSE)
           /\ IF ended' = "no" THEN Sup!TakeDown(sup.child)
              ELSE Sup!JobCloses([proc EXCEPT ![sup.child] = "killed"],
              [work EXCEPT ![sup.child] = "none"])
  <2>1. ended' = "no" => SupFewer /\ \A k \in Sup!Kids : proc'[k] # "up"
    BY <1>0, <1>2, SupTaken DEF SupFewer
  <2>2. ASSUME ended' # "no"
        PROVE  SupClosed /\ \A k \in Sup!Kids : proc'[k] = "up" => k # sup.running
    <3> DEFINE p == [proc EXCEPT ![sup.child] = "killed"]
               w == [work EXCEPT ![sup.child] = "none"]
    <3>1. /\ p \in [Sup!Kids -> SupStates] /\ w \in [Sup!Kids -> SupWorks]
          /\ p[sup.child] = "killed" /\ w[sup.child] = "none"
          /\ \A k \in Sup!Kids : k # sup.child => p[k] = proc[k] /\ w[k] = work[k]
      BY <1>0, <1>2 DEF SupInv, SupTyped, SupStates, SupWorks
    <3>2. Sup!JobCloses(p, w)
      BY <1>2, <2>2
    <3> HIDE DEF p, w
    <3>3. /\ \A k \in Sup!Kids : p[k] = "up" => proc[k] = "up" /\ k # sup.child
          /\ \A k \in Sup!Kids : p[k] = "killed" => w[k] = "none"
      BY <3>1 DEF SupInv, Sup!NothingLeft
    <3> QED BY <1>0, <3>1, <3>2, <3>3, SupJob
  <2>3. FALSE \in BOOLEAN
    OBVIOUS
  <2> QED BY <1>0, <1>2, <2>1, <2>2, <2>3, SupRestarts
<1>3. ASSUME sup.reason # "unhealthy", NEW short \in BOOLEAN, Sup!Restarts(short),
             IF ended' = "no" THEN UNCHANGED <<proc, work>> ELSE Sup!Finally
      PROVE  SupInv'
  <2>1. ended' = "no" => SupFewer /\ \A k \in Sup!Kids : proc'[k] # "up"
    BY <1>0, <1>3, SupSame
  <2>2. ended' # "no" => SupClosed /\ \A k \in Sup!Kids : proc'[k] = "up" => k # sup.running
    BY <1>3, SupFinally
  <2> QED BY <1>0, <1>3, <2>1, <2>2, SupRestarts
<1> QED BY <1>1, <1>2, <1>3 DEF Sup!Judge, Sup!Endings

(* The supervisor ends from outside.                                        *)
LEMMA SupStopped == ASSUME SupInv, Sup!Interrupt \/ Sup!Killed PROVE SupInv'
<1>0. proc \in [Sup!Kids -> SupStates] /\ work \in [Sup!Kids -> SupWorks]
      /\ \A k \in Sup!Kids : proc[k] = "killed" => work[k] = "none"
  BY DEF SupInv, SupTyped, Sup!NothingLeft
<1>1. CASE Sup!Interrupt
  <2>1. /\ ended = "no" /\ ended' # "no" /\ sup' = [sup EXCEPT !.pc = "over"]
        /\ UNCHANGED <<spawned, tied>>
        /\ SupClosed /\ \A k \in Sup!Kids : proc'[k] = "up" => k # sup.running
    BY <1>1, SupFinally DEF Sup!Interrupt, Sup!Ends
  <2> QED BY <2>1, SupEnded
<1>2. CASE Sup!Killed
  <2>1. /\ ended = "no" /\ ended' = "killed" /\ sup' = [sup EXCEPT !.pc = "over"]
        /\ UNCHANGED <<spawned, tied>> /\ SupClosed
    BY <1>0, <1>2, SupJob DEF Sup!Killed, Sup!Ends
  <2> QED BY <2>1, SupEnded
<1> QED BY <1>1, <1>2

(* A step of the children leaves the supervisor where it is.                *)
LEMMA SupChildren ==
    ASSUME SupInv,
           \/ Sup!ReadyChanges \/ Sup!GraceEnds
           \/ \E k \in Sup!Kids : Sup!ChildWorks(k) \/ \E how \in Sup!OwnEnds : Sup!ChildEnds(k,
              how)
    PROVE  SupInv'
<1>0. SupTyped /\ SupOrder /\ SupHeld /\ Sup!NothingLeft
  BY DEF SupInv
<1>1. SUFFICES /\ UNCHANGED <<sup, spawned, tied, ended>> /\ SupFewer
               /\ \A k \in tied : proc[k] # "up" /\ work[k] = "none" => work'[k] = "none"
  <2>1. SupTyped'
    BY <1>0, <1>1 DEF SupTyped, SupFewer
  <2>2. SupOrder' /\ SupHeld'
    BY <1>0, <1>1 DEF SupOrder, SupHeld, SupFewer, Sup!Up
  <2>3. Sup!NothingLeft'
    <3>1. \A j, k \in Sup!Kids : Sup!Up(j)' /\ Sup!Up(k)' => j = k
      BY <1>0, <1>1 DEF Sup!NothingLeft, SupFewer, Sup!Up
    <3>2. \A k \in Sup!Kids : proc'[k] = "killed" => work'[k] = "none"
      BY <1>1 DEF SupFewer
    <3>3. ended' # "no" => /\ \A k \in tied' : ~Sup!Up(k)' /\ work'[k] = "none"
                          /\ \A k \in Sup!Kids : Sup!Up(k)' => ended' = "killed" \/ k # sup'.running
      BY <1>0, <1>1, SupNumbers DEF SupTyped, Sup!NothingLeft, SupFewer, Sup!Up
    <3> QED BY <3>1, <3>2, <3>3 DEF Sup!NothingLeft
  <2> QED BY <2>1, <2>2, <2>3 DEF SupInv
<1>2. CASE Sup!ReadyChanges \/ Sup!GraceEnds
  BY <1>2, SupSame DEF Sup!ReadyChanges, Sup!GraceEnds
<1>3. ASSUME NEW k \in Sup!Kids, Sup!ChildWorks(k)
      PROVE  /\ UNCHANGED <<sup, spawned, tied, ended>> /\ SupFewer
             /\ \A j \in tied : proc[j] # "up" /\ work[j] = "none" => work'[j] = "none"
  BY <1>0, <1>3 DEF Sup!ChildWorks, SupTyped, Sup!NothingLeft, SupFewer, SupWorks, Sup!Up
<1>4. ASSUME NEW k \in Sup!Kids, NEW how \in Sup!OwnEnds, Sup!ChildEnds(k, how)
      PROVE  /\ UNCHANGED <<sup, spawned, tied, ended>> /\ SupFewer
             /\ \A j \in tied : proc[j] # "up" /\ work[j] = "none" => work'[j] = "none"
  BY <1>0, <1>4, SupDies DEF Sup!ChildEnds, SupTyped
<1> QED BY <1>2, <1>3, <1>4

(* Every step keeps the invariant.                                          *)
LEMMA SupStays == ASSUME SupInv, [Sup!Next]_Sup!vars PROVE SupInv'
<1>1. CASE UNCHANGED Sup!vars
  BY <1>1 DEF Sup!vars, SupInv, SupTyped, SupOrder, SupHeld, Sup!NothingLeft, Sup!Up
<1> QED BY <1>1, SupLoop, SupSpawns, SupJudges, SupStopped, SupChildren DEF Sup!Next, Sup!Supervise

(* What is to be shown of it.                                               *)
LEMMA SupImplies == ASSUME SupInv PROVE Sup!NothingLeft
  BY DEF SupInv

(* Nothing is left of what the supervisor took down, nor of what it held.   *)
THEOREM SupLeavesNothing == ASSUME MaxSpawns \in Nat PROVE Sup!Spec => []Sup!NothingLeft
<1>1. SupInv => Sup!NothingLeft
  BY SupImplies
<1> QED BY <1>1, SupStarts, SupStays, PTL DEF Sup!Spec

-----------------------------------------------------------------------------
(***************************************************************************)
(* The run of a command line tool (ToolRun)                                *)
(*                                                                         *)
(* The tool is started once, and what the call answers follows where it is *)
(* and how the tool ended.                                                 *)
(***************************************************************************)

TooProcess == [st : {"none", "up", "dead"}, parent : Too!Procs \cup {Too!Nobody}, group : BOOLEAN,
      pipe : BOOLEAN]

TooTyped ==
    /\ MaxHelpers \in Nat
    /\ proc \in [Too!Procs -> TooProcess] /\ known \subseteq Too!Procs
    /\ pc \in {"wait", "drain", "walk", "group", "rest", "over"}
    /\ why \in {"none", "timed out", "cancelled"}
    /\ answer \in {"none", "completed", "failed", "timed out", "cancelled"}

(* The tool is dead once its output is drained or its group was swept, a    *)
(* termination has a reason, and only a run that is over has an answer.     *)
TooOrder ==
    /\ proc[Too!Tool].st # "none"
    /\ pc \in {"drain", "rest", "over"} => ~Too!Up(Too!Tool)
    /\ pc \in {"walk", "group", "rest"} => why # "none"
    /\ answer # "none" <=> pc = "over"

TooInv == TooTyped /\ TooOrder /\ Too!NothingOutlives

(* A tool starts with the invariant.                                        *)
LEMMA TooStarts == ASSUME MaxHelpers \in Nat, Too!Init PROVE TooInv
<1>1. Too!Started \in TooProcess /\ Too!Absent \in TooProcess /\ Too!Started.st = "up"
      /\ Too!Tool \in Too!Procs
  BY DEF Too!Started, Too!Absent, TooProcess, Too!Tool, Too!Procs
<1>2. TooTyped
  BY <1>1 DEF Too!Init, TooTyped
<1> QED BY <1>1, <1>2 DEF Too!Init, TooInv, TooOrder, Too!NothingOutlives

(* The tool is one of the processes.                                        *)
LEMMA TooTool == ASSUME TooInv PROVE Too!Tool \in Too!Procs
<1>1. MaxHelpers \in Nat
  BY DEF TooInv, TooTyped
<1> QED BY <1>1 DEF Too!Tool, Too!Procs

(* The processes of a set die, and nothing else happens to one but that it  *)
(* is orphaned.                                                             *)
LEMMA TooDeaths ==
    ASSUME TooInv, NEW ps, proc' = Too!Without(ps)
    PROVE  /\ proc' \in [Too!Procs -> TooProcess]
           /\ \A p \in Too!Procs : p \in ps => proc'[p].st = "dead"
           /\ \A p \in Too!Procs : p \notin ps =>
                 /\ proc'[p].st = proc[p].st
                 /\ proc'[p].group = proc[p].group /\ proc'[p].pipe = proc[p].pipe
<1>1. proc \in [Too!Procs -> TooProcess]
  BY DEF TooInv, TooTyped
<1> DEFINE dead == [Too!Absent EXCEPT !.st = "dead"]
<1>2. dead \in TooProcess /\ dead.st = "dead"
  BY DEF Too!Absent, TooProcess
<1> HIDE DEF dead
<1>3. ASSUME NEW p \in Too!Procs
      PROVE  /\ p \in ps => proc'[p] = dead
             /\ p \notin ps => /\ proc'[p] \in TooProcess
                               /\ proc'[p].st = proc[p].st
                               /\ proc'[p].group = proc[p].group /\ proc'[p].pipe = proc[p].pipe
  <2> DEFINE orphan == [proc[p] EXCEPT !.parent = Too!Nobody]
  <2>1. /\ orphan \in TooProcess /\ orphan.st = proc[p].st
        /\ orphan.group = proc[p].group /\ orphan.pipe = proc[p].pipe
    BY <1>1 DEF TooProcess
  <2>2. proc'[p] = IF p \in ps THEN dead ELSE IF proc[p].parent \in ps THEN orphan ELSE proc[p]
    BY DEF Too!Without, dead
  <2> HIDE DEF orphan
  <2> QED BY <1>1, <2>1, <2>2
<1>4. proc' = [p \in Too!Procs |-> proc'[p]]
  BY DEF Too!Without
<1>5. \A p \in Too!Procs : proc'[p] \in TooProcess
  BY <1>2, <1>3
<1> QED BY <1>2, <1>3, <1>4, <1>5

(* A change to the record of one process.                                   *)
LEMMA TooChange ==
    ASSUME TooInv, NEW p \in Too!Procs, NEW r \in TooProcess, Too!Behaves([proc EXCEPT ![p] = r])
    PROVE  /\ UNCHANGED <<pc, why, answer, code, known, stop, late>>
           /\ proc' \in [Too!Procs -> TooProcess] /\ proc'[p] = r
           /\ \A q \in Too!Procs : q # p => proc'[q] = proc[q]
  BY DEF Too!Behaves, TooInv, TooTyped

(* The steps of the run keep it,                                            *)
LEMMA TooRunStays == ASSUME TooInv, Too!RunStep PROVE TooInv'
<1>0. Too!Tool \in Too!Procs
  BY TooTool
<1>1. CASE Too!Wait
  <2>1. TooTyped'
    BY <1>1 DEF TooInv, TooTyped, Too!Wait, Too!Terminates, Too!Ends
  <2>2. TooOrder' /\ Too!NothingOutlives'
    BY <1>1 DEF TooInv, TooOrder, Too!NothingOutlives, Too!Wait, Too!Terminates, Too!Ends, Too!Up
  <2> QED BY <2>1, <2>2 DEF TooInv
<1>2. CASE Too!Drain
  <2>1. TooTyped'
    BY <1>2 DEF TooInv, TooTyped, Too!Drain, Too!Terminates, Too!Ends
  <2>2. TooOrder' /\ Too!NothingOutlives'
    BY <1>2 DEF TooInv, TooOrder, Too!NothingOutlives, Too!Drain, Too!Terminates, Too!Ends,
       Too!Up, Too!Piped
  <2> QED BY <2>1, <2>2 DEF TooInv
<1>3. CASE Too!Walk
  <2>1. TooTyped'
    BY <1>3 DEF TooInv, TooTyped, Too!Walk, Too!Below
  <2>2. TooOrder' /\ Too!NothingOutlives'
    BY <1>3 DEF TooInv, TooOrder, Too!NothingOutlives, Too!Walk, Too!Up
  <2> QED BY <2>1, <2>2 DEF TooInv
<1>4. CASE Too!Group
  <2>0. /\ pc = "group" /\ pc' = "rest" /\ UNCHANGED <<why, answer, known>>
        /\ proc' \in [Too!Procs -> TooProcess] /\ proc'[Too!Tool].st = "dead"
    BY <1>0, <1>4, TooDeaths DEF Too!Group
  <2>1. TooTyped'
    BY <2>0 DEF TooInv, TooTyped
  <2>2. TooOrder' /\ Too!NothingOutlives'
    BY <2>0 DEF TooInv, TooOrder, Too!NothingOutlives, Too!Up
  <2> QED BY <2>1, <2>2 DEF TooInv
<1>5. CASE Too!Rest /\ known # {}
  <2>0. PICK ps : /\ known' \subseteq known /\ proc' = Too!Without(ps)
                  /\ pc = "rest" /\ UNCHANGED <<pc, why, answer>>
    BY <1>5 DEF Too!Rest
  <2>1. proc' \in [Too!Procs -> TooProcess] /\ proc'[Too!Tool].st \in {"dead", proc[Too!Tool].st}
    BY <1>0, <2>0, TooDeaths
  <2>2. TooTyped'
    BY <2>0, <2>1 DEF TooInv, TooTyped
  <2>3. TooOrder' /\ Too!NothingOutlives'
    BY <2>0, <2>1 DEF TooInv, TooOrder, Too!NothingOutlives, Too!Up
  <2> QED BY <2>2, <2>3 DEF TooInv
<1>6. CASE Too!Rest /\ known = {}
  <2>0. /\ pc = "rest" /\ pc' = "over" /\ answer' = why /\ UNCHANGED <<why, known>>
        /\ proc' = Too!Without(Too!Grouped)
    BY <1>6 DEF Too!Rest, Too!Ends, Too!KillGroup
  <2>1. /\ proc' \in [Too!Procs -> TooProcess] /\ proc'[Too!Tool].st \in {"dead", proc[Too!Tool].st}
        /\ \A p \in Too!Procs : proc'[p].st = "up" => ~proc'[p].group
    BY <1>0, <2>0, TooDeaths DEF Too!Grouped, Too!Up
  <2>2. TooTyped'
    BY <2>0, <2>1 DEF TooInv, TooTyped, TooOrder
  <2>3. TooOrder'
    BY <2>0, <2>1 DEF TooInv, TooTyped, TooOrder, Too!Up
  <2>4. Too!NothingOutlives'
    BY <2>0, <2>1, <2>3 DEF TooInv, TooTyped, TooOrder, Too!NothingOutlives, Too!Up, Too!Grouped
  <2> QED BY <2>2, <2>3, <2>4 DEF TooInv
<1> QED BY <1>1, <1>2, <1>3, <1>4, <1>5, <1>6 DEF Too!RunStep, Too!Rest

(* Whoever is in the group or has the pipe is so already, or was started by *)
(* one who is.                                                              *)
TooNoMore ==
    \A q \in Too!Procs : proc'[q].st = "up" =>
        /\ proc'[q].group => \E o \in Too!Procs : proc[o].st = "up" /\ proc[o].group
        /\ proc'[q].pipe => \E o \in Too!Procs : proc[o].st = "up" /\ proc[o].pipe

(* so do those of the processes,                                            *)
LEMMA TooOthersStay ==
    ASSUME TooInv, NEW p \in Too!Procs,
           Too!LeaveGroup(p) \/ Too!ClosePipe(p) \/ Too!Exit(p) \/ \E q \in Too!Procs : Too!Fork(p, q)
    PROVE  TooInv'
<1>0. Too!Tool \in Too!Procs /\ proc \in [Too!Procs -> TooProcess] /\ proc[Too!Tool].st # "none"
  BY TooTool DEF TooInv, TooTyped, TooOrder
<1>1. SUFFICES /\ UNCHANGED <<pc, why, answer, known>> /\ proc' \in [Too!Procs -> TooProcess]
               /\ proc'[Too!Tool].st # "none"
                  /\ (proc'[Too!Tool].st = "up" => proc[Too!Tool].st = "up")
               /\ TooNoMore
  <2>1. TooTyped'
    BY <1>1 DEF TooInv, TooTyped
  <2>2. TooOrder' /\ Too!NothingOutlives'
    BY <1>1 DEF TooInv, TooTyped, TooOrder, Too!NothingOutlives, TooNoMore, Too!Grouped,
       Too!Piped, Too!Up
  <2> QED BY <2>1, <2>2 DEF TooInv
<1>2. CASE Too!LeaveGroup(p)
  <2> DEFINE r == [proc[p] EXCEPT !.group = FALSE]
  <2>1. r \in TooProcess /\ r.st = proc[p].st /\ ~r.group /\ r.pipe = proc[p].pipe
    BY <1>0 DEF TooProcess
  <2>2. Too!Behaves([proc EXCEPT ![p] = r])
    BY <1>2 DEF Too!LeaveGroup
  <2> HIDE DEF r
  <2>3. /\ UNCHANGED <<pc, why, answer, known>> /\ proc' \in [Too!Procs -> TooProcess]
           /\ proc'[p] = r
        /\ \A q \in Too!Procs : q # p => proc'[q] = proc[q]
    BY <2>1, <2>2, TooChange
  <2> QED BY <1>0, <2>1, <2>3 DEF TooNoMore
<1>3. CASE Too!ClosePipe(p)
  <2> DEFINE r == [proc[p] EXCEPT !.pipe = FALSE]
  <2>1. r \in TooProcess /\ r.st = proc[p].st /\ r.group = proc[p].group /\ ~r.pipe
    BY <1>0 DEF TooProcess
  <2>2. Too!Behaves([proc EXCEPT ![p] = r])
    BY <1>3 DEF Too!ClosePipe
  <2> HIDE DEF r
  <2>3. /\ UNCHANGED <<pc, why, answer, known>> /\ proc' \in [Too!Procs -> TooProcess]
           /\ proc'[p] = r
        /\ \A q \in Too!Procs : q # p => proc'[q] = proc[q]
    BY <2>1, <2>2, TooChange
  <2> QED BY <1>0, <2>1, <2>3 DEF TooNoMore
<1>4. CASE Too!Exit(p)
  <2>1. UNCHANGED <<pc, why, answer, known>> /\ proc' = Too!Without({p})
    BY <1>4 DEF Too!Exit, Too!Behaves
  <2> QED BY <1>0, <2>1, TooDeaths DEF TooNoMore
<1>5. ASSUME NEW q \in Too!Procs, Too!Fork(p, q)
      PROVE  /\ UNCHANGED <<pc, why, answer, known>> /\ proc' \in [Too!Procs -> TooProcess]
             /\ proc'[Too!Tool].st # "none"
                /\ (proc'[Too!Tool].st = "up" => proc[Too!Tool].st = "up")
             /\ TooNoMore
  <2> DEFINE r == [proc[p] EXCEPT !.parent = p]
  <2>1. r \in TooProcess /\ r.st = proc[p].st /\ r.group = proc[p].group /\ r.pipe = proc[p].pipe
    BY <1>0 DEF TooProcess
  <2>2. Too!Up(p) /\ proc[q].st = "none" /\ Too!Behaves([proc EXCEPT ![q] = r])
    BY <1>5 DEF Too!Fork
  <2> HIDE DEF r
  <2> QED BY <1>0, <2>1, <2>2, TooChange DEF TooNoMore, Too!Grouped, Too!Piped, Too!Up
<1> QED BY <1>2, <1>3, <1>4, <1>5

(* and so does every step.                                                  *)
LEMMA TooStays == ASSUME TooInv, [Too!Next]_Too!vars PROVE TooInv'
<1>1. CASE UNCHANGED Too!vars
  BY <1>1 DEF Too!vars, TooInv, TooTyped, TooOrder, Too!NothingOutlives, Too!Grouped, Too!Piped,
     Too!Up
<1>2. CASE Too!Cancel \/ Too!Deadline
  BY <1>2 DEF Too!Cancel, Too!Deadline, TooInv, TooTyped, TooOrder, Too!NothingOutlives,
     Too!Grouped, Too!Piped, Too!Up
<1> QED BY <1>1, <1>2, TooRunStays, TooOthersStay DEF Too!Next

(* What is to be shown of it.                                               *)
LEMMA TooImplies == ASSUME TooInv PROVE Too!NothingOutlives
  BY DEF TooInv

(* What a caller is told of a tool is so, however long ago.                 *)
THEOREM TooOutlives == ASSUME MaxHelpers \in Nat PROVE Too!Spec => []Too!NothingOutlives
<1>1. TooInv => Too!NothingOutlives
  BY TooImplies
<1> QED BY <1>1, TooStarts, TooStays, PTL DEF Too!Spec

-----------------------------------------------------------------------------
(***************************************************************************)
(* The installer (Installer)                                               *)
(*                                                                         *)
(* The invariant says what each place of an installation makes of the      *)
(* directories.                                                            *)
(***************************************************************************)

InsPcs == {"rest", "archive", "download", "look", "extract", "clear", "activate", "check"}
InsOwn == [pc : InsPcs, mirror : Int, staging : SUBSET Files]

(* One installer at a time, and the manifest is a file of the release.      *)
OneInstaller == Manifest \in Files /\ \A i, j \in Installers : i = j

(* A tree with its manifest is whole; past the hash the archive is the      *)
(* pinned one; from extract to activate no tree is in place, and what is    *)
(* cleared for or activated is the whole release.                           *)
InsInv ==
    /\ archive \in {"none", "good", "bad"} /\ final \subseteq Files /\ told \in BOOLEAN
    /\ own \in [Installers -> InsOwn]
    /\ told /\ (Ins!Found => final = Files)
    /\ \A i \in Installers :
          /\ own[i].pc \in {"look", "extract", "clear", "activate"} => archive = "good"
          /\ own[i].pc \in {"extract", "clear", "activate"} => ~Ins!Found
          /\ own[i].pc \in {"clear", "activate"} => own[i].staging = Files

(* Whatever the disk holds, an installation begins with the invariant.      *)
LEMMA InsStarts == ASSUME OneInstaller, Ins!Init PROVE InsInv
<1>1. Ins!Rest \in InsOwn /\ Ins!Rest.pc = "rest"
  BY DEF Ins!Rest, InsOwn, InsPcs
<1> QED BY <1>1 DEF Ins!Init, InsInv, Ins!Found

(* What a step makes of the installer that takes it.                        *)
InsTurns(i, place, staging) ==
    /\ own' \in [Installers -> InsOwn]
    /\ own'[i].pc = place /\ own'[i].staging = staging
    /\ \A j \in Installers : j # i => own'[j] = own[j]

(* The steps of an installer change its own record only.                    *)
LEMMA InsMoves ==
    ASSUME InsInv, NEW i \in Installers
    PROVE  /\ \A place \in InsPcs : Ins!Goes(i, place) => InsTurns(i, place, own[i].staging)
           /\ Ins!Stops(i) => InsTurns(i, "rest", {})
           /\ own' = [own EXCEPT ![i].pc = "download", ![i].mirror = 1]
              => InsTurns(i, "download", own[i].staging)
           /\ own' = [own EXCEPT ![i].mirror = @ + 1] => InsTurns(i, own[i].pc, own[i].staging)
           /\ \A f \in Files : own' = [own EXCEPT ![i].staging = @ \cup {f}] =>
                 InsTurns(i, own[i].pc, own[i].staging \cup {f})
<1>1. own \in [Installers -> InsOwn] /\ own[i] \in InsOwn
  BY DEF InsInv
<1>2. ASSUME NEW r \in InsOwn, own' = [own EXCEPT ![i] = r] PROVE InsTurns(i, r.pc, r.staging)
  BY <1>1, <1>2 DEF InsTurns
<1>3. ASSUME NEW place \in InsPcs, Ins!Goes(i, place) PROVE InsTurns(i, place, own[i].staging)
  <2> DEFINE r == [own[i] EXCEPT !.pc = place]
  <2>1. r \in InsOwn /\ r.pc = place /\ r.staging = own[i].staging
    BY <1>1 DEF InsOwn
  <2>2. own' = [own EXCEPT ![i] = r]
    BY <1>3 DEF Ins!Goes
  <2> HIDE DEF r
  <2> QED BY <1>2, <2>1, <2>2
<1>4. ASSUME Ins!Stops(i) PROVE InsTurns(i, "rest", {})
  <2>1. Ins!Rest \in InsOwn /\ Ins!Rest.pc = "rest" /\ Ins!Rest.staging = {}
    BY DEF Ins!Rest, InsOwn, InsPcs
  <2> QED BY <1>2, <1>4, <2>1 DEF Ins!Stops
<1>5. ASSUME own' = [own EXCEPT ![i].pc = "download", ![i].mirror = 1]
      PROVE  InsTurns(i, "download", own[i].staging)
  <2> DEFINE p == [own[i] EXCEPT !.pc = "download"]
             r == [p EXCEPT !.mirror = 1]
  <2>1. p \in InsOwn /\ p.pc = "download" /\ p.staging = own[i].staging
    BY <1>1 DEF InsOwn, InsPcs
  <2>2. own' = [own EXCEPT ![i] = r]
    BY <1>5
  <2> HIDE DEF p
  <2>3. r \in InsOwn /\ r.pc = "download" /\ r.staging = own[i].staging
    BY <2>1 DEF InsOwn
  <2> HIDE DEF r
  <2> QED BY <1>2, <2>2, <2>3
<1>6. ASSUME own' = [own EXCEPT ![i].mirror = @ + 1] PROVE InsTurns(i, own[i].pc, own[i].staging)
  <2> DEFINE r == [own[i] EXCEPT !.mirror = @ + 1]
  <2>1. r \in InsOwn /\ r.pc = own[i].pc /\ r.staging = own[i].staging
    BY <1>1 DEF InsOwn
  <2>2. own' = [own EXCEPT ![i] = r]
    BY <1>6
  <2> HIDE DEF r
  <2> QED BY <1>2, <2>1, <2>2
<1>7. ASSUME NEW f \in Files, own' = [own EXCEPT ![i].staging = @ \cup {f}]
      PROVE  InsTurns(i, own[i].pc, own[i].staging \cup {f})
  <2> DEFINE r == [own[i] EXCEPT !.staging = @ \cup {f}]
  <2>1. r \in InsOwn /\ r.pc = own[i].pc /\ r.staging = own[i].staging \cup {f}
    BY <1>1 DEF InsOwn
  <2>2. own' = [own EXCEPT ![i] = r]
    BY <1>7
  <2> HIDE DEF r
  <2> QED BY <1>2, <2>1, <2>2
<1> QED BY <1>3, <1>4, <1>5, <1>6, <1>7

(* One step of the installation.                                            *)
LEMMA InsStays == ASSUME OneInstaller, InsInv, [Ins!Next]_Ins!vars PROVE InsInv'
<1>1. CASE UNCHANGED Ins!vars
  BY <1>1 DEF Ins!vars, InsInv, Ins!Found
<1>2. ASSUME NEW i \in Installers,
             \/ Ins!Begin(i) \/ Ins!LookAtArchive(i) \/ Ins!Download(i) \/ Ins!Look(i) \/ Ins!Extract(i)
             \/ Ins!Clear(i) \/ Ins!Activate(i) \/ Ins!CheckRoot(i) \/ Ins!Fail(i)
      PROVE  InsInv'
  <2>0. \A j \in Installers : j = i
    BY DEF OneInstaller
  <2>1. CASE Ins!Begin(i)
    BY <2>1, <2>0, InsMoves DEF Ins!Begin, InsInv, InsTurns, InsPcs, Ins!Found, Ins!At
  <2>2. CASE Ins!LookAtArchive(i)
    BY <2>2, <2>0, InsMoves DEF Ins!LookAtArchive, InsInv, InsTurns, InsPcs, Ins!Found, Ins!At
  <2>3. CASE Ins!Download(i)
    BY <2>3, <2>0, InsMoves DEF Ins!Download, InsInv, InsTurns, InsPcs, Ins!Found, Ins!At
  <2>4. CASE Ins!Look(i)
    BY <2>4, <2>0, InsMoves DEF Ins!Look, InsInv, InsTurns, InsPcs, Ins!Found, Ins!At, Ins!Returns
  <2>5. CASE Ins!Extract(i)
    BY <2>5, <2>0, InsMoves DEF Ins!Extract, Ins!Extracts, InsInv, InsTurns, InsPcs, Ins!Found,
       Ins!At
  <2>6. CASE Ins!Clear(i)
    BY <2>6, <2>0, InsMoves DEF Ins!Clear, InsInv, InsTurns, InsPcs, Ins!Found, Ins!At
  <2>7. CASE Ins!Activate(i)
    BY <2>7, <2>0, InsMoves DEF Ins!Activate, InsInv, InsTurns, InsPcs, Ins!Found, Ins!At
  <2>8. CASE Ins!CheckRoot(i)
    BY <2>8, <2>0, InsMoves DEF Ins!CheckRoot, InsInv, InsTurns, InsPcs, Ins!Found, Ins!At,
       Ins!Returns
  <2>9. CASE Ins!Fail(i)
    BY <2>9, <2>0, InsMoves DEF Ins!Fail, InsInv, InsTurns, InsPcs, Ins!Found, Ins!At
  <2> QED BY <1>2, <2>1, <2>2, <2>3, <2>4, <2>5, <2>6, <2>7, <2>8, <2>9
<1> QED BY <1>1, <1>2 DEF Ins!Next

(* What is to be shown of it.                                               *)
LEMMA InsImplies == ASSUME InsInv PROVE Ins!WholeOrAbsent
  BY DEF InsInv, Ins!WholeOrAbsent

(* What is found installed is complete.                                     *)
THEOREM InsWhole == ASSUME OneInstaller PROVE Ins!Spec => []Ins!WholeOrAbsent
<1>1. InsInv => Ins!WholeOrAbsent
  BY InsImplies
<1> QED BY <1>1, InsStarts, InsStays, PTL DEF Ins!Spec

-----------------------------------------------------------------------------
(***************************************************************************)
(* The navigation (Navigation)                                             *)
(*                                                                         *)
(* A batch tells of every event after its cursor or of a loss, and it is   *)
(* used only where the workflow has read to; so what a waiting navigation  *)
(* has seen is everything since it began, and decides nothing.             *)
(***************************************************************************)

\* The bounds of the reads are numbers
NavConstantsOK == Budget \in Nat /\ Ring \in Nat

NavNavs == [st : Nav!NavStates, seen : Nat, from : Nat, hit : Nat]

NavBatch == [from : Nat, to : Nat, has : SUBSET Nat, lost : BOOLEAN, limit : Int]

NavTyped ==
    /\ cur \in Nat /\ kinds \in Seq(Nav!Kind) /\ cur <= Len(kinds)
    /\ wf \in [status : {"idle", "active", "cancelled", "failed"}, lcur : Nat, nav : NavNavs]
    /\ batch \in [Users -> NavBatch]

\* A batch has every event after its cursor, up to its end, or tells of a loss
NavHolds(events, b) ==
    /\ b.from <= b.to /\ b.to <= Len(events) /\ b.has \subseteq b.from + 1 .. b.to
    /\ ~b.lost => b.has = b.from + 1 .. b.to

NavBatches == \A u \in Users : NavHolds(kinds, batch[u])

\* No event in between decides a navigation
NavClear(events, from, to) == \A n \in from + 1 .. to : events[n] \notin {"match", "end"}

\* What a navigation has seen decides nothing, as long as it waits
NavSeeks(events, nav, to) ==
    nav.st = "waiting" => nav.from <= to /\ NavClear(events, nav.from, to)

NavHit(events, nav) ==
    nav.st = "matched" =>
        /\ nav.from < nav.hit /\ nav.hit <= Len(events) /\ events[nav.hit] = "match"
        /\ NavClear(events, nav.from, nav.hit - 1)

NavInv ==
    /\ NavTyped /\ NavBatches /\ Nav!CursorsAgree
    /\ Nav!Failed \/ NavSeeks(kinds, wf.nav, wf.lcur)
    /\ NavHit(kinds, wf.nav)

\* The debugger numbers its events: none is taken back
NavGrows ==
    /\ kinds' \in Seq(Nav!Kind) /\ Len(kinds) <= Len(kinds')
    /\ \A n \in 1 .. Len(kinds) : kinds'[n] = kinds[n]

(* What the debugger does adds an event or none.                            *)
LEMMA NavAppends ==
    ASSUME NavInv, NEW k \in Nav!Kind, kinds' = kinds \/ kinds' = Append(kinds, k)
    PROVE  NavGrows
<1>1. kinds \in Seq(Nav!Kind) /\ Len(kinds) \in Nat
  BY LenProperties DEF NavInv, NavTyped
<1>2. CASE kinds' = kinds
  BY <1>1, <1>2 DEF NavGrows
<1>3. CASE kinds' = Append(kinds, k)
  BY <1>1, <1>3, AppendProperties DEF NavGrows
<1> QED BY <1>2, <1>3

(* The effects of a transition on the debuggee.                             *)
LEMMA NavWorks ==
    ASSUME NavInv, NEW effect
    PROVE  /\ Nav!Works(effect) => NavGrows
           /\ Nav!Breaks(effect) => NavGrows
<1>1. "pause" \in Nav!Kind
  BY DEF Nav!Kind
<1>2. Nav!Works(effect) => kinds' = kinds \/ kinds' = Append(kinds, "pause")
  BY DEF Nav!Works
<1>3. Nav!Breaks(effect) => kinds' = kinds
  BY DEF Nav!Breaks
<1> QED BY <1>1, <1>2, <1>3, NavAppends

(* What was said of the events so far stays true as they grow.              *)
LEMMA NavLasts ==
    ASSUME NavInv, NavGrows
    PROVE  /\ \A b \in NavBatch : NavHolds(kinds, b) => NavHolds(kinds', b)
           /\ \A from \in Nat, to \in Int :
                 to <= Len(kinds) /\ NavClear(kinds, from, to) => NavClear(kinds', from, to)
           /\ \A nav \in NavNavs : NavHit(kinds, nav) => NavHit(kinds', nav)
<1>0. Len(kinds) \in Nat /\ Len(kinds') \in Nat
  BY LenProperties DEF NavInv, NavTyped, NavGrows
<1>1. ASSUME NEW b \in NavBatch, NavHolds(kinds, b) PROVE NavHolds(kinds', b)
  BY <1>0, <1>1 DEF NavHolds, NavGrows, NavBatch
<1>2. ASSUME NEW from \in Nat, NEW to \in Int, to <= Len(kinds), NavClear(kinds, from, to)
      PROVE  NavClear(kinds', from, to)
  <2>1. \A n \in from + 1 .. to : n \in 1 .. Len(kinds)
    BY <1>0, <1>2
  <2> QED BY <1>2, <2>1 DEF NavClear, NavGrows
<1>3. ASSUME NEW nav \in NavNavs, NavHit(kinds, nav) PROVE NavHit(kinds', nav)
  <2>1. CASE nav.st = "matched"
    <3>1. nav.hit \in Nat /\ nav.from \in Nat /\ nav.from < nav.hit /\ nav.hit <= Len(kinds)
      BY <1>3, <2>1 DEF NavHit, NavNavs
    <3>2. nav.hit \in 1 .. Len(kinds) /\ nav.hit - 1 \in Int /\ nav.hit - 1 <= Len(kinds)
      BY <3>1, <1>0
    <3>3. NavClear(kinds', nav.from, nav.hit - 1)
      BY <3>1, <3>2, <1>2, <1>3, <2>1 DEF NavHit
    <3>4. kinds'[nav.hit] = "match" /\ nav.hit <= Len(kinds')
      BY <1>0, <1>3, <2>1, <3>1, <3>2 DEF NavHit, NavGrows
    <3> QED BY <3>1, <3>3, <3>4 DEF NavHit
  <2>2. CASE nav.st # "matched"
    BY <2>2 DEF NavHit
  <2> QED BY <2>1, <2>2
<1> QED BY <1>1, <1>2, <1>3

\* A call drops its batch, or keeps it
NavKept(u) == batch' = batch \/ batch' = [batch EXCEPT ![u] = Nav!NoBatch]

(* Batches that are kept, or dropped, hold what they did.                   *)
LEMMA NavBatchesLast ==
    ASSUME NavInv, NavGrows, NEW u \in Users, NavKept(u)
    PROVE  batch' \in [Users -> NavBatch] /\ NavBatches'
<1>1. Nav!NoBatch \in NavBatch /\ batch \in [Users -> NavBatch]
  BY DEF Nav!NoBatch, NavBatch, NavInv, NavTyped
<1>2. NavHolds(kinds, Nav!NoBatch)
  <2>1. Len(kinds) \in Nat
    BY LenProperties DEF NavInv, NavTyped
  <2> QED BY <2>1 DEF NavHolds, Nav!NoBatch
<1>3. batch' \in [Users -> NavBatch]
  BY <1>1 DEF NavKept
<1>4. ASSUME NEW v \in Users PROVE NavHolds(kinds', batch'[v])
  <2>1. batch'[v] \in NavBatch /\ NavHolds(kinds, batch'[v])
    BY <1>1, <1>2 DEF NavKept, NavInv, NavBatches
  <2> QED BY <2>1, NavLasts
<1> QED BY <1>3, <1>4 DEF NavBatches

(* The workflow as it is: only a cursor that has failed may move alone.     *)
LEMMA NavStays ==
    ASSUME NavInv, NavGrows, NavBatches', batch' \in [Users -> NavBatch], wf' = wf,
           cur' \in Nat, cur' <= Len(kinds), cur' = cur \/ Nav!Failed
    PROVE  NavInv'
<1>1. /\ wf.nav \in NavNavs /\ wf.nav.from \in Nat /\ wf.lcur \in Nat /\ Len(kinds) \in Nat
      /\ Len(kinds') \in Nat
  BY LenProperties DEF NavInv, NavTyped, NavNavs, NavGrows
<1>2. NavTyped'
  BY <1>1 DEF NavInv, NavTyped, NavGrows
<1>3. Nav!CursorsAgree'
  BY DEF NavInv, Nav!CursorsAgree, Nav!Failed
<1>4. NavHit(kinds', wf.nav)
  BY <1>1, NavLasts DEF NavInv
<1>5. Nav!Failed \/ NavSeeks(kinds', wf.nav, wf.lcur)
  <2>1. CASE ~Nav!Failed
    <3>1. wf.lcur <= Len(kinds) /\ NavSeeks(kinds, wf.nav, wf.lcur)
      BY <2>1 DEF NavInv, NavTyped, Nav!CursorsAgree
    <3> QED BY <1>1, <3>1, NavLasts DEF NavSeeks
  <2> QED BY <2>1
<1> QED BY <1>2, <1>3, <1>4, <1>5 DEF NavInv, Nav!Failed

(* A workflow that is stored.                                               *)
LEMMA NavStores ==
    ASSUME NavInv, NavGrows, NavBatches', batch' \in [Users -> NavBatch],
           NEW nav \in NavNavs, NEW lcur \in Nat,
           NEW status \in {"idle", "active", "cancelled", "failed"},
           wf' = [status |-> status, lcur |-> lcur, nav |-> nav],
           cur' \in Nat, cur' <= Len(kinds), NavHit(kinds, nav),
           status # "failed" => lcur = cur' /\ NavSeeks(kinds, nav, lcur)
    PROVE  NavInv'
<1>1. nav.from \in Nat /\ Len(kinds) \in Nat /\ Len(kinds') \in Nat
  BY LenProperties DEF NavInv, NavTyped, NavNavs, NavGrows
<1>2. wf'.status = status /\ wf'.lcur = lcur /\ wf'.nav = nav
  OBVIOUS
<1>3. NavTyped'
  BY <1>1 DEF NavTyped, NavGrows
<1>4. Nav!CursorsAgree'
  BY <1>2 DEF Nav!CursorsAgree, Nav!Failed
<1>5. NavHit(kinds', wf'.nav)
  BY <1>2, NavLasts
<1>6. status = "failed" \/ NavSeeks(kinds', wf'.nav, wf'.lcur)
  BY <1>1, <1>2, NavLasts DEF NavSeeks
<1> QED BY <1>2, <1>3, <1>4, <1>5, <1>6 DEF NavInv, Nav!Failed

(* execute_workflow_transition: what a call stores.                         *)
LEMMA NavExecutes ==
    ASSUME NavInv, NEW u \in Users, NavKept(u), NEW nav \in NavNavs, NEW lcur \in Nat,
           NEW effect, NEW status \in {"idle", "active", "cancelled"}, NEW there,
           Nav!Execute(u, nav, lcur, effect, status, there),
           cur' \in Nat, cur' <= Len(kinds), cur' = cur \/ ~Nav!Failed,
           NavHit(kinds, nav), Nav!Failed \/ (lcur = cur' /\ NavSeeks(kinds, nav, lcur))
    PROVE  NavInv'
<1>1. NavGrows
  BY NavWorks DEF Nav!Execute
<1>2. NavBatches' /\ batch' \in [Users -> NavBatch]
  BY <1>1, NavBatchesLast
<1>3. CASE wf' = wf /\ Nav!Failed
  BY <1>1, <1>2, <1>3, NavStays
<1>4. CASE wf' = [status |-> status, lcur |-> lcur, nav |-> nav] /\ ~Nav!Failed
  BY <1>1, <1>2, <1>4, NavStores
<1>5. CASE wf' = [status |-> "failed", lcur |-> lcur, nav |-> nav]
  BY <1>1, <1>2, <1>5, NavStores
<1> QED BY <1>3, <1>4, <1>5 DEF Nav!Execute

(* A cancellation of what does not wait leaves the navigation as it is.     *)
LEMMA NavStopped ==
    ASSUME NavInv, NEW u \in Users, NavKept(u), Nav!Stopped(u), UNCHANGED cur
    PROVE  NavInv'
<1>1. NavGrows
  BY NavWorks DEF Nav!Stopped
<1>2. NavBatches' /\ batch' \in [Users -> NavBatch]
  BY <1>1, NavBatchesLast
<1>3. /\ wf \in [status : {"idle", "active", "cancelled", "failed"}, lcur : Nat, nav : NavNavs]
      /\ cur \in Nat /\ cur <= Len(kinds) /\ NavHit(kinds, wf.nav)
      /\ Nav!Failed \/ (wf.lcur = cur /\ NavSeeks(kinds, wf.nav, wf.lcur))
  BY DEF NavInv, NavTyped, Nav!CursorsAgree
<1>4. CASE Nav!Failed
  BY <1>1, <1>2, <1>3, <1>4, NavStays DEF Nav!Stopped
<1>5. CASE ~Nav!Failed
  <2>1. wf' = [status |-> "cancelled", lcur |-> wf.lcur, nav |-> wf.nav]
    BY <1>3, <1>5 DEF Nav!Stopped
  <2> QED BY <1>1, <1>2, <1>3, <1>5, <2>1, NavStores
<1> QED BY <1>4, <1>5

(* A batch that is read holds what was published after its cursor.          *)
LEMMA NavAfter ==
    ASSUME NavInv, NavConstantsOK, NEW limit \in Int, NEW b \in Nav!After(cur, limit)
    PROVE  b \in NavBatch /\ NavHolds(kinds, b) /\ b.from = cur
<1> DEFINE first == IF Nav!Oldest > cur + 1 THEN Nav!Oldest ELSE cur + 1
<1>1. cur \in Nat /\ Len(kinds) \in Nat /\ cur <= Len(kinds) /\ Ring \in Nat
  BY LenProperties DEF NavInv, NavTyped, NavConstantsOK
<1>2. first \in Nat /\ first >= cur + 1 /\ (first > cur + 1 \/ first = cur + 1)
  BY <1>1 DEF Nav!Oldest, Nav!Latest
<1>3. PICK n \in (IF Nav!Latest = cur THEN {cur} ELSE {m \in first .. Nav!Latest : m < first + limit}) :
        b = [from |-> cur, to |-> n, has |-> first .. n, lost |-> first > cur + 1,
             limit |-> limit]
  BY DEF Nav!After
<1>4. n \in Nat /\ cur <= n /\ n <= Len(kinds)
  BY <1>1, <1>2, <1>3 DEF Nav!Latest
<1>5. first .. n \subseteq cur + 1 .. n /\ first .. n \in SUBSET Nat
  BY <1>1, <1>2, <1>4
<1>6. (first > cur + 1) \in BOOLEAN
  OBVIOUS
<1> HIDE DEF first
<1>7. /\ b.from = cur /\ b.to = n /\ b.has = first .. n /\ b.lost = (first > cur + 1)
      /\ b.limit = limit /\ b \in NavBatch
  BY <1>1, <1>3, <1>4, <1>5, <1>6 DEF NavBatch
<1>8. ~b.lost => b.has = cur + 1 .. n
  BY <1>1, <1>2, <1>7
<1> QED BY <1>4, <1>5, <1>7, <1>8 DEF NavHolds

(* The first of some events.                                                *)
LEMMA NavFirst ==
    ASSUME NEW ns \in SUBSET Nat, ns # {}
    PROVE  Nav!FirstOf(ns) \in ns /\ \A m \in ns : Nav!FirstOf(ns) <= m
<1>1. PICK n \in ns : \A m \in ns : ~ (<<m, n>> \in OpToRel(<, Nat))
  BY NatLessThanWellFounded, WFMin
<1>2. \A m \in ns : n <= m
  <2>1. ASSUME NEW m \in ns, m < n PROVE FALSE
    BY <1>1, <2>1 DEF OpToRel
  <2> QED BY <2>1
<1> QED BY <1>1, <1>2 DEF Nav!FirstOf

(* Counting is the same in every module.                                    *)
LEMMA NavCount == ASSUME NEW S PROVE Nav!Cardinality(S) = Cardinality(S)
  BY DEF Nav!Cardinality, Cardinality

(* consume_navigation_events: the first decisive event of a batch ends a    *)
(* navigation, unless the budget ends it before; otherwise none was there.  *)
LEMMA NavConsumed ==
    ASSUME NavInv, NavConstantsOK, NEW b \in NavBatch, NavHolds(kinds, b), b.from = cur,
           Nav!Waiting, ~Nav!Failed
    PROVE  /\ Nav!Consumed(b) \in NavNavs
           /\ NavHit(kinds, Nav!Consumed(b)) /\ NavSeeks(kinds, Nav!Consumed(b), b.to)
<1> DEFINE nav   == wf.nav
           rest  == Budget - nav.seen
           upTo(n) == Cardinality({m \in b.has : m <= n})
           near  == {n \in Nav!Decisive(b) : upTo(n) <= rest}
           size  == Cardinality(b.has)
<1>1. /\ nav \in NavNavs /\ nav.seen \in Nat /\ nav.from \in Nat /\ rest \in Int
      /\ nav.st = "waiting" /\ wf.lcur = cur /\ cur \in Nat /\ Len(kinds) \in Nat
      /\ nav.from <= cur /\ NavClear(kinds, nav.from, cur)
  BY LenProperties DEF NavInv, NavTyped, NavNavs, NavSeeks, Nav!CursorsAgree, NavConstantsOK,
     Nav!Waiting
<1>2. /\ b.to \in Nat /\ cur <= b.to /\ b.to <= Len(kinds) /\ b.has \in SUBSET Nat
      /\ b.has \subseteq cur + 1 .. b.to
      /\ ~b.lost => b.has = cur + 1 .. b.to
  BY DEF NavHolds, NavBatch
<1>3. IsFiniteSet(b.has) /\ size \in Nat
  <2>1. cur + 1 \in Int /\ b.to \in Int
    BY <1>1, <1>2
  <2>2. IsFiniteSet(cur + 1 .. b.to)
    BY <2>1, FS_Interval
  <2> QED BY <1>2, <2>2, FS_Subset, FS_CardinalityType
<1>4. ASSUME NEW n \in Nat
      PROVE  /\ upTo(n) \in Nat /\ upTo(n) <= size
             /\ \A m \in Nat : m <= n => upTo(m) <= upTo(n)
  <2>1. /\ {m \in b.has : m <= n} \in SUBSET b.has
        /\ IsFiniteSet({m \in b.has : m <= n})
    BY <1>3, FS_Subset
  <2>2. upTo(n) \in Nat /\ upTo(n) <= size
    BY <1>3, <2>1, FS_Subset, FS_CardinalityType
  <2>3. ASSUME NEW m \in Nat, m <= n PROVE upTo(m) <= upTo(n)
    <3>1. {k \in b.has : k <= m} \in SUBSET {k \in b.has : k <= n}
      BY <1>2, <2>3
    <3> QED BY <2>1, <3>1, FS_Subset
  <2> QED BY <2>2, <2>3
<1>5. near \in SUBSET Nat /\ near \subseteq b.has /\ Nav!Decisive(b) \subseteq b.has
  BY <1>2 DEF Nav!Decisive
<1>6. \A m \in Nav!Decisive(b) : upTo(m) <= rest => m \in near
  OBVIOUS
<1>7. "event_loss" \in Nav!NavStates /\ "matched" \in Nav!NavStates
      /\ "target_stopped" \in Nav!NavStates
      /\ "budget_exhausted" \in Nav!NavStates
  BY DEF Nav!NavStates
<1>8. CASE b.lost
  <2>1. Nav!Consumed(b) = [nav EXCEPT !.st = "event_loss"]
    BY <1>8 DEF Nav!Consumed
  <2> HIDE DEF nav
  <2>2. Nav!Consumed(b) \in NavNavs /\ Nav!Consumed(b).st = "event_loss"
    BY <1>1, <1>7, <2>1 DEF NavNavs
  <2> QED BY <2>2 DEF NavHit, NavSeeks
<1>9. CASE ~b.lost /\ near # {}
  <2> DEFINE n == Nav!FirstOf(near)
  <2>1. n \in near /\ \A m \in near : n <= m
    BY <1>5, <1>9, NavFirst
  <2>2. n \in Nat /\ n \in cur + 1 .. b.to /\ upTo(n) \in Nat /\ upTo(n) <= rest
        /\ n \in Nav!Decisive(b)
    BY <1>2, <1>4, <1>5, <2>1
  <2>3. ASSUME NEW m \in cur + 1 .. n - 1 PROVE kinds[m] \notin {"match", "end"}
    <3>1. m \in Nat /\ m < n /\ m \in b.has
      BY <1>1, <1>2, <1>9, <2>2
    <3>2. SUFFICES ASSUME kinds[m] \in {"match", "end"} PROVE FALSE
      OBVIOUS
    <3>3. m \in Nav!Decisive(b)
      BY <3>1, <3>2 DEF Nav!Decisive
    <3>4. upTo(m) \in Nat /\ upTo(m) <= upTo(n)
      <4>1. m <= n
        BY <2>2, <3>1
      <4> HIDE DEF n, upTo
      <4> QED BY <1>4, <2>2, <3>1, <4>1
    <3>5. m \in near
      <4> HIDE DEF n, upTo, rest, near
      <4>1. upTo(m) <= rest
        BY <1>1, <2>2, <3>4
      <4> QED BY <1>6, <3>3, <4>1
    <3> HIDE DEF n, near
    <3> QED BY <2>1, <2>2, <3>1, <3>5
  <2>4. NavClear(kinds, nav.from, n - 1)
    <3> SUFFICES ASSUME NEW m \in nav.from + 1 .. n - 1
                 PROVE  kinds[m] \notin {"match", "end"}
      BY DEF NavClear
    <3>1. m \in nav.from + 1 .. cur \/ m \in cur + 1 .. n - 1
      BY <1>1, <2>2
    <3> QED BY <1>1, <2>3, <3>1 DEF NavClear
  <2>5. Nav!Consumed(b) = IF kinds[n] = "match"
                      THEN [nav EXCEPT !.st = "matched", !.hit = n, !.seen = nav.seen + upTo(n)]
                      ELSE [nav EXCEPT !.st = "target_stopped", !.seen = nav.seen + upTo(n)]
    BY <1>9, NavCount DEF Nav!Consumed
  <2>6. nav.seen + upTo(n) \in Nat
    BY <1>1, <2>2
  <2> HIDE DEF nav, n, upTo
  <2>7. CASE kinds[n] = "match"
    <3>1. /\ Nav!Consumed(b) \in NavNavs /\ Nav!Consumed(b).st = "matched"
             /\ Nav!Consumed(b).hit = n
          /\ Nav!Consumed(b).from = nav.from
      BY <1>1, <1>7, <2>2, <2>5, <2>6, <2>7 DEF NavNavs
    <3>2. nav.from < n /\ n <= Len(kinds)
      BY <1>1, <1>2, <2>2
    <3> QED BY <2>4, <2>7, <3>1, <3>2 DEF NavHit, NavSeeks
  <2>8. CASE kinds[n] # "match"
    <3>1. Nav!Consumed(b) \in NavNavs /\ Nav!Consumed(b).st = "target_stopped"
      BY <1>1, <1>7, <2>2, <2>5, <2>6, <2>8 DEF NavNavs
    <3> QED BY <3>1 DEF NavHit, NavSeeks
  <2> QED BY <2>7, <2>8
<1>10. CASE ~b.lost /\ near = {} /\ size >= rest
  <2>1. Nav!Consumed(b) = [nav EXCEPT !.st = "budget_exhausted", !.seen = Budget]
    BY <1>10, NavCount DEF Nav!Consumed
  <2> HIDE DEF nav
  <2>2. Nav!Consumed(b) \in NavNavs /\ Nav!Consumed(b).st = "budget_exhausted"
    BY <1>1, <1>7, <2>1 DEF NavNavs, NavConstantsOK
  <2> QED BY <2>2 DEF NavHit, NavSeeks
<1>11. CASE ~b.lost /\ near = {} /\ ~(size >= rest)
  <2>1. Nav!Consumed(b) = [nav EXCEPT !.seen = nav.seen + size]
    BY <1>11, NavCount DEF Nav!Consumed
  <2>2. ASSUME NEW m \in cur + 1 .. b.to PROVE kinds[m] \notin {"match", "end"}
    <3>1. m \in Nat /\ m \in b.has
      BY <1>1, <1>2, <1>11
    <3>2. upTo(m) \in Nat /\ upTo(m) <= size
      BY <1>4, <3>1
    <3>3. upTo(m) <= rest
      BY <1>1, <1>3, <1>11, <3>2
    <3> QED BY <1>11, <3>1, <3>3 DEF Nav!Decisive
  <2>3. NavClear(kinds, nav.from, b.to)
    <3> SUFFICES ASSUME NEW m \in nav.from + 1 .. b.to
                 PROVE  kinds[m] \notin {"match", "end"}
      BY DEF NavClear
    <3>1. m \in nav.from + 1 .. cur \/ m \in cur + 1 .. b.to
      BY <1>1, <1>2
    <3> QED BY <1>1, <2>2, <3>1 DEF NavClear
  <2>4. nav.seen + size \in Nat
    BY <1>1, <1>3
  <2> HIDE DEF nav, size
  <2>5. Nav!Consumed(b) \in NavNavs /\ Nav!Consumed(b).st = "waiting"
        /\ Nav!Consumed(b).from = nav.from
    BY <1>1, <2>1, <2>4 DEF NavNavs
  <2> QED BY <1>1, <1>2, <2>3, <2>5 DEF NavHit, NavSeeks
<1> QED BY <1>8, <1>9, <1>10, <1>11

(* What the invariant says, as the actions need it.                         *)
LEMMA NavSays ==
    ASSUME NavInv
    PROVE  /\ wf.nav \in NavNavs /\ wf.lcur \in Nat /\ cur \in Nat /\ cur <= Len(kinds)
           /\ wf.status \in {"idle", "active", "cancelled", "failed"}
           /\ NavHit(kinds, wf.nav)
           /\ Nav!Failed \/ (wf.lcur = cur /\ NavSeeks(kinds, wf.nav, wf.lcur))
  BY DEF NavInv, NavTyped, Nav!CursorsAgree

(* An end of a navigation that is no match.                                 *)
LEMMA NavEnds ==
    ASSUME NavInv, NEW st \in {"cancelled", "timed_out"}
    PROVE  /\ Nav!Ended(st) \in NavNavs /\ NavHit(kinds, Nav!Ended(st))
           /\ Nav!Failed \/ NavSeeks(kinds, Nav!Ended(st), wf.lcur)
<1>1. st \in Nav!NavStates
  BY DEF Nav!NavStates
<1>2. CASE Nav!Waiting
  <2>1. Nav!Ended(st) \in NavNavs /\ Nav!Ended(st).st = st
    BY <1>1, <1>2, NavSays DEF Nav!Ended, NavNavs
  <2> QED BY <2>1 DEF NavHit, NavSeeks
<1>3. CASE ~Nav!Waiting
  BY <1>3, NavSays DEF Nav!Ended
<1> QED BY <1>2, <1>3

(* A step that leaves the workflow and its cursor alone.                    *)
LEMMA NavRests ==
    ASSUME NavInv, UNCHANGED <<cur, wf, kinds, batch>>
    PROVE  NavInv'
  BY DEF NavInv, NavTyped, NavBatches, Nav!CursorsAgree, Nav!Failed

(* A call that was refused, or that goes on, may drop its batch.            *)
LEMMA NavDrops ==
    ASSUME NavInv, NEW u \in Users, NavKept(u), UNCHANGED <<wf, kinds>>,
           cur' \in Nat, cur' <= Len(kinds), cur' = cur \/ Nav!Failed
    PROVE  NavInv'
<1>1. NavGrows
  BY NavAppends DEF Nav!Kind
<1> QED BY <1>1, NavBatchesLast, NavStays

(* The navigation begins where the workflow has read to.                    *)
LEMMA NavNavigate == ASSUME NavInv, NEW u \in Users, Nav!Navigate(u) PROVE NavInv'
<1>1. CASE Nav!Refused(u)
  BY <1>1, NavRests DEF Nav!Navigate, Nav!Refused
<1>2. CASE /\ ~Nav!Failed
           /\ Nav!Execute(u, [st |-> "waiting", seen |-> 0, from |-> wf.lcur, hit |-> 0],
                      wf.lcur, Nav!Resume, "active", "loop")
  <2> DEFINE nav == [st |-> "waiting", seen |-> 0, from |-> wf.lcur, hit |-> 0]
  <2>1. nav \in NavNavs
    BY NavSays DEF NavNavs, Nav!NavStates
  <2>2. NavHit(kinds, nav) /\ NavSeeks(kinds, nav, wf.lcur)
    BY NavSays DEF NavHit, NavSeeks, NavClear
  <2>3. UNCHANGED <<cur, batch>>
    BY DEF Nav!Navigate
  <2> HIDE DEF nav
  <2> QED BY <1>2, <2>1, <2>2, <2>3, NavSays, NavExecutes DEF nav, NavKept
<1> QED BY <1>1, <1>2 DEF Nav!Navigate

LEMMA NavCancel == ASSUME NavInv, NEW u \in Users, Nav!Cancel(u) PROVE NavInv'
<1>0. UNCHANGED <<cur, batch>>
  BY DEF Nav!Cancel
<1>1. CASE Nav!Refused(u)
  BY <1>0, <1>1, NavRests DEF Nav!Refused
<1>2. CASE Nav!Stopped(u)
  BY <1>0, <1>2, NavStopped DEF NavKept
<1>3. CASE Nav!Execute(u, Nav!Ended("cancelled"), wf.lcur, Nav!EnsurePaused, "cancelled", "idle")
  BY <1>0, <1>3, NavSays, NavEnds, NavExecutes DEF NavKept
<1> QED BY <1>1, <1>2, <1>3 DEF Nav!Cancel

(* The events of another call are served only while nothing waits.          *)
LEMMA NavEvents ==
    ASSUME NavInv, NavConstantsOK, NEW u \in Users, Nav!Events(u) PROVE NavInv'
<1>0. UNCHANGED batch
  BY DEF Nav!Events
<1>1. CASE Nav!Waiting
  BY <1>0, <1>1, NavRests DEF Nav!Events, Nav!Refused
<1>2. CASE ~Nav!Waiting
  <2>1. PICK b \in Nav!After(cur, Budget) :
          /\ cur' = b.to
          /\ IF Nav!Failed THEN Nav!Refused(u)
             ELSE Nav!Execute(u, wf.nav, b.to, Nav!Nothing, Nav!StatusFor(wf.nav), "idle")
    BY <1>2 DEF Nav!Events
  <2>2. b.to \in Nat /\ b.to <= Len(kinds)
    BY NavAfter DEF NavConstantsOK, NavBatch, NavHolds
  <2>3. CASE Nav!Failed
    BY <1>0, <2>1, <2>2, <2>3, NavDrops DEF Nav!Refused, NavKept
  <2>4. CASE ~Nav!Failed
    <3>1. Nav!StatusFor(wf.nav) \in {"idle", "active", "cancelled"}
      BY DEF Nav!StatusFor
    <3>2. NavSeeks(kinds, wf.nav, b.to)
      BY <1>2 DEF NavSeeks, Nav!Waiting
    <3> QED BY <1>0, <2>1, <2>2, <2>4, <3>1, <3>2, NavSays, NavExecutes DEF NavKept
  <2> QED BY <2>3, <2>4
<1> QED BY <1>1, <1>2

LEMMA NavReset == ASSUME NavInv, NEW u \in Users, Nav!Reset(u) PROVE NavInv'
<1>0. UNCHANGED <<cur, batch>>
  BY DEF Nav!Reset
<1>1. NavGrows
  BY NavWorks DEF Nav!Reset
<1>2. NavBatches' /\ batch' \in [Users -> NavBatch]
  BY <1>0, <1>1, NavBatchesLast DEF NavKept
<1>3. CASE wf' = [status |-> "idle", lcur |-> Nav!NewCursor, nav |-> Nav!NoNav]
  <2>1. Nav!NoNav \in NavNavs /\ NavHit(kinds, Nav!NoNav) /\ NavSeeks(kinds, Nav!NoNav, cur)
    BY DEF Nav!NoNav, NavNavs, Nav!NavStates, NavHit, NavSeeks
  <2> QED BY <1>0, <1>1, <1>2, <1>3, <2>1, NavSays, NavStores DEF Nav!NewCursor
<1>4. CASE wf' = [wf EXCEPT !.status = "failed", !.nav = Nav!Ended("cancelled")]
  <2>1. wf' = [status |-> "failed", lcur |-> wf.lcur, nav |-> Nav!Ended("cancelled")]
    BY <1>4 DEF NavInv, NavTyped
  <2> QED BY <1>0, <1>1, <1>2, <2>1, NavSays, NavEnds, NavStores
<1> QED BY <1>3, <1>4 DEF Nav!Reset

(* The head of the loop: a bound for the next read, or an end.              *)
LEMMA NavLoop == ASSUME NavInv, NavConstantsOK, NEW u \in Users, Nav!Loop(u) PROVE NavInv'
<1>0. UNCHANGED cur
  BY DEF Nav!Loop
<1>1. CASE UNCHANGED batch /\ Nav!Refused(u)
  BY <1>0, <1>1, NavRests DEF Nav!Refused
<1>2. CASE UNCHANGED batch /\ Nav!Stopped(u)
  BY <1>0, <1>2, NavStopped DEF NavKept
<1>3. CASE /\ UNCHANGED batch
           /\ Nav!Execute(u, Nav!Ended("cancelled"), wf.lcur, Nav!EnsurePaused, "cancelled", "idle")
  BY <1>0, <1>3, NavSays, NavEnds, NavExecutes DEF NavKept
<1>4. CASE /\ UNCHANGED batch
           /\ Nav!Execute(u, Nav!Ended("timed_out"), wf.lcur, Nav!Halts, "idle", "idle")
  BY <1>0, <1>4, NavSays, NavEnds, NavExecutes DEF NavKept
<1>5. CASE /\ batch' = [batch EXCEPT ![u].limit = Nav!Max2(1, Budget - wf.nav.seen)]
           /\ UNCHANGED <<wf, kinds>>
  <2>1. Nav!Max2(1, Budget - wf.nav.seen) \in Int
    BY NavSays DEF Nav!Max2, NavConstantsOK, NavNavs
  <2>2. batch \in [Users -> NavBatch] /\ NavBatches
    BY DEF NavInv, NavTyped
  <2>3. batch' \in [Users -> NavBatch]
    BY <1>5, <2>1, <2>2 DEF NavBatch
  <2>4. ASSUME NEW v \in Users PROVE NavHolds(kinds, batch'[v])
    <3>1. /\ batch[v] \in NavBatch /\ NavHolds(kinds, batch[v])
          /\ batch'[v].from = batch[v].from /\ batch'[v].to = batch[v].to
          /\ batch'[v].has = batch[v].has /\ batch'[v].lost = batch[v].lost
      BY <1>5, <2>2 DEF NavBatch, NavBatches
    <3> QED BY <3>1 DEF NavHolds
  <2>5. NavGrows
    BY <1>5, NavAppends DEF Nav!Kind
  <2>6. NavBatches'
    BY <1>5, <2>4 DEF NavBatches
  <2> QED BY <1>0, <1>5, <2>3, <2>5, <2>6, NavSays, NavStays
<1> QED BY <1>1, <1>2, <1>3, <1>4, <1>5 DEF Nav!Loop

LEMMA NavRead == ASSUME NavInv, NavConstantsOK, NEW u \in Users, Nav!Read(u) PROVE NavInv'
<1>1. batch \in [Users -> NavBatch] /\ NavBatches /\ batch[u].limit \in Int
  BY DEF NavInv, NavTyped, NavBatch
<1>2. PICK b \in Nav!After(cur, batch[u].limit) : batch' = [batch EXCEPT ![u] = b]
  BY DEF Nav!Read
<1>3. b \in NavBatch /\ NavHolds(kinds, b)
  BY <1>1, NavAfter
<1>4. UNCHANGED <<cur, wf, kinds>>
  BY DEF Nav!Read
<1>5. NavGrows
  BY <1>4, NavAppends DEF Nav!Kind
<1>6. batch' \in [Users -> NavBatch] /\ NavBatches'
  BY <1>1, <1>2, <1>3, <1>4 DEF NavBatches
<1> QED BY <1>4, <1>5, <1>6, NavSays, NavStays

(* A batch that fits goes on where the workflow has read to.                *)
LEMMA NavBack == ASSUME NavInv, NavConstantsOK, NEW u \in Users, Nav!Back(u) PROVE NavInv'
<1>0. NavKept(u)
  BY DEF Nav!Back, NavKept
<1>1. CASE UNCHANGED <<cur, wf, kinds>>
  BY <1>0, <1>1, NavSays, NavDrops
<1>2. CASE /\ ~stop /\ Nav!Waiting /\ Nav!Fits(batch[u]) /\ cur' = batch[u].to
           /\ IF Nav!Failed
              THEN UNCHANGED <<wf, kinds>>
              ELSE Nav!Execute(u, Nav!Consumed(batch[u]), batch[u].to, Nav!ConsumeEffect(batch[u]),
                           Nav!StatusFor(Nav!Consumed(batch[u])), "loop")
  <2>1. batch[u] \in NavBatch /\ NavHolds(kinds, batch[u]) /\ batch[u].from = cur
    BY <1>2 DEF NavInv, NavTyped, NavBatches, Nav!Fits
  <2>2. batch[u].to \in Nat /\ batch[u].to <= Len(kinds)
    BY <2>1 DEF NavBatch, NavHolds
  <2>3. CASE Nav!Failed
    BY <1>0, <1>2, <2>2, <2>3, NavDrops
  <2>4. CASE ~Nav!Failed
    <3>1. /\ Nav!Consumed(batch[u]) \in NavNavs /\ NavHit(kinds, Nav!Consumed(batch[u]))
          /\ NavSeeks(kinds, Nav!Consumed(batch[u]), batch[u].to)
      BY <1>2, <2>1, <2>4, NavConsumed
    <3>2. Nav!StatusFor(Nav!Consumed(batch[u])) \in {"idle", "active", "cancelled"}
      BY DEF Nav!StatusFor
    <3> QED BY <1>0, <1>2, <2>2, <2>4, <3>1, <3>2, NavExecutes
  <2> QED BY <2>3, <2>4
<1> QED BY <1>1, <1>2 DEF Nav!Back, Nav!Refused

(* The invariant holds at first, and every step keeps it.                   *)
LEMMA NavStarts == ASSUME Nav!Init PROVE NavInv
<1>1. Nav!NoBatch \in NavBatch /\ Nav!NoNav \in NavNavs
  BY DEF Nav!NoBatch, NavBatch, Nav!NoNav, NavNavs, Nav!NavStates
<1>2. kinds \in Seq(Nav!Kind) /\ Len(kinds) = 0
  BY EmptySeq DEF Nav!Init
<1>3. NavTyped /\ Nav!CursorsAgree
  BY <1>1, <1>2 DEF Nav!Init, NavTyped, Nav!CursorsAgree
<1>4. NavBatches
  <2>1. NavHolds(kinds, Nav!NoBatch)
    BY <1>2 DEF NavHolds, Nav!NoBatch
  <2> QED BY <2>1 DEF Nav!Init, NavBatches
<1>5. NavSeeks(kinds, wf.nav, wf.lcur) /\ NavHit(kinds, wf.nav)
  BY DEF Nav!Init, Nav!NoNav, NavSeeks, NavHit
<1> QED BY <1>3, <1>4, <1>5 DEF NavInv

LEMMA NavKeeps == ASSUME NavConstantsOK, NavInv, [Nav!Next]_Nav!vars PROVE NavInv'
<1>1. CASE UNCHANGED Nav!vars
  BY <1>1, NavRests DEF Nav!vars
<1>2. ASSUME NEW u \in Users, Nav!Step(u) PROVE NavInv'
  BY <1>2, NavNavigate, NavCancel, NavEvents, NavReset, NavLoop, NavRead, NavBack DEF Nav!Step
<1>3. ASSUME NEW u \in Users, Nav!Expire(u) PROVE NavInv'
  BY <1>3, NavRests DEF Nav!Expire
<1>4. ASSUME NEW u \in Users, NEW c \in Nav!Call, Nav!Begin(u, c) PROVE NavInv'
  BY <1>4, NavRests DEF Nav!Begin
<1>5. ASSUME NEW k \in Nav!Kind, Nav!Happens(k) PROVE NavInv'
  <2>1. NavGrows /\ UNCHANGED <<cur, wf, batch>>
    BY <1>5, NavAppends DEF Nav!Happens
  <2>2. batch' \in [Users -> NavBatch] /\ NavBatches'
    <3>1. batch \in [Users -> NavBatch]
      BY DEF NavInv, NavTyped
    <3>2. ASSUME NEW u \in Users PROVE NavHolds(kinds', batch[u])
      BY <2>1, <3>1, NavLasts DEF NavInv, NavBatches
    <3> QED BY <2>1, <3>1, <3>2 DEF NavBatches
  <2> QED BY <2>1, <2>2, NavSays, NavStays
<1> QED BY <1>1, <1>2, <1>3, <1>4, <1>5 DEF Nav!Next

(* What is to be shown of it.                                               *)
LEMMA NavImplies == ASSUME NavInv PROVE Nav!CursorsAgree /\ Nav!StopsAtFirst
<1>1. wf.nav.st = "matched" => wf.nav.hit > wf.nav.from
  BY NavSays DEF NavHit, NavNavs
<1> QED BY <1>1 DEF NavInv, NavHit, NavClear, Nav!StopsAtFirst

(* Whatever calls cancel, reset, read or navigate while a navigation reads  *)
(* its events without the lock (service.py:2434), the cursors of workflow   *)
(* and session stay together, and the navigation stops at the first event   *)
(* of its pattern after the place where it began (navigation.py:204).       *)
THEOREM NavFollows == ASSUME NavConstantsOK PROVE Nav!Spec
      => [](Nav!CursorsAgree /\ Nav!StopsAtFirst)
<1>1. Nav!Init => NavInv
  BY NavStarts
<1>2. NavInv /\ [Nav!Next]_Nav!vars => NavInv'
  BY NavKeeps
<1>3. NavInv => Nav!CursorsAgree /\ Nav!StopsAtFirst
  BY NavImplies
<1> QED BY <1>1, <1>2, <1>3, PTL DEF Nav!Spec
==============================================================================
