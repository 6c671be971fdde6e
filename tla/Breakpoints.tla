---------------------------- MODULE Breakpoints ----------------------------
(***************************************************************************)
(* The breakpoints of a workflow.  A caller asks for a breakpoint at an    *)
(* offset of a module (an intent); each transition of the workflow plans   *)
(* which addresses to disarm and to arm, carries the plan out one debugger *)
(* command at a time, and stores what was acknowledged (the bindings).     *)
(* Meanwhile the module may go, come back elsewhere, or be lost sight of.  *)
(*                                                                         *)
(* A call of the workflow holds its session's lock, so one is in progress  *)
(* at a time; the debuggee goes on, and a command may fail, or be carried  *)
(* out and its answer lost (bound MaxFaults).  The debugger is external:   *)
(* it arms addresses, forgets those of a module that goes, and queues its  *)
(* events, or drops the oldest.                                            *)
(***************************************************************************)
EXTENDS Integers, Sequences, FiniteSets

LOCAL INSTANCE SequencesExt

CONSTANTS
    Intents,    \* intent ids
    Bases,      \* where the tracked module may be loaded
    Rvas,       \* offsets in the module
    MaxCalls,   \* bound: calls that change the workflow
    MaxEvents,  \* bound: events of the debugger
    MaxFaults   \* bound: commands that fail

VARIABLES
    intents,    \* BreakpointState.intents: [rva, on, once] by id
    bound,      \* BreakpointState.bindings: [addr, rev] by id
    mod,        \* the tracked module: status, base and revision
    gen,        \* ModuleLifecycleState.generation
    failed,     \* the workflow's status is FAILED
    doing,      \* the transition that is being executed
    deb,        \* the debuggee: its state, the base of its module, what is armed
    pending,    \* events the workflow has not consumed
    gap,        \* events before them were dropped
    unanswered, \* addresses armed by a command whose answer was lost
    calls, events, faults

wvars == <<intents, bound, mod, gen, failed>>
bounds == <<calls, events, faults>>
vars  == <<wvars, doing, deb, pending, gap, unanswered, bounds>>

Nowhere == 0
NoMod   == [st |-> "none", base |-> Nowhere, rev |-> 0]
Idle    == [call |-> "none"]

Without(f, x)  == [y \in DOMAIN f \ {x} |-> f[y]]
With(f, x, v)  == [y \in DOMAIN f \cup {x} |-> IF y = x THEN v ELSE f[y]]
Addresses(bnd) == {bnd[i].addr : i \in DOMAIN bnd}

TypeOK ==
    /\ DOMAIN intents \subseteq Intents /\ DOMAIN bound \subseteq DOMAIN intents
    /\ mod.st \in {"none", "valid", "stale", "unloaded"} /\ mod.rev <= gen
    /\ deb.st \in {"idle", "paused", "running"} /\ deb.base \in Bases \cup {Nowhere}
    /\ failed \in BOOLEAN /\ gap \in BOOLEAN

Init ==
    /\ intents = <<>> /\ bound = <<>> /\ mod = NoMod /\ gen = 0 /\ failed = FALSE
    /\ doing = Idle
    /\ deb = [st |-> "paused", base |-> Nowhere, armed |-> {}]
    /\ pending = <<>> /\ gap = FALSE /\ unanswered = {}
    /\ calls = 0 /\ events = 0 /\ faults = 0

-----------------------------------------------------------------------------
(* plan_breakpoint_reconciliation *)

Bindable(ints, m) == {i \in DOMAIN ints : ints[i].on /\ m.st = "valid"}

Desired(ints, m) ==
    [i \in Bindable(ints, m) |-> [addr |-> m.base + ints[i].rva, rev |-> m.rev]]

\* Two intents resolve to one address: the plan raises
Conflicts(ints, m) ==
    \E i, j \in Bindable(ints, m) : i # j /\ ints[i].rva = ints[j].rva

\* What if a binding were kept whenever its address is still the right one?
SameAddress(b, d) == b.addr = d.addr

SameBinding(b, d) == b = d

Plan(ints, m, bnd) ==
    LET des == Desired(ints, m)
        settled == {i \in DOMAIN bnd \cap DOMAIN des : SameBinding(bnd[i], des[i])}
    IN  {[kind |-> "remove", id |-> i, b |-> bnd[i]] : i \in DOMAIN bnd \ settled}
        \cup {[kind |-> "set", id |-> i, b |-> des[i]] : i \in DOMAIN des \ settled}

\* Removals go first, then additions, each in the order of their addresses
Goes(o, p) == IF o.kind = p.kind THEN o.b.addr <= p.b.addr ELSE o.kind = "remove"

-----------------------------------------------------------------------------
(* execute_workflow_transition: a transition holds the state it will store *)

Begins(call, id, ints, m, g, refresh) ==
    doing' = [call |-> call, id |-> id, ints |-> ints, mod |-> m, gen |-> g,
              bnd |-> bound, refresh |-> refresh, ops |-> Plan(ints, m, bound)]

\* What was reached is stored in a workflow that has failed
Fails ==
    /\ intents' = doing.ints /\ mod' = doing.mod /\ gen' = doing.gen
    /\ bound' = doing.bnd /\ failed' = TRUE /\ doing' = Idle

Faulty == faults < MaxFaults /\ faults' = faults + 1

Ack(o) == IF o.kind = "set" THEN With(doing.bnd, o.id, o.b) ELSE Without(doing.bnd, o.id)

Effect(o) ==
    [deb EXCEPT !.st = "paused",
                !.armed = IF o.kind = "set" THEN @ \cup {o.b.addr} ELSE @ \ {o.b.addr}]

\* The next command of the plan.  A removal of what is already gone, and any
\* without a debuggee, counts as done.
Command ==
    /\ doing # Idle /\ doing.ops # {}
    /\ UNCHANGED <<pending, gap, calls, events>>
    /\ LET o == CHOOSE p \in doing.ops : \A q \in doing.ops : Goes(p, q)
           answered == /\ doing' = [doing EXCEPT !.bnd = Ack(o), !.ops = @ \ {o}]
                       /\ UNCHANGED <<wvars, faults>>
       IN  \/ /\ deb.st = "idle" /\ UNCHANGED <<deb, unanswered>>
              /\ IF o.kind = "remove" THEN answered ELSE Fails /\ UNCHANGED faults
           \/ /\ deb.st # "idle" /\ deb' = Effect(o)
              /\ unanswered' = unanswered \ {o.b.addr} /\ answered
           \/ /\ deb.st # "idle" /\ Faulty /\ Fails
              /\ \/ deb' = [deb EXCEPT !.st = "paused"] /\ UNCHANGED unanswered
                 \/ /\ deb' = Effect(o)
                    /\ unanswered' = IF o.kind = "set" THEN unanswered \cup {o.b.addr}
                                     ELSE unanswered \ {o.b.addr}

Refreshed ==
    IF deb.base = Nowhere THEN [doing.mod EXCEPT !.st = "unloaded", !.rev = doing.gen + 1]
    ELSE [st |-> "valid", base |-> deb.base, rev |-> doing.gen + 1]

\* The module is asked for once the plan is carried out, and planned for again
Refreshing ==
    /\ doing # Idle /\ doing.ops = {} /\ doing.refresh
    /\ deb' = [deb EXCEPT !.st = IF @ = "running" THEN "paused" ELSE @]
    /\ UNCHANGED <<pending, gap, unanswered, calls, events>>
    /\ \/ /\ ~Conflicts(doing.ints, Refreshed)
          /\ doing' = [doing EXCEPT !.mod = Refreshed, !.gen = @ + 1, !.refresh = FALSE,
                                    !.ops = Plan(doing.ints, Refreshed, doing.bnd)]
          /\ UNCHANGED <<wvars, faults>>
       \/ Conflicts(doing.ints, Refreshed) /\ Fails /\ UNCHANGED faults
       \/ Faulty /\ Fails

\* A removed intent is deleted, and a reset replaces the workflow
Finish ==
    /\ doing # Idle /\ doing.ops = {} /\ ~doing.refresh
    /\ doing' = Idle
    /\ IF doing.call = "reset"
       THEN /\ intents' = <<>> /\ bound' = <<>> /\ mod' = NoMod /\ gen' = 0
            /\ failed' = FALSE
       ELSE /\ intents' = IF doing.call = "remove" THEN Without(doing.ints, doing.id) ELSE doing.ints
            /\ bound' = doing.bnd /\ mod' = doing.mod /\ gen' = doing.gen
            /\ UNCHANGED failed
    /\ UNCHANGED <<deb, pending, gap, unanswered, bounds>>

-----------------------------------------------------------------------------
(* The calls.  One that raises before it executes changes nothing. *)

Called ==
    /\ doing = Idle /\ calls < MaxCalls /\ calls' = calls + 1
    /\ UNCHANGED <<wvars, pending, gap, unanswered, events, faults>>

Stale(m) == m.st = "stale"

Transition(call, id, ints, m, g, refresh) ==
    /\ Called /\ ~failed /\ ~Conflicts(ints, m)
    /\ Begins(call, id, ints, m, g, refresh)

PutIntent(i, rva, once) ==
    /\ Transition("put", i, With(intents, i, [rva |-> rva, on |-> TRUE, once |-> once]),
                  mod, gen, Stale(mod))
    /\ UNCHANGED deb

Off(i) == With(intents, i, [intents[i] EXCEPT !.on = FALSE])

Disable(i, call) ==
    /\ i \in DOMAIN intents
    /\ Transition(call, i, Off(i), mod, gen, Stale(mod)) /\ UNCHANGED deb

\* The debuggee is paused and its modules listed before the module is tracked
Track ==
    /\ deb.base # Nowhere
    /\ Transition("track", 0, intents, [st |-> "valid", base |-> deb.base, rev |-> gen + 1],
                  gen + 1, FALSE)
    /\ deb' = [deb EXCEPT !.st = "paused"]

Untrack ==
    /\ mod.st # "none"
    /\ Transition("untrack", 0, intents, NoMod, gen + 1, FALSE) /\ UNCHANGED deb

Refresh ==
    /\ mod.st # "none"
    /\ Transition("refresh", 0, intents, mod, gen, TRUE) /\ UNCHANGED deb

Reset ==
    /\ Called
    /\ Begins("reset", 0, [i \in DOMAIN intents |-> [intents[i] EXCEPT !.on = FALSE]],
              mod, gen, Stale(mod))
    /\ UNCHANGED deb

-----------------------------------------------------------------------------
(* consume_workflow_events: what a batch makes of the module and intents *)

Changed(m, g, st) ==
    IF m.st \in {"none", st} THEN [mod |-> m, gen |-> g]
    ELSE [mod |-> [m EXCEPT !.st = st, !.rev = g + 1], gen |-> g + 1]

Consumed(batch, dropped) ==
    LET start == IF dropped THEN Changed(mod, gen, "stale") ELSE [mod |-> mod, gen |-> gen]
        next(s, e) == CASE e.kind \in {"loaded", "init"} -> Changed(s.mod, s.gen, "stale")
                        [] e.kind = "exited" -> Changed(s.mod, s.gen, "unloaded")
                        [] e.kind = "unloaded" /\ e.at = s.mod.base -> Changed(s.mod, s.gen, "unloaded")
                        [] OTHER -> s
    IN  FoldLeft(next, start, batch)

\* A breakpoint that was to be hit once is turned off when it is
AfterHits(batch) ==
    [i \in DOMAIN intents |->
        IF /\ intents[i].once /\ i \in DOMAIN bound
           /\ \E n \in DOMAIN batch : batch[n] = [kind |-> "hit", at |-> bound[i].addr]
        THEN [intents[i] EXCEPT !.on = FALSE] ELSE intents[i]]

\* A batch only unbinds, so its plan cannot raise; a workflow that has failed
\* consumes events without looking at them
Consume ==
    /\ doing = Idle /\ (pending # <<>> \/ gap)
    /\ \E k \in 0..Len(pending) :
         LET batch == SubSeq(pending, 1, k)
             after == Consumed(batch, gap)
             ints  == AfterHits(batch)
         IN  /\ k > 0 \/ pending = <<>>
             /\ pending' = SubSeq(pending, k + 1, Len(pending)) /\ gap' = FALSE
             /\ IF failed THEN UNCHANGED <<wvars, doing>>
                ELSE /\ Begins("consume", 0, ints, after.mod, after.gen, Stale(after.mod))
                     /\ UNCHANGED wvars
    /\ UNCHANGED <<deb, unanswered, bounds>>

-----------------------------------------------------------------------------
(* The debuggee, which a user may resume and restart *)

Event(kind, at, d) ==
    /\ events < MaxEvents /\ events' = events + 1
    /\ pending' = Append(pending, [kind |-> kind, at |-> at])
    /\ deb' = d /\ unanswered' = unanswered \cap d.armed
    /\ UNCHANGED <<wvars, doing, gap, calls, faults>>

Runs == deb.st = "running"
Gone == [deb EXCEPT !.base = Nowhere, !.armed = {}]

Debuggee ==
    \/ \E b \in Bases : Runs /\ deb.base = Nowhere /\ Event("loaded", b, [deb EXCEPT !.base = b])
    \/ Runs /\ deb.base # Nowhere /\ Event("unloaded", deb.base, Gone)
    \/ \E a \in deb.armed : Runs /\ Event("hit", a, [deb EXCEPT !.st = "paused"])
    \/ Runs /\ Event("exited", Nowhere, [Gone EXCEPT !.st = "idle"])
    \/ deb.st = "idle" /\ Event("init", Nowhere, [deb EXCEPT !.st = "paused"])

Resume ==
    /\ doing = Idle /\ deb.st = "paused" /\ deb' = [deb EXCEPT !.st = "running"]
    /\ UNCHANGED <<wvars, doing, pending, gap, unanswered, bounds>>

Drop ==
    /\ pending # <<>> /\ pending' = Tail(pending) /\ gap' = TRUE
    /\ UNCHANGED <<wvars, doing, deb, unanswered, bounds>>

-----------------------------------------------------------------------------

Next ==
    \/ Command \/ Refreshing \/ Finish \/ Consume \/ Track \/ Untrack \/ Refresh \/ Reset
    \/ \E i \in Intents : \/ \E rva \in Rvas, once \in BOOLEAN : PutIntent(i, rva, once)
                          \/ \E call \in {"disable", "remove"} : Disable(i, call)
    \/ Debuggee \/ Resume \/ Drop

Spec == Init /\ [][Next]_vars

-----------------------------------------------------------------------------
(* Properties *)

(* Between the calls of a workflow that has consumed the events so far and  *)
(* has not failed, the armed addresses are exactly the ones its intents     *)
(* ask for in the module as it is loaded now, whatever failed, was rebased  *)
(* or was dropped on the way (breakpoints.py:153), apart from those armed   *)
(* by a command whose answer was lost.                                      *)
CaughtUp == doing = Idle /\ ~failed /\ pending = <<>> /\ ~gap

InStep ==
    CaughtUp =>
        /\ mod.st = "valid" => mod.base = deb.base
        /\ bound = Desired(intents, mod)
        /\ deb.armed \ unanswered = Addresses(bound)
=============================================================================
