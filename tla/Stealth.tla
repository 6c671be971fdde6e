------------------------------ MODULE Stealth ------------------------------
(***************************************************************************)
(* The profile a debugger hides under (core/service.py,                    *)
(* backends/x64dbg/stealth.py).  The plugin reads it from a file next to   *)
(* the debugger of its architecture when the debugger starts, so the file  *)
(* is shared by all sessions of an architecture and may be written only    *)
(* while none of them has a debugger.                                      *)
(*                                                                         *)
(* Launch, open and set look at the file, at the live sessions, write and  *)
(* start without a lock over it all: each is a step of its own.            *)
(*                                                                         *)
(* A definition under "What if" is not part of the specification: it is    *)
(* the definition after it with a mistake the properties must catch.       *)
(***************************************************************************)
EXTENDS Naturals, FiniteSets

CONSTANTS
    Callers,    \* threads that call
    Sessions,
    Archs,      \* architectures; each has its file
    ArchOf,     \* [Sessions -> Archs]
    Profiles,   \* PROFILE_SECTIONS without "off"
    MaxCalls    \* bound: calls

VARIABLES
    setup,    \* settings: stealth is enabled, the plugin is there, what was detected
    ini,      \* CurrentProfile of each architecture
    phase,    \* of each session's debugger: "absent", "opening", "ready"
    under,    \* the profile each debugger read when it started
    at,       \* where each caller is
    doing,    \* its call (s: the session, or the architecture a set is at), and what it read
    told,     \* the launch or open it was told succeeded
    stale,    \* history: another caller wrote since it looked at the file
    raced,    \* history: a caller about to write had found no session live before
    calls

vars == <<setup, ini, phase, under, at, doing, told, stale, raced, calls>>

Off  == "off"
Nothing == "none"
All  == Profiles \cup {Off}

NoCall == [op |-> Nothing, s |-> Nothing, want |-> Nothing, saw |-> Nothing, desired |-> Nothing,
           opens |-> FALSE, todo |-> {}]
NoTold == [s |-> Nothing, p |-> Nothing]

TypeOK ==
    /\ setup \in [enabled : BOOLEAN, plugin : BOOLEAN, detected : [Sessions -> Profiles \cup {Nothing}]]
    /\ ini \in [Archs -> All] /\ phase \in [Sessions -> {"absent", "opening", "ready"}]
    /\ under \in [Sessions -> All \cup {Nothing}]
    /\ at \in [Callers -> {"idle", "decide", "check", "write", "begin", "start", "debug", "set", "apply"}]
    /\ told \in [Callers -> [s : Sessions \cup {Nothing}, p : All \cup {Nothing}]]
    /\ stale \in [Callers -> BOOLEAN] /\ raced \in [Sessions -> BOOLEAN] /\ calls \in 0..MaxCalls

Init ==
    /\ setup \in [enabled : BOOLEAN, plugin : BOOLEAN,
                  detected : [Sessions -> Profiles \cup {Nothing}]]
    /\ ini \in [Archs -> All]
    /\ phase = [s \in Sessions |-> "absent"] /\ under = [s \in Sessions |-> Nothing]
    /\ at = [c \in Callers |-> "idle"] /\ doing = [c \in Callers |-> NoCall]
    /\ told = [c \in Callers |-> NoTold]
    /\ stale = [c \in Callers |-> FALSE] /\ raced = [s \in Sessions |-> FALSE] /\ calls = 0

-----------------------------------------------------------------------------

Goto(c, place) == at' = [at EXCEPT ![c] = place]

Fails(c) ==
    /\ Goto(c, "idle") /\ doing' = [doing EXCEPT ![c] = NoCall]
    /\ UNCHANGED told

Succeeds(c, what) ==
    /\ Goto(c, "idle") /\ doing' = [doing EXCEPT ![c] = NoCall]
    /\ told' = [told EXCEPT ![c] = what]

Sessions_ == <<phase, under, raced>>

\* What if only debuggers that are ready counted?
ActiveWhenReady(s) == phase[s] = "ready"

\* active_session_ids: opening or ready
Active(s) == phase[s] # "absent"

LiveStealthSessions(a) == {s \in Sessions : ArchOf[s] = a /\ Active(s)}

(* dynamic_launch looks at the file first; dynamic_open only when the      *)
(* session has no debugger                                                 *)
Call(c) ==
    /\ at[c] = "idle" /\ calls < MaxCalls /\ calls' = calls + 1
    /\ told' = [told EXCEPT ![c] = NoTold]
    /\ \E s \in Sessions :
           \/ \E want \in All \cup {Nothing} :
                  /\ doing' = [doing EXCEPT ![c] = [NoCall EXCEPT
                         !.op = "launch", !.s = s, !.want = want, !.saw = ini[ArchOf[s]]]]
                  /\ Goto(c, "decide")
           \/ /\ doing' = [doing EXCEPT ![c] = [NoCall EXCEPT
                     !.op = "open", !.s = s, !.saw = ini[ArchOf[s]], !.opens = TRUE]]
              /\ Goto(c, IF Active(s) THEN "begin" ELSE "decide")
    /\ stale' = [stale EXCEPT ![c] = FALSE]
    /\ UNCHANGED <<setup, ini, Sessions_>>

(* dynamic_stealth_set, for one session or for every architecture *)
CallSet(c) ==
    /\ at[c] = "idle" /\ calls < MaxCalls /\ calls' = calls + 1
    /\ \E p \in All, todo \in {Archs} \cup {{ArchOf[s]} : s \in Sessions} :
           doing' = [doing EXCEPT ![c] =
                        [NoCall EXCEPT !.op = "set", !.desired = p, !.todo = todo]]
    /\ Goto(c, "set") /\ told' = [told EXCEPT ![c] = NoTold]
    /\ UNCHANGED <<setup, ini, Sessions_, stale>>

-----------------------------------------------------------------------------
(* _prepare_launch_stealth *)

Desired(d) ==
    CASE d.want # Nothing                                -> d.want
      [] d.want = Nothing /\ ~setup.enabled              -> Off
      [] d.want = Nothing /\ setup.enabled /\ setup.plugin /\ setup.detected[d.s] # Nothing
                                                      -> setup.detected[d.s]
      [] OTHER                                        -> d.saw

\* The detection may take a while, and fail
Decide(c) ==
    /\ at[c] = "decide"
    /\ \/ /\ doing' = [doing EXCEPT ![c].desired = Desired(doing[c])] /\ Goto(c, "check")
          /\ UNCHANGED told
       \/ Fails(c)
    /\ UNCHANGED <<setup, ini, Sessions_, stale, calls>>

\* The session opens its debugger, or goes on to debug the target in the one it has
AfterPrepare(c, d) ==
    /\ doing' = [doing EXCEPT ![c] = d]
    /\ Goto(c, IF d.opens THEN "begin" ELSE "debug") /\ UNCHANGED told

(* An answer that the plugin is not there promises no profile *)
Check(c) ==
    LET d == [doing[c] EXCEPT !.opens = @ \/ ~Active(doing[c].s)]
        NoPlugin == ~setup.plugin /\ d.want = Nothing /\ setup.enabled
        NeedWrite == d.saw # d.desired
    IN  /\ at[c] = "check"
        /\ \/ d.want \notin {Nothing, Off} /\ ~setup.plugin /\ Fails(c)
           \/ NoPlugin /\ AfterPrepare(c, [d EXCEPT !.desired = Nothing])
           \/ /\ ~NoPlugin /\ ~(d.want \notin {Nothing, Off} /\ ~setup.plugin)
              /\ \/ ~NeedWrite /\ AfterPrepare(c, d)
                 \/ NeedWrite /\ LiveStealthSessions(ArchOf[d.s]) # {} /\ Fails(c)
                 \/ /\ NeedWrite /\ LiveStealthSessions(ArchOf[d.s]) = {}
                    /\ doing' = [doing EXCEPT ![c] = d] /\ Goto(c, "write") /\ UNCHANGED told
        /\ UNCHANGED <<setup, ini, Sessions_, stale, calls>>

(* apply_profile; every other caller's view of the file is stale then *)
Writes(c, a, p) ==
    /\ ini' = [ini EXCEPT ![a] = p]
    /\ stale' = [d \in Callers |-> stale[d] \/ (d # c /\ at[d] # "idle")]

Write(c) ==
    /\ at[c] = "write"
    /\ \/ Writes(c, ArchOf[doing[c].s], doing[c].desired) /\ AfterPrepare(c, doing[c])
       \/ Fails(c) /\ UNCHANGED <<ini, stale>>
    /\ UNCHANGED <<setup, Sessions_, calls>>

-----------------------------------------------------------------------------
(* The set of one architecture after another; one that fails leaves those  *)
(* before it changed                                                       *)

CheckIdle(c) ==
    /\ at[c] = "set"
    /\ \E a \in doing[c].todo :
           IF LiveStealthSessions(a) = {}
           THEN /\ doing' = [doing EXCEPT ![c].todo = @ \ {a}, ![c].s = a]
                /\ Goto(c, "apply") /\ UNCHANGED told
           ELSE Fails(c)
    /\ UNCHANGED <<setup, ini, Sessions_, stale, calls>>

Apply(c) ==
    /\ at[c] = "apply"
    /\ \/ /\ setup.plugin \/ doing[c].desired = Off
          /\ Writes(c, doing[c].s, doing[c].desired)
          /\ IF doing[c].todo = {} THEN Succeeds(c, NoTold)
             ELSE Goto(c, "set") /\ UNCHANGED <<doing, told>>
       \/ Fails(c) /\ UNCHANGED <<ini, stale>>
    /\ UNCHANGED <<setup, Sessions_, calls>>

-----------------------------------------------------------------------------
(* _open_backend: the debugger is reused, or claimed and started           *)

AboutToWrite(a) ==
    \E c \in Callers :
        \/ at[c] = "write" /\ ArchOf[doing[c].s] = a
        \/ at[c] = "apply" /\ doing[c].s = a

\* dynamic_launch goes on to debug; what an open without profile tells is nothing
Opened(c) ==
    IF doing[c].op = "launch" THEN Goto(c, "debug") /\ UNCHANGED <<doing, told>>
    ELSE Succeeds(c, IF doing[c].desired = Nothing THEN NoTold
                     ELSE [s |-> doing[c].s, p |-> doing[c].desired])

BeginOpen(c) ==
    LET s == doing[c].s
    IN  /\ at[c] = "begin"
        /\ \/ phase[s] = "ready" /\ Opened(c) /\ UNCHANGED Sessions_
           \/ phase[s] = "opening" /\ Fails(c) /\ UNCHANGED Sessions_
           \/ /\ phase[s] = "absent" /\ phase' = [phase EXCEPT ![s] = "opening"]
              /\ raced' = [raced EXCEPT ![s] = AboutToWrite(ArchOf[s])]
              /\ Goto(c, "start") /\ UNCHANGED <<under, doing, told>>
        /\ UNCHANGED <<setup, ini, stale, calls>>

\* The process starts and reads the file, or fails
Start(c) ==
    LET s == doing[c].s
    IN  /\ at[c] = "start"
        /\ \/ /\ under' = [under EXCEPT ![s] = ini[ArchOf[s]]]
              /\ phase' = [phase EXCEPT ![s] = "ready"] /\ Opened(c)
           \/ phase' = [phase EXCEPT ![s] = "absent"] /\ Fails(c) /\ UNCHANGED under
        /\ UNCHANGED <<setup, ini, raced, stale, calls>>

\* debug.launch
DebugLaunch(c) ==
    /\ at[c] = "debug"
    /\ \/ /\ phase[doing[c].s] = "ready"
          /\ Succeeds(c, IF doing[c].desired = Nothing THEN NoTold
                         ELSE [s |-> doing[c].s, p |-> doing[c].desired])
       \/ Fails(c)
    /\ UNCHANGED <<setup, ini, Sessions_, stale, calls>>

(* The debugger is closed or dies, and what was told of it is past *)
Ends(s) ==
    /\ phase[s] = "ready" /\ phase' = [phase EXCEPT ![s] = "absent"]
    /\ under' = [under EXCEPT ![s] = Nothing] /\ raced' = [raced EXCEPT ![s] = FALSE]
    /\ told' = [c \in Callers |-> IF told[c].s = s THEN NoTold ELSE told[c]]
    /\ UNCHANGED <<setup, ini, at, doing, stale, calls>>

Next ==
    \/ \E c \in Callers :
           \/ Call(c) \/ CallSet(c) \/ Decide(c) \/ Check(c) \/ Write(c) \/ CheckIdle(c)
           \/ Apply(c) \/ BeginOpen(c) \/ Start(c) \/ DebugLaunch(c)
    \/ \E s \in Sessions : Ends(s)

Spec == Init /\ [][Next]_vars

-----------------------------------------------------------------------------
(* Properties *)

(* The file says what a running debugger hides under, unless a caller had  *)
(* found no live session before this one began to open                     *)
(* (_require_arch_idle_for_stealth).                                       *)
FileIsWhatRuns ==
    \A s \in Sessions : phase[s] = "ready" => under[s] = ini[ArchOf[s]] \/ raced[s]

(* A launch or an open that answers a profile has its debugger run under   *)
(* it, unless another caller wrote the file in between                     *)
(* (_prepare_launch_stealth).                                              *)
ToldWhatRuns ==
    \A c \in Callers : told[c] # NoTold =>
        under[told[c].s] = told[c].p \/ stale[c] \/ raced[told[c].s]
=============================================================================
