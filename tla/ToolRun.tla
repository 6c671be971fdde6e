------------------------------ MODULE ToolRun ------------------------------
(***************************************************************************)
(* run_bounded: one command line tool (upx, jadx, a Ghidra headless run)   *)
(* that must end by its deadline or when its caller cancels, with all it   *)
(* started.  The tool may start helpers, which may outlive it, leave its   *)
(* process group and keep its output pipe open.  POSIX: the tool leads a   *)
(* group of its own, and orphans get another parent.                       *)
(***************************************************************************)
EXTENDS Integers, FiniteSets

CONSTANT MaxHelpers   \* bound: processes the tool starts

VARIABLES
    pc,      \* where run_bounded is
    why,     \* why the tool is being terminated
    answer,  \* what the caller got
    proc,    \* the tool, process 0, and its helpers
    code,    \* the exit code of the tool is 0
    known,   \* descendants terminate_process_tree has found
    stop,    \* the cancel event is set
    late     \* the deadline has passed

vars == <<pc, why, answer, proc, code, known, stop, late>>

Tool    == 0
Procs   == 0..MaxHelpers
Nobody  == -1
Absent  == [st |-> "none", parent |-> Nobody, group |-> FALSE, pipe |-> FALSE]
Started == [st |-> "up", parent |-> Nobody, group |-> TRUE, pipe |-> TRUE]

Up(p)   == proc[p].st = "up"
Piped   == {p \in Procs : Up(p) /\ proc[p].pipe}
Grouped == {p \in Procs : Up(p) /\ proc[p].group}

TypeOK ==
    /\ pc \in {"wait", "drain", "walk", "group", "rest", "over"}
    /\ answer \in {"none", "completed", "failed", "timed out", "cancelled"}
    /\ \A p \in Procs : proc[p].parent \in Procs \cup {Nobody}
    /\ known \subseteq Procs

Init ==
    /\ pc = "wait" /\ why = "none" /\ answer = "none"
    /\ proc = [p \in Procs |-> IF p = Tool THEN Started ELSE Absent]
    /\ code \in BOOLEAN /\ known = {} /\ stop = FALSE /\ late = FALSE

\* proc once the processes of ps are dead: what they started becomes orphans
Without(ps) ==
    [p \in Procs |-> IF p \in ps THEN [Absent EXCEPT !.st = "dead"]
                     ELSE IF proc[p].parent \in ps THEN [proc[p] EXCEPT !.parent = Nobody]
                     ELSE proc[p]]

-----------------------------------------------------------------------------
(* run_bounded *)

Ends(what) == pc' = "over" /\ answer' = what

Terminates(reason) == pc' = "walk" /\ why' = reason /\ UNCHANGED answer

\* The loop looks at the event, then at the clock, then waits for the tool;
\* a tool that exited with 0 may leave helpers
Wait ==
    /\ pc = "wait"
    /\ UNCHANGED <<proc, code, known, stop, late>>
    /\ \/ stop /\ Terminates("cancelled")
       \/ ~stop /\ late /\ Terminates("timed out")
       \/ ~Up(Tool) /\ code /\ Ends("completed") /\ UNCHANGED why
       \/ ~Up(Tool) /\ ~code /\ pc' = "drain" /\ UNCHANGED <<why, answer>>

\* After a failure the output is read to its end, or up to the deadline
Drain ==
    /\ pc = "drain"
    /\ UNCHANGED <<proc, code, known, stop, late>>
    /\ \/ Piped = {} /\ Ends("failed") /\ UNCHANGED why
       \/ Piped # {} /\ late /\ Terminates("timed out")

-----------------------------------------------------------------------------
(* terminate_process_tree *)

\* ps and what it started, and what that started, as long as it runs: the least
\* set with ps that has every child of its members
Below(ps) ==
    LET Closed(S) == ps \subseteq S /\ {p \in Procs : Up(p) /\ proc[p].parent \in S} \subseteq S
    IN  {p \in Procs : \A S \in SUBSET Procs : Closed(S) => p \in S}

Walk ==
    /\ pc = "walk" /\ pc' = "group"
    /\ known' = Below({Tool}) \ {Tool}
    /\ UNCHANGED <<why, answer, proc, code, stop, late>>

\* What if only descendants were known, not the group?
KillNoGroup == {}

KillGroup == Grouped

\* The first sweep of the group, and the tool itself
Group ==
    /\ pc = "group" /\ pc' = "rest"
    /\ proc' = Without(KillGroup \cup {Tool})
    /\ UNCHANGED <<why, answer, code, known, stop, late>>

\* The descendants one by one, then the group again, and the caller is told
Rest ==
    /\ pc = "rest"
    /\ UNCHANGED <<why, code, stop, late>>
    /\ \/ \E p \in known :
             /\ known' = known \ {p} /\ proc' = Without({p} \cap {q \in Procs : Up(q)})
             /\ UNCHANGED <<pc, answer>>
       \/ known = {} /\ proc' = Without(KillGroup) /\ Ends(why) /\ UNCHANGED known

-----------------------------------------------------------------------------
(* The tool, its caller and the clock *)

Behaves(r) == proc' = r /\ UNCHANGED <<pc, why, answer, code, known, stop, late>>

Fork(p, q) ==
    Up(p) /\ proc[q].st = "none" /\ Behaves([proc EXCEPT ![q] = [proc[p] EXCEPT !.parent = p]])

LeaveGroup(p) == p # Tool /\ p \in Grouped /\ Behaves([proc EXCEPT ![p].group = FALSE])

ClosePipe(p) == p \in Piped /\ Behaves([proc EXCEPT ![p].pipe = FALSE])

Exit(p) == Up(p) /\ Behaves(Without({p}))

Cancel ==
    ~stop /\ stop' = TRUE /\ UNCHANGED <<pc, why, answer, proc, code, known, late>>

Deadline ==
    ~late /\ late' = TRUE /\ UNCHANGED <<pc, why, answer, proc, code, known, stop>>

-----------------------------------------------------------------------------

RunStep == Wait \/ Drain \/ Walk \/ Group \/ Rest

Next ==
    \/ RunStep \/ Cancel \/ Deadline
    \/ \E p \in Procs : LeaveGroup(p) \/ ClosePipe(p) \/ Exit(p) \/ \E q \in Procs : Fork(p, q)

Spec == Init /\ [][Next]_vars /\ WF_vars(RunStep) /\ WF_vars(Deadline)

-----------------------------------------------------------------------------
(* Properties *)

(* A caller that was told the tool was stopped finds nothing of it: what    *)
(* still runs has left the group and lost its parent before the sweep       *)
(* (process_tree.py:341).  And one that was told the tool ended finds it    *)
(* gone, after a failure with nobody left to write to its output            *)
(* (bounded_run.py:236).                                                    *)
NothingOutlives ==
    /\ answer # "none" => ~Up(Tool)
    /\ answer \in {"timed out", "cancelled"} => Grouped = {}
    /\ answer = "failed" => Piped = {}

(* Every run ends by its deadline, whatever the tool does (bounded_run.py:206). *)
Running == pc # "over"

RunEnds == []<>~Running
=============================================================================
