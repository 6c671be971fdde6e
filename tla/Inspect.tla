------------------------------ MODULE Inspect ------------------------------
(***************************************************************************)
(* The calls that look at a paused target (service_dynamic_inspect.py)     *)
(* over one x64dbg runtime: reads and writes passed on to the worker, the  *)
(* module lists, the search for imports and the dump of a module into an   *)
(* artifact.                                                               *)
(*                                                                         *)
(* A section under runtime.lock is one step unless the target can move     *)
(* within it (a dump lists the modules, dumps, and lists them again).      *)
(* When events were lost the runtime notes that what callers know of the   *)
(* modules may be stale; dumps and searches are refused until a list has   *)
(* been read.                                                              *)
(*                                                                         *)
(* A definition under "What if" is not part of the specification: it is    *)
(* the definition after it with a mistake the properties must catch.       *)
(***************************************************************************)
EXTENDS Integers

CONSTANTS
    Callers,   \* threads that call, each with one dump's file
    MaxCalls   \* bound: calls

VARIABLES
    at,       \* where each caller is
    told,     \* what its last call answered
    calls,
    lock,     \* holder of runtime.lock across steps, or "none"
    current,  \* the runtime is the session's
    resync,   \* runtime.snapshot_resync_required
    missed,   \* history: events were lost since the modules were last listed
    wiped,    \* history: a note of that was taken back by a list read before
    loaded,   \* the module to dump is loaded
    file,     \* the file of each caller's dump: "none", "whole" or "late"
    row,      \* it is registered
    orphan    \* dump the worker still writes though nobody waits, or "none"

vars == <<at, told, calls, lock, current, resync, missed, wiped, loaded, file, row, orphan>>

notes == <<resync, missed, wiped>>
dumps == <<file, row, orphan>>

Places == {"idle", "passing", "listing", "catalog", "rereads", "cataloging", "explicit",
           "translating", "scan", "scanning", "polling",
           "dump", "present", "dumping", "dumped", "written", "registered", "discarding"}

TypeOK ==
    /\ at \in [Callers -> Places] /\ told \in [Callers -> {"none", "ok", "failed"}]
    /\ calls \in 0..MaxCalls /\ lock \in Callers \cup {"none"}
    /\ current \in BOOLEAN /\ resync \in BOOLEAN /\ missed \in BOOLEAN
    /\ wiped \in BOOLEAN /\ loaded \in BOOLEAN
    /\ file \in [Callers -> {"none", "whole", "late"}] /\ row \in [Callers -> BOOLEAN]
    /\ orphan \in Callers \cup {"none"}

Init ==
    /\ at = [c \in Callers |-> "idle"] /\ told = [c \in Callers |-> "none"]
    /\ calls = 0 /\ lock = "none" /\ current = TRUE
    /\ resync = FALSE /\ missed = FALSE /\ wiped = FALSE /\ loaded = TRUE
    /\ file = [c \in Callers |-> "none"] /\ row = [c \in Callers |-> FALSE]
    /\ orphan = "none"

-----------------------------------------------------------------------------

Goto(c, place) == at' = [at EXCEPT ![c] = place] /\ UNCHANGED told

Return(c, answer) ==
    at' = [at EXCEPT ![c] = "idle"] /\ told' = [told EXCEPT ![c] = answer]

(* The methods that check their parameters and pass them on, and those     *)
(* that do more                                                            *)
Begin(c) ==
    /\ at[c] = "idle" /\ calls < MaxCalls /\ calls' = calls + 1
    /\ \/ Return(c, "failed") /\ UNCHANGED <<file, row>>         \* invalid_params
       \/ /\ \E method \in {"passing", "listing", "catalog", "explicit", "scan", "polling"} :
                 Goto(c, method)
          /\ UNCHANGED <<file, row>>
       \/ /\ orphan # c /\ Goto(c, "dump")
          /\ file' = [file EXCEPT ![c] = "none"] /\ row' = [row EXCEPT ![c] = FALSE]
    /\ UNCHANGED <<lock, current, notes, loaded, orphan>>

(* _runtime and _require_current_runtime under the lock *)
Enters(c, place) == at[c] = place /\ lock = "none" /\ current

TurnedAway(c) ==
    /\ at[c] \notin {"idle", "present", "dumping", "dumped", "written", "registered", "discarding"}
    /\ lock = "none" /\ ~current
    /\ Return(c, IF at[c] = "rereads" THEN "ok" ELSE "failed")
    /\ UNCHANGED <<calls, lock, current, notes, loaded, dumps>>

(* A request that is refused, or whose failure ends the runtime *)
Fails(c) ==
    /\ Return(c, "failed")
    /\ current' \in {TRUE, FALSE}
    /\ UNCHANGED <<calls, lock, notes, loaded, dumps>>

(* _dynamic_request *)
DynamicRequest(c) ==
    \/ /\ Enters(c, "passing") \/ Enters(c, "scanning")
       /\ Return(c, "ok") /\ UNCHANGED <<calls, lock, current, notes, loaded, dumps>>
    \/ (Enters(c, "passing") \/ Enters(c, "scanning")) /\ Fails(c)

(* The modules are listed: what was lost before is known *)
Lists(cleared) ==
    /\ missed' = FALSE /\ wiped' = FALSE
    /\ resync' = IF cleared THEN FALSE ELSE resync

(* Takes the note back after the list was read, events lost since included *)
TakesBack == resync' = FALSE /\ wiped' = (wiped \/ missed) /\ UNCHANGED missed

(* modules.list: the note is taken back in a section of its own, whether   *)
(* the runtime is still the session's or not                               *)
DynamicModules(c) ==
    \/ /\ Enters(c, "listing") /\ Lists(FALSE) /\ Goto(c, "rereads")
       /\ UNCHANGED <<calls, lock, current, loaded, dumps>>
    \/ Enters(c, "listing") /\ Fails(c)
    \/ /\ Enters(c, "rereads") /\ TakesBack /\ Return(c, "ok")
       /\ UNCHANGED <<calls, lock, current, loaded, dumps>>

(* _runtime_module_snapshot *)
Snapshot(c, place, next) ==
    \/ /\ Enters(c, place) /\ Lists(TRUE) /\ Goto(c, next)
       /\ UNCHANGED <<calls, lock, current, loaded, dumps>>
    \/ Enters(c, place) /\ Fails(c)

ModuleCatalog(c) ==
    \/ Snapshot(c, "catalog", "cataloging")
    \/ /\ Enters(c, "cataloging") /\ TakesBack /\ Return(c, "ok")
       /\ UNCHANGED <<calls, lock, current, loaded, dumps>>
    \/ Enters(c, "cataloging") /\ Fails(c)

(* _explicit_module_operation, module_resolve: the mapping is built and    *)
(* may not be possible                                                     *)
ExplicitModuleOperation(c) ==
    \/ Snapshot(c, "explicit", "translating")
    \/ /\ Enters(c, "translating") /\ Return(c, "ok")
       /\ UNCHANGED <<calls, lock, current, notes, loaded, dumps>>
    \/ Enters(c, "translating") /\ Fails(c)

(* What if a lost event were noted only when the page served says so, and  *)
(* not when the log could not be brought up?                               *)
NotesOnlyDropped(dropped, unrecovered) == dropped

Notes(dropped, unrecovered) == dropped \/ unrecovered

(* dynamic.events notes what was lost *)
PollEvents(c) ==
    /\ Enters(c, "polling") /\ Return(c, "ok")
    /\ \E dropped, unrecovered \in BOOLEAN :
           /\ missed' = (missed \/ dropped \/ unrecovered)
           /\ resync' = (resync \/ Notes(dropped, unrecovered))
    /\ UNCHANGED <<calls, lock, current, wiped, loaded, dumps>>

(* imports_scan looks at the note in one section and asks in another *)
ImportsScan(c) ==
    /\ Enters(c, "scan")
    /\ IF resync THEN Return(c, "failed") ELSE Goto(c, "scanning")
    /\ UNCHANGED <<calls, lock, current, notes, loaded, dumps>>

-----------------------------------------------------------------------------
(* modules_dump *)

DumpStep(c) == UNCHANGED <<calls, current, notes, loaded>>

(* The directory, the free space, then the lock, which is held over the    *)
(* three requests                                                          *)
DumpEnters(c) ==
    /\ Enters(c, "dump")
    /\ IF resync THEN Return(c, "failed") /\ UNCHANGED lock
       ELSE (Goto(c, "present") /\ lock' = c) \/ (Return(c, "failed") /\ UNCHANGED lock)
    /\ DumpStep(c) /\ UNCHANGED dumps

(* A failure leaves the lock, then discards the file *)
DumpBreaks(c, from) ==
    /\ at[c] = from /\ Goto(c, "discarding")
    /\ lock' = IF lock = c THEN "none" ELSE lock
    /\ DumpStep(c)

ListBefore(c) ==
    \/ /\ at[c] = "present" /\ loaded /\ Goto(c, "dumping")
       /\ DumpStep(c) /\ UNCHANGED <<lock, dumps>>
    \/ DumpBreaks(c, "present") /\ UNCHANGED dumps

(* The worker dumps; a caller that has stopped waiting may leave it at it  *)
WorkerDumps(c) ==
    \/ /\ at[c] = "dumping" /\ loaded /\ Goto(c, "dumped")
       /\ file' = [file EXCEPT ![c] = "whole"]
       /\ DumpStep(c) /\ UNCHANGED <<lock, row, orphan>>
    \/ DumpBreaks(c, "dumping") /\ UNCHANGED <<file, row>> /\ orphan' \in {orphan, c}

ListAfter(c) ==
    \/ /\ at[c] = "dumped" /\ loaded /\ Goto(c, "written") /\ lock' = "none"
       /\ DumpStep(c) /\ UNCHANGED dumps
    \/ DumpBreaks(c, "dumped") /\ UNCHANGED dumps

(* The path, the file and its size are checked, and it is registered; the  *)
(* timeline entry after that may fail too                                  *)
Registers(c) ==
    \/ /\ at[c] = "written" /\ file[c] = "whole" /\ Goto(c, "registered")
       /\ row' = [row EXCEPT ![c] = TRUE]
       /\ DumpStep(c) /\ UNCHANGED <<lock, file, orphan>>
    \/ DumpBreaks(c, "written") /\ UNCHANGED dumps

DumpEnds(c) ==
    \/ /\ at[c] = "registered" /\ Return(c, "ok")
       /\ DumpStep(c) /\ UNCHANGED <<lock, dumps>>
    \/ DumpBreaks(c, "registered") /\ UNCHANGED dumps

(* What if the file were left to the caller? *)
KeepsFile(c) == file

RemovesFile(c) == [file EXCEPT ![c] = "none"]

(* The file is removed, and a fatal failure ends the runtime *)
Discards(c) ==
    /\ at[c] = "discarding" /\ Return(c, "failed")
    /\ file' = RemovesFile(c)
    /\ current' \in IF orphan = c THEN {FALSE} ELSE {current, FALSE}
    /\ UNCHANGED <<calls, lock, notes, loaded, row, orphan>>

ModulesDump(c) ==
    \/ DumpEnters(c) \/ ListBefore(c) \/ WorkerDumps(c) \/ ListAfter(c)
    \/ Registers(c) \/ DumpEnds(c) \/ Discards(c)

-----------------------------------------------------------------------------
(* External: the module comes and goes, the session's backend is closed,   *)
(* the worker completes a dump nobody waits for, unless it is ended first  *)

ModuleMoves ==
    /\ loaded' = ~loaded
    /\ UNCHANGED <<at, told, calls, lock, current, notes, dumps>>

RuntimeGoes ==
    /\ current /\ current' = FALSE
    /\ UNCHANGED <<at, told, calls, lock, notes, loaded, dumps>>

OrphanEnds ==
    /\ orphan # "none" /\ orphan' = "none"
    /\ \/ UNCHANGED file
       \/ file' = [file EXCEPT ![orphan] = IF at[orphan] = "discarding" THEN "whole" ELSE "late"]
    /\ UNCHANGED <<at, told, calls, lock, current, notes, loaded, row>>

Next ==
    \/ \E c \in Callers :
           \/ Begin(c) \/ TurnedAway(c) \/ DynamicRequest(c) \/ DynamicModules(c)
           \/ ModuleCatalog(c) \/ ExplicitModuleOperation(c) \/ PollEvents(c)
           \/ ImportsScan(c) \/ ModulesDump(c)
    \/ ModuleMoves \/ RuntimeGoes \/ OrphanEnds

Spec == Init /\ [][Next]_vars

-----------------------------------------------------------------------------
(* Properties *)

(* While a dump runs, no event is known to be lost since the modules were  *)
(* last listed, unless a list read before the loss took the note back      *)
(* (_require_snapshot_fresh_locked, module_catalog, dynamic_modules).      *)
DumpsAreFresh ==
    \A c \in Callers : at[c] \in {"present", "dumping", "dumped"} /\ missed => wiped

(* A dump that answers well left its file, whole and registered; one that  *)
(* failed left none, unless the worker completed it late, when the caller  *)
(* had removed it already (modules_dump).                                  *)
FilesMatchAnswers ==
    \A c \in Callers :
        /\ at[c] = "registered" => file[c] = "whole" /\ row[c]
        /\ file[c] = "whole" => row[c] \/ at[c] \in {"dumped", "written", "discarding"}
=============================================================================
