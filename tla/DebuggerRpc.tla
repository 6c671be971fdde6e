---------------------------- MODULE DebuggerRpc ----------------------------
(***************************************************************************)
(* The methods of the native plugin (rpc_methods.cpp) over a debugger that *)
(* is external: it has a debuggee or none, which runs or is paused, stops  *)
(* and exits by itself, refuses commands, and records traces that it ends  *)
(* for reasons of its own.  Methods run one at a time on the debugger's    *)
(* thread; the process may be killed in the midst of a dump.               *)
(*                                                                         *)
(* Bytes, names and texts are left out; a method that only reads is its    *)
(* guard and the shape of its answer.                                      *)
(*                                                                         *)
(* A definition under "What if" is not part of the specification: it is    *)
(* the definition after it with a mistake the properties must catch.       *)
(***************************************************************************)
EXTENDS Integers, FiniteSets

CONSTANTS
    Last,          \* addresses are 1..Last, one byte each
    Tids,          \* threads of the debuggee
    RestoreLimit,  \* bytes one restore gives back (4096)
    Chunks,        \* chunks of a module's dump
    MaxCalls       \* bound: methods called

VARIABLES
    deb,      \* the debuggee: its state and the debugger's current thread
    points,   \* breakpoints, with or without a condition
    patched,  \* addresses whose byte is a patch
    loaded,   \* the module that is dumped is loaded
    dump,     \* chunks written by the dump in progress, or None
    partial,  \* chunks in the temporary file, or None
    final,    \* chunks in the file of the last dump, or None
    rec,      \* the recorder of the debugger
    quota,    \* TraceQuotaState
    answer,   \* what the last method answered
    before,   \* history: current thread and patches when it was called
    known,    \* history: the end of this trace that an answer has told
    calls

vars == <<deb, points, patched, loaded, dump, partial, final, rec, quota,
          answer, before, known, calls>>
external == <<deb, points, patched, loaded, rec>>
files    == <<dump, partial, final>>
traces   == <<rec, quota, known>>

None      == -1
Addresses == 1..Last
Kinds     == {"software", "hardware", "memory"}
Limits    == {"max_events", "timeout", "max_file_bytes"}
Reasons   == Limits \cup {"none", "cancelled", "write_error", "target_exited"}

Ok(shape)   == [ok |-> TRUE, is |-> shape]
Failed(why) == [ok |-> FALSE, is |-> why]

TypeOK ==
    /\ deb \in [st : {"idle", "paused", "running"}, tid : Tids]
    /\ points \subseteq [kind : Kinds, at : Addresses, cond : BOOLEAN]
    /\ patched \subseteq Addresses /\ loaded \in BOOLEAN
    /\ {dump, partial, final} \subseteq 0..Chunks \cup {None}
    /\ rec \in [on : BOOLEAN, why : Reasons, heard : BOOLEAN]
    /\ quota.why \in Reasons \cup {"not_started", "stopped", "telemetry_unavailable"}
    /\ calls \in 0..MaxCalls

NoTrace == [init |-> FALSE, active |-> FALSE, cancel |-> FALSE, why |-> "not_started"]

Init ==
    /\ deb \in [st : {"idle"}, tid : Tids]
    /\ points = {} /\ patched = {} /\ loaded = TRUE
    /\ dump = None /\ partial = None /\ final = None
    /\ rec = [on |-> FALSE, why |-> "none", heard |-> TRUE]
    /\ quota = NoTrace /\ known = "none"
    /\ answer = Ok("none") /\ before = [tid |-> deb.tid, patched |-> {}] /\ calls = 0

-----------------------------------------------------------------------------
(* Guards and answers *)

Debugging == deb.st # "idle"

RequireDebugging == IF Debugging THEN "ready" ELSE "not_debugging"

RequirePaused ==
    CASE deb.st = "idle"    -> "not_debugging"
      [] deb.st = "running" -> "debuggee_running"
      [] OTHER              -> "ready"

(* A method is called when no dump is under way; if its guard refuses, that *)
(* is all it does.                                                          *)
Calls(ready, method) ==
    /\ dump = None /\ calls < MaxCalls /\ calls' = calls + 1
    /\ before' = [tid |-> deb.tid, patched |-> patched]
    /\ \/ ready # "ready" /\ answer' = Failed(ready)
          /\ UNCHANGED <<external, files, quota, known>>
       \/ ready = "ready" /\ method

Refuses(why) == answer' = Failed(why) /\ UNCHANGED <<external, files, quota, known>>

CommandFailure == Refuses("debugger_command_failed")

(* BuildDebuggerState *)
State == Ok(deb'.st)

-----------------------------------------------------------------------------
(* Launch, attach and control of the debuggee *)

Starts ==
    \/ Debugging /\ Refuses("already_debugging")
    \/ ~Debugging /\ CommandFailure
    \/ /\ ~Debugging
       /\ \E st \in {"idle", "running", "paused"}, t \in Tids :
              deb' = [st |-> st, tid |-> t]
       /\ answer' = State
       /\ UNCHANGED <<points, patched, loaded, rec, files, quota, known>>

Launch == Calls("ready", Starts \/ Refuses("invalid_params"))
Attach == Calls("ready", Starts \/ Refuses("invalid_params"))

(* The command takes effect at once or soon: the answer is the state there *)
(* is by then.                                                             *)
Executes(states) ==
    \/ CommandFailure
    \/ /\ \E st \in states \cup {deb.st}, t \in Tids : deb' = [st |-> st, tid |-> t]
       /\ rec' \in IF deb'.st = "idle" THEN {[rec EXCEPT !.on = FALSE, !.why = w] :
                         w \in IF rec.on THEN {"target_exited", "cancelled", "none"}
                               ELSE {rec.why}}
                   ELSE {rec}
       /\ patched' = IF deb'.st = "idle" THEN {} ELSE patched
       /\ answer' = State
       /\ UNCHANGED <<points, loaded, files, quota, known>>

RunControlCommand ==
    \/ Calls(RequireDebugging, Executes({"idle"}))            \* debug.stop
    \/ Calls(RequirePaused, Executes({"running", "idle"}))    \* resume and steps

PauseDebuggee ==
    Calls(RequireDebugging,
          IF deb.st = "running" THEN Executes({"paused"})
          ELSE /\ answer' = Ok(deb.st) /\ UNCHANGED <<external, files, quota, known>>)

-----------------------------------------------------------------------------
(* Threads: the debugger reads and writes the registers of its current     *)
(* thread, so a method switches to the one asked for, and back             *)

(* What if a failure to switch back were dropped? *)
ForgetsTheSwitch(done, back) ==
    IF done THEN Ok("registers") ELSE Failed("register_access_failed")

AccessAnswer(done, back) ==
    CASE ~done -> Failed("register_access_failed")
      [] done /\ ~back -> Failed("debugger_command_failed")
      [] OTHER -> Ok("registers")

ThreadContext(t) ==
    \/ Refuses("invalid_params")
    \/ CommandFailure                                         \* switch to t
    \/ \E done, back \in BOOLEAN :
           /\ deb' = [deb EXCEPT !.tid = IF back THEN @ ELSE t]
           /\ answer' = AccessAnswer(done, back)
           /\ UNCHANGED <<points, patched, loaded, rec, files, quota, known>>

ReadThreadContext  == \E t \in Tids : Calls(RequirePaused, ThreadContext(t))
WriteThreadContext == \E t \in Tids : Calls(RequirePaused, ThreadContext(t))

-----------------------------------------------------------------------------
(* Breakpoints and their conditions *)

Point(k, a) == {p \in points : p.kind = k /\ p.at = a}

PointsBecome(ps, shape) ==
    /\ points' = ps /\ answer' = Ok(shape)
    /\ UNCHANGED <<deb, patched, loaded, rec, files, quota, known>>

Sets(k, a) ==
    \/ CommandFailure \/ Refuses("invalid_params")
    \/ /\ Point(k, a) = {}
       /\ PointsBecome(points \cup {[kind |-> k, at |-> a, cond |-> FALSE]}, "set")
    \/ Point(k, a) # {} /\ PointsBecome(points, "set")

Removes(k, a) ==
    CommandFailure \/ Refuses("invalid_params") \/ PointsBecome(points \ Point(k, a), "removed")

ChangeBreakpoint(a, set) ==
    Calls(RequirePaused, IF set THEN Sets("software", a) ELSE Removes("software", a))
SetHardwareBreakpointRpc(a)    == Calls(RequirePaused, Sets("hardware", a))
RemoveHardwareBreakpointRpc(a) == Calls(RequirePaused, Removes("hardware", a))
SetMemoryBreakpointRpc(a)      == Calls(RequirePaused, Sets("memory", a))
RemoveMemoryBreakpointRpc(a)   == Calls(RequirePaused, Removes("memory", a))

(* The first kind that has a breakpoint there, in this order *)
LookupBridgeBreakpoint(a) ==
    IF Point("software", a) # {} THEN Point("software", a)
    ELSE IF Point("hardware", a) # {} THEN Point("hardware", a)
    ELSE Point("memory", a)

SetBreakpointConditionRpc(a) ==
    Calls(RequirePaused,
          \/ Refuses("invalid_params")
          \/ LookupBridgeBreakpoint(a) = {} /\ Refuses("breakpoint_not_found")
          \/ LookupBridgeBreakpoint(a) # {} /\ CommandFailure
          \/ \E p \in LookupBridgeBreakpoint(a) :
                 PointsBecome((points \ {p}) \cup {[p EXCEPT !.cond = TRUE]}, p.kind))

GetBreakpointConditionRpc(a) ==
    Calls(RequireDebugging,
          \/ LookupBridgeBreakpoint(a) = {} /\ Refuses("breakpoint_not_found")
          \/ \E p \in LookupBridgeBreakpoint(a) : PointsBecome(points, p.kind))

-----------------------------------------------------------------------------
(* Patches: PatchRestore gives back one byte, and fails where there is no  *)
(* patch                                                                   *)

ApplyPatch(a, n) ==
    Calls(RequirePaused,
          \/ Refuses("invalid_params") \/ Refuses("patch_apply_failed")
          \/ /\ patched' = patched \cup (a..(a + n - 1)) /\ answer' = Ok("applied")
             /\ UNCHANGED <<deb, points, loaded, rec, files, quota, known>>)

(* The patches from a on, without a gap *)
RunFrom(a) == {b \in Addresses : b >= a /\ a..b \subseteq patched}

(* The loop asks for the next byte before it looks at the limit, and does  *)
(* not count the byte it got when the limit stops it.                      *)
GivenBack(a) == {b \in RunFrom(a) : b <= a + RestoreLimit}
Restored(a)  == Cardinality({b \in RunFrom(a) : b < a + RestoreLimit})

(* What if the loop stopped one byte early? *)
RestoredAll(a) == Restored(a) <= RestoreLimit

RestoredIsComplete(a) == Restored(a) < RestoreLimit

RestorePatch(a) ==
    Calls(RequirePaused,
          \/ Refuses("invalid_params")
          \/ Restored(a) = 0 /\ Refuses("patch_restore_failed")
          \/ /\ Restored(a) # 0 /\ patched' = patched \ GivenBack(a)
             /\ answer' = [ok |-> TRUE, is |-> "restored", from |-> a, bytes |-> Restored(a),
                           complete |-> RestoredIsComplete(a)]
             /\ UNCHANGED <<deb, points, loaded, rec, files, quota, known>>)

-----------------------------------------------------------------------------
(* Dumps: a temporary file, renamed when it is complete *)

FilesBecome(d, p, f) ==
    /\ dump' = d /\ partial' = p /\ final' = f
    /\ UNCHANGED <<external, quota, known>>

DumpModule ==
    Calls(RequirePaused,
          \/ Refuses("invalid_params") \/ Refuses("dump_too_large")
          \/ ~loaded /\ Refuses("module_not_found")
          \/ loaded /\ Refuses("artifact_write_failed")
          \/ loaded /\ FilesBecome(0, 0, final) /\ answer' = Ok("dumping"))

DumpFails(why) == FilesBecome(None, None, final) /\ answer' = Failed(why)

DumpChunk ==
    /\ dump # None /\ dump < Chunks /\ UNCHANGED <<before, calls>>
    /\ \/ ~loaded /\ DumpFails("module_unloaded_during_dump")
       \/ DumpFails("memory_read_failed") \/ DumpFails("artifact_write_failed")
       \/ loaded /\ FilesBecome(dump + 1, dump + 1, final) /\ UNCHANGED answer

DumpRename ==
    /\ dump = Chunks /\ UNCHANGED <<before, calls>>
    /\ \/ DumpFails("artifact_rename_failed")
       \/ FilesBecome(None, None, partial) /\ answer' = Ok("dumped")

(* The header of a module is read and written in one piece *)
ReadPeHeadersRuntime ==
    Calls(RequirePaused,
          \/ Refuses("invalid_params") \/ Refuses("memory_read_failed") \/ Refuses("invalid_pe")
          \/ Refuses("artifact_write_failed") \/ Refuses("artifact_rename_failed")
          \/ ~loaded /\ Refuses("module_not_found")
          \/ /\ loaded /\ answer' = Ok("headers")
             /\ UNCHANGED <<external, files, quota, known>>)

-----------------------------------------------------------------------------
(* Traces: rec is the recorder (external), heard whether its telemetry can *)
(* be read, quota what the plugin remembers                                *)

IsTraceRecordingActive == IF rec.heard THEN rec.on ELSE quota.active

(* StopTraceRecording: a manual stop, unless a limit had been reached *)
StopsRecording ==
    IF rec.on THEN {[rec EXCEPT !.on = FALSE, !.why = w] : w \in {"cancelled"} \cup Limits}
    ELSE {rec}

(* What if the reason were worked out anew by every call? *)
NothingLatched(q, r) == FALSE

Latched(q, r) == ~r.on /\ ~q.active /\ q.why # "none"

(* The target is gone and the recorder does not say what ended the trace *)
ExitedUnsaid(q, r) == ~r.on /\ q.active /\ ~Debugging /\ r.why \in {"none", "cancelled"}

ReasonOf(q, r) ==
    CASE Latched(q, r)                        -> q.why
      [] ~Latched(q, r) /\ ExitedUnsaid(q, r) -> "target_exited"
      [] OTHER                                -> r.why

(* TraceResult, with the recorder's telemetry *)
Tells(q, r) ==
    LET why == ReasonOf(q, r)
    IN  /\ rec' = r
        /\ quota' = IF r.on THEN q ELSE [q EXCEPT !.active = FALSE, !.why = why]
        /\ answer' = [ok |-> TRUE, is |-> "trace", on |-> r.on, why |-> why]
        /\ known' = IF ~r.on /\ known = "none" THEN why ELSE known
        /\ UNCHANGED <<deb, points, patched, loaded, files>>

TraceResult(q, r) ==
    \/ /\ ~q.init /\ answer' = Ok("not_started") /\ quota' = q /\ rec' = r
       /\ UNCHANGED <<deb, points, patched, loaded, files, known>>
    \/ /\ q.init /\ ~r.heard
       /\ quota' = [q EXCEPT !.active = FALSE, !.why = "telemetry_unavailable"]
       /\ answer' = Failed("trace_telemetry_unavailable") /\ rec' = r
       /\ known' = "telemetry_unavailable"
       /\ UNCHANGED <<deb, points, patched, loaded, files>>
    \/ q.init /\ r.heard /\ Tells(q, r)

(* A limit has been reached: the recorder is stopped, then asked again *)
EnforceQuotas ==
    /\ quota.init /\ rec.heard /\ rec.on
    /\ \/ CommandFailure
       \/ \E r \in StopsRecording : Tells(quota, r)
       \/ /\ \E r \in StopsRecording : rec' = [r EXCEPT !.heard = FALSE]
          /\ answer' = Failed("trace_telemetry_unavailable")
          /\ UNCHANGED <<deb, points, patched, loaded, files, quota, known>>

TraceStatus == Calls("ready", TraceResult(quota, rec) \/ EnforceQuotas)

StopTrace ==
    Calls("ready",
          LET q == [quota EXCEPT !.cancel = TRUE]
          IN  \/ ~IsTraceRecordingActive /\ TraceResult(q, rec)
              \/ /\ IsTraceRecordingActive /\ quota' = q
                 /\ answer' = Failed("debugger_command_failed")
                 /\ UNCHANGED <<external, files, known>>
              \/ IsTraceRecordingActive /\ \E r \in StopsRecording : TraceResult(q, r))

(* A recorder that does not answer once it is started is stopped again *)
StartTrace ==
    Calls(RequirePaused,
          \/ Refuses("invalid_params") \/ Refuses("insufficient_disk_space")
          \/ IsTraceRecordingActive /\ Refuses("already_tracing")
          \/ ~IsTraceRecordingActive /\ CommandFailure
          \/ /\ ~IsTraceRecordingActive
             /\ \E heard \in BOOLEAN :
                    rec' = [on |-> FALSE, why |-> "cancelled", heard |-> heard]
             /\ answer' = Failed("trace_quota_unavailable")
             /\ UNCHANGED <<deb, points, patched, loaded, files, quota, known>>
          \/ /\ ~IsTraceRecordingActive
             /\ rec' = [on |-> TRUE, why |-> "none", heard |-> TRUE]
             /\ quota' = [init |-> TRUE, active |-> TRUE, cancel |-> FALSE, why |-> "none"]
             /\ known' = "none"
             /\ answer' = [ok |-> TRUE, is |-> "trace", on |-> TRUE, why |-> "none"]
             /\ UNCHANGED <<deb, points, patched, loaded, files>>)

-----------------------------------------------------------------------------
(* Methods that change nothing the model keeps: a guard, and an answer or  *)
(* the refusal of the debugger                                             *)

Reads(why) ==
    \/ Refuses("invalid_params") \/ Refuses(why)
    \/ answer' = Ok("read") /\ UNCHANGED <<external, files, quota, known>>

ReadRegisters      == Calls(RequirePaused, Reads("register_read_failed"))
WriteRegister      == Calls(RequirePaused, Reads("register_write_failed"))
ReadMemory         == Calls(RequirePaused, Reads("memory_read_failed"))
WriteMemory        == Calls(RequirePaused, Reads("memory_write_failed"))
ListMemoryRegions  == Calls(RequirePaused, Reads("memory_map_failed"))
QueryMemoryProtect == Calls(RequirePaused, Reads("memory_map_failed"))
MemoryProtection   == Calls(RequirePaused, Reads("memory_protect_set_failed"))
ListModules        == Calls(RequirePaused, Reads("module_list_failed"))
ReadStack          == Calls(RequirePaused, Reads("stack_read_failed"))
TraceStack         == Calls(RequirePaused, Reads("invalid_params"))
ReadDisassembly    == Calls(RequirePaused, Reads("invalid_params"))
ListSymbols        == Calls(RequirePaused, Reads("invalid_params"))
ResolveSymbol      == Calls(RequireDebugging, Reads("invalid_params"))
ListThreads        == Calls(RequireDebugging, Reads("invalid_params"))
CurrentThread      == Calls(RequireDebugging, Reads("thread_not_found"))
ListPatches        == Calls(RequireDebugging, Reads("patch_enum_failed"))
ListBreakpointsFiltered == Calls(RequireDebugging, Reads("invalid_params"))

DispatchDebuggerMethod ==
    \/ Launch \/ Attach \/ RunControlCommand \/ PauseDebuggee
    \/ ReadThreadContext \/ WriteThreadContext
    \/ \E a \in Addresses :
           \/ \E set \in BOOLEAN : ChangeBreakpoint(a, set)
           \/ SetHardwareBreakpointRpc(a) \/ RemoveHardwareBreakpointRpc(a)
           \/ SetMemoryBreakpointRpc(a) \/ RemoveMemoryBreakpointRpc(a)
           \/ SetBreakpointConditionRpc(a) \/ GetBreakpointConditionRpc(a)
           \/ \E n \in 1..(Last - a + 1) : ApplyPatch(a, n)
           \/ RestorePatch(a)
    \/ DumpModule \/ ReadPeHeadersRuntime
    \/ StartTrace \/ StopTrace \/ TraceStatus
    \/ ReadRegisters \/ WriteRegister \/ ReadMemory \/ WriteMemory
    \/ ListMemoryRegions \/ QueryMemoryProtect \/ MemoryProtection \/ ListModules
    \/ ReadStack \/ TraceStack \/ ReadDisassembly \/ ListSymbols \/ ResolveSymbol
    \/ ListThreads \/ CurrentThread \/ ListPatches \/ ListBreakpointsFiltered

-----------------------------------------------------------------------------
(* What the debugger does by itself (external); answer is then forgotten *)

Itself == answer' = Ok("none") /\ UNCHANGED <<files, quota, before, known, calls>>

DebuggeeMoves ==
    /\ Debugging /\ dump = None
    /\ \E st \in {"running", "paused"}, t \in Tids : deb' = [st |-> st, tid |-> t]
    /\ Itself /\ UNCHANGED <<points, patched, loaded, rec>>

DebuggeeExits ==
    /\ Debugging /\ dump = None
    /\ deb' = [deb EXCEPT !.st = "idle"] /\ patched' = {}
    /\ rec' \in IF rec.on THEN {[rec EXCEPT !.on = FALSE, !.why = w] :
                                   w \in {"target_exited", "cancelled", "none"}}
                ELSE {rec}
    /\ Itself /\ UNCHANGED <<points, loaded>>

ModuleComesOrGoes ==
    /\ loaded' = ~loaded
    /\ UNCHANGED <<deb, points, patched, rec, files, quota, answer, before, known, calls>>

(* It reaches a limit or cannot write; its clean-up calls that a manual    *)
(* stop; its telemetry fails and returns                                   *)
RecorderChanges ==
    /\ dump = None
    /\ \/ rec.on /\ \E w \in Limits \cup {"write_error"} :
                        rec' = [rec EXCEPT !.on = FALSE, !.why = w]
       \/ ~rec.on /\ rec' = [rec EXCEPT !.why = "cancelled"]
       \/ rec' = [rec EXCEPT !.heard = ~@]
    /\ UNCHANGED <<deb, points, patched, loaded>> /\ Itself

(* The process is killed and started again: only files are left *)
Killed ==
    /\ deb' = [deb EXCEPT !.st = "idle"] /\ points' = {} /\ patched' = {} /\ loaded' = TRUE
    /\ rec' = [on |-> FALSE, why |-> "none", heard |-> TRUE]
    /\ quota' = NoTrace /\ known' = "none" /\ dump' = None
    /\ answer' = Ok("none") /\ UNCHANGED <<partial, final, before, calls>>

Next ==
    \/ DispatchDebuggerMethod \/ DumpChunk \/ DumpRename
    \/ DebuggeeMoves \/ DebuggeeExits \/ ModuleComesOrGoes \/ RecorderChanges \/ Killed

Spec == Init /\ [][Next]_vars

-----------------------------------------------------------------------------
(* Properties *)

(* A call on the registers of another thread that succeeds leaves the      *)
(* debugger on the thread it was on (ReadThreadContext).                   *)
ThreadKept == answer = Ok("registers") => deb.tid = before.tid

(* The bytes a restore reports are the ones it gave back, and those end    *)
(* with the patch, when it says it is complete; when the limit stopped it, *)
(* it gave back one more, if there was one (RestorePatch).                 *)
PatchesCounted ==
    answer.is = "restored" =>
        LET gone == Cardinality(before.patched \ patched)
        IN  /\ gone = answer.bytes \/ (~answer.complete /\ gone = answer.bytes + 1)
            /\ answer.complete => answer.from + answer.bytes \notin patched

(* The file of a dump is a whole module, whatever stopped the dumps, the   *)
(* end of the process too (DumpModule).                                    *)
FinalIsWhole == final \in {None, Chunks}

(* The end of a trace that a caller was told stays the answer until        *)
(* another trace starts, unless the telemetry fails (TraceResult).         *)
EndIsKept ==
    known # "none" =>
        /\ quota.why = known
        /\ (answer.is = "trace" /\ ~answer.on) => answer.why = known
=============================================================================
