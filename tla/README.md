# A TLA+ model of headless-re-mcp

headless-re-mcp lets an agent (or a person) drive reverse-engineering tools on
a Windows machine: debuggers, IDA, unpackers, .NET and APK tools.  This
directory holds specifications of its concurrent and stateful parts,
configurations that model-check them with TLC, and proofs checked by TLAPS.  Paths below are
relative to `src/headless_re_mcp/` of the repository.

Contents: 1. the system, 2. the modules, 3. the runs, 4. the proofs,
5. disagreements between code and documentation, 6. what is not modelled,
7. what is left to do.

## 1. The system

| Component | State | Operations | What is hard about it | What makes it correct |
|---|---|---|---|---|
| Agent runs: `agent/orchestrator.py`, `agent/store.py`, `agent/models.py` | rows of threads, runs and tool calls (SQLite); one asyncio task per run; worker threads and their counter | start, stream a round, propose / approve / reject / execute a tool call, cancel, delete, recover | humans, tools and providers answer late or never; cancels come from other threads; threads cannot be stopped | no call rounds its gate, none runs twice, a cancelled run starts no more writes, every begun run ends |
| Mission scheduler: `agent/scheduler.py`, `agent/store.py` | rows of missions; one coroutine and its local variables | claim, start a run, count it, wait, judge, requeue, cancel, stop, recover | operators act between any two transactions; crashes; store failures; shutdown timeout | budget, one run at a time, order, truthful verdicts, every mission ends |
| Autonomy policy: `agent/autonomy.py` | mode, grants, reserved tools | decide, with_mode, grant, revoke | replaced while calls wait | reserved tools always need a person |
| Agent routes: `web/routes/agent.py` | none; the lifespan owns the scheduler | create, cancel, decide, delete, policy, missions, event stream | run in a thread pool or on the loop, differently per route | see the two above and the next one |
| Web page and run stream: `web/routes/agent.py`, `frontend/src/` | events of a run; held events, active run, approvals, text of the page | boot, select, send, decide, consume, reconnect | streams lost and resumed; another thread selected in between | each event is applied once and in order, the run on the screen is followed |
| Providers: `agent/providers/` | attempts; the answer assembled so far | stream, retry | failure after the first chunk; snapshot after deltas | no chunk of an answer is delivered twice, an answer is whole or reported cut |
| Debug event log: `core/event_log.py`, `core/event_drain.py` | window in memory, table, latest, gap and eviction marks; cursor of the drain | append, note a gap, evict, trim, read after a cursor, reopen | native ring overwrites; crash between append and cursor; trimming | a reader sees each event once and in order, or is told what it lost |
| Sessions and runtimes: `core/session.py`, `core/runtime_state.py`, `core/service.py` | sessions and their backends; opening slots; workflow and debuggee state | open, attach, transition, fail, recover, close, retire, hydrate | close during open; recovery of what another thread has recovered | no runtime outlives its session, no session stays half-open |
| Health monitor and watchdog: `core/health.py`, `core/watchdog.py` | thread, stop flag, entries, back-off; recovery attempts | start, stop, check, forget; sweep | stop times out and start follows; sessions close during a sweep | one sweeper at a time, no entry of a closed session, bounded attempts |
| Supervisor: `supervisor.py`, `core/process_tree.py` | child, rapid count, back-off, report | spawn, watch, probe, restart, give up | readiness flaps, spawn failures, interrupts | no orphan child, a wedged child is replaced, a crash loop is bounded |
| x64dbg client: `backends/x64dbg/client.py` | request lock, transport, sequence | request, time out, reconnect, close | late answers, reconnect under a request | an answer belongs to its request |
| Native plugin: `native/xdbg-headless-rpc/` | breakpoints, patches, dump and trace of a debuggee; the ring of its events | every RPC method, the search for import tables | the debuggee stops and exits by itself, and the process may be killed in a dump | methods leave the thread and the patches as they say, a file is whole or absent |
| Inspection: `core/service_dynamic_inspect.py` | a note that the module list may be stale; a dump's file and row | reads, module lists, import search, dump | lost events; the target moves while a dump is written | a dump follows a fresh list, a registered file is whole |
| Run control: `core/service.py` | the debuggee's state and events | launch, attach, resume, step, pause, stop, wait, analyse | the state says "paused" already before a step | a stop that is reported belongs to the command |
| Stealth profiles: `backends/x64dbg/stealth.py` | one file per architecture | choose, write, launch under it | sessions share the file and look at it without a lock | what callers were told, the file and what runs agree |
| IDA backend: `backends/ida/` | pipe and worker process, recorded edits | request, batch, time out, kill, close | answers among noise; a worker killed with edits | an answer belongs to its request, edits are recorded or discarded |
| Dynamic workflows: `core/service.py`, `workflows/` | breakpoint plan, navigation, lifecycle | start, wait, consume an event, reconcile, cancel | events late, twice, stale; part of a batch fails | plan and debugger agree after reconciliation, a navigation stops |
| Unpacking: `core/service_unpack.py`, `unpack/` | one attempt per session, a cancel latch | start, detect, probe, trace, dump, rebuild, verify, cancel | tools read an attempt, work for minutes and store it | no lost cancel, no latch left, deadlines |
| Traces: `core/service_trace.py` | trace entry, armed log, file | start, stop, status | the debugger is lost in between | a registered file is the one on disk, no armed breakpoint outlives its trace |
| Web backend: `backends/web/` | runner thread, driver pid, sessions | open, call, close | a driver that hangs or starts late | no driver and no runner outlives its session |
| Proxy backend: `backends/proxy/` | one thread, loop and port per instance | start, stop | start fails half-way, stop during a start | no listener is left |
| Bounded tool runs: `backends/common/bounded_run.py`, `core/process_tree.py` | process, readers, deadline | run, cancel, time out | helpers that keep the pipes open | the call ends and nothing of its tree is left |
| Repositories and retention: `core/store/sqlite_store.py`, `core/retention.py` | rows and artifacts on disk | save, register, collect | collecting while others register; a collection that fails | quota kept up to one artifact, failures are retried |
| Installer: `installer.py` | download, archive, tree | fetch, verify, extract, activate | crash at any step | the active tree is whole or absent |
| Isolation: `core/isolation.py` | machine snapshot | rotate | fails or hangs between missions | never between two runs of a mission |
| Analysis: `detection/`, `dotnet/`, and others | none shared | parse one file | data, not control | (tests) |
| Facade: `mcp/`, `tools/` | registry | validate, dispatch | none | (tests) |

How they interact.  HTTP handlers and the scheduler call the orchestrator; the
orchestrator, the scheduler and the handlers share only the database of
`AgentStore`, whose transactions are serialized.  The handlers that are plain
functions run in a thread pool, so their transactions fall between any two
statements of the coroutines; the `async` ones run on the event loop, so they
fall only where a coroutine awaits.  Tool calls leave the loop through a
worker thread that cannot be interrupted, and arrive in `core/service.py`,
whose calls run in as many threads as there are callers.  The service keeps a
session per target; a session's slots hold the clients of the backends (x64dbg,
IDA, browser, proxy), each with a worker process of its own.  The health
monitor reads the slots from a thread; the scheduler sweeps the watchdog from
its own loop, in a thread, and the watchdog calls `session.recover`.  The page
sees a run only through its event stream.

## 2. The modules

| Module | Models | Actions |
|---|---|---|
| `AgentModels` | the status vocabularies and `RUN_TRANSITIONS` | - |
| `AgentRun` | one or more runs: task, rows, gate, threads, policy, cancel, restart | one per branch of `_run_loop`, `_handle_tool_call`, `_invoke_tool_bounded` between two points where something else can happen, one per route |
| `RunContract` | abstract: the row of a run and the one-shot gate of each call | - |
| `AgentRunInvariant`, `AgentRunProofs` | the inductive invariant of `AgentRun`; theorems | - |
| `Missions` | scheduler, mission rows, runs as the scheduler sees them, operators, faults, restart | one per store transaction of `tick`, `_advance`, `_await_run` |
| `MissionQueue` | abstract: a queue served in order, one mission at a time | - |
| `MissionsInvariant`, `MissionsProofs` | the inductive invariant of `Missions`; theorems | - |
| `EventLog` | operators: the durable debug-event log, each method a function of its state | - |
| `EventDrainProofs` | the inductive invariant of `EventDrain` and its log, and that the methods and the inspection beside it are the systems proved in `DebuggerProofs`; theorems | - |
| `EventDrain` | ring, pump, calls of `dynamic.events`, recovery over the same file; extends `EventLog` | one per use of the cursor, the worker or the log in `drain_native_into_log` and `dynamic_events` |
| `Sessions` | registry, session states, runtime owner with its claims and slots, workers; the threads that open, call, recover and close | one per critical section of `SessionRegistry` and `RuntimeOwner`, and per launch or end of a worker |
| `SessionsInvariant`, `SessionsProofs` | the inductive invariant of `Sessions`; theorems | - |
| `HealthMonitor`, `Watchdog` | the sweeping threads and their rows; over them, the watchdog's outages, streaks, alerts and recoveries | start, stop and its join, each read and write of a sweep; one per step of `Watchdog.sweep` |
| `WatchdogProofs` | the inductive invariant of `Watchdog` over `HealthMonitor`, and that run control and the profiles beside it are the systems proved in `DebuggerProofs`; theorems | - |
| `DebuggerRpc` | the methods of the plugin over an external debugger | one per RPC method that changes state; the debuggee's own moves |
| `ImportScan` | the search for import tables, compared with what a table is | the loops over modules, slots and call sites |
| `Inspect` | the calls that inspect a target over one runtime | one per section under `runtime.lock`; the target's own moves |
| `RunControl` | the calls that make a debuggee run, as plans of requests | one per request and look at the events; the debuggee |
| `Stealth` | choice, write and use of a profile by calls of several sessions | one per look at the file or the sessions, write and start |
| `XdbgRpc`, `IdaWorker` | a client and the worker at the other end of its pipe | lock, connect, handshake, write, read, time out, close, terminate; what the worker does at each moment |
| `Navigation`, `Breakpoints` | the workflows of the debugger: a navigation between threads, and the plan of one module | the critical sections of each call; the events of the debugger |
| `Unpack` | the attempt of a session and the calls that read, work on and store it | start, detect, probe, dump, rebuild, verify, cancel, close, each with its read and its write apart |
| `Trace` | one trace and its file, the breakpoints it armed, the debugger | start, stop, status, debugger lost, close |
| `Retention` | artifact rows, files, and the collection that a registration starts | register, scan, delete, fail |
| `Supervisor` | child, group and job, the loop that watches it, interrupts | spawn, group, probe, judge, restart, give up |
| `Browser`, `Proxy` | opener, runner or instance thread, driver or listener | open, call, close, start, stop; the steps of the other thread |
| `ToolRun` | one command line tool, its tree, group and pipes | run, wait, cancel, time out, terminate |
| `Installer` | archive, partial tree, active tree, with crashes | download, verify, extract, activate |
| `RunStream` | events of runs in the store, the stream generator, the page and its reducer | append, read a batch, read the status, send, lose, resume; boot, select, send, decide |
| `ProviderStream` | the attempts of `RetryingProvider` and the assembly of an answer | attempt, chunk, message snapshot, end, retry |
| `BackendProofs` | nine parts, each an INSTANCE: the inductive invariants of `XdbgRpc`, `IdaWorker`, `Unpack`, `Browser`, `Proxy`, `Supervisor`, `ToolRun`, `Installer`, `Navigation`; theorems | - |
| `DebuggerProofs` | the inductive invariants of `Trace`, `RunControl`, `Stealth`, `Inspect` and `DebuggerRpc`, one part for each; theorems | - |
| `MCBackendsProofs` | that the parts proved are the systems `MCBackends` runs; its five invariants as theorems | - |
| `MC*` | values for TLC; `MCBackends` puts fourteen subsystems side by side, `MCEventDrain` and `MCWatchdog` a few more beside their own (below) | - |

What composes what.  `Watchdog` extends `HealthMonitor`, `EventDrain` extends
`EventLog`, `AgentRun` and `Missions` share `AgentModels`; `AgentRun`
instantiates `RunContract` and `Missions` `MissionQueue` as the abstract
specifications they implement.  `MCBackends` is not a composition: its fourteen
subsystems do not call one another.  It instantiates each over shared variables
`v1`, `v2`, ..., chooses one in the initial state, and explores all of them
in one run.  `MCEventDrain` does the same with `EventDrain`, `DebuggerRpc`,
`ImportScan` and `Inspect`, `MCWatchdog` with `Watchdog`, `RunControl` and
`Stealth`.

Conventions.  A variable `pc` says where a task is.  In `AgentRun` and
`Missions` the places in `Suspended` are awaits; at the others the coroutine
holds the loop, so tasks of the loop step only if every other task is suspended
(`LoopFree`), while the pool's handlers and the worker threads step at any
time.  Rows that do not exist yet are `"absent"`, deleted ones `"gone"`.
A critical section under a lock is one step when nothing in it waits; the lock
is a variable where a thread waits while it holds it.  History variables (in
`AgentRun` `agreed`, `ran`, `late`; in `Missions` `started`, `owner`,
`lastOwner`; their like in other modules) record what properties speak of and
no action reads them.  A definition under the comment *What if* is not part of
a specification: it is the definition it is named after with a plausible
mistake, and shows that the property it is paired with can fail.

### AgentRun and the code

- `status`, `cancel`, `call` are the rows; `pc`, `round`, `left`, `cur`,
  `dying` the task (`dying`: `task.cancel()` was called and the CancelledError
  has not arrived); `thread` the worker thread of each call, also after it was
  abandoned; `auto` the tools the policy lets through besides read-only ones.
- A provider answer is reduced to "no calls", "n calls" or a failure; the
  arguments of a call to what `args_sha256` tells apart.
- Every `await` with a timeout may time out at any moment, so no run depends
  on the values of timeouts.
- `_finish_failure`, `_finish_cancel`: `Finish`, which leaves a terminal row.
- `Restart` is what a process that ended leaves behind together with
  `recover_after_restart`; a shutdown also cancels the tasks that have begun.
- The refusal for stuck workers happens after the write of EXECUTING_TOOL; the
  model has the two in one step because the same coroutine goes on to fail the
  run without an await.

### Missions and the code

- Each claim is one transaction (`ClaimNextMission`); `seen` is the
  `runs_used` of the claimed row, which `_advance` goes on using.
- `note`, `check`, `verdict` and `settle` are separate steps because a cancel
  from the pool may land between them.  Between `StartRun` and the end of
  `CheckStarted` the coroutine does not await, so the new run cannot begin.
- A run is the row plus its task; it ends with any status, with or without one
  of `RUN_BUDGET_ENDINGS` as error, with or without the marker.
- `stop()` waits, then cancels the scheduler task once.  A CancelledError that
  arrives during the watchdog sweep is recorded and swallowed
  (`scheduler.py:146-149`), one that arrives in `_advance` is handled like a
  failure of the mission.

### EventLog, EventDrain and the code

- A log is a record: `mem` is `_memory` in order of insertion, `disk` the
  table as the connection sees it, `saved` what was committed, the others the
  fields of the same names.  An event is its sequence and the debugger that
  numbered it, so events of two debuggers with one number are distinct.
- The methods of the log hold its lock and are one step each.  The two drains
  hold different locks (`service.py:857`, `service.py:1314`), so the model
  reads the shared cursor where the code does: to ask, to count the gap, to
  see that nothing is new, to compare; and setting it is another step.
- A batch is where it starts, how much the ring had dropped and where it ends:
  `parse_debug_event_batch` refuses any other.
- `RaisingAppends` is every state a raising append can leave: some rows
  inserted and not committed, or committed and not trimmed.
- A navigation that waits reads the ring itself; calls then only look at the
  log and move no cursor.  That mode is left to the model of the workflows.

### Sessions and the code

- `session`, `order` and `attached` are the registry, `phase` and `item` the
  runtime owner, `worker` the processes.  A thread (`th`) is a tool call; what
  it read under the service lock, the registry lock or a runtime's lock it keeps
  in its own fields until it acts on it.
- The registry's history of ended sessions holds `Keep` of them.  It retires
  FAILED sessions too, also while another worker of theirs is registered.
- A claim that a close revokes lets a second opener in.  The loser's
  `_abandon_open` pops whatever runtime is in the slot, also the winner's;
  `WorkersOwned` therefore speaks of claims that still hold.

### Health, watchdog and the code

- `stop()` takes the lock twice, with a join between that may time out.  A
  start after the second section is remembered until the old thread has wound
  down; one that falls into the join starts a second
  sweeper.  `raced` records it, and `OneSweeper` speaks of all other behaviours.
- A sweeping thread ends in two steps.  `Final` is its last look at
  `_restart_pending`, under the lock, after which it never sweeps again; `Ends`
  is its end, until which `is_alive()` is true.  `MaySweep` says that the look is still to
  come.  `RestartHonoured` is about the starts that come before it; one that
  falls between the two steps is lost (section 5).
- A sweep reads a backend and publishes its row later.  One that was read
  before the close and published after it brings the row back; `late` records
  it, and `NoRowOfClosed` speaks of all others.

### The debugger's plugin and what uses it

- `DebuggerRpc`: a method runs on the debugger's own thread, so it is one step,
  save the dump, which writes a chunk at a time into a temporary file and may be
  killed between two.  The debugger is external: it stops, exits, refuses a
  command or ends a trace whenever it likes.
- `ImportScan` has the loops of `ScanImports` over a row of slots, and beside
  them, without a loop, what an import table is; `FindsAll` compares the two.
- `Inspect`: sections under `runtime.lock` are steps, and the target moves
  between them.  `missed` records what the caller cannot know, that events were
  lost since the last list; `wiped` that a list read before took the note of it
  back, which the code does and `DumpsAreFresh` leaves out.
- `RunControl`: a call is a plan of requests, and another caller may have its
  turn between two.  The debugger accepts a command and executes it later; its
  state is "paused" before a step, too, so a call looks for the event.  A step
  that is executed makes the debuggee run, with or without an event, and "stepped"
  is published when it completes, which may be long after its caller gave up:
  `steps` counts those under way.  A stop of another cause may come first, and
  leave the step to be completed later or not at all.  `crowded` records that a command
  was pending, or for a step a "stepped" was still to come, when the marker was read.
- `Stealth`: looking at the file, looking at the sessions, writing and starting
  are steps of their own, since no lock spans them.  `raced` records that a
  caller wrote on the strength of a look that had become old, and the
  properties speak of the other behaviours.

### The clients and the workflows

- `XdbgRpc` has both ends: the caller behind the request lock, and the plugin's
  pipe server with its queue to the main thread, where a question to the user
  may open a window.  The window is looked for before a send and after the
  answer.  `IdaWorker` has the pipe with a bounded number of messages of noise.
  Its worker answers a request with success or failure (`said`), and an
  edit that is reported as failed may have changed the database: only
  the success of a single edit says something of it.
- In `Navigation` a thread waits in slices for an event of its pattern while
  others reset, close, cancel or ask; the session's lock is released between
  slices.  `Breakpoints` has one call at a time, which the session's lock
  ensures, and one step per command to the debugger; a command may fail, or be
  carried out and its answer lost, and the debuggee goes on meanwhile.

### Work with files and processes

- `Unpack`: a call holds the attempt it read.  Storing is unconditional in the
  code and in the model, so the update of another call may be lost.
- `Retention`: a registration and the collection it starts are steps of one
  writer; what another writer registers in between may be collected.
- `Supervisor` has the jobs of Windows, which the kernel ends with their owner
  and which may be refused at each level; `ToolRun` has POSIX process groups,
  which helpers may leave.
- `Trace`: a call looks at the state of the trace before it waits for the
  runtime's lock; the debugger may stop, die and be replaced meanwhile.
- `Browser` and `Proxy`: the opener waits for another thread with a bound, and
  what that thread does after the opener has given up is in the model.

### The page and the provider

- `RunStream` has the store, a connection and the page.  A step of the page is
  what it does between two awaits; events may be batched, a connection may be
  lost at any event, and the generator reads a batch before it reads the
  status, as the code does.  The page keeps `Keep` held events and boots with a
  `Window`.  The heartbeat, the deletion of a run that is followed, and frames
  that are processed after an abort are left out.
- `ProviderStream`: an answer is a sequence of deltas, a message or both; an
  attempt may fail before or after any of them.  A snapshot's calls are taken
  to carry their index.

## 3. The runs

| Run | Checks | Shows |
|---|---|---|
| `MCAgentRunGate` | `IInv`, `HumanGate`, `RefusedNeverRuns`, `AtMostOnce`, `LateStartBound`, `ThreadBound`, `KeepsContract` | one run with two calls, three kinds of tool and two arguments: no interleaving lets a call round its gate; `AgentRun` implements `RunContract`, which contains the legal transitions of a row; `IInv` is the invariant the proofs use |
| `MCAgentRunLive` | `BegunRunEnds` | a begun run ends although providers, humans and tools may never answer |
| `MCMissionsSafety` | `BudgetBound`, `SerialRuns`, `CancelReachesRun`, `ServesQueue` | two missions, two threads, one crash or shutdown anywhere; `Missions` implements `MissionQueue` |
| `MCMissionsLive` | `NoStrandedMission`, `VerdictsAreTrue`, `MissionEnds` | with one store failure and one run that dies silently, every mission ends, with a true verdict |
| `MCMissionsShutdown` | violated | section 5 |
| `MCEventDrain` | `EventsArriveOnce`, `AloneLogAgrees`, `TargetIsToldTruly`, `ImportsFound`, `PumpReachesEnd` | the pump races a call, a read or write raises, two debuggers follow one another: each number is given once or counted as lost, what is drained is held or accounted for; a drainer that is alone counts no gap that is not there, and until a write raises or a second debugger comes its window is the newest of the table, in order; the pump reaches the end of the ring; beside them the plugin's methods and the inspecting calls: what they leave and answer is true (`TargetIsToldTruly`), and the search for import tables, which offers every table there is and only those (`ImportsFound`) |
| `MCEventDrainReplay` | violated | section 5 |
| `MCSessions` | `WorkersOwned`, `ClosedIsEmpty`, `PassingStatesPass`, `OneOpener`, `ClosingIsFinal` | two calls open, use, fail, recover, replace and close two sessions while workers die and the registry forgets |
| `MCSessionsKept` | violated | section 5 |
| `MCWatchdog` | `OneSweeper`, `NoRowOfClosed`, `ToldOnce`, `RunsAsTold`, `RestartHonoured`, `TriedAgain` | sweeps, stops, starts, alerts and recoveries over one backend; beside them two callers over a debuggee and over the profiles: a stop that is reported is of the command, unless the event of an earlier one was still to come, and a profile that is reported is the one in use (`RunsAsTold`) |
| `MCBackends` | one property per system or pair of systems, below | fourteen subsystems side by side |
| `MCUnpackReplace` | violated | section 5 |

The properties of `MCBackends` are conjunctions of the properties the modules
state; each conjunct speaks of one system.
(`Init` chooses a system, so the conjuncts are checked apart.)

| Property | Of the modules | Says |
|---|---|---|
| `LinksTellTheTruth` | `XdbgRpc`, `IdaWorker`, `Navigation` | what a caller is told is what was said of its request, an edit reported as done was made, requests take effect once and in order, and what succeeded before a close is saved by it; the cursors of workflow and session stay together, a navigation stops at the first event of its pattern |
| `FollowersInStep` | `RunStream`, `ProviderStream`, `Breakpoints` | whoever follows a stream keeps in step with it: the page gets a run's events without a hole, shows each once and follows the run it calls active; a run sees one answer of its provider, once and whole; after a reconciliation that reports no failure, what is armed is what the intents ask for |
| `LatchesFreed` | `Unpack` | a closed session keeps no cancel latch |
| `OvershootBounded` | `Retention` | the store exceeds its budget by less than a burst of registrations |
| `TraceFiles` | `Trace` | nothing records that no call will stop; the file of a confirmed stop stays as registered |
| `NothingLeft` | `Supervisor`, `ToolRun`, `Browser`, `Proxy` | what was started is held by whoever will stop it, and nothing is left of what was stopped |
| `WholeOrAbsent` | `Installer` | what is found installed is complete |
| `EveryCallEnds` | `XdbgRpc`, `IdaWorker`, `Navigation`, `Browser`, `Proxy`, `ToolRun` | every call ends, whatever the other process does |
| `WedgedIsReplaced` | `Supervisor` | a child that stops answering is replaced |

Bounds of the agent and the missions.  `MaxToolRounds` 1 or 2: the bound is
compared with the round once per round, so one ordinary round and the
wrap-up show every branch.  Two calls: a call after another one of the same
answer is the case that repeats ids and meets a cancel from the previous
call.  `MaxStuck` and `ToolThreads` 1: the bound is met by the first
abandoned thread; that several runs share the counter is what
`AgentRunProofs` covers for any number of them.  `NMissions` 2, `MaxRuns` 2:
order, requeueing and the last run of a budget need no more.  `MaxBoots`,
`MaxFaults`, `MaxDeaths` 1 bound restarts, store failures and silent deaths.

Bounds of the event drain and the sessions.  The ring holds one event more
than a batch, so that a drain needs a second round and the ring can overwrite
in between; a call's limit and the window 2 and the table 3 are all reached.  Two sessions,
backends, workers and threads: every hazard found is one of two threads at one
session, and the second session is what makes the registry forget (`Keep` 1).
The watchdog has one backend, two sweepers (an old and a new one), one
dropped connection, one death and a limit of two recoveries.

Bounds of `MCBackends`.  Two threads and two to four calls per system, which
gives each call a predecessor and a rival; the queues, rings and budgets hold
two to four items, so that each of them fills (`Capacity` of the IDA pipe,
`Ring`, `Budget`, `Keep` and `Window`); one fault where a fault is counted
(`MaxFaults`, `MaxTrouble`); two starts where a second one is a special case
(`MaxStarts`, `MaxOpens`, `MaxWorkers`); three spawns, a rapid limit of two and a restart
limit of three, so that the supervisor reaches both; an archive of three files
fetched by up to three runs of one installer.

Bounds of the parts beside `EventDrain` and `Watchdog`.  `DebuggerRpc`: two
addresses and two threads, so that a restore and a switch can hit the wrong
one, a dump of two chunks, four calls.  `ImportScan`: five slots read two at a
time, so that a table lies across two chunks, three values and two modules.
`Inspect`: two callers and three calls.  `RunControl`: two callers with a call
each, a ring of two of at most five events, so that it drops the awaited one.
`Stealth`: two callers and two sessions of one architecture, which share its
file.

Symmetry is declared only over ids that no definition tells apart and in no
run with a liveness property.  Deadlock is not checked in the runs of
`EventDrain`, `Sessions`, `Watchdog` and `MCBackends`, whose callers stop when
their bounds are used up.

Fairness.  `AgentRun`: weak fairness of each task's own step; asyncio runs
every ready task, and each await of a begun task is bounded by the run
deadline of `_execute`.  Nothing is assumed of tools, people or providers.
`Missions`: weak fairness of the scheduler; strong fairness of each run's step,
because a ready task gets its turn although the scheduler alternates between
holding the loop and awaiting; weak fairness of the end of a shutdown and of
the restart after it.  `EventDrain`: weak fairness of the pump, whose thread
loops until its runtime is closed.  `Watchdog`: weak fairness of the sweeping
threads and of the thread that closes sessions.  `MCBackends`: weak fairness of each thread's own step (operating
systems run ready threads) and of the passing of deadlines where the code sets
one (the slices of a navigation, the grace of the supervisor, the deadline of a
tool).  No fairness of crashes, operators, faults, callers, or of the process at the
other end of a pipe.  `Breakpoints`, `Trace`, `Unpack`, `Retention`,
`Installer`, `RunStream` and `ProviderStream` are checked for safety only.

## 4. The proofs

Everything below is proved for every value of the constants that the named
assumption of the module allows.

| Module | Theorem | Property |
|---|---|---|
| `AgentRunProofs` | `TypeCorrect` | `TypeOK` |
| | `InvariantHolds` | `IInv` |
| | `GateHolds` | `HumanGate` |
| | `RefusalHolds` | `RefusedNeverRuns` |
| | `OnceHolds` | `AtMostOnce` |
| | `LateStartHolds` | `LateStartBound` |
| | `ThreadBoundHolds` | `ThreadBound` |
| | `ContractHolds` | `KeepsContract` |
| `MissionsProofs` | `TypeCorrect` | `TypeOK` |
| | `BudgetHolds` | `BudgetBound` |
| | `ServiceIsSerial` | `SerialRuns` |
| | `CancelArrives` | `CancelReachesRun` |
| | `NoneStranded` | `NoStrandedMission` |
| | `VerdictsHold` | `VerdictsAreTrue` |
| | `QueueServed` | `ServesQueue` |
| `SessionsProofs` | `TypeCorrect` | `TypeOK` |
| | `ClosingStaysFinal` | `ClosingIsFinal` |
| | `ClosedStaysEmpty` | `ClosedIsEmpty` |
| | `WorkersStayOwned` | `WorkersOwned` |
| | `SlotHasOneOpener` | `OneOpener` |
| | `PassingStatesEnd` | `PassingStatesPass` |
| `WatchdogProofs` | `OneSweeperHolds` | `OneSweeper` |
| | `NoRowHolds` | `NoRowOfClosed` |
| | `ToldOnceHolds` | `ToldOnce` |
| | `RunsAreTold` | `RunsAsTold` |
| `EventDrainProofs` | `TypeCorrect` | `TypeOK` |
| | `InvariantHolds` | `IInv` |
| | `ArrivalHolds` | `EventsArriveOnce` |
| | `AloneAgrees` | `AloneLogAgrees` |
| | `TargetToldTruly` | `TargetIsToldTruly` |
| `BackendProofs` | `XdbgTypeCorrect` | `TypeOK` of `XdbgRpc` |
| | `XdbgInvariantHolds` | its inductive invariant |
| | `XdbgTruthHolds` | `ToldTheTruth` |
| | `XdbgOrderHolds` | `OnceInOrder` |
| | `IdaTypeCorrect` | `TypeOK` of `IdaWorker` |
| | `IdaInvariantHolds` | its inductive invariant |
| | `IdaAnswersHold` | `AnswersMatch` |
| | `IdaCloseSaves` | `ClosedIsSaved` |
| | `UnpTypeCorrect` | `TypeOK` of `Unpack` |
| | `UnpInvariantHolds` | its inductive invariant |
| | `UnpLatchesAreFreed` | `LatchesFreed` of `Unpack` |
| | `WebDriversHeld` | `DriversHeld`, `ClosedHasNone` of `Browser` |
| | `PrxHeld` | `ProxiesHeld`, `ClosedHasNone` of `Proxy` |
| | `SupLeavesNothing` | `NothingLeft` of `Supervisor` |
| | `TooOutlives` | `NothingOutlives` of `ToolRun` |
| | `InsWhole` | `WholeOrAbsent` of `Installer`, one installer |
| | `NavFollows` | `CursorsAgree`, `StopsAtFirst` of `Navigation` |
| `DebuggerProofs` | `TypeCorrect` | `TypeOK` of `Trace` |
| | `InvariantHolds` | its inductive invariant |
| | `RecordingKnown` | `RecordingIsKnown` |
| | `ConfirmedFinal` | `ConfirmedIsFinal` |
| | `CtlStopIsNew` | `StopIsNew` of `RunControl` |
| | `HidRuns` | `FileIsWhatRuns`, `ToldWhatRuns` of `Stealth` |
| | `LookFilesMatch` | `DumpsAreFresh`, `FilesMatchAnswers` of `Inspect` |
| | `RpcMethods` | `ThreadKept`, `PatchesCounted`, `FinalIsWhole`, `EndIsKept` of `DebuggerRpc` |
| `MCBackendsProofs` | `LinksHold` | `LinksTellTheTruth` |
| | `LatchesHold` | `LatchesFreed` |
| | `TracesHold` | `TraceFiles` |
| | `NothingIsLeft` | `NothingLeft` |
| | `InstallsAreWhole` | `WholeOrAbsent` |

**Agent runs.**  `TypeOK` alone is not inductive: that a round stays within its
bound when it is incremented, and that `cur` names a call, depend on where the
task is (`RoundInv`).  The gate is not inductive either.  `HumanGate` speaks of
calls that ran; a call runs because a thread was queued for it, which happened
because the task had reached `start`, which happened either because the policy
passed the tool or because an approval was spent; and the approval on the row
is one a human gave.  `CallInv`, `TaskInv` are that chain, one link per place;
`LateInv` says that at most the call being waited for can still start;
`RejectInv` that only a refused call makes a run rejected.  The preservation
proof takes one step per action (`StatusUpdate`, `NoRowFields` for the
arithmetic of rows) and groups the actions that only end a task
(`FinishGate`).

**Tool threads.**  The code checks the counter before it queues a thread and
counts a thread only when it is abandoned, so `ThreadBound` is not the constant
but the constant plus one per run.  `PoolInv` is the argument: the abandoned
threads together with the runs that have passed the check stay below that
sum, and a run that has passed it becomes at most one abandoned thread.

**The contract of a run.**  `ContractHolds` maps every step of `AgentRun` to a
step of `RunContract` or to one that leaves row and gates alone.  What the map
needs beyond `IInv` is `PlaceInv`, which ties the status of the row to the
place of the task: a step at a place writes the status that the contract
allows after the one the row has.

**Missions.**  `IInv` has one conjunct for each reason why the properties hold.
`RowInv` ties the row of a run to its mission and its thread; `HeldInv` says
what the scheduler's local variables still mean at each place, although
operators change the rows between two transactions; `BudgetInv` counts runs
against `runs_used`, crashes and failed writes; `DecisionInv` keeps a verdict
true from the read it was taken from to the write; `LooseInv` says where a run
that nobody told to stop can be: it is the one in hand, or the scheduler was
cancelled under it and is on its way out.  The queue is
implemented only while no write fails (`[](faults = 0)`): a failed write leaves
a mission that the abstract queue would have put back.  The proof uses the
same invariant and takes each step of the scheduler to one of the queue.

**Watchdog.**  `SweeperInv` accounts for each thread that may still sweep by the
name the monitor has for it; `ReportInv` says that a reading in some thread's hands is of
a runtime that was registered, so that publishing an overtaken one is `late`;
`AlertInv` ties what was told to the streak it was told by.  The typing leaves
out how large the back-off gets, since that 2^n is a number is proved
by induction over data, and no property reads it.

**Event drain.**  `Max` and `Min` are defined by `CHOOSE`; that they exist for
the finite sets the log makes is proved from well-foundedness, and that a
sorted window is what it contains from an injection.  Each operation of the log
has a lemma, and `LogInv` holds also after an append that raised.  `BatchInv`
follows a batch from the ring to the cursor: the log is ahead of whatever a
cursor has passed.  `CoverInv`, that a number the log has passed is held or
below a mark, is claimed for the first debugger and as long as nothing raised;
`SeenInv` is what the consumer got.

`AloneLogAgrees` is about a drainer without a rival and needs an invariant of its own.
`CursorInv`: nobody but the call moves the cursor once the call has read it, so its batch
begins where cursor and log end, and what the batch skips is what the ring has
dropped.  Hence a gap is real, and a batch extends the window at its end.
`InStep` is what the log then is: the window is sorted, and is the part of the table above the
eviction mark.  Cutting a sorted window at the front raises the mark to the
element cut off, and trimming the table to its newest leaves the newest of the
window.  All this is claimed for the first debugger and as long as nothing
raised; the attempt to prove it of two debuggers in a row failed because it is
false, which section 5 explains.

**The backends.**  `BackendProofs` has a part for each of nine systems.  A part
is an INSTANCE of the system's module and its names begin with that of the
part, as `Xdbg!Send` and `XdbgInv`; the variables of all parts are declared
once.  The parts share nothing else, and no theorem assumes anything of more than one.

*The link to x64dbg.*  `XdbgPipeInv`: there is one exchange at a time, and while the
client has the pipe open the server is not listening for another client.
`XdbgIdInv`: identities order frames, jobs and answers, so an answer that says
"done" leaves no job of its identity.  `XdbgOrderInv` says the same of the tickets of
the lock, and `XdbgMineInv` that the call of the holder is not among the frames
before it was sent.  With them a refused call cannot turn up later, though jobs
outlive the wait for them.

*The link to IDA.*  `IdaFlowInv` orders the pipe: what was edited or answered is
older than what the worker is at, which is older than what it has not read.
`IdaAwaitInv` ties a success that answers the call under way to the edit the worker
made; `IdaCountInv` bounds the tickets by the calls begun; a call that was refused is
`IdaOver`, neither made nor on its way.  `IdaSaidInv` is why the caller
is told of its own call: a call that was answered is `IdaPast`, behind the worker
and all it has still to read, so it is answered once, and every message of the queue
is what was said of the call it names, those of callers that gave up included.

*Unpacking.*  What the calls make of an attempt matters for its type only, so one
lemma serves every step that leaves the latches alone.  `UnpNewestIsOurs`
is the reason why none is left behind: the latch of an open session is the
newest that was made, and closing drops it and sets it in one step; after that
none is made.  `UnpToolHasLatch` says that whoever is as far as a command line
tool has had one made, which is why the newest, once set, exists.

*Browser and proxy.*  Who started something may have given it up before it
runs, so `DriversHeld` is not inductive.  `WebHeld` claims it of every driver that is not
reaped, from its reservation on: it is in the slot or in the hands of a caller
at a place where it will be placed or ended.  That a close finds what is left
to do follows from `WebClosing`: where a closing session still has a slot taken, a call is
under way that frees it.  `PrxLeaves` is the corresponding account for a proxy,
with one exception, `left`: a proxy whose thread came up after the stop's join is tracked by nobody,
and the theorem does not say that it is (section 5).

*Supervisor and tools.*  `SupHeld`: a child that is up is the one the supervisor holds,
at a place from which it is watched or taken down.  `TooOrder` says when the tool
itself is dead; that nothing of its group outlives a termination then follows
from the sweep of the group, whatever the helpers do.  The set of processes below a tool is defined as the
least set closed under parenthood.

*Installer.*  `InsInv`: a tree with its manifest is whole, and past the hash the
archive is the pinned one.  A crash keeps both.  The theorem is about one installer
(`OneInstaller`), since two refute it (section 5).

*Navigation.*  The first match of a batch is found by a search, but the theorem
needs no more of it than what makes it the first.  `NavHolds`: a batch that a thread reads
without the lock has every event after its cursor or tells of a loss, and it
stays so while the debugger adds events.  `NavSeeks`: what a waiting navigation
has seen decides nothing.  A batch that no longer fits the cursor is refused
when the lock is taken again, so the two meet where the batch is used.

**The systems of a debugger.**  `DebuggerProofs` has the invariants of five
systems around one debugger.  The names of `Trace` come as they are, since the
module extends it; the others are parts as in `BackendProofs`.

*Traces.*  `TypeOK` is far from inductive, because every call acts on what it
read before it waited.  The invariant says for each place what a call there
remembers and whose it is (`NewInv`, `OwnInv`, `StopInv`, `HandInv`), and of the debuggers that only one
knows of a trace (`KnowInv`).  `RecordInv` is the argument: either the service knows what the
registered debugger records or is about to, or some call is on its way to have the
debugger taken down (`Dooms`).  A start that fails after the debugger
has begun moves from the one to the other.  `SureInv` says that once a stop was
confirmed nobody records the trace or will, hence its file stays what was registered.

*Run control.*  A stop is told of when the event the call waits for has been
published since its marker.  `Waiting` says why that event is of the call's own
command: while a call waits, what is pending is its own, and as long as its
command was not executed nothing but "other" events follow the marker; for a step
that takes that no step of before is under way (`steps` is zero).  It is
claimed of a call unless it was `crowded`: a command that nobody waits for was
still pending when the marker was taken, or the call steps and an earlier step was
not yet complete, and the event of that counts for the wait
(section 5).  `Placed` says that a request is made, and waited for, under the
lock, which keeps other callers' commands out.

*Profiles.*  A caller writes the file after a look at the sessions, so
`FileIsWhatRuns` needs `HidWriters`: a session that became live under a caller
about to write is known as `raced`.  `HidPlaced` says that what a caller has
read is what the file says or that somebody has written since (`stale`), and
`HidStarters` that one thread starts the debugger of a session.

*Inspection.*  `LookPlaced`: a dump holds the lock over its requests, and the file a
worker still writes belongs to a caller that has given its dump up.
`LookNoted`: events that were lost are noted, or the note was taken back by a
list that was under way (`wiped`, section 5).

*Methods of the plugin.*  Each method is one action with several outcomes, one
lemma each.  `RpcDumped` ties the temporary file to the dump in progress, and
`RpcEnd` the end that was told to the one that is latched.  The bytes a restore
reports are the cardinality of a set; that a set with no more elements than
the limit is counted exactly rests on the theorems about finite sets.

**From the parts to the runs.**  `MCBackendsProofs` proves five invariants of the run
`MCBackends` as theorems of its specification.  A step of the run is a step of the
system the behaviour chose, and the variables of a system are named `v1`, `v2`, ... there; the
module instantiates `BackendProofs` and `DebuggerProofs` with these names and
the values of the run, and takes each system's invariant over.  `Held` is their
conjunction, each guarded by the choice.  The assumption
`ThreadsAreNamed` of `MCBackends` says that the value for a free lock is no thread
of the run.  `WatchdogProofs` and `EventDrainProofs` end in the same way:
`RunsAreTold` and `TargetToldTruly` are about the specifications `PartsSpec`
and `EitherSpec` of their runs.  Where an instance does not use a constant or
a variable of `DebuggerProofs`, any value stands for it.

**Sessions.**  `TypeInv` and `CloseInv` (a closing session gets no new claim,
and a thread that is about to fill a slot holds a claim) give
`ClosingStaysFinal` and `ClosedStaysEmpty`.  Ownership needs more.
`SessionParts` is the conjunction of `OwnerInv` (every worker is in a slot or
in the hands of one thread, and the places where a thread holds one are
named), `OpenerInv` and `FirstInv` (of two openers at one claim only one still
holds it; the first one sets the state that the last one clears) and
`PassingStatesPass`.  Each action has a lemma about its effects and one about
the parts it keeps, so that the case split over `Next` is a list of citations.

Model-checked only.  Liveness, which TLAPS cannot prove.  What a recursive
computation returns for every input: the numbers of the back-off, the sums of
`Retention` (`OvershootBounded`), the folds over a batch in `Breakpoints` and the
flattened sequences of `RunStream` and `ProviderStream` (`FollowersInStep`), and the
search of `ImportScan` (`ImportsFound`); these need induction over data.

## 5. Where code and documentation disagree

Four have a run that TLC ends with a counterexample.

- `MCMissionsShutdown`: `scheduler.py:10` promises that an interrupted mission
  returns to PENDING.  A shutdown that outlasts the timeout of `stop()` cancels
  the scheduler; `tick` catches the CancelledError with
  `except BaseException` and files the mission as FAILED.
- `MCEventDrainReplay`: `event_drain.py:41` keeps what remains in the ring for
  replay.  After `session.recover` the new debugger counts from 1 in the log
  of the old one, and its events are dropped as duplicates.
- `MCSessionsKept`: `service.py:509` keeps live backends as they are.  Of two
  recoveries of one dead worker the later one terminates the replacement that
  the earlier one has opened.
- `MCUnpackReplace`: a start with `replace=True` is to restart the
  orchestration; on the dynamic route the probe works on the attempt that is
  stored, the old one, and `unpack_start` stores that one again.

Others follow from the code as modelled and have no run.

*Agent and missions.*
- `max_runs` is called an enforced budget; a crash between `create_run` and
  `note_mission_run` gives one more run.  `BudgetBound` is what does hold: at
  most one more per crash or failed write.
- A crash after the last run of a mission and before the verdict files it as
  "objective not met" (`scheduler.py:220`) although it was met.
- `task.cancel()` of a task that the loop has not run yet (`orchestrator.py:318`)
  ends it with nothing recorded: the row of a mission's run that is cancelled
  between claim and start stays queued while the service is up.
- Cancelling a mission also marks the runs of its thread that are not its own
  (`store.py:975`, `store.py:992`).
- A decision posted for a call that the policy let through is recorded as the
  approval of a person (`orchestrator.py:647`, `store.py:642`).

*Web page and providers.*
- The stream's end is decided from a batch that was read before the status
  (`routes/agent.py:380-389`), and the terminal status is written before the
  last event (`orchestrator.py:364-372`, `480-481`).  A stream may therefore
  end without the last events, and the page reports a broken stream.
- Retries of the page are never counted anew: four losses in the life of a run
  end the following.  A consume that is aborted in its pause still dispatches
  that it is disconnected, and clears the saved position of a newer run
  (`useWorkbench.ts:98-107`).
- Selecting the selected thread, or sending in a thread whose run waits for
  a decision, clears the approval cards until a reload; an approval that
  arrives while another thread is shown cannot be decided, since no run is
  active.  A snapshot taken by a selection can make the stream's event a
  duplicate, whose effect on approvals and status is then lost.
- After a reload of a run with more than a page of events, those between the
  page and the saved position are missing, and text beyond the window is
  appended again.
- A body that ends without `[DONE]` is reported as completed
  (`openai_compatible.py:375-444`), although `orchestrator.py:465-470` relies
  on the terminal event to tell a full answer from a cut one; a call
  whose arguments never arrived is run with none.

*Events, sessions and health.*
- `README.md:119` reports a gap only when the drain failed to keep up.  With
  the pump and a call draining at once, a gap is counted from a cursor the
  other has moved, and may cover events that are still in the ring.
- `event_log.py:157` drops events from memory once they are on disk.  After an
  INSERT that raised, the retry skips what is already in memory
  (`event_log.py:115`); it is evicted later and is nowhere.  The consumer is
  told of it as dropped (`EventsArriveOnce`).
- `event_log.py:4` lets a lagging consumer read up to the gap.  `read_after`
  jumps over held events below the gap (`event_log.py:268`), and counts them
  as dropped.
- `event_log.py:161-163` takes the front of the window for its oldest event,
  since events are inserted in order.  A debugger that follows another in the
  same log numbers its events from 1 again; where the window read from disk has
  a hole, the new event of that number is inserted at the end, and the eviction
  takes a newer event for an older one.
- A recovery that failed forgets the row, so its streak is pruned and the
  recovery neither retried nor abandoned, against `watchdog.py:44-47`,
  `:115-117` and `:191-194`.
- A start that falls in the join of a stop makes two sweepers, against
  `health.py:100-104`.
- The replacement is started "from _run's finally" (`health.py:103`), and a
  start that finds the old thread alive leaves it to that (`:105-107`).  The
  thread releases the lock (`:146-148`) before it ends; a start in
  between sets `_restart_pending` and nobody looks any more: the
  monitor stays off until the next start.

*Backends and workflows.*
- `analyzer_window_detected` is raised before a send and after the answer,
  though `_observe_windows` says it refuses the call; it then skips
  `_note_debuggee_pid`.  A reconnect that refuses a hello leaves the transport
  and the old capabilities in place, against `client.py:533-538`.
- A single edit that is told `write_failed` may have changed the database: a
  function was added and is not found (`worker.py:1271-1284`), bytes were patched
  and are not read back (`:1377-1386`).  The service does not
  record it, and a later close saves it.
- Edits of an IDA worker that is killed are lost with its files; a batch with a
  malformed item fails after its earlier items were applied, and their edits go
  unrecorded (`worker.py:1433-1499`, `service_static.py:604`).
- A waiting navigation can be without an owner, against `service.py:1342`, and
  can be ended by the deadline of another call (`service.py:2513`, `:2580`).
- A reset may leave armed addresses, against `tools/core.py:762` and
  `tests/unit/test_workflow_unhappy_paths.py:106`.
- Two calls of unpacking can lose a cancel to a late store; a first start is
  stored only when it is done, so a cancel says `unpack_not_started`, and its
  probe loses its candidates; a store after the close brings the state back.
- A trace file is registered before the debugger's handle is closed when a
  start fails (`service_trace.py:287-306`) or a stop races a close, so hash and
  size may be stale, against the comments at `:348` and `:595`.
- A browser driver that starts after its opener gave up is not reaped
  (`client.py:435-438`).
- A proxy's start takes any listener on its port for its own, against
  `client.py:448-452`; a proxy that comes up after the stop's join is tracked
  by nobody (`left` in `Proxy`).

- `RestorePatch` reports at most 4096 bytes but gives back 4097; one that was
  patched separately next to them is restored, too.
- A list of modules that was read before a gap and arrives after it takes back
  the note of the gap, so a dump may follow a list that is stale (`wiped` in
  `Inspect`).
- A registration whose entry in the timeline fails removes the file and leaves
  the row; a dump whose caller gave up is still written by the worker.
- A stealth profile is written after a look at the sessions that another launch
  may overtake (`raced` in `Stealth`).
- The event of a resume nobody waited for counts for the one that is waited for.
  So does the `debug.stepped` of a step whose caller timed out: the plugin publishes it
  when the step completes (`rpc_events.cpp:554-556`, `:598-616`),
  `service.py:315-319` takes it for the transition of any step, and the next caller
  to step is told of a stop before its own command was executed, although events are
  read from a marker on to verify the transition (`service.py:2866-2877`).
- A second close that runs beside the first may call a session unclean that
  was closed cleanly.
- The repository in memory lists a timeline of a session that does not exist;
  the one on disk refuses.

*Files and processes.*
- With two writers, a collection may remove the artifact that the other writer
  is about to return (`sqlite_store.py:683-686`); one that began before a
  failed one clears `_failing`.
- With two installers the second removes the tree the first has activated; a
  crash there leaves a partial tree that is taken for a cached one, against
  `installer.py:38`.  The model has one installer.
- An interrupt between the spawn and the assignment of `_running` leaves a
  child outside every group (`supervisor.py:188`, `:197`).
- Helpers of a command line tool that left its group and lost their parent
  survive it.

## 6. What is not modelled

In the modelled components: the log without a database, the stop of the pump
that times out, messages and their contents, the size bounds of answers and
results (only that they may refuse), retention trims of agent rows (the
instances stay far below the limits, where a trim deletes nothing), and clocks
(a timeout may come at any time).  `Breakpoints` has one module; `Installer` has one installer and not the configuration it writes
afterwards; `ToolRun` is the POSIX branch.  A request larger than the pipe to a
worker that does not read would block for ever and is assumed not to happen.

Components without a module are listed in `PROJECT.json` with the reason.
Parsing of files (packers, .NET, APK, PE) is sequential and works on bytes; a
model of it would be the parser again.  The argument checks and schemas of the
tool facade have no state.  UI automation, OCR, reports, doctor and CLI are
input and output.  The debugger itself, which the native plugin
calls, is not in the repository: what it may do is modelled from how the code
uses it.

## 7. What is left to do

1. The Frida and ADB backends: attaching after a time-out leaves a session
   that nobody detaches.
2. The rest of the store: sessions, audit, knowledge and timelines; the trims
   of agent rows.
3. Proofs: a form of `Retention` and `Breakpoints` whose sums and folds are
   defined without recursion, so that what they bound can be proved.
