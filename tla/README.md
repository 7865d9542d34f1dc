# Bua in TLA+

TLA+ modules, TLC configurations and machine-checked proofs about Bua, the agent
runtime of this repository: a Rust runtime that runs JavaScript agents on
JavaScriptCore, with Tokio for everything asynchronous.  Paths below are relative
to the repository; the crates are `runtime/` (the runtime), `core/` (types),
`cli/` (the `bua` command) and `jsc/` (the C++ bridge).

    tlc -config MCAgent.cfg MCAgent          # one run
    tlapm PromiseBridge_proofs.tla           # the proofs of one module

`PROJECT.json` lists the components, the runs, the source lines behind each
definition, the hazards, the findings, and for each property a *mutant*: a faulty
variant of one definition (they stand in the modules, marked `faulty`, just before
the definition they vary) under which TLC finds the property violated.

## The system

JavaScript values may be touched by one OS thread only.  Everything else is Tokio
tasks that talk to that thread, and to each other, through channels, mutexes and
shared maps.

| component | source | state | operations | what makes it hard |
|---|---|---|---|---|
| JS engine thread | `runtime/src/ffi/engine.rs` | the `JscContext`, a bounded channel of closures with one-shot replies | `dispatch` and the calls made of it; the thread's receive loop | full channel, callers that are dropped while they wait, panics, a context that cannot be created, the last handle going away |
| Promise bridge | `runtime/src/promise/{bridge,queue}.rs` | pending map, promise count, resolution queue and its two counters | `spawn_task`, `push`, `drain`, delivery to JS | tasks push while the JS side drains; counters are bumped outside the lock; a delivery that fails; handles are dropped by whoever is last |
| JS promise future | `runtime/src/promise/future.rs` | result and waker under one mutex | `complete`, `fail`, `poll`, `is_settled` | lost wake-ups, several resolvers, a future polled by another task than before |
| Agent | `runtime/src/agent.rs` | a message channel, an evaluation task, the pump, a wrapper with a timeout | `spawn`, `dispatch_tool`, `shutdown` | `select!` between messages and the evaluation, a tool that hangs, a timeout that detaches |
| Agent scheduler | `runtime/src/scheduler.rs` | a semaphore, a concurrent map of records | `spawn`, `shutdown_all`, `active_count` | permits, overlapping shutdowns |
| Runtime and `bua run` | `runtime/src/runtime/{runtime,agent_ctx,vm}.rs`, `cli/src/main.rs` | lifecycle, trace, result, snapshot | `Runtime::run`, the transitions, `cmd_run` | a timeout while the module runs on another thread, cancellation by other holders |
| Event loop | `runtime/src/event_loop.rs` | timers, a bounded channel it both sends to and receives from | `set_timeout`, `set_interval`, `clear_timer`, `run` | deadlines against messages, a channel full of other tasks |
| Deterministic replay | `runtime/src/deterministic/` | recorded calls, sequence number, divergences, virtual clock | `intercept`, `intercept_tool_call`, `deactivate` | several tasks replaying against one recording |
| Tool calls and capabilities | `runtime/src/runtime/{tool_ctx,capability_ctx,trace_ctx}.rs`, `runtime/src/tools.rs`, `core/src/capabilities.rs` | capability set and generation, the trace | `call`, `dispatch`, `grant`, `revoke`, `revoke_all`, `derive_child`, `emit` | capabilities change between the clone, the checks and the tool |
| Module loader | `runtime/src/loader.rs`, `runtime/src/modules/` | cache with modification times, dependency graph | `load`, `invalidate_all`, resolution, topological order | two loads of one file, a file that changes meanwhile, a shard reference held across an await |
| Snapshots | `runtime/src/runtime/snapshot_ctx.rs`, `runtime/src/snapshot.rs` | numbered files in a directory | `checkpoint`, `latest_snapshot`, `evict_old`, the format | a listing entry by entry and evictions against checkpoints, errors that end a listing silently, order of the file names |
| FFI context and values | `runtime/src/ffi/{context,value}.rs`, `jsc/src/bua_jsc.cpp` | boxes that protect JS values, handles that count their clones | `eval`, `call_function`, `create_promise`, `json_to_value`, `register_native`, clones and drops | a box freed too early, twice or never; pointers that are null |
| Metrics | `runtime/src/metrics/` | counters, gauges, histograms, each an atomic | the counting methods, `to_json` | relaxed atomics: the increments of one call become visible one by one, and what begins on one thread ends on another |
| Globals and built-in modules | `runtime/src/globals/injector.rs`, `runtime/src/modules/builtins.rs`, `runtime/src/deterministic/clock.rs` | native functions, the `Bua` object, the deterministic clock | `inject`, the functions of the `bua:` modules, `now`, `freeze`, `advance`, `set` | an injection that fails half-way, a clock that several threads change, overflow |
| the rest | permission guard, engine facade, transpiler, core types, Zig platform layer, npm packaging | | | no state that changes |

How they interact: `bua run` builds a `Runtime`, whose `run()` drives an
`AgentContext` through its lifecycle, appends to the trace and awaits
`VmContext::run_module`, which loads the source and sends one closure to the JS
thread.  An `Agent` owns an engine of its own, evaluates its module in one task and
pumps tool calls in another; the `AgentScheduler` starts agents and shuts them down.
A JS promise backed by Rust is a task of the `PromiseBridge`; what it computes
travels back through the `ResolutionQueue` and a `dispatch`.  A Rust future backed
by JS is a `JsPromiseFuture`; what either of them holds of JavaScript are handles
(`JsValue`) whose boxes the C++ bridge keeps.  Tool calls go through
`ToolContext::call` (trace, capabilities, registry), during a replay through the
`IoInterceptor`.  Modules are loaded by the `ModuleLoader`; `bua run` counts
in a `RuntimeMetrics`, and its heap capture ends up in a snapshot.

What must be right, per component: the engine thread runs what it accepted, in
order, once, and answers everybody who waits; the bridge loses, duplicates and
overtakes nothing, and its idle test can be trusted; the future never sleeps through
a settlement; the agent's calls start in order, its shutdown is graceful and ends;
permits and records of the scheduler balance; exit code, lifecycle and trace of a
run agree; timers fire when due, once, and not before; a replay without divergence
is the recording; a tool runs only if it was allowed, and the trace tells it; a
module that is loaded was on disk; the evaluation order has imports first; the latest
snapshot is the newest and reads as it was written; a handle lives exactly as long as
its box; a program's time does not go back; a report of the metrics adds up.

## Modules and code

Each module has the state of its component as variables under the source's names,
one action per statement that other threads can observe (a critical section is one
step; an `await`, an unlock or a second atomic starts another), and helpers for what
the code computes.  Data is reduced to what the properties tell apart.

* `ResolutionChannel` - what the bridge promises: a FIFO, exactly-once channel.
* `PromiseBridge` (`bridge.rs`, `queue.rs`) - `spawn_task` is `Register`, `Track`,
  `Start`; its task is `Complete` or `Panic`, `Push` (under the queue's lock),
  `Tally` (the counter after the unlock), `RemovePending`; the JS side is `Drain` and
  `Deliver`.  A delivery fails if the context is poisoned, if the call throws or if there
  is no JS thread: then the promise stays pending, its resolution is gone, and `failed`
  has it.  `released` records which thread dropped the last handle.  It implements
  `ResolutionChannel` with `accepted <- pushed`, where delivered means handed over.
* `JsService` - what `JscEngine` promises its callers; `JsThread` (`engine.rs`) - a
  `dispatch()` is `Send` or `SendWaits` and `SendResumes`, then `ReplyArrives` or
  `SendFails`; dropping its future is `Abandon`; the thread is `StartContext`,
  `Receive`, `Work`, `Reply`, `Exit`, `WorkPanics`.  It implements `JsService`.
* `JsPromise` (`future.rs`) - `Settle`, `Poll`, and an executor that polls
  spuriously and moves the future from task to task.
* `Agent` (`agent.rs`) - the pump (`StartEngine`, `PumpToolCall`, `ToolReturns`,
  `ToolPanics`, `PumpStop`, `PumpEvalDone`), the evaluation (`EvalReturns`), the
  wrapper (`InnerFinished`, `Timeout`), the callers (`Call`, `Send`, `SendFails`,
  `ReplyArrives`, `Abandon`) and the owner (`BeginShutdown`, `SendShutdown`, `Join`,
  `DropHandle`).  Of the engine it keeps whether the evaluation is over: JsThread's
  `EveryCallAnswered` is why an evaluation whose closure ends is over at last.
* `Scheduler` (`scheduler.rs`) - `Spawn`, `Acquire`, `StartAgent`, `Record`;
  `BeginShutdown`, `CollectKey`, `TakeRecord`, `AgentClosed`, `CloserReturns`.
  `task[a]` is the wrapper task of agent `a` (the task inside it may outlive it after
  a timeout); that one told to stop finishes is Agent's `ShutdownCompletes`.  The
  concurrent map is iterated shard by shard, so `CollectKey` looks for one record at a
  time, in any order.
* `RuntimeRun` (`runtime.rs`, `agent_ctx.rs`, `vm.rs`, `main.rs`) - one `bua run`:
  `Runtime::run` step by step, the JS thread reduced to its start and a queue of two
  jobs (the module and the heap capture), other holders of the context (`Cancel`).
* `EventLoop` (`event_loop.rs`) - `run()` as the top of the loop (`TopExpired`,
  `TopWaits`), the two arms of `select!` (`SleepOver`, `Receive`) and
  `fire_expired_timers` (`CollectExpired`, `Fire`, `FiredAll`), against a clock
  (`Tick`) and other senders (`Post`).
* `Replay` (`interceptor.rs`, `replay.rs`) - `intercept` by class of tool, with
  `Number` (the atomic sequence) and `Serve` or `ExtraCall` (under the lock).
* `ToolCalls` (`tool_ctx.rs`, `capability_ctx.rs`, `trace_ctx.rs`, `tools.rs`,
  `capabilities.rs`) - `call()` is `Begin`, `TraceCall`, `TakeSnapshot`, one
  `CheckNext` per required permission, `StartTool`, `ToolReturns`, `TraceResult`;
  around it `Grant`, `Revoke`, `RevokeAll`.  Paths, hosts and keys are the relation
  `Covers` between capabilities and permissions.  `Derived` is `derive_child`.
* `JsValues` (`context.rs`, `value.rs`, `bua_jsc.cpp`) - each call of a context is a
  step: `Eval`, `JsonToValue`, `ValueToJson`, `CreatePromise`, `CallFunction`,
  `RegisterNative`, `CallNative`, `Poison`; handles are cloned and dropped (`Clone`,
  `Drop`) on any thread, also after `Destroy`.  `box[b]` is what a `BuaValue` holds,
  `clones[b]` the count of the `Arc` around it; values that JSON can tell are copied
  and their boxes left (`Handle`).  `passed` are the pointers the last call handed to
  the bridge, which follows them without a test: a null ends the process.
* `ModuleLoader` (`loader.rs`) - a `load()` is `Begin` (the probe and the look into
  the cache), `Check` (the `metadata()` it awaits with the shard's lock in its hand),
  `Read`, `Stat`, `Insert`; around it the file is edited, removed and put back with
  any modification time (`Write`, `RemoveFile`), and `InvalidateAll`.  A load that waits in
  `Insert` for the shard takes a worker thread with it (`Blocked`), and what was awaited
  goes on only while there is a thread left (`Resumable`).
* `ModuleGraph` (`graph.rs`) - `InsertModule`, `AddEdge`, and `eval_order()` as a
  stack of calls of `dfs_post_order()`: `EvalOrder` makes the first, a turn of the loop
  is `MeetsCycle`, `MeetsVisited` or `Descend` (one more call), its end is
  `EndOfImports`.  The search borrows the graph, so that nothing else moves meanwhile.
* `ModuleResolver` (`loader.rs`, `resolver.rs`) - the two probing loops: each looks at
  `Candidate(p)` for the places `p` in the order `Precedes`; compared over every layout of
  a directory.  What lies under a path is nothing, a directory, a file of some canonical
  path (`Targets`; two paths may be links to one file) or one that cannot be
  canonicalized.  The loader returns the path it found, the resolver its `Canonical` path;
  a built-in is a name to the resolver and a path under `BuiltinDir` to the loader.
* `SnapshotStore` (`snapshot_ctx.rs`) - `checkpoint()` is `Checkpoint` (the number),
  `OpenFile`, `WriteAll` or `WriteFails`.  `evict_old()` is `ListOld`, whose list an error
  may have cut short, and one `RemoveOld` per file.  `latest_snapshot()` is `ReadDir` (an
  unreadable directory counts as one without snapshots), a `NextEntry` per file, `Find`
  when all files of the start that are still there have come, or, with an error, at any
  moment, and `Parse`; files that come or go meanwhile may be seen or missed.  The list of
  `evict_old()` is one step because it only grows old: which files are newer than one in
  it changes by newer files being added.  `Before` is the order of the file names.
* `SnapshotFile` (`snapshot.rs`) - `With` sets a stratum; `serialize()` is `Serialize`
  and one `WriteStratum` per field, then `WriteToFile`; `deserialize()` is `ReadHeader`
  and a `ReadStratum` per turn of its loop over tags and lengths, until `EndOfBody`.
  Files of later writers, with strata of their own (`WriteUnknown`) or a later version,
  and damaged ones (`Damage`) are read too.
* `Globals` (`injector.rs`, `builtins.rs`, `clock.rs`) - `Inject` up to any group,
  with or without its script; `CallBuiltin` runs the native under a function of a
  module, or throws, or does nothing, where there is none (`Runs`); the clock's `Now`,
  `Freeze`, `Advance`, `SetTime`, over words of `Word` microseconds.
* `Metrics` (`metrics/mod.rs`) - what a method adds to the counters is a function over
  them, `++` its statements one after the other; `Issue` sets the increments out, and
  `Land` lets one become visible, in any order.  There are no threads in it: any call may
  be made on any thread.  An end (of an agent, of a promise) is of something that has
  begun and not ended, on whatever thread, and its decrement comes after the increment in
  the order of that counter, because the beginning happens before the end.  That is an
  assumption on the callers, which the methods do not check; the one caller in the
  repository awaits the run in between (`cli/src/main.rs:214-221`).

Every `MC...` module gives the constants their values for TLC.  External code - Tokio
channels, semaphore, timers and task panics, the file system, `DashMap`'s locks,
relaxed atomics - is modelled from how the runtime uses it and marked `external` in
the map.

Some of these modules are checked together: `MCEngine`, `MCHost`, `MCModules` and
`MCTools` put several components into one state space.  A variable `part` says which
of them a behaviour is about; it never changes, the components of the other parts stay
in an initial state, and the next-state relation is that of the part's module.  A
component thus behaves in them exactly as in its own specification, and since each
part has its own weak fairness, taken over from its module with the conjunct
`part = ...`, its liveness properties mean what they mean there.  One component of each
has the plain names `Init`, `Next`, `Spec` and `vars`; the others that these modules
and the proofs extend name theirs (`PromiseSpec`, `ValuesSpec`, `RunSpec`, `StoreSpec`,
`FileSpec`, `ReplaySpec`, `MetricsSpec`, `GlobalsSpec`, `GraphSpec`; `ResolverInit`, as a
resolver has no steps), so that one module can extend them all.

## Runs

| run | part: instance | properties |
|---|---|---|
| `bridge` | 3 promises | `CountersAccount`: the two counters account for the queue's length up to pushes between their two statements; `IdleTestSound`: an entry leaves the pending map only when its outcome is queued or beyond; `OutcomeReachesJs`: what a future returned settles its promise, or its one delivery fails; `ImplementsChannel` |
| `engine` | thread: 4 calls, channel of 2 | `GracefulExit`: the thread works off what it accepted, in the order accepted, before it exits; `WithdrawnNeverRuns`: a call given up in `send()` never runs; `EveryCallAnswered`; `ImplementsService` |
| | promise: 2 resolvers, 3 owners | `NoLostWakeup`, `SettledYields` |
| | values: 4 boxes, 2 clones | `HandlesOwnBoxes`: a box that is kept is protected exactly as long as its handle has a clone |
| `agent` | 3 calls, channel of 2, with and without timeout | `ReportedIsFinal`: a status other than `TimedOut` that `shutdown()` returns is never contradicted; `GracefulStop`: a pump stopped by a shutdown has started every accepted call, in order; `EveryCallReturns`; `ShutdownCompletes` |
| `scheduler` | 3 agents, 2 slots, 2 closers | `PermitsAccount`; `CloserWaited`: overlapping shutdowns share the agents out and each awaits its own; `CloserReturnsAtLast` |
| `host` | loop: 2 timers, 3 posts, channel with room | `FiresWhenDue`: a timer is handled when it is due, once per deadline; `DueTimerFires`; `ShutdownStops` |
| | run: all options | `RunRecordsAgree`; `HeapAfterModule`: the heap is never captured in the middle of the module or ahead of one that waits for the JS thread; `TimeoutBoundsRun` |
| | store: 2 writers, 2 evictions, 3 numbers | `LatestIsNewest`, unless an error cut the list or a file as new was evicted before the list came to it; `EvictsOnlyOld` |
| | file: 3 known strata and an unknown one, 3 payloads | `ReadsWhatWasWritten` |
| `modules` | loader: 2 loads, 1 worker, 3 versions, 2 times | `LoadsWhatIsThere`; `LoadsReturn`: every load returns unless all workers are blocked in `insert()` while one more load holds the shard (`Deadlocked`) |
| | graph: 3 modules, 2 imports each | `OrderRespectsImports`; `WarnsOfCycles` |
| | resolver: 2 names, 2 index files, 2 targets | `ResolversAgree` |
| | globals: a word of 6 microseconds | `TimeNeverGoesBack`; `ModulesFindNatives`, but for five functions (`Throwing`, `Silent`) |
| `tools` | calls: 2 calls, 2 required permissions, 4 capabilities, 1 revocation | `RunsIfAllowedAtOnce`; `SameGenerationStillGranted`; `TraceTellsCalls` |
| | replay: 2 tasks, programs and recordings of up to 2 calls | `CleanIsPrefix`: a clean replay is a prefix of the recording, each record served once; `SameProgramReplays` |
| | metrics: 2 calls on any threads | `ReportAddsUp`: no gauge is below zero, and with nothing on its way a report adds up |
| `bridge_release`, `scheduler_bound`, `event_loop_full`, `native_context`, `snapshot_order` | as above; `event_loop_full` over a channel of 2, `snapshot_order` with numbers that outgrow their width | each finds the one property violated, see Findings |

**Bounds.**  Three promises put one task between its push and its counter update while
another pushes and a third is drained.  Four calls over a buffer of two give one at
hand, two buffered and one waiting for room; the agent's three over two give one
running and a full channel.  Two tasks, closers, resolvers or writers are what a race
needs; two loads on one worker are one load more than there are workers, so that the
blocked state is reached, and the file may have been loaded before.  Four boxes hold a
promise and its two functions beside an argument, or an argument and a result beside a
function.  Three agents for two slots make one wait.  Three versions let a file change
twice during one load, and two modification times are enough for times that repeat and
that go back.  Three modules have every cycle with and without a module beside it,
with modules that have no record on it.  In the directory of snapshots `Base` stands
for 10 and `Wrap` for 10^4: only whether a number has outgrown its width matters to
the order of two names; in the part `store` it has not (`MaxNumber` is below `Wrap`),
in `snapshot_order` it has.  The payloads of `SnapshotFile` are empty, look like a tag
and look like an empty stratum with a tag behind it, so that a reader which is off by
a unit reads something else.  In the resolver's layouts any two paths may lead to the
same one of two files, or to different ones.  A word of six microseconds at two to the
millisecond has sums and products that overflow.  The only duration in `metrics` is
the bound of a bucket, and two calls are a beginning with its end or two unrelated
ones.  A replay of two calls per task has every interleaving of the numbering with the
lock.  One revocation with any number of grants lets one capability go and another
come between two checks.  The counters cut off by a guard are `MaxRevocations`,
`MaxEdits`, `MaxClones`, `MaxImports`, `MaxUnknown`, `MaxNumber`, `MaxCalls` and the
wall clock of `Globals`; `fired` in `EventLoop` counts to two, what elapses while
timers are fired to `Longest`, which no delay exceeds (beyond it every timer is due
anyway), and all other state is bounded by the number of calls, promises, boxes or
agents of the instance.  `CHECK_DEADLOCK FALSE` stands in every configuration because
all these systems legitimately come to rest: all calls answered, all promises
delivered, all boxes used; the part `resolver` has no steps at all.

**Fairness.**  Weak fairness on the steps of a task that Tokio or the OS must run
when it can go on, and on timers that are set.  None on callers, on other threads
that send, on a future's completion, on a JS module's end (`RuntimeRun`), or on a
tool's return: `EveryCallReturns` and the first half of `ShutdownCompletes` have the
hypothesis `ToolsReturn` written out, because a tool that hangs does block them.  A
JS closure of `JsThread` is assumed to return or panic.  `OutcomeReachesJs` and
`ImplementsChannel` have one assumption more, `DrainerComesBack`: that someone keeps
draining the queue and delivering.  The repository leaves that to the embedder; none of
its code calls `drain_resolutions()` (`bridge.rs:163`).  In `EventLoop` the
properties about ends are stated for loops without intervals, since one shorter
than a turn of the loop is always due and the loop never comes to receive.  In
`ModuleLoader` file operations end and locks are granted, as long as a worker thread is
left to go on with; when none is, `LoadsReturn` says so.  Nothing is
assumed of the people who edit files, of the snapshots' writers, or of when an increment
becomes visible in `Metrics`.

## Findings

* `bridge_release`: `PendingPromise` holds a clone of the `PromiseHandle` and its
  entry is removed by the Tokio task after the push.  If JS has delivered the
  resolution by then, a Tokio worker drops the last handle, and with it releases JS
  values off the JS thread (`docs/ARCHITECTURE.md:46`).
* `scheduler_bound`: the permit is a local of `spawn()` and goes back when `spawn()`
  returns, so that `max_concurrent_agents` bounds concurrent `spawn()` calls, not
  agents (`scheduler.rs:20`, `:93`).
* `event_loop_full`: firing a timer awaits room in the channel that only the loop
  receives from; if others have filled it, the loop waits for ever and never sees the
  shutdown (`event_loop.rs:100`).
* `native_context`: `native_callback` passes a null context, "not needed at callback
  time" (`bua_jsc.cpp:308`), and `native_trampoline` hands it back to functions of the
  bridge that follow it (`context.rs:471`).
* `snapshot_order`: from the 10001st checkpoint on, the last file name is not the
  newest snapshot (`snapshot_ctx.rs:107`, `:128`), and `evict_old()` removes by the
  same order.

Seen while modelling, without a run of their own:

* `is_settled()` turns false again after `poll()` took the result; a timeout detaches
  the agent's inner task, which goes on to start tool calls; `active_count()` counts
  agents that ended by themselves; `transition_*` overwrite a `Cancelled` lifecycle;
  `bua run --timeout --snapshot` waits behind a module that never ends.
* `ReplayResult.deterministic` ignores recorded calls that were never made,
  `intercept_tool_call` replays a failed call as a success, and `cmd_replay` never
  calls `verify_complete`; `derive_child` passes on everything requested once the
  parent has `AgentSpawn` (theorem `SpawnerPassesAll`), where `capability_ctx.rs:126`
  says "child ⊆ parent — never exceeds".
* A delivery that fails (`context.rs:264`) leaves its promise pending for ever: its
  resolution was drained, and nothing keeps it.
* The boxes of primitives and of values copied as JSON are never freed (`Handle`,
  `CallWithPrimitive`); a stub passes a null pointer (`value.rs:232`), which ends the
  process in `ValueToJson`; `native_trampoline`'s error path writes a `BuaValue` where
  the bridge expects a `BuaException`.
* `load()` may cache a source under the time of a later one, or miss a file that was
  put back with an older time (the two exceptions of `LoadsWhatIsThere`).  It can block
  all worker threads (`Deadlocked`).
* The loader finds a directory that has the name of an index file and fails to read it.
  Its path for a built-in, `__bua_builtin__/x`, is a file that `load()` then tries to
  read.  It looks for no `node_modules`, which its header promises (`loader.rs:5`): a bare
  specifier is an error in both resolvers.  Where a file is reached by a link, the path
  the loader has and the canonical one of the resolver are in different directories, and
  relative specifiers in that file mean different files.
* A checkpoint that was cut short hides the good one before it.  `latest_snapshot()`
  reports a directory that cannot be read as one without snapshots, and ends its list
  silently with an error: it may then return an older snapshot, or none.
* `GlobalInjector` is called nowhere in the repository.  Five functions of the built-in
  modules have nothing behind them: `time.set`, `agent.spawn` and `random.uuid` (which
  wants a global `crypto`) throw, `trace.exportNdjson` and `trace.checkpoint` do nothing
  (`Throwing`, `Silent`).  `freeze()` freezes a live clock, which `builtins.rs:253`
  calls a no-op; `random.seed` does nothing, and `js_random` may round to 1.0
  (`injector.rs:324`); `advance` wraps around in release builds.

## Proofs

Eight modules hold theorems that `tlapm` checks to the last leaf, for every value of
the constants that the named assumptions allow: any number of calls, tasks, promises,
timers, agents, writers, and so on.  Of what the passing runs check, every safety
property is a theorem, and of the refinements the safety part.  The assumptions are
the types of the constants, that "none" values are not among what they stand beside
(`NoCallIsNone`, `DistinctMessages`, `PostsAreNoTimers`, `NoneIsNone`,
`NoAgentIsNone`), that a channel, a semaphore or a set of owners is not empty, that
the tags of strata differ (`TagsDiffer`), and what is said below.

`SequenceFacts` has the lemmas about sequences that several of the others need: the
elements of `Append`, `Front`, `Tail` and `RemoveAt`, and how they split around `\o`.

Nothing is proved by induction over data, which the installed provers cannot do.  Two
things stand in for it: an algorithm that recurs or loops over a sequence is modelled
turn by turn, so that its loop invariant is an invariant of the specification
(`ModuleGraph`, `SnapshotFile`), and a fact about all positions is shown of a least
counterexample (`WFMin`, in `ResolversFindTheSame` and for the sums of `Tools_proofs`).

**`PromiseBridge_proofs`**: `BridgeTypes`, `BridgeConserves`, `BridgeCounts`,
`BridgeNoDuplicate`, `BridgeIdleTestSound`, `BridgeSettles`, and
`BridgeImplementsChannel` (the safety part: initial states and steps), for every finite
set of promises (`PromisesFinite`, for the cardinality in `CountersAccount`).
`Conservation` and `CountersAccount` are inductive over `TypeOK`.  The others are not:
that no promise is pushed twice follows only from what each task has done so far, so
`IInv` adds `EntryTracksTask` (a pending entry stands for a task that has not removed
it) and `PushInv`: every resolution pushed was pushed by its task, with its future's
result (`PushedByItsTask`), a task past its push did push (`TaskDidPush`), and no
handle occurs twice among the pushed (`PushedOnce`).  With `Conservation` these facts
about `pushed` carry over to the queue, the batch and what was delivered.
`BridgeSettles` says that a promise settles once and as its future ended, whichever
deliveries fail.

**`Engine_proofs`** (`JsThread`, `JsPromise`, `JsValues`).  `ExitIsGraceful`,
`WithdrawnStaysOut` and the refinement `EngineImplementsService` come from one
invariant, `ThreadInv`.  `GracefulExit` alone is not inductive, since it does not say
who has been accepted: `CallsAccounted` places every call (in `send()` it is not in the
channel's history, awaiting it is; unanswered while in progress; a reply is filled only
after the closure ran), `WaitersWait` keeps the line for room free of calls that have
left it, `HandHolds` ties the item at hand to the thread's step.  In the refinement
`Work` is `Execute`, a reply that arrives is `Return` or `Lose`, a failed `send()` is
`Refuse`, and everything else stutters.  `WakeupsReachTheOwner` needs only that the
owner is a task; `HandlesOwnTheirBoxes` is inductive over the types.

**`Agent_proofs`**: `ShutdownIsGraceful` and `ReportsAreFinal`, by `AgentInv`.  That the
calls not started are those in the channel could break at a `Shutdown` with calls
behind it; there are none because `shutdown()` consumes the handle that
`dispatch_tool()` borrows (`CallsBorrow`, `ShutdownLast`).  That a report is final
follows from the hand-over of the status from the pump to the wrapper to the owner
(`TasksAgree`), and from the pump's hold on every reply that is owed (`RepliesOwed`,
`PumpHolds`): it ends with an empty channel, and whatever was in it was dropped.

**`Scheduler_proofs`**: `PermitsAlwaysAccount` and `ClosersShareOut`, for every finite
set of agents, any number of shutdowns and every number of slots (`AgentsFinite`).
Neither is inductive: a call takes one permit only because it is in the line once, and
only while it waits (`LineWaits`); two shutdowns do not take the same agent only
because a record that was taken is not made again (`RecordedOnce`), and they have
waited because whatever was taken has ended or is being waited for (`TakenEnds`) and a
call that returned has nothing left to do (`ReturnedIsDone`).

**`Host_proofs`** (`EventLoop`, `RuntimeRun`, `SnapshotStore`, `SnapshotFile`).
`TimersFireWhenDue` rests on `FiringDue` (what was collected stays due while it is
being sent, because nothing is received meanwhile) and `ArmedIsFresh` (an armed timer
was not cleared, an armed timeout has not fired).  `RecordsAgree` follows the three
records along the steps of `run()` (`LifecycleFollows`, for runs that nobody cancels,
and `TraceFollows`); `HeapIsCapturedAfterModule` has `HeapComesLast`: the capture is
asked for once, after `run()`, and lies behind the module in the queue, if the module
was handed over at all.  `EvictionSparesTheNewest` says that what an eviction has on
its list has `MaxSnapshots` newer files at every moment (`EvictedHaveNewer`), although
the list is stale and others remove files too: the file that goes is not newer than
all of those beside it, so that each loses a newer file only if another `MaxSnapshots`
lie above that one.  `LatestSnapshotIsNewest` adds that what is written or completed
always has a file of its number or of a higher one (`WrittenIsCovered`), and follows
the reader along the directory (`ReaderIsUpToDate`): for what was completed when it
began there is a file as new that it has seen, one that it has not come to, or one
that was evicted before it did.  Two hypotheses stand in these theorems.  `MaxNumber <
Wrap` (both) is where the code is right at all: beyond it the names lie about the
order, which is the finding of `snapshot_order`.  `MaxSnapshots # 0` (the second): a
directory of which nothing is kept has no newest file to find.

`FileReadsBack` holds for any number of strata and for payloads of every length,
although a payload may look like a tag.  The file's invariant, `WellWritten`, says that
there are segments which it consists of: they follow each other without a gap (`Lays`);
each one that is known has the payload of its stratum, and none is missing of what the
writer has come to (`Truthful`); and the reader stands where one of them begins, having
filled exactly the fields of those before it (`ReadTo`).  So it never takes a payload
for a tag.

**`Tools_proofs`** (`ToolCalls`, `Replay`, `Metrics`).  `CallInv` has `WitnessInv` (a
clone that allows the call was an allowed instant, what was checked is covered by the
clone, nothing is checked before there is one), `GenerationInv` (a clone of the
current generation is a subset of the current set) and `TraceInv` (what the trace has
of a call, by where the call is); from them `ToolRunsIfAllowedAtOnce`,
`SameGenerationVouches` and `TraceTellsEveryCall`.  `SpawnerPassesAll` is about the
operator `Derived`: a parent that may spawn agents passes on all that is requested.
`CleanReplayIsPrefix` rests on `ServedOnce` (a served result is of a record that was
popped, no two of the same) and `FollowsRecording` (without a divergence, what reached
the engine is what was popped); `SameProgramReplaysCleanly` in addition on
`OnlyReplayable` and `Aligned`: a task that replays alone has made, of its calls that
can be replayed, exactly as many as were popped, so that the next one meets its own
record.  `f` in it is the alignment of the recording with the program: a strictly
increasing function from the one's positions to the other's, which replaces the
filtered sequence that would need induction.

`ReportsAddUp` is about sums over the calls made so far, however many, with durations
of every length.  `Tally(w, n, total)` says that `total` is the sum of the `w[k]` for
`k` up to `n`, by a sequence of partial sums, so that a call more at the end and a
change at one place change the total by as much (`TallyGoesOn`, `TallyChanges`).
`IssuedInv` has, for each counter, the sum of what is still on its way as the
difference between what the calls add together, which adds up by itself (`Fits`; each
method's increments do, and so do sums of them), and what has landed: with nothing on
its way they are the same.  That no gauge is below zero is another sum: a gauge holds
one for each beginning that has landed while its end has not (`GaugeInv`).  For this
`PairsInv` pairs each end with a beginning of its own, and `OrderInv` has the
beginning's increment landed whenever the end's has.

**`Modules_proofs`** (`ModuleLoader`, `ModuleResolver`, `ModuleGraph`, `Globals`).
`LoadInv` says what a load has seen and holds, wherever it is: in progress it has seen
the version on disk, makes its entry of a version it saw, and the entry is `Genuine` -
it has the time of its version unless the file had changed in between.  That a call
which checks an entry still finds one there rests on the shard's lock (`ShardFree` in
`Insert` and `InvalidateAll`).  `ResolversFindTheSame` is about one state, and holds
of any directory, wherever its links lead, and any two lists: `Precedes` is a
well-founded total order of the places (the library's lexicographic order), so that
both loops have a first place each, and the loader's extra look at the exact path is
its first place.  `TimeGoesForward` has the arithmetic of sums that are cut to a word,
for words of every width (`WordPositive`, `ClockParameters`); `BuiltinsFindNatives`
says that the `Bua` object is there only behind all the groups of natives
(`NativesInv`), and which five functions find nothing even so.

`OrderIsSound` and `WarnsOfAnyCycle` hold for graphs of every size, with any cycles and
with modules that have no record.  What a module reaches is what lies in every set that
is closed under imports, so that no path has to be built.  The invariant of the search
(`GraphInv`) has the stack, whose keys are those of `in_stack`, each reaching the next
(`CallsNest`); the frontier: what was met is visited or on the stack (`Frontier`); the
order, in which a module has its imports before it but for those that lead back to it
(`Listed`); and for the warning both directions (`Warned`): a cycle that was met is one,
and as long as none was, no visited module imports anything on the stack (`NoCycleYet`),
so that the visited modules are closed and none of them lies on a cycle.

**Only model-checked.**  Everything about liveness, which the prover does not do:
`OutcomeReachesJs`, `EveryCallAnswered`, `SettledYields`, `EveryCallReturns`,
`ShutdownCompletes`, `CloserReturnsAtLast`, `DueTimerFires`, `ShutdownStops`,
`TimeoutBoundsRun`, `LoadsReturn`, and the fairness in `ImplementsChannel`.
The safety invariants of the passing runs are all proved.

## Not modelled

* The audit log of `require()`, the matching of paths and hosts, argument parsing and
  the CLI commands other than `run`: tests and formatting without state.
* The contents of values that cross the FFI, `drain_microtasks`, JavaScriptCore itself
  (not in the repository), and builds without it.
* The legacy snapshot format, except as one unit that is written and read; what the
  strata contain.
* The status of a module record and the scanners for imports (`record.rs`), which
  nothing in the runtime drives; what the transpiler makes of a text.
* The counters that no method increments.
* The components `PROJECT.json` lists as not modelled, with the reasons; the
  `PermissionGuard` of `permissions.rs` is not used by the runtime.

Hazards that no property covers are in `PROJECT.json` with the reason: a cancellation
that is overwritten or that comes before `run()`, an interval that is always due, a source
cached under the time of a later one, a cut-off snapshot that hides a good one, and a
handle that outlives its context.

## What could follow

A composition of `PromiseBridge` with `JsService`, in which a delivery is a `dispatch()`
that can find the thread gone; an abstract cache that behaves like reading the file, for
`ModuleLoader`, and the abstract semaphore that `Scheduler` implements; the safety half of
`TimeoutBoundsRun` - that no state of `run()` with a timeout waits for the module alone.
