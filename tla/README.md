# A verification model of PipeBuilder

PipeBuilder (`include/pb`) is a header-only C++20 library. A pipeline is a type:
a list of stages, branches and fan-in joins built by a compile-time DSL. An
engine runs it: the sequential engine on the calling thread, the thread-pool
engine with the cases of a fan-in branch on a worker pool. Around the engines
there are observers, error policies, a cancellation token, a state DSL and
exporters for the pipeline's graph.

This directory holds TLA+ modules that model the parts of the library whose
behaviour depends on order, threads and failures, the TLC configurations that
check them on small instances, and proofs that TLAPS checks for every instance.
Paths below are relative to the repository's root.

## Inventory

| Component | State | Operations | How it interacts |
|---|---|---|---|
| Thread pool, `include/pb/runtime/thread_pool.hpp` | `tasks_`, `active_tasks_`, `stop_`, two condition variables, a thread-local `current_pool_` | `post`, `enqueue`, `enqueue_range`, `wait_idle`, `wait_idle_for`, `wait_idle_until`, `snapshot`, destructor, worker loop | shared by engines; tasks may call the pool they run on |
| Thread-pool backend, `include/pb/runtime/thread_pool_backend.hpp` | per branch run: the aggregate, the tally, a task group (`pending_`, `first_error_`), a `synchronized_observer` | `run_parallel_fan_in_branch`, `schedule_fan_in_cases`, `post_fan_in_case`, `run_stages` | posts to the pool, reads the cancellation token, calls the observer from many threads |
| Sequential engine, `include/pb/runtime/sequential.hpp` | the value in flight, the observer pointer | stage recursion, selected branch, sequential fan-in, error normalisation | calls stages and the observer; its fan-in case helpers are used by the backend |
| Observer, `observer.hpp`, and trace, `trace.hpp` | recorded events | stage, case and fan-in callbacks | called by every engine; may throw |
| Cancellation, `cancellation.hpp` | a shared atomic flag | `request_stop`, `stop_requested` | set from any thread, read by the backend |
| State DSL, `state.hpp` | thread-local stack of frames, storage of an engine | frame push and pop, `current_state`, reset policies | wraps an engine |
| Error policies, `error_policy.hpp` | the wrapped engine's observer | throwing, terminating, ignoring, propagating, verbose | wrap an engine |
| Result and error, `result.hpp`, `error.hpp`, `src/runtime/error.cpp`; fan-in errors, `fan_in_error.hpp`; `routing.hpp`; `clone.hpp` | values | conversions, aggregation, copies | used by the engines |
| Builder, `core/pipeline_state.hpp` with `core/policy.hpp`, `core/stage_traits.hpp`, `core/validate.hpp` | the type-level list of nodes | `then`, `branch`, `when`, `fan_in` ... | compile time, feeds the engines and the exporters |
| Descriptors and exporters, adapters, command line tool | none that outlives a call | formatting, wrapping, argument parsing | compile time or pure I/O |

What is hard, and what makes each part correct:

* **Thread pool.** Every notification is sent after the unlock; the queue can be
  filled from tasks, from several clients and while the destructor drains it;
  `enqueue_range` may fail in the middle. Correct means: FIFO, each task once,
  no lost wakeup, an idle answer that is true, a destructor that terminates and
  leaves nothing behind.
* **Parallel fan-in.** Workers write slots of an aggregate in the caller's
  frame; the caller must not leave before they have finished. Observers throw on
  either side. The counts must agree with the slots, the events with both, and
  the stop flag is read while it is being set.
* **Sequential engine.** One thread, but exceptions of stages, predicates and
  observers travel through nested handlers which report and normalise them.
* **State DSL.** Frames on a thread-local stack, while runs nest, throw, come in
  batches and go on on other threads, and while states are reset and replaced.
  Correct means: the stack and the live frames agree, a run that resets its state
  sees its own writes only, and no run's state goes away under it.
* **Builder, exporters, wrappers.** The builder's checks, the engine's way of
  calling stages, the descriptors and four exporters each derive the same things
  from the pipeline's type on their own. Error policies can be stacked by markers
  and by hand. Correct means: what one part accepts the others handle alike.
* **One pool for many runs.** Runs of several callers, and of case stages, queue
  behind each other and call one observer; a run that an exception takes out of its
  branch leaves cases in the queue and in the observer.

## Modules

| Module | Models | Composition |
|---|---|---|
| `TaskPool` | what any pool promises | abstract, implemented by `ThreadPool` |
| `ThreadPool` | `thread_pool` | refines `TaskPool` |
| `ThreadPoolProofs` | theorems about `ThreadPool`; it implements `TaskPool` | extends it |
| `FanIn` | what a fan-in branch promises, whichever backend runs it | abstract, implemented by `ParallelFanIn` and `SequentialFanIn` |
| `ParallelFanIn` | one fan-in branch of `thread_pool_engine` | uses the pool as `TaskPool` describes it, refines `FanIn` |
| `ParallelFanInProofs` | theorems about it; it implements `FanIn` | extends it |
| `SequentialFanIn` | one fan-in branch of the sequential engine | refines `FanIn` |
| `SequentialFanInProofs` | theorems about it; it implements `FanIn` | extends it |
| `SequentialEngine` | one run of a chain of stages, in the three recursions of `sequential.hpp` and that of `thread_pool_engine` | a branch is one of its stages |
| `SequentialPipeline` | a chain with its branches opened | extends `SequentialEngine`, instantiates `SelectedBranch` and `SequentialFanIn`, refines `SequentialEngine` |
| `SequentialPipelineProofs` | theorems about `SequentialEngine` and `SequentialPipeline` | extends the latter, instantiates `SelectedBranchProofs` and `SequentialFanInProofs` |
| `FirstMatch` | what a selected-output branch promises | abstract, implemented by `SelectedBranch` |
| `SelectedBranch` | one selected-output branch, with and without stored stages | refines `FirstMatch` |
| `SelectedBranchProofs` | theorems about it; it implements `FirstMatch` | extends it |
| `SharedPool` | several runs, nested ones too, on one pool with one observer | the view of `ParallelFanIn` from outside; who waits for whom |
| `SharedPoolProofs` | theorems about `SharedPool` | extends it |
| `StateContext` | the state DSL: frames, five storage policies, runs and batches | beside the engines, whose runs it frames |
| `StateContextProofs` | theorems about `StateContext` | extends it |
| `PipelineBuilder` | the typed builder | its nodes are what the next two work on |
| `PipelineExports` | descriptor records and the graphs of the four exporters | operators on the builder's nodes |
| `CompiledPipeline` | `compile`, the error-policy wrappers, calls through a stack of them | extends `PipelineBuilder` and `PipelineExports` |
| `CompiledPipelineProofs` | theorems about `CompiledPipeline` and `PipelineBuilder` | extends it |
| `MC...` | instances for TLC | extend the above |

### ThreadPool

A region the code runs under `mutex_` is one action; what follows the unlock is a
step of its own. A worker's place in its loop is `worker[w]`: `waiting` (at
`cv_.wait`, asleep while it is in `cv_`), `running`, `finishing` (the body has
returned), `notifying` (`finish_task` has unlocked and owes `notify_all`),
`releasing` (the guard is gone, the local `task` is not) and `exited`. The part of
an operation a thread still owes is `call[t]`: a task in a worker can be in the
middle of a pool operation as well as a client. `post` and `enqueue` are one action,
`Enqueue`, because they differ in the future only; `wait_idle_for` and
`wait_idle_until` are one, since time is abstracted to "the deadline may pass".
Tasks are numbers in order of acceptance, which abstracts the callables.

The history variables `submitted`, `done`, `before` and `unsignalled` record how
many tasks were accepted, which have returned, what had been accepted when each
thread's last idle wait began, and how many tasks a throwing `enqueue_range` left
without a notification (the progress properties speak of behaviours where that is
none, `AllSignalled`). No guard of a modelled operation reads them, but for the
bound `MaxTasks`.

`CanCall` states the library's usage contract: clients do not start operations on
a pool that is being destroyed, whereas running tasks may.

### ParallelFanIn

The caller's position is `pc`, a worker's position in the posted lambda is `at[w]`.
The stage's own callbacks (`on_stage_start`, `on_stage_success`, ...) are the points
where a worker can leave `run_fan_in_case_stage_with_arg` by an exception. The
constants `CallerThrows`, `WorkerThrows`, `CopyThrows` and `PostThrows` say which
sources of exceptions an instance has. A stage always may fail or throw.
`on_fan_in_case_scheduled` may have been delivered or not when an exception leaves
that callback. The pool is a queue with workers that take from it, which is what
`TaskPool` promises; the branch's tasks are the only ones on it.

The values in the slots are abstracted to the states `skipped`, `completed`,
`failed`; the error a group keeps is the case it came from.

### SequentialFanIn

The same branch without a pool: one position `pc`, the case it is at, the slots and
the tally. The tally is counted as the cases go, not derived at the end, so the
refinement of `FanIn` is a different obligation than for the parallel branch. An
exception on this path ends the branch at once, which is why no case is ever
`lost` with the branch going on (`lost <- {}`), and why the documented lifecycle
holds here without the restrictions it needs in `ParallelFanIn`.

### SequentialEngine

`mode` is the recursion: `convert` (`try_run_after_result`; `run_after_result` when
the chain's error type can be made from `pb::runtime::error`; the thread-pool
engine's `run_stages`), `rethrow` (`run_after_result` otherwise) and `plain`
(`run_stages` of the sequential engine). In the first two the call for the rest of
the chain is inside the `try` of the stage before it, so the frames of all earlier
stages are live and an exception that leaves one handler is caught by the previous
stage's handler (`Unwind`). `stage` is the frame that is running, first on the way
down, then on the way back. Values are not modelled; an error is its stage and
whether it was returned or made from an exception. `Throwing` says which callbacks
may throw, `broke` which have (`success` also stands for a move or conversion of the
value that throws right behind that callback): several documented properties hold as
long as the observer does not throw from certain callbacks, and say so by `broke`. A missing
observer is one that never throws.

### SelectedBranch

`stored` chooses between `run_selected_branch_cases_with_storage`, which recurs
inside the predicate's `try` as the engine does, and `run_selected_branch`, where the
predicate and the stage have a `try` of their own and what the case callbacks throw
leaves the branch. `FirstMatch` states routing without either structure, including that
no predicate is asked once the input has been moved into a stage. Errors that
predicates and case stages return are taken to name no stage of their own.

### SequentialPipeline

The engine's step `InvokeStage` is replaced, for a stage that is a branch, by the
steps of the branch (`BranchStep`, `FanInStep`) and a step that turns its end into
the end of the stage (`EndBranch`, `EndFanIn`). `shape` says what each stage is.
A branch's variables are not reused, hence at most one branch of each kind per
chain (`OneOfEach`). `BranchIsAStage` is the refinement: to the engine all this is
an `InvokeStage`.

### SharedPool

A run goes by the name of the thread that makes it: a thread has at most one run that
is not waiting for one of its own stages. `run[t]` is the caller's side of a branch
with the group's `pending_`, `task[w]` the posted case a worker executes. A stage of a
case may run an engine on the same pool (`StageBegins`, one level deep), and its worker
then waits with the case in its hands. `telling[t]` is the observer's callback a thread
is in, and whether it came through the mutex of a `synchronized_observer`; there is one
such mutex per branch run. The pipeline of a run is one fan-in stage. The callbacks of
one case on a worker are two, one before and one after its stage, and those of the caller
for one case are one.

An exception on a worker is caught in the case, which finishes like any other. On the
thread of a run a callback or a constructor may throw (`CallerThrows`): `Unwind` takes the
run out of its branch, past `group.wait()`, to the handler of `run_stages`, which tells the
observer without the mutex (`TellStage` at `caught`). The cases stay in the queue and in the
workers' hands (`Queued`, `Executed`), though frame and mutex are gone (`Unwound`). A case
left behind that calls the observer locks a mutex that does not exist, which is undefined; in the
model nobody is kept out by it. A run begins on a thread only when no case of an earlier
run of that thread is left, which is a bound of the model: cases go by the name of
the thread. A case whose post fails, which finishes at once, is one that was not selected.
Slots and the stop flag are in `ParallelFanIn` and left out here.

### StateContext

`stack[t]` is the thread's `std::vector<State*>`, and `calls[t]` the C++ stack as
far as it matters: runs (with a frame), explicit frames, batches, and cases taken from
other threads. That the two agree is the property. `hits` counts the writes to a state
since it was made, which stands for its contents. `Storages` assigns policies to
engines; engines in `Parallel` hand cases to other threads. An explicit frame may be
dropped at any time and in any order (`DropFrame`), since it need not be a local
variable; `ordered` remembers whether all were dropped innermost first. The histories
`alone`, `writes` and `kept` in a call say what a run is entitled to.

### PipelineBuilder, PipelineExports, CompiledPipeline

A template instantiation is a step of the builder, and a `static_assert` or concept
that refuses it a guard. The builder is offered every signature made of the types in
`Sources` and `Outputs`, the present type and the types the library makes of them
(variants, lists of types, fan-in aggregates), so that the guards have something to
refuse. A type is a record with its kind, its parts and whether it can be copied.

`PipelineExports` computes what `describe` and `descriptor` record and which edges each
exporter draws; a graph's node is a tuple instead of a text.

`CompiledPipeline` compiles what the builder finished. `layers` is the stack of
wrappers, by markers (`Compile`) or by hand (`Wrap`), and `frames` the functions in
progress: a call descends through the wrappers (`Forwarded` says which function each
calls), the engine runs node by node, and its outcome comes back through them
(`Made`). A node only succeeds, fails or throws: the details are in
`SequentialPipeline` and `ParallelFanIn`. While it runs it leaves a `track` in the
graph that `PipelineExports` draws. `raw` tells `run` of a chain in which no stage
returns a result, which catches nothing.

## Runs

| Run | Instance | What it shows |
|---|---|---|
| `thread_pool` | 2 workers, 2 clients, 2 tasks, ranges of up to 2, throwing ranges | all safety properties of the pool, the refinement of `TaskPool` |
| `thread_pool_live` | 2 workers, 1 client, 3 tasks, throwing ranges | the destructor terminates with everything run; unless a range threw, idle waits return, and the pool keeps the progress promises of `TaskPool` |
| `fan_in_parallel` | 3 cases, 2 workers; observers throw on workers, copies and posts fail, stop at any time | draining, wakeups, slot ownership, counts, events, the refinement of `FanIn` |
| `fan_in_live` | 2 cases, everything throws, also on the caller | the branch ends, every posted case gets its turn |
| `sequential_pipeline` | 3 stages, at most one branch of each kind with 3 cases, all recursions, both storages; everything throws | everything about chains, selected branches and sequential fan-in |
| `shared_pool` | 1 caller, 2 workers, 3 cases, nested runs; everything throws | every run returns unless nested ones occupy all workers; threads meet in the observer for one run only after it was unwound |
| `stateful_runs` | 2 threads, 2 engines, 3 calls in progress, batches of 2 | frames, resets, slots, lifetimes |
| `compiled_pipeline` | 3 nodes, 2 cases, 2 wrappers, batches of 2 | builder against engine, exporters against each other and against runs, stacks of policies, observers |
| `fan_in_stop` | violation | a queued case starts after the stop request |
| `fan_in_unwind` | violation | the caller unwinds without draining |
| `engine_rethrow` | violation | successful stages reported as throwing, with a well-behaved observer |
| `state_on_workers` | violation | a case stage on a worker has no state |

The properties, in words:

* `TasksAccountedFor`: the queue is a run of consecutive task numbers ending with the
  last accepted one (`StartsInOrder`), every task that left it is in exactly one
  worker's hands or done (`EachTaskOnce`), and `snapshot().outstanding_tasks()` never
  misses an unfinished task (`OutstandingCoversUnfinished`).
* `NoSleepingOnWork`, `NoSleepingOnIdle`, `NoSleepingOnGroup`: nobody sleeps on a
  condition that holds, unless the notification is still to come.
* `IdleAnswerCovers`: when an idle wait says the pool is idle, everything accepted
  before the wait began has returned.
* `DestroyedIsQuiet`: a destroyed pool has run everything and nobody is inside.
  `WaitsReturn`: idle waits and the destructor return.
* `DrainsBeforeReturn`: no case is queued or running when the branch is over.
* `SlotsHaveOneWriter`, `EventsTellTheRun`, `AtMostOneLateCase`: ownership of slots,
  agreement of events, slots and counts in whatever order workers report, and the only
  case a stop request can miss before the queue.
* `EventsNest`, `ExceptionsStopOrTellAll`: the callbacks of a run nest like its frames,
  and an exception that escapes has been reported for every frame it went through;
  `try_run` and branches let out only what an observer throws in a handler.
* `AnswersMatchLastEvents`: what the caller gets is what the observer was told last.
* `ErrorNamesCulprit`, `OneVerdictOnEach`: what the documentation says of errors and
  callbacks, with the exceptions an observer's own misbehaviour makes.
* `CaseEventsTellRoute`: case events against what predicates said and which stage ran;
  in a sequential fan-in branch the documented order, one case at a time.
* `ImplementsTaskPool`, `KeepsTaskPoolMoving`, `ImplementsFanIn`, `FanInKeepsContract`,
  `BranchRunsFirstMatch`, `BranchIsAStage`: refinements. `KeepsTaskPoolMoving` is the
  fairness of `TaskPool` under the mapping.
* `FramesAreOnTheStack`: whatever order frames end in, the stack holds one entry for
  each live frame; in LIFO order it is the sequence of the frames' states, so the
  innermost frame wins.
* `ResetRunsSeeTheirWrites`, `ThreadLocalIsIsolated`, `DanglesOnlyWhenReplaced`: the
  promises of the `reset_per_run`, `thread_local_owned` and `shared` policies, with the
  conditions they need: no second run or `set_state` on the same engine meanwhile, no
  `set_shared_state` in mid-run.
* `EveryRunReturns`: runs on one pool return, whatever else is on it and whatever was left
  there by runs that were unwound, unless nested runs occupy all workers.
* `OverlapsInARunNeedUnwinding`: whatever throws, threads are in the observer for one run at
  once only if an exception has taken that run out of its branch; so they are there
  for different runs as long as nothing throws on the thread of a run
  (`SinkOverlapsOnlyAcrossRuns`).
* `AcceptedPipelinesCompile`: what the builder accepts, the engine can call.
  `MarkersCommute`: the order of markers does not matter.
* `ExportsAgree`, `TrackFollowsGraph`: the exporters draw one graph, and what runs do
  can be followed in it.
* `CallersAreAnswered`, `OneObserverPerRun`: what a caller gets and who is told, through any
  stack of wrappers. The first has two parts: `OutermostPolicyDecides` for `run` and `try_run`;
  `BatchAnswersEachInput`, that a batch has a result for each of its inputs, in their order and
  whatever became of the others, or ends with the exception of the first input that throws.

### Bounds

In the modules of pools, branches and engines `MaxTasks`, `MaxBatch`, `NumCases` and
`NumStages` are the only bounds. A chain of
three stages has a first, a last and a frame in between, so an exception can start
in the last, be turned into an error in the middle, or go past several frames; three
cases do the same for the branches. Two workers are enough
for a task to be accepted by a worker while another drains, for a wakeup to go to
either of two sleepers, and for one worker to exit while another runs. Two clients
are enough for an idle waiter next to a producer, and for a destroyer next to a
client. Two or three tasks let the queue be non-empty while both workers are busy
(three) and while one is asleep (two). Three cases on two workers make one case
wait in the queue while two run, and let predicates be evaluated while cases run.

`SharedPool`: two nested runs can occupy both workers, so exhaustion is reached. One caller is
enough: a nested run beside its run is enough for cases to overtake each other, and a case
left behind by an unwound run meets the handler of that run and the next run of its worker.
Three cases let a run be unwound with one case in a worker's hands, one in the queue and one not
posted. A nested
stage runs no further engine: a chain of waits longer than two needs more workers, not
another kind of step.

`StateContext`: `MaxCalls = 3` lets a run nest in a stage of a run next to a run, a
batch or a case of the other thread; `MaxBatch = 2` gives an input before and one after
an exception; `MaxHits = 1` tells a state that was written to from one that was not.
`Storages` pairs `reset_per_run` with `thread_local_owned` and with `shared`; `owned`
has fewer steps than the first and `borrowed` is what `RunWithState` does with any
engine.

`CompiledPipeline`: three nodes have a branch, its join and a second branch or stage;
two cases can differ and can agree in their outputs. `Small` holds the pipelines for
which markers, wrappers, observers and calls are varied: one stage, of any signature. Wrappers see
of a pipeline only its outcome, which one stage gives in every form. `MaxLayers = 2`
has every policy on every other one; `Wrap` goes with unmarked pipelines because a
marker makes the same wrappers. The types are one that can be copied, one that cannot,
and a `std::variant` of the user's own, with the types the library builds of them. Of the
markers, those for copying have no effect on `compile` and are left out of the instance.

### Fairness

A thread that can run does run: weak fairness on a thread's next step, which any
preemptive scheduler gives. A task body returns after finitely many operations on
the pool; its own operations disable its return for a while, so that is strong
fairness on `BodyReturns`. Nobody is obliged to start an operation, to destroy the
pool or to request a stop, and spurious wakeups are never owed. A mutex that is
handed over unfairly for ever is excluded by treating each critical section as one
action of the thread that wants it. Nobody is obliged to throw either. In `SharedPool`, where holding the mutex of the
observer takes two steps, every thread's next step is weakly fair: a thread that
waits for the mutex gets it because a run has finitely many callbacks to make.

## What disagrees with the documentation

* **Stop requests do not reach the queue** (`fan_in_stop`). The token is read
  before a case is posted (`thread_pool_backend.hpp:265`), never by the worker. The
  documentation promises that cases which have not begun executing are skipped.
  `AtMostOneLateCase` shows what does hold: at most one case is *posted* after the
  stop request.
* **Unwinding on the caller does not drain** (`fan_in_unwind`). `group.wait()` is an
  ordinary statement, so an exception on the calling thread after the first post
  (an observer's `on_case_selected`, for instance) destroys the aggregate and the
  synchronized observer under the workers. `fan_in_live` shows the orphaned cases
  still run.
  The exception arrives in the handler of `run_stages` (`thread_pool_backend.hpp:374-381`),
  which calls `notify_stage_exception` on the sink itself, while workers may be in that sink for
  cases of the run, or come to it later through a `synchronized_observer` that is gone. So two
  threads can be in the observer for one run, although `trace.hpp:351-353` says of a sink that is
  not thread-safe that fan-in events reach it under the runtime's own synchronization, and
  `observer.hpp:66-68` that they are serialized. `OverlapsInARunNeedUnwinding` shows that
  this is the only way to it within a run.
* **The branch's error is the first to arrive** (no run). The group keeps
  the error of the case that finishes first, so which of two lost cases the caller of a
  run learns of depends on the workers; `docs/fan-in-join-design.md` asks for
  declaration order. The aggregate's slots do have it; `FanIn` leaves open which lost
  case is named.
* **Rethrown exceptions are reported again** (`engine_rethrow`). `run()` of a chain whose
  error type cannot be made from `pb::runtime::error` rethrows through the handlers of
  all earlier stages, each of which reports its own stage. `OneVerdictUnlessRethrown`
  shows that the other recursions do not.
* **Case stages on workers have no state** (`state_on_workers`). The stack of states is
  thread-local and nothing carries the caller's frame to the pool's workers, so
  `current_state` throws in a fan-in case of a thread-pool engine, whereas
  `state.hpp:35-38` promises the state to every stage invocation.

Other gaps show as the conditions of properties that do hold:

* `LifecycleUnlessError`: the copy made by `run_fan_in_case_stage` on a worker
  (`sequential.hpp:741`) lies outside the stage's `try`; the lambda's handler finishes
  the group but does not emit `on_fan_in_case_completed`, which `observer.hpp:55-57`
  pairs with every scheduled case. The branch returns the error, and its counts
  report the case as failed.
* `FanIn` leaves open which lost case an error names: the group keeps the error that
  arrives first (`thread_pool_backend.hpp:138`), where `docs/fan-in-join-design.md:142`
  asks for declaration order.
* `ErrorNamesCulprit`, `TryRunContained`: an exception of `on_stage_exception` goes to
  the previous stage's handler, which names its own stage, and out of `try_run` if
  there is none (`sequential.hpp:907`). The properties say that this callback is the
  only one with that effect.

* `SinkOverlapsOnlyAcrossRuns`: `trace.hpp:351-353` says that fan-in events reach the sink
  under the runtime's own synchronization, and `observer.hpp:67` that they are serialized.
  That is so within a run on whose thread nothing throws; two runs at once each have a mutex
  of their own.
* `EveryRunReturns`: engines run by case stages on their own pool can occupy all workers
  for good. The library does not say that they must not.
* `AcceptedPipelinesCompile` has one exception, `UniformVariantJoin`: after a branch
  whose cases all return one and the same `std::variant`, a join that declares a list of types
  is accepted by the builder if it takes the variant (`pipeline_state.hpp:127-143`), but
  the engine visits the variant (`sequential.hpp:68-79`).
* `OutermostPolicyDecides`: an exception that an observer throws in a handler leaves
  `try_run`, and so `run` of `ignoring_engine`, which "*never* throws"
  (`error_policy.hpp:371-373`). `propagating_engine` rethrows by the error's category, so
  also an error that a stage has declared itself with the category `exception`, where
  `error_policy.hpp:536-539` has a declared failure returned.
* `Compile`: `docs/production-readiness.md:28` says that each marker of the errors axis
  selects the matching wrapper; `propagating` leaves the bare engine (`ErrorLayer`), and
  the thread pool's `compile` looks at no marker.

## Proofs

Eight modules hold theorems, for every value of the constants that the assumption of the
component allows: any number of threads, stages, cases, tasks, wrappers or markers. Each has
an inductive invariant `IInv` whose parts are named and commented, a lemma per part and
action group that a step preserves it, and theorems that follow from it. The invariants were
checked by TLC on the runs' instances before they were proved.

Every property of safety that the passing runs check is a theorem.

### The pool: `ThreadPoolProofs`

| Theorem | Property |
|---|---|
| `Typing` | `TypeOK` |
| `Accounted` | `TasksAccountedFor` |
| `IdleIsTrue` | `IdleAnswerCovers` |
| `Quiet` | `DestroyedIsQuiet` |
| `IdleWakeup` | `NoSleepingOnIdle` |
| `WorkWakeup` | `NoSleepingOnWork` |
| `Implements` | `ImplementsTaskPool` |

The assumption is `PoolAssumption`: the constants are naturals, and no client is
one of the numbers that name workers. No assumption is made about the finiteness
of the set of clients.

The first four follow from `IInv`; `TasksAccountedFor` needs
a counting argument on top of it (`CountCovers`: the unfinished tasks are those queued and
those in active workers' hands). None of the properties is inductive by itself: that an idle
answer is true needs `active_tasks_ = Cardinality(Active)` (`ActiveCount`), because
the predicate of the wait looks at a counter and the property speaks of bodies;
that a task is run once needs the exact shape of the queue (`StartsInOrder`),
because the task a worker takes must be one nobody has had; that a destroyed pool is
quiet needs to know that a worker exits only with an empty queue and that after
`stop_` nothing refills it (`ExitsEmpty`), and which fields of a thread's bookkeeping
go together (`Bookkeeping`, `DestroyAlone`). `IdleWakeup` is inductive together
with `TypeOK`.

`NoSleepingOnWork` counts: the workers that will look at the queue again, the calls that
still have to notify and the tasks an `enqueue_range` that threw left without a notification
are together no fewer than the queued tasks while somebody sleeps. It is inductive with
`TypeOK`, `Bookkeeping` and the finiteness of `Signalling`, which has to be kept by hand
because the set of clients may be infinite. A `notify_one` pays for itself: it turns a
notification into a worker that looks.

`Implements`: every action of `ThreadPool` is an action of `TaskPool` or changes nothing it
can see. A worker's take is a start and needs that the task is the oldest not started
(`StartsInOrder`) and that fewer than all workers are busy; a wait that returns needs
`IdleAnswerCovers`. The promise of progress, `KeepsTaskPoolMoving`, stays with TLC.

### A fan-in branch on the pool: `ParallelFanInProofs`

| Theorem | Property |
|---|---|
| `OneWriter` | `SlotsHaveOneWriter`, whatever throws |
| `Drains` | `DrainsBeforeReturn`, if nothing throws on the calling thread |
| `GroupWakeup` | `NoSleepingOnGroup` |
| `Typed` | `TypeOK` |
| `LateAtMostOnce` | `AtMostOneLateCase` |
| `EventsTold` | `EventsTellTheRun` |
| `Implements` | `ImplementsFanIn`, if nothing throws on the calling thread |

`IInv` says that a case is in the queue or with one worker, and that the caller is
past its post (`OnePlace`), that the group's count is the number of these cases
(`Counted`), and that nothing is pending after the wait (`Drained`). `SlotsHaveOneWriter`
needs the first part in whole: two workers on one slot could only come from one case twice
in the queue, which only a caller going back could post. `Drains` and `Implements` have a
hypothesis on the constant `CallerThrows`, and the run `fan_in_unwind` shows that it cannot be
dropped. The only assumption is `FanInAssumption`.

`EventsTellTheRun` and the refinement need more: what the slot, the history and the events
say of a case follows from how far it has come, at the caller (`CallerKnows`), in the queue
(`QueueKnows`) and at a worker (`WorkersKnow`); cases that nobody holds are settled
(`Accounted`); and the branch's counts are those of the settled cases (`Tallied`). `Story`
is their conjunction. A refining step of a worker is the completion of one case; that all
are complete when the caller reports is `Accounted` with an empty group.

### Many runs on one pool: `SharedPoolProofs`

| Theorem | Property |
|---|---|
| `OverlapsNeedUnwinding` | `OverlapsInARunNeedUnwinding`, whatever throws |
| `SinkOverlaps` | `SinkOverlapsOnlyAcrossRuns`, if nothing throws on the thread of a run |

Both hold for every set of callers and of workers, finite or not, and every number of cases,
nested runs included. `SharedPoolAssumption` says that callers and workers differ, that there
are a worker and a case, and that `None` is none of the values it stands beside. The mutex
(`Exclusive`) gives the first only for the events of a branch; the run's own stages report
without it. Nobody else is in the observer for the run then, unless it was unwound, because a
thread that is there for a case has the case in hand (`Places`), the cases in the queue and in
hands are as many as the group counts (`Counts`, a bijection when the queue moves up,
`PositionsTail`), and the group counts none before and after the branch (`Drained`, the guard
of the wait). A run that was unwound keeps its count too (`Counted`); that none of its cases is left
when the thread begins another is the guard of `BeginRun`. The second theorem
follows from the first: if nothing throws no run is ever at its handler, and one that has a
case in hand is not over (`Unthrown`). Its hypothesis on `CallerThrows` cannot be dropped: in the
instance of `shared_pool` a worker is in the observer for a case when the run is unwound, and the
handler enters it beside the worker.

### The sequential engine: `SelectedBranchProofs`, `SequentialFanInProofs`, `SequentialPipelineProofs`

| Module | Theorem | Property |
|---|---|---|
| `SelectedBranchProofs` | `Implements` | `ImplementsFirstMatch` |
| `SequentialFanInProofs` | `Implements` | `ImplementsFanIn` |
| `SequentialPipelineProofs` | `Nested`, `PipelineNests` | `EventsNest`, of chains of stages and of chains with branches |
| | `Named`, `PipelineNames` | `ErrorNamesCulprit`, likewise |
| | `BranchesAreStages` | `BranchIsAStage` |
| | `Typed` | `PipelineTypeOK` |
| | `OneStory` | `AnswersMatchLastEvents` |
| | `ExceptionsAreTold` | `ExceptionsStopOrTellAll` |
| | `OneVerdicts` | `OneVerdictOnEach` |
| | `RouteIsTold` | `CaseEventsTellRoute` |
| | `BranchImplements`, `FanInImplements` | `BranchRunsFirstMatch`, `FanInKeepsContract` |

In a chain, what an event may come after depends on all events before it, so `EventsNest`
is proved through `Ladder`: what each event already told allows from the present place
on. `ErrorNamesCulprit` needs `Errors` (who is to blame while an error is on its way),
`ExceptionsStopOrTellAll` needs `Passed` (the frames an exception has left have told it),
and `OneVerdictOnEach` needs `Verdict`: no frame that is still to catch has had its verdict.
A selected branch is similar, with `Heard` and `Route` for what the events and the predicates
have said of the case at hand and of those to come. In a sequential fan-in branch `Here`, `Verdicts`,
`Accounted` and `Tallied` are the parts of `Story` above, for the one case at hand.

`SelectedBranch` and `SequentialFanIn` leave their constants to the module that instantiates
them; what their theorems suppose is `Instance`, and `SequentialPipeline` instantiates
both with constants of which `PipelineAssumption` says the same. The composition is proved in
three steps: a branch that ends is a stage that returns, fails or throws, and anything before
is a stutter (`BranchesAreStages`, so that the invariant of the engine holds of chains with
branches); a step of the chain is a step of the branch at hand, its beginning, or nothing to it
(`Together`, through instances of the two proof modules); the properties that speak
of both follow from the two invariants.

### States: `StateContextProofs`

| Theorem | Property |
|---|---|
| `Typed` | `TypeOK` |
| `FramesHold` | `FramesAreOnTheStack` |
| `Resets` | `ResetRunsSeeTheirWrites` |
| `Isolated` | `ThreadLocalIsIsolated` |
| `Dangles` | `DanglesOnlyWhenReplaced` |

`StateAssumption` keeps apart the states that engines own, that callers lend and that are
on the heap: they are different objects in memory. `pop` removes the last entry with
a value, not the entry that its frame has pushed, so the proof of `FramesAreOnTheStack` is about
a matching of entries and frames with equal values, and about how it changes when the two sides lose an element
that need not be each other's (`FitsPush`, `FitsPop`, `FitsSame`); the order of entries is that of
frames as long as the frame that ends is the last one. `ResetRunsSeeTheirWrites` needs `OneAlone`:
a write counts for the one call that is alone with a value, if there is one. `Sources` says where a call's state
comes from and gives `ThreadLocalIsIsolated` and `DanglesOnlyWhenReplaced`; `Unmade` says that a slot
is empty until it is made. The actions are taken in groups by their effect on calls and stack.

### Builder, wrappers and observers: `CompiledPipelineProofs`

| Theorem | Property |
|---|---|
| `Compiles` | `AcceptedPipelinesCompile` |
| `Commute` | `MarkersCommute` |
| `Answered` | `CallersAreAnswered`, from `OutermostDecides` and `BatchesAnswer` for its parts |
| `OneObserver` | `OneObserverPerRun` |
| `ExportersAgree` | `ExportsAgree` |
| `TracksFollow` | `TrackFollowsGraph` |

`TypesAssumption` says that no value has the type `pb::meta::type_list`, by which joins
declare what they take. `Compiles` is inductive as `Chained`: a branch at the end of the
chain gives what its cases unify to (`BranchFits`), which is what a join or the change to a
fan-in branch rests on. `Commute` follows from `OneMarker`: the first marker of an axis is the only one, so a
permutation finds it too. For `OutermostDecides` each function in progress must be the
one its layer forwards to (`Stacked`), so that `run` reaches a layer only through verbose ones
(`Asked`); what a layer that has returned gave is what the outermost error policy
among the layers up to it makes of the engine's result (`Gave`). A policy asks `try_run` of the
layer below, which is the reason that inner policies have no say. A state in which the program has
been terminated may have any number of functions in progress; `Asked` carries the answer outwards.

`BatchesAnswer` needs `Batch`, how far the loop has come: the results are those of the first
inputs, the inputs behind the one that is run have no outcome yet, and results and inputs left are as
many as the inputs together.

`ExportersAgree` is a fact about the records of any sequence of nodes in which stages have no
cases and branches some (`Shaped`, which the builder keeps): a branch without cases would be
left from nowhere, and the DOT graph would have a gap where JSON and text list an edge. What
`CaseRecords` fills in, for every length, needs an induction. The library's induction theorems
take an operator as a parameter; `Induction` states the same of a set, from a least
counterexample, and `Iterated` derives from it that the function defined by recursion
exists, which is what the prover has to know before it may use its equation. `CaseRecordsAre`
then says which records there are, and `DotEdgesAre` which edges. `TracksFollow` is
inductive as `Tracked`: a run has come along edges of the graph and goes on from where the stage
before is left; nodes are not added any more once there is an engine.

### Model-checked only

* Liveness (`WaitsReturn`, `BranchEnds`, `EveryRunReturns`) and the promise of progress in
  `TaskPool` (`KeepsTaskPoolMoving`): fairness and ENABLED are beyond the proof system's reach.
* The properties that runs violate, which are no theorems, but for `DrainsBeforeReturn` under
  its hypothesis.


## Plan

1. Done: `TaskPool`, `ThreadPool` with proofs; `FanIn`, `ParallelFanIn`.
2. Done: `SequentialFanIn`, `SequentialEngine`, `SelectedBranch` with `FirstMatch`,
   composed in `SequentialPipeline`.
3. Done: `SharedPool`.
4. Done: `StateContext`.
5. Done: `PipelineBuilder`, `PipelineExports`, `CompiledPipeline`.
6. Done: the theorems of the eight proof modules. Left to TLC: what *Model-checked only*
   lists.

## Not modelled

The memory order of the token's atomic flag (a single flag, read and written
atomically, publishes no other data); the futures of `enqueue` (`std::packaged_task`);
the text of errors and identifiers, names, keys, labels and layout in
descriptors and exports; what the trace sinks and the verbose observer print; the pure
functions over results (`result.hpp`, `fan_in_error.hpp`, `routing.hpp`) and the member-wise
copies of `clone.hpp`; the traits of `meta.hpp` and the tags without effect in
`policy.hpp`; adapters, which wrap a callable each; the command line tool, which parses
arguments and writes what the exporters return. None of these has an order of events or a
state of its own for a model to explore. What a stage, a predicate or a predicate's
value computes is the user's.
