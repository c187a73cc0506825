# TLA+ models of clockwork

This directory holds TLA+ specifications of the parts of clockwork that carry
concurrency, protocol or algorithmic risk, the TLC configurations that check
them, and `PROJECT.json`, which records the components, the runs, the mutants
that show each property can fail, the map from every definition to the
source lines it models, the findings and the hazards.

Run a check from this directory with `tlc -workers 2 -config <cfg> <MC module>`.

## 1. The system and its parts (inventory)

| Part | Source | State | Operations | Runs concurrently with |
|---|---|---|---|---|
| time-release priority queue | `src/src/clockwork/priority_queue.h` | `queue` (min-heap of element, release time), `alive`, `version`, spin flag `in_use` | `enqueue`, `try_dequeue`, `dequeue` (blocks by spinning), `drain`, `shutdown` | any number of producer and consumer threads |
| infer-and-load scheduler | `src/src/clockwork/controller/infer_and_load_scheduler.h` (header only; the `.cpp` is not in the repository, so the bodies follow `spec.md` 4.4-4.7, 7) | per (GPU, model) `ModelInstance{loaded, loading, version}`; per GPU `free_pages`, strategy heap, `Loading` queue; per model request FIFO; `outstanding_actions` | client request intake, `check_pending` (dispatch), `try_load`, `evict_pages`, result handlers for Infer, LoadWeights, EvictWeights | worker results arriving in any order; client requests; deadlines passing |
| WorkTracker2 | same header, lines 38-132 | per model `gpus`, `loading` bitsets, `outstanding`, `completed`, allocations, priorities; per GPU `modelorder` heap | `addRequest`, `requestCompleted`, `loadModel`, `loadModelComplete`, `evictModel` | called from the scheduler thread under a spin flag |
| async telemetry loggers | `src/src/clockwork/telemetry/telemetry.cpp` | a concurrent queue of records, `alive`, a vector of loggers (file loggers own an `ofstream`, printers buffer and print periodically) | `log` (push), the logger thread's `run`, `shutdown` | the logger thread against every thread that logs, and the thread that shuts down |
| page mapping of clockwork-convert | `src/src/clockwork-convert/tvm_abstract_model.cpp` | none: pure functions of a model | `pack`, `PageMappedStorage::calculate`, `makeModelDef` | sequential |
| model definitions | `src/include/clockwork/modeldef.h` | the `ModelDef` and `PageMappedModelDef` structs | PODS serialization (`PODS_SERIALIZABLE` field lists), `ReadFrom` | sequential |
| workload generators | `src/src/clockwork/workload/example.h` | none of their own; they configure workloads | `simple_parametric`'s split of models among clients, `bursty_experiment1`'s ramp, `bursty_experiment`'s interval rates, load loop and replays, the Azure trace replays' assignment of traces to models, `simple_slo_factor`'s SLO updates | sequential set-up |
| controller main | `src/src/controller.cpp` | `results_count`, never read | wires a client-facing server and one worker connection to stub handlers that print and answer at once | network threads |

**How the parts interact.** Client threads and worker connections hand
requests and results to the scheduler thread through MPSC queues. The
scheduler turns requests into Infer actions and loads and evicts weights on
GPUs, consulting WorkTracker2 on what to load or evict. Every action and
request is logged through the async telemetry loggers. Offline,
clockwork-convert computes the page layout (`PageMappedModelDef`) that
workers use to load a model. The time-release queue is used by worker-side
subsystems, not by the scheduler.

**The hard behaviours.**
- In the queue: spin-locked sections with reads outside the lock (`return
  alive`, the `while (alive)` test, two spin-waits on `version` and time).
- In the scheduler: worker results arrive in any order, Evict and Load of one
  instance overlap, deadlines expire while requests are queued or in flight,
  and every callback must fire exactly once.
- In the loggers: `shutdown` races the logger thread.
- In the converter: page counts and placements computed twice by two loops
  that have to agree, and sizes at and over the page size.

## 2. Modules

### TimeReleaseQueue (abstract) and TimeReleasePQ (implementation)

`TimeReleaseQueue` is what the queue promises, with each operation atomic:
- `Put` adds an element with a release time while alive.
- `Take` removes a released element of least release time.
- `Drain` and `Shutdown` do what their names say.

`TimeReleasePQ` models the class with its threads interleaved:
- Every section between `in_use.test_and_set()` and `in_use.clear()` is one
  atomic action: `EnqueueLocked`, `TryDequeue`, `DequeueLocked`, `Drain`,
  `Shutdown`.
- Every read outside the lock is a step of its own: `EnqueueReturn` reads
  `alive` for the return value; `DequeueCheck` is the `while (alive)` test;
  `Spin` leaves a spin-wait, with its condition as `SpinEmptyDone` and
  `SpinWaitDone`.
- `pc`, `seen` and `nextElig` are the program counter and the locals
  `version_seen` and `next_eligible` of each consumer.
- `util::now()` is `now`, advanced by `Tick` up to `MaxTime`.
- `Abstract == INSTANCE TimeReleaseQueue` with the identity mapping, and the
  property `RefinesTimeReleaseQueue == Abstract!Spec` checks the refinement.

### InferLoadScheduler

The scheduler core, one scheduler thread, so each handler is one step.
- `ClientInfer` queues a request and adds strategies for loaded instances.
- `Expire` lets the deadline of a queued request pass. Past the deadline of
  a request already in flight only the status its callback reports changes,
  which no property tells apart, so it is not modelled.
- `CheckPending` discards a stale strategy, or drops the late head of the
  queue (callbacks fire) and sends an Infer of the largest batch whose
  requests can meet their deadlines.
- `TryLoad` loads the model `WorkTracker2::loadModel` proposes when its
  pages are free; `EvictPages` evicts the model `evictModel` gives up when
  the proposed model's pages are not free.
- `InferResult`, `LoadSuccess`, `LoadError` and `EvictResult` are the
  actions' callbacks, for any outstanding action at any time.
- `Finish` fires the callbacks of requests that end and surrenders their
  Demands to `requestCompleted`; `ClientInfer` charges one with `addRequest`.
- `Disconnect` is a transport error on a GPU's worker connection
  (`spec.md` section 7):
  - every outstanding action of that worker completes as "worker
    disconnected": the requests of its Infers get their callbacks, and no
    result of it is handled later;
  - the GPU is zeroed: nothing loaded or loading, every page free, and
    WorkTracker2 counts none of its models (`removeGPU`, which moves their
    work to the GPUs left);
  - `connected` turns off, so nothing more is loaded or evicted there.

What is abstracted:
- Time is abstracted to a `late` flag per request.
- A controller-side action timeout (`spec.md` section 7 (d)) runs the
  same callback as an error result, which the handlers take at any point,
  so it adds no behaviour of the controller's state. The late result it
  leaves finds no id in `outstanding_actions` and is discarded, which
  changes nothing when ids are unique (`spec.md` section 9).
- Actions are records `[type, gpu, model, version, reqs]` in the set
  `actions` (`outstanding_actions`).

### WorkTracker2

The demand and capacity balancer, a component with no `Next` of its own:
`InferLoadScheduler` instantiates it (`WT == INSTANCE WorkTracker2 WITH
gpus <- onGpu, loading <- trLoading`) and conjoins each operation to the
handler that calls it.
- State: per model `gpus`, `loading`, `outstanding`, `completed`,
  `allocations` (per GPU), and `touched`, the models in `seqno` order.
- `ModelPriority` and `CompareModelPriority` translate the header (lines
  60-84): priority `allocation[g] - completed/gpu_count`, empty when the
  allocation is 0; non-empty before empty, then larger priority, and among
  empties larger `seqno`.
- `Redistribute` is `clearWork` then `distributeWork`: the model's work is
  split again over the GPUs it is on. The split is any one that adds up to
  the work (the arithmetic is in the missing `.cpp`; `spec.md` section 9
  requires exactness). On no GPU nothing is allocated; that work is what
  the synthetic `Request` of `distributeWork` stands for.
- `AddRequest`, `RequestsCompleted`, `LoadModel` (the first candidate in
  comparator order, with demand, not on the GPU and not loading there),
  `LoadModelComplete`, `EvictModel` (the last resident in comparator
  order, not loading) and `RemoveGPU`.
- A Demand is one unit per request. `GPU::outstanding`, `model_count` and
  `models` are sums and projections of this state and are not kept.

### AsyncTelemetryLogger

Models `AsyncRequestTelemetryLogger` and `AsyncControllerActionTelemetryLogger`,
which have the same code.
- `Log` is `queue.push`.
- The logger thread's loop is `LoopTest`, `TryPop`, one `LogToLogger` per
  logger of the vector, and `Sleep`.
- `shutdown` is `ShutdownBegin` (clear `alive`) followed by one
  `ShutdownLogger` per logger; a file logger closes its stream.
- A record is a model value; `written[l]` is what reached logger `l`.
- A `RequestTelemetryPrinter` keeps its `buffered` queue:
  - `PrinterLog` is its `log()`: buffer the record, then, if
    `print_interval` has passed (the clock's choice), print and empty the
    buffer.
  - `PrintLine` is `print()`: the loop (`PrintInit`, `PrintStep`) and the
    numbers the line shows (count, violations, min, max, mean). The
    throughput divides by the clock's interval and is left out.
  - A record carries only what `print()` reads: whether it succeeded
    (`Succeeded`) and its latency (`Latency`).
  - `lines` and `batches` record each line printed and the records it was
    printed from.

### AsyncLog (abstract)

What an async logger promises, with no queue and no thread:
- `Append1` adds a record to `log`.
- `Deliver(l)` hands logger `l` the next record of `log` while it is open.
- `Stop` is `shutdown()`; only after it does `Close(l)` close a file logger.
- While alive, every record eventually reaches every logger.

`AsyncTelemetryLogger` maps onto it with `Abs == INSTANCE AsyncLog WITH log
<- pushed, delivered <- written` (`open`, `alive` and the constants by name).
The queue, the program counter and the printers' buffers are hidden.
`RefinesAsyncLog == Abs!Spec` is checked, fairness included.

### PageMappedStorage

The conversion's page algorithms as operators over the input, which `Init`
chooses from every small input:
- `Pack` is `pack()`: sort descending, first fit into pages re-sorted
  descending after each placement.
- `WorkspacePages` and `MaxWorkspacePages` are `calculate()`'s count.
- `AllocDefs` is `makeModelDef()`'s placement of workspace allocations.
- `BestFitLoads` is an independent reference definition of best-fit
  decreasing.
- A storage location is a record of its index and size, so pages keep
  which locations they hold. `WeightsStorage` and `WorkspaceStorage` are
  `calculate()`'s two lists: the locations of `weights` and the rest.
- `StoragePointers` is `makeModelDef()`'s `storage_location_pointers` loop
  over the weights pages, then the workspace pages (`PageStep`,
  `PointerStep`), with the multiple-pages `CHECK` as `dup`.
- `WeightsPageDefs` is the `weights_pages` loop, `WeightsMemory` the
  `weights_memory` sum, and `WeightCopies` the `memcpy` of each weight.
- `SoFunctions` is the `so_functions` loop: an `unordered_map` from kernel
  name to number (`map`) and `output.so_functions` (`list`), a name
  numbered with the list's size before it is pushed. `OpSoFunctions` is
  each `PageMappedOpDef`'s `so_function`. `funcs` holds the operations'
  `func_name`s; `Init` pairs every sequence of them with the empty input
  of the other algorithms.

### ModelDefSerialization

The binary form of `modeldef.h`'s structs.
- Each struct's `PODS_SERIALIZABLE` list is a schema (`ModelDefT`,
  `PageMappedModelDefT`, ... built from `Num`, `Str`, `Vec` and `Struct`).
- `Encode` writes a value as tokens: an integer is one token, a vector its
  length then its elements, a string one token, a struct its version then
  its listed fields.
- `Decode` reads the fields back in order into an existing object, so a
  member the list leaves out keeps its prior value. `ReadFrom` loads into
  `mdPrior`/`pmdPrior`, whose integer members are uninitialized (a value
  from `Garbage`).
- `Init` chooses the definition written from small shapes: with and without
  so-functions, ops, tensors, workspace allocations and weights pages.

### WorkloadSetup

The generators of `example.h` that compute something from their parameters;
the parameters are variables chosen in `Init`, and the Azure operators
take theirs as arguments.
- `SimpleParametric` is `simple_parametric`'s loop: a share of
  `ceil(n/c)` models per client, stopping once `it2` reaches the end.
- `BurstyExperiment1` is `bursty_experiment1`'s two loops: the model
  started and the iteration whose start time it gets.
- `IntervalRates` is `bursty_experiment`'s `interval_rates` column of one
  interval. `RoundPow2Half` computes `round(pow(2, i/2.0))` in integers.
- `BurstyLoads` is `bursty_experiment`'s load loop: calls of
  `min(num_models - models.size(), 100)` models until `num_models` are
  loaded. `BurstyReplayRows` is its replay loop, which gives model `i`
  row `i` of `interval_rates`.
- `AzureReplay(bound, m)` is the replay loop all five Azure generators
  share: trace `i` on model `i % m`, for `i < bound`. `Azure`,
  `AzureSingle`, `AzureSmall`, `AzureFast` and `AzureHalf` are the five
  generators, each with the code's bound and number of models as
  parameters or literals (`traces` is `trace_data.size()`, `zoo` the
  number of modelzoo entries; 200, 3 and 50 copies). Client ids, seeds,
  scale factors and interval arguments are passed through and not kept.
  `BurstyLoads`, `BurstyReplayRows` and the Azure operators are faithful
  definitions that no run checks: what a property could say of them (one
  replay per loaded model, every trace replayed once, round-robin) is the
  loops' own shape and no plausible slip in those lines breaks it.
- `AdjustSLO` applies `simple_slo_factor`'s update of model 2, `SloUpdate`,
  `return current = 10 ? 1 : 10;`, which parses as
  `current = (10 ? 1 : 10)`: the condition is the constant 10, so it
  assigns and returns 1.

## 3. Runs

| Run | Checks | Shows |
|---|---|---|
| `tqueue_pass` | `TypeOK`, `NoMissedWakeup`, `RefinesTimeReleaseQueue`, `BlockedDequeueReturns`, `ShutdownReleasesDequeue` | the spin-locked queue implements the atomic queue, never misses a wake-up, and dequeue returns when it should (161K states, about 1.5 min) |
| `tqueue_enqueue_result` (violation) | `EnqueueReportsAcceptance` | `enqueue` can return false for an element it queued (shutdown between unlock and `return alive`) |
| `sched_pass` | `TypeOK`, `RequestAccounting`, `DemandsSurrendered` | each request is in exactly one place and its callback fires exactly once; WorkTracker2's outstanding and completed work are exactly the Demands of live and of answered requests; with WorkTracker2 choosing loads and evictions, results in any order and the worker disconnecting at any point (815K states, about 2.3 min) |
| `sched_instance_exclusive` (violation) | `InstanceExclusive` | spec-level gap: reloading a model whose eviction is in flight makes the instance loaded and loading at once |
| `logger_pass` | `TypeOK`, `PrintedLinesAccountForRecords`, `RefinesAsyncLog` | the logger implements `AsyncLog` (in order, once, nothing after close, eventually while alive); the printer's lines show the statistics of exactly the records it was given (17K states, about 10 s) |
| `logger_shutdown_loses` (violation) | `ShutdownAwaitsCompletion` | `shutdown(awaitCompletion)` loses records still queued |
| `logger_write_after_close` (violation) | `NoWriteAfterClose` | the logger thread can write to the ofstream `shutdown` has closed |
| `pack_pass` | `PackPartitions`, `PackIsBestFit`, `PagesNotMergeable`, `AllocsWithinCountedPages`, `WeightsLandOnTheirPages`, `SoFunctionsNumbered` | `pack` is best-fit decreasing, a partition, and leaves no mergeable pages; `calculate` and `makeModelDef` agree on workspace pages; every weight is copied inside the blob, apart from the others, where its page's `PageDef` says; `SoFunctionsNumbered`: every op's `so_function` names its own kernel in a list without duplicates (401K states, about 2 min) |
| `workspace_oversize` (violation) | `PlacedWithinPage` | an allocation or a storage location larger than a page overruns it |
| `serialize_pass` | `PageMappedRoundTrip` | a `PageMappedModelDef` loads back from its encoding as exactly the definition written (129K states, under 1 min) |
| `serialize_modeldef` (violation) | `ModelDefRoundTrip` | `ModelDef` loses `workspace_memory` in a round trip |
| `workload_pass` | `ModelsPartitionedAmongClients`, `NoEmptyClient`, `EveryCopyStartedOnce`, `IntervalRatesBalanced` | the workload generators assign, start and spread models as intended (5.4K states, about 10 s) |

Each property of a passing run has a mutant in `PROJECT.json`: a plausible
bug in the definition it depends on that makes TLC report it violated.

## 4. Bounds and why they are enough

**Queue.** One producer, two consumers, three elements, `MaxTime = 2`.
- Two consumers let one spin while another pops.
- Three elements with three release times give ties, an element released
  later than the top, and an earlier element arriving during a spin.
- One producer suffices because `enqueue`'s locked section is atomic; the
  race it has is with `shutdown`, which the model has.

**Scheduler, passing run.** One GPU of one page, two models of one page
each, three requests (two for one model), batch sizes {1, 2}, at most two
loads per instance.
- This covers batching, late heads, stale strategies after reload, evicting
  one model to load the other, and all result orders.
- Requests `r1` and `r2` are symmetric (same model), which is sound because
  nothing else tells them apart.
- Page conservation is not checked here: with one page it holds in every
  order, and with two pages it fails in the reload-during-evict order (the
  free pages and the loaded instances end a page short of the GPU's
  memory), which is the order
  `sched_instance_exclusive` shows breaking `InstanceExclusive` first.
- How WorkTracker2 splits a model's work among GPUs is in the `.cpp`,
  which is not in the repository; the model takes any exact split, so no
  property of the split is checked.

**Scheduler, race runs.** Two pages, with `m2` taking two. Loading `m2`
needs `m1` evicted while a page stays free, which is what lets `m1` be
reloaded while its eviction is in flight.

**Logger.** A file logger and a printer (the `log_and_summarize`
configuration), three records: enough for a record to be mid-delivery while
others are queued when `shutdown` runs.

**Pack.** All inputs of at most five locations of sizes 1..7 on pages of 7.
The smallest input on which first fit and best fit differ is (1, 3, 3, 5)
on pages of 7.

**Weights layout.** In the same run, all models of at most four locations
of sizes 1..7, with every subset of them as weights. This gives several
weights pages, pages that are not full (where page-size spacing and
contiguous offsets differ), and workspace pages after the weights. TVM
gives each parameter a storage id of its own, and so does the model.

**Workspace.** In the same run, all inputs of at most two operations of at
most three allocations of sizes 1..8 on pages of 7: exact fits, page
overflow, different page counts per operation, and an allocation over the
page size. (`pack` and `calculate` are independent, so `Init` pairs each
input of one with the empty input of the other.) The `workspace_oversize`
run uses pages of 3, and allocations and locations up to 4.

**Serialization.** Top-level integer members take two values, so a value
read into the wrong member shows; nested members one value of their own.
An uninitialized member holds 0, which no definition writes: the case where
a left-out member differs from the one written. Every vector is empty or
has one element, which exercises every length prefix and nesting level.

**Workloads.** Up to five models and three clients or iterations give
shares that do not divide evenly and clients that would be left without
models. Loads in batches of 2 make an odd `num_copies` load one model more.
Six intervals reach `round(2^(5/2)) = 6`, more than the five models, so the
cap at `num_models` matters. `bursty_experiment`'s loads use the same
batches of 2, so an odd `num_models` needs a short last call.

**Kernel numbering.** In `pack_pass`, every sequence of up to four
operations over three kernel names: repeats adjacent and apart, and names
first used after a repeat.

## 5. Fairness

**Queue.**
- `Tick` is weakly fair: time passes.
- A consumer inside `dequeue` keeps running: it spins, it is not blocked.
- A producer inside `enqueue` returns.
- Calling the queue at all, and `shutdown`, are up to the callers and carry
  no fairness.

**Logger.**
- The logger thread is weakly fair: `usleep(1000)` returns and the queue
  operations never block.
- A `shutdown` that has begun finishes.
- `AsyncLog` promises delivery only while alive, `WF(alive /\ Deliver(l))`,
  and that a file logger is closed once shutdown has begun,
  `WF(Close(l))`. The logger thread's fairness gives both.

**Scheduler.** No liveness is checked yet, so no fairness is assumed. A
request queued when the only GPU disconnects waits for ever in the model;
nothing in `spec.md` says what serves it.

## 6. Findings

- **`priority_queue.h:51`.** `enqueue` returns `alive` read after unlocking,
  so a concurrent `shutdown` makes it report rejection of an element that is
  in the queue.
- **`telemetry.cpp:60-65`.** `shutdown(awaitCompletion)` ignores its
  argument. Queued records are lost, and `f.close()` races the logger
  thread's write.
- **`tvm_abstract_model.cpp:370`, `:173`.** A workspace allocation larger
  than the page size is accepted and overruns its page. So is a storage
  location larger than the page size: `pack` gives it a page of its own,
  and its tensors run into the next page.
- **`modeldef.h:59`.** `ModelDef`'s field list leaves out
  `workspace_memory`, against `spec.md` section 8's pure round trip.
- **`example.h:116`.** `simple_slo_factor`'s back-and-forth update always
  returns 1 (assignment instead of comparison). `spec.md` section 9 already
  flags it, and `SloUpdate` shows it, so no run is spent on it.
- **Scheduler (spec-level).** Following `spec.md` literally, an eviction in
  flight does not block a reload of the same instance (P5; in that order
  weight pages also stop adding up, P1, which no run checks on its own). Nothing in `spec.md` orders an
  eviction after the Infers already sent to that instance either; this is
  listed as a hazard, and no run checks it yet.
- **WorkTracker2 eviction order (spec-level).** `CompareModelPriority`
  (header lines 68-84) puts every non-empty entry before every empty one.
  Whichever end of `modelorder` eviction takes, an idle model is given up
  before any model with demand, or the highest-priority one is. `spec.md`
  4.3 says `evictModel` returns the lowest-priority non-empty resident,
  and an empty one only if all are empty. The model follows the comparator.
  Which end the `.cpp` takes is not in the repository, so this is a hazard
  and no run asserts it.

## 7. Not modelled, and the plan

Done so far beyond the core:
- ModelDefSerialization and WorkloadSetup.
- The `AsyncLog` refinement and the request printer.
- The weights layout and the worker disconnect.
- WorkTracker2, composed into the scheduler.
- The Azure trace replays and `bursty_experiment`'s load loop.
- `makeModelDef`'s kernel numbering.

Still to do, in this order:
1. **Worker side of the scheduler**: what the worker holds in memory. A
   LoadWeights the controller timed out can still run on the worker. The
   controller has then given its pages back while the weights are resident.
   Checking that needs the worker's memory as state of its own.
2. **Scheduler liveness** (every request is answered). As modelled it
   does not hold, and no fairness the code justifies makes it hold:
   - a load may fail every time;
   - a request queued for a model that is on no GPU waits when its only
     GPU's worker disconnects, until a load elsewhere succeeds.
   A useful statement needs the controller's timeouts (time in the model),
   which the header does not define.
3. **Action printers**: `make_groups`, `Stat` and
   `SimpleActionPrinter::print`. The logger model runs one logger vector,
   the request side's `log_and_summarize` (file logger, then printer).
   The action side's is a different vector (printer, then file logger),
   with records that carry an action type, status, worker and GPU. It
   needs a configuration and records of its own. The two async loggers
   run side by side in the controller, but share nothing, so composing
   them would check nothing new.
4. **WorkTracker2 arithmetic**: the proportional split, the `uint64_t`
   allocations and `checkRequests`, once their code is available.

What the printer model leaves unchecked: the records buffered after the
last print are printed only when another record arrives, and never at
`shutdown`. `spec.md` promises nothing about them, so this is a hazard
without a run.

Out of reach or without state:
- `controller.cpp`: `main()` wires a `ControllerServer` and a
  `WorkerClient` to two stub handlers, which print and answer every call
  at once with an empty response. Their one counter, `results_count`, is
  never read. `get_clockwork_dir` and `get_example_model` are called only
  from commented-out code. Nothing in it decides anything a property
  could state.
- The network threads are modelled only as the arbitrary arrival of
  requests and results.
- Formatting and file layout of the telemetry are left out.
- The other generators of `example.h` (`fill_memory`, `simple`,
  `poisson_open_loop`, `example`, `spam`, `spam2`, `single_spam`,
  `bursty_experiment_simple`) only construct workloads with fixed
  arguments. The `Workload` classes and the PODS library are not in the
  repository; PODS's save and load are modelled by what the field lists
  make them do.
