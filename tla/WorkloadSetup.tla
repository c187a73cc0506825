---------------------------- MODULE WorkloadSetup ----------------------------
(***************************************************************************)
(* The workload generators of src/clockwork/workload/example.h that        *)
(* compute something from their parameters:                                *)
(*   simple_parametric   splits num_copies models among num_clients        *)
(*                       ClosedLoop clients, ceil(num_copies/num_clients)  *)
(*                       each;                                             *)
(*   bursty_experiment1  starts the loaded models in num_iterations waves, *)
(*                       increase_per_iteration more in each;              *)
(*   bursty_experiment   gives interval i's requests round-robin to the    *)
(*                       first round(2^(i/2)) models;                      *)
(*   bursty_experiment   also loads its num_models models 100 at a time   *)
(*                       and replays row i of interval_rates on model i;   *)
(*   azure, azure_single, azure_small, azure_fast, azure_half              *)
(*                       replay trace i of the Azure trace on model        *)
(*                       i % (models loaded);                              *)
(*   simple_slo_factor   adjusts model 2's SLO factor every period.        *)
(* A model is its index in `models`; a client its ClosedLoop's subset. A   *)
(* trace is its index in trace_data, whose contents and the replay's rate  *)
(* arithmetic (PoissonTraceReplay, in workload.h) are not kept. The        *)
(* parameters are state chosen in Init; only the SLO factor changes.       *)
(***************************************************************************)
EXTENDS Naturals, Sequences, SequencesExt, FiniteSetsExt

CONSTANTS MaxCopies,     \* bound: num_copies / num_models
          MaxClients,    \* bound: num_clients / num_iterations
          LoadBatch,     \* models per load_remote_models call (100)
          Intervals,     \* bursty_experiment's `intervals`
          MaxRate        \* bound: total_request_rate

VARIABLES copies, clients,    \* simple_parametric(num_copies, num_clients)
          bcopies, iters,     \* bursty_experiment1(num_copies, num_iterations)
          bmodels, rate,      \* bursty_experiment(num_models, total_request_rate)
          slo                 \* model 2's slo_factor in simple_slo_factor

vars == <<copies, clients, bcopies, iters, bmodels, rate, slo>>

Range0(a, b) == [k \in 1..(b - a) |-> a + k - 1]   \* a, a+1, ..., b-1

----------------------------------------------------------------------------
(* simple_parametric                                                       *)

ModelsPerClientFloor(n, c) == n \div c

\* ceil(num_copies / (float) num_clients), exact for these sizes
ModelsPerClient(n, c) == (n + c - 1) \div c

ClientSubsetsNoBreak(n, c, per, i) ==
  [k \in 1..(c - i) |->
     Range0((i + k - 1) * per, Min({(i + k) * per, n}))]

\* the subsets of the clients i, i+1, ... that the loop adds
RECURSIVE ClientSubsets(_, _, _, _)
ClientSubsets(n, c, per, i) ==
  IF i >= c THEN <<>>
  ELSE LET it1 == i * per
           it2 == (i + 1) * per
       IN <<Range0(it1, Min({it2, n}))>>
            \o (IF it2 >= n THEN <<>> ELSE ClientSubsets(n, c, per, i + 1))

SimpleParametric(n, c) == ClientSubsets(n, c, ModelsPerClient(n, c), 0)

----------------------------------------------------------------------------
(* bursty_experiment1                                                      *)

\* for (i = 0; i < num_copies; i += 100) load 100 models
LoadedModels(n) == LoadBatch * ((n + LoadBatch - 1) \div LoadBatch)

\* num_copies >= 1, so num_copies - 1 does not wrap
IncreasePerIterationFloor(n, it) == (n - 1) \div it

IncreasePerIteration(n, it) == (n - 1) \div it + 1

\* the starts the loops add from iteration i and model_id id on, each a
\* record of the model started and the iteration whose start time it gets
RECURSIVE Waves(_, _, _, _, _)
Waves(inc, it, size, i, id) ==
  IF i >= it THEN <<>>
  ELSE LET stop == Max({id, Min({inc * (i + 1), size})}) IN
       [k \in 1..(stop - id) |-> [model |-> id + k - 1, iteration |-> i]]
         \o Waves(inc, it, size, i + 1, stop)

BurstyExperiment1(n, it) ==
  Waves(IncreasePerIteration(n, it), it, LoadedModels(n), 0, 0)

----------------------------------------------------------------------------
(* bursty_experiment: models_this_interval = min(round(2^(i/2)), n); the   *)
(* j-th of the interval's 60 * total_request_rate requests goes to model   *)
(* j % models_this_interval.                                               *)

\* round(sqrt(2^i)): the k with (2k-1)^2 <= 4 * 2^i < (2k+1)^2
RoundPow2Half(i) ==
  CHOOSE k \in 1..2^i : (2*k - 1)^2 <= 4 * 2^i /\ 4 * 2^i < (2*k + 1)^2

ModelsThisIntervalUncapped(i, n) == RoundPow2Half(i)

ModelsThisInterval(i, n) == Min({RoundPow2Half(i), n})

\* interval_rates[.][i]: for j in 0..60*r-1, interval_rates[j % m][i]++
IntervalRates(i, n, r) ==
  LET m == ModelsThisInterval(i, n) IN
  [x \in 0..(n - 1) |-> Cardinality({j \in 0..(60 * r - 1) : j % m = x})]

\* while (models.size() < num_models) load_remote_models(modelpath,
\* min(num_models - models.size(), 100)): the sizes of the calls made
RECURSIVE BurstyLoadsFrom(_, _)
BurstyLoadsFrom(n, size) ==
  IF size >= n THEN <<>>
  ELSE LET toLoad == Min({n - size, LoadBatch}) IN
       <<toLoad>> \o BurstyLoadsFrom(n, size + toLoad)

BurstyLoads(n) == BurstyLoadsFrom(n, 0)

\* replay i is given interval_rates[i], for every i < models.size()
BurstyReplayRows(n) == 0..(FoldSeq(+, 0, BurstyLoads(n)) - 1)

----------------------------------------------------------------------------
(* The Azure trace replays: trace i is replayed by a PoissonTraceReplay on *)
(* models[i % m]. Client ids, seeds, scale, interval length and start      *)
(* interval are arguments passed through and are not kept. `traces` is     *)
(* trace_data.size() and `zoo` the number of get_clockwork_modelzoo()      *)
(* entries; the copy counts are the code's literals.                       *)

\* for (i = 0; i < bound; i++) replay trace_data[i] on models[i % m]
AzureReplay(bound, m) ==
  [k \in 1..bound |-> [trace |-> k - 1, model |-> (k - 1) % m]]

\* azure: num_copies = 200 copies of resnet50_v2, every trace replayed
Azure(traces) == AzureReplay(traces, 200)

\* azure_single: num_copies = 1 copy, the loop runs over num_copies
AzureSingle == AzureReplay(1, 1)

\* azure_small and azure_fast: 3 copies of every modelzoo model
AzureSmall(traces, zoo) == AzureReplay(traces, 3 * zoo)

AzureFast(traces, zoo) == AzureReplay(traces, 3 * zoo)

\* azure_half: 50 copies of every modelzoo model
AzureHalf(traces, zoo) == AzureReplay(traces, 50 * zoo)

----------------------------------------------------------------------------
(* simple_slo_factor, model 2: [](float current) { return current = 10 ?   *)
(* 1 : 10; } parses as current = (10 ? 1 : 10): the condition is the      *)
(* constant 10, always true, so 1 is assigned and returned and the factor  *)
(* is 1 after every period, where the comment says "back and forth".       *)

SloUpdate(current) == IF 10 # 0 THEN 1 ELSE 10

Init ==
  /\ copies \in 0..MaxCopies /\ clients \in 1..MaxClients
  /\ bcopies \in 1..MaxCopies /\ iters \in 1..MaxClients
  /\ bmodels \in 1..MaxCopies /\ rate \in 1..MaxRate
  /\ slo = 10

\* AdjustSLO: every 10 s, slo_factor = update(slo_factor)
AdjustSLO ==
  /\ slo' = SloUpdate(slo)
  /\ UNCHANGED <<copies, clients, bcopies, iters, bmodels, rate>>

Next == AdjustSLO

Spec == Init /\ [][Next]_vars

----------------------------------------------------------------------------
\* simple_parametric gives every model to exactly one client, in order, and
\* never more clients than asked for: the `break` once it2 reaches the end
\* and the rounded-up share must together cover all models.
ModelsPartitionedAmongClients ==
  LET subsets == SimpleParametric(copies, clients) IN
  /\ FoldLeft(\o, <<>>, subsets) = Range0(0, copies)
  /\ Len(subsets) <= clients

\* With at least one model, no ClosedLoop client of simple_parametric is
\* given an empty subset of models to issue requests for.
NoEmptyClient ==
  copies > 0 =>
    \A i \in DOMAIN SimpleParametric(copies, clients) :
      SimpleParametric(copies, clients)[i] # <<>>

\* bursty_experiment1 starts every one of its num_copies models exactly
\* once, by the last iteration, in model order and in iteration order.
EveryCopyStartedOnce ==
  LET starts == BurstyExperiment1(bcopies, iters) IN
  /\ \A m \in 0..(bcopies - 1) : \E k \in DOMAIN starts : starts[k].model = m
  /\ \A k \in DOMAIN starts :
       /\ starts[k].model = k - 1
       /\ starts[k].iteration < iters
       /\ k > 1 => starts[k - 1].iteration <= starts[k].iteration

\* bursty_experiment hands each interval's 60 * total_request_rate requests
\* to its first models_this_interval models, as evenly as possible, and
\* none to the others.
IntervalRatesBalanced ==
  \A i \in 0..(Intervals - 1) :
    LET m == ModelsThisInterval(i, bmodels)
        rates == IntervalRates(i, bmodels, rate)
    IN /\ FoldFunctionOnSet(+, 0, rates, DOMAIN rates) = 60 * rate
       /\ \A x \in 0..(bmodels - 1) : x >= m <=> rates[x] = 0
       /\ \A x, y \in 0..(m - 1) : rates[x] <= rates[y] + 1
=============================================================================
