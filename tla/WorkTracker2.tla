---------------------------- MODULE WorkTracker2 ----------------------------
(***************************************************************************)
(* clockwork::scheduler::infer3::WorkTracker2                              *)
(* (src/clockwork/controller/infer_and_load_scheduler.h), the demand and   *)
(* capacity balancer the scheduler asks what to load and what to evict.   *)
(* The header declares its state and CompareModelPriority; the bodies of  *)
(* its operations are not in the repository and follow spec.md 4.3.       *)
(*                                                                         *)
(* The module is a component: it has no Next of its own. Each operation   *)
(* is an action the scheduler conjoins to the step that calls it, all on  *)
(* the scheduler thread under the tracker's in_use flag, so each is one   *)
(* step. Demand sizes are one unit per request. The proportional split of *)
(* a model's outstanding work over its GPUs (clearWork then distributeWork)*)
(* is any split that adds up to it, which is what spec.md section 9        *)
(* requires of the rule. GPU::outstanding (the 1 ms floor plus the        *)
(* allocations), model_count and models are sums and projections of this *)
(* state and are not kept. The synthetic Request queued for a model on no *)
(* GPU is the outstanding work that no GPU is allocated.                   *)
(***************************************************************************)
EXTENDS Naturals, Sequences, SequencesExt, FiniteSetsExt

CONSTANTS GPUs, Models

VARIABLES gpus,         \* Model::gpus: the GPUs that hold the model
          loading,      \* Model::loading: the GPUs loading it
          outstanding,  \* Model::outstanding: work charged, not yet credited
          completed,    \* Model::completed: work credited
          allocations,  \* Model::allocations: its outstanding work per GPU
          touched       \* the models by seqno, least recent first

trackerVars == <<gpus, loading, outstanding, completed, allocations, touched>>

TrackerInit ==
  /\ gpus = [m \in Models |-> {}]
  /\ loading = [m \in Models |-> {}]
  /\ outstanding = [m \in Models |-> 0]
  /\ completed = [m \in Models |-> 0]
  /\ allocations = [m \in Models |-> [g \in GPUs |-> 0]]
  /\ touched = SetToSeq(Models)

\* Model::seqno, from seqno_seed: a larger value is a more recent touch
Seqno(m) == CHOOSE i \in DOMAIN touched : touched[i] = m

\* ModelPriority of model m on GPU g: allocation[g] - completed/gpu_count
ModelPriority(m, g) ==
  [priority |-> allocations[m][g]
                 - (IF gpus[m] = {} THEN 0
                    ELSE completed[m] \div Cardinality(gpus[m])),
   is_empty |-> allocations[m][g] = 0,
   seqno    |-> Seqno(m)]

\* CompareModelPriority(a, b): a comes before b in GPU::modelorder
CompareModelPriority(a, b) ==
  IF a.is_empty THEN b.is_empty /\ a.seqno > b.seqno
  ELSE b.is_empty \/ a.priority > b.priority

----------------------------------------------------------------------------
(* clearWork and distributeWork: the model's work is taken off its GPUs   *)
(* and split again over the GPUs it is on; on none, nothing is allocated.  *)

Splits(out, on) ==
  {f \in [GPUs -> 0..out] :
     /\ \A g \in GPUs \ on : f[g] = 0
     /\ (on # {} => MapThenSumSet(LAMBDA g : f[g], GPUs) = out)}

\* updatePriority: the models touched become the most recent
Touch(ms) ==
  touched' = SelectSeq(touched, LAMBDA x : x \notin ms) \o SetToSeq(ms)

\* the work of each model in ms is out[m] and it is on on[m]
Redistribute(ms, out, on) ==
  /\ outstanding' = [m \in Models |-> IF m \in ms THEN out[m] ELSE outstanding[m]]
  /\ \E split \in [ms -> UNION {Splits(out[m], on[m]) : m \in ms}] :
       /\ \A m \in ms : split[m] \in Splits(out[m], on[m])
       /\ allocations' = [m \in Models |->
                            IF m \in ms THEN split[m] ELSE allocations[m]]
  /\ Touch(ms)

----------------------------------------------------------------------------
(* Operations                                                              *)

\* addRequest: one unit of work is charged to m and distributed
AddRequest(m) ==
  /\ Redistribute({m}, [x \in {m} |-> outstanding[m] + 1], gpus)
  /\ UNCHANGED <<gpus, loading, completed>>

\* requestCompleted for n[m] demands of each model m with n[m] > 0
RequestsCompleted(n) ==
  LET ms == {m \in Models : n[m] > 0} IN
  /\ Redistribute(ms, [m \in ms |-> outstanding[m] - n[m]], gpus)
  /\ completed' = [m \in Models |-> completed[m] + n[m]]
  /\ UNCHANGED <<gpus, loading>>

\* the models loadModel(g) may return: not on g, not loading there, with
\* demand, and first in CompareModelPriority order among those
LoadCandidates(g) ==
  LET c == {m \in Models : g \notin gpus[m] \cup loading[m] /\ outstanding[m] > 0}
  IN {m \in c : \A x \in c :
        ~CompareModelPriority(ModelPriority(x, g), ModelPriority(m, g))}

\* loadModel(g) returning m: the tracker marks m loading on g
LoadModel(g, m) ==
  /\ m \in LoadCandidates(g)
  /\ loading' = [loading EXCEPT ![m] = @ \cup {g}]
  /\ UNCHANGED <<gpus, outstanding, completed, allocations, touched>>

\* loadModelComplete: the loading bit goes; on success the GPU is added
\* (addGPU) and the model's work is distributed onto it
LoadModelComplete(g, m, success) ==
  /\ loading' = [loading EXCEPT ![m] = @ \ {g}]
  /\ IF success
       THEN /\ gpus' = [gpus EXCEPT ![m] = @ \cup {g}]
            /\ Redistribute({m}, outstanding, [gpus EXCEPT ![m] = @ \cup {g}])
       ELSE UNCHANGED <<gpus, outstanding, allocations, touched>>
  /\ UNCHANGED completed

\* the models evictModel(g) may return: on g, not loading there, and last
\* in CompareModelPriority order among those
EvictCandidates(g) ==
  LET c == {m \in Models : g \in gpus[m] /\ g \notin loading[m]} IN
  {m \in c : \A x \in c :
     ~CompareModelPriority(ModelPriority(m, g), ModelPriority(x, g))}

\* evictModel(g) returning m: removeGPU takes g from m and its work is
\* distributed over the GPUs left
EvictModel(g, m) ==
  /\ m \in EvictCandidates(g)
  /\ gpus' = [gpus EXCEPT ![m] = @ \ {g}]
  /\ Redistribute({m}, outstanding, [gpus EXCEPT ![m] = @ \ {g}])
  /\ UNCHANGED <<loading, completed>>

\* the worker of GPU g is gone: n[m] demands of each model m complete with
\* its outstanding Infers (requestCompleted), its loads are reported failed
\* and removeGPU runs for every model on g
RemoveGPU(g, n) ==
  LET on == [m \in Models |-> gpus[m] \ {g}]
      ms == {m \in Models : g \in gpus[m] \/ n[m] > 0}
  IN
  /\ gpus' = on
  /\ loading' = [m \in Models |-> loading[m] \ {g}]
  /\ Redistribute(ms, [m \in ms |-> outstanding[m] - n[m]], on)
  /\ completed' = [m \in Models |-> completed[m] + n[m]]

----------------------------------------------------------------------------
TrackerTypeOK ==
  /\ gpus \in [Models -> SUBSET GPUs]
  /\ loading \in [Models -> SUBSET GPUs]
  /\ outstanding \in [Models -> Nat]
  /\ completed \in [Models -> Nat]
  /\ allocations \in [Models -> [GPUs -> Nat]]
  /\ IsInjective(touched) /\ Range(touched) = Models
=============================================================================
