------------------------- MODULE InferLoadScheduler -------------------------
(***************************************************************************)
(* The infer-and-load scheduler (clockwork::scheduler::infer3::Scheduler,  *)
(* src/clockwork/controller/infer_and_load_scheduler.h): the run loop that *)
(* takes client requests into per-model queues, dispatches batched Infer   *)
(* actions from InferStrategies, loads and evicts weights on GPUs, and     *)
(* applies worker results.                                                 *)
(*                                                                         *)
(* The header declares the state; the bodies of the operations are not in *)
(* the repository, so the actions follow spec.md sections 4.4-4.7 and 7.   *)
(* All of it runs on the one scheduler thread, so each handler is one      *)
(* step; worker results arrive in any order. Time is abstracted to a flag  *)
(* per request saying its deadline can no longer be met. WorkTracker2 is  *)
(* the component of module WorkTracker2, instantiated on the scheduler's  *)
(* variables: every handler that calls it conjoins its operation.          *)
(***************************************************************************)
EXTENDS Naturals, FiniteSets, Sequences, SequencesExt, FiniteSetsExt

CONSTANTS GPUs,        \* Scheduler::gpus
          Models,      \* Scheduler::models
          Requests,    \* the requests clients submit, each at most once
          ReqModel,    \* the model each request is for
          Pages,       \* Model::num_weights_pages
          TotalPages,  \* pages of weights memory on each GPU
          BatchSizes,  \* Model::supported_batch_sizes
          MaxLoads     \* bound: loads of one instance the model explores

ASSUME /\ ReqModel \in [Requests -> Models]
       /\ Pages \in [Models -> 1..TotalPages]
       /\ 1 \in BatchSizes /\ BatchSizes \subseteq 1..Cardinality(Requests)

VARIABLES loaded,      \* ModelInstance::loaded, per GPU and model
          loading,     \* ModelInstance::loading
          version,     \* ModelInstance::version
          freePages,   \* GPU::free_pages
          onGpu,       \* WorkTracker2 Model::gpus: GPUs the tracker counts
          trLoading,   \* WorkTracker2 Model::loading
          mqueue,      \* Model::queue, the FIFO of queued requests
          strategies,  \* GPU::queue of InferStrategy
          actions,     \* outstanding_actions: sent, result not yet handled
          reqState,    \* where each request is in its lifecycle
          late,        \* the request's deadline can no longer be met
          callbacks,   \* how many times the request's callback has fired
          connected,   \* the GPU's worker connection is up
          outstanding, completed, allocations, touched  \* WorkTracker2

WT == INSTANCE WorkTracker2 WITH gpus <- onGpu, loading <- trLoading

trackerVars == <<onGpu, trLoading, outstanding, completed, allocations,
                 touched>>

vars == <<loaded, loading, version, freePages, mqueue, strategies, actions,
          reqState, late, callbacks, connected, trackerVars>>

Instances == GPUs \X Models

Strategy == [gpu : GPUs, model : Models, version : Nat, batch : BatchSizes,
             req : Requests]

InferA(g, m, v, rs) == [type |-> "infer", gpu |-> g, model |-> m,
                        version |-> v, reqs |-> rs]
LoadA(g, m)  == [type |-> "load", gpu |-> g, model |-> m,
                 version |-> 0, reqs |-> {}]
EvictA(g, m) == [type |-> "evict", gpu |-> g, model |-> m,
                 version |-> 0, reqs |-> {}]

Init ==
  /\ loaded = [i \in Instances |-> FALSE]
  /\ loading = [i \in Instances |-> FALSE]
  /\ version = [i \in Instances |-> 0]
  /\ freePages = [g \in GPUs |-> TotalPages]
  /\ mqueue = [m \in Models |-> <<>>]
  /\ strategies = {}
  /\ actions = {}
  /\ reqState = [r \in Requests |-> "new"]
  /\ late = [r \in Requests |-> FALSE]
  /\ callbacks = [r \in Requests |-> 0]
  /\ connected = [g \in GPUs |-> TRUE]
  /\ WT!TrackerInit

----------------------------------------------------------------------------
(* Model: batching and dequeue                                             *)

\* Model::batch_lookup: the largest supported batch size <= n
BatchLookup(n) == Max({b \in BatchSizes : b <= n})

\* InferStrategies of instance (g, m) for request r, one per batch size
StrategiesFor(g, m, v, r) ==
  {[gpu |-> g, model |-> m, version |-> v, batch |-> b, req |-> r] :
     b \in BatchSizes}

\* the length of the prefix of q whose deadlines can no longer be met
LatePrefix(q) ==
  IF \A i \in 1..Len(q) : late[q[i]] THEN Len(q)
  ELSE Min({i \in 1..Len(q) : ~late[q[i]]}) - 1

\* Model::try_dequeue, step 3: the largest batch <= the strategy's whose
\* requests can all still meet their deadlines (the head always can)
Batch(q, sb) ==
  Max({b \in BatchSizes :
         b <= Min({Len(q), sb}) /\ \A i \in 1..b : ~late[q[i]]})

\* callbacks fire for the requests in rs, which reach their end
Callback(rs) ==
  /\ reqState' = [r \in Requests |-> IF r \in rs THEN "done" ELSE reqState[r]]
  /\ callbacks' = [r \in Requests |->
                     IF r \in rs THEN callbacks[r] + 1 ELSE callbacks[r]]

\* the Demands of the requests in rs, counted per model
Credits(rs) == [m \in Models |-> Cardinality({r \in rs : ReqModel[r] = m})]

FinishWithoutCredit(rs) ==
  Callback(rs) /\ UNCHANGED trackerVars

\* RequestImpl::complete and timeout: the callback fires and the request's
\* Demand is surrendered (WorkTracker2::requestCompleted)
Finish(rs) == Callback(rs) /\ WT!RequestsCompleted(Credits(rs))

----------------------------------------------------------------------------
(* Run loop step 1: a client request (clientInfer, then handle_request).   *)
(* Model::enqueue(request): queue it, and add InferStrategies for every    *)
(* instance of the model that is loaded.                                   *)

ClientInfer(r) ==
  LET m == ReqModel[r] IN
  /\ reqState[r] = "new"
  /\ reqState' = [reqState EXCEPT ![r] = "queued"]
  /\ mqueue' = [mqueue EXCEPT ![m] = Append(@, r)]
  /\ strategies' = strategies \cup
       UNION {StrategiesFor(g, m, version[<<g, m>>], r) :
                g \in {h \in GPUs : loaded[<<h, m>>]}}
  /\ WT!AddRequest(m)
  /\ UNCHANGED <<loaded, loading, version, freePages, actions, late,
                 callbacks, connected>>

\* The deadline of a queued request passes. (Past the deadline of a request
\* in flight, only the status its callback reports changes, which the
\* model does not tell apart.)
Expire(r) ==
  /\ reqState[r] = "queued" /\ ~late[r]
  /\ late' = [late EXCEPT ![r] = TRUE]
  /\ UNCHANGED <<loaded, loading, version, freePages, mqueue, strategies,
                 actions, reqState, callbacks, connected, trackerVars>>

----------------------------------------------------------------------------
(* Run loop step 3: GPU::check_pending handles one strategy. A stale one   *)
(* (version changed, or not loaded) is discarded. Otherwise                *)
(* Model::try_dequeue drops the late requests at the head (their timeout() *)
(* callback fires), and when requests remain sends an Infer of a batch.   *)

CheckPending(g, s) ==
  LET m == s.model
      i == <<g, m>>
      q == mqueue[m]
      k == LatePrefix(q)
      dropped == Range(SubSeq(q, 1, k))
      rest == SubSeq(q, k + 1, Len(q))
      b == Batch(rest, s.batch)
  IN
  /\ s \in strategies /\ s.gpu = g
  /\ strategies' = strategies \ {s}
  /\ IF s.version # version[i] \/ ~loaded[i]
       THEN UNCHANGED <<mqueue, actions, reqState, callbacks, trackerVars>>
     ELSE IF rest = <<>>
       THEN /\ mqueue' = [mqueue EXCEPT ![m] = rest]
            /\ Finish(dropped)
            /\ UNCHANGED actions
     ELSE /\ mqueue' = [mqueue EXCEPT ![m] = SubSeq(rest, b + 1, Len(rest))]
          /\ actions' = actions \cup
               {InferA(g, m, version[i], Range(SubSeq(rest, 1, b)))}
          /\ reqState' = [r \in Requests |->
                            IF r \in Range(SubSeq(rest, 1, b)) THEN "inflight"
                            ELSE IF r \in dropped THEN "done"
                            ELSE reqState[r]]
          /\ callbacks' = [r \in Requests |->
                             IF r \in dropped THEN callbacks[r] + 1
                             ELSE callbacks[r]]
          /\ WT!RequestsCompleted(Credits(dropped))
  /\ UNCHANGED <<loaded, loading, version, freePages, late, connected>>

----------------------------------------------------------------------------
(* Run loop step 3: GPU::try_load. WorkTracker2::loadModel proposes a      *)
(* model; its pages are reserved and a LoadWeights is sent.                *)

TryLoadIgnoringFreePages(g, m) ==
  /\ connected[g]
  /\ version[<<g, m>>] < MaxLoads
  /\ WT!LoadModel(g, m)
  /\ freePages' = [freePages EXCEPT ![g] = @ - Pages[m]]
  /\ loading' = [loading EXCEPT ![<<g, m>>] = TRUE]
  /\ actions' = actions \cup {LoadA(g, m)}
  /\ UNCHANGED <<loaded, version, mqueue, strategies, reqState, late,
                 callbacks, connected>>

TryLoad(g, m) ==
  /\ connected[g]
  /\ freePages[g] >= Pages[m]
  /\ version[<<g, m>>] < MaxLoads
  /\ WT!LoadModel(g, m)
  /\ freePages' = [freePages EXCEPT ![g] = @ - Pages[m]]
  /\ loading' = [loading EXCEPT ![<<g, m>>] = TRUE]
  /\ actions' = actions \cup {LoadA(g, m)}
  /\ UNCHANGED <<loaded, version, mqueue, strategies, reqState, late,
                 callbacks, connected>>

\* GPU::evict_pages: the model loadModel proposes needs more pages than are
\* free, and WorkTracker2::evictModel gives up a model; an EvictWeights is
\* sent. The pages come back with its result.
EvictPages(g, m) ==
  /\ connected[g]
  /\ \E need \in WT!LoadCandidates(g) : freePages[g] < Pages[need]
  /\ WT!EvictModel(g, m)
  /\ actions' = actions \cup {EvictA(g, m)}
  /\ UNCHANGED <<loaded, loading, version, freePages, mqueue, strategies,
                 reqState, late, callbacks, connected>>

----------------------------------------------------------------------------
(* Run loop step 2: the result of an outstanding action is handled.        *)

\* InferAction::complete: every request's callback fires once (success,
\* SLO violation or error alike); the demand is credited to the tracker
InferResult(a) ==
  /\ a \in actions /\ a.type = "infer"
  /\ actions' = actions \ {a}
  /\ Finish(a.reqs)
  /\ UNCHANGED <<loaded, loading, version, freePages, mqueue, strategies,
                 late, connected>>

\* LoadWeightsAction success: a new version is loaded, the tracker counts
\* the GPU, and Model::enqueue(instance) adds strategies for the queue
LoadSuccess(a) ==
  LET i == <<a.gpu, a.model>> IN
  /\ a \in actions /\ a.type = "load"
  /\ actions' = actions \ {a}
  /\ version' = [version EXCEPT ![i] = @ + 1]
  /\ loaded' = [loaded EXCEPT ![i] = TRUE]
  /\ loading' = [loading EXCEPT ![i] = FALSE]
  /\ WT!LoadModelComplete(a.gpu, a.model, TRUE)
  /\ strategies' = strategies \cup
       UNION {StrategiesFor(a.gpu, a.model, version[i] + 1, r) :
                r \in Range(mqueue[a.model])}
  /\ UNCHANGED <<freePages, mqueue, reqState, late, callbacks, connected>>

\* LoadWeightsAction error: the reservation is given back
LoadError(a) ==
  LET i == <<a.gpu, a.model>> IN
  /\ a \in actions /\ a.type = "load"
  /\ actions' = actions \ {a}
  /\ loading' = [loading EXCEPT ![i] = FALSE]
  /\ freePages' = [freePages EXCEPT ![a.gpu] = @ + Pages[a.model]]
  /\ WT!LoadModelComplete(a.gpu, a.model, FALSE)
  /\ UNCHANGED <<loaded, version, mqueue, strategies, reqState, late,
                 callbacks, connected>>

\* EvictWeightsAction, success or error alike: the pages come back
EvictResult(a) ==
  LET i == <<a.gpu, a.model>> IN
  /\ a \in actions /\ a.type = "evict"
  /\ actions' = actions \ {a}
  /\ loaded' = [loaded EXCEPT ![i] = FALSE]
  /\ freePages' = [freePages EXCEPT ![a.gpu] = @ + Pages[a.model]]
  /\ UNCHANGED <<loading, version, mqueue, strategies, reqState, late,
                 callbacks, connected, trackerVars>>

----------------------------------------------------------------------------
(* A transport error on the GPU's worker connection (spec.md section 7):  *)
(* every outstanding action of that worker completes with "worker         *)
(* disconnected" and leaves outstanding_actions, so no result of it is     *)
(* handled; the requests of its Infers get their callbacks, its loads are  *)
(* reported failed to WorkTracker2, and the GPU is zeroed: no instance     *)
(* loaded or loading, every page free, the tracker counting none of its    *)
(* models. Strategies queued for the GPU are stale from then on.           *)

DisconnectWithoutCallbacks(g) ==
  LET gone == {a \in actions : a.gpu = g} IN
  /\ connected[g]
  /\ connected' = [connected EXCEPT ![g] = FALSE]
  /\ actions' = actions \ gone
  /\ UNCHANGED <<reqState, callbacks>>
  /\ WT!RemoveGPU(g, Credits({}))
  /\ loaded' = [i \in Instances |-> IF i[1] = g THEN FALSE ELSE loaded[i]]
  /\ loading' = [i \in Instances |-> IF i[1] = g THEN FALSE ELSE loading[i]]
  /\ freePages' = [freePages EXCEPT ![g] = TotalPages]
  /\ UNCHANGED <<version, mqueue, strategies, late>>

Disconnect(g) ==
  LET gone == {a \in actions : a.gpu = g} IN
  /\ connected[g]
  /\ connected' = [connected EXCEPT ![g] = FALSE]
  /\ actions' = actions \ gone
  /\ Callback(UNION {a.reqs : a \in gone})
  /\ WT!RemoveGPU(g, Credits(UNION {a.reqs : a \in gone}))
  /\ loaded' = [i \in Instances |-> IF i[1] = g THEN FALSE ELSE loaded[i]]
  /\ loading' = [i \in Instances |-> IF i[1] = g THEN FALSE ELSE loading[i]]
  /\ freePages' = [freePages EXCEPT ![g] = TotalPages]
  /\ UNCHANGED <<version, mqueue, strategies, late>>

----------------------------------------------------------------------------
Next ==
  \/ \E r \in Requests : ClientInfer(r) \/ Expire(r)
  \/ \E g \in GPUs, s \in strategies : CheckPending(g, s)
  \/ \E g \in GPUs, m \in Models : TryLoad(g, m) \/ EvictPages(g, m)
  \/ \E a \in actions :
       InferResult(a) \/ LoadSuccess(a) \/ LoadError(a) \/ EvictResult(a)
  \/ \E g \in GPUs : Disconnect(g)

Spec == Init /\ [][Next]_vars

----------------------------------------------------------------------------
TypeOK ==
  /\ loaded \in [Instances -> BOOLEAN]
  /\ loading \in [Instances -> BOOLEAN]
  /\ version \in [Instances -> Nat]
  /\ freePages \in [GPUs -> 0..TotalPages]
  /\ mqueue \in [Models -> Seq(Requests)]
  /\ strategies \subseteq Strategy
  /\ reqState \in [Requests -> {"new", "queued", "inflight", "done"}]
  /\ late \in [Requests -> BOOLEAN]
  /\ callbacks \in [Requests -> Nat]
  /\ connected \in [GPUs -> BOOLEAN]
  /\ WT!TrackerTypeOK

\* P2: a request is in exactly one place (its model's queue, one Infer in
\* flight, or finished), and its callback has fired once exactly when it is
\* finished. Timeouts at dequeue, batching, late completions and errors all
\* have to hand requests on without dropping or repeating one.
RequestAccounting ==
  \A r \in Requests :
    LET inQueue == {i \in 1..Len(mqueue[ReqModel[r]]) : mqueue[ReqModel[r]][i] = r}
        inActs == {a \in actions : r \in a.reqs}
    IN /\ Cardinality(inQueue) = IF reqState[r] = "queued" THEN 1 ELSE 0
       /\ Cardinality(inActs) = IF reqState[r] = "inflight" THEN 1 ELSE 0
       /\ callbacks[r] = IF reqState[r] = "done" THEN 1 ELSE 0

\* Demand (spec.md section 3): every Demand WorkTracker2::addRequest issues
\* is surrendered to requestCompleted exactly once, whichever way its request
\* ends (an Infer result, a drop past its deadline at dequeue, or a worker
\* disconnect): the tracker's outstanding work of a model is its requests
\* still queued or in flight, and its completed work the requests answered.
DemandsSurrendered ==
  \A m \in Models :
    LET live == {r \in Requests : ReqModel[r] = m /\ reqState[r] \in {"queued", "inflight"}}
        done == {r \in Requests : ReqModel[r] = m /\ reqState[r] = "done"}
    IN outstanding[m] = Cardinality(live) /\ completed[m] = Cardinality(done)

\* P5: an instance is idle, loading or loaded, never loading and loaded.
InstanceExclusive == \A i \in Instances : ~(loaded[i] /\ loading[i])
=============================================================================
