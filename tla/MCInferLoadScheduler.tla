----------------------- MODULE MCInferLoadScheduler -----------------------
(* One GPU with room for one of two models; two requests for m1, one for  *)
(* m2, so that serving both models takes an eviction.                     *)
EXTENDS InferLoadScheduler, TLC

CONSTANTS r1, r2, r3

MCGPUs == {"g1"}
MCModels == {"m1", "m2"}
MCRequests == {r1, r2, r3}
MCReqModel == [r \in MCRequests |-> IF r = r3 THEN "m2" ELSE "m1"]
MCPages == [m \in MCModels |-> 1]

\* the two requests for m1 are interchangeable
MCSymmetry == Permutations({r1, r2})
=============================================================================
