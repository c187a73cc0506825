--------------------- MODULE MCInferLoadSchedulerRace ---------------------
(* One GPU of two pages; m1 takes one page and m2 two, so loading m2       *)
(* evicts m1 while a page stays free.                                      *)
EXTENDS InferLoadScheduler

MCGPUs == {"g1"}
MCModels == {"m1", "m2"}
MCRequests == {"r1", "r2", "r3"}
MCReqModel == [r \in MCRequests |-> IF r = "r3" THEN "m2" ELSE "m1"]
MCPages == [m \in MCModels |-> IF m = "m2" THEN 2 ELSE 1]
=============================================================================
