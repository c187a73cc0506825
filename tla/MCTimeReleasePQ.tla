-------------------------- MODULE MCTimeReleasePQ --------------------------
(* One producer, two consumers, three elements, release times 0..2.       *)
EXTENDS TimeReleasePQ

MCProducers == {"p1"}
MCConsumers == {"c1", "c2"}
MCItems == {"e1", "e2", "e3"}
=============================================================================
