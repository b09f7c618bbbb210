------------------------------- MODULE MCAQueue -------------------------------
(* Instances of AQueue: producers without batches, one producer of batches *)
(* as in AQueueTest, and two of them.                                      *)
EXTENDS AQueue, TLC

Interchangeable == Permutations(Producers)
==============================================================================
