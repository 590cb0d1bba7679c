-------------------------- MODULE MCMerkleRootRelayer --------------------------
(* Seven blocks and four authority sets, which change at blocks 2, 4 and 5:    *)
(* the eras of sets 1 and 2 can await finalization together.  The queue is     *)
(* empty at the start, at the last block of era 0 and at the end.              *)
EXTENDS MerkleRootRelayer, TLC

MCSetId ==
    (0 :> 0) @@ (1 :> 0) @@ (2 :> 1) @@ (3 :> 1) @@ (4 :> 2) @@ (5 :> 3) @@ (6 :> 3)
MCQueueRoot ==
    (0 :> 0) @@ (1 :> 0) @@ (2 :> 0) @@ (3 :> 0) @@ (4 :> 1) @@ (5 :> 2) @@ (6 :> 0)
================================================================================
