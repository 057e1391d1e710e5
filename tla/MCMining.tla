------------------------------ MODULE MCMining ------------------------------
(***************************************************************************)
(* The payments of the mining runs: q spends what p makes, so that a reorg *)
(* that takes p out leaves q in the mempool, its output missing.           *)
(***************************************************************************)
EXTENDS Mining

CONSTANTS p, q, coin

SpendsOfRun == [t \in Payments |-> IF t = p THEN coin ELSE p]
=============================================================================
