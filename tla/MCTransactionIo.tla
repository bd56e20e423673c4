-------------------------- MODULE MCTransactionIo --------------------------
(* Model-checking instance of TransactionIo.                               *)
EXTENDS TransactionIo, TLC

CONSTANTS w1, w2, sources, cache, plain

(* The outer batch: a plain artifact between two sectioned ones.           *)
MCArtifacts == <<sources, plain, cache>>
============================================================================
