---------------------------- MODULE MCSettlement ----------------------------
(* Constants for model-checking Settlement. *)
EXTENDS Settlement, TLC

CONSTANTS s1, s2, w1, w2

\* One job, or one in each of two worker processes.
OneJob == s1 :> w1
TwoWorkers == (s1 :> w1) @@ (s2 :> w2)

\* Gateways and operation ids are interchangeable, and so are the two workers,
\* each with its job.
WorkerSwap == (s1 :> s2) @@ (s2 :> s1) @@ (w1 :> w2) @@ (w2 :> w1)
RaceSymmetry ==
  Permutations(Gateways) \cup Permutations(OperationIds) \cup {WorkerSwap}
=============================================================================
