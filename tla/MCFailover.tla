----------------------------- MODULE MCFailover -----------------------------
(* Constants for model-checking Failover. *)
EXTENDS Failover, TLC

CONSTANTS m1, m2, c1, c2

Chain == <<m1, m2>>

\* The fallback model is in the chain and its channels are switched off.
Catalog == (m1 :> {c1, c2}) @@ (m2 :> {})
First == (m1 :> c1) @@ (m2 :> c2)

Smart == [enabled |-> TRUE, wait |-> TRUE, bypass |-> TRUE]
Strict == [enabled |-> TRUE, wait |-> TRUE, bypass |-> FALSE]
Direct == [enabled |-> FALSE, wait |-> TRUE, bypass |-> TRUE]

AnyPolicy == {Smart, Strict, Direct}

Symmetry == Permutations(Requests)
=============================================================================
