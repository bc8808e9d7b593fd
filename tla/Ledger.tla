------------------------------- MODULE Ledger -------------------------------
(***************************************************************************)
(* What the wallet promises: transactions are programs of verbs, and the   *)
(* ledger moves as if they ran one after the other, each whole or not at   *)
(* all.  No rows, no locks, no retries.                                    *)
(***************************************************************************)
EXTENDS LedgerVerbs, Sequences

CONSTANTS
  Openings,  \* the ledgers to begin with
  Programs   \* the sequences of verbs that transactions run

VARIABLE ledger

Init == ledger \in Openings

\* Every ledger the verbs of p may leave when they run from s undisturbed.
Runs(p, s) ==
  LET after[i \in 0..Len(p)] ==
        IF i = 0 THEN {s} ELSE UNION {Outcomes(p[i], x) : x \in after[i - 1]}
  IN after[Len(p)]

Next == \E p \in Programs : ledger' \in Runs(p, ledger)

Spec == Init /\ [][Next]_ledger
=============================================================================
