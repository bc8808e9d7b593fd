--------------------------- MODULE BillingOutcome ---------------------------
(***************************************************************************)
(* What packages/billing promises about the money of a request, without    *)
(* leases, claims, retries or processes: money is put on hold; the hold is *)
(* either returned, or, once a usage receipt is stored, the request is     *)
(* owed; what is owed is charged once or forgiven by an administrator, and *)
(* after that the request never moves again.                               *)
(***************************************************************************)
CONSTANT Requests

VARIABLE outcome

Outcomes == {"none", "held", "owed", "charged", "returned", "forgiven"}

TypeOK == outcome \in [Requests -> Outcomes]

Init == outcome = [r \in Requests |-> "none"]

\* All of R moves at once, as the requests of one settlement transaction do.
Move(R, from, to) ==
  /\ R # {}
  /\ \A r \in R : outcome[r] = from
  /\ outcome' = [r \in Requests |-> IF r \in R THEN to ELSE outcome[r]]

Hold(r) == Move({r}, "none", "held")
Return(r) == Move({r}, "held", "returned")
Owe(r) == Move({r}, "held", "owed")
Charge(R) == Move(R, "owed", "charged")
Forgive(r) == Move({r}, "owed", "forgiven")

Next ==
  \/ \E r \in Requests : Hold(r) \/ Return(r) \/ Owe(r) \/ Forgive(r)
  \/ \E R \in SUBSET Requests : Charge(R)

Spec == Init /\ [][Next]_outcome
=============================================================================
