--------------------------- MODULE AdmissionProofs ---------------------------
(***************************************************************************)
(* Theorems of Admission: a subscription never gives more than its quota,  *)
(* what a change has credited is not spent, and the limits of users, keys  *)
(* and serialised members hold.                                            *)
(*                                                                         *)
(* The invariant says of a transaction what the reads it has behind it     *)
(* still mean: nobody but the holder of the advisory lock can add to the   *)
(* sums it has read, and what leaves one of them enters the other.         *)
(***************************************************************************)
EXTENDS Admission, Sums, SequenceTheorems

-----------------------------------------------------------------------------
(* The sums, of any bills b and requests c, as sums over all requests in     *)
(* which most count nothing.                                                 *)

Bills == [Requests -> Bill]
Asks == [Requests -> Ask]

FlightTerm(x, a, in) == IF in /\ x.status = "open" THEN a.est ELSE 0
SpentTerm(x, a, u, s, d) ==
  IF a.user = u /\ x.sub = s /\ x.plan > 0 /\ x.status = "settled" /\ x.day >= d
  THEN x.amount ELSE 0
ShareTerm(x, a, u, s, d) ==
  IF /\ a.user = u /\ x.sub = s
     /\ x.status = "open" \/ (x.status = "settled" /\ x.day >= d)
  THEN x.plan ELSE 0
PlanTerm(x, s, status) == IF x.sub = s /\ x.status = status THEN x.plan ELSE 0

Flight(b, c, R) == Total([r \in Requests |-> FlightTerm(b[r], c[r], r \in R)], Requests)
SpentOn(b, c, u, s, d) ==
  Total([r \in Requests |-> SpentTerm(b[r], c[r], u, s, d)], Requests)
ShareOn(b, c, u, s, d) ==
  Total([r \in Requests |-> ShareTerm(b[r], c[r], u, s, d)], Requests)
PlanOn(b, s, status) == Total([r \in Requests |-> PlanTerm(b[r], s, status)], Requests)

LEMMA FlightTermType ==
  ASSUME NEW x \in Bill, NEW a \in Ask, NEW in
  PROVE  FlightTerm(x, a, in) \in Nat
BY DEF FlightTerm, Bill, Ask

LEMMA SpentTermType ==
  ASSUME NEW x \in Bill, NEW a \in Ask, NEW u, NEW s, NEW d
  PROVE  SpentTerm(x, a, u, s, d) \in Nat
BY DEF SpentTerm, Bill

LEMMA ShareTermType ==
  ASSUME NEW x \in Bill, NEW a \in Ask, NEW u, NEW s, NEW d
  PROVE  ShareTerm(x, a, u, s, d) \in Nat
BY DEF ShareTerm, Bill

LEMMA PlanTermType ==
  ASSUME NEW x \in Bill, NEW s, NEW status
  PROVE  PlanTerm(x, s, status) \in Nat
BY DEF PlanTerm, Bill

LEMMA RowTypes ==
  ASSUME NEW b \in Bills, NEW c \in Asks, NEW r \in Requests
  PROVE  b[r] \in Bill /\ c[r] \in Ask
BY DEF Bills, Asks

LEMMA FlightType ==
  ASSUME NEW b \in Bills, NEW c \in Asks, NEW R
  PROVE  Flight(b, c, R) \in Nat
<1> DEFINE f == [r \in Requests |-> FlightTerm(b[r], c[r], r \in R)]
<1>1. \A r \in Requests : f[r] \in Nat
  BY RowTypes, FlightTermType
<1> HIDE DEF f
<1>2. Total(f, Requests) \in Nat
  BY <1>1, TotalNat, FiniteAssumption
<1>3. QED
  BY <1>2 DEF Flight, f

LEMMA SpentType ==
  ASSUME NEW b \in Bills, NEW c \in Asks, NEW u, NEW s, NEW d
  PROVE  SpentOn(b, c, u, s, d) \in Nat
<1> DEFINE f == [r \in Requests |-> SpentTerm(b[r], c[r], u, s, d)]
<1>1. \A r \in Requests : f[r] \in Nat
  BY RowTypes, SpentTermType
<1> HIDE DEF f
<1>2. Total(f, Requests) \in Nat
  BY <1>1, TotalNat, FiniteAssumption
<1>3. QED
  BY <1>2 DEF SpentOn, f

LEMMA ShareType ==
  ASSUME NEW b \in Bills, NEW c \in Asks, NEW u, NEW s, NEW d
  PROVE  ShareOn(b, c, u, s, d) \in Nat
<1> DEFINE f == [r \in Requests |-> ShareTerm(b[r], c[r], u, s, d)]
<1>1. \A r \in Requests : f[r] \in Nat
  BY RowTypes, ShareTermType
<1> HIDE DEF f
<1>2. Total(f, Requests) \in Nat
  BY <1>1, TotalNat, FiniteAssumption
<1>3. QED
  BY <1>2 DEF ShareOn, f

LEMMA PlanType ==
  ASSUME NEW b \in Bills, NEW s, NEW status
  PROVE  /\ PlanOn(b, s, status) \in Nat
         /\ \A r \in Requests : PlanTerm(b[r], s, status) <= PlanOn(b, s, status)
<1> DEFINE f == [r \in Requests |-> PlanTerm(b[r], s, status)]
<1>1. \A r \in Requests : f[r] \in Nat
  BY PlanTermType DEF Bills
<1>0. \A r \in Requests : f[r] = PlanTerm(b[r], s, status)
  OBVIOUS
<1> HIDE DEF f
<1>2. Total(f, Requests) \in Nat /\ \A r \in Requests : f[r] <= Total(f, Requests)
  BY <1>1, TotalNat, FiniteAssumption
<1>3. PlanOn(b, s, status) = Total(f, Requests)
  BY DEF PlanOn, f
<1>4. QED
  BY <1>0, <1>2, <1>3

(* When one bill changes, so does its term.                                  *)
LEMMA FlightStep ==
  ASSUME NEW b \in Bills, NEW b2 \in Bills, NEW c \in Asks, NEW R,
         NEW r \in Requests, \A q \in Requests \ {r} : b2[q] = b[q]
  PROVE  Flight(b2, c, R) = Flight(b, c, R) - FlightTerm(b[r], c[r], r \in R)
                                            + FlightTerm(b2[r], c[r], r \in R)
<1> DEFINE f == [q \in Requests |-> FlightTerm(b[q], c[q], q \in R)]
           g == [q \in Requests |-> FlightTerm(b2[q], c[q], q \in R)]
<1>1. \A q \in Requests : f[q] \in Int /\ g[q] \in Int
  BY RowTypes, FlightTermType
<1>2. \A q \in Requests \ {r} : g[q] = f[q]
  OBVIOUS
<1>3. f[r] = FlightTerm(b[r], c[r], r \in R) /\ g[r] = FlightTerm(b2[r], c[r], r \in R)
  OBVIOUS
<1> HIDE DEF f, g
<1>4. Total(g, Requests) = Total(f, Requests) - f[r] + g[r]
  BY <1>1, <1>2, TotalChange, FiniteAssumption
<1>5. Flight(b, c, R) = Total(f, Requests) /\ Flight(b2, c, R) = Total(g, Requests)
  BY DEF Flight, f, g
<1>6. QED
  BY <1>3, <1>4, <1>5

LEMMA SpentStep ==
  ASSUME NEW b \in Bills, NEW b2 \in Bills, NEW c \in Asks, NEW u, NEW s, NEW d,
         NEW r \in Requests, \A q \in Requests \ {r} : b2[q] = b[q]
  PROVE  SpentOn(b2, c, u, s, d) =
           SpentOn(b, c, u, s, d) - SpentTerm(b[r], c[r], u, s, d)
                                  + SpentTerm(b2[r], c[r], u, s, d)
<1> DEFINE f == [q \in Requests |-> SpentTerm(b[q], c[q], u, s, d)]
           g == [q \in Requests |-> SpentTerm(b2[q], c[q], u, s, d)]
<1>1. \A q \in Requests : f[q] \in Int /\ g[q] \in Int
  BY RowTypes, SpentTermType
<1>2. \A q \in Requests \ {r} : g[q] = f[q]
  OBVIOUS
<1>3. f[r] = SpentTerm(b[r], c[r], u, s, d) /\ g[r] = SpentTerm(b2[r], c[r], u, s, d)
  OBVIOUS
<1> HIDE DEF f, g
<1>4. Total(g, Requests) = Total(f, Requests) - f[r] + g[r]
  BY <1>1, <1>2, TotalChange, FiniteAssumption
<1>5. SpentOn(b, c, u, s, d) = Total(f, Requests) /\ SpentOn(b2, c, u, s, d) = Total(g, Requests)
  BY DEF SpentOn, f, g
<1>6. QED
  BY <1>3, <1>4, <1>5

LEMMA ShareStep ==
  ASSUME NEW b \in Bills, NEW b2 \in Bills, NEW c \in Asks, NEW u, NEW s, NEW d,
         NEW r \in Requests, \A q \in Requests \ {r} : b2[q] = b[q]
  PROVE  ShareOn(b2, c, u, s, d) =
           ShareOn(b, c, u, s, d) - ShareTerm(b[r], c[r], u, s, d)
                                  + ShareTerm(b2[r], c[r], u, s, d)
<1> DEFINE f == [q \in Requests |-> ShareTerm(b[q], c[q], u, s, d)]
           g == [q \in Requests |-> ShareTerm(b2[q], c[q], u, s, d)]
<1>1. \A q \in Requests : f[q] \in Int /\ g[q] \in Int
  BY RowTypes, ShareTermType
<1>2. \A q \in Requests \ {r} : g[q] = f[q]
  OBVIOUS
<1>3. f[r] = ShareTerm(b[r], c[r], u, s, d) /\ g[r] = ShareTerm(b2[r], c[r], u, s, d)
  OBVIOUS
<1> HIDE DEF f, g
<1>4. Total(g, Requests) = Total(f, Requests) - f[r] + g[r]
  BY <1>1, <1>2, TotalChange, FiniteAssumption
<1>5. ShareOn(b, c, u, s, d) = Total(f, Requests) /\ ShareOn(b2, c, u, s, d) = Total(g, Requests)
  BY DEF ShareOn, f, g
<1>6. QED
  BY <1>3, <1>4, <1>5

LEMMA PlanStep ==
  ASSUME NEW b \in Bills, NEW b2 \in Bills, NEW s, NEW status,
         NEW r \in Requests, \A q \in Requests \ {r} : b2[q] = b[q]
  PROVE  PlanOn(b2, s, status) =
           PlanOn(b, s, status) - PlanTerm(b[r], s, status) + PlanTerm(b2[r], s, status)
<1> DEFINE f == [q \in Requests |-> PlanTerm(b[q], s, status)]
           g == [q \in Requests |-> PlanTerm(b2[q], s, status)]
<1>1. \A q \in Requests : f[q] \in Int /\ g[q] \in Int
  BY PlanTermType DEF Bills
<1>2. \A q \in Requests \ {r} : g[q] = f[q]
  OBVIOUS
<1>3. f[r] = PlanTerm(b[r], s, status) /\ g[r] = PlanTerm(b2[r], s, status)
  OBVIOUS
<1> HIDE DEF f, g
<1>4. Total(g, Requests) = Total(f, Requests) - f[r] + g[r]
  BY <1>1, <1>2, TotalChange, FiniteAssumption
<1>5. PlanOn(b, s, status) = Total(f, Requests) /\ PlanOn(b2, s, status) = Total(g, Requests)
  BY DEF PlanOn, f, g
<1>6. QED
  BY <1>3, <1>4, <1>5

(* The sums of the model are these.                                          *)
LEMMA SumIs ==
  ASSUME NEW f, NEW g, NEW R, R \subseteq Requests, \A r \in R : f[r] \in Int,
         \A r \in Requests : g[r] = IF r \in R THEN f[r] ELSE 0
  PROVE  SumFunctionOnSet(f, R) = Total(g, Requests)
BY SumOnSetIsTotal, TotalOfPart, FiniteAssumption

LEMMA InFlightIs ==
  ASSUME NEW b \in Bills, NEW c \in Asks, NEW R, R \subseteq Requests
  PROVE  SumFunctionOnSet([r \in Requests |-> c[r].est],
                          {r \in R : b[r].status = "open"}) = Flight(b, c, R)
<1> DEFINE f == [r \in Requests |-> c[r].est]
           g == [r \in Requests |-> FlightTerm(b[r], c[r], r \in R)]
           Q == {r \in R : b[r].status = "open"}
<1>1. \A r \in Q : f[r] \in Int
  BY RowTypes DEF Ask
<1>2. \A r \in Requests : g[r] = IF r \in Q THEN f[r] ELSE 0
  BY DEF FlightTerm
<1>3. Q \subseteq Requests
  OBVIOUS
<1> HIDE DEF f, g, Q
<1>4. SumFunctionOnSet(f, Q) = Total(g, Requests)
  BY <1>1, <1>2, <1>3, SumIs
<1>5. QED
  BY <1>4 DEF Flight, f, g, Q

LEMMA SpentIs ==
  ASSUME NEW b \in Bills, NEW c \in Asks, NEW u, NEW s, NEW d
  PROVE  SumFunctionOnSet([r \in Requests |-> b[r].amount],
           {r \in {q \in {p \in Requests : c[p].user = u /\ b[p].sub = s} : b[q].plan > 0} :
              b[r].status = "settled" /\ b[r].day >= d}) = SpentOn(b, c, u, s, d)
<1> DEFINE f == [r \in Requests |-> b[r].amount]
           g == [r \in Requests |-> SpentTerm(b[r], c[r], u, s, d)]
           Q == {r \in {q \in {p \in Requests : c[p].user = u /\ b[p].sub = s} : b[q].plan > 0} :
                   b[r].status = "settled" /\ b[r].day >= d}
<1>1. \A r \in Q : f[r] \in Int
  BY RowTypes DEF Bill
<1>2. \A r \in Requests : g[r] = IF r \in Q THEN f[r] ELSE 0
  BY DEF SpentTerm
<1>3. Q \subseteq Requests
  OBVIOUS
<1> HIDE DEF f, g, Q
<1>4. SumFunctionOnSet(f, Q) = Total(g, Requests)
  BY <1>1, <1>2, <1>3, SumIs
<1>5. QED
  BY <1>4 DEF SpentOn, f, g, Q

LEMMA ShareIs ==
  ASSUME NEW b \in Bills, NEW c \in Asks, NEW u, NEW s, NEW d
  PROVE  SumFunctionOnSet([r \in Requests |-> b[r].plan],
           {r \in {p \in Requests : c[p].user = u /\ b[p].sub = s} :
              \/ b[r].status = "open"
              \/ b[r].status = "settled" /\ b[r].day >= d}) = ShareOn(b, c, u, s, d)
<1> DEFINE f == [r \in Requests |-> b[r].plan]
           g == [r \in Requests |-> ShareTerm(b[r], c[r], u, s, d)]
           Q == {r \in {p \in Requests : c[p].user = u /\ b[p].sub = s} :
                   \/ b[r].status = "open"
                   \/ b[r].status = "settled" /\ b[r].day >= d}
<1>1. \A r \in Q : f[r] \in Int
  BY RowTypes DEF Bill
<1>2. \A r \in Requests : g[r] = IF r \in Q THEN f[r] ELSE 0
  BY DEF ShareTerm
<1>3. Q \subseteq Requests
  OBVIOUS
<1> HIDE DEF f, g, Q
<1>4. SumFunctionOnSet(f, Q) = Total(g, Requests)
  BY <1>1, <1>2, <1>3, SumIs
<1>5. QED
  BY <1>4 DEF ShareOn, f, g, Q

LEMMA PlansIs ==
  ASSUME NEW b \in Bills, NEW s, NEW status
  PROVE  SumFunctionOnSet([r \in Requests |-> b[r].plan],
           {r \in Requests : b[r].sub = s /\ b[r].status = status}) = PlanOn(b, s, status)
<1> DEFINE f == [r \in Requests |-> b[r].plan]
           g == [r \in Requests |-> PlanTerm(b[r], s, status)]
           Q == {r \in Requests : b[r].sub = s /\ b[r].status = status}
<1>1. \A r \in Q : f[r] \in Int
  BY DEF Bills, Bill
<1>2. \A r \in Requests : g[r] = IF r \in Q THEN f[r] ELSE 0
  BY DEF PlanTerm
<1>3. Q \subseteq Requests
  OBVIOUS
<1> HIDE DEF f, g, Q
<1>4. SumFunctionOnSet(f, Q) = Total(g, Requests)
  BY <1>1, <1>2, <1>3, SumIs
<1>5. QED
  BY <1>4 DEF PlanOn, f, g, Q
-----------------------------------------------------------------------------
(* What the ends and beginnings of requests do to the sums.                  *)

\* A plan is no more than what was asked for; who consumes pays.
Honest(b, c) ==
  \A r \in Requests : /\ b[r].status = "open" => b[r].plan <= c[r].need
                      /\ b[r].status = "settled" => b[r].plan <= b[r].amount

\* The bill r is opened, or closed, and no other is touched.
Opens(b, b2, r) ==
  /\ b[r].status = "none" /\ b2[r].status = "open"
  /\ \A q \in Requests \ {r} : b2[q] = b[q]
Closes(b, b2, r) ==
  /\ b[r].status = "open" /\ b2[r].status \in {"settled", "released"}
  /\ b2[r].sub = b[r].sub /\ b2[r].plan <= b[r].plan
  /\ \A q \in Requests \ {r} : b2[q] = b[q]

LEMMA ClosingShrinks ==
  ASSUME NEW b \in Bills, NEW b2 \in Bills, NEW c \in Asks, NEW r \in Requests,
         Closes(b, b2, r)
  PROVE  /\ \A R : Flight(b2, c, R) <= Flight(b, c, R)
         /\ \A u, s, d : /\ ShareOn(b2, c, u, s, d) <= ShareOn(b, c, u, s, d)
                         /\ SpentOn(b2, c, u, s, d) >= SpentOn(b, c, u, s, d)
<1>1. /\ \A q \in Requests \ {r} : b2[q] = b[q]
      /\ b[r] \in Bill /\ b2[r] \in Bill /\ c[r] \in Ask
  BY RowTypes DEF Closes
<1>2. ASSUME NEW R PROVE Flight(b2, c, R) <= Flight(b, c, R)
  <2>1. FlightTerm(b2[r], c[r], r \in R) = 0
    BY DEF FlightTerm, Closes
  <2>2. FlightTerm(b[r], c[r], r \in R) \in Nat
    BY <1>1, FlightTermType
  <2>3. Flight(b2, c, R) = Flight(b, c, R) - FlightTerm(b[r], c[r], r \in R)
                                           + FlightTerm(b2[r], c[r], r \in R)
    BY <1>1, FlightStep
  <2>4. QED
    BY <2>1, <2>2, <2>3, FlightType
<1>3. ASSUME NEW u, NEW s, NEW d
      PROVE  ShareOn(b2, c, u, s, d) <= ShareOn(b, c, u, s, d)
  <2>1. ShareTerm(b2[r], c[r], u, s, d) <= ShareTerm(b[r], c[r], u, s, d)
    BY <1>1 DEF ShareTerm, Closes, Bill
  <2>2. ShareTerm(b[r], c[r], u, s, d) \in Nat /\ ShareTerm(b2[r], c[r], u, s, d) \in Nat
    BY <1>1, ShareTermType
  <2>3. ShareOn(b2, c, u, s, d) = ShareOn(b, c, u, s, d)
          - ShareTerm(b[r], c[r], u, s, d) + ShareTerm(b2[r], c[r], u, s, d)
    BY <1>1, ShareStep
  <2>4. QED
    BY <2>1, <2>2, <2>3, ShareType
<1>4. ASSUME NEW u, NEW s, NEW d
      PROVE  SpentOn(b2, c, u, s, d) >= SpentOn(b, c, u, s, d)
  <2>1. SpentTerm(b[r], c[r], u, s, d) = 0
    BY DEF SpentTerm, Closes
  <2>2. SpentTerm(b2[r], c[r], u, s, d) \in Nat
    BY <1>1, SpentTermType
  <2>3. SpentOn(b2, c, u, s, d) = SpentOn(b, c, u, s, d)
          - SpentTerm(b[r], c[r], u, s, d) + SpentTerm(b2[r], c[r], u, s, d)
    BY <1>1, SpentStep
  <2>4. QED
    BY <2>1, <2>2, <2>3, SpentType
<1>5. QED
  BY <1>2, <1>3, <1>4

LEMMA OpeningAdds ==
  ASSUME NEW b \in Bills, NEW b2 \in Bills, NEW c \in Asks, NEW r \in Requests,
         Opens(b, b2, r)
  PROVE  /\ \A R : Flight(b2, c, R) = Flight(b, c, R) + IF r \in R THEN c[r].est ELSE 0
         /\ \A u, s, d :
              /\ ShareOn(b2, c, u, s, d) = ShareOn(b, c, u, s, d)
                   + IF c[r].user = u /\ b2[r].sub = s THEN b2[r].plan ELSE 0
              /\ SpentOn(b2, c, u, s, d) = SpentOn(b, c, u, s, d)
<1>1. /\ \A q \in Requests \ {r} : b2[q] = b[q]
      /\ b[r] \in Bill /\ b2[r] \in Bill /\ c[r] \in Ask
  BY RowTypes DEF Opens
<1>2. ASSUME NEW R
      PROVE  Flight(b2, c, R) = Flight(b, c, R) + IF r \in R THEN c[r].est ELSE 0
  <2>1. /\ FlightTerm(b[r], c[r], r \in R) = 0
        /\ FlightTerm(b2[r], c[r], r \in R) = IF r \in R THEN c[r].est ELSE 0
    BY DEF FlightTerm, Opens
  <2>2. FlightTerm(b2[r], c[r], r \in R) \in Nat
    BY <1>1, FlightTermType
  <2>3. Flight(b2, c, R) = Flight(b, c, R) - FlightTerm(b[r], c[r], r \in R)
                                           + FlightTerm(b2[r], c[r], r \in R)
    BY <1>1, FlightStep
  <2>4. QED
    BY <2>1, <2>2, <2>3, FlightType
<1>3. ASSUME NEW u, NEW s, NEW d
      PROVE  ShareOn(b2, c, u, s, d) = ShareOn(b, c, u, s, d)
               + IF c[r].user = u /\ b2[r].sub = s THEN b2[r].plan ELSE 0
  <2>1. /\ ShareTerm(b[r], c[r], u, s, d) = 0
        /\ ShareTerm(b2[r], c[r], u, s, d)
             = IF c[r].user = u /\ b2[r].sub = s THEN b2[r].plan ELSE 0
    BY DEF ShareTerm, Opens
  <2>2. ShareTerm(b2[r], c[r], u, s, d) \in Nat
    BY <1>1, ShareTermType
  <2>3. ShareOn(b2, c, u, s, d) = ShareOn(b, c, u, s, d)
          - ShareTerm(b[r], c[r], u, s, d) + ShareTerm(b2[r], c[r], u, s, d)
    BY <1>1, ShareStep
  <2>4. QED
    BY <2>1, <2>2, <2>3, ShareType
<1>4. ASSUME NEW u, NEW s, NEW d
      PROVE  SpentOn(b2, c, u, s, d) = SpentOn(b, c, u, s, d)
  <2>1. SpentTerm(b[r], c[r], u, s, d) = 0 /\ SpentTerm(b2[r], c[r], u, s, d) = 0
    BY DEF SpentTerm, Opens
  <2>3. SpentOn(b2, c, u, s, d) = SpentOn(b, c, u, s, d)
          - SpentTerm(b[r], c[r], u, s, d) + SpentTerm(b2[r], c[r], u, s, d)
    BY <1>1, SpentStep
  <2>4. QED
    BY <2>1, <2>3, SpentType
<1>5. QED
  BY <1>2, <1>3, <1>4

(* A later day counts no more.                                               *)
LEMMA LaterShare ==
  ASSUME NEW b \in Bills, NEW c \in Asks, NEW u, NEW s, NEW d \in Nat, NEW e \in Nat,
         d <= e
  PROVE  ShareOn(b, c, u, s, e) <= ShareOn(b, c, u, s, d)
<1> DEFINE f == [r \in Requests |-> ShareTerm(b[r], c[r], u, s, e)]
           g == [r \in Requests |-> ShareTerm(b[r], c[r], u, s, d)]
<1>1. \A r \in Requests : f[r] \in Int /\ g[r] \in Int
  BY RowTypes, ShareTermType
<1>2. ASSUME NEW r \in Requests PROVE f[r] <= g[r]
  <2>1. b[r] \in Bill /\ c[r] \in Ask
    BY RowTypes
  <2>2. ShareTerm(b[r], c[r], u, s, e) <= ShareTerm(b[r], c[r], u, s, d)
    BY <2>1 DEF ShareTerm, Bill
  <2>3. QED
    BY <2>2
<1> HIDE DEF f, g
<1>3. Total(f, Requests) <= Total(g, Requests)
  BY <1>1, <1>2, TotalGrows, FiniteAssumption
<1>4. QED
  BY <1>3 DEF ShareOn, f, g

(* The exposure and what is spent are at least what the member has.          *)
LEMMA ShareIsCounted ==
  ASSUME NEW b \in Bills, NEW c \in Asks, Honest(b, c), NEW u, NEW s, NEW d,
         NEW r \in Requests, b[r].status = "none",
         \A q \in Requests : c[q].need <= c[q].est
  PROVE  ShareOn(b, c, u, s, d)
           <= Flight(b, c, {q \in Requests : c[q].user = u /\ b[q].sub = s} \ {r})
                + SpentOn(b, c, u, s, d)
<1> DEFINE R == {q \in Requests : c[q].user = u /\ b[q].sub = s} \ {r}
           f == [q \in Requests |-> ShareTerm(b[q], c[q], u, s, d)]
           g == [q \in Requests |-> FlightTerm(b[q], c[q], q \in R)]
           h == [q \in Requests |-> SpentTerm(b[q], c[q], u, s, d)]
           k == [q \in Requests |-> g[q] + h[q]]
<1>1. \A q \in Requests : f[q] \in Int /\ g[q] \in Int /\ h[q] \in Int
  BY RowTypes, ShareTermType, FlightTermType, SpentTermType
<1>2. ASSUME NEW q \in Requests PROVE f[q] <= g[q] + h[q]
  <2>1. b[q] \in Bill /\ c[q] \in Ask /\ c[q].need <= c[q].est
    BY RowTypes
  <2>2. /\ b[q].status = "open" => b[q].plan <= c[q].need
        /\ b[q].status = "settled" => b[q].plan <= b[q].amount
    BY DEF Honest
  <2>3. ShareTerm(b[q], c[q], u, s, d)
          <= FlightTerm(b[q], c[q], q \in R) + SpentTerm(b[q], c[q], u, s, d)
    <3>1. CASE q = r
      BY <2>1, <2>2, <3>1 DEF ShareTerm, FlightTerm, SpentTerm, Bill, Ask
    <3>2. CASE q # r
      BY <2>1, <2>2, <3>2 DEF ShareTerm, FlightTerm, SpentTerm, Bill, Ask
    <3>3. QED
      BY <3>1, <3>2
  <2>4. QED
    BY <2>3
<1>3. \A q \in Requests : k[q] \in Int /\ k[q] = g[q] + h[q] /\ f[q] <= k[q]
  BY <1>1, <1>2
<1>4. /\ Flight(b, c, R) = Total(g, Requests)
      /\ ShareOn(b, c, u, s, d) = Total(f, Requests)
      /\ SpentOn(b, c, u, s, d) = Total(h, Requests)
  BY DEF Flight, ShareOn, SpentOn
<1> HIDE DEF f, g, h, k, R
<1>5. Total(f, Requests) <= Total(k, Requests)
  BY <1>1, <1>3, TotalGrows, FiniteAssumption
<1>6. Total(k, Requests) = Total(g, Requests) + Total(h, Requests)
  BY <1>1, <1>3, TotalAdds, FiniteAssumption
<1>7. QED
  BY <1>4, <1>5, <1>6 DEF R

\* Without the request that has no bill the exposure is the same.
LEMMA FlightWithout ==
  ASSUME NEW b \in Bills, NEW c \in Asks, NEW R, NEW r \in Requests,
         b[r].status = "none"
  PROVE  Flight(b, c, R \ {r}) = Flight(b, c, R)
<1> DEFINE f == [q \in Requests |-> FlightTerm(b[q], c[q], q \in R \ {r})]
           g == [q \in Requests |-> FlightTerm(b[q], c[q], q \in R)]
<1>1. \A q \in Requests : f[q] = g[q]
  BY DEF FlightTerm
<1> HIDE DEF f, g
<1>2. Total(f, Requests) = Total(g, Requests)
  BY <1>1, TotalSame, FiniteAssumption
<1>3. QED
  BY <1>2 DEF Flight, f, g

(* The books of a subscription when a bill changes.                          *)
LEMMA PlansChange ==
  ASSUME NEW b \in Bills, NEW b2 \in Bills, NEW r \in Requests, NEW s, NEW status,
         \A q \in Requests \ {r} : b2[q] = b[q]
  PROVE  /\ PlanOn(b2, s, status)
              = PlanOn(b, s, status) - PlanTerm(b[r], s, status) + PlanTerm(b2[r], s, status)
         /\ PlanOn(b, s, status) \in Nat /\ PlanOn(b2, s, status) \in Nat
         /\ PlanTerm(b[r], s, status) \in Nat /\ PlanTerm(b2[r], s, status) \in Nat
<1>1. b[r] \in Bill /\ b2[r] \in Bill
  BY DEF Bills
<1>2. QED
  BY <1>1, PlanStep, PlanType, PlanTermType
-----------------------------------------------------------------------------
(* What a transaction x knows, when the configuration is g, the bills are b  *)
(* and the day is d.                                                         *)

Resolving == <<<<"resolve", None>>>>
Has(q, p) == \E i \in DOMAIN q : q[i] = p
Asker(g, x) == g.call[x.request]
ScopeOf(g, k) == {r \in Requests : k \in {g.call[r].user, g.call[r].key}}

\* A request which takes the advisory lock; a user all of whose requests do.
Serial(g, a) == g.daily[a.user] # None \/ g.daily[a.key] # None
AllSerial(g, u) == \A r \in Requests : g.call[r].user = u => Serial(g, g.call[r])

\* A limit of a member is read when there is one.
Due(g, e) == /\ e[1] = "membersDay" => g.memberDaily[e[2]] # None
             /\ e[1] = "membersMonth" => g.memberMonthly[e[2]] # None

\* The lock comes first, and is had by who is past it; the snapshot comes last.
Ordered(g, x) ==
  /\ \A i \in DOMAIN x.todo :
       /\ x.todo[i][1] # "resolve" /\ Due(g, x.todo[i])
       /\ x.todo[i][1] = "lock" => i = 1 /\ x.todo[i][2] = Asker(g, x).user
       /\ x.todo[i][1] = "snapshot" => i = Len(x.todo) /\ x.todo[i][2] = x.sub
  /\ Serial(g, Asker(g, x)) =>
       \/ x.locked
       \/ x.todo # <<>> /\ x.todo[1] = <<"lock", Asker(g, x).user>>

\* A daily limit is still to be looked at, or the request still fits it.
Fits(g, b, x, k) ==
  /\ x.locked
  /\ b[x.request].status = "none" =>
       Flight(b, g.call, ScopeOf(g, k)) + Asker(g, x).est <= g.daily[k]

KeepsDaily(g, b, x) ==
  \A k \in {Asker(g, x).user, Asker(g, x).key} :
    g.daily[k] # None => Has(x.todo, <<"exposure", k>>) \/ Fits(g, b, x, k)

\* What the member has is in the exposure as it was read or is spent since.
Counted(g, b, x, d) ==
  b[x.request].status = "none" =>
    ShareOn(b, g.call, Asker(g, x).user, x.sub, d)
      <= x.sum + SpentOn(b, g.call, Asker(g, x).user, x.sub, d)

\* What the limits leave him beside that exposure would still fit.
Roomy(g, b, x, limit, d) ==
  /\ x.limit # None
  /\ (b[x.request].status = "none" /\ x.limit > 0) =>
       ShareOn(b, g.call, Asker(g, x).user, x.sub, d) + x.limit <= x.sum + limit

DayOrMonth(u) == {<<"membersDay", u>>, <<"membersMonth", u>>}
OfMembers == {"membersExposure", "membersDay", "membersMonth"}

BeforeSnapshot(x) ==
  /\ \A i \in DOMAIN x.todo : x.todo[i][1] \notin OfMembers
  /\ Has(x.todo, <<"snapshot", x.sub>>)
BeforeExposure(g, x) ==
  LET u == Asker(g, x).user IN
  /\ x.todo # <<>> /\ x.todo[1] = <<"membersExposure", u>>
  /\ \A i \in DOMAIN x.todo \ {1} : x.todo[i] \in DayOrMonth(u) /\ Due(g, x.todo[i])
  /\ g.memberDaily[u] # None => Has(x.todo, <<"membersDay", u>>)
  /\ g.memberMonthly[u] # None => Has(x.todo, <<"membersMonth", u>>)
AfterExposure(g, b, x) ==
  LET u == Asker(g, x).user IN
  /\ \A i \in DOMAIN x.todo : x.todo[i] \in DayOrMonth(u)
  /\ Counted(g, b, x, x.since) /\ Counted(g, b, x, 0)
  /\ g.memberDaily[u] # None =>
       Has(x.todo, <<"membersDay", u>>) \/ Roomy(g, b, x, g.memberDaily[u], x.since)
  /\ g.memberMonthly[u] # None =>
       Has(x.todo, <<"membersMonth", u>>) \/ Roomy(g, b, x, g.memberMonthly[u], 0)

Restricted(g, x) ==
  /\ x.sub # None /\ Asker(g, x).need > 0 /\ Asker(g, x).user # Owner
  /\ AllSerial(g, Asker(g, x).user)
KeepsMember(g, b, x) ==
  Restricted(g, x) =>
    BeforeSnapshot(x) \/ BeforeExposure(g, x) \/ AfterExposure(g, b, x)

Knows(g, b, d, x) ==
  x.request # None =>
    /\ x.since <= d
    /\ \/ x.todo = Resolving
       \/ Ordered(g, x) /\ KeepsDaily(g, b, x) /\ KeepsMember(g, b, x)

-----------------------------------------------------------------------------
(* The lists of reads.                                                       *)

LEMMA SettingTypes ==
  ASSUME NEW g \in Settings
  PROVE  /\ g.call \in Asks
         /\ \A r \in Requests : /\ g.call[r] \in Ask /\ g.call[r].need <= g.call[r].est
                                /\ g.call[r].user \in Users /\ g.call[r].key \in Keys
         /\ \A q, r \in Requests :
              g.call[q].key = g.call[r].key => g.call[q].user = g.call[r].user
         /\ g.daily \in [Users \cup Keys -> Rule]
         /\ g.memberDaily \in [Users -> Rule] /\ g.memberMonthly \in [Users -> Rule]
BY SettingsAssumption DEF Asks, Ask

LEMMA KeyIsOfUser ==
  ASSUME NEW g \in Settings, NEW q \in Requests, NEW r \in Requests,
         g.call[q].key = g.call[r].key
  PROVE  g.call[q].user = g.call[r].user
BY SettingsAssumption DEF Asks, Ask

LEMMA TailAt ==
  ASSUME NEW q \in Seq(Read), q # <<>>
  PROVE  /\ Tail(q) \in Seq(Read) /\ Len(Tail(q)) = Len(q) - 1
         /\ \A i \in DOMAIN Tail(q) : i + 1 \in DOMAIN q /\ Tail(q)[i] = q[i + 1] /\ i \in Nat /\ i > 0
         /\ 1 \in DOMAIN q /\ Head(q) = q[1]
OBVIOUS

LEMMA HasTail ==
  ASSUME NEW q \in Seq(Read), q # <<>>, NEW p, Has(q, p)
  PROVE  q[1] = p \/ Has(Tail(q), p)
<1>1. PICK i \in DOMAIN q : q[i] = p
  BY DEF Has
<1>2. CASE i = 1
  BY <1>1, <1>2
<1>3. CASE i # 1
  <2>1. i - 1 \in DOMAIN Tail(q) /\ Tail(q)[i - 1] = q[i]
    BY <1>3
  <2>2. QED
    BY <1>1, <2>1 DEF Has
<1>4. QED
  BY <1>2, <1>3

LEMMA TailOrdered ==
  ASSUME NEW g, NEW x \in Txn, NEW y \in Txn, Ordered(g, x), x.todo # <<>>,
         y.todo = Tail(x.todo), y.request = x.request, y.sub = x.sub,
         y.locked \/ (y.locked = x.locked /\ x.todo[1][1] # "lock")
  PROVE  Ordered(g, y)
<1>1. x.todo \in Seq(Read) /\ x.locked \in BOOLEAN /\ y.locked \in BOOLEAN
  BY DEF Txn
<1>2. Asker(g, y) = Asker(g, x)
  BY DEF Asker
<1>3. ASSUME NEW i \in DOMAIN y.todo
      PROVE  /\ y.todo[i][1] # "resolve"
             /\ y.todo[i][1] # "lock" /\ Due(g, y.todo[i])
             /\ y.todo[i][1] = "snapshot" => i = Len(y.todo) /\ y.todo[i][2] = y.sub
  <2>1. /\ i + 1 \in DOMAIN x.todo /\ y.todo[i] = x.todo[i + 1] /\ i \in Nat /\ i > 0
        /\ Len(y.todo) = Len(x.todo) - 1
    BY <1>1, TailAt
  <2>2. /\ x.todo[i + 1][1] # "resolve"
        /\ x.todo[i + 1][1] = "lock" => i + 1 = 1
        /\ Due(g, x.todo[i + 1])
        /\ x.todo[i + 1][1] = "snapshot" => i + 1 = Len(x.todo) /\ x.todo[i + 1][2] = x.sub
    BY <2>1 DEF Ordered
  <2>3. Len(x.todo) \in Nat /\ i + 1 # 1
    BY <1>1, <2>1
  <2>4. x.todo[i + 1][1] # "lock"
    BY <2>2, <2>3
  <2>5. i + 1 = Len(x.todo) => i = Len(y.todo)
    BY <2>1, <2>3
  <2>6. QED
    BY <2>1, <2>2, <2>4, <2>5
<1>4. Serial(g, Asker(g, x)) => y.locked
  BY <1>1 DEF Ordered
<1>5. QED
  BY <1>2, <1>3, <1>4 DEF Ordered

LEMMA ReadsInRead ==
  /\ \A u \in Users \cup Keys : <<"spent", u>> \in Read /\ <<"exposure", u>> \in Read
  /\ \A u \in Users : /\ <<"lock", u>> \in Read /\ <<"membersExposure", u>> \in Read
                      /\ <<"membersDay", u>> \in Read /\ <<"membersMonth", u>> \in Read
  /\ \A s \in Subs : <<"snapshot", s>> \in Read
  /\ <<"bill", None>> \in Read /\ <<"resolve", None>> \in Read
BY DEF Read

LEMMA DailyReadsAre ==
  ASSUME NEW k \in Users \cup Keys
  PROVE  /\ DailyReads(k) \in Seq(Read)
         /\ \A i \in DOMAIN DailyReads(k) : DailyReads(k)[i][1] \in {"spent", "exposure"}
         /\ Limited(k) => DailyReads(k)[2] = <<"exposure", k>> /\ 2 \in DOMAIN DailyReads(k)
<1>1. CASE Limited(k)
  <2>1. DailyReads(k) = <<<<"spent", k>>, <<"exposure", k>>>>
    BY <1>1 DEF DailyReads
  <2>2. QED
    BY <1>1, <2>1, ReadsInRead
<1>2. CASE ~Limited(k)
  <2>1. DailyReads(k) = <<>>
    BY <1>2 DEF DailyReads
  <2>2. QED
    BY <1>2, <2>1
<1>3. QED
  BY <1>1, <1>2

\* The elements of two lists, one after the other.
LEMMA Joined ==
  ASSUME NEW q \in Seq(Read), NEW p \in Seq(Read)
  PROVE  /\ q \o p \in Seq(Read) /\ Len(q \o p) = Len(q) + Len(p)
         /\ Len(q) \in Nat /\ Len(p) \in Nat
         /\ \A i \in DOMAIN q : i \in DOMAIN (q \o p) /\ (q \o p)[i] = q[i]
         /\ \A i \in DOMAIN p : /\ Len(q) + i \in DOMAIN (q \o p)
                                /\ (q \o p)[Len(q) + i] = p[i]
         /\ \A i \in DOMAIN (q \o p) :
              \/ i \in DOMAIN q /\ (q \o p)[i] = q[i] /\ i <= Len(q)
              \/ /\ i - Len(q) \in DOMAIN p /\ (q \o p)[i] = p[i - Len(q)]
                 /\ i > Len(q)
OBVIOUS

LEMMA HasJoined ==
  ASSUME NEW q \in Seq(Read), NEW p \in Seq(Read), NEW e
  PROVE  (Has(q, e) \/ Has(p, e)) => Has(q \o p, e)
<1>1. ASSUME NEW i \in DOMAIN q, q[i] = e PROVE Has(q \o p, e)
  <2>1. i \in DOMAIN (q \o p) /\ (q \o p)[i] = e
    BY <1>1, Joined
  <2>2. QED
    BY <2>1 DEF Has
<1>2. ASSUME NEW i \in DOMAIN p, p[i] = e PROVE Has(q \o p, e)
  <2>1. Len(q) + i \in DOMAIN (q \o p) /\ (q \o p)[Len(q) + i] = e
    BY <1>2, Joined
  <2>2. QED
    BY <2>1 DEF Has
<1>3. QED
  BY <1>1, <1>2 DEF Has

LEMMA ReadsAre ==
  ASSUME NEW a \in Ask, NEW s \in Subs \cup {None}, NEW q, q = Reads(a, s)
  PROVE  /\ q \in Seq(Read)
         /\ \A i \in DOMAIN q :
              /\ q[i][1] \in {"lock", "bill", "spent", "exposure", "snapshot"}
              /\ q[i][1] = "lock" => i = 1 /\ q[i][2] = a.user
              /\ q[i][1] = "snapshot" => i = Len(q) /\ q[i][2] = s
         /\ (Limited(a.user) \/ Limited(a.key)) => q # <<>> /\ q[1] = <<"lock", a.user>>
         /\ \A k \in {a.user, a.key} : Limited(k) => Has(q, <<"exposure", k>>)
         /\ s # None /\ a.need > 0 => Has(q, <<"snapshot", s>>)
<1>1. a.user \in Users /\ a.key \in Keys /\ a.need \in Nat
  BY DEF Ask
<1>2. PICK l : l = Locking(a)
  OBVIOUS
<1>3. PICK b : b = <<<<"bill", None>>>>
  OBVIOUS
<1>4. PICK du : du = DailyReads(a.user)
  OBVIOUS
<1>5. PICK dk : dk = DailyReads(a.key)
  OBVIOUS
<1>6. PICK z : z = Probes(a, s)
  OBVIOUS
<1>7. q = (((l \o b) \o du) \o dk) \o z
  BY <1>2, <1>3, <1>4, <1>5, <1>6 DEF Reads
<1>8. /\ l \in Seq(Read) /\ Len(l) \in {0, 1}
      /\ \A i \in DOMAIN l : l[i] = <<"lock", a.user>> /\ i = 1
      /\ (Limited(a.user) \/ Limited(a.key)) => 1 \in DOMAIN l
  <2>1. CASE Limited(a.user) \/ Limited(a.key)
    <3>1. l = <<<<"lock", a.user>>>>
      BY <1>2, <2>1 DEF Locking
    <3>2. <<"lock", a.user>> \in Read
      BY <1>1, ReadsInRead
    <3>3. l \in Seq(Read) /\ Len(l) = 1 /\ DOMAIN l = {1} /\ l[1] = <<"lock", a.user>>
      BY <3>1, <3>2
    <3>4. QED
      BY <3>3
  <2>2. CASE ~(Limited(a.user) \/ Limited(a.key))
    <3>1. l = <<>>
      BY <1>2, <2>2 DEF Locking
    <3>2. QED
      BY <2>2, <3>1
  <2>3. QED
    BY <2>1, <2>2
<1>9. b \in Seq(Read) /\ \A i \in DOMAIN b : b[i][1] = "bill"
  BY <1>3, ReadsInRead
<1>10. /\ du \in Seq(Read) /\ \A i \in DOMAIN du : du[i][1] \in {"spent", "exposure"}
       /\ Limited(a.user) => Has(du, <<"exposure", a.user>>)
  BY <1>1, <1>4, DailyReadsAre DEF Has
<1>11. /\ dk \in Seq(Read) /\ \A i \in DOMAIN dk : dk[i][1] \in {"spent", "exposure"}
       /\ Limited(a.key) => Has(dk, <<"exposure", a.key>>)
  BY <1>1, <1>5, DailyReadsAre DEF Has
<1>12. /\ z \in Seq(Read) /\ \A i \in DOMAIN z : z[i] = <<"snapshot", s>> /\ i = 1 /\ Len(z) = 1
       /\ s # None /\ a.need > 0 => Has(z, <<"snapshot", s>>)
  <2>1. CASE s = None \/ a.need = 0
    <3>1. z = <<>>
      BY <1>6, <2>1 DEF Probes
    <3>2. QED
      BY <2>1, <3>1
  <2>2. CASE s # None /\ a.need # 0
    <3>1. z = <<<<"snapshot", s>>>> /\ s \in Subs
      BY <1>6, <2>2 DEF Probes
    <3>2. z \in Seq(Read) /\ z[1] = <<"snapshot", s>> /\ DOMAIN z = {1} /\ Len(z) = 1
      BY <3>1, ReadsInRead
    <3>3. Has(z, <<"snapshot", s>>)
      BY <3>2 DEF Has
    <3>4. QED
      BY <3>2, <3>3
  <2>3. QED
    BY <2>1, <2>2
<1>13. PICK q1 : q1 = l \o b
  OBVIOUS
<1>14. /\ q1 \in Seq(Read) /\ Len(q1) > 0
       /\ \A i \in DOMAIN q1 : \/ q1[i] = <<"lock", a.user>> /\ i = 1
                               \/ q1[i][1] = "bill"
       /\ (Limited(a.user) \/ Limited(a.key)) => q1[1] = <<"lock", a.user>>
  <2>1. Len(b) = 1 /\ l \in Seq(Read) /\ b \in Seq(Read)
    BY <1>3, <1>8, <1>9
  <2>2. /\ q1 \in Seq(Read) /\ Len(q1) = Len(l) + 1 /\ Len(l) \in Nat
        /\ \A i \in DOMAIN l : q1[i] = l[i]
        /\ \A i \in DOMAIN q1 : \/ i \in DOMAIN l /\ q1[i] = l[i]
                                \/ i - Len(l) \in DOMAIN b /\ q1[i] = b[i - Len(l)]
    BY <1>13, <2>1, Joined
  <2>3. QED
    BY <1>8, <1>9, <2>2
<1>15. PICK q2 : q2 = q1 \o du
  OBVIOUS
<1>16. /\ q2 \in Seq(Read) /\ Len(q2) > 0
       /\ \A i \in DOMAIN q2 : \/ q2[i] = <<"lock", a.user>> /\ i = 1
                               \/ q2[i][1] \in {"bill", "spent", "exposure"}
       /\ (Limited(a.user) \/ Limited(a.key)) => q2[1] = <<"lock", a.user>>
  <2>1. 1 \in DOMAIN q1
    BY <1>14
  <2>2. QED
    BY <1>14, <1>10, <1>15, <2>1, Joined
<1>17. Limited(a.user) => Has(q2, <<"exposure", a.user>>)
  BY <1>10, <1>14, <1>15, HasJoined
<1>18. PICK q3 : q3 = q2 \o dk
  OBVIOUS
<1>19. /\ q3 \in Seq(Read) /\ Len(q3) > 0
       /\ \A i \in DOMAIN q3 : \/ q3[i] = <<"lock", a.user>> /\ i = 1
                               \/ q3[i][1] \in {"bill", "spent", "exposure"}
       /\ (Limited(a.user) \/ Limited(a.key)) => q3[1] = <<"lock", a.user>>
  <2>1. 1 \in DOMAIN q2
    BY <1>16
  <2>2. QED
    BY <1>16, <1>11, <1>18, <2>1, Joined
<1>20. \A k \in {a.user, a.key} : Limited(k) => Has(q3, <<"exposure", k>>)
  BY <1>11, <1>16, <1>17, <1>18, HasJoined
<1>21. q = q3 \o z
  BY <1>7, <1>13, <1>15, <1>18
<1>22. q \in Seq(Read) /\ Len(q) = Len(q3) + Len(z) /\ Len(q3) \in Nat /\ Len(z) \in Nat
  BY <1>12, <1>19, <1>21, Joined
<1>23. ASSUME NEW i \in DOMAIN q
       PROVE  \/ q[i] = <<"lock", a.user>> /\ i = 1
              \/ q[i][1] \in {"bill", "spent", "exposure"}
              \/ q[i] = <<"snapshot", s>> /\ i = Len(q)
  <2>1. CASE i \in DOMAIN q3 /\ q[i] = q3[i]
    BY <1>19, <2>1
  <2>2. CASE i - Len(q3) \in DOMAIN z /\ q[i] = z[i - Len(q3)]
    <3>1. q[i] = <<"snapshot", s>> /\ i - Len(q3) = 1 /\ Len(z) = 1
      BY <1>12, <2>2
    <3>2. i \in Int
      BY <1>22
    <3>3. QED
      BY <1>22, <3>1, <3>2
  <2>3. \/ i \in DOMAIN q3 /\ q[i] = q3[i]
        \/ i - Len(q3) \in DOMAIN z /\ q[i] = z[i - Len(q3)]
    <3>1. q3 \in Seq(Read) /\ z \in Seq(Read)
      BY <1>12, <1>19
    <3>2. QED
      BY <1>21, <3>1, Joined
  <2>4. QED
    BY <2>1, <2>2, <2>3
<1>24. 1 \in DOMAIN q3 /\ 1 \in DOMAIN q /\ q[1] = q3[1]
  <2>1. 1 \in DOMAIN q3
    BY <1>19
  <2>2. QED
    BY <1>12, <1>19, <1>21, <2>1, Joined
<1>25. \A k \in {a.user, a.key} : Limited(k) => Has(q, <<"exposure", k>>)
  BY <1>12, <1>19, <1>20, <1>21, HasJoined
<1>26. s # None /\ a.need > 0 => Has(q, <<"snapshot", s>>)
  BY <1>12, <1>19, <1>21, HasJoined
<1>27. (Limited(a.user) \/ Limited(a.key)) => q # <<>> /\ q[1] = <<"lock", a.user>>
  BY <1>19, <1>22, <1>24
<1>28. QED
  BY <1>22, <1>23, <1>25, <1>26, <1>27
-----------------------------------------------------------------------------
(* What a transaction knows outlives what the others do.                     *)

\* From b to b2 nothing is added to what x has read.
Gentle(g, b, b2, x) ==
  /\ b2[x.request].status = "none" => b[x.request].status = "none"
  /\ x.locked => \A k \in {Asker(g, x).user, Asker(g, x).key} :
       g.daily[k] # None =>
         Flight(b2, g.call, ScopeOf(g, k)) <= Flight(b, g.call, ScopeOf(g, k))
  /\ (x.locked /\ AllSerial(g, Asker(g, x).user)) =>
       \A s, d : /\ ShareOn(b2, g.call, Asker(g, x).user, s, d)
                      <= ShareOn(b, g.call, Asker(g, x).user, s, d)
                 /\ SpentOn(b2, g.call, Asker(g, x).user, s, d)
                      >= SpentOn(b, g.call, Asker(g, x).user, s, d)

LEMMA ClosingIsGentle ==
  ASSUME NEW g \in Settings, NEW b \in Bills, NEW b2 \in Bills, NEW x,
         x.request \in Requests, NEW r \in Requests, Closes(b, b2, r)
  PROVE  Gentle(g, b, b2, x)
<1>1. b2[x.request].status = "none" => b[x.request].status = "none"
  BY DEF Closes
<1>2. /\ \A R : Flight(b2, g.call, R) <= Flight(b, g.call, R)
      /\ \A u, s, d : /\ ShareOn(b2, g.call, u, s, d) <= ShareOn(b, g.call, u, s, d)
                      /\ SpentOn(b2, g.call, u, s, d) >= SpentOn(b, g.call, u, s, d)
  BY SettingTypes, ClosingShrinks
<1>3. QED
  BY <1>1, <1>2 DEF Gentle

\* Who opens a request of the same user has to have his lock.
LEMMA OpeningIsGentle ==
  ASSUME NEW g \in Settings, NEW b \in Bills, NEW b2 \in Bills, NEW x,
         x.request \in Requests, NEW r \in Requests, Opens(b, b2, r),
         Serial(g, g.call[r]) => (x.locked => g.call[r].user # Asker(g, x).user)
  PROVE  Gentle(g, b, b2, x)
<1>1. b2[x.request].status = "none" => b[x.request].status = "none"
  BY DEF Opens
<1>2. /\ Asker(g, x) = g.call[x.request] /\ Asker(g, x).user \in Users
      /\ Asker(g, x).key \in Keys /\ g.call[r].user \in Users /\ g.call[r].key \in Keys
      /\ g.call \in Asks
  BY SettingTypes DEF Asker
<1>3. ASSUME x.locked, NEW k \in {Asker(g, x).user, Asker(g, x).key}, g.daily[k] # None
      PROVE  Flight(b2, g.call, ScopeOf(g, k)) <= Flight(b, g.call, ScopeOf(g, k))
  <2>1. r \notin ScopeOf(g, k)
    <3>1. SUFFICES ASSUME k \in {g.call[r].user, g.call[r].key} PROVE FALSE
      BY DEF ScopeOf
    <3>2. Serial(g, g.call[r])
      BY <1>3, <3>1 DEF Serial
    <3>3. CASE k = g.call[r].user
      <4>1. k = Asker(g, x).user
        BY <1>2, <1>3, <3>3, NamesAssumption
      <4>2. QED
        BY <1>3, <3>2, <3>3, <4>1
    <3>4. CASE k = g.call[r].key
      <4>1. k = Asker(g, x).key
        BY <1>2, <1>3, <3>4, NamesAssumption
      <4>2. g.call[r].user = Asker(g, x).user
        <5>1. g.call[r].key = g.call[x.request].key
          BY <1>2, <3>4, <4>1
        <5>2. g.call[r].user = g.call[x.request].user
          BY <5>1, KeyIsOfUser
        <5>3. QED
          BY <1>2, <5>2
      <4>3. QED
        BY <1>3, <3>2, <4>2
    <3>5. QED
      BY <3>1, <3>3, <3>4
  <2>2. Flight(b2, g.call, ScopeOf(g, k)) = Flight(b, g.call, ScopeOf(g, k)) + 0
    BY <1>2, <2>1, OpeningAdds
  <2>3. QED
    BY <1>2, <2>2, FlightType
<1>4. ASSUME x.locked, AllSerial(g, Asker(g, x).user), NEW s, NEW d
      PROVE  /\ ShareOn(b2, g.call, Asker(g, x).user, s, d)
                  <= ShareOn(b, g.call, Asker(g, x).user, s, d)
             /\ SpentOn(b2, g.call, Asker(g, x).user, s, d)
                  >= SpentOn(b, g.call, Asker(g, x).user, s, d)
  <2>1. g.call[r].user # Asker(g, x).user
    BY <1>4 DEF AllSerial
  <2>2. /\ ShareOn(b2, g.call, Asker(g, x).user, s, d)
             = ShareOn(b, g.call, Asker(g, x).user, s, d) + 0
        /\ SpentOn(b2, g.call, Asker(g, x).user, s, d)
             = SpentOn(b, g.call, Asker(g, x).user, s, d)
    BY <1>2, <2>1, OpeningAdds
  <2>3. QED
    BY <1>2, <2>2, ShareType, SpentType
<1>5. QED
  BY <1>1, <1>3, <1>4 DEF Gentle

\* Who has his exposure behind him is past the lock.
LEMMA PastTheLock ==
  ASSUME NEW g, NEW b, NEW x \in Txn, Ordered(g, x), Serial(g, Asker(g, x)),
         AfterExposure(g, b, x)
  PROVE  x.locked
<1>1. SUFFICES ASSUME x.todo # <<>>, x.todo[1] = <<"lock", Asker(g, x).user>>
               PROVE  FALSE
  BY DEF Ordered
<1>2. x.todo \in Seq(Read)
  BY DEF Txn
<1>3. 1 \in DOMAIN x.todo
  BY <1>1, <1>2, TailAt
<1>4. x.todo[1] \in DayOrMonth(Asker(g, x).user)
  BY <1>3 DEF AfterExposure
<1>5. QED
  BY <1>1, <1>4 DEF DayOrMonth

LEMMA KnowledgeLasts ==
  ASSUME NEW g \in Settings, NEW b \in Bills, NEW b2 \in Bills, NEW x \in Txn,
         NEW d \in Nat, NEW e \in Nat, d <= e,
         Knows(g, b, d, x),
         x.request # None => Gentle(g, b, b2, x)
  PROVE  Knows(g, b2, e, x)
<1>1. SUFFICES ASSUME x.request # None, x.todo # Resolving
               PROVE  Knows(g, b2, e, x)
  BY DEF Knows, Txn
<1>2. /\ x.since <= e /\ x.since \in Nat /\ x.request \in Requests /\ x.sum \in Nat
      /\ x.limit \in Nat \cup {None} /\ x.todo \in Seq(Read) /\ x.locked \in BOOLEAN
      /\ Ordered(g, x) /\ KeepsDaily(g, b, x) /\ KeepsMember(g, b, x)
      /\ Gentle(g, b, b2, x)
  BY <1>1 DEF Knows, Txn
<1> DEFINE a == Asker(g, x)
<1>3. g.call \in Asks /\ a \in Ask /\ a.user \in Users /\ a.key \in Keys
  BY <1>2, SettingTypes DEF Asker
<1>4. g.daily \in [Users \cup Keys -> Rule]
  BY SettingTypes
<1>5. b2[x.request].status = "none" => b[x.request].status = "none"
  BY <1>2 DEF Gentle
<1>6. KeepsDaily(g, b2, x)
  <2>1. SUFFICES ASSUME NEW k \in {a.user, a.key}, g.daily[k] # None,
                        Fits(g, b, x, k)
                 PROVE  Fits(g, b2, x, k)
    BY <1>2 DEF KeepsDaily
  <2>2. Flight(b2, g.call, ScopeOf(g, k)) <= Flight(b, g.call, ScopeOf(g, k))
    BY <1>2, <2>1 DEF Gentle, Fits
  <2>3. /\ Flight(b2, g.call, ScopeOf(g, k)) \in Nat
        /\ Flight(b, g.call, ScopeOf(g, k)) \in Nat
    BY <1>3, FlightType
  <2>4. g.daily[k] \in Nat /\ a.est \in Nat
    BY <1>3, <1>4, <2>1 DEF Rule, Amount, Ask
  <2>5. QED
    BY <1>5, <2>1, <2>2, <2>3, <2>4 DEF Fits
<1>7. KeepsMember(g, b2, x)
  <2>1. SUFFICES ASSUME Restricted(g, x), AfterExposure(g, b, x)
                 PROVE  AfterExposure(g, b2, x)
    BY <1>2 DEF KeepsMember
  <2>2. x.locked
    <3>1. Serial(g, a)
      BY <1>2, <2>1 DEF Restricted, AllSerial, Asker
    <3>2. QED
      BY <1>2, <2>1, <3>1, PastTheLock
  <2>3. \A s, f : /\ ShareOn(b2, g.call, a.user, s, f) <= ShareOn(b, g.call, a.user, s, f)
                  /\ SpentOn(b2, g.call, a.user, s, f) >= SpentOn(b, g.call, a.user, s, f)
    BY <1>2, <2>1, <2>2 DEF Restricted, Gentle
  <2>4. \A s, f : /\ ShareOn(b2, g.call, a.user, s, f) \in Nat
                  /\ ShareOn(b, g.call, a.user, s, f) \in Nat
                  /\ SpentOn(b2, g.call, a.user, s, f) \in Nat
                  /\ SpentOn(b, g.call, a.user, s, f) \in Nat
    BY <1>3, ShareType, SpentType
  <2>5. ASSUME NEW f, Counted(g, b, x, f) PROVE Counted(g, b2, x, f)
    <3>1. SUFFICES ASSUME b[x.request].status = "none"
                   PROVE  ShareOn(b2, g.call, a.user, x.sub, f)
                            <= x.sum + SpentOn(b2, g.call, a.user, x.sub, f)
      BY <1>5 DEF Counted
    <3>2. ShareOn(b, g.call, a.user, x.sub, f)
            <= x.sum + SpentOn(b, g.call, a.user, x.sub, f)
      BY <2>5, <3>1 DEF Counted
    <3> HIDE DEF a
    <3>3. QED
      BY <1>2, <2>3, <2>4, <3>2
  <2>6. ASSUME NEW l \in Nat, NEW f, Roomy(g, b, x, l, f) PROVE Roomy(g, b2, x, l, f)
    <3>1. SUFFICES ASSUME b[x.request].status = "none", x.limit > 0, x.limit # None
                   PROVE  ShareOn(b2, g.call, a.user, x.sub, f) + x.limit <= x.sum + l
      BY <1>5, <2>6 DEF Roomy
    <3>2. ShareOn(b, g.call, a.user, x.sub, f) + x.limit <= x.sum + l
      BY <2>6, <3>1 DEF Roomy
    <3> HIDE DEF a
    <3>3. x.limit \in Nat /\ x.sum \in Nat
      BY <1>2, <3>1
    <3>4. PICK n1, n2 : /\ n1 = ShareOn(b2, g.call, a.user, x.sub, f)
                        /\ n2 = ShareOn(b, g.call, a.user, x.sub, f)
      OBVIOUS
    <3>5. n1 \in Nat /\ n2 \in Nat /\ n1 <= n2
      BY <2>3, <2>4, <3>4
    <3>6. n2 + x.limit <= x.sum + l
      BY <3>2, <3>4
    <3>7. n1 + x.limit <= x.sum + l
      BY <3>3, <3>5, <3>6
    <3>8. QED
      BY <3>4, <3>7
  <2>7. /\ g.memberDaily[a.user] # None => g.memberDaily[a.user] \in Nat
        /\ g.memberMonthly[a.user] # None => g.memberMonthly[a.user] \in Nat
    BY <1>3, SettingTypes DEF Rule, Amount
  <2>8. QED
    BY <2>1, <2>5, <2>6, <2>7 DEF AfterExposure
<1>8. QED
  BY <1>1, <1>2, <1>6, <1>7 DEF Knows

-----------------------------------------------------------------------------
(* The reads.                                                                *)

\* Before the snapshot a read is taken off the list; the one of the exposure
\* has found that the request fits.
LEMMA EarlyRead ==
  ASSUME NEW g \in Settings, NEW b, NEW d \in Nat, NEW x \in Txn, NEW y \in Txn,
         Knows(g, b, d, x), x.request # None, x.todo # <<>>,
         x.todo[1][1] \in {"lock", "bill", "spent", "exposure"},
         y.todo = Tail(x.todo), y.request = x.request, y.sub = x.sub,
         y.since = x.since, y.locked \/ (y.locked = x.locked /\ x.todo[1][1] # "lock"),
         \A k \in {Asker(g, x).user, Asker(g, x).key} :
           g.daily[k] # None /\ x.todo[1] = <<"exposure", k>> /\ x.locked => Fits(g, b, y, k)
  PROVE  Knows(g, b, d, y)
<1>1. x.todo # Resolving
  BY DEF Resolving
<1>2. Ordered(g, x) /\ KeepsDaily(g, b, x) /\ KeepsMember(g, b, x) /\ x.since <= d
  BY <1>1 DEF Knows
<1>3. x.todo \in Seq(Read) /\ x.locked \in BOOLEAN /\ y.locked \in BOOLEAN
  BY DEF Txn
<1>4. Asker(g, y) = Asker(g, x)
  BY DEF Asker
<1>5. Ordered(g, y)
  BY <1>2, TailOrdered
<1>6. KeepsDaily(g, b, y)
  <2>1. SUFFICES ASSUME NEW k \in {Asker(g, x).user, Asker(g, x).key}, g.daily[k] # None
                 PROVE  Has(y.todo, <<"exposure", k>>) \/ Fits(g, b, y, k)
    BY <1>4 DEF KeepsDaily
  <2>2. Has(x.todo, <<"exposure", k>>) \/ Fits(g, b, x, k)
    BY <1>2, <2>1 DEF KeepsDaily
  <2>3. CASE Has(x.todo, <<"exposure", k>>) /\ x.todo[1] # <<"exposure", k>>
    BY <1>3, <2>3, HasTail
  <2>4. CASE x.todo[1] = <<"exposure", k>>
    <3>1. Serial(g, Asker(g, x))
      BY <2>1 DEF Serial
    <3>2. x.locked
      BY <1>2, <2>4, <3>1 DEF Ordered
    <3>3. QED
      BY <2>1, <2>4, <3>2
  <2>5. CASE Fits(g, b, x, k)
    BY <1>3, <1>4, <2>5 DEF Fits
  <2>6. QED
    BY <2>2, <2>3, <2>4, <2>5
<1>7. KeepsMember(g, b, y)
  <2>1. SUFFICES ASSUME Restricted(g, x) PROVE BeforeSnapshot(y)
    BY <1>4 DEF KeepsMember, Restricted
  <2>2. 1 \in DOMAIN x.todo /\ 1 # 2
    BY <1>3, TailAt
  <2>3. BeforeSnapshot(x)
    <3>1. ~BeforeExposure(g, x)
      BY DEF BeforeExposure
    <3>2. ~AfterExposure(g, b, x)
      <4>1. x.todo[1] \notin DayOrMonth(Asker(g, x).user)
        BY DEF DayOrMonth
      <4>2. QED
        BY <2>2, <4>1 DEF AfterExposure
    <3>3. QED
      BY <1>2, <2>1, <3>1, <3>2 DEF KeepsMember
  <2>4. Has(y.todo, <<"snapshot", y.sub>>)
    <3>1. x.todo[1] # <<"snapshot", x.sub>>
      OBVIOUS
    <3>2. Has(x.todo, <<"snapshot", x.sub>>)
      BY <2>3 DEF BeforeSnapshot
    <3>3. QED
      BY <1>3, <3>1, <3>2, HasTail
  <2>5. \A i \in DOMAIN y.todo : y.todo[i][1] \notin OfMembers
    BY <1>3, <2>3, TailAt DEF BeforeSnapshot
  <2>6. QED
    BY <2>4, <2>5 DEF BeforeSnapshot
<1>8. QED
  BY <1>2, <1>5, <1>6, <1>7 DEF Knows

\* The snapshot is the last of the first list: what follows it, if anything, are
\* the reads for a member.
LEMMA AfterSnapshot ==
  ASSUME NEW g \in Settings, NEW b, NEW d \in Nat, NEW x \in Txn, NEW y \in Txn,
         Knows(g, b, d, x), x.request # None, x.todo # <<>>,
         x.todo[1][1] = "snapshot",
         y.request = x.request, y.sub = x.sub, y.since = x.since, y.locked = x.locked,
         \/ y.todo = Tail(x.todo) /\ Asker(g, x).user = Owner
         \/ BeforeExposure(g, y)
  PROVE  Knows(g, b, d, y)
<1>1. x.todo # Resolving
  BY DEF Resolving
<1>2. Ordered(g, x) /\ KeepsDaily(g, b, x) /\ KeepsMember(g, b, x) /\ x.since <= d
  BY <1>1 DEF Knows
<1>3. x.todo \in Seq(Read) /\ x.locked \in BOOLEAN /\ y.locked \in BOOLEAN
      /\ y.todo \in Seq(Read)
  BY DEF Txn
<1>4. Asker(g, y) = Asker(g, x)
  BY DEF Asker
<1>5. 1 \in DOMAIN x.todo /\ Len(x.todo) = 1
  BY <1>2, <1>3, TailAt DEF Ordered
<1>6. DOMAIN Tail(x.todo) = {}
  <2>1. \A i \in DOMAIN Tail(x.todo) : i + 1 \in DOMAIN x.todo /\ i > 0 /\ i \in Nat
    BY <1>3, TailAt
  <2>2. \A i \in DOMAIN x.todo : i = 1
    BY <1>3, <1>5
  <2>3. ASSUME NEW i \in DOMAIN Tail(x.todo) PROVE FALSE
    BY <2>1, <2>2
  <2>4. QED
    BY <2>3
<1>7. Serial(g, Asker(g, x)) => x.locked
  BY <1>2 DEF Ordered
<1>8. Ordered(g, y)
  <2>1. CASE y.todo = Tail(x.todo)
    <3>1. DOMAIN y.todo = {}
      BY <1>6, <2>1
    <3>2. QED
      BY <1>4, <1>7, <3>1 DEF Ordered
  <2>2. CASE BeforeExposure(g, y)
    <3>1. ASSUME NEW i \in DOMAIN y.todo
          PROVE  y.todo[i][1] \in OfMembers /\ Due(g, y.todo[i])
      <4>1. CASE i = 1
        BY <2>2, <4>1 DEF BeforeExposure, OfMembers, Due
      <4>2. CASE i # 1
        <5>1. y.todo[i] \in DayOrMonth(Asker(g, y).user) /\ Due(g, y.todo[i])
          BY <2>2, <4>2 DEF BeforeExposure
        <5>2. QED
          BY <5>1 DEF DayOrMonth, OfMembers
      <4>3. QED
        BY <4>1, <4>2
    <3>2. QED
      BY <1>4, <1>7, <3>1 DEF Ordered, OfMembers
  <2>3. QED
    BY <2>1, <2>2
<1>9. KeepsDaily(g, b, y)
  <2>1. SUFFICES ASSUME NEW k \in {Asker(g, x).user, Asker(g, x).key}, g.daily[k] # None
                 PROVE  Fits(g, b, y, k)
    BY <1>4 DEF KeepsDaily
  <2>2. Has(x.todo, <<"exposure", k>>) \/ Fits(g, b, x, k)
    BY <1>2, <2>1 DEF KeepsDaily
  <2>3. ~Has(x.todo, <<"exposure", k>>)
    <3>1. \A i \in DOMAIN x.todo : i = 1
      BY <1>3, <1>5
    <3>2. x.todo[1] # <<"exposure", k>>
      OBVIOUS
    <3>3. QED
      BY <3>1, <3>2 DEF Has
  <2>4. QED
    BY <1>4, <2>2, <2>3 DEF Fits
<1>10. KeepsMember(g, b, y)
  BY <1>4 DEF KeepsMember, Restricted
<1>11. QED
  BY <1>2, <1>8, <1>9, <1>10 DEF Knows

LEMMA MemberReadsAre ==
  ASSUME NEW g \in Settings, g = setting, NEW x \in Txn, x.request \in Requests,
         x.todo = MemberReads(Asker(g, x).user)
  PROVE  BeforeExposure(g, x)
<1>1. PICK u : u = Asker(g, x).user
  OBVIOUS
<1>2. u \in Users
  BY <1>1, SettingTypes DEF Asker
<1>3. PICK p : p = <<<<"membersExposure", u>>>>
  OBVIOUS
<1>4. PICK q : q = IF MemberDaily[u] = None THEN <<>> ELSE <<<<"membersDay", u>>>>
  OBVIOUS
<1>5. PICK m : m = IF MemberMonthly[u] = None THEN <<>> ELSE <<<<"membersMonth", u>>>>
  OBVIOUS
<1>6. x.todo = (p \o q) \o m
  BY <1>1, <1>3, <1>4, <1>5 DEF MemberReads
<1>7. p \in Seq(Read) /\ p[1] = <<"membersExposure", u>> /\ DOMAIN p = {1}
  <2>1. <<"membersExposure", u>> \in Read
    BY <1>2, ReadsInRead
  <2>2. QED
    BY <1>3, <2>1
<1>8. /\ q \in Seq(Read)
      /\ \A i \in DOMAIN q : q[i] = <<"membersDay", u>> /\ MemberDaily[u] # None
      /\ MemberDaily[u] # None => Has(q, <<"membersDay", u>>)
  <2>1. CASE MemberDaily[u] = None
    <3>1. q = <<>>
      BY <1>4, <2>1
    <3>2. QED
      BY <2>1, <3>1
  <2>2. CASE MemberDaily[u] # None
    <3>1. q = <<<<"membersDay", u>>>> /\ <<"membersDay", u>> \in Read
      BY <1>2, <1>4, <2>2, ReadsInRead
    <3>2. q \in Seq(Read) /\ DOMAIN q = {1} /\ q[1] = <<"membersDay", u>>
      BY <3>1
    <3>3. QED
      BY <2>2, <3>2 DEF Has
  <2>3. QED
    BY <2>1, <2>2
<1>9. /\ m \in Seq(Read)
      /\ \A i \in DOMAIN m : m[i] = <<"membersMonth", u>> /\ MemberMonthly[u] # None
      /\ MemberMonthly[u] # None => Has(m, <<"membersMonth", u>>)
  <2>1. CASE MemberMonthly[u] = None
    <3>1. m = <<>>
      BY <1>5, <2>1
    <3>2. QED
      BY <2>1, <3>1
  <2>2. CASE MemberMonthly[u] # None
    <3>1. m = <<<<"membersMonth", u>>>> /\ <<"membersMonth", u>> \in Read
      BY <1>2, <1>5, <2>2, ReadsInRead
    <3>2. m \in Seq(Read) /\ DOMAIN m = {1} /\ m[1] = <<"membersMonth", u>>
      BY <3>1
    <3>3. QED
      BY <2>2, <3>2 DEF Has
  <2>3. QED
    BY <2>1, <2>2
<1>10. PICK w : w = p \o q
  OBVIOUS
<1>11. /\ w \in Seq(Read) /\ 1 \in DOMAIN w /\ w[1] = <<"membersExposure", u>>
       /\ \A i \in DOMAIN w \ {1} : w[i] = <<"membersDay", u>> /\ MemberDaily[u] # None
  <2>1. /\ w \in Seq(Read)
        /\ 1 \in DOMAIN w /\ w[1] = p[1]
        /\ \A i \in DOMAIN w : i = 1 \/ (i - Len(p) \in DOMAIN q /\ w[i] = q[i - Len(p)])
    BY <1>7, <1>8, <1>10, Joined
  <2>2. QED
    BY <1>7, <1>8, <2>1
<1>12. MemberDaily[u] # None => Has(w, <<"membersDay", u>>)
  BY <1>7, <1>8, <1>10, HasJoined
<1>13. x.todo = w \o m
  BY <1>6, <1>10
<1>14. /\ 1 \in DOMAIN x.todo /\ x.todo[1] = w[1]
       /\ \A i \in DOMAIN x.todo : \/ i \in DOMAIN w /\ x.todo[i] = w[i]
                                   \/ i - Len(w) \in DOMAIN m /\ x.todo[i] = m[i - Len(w)]
  <2>1. w \in Seq(Read) /\ m \in Seq(Read) /\ 1 \in DOMAIN w
    BY <1>9, <1>11
  <2>2. PICK j : j = w \o m
    OBVIOUS
  <2>3. /\ 1 \in DOMAIN j /\ j[1] = w[1]
        /\ \A i \in DOMAIN j : \/ i \in DOMAIN w /\ j[i] = w[i]
                               \/ i - Len(w) \in DOMAIN m /\ j[i] = m[i - Len(w)]
    BY <2>1, <2>2, Joined
  <2>4. QED
    BY <1>13, <2>2, <2>3
<1>15. \A i \in DOMAIN x.todo \ {1} :
         \/ x.todo[i] = <<"membersDay", u>> /\ MemberDaily[u] # None
         \/ x.todo[i] = <<"membersMonth", u>> /\ MemberMonthly[u] # None
  BY <1>9, <1>11, <1>14
<1>0. \A i \in DOMAIN x.todo \ {1} : x.todo[i] \in DayOrMonth(u) /\ Due(g, x.todo[i])
  BY <1>15 DEF DayOrMonth, Due, MemberDaily, MemberMonthly
<1>16. /\ MemberDaily[u] # None => Has(x.todo, <<"membersDay", u>>)
       /\ MemberMonthly[u] # None => Has(x.todo, <<"membersMonth", u>>)
  BY <1>9, <1>11, <1>12, <1>13, HasJoined
<1>17. x.todo # <<>>
  BY <1>14
<1>18. QED
  BY <1>0, <1>1, <1>11, <1>14, <1>16, <1>17 DEF BeforeExposure, MemberDaily, MemberMonthly

\* The exposure of a member is read.
LEMMA AfterMembersExposure ==
  ASSUME NEW g \in Settings, NEW b \in Bills, Honest(b, g.call), NEW d \in Nat,
         NEW x \in Txn, NEW y \in Txn, NEW w,
         Knows(g, b, d, x), x.request # None, x.todo # <<>>,
         x.todo[1] = <<"membersExposure", w>>,
         y.todo = Tail(x.todo), y.request = x.request, y.sub = x.sub,
         y.since = x.since, y.locked = x.locked,
         y.sum = Flight(b, g.call, {q \in Requests : g.call[q].user = w /\ b[q].sub = x.sub}
                                         \ {x.request})
  PROVE  Knows(g, b, d, y)
<1>1. x.todo # Resolving
  BY DEF Resolving
<1>2. Ordered(g, x) /\ KeepsDaily(g, b, x) /\ KeepsMember(g, b, x) /\ x.since <= d
  BY <1>1 DEF Knows
<1>3. /\ x.todo \in Seq(Read) /\ x.locked \in BOOLEAN /\ x.request \in Requests
      /\ x.since \in Nat /\ 1 \in DOMAIN x.todo
  BY TailAt DEF Txn
<1>4. Asker(g, y) = Asker(g, x)
  BY DEF Asker
<1>5. Ordered(g, y)
  BY <1>2, TailOrdered
<1>6. KeepsDaily(g, b, y)
  <2>1. SUFFICES ASSUME NEW k \in {Asker(g, x).user, Asker(g, x).key}, g.daily[k] # None
                 PROVE  Has(y.todo, <<"exposure", k>>) \/ Fits(g, b, y, k)
    BY <1>4 DEF KeepsDaily
  <2>2. Has(x.todo, <<"exposure", k>>) \/ Fits(g, b, x, k)
    BY <1>2, <2>1 DEF KeepsDaily
  <2>3. x.todo[1] # <<"exposure", k>>
    OBVIOUS
  <2>4. CASE Has(x.todo, <<"exposure", k>>)
    BY <1>3, <2>3, <2>4, HasTail
  <2>5. CASE Fits(g, b, x, k)
    BY <1>4, <2>5 DEF Fits
  <2>6. QED
    BY <2>2, <2>4, <2>5
<1>7. KeepsMember(g, b, y)
  <2>1. SUFFICES ASSUME Restricted(g, x) PROVE AfterExposure(g, b, y)
    BY <1>4 DEF KeepsMember, Restricted
  <2>2. PICK u : u = Asker(g, x).user
    OBVIOUS
  <2>3. ~BeforeSnapshot(x)
    <3>1. x.todo[1][1] \in OfMembers
      BY DEF OfMembers
    <3>2. QED
      BY <1>3, <3>1 DEF BeforeSnapshot
  <2>4. ~AfterExposure(g, b, x)
    <3>1. x.todo[1] \notin DayOrMonth(Asker(g, x).user)
      BY DEF DayOrMonth
    <3>2. QED
      BY <1>3, <3>1 DEF AfterExposure
  <2>5. BeforeExposure(g, x)
    BY <1>2, <2>1, <2>3, <2>4 DEF KeepsMember
  <2>11. w = u
    BY <2>2, <2>5 DEF BeforeExposure
  <2>6. \A i \in DOMAIN y.todo : y.todo[i] \in DayOrMonth(u)
    <3>1. ASSUME NEW i \in DOMAIN y.todo PROVE y.todo[i] \in DayOrMonth(u)
      <4>1. i + 1 \in DOMAIN x.todo /\ y.todo[i] = x.todo[i + 1] /\ i \in Nat /\ i > 0
        BY <1>3, TailAt
      <4>2. i + 1 \in DOMAIN x.todo \ {1}
        BY <4>1
      <4>3. QED
        BY <2>2, <2>5, <4>1, <4>2 DEF BeforeExposure
    <3>2. QED
      BY <3>1
  <2>7. ASSUME NEW e PROVE Counted(g, b, y, e)
    <3>1. SUFFICES ASSUME b[x.request].status = "none"
                   PROVE  ShareOn(b, g.call, u, x.sub, e) <= y.sum + SpentOn(b, g.call, u, x.sub, e)
      BY <1>4, <2>2 DEF Counted
    <3>2. QED
      BY <1>3, <2>11, <3>1, SettingTypes, ShareIsCounted
  <2>8. x.todo[1] # <<"membersDay", u>> /\ x.todo[1] # <<"membersMonth", u>>
    OBVIOUS
  <2>9. /\ g.memberDaily[u] # None => Has(y.todo, <<"membersDay", u>>)
        /\ g.memberMonthly[u] # None => Has(y.todo, <<"membersMonth", u>>)
    BY <1>3, <2>2, <2>5, <2>8, HasTail DEF BeforeExposure
  <2>10. QED
    BY <1>4, <2>2, <2>6, <2>7, <2>9 DEF AfterExposure
<1>8. QED
  BY <1>2, <1>5, <1>6, <1>7 DEF Knows

\* A limit of the member is read: name is its read, limit what it says, e the
\* day it counts from.
LEMMA AfterLimit ==
  ASSUME NEW g \in Settings, NEW b \in Bills, NEW d \in Nat,
         NEW x \in Txn, NEW y \in Txn, NEW u, u = Asker(g, x).user, NEW w,
         Knows(g, b, d, x), x.request # None, x.todo # <<>>,
         x.todo[1] = <<"membersDay", w>> \/ x.todo[1] = <<"membersMonth", w>>,
         y.todo = Tail(x.todo), y.request = x.request, y.sub = x.sub,
         y.since = x.since, y.locked = x.locked, y.sum = x.sum,
         y.limit # None, x.limit # None => y.limit <= x.limit,
         (/\ g.memberDaily[u] # None /\ x.todo[1] = <<"membersDay", u>>
          /\ Counted(g, b, x, x.since)) => Roomy(g, b, y, g.memberDaily[u], x.since),
         (/\ g.memberMonthly[u] # None /\ x.todo[1] = <<"membersMonth", u>>
          /\ Counted(g, b, x, 0)) => Roomy(g, b, y, g.memberMonthly[u], 0)
  PROVE  Knows(g, b, d, y)
<1>1. x.todo # Resolving
  BY DEF Resolving
<1>2. Ordered(g, x) /\ KeepsDaily(g, b, x) /\ KeepsMember(g, b, x) /\ x.since <= d
  BY <1>1 DEF Knows
<1>3. /\ x.todo \in Seq(Read) /\ x.locked \in BOOLEAN /\ x.request \in Requests
      /\ x.since \in Nat /\ 1 \in DOMAIN x.todo /\ x.sum \in Nat
      /\ x.limit \in Nat \cup {None} /\ y.limit \in Nat \cup {None}
  BY TailAt DEF Txn
<1>4. Asker(g, y) = Asker(g, x)
  BY DEF Asker
<1>5. Ordered(g, y)
  <2>1. x.todo[1][1] # "lock"
    OBVIOUS
  <2>2. QED
    BY <1>2, <2>1, TailOrdered
<1>6. KeepsDaily(g, b, y)
  <2>1. SUFFICES ASSUME NEW k \in {Asker(g, x).user, Asker(g, x).key}, g.daily[k] # None
                 PROVE  Has(y.todo, <<"exposure", k>>) \/ Fits(g, b, y, k)
    BY <1>4 DEF KeepsDaily
  <2>2. Has(x.todo, <<"exposure", k>>) \/ Fits(g, b, x, k)
    BY <1>2, <2>1 DEF KeepsDaily
  <2>3. x.todo[1] # <<"exposure", k>>
    OBVIOUS
  <2>4. CASE Has(x.todo, <<"exposure", k>>)
    BY <1>3, <2>3, <2>4, HasTail
  <2>5. CASE Fits(g, b, x, k)
    BY <1>4, <2>5 DEF Fits
  <2>6. QED
    BY <2>2, <2>4, <2>5
<1>7. KeepsMember(g, b, y)
  <2>1. SUFFICES ASSUME Restricted(g, x) PROVE AfterExposure(g, b, y)
    BY <1>4 DEF KeepsMember, Restricted
  <2>2. ~BeforeSnapshot(x)
    <3>1. x.todo[1][1] \in OfMembers
      BY DEF OfMembers
    <3>2. QED
      BY <1>3, <3>1 DEF BeforeSnapshot
  <2>3. ~BeforeExposure(g, x)
    BY DEF BeforeExposure
  <2>4. AfterExposure(g, b, x)
    BY <1>2, <2>1, <2>2, <2>3 DEF KeepsMember
  <2>5. \A i \in DOMAIN y.todo : y.todo[i] \in DayOrMonth(u)
    BY <1>3, <2>4, TailAt DEF AfterExposure
  <2>6. Counted(g, b, x, x.since) /\ Counted(g, b, x, 0)
    BY <2>4 DEF AfterExposure
  <2>7. ASSUME NEW e, Counted(g, b, x, e) PROVE Counted(g, b, y, e)
    BY <1>4, <2>7 DEF Counted
  <2>8. ASSUME NEW l \in Nat, NEW e, Roomy(g, b, x, l, e) PROVE Roomy(g, b, y, l, e)
    <3>1. SUFFICES ASSUME b[x.request].status = "none", y.limit > 0
                   PROVE  ShareOn(b, g.call, u, x.sub, e) + y.limit <= x.sum + l
      BY <1>4 DEF Roomy
    <3>2. x.limit # None
      BY <2>8 DEF Roomy
    <3>3. x.limit \in Nat /\ y.limit \in Nat /\ y.limit <= x.limit
      BY <1>3, <3>2
    <3>4. ShareOn(b, g.call, u, x.sub, e) + x.limit <= x.sum + l
      BY <2>8, <3>1, <3>3 DEF Roomy
    <3>5. PICK n \in Nat : n = ShareOn(b, g.call, u, x.sub, e)
      BY SettingTypes, ShareType
    <3>6. n + x.limit <= x.sum + l /\ x.sum \in Nat
      BY <1>3, <3>4, <3>5
    <3>7. n + y.limit <= x.sum + l
      BY <3>3, <3>6
    <3>8. QED
      BY <3>5, <3>7
  <2>9. u \in Users
    BY <1>3, SettingTypes DEF Asker
  <2>10. g.memberDaily[u] # None =>
           Has(y.todo, <<"membersDay", u>>) \/ Roomy(g, b, y, g.memberDaily[u], y.since)
    <3>1. SUFFICES ASSUME g.memberDaily[u] # None
                   PROVE  \/ Has(y.todo, <<"membersDay", u>>)
                          \/ Roomy(g, b, y, g.memberDaily[u], x.since)
      OBVIOUS
    <3>2. g.memberDaily[u] \in Nat
      BY <2>9, <3>1, SettingTypes DEF Rule, Amount
    <3>3. Has(x.todo, <<"membersDay", u>>) \/ Roomy(g, b, x, g.memberDaily[u], x.since)
      BY <2>4, <3>1 DEF AfterExposure
    <3>4. CASE x.todo[1] = <<"membersDay", u>>
      BY <2>6, <3>1, <3>4
    <3>5. CASE x.todo[1] # <<"membersDay", u>> /\ Has(x.todo, <<"membersDay", u>>)
      BY <1>3, <3>5, HasTail
    <3>6. CASE Roomy(g, b, x, g.memberDaily[u], x.since)
      BY <2>8, <3>2, <3>6
    <3>7. QED
      BY <3>3, <3>4, <3>5, <3>6
  <2>11. g.memberMonthly[u] # None =>
           Has(y.todo, <<"membersMonth", u>>) \/ Roomy(g, b, y, g.memberMonthly[u], 0)
    <3>1. SUFFICES ASSUME g.memberMonthly[u] # None
                   PROVE  \/ Has(y.todo, <<"membersMonth", u>>)
                          \/ Roomy(g, b, y, g.memberMonthly[u], 0)
      OBVIOUS
    <3>2. g.memberMonthly[u] \in Nat
      BY <2>9, <3>1, SettingTypes DEF Rule, Amount
    <3>3. Has(x.todo, <<"membersMonth", u>>) \/ Roomy(g, b, x, g.memberMonthly[u], 0)
      BY <2>4, <3>1 DEF AfterExposure
    <3>4. CASE x.todo[1] = <<"membersMonth", u>>
      BY <2>6, <3>1, <3>4
    <3>5. CASE x.todo[1] # <<"membersMonth", u>> /\ Has(x.todo, <<"membersMonth", u>>)
      BY <1>3, <3>5, HasTail
    <3>6. CASE Roomy(g, b, x, g.memberMonthly[u], 0)
      BY <2>8, <3>2, <3>6
    <3>7. QED
      BY <3>3, <3>4, <3>5, <3>6
  <2>12. QED
    BY <1>4, <2>5, <2>6, <2>7, <2>10, <2>11 DEF AfterExposure
<1>8. QED
  BY <1>2, <1>5, <1>6, <1>7 DEF Knows

\* What is taken when all reads are done fits.
LEMMA GrantFits ==
  ASSUME NEW g \in Settings, NEW b \in Bills, NEW d \in Nat, NEW x \in Txn,
         Knows(g, b, d, x), x.request # None, x.todo = <<>>,
         b[x.request].status = "none", Restricted(g, x), NEW m \in Nat, m > 0,
         x.limit # None => m <= AtLeast0(x.limit - x.sum)
  PROVE  LET u == Asker(g, x).user IN
         /\ g.memberDaily[u] # None =>
              ShareOn(b, g.call, u, x.sub, d) + m <= g.memberDaily[u]
         /\ g.memberMonthly[u] # None =>
              ShareOn(b, g.call, u, x.sub, 0) + m <= g.memberMonthly[u]
<1>1. PICK u : u = Asker(g, x).user
  OBVIOUS
<1>2. x.todo # Resolving
  BY DEF Resolving
<1>3. KeepsMember(g, b, x) /\ x.since <= d
  BY <1>2 DEF Knows
<1>4. /\ x.sum \in Nat /\ x.limit \in Nat \cup {None} /\ x.since \in Nat
      /\ x.request \in Requests
  BY DEF Txn
<1>5. \A p : ~Has(x.todo, p)
  BY DEF Has
<1>6. AfterExposure(g, b, x)
  BY <1>3, <1>5 DEF KeepsMember, BeforeSnapshot, BeforeExposure
<1>7. /\ g.memberDaily[u] # None => Roomy(g, b, x, g.memberDaily[u], x.since)
      /\ g.memberMonthly[u] # None => Roomy(g, b, x, g.memberMonthly[u], 0)
  BY <1>1, <1>5, <1>6 DEF AfterExposure
<1>8. ASSUME NEW l \in Nat, NEW e, Roomy(g, b, x, l, e)
      PROVE  ShareOn(b, g.call, u, x.sub, e) + m <= l
  <2>1. x.limit \in Nat
    BY <1>4, <1>8 DEF Roomy
  <2>2. m <= x.limit - x.sum /\ x.limit > 0
    BY <1>4, <1>8, <2>1 DEF AtLeast0, Roomy
  <2>3. ShareOn(b, g.call, u, x.sub, e) + x.limit <= x.sum + l
    BY <1>1, <1>8, <2>2 DEF Roomy
  <2>4. ShareOn(b, g.call, u, x.sub, e) \in Nat
    BY SettingTypes, ShareType
  <2>5. QED
    BY <1>4, <2>1, <2>2, <2>3, <2>4
<1>9. u \in Users
  BY <1>1, <1>4, SettingTypes DEF Asker
<1>10. ShareOn(b, g.call, u, x.sub, d) <= ShareOn(b, g.call, u, x.sub, x.since)
  BY <1>3, <1>4, SettingTypes, LaterShare
<1>11. ASSUME g.memberDaily[u] # None
       PROVE  ShareOn(b, g.call, u, x.sub, d) + m <= g.memberDaily[u]
  <2>1. g.memberDaily[u] \in Nat
    BY <1>9, <1>11, SettingTypes DEF Rule, Amount
  <2>2. ShareOn(b, g.call, u, x.sub, x.since) + m <= g.memberDaily[u]
    BY <1>7, <1>8, <1>11, <2>1
  <2>3. /\ ShareOn(b, g.call, u, x.sub, x.since) \in Nat
        /\ ShareOn(b, g.call, u, x.sub, d) \in Nat
    BY SettingTypes, ShareType
  <2>4. QED
    BY <1>10, <2>1, <2>2, <2>3
<1>12. ASSUME g.memberMonthly[u] # None
       PROVE  ShareOn(b, g.call, u, x.sub, 0) + m <= g.memberMonthly[u]
  <2>1. g.memberMonthly[u] \in Nat
    BY <1>9, <1>12, SettingTypes DEF Rule, Amount
  <2>2. QED
    BY <1>7, <1>8, <1>12, <2>1
<1>13. QED
  BY <1>1, <1>11, <1>12
-----------------------------------------------------------------------------
(* The invariant.                                                            *)

\* The books of a subscription, and what is credited comes from what is left.
BooksKept(sb, b) ==
  \A s \in Subs : /\ sb[s].reserved = PlanOn(b, s, "open")
                  /\ sb[s].used = PlanOn(b, s, "settled")
                  /\ sb[s].given + sb[s].used + sb[s].reserved <= sb[s].quota
                  /\ sb[s].status = "unsold" => sb[s].used = 0 /\ sb[s].reserved = 0
                  /\ sb[s].status = "active" => sb[s].given = 0
BillsKept(g, b) ==
  /\ Honest(b, g.call)
  /\ \A r \in Requests : b[r].plan > 0 => b[r].sub \in Subs

\* The advisory lock of a user is with one transaction.
Alone(g, tx) ==
  \A t, o \in Txns :
    /\ tx[t].locked => tx[t].request # None
    /\ (t # o /\ tx[t].locked /\ tx[o].locked) =>
         g.call[tx[t].request].user # g.call[tx[o].request].user

DailyKept(g, b) ==
  \A k \in Users \cup Keys :
    g.daily[k] # None => Flight(b, g.call, ScopeOf(g, k)) <= g.daily[k]
MembersKept(g, b, d) ==
  \A u \in Users \ {Owner}, s \in Subs : AllSerial(g, u) =>
    /\ g.memberDaily[u] # None => ShareOn(b, g.call, u, s, d) <= g.memberDaily[u]
    /\ g.memberMonthly[u] # None => ShareOn(b, g.call, u, s, 0) <= g.memberMonthly[u]
AllKnow(g, b, d, tx) == \A t \in Txns : Knows(g, b, d, tx[t])

IInv ==
  /\ TypeOK
  /\ BooksKept(sub, bill) /\ BillsKept(setting, bill)
  /\ Alone(setting, txn) /\ AllKnow(setting, bill, day, txn)
  /\ DailyKept(setting, bill) /\ MembersKept(setting, bill, day)

-----------------------------------------------------------------------------
(* The initial states.                                                       *)

LEMMA IdleType == Idle \in Txn /\ Idle.request = None /\ ~Idle.locked
<1>1. <<>> \in Seq(Read)
  OBVIOUS
<1>2. QED
  BY <1>1 DEF Idle, Txn, Seat

\* Nothing is counted of bills without plan which are not open.
LEMMA NothingCounts ==
  ASSUME NEW b \in Bills, NEW c \in Asks,
         \A r \in Requests : b[r].plan = 0 /\ b[r].status \in {"none", "released"}
  PROVE  /\ \A R : Flight(b, c, R) = 0
         /\ \A u, s, d : ShareOn(b, c, u, s, d) = 0
         /\ \A s, status : PlanOn(b, s, status) = 0
<1>1. ASSUME NEW R PROVE Flight(b, c, R) = 0
  <2> DEFINE f == [r \in Requests |-> FlightTerm(b[r], c[r], r \in R)]
  <2>1. \A r \in Requests : f[r] = 0
    BY DEF FlightTerm
  <2> HIDE DEF f
  <2>2. Total(f, Requests) = 0
    BY <2>1, TotalZero, FiniteAssumption
  <2>3. QED
    BY <2>2 DEF Flight, f
<1>2. ASSUME NEW u, NEW s, NEW d PROVE ShareOn(b, c, u, s, d) = 0
  <2> DEFINE f == [r \in Requests |-> ShareTerm(b[r], c[r], u, s, d)]
  <2>1. \A r \in Requests : f[r] = 0
    BY DEF ShareTerm
  <2> HIDE DEF f
  <2>2. Total(f, Requests) = 0
    BY <2>1, TotalZero, FiniteAssumption
  <2>3. QED
    BY <2>2 DEF ShareOn, f
<1>3. ASSUME NEW s, NEW status PROVE PlanOn(b, s, status) = 0
  <2> DEFINE f == [r \in Requests |-> PlanTerm(b[r], s, status)]
  <2>1. \A r \in Requests : f[r] = 0
    BY DEF PlanTerm
  <2> HIDE DEF f
  <2>2. Total(f, Requests) = 0
    BY <2>1, TotalZero, FiniteAssumption
  <2>3. QED
    BY <2>2 DEF PlanOn, f
<1>4. QED
  BY <1>1, <1>2, <1>3

LEMMA Starts == Init => IInv
<1> SUFFICES ASSUME Init PROVE IInv
  OBVIOUS
<1>1. setting \in Settings /\ sub = setting.subs /\ day = 0
  BY DEF Init
<1>2. NoBill \in Bill /\ [NoBill EXCEPT !.status = "released"] \in Bill
  BY DEF NoBill, Bill
<1>3. ASSUME NEW r \in Requests
      PROVE  /\ bill[r] \in Bill /\ bill[r].plan = 0
             /\ bill[r].status \in {"none", "released"}
  <2>1. bill[r] = NoBill \/ bill[r] = [NoBill EXCEPT !.status = "released"]
    BY DEF Init
  <2>2. QED
    BY <1>2, <2>1 DEF NoBill
<1>4. bill \in Bills
  BY <1>3 DEF Init, Bills
<1>5. \A t \in Txns : txn[t] = Idle
  BY DEF Init
<1>6. TypeOK
  <2>1. txn \in [Txns -> Txn]
    BY IdleType DEF Init
  <2>2. QED
    <3>1. /\ setting.subs \in [Subs -> Sub] /\ setting.bound \in [Keys -> Subs \cup {None}]
          /\ setting.members \in [Users -> Seat]
      BY <1>1, OpeningsAssumption
    <3>2. bill \in [Requests -> Bill]
      BY <1>4 DEF Bills
    <3>3. bound = setting.bound /\ seat = setting.members
      BY DEF Init
    <3>4. QED
      BY <1>1, <2>1, <3>1, <3>2, <3>3 DEF TypeOK
<1>7. /\ \A R : Flight(bill, setting.call, R) = 0
      /\ \A u, s, d : ShareOn(bill, setting.call, u, s, d) = 0
      /\ \A s, status : PlanOn(bill, s, status) = 0
  BY <1>1, <1>3, <1>4, SettingTypes, NothingCounts
<1>8. BooksKept(sub, bill)
  <2>1. ASSUME NEW s \in Subs
        PROVE  /\ sub[s].used = 0 /\ sub[s].reserved = 0 /\ sub[s].given = 0
               /\ sub[s].quota \in Nat
    <3>1. sub[s] \in Sub
      BY <1>6 DEF TypeOK
    <3>2. QED
      BY <1>1, <3>1, OpeningsAssumption DEF Sub
  <2>2. QED
    BY <1>7, <2>1 DEF BooksKept
<1>9. BillsKept(setting, bill)
  BY <1>3 DEF BillsKept, Honest
<1>10. Alone(setting, txn) /\ AllKnow(setting, bill, day, txn)
  BY <1>5, IdleType DEF Alone, AllKnow, Knows
<1>11. DailyKept(setting, bill)
  <2>1. ASSUME NEW k \in Users \cup Keys, setting.daily[k] # None
        PROVE  0 <= setting.daily[k]
    BY <1>1, <2>1, SettingTypes DEF Rule, Amount
  <2>2. QED
    BY <1>7, <2>1 DEF DailyKept
<1>12. MembersKept(setting, bill, day)
  <2>1. ASSUME NEW u \in Users
        PROVE  /\ setting.memberDaily[u] # None => 0 <= setting.memberDaily[u]
               /\ setting.memberMonthly[u] # None => 0 <= setting.memberMonthly[u]
    BY <1>1, SettingTypes DEF Rule, Amount
  <2>2. QED
    BY <1>7, <2>1 DEF MembersKept
<1>13. QED
  BY <1>6, <1>8, <1>9, <1>10, <1>11, <1>12 DEF IInv

-----------------------------------------------------------------------------
(* A read changes what one transaction knows.                                *)

LEMMA TypesOf ==
  ASSUME TypeOK
  PROVE  /\ setting \in Settings /\ bill \in Bills /\ day \in Nat
         /\ \A t \in Txns : txn[t] \in Txn
         /\ \A s \in Subs : sub[s] \in Sub
         /\ \A r \in Requests : bill[r] \in Bill
BY DEF TypeOK, Bills

LEMMA ReadKeeps ==
  ASSUME IInv, NEW t \in Txns, NEW y \in Txn, txn' = [txn EXCEPT ![t] = y],
         UNCHANGED <<sub, bound, seat, bill, day, setting>>,
         Knows(setting, bill, day, y),
         y.locked => /\ y.request # None /\ y.request = txn[t].request
                     /\ \/ txn[t].locked
                        \/ \A o \in Txns : txn[o].locked => Of(o).user # Of(t).user
  PROVE  IInv'
<1>1. TypeOK /\ txn \in [Txns -> Txn]
  BY DEF IInv, TypeOK
<1>2. txn' \in [Txns -> Txn] /\ txn'[t] = y /\ \A o \in Txns \ {t} : txn'[o] = txn[o]
  BY <1>1
<1>3. TypeOK'
  BY <1>1, <1>2 DEF TypeOK
<1>4. AllKnow(setting, bill, day, txn')
  BY <1>2 DEF IInv, AllKnow
<1>5. Alone(setting, txn')
  <2>1. \A o \in Txns : Of(o) = setting.call[txn[o].request]
    BY DEF Of, Call
  <2>2. \A p, o \in Txns :
          /\ txn[p].locked => txn[p].request # None
          /\ (p # o /\ txn[p].locked /\ txn[o].locked) =>
               setting.call[txn[p].request].user # setting.call[txn[o].request].user
    BY DEF IInv, Alone
  <2>3. ASSUME NEW p \in Txns, NEW o \in Txns
        PROVE  /\ txn'[p].locked => txn'[p].request # None
               /\ (p # o /\ txn'[p].locked /\ txn'[o].locked) =>
                    setting.call[txn'[p].request].user # setting.call[txn'[o].request].user
    <3>1. CASE p # t /\ o # t
      BY <1>2, <2>2, <3>1
    <3>2. CASE p = t /\ o # t
      BY <1>2, <2>1, <2>2, <3>2
    <3>3. CASE p # t /\ o = t
      BY <1>2, <2>1, <2>2, <3>3
    <3>4. CASE p = t /\ o = t
      BY <1>2, <3>4
    <3>5. QED
      BY <3>1, <3>2, <3>3, <3>4
  <2>4. QED
    BY <2>3 DEF Alone
<1>6. QED
  BY <1>3, <1>4, <1>5 DEF IInv

\* A transaction that ends knows nothing and has no lock.
LEMMA EndKeeps ==
  ASSUME IInv, NEW t \in Txns, End(t), UNCHANGED <<sub, bound, seat, bill, day, setting>>
  PROVE  IInv'
<1>1. Knows(setting, bill, day, Idle)
  BY IdleType DEF Knows
<1>2. txn' = [txn EXCEPT ![t] = Idle]
  BY DEF End
<1>3. QED
  BY <1>1, <1>2, IdleType, ReadKeeps

LEMMA BeginKeeps ==
  ASSUME IInv, NEW t \in Txns, NEW r \in Requests, Begin(t, r)
  PROVE  IInv'
<1>1. PICK y : y = [Idle EXCEPT !.request = r, !.since = day,
                               !.todo = <<<<"resolve", None>>>>]
  OBVIOUS
<1>2. day \in Nat
  BY TypesOf DEF IInv
<1>3. <<<<"resolve", None>>>> \in Seq(Read)
  BY ReadsInRead
<1>4. y \in Txn /\ ~y.locked /\ y.since = day /\ y.todo = Resolving
  BY <1>1, <1>2, <1>3 DEF Txn, Idle, Seat, Resolving
<1>5. Knows(setting, bill, day, y)
  BY <1>2, <1>4 DEF Knows
<1>6. /\ txn' = [txn EXCEPT ![t] = y]
      /\ UNCHANGED <<sub, bound, seat, bill, day, setting>>
  BY <1>1 DEF Begin, Goes
<1>7. QED
  BY <1>4, <1>5, <1>6, ReadKeeps

\* What holds of a transaction at one of its reads.
AtRead(t, x, name, k) ==
  /\ x \in Txn /\ x.request # None /\ x.request \in Requests
  /\ x.todo \in Seq(Read) /\ x.todo # <<>> /\ x.todo[1] = <<name, k>>
  /\ Rest(t) = Tail(x.todo) /\ Tail(x.todo) \in Seq(Read)
  /\ Knows(setting, bill, day, x) /\ Of(t) = Asker(setting, x)
  /\ Of(t) \in Ask /\ Of(t).user \in Users /\ Of(t).key \in Keys
  /\ setting \in Settings /\ bill \in Bills /\ day \in Nat
  /\ UNCHANGED <<sub, bound, seat, bill, day, setting>>
  /\ Asker(setting, x) = setting.call[x.request] /\ setting.call \in Asks

LEMMA Reading ==
  ASSUME IInv, NEW t \in Txns, NEW name, NEW k, At(t, name, k), NEW x, x = txn[t]
  PROVE  AtRead(t, x, name, k)
<1>1. /\ setting \in Settings /\ bill \in Bills /\ day \in Nat
      /\ x \in Txn /\ Knows(setting, bill, day, x)
  BY TypesOf DEF IInv, AllKnow
<1>2. x.todo \in Seq(Read) /\ x.request \in Requests \cup {None}
  BY <1>1 DEF Txn
<1>3. x.request # None /\ x.todo # <<>> /\ Head(x.todo) = <<name, k>>
  BY DEF At
<1>4. Of(t) = Asker(setting, x) /\ Rest(t) = Tail(x.todo)
      /\ Asker(setting, x) = setting.call[x.request]
  BY DEF Of, Call, Asker, Rest
<1>5. x.todo[1] = <<name, k>> /\ Tail(x.todo) \in Seq(Read)
  BY <1>2, <1>3, TailAt
<1>6. UNCHANGED <<sub, bound, seat, bill, day, setting>>
  BY DEF At
<1>7. QED
  BY <1>1, <1>2, <1>3, <1>4, <1>5, <1>6, SettingTypes DEF AtRead

\* At most the lock stays with the transaction.
LEMMA GoesKeeps ==
  ASSUME IInv, NEW t \in Txns, NEW y \in Txn, Goes(t, y), y.request # None,
         y.request = txn[t].request, y.locked = txn[t].locked,
         UNCHANGED <<sub, bound, seat, bill, day, setting>>,
         Knows(setting, bill, day, y)
  PROVE  IInv'
<1>1. txn' = [txn EXCEPT ![t] = y]
  BY DEF Goes
<1>2. QED
  BY <1>1, ReadKeeps

LEMMA ResolveKeeps ==
  ASSUME IInv, NEW t \in Txns, Resolve(t)
  PROVE  IInv'
<1>1. PICK x : x = txn[t]
  OBVIOUS
<1>2. At(t, "resolve", None)
  BY DEF Resolve
<1>0. AtRead(t, x, "resolve", None)
  BY <1>1, <1>2, Reading
<1>3. PICK s : s = bound[Of(t).key]
  OBVIOUS
<1>4. PICK q : q = Reads(Of(t), s)
  OBVIOUS
<1>5. PICK y : y = [x EXCEPT !.sub = s, !.todo = q]
  OBVIOUS
<1>6. s \in Subs \cup {None}
  BY <1>0, <1>3 DEF AtRead, IInv, TypeOK
<1>7. /\ q \in Seq(Read)
      /\ \A i \in DOMAIN q :
           /\ q[i][1] \in {"lock", "bill", "spent", "exposure", "snapshot"}
           /\ q[i][1] = "lock" => i = 1 /\ q[i][2] = Of(t).user
           /\ q[i][1] = "snapshot" => i = Len(q) /\ q[i][2] = s
      /\ (Limited(Of(t).user) \/ Limited(Of(t).key)) =>
           q # <<>> /\ q[1] = <<"lock", Of(t).user>>
      /\ \A k \in {Of(t).user, Of(t).key} : Limited(k) => Has(q, <<"exposure", k>>)
      /\ s # None /\ Of(t).need > 0 => Has(q, <<"snapshot", s>>)
  <2>1. Of(t) \in Ask
    BY <1>0 DEF AtRead
  <2>2. QED
    BY <1>4, <1>6, <2>1, ReadsAre
<1>8. /\ x \in Txn /\ x.request # None /\ Knows(setting, bill, day, x)
      /\ Of(t) = Asker(setting, x)
  BY <1>0 DEF AtRead
<1>9. /\ y \in Txn /\ y.request = x.request /\ y.since = x.since /\ y.locked = x.locked
      /\ y.sub = s /\ y.todo = q
  BY <1>5, <1>6, <1>7, <1>8 DEF Txn
<1>10. Asker(setting, y) = Of(t)
  BY <1>8, <1>9 DEF Asker
<1>11. Knows(setting, bill, day, y)
  <2>1. \A k : Limited(k) <=> setting.daily[k] # None
    BY DEF Limited, DailyLimit
  <2>2. x.since <= day
    BY <1>8 DEF Knows
  <2>3. Ordered(setting, y)
    BY <1>7, <1>9, <1>10, <2>1 DEF Ordered, Serial, Due
  <2>4. KeepsDaily(setting, bill, y)
    BY <1>7, <1>9, <1>10, <2>1 DEF KeepsDaily
  <2>5. KeepsMember(setting, bill, y)
    <3>1. SUFFICES ASSUME s # None, Of(t).need > 0 PROVE BeforeSnapshot(y)
      BY <1>9, <1>10 DEF KeepsMember, Restricted
    <3>2. \A i \in DOMAIN q : q[i][1] \notin OfMembers
      BY <1>7 DEF OfMembers
    <3>3. QED
      BY <1>7, <1>9, <3>1, <3>2 DEF BeforeSnapshot
  <2>6. QED
    BY <1>9, <2>2, <2>3, <2>4, <2>5 DEF Knows
<1>12. Goes(t, y)
  BY <1>1, <1>3, <1>4, <1>5 DEF Resolve
<1>13. QED
  BY <1>0, <1>1, <1>8, <1>9, <1>11, <1>12, GoesKeeps DEF AtRead

LEMMA LockKeeps ==
  ASSUME IInv, NEW t \in Txns, Lock(t)
  PROVE  IInv'
<1>1. PICK u \in Users : /\ At(t, "lock", u)
                         /\ \A o \in Txns : txn[o].locked => Of(o).user # u
                         /\ Goes(t, [txn[t] EXCEPT !.locked = TRUE, !.todo = Rest(t)])
  BY DEF Lock
<1>0. At(t, "lock", u)
  BY <1>1
<1>2. PICK x : x = txn[t]
  OBVIOUS
<1>3. PICK y : y = [x EXCEPT !.locked = TRUE, !.todo = Tail(x.todo)]
  OBVIOUS
<1>4. /\ x \in Txn /\ x.request # None /\ x.todo \in Seq(Read) /\ x.todo # <<>>
      /\ x.todo[1] = <<"lock", u>> /\ Rest(t) = Tail(x.todo) /\ Tail(x.todo) \in Seq(Read)
      /\ Knows(setting, bill, day, x) /\ Of(t) = Asker(setting, x)
      /\ setting \in Settings /\ bill \in Bills /\ day \in Nat
      /\ UNCHANGED <<sub, bound, seat, bill, day, setting>>
  <2>1. AtRead(t, x, "lock", u)
    BY <1>0, <1>2, Reading
  <2>2. QED
    BY <2>1 DEF AtRead
<1>5. /\ y \in Txn /\ y.request = x.request /\ y.since = x.since /\ y.locked
      /\ y.sub = x.sub /\ y.todo = Tail(x.todo)
  BY <1>3, <1>4 DEF Txn
<1>6. x.todo[1][1] = "lock" /\ \A k : x.todo[1] # <<"exposure", k>>
  BY <1>4
<1>7. Knows(setting, bill, day, y)
  BY <1>4, <1>5, <1>6, EarlyRead
<1>8. u = Of(t).user
  <2>1. x.todo # Resolving
    BY <1>4 DEF Resolving
  <2>2. Ordered(setting, x)
    BY <1>4, <2>1 DEF Knows
  <2>3. 1 \in DOMAIN x.todo
    BY <1>4, TailAt
  <2>4. x.todo[1][2] = Asker(setting, x).user
    BY <1>6, <2>2, <2>3 DEF Ordered
  <2>5. QED
    BY <1>4, <2>4
<1>9. txn' = [txn EXCEPT ![t] = y]
  BY <1>1, <1>2, <1>3, <1>4 DEF Goes
<1>10. QED
  BY <1>1, <1>2, <1>4, <1>5, <1>7, <1>8, <1>9, ReadKeeps

LEMMA RereadKeeps ==
  ASSUME IInv, NEW t \in Txns, Reread(t)
  PROVE  IInv'
<1>1. At(t, "bill", None)
  BY DEF Reread
<1>2. PICK x : x = txn[t]
  OBVIOUS
<1>3. PICK y : y = [x EXCEPT !.todo = Tail(x.todo)]
  OBVIOUS
<1>4. /\ x \in Txn /\ x.request # None /\ x.todo \in Seq(Read) /\ x.todo # <<>>
      /\ x.todo[1] = <<"bill", None>> /\ Rest(t) = Tail(x.todo)
      /\ Tail(x.todo) \in Seq(Read) /\ Knows(setting, bill, day, x)
      /\ setting \in Settings /\ bill \in Bills /\ day \in Nat
      /\ UNCHANGED <<sub, bound, seat, bill, day, setting>>
  <2>1. AtRead(t, x, "bill", None)
    BY <1>1, <1>2, Reading
  <2>2. QED
    BY <2>1 DEF AtRead
<1>5. CASE End(t)
  BY <1>4, <1>5, EndKeeps
<1>6. CASE Goes(t, y)
  <2>1. /\ y \in Txn /\ y.request = x.request /\ y.since = x.since
        /\ y.locked = x.locked /\ y.sub = x.sub /\ y.todo = Tail(x.todo)
    BY <1>3, <1>4 DEF Txn
  <2>2. x.todo[1][1] = "bill" /\ \A k : x.todo[1] # <<"exposure", k>>
    BY <1>4
  <2>3. Knows(setting, bill, day, y)
    BY <1>4, <2>1, <2>2, EarlyRead
  <2>4. QED
    BY <1>2, <1>4, <1>6, <2>1, <2>3, GoesKeeps
<1>7. QED
  BY <1>2, <1>3, <1>4, <1>5, <1>6 DEF Reread

LEMMA ReadSpentKeeps ==
  ASSUME IInv, NEW t \in Txns, ReadSpent(t)
  PROVE  IInv'
<1>1. PICK k \in Users \cup Keys :
        /\ At(t, "spent", k)
        /\ Goes(t, [txn[t] EXCEPT !.sum = Spent(InScope(k), txn[t].since), !.todo = Rest(t)])
  BY DEF ReadSpent
<1>0. At(t, "spent", k)
  BY <1>1
<1>2. PICK x : x = txn[t]
  OBVIOUS
<1>3. PICK n : n = Spent(InScope(k), txn[t].since)
  OBVIOUS
<1>4. PICK y : y = [x EXCEPT !.sum = n, !.todo = Tail(x.todo)]
  OBVIOUS
<1>5. /\ x \in Txn /\ x.request # None /\ x.todo \in Seq(Read) /\ x.todo # <<>>
      /\ x.todo[1] = <<"spent", k>> /\ Rest(t) = Tail(x.todo)
      /\ Tail(x.todo) \in Seq(Read) /\ Knows(setting, bill, day, x)
      /\ setting \in Settings /\ bill \in Bills /\ day \in Nat
      /\ UNCHANGED <<sub, bound, seat, bill, day, setting>>
  <2>1. AtRead(t, x, "spent", k)
    BY <1>0, <1>2, Reading
  <2>2. QED
    BY <2>1 DEF AtRead
<1>6. n \in Nat
  <2> DEFINE f == [r \in Requests |-> bill[r].amount]
             R == {r \in InScope(k) : bill[r].status = "settled" /\ bill[r].day >= txn[t].since}
  <2>1. \A r \in R : f[r] \in Nat
    BY <1>5 DEF Bills, Bill, InScope
  <2>2. R \subseteq Requests
    BY DEF InScope
  <2>3. n = SumFunctionOnSet(f, R)
    BY <1>3 DEF Spent
  <2> HIDE DEF f, R
  <2>4. IsFiniteSet(R)
    BY <2>2, FiniteAssumption, FS_Subset
  <2>5. SumFunctionOnSet(f, R) \in Nat
    BY <2>1, <2>4, SumOnSetIsTotal, TotalNat
  <2>6. QED
    BY <2>3, <2>5
<1>7. /\ y \in Txn /\ y.request = x.request /\ y.since = x.since
      /\ y.locked = x.locked /\ y.sub = x.sub /\ y.todo = Tail(x.todo)
  BY <1>4, <1>5, <1>6 DEF Txn
<1>8. x.todo[1][1] = "spent" /\ \A e : x.todo[1] # <<"exposure", e>>
  BY <1>5
<1>9. Knows(setting, bill, day, y)
  BY <1>5, <1>7, <1>8, EarlyRead
<1>10. Goes(t, y)
  BY <1>1, <1>2, <1>3, <1>4, <1>5
<1>11. QED
  BY <1>2, <1>5, <1>7, <1>9, <1>10, GoesKeeps

LEMMA InFlightHere ==
  ASSUME bill \in Bills, setting \in Settings, NEW R, R \subseteq Requests
  PROVE  InFlight(R) = Flight(bill, setting.call, R)
<1>1. setting.call \in Asks
  BY SettingTypes
<1>2. QED
  BY <1>1, InFlightIs DEF InFlight, Call

LEMMA ReadExposureKeeps ==
  ASSUME IInv, NEW t \in Txns, ReadExposure(t)
  PROVE  IInv'
<1>1. PICK k \in Users \cup Keys :
        /\ At(t, "exposure", k)
        /\ LET R == InScope(k) \ {txn[t].request} IN
           IF txn[t].sum + InFlight(R) + Of(t).est > DailyLimit[k] THEN End(t)
           ELSE Goes(t, [txn[t] EXCEPT !.sum = 0, !.todo = Rest(t)])
  BY DEF ReadExposure
<1>0. At(t, "exposure", k)
  BY <1>1
<1>2. PICK x : x = txn[t]
  OBVIOUS
<1>3. PICK y : y = [x EXCEPT !.sum = 0, !.todo = Tail(x.todo)]
  OBVIOUS
<1>4. /\ x \in Txn /\ x.request # None /\ x.todo \in Seq(Read) /\ x.todo # <<>>
      /\ x.todo[1] = <<"exposure", k>> /\ Rest(t) = Tail(x.todo)
      /\ Tail(x.todo) \in Seq(Read) /\ Knows(setting, bill, day, x)
      /\ setting \in Settings /\ bill \in Bills /\ day \in Nat
      /\ UNCHANGED <<sub, bound, seat, bill, day, setting>>
      /\ Of(t) = Asker(setting, x) /\ Of(t) \in Ask /\ x.request \in Requests
      /\ setting.call \in Asks
  <2>1. AtRead(t, x, "exposure", k)
    BY <1>0, <1>2, Reading
  <2>2. QED
    BY <2>1 DEF AtRead
<1>5. CASE End(t)
  BY <1>4, <1>5, EndKeeps
<1>6. CASE /\ ~(txn[t].sum + InFlight(InScope(k) \ {txn[t].request}) + Of(t).est > DailyLimit[k])
           /\ Goes(t, y)
  <2>1. /\ y \in Txn /\ y.request = x.request /\ y.since = x.since
        /\ y.locked = x.locked /\ y.sub = x.sub /\ y.todo = Tail(x.todo)
    BY <1>3, <1>4 DEF Txn
  <2>2. x.todo[1][1] = "exposure" /\ \A e : x.todo[1] = <<"exposure", e>> => e = k
    BY <1>4
  <2>3. InScope(k) = ScopeOf(setting, k) /\ InScope(k) \subseteq Requests
    BY DEF InScope, ScopeOf, Call
  <2>4. InFlight(InScope(k) \ {x.request})
          = Flight(bill, setting.call, ScopeOf(setting, k) \ {x.request})
    BY <1>4, <2>3, InFlightHere
  <2>5. ASSUME setting.daily[k] # None, x.locked
        PROVE  Fits(setting, bill, y, k)
    <3>1. SUFFICES ASSUME bill[x.request].status = "none"
                   PROVE  Flight(bill, setting.call, ScopeOf(setting, k))
                            + Asker(setting, x).est <= setting.daily[k]
      BY <2>1, <2>5 DEF Fits, Asker
    <3>2. Flight(bill, setting.call, ScopeOf(setting, k) \ {x.request})
            = Flight(bill, setting.call, ScopeOf(setting, k))
      <4>1. PICK S : S = ScopeOf(setting, k)
        OBVIOUS
      <4>2. /\ bill \in Bills /\ setting.call \in Asks /\ x.request \in Requests
            /\ bill[x.request].status = "none"
        BY <1>4, <3>1
      <4>3. Flight(bill, setting.call, S \ {x.request}) = Flight(bill, setting.call, S)
        BY <4>2, FlightWithout
      <4>4. QED
        BY <4>1, <4>3
    <3>3. Flight(bill, setting.call, ScopeOf(setting, k)) \in Nat
      BY <1>4, FlightType
    <3>4. x.sum \in Nat /\ Of(t).est \in Nat /\ setting.daily[k] \in Nat
      BY <1>4, <2>5, SettingTypes DEF Txn, Ask, Amount, Rule
    <3>5. ~(x.sum + Flight(bill, setting.call, ScopeOf(setting, k)) + Of(t).est > setting.daily[k])
      BY <1>2, <1>6, <2>4, <3>2 DEF DailyLimit
    <3>6. PICK n \in Nat : n = Flight(bill, setting.call, ScopeOf(setting, k))
      BY <3>3
    <3>7. n + Of(t).est <= setting.daily[k]
      <4>1. ~(x.sum + n + Of(t).est > setting.daily[k])
        BY <3>5, <3>6
      <4>2. QED
        BY <3>4, <4>1
    <3>8. Of(t) = Asker(setting, x)
      BY <1>4
    <3>9. QED
      BY <3>6, <3>7, <3>8
  <2>6. Knows(setting, bill, day, y)
    BY <1>4, <2>1, <2>2, <2>5, EarlyRead
  <2>7. QED
    BY <1>2, <1>4, <1>6, <2>1, <2>6, GoesKeeps
<1>7. QED
  BY <1>1, <1>2, <1>3, <1>4, <1>5, <1>6

LEMMA SnapshotKeeps ==
  ASSUME IInv, NEW t \in Txns, Snapshot(t)
  PROVE  IInv'
<1>1. PICK x : x = txn[t]
  OBVIOUS
<1>2. PICK s \in Subs :
        /\ At(t, "snapshot", s)
        /\ LET u == Of(t).user
               room == AtLeast0(Room(s)) IN
           IF sub[s].status # "active" \/ sub[s].over THEN End(t)
           ELSE IF u = Owner THEN
             Goes(t, [txn[t] EXCEPT !.room = room, !.todo = Rest(t)])
           ELSE IF sub[s].shared /\ MembershipSeen(u) THEN
             Goes(t, [txn[t] EXCEPT !.room = room, !.seat = seat[u],
                                    !.todo = MemberReads(u)])
           ELSE Goes(t, [Idle EXCEPT !.forbidden = TRUE,
                                     !.seat = IF sub[s].shared THEN seat[u] ELSE "none"])
  BY DEF Snapshot
<1>3. At(t, "snapshot", s)
  BY <1>2
<1>4. AtRead(t, x, "snapshot", s)
  BY <1>1, <1>3, Reading
<1>5. PICK u : u = Of(t).user
  OBVIOUS
<1>6. PICK room : room = AtLeast0(Room(s))
  OBVIOUS
<1>7. room \in Nat
  <2>1. sub[s] \in Sub
    BY TypesOf DEF IInv
  <2>2. Room(s) \in Int
    BY <2>1 DEF Room, Sub
  <2>3. QED
    BY <1>6, <2>2 DEF AtLeast0
<1>8. u \in Users /\ seat[u] \in Seat
  BY <1>4, <1>5 DEF AtRead, IInv, TypeOK
<1>9. UNCHANGED <<sub, bound, seat, bill, day, setting>>
  BY <1>4 DEF AtRead
<1>10. CASE End(t)
  BY <1>9, <1>10, EndKeeps
<1>11. CASE u = Owner /\ Goes(t, [x EXCEPT !.room = room, !.todo = Tail(x.todo)])
  <2>1. PICK y : y = [x EXCEPT !.room = room, !.todo = Tail(x.todo)]
    OBVIOUS
  <2>2. /\ y \in Txn /\ y.request = x.request /\ y.since = x.since
        /\ y.locked = x.locked /\ y.sub = x.sub /\ y.todo = Tail(x.todo)
    BY <1>4, <1>7, <2>1 DEF AtRead, Txn
  <2>3. x.todo[1][1] = "snapshot" /\ x.todo # <<>> /\ x.request # None
    BY <1>4 DEF AtRead
  <2>4. Asker(setting, x).user = Owner
    BY <1>4, <1>5, <1>11 DEF AtRead
  <2>5. setting \in Settings /\ day \in Nat /\ x \in Txn /\ Knows(setting, bill, day, x)
    BY <1>4 DEF AtRead
  <2>6. Knows(setting, bill, day, y)
    BY <2>2, <2>3, <2>4, <2>5, AfterSnapshot
  <2>7. QED
    BY <1>1, <1>9, <1>11, <2>1, <2>2, <2>3, <2>6, GoesKeeps
<1>12. CASE Goes(t, [x EXCEPT !.room = room, !.seat = seat[u], !.todo = MemberReads(u)])
  <2>1. PICK q : q = MemberReads(u)
    OBVIOUS
  <2>2. q \in Seq(Read)
    <3>1. /\ <<"membersExposure", u>> \in Read /\ <<"membersDay", u>> \in Read
          /\ <<"membersMonth", u>> \in Read
      BY <1>8, ReadsInRead
    <3>2. PICK p, d, m : /\ p = <<<<"membersExposure", u>>>>
                         /\ d = IF MemberDaily[u] = None THEN <<>> ELSE <<<<"membersDay", u>>>>
                         /\ m = IF MemberMonthly[u] = None THEN <<>> ELSE <<<<"membersMonth", u>>>>
      OBVIOUS
    <3>3. p \in Seq(Read) /\ d \in Seq(Read) /\ m \in Seq(Read)
      BY <3>1, <3>2
    <3>4. q = (p \o d) \o m
      BY <2>1, <3>2 DEF MemberReads
    <3>5. QED
      BY <3>3, <3>4
  <2>3. PICK y : y = [x EXCEPT !.room = room, !.seat = seat[u], !.todo = q]
    OBVIOUS
  <2>4. /\ y \in Txn /\ y.request = x.request /\ y.since = x.since
        /\ y.locked = x.locked /\ y.sub = x.sub /\ y.todo = q
    BY <1>4, <1>7, <1>8, <2>2, <2>3 DEF AtRead, Txn
  <2>5. Asker(setting, y) = Asker(setting, x) /\ Asker(setting, x).user = u
    BY <1>4, <1>5, <2>4 DEF AtRead, Asker
  <2>6. /\ x.todo[1][1] = "snapshot" /\ x.todo # <<>> /\ x.request # None
        /\ setting \in Settings /\ day \in Nat /\ x \in Txn /\ Knows(setting, bill, day, x)
        /\ x.request \in Requests
    BY <1>4 DEF AtRead
  <2>7. BeforeExposure(setting, y)
    BY <2>1, <2>4, <2>5, <2>6, MemberReadsAre
  <2>8. Knows(setting, bill, day, y)
    BY <2>4, <2>6, <2>7, AfterSnapshot
  <2>9. Goes(t, y)
    BY <1>12, <2>1, <2>3
  <2>10. QED
    BY <1>1, <1>9, <2>4, <2>6, <2>8, <2>9, GoesKeeps
<1>13. CASE Goes(t, [Idle EXCEPT !.forbidden = TRUE,
                               !.seat = IF sub[s].shared THEN seat[u] ELSE "none"])
  <2>1. PICK e : e = IF sub[s].shared THEN seat[u] ELSE "none"
    OBVIOUS
  <2>2. e \in Seat
    BY <1>8, <2>1 DEF Seat
  <2>3. PICK y : y = [Idle EXCEPT !.forbidden = TRUE, !.seat = e]
    OBVIOUS
  <2>4. y \in Txn /\ y.request = None /\ ~y.locked
    BY <2>2, <2>3, IdleType DEF Txn, Idle
  <2>5. Knows(setting, bill, day, y)
    BY <2>4 DEF Knows
  <2>6. txn' = [txn EXCEPT ![t] = y]
    BY <1>13, <2>1, <2>3 DEF Goes
  <2>7. QED
    BY <1>9, <2>4, <2>5, <2>6, ReadKeeps
<1>14. Rest(t) = Tail(x.todo)
  BY <1>4 DEF AtRead
<1>15. \/ End(t)
       \/ u = Owner /\ Goes(t, [x EXCEPT !.room = room, !.todo = Tail(x.todo)])
       \/ Goes(t, [x EXCEPT !.room = room, !.seat = seat[u], !.todo = MemberReads(u)])
       \/ Goes(t, [Idle EXCEPT !.forbidden = TRUE,
                               !.seat = IF sub[s].shared THEN seat[u] ELSE "none"])
  BY <1>1, <1>2, <1>5, <1>6, <1>14
<1>16. QED
  BY <1>10, <1>11, <1>12, <1>13, <1>15

LEMMA MembersExposureKeeps ==
  ASSUME IInv, NEW t \in Txns, MembersExposure(t)
  PROVE  IInv'
<1>1. PICK x : x = txn[t]
  OBVIOUS
<1>2. PICK u \in Users :
        /\ At(t, "membersExposure", u)
        /\ Goes(t, [txn[t] EXCEPT
                      !.sum = InFlight(OfMember(u, txn[t].sub) \ {txn[t].request}),
                      !.todo = Rest(t)])
  BY DEF MembersExposure
<1>3. At(t, "membersExposure", u)
  BY <1>2
<1>4. AtRead(t, x, "membersExposure", u)
  BY <1>1, <1>3, Reading
<1>5. PICK n : n = InFlight(OfMember(u, x.sub) \ {x.request})
  OBVIOUS
<1>6. /\ OfMember(u, x.sub) \subseteq Requests
      /\ OfMember(u, x.sub) = {q \in Requests : setting.call[q].user = u /\ bill[q].sub = x.sub}
  BY DEF OfMember, Call
<1>7. n = Flight(bill, setting.call, OfMember(u, x.sub) \ {x.request}) /\ n \in Nat
  <2>1. bill \in Bills /\ setting \in Settings /\ setting.call \in Asks
    BY <1>4 DEF AtRead
  <2>2. OfMember(u, x.sub) \ {x.request} \subseteq Requests
    BY <1>6
  <2>3. QED
    BY <1>5, <2>1, <2>2, InFlightHere, FlightType
<1>8. PICK y : y = [x EXCEPT !.sum = n, !.todo = Tail(x.todo)]
  OBVIOUS
<1>9. /\ y \in Txn /\ y.request = x.request /\ y.since = x.since
      /\ y.locked = x.locked /\ y.sub = x.sub /\ y.todo = Tail(x.todo) /\ y.sum = n
  BY <1>4, <1>7, <1>8 DEF AtRead, Txn
<1>10. /\ setting \in Settings /\ bill \in Bills /\ day \in Nat /\ x \in Txn
       /\ Knows(setting, bill, day, x) /\ x.request # None /\ x.todo # <<>>
       /\ Rest(t) = Tail(x.todo) /\ x.todo[1] = <<"membersExposure", u>>
       /\ UNCHANGED <<sub, bound, seat, bill, day, setting>>
  BY <1>4 DEF AtRead
<1>11. Honest(bill, setting.call)
  BY DEF IInv, BillsKept
<1>12. y.sum = Flight(bill, setting.call,
                      {q \in Requests : setting.call[q].user = u /\ bill[q].sub = x.sub}
                        \ {x.request})
  BY <1>6, <1>7, <1>9
<1>13. Knows(setting, bill, day, y)
  BY <1>9, <1>10, <1>11, <1>12, AfterMembersExposure
<1>14. Goes(t, y)
  BY <1>1, <1>2, <1>5, <1>8, <1>10
<1>15. QED
  BY <1>1, <1>9, <1>10, <1>13, <1>14, GoesKeeps

\* What is spent on the subscription is what the limit is read against.
LEMMA UnspentIs ==
  ASSUME bill \in Bills, setting \in Settings, setting.call \in Asks,
         NEW t \in Txns, NEW x, x = txn[t], Of(t) = Asker(setting, x), NEW l, NEW e
  PROVE  Unspent(t, l, e)
           = AtLeast0(l - SpentOn(bill, setting.call, Asker(setting, x).user, x.sub, e))
<1>1. PICK u : u = Asker(setting, x).user
  OBVIOUS
<1>2. SumFunctionOnSet([r \in Requests |-> bill[r].amount],
        {r \in {q \in {p \in Requests : setting.call[p].user = u /\ bill[p].sub = x.sub} :
                    bill[q].plan > 0} :
           bill[r].status = "settled" /\ bill[r].day >= e})
        = SpentOn(bill, setting.call, u, x.sub, e)
  BY SpentIs
<1>3. Spent(Logged(u, x.sub), e) = SpentOn(bill, setting.call, u, x.sub, e)
  BY <1>2 DEF Spent, Logged, OfMember, Call
<1>4. QED
  BY <1>1, <1>3 DEF Unspent

\* The rest of a limit l, as it is counted from the day e.
LEMMA RestIsRoomy ==
  ASSUME NEW g \in Settings, NEW b \in Bills, NEW x \in Txn, NEW y \in Txn,
         NEW l \in Nat, NEW e, Counted(g, b, x, e), y.limit # None,
         y.request = x.request, y.sub = x.sub, y.sum = x.sum,
         y.limit <= AtLeast0(l - SpentOn(b, g.call, Asker(g, x).user, x.sub, e))
  PROVE  Roomy(g, b, y, l, e)
<1>1. PICK u : u = Asker(g, x).user
  OBVIOUS
<1>2. Asker(g, y) = Asker(g, x)
  BY DEF Asker
<1>3. SUFFICES ASSUME b[x.request].status = "none", y.limit > 0
               PROVE  ShareOn(b, g.call, u, x.sub, e) + y.limit <= x.sum + l
  BY <1>1, <1>2 DEF Roomy
<1>4. ShareOn(b, g.call, u, x.sub, e) <= x.sum + SpentOn(b, g.call, u, x.sub, e)
  BY <1>1, <1>3 DEF Counted
<1>5. /\ ShareOn(b, g.call, u, x.sub, e) \in Nat
      /\ SpentOn(b, g.call, u, x.sub, e) \in Nat
  BY SettingTypes, ShareType, SpentType
<1>6. y.limit \in Nat /\ x.sum \in Nat
  BY DEF Txn
<1>7. y.limit <= l - SpentOn(b, g.call, u, x.sub, e)
  BY <1>1, <1>3, <1>5, <1>6 DEF AtLeast0
<1>8. QED
  BY <1>4, <1>5, <1>6, <1>7

\* The limit that a read of a member leaves, n being what it found.
Narrowed(x, y, n) ==
  /\ y \in Txn /\ y.request = x.request /\ y.since = x.since
  /\ y.locked = x.locked /\ y.sub = x.sub /\ y.todo = Tail(x.todo)
  /\ y.sum = x.sum /\ y.limit # None /\ y.limit <= n
  /\ x.limit # None => y.limit <= x.limit
LEMMA WithinIs ==
  ASSUME NEW x \in Txn, NEW n \in Nat, NEW y, Tail(x.todo) \in Seq(Read),
         y = [x EXCEPT !.limit = IF @ = None THEN n ELSE Least(@, n), !.todo = Tail(x.todo)]
  PROVE  Narrowed(x, y, n)
<1>1. x.limit \in Nat \cup {None} /\ None \notin Nat
  BY NamesAssumption DEF Txn
<1>2. PICK m : m = IF x.limit = None THEN n ELSE Least(x.limit, n)
  OBVIOUS
<1>3. m \in Nat /\ m # None /\ m <= n /\ (x.limit # None => m <= x.limit)
  BY <1>1, <1>2 DEF Least
<1>4. PICK q \in Seq(Read) : q = Tail(x.todo)
  OBVIOUS
<1>5. y = [x EXCEPT !.limit = m, !.todo = q]
  BY <1>2, <1>4 DEF Txn
<1>6. y \in Txn
  BY <1>3, <1>5 DEF Txn
<1>7. /\ y.request = x.request /\ y.since = x.since /\ y.locked = x.locked
      /\ y.sub = x.sub /\ y.todo = q /\ y.sum = x.sum /\ y.limit = m
  BY <1>5 DEF Txn
<1>8. QED
  BY <1>3, <1>4, <1>6, <1>7 DEF Narrowed

LEMMA FirstIsDue ==
  ASSUME NEW g, NEW b, NEW d, NEW x, x.todo \in Seq(Read), x.todo # <<>>,
         Knows(g, b, d, x), x.request # None, NEW name, NEW k,
         x.todo[1] = <<name, k>>, name # "resolve"
  PROVE  Due(g, <<name, k>>)
<1>1. 1 \in DOMAIN x.todo /\ x.todo # Resolving
  BY TailAt DEF Resolving
<1>2. QED
  BY <1>1 DEF Knows, Ordered

LEMMA MembersDayKeeps ==
  ASSUME IInv, NEW t \in Txns, MembersDay(t)
  PROVE  IInv'
<1>1. PICK x : x = txn[t]
  OBVIOUS
<1>2. PICK w \in Users :
        /\ At(t, "membersDay", w)
        /\ Within(t, Unspent(t, MemberDaily[w], txn[t].since))
  BY DEF MembersDay
<1>3. At(t, "membersDay", w)
  BY <1>2
<1>4. AtRead(t, x, "membersDay", w)
  BY <1>1, <1>3, Reading
<1>5. PICK n : n = Unspent(t, MemberDaily[w], x.since)
  OBVIOUS
<1>6. PICK y : y = [x EXCEPT !.limit = IF @ = None THEN n ELSE Least(@, n),
                           !.todo = Tail(x.todo)]
  OBVIOUS
<1>7. /\ setting \in Settings /\ bill \in Bills /\ day \in Nat /\ x \in Txn
      /\ setting.call \in Asks /\ Of(t) = Asker(setting, x) /\ x.todo \in Seq(Read)
      /\ Knows(setting, bill, day, x) /\ x.request # None /\ x.todo # <<>>
      /\ Rest(t) = Tail(x.todo) /\ x.todo[1] = <<"membersDay", w>>
      /\ Tail(x.todo) \in Seq(Read)
      /\ UNCHANGED <<sub, bound, seat, bill, day, setting>>
  BY <1>4 DEF AtRead
<1>8. PICK u : u = Asker(setting, x).user
  OBVIOUS
<1>9. n = AtLeast0(MemberDaily[w] - SpentOn(bill, setting.call, u, x.sub, x.since))
  BY <1>1, <1>5, <1>7, <1>8, UnspentIs
<1>10. setting.memberDaily[w] \in Nat
  BY <1>2, <1>7, FirstIsDue, SettingTypes DEF Rule, Amount, Due
<1>11. n \in Nat
  BY <1>7, <1>9, <1>10, SpentType DEF AtLeast0, MemberDaily
<1>12. /\ y \in Txn /\ y.request = x.request /\ y.since = x.since
       /\ y.locked = x.locked /\ y.sub = x.sub /\ y.todo = Tail(x.todo)
       /\ y.sum = x.sum /\ y.limit # None /\ y.limit <= n
       /\ x.limit # None => y.limit <= x.limit
  <2>1. Narrowed(x, y, n)
    BY <1>6, <1>7, <1>11, WithinIs
  <2>2. QED
    BY <2>1 DEF Narrowed
<1>13. ASSUME x.todo[1] = <<"membersDay", u>>, Counted(setting, bill, x, x.since)
       PROVE  Roomy(setting, bill, y, setting.memberDaily[u], x.since)
  <2>1. w = u
    BY <1>7, <1>13
  <2>2. y.limit <= AtLeast0(setting.memberDaily[u]
                     - SpentOn(bill, setting.call, Asker(setting, x).user, x.sub, x.since))
    BY <1>8, <1>9, <1>12, <2>1 DEF MemberDaily
  <2>3. QED
    BY <1>7, <1>10, <1>12, <1>13, <2>1, <2>2, RestIsRoomy
<1>14. x.todo[1] # <<"membersMonth", u>>
  BY <1>7
<1>15. Knows(setting, bill, day, y)
  BY <1>7, <1>8, <1>12, <1>13, <1>14, AfterLimit
<1>16. Goes(t, y)
  BY <1>1, <1>2, <1>5, <1>6, <1>7 DEF Within
<1>17. QED
  BY <1>1, <1>7, <1>12, <1>15, <1>16, GoesKeeps

LEMMA MembersMonthKeeps ==
  ASSUME IInv, NEW t \in Txns, MembersMonth(t)
  PROVE  IInv'
<1>1. PICK x : x = txn[t]
  OBVIOUS
<1>2. PICK w \in Users :
        At(t, "membersMonth", w) /\ Within(t, Unspent(t, MemberMonthly[w], 0))
  BY DEF MembersMonth
<1>3. At(t, "membersMonth", w)
  BY <1>2
<1>4. AtRead(t, x, "membersMonth", w)
  BY <1>1, <1>3, Reading
<1>5. PICK n : n = Unspent(t, MemberMonthly[w], 0)
  OBVIOUS
<1>6. PICK y : y = [x EXCEPT !.limit = IF @ = None THEN n ELSE Least(@, n),
                           !.todo = Tail(x.todo)]
  OBVIOUS
<1>7. /\ setting \in Settings /\ bill \in Bills /\ day \in Nat /\ x \in Txn
      /\ setting.call \in Asks /\ Of(t) = Asker(setting, x) /\ x.todo \in Seq(Read)
      /\ Knows(setting, bill, day, x) /\ x.request # None /\ x.todo # <<>>
      /\ Rest(t) = Tail(x.todo) /\ x.todo[1] = <<"membersMonth", w>>
      /\ Tail(x.todo) \in Seq(Read)
      /\ UNCHANGED <<sub, bound, seat, bill, day, setting>>
  BY <1>4 DEF AtRead
<1>8. PICK u : u = Asker(setting, x).user
  OBVIOUS
<1>9. n = AtLeast0(MemberMonthly[w] - SpentOn(bill, setting.call, u, x.sub, 0))
  BY <1>1, <1>5, <1>7, <1>8, UnspentIs
<1>10. setting.memberMonthly[w] \in Nat
  BY <1>2, <1>7, FirstIsDue, SettingTypes DEF Rule, Amount, Due
<1>11. n \in Nat
  BY <1>7, <1>9, <1>10, SpentType DEF AtLeast0, MemberMonthly
<1>12. /\ y \in Txn /\ y.request = x.request /\ y.since = x.since
       /\ y.locked = x.locked /\ y.sub = x.sub /\ y.todo = Tail(x.todo)
       /\ y.sum = x.sum /\ y.limit # None /\ y.limit <= n
       /\ x.limit # None => y.limit <= x.limit
  <2>1. Narrowed(x, y, n)
    BY <1>6, <1>7, <1>11, WithinIs
  <2>2. QED
    BY <2>1 DEF Narrowed
<1>13. ASSUME x.todo[1] = <<"membersMonth", u>>, Counted(setting, bill, x, 0)
       PROVE  Roomy(setting, bill, y, setting.memberMonthly[u], 0)
  <2>1. w = u
    BY <1>7, <1>13
  <2>2. y.limit <= AtLeast0(setting.memberMonthly[u]
                     - SpentOn(bill, setting.call, Asker(setting, x).user, x.sub, 0))
    BY <1>8, <1>9, <1>12, <2>1 DEF MemberMonthly
  <2>3. QED
    BY <1>7, <1>10, <1>12, <1>13, <2>1, <2>2, RestIsRoomy
<1>14. x.todo[1] # <<"membersDay", u>>
  BY <1>7
<1>15. Knows(setting, bill, day, y)
  BY <1>7, <1>8, <1>12, <1>13, <1>14, AfterLimit
<1>16. Goes(t, y)
  BY <1>1, <1>2, <1>5, <1>6, <1>7 DEF Within
<1>17. QED
  BY <1>1, <1>7, <1>12, <1>15, <1>16, GoesKeeps
-----------------------------------------------------------------------------
(* The end of an authorization.                                              *)

\* All reads done, the request fits the limits of its user and key.
LEMMA DailyAfterGrant ==
  ASSUME NEW g \in Settings, NEW b \in Bills, NEW b2 \in Bills, NEW d \in Nat,
         NEW x \in Txn, Knows(g, b, d, x), x.request # None, x.todo = <<>>,
         Opens(b, b2, x.request), DailyKept(g, b)
  PROVE  DailyKept(g, b2)
<1>1. x.request \in Requests /\ x.todo # Resolving /\ g.call \in Asks
  BY SettingTypes DEF Txn, Resolving
<1>2. KeepsDaily(g, b, x)
  BY <1>1 DEF Knows
<1>3. SUFFICES ASSUME NEW k \in Users \cup Keys, g.daily[k] # None
               PROVE  Flight(b2, g.call, ScopeOf(g, k)) <= g.daily[k]
  BY DEF DailyKept
<1>4. PICK r : r = x.request
  OBVIOUS
<1>5. Flight(b2, g.call, ScopeOf(g, k))
        = Flight(b, g.call, ScopeOf(g, k)) + IF r \in ScopeOf(g, k) THEN g.call[r].est ELSE 0
  BY <1>1, <1>4, OpeningAdds
<1>6. /\ Flight(b, g.call, ScopeOf(g, k)) <= g.daily[k]
      /\ Flight(b, g.call, ScopeOf(g, k)) \in Nat
  BY <1>1, <1>3, FlightType DEF DailyKept
<1>7. CASE r \in ScopeOf(g, k)
  <2>1. k \in {Asker(g, x).user, Asker(g, x).key}
    BY <1>4, <1>7 DEF ScopeOf, Asker
  <2>2. ~Has(x.todo, <<"exposure", k>>)
    BY DEF Has
  <2>3. Fits(g, b, x, k)
    BY <1>2, <1>3, <2>1, <2>2 DEF KeepsDaily
  <2>4. Flight(b, g.call, ScopeOf(g, k)) + g.call[r].est <= g.daily[k]
    BY <1>4, <2>3 DEF Fits, Asker, Opens
  <2>5. QED
    BY <1>5, <1>7, <2>4
<1>8. CASE r \notin ScopeOf(g, k)
  BY <1>5, <1>6, <1>8
<1>9. QED
  BY <1>7, <1>8

LEMMA MembersAfterGrant ==
  ASSUME NEW g \in Settings, NEW b \in Bills, NEW b2 \in Bills, NEW d \in Nat,
         NEW x \in Txn, Knows(g, b, d, x), x.request # None, x.todo = <<>>,
         Opens(b, b2, x.request), b2[x.request].sub = x.sub,
         NEW m \in Nat, b2[x.request].plan = m, m <= Asker(g, x).need,
         m > 0 /\ x.limit # None => m <= AtLeast0(x.limit - x.sum),
         MembersKept(g, b, d)
  PROVE  MembersKept(g, b2, d)
<1>1. x.request \in Requests /\ g.call \in Asks
  BY SettingTypes DEF Txn
<1>2. PICK w : w = Asker(g, x).user
  OBVIOUS
<1>3. ASSUME NEW u, NEW s, NEW e
      PROVE  ShareOn(b2, g.call, u, s, e)
               = ShareOn(b, g.call, u, s, e) + IF w = u /\ x.sub = s THEN m ELSE 0
  BY <1>1, <1>2, OpeningAdds DEF Asker
<1>4. \A u, s, e : ShareOn(b, g.call, u, s, e) \in Nat
  BY <1>1, ShareType
<1>5. SUFFICES ASSUME NEW u \in Users \ {Owner}, NEW s \in Subs, AllSerial(g, u)
               PROVE  /\ g.memberDaily[u] # None =>
                           ShareOn(b2, g.call, u, s, d) <= g.memberDaily[u]
                      /\ g.memberMonthly[u] # None =>
                           ShareOn(b2, g.call, u, s, 0) <= g.memberMonthly[u]
  BY DEF MembersKept
<1>6. /\ g.memberDaily[u] # None => ShareOn(b, g.call, u, s, d) <= g.memberDaily[u]
      /\ g.memberMonthly[u] # None => ShareOn(b, g.call, u, s, 0) <= g.memberMonthly[u]
  BY <1>5 DEF MembersKept
<1>7. CASE w = u /\ x.sub = s /\ m > 0
  <2>1. Restricted(g, x)
    <3>1. Asker(g, x).need \in Nat
      BY <1>1, SettingTypes DEF Asker, Ask
    <3>2. Asker(g, x).need > 0
      BY <1>7, <3>1
    <3>3. QED
      BY <1>2, <1>5, <1>7, <3>2, NamesAssumption DEF Restricted
  <2>2. b[x.request].status = "none"
    BY DEF Opens
  <2>3. /\ g.memberDaily[w] # None => ShareOn(b, g.call, w, x.sub, d) + m <= g.memberDaily[w]
        /\ g.memberMonthly[w] # None =>
             ShareOn(b, g.call, w, x.sub, 0) + m <= g.memberMonthly[w]
    BY <1>2, <1>7, <2>1, <2>2, GrantFits
  <2>4. /\ ShareOn(b2, g.call, u, s, d) = ShareOn(b, g.call, u, s, d) + m
        /\ ShareOn(b2, g.call, u, s, 0) = ShareOn(b, g.call, u, s, 0) + m
    BY <1>3, <1>7
  <2>5. QED
    BY <1>7, <2>3, <2>4
<1>8. CASE ~(w = u /\ x.sub = s /\ m > 0)
  <2>1. \A e : ShareOn(b2, g.call, u, s, e) = ShareOn(b, g.call, u, s, e)
    <3>1. (IF w = u /\ x.sub = s THEN m ELSE 0) = 0
      BY <1>8
    <3>2. QED
      BY <1>3, <1>4, <3>1
  <2>2. QED
    BY <1>6, <2>1
<1>9. QED
  BY <1>7, <1>8

\* What is taken is within the room and the limits.
LEMMA TakeIs ==
  ASSUME NEW t \in Txns, NEW x \in Txn, x = txn[t], Of(t) \in Ask
  PROVE  /\ Take(t) \in Nat /\ Take(t) <= Of(t).need
         /\ Take(t) > 0 => x.sub \in Subs
         /\ Take(t) > 0 /\ x.limit # None => Take(t) <= AtLeast0(x.limit - x.sum)
<1>1. /\ x.room \in Nat /\ x.sum \in Nat /\ x.limit \in Nat \cup {None}
      /\ x.sub \in Subs \cup {None}
  BY DEF Txn
<1>2. Of(t).need \in Nat
  BY DEF Ask
<1>3. PICK a : a = Availability(t)
  OBVIOUS
<1>4. a \in Nat /\ (x.limit # None => a <= AtLeast0(x.limit - x.sum))
  <2>1. CASE x.limit = None
    BY <1>1, <1>3, <2>1 DEF Availability
  <2>2. CASE x.limit # None
    <3>1. PICK l : l = AtLeast0(x.limit - x.sum)
      OBVIOUS
    <3>2. l \in Nat
      BY <1>1, <2>2, <3>1 DEF AtLeast0
    <3>3. a = Least(x.room, l)
      BY <1>3, <2>2, <3>1 DEF Availability
    <3>4. QED
      BY <1>1, <3>1, <3>2, <3>3 DEF Least
  <2>3. QED
    BY <2>1, <2>2
<1>5. CASE x.sub = None
  BY <1>2, <1>5 DEF Take
<1>6. CASE x.sub # None
  <2>1. Take(t) = Least(a, Of(t).need)
    BY <1>3, <1>6 DEF Take
  <2>2. Take(t) \in Nat /\ Take(t) <= Of(t).need /\ Take(t) <= a
    BY <1>2, <1>4, <2>1 DEF Least
  <2>3. ASSUME x.limit # None PROVE Take(t) <= AtLeast0(x.limit - x.sum)
    <3>1. AtLeast0(x.limit - x.sum) \in Nat
      BY <1>1, <2>3 DEF AtLeast0
    <3>2. QED
      BY <1>4, <2>2, <2>3, <3>1
  <2>4. QED
    BY <1>1, <1>6, <2>2, <2>3
<1>7. QED
  BY <1>5, <1>6

\* The reservation and the bill, on the books.
LEMMA BooksAfterGrant ==
  ASSUME NEW b \in Bills, NEW b2 \in Bills, NEW r \in Requests, Opens(b, b2, r),
         TypeOK, BooksKept(sub, b), NEW s, b2[r].sub = s, NEW m \in Nat, b2[r].plan = m,
         m > 0 => s \in Subs /\ MayReserve(s, m),
         sub' = IF m = 0 THEN sub ELSE [sub EXCEPT ![s].reserved = @ + m]
  PROVE  sub' \in [Subs -> Sub] /\ BooksKept(sub', b2)
<1>1. sub \in [Subs -> Sub]
  BY DEF TypeOK
<1>2. ASSUME NEW e \in Subs
      PROVE  /\ PlanOn(b2, e, "open") = PlanOn(b, e, "open") + IF e = s THEN m ELSE 0
             /\ PlanOn(b2, e, "settled") = PlanOn(b, e, "settled")
  <2>1. /\ PlanTerm(b[r], e, "open") = 0 /\ PlanTerm(b[r], e, "settled") = 0
        /\ PlanTerm(b2[r], e, "open") = (IF e = s THEN m ELSE 0)
        /\ PlanTerm(b2[r], e, "settled") = 0
    BY DEF Opens, PlanTerm
  <2>2. \A q \in Requests \ {r} : b2[q] = b[q]
    BY DEF Opens
  <2>3. /\ PlanOn(b, e, "open") \in Nat /\ PlanOn(b, e, "settled") \in Nat
        /\ PlanOn(b2, e, "open") = PlanOn(b, e, "open") - PlanTerm(b[r], e, "open")
                                                        + PlanTerm(b2[r], e, "open")
        /\ PlanOn(b2, e, "settled") = PlanOn(b, e, "settled") - PlanTerm(b[r], e, "settled")
                                                              + PlanTerm(b2[r], e, "settled")
    BY <2>2, PlansChange
  <2>4. QED
    BY <2>1, <2>3
<1>3. CASE m = 0
  BY <1>1, <1>2, <1>3, PlanType DEF BooksKept
<1>4. CASE m > 0
  <2>1. s \in Subs /\ sub[s].status = "active" /\ sub[s].quota - sub[s].used - sub[s].reserved >= m
    BY <1>4 DEF MayReserve, HasRoom, Room
  <2>2. PICK v : v = [sub[s] EXCEPT !.reserved = sub[s].reserved + m]
    OBVIOUS
  <2>3. sub' = [sub EXCEPT ![s] = v]
    BY <1>4, <2>2
  <2>4. /\ v \in Sub /\ v.reserved = sub[s].reserved + m /\ v.used = sub[s].used
        /\ v.given = sub[s].given /\ v.quota = sub[s].quota /\ v.status = sub[s].status
    BY <1>1, <2>1, <2>2 DEF Sub
  <2>5. sub'[s] = v /\ \A e \in Subs \ {s} : sub'[e] = sub[e]
    BY <1>1, <2>1, <2>3
  <2>6. sub' \in [Subs -> Sub]
    BY <1>1, <2>3, <2>4
  <2>7. ASSUME NEW e \in Subs
        PROVE  /\ sub'[e].reserved = PlanOn(b2, e, "open")
               /\ sub'[e].used = PlanOn(b2, e, "settled")
               /\ sub'[e].given + sub'[e].used + sub'[e].reserved <= sub'[e].quota
               /\ sub'[e].status = "unsold" => sub'[e].used = 0 /\ sub'[e].reserved = 0
               /\ sub'[e].status = "active" => sub'[e].given = 0
    <3>1. /\ sub[e].reserved = PlanOn(b, e, "open") /\ sub[e].used = PlanOn(b, e, "settled")
          /\ sub[e].given + sub[e].used + sub[e].reserved <= sub[e].quota
          /\ sub[e].status = "unsold" => sub[e].used = 0 /\ sub[e].reserved = 0
          /\ sub[e].status = "active" => sub[e].given = 0
      BY DEF BooksKept
    <3>2. /\ sub[e].reserved \in Nat /\ sub[e].used \in Nat /\ sub[e].given \in Nat
          /\ sub[e].quota \in Nat
      BY <1>1 DEF Sub
    <3>3. CASE e = s
      <4>1. PlanOn(b2, e, "open") = PlanOn(b, e, "open") + m
        BY <1>2, <3>3
      <4>2. /\ sub'[e].reserved = sub[e].reserved + m /\ sub'[e].used = sub[e].used
            /\ sub'[e].given = sub[e].given /\ sub'[e].quota = sub[e].quota
            /\ sub'[e].status = "active"
        BY <2>1, <2>4, <2>5, <3>3
      <4>3. sub[e].given = 0 /\ sub[e].quota - sub[e].used - sub[e].reserved >= m
        BY <2>1, <3>1, <3>3
      <4>4. sub'[e].given + sub'[e].used + sub'[e].reserved <= sub'[e].quota
        BY <3>2, <4>2, <4>3
      <4>5. QED
        BY <1>2, <3>1, <4>1, <4>2, <4>3, <4>4
    <3>4. CASE e # s
      <4>1. PlanOn(b2, e, "open") = PlanOn(b, e, "open")
        BY <1>2, <3>1, <3>2, <3>4
      <4>2. QED
        BY <1>2, <2>5, <3>1, <3>4, <4>1
    <3>5. QED
      BY <3>3, <3>4
  <2>8. QED
    BY <2>6, <2>7 DEF BooksKept
<1>5. QED
  BY <1>3, <1>4

LEMMA GrantKeeps ==
  ASSUME IInv, NEW t \in Txns, Grant(t)
  PROVE  IInv'
<1>1. PICK x : x = txn[t]
  OBVIOUS
<1>2. PICK r, s, m : r = x.request /\ s = x.sub /\ m = Take(t)
  OBVIOUS
<1>3. /\ TypeOK /\ BooksKept(sub, bill) /\ BillsKept(setting, bill)
      /\ Alone(setting, txn) /\ AllKnow(setting, bill, day, txn)
      /\ DailyKept(setting, bill) /\ MembersKept(setting, bill, day)
      /\ setting \in Settings /\ bill \in Bills /\ day \in Nat /\ setting.call \in Asks
      /\ x \in Txn /\ Knows(setting, bill, day, x) /\ txn \in [Txns -> Txn]
  BY <1>1, TypesOf, SettingTypes DEF IInv, AllKnow, TypeOK
<1>4. /\ r # None /\ x.todo = <<>> /\ bill[r].status = "none"
      /\ m > 0 => MayReserve(s, m)
      /\ sub' = IF m = 0 THEN sub ELSE [sub EXCEPT ![s].reserved = @ + m]
      /\ End(t) /\ UNCHANGED <<bound, seat, day, setting>>
  BY <1>1, <1>2 DEF Grant, Planned
<1>5. PICK v : v = [NoBill EXCEPT !.status = "open", !.sub = s, !.plan = m]
  OBVIOUS
<1>6. bill' = [bill EXCEPT ![r] = v]
  BY <1>1, <1>2, <1>5 DEF Grant
<1>7. r \in Requests /\ s \in Subs \cup {None}
  BY <1>2, <1>3, <1>4 DEF Txn
<1>8. Of(t) = Asker(setting, x) /\ Of(t) \in Ask /\ Of(t) = setting.call[r]
  BY <1>1, <1>2, <1>3, <1>7, SettingTypes DEF Of, Call, Asker
<1>9. /\ m \in Nat /\ m <= Of(t).need /\ (m > 0 => s \in Subs)
      /\ (m > 0 /\ x.limit # None => m <= AtLeast0(x.limit - x.sum))
  BY <1>1, <1>2, <1>3, <1>8, TakeIs
<1>10. v \in Bill /\ v.status = "open" /\ v.sub = s /\ v.plan = m
  BY <1>5, <1>7, <1>9 DEF NoBill, Bill
<1>11. PICK b2 : b2 = bill'
  OBVIOUS
<1>12. b2 \in Bills /\ b2[r] = v /\ \A q \in Requests \ {r} : b2[q] = bill[q]
  BY <1>3, <1>6, <1>7, <1>10, <1>11 DEF Bills
<1>13. Opens(bill, b2, r)
  BY <1>4, <1>10, <1>12 DEF Opens
<1>14. sub' \in [Subs -> Sub] /\ BooksKept(sub', b2)
  BY <1>3, <1>4, <1>7, <1>9, <1>10, <1>12, <1>13, BooksAfterGrant
<1>15. txn'[t] = Idle /\ (\A o \in Txns \ {t} : txn'[o] = txn[o]) /\ txn' \in [Txns -> Txn]
  BY <1>3, <1>4, IdleType DEF End
<1>16. TypeOK'
  BY <1>3, <1>4, <1>11, <1>12, <1>14, <1>15 DEF TypeOK, Bills
<1>17. BillsKept(setting, b2)
  <2>1. ASSUME NEW q \in Requests
        PROVE  /\ b2[q].status = "open" => b2[q].plan <= setting.call[q].need
               /\ b2[q].status = "settled" => b2[q].plan <= b2[q].amount
               /\ b2[q].plan > 0 => b2[q].sub \in Subs
    <3>1. CASE q = r
      BY <1>8, <1>9, <1>10, <1>12, <3>1
    <3>2. CASE q # r
      BY <1>3, <1>12, <3>2 DEF BillsKept, Honest
    <3>3. QED
      BY <3>1, <3>2
  <2>2. QED
    BY <2>1 DEF BillsKept, Honest
<1>18. Alone(setting, txn')
  BY <1>3, <1>15, IdleType DEF Alone
<1>19. AllKnow(setting, b2, day, txn')
  <2>1. Serial(setting, setting.call[r]) => x.locked
    <3>1. Ordered(setting, x)
      BY <1>2, <1>3, <1>4 DEF Knows, Resolving
    <3>2. QED
      BY <1>4, <1>8, <3>1 DEF Ordered
  <2>2. ASSUME NEW o \in Txns \ {t} PROVE Knows(setting, b2, day, txn[o])
    <3>1. txn[o] \in Txn /\ Knows(setting, bill, day, txn[o])
      BY <1>3 DEF AllKnow
    <3>2. ASSUME txn[o].request # None PROVE Gentle(setting, bill, b2, txn[o])
      <4>1. txn[o].request \in Requests
        BY <3>1, <3>2 DEF Txn
      <4>2. ASSUME Serial(setting, setting.call[r]), txn[o].locked
            PROVE  setting.call[r].user # Asker(setting, txn[o]).user
        BY <1>1, <1>2, <1>3, <2>1, <4>2 DEF Alone, Asker
      <4>3. QED
        BY <1>3, <1>7, <1>12, <1>13, <4>1, <4>2, OpeningIsGentle
    <3>3. QED
      BY <1>3, <1>12, <3>1, <3>2, KnowledgeLasts
  <2>3. Knows(setting, b2, day, Idle)
    BY IdleType DEF Knows
  <2>4. QED
    BY <1>15, <2>2, <2>3 DEF AllKnow
<1>20. DailyKept(setting, b2)
  BY <1>2, <1>3, <1>4, <1>12, <1>13, DailyAfterGrant
<1>21. MembersKept(setting, b2, day)
  BY <1>2, <1>3, <1>4, <1>8, <1>9, <1>10, <1>12, <1>13, MembersAfterGrant
<1>22. QED
  BY <1>4, <1>11, <1>14, <1>16, <1>17, <1>18, <1>19, <1>20, <1>21 DEF IInv

LEMMA ReplayKeeps ==
  ASSUME IInv, NEW t \in Txns, Replay(t) \/ Refuse(t)
  PROVE  IInv'
<1>1. End(t) /\ UNCHANGED <<sub, bound, seat, bill, day, setting>>
  BY DEF Replay, Refuse
<1>2. QED
  BY <1>1, EndKeeps
-----------------------------------------------------------------------------
(* The ends of a request.                                                    *)

\* A plan m is given back, n of it consumed.
LEMMA BooksAfterClosing ==
  ASSUME TypeOK, BooksKept(sub, bill), BillsKept(setting, bill),
         NEW r \in Requests, NEW b2 \in Bills, Closes(bill, b2, r),
         NEW s, s = bill[r].sub, NEW m, m = bill[r].plan, NEW n \in Nat, n <= m,
         b2[r].status = "settled" => b2[r].plan = n,
         b2[r].status = "released" => n = 0,
         NEW v, v = [sub[s] EXCEPT !.reserved = sub[s].reserved - m,
                                   !.used = sub[s].used + n],
         sub' = IF m = 0 THEN sub ELSE [sub EXCEPT ![s] = v]
  PROVE  sub' \in [Subs -> Sub] /\ BooksKept(sub', b2)
<1>1. /\ sub \in [Subs -> Sub] /\ bill \in Bills /\ m \in Nat
      /\ \A q \in Requests \ {r} : b2[q] = bill[q]
  BY TypesOf DEF TypeOK, Bill, Closes
<1>2. ASSUME NEW e \in Subs
      PROVE  /\ PlanOn(b2, e, "open") = PlanOn(bill, e, "open") - IF e = s THEN m ELSE 0
             /\ PlanOn(b2, e, "settled") = PlanOn(bill, e, "settled") + IF e = s THEN n ELSE 0
  <2>1. /\ PlanTerm(bill[r], e, "open") = (IF e = s THEN m ELSE 0)
        /\ PlanTerm(bill[r], e, "settled") = 0
        /\ PlanTerm(b2[r], e, "open") = 0
        /\ PlanTerm(b2[r], e, "settled") = (IF e = s THEN n ELSE 0)
    BY DEF Closes, PlanTerm
  <2>2. /\ PlanOn(bill, e, "open") \in Nat /\ PlanOn(bill, e, "settled") \in Nat
        /\ PlanOn(b2, e, "open") = PlanOn(bill, e, "open") - PlanTerm(bill[r], e, "open")
                                                        + PlanTerm(b2[r], e, "open")
        /\ PlanOn(b2, e, "settled") = PlanOn(bill, e, "settled") - PlanTerm(bill[r], e, "settled")
                                                              + PlanTerm(b2[r], e, "settled")
    BY <1>1, PlansChange
  <2>3. QED
    BY <1>1, <2>1, <2>2
<1>3. CASE m = 0
  <2>1. n = 0
    BY <1>3
  <2>2. \A e \in Subs : /\ PlanOn(b2, e, "open") = PlanOn(bill, e, "open")
                        /\ PlanOn(b2, e, "settled") = PlanOn(bill, e, "settled")
    BY <1>1, <1>2, <1>3, <2>1, PlanType
  <2>3. QED
    BY <1>1, <1>3, <2>2 DEF BooksKept
<1>4. CASE m > 0
  <2>1. s \in Subs
    BY <1>4 DEF BillsKept
  <2>2. sub[s].reserved >= m
    <3>1. PlanTerm(bill[r], s, "open") = m
      BY DEF PlanTerm, Closes
    <3>2. m <= PlanOn(bill, s, "open")
      BY <1>1, <3>1, PlanType
    <3>3. sub[s].reserved = PlanOn(bill, s, "open") /\ sub[s].reserved \in Nat
      BY <1>1, <2>1 DEF BooksKept, Sub
    <3>4. QED
      BY <1>1, <3>2, <3>3
  <2>3. /\ sub[s].reserved \in Nat /\ sub[s].used \in Nat /\ sub[s].given \in Nat
        /\ sub[s].quota \in Nat
    BY <1>1, <2>1 DEF Sub
  <2>4. /\ v \in Sub /\ v.reserved = sub[s].reserved - m /\ v.used = sub[s].used + n
        /\ v.given = sub[s].given /\ v.quota = sub[s].quota /\ v.status = sub[s].status
    <3>1. PICK p, q : p = sub[s].reserved - m /\ q = sub[s].used + n
      OBVIOUS
    <3>2. p \in Nat /\ q \in Nat
      BY <1>1, <2>2, <2>3, <3>1
    <3>3. PICK k \in Sub : k = sub[s]
      BY <1>1, <2>1
    <3>4. v = [k EXCEPT !.reserved = p, !.used = q]
      BY <3>1, <3>3
    <3>5. v \in Sub
      BY <3>2, <3>4 DEF Sub
    <3>6. /\ v.reserved = p /\ v.used = q
          /\ v.given = k.given /\ v.quota = k.quota /\ v.status = k.status
      BY <3>4 DEF Sub
    <3>7. QED
      BY <3>1, <3>3, <3>5, <3>6
  <2>5. sub' \in [Subs -> Sub] /\ sub'[s] = v /\ \A e \in Subs \ {s} : sub'[e] = sub[e]
    <3>1. sub' = [sub EXCEPT ![s] = v]
      BY <1>1, <1>4
    <3>2. v \in Sub /\ sub \in [Subs -> Sub]
      BY <1>1, <2>4
    <3>3. PICK k \in Sub : k = v
      BY <3>2
    <3>4. sub' = [sub EXCEPT ![s] = k]
      BY <3>1, <3>3
    <3>5. sub' \in [Subs -> Sub]
      BY <3>2, <3>4, Zenon
    <3>6. sub'[s] = k
      BY <2>1, <3>2, <3>4, Zenon
    <3>7. \A e \in Subs \ {s} : sub'[e] = sub[e]
      BY <3>2, <3>4, Zenon
    <3>8. QED
      BY <3>3, <3>5, <3>6, <3>7, Zenon
  <2>6. ASSUME NEW e \in Subs
        PROVE  /\ sub'[e].reserved = PlanOn(b2, e, "open")
               /\ sub'[e].used = PlanOn(b2, e, "settled")
               /\ sub'[e].given + sub'[e].used + sub'[e].reserved <= sub'[e].quota
               /\ sub'[e].status = "unsold" => sub'[e].used = 0 /\ sub'[e].reserved = 0
               /\ sub'[e].status = "active" => sub'[e].given = 0
    <3>1. /\ sub[e].reserved = PlanOn(bill, e, "open") /\ sub[e].used = PlanOn(bill, e, "settled")
          /\ sub[e].given + sub[e].used + sub[e].reserved <= sub[e].quota
          /\ sub[e].status = "unsold" => sub[e].used = 0 /\ sub[e].reserved = 0
          /\ sub[e].status = "active" => sub[e].given = 0
      BY DEF BooksKept
    <3>2. CASE e = s
      <4>1. /\ PlanOn(b2, e, "open") = PlanOn(bill, e, "open") - m
            /\ PlanOn(b2, e, "settled") = PlanOn(bill, e, "settled") + n
        BY <1>2, <3>2
      <4>2. /\ sub'[e].reserved = sub[e].reserved - m /\ sub'[e].used = sub[e].used + n
            /\ sub'[e].given = sub[e].given /\ sub'[e].quota = sub[e].quota
            /\ sub'[e].status = sub[e].status
        BY <2>4, <2>5, <3>2
      <4>3. sub'[e].given + sub'[e].used + sub'[e].reserved <= sub'[e].quota
        BY <1>1, <2>3, <3>1, <3>2, <4>2
      <4>4. sub[e].status # "unsold"
        BY <1>1, <1>4, <2>2, <3>1, <3>2
      <4>5. QED
        BY <3>1, <4>1, <4>2, <4>3, <4>4
    <3>3. CASE e # s
      <4>1. /\ PlanOn(b2, e, "open") = PlanOn(bill, e, "open")
            /\ PlanOn(b2, e, "settled") = PlanOn(bill, e, "settled")
        BY <1>1, <1>2, <3>3, PlanType
      <4>2. QED
        BY <2>5, <3>1, <3>3, <4>1
    <3>4. QED
      BY <3>2, <3>3
  <2>7. QED
    BY <2>5, <2>6 DEF BooksKept
<1>5. QED
  BY <1>1, <1>3, <1>4

\* Sums no greater keep to the limits of members.
LEMMA LimitsLast ==
  ASSUME NEW g \in Settings, NEW b, NEW b2, NEW d, NEW e, MembersKept(g, b, d),
         \A u, s : /\ ShareOn(b2, g.call, u, s, e) <= ShareOn(b, g.call, u, s, d)
                   /\ ShareOn(b2, g.call, u, s, 0) <= ShareOn(b, g.call, u, s, 0)
                   /\ ShareOn(b2, g.call, u, s, e) \in Nat /\ ShareOn(b, g.call, u, s, d) \in Nat
                   /\ ShareOn(b2, g.call, u, s, 0) \in Nat /\ ShareOn(b, g.call, u, s, 0) \in Nat
  PROVE  MembersKept(g, b2, e)
<1>1. SUFFICES ASSUME NEW u \in Users \ {Owner}, NEW s \in Subs, AllSerial(g, u)
               PROVE  /\ g.memberDaily[u] # None =>
                           ShareOn(b2, g.call, u, s, e) <= g.memberDaily[u]
                      /\ g.memberMonthly[u] # None =>
                           ShareOn(b2, g.call, u, s, 0) <= g.memberMonthly[u]
  BY DEF MembersKept
<1>2. /\ g.memberDaily[u] # None => /\ ShareOn(b, g.call, u, s, d) <= g.memberDaily[u]
                                    /\ g.memberDaily[u] \in Nat
      /\ g.memberMonthly[u] # None => /\ ShareOn(b, g.call, u, s, 0) <= g.memberMonthly[u]
                                      /\ g.memberMonthly[u] \in Nat
  BY <1>1, SettingTypes DEF MembersKept, Rule, Amount
<1>3. QED
  BY <1>2

LEMMA ClosingKeeps ==
  ASSUME IInv, NEW r \in Requests, NEW b2 \in Bills, bill' = b2, Closes(bill, b2, r),
         b2[r].status = "settled" => b2[r].plan <= b2[r].amount,
         sub' \in [Subs -> Sub], BooksKept(sub', b2),
         UNCHANGED <<bound, seat, day, txn, setting>>
  PROVE  IInv'
<1>1. /\ TypeOK /\ BillsKept(setting, bill)
      /\ Alone(setting, txn) /\ AllKnow(setting, bill, day, txn)
      /\ DailyKept(setting, bill) /\ MembersKept(setting, bill, day)
      /\ setting \in Settings /\ bill \in Bills /\ day \in Nat /\ setting.call \in Asks
  BY TypesOf, SettingTypes DEF IInv
<1>2. TypeOK'
  BY <1>1 DEF TypeOK, Bills
<1>3. BillsKept(setting, b2)
  <2>1. ASSUME NEW q \in Requests
        PROVE  /\ b2[q].status = "open" => b2[q].plan <= setting.call[q].need
               /\ b2[q].status = "settled" => b2[q].plan <= b2[q].amount
               /\ b2[q].plan > 0 => b2[q].sub \in Subs
    <3>1. CASE q = r
      <4>1. b2[r].status # "open"
        BY DEF Closes
      <4>2. b2[r].sub = bill[r].sub /\ b2[r].plan <= bill[r].plan
        BY DEF Closes
      <4>3. b2[r].plan \in Nat /\ bill[r].plan \in Nat
        BY <1>1 DEF Bills, Bill
      <4>4. QED
        BY <1>1, <3>1, <4>1, <4>2, <4>3 DEF BillsKept
    <3>2. CASE q # r
      BY <1>1, <3>2 DEF BillsKept, Honest, Closes
    <3>3. QED
      BY <3>1, <3>2
  <2>2. QED
    BY <2>1 DEF BillsKept, Honest
<1>4. AllKnow(setting, b2, day, txn)
  <2>1. ASSUME NEW t \in Txns PROVE Knows(setting, b2, day, txn[t])
    <3>1. txn[t] \in Txn /\ Knows(setting, bill, day, txn[t])
      BY <1>1, TypesOf DEF AllKnow
    <3>2. txn[t].request # None => Gentle(setting, bill, b2, txn[t])
      <4>1. txn[t].request # None => txn[t].request \in Requests
        BY <3>1 DEF Txn
      <4>2. QED
        BY <1>1, <4>1, ClosingIsGentle
    <3>3. QED
      BY <1>1, <3>1, <3>2, KnowledgeLasts
  <2>2. QED
    BY <2>1 DEF AllKnow
<1>5. DailyKept(setting, b2)
  <2>1. SUFFICES ASSUME NEW k \in Users \cup Keys, setting.daily[k] # None
                 PROVE  Flight(b2, setting.call, ScopeOf(setting, k)) <= setting.daily[k]
    BY DEF DailyKept
  <2>2. /\ Flight(b2, setting.call, ScopeOf(setting, k))
             <= Flight(bill, setting.call, ScopeOf(setting, k))
        /\ Flight(bill, setting.call, ScopeOf(setting, k)) <= setting.daily[k]
    BY <1>1, <2>1, ClosingShrinks DEF DailyKept
  <2>3. /\ Flight(b2, setting.call, ScopeOf(setting, k)) \in Nat
        /\ Flight(bill, setting.call, ScopeOf(setting, k)) \in Nat
        /\ setting.daily[k] \in Nat
    BY <1>1, <2>1, FlightType, SettingTypes DEF Rule, Amount
  <2>4. QED
    BY <2>2, <2>3
<1>6. MembersKept(setting, b2, day)
  <2>1. ASSUME NEW u, NEW s, NEW e
        PROVE  /\ ShareOn(b2, setting.call, u, s, e) <= ShareOn(bill, setting.call, u, s, e)
               /\ ShareOn(b2, setting.call, u, s, e) \in Nat
               /\ ShareOn(bill, setting.call, u, s, e) \in Nat
    BY <1>1, ClosingShrinks, ShareType
  <2>2. QED
    BY <1>1, <2>1, LimitsLast
<1>7. QED
  BY <1>1, <1>2, <1>3, <1>4, <1>5, <1>6 DEF IInv

LEMMA SettleKeeps ==
  ASSUME IInv, NEW r \in Requests, NEW cost \in Costs, Settle(r, cost)
  PROVE  IInv'
<1>1. /\ TypeOK /\ BooksKept(sub, bill) /\ BillsKept(setting, bill)
      /\ bill \in [Requests -> Bill] /\ bill[r] \in Bill /\ setting \in Settings
      /\ day \in Nat
  BY TypesOf DEF IInv, TypeOK
<1>2. PICK b, m, s, c : b = bill[r] /\ m = b.plan /\ s = b.sub /\ c = Consumed(r, cost)
  OBVIOUS
<1>3. PICK waived \in 0..Over(r, cost) :
        bill' = [bill EXCEPT ![r] = [b EXCEPT !.status = "settled", !.plan = c,
                                              !.amount = cost - waived, !.day = day]]
  BY <1>2 DEF Settle
<1>4. PICK y : y = [b EXCEPT !.status = "settled", !.plan = c,
                             !.amount = cost - waived, !.day = day]
  OBVIOUS
<1>5. /\ b.status = "open" /\ UNCHANGED <<bound, seat, day, txn, setting>>
      /\ sub' = IF m = 0 THEN sub
                ELSE [sub EXCEPT ![s].reserved = @ - m, ![s].used = @ + c]
  BY <1>2 DEF Settle
<1>6. m \in Nat /\ cost \in Nat /\ c = Least(m, cost) /\ b \in Bill
  BY <1>1, <1>2, AmountsAssumption DEF Bill, Consumed
<1>7. c \in Nat /\ c <= m /\ c <= cost
  BY <1>6 DEF Least
<1>8. Target(r, s) \in Nat /\ m <= Target(r, s)
  <2>1. /\ setting.call[r].need \in Nat /\ m <= setting.call[r].need
        /\ setting.call[r].fixed \in Nat
    BY <1>1, <1>2, <1>5, SettingTypes DEF Ask, BillsKept, Honest
  <2>2. m > 0 => s \in Subs
    BY <1>1, <1>2 DEF BillsKept
  <2>3. QED
    <3>1. None \notin Subs
      BY NamesAssumption
    <3>2. CASE s = None
      BY <1>6, <2>1, <2>2, <3>1, <3>2 DEF Target, Call
    <3>3. CASE s # None
      BY <2>1, <3>3 DEF Target, Call
    <3>4. QED
      BY <3>2, <3>3
<1>9. cost - waived \in Nat /\ c <= cost - waived
  <2>1. PICK n : n = Target(r, s)
    OBVIOUS
  <2>2. waived \in 0..AtLeast0(cost - n)
    BY <1>2, <1>3, <2>1 DEF Over
  <2>3. CASE cost < n
    <3>1. AtLeast0(cost - n) = 0
      BY <1>6, <1>8, <2>1, <2>3 DEF AtLeast0
    <3>2. QED
      BY <1>6, <1>7, <2>2, <3>1
  <2>4. CASE cost >= n
    <3>1. AtLeast0(cost - n) = cost - n
      BY <1>6, <1>8, <2>1, <2>4 DEF AtLeast0
    <3>2. QED
      BY <1>6, <1>7, <1>8, <2>1, <2>2, <2>4, <3>1
  <2>5. QED
    BY <1>6, <1>8, <2>1, <2>3, <2>4
<1>10. /\ y \in Bill /\ y.status = "settled" /\ y.plan = c /\ y.amount = cost - waived
       /\ y.sub = s
  BY <1>1, <1>2, <1>4, <1>6, <1>7, <1>9 DEF Bill
<1>11. PICK b2 : b2 = bill'
  OBVIOUS
<1>12. b2 \in Bills /\ b2[r] = y /\ \A q \in Requests \ {r} : b2[q] = bill[q]
  BY <1>1, <1>3, <1>4, <1>10, <1>11 DEF Bills
<1>13. Closes(bill, b2, r)
  BY <1>2, <1>5, <1>7, <1>10, <1>12 DEF Closes
<1>14. PICK v : v = [sub[s] EXCEPT !.reserved = sub[s].reserved - m,
                                   !.used = sub[s].used + c]
  OBVIOUS
<1>15. sub' = IF m = 0 THEN sub ELSE [sub EXCEPT ![s] = v]
  <2>1. CASE m = 0
    BY <1>5, <2>1
  <2>2. CASE m # 0
    <3>1. m > 0
      BY <1>6, <2>2
    <3>2. s \in Subs /\ sub \in [Subs -> Sub]
      BY <1>1, <1>2, <3>1 DEF BillsKept, TypeOK
    <3>3. sub[s] \in Sub
      BY <3>2
    <3>4. QED
      BY <1>5, <1>14, <2>2, <3>2, <3>3 DEF Sub
  <2>3. QED
    BY <2>1, <2>2
<1>16. sub' \in [Subs -> Sub] /\ BooksKept(sub', b2)
  BY <1>1, <1>2, <1>7, <1>10, <1>12, <1>13, <1>14, <1>15, BooksAfterClosing
<1>17. QED
  <2>1. b2[r].plan <= b2[r].amount
    BY <1>9, <1>10, <1>12
  <2>2. UNCHANGED <<bound, seat, day, txn, setting>>
    BY <1>5
  <2>3. b2 \in Bills /\ bill' = b2
    BY <1>11, <1>12
  <2>4. QED
    BY <1>13, <1>16, <2>1, <2>2, <2>3, ClosingKeeps

LEMMA ReleaseKeeps ==
  ASSUME IInv, NEW r \in Requests, Release(r)
  PROVE  IInv'
<1>1. /\ TypeOK /\ BooksKept(sub, bill) /\ BillsKept(setting, bill)
      /\ bill \in [Requests -> Bill] /\ bill[r] \in Bill
  BY TypesOf DEF IInv, TypeOK
<1>2. PICK m, s : m = bill[r].plan /\ s = bill[r].sub
  OBVIOUS
<1>3. /\ bill[r].status = "open" /\ UNCHANGED <<bound, seat, day, txn, setting>>
      /\ bill' = [bill EXCEPT ![r].status = "released"]
      /\ sub' = IF m = 0 THEN sub ELSE [sub EXCEPT ![s].reserved = @ - m]
  BY <1>2 DEF Release
<1>4. PICK b2, y : b2 = bill' /\ y = [bill[r] EXCEPT !.status = "released"]
  OBVIOUS
<1>5. /\ m \in Nat /\ y \in Bill /\ y.status = "released" /\ y.plan = m /\ y.sub = s
  BY <1>1, <1>2, <1>4 DEF Bill
<1>6. b2 \in Bills /\ b2[r] = y /\ \A q \in Requests \ {r} : b2[q] = bill[q]
  BY <1>1, <1>3, <1>4, <1>5 DEF Bills
<1>7. Closes(bill, b2, r)
  BY <1>2, <1>3, <1>5, <1>6 DEF Closes
<1>8. PICK v : v = [sub[s] EXCEPT !.reserved = sub[s].reserved - m, !.used = sub[s].used + 0]
  OBVIOUS
<1>9. sub' = IF m = 0 THEN sub ELSE [sub EXCEPT ![s] = v]
  <2>1. CASE m = 0
    BY <1>3, <2>1
  <2>2. CASE m # 0
    <3>1. m > 0
      BY <1>5, <2>2
    <3>2. s \in Subs /\ sub \in [Subs -> Sub]
      BY <1>1, <1>2, <3>1 DEF BillsKept, TypeOK
    <3>3. sub[s] \in Sub
      BY <3>2
    <3>4. v = [sub[s] EXCEPT !.reserved = sub[s].reserved - m]
      <4>1. sub[s].used \in Nat /\ sub[s].used + 0 = sub[s].used
        BY <3>3 DEF Sub
      <4>2. PICK q : q = sub[s].used + 0
        OBVIOUS
      <4>3. v = [sub[s] EXCEPT !.reserved = sub[s].reserved - m, !.used = q] /\ q = sub[s].used
        BY <1>8, <4>1, <4>2
      <4>4. QED
        BY <3>3, <4>3 DEF Sub
    <3>5. QED
      BY <1>3, <2>2, <3>2, <3>4
  <2>3. QED
    BY <2>1, <2>2
<1>10. sub' \in [Subs -> Sub] /\ BooksKept(sub', b2)
  <2>1. 0 \in Nat /\ 0 <= m /\ b2[r].status = "released" /\ b2[r].status # "settled"
    BY <1>5, <1>6
  <2>2. PICK n : n = 0
    OBVIOUS
  <2>3. v = [sub[s] EXCEPT !.reserved = sub[s].reserved - m, !.used = sub[s].used + n]
    BY <1>8, <2>2
  <2>4. QED
    BY <1>1, <1>2, <1>6, <1>7, <1>9, <2>1, <2>2, <2>3, BooksAfterClosing
<1>11. QED
  BY <1>3, <1>4, <1>5, <1>6, <1>7, <1>10, ClosingKeeps
-----------------------------------------------------------------------------
(* The life of the subscriptions and of the organisation.                    *)

\* Only the subscriptions change, and their books are kept.
LEMMA SubsKeep ==
  ASSUME IInv, sub' \in [Subs -> Sub], bound' \in [Keys -> Subs \cup {None}],
         BooksKept(sub', bill), UNCHANGED <<seat, bill, day, txn, setting>>
  PROVE  IInv'
<1>1. TypeOK'
  BY DEF IInv, TypeOK
<1>2. QED
  BY <1>1 DEF IInv

\* What is known of one row.
RowKept(x, b, s) ==
  /\ x \in Sub /\ x.reserved = PlanOn(b, s, "open") /\ x.used = PlanOn(b, s, "settled")
  /\ x.given + x.used + x.reserved <= x.quota
  /\ x.status = "unsold" => x.used = 0 /\ x.reserved = 0
  /\ x.status = "active" => x.given = 0

LEMMA RowsAreKept ==
  ASSUME IInv, NEW s \in Subs
  PROVE  RowKept(sub[s], bill, s)
BY DEF RowKept, IInv, BooksKept, TypeOK

LEMMA RowsKeep ==
  ASSUME IInv, bound' \in [Keys -> Subs \cup {None}],
         UNCHANGED <<seat, bill, day, txn, setting>>,
         NEW f, sub' = [s \in Subs |-> f[s]],
         \A s \in Subs : RowKept(f[s], bill, s)
  PROVE  IInv'
<1>1. sub' \in [Subs -> Sub]
  BY DEF RowKept
<1>2. BooksKept(sub', bill)
  BY DEF BooksKept, RowKept
<1>3. QED
  BY <1>1, <1>2, SubsKeep

LEMMA RowKeeps ==
  ASSUME IInv, bound' \in [Keys -> Subs \cup {None}],
         UNCHANGED <<seat, bill, day, txn, setting>>,
         NEW s \in Subs, NEW x, RowKept(x, bill, s), sub' = [sub EXCEPT ![s] = x]
  PROVE  IInv'
<1>1. sub \in [Subs -> Sub]
  BY DEF IInv, TypeOK
<1>2. sub' = [e \in Subs |-> sub'[e]]
  BY <1>1
<1>3. ASSUME NEW e \in Subs PROVE RowKept(sub'[e], bill, e)
  <2>1. CASE e = s
    <3>1. sub'[e] = x
      BY <1>1, <2>1
    <3>2. QED
      BY <2>1, <3>1
  <2>2. CASE e # s
    <3>1. sub'[e] = sub[e]
      BY <1>1, <2>2
    <3>2. QED
      BY <3>1, RowsAreKept
  <2>3. QED
    BY <2>1, <2>2
<1>4. PICK f : f = sub'
  OBVIOUS
<1>5. QED
  BY <1>2, <1>3, <1>4, RowsKeep

LEMMA BoundStays ==
  ASSUME IInv
  PROVE  /\ bound' = bound => bound' \in [Keys -> Subs \cup {None}]
         /\ \A s, new \in Subs : Rebind(s, new) => bound' \in [Keys -> Subs \cup {None}]
BY DEF IInv, TypeOK, Rebind

\* A row that is sold was not used.
LEMMA SoldIsKept ==
  ASSUME IInv, NEW s \in Subs, Unsold(s), NEW shared \in BOOLEAN
  PROVE  RowKept(Sold(shared), bill, s)
<1>1. RowKept(sub[s], bill, s) /\ sub[s].status = "unsold"
  BY RowsAreKept DEF Unsold
<1>2. Quota \in Nat
  BY SettingsAssumption, TypesOf DEF IInv, Quota, Amount
<1>3. QED
  BY <1>1, <1>2 DEF RowKept, Sold, Sub

\* An ended row may credit what is left.
LEMMA EndedIsKept ==
  ASSUME IInv, NEW s \in Subs, IsActive(s), NEW n \in {0, Room(s)},
         NEW status \in {"expired", "cancelled"}
  PROVE  /\ Room(s) \in Nat
         /\ RowKept([sub[s] EXCEPT !.status = status], bill, s)
         /\ RowKept([[sub[s] EXCEPT !.given = n] EXCEPT !.status = status], bill, s)
<1>1. RowKept(sub[s], bill, s) /\ sub[s].status = "active" /\ sub[s] \in Sub
  BY RowsAreKept DEF IsActive, RowKept
<1>2. /\ sub[s].used \in Nat /\ sub[s].reserved \in Nat /\ sub[s].quota \in Nat
      /\ sub[s].given = 0 /\ sub[s].given + sub[s].used + sub[s].reserved <= sub[s].quota
  BY <1>1 DEF RowKept, Sub
<1>3. Room(s) \in Nat /\ Room(s) + sub[s].used + sub[s].reserved <= sub[s].quota
  BY <1>2 DEF Room
<1>4. n \in Nat /\ n + sub[s].used + sub[s].reserved <= sub[s].quota
  BY <1>2, <1>3
<1>5. PICK x, y : /\ x = [sub[s] EXCEPT !.status = status]
                  /\ y = [[sub[s] EXCEPT !.given = n] EXCEPT !.status = status]
  OBVIOUS
<1>6. /\ x \in Sub /\ x.status = status /\ x.used = sub[s].used
      /\ x.reserved = sub[s].reserved /\ x.quota = sub[s].quota /\ x.given = sub[s].given
  BY <1>1, <1>5 DEF Sub
<1>7. /\ y \in Sub /\ y.status = status /\ y.used = sub[s].used
      /\ y.reserved = sub[s].reserved /\ y.quota = sub[s].quota /\ y.given = n
  BY <1>1, <1>4, <1>5 DEF Sub
<1>8. RowKept(x, bill, s)
  BY <1>1, <1>6 DEF RowKept
<1>9. RowKept(y, bill, s)
  BY <1>1, <1>4, <1>7 DEF RowKept
<1>10. QED
  BY <1>3, <1>5, <1>8, <1>9

LEMMA ReplacedKeeps ==
  ASSUME IInv, NEW s \in Subs, NEW new \in Subs, IsActive(s), Unsold(new), Rebind(s, new),
         UNCHANGED <<seat, bill, day, txn, setting>>,
         NEW old \in {sub[s], [sub[s] EXCEPT !.given = Room(s)]}, Replaced(s, old, new)
  PROVE  IInv'
<1>1. sub \in [Subs -> Sub] /\ sub[s] \in Sub /\ s # new
  BY DEF IInv, TypeOK, IsActive, Unsold
<1>2. PICK x, y : x = [old EXCEPT !.status = "expired"] /\ y = Sold(old.shared)
  OBVIOUS
<1>3. RowKept(x, bill, s)
  <2>1. "expired" \in {"expired", "cancelled"} /\ Room(s) \in {0, Room(s)}
    OBVIOUS
  <2>2. CASE old = sub[s]
    BY <1>2, <2>1, <2>2, EndedIsKept
  <2>3. CASE old = [sub[s] EXCEPT !.given = Room(s)]
    <3>1. RowKept([[sub[s] EXCEPT !.given = Room(s)] EXCEPT !.status = "expired"], bill, s)
      BY <2>1, EndedIsKept
    <3>2. QED
      BY <1>2, <2>3, <3>1
  <2>4. QED
    BY <2>2, <2>3
<1>4. RowKept(y, bill, new)
  <2>1. old.shared \in BOOLEAN
    <3>1. old.shared = sub[s].shared
      BY <1>1 DEF Sub
    <3>2. QED
      BY <1>1, <3>1 DEF Sub
  <2>2. QED
    BY <1>2, <2>1, SoldIsKept
<1>5. sub' = [sub EXCEPT ![s] = x, ![new] = y]
  BY <1>2 DEF Replaced
<1>6. sub' = [e \in Subs |-> sub'[e]]
  BY <1>1, <1>5
<1>7. ASSUME NEW e \in Subs PROVE RowKept(sub'[e], bill, e)
  <2>1. CASE e = new
    <3>1. sub'[e] = y
      BY <1>1, <1>5, <2>1
    <3>2. QED
      BY <1>4, <2>1, <3>1
  <2>2. CASE e = s
    <3>1. sub'[e] = x
      BY <1>1, <1>5, <2>2
    <3>2. QED
      BY <1>3, <2>2, <3>1
  <2>3. CASE e # s /\ e # new
    <3>1. sub'[e] = sub[e]
      BY <1>1, <1>5, <2>3
    <3>2. QED
      BY <3>1, RowsAreKept
  <2>4. QED
    BY <2>1, <2>2, <2>3
<1>8. PICK f : f = sub'
  OBVIOUS
<1>9. QED
  BY <1>6, <1>7, <1>8, BoundStays, RowsKeep

LEMMA SubscribeKeeps ==
  ASSUME IInv, Subscribe
  PROVE  IInv'
<1>1. sub \in [Subs -> Sub]
  BY DEF IInv, TypeOK
<1>2. ASSUME NEW s \in Subs, NEW new \in Subs, Renew(s, new) PROVE IInv'
  BY <1>2, ReplacedKeeps DEF Renew
<1>3. ASSUME NEW s \in Subs, NEW new \in Subs, Change(s, new) PROVE IInv'
  BY <1>3, ReplacedKeeps DEF Change
<1>4. ASSUME NEW s \in Subs, Cancel(s) PROVE IInv'
  <2>1. PICK x : x = [sub[s] EXCEPT !.status = "cancelled"]
    OBVIOUS
  <2>2. RowKept(x, bill, s)
    <3>1. IsActive(s) /\ 0 \in {0, Room(s)} /\ "cancelled" \in {"expired", "cancelled"}
      BY <1>4 DEF Cancel
    <3>2. QED
      BY <2>1, <3>1, EndedIsKept
  <2>3. sub' = [sub EXCEPT ![s] = x] /\ UNCHANGED <<bound, seat, bill, day, txn, setting>>
    BY <1>4, <2>1 DEF Cancel
  <2>4. QED
    BY <2>2, <2>3, BoundStays, RowKeeps
<1>5. ASSUME NEW new \in Subs, Purchase(new) PROVE IInv'
  <2>1. /\ sub' = [s \in Subs |-> IF s = new THEN Sold(FALSE)
                                  ELSE IF IsActive(s) THEN [sub[s] EXCEPT !.status = "expired"]
                                  ELSE sub[s]]
        /\ Unsold(new) /\ UNCHANGED <<bound, seat, bill, day, txn, setting>>
    BY <1>5 DEF Purchase
  <2>2. ASSUME NEW s \in Subs PROVE RowKept(sub'[s], bill, s)
    <3>1. CASE s = new
      <4>1. sub'[s] = Sold(FALSE) /\ FALSE \in BOOLEAN
        BY <2>1, <3>1
      <4>2. QED
        BY <2>1, <3>1, <4>1, SoldIsKept
    <3>2. CASE s # new /\ IsActive(s)
      <4>1. sub'[s] = [sub[s] EXCEPT !.status = "expired"]
        BY <2>1, <3>2
      <4>2. 0 \in {0, Room(s)} /\ "expired" \in {"expired", "cancelled"}
        OBVIOUS
      <4>3. QED
        BY <3>2, <4>1, <4>2, EndedIsKept
    <3>3. CASE s # new /\ ~IsActive(s)
      <4>1. sub'[s] = sub[s]
        BY <2>1, <3>3
      <4>2. QED
        BY <4>1, RowsAreKept
    <3>4. QED
      BY <3>1, <3>2, <3>3
  <2>3. sub' = [s \in Subs |-> sub'[s]]
    BY <2>1
  <2>4. PICK f : f = sub'
    OBVIOUS
  <2>5. QED
    BY <2>1, <2>2, <2>3, <2>4, BoundStays, RowsKeep
<1>6. ASSUME NEW s \in Subs, GrantPack(s) PROVE IInv'
  <2>1. PICK q, x : q = sub[s].quota + Pack /\ x = [sub[s] EXCEPT !.quota = q]
    OBVIOUS
  <2>2. RowKept(sub[s], bill, s) /\ sub[s] \in Sub /\ Pack \in Nat
    BY <1>1, RowsAreKept, AmountsAssumption DEF Amount
  <2>3. /\ sub[s].used \in Nat /\ sub[s].reserved \in Nat /\ sub[s].quota \in Nat
        /\ sub[s].given \in Nat
    BY <2>2 DEF Sub
  <2>4. q \in Nat /\ q >= sub[s].quota
    BY <2>1, <2>2, <2>3
  <2>5. /\ x \in Sub /\ x.status = sub[s].status /\ x.used = sub[s].used
        /\ x.reserved = sub[s].reserved /\ x.quota = q /\ x.given = sub[s].given
    BY <2>1, <2>2, <2>4 DEF Sub
  <2>6. x.given + x.used + x.reserved <= x.quota
    BY <2>2, <2>3, <2>4, <2>5 DEF RowKept
  <2>7. RowKept(x, bill, s)
    BY <2>2, <2>5, <2>6 DEF RowKept
  <2>8. sub' = [sub EXCEPT ![s] = x] /\ UNCHANGED <<bound, seat, bill, day, txn, setting>>
    BY <1>6, <2>1 DEF GrantPack
  <2>9. QED
    BY <2>7, <2>8, BoundStays, RowKeeps
<1>7. ASSUME NEW s \in Subs, Lapse(s) PROVE IInv'
  <2>1. PICK x : x = [sub[s] EXCEPT !.over = TRUE]
    OBVIOUS
  <2>2. RowKept(sub[s], bill, s) /\ sub[s] \in Sub
    BY <1>1, RowsAreKept
  <2>3. /\ x \in Sub /\ x.status = sub[s].status /\ x.used = sub[s].used
        /\ x.reserved = sub[s].reserved /\ x.quota = sub[s].quota /\ x.given = sub[s].given
    BY <2>1, <2>2 DEF Sub
  <2>4. RowKept(x, bill, s)
    BY <2>2, <2>3 DEF RowKept
  <2>5. sub' = [sub EXCEPT ![s] = x] /\ UNCHANGED <<bound, seat, bill, day, txn, setting>>
    BY <1>7, <2>1 DEF Lapse
  <2>6. QED
    BY <2>4, <2>5, BoundStays, RowKeeps
<1>8. QED
  BY <1>2, <1>3, <1>4, <1>5, <1>6, <1>7 DEF Subscribe

LEMMA JoinKeeps ==
  ASSUME IInv, NEW u \in Users, RemoveMember(u) \/ AcceptInvitation(u)
  PROVE  IInv'
<1>1. PICK w \in Seat : seat' = [seat EXCEPT ![u] = w]
  BY DEF RemoveMember, AcceptInvitation, Seat
<1>2. UNCHANGED <<sub, bound, bill, day, txn, setting>>
  BY DEF RemoveMember, AcceptInvitation
<1>3. seat' \in [Users -> Seat]
  BY <1>1 DEF IInv, TypeOK
<1>4. TypeOK'
  BY <1>2, <1>3 DEF IInv, TypeOK
<1>5. QED
  BY <1>2, <1>4 DEF IInv

LEMMA DayKeeps ==
  ASSUME IInv, DayPasses
  PROVE  IInv'
<1>1. /\ TypeOK /\ setting \in Settings /\ bill \in Bills /\ day \in Nat
      /\ AllKnow(setting, bill, day, txn) /\ MembersKept(setting, bill, day)
      /\ setting.call \in Asks
  BY TypesOf, SettingTypes DEF IInv
<1>2. day' = day + 1 /\ UNCHANGED <<sub, bound, seat, bill, txn, setting>>
  BY DEF DayPasses
<1>3. PICK e : e = day + 1
  OBVIOUS
<1>4. e \in Nat /\ day <= e /\ day' = e
  BY <1>1, <1>2, <1>3
<1>5. TypeOK'
  BY <1>1, <1>2, <1>4 DEF TypeOK
<1>6. AllKnow(setting, bill, e, txn)
  <2>1. ASSUME NEW t \in Txns PROVE Knows(setting, bill, e, txn[t])
    <3>1. txn[t] \in Txn /\ Knows(setting, bill, day, txn[t])
      BY <1>1, TypesOf DEF AllKnow
    <3>2. txn[t].request # None => Gentle(setting, bill, bill, txn[t])
      <4>1. SUFFICES ASSUME txn[t].request # None PROVE Gentle(setting, bill, bill, txn[t])
        OBVIOUS
      <4>2. \A R : Flight(bill, setting.call, R) <= Flight(bill, setting.call, R)
        BY <1>1, FlightType
      <4>3. \A u, s, d : /\ ShareOn(bill, setting.call, u, s, d) <= ShareOn(bill, setting.call, u, s, d)
                         /\ SpentOn(bill, setting.call, u, s, d) >= SpentOn(bill, setting.call, u, s, d)
        BY <1>1, ShareType, SpentType
      <4>4. QED
        BY <4>2, <4>3 DEF Gentle
    <3>3. QED
      BY <1>1, <1>4, <3>1, <3>2, KnowledgeLasts
  <2>2. QED
    BY <2>1 DEF AllKnow
<1>7. MembersKept(setting, bill, e)
  <2>1. ASSUME NEW u, NEW s
        PROVE  /\ ShareOn(bill, setting.call, u, s, e) <= ShareOn(bill, setting.call, u, s, day)
               /\ ShareOn(bill, setting.call, u, s, 0) <= ShareOn(bill, setting.call, u, s, 0)
               /\ ShareOn(bill, setting.call, u, s, e) \in Nat
               /\ ShareOn(bill, setting.call, u, s, day) \in Nat
               /\ ShareOn(bill, setting.call, u, s, 0) \in Nat
    BY <1>1, <1>4, LaterShare, ShareType
  <2>2. QED
    BY <1>1, <2>1, LimitsLast
<1>8. QED
  BY <1>2, <1>4, <1>5, <1>6, <1>7 DEF IInv
-----------------------------------------------------------------------------
(* The theorems.                                                             *)

LEMMA StepKeeps ==
  ASSUME IInv, [Next]_vars
  PROVE  IInv'
<1>1. ASSUME NEW t \in Txns, Authorize(t) PROVE IInv'
  <2>1. CASE \E r \in Requests : Begin(t, r)
    BY <2>1, BeginKeeps
  <2>2. CASE Resolve(t)
    BY <2>2, ResolveKeeps
  <2>3. CASE Lock(t)
    BY <2>3, LockKeeps
  <2>4. CASE Reread(t)
    BY <2>4, RereadKeeps
  <2>5. CASE ReadSpent(t)
    BY <2>5, ReadSpentKeeps
  <2>6. CASE ReadExposure(t)
    BY <2>6, ReadExposureKeeps
  <2>7. CASE Snapshot(t)
    BY <2>7, SnapshotKeeps
  <2>8. CASE MembersExposure(t)
    BY <2>8, MembersExposureKeeps
  <2>9. CASE MembersDay(t)
    BY <2>9, MembersDayKeeps
  <2>10. CASE MembersMonth(t)
    BY <2>10, MembersMonthKeeps
  <2>11. CASE Grant(t)
    BY <2>11, GrantKeeps
  <2>12. CASE Replay(t) \/ Refuse(t)
    BY <2>12, ReplayKeeps
  <2>13. QED
    BY <1>1, <2>1, <2>2, <2>3, <2>4, <2>5, <2>6, <2>7, <2>8, <2>9, <2>10, <2>11, <2>12
    DEF Authorize
<1>2. ASSUME NEW r \in Requests, Finish(r) PROVE IInv'
  BY <1>2, ReleaseKeeps, SettleKeeps DEF Finish
<1>3. CASE Subscribe
  BY <1>3, SubscribeKeeps
<1>4. CASE Join
  BY <1>4, JoinKeeps DEF Join
<1>5. CASE DayPasses
  BY <1>5, DayKeeps
<1>6. CASE UNCHANGED vars
  <2>1. UNCHANGED <<sub, bound, seat, bill, day, txn, setting>>
    BY <1>6 DEF vars
  <2>2. TypeOK'
    BY <2>1 DEF IInv, TypeOK
  <2>3. QED
    BY <2>1, <2>2 DEF IInv
<1>7. QED
  BY <1>1, <1>2, <1>3, <1>4, <1>5, <1>6 DEF Next

\* In every reachable state each transaction's reads still mean what its
\* decision takes them to mean.
THEOREM IInvHolds == Spec => []IInv
BY Starts, StepKeeps, PTL DEF Spec

\* Whoever shares a subscription and however it ends, it knows what its requests
\* hold and have consumed and never gives more than its quota.
THEOREM QuotaAlwaysKept == Spec => []QuotaIsKept
<1>1. IInv => QuotaIsKept
  <2>1. SUFFICES ASSUME IInv PROVE QuotaIsKept
    OBVIOUS
  <2>2. TypeOK /\ bill \in Bills /\ sub \in [Subs -> Sub]
    BY <2>1, TypesOf DEF IInv, TypeOK
  <2>3. ASSUME NEW s \in Subs
        PROVE  /\ sub[s].reserved = Plans(Holding(s)) /\ sub[s].used = Plans(Charged(s))
               /\ sub[s].used + sub[s].reserved <= sub[s].quota
    <3>1. Plans(Holding(s)) = PlanOn(bill, s, "open")
      BY <2>2, PlansIs DEF Plans, Holding
    <3>2. Plans(Charged(s)) = PlanOn(bill, s, "settled")
      BY <2>2, PlansIs DEF Plans, Charged
    <3>3. /\ sub[s].reserved = PlanOn(bill, s, "open") /\ sub[s].used = PlanOn(bill, s, "settled")
          /\ sub[s].given + sub[s].used + sub[s].reserved <= sub[s].quota
      BY <2>1 DEF IInv, BooksKept
    <3>4. /\ sub[s].reserved \in Nat /\ sub[s].used \in Nat /\ sub[s].given \in Nat
          /\ sub[s].quota \in Nat
      BY <2>2 DEF Sub
    <3>5. sub[s].used + sub[s].reserved <= sub[s].quota
      BY <3>3, <3>4
    <3>6. QED
      BY <3>1, <3>2, <3>3, <3>5
  <2>4. QED
    BY <2>2, <2>3 DEF QuotaIsKept
<1>2. QED
  BY <1>1, IInvHolds, PTL

\* What the change of a plan has credited to the owner is spent by no request,
\* though requests read the old subscription before the change and reserve after it.
THEOREM CreditIsNotSpent == Spec => []ChangedValueIsNotSpent
<1>1. IInv => ChangedValueIsNotSpent
  BY DEF IInv, BooksKept, ChangedValueIsNotSpent
<1>2. QED
  BY <1>1, IInvHolds, PTL

\* However many gateways admit its requests at once, what a user or a key has in
\* flight fits its daily limit.
THEOREM OpenAlwaysLimited == Spec => []OpenIsLimited
<1>1. IInv => OpenIsLimited
  <2>1. SUFFICES ASSUME IInv, NEW k \in Users \cup Keys, Limited(k)
                 PROVE  InFlight(InScope(k)) <= DailyLimit[k]
    BY DEF OpenIsLimited
  <2>2. bill \in Bills /\ setting \in Settings
    BY <2>1, TypesOf DEF IInv
  <2>3. InScope(k) = ScopeOf(setting, k)
    BY DEF InScope, ScopeOf, Call
  <2>4. InFlight(InScope(k)) = Flight(bill, setting.call, ScopeOf(setting, k))
    <3>1. ScopeOf(setting, k) \subseteq Requests
      BY DEF ScopeOf
    <3>2. QED
      BY <2>2, <2>3, <3>1, InFlightHere
  <2>5. QED
    BY <2>1, <2>4 DEF IInv, DailyKept, Limited, DailyLimit
<1>2. QED
  BY <1>1, IInvHolds, PTL

\* A member all of whose requests take the advisory lock keeps to the daily and
\* the monthly limit of his organisation on every subscription, though the sums
\* are read one by one while his requests settle.
THEOREM SerialMemberAlwaysLimited == Spec => []SerialMemberIsLimited
<1>1. IInv => SerialMemberIsLimited
  <2>1. SUFFICES ASSUME IInv, NEW u \in Users \ {Owner}, NEW s \in Subs, Serialised(u)
                 PROVE  WithinMemberLimits(u, s)
    BY DEF SerialMemberIsLimited, Members
  <2>2. bill \in Bills /\ setting \in Settings /\ setting.call \in Asks
    BY <2>1, TypesOf, SettingTypes DEF IInv
  <2>3. AllSerial(setting, u)
    BY <2>1 DEF Serialised, AllSerial, Serial, Limited, DailyLimit, Call
  <2>4. ASSUME NEW d PROVE Share(u, s, d) = ShareOn(bill, setting.call, u, s, d)
    BY <2>2, ShareIs DEF Share, Plans, OfMember, Call
  <2>5. /\ setting.memberDaily[u] # None =>
             ShareOn(bill, setting.call, u, s, day) <= setting.memberDaily[u]
        /\ setting.memberMonthly[u] # None =>
             ShareOn(bill, setting.call, u, s, 0) <= setting.memberMonthly[u]
    BY <2>1, <2>3 DEF IInv, MembersKept
  <2>6. QED
    BY <2>4, <2>5 DEF WithinMemberLimits, MemberDaily, MemberMonthly
<1>2. QED
  BY <1>1, IInvHolds, PTL
=============================================================================
