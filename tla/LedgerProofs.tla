---------------------------- MODULE LedgerProofs ----------------------------
(***************************************************************************)
(* Theorems about LedgerRows, for any accounts, holds, transactions and    *)
(* programs: the rows under their locks implement the ledger on which      *)
(* transactions run one after the other, and what the serial ledger keeps  *)
(* is therefore kept by the rows.                                          *)
(***************************************************************************)
EXTENDS LedgerRows, Sums

-----------------------------------------------------------------------------
LEMMA LeastNat ==
  ASSUME NEW F, F \subseteq Nat, F # {}
  PROVE  \E n \in F : \A m \in F : n <= m
<1>1. PICK b \in F : TRUE
  OBVIOUS
<1> DEFINE Upto == {0..n : n \in {m \in F : m <= b}}
<1>2. PICK T \in Upto : \A U \in SUBSET T : U # T => U \notin Upto
  <2>1. PICK S : S = 0..b
    OBVIOUS
  <2>2. IsFiniteSet(S)
    BY <1>1, <2>1, FS_Interval
  <2>3. Upto \subseteq SUBSET S /\ S \in Upto
    BY <1>1, <2>1
  <2> HIDE DEF Upto
  <2>4. Upto # {}
    BY <2>3
  <2>5. QED
    BY <2>2, <2>3, <2>4, Smallest
<1>3. PICK n \in F : n <= b /\ T = 0..n
  OBVIOUS
<1>4. ASSUME NEW m \in F, ~(n <= m) PROVE FALSE
  <2>1. 0..m \in Upto /\ 0..m \subseteq 0..n
    BY <1>1, <1>3, <1>4
  <2>2. n \in 0..n /\ n \notin 0..m
    BY <1>4
  <2> HIDE DEF Upto
  <2>3. QED
    BY <1>2, <1>3, <2>1, <2>2
<1>5. QED
  BY <1>4

(* What has no first fault on 0..n has none.                                 *)
LEMMA FirstFault ==
  ASSUME NEW n \in Nat, NEW Faulty, Faulty \subseteq 0..n, Faulty # {}
  PROVE  \E i \in Faulty : \A k \in 0..n : k < i => k \notin Faulty
<1>1. Faulty \subseteq Nat
  OBVIOUS
<1>2. PICK i \in Faulty : \A k \in Faulty : i <= k
  BY <1>1, LeastNat
<1>3. QED
  BY <1>1, <1>2

-----------------------------------------------------------------------------
(* Runs of a program.                                                        *)

\* The ledgers that verb v may make of those in S.
After(v, S) == UNION {Serial!Outcomes(v, x) : x \in S}

\* What the first verbs of p may make of s, verb by verb.
RunsAs(g, p, s, n) ==
  g = [i \in 0..n |-> IF i = 0 THEN {s}
                      ELSE UNION {Serial!Outcomes(p[i], x) : x \in g[i - 1]}]

\* From {s} the verbs of p lead through g.
Leads(g, p, s) ==
  /\ g[0] = {s}
  /\ \A i \in 1..Len(p) : g[i] = After(p[i], g[i - 1])

LEMMA RunsAt ==
  ASSUME NEW g, NEW p, NEW s, Len(p) \in Nat, RunsAs(g, p, s, Len(p))
  PROVE  Leads(g, p, s)
<1>1. ASSUME NEW i \in 0..Len(p)
      PROVE  g[i] = IF i = 0 THEN {s}
                    ELSE UNION {Serial!Outcomes(p[i], x) : x \in g[i - 1]}
  BY DEF RunsAs
<1>2. g[0] = {s}
  <2>1. 0 \in 0..Len(p)
    OBVIOUS
  <2>2. QED
    BY <1>1, <2>1
<1>3. ASSUME NEW i \in 1..Len(p) PROVE g[i] = After(p[i], g[i - 1])
  <2>1. i \in 0..Len(p) /\ i # 0
    OBVIOUS
  <2>2. g[i] = UNION {Serial!Outcomes(p[i], x) : x \in g[i - 1]}
    BY <1>1, <2>1
  <2>3. QED
    BY <2>2 DEF After
<1>4. QED
  BY <1>2, <1>3 DEF Leads

LEMMA RunsExist ==
  ASSUME NEW p, NEW s, NEW n \in Nat
  PROVE  \E g : RunsAs(g, p, s, n)
<1> DEFINE Faulty == {m \in 0..n : ~ \E g : RunsAs(g, p, s, m)}
<1>1. SUFFICES ASSUME Faulty # {} PROVE FALSE
  OBVIOUS
<1>2. PICK m \in Faulty : \A k \in 0..n : k < m => k \notin Faulty
  <2>1. Faulty \subseteq 0..n
    OBVIOUS
  <2> HIDE DEF Faulty
  <2>2. QED
    BY <1>1, <2>1, FirstFault
<1>3. m \in 0..n /\ ~ \E g : RunsAs(g, p, s, m)
  OBVIOUS
<1>4. m # 0
  <2>1. RunsAs([i \in 0..0 |-> {s}], p, s, 0)
    BY DEF RunsAs
  <2>2. QED
    BY <1>3, <2>1
<1>5. PICK g : RunsAs(g, p, s, m - 1)
  <2>1. m - 1 \in 0..n /\ m - 1 < m
    BY <1>3, <1>4
  <2>2. m - 1 \notin Faulty
    BY <1>2, <2>1
  <2>3. QED
    BY <2>1, <2>2
<1> DEFINE last == UNION {Serial!Outcomes(p[m], x) : x \in g[m - 1]}
           h == [i \in 0..m |-> IF i = m THEN last ELSE g[i]]
<1>6. ASSUME NEW i \in 0..m
      PROVE  h[i] = IF i = 0 THEN {s}
                    ELSE UNION {Serial!Outcomes(p[i], x) : x \in h[i - 1]}
  <2>1. CASE i = m
    <3>1. h[i] = last /\ h[i - 1] = g[m - 1] /\ i # 0
      BY <1>3, <1>4, <2>1
    <3> HIDE DEF h
    <3>2. QED
      BY <2>1, <3>1
  <2>2. CASE i # m
    <3>1. i \in 0..(m - 1) /\ h[i] = g[i]
      BY <1>3, <2>2
    <3>2. g[i] = IF i = 0 THEN {s}
                 ELSE UNION {Serial!Outcomes(p[i], x) : x \in g[i - 1]}
      BY <1>5, <3>1 DEF RunsAs
    <3>3. i # 0 => h[i - 1] = g[i - 1]
      BY <1>3, <2>2
    <3> HIDE DEF h
    <3>4. QED
      BY <3>1, <3>2, <3>3
  <2>3. QED
    BY <2>1, <2>2
<1>7. RunsAs(h, p, s, m)
  <2>1. h = [i \in 0..m |-> h[i]]
    OBVIOUS
  <2> HIDE DEF h
  <2>2. QED
    BY <1>6, <2>1 DEF RunsAs
<1>8. QED
  BY <1>3, <1>7

LEMMA RunsAreRuns ==
  ASSUME NEW p, NEW s, Len(p) \in Nat
  PROVE  \E g : Leads(g, p, s) /\ Serial!Runs(p, s) = g[Len(p)]
<1>1. PICK g : RunsAs(g, p, s, Len(p)) /\ Serial!Runs(p, s) = g[Len(p)]
  <2>1. \E g : RunsAs(g, p, s, Len(p))
    BY RunsExist
  <2>2. QED
    BY <2>1 DEF RunsAs, Serial!Runs
<1>2. QED
  BY <1>1, RunsAt

(* A chain of outcomes ends in one of the ledgers that the program may leave. *)
LEMMA ChainIsRun ==
  ASSUME NEW p, Len(p) \in Nat, NEW w,
         \A i \in 1..Len(p) : w[i] \in Serial!Outcomes(p[i], w[i - 1])
  PROVE  w[Len(p)] \in Serial!Runs(p, w[0])
<1>1. PICK g : Leads(g, p, w[0]) /\ Serial!Runs(p, w[0]) = g[Len(p)]
  BY RunsAreRuns
<1> DEFINE Faulty == {i \in 0..Len(p) : w[i] \notin g[i]}
<1>2. SUFFICES ASSUME Faulty # {} PROVE FALSE
  BY <1>1 DEF Leads
<1>3. PICK i \in Faulty : \A k \in 0..Len(p) : k < i => k \notin Faulty
  <2>1. Faulty \subseteq 0..Len(p)
    OBVIOUS
  <2> HIDE DEF Faulty
  <2>2. QED
    BY <1>2, <2>1, FirstFault
<1>4. i \in 0..Len(p) /\ w[i] \notin g[i] /\ i # 0
  BY <1>1 DEF Leads
<1>5. w[i - 1] \in g[i - 1]
  <2>1. i - 1 \in 0..Len(p) /\ i - 1 < i
    BY <1>4
  <2>2. QED
    BY <1>3, <2>1
<1>6. i \in 1..Len(p)
  BY <1>4
<1>7. QED
  BY <1>1, <1>4, <1>5, <1>6 DEF Leads, After

(* What every verb of a program keeps, the program keeps.                    *)
LEMMA RunsKeep ==
  ASSUME NEW p, Len(p) \in Nat, NEW P, NEW s \in P,
         \A i \in 1..Len(p), x \in P : Serial!Outcomes(p[i], x) \subseteq P
  PROVE  Serial!Runs(p, s) \subseteq P
<1>1. PICK g : Leads(g, p, s) /\ Serial!Runs(p, s) = g[Len(p)]
  BY RunsAreRuns
<1> DEFINE Faulty == {i \in 0..Len(p) : ~(g[i] \subseteq P)}
<1>2. SUFFICES ASSUME Faulty # {} PROVE FALSE
  BY <1>1 DEF Leads
<1>3. PICK i \in Faulty : \A k \in 0..Len(p) : k < i => k \notin Faulty
  <2>1. Faulty \subseteq 0..Len(p)
    OBVIOUS
  <2> HIDE DEF Faulty
  <2>2. QED
    BY <1>2, <2>1, FirstFault
<1>4. i \in 0..Len(p) /\ ~(g[i] \subseteq P) /\ i # 0
  BY <1>1 DEF Leads
<1>5. g[i - 1] \subseteq P
  <2>1. i - 1 \in 0..Len(p) /\ i - 1 < i
    BY <1>4
  <2>2. QED
    BY <1>3, <2>1
<1>6. i \in 1..Len(p)
  BY <1>4
<1>7. QED
  BY <1>1, <1>4, <1>5, <1>6 DEF Leads, After

-----------------------------------------------------------------------------
(* The verbs of the serial ledger are those that the transactions run.       *)

LEMMA SameReads ==
  /\ \A a : Serial!Available(a) = Available(a) /\ Serial!Coverage(a) = Coverage(a)
  /\ \A s, h : /\ Serial!IsActive(s, h) = IsActive(s, h)
               /\ Serial!IsNew(s, h) = IsNew(s, h)
  /\ \A s, h, u, m : Serial!Replayed(s, h, u, m) = Replayed(s, h, u, m)
  /\ \A a, limit : Serial!FloorFits(a, limit) = FloorFits(a, limit)
BY DEF Available, Serial!Available, Coverage, Serial!Coverage, IsActive, Serial!IsActive,
       IsNew, Serial!IsNew, Replayed, Serial!Replayed, FloorFits, Serial!FloorFits

LEMMA SameWrites ==
  /\ \A s, a, m : Serial!Leg(s, a, m) = Leg(s, a, m) /\ Serial!Held(s, a, m) = Held(s, a, m)
  /\ \A s, v : /\ Serial!WithFloor(s, v) = WithFloor(s, v)
               /\ Serial!WithCredit(s, v) = WithCredit(s, v)
BY DEF Leg, Serial!Leg, Held, Serial!Held, WithFloor, Serial!WithFloor,
       WithCredit, Serial!WithCredit

LEMMA SameHolds ==
  /\ \A s, a, b, m : Serial!Posted(s, a, b, m) = Posted(s, a, b, m)
  /\ \A s, h, u, m : Serial!Reserved(s, h, u, m) = Reserved(s, h, u, m)
  /\ \A s, h, st : Serial!Ended(s, h, st) = Ended(s, h, st)
BY SameWrites DEF Posted, Serial!Posted, Reserved, Serial!Reserved, Ended, Serial!Ended

LEMMA SameSettled ==
  \A s, h, m : Serial!Settled(s, h, m) = Settled(s, h, m)
BY SameHolds DEF Settled, Serial!Settled

LEMMA SameVerbs ==
  ASSUME NEW v, NEW s
  PROVE  /\ Serial!Authorize(s, v) = Authorize(s, v)
         /\ Serial!OverHold(s, v) = OverHold(s, v)
         /\ \A h, m : Serial!Settle(s, h, m) = Settle(s, h, m)
         /\ \A h : Serial!SettleOver(s, h) = SettleOver(s, h)
         /\ \A h : Serial!Release(s, h) = Release(s, h)
         /\ Serial!Move(s, v) = Move(s, v)
         /\ Serial!SetCreditLimit(s, v) = SetCreditLimit(s, v)
         /\ Serial!SetDebitFloor(s, v) = SetDebitFloor(s, v)
<1>1. Serial!Authorize(s, v) = Authorize(s, v)
  BY SameReads, SameHolds DEF Authorize, Serial!Authorize
<1>2. Serial!OverHold(s, v) = OverHold(s, v)
  BY SameReads, SameHolds DEF OverHold, Serial!OverHold
<1>3. \A h, m : Serial!Settle(s, h, m) = Settle(s, h, m)
  BY SameReads, SameSettled DEF Settle, Serial!Settle
<1>4. \A h : Serial!SettleOver(s, h) = SettleOver(s, h)
  BY <1>3, SameReads DEF SettleOver, Serial!SettleOver
<1>5. \A h : Serial!Release(s, h) = Release(s, h)
  BY SameReads, SameHolds DEF Release, Serial!Release
<1>6. Serial!Move(s, v) = Move(s, v)
  <2>1. \A a, cash : Serial!Spendable(a, cash) = Spendable(a, cash)
    BY SameReads DEF Spendable, Serial!Spendable
  <2>2. QED
    BY <2>1, SameHolds DEF Move, Serial!Move
<1>7. Serial!SetCreditLimit(s, v) = SetCreditLimit(s, v)
  BY SameWrites DEF SetCreditLimit, Serial!SetCreditLimit
<1>8. Serial!SetDebitFloor(s, v) = SetDebitFloor(s, v)
  BY SameReads, SameWrites DEF SetDebitFloor, Serial!SetDebitFloor
<1>9. QED
  BY <1>1, <1>2, <1>3, <1>4, <1>5, <1>6, <1>7, <1>8

LEMMA SameOutcomes ==
  ASSUME NEW v, NEW s
  PROVE  Serial!Outcomes(v, s) = Outcomes(v, s)
BY SameVerbs DEF Outcomes, Serial!Outcomes

-----------------------------------------------------------------------------
(* What a verb looks at and changes is in the rows it locks.                 *)

\* The rows of R as in s, the others as in q.
Mix(s, q, R) ==
  [account |-> [a \in Accounts |-> IF a \in R THEN s.account[a] ELSE q.account[a]],
   hold |-> [h \in Holds |-> IF h \in R THEN s.hold[h] ELSE q.hold[h]]]

SameOn(R, s, q) ==
  /\ \A a \in Accounts : a \in R => s.account[a] = q.account[a]
  /\ \A h \in Holds : h \in R => s.hold[h] = q.hold[h]

LEMMA Ledgers ==
  ASSUME NEW s \in LedgerType, NEW q \in LedgerType,
         \A a \in Accounts : s.account[a] = q.account[a],
         \A h \in Holds : s.hold[h] = q.hold[h]
  PROVE  s = q
BY DEF LedgerType

LEMMA MixType ==
  ASSUME NEW s \in LedgerType, NEW q \in LedgerType, NEW R
  PROVE  Mix(s, q, R) \in LedgerType
BY DEF LedgerType, Mix

PutAccount(s, a, x) == [s EXCEPT !.account[a] = x]
PutHold(s, h, x) == [s EXCEPT !.hold[h] = x]

LEMMA PutAccountIs ==
  ASSUME NEW s \in LedgerType, NEW a \in Accounts, NEW x \in Account
  PROVE  /\ PutAccount(s, a, x) \in LedgerType
         /\ PutAccount(s, a, x).hold = s.hold
         /\ \A c \in Accounts :
              PutAccount(s, a, x).account[c] = IF c = a THEN x ELSE s.account[c]
BY DEF LedgerType, PutAccount

LEMMA PutHoldIs ==
  ASSUME NEW s \in LedgerType, NEW h \in Holds, NEW x \in Hold
  PROVE  /\ PutHold(s, h, x) \in LedgerType
         /\ PutHold(s, h, x).account = s.account
         /\ \A g \in Holds :
              PutHold(s, h, x).hold[g] = IF g = h THEN x ELSE s.hold[g]
BY DEF LedgerType, PutHold

LEMMA MixIs ==
  ASSUME NEW s \in LedgerType, NEW q \in LedgerType, NEW R
  PROVE  /\ Mix(s, q, R) \in LedgerType
         /\ \A a \in Accounts :
              Mix(s, q, R).account[a] = IF a \in R THEN s.account[a] ELSE q.account[a]
         /\ \A h \in Holds :
              Mix(s, q, R).hold[h] = IF h \in R THEN s.hold[h] ELSE q.hold[h]
BY DEF LedgerType, Mix

LEMMA MixSelf ==
  ASSUME NEW s \in LedgerType, NEW R
  PROVE  Mix(s, s, R) = s
BY MixIs, Ledgers

LEMMA MixPutAccount ==
  ASSUME NEW s \in LedgerType, NEW q \in LedgerType, NEW R,
         NEW a \in Accounts, NEW x \in Account, a \in R
  PROVE  PutAccount(Mix(s, q, R), a, x) = Mix(PutAccount(s, a, x), q, R)
<1>1. PICK m : m = Mix(s, q, R)
  OBVIOUS
<1>2. PICK y : y = PutAccount(s, a, x)
  OBVIOUS
<1>3. m \in LedgerType
  BY <1>1, MixIs
<1>4. y \in LedgerType /\ y.hold = s.hold
  BY <1>2, PutAccountIs
<1>5. /\ PutAccount(m, a, x) \in LedgerType /\ Mix(y, q, R) \in LedgerType
      /\ PutAccount(m, a, x).hold = m.hold
  BY <1>3, <1>4, MixIs, PutAccountIs
<1>6. ASSUME NEW c \in Accounts
      PROVE  PutAccount(m, a, x).account[c] = Mix(y, q, R).account[c]
  <2>1. PutAccount(m, a, x).account[c] = IF c = a THEN x ELSE m.account[c]
    BY <1>3, PutAccountIs
  <2>2. y.account[c] = IF c = a THEN x ELSE s.account[c]
    BY <1>2, PutAccountIs
  <2>3. /\ m.account[c] = IF c \in R THEN s.account[c] ELSE q.account[c]
        /\ Mix(y, q, R).account[c] = IF c \in R THEN y.account[c] ELSE q.account[c]
    BY <1>1, <1>4, MixIs
  <2>4. QED
    BY <2>1, <2>2, <2>3
<1>7. ASSUME NEW h \in Holds
      PROVE  PutAccount(m, a, x).hold[h] = Mix(y, q, R).hold[h]
  BY <1>1, <1>3, <1>4, <1>5, MixIs
<1>8. QED
  BY <1>1, <1>2, <1>5, <1>6, <1>7, Ledgers

LEMMA MixPutHold ==
  ASSUME NEW s \in LedgerType, NEW q \in LedgerType, NEW R,
         NEW h \in Holds, NEW x \in Hold, h \in R
  PROVE  PutHold(Mix(s, q, R), h, x) = Mix(PutHold(s, h, x), q, R)
<1>1. PICK m : m = Mix(s, q, R)
  OBVIOUS
<1>2. PICK y : y = PutHold(s, h, x)
  OBVIOUS
<1>3. m \in LedgerType
  BY <1>1, MixIs
<1>4. y \in LedgerType /\ y.account = s.account
  BY <1>2, PutHoldIs
<1>5. /\ PutHold(m, h, x) \in LedgerType /\ Mix(y, q, R) \in LedgerType
      /\ PutHold(m, h, x).account = m.account
  BY <1>3, <1>4, MixIs, PutHoldIs
<1>6. ASSUME NEW g \in Holds
      PROVE  PutHold(m, h, x).hold[g] = Mix(y, q, R).hold[g]
  <2>1. PutHold(m, h, x).hold[g] = IF g = h THEN x ELSE m.hold[g]
    BY <1>3, PutHoldIs
  <2>2. y.hold[g] = IF g = h THEN x ELSE s.hold[g]
    BY <1>2, PutHoldIs
  <2>3. /\ m.hold[g] = IF g \in R THEN s.hold[g] ELSE q.hold[g]
        /\ Mix(y, q, R).hold[g] = IF g \in R THEN y.hold[g] ELSE q.hold[g]
    BY <1>1, <1>4, MixIs
  <2>4. QED
    BY <2>1, <2>2, <2>3
<1>7. ASSUME NEW a \in Accounts
      PROVE  PutHold(m, h, x).account[a] = Mix(y, q, R).account[a]
  BY <1>1, <1>3, <1>4, <1>5, MixIs
<1>8. QED
  BY <1>1, <1>2, <1>5, <1>6, <1>7, Ledgers

-----------------------------------------------------------------------------
(* What the verbs write, row by row.                                         *)

Paid(a, m) == [a EXCEPT !.balance = @ + m]
Bound(a, m) == [a EXCEPT !.inFlight = @ + m]
Credited(a, m) == [a EXCEPT !.credit = m]
Floored(a, m) == [a EXCEPT !.floor = m]
As(x, st) == [x EXCEPT !.status = st]
NewHold(u, m) == [user |-> u, amount |-> m, status |-> "active"]

LEMMA RowsAre ==
  /\ \A a \in Account, m \in Int : Paid(a, m) \in Account /\ Bound(a, m) \in Account
  /\ \A a \in Account, m \in Nat : Credited(a, m) \in Account /\ Floored(a, m) \in Account
  /\ \A x \in Hold, st \in HoldStatus : As(x, st) \in Hold
  /\ \A u \in Users, m \in Nat : NewHold(u, m) \in Hold
BY DEF Account, Hold, HoldStatus, Paid, Bound, Credited, Floored, As, NewHold

LEMMA Writes ==
  ASSUME NEW s
  PROVE  /\ \A a, m : Leg(s, a, m) = PutAccount(s, a, Paid(s.account[a], m))
         /\ \A a, m : Held(s, a, m) = PutAccount(s, a, Bound(s.account[a], m))
         /\ \A v : WithFloor(s, v) =
                     PutAccount(s, v.user, Floored(s.account[v.user], v.limit))
         /\ \A v : WithCredit(s, v) =
                     PutAccount(s, v.user, Credited(s.account[v.user], v.limit))
         /\ \A h, u, m : Reserved(s, h, u, m) = PutHold(Held(s, u, m), h, NewHold(u, m))
<1>1. \A a, m : Leg(s, a, m) = PutAccount(s, a, Paid(s.account[a], m))
  BY DEF Leg, Paid, PutAccount
<1>2. \A a, m : Held(s, a, m) = PutAccount(s, a, Bound(s.account[a], m))
  BY DEF Held, Bound, PutAccount
<1>3. \A v : WithFloor(s, v) =
               PutAccount(s, v.user, Floored(s.account[v.user], v.limit))
  BY DEF WithFloor, Floored, PutAccount
<1>4. \A v : WithCredit(s, v) =
               PutAccount(s, v.user, Credited(s.account[v.user], v.limit))
  BY DEF WithCredit, Credited, PutAccount
<1>5. \A h, u, m : Reserved(s, h, u, m) = PutHold(Held(s, u, m), h, NewHold(u, m))
  BY DEF Reserved, NewHold, PutHold
<1>6. QED
  BY <1>1, <1>2, <1>3, <1>4, <1>5

LEMMA RowTypes ==
  ASSUME NEW s \in LedgerType
  PROVE  /\ \A a \in Accounts :
              /\ s.account[a] \in Account
              /\ s.account[a].balance \in Int /\ s.account[a].inFlight \in Int
              /\ s.account[a].credit \in Nat /\ s.account[a].floor \in Nat
         /\ \A h \in Holds :
              /\ s.hold[h] \in Hold /\ s.hold[h].user \in Users
              /\ s.hold[h].amount \in Nat /\ s.hold[h].status \in HoldStatus
BY DEF LedgerType, Account, Hold

LEMMA LegIs ==
  ASSUME NEW s \in LedgerType, NEW a \in Accounts, NEW m \in Int
  PROVE  /\ Leg(s, a, m) \in LedgerType
         /\ Leg(s, a, m).hold = s.hold
         /\ \A c \in Accounts : Leg(s, a, m).account[c] =
              IF c = a THEN Paid(s.account[c], m) ELSE s.account[c]
<1>1. Paid(s.account[a], m) \in Account
  BY RowTypes, RowsAre
<1>2. QED
  BY <1>1, Writes, PutAccountIs

LEMMA HeldIs ==
  ASSUME NEW s \in LedgerType, NEW a \in Accounts, NEW m \in Int
  PROVE  /\ Held(s, a, m) \in LedgerType
         /\ Held(s, a, m).hold = s.hold
         /\ \A c \in Accounts : Held(s, a, m).account[c] =
              IF c = a THEN Bound(s.account[c], m) ELSE s.account[c]
<1>1. Bound(s.account[a], m) \in Account
  BY RowTypes, RowsAre
<1>2. QED
  BY <1>1, Writes, PutAccountIs

LEMMA UsersAreAccounts ==
  /\ Users \subseteq Accounts /\ Revenue \in Accounts /\ Revenue \notin Users
BY AccountsAssumption DEF Accounts

LEMMA PostedIs ==
  ASSUME NEW s \in LedgerType, NEW a \in Accounts, NEW b \in Accounts, NEW m \in Int
  PROVE  /\ Posted(s, a, b, m) \in LedgerType
         /\ Posted(s, a, b, m).hold = s.hold
         /\ \A c \in Accounts : Posted(s, a, b, m).account[c] =
              LET x == IF c = a THEN Paid(s.account[c], -m) ELSE s.account[c]
              IN IF c = b THEN Paid(x, m) ELSE x
<1>1. PICK t : t = Leg(s, a, -m)
  OBVIOUS
<1>2. /\ t \in LedgerType /\ t.hold = s.hold /\ -m \in Int
      /\ \A c \in Accounts : t.account[c] =
           IF c = a THEN Paid(s.account[c], -m) ELSE s.account[c]
  BY <1>1, LegIs
<1>3. PICK p : p = Posted(s, a, b, m)
  OBVIOUS
<1>4. p = Leg(t, b, m)
  BY <1>1, <1>3 DEF Posted
<1>5. /\ p \in LedgerType /\ p.hold = t.hold
      /\ \A c \in Accounts : p.account[c] =
           IF c = b THEN Paid(t.account[c], m) ELSE t.account[c]
  <2>1. t \in LedgerType
    BY <1>2
  <2>2. /\ Leg(t, b, m) \in LedgerType /\ Leg(t, b, m).hold = t.hold
        /\ \A c \in Accounts : Leg(t, b, m).account[c] =
             IF c = b THEN Paid(t.account[c], m) ELSE t.account[c]
    BY <2>1, LegIs
  <2>3. QED
    BY <1>4, <2>2
<1>6. QED
  BY <1>2, <1>3, <1>5

LEMMA ReservedIs ==
  ASSUME NEW s \in LedgerType, NEW h \in Holds, NEW u \in Users, NEW m \in Nat
  PROVE  /\ Reserved(s, h, u, m) \in LedgerType
         /\ \A g \in Holds : Reserved(s, h, u, m).hold[g] =
              IF g = h THEN NewHold(u, m) ELSE s.hold[g]
         /\ \A c \in Accounts : Reserved(s, h, u, m).account[c] =
              IF c = u THEN Bound(s.account[c], m) ELSE s.account[c]
<1>1. PICK t : t = Held(s, u, m)
  OBVIOUS
<1>2. u \in Accounts /\ m \in Int
  BY UsersAreAccounts
<1>3. /\ t \in LedgerType /\ t.hold = s.hold
      /\ \A c \in Accounts : t.account[c] =
           IF c = u THEN Bound(s.account[c], m) ELSE s.account[c]
  BY <1>1, <1>2, HeldIs
<1>4. PICK y : y = NewHold(u, m)
  OBVIOUS
<1>5. y \in Hold
  BY <1>4, RowsAre
<1>6. PICK p : p = PutHold(t, h, y)
  OBVIOUS
<1>7. Reserved(s, h, u, m) = p
  <2>1. Reserved(s, h, u, m) = PutHold(Held(s, u, m), h, NewHold(u, m))
    BY Writes
  <2>2. QED
    BY <1>1, <1>4, <1>6, <2>1
<1>8. /\ p \in LedgerType /\ p.account = t.account
      /\ \A g \in Holds : p.hold[g] = IF g = h THEN y ELSE s.hold[g]
  BY <1>3, <1>5, <1>6, PutHoldIs
<1>9. QED
  BY <1>3, <1>4, <1>7, <1>8

LEMMA EndedIs ==
  ASSUME NEW s \in LedgerType, NEW h \in Holds, NEW st \in HoldStatus
  PROVE  /\ Ended(s, h, st) =
              PutHold(Held(s, s.hold[h].user, -s.hold[h].amount), h, As(s.hold[h], st))
         /\ Ended(s, h, st) \in LedgerType
         /\ \A g \in Holds : Ended(s, h, st).hold[g] =
              IF g = h THEN As(s.hold[g], st) ELSE s.hold[g]
         /\ \A c \in Accounts : Ended(s, h, st).account[c] =
              IF c = s.hold[h].user THEN Bound(s.account[c], -s.hold[h].amount)
              ELSE s.account[c]
<1>1. PICK t : t = Held(s, s.hold[h].user, -s.hold[h].amount)
  OBVIOUS
<1>2. /\ s.hold[h].user \in Accounts /\ -s.hold[h].amount \in Int
      /\ s.hold[h] \in Hold /\ As(s.hold[h], st) \in Hold
  BY UsersAreAccounts, RowTypes, RowsAre
<1>3. /\ t \in LedgerType /\ t.hold = s.hold
      /\ \A c \in Accounts : t.account[c] =
           IF c = s.hold[h].user THEN Bound(s.account[c], -s.hold[h].amount)
           ELSE s.account[c]
  BY <1>1, <1>2, HeldIs
<1>4. Ended(s, h, st) = PutHold(t, h, As(t.hold[h], st))
  BY <1>1 DEF Ended, PutHold, As
<1>5. Ended(s, h, st) = PutHold(t, h, As(s.hold[h], st))
  BY <1>3, <1>4
<1>6. PICK y \in Hold : y = As(s.hold[h], st)
  BY <1>2
<1>7. PICK p : p = PutHold(t, h, y)
  OBVIOUS
<1>8. Ended(s, h, st) = p
  BY <1>5, <1>6, <1>7
<1>9. /\ p \in LedgerType /\ p.account = t.account
      /\ \A g \in Holds : p.hold[g] = IF g = h THEN y ELSE s.hold[g]
  BY <1>3, <1>7, PutHoldIs
<1>10. p = PutHold(Held(s, s.hold[h].user, -s.hold[h].amount), h, As(s.hold[h], st))
  BY <1>1, <1>6, <1>7
<1>11. \A g \in Holds : p.hold[g] = IF g = h THEN As(s.hold[g], st) ELSE s.hold[g]
  BY <1>6, <1>9
<1>12. QED
  BY <1>3, <1>8, <1>9, <1>10, <1>11

LEMMA SettledIs ==
  ASSUME NEW s \in LedgerType, NEW h \in Holds, NEW m \in Nat
  PROVE  /\ Settled(s, h, m) \in LedgerType
         /\ \A g \in Holds : Settled(s, h, m).hold[g] =
              IF g = h THEN As(s.hold[g], "settled") ELSE s.hold[g]
         /\ \A c \in Accounts : Settled(s, h, m).account[c] =
              IF c = s.hold[h].user
              THEN Paid(Bound(s.account[c], -s.hold[h].amount), -m)
              ELSE IF c = Revenue THEN Paid(s.account[c], m) ELSE s.account[c]
<1>1. PICK t : t = Ended(s, h, "settled")
  OBVIOUS
<1>2. s.hold[h].user \in Users /\ s.hold[h].user \in Accounts /\ s.hold[h].user # Revenue
  BY UsersAreAccounts, RowTypes
<1>3. /\ t \in LedgerType
      /\ \A g \in Holds : t.hold[g] = IF g = h THEN As(s.hold[g], "settled") ELSE s.hold[g]
      /\ \A c \in Accounts : t.account[c] =
           IF c = s.hold[h].user THEN Bound(s.account[c], -s.hold[h].amount)
           ELSE s.account[c]
  <2>1. "settled" \in HoldStatus
    BY DEF HoldStatus
  <2>2. QED
    BY <1>1, <2>1, EndedIs
<1>4. PICK p : p = Settled(s, h, m)
  OBVIOUS
<1>5. p = Posted(t, s.hold[h].user, Revenue, m)
  BY <1>1, <1>4 DEF Settled
<1>6. /\ p \in LedgerType /\ p.hold = t.hold
      /\ \A c \in Accounts : p.account[c] =
           LET x == IF c = s.hold[h].user THEN Paid(t.account[c], -m) ELSE t.account[c]
           IN IF c = Revenue THEN Paid(x, m) ELSE x
  <2>1. PICK u \in Accounts : u = s.hold[h].user
    BY <1>2
  <2>2. t \in LedgerType /\ m \in Int /\ Revenue \in Accounts
    BY <1>3, UsersAreAccounts
  <2>3. /\ Posted(t, u, Revenue, m) \in LedgerType
        /\ Posted(t, u, Revenue, m).hold = t.hold
        /\ \A c \in Accounts : Posted(t, u, Revenue, m).account[c] =
             LET x == IF c = u THEN Paid(t.account[c], -m) ELSE t.account[c]
             IN IF c = Revenue THEN Paid(x, m) ELSE x
    BY <2>2, PostedIs
  <2>4. QED
    BY <1>5, <2>1, <2>3
<1>7. QED
  BY <1>2, <1>3, <1>4, <1>6

LEMMA LimitIs ==
  ASSUME NEW s \in LedgerType, NEW v, v.user \in Users, v.limit \in Nat
  PROVE  /\ WithFloor(s, v) \in LedgerType /\ WithFloor(s, v).hold = s.hold
         /\ \A c \in Accounts : WithFloor(s, v).account[c] =
              IF c = v.user THEN Floored(s.account[c], v.limit) ELSE s.account[c]
         /\ WithCredit(s, v) \in LedgerType /\ WithCredit(s, v).hold = s.hold
         /\ \A c \in Accounts : WithCredit(s, v).account[c] =
              IF c = v.user THEN Credited(s.account[c], v.limit) ELSE s.account[c]
<1>1. PICK f : f = Floored(s.account[v.user], v.limit)
  OBVIOUS
<1>2. PICK l : l = Credited(s.account[v.user], v.limit)
  OBVIOUS
<1>3. v.user \in Accounts /\ f \in Account /\ l \in Account
  BY <1>1, <1>2, UsersAreAccounts, RowTypes, RowsAre
<1>4. PICK u \in Accounts : u = v.user
  BY <1>3
<1>5. PICK p : p = PutAccount(s, u, f)
  OBVIOUS
<1>6. PICK y : y = PutAccount(s, u, l)
  OBVIOUS
<1>7. /\ p \in LedgerType /\ p.hold = s.hold
      /\ \A c \in Accounts : p.account[c] = IF c = u THEN f ELSE s.account[c]
  <2>1. f \in Account
    BY <1>3
  <2>2. QED
    BY <1>5, <2>1, PutAccountIs
<1>8. /\ y \in LedgerType /\ y.hold = s.hold
      /\ \A c \in Accounts : y.account[c] = IF c = u THEN l ELSE s.account[c]
  <2>1. l \in Account
    BY <1>3
  <2>2. QED
    BY <1>6, <2>1, PutAccountIs
<1>9. \A c \in Accounts : p.account[c] =
        IF c = v.user THEN Floored(s.account[c], v.limit) ELSE s.account[c]
  BY <1>1, <1>4, <1>7
<1>10. \A c \in Accounts : y.account[c] =
         IF c = v.user THEN Credited(s.account[c], v.limit) ELSE s.account[c]
  BY <1>2, <1>4, <1>8
<1>11. WithFloor(s, v) = p
  BY <1>1, <1>4, <1>5, Writes
<1>12. WithCredit(s, v) = y
  BY <1>2, <1>4, <1>6, Writes
<1>13. QED
  BY <1>7, <1>8, <1>9, <1>10, <1>11, <1>12

-----------------------------------------------------------------------------
(* The same on a mixed ledger.                                               *)

LEMMA MixLeg ==
  ASSUME NEW s \in LedgerType, NEW q \in LedgerType, NEW R,
         NEW a \in Accounts, NEW m \in Int, a \in R
  PROVE  /\ Leg(Mix(s, q, R), a, m) = Mix(Leg(s, a, m), q, R)
         /\ Held(Mix(s, q, R), a, m) = Mix(Held(s, a, m), q, R)
<1>1. Mix(s, q, R).account[a] = s.account[a]
  BY MixIs
<1>2. Paid(s.account[a], m) \in Account /\ Bound(s.account[a], m) \in Account
  BY RowTypes, RowsAre
<1>3. QED
  BY <1>1, <1>2, Writes, MixPutAccount

LEMMA MixPosted ==
  ASSUME NEW s \in LedgerType, NEW q \in LedgerType, NEW R,
         NEW a \in Accounts, NEW b \in Accounts, NEW m \in Int, a \in R, b \in R
  PROVE  Posted(Mix(s, q, R), a, b, m) = Mix(Posted(s, a, b, m), q, R)
<1>1. PICK t : t = Leg(s, a, -m)
  OBVIOUS
<1>2. t \in LedgerType /\ -m \in Int
  BY <1>1, LegIs
<1>3. Leg(Mix(s, q, R), a, -m) = Mix(t, q, R)
  BY <1>1, <1>2, MixLeg
<1>4. Leg(Mix(t, q, R), b, m) = Mix(Leg(t, b, m), q, R)
  BY <1>2, MixLeg
<1>5. QED
  BY <1>1, <1>3, <1>4 DEF Posted

LEMMA MixReserved ==
  ASSUME NEW s \in LedgerType, NEW q \in LedgerType, NEW R,
         NEW h \in Holds, NEW u \in Users, NEW m \in Nat, h \in R, u \in R
  PROVE  Reserved(Mix(s, q, R), h, u, m) = Mix(Reserved(s, h, u, m), q, R)
<1>1. PICK t : t = Held(s, u, m)
  OBVIOUS
<1>2. u \in Accounts /\ t \in LedgerType /\ NewHold(u, m) \in Hold
  BY <1>1, HeldIs, RowsAre, UsersAreAccounts
<1>3. Held(Mix(s, q, R), u, m) = Mix(t, q, R)
  BY <1>1, <1>2, MixLeg
<1>4. PutHold(Mix(t, q, R), h, NewHold(u, m)) = Mix(PutHold(t, h, NewHold(u, m)), q, R)
  BY <1>2, MixPutHold
<1>5. QED
  BY <1>1, <1>3, <1>4, Writes

LEMMA MixEnded ==
  ASSUME NEW s \in LedgerType, NEW q \in LedgerType, NEW R,
         NEW h \in Holds, NEW st \in HoldStatus, h \in R, s.hold[h].user \in R
  PROVE  Ended(Mix(s, q, R), h, st) = Mix(Ended(s, h, st), q, R)
<1>1. PICK t : t = Held(s, s.hold[h].user, -s.hold[h].amount)
  OBVIOUS
<1>2. PICK m : m = Mix(s, q, R)
  OBVIOUS
<1>3. /\ s.hold[h].user \in Accounts /\ -s.hold[h].amount \in Int
      /\ As(s.hold[h], st) \in Hold
  BY UsersAreAccounts, RowTypes, RowsAre
<1>4. t \in LedgerType /\ m \in LedgerType /\ m.hold[h] = s.hold[h]
  BY <1>1, <1>2, <1>3, HeldIs, MixIs
<1>5. Held(m, m.hold[h].user, -m.hold[h].amount) = Mix(t, q, R)
  BY <1>1, <1>2, <1>3, <1>4, MixLeg
<1>6. PutHold(Mix(t, q, R), h, As(s.hold[h], st)) = Mix(PutHold(t, h, As(s.hold[h], st)), q, R)
  BY <1>3, <1>4, MixPutHold
<1>7. QED
  BY <1>1, <1>2, <1>4, <1>5, <1>6, EndedIs

LEMMA MixSettled ==
  ASSUME NEW s \in LedgerType, NEW q \in LedgerType, NEW R,
         NEW h \in Holds, NEW m \in Nat,
         h \in R, s.hold[h].user \in R, Revenue \in R
  PROVE  Settled(Mix(s, q, R), h, m) = Mix(Settled(s, h, m), q, R)
<1>1. PICK t : t = Ended(s, h, "settled")
  OBVIOUS
<1>2. "settled" \in HoldStatus
  BY DEF HoldStatus
<1>3. t \in LedgerType /\ s.hold[h].user \in Accounts /\ Mix(s, q, R).hold[h] = s.hold[h]
  BY <1>1, <1>2, EndedIs, RowTypes, UsersAreAccounts, MixIs
<1>4. Ended(Mix(s, q, R), h, "settled") = Mix(t, q, R)
  BY <1>1, <1>2, MixEnded
<1>5. Posted(Mix(t, q, R), s.hold[h].user, Revenue, m)
        = Mix(Posted(t, s.hold[h].user, Revenue, m), q, R)
  BY <1>3, MixPosted, UsersAreAccounts
<1>6. QED
  BY <1>1, <1>3, <1>4, <1>5 DEF Settled

LEMMA MixLimit ==
  ASSUME NEW s \in LedgerType, NEW q \in LedgerType, NEW R,
         NEW v, v.user \in Users, v.limit \in Nat, v.user \in R
  PROVE  /\ WithFloor(Mix(s, q, R), v) = Mix(WithFloor(s, v), q, R)
         /\ WithCredit(Mix(s, q, R), v) = Mix(WithCredit(s, v), q, R)
<1>1. v.user \in Accounts /\ Mix(s, q, R).account[v.user] = s.account[v.user]
  BY MixIs, UsersAreAccounts
<1>2. /\ Floored(s.account[v.user], v.limit) \in Account
      /\ Credited(s.account[v.user], v.limit) \in Account
  BY <1>1, RowTypes, RowsAre
<1>3. QED
  BY <1>1, <1>2, Writes, MixPutAccount

-----------------------------------------------------------------------------
(* What a verb does on the rows it locks it does whatever the other rows are. *)

\* x is what v may leave of s; of a floor that it is written, covered or not.
Explains(v, s, x) ==
  IF v.kind = "floor" THEN x = WithFloor(s, v) ELSE x \in Outcomes(v, s)

\* R has the rows that v looks at and writes.
Footprint(v, s, R) ==
  /\ v.kind \in {"authorize", "overhold", "creditline", "floor"} => v.user \in R
  /\ v.kind \in {"authorize", "overhold", "settle", "settleover", "release"} => v.hold \in R
  /\ v.kind \in {"settle", "settleover", "release"} /\ IsActive(s, v.hold) =>
       s.hold[v.hold].user \in R
  /\ v.kind \in {"settle", "settleover"} /\ IsActive(s, v.hold) => Revenue \in R
  /\ v.kind = "move" => v.from \in R /\ v.to \in R

LEMMA VerbIs ==
  ASSUME NEW v \in Verb
  PROVE  \/ /\ v.kind \in {"authorize", "overhold"}
            /\ v.hold \in Holds /\ v.user \in Users /\ v.amount \in Nat \ {0}
         \/ v.kind = "settle" /\ v.hold \in Holds /\ v.amount \in Nat \ {0}
         \/ v.kind \in {"settleover", "release"} /\ v.hold \in Holds
         \/ /\ v.kind = "move" /\ v.from \in Accounts /\ v.to \in Accounts
            /\ v.amount \in Nat \ {0} /\ v.cash \in BOOLEAN
         \/ v.kind \in {"creditline", "floor"} /\ v.user \in Users /\ v.limit \in Nat
BY DEF Verb

LEMMA MixReads ==
  ASSUME NEW s \in LedgerType, NEW q \in LedgerType, NEW R
  PROVE  /\ \A h \in Holds : h \in R =>
              /\ Mix(s, q, R).hold[h] = s.hold[h]
              /\ IsNew(Mix(s, q, R), h) = IsNew(s, h)
              /\ IsActive(Mix(s, q, R), h) = IsActive(s, h)
         /\ \A a \in Accounts : a \in R => Mix(s, q, R).account[a] = s.account[a]
BY MixIs DEF IsNew, IsActive

\* Of a ledger that verb v may leave of s: it is in type, only rows of R
\* changed, and with other rows outside R it is left as well.
Local(v, s, x, R) ==
  /\ x \in LedgerType
  /\ \A q \in LedgerType : Explains(v, Mix(s, q, R), Mix(x, q, R))
  /\ Mix(x, s, R) = x

LEMMA LocalSame ==
  ASSUME NEW s \in LedgerType, NEW R, NEW v,
         \A q \in LedgerType : Explains(v, Mix(s, q, R), Mix(s, q, R))
  PROVE  Local(v, s, s, R)
BY MixSelf DEF Local

LEMMA LocalReserve ==
  ASSUME NEW s \in LedgerType, NEW R, NEW v,
         v.kind \in {"authorize", "overhold"}, v.hold \in Holds, v.user \in Users,
         v.amount \in Nat \ {0}, v.hold \in R, v.user \in R,
         NEW x, x \in Outcomes(v, s)
  PROVE  Local(v, s, x, R)
<1>1. v.user \in Accounts
  BY UsersAreAccounts
<1>2. ASSUME NEW m \in Nat, x = Reserved(s, v.hold, v.user, m),
             \A q \in LedgerType :
               Reserved(Mix(s, q, R), v.hold, v.user, m) \in Outcomes(v, Mix(s, q, R))
      PROVE  Local(v, s, x, R)
  <2>1. x \in LedgerType
    BY <1>2, ReservedIs
  <2>2. \A q \in LedgerType :
          Reserved(Mix(s, q, R), v.hold, v.user, m) = Mix(x, q, R)
    BY <1>2, MixReserved
  <2>3. Mix(x, s, R) = x
    BY <1>2, <2>2, MixSelf
  <2>4. QED
    BY <1>2, <2>1, <2>2, <2>3 DEF Local, Explains
<1>3. CASE v.kind = "authorize" /\ IsNew(s, v.hold)
  <2>1. /\ Available(s.account[v.user]) >= v.amount
        /\ x = Reserved(s, v.hold, v.user, v.amount)
    BY <1>3 DEF Outcomes, Authorize
  <2>2. \A q \in LedgerType :
          Reserved(Mix(s, q, R), v.hold, v.user, v.amount) \in Outcomes(v, Mix(s, q, R))
    BY <1>1, <1>3, <2>1, MixReads DEF Outcomes, Authorize
  <2>3. QED
    BY <1>2, <2>1, <2>2
<1>4. CASE v.kind = "authorize" /\ ~IsNew(s, v.hold)
  <2>1. x = s /\ s.hold[v.hold].user = v.user /\ s.hold[v.hold].amount = v.amount
    BY <1>4 DEF Outcomes, Authorize, Replayed
  <2>2. \A q \in LedgerType : Mix(s, q, R) \in Outcomes(v, Mix(s, q, R))
    BY <1>4, <2>1, MixReads DEF Outcomes, Authorize, Replayed
  <2>3. QED
    BY <1>4, <2>1, <2>2, LocalSame DEF Explains
<1>5. CASE v.kind = "overhold" /\ x = s
  <2>1. \A q \in LedgerType : Mix(s, q, R) \in Outcomes(v, Mix(s, q, R))
    BY <1>5 DEF Outcomes, OverHold
  <2>2. QED
    BY <1>5, <2>1, LocalSame DEF Explains
<1>6. CASE v.kind = "overhold" /\ x # s
  <2>1. PICK m \in 1..v.amount :
          /\ IsNew(s, v.hold) /\ m <= Coverage(s.account[v.user])
          /\ x = Reserved(s, v.hold, v.user, m)
    BY <1>6 DEF Outcomes, OverHold
  <2>2. \A q \in LedgerType :
          Reserved(Mix(s, q, R), v.hold, v.user, m) \in Outcomes(v, Mix(s, q, R))
    BY <1>1, <1>6, <2>1, MixReads DEF Outcomes, OverHold
  <2>3. QED
    BY <1>2, <2>1, <2>2
<1>7. QED
  BY <1>3, <1>4, <1>5, <1>6

LEMMA LocalSettle ==
  ASSUME NEW s \in LedgerType, NEW R, NEW v,
         v.kind \in {"settle", "settleover"}, v.hold \in Holds,
         v.kind = "settle" => v.amount \in Nat \ {0}, v.hold \in R,
         IsActive(s, v.hold) => s.hold[v.hold].user \in R /\ Revenue \in R,
         NEW x, x \in Outcomes(v, s)
  PROVE  Local(v, s, x, R)
<1> DEFINE m == IF v.kind = "settle" THEN v.amount ELSE s.hold[v.hold].amount
<1>1. m \in Nat
  BY RowTypes
<1>2. CASE IsActive(s, v.hold)
  <2>1. ~IsNew(s, v.hold)
    BY <1>2 DEF IsActive, IsNew
  <2>2. x = Settled(s, v.hold, m) /\ m <= s.hold[v.hold].amount
    BY <1>2, <2>1 DEF Outcomes, Settle, SettleOver
  <2>3. x \in LedgerType
    BY <1>1, <2>2, SettledIs
  <2>4. ASSUME NEW q \in LedgerType
        PROVE  Settled(Mix(s, q, R), v.hold, m) \in Outcomes(v, Mix(s, q, R))
    <3>1. /\ Mix(s, q, R).hold[v.hold] = s.hold[v.hold]
          /\ IsActive(Mix(s, q, R), v.hold) /\ ~IsNew(Mix(s, q, R), v.hold)
      BY <1>2, <2>1, MixReads
    <3>2. QED
      BY <2>2, <3>1 DEF Outcomes, Settle, SettleOver
  <2>5. \A q \in LedgerType : Settled(Mix(s, q, R), v.hold, m) = Mix(x, q, R)
    BY <1>1, <1>2, <2>2, MixSettled
  <2>6. Mix(x, s, R) = x
    BY <2>2, <2>5, MixSelf
  <2>7. QED
    BY <2>3, <2>4, <2>5, <2>6 DEF Local, Explains
<1>3. CASE ~IsActive(s, v.hold)
  <2>1. x = s /\ (s.hold[v.hold].status = "settled" \/ (v.kind = "settleover" /\ IsNew(s, v.hold)))
    BY <1>3 DEF Outcomes, Settle, SettleOver
  <2>2. ASSUME NEW q \in LedgerType
        PROVE  Mix(s, q, R) \in Outcomes(v, Mix(s, q, R))
    <3>1. /\ Mix(s, q, R).hold[v.hold] = s.hold[v.hold]
          /\ ~IsActive(Mix(s, q, R), v.hold)
          /\ IsNew(Mix(s, q, R), v.hold) = IsNew(s, v.hold)
      BY <1>3, MixReads
    <3>2. QED
      BY <2>1, <3>1 DEF Outcomes, Settle, SettleOver
  <2>3. QED
    BY <2>1, <2>2, LocalSame DEF Explains
<1>4. QED
  BY <1>2, <1>3

LEMMA LocalRelease ==
  ASSUME NEW s \in LedgerType, NEW R, NEW v,
         v.kind = "release", v.hold \in Holds, v.hold \in R,
         IsActive(s, v.hold) => s.hold[v.hold].user \in R,
         NEW x, x \in Outcomes(v, s)
  PROVE  Local(v, s, x, R)
<1>1. CASE IsActive(s, v.hold)
  <2>1. x = Ended(s, v.hold, "released") /\ "released" \in HoldStatus
    BY <1>1 DEF Outcomes, Release, HoldStatus
  <2>2. x \in LedgerType
    BY <2>1, EndedIs
  <2>3. \A q \in LedgerType :
          Ended(Mix(s, q, R), v.hold, "released") \in Outcomes(v, Mix(s, q, R))
    BY <1>1, MixReads DEF Outcomes, Release
  <2>4. \A q \in LedgerType : Ended(Mix(s, q, R), v.hold, "released") = Mix(x, q, R)
    BY <1>1, <2>1, MixEnded
  <2>5. Mix(x, s, R) = x
    BY <2>1, <2>4, MixSelf
  <2>6. QED
    BY <2>2, <2>3, <2>4, <2>5 DEF Local, Explains
<1>2. CASE ~IsActive(s, v.hold)
  <2>1. x = s /\ s.hold[v.hold].status = "released"
    BY <1>2 DEF Outcomes, Release
  <2>2. \A q \in LedgerType : Mix(s, q, R) \in Outcomes(v, Mix(s, q, R))
    BY <1>2, <2>1, MixReads DEF Outcomes, Release
  <2>3. QED
    BY <2>1, <2>2, LocalSame DEF Explains
<1>3. QED
  BY <1>1, <1>2

LEMMA LocalMove ==
  ASSUME NEW s \in LedgerType, NEW R, NEW v,
         v.kind = "move", v.from \in Accounts, v.to \in Accounts,
         v.amount \in Nat \ {0}, v.from \in R, v.to \in R,
         NEW x, x \in Outcomes(v, s)
  PROVE  Local(v, s, x, R)
<1>1. /\ x = Posted(s, v.from, v.to, v.amount) /\ v.amount \in Int
      /\ v.from \in Users => Spendable(s.account[v.from], v.cash) >= v.amount
  BY DEF Outcomes, Move
<1>2. x \in LedgerType
  BY <1>1, PostedIs
<1>3. ASSUME NEW q \in LedgerType
      PROVE  Posted(Mix(s, q, R), v.from, v.to, v.amount) \in Outcomes(v, Mix(s, q, R))
  <2>1. Mix(s, q, R).account[v.from] = s.account[v.from]
    BY MixReads
  <2>2. QED
    BY <1>1, <2>1 DEF Outcomes, Move
<1>4. \A q \in LedgerType :
        Posted(Mix(s, q, R), v.from, v.to, v.amount) = Mix(x, q, R)
  BY <1>1, MixPosted
<1>5. Mix(x, s, R) = x
  BY <1>1, <1>4, MixSelf
<1>6. QED
  BY <1>2, <1>3, <1>4, <1>5 DEF Local, Explains

LEMMA LocalLimit ==
  ASSUME NEW s \in LedgerType, NEW R, NEW v,
         v.kind \in {"creditline", "floor"}, v.user \in Users, v.limit \in Nat, v.user \in R,
         NEW x, Explains(v, s, x)
  PROVE  Local(v, s, x, R)
<1>1. v.user \in Accounts
  BY UsersAreAccounts
<1>2. CASE v.kind = "floor"
  <2>1. x = WithFloor(s, v)
    BY <1>2 DEF Explains
  <2>2. x \in LedgerType
    BY <2>1, LimitIs
  <2>3. \A q \in LedgerType : WithFloor(Mix(s, q, R), v) = Mix(x, q, R)
    BY <2>1, MixLimit
  <2>4. Mix(x, s, R) = x
    BY <2>1, <2>3, MixSelf
  <2>5. QED
    BY <1>2, <2>2, <2>3, <2>4 DEF Local, Explains
<1>3. CASE v.kind = "creditline"
  <2>1. /\ x = WithCredit(s, v)
        /\ s.account[v.user].balance + v.limit - s.account[v.user].inFlight >= 0
    BY <1>3 DEF Explains, Outcomes, SetCreditLimit
  <2>2. x \in LedgerType
    BY <2>1, LimitIs
  <2>3. \A q \in LedgerType : WithCredit(Mix(s, q, R), v) = Mix(x, q, R)
    BY <2>1, MixLimit
  <2>4. Mix(x, s, R) = x
    BY <2>1, <2>3, MixSelf
  <2>5. \A q \in LedgerType : WithCredit(Mix(s, q, R), v) \in Outcomes(v, Mix(s, q, R))
    BY <1>1, <1>3, <2>1, MixReads DEF Outcomes, SetCreditLimit
  <2>6. QED
    BY <1>3, <2>2, <2>3, <2>4, <2>5 DEF Local, Explains
<1>4. QED
  BY <1>2, <1>3

LEMMA VerbIsLocal ==
  ASSUME NEW v \in Verb, NEW s \in LedgerType, NEW R, Footprint(v, s, R),
         NEW x, Explains(v, s, x)
  PROVE  Local(v, s, x, R)
<1>1. CASE v.kind \in {"creditline", "floor"}
  BY <1>1, VerbIs, LocalLimit DEF Footprint
<1>2. CASE v.kind \notin {"creditline", "floor"}
  <2>1. x \in Outcomes(v, s)
    BY <1>2 DEF Explains
  <2>2. CASE v.kind \in {"authorize", "overhold"}
    BY <2>1, <2>2, VerbIs, LocalReserve DEF Footprint
  <2>3. CASE v.kind \in {"settle", "settleover"}
    <3>1. /\ v.hold \in Holds /\ v.hold \in R
          /\ v.kind = "settle" => v.amount \in Nat \ {0}
          /\ IsActive(s, v.hold) => s.hold[v.hold].user \in R /\ Revenue \in R
      BY <2>3, VerbIs DEF Footprint
    <3>2. QED
      BY <2>1, <2>3, <3>1, LocalSettle
  <2>4. CASE v.kind = "release"
    <3>1. /\ v.hold \in Holds /\ v.hold \in R
          /\ IsActive(s, v.hold) => s.hold[v.hold].user \in R
      BY <2>4, VerbIs DEF Footprint
    <3>2. QED
      BY <2>1, <2>4, <3>1, LocalRelease
  <2>5. CASE v.kind = "move"
    BY <2>1, <2>5, VerbIs, LocalMove DEF Footprint
  <2>6. QED
    BY <1>2, <2>2, <2>3, <2>4, <2>5, VerbIs
<1>3. QED
  BY <1>1, <1>2

-----------------------------------------------------------------------------
(* The history of a transaction: the ledgers through which its verbs led,    *)
(* kept on the rows R that it has locked.  Whatever the others commit then   *)
(* does not touch it.                                                        *)

\* Through w the first n verbs of p lead from b to s, on R, whatever the rows
\* outside R are.
Leadsto(w, n, p, b, s, R) ==
  /\ \A i \in 0..n : w[i] \in LedgerType
  /\ SameOn(R, w[0], b)
  /\ SameOn(R, w[n], s)
  /\ \A i \in 1..n : \A q \in LedgerType :
       Explains(p[i], Mix(w[i - 1], q, R), Mix(w[i], q, R))

Trace(n, p, b, s, R) == \E w : Leadsto(w, n, p, b, s, R)

LEMMA MixSameOn ==
  ASSUME NEW s \in LedgerType, NEW x \in LedgerType, NEW q \in LedgerType, NEW R,
         SameOn(R, s, x)
  PROVE  Mix(s, q, R) = Mix(x, q, R)
<1>1. Mix(s, q, R) \in LedgerType /\ Mix(x, q, R) \in LedgerType
  BY MixIs
<1>2. /\ \A a \in Accounts : Mix(s, q, R).account[a] = Mix(x, q, R).account[a]
      /\ \A h \in Holds : Mix(s, q, R).hold[h] = Mix(x, q, R).hold[h]
  BY MixIs DEF SameOn
<1>3. QED
  BY <1>1, <1>2, Ledgers

LEMMA MixMix ==
  ASSUME NEW s \in LedgerType, NEW b \in LedgerType, NEW q \in LedgerType,
         NEW R, NEW R2, R \subseteq R2
  PROVE  Mix(Mix(s, b, R), q, R2) = Mix(s, Mix(b, q, R2), R)
<1>1. PICK x : x = Mix(s, b, R)
  OBVIOUS
<1>2. PICK y : y = Mix(b, q, R2)
  OBVIOUS
<1>3. x \in LedgerType /\ y \in LedgerType
  BY <1>1, <1>2, MixIs
<1>4. Mix(x, q, R2) \in LedgerType /\ Mix(s, y, R) \in LedgerType
  BY <1>3, MixIs
<1>5. ASSUME NEW a \in Accounts PROVE Mix(x, q, R2).account[a] = Mix(s, y, R).account[a]
  BY <1>1, <1>2, <1>3, MixIs
<1>6. ASSUME NEW h \in Holds PROVE Mix(x, q, R2).hold[h] = Mix(s, y, R).hold[h]
  BY <1>1, <1>2, <1>3, MixIs
<1>7. QED
  BY <1>1, <1>2, <1>4, <1>5, <1>6, Ledgers

LEMMA TraceStart ==
  ASSUME NEW p, NEW b \in LedgerType, NEW s, NEW R, SameOn(R, b, s)
  PROVE  Trace(0, p, b, s, R)
<1>1. PICK w : w = [i \in 0..0 |-> b]
  OBVIOUS
<1>2. \A i \in 0..0 : w[i] = b
  BY <1>1
<1>3. Leadsto(w, 0, p, b, s, R)
  BY <1>2 DEF Leadsto, SameOn
<1>4. QED
  BY <1>3 DEF Trace

LEMMA TraceStable ==
  ASSUME NEW p, NEW n, NEW b, NEW s, NEW x, NEW y, NEW R,
         Trace(n, p, b, s, R), SameOn(R, b, x), SameOn(R, s, y)
  PROVE  Trace(n, p, x, y, R)
BY DEF Trace, Leadsto, SameOn

LEMMA TraceGrows ==
  ASSUME NEW p, NEW n \in Nat, NEW b \in LedgerType, NEW s \in LedgerType,
         NEW R, NEW R2, R \subseteq R2,
         Trace(n, p, b, s, R), Mix(s, b, R) = s
  PROVE  Trace(n, p, b, s, R2)
<1>1. PICK w : Leadsto(w, n, p, b, s, R)
  BY DEF Trace
<1>2. PICK z : z = [i \in 0..n |-> Mix(w[i], b, R)]
  OBVIOUS
<1>3. \A i \in 0..n : z[i] = Mix(w[i], b, R) /\ w[i] \in LedgerType /\ z[i] \in LedgerType
  BY <1>1, <1>2, MixIs DEF Leadsto
<1>4. 0 \in 0..n /\ n \in 0..n
  OBVIOUS
<1>5. SameOn(R2, z[0], b)
  <2>1. z[0] = Mix(b, b, R)
    BY <1>1, <1>3, <1>4, MixSameOn DEF Leadsto
  <2>2. QED
    BY <2>1, MixSelf DEF SameOn
<1>6. SameOn(R2, z[n], s)
  <2>1. z[n] = Mix(s, b, R)
    BY <1>1, <1>3, <1>4, MixSameOn DEF Leadsto
  <2>2. QED
    BY <2>1 DEF SameOn
<1>7. ASSUME NEW i \in 1..n, NEW q \in LedgerType
      PROVE  Explains(p[i], Mix(z[i - 1], q, R2), Mix(z[i], q, R2))
  <2>1. i \in 0..n /\ i - 1 \in 0..n
    OBVIOUS
  <2>2. PICK y \in LedgerType : y = Mix(b, q, R2)
    BY MixIs
  <2>3. Mix(z[i], q, R2) = Mix(w[i], y, R) /\ Mix(z[i - 1], q, R2) = Mix(w[i - 1], y, R)
    BY <1>3, <2>1, <2>2, MixMix
  <2>4. Explains(p[i], Mix(w[i - 1], y, R), Mix(w[i], y, R))
    BY <1>1, <2>2 DEF Leadsto
  <2>5. QED
    BY <2>3, <2>4
<1>8. Leadsto(z, n, p, b, s, R2)
  BY <1>3, <1>5, <1>6, <1>7 DEF Leadsto
<1>9. QED
  BY <1>8 DEF Trace

LEMMA TraceExtends ==
  ASSUME NEW p, NEW n \in Nat, NEW b \in LedgerType, NEW s \in LedgerType,
         NEW R, NEW x, Trace(n, p, b, s, R), Local(p[n + 1], s, x, R)
  PROVE  Trace(n + 1, p, b, x, R)
<1>1. PICK w : Leadsto(w, n, p, b, s, R)
  BY DEF Trace
<1>2. PICK z : z = [i \in 0..(n + 1) |-> IF i = n + 1 THEN x ELSE w[i]]
  OBVIOUS
<1>3. z[n + 1] = x /\ \A i \in 0..n : z[i] = w[i] /\ w[i] \in LedgerType
  BY <1>1, <1>2 DEF Leadsto
<1>4. \A i \in 0..(n + 1) : z[i] \in LedgerType
  BY <1>3 DEF Local
<1>5. SameOn(R, z[0], b) /\ SameOn(R, z[n + 1], x)
  BY <1>1, <1>3 DEF Leadsto, SameOn
<1>6. ASSUME NEW i \in 1..(n + 1), NEW q \in LedgerType
      PROVE  Explains(p[i], Mix(z[i - 1], q, R), Mix(z[i], q, R))
  <2>1. CASE i = n + 1
    <3>1. z[i - 1] = w[n] /\ z[i] = x /\ w[n] \in LedgerType
      BY <1>3, <2>1
    <3>2. Mix(w[n], q, R) = Mix(s, q, R)
      BY <1>1, <3>1, MixSameOn DEF Leadsto
    <3>3. QED
      BY <2>1, <3>1, <3>2 DEF Local
  <2>2. CASE i # n + 1
    <3>1. i \in 1..n /\ z[i - 1] = w[i - 1] /\ z[i] = w[i]
      BY <1>3, <2>2
    <3>2. QED
      BY <1>1, <3>1 DEF Leadsto
  <2>3. QED
    BY <2>1, <2>2
<1>7. Leadsto(z, n + 1, p, b, x, R)
  BY <1>4, <1>5, <1>6 DEF Leadsto
<1>8. QED
  BY <1>7 DEF Trace

\* Of a whole program: the ledger it leaves is one that the serial ledger may
\* become.
LEMMA TraceEnds ==
  ASSUME NEW p \in Seq(Verb), NEW b \in LedgerType, NEW s \in LedgerType, NEW R,
         Trace(Len(p), p, b, s, R), Mix(s, b, R) = s,
         \A i \in 1..Len(p) : p[i].kind = "floor" => Len(p) = 1,
         \A u \in Users : Coverage(s.account[u]) >= 0
  PROVE  s \in Serial!Runs(p, b)
<1>1. PICK n \in Nat : n = Len(p)
  OBVIOUS
<1>2. PICK w : Leadsto(w, n, p, b, s, R)
  BY <1>1 DEF Trace
<1>3. PICK z : z = [i \in 0..n |-> Mix(w[i], b, R)]
  OBVIOUS
<1>4. \A i \in 0..n : z[i] = Mix(w[i], b, R) /\ w[i] \in LedgerType
  BY <1>2, <1>3 DEF Leadsto
<1>5. z[0] = b /\ z[n] = s
  <2>1. 0 \in 0..n /\ n \in 0..n
    OBVIOUS
  <2>2. z[0] = Mix(b, b, R) /\ z[n] = Mix(s, b, R)
    BY <1>2, <1>4, <2>1, MixSameOn DEF Leadsto
  <2>3. QED
    BY <2>2, MixSelf
<1>6. ASSUME NEW i \in 1..n PROVE z[i] \in Serial!Outcomes(p[i], z[i - 1])
  <2>1. Explains(p[i], z[i - 1], z[i])
    <3>1. i \in 0..n /\ i - 1 \in 0..n
      OBVIOUS
    <3>2. z[i] = Mix(w[i], b, R) /\ z[i - 1] = Mix(w[i - 1], b, R)
      BY <1>4, <3>1
    <3>3. QED
      BY <1>2, <3>2 DEF Leadsto
  <2>2. CASE p[i].kind = "floor"
    <3>1. n = 1 /\ i = 1 /\ z[i - 1] = b /\ z[i] = s
      BY <1>1, <1>5, <2>2
    <3>2. p[i] \in Verb /\ p[i].user \in Users /\ p[i].limit \in Nat
      <4>1. p[i] \in Verb
        BY <1>1
      <4>2. QED
        BY <2>2, <4>1, VerbIs
    <3>3. s = WithFloor(b, p[i])
      BY <2>1, <2>2, <3>1 DEF Explains
    <3>4. Coverage(s.account[p[i].user]) =
            Available(b.account[p[i].user]) + p[i].limit
      <4>1. p[i].user \in Accounts
        BY <3>2, UsersAreAccounts
      <4>2. s.account[p[i].user] = Floored(b.account[p[i].user], p[i].limit)
        BY <3>2, <3>3, <4>1, LimitIs
      <4>3. b.account[p[i].user] \in Account
        BY <4>1, RowTypes
      <4>4. QED
        BY <3>2, <4>2, <4>3 DEF Floored, Coverage, Available, Account
    <3>5. FloorFits(b.account[p[i].user], p[i].limit)
      BY <3>2, <3>4 DEF FloorFits
    <3>6. s \in Outcomes(p[i], b)
      BY <2>2, <3>3, <3>5 DEF Outcomes, SetDebitFloor
    <3>7. QED
      BY <3>1, <3>6, SameOutcomes
  <2>3. CASE p[i].kind # "floor"
    BY <2>1, <2>3, SameOutcomes DEF Explains
  <2>4. QED
    BY <2>2, <2>3
<1>7. z[Len(p)] \in Serial!Runs(p, z[0])
  BY <1>1, <1>6, ChainIsRun
<1>8. QED
  BY <1>1, <1>5, <1>7

-----------------------------------------------------------------------------
(* The inductive invariant.                                                  *)

\* The rows t has locked for good: those of its verb go if the verb does.
Keep(t) == RowsOf(t) \ txn[t].fresh

\* t has locked what it wrote, before the verb it is at.
Locks(t) ==
  /\ txn[t].fresh \subseteq RowsOf(t)
  /\ DOMAIN draft[t].account \subseteq Keep(t)
  /\ DOMAIN draft[t].hold \subseteq Keep(t)

AtExcess(t) == txn[t].stage = "lock" /\ ~Done(t) /\ Current(t).kind = "overhold"

Place(t) ==
  /\ txn[t].verb <= Len(program[t].verbs) + 1
  /\ txn[t].stage = "observe" => txn[t].fresh = {}
  /\ AtExcess(t) => txn[t].seen \in 1..Current(t).amount

\* What t reads is what its verbs made, one by one, of what is committed.
History(t) ==
  txn[t].stage # "ended" =>
    Trace(txn[t].verb - 1, program[t].verbs, db, View(t), Keep(t))

Floorless(t) == \A i \in 1..Len(program[t].verbs) : program[t].verbs[i].kind # "floor"

InCover(s) == \A u \in Users : Coverage(s.account[u]) >= 0

Cover(t) ==
  /\ Floorless(t) => InCover(View(t))
  /\ txn[t].result = "incoherent" => ~Floorless(t)

Sound(t) == Locks(t) /\ Place(t) /\ History(t) /\ Cover(t)

IInv == TypeOK /\ InCover(db) /\ \A t \in Txns : Sound(t)

-----------------------------------------------------------------------------
(* What a transaction reads.                                                 *)

Seen(d, b) == [account |-> Over(d.account, b.account), hold |-> Over(d.hold, b.hold)]

LEMMA ViewIsSeen ==
  ASSUME NEW t
  PROVE  View(t) = Seen(draft[t], db) /\ View(t)' = Seen(draft'[t], db')
BY DEF View, Seen

LEMMA SeenIs ==
  ASSUME NEW d, NEW b \in LedgerType, IsDraft(d)
  PROVE  /\ Seen(d, b) \in LedgerType
         /\ \A a \in Accounts : Seen(d, b).account[a] =
              IF a \in DOMAIN d.account THEN d.account[a] ELSE b.account[a]
         /\ \A h \in Holds : Seen(d, b).hold[h] =
              IF h \in DOMAIN d.hold THEN d.hold[h] ELSE b.hold[h]
<1>1. /\ b.account \in [Accounts -> Account] /\ b.hold \in [Holds -> Hold]
      /\ DOMAIN b.account = Accounts /\ DOMAIN b.hold = Holds
  BY DEF LedgerType
<1>2. /\ Over(d.account, b.account) \in [Accounts -> Account]
      /\ \A a \in Accounts : Over(d.account, b.account)[a] =
           IF a \in DOMAIN d.account THEN d.account[a] ELSE b.account[a]
  BY <1>1 DEF Over, IsDraft
<1>3. /\ Over(d.hold, b.hold) \in [Holds -> Hold]
      /\ \A h \in Holds : Over(d.hold, b.hold)[h] =
           IF h \in DOMAIN d.hold THEN d.hold[h] ELSE b.hold[h]
  BY <1>1 DEF Over, IsDraft
<1>4. QED
  BY <1>2, <1>3 DEF Seen, LedgerType

LEMMA NoDraftIs ==
  /\ IsDraft(NoDraft)
  /\ DOMAIN NoDraft.account = {} /\ DOMAIN NoDraft.hold = {}
  /\ \A b \in LedgerType : Seen(NoDraft, b) = b
<1>1. DOMAIN NoDraft.account = {} /\ DOMAIN NoDraft.hold = {}
  BY DEF NoDraft
<1>2. IsDraft(NoDraft)
  BY DEF IsDraft, NoDraft
<1>3. QED
  BY <1>1, <1>2, SeenIs, Ledgers

LEMMA ViewType ==
  ASSUME TypeOK, NEW t \in Txns
  PROVE  View(t) \in LedgerType /\ db \in LedgerType /\ IsDraft(draft[t])
BY ViewIsSeen, SeenIs DEF TypeOK

\* Off the rows it keeps, t reads what is committed.
LEMMA ViewIsMixed ==
  ASSUME TypeOK, NEW t \in Txns, Locks(t)
  PROVE  Mix(View(t), db, Keep(t)) = View(t)
<1>1. View(t) \in LedgerType /\ db \in LedgerType /\ IsDraft(draft[t])
  BY ViewType
<1>2. Mix(View(t), db, Keep(t)) \in LedgerType
  BY <1>1, MixIs
<1>3. \A a \in Accounts : Mix(View(t), db, Keep(t)).account[a] = View(t).account[a]
  BY <1>1, MixIs, SeenIs, ViewIsSeen DEF Locks
<1>4. \A h \in Holds : Mix(View(t), db, Keep(t)).hold[h] = View(t).hold[h]
  BY <1>1, MixIs, SeenIs, ViewIsSeen DEF Locks
<1>5. QED
  BY <1>1, <1>2, <1>3, <1>4, Ledgers

LEMMA CurrentType ==
  ASSUME TypeOK, NEW t \in Txns
  PROVE  /\ program[t].verbs \in Seq(Verb) /\ Len(program[t].verbs) \in Nat
         /\ program[t].joined \in BOOLEAN
         /\ txn[t].verb \in Nat \ {0}
         /\ ~Done(t) => /\ Current(t) \in Verb
                        /\ txn[t].verb \in 1..Len(program[t].verbs)
<1>1. program \in [Txns -> [joined : BOOLEAN, verbs : Seq(Verb)]]
  BY LoadsAssumption DEF TypeOK
<1>2. txn[t].verb \in Nat \ {0}
  BY DEF TypeOK, Txn
<1>3. program[t].verbs \in Seq(Verb) /\ program[t].joined \in BOOLEAN
  BY <1>1
<1>4. Len(program[t].verbs) \in Nat
  BY <1>3
<1>5. ~Done(t) => txn[t].verb \in 1..Len(program[t].verbs)
  BY <1>2, <1>4 DEF Done
<1>6. QED
  BY <1>2, <1>3, <1>4, <1>5 DEF Current

-----------------------------------------------------------------------------
(* What the others do.                                                       *)

LEMMA OthersStaySound ==
  ASSUME TypeOK, NEW u \in Txns, Sound(u),
         txn'[u] = txn[u], draft'[u] = draft[u], program' = program,
         RowsOf(u)' = RowsOf(u), db' \in LedgerType,
         SameOn(RowsOf(u), db, db'), InCover(db')
  PROVE  Sound(u)'
<1>1. View(u) = Seen(draft[u], db) /\ View(u)' = Seen(draft[u], db')
  BY ViewIsSeen
<1>2. db \in LedgerType /\ IsDraft(draft[u])
  BY DEF TypeOK
<1>3. Keep(u)' = Keep(u)
  BY DEF Keep
<1>4. Locks(u)'
  BY <1>3 DEF Sound, Locks
<1>5. Place(u)'
  BY DEF Sound, Place, AtExcess, Done, Current
<1>6. SameOn(Keep(u), View(u), View(u)')
  BY <1>1, <1>2, SeenIs DEF SameOn, Keep
<1>7. SameOn(Keep(u), db, db')
  BY DEF SameOn, Keep
<1>8. History(u)'
  BY <1>3, <1>6, <1>7, TraceStable DEF Sound, History
<1>9. Cover(u)'
  <2>1. ASSUME InCover(View(u)) PROVE InCover(View(u)')
    <3>1. ASSUME NEW c \in Users PROVE Coverage(View(u)'.account[c]) >= 0
      <4>1. c \in Accounts
        BY UsersAreAccounts
      <4>2. \/ View(u)'.account[c] = View(u).account[c]
            \/ View(u)'.account[c] = db'.account[c]
        BY <1>1, <1>2, <4>1, SeenIs
      <4>3. QED
        BY <2>1, <4>2 DEF InCover
    <3>2. QED
      BY <3>1 DEF InCover
  <2>2. Floorless(u)' <=> Floorless(u)
    BY DEF Floorless
  <2>3. QED
    BY <2>1, <2>2 DEF Sound, Cover, InCover
<1>10. QED
  BY <1>4, <1>5, <1>8, <1>9 DEF Sound

-----------------------------------------------------------------------------
(* What a step makes of its own transaction.                                 *)

LEMMA RowsFreed ==
  ASSUME NEW R, Free(R), NEW t \in Txns
  PROVE  RowsOf(t)' = RowsOf(t) \ R
BY NoneAssumption DEF Free, RowsOf, Mine

(* It keeps its verb and its rows.                                           *)
LEMMA Stays ==
  ASSUME NEW t \in Txns, Sound(t),
         db' = db, program' = program, draft' = draft, Keep(t)' = Keep(t),
         txn'[t].fresh \subseteq RowsOf(t)', txn'[t].verb = txn[t].verb,
         txn[t].stage # "ended", txn'[t].result = txn[t].result,
         txn'[t].stage = "observe" => txn'[t].fresh = {},
         AtExcess(t)' => txn'[t].seen \in 1..Current(t).amount
  PROVE  Sound(t)'
<1>1. View(t)' = View(t)
  BY ViewIsSeen
<1>2. Locks(t)'
  BY DEF Sound, Locks
<1>3. Current(t)' = Current(t)
  BY DEF Current
<1>4. Place(t)'
  BY <1>3 DEF Sound, Place
<1>5. History(t)'
  BY <1>1 DEF Sound, History
<1>6. Cover(t)'
  BY <1>1 DEF Sound, Cover, Floorless, InCover
<1>7. QED
  BY <1>2, <1>4, <1>5, <1>6 DEF Sound

LEMMA BeforeIs ==
  ASSUME NEW n, NEW k
  PROVE  /\ Before(n, k).stage = "observe" /\ Before(n, k).verb = n
         /\ Before(n, k).fresh = {} /\ Before(n, k).result = "open"
         /\ Before(n, k).seen = 0 /\ Before(n, k).runs = k
BY DEF Before

LEMMA NextVerbIs ==
  ASSUME TypeOK, NEW t \in Txns, NextVerb(t)
  PROVE  txn'[t] = Before(txn[t].verb + 1, txn[t].runs)
BY DEF NextVerb, TypeOK

(* It gives up its excess.                                                   *)
LEMMA Skips ==
  ASSUME TypeOK, NEW t \in Txns, Sound(t),
         db' = db, program' = program, draft' = draft,
         Keep(t) \subseteq RowsOf(t)', RowsOf(t)' \subseteq RowsOf(t),
         NextVerb(t), ~Done(t), txn[t].stage # "ended", Current(t).kind = "overhold"
  PROVE  Sound(t)'
<1>1. View(t)' = View(t) /\ View(t) \in LedgerType /\ db \in LedgerType
  BY ViewIsSeen, ViewType
<1>2. /\ txn'[t].stage = "observe" /\ txn'[t].verb = txn[t].verb + 1
      /\ txn'[t].fresh = {} /\ txn'[t].result = "open"
  BY NextVerbIs, BeforeIs
<1>3. Keep(t)' = RowsOf(t)'
  BY <1>2 DEF Keep
<1>4. Locks(t)'
  BY <1>2, <1>3 DEF Sound, Locks
<1>5. txn[t].verb \in 1..Len(program[t].verbs) /\ Len(program[t].verbs) \in Nat
  BY CurrentType
<1>6. Place(t)'
  BY <1>2, <1>5 DEF Sound, Place, AtExcess
<1>7. History(t)'
  <2> DEFINE p == program[t].verbs
             n == txn[t].verb - 1
  <2>1. Trace(n, p, db, View(t), Keep(t)) /\ n \in Nat
    BY <1>5 DEF Sound, History
  <2>2. Mix(View(t), db, Keep(t)) = View(t)
    BY ViewIsMixed DEF Sound
  <2>3. Trace(n, p, db, View(t), RowsOf(t)')
    BY <1>1, <2>1, <2>2, TraceGrows
  <2>4. p[n + 1] = Current(t)
    BY <1>5 DEF Current
  <2>5. Local(p[n + 1], View(t), View(t), RowsOf(t)')
    <3>1. \A q \in LedgerType :
            Explains(Current(t), Mix(View(t), q, RowsOf(t)'), Mix(View(t), q, RowsOf(t)'))
      BY DEF Explains, Outcomes, OverHold
    <3>2. QED
      BY <1>1, <2>4, <3>1, LocalSame
  <2>6. Trace(n + 1, p, db, View(t), RowsOf(t)')
    BY <1>1, <2>1, <2>3, <2>5, TraceExtends
  <2>7. QED
    BY <1>1, <1>2, <1>3, <1>5, <2>6 DEF History
<1>8. Cover(t)'
  BY <1>1, <1>2 DEF Sound, Cover, Floorless, InCover
<1>9. QED
  BY <1>4, <1>6, <1>7, <1>8 DEF Sound

LEMMA AbandonIs ==
  ASSUME TypeOK, NEW t \in Txns, NEW why, Abandon(t, why)
  PROVE  /\ txn'[t].stage = "ended" /\ txn'[t].result = why /\ txn'[t].fresh = {}
         /\ txn'[t].verb = txn[t].verb
         /\ draft'[t] = NoDraft /\ RowsOf(t)' = {}
<1>1. txn[t] \in Txn /\ txn \in [Txns -> Txn] /\ DOMAIN draft = Txns
  BY DEF TypeOK
<1>2. RowsOf(t)' = RowsOf(t) \ RowsOf(t)
  BY RowsFreed DEF Abandon
<1>3. QED
  BY <1>1, <1>2 DEF Abandon, Txn

(* It is rolled back for good.                                               *)
LEMMA Leaves ==
  ASSUME TypeOK, InCover(db), NEW t \in Txns, Sound(t),
         NEW why, Abandon(t, why), why = "incoherent" => ~Floorless(t)
  PROVE  Sound(t)'
<1>1. /\ txn'[t].stage = "ended" /\ txn'[t].result = why /\ txn'[t].fresh = {}
      /\ txn'[t].verb = txn[t].verb
      /\ draft'[t] = NoDraft /\ RowsOf(t)' = {}
  BY AbandonIs
<1>2. db' = db /\ program' = program /\ db \in LedgerType
  BY DEF Abandon, TypeOK
<1>3. View(t)' = db
  BY <1>1, <1>2, ViewIsSeen, NoDraftIs
<1>4. Locks(t)'
  BY <1>1, NoDraftIs DEF Locks, Keep
<1>5. Place(t)'
  BY <1>1, <1>2 DEF Sound, Place, AtExcess
<1>6. History(t)'
  BY <1>1 DEF History
<1>7. Cover(t)'
  BY <1>1, <1>2, <1>3 DEF Cover, Floorless, InCover
<1>8. QED
  BY <1>4, <1>5, <1>6, <1>7 DEF Sound

(* It is begun again.                                                        *)
LEMMA Restarts ==
  ASSUME TypeOK, InCover(db), NEW t \in Txns, NEW k,
         db' = db, program' = program, draft'[t] = NoDraft, RowsOf(t)' = {},
         txn'[t] = Before(1, k)
  PROVE  Sound(t)'
<1>1. /\ txn'[t].stage = "observe" /\ txn'[t].result = "open" /\ txn'[t].fresh = {}
      /\ txn'[t].verb = 1
  BY BeforeIs
<1>2. db \in LedgerType /\ Len(program[t].verbs) \in Nat
  BY CurrentType DEF TypeOK
<1>3. View(t)' = db
  BY <1>2, ViewIsSeen, NoDraftIs
<1>4. Locks(t)'
  BY <1>1, NoDraftIs DEF Locks, Keep
<1>5. Place(t)'
  BY <1>1, <1>2 DEF Place, AtExcess
<1>6. History(t)'
  <2>1. Trace(0, program[t].verbs, db, db, Keep(t)')
    BY <1>2, TraceStart DEF SameOn
  <2>2. QED
    BY <1>1, <1>3, <2>1 DEF History
<1>7. Cover(t)'
  BY <1>1, <1>3 DEF Cover, Floorless, InCover
<1>8. QED
  BY <1>4, <1>5, <1>6, <1>7 DEF Sound

-----------------------------------------------------------------------------
(* The verbs keep within what is covered.                                    *)

LEMMA Coverages ==
  ASSUME NEW a \in Account, NEW m \in Int
  PROVE  /\ Available(a) = a.balance + a.credit - a.inFlight
         /\ Coverage(a) = a.balance + a.credit - a.inFlight + a.floor
         /\ Available(Paid(a, m)) = Available(a) + m
         /\ Coverage(Paid(a, m)) = Coverage(a) + m
         /\ Available(Bound(a, m)) = Available(a) - m
         /\ Coverage(Bound(a, m)) = Coverage(a) - m
         /\ m \in Nat => Coverage(Credited(a, m)) = a.balance + m - a.inFlight + a.floor
         /\ Available(a) \in Int /\ Coverage(a) \in Int /\ a.floor \in Nat
         /\ Coverage(a) >= Available(a)
BY DEF Account, Available, Coverage, Paid, Bound, Credited

LEMMA CoverageType ==
  ASSUME NEW a \in Account
  PROVE  Available(a) \in Int /\ Coverage(a) \in Int
BY DEF Account, Available, Coverage

LEMMA CreditedCoverage ==
  ASSUME NEW a \in Account, NEW m \in Nat
  PROVE  Coverage(Credited(a, m)) = a.balance + m - a.inFlight + a.floor
BY DEF Account, Available, Coverage, Credited

LEMMA InCoverAt ==
  ASSUME NEW s \in LedgerType, NEW x \in LedgerType, InCover(s),
         \A c \in Users : \/ x.account[c] = s.account[c]
                          \/ Coverage(x.account[c]) >= Coverage(s.account[c])
                          \/ Coverage(x.account[c]) >= 0
  PROVE  InCover(x)
<1>1. ASSUME NEW c \in Users PROVE Coverage(x.account[c]) >= 0
  <2>1. c \in Accounts
    BY UsersAreAccounts
  <2>2. s.account[c] \in Account /\ x.account[c] \in Account
    BY <2>1, RowTypes
  <2>3. Coverage(s.account[c]) \in Int /\ Coverage(x.account[c]) \in Int
    BY <2>2, CoverageType
  <2>4. QED
    BY <2>3 DEF InCover
<1>2. QED
  BY <1>1 DEF InCover

LEMMA ReservedCover ==
  ASSUME NEW s \in LedgerType, InCover(s), NEW h \in Holds, NEW u \in Users, NEW m \in Nat,
         m <= Coverage(s.account[u])
  PROVE  InCover(Reserved(s, h, u, m))
<1>1. PICK x : x = Reserved(s, h, u, m)
  OBVIOUS
<1>2. u \in Accounts /\ s.account[u] \in Account
  BY UsersAreAccounts, RowTypes
<1>3. x \in LedgerType /\ \A c \in Accounts : x.account[c] =
        IF c = u THEN Bound(s.account[c], m) ELSE s.account[c]
  BY <1>1, ReservedIs
<1>4. Coverage(x.account[u]) >= 0
  BY <1>2, <1>3, Coverages
<1>5. \A c \in Users : x.account[c] = s.account[c] \/ Coverage(x.account[c]) >= 0
  BY <1>3, <1>4, UsersAreAccounts
<1>6. QED
  BY <1>1, <1>3, <1>5, InCoverAt

LEMMA EndedCover ==
  ASSUME NEW s \in LedgerType, InCover(s), NEW h \in Holds, NEW st \in HoldStatus
  PROVE  InCover(Ended(s, h, st))
<1>1. PICK x : x = Ended(s, h, st)
  OBVIOUS
<1>2. PICK u \in Users : u = s.hold[h].user
  BY RowTypes
<1>3. PICK m \in Nat : m = s.hold[h].amount
  BY RowTypes
<1>4. u \in Accounts /\ s.account[u] \in Account /\ -m \in Int
  BY UsersAreAccounts, RowTypes
<1>5. x \in LedgerType /\ \A c \in Accounts : x.account[c] =
        IF c = u THEN Bound(s.account[c], -m) ELSE s.account[c]
  BY <1>1, <1>2, <1>3, EndedIs
<1>6. Coverage(x.account[u]) >= Coverage(s.account[u])
  BY <1>4, <1>5, Coverages
<1>7. \A c \in Users : \/ x.account[c] = s.account[c]
                       \/ Coverage(x.account[c]) >= Coverage(s.account[c])
  BY <1>5, <1>6, UsersAreAccounts
<1>8. QED
  BY <1>1, <1>5, <1>7, InCoverAt

LEMMA SettledCover ==
  ASSUME NEW s \in LedgerType, InCover(s), NEW h \in Holds, NEW m \in Nat,
         m <= s.hold[h].amount
  PROVE  InCover(Settled(s, h, m))
<1>1. PICK x : x = Settled(s, h, m)
  OBVIOUS
<1>2. PICK u \in Users : u = s.hold[h].user
  BY RowTypes
<1>3. PICK n \in Nat : n = s.hold[h].amount
  BY RowTypes
<1>4. u \in Accounts /\ s.account[u] \in Account /\ -n \in Int /\ -m \in Int /\ Revenue \notin Users
  BY UsersAreAccounts, RowTypes
<1>5. x \in LedgerType /\ \A c \in Accounts : x.account[c] =
        IF c = u THEN Paid(Bound(s.account[c], -n), -m)
        ELSE IF c = Revenue THEN Paid(s.account[c], m) ELSE s.account[c]
  BY <1>1, <1>2, <1>3, SettledIs
<1>6. Bound(s.account[u], -n) \in Account
  BY <1>4, RowsAre
<1>7. Coverage(x.account[u]) = Coverage(s.account[u]) + n - m /\ Coverage(s.account[u]) \in Int
  BY <1>4, <1>5, <1>6, Coverages
<1>8. Coverage(x.account[u]) >= Coverage(s.account[u])
  BY <1>3, <1>7
<1>9. \A c \in Users : \/ x.account[c] = s.account[c]
                       \/ Coverage(x.account[c]) >= Coverage(s.account[c])
  BY <1>4, <1>5, <1>8, UsersAreAccounts
<1>10. QED
  BY <1>1, <1>5, <1>9, InCoverAt

LEMMA MoveCover ==
  ASSUME NEW s \in LedgerType, InCover(s),
         NEW a \in Accounts, NEW b \in Accounts, NEW m \in Nat,
         a \in Users => Available(s.account[a]) >= m
  PROVE  InCover(Posted(s, a, b, m))
<1>1. PICK x : x = Posted(s, a, b, m)
  OBVIOUS
<1>2. x \in LedgerType /\ \A c \in Accounts : x.account[c] =
        LET y == IF c = a THEN Paid(s.account[c], -m) ELSE s.account[c]
        IN IF c = b THEN Paid(y, m) ELSE y
  <2>1. m \in Int
    OBVIOUS
  <2>2. /\ Posted(s, a, b, m) \in LedgerType
        /\ \A c \in Accounts : Posted(s, a, b, m).account[c] =
             LET y == IF c = a THEN Paid(s.account[c], -m) ELSE s.account[c]
             IN IF c = b THEN Paid(y, m) ELSE y
    BY <2>1, PostedIs
  <2>3. QED
    BY <1>1, <2>2
<1>3. ASSUME NEW c \in Users
      PROVE  \/ x.account[c] = s.account[c]
             \/ Coverage(x.account[c]) >= Coverage(s.account[c])
             \/ Coverage(x.account[c]) >= 0
  <2>1. c \in Accounts /\ s.account[c] \in Account /\ -m \in Int /\ Paid(s.account[c], -m) \in Account
    BY UsersAreAccounts, RowTypes, RowsAre
  <2>2. CASE c = a /\ c = b
    <3>1. x.account[c] = Paid(Paid(s.account[c], -m), m)
      BY <1>2, <2>1, <2>2
    <3>2. QED
      BY <2>1, <3>1, Coverages
  <2>3. CASE c = a /\ c # b
    <3>1. x.account[c] = Paid(s.account[c], -m) /\ Available(s.account[c]) >= m
      BY <1>2, <2>1, <2>3
    <3>2. QED
      BY <2>1, <3>1, Coverages
  <2>4. CASE c # a /\ c = b
    <3>1. x.account[c] = Paid(s.account[c], m)
      BY <1>2, <2>1, <2>4
    <3>2. QED
      BY <2>1, <3>1, Coverages
  <2>5. CASE c # a /\ c # b
    BY <1>2, <2>1, <2>5
  <2>6. QED
    BY <2>2, <2>3, <2>4, <2>5
<1>4. QED
  BY <1>1, <1>2, <1>3, InCoverAt

LEMMA VerbCover ==
  ASSUME NEW v \in Verb, v.kind # "floor", NEW s \in LedgerType, InCover(s),
         NEW x \in Outcomes(v, s)
  PROVE  InCover(x)
<1>1. CASE v.kind \in {"authorize", "overhold"}
  <2>1. /\ v.hold \in Holds /\ v.user \in Users /\ v.amount \in Nat \ {0}
        /\ s.account[v.user] \in Account
    BY <1>1, VerbIs, UsersAreAccounts, RowTypes
  <2>2. \/ x = s
        \/ \E m \in Nat : m <= Coverage(s.account[v.user]) /\ x = Reserved(s, v.hold, v.user, m)
    <3>1. CASE v.kind = "authorize"
      BY <2>1, <3>1, Coverages DEF Outcomes, Authorize, Replayed
    <3>2. CASE v.kind = "overhold"
      BY <2>1, <3>2 DEF Outcomes, OverHold
    <3>3. QED
      BY <1>1, <3>1, <3>2
  <2>3. QED
    BY <2>1, <2>2, ReservedCover
<1>2. CASE v.kind \in {"settle", "settleover"}
  <2>1. v.hold \in Holds /\ s.hold[v.hold].amount \in Nat /\ (v.kind = "settle" => v.amount \in Nat)
    BY <1>2, VerbIs, RowTypes
  <2>2. \/ x = s
        \/ \E m \in Nat : m <= s.hold[v.hold].amount /\ x = Settled(s, v.hold, m)
    BY <1>2, <2>1 DEF Outcomes, Settle, SettleOver
  <2>3. QED
    BY <2>1, <2>2, SettledCover
<1>3. CASE v.kind = "release"
  <2>1. v.hold \in Holds /\ "released" \in HoldStatus
    BY <1>3, VerbIs DEF HoldStatus
  <2>2. x = s \/ x = Ended(s, v.hold, "released")
    BY <1>3 DEF Outcomes, Release
  <2>3. QED
    BY <2>1, <2>2, EndedCover
<1>4. CASE v.kind = "move"
  <2>1. v.from \in Accounts /\ v.to \in Accounts /\ v.amount \in Nat
    BY <1>4, VerbIs
  <2>2. s.account[v.from] \in Account
    BY <2>1, RowTypes
  <2>3. /\ x = Posted(s, v.from, v.to, v.amount)
        /\ v.from \in Users => Spendable(s.account[v.from], v.cash) >= v.amount
    BY <1>4 DEF Outcomes, Move
  <2>4. v.from \in Users => Available(s.account[v.from]) >= v.amount
    BY <2>1, <2>2, <2>3 DEF Spendable, Available, Account
  <2>5. QED
    BY <2>1, <2>3, <2>4, MoveCover
<1>5. CASE v.kind = "creditline"
  <2>1. v.user \in Users /\ v.limit \in Nat /\ v.user \in Accounts /\ s.account[v.user] \in Account
    BY <1>5, VerbIs, UsersAreAccounts, RowTypes
  <2>2. /\ x = WithCredit(s, v)
        /\ s.account[v.user].balance + v.limit - s.account[v.user].inFlight >= 0
    BY <1>5 DEF Outcomes, SetCreditLimit
  <2>3. x \in LedgerType /\ \A c \in Accounts : x.account[c] =
          IF c = v.user THEN Credited(s.account[c], v.limit) ELSE s.account[c]
    BY <2>1, <2>2, LimitIs
  <2>4. Coverage(x.account[v.user]) >= 0
    <3>1. s.account[v.user].balance \in Int /\ s.account[v.user].inFlight \in Int /\ s.account[v.user].floor \in Nat
      BY <2>1 DEF Account
    <3>2. Coverage(x.account[v.user]) =
            s.account[v.user].balance + v.limit - s.account[v.user].inFlight + s.account[v.user].floor
      <4>1. PICK a \in Account : a = s.account[v.user]
        BY <2>1
      <4>2. x.account[v.user] = Credited(a, v.limit)
        BY <2>1, <2>3, <4>1
      <4>3. Coverage(Credited(a, v.limit)) = a.balance + v.limit - a.inFlight + a.floor
        <5>1. v.limit \in Nat
          BY <2>1
        <5>2. QED
          BY <5>1, CreditedCoverage
      <4>4. QED
        BY <4>1, <4>2, <4>3
    <3>3. QED
      BY <2>1, <2>2, <3>1, <3>2
  <2>5. \A c \in Users : x.account[c] = s.account[c] \/ Coverage(x.account[c]) >= 0
    BY <2>3, <2>4, UsersAreAccounts
  <2>6. QED
    BY <2>3, <2>5, InCoverAt
<1>6. QED
  BY <1>1, <1>2, <1>3, <1>4, <1>5, VerbIs

-----------------------------------------------------------------------------
(* A verb that has its locks.                                                *)

LEMMA NoneMissing ==
  ASSUME NEW t, NEW order, NEW n \in Nat, DOMAIN order = 1..n, FirstMissing(t, order) = {}
  PROVE  \A k \in 1..n : Mine(t, order[k])
<1> DEFINE F == {k \in 1..n : ~Mine(t, order[k])}
<1>1. SUFFICES ASSUME F # {} PROVE FALSE
  OBVIOUS
<1>2. PICK k \in F : \A m \in F : k <= m
  <2>1. F \subseteq Nat
    OBVIOUS
  <2> HIDE DEF F
  <2>2. QED
    BY <1>1, <2>1, LeastNat
<1>3. k \in 1..n /\ ~Mine(t, order[k])
  OBVIOUS
<1>4. ASSUME NEW j \in 1..k - 1 PROVE Mine(t, order[j])
  BY <1>2, <1>3
<1>5. order[k] \in FirstMissing(t, order)
  BY <1>3, <1>4 DEF FirstMissing
<1>6. QED
  BY <1>5

\* The rows of an order, as a set.
InOrder(order) == {order[i] : i \in DOMAIN order}

LEMMA FourInOrder ==
  ASSUME NEW S, NEW a \in S, NEW b \in S, NEW c \in S, NEW d \in S,
         NEW o, o = <<a, b>> \o <<c, d>>
  PROVE  DOMAIN o = 1..4 /\ InOrder(o) = {a, b, c, d}
<1>1. /\ <<a, b>> \in Seq(S) /\ <<c, d>> \in Seq(S)
      /\ Len(<<a, b>>) = 2 /\ Len(<<c, d>>) = 2
  OBVIOUS
<1>2. Len(o) = 4 /\ o \in Seq(S)
  BY <1>1
<1>3. DOMAIN o = 1..4
  BY <1>2
<1>4. \A i \in 1..2 : o[i] = <<a, b>>[i] /\ o[i + 2] = <<c, d>>[i]
  BY <1>1
<1>5. o[1] = a /\ o[2] = b /\ o[3] = c /\ o[4] = d
  BY <1>4
<1>6. QED
  BY <1>3, <1>5 DEF InOrder

LEMMA Orders ==
  ASSUME NEW v \in Verb, NEW s \in LedgerType
  PROVE  /\ \E n \in Nat : DOMAIN LockOrder(v, s) = 1..n
         /\ InOrder(LockOrder(v, s)) \subseteq Rows
         /\ \A R : InOrder(LockOrder(v, s)) \subseteq R => Footprint(v, s, R)
<1>1. PICK o : o = LockOrder(v, s)
  OBVIOUS
<1>2. CASE v.kind \in {"authorize", "overhold"}
  <2>1. o = <<v.hold, v.user>> /\ v.hold \in Holds /\ v.user \in Accounts
    BY <1>1, <1>2, VerbIs, UsersAreAccounts DEF LockOrder, LockedByReserve
  <2>2. DOMAIN o = 1..2 /\ InOrder(o) = {v.hold, v.user}
    BY <2>1 DEF InOrder
  <2>3. QED
    BY <1>1, <1>2, <2>1, <2>2 DEF Footprint, Rows
<1>3. CASE v.kind \in {"settle", "settleover"} /\ IsActive(s, v.hold)
  <2>1. PICK u \in Users : u = s.hold[v.hold].user
    BY <1>3, VerbIs, RowTypes
  <2>2. v.hold \in Holds /\ u \in Accounts /\ Revenue \in Accounts
    BY <1>3, VerbIs, UsersAreAccounts
  <2>3. o = <<v.hold, u>> \o Ordered(u, Revenue)
    BY <1>1, <1>3, <2>1 DEF LockOrder, LockedBySettle
  <2>4. o = <<v.hold, u>> \o <<u, Revenue>> \/ o = <<v.hold, u>> \o <<Revenue, u>>
    BY <2>3 DEF Ordered
  <2>5. DOMAIN o = 1..4 /\ InOrder(o) = {v.hold, u, Revenue}
    <3>1. v.hold \in Rows /\ u \in Rows /\ Revenue \in Rows
      BY <2>2 DEF Rows
    <3>2. /\ DOMAIN o = 1..4
          /\ \/ InOrder(o) = {v.hold, u, u, Revenue}
             \/ InOrder(o) = {v.hold, u, Revenue, u}
      BY <2>4, <3>1, FourInOrder
    <3>3. QED
      BY <3>2
  <2>6. QED
    BY <1>1, <1>3, <2>1, <2>2, <2>5 DEF Footprint, Rows
<1>4. CASE v.kind \in {"settle", "settleover", "release"} /\ ~IsActive(s, v.hold)
  <2>1. o = <<v.hold>> /\ v.hold \in Holds
    BY <1>1, <1>4, VerbIs DEF LockOrder
  <2>2. DOMAIN o = 1..1 /\ InOrder(o) = {v.hold}
    BY <2>1 DEF InOrder
  <2>3. QED
    BY <1>1, <1>4, <2>1, <2>2 DEF Footprint, Rows
<1>5. CASE v.kind = "release" /\ IsActive(s, v.hold)
  <2>1. PICK u \in Users : u = s.hold[v.hold].user
    BY <1>5, VerbIs, RowTypes
  <2>2. o = <<v.hold, u>> /\ v.hold \in Holds /\ u \in Accounts
    BY <1>1, <1>5, <2>1, VerbIs, UsersAreAccounts DEF LockOrder
  <2>3. DOMAIN o = 1..2 /\ InOrder(o) = {v.hold, u}
    BY <2>2 DEF InOrder
  <2>4. QED
    BY <1>1, <1>5, <2>1, <2>2, <2>3 DEF Footprint, Rows
<1>6. CASE v.kind = "move"
  <2>1. /\ v.from \in Accounts /\ v.to \in Accounts
        /\ o = <<v.from, v.to>> \/ o = <<v.to, v.from>>
    BY <1>1, <1>6, VerbIs DEF LockOrder, Ordered
  <2>2. DOMAIN o = 1..2 /\ InOrder(o) = {v.from, v.to}
    BY <2>1 DEF InOrder
  <2>3. QED
    BY <1>1, <1>6, <2>1, <2>2 DEF Footprint, Rows
<1>7. CASE v.kind \in {"creditline", "floor"}
  <2>1. o = <<v.user>> /\ v.user \in Accounts
    BY <1>1, <1>7, VerbIs, UsersAreAccounts DEF LockOrder
  <2>2. DOMAIN o = 1..1 /\ InOrder(o) = {v.user}
    BY <2>1 DEF InOrder
  <2>3. QED
    BY <1>1, <1>7, <2>1, <2>2 DEF Footprint, Rows
<1>8. QED
  BY <1>2, <1>3, <1>4, <1>5, <1>6, <1>7, VerbIs

LEMMA LockedFootprint ==
  ASSUME TypeOK, NEW t \in Txns, Locked(t)
  PROVE  Footprint(Current(t), View(t), RowsOf(t))
<1>1. Current(t) \in Verb /\ View(t) \in LedgerType
  BY CurrentType, ViewType DEF Locked
<1>2. PICK o : o = LockOrder(Current(t), View(t))
  OBVIOUS
<1>3. FirstMissing(t, o) = {}
  BY <1>2 DEF Locked, Wanted
<1>4. PICK n \in Nat : DOMAIN o = 1..n
  BY <1>1, <1>2, Orders
<1>5. \A k \in 1..n : Mine(t, o[k])
  BY <1>3, <1>4, NoneMissing
<1>6. InOrder(o) \subseteq RowsOf(t)
  BY <1>1, <1>2, <1>4, <1>5, Orders DEF RowsOf, InOrder
<1>7. QED
  BY <1>1, <1>2, <1>6, Orders

LEMMA EffectsAreExplained ==
  ASSUME TypeOK, NEW t \in Txns, Place(t), Locked(t),
         Current(t).kind = "overhold" => ExcessFits(t),
         NEW x \in Effects(t)
  PROVE  Explains(Current(t), View(t), x)
<1>1. PICK v \in Verb : v = Current(t)
  BY CurrentType DEF Locked
<1>2. PICK s \in LedgerType : s = View(t)
  BY ViewType
<1>3. CASE v.kind = "overhold"
  <2>1. PICK m \in 1..v.amount : m = txn[t].seen
    BY <1>1, <1>3 DEF Place, AtExcess, Locked
  <2>2. x \in Exceed(s, v, m)
    BY <1>1, <1>2, <1>3, <2>1 DEF Effects
  <2>3. CASE IsNew(s, v.hold)
    <3>1. v.user \in Accounts /\ v.amount \in Nat
      BY <1>3, VerbIs, UsersAreAccounts
    <3>2. Coverage(s.account[v.user]) \in Int
      BY <3>1, RowTypes, Coverages
    <3>3. m <= Coverage(s.account[v.user])
      BY <1>1, <1>2, <1>3, <2>1, <2>3, <3>1, <3>2 DEF ExcessFits
    <3>4. x = Reserved(s, v.hold, v.user, m)
      BY <2>2, <2>3 DEF Exceed
    <3>5. x \in OverHold(s, v)
      BY <2>3, <3>3, <3>4 DEF OverHold
    <3>6. QED
      BY <1>1, <1>2, <1>3, <3>5 DEF Explains, Outcomes
  <2>4. CASE ~IsNew(s, v.hold)
    <3>1. x = s
      BY <2>2, <2>4 DEF Exceed, Replayed
    <3>2. QED
      BY <1>1, <1>2, <1>3, <3>1 DEF Explains, Outcomes, OverHold
  <2>5. QED
    BY <2>3, <2>4
<1>4. CASE v.kind = "floor"
  BY <1>1, <1>2, <1>4 DEF Effects, Explains
<1>5. CASE v.kind \notin {"overhold", "floor"}
  BY <1>1, <1>2, <1>5 DEF Effects, Explains
<1>6. QED
  BY <1>3, <1>4, <1>5

LEMMA WrittenIs ==
  ASSUME TypeOK, NEW t \in Txns, NEW s \in LedgerType
  PROVE  /\ IsDraft(Written(t, s))
         /\ Seen(Written(t, s), db) = s
         /\ \A a \in DOMAIN Written(t, s).account :
              a \in DOMAIN draft[t].account \/ s.account[a] # View(t).account[a]
         /\ \A h \in DOMAIN Written(t, s).hold :
              h \in DOMAIN draft[t].hold \/ s.hold[h] # View(t).hold[h]
<1>1. db \in LedgerType /\ View(t) \in LedgerType /\ IsDraft(draft[t])
  BY ViewType
<1>2. PICK w : w = Written(t, s)
  OBVIOUS
<1>3. /\ DOMAIN s.account = Accounts /\ DOMAIN s.hold = Holds
      /\ s.account \in [Accounts -> Account] /\ s.hold \in [Holds -> Hold]
  BY DEF LedgerType
<1> DEFINE A == {x \in Accounts : s.account[x] # View(t).account[x]} \cup DOMAIN draft[t].account
           H == {x \in Holds : s.hold[x] # View(t).hold[x]} \cup DOMAIN draft[t].hold
<1>4. w.account = [x \in A |-> s.account[x]] /\ w.hold = [x \in H |-> s.hold[x]]
  BY <1>2, <1>3 DEF Written
<1>5. A \subseteq Accounts /\ H \subseteq Holds
  BY <1>1 DEF IsDraft
<1>6. IsDraft(w)
  BY <1>3, <1>4, <1>5 DEF IsDraft
<1>7. Seen(w, db) \in LedgerType
  BY <1>1, <1>6, SeenIs
<1>8. ASSUME NEW a \in Accounts PROVE Seen(w, db).account[a] = s.account[a]
  <2>1. a \notin A => s.account[a] = db.account[a]
    BY <1>1, ViewIsSeen, SeenIs
  <2> HIDE DEF A, H
  <2>2. QED
    BY <1>1, <1>4, <1>6, <2>1, SeenIs
<1>9. ASSUME NEW h \in Holds PROVE Seen(w, db).hold[h] = s.hold[h]
  <2>1. h \notin H => s.hold[h] = db.hold[h]
    BY <1>1, ViewIsSeen, SeenIs
  <2> HIDE DEF A, H
  <2>2. QED
    BY <1>1, <1>4, <1>6, <2>1, SeenIs
<1>10. Seen(w, db) = s
  BY <1>7, <1>8, <1>9, Ledgers
<1>11. QED
  BY <1>2, <1>4, <1>6, <1>10

(* It runs a verb.                                                           *)
LEMMA Performs ==
  ASSUME TypeOK, NEW t \in Txns, Sound(t), Perform(t)
  PROVE  Sound(t)' /\ IsDraft(draft'[t])
<1>1. PICK x \in Effects(t) : draft' = [draft EXCEPT ![t] = Written(t, x)]
  BY DEF Perform
<1>2. /\ db' = db /\ program' = program /\ owner' = owner /\ NextVerb(t) /\ Locked(t)
      /\ View(t) \in LedgerType /\ db \in LedgerType
  BY ViewType DEF Perform
<1>3. Footprint(Current(t), View(t), RowsOf(t)) /\ Current(t) \in Verb
  BY <1>2, LockedFootprint, CurrentType DEF Locked
<1>4. Explains(Current(t), View(t), x)
  BY EffectsAreExplained DEF Perform, Sound
<1>5. Local(Current(t), View(t), x, RowsOf(t))
  BY <1>2, <1>3, <1>4, VerbIsLocal
<1>6. x \in LedgerType /\ Mix(x, View(t), RowsOf(t)) = x
  BY <1>5 DEF Local
<1>7. draft'[t] = Written(t, x)
  BY <1>1 DEF TypeOK
<1>8. IsDraft(draft'[t]) /\ View(t)' = x
  BY <1>2, <1>6, <1>7, ViewIsSeen, WrittenIs
<1>9. /\ txn'[t].stage = "observe" /\ txn'[t].verb = txn[t].verb + 1
      /\ txn'[t].fresh = {} /\ txn'[t].result = "open"
  BY <1>2, NextVerbIs, BeforeIs
<1>10. RowsOf(t)' = RowsOf(t) /\ Keep(t)' = RowsOf(t) /\ Keep(t) \subseteq RowsOf(t)
  <2>1. RowsOf(t)' = RowsOf(t)
    BY <1>2 DEF RowsOf, Mine
  <2>2. QED
    BY <1>9, <2>1 DEF Keep
<1>11. Locks(t)'
  <2>1. \A a \in Accounts : a \notin RowsOf(t) => x.account[a] = View(t).account[a]
    BY <1>2, <1>6, MixIs
  <2>2. \A h \in Holds : h \notin RowsOf(t) => x.hold[h] = View(t).hold[h]
    BY <1>2, <1>6, MixIs
  <2>3. DOMAIN draft'[t].account \subseteq RowsOf(t)
    <3>1. DOMAIN draft'[t].account \subseteq Accounts
      BY <1>8 DEF IsDraft
    <3>2. DOMAIN draft[t].account \subseteq RowsOf(t)
      BY <1>10 DEF Sound, Locks
    <3>3. QED
      BY <1>6, <1>7, <2>1, <3>1, <3>2, WrittenIs
  <2>4. DOMAIN draft'[t].hold \subseteq RowsOf(t)
    <3>1. DOMAIN draft'[t].hold \subseteq Holds
      BY <1>8 DEF IsDraft
    <3>2. DOMAIN draft[t].hold \subseteq RowsOf(t)
      BY <1>10 DEF Sound, Locks
    <3>3. QED
      BY <1>6, <1>7, <2>2, <3>1, <3>2, WrittenIs
  <2>5. QED
    BY <1>9, <1>10, <2>3, <2>4 DEF Locks
<1>12. txn[t].verb \in 1..Len(program[t].verbs) /\ Len(program[t].verbs) \in Nat
  BY <1>2, CurrentType DEF Locked
<1>13. Place(t)'
  BY <1>2, <1>9, <1>12 DEF Place, AtExcess
<1>14. History(t)'
  <2> DEFINE p == program[t].verbs
             n == txn[t].verb - 1
  <2>1. Trace(n, p, db, View(t), Keep(t)) /\ n \in Nat
    BY <1>2, <1>12 DEF Sound, History, Locked
  <2>2. Mix(View(t), db, Keep(t)) = View(t)
    BY ViewIsMixed DEF Sound
  <2>3. Trace(n, p, db, View(t), RowsOf(t))
    BY <1>2, <1>10, <2>1, <2>2, TraceGrows
  <2>4. p[n + 1] = Current(t)
    BY <1>12 DEF Current
  <2>5. Trace(n + 1, p, db, x, RowsOf(t))
    BY <1>2, <1>5, <2>1, <2>3, <2>4, TraceExtends
  <2>6. QED
    BY <1>2, <1>8, <1>9, <1>10, <1>12, <2>5 DEF History
<1>15. Cover(t)'
  <2>1. ASSUME Floorless(t) PROVE InCover(x)
    <3>1. Current(t).kind # "floor"
      BY <1>12, <2>1 DEF Floorless, Current
    <3>2. x \in Outcomes(Current(t), View(t))
      BY <1>4, <3>1 DEF Explains
    <3>3. InCover(View(t))
      BY <2>1 DEF Sound, Cover
    <3>4. QED
      BY <1>2, <1>3, <3>1, <3>2, <3>3, VerbCover
  <2>2. QED
    BY <1>2, <1>8, <1>9, <2>1 DEF Cover, Floorless, InCover
<1>16. QED
  BY <1>8, <1>11, <1>13, <1>14, <1>15 DEF Sound

-----------------------------------------------------------------------------
(* Types.                                                                    *)

LEMMA TxnChanges ==
  ASSUME NEW q \in Txn, NEW n \in Nat, NEW F \in SUBSET Rows,
         NEW r \in {"committed", "refused", "incoherent", "deadlocked"}
  PROVE  /\ [q EXCEPT !.stage = "lock"] \in Txn
         /\ [q EXCEPT !.stage = "lock", !.seen = n] \in Txn
         /\ [q EXCEPT !.fresh = F] \in Txn
         /\ [q EXCEPT !.stage = "ended", !.result = r] \in Txn
         /\ [q EXCEPT !.stage = "ended", !.result = r, !.fresh = F] \in Txn
         /\ [q EXCEPT !.seen = n, !.clamped = TRUE, !.fresh = F, !.tries = 1] \in Txn
<1>1. PICK a : a = [q EXCEPT !.stage = "lock"]
  OBVIOUS
<1>2. PICK b : b = [q EXCEPT !.stage = "ended"]
  OBVIOUS
<1>3. PICK c : c = [q EXCEPT !.seen = n]
  OBVIOUS
<1>4. a \in Txn /\ b \in Txn /\ c \in Txn /\ [q EXCEPT !.fresh = F] \in Txn
  BY <1>1, <1>2, <1>3 DEF Txn
<1>5. PICK d : d = [b EXCEPT !.result = r]
  OBVIOUS
<1>6. PICK e : e = [c EXCEPT !.clamped = TRUE]
  OBVIOUS
<1>7. [a EXCEPT !.seen = n] \in Txn /\ d \in Txn /\ e \in Txn
  BY <1>4, <1>5, <1>6 DEF Txn
<1>8. PICK f : f = [e EXCEPT !.fresh = F]
  OBVIOUS
<1>9. f \in Txn /\ [d EXCEPT !.fresh = F] \in Txn
  BY <1>7, <1>8 DEF Txn
<1>10. [f EXCEPT !.tries = 1] \in Txn
  BY <1>9, TriesAssumption DEF Txn
<1>11. /\ [q EXCEPT !.stage = "lock", !.seen = n] = [a EXCEPT !.seen = n]
       /\ [q EXCEPT !.stage = "ended", !.result = r] = d
  BY <1>1, <1>2, <1>5
<1>12. [q EXCEPT !.stage = "ended", !.result = r, !.fresh = F] = [d EXCEPT !.fresh = F]
  BY <1>2, <1>5
<1>13. [q EXCEPT !.seen = n, !.clamped = TRUE, !.fresh = F, !.tries = 1]
         = [f EXCEPT !.tries = 1]
  BY <1>3, <1>6, <1>8
<1>14. QED
  BY <1>1, <1>4, <1>7, <1>9, <1>10, <1>11, <1>12, <1>13

LEMMA BeforeType ==
  ASSUME NEW n \in Nat \ {0}, NEW k \in 1..MaxTries
  PROVE  /\ Before(n, k) \in Txn
         /\ \A m \in 1..MaxTries : [Before(n, k) EXCEPT !.tries = m] \in Txn
<1>1. PICK b : b = Before(n, k)
  OBVIOUS
<1>2. b \in Txn
  BY <1>1, TriesAssumption DEF Before, Txn
<1>3. \A m \in 1..MaxTries : [b EXCEPT !.tries = m] \in Txn
  BY <1>2 DEF Txn
<1>4. QED
  BY <1>1, <1>2, <1>3

LEMMA CanCollectType ==
  ASSUME TypeOK, NEW t \in Txns, NEW v, v.user \in Users, v.amount \in Nat
  PROVE  CanCollect(t, v) \in 0..v.amount
<1>1. PICK c : c = Coverage(View(t).account[v.user])
  OBVIOUS
<1>2. v.user \in Accounts /\ View(t) \in LedgerType
  BY UsersAreAccounts, ViewType
<1>3. c \in Int
  BY <1>1, <1>2, RowTypes, Coverages
<1>4. QED
  BY <1>1, <1>3 DEF CanCollect, Ceiling

\* The transactions other than t, and what t may make of its own.
ChangesOnly(t) ==
  /\ program' = program
  /\ DOMAIN draft' = Txns
  /\ \A u \in Txns \ {t} : txn'[u] = txn[u] /\ draft'[u] = draft[u]
  /\ \A u \in Txns \ {t} : RowsOf(u)' = RowsOf(u)
  /\ txn' \in [Txns -> Txn] /\ owner' \in [Rows -> Txns \cup {None}]

LEMMA FreeChanges ==
  ASSUME TypeOK, NEW t \in Txns, NEW R, R \subseteq RowsOf(t), Free(R)
  PROVE  /\ owner' \in [Rows -> Txns \cup {None}]
         /\ RowsOf(t)' = RowsOf(t) \ R
         /\ \A u \in Txns \ {t} : RowsOf(u)' = RowsOf(u)
<1>1. owner' \in [Rows -> Txns \cup {None}]
  BY DEF TypeOK, Free
<1>2. \A u \in Txns : RowsOf(u)' = RowsOf(u) \ R
  BY RowsFreed
<1>3. \A u \in Txns \ {t} : RowsOf(u) \cap R = {}
  BY DEF RowsOf, Mine
<1>4. QED
  BY <1>1, <1>2, <1>3

LEMMA SameOwner ==
  ASSUME TypeOK, owner' = owner
  PROVE  /\ owner' \in [Rows -> Txns \cup {None}]
         /\ \A u \in Txns : RowsOf(u)' = RowsOf(u)
BY DEF TypeOK, RowsOf, Mine

LEMMA TxnIs ==
  ASSUME TypeOK, NEW t \in Txns
  PROVE  txn[t] \in Txn /\ txn \in [Txns -> Txn] /\ DOMAIN draft = Txns
BY DEF TypeOK

LEMMA NextVerbChanges ==
  ASSUME TypeOK, NEW t \in Txns, NextVerb(t)
  PROVE  /\ txn' \in [Txns -> Txn]
         /\ \A u \in Txns \ {t} : txn'[u] = txn[u]
<1>1. txn[t].verb + 1 \in Nat \ {0} /\ txn[t].runs \in 1..MaxTries
  BY TxnIs DEF Txn
<1>2. Before(txn[t].verb + 1, txn[t].runs) \in Txn
  BY <1>1, BeforeType
<1>3. QED
  BY <1>2, TxnIs DEF NextVerb

LEMMA AbandonChanges ==
  ASSUME TypeOK, NEW t \in Txns,
         NEW why \in {"refused", "incoherent", "deadlocked"}, Abandon(t, why)
  PROVE  ChangesOnly(t) /\ db' = db
<1>1. [txn[t] EXCEPT !.stage = "ended", !.result = why, !.fresh = {}] \in Txn
  BY TxnIs, TxnChanges
<1>2. txn' = [txn EXCEPT ![t] = [txn[t] EXCEPT !.stage = "ended", !.result = why,
                                               !.fresh = {}]]
  BY TxnIs DEF Abandon
<1>3. txn' \in [Txns -> Txn] /\ \A u \in Txns \ {t} : txn'[u] = txn[u]
  BY <1>1, <1>2, TxnIs
<1>4. DOMAIN draft' = Txns /\ \A u \in Txns \ {t} : draft'[u] = draft[u]
  BY TxnIs DEF Abandon
<1>5. /\ owner' \in [Rows -> Txns \cup {None}]
      /\ \A u \in Txns \ {t} : RowsOf(u)' = RowsOf(u)
  BY FreeChanges DEF Abandon
<1>6. QED
  BY <1>3, <1>4, <1>5 DEF ChangesOnly, Abandon

-----------------------------------------------------------------------------
(* What each action makes of its own transaction, and of the others.         *)

\* A step that commits nothing.
Quiet(t) == ChangesOnly(t) /\ IsDraft(draft'[t]) /\ Sound(t)' /\ db' = db

LEMMA Abandons ==
  ASSUME TypeOK, InCover(db), NEW t \in Txns, Sound(t),
         NEW why \in {"refused", "incoherent", "deadlocked"}, Abandon(t, why),
         why = "incoherent" => ~Floorless(t)
  PROVE  Quiet(t)
<1>1. ChangesOnly(t) /\ db' = db
  BY AbandonChanges
<1>2. Sound(t)'
  BY Leaves
<1>3. IsDraft(draft'[t])
  BY AbandonIs, NoDraftIs
<1>4. QED
  BY <1>1, <1>2, <1>3 DEF Quiet

LEMMA Observes ==
  ASSUME TypeOK, InCover(db), NEW t \in Txns, Sound(t), Observe(t)
  PROVE  Quiet(t)
<1>1. txn[t].stage = "observe" /\ ~Done(t) /\ Current(t) \in Verb
  BY CurrentType DEF Observe
<1>2. txn[t].fresh = {} /\ txn[t].fresh \subseteq RowsOf(t)
  BY <1>1 DEF Sound, Place, Locks
<1>3. ASSUME UNCHANGED <<db, owner, draft, program>>,
             NEW q \in Txn, txn' = [txn EXCEPT ![t] = q],
             q.stage = "lock", q.verb = txn[t].verb, q.fresh = {},
             q.result = txn[t].result,
             Current(t).kind = "overhold" => q.seen \in 1..Current(t).amount
      PROVE  Quiet(t)
  <2>1. txn'[t] = q /\ txn' \in [Txns -> Txn] /\ \A u \in Txns \ {t} : txn'[u] = txn[u]
    BY <1>3, TxnIs
  <2>2. ChangesOnly(t) /\ RowsOf(t)' = RowsOf(t)
    BY <1>3, <2>1, SameOwner, TxnIs DEF ChangesOnly
  <2>3. Keep(t)' = Keep(t)
    BY <1>2, <1>3, <2>1, <2>2 DEF Keep
  <2>4. AtExcess(t)' => q.seen \in 1..Current(t).amount
    BY <1>3, <2>1 DEF AtExcess, Current
  <2>5. Sound(t)'
    BY <1>1, <1>3, <2>1, <2>3, <2>4, Stays
  <2>6. IsDraft(draft'[t])
    BY <1>3, ViewType
  <2>7. QED
    BY <1>3, <2>2, <2>5, <2>6 DEF Quiet
<1>4. CASE Current(t).kind = "overhold"
  <2>1. UNCHANGED <<db, owner, draft, program>>
    BY <1>4 DEF Observe
  <2>2. PICK c : c = CanCollect(t, Current(t))
    OBVIOUS
  <2>3. Current(t).amount \in Nat /\ c \in 0..Current(t).amount
    BY <1>1, <1>4, <2>2, VerbIs, CanCollectType
  <2>4. CASE c = 0
    <3>1. NextVerb(t)
      BY <1>4, <2>2, <2>4 DEF Observe
    <3>2. ChangesOnly(t) /\ RowsOf(t)' = RowsOf(t)
      BY <2>1, <3>1, SameOwner, TxnIs, NextVerbChanges DEF ChangesOnly
    <3>3. Sound(t)'
      BY <1>1, <1>4, <2>1, <3>1, <3>2, Skips DEF Keep
    <3>4. QED
      BY <2>1, <3>2, <3>3, ViewType DEF Quiet
  <2>5. CASE c # 0
    <3>1. PICK q : q = [txn[t] EXCEPT !.stage = "lock", !.seen = c]
      OBVIOUS
    <3>2. txn' = [txn EXCEPT ![t] = q]
      BY <1>4, <2>2, <2>5, <3>1 DEF Observe
    <3>3. q \in Txn /\ c \in 1..Current(t).amount
      <4>1. c \in Nat /\ c \in 1..Current(t).amount
        BY <2>3, <2>5
      <4>2. q \in Txn
        BY <3>1, <4>1, TxnIs, TxnChanges
      <4>3. QED
        BY <4>1, <4>2
    <3>4. /\ q.stage = "lock" /\ q.verb = txn[t].verb /\ q.fresh = {}
          /\ q.result = txn[t].result /\ q.seen = c
      BY <1>2, <3>1, TxnIs DEF Txn
    <3>5. QED
      BY <1>3, <2>1, <3>2, <3>3, <3>4
  <2>6. QED
    BY <2>4, <2>5
<1>5. ASSUME Current(t).kind # "overhold", UNCHANGED <<db, owner, draft, program>>,
             txn' = [txn EXCEPT ![t].stage = "lock"]
      PROVE  Quiet(t)
  <2>1. PICK q : q = [txn[t] EXCEPT !.stage = "lock"]
    OBVIOUS
  <2>2. txn' = [txn EXCEPT ![t] = q]
    BY <1>5, <2>1
  <2>3. q \in Txn
    BY <2>1, TxnIs, TxnChanges
  <2>4. q.stage = "lock" /\ q.verb = txn[t].verb /\ q.fresh = {} /\ q.result = txn[t].result
    BY <1>2, <2>1, TxnIs DEF Txn
  <2>5. QED
    BY <1>3, <1>5, <2>2, <2>3, <2>4
<1>6. CASE Current(t).kind = "floor"
  <2>1. CASE FloorFits(View(t).account[Current(t).user], Current(t).limit)
    BY <1>5, <1>6, <2>1 DEF Observe
  <2>2. CASE ~FloorFits(View(t).account[Current(t).user], Current(t).limit)
    <3>1. Abandon(t, "refused")
      BY <1>6, <2>2 DEF Observe
    <3>2. QED
      BY <3>1, Abandons
  <2>3. QED
    BY <2>1, <2>2
<1>7. CASE Current(t).kind \notin {"overhold", "floor"}
  BY <1>5, <1>7 DEF Observe
<1>8. QED
  BY <1>4, <1>6, <1>7

LEMMA LocksOne ==
  ASSUME TypeOK, InCover(db), NEW t \in Txns, Sound(t), Lock(t)
  PROVE  Quiet(t)
<1>1. PICK r \in Wanted(t) :
        /\ owner[r] = None
        /\ owner' = [owner EXCEPT ![r] = t]
        /\ txn' = [txn EXCEPT ![t].fresh = @ \cup {r}]
        /\ UNCHANGED <<db, draft, program>>
  BY DEF Lock
<1>2. txn[t].stage = "lock" /\ ~Done(t) /\ Current(t) \in Verb /\ View(t) \in LedgerType
  <2>1. txn[t].stage = "lock" /\ ~Done(t)
    BY <1>1 DEF Wanted
  <2>2. QED
    BY <2>1, CurrentType, ViewType
<1>3. r \in Rows
  <2>1. r \in FirstMissing(t, LockOrder(Current(t), View(t)))
    BY <1>1 DEF Wanted
  <2>2. r \in InOrder(LockOrder(Current(t), View(t)))
    BY <2>1 DEF FirstMissing, InOrder
  <2>3. QED
    BY <1>2, <2>2, Orders
<1>4. PICK q : q = [txn[t] EXCEPT !.fresh = txn[t].fresh \cup {r}]
  OBVIOUS
<1>5. txn' = [txn EXCEPT ![t] = q]
  BY <1>1, <1>4
<1>6. txn[t].fresh \in SUBSET Rows
  BY TxnIs DEF Txn
<1>7. q \in Txn
  BY <1>3, <1>4, <1>6, TxnIs, TxnChanges
<1>8. /\ q.stage = "lock" /\ q.verb = txn[t].verb /\ q.fresh = txn[t].fresh \cup {r}
      /\ q.result = txn[t].result /\ q.seen = txn[t].seen
  BY <1>2, <1>4, TxnIs DEF Txn
<1>9. txn'[t] = q /\ txn' \in [Txns -> Txn] /\ \A u \in Txns \ {t} : txn'[u] = txn[u]
  BY <1>5, <1>7, TxnIs
<1>10. /\ owner' \in [Rows -> Txns \cup {None}]
       /\ RowsOf(t)' = RowsOf(t) \cup {r}
       /\ \A u \in Txns \ {t} : RowsOf(u)' = RowsOf(u)
  BY <1>1, <1>3, NoneAssumption DEF TypeOK, RowsOf, Mine
<1>11. ChangesOnly(t)
  BY <1>1, <1>9, <1>10, TxnIs DEF ChangesOnly
<1>12. r \notin RowsOf(t)
  BY <1>1, NoneAssumption DEF RowsOf, Mine
<1>13. Keep(t)' = Keep(t)
  BY <1>8, <1>9, <1>10, <1>12 DEF Keep
<1>14. txn'[t].fresh \subseteq RowsOf(t)'
  BY <1>8, <1>9, <1>10 DEF Sound, Locks
<1>15. AtExcess(t)' => txn'[t].seen \in 1..Current(t).amount
  BY <1>1, <1>2, <1>8, <1>9 DEF AtExcess, Done, Current, Sound, Place
<1>16. Sound(t)'
  BY <1>1, <1>2, <1>8, <1>9, <1>13, <1>14, <1>15, Stays
<1>17. QED
  BY <1>1, <1>11, <1>16, ViewType DEF Quiet

LEMMA PerformsOne ==
  ASSUME TypeOK, NEW t \in Txns, Sound(t), Perform(t)
  PROVE  Quiet(t)
<1>1. Sound(t)' /\ IsDraft(draft'[t])
  BY Performs
<1>2. DOMAIN draft' = Txns /\ \A u \in Txns \ {t} : draft'[u] = draft[u]
  BY TxnIs DEF Perform
<1>3. NextVerb(t) /\ owner' = owner /\ db' = db /\ program' = program
  BY DEF Perform
<1>4. QED
  BY <1>1, <1>2, <1>3, NextVerbChanges, SameOwner DEF Quiet, ChangesOnly

LEMMA RefusesOne ==
  ASSUME TypeOK, InCover(db), NEW t \in Txns, Sound(t), Refuse(t)
  PROVE  Quiet(t)
BY Abandons DEF Refuse

LEMMA ClampsOne ==
  ASSUME TypeOK, InCover(db), NEW t \in Txns, Sound(t), Clamp(t)
  PROVE  Quiet(t)
<1>1. /\ txn[t].stage = "lock" /\ ~Done(t) /\ Current(t) \in Verb
      /\ Current(t).kind = "overhold" /\ Free(txn[t].fresh)
      /\ UNCHANGED <<db, draft, program>>
  BY CurrentType DEF Clamp, Locked
<1>2. txn[t].fresh \subseteq RowsOf(t)
  BY DEF Sound, Locks
<1>3. /\ owner' \in [Rows -> Txns \cup {None}] /\ RowsOf(t)' = Keep(t)
      /\ \A u \in Txns \ {t} : RowsOf(u)' = RowsOf(u)
  BY <1>1, <1>2, FreeChanges DEF Keep
<1>4. PICK c : c = CanCollect(t, Current(t))
  OBVIOUS
<1>5. PICK less : less = IF c < txn[t].seen THEN c ELSE txn[t].seen
  OBVIOUS
<1>6. IF txn[t].clamped \/ less = 0 THEN NextVerb(t)
      ELSE txn' = [txn EXCEPT ![t].seen = less, ![t].clamped = TRUE,
                              ![t].fresh = {}, ![t].tries = 1]
  BY <1>4, <1>5 DEF Clamp
<1>7. Current(t).amount \in Nat /\ less \in 0..Current(t).amount
  <2>1. Current(t).amount \in Nat /\ c \in 0..Current(t).amount
    BY <1>1, <1>4, VerbIs, CanCollectType
  <2>2. txn[t].seen \in 1..Current(t).amount
    BY <1>1 DEF Sound, Place, AtExcess
  <2>3. QED
    BY <1>5, <2>1, <2>2
<1>8. CASE NextVerb(t)
  <2>1. ChangesOnly(t)
    BY <1>1, <1>3, <1>8, NextVerbChanges, TxnIs DEF ChangesOnly
  <2>2. Sound(t)'
    BY <1>1, <1>3, <1>8, Skips DEF Keep
  <2>3. QED
    BY <1>1, <2>1, <2>2, ViewType DEF Quiet
<1>9. CASE ~(txn[t].clamped \/ less = 0)
  <2>1. PICK q : q = [txn[t] EXCEPT !.seen = less, !.clamped = TRUE, !.fresh = {},
                                    !.tries = 1]
    OBVIOUS
  <2>2. txn' = [txn EXCEPT ![t] = q]
    BY <1>6, <1>9, <2>1
  <2>3. less \in Nat /\ less \in 1..Current(t).amount
    BY <1>7, <1>9
  <2>4. q \in Txn
    BY <2>1, <2>3, TxnIs, TxnChanges
  <2>5. /\ q.stage = "lock" /\ q.verb = txn[t].verb /\ q.fresh = {}
        /\ q.result = txn[t].result /\ q.seen = less
    BY <1>1, <2>1, TxnIs DEF Txn
  <2>6. txn'[t] = q /\ txn' \in [Txns -> Txn] /\ \A u \in Txns \ {t} : txn'[u] = txn[u]
    BY <2>2, <2>4, TxnIs
  <2>7. ChangesOnly(t)
    BY <1>1, <1>3, <2>6, TxnIs DEF ChangesOnly
  <2>8. Keep(t)' = Keep(t)
    BY <1>3, <2>5, <2>6 DEF Keep
  <2>9. Sound(t)'
    BY <1>1, <2>3, <2>5, <2>6, <2>8, Stays
  <2>10. QED
    BY <1>1, <2>7, <2>9, ViewType DEF Quiet
<1>10. QED
  BY <1>6, <1>8, <1>9

\* A step that commits: the committed ledger becomes what t reads, and that is
\* what the serial ledger may become.
Commits(t) ==
  /\ ChangesOnly(t) /\ IsDraft(draft'[t]) /\ Sound(t)'
  /\ db' = View(t) /\ db' \in LedgerType /\ InCover(db')
  /\ \A u \in Txns \ {t} : SameOn(RowsOf(u), db, db')
  /\ db' \in Serial!Runs(program[t].verbs, db)

LEMMA CoherentIs ==
  ASSUME TypeOK, InCover(db), NEW t \in Txns
  PROVE  Coherent(t) <=> InCover(View(t))
<1>1. View(t) \in LedgerType /\ db \in LedgerType /\ IsDraft(draft[t])
  BY ViewType
<1>2. \A c \in Users : View(t).account[c] =
        IF c \in DOMAIN draft[t].account THEN draft[t].account[c] ELSE db.account[c]
  BY <1>1, ViewIsSeen, SeenIs, UsersAreAccounts
<1>3. QED
  BY <1>2 DEF Coherent, InCover

LEMMA CommitsOrQuiet ==
  ASSUME TypeOK, InCover(db), NEW t \in Txns, Sound(t), Commit(t)
  PROVE  Quiet(t) \/ Commits(t)
<1>1. txn[t].stage = "observe" /\ Done(t) /\ txn[t].fresh = {}
  BY DEF Commit, Sound, Place
<1>2. CASE ~Coherent(t)
  <2>1. ~Floorless(t)
    BY <1>2, CoherentIs DEF Sound, Cover
  <2>2. Abandon(t, "incoherent")
    BY <1>2 DEF Commit
  <2>3. QED
    BY <2>1, <2>2, Abandons
<1>3. CASE Coherent(t)
  <2>1. /\ db' = View(t)
        /\ txn' = [txn EXCEPT ![t].stage = "ended", ![t].result = "committed"]
        /\ draft' = [draft EXCEPT ![t] = NoDraft]
        /\ Free(RowsOf(t)) /\ program' = program
    BY <1>3 DEF Commit
  <2>2. View(t) \in LedgerType /\ db \in LedgerType /\ InCover(View(t))
    BY <1>3, ViewType, CoherentIs
  <2>3. PICK q : q = [txn[t] EXCEPT !.stage = "ended", !.result = "committed"]
    OBVIOUS
  <2>4. q \in Txn
    BY <2>3, TxnIs, TxnChanges
  <2>5. /\ q.stage = "ended" /\ q.result = "committed" /\ q.fresh = {}
        /\ q.verb = txn[t].verb
    BY <1>1, <2>3, TxnIs DEF Txn
  <2>6. txn'[t] = q /\ txn' \in [Txns -> Txn] /\ \A u \in Txns \ {t} : txn'[u] = txn[u]
    <3>1. txn' = [txn EXCEPT ![t] = q]
      BY <2>1, <2>3
    <3>2. QED
      BY <2>4, <3>1, TxnIs
  <2>7. /\ owner' \in [Rows -> Txns \cup {None}] /\ RowsOf(t)' = {}
        /\ \A u \in Txns \ {t} : RowsOf(u)' = RowsOf(u)
    BY <2>1, FreeChanges
  <2>8. draft'[t] = NoDraft /\ DOMAIN draft' = Txns
        /\ \A u \in Txns \ {t} : draft'[u] = draft[u]
    BY <2>1, TxnIs
  <2>9. ChangesOnly(t)
    BY <2>1, <2>6, <2>7, <2>8 DEF ChangesOnly
  <2>10. View(t)' = db'
    BY <2>1, <2>2, <2>8, ViewIsSeen, NoDraftIs
  <2>11. Sound(t)'
    <3>1. Locks(t)'
      BY <2>5, <2>6, <2>8, NoDraftIs DEF Locks, Keep
    <3>2. Place(t)'
      BY <2>1, <2>5, <2>6 DEF Sound, Place, AtExcess
    <3>3. History(t)'
      BY <2>5, <2>6 DEF History
    <3>4. Cover(t)'
      BY <2>1, <2>2, <2>5, <2>6, <2>10 DEF Cover, InCover
    <3>5. QED
      BY <3>1, <3>2, <3>3, <3>4 DEF Sound
  <2>12. ASSUME NEW u \in Txns \ {t} PROVE SameOn(RowsOf(u), db, View(t))
    <3>1. RowsOf(u) \cap RowsOf(t) = {}
      BY DEF RowsOf, Mine
    <3>2. DOMAIN draft[t].account \subseteq RowsOf(t) /\ DOMAIN draft[t].hold \subseteq RowsOf(t)
      BY DEF Sound, Locks, Keep
    <3>3. IsDraft(draft[t])
      BY ViewType
    <3>4. QED
      BY <2>2, <3>1, <3>2, <3>3, ViewIsSeen, SeenIs DEF SameOn
  <2>13. View(t) \in Serial!Runs(program[t].verbs, db)
    <3>1. PICK p \in Seq(Verb) : p = program[t].verbs
      BY CurrentType
    <3>2. PICK n \in Nat : n = Len(p)
      BY <3>1
    <3>3. txn[t].verb = n + 1
      BY <1>1, <3>1, <3>2, TxnIs DEF Sound, Place, Done, Txn
    <3>4. Trace(n, p, db, View(t), Keep(t))
      BY <1>1, <3>1, <3>2, <3>3 DEF Sound, History
    <3>5. Mix(View(t), db, Keep(t)) = View(t)
      BY ViewIsMixed DEF Sound
    <3>6. \A i \in 1..Len(p) : p[i].kind = "floor" => Len(p) = 1
      BY <3>1, FloorsAssumption DEF TypeOK
    <3>7. QED
      BY <2>2, <3>1, <3>2, <3>4, <3>5, <3>6, TraceEnds DEF InCover
  <2>14. QED
    BY <2>1, <2>2, <2>8, <2>9, <2>11, <2>12, <2>13, NoDraftIs DEF Commits
<1>4. QED
  BY <1>2, <1>3

LEMMA DeadlocksOne ==
  ASSUME TypeOK, InCover(db), NEW t \in Txns, Sound(t), Deadlock(t)
  PROVE  Quiet(t)
<1>1. txn[t].stage = "lock" /\ ~Done(t)
  <2>1. Blockers(t) # {}
    BY DEF Deadlock, InCircle
  <2>2. Wanted(t) # {}
    BY <2>1 DEF Blockers
  <2>3. QED
    BY <2>2 DEF Wanted
<1>2. txn[t].fresh \subseteq RowsOf(t)
  BY DEF Sound, Locks
<1>3. /\ txn[t].verb \in Nat \ {0} /\ txn[t].runs \in 1..MaxTries
      /\ txn[t].tries \in 1..MaxTries
  BY TxnIs DEF Txn
<1>4. CASE program[t].joined /\ MayTryAgain(txn[t].tries)
  <2>1. PICK b : b = Before(txn[t].verb, txn[t].runs)
    OBVIOUS
  <2>2. PICK q : q = [b EXCEPT !.tries = NextTry(txn[t].tries)]
    OBVIOUS
  <2>3. /\ txn' = [txn EXCEPT ![t] = q] /\ Free(txn[t].fresh)
        /\ UNCHANGED <<db, draft, program>>
    BY <1>4, <2>1, <2>2 DEF Deadlock
  <2>4. NextTry(txn[t].tries) \in 1..MaxTries
    BY <1>3, <1>4, TriesAssumption DEF MayTryAgain, NextTry
  <2>5. q \in Txn /\ b \in Txn
    BY <1>3, <2>1, <2>2, <2>4, BeforeType
  <2>6. /\ q.stage = "observe" /\ q.verb = txn[t].verb /\ q.fresh = {} /\ q.result = "open"
    BY <2>1, <2>2, <2>5, BeforeIs DEF Txn
  <2>7. txn'[t] = q /\ txn' \in [Txns -> Txn] /\ \A u \in Txns \ {t} : txn'[u] = txn[u]
    BY <2>3, <2>5, TxnIs
  <2>8. /\ owner' \in [Rows -> Txns \cup {None}] /\ RowsOf(t)' = Keep(t)
        /\ \A u \in Txns \ {t} : RowsOf(u)' = RowsOf(u)
    BY <1>2, <2>3, FreeChanges DEF Keep
  <2>9. ChangesOnly(t)
    BY <2>3, <2>7, <2>8, TxnIs DEF ChangesOnly
  <2>10. Keep(t)' = Keep(t)
    BY <2>6, <2>7, <2>8 DEF Keep
  <2>11. Sound(t)'
    <3>1. View(t)' = View(t)
      BY <2>3, ViewIsSeen
    <3>2. Locks(t)'
      BY <2>3, <2>6, <2>7, <2>10 DEF Sound, Locks
    <3>3. Place(t)'
      BY <2>3, <2>6, <2>7 DEF Sound, Place, AtExcess
    <3>4. History(t)'
      BY <1>1, <2>3, <2>6, <2>7, <2>10, <3>1 DEF Sound, History
    <3>5. Cover(t)'
      BY <2>3, <2>6, <2>7, <3>1 DEF Sound, Cover, Floorless, InCover
    <3>6. QED
      BY <3>2, <3>3, <3>4, <3>5 DEF Sound
  <2>12. QED
    BY <2>3, <2>9, <2>11, ViewType DEF Quiet
<1>5. CASE ~(program[t].joined /\ MayTryAgain(txn[t].tries)) /\ MayTryAgain(txn[t].runs)
  <2>1. PICK k : k = NextTry(txn[t].runs)
    OBVIOUS
  <2>2. /\ txn' = [txn EXCEPT ![t] = Before(1, k)]
        /\ draft' = [draft EXCEPT ![t] = NoDraft]
        /\ Free(RowsOf(t)) /\ UNCHANGED <<db, program>>
    BY <1>5, <2>1 DEF Deadlock
  <2>3. k \in 1..MaxTries
    BY <1>3, <1>5, <2>1, TriesAssumption DEF MayTryAgain, NextTry
  <2>4. Before(1, k) \in Txn
    BY <2>3, BeforeType
  <2>5. /\ txn'[t] = Before(1, k) /\ txn' \in [Txns -> Txn]
        /\ \A u \in Txns \ {t} : txn'[u] = txn[u]
    BY <2>2, <2>4, TxnIs
  <2>6. /\ owner' \in [Rows -> Txns \cup {None}] /\ RowsOf(t)' = {}
        /\ \A u \in Txns \ {t} : RowsOf(u)' = RowsOf(u)
    BY <2>2, FreeChanges
  <2>7. /\ draft'[t] = NoDraft /\ DOMAIN draft' = Txns
        /\ \A u \in Txns \ {t} : draft'[u] = draft[u]
    BY <2>2, TxnIs
  <2>8. ChangesOnly(t)
    BY <2>2, <2>5, <2>6, <2>7 DEF ChangesOnly
  <2>9. Sound(t)'
    BY <2>2, <2>5, <2>6, <2>7, Restarts
  <2>10. QED
    BY <2>2, <2>7, <2>8, <2>9, NoDraftIs DEF Quiet
<1>6. CASE ~(program[t].joined /\ MayTryAgain(txn[t].tries)) /\ ~MayTryAgain(txn[t].runs)
  <2>1. Abandon(t, "deadlocked")
    BY <1>6 DEF Deadlock
  <2>2. QED
    BY <2>1, Abandons
<1>7. QED
  BY <1>4, <1>5, <1>6

-----------------------------------------------------------------------------
(* The invariant.                                                            *)

LEMMA StepIs ==
  ASSUME IInv, NEW t \in Txns, Step(t)
  PROVE  Quiet(t) \/ Commits(t)
<1>1. TypeOK /\ InCover(db) /\ Sound(t)
  BY DEF IInv
<1>2. CASE Observe(t)
  BY <1>1, <1>2, Observes
<1>3. CASE Lock(t)
  BY <1>1, <1>3, LocksOne
<1>4. CASE Perform(t)
  BY <1>1, <1>4, PerformsOne
<1>5. CASE Refuse(t)
  BY <1>1, <1>5, RefusesOne
<1>6. CASE Clamp(t)
  BY <1>1, <1>6, ClampsOne
<1>7. CASE Commit(t)
  BY <1>1, <1>7, CommitsOrQuiet
<1>8. CASE Deadlock(t)
  BY <1>1, <1>8, DeadlocksOne
<1>9. QED
  BY <1>2, <1>3, <1>4, <1>5, <1>6, <1>7, <1>8 DEF Step

LEMMA StepKeeps ==
  ASSUME IInv, NEW t \in Txns, Step(t)
  PROVE  IInv'
<1>1. Quiet(t) \/ Commits(t)
  BY StepIs
<1>2. /\ ChangesOnly(t) /\ IsDraft(draft'[t]) /\ Sound(t)'
      /\ db' \in LedgerType /\ InCover(db')
      /\ \A u \in Txns \ {t} : SameOn(RowsOf(u), db, db')
  BY <1>1 DEF Quiet, Commits, IInv, TypeOK, SameOn
<1>3. ASSUME NEW u \in Txns \ {t} PROVE Sound(u)'
  BY <1>2, OthersStaySound DEF IInv, ChangesOnly
<1>4. TypeOK'
  <2>1. \A u \in Txns : IsDraft(draft'[u])
    BY <1>2 DEF IInv, TypeOK, ChangesOnly
  <2>2. \A u \in Txns : IsDraft(draft[u])'
    BY <2>1 DEF IsDraft
  <2>3. QED
    BY <1>2, <2>2 DEF IInv, TypeOK, ChangesOnly
<1>5. QED
  BY <1>2, <1>3, <1>4 DEF IInv, InCover

LEMMA StutterKeeps ==
  ASSUME IInv, UNCHANGED vars
  PROVE  IInv'
<1>1. UNCHANGED <<db, owner, draft, txn, program>>
  BY DEF vars
<1>2. TypeOK'
  BY <1>1 DEF IInv, TypeOK, IsDraft
<1>3. ASSUME NEW u \in Txns PROVE Sound(u)'
  <2>1. RowsOf(u)' = RowsOf(u)
    BY <1>1 DEF RowsOf, Mine
  <2>2. db' \in LedgerType /\ InCover(db')
    BY <1>1 DEF IInv, TypeOK, InCover
  <2>3. QED
    BY <1>1, <2>1, <2>2, OthersStaySound DEF IInv, SameOn
<1>4. QED
  BY <1>1, <1>2, <1>3 DEF IInv, InCover

LEMMA InitHolds ==
  ASSUME Init
  PROVE  IInv
<1>1. db \in LedgerType /\ InCover(db)
  BY OpeningsAssumption DEF Init, InCover
<1>2. TypeOK
  <2>1. Before(1, 1) \in Txn
    BY BeforeType, TriesAssumption
  <2>2. QED
    BY <1>1, <2>1, NoDraftIs DEF Init, TypeOK
<1>3. ASSUME NEW t \in Txns PROVE Sound(t)
  <2>1. txn[t] = Before(1, 1) /\ draft[t] = NoDraft
    BY <1>3 DEF Init
  <2>2. /\ txn[t].stage = "observe" /\ txn[t].result = "open" /\ txn[t].fresh = {}
        /\ txn[t].verb = 1
    BY <2>1, BeforeIs
  <2>3. View(t) = db
    BY <1>1, <2>1, ViewIsSeen, NoDraftIs
  <2>4. Locks(t)
    BY <2>1, <2>2, NoDraftIs DEF Locks, Keep
  <2>5. Len(program[t].verbs) \in Nat
    BY <1>2, <1>3, CurrentType
  <2>6. Place(t)
    BY <2>2, <2>5 DEF Place, AtExcess
  <2>7. Trace(0, program[t].verbs, db, db, Keep(t))
    BY <1>1, TraceStart DEF SameOn
  <2>8. QED
    BY <1>1, <2>2, <2>3, <2>4, <2>6, <2>7 DEF Sound, History, Cover
<1>4. QED
  BY <1>1, <1>2, <1>3 DEF IInv

-----------------------------------------------------------------------------
(* The books: the verbs keep both sums.                                      *)

Balances(s) == [a \in Accounts |-> s.account[a].balance]

\* What the holds of u bind, hold by hold.
Due(s, u) ==
  [h \in Holds |-> IF IsActive(s, h) /\ s.hold[h].user = u THEN s.hold[h].amount ELSE 0]

BooksOf(s) == s \in LedgerType /\ Balanced(s) /\ InFlightIsHeld(s)

LEMMA BalancedIs ==
  ASSUME NEW s
  PROVE  Balanced(s) <=> Total(Balances(s), Accounts) = 0
<1>1. DOMAIN Balances(s) = Accounts
  BY DEF Balances
<1>2. Balanced(s) <=> FoldFunction(+, 0, Balances(s)) = 0
  BY DEF Balanced, Balances
<1>3. QED
  BY <1>1, <1>2, FoldIsTotal

LEMMA InFlightIs ==
  ASSUME NEW s \in LedgerType
  PROVE  InFlightIsHeld(s) <=>
           \A u \in Users : s.account[u].inFlight = Total(Due(s, u), Holds)
<1>1. ASSUME NEW u \in Users
      PROVE  FoldFunction(+, 0,
               [h \in {x \in Holds : IsActive(s, x) /\ s.hold[x].user = u}
                  |-> s.hold[h].amount]) = Total(Due(s, u), Holds)
  <2>1. PICK R : R = {x \in Holds : IsActive(s, x) /\ s.hold[x].user = u}
    OBVIOUS
  <2>2. PICK f : f = [h \in R |-> s.hold[h].amount]
    OBVIOUS
  <2>3. PICK g : g = Due(s, u)
    OBVIOUS
  <2>4. DOMAIN f = R /\ R \subseteq Holds
    BY <2>1, <2>2
  <2>5. \A x \in R : f[x] \in Int
    BY <2>2, <2>4, RowTypes
  <2>6. \A x \in Holds : g[x] = IF x \in R THEN f[x] ELSE 0
    BY <2>1, <2>2, <2>3 DEF Due
  <2>7. Total(f, R) = Total(g, Holds)
    BY <2>4, <2>5, <2>6, FiniteAssumption, TotalOfPart
  <2>8. FoldFunction(+, 0, f) = Total(f, R)
    BY <2>4, FoldIsTotal
  <2>9. QED
    BY <2>1, <2>2, <2>3, <2>7, <2>8
<1>2. QED
  BY <1>1 DEF InFlightIsHeld

LEMMA LegBalance ==
  ASSUME NEW s \in LedgerType, NEW a \in Accounts, NEW m \in Int
  PROVE  Total(Balances(Leg(s, a, m)), Accounts) = Total(Balances(s), Accounts) + m
<1>1. PICK t : t = Leg(s, a, m)
  OBVIOUS
<1>2. /\ t \in LedgerType
      /\ \A c \in Accounts : t.account[c] =
           IF c = a THEN Paid(s.account[c], m) ELSE s.account[c]
  BY <1>1, LegIs
<1>3. PICK f : f = Balances(s)
  OBVIOUS
<1>4. PICK g : g = Balances(t)
  OBVIOUS
<1>5. \A c \in Accounts : f[c] = s.account[c].balance /\ g[c] = t.account[c].balance
  BY <1>3, <1>4 DEF Balances
<1>6. \A c \in Accounts : f[c] \in Int /\ g[c] \in Int
  BY <1>2, <1>5, RowTypes
<1>7. \A c \in Accounts \ {a} : g[c] = f[c]
  BY <1>2, <1>5
<1>8. g[a] = f[a] + m
  <2>1. s.account[a] \in Account
    BY RowTypes
  <2>2. Paid(s.account[a], m).balance = s.account[a].balance + m
    BY <2>1 DEF Paid, Account
  <2>3. QED
    BY <1>2, <1>5, <2>2
<1>9. Total(g, Accounts) = Total(f, Accounts) - f[a] + g[a]
  BY <1>6, <1>7, FiniteAssumption, TotalChange
<1>10. Total(f, Accounts) \in Int
  BY <1>6, FiniteAssumption, TotalType
<1>11. QED
  BY <1>1, <1>3, <1>4, <1>6, <1>8, <1>9, <1>10

LEMMA SameBalances ==
  ASSUME NEW s \in LedgerType, NEW x \in LedgerType, Balanced(s),
         \A c \in Accounts : x.account[c].balance = s.account[c].balance
  PROVE  Balanced(x)
<1>1. Balances(x) = Balances(s)
  BY DEF Balances
<1>2. QED
  BY <1>1, BalancedIs

LEMMA PostedBalanced ==
  ASSUME NEW s \in LedgerType, NEW a \in Accounts, NEW b \in Accounts, NEW m \in Int,
         Balanced(s)
  PROVE  Balanced(Posted(s, a, b, m))
<1>1. PICK t : t = Leg(s, a, -m)
  OBVIOUS
<1>2. -m \in Int
  OBVIOUS
<1>3. t \in LedgerType
  BY <1>1, <1>2, LegIs
<1>4. Total(Balances(t), Accounts) = Total(Balances(s), Accounts) + (-m)
  BY <1>1, <1>2, LegBalance
<1>5. Total(Balances(Leg(t, b, m)), Accounts) = Total(Balances(t), Accounts) + m
  BY <1>3, LegBalance
<1>6. Posted(s, a, b, m) = Leg(t, b, m)
  BY <1>1 DEF Posted
<1>7. Total(Balances(s), Accounts) = 0
  BY BalancedIs
<1>8. Total(Balances(Leg(t, b, m)), Accounts) = 0
  BY <1>4, <1>5, <1>7
<1>9. QED
  BY <1>6, <1>8, BalancedIs

(* One hold changes, and the account of its user with it.                    *)
LEMMA HoldChanges ==
  ASSUME NEW s \in LedgerType, NEW x \in LedgerType, InFlightIsHeld(s),
         NEW h \in Holds, NEW u \in Users, NEW d \in Int,
         \A g \in Holds \ {h} : x.hold[g] = s.hold[g],
         \A c \in Users : /\ Due(x, c)[h] = Due(s, c)[h] + (IF c = u THEN d ELSE 0)
                          /\ x.account[c].inFlight =
                               s.account[c].inFlight + (IF c = u THEN d ELSE 0)
  PROVE  InFlightIsHeld(x)
<1>1. ASSUME NEW c \in Users PROVE x.account[c].inFlight = Total(Due(x, c), Holds)
  <2>1. PICK f : f = Due(s, c)
    OBVIOUS
  <2>2. PICK g : g = Due(x, c)
    OBVIOUS
  <2>3. \A y \in Holds : f[y] \in Int /\ g[y] \in Int
    BY <2>1, <2>2, RowTypes DEF Due
  <2>4. \A y \in Holds \ {h} : g[y] = f[y]
    BY <2>1, <2>2 DEF Due, IsActive
  <2>5. Total(g, Holds) = Total(f, Holds) - f[h] + g[h]
    BY <2>3, <2>4, FiniteAssumption, TotalChange
  <2>6. Total(f, Holds) \in Int
    BY <2>3, FiniteAssumption, TotalType
  <2>7. s.account[c].inFlight = Total(f, Holds)
    BY <2>1, InFlightIs
  <2>8. QED
    BY <2>1, <2>2, <2>3, <2>5, <2>6, <2>7
<1>2. QED
  BY <1>1, InFlightIs

(* No hold changes and no in_flight.                                         *)
LEMMA NoHoldChanges ==
  ASSUME NEW s \in LedgerType, NEW x \in LedgerType, InFlightIsHeld(s),
         x.hold = s.hold,
         \A c \in Users : x.account[c].inFlight = s.account[c].inFlight
  PROVE  InFlightIsHeld(x)
<1>1. \A c \in Users : Due(x, c) = Due(s, c)
  BY DEF Due, IsActive
<1>2. QED
  BY <1>1, InFlightIs

LEMMA Columns ==
  ASSUME NEW a \in Account, NEW m \in Int
  PROVE  /\ Paid(a, m).inFlight = a.inFlight /\ Bound(a, m).inFlight = a.inFlight + m
         /\ Bound(a, m).balance = a.balance
         /\ \A n \in Nat : /\ Credited(a, n).balance = a.balance
                           /\ Credited(a, n).inFlight = a.inFlight
                           /\ Floored(a, n).balance = a.balance
                           /\ Floored(a, n).inFlight = a.inFlight
BY DEF Account, Paid, Bound, Credited, Floored

LEMMA ReservedBooks ==
  ASSUME NEW s, BooksOf(s), NEW h \in Holds, NEW u \in Users, NEW m \in Nat, IsNew(s, h)
  PROVE  BooksOf(Reserved(s, h, u, m))
<1>1. PICK x : x = Reserved(s, h, u, m)
  OBVIOUS
<1>2. s \in LedgerType /\ Balanced(s) /\ InFlightIsHeld(s)
  BY DEF BooksOf
<1>3. /\ x \in LedgerType
      /\ \A g \in Holds : x.hold[g] = IF g = h THEN NewHold(u, m) ELSE s.hold[g]
      /\ \A c \in Accounts : x.account[c] =
           IF c = u THEN Bound(s.account[c], m) ELSE s.account[c]
  BY <1>1, <1>2, ReservedIs
<1>4. \A c \in Accounts : /\ s.account[c] \in Account
                          /\ x.account[c].balance = s.account[c].balance
                          /\ x.account[c].inFlight =
                               s.account[c].inFlight + (IF c = u THEN m ELSE 0)
  <2> TAKE c \in Accounts
  <2>1. PICK a \in Account : a = s.account[c]
    BY <1>2, RowTypes
  <2>2. Bound(a, m).balance = a.balance /\ Bound(a, m).inFlight = a.inFlight + m
    BY Columns
  <2>3. a.inFlight \in Int
    BY DEF Account
  <2>4. x.account[c] = IF c = u THEN Bound(a, m) ELSE a
    BY <1>3, <2>1
  <2>5. CASE c = u
    BY <2>1, <2>2, <2>4, <2>5
  <2>6. CASE c # u
    BY <2>1, <2>3, <2>4, <2>6
  <2> QED
    BY <2>5, <2>6
<1>5. \A c \in Users : Due(x, c)[h] = Due(s, c)[h] + (IF c = u THEN m ELSE 0)
  BY <1>3 DEF Due, IsActive, IsNew, NewHold
<1>6. InFlightIsHeld(x)
  <2>1. \A g \in Holds \ {h} : x.hold[g] = s.hold[g]
    BY <1>3
  <2>2. \A c \in Users : x.account[c].inFlight =
                           s.account[c].inFlight + (IF c = u THEN m ELSE 0)
    BY <1>4, UsersAreAccounts
  <2>3. m \in Int
    OBVIOUS
  <2>4. QED
    BY <1>2, <1>3, <1>5, <2>1, <2>2, <2>3, HoldChanges
<1>7. Balanced(x)
  BY <1>2, <1>3, <1>4, SameBalances
<1>8. QED
  BY <1>1, <1>3, <1>6, <1>7 DEF BooksOf

LEMMA EndedBooks ==
  ASSUME NEW s, BooksOf(s), NEW h \in Holds, NEW st \in HoldStatus, st # "active",
         IsActive(s, h)
  PROVE  BooksOf(Ended(s, h, st))
<1>1. PICK x : x = Ended(s, h, st)
  OBVIOUS
<1>2. s \in LedgerType /\ Balanced(s) /\ InFlightIsHeld(s)
  BY DEF BooksOf
<1>3. PICK u \in Users : u = s.hold[h].user
  BY <1>2, RowTypes
<1>4. PICK d \in Int : d = -s.hold[h].amount
  BY <1>2, RowTypes
<1>5. /\ x \in LedgerType
      /\ \A g \in Holds : x.hold[g] = IF g = h THEN As(s.hold[g], st) ELSE s.hold[g]
      /\ \A c \in Accounts : x.account[c] =
           IF c = u THEN Bound(s.account[c], d) ELSE s.account[c]
  BY <1>1, <1>2, <1>3, <1>4, EndedIs
<1>6. \A c \in Accounts : /\ s.account[c] \in Account
                          /\ x.account[c].balance = s.account[c].balance
                          /\ x.account[c].inFlight =
                               s.account[c].inFlight + (IF c = u THEN d ELSE 0)
  <2> TAKE c \in Accounts
  <2>1. PICK a \in Account : a = s.account[c]
    BY <1>2, RowTypes
  <2>2. Bound(a, d).balance = a.balance /\ Bound(a, d).inFlight = a.inFlight + d
    BY Columns
  <2>3. a.inFlight \in Int
    BY DEF Account
  <2>4. x.account[c] = IF c = u THEN Bound(a, d) ELSE a
    BY <1>5, <2>1
  <2>5. CASE c = u
    BY <2>1, <2>2, <2>4, <2>5
  <2>6. CASE c # u
    BY <2>1, <2>3, <2>4, <2>6
  <2> QED
    BY <2>5, <2>6
<1>7. \A c \in Users : Due(x, c)[h] = Due(s, c)[h] + (IF c = u THEN d ELSE 0)
  <2>1. s.hold[h].amount \in Nat /\ x.hold[h] = As(s.hold[h], st) /\ s.hold[h] \in Hold
    BY <1>2, <1>5, RowTypes
  <2>2. x.hold[h].status = st
    BY <2>1 DEF As, Hold
  <2>3. \A c \in Users : Due(x, c)[h] = 0
    BY <2>2 DEF Due, IsActive
  <2>4. PICK n \in Nat : n = s.hold[h].amount
    BY <2>1
  <2>5. \A c \in Users : Due(s, c)[h] = IF c = u THEN n ELSE 0
    BY <1>3, <2>4 DEF Due
  <2>6. d = -n
    BY <1>4, <2>4
  <2>7. d + n = 0 /\ n + d = 0 /\ 0 + 0 = 0
    BY <2>6
  <2>8. ASSUME NEW c \in Users PROVE Due(x, c)[h] = Due(s, c)[h] + (IF c = u THEN d ELSE 0)
    <3>1. CASE c = u
      BY <2>3, <2>5, <2>7, <3>1
    <3>2. CASE c # u
      BY <2>3, <2>5, <2>7, <3>2
    <3>3. QED
      BY <3>1, <3>2
  <2>9. QED
    BY <2>8
<1>8. InFlightIsHeld(x)
  <2>1. \A g \in Holds \ {h} : x.hold[g] = s.hold[g]
    BY <1>5
  <2>2. \A c \in Users : x.account[c].inFlight =
                           s.account[c].inFlight + (IF c = u THEN d ELSE 0)
    BY <1>6, UsersAreAccounts
  <2>3. QED
    BY <1>2, <1>5, <1>7, <2>1, <2>2, HoldChanges
<1>9. Balanced(x)
  BY <1>2, <1>5, <1>6, SameBalances
<1>10. QED
  BY <1>1, <1>5, <1>8, <1>9 DEF BooksOf

LEMMA PostedBooks ==
  ASSUME NEW s, BooksOf(s), NEW a \in Accounts, NEW b \in Accounts, NEW m \in Nat
  PROVE  BooksOf(Posted(s, a, b, m))
<1>1. PICK x : x = Posted(s, a, b, m)
  OBVIOUS
<1>2. s \in LedgerType /\ Balanced(s) /\ InFlightIsHeld(s) /\ m \in Int /\ -m \in Int
  BY DEF BooksOf
<1>3. /\ x \in LedgerType /\ x.hold = s.hold
      /\ \A c \in Accounts : x.account[c] =
           LET y == IF c = a THEN Paid(s.account[c], -m) ELSE s.account[c]
           IN IF c = b THEN Paid(y, m) ELSE y
  <2>1. /\ Posted(s, a, b, m) \in LedgerType /\ Posted(s, a, b, m).hold = s.hold
        /\ \A c \in Accounts : Posted(s, a, b, m).account[c] =
             LET y == IF c = a THEN Paid(s.account[c], -m) ELSE s.account[c]
             IN IF c = b THEN Paid(y, m) ELSE y
    BY <1>2, PostedIs
  <2>2. QED
    BY <1>1, <2>1
<1>4. ASSUME NEW c \in Accounts PROVE x.account[c].inFlight = s.account[c].inFlight
  <2>1. PICK y : y = IF c = a THEN Paid(s.account[c], -m) ELSE s.account[c]
    OBVIOUS
  <2>2. y \in Account /\ y.inFlight = s.account[c].inFlight
    BY <1>2, <2>1, RowTypes, RowsAre, Columns
  <2>3. x.account[c] = IF c = b THEN Paid(y, m) ELSE y
    BY <1>3, <2>1
  <2>4. QED
    BY <1>2, <2>2, <2>3, Columns
<1>5. InFlightIsHeld(x)
  BY <1>2, <1>3, <1>4, UsersAreAccounts, NoHoldChanges
<1>6. Balanced(x)
  BY <1>1, <1>2, PostedBalanced
<1>7. QED
  BY <1>1, <1>3, <1>5, <1>6 DEF BooksOf

LEMMA LimitBooks ==
  ASSUME NEW s, BooksOf(s), NEW v, v.user \in Users, v.limit \in Nat
  PROVE  BooksOf(WithFloor(s, v)) /\ BooksOf(WithCredit(s, v))
<1>1. s \in LedgerType /\ Balanced(s) /\ InFlightIsHeld(s)
  BY DEF BooksOf
<1>2. ASSUME NEW x \in LedgerType, x.hold = s.hold,
             \A c \in Accounts : \/ x.account[c] = s.account[c]
                                 \/ x.account[c] = Floored(s.account[c], v.limit)
                                 \/ x.account[c] = Credited(s.account[c], v.limit)
      PROVE  BooksOf(x)
  <2>1. ASSUME NEW c \in Accounts
        PROVE  /\ x.account[c].balance = s.account[c].balance
               /\ x.account[c].inFlight = s.account[c].inFlight
    <3>1. s.account[c] \in Account
      BY <1>1, RowTypes
    <3>2. QED
      BY <1>2, <3>1, Columns
  <2>2. Balanced(x)
    BY <1>1, <1>2, <2>1, SameBalances
  <2>3. InFlightIsHeld(x)
    BY <1>1, <1>2, <2>1, UsersAreAccounts, NoHoldChanges
  <2>4. QED
    BY <1>2, <2>2, <2>3 DEF BooksOf
<1>3. PICK f : f = WithFloor(s, v)
  OBVIOUS
<1>4. PICK l : l = WithCredit(s, v)
  OBVIOUS
<1>5. f \in LedgerType /\ f.hold = s.hold
      /\ \A c \in Accounts : f.account[c] = s.account[c]
                             \/ f.account[c] = Floored(s.account[c], v.limit)
  BY <1>1, <1>3, LimitIs
<1>6. l \in LedgerType /\ l.hold = s.hold
      /\ \A c \in Accounts : l.account[c] = s.account[c]
                             \/ l.account[c] = Credited(s.account[c], v.limit)
  BY <1>1, <1>4, LimitIs
<1>7. QED
  BY <1>2, <1>3, <1>4, <1>5, <1>6

LEMMA VerbBooks ==
  ASSUME NEW v \in Verb, NEW s, BooksOf(s), NEW x \in Outcomes(v, s)
  PROVE  BooksOf(x)
<1>0. s \in LedgerType
  BY DEF BooksOf
<1>1. CASE v.kind \in {"authorize", "overhold"}
  <2>1. v.hold \in Holds /\ v.user \in Users /\ v.amount \in Nat \ {0}
    BY <1>1, VerbIs
  <2>2. \/ x = s
        \/ \E m \in Nat : IsNew(s, v.hold) /\ x = Reserved(s, v.hold, v.user, m)
    <3>1. CASE v.kind = "authorize"
      BY <2>1, <3>1 DEF Outcomes, Authorize, Replayed
    <3>2. CASE v.kind = "overhold"
      BY <2>1, <3>2 DEF Outcomes, OverHold
    <3>3. QED
      BY <1>1, <3>1, <3>2
  <2>3. QED
    BY <2>1, <2>2, ReservedBooks
<1>2. CASE v.kind \in {"settle", "settleover"}
  <2>1. /\ v.hold \in Holds /\ s.hold[v.hold].amount \in Nat /\ s.hold[v.hold].user \in Accounts
        /\ (v.kind = "settle" => v.amount \in Nat)
    BY <1>0, <1>2, VerbIs, RowTypes, UsersAreAccounts
  <2>2. \/ x = s
        \/ \E m \in Nat : IsActive(s, v.hold) /\ x = Settled(s, v.hold, m)
    BY <1>2, <2>1 DEF Outcomes, Settle, SettleOver
  <2>3. ASSUME NEW m \in Nat, IsActive(s, v.hold) PROVE BooksOf(Settled(s, v.hold, m))
    <3>1. PICK e : e = Ended(s, v.hold, "settled")
      OBVIOUS
    <3>2. PICK u \in Accounts : u = s.hold[v.hold].user
      BY <2>1
    <3>3. BooksOf(e)
      BY <2>1, <2>3, <3>1, EndedBooks DEF HoldStatus
    <3>4. BooksOf(Posted(e, u, Revenue, m))
      BY <3>3, UsersAreAccounts, PostedBooks
    <3>5. QED
      BY <3>1, <3>2, <3>4 DEF Settled
  <2>4. QED
    BY <2>2, <2>3
<1>3. CASE v.kind = "release"
  <2>1. v.hold \in Holds /\ "released" \in HoldStatus
    BY <1>3, VerbIs DEF HoldStatus
  <2>2. x = s \/ (IsActive(s, v.hold) /\ x = Ended(s, v.hold, "released"))
    BY <1>3 DEF Outcomes, Release
  <2>3. QED
    BY <2>1, <2>2, EndedBooks
<1>4. CASE v.kind = "move"
  <2>1. v.from \in Accounts /\ v.to \in Accounts /\ v.amount \in Nat
    BY <1>4, VerbIs
  <2>2. x = Posted(s, v.from, v.to, v.amount)
    BY <1>4 DEF Outcomes, Move
  <2>3. QED
    BY <2>1, <2>2, PostedBooks
<1>5. CASE v.kind \in {"creditline", "floor"}
  <2>1. v.user \in Users /\ v.limit \in Nat
    BY <1>5, VerbIs
  <2>2. x = WithCredit(s, v) \/ x = WithFloor(s, v)
    BY <1>5 DEF Outcomes, SetCreditLimit, SetDebitFloor
  <2>3. QED
    BY <2>1, <2>2, LimitBooks
<1>6. QED
  BY <1>1, <1>2, <1>3, <1>4, <1>5, VerbIs

LEMMA ProgramBooks ==
  ASSUME NEW p \in Seq(Verb), NEW s, BooksOf(s), NEW x \in Serial!Runs(p, s)
  PROVE  BooksOf(x)
<1>1. PICK P : P = {y \in LedgerType : BooksOf(y)}
  OBVIOUS
<1>2. \A y : y \in P <=> BooksOf(y)
  BY <1>1 DEF BooksOf
<1>3. ASSUME NEW i \in 1..Len(p), NEW y \in P PROVE Serial!Outcomes(p[i], y) \subseteq P
  BY <1>2, SameOutcomes, VerbBooks
<1>4. Serial!Runs(p, s) \subseteq P
  BY <1>2, <1>3, RunsKeep
<1>5. QED
  BY <1>2, <1>4

-----------------------------------------------------------------------------
(* What becomes of a hold.                                                   *)

Ends == {"settled", "released"}

\* A hold stays, is opened under a fresh key, or ends with the user and the
\* amount it was opened with; within one transaction it may do both.
HoldGoes(g, k) ==
  \/ k = g
  \/ g.status = "none" /\ k.status \in Ends \cup {"active"}
  \/ /\ g.status = "active" /\ k.status \in Ends
     /\ k.user = g.user /\ k.amount = g.amount

HoldsGo(s, x) == \A h \in Holds : HoldGoes(s.hold[h], x.hold[h])

LEMMA HoldsGoOn ==
  ASSUME NEW s, NEW y, NEW x, HoldsGo(s, y), HoldsGo(y, x)
  PROVE  HoldsGo(s, x)
<1>1. SUFFICES ASSUME NEW h \in Holds PROVE HoldGoes(s.hold[h], x.hold[h])
  BY DEF HoldsGo
<1>2. HoldGoes(s.hold[h], y.hold[h]) /\ HoldGoes(y.hold[h], x.hold[h])
  BY DEF HoldsGo
<1>3. PICK f, g, k : f = s.hold[h] /\ g = y.hold[h] /\ k = x.hold[h]
  OBVIOUS
<1>4. HoldGoes(f, g) /\ HoldGoes(g, k) => HoldGoes(f, k)
  BY DEF HoldGoes, Ends
<1>5. QED
  BY <1>2, <1>3, <1>4

LEMMA HoldEnds ==
  ASSUME NEW g \in Hold, NEW st \in Ends, g.status = "active"
  PROVE  HoldGoes(g, As(g, st))
BY DEF HoldGoes, Hold, As

LEMMA VerbGoes ==
  ASSUME NEW v \in Verb, NEW s \in LedgerType, NEW x \in Outcomes(v, s)
  PROVE  x \in LedgerType /\ HoldsGo(s, x)
<1>0. ASSUME NEW y \in LedgerType, y.hold = s.hold PROVE HoldsGo(s, y)
  BY <1>0 DEF HoldsGo, HoldGoes
<1>1. CASE v.kind \in {"authorize", "overhold"}
  <2>1. v.hold \in Holds /\ v.user \in Users /\ v.amount \in Nat \ {0}
    BY <1>1, VerbIs
  <2>2. \/ x = s
        \/ \E m \in Nat : IsNew(s, v.hold) /\ x = Reserved(s, v.hold, v.user, m)
    <3>1. CASE v.kind = "authorize"
      BY <2>1, <3>1 DEF Outcomes, Authorize, Replayed
    <3>2. CASE v.kind = "overhold"
      BY <2>1, <3>2 DEF Outcomes, OverHold
    <3>3. QED
      BY <1>1, <3>1, <3>2
  <2>3. ASSUME NEW m \in Nat, IsNew(s, v.hold), x = Reserved(s, v.hold, v.user, m)
        PROVE  x \in LedgerType /\ HoldsGo(s, x)
    <3>1. /\ x \in LedgerType
          /\ \A g \in Holds :
               x.hold[g] = IF g = v.hold THEN NewHold(v.user, m) ELSE s.hold[g]
      BY <2>1, <2>3, ReservedIs
    <3>2. NewHold(v.user, m).status = "active"
      BY DEF NewHold
    <3>3. QED
      BY <2>3, <3>1, <3>2 DEF HoldsGo, HoldGoes, IsNew
  <2>4. QED
    BY <1>0, <2>2, <2>3
<1>2. CASE v.kind \in {"settle", "settleover"}
  <2>1. /\ v.hold \in Holds /\ s.hold[v.hold] \in Hold /\ s.hold[v.hold].amount \in Nat
        /\ (v.kind = "settle" => v.amount \in Nat)
    BY <1>2, VerbIs, RowTypes
  <2>2. \/ x = s
        \/ \E m \in Nat : IsActive(s, v.hold) /\ x = Settled(s, v.hold, m)
    BY <1>2, <2>1 DEF Outcomes, Settle, SettleOver
  <2>3. ASSUME NEW m \in Nat, IsActive(s, v.hold), x = Settled(s, v.hold, m)
        PROVE  x \in LedgerType /\ HoldsGo(s, x)
    <3>1. /\ x \in LedgerType
          /\ \A g \in Holds :
               x.hold[g] = IF g = v.hold THEN As(s.hold[g], "settled") ELSE s.hold[g]
      BY <2>1, <2>3, SettledIs
    <3>2. HoldGoes(s.hold[v.hold], As(s.hold[v.hold], "settled"))
      BY <2>1, <2>3, HoldEnds DEF IsActive, Ends
    <3>3. QED
      BY <3>1, <3>2 DEF HoldsGo, HoldGoes
  <2>4. QED
    BY <1>0, <2>2, <2>3
<1>3. CASE v.kind = "release"
  <2>1. v.hold \in Holds /\ s.hold[v.hold] \in Hold /\ "released" \in HoldStatus
    BY <1>3, VerbIs, RowTypes DEF HoldStatus
  <2>2. x = s \/ (IsActive(s, v.hold) /\ x = Ended(s, v.hold, "released"))
    BY <1>3 DEF Outcomes, Release
  <2>3. ASSUME IsActive(s, v.hold), x = Ended(s, v.hold, "released")
        PROVE  x \in LedgerType /\ HoldsGo(s, x)
    <3>1. /\ x \in LedgerType
          /\ \A g \in Holds :
               x.hold[g] = IF g = v.hold THEN As(s.hold[g], "released") ELSE s.hold[g]
      BY <2>1, <2>3, EndedIs
    <3>2. HoldGoes(s.hold[v.hold], As(s.hold[v.hold], "released"))
      BY <2>1, <2>3, HoldEnds DEF IsActive, Ends
    <3>3. QED
      BY <3>1, <3>2 DEF HoldsGo, HoldGoes
  <2>4. QED
    BY <1>0, <2>2, <2>3
<1>4. CASE v.kind = "move"
  <2>1. v.from \in Accounts /\ v.to \in Accounts /\ v.amount \in Int
    BY <1>4, VerbIs
  <2>2. x = Posted(s, v.from, v.to, v.amount)
    BY <1>4 DEF Outcomes, Move
  <2>3. QED
    BY <1>0, <2>1, <2>2, PostedIs
<1>5. CASE v.kind \in {"creditline", "floor"}
  <2>1. v.user \in Users /\ v.limit \in Nat
    BY <1>5, VerbIs
  <2>2. x = WithCredit(s, v) \/ x = WithFloor(s, v)
    BY <1>5 DEF Outcomes, SetCreditLimit, SetDebitFloor
  <2>3. QED
    BY <1>0, <2>1, <2>2, LimitIs
<1>6. QED
  BY <1>1, <1>2, <1>3, <1>4, <1>5, VerbIs

LEMMA ProgramGoes ==
  ASSUME NEW p \in Seq(Verb), NEW s \in LedgerType, NEW x \in Serial!Runs(p, s)
  PROVE  HoldsGo(s, x)
<1>1. PICK P : P = {y \in LedgerType : HoldsGo(s, y)}
  OBVIOUS
<1>2. s \in P
  BY <1>1 DEF HoldsGo, HoldGoes
<1>3. ASSUME NEW i \in 1..Len(p), NEW y \in P PROVE Serial!Outcomes(p[i], y) \subseteq P
  <2>1. y \in LedgerType /\ HoldsGo(s, y) /\ p[i] \in Verb
    BY <1>1
  <2>2. ASSUME NEW z \in Outcomes(p[i], y) PROVE z \in P
    BY <1>1, <2>1, VerbGoes, HoldsGoOn
  <2>3. QED
    BY <2>2, SameOutcomes
<1>4. Serial!Runs(p, s) \subseteq P
  BY <1>2, <1>3, RunsKeep
<1>5. QED
  BY <1>1, <1>4

-----------------------------------------------------------------------------
(* What holds of every wallet.                                               *)

LEMMA IInvHolds == Spec => []IInv
<1>1. IInv /\ [Next]_vars => IInv'
  BY StepKeeps, StutterKeeps DEF Next
<1>2. QED
  BY <1>1, InitHolds, PTL DEF Spec

\* Every row of the ledger, of the locks and of the drafts stays in its domain,
\* whatever the transactions are, and however they block, fail and retry.
THEOREM TypeCorrect == Spec => []TypeOK
<1>1. IInv => TypeOK
  BY DEF IInv
<1>2. QED
  BY <1>1, IInvHolds, PTL

\* The deferred trigger (wallet_assert_coverage) aborts no transaction but one
\* that lowers a floor: every verb that moves money has looked at the rows it
\* moves it on under their locks, the excess of a settlement included.
THEOREM FloorsOnly == Spec => []OnlyFloorsAreIncoherent
<1>1. IInv => OnlyFloorsAreIncoherent
  BY DEF IInv, Sound, Cover, Floorless, OnlyFloorsAreIncoherent
<1>2. QED
  BY <1>1, IInvHolds, PTL

LEMMA StepIsSerial ==
  ASSUME IInv, [Next]_vars
  PROVE  [Serial!Next]_db
<1>1. ASSUME NEW t \in Txns, Step(t) PROVE Serial!Next \/ db' = db
  <2>1. CASE Quiet(t)
    BY <2>1 DEF Quiet
  <2>2. CASE Commits(t)
    <3>1. db' \in Serial!Runs(program[t].verbs, db)
      BY <2>2 DEF Commits
    <3>2. program[t].verbs \in AllPrograms
      BY DEF IInv, TypeOK, AllPrograms
    <3>3. QED
      BY <3>1, <3>2 DEF Serial!Next
  <2>3. QED
    BY <1>1, <2>1, <2>2, StepIs
<1>2. CASE UNCHANGED vars
  BY <1>2 DEF vars
<1>3. QED
  BY <1>1, <1>2 DEF Next

\* However the transactions of the wallet interleave under READ COMMITTED, the
\* committed ledger moves as if they had run one after the other, each whole or
\* not at all: row locks taken one by one, savepoints undone and retried, a
\* whole caller retried after a deadlock, and an excess clamped to what the
\* account still covers make no difference to it.
THEOREM RunsAsSerial == Spec => RunsSerially
<1>1. Init => Serial!Init
  BY DEF Init, Serial!Init
<1>2. IInv /\ [Next]_vars => [Serial!Next]_db
  BY StepIsSerial
<1>3. QED
  BY <1>1, <1>2, IInvHolds, PTL DEF Spec, RunsSerially, Serial!Spec

\* The audit of the wallet (verifyInvariants) never finds anything: the legs add
\* up to zero, and every in_flight is the sum of the active holds of its account.
THEOREM BooksAlwaysAgree == Spec => []BooksAgree
<1> DEFINE Agrees == BooksOf(db)
<1>1. Init => Agrees
  BY OpeningsAssumption DEF Init, BooksOf
<1>2. IInv /\ Agrees /\ [Next]_vars => Agrees'
  <2>1. SUFFICES ASSUME IInv, Agrees, [Next]_vars PROVE BooksOf(db')
    <3>1. Balanced(db)' <=> Balanced(db')
      BY DEF Balanced, FoldFunction, FoldFunctionOnSet, MapThenFoldSet
    <3>2. InFlightIsHeld(db)' <=> InFlightIsHeld(db')
      BY DEF InFlightIsHeld, IsActive, FoldFunction, FoldFunctionOnSet, MapThenFoldSet
    <3>3. (db \in LedgerType)' <=> db' \in LedgerType
      OBVIOUS
    <3>4. Agrees' <=> BooksOf(db')
      BY <3>1, <3>2, <3>3 DEF BooksOf
    <3>5. QED
      BY <3>4
  <2>2. CASE db' = db
    BY <2>1, <2>2
  <2>3. ASSUME NEW p \in AllPrograms, db' \in Serial!Runs(p, db) PROVE BooksOf(db')
    <3>1. p \in Seq(Verb)
      BY LoadsAssumption DEF AllPrograms
    <3>2. QED
      BY <2>1, <2>3, <3>1, ProgramBooks
  <2>4. QED
    BY <2>1, <2>2, <2>3, StepIsSerial DEF Serial!Next
<1>3. Agrees /\ TypeOK => BooksAgree
  BY DEF BooksOf, BooksAgree
<1> HIDE DEF Agrees
<1>4. QED
  BY <1>1, <1>2, <1>3, IInvHolds, TypeCorrect, PTL DEF Spec

\* However often settlements, releases and their retries meet on a hold, it ends
\* once: a captured hold is never given back, a released one never captured, and
\* neither its user nor its amount changes (wallet/settle.ts, wallet/release.ts).
THEOREM HoldsEndOnce == Spec => [][HoldsGo(db, db')]_db
<1>1. IInv /\ [Next]_vars => [HoldsGo(db, db')]_db
  <2>1. SUFFICES ASSUME IInv, [Next]_vars, db' # db PROVE HoldsGo(db, db')
    OBVIOUS
  <2>2. PICK p \in AllPrograms : db' \in Serial!Runs(p, db)
    BY <2>1, StepIsSerial DEF Serial!Next
  <2>3. p \in Seq(Verb)
    BY LoadsAssumption DEF AllPrograms
  <2>4. db \in LedgerType
    BY <2>1 DEF IInv, TypeOK
  <2>5. QED
    BY <2>2, <2>3, <2>4, ProgramGoes
<1>2. QED
  BY <1>1, IInvHolds, PTL DEF Spec

=============================================================================
