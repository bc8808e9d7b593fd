--------------------------- MODULE ExposureProofs ---------------------------
(***************************************************************************)
(* Proofs about the exposure of channels: it runs as if serially, and what *)
(* is reserved on a channel is what the open requests have set aside.      *)
(***************************************************************************)
EXTENDS ChannelExposure, Sums, SequenceTheorems

-----------------------------------------------------------------------------
(* Rows.                                                                     *)

LEMMA Fields ==
  /\ \A b \in Serial!Bill :
       /\ b.status \in {"open", "released", "pending", "settled"}
       /\ b.channel \in Channels \cup {None} /\ b.paid \in Channels \cup {None}
       /\ b.reserved \in Nat /\ b.bound \in Nat /\ b.cost \in Nat
  /\ \A c \in Serial!Channel :
       /\ c.budget \in Int /\ c.reserved \in Nat
       /\ c.status \in {"enabled", "disabled", "broken"}
  /\ \A s \in Serial!DbType :
       /\ \A r \in Requests : s.bill[r] \in Serial!Bill
       /\ \A c \in Channels : s.chan[c] \in Serial!Channel
BY DEF Serial!Bill, Serial!Channel, Serial!DbType

LEMMA Dbs ==
  ASSUME NEW s \in Serial!DbType, NEW x \in Serial!DbType,
         \A r \in Requests : s.bill[r] = x.bill[r],
         \A c \in Channels : s.chan[c] = x.chan[c]
  PROVE  s = x
BY DEF Serial!DbType

LEMMA JobIs ==
  ASSUME NEW j \in Serial!Job
  PROVE  /\ j.kind \in {"reserve", "fail", "settle", "succeed", "adjust", "recharge"}
         /\ j.kind \in {"reserve", "fail", "settle", "succeed"} => j.request \in Requests
         /\ j.kind \in {"reserve", "succeed", "adjust", "recharge"} => j.channel \in Channels
         /\ j.kind = "reserve" => j.amount \in Nat /\ j.bound \in Nat
         /\ j.kind = "succeed" => j.cost \in Nat
         /\ j.kind = "adjust" => j.amount \in Int
         /\ j.kind = "recharge" => j.amount \in Nat
BY DEF Serial!Job

LEMMA ChannelWrites ==
  ASSUME NEW c \in Serial!Channel, NEW m \in Int
  PROVE  /\ c.reserved - m >= 0 =>
              /\ Serial!GivenBack(c, m) \in Serial!Channel
              /\ Serial!GivenBack(c, m).reserved = c.reserved - m
         /\ c.reserved + m >= 0 =>
              /\ Serial!SetAside(c, m) \in Serial!Channel
              /\ Serial!SetAside(c, m).reserved = c.reserved + m
         /\ Serial!Deducted(c, m) \in Serial!Channel
         /\ Serial!Deducted(c, m).reserved = c.reserved
         /\ Serial!Adjusted(c, m) \in Serial!Channel
         /\ Serial!Adjusted(c, m).reserved = c.reserved
         /\ Serial!Recharged(c, m) \in Serial!Channel
         /\ Serial!Recharged(c, m).reserved = c.reserved
<1>1. c.reserved \in Nat /\ c.budget \in Int
  BY Fields
<1>2. c.reserved - m >= 0 =>
        /\ Serial!GivenBack(c, m) \in Serial!Channel
        /\ Serial!GivenBack(c, m).reserved = c.reserved - m
  BY <1>1 DEF Serial!Channel, Serial!GivenBack
<1>3. c.reserved + m >= 0 =>
        /\ Serial!SetAside(c, m) \in Serial!Channel
        /\ Serial!SetAside(c, m).reserved = c.reserved + m
  BY <1>1 DEF Serial!Channel, Serial!SetAside
<1>4. /\ Serial!Adjusted(c, m) \in Serial!Channel
      /\ Serial!Adjusted(c, m).reserved = c.reserved
  BY <1>1 DEF Serial!Channel, Serial!Adjusted
<1>5. /\ Serial!Recharged(c, m) \in Serial!Channel
      /\ Serial!Recharged(c, m).reserved = c.reserved
  <2>1. PICK b : b = [c EXCEPT !.budget = c.budget + m]
    OBVIOUS
  <2>2. b \in Serial!Channel /\ b.reserved = c.reserved /\ b.status = c.status
    BY <1>1, <2>1 DEF Serial!Channel
  <2>3. Serial!Recharged(c, m) =
          [b EXCEPT !.status = IF b.status = "broken" THEN "enabled" ELSE b.status]
    BY <2>1, <2>2 DEF Serial!Recharged
  <2>4. QED
    BY <2>2, <2>3 DEF Serial!Channel
<1>6. /\ Serial!Deducted(c, m) \in Serial!Channel
      /\ Serial!Deducted(c, m).reserved = c.reserved
  <2>1. PICK b : b = [c EXCEPT !.budget = c.budget - m]
    OBVIOUS
  <2>2. b \in Serial!Channel /\ b.reserved = c.reserved /\ b.status = c.status
    BY <1>1, <2>1 DEF Serial!Channel
  <2>3. Serial!Deducted(c, m) =
          [b EXCEPT !.status = IF c.budget - m <= Threshold /\ b.status = "enabled"
                               THEN "broken" ELSE b.status]
    BY <2>1, <2>2 DEF Serial!Deducted
  <2>4. QED
    BY <2>2, <2>3 DEF Serial!Channel
<1>7. QED
  BY <1>2, <1>3, <1>4, <1>5, <1>6

LEMMA ClaimedWrites ==
  ASSUME NEW b \in Serial!Bill, NEW j \in Serial!Job, j.kind = "reserve"
  PROVE  /\ Serial!Claimed(b, j) \in Serial!Bill
         /\ Serial!Claimed(b, j).status = b.status
         /\ Serial!Claimed(b, j).channel = j.channel
         /\ Serial!Claimed(b, j).reserved = j.amount
         /\ Serial!Claimed(b, j).paid = b.paid
<1>1. j.channel \in Channels \cup {None} /\ j.amount \in Nat /\ j.bound \in Nat
  BY JobIs
<1>2. PICK x : x = [b EXCEPT !.channel = j.channel]
  OBVIOUS
<1>3. PICK y : y = [x EXCEPT !.reserved = j.amount]
  OBVIOUS
<1>4. PICK z : z = [y EXCEPT !.bound = j.bound]
  OBVIOUS
<1>5. x \in Serial!Bill /\ x.channel = j.channel /\ x.status = b.status /\ x.paid = b.paid
  BY <1>1, <1>2 DEF Serial!Bill
<1>6. /\ y \in Serial!Bill /\ y.channel = j.channel /\ y.status = b.status
      /\ y.paid = b.paid /\ y.reserved = j.amount
  BY <1>1, <1>3, <1>5 DEF Serial!Bill
<1>7. /\ z \in Serial!Bill /\ z.channel = j.channel /\ z.status = b.status
      /\ z.paid = b.paid /\ z.reserved = j.amount
  BY <1>1, <1>4, <1>6 DEF Serial!Bill
<1>8. Serial!Claimed(b, j) = z
  BY <1>2, <1>3, <1>4 DEF Serial!Claimed
<1>9. QED
  BY <1>7, <1>8

LEMMA ReceiptWrites ==
  ASSUME NEW b \in Serial!Bill, NEW j \in Serial!Job, j.kind = "succeed"
  PROVE  /\ Serial!WithReceipt(b, j) \in Serial!Bill
         /\ Serial!WithReceipt(b, j).status = "pending"
         /\ Serial!WithReceipt(b, j).channel = b.channel
         /\ Serial!WithReceipt(b, j).reserved = b.reserved
         /\ Serial!WithReceipt(b, j).paid = j.channel
<1>1. j.channel \in Channels \cup {None} /\ j.cost \in Nat
  BY JobIs
<1>2. PICK x : x = [b EXCEPT !.status = "pending"]
  OBVIOUS
<1>3. PICK y : y = [x EXCEPT !.paid = j.channel]
  OBVIOUS
<1>4. PICK z : z = [y EXCEPT !.cost = j.cost]
  OBVIOUS
<1>5. /\ x \in Serial!Bill /\ x.channel = b.channel /\ x.status = "pending"
      /\ x.reserved = b.reserved
  BY <1>1, <1>2 DEF Serial!Bill
<1>6. /\ y \in Serial!Bill /\ y.channel = b.channel /\ y.status = "pending"
      /\ y.reserved = b.reserved /\ y.paid = j.channel
  BY <1>1, <1>3, <1>5 DEF Serial!Bill
<1>7. /\ z \in Serial!Bill /\ z.channel = b.channel /\ z.status = "pending"
      /\ z.reserved = b.reserved /\ z.paid = j.channel
  BY <1>1, <1>4, <1>6 DEF Serial!Bill
<1>8. Serial!WithReceipt(b, j) = z
  BY <1>2, <1>3, <1>4 DEF Serial!WithReceipt
<1>9. QED
  BY <1>7, <1>8

LEMMA AsWrites ==
  ASSUME NEW b \in Serial!Bill, NEW st \in {"open", "released", "pending", "settled"}
  PROVE  /\ Serial!As(b, st) \in Serial!Bill
         /\ Serial!As(b, st).status = st
         /\ Serial!As(b, st).channel = b.channel
         /\ Serial!As(b, st).reserved = b.reserved
BY DEF Serial!As, Serial!Bill

-----------------------------------------------------------------------------
(* The jobs, row by row.                                                     *)

PutBill(s, r, b) == [s EXCEPT !.bill[r] = b]
PutChan(s, c, x) == [s EXCEPT !.chan[c] = x]

LEMMA PutBillIs ==
  ASSUME NEW s \in Serial!DbType, NEW r \in Requests, NEW b \in Serial!Bill
  PROVE  /\ PutBill(s, r, b) \in Serial!DbType
         /\ PutBill(s, r, b).chan = s.chan
         /\ \A q \in Requests : PutBill(s, r, b).bill[q] = IF q = r THEN b ELSE s.bill[q]
BY DEF PutBill, Serial!DbType

LEMMA PutChanIs ==
  ASSUME NEW s \in Serial!DbType, NEW c \in Channels, NEW x \in Serial!Channel
  PROVE  /\ PutChan(s, c, x) \in Serial!DbType
         /\ PutChan(s, c, x).bill = s.bill
         /\ \A d \in Channels : PutChan(s, c, x).chan[d] = IF d = c THEN x ELSE s.chan[d]
BY DEF PutChan, Serial!DbType

LEMMA WithoutIs ==
  ASSUME NEW s \in Serial!DbType, NEW b \in Serial!Bill,
         \A c \in Channels : c = b.channel => s.chan[c].reserved >= b.reserved
  PROVE  /\ Serial!Without(s, b) \in Serial!DbType
         /\ Serial!Without(s, b).bill = s.bill
         /\ \A c \in Channels : Serial!Without(s, b).chan[c] =
              IF c = b.channel THEN Serial!GivenBack(s.chan[c], b.reserved) ELSE s.chan[c]
<1> DEFINE f == [c \in Channels |->
             IF c = b.channel THEN Serial!GivenBack(s.chan[c], b.reserved) ELSE s.chan[c]]
<1>1. Serial!Without(s, b) = [s EXCEPT !.chan = f]
  BY DEF Serial!Without
<1>2. ASSUME NEW c \in Channels PROVE f[c] \in Serial!Channel
  <2>1. PICK x \in Serial!Channel : x = s.chan[c]
    BY Fields
  <2>2. PICK m \in Int : m = b.reserved
    BY Fields
  <2>3. x.reserved \in Nat /\ (c = b.channel => x.reserved >= m)
    BY <2>1, <2>2, Fields
  <2>4. c = b.channel => Serial!GivenBack(x, m) \in Serial!Channel
    <3>1. x.reserved - m >= 0 => Serial!GivenBack(x, m) \in Serial!Channel
      BY ChannelWrites
    <3>2. c = b.channel => x.reserved - m >= 0
      BY <2>3
    <3>3. QED
      BY <3>1, <3>2
  <2>5. QED
    BY <2>1, <2>2, <2>4
<1>3. f \in [Channels -> Serial!Channel]
  BY <1>2
<1> HIDE DEF f
<1>4. [s EXCEPT !.chan = f] \in Serial!DbType /\ [s EXCEPT !.chan = f].bill = s.bill
      /\ [s EXCEPT !.chan = f].chan = f
  BY <1>3 DEF Serial!DbType
<1>5. QED
  BY <1>1, <1>4 DEF f


LEMMA SetBack ==
  ASSUME NEW c \in Serial!Channel, NEW n \in Int, NEW m \in Int
  PROVE  Serial!SetAside(Serial!GivenBack(c, n), m) = Serial!SetAside(c, m - n)
<1>1. c.reserved \in Int
  BY Fields
<1>2. PICK g : g = Serial!GivenBack(c, n)
  OBVIOUS
<1>3. g = [c EXCEPT !.reserved = c.reserved - n] /\ g.reserved = c.reserved - n
  BY <1>2 DEF Serial!GivenBack, Serial!Channel
<1>4. Serial!SetAside(g, m) = [g EXCEPT !.reserved = c.reserved + (m - n)]
  <2>1. PICK r \in Int : r = c.reserved
    BY <1>1
  <2>2. g.reserved = r - n /\ (r - n) + m = r + (m - n)
    BY <1>3, <2>1
  <2>3. g.reserved + m = r + (m - n)
    BY <2>2
  <2>4. Serial!SetAside(g, m) = [g EXCEPT !.reserved = g.reserved + m]
    BY DEF Serial!SetAside
  <2>5. QED
    BY <2>1, <2>3, <2>4
<1>5. Serial!SetAside(c, m - n) = [c EXCEPT !.reserved = c.reserved + (m - n)]
  BY DEF Serial!SetAside
<1>6. QED
  BY <1>2, <1>3, <1>4, <1>5

\* What the requests of a channel have set aside, one by one.
Counts(b, c) == b.channel = c /\ b.status \in {"open", "pending"}
Part(b, c) == IF Counts(b, c) THEN b.reserved ELSE 0
Parts(s, c) == [r \in Requests |-> Part(s.bill[r], c)]

LEMMA PartsAre ==
  ASSUME NEW s \in Serial!DbType, NEW c
  PROVE  \A r \in Requests : /\ Parts(s, c)[r] = Part(s.bill[r], c)
                             /\ Parts(s, c)[r] \in Nat /\ Parts(s, c)[r] \in Int
<1>1. \A r \in Requests : s.bill[r].reserved \in Nat
  BY Fields
<1>2. QED
  BY <1>1 DEF Parts, Part

LEMMA OwedIs ==
  ASSUME NEW s \in Serial!DbType
  PROVE  Owed(s) <=> \A c \in Channels : s.chan[c].reserved = Total(Parts(s, c), Requests)
<1>1. ASSUME NEW c \in Channels
      PROVE  FoldFunction(+, 0,
               [r \in {q \in Requests : /\ s.bill[q].channel = c
                                        /\ s.bill[q].status \in {"open", "pending"}}
                  |-> s.bill[r].reserved]) = Total(Parts(s, c), Requests)
  <2>1. PICK R : R = {q \in Requests : /\ s.bill[q].channel = c
                                       /\ s.bill[q].status \in {"open", "pending"}}
    OBVIOUS
  <2>2. PICK f : f = [r \in R |-> s.bill[r].reserved]
    OBVIOUS
  <2>3. PICK g : g = Parts(s, c)
    OBVIOUS
  <2>4. DOMAIN f = R /\ R \subseteq Requests
    BY <2>1, <2>2
  <2>5. \A x \in R : f[x] \in Int
    BY <2>2, <2>4, Fields
  <2>6. \A x \in Requests : g[x] = IF x \in R THEN f[x] ELSE 0
    BY <2>1, <2>2, <2>3 DEF Parts, Part, Counts
  <2>7. Total(f, R) = Total(g, Requests)
    BY <2>4, <2>5, <2>6, FiniteAssumption, TotalOfPart
  <2>8. FoldFunction(+, 0, f) = Total(f, R)
    BY <2>4, FoldIsTotal
  <2>9. QED
    BY <2>1, <2>2, <2>3, <2>7, <2>8
<1>2. QED
  BY <1>1 DEF Owed

LEMMA OwedAtLeast ==
  ASSUME NEW s \in Serial!DbType, Owed(s), NEW r \in Requests, NEW c \in Channels,
         Counts(s.bill[r], c)
  PROVE  s.chan[c].reserved >= s.bill[r].reserved
<1>1. PICK f : f = Parts(s, c)
  OBVIOUS
<1>2. \A q \in Requests : f[q] \in Nat
  BY <1>1, PartsAre
<1>3. f[r] <= Total(f, Requests)
  BY <1>2, FiniteAssumption, TotalNat
<1>4. f[r] = s.bill[r].reserved
  BY <1>1, PartsAre DEF Part
<1>5. s.chan[c].reserved = Total(f, Requests)
  BY <1>1, OwedIs
<1>6. s.bill[r].reserved \in Nat /\ s.chan[c].reserved \in Nat
  BY Fields
<1>7. QED
  BY <1>3, <1>4, <1>5, <1>6

(* One bill changes, and the channels follow it.                             *)
LEMMA BillChanges ==
  ASSUME NEW s \in Serial!DbType, NEW x \in Serial!DbType, Owed(s), NEW r \in Requests,
         \A q \in Requests \ {r} : x.bill[q] = s.bill[q],
         \A c \in Channels : x.chan[c].reserved =
           s.chan[c].reserved - Part(s.bill[r], c) + Part(x.bill[r], c)
  PROVE  Owed(x)
<1>1. ASSUME NEW c \in Channels PROVE x.chan[c].reserved = Total(Parts(x, c), Requests)
  <2>1. PICK f : f = Parts(s, c)
    OBVIOUS
  <2>2. PICK g : g = Parts(x, c)
    OBVIOUS
  <2>3. \A y \in Requests : f[y] \in Int /\ g[y] \in Int
    BY <2>1, <2>2, PartsAre
  <2>4. \A y \in Requests \ {r} : g[y] = f[y]
    BY <2>1, <2>2, PartsAre
  <2>5. Total(g, Requests) = Total(f, Requests) - f[r] + g[r]
    BY <2>3, <2>4, FiniteAssumption, TotalChange
  <2>6. f[r] = Part(s.bill[r], c) /\ g[r] = Part(x.bill[r], c)
    BY <2>1, <2>2, PartsAre
  <2>7. s.chan[c].reserved = Total(f, Requests)
    BY <2>1, OwedIs
  <2>8. QED
    BY <2>2, <2>5, <2>6, <2>7
<1>2. QED
  BY <1>1, OwedIs

-----------------------------------------------------------------------------
BooksOf(s) == s \in Serial!DbType /\ Owed(s) /\ Receipted(s)

\* What a bill may become once it waits to settle.
Evolves(s, x) ==
  \A r \in Requests :
    /\ s.bill[r].status = "pending" => x.bill[r] = s.bill[r] \/ x.bill[r].status = "settled"
    /\ s.bill[r].status = "settled" => x.bill[r].status = "settled"

LEMMA WithoutOwn ==
  ASSUME NEW s, BooksOf(s), NEW r \in Requests, s.bill[r].status \in {"open", "pending"}
  PROVE  /\ \A c \in Channels : c = s.bill[r].channel =>
                                  s.chan[c].reserved >= s.bill[r].reserved
         /\ Serial!Without(s, s.bill[r]) \in Serial!DbType
         /\ Serial!Without(s, s.bill[r]).bill = s.bill
         /\ \A c \in Channels : Serial!Without(s, s.bill[r]).chan[c] =
              IF c = s.bill[r].channel
              THEN Serial!GivenBack(s.chan[c], s.bill[r].reserved) ELSE s.chan[c]
         /\ \A c \in Channels :
              /\ Part(s.bill[r], c) \in Nat
              /\ Serial!Without(s, s.bill[r]).chan[c].reserved =
                   s.chan[c].reserved - Part(s.bill[r], c)
<1>1. s \in Serial!DbType /\ Owed(s) /\ s.bill[r] \in Serial!Bill
  BY Fields DEF BooksOf
<1>2. \A c \in Channels : c = s.bill[r].channel => s.chan[c].reserved >= s.bill[r].reserved
  BY <1>1, OwedAtLeast DEF Counts
<1>3. PICK b \in Serial!Bill : b = s.bill[r]
  BY <1>1
<1>4. PICK w : w = Serial!Without(s, b)
  OBVIOUS
<1>5. /\ w \in Serial!DbType /\ w.bill = s.bill
      /\ \A c \in Channels : w.chan[c] =
           IF c = b.channel THEN Serial!GivenBack(s.chan[c], b.reserved) ELSE s.chan[c]
  <2>1. \A c \in Channels : c = b.channel => s.chan[c].reserved >= b.reserved
    BY <1>2, <1>3
  <2>2. QED
    BY <1>1, <1>4, <2>1, WithoutIs
<1>6. ASSUME NEW c \in Channels
      PROVE  Part(b, c) \in Nat /\ w.chan[c].reserved = s.chan[c].reserved - Part(b, c)
  <2>1. PICK x \in Serial!Channel : x = s.chan[c]
    BY <1>1, Fields
  <2>2. PICK m \in Nat : m = b.reserved
    BY Fields
  <2>3. x.reserved \in Nat
    BY Fields
  <2>4. CASE c = b.channel
    <3>1. Part(b, c) = m
      BY <1>3, <2>2, <2>4 DEF Part, Counts
    <3>2. x.reserved - m >= 0 /\ m \in Int
      BY <1>2, <1>3, <2>1, <2>2, <2>3, <2>4
    <3>3. Serial!GivenBack(x, m).reserved = x.reserved - m
      BY <3>2, ChannelWrites
    <3>4. w.chan[c] = Serial!GivenBack(x, m)
      BY <1>5, <2>1, <2>2, <2>4
    <3>5. QED
      BY <2>1, <3>1, <3>3, <3>4
  <2>5. CASE c # b.channel
    <3>1. Part(b, c) = 0 /\ w.chan[c] = x
      BY <1>5, <2>1, <2>5 DEF Part, Counts
    <3>2. QED
      BY <2>1, <2>3, <3>1
  <2>6. QED
    BY <2>4, <2>5
<1>7. QED
  BY <1>2, <1>3, <1>4, <1>5, <1>6

\* The reservation that is made.
ReserveFits(s, j) ==
  LET b == s.bill[j.request] IN
  /\ b.status = "open" /\ ~Serial!Covered(b, j)
  /\ Serial!Available(s.chan[j.channel]) >= Serial!Delta(b, j)

Becomes(s, x) == x \in Serial!DbType /\ BooksOf(x) /\ Evolves(s, x)

\* What each job leaves: the bill of its request, every channel, and the books.
ReserveLeaves(s, j, b, x) ==
  /\ x \in Serial!DbType
  /\ \A q \in Requests :
       x.bill[q] = IF q = j.request THEN Serial!Claimed(b, j) ELSE s.bill[q]
  /\ \A c \in Channels : x.chan[c] =
       IF c = j.channel THEN Serial!SetAside(s.chan[c], Serial!Delta(b, j))
       ELSE IF c = b.channel THEN Serial!GivenBack(s.chan[c], b.reserved)
       ELSE s.chan[c]
  /\ Becomes(s, x)

FailLeaves(s, j, b, x) ==
  /\ x \in Serial!DbType
  /\ \A q \in Requests :
       x.bill[q] = IF q = j.request THEN Serial!As(b, "released") ELSE s.bill[q]
  /\ \A c \in Channels : x.chan[c] =
       IF c = b.channel THEN Serial!GivenBack(s.chan[c], b.reserved) ELSE s.chan[c]
  /\ Becomes(s, x)

SucceedLeaves(s, j, b, x) ==
  /\ x \in Serial!DbType
  /\ \A q \in Requests :
       x.bill[q] = IF q = j.request THEN Serial!WithReceipt(b, j) ELSE s.bill[q]
  /\ \A c \in Channels : x.chan[c] = s.chan[c]
  /\ Becomes(s, x)

SettleLeaves(s, j, b, x) ==
  /\ x \in Serial!DbType /\ b.paid \in Channels
  /\ \A q \in Requests :
       x.bill[q] = IF q = j.request THEN Serial!As(b, "settled") ELSE s.bill[q]
  /\ \A c \in Channels : x.chan[c] =
       LET g == IF c = b.channel THEN Serial!GivenBack(s.chan[c], b.reserved)
                ELSE s.chan[c]
       IN IF c = b.paid THEN Serial!Deducted(g, b.cost) ELSE g
  /\ Becomes(s, x)

LEMMA BecomesSelf ==
  ASSUME NEW s, BooksOf(s)
  PROVE  Becomes(s, s)
BY DEF Becomes, BooksOf, Evolves

(* The parts of a change of one bill.                                        *)
LEMMA BillBecomes ==
  ASSUME NEW s, BooksOf(s), NEW x \in Serial!DbType, NEW r \in Requests,
         \A q \in Requests : q # r => x.bill[q] = s.bill[q],
         \A c \in Channels : x.chan[c].reserved =
           s.chan[c].reserved - Part(s.bill[r], c) + Part(x.bill[r], c),
         x.bill[r].status = "pending" => x.bill[r].paid \in Channels,
         s.bill[r].status = "pending" => x.bill[r].status = "settled",
         s.bill[r].status # "settled"
  PROVE  Becomes(s, x)
<1>1. Owed(x)
  BY BillChanges DEF BooksOf
<1>2. Receipted(x)
  BY DEF BooksOf, Receipted
<1>3. Evolves(s, x)
  BY DEF Evolves
<1>4. QED
  BY <1>1, <1>2, <1>3 DEF Becomes, BooksOf

LEMMA DeltaIs ==
  ASSUME NEW b \in Serial!Bill, NEW j \in Serial!Job, j.kind = "reserve",
         NEW c \in Serial!Channel
  PROVE  /\ Serial!Delta(b, j) \in Int /\ Serial!Available(c) \in Int
         /\ Serial!Delta(b, j) = IF b.channel = j.channel THEN j.amount - b.reserved ELSE j.amount
<1>1. b.reserved \in Nat /\ j.amount \in Nat /\ c.budget \in Int /\ c.reserved \in Nat
  BY Fields, JobIs
<1>2. QED
  BY <1>1 DEF Serial!Delta, Serial!Available

LEMMA ReserveIs ==
  ASSUME NEW s, BooksOf(s), NEW j \in Serial!Job, j.kind = "reserve", ReserveFits(s, j),
         NEW b, b = s.bill[j.request], NEW x, x = Serial!Reserve(s, j)
  PROVE  ReserveLeaves(s, j, b, x)
<1>1. PICK r \in Requests : r = j.request
  BY JobIs
<1>2. PICK d \in Channels : d = j.channel
  BY JobIs
<1>3. PICK m \in Nat : m = j.amount
  BY JobIs
<1>4. s \in Serial!DbType /\ b \in Serial!Bill /\ b.status = "open"
  BY <1>1, Fields DEF BooksOf, ReserveFits
<1>5. PICK n \in Nat : n = b.reserved
  BY <1>4, Fields
<1>6. PICK w : w = Serial!Without(s, b)
  OBVIOUS
<1>7. /\ w \in Serial!DbType /\ w.bill = s.bill
      /\ \A c \in Channels : w.chan[c] =
           IF c = b.channel THEN Serial!GivenBack(s.chan[c], b.reserved) ELSE s.chan[c]
      /\ \A c \in Channels : Part(b, c) \in Nat
                             /\ w.chan[c].reserved = s.chan[c].reserved - Part(b, c)
  BY <1>1, <1>4, <1>6, WithoutOwn
<1>8. x = [w EXCEPT !.chan[d] = Serial!SetAside(w.chan[d], m),
                    !.bill[r] = Serial!Claimed(b, j)]
  <2>1. ~(Serial!Available(s.chan[d]) < Serial!Delta(b, j))
    <3>1. s.chan[d] \in Serial!Channel
      BY <1>4, Fields
    <3>2. Serial!Available(s.chan[d]) \in Int /\ Serial!Delta(b, j) \in Int
      BY <1>4, <3>1, DeltaIs
    <3>3. Serial!Available(s.chan[d]) >= Serial!Delta(b, j)
      BY <1>2 DEF ReserveFits
    <3>4. QED
      BY <3>2, <3>3
  <2>2. b.status = "open" /\ ~Serial!Covered(b, j)
    BY DEF ReserveFits
  <2>3. Serial!Reserve(s, j) =
          [w EXCEPT !.chan[j.channel] = Serial!SetAside(w.chan[j.channel], j.amount),
                    !.bill[j.request] = Serial!Claimed(b, j)]
    BY <1>2, <1>6, <2>1, <2>2 DEF Serial!Reserve
  <2>4. QED
    BY <1>1, <1>2, <1>3, <2>3
<1>9. PICK y : y = Serial!SetAside(w.chan[d], m)
  OBVIOUS
<1>10. y \in Serial!Channel /\ y.reserved = w.chan[d].reserved + m
  <2>1. PICK c \in Serial!Channel : c = w.chan[d]
    BY <1>7, Fields
  <2>2. c.reserved \in Nat /\ c.reserved + m >= 0 /\ m \in Int
    BY <2>1, Fields
  <2>3. QED
    BY <1>9, <2>1, <2>2, ChannelWrites
<1>11. /\ Serial!Claimed(b, j) \in Serial!Bill
       /\ Serial!Claimed(b, j).status = "open"
       /\ Serial!Claimed(b, j).channel = d /\ Serial!Claimed(b, j).reserved = m
  <2>1. /\ b \in Serial!Bill /\ j \in Serial!Job /\ b.status = "open"
        /\ j.channel = d /\ j.amount = m
    BY <1>2, <1>3, <1>4
  <2>2. QED
    BY <2>1, ClaimedWrites
<1>12. PICK p : p = PutChan(w, d, y)
  OBVIOUS
<1>13. p \in Serial!DbType /\ p.bill = s.bill
       /\ \A c \in Channels : p.chan[c] = IF c = d THEN y ELSE w.chan[c]
  BY <1>7, <1>10, <1>12, PutChanIs
<1>14. x = PutBill(p, r, Serial!Claimed(b, j))
  BY <1>8, <1>9, <1>12 DEF PutBill, PutChan
<1>15. /\ x \in Serial!DbType /\ x.chan = p.chan
       /\ \A q \in Requests : x.bill[q] = IF q = r THEN Serial!Claimed(b, j) ELSE s.bill[q]
  BY <1>11, <1>13, <1>14, PutBillIs
<1>16. y = Serial!SetAside(s.chan[d], Serial!Delta(b, j))
  <2>1. CASE b.channel = d
    <3>1. Serial!Delta(b, j) = m - n
      BY <1>2, <1>3, <1>5, <2>1 DEF Serial!Delta
    <3>2. w.chan[d] = Serial!GivenBack(s.chan[d], n)
      BY <1>5, <1>7, <2>1
    <3>3. s.chan[d] \in Serial!Channel /\ n \in Int /\ m \in Int
      BY <1>4, Fields
    <3>4. QED
      BY <1>9, <3>1, <3>2, <3>3, SetBack
  <2>2. CASE b.channel # d
    BY <1>2, <1>3, <1>7, <1>9, <2>2 DEF Serial!Delta
  <2>3. QED
    BY <2>1, <2>2
<1>17. \A c \in Channels : x.chan[c] =
         IF c = d THEN Serial!SetAside(s.chan[c], Serial!Delta(b, j))
         ELSE IF c = b.channel THEN Serial!GivenBack(s.chan[c], b.reserved)
         ELSE s.chan[c]
  BY <1>7, <1>13, <1>15, <1>16
<1>18. ASSUME NEW c \in Channels
       PROVE  x.chan[c].reserved = s.chan[c].reserved - Part(b, c) + Part(x.bill[r], c)
  <2>1. x.bill[r] = Serial!Claimed(b, j)
    BY <1>15
  <2>2. Part(x.bill[r], c) = IF c = d THEN m ELSE 0
    BY <1>11, <2>1 DEF Part, Counts
  <2>3. w.chan[c].reserved \in Nat
    BY <1>7, Fields
  <2>4. x.chan[c].reserved = w.chan[c].reserved + (IF c = d THEN m ELSE 0)
    BY <1>10, <1>13, <1>15, <2>3
  <2>5. s.chan[c].reserved \in Nat
    BY <1>4, Fields
  <2>6. QED
    BY <1>7, <2>2, <2>4, <2>5
<1>19. Becomes(s, x)
  <2>1. \A q \in Requests : q # r => x.bill[q] = s.bill[q]
    BY <1>15
  <2>2. x.bill[r].status = "open" /\ s.bill[r] = b
    BY <1>1, <1>11, <1>15
  <2>3. QED
    BY <1>4, <1>15, <1>18, <2>1, <2>2, BillBecomes
<1>20. QED
  BY <1>1, <1>2, <1>15, <1>17, <1>19 DEF ReserveLeaves

LEMMA FailIs ==
  ASSUME NEW s, BooksOf(s), NEW j \in Serial!Job, j.kind = "fail",
         NEW b, b = s.bill[j.request], b.status = "open", NEW x, x = Serial!Fail(s, j)
  PROVE  FailLeaves(s, j, b, x)
<1>1. PICK r \in Requests : r = j.request
  BY JobIs
<1>2. s \in Serial!DbType /\ b \in Serial!Bill
  BY <1>1, Fields DEF BooksOf
<1>3. PICK w : w = Serial!Without(s, b)
  OBVIOUS
<1>4. /\ w \in Serial!DbType /\ w.bill = s.bill
      /\ \A c \in Channels : w.chan[c] =
           IF c = b.channel THEN Serial!GivenBack(s.chan[c], b.reserved) ELSE s.chan[c]
      /\ \A c \in Channels : Part(b, c) \in Nat
                             /\ w.chan[c].reserved = s.chan[c].reserved - Part(b, c)
  BY <1>1, <1>3, WithoutOwn
<1>5. Serial!As(b, "released") \in Serial!Bill /\ Serial!As(b, "released").status = "released"
  BY <1>2, AsWrites
<1>6. x = PutBill(w, r, Serial!As(b, "released"))
  BY <1>1, <1>3 DEF Serial!Fail, PutBill
<1>7. /\ x \in Serial!DbType /\ x.chan = w.chan
      /\ \A q \in Requests : x.bill[q] = IF q = r THEN Serial!As(b, "released") ELSE s.bill[q]
  BY <1>4, <1>5, <1>6, PutBillIs
<1>8. ASSUME NEW c \in Channels
      PROVE  x.chan[c].reserved = s.chan[c].reserved - Part(b, c) + Part(x.bill[r], c)
  <2>1. Part(x.bill[r], c) = 0
    BY <1>5, <1>7 DEF Part, Counts
  <2>2. s.chan[c].reserved \in Nat
    BY <1>2, Fields
  <2>3. QED
    BY <1>4, <1>7, <2>1, <2>2
<1>9. Becomes(s, x)
  <2>1. \A q \in Requests : q # r => x.bill[q] = s.bill[q]
    BY <1>7
  <2>2. x.bill[r].status = "released" /\ s.bill[r] = b
    BY <1>1, <1>5, <1>7
  <2>3. QED
    BY <1>7, <1>8, <2>1, <2>2, BillBecomes
<1>10. QED
  BY <1>1, <1>4, <1>7, <1>9 DEF FailLeaves

LEMMA SucceedIs ==
  ASSUME NEW s, BooksOf(s), NEW j \in Serial!Job, j.kind = "succeed",
         NEW b, b = s.bill[j.request], b.status = "open", NEW x, x = Serial!Succeed(s, j)
  PROVE  SucceedLeaves(s, j, b, x)
<1>1. PICK r \in Requests : r = j.request
  BY JobIs
<1>2. s \in Serial!DbType /\ b \in Serial!Bill
  BY <1>1, Fields DEF BooksOf
<1>3. PICK y : y = Serial!WithReceipt(b, j)
  OBVIOUS
<1>4. /\ y \in Serial!Bill /\ y.status = "pending" /\ y.paid \in Channels
      /\ y.channel = b.channel /\ y.reserved = b.reserved
  <2>1. b \in Serial!Bill /\ j \in Serial!Job /\ j.channel \in Channels
    BY <1>2, JobIs
  <2>2. QED
    BY <1>3, <2>1, ReceiptWrites
<1>5. x = PutBill(s, r, y)
  <2>1. x = [s EXCEPT !.bill[j.request] = Serial!WithReceipt(b, j)]
    BY DEF Serial!Succeed
  <2>2. QED
    BY <1>1, <1>3, <2>1 DEF PutBill
<1>6. /\ x \in Serial!DbType /\ x.chan = s.chan
      /\ \A q \in Requests : x.bill[q] = IF q = r THEN y ELSE s.bill[q]
  BY <1>2, <1>4, <1>5, PutBillIs
<1>7. ASSUME NEW c \in Channels
      PROVE  x.chan[c].reserved = s.chan[c].reserved - Part(b, c) + Part(x.bill[r], c)
  <2>1. Part(x.bill[r], c) = Part(b, c)
    BY <1>4, <1>6 DEF Part, Counts
  <2>2. s.chan[c].reserved \in Nat /\ b.reserved \in Nat
    BY <1>2, Fields
  <2>3. Part(b, c) \in Nat
    BY <2>2 DEF Part
  <2>4. QED
    BY <1>6, <2>1, <2>2, <2>3
<1>8. Becomes(s, x)
  <2>1. \A q \in Requests : q # r => x.bill[q] = s.bill[q]
    BY <1>6
  <2>2. x.bill[r] = y /\ s.bill[r] = b
    BY <1>1, <1>6
  <2>3. QED
    BY <1>4, <1>6, <1>7, <2>1, <2>2, BillBecomes
<1>9. QED
  BY <1>1, <1>3, <1>6, <1>8 DEF SucceedLeaves

LEMMA SettleIs ==
  ASSUME NEW s, BooksOf(s), NEW j \in Serial!Job, j.kind = "settle",
         NEW b, b = s.bill[j.request], b.status = "pending", Serial!Accepted(b),
         NEW x, x = Serial!Settle(s, j)
  PROVE  SettleLeaves(s, j, b, x)
<1>1. PICK r \in Requests : r = j.request
  BY JobIs
<1>2. s \in Serial!DbType /\ b \in Serial!Bill
  BY <1>1, Fields DEF BooksOf
<1>3. PICK d \in Channels : d = b.paid
  BY <1>1 DEF BooksOf, Receipted
<1>4. PICK n \in Int : n = b.cost
  BY <1>2, Fields
<1>5. PICK w : w = Serial!Without(s, b)
  OBVIOUS
<1>6. /\ w \in Serial!DbType /\ w.bill = s.bill
      /\ \A c \in Channels : w.chan[c] =
           IF c = b.channel THEN Serial!GivenBack(s.chan[c], b.reserved) ELSE s.chan[c]
      /\ \A c \in Channels : Part(b, c) \in Nat
                             /\ w.chan[c].reserved = s.chan[c].reserved - Part(b, c)
  BY <1>1, <1>5, WithoutOwn
<1>7. PICK y : y = Serial!Deducted(w.chan[d], n)
  OBVIOUS
<1>8. y \in Serial!Channel /\ y.reserved = w.chan[d].reserved
  <2>1. PICK c \in Serial!Channel : c = w.chan[d]
    BY <1>6, Fields
  <2>2. QED
    BY <1>7, <2>1, ChannelWrites
<1>9. Serial!As(b, "settled") \in Serial!Bill /\ Serial!As(b, "settled").status = "settled"
  BY <1>2, AsWrites
<1>10. PICK p : p = PutBill(w, r, Serial!As(b, "settled"))
  OBVIOUS
<1>11. /\ p \in Serial!DbType /\ p.chan = w.chan
       /\ \A q \in Requests : p.bill[q] = IF q = r THEN Serial!As(b, "settled") ELSE s.bill[q]
  BY <1>6, <1>9, <1>10, PutBillIs
<1>12. x = PutChan(p, d, y)
  <2>1. PICK v : v = Serial!As(b, "settled")
    OBVIOUS
  <2>2. x = [w EXCEPT !.bill[j.request] = v,
                      !.chan[b.paid] = Serial!Deducted(w.chan[b.paid], b.cost)]
    BY <1>5, <2>1, Zenon DEF Serial!Settle
  <2>3. x = [w EXCEPT !.bill[r] = v, !.chan[d] = y]
    BY <1>1, <1>3, <1>4, <1>7, <2>2
  <2>4. QED
    BY <1>10, <2>1, <2>3 DEF PutBill, PutChan
<1>13. /\ x \in Serial!DbType /\ x.bill = p.bill
       /\ \A c \in Channels : x.chan[c] = IF c = d THEN y ELSE w.chan[c]
  BY <1>8, <1>11, <1>12, PutChanIs
<1>14. ASSUME NEW c \in Channels
       PROVE  x.chan[c].reserved = s.chan[c].reserved - Part(b, c) + Part(x.bill[r], c)
  <2>1. Part(x.bill[r], c) = 0
    BY <1>9, <1>11, <1>13 DEF Part, Counts
  <2>2. s.chan[c].reserved \in Nat
    BY <1>2, Fields
  <2>3. x.chan[c].reserved = w.chan[c].reserved
    BY <1>8, <1>13
  <2>4. QED
    BY <1>6, <2>1, <2>2, <2>3
<1>15. Becomes(s, x)
  <2>1. \A q \in Requests : q # r => x.bill[q] = s.bill[q]
    BY <1>11, <1>13
  <2>2. x.bill[r].status = "settled" /\ s.bill[r] = b
    BY <1>1, <1>9, <1>11, <1>13
  <2>3. QED
    BY <1>13, <1>14, <2>1, <2>2, BillBecomes
<1>16. ASSUME NEW c \in Channels
       PROVE  x.chan[c] =
                LET g == IF c = b.channel THEN Serial!GivenBack(s.chan[c], b.reserved)
                         ELSE s.chan[c]
                IN IF c = b.paid THEN Serial!Deducted(g, b.cost) ELSE g
  <2>1. PICK g : g = w.chan[c]
    OBVIOUS
  <2>2. g = IF c = b.channel THEN Serial!GivenBack(s.chan[c], b.reserved) ELSE s.chan[c]
    BY <1>6, <2>1, Zenon
  <2>3. x.chan[c] = IF c = b.paid THEN Serial!Deducted(g, b.cost) ELSE g
    <3>1. CASE c = d
      BY <1>3, <1>4, <1>7, <1>13, <2>1, <3>1
    <3>2. CASE c # d
      BY <1>3, <1>13, <2>1, <3>2
    <3>3. QED
      BY <3>1, <3>2, Zenon
  <2>4. QED
    BY <2>2, <2>3
<1>17. /\ x \in Serial!DbType /\ b.paid \in Channels
       /\ \A q \in Requests :
            x.bill[q] = IF q = j.request THEN Serial!As(b, "settled") ELSE s.bill[q]
  BY <1>1, <1>3, <1>11, <1>13
<1>18. QED
  BY <1>15, <1>16, <1>17 DEF SettleLeaves

LEMMA BudgetIs ==
  ASSUME NEW s, BooksOf(s), NEW d \in Channels, NEW y \in Serial!Channel,
         y.reserved = s.chan[d].reserved, NEW x, x = PutChan(s, d, y)
  PROVE  /\ x \in Serial!DbType /\ \A q \in Requests : x.bill[q] = s.bill[q]
         /\ \A c \in Channels : x.chan[c] = IF c = d THEN y ELSE s.chan[c]
         /\ Becomes(s, x)
<1>1. s \in Serial!DbType
  BY DEF BooksOf
<1>2. /\ x \in Serial!DbType /\ x.bill = s.bill
      /\ \A c \in Channels : x.chan[c] = IF c = d THEN y ELSE s.chan[c]
  BY <1>1, PutChanIs
<1>3. Owed(x)
  <2>1. \A c \in Channels : Parts(x, c) = Parts(s, c)
    BY <1>2 DEF Parts
  <2>2. \A c \in Channels : x.chan[c].reserved = s.chan[c].reserved
    BY <1>2
  <2>3. QED
    BY <1>1, <1>2, <2>1, <2>2, OwedIs DEF BooksOf
<1>4. Receipted(x) /\ Evolves(s, x)
  BY <1>2 DEF BooksOf, Receipted, Evolves
<1>5. QED
  BY <1>2, <1>3, <1>4 DEF Becomes, BooksOf

LEMMA AdjustIs ==
  ASSUME NEW s, BooksOf(s), NEW j \in Serial!Job, j.kind = "adjust",
         s.chan[j.channel].budget + j.amount >= 0, NEW x, x = Serial!Adjust(s, j)
  PROVE  /\ x \in Serial!DbType /\ \A q \in Requests : x.bill[q] = s.bill[q]
         /\ \A c \in Channels : x.chan[c] =
              IF c = j.channel THEN Serial!Adjusted(s.chan[c], j.amount) ELSE s.chan[c]
         /\ Becomes(s, x)
<1>1. PICK d \in Channels : d = j.channel
  BY JobIs
<1>2. PICK c \in Serial!Channel : c = s.chan[d]
  BY Fields DEF BooksOf
<1>3. PICK m \in Int : m = j.amount
  BY JobIs
<1>4. PICK y : y = Serial!Adjusted(c, m)
  OBVIOUS
<1>5. y \in Serial!Channel /\ y.reserved = s.chan[d].reserved
  BY <1>2, <1>4, ChannelWrites
<1>6. ~(c.budget + m < 0)
  BY <1>1, <1>2, <1>3, Fields
<1>7. x = PutChan(s, d, y)
  BY <1>1, <1>2, <1>3, <1>4, <1>6 DEF Serial!Adjust, PutChan
<1>8. QED
  BY <1>1, <1>2, <1>3, <1>4, <1>5, <1>7, BudgetIs

LEMMA RechargeIs ==
  ASSUME NEW s, BooksOf(s), NEW j \in Serial!Job, j.kind = "recharge",
         NEW x, x = Serial!Recharge(s, j)
  PROVE  /\ x \in Serial!DbType /\ \A q \in Requests : x.bill[q] = s.bill[q]
         /\ \A c \in Channels : x.chan[c] =
              IF c = j.channel THEN Serial!Recharged(s.chan[c], j.amount) ELSE s.chan[c]
         /\ Becomes(s, x)
<1>1. PICK d \in Channels : d = j.channel
  BY JobIs
<1>2. PICK c \in Serial!Channel : c = s.chan[d]
  BY Fields DEF BooksOf
<1>3. PICK m \in Int : m = j.amount
  BY JobIs
<1>4. PICK y : y = Serial!Recharged(c, m)
  OBVIOUS
<1>5. y \in Serial!Channel /\ y.reserved = s.chan[d].reserved
  BY <1>2, <1>4, ChannelWrites
<1>6. x = PutChan(s, d, y)
  BY <1>1, <1>2, <1>3, <1>4 DEF Serial!Recharge, PutChan
<1>7. QED
  BY <1>1, <1>2, <1>3, <1>4, <1>5, <1>6, BudgetIs

-----------------------------------------------------------------------------
(* The inductive invariant: how far a transaction has come, and what it has  *)
(* then made of the rows that it has written.                                *)

IsDraft(d) ==
  /\ d = [bill |-> d.bill, chan |-> d.chan]
  /\ DOMAIN d.bill \subseteq Requests /\ d.bill = [r \in DOMAIN d.bill |-> d.bill[r]]
  /\ DOMAIN d.chan \subseteq Channels /\ d.chan = [c \in DOMAIN d.chan |-> d.chan[c]]

Wrote(t, R, C) == DOMAIN draft[t].bill = R /\ DOMAIN draft[t].chan = C

Read(t) == txn[t].read
Request(t) == job[t].request
Billed(t) == db.bill[Request(t)]

\* The exposure of t's job is set aside on its channel, beside bill b.
Raised(t, b) ==
  LET c == job[t].channel IN
  /\ Serial!Available(db.chan[c]) >= Serial!Delta(b, job[t])
  /\ draft[t].chan[c] = Serial!SetAside(db.chan[c], Serial!Delta(b, job[t]))

\* That of bill b is given back.
Lowered(t, b) ==
  /\ db.chan[b.channel].reserved >= b.reserved
  /\ draft[t].chan[b.channel] = Serial!GivenBack(db.chan[b.channel], b.reserved)

\* A channel to return to that is not the new one.
Switches(t, b) == b.channel \notin {None, job[t].channel}

Idle(t) ==
  /\ Wrote(t, {}, {})
  /\ Running(t) =>
       /\ txn[t].step = 1
       /\ job[t].kind \notin {"reserve", "settle"} => Read(t) = NoBill

Reserves(t) ==
  LET b == Read(t) c == job[t].channel IN
  /\ job[t].kind = "reserve" /\ b.status = "open" /\ ~Serial!Covered(b, job[t])
  /\ Raised(t, b)
  /\ \/ txn[t].step = 2 /\ Wrote(t, {}, {c})
     \/ txn[t].step = 3 /\ Switches(t, b) /\ Wrote(t, {}, {c, b.channel}) /\ Lowered(t, b)

Claims(t) ==
  LET b == Billed(t) c == job[t].channel IN
  /\ job[t].kind = "reserve" /\ b.status = "open" /\ ~Serial!Covered(b, job[t])
  /\ Raised(t, b)
  /\ Read(t) = Serial!Claimed(b, job[t]) /\ draft[t].bill[Request(t)] = Read(t)
  /\ \/ ~Switches(t, b) /\ Wrote(t, {Request(t)}, {c})
     \/ Switches(t, b) /\ Wrote(t, {Request(t)}, {c, b.channel}) /\ Lowered(t, b)

Releases(t) ==
  LET b == Billed(t) IN
  /\ job[t].kind = "fail" /\ b.status = "open"
  /\ Read(t) = Serial!As(b, "released") /\ draft[t].bill[Request(t)] = Read(t)
  /\ \/ txn[t].step = 2 /\ Wrote(t, {Request(t)}, {})
     \/ /\ txn[t].step = 3 /\ b.channel # None
        /\ Wrote(t, {Request(t)}, {b.channel}) /\ Lowered(t, b)

Succeeds(t) ==
  /\ job[t].kind = "succeed" /\ Billed(t).status = "open" /\ txn[t].step = 2
  /\ Wrote(t, {Request(t)}, {})
  /\ draft[t].bill[Request(t)] = Serial!WithReceipt(Billed(t), job[t])

\* The settlement has returned the exposure of the bill it read, has ended the
\* bill, has paid for it.
Returns(t) ==
  LET b == Read(t) IN
  /\ job[t].kind = "settle" /\ b.status = "pending" /\ Serial!Accepted(b)
  /\ txn[t].step = 2 /\ b.channel # None /\ Wrote(t, {}, {b.channel}) /\ Lowered(t, b)

Finalizes(t) ==
  LET b == Read(t) IN
  /\ job[t].kind = "settle" /\ b.status = "pending" /\ Serial!Accepted(b)
  /\ Billed(t) = b /\ draft[t].bill[Request(t)] = Serial!As(b, "settled")
  /\ \/ txn[t].step = 2 /\ b.channel = None /\ Wrote(t, {Request(t)}, {})
     \/ /\ txn[t].step = 3 /\ b.channel # None /\ Wrote(t, {Request(t)}, {b.channel})
        /\ Lowered(t, b)

Pays(t) ==
  LET b == Read(t) IN
  /\ job[t].kind = "settle" /\ b.status = "pending" /\ Serial!Accepted(b)
  /\ Billed(t) = b /\ draft[t].bill[Request(t)] = Serial!As(b, "settled")
  /\ Wrote(t, {Request(t)}, {b.paid})
  /\ \/ /\ txn[t].step = 3 /\ b.channel = None
        /\ draft[t].chan[b.paid] = Serial!Deducted(db.chan[b.paid], b.cost)
     \/ /\ txn[t].step = 4 /\ b.channel # None
        /\ draft[t].chan[b.paid] =
             Serial!Deducted(Serial!GivenBack(db.chan[b.paid], b.reserved), b.cost)

Budgets(t) ==
  LET c == job[t].channel IN
  /\ txn[t].step = 2 /\ Wrote(t, {}, {c}) /\ Read(t) = NoBill
  /\ \/ /\ job[t].kind = "adjust" /\ db.chan[c].budget + job[t].amount >= 0
        /\ draft[t].chan[c] = Serial!Adjusted(db.chan[c], job[t].amount)
     \/ /\ job[t].kind = "recharge"
        /\ draft[t].chan[c] = Serial!Recharged(db.chan[c], job[t].amount)

Place(t) ==
  \/ Idle(t)
  \/ /\ Running(t)
     /\ \/ Reserves(t) \/ Claims(t) \/ Releases(t) \/ Succeeds(t)
        \/ Returns(t) \/ Finalizes(t) \/ Pays(t) \/ Budgets(t)

\* The bill a settlement has read is as it was, or ended by another one.
Fresh(t) ==
  Running(t) /\ job[t].kind = "settle" /\ Read(t).status = "pending" =>
    /\ Read(t).paid \in Channels
    /\ Billed(t) = Read(t) \/ Billed(t).status = "settled"

Sound(t) == IsDraft(draft[t]) /\ Place(t) /\ Fresh(t)

Apart == \A t, u \in Txns : t # u => Rows(t) \cap Rows(u) = {}

IInv ==
  /\ TypeOK /\ DOMAIN draft = Txns /\ BooksOf(db) /\ Apart
  /\ \A t \in Txns : Sound(t)

-----------------------------------------------------------------------------
(* What the others do.                                                       *)

SameRows(R, s, x) ==
  /\ \A r \in Requests \cap R : x.bill[r] = s.bill[r]
  /\ \A c \in Channels \cap R : x.chan[c] = s.chan[c]

LEMMA TypesOf ==
  ASSUME TypeOK, NEW t \in Txns
  PROVE  /\ job[t] \in Serial!Job /\ txn[t] \in Txn /\ txn \in [Txns -> Txn]
         /\ Read(t) \in Serial!Bill /\ txn[t].step \in Nat
         /\ txn[t].runs \in 1..MaxTries
<1>1. job \in [Txns -> Serial!Job] /\ txn \in [Txns -> Txn]
  BY LoadsAssumption DEF TypeOK
<1>2. QED
  BY <1>1 DEF Txn, Read

LEMMA OthersStaySound ==
  ASSUME TypeOK, NEW u \in Txns, Sound(u),
         txn'[u] = txn[u], draft'[u] = draft[u], job' = job,
         SameRows(Rows(u), db, db'), Evolves(db, db')
  PROVE  Sound(u)'
<1>1. /\ \A r \in Requests : r \in DOMAIN draft[u].bill => db'.bill[r] = db.bill[r]
      /\ \A c \in Channels : c \in DOMAIN draft[u].chan => db'.chan[c] = db.chan[c]
  BY DEF SameRows, Rows
<1>2. IsDraft(draft[u])' /\ Running(u)' = Running(u) /\ Read(u)' = Read(u)
      /\ Request(u)' = Request(u)
  BY DEF Sound, IsDraft, Running, Read, Request
<1>3. \A R, C : Wrote(u, R, C)' <=> Wrote(u, R, C)
  BY DEF Wrote
<1>4. \A b : job[u].channel \in DOMAIN draft[u].chan /\ Raised(u, b) => Raised(u, b)'
  BY <1>1 DEF Raised, Sound, IsDraft
<1>5. \A b : b.channel \in DOMAIN draft[u].chan /\ Lowered(u, b) => Lowered(u, b)'
  BY <1>1 DEF Lowered, Sound, IsDraft
<1>6. Request(u) \in DOMAIN draft[u].bill => Billed(u)' = Billed(u)
  BY <1>1, <1>2 DEF Billed, Sound, IsDraft
<1>7. \A b : Switches(u, b)' <=> Switches(u, b)
  BY DEF Switches
<1>8. Place(u)'
  <2>1. CASE Idle(u)
    BY <1>2, <1>3, <2>1 DEF Place, Idle
  <2>2. CASE Running(u) /\ Reserves(u)
    <3>1. job[u].channel \in DOMAIN draft[u].chan
      BY <2>2 DEF Reserves, Wrote
    <3>2. Raised(u, Read(u))'
      BY <1>2, <1>4, <2>2, <3>1 DEF Reserves
    <3>3. \/ txn[u].step = 2 /\ Wrote(u, {}, {job[u].channel})
          \/ /\ txn[u].step = 3 /\ Switches(u, Read(u))
             /\ Wrote(u, {}, {job[u].channel, Read(u).channel})
             /\ Lowered(u, Read(u)) /\ Read(u).channel \in DOMAIN draft[u].chan
      BY <2>2 DEF Reserves, Wrote
    <3>4. Reserves(u)'
      BY <1>2, <1>3, <1>5, <1>7, <2>2, <3>2, <3>3 DEF Reserves
    <3>5. QED
      BY <1>2, <2>2, <3>4 DEF Place
  <2>3. CASE Running(u) /\ Claims(u)
    <3>1. Request(u) \in DOMAIN draft[u].bill /\ job[u].channel \in DOMAIN draft[u].chan
      BY <2>3 DEF Claims, Wrote
    <3>2. Billed(u)' = Billed(u) /\ Raised(u, Billed(u))'
      BY <1>4, <1>6, <2>3, <3>1 DEF Claims
    <3>3. \/ ~Switches(u, Billed(u)) /\ Wrote(u, {Request(u)}, {job[u].channel})
          \/ /\ Switches(u, Billed(u))
             /\ Wrote(u, {Request(u)}, {job[u].channel, Billed(u).channel})
             /\ Lowered(u, Billed(u)) /\ Billed(u).channel \in DOMAIN draft[u].chan
      BY <2>3 DEF Claims, Wrote
    <3>4. Claims(u)'
      BY <1>2, <1>3, <1>5, <1>7, <2>3, <3>2, <3>3 DEF Claims
    <3>5. QED
      BY <1>2, <2>3, <3>4 DEF Place
  <2>4. CASE Running(u) /\ Releases(u)
    <3>1. Request(u) \in DOMAIN draft[u].bill
      BY <2>4 DEF Releases, Wrote
    <3>2. Billed(u)' = Billed(u)
      BY <1>6, <3>1
    <3>3. \/ txn[u].step = 2 /\ Wrote(u, {Request(u)}, {})
          \/ /\ txn[u].step = 3 /\ Billed(u).channel # None
             /\ Wrote(u, {Request(u)}, {Billed(u).channel})
             /\ Lowered(u, Billed(u)) /\ Billed(u).channel \in DOMAIN draft[u].chan
      BY <2>4 DEF Releases, Wrote
    <3>4. Releases(u)'
      BY <1>2, <1>3, <1>5, <2>4, <3>2, <3>3 DEF Releases
    <3>5. QED
      BY <1>2, <2>4, <3>4 DEF Place
  <2>5. CASE Running(u) /\ Succeeds(u)
    <3>1. Billed(u)' = Billed(u)
      BY <1>6, <2>5 DEF Succeeds, Wrote
    <3>2. Succeeds(u)'
      BY <1>2, <1>3, <2>5, <3>1 DEF Succeeds
    <3>3. QED
      BY <1>2, <2>5, <3>2 DEF Place
  <2>6. CASE Running(u) /\ Returns(u)
    <3>1. Read(u).channel \in DOMAIN draft[u].chan
      BY <2>6 DEF Returns, Wrote
    <3>2. Returns(u)'
      BY <1>2, <1>3, <1>5, <2>6, <3>1 DEF Returns
    <3>3. QED
      BY <1>2, <2>6, <3>2 DEF Place
  <2>7. CASE Running(u) /\ Finalizes(u)
    <3>1. Billed(u)' = Billed(u)
      BY <1>6, <2>7 DEF Finalizes, Wrote
    <3>2. \/ txn[u].step = 2 /\ Read(u).channel = None /\ Wrote(u, {Request(u)}, {})
          \/ /\ txn[u].step = 3 /\ Read(u).channel # None
             /\ Wrote(u, {Request(u)}, {Read(u).channel})
             /\ Lowered(u, Read(u)) /\ Read(u).channel \in DOMAIN draft[u].chan
      BY <2>7 DEF Finalizes, Wrote
    <3>3. Finalizes(u)'
      BY <1>2, <1>3, <1>5, <2>7, <3>1, <3>2 DEF Finalizes
    <3>4. QED
      BY <1>2, <2>7, <3>3 DEF Place
  <2>8. CASE Running(u) /\ Pays(u)
    <3>1. Billed(u)' = Billed(u) /\ db'.chan[Read(u).paid] = db.chan[Read(u).paid]
      BY <1>1, <1>6, <2>8 DEF Pays, Wrote, Sound, IsDraft
    <3>2. Pays(u)'
      BY <1>2, <1>3, <2>8, <3>1 DEF Pays
    <3>3. QED
      BY <1>2, <2>8, <3>2 DEF Place
  <2>9. CASE Running(u) /\ Budgets(u)
    <3>1. db'.chan[job[u].channel] = db.chan[job[u].channel]
      BY <1>1, <2>9 DEF Budgets, Wrote, Sound, IsDraft
    <3>2. Budgets(u)'
      BY <1>2, <1>3, <2>9, <3>1 DEF Budgets
    <3>3. QED
      BY <1>2, <2>9, <3>2 DEF Place
  <2>10. QED
    BY <2>1, <2>2, <2>3, <2>4, <2>5, <2>6, <2>7, <2>8, <2>9 DEF Sound, Place
<1>9. Fresh(u)'
  <2>1. job[u].kind = "settle" => Request(u) \in Requests
    BY TypesOf, JobIs DEF Request
  <2>2. QED
    BY <1>2, <2>1 DEF Sound, Fresh, Billed, Evolves
<1>10. QED
  BY <1>2, <1>8, <1>9 DEF Sound

-----------------------------------------------------------------------------
(* The statements of a job.                                                  *)

LEMMA Two ==
  ASSUME NEW S, NEW a \in S, NEW b \in S, NEW z \in Seq(S), Len(z) = 2, z[1] = a, z[2] = b
  PROVE  z = <<a, b>>
<1>1. PICK y : y = <<a, b>>
  OBVIOUS
<1>2. y \in Seq(S) /\ Len(y) = 2 /\ y[1] = a /\ y[2] = b
  BY <1>1
<1>3. \A i \in 1..Len(y) : y[i] = z[i]
  BY <1>2
<1>4. y = z
  BY <1>2, <1>3, SeqEqual
<1>5. QED
  BY <1>1, <1>4

LEMMA Three ==
  ASSUME NEW S, NEW a \in S, NEW b \in S, NEW c \in S, NEW z \in Seq(S),
         Len(z) = 3, z[1] = a, z[2] = b, z[3] = c
  PROVE  z = <<a, b, c>>
<1>1. PICK y : y = <<a, b, c>>
  OBVIOUS
<1>2. y \in Seq(S) /\ Len(y) = 3 /\ y[1] = a /\ y[2] = b /\ y[3] = c
  BY <1>1
<1>3. \A i \in 1..Len(y) : y[i] = z[i]
  BY <1>2
<1>4. y = z
  BY <1>2, <1>3, SeqEqual
<1>5. QED
  BY <1>1, <1>4

LEMMA Joined ==
  ASSUME NEW S, NEW x \in Seq(S), NEW y \in Seq(S), NEW z, z = x \o y
  PROVE  /\ z \in Seq(S) /\ Len(z) = Len(x) + Len(y)
         /\ \A i \in 1..Len(z) : z[i] = IF i <= Len(x) THEN x[i] ELSE y[i - Len(x)]
BY ConcatProperties

LEMMA Tuples ==
  /\ \A a : <<a>> \o <<>> = <<a>>
  /\ \A a, b : <<a>> \o <<b>> = <<a, b>> /\ <<>> \o <<a, b>> = <<a, b>>
  /\ \A a, b, c : <<a>> \o <<b, c>> = <<a, b, c>> /\ <<a, b>> \o <<c>> = <<a, b, c>>
<1>1. \A a : <<a>> \o <<>> = <<a>>
  OBVIOUS
<1>2. ASSUME NEW a, NEW b
      PROVE <<a>> \o <<b>> = <<a, b>> /\ <<>> \o <<a, b>> = <<a, b>>
  <2>1. PICK S : S = {a, b}
    OBVIOUS
  <2>2. PICK x : x = <<a>>
    OBVIOUS
  <2>3. PICK y : y = <<b>>
    OBVIOUS
  <2>4. PICK z : z = x \o y
    OBVIOUS
  <2>5. x \in Seq(S) /\ Len(x) = 1 /\ x[1] = a /\ y \in Seq(S) /\ Len(y) = 1 /\ y[1] = b
    BY <2>1, <2>2, <2>3
  <2>6. x \in Seq(S) /\ y \in Seq(S)
    BY <2>5
  <2>7. z \in Seq(S) /\ Len(z) = Len(x) + Len(y)
    BY <2>4, <2>6, Joined
  <2>8. \A i \in 1..Len(z) : z[i] = IF i <= Len(x) THEN x[i] ELSE y[i - Len(x)]
    BY <2>4, <2>6, Joined
  <2>9. /\ z \in Seq(S) /\ Len(z) = 2
        /\ \A i \in 1..2 : z[i] = IF i <= 1 THEN x[i] ELSE y[i - 1]
    BY <2>5, <2>7, <2>8
  <2>10. z[1] = a /\ z[2] = b
    BY <2>5, <2>9
  <2>11. z = <<a, b>>
    BY <2>1, <2>9, <2>10, Two
  <2>12. <<>> \o <<a, b>> = <<a, b>>
    OBVIOUS
  <2>13. QED
    BY <2>2, <2>3, <2>4, <2>11, <2>12
<1>3. ASSUME NEW a, NEW b, NEW c
      PROVE <<a>> \o <<b, c>> = <<a, b, c>>
  <2>1. PICK S : S = {a, b, c}
    OBVIOUS
  <2>2. PICK x : x = <<a>>
    OBVIOUS
  <2>3. PICK y : y = <<b, c>>
    OBVIOUS
  <2>4. PICK z : z = x \o y
    OBVIOUS
  <2>5. /\ x \in Seq(S) /\ Len(x) = 1 /\ x[1] = a
        /\ y \in Seq(S) /\ Len(y) = 2 /\ y[1] = b /\ y[2] = c
    BY <2>1, <2>2, <2>3
  <2>6. x \in Seq(S) /\ y \in Seq(S)
    BY <2>5
  <2>7. z \in Seq(S) /\ Len(z) = Len(x) + Len(y)
    BY <2>4, <2>6, Joined
  <2>8. \A i \in 1..Len(z) : z[i] = IF i <= Len(x) THEN x[i] ELSE y[i - Len(x)]
    BY <2>4, <2>6, Joined
  <2>9. /\ z \in Seq(S) /\ Len(z) = 3
        /\ \A i \in 1..3 : z[i] = IF i <= 1 THEN x[i] ELSE y[i - 1]
    BY <2>5, <2>7, <2>8
  <2>10. z[1] = a /\ z[2] = b /\ z[3] = c
    BY <2>5, <2>9
  <2>11. z = <<a, b, c>>
    BY <2>1, <2>9, <2>10, Three
  <2>12. QED
    BY <2>2, <2>3, <2>4, <2>11
<1>4. ASSUME NEW a, NEW b, NEW c
      PROVE <<a, b>> \o <<c>> = <<a, b, c>>
  <2>1. PICK S : S = {a, b, c}
    OBVIOUS
  <2>2. PICK x : x = <<a, b>>
    OBVIOUS
  <2>3. PICK y : y = <<c>>
    OBVIOUS
  <2>4. PICK z : z = x \o y
    OBVIOUS
  <2>5. /\ x \in Seq(S) /\ Len(x) = 2 /\ x[1] = a /\ x[2] = b
        /\ y \in Seq(S) /\ Len(y) = 1 /\ y[1] = c
    BY <2>1, <2>2, <2>3
  <2>6. x \in Seq(S) /\ y \in Seq(S)
    BY <2>5
  <2>7. z \in Seq(S) /\ Len(z) = Len(x) + Len(y)
    BY <2>4, <2>6, Joined
  <2>8. \A i \in 1..Len(z) : z[i] = IF i <= Len(x) THEN x[i] ELSE y[i - Len(x)]
    BY <2>4, <2>6, Joined
  <2>9. /\ z \in Seq(S) /\ Len(z) = 3
        /\ \A i \in 1..3 : z[i] = IF i <= 2 THEN x[i] ELSE y[i - 2]
    BY <2>5, <2>7, <2>8
  <2>10. z[1] = a /\ z[2] = b /\ z[3] = c
    BY <2>5, <2>9
  <2>11. z = <<a, b, c>>
    BY <2>1, <2>9, <2>10, Three
  <2>12. QED
    BY <2>2, <2>3, <2>4, <2>11
<1>5. QED
  BY <1>1, <1>2, <1>3, <1>4

LEMMA StatementsAre ==
  ASSUME NEW j \in Serial!Job, NEW b
  PROVE  /\ j.kind = "reserve" =>
              Statements(j, b) =
                IF b.status = "open" /\ ~Serial!Covered(b, j)
                THEN IF b.channel \notin {None, j.channel}
                     THEN <<"increase", "decrease", "claim">> ELSE <<"increase", "claim">>
                ELSE <<>>
         /\ j.kind = "fail" =>
              Statements(j, b) =
                IF b.channel = None THEN <<"release">> ELSE <<"release", "decrease">>
         /\ j.kind = "settle" =>
              Statements(j, b) =
                IF b.status = "pending" /\ Serial!Accepted(b)
                THEN IF b.channel = None THEN <<"finalize", "deduct">>
                     ELSE <<"decrease", "finalize", "deduct">>
                ELSE <<>>
         /\ j.kind \in {"succeed", "adjust", "recharge"} => Statements(j, b) = <<j.kind>>
<1>1. CASE j.kind = "reserve"
  <2>1. Statements(j, b) = IF b.status = "open" THEN Reserving(j, b) ELSE <<>>
    BY <1>1 DEF Statements
  <2>2. j.channel # None
    BY <1>1, JobIs, NamesAssumption
  <2>3. <<"increase">> \o <<>> \o <<"claim">> = <<"increase", "claim">>
    <3>1. <<"increase">> \o <<>> = <<"increase">>
      BY Tuples
    <3>2. <<"increase">> \o <<"claim">> = <<"increase", "claim">>
      BY Tuples
    <3>3. QED
      BY <3>1, <3>2
  <2>4. <<"increase">> \o <<"decrease">> \o <<"claim">> = <<"increase", "decrease", "claim">>
    <3>1. <<"increase">> \o <<"decrease">> = <<"increase", "decrease">>
      BY Tuples
    <3>2. <<"increase", "decrease">> \o <<"claim">> = <<"increase", "decrease", "claim">>
      BY Tuples
    <3>3. QED
      BY <3>1, <3>2
  <2>5. Reserving(j, b) =
          IF Serial!Covered(b, j) THEN <<>>
          ELSE IF b.channel \notin {None, j.channel}
               THEN <<"increase", "decrease", "claim">> ELSE <<"increase", "claim">>
    BY <2>2, <2>3, <2>4 DEF Reserving, Returning
  <2>6. QED
    BY <1>1, <2>1, <2>5
<1>2. CASE j.kind = "fail"
  <2>1. /\ <<"release">> \o <<>> = <<"release">>
        /\ <<"release">> \o <<"decrease">> = <<"release", "decrease">>
    BY Tuples
  <2>2. QED
    BY <1>2, <2>1 DEF Statements, Returning
<1>3. CASE j.kind = "settle"
  <2>1. /\ <<>> \o <<"finalize", "deduct">> = <<"finalize", "deduct">>
        /\ <<"decrease">> \o <<"finalize", "deduct">> = <<"decrease", "finalize", "deduct">>
    BY Tuples
  <2>2. QED
    BY <1>3, <2>1 DEF Statements, Returning
<1>4. CASE j.kind \in {"succeed", "adjust", "recharge"}
  BY <1>4 DEF Statements
<1>5. QED
  BY <1>1, <1>2, <1>3, <1>4, JobIs

\* Where a statement of a job is run, and what was done before.
AtPlace(t, s) ==
  LET b == Read(t) IN
  \/ /\ s = "increase" /\ Idle(t) /\ job[t].kind = "reserve"
     /\ b.status = "open" /\ ~Serial!Covered(b, job[t])
  \/ s = "decrease" /\ Reserves(t) /\ txn[t].step = 2 /\ Switches(t, b)
  \/ /\ s = "claim" /\ Reserves(t)
     /\ \/ txn[t].step = 2 /\ ~Switches(t, b)
        \/ txn[t].step = 3 /\ Switches(t, b)
  \/ s = "release" /\ Idle(t) /\ job[t].kind = "fail"
  \/ s = "decrease" /\ Releases(t) /\ txn[t].step = 2 /\ b.channel # None
  \/ /\ s = "decrease" /\ Idle(t) /\ job[t].kind = "settle"
     /\ b.status = "pending" /\ Serial!Accepted(b) /\ b.channel # None
  \/ /\ s = "finalize"
     /\ \/ /\ Idle(t) /\ b.channel = None /\ job[t].kind = "settle"
           /\ b.status = "pending" /\ Serial!Accepted(b)
        \/ Returns(t)
  \/ s = "deduct" /\ Finalizes(t)
  \/ s \in {"succeed", "adjust", "recharge"} /\ Idle(t) /\ job[t].kind = s

LEMMA AtIs ==
  ASSUME TypeOK, NEW t \in Txns, Sound(t), Running(t), ~Finished(t)
  PROVE  AtPlace(t, Now(t))
<1>1. PICK j \in Serial!Job : j = job[t]
  BY TypesOf
<1>2. PICK b \in Serial!Bill : b = Read(t)
  BY TypesOf
<1>3. PICK p : p = Statements(j, b)
  OBVIOUS
<1>4. Plan(t) = p /\ Now(t) = p[txn[t].step] /\ txn[t].step \in Nat /\ txn[t].step > 0
      /\ ~(txn[t].step > Len(p))
  BY <1>1, <1>2, <1>3, TypesOf DEF Plan, Now, Read, Running, Finished
<1>5. CASE Idle(t)
  <2>1. txn[t].step = 1 /\ (j.kind \notin {"reserve", "settle"} => b = NoBill)
    BY <1>1, <1>2, <1>5 DEF Idle
  <2>2. CASE j.kind = "reserve"
    <3>1. b.status = "open" /\ ~Serial!Covered(b, j)
      BY <1>3, <1>4, <2>1, <2>2, StatementsAre
    <3>2. p[1] = "increase"
      BY <1>3, <2>2, <3>1, StatementsAre
    <3>3. QED
      BY <1>1, <1>2, <1>4, <1>5, <2>1, <2>2, <3>1, <3>2 DEF AtPlace
  <2>3. CASE j.kind = "settle"
    <3>1. b.status = "pending" /\ Serial!Accepted(b)
      BY <1>3, <1>4, <2>1, <2>3, StatementsAre
    <3>2. p[1] = IF b.channel = None THEN "finalize" ELSE "decrease"
      BY <1>3, <2>3, <3>1, StatementsAre
    <3>3. QED
      BY <1>1, <1>2, <1>4, <1>5, <2>1, <2>3, <3>1, <3>2 DEF AtPlace
  <2>4. CASE j.kind = "fail"
    <3>1. p[1] = "release"
      BY <1>3, <2>4, StatementsAre
    <3>2. QED
      BY <1>1, <1>4, <1>5, <2>1, <2>4, <3>1 DEF AtPlace
  <2>5. CASE j.kind \in {"succeed", "adjust", "recharge"}
    <3>1. p[1] = j.kind
      BY <1>3, <2>5, StatementsAre
    <3>2. QED
      BY <1>1, <1>4, <1>5, <2>1, <2>5, <3>1 DEF AtPlace
  <2>6. QED
    BY <2>2, <2>3, <2>4, <2>5, JobIs
<1>6. CASE Reserves(t)
  <2>1. j.kind = "reserve" /\ b.status = "open" /\ ~Serial!Covered(b, j)
    BY <1>1, <1>2, <1>6 DEF Reserves
  <2>2. p = IF Switches(t, b) THEN <<"increase", "decrease", "claim">>
            ELSE <<"increase", "claim">>
    BY <1>1, <1>3, <2>1, StatementsAre DEF Switches
  <2>3. txn[t].step = 2 \/ (txn[t].step = 3 /\ Switches(t, b))
    BY <1>2, <1>6 DEF Reserves
  <2>4. \/ Switches(t, b) /\ txn[t].step = 2 /\ Now(t) = "decrease"
        \/ Switches(t, b) /\ txn[t].step = 3 /\ Now(t) = "claim"
        \/ ~Switches(t, b) /\ txn[t].step = 2 /\ Now(t) = "claim"
    BY <1>4, <2>2, <2>3
  <2>5. QED
    BY <1>2, <1>6, <2>4 DEF AtPlace
<1>7. CASE Claims(t)
  <2>1. j.kind = "reserve" /\ b = Serial!Claimed(Billed(t), j)
    BY <1>1, <1>2, <1>7 DEF Claims
  <2>2. Billed(t) \in Serial!Bill
    BY <1>1, <2>1, JobIs, Fields DEF Billed, Request, TypeOK
  <2>3. b.channel = j.channel /\ b.reserved = j.amount /\ j.amount \in Nat
    BY <1>2, <2>1, <2>2, ClaimedWrites, JobIs
  <2>4. Serial!Covered(b, j)
    BY <2>3 DEF Serial!Covered
  <2>5. Len(p) = 0
    BY <1>3, <2>1, <2>4, StatementsAre
  <2>6. QED
    BY <1>4, <2>5
<1>8. CASE Releases(t)
  <2>1. j.kind = "fail"
    BY <1>1, <1>8 DEF Releases
  <2>2. p = IF b.channel = None THEN <<"release">> ELSE <<"release", "decrease">>
    BY <1>3, <2>1, StatementsAre
  <2>3. txn[t].step = 2 \/ txn[t].step = 3
    BY <1>8 DEF Releases
  <2>4. txn[t].step = 2 /\ b.channel # None /\ Now(t) = "decrease"
    BY <1>4, <2>2, <2>3
  <2>5. QED
    BY <1>2, <1>8, <2>4 DEF AtPlace
<1>9. CASE Succeeds(t)
  <2>1. Len(p) = 1 /\ txn[t].step = 2
    BY <1>1, <1>3, <1>9, StatementsAre DEF Succeeds
  <2>2. QED
    BY <1>4, <2>1
<1>10. CASE Returns(t)
  <2>1. j.kind = "settle" /\ b.status = "pending" /\ Serial!Accepted(b) /\ b.channel # None
        /\ txn[t].step = 2
    BY <1>1, <1>2, <1>10 DEF Returns
  <2>2. p = <<"decrease", "finalize", "deduct">>
    BY <1>3, <2>1, StatementsAre
  <2>3. Now(t) = "finalize"
    BY <1>4, <2>1, <2>2
  <2>4. QED
    BY <1>10, <2>3 DEF AtPlace
<1>11. CASE Finalizes(t)
  <2>1. j.kind = "settle" /\ b.status = "pending" /\ Serial!Accepted(b)
        /\ \/ txn[t].step = 2 /\ b.channel = None
           \/ txn[t].step = 3 /\ b.channel # None
    BY <1>1, <1>2, <1>11 DEF Finalizes
  <2>2. p = IF b.channel = None THEN <<"finalize", "deduct">>
            ELSE <<"decrease", "finalize", "deduct">>
    BY <1>3, <2>1, StatementsAre
  <2>3. Now(t) = "deduct"
    BY <1>4, <2>1, <2>2
  <2>4. QED
    BY <1>11, <2>3 DEF AtPlace
<1>12. CASE Pays(t)
  <2>1. j.kind = "settle" /\ b.status = "pending" /\ Serial!Accepted(b)
        /\ \/ txn[t].step = 3 /\ b.channel = None
           \/ txn[t].step = 4 /\ b.channel # None
    BY <1>1, <1>2, <1>12 DEF Pays
  <2>2. p = IF b.channel = None THEN <<"finalize", "deduct">>
            ELSE <<"decrease", "finalize", "deduct">>
    BY <1>3, <2>1, StatementsAre
  <2>3. QED
    BY <1>4, <2>1, <2>2
<1>13. CASE Budgets(t)
  <2>1. Len(p) = 1 /\ txn[t].step = 2
    BY <1>1, <1>3, <1>13, StatementsAre DEF Budgets
  <2>2. QED
    BY <1>4, <2>1
<1>14. QED
  BY <1>5, <1>6, <1>7, <1>8, <1>9, <1>10, <1>11, <1>12, <1>13 DEF Sound, Place

\* What a job has done when it has run all its statements.
Complete(t) ==
  \/ Idle(t) \/ Claims(t) \/ Succeeds(t) \/ Pays(t) \/ Budgets(t)
  \/ Releases(t) /\ (txn[t].step = 2 => Billed(t).channel = None)

LEMMA FinishedIs ==
  ASSUME TypeOK, NEW t \in Txns, Sound(t), Finished(t)
  PROVE  Complete(t)
<1>1. PICK j \in Serial!Job : j = job[t]
  BY TypesOf
<1>2. PICK b \in Serial!Bill : b = Read(t)
  BY TypesOf
<1>3. PICK p : p = Statements(j, b)
  OBVIOUS
<1>4. Running(t) /\ txn[t].step > Len(p)
  BY <1>1, <1>2, <1>3 DEF Plan, Read, Finished
<1>5. CASE Reserves(t)
  <2>1. j.kind = "reserve" /\ b.status = "open" /\ ~Serial!Covered(b, j)
    BY <1>1, <1>2, <1>5 DEF Reserves
  <2>2. p = IF Switches(t, b) THEN <<"increase", "decrease", "claim">>
            ELSE <<"increase", "claim">>
    BY <1>1, <1>3, <2>1, StatementsAre DEF Switches
  <2>3. txn[t].step = 2 \/ (txn[t].step = 3 /\ Switches(t, b))
    BY <1>2, <1>5 DEF Reserves
  <2>4. QED
    BY <1>4, <2>2, <2>3
<1>6. CASE Releases(t)
  <2>1. j.kind = "fail" /\ b = Serial!As(Billed(t), "released")
    BY <1>1, <1>2, <1>6 DEF Releases
  <2>2. Billed(t) \in Serial!Bill
    BY <1>1, <2>1, JobIs, Fields DEF Billed, Request, TypeOK
  <2>3. b.channel = Billed(t).channel
    BY <2>1, <2>2, AsWrites
  <2>4. b.channel # None => Len(p) = 2
    BY <1>3, <2>1, StatementsAre
  <2>5. txn[t].step = 2 => Billed(t).channel = None
    <3>1. ASSUME txn[t].step = 2, b.channel # None PROVE FALSE
      <4>1. Len(p) = 2
        BY <2>4, <3>1
      <4>2. 2 > 2
        BY <1>4, <3>1, <4>1
      <4>3. QED
        BY <4>2
    <3>2. QED
      BY <2>3, <3>1
  <2>6. QED
    BY <1>6, <2>5 DEF Complete
<1>7. CASE Returns(t)
  <2>1. Len(p) = 3 /\ txn[t].step = 2
    BY <1>1, <1>2, <1>3, <1>7, StatementsAre DEF Returns
  <2>2. QED
    BY <1>4, <2>1
<1>8. CASE Finalizes(t)
  <2>1. j.kind = "settle" /\ b.status = "pending" /\ Serial!Accepted(b)
        /\ \/ txn[t].step = 2 /\ b.channel = None
           \/ txn[t].step = 3 /\ b.channel # None
    BY <1>1, <1>2, <1>8 DEF Finalizes
  <2>2. Len(p) = IF b.channel = None THEN 2 ELSE 3
    BY <1>3, <2>1, StatementsAre
  <2>3. QED
    BY <1>4, <2>1, <2>2
<1>9. QED
  BY <1>5, <1>6, <1>7, <1>8 DEF Sound, Place, Complete

-----------------------------------------------------------------------------
(* What a statement writes, and what it leaves alone.                        *)

\* The other transactions stay where they are.
Alone(t) ==
  /\ job' = job /\ DOMAIN draft' = Txns /\ txn' \in [Txns -> Txn]
  /\ IsDraft(draft[t])' /\ Apart'
  /\ \A u \in Txns : u # t => draft'[u] = draft[u] /\ txn'[u] = txn[u]

LEMMA Unblocked ==
  ASSUME NEW t \in Txns, Running(t), ~Finished(t), Blocker(t) = None
  PROVE  \A u \in Txns : u # t => Target(t) \notin Rows(u)
<1>1. ASSUME NEW v \in Txns, v # t, Target(t) \in Rows(v) PROVE FALSE
  <2>1. \E u \in Txns \ {t} : Target(t) \in Rows(u)
    BY <1>1
  <2>2. Blocker(t) = CHOOSE u \in Txns \ {t} : Target(t) \in Rows(u)
    BY <2>1 DEF Blocker
  <2>3. (CHOOSE u \in Txns \ {t} : Target(t) \in Rows(u)) \in Txns \ {t}
    BY <2>1
  <2>4. QED
    BY <2>2, <2>3, NamesAssumption
<1>2. QED
  BY <1>1

\* t writes a row that no other has.
BillPut(t, r, b) ==
  /\ DOMAIN draft' = Txns /\ IsDraft(draft'[t]) /\ Apart'
  /\ \A u \in Txns : u # t => draft'[u] = draft[u]
  /\ draft'[t].chan = draft[t].chan /\ draft'[t].bill[r] = b
  /\ DOMAIN draft'[t].bill = DOMAIN draft[t].bill \cup {r}

ChanPut(t, d, c) ==
  /\ DOMAIN draft' = Txns /\ IsDraft(draft'[t]) /\ Apart'
  /\ \A u \in Txns : u # t => draft'[u] = draft[u]
  /\ draft'[t].bill = draft[t].bill /\ draft'[t].chan[d] = c
  /\ DOMAIN draft'[t].chan = DOMAIN draft[t].chan \cup {d}
  /\ \A e \in DOMAIN draft[t].chan : e # d => draft'[t].chan[e] = draft[t].chan[e]

LEMMA BillRow ==
  ASSUME NEW t \in Txns, DOMAIN draft = Txns, IsDraft(draft[t]), Apart, NEW r \in Requests, NEW b,
         \A u \in Txns : u # t => r \notin Rows(u),
         draft' = [draft EXCEPT ![t].bill = Put(@, r, b)]
  PROVE  BillPut(t, r, b)
<1>1. PICK f : f = Put(draft[t].bill, r, b)
  OBVIOUS
<1>2. DOMAIN f = DOMAIN draft[t].bill \cup {r} /\ f[r] = b /\ f = [y \in DOMAIN f |-> f[y]]
  BY <1>1 DEF Put
<1>3. draft' = [draft EXCEPT ![t].bill = f]
  BY <1>1
<1>4. /\ DOMAIN draft' = Txns /\ \A u \in Txns : u # t => draft'[u] = draft[u]
      /\ draft'[t] = [draft[t] EXCEPT !.bill = f]
  BY <1>3
<1>5. draft'[t] = [bill |-> f, chan |-> draft[t].chan]
  BY <1>4 DEF IsDraft
<1>6. draft'[t].bill = f /\ draft'[t].chan = draft[t].chan
  BY <1>5
<1>7. IsDraft(draft'[t])
  BY <1>2, <1>5, <1>6 DEF IsDraft
<1>8. Rows(t)' = Rows(t) \cup {r} /\ \A u \in Txns : u # t => Rows(u)' = Rows(u)
  BY <1>2, <1>4, <1>6 DEF Rows
<1>9. Apart'
  BY <1>8 DEF Apart
<1>10. QED
  BY <1>2, <1>4, <1>6, <1>7, <1>9 DEF BillPut

LEMMA ChanRow ==
  ASSUME NEW t \in Txns, DOMAIN draft = Txns, IsDraft(draft[t]), Apart, NEW d \in Channels, NEW c,
         \A u \in Txns : u # t => d \notin Rows(u),
         draft' = [draft EXCEPT ![t].chan = Put(@, d, c)]
  PROVE  ChanPut(t, d, c)
<1>1. PICK f : f = Put(draft[t].chan, d, c)
  OBVIOUS
<1>2. /\ DOMAIN f = DOMAIN draft[t].chan \cup {d} /\ f[d] = c /\ f = [y \in DOMAIN f |-> f[y]]
      /\ \A e \in DOMAIN draft[t].chan : e # d => f[e] = draft[t].chan[e]
  BY <1>1 DEF Put
<1>3. draft' = [draft EXCEPT ![t].chan = f]
  BY <1>1
<1>4. /\ DOMAIN draft' = Txns /\ \A u \in Txns : u # t => draft'[u] = draft[u]
      /\ draft'[t] = [draft[t] EXCEPT !.chan = f]
  BY <1>3
<1>5. draft'[t] = [bill |-> draft[t].bill, chan |-> f]
  BY <1>4 DEF IsDraft
<1>6. draft'[t].chan = f /\ draft'[t].bill = draft[t].bill
  BY <1>5
<1>7. IsDraft(draft'[t])
  BY <1>2, <1>5, <1>6 DEF IsDraft
<1>8. Rows(t)' = Rows(t) \cup {d} /\ \A u \in Txns : u # t => Rows(u)' = Rows(u)
  BY <1>2, <1>4, <1>6 DEF Rows
<1>9. Apart'
  BY <1>8 DEF Apart
<1>10. QED
  BY <1>2, <1>4, <1>6, <1>7, <1>9 DEF ChanPut

\* The transaction goes on to its next statement, with what it has read.
LEMMA NextStep ==
  ASSUME TypeOK, NEW t \in Txns, Running(t), NEW b \in Serial!Bill,
         \/ txn' = [txn EXCEPT ![t].step = @ + 1] /\ b = Read(t)
         \/ txn' = [txn EXCEPT ![t].step = @ + 1, ![t].read = b]
  PROVE  /\ txn' \in [Txns -> Txn] /\ Running(t)' /\ txn'[t].step = txn[t].step + 1
         /\ Read(t)' = b /\ \A u \in Txns : u # t => txn'[u] = txn[u]
<1>1. PICK x \in Txn : x = txn[t]
  BY TypesOf
<1>2. PICK n \in Nat : n = x.step
  BY <1>1 DEF Txn
<1>3. PICK y : y = [x EXCEPT !.step = n + 1]
  OBVIOUS
<1>4. y \in Txn /\ y.step = n + 1 /\ y.read = x.read /\ y.result = x.result
  BY <1>1, <1>2, <1>3 DEF Txn
<1>5. PICK z : z = [y EXCEPT !.read = b]
  OBVIOUS
<1>6. z \in Txn /\ z.step = n + 1 /\ z.read = b /\ z.result = x.result
  BY <1>4, <1>5 DEF Txn
<1>7. txn \in [Txns -> Txn] /\ x.result = "open" /\ x.read = Read(t)
  BY <1>1 DEF TypeOK, Running, Read
<1>8. CASE txn' = [txn EXCEPT ![t].step = @ + 1] /\ b = Read(t)
  <2>1. txn' = [txn EXCEPT ![t] = y]
    BY <1>1, <1>2, <1>3, <1>7, <1>8
  <2>2. QED
    BY <1>1, <1>2, <1>4, <1>7, <1>8, <2>1 DEF Running, Read
<1>9. CASE txn' = [txn EXCEPT ![t].step = @ + 1, ![t].read = b]
  <2>1. txn' = [txn EXCEPT ![t] = z]
    BY <1>1, <1>2, <1>3, <1>5, <1>7, <1>9
  <2>2. QED
    BY <1>1, <1>2, <1>6, <1>7, <2>1 DEF Running, Read
<1>10. QED
  BY <1>8, <1>9

LEMMA EndIs ==
  ASSUME TypeOK, DOMAIN draft = Txns, Apart, NEW t \in Txns,
         NEW why \in {"done", "refused", "conflict", "defect", "deadlocked"}, End(t, why)
  PROVE  Alone(t) /\ ~Running(t)' /\ Idle(t)'
<1>1. PICK x \in Txn : x = txn[t]
  BY TypesOf
<1>2. PICK y : y = [x EXCEPT !.result = why]
  OBVIOUS
<1>3. y \in Txn /\ y.result = why
  BY <1>1, <1>2 DEF Txn
<1>4. txn' = [txn EXCEPT ![t] = y] /\ txn \in [Txns -> Txn]
  BY <1>1, <1>2 DEF End, TypeOK
<1>5. /\ txn' \in [Txns -> Txn] /\ txn'[t].result = why
      /\ \A u \in Txns : u # t => txn'[u] = txn[u]
  BY <1>3, <1>4
<1>6. /\ draft'[t] = NoDraft /\ DOMAIN draft' = Txns /\ job' = job
      /\ \A u \in Txns : u # t => draft'[u] = draft[u]
  BY DEF End
<1>7. DOMAIN draft'[t].bill = {} /\ DOMAIN draft'[t].chan = {} /\ IsDraft(draft'[t])
  BY <1>6 DEF NoDraft, IsDraft
<1>8. Rows(t)' = {} /\ \A u \in Txns : u # t => Rows(u)' = Rows(u)
  BY <1>6, <1>7 DEF Rows
<1>9. Apart'
  BY <1>8 DEF Apart
<1>10. ~Running(t)' /\ Idle(t)'
  BY <1>5, <1>7 DEF Running, Idle, Wrote
<1>11. QED
  BY <1>5, <1>6, <1>7, <1>9, <1>10 DEF Alone

\* A row is written and the transaction goes on.
Goes(t, b) ==
  /\ Alone(t) /\ db' = db
  /\ Running(t)' /\ txn'[t].step = txn[t].step + 1 /\ Read(t)' = b

LEMMA ChanWritten ==
  ASSUME IInv, NEW t \in Txns, NEW s, At(t, s), NEW d \in Channels, d = Target(t),
         NEW c, WriteChan(t, c)
  PROVE  /\ Goes(t, Read(t)) /\ Fresh(t)'
         /\ draft'[t].bill = draft[t].bill /\ draft'[t].chan[d] = c
         /\ DOMAIN draft'[t].chan = DOMAIN draft[t].chan \cup {d}
         /\ \A e \in DOMAIN draft[t].chan : e # d => draft'[t].chan[e] = draft[t].chan[e]
<1>1. Read(t) \in Serial!Bill /\ TypeOK /\ DOMAIN draft = Txns /\ Apart
      /\ IsDraft(draft[t]) /\ Fresh(t)
  BY TypesOf DEF IInv, Sound
<1>2. \A u \in Txns : u # t => d \notin Rows(u)
  BY Unblocked DEF At
<1>3. /\ draft' = [draft EXCEPT ![t].chan = Put(@, d, c)] /\ db' = db /\ job' = job
      /\ txn' = [txn EXCEPT ![t].step = @ + 1]
  BY DEF WriteChan
<1>4. ChanPut(t, d, c)
  BY <1>1, <1>2, <1>3, ChanRow, Zenon
<1>5. /\ txn' \in [Txns -> Txn] /\ Running(t)' /\ txn'[t].step = txn[t].step + 1
      /\ Read(t)' = Read(t) /\ \A u \in Txns : u # t => txn'[u] = txn[u]
  BY <1>1, <1>3, NextStep DEF At
<1>6. Fresh(t)'
  BY <1>1, <1>3, <1>5 DEF Fresh, Billed, Request, At
<1>7. QED
  BY <1>3, <1>4, <1>5, <1>6 DEF Goes, Alone, ChanPut

LEMMA BillWritten ==
  ASSUME IInv, NEW t \in Txns, NEW s, At(t, s), Request(t) \in Requests,
         Request(t) = Target(t), NEW b, NEW n \in Serial!Bill,
         draft' = [draft EXCEPT ![t].bill = Put(@, Request(t), b)],
         \/ txn' = [txn EXCEPT ![t].step = @ + 1] /\ n = Read(t)
         \/ txn' = [txn EXCEPT ![t].step = @ + 1, ![t].read = n],
         db' = db, job' = job
  PROVE  /\ Goes(t, n) /\ draft'[t].chan = draft[t].chan
         /\ draft'[t].bill[Request(t)] = b
         /\ DOMAIN draft'[t].bill = DOMAIN draft[t].bill \cup {Request(t)}
<1>1. TypeOK /\ DOMAIN draft = Txns /\ Apart /\ IsDraft(draft[t]) /\ Running(t)
  BY DEF IInv, Sound, At
<1>2. PICK r \in Requests : r = Request(t)
  OBVIOUS
<1>3. \A u \in Txns : u # t => r \notin Rows(u)
  BY <1>2, Unblocked DEF At
<1>4. draft' = [draft EXCEPT ![t].bill = Put(@, r, b)]
  BY <1>2
<1>5. BillPut(t, r, b)
  BY <1>1, <1>3, <1>4, BillRow, Zenon
<1>6. /\ txn' \in [Txns -> Txn] /\ Running(t)' /\ txn'[t].step = txn[t].step + 1
      /\ Read(t)' = n /\ \A u \in Txns : u # t => txn'[u] = txn[u]
  BY <1>1, NextStep
<1>7. QED
  BY <1>2, <1>5, <1>6 DEF Goes, Alone, BillPut

\* The commit of one whole job, or of nothing.
Quiet(t) == Alone(t) /\ Sound(t)' /\ db' = db
Commits(t) ==
  /\ Alone(t) /\ Sound(t)' /\ db' = Serial!After(db, job[t]) /\ Becomes(db, db')
  /\ \A u \in Txns : u # t => SameRows(Rows(u), db, db')

LEMMA AfterEnd ==
  ASSUME IInv, NEW t \in Txns,
         NEW why \in {"done", "refused", "conflict", "defect", "deadlocked"}, End(t, why)
  PROVE  Alone(t) /\ Sound(t)'
<1>1. Alone(t) /\ ~Running(t)' /\ Idle(t)'
  BY EndIs DEF IInv
<1>2. QED
  BY <1>1 DEF Alone, Sound, Place, Fresh

LEMMA NothingWritten ==
  ASSUME IInv, NEW t \in Txns, Idle(t), NEW why \in {"done", "refused"}, CommitAs(t, why)
  PROVE  Quiet(t)
<1>1. PICK x : x = db'
  OBVIOUS
<1>2. x = [bill |-> [r \in Requests |-> BillOf(t, r)], chan |-> [c \in Channels |-> ChanOf(t, c)]]
  BY <1>1 DEF CommitAs
<1>3. \A r \in Requests : BillOf(t, r) = db.bill[r]
  BY DEF Idle, Wrote, BillOf
<1>4. \A c \in Channels : ChanOf(t, c) = db.chan[c]
  BY DEF Idle, Wrote, ChanOf
<1>5. db \in Serial!DbType
  BY DEF IInv, TypeOK
<1>6. db = [bill |-> [r \in Requests |-> db.bill[r]], chan |-> [c \in Channels |-> db.chan[c]]]
  BY <1>5 DEF Serial!DbType
<1>7. x = db
  BY <1>2, <1>3, <1>4, <1>6
<1>8. Alone(t) /\ Sound(t)'
  BY AfterEnd DEF CommitAs
<1>9. QED
  BY <1>1, <1>7, <1>8 DEF Quiet

LEMMA RolledBack ==
  ASSUME IInv, NEW t \in Txns, NEW why \in {"conflict", "defect", "deadlocked"},
         Rollback(t, why)
  PROVE  Quiet(t)
BY AfterEnd DEF Rollback, Quiet

(* The statements.                                                           *)

LEMMA Targets ==
  ASSUME IInv, NEW t \in Txns, NEW s, At(t, s)
  PROVE  /\ AtPlace(t, s) /\ Running(t) /\ job[t] \in Serial!Job /\ Read(t) \in Serial!Bill
         /\ s \in {"increase", "adjust", "recharge"} => Target(t) = job[t].channel
         /\ s = "decrease" => Target(t) = Read(t).channel
         /\ s = "deduct" => Target(t) = Read(t).paid
         /\ s \in {"claim", "release", "succeed", "finalize"} => Target(t) = Request(t)
<1>1. Now(t) = s /\ Running(t) /\ ~Finished(t) /\ TypeOK /\ Sound(t)
  BY DEF At, IInv
<1>2. AtPlace(t, s)
  BY <1>1, AtIs
<1>3. /\ s \in {"increase", "adjust", "recharge"} => Target(t) = job[t].channel
      /\ s = "decrease" => Target(t) = Read(t).channel
      /\ s = "deduct" => Target(t) = Read(t).paid
      /\ s \in {"claim", "release", "succeed", "finalize"} => Target(t) = Request(t)
  BY <1>1 DEF Target, Read, Request
<1>4. QED
  BY <1>1, <1>2, <1>3, TypesOf

LEMMA IncreaseKeeps ==
  ASSUME IInv, NEW t \in Txns, Increase(t)
  PROVE  Quiet(t)
<1>1. At(t, "increase")
  BY DEF Increase
<1>2. /\ Idle(t) /\ job[t].kind = "reserve" /\ Read(t).status = "open"
      /\ ~Serial!Covered(Read(t), job[t]) /\ Target(t) = job[t].channel
      /\ job[t] \in Serial!Job /\ Running(t)
  <2>1. AtPlace(t, "increase") /\ Target(t) = job[t].channel
        /\ job[t] \in Serial!Job /\ Running(t)
    BY <1>1, Targets
  <2>2. QED
    BY <2>1 DEF AtPlace
<1>3. PICK d \in Channels : d = job[t].channel
  BY <1>2, JobIs
<1>4. PICK c : c = ChanOf(t, Target(t))
  OBVIOUS
<1>5. c = db.chan[d] /\ Wrote(t, {}, {}) /\ txn[t].step = 1
  BY <1>2, <1>3, <1>4 DEF Idle, Wrote, ChanOf
<1>6. CASE Fits(t, c)
  <2>1. PICK y : y = Serial!SetAside(c, Serial!Delta(Read(t), job[t]))
    OBVIOUS
  <2>2. WriteChan(t, y)
    BY <1>4, <1>6, <2>1 DEF Increase, Read
  <2>3. d = Target(t)
    BY <1>2, <1>3
  <2>4. /\ Goes(t, Read(t)) /\ Fresh(t)'
        /\ draft'[t].bill = draft[t].bill /\ draft'[t].chan[d] = y
        /\ DOMAIN draft'[t].chan = DOMAIN draft[t].chan \cup {d}
    BY <1>1, <2>2, <2>3, ChanWritten
  <2>5. Raised(t, Read(t))'
    BY <1>3, <1>5, <1>6, <2>1, <2>4 DEF Raised, Goes, Alone, Fits, Read
  <2>6. Wrote(t, {}, {d})' /\ txn'[t].step = 2
    BY <1>5, <2>4 DEF Wrote, Goes
  <2>7. Reserves(t)'
    BY <1>2, <1>3, <2>4, <2>5, <2>6 DEF Reserves, Goes, Alone
  <2>8. QED
    BY <2>4, <2>7 DEF Quiet, Sound, Place, Goes, Alone
<1>7. CASE ~Fits(t, c)
  <2>1. CommitAs(t, "refused")
    BY <1>4, <1>7 DEF Increase
  <2>2. QED
    BY <1>2, <2>1, NothingWritten
<1>8. QED
  BY <1>6, <1>7

LEMMA ClaimKeeps ==
  ASSUME IInv, NEW t \in Txns, Claim(t)
  PROVE  Quiet(t)
<1>1. At(t, "claim")
  BY DEF Claim
<1>2. /\ Reserves(t) /\ Target(t) = Request(t) /\ job[t] \in Serial!Job /\ Running(t)
      /\ \/ txn[t].step = 2 /\ ~Switches(t, Read(t))
         \/ txn[t].step = 3 /\ Switches(t, Read(t))
  <2>1. AtPlace(t, "claim") /\ Target(t) = Request(t) /\ job[t] \in Serial!Job /\ Running(t)
    BY <1>1, Targets
  <2>2. QED
    BY <2>1 DEF AtPlace
<1>3. PICK b : b = BillOf(t, Target(t))
  OBVIOUS
<1>4. job[t].kind = "reserve" /\ Request(t) \in Requests
  BY <1>2, JobIs DEF Reserves, Request
<1>5. b = Billed(t) /\ b \in Serial!Bill
  <2>1. DOMAIN draft[t].bill = {}
    BY <1>2 DEF Reserves, Wrote
  <2>2. b = Billed(t)
    BY <1>2, <1>3, <2>1 DEF BillOf, Billed
  <2>3. QED
    BY <1>4, <2>2, Fields DEF IInv, TypeOK, Billed
<1>6. CASE AsRead(t, b)
  <2>1. PICK n : n = Serial!Claimed(b, job[t])
    OBVIOUS
  <2>2. n \in Serial!Bill
    BY <1>2, <1>4, <1>5, <2>1, ClaimedWrites
  <2>3. WriteBill(t, n)
    BY <1>3, <1>6, <2>1 DEF Claim
  <2>4. /\ Goes(t, n) /\ draft'[t].chan = draft[t].chan
        /\ draft'[t].bill[Request(t)] = n
        /\ DOMAIN draft'[t].bill = DOMAIN draft[t].bill \cup {Request(t)}
    <3>1. draft' = [draft EXCEPT ![t].bill = Put(@, Request(t), n)]
      BY <2>3 DEF WriteBill, Request
    <3>2. txn' = [txn EXCEPT ![t].step = @ + 1, ![t].read = n] /\ db' = db /\ job' = job
      BY <2>3 DEF WriteBill
    <3>3. Request(t) = Target(t)
      BY <1>2
    <3>4. QED
      BY <1>1, <1>4, <2>2, <3>1, <3>2, <3>3, BillWritten
  <2>5. b.status = "open" /\ b.channel = Read(t).channel /\ b.reserved = Read(t).reserved
    BY <1>6 DEF AsRead, Read
  <2>6. Raised(t, b) /\ ~Serial!Covered(b, job[t])
    BY <1>2, <2>5 DEF Reserves, Raised, Serial!Delta, Serial!Covered
  <2>7. Switches(t, b) <=> Switches(t, Read(t))
    BY <2>5 DEF Switches
  <2>8. \/ ~Switches(t, b) /\ Wrote(t, {}, {job[t].channel})
        \/ Switches(t, b) /\ Wrote(t, {}, {job[t].channel, b.channel}) /\ Lowered(t, b)
    BY <1>2, <2>5, <2>7 DEF Reserves, Lowered
  <2>9. db' = db /\ job' = job /\ Request(t)' = Request(t) /\ Billed(t)' = b
    BY <1>5, <2>4 DEF Goes, Alone, Request, Billed
  <2>10. Raised(t, b)' /\ (Switches(t, b)' <=> Switches(t, b)) /\ (Lowered(t, b) => Lowered(t, b)')
    BY <2>4, <2>6, <2>9 DEF Raised, Switches, Lowered
  <2>11. \A C : Wrote(t, {}, C) =>
                 DOMAIN draft'[t].bill = {Request(t)} /\ DOMAIN draft'[t].chan = C
    BY <2>4 DEF Wrote
  <2>12. Claims(t)'
    <3>1. /\ (job[t].kind)' = "reserve" /\ b.status = "open" /\ ~Serial!Covered(b, job'[t])
          /\ Read(t)' = Serial!Claimed(b, job'[t]) /\ draft'[t].bill[Request(t)] = Read(t)'
      BY <1>4, <2>1, <2>4, <2>5, <2>6, <2>9 DEF Goes
    <3>2. DOMAIN draft'[t].bill = {Request(t)}
          /\ \/ ~Switches(t, b)' /\ DOMAIN draft'[t].chan = {job'[t].channel}
             \/ /\ Switches(t, b)' /\ DOMAIN draft'[t].chan = {job'[t].channel, b.channel}
                /\ Lowered(t, b)'
      BY <2>8, <2>9, <2>10, <2>11
    <3>3. QED
      BY <2>9, <2>10, <3>1, <3>2 DEF Claims, Wrote
  <2>13. Fresh(t)'
    BY <1>4, <2>9 DEF Fresh
  <2>14. QED
    BY <2>4, <2>12, <2>13 DEF Quiet, Sound, Place, Goes, Alone
<1>7. CASE ~AsRead(t, b)
  BY <1>3, <1>7, RolledBack DEF Claim
<1>8. QED
  BY <1>6, <1>7

LEMMA DecreaseKeeps ==
  ASSUME IInv, NEW t \in Txns, Decrease(t)
  PROVE  Quiet(t)
<1>1. At(t, "decrease")
  BY DEF Decrease
<1>2. PICK b \in Serial!Bill : b = Read(t)
  BY TypesOf DEF IInv
<1>3. /\ AtPlace(t, "decrease") /\ Target(t) = b.channel /\ job[t] \in Serial!Job
      /\ Running(t)
  BY <1>1, <1>2, Targets
<1>4. \/ Reserves(t) /\ txn[t].step = 2 /\ Switches(t, b)
      \/ Releases(t) /\ txn[t].step = 2 /\ b.channel # None
      \/ /\ Idle(t) /\ job[t].kind = "settle"
         /\ b.status = "pending" /\ Serial!Accepted(b) /\ b.channel # None
  BY <1>2, <1>3 DEF AtPlace
<1>5. PICK d \in Channels : d = b.channel
  BY <1>2, <1>4, Fields DEF Switches
<1>6. /\ d \notin DOMAIN draft[t].chan
      /\ DOMAIN draft[t].chan \subseteq {job[t].channel}
  BY <1>4, <1>5 DEF Reserves, Releases, Idle, Wrote, Switches
<1>7. PICK c : c = ChanOf(t, Target(t))
  OBVIOUS
<1>8. c = db.chan[d]
  BY <1>3, <1>5, <1>6, <1>7 DEF ChanOf
<1>9. CASE c.reserved >= b.reserved
  <2>1. PICK y : y = Serial!GivenBack(c, b.reserved)
    OBVIOUS
  <2>2. WriteChan(t, y)
    BY <1>2, <1>7, <1>9, <2>1 DEF Decrease, Read
  <2>3. d = Target(t)
    BY <1>3, <1>5
  <2>4. /\ Goes(t, Read(t)) /\ Fresh(t)'
        /\ draft'[t].bill = draft[t].bill /\ draft'[t].chan[d] = y
        /\ DOMAIN draft'[t].chan = DOMAIN draft[t].chan \cup {d}
        /\ \A e \in DOMAIN draft[t].chan : e # d => draft'[t].chan[e] = draft[t].chan[e]
    BY <1>1, <2>2, <2>3, ChanWritten
  <2>5. /\ db' = db /\ job' = job /\ Request(t)' = Request(t) /\ Billed(t)' = Billed(t)
        /\ Read(t)' = b /\ Running(t)' /\ txn'[t].step = txn[t].step + 1
    BY <1>2, <2>4 DEF Goes, Alone, Request, Billed
  <2>6. Lowered(t, b)'
    BY <1>5, <1>8, <1>9, <2>1, <2>4, <2>5 DEF Lowered
  <2>7. Place(t)'
    <3>1. CASE Reserves(t) /\ txn[t].step = 2 /\ Switches(t, b)
      <4>1. PICK e : e = job[t].channel
        OBVIOUS
      <4>2. /\ job[t].kind = "reserve" /\ b.status = "open" /\ ~Serial!Covered(b, job[t])
            /\ Raised(t, b) /\ Wrote(t, {}, {e}) /\ e # d
        BY <1>2, <1>5, <3>1, <4>1 DEF Reserves, Switches
      <4>3. draft'[t].chan[e] = draft[t].chan[e]
        BY <2>4, <4>2 DEF Wrote
      <4>4. Raised(t, b)'
        BY <2>5, <4>1, <4>2, <4>3 DEF Raised
      <4>5. Wrote(t, {}, {e, d})' /\ Switches(t, b)' /\ txn'[t].step = 3
        BY <2>4, <2>5, <3>1, <4>2 DEF Wrote, Switches
      <4>6. Reserves(t)'
        BY <1>5, <2>5, <2>6, <4>1, <4>2, <4>4, <4>5 DEF Reserves
      <4>7. QED
        BY <2>5, <4>6 DEF Place
    <3>2. CASE Releases(t) /\ txn[t].step = 2 /\ b.channel # None
      <4>1. PICK r : r = Request(t)
        OBVIOUS
      <4>2. PICK o : o = Billed(t)
        OBVIOUS
      <4>3. /\ job[t].kind = "fail" /\ o.status = "open"
            /\ b = Serial!As(o, "released") /\ draft[t].bill[r] = b
            /\ Wrote(t, {r}, {})
        BY <1>2, <3>2, <4>1, <4>2 DEF Releases
      <4>4. o \in Serial!Bill
        BY <1>3, <4>2, <4>3, JobIs, Fields DEF IInv, TypeOK, Billed, Request
      <4>5. o.channel = b.channel /\ o.reserved = b.reserved
        <5>1. /\ Serial!As(o, "released").channel = o.channel
              /\ Serial!As(o, "released").reserved = o.reserved
          BY <4>4, AsWrites
        <5>2. QED
          BY <4>3, <5>1
      <4>6. Lowered(t, o)'
        BY <2>6, <4>5 DEF Lowered
      <4>7. Wrote(t, {r}, {d})' /\ txn'[t].step = 3
        BY <2>4, <2>5, <3>2, <4>3 DEF Wrote
      <4>8. Releases(t)'
        BY <1>5, <2>4, <2>5, <3>2, <4>1, <4>2, <4>3, <4>5, <4>6, <4>7 DEF Releases
      <4>9. QED
        BY <2>5, <4>8 DEF Place
    <3>3. CASE /\ Idle(t) /\ job[t].kind = "settle"
               /\ b.status = "pending" /\ Serial!Accepted(b) /\ b.channel # None
      <4>1. Wrote(t, {}, {d})' /\ txn'[t].step = 2
        BY <1>3, <2>4, <2>5, <3>3 DEF Idle, Wrote
      <4>2. Returns(t)'
        BY <1>5, <2>5, <2>6, <3>3, <4>1 DEF Returns
      <4>3. QED
        BY <2>5, <4>2 DEF Place
    <3>4. QED
      BY <1>4, <3>1, <3>2, <3>3
  <2>8. QED
    BY <2>4, <2>7 DEF Quiet, Sound, Goes, Alone
<1>10. CASE ~(c.reserved >= b.reserved)
  <2>1. Rollback(t, "defect")
    BY <1>2, <1>7, <1>10 DEF Decrease, Read
  <2>2. QED
    BY <2>1, RolledBack
<1>11. QED
  BY <1>9, <1>10

LEMMA ReleaseKeeps ==
  ASSUME IInv, NEW t \in Txns, Release(t)
  PROVE  Quiet(t)
<1>1. At(t, "release")
  BY DEF Release
<1>2. /\ Idle(t) /\ job[t].kind = "fail" /\ Target(t) = Request(t)
      /\ job[t] \in Serial!Job /\ Running(t)
  <2>1. AtPlace(t, "release") /\ Target(t) = Request(t) /\ job[t] \in Serial!Job /\ Running(t)
    BY <1>1, Targets
  <2>2. QED
    BY <2>1 DEF AtPlace
<1>3. PICK r \in Requests : r = Request(t)
  BY <1>2, JobIs DEF Request
<1>4. PICK b : b = BillOf(t, Target(t))
  OBVIOUS
<1>5. b = Billed(t) /\ b \in Serial!Bill /\ Wrote(t, {}, {}) /\ txn[t].step = 1
  <2>1. Wrote(t, {}, {}) /\ txn[t].step = 1
    BY <1>2 DEF Idle
  <2>2. b = Billed(t)
    BY <1>2, <1>4, <2>1 DEF Wrote, BillOf, Billed
  <2>3. QED
    BY <1>3, <2>1, <2>2, Fields DEF IInv, TypeOK, Billed
<1>6. CASE b.status = "open"
  <2>1. PICK n : n = Serial!As(b, "released")
    OBVIOUS
  <2>2. n \in Serial!Bill
    BY <1>5, <2>1, AsWrites
  <2>3. WriteBill(t, n)
    BY <1>4, <1>6, <2>1 DEF Release
  <2>4. /\ Goes(t, n) /\ draft'[t].chan = draft[t].chan
        /\ draft'[t].bill[Request(t)] = n
        /\ DOMAIN draft'[t].bill = DOMAIN draft[t].bill \cup {Request(t)}
    <3>1. draft' = [draft EXCEPT ![t].bill = Put(@, Request(t), n)]
      BY <2>3 DEF WriteBill, Request
    <3>2. txn' = [txn EXCEPT ![t].step = @ + 1, ![t].read = n] /\ db' = db /\ job' = job
      BY <2>3 DEF WriteBill
    <3>3. Request(t) = Target(t) /\ Request(t) \in Requests
      BY <1>2, <1>3
    <3>4. QED
      BY <1>1, <2>2, <3>1, <3>2, <3>3, BillWritten
  <2>5. /\ db' = db /\ job' = job /\ Request(t)' = r /\ Billed(t)' = b /\ Read(t)' = n
        /\ Running(t)' /\ txn'[t].step = 2
    BY <1>3, <1>5, <2>4 DEF Goes, Alone, Request, Billed
  <2>6. Wrote(t, {r}, {})'
    BY <1>3, <1>5, <2>4 DEF Wrote
  <2>7. Releases(t)'
    BY <1>2, <1>3, <1>6, <2>1, <2>4, <2>5, <2>6 DEF Releases
  <2>8. Fresh(t)'
    BY <1>2, <2>5 DEF Fresh
  <2>9. QED
    BY <2>4, <2>7, <2>8 DEF Quiet, Sound, Place, Goes, Alone
<1>7. CASE b.status # "open"
  <2>1. CommitAs(t, "refused")
    BY <1>4, <1>7 DEF Release
  <2>2. QED
    BY <1>2, <2>1, NothingWritten
<1>8. QED
  BY <1>6, <1>7

LEMMA SucceedKeeps ==
  ASSUME IInv, NEW t \in Txns, Succeed(t)
  PROVE  Quiet(t)
<1>1. At(t, "succeed")
  BY DEF Succeed
<1>2. /\ Idle(t) /\ job[t].kind = "succeed" /\ Target(t) = Request(t)
      /\ job[t] \in Serial!Job /\ Running(t)
  <2>1. AtPlace(t, "succeed") /\ Target(t) = Request(t) /\ job[t] \in Serial!Job /\ Running(t)
    BY <1>1, Targets
  <2>2. QED
    BY <2>1 DEF AtPlace
<1>3. PICK r \in Requests : r = Request(t)
  BY <1>2, JobIs DEF Request
<1>4. PICK b : b = BillOf(t, Target(t))
  OBVIOUS
<1>5. b = Billed(t) /\ b \in Serial!Bill /\ Wrote(t, {}, {}) /\ txn[t].step = 1
  <2>1. Wrote(t, {}, {}) /\ txn[t].step = 1
    BY <1>2 DEF Idle
  <2>2. b = Billed(t)
    BY <1>2, <1>4, <2>1 DEF Wrote, BillOf, Billed
  <2>3. QED
    BY <1>3, <2>1, <2>2, Fields DEF IInv, TypeOK, Billed
<1>6. CASE b.status = "open"
  <2>1. PICK n : n = Serial!WithReceipt(b, job[t])
    OBVIOUS
  <2>2. n \in Serial!Bill
    BY <1>2, <1>5, <2>1, ReceiptWrites
  <2>3. WriteBill(t, n)
    BY <1>4, <1>6, <2>1 DEF Succeed
  <2>4. /\ Goes(t, n) /\ draft'[t].chan = draft[t].chan
        /\ draft'[t].bill[Request(t)] = n
        /\ DOMAIN draft'[t].bill = DOMAIN draft[t].bill \cup {Request(t)}
    <3>1. draft' = [draft EXCEPT ![t].bill = Put(@, Request(t), n)]
      BY <2>3 DEF WriteBill, Request
    <3>2. txn' = [txn EXCEPT ![t].step = @ + 1, ![t].read = n] /\ db' = db /\ job' = job
      BY <2>3 DEF WriteBill
    <3>3. Request(t) = Target(t) /\ Request(t) \in Requests
      BY <1>2, <1>3
    <3>4. QED
      BY <1>1, <2>2, <3>1, <3>2, <3>3, BillWritten
  <2>5. /\ db' = db /\ job' = job /\ Request(t)' = r /\ Billed(t)' = b /\ Read(t)' = n
        /\ Running(t)' /\ txn'[t].step = 2
    BY <1>3, <1>5, <2>4 DEF Goes, Alone, Request, Billed
  <2>6. Wrote(t, {r}, {})'
    BY <1>3, <1>5, <2>4 DEF Wrote
  <2>7. Succeeds(t)'
    BY <1>2, <1>3, <1>6, <2>1, <2>4, <2>5, <2>6 DEF Succeeds
  <2>8. Fresh(t)'
    BY <1>2, <2>5 DEF Fresh
  <2>9. QED
    BY <2>4, <2>7, <2>8 DEF Quiet, Sound, Place, Goes, Alone
<1>7. CASE b.status # "open"
  <2>1. CommitAs(t, "refused")
    BY <1>4, <1>7 DEF Succeed
  <2>2. QED
    BY <1>2, <2>1, NothingWritten
<1>8. QED
  BY <1>6, <1>7

LEMMA FinalizeKeeps ==
  ASSUME IInv, NEW t \in Txns, Finalize(t)
  PROVE  Quiet(t)
<1>1. At(t, "finalize")
  BY DEF Finalize
<1>2. PICK b \in Serial!Bill : b = Read(t)
  BY TypesOf DEF IInv
<1>3. /\ AtPlace(t, "finalize") /\ Target(t) = Request(t) /\ job[t] \in Serial!Job
      /\ Running(t)
  BY <1>1, Targets
<1>4. \/ /\ Idle(t) /\ b.channel = None /\ job[t].kind = "settle"
         /\ b.status = "pending" /\ Serial!Accepted(b)
      \/ Returns(t)
  BY <1>2, <1>3 DEF AtPlace
<1>5. /\ job[t].kind = "settle" /\ b.status = "pending" /\ Serial!Accepted(b)
      /\ DOMAIN draft[t].bill = {}
      /\ \/ txn[t].step = 1 /\ b.channel = None /\ DOMAIN draft[t].chan = {}
         \/ /\ txn[t].step = 2 /\ b.channel # None
            /\ DOMAIN draft[t].chan = {b.channel} /\ Lowered(t, b)
  BY <1>2, <1>3, <1>4 DEF Idle, Returns, Wrote
<1>6. PICK r \in Requests : r = Request(t)
  BY <1>3, <1>5, JobIs DEF Request
<1>7. BillOf(t, Target(t)) = Billed(t)
  BY <1>3, <1>5 DEF BillOf, Billed
<1>8. CASE Billed(t).status = "pending"
  <2>1. Billed(t) = b
    BY <1>2, <1>3, <1>5, <1>8 DEF IInv, Sound, Fresh
  <2>2. PICK n : n = Serial!As(b, "settled")
    OBVIOUS
  <2>3. /\ draft' = [draft EXCEPT ![t].bill = Put(@, Request(t), n)]
        /\ txn' = [txn EXCEPT ![t].step = @ + 1] /\ db' = db /\ job' = job
    BY <1>3, <1>7, <1>8, <2>1, <2>2 DEF Finalize
  <2>4. /\ Goes(t, b) /\ draft'[t].chan = draft[t].chan
        /\ draft'[t].bill[Request(t)] = n
        /\ DOMAIN draft'[t].bill = DOMAIN draft[t].bill \cup {Request(t)}
    <3>1. draft' = [draft EXCEPT ![t].bill = Put(@, Request(t), n)]
      BY <2>3
    <3>2. txn' = [txn EXCEPT ![t].step = @ + 1] /\ b = Read(t) /\ db' = db /\ job' = job
      BY <1>2, <2>3
    <3>3. Request(t) = Target(t) /\ Request(t) \in Requests
      BY <1>3, <1>6
    <3>4. QED
      BY <1>1, <3>1, <3>2, <3>3, BillWritten
  <2>5. /\ db' = db /\ job' = job /\ Request(t)' = r /\ Billed(t)' = b /\ Read(t)' = b
        /\ Running(t)' /\ txn'[t].step = txn[t].step + 1
    BY <1>6, <2>1, <2>4 DEF Goes, Alone, Request, Billed
  <2>6. DOMAIN draft'[t].bill = {r} /\ draft'[t].bill[r] = n
    BY <1>5, <1>6, <2>4
  <2>7. Lowered(t, b) => Lowered(t, b)'
    BY <2>4, <2>5 DEF Lowered
  <2>8. \/ /\ txn'[t].step = 2 /\ b.channel = None /\ DOMAIN draft'[t].chan = {}
        \/ /\ txn'[t].step = 3 /\ b.channel # None
           /\ DOMAIN draft'[t].chan = {b.channel} /\ Lowered(t, b)'
    BY <1>5, <2>4, <2>5, <2>7
  <2>9. Finalizes(t)'
    BY <1>5, <2>2, <2>5, <2>6, <2>8 DEF Finalizes, Wrote
  <2>10. Fresh(t)'
    BY <1>2, <1>3, <1>5, <2>5 DEF Fresh, IInv, Sound
  <2>11. QED
    BY <2>4, <2>9, <2>10 DEF Quiet, Sound, Place, Goes, Alone
<1>9. CASE Billed(t).status # "pending"
  BY <1>7, <1>9, RolledBack DEF Finalize
<1>10. QED
  BY <1>8, <1>9

LEMMA DeductKeeps ==
  ASSUME IInv, NEW t \in Txns, Deduct(t)
  PROVE  Quiet(t)
<1>1. At(t, "deduct")
  BY DEF Deduct
<1>2. PICK b \in Serial!Bill : b = Read(t)
  BY TypesOf DEF IInv
<1>3. /\ AtPlace(t, "deduct") /\ Target(t) = b.paid /\ job[t] \in Serial!Job /\ Running(t)
  BY <1>1, <1>2, Targets
<1>4. Finalizes(t)
  BY <1>3 DEF AtPlace
<1>5. /\ job[t].kind = "settle" /\ b.status = "pending" /\ Serial!Accepted(b)
      /\ Billed(t) = b /\ draft[t].bill[Request(t)] = Serial!As(b, "settled")
      /\ DOMAIN draft[t].bill = {Request(t)}
      /\ \/ txn[t].step = 2 /\ b.channel = None /\ DOMAIN draft[t].chan = {}
         \/ /\ txn[t].step = 3 /\ b.channel # None
            /\ DOMAIN draft[t].chan = {b.channel} /\ Lowered(t, b)
  BY <1>2, <1>4 DEF Finalizes, Wrote
<1>6. PICK d \in Channels : d = b.paid
  BY <1>2, <1>3, <1>5 DEF IInv, Sound, Fresh
<1>7. b.channel # None => b.channel = d
  BY <1>5, <1>6 DEF Serial!Accepted
<1>8. PICK c : c = ChanOf(t, Target(t))
  OBVIOUS
<1>9. c = IF b.channel = None THEN db.chan[d] ELSE Serial!GivenBack(db.chan[d], b.reserved)
  BY <1>3, <1>5, <1>6, <1>7, <1>8 DEF ChanOf, Lowered
<1>10. PICK y : y = Serial!Deducted(c, b.cost)
  OBVIOUS
<1>11. WriteChan(t, y)
  BY <1>2, <1>8, <1>10 DEF Deduct, Read
<1>12. d = Target(t)
  BY <1>3, <1>6
<1>13. /\ Goes(t, Read(t)) /\ Fresh(t)'
       /\ draft'[t].bill = draft[t].bill /\ draft'[t].chan[d] = y
       /\ DOMAIN draft'[t].chan = DOMAIN draft[t].chan \cup {d}
  BY <1>1, <1>11, <1>12, ChanWritten
<1>14. /\ db' = db /\ job' = job /\ Request(t)' = Request(t) /\ Billed(t)' = b
       /\ Read(t)' = b /\ Running(t)' /\ txn'[t].step = txn[t].step + 1
  BY <1>2, <1>5, <1>13 DEF Goes, Alone, Request, Billed
<1>15. DOMAIN draft'[t].chan = {d}
  BY <1>5, <1>7, <1>13
<1>16. \/ /\ txn'[t].step = 3 /\ b.channel = None
          /\ draft'[t].chan[d] = Serial!Deducted(db.chan[d], b.cost)
       \/ /\ txn'[t].step = 4 /\ b.channel # None
          /\ draft'[t].chan[d] =
               Serial!Deducted(Serial!GivenBack(db.chan[d], b.reserved), b.cost)
  BY <1>5, <1>9, <1>10, <1>13, <1>14
<1>17. Pays(t)'
  BY <1>5, <1>6, <1>13, <1>14, <1>15, <1>16 DEF Pays, Wrote
<1>18. QED
  BY <1>13, <1>14, <1>17 DEF Quiet, Sound, Place, Goes, Alone

LEMMA AdjustKeeps ==
  ASSUME IInv, NEW t \in Txns, Adjust(t) \/ Recharge(t)
  PROVE  Quiet(t)
<1>1. PICK s : s \in {"adjust", "recharge"} /\ At(t, s)
               /\ (s = "adjust" => Adjust(t)) /\ (s = "recharge" => Recharge(t))
  BY DEF Adjust, Recharge
<1>2. /\ Idle(t) /\ job[t].kind = s /\ Target(t) = job[t].channel
      /\ job[t] \in Serial!Job /\ Running(t)
  <2>1. AtPlace(t, s) /\ Target(t) = job[t].channel /\ job[t] \in Serial!Job /\ Running(t)
    BY <1>1, Targets
  <2>2. QED
    BY <1>1, <2>1 DEF AtPlace
<1>3. PICK d \in Channels : d = job[t].channel
  BY <1>1, <1>2, JobIs
<1>4. PICK c : c = ChanOf(t, Target(t))
  OBVIOUS
<1>5. c = db.chan[d] /\ Wrote(t, {}, {}) /\ txn[t].step = 1 /\ Read(t) = NoBill
  BY <1>1, <1>2, <1>3, <1>4 DEF Idle, Wrote, ChanOf
<1>6. CASE s = "recharge" \/ c.budget + job[t].amount >= 0
  <2>1. PICK y : y = IF s = "adjust" THEN Serial!Adjusted(c, job[t].amount)
                     ELSE Serial!Recharged(c, job[t].amount)
    OBVIOUS
  <2>2. WriteChan(t, y)
    <3>1. CASE s = "adjust"
      BY <1>1, <1>4, <1>6, <2>1, <3>1 DEF Adjust
    <3>2. CASE s = "recharge"
      BY <1>1, <1>4, <2>1, <3>2 DEF Recharge
    <3>3. QED
      BY <1>1, <3>1, <3>2
  <2>3. d = Target(t)
    BY <1>2, <1>3
  <2>4. /\ Goes(t, Read(t)) /\ Fresh(t)'
        /\ draft'[t].bill = draft[t].bill /\ draft'[t].chan[d] = y
        /\ DOMAIN draft'[t].chan = DOMAIN draft[t].chan \cup {d}
    BY <1>1, <2>2, <2>3, ChanWritten
  <2>5. /\ db' = db /\ job' = job /\ Read(t)' = NoBill /\ Running(t)' /\ txn'[t].step = 2
    BY <1>5, <2>4 DEF Goes, Alone
  <2>6. Wrote(t, {}, {d})'
    BY <1>5, <2>4 DEF Wrote
  <2>7. Budgets(t)'
    BY <1>1, <1>2, <1>3, <1>5, <1>6, <2>1, <2>4, <2>5, <2>6 DEF Budgets
  <2>8. QED
    BY <2>4, <2>7 DEF Quiet, Sound, Place, Goes, Alone
<1>7. CASE ~(s = "recharge" \/ c.budget + job[t].amount >= 0)
  <2>1. CommitAs(t, "refused")
    BY <1>1, <1>4, <1>7 DEF Adjust
  <2>2. QED
    BY <1>2, <2>1, NothingWritten
<1>8. QED
  BY <1>6, <1>7

LEMMA BeginKeeps ==
  ASSUME IInv, NEW t \in Txns, Begin(t)
  PROVE  Quiet(t)
<1>1. TypeOK /\ DOMAIN draft = Txns /\ Apart /\ Sound(t) /\ BooksOf(db)
  BY DEF IInv
<1>2. job[t] \in Serial!Job /\ txn \in [Txns -> Txn]
  BY <1>1, TypesOf
<1>3. PICK b : b = IF job[t].kind \in {"reserve", "settle"}
                   THEN db.bill[job[t].request] ELSE NoBill
  OBVIOUS
<1>4. b \in Serial!Bill
  <2>1. CASE job[t].kind \in {"reserve", "settle"}
    BY <1>1, <1>2, <1>3, <2>1, JobIs, Fields DEF TypeOK
  <2>2. CASE job[t].kind \notin {"reserve", "settle"}
    BY <1>3, <2>2 DEF NoBill, Serial!Bill
  <2>3. QED
    BY <2>1, <2>2
<1>5. PICK x \in Txn : x = txn[t]
  BY <1>2
<1>6. PICK y : y = [x EXCEPT !.step = 1]
  OBVIOUS
<1>7. y \in Txn /\ y.step = 1 /\ y.result = x.result
  BY <1>6 DEF Txn
<1>8. PICK z : z = [y EXCEPT !.read = b]
  OBVIOUS
<1>9. z \in Txn /\ z.step = 1 /\ z.read = b /\ z.result = x.result
  BY <1>4, <1>7, <1>8 DEF Txn
<1>10. txn' = [txn EXCEPT ![t] = z] /\ db' = db /\ draft' = draft /\ job' = job
       /\ x.result = "open" /\ x.step = 0
  BY <1>2, <1>3, <1>5, <1>6, <1>8 DEF Begin
<1>11. /\ txn' \in [Txns -> Txn] /\ txn'[t] = z
       /\ \A u \in Txns : u # t => txn'[u] = txn[u]
  BY <1>2, <1>9, <1>10
<1>12. Running(t)' /\ txn'[t].step = 1 /\ Read(t)' = b
  BY <1>9, <1>10, <1>11 DEF Running, Read
<1>13. Alone(t)
  BY <1>1, <1>10, <1>11 DEF Alone, Sound, IsDraft, Apart, Rows
<1>14. Wrote(t, {}, {})
  BY <1>1, <1>5, <1>10 DEF Sound, Place, Running, Idle
<1>15. Idle(t)'
  BY <1>3, <1>10, <1>12, <1>14 DEF Idle, Wrote
<1>16. Fresh(t)'
  <2>1. job[t].kind = "settle" => b = Billed(t)' /\ Request(t) \in Requests /\ b = db.bill[Request(t)]
    BY <1>2, <1>3, <1>10, JobIs DEF Billed, Request
  <2>2. \A r \in Requests : db.bill[r].status = "pending" => db.bill[r].paid \in Channels
    BY <1>1 DEF BooksOf, Receipted
  <2>3. QED
    BY <1>10, <1>12, <2>1, <2>2 DEF Fresh
<1>17. QED
  BY <1>10, <1>13, <1>15, <1>16 DEF Quiet, Sound, Place, Alone

LEMMA DeadlockKeeps ==
  ASSUME IInv, NEW t \in Txns, Deadlock(t)
  PROVE  Quiet(t)
<1>1. CASE MayRunAgain(t)
  <2>1. /\ txn' = [txn EXCEPT ![t] = [NewTxn EXCEPT !.runs = NextRun(t)]]
        /\ draft' = [draft EXCEPT ![t] = NoDraft] /\ db' = db /\ job' = job
    BY <1>1 DEF Deadlock
  <2>2. TypeOK /\ DOMAIN draft = Txns /\ Apart
    BY DEF IInv
  <2>3. txn \in [Txns -> Txn] /\ txn[t].runs \in 1..MaxTries
    BY <2>2, TypesOf
  <2>4. NextRun(t) \in 1..MaxTries
    BY <1>1, <2>3, TriesAssumption DEF MayRunAgain, NextRun
  <2>5. NoBill \in Serial!Bill
    BY DEF NoBill, Serial!Bill
  <2>6. PICK z : z = [NewTxn EXCEPT !.runs = NextRun(t)]
    OBVIOUS
  <2>7. z \in Txn /\ z.step = 0
    BY <2>4, <2>5, <2>6 DEF NewTxn, Txn
  <2>8. /\ txn' \in [Txns -> Txn] /\ txn'[t] = z
        /\ \A u \in Txns : u # t => txn'[u] = txn[u]
    BY <2>1, <2>3, <2>6, <2>7
  <2>9. /\ draft'[t] = NoDraft /\ DOMAIN draft' = Txns
        /\ \A u \in Txns : u # t => draft'[u] = draft[u]
    BY <2>1, <2>2
  <2>10. DOMAIN draft'[t].bill = {} /\ DOMAIN draft'[t].chan = {} /\ IsDraft(draft'[t])
    BY <2>9 DEF NoDraft, IsDraft
  <2>11. Rows(t)' = {} /\ \A u \in Txns : u # t => Rows(u)' = Rows(u)
    BY <2>9, <2>10 DEF Rows
  <2>12. Apart'
    BY <2>2, <2>11 DEF Apart
  <2>13. Alone(t)
    BY <2>1, <2>8, <2>9, <2>10, <2>12 DEF Alone
  <2>14. ~Running(t)'
    BY <2>7, <2>8 DEF Running
  <2>15. Idle(t)' /\ Fresh(t)'
    BY <2>10, <2>14 DEF Idle, Wrote, Fresh
  <2>16. QED
    BY <2>1, <2>10, <2>13, <2>15 DEF Quiet, Sound, Place
<1>2. CASE ~MayRunAgain(t)
  BY <1>2, RolledBack DEF Deadlock
<1>3. QED
  BY <1>1, <1>2

-----------------------------------------------------------------------------
(* The commit.                                                               *)

LEMMA CommitIs ==
  ASSUME IInv, NEW t \in Txns, CommitAs(t, "done"),
         NEW y \in Serial!DbType, y = Serial!After(db, job[t]), Becomes(db, y),
         \A r \in Requests : BillOf(t, r) = y.bill[r],
         \A c \in Channels : ChanOf(t, c) = y.chan[c]
  PROVE  Commits(t)
<1>1. PICK x : x = db'
  OBVIOUS
<1>2. x = [bill |-> [r \in Requests |-> BillOf(t, r)], chan |-> [c \in Channels |-> ChanOf(t, c)]]
  BY <1>1 DEF CommitAs
<1>3. y = [bill |-> [r \in Requests |-> y.bill[r]], chan |-> [c \in Channels |-> y.chan[c]]]
  BY DEF Serial!DbType
<1>4. x = y
  BY <1>2, <1>3
<1>5. ASSUME NEW u \in Txns, u # t PROVE SameRows(Rows(u), db, y)
  <2>1. Rows(t) \cap Rows(u) = {}
    BY <1>5 DEF IInv, Apart
  <2>2. ASSUME NEW r \in Requests \cap Rows(u) PROVE y.bill[r] = db.bill[r]
    BY <2>1 DEF Rows, BillOf
  <2>3. ASSUME NEW c \in Channels \cap Rows(u) PROVE y.chan[c] = db.chan[c]
    BY <2>1 DEF Rows, ChanOf
  <2>4. QED
    BY <2>2, <2>3 DEF SameRows
<1>6. Alone(t) /\ Sound(t)'
  BY AfterEnd DEF CommitAs
<1>7. QED
  BY <1>1, <1>4, <1>5, <1>6 DEF Commits

LEMMA FinishKeeps ==
  ASSUME IInv, NEW t \in Txns, Finish(t)
  PROVE  Quiet(t) \/ Commits(t)
<1>1. CommitAs(t, "done") /\ Finished(t) /\ Complete(t) /\ BooksOf(db) /\ TypeOK
  BY FinishedIs DEF Finish, IInv
<1>2. PICK j \in Serial!Job : j = job[t]
  BY <1>1, TypesOf
<1>3. PICK y : y = Serial!After(db, j)
  OBVIOUS
<1>4. CASE Idle(t)
  BY <1>1, <1>4, NothingWritten
<1>5. CASE Claims(t)
  <2>1. PICK b : b = Billed(t)
    OBVIOUS
  <2>2. /\ j.kind = "reserve" /\ b.status = "open" /\ ~Serial!Covered(b, j) /\ Raised(t, b)
        /\ draft[t].bill[Request(t)] = Serial!Claimed(b, j)
        /\ \/ ~Switches(t, b) /\ Wrote(t, {Request(t)}, {j.channel})
           \/ Switches(t, b) /\ Wrote(t, {Request(t)}, {j.channel, b.channel}) /\ Lowered(t, b)
    BY <1>2, <1>5, <2>1 DEF Claims
  <2>3. Request(t) = j.request /\ b = db.bill[j.request]
    BY <1>2, <2>1 DEF Billed, Request
  <2>4. ReserveFits(db, j)
    BY <1>2, <2>2, <2>3 DEF ReserveFits, Raised
  <2>5. y = Serial!Reserve(db, j)
    BY <1>3, <2>2 DEF Serial!After
  <2>6. /\ y \in Serial!DbType
        /\ \A q \in Requests :
             y.bill[q] = IF q = j.request THEN Serial!Claimed(b, j) ELSE db.bill[q]
        /\ \A c \in Channels : y.chan[c] =
             IF c = j.channel THEN Serial!SetAside(db.chan[c], Serial!Delta(b, j))
             ELSE IF c = b.channel THEN Serial!GivenBack(db.chan[c], b.reserved)
             ELSE db.chan[c]
        /\ Becomes(db, y)
    <3>1. ReserveLeaves(db, j, b, y)
      BY <1>1, <2>2, <2>3, <2>4, <2>5, ReserveIs
    <3>2. QED
      BY <3>1 DEF ReserveLeaves
  <2>7. ASSUME NEW r \in Requests PROVE BillOf(t, r) = y.bill[r]
    BY <2>2, <2>3, <2>6 DEF BillOf, Wrote
  <2>8. ASSUME NEW c \in Channels PROVE ChanOf(t, c) = y.chan[c]
    <3>1. c # None
      BY NamesAssumption
    <3>2. CASE c = j.channel
      <4>1. c \in DOMAIN draft[t].chan
        BY <2>2, <3>2 DEF Wrote
      <4>2. draft[t].chan[c] = Serial!SetAside(db.chan[c], Serial!Delta(b, j))
        BY <1>2, <2>2, <3>2 DEF Raised
      <4>3. QED
        BY <2>6, <3>2, <4>1, <4>2 DEF ChanOf
    <3>3. CASE c # j.channel /\ c = b.channel
      <4>1. Switches(t, b)
        BY <1>2, <3>1, <3>3 DEF Switches
      <4>2. c \in DOMAIN draft[t].chan /\ draft[t].chan[c] = Serial!GivenBack(db.chan[c], b.reserved)
        BY <2>2, <3>3, <4>1 DEF Wrote, Lowered
      <4>3. QED
        BY <2>6, <3>3, <4>2 DEF ChanOf
    <3>4. CASE c # j.channel /\ c # b.channel
      BY <2>2, <2>6, <3>4 DEF ChanOf, Wrote
    <3>5. QED
      BY <3>2, <3>3, <3>4
  <2>9. QED
    BY <1>1, <1>2, <1>3, <2>6, <2>7, <2>8, CommitIs
<1>6. CASE Releases(t) /\ (txn[t].step = 2 => Billed(t).channel = None)
  <2>1. PICK b : b = Billed(t)
    OBVIOUS
  <2>2. /\ j.kind = "fail" /\ b.status = "open"
        /\ draft[t].bill[Request(t)] = Serial!As(b, "released")
        /\ \/ b.channel = None /\ Wrote(t, {Request(t)}, {})
           \/ Wrote(t, {Request(t)}, {b.channel}) /\ Lowered(t, b)
    BY <1>2, <1>6, <2>1 DEF Releases
  <2>3. Request(t) = j.request /\ b = db.bill[j.request]
    BY <1>2, <2>1 DEF Billed, Request
  <2>4. y = Serial!Fail(db, j)
    BY <1>3, <2>2 DEF Serial!After
  <2>5. /\ y \in Serial!DbType
        /\ \A q \in Requests :
             y.bill[q] = IF q = j.request THEN Serial!As(b, "released") ELSE db.bill[q]
        /\ \A c \in Channels : y.chan[c] =
             IF c = b.channel THEN Serial!GivenBack(db.chan[c], b.reserved) ELSE db.chan[c]
        /\ Becomes(db, y)
    <3>1. FailLeaves(db, j, b, y)
      BY <1>1, <2>2, <2>3, <2>4, FailIs
    <3>2. QED
      BY <3>1 DEF FailLeaves
  <2>6. ASSUME NEW r \in Requests PROVE BillOf(t, r) = y.bill[r]
    BY <2>2, <2>3, <2>5 DEF BillOf, Wrote
  <2>7. ASSUME NEW c \in Channels PROVE ChanOf(t, c) = y.chan[c]
    <3>1. c # None
      BY NamesAssumption
    <3>2. CASE c = b.channel
      BY <2>2, <2>5, <3>1, <3>2 DEF ChanOf, Wrote, Lowered
    <3>3. CASE c # b.channel
      BY <2>2, <2>5, <3>3 DEF ChanOf, Wrote
    <3>4. QED
      BY <3>2, <3>3
  <2>8. QED
    BY <1>1, <1>2, <1>3, <2>5, <2>6, <2>7, CommitIs
<1>7. CASE Succeeds(t)
  <2>1. PICK b : b = Billed(t)
    OBVIOUS
  <2>2. /\ j.kind = "succeed" /\ b.status = "open" /\ Wrote(t, {Request(t)}, {})
        /\ draft[t].bill[Request(t)] = Serial!WithReceipt(b, j)
    BY <1>2, <1>7, <2>1 DEF Succeeds
  <2>3. Request(t) = j.request /\ b = db.bill[j.request]
    BY <1>2, <2>1 DEF Billed, Request
  <2>4. y = Serial!Succeed(db, j)
    BY <1>3, <2>2 DEF Serial!After
  <2>5. /\ y \in Serial!DbType
        /\ \A q \in Requests :
             y.bill[q] = IF q = j.request THEN Serial!WithReceipt(b, j) ELSE db.bill[q]
        /\ \A c \in Channels : y.chan[c] = db.chan[c]
        /\ Becomes(db, y)
    <3>1. SucceedLeaves(db, j, b, y)
      BY <1>1, <2>2, <2>3, <2>4, SucceedIs
    <3>2. QED
      BY <3>1 DEF SucceedLeaves
  <2>6. ASSUME NEW r \in Requests PROVE BillOf(t, r) = y.bill[r]
    BY <2>2, <2>3, <2>5 DEF BillOf, Wrote
  <2>7. ASSUME NEW c \in Channels PROVE ChanOf(t, c) = y.chan[c]
    BY <2>2, <2>5 DEF ChanOf, Wrote
  <2>8. QED
    BY <1>1, <1>2, <1>3, <2>5, <2>6, <2>7, CommitIs
<1>8. CASE Pays(t)
  <2>1. PICK b : b = Billed(t)
    OBVIOUS
  <2>2. /\ j.kind = "settle" /\ b.status = "pending" /\ Serial!Accepted(b)
        /\ draft[t].bill[Request(t)] = Serial!As(b, "settled")
        /\ Wrote(t, {Request(t)}, {b.paid})
    BY <1>2, <1>8, <2>1 DEF Pays
  <2>3. Request(t) = j.request /\ b = db.bill[j.request]
    BY <1>2, <2>1 DEF Billed, Request
  <2>4. y = Serial!Settle(db, j)
    BY <1>3, <2>2 DEF Serial!After
  <2>5. /\ y \in Serial!DbType /\ b.paid \in Channels
        /\ \A q \in Requests :
             y.bill[q] = IF q = j.request THEN Serial!As(b, "settled") ELSE db.bill[q]
        /\ \A c \in Channels : y.chan[c] =
             LET g == IF c = b.channel THEN Serial!GivenBack(db.chan[c], b.reserved)
                      ELSE db.chan[c]
             IN IF c = b.paid THEN Serial!Deducted(g, b.cost) ELSE g
        /\ Becomes(db, y)
    <3>1. /\ BooksOf(db) /\ j \in Serial!Job /\ j.kind = "settle"
          /\ b.status = "pending" /\ Serial!Accepted(b)
      BY <1>1, <2>2
    <3>2. SettleLeaves(db, j, b, y)
      BY <2>3, <2>4, <3>1, SettleIs
    <3>3. QED
      BY <3>2 DEF SettleLeaves
  <2>6. ASSUME NEW r \in Requests PROVE BillOf(t, r) = y.bill[r]
    BY <2>2, <2>3, <2>5 DEF BillOf, Wrote
  <2>7. ASSUME NEW c \in Channels PROVE ChanOf(t, c) = y.chan[c]
    <3>1. c # None /\ (b.channel # None => b.channel = b.paid)
      BY <2>2, NamesAssumption DEF Serial!Accepted
    <3>2. CASE c = b.paid
      <4>0. \/ /\ b.channel = None
               /\ draft[t].chan[b.paid] = Serial!Deducted(db.chan[b.paid], b.cost)
            \/ /\ b.channel # None
               /\ draft[t].chan[b.paid] =
                    Serial!Deducted(Serial!GivenBack(db.chan[b.paid], b.reserved), b.cost)
        BY <1>2, <1>8, <2>1 DEF Pays
      <4>1. ChanOf(t, c) = draft[t].chan[c]
        BY <2>2, <3>2 DEF ChanOf, Wrote
      <4>2. CASE b.channel = None
        BY <2>5, <3>1, <3>2, <4>0, <4>1, <4>2
      <4>3. CASE b.channel # None
        BY <2>5, <3>1, <3>2, <4>0, <4>1, <4>3
      <4>4. QED
        BY <4>2, <4>3
    <3>3. CASE c # b.paid
      BY <2>2, <2>5, <3>1, <3>3 DEF ChanOf, Wrote
    <3>4. QED
      BY <3>2, <3>3
  <2>8. QED
    BY <1>1, <1>2, <1>3, <2>5, <2>6, <2>7, CommitIs
<1>9. CASE Budgets(t)
  <2>1. PICK v : v = IF j.kind = "adjust" THEN Serial!Adjusted(db.chan[j.channel], j.amount)
                     ELSE Serial!Recharged(db.chan[j.channel], j.amount)
    OBVIOUS
  <2>2. /\ Wrote(t, {}, {j.channel}) /\ draft[t].chan[j.channel] = v
        /\ \/ j.kind = "adjust" /\ db.chan[j.channel].budget + j.amount >= 0
           \/ j.kind = "recharge"
    BY <1>2, <1>9, <2>1 DEF Budgets
  <2>3. /\ y \in Serial!DbType /\ \A q \in Requests : y.bill[q] = db.bill[q]
        /\ \A c \in Channels : y.chan[c] = IF c = j.channel THEN v ELSE db.chan[c]
        /\ Becomes(db, y)
    <3>1. CASE j.kind = "adjust"
      <4>1. y = Serial!Adjust(db, j)
        BY <1>3, <3>1 DEF Serial!After
      <4>2. QED
        BY <1>1, <2>1, <2>2, <3>1, <4>1, AdjustIs
    <3>2. CASE j.kind = "recharge"
      <4>1. y = Serial!Recharge(db, j)
        BY <1>3, <3>2 DEF Serial!After
      <4>2. QED
        BY <1>1, <2>1, <3>2, <4>1, RechargeIs
    <3>3. QED
      BY <2>2, <3>1, <3>2
  <2>4. ASSUME NEW r \in Requests PROVE BillOf(t, r) = y.bill[r]
    BY <2>2, <2>3 DEF BillOf, Wrote
  <2>5. ASSUME NEW c \in Channels PROVE ChanOf(t, c) = y.chan[c]
    BY <2>2, <2>3 DEF ChanOf, Wrote
  <2>6. QED
    BY <1>1, <1>2, <1>3, <2>3, <2>4, <2>5, CommitIs
<1>10. QED
  BY <1>1, <1>4, <1>5, <1>6, <1>7, <1>8, <1>9 DEF Complete

-----------------------------------------------------------------------------
(* Every step.                                                               *)

LEMMA StepIs ==
  ASSUME IInv, NEW t \in Txns, Step(t)
  PROVE  Quiet(t) \/ Commits(t)
<1>1. CASE Begin(t)
  BY <1>1, BeginKeeps
<1>2. CASE Finish(t)
  BY <1>2, FinishKeeps
<1>3. CASE Increase(t)
  BY <1>3, IncreaseKeeps
<1>4. CASE Decrease(t)
  BY <1>4, DecreaseKeeps
<1>5. CASE Claim(t)
  BY <1>5, ClaimKeeps
<1>6. CASE Release(t)
  BY <1>6, ReleaseKeeps
<1>7. CASE Succeed(t)
  BY <1>7, SucceedKeeps
<1>8. CASE Finalize(t)
  BY <1>8, FinalizeKeeps
<1>9. CASE Deduct(t)
  BY <1>9, DeductKeeps
<1>10. CASE Adjust(t) \/ Recharge(t)
  BY <1>10, AdjustKeeps
<1>11. CASE Deadlock(t)
  BY <1>11, DeadlockKeeps
<1>12. QED
  BY <1>1, <1>2, <1>3, <1>4, <1>5, <1>6, <1>7, <1>8, <1>9, <1>10, <1>11 DEF Step

LEMMA IInvInit ==
  ASSUME Init
  PROVE  IInv
<1>1. /\ db \in Openings /\ draft = [t \in Txns |-> NoDraft]
      /\ txn = [t \in Txns |-> NewTxn] /\ job \in Loads
  BY DEF Init, Serial!Init
<1>2. BooksOf(db) /\ db \in Serial!DbType
  BY <1>1, OpeningsAssumption DEF BooksOf
<1>3. NewTxn \in Txn
  BY TriesAssumption DEF NewTxn, Txn, NoBill, Serial!Bill
<1>4. ASSUME NEW t \in Txns
      PROVE  DOMAIN draft[t].bill = {} /\ DOMAIN draft[t].chan = {} /\ IsDraft(draft[t])
  <2>1. draft[t] = NoDraft
    BY <1>1
  <2>2. QED
    BY <2>1 DEF NoDraft, IsDraft
<1>5. TypeOK
  <2>1. txn \in [Txns -> Txn]
    BY <1>1, <1>3
  <2>2. QED
    BY <1>1, <1>2, <1>4, <2>1 DEF TypeOK
<1>6. Apart
  BY <1>4 DEF Apart, Rows
<1>7. ASSUME NEW t \in Txns PROVE Sound(t)
  <2>1. ~Running(t)
    BY <1>1 DEF Running, NewTxn
  <2>2. QED
    BY <1>4, <2>1 DEF Sound, Place, Idle, Wrote, Fresh
<1>8. QED
  BY <1>1, <1>2, <1>5, <1>6, <1>7 DEF IInv

LEMMA IInvStep ==
  ASSUME IInv, [Next]_vars
  PROVE  IInv'
<1>1. CASE UNCHANGED vars
  <2>1. db' = db /\ draft' = draft /\ txn' = txn /\ job' = job
    BY <1>1 DEF vars
  <2>2. TypeOK' /\ DOMAIN draft' = Txns /\ Apart'
    BY <2>1 DEF IInv, TypeOK, Apart, Rows
  <2>3. BooksOf(db')
    BY <2>1 DEF IInv
  <2>4. ASSUME NEW u \in Txns PROVE Sound(u)'
    BY <2>1, OthersStaySound DEF IInv, SameRows, Evolves
  <2>5. QED
    BY <2>2, <2>3, <2>4 DEF IInv
<1>2. CASE Next
  <2>1. PICK t \in Txns : Quiet(t) \/ Commits(t)
    BY <1>2, StepIs DEF Next
  <2>2. Alone(t) /\ Sound(t)'
    BY <2>1 DEF Quiet, Commits
  <2>3. BooksOf(db') /\ Evolves(db, db') /\ \A u \in Txns : u # t => SameRows(Rows(u), db, db')
    <3>1. CASE Quiet(t)
      BY <3>1 DEF Quiet, IInv, Evolves, SameRows
    <3>2. CASE Commits(t)
      BY <3>2 DEF Commits, Becomes
    <3>3. QED
      BY <2>1, <3>1, <3>2
  <2>4. ASSUME NEW u \in Txns PROVE Sound(u)'
    <3>1. CASE u = t
      BY <2>2, <3>1
    <3>2. CASE u # t
      BY <2>2, <2>3, <3>2, OthersStaySound DEF IInv, Alone
    <3>3. QED
      BY <3>1, <3>2
  <2>5. TypeOK'
    BY <2>2, <2>3, <2>4 DEF TypeOK, IInv, Alone, BooksOf, Sound, IsDraft
  <2>6. QED
    BY <2>2, <2>3, <2>4, <2>5 DEF IInv, Alone
<1>3. QED
  BY <1>1, <1>2

LEMMA Invariance == Spec => []IInv
<1>1. Init => IInv
  BY IInvInit
<1>2. IInv /\ [Next]_vars => IInv'
  BY IInvStep
<1>3. QED
  BY <1>1, <1>2, PTL DEF Spec

\* The exposure of a channel is at every moment what the requests that are not
\* ended have set aside on it: a switch orphans none, and a release, a
\* settlement and a retry after a deadlock give none back twice.
THEOREM ReservedAlwaysOwed == Spec => []ReservedIsOwed
<1>1. IInv => ReservedIsOwed
  BY DEF IInv, ReservedIsOwed, BooksOf
<1>2. QED
  BY <1>1, Invariance, PTL

\* The transactions of switches, releases, receipts, settlements and
\* adjustments, interleaved statement by statement and aborted by deadlocks,
\* change the bills and the channels as if one ran after the other.
THEOREM RunsAsSerial == Spec => RunsSerially
<1>1. Init => Serial!Init
  BY DEF Init
<1>2. IInv /\ [Next]_vars => [Serial!Next]_db
  <2>1. SUFFICES ASSUME IInv, [Next]_vars, db' # db PROVE Serial!Next
    BY DEF vars
  <2>2. PICK t \in Txns : Quiet(t) \/ Commits(t)
    BY <2>1, StepIs DEF Next, vars
  <2>3. db' = Serial!After(db, job[t])
    BY <2>1, <2>2 DEF Quiet, Commits
  <2>4. job[t] \in AllJobs
    <3>1. job \in Loads
      BY <2>1 DEF IInv, TypeOK
    <3>2. QED
      BY <3>1 DEF AllJobs
  <2>5. QED
    BY <2>3, <2>4 DEF Serial!Next
<1>3. QED
  BY <1>1, <1>2, Invariance, PTL DEF Spec, RunsSerially, Serial!Spec
-----------------------------------------------------------------------------
(* The promise of billing, as far as exposure sees it: an open bill holds    *)
(* money, a pending one owes it.                                             *)

OutcomeFor(status) ==
  IF status = "open" THEN "held"
  ELSE IF status = "released" THEN "returned"
  ELSE IF status = "pending" THEN "owed"
  ELSE "charged"

outcomes == [r \in Requests |-> OutcomeFor(db.bill[r].status)]

Money == INSTANCE BillingOutcome WITH outcome <- outcomes

\* Only the bill of r changes its outcome.
LEMMA OneMoves ==
  ASSUME NEW r \in Requests, NEW status,
         db'.bill[r].status = status,
         \A q \in Requests : q # r => db'.bill[q] = db.bill[q]
  PROVE  /\ OutcomeFor(status) = OutcomeFor(db.bill[r].status) => UNCHANGED outcomes
         /\ Money!Move({r}, OutcomeFor(db.bill[r].status), OutcomeFor(status))
<1>1. /\ outcomes[r] = OutcomeFor(db.bill[r].status)
      /\ \A q \in Requests :
           outcomes'[q] = IF q = r THEN OutcomeFor(status) ELSE outcomes[q]
  BY DEF outcomes
<1>2. outcomes' = [q \in Requests |-> IF q \in {r} THEN OutcomeFor(status) ELSE outcomes[q]]
  BY <1>1 DEF outcomes
<1>3. OutcomeFor(status) = OutcomeFor(db.bill[r].status) => UNCHANGED outcomes
  BY <1>1 DEF outcomes
<1>4. QED
  BY <1>1, <1>2, <1>3 DEF Money!Move

\* A job that runs alone moves at most the bill of its request.
LEMMA JobMoves ==
  ASSUME BooksOf(db), NEW j \in Serial!Job, db' = Serial!After(db, j)
  PROVE  Money!Next \/ UNCHANGED outcomes
<1>1. ASSUME \A q \in Requests : db'.bill[q] = db.bill[q]
      PROVE  UNCHANGED outcomes
  BY <1>1 DEF outcomes
<1>2. CASE j.kind \in {"reserve", "fail", "succeed", "settle"}
  <2>1. PICK r \in Requests : r = j.request
    BY <1>2, JobIs
  <2>2. PICK b \in Serial!Bill : b = db.bill[j.request]
    BY <2>1, Fields DEF BooksOf
  <2>3. CASE j.kind = "reserve" /\ ReserveFits(db, j)
    <3>1. db' = Serial!Reserve(db, j)
      BY <2>3 DEF Serial!After
    <3>2. ReserveLeaves(db, j, b, db')
      BY <2>2, <2>3, <3>1, ReserveIs
    <3>3. db'.bill[r].status = b.status
      BY <2>1, <2>2, <2>3, <3>2, ClaimedWrites DEF ReserveLeaves
    <3>4. \A q \in Requests : q # r => db'.bill[q] = db.bill[q]
      BY <2>1, <3>2 DEF ReserveLeaves
    <3>5. QED
      BY <2>1, <2>2, <3>3, <3>4, OneMoves
  <2>4. CASE j.kind = "fail" /\ b.status = "open"
    <3>1. db' = Serial!Fail(db, j)
      BY <2>4 DEF Serial!After
    <3>2. FailLeaves(db, j, b, db')
      BY <2>2, <2>4, <3>1, FailIs
    <3>3. db'.bill[r].status = "released"
      BY <2>1, <2>2, <3>2, AsWrites DEF FailLeaves
    <3>4. \A q \in Requests : q # r => db'.bill[q] = db.bill[q]
      BY <2>1, <3>2 DEF FailLeaves
    <3>5. Money!Return(r)
      BY <2>1, <2>2, <2>4, <3>3, <3>4, OneMoves DEF OutcomeFor, Money!Return
    <3>6. QED
      BY <3>5 DEF Money!Next
  <2>5. CASE j.kind = "succeed" /\ b.status = "open"
    <3>1. db' = Serial!Succeed(db, j)
      BY <2>5 DEF Serial!After
    <3>2. SucceedLeaves(db, j, b, db')
      BY <2>2, <2>5, <3>1, SucceedIs
    <3>3. db'.bill[r].status = "pending"
      BY <2>1, <2>2, <2>5, <3>2, ReceiptWrites DEF SucceedLeaves
    <3>4. \A q \in Requests : q # r => db'.bill[q] = db.bill[q]
      BY <2>1, <3>2 DEF SucceedLeaves
    <3>5. Money!Owe(r)
      BY <2>1, <2>2, <2>5, <3>3, <3>4, OneMoves DEF OutcomeFor, Money!Owe
    <3>6. QED
      BY <3>5 DEF Money!Next
  <2>6. CASE j.kind = "settle" /\ b.status = "pending" /\ Serial!Accepted(b)
    <3>1. db' = Serial!Settle(db, j)
      BY <2>6 DEF Serial!After
    <3>2. SettleLeaves(db, j, b, db')
      BY <2>2, <2>6, <3>1, SettleIs
    <3>3. db'.bill[r].status = "settled"
      BY <2>1, <2>2, <3>2, AsWrites DEF SettleLeaves
    <3>4. \A q \in Requests : q # r => db'.bill[q] = db.bill[q]
      BY <2>1, <3>2 DEF SettleLeaves
    <3>5. Money!Charge({r})
      BY <2>1, <2>2, <2>6, <3>3, <3>4, OneMoves DEF OutcomeFor, Money!Charge
    <3>6. QED
      BY <3>5 DEF Money!Next
  <2>7. QED
    <3>1. CASE j.kind = "reserve" /\ ~ReserveFits(db, j)
      <4>1. PICK c \in Serial!Channel : c = db.chan[j.channel]
        BY <3>1, JobIs, Fields DEF BooksOf
      <4>2. Serial!Available(c) \in Int /\ Serial!Delta(b, j) \in Int
        BY <3>1, DeltaIs
      <4>3. \/ b.status # "open" \/ Serial!Covered(b, j)
            \/ Serial!Available(db.chan[j.channel]) < Serial!Delta(b, j)
        BY <2>2, <3>1, <4>1, <4>2 DEF ReserveFits
      <4>4. db' = Serial!Reserve(db, j)
        BY <3>1 DEF Serial!After
      <4>5. UNCHANGED db
        BY <2>2, <4>3, <4>4 DEF Serial!Reserve
      <4>6. QED
        BY <1>1, <4>5
    <3>2. CASE j.kind = "fail" /\ b.status # "open"
      BY <1>1, <2>2, <3>2 DEF Serial!After, Serial!Fail
    <3>3. CASE j.kind = "succeed" /\ b.status # "open"
      BY <1>1, <2>2, <3>3 DEF Serial!After, Serial!Succeed
    <3>4. CASE j.kind = "settle" /\ ~(b.status = "pending" /\ Serial!Accepted(b))
      BY <1>1, <2>2, <3>4 DEF Serial!After, Serial!Settle
    <3>5. QED
      BY <1>2, <2>3, <2>4, <2>5, <2>6, <3>1, <3>2, <3>3, <3>4
<1>3. CASE j.kind = "adjust"
  <2>1. db' = Serial!Adjust(db, j)
    BY <1>3 DEF Serial!After
  <2>2. CASE db.chan[j.channel].budget + j.amount < 0
    BY <1>1, <2>1, <2>2 DEF Serial!Adjust
  <2>3. CASE db.chan[j.channel].budget + j.amount >= 0
    BY <1>1, <1>3, <2>1, <2>3, AdjustIs
  <2>4. db.chan[j.channel].budget \in Int /\ j.amount \in Int
    BY <1>3, JobIs, Fields DEF BooksOf
  <2>5. QED
    BY <2>2, <2>3, <2>4
<1>4. CASE j.kind = "recharge"
  <2>1. db' = Serial!Recharge(db, j)
    BY <1>4 DEF Serial!After
  <2>2. QED
    BY <1>1, <1>4, <2>1, RechargeIs
<1>5. QED
  BY <1>2, <1>3, <1>4, JobIs

\* Whatever switches, releases, receipts and settlements cross, the bills on
\* which exposure is kept move as Settlement moves them: what a channel has got
\* back is owed no more, and what is charged stays charged
\* (reserve-channel.ts, release.ts, settle.ts).
THEOREM BillsAsPromised == Spec => [][Money!Next]_outcomes
<1>1. IInv /\ [Next]_vars => [Money!Next]_outcomes
  <2>1. SUFFICES ASSUME IInv, [Next]_vars, db' # db
                 PROVE  Money!Next \/ UNCHANGED outcomes
    BY DEF vars, outcomes
  <2>2. PICK t \in Txns : Quiet(t) \/ Commits(t)
    BY <2>1, StepIs DEF Next, vars
  <2>3. db' = Serial!After(db, job[t])
    BY <2>1, <2>2 DEF Quiet, Commits
  <2>4. job[t] \in Serial!Job
    BY <2>1, LoadsAssumption DEF IInv, TypeOK
  <2>5. BooksOf(db)
    BY <2>1 DEF IInv
  <2>6. QED
    BY <2>3, <2>4, <2>5, JobMoves
<1>2. QED
  BY <1>1, Invariance, PTL DEF Spec

=============================================================================
