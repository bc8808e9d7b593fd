------------------------------ MODULE MCLedger ------------------------------
(* Constants for model-checking LedgerRows: the revenue account sorts between *)
(* the two users, and each load is a mix of transactions that meet in rows.   *)
EXTENDS LedgerRows, TLC

CONSTANTS t1, t2, t3, t4, h1, h2, h3, x1, x2

TwoUsers == {1, 3}
Books == {2, 4}   \* platform_revenue and outside

Holding(u, m) == [user |-> u, amount |-> m, status |-> "active"]
Unused == [user |-> 1, amount |-> 0, status |-> "none"]

OpeningLedger ==
  [account |->
     (1 :> [balance |-> 3, inFlight |-> 2, credit |-> 0, floor |-> 1]) @@
     (2 :> [balance |-> 0, inFlight |-> 0, credit |-> 0, floor |-> 0]) @@
     (3 :> [balance |-> 3, inFlight |-> 3, credit |-> 1, floor |-> 0]) @@
     (4 :> [balance |-> -6, inFlight |-> 0, credit |-> 0, floor |-> 0]),
   hold |->
     (h1 :> Holding(1, 2)) @@ (h2 :> Holding(3, 2)) @@ (h3 :> Holding(3, 1)) @@
     (x1 :> Unused) @@ (x2 :> Unused)]

OneOpening == {OpeningLedger}

settle(h, m) == [kind |-> "settle", hold |-> h, amount |-> m]
release(h) == [kind |-> "release", hold |-> h]
authorize(h, u, m) == [kind |-> "authorize", hold |-> h, user |-> u, amount |-> m]
excess(x, u, m) ==
  <<[kind |-> "overhold", hold |-> x, user |-> u, amount |-> m],
    [kind |-> "settleover", hold |-> x]>>
move(a, b, m) ==
  [kind |-> "move", from |-> a, to |-> b, amount |-> m, cash |-> FALSE]
buy(u, m) ==
  [kind |-> "move", from |-> u, to |-> 2, amount |-> m, cash |-> TRUE]
floor(u, m) == [kind |-> "floor", user |-> u, limit |-> m]
creditline(u, m) == [kind |-> "creditline", user |-> u, limit |-> m]

Alone(v) == [joined |-> FALSE, verbs |-> <<v>>]
Joined(p) == [joined |-> TRUE, verbs |-> p]

Load(p1, p2, p3, p4) == (t1 :> p1) @@ (t2 :> p2) @@ (t3 :> p3) @@ (t4 :> p4)

\* A batch over both users against a bill of the second, a refund, a transfer.
BatchAndBill ==
  Load(Joined(<<settle(h1, 2), settle(h2, 1)>>), Joined(<<settle(h3, 1)>>),
       Alone(move(3, 4, 1)), Alone(move(3, 1, 1)))

\* Two batches that meet both users in opposite orders.
TwoBatches ==
  Load(Joined(<<settle(h1, 2), settle(h2, 1)>>),
       Joined(<<settle(h3, 1)>> \o excess(x1, 1, 1)),
       Alone(floor(1, 0)), Joined(<<buy(3, 1)>>))

\* A settlement above its hold against a refund, a new hold and a floor
\* taken away.
ExcessAndFloor ==
  Load(Joined(excess(x1, 1, 3) \o <<settle(h1, 2)>>), Alone(move(1, 4, 1)),
       Alone(floor(1, 0)), Joined(<<authorize(x2, 1, 1)>>))

\* Two excesses of one account, and a recharge.
TwoExcesses ==
  Load(Joined(excess(x1, 1, 3) \o <<settle(h1, 2)>>), Joined(excess(x2, 1, 2)),
       Alone(floor(1, 0)), Alone(move(4, 1, 1)))

\* A hold returned and settled at once, next to a new one and a credit line.
SettleAndRelease ==
  Load(Joined(<<settle(h2, 1)>>), Joined(<<release(h2)>>),
       Alone(authorize(x1, 3, 1)), Alone(creditline(3, 0)))

\* The same hold twice: the second authorisation is a replay.
SameHold ==
  Load(Joined(<<authorize(x1, 3, 1)>>), Joined(<<authorize(x1, 3, 1)>>),
       Alone(move(3, 1, 1)), Joined(<<settle(h2, 2)>>))

AllLoads ==
  {BatchAndBill, TwoBatches, ExcessAndFloor, TwoExcesses, SettleAndRelease,
   SameHold}
=============================================================================
