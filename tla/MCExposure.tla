----------------------------- MODULE MCExposure -----------------------------
(* Constants for model-checking ChannelExposure: two requests, two channels,  *)
(* and three jobs at once, most of which meet in a bill or in a channel.     *)
EXTENDS ChannelExposure, TLC

CONSTANTS t1, t2, t3, r1, r2, ch1, ch2

Open(c, m) ==
  [status |-> "open", channel |-> c, reserved |-> m, bound |-> 0,
   paid |-> None, cost |-> 0]
Pending(c, m, bound, cost) ==
  [Open(c, m) EXCEPT !.status = "pending", !.bound = bound, !.paid = c, !.cost = cost]

Funds(m, n) == [budget |-> m, reserved |-> n, status |-> "enabled"]

\* Both requests in flight on one channel each; both on the first; one that
\* cost more than was set aside, within its bound, and one not reserved yet.
Apart == [bill |-> (r1 :> Open(ch1, 2)) @@ (r2 :> Open(ch2, 2)),
          chan |-> (ch1 :> Funds(4, 2)) @@ (ch2 :> Funds(4, 2))]
Together == [bill |-> (r1 :> Open(ch1, 1)) @@ (r2 :> Open(ch1, 2)),
             chan |-> (ch1 :> Funds(3, 3)) @@ (ch2 :> Funds(2, 0))]
Costly == [bill |-> (r1 :> Pending(ch1, 1, 3, 3)) @@ (r2 :> NoBill),
           chan |-> (ch1 :> Funds(2, 1)) @@ (ch2 :> Funds(1, 0))]
ThreeOpenings == {Apart, Together, Costly}

reserve(r, c, m) ==
  [kind |-> "reserve", request |-> r, channel |-> c, amount |-> m,
   bound |-> IF m = 0 THEN 0 ELSE 3]
fail(r) == [kind |-> "fail", request |-> r]
settle(r) == [kind |-> "settle", request |-> r]
succeed(r, c, m) == [kind |-> "succeed", request |-> r, channel |-> c, cost |-> m]
adjust(c, m) == [kind |-> "adjust", channel |-> c, amount |-> m]
recharge(c, m) == [kind |-> "recharge", channel |-> c, amount |-> m]

\* Every three of these jobs at once: switches that cross, one of them to a
\* channel without cost prices, larger and smaller estimates, releases, receipts
\* that fit and do not, and a budget that moves.
Pool ==
  <<reserve(r1, ch2, 2), reserve(r1, ch1, 3), reserve(r2, ch1, 0), reserve(r2, ch1, 1), reserve(r2, ch2, 1),
    fail(r1), fail(r2), succeed(r1, ch1, 1), succeed(r2, ch2, 3), settle(r1),
    adjust(ch1, -2), adjust(ch2, -1), recharge(ch1, 1)>>

Load(j1, j2, j3) == (t1 :> j1) @@ (t2 :> j2) @@ (t3 :> j3)

\* The transactions are alike, so that their order in the pool is enough.
AllLoads ==
  {Load(Pool[i[1]], Pool[i[2]], Pool[i[3]]) :
     i \in {n \in (1..13) \X (1..13) \X (1..13) : n[1] <= n[2] /\ n[2] <= n[3]}}
=============================================================================
