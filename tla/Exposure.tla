------------------------------ MODULE Exposure ------------------------------
(***************************************************************************)
(* What the budget of the channels promises (the purchase budget of an     *)
(* upstream and the cost of the requests in flight that is set aside from  *)
(* it): jobs change bills and channels one after the other, each whole or  *)
(* not at all.  The statuses of a bill are those the exposure tells apart: *)
(* "open" is authorized or in_flight, "pending" all that wait to settle.   *)
(***************************************************************************)
EXTENDS Integers

CONSTANTS
  Requests,
  Channels,
  None,      \* no channel
  Threshold, \* upstream_threshold
  Openings,  \* the states to begin with
  Jobs       \* what is to be done

VARIABLE db  \* the bills and the channels

\* bound is conservative_channel_amount, 0 when it is null.
Bill ==
  [status : {"open", "released", "pending", "settled"},
   channel : Channels \cup {None}, reserved : Nat, bound : Nat,
   paid : Channels \cup {None}, cost : Nat]

Channel == [budget : Int, reserved : Nat, status : {"enabled", "disabled", "broken"}]

DbType == [bill : [Requests -> Bill], chan : [Channels -> Channel]]

Job ==
       [kind : {"reserve"}, request : Requests, channel : Channels,
        amount : Nat, bound : Nat]
  \cup [kind : {"fail", "settle"}, request : Requests]
  \cup [kind : {"succeed"}, request : Requests, channel : Channels, cost : Nat]
  \cup [kind : {"adjust"}, channel : Channels, amount : Int]
  \cup [kind : {"recharge"}, channel : Channels, amount : Nat \ {0}]

Init == db \in Openings
-----------------------------------------------------------------------------
Available(c) == c.budget - c.reserved

\* reserveDecision: nothing to do when the same channel already has as much.
Covered(b, j) == b.channel = j.channel /\ j.amount <= b.reserved
Delta(b, j) == IF b.channel = j.channel THEN j.amount - b.reserved ELSE j.amount

GivenBack(c, m) == [c EXCEPT !.reserved = @ - m]
Without(s, b) ==
  [s EXCEPT !.chan = [c \in Channels |->
     IF c = b.channel THEN GivenBack(s.chan[c], b.reserved) ELSE s.chan[c]]]

Claimed(b, j) ==
  [b EXCEPT !.channel = j.channel, !.reserved = j.amount, !.bound = j.bound]

SetAside(c, m) == [c EXCEPT !.reserved = @ + m]

Reserve(s, j) ==
  LET b == s.bill[j.request]
      left == Without(s, b)
  IN
  IF b.status # "open" \/ Covered(b, j)
     \/ Available(s.chan[j.channel]) < Delta(b, j)
  THEN s
  ELSE [left EXCEPT !.chan[j.channel] = SetAside(left.chan[j.channel], j.amount),
                    !.bill[j.request] = Claimed(b, j)]

As(b, status) == [b EXCEPT !.status = status]

Fail(s, j) ==
  LET b == s.bill[j.request] IN
  IF b.status # "open" THEN s
  ELSE [Without(s, b) EXCEPT !.bill[j.request] = As(b, "released")]

WithReceipt(b, j) ==
  [b EXCEPT !.status = "pending", !.paid = j.channel, !.cost = j.cost]
Succeed(s, j) ==
  LET b == s.bill[j.request] IN
  IF b.status # "open" THEN s
  ELSE [s EXCEPT !.bill[j.request] = WithReceipt(b, j)]

\* A cost above what was reserved is accepted up to the conservative bound; a
\* receipt of another channel is not accepted at all.
Accepted(b) ==
  b.channel # None =>
    b.paid = b.channel /\ (b.cost <= b.reserved \/ b.cost <= b.bound)

Deducted(c, cost) ==
  LET left == c.budget - cost IN
  [c EXCEPT !.budget = left,
            !.status = IF left <= Threshold /\ @ = "enabled" THEN "broken" ELSE @]

Settle(s, j) ==
  LET b == s.bill[j.request]
      left == Without(s, b)
  IN
  IF b.status # "pending" \/ ~Accepted(b) THEN s
  ELSE [left EXCEPT !.bill[j.request] = As(b, "settled"),
                    !.chan[b.paid] = Deducted(left.chan[b.paid], b.cost)]

Adjusted(c, m) == [c EXCEPT !.budget = @ + m]
Adjust(s, j) ==
  IF s.chan[j.channel].budget + j.amount < 0 THEN s
  ELSE [s EXCEPT !.chan[j.channel] = Adjusted(s.chan[j.channel], j.amount)]

\* A recharge brings a broken channel back, whatever its budget then is.
Recharged(c, m) ==
  [c EXCEPT !.budget = @ + m, !.status = IF @ = "broken" THEN "enabled" ELSE @]
Recharge(s, j) ==
  [s EXCEPT !.chan[j.channel] = Recharged(s.chan[j.channel], j.amount)]

After(s, j) ==
  CASE j.kind = "reserve" -> Reserve(s, j)
    [] j.kind = "fail" -> Fail(s, j)
    [] j.kind = "succeed" -> Succeed(s, j)
    [] j.kind = "settle" -> Settle(s, j)
    [] j.kind = "adjust" -> Adjust(s, j)
    [] j.kind = "recharge" -> Recharge(s, j)

Next == \E j \in Jobs : db' = After(db, j)

Spec == Init /\ [][Next]_db
=============================================================================
