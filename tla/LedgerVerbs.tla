---------------------------- MODULE LedgerVerbs ----------------------------
(***************************************************************************)
(* The verbs of the wallet of packages/billing as functions of a ledger: a *)
(* ledger is the accounts and the holds (wallet_authorizations), a verb    *)
(* is a record, Outcomes(v, s) the ledgers v may leave behind when it runs *)
(* alone on s, and {} says that v refuses.  Legs are not kept apart from   *)
(* balances: a leg is the change of one balance.                           *)
(*                                                                         *)
(* The reference keys make every verb idempotent: a hold is settled once.  *)
(* Nothing in the repository freezes an account.                           *)
(***************************************************************************)
EXTENDS Integers

CONSTANTS
  Users,      \* ids of the accounts of users
  Internals,  \* ids of the internal accounts
  Revenue,    \* platform_revenue, the counterpart of every settlement
  Holds       \* reference keys of wallet_authorizations

Accounts == Users \cup Internals

ASSUME AccountsAssumption ==
  /\ Users \subseteq Int /\ Internals \subseteq Int
  /\ Users \cap Internals = {} /\ Revenue \in Internals

ASSUME HoldsAssumption == Holds \cap Accounts = {}

Account == [balance : Int, inFlight : Int, credit : Nat, floor : Nat]
HoldStatus == {"none", "active", "settled", "released"}
Hold == [user : Users, amount : Nat, status : HoldStatus]

LedgerType == [account : [Accounts -> Account], hold : [Holds -> Hold]]

Verb ==
       [kind : {"authorize", "overhold"}, hold : Holds, user : Users, amount : Nat \ {0}]
  \cup [kind : {"settle"}, hold : Holds, amount : Nat \ {0}]
  \cup [kind : {"settleover", "release"}, hold : Holds]
  \cup [kind : {"move"}, from : Accounts, to : Accounts, amount : Nat \ {0},
        cash : BOOLEAN]
  \cup [kind : {"creditline", "floor"}, user : Users, limit : Nat]
-----------------------------------------------------------------------------
\* What a user may still spend, and how deep a settlement may go.
Available(a) == a.balance + a.credit - a.inFlight
Coverage(a) == Available(a) + a.floor

\* collectOverage: what a settlement may take beyond the hold.
Ceiling(a) == IF Coverage(a) > 0 THEN Coverage(a) ELSE 0

IsActive(s, h) == s.hold[h].status = "active"

Leg(s, a, m) == [s EXCEPT !.account[a].balance = @ + m]
Held(s, a, m) == [s EXCEPT !.account[a].inFlight = @ + m]

\* The balanced pair of legs, amount m from account a to account b.
Posted(s, a, b, m) == Leg(Leg(s, a, -m), b, m)

Reserved(s, h, u, m) ==
  [Held(s, u, m) EXCEPT !.hold[h] = [user |-> u, amount |-> m, status |-> "active"]]

\* A hold ends as st and its whole amount leaves in_flight.
Ended(s, h, st) ==
  [Held(s, s.hold[h].user, -s.hold[h].amount) EXCEPT !.hold[h].status = st]

Settled(s, h, m) == Posted(Ended(s, h, "settled"), s.hold[h].user, Revenue, m)
-----------------------------------------------------------------------------
\* The key of hold h is in use: the same command again is answered, another is
\* refused.
IsNew(s, h) == s.hold[h].status = "none"
Replayed(s, h, u, m) ==
  IF s.hold[h].user = u /\ s.hold[h].amount = m THEN {s} ELSE {}

Authorize(s, v) ==
  IF ~IsNew(s, v.hold) THEN Replayed(s, v.hold, v.user, v.amount)
  ELSE IF Available(s.account[v.user]) >= v.amount
       THEN {Reserved(s, v.hold, v.user, v.amount)} ELSE {}

\* The second hold of a settlement above its first: as much of the excess as
\* the account covers when the verb reads it; the rest is waived.
OverHold(s, v) ==
  {s} \cup
  {Reserved(s, v.hold, v.user, c) : c \in
     {m \in 1..v.amount : IsNew(s, v.hold) /\ m <= Coverage(s.account[v.user])}}

Settle(s, h, m) ==
  IF IsActive(s, h) THEN IF m <= s.hold[h].amount THEN {Settled(s, h, m)} ELSE {}
  ELSE IF s.hold[h].status = "settled" THEN {s} ELSE {}

\* The excess hold is settled whole; nothing was held if all of it was waived.
SettleOver(s, h) ==
  IF IsNew(s, h) THEN {s} ELSE Settle(s, h, s.hold[h].amount)

Release(s, h) ==
  IF IsActive(s, h) THEN {Ended(s, h, "released")}
  ELSE IF s.hold[h].status = "released" THEN {s} ELSE {}

\* What the guard of an outgoing transfer allows; cash (allowCredit: false) is
\* without the credit line.
Spendable(a, cash) == IF cash THEN a.balance - a.inFlight ELSE Available(a)

\* credit, refund and transfer; an internal account may become negative.
Move(s, v) ==
  IF v.from \in Users => Spendable(s.account[v.from], v.cash) >= v.amount
  THEN {Posted(s, v.from, v.to, v.amount)} ELSE {}

WithCredit(s, v) == [s EXCEPT !.account[v.user].credit = v.limit]
SetCreditLimit(s, v) ==
  LET a == s.account[v.user] IN
  IF a.balance + v.limit - a.inFlight >= 0
  THEN {WithCredit(s, v)} ELSE {}

FloorFits(a, limit) == Available(a) + limit >= 0
WithFloor(s, v) == [s EXCEPT !.account[v.user].floor = v.limit]
SetDebitFloor(s, v) ==
  IF FloorFits(s.account[v.user], v.limit) THEN {WithFloor(s, v)} ELSE {}

Outcomes(v, s) ==
  CASE v.kind = "authorize" -> Authorize(s, v)
    [] v.kind = "overhold" -> OverHold(s, v)
    [] v.kind = "settle" -> Settle(s, v.hold, v.amount)
    [] v.kind = "settleover" -> SettleOver(s, v.hold)
    [] v.kind = "release" -> Release(s, v.hold)
    [] v.kind = "move" -> Move(s, v)
    [] v.kind = "creditline" -> SetCreditLimit(s, v)
    [] v.kind = "floor" -> SetDebitFloor(s, v)
=============================================================================
