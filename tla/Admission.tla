------------------------------ MODULE Admission ------------------------------
(***************************************************************************)
(* How a request is admitted: authorize reads the daily limits, the        *)
(* subscription its key is bound to and the limits of a member, then       *)
(* inserts the bill and takes the shares it planned.  Its transaction runs *)
(* under READ COMMITTED: each read sees what is committed when it runs.    *)
(* Beside it requests are settled and released, the owner renews, changes, *)
(* cancels and buys subscriptions, members leave and return, days pass.    *)
(*                                                                         *)
(* A transaction writes last and only guarded rows, which it keeps locked  *)
(* to the commit; its insertion, its reservation and its commit are one    *)
(* step.  The wallet is a choice here: it covers its share or it does not. *)
(***************************************************************************)
EXTENDS Integers, Sequences, FiniteSets, Functions

CONSTANTS
  Requests, Users, Keys, Subs, Txns, None,
  Owner,    \* who owns the subscriptions
  Pack,     \* the quota of an add-on pack
  Costs,    \* what requests may turn out to cost
  Settings \* who asks for what under which limits

VARIABLES
  sub,   \* user_subscriptions
  bound, \* the subscription of each key
  seat,  \* org_members
  bill,  \* billing_requests and usage_logs
  day,   \* the clock, in days of one month
  txn,   \* the authorization each transaction is in
  setting

vars == <<sub, bound, seat, bill, day, txn, setting>>

Amount == Nat \ {0}
Rule == Amount \cup {None}

\* Of each request its user, key and amounts, 0 for a free one: est is the
\* conservative estimate (limits, exposure), need the calibrated one, fixed what
\* the reservation policy freezes of a request without a subscription.
Ask == [user : Users, key : Keys, est : Nat, need : Nat, fixed : Nat]

ASSUME SettingsAssumption ==
  \A c \in Settings :
    /\ c.call \in [Requests -> Ask] /\ c.asked \subseteq Requests
    /\ \A r \in Requests : c.call[r].need <= c.call[r].est \* calibration only lowers
    /\ \A q, r \in Requests :
         c.call[q].key = c.call[r].key => c.call[q].user = c.call[r].user
    /\ c.daily \in [Users \cup Keys -> Rule]
    /\ c.memberDaily \in [Users -> Rule] /\ c.memberMonthly \in [Users -> Rule]
    /\ c.fallback \subseteq Keys /\ c.quota \in Amount /\ c.seats \in Amount
    /\ c.days \in Nat \* bound: the last day
ASSUME AmountsAssumption ==
  Costs \subseteq Nat /\ Pack \in Amount
ASSUME NamesAssumption ==
  /\ Owner \in Users
  /\ Users \cap Keys = {} /\ None \notin Users \cup Keys \cup Subs \cup Requests \cup Nat
ASSUME FiniteAssumption == IsFiniteSet(Requests)

Call == setting.call
DailyLimit == setting.daily          \* daily_spend_limit of users and keys
MemberDaily == setting.memberDaily   \* dailySpendLimit of the organisation
MemberMonthly == setting.memberMonthly \* monthlyQuota of its members
Fallback == setting.fallback         \* the keys with allow_payg_fallback
Quota == setting.quota               \* of a subscription when it is sold
Seats == setting.seats
-----------------------------------------------------------------------------
\* over: endAt has passed; shared: of the organisation; given: what a change
\* has credited of the quota (remainingValue).
Sub ==
  [status : {"unsold", "active", "expired", "cancelled"}, over : BOOLEAN,
   shared : BOOLEAN, quota : Nat, used : Nat, reserved : Nat, given : Nat]

Seat == {"none", "active", "left"}

\* Of what was sold before nothing is used yet.
ASSUME OpeningsAssumption ==
  \A c \in Settings :
    /\ c.subs \in [Subs -> Sub]
    /\ \A s \in Subs : /\ c.subs[s].used = 0 /\ c.subs[s].reserved = 0
                       /\ c.subs[s].given = 0
    /\ c.bound \in [Keys -> Subs \cup {None}] /\ c.members \in [Users -> Seat]

\* plan is the share on the subscription: reserved while open, consumed when
\* settled.  amount and day are those of the usage log.
Bill ==
  [status : {"none", "open", "settled", "released"}, sub : Subs \cup {None},
   plan : Nat, amount : Nat, day : Nat]

\* A read of authorize and what it is about.
Read ==
  {"resolve", "lock", "bill", "spent", "exposure", "snapshot",
   "membersExposure", "membersDay", "membersMonth"}
    \X (Users \cup Keys \cup Subs \cup {None})

\* sum holds a total between two reads, room what the subscription can give,
\* limit what the limits of the member leave beside his exposure, None when he
\* has none; todo are the reads to come, seat what the member's row says.
Txn ==
  [request : Requests \cup {None}, locked : BOOLEAN, since : Nat,
   sub : Subs \cup {None}, sum : Nat, room : Nat,
   limit : Nat \cup {None}, seat : Seat, forbidden : BOOLEAN, todo : Seq(Read)]

Idle ==
  [request |-> None, locked |-> FALSE, since |-> 0, sub |-> None, sum |-> 0,
   room |-> 0, limit |-> None, seat |-> "none", forbidden |-> FALSE, todo |-> <<>>]

TypeOK ==
  /\ sub \in [Subs -> Sub]
  /\ bound \in [Keys -> Subs \cup {None}]
  /\ seat \in [Users -> Seat]
  /\ bill \in [Requests -> Bill]
  /\ day \in Nat
  /\ setting \in Settings
  /\ txn \in [Txns -> Txn]

NoBill == [status |-> "none", sub |-> None, plan |-> 0, amount |-> 0, day |-> 0]

Init ==
  /\ setting \in Settings
  /\ sub = setting.subs /\ bound = setting.bound /\ seat = setting.members
  /\ bill = [r \in Requests |->
               IF r \in setting.asked THEN NoBill
               ELSE [NoBill EXCEPT !.status = "released"]]
  /\ day = 0
  /\ txn = [t \in Txns |-> Idle]
-----------------------------------------------------------------------------
(* The sums of billing-store, each one statement.                          *)

InScope(x) == {r \in Requests : x \in {Call[r].user, Call[r].key}}

InFlight(R) ==
  SumFunctionOnSet([r \in Requests |-> Call[r].est],
                   {r \in R : bill[r].status = "open"})

Spent(R, since) ==
  SumFunctionOnSet([r \in Requests |-> bill[r].amount],
                   {r \in R : bill[r].status = "settled" /\ bill[r].day >= since})

\* Of a member, the requests on a subscription.  A usage log keeps the
\* subscription only when the subscription paid for some of it.
OfMember(u, s) == {r \in Requests : Call[r].user = u /\ bill[r].sub = s}
Logged(u, s) == {r \in OfMember(u, s) : bill[r].plan > 0}

Room(s) == sub[s].quota - sub[s].used - sub[s].reserved
AtLeast0(n) == IF n < 0 THEN 0 ELSE n
Least(m, n) == IF m < n THEN m ELSE n

\* memberLimits takes the rows of status 1, which is LEFT: who has a row the
\* billing side can see is who has left.
MembershipSeen(u) == seat[u] = "left"
-----------------------------------------------------------------------------
(* The statements of authorize, in their order.                            *)

Limited(x) == DailyLimit[x] # None

LockingByKey(c) == IF Limited(c.key) THEN <<<<"lock", c.user>>>> ELSE <<>>
Locking(c) == IF Limited(c.user) \/ Limited(c.key) THEN <<<<"lock", c.user>>>> ELSE <<>>

DailyReads(x) ==
  IF Limited(x) THEN <<<<"spent", x>>, <<"exposure", x>>>> ELSE <<>>

\* What needs no funds asks no subscription.
Probes(c, s) == IF s = None \/ c.need = 0 THEN <<>> ELSE <<<<"snapshot", s>>>>

Reads(c, s) ==
  Locking(c) \o <<<<"bill", None>>>> \o DailyReads(c.user) \o DailyReads(c.key)
    \o Probes(c, s)

SpentFirst(u) ==
  (IF MemberDaily[u] = None THEN <<>> ELSE <<<<"membersDay", u>>>>)
    \o (IF MemberMonthly[u] = None THEN <<>> ELSE <<<<"membersMonth", u>>>>)
    \o <<<<"membersExposure", u>>>>
\* The exposure before what is spent.
MemberReads(u) ==
  <<<<"membersExposure", u>>>>
    \o (IF MemberDaily[u] = None THEN <<>> ELSE <<<<"membersDay", u>>>>)
    \o (IF MemberMonthly[u] = None THEN <<>> ELSE <<<<"membersMonth", u>>>>)

End(t) == txn' = [txn EXCEPT ![t] = Idle]

Rest(t) == Tail(txn[t].todo)
Goes(t, with) == txn' = [txn EXCEPT ![t] = with]

\* A request which has a bill is answered from it, or refused (replayOf).
Begin(t, r) ==
  /\ txn[t].request = None
  /\ bill[r].status = "none"
  /\ Goes(t, [Idle EXCEPT !.request = r, !.since = day,
                          !.todo = <<<<"resolve", None>>>>])
  /\ UNCHANGED <<sub, bound, seat, bill, day, setting>>

\* t is at the read called name, about x.
At(t, name, x) ==
  /\ txn[t].request # None /\ txn[t].todo # <<>>
  /\ Head(txn[t].todo) = <<name, x>>
  /\ UNCHANGED <<sub, bound, seat, bill, day, setting>>

Of(t) == Call[txn[t].request]

Resolve(t) ==
  /\ At(t, "resolve", None)
  /\ LET s == bound[Of(t).key] IN
     Goes(t, [txn[t] EXCEPT !.sub = s, !.todo = Reads(Of(t), s)])

Lock(t) ==
  \E u \in Users :
    /\ At(t, "lock", u)
    /\ \A o \in Txns : txn[o].locked => Of(o).user # u
    /\ Goes(t, [txn[t] EXCEPT !.locked = TRUE, !.todo = Rest(t)])

Reread(t) ==
  /\ At(t, "bill", None)
  /\ LET r == txn[t].request IN
     IF bill[r].status # "none" THEN End(t)
     ELSE Goes(t, [txn[t] EXCEPT !.todo = Rest(t)])

ReadSpent(t) ==
  \E x \in Users \cup Keys :
    /\ At(t, "spent", x)
    /\ Goes(t, [txn[t] EXCEPT !.sum = Spent(InScope(x), txn[t].since),
                              !.todo = Rest(t)])

ReadExposure(t) ==
  \E x \in Users \cup Keys :
    /\ At(t, "exposure", x)
    /\ LET R == InScope(x) \ {txn[t].request} IN
       IF txn[t].sum + InFlight(R) + Of(t).est > DailyLimit[x] THEN End(t)
       ELSE Goes(t, [txn[t] EXCEPT !.sum = 0, !.todo = Rest(t)])

\* The owner has no limits of a member; who is neither is forbidden.  The
\* snapshot and the look at org_members are one step: nothing depends on
\* what happens between them.
Snapshot(t) ==
  \E s \in Subs :
    /\ At(t, "snapshot", s)
    /\ LET u == Of(t).user
           room == AtLeast0(Room(s)) IN
       IF sub[s].status # "active" \/ sub[s].over THEN End(t)
       ELSE IF u = Owner THEN
         Goes(t, [txn[t] EXCEPT !.room = room, !.todo = Rest(t)])
       ELSE IF sub[s].shared /\ MembershipSeen(u) THEN
         Goes(t, [txn[t] EXCEPT !.room = room, !.seat = seat[u],
                                !.todo = MemberReads(u)])
       ELSE Goes(t, [Idle EXCEPT !.forbidden = TRUE,
                                 !.seat = IF sub[s].shared THEN seat[u] ELSE "none"])

MembersExposure(t) ==
  \E u \in Users :
    /\ At(t, "membersExposure", u)
    /\ Goes(t, [txn[t] EXCEPT
                  !.sum = InFlight(OfMember(u, txn[t].sub) \ {txn[t].request}),
                  !.todo = Rest(t)])

\* What a limit leaves to a member after what is spent since.
Unspent(t, limit, since) ==
  AtLeast0(limit - Spent(Logged(Of(t).user, txn[t].sub), since))

Within(t, m) ==
  Goes(t, [txn[t] EXCEPT !.limit = IF @ = None THEN m ELSE Least(@, m),
                         !.todo = Rest(t)])

MembersDay(t) ==
  \E u \in Users :
    At(t, "membersDay", u) /\ Within(t, Unspent(t, MemberDaily[u], txn[t].since))

MembersMonth(t) ==
  \E u \in Users :
    At(t, "membersMonth", u) /\ Within(t, Unspent(t, MemberMonthly[u], 0))
-----------------------------------------------------------------------------
(* planFunding, insertAuthorized and commitFunding.                        *)

Planned(t) == txn[t].request # None /\ txn[t].todo = <<>>

\* subscriptionAvailability.
Availability(t) ==
  IF txn[t].limit = None THEN txn[t].room
  ELSE Least(txn[t].room, AtLeast0(txn[t].limit - txn[t].sum))

\* What all sources together are to reserve.
Target(r, s) == IF s = None THEN Call[r].fixed ELSE Call[r].need

\* What the subscription is to give.
Take(t) == IF txn[t].sub = None THEN 0 ELSE Least(Availability(t), Of(t).need)

\* A key without fallback gets all from its subscription or is refused.
Gated(t) ==
  txn[t].sub # None /\ Take(t) < Of(t).need /\ Of(t).key \notin Fallback

UnusedIsEnough(s, m) == sub[s].quota - sub[s].used >= m
HasRoom(s, m) == Room(s) >= m
MayReserveEnded(s, m) == HasRoom(s, m)
MayReserve(s, m) == sub[s].status = "active" /\ HasRoom(s, m)

Grant(t) ==
  /\ Planned(t) /\ ~Gated(t)
  /\ LET r == txn[t].request
         s == txn[t].sub
         m == Take(t) IN
     /\ bill[r].status = "none"
     /\ m > 0 => MayReserve(s, m)
     /\ bill' = [bill EXCEPT ![r] =
                   [NoBill EXCEPT !.status = "open", !.sub = s, !.plan = m]]
     /\ sub' = IF m = 0 THEN sub ELSE [sub EXCEPT ![s].reserved = @ + m]
     /\ End(t)
  /\ UNCHANGED <<bound, seat, day, setting>>

\* The insertion meets the row of the same request.
Replay(t) ==
  /\ Planned(t) /\ ~Gated(t)
  /\ bill[txn[t].request].status # "none"
  /\ End(t)
  /\ UNCHANGED <<sub, bound, seat, bill, day, setting>>

\* The gate refuses, the guard of the reservation is missed, or the wallet does
\* not cover the rest: all is rolled back.
Refuse(t) ==
  /\ Planned(t)
  /\ \/ Gated(t)
     \/ Take(t) > 0 /\ ~MayReserve(txn[t].sub, Take(t))
     \/ Take(t) < Target(txn[t].request, txn[t].sub)
  /\ End(t)
  /\ UNCHANGED <<sub, bound, seat, bill, day, setting>>
-----------------------------------------------------------------------------
(* The ends of a request.                                                  *)

MaySettle(s, m, consumed) ==
  /\ sub[s].reserved >= m
  /\ sub[s].used + consumed + sub[s].reserved - m <= sub[s].quota

Consumed(r, cost) == Least(bill[r].plan, cost)

\* What the reservations of plan and wallet do not cover is collected as far as
\* the wallet has it, the rest is waived.
Over(r, cost) == AtLeast0(cost - Target(r, bill[r].sub))

Settle(r, cost) ==
  LET b == bill[r]
      c == Consumed(r, cost) IN
  /\ b.status = "open"
  /\ b.plan > 0 => MaySettle(b.sub, b.plan, c)
  /\ \E waived \in 0..Over(r, cost) :
       bill' = [bill EXCEPT ![r] =
                  [b EXCEPT !.status = "settled", !.plan = c,
                            !.amount = cost - waived, !.day = day]]
  /\ sub' = IF b.plan = 0 THEN sub
            ELSE [sub EXCEPT ![b.sub].reserved = @ - b.plan, ![b.sub].used = @ + c]
  /\ UNCHANGED <<bound, seat, day, txn, setting>>

Release(r) ==
  LET b == bill[r] IN
  /\ b.status = "open"
  /\ b.plan > 0 => sub[b.sub].reserved >= b.plan
  /\ bill' = [bill EXCEPT ![r].status = "released"]
  /\ sub' = IF b.plan = 0 THEN sub ELSE [sub EXCEPT ![b.sub].reserved = @ - b.plan]
  /\ UNCHANGED <<bound, seat, day, txn, setting>>
-----------------------------------------------------------------------------
(* The life of the subscriptions, each operation one transaction under the  *)
(* lock of the row; its price is the wallet's matter.                       *)

IsActive(s) == sub[s].status = "active"

Sold(shared) ==
  [status |-> "active", over |-> FALSE, shared |-> shared, quota |-> Quota,
   used |-> 0, reserved |-> 0, given |-> 0]

\* The index admits one active subscription of a user.
Replaced(s, old, new) ==
  sub' = [sub EXCEPT ![s] = [old EXCEPT !.status = "expired"],
                     ![new] = Sold(old.shared)]

Rebind(s, new) == bound' = [k \in Keys |-> IF bound[k] = s THEN new ELSE bound[k]]

Unsold(new) == sub[new].status = "unsold"

Renew(s, new) ==
  /\ IsActive(s) /\ Unsold(new)
  /\ Replaced(s, sub[s], new) /\ Rebind(s, new)
  /\ UNCHANGED <<seat, bill, day, txn, setting>>

\* What is left of the old quota is credited against the price of the new.
Change(s, new) ==
  /\ IsActive(s) /\ Unsold(new)
  /\ Replaced(s, [sub[s] EXCEPT !.given = Room(s)], new) /\ Rebind(s, new)
  /\ UNCHANGED <<seat, bill, day, txn, setting>>

Cancel(s) ==
  /\ IsActive(s)
  /\ sub' = [sub EXCEPT ![s].status = "cancelled"]
  /\ UNCHANGED <<bound, seat, bill, day, txn, setting>>

\* Lapsed subscriptions are expired first.  A new organisation has no members.
Purchase(new) ==
  /\ Unsold(new)
  /\ \A s \in Subs : IsActive(s) => sub[s].over
  /\ sub' = [s \in Subs |-> IF s = new THEN Sold(FALSE)
                            ELSE IF IsActive(s) THEN [sub[s] EXCEPT !.status = "expired"]
                            ELSE sub[s]]
  /\ UNCHANGED <<bound, seat, bill, day, txn, setting>>

\* Bounded: a pack is added to a subscription of the first quota only.
GrantPack(s) ==
  /\ IsActive(s) /\ ~sub[s].over /\ sub[s].quota = Quota
  /\ sub' = [sub EXCEPT ![s].quota = @ + Pack]
  /\ UNCHANGED <<bound, seat, bill, day, txn, setting>>

\* Of an ended subscription endAt is not looked at.
Lapse(s) ==
  /\ IsActive(s) /\ ~sub[s].over
  /\ sub' = [sub EXCEPT ![s].over = TRUE]
  /\ UNCHANGED <<bound, seat, bill, day, txn, setting>>

RemoveMember(u) ==
  /\ u # Owner /\ seat[u] = "active"
  /\ seat' = [seat EXCEPT ![u] = "left"]
  /\ UNCHANGED <<sub, bound, bill, day, txn, setting>>

AcceptInvitation(u) ==
  /\ seat[u] # "active"
  /\ \E s \in Subs : IsActive(s) /\ ~sub[s].over /\ sub[s].shared
  /\ Cardinality({m \in Users : seat[m] = "active"}) < Seats
  /\ seat' = [seat EXCEPT ![u] = "active"]
  /\ UNCHANGED <<sub, bound, bill, day, txn, setting>>

DayPasses == day < setting.days /\ day' = day + 1 /\ UNCHANGED <<sub, bound, seat, bill, txn, setting>>
-----------------------------------------------------------------------------
Authorize(t) ==
  \/ \E r \in Requests : Begin(t, r)
  \/ Resolve(t) \/ Lock(t) \/ Reread(t)
  \/ ReadSpent(t) \/ ReadExposure(t) \/ Snapshot(t)
  \/ MembersExposure(t) \/ MembersDay(t) \/ MembersMonth(t)
  \/ Grant(t) \/ Replay(t) \/ Refuse(t)

Finish(r) == Release(r) \/ \E cost \in Costs : Settle(r, cost)

Subscribe ==
  \/ \E s, new \in Subs : Renew(s, new) \/ Change(s, new)
  \/ \E s \in Subs : Cancel(s) \/ Purchase(s) \/ GrantPack(s) \/ Lapse(s)

Join == \E u \in Users : RemoveMember(u) \/ AcceptInvitation(u)

Next ==
  \/ \E t \in Txns : Authorize(t)
  \/ \E r \in Requests : Finish(r)
  \/ Subscribe \/ Join \/ DayPasses

Spec == Init /\ [][Next]_vars
-----------------------------------------------------------------------------
Holding(s) == {r \in Requests : bill[r].sub = s /\ bill[r].status = "open"}
Charged(s) == {r \in Requests : bill[r].sub = s /\ bill[r].status = "settled"}
Plans(R) == SumFunctionOnSet([r \in Requests |-> bill[r].plan], R)

(* A subscription knows what its requests hold and have consumed, and never  *)
(* gives more than its quota, whoever shares it and however it ends: the     *)
(* guards of tryReserveQuota and trySettleQuota against the bills.           *)
QuotaIsKept ==
  /\ TypeOK
  /\ \A s \in Subs : /\ sub[s].reserved = Plans(Holding(s))
                     /\ sub[s].used = Plans(Charged(s))
                     /\ sub[s].used + sub[s].reserved <= sub[s].quota

(* What a change of plan has credited to the owner is not spent by a request *)
(* which read the old subscription before the change and reserves after it.  *)
ChangedValueIsNotSpent ==
  \A s \in Subs : sub[s].given + sub[s].used + sub[s].reserved <= sub[s].quota

(* The requests in flight of a user, or of a key, fit its daily limit, however *)
(* many gateways admit them at once: the advisory lock of authorize.           *)
OpenIsLimited ==
  \A x \in Users \cup Keys : Limited(x) => InFlight(InScope(x)) <= DailyLimit[x]

\* What a member has of a subscription's quota: reserved, and consumed since.
Share(u, s, since) ==
  Plans({r \in OfMember(u, s) :
           \/ bill[r].status = "open"
           \/ bill[r].status = "settled" /\ bill[r].day >= since})

WithinMemberLimits(u, s) ==
  /\ MemberDaily[u] # None => Share(u, s, day) <= MemberDaily[u]
  /\ MemberMonthly[u] # None => Share(u, s, 0) <= MemberMonthly[u]

Members == Users \ {Owner}

\* All requests of the user take the advisory lock.
Serialised(u) ==
  \A r \in Requests : Call[r].user = u => Limited(u) \/ Limited(Call[r].key)

(* A member whose requests are serialised keeps to both limits on every       *)
(* subscription, though the sums are read one by one while requests settle:   *)
(* what leaves the exposure after it is read is counted twice, never missed.  *)
SerialMemberIsLimited ==
  \A u \in Members, s \in Subs : Serialised(u) => WithinMemberLimits(u, s)

(* Who is told subscription_forbidden was no active member when asked for:    *)
(* errors.ts 178, schema/org-members.ts 32.                                   *)
MembersAreServed ==
  \A t \in Txns : txn[t].forbidden => txn[t].seat # "active"
=============================================================================
