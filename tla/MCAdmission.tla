---------------------------- MODULE MCAdmission ----------------------------
(* Constants for model-checking Admission: own has the subscription of an      *)
(* organisation, mem is or was a member of it; two requests or three.          *)
EXTENDS Admission, TLC

CONSTANTS own, mem, ko, km, kn, s1, s2, r1, r2, r3, t1, t2

Asks(u, k, est, need) ==
  [user |-> u, key |-> k, est |-> est, need |-> need, fixed |-> need]

NoMemberLimits == [u \in Users |-> None]
HasLeft == (own :> "active") @@ (mem :> "left")
HasSeat == (own :> "active") @@ (mem :> "active")

Sale(shared, quota) ==
  [status |-> "active", over |-> FALSE, shared |-> shared, quota |-> quota,
   used |-> 0, reserved |-> 0, given |-> 0]

\* s1 is the subscription of the organisation, s2 is to be sold or long over.
Opened(quota, second) ==
  (s1 :> Sale(TRUE, quota)) @@ (s2 :> [Sale(FALSE, 0) EXCEPT !.status = second])

\* A pool under its owner and a member, while it is renewed, changed, cancelled,
\* bought again and enlarged.
Pool ==
  [call |-> (r1 :> Asks(mem, km, 2, 2)) @@ (r2 :> Asks(own, ko, 2, 2))
              @@ (r3 :> Asks(mem, kn, 1, 1)),
   asked |-> {r1, r2},
   daily |-> [x \in Users \cup Keys |-> None],
   memberDaily |-> NoMemberLimits, memberMonthly |-> NoMemberLimits,
   fallback |-> {ko}, quota |-> 3, seats |-> 2,
   members |-> HasLeft, subs |-> Opened(3, "unsold"),
   bound |-> [k \in Keys |-> s1], days |-> 0]

\* Three requests of the member by two keys: the user and the second key have
\* daily limits, the member has limits of his own.  The subscription has its pack
\* already.
Limits ==
  [call |-> (r1 :> Asks(mem, km, 2, 2)) @@ (r2 :> Asks(mem, kn, 2, 1))
              @@ (r3 :> Asks(mem, km, 2, 2)),
   asked |-> Requests,
   daily |-> [x \in Users \cup Keys |->
              CASE x = mem -> 5 [] x = kn -> 2 [] OTHER -> None],
   memberDaily |-> [u \in Users |-> IF u = mem THEN 3 ELSE None],
   memberMonthly |-> [u \in Users |-> IF u = mem THEN 4 ELSE None],
   fallback |-> {km}, quota |-> 5, seats |-> 1,
   members |-> HasLeft, subs |-> Opened(6, "expired"),
   bound |-> [k \in Keys |-> s1], days |-> 1]

\* The pool is left with 1 beside a free request and one which, without a
\* subscription, is funded with a fixed amount above its estimate.
Policies ==
  [Pool EXCEPT !.call = (r1 :> Asks(mem, km, 0, 0)) @@ (r3 :> Asks(mem, kn, 1, 1))
                          @@ (r2 :> [Asks(own, ko, 1, 1) EXCEPT !.fixed = 3]),
               !.quota = 1, !.subs = Opened(1, "unsold"),
               !.bound = [k \in Keys |-> IF k = ko THEN None ELSE s1]]

AllSettings == {Pool, Limits, Policies}
WithSeat == {[Pool EXCEPT !.members = HasSeat]}

Sym == Permutations(Txns)
=============================================================================
