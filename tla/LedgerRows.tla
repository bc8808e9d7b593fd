----------------------------- MODULE LedgerRows -----------------------------
(***************************************************************************)
(* The verbs of the wallet as PostgreSQL transactions under READ COMMITTED *)
(* (application/wallet/*, wallet-store.ts): row locks are taken one by one *)
(* and kept to the end, writes are seen by others at the commit, deadlocks *)
(* abort one of their transactions, and runTx runs it again.               *)
(*                                                                         *)
(* A verb given the transaction of its caller runs in a savepoint with     *)
(* retries of its own, and the caller is retried as a whole besides: a     *)
(* settlement, whose batch may hold the bills of several users, is such a  *)
(* program.  A verb writes only rows it has locked, so its writes are made *)
(* in one step at its end and a savepoint has only locks to give back.     *)
(***************************************************************************)
EXTENDS LedgerVerbs, Sequences, FiniteSets, Functions

CONSTANTS
  Txns,      \* transactions that run at once
  Openings,  \* the ledgers to begin with
  Loads,     \* the programs the transactions may be given
  MaxTries,  \* policy.maxAttempts of runTx
  None

ASSUME TriesAssumption == MaxTries \in Nat \ {0}

\* A program: its verbs, and whether they join a transaction of a caller.
ASSUME LoadsAssumption ==
  Loads \subseteq [Txns -> [joined : BOOLEAN, verbs : Seq(Verb)]]

\* setDebitFloor has no caller that gives it a transaction: it runs alone.
ASSUME FloorsAssumption ==
  \A L \in Loads : \A t \in Txns :
    \A i \in 1..Len(L[t].verbs) :
      L[t].verbs[i].kind = "floor" => Len(L[t].verbs) = 1

ASSUME NoneAssumption == None \notin Txns

ASSUME FiniteAssumption == IsFiniteSet(Accounts) /\ IsFiniteSet(Holds)
-----------------------------------------------------------------------------
\* The legs of all accounts add up to zero: money is neither made nor lost.
Balanced(s) == FoldFunction(+, 0, [a \in Accounts |-> s.account[a].balance]) = 0

\* verifyInvariants: in_flight is the sum of the active holds of the account.
InFlightIsHeld(s) ==
  \A u \in Users :
    s.account[u].inFlight =
      FoldFunction(+, 0,
        [h \in {x \in Holds : IsActive(s, x) /\ s.hold[x].user = u}
           |-> s.hold[h].amount])

\* The wallet begins with books that agree, within the floors: the empty one
\* does.
ASSUME OpeningsAssumption ==
  \A s \in Openings :
    /\ s \in LedgerType /\ Balanced(s) /\ InFlightIsHeld(s)
    /\ \A u \in Users : Coverage(s.account[u]) >= 0
-----------------------------------------------------------------------------

VARIABLES
  db,      \* the committed ledger
  owner,   \* the transaction that holds the lock of a row
  draft,   \* the rows a transaction has written and not committed
  txn,     \* where each transaction is
  program  \* what each is to do

vars == <<db, owner, draft, txn, program>>
-----------------------------------------------------------------------------
Rows == Accounts \cup Holds

\* seen is what a verb read before it had the lock; fresh are the locks taken
\* since the savepoint; tries counts the savepoint's attempts, runs the whole.
Txn ==
  [stage : {"observe", "lock", "ended"}, verb : Nat \ {0}, fresh : SUBSET Rows,
   seen : Nat, clamped : BOOLEAN, tries : 1..MaxTries, runs : 1..MaxTries,
   result : {"open", "committed", "refused", "incoherent", "deadlocked"}]

\* Before verb n of the k-th run of the whole.
Before(n, k) ==
  [stage |-> "observe", verb |-> n, fresh |-> {}, seen |-> 0,
   clamped |-> FALSE, tries |-> 1, runs |-> k, result |-> "open"]

IsDraft(d) ==
  /\ DOMAIN d.account \subseteq Accounts /\ d.account \in [DOMAIN d.account -> Account]
  /\ DOMAIN d.hold \subseteq Holds /\ d.hold \in [DOMAIN d.hold -> Hold]
NoDraft == [account |-> <<>>, hold |-> <<>>]

TypeOK ==
  /\ db \in LedgerType
  /\ owner \in [Rows -> Txns \cup {None}]
  /\ txn \in [Txns -> Txn]
  /\ DOMAIN draft = Txns /\ \A t \in Txns : IsDraft(draft[t])
  /\ program \in Loads

Init ==
  /\ db \in Openings
  /\ owner = [r \in Rows |-> None]
  /\ draft = [t \in Txns |-> NoDraft]
  /\ txn = [t \in Txns |-> Before(1, 1)]
  /\ program \in Loads

\* What t reads: its own writes over what is committed.
Over(f, g) == [x \in DOMAIN g |-> IF x \in DOMAIN f THEN f[x] ELSE g[x]]
View(t) == [account |-> Over(draft[t].account, db.account),
            hold |-> Over(draft[t].hold, db.hold)]

Current(t) == program[t].verbs[txn[t].verb]
Done(t) == txn[t].verb > Len(program[t].verbs)
-----------------------------------------------------------------------------
\* lockAccounts takes several rows in the order of their ids.
Ordered(a, b) == IF a < b THEN <<a, b>> ELSE <<b, a>>

\* A settlement locks the hold, its account, and then both sides of the legs.
SettleWithoutRevenue(h, u) == <<h, u>>
LockedBySettle(h, u) == <<h, u>> \o Ordered(u, Revenue)

\* A new hold is inserted under its reference key and guarded on its account.
ReserveWithoutAccount(h, u) == <<h>>
LockedByReserve(h, u) == <<h, u>>

\* The rows verb v locks, in that order.
LockOrder(v, s) ==
  CASE v.kind \in {"authorize", "overhold"} -> LockedByReserve(v.hold, v.user)
    [] v.kind \in {"settle", "settleover"} ->
         IF IsActive(s, v.hold) THEN LockedBySettle(v.hold, s.hold[v.hold].user)
         ELSE <<v.hold>>
    [] v.kind = "release" ->
         IF IsActive(s, v.hold) THEN <<v.hold, s.hold[v.hold].user>>
         ELSE <<v.hold>>
    [] v.kind = "move" -> Ordered(v.from, v.to)
    [] v.kind \in {"creditline", "floor"} -> <<v.user>>

Mine(t, r) == owner[r] = t

\* The row that t locks next: the first of its verb's order that is not its own.
FirstMissing(t, order) ==
  {order[i] : i \in {k \in DOMAIN order :
     ~Mine(t, order[k]) /\ \A j \in 1..k - 1 : Mine(t, order[j])}}

Wanted(t) ==
  IF txn[t].stage = "lock" /\ ~Done(t)
  THEN UNION {FirstMissing(t, order) : order \in {LockOrder(Current(t), View(t))}}
  ELSE {}

\* The transactions t waits for, one at most.
Blockers(t) == {owner[r] : r \in Wanted(t)} \ {None}

\* PostgreSQL sees a circle of waits.
InCircle(t) ==
  \E S \in SUBSET {u \in Txns : Blockers(u) # {}} :
    t \in S /\ UNION {Blockers(u) : u \in S} = S
-----------------------------------------------------------------------------
Free(R) == owner' = [r \in Rows |-> IF r \in R THEN None ELSE owner[r]]
RowsOf(t) == {r \in Rows : Mine(t, r)}

NextVerb(t) ==
  txn' = [txn EXCEPT ![t] = Before(txn[t].verb + 1, txn[t].runs)]

\* The whole transaction is rolled back for good.
Abandon(t, why) ==
  /\ txn' = [txn EXCEPT ![t].stage = "ended", ![t].result = why, ![t].fresh = {}]
  /\ draft' = [draft EXCEPT ![t] = NoDraft]
  /\ Free(RowsOf(t))
  /\ UNCHANGED <<db, program>>

\* What a verb reads before it locks: the ceiling of an excess, or whether the
\* new floor covers the account.  A ceiling of zero ends the excess verb.
CanCollect(t, v) ==
  LET c == Ceiling(View(t).account[v.user]) IN IF c < v.amount THEN c ELSE v.amount

Observe(t) ==
  /\ txn[t].stage = "observe" /\ ~Done(t)
  /\ LET v == Current(t) IN
       \/ /\ v.kind = "overhold"
          /\ IF CanCollect(t, v) = 0 THEN NextVerb(t)
             ELSE txn' = [txn EXCEPT ![t].stage = "lock", ![t].seen = CanCollect(t, v)]
          /\ UNCHANGED <<db, owner, draft, program>>
       \/ /\ v.kind = "floor"
          /\ IF FloorFits(View(t).account[v.user], v.limit)
             THEN /\ txn' = [txn EXCEPT ![t].stage = "lock"]
                  /\ UNCHANGED <<db, owner, draft, program>>
             ELSE Abandon(t, "refused")
       \/ /\ v.kind \notin {"overhold", "floor"}
          /\ txn' = [txn EXCEPT ![t].stage = "lock"]
          /\ UNCHANGED <<db, owner, draft, program>>

Lock(t) ==
  \E r \in Wanted(t) :
    /\ owner[r] = None
    /\ owner' = [owner EXCEPT ![r] = t]
    /\ txn' = [txn EXCEPT ![t].fresh = @ \cup {r}]
    /\ UNCHANGED <<db, draft, program>>
-----------------------------------------------------------------------------
Locked(t) == txn[t].stage = "lock" /\ ~Done(t) /\ Wanted(t) = {}

\* The guard of conditionalReserve for an excess, on the row it has locked; a
\* replay does not come to it.
AlwaysFits(t) == TRUE
ExcessFits(t) ==
  \/ ~IsNew(View(t), Current(t).hold)
  \/ Coverage(View(t).account[Current(t).user]) >= txn[t].seen

\* An excess takes what it saw.
Exceed(s, v, m) ==
  IF IsNew(s, v.hold) THEN {Reserved(s, v.hold, v.user, m)}
  ELSE Replayed(s, v.hold, v.user, m)

\* The ledgers the verb may leave, once its rows are locked; a floor is written
\* without another look.
Effects(t) ==
  LET v == Current(t) s == View(t) IN
  CASE v.kind = "overhold" -> Exceed(s, v, txn[t].seen)
    [] v.kind = "floor" -> {WithFloor(s, v)}
    [] OTHER -> Outcomes(v, s)

\* The rows of s that differ from what t reads, over what it wrote before.
Written(t, s) ==
  LET changed(f, g, old) == {x \in DOMAIN f : f[x] # g[x]} \cup DOMAIN old
      part(f, g, old) == [x \in changed(f, g, old) |-> f[x]]
  IN [account |-> part(s.account, View(t).account, draft[t].account),
      hold |-> part(s.hold, View(t).hold, draft[t].hold)]

Perform(t) ==
  /\ Locked(t)
  /\ Current(t).kind = "overhold" => ExcessFits(t)
  /\ \E s \in Effects(t) : draft' = [draft EXCEPT ![t] = Written(t, s)]
  /\ NextVerb(t)
  /\ UNCHANGED <<db, owner, program>>

Refuse(t) ==
  /\ Locked(t)
  /\ Effects(t) = {}
  /\ Abandon(t, "refused")

\* The excess no longer fits: the savepoint is undone, the ceiling read again,
\* and tried once more; after that all of it is waived.
Clamp(t) ==
  /\ Locked(t)
  /\ Current(t).kind = "overhold" /\ ~ExcessFits(t)
  /\ LET c == CanCollect(t, Current(t))
         less == IF c < txn[t].seen THEN c ELSE txn[t].seen
     IN IF txn[t].clamped \/ less = 0 THEN NextVerb(t)
        ELSE txn' = [txn EXCEPT ![t].seen = less, ![t].clamped = TRUE,
                                ![t].fresh = {}, ![t].tries = 1]
  /\ Free(txn[t].fresh)
  /\ UNCHANGED <<db, draft, program>>

\* The deferred trigger looks at every account the transaction wrote.
Coherent(t) ==
  \A u \in Users \cap DOMAIN draft[t].account :
    Coverage(draft[t].account[u]) >= 0

Commit(t) ==
  /\ txn[t].stage = "observe" /\ Done(t)
  /\ IF Coherent(t)
     THEN /\ db' = View(t)
          /\ txn' = [txn EXCEPT ![t].stage = "ended", ![t].result = "committed"]
          /\ draft' = [draft EXCEPT ![t] = NoDraft]
          /\ Free(RowsOf(t))
          /\ UNCHANGED program
     ELSE Abandon(t, "incoherent")

MayTryAgain(n) == n < MaxTries
SameTry(n) == n
NextTry(n) == n + 1

\* A deadlock aborts one transaction of the circle.  A joined verb goes back to
\* its savepoint and is retried with the earlier locks kept, then the caller is.
Deadlock(t) ==
  /\ InCircle(t)
  /\ IF program[t].joined /\ MayTryAgain(txn[t].tries)
     THEN /\ txn' = [txn EXCEPT ![t] = [Before(txn[t].verb, txn[t].runs) EXCEPT
                                          !.tries = NextTry(txn[t].tries)]]
          /\ Free(txn[t].fresh)
          /\ UNCHANGED <<db, draft, program>>
     ELSE IF MayTryAgain(txn[t].runs)
     THEN /\ txn' = [txn EXCEPT ![t] = Before(1, NextTry(txn[t].runs))]
          /\ draft' = [draft EXCEPT ![t] = NoDraft]
          /\ Free(RowsOf(t))
          /\ UNCHANGED <<db, program>>
     ELSE Abandon(t, "deadlocked")

Step(t) ==
  \/ Observe(t) \/ Lock(t) \/ Perform(t) \/ Refuse(t) \/ Clamp(t)
  \/ Commit(t) \/ Deadlock(t)

Next == \E t \in Txns : Step(t)

Spec == Init /\ [][Next]_vars

\* Statements have a timeout and a deadlock is always found.
FairSpec == Spec /\ \A t \in Txns : WF_vars(Step(t))
-----------------------------------------------------------------------------
AllPrograms == UNION {{L[t].verbs : t \in Txns} : L \in Loads}

Serial == INSTANCE Ledger WITH ledger <- db, Programs <- AllPrograms

\* However transactions interleave, fail and are retried, the committed ledger
\* moves as if they had run one after the other, each whole or not at all; an
\* excess is never more than the account covers at that moment.
RunsSerially == Serial!Spec

\* What the wallet's audit of its own books looks for: whatever the order in
\* which transactions lock, write, abort and commit, no balance is moved without
\* its counterpart, no in_flight drifts from the holds that make it up, and no
\* column leaves its domain.
BooksAgree == TypeOK /\ Balanced(db) /\ InFlightIsHeld(db)

\* The trigger is the only thing that keeps a floor from being lowered under
\* what was spent since it was checked; no verb that moves money meets it.
OnlyFloorsAreIncoherent ==
  \A t \in Txns : txn[t].result = "incoherent" =>
    \E i \in 1..Len(program[t].verbs) : program[t].verbs[i].kind = "floor"

\* However often deadlocks abort them, transactions end.
EveryTransactionEnds == \A t \in Txns : <>(txn[t].stage = "ended")

=============================================================================
