-------------------------- MODULE ChannelExposure --------------------------
(***************************************************************************)
(* The exposure of channels as PostgreSQL transactions under READ          *)
(* COMMITTED: reserveChannel, the release of a failed or expired request,  *)
(* its receipt, its settlement and the adjustments of an administrator     *)
(* meet in the rows of bills and channels.  A guarded UPDATE waits for the *)
(* row, looks at its newest version and keeps it to the commit; a plain    *)
(* SELECT sees what is committed and locks nothing; a deadlock aborts one  *)
(* of its transactions and runTx runs it again.                            *)
(*                                                                         *)
(* A bill is settled by one settlement at a time (Settlement), and the     *)
(* expiry of a lease is a release that may come at any moment.             *)
(***************************************************************************)
EXTENDS Integers, Sequences, FiniteSets, Functions

CONSTANTS
  Requests, Channels, None, Threshold, Openings,
  Txns,     \* transactions that run at once
  Loads,    \* the jobs the transactions may be given
  MaxTries  \* policy.maxAttempts of runTx

VARIABLES
  db,     \* the committed bills and channels
  draft,  \* the bills and channels a transaction has written
  txn,    \* where each transaction is
  job     \* what each is to do

vars == <<db, draft, txn, job>>

AllJobs == UNION {{L[t] : t \in Txns} : L \in Loads}
Serial == INSTANCE Exposure WITH Jobs <- AllJobs

ASSUME TriesAssumption == MaxTries \in Nat \ {0}
ASSUME LoadsAssumption == Loads \subseteq [Txns -> Serial!Job]
ASSUME NamesAssumption ==
  /\ Requests \cap Channels = {} /\ None \notin Txns \cup Channels \cup Requests
ASSUME FiniteAssumption == IsFiniteSet(Requests)

\* What the requests that are not ended have set aside on each channel.
Owed(s) ==
  \A c \in Channels :
    s.chan[c].reserved =
      FoldFunction(+, 0,
        [r \in {q \in Requests : /\ s.bill[q].channel = c
                                 /\ s.bill[q].status \in {"open", "pending"}}
           |-> s.bill[r].reserved])

\* A bill waits to settle with the receipt of a channel.
Receipted(s) ==
  \A r \in Requests : s.bill[r].status = "pending" => s.bill[r].paid \in Channels

ASSUME OpeningsAssumption ==
  \A s \in Openings : s \in Serial!DbType /\ Owed(s) /\ Receipted(s)
-----------------------------------------------------------------------------
NoBill ==
  [status |-> "open", channel |-> None, reserved |-> 0, bound |-> 0,
   paid |-> None, cost |-> 0]

\* read is the bill as the transaction knows it; step counts its statements.
Txn ==
  [step : Nat, read : Serial!Bill, runs : 1..MaxTries,
   result : {"open", "done", "refused", "conflict", "defect", "deadlocked"}]

NewTxn == [step |-> 0, read |-> NoBill, runs |-> 1, result |-> "open"]

NoDraft == [bill |-> <<>>, chan |-> <<>>]

TypeOK ==
  /\ db \in Serial!DbType
  /\ txn \in [Txns -> Txn]
  /\ \A t \in Txns : /\ DOMAIN draft[t].bill \subseteq Requests
                     /\ DOMAIN draft[t].chan \subseteq Channels
  /\ job \in Loads

Init ==
  /\ Serial!Init
  /\ draft = [t \in Txns |-> NoDraft]
  /\ txn = [t \in Txns |-> NewTxn]
  /\ job \in Loads

\* The rows a transaction has written, and keeps locked until it ends.
Rows(t) == DOMAIN draft[t].bill \cup DOMAIN draft[t].chan

\* The newest version of a row that t may write: its own or the committed one.
BillOf(t, r) == IF r \in DOMAIN draft[t].bill THEN draft[t].bill[r] ELSE db.bill[r]
ChanOf(t, c) == IF c \in DOMAIN draft[t].chan THEN draft[t].chan[c] ELSE db.chan[c]

Put(f, x, v) == [y \in DOMAIN f \cup {x} |-> IF y = x THEN v ELSE f[y]]
-----------------------------------------------------------------------------
Returning(b) == IF b.channel = None THEN <<>> ELSE <<"decrease">>

\* The statements of a job after its first look at the bill.  A switch sets the
\* new exposure aside before it gives back the old, and claims the bill last.
ReleasingFirst(j, b) ==
  IF Serial!Covered(b, j) THEN <<>>
  ELSE IF b.channel = j.channel THEN <<"increase", "claim">>
  ELSE Returning(b) \o <<"increase", "claim">>
Reserving(j, b) ==
  IF Serial!Covered(b, j) THEN <<>>
  ELSE IF b.channel = j.channel THEN <<"increase", "claim">>
  ELSE <<"increase">> \o Returning(b) \o <<"claim">>

Statements(j, b) ==
  CASE j.kind = "reserve" -> IF b.status = "open" THEN Reserving(j, b) ELSE <<>>
    [] j.kind = "fail" -> <<"release">> \o Returning(b)
    [] j.kind = "settle" ->
         IF b.status = "pending" /\ Serial!Accepted(b)
         THEN Returning(b) \o <<"finalize", "deduct">> ELSE <<>>
    [] OTHER -> <<j.kind>>

Running(t) == txn[t].result = "open" /\ txn[t].step > 0
Plan(t) == Statements(job[t], txn[t].read)
Finished(t) == Running(t) /\ txn[t].step > Len(Plan(t))
Now(t) == Plan(t)[txn[t].step]

\* The row that the statement writes.
Target(t) ==
  LET s == Now(t) IN
  CASE s \in {"increase", "adjust", "recharge"} -> job[t].channel
    [] s = "decrease" -> txn[t].read.channel
    [] s = "deduct" -> txn[t].read.paid
    [] OTHER -> job[t].request

\* The transaction that has the row of the next statement.
Blocker(t) ==
  IF Running(t) /\ ~Finished(t) /\ \E u \in Txns \ {t} : Target(t) \in Rows(u)
  THEN CHOOSE u \in Txns \ {t} : Target(t) \in Rows(u) ELSE None

InCircle(t) ==
  LET waiting == {u \in Txns : Blocker(u) # None} IN
  \E S \in SUBSET waiting : t \in S /\ {Blocker(u) : u \in S} = S
-----------------------------------------------------------------------------
End(t, why) ==
  /\ txn' = [txn EXCEPT ![t].result = why]
  /\ draft' = [draft EXCEPT ![t] = NoDraft]
  /\ UNCHANGED job

Rollback(t, why) == End(t, why) /\ UNCHANGED db

CommitAs(t, why) ==
  /\ db' = [bill |-> [r \in Requests |-> BillOf(t, r)],
            chan |-> [c \in Channels |-> ChanOf(t, c)]]
  /\ End(t, why)

\* The statement found its row: it is written, and what it returns is known.
WriteBill(t, b) ==
  /\ draft' = [draft EXCEPT ![t].bill = Put(@, job[t].request, b)]
  /\ txn' = [txn EXCEPT ![t].step = @ + 1, ![t].read = b]
  /\ UNCHANGED <<db, job>>

WriteChan(t, c) ==
  /\ draft' = [draft EXCEPT ![t].chan = Put(@, Target(t), c)]
  /\ txn' = [txn EXCEPT ![t].step = @ + 1]
  /\ UNCHANGED <<db, job>>

At(t, s) == Running(t) /\ ~Finished(t) /\ Now(t) = s /\ Blocker(t) = None
-----------------------------------------------------------------------------
\* findByRequestId and findProcessingForClaim lock nothing; a job that does not
\* look first goes to its UPDATE.
Begin(t) ==
  /\ txn[t].result = "open" /\ txn[t].step = 0
  /\ txn' = [txn EXCEPT ![t].step = 1,
                        ![t].read = IF job[t].kind \in {"reserve", "settle"}
                                    THEN db.bill[job[t].request] ELSE NoBill]
  /\ UNCHANGED <<db, draft, job>>

Finish(t) ==
  /\ Finished(t)
  /\ CommitAs(t, "done")

\* tryIncreaseReserved: its refusal ends the job with nothing written before.
Fits(t, c) == Serial!Available(c) >= Serial!Delta(txn[t].read, job[t])
Increase(t) ==
  /\ At(t, "increase")
  /\ LET c == ChanOf(t, Target(t)) IN
     IF Fits(t, c)
     THEN WriteChan(t, Serial!SetAside(c, Serial!Delta(txn[t].read, job[t])))
     ELSE CommitAs(t, "refused")

\* tryDecreaseReserved, by the amount the transaction knows of.
Decrease(t) ==
  /\ At(t, "decrease")
  /\ LET c == ChanOf(t, Target(t)) IN
     IF c.reserved >= txn[t].read.reserved
     THEN WriteChan(t, Serial!GivenBack(c, txn[t].read.reserved))
     ELSE Rollback(t, "defect")

\* casClaimChannel: the bill is still open and still as it was read.
OpenOnly(t, b) == b.status = "open"
AsRead(t, b) ==
  /\ b.status = "open"
  /\ b.channel = txn[t].read.channel /\ b.reserved = txn[t].read.reserved
Claim(t) ==
  /\ At(t, "claim")
  /\ LET b == BillOf(t, Target(t)) IN
     IF AsRead(t, b) THEN WriteBill(t, Serial!Claimed(b, job[t]))
     ELSE Rollback(t, "conflict")

Release(t) ==
  /\ At(t, "release")
  /\ LET b == BillOf(t, Target(t)) IN
     IF b.status = "open" THEN WriteBill(t, Serial!As(b, "released"))
     ELSE CommitAs(t, "refused")

Succeed(t) ==
  /\ At(t, "succeed")
  /\ LET b == BillOf(t, Target(t)) IN
     IF b.status = "open" THEN WriteBill(t, Serial!WithReceipt(b, job[t]))
     ELSE CommitAs(t, "refused")

\* casFinalizeSettled under the claim of the settlement.
Finalize(t) ==
  /\ At(t, "finalize")
  /\ LET b == BillOf(t, Target(t)) IN
     IF b.status = "pending" THEN
       /\ draft' = [draft EXCEPT ![t].bill = Put(@, Target(t), Serial!As(b, "settled"))]
       /\ txn' = [txn EXCEPT ![t].step = @ + 1]
       /\ UNCHANGED <<db, job>>
     ELSE Rollback(t, "conflict")

Deduct(t) ==
  /\ At(t, "deduct")
  /\ WriteChan(t, Serial!Deducted(ChanOf(t, Target(t)), txn[t].read.cost))

Adjust(t) ==
  /\ At(t, "adjust")
  /\ LET c == ChanOf(t, Target(t)) IN
     IF c.budget + job[t].amount >= 0 THEN WriteChan(t, Serial!Adjusted(c, job[t].amount))
     ELSE CommitAs(t, "refused")

Recharge(t) ==
  /\ At(t, "recharge")
  /\ WriteChan(t, Serial!Recharged(ChanOf(t, Target(t)), job[t].amount))

\* PostgreSQL ends a circle of waits, and runTx begins again.
MayRunAgain(t) == txn[t].runs < MaxTries
SameRun(t) == txn[t].runs
NextRun(t) == txn[t].runs + 1
Deadlock(t) ==
  /\ InCircle(t)
  /\ IF MayRunAgain(t)
     THEN /\ txn' = [txn EXCEPT ![t] = [NewTxn EXCEPT !.runs = NextRun(t)]]
          /\ draft' = [draft EXCEPT ![t] = NoDraft]
          /\ UNCHANGED <<db, job>>
     ELSE Rollback(t, "deadlocked")

Step(t) ==
  \/ Begin(t) \/ Finish(t) \/ Increase(t) \/ Decrease(t) \/ Claim(t)
  \/ Release(t) \/ Succeed(t) \/ Finalize(t) \/ Deduct(t)
  \/ Adjust(t) \/ Recharge(t) \/ Deadlock(t)

Next == \E t \in Txns : Step(t)

Spec == Init /\ [][Next]_vars

\* Every statement ends, and PostgreSQL always finds a deadlock.
FairSpec == Spec /\ \A t \in Txns : WF_vars(Step(t))
-----------------------------------------------------------------------------
\* However switches, releases, settlements and adjustments interleave, abort
\* and are retried, the bills and channels move as if one ran after the other.
RunsSerially == Serial!Spec

\* The exposure of a channel is what the requests that are not ended have set
\* aside on it: none is orphaned by a switch and none is given back twice, and
\* no column leaves its domain.
ReservedIsOwed == TypeOK /\ Owed(db)

\* However often deadlocks abort them, the transactions end.
EveryJobEnds == \A t \in Txns : <>(txn[t].result # "open")
=============================================================================
