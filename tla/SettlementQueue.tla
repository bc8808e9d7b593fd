-------------------------- MODULE SettlementQueue --------------------------
(***************************************************************************)
(* How the worker comes to claim a due request: the sweep and the wake-up  *)
(* put a BullMQ job of the request's id into Redis (settlement-sweep.ts,   *)
(* postgres-notify.ts, settlement-queue.ts), a consumer takes the job and  *)
(* claims in PostgreSQL (settlement.ts).  PostgreSQL is the truth and the  *)
(* jobs are triggers, which may be lost, retained or run again.            *)
(*                                                                         *)
(* BullMQ is external and modelled by what the code relies on: adding an   *)
(* id that exists in any state does nothing, a finished job is retained    *)
(* for a while, and a job whose consumer died is handed out again.         *)
(*                                                                         *)
(* What a settlement does to the money is Settlement; here it ends in one  *)
(* of the outcomes of processSettlementRequest.                            *)
(***************************************************************************)
EXTENDS Naturals, FiniteSets

CONSTANTS
  Requests,
  Enqueuers,     \* runs of enqueueMany that may overlap
  Consumers,     \* slots of the BullMQ workers (concurrency)
  Limit,         \* worker.settle.batchSize, of the sweep
  BatchSize,     \* worker.settle.settleBatchSize, of the consumer
  JobAttempts,   \* attempts of a job
  MaxSettlements, \* settlement attempts before a request is dead
  MaxFailures,   \* bounds lost jobs, errors, crashes and lost leases
  Null

ASSUME QueueAssumption ==
  /\ {Limit, BatchSize, JobAttempts, MaxSettlements} \subseteq Nat \ {0}
  /\ MaxFailures \in Nat
  /\ Null \notin Consumers \union Requests

VARIABLES
  row,       \* the billing row of each request
  job,       \* the job of each id in Redis
  enq,       \* the enqueuers
  con,       \* the consumers
  failures

queueVars == <<row, job, enq, con, failures>>
-----------------------------------------------------------------------------
Row ==
  [state : {"open", "due", "claimed", "backoff", "final"},
   holder : Consumers \union {Null}, attempts : 0..MaxSettlements]

Live == {"waiting", "active", "delayed"}
Terminal == {"completed", "failed"}
Job ==
  [state : {"none"} \union Live \union Terminal,
   made : 0..JobAttempts, lock : Consumers \union {Null}]

NoJob == [state |-> "none", made |-> 0, lock |-> Null]

\* todo: the ids of the batch; recent: those whose job finished since the
\* recheck began; seen: whether the job object that was read says so.
Enqueuer ==
  [step : {"idle", "bulk", "get", "state", "remove", "add"},
   todo : SUBSET Requests, id : Requests \union {Null},
   recent : SUBSET Requests, seen : BOOLEAN]

NoBatch ==
  [step |-> "idle", todo |-> {}, id |-> Null, recent |-> {}, seen |-> FALSE]

Consumer ==
  [step : {"idle", "claim", "extras", "batch", "single", "throw", "return"},
   id : Requests \union {Null}, extras : SUBSET Requests]

NoWork == [step |-> "idle", id |-> Null, extras |-> {}]

QueueTypeOK ==
  /\ row \in [Requests -> Row]
  /\ job \in [Requests -> Job]
  /\ enq \in [Enqueuers -> Enqueuer]
  /\ con \in [Consumers -> Consumer]
  /\ failures \in 0..MaxFailures

Due == {r \in Requests : row[r].state = "due"}

\* Nobody is still working on the row.
Abandoned(r) ==
  \A c \in Consumers : row[r].holder = c => r \notin {con[c].id} \union con[c].extras

QueueInit ==
  /\ row = [r \in Requests |-> [state |-> "open", holder |-> Null, attempts |-> 0]]
  /\ job = [r \in Requests |-> NoJob]
  /\ enq = [e \in Enqueuers |-> NoBatch]
  /\ con = [c \in Consumers |-> NoWork]
  /\ failures = 0

\* A failure that the code survives, of which a behaviour has MaxFailures.
Failure == failures < MaxFailures /\ failures' = failures + 1
-----------------------------------------------------------------------------
(* The rows, as far as others move them. *)

\* A signal leaves the request pending.
Signal(r) ==
  /\ row[r].state = "open"
  /\ row' = [row EXCEPT ![r].state = "due"]
  /\ UNCHANGED <<job, enq, con, failures>>

BackoffEnds(r) ==
  /\ row[r].state = "backoff"
  /\ row' = [row EXCEPT ![r].state = "due"]
  /\ UNCHANGED <<job, enq, con, failures>>

Recovered(r) ==
  /\ row[r].state = "claimed"
  /\ row' = [row EXCEPT ![r].state = "due", ![r].holder = Null]
  /\ UNCHANGED <<job, enq, con>>

\* The claim of a consumer that is gone expires and is recovered.
Recover(r) == Abandoned(r) /\ Recovered(r) /\ UNCHANGED failures

\* A settlement that is slower than its lease is a failure.
LoseLease(r) == ~Abandoned(r) /\ Recovered(r) /\ Failure
-----------------------------------------------------------------------------
(* enqueueMany, run by the sweep and by the wake-up, neither of which waits *)
(* for its last run.                                                        *)

\* Which of the due rows come first is left open.
StartSweep(e) ==
  /\ enq[e] = NoBatch
  /\ Due # {}
  /\ \E ids \in SUBSET Due :
       /\ ids # {} /\ Cardinality(ids) <= Limit
       /\ Cardinality(ids) = Limit \/ ids = Due
       /\ enq' = [enq EXCEPT ![e] = [NoBatch EXCEPT !.step = "bulk", !.todo = ids]]
  /\ UNCHANGED <<row, job, con, failures>>

\* The notice of a signal comes at any time after it, or never when the listener
\* was reconnecting.
Wake(e, r) ==
  /\ enq[e] = NoBatch
  /\ row[r].state # "open"
  /\ enq' = [enq EXCEPT ![e] = [NoBatch EXCEPT !.step = "bulk", !.todo = {r}]]
  /\ UNCHANGED <<row, job, con, failures>>

\* BullMQ answers an id that exists like one that it adds.
Added(r) ==
  IF job[r].state = "none"
  THEN [state |-> "waiting", made |-> 0, lock |-> Null]
  ELSE job[r]

AddBulk(e) ==
  /\ enq[e].step = "bulk"
  /\ job' = [r \in Requests |-> IF r \in enq[e].todo THEN Added(r) ELSE job[r]]
  /\ enq' = [enq EXCEPT ![e].step = "get"]
  /\ UNCHANGED <<row, con, failures>>

\* The enqueuer when it is done with its current id.
NextId(b) ==
  IF b.todo = {} THEN NoBatch
  ELSE [b EXCEPT !.step = "get", !.id = Null, !.recent = @ \ {b.id}, !.seen = FALSE]

\* getJob reads finishedOn with the rest of the job.
GetJob(e) ==
  /\ enq[e].step = "get"
  /\ \E r \in enq[e].todo :
       LET b == [enq[e] EXCEPT !.todo = @ \ {r}, !.id = r,
                               !.seen = job[r].state \in Terminal /\ r \in enq[e].recent]
       IN enq' = [enq EXCEPT ![e] =
            IF job[r].state = "none" THEN NextId(b) ELSE [b EXCEPT !.step = "state"]]
  /\ UNCHANGED <<row, job, con, failures>>

\* Mutant: without the exit for retained jobs.
NoLeftOver(e) == enq[e].id # Null /\ FALSE

\* A finished job that the queue retains and this batch did not start.
LeftOver(e) == job[enq[e].id].state \in Terminal /\ ~enq[e].seen

GetState(e) ==
  /\ enq[e].step = "state"
  /\ enq' = [enq EXCEPT ![e] =
       IF LeftOver(e) THEN [@ EXCEPT !.step = "remove"] ELSE NextId(@)]
  /\ UNCHANGED <<row, job, con, failures>>

\* The lock of an active job keeps it; the answer is not looked at.
Remove(e) ==
  /\ enq[e].step = "remove"
  /\ job' = [job EXCEPT ![enq[e].id] = IF @.state = "active" THEN @ ELSE NoJob]
  /\ enq' = [enq EXCEPT ![e].step = "add"]
  /\ UNCHANGED <<row, con, failures>>

Add(e) ==
  /\ enq[e].step = "add"
  /\ job' = [job EXCEPT ![enq[e].id] = Added(enq[e].id)]
  /\ enq' = [enq EXCEPT ![e] = NextId(@)]
  /\ UNCHANGED <<row, con, failures>>

\* Redis fails, or the process ends: the rest of the batch is given up.
GiveUp(e) ==
  /\ enq[e].step # "idle"
  /\ enq' = [enq EXCEPT ![e] = NoBatch]
  /\ Failure
  /\ UNCHANGED <<row, job, con>>
-----------------------------------------------------------------------------
(* The consumers: processSettlementRequest under BullMQ. *)

\* The consumer takes no notice of work that it no longer holds.
Holds(c, r) == row[r].state = "claimed" /\ row[r].holder = c

Goto(c, step) == con' = [con EXCEPT ![c].step = step]

Take(c, r) ==
  /\ con[c] = NoWork
  /\ job[r].state = "waiting"
  /\ job' = [job EXCEPT ![r].state = "active", ![r].lock = c]
  /\ con' = [con EXCEPT ![c] = [NoWork EXCEPT !.step = "claim", !.id = r]]
  /\ UNCHANGED <<row, enq, failures>>

\* Mutant: one more.
CountedOn(n) == n + 1

\* settlement_attempts is not counted beyond MaxAttempts.
Counted(n) == IF n < MaxSettlements THEN n + 1 ELSE n

Claimed(c, claims) ==
  [r \in Requests |->
     IF r \in claims
     THEN [row[r] EXCEPT !.state = "claimed", !.holder = c, !.attempts = Counted(@)]
     ELSE row[r]]

ClaimNotified(c) ==
  /\ con[c].step = "claim"
  /\ IF con[c].id \in Due
     THEN /\ row' = Claimed(c, {con[c].id})
          /\ Goto(c, IF BatchSize > 1 THEN "extras" ELSE "single")
     ELSE /\ Goto(c, "return")      \* claim_lost
          /\ UNCHANGED row
  /\ UNCHANGED <<job, enq, failures>>

ClaimExtras(c) ==
  /\ con[c].step = "extras"
  /\ \E claims \in SUBSET Due :
       /\ Cardinality(claims) <= BatchSize - 1
       /\ Cardinality(claims) = BatchSize - 1 \/ claims = Due
       /\ row' = Claimed(c, claims)
       /\ con' = [con EXCEPT ![c].extras = claims,
                             ![c].step = IF claims = {} THEN "single" ELSE "batch"]
  /\ UNCHANGED <<job, enq, failures>>

Final(c, claims) ==
  [r \in Requests |->
     IF r \in claims /\ Holds(c, r)
     THEN [row[r] EXCEPT !.state = "final", !.holder = Null]
     ELSE row[r]]

SettleBatch(c) ==
  /\ con[c].step = "batch"
  /\ row' = Final(c, {con[c].id} \union con[c].extras)
  /\ Goto(c, "return")
  /\ UNCHANGED <<job, enq, failures>>

\* The batch is rolled back: only the notified claim is processed alone, and
\* the others stay claimed.
FallBack(c) ==
  /\ con[c].step = "batch"
  /\ con' = [con EXCEPT ![c].step = "single", ![c].extras = {}]
  /\ UNCHANGED <<row, job, enq, failures>>

\* settled, or dead, or claim_lost when the lease was lost.
Settle(c) ==
  /\ con[c].step = "single"
  /\ row' = Final(c, {con[c].id})
  /\ Goto(c, "return")
  /\ UNCHANGED <<job, enq, failures>>

Retry(c) ==
  LET r == con[c].id IN
  /\ con[c].step = "single"
  /\ Holds(c, r) /\ row[r].attempts < MaxSettlements
  /\ row' = [row EXCEPT ![r].state = "backoff", ![r].holder = Null]
  /\ Goto(c, "throw")
  /\ UNCHANGED <<job, enq, failures>>

\* An exception on the way, whatever was claimed: unknown-failure.
Fail(c) ==
  /\ con[c].step \in {"claim", "extras", "single"}
  /\ Goto(c, "throw")
  /\ Failure
  /\ UNCHANGED <<row, job, enq>>

\* The job has finished for whoever is rechecking its batch meanwhile.
FinishedBeside(r) ==
  [e \in Enqueuers |->
     IF enq[e].step # "bulk" /\ r \in enq[e].todo \union {enq[e].id}
     THEN [enq[e] EXCEPT !.recent = @ \union {r}]
     ELSE enq[e]]

\* A consumer moves its job only while it has the lock.
Report(c, to) ==
  LET r == con[c].id IN
  /\ con' = [con EXCEPT ![c] = NoWork]
  /\ IF job[r].lock = c
     THEN /\ job' = [job EXCEPT ![r] = to]
          /\ enq' = IF to.state \in Terminal THEN FinishedBeside(r) ELSE enq
     ELSE UNCHANGED <<job, enq>>
  /\ UNCHANGED <<row, failures>>

Complete(c) ==
  /\ con[c].step = "return"
  /\ Report(c, [job[con[c].id] EXCEPT !.state = "completed", !.lock = Null])

\* Back off and try again, until the attempts are used up.
Thrown(j) ==
  [state |-> IF j.made + 1 < JobAttempts THEN "delayed" ELSE "failed",
   made |-> j.made + 1, lock |-> Null]

Throw(c) ==
  /\ con[c].step = "throw"
  /\ Report(c, Thrown(job[con[c].id]))

ConsumerCrash(c) ==
  /\ con[c] # NoWork
  /\ con' = [con EXCEPT ![c] = NoWork]
  /\ Failure
  /\ UNCHANGED <<row, job, enq>>
-----------------------------------------------------------------------------
(* BullMQ and Redis. *)

DelayEnds(r) ==
  /\ job[r].state = "delayed"
  /\ job' = [job EXCEPT ![r].state = "waiting"]
  /\ UNCHANGED <<row, enq, con, failures>>

\* The lock of a dead consumer expires: the job is handed out again, or fails
\* when that has happened too often.
Stalled(r) ==
  /\ job[r].state = "active"
  /\ con[job[r].lock].id # r
  /\ \E s \in {"waiting", "failed"} :
       /\ job' = [job EXCEPT ![r].state = s, ![r].lock = Null]
       /\ enq' = IF s = "failed" THEN FinishedBeside(r) ELSE enq
  /\ UNCHANGED <<row, con, failures>>

\* removeOnComplete and removeOnFail.
Evict(r) ==
  /\ job[r].state \in Terminal
  /\ job' = [job EXCEPT ![r] = NoJob]
  /\ UNCHANGED <<row, enq, con, failures>>

LoseJob(r) ==
  /\ job[r].state \in Live
  /\ job' = [job EXCEPT ![r] = NoJob]
  /\ Failure
  /\ UNCHANGED <<row, enq, con>>
-----------------------------------------------------------------------------
QueueNext ==
  \/ \E r \in Requests :
       \/ Signal(r) \/ BackoffEnds(r) \/ Recover(r) \/ LoseLease(r)
       \/ DelayEnds(r) \/ Stalled(r) \/ Evict(r) \/ LoseJob(r)
  \/ \E e \in Enqueuers :
       \/ StartSweep(e) \/ \E r \in Requests : Wake(e, r)
       \/ AddBulk(e) \/ GetJob(e) \/ GetState(e) \/ Remove(e) \/ Add(e) \/ GiveUp(e)
  \/ \E c \in Consumers :
       \/ \E r \in Requests : Take(c, r)
       \/ ClaimNotified(c) \/ ClaimExtras(c) \/ SettleBatch(c) \/ FallBack(c)
       \/ Settle(c) \/ Retry(c) \/ Fail(c) \/ Complete(c) \/ Throw(c) \/ ConsumerCrash(c)

QueueSpec == QueueInit /\ [][QueueNext]_queueVars

\* The sweep is due at every interval, whatever the wake-ups do, and its steps
\* return; consumers run what they took; BullMQ hands out its list in order, so
\* no waiting job is passed over for ever; what expires is found by the recovery
\* job and by BullMQ.
Fairness ==
  /\ \A e \in Enqueuers :
       /\ SF_queueVars(StartSweep(e))
       /\ WF_queueVars(AddBulk(e) \/ GetJob(e) \/ GetState(e) \/ Remove(e) \/ Add(e))
  /\ \A c \in Consumers :
       WF_queueVars(ClaimNotified(c) \/ ClaimExtras(c) \/ SettleBatch(c) \/ Settle(c)
                 \/ Complete(c) \/ Throw(c))
  /\ \A r \in Requests :
       /\ SF_queueVars(\E c \in Consumers : Take(c, r))
       /\ WF_queueVars(BackoffEnds(r)) /\ WF_queueVars(Recover(r))
       /\ WF_queueVars(DelayEnds(r)) /\ WF_queueVars(Stalled(r))

QueueFairSpec == QueueSpec /\ Fairness
-----------------------------------------------------------------------------
\* Whatever is lost, every due request is claimed in the end by a consumer:
\* the sweep finds the row again, and a job that the queue retains from an
\* earlier run does not swallow the new one (settlement-queue.ts:36, :119).
EveryDueRowIsClaimed == \A r \in Requests : r \in Due ~> r \notin Due
=============================================================================
