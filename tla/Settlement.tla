----------------------------- MODULE Settlement -----------------------------
(***************************************************************************)
(* The life of a billing request in packages/billing: the eight states of  *)
(* billing_requests, driven by gateways (signal.ts), by settlement job     *)
(* slots of the workers (claim, settle, process, failure), by the recovery *)
(* job, by shutdown and by administrators reviewing dead letters.          *)
(*                                                                         *)
(* One action is one database transaction, or one step of a handler        *)
(* between two of its transactions; rows written by an uncommitted         *)
(* transaction are invisible, so its writes are applied at its commit,     *)
(* under the guards its statements evaluate.  Clock time is abstracted:    *)
(* a lease is "live" until an Expire action says the clock passed it, and  *)
(* next_settlement_at only delays a claim, so it is left out.              *)
(***************************************************************************)
EXTENDS Integers, FiniteSets

CONSTANTS
  Requests,      \* billing requests
  Gateways,      \* gateway replicas, the lease owners
  Owners,        \* worker processes, the claim owners
  Slots,         \* concurrent settlement jobs, over all the workers
  SlotOwner,     \* the worker process a job slot runs in
  Receipts,      \* usage receipts that pass validateReceipt
  Defective,     \* receipts whose settlement raises a dead-letter error
  OperationIds,  \* operation ids of the review commands
  BatchSize,     \* claims per settlement transaction (WORKER settle batch)
  MaxAttempts,   \* failurePolicy.maxAttempts
  MaxRevision,   \* BOUND on the revision at which a gateway still signals
  MaxFaults,     \* BOUND on crashes, shutdowns and leases lost while held
  None,          \* SQL null
  NaN            \* JavaScript's NaN

ASSUME OwnersAssumption == SlotOwner \in [Slots -> Owners]
ASSUME ReceiptsAssumption == Defective \subseteq Receipts
ASSUME NumbersAssumption ==
  /\ BatchSize \in Nat \ {0} /\ MaxAttempts \in Nat \ {0}
  /\ MaxRevision \in Nat /\ MaxFaults \in Nat
ASSUME NullAssumption ==
  None \notin Requests \cup Gateways \cup Owners \cup Receipts
ASSUME NaNAssumption == NaN \notin Int

VARIABLES
  row,          \* billing_requests; status "none" is a row not inserted yet
  reservation,  \* billing_reservations of the request, with the hold behind
  charges,      \* how many times the money of the request was captured
  usage,        \* requests with a row in usage_logs
  outbox,       \* dedupe keys in notify_outbox: <<request, attempt>>
  sig,          \* a gateway inside the request.succeeded handler
  accepted,     \* <<request, receipt>> answered with success
  slot,         \* the settlement job a slot runs
  expired,      \* <<request, status>> listed by a recovery run, not done yet
  ops,          \* ledger_operations: the review command of an operation id
  faults        \* faults so far, for MaxFaults

vars == <<row, reservation, charges, usage, outbox, sig, accepted, slot,
          expired, ops, faults>>
money == <<reservation, charges, usage>>
gatewayState == <<sig, accepted>>
-----------------------------------------------------------------------------
(* Rows and claims *)

Statuses == {"none", "authorized", "in_flight", "settlement_pending",
             "processing", "retry_wait", "settled", "released", "dead"}
Leases == {"none", "live", "expired"}
FailureClasses == {"none", "claim_expired", "defect", "transient"}
FailureCodes ==
  {"none", "expired_before_dispatch", "gateway_crash", "reported"}

RequestRow ==
  [status : Statuses, revision : Nat,
   leaseOwner : Gateways \cup {None}, lease : Leases,
   upstreamStarted : BOOLEAN, receipt : Receipts \cup {None},
   attempts : Nat, claimOwner : Owners \cup {None},
   claimToken : Nat \cup {None}, claimLease : Leases,
   failureClass : FailureClasses, failureCode : FailureCodes]

NewRow ==
  [status |-> "none", revision |-> 0, leaseOwner |-> None, lease |-> "none",
   upstreamStarted |-> FALSE, receipt |-> None, attempts |-> 0,
   claimOwner |-> None, claimToken |-> None, claimLease |-> "none",
   failureClass |-> "none", failureCode |-> "none"]

\* What claim.ts hands to the job: a snapshot of the row as it was claimed.
Claim == [request : Requests, owner : Owners, token : Nat, revision : Nat,
          attempt : Nat \cup {NaN}, receipt : Receipts \cup {None}]

Open == {"authorized", "in_flight"}
Owed == {"settlement_pending", "processing", "retry_wait"}

Status(r) == row[r].status

\* The columns the UPDATE ... RETURNING of claimPending yields.
ReturnedRow(q) ==
  [revision |-> q.revision, claim_token |-> q.claimToken,
   attempt |-> q.attempts, receipt |-> q.receipt]

\* Number(result[column]): reading a column the result lacks gives NaN.
ValueOf(result, column) ==
  IF column \in DOMAIN result THEN result[column] ELSE None
NumberOf(result, column) ==
  IF column \in DOMAIN result THEN result[column] ELSE NaN

\* The statement aliases settlement_attempts to attempt, and the mapping of
\* the result reads settlement_attempts.
ClaimAttempt(q) == NumberOf(ReturnedRow(q), "settlement_attempts")

ClaimOf(r, q) ==
  [request |-> r, owner |-> q.claimOwner, token |-> q.claimToken,
   revision |-> q.revision, attempt |-> ClaimAttempt(q),
   receipt |-> q.receipt]

\* The five-tuple and lease of findProcessingForClaim, casFinalizeSettled and
\* casToRetryOrDead.
FenceNoLease(c) ==
  LET q == row[c.request] IN
    /\ q.status = "processing"
    /\ q.claimToken = c.token
    /\ q.claimOwner = c.owner
    /\ q.revision = c.revision

FenceStatusOnly(c) ==
  LET q == row[c.request] IN q.status = "processing" /\ q.claimLease = "live"

Fence(c) == FenceNoLease(c) /\ row[c.request].claimLease = "live"

Update(r, q) == row' = [row EXCEPT ![r] = q]

-----------------------------------------------------------------------------
(* Types and initial state *)

Phases ==
  {"idle", "claimed", "batch", "batch_tx", "single", "single_tx", "failing"}

SlotJob ==
  [phase : Phases, notified : Requests \cup {None}, claims : SUBSET Claim,
   found : SUBSET Claim, error : {"none", "defect", "transient"}]

IdleJob == [phase |-> "idle", notified |-> None, claims |-> {},
            found |-> {}, error |-> "none"]

NoSignal == [phase |-> "idle", request |-> None, receipt |-> None]

Signalling == {NoSignal} \cup
  [phase : {"read", "lost"}, request : Requests, receipt : Receipts]

Command == [kind : {"retry", "abandon"}, request : Requests, revision : Nat]
NoCommand == [kind |-> "none", request |-> None, revision |-> 0]

TypeOK ==
  /\ row \in [Requests -> RequestRow]
  /\ reservation \in [Requests -> {"none", "active", "settled", "released"}]
  /\ charges \in [Requests -> Nat]
  /\ usage \subseteq Requests
  /\ outbox \subseteq (Requests \X (Nat \cup {NaN}))
  /\ sig \in [Gateways -> Signalling]
  /\ accepted \subseteq (Requests \X Receipts)
  /\ slot \in [Slots -> SlotJob]
  /\ expired \subseteq (Requests \X Open)
  /\ ops \in [OperationIds -> Command \cup {NoCommand}]
  /\ faults \in Nat

Init ==
  /\ row = [r \in Requests |-> NewRow]
  /\ reservation = [r \in Requests |-> "none"]
  /\ charges = [r \in Requests |-> 0]
  /\ usage = {}
  /\ outbox = {}
  /\ sig = [g \in Gateways |-> NoSignal]
  /\ accepted = {}
  /\ slot = [s \in Slots |-> IdleJob]
  /\ expired = {}
  /\ ops = [o \in OperationIds |-> NoCommand]
  /\ faults = 0

-----------------------------------------------------------------------------
(* The gateway: authorize.ts and signal.ts *)

\* insertAuthorized and commitFunding: the request and its holds, atomically.
Authorize(r) ==
  /\ Status(r) = "none"
  /\ Update(r, [row[r] EXCEPT !.status = "authorized", !.lease = "live"])
  /\ reservation' = [reservation EXCEPT ![r] = "active"]
  /\ UNCHANGED <<charges, usage, outbox, gatewayState, slot, expired,
                 ops, faults>>

\* upstream.started: whoever calls becomes the owner of the lease.
UpstreamStarted(g, r) ==
  /\ Status(r) \in Open
  /\ row[r].revision < MaxRevision
  /\ Update(r, [row[r] EXCEPT !.status = "in_flight", !.leaseOwner = g,
                              !.lease = "live", !.upstreamStarted = TRUE,
                              !.revision = @ + 1])
  /\ UNCHANGED <<money, outbox, gatewayState, slot, expired, ops, faults>>

\* lease.renewed: only the owner renews, an expired lease included.
LeaseRenewed(g, r) ==
  /\ Status(r) = "in_flight"
  /\ row[r].leaseOwner = g
  /\ row[r].revision < MaxRevision
  /\ Update(r, [row[r] EXCEPT !.lease = "live", !.revision = @ + 1])
  /\ UNCHANGED <<money, outbox, gatewayState, slot, expired, ops, faults>>

\* The receipt is the one already stored, in a state the handler looks for.
ReplayAnyReceipt(r, x) == Status(r) \in {"settlement_pending", "settled"}
IsReplay(r, x) ==
  /\ Status(r) \in {"settlement_pending", "settled"}
  /\ row[r].receipt = x

Accept(r, x) == accepted' = accepted \cup {<<r, x>>}

\* request.succeeded, its read: go on to the update, or answer a replay (a
\* refusal changes nothing).
SucceededRead(g, r, x) ==
  /\ sig[g].phase = "idle"
  /\ \/ /\ IsReplay(r, x)
        /\ Accept(r, x)
        /\ UNCHANGED sig
     \/ /\ Status(r) \in Open
        /\ sig' = [sig EXCEPT ![g] = [phase |-> "read", request |-> r,
                                      receipt |-> x]]
        /\ UNCHANGED accepted
  /\ UNCHANGED <<row, money, outbox, slot, expired, ops,
                 faults>>

\* The statuses casTransition moves on from.
SucceedsFrom(r) == Status(r) \in Open

\* request.succeeded, its conditional update; the loser goes on to read again.
SucceededCas(g) ==
  LET r == sig[g].request
      x == sig[g].receipt
  IN
  /\ sig[g].phase = "read"
  /\ \/ /\ SucceedsFrom(r)
        /\ Update(r, [row[r] EXCEPT !.status = "settlement_pending",
                                    !.receipt = x, !.lease = "none",
                                    !.revision = @ + 1])
        /\ Accept(r, x)
        /\ sig' = [sig EXCEPT ![g] = NoSignal]
     \/ /\ ~SucceedsFrom(r)
        /\ sig' = [sig EXCEPT ![g].phase = "lost"]
        /\ UNCHANGED <<row, accepted>>
  /\ UNCHANGED <<money, outbox, slot, expired, ops, faults>>

\* request.succeeded, the loser of the update: same receipt or conflict.
SucceededReread(g) ==
  LET r == sig[g].request
      x == sig[g].receipt
  IN
  /\ sig[g].phase = "lost"
  /\ \/ /\ IsReplay(r, x)
        /\ Accept(r, x)
     \/ /\ ~IsReplay(r, x)
        /\ UNCHANGED accepted
  /\ sig' = [sig EXCEPT ![g] = NoSignal]
  /\ UNCHANGED <<row, money, outbox, slot, expired, ops, faults>>

\* releaseAllReservations finds the whole reserved amount still active.
CanRelease(r) == reservation[r] = "active"
ReleaseNothing(r) == UNCHANGED reservation
ReleaseAll(r) == reservation' = [reservation EXCEPT ![r] = "released"]

\* request.failed: no owner is checked, the request is released uncharged.
RequestFailed(r) ==
  /\ Status(r) \in Open
  /\ CanRelease(r)
  /\ Update(r, [row[r] EXCEPT !.status = "released", !.lease = "none",
                              !.failureCode = "reported",
                              !.revision = @ + 1])
  /\ ReleaseAll(r)
  /\ UNCHANGED <<charges, usage, outbox, gatewayState, slot, expired,
                 ops, faults>>

\* The clock passes lease_expires_at.
LeaseExpires(r) ==
  /\ Status(r) \in Open
  /\ row[r].lease = "live"
  /\ Update(r, [row[r] EXCEPT !.lease = "expired"])
  /\ UNCHANGED <<money, outbox, gatewayState, slot, expired, ops, faults>>

-----------------------------------------------------------------------------
(* The worker: jobs/settlement.ts over claim.ts, settle.ts and failure.ts *)

ClaimableFirst(r) == Status(r) = "settlement_pending"
Claimable(r) == Status(r) \in {"settlement_pending", "retry_wait"}

\* The row claimPending writes.  gen_random_uuid() is a token no other claim
\* of the request has: the new revision stands for it.
ClaimedRow(q, o) ==
  [q EXCEPT !.status = "processing", !.revision = @ + 1,
            !.attempts = @ + 1, !.claimOwner = o,
            !.claimToken = q.revision + 1, !.claimLease = "live",
            !.failureClass = "none"]

ClaimRows(R, o) ==
  row' = [r \in Requests |-> IF r \in R THEN ClaimedRow(row[r], o) ELSE row[r]]

ClaimsOn(R, o) == {ClaimOf(r, ClaimedRow(row[r], o)) : r \in R}

Goto(s, job) == slot' = [slot EXCEPT ![s] = job]

\* The job of request r claims its row; a job that finds none ends unchanged.
ClaimNotified(s, r) ==
  /\ slot[s].phase = "idle"
  /\ Claimable(r)
  /\ ClaimRows({r}, SlotOwner[s])
  /\ Goto(s, [phase |-> "claimed", notified |-> r,
              claims |-> ClaimsOn({r}, SlotOwner[s]),
              found |-> {}, error |-> "none"])
  /\ UNCHANGED <<money, outbox, gatewayState, expired, ops, faults>>

\* The job picks up other due rows (SKIP LOCKED may skip any) to share the
\* transaction with, and takes the batch path when it holds more than one.
ClaimExtras(s) ==
  /\ slot[s].phase = "claimed"
  /\ \E R \in SUBSET {r \in Requests : Claimable(r)} :
       /\ Cardinality(R) <= BatchSize - 1
       /\ ClaimRows(R, SlotOwner[s])
       /\ Goto(s, [slot[s] EXCEPT
                     !.phase = IF R = {} THEN "single" ELSE "batch",
                     !.claims = @ \cup ClaimsOn(R, SlotOwner[s])])
  /\ UNCHANGED <<money, outbox, gatewayState, expired, ops, faults>>

\* findProcessingForClaim: the settlement transaction reads its rows; a claim
\* it does not find is answered claim_lost or already_settled.
SettleRead(s) ==
  /\ slot[s].phase \in {"batch", "single"}
  /\ Goto(s, [slot[s] EXCEPT
                !.phase = IF @ = "batch" THEN "batch_tx" ELSE "single_tx",
                !.found = {c \in slot[s].claims : Fence(c)}])
  /\ UNCHANGED <<row, money, outbox, gatewayState, expired, ops, faults>>

\* casFinalizeSettled.
FinalizeFence(c) == Fence(c)

\* Every guard a claim meets between its read and the commit.
Settleable(c) ==
  /\ c.receipt \notin Defective
  /\ reservation[c.request] = "active"
  /\ c.request \notin usage
  /\ FinalizeFence(c)

SettledRow(q) ==
  [q EXCEPT !.status = "settled", !.revision = @ + 1, !.claimOwner = None,
            !.claimToken = None, !.claimLease = "none"]

\* Per request: funding sources settled and reservations marked, usage_logs
\* inserted, the request finalized.
SettleRequests(R) ==
  /\ row' = [r \in Requests |->
               IF r \in R THEN SettledRow(row[r]) ELSE row[r]]
  /\ reservation' = [r \in Requests |->
                       IF r \in R THEN "settled" ELSE reservation[r]]
  /\ charges' = [r \in Requests |->
                   IF r \in R THEN charges[r] + 1 ELSE charges[r]]
  /\ usage' = usage \cup R

\* The transaction commits and the job ends.
SettleCommit(s) ==
  /\ slot[s].phase \in {"batch_tx", "single_tx"}
  /\ \A c \in slot[s].found : Settleable(c)
  /\ SettleRequests({c.request : c \in slot[s].found})
  /\ Goto(s, IdleJob)
  /\ UNCHANGED <<outbox, gatewayState, expired, ops, faults>>

\* The transaction throws and rolls back: a batch falls back to the notified
\* claim alone (the other claims are left as they are), a single claim goes
\* to finishFailure.
SettleThrow(s, e) ==
  /\ slot[s].phase \in {"batch_tx", "single_tx"}
  /\ e = "defect" => \E c \in slot[s].found : ~Settleable(c)
  /\ Goto(s, IF slot[s].phase = "batch_tx"
             THEN [slot[s] EXCEPT
                     !.phase = "single", !.found = {},
                     !.claims = {c \in @ : c.request = slot[s].notified}]
             ELSE [slot[s] EXCEPT
                     !.phase = "failing", !.found = {}, !.error = e])
  /\ UNCHANGED <<row, money, outbox, gatewayState, expired, ops, faults>>

\* settleFailurePolicy: the decision to give the request up.
GivesUp(error, attempt) ==
  \/ error = "defect"
  \/ attempt = NaN
  \/ attempt \in Nat /\ (attempt < 1 \/ attempt >= MaxAttempts)

\* The row casToRetryOrDead writes.
FailedRow(q, dead, error) ==
  [q EXCEPT !.status = IF dead THEN "dead" ELSE "retry_wait",
            !.revision = @ + 1, !.claimOwner = None, !.claimToken = None,
            !.claimLease = "none", !.failureClass = error]

\* Mutant: the outcome of the update is not looked at.
AnnouncesUnfenced(c, dead) == dead

\* Only the failure that the row took is announced.
Announces(c, dead) == Fence(c) /\ dead

\* insertOutboxEvent, which does nothing on a dedupe key it has.
DeathNotice(c) == {<<c.request, c.attempt>>}

\* failure.ts: the row, and with it the notification of a dead letter.
FinishFailure(s) ==
  /\ slot[s].phase = "failing"
  /\ \E c \in slot[s].claims :
       LET dead == GivesUp(slot[s].error, c.attempt) IN
       /\ row' = IF Fence(c)
                 THEN [row EXCEPT ![c.request] =
                         FailedRow(@, dead, slot[s].error)]
                 ELSE row
       /\ outbox' = IF Announces(c, dead)
                    THEN outbox \cup DeathNotice(c)
                    ELSE outbox
  /\ Goto(s, IdleJob)
  /\ UNCHANGED <<money, gatewayState, expired, ops, faults>>

-----------------------------------------------------------------------------
(* Crashes, shutdown and recovery: shutdown.ts and recover.ts *)

Holders(r) == {s \in Slots : \E c \in slot[s].claims :
                               c.request = r /\ Fence(c)}

Fault(n) == faults + n <= MaxFaults /\ faults' = faults + n

\* The clock passes claim_until.  Only losing a claim somebody still works
\* on is a fault; a claim left behind just runs out.
ClaimExpires(r) ==
  /\ Status(r) = "processing"
  /\ row[r].claimLease = "live"
  /\ Update(r, [row[r] EXCEPT !.claimLease = "expired"])
  /\ Fault(IF Holders(r) = {} THEN 0 ELSE 1)
  /\ UNCHANGED <<money, outbox, gatewayState, slot, expired, ops>>

\* The process of a slot dies, or its failure handling itself throws
\* (unknown-failure): the job is gone, its claims stay in the table.
Crash(s) ==
  /\ slot[s].phase # "idle"
  /\ Goto(s, IdleJob)
  /\ Fault(1)
  /\ UNCHANGED <<row, money, outbox, gatewayState, expired, ops>>

\* The row requeueExpiredClaims and abandonOwnedClaims write.
RequeuedRow(q) ==
  [q EXCEPT !.status = "retry_wait", !.revision = @ + 1,
            !.claimOwner = None, !.claimToken = None, !.claimLease = "none",
            !.failureClass = "claim_expired"]

Requeue(R) ==
  row' = [r \in Requests |-> IF r \in R THEN RequeuedRow(row[r]) ELSE row[r]]

\* Graceful shutdown returns the claims of the process.  Closing the queue is
\* bounded, so a job may still be running.
AbandonOwnedClaims(o) ==
  LET mine == {r \in Requests : /\ Status(r) = "processing"
                                /\ row[r].claimOwner = o}
  IN
  /\ mine # {}
  /\ Requeue(mine)
  /\ Fault(1)
  /\ UNCHANGED <<money, outbox, gatewayState, slot, expired, ops>>

\* recover, third part: expired claims go back to retry_wait.
RequeueExpiredClaims ==
  LET late == {r \in Requests : /\ Status(r) = "processing"
                                /\ row[r].claimLease = "expired"}
  IN
  /\ \E R \in SUBSET late \ {{}} : Requeue(R)
  /\ UNCHANGED <<money, outbox, gatewayState, slot, expired, ops, faults>>

\* recover, first and second part: list the requests whose lease expired ...
ListExpired(st) ==
  LET late == {r \in Requests : /\ Status(r) = st
                                /\ row[r].lease = "expired"
                                /\ st = "authorized" => ~row[r].upstreamStarted}
  IN
  /\ ~ (late \X {st} \subseteq expired)
  /\ expired' = expired \cup (late \X {st})
  /\ UNCHANGED <<row, money, outbox, gatewayState, slot, ops, faults>>

\* The guard of recoverOneToReleased, evaluated again per row.
StillHeld(r, st) == CanRelease(r)
StillUndispatched(r, st) == Status(r) = st /\ ~row[r].upstreamStarted
StillExpired(r, st) ==
  /\ Status(r) = st
  /\ IF st = "authorized" THEN ~row[r].upstreamStarted
                          ELSE row[r].lease = "expired"

\* ... and release them one by one, each in its own transaction.
RecoverRelease(r, st) ==
  /\ <<r, st>> \in expired
  /\ expired' = expired \ {<<r, st>>}
  /\ \/ /\ StillExpired(r, st) /\ CanRelease(r)
        /\ Update(r, [row[r] EXCEPT !.status = "released", !.lease = "none",
                                    !.failureCode =
                                       IF st = "authorized"
                                       THEN "expired_before_dispatch"
                                       ELSE "gateway_crash",
                                    !.revision = @ + 1])
        /\ ReleaseAll(r)
     \/ /\ ~(StillExpired(r, st) /\ CanRelease(r))
        /\ UNCHANGED <<row, reservation>>
  /\ UNCHANGED <<charges, usage, outbox, gatewayState, slot, ops, faults>>

-----------------------------------------------------------------------------
(* Administrators: review/retry-dead.ts and review/abandon-dead.ts.  A      *)
(* command names the revision the administrator saw; a command that finds   *)
(* another one, or repeats an operation id, changes nothing.                *)

ReviewAnyRevision(r, revision) == Status(r) = "dead"
ReviewGuard(r, revision) == Status(r) = "dead" /\ row[r].revision = revision

RetryDead(o, r, revision) ==
  /\ ops[o] = NoCommand
  /\ ReviewGuard(r, revision)
  /\ Update(r, [row[r] EXCEPT !.status = "retry_wait", !.attempts = 0,
                              !.failureCode = "none", !.revision = @ + 1])
  /\ ops' = [ops EXCEPT ![o] = [kind |-> "retry", request |-> r,
                                revision |-> revision]]
  /\ UNCHANGED <<money, outbox, gatewayState, slot, expired, faults>>

AbandonDead(o, r, revision) ==
  /\ ops[o] = NoCommand
  /\ ReviewGuard(r, revision)
  /\ CanRelease(r)
  /\ Update(r, [row[r] EXCEPT !.status = "released", !.revision = @ + 1])
  /\ ReleaseAll(r)
  /\ ops' = [ops EXCEPT ![o] = [kind |-> "abandon", request |-> r,
                                revision |-> revision]]
  /\ UNCHANGED <<charges, usage, outbox, gatewayState, slot, expired,
                 faults>>

-----------------------------------------------------------------------------
(* The specification *)

Gateway ==
  \/ \E r \in Requests : Authorize(r) \/ RequestFailed(r) \/ LeaseExpires(r)
  \/ \E g \in Gateways, r \in Requests :
       UpstreamStarted(g, r) \/ LeaseRenewed(g, r)
  \/ \E g \in Gateways, r \in Requests, x \in Receipts : SucceededRead(g, r, x)
  \/ \E g \in Gateways : SucceededCas(g) \/ SucceededReread(g)

JobStep(s) ==
  \/ ClaimExtras(s) \/ SettleRead(s) \/ SettleCommit(s) \/ FinishFailure(s)
  \/ \E e \in {"defect", "transient"} : SettleThrow(s, e)

Worker ==
  \/ \E s \in Slots, r \in Requests : ClaimNotified(s, r)
  \/ \E s \in Slots : JobStep(s) \/ Crash(s)
  \/ \E o \in Owners : AbandonOwnedClaims(o)
  \/ \E r \in Requests : ClaimExpires(r)

Recovery ==
  \/ RequeueExpiredClaims
  \/ \E st \in Open : ListExpired(st) \/ \E r \in Requests : RecoverRelease(r, st)

\* An administrator may act on any revision seen so far.
Review ==
  \E o \in OperationIds, r \in Requests :
    \E seen \in 0..row[r].revision :
      RetryDead(o, r, seen) \/ AbandonDead(o, r, seen)

Next == Gateway \/ Worker \/ Recovery \/ Review

Spec == Init /\ [][Next]_vars

\* What the deployment guarantees: the sweep re-queues every due row, a job
\* that was started goes on unless its process dies, the recovery job runs
\* again and again, and clocks advance.  Gateways and administrators promise
\* nothing.
Fairness ==
  /\ \A r \in Requests :
       /\ WF_vars(\E s \in Slots : ClaimNotified(s, r))
       /\ WF_vars(ClaimExpires(r))
       /\ WF_vars(LeaseExpires(r))
       /\ \A st \in Open : WF_vars(RecoverRelease(r, st))
  /\ \A s \in Slots : WF_vars(JobStep(s))
  /\ WF_vars(RequeueExpiredClaims)
  /\ \A st \in Open : WF_vars(ListExpired(st))

FairSpec == Spec /\ Fairness
-----------------------------------------------------------------------------
(* Properties *)

MoneyAt(r) ==
  CASE Status(r) = "settled" ->
         reservation[r] = "settled" /\ charges[r] = 1 /\ r \in usage
    [] Status(r) = "released" ->
         reservation[r] = "released" /\ charges[r] = 0 /\ r \notin usage
    [] Status(r) = "none" ->
         reservation[r] = "none" /\ charges[r] = 0 /\ r \notin usage
    [] OTHER ->
         reservation[r] = "active" /\ charges[r] = 0 /\ r \notin usage

\* Money moves with the status and never otherwise: a settled request was
\* captured once and logged once, a released one was never captured and its
\* hold is back, every other one still has its hold (signal.ts, settle.ts,
\* recover.ts and abandon-dead.ts each write both sides).
MoneyFollowsStatus == \A r \in Requests : MoneyAt(r)

\* Of all the claims job slots hold on a request, at most one still passes
\* the fence of the settlement transaction, whatever expired, crashed, was
\* requeued and claimed again in between (claimPending against the fences).
OneLiveClaim ==
  \A s, t \in Slots : \A c \in slot[s].claims, d \in slot[t].claims :
    c.request = d.request /\ Fence(c) /\ Fence(d) => s = t /\ c = d

\* An administrator abandoned the request.
Forgiven(r) ==
  \E o \in OperationIds : ops[o].kind = "abandon" /\ ops[o].request = r

\* A receipt whose signal was answered with success is the receipt of the
\* request for good: it is going to be settled, or is, or awaits review, or
\* an administrator abandoned it; no recovery and no late failure signal
\* releases it, and no other receipt is accepted (signal.ts).
AcceptedReceiptStands ==
  \A a \in accepted :
    /\ row[a[1]].receipt = a[2]
    /\ \/ Status(a[1]) \in Owed \cup {"dead", "settled"}
       \/ Status(a[1]) = "released" /\ Forgiven(a[1])

\* Two review commands never act on the same death of a request, so a stale
\* screen cannot undo a decision (casReviewRetryDead, casReviewAbandonDead).
OneReviewPerDeath ==
  \A o, p \in OperationIds :
    /\ ops[o] # NoCommand
    /\ ops[o].request = ops[p].request
    /\ ops[o].revision = ops[p].revision
    => o = p

\* Whether a request was ever dead: reviews act on nothing but a dead one.
Died(r) == Status(r) = "dead" \/ \E o \in OperationIds : ops[o].request = r

NoticesOf(r) == {k \in outbox : k[1] = r}

\* A request that has died, however often, has one notice, and one that never
\* died has none: no death is silent, and a failure that was overtaken by an
\* expiry, a requeue or another claim announces nothing.  failure.ts:67 wants
\* the death of a revived request announced as a new fact; its key repeats the
\* one of the first death, whose notice swallows it.
NoticesTellOfDeaths ==
  \A r \in Requests : Cardinality(NoticesOf(r)) = IF Died(r) THEN 1 ELSE 0

\* Every transition of an inserted request takes a fresh revision, the fact
\* that lets the revision fence claims and review commands.
TransitionsTakeARevision ==
  [][\A r \in Requests :
       /\ row[r].revision' >= row[r].revision
       /\ Status(r) # "none" /\ Status(r)' # Status(r)
            => row[r].revision' > row[r].revision]_vars

\* The outcome of a request, read off its money, its receipt and the review
\* commands alone.
OutcomeOf(r) ==
  LET captured == charges[r] = 1 /\ r \in usage
      untouched == charges[r] = 0 /\ r \notin usage
      billed == row[r].receipt # None
  IN CASE reservation[r] = "none" /\ untouched /\ ~billed -> "none"
       [] reservation[r] = "active" /\ untouched /\ ~billed -> "held"
       [] reservation[r] = "active" /\ untouched /\ billed -> "owed"
       [] reservation[r] = "settled" /\ captured /\ billed -> "charged"
       [] reservation[r] = "released" /\ untouched /\ ~billed -> "returned"
       [] reservation[r] = "released" /\ untouched /\ billed /\ Forgiven(r)
            -> "forgiven"
       [] OTHER -> "corrupt"

Promise == INSTANCE BillingOutcome
             WITH outcome <- [r \in Requests |-> OutcomeOf(r)]

\* The state machine of the code keeps the promise: it charges only what is
\* owed, at most once, returns only what is not owed, and forgives only on an
\* administrator's command.
KeepsPromise == Promise!Spec

\* A request whose receipt is stored is settled or given up to review; no
\* crash, shutdown, lost claim or failed batch strands it.
OwedIsDisposed ==
  \A r \in Requests :
    Status(r) \in Owed ~> Status(r) \in {"settled", "dead"}

\* A request whose gateway went silent does not keep its hold for ever.
OpenIsClosed ==
  \A r \in Requests : Status(r) \in Open ~> Status(r) \notin Open

\* The repository's own claim that the code does not keep.

\* settle-failure.ts: a transient failure is retried until the attempts run
\* out, only then is the request dead.
TransientFailureIsRetried ==
  \A r \in Requests :
    Status(r) = "dead" =>
      row[r].failureClass = "defect" \/ row[r].attempts >= MaxAttempts
=============================================================================
