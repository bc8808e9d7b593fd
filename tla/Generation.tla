----------------------------- MODULE Generation -----------------------------
(***************************************************************************)
(* Generation tasks of packages/inference: a gateway authorises and        *)
(* submits a video or a music task and stores its row; poll runs of the    *)
(* workers expire overdue rows, poll the upstream of videos, execute music *)
(* themselves, and close row and bill in two steps.                        *)
(*                                                                         *)
(* Nothing claims a row: runs of several workers, and runs of one worker   *)
(* that overlap (the scheduler does not wait for the last one), work on    *)
(* the same rows.  The bill of the one request behind a task is a row of   *)
(* BillingOutcome, which Settlement implements, with the lease recovery    *)
(* looks at beside it.  Rows of a listing are taken in any order.          *)
(***************************************************************************)
EXTENDS Naturals

CONSTANTS
  Tasks,      \* generation tasks, each with its billing request
  Runs,       \* poll runs that may be going at once
  Gateway,    \* LEASE_OWNER, the owner gateways start a lease with
  MaxFaults,  \* BOUND on crashed runs and signals that throw
  None        \* SQL null

ASSUME FaultsAssumption == MaxFaults \in Nat
ASSUME OwnersAssumption == Gateway \notin Tasks /\ None \notin Tasks \cup {Gateway}

VARIABLES
  kind,        \* what the client asks for
  gate,        \* how far the gateway of the task has got
  upstream,    \* the job at the provider, of a submitted video
  task,        \* generation_tasks.status; "none" is a row not inserted
  overdue,     \* tasks whose expires_at has passed
  bill,        \* the outcome of the billing request
  lease,       \* its lease_expires_at
  leaseOwner,  \* its lease_owner
  freed,       \* its failure_code: who gave the hold back
  run,         \* the poll runs
  faults

billing == <<bill, lease, leaseOwner, freed>>
submission == <<kind, gate, upstream>>
vars == <<submission, task, overdue, billing, run, faults>>

Bill == INSTANCE BillingOutcome WITH Requests <- Tasks, outcome <- bill
-----------------------------------------------------------------------------
Active == {"queued", "running"}
Closed == {"succeeded", "failed", "expired"}

\* A poll run: the rows listed and not yet taken, the row in hand, and what
\* comes next for it.
Run ==
  [stage : {"idle", "expiring", "polling", "executing"}, todo : SUBSET Tasks,
   item : Tasks \cup {None},
   step : {"take", "calling", "marking", "renewing", "failing", "releasing",
           "checking", "signalling", "finishing"}]

IdleRun == [stage |-> "idle", todo |-> {}, item |-> None, step |-> "take"]

TypeOK ==
  /\ kind \in [Tasks -> {"video", "music"}]
  /\ gate \in [Tasks -> {"none", "authorized", "started", "submitted", "done"}]
  /\ upstream \in [Tasks -> {"none", "running", "succeeded", "failed"}]
  /\ task \in [Tasks -> {"none"} \cup Active \cup Closed]
  /\ overdue \subseteq Tasks
  /\ Bill!TypeOK
  /\ lease \in [Tasks -> {"none", "live", "over"}]
  /\ \A t \in Tasks : lease[t] # "none" <=> bill[t] = "held"
  /\ leaseOwner \in [Tasks -> Tasks \cup {Gateway, None}]
  /\ freed \in [Tasks -> {"none", "reported", "recovered"}]
  /\ run \in [Runs -> Run]
  /\ faults \in Nat

Init ==
  /\ kind \in [Tasks -> {"video", "music"}]
  /\ gate = [t \in Tasks |-> "none"]
  /\ upstream = [t \in Tasks |-> "none"]
  /\ task = [t \in Tasks |-> "none"]
  /\ overdue = {}
  /\ Bill!Init
  /\ lease = [t \in Tasks |-> "none"]
  /\ leaseOwner = [t \in Tasks |-> None]
  /\ freed = [t \in Tasks |-> "none"]
  /\ run = [p \in Runs |-> IdleRun]
  /\ faults = 0
-----------------------------------------------------------------------------
(* The bill: what signals and recovery do to an open request *)

Held(t) == bill[t] = "held"

KeepLease(t) == UNCHANGED lease
EndLease(t) == lease' = [lease EXCEPT ![t] = "none"]

GiveBack(t, code) ==
  /\ Bill!Return(t)
  /\ EndLease(t)
  /\ freed' = [freed EXCEPT ![t] = code]
  /\ UNCHANGED leaseOwner

\* request.failed: the release of an open request; a no-op on any other.
ReportFailure(t) ==
  \/ Held(t) /\ GiveBack(t, "reported")
  \/ ~Held(t) /\ UNCHANGED billing

\* The bills request.succeeded accepts a receipt for.
Accepts(t) == Held(t)

\* The transition to settlement_pending.
AcceptReceipt(t) ==
  /\ bill' = [bill EXCEPT ![t] = "owed"]
  /\ EndLease(t)
  /\ UNCHANGED <<leaseOwner, freed>>

\* Settlement charges what is owed, or an administrator forgives it.
Settle(t) ==
  /\ Bill!Charge({t}) \/ Bill!Forgive(t)
  /\ UNCHANGED <<submission, task, overdue, lease, leaseOwner, freed, run,
                 faults>>

LeaseEnds(t) ==
  /\ lease[t] = "live"
  /\ lease' = [lease EXCEPT ![t] = "over"]
  /\ UNCHANGED <<submission, task, overdue, bill, leaseOwner, freed, run,
                 faults>>

\* Recovery takes a request whose lease is over for a dead gateway's.
Recover(t) ==
  /\ Held(t) /\ lease[t] = "over"
  /\ GiveBack(t, "recovered")
  /\ UNCHANGED <<submission, task, overdue, run, faults>>
-----------------------------------------------------------------------------
(* The gateway: generation.ts over the candidate loop of failover.ts *)

Advance(t, stage) == gate' = [gate EXCEPT ![t] = stage]

Authorize(t) ==
  /\ gate[t] = "none"
  /\ Bill!Hold(t)
  /\ lease' = [lease EXCEPT ![t] = "live"]
  /\ Advance(t, "authorized")
  /\ UNCHANGED <<kind, upstream, task, overdue, leaseOwner, freed, run, faults>>

\* upstream_started, sent again by the round after a bounded wait; on a
\* request that is not open any more it does nothing.
UpstreamStarted(t) ==
  /\ gate[t] \in {"authorized", "started"}
  /\ \/ /\ Held(t)
        /\ lease' = [lease EXCEPT ![t] = "live"]
        /\ leaseOwner' = [leaseOwner EXCEPT ![t] = Gateway]
     \/ ~Held(t) /\ UNCHANGED <<lease, leaseOwner>>
  /\ Advance(t, "started")
  /\ UNCHANGED <<kind, upstream, task, overdue, bill, freed, run, faults>>

\* generationAttempt: a video is submitted, music is only registered.
Submit(t) ==
  /\ gate[t] = "started"
  /\ upstream' = IF kind[t] = "video"
                 THEN [upstream EXCEPT ![t] = "running"] ELSE upstream
  /\ Advance(t, "submitted")
  /\ UNCHANGED <<kind, task, overdue, billing, run, faults>>

\* releaseAndFail: every candidate was refused.
GiveUp(t) ==
  /\ gate[t] \in {"authorized", "started"}
  /\ ReportFailure(t)
  /\ Advance(t, "done")
  /\ UNCHANGED <<kind, upstream, task, overdue, run, faults>>

\* persistGenerationHit stores the row.
Persist(t) ==
  /\ gate[t] = "submitted"
  /\ task' = [task EXCEPT ![t] = "queued"]
  /\ Advance(t, "done")
  /\ UNCHANGED <<kind, upstream, overdue, billing, run, faults>>

\* The gateway dies, or the insertion throws: the hold is left to recovery.
GatewayDies(t) ==
  /\ gate[t] \in {"authorized", "started", "submitted"}
  /\ Advance(t, "done")
  /\ UNCHANGED <<kind, upstream, task, overdue, billing, run, faults>>

\* The provider ends a job, some day or never.
UpstreamEnds(t) ==
  /\ upstream[t] = "running"
  /\ \E result \in {"succeeded", "failed"} :
       upstream' = [upstream EXCEPT ![t] = result]
  /\ UNCHANGED <<kind, gate, task, overdue, billing, run, faults>>

\* The clock passes expires_at.
BecomesOverdue(t) ==
  /\ task[t] \in Active
  /\ t \notin overdue
  /\ overdue' = overdue \cup {t}
  /\ UNCHANGED <<submission, task, billing, run, faults>>
-----------------------------------------------------------------------------
(* A poll run of a worker: generation-poll.ts *)

Item(p) == run[p].item
Goto(p, step) == run' = [run EXCEPT ![p].step = step]
NextItem(p) == run' = [run EXCEPT ![p] = [@ EXCEPT !.item = None,
                                                   !.step = "take"]]
At(p, step) == run[p].item # None /\ run[p].step = step
NoItemLeft(p) == run[p].item = None /\ run[p].todo = {}
List(p, stage, rows) ==
  run' = [run EXCEPT ![p] = [stage |-> stage, todo |-> rows, item |-> None,
                             step |-> "take"]]

\* expireOverdue: one statement closes every overdue row.
ExpirableQueued(t) == task[t] = "queued" /\ t \in overdue
Expirable(t) == task[t] \in Active /\ t \in overdue
StartRun(p) ==
  /\ run[p].stage = "idle"
  /\ task' = [t \in Tasks |-> IF Expirable(t) THEN "expired" ELSE task[t]]
  /\ List(p, "expiring", {t \in Tasks : Expirable(t)})
  /\ UNCHANGED <<submission, overdue, billing, faults>>

\* The rows this run expired are reported failed, one by one.
ReleaseExpired(p, t) ==
  /\ run[p].stage = "expiring"
  /\ t \in run[p].todo
  /\ ReportFailure(t)
  /\ run' = [run EXCEPT ![p].todo = @ \ {t}]
  /\ UNCHANGED <<submission, task, overdue, faults>>

\* listActive of the task_poll kinds.
ListPolled(p) ==
  /\ run[p].stage = "expiring" /\ NoItemLeft(p)
  /\ List(p, "polling", {t \in Tasks : kind[t] = "video" /\ task[t] \in Active})
  /\ UNCHANGED <<submission, task, overdue, billing, faults>>

\* listActive of the task_execute kinds.
ListQueued(p) ==
  /\ run[p].stage = "polling" /\ NoItemLeft(p)
  /\ List(p, "executing",
          {t \in Tasks : kind[t] = "music" /\ task[t] = "queued"})
  /\ UNCHANGED <<submission, task, overdue, billing, faults>>

EndRun(p) ==
  /\ run[p].stage = "executing" /\ NoItemLeft(p)
  /\ run' = [run EXCEPT ![p] = IdleRun]
  /\ UNCHANGED <<submission, task, overdue, billing, faults>>

\* The run takes a row, or drops it for this time when its channel is gone.
Take(p, t) ==
  /\ run[p].stage \in {"polling", "executing"}
  /\ run[p].item = None
  /\ t \in run[p].todo
  /\ \/ run' = [run EXCEPT ![p] = [run[p] EXCEPT !.todo = run[p].todo \ {t},
                                                !.item = t,
                                                !.step = "calling"]]
     \/ run' = [run EXCEPT ![p].todo = @ \ {t}]
  /\ UNCHANGED <<submission, task, overdue, billing, faults>>

\* settleFailed closes the row first; settleSucceeded looks at the bill first.
ReleaseFirst == "releasing"
AfterFailure == "failing"
AfterSuccess == "checking"

\* queryTask: no answer, or what the provider says of the job.  markRunning
\* asks for a queued row, so it is tried on every running job.
Probe(p) ==
  /\ run[p].stage = "polling" /\ At(p, "calling")
  /\ \/ Goto(p, "renewing")
     \/ upstream[Item(p)] = "running" /\ Goto(p, "marking")
     \/ upstream[Item(p)] = "failed" /\ Goto(p, AfterFailure)
     \/ upstream[Item(p)] = "succeeded" /\ Goto(p, AfterSuccess)
  /\ UNCHANGED <<submission, task, overdue, billing, faults>>

\* executeTask: the worker has the music made, and waits for it.
Execute(p) ==
  /\ run[p].stage = "executing" /\ At(p, "calling")
  /\ Goto(p, AfterFailure) \/ Goto(p, AfterSuccess)
  /\ UNCHANGED <<submission, task, overdue, billing, faults>>

MarkRunning(p) ==
  /\ At(p, "marking")
  /\ task' = IF task[Item(p)] = "queued"
             THEN [task EXCEPT ![Item(p)] = "running"] ELSE task
  /\ Goto(p, "renewing")
  /\ UNCHANGED <<submission, overdue, billing, faults>>

\* lease_renewed in the name of the request: signal.ts asks that the owner of
\* the lease be the one who renews.
RenewalOwner(t) == t
RenewLease(p) ==
  /\ At(p, "renewing")
  /\ lease' = IF Held(Item(p)) /\ leaseOwner[Item(p)] = RenewalOwner(Item(p))
              THEN [lease EXCEPT ![Item(p)] = "live"] ELSE lease
  /\ NextItem(p)
  /\ UNCHANGED <<submission, task, overdue, bill, leaseOwner, freed, faults>>

\* settleFailed, casTerminal: only the run that closes the row goes on.
FailTask(p) ==
  /\ At(p, "failing")
  /\ \/ /\ task[Item(p)] \in Active
        /\ task' = [task EXCEPT ![Item(p)] = "failed"]
        /\ Goto(p, "releasing")
     \/ task[Item(p)] \notin Active /\ NextItem(p) /\ UNCHANGED task
  /\ UNCHANGED <<submission, overdue, billing, faults>>

\* settleFailed, request_failed.
ReleaseFailed(p) ==
  /\ At(p, "releasing")
  /\ ReportFailure(Item(p))
  /\ NextItem(p)
  /\ UNCHANGED <<submission, task, overdue, faults>>

\* billingStatus: settled, or settlement_pending, which an owed bill may be,
\* means that the receipt is there.
LandedWhenClosed == {"owed", "charged", "returned", "forgiven"}
Landed == {"owed", "charged"}

CheckBilling(p) ==
  /\ At(p, "checking")
  /\ \/ bill[Item(p)] \in Landed /\ Goto(p, "finishing")
     \/ bill[Item(p)] # "charged" /\ Goto(p, "signalling")
  /\ UNCHANGED <<submission, task, overdue, billing, faults>>

\* request_succeeded: accepted; a replay, if the same receipt was built in the
\* same millisecond; or refused, and the row waits for the next run.
SignalSucceeded(p) ==
  /\ At(p, "signalling")
  /\ \/ Accepts(Item(p)) /\ AcceptReceipt(Item(p)) /\ Goto(p, "finishing")
     \/ /\ ~Accepts(Item(p)) /\ bill[Item(p)] \in {"owed", "charged"}
        /\ Goto(p, "finishing")
        /\ UNCHANGED billing
     \/ ~Accepts(Item(p)) /\ NextItem(p) /\ UNCHANGED billing
  /\ UNCHANGED <<submission, task, overdue, faults>>

\* settleSucceeded, casTerminal.
FinishTask(p) ==
  /\ At(p, "finishing")
  /\ task' = IF task[Item(p)] \in Active
             THEN [task EXCEPT ![Item(p)] = "succeeded"] ELSE task
  /\ NextItem(p)
  /\ UNCHANGED <<submission, overdue, billing, faults>>

Fault == faults < MaxFaults /\ faults' = faults + 1

\* A signal throws before it reached the billing row; the run only logs it.
SignalThrows(p) ==
  /\ \/ /\ run[p].item # None
        /\ run[p].step \in {"renewing", "releasing", "signalling"}
        /\ NextItem(p)
     \/ /\ run[p].stage = "expiring"
        /\ \E t \in run[p].todo : run' = [run EXCEPT ![p].todo = @ \ {t}]
  /\ Fault
  /\ UNCHANGED <<submission, task, overdue, billing>>

\* The worker dies, or a statement outside a signal throws and ends the run.
Crash(p) ==
  /\ run[p].stage # "idle"
  /\ run' = [run EXCEPT ![p] = IdleRun]
  /\ Fault
  /\ UNCHANGED <<submission, task, overdue, billing>>
-----------------------------------------------------------------------------
GatewayStep(t) ==
  \/ Authorize(t) \/ UpstreamStarted(t) \/ Submit(t) \/ GiveUp(t)
  \/ Persist(t) \/ GatewayDies(t)

RunStep(p) ==
  \/ StartRun(p) \/ ListPolled(p) \/ ListQueued(p) \/ EndRun(p)
  \/ \E t \in Tasks : ReleaseExpired(p, t) \/ Take(p, t)
  \/ Probe(p) \/ Execute(p) \/ MarkRunning(p) \/ RenewLease(p)
  \/ FailTask(p) \/ ReleaseFailed(p)
  \/ CheckBilling(p) \/ SignalSucceeded(p) \/ FinishTask(p)

Next ==
  \/ \E t \in Tasks :
       \/ GatewayStep(t) \/ UpstreamEnds(t) \/ BecomesOverdue(t)
       \/ Settle(t) \/ LeaseEnds(t) \/ Recover(t)
  \/ \E p \in Runs : RunStep(p) \/ SignalThrows(p) \/ Crash(p)

Spec == Init /\ [][Next]_vars

\* The scheduler starts runs again and again, a run goes on unless its worker
\* dies (every call has a deadline), and the clock advances.
FairSpec ==
  /\ Spec
  /\ \A p \in Runs : WF_vars(RunStep(p))
  /\ \A t \in Tasks : WF_vars(BecomesOverdue(t))
-----------------------------------------------------------------------------
(* Properties *)

\* A task shown as succeeded has its receipt in billing: no result is handed
\* out free, whichever runs raced, crashed or were refused, unless an
\* administrator forgives the bill (generation-poll.ts, settleSucceeded).
DeliveredIsOwed ==
  \A t \in Tasks :
    task[t] = "succeeded" => bill[t] \in {"owed", "charged", "forgiven"}

\* A hold given back on a report of failure belongs to a task that is closed
\* without a result, or was never stored; no run delivers it later
\* (settleFailed, expireScan and releaseAndFail).
ReportedIsUndelivered ==
  \A t \in Tasks :
    freed[t] = "reported" =>
      /\ bill[t] = "returned"
      /\ \/ task[t] \in {"failed", "expired"}
         \/ task[t] = "none" /\ gate[t] = "done"

\* Every stored task ends, though providers may never answer, channels may be
\* gone and workers crash (expireOverdue).
TaskEnds ==
  \A t \in Tasks : task[t] \in Active ~> task[t] \in Closed

=============================================================================
