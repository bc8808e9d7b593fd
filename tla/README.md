# Tillgate in TLA+

Tillgate is a self-hosted LLM API gateway: gateways put money of a user on
hold, call an upstream provider, and report what was used; workers settle the
bill, recover what crashed, poll asynchronous tasks and send notices. PostgreSQL
holds every fact; gateways and workers are several stateless processes which
meet only in its rows. This directory models the parts of it where the order of
steps of several processes decides whether money and results are right.

* `tlc -config <Run>.cfg <Module>` checks a run, `tlapm <Module>Proofs.tla` the
  proofs. `PROJECT.json` lists the components, the runs, the hazards with the
  properties that watch them, for each property a mutant of the model which
  breaks it, and for each definition the lines of `src/` it stands for.

| module | what it is |
|---|---|
| `BillingOutcome` | abstract: what billing promises about the money of a request |
| `Settlement`, `MCSettlement` | the life of `billing_requests` under gateways, workers, recovery, shutdown, review |
| `SettlementProofs` | its theorems, the refinement of `BillingOutcome` among them |
| `NoticeOutbox`, `MCNoticeOutbox` | leased delivery of `notify_outbox` rows to channels |
| `WorkerProofs` | its theorems, and those of `SettlementQueue` |
| `Generation` | asynchronous video and music tasks, over a bill of `BillingOutcome` |
| `GenerationProofs` | its theorems |
| `LedgerVerbs` | what each verb of the wallet does to accounts and holds |
| `Ledger` | abstract: transactions of verbs, one after the other |
| `LedgerRows`, `MCLedger` | the same verbs as PostgreSQL transactions with row locks, shown to implement `Ledger` |
| `LedgerProofs` | its theorems, the refinement of `Ledger` among them |
| `Exposure` | abstract: budgets of channels under jobs, one after the other |
| `ChannelExposure`, `MCExposure` | the same jobs as statements of concurrent transactions, shown to implement `Exposure` |
| `ExposureProofs` | its theorems, the refinement of `Exposure` among them |
| `SettlementQueue` | how a due request comes to be claimed: sweep, wake-up, BullMQ, consumers |
| `Breaker` | the circuit breaker of a host, a shared record moved by compare-and-set |
| `Failover`, `MCFailover` | the candidate loop of the gateway and the routing memory it shares |
| `FailoverProofs` | its theorems, and those of `Breaker` |
| `Admission`, `MCAdmission` | `authorize` statement by statement: daily limits, subscriptions, members |
| `AdmissionProofs` | its theorems |
| `Sums` | what the proofs about money know of sums over finite sets |

## 1. Inventory

What each part keeps, does and meets; what is hard; what would make it correct.

### Billing (`packages/billing`)

**Requests: signals and settlement.** State: `billing_requests` (status of
eight, revision, gateway lease, receipt, claim owner/token/lease, attempts,
failure class and code), `billing_reservations` (the holds), `usage_logs`, the
ledger, `ledger_operations` (idempotent commands). Operations: `authorize`,
the four signals (`upstream.started`, `lease.renewed`, `request.succeeded`,
`request.failed`), `claim`, `settleClaim`/`settleClaims`, failure handling,
`recover`, `abandonOwnedClaims`, and the review commands. Hard: signals decide
on a row read in an earlier transaction; claims are leases which end under a
job at work; a batch shares one transaction; shutdown returns claims that jobs
still use; administrators act on stale screens. Correct: money moves with the
status, once; an accepted receipt stands; one live claim; every owed request
ends settled or in review. *Modelled: `Settlement`.*

**Channel exposure** (`reserve-channel.ts`, `channel-exposure-store.ts`).
State: `channels.upstream_reserved` against `upstream_budget`, and the channel
columns of the request. Operations: reserve (covered, top-up, switch), release,
settle, adjust, recharge. Hard: the increase on the new channel, the decrease on
the old one and the optimistic claim of the row race with recovery, settlement
and each other. Correct: the reserved amount of a channel is the sum over the
requests not ended, and all moves as if one job ran after the other. *Modelled:
`ChannelExposure` against `Exposure`.*

**Wallet** (`application/wallet/*`). State: accounts with balance, in_flight,
credit limit and debit floor; ledger entries; holds. Operations: authorise,
settle with excess, release, credit, refund, transfer, credit line, debit floor.
Hard: a verb joins the transaction of its caller by a savepoint, locks differ
from verb to verb, ceilings and floors are read before the lock, a trigger
checks at the commit. Correct: double entry, in_flight is what the holds say,
each transaction whole or not at all. *Modelled: `LedgerRows` against `Ledger`.*

**Admission and funding** (`authorize.ts`, `funding/*`,
`subscription-quota-store.ts`, `settle-allocation.ts`). State: the quota of a
subscription (used, reserved), the daily limits of users and keys, the limits of
members, sums over `billing_requests` and `usage_logs`. Operations: authorise
(read limits, probe the sources, insert, reserve), settle, release. Hard: a probe
decides what a guarded update later takes; sums are read one after the other
under READ COMMITTED, behind an advisory lock only when a limit is configured.
Correct: no source is drawn past its quota, what is in flight fits the limits.
*Modelled: `Admission`; the pay-as-you-go source in `LedgerRows`.*

**Rating, receipts, calibration**: decimal arithmetic on prices; pure.

**Subscriptions** (`application/subscriptions/*`). State: `user_subscriptions`,
the subscription each key is bound to. Operations: purchase, renew, change,
cancel, add-on packs. Hard: they end a subscription that requests have already
looked at. Correct: what a change credits is not spent as well. *Modelled:
`Admission`.*

**Payments, redemption, referral commission**: callbacks that come twice, a code
used once, a commission paid once per day. *Not modelled.*

### Worker (`apps/worker`)

Settlement job slots (in `Settlement`), the BullMQ queue with one job id per
request, the sweep that finds due requests, the `LISTEN/NOTIFY` wake-up, the
scheduler (which starts a job by the clock while the last run still goes on),
the shutdown sequence. Hard: a finished job the queue retains swallows a new one
with its id; wake-ups get lost. Correct: every due request is claimed in the
end. *Modelled: the slot and the return of claims in `Settlement`, the rest in
`SettlementQueue`.*

### Notifications (`packages/notifications`)

State: `notify_outbox` (attempts, delivered channels, claim owner/token/lease,
sent or given up), channels with a status. Operations: insert by dedupe key,
dispatch run (list channels, claim one row, send in parallel, record progress,
complete or fail), channel administration. Hard: leases end during a delivery;
runs of one process share the owner id; some channels fail; channels change
during a run. Correct: one live claim, recorded means received, sent means
received by all, every notice ends. *Modelled: `NoticeOutbox`.*

### Inference (`packages/inference`)

**Generation tasks** (`generation.ts`, `generation-poll.ts`,
`generation-pg.ts`). State: `generation_tasks`; the hold in billing. Operations:
submit; poll run (expire, poll, execute, renew, close). Hard: bill and row are
closed in two steps whose order depends on the result; nothing claims a row.
Correct: what is delivered is owed, what is reported failed is not delivered,
every task ends. *Modelled: `Generation`.*

**Routing and failover** (`failover.ts`, `gates.ts`, `dispatch.ts`, `health/`).
State: in Redis, per host a breaker, per channel a penalty and dead credentials,
per model the memory of exhaustion; in a request its candidates, channels and
pass. Operations: gates, attempt, what a failure does (switch, next, pass
through), one wait round, recordings beside the request. Hard: half-open probes
under concurrent requests, records overtaken by each other, decisions taken from
a snapshot, a retry that must not count twice. Correct: one probe, no failure
lost, no breaker stuck; one request cannot kill a model; no needless refusal.
*Modelled: `Breaker`, `Failover`.* **Signal retry**: `Settlement` allows any
repetition of a signal, which covers it.

### The rest

`packages/ai` (upstream protocols, byte streams), `packages/runtime` (Redis rate
limits and login guards), `packages/identity` (challenges, sessions),
`packages/accounts` (its members and the binding of keys are in `Admission`),
`packages/control-plane`, `packages/observability`,
`packages/db` (schema; `runTx` is part of two models, constraints and isolation
are assumptions of all), `errors`, `http`, `api-client`, `ui` and the
applications around them. Not modelled; `PROJECT.json` says why for each.

### How they interact

Gateway → billing by signals; gateway → channel exposure by reservations, between
the gates and the attempt; gateway ↔ gateway by the records in Redis; worker →
billing by claims, which the queue only triggers; billing → wallet by verbs in
one transaction; billing → outbox by an insertion in the transaction that marks
a request dead; poll run → billing by signals; recovery → billing by lease.

The models meet at these seams. `Settlement` implements `BillingOutcome`, and
`Generation` is built over `BillingOutcome`, to which it adds only the lease
that recovery looks at. `Admission` takes a bill as open, settled or released, which is what
`Settlement` makes of it, and the wallet as a choice, which `LedgerRows` settles. `Settlement` takes the money of a transaction as one
step, which `LedgerRows` and `ChannelExposure` justify: transactions that lock,
abort and retry are as if they ran one after the other. `Settlement` assumes
that a due request is claimed again and again, which is what `SettlementQueue`
shows. `Failover` takes a record in Redis as moved in one step or not at all;
`Breaker` has the compare-and-set, its retries and its giving up in full.

## 2. Plan

Done, in this order: `Settlement` with `BillingOutcome`, where money is charged
or returned; `NoticeOutbox`, where its dead letters go; `Generation`, a client
of billing; `LedgerRows` with `Ledger` and `ChannelExposure` with `Exposure`,
the money beneath; `SettlementQueue`, what drives settlement; `Breaker` and
`Failover`, how a channel is chosen; `Admission`, who may spend what.

Next:

* payment callbacks and redemption; login challenges.

## 3. Settlement

**State.** `row` is `billing_requests`; `reservation`, `charges` and `usage` are
its money: the hold, how often it was captured, the usage row. `outbox` is the
dedupe keys of dead-letter notices. `sig` is a gateway inside
`request.succeeded`, `accepted` the receipts answered with success. `slot` is a settlement job, `expired` the list a recovery run
works from, `ops` the review commands by operation id.

**Actions.** One action is one transaction, or one step of a handler between
two of its transactions. The settlement transaction reads under the fence
(`SettleRead`), and commits under the same fence (`SettleCommit`) or rolls back
(`SettleThrow`): the writes of a transaction nobody sees yet are applied at its
commit. In a batch, reads and conditional updates of different requests commute,
so they are one read step and one commit.

**Abstractions.** Amounts, quotes and allocation are one capture; a request of
amount zero has an empty set of holds, all active, so its status is its hold.
Clock time is nondeterministic: a lease is live until an `Expire` step.
`next_settlement_at` only delays a claim. `gen_random_uuid()` for the claim
token is the new revision, which no other claim of the request has. A row whose
receipt no longer decodes fails like a defective one. `renewClaims` has no
caller in the repository. `runTx` retries deadlocks; a retried transaction is
one that has not run. The PostgreSQL adapter is the one modelled.

**Runs.**

| run | instance | shows |
|---|---|---|
| `settlement_race` | 1 request, 2 gateways, 2 workers, 2 receipts (one defective), 2 review commands, 2 faults | every safety property, every interleaving of the actors on one request; the third finding below |
| `settlement_live` | 2 requests in shared transactions, fairness | an owed request is settled or in review, an open one is closed |
| `settlement_retried` | smallest instance | the first finding below |

*Bounds.* The rows of different requests meet only in the batch, so one request
shows every race on a row and two show the batch; that batches keep the safety
properties as well is what the theorems say, for every number of requests. `MaxRevision` bounds how long
gateways keep signalling (beyond it a signal repeats what an earlier one did to
the same columns), `MaxAttempts` is the policy's own, `MaxFaults` bounds
crashes, shutdowns and leases lost by a job still at work. Two faults are enough
for a claim to be lost, claimed again and lost again.

*Fairness.* Workers claim due requests again and again and a job goes on unless
its process dies (every statement has a timeout), recovery runs by the clock,
leases end; that the queue claims due requests again and again is the property
of `SettlementQueue`. Signals, administrators and crashes get no fairness. That some
attempt ends within its lease is assumed: claims are not renewed.

**Proved**, for any sets and bounds, in `SettlementProofs`, along this chain:
types; the table of what one step may do to a row (`TransitionsTakeARevision`,
`AcceptedReceiptStands` rest on it); the claims invariant, that a claim whose
fence holds has the row's current token and revision, so that two live claims
are the same one (`OneLiveClaim`); the receipts invariant, that a gateway
between read and update and a claim in a slot know what is stored; the outcomes
invariant (`MoneyFollowsStatus`); a request has one notice once it has died and
none before (`NoticesTellOfDeaths`); a review command was taken on a revision the row
has no more (`DecisionsInv`, hence `OneReviewPerDeath`); with the outcomes every step maps to a step of
`BillingOutcome` or to a stutter (`KeepsPromise`). Assumptions are those the
module names: every slot has an owner, null is no id, NaN is no integer.
*Only model-checked:* `OwedIsDisposed`, `OpenIsClosed` (liveness).

## 4. NoticeOutbox

**State.** `notice` is `notify_outbox`, `tokens` the claims handed out, `active`
the channels switched on, `run` the dispatch runs, each with the channels it
listed and the row in hand; `received` is what channels have got.
**Actions** follow `dispatchOnce`: `StartRun`, `Claim`, `Deliver` and
`DeliverFails` for each target in any order, `RecordProgress`, `CompleteClaim` or
`FailClaim`, `EndRun`; and `Enqueue`, `PatchChannel`, `LeaseExpires`, `Crash`.
A send is counted when it reaches the channel. `next_attempt_at` only delays.

| run | instance | shows |
|---|---|---|
| `outbox_runs` | 1 notice, 2 channels, 2 runs of one process, 1 fault | the fence tells two runs of one owner apart, progress is real, sent is received, recorded is not sent again, and the notice is sent or given up |

*Bounds.* Rows meet only in the order a run takes them; two runs give every race
on a row. `LoopLimit` and `MaxAttempts` are the configured limits, made small;
`MaxFaults` bounds crashes and leases lost by a run at work. *Fairness.* The
scheduler starts runs for ever, sends have a timeout, leases end.

**Proved** in `WorkerProofs`: types together with what a run in hand holds
(`Typed`); tokens only grow and a claim has one, so two fences that hold belong
to one run (`TokensInv`, hence `OneLiveClaim`); recorded channels received
(`ProgressInv`); a run whose fence holds has listed everything recorded since
(`AheadInv`, hence `SentReachedItsChannels` and `RecordedIsNotResent`). The life
of a row is proved beside the runs' properties: a row that waits has attempts
left and one given up has used exactly `MaxAttempts` (`NothingStranded`: no crash
or lost lease can leave a pending row that the claim's `attempts` condition skips
for ever), and a closed row never moves again, an attempt being counted only by
the update that ends a live claim (`NoticesEndOnce`).
*Only model-checked:* `EveryNoticeIsClosed`.

## 5. Generation

**State.** `gate` is how far the gateway got, `upstream` the provider's job,
`task` the row's status, `overdue` what its clock has passed; `bill` is the
outcome of `BillingOutcome` with `lease`, `leaseOwner` and `freed` (the failure
code) beside it; `run` is a poll run: its stage, the rows it listed, the row in
hand and the next step for it. `kind` is chosen in the initial state, so one
task stands for both families.

**Actions.** The gateway authorises, starts the lease, submits, gives up (a
passed-through client error does the same to the bill) or stores the row. A run
expires overdue rows in one statement and reports them one by one, lists videos
and then queued music, and takes each row through probe or execution to its
close: bill first for a success (`CheckBilling`, `SignalSucceeded`,
`FinishTask`), row first for a failure (`FailTask`, `ReleaseFailed`). An owed
bill may be `settlement_pending` or a later status, so `CheckBilling` may see
either answer. Paging and the batch limit of the list are left out, rows are
taken in any order, and a row whose channel is gone is dropped for that run.

| run | instance | shows |
|---|---|---|
| `generation_runs` | 1 task of either kind, 2 overlapping runs, 2 faults | results are owed, releases are of closed tasks, every task ends |

*Bounds.* Tasks meet only in the order a run takes them; two runs and two faults
give every race and every pair of losses on one. *Fairness.* Runs are started
for ever and go on unless the worker dies (calls have deadlines), and
`expires_at` passes. Providers, channels, settlement and recovery get none:
`TaskEnds` holds by expiry alone.

**Proved** in `GenerationProofs` from one inductive invariant `IInv`: types; a
row exists only when the gateway is done (`GateInv`); a run about to finish a
row has seen its receipt in billing, one about to report it has closed it, and
the rows it is expiring are expired (`RunInv`); with these `DeliveredIsOwed` and
`ReportedIsUndelivered` are inductive, by two tables of what a step may do to a
bill and to a row. The bills, moved by the gateway, by poll runs and by recovery,
implement `BillingOutcome` (`BillsAsPromised`): what this module assumes of
billing is the promise that `Settlement` is proved to keep. *Only model-checked:* `TaskEnds`.

## 6. Ledger

**State.** `LedgerVerbs` has accounts (balance, in_flight, credit limit, debit
floor) and holds, and a verb is the set of ledgers it may leave: none when it is
refused, two when the code may go either way. `LedgerRows` adds what PostgreSQL
does between them: `owner` the row locks, `draft` what a transaction has written
and nobody sees, `txn` its place in its `program`.

**Actions.** `Observe` is what a verb reads before it locks (the ceiling of an
excess, whether a new floor covers the account), `Lock` takes the next row in
the verb's own order, `Perform`, `Refuse` and `Clamp` end the verb, `Commit` ends
the transaction under the deferred trigger `wallet_assert_account_coherent`, and
`Deadlock` aborts a member of a circle of waits: back to the savepoint if the
verb joined its caller, back to the start otherwise, and for good when `runTx`
has used its attempts.

**Abstractions.** Amounts are small integers; credit, refund and purchase are
moves between a user and a book account; the entries of the ledger are the
changes of balance. A verb writes only rows it has locked, so its writes are one
step. An identical repetition of a verb is a replay, by the status of its hold.

**Runs.** `ledger_rows`: six loads of four transactions, each chosen for rows
that several of them want: batches that meet two users in opposite orders,
excesses above a hold, refunds, floors taken away, the same hold twice. It shows
that the committed ledger moves as in `Ledger` (`RunsSerially`), that the books
agree with themselves, that only a floor meets the trigger, and that all
transactions end.
*Bounds.* Two users and the revenue account between them in lock order give both
orders in which two rows can be taken; `MaxTries` is the policy's number of
attempts, made small, so that both a successful retry and the last one happen.
*Fairness.* Statements have a timeout, PostgreSQL finds every deadlock.

**Proved** in `LedgerProofs`, for any accounts, holds, programs and numbers of
tries: types; that the committed books agree with themselves (`BooksAgree`); that
only a floor can meet the trigger (`OnlyFloorsAreIncoherent`); and that every
commit is one whole program of `Ledger`, run on what was committed just before
(`RunsSerially`). The inductive invariant keeps, for each transaction, the
history of its verbs: the rows it has locked are as they were when it locked
them, since whoever would change them waits; so its draft, on those rows, is a
run of its verbs so far, and so it would still be if the others had committed
first. What a verb read before its locks is shown not to matter, or to be checked
again under them. The sums over accounts and holds are reasoned about in `Sums`:
an induction over a finite set is done there by its smallest counterexample.
Assumptions: user and book accounts are numbered apart from each other and from
holds (`AccountsAssumption`, `HoldsAssumption`), there are finitely many
(`FiniteAssumption`), openings have books that agree (`OpeningsAssumption`),
programs are sequences of verbs (`LoadsAssumption`), transactions have at least
one try (`TriesAssumption`), null is none of them (`NoneAssumption`), and that a floor is set in a transaction of its own (`FloorsAssumption`): the
proof of `RunsSerially` failed without it, and the only caller of
`setDebitFloor` gives it no transaction (`users-funds.ts:93`).
`HoldsEndOnce` says what settlement relies on: a committed hold ends once, by
capture or by release, and its user and amount never change.
*Only model-checked:* `EveryTransactionEnds`.

## 7. ChannelExposure

**State.** `Exposure` has bills, as far as exposure tells them apart, and
channels; a job is one step. `ChannelExposure` has the jobs as transactions:
`draft` the rows written, which are also the rows locked, `txn` the bill as last
read, and the statement that comes next.

**Actions.** One action per statement: `Begin` reads without a lock; `Increase`,
`Decrease`, `Claim`, `Release`, `Succeed`, `Finalize`, `Deduct`, `Adjust` and
`Recharge` are guarded updates of the newest version of a row; `Finish` commits;
`Deadlock` as in the ledger. A switch increases the new channel, decreases the
old one and claims the bill last, and a conflict there rolls all of it back.

**Run.** `exposure_rows`: every three of thirteen jobs, from three openings; one is
a switch with amount 0, which the gateway sends for a channel without cost prices
(`billing-port.ts:176`, `208`) and which still returns the old exposure. It
shows that bills and channels move as in `Exposure`, that what a channel has
reserved is what its open and pending requests have set aside, and that jobs
end. *Bounds.* Two channels and two requests let switches cross; the third job
is what comes between them. A settlement above its estimate has an opening of
its own. *Fairness* as in the ledger.

**Proved** in `ExposureProofs`, for any channels, requests, loads and numbers of
tries, from one inductive invariant: types; what is reserved is owed and a
receipt stands with its status, in what is committed and in every draft laid over
it (`ReservedIsOwed`); no row is in two drafts (`Apart`); and how far each job
has come and what it made of its rows (`Sound`), where the bill that a settlement
has read is as it was or was settled by another (`Fresh`). With it a step either
leaves the committed rows alone or commits one whole job of `Exposure`, and so
`RunsSerially`. The committed bills also move only as `BillingOutcome` allows,
with open as held, pending as owed, released as returned and settled as charged
(`BillsAsPromised`); it speaks of steps, since an opening may hold bills that are
under way already. Settlement, Generation and exposure so share one abstract
promise; Admission is not shown to implement it step for step, since its
settlement takes receipt and charge in one step. Assumptions: finite sets
(`FiniteAssumption`), openings whose books agree (`OpeningsAssumption`), jobs
with amounts and names in range (`LoadsAssumption`, `NamesAssumption`), at least
one try (`TriesAssumption`).
*Only model-checked:* `EveryJobEnds`.

## 8. SettlementQueue

**State.** `row` as far as claiming goes, `job` the job of an id in Redis, `enq`
the runs of `enqueueMany` (sweeps and wake-ups), `con` the consumers.

**Actions.** `StartSweep` and `Wake` begin an enqueuer, `AddBulk` adds,
`GetJob`, `GetState`, `Remove`, `Add` recheck each id and replace a finished job
that the queue still retains. Consumers take a job, claim it and others with it,
settle, fall back, retry, fail or crash, and report to the queue if they still
have its lock. BullMQ is external: an id that exists in any state is not added,
finished jobs are retained and evicted, stalled ones are handed out again or
fail. What a settlement does to money is left to `Settlement`.

**Run.** `queue_live`: every due request is claimed. *Bounds.* Two requests with
a sweep of one at a time: the sweep's limit leaves one out. One consumer takes
the second along. One enqueuer is at work at a time: with two the liveness check of
two requests has too many states, so two rechecks of one id do not overlap in the
run (with a single request two enqueuers are checked in seconds, and the type
theorem is about any number of them). One fault is any of a lost job, a lost lease, a crash, an
error, an enqueuer that gave up. *Fairness.* The sweep is started for ever and
wake-ups do not keep it out; BullMQ passes no waiting job over for ever; leases,
delays and locks end. Wake-ups, retention and failures get none.

**Proved** at the end of `WorkerProofs`, for any requests, enqueuers, consumers
and limits: types, which need that exactly the active jobs are locked, that a job
which may still run has attempts left, and that a consumer at work has taken a
job; so a job is made no more than `JobAttempts` times, although what stalls is
run again and a consumer may report a job that it has lost. *Only model-checked:*
`EveryDueRowIsClaimed` (liveness).

## 9. Breaker

**State.** `store` is the record of one host with its version and time to live,
`phase` the attempts, `seen` what an attempt read for its admission, `task` the
recordings, at most one at the first chunk and one at the end of each attempt.

**Actions.** Admission reads and, if the breaker has cooled down, compares and
sets; a later gate may refuse the admitted request. `End` lets a request end as
a success, a failure or with nothing to record. Recordings read, compare and
set, and a failure tries again until `MaxRetries`. `TimePasses` ages window, cooldown
and key, while no round trip is under way.

**Run.** `breaker_shared`: an open breaker stays open until it has cooled down;
no failure on record is lost; one request is let through by a cooled breaker;
and a half-open one does not stay so, though the probe may have been refused by
a later gate, because its key ends. *Bounds.* Three requests: two to open it and
one to probe, or one to open it and two to race. Window and cooldown of one unit
make every order of their ends with an answer possible. *Fairness.* Round trips
end and time passes; the upstream may never answer.

**Proved** at the end of `FailoverProofs`, for any attempts, window, cooldown,
thresholds and number of retries, all positive (`ConfigAssumption`): types (the
proof bounds the retries of a recording below `MaxRetries`, which the type had
allowed to be reached); an open
breaker stays open until it has cooled down (`OpenUntilCooled`); no failure on
record is lost (`NoFailureIsLost`); one request is let through (`OneProbe`). The
inductive invariant says that what was read is the newest record or has an older
version (`Fresh`), that a compare-and-set under way was worth it (`SeenIsOpen`,
`TasksAreWorthIt`), and that the key outlives the cooldown and every failure that
still counts (`KeyLasts`). *Only model-checked:* `HalfOpenEnds`.

## 10. Failover

**State.** `cooling` the penalties, `memory` the record of each model, `policy`
what an administrator has configured, `req` where each request is in its loop
over candidates and channels, `marks` recordings that nobody waits for.

**Actions.** `SkipDead`, `SkipModel`, `Plan` open a candidate; `Gate` and
`Fallback` are the gates around the penalty. `Look` is one of the reads of a
`Promise.all` over channels: those of the plan end in `Planned`, which decides
whether the penalty counts, those before a refusal in `Fallback`; penalties change
between any two of them. `Serve`, `PassThrough`, `SwitchChannel`,
`GoToNextCandidate` are the outcomes of an attempt; `Wait`, `RunAgain`,
`StopWaiting`, `Fail` the end of a pass. A recording may be applied at any later
time or be given up. Health evidence is taken from the last attempt of a
candidate, as in the code, and a request-scoped refusal keeps a model from being
charged.

**Run.** `failover_memory`. *Bounds.* Two channels shared by two requests and a
second model without channels; a threshold of two is the least at which counting
one request twice would show; the policies are smart, strict and direct.
**Proved**, for any requests, models, catalog and policies, in `FailoverProofs`
from one inductive invariant: types; a recording of a failure was charged by the
request that sent it (`MarksAreCharged`), and only once (`MarksAreSingle`); the
failures on record and those on the way are together no more than the requests
that charged the model (`CountIsCovered`), and a dead model was counted up to
the threshold (`DeadWasCounted`), whence `DeadTakesManyRequests`; and
`PenaltyLeavesAWay`: with the conditional bypass the gate does not refuse the last
channel of a candidate after it has refused all others, as long as those have been
cooling since. For this the invariant keeps, of a request between its reads, that
has found a channel free, that not all others have been refused, and that what was
refused is still cooling. It is assumed that the threshold is at
least two and the requests are finitely many.

## 11. Admission

**State.** `sub` is `user_subscriptions`, `bound` the binding of keys, `seat`
`org_members`, `bill` what `billing_requests` and `usage_logs` say of a request,
`day` the clock; `txn` what the transaction of an `authorize` has read, and in
`todo` the reads it has still to make; `setting` what is configured.

**Actions.** `Begin` is the fast path, then one action per read: `Resolve`,
`Lock` (the advisory lock), `Reread`, `ReadSpent` and `ReadExposure` for the user
and for the key, `Snapshot`, `MembersExposure`, `MembersDay`, `MembersMonth`. The
plan that follows from them ends in `Grant`, `Replay` or `Refuse`. `Settle` and
`Release` end a request; `Renew`, `Change`, `Cancel`, `Purchase`, `GrantPack` and
`Lapse` move subscriptions, `RemoveMember` and `AcceptInvitation` seats.

**Abstractions.** Each read sees what is committed when it runs. Insertion,
reservation and commit are one step: a transaction writes last, and only rows
whose guarded update it keeps locked until it commits, so no other transaction
can tell. The wallet covers its share or does not. A request has three amounts:
the conservative estimate, which limits and exposure use, the calibrated one,
which is planned on a subscription, and what the reservation policy freezes when
there is none, which may be more than both. All are 0 for a free request, which asks no subscription. A renewed or changed subscription is sold again with its first
quota; prices are left out.

| run | instance | shows |
|---|---|---|
| `admission_rows` | an owner and a member with a request each, while the subscription changes under them; or three requests of a member by two keys, with limits of every kind, over two days; or a free request and one with a fixed amount beside the subscription | a pool is never overdrawn, what a change credits is not spent, and limits of users, keys and members hold for what the advisory lock serialises |
| `admission_seat` | the first of these, the member being active | the second finding below |

*Bounds.* Two transactions, since the third would wait for or follow one of them:
every race is between one that reads and another that commits, or a settlement.
Costs of nothing, below and above the estimate; the second day ends a daily sum. One pack per
subscription. No liveness: a client that is refused may give up.

**Proved** in `AdmissionProofs`, for any users, keys, requests, amounts and
limits: a pool is never overdrawn (`QuotaIsKept`), what a change credits is not
spent as well (`ChangedValueIsNotSpent`), what is in flight fits the limits
(`OpenIsLimited`), and so does a member whose requests take the lock
(`SerialMemberIsLimited`). The inductive invariant says what the reads of a
transaction still mean when others have moved since: who holds the advisory lock
is alone in adding to the sums it has read, and what leaves the exposure of a user
enters what he has spent or goes away. Assumptions: the settings and amounts are
in range (`SettingsAssumption`, `AmountsAssumption`), the sets are finite
(`FiniteAssumption`), users are not keys and null is no name (`NamesAssumption`),
and nothing has been drawn from a subscription at the start
(`OpeningsAssumption`). The calibrated estimate is never above the
conservative one (`calculate.ts:63-66` takes the lesser bound); the fixed amount and
what a settlement costs are any natural numbers, 0 among them.

What the limits do not do is as much part of the model. `OpenIsLimited` bounds
what is in flight only: `assertDailyLimit` reads what is settled before it reads
what is in flight (`authorize.ts:280`), and a settlement takes no advisory lock, so
a request that settles in between is in neither sum and the next one passes over
the limit. `SerialMemberIsLimited` is restricted to members whose requests take
the lock: without a daily limit of user or key two requests of one member read
the same sums and both pass (`subscription-source.ts:58`), although
`funding/plan.ts:6` takes the lock for granted.

## 12. Findings

| run | the code | the repository says |
|---|---|---|
| `settlement_retried` | a claim's attempt number is NaN, since `RETURNING` has no `settlement_attempts` column; every transient failure is dead at once | it is retried up to the limit |
| `admission_seat` | `memberLimits` selects the members of status 1, who have left; active members are refused, those who have left still spend | status 0 is active, 1 is left |
| `settlement_race` | a death after a revival repeats the dedupe key of the first notice (`failure.ts:71`: the attempt is NaN, and a review resets it, `billing-store-admin.ts:207`), so the outbox swallows it; `NoticesTellOfDeaths` holds: one notice, however many deaths | it is a new fact (`failure.ts:68`) |

Read while modelling, and visible in the models, without a run of their own:

* the poll run renews the lease of a task in the name of the request, the gateway
  had started it in its own (`generation-poll.ts:91`, `failover.ts:129`), so the
  renewal is refused as not the owner's and recovery may release the hold of a
  live task: `RenewLease` shows it, and `DeliveredIsOwed` says only that what is
  delivered afterwards is still owed;
* a settlement locks its holder before the pair of its legs, and a batch keeps the
  revenue account (`settle.ts:72`), so transactions can wait for each other, which
  `ports/wallet-store.ts:81` excludes: `Deadlock` in `LedgerRows` fires;
* a member is limited per subscription, so a renewal or a change starts his limits
  again (`subscription-source.ts:58`); a renewed subscription is usable at once and
  what was left of the old one is gone (`renew.ts`); one that has lapsed but was
  not yet expired can still be changed and credited (`change.ts:42`);
* of two callbacks of an expired order the one that loses the revival answers
  "fail", since it keeps the row it had read (`payments.ts:204-216`); the provider
  asks again;
* the penalty gate can refuse a channel at a moment when all are cooling, as the
  refusal comes after the reads, and refuse all in turn when a cooldown runs out
  between: `gates.ts:96` says of the conditional gate that it holds at the moment of
  the refusal, `gates.ts:57` only that the window is narrowed;
* a repeated receipt is answered `state_conflict` once settlement has begun
  (`signal.ts:150-156`);
* a notice whose lease ends between send and record is sent again
  (`dispatch-once.ts:5`, `154-156`); the receiver has the delivery id;
* a task expired by one run while another signals its success is charged
  (`generation-poll.ts:147-156`), although expiry releases without a charge
  (`generation-poll.ts:145`); the property of the module says of a hold that was
  returned by a report that nothing was delivered, and nothing of this case;
* a half-open breaker need not have a probe in flight (`breaker.ts:91`, `106`):
  a gate after it may have refused the request;
* a switch that loses against recovery ends in the defect
  `channel_exposure_invariant` when the old exposure is gone, not as the conflict
  its caller knows (`reserve-channel.ts:139-152`);
* a job that finishes between the two reads of a recheck is taken for a retained
  one and run again (`settlement-queue.ts:119-122`): `finishedOn` is of the first
  read, the state of the second;
* `schema/channels.ts:54`, `63` limit threshold and exposure to channels with a
  positive budget; the code gates and deducts at budget zero too;
* `upstream_started` is sent once per pass, not once per request
  (`failover.ts:125`), and the wait round keeps the policy of the first pass
  (`failover.ts:114`);
* the counting record of a model lives for the rest of the window of the failure
  before, so slow failures are not added up (`model-dead.ts:59-96`).

## 13. Beyond these checks

Not modelled: prices and receipts (decimal arithmetic), upstream protocols and
streams, rate limits (one script on one key each), identity, payments and codes,
accounts beyond members and the control plane beyond a channel's budget,
telemetry, HTTP, pages. Most of the
repository's lines are of this kind: user interfaces, forms, queries, DTOs,
assembly of dependencies and tests, which keep no state that several steps of
several actors could get wrong. The map therefore covers a small share of the
lines, those where state is shared.

Liveness and `ENABLED` are not within the prover's reach, so those properties
are checked on instances only. PostgreSQL is trusted: transactions are atomic, conditional
updates see the latest committed row and wait for its lock, clocks of one
database are monotone. BullMQ and Redis are trusted for what sections 8 and 9
say of them. Texts are not modelled, and times and amounts only where a property
depends on their order.
