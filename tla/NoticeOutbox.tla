---------------------------- MODULE NoticeOutbox ----------------------------
(***************************************************************************)
(* The transactional outbox of packages/notifications: rows of             *)
(* notify_outbox are claimed one at a time by dispatch runs (dispatchOnce) *)
(* of several worker processes, sent to the channels in parallel, and      *)
(* their progress and their end recorded under the fence of the claim.     *)
(*                                                                         *)
(* The scheduler starts a run while an earlier one of the same process is  *)
(* still going, so two runs may share an owner.  next_attempt_at only      *)
(* delays a claim and is left out; a lease is live until LeaseExpires.     *)
(***************************************************************************)
EXTENDS Naturals, FiniteSets

CONSTANTS
  Notices,      \* outbox rows, one for each dedupe key
  Channels,     \* notification channels that subscribe to the event
  Runs,         \* dispatch runs that may be going at once
  Owners,       \* worker processes
  RunOwner,     \* the process of a run
  MaxAttempts,  \* config.maxAttempts
  LoopLimit,    \* config.loopBatchLimit
  MaxFaults,    \* BOUND on crashes and leases lost by a run still at work
  None          \* SQL null

ASSUME RunsAssumption == RunOwner \in [Runs -> Owners]
ASSUME LimitsAssumption ==
  /\ MaxAttempts \in Nat \ {0} /\ LoopLimit \in Nat \ {0}
  /\ MaxFaults \in Nat
ASSUME NoneAssumption == None \notin Notices \cup Owners

VARIABLES
  notice,    \* notify_outbox; status "none" is a row not inserted yet
  tokens,    \* claim tokens handed out for the row, gen_random_uuid()
  active,    \* channels with status 0
  run,       \* the dispatch runs
  received,  \* <<notice, channel>> of the sends that succeeded
  faults

vars == <<notice, tokens, active, run, received, faults>>
-----------------------------------------------------------------------------
Closed == {"sent", "given_up"}

\* sent_at and last_error tell "sent" from "given_up"; both null is "pending".
NoticeRow ==
  [status : {"none", "pending"} \cup Closed, attempts : Nat,
   delivered : SUBSET Channels, owner : Owners \cup {None},
   token : Nat \cup {None}, lease : {"none", "live", "expired"}]

NewNotice ==
  [status |-> "none", attempts |-> 0, delivered |-> {}, owner |-> None,
   token |-> None, lease |-> "none"]

\* A run: the channels it listed, the rows it may still claim, and the row in
\* hand with its targets and the results of the sends so far.
Run ==
  [phase : {"idle", "ready", "sending", "recorded"},
   snapshot : SUBSET Channels, left : 0..LoopLimit,
   item : Notices \cup {None}, token : Nat,
   targets : SUBSET Channels, ok : SUBSET Channels, bad : SUBSET Channels]

IdleRun ==
  [phase |-> "idle", snapshot |-> {}, left |-> 0, item |-> None, token |-> 0,
   targets |-> {}, ok |-> {}, bad |-> {}]

TypeOK ==
  /\ notice \in [Notices -> NoticeRow]
  /\ tokens \in [Notices -> Nat]
  /\ active \subseteq Channels
  /\ run \in [Runs -> Run]
  /\ received \subseteq (Notices \X Channels)
  /\ faults \in Nat

Init ==
  /\ notice = [n \in Notices |-> NewNotice]
  /\ tokens = [n \in Notices |-> 0]
  /\ active = Channels
  /\ run = [d \in Runs |-> IdleRun]
  /\ received = {}
  /\ faults = 0

\* The three columns and the lease every update of a claimed row asks for.
FenceOwnerOnly(d) ==
  /\ notice[run[d].item].status = "pending"
  /\ notice[run[d].item].owner = RunOwner[d]
  /\ notice[run[d].item].lease = "live"
Fence(d) ==
  /\ notice[run[d].item].status = "pending"
  /\ notice[run[d].item].owner = RunOwner[d]
  /\ notice[run[d].item].token = run[d].token
  /\ notice[run[d].item].lease = "live"

Unclaimed(row) == [row EXCEPT !.owner = None, !.token = None, !.lease = "none"]

\* The run goes on to its next row.
NextItem(d) ==
  run' = [run EXCEPT ![d] = [@ EXCEPT !.phase = "ready", !.item = None,
                                      !.targets = {}, !.ok = {}, !.bad = {}]]
-----------------------------------------------------------------------------
\* insertOutboxEvent; a dedupe key that is there, closed or not, is kept.
Enqueue(n) ==
  /\ notice[n].status = "none"
  /\ notice' = [notice EXCEPT ![n].status = "pending"]
  /\ UNCHANGED <<tokens, active, run, received, faults>>

\* An administrator disables, removes or enables a channel.
PatchChannel(c) ==
  /\ active' = IF c \in active THEN active \ {c} ELSE active \cup {c}
  /\ UNCHANGED <<notice, tokens, run, received, faults>>

\* A run begins with the active channels of that moment.
StartRun(d) ==
  /\ run[d].phase = "idle"
  /\ run' = [run EXCEPT ![d] = [IdleRun EXCEPT !.phase = "ready",
                                               !.snapshot = active,
                                               !.left = LoopLimit]]
  /\ UNCHANGED <<notice, tokens, active, received, faults>>

ClaimableUnclaimed(n) ==
  /\ notice[n].status = "pending"
  /\ notice[n].attempts < MaxAttempts
  /\ notice[n].lease = "none"
Claimable(n) ==
  /\ notice[n].status = "pending"
  /\ notice[n].attempts < MaxAttempts
  /\ notice[n].lease \in {"none", "expired"}

\* selectTargetChannels: the channels of the snapshot not yet recorded.
AllChannels(snapshot, delivered) == snapshot
Targets(snapshot, delivered) == snapshot \ delivered

\* The run has not yet taken loopBatchLimit rows.
NoLimit(d) == TRUE
MayClaim(d) == run[d].left > 0

\* The row claimPending writes, and the run with that row in hand.
ClaimedNotice(row, o, t) ==
  [row EXCEPT !.owner = o, !.token = t, !.lease = "live"]
RunWith(r, n, t) ==
  [r EXCEPT !.phase = "sending", !.left = r.left - 1, !.item = n, !.token = t,
            !.targets = Targets(r.snapshot, notice[n].delivered)]

\* claimPending with limit 1.
Claim(d, n) ==
  /\ run[d].phase = "ready"
  /\ MayClaim(d)
  /\ Claimable(n)
  /\ tokens' = [tokens EXCEPT ![n] = tokens[n] + 1]
  /\ notice' = [notice EXCEPT ![n] =
                  ClaimedNotice(notice[n], RunOwner[d], tokens[n] + 1)]
  /\ run' = [run EXCEPT ![d] = RunWith(run[d], n, tokens[n] + 1)]
  /\ UNCHANGED <<active, received, faults>>

\* The run ends at its limit or when nothing is due.
EndRun(d) ==
  /\ run[d].phase = "ready"
  /\ ~MayClaim(d) \/ \A n \in Notices : ~Claimable(n)
  /\ run' = [run EXCEPT ![d] = IdleRun]
  /\ UNCHANGED <<notice, tokens, active, received, faults>>

Unsent(d) == run[d].targets \ (run[d].ok \cup run[d].bad)

\* deliverToChannel returns true.
Deliver(d, c) ==
  /\ run[d].phase = "sending"
  /\ c \in Unsent(d)
  /\ run' = [run EXCEPT ![d].ok = @ \cup {c}]
  /\ received' = received \cup {<<run[d].item, c>>}
  /\ UNCHANGED <<notice, tokens, active, faults>>

\* deliverToChannel returns false or throws.
DeliverFails(d, c) ==
  /\ run[d].phase = "sending"
  /\ c \in Unsent(d)
  /\ run' = [run EXCEPT ![d].bad = @ \cup {c}]
  /\ UNCHANGED <<notice, tokens, active, received, faults>>

\* The channels recordDeliveredChannels appends.
AllTargets(d) == run[d].targets
Succeeded(d) == run[d].ok

\* recordDeliveredChannels: no success is no update and no fence; a claim that
\* is over drops the row.
RecordProgress(d) ==
  /\ run[d].phase = "sending"
  /\ run[d].targets # {} /\ Unsent(d) = {}
  /\ \/ /\ run[d].ok = {}
        /\ run' = [run EXCEPT ![d].phase = "recorded"]
        /\ UNCHANGED notice
     \/ /\ run[d].ok # {} /\ Fence(d)
        /\ notice' = [notice EXCEPT ![run[d].item].delivered =
                        @ \cup Succeeded(d)]
        /\ run' = [run EXCEPT ![d].phase = "recorded"]
     \/ /\ run[d].ok # {} /\ ~Fence(d)
        /\ NextItem(d)
        /\ UNCHANGED notice
  /\ UNCHANGED <<tokens, active, received, faults>>

\* Everything was delivered, or no channel wants the notice.
SomeDelivered(d) ==
  \/ run[d].phase = "sending" /\ run[d].targets = {}
  \/ run[d].phase = "recorded" /\ run[d].ok # {}
AllDelivered(d) ==
  \/ run[d].phase = "sending" /\ run[d].targets = {}
  \/ run[d].phase = "recorded" /\ run[d].bad = {}

\* The row completeClaim writes.
SentNotice(row) ==
  [Unclaimed(row) EXCEPT !.status = "sent", !.attempts = row.attempts + 1]

\* completeClaim.
CompleteClaim(d) ==
  /\ AllDelivered(d)
  /\ notice' = IF Fence(d)
               THEN [notice EXCEPT ![run[d].item] =
                       SentNotice(notice[run[d].item])]
               ELSE notice
  /\ NextItem(d)
  /\ UNCHANGED <<tokens, active, received, faults>>

\* The row failClaim writes.
FailedNotice(row) ==
  [Unclaimed(row) EXCEPT
     !.status = IF row.attempts + 1 >= MaxAttempts
                THEN "given_up" ELSE row.status,
     !.attempts = row.attempts + 1]

\* failClaim: back to pending, or given up at the limit.
FailClaim(d) ==
  /\ run[d].phase = "recorded"
  /\ ~AllDelivered(d)
  /\ notice' = IF Fence(d)
               THEN [notice EXCEPT ![run[d].item] =
                       FailedNotice(notice[run[d].item])]
               ELSE notice
  /\ NextItem(d)
  /\ UNCHANGED <<tokens, active, received, faults>>

Fault(n) == faults + n <= MaxFaults /\ faults' = faults + n

\* The clock passes claim_until, while a run still works on the row or not.
LeaseExpires(n) ==
  /\ notice[n].lease = "live"
  /\ notice' = [notice EXCEPT ![n].lease = "expired"]
  /\ Fault(IF \E d \in Runs : run[d].item = n /\ Fence(d) THEN 1 ELSE 0)
  /\ UNCHANGED <<tokens, active, run, received>>

\* The process of a run dies, or a statement of it throws.
Crash(d) ==
  /\ run[d].phase # "idle"
  /\ run' = [run EXCEPT ![d] = IdleRun]
  /\ Fault(1)
  /\ UNCHANGED <<notice, tokens, active, received>>
-----------------------------------------------------------------------------
RunStep(d) ==
  \/ StartRun(d) \/ EndRun(d) \/ RecordProgress(d)
  \/ CompleteClaim(d) \/ FailClaim(d)
  \/ \E n \in Notices : Claim(d, n)
  \/ \E c \in Channels : Deliver(d, c) \/ DeliverFails(d, c)

Next ==
  \/ \E n \in Notices : Enqueue(n) \/ LeaseExpires(n)
  \/ \E c \in Channels : PatchChannel(c)
  \/ \E d \in Runs : RunStep(d) \/ Crash(d)

Spec == Init /\ [][Next]_vars

\* The scheduler starts runs again and again, a run goes on unless its process
\* dies (every send has a timeout), and the clock advances.
FairSpec ==
  /\ Spec
  /\ \A d \in Runs : WF_vars(RunStep(d))
  /\ \A n \in Notices : WF_vars(LeaseExpires(n))
-----------------------------------------------------------------------------
(* Properties *)

\* At most one run passes the fence of a row, whatever leases ran out and
\* however many runs of one process have claimed the row (notify-store.ts).
OneLiveClaim ==
  \A d, e \in Runs :
    /\ run[d].item # None
    /\ run[d].item = run[e].item
    /\ Fence(d) /\ Fence(e)
    => d = e

\* A channel recorded as delivered has received the notice, so that skipping
\* it on a retry loses nothing (dispatch-once.ts, succeededChannelIds).
ProgressIsReal ==
  \A n \in Notices : \A c \in notice[n].delivered : <<n, c>> \in received

\* A notice is closed as sent by a run all of whose channels have received it,
\* in this run or in earlier ones (dispatch-once.ts, settleClaimedItem).
SentReachedItsChannels ==
  [][\A n \in Notices :
       notice[n].status # "sent" /\ notice[n].status' = "sent" =>
         \E d \in Runs :
           /\ run[d].item = n /\ run'[d] # run[d]
           /\ \A c \in run[d].snapshot : <<n, c>> \in received]_vars

\* While its claim holds, a run sends nothing to a channel already recorded as
\* delivered, by an earlier attempt or by another worker (delivery.ts,
\* selectTargetChannels).
RecordedIsNotResent ==
  [][\A d \in Runs :
       run[d].phase = "sending" /\ Fence(d) =>
         \A c \in (run'[d].ok \cup run'[d].bad) \ (run[d].ok \cup run[d].bad) :
           c \notin notice[run[d].item].delivered]_vars

\* Every notice ends sent or given up: no crash, lost lease or failing channel
\* strands it (README of the package).
EveryNoticeIsClosed ==
  \A n \in Notices :
    notice[n].status = "pending" ~> notice[n].status \in Closed
=============================================================================
