------------------------------ MODULE Failover ------------------------------
(***************************************************************************)
(* The candidate loop of the gateway (failover.ts): for every model of the *)
(* chain, for every channel of the model in its order, pass the gates      *)
(* (gates.ts), reserve, attempt, and on failure go on (dispatch.ts); when  *)
(* everything failed for rate limits, wait once and run the pass again.    *)
(*                                                                         *)
(* Requests meet in the routing memory: the penalties of channels          *)
(* (penalty.ts) and the memory of dead models (model-dead.ts), each moved  *)
(* by a compare-and-set as the breaker is (Breaker), here in one step that *)
(* may be given up.  What the other gates, the upstream and the client do  *)
(* is open.                                                                *)
(***************************************************************************)
EXTENDS Integers, FiniteSets, Sequences, FiniteSetsExt

CONSTANTS
  Requests,
  Models,       \* the candidates of a request, in order
  Channels,
  ChannelsOf,   \* the channels that the catalog resolves for a model
  Primary,      \* the one that pickPrimaryChannel takes of them
  Policies,     \* the routing policies an administrator switches between
  MaxCooldown,  \* the longest penalty
  MaxWait,      \* wait.maxWaitMs
  Threshold,    \* modelDead.failureThreshold
  DeadTtl,      \* modelDead.ttlMs
  Window        \* modelDead.windowMs

ModelSet == {Models[i] : i \in 1..Len(Models)}

ASSUME FailoverAssumption ==
  /\ IsFiniteSet(Requests)
  /\ Models \in Seq(ModelSet) /\ Len(Models) > 0
  /\ ChannelsOf \in [ModelSet -> SUBSET Channels]
  /\ \A m \in ModelSet : ChannelsOf[m] # {} => Primary[m] \in ChannelsOf[m]
  /\ Policies \subseteq [enabled : BOOLEAN, wait : BOOLEAN, bypass : BOOLEAN]
  /\ {MaxCooldown, MaxWait, DeadTtl, Window} \subseteq Nat \ {0}
  /\ Threshold \in Nat \ {0, 1}

VARIABLES
  cooling,  \* how long each channel is still penalised
  memory,   \* the record of each model
  policy,   \* what policy.latest() returns
  req,      \* where each request is
  marks     \* recordings of a request that nobody waits for

vars == <<cooling, memory, policy, req, marks>>
-----------------------------------------------------------------------------
\* ttl is 0 when the key is missing; ago is the time since the last failure.
Record ==
  [dead : BOOLEAN, consecutive : Nat, ago : 0..Window, ttl : 0..DeadTtl + Window]

NoRecord == [dead |-> FALSE, consecutive |-> 0, ago |-> 0, ttl |-> 0]

\* upstream stands for every other error kind that is the fault of the channel,
\* unhealthy for an open breaker and for a dead credential.
SwitchCodes == {"rate_limited", "quota_exhausted", "upstream", "invalid_config"}
NextCodes == {"upstream", "canceled"}

\* limited: whether lastCode is one that is waited for.  unread and free: the
\* penalties still to be read, and whether one that was read is over.  refused
\* is history that no step looks at: the channels of the candidate that were
\* cooling when Fallback refused them and have been ever since.
Request ==
  [step : {"new", "plan", "snapshot", "gate", "fallback", "reserve", "finish",
           "wait", "served", "released"},
   policy : Policies, pass : 1..2, candidate : 1..Len(Models) + 1,
   todo : SUBSET Channels, channel : SUBSET Channels, enforced : BOOLEAN,
   evidence : BOOLEAN, scoped : BOOLEAN, failed : SUBSET ModelSet,
   charged : SUBSET ModelSet, offered : SUBSET Channels,
   limited : BOOLEAN, wait : 0..MaxWait,
   unread : SUBSET Channels, free : BOOLEAN, refused : SUBSET Channels]

TypeOK ==
  /\ cooling \in [Channels -> 0..MaxCooldown]
  /\ memory \in [ModelSet -> Record]
  /\ policy \in Policies
  /\ req \in [Requests -> Request]
  /\ marks \subseteq Requests \X ModelSet \X {"failure", "success"} \X (1..2)

StartOfPass(p, pass, charged) ==
  [step |-> "plan", policy |-> p, pass |-> pass, candidate |-> 1,
   todo |-> {}, channel |-> {}, enforced |-> FALSE, evidence |-> FALSE,
   scoped |-> FALSE, failed |-> {}, charged |-> charged, offered |-> {},
   limited |-> FALSE, wait |-> 0, unread |-> {}, free |-> FALSE, refused |-> {}]

Init ==
  /\ cooling = [ch \in Channels |-> 0]
  /\ memory = [m \in ModelSet |-> NoRecord]
  /\ policy \in Policies
  /\ req = [r \in Requests |->
              [StartOfPass(policy, 1, {}) EXCEPT !.step = "new"]]
  /\ marks = {}
-----------------------------------------------------------------------------
(* The loop over candidates and channels. *)

Model(q) == Models[q.candidate]

\* candidatesOf: without smart routing only the first model is a candidate.
LastCandidate(q) == IF q.policy.enabled THEN Len(Models) ELSE 1

Cooling(chs) == {ch \in chs : cooling[ch] > 0}

\* The request when its current candidate is used up.
NextCandidate(q) ==
  LET failed == IF q.evidence /\ ~q.scoped THEN q.failed \union {Model(q)} ELSE q.failed
  IN [q EXCEPT !.step = IF q.candidate < LastCandidate(q) THEN "plan" ELSE "finish",
               !.candidate = @ + 1, !.todo = {}, !.channel = {}, !.enforced = FALSE,
               !.evidence = FALSE, !.scoped = FALSE, !.failed = failed, !.refused = {}]

\* The request after a channel of its candidate.
NextChannel(q) ==
  IF q.todo = {} THEN NextCandidate(q) ELSE [q EXCEPT !.step = "gate", !.channel = {}]

RequestScoped(code) == code \in {"channel_budget_exhausted", "rate_limit_exceeded"}

Limited(code) == code \in {"rate_limited", "rate_limit_exceeded"}

Refused(q, code) ==
  NextChannel(IF RequestScoped(code)
              THEN [q EXCEPT !.limited = Limited(code), !.scoped = TRUE]
              ELSE [q EXCEPT !.limited = Limited(code), !.evidence = TRUE])

Enter(r) ==
  /\ req[r].step = "new"
  /\ req' = [req EXCEPT ![r] = StartOfPass(policy, 1, {})]
  /\ UNCHANGED <<cooling, memory, policy, marks>>

\* A candidate that is remembered as dead is skipped, and does not hide the code
\* of a failure before it.
SkipDead(r) ==
  LET q == req[r] IN
  /\ q.step = "plan"
  /\ q.policy.enabled /\ memory[Model(q)].dead
  /\ req' = [req EXCEPT ![r] = NextCandidate(q)]
  /\ UNCHANGED <<cooling, memory, policy, marks>>

\* admitModel refuses, or the catalog has no channel.
SkipModel(r) ==
  LET q == req[r] IN
  /\ q.step = "plan"
  /\ q.policy.enabled => ~memory[Model(q)].dead
  /\ \/ req' = [req EXCEPT ![r] = NextCandidate([q EXCEPT !.limited = TRUE])]
     \/ /\ ChannelsOf[Model(q)] = {}
        /\ req' = [req EXCEPT ![r] = NextCandidate(q)]
  /\ UNCHANGED <<cooling, memory, policy, marks>>

\* The channels a candidate is tried on, in a weighted random order.
Resolved(q) == IF q.policy.enabled THEN ChannelsOf[Model(q)] ELSE {Primary[Model(q)]}

\* Only the conditional gate depends on the penalties; one that is always on
\* reads them to no effect.
Plan(r) ==
  LET q == req[r]
      look == q.policy.enabled /\ q.policy.bypass
  IN
  /\ q.step = "plan"
  /\ q.policy.enabled => ~memory[Model(q)].dead
  /\ ChannelsOf[Model(q)] # {}
  /\ req' = [req EXCEPT ![r] = [q EXCEPT
       !.step = IF look THEN "snapshot" ELSE "gate",
       !.todo = Resolved(q), !.offered = @ \union Resolved(q),
       !.unread = IF look THEN Resolved(q) ELSE {},
       !.enforced = q.policy.enabled /\ ~look]]
  /\ UNCHANGED <<cooling, memory, policy, marks>>

\* One of the reads of a Promise.all over penalised channels, which overlap with
\* whatever other requests do.
Look(r) ==
  LET q == req[r] IN
  /\ q.step \in {"snapshot", "fallback"}
  /\ \E ch \in q.unread :
       req' = [req EXCEPT ![r] = [q EXCEPT !.unread = @ \ {ch},
                                           !.free = @ \/ cooling[ch] = 0]]
  /\ UNCHANGED <<cooling, memory, policy, marks>>

\* The penalty gate is on when some channel was not cooling.
Planned(r) ==
  LET q == req[r] IN
  /\ q.step = "snapshot" /\ q.unread = {}
  /\ req' = [req EXCEPT ![r] = [q EXCEPT !.step = "gate", !.enforced = q.free,
                                          !.free = FALSE]]
  /\ UNCHANGED <<cooling, memory, policy, marks>>

\* The channels of the candidate besides the current one.
Others(q) == Resolved(q) \ q.channel

\* The limits of the channel, its health, and the first look at its penalty.
Gate(r) ==
  LET q == req[r] IN
  /\ q.step = "gate"
  /\ \E ch \in q.todo :
       LET next == [q EXCEPT !.todo = @ \ {ch}, !.channel = {ch}] IN
       \/ \E code \in {"rate_limit_exceeded", "unhealthy"} :
            req' = [req EXCEPT ![r] = Refused(next, code)]
       \/ req' = [req EXCEPT ![r] =
            IF ~q.enforced \/ cooling[ch] = 0 THEN [next EXCEPT !.step = "reserve"]
            ELSE IF q.policy.bypass
            THEN [next EXCEPT !.step = "fallback", !.unread = Others(next)]
            ELSE Refused(next, "rate_limited")]
  /\ UNCHANGED <<cooling, memory, policy, marks>>

\* Mutant: the snapshot of the plan decides.
NeverPasses(q) == q.step # "fallback"

\* othersAllCoolingFor, of what its reads have found.
MayPass(q) == ~q.free

\* A cooling channel is refused unless the others were all found cooling too.
Fallback(r) ==
  LET q == req[r]
      done == [q EXCEPT !.free = FALSE]
  IN
  /\ q.step = "fallback" /\ q.unread = {}
  /\ req' = [req EXCEPT ![r] =
       IF MayPass(q) THEN [done EXCEPT !.step = "reserve"]
       ELSE Refused([done EXCEPT !.refused = @ \union Cooling(q.channel)], "rate_limited")]
  /\ UNCHANGED <<cooling, memory, policy, marks>>

\* The budget of the channel (ChannelExposure); upstream_started follows
\* (Settlement), and the attempt.
OverBudget(r) ==
  /\ req[r].step = "reserve"
  /\ req' = [req EXCEPT ![r] = Refused(@, "channel_budget_exhausted")]
  /\ UNCHANGED <<cooling, memory, policy, marks>>

\* Mutant: whatever an earlier pass charged.
FailedInPass(q) == q.failed

\* What recordDeadModelFailures sends of a pass: no model of an earlier pass.
NewlyFailed(q) == q.failed \ q.charged

Charge(r, q) == marks \union ({r} \X NewlyFailed(q) \X {"failure"} \X {q.pass})

Ended(q, step) ==
  [StartOfPass(q.policy, q.pass, q.charged \union q.failed) EXCEPT !.step = step]

\* Failures of earlier candidates are charged also when a later one serves.
ChargeOf(r, q) == IF q.policy.enabled THEN Charge(r, q) ELSE marks

\* The upstream served, and the receipt was signalled or given up.
Serve(r) ==
  LET q == req[r] IN
  /\ q.step = "reserve"
  /\ req' = [req EXCEPT ![r] = Ended(q, "served")]
  /\ marks' = ChargeOf(r, q) \union {<<r, Model(q), "success", q.pass>>}
  /\ UNCHANGED <<cooling, memory, policy>>

\* A client error is passed through: released, and no other channel is tried.
PassThrough(r) ==
  LET q == req[r] IN
  /\ q.step = "reserve"
  /\ req' = [req EXCEPT ![r] = Ended(q, "released")]
  /\ marks' = ChargeOf(r, q)
  /\ UNCHANGED <<cooling, memory, policy>>

\* accumulateHealthEvidence looks at the last attempt alone.
HealthEvidence(code) == code \notin {"invalid_config", "canceled"}

\* A penalty is awaited, never shortens the cooldown and may fail to be stored.
Penalised(ch, code) ==
  IF policy.enabled /\ code \in {"rate_limited", "quota_exhausted"}
  THEN \E d \in 0..MaxCooldown :
         cooling' = [cooling EXCEPT ![ch] = IF d > @ THEN d ELSE @]
  ELSE UNCHANGED cooling

SwitchChannel(r) ==
  LET q == req[r] IN
  /\ q.step = "reserve"
  /\ \E code \in SwitchCodes, ch \in q.channel :
       /\ Penalised(ch, code)
       /\ req' = [req EXCEPT ![r] = NextChannel(
            [q EXCEPT !.limited = Limited(code), !.evidence = HealthEvidence(code)])]
  /\ UNCHANGED <<memory, policy, marks>>

GoToNextCandidate(r) ==
  LET q == req[r] IN
  /\ q.step = "reserve"
  /\ \E code \in NextCodes :
       req' = [req EXCEPT ![r] = NextCandidate(
         [q EXCEPT !.limited = Limited(code), !.evidence = HealthEvidence(code)])]
  /\ UNCHANGED <<cooling, memory, policy, marks>>
-----------------------------------------------------------------------------
(* The end of a pass. *)

\* The first recovery of the channels that the pass went through.
Earliest(q) == Min({cooling[ch] : ch \in q.offered})

\* maybeWaitAndRetry, which looks at the newest policy.
Waitable(q) ==
  /\ policy.enabled /\ policy.wait
  /\ q.limited
  /\ q.offered # {}
  /\ Earliest(q) \in 1..MaxWait

Wait(r) ==
  LET q == req[r] IN
  /\ q.step = "finish"
  /\ q.pass = 1 /\ Waitable(q)
  /\ req' = [req EXCEPT ![r] = [Ended(q, "wait") EXCEPT !.wait = Earliest(q)]]
  /\ marks' = ChargeOf(r, q)
  /\ UNCHANGED <<cooling, memory, policy>>

\* request_failed; a client that is gone is not waited for.
Fail(r) ==
  LET q == req[r] IN
  /\ q.step = "finish"
  /\ req' = [req EXCEPT ![r] = Ended(q, "released")]
  /\ marks' = ChargeOf(r, q)
  /\ UNCHANGED <<cooling, memory, policy>>

\* The second pass runs with the policy of the first.
RunAgain(r) ==
  LET q == req[r] IN
  /\ q.step = "wait" /\ q.wait = 0
  /\ req' = [req EXCEPT ![r] = StartOfPass(q.policy, 2, q.charged)]
  /\ UNCHANGED <<cooling, memory, policy, marks>>

StopWaiting(r) ==
  /\ req[r].step = "wait" /\ req[r].wait = 0
  /\ req' = [req EXCEPT ![r] = Ended(@, "released")]
  /\ UNCHANGED <<cooling, memory, policy, marks>>
-----------------------------------------------------------------------------
(* The memory of dead models. *)

NextCount(rec) ==
  IF rec.ttl > 0 /\ ~rec.dead /\ rec.consecutive > 0 THEN rec.consecutive + 1 ELSE 1

\* The counting record lives for the rest of the window of the failure before.
Failed(rec) ==
  IF rec.dead
  THEN [rec EXCEPT !.ago = 0, !.ttl = DeadTtl]
  ELSE [dead |-> NextCount(rec) >= Threshold,
        consecutive |-> NextCount(rec),
        ago |-> 0,
        ttl |-> IF NextCount(rec) >= Threshold THEN DeadTtl
                ELSE IF rec.ago < Window THEN Window - rec.ago ELSE 1]

Succeeded(rec) ==
  IF rec.ttl = 0 THEN rec
  ELSE [dead |-> FALSE, consecutive |-> 0, ago |-> 0, ttl |-> Window]

\* Recordings come in any order, and are given up after three conflicts.
Recorded(mark) ==
  LET m == mark[2] IN
  /\ marks' = marks \ {mark}
  /\ \/ memory' = [memory EXCEPT ![m] =
          IF mark[3] = "failure" THEN Failed(@) ELSE Succeeded(@)]
     \/ UNCHANGED memory
  /\ UNCHANGED <<cooling, policy, req>>
-----------------------------------------------------------------------------
Reload ==
  /\ policy' \in Policies \ {policy}
  /\ UNCHANGED <<cooling, memory, req, marks>>

\* Mutant: below zero.
Lower(n) == n - 1

Down(n) == IF n > 0 THEN n - 1 ELSE 0

Aged(rec) ==
  IF rec.ttl <= 1 THEN NoRecord
  ELSE [rec EXCEPT !.ttl = @ - 1,
                   !.ago = IF rec.consecutive > 0 /\ @ < Window THEN @ + 1 ELSE @]

Tick ==
  /\ cooling' = [ch \in Channels |-> Down(cooling[ch])]
  /\ memory' = [m \in ModelSet |-> Aged(memory[m])]
  /\ req' = [r \in Requests |->
       [req[r] EXCEPT !.wait = Down(@),
                      !.refused = {ch \in @ : Down(cooling[ch]) > 0}]]
  /\ UNCHANGED <<policy, marks>>

Run(r) ==
  \/ Enter(r) \/ SkipDead(r) \/ SkipModel(r) \/ Plan(r) \/ Look(r) \/ Planned(r)
  \/ Gate(r) \/ Fallback(r) \/ OverBudget(r) \/ Serve(r) \/ PassThrough(r) \/ SwitchChannel(r)
  \/ GoToNextCandidate(r) \/ Wait(r) \/ Fail(r) \/ RunAgain(r) \/ StopWaiting(r)

Next ==
  \/ \E r \in Requests : Run(r)
  \/ \E mark \in marks : Recorded(mark)
  \/ Reload
  \/ Tick

Spec == Init /\ [][Next]_vars
-----------------------------------------------------------------------------
\* A model is dead only when as many requests as the threshold says found it
\* exhausted: no request counts twice, whatever it retries (model-dead.ts:9).
DeadTakesManyRequests ==
  \A m \in ModelSet : memory[m].dead =>
    Cardinality({r \in Requests : m \in req[r].charged}) >= Threshold

\* With conditionalBypass a candidate is not lost to cooldowns recorded while a
\* request goes through its channels: the gate is never about to refuse the last
\* of them when it has refused all others and they have been cooling ever since.
\* The reads are spread over time, and the answers of other requests penalise
\* any channel between them (gates.ts:13, gates.ts:59).
PenaltyLeavesAWay ==
  \A r \in Requests :
    LET q == req[r] IN
    q.step = "fallback" /\ q.unread = {} /\ ~MayPass(q) =>
      q.refused \union q.channel # ChannelsOf[Model(q)]
=============================================================================
