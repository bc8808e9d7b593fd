--------------------------- MODULE FailoverProofs ---------------------------
(***************************************************************************)
(* Theorems about Failover, for any finite set of requests, any chain and  *)
(* catalog, any policies and any thresholds and times; and, at the end,    *)
(* about the circuit breaker of one host (Breaker).                        *)
(***************************************************************************)
EXTENDS Failover, Breaker, FiniteSetTheorems, TLAPS

Running == {"plan", "snapshot", "gate", "fallback", "reserve"}

\* Between the reads of the other channels and after them: those that are unread
\* are among the others, and one that was read as free has not been refused.
WayOut(q) ==
  /\ q.unread \subseteq Others(q)
  /\ q.free => \E ch \in Others(q) : ch \notin q.refused

\* A request works on a candidate of the chain, and only smart routing looks
\* at penalties.
SoundRequest(q) ==
  /\ q.step \in Running => q.candidate \in 1..Len(Models)
  /\ q.enforced \/ q.step \in {"snapshot", "fallback"} => q.policy.enabled
  /\ q.step = "new" => q.charged = {}
  /\ q.step \notin {"snapshot", "fallback"} => ~q.free
  /\ q.step = "fallback" => WayOut(q)

Sound == \A r \in Requests : SoundRequest(req[r])

\* What is remembered as refused is still cooling.
RefusedCool == \A r \in Requests : req[r].refused \subseteq Cooling(Channels)

\* Failures on their way were charged, each in one pass.
MarksAreCharged ==
  \A r \in Requests, m \in ModelSet, p \in 1..2 :
    <<r, m, "failure", p>> \in marks => m \in req[r].charged

MarksAreSingle ==
  \A r \in Requests, m \in ModelSet, p1, p2 \in 1..2 :
    <<r, m, "failure", p1>> \in marks /\ <<r, m, "failure", p2>> \in marks => p1 = p2

ChargedBy(m) == {r \in Requests : m \in req[r].charged}
Pending(m) == {r \in Requests : \E p \in 1..2 : <<r, m, "failure", p>> \in marks}

\* What was counted and what may still be counted come from different requests.
CountIsCovered ==
  \A m \in ModelSet :
    memory[m].consecutive + Cardinality(Pending(m)) <= Cardinality(ChargedBy(m))

DeadWasCounted ==
  \A m \in ModelSet : memory[m].dead => memory[m].consecutive >= Threshold

CountInv == MarksAreCharged /\ MarksAreSingle /\ CountIsCovered /\ DeadWasCounted

IInv == TypeOK /\ Sound /\ RefusedCool /\ CountInv
-----------------------------------------------------------------------------
(* Requests                                                                *)

LEMMA ChainFacts ==
  /\ Len(Models) \in Nat /\ Len(Models) >= 1
  /\ \A i \in 1..Len(Models) : Models[i] \in ModelSet
BY FailoverAssumption DEF ModelSet

LEMMA NextCandidateKeeps ==
  ASSUME NEW q \in Request, q.candidate \in 1..Len(Models), ~q.free
  PROVE  /\ NextCandidate(q) \in Request
         /\ SoundRequest(NextCandidate(q))
         /\ NextCandidate(q).charged = q.charged
         /\ NextCandidate(q).refused \subseteq q.refused
<1> DEFINE failed == IF q.evidence /\ ~q.scoped THEN q.failed \union {Model(q)} ELSE q.failed
           step == IF q.candidate < LastCandidate(q) THEN "plan" ELSE "finish"
           n == [q EXCEPT !.step = step,
               !.candidate = @ + 1, !.todo = {}, !.channel = {}, !.enforced = FALSE,
               !.evidence = FALSE, !.scoped = FALSE, !.failed = failed, !.refused = {}]
<1>1. failed \in SUBSET ModelSet
  BY ChainFacts DEF Request, Model
<1>2. q.candidate + 1 \in 1..Len(Models) + 1
  BY ChainFacts
<1>3. q.candidate < LastCandidate(q) => q.candidate + 1 \in 1..Len(Models)
  BY ChainFacts DEF LastCandidate
<1>4. step \in {"plan", "finish"} /\ (step = "plan" => q.candidate < LastCandidate(q))
  OBVIOUS
<1> HIDE DEF failed, step
<1>5. /\ n \in Request /\ n.charged = q.charged
      /\ n.step = step /\ n.candidate = q.candidate + 1 /\ n.enforced = FALSE
      /\ n.free = q.free /\ n.refused = {}
  BY <1>1, <1>2, <1>4 DEF Request
<1>6. SoundRequest(n)
  BY <1>3, <1>4, <1>5 DEF SoundRequest, Running
<1> QED
  BY <1>5, <1>6 DEF NextCandidate, failed, step

LEMMA NextChannelKeeps ==
  ASSUME NEW q \in Request, q.candidate \in 1..Len(Models),
         q.enforced => q.policy.enabled, ~q.free
  PROVE  /\ NextChannel(q) \in Request
         /\ SoundRequest(NextChannel(q))
         /\ NextChannel(q).charged = q.charged
         /\ NextChannel(q).refused \subseteq q.refused
<1>1. CASE q.todo = {}
  BY <1>1, NextCandidateKeeps DEF NextChannel
<1>2. CASE q.todo # {}
  <2> DEFINE n == [q EXCEPT !.step = "gate", !.channel = {}]
  <2>1. n \in Request /\ n.charged = q.charged /\ n.step = "gate"
        /\ n.candidate = q.candidate /\ n.enforced = q.enforced /\ n.policy = q.policy
        /\ n.free = q.free /\ n.refused = q.refused
    BY DEF Request
  <2>2. SoundRequest(n)
    BY <2>1 DEF SoundRequest
  <2> QED
    BY <1>2, <2>1, <2>2 DEF NextChannel
<1> QED
  BY <1>1, <1>2

LEMMA RefusedKeeps ==
  ASSUME NEW q \in Request, q.candidate \in 1..Len(Models),
         q.enforced => q.policy.enabled, ~q.free, NEW code
  PROVE  /\ Refused(q, code) \in Request
         /\ SoundRequest(Refused(q, code))
         /\ Refused(q, code).charged = q.charged
         /\ Refused(q, code).refused \subseteq q.refused
<1> DEFINE n1 == [q EXCEPT !.limited = Limited(code), !.scoped = TRUE]
           n2 == [q EXCEPT !.limited = Limited(code), !.evidence = TRUE]
<1>1. Limited(code) \in BOOLEAN
  BY DEF Limited
<1>2. /\ n1 \in Request /\ n1.candidate = q.candidate /\ n1.charged = q.charged
      /\ n1.enforced = q.enforced /\ n1.policy = q.policy
      /\ n1.free = q.free /\ n1.refused = q.refused
  BY <1>1 DEF Request
<1>3. /\ n2 \in Request /\ n2.candidate = q.candidate /\ n2.charged = q.charged
      /\ n2.enforced = q.enforced /\ n2.policy = q.policy
      /\ n2.free = q.free /\ n2.refused = q.refused
  BY <1>1 DEF Request
<1> HIDE DEF n1, n2
<1>4. /\ NextChannel(n1) \in Request /\ SoundRequest(NextChannel(n1))
      /\ NextChannel(n1).charged = q.charged
      /\ NextChannel(n1).refused \subseteq q.refused
  BY <1>2, NextChannelKeeps
<1>5. /\ NextChannel(n2) \in Request /\ SoundRequest(NextChannel(n2))
      /\ NextChannel(n2).charged = q.charged
      /\ NextChannel(n2).refused \subseteq q.refused
  BY <1>3, NextChannelKeeps
<1>6. Refused(q, code) = NextChannel(IF RequestScoped(code) THEN n1 ELSE n2)
  BY DEF Refused, n1, n2
<1>7. CASE RequestScoped(code)
  BY <1>4, <1>6, <1>7
<1>8. CASE ~RequestScoped(code)
  BY <1>5, <1>6, <1>8
<1> QED
  BY <1>7, <1>8

LEMMA StartOfPassType ==
  ASSUME NEW p \in Policies, NEW pass \in 1..2, NEW charged \in SUBSET ModelSet
  PROVE  /\ StartOfPass(p, pass, charged) \in Request
         /\ SoundRequest(StartOfPass(p, pass, charged))
         /\ StartOfPass(p, pass, charged).charged = charged
         /\ StartOfPass(p, pass, charged).refused = {}
<1>1. 1 \in 1..Len(Models) + 1 /\ 1 \in 1..Len(Models) /\ 0 \in 0..MaxWait
  BY ChainFacts, FailoverAssumption
<1>2. StartOfPass(p, pass, charged) \in Request
  BY <1>1 DEF StartOfPass, Request
<1> QED
  BY <1>1, <1>2 DEF StartOfPass, SoundRequest

LEMMA EndedKeeps ==
  ASSUME NEW q \in Request, NEW step \in {"wait", "served", "released"}
  PROVE  /\ Ended(q, step) \in Request
         /\ SoundRequest(Ended(q, step))
         /\ Ended(q, step).charged = q.charged \union q.failed
         /\ Ended(q, step).refused = {}
<1> DEFINE s == StartOfPass(q.policy, q.pass, q.charged \union q.failed)
<1>1. /\ q.policy \in Policies /\ q.pass \in 1..2
      /\ q.charged \union q.failed \in SUBSET ModelSet
  BY DEF Request
<1>2. /\ s \in Request /\ s.charged = q.charged \union q.failed /\ s.enforced = FALSE
      /\ s.free = FALSE /\ s.refused = {}
  BY <1>1, StartOfPassType DEF StartOfPass
<1> HIDE DEF s
<1>3. Ended(q, step) = [s EXCEPT !.step = step]
  BY DEF Ended, s
<1>4. /\ Ended(q, step) \in Request
      /\ Ended(q, step).charged = q.charged \union q.failed
      /\ Ended(q, step).step = step /\ Ended(q, step).enforced = FALSE
      /\ Ended(q, step).free = FALSE /\ Ended(q, step).refused = {}
  BY <1>2, <1>3 DEF Request
<1> QED
  BY <1>4 DEF SoundRequest, Running
-----------------------------------------------------------------------------
(* Steps of a request that leave the memory alone                          *)

\* r goes on without charging anything.
GoesOn(r) ==
  /\ \E x \in Request :
       /\ SoundRequest(x) /\ x.charged = req[r].charged /\ req' = [req EXCEPT ![r] = x]
       /\ x.refused \subseteq req[r].refused \union Cooling(Channels)
  /\ cooling' \in [Channels -> 0..MaxCooldown]
  /\ \A ch \in Channels : cooling[ch] > 0 => cooling'[ch] > 0
  /\ UNCHANGED <<memory, policy, marks>>

\* Marks of failures of r in the current pass, and of its successes.
Failures(r, ms) == {r} \X ms \X {"failure"} \X {req[r].pass}
Successes(r) == {r} \X ModelSet \X {"success"} \X (1..2)

\* r ends a pass and charges what failed in it.
Charges(r) ==
  /\ \E x \in Request :
       /\ SoundRequest(x) /\ x.charged = req[r].charged \union req[r].failed
       /\ x.refused = {} /\ req' = [req EXCEPT ![r] = x]
  /\ \E ms \in SUBSET NewlyFailed(req[r]), ss \in SUBSET Successes(r) :
       marks' = marks \union Failures(r, ms) \union ss
  /\ UNCHANGED <<cooling, memory, policy>>

LEMMA RequestFacts ==
  ASSUME TypeOK, Sound, NEW r \in Requests
  PROVE  /\ req[r] \in Request /\ SoundRequest(req[r])
         /\ req[r].step \in Running => req[r].candidate \in 1..Len(Models)
         /\ req[r].enforced => req[r].policy.enabled
         /\ req[r].step \notin {"snapshot", "fallback"} => ~req[r].free
         /\ req[r].policy \in Policies /\ req[r].pass \in 1..2
         /\ req[r].charged \in SUBSET ModelSet /\ req[r].failed \in SUBSET ModelSet
BY DEF TypeOK, Sound, SoundRequest, Request

LEMMA ChargeIsOne ==
  ASSUME NEW r, NEW ss \in SUBSET Successes(r)
  PROVE  \E ms \in SUBSET NewlyFailed(req[r]), s2 \in SUBSET Successes(r) :
           ChargeOf(r, req[r]) \union ss = marks \union Failures(r, ms) \union s2
<1>1. CASE req[r].policy.enabled
  <2>1. ChargeOf(r, req[r]) = marks \union Failures(r, NewlyFailed(req[r]))
    BY <1>1 DEF ChargeOf, Charge, Failures
  <2> QED
    BY <2>1
<1>2. CASE ~req[r].policy.enabled
  <2>1. Failures(r, {}) = {}
    BY DEF Failures
  <2> QED
    BY <1>2, <2>1 DEF ChargeOf
<1> QED
  BY <1>1, <1>2

LEMMA EndsKeep ==
  ASSUME TypeOK, Sound, NEW r \in Requests, NEW step \in {"wait", "served", "released"},
         req' = [req EXCEPT ![r] = Ended(req[r], step)],
         NEW ss \in SUBSET Successes(r), marks' = ChargeOf(r, req[r]) \union ss,
         UNCHANGED <<cooling, memory, policy>>
  PROVE  Charges(r)
<1>1. req[r] \in Request
  BY RequestFacts
<1>2. /\ Ended(req[r], step) \in Request /\ SoundRequest(Ended(req[r], step))
      /\ Ended(req[r], step).charged = req[r].charged \union req[r].failed
      /\ Ended(req[r], step).refused = {}
  BY <1>1, EndedKeeps
<1>3. \E x \in Request :
        /\ SoundRequest(x) /\ x.charged = req[r].charged \union req[r].failed
        /\ x.refused = {} /\ req' = [req EXCEPT ![r] = x]
  BY <1>2
<1>4. \E ms \in SUBSET NewlyFailed(req[r]), s2 \in SUBSET Successes(r) :
        marks' = marks \union Failures(r, ms) \union s2
  <2>1. PICK ms \in SUBSET NewlyFailed(req[r]), s2 \in SUBSET Successes(r) :
          ChargeOf(r, req[r]) \union ss = marks \union Failures(r, ms) \union s2
    BY ChargeIsOne
  <2>2. marks' = marks \union Failures(r, ms) \union s2
    BY <2>1
  <2> QED
    BY <2>1, <2>2
<1> QED
  BY <1>3, <1>4 DEF Charges

LEMMA GoesOnTo ==
  ASSUME TypeOK, NEW r \in Requests, NEW x \in Request, SoundRequest(x),
         x.charged = req[r].charged, req' = [req EXCEPT ![r] = x],
         x.refused \subseteq req[r].refused \union Cooling(Channels),
         UNCHANGED <<cooling, memory, policy, marks>>
  PROVE  GoesOn(r)
BY DEF GoesOn, TypeOK

\* Every step of a request is one or the other.
LEMMA RunGoesOnOrCharges ==
  ASSUME TypeOK, Sound, RefusedCool, NEW r \in Requests, Run(r)
  PROVE  GoesOn(r) \/ Charges(r)
<1> DEFINE q == req[r]
<1>0. /\ q \in Request /\ SoundRequest(q)
      /\ q.step \in Running => q.candidate \in 1..Len(Models)
      /\ q.enforced => q.policy.enabled
      /\ q.step \notin {"snapshot", "fallback"} => ~q.free
      /\ q.policy \in Policies /\ q.pass \in 1..2
      /\ q.charged \in SUBSET ModelSet /\ q.failed \in SUBSET ModelSet
  BY RequestFacts
<1>1. CASE Enter(r)
  <2>1. policy \in Policies /\ q.charged = {}
    BY <1>0, <1>1 DEF Enter, TypeOK, SoundRequest
  <2>2. /\ StartOfPass(policy, 1, {}) \in Request
        /\ SoundRequest(StartOfPass(policy, 1, {}))
        /\ StartOfPass(policy, 1, {}).charged = q.charged
        /\ StartOfPass(policy, 1, {}).refused = {}
    BY <2>1, StartOfPassType
  <2> QED
    BY <1>1, <2>2, GoesOnTo DEF Enter
<1>2. CASE SkipDead(r)
  <2>1. q.candidate \in 1..Len(Models) /\ ~q.free
    BY <1>0, <1>2 DEF SkipDead, Running
  <2>2. /\ NextCandidate(q) \in Request /\ SoundRequest(NextCandidate(q))
        /\ NextCandidate(q).charged = q.charged
        /\ NextCandidate(q).refused \subseteq q.refused
    BY <1>0, <2>1, NextCandidateKeeps
  <2> QED
    BY <1>2, <2>2, GoesOnTo DEF SkipDead
<1>3. CASE SkipModel(r)
  <2> DEFINE n == [q EXCEPT !.limited = TRUE]
  <2>1. q.candidate \in 1..Len(Models) /\ ~q.free
    BY <1>0, <1>3 DEF SkipModel, Running
  <2>2. /\ n \in Request /\ n.candidate = q.candidate /\ n.charged = q.charged
        /\ n.free = q.free /\ n.refused = q.refused
    BY <1>0 DEF Request
  <2>3. req' = [req EXCEPT ![r] = NextCandidate(n)]
        \/ req' = [req EXCEPT ![r] = NextCandidate(q)]
    BY <1>3 DEF SkipModel
  <2> HIDE DEF n
  <2>4. /\ NextCandidate(n) \in Request /\ SoundRequest(NextCandidate(n))
        /\ NextCandidate(n).charged = q.charged
        /\ NextCandidate(n).refused \subseteq q.refused
    BY <2>1, <2>2, NextCandidateKeeps
  <2>5. /\ NextCandidate(q) \in Request /\ SoundRequest(NextCandidate(q))
        /\ NextCandidate(q).charged = q.charged
        /\ NextCandidate(q).refused \subseteq q.refused
    BY <1>0, <2>1, NextCandidateKeeps
  <2>6. UNCHANGED <<cooling, memory, policy, marks>>
    BY <1>3 DEF SkipModel
  <2> QED
    BY <2>3, <2>4, <2>5, <2>6, GoesOnTo
<1>4. CASE Plan(r)
  <2> DEFINE chs == Resolved(q)
             look == q.policy.enabled /\ q.policy.bypass
             step == IF look THEN "snapshot" ELSE "gate"
             some == IF look THEN chs ELSE {}
             on == q.policy.enabled /\ ~look
             n == [q EXCEPT !.step = step, !.todo = chs, !.offered = @ \union chs,
                            !.unread = some, !.enforced = on]
  <2>1. q.candidate \in 1..Len(Models) /\ Model(q) \in ModelSet /\ ~q.free
    BY <1>0, <1>4, ChainFacts DEF Plan, Running, Model
  <2>2. chs \in SUBSET Channels
    BY <1>4, <2>1, FailoverAssumption DEF Plan, Resolved
  <2>3. q.policy.enabled \in BOOLEAN /\ q.policy.bypass \in BOOLEAN
    BY <1>0, FailoverAssumption
  <2>4. /\ step \in {"snapshot", "gate"} /\ some \in SUBSET Channels /\ on \in BOOLEAN
        /\ step = "snapshot" \/ on => q.policy.enabled
    BY <2>2, <2>3
  <2>5. req' = [req EXCEPT ![r] = n] /\ UNCHANGED <<cooling, memory, policy, marks>>
    BY <1>4 DEF Plan
  <2> HIDE DEF chs, look, step, some, on
  <2>6. /\ n \in Request /\ n.charged = q.charged /\ n.step = step
        /\ n.candidate = q.candidate /\ n.policy = q.policy
        /\ n.enforced = on /\ n.free = q.free /\ n.refused = q.refused
    BY <1>0, <2>2, <2>4 DEF Request
  <2> HIDE DEF n
  <2>7. SoundRequest(n)
    BY <2>1, <2>4, <2>6 DEF SoundRequest
  <2> QED
    BY <2>5, <2>6, <2>7, GoesOnTo
<1>5. CASE Gate(r)
  <2>1. q.candidate \in 1..Len(Models) /\ ~q.free
    <3>1. q.step = "gate"
      BY <1>5 DEF Gate
    <3> QED
      BY <1>0, <3>1 DEF Running
  <2>2. PICK ch, next :
          /\ ch \in q.todo
          /\ next = [q EXCEPT !.todo = @ \ {ch}, !.channel = {ch}]
          /\ \/ \E code \in {"rate_limit_exceeded", "unhealthy"} :
                  req' = [req EXCEPT ![r] = Refused(next, code)]
             \/ req' = [req EXCEPT ![r] =
                  IF ~q.enforced \/ cooling[ch] = 0 THEN [next EXCEPT !.step = "reserve"]
                  ELSE IF q.policy.bypass
                  THEN [next EXCEPT !.step = "fallback", !.unread = Others(next)]
                  ELSE Refused(next, "rate_limited")]
    BY <1>5 DEF Gate
  <2> DEFINE n1 == [next EXCEPT !.step = "reserve"]
             n2 == [next EXCEPT !.step = "fallback", !.unread = Others(next)]
  <2>3. /\ next \in Request /\ next.candidate = q.candidate /\ next.charged = q.charged
        /\ next.enforced = q.enforced /\ next.policy = q.policy
        /\ next.free = q.free /\ next.refused = q.refused
    <3>1. PICK todo : todo = q.todo \ {ch}
      OBVIOUS
    <3>2. todo \in SUBSET Channels /\ {ch} \in SUBSET Channels
      BY <1>0, <2>2, <3>1 DEF Request
    <3>3. next = [q EXCEPT !.todo = todo, !.channel = {ch}]
      BY <2>2, <3>1
    <3> QED
      BY <1>0, <3>2, <3>3 DEF Request
  <2>4. \/ \E code \in {"rate_limit_exceeded", "unhealthy", "rate_limited"} :
             req' = [req EXCEPT ![r] = Refused(next, code)]
        \/ req' = [req EXCEPT ![r] = n1]
        \/ req' = [req EXCEPT ![r] = n2] /\ q.enforced
    BY <2>2
  <2>5. /\ n1 \in Request /\ n1.candidate = q.candidate /\ n1.charged = q.charged
        /\ n1.enforced = q.enforced /\ n1.policy = q.policy /\ n1.step = "reserve"
        /\ n1.free = q.free /\ n1.refused = q.refused
    BY <2>3 DEF Request
  <2>6. ASSUME q.enforced
        PROVE  /\ n2 \in Request /\ n2.candidate = q.candidate /\ n2.charged = q.charged
               /\ n2.enforced = q.enforced /\ n2.policy = q.policy /\ n2.step = "fallback"
               /\ n2.free = q.free /\ n2.refused = q.refused /\ n2.unread = Others(n2)
    <3>1. PICK left : left = Others(next)
      OBVIOUS
    <3>2. q.policy.enabled /\ Model(next) \in ModelSet
      BY <1>0, <2>1, <2>3, <2>6, ChainFacts DEF Model
    <3>3. left \in SUBSET Channels
      BY <2>3, <3>1, <3>2, FailoverAssumption DEF Others, Resolved
    <3>4. n2 = [next EXCEPT !.step = "fallback", !.unread = left]
      BY <3>1
    <3>5. /\ n2 \in Request /\ n2.candidate = next.candidate /\ n2.charged = next.charged
          /\ n2.enforced = next.enforced /\ n2.policy = next.policy /\ n2.step = "fallback"
          /\ n2.free = next.free /\ n2.refused = next.refused /\ n2.unread = left
          /\ n2.channel = next.channel
      BY <2>3, <3>3, <3>4 DEF Request
    <3>6. Others(n2) = Others(next)
      BY <3>5 DEF Others, Resolved, Model
    <3> QED
      BY <2>3, <3>1, <3>5, <3>6
  <2> HIDE DEF n1, n2
  <2>7. UNCHANGED <<cooling, memory, policy, marks>>
    BY <1>5 DEF Gate
  <2>8. CASE \E code : req' = [req EXCEPT ![r] = Refused(next, code)]
    <3>1. PICK code : req' = [req EXCEPT ![r] = Refused(next, code)]
      BY <2>8
    <3>2. /\ Refused(next, code) \in Request /\ SoundRequest(Refused(next, code))
          /\ Refused(next, code).charged = q.charged
          /\ Refused(next, code).refused \subseteq q.refused
      BY <1>0, <2>1, <2>3, RefusedKeeps
    <3> QED
      BY <2>7, <3>1, <3>2, GoesOnTo
  <2>9. CASE req' = [req EXCEPT ![r] = n1]
    <3>1. SoundRequest(n1)
      BY <1>0, <2>1, <2>5 DEF SoundRequest
    <3> QED
      BY <2>5, <2>7, <2>9, <3>1, GoesOnTo
  <2>10. CASE req' = [req EXCEPT ![r] = n2] /\ q.enforced
    <3>1. SoundRequest(n2)
      BY <1>0, <2>1, <2>6, <2>10 DEF SoundRequest, WayOut
    <3> QED
      BY <2>6, <2>7, <2>10, <3>1, GoesOnTo
  <2> QED
    BY <2>4, <2>8, <2>9, <2>10
<1>6. CASE Fallback(r)
  <2>1. q.candidate \in 1..Len(Models) /\ q.channel \in SUBSET Channels
        /\ q.refused \in SUBSET Channels
    BY <1>0, <1>6 DEF Fallback, Running, Request
  <2> DEFINE done == [q EXCEPT !.free = FALSE]
             n == [done EXCEPT !.step = "reserve"]
             k == [done EXCEPT !.refused = @ \union Cooling(q.channel)]
  <2>2. /\ done \in Request /\ done.candidate = q.candidate /\ done.charged = q.charged
        /\ done.enforced = q.enforced /\ done.policy = q.policy /\ done.free = FALSE
        /\ done.refused = q.refused
    BY <1>0 DEF Request
  <2>3. req' = [req EXCEPT ![r] = n]
        \/ req' = [req EXCEPT ![r] = Refused(k, "rate_limited")]
    BY <1>6 DEF Fallback
  <2>4. Cooling(q.channel) \subseteq Channels /\ Cooling(q.channel) \subseteq Cooling(Channels)
    BY <2>1 DEF Cooling
  <2> HIDE DEF done
  <2>5. /\ n \in Request /\ n.candidate = q.candidate /\ n.charged = q.charged
        /\ n.enforced = q.enforced /\ n.policy = q.policy /\ n.step = "reserve"
        /\ n.free = FALSE /\ n.refused = q.refused
    BY <2>2 DEF Request
  <2>6. /\ k \in Request /\ k.candidate = q.candidate /\ k.charged = q.charged
        /\ k.enforced = q.enforced /\ k.policy = q.policy /\ k.free = FALSE
        /\ k.refused = q.refused \union Cooling(q.channel)
    BY <2>1, <2>2, <2>4 DEF Request
  <2> HIDE DEF n, k
  <2>7. SoundRequest(n)
    BY <1>0, <2>1, <2>5 DEF SoundRequest
  <2>8. /\ Refused(k, "rate_limited") \in Request
        /\ SoundRequest(Refused(k, "rate_limited"))
        /\ Refused(k, "rate_limited").charged = q.charged
        /\ Refused(k, "rate_limited").refused \subseteq q.refused \union Cooling(Channels)
    BY <1>0, <2>1, <2>4, <2>6, RefusedKeeps
  <2>9. UNCHANGED <<cooling, memory, policy, marks>>
    BY <1>6 DEF Fallback
  <2> QED
    BY <2>3, <2>5, <2>7, <2>8, <2>9, GoesOnTo
<1>16. CASE Look(r)
  <2>1. q.step \in {"snapshot", "fallback"} /\ q.candidate \in 1..Len(Models)
        /\ q.policy.enabled
    BY <1>0, <1>16 DEF Look, Running, SoundRequest
  <2>2. PICK ch, f :
          /\ ch \in q.unread
          /\ f = (q.free \/ cooling[ch] = 0)
          /\ req' = [req EXCEPT ![r] = [q EXCEPT !.unread = @ \ {ch}, !.free = f]]
    BY <1>16 DEF Look
  <2> DEFINE n == [q EXCEPT !.unread = @ \ {ch}, !.free = f]
  <2>3. /\ n \in Request /\ n.candidate = q.candidate /\ n.charged = q.charged
        /\ n.enforced = q.enforced /\ n.policy = q.policy /\ n.step = q.step
        /\ n.free = f /\ n.refused = q.refused /\ n.unread = q.unread \ {ch}
        /\ n.channel = q.channel
    BY <1>0, <2>2 DEF Request
  <2>4. req' = [req EXCEPT ![r] = n] /\ UNCHANGED <<cooling, memory, policy, marks>>
    BY <1>16, <2>2 DEF Look
  <2> HIDE DEF n
  <2>5. Others(n) = Others(q)
    BY <2>3 DEF Others, Resolved, Model
  <2>6. cooling[ch] = 0 => ch \notin q.refused
    BY DEF RefusedCool, Cooling
  <2>7. ASSUME q.step = "fallback" PROVE WayOut(n)
    <3>1. WayOut(q)
      BY <1>0, <2>7 DEF SoundRequest
    <3> QED
      BY <2>2, <2>3, <2>5, <2>6, <3>1 DEF WayOut
  <2>8. SoundRequest(n)
    BY <2>1, <2>3, <2>7 DEF SoundRequest
  <2> QED
    BY <2>3, <2>4, <2>8, GoesOnTo
<1>17. CASE Planned(r)
  <2>1. q.candidate \in 1..Len(Models) /\ q.policy.enabled /\ q.free \in BOOLEAN
    BY <1>0, <1>17 DEF Planned, Running, SoundRequest, Request
  <2>2. PICK f \in BOOLEAN : f = q.free
    BY <2>1
  <2> DEFINE n == [q EXCEPT !.step = "gate", !.enforced = f, !.free = FALSE]
  <2>3. /\ n \in Request /\ n.candidate = q.candidate /\ n.charged = q.charged
        /\ n.policy = q.policy /\ n.step = "gate" /\ n.free = FALSE
        /\ n.refused = q.refused
    BY <1>0, <2>2 DEF Request
  <2>4. req' = [req EXCEPT ![r] = n] /\ UNCHANGED <<cooling, memory, policy, marks>>
    BY <1>17, <2>2 DEF Planned
  <2> HIDE DEF n
  <2>5. SoundRequest(n)
    BY <2>1, <2>3 DEF SoundRequest
  <2> QED
    BY <2>3, <2>4, <2>5, GoesOnTo
<1>7. CASE OverBudget(r)
  <2>1. q.candidate \in 1..Len(Models) /\ ~q.free
    BY <1>0, <1>7 DEF OverBudget, Running
  <2>2. /\ Refused(q, "channel_budget_exhausted") \in Request
        /\ SoundRequest(Refused(q, "channel_budget_exhausted"))
        /\ Refused(q, "channel_budget_exhausted").charged = q.charged
        /\ Refused(q, "channel_budget_exhausted").refused \subseteq q.refused
    BY <1>0, <2>1, RefusedKeeps
  <2>3. /\ req' = [req EXCEPT ![r] = Refused(q, "channel_budget_exhausted")]
        /\ UNCHANGED <<cooling, memory, policy, marks>>
    BY <1>7 DEF OverBudget, TypeOK
  <2> QED
    BY <2>2, <2>3, GoesOnTo
<1>8. CASE Serve(r)
  <2> DEFINE ss == {<<r, Model(q), "success", q.pass>>}
  <2>1. Model(q) \in ModelSet
    BY <1>0, <1>8, ChainFacts DEF Serve, Running, Model
  <2>2. ss \in SUBSET Successes(r)
    BY <1>0, <2>1 DEF Successes
  <2> QED
    BY <1>8, <2>2, EndsKeep DEF Serve
<1>9. CASE PassThrough(r)
  <2>1. marks' = ChargeOf(r, q) \union {} /\ {} \in SUBSET Successes(r)
    BY <1>9 DEF PassThrough
  <2>2. /\ req' = [req EXCEPT ![r] = Ended(q, "released")]
        /\ UNCHANGED <<cooling, memory, policy>>
    BY <1>9 DEF PassThrough
  <2> QED
    BY <2>1, <2>2, EndsKeep
<1>10. CASE SwitchChannel(r)
  <2>1. q.candidate \in 1..Len(Models) /\ ~q.free
    BY <1>0, <1>10 DEF SwitchChannel, Running
  <2>2. PICK code \in SwitchCodes, ch \in q.channel :
          /\ Penalised(ch, code)
          /\ req' = [req EXCEPT ![r] = NextChannel(
               [q EXCEPT !.limited = Limited(code), !.evidence = HealthEvidence(code)])]
    BY <1>10 DEF SwitchChannel
  <2> DEFINE n == [q EXCEPT !.limited = Limited(code), !.evidence = HealthEvidence(code)]
  <2>3. Limited(code) \in BOOLEAN /\ HealthEvidence(code) \in BOOLEAN
    BY DEF Limited, HealthEvidence
  <2>4. /\ n \in Request /\ n.candidate = q.candidate /\ n.charged = q.charged
        /\ n.enforced = q.enforced /\ n.policy = q.policy
        /\ n.free = q.free /\ n.refused = q.refused
    BY <1>0, <2>3 DEF Request
  <2>5. req' = [req EXCEPT ![r] = NextChannel(n)]
    BY <2>2
  <2> HIDE DEF n
  <2>6. /\ NextChannel(n) \in Request /\ SoundRequest(NextChannel(n))
        /\ NextChannel(n).charged = q.charged
        /\ NextChannel(n).refused \subseteq q.refused
    BY <1>0, <2>1, <2>4, NextChannelKeeps
  <2>7. /\ cooling' \in [Channels -> 0..MaxCooldown]
        /\ \A c \in Channels : cooling[c] > 0 => cooling'[c] > 0
    BY <2>2 DEF Penalised, TypeOK
  <2> QED
    BY <1>10, <2>5, <2>6, <2>7 DEF GoesOn, SwitchChannel
<1>11. CASE GoToNextCandidate(r)
  <2>1. q.candidate \in 1..Len(Models) /\ ~q.free
    BY <1>0, <1>11 DEF GoToNextCandidate, Running
  <2>2. PICK code \in NextCodes :
          req' = [req EXCEPT ![r] = NextCandidate(
            [q EXCEPT !.limited = Limited(code), !.evidence = HealthEvidence(code)])]
    BY <1>11 DEF GoToNextCandidate
  <2> DEFINE n == [q EXCEPT !.limited = Limited(code), !.evidence = HealthEvidence(code)]
  <2>3. Limited(code) \in BOOLEAN /\ HealthEvidence(code) \in BOOLEAN
    BY DEF Limited, HealthEvidence
  <2>4. /\ n \in Request /\ n.candidate = q.candidate /\ n.charged = q.charged
        /\ n.free = q.free /\ n.refused = q.refused
    BY <1>0, <2>3 DEF Request
  <2>5. req' = [req EXCEPT ![r] = NextCandidate(n)]
    BY <2>2
  <2> HIDE DEF n
  <2>6. /\ NextCandidate(n) \in Request /\ SoundRequest(NextCandidate(n))
        /\ NextCandidate(n).charged = q.charged
        /\ NextCandidate(n).refused \subseteq q.refused
    BY <2>1, <2>4, NextCandidateKeeps
  <2>7. UNCHANGED <<cooling, memory, policy, marks>>
    BY <1>11 DEF GoToNextCandidate
  <2> QED
    BY <2>5, <2>6, <2>7, GoesOnTo
<1>12. CASE Wait(r)
  <2> DEFINE e == Ended(q, "wait")
             x == [e EXCEPT !.wait = Earliest(q)]
  <2>1. /\ e \in Request /\ SoundRequest(e) /\ e.charged = q.charged \union q.failed
        /\ e.step = "wait" /\ e.enforced = FALSE /\ e.free = FALSE /\ e.refused = {}
    <3>1. e.step = "wait" /\ e.enforced = FALSE /\ e.free = FALSE /\ e.refused = {}
      BY DEF Ended, StartOfPass
    <3> QED
      BY <1>0, <3>1, EndedKeeps
  <2>2. Earliest(q) \in 0..MaxWait
    BY <1>12, FailoverAssumption DEF Wait, Waitable
  <2>3. req' = [req EXCEPT ![r] = x]
    BY <1>12 DEF Wait
  <2> HIDE DEF e
  <2>4. /\ x \in Request /\ x.charged = q.charged \union q.failed
        /\ x.step = "wait" /\ x.enforced = FALSE /\ x.free = FALSE /\ x.refused = {}
    BY <2>1, <2>2 DEF Request
  <2>5. SoundRequest(x)
    BY <2>4 DEF SoundRequest, Running
  <2>6. \E ms \in SUBSET NewlyFailed(req[r]), s2 \in SUBSET Successes(r) :
           marks' = marks \union Failures(r, ms) \union s2
    <3>1. marks' = ChargeOf(r, req[r]) /\ {} \in SUBSET Successes(r)
      BY <1>12 DEF Wait
    <3>2. PICK ms \in SUBSET NewlyFailed(req[r]), s2 \in SUBSET Successes(r) :
            ChargeOf(r, req[r]) \union {} = marks \union Failures(r, ms) \union s2
      BY <3>1, ChargeIsOne
    <3>3. marks' = marks \union Failures(r, ms) \union s2
      BY <3>1, <3>2
    <3> QED
      BY <3>2, <3>3
  <2> HIDE DEF x
  <2> QED
    BY <1>12, <2>3, <2>4, <2>5, <2>6 DEF Charges, Wait
<1>13. CASE Fail(r)
  <2>1. marks' = ChargeOf(r, q) \union {} /\ {} \in SUBSET Successes(r)
    BY <1>13 DEF Fail
  <2>2. /\ req' = [req EXCEPT ![r] = Ended(q, "released")]
        /\ UNCHANGED <<cooling, memory, policy>>
    BY <1>13 DEF Fail
  <2> QED
    BY <2>1, <2>2, EndsKeep
<1>14. CASE RunAgain(r)
  <2>1. /\ StartOfPass(q.policy, 2, q.charged) \in Request
        /\ SoundRequest(StartOfPass(q.policy, 2, q.charged))
        /\ StartOfPass(q.policy, 2, q.charged).charged = q.charged
        /\ StartOfPass(q.policy, 2, q.charged).refused = {}
    BY <1>0, StartOfPassType
  <2> QED
    BY <1>14, <2>1, GoesOnTo DEF RunAgain
<1>15. CASE StopWaiting(r)
  <2>1. req' = [req EXCEPT ![r] = Ended(q, "released")]
    BY <1>15 DEF StopWaiting, TypeOK
  <2>2. Failures(r, {}) = {} /\ marks' = marks \union Failures(r, {}) \union {}
    BY <1>15 DEF StopWaiting, Failures
  <2>3. /\ Ended(q, "released") \in Request /\ SoundRequest(Ended(q, "released"))
        /\ Ended(q, "released").charged = q.charged \union q.failed
        /\ Ended(q, "released").refused = {}
    BY <1>0, EndedKeeps
  <2> QED
    BY <1>15, <2>1, <2>2, <2>3 DEF Charges, StopWaiting
<1> QED
  BY <1>1, <1>2, <1>3, <1>4, <1>5, <1>6, <1>7, <1>8, <1>9, <1>10, <1>11, <1>12,
     <1>13, <1>14, <1>15, <1>16, <1>17 DEF Run
-----------------------------------------------------------------------------
(* Types and requests are kept                                             *)

LEMMA InitHolds == Init => IInv
<1> SUFFICES ASSUME Init PROVE IInv
  OBVIOUS
<1>1. FailoverAssumption
  BY FailoverAssumption
<1>2. \A r \in Requests : req[r] = [StartOfPass(policy, 1, {}) EXCEPT !.step = "new"]
  BY DEF Init
<1>3. StartOfPass(policy, 1, {}) \in Request
  BY StartOfPassType DEF Init
<1>4. \A r \in Requests : /\ req[r] \in Request /\ req[r].charged = {}
                          /\ req[r].step = "new" /\ req[r].enforced = FALSE
                          /\ req[r].free = FALSE /\ req[r].refused = {}
  <2> TAKE r \in Requests
  <2> DEFINE s == StartOfPass(policy, 1, {})
  <2>1. s.charged = {} /\ s.enforced = FALSE /\ s.free = FALSE /\ s.refused = {}
    BY DEF StartOfPass
  <2> HIDE DEF s
  <2>2. req[r] = [s EXCEPT !.step = "new"] /\ s \in Request
    BY <1>2, <1>3 DEF s
  <2> QED
    BY <2>1, <2>2 DEF Request
<1>5. Sound /\ RefusedCool
  BY <1>4 DEF Sound, SoundRequest, Running, RefusedCool
<1>6. NoRecord \in Record /\ NoRecord.dead = FALSE /\ NoRecord.consecutive = 0
  BY <1>1 DEF NoRecord, Record, FailoverAssumption
<1>7. TypeOK
  <2>1. req \in [Requests -> Request]
    BY <1>4 DEF Init
  <2>2. /\ cooling \in [Channels -> 0..MaxCooldown] /\ policy \in Policies
        /\ marks \subseteq Requests \X ModelSet \X {"failure", "success"} \X (1..2)
    BY <1>1 DEF Init, FailoverAssumption
  <2>3. memory \in [ModelSet -> Record]
    BY <1>6 DEF Init
  <2> QED
    BY <2>1, <2>2, <2>3 DEF TypeOK
<1>8. \A m \in ModelSet : memory[m].dead = FALSE /\ memory[m].consecutive = 0
  BY <1>6 DEF Init
<1>9. \A m \in ModelSet : Pending(m) = {} /\ ChargedBy(m) = {}
  BY <1>4 DEF Pending, ChargedBy, Init
<1>10. CountIsCovered
  <2>1. Cardinality({}) = 0
    BY FS_EmptySet
  <2>2. \A m \in ModelSet : Cardinality(Pending(m)) = 0 /\ Cardinality(ChargedBy(m)) = 0
    BY <1>9, <2>1, Zenon
  <2> QED
    BY <1>8, <2>2 DEF CountIsCovered
<1> QED
  BY <1>5, <1>7, <1>8, <1>10 DEF IInv, CountInv, MarksAreCharged, MarksAreSingle,
     DeadWasCounted, Init

LEMMA RecordingsType ==
  ASSUME NEW rec \in Record
  PROVE  /\ Failed(rec) \in Record /\ Succeeded(rec) \in Record /\ Aged(rec) \in Record
         /\ Failed(rec).consecutive <= rec.consecutive + 1
         /\ Succeeded(rec).consecutive <= rec.consecutive
         /\ Aged(rec).consecutive <= rec.consecutive
         /\ (rec.dead => rec.consecutive >= Threshold) =>
              /\ Failed(rec).dead => Failed(rec).consecutive >= Threshold
              /\ Succeeded(rec).dead => Succeeded(rec).consecutive >= Threshold
              /\ Aged(rec).dead => Aged(rec).consecutive >= Threshold
<1>1. /\ rec.dead \in BOOLEAN /\ rec.consecutive \in Nat /\ rec.ago \in 0..Window
      /\ rec.ttl \in 0..DeadTtl + Window
      /\ rec = [dead |-> rec.dead, consecutive |-> rec.consecutive,
                ago |-> rec.ago, ttl |-> rec.ttl]
  BY DEF Record
<1>2. DeadTtl \in Nat /\ DeadTtl > 0 /\ Window \in Nat /\ Window > 0
      /\ Threshold \in Nat /\ Threshold > 1
  BY FailoverAssumption
<1>3. NextCount(rec) \in Nat /\ NextCount(rec) <= rec.consecutive + 1
  BY <1>1 DEF NextCount
<1>4. /\ Failed(rec) \in Record
      /\ Failed(rec).consecutive <= rec.consecutive + 1
      /\ (rec.dead => rec.consecutive >= Threshold)
           => (Failed(rec).dead => Failed(rec).consecutive >= Threshold)
  <2>1. CASE rec.dead
    <3> DEFINE n == [rec EXCEPT !.ago = 0, !.ttl = DeadTtl]
    <3>1. Failed(rec) = n
      BY <2>1 DEF Failed
    <3>2. 0 \in 0..Window /\ DeadTtl \in 0..DeadTtl + Window
      BY <1>2
    <3>3. n \in Record /\ n.consecutive = rec.consecutive /\ n.dead = rec.dead
      BY <1>1, <3>2 DEF Record
    <3> QED
      BY <1>1, <3>1, <3>3
  <2>2. CASE ~rec.dead
    <3> DEFINE t == IF NextCount(rec) >= Threshold THEN DeadTtl
                    ELSE IF rec.ago < Window THEN Window - rec.ago ELSE 1
               d == NextCount(rec) >= Threshold
    <3>1. t \in 0..DeadTtl + Window
      BY <1>1, <1>2
    <3>2. Failed(rec) = [dead |-> d, consecutive |-> NextCount(rec), ago |-> 0, ttl |-> t]
      BY <2>2 DEF Failed
    <3>3. d \in BOOLEAN /\ 0 \in 0..Window
      BY <1>2
    <3>4. d => NextCount(rec) >= Threshold
      OBVIOUS
    <3> HIDE DEF t, d
    <3>5. /\ Failed(rec) \in Record /\ Failed(rec).consecutive = NextCount(rec)
          /\ Failed(rec).dead = d
      BY <1>3, <3>1, <3>2, <3>3 DEF Record
    <3> QED
      BY <1>3, <3>4, <3>5
  <2> QED
    BY <2>1, <2>2
<1>5. /\ Succeeded(rec) \in Record
      /\ Succeeded(rec).consecutive <= rec.consecutive
      /\ (rec.dead => rec.consecutive >= Threshold)
           => (Succeeded(rec).dead => Succeeded(rec).consecutive >= Threshold)
  <2>1. CASE rec.ttl = 0
    BY <1>1, <2>1 DEF Succeeded
  <2>2. CASE rec.ttl # 0
    BY <1>1, <1>2, <2>2 DEF Succeeded, Record
  <2> QED
    BY <2>1, <2>2
<1>6. /\ Aged(rec) \in Record
      /\ Aged(rec).consecutive <= rec.consecutive
      /\ (rec.dead => rec.consecutive >= Threshold)
           => (Aged(rec).dead => Aged(rec).consecutive >= Threshold)
  <2>1. CASE rec.ttl <= 1
    BY <1>1, <1>2, <2>1 DEF Aged, NoRecord, Record
  <2>2. CASE ~(rec.ttl <= 1)
    <3> DEFINE a == IF rec.consecutive > 0 /\ rec.ago < Window THEN rec.ago + 1 ELSE rec.ago
               n == [rec EXCEPT !.ttl = rec.ttl - 1, !.ago = a]
    <3>1. Aged(rec) = n
      BY <2>2 DEF Aged
    <3>2. rec.ttl - 1 \in 0..DeadTtl + Window /\ a \in 0..Window
      BY <1>1, <1>2, <2>2
    <3> HIDE DEF a
    <3>3. n \in Record /\ n.consecutive = rec.consecutive /\ n.dead = rec.dead
      BY <1>1, <3>2 DEF Record
    <3> QED
      BY <1>1, <3>1, <3>3
  <2> QED
    BY <2>1, <2>2
<1> QED
  BY <1>4, <1>5, <1>6

\* The requests that charged a model, and those that still will, are finite.
LEMMA CountsAreFinite ==
  ASSUME NEW S \in SUBSET Requests
  PROVE  IsFiniteSet(S) /\ Cardinality(S) \in Nat
BY FailoverAssumption, FS_Subset, FS_CardinalityType

\* Fewer or as many elements.
LEMMA SubsetCount ==
  ASSUME NEW T \in SUBSET Requests, NEW S \in SUBSET T
  PROVE  Cardinality(S) <= Cardinality(T)
BY CountsAreFinite, FS_Subset
-----------------------------------------------------------------------------
\* Whether a request is sound is seen from its record alone.
LEMMA SoundIsOfRequests == (\A r \in Requests : SoundRequest(req'[r])) => Sound'
BY DEF Sound, SoundRequest, WayOut, Others, Resolved, Model

LEMMA GoesOnKeeps ==
  ASSUME IInv, NEW r \in Requests, GoesOn(r)
  PROVE  IInv'
<1>1. PICK x \in Request :
        /\ SoundRequest(x) /\ x.charged = req[r].charged /\ req' = [req EXCEPT ![r] = x]
        /\ x.refused \subseteq req[r].refused \union Cooling(Channels)
  BY DEF GoesOn
<1>2. /\ cooling' \in [Channels -> 0..MaxCooldown]
      /\ \A ch \in Channels : cooling[ch] > 0 => cooling'[ch] > 0
      /\ UNCHANGED <<memory, policy, marks>>
  BY DEF GoesOn
<1>3. req \in [Requests -> Request]
  BY DEF IInv, TypeOK
<1>4. TypeOK'
  BY <1>1, <1>2, <1>3 DEF IInv, TypeOK
<1>5. Sound'
  <2> SUFFICES ASSUME NEW r2 \in Requests PROVE SoundRequest(req'[r2])
    BY SoundIsOfRequests
  <2>1. SoundRequest(req[r2])
    BY DEF IInv, Sound
  <2> QED
    BY <1>1, <1>3, <2>1
<1>10. RefusedCool'
  <2> SUFFICES ASSUME NEW r2 \in Requests, NEW ch \in req'[r2].refused
               PROVE  ch \in Channels /\ cooling'[ch] > 0
    BY DEF RefusedCool, Cooling
  <2>1. req[r2].refused \subseteq Cooling(Channels) /\ req[r].refused \subseteq Cooling(Channels)
    BY DEF IInv, RefusedCool
  <2>2. ch \in Cooling(Channels)
    BY <1>1, <1>3, <2>1
  <2> QED
    BY <1>2, <2>2 DEF Cooling
<1>6. \A r2 \in Requests : req'[r2].charged = req[r2].charged
  BY <1>1, <1>3
<1>7. \A m \in ModelSet : Pending(m)' = Pending(m) /\ ChargedBy(m)' = ChargedBy(m)
  BY <1>2, <1>6 DEF Pending, ChargedBy
<1>8. CountIsCovered'
  BY <1>2, <1>7 DEF IInv, CountInv, CountIsCovered
<1>9. MarksAreCharged' /\ MarksAreSingle' /\ DeadWasCounted'
  BY <1>2, <1>6 DEF IInv, CountInv, MarksAreCharged, MarksAreSingle, DeadWasCounted
<1> QED
  BY <1>4, <1>5, <1>8, <1>9, <1>10 DEF IInv, CountInv

LEMMA ChargesKeeps ==
  ASSUME IInv, NEW r \in Requests, Charges(r)
  PROVE  IInv'
<1>1. PICK x \in Request :
        /\ SoundRequest(x) /\ x.charged = req[r].charged \union req[r].failed
        /\ x.refused = {} /\ req' = [req EXCEPT ![r] = x]
  BY DEF Charges
<1>2. PICK ms \in SUBSET NewlyFailed(req[r]), ss \in SUBSET Successes(r) :
        marks' = marks \union Failures(r, ms) \union ss
  BY DEF Charges
<1>3. UNCHANGED <<cooling, memory, policy>>
  BY DEF Charges
<1>4. req \in [Requests -> Request]
  BY DEF IInv, TypeOK
<1>5. /\ ms \in SUBSET ModelSet /\ req[r].pass \in 1..2
      /\ \A m \in ms : m \in req[r].failed /\ m \notin req[r].charged
  BY <1>4 DEF NewlyFailed, Request
<1>6. TypeOK'
  <2>1. Failures(r, ms) \subseteq Requests \X ModelSet \X {"failure", "success"} \X (1..2)
    BY <1>5 DEF Failures
  <2>2. ss \subseteq Requests \X ModelSet \X {"failure", "success"} \X (1..2)
    BY DEF Successes
  <2> QED
    BY <1>1, <1>2, <1>3, <1>4, <2>1, <2>2 DEF IInv, TypeOK
<1>7. Sound' /\ RefusedCool'
  <2>1. \A r2 \in Requests : SoundRequest(req'[r2])
    BY <1>1, <1>4 DEF IInv, Sound
  <2>2. \A r2 \in Requests : req'[r2].refused \subseteq Cooling(Channels)
    BY <1>1, <1>4 DEF IInv, RefusedCool
  <2> QED
    BY <1>3, <2>1, <2>2, SoundIsOfRequests DEF RefusedCool, Cooling
<1>8. /\ req'[r].charged = req[r].charged \union req[r].failed
      /\ \A r2 \in Requests : r2 # r => req'[r2].charged = req[r2].charged
  BY <1>1, <1>4
<1>9. \A r2, m2, p2 :
        <<r2, m2, "failure", p2>> \in marks' <=>
          \/ <<r2, m2, "failure", p2>> \in marks
          \/ r2 = r /\ m2 \in ms /\ p2 = req[r].pass
  <2> TAKE r2, m2, p2
  <2>1. <<r2, m2, "failure", p2>> \notin ss
    BY DEF Successes
  <2>2. <<r2, m2, "failure", p2>> \in Failures(r, ms)
          <=> r2 = r /\ m2 \in ms /\ p2 = req[r].pass
    BY DEF Failures
  <2> QED
    BY <1>2, <2>1, <2>2
<1>10. MarksAreCharged'
  BY <1>5, <1>8, <1>9 DEF IInv, CountInv, MarksAreCharged
<1>11. MarksAreSingle'
  BY <1>5, <1>9 DEF IInv, CountInv, MarksAreCharged, MarksAreSingle
<1>12. ASSUME NEW m \in ModelSet
       PROVE  memory'[m].consecutive + Cardinality(Pending(m)')
                <= Cardinality(ChargedBy(m)')
  <2>1. /\ Pending(m) \in SUBSET Requests /\ ChargedBy(m) \in SUBSET Requests
        /\ ChargedBy(m)' \in SUBSET Requests
    BY DEF Pending, ChargedBy
  <2>2. /\ IsFiniteSet(Pending(m)) /\ Cardinality(Pending(m)) \in Nat
        /\ IsFiniteSet(ChargedBy(m)) /\ Cardinality(ChargedBy(m)) \in Nat
        /\ Cardinality(ChargedBy(m)') \in Nat
    BY <2>1, CountsAreFinite
  <2>3. memory'[m].consecutive = memory[m].consecutive /\ memory[m].consecutive \in Nat
    BY <1>3 DEF IInv, TypeOK, Record
  <2>4. memory[m].consecutive + Cardinality(Pending(m)) <= Cardinality(ChargedBy(m))
    BY DEF IInv, CountInv, CountIsCovered
  <2>5. CASE m \in ms
    <3>1. Pending(m)' = Pending(m) \union {r}
      BY <1>5, <1>9, <2>5 DEF Pending
    <3>2. ChargedBy(m)' = ChargedBy(m) \union {r} /\ r \notin ChargedBy(m)
      BY <1>5, <1>8, <2>5 DEF ChargedBy
    <3>3. Cardinality(ChargedBy(m)') = Cardinality(ChargedBy(m)) + 1
      BY <2>2, <3>2, FS_AddElement
    <3>4. Cardinality(Pending(m)') <= Cardinality(Pending(m)) + 1
      <4>1. \/ Cardinality(Pending(m) \union {r}) = Cardinality(Pending(m)) + 1
            \/ Cardinality(Pending(m) \union {r}) = Cardinality(Pending(m))
        BY <2>2, FS_AddElement
      <4> QED
        BY <2>2, <3>1, <4>1
    <3>5. Cardinality(Pending(m)') \in Nat
      BY <2>1, <3>1, CountsAreFinite
    <3> QED
      BY <2>2, <2>3, <2>4, <3>3, <3>4, <3>5
  <2>6. CASE m \notin ms
    <3>1. Pending(m)' = Pending(m)
      BY <1>9, <2>6 DEF Pending
    <3>2. ChargedBy(m) \in SUBSET ChargedBy(m)'
      BY <1>8 DEF ChargedBy
    <3>3. Cardinality(ChargedBy(m)) <= Cardinality(ChargedBy(m)')
      BY <2>1, <3>2, SubsetCount
    <3> QED
      BY <2>2, <2>3, <2>4, <3>1, <3>3
  <2> QED
    BY <2>5, <2>6
<1>13. CountIsCovered'
  BY <1>12 DEF CountIsCovered
<1>14. DeadWasCounted'
  BY <1>3 DEF IInv, CountInv, DeadWasCounted
<1> QED
  BY <1>6, <1>7, <1>10, <1>11, <1>13, <1>14 DEF IInv, CountInv

LEMMA RecordedKeeps ==
  ASSUME IInv, NEW mark \in marks, Recorded(mark)
  PROVE  IInv'
<1>1. PICK r \in Requests, m \in ModelSet, kind \in {"failure", "success"}, p \in 1..2 :
        mark = <<r, m, kind, p>>
  BY DEF IInv, TypeOK
<1>2. marks' = marks \ {mark} /\ UNCHANGED <<cooling, policy, req>>
  BY DEF Recorded
<1> DEFINE new == IF kind = "failure" THEN Failed(memory[m]) ELSE Succeeded(memory[m])
<1>3. memory' = [memory EXCEPT ![m] = new] \/ memory' = memory
  BY <1>1 DEF Recorded
<1>4. memory \in [ModelSet -> Record]
  BY DEF IInv, TypeOK
<1>5. memory[m] \in Record /\ memory[m].consecutive \in Nat
  BY <1>4 DEF Record
<1>6. memory[m].dead => memory[m].consecutive >= Threshold
  BY DEF IInv, CountInv, DeadWasCounted
<1>7. /\ new \in Record /\ new.consecutive \in Nat
      /\ new.dead => new.consecutive >= Threshold
      /\ new.consecutive <= memory[m].consecutive + (IF kind = "failure" THEN 1 ELSE 0)
  <2>1. CASE kind = "failure"
    <3>1. new = Failed(memory[m])
      BY <2>1
    <3> HIDE DEF new
    <3>2. new \in Record /\ (new.dead => new.consecutive >= Threshold)
          /\ new.consecutive <= memory[m].consecutive + 1
      BY <1>5, <1>6, <3>1, RecordingsType
    <3> QED
      BY <2>1, <3>2 DEF Record
  <2>2. CASE kind # "failure"
    <3>1. new = Succeeded(memory[m])
      BY <2>2
    <3> HIDE DEF new
    <3>2. new \in Record /\ (new.dead => new.consecutive >= Threshold)
          /\ new.consecutive <= memory[m].consecutive
      BY <1>5, <1>6, <3>1, RecordingsType
    <3>3. new.consecutive \in Nat
      BY <3>2 DEF Record
    <3> QED
      BY <1>5, <2>2, <3>2, <3>3
  <2> QED
    BY <2>1, <2>2
<1> HIDE DEF new
<1>8. TypeOK'
  BY <1>2, <1>3, <1>4, <1>7 DEF IInv, TypeOK
<1>9. Sound' /\ RefusedCool'
  BY <1>2, SoundIsOfRequests DEF IInv, Sound, RefusedCool, Cooling
<1>10. MarksAreCharged' /\ MarksAreSingle'
  BY <1>2 DEF IInv, CountInv, MarksAreCharged, MarksAreSingle
<1>11. DeadWasCounted'
  BY <1>3, <1>4, <1>7 DEF IInv, CountInv, DeadWasCounted
<1>12. \A m2 \in ModelSet : ChargedBy(m2)' = ChargedBy(m2) /\ Pending(m2)' \subseteq Pending(m2)
  BY <1>2 DEF ChargedBy, Pending
<1>13. ASSUME NEW m2 \in ModelSet
       PROVE  memory'[m2].consecutive + Cardinality(Pending(m2)')
                <= Cardinality(ChargedBy(m2)')
  <2>1. /\ Pending(m2) \in SUBSET Requests /\ ChargedBy(m2) \in SUBSET Requests
        /\ Pending(m2)' \in SUBSET Requests
    BY DEF Pending, ChargedBy
  <2>2. /\ IsFiniteSet(Pending(m2)) /\ Cardinality(Pending(m2)) \in Nat
        /\ Cardinality(ChargedBy(m2)) \in Nat /\ Cardinality(Pending(m2)') \in Nat
    BY <2>1, CountsAreFinite
  <2>3. memory[m2].consecutive + Cardinality(Pending(m2)) <= Cardinality(ChargedBy(m2))
    BY DEF IInv, CountInv, CountIsCovered
  <2>4. Cardinality(Pending(m2)') <= Cardinality(Pending(m2))
    BY <1>12, <2>1, SubsetCount
  <2>5. memory[m2].consecutive \in Nat /\ memory'[m2].consecutive \in Nat
    BY <1>4, <1>8 DEF TypeOK, Record
  <2>6. CASE memory'[m2].consecutive <= memory[m2].consecutive
    BY <1>12, <2>2, <2>3, <2>4, <2>5, <2>6
  <2>7. CASE ~(memory'[m2].consecutive <= memory[m2].consecutive)
    <3>1. m2 = m /\ memory'[m] = new
      BY <1>3, <1>4, <2>5, <2>7
    <3>2. kind = "failure"
      BY <1>5, <1>7, <2>7, <3>1
    <3>3. \A p2 \in 1..2 : <<r, m, "failure", p2>> \in marks => p2 = p
      BY <1>1, <3>2 DEF IInv, CountInv, MarksAreSingle
    <3>4. Pending(m2)' = Pending(m2) \ {r} /\ r \in Pending(m2)
      <4>1. <<r, m, "failure", p>> \in marks
        BY <1>1, <3>2
      <4>2. \A r2 \in Requests, p2 \in 1..2 :
              <<r2, m, "failure", p2>> \in marks'
                <=> <<r2, m, "failure", p2>> \in marks /\ ~(r2 = r /\ p2 = p)
        BY <1>1, <1>2, <3>2
      <4> QED
        BY <3>1, <3>3, <4>1, <4>2 DEF Pending
    <3>5. Cardinality(Pending(m2)') = Cardinality(Pending(m2)) - 1
      <4>1. PICK A, B : A = Pending(m2) /\ B = Pending(m2)'
        OBVIOUS
      <4>2. IsFiniteSet(A) /\ r \in A /\ B = A \ {r}
        BY <2>2, <3>4, <4>1
      <4>3. Cardinality(B) = Cardinality(A) - 1
        BY <4>2, FS_RemoveElement
      <4> QED
        BY <4>1, <4>3
    <3>6. memory'[m2].consecutive <= memory[m2].consecutive + 1
      BY <1>7, <3>1, <3>2
    <3> QED
      BY <1>12, <2>2, <2>3, <2>5, <3>5, <3>6
  <2> QED
    BY <2>6, <2>7
<1>14. CountIsCovered'
  BY <1>13 DEF CountIsCovered
<1> QED
  BY <1>8, <1>9, <1>10, <1>11, <1>14 DEF IInv, CountInv

LEMMA TickKeeps ==
  ASSUME IInv, Tick
  PROVE  IInv'
<1> DEFINE n == [r \in Requests |->
                   [req[r] EXCEPT !.wait = Down(@),
                                  !.refused = {ch \in @ : Down(cooling[ch]) > 0}]]
<1>1. /\ req' = n /\ UNCHANGED <<policy, marks>>
      /\ cooling' = [ch \in Channels |-> Down(cooling[ch])]
      /\ memory' = [m \in ModelSet |-> Aged(memory[m])]
  BY DEF Tick
<1>2. /\ req \in [Requests -> Request] /\ cooling \in [Channels -> 0..MaxCooldown]
      /\ memory \in [ModelSet -> Record]
  BY DEF IInv, TypeOK
<1>3. /\ \A w \in 0..MaxWait : Down(w) \in 0..MaxWait
      /\ \A w \in 0..MaxCooldown : Down(w) \in 0..MaxCooldown
  <2>1. MaxWait \in Nat /\ MaxCooldown \in Nat
    BY FailoverAssumption
  <2> QED
    BY <2>1 DEF Down
<1>4. \A r \in Requests :
        /\ n[r] \in Request /\ n[r].charged = req[r].charged /\ n[r].step = req[r].step
        /\ n[r].candidate = req[r].candidate /\ n[r].enforced = req[r].enforced
        /\ n[r].policy = req[r].policy /\ n[r].channel = req[r].channel
        /\ n[r].unread = req[r].unread /\ n[r].free = req[r].free
        /\ n[r].refused = {ch \in req[r].refused : Down(cooling[ch]) > 0}
  <2> TAKE r \in Requests
  <2> DEFINE w == Down(req[r].wait)
             f == {ch \in req[r].refused : Down(cooling[ch]) > 0}
             x == [req[r] EXCEPT !.wait = w, !.refused = f]
  <2>1. w \in 0..MaxWait /\ f \in SUBSET Channels
    BY <1>2, <1>3 DEF Request
  <2>2. n[r] = x
    OBVIOUS
  <2> HIDE DEF w, f, n
  <2>3. /\ x \in Request /\ x.charged = req[r].charged /\ x.step = req[r].step
        /\ x.candidate = req[r].candidate /\ x.enforced = req[r].enforced
        /\ x.policy = req[r].policy /\ x.channel = req[r].channel
        /\ x.unread = req[r].unread /\ x.free = req[r].free /\ x.refused = f
    <3>1. PICK q \in Request : q = req[r]
      BY <1>2
    <3>2. PICK y : y = [q EXCEPT !.wait = w, !.refused = f]
      OBVIOUS
    <3>3. /\ y.charged = q.charged /\ y.step = q.step /\ y.candidate = q.candidate
          /\ y.enforced = q.enforced /\ y.policy = q.policy /\ y.channel = q.channel
          /\ y.unread = q.unread /\ y.free = q.free /\ y.refused = f
      BY <3>2 DEF Request
    <3>4. y \in Request
      BY <2>1, <3>2 DEF Request
    <3>5. x = y
      BY <3>1, <3>2
    <3> QED
      BY <3>1, <3>3, <3>4, <3>5
  <2>4. n[r].refused = {ch \in req[r].refused : Down(cooling[ch]) > 0}
    BY <2>2, <2>3 DEF f
  <2> QED
    BY <2>2, <2>3, <2>4
<1>5. DOMAIN n = Requests /\ n = [r \in Requests |-> n[r]]
  OBVIOUS
<1> HIDE DEF n
<1>6. TypeOK'
  <2>1. req' \in [Requests -> Request]
    BY <1>1, <1>4, <1>5
  <2>2. memory' \in [ModelSet -> Record]
    BY <1>1, <1>2, RecordingsType
  <2>3. cooling' \in [Channels -> 0..MaxCooldown]
    BY <1>1, <1>2, <1>3
  <2> QED
    BY <1>1, <2>1, <2>2, <2>3 DEF IInv, TypeOK
<1>7. Sound'
  <2> SUFFICES ASSUME NEW r \in Requests PROVE SoundRequest(n[r])
    BY <1>1, SoundIsOfRequests
  <2>1. SoundRequest(req[r])
    BY DEF IInv, Sound
  <2>2. WayOut(req[r]) => WayOut(n[r])
    BY <1>4 DEF WayOut, Others, Resolved, Model
  <2> QED
    BY <1>4, <2>1, <2>2 DEF SoundRequest
<1>14. RefusedCool'
  <2>1. \A r \in Requests : \A ch \in n[r].refused : ch \in Channels /\ Down(cooling[ch]) > 0
    BY <1>2, <1>4 DEF Request
  <2> QED
    BY <1>1, <2>1 DEF RefusedCool, Cooling
<1>8. \A r \in Requests : req'[r].charged = req[r].charged
  BY <1>1, <1>4
<1>9. MarksAreCharged' /\ MarksAreSingle'
  BY <1>1, <1>8 DEF IInv, CountInv, MarksAreCharged, MarksAreSingle
<1>10. \A m \in ModelSet :
         /\ memory'[m] = Aged(memory[m]) /\ memory[m] \in Record
         /\ memory[m].dead => memory[m].consecutive >= Threshold
  BY <1>1, <1>2 DEF IInv, CountInv, DeadWasCounted
<1>11. DeadWasCounted'
  BY <1>10, RecordingsType DEF DeadWasCounted
<1>12. ASSUME NEW m \in ModelSet
       PROVE  memory'[m].consecutive + Cardinality(Pending(m)')
                <= Cardinality(ChargedBy(m)')
  <2>1. Pending(m)' = Pending(m) /\ ChargedBy(m)' = ChargedBy(m)
    BY <1>1, <1>8 DEF Pending, ChargedBy
  <2>2. Pending(m) \in SUBSET Requests /\ ChargedBy(m) \in SUBSET Requests
    BY DEF Pending, ChargedBy
  <2>3. Cardinality(Pending(m)) \in Nat /\ Cardinality(ChargedBy(m)) \in Nat
    BY <2>2, CountsAreFinite
  <2>4. memory'[m].consecutive <= memory[m].consecutive
    BY <1>10, RecordingsType
  <2>5. memory'[m].consecutive \in Nat /\ memory[m].consecutive \in Nat
    BY <1>2, <1>6 DEF TypeOK, Record
  <2>6. memory[m].consecutive + Cardinality(Pending(m)) <= Cardinality(ChargedBy(m))
    BY DEF IInv, CountInv, CountIsCovered
  <2> QED
    BY <2>1, <2>3, <2>4, <2>5, <2>6
<1>13. CountIsCovered'
  BY <1>12 DEF CountIsCovered
<1> QED
  BY <1>6, <1>7, <1>9, <1>11, <1>13, <1>14 DEF IInv, CountInv

LEMMA SameKeeps ==
  ASSUME IInv, policy' \in Policies, UNCHANGED <<cooling, memory, req, marks>>
  PROVE  IInv'
<1>1. TypeOK' /\ Sound' /\ RefusedCool'
  BY SoundIsOfRequests DEF IInv, TypeOK, Sound, RefusedCool, Cooling
<1>2. \A m \in ModelSet : Pending(m)' = Pending(m) /\ ChargedBy(m)' = ChargedBy(m)
  BY DEF Pending, ChargedBy
<1>3. CountInv'
  BY <1>2 DEF IInv, CountInv, MarksAreCharged, MarksAreSingle, CountIsCovered, DeadWasCounted
<1> QED
  BY <1>1, <1>3 DEF IInv

LEMMA NextKeeps == IInv /\ [Next]_vars => IInv'
<1> SUFFICES ASSUME IInv, [Next]_vars PROVE IInv'
  OBVIOUS
<1>1. TypeOK /\ Sound /\ RefusedCool /\ policy \in Policies
  BY DEF IInv, TypeOK
<1>2. CASE \E r \in Requests : Run(r)
  <2>1. PICK r \in Requests : Run(r)
    BY <1>2
  <2>2. GoesOn(r) \/ Charges(r)
    BY <1>1, <2>1, RunGoesOnOrCharges
  <2> QED
    BY <2>2, GoesOnKeeps, ChargesKeeps
<1>3. CASE \E mark \in marks : Recorded(mark)
  BY <1>3, RecordedKeeps
<1>4. CASE Reload
  BY <1>4, SameKeeps DEF Reload
<1>5. CASE Tick
  BY <1>5, TickKeeps
<1>6. CASE UNCHANGED vars
  BY <1>1, <1>6, SameKeeps DEF vars
<1> QED
  BY <1>2, <1>3, <1>4, <1>5, <1>6 DEF Next

LEMMA Inductive == Spec => []IInv
BY InitHolds, NextKeeps, PTL DEF Spec
-----------------------------------------------------------------------------
(* The theorems                                                            *)

\* The records of failover.ts, penalty.ts and model-dead.ts keep their types.
THEOREM TypeCorrect == Spec => []TypeOK
BY Inductive, PTL DEF IInv

\* A model is remembered as dead only when as many requests as the threshold
\* charged it (model-dead.ts recordModelFailure, failover.ts
\* recordDeadModelFailures), for any number of requests, models and passes that
\* overlap.
THEOREM DeadModelsWereCharged == Spec => []DeadTakesManyRequests
<1>1. IInv => DeadTakesManyRequests
  <2> SUFFICES ASSUME IInv, NEW m \in ModelSet, memory[m].dead
               PROVE  Cardinality({r \in Requests : m \in req[r].charged}) >= Threshold
    BY DEF DeadTakesManyRequests
  <2>1. Pending(m) \in SUBSET Requests /\ ChargedBy(m) \in SUBSET Requests
    BY DEF Pending, ChargedBy
  <2>2. Cardinality(Pending(m)) \in Nat /\ Cardinality(ChargedBy(m)) \in Nat
    BY <2>1, CountsAreFinite
  <2>3. memory[m].consecutive \in Nat /\ memory[m].consecutive >= Threshold
    BY DEF IInv, TypeOK, Record, CountInv, DeadWasCounted
  <2>4. memory[m].consecutive + Cardinality(Pending(m)) <= Cardinality(ChargedBy(m))
    BY DEF IInv, CountInv, CountIsCovered
  <2>5. Cardinality(ChargedBy(m)) >= Threshold
    BY <2>2, <2>3, <2>4, FailoverAssumption
  <2> QED
    BY <2>5 DEF ChargedBy
<1> QED
  BY <1>1, Inductive, PTL

\* The penalty gate never refuses the last channel of a candidate while all that
\* it refused before have been cooling since (gates.ts gateChannel,
\* othersAllCoolingFor): the reads of a refusal found a channel that was free,
\* and no channel that the gate refused has been free since.
THEOREM AWayIsLeft == Spec => []PenaltyLeavesAWay
<1>1. IInv => PenaltyLeavesAWay
  <2> SUFFICES ASSUME IInv, NEW r \in Requests, NEW q, q = req[r],
                      q.step = "fallback", ~MayPass(q)
               PROVE  q.refused \union q.channel # ChannelsOf[Model(q)]
    BY DEF PenaltyLeavesAWay
  <2>1. WayOut(q) /\ q.policy.enabled
    BY DEF IInv, Sound, SoundRequest
  <2>2. PICK ch \in Others(q) : ch \notin q.refused
    BY <2>1 DEF WayOut, MayPass
  <2>3. ch \in ChannelsOf[Model(q)] /\ ch \notin q.channel
    BY <2>1, <2>2 DEF Others, Resolved
  <2> QED
    BY <2>2, <2>3
<1> QED
  BY <1>1, Inductive, PTL
-----------------------------------------------------------------------------
(* The breaker of one host that the requests go to (health/breaker.ts), for *)
(* any window, cooldown, thresholds and number of retries.                  *)

\* A record that was read is the newest, or is older than it.
Fresh(s) == s.version <= store.version /\ (s.version = store.version => s = store)

\* What a round trip has under way was worth a compare-and-set.
OpenSeen(p, s) == p = "deciding" => Fresh(s) /\ s.state = "open" /\ s.cooling = 0
WorthIt(t) ==
  t.step = "cas" =>
    /\ Fresh(t.state)
    /\ t.state.state = "half-open" \/ (t.state.state = "closed" /\ ~t.success)

SeenIsOpen == \A r \in Attempts : OpenSeen(phase[r], seen[r])
TasksAreWorthIt == \A x \in Tasks : WorthIt(task[x])

\* The key outlives the cooldown and every failure that still counts.
KeyLasts ==
  /\ store.cooling > 0 => store.ttl >= store.cooling + WindowMs
  /\ \A r \in DOMAIN store.failures :
       store.failures[r] > WindowMs \/ store.failures[r] + store.ttl >= Cooldown + WindowMs

BreakerInv == BreakerTypeOK /\ SeenIsOpen /\ TasksAreWorthIt /\ KeyLasts

LEMMA Configured ==
  /\ WindowMs \in Nat /\ Cooldown \in Nat /\ WindowMs > 0 /\ Cooldown > 0
  /\ Thresholds \subseteq Nat /\ MaxRetries \in Nat /\ MaxRetries > 0
BY ConfigAssumption

LEMMA EmptyIsFailures == <<>> \in FailureAges /\ DOMAIN <<>> = {}
<1>1. <<>> \in [{} -> 0..WindowMs + 1]
  OBVIOUS
<1>2. QED
  BY <1>1 DEF FailureAges

LEMMA FailuresAre ==
  ASSUME NEW f
  PROVE  f \in FailureAges <=> /\ DOMAIN f \subseteq Attempts
                            /\ f = [r \in DOMAIN f |-> f[r]]
                            /\ \A r \in DOMAIN f : f[r] \in 0..WindowMs + 1
<1>1. ASSUME f \in FailureAges
      PROVE  /\ DOMAIN f \subseteq Attempts /\ f = [r \in DOMAIN f |-> f[r]]
             /\ \A r \in DOMAIN f : f[r] \in 0..WindowMs + 1
  <2>1. PICK R \in SUBSET Attempts : f \in [R -> 0..WindowMs + 1]
    BY <1>1 DEF FailureAges
  <2>2. QED
    BY <2>1
<1>2. ASSUME DOMAIN f \subseteq Attempts, f = [r \in DOMAIN f |-> f[r]],
             \A r \in DOMAIN f : f[r] \in 0..WindowMs + 1
      PROVE  f \in FailureAges
  <2>1. PICK R : R = DOMAIN f
    OBVIOUS
  <2>2. f \in [R -> 0..WindowMs + 1]
    BY <1>2, <2>1
  <2>3. QED
    BY <1>2, <2>1, <2>2 DEF FailureAges
<1>3. QED
  BY <1>1, <1>2

LEMMA RecordIs ==
  ASSUME NEW s \in BreakerState
  PROVE  /\ s.state \in {"closed", "open", "half-open"} /\ s.failures \in FailureAges
         /\ s.cooling \in 0..Cooldown /\ s.version \in Nat /\ s.ttl \in 0..Cooldown + WindowMs
BY DEF BreakerState

LEMMA ClosedStateType == ClosedState \in BreakerState /\ NoTask \in Task
<1>1. ClosedState \in BreakerState
  BY Configured, EmptyIsFailures DEF ClosedState, BreakerState
<1>2. QED
  BY <1>1, Configured DEF NoTask, Task

\* What becomes of a record.
LEMMA NextRecords ==
  ASSUME NEW s \in BreakerState
  PROVE  /\ Closed(s) \in BreakerState /\ Closed(s).state = "closed"
         /\ HalfOpen(s) \in BreakerState /\ HalfOpen(s).state = "half-open"
         /\ Opened(s) \in BreakerState /\ Opened(s).state = "open"
<1>1. 0 \in 0..Cooldown /\ Cooldown \in 0..Cooldown
  BY Configured
<1>2. QED
  BY <1>1, EmptyIsFailures DEF BreakerState, Closed, HalfOpen, Opened

LEMMA FailureJoins ==
  ASSUME NEW f \in FailureAges, NEW r \in Attempts
  PROVE  /\ WithFailure(f, r) \in FailureAges
         /\ DOMAIN WithFailure(f, r) = {q \in DOMAIN f : f[q] <= WindowMs} \cup {r}
<1>1. DOMAIN Recent(f) = {q \in DOMAIN f : f[q] <= WindowMs}
  BY DEF Recent, Restrict
<1>2. DOMAIN WithFailure(f, r) = DOMAIN Recent(f) \cup {r}
  BY DEF WithFailure
<1>3. PICK g : g = WithFailure(f, r)
  OBVIOUS
<1>4. g = [x \in DOMAIN Recent(f) \cup {r} |-> IF x = r THEN 0 ELSE f[x]]
  BY <1>3 DEF WithFailure
<1>5. /\ DOMAIN f \subseteq Attempts /\ \A q \in DOMAIN f : f[q] \in 0..WindowMs + 1
  BY FailuresAre
<1>6. DOMAIN g \subseteq Attempts
  BY <1>1, <1>2, <1>3, <1>5
<1>7. ASSUME NEW q \in DOMAIN g PROVE g[q] \in 0..WindowMs + 1
  <2>1. g[q] = IF q = r THEN 0 ELSE f[q]
    BY <1>2, <1>3, <1>4
  <2>2. CASE q = r
    BY <2>1, <2>2, Configured
  <2>3. CASE q # r
    BY <1>1, <1>2, <1>3, <1>5, <2>1, <2>3
  <2>4. QED
    BY <2>2, <2>3
<1>8. g = [q \in DOMAIN g |-> g[q]]
  BY <1>4
<1>9. g \in FailureAges
  BY <1>6, <1>7, <1>8, FailuresAre
<1>10. QED
  BY <1>1, <1>2, <1>3, <1>9

LEMMA FailedIs ==
  ASSUME NEW s \in BreakerState, NEW r \in Attempts
  PROVE  /\ AfterFailure(s, r) \in BreakerState
         /\ AfterFailure(s, r).state = s.state =>
              \/ s.state # "closed"
              \/ DOMAIN AfterFailure(s, r).failures
                     = {q \in DOMAIN s.failures : s.failures[q] <= WindowMs} \cup {r}
<1>1. s.failures \in FailureAges
  BY RecordIs
<1>2. WithFailure(s.failures, r) \in FailureAges
  BY <1>1, FailureJoins
<1>3. PICK g : g = WithFailure(s.failures, r)
  OBVIOUS
<1>4. CASE AfterFailure(s, r) = Opened(s)
  BY <1>4, NextRecords
<1>5. CASE AfterFailure(s, r) = [s EXCEPT !.failures = g]
  <2>1. AfterFailure(s, r) \in BreakerState /\ AfterFailure(s, r).failures = g
    BY <1>2, <1>3, <1>5 DEF BreakerState
  <2>2. QED
    BY <1>1, <1>3, <2>1, FailureJoins
<1>6. QED
  BY <1>3, <1>4, <1>5 DEF AfterFailure

LEMMA CasIs ==
  ASSUME store \in BreakerState, NEW s \in BreakerState, NEW n \in BreakerState, Cas(s, n)
  PROVE  /\ store' \in BreakerState
         /\ ~Matches(s) => store' = store
         /\ Matches(s) => /\ store'.version = store.version + 1 /\ store'.ttl = Cooldown + WindowMs
                          /\ store'.state = n.state /\ store'.failures = n.failures
                          /\ store'.cooling = n.cooling
<1>1. CASE ~Matches(s)
  BY <1>1 DEF Cas
<1>2. CASE Matches(s)
  <2>1. PICK v, t : v = s.version + 1 /\ t = Cooldown + WindowMs
    OBVIOUS
  <2>2. store' = [n EXCEPT !.version = v, !.ttl = t]
    BY <1>2, <2>1 DEF Cas, Ttl
  <2>3. v \in Nat /\ v = store.version + 1 /\ t \in 0..Cooldown + WindowMs
    BY <1>2, <2>1, RecordIs, Configured DEF Matches
  <2>4. /\ store' \in BreakerState /\ store'.version = v /\ store'.ttl = t
        /\ store'.state = n.state /\ store'.failures = n.failures /\ store'.cooling = n.cooling
    BY <2>2, <2>3 DEF BreakerState
  <2>5. QED
    BY <1>2, <2>1, <2>3, <2>4
<1>3. QED
  BY <1>1, <1>2

\* A compare-and-set leaves nothing newer than the store, and a key that lasts.
LEMMA CasKeeps ==
  ASSUME BreakerInv, NEW s \in BreakerState, NEW n \in BreakerState, Cas(s, n)
  PROVE  /\ store' \in BreakerState /\ KeyLasts'
         /\ \A x \in BreakerState : Fresh(x) => Fresh(x)'
<1>1. store \in BreakerState /\ KeyLasts
  BY DEF BreakerInv, BreakerTypeOK
<1>2. /\ store' \in BreakerState
      /\ ~Matches(s) => store' = store
      /\ Matches(s) => /\ store'.version = store.version + 1 /\ store'.ttl = Cooldown + WindowMs
                       /\ store'.state = n.state /\ store'.failures = n.failures
                       /\ store'.cooling = n.cooling
  BY <1>1, CasIs
<1>3. CASE store' = store
  BY <1>1, <1>3 DEF KeyLasts, Fresh
<1>4. CASE Matches(s)
  <2>1. n.cooling \in 0..Cooldown /\ n.failures \in FailureAges
    BY RecordIs
  <2>2. store'.cooling > 0 => store'.ttl >= store'.cooling + WindowMs
    BY <1>2, <1>4, <2>1, Configured
  <2>3. ASSUME NEW r \in DOMAIN n.failures PROVE n.failures[r] \in Nat
    BY <2>1, <2>3, FailuresAre
  <2>4. ASSUME NEW r \in DOMAIN store'.failures
        PROVE  store'.failures[r] > WindowMs \/ store'.failures[r] + store'.ttl >= Cooldown + WindowMs
    BY <1>2, <1>4, <2>3, Configured
  <2>5. KeyLasts'
    BY <2>2, <2>4 DEF KeyLasts
  <2>6. ASSUME NEW x \in BreakerState, Fresh(x) PROVE Fresh(x)'
    <3>1. x.version \in Nat /\ store.version \in Nat /\ x.version <= store.version
      BY <1>1, <2>6, RecordIs DEF Fresh
    <3>2. store'.version = store.version + 1
      BY <1>2, <1>4
    <3>3. QED
      BY <3>1, <3>2 DEF Fresh
  <2>7. QED
    BY <1>2, <2>5, <2>6
<1>5. QED
  BY <1>2, <1>3, <1>4

-----------------------------------------------------------------------------
LEMMA BreakerStarts == BreakerInit => BreakerInv
<1>1. SUFFICES ASSUME BreakerInit PROVE BreakerInv
  OBVIOUS
<1>2. BreakerTypeOK
  BY <1>1, ClosedStateType DEF BreakerInit, BreakerTypeOK, Phases
<1>3. SeenIsOpen /\ TasksAreWorthIt
  BY <1>1 DEF BreakerInit, SeenIsOpen, TasksAreWorthIt, OpenSeen, WorthIt, NoTask
<1>4. KeyLasts
  BY <1>1, EmptyIsFailures DEF BreakerInit, KeyLasts, ClosedState
<1>5. QED
  BY <1>2, <1>3, <1>4 DEF BreakerInv

LEMMA BreakerTypes ==
  ASSUME BreakerTypeOK
  PROVE  /\ store \in BreakerState /\ phase \in [Attempts -> Phases] /\ seen \in [Attempts -> BreakerState]
         /\ task \in [Tasks -> Task] /\ config \in Config
         /\ \A r \in Attempts : seen[r] \in BreakerState /\ phase[r] \in Phases
         /\ \A x \in Tasks : /\ task[x] \in Task /\ task[x].state \in BreakerState
                              /\ task[x].success \in BOOLEAN /\ task[x].retries \in 0..MaxRetries - 1
BY DEF BreakerTypeOK, Task

\* What a request does leaves the records that others have read fresh.
LEMMA RequestKeeps ==
  ASSUME BreakerInv, NEW r \in Attempts, NEW p \in Phases, NEW s \in BreakerState,
         phase' = [phase EXCEPT ![r] = p], seen' = [seen EXCEPT ![r] = s],
         UNCHANGED <<config, task>>, store' \in BreakerState, KeyLasts',
         \A x \in BreakerState : Fresh(x) => Fresh(x)', OpenSeen(p, s)'
  PROVE  BreakerInv'
<1>1. BreakerTypeOK /\ SeenIsOpen /\ TasksAreWorthIt
  BY DEF BreakerInv
<1>2. BreakerTypeOK'
  BY <1>1, BreakerTypes DEF BreakerTypeOK
<1>3. ASSUME NEW q \in Attempts PROVE OpenSeen(phase[q], seen[q])'
  <2>1. CASE q = r
    BY <1>1, <2>1, BreakerTypes DEF OpenSeen
  <2>2. CASE q # r
    <3>1. phase'[q] = phase[q] /\ seen'[q] = seen[q] /\ seen[q] \in BreakerState
      BY <1>1, <2>2, BreakerTypes
    <3>2. OpenSeen(phase[q], seen[q])
      BY <1>1 DEF SeenIsOpen
    <3>3. QED
      BY <3>1, <3>2 DEF OpenSeen, Fresh
  <2>3. QED
    BY <2>1, <2>2
<1>4. ASSUME NEW x \in Tasks PROVE WorthIt(task[x])'
  <2>1. task'[x] = task[x] /\ task[x].state \in BreakerState /\ WorthIt(task[x])
    BY <1>1, BreakerTypes DEF TasksAreWorthIt
  <2>2. QED
    BY <2>1 DEF WorthIt, Fresh
<1>5. QED
  BY <1>2, <1>3, <1>4 DEF BreakerInv, SeenIsOpen, TasksAreWorthIt

LEMMA TaskKeeps ==
  ASSUME BreakerInv, NEW x \in Tasks, NEW t \in Task, task' = [task EXCEPT ![x] = t],
         UNCHANGED <<config, phase, seen>>, store' \in BreakerState, KeyLasts',
         \A s \in BreakerState : Fresh(s) => Fresh(s)', WorthIt(t)'
  PROVE  BreakerInv'
<1>1. BreakerTypeOK /\ SeenIsOpen /\ TasksAreWorthIt
  BY DEF BreakerInv
<1>2. BreakerTypeOK'
  BY <1>1, BreakerTypes DEF BreakerTypeOK
<1>3. ASSUME NEW q \in Attempts PROVE OpenSeen(phase[q], seen[q])'
  <2>1. seen'[q] = seen[q] /\ phase'[q] = phase[q] /\ seen[q] \in BreakerState
        /\ OpenSeen(phase[q], seen[q])
    BY <1>1, BreakerTypes DEF SeenIsOpen
  <2>2. QED
    BY <2>1 DEF OpenSeen, Fresh
<1>4. ASSUME NEW y \in Tasks PROVE WorthIt(task[y])'
  <2>1. CASE y = x
    BY <1>1, <2>1, BreakerTypes DEF WorthIt
  <2>2. CASE y # x
    <3>1. task'[y] = task[y] /\ task[y].state \in BreakerState /\ WorthIt(task[y])
      BY <1>1, <2>2, BreakerTypes DEF TasksAreWorthIt
    <3>2. QED
      BY <3>1 DEF WorthIt, Fresh
  <2>3. QED
    BY <2>1, <2>2
<1>5. QED
  BY <1>2, <1>3, <1>4 DEF BreakerInv, SeenIsOpen, TasksAreWorthIt
\* A store that stays.
LEMMA StoreStays ==
  ASSUME BreakerInv, store' = store
  PROVE  store' \in BreakerState /\ KeyLasts' /\ \A x \in BreakerState : Fresh(x) => Fresh(x)'
BY DEF BreakerInv, BreakerTypeOK, KeyLasts, Fresh

LEMMA AdmissionKeeps ==
  ASSUME BreakerInv, NEW r \in Attempts, Admission(r)
  PROVE  BreakerInv'
<1>1. /\ BreakerTypeOK /\ store \in BreakerState /\ seen[r] \in BreakerState /\ phase[r] \in Phases
      /\ phase \in [Attempts -> Phases] /\ seen \in [Attempts -> BreakerState]
  BY BreakerTypes DEF BreakerInv
<1>2. CASE LoadForAdmission(r)
  <2>1. UNCHANGED <<store, config, task>>
    BY <1>2 DEF LoadForAdmission
  <2>2. store' \in BreakerState /\ KeyLasts' /\ \A x \in BreakerState : Fresh(x) => Fresh(x)'
    BY <2>1, StoreStays
  <2>3. \/ Goes(r, "admitted") /\ UNCHANGED seen
        \/ Goes(r, "refused") /\ UNCHANGED seen
        \/ /\ Goes(r, "deciding") /\ seen' = [seen EXCEPT ![r] = store]
           /\ store.state = "open" /\ ~(store.cooling > 0)
    BY <1>1, <1>2, RecordIs DEF LoadForAdmission
  <2>4. CASE \/ Goes(r, "admitted") /\ UNCHANGED seen
             \/ Goes(r, "refused") /\ UNCHANGED seen
    <3>1. PICK p \in {"admitted", "refused"} : phase' = [phase EXCEPT ![r] = p]
      BY <2>4 DEF Goes
    <3>2. p \in Phases /\ seen' = [seen EXCEPT ![r] = seen[r]] /\ OpenSeen(p, seen[r])'
      BY <1>1, <2>4 DEF Phases, OpenSeen
    <3>3. PICK s \in BreakerState : s = seen[r]
      BY <1>1
    <3>4. OpenSeen(p, s)'
      BY DEF OpenSeen
    <3>5. QED
      BY <2>1, <2>2, <3>1, <3>2, <3>3, <3>4, RequestKeeps
  <2>5. CASE /\ Goes(r, "deciding") /\ seen' = [seen EXCEPT ![r] = store]
             /\ store.state = "open" /\ ~(store.cooling > 0)
    <3>1. PICK s \in BreakerState : s = store
      BY <1>1
    <3>2. store.cooling = 0 /\ store.version <= store.version
      BY <1>1, <2>5, RecordIs
    <3>3. OpenSeen("deciding", s)'
      BY <2>1, <2>5, <3>1, <3>2 DEF OpenSeen, Fresh
    <3>4. "deciding" \in Phases /\ phase' = [phase EXCEPT ![r] = "deciding"]
      BY <2>5 DEF Phases, Goes
    <3>5. QED
      BY <2>1, <2>2, <2>5, <3>1, <3>3, <3>4, RequestKeeps
  <2>6. QED
    BY <2>3, <2>4, <2>5
<1>3. CASE CasForAdmission(r)
  <2>1. PICK n : n = IF config.halfOpenProbe THEN HalfOpen(seen[r]) ELSE Closed(seen[r])
    OBVIOUS
  <2>2. n \in BreakerState
    BY <1>1, <2>1, NextRecords
  <2>3. Cas(seen[r], n) /\ UNCHANGED <<config, task>> /\ seen' = [seen EXCEPT ![r] = ClosedState]
    BY <1>3, <2>1 DEF CasForAdmission
  <2>4. PICK p \in {"admitted", "refused"} : phase' = [phase EXCEPT ![r] = p]
    BY <1>3 DEF CasForAdmission, Goes
  <2>5. store' \in BreakerState /\ KeyLasts' /\ \A x \in BreakerState : Fresh(x) => Fresh(x)'
    BY <1>1, <2>2, <2>3, CasKeeps
  <2>6. p \in Phases
    BY <2>4 DEF Phases
  <2>7. OpenSeen(p, ClosedState)'
    BY <2>4 DEF OpenSeen
  <2>8. PICK s \in BreakerState : s = ClosedState
    BY ClosedStateType
  <2>9. OpenSeen(p, s)'
    BY <2>4 DEF OpenSeen
  <2>10. QED
    BY <2>3, <2>4, <2>5, <2>6, <2>8, <2>9, RequestKeeps
<1>4. QED
  BY <1>2, <1>3 DEF Admission

LEMMA SendingKeeps ==
  ASSUME BreakerInv, NEW r \in Attempts, RefuseByLaterGate(r) \/ AttemptStart(r)
  PROVE  BreakerInv'
<1>1. PICK p \in {"refused", "sent"} : phase' = [phase EXCEPT ![r] = p]
  BY DEF RefuseByLaterGate, AttemptStart, Goes
<1>2. UNCHANGED <<store, config, seen, task>>
  BY DEF RefuseByLaterGate, AttemptStart
<1>3. seen \in [Attempts -> BreakerState] /\ p \in Phases
  BY <1>1, BreakerTypes DEF BreakerInv, Phases
<1>4. PICK s \in BreakerState : s = seen[r]
  BY <1>3
<1>5. seen' = [seen EXCEPT ![r] = s]
  BY <1>2, <1>3, <1>4
<1>6. OpenSeen(p, s)'
  BY <1>1 DEF OpenSeen
<1>7. QED
  BY <1>1, <1>2, <1>3, <1>5, <1>6, StoreStays, RequestKeeps

\* An answer starts a recording, or none.
LEMMA AnswerKeeps ==
  ASSUME BreakerInv, NEW r \in Attempts, FirstChunk(r) \/ End(r)
  PROVE  BreakerInv'
<1>1. PICK p \in {"streaming", "ended"} : phase' = [phase EXCEPT ![r] = p]
  BY DEF FirstChunk, End, Goes
<1>2. UNCHANGED <<store, config, seen>>
  BY DEF FirstChunk, End
<1>3. /\ BreakerTypeOK /\ SeenIsOpen /\ TasksAreWorthIt /\ KeyLasts /\ p \in Phases
      /\ phase \in [Attempts -> Phases] /\ task \in [Tasks -> Task]
  BY <1>1, BreakerTypes DEF BreakerInv, Phases
<1>4. \/ UNCHANGED task
      \/ \E which \in {"first_chunk", "final"}, success \in BOOLEAN : Fire(r, which, success)
  BY DEF FirstChunk, End
<1>5. task' \in [Tasks -> Task] /\ \A x \in Tasks : WorthIt(task[x])'
  <2>1. \A x \in Tasks : WorthIt(task[x])
    BY <1>3 DEF TasksAreWorthIt
  <2>2. CASE UNCHANGED task
    BY <1>2, <1>3, <2>1, <2>2 DEF WorthIt, Fresh
  <2>3. ASSUME NEW which \in {"first_chunk", "final"}, NEW success \in BOOLEAN,
               Fire(r, which, success)
        PROVE  task' \in [Tasks -> Task] /\ \A x \in Tasks : WorthIt(task[x])'
    <3>1. PICK t, y : t = [NoTask EXCEPT !.step = "load", !.success = success] /\ y = <<r, which>>
      OBVIOUS
    <3>2. t \in Task /\ t.step = "load" /\ y \in Tasks
      BY <3>1, ClosedStateType DEF Task, Tasks
    <3>3. task' = [task EXCEPT ![y] = t]
      BY <2>3, <3>1 DEF Fire
    <3>4. task' \in [Tasks -> Task]
      BY <1>3, <3>2, <3>3
    <3>5. ASSUME NEW x \in Tasks PROVE WorthIt(task[x])'
      <4>1. CASE x = y
        <5>1. task'[x] = t
          BY <1>3, <3>3, <4>1
        <5>2. QED
          BY <3>2, <5>1 DEF WorthIt
      <4>2. CASE x # y
        <5>1. task'[x] = task[x]
          BY <1>3, <3>3, <4>2
        <5>2. QED
          BY <1>2, <2>1, <5>1 DEF WorthIt, Fresh
      <4>3. QED
        BY <4>1, <4>2
    <3>6. QED
      BY <3>4, <3>5
  <2>4. QED
    BY <1>4, <2>2, <2>3
<1>6. ASSUME NEW q \in Attempts PROVE OpenSeen(phase[q], seen[q])'
  <2>1. CASE q = r
    <3>1. phase'[q] = p
      BY <1>1, <1>3, <2>1
    <3>2. QED
      BY <1>1, <3>1 DEF OpenSeen
  <2>2. CASE q # r
    <3>1. phase'[q] = phase[q]
      BY <1>1, <1>3, <2>2
    <3>2. QED
      BY <1>2, <1>3, <3>1 DEF OpenSeen, Fresh, SeenIsOpen
  <2>3. QED
    BY <2>1, <2>2
<1>7. BreakerTypeOK'
  BY <1>1, <1>2, <1>3, <1>5 DEF BreakerTypeOK
<1>8. KeyLasts'
  BY <1>2, <1>3 DEF KeyLasts
<1>9. QED
  BY <1>5, <1>6, <1>7, <1>8 DEF BreakerInv, SeenIsOpen, TasksAreWorthIt

LEMMA RecordingKeeps ==
  ASSUME BreakerInv, NEW x \in Tasks, Recording(x)
  PROVE  BreakerInv'
<1>1. /\ BreakerTypeOK /\ store \in BreakerState /\ task \in [Tasks -> Task] /\ task[x] \in Task
      /\ task[x].state \in BreakerState /\ task[x].retries \in 0..MaxRetries - 1 /\ x[1] \in Attempts
  BY BreakerTypes DEF BreakerInv, Tasks
<1>2. CASE Load(x)
  <2>1. UNCHANGED <<store, config, phase, seen>>
    BY <1>2 DEF Load
  <2>2. CASE To(x, "done")
    <3>1. PICK t : t = [[task[x] EXCEPT !.step = "done"] EXCEPT !.state = ClosedState]
      OBVIOUS
    <3>2. t \in Task /\ t.step = "done"
      BY <1>1, <3>1, ClosedStateType DEF Task
    <3>3. task' = [task EXCEPT ![x] = t]
      BY <1>1, <2>2, <3>1 DEF To
    <3>4. WorthIt(t)'
      BY <3>2 DEF WorthIt
    <3>5. QED
      BY <2>1, <3>2, <3>3, <3>4, StoreStays, TaskKeeps
  <2>3. CASE ~Ignores(x) /\ task' = [task EXCEPT ![x].step = "cas", ![x].state = store]
    <3>1. PICK t : t = [[task[x] EXCEPT !.step = "cas"] EXCEPT !.state = store]
      OBVIOUS
    <3>2. t \in Task /\ t.step = "cas" /\ t.state = store /\ t.success = task[x].success
      BY <1>1, <3>1 DEF Task
    <3>3. task' = [task EXCEPT ![x] = t]
      BY <1>1, <2>3, <3>1
    <3>4. store.state = "half-open" \/ (store.state = "closed" /\ ~t.success)
      BY <1>1, <2>3, <3>2, RecordIs DEF Ignores
    <3>5. store.version <= store.version
      BY <1>1, RecordIs
    <3>6. WorthIt(t)'
      BY <2>1, <3>2, <3>4, <3>5 DEF WorthIt, Fresh
    <3>7. QED
      BY <2>1, <3>2, <3>3, <3>6, StoreStays, TaskKeeps
  <2>4. QED
    BY <1>2, <2>2, <2>3 DEF Load
<1>3. CASE RecordSuccess(x) \/ RecordFailure(x)
  <2>1. PICK n \in {Closed(task[x].state), AfterFailure(task[x].state, x[1])} : Cas(task[x].state, n)
    BY <1>3 DEF RecordSuccess, RecordFailure
  <2>2. n \in BreakerState
    BY <1>1, <2>1, NextRecords, FailedIs
  <2>3. store' \in BreakerState /\ KeyLasts' /\ \A s \in BreakerState : Fresh(s) => Fresh(s)'
    BY <1>1, <2>1, <2>2, CasKeeps
  <2>4. UNCHANGED <<config, phase, seen>>
    BY <1>3 DEF RecordSuccess, RecordFailure
  <2>5. CASE To(x, "done")
    <3>1. PICK t : t = [[task[x] EXCEPT !.step = "done"] EXCEPT !.state = ClosedState]
      OBVIOUS
    <3>2. t \in Task /\ t.step = "done"
      BY <1>1, <3>1, ClosedStateType DEF Task
    <3>3. task' = [task EXCEPT ![x] = t]
      BY <1>1, <2>5, <3>1 DEF To
    <3>4. WorthIt(t)'
      BY <3>2 DEF WorthIt
    <3>5. QED
      BY <2>3, <2>4, <3>2, <3>3, <3>4, TaskKeeps
  <2>6. CASE /\ task[x].retries + 1 # MaxRetries
             /\ task' = [task EXCEPT ![x].step = "load", ![x].state = ClosedState,
                                     ![x].retries = @ + 1]
    <3>1. PICK c, k, t : /\ c = ClosedState /\ k = task[x].retries + 1
                         /\ t = [task[x] EXCEPT !.step = "load", !.state = c, !.retries = k]
      OBVIOUS
    <3>2. t \in Task /\ t.step = "load"
      <4>1. k \in 0..MaxRetries - 1
        <5>1. PICK m : m = task[x].retries
          OBVIOUS
        <5>2. m \in 0..MaxRetries - 1 /\ m + 1 # MaxRetries /\ k = m + 1
          BY <1>1, <2>6, <3>1, <5>1
        <5>3. QED
          BY <5>2, Configured
      <4>2. QED
        BY <1>1, <3>1, <4>1, ClosedStateType DEF Task
    <3>3. task' = [task EXCEPT ![x] = t]
      BY <1>1, <2>6, <3>1 DEF Task
    <3>4. WorthIt(t)'
      BY <3>2 DEF WorthIt
    <3>5. QED
      BY <2>3, <2>4, <3>2, <3>3, <3>4, TaskKeeps
  <2>7. QED
    BY <1>3, <2>5, <2>6 DEF RecordSuccess, RecordFailure
<1>4. QED
  BY <1>2, <1>3 DEF Recording

\* The failures of a record one unit of time later.
LEMMA OlderIs ==
  ASSUME NEW f \in FailureAges
  PROVE  /\ Older(f) \in FailureAges /\ DOMAIN Older(f) = DOMAIN f
         /\ \A r \in DOMAIN f : /\ f[r] \in Nat
                                /\ Older(f)[r] = IF f[r] > WindowMs THEN f[r] ELSE f[r] + 1
<1>1. /\ DOMAIN f \subseteq Attempts /\ \A r \in DOMAIN f : f[r] \in 0..WindowMs + 1
  BY FailuresAre
<1>2. PICK g : g = Older(f)
  OBVIOUS
<1>3. g = [r \in DOMAIN f |-> IF f[r] > WindowMs THEN f[r] ELSE f[r] + 1]
  BY <1>2 DEF Older
<1>4. DOMAIN g = DOMAIN f /\ g = [r \in DOMAIN g |-> g[r]]
  BY <1>3
<1>5. \A r \in DOMAIN f : g[r] \in 0..WindowMs + 1
  BY <1>1, <1>3, Configured
<1>6. g \in FailureAges
  BY <1>1, <1>4, <1>5, FailuresAre
<1>7. QED
  BY <1>1, <1>2, <1>3, <1>4, <1>6

LEMMA KeptIs ==
  ASSUME NEW s \in BreakerState
  PROVE  /\ Kept(s) \in BreakerState /\ Kept(s).state = s.state /\ Kept(s).version = s.version
         /\ Kept(s).ttl = Less(s.ttl) /\ Kept(s).cooling = Less(s.cooling)
         /\ Kept(s).failures = Older(s.failures)
<1>1. /\ s.failures \in FailureAges /\ s.cooling \in 0..Cooldown /\ s.ttl \in 0..Cooldown + WindowMs
  BY RecordIs
<1>2. Less(s.cooling) \in 0..Cooldown /\ Less(s.ttl) \in 0..Cooldown + WindowMs
  BY <1>1, Configured DEF Less
<1>3. Older(s.failures) \in FailureAges
  BY <1>1, OlderIs
<1>4. PICK a, b, f : a = Less(s.cooling) /\ b = Less(s.ttl) /\ f = Older(s.failures)
  OBVIOUS
<1>5. Kept(s) = [s EXCEPT !.ttl = b, !.cooling = a, !.failures = f]
  BY <1>4 DEF Kept
<1>6. QED
  BY <1>2, <1>3, <1>4, <1>5 DEF BreakerState

LEMMA TimeKeeps ==
  ASSUME BreakerInv, TimePasses
  PROVE  BreakerInv'
<1>1. BreakerTypeOK /\ store \in BreakerState /\ KeyLasts
  BY DEF BreakerInv, BreakerTypeOK
<1>2. /\ UNCHANGED <<config, phase, seen, task>> /\ store' = Later(store)
      /\ \A r \in Attempts : phase[r] # "deciding"
      /\ \A x \in Tasks : task[x].step \in {"none", "done"}
  BY DEF TimePasses, Quiet
<1>3. SeenIsOpen' /\ TasksAreWorthIt'
  BY <1>2 DEF SeenIsOpen, TasksAreWorthIt, OpenSeen, WorthIt
<1>4. store' \in BreakerState /\ KeyLasts'
  <2>1. CASE store' = ClosedState
    BY <2>1, ClosedStateType, EmptyIsFailures DEF KeyLasts, ClosedState
  <2>2. CASE ~(store.ttl <= 1) /\ store' = Kept(store)
    <3>1. /\ store' \in BreakerState /\ store'.ttl = Less(store.ttl)
          /\ store'.cooling = Less(store.cooling) /\ store'.failures = Older(store.failures)
      BY <1>1, <2>2, KeptIs
    <3>2. /\ store.ttl \in Nat /\ store.cooling \in Nat /\ store.failures \in FailureAges
      BY <1>1, RecordIs, Configured
    <3>3. store'.ttl = store.ttl - 1
      BY <2>2, <3>1, <3>2 DEF Less
    <3>4. store'.cooling > 0 => store'.ttl >= store'.cooling + WindowMs
      BY <1>1, <3>1, <3>2, <3>3, Configured DEF Less, KeyLasts
    <3>5. ASSUME NEW r \in DOMAIN store'.failures
          PROVE  store'.failures[r] > WindowMs \/ store'.failures[r] + store'.ttl >= Cooldown + WindowMs
      <4>1. /\ r \in DOMAIN store.failures /\ store.failures[r] \in Nat
            /\ store'.failures[r] = IF store.failures[r] > WindowMs THEN store.failures[r]
                                    ELSE store.failures[r] + 1
        BY <3>1, <3>2, <3>5, OlderIs
      <4>2. \/ store.failures[r] > WindowMs
            \/ store.failures[r] + store.ttl >= Cooldown + WindowMs
        BY <1>1, <4>1 DEF KeyLasts
      <4>3. PICK a, b : a = store.failures[r] /\ b = store'.failures[r]
        OBVIOUS
      <4>4. CASE a > WindowMs
        BY <4>1, <4>3, <4>4
      <4>5. CASE ~(a > WindowMs)
        BY <3>2, <3>3, <4>1, <4>2, <4>3, <4>5, Configured
      <4>6. QED
        BY <4>4, <4>5
    <3>6. QED
      BY <3>1, <3>4, <3>5 DEF KeyLasts
  <2>3. QED
    BY <1>2, <2>1, <2>2 DEF Later
<1>5. BreakerTypeOK'
  BY <1>1, <1>2, <1>4 DEF BreakerTypeOK
<1>6. QED
  BY <1>3, <1>4, <1>5 DEF BreakerInv

LEMMA BreakerStepKeeps ==
  ASSUME BreakerInv, [BreakerNext]_breakerVars
  PROVE  BreakerInv'
<1>1. CASE TimePasses
  BY <1>1, TimeKeeps
<1>2. ASSUME NEW r \in Attempts,
             Admission(r) \/ RefuseByLaterGate(r) \/ AttemptStart(r) \/ FirstChunk(r) \/ End(r)
      PROVE  BreakerInv'
  BY <1>2, AdmissionKeeps, SendingKeeps, AnswerKeeps
<1>3. ASSUME NEW x \in Tasks, Recording(x) PROVE BreakerInv'
  BY <1>3, RecordingKeeps
<1>4. CASE UNCHANGED breakerVars
  BY <1>4 DEF breakerVars, BreakerInv, BreakerTypeOK, SeenIsOpen, TasksAreWorthIt, OpenSeen,
                 WorthIt, Fresh, KeyLasts
<1>5. QED
  BY <1>1, <1>2, <1>3, <1>4 DEF BreakerNext

\* The invariant that the theorems of the breaker rest on.
THEOREM BreakerInvHolds == BreakerSpec => []BreakerInv
BY BreakerStarts, BreakerStepKeeps, PTL DEF BreakerSpec

\* The record of a host, what attempts have read of it and their recordings keep
\* their types; a recording is retried fewer times than CAS_MAX_RETRIES.
THEOREM BreakerTypeCorrect == BreakerSpec => []BreakerTypeOK
BY BreakerInvHolds, PTL DEF BreakerInv

\* What a step can make of the record.
StoreMoves ==
  \/ store' = store
  \/ TimePasses
  \/ store.state = "open" /\ store.cooling = 0
  \/ store.state = "half-open"
  \/ \E r \in Attempts :
       /\ store.state = "closed" /\ Cas(store, AfterFailure(store, r))

LEMMA BreakerStepMoves ==
  ASSUME BreakerInv, [BreakerNext]_breakerVars
  PROVE  StoreMoves
<1>1. /\ BreakerTypeOK /\ store \in BreakerState
      /\ \A r \in Attempts : seen[r] \in BreakerState /\ OpenSeen(phase[r], seen[r])
      /\ \A x \in Tasks : /\ task[x].state \in BreakerState /\ task[x].success \in BOOLEAN
                          /\ WorthIt(task[x])
  BY BreakerTypes DEF BreakerInv, SeenIsOpen, TasksAreWorthIt
<1>2. ASSUME NEW r \in Attempts, CasForAdmission(r) PROVE StoreMoves
  <2>1. PICK n : Cas(seen[r], n)
    BY <1>2 DEF CasForAdmission
  <2>2. CASE Matches(seen[r])
    <3>1. seen[r] = store /\ seen[r].state = "open" /\ seen[r].cooling = 0
      BY <1>1, <1>2, <2>2 DEF CasForAdmission, OpenSeen, Fresh, Matches
    <3>2. QED
      BY <3>1 DEF StoreMoves
  <2>3. CASE ~Matches(seen[r])
    BY <2>1, <2>3 DEF Cas, StoreMoves
  <2>4. QED
    BY <2>2, <2>3
<1>3. ASSUME NEW x \in Tasks, RecordSuccess(x) \/ RecordFailure(x) PROVE StoreMoves
  <2>1. PICK n : /\ Cas(task[x].state, n)
                 /\ ~task[x].success => n = AfterFailure(task[x].state, x[1])
    BY <1>3 DEF RecordSuccess, RecordFailure
  <2>2. CASE Matches(task[x].state)
    <3>1. /\ task[x].state = store
          /\ store.state = "half-open" \/ (store.state = "closed" /\ ~task[x].success)
      BY <1>1, <1>3, <2>2 DEF RecordSuccess, RecordFailure, WorthIt, Fresh, Matches
    <3>2. x[1] \in Attempts
      BY DEF Tasks
    <3>3. QED
      BY <2>1, <3>1, <3>2 DEF StoreMoves
  <2>3. CASE ~Matches(task[x].state)
    BY <2>1, <2>3 DEF Cas, StoreMoves
  <2>4. QED
    BY <2>2, <2>3
<1>4. ASSUME NEW r \in Attempts,
             LoadForAdmission(r) \/ RefuseByLaterGate(r) \/ AttemptStart(r) \/ FirstChunk(r) \/ End(r)
      PROVE  StoreMoves
  BY <1>4 DEF LoadForAdmission, RefuseByLaterGate, AttemptStart, FirstChunk, End, StoreMoves
<1>5. ASSUME NEW x \in Tasks, Load(x) PROVE StoreMoves
  BY <1>5 DEF Load, StoreMoves
<1>6. CASE UNCHANGED breakerVars
  BY <1>6 DEF breakerVars, StoreMoves
<1>7. CASE TimePasses
  BY <1>7 DEF StoreMoves
<1>8. QED
  BY <1>2, <1>3, <1>4, <1>5, <1>6, <1>7 DEF BreakerNext, Admission, Recording

\* An open breaker stays open until its cooldown is over (breaker.ts
\* breakerCanRequest, breakerRecordSuccess, breakerRecordFailure), however the
\* recordings of any number of attempts interleave, and its key does not expire
\* before.
THEOREM OpenStays == BreakerSpec => OpenUntilCooled
<1>1. ASSUME BreakerInv, [BreakerNext]_breakerVars, store.state = "open", store.cooling > 0
      PROVE  store'.state = "open"
  <2>1. store \in BreakerState /\ KeyLasts
    BY <1>1 DEF BreakerInv, BreakerTypeOK
  <2>2. store.cooling \in Nat /\ store.cooling # 0 /\ store.ttl \in Nat
    BY <1>1, <2>1, RecordIs, Configured
  <2>3. CASE TimePasses
    <3>1. ~(store.ttl <= 1)
      BY <1>1, <2>1, <2>2, Configured DEF KeyLasts
    <3>2. store' = Kept(store)
      BY <2>3, <3>1 DEF TimePasses, Later
    <3>3. QED
      BY <1>1, <2>1, <3>2, KeptIs
  <2>4. StoreMoves
    BY <1>1, BreakerStepMoves
  <2>5. QED
    BY <1>1, <2>2, <2>3, <2>4 DEF StoreMoves
<1>2. BreakerInv /\ [BreakerNext]_breakerVars =>
        [store.state = "open" /\ store.cooling > 0 => store'.state = "open"]_store
  BY <1>1
<1>3. QED
  BY <1>2, BreakerInvHolds, PTL DEF BreakerSpec, OpenUntilCooled

\* While the breaker is closed, a recorded failure leaves the record only by age
\* (breaker.ts breakerRecordFailure): recordings that overtake each other
\* overwrite none.
THEOREM FailuresStay == BreakerSpec => NoFailureIsLost
<1>1. ASSUME BreakerInv, [BreakerNext]_breakerVars, store.state = "closed", store'.state = "closed"
      PROVE  store' = store \/ DOMAIN Recent(Older(store.failures)) \subseteq DOMAIN store'.failures
  <2>1. store \in BreakerState /\ KeyLasts /\ store.failures \in FailureAges
    BY <1>1, RecordIs DEF BreakerInv, BreakerTypeOK
  <2>2. /\ DOMAIN Recent(Older(store.failures))
             = {r \in DOMAIN store.failures : Older(store.failures)[r] <= WindowMs}
        /\ \A r \in DOMAIN store.failures :
             /\ store.failures[r] \in Nat
             /\ Older(store.failures)[r] = IF store.failures[r] > WindowMs THEN store.failures[r]
                                           ELSE store.failures[r] + 1
    BY <2>1, OlderIs DEF Recent, Restrict
  <2>3. DOMAIN Recent(Older(store.failures))
          \subseteq {r \in DOMAIN store.failures : store.failures[r] <= WindowMs}
    <3>1. ASSUME NEW r \in DOMAIN store.failures, Older(store.failures)[r] <= WindowMs
          PROVE  store.failures[r] <= WindowMs
      BY <2>2, <3>1, Configured
    <3>2. QED
      BY <2>2, <3>1
  <2>4. CASE TimePasses
    <3>1. CASE store' = Kept(store)
      BY <2>1, <2>2, <3>1, KeptIs, OlderIs
    <3>2. CASE store.ttl <= 1
      <4>1. ASSUME NEW r \in DOMAIN store.failures PROVE Older(store.failures)[r] > WindowMs
        <5>1. /\ store.failures[r] \in Nat
              /\ Older(store.failures)[r] = IF store.failures[r] > WindowMs THEN store.failures[r]
                                            ELSE store.failures[r] + 1
          BY <2>2
        <5>2. \/ store.failures[r] > WindowMs
              \/ store.failures[r] + store.ttl >= Cooldown + WindowMs
          BY <2>1 DEF KeyLasts
        <5>3. PICK a, b, d : a = store.failures[r] /\ b = Older(store.failures)[r] /\ d = store.ttl
          OBVIOUS
        <5>4. d \in Nat /\ d <= 1
          BY <2>1, <3>2, <5>3, RecordIs, Configured
        <5>5. CASE a > WindowMs
          BY <5>1, <5>3, <5>5
        <5>6. CASE ~(a > WindowMs)
          BY <5>1, <5>2, <5>3, <5>4, <5>6, Configured
        <5>7. QED
          BY <5>3, <5>5, <5>6
      <4>2. ASSUME NEW r \in DOMAIN store.failures, Older(store.failures)[r] <= WindowMs PROVE FALSE
        <5>1. Older(store.failures)[r] > WindowMs /\ Older(store.failures)[r] \in Int
          BY <2>2, <4>1
        <5>2. QED
          BY <4>2, <5>1, Configured
      <4>3. DOMAIN Recent(Older(store.failures)) = {}
        BY <2>2, <4>2
      <4>4. QED
        BY <4>3
    <3>3. QED
      BY <2>4, <3>1, <3>2 DEF TimePasses, Later
  <2>5. ASSUME NEW r \in Attempts, Cas(store, AfterFailure(store, r)), store' # store
        PROVE  DOMAIN Recent(Older(store.failures)) \subseteq DOMAIN store'.failures
    <3>1. PICK n \in BreakerState : n = AfterFailure(store, r)
      BY <2>1, FailedIs
    <3>2. store'.state = n.state /\ store'.failures = n.failures
      BY <2>1, <2>5, <3>1, CasIs
    <3>3. DOMAIN n.failures = {q \in DOMAIN store.failures : store.failures[q] <= WindowMs} \cup {r}
      BY <1>1, <2>1, <3>1, <3>2, FailedIs
    <3>4. QED
      BY <2>3, <3>2, <3>3
  <2>6. StoreMoves
    BY <1>1, BreakerStepMoves
  <2>7. QED
    BY <1>1, <2>4, <2>5, <2>6 DEF StoreMoves
<1>2. BreakerInv /\ [BreakerNext]_breakerVars =>
        [store.state = "closed" /\ store'.state = "closed"
           => DOMAIN Recent(Older(store.failures)) \subseteq DOMAIN store'.failures]_store
  BY <1>1
<1>3. QED
  BY <1>2, BreakerInvHolds, PTL DEF BreakerSpec, NoFailureIsLost

\* Of all the attempts that find a cooled breaker one is admitted (breaker.ts
\* breakerCanRequest): it is the one that turns the breaker half-open or closed.
THEOREM ProbesAreSingle == BreakerSpec => OneProbe
<1> DEFINE Let(r) == phase[r] # "admitted" /\ phase'[r] = "admitted" =>
                       \/ store.state = "closed"
                       \/ store.state = "open" /\ store.cooling = 0 /\ store'.state # "open"
<1>1. ASSUME BreakerInv, [BreakerNext]_breakerVars, NEW r \in Attempts,
             phase[r] # "admitted", phase'[r] = "admitted"
      PROVE  \/ store.state = "closed"
             \/ store.state = "open" /\ store.cooling = 0 /\ store'.state # "open"
  <2>1. /\ BreakerTypeOK /\ store \in BreakerState /\ phase \in [Attempts -> Phases]
        /\ seen[r] \in BreakerState /\ OpenSeen(phase[r], seen[r])
    BY <1>1, BreakerTypes DEF BreakerInv, SeenIsOpen
  <2>2. ASSUME NEW q \in Attempts, NEW p, Goes(q, p) PROVE q = r /\ p = "admitted"
    BY <1>1, <2>1, <2>2 DEF Goes
  <2>3. phase' # phase
    BY <1>1
  <2>4. ~TimePasses /\ ~UNCHANGED breakerVars /\ \A x \in Tasks : ~Recording(x)
    BY <2>3 DEF TimePasses, breakerVars, Recording, Load, RecordSuccess, RecordFailure
  <2>5. \A q \in Attempts : ~RefuseByLaterGate(q) /\ ~AttemptStart(q) /\ ~FirstChunk(q) /\ ~End(q)
    <3>1. SUFFICES ASSUME NEW q \in Attempts,
                          RefuseByLaterGate(q) \/ AttemptStart(q) \/ FirstChunk(q) \/ End(q)
                   PROVE  FALSE
      OBVIOUS
    <3>2. PICK p \in {"refused", "sent", "streaming", "ended"} : Goes(q, p)
      BY <3>1 DEF RefuseByLaterGate, AttemptStart, FirstChunk, End
    <3>3. QED
      BY <2>2, <3>2
  <2>6. Admission(r)
    <3>1. PICK q \in Attempts : Admission(q)
      BY <1>1, <2>4, <2>5 DEF BreakerNext
    <3>2. \E p : Goes(q, p)
      BY <2>1, <3>1, RecordIs DEF Admission, LoadForAdmission, CasForAdmission
    <3>3. QED
      BY <2>2, <3>1, <3>2
  <2>7. CASE LoadForAdmission(r)
    <3>1. store.state \in {"closed", "open", "half-open"}
      BY <2>1, RecordIs
    <3>2. ~Goes(r, "refused") /\ ~Goes(r, "deciding")
      BY <2>2
    <3>3. QED
      BY <2>7, <3>1, <3>2 DEF LoadForAdmission
  <2>8. CASE CasForAdmission(r)
    <3>1. Matches(seen[r])
      BY <2>2, <2>8 DEF CasForAdmission
    <3>2. seen[r] = store /\ store.state = "open" /\ store.cooling = 0
      BY <2>1, <2>8, <3>1 DEF CasForAdmission, OpenSeen, Fresh, Matches
    <3>3. PICK n : n = IF config.halfOpenProbe THEN HalfOpen(seen[r]) ELSE Closed(seen[r])
      OBVIOUS
    <3>4. n \in BreakerState /\ n.state \in {"half-open", "closed"}
      BY <2>1, <3>3, NextRecords
    <3>5. Cas(seen[r], n)
      BY <2>8, <3>3 DEF CasForAdmission
    <3>6. store'.state = n.state
      BY <2>1, <3>1, <3>4, <3>5, CasIs
    <3>7. QED
      BY <3>2, <3>4, <3>6
  <2>9. QED
    BY <2>6, <2>7, <2>8 DEF Admission
<1>2. BreakerInv /\ [BreakerNext]_breakerVars =>
        [\A r \in Attempts :
           phase[r] # "admitted" /\ phase'[r] = "admitted" =>
             \/ store.state = "closed"
             \/ store.state = "open" /\ store.cooling = 0 /\ store'.state # "open"]_breakerVars
  BY <1>1
<1>3. QED
  BY <1>2, BreakerInvHolds, PTL DEF BreakerSpec, OneProbe
=============================================================================
