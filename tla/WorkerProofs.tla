---------------------------- MODULE WorkerProofs ----------------------------
(***************************************************************************)
(* Theorems about two of the worker's jobs: about NoticeOutbox, for any     *)
(* sets of notices, channels and runs, any assignment of runs to processes *)
(* and any limits; and, at the end, about SettlementQueue, for any sets of *)
(* requests, enqueuers and consumers and any limits.                       *)
(***************************************************************************)
EXTENDS NoticeOutbox, SettlementQueue, TLAPS

Phases == {"idle", "ready", "sending", "recorded"}
LeaseStates == {"none", "live", "expired"}
RowStates == {"none", "pending", "sent", "given_up"}

-----------------------------------------------------------------------------
(* Records.  The enumerations stay folded while one is rebuilt.              *)

LEMMA Members ==
  /\ "idle" \in Phases /\ "ready" \in Phases
  /\ "sending" \in Phases /\ "recorded" \in Phases
  /\ "none" \in LeaseStates /\ "live" \in LeaseStates
  /\ "expired" \in LeaseStates
  /\ "none" \in RowStates /\ "pending" \in RowStates
  /\ "sent" \in RowStates /\ "given_up" \in RowStates
BY DEF Phases, LeaseStates, RowStates

LEMMA RowIs ==
  NoticeRow =
    [status : RowStates, attempts : Nat, delivered : SUBSET Channels,
     owner : Owners \cup {None}, token : Nat \cup {None}, lease : LeaseStates]
<1>1. {"none", "pending"} \cup Closed = RowStates
  BY DEF Closed, RowStates
<1>2. QED
  BY <1>1 DEF NoticeRow, LeaseStates

LEMMA RunIs ==
  Run =
    [phase : Phases, snapshot : SUBSET Channels, left : 0..LoopLimit,
     item : Notices \cup {None}, token : Nat, targets : SUBSET Channels,
     ok : SUBSET Channels, bad : SUBSET Channels]
BY DEF Run, Phases

LEMMA NewNoticeType == NewNotice \in NoticeRow
BY Members, RowIs DEF NewNotice

LEMMA IdleRunType == IdleRun \in Run
BY Members, RunIs, LimitsAssumption DEF IdleRun

\* A row that CompleteClaim or failClaim writes.
LEMMA ClosedRowType ==
  ASSUME NEW q \in NoticeRow, NEW s \in RowStates, NEW k \in Nat
  PROVE  [Unclaimed(q) EXCEPT !.status = s, !.attempts = k] \in NoticeRow
<1>1. Unclaimed(q) \in NoticeRow
  BY Members, RowIs DEF Unclaimed
<1>2. QED
  BY <1>1, RowIs

LEMMA FailedNoticeType ==
  ASSUME NEW q \in NoticeRow
  PROVE  /\ FailedNotice(q) \in NoticeRow
         /\ FailedNotice(q).delivered = q.delivered
         /\ FailedNotice(q).status \in {"given_up", q.status}
<1> DEFINE next == q.attempts + 1
           status == IF next >= MaxAttempts THEN "given_up" ELSE q.status
<1>1. next \in Nat /\ status \in RowStates
  BY Members, RowIs
<1>2. FailedNotice(q) =
        [Unclaimed(q) EXCEPT !.status = status, !.attempts = next]
  BY RowIs DEF FailedNotice, Unclaimed
<1>3. status \in {"given_up", q.status}
  OBVIOUS
<1> HIDE DEF next, status
<1>4. FailedNotice(q) \in NoticeRow
  <2>1. [Unclaimed(q) EXCEPT !.status = status, !.attempts = next] \in NoticeRow
    BY <1>1, ClosedRowType
  <2>2. QED
    BY <1>2, <2>1
<1>5. /\ FailedNotice(q).delivered = q.delivered
      /\ FailedNotice(q).status = status
  BY <1>2, RowIs DEF Unclaimed
<1>6. QED
  BY <1>3, <1>4, <1>5

LEMMA SentNoticeType ==
  ASSUME NEW q \in NoticeRow
  PROVE  /\ SentNotice(q) \in NoticeRow
         /\ SentNotice(q).delivered = q.delivered
         /\ SentNotice(q).status = "sent"
<1> DEFINE next == q.attempts + 1
<1>1. next \in Nat
  BY RowIs
<1> HIDE DEF next
<1>2. [Unclaimed(q) EXCEPT !.status = "sent", !.attempts = next] \in NoticeRow
  BY <1>1, Members, ClosedRowType
<1>3. LET s == [Unclaimed(q) EXCEPT !.status = "sent", !.attempts = next]
      IN  s.delivered = q.delivered /\ s.status = "sent"
  BY RowIs DEF Unclaimed
<1>4. QED
  BY <1>2, <1>3 DEF next, SentNotice

LEMMA ClaimedNoticeType ==
  ASSUME NEW q \in NoticeRow, NEW o \in Owners, NEW t \in Nat
  PROVE  /\ ClaimedNotice(q, o, t) \in NoticeRow
         /\ ClaimedNotice(q, o, t).status = q.status
         /\ ClaimedNotice(q, o, t).delivered = q.delivered
         /\ ClaimedNotice(q, o, t).token = t
BY Members, RowIs DEF ClaimedNotice

-----------------------------------------------------------------------------
(* Types                                                                     *)

LEMMA RunWithType ==
  ASSUME notice \in [Notices -> NoticeRow],
         NEW r \in Run, NEW n \in Notices, NEW t \in Nat, r.left > 0
  PROVE  /\ RunWith(r, n, t) \in Run
         /\ RunWith(r, n, t).phase = "sending"
         /\ RunWith(r, n, t).item = n /\ RunWith(r, n, t).token = t
         /\ RunWith(r, n, t).snapshot = r.snapshot
         /\ RunWith(r, n, t).targets = r.snapshot \ notice[n].delivered
         /\ RunWith(r, n, t).ok = r.ok /\ RunWith(r, n, t).bad = r.bad
<1> DEFINE rest == r.left - 1
           targets == r.snapshot \ notice[n].delivered
<1>1. rest \in 0..LoopLimit
  BY RunIs, LimitsAssumption
<1>2. targets \subseteq Channels
  BY RunIs
<1>3. PICK u : u = [r EXCEPT !.phase = "sending", !.left = rest, !.item = n]
  OBVIOUS
<1>4. PICK v : v = [u EXCEPT !.token = t, !.targets = targets]
  OBVIOUS
<1>5. RunWith(r, n, t) = v
  BY <1>3, <1>4 DEF RunWith, Targets
<1> HIDE DEF rest, targets
<1>6. /\ u \in Run /\ u.phase = "sending" /\ u.item = n
      /\ u.snapshot = r.snapshot /\ u.ok = r.ok /\ u.bad = r.bad
  BY <1>1, <1>3, Members, RunIs
<1>7. /\ v \in Run /\ v.phase = u.phase /\ v.item = u.item /\ v.token = t
      /\ v.targets = targets
      /\ v.snapshot = u.snapshot /\ v.ok = u.ok /\ v.bad = u.bad
  BY <1>2, <1>4, <1>6, RunIs
<1>8. QED
  BY <1>5, <1>6, <1>7 DEF targets

\* A run that sends or has recorded has a row in hand, an inserted one.
HandInv ==
  \A d \in Runs :
    IF run[d].phase \in {"sending", "recorded"}
    THEN run[d].item \in Notices /\ notice[run[d].item].status # "none"
    ELSE run[d].item = None /\ run[d].ok = {} /\ run[d].bad = {}

Typed == TypeOK /\ HandInv

LEMMA InitTyped == Init => Typed
BY NewNoticeType, IdleRunType
DEF Init, Typed, TypeOK, HandInv, NewNotice, IdleRun

LEMMA NextItemTyped ==
  ASSUME Typed, NEW d \in Runs, NextItem(d)
  PROVE  /\ run' \in [Runs -> Run]
         /\ run'[d].phase = "ready" /\ run'[d].item = None
         /\ run'[d].ok = {} /\ run'[d].bad = {}
         /\ \A e \in Runs \ {d} : run'[e] = run[e]
<1> DEFINE r == [run[d] EXCEPT !.phase = "ready", !.item = None,
                               !.targets = {}, !.ok = {}, !.bad = {}]
<1>1. run' = [run EXCEPT ![d] = r]
  BY DEF NextItem
<1>2. run \in [Runs -> Run]
  BY DEF Typed, TypeOK
<1>3. /\ r \in Run
      /\ r.phase = "ready" /\ r.item = None /\ r.ok = {} /\ r.bad = {}
  <2>1. PICK o \in Run : o = run[d]
    BY <1>2
  <2>2. PICK u : u = [o EXCEPT !.phase = "ready", !.item = None]
    OBVIOUS
  <2>3. u \in Run /\ u.phase = "ready" /\ u.item = None
    BY <2>2, Members, RunIs
  <2>4. PICK v : v = [u EXCEPT !.targets = {}, !.ok = {}, !.bad = {}]
    OBVIOUS
  <2>5. v \in Run /\ v.phase = "ready" /\ v.item = None /\ v.ok = {} /\ v.bad = {}
    BY <2>3, <2>4, RunIs
  <2>6. r = v
    BY <2>1, <2>2, <2>4
  <2>7. QED
    BY <2>5, <2>6
<1> HIDE DEF r
<1>4. QED
  BY <1>1, <1>2, <1>3

\* A run that is started, ended or lost.
LEMMA ResetTyped ==
  ASSUME Typed, NEW d \in Runs, NEW r \in Run, run' = [run EXCEPT ![d] = r],
         r.phase \in {"idle", "ready"}, r.item = None, r.ok = {}, r.bad = {},
         UNCHANGED <<notice, tokens, received>>, active' \subseteq Channels,
         faults' \in Nat
  PROVE  Typed'
<1>1. run' \in [Runs -> Run]
  BY DEF Typed, TypeOK
<1>2. TypeOK'
  BY <1>1 DEF Typed, TypeOK
<1>3. HandInv'
  BY DEF Typed, TypeOK, HandInv
<1>4. QED
  BY <1>2, <1>3 DEF Typed

\* A row changes and its runs do not.
LEMMA RowTyped ==
  ASSUME Typed, NEW n \in Notices, NEW q \in NoticeRow, q.status # "none",
         notice' = [notice EXCEPT ![n] = q],
         UNCHANGED <<tokens, active, run, received>>, faults' \in Nat
  PROVE  Typed'
<1>1. TypeOK'
  BY DEF Typed, TypeOK
<1>2. HandInv'
  BY DEF Typed, TypeOK, HandInv
<1>3. QED
  BY <1>1, <1>2 DEF Typed

\* A claim is closed, or found to be over, and the run goes on.
LEMMA CloseTyped ==
  ASSUME Typed, NEW d \in Runs, NextItem(d),
         run[d].phase \in {"sending", "recorded"},
         NEW q \in NoticeRow, q.status # "none",
         \/ notice' = [notice EXCEPT ![run[d].item] = q]
         \/ notice' = notice,
         UNCHANGED <<tokens, active, received, faults>>
  PROVE  Typed'
<1>1. run[d].item \in Notices
  BY DEF Typed, HandInv
<1>2. TypeOK'
  BY <1>1, NextItemTyped DEF Typed, TypeOK
<1>3. HandInv'
  BY <1>1, NextItemTyped DEF Typed, TypeOK, HandInv
<1>4. QED
  BY <1>2, <1>3 DEF Typed

LEMMA NextTyped == Typed /\ [Next]_vars => Typed'
<1> SUFFICES ASSUME Typed, [Next]_vars
             PROVE  Typed'
  OBVIOUS
<1>0. /\ notice \in [Notices -> NoticeRow] /\ run \in [Runs -> Run]
      /\ tokens \in [Notices -> Nat] /\ faults \in Nat
      /\ active \subseteq Channels
      /\ received \subseteq (Notices \X Channels)
  BY DEF Typed, TypeOK
<1>1. ASSUME NEW n \in Notices, Enqueue(n)
      PROVE  Typed'
  <2> DEFINE q == [notice[n] EXCEPT !.status = "pending"]
  <2>1. q \in NoticeRow /\ q.status # "none"
    BY <1>0, Members, RowIs
  <2>2. /\ notice' = [notice EXCEPT ![n] = q]
        /\ UNCHANGED <<tokens, active, run, received, faults>>
    BY <1>1, <1>0 DEF Enqueue
  <2> HIDE DEF q
  <2>3. QED
    BY <2>1, <2>2, <1>0, RowTyped
<1>2. ASSUME NEW n \in Notices, LeaseExpires(n)
      PROVE  Typed'
  <2> DEFINE q == [notice[n] EXCEPT !.lease = "expired"]
             k == IF \E d \in Runs : run[d].item = n /\ Fence(d) THEN 1 ELSE 0
  <2>1. q \in NoticeRow
    BY <1>0, Members, RowIs
  <2>2. q.status = notice[n].status
    BY <1>0, RowIs
  <2>3. k \in Nat /\ Fault(k)
    BY <1>2 DEF LeaseExpires
  <2>4. /\ notice' = [notice EXCEPT ![n] = q]
        /\ UNCHANGED <<tokens, active, run, received>>
    BY <1>2, <1>0 DEF LeaseExpires
  <2> HIDE DEF q, k
  <2>5. faults' \in Nat
    BY <2>3, <1>0 DEF Fault
  <2>6. TypeOK'
    BY <2>1, <2>4, <2>5, <1>0 DEF TypeOK
  <2>7. HandInv'
    BY <2>2, <2>4, <1>0 DEF Typed, HandInv
  <2>8. QED
    BY <2>6, <2>7 DEF Typed
<1>3. ASSUME NEW c \in Channels, PatchChannel(c)
      PROVE  Typed'
  BY <1>3 DEF PatchChannel, Typed, TypeOK, HandInv
<1>4. ASSUME NEW d \in Runs, StartRun(d)
      PROVE  Typed'
  <2> DEFINE r == [IdleRun EXCEPT !.phase = "ready", !.snapshot = active,
                                  !.left = LoopLimit]
  <2>0. LoopLimit \in 0..LoopLimit
    BY LimitsAssumption
  <2>1. r \in Run
    BY <2>0, <1>0, Members, RunIs DEF IdleRun
  <2>2. r.phase = "ready" /\ r.item = None /\ r.ok = {} /\ r.bad = {}
    BY DEF IdleRun
  <2>3. run' = [run EXCEPT ![d] = r] /\ UNCHANGED <<notice, tokens, active, received, faults>>
    BY <1>4 DEF StartRun
  <2> HIDE DEF r
  <2>4. QED
    BY <2>1, <2>2, <2>3, <1>0, ResetTyped
<1>5. ASSUME NEW d \in Runs, EndRun(d) \/ Crash(d)
      PROVE  Typed'
  <2>1. /\ run' = [run EXCEPT ![d] = IdleRun]
        /\ UNCHANGED <<notice, tokens, active, received>>
    BY <1>5 DEF EndRun, Crash
  <2>2. faults' \in Nat
    BY <1>5, <1>0 DEF EndRun, Crash, Fault
  <2>3. /\ IdleRun.phase = "idle" /\ IdleRun.item = None
        /\ IdleRun.ok = {} /\ IdleRun.bad = {}
    BY DEF IdleRun
  <2>4. QED
    BY <2>1, <2>2, <2>3, <1>0, IdleRunType, ResetTyped
<1>6. ASSUME NEW d \in Runs, NEW n \in Notices, Claim(d, n)
      PROVE  Typed'
  <2> DEFINE next == tokens[n] + 1
             q == ClaimedNotice(notice[n], RunOwner[d], next)
             r == RunWith(run[d], n, next)
  <2>1. next \in Nat
    BY <1>0
  <2>2. run[d].left > 0
    BY <1>6 DEF Claim, MayClaim
  <2>3. /\ notice' = [notice EXCEPT ![n] = q]
        /\ tokens' = [tokens EXCEPT ![n] = next]
        /\ run' = [run EXCEPT ![d] = r]
        /\ UNCHANGED <<active, received, faults>>
    BY <1>6 DEF Claim
  <2> HIDE DEF next
  <2>4. q \in NoticeRow /\ q.status = notice[n].status
    BY <2>1, <1>0, ClaimedNoticeType, RunsAssumption
  <2>5. r \in Run /\ r.phase = "sending" /\ r.item = n
    BY <2>1, <2>2, <1>0, RunWithType
  <2>6. notice[n].status # "none"
    BY <1>6 DEF Claim, Claimable
  <2> HIDE DEF q, r
  <2>7. TypeOK'
    BY <2>1, <2>3, <2>4, <2>5, <1>0 DEF TypeOK
  <2>8. HandInv'
    BY <2>3, <2>4, <2>5, <2>6, <1>0 DEF Typed, HandInv
  <2>9. QED
    BY <2>7, <2>8 DEF Typed
<1>7. ASSUME NEW d \in Runs, NEW c \in Channels,
             Deliver(d, c) \/ DeliverFails(d, c)
      PROVE  Typed'
  <2>1. run[d].item \in Notices
    BY <1>7 DEF Typed, HandInv, Deliver, DeliverFails
  <2>2. run' \in [Runs -> Run]
    BY <1>0, <1>7, RunIs DEF Deliver, DeliverFails
  <2>3. \A e \in Runs : run'[e].phase = run[e].phase /\ run'[e].item = run[e].item
    BY <1>0, <1>7, RunIs DEF Deliver, DeliverFails
  <2>4. \A e \in Runs \ {d} : run'[e] = run[e]
    BY <1>0, <1>7 DEF Deliver, DeliverFails
  <2>5. /\ received' \subseteq (Notices \X Channels)
        /\ UNCHANGED <<notice, tokens, active, faults>>
    BY <2>1, <1>0, <1>7 DEF Deliver, DeliverFails
  <2>6. TypeOK'
    BY <2>2, <2>5, <1>0 DEF TypeOK
  <2>7. HandInv'
    BY <2>3, <2>4, <2>5, <1>7 DEF Typed, HandInv, Deliver, DeliverFails
  <2>8. QED
    BY <2>6, <2>7 DEF Typed
<1>8. ASSUME NEW d \in Runs, RecordProgress(d)
      PROVE  Typed'
  <2> DEFINE n == run[d].item
             q == [notice[n] EXCEPT !.delivered = @ \cup Succeeded(d)]
             r == [run[d] EXCEPT !.phase = "recorded"]
  <2>1. n \in Notices /\ notice[n].status # "none" /\ run[d].phase = "sending"
    BY <1>8 DEF Typed, HandInv, RecordProgress
  <2>2. q \in NoticeRow /\ q.status = notice[n].status
    <3>1. PICK o \in NoticeRow : o = notice[n]
      BY <1>0, <2>1
    <3>2. PICK k \in Run : k = run[d]
      BY <1>0
    <3>3. Succeeded(d) \subseteq Channels
      BY <3>2, RunIs DEF Succeeded
    <3>4. PICK w \in SUBSET Channels : w = o.delivered \cup Succeeded(d)
      BY <3>1, <3>3, RowIs
    <3>5. PICK x : x = [o EXCEPT !.delivered = w]
      OBVIOUS
    <3>6. x \in NoticeRow /\ x.status = o.status
      BY <3>4, <3>5, RowIs
    <3>7. q = x
      BY <3>1, <3>4, <3>5
    <3>8. QED
      BY <3>1, <3>6, <3>7
  <2>3. r \in Run /\ r.phase = "recorded" /\ r.item = n
    <3>1. PICK k \in Run : k = run[d]
      BY <1>0
    <3>2. PICK x : x = [k EXCEPT !.phase = "recorded"]
      OBVIOUS
    <3>3. x \in Run /\ x.phase = "recorded" /\ x.item = k.item
      BY <3>2, Members, RunIs
    <3>4. QED
      BY <3>1, <3>2, <3>3
  <2>4. CASE NextItem(d) /\ notice' = notice
    BY <2>1, <2>4, <1>0, <1>8, CloseTyped DEF RecordProgress
  <2>5. CASE /\ run' = [run EXCEPT ![d] = r]
             /\ notice' = [notice EXCEPT ![n] = q] \/ notice' = notice
    <3>1. UNCHANGED <<tokens, active, received, faults>>
      BY <1>8 DEF RecordProgress
    <3> HIDE DEF n, q, r
    <3>2. TypeOK'
      BY <2>1, <2>2, <2>3, <2>5, <3>1, <1>0 DEF TypeOK
    <3>3. HandInv'
      BY <2>1, <2>2, <2>3, <2>5, <1>0 DEF Typed, HandInv
    <3>4. QED
      BY <3>2, <3>3 DEF Typed
  <2>6. QED
    <3>1. CASE run[d].ok = {} /\ run' = [run EXCEPT ![d].phase = "recorded"]
               /\ UNCHANGED notice
      BY <3>1, <2>5
    <3>2. CASE /\ notice' = [notice EXCEPT ![run[d].item].delivered =
                               @ \cup Succeeded(d)]
               /\ run' = [run EXCEPT ![d].phase = "recorded"]
      BY <3>2, <2>5, <1>0
    <3>3. CASE NextItem(d) /\ UNCHANGED notice
      BY <3>3, <2>4
    <3>4. QED
      BY <1>8, <3>1, <3>2, <3>3 DEF RecordProgress
<1>9. ASSUME NEW d \in Runs, CompleteClaim(d)
      PROVE  Typed'
  <2> DEFINE n == run[d].item
             q == SentNotice(notice[n])
  <2>1. run[d].phase \in {"sending", "recorded"}
    BY <1>9 DEF CompleteClaim, AllDelivered
  <2>2. n \in Notices
    BY <2>1 DEF Typed, HandInv
  <2>3. q \in NoticeRow /\ q.status # "none"
    BY <2>2, <1>0, SentNoticeType
  <2>4. /\ notice' = [notice EXCEPT ![n] = q] \/ notice' = notice
        /\ NextItem(d) /\ UNCHANGED <<tokens, active, received, faults>>
    BY <1>9 DEF CompleteClaim
  <2> HIDE DEF q
  <2>5. QED
    BY <2>1, <2>3, <2>4, CloseTyped
<1>10. ASSUME NEW d \in Runs, FailClaim(d)
       PROVE  Typed'
  <2> DEFINE n == run[d].item
  <2>1. run[d].phase \in {"sending", "recorded"}
    BY <1>10 DEF FailClaim
  <2>2. n \in Notices /\ notice[n].status # "none"
    BY <2>1 DEF Typed, HandInv
  <2>3. /\ FailedNotice(notice[n]) \in NoticeRow
        /\ FailedNotice(notice[n]).status # "none"
    BY <2>2, <1>0, FailedNoticeType
  <2>4. /\ \/ notice' = [notice EXCEPT ![n] = FailedNotice(notice[n])]
           \/ notice' = notice
        /\ NextItem(d) /\ UNCHANGED <<tokens, active, received, faults>>
    BY <1>10 DEF FailClaim
  <2>5. QED
    BY <2>1, <2>3, <2>4, CloseTyped
<1>11. CASE UNCHANGED vars
  BY <1>11 DEF vars, Typed, TypeOK, HandInv
<1>12. QED
  BY <1>1, <1>2, <1>3, <1>4, <1>5, <1>6, <1>7, <1>8, <1>9, <1>10, <1>11
  DEF Next, RunStep

\* Every variable keeps its type: a run never takes more rows than its limit
\* (loopBatchLimit), a row's columns keep their domains.
THEOREM TypeCorrect == Spec => []TypeOK
<1>1. Spec => []Typed
  BY InitTyped, NextTyped, PTL DEF Spec
<1>2. QED
  BY <1>1, PTL DEF Typed

-----------------------------------------------------------------------------
(* What a step leaves of a run and of a row.                                 *)

\* The run has row n in hand before and after the step, under the same claim.
Keeps(d, n) ==
  /\ run[d].item = n /\ run'[d].item = n
  /\ run'[d].token = run[d].token
  /\ run'[d].snapshot = run[d].snapshot /\ run'[d].targets = run[d].targets
  /\ run[d].ok \subseteq run'[d].ok /\ run[d].bad \subseteq run'[d].bad

Drops(d) == run'[d].item = None

\* A claim gives the run a row that it did not have.
Takes(d, n) ==
  /\ run[d].phase = "ready" /\ Claim(d, n)
  /\ tokens' = [tokens EXCEPT ![n] = tokens[n] + 1]
  /\ run'[d].item = n /\ run'[d].token = tokens[n] + 1
  /\ run'[d].phase = "sending" /\ run'[d].snapshot = run[d].snapshot
  /\ run'[d].targets = run[d].snapshot \ notice[n].delivered
  /\ run'[d].ok = {} /\ run'[d].bad = {}
  /\ \A e \in Runs \ {d} : run'[e] = run[e]
  /\ notice' = [notice EXCEPT
                  ![n] = ClaimedNotice(notice[n], RunOwner[d], tokens[n] + 1)]
  /\ UNCHANGED <<active, received, faults>>

LEMMA ClaimTakes ==
  ASSUME Typed, NEW d \in Runs, NEW n \in Notices, Claim(d, n)
  PROVE  Takes(d, n)
<1> DEFINE next == tokens[n] + 1
<1>1. next \in Nat /\ run[d] \in Run /\ notice \in [Notices -> NoticeRow]
  BY DEF Typed, TypeOK
<1>2. /\ run[d].phase = "ready" /\ run[d].left > 0
      /\ run' = [run EXCEPT ![d] = RunWith(run[d], n, next)]
      /\ tokens' = [tokens EXCEPT ![n] = next]
      /\ notice' = [notice EXCEPT
                      ![n] = ClaimedNotice(notice[n], RunOwner[d], next)]
      /\ UNCHANGED <<active, received, faults>>
  BY DEF Claim, MayClaim
<1> HIDE DEF next
<1>3. run' \in [Runs -> Run] /\ run'[d] = RunWith(run[d], n, next)
      /\ \A e \in Runs \ {d} : run'[e] = run[e]
  BY <1>1, <1>2, RunWithType DEF Typed, TypeOK
<1>4. run[d].ok = {} /\ run[d].bad = {}
  BY <1>2 DEF Typed, HandInv
<1>5. QED
  BY <1>1, <1>2, <1>3, <1>4, RunWithType DEF Takes, next

\* Every step that claims nothing.
Quiet ==
  /\ tokens' = tokens
  /\ \A d \in Runs : Drops(d) \/ Keeps(d, run[d].item)

LEMMA StepKinds ==
  ASSUME Typed, [Next]_vars
  PROVE  \/ Quiet
         \/ \E d \in Runs, n \in Notices : Takes(d, n)
<1>0. run \in [Runs -> Run]
  BY DEF Typed, TypeOK
<1>1. ASSUME run' = run, tokens' = tokens
      PROVE  Quiet
  BY <1>1 DEF Quiet, Keeps
<1>2. ASSUME NEW d \in Runs, NextItem(d), tokens' = tokens
      PROVE  Quiet
  BY <1>2, NextItemTyped DEF Quiet, Keeps, Drops
<1>3. ASSUME NEW d \in Runs, StartRun(d) \/ EndRun(d) \/ Crash(d)
      PROVE  Quiet
  <2> DEFINE r == [IdleRun EXCEPT !.phase = "ready", !.snapshot = active,
                                  !.left = LoopLimit]
  <2>1. IdleRun.item = None /\ r.item = None
    BY DEF IdleRun
  <2>2. /\ tokens' = tokens
        /\ run' = [run EXCEPT ![d] = IdleRun] \/ run' = [run EXCEPT ![d] = r]
    BY <1>3 DEF StartRun, EndRun, Crash
  <2> HIDE DEF r
  <2>3. run'[d].item = None /\ \A e \in Runs \ {d} : run'[e] = run[e]
    BY <1>0, <2>1, <2>2
  <2>4. QED
    BY <2>2, <2>3 DEF Quiet, Keeps, Drops
<1>4. ASSUME NEW d \in Runs, NEW c \in Channels,
             Deliver(d, c) \/ DeliverFails(d, c)
      PROVE  Quiet
  <2>1. /\ tokens' = tokens
        /\ \A e \in Runs \ {d} : run'[e] = run[e]
    BY <1>0, <1>4 DEF Deliver, DeliverFails
  <2>2. Keeps(d, run[d].item)
    BY <1>0, <1>4, RunIs DEF Deliver, DeliverFails, Keeps
  <2>3. QED
    BY <2>1, <2>2 DEF Quiet, Keeps
<1>5. ASSUME NEW d \in Runs, RecordProgress(d)
      PROVE  Quiet
  <2>1. CASE run' = [run EXCEPT ![d].phase = "recorded"]
    <3>1. Keeps(d, run[d].item) /\ \A e \in Runs \ {d} : run'[e] = run[e]
      BY <1>0, <2>1, RunIs DEF Keeps
    <3>2. QED
      BY <1>5, <3>1 DEF Quiet, Keeps, RecordProgress
  <2>2. CASE NextItem(d)
    BY <1>2, <1>5, <2>2 DEF RecordProgress
  <2>3. QED
    BY <1>5, <2>1, <2>2 DEF RecordProgress
<1>6. QED
  <2>1. ASSUME NEW d \in Runs, NEW n \in Notices, Claim(d, n)
        PROVE  Takes(d, n)
    BY <2>1, ClaimTakes
  <2>2. ASSUME NEW n \in Notices, Enqueue(n) \/ LeaseExpires(n)
        PROVE  Quiet
    BY <2>2, <1>1 DEF Enqueue, LeaseExpires
  <2>3. ASSUME NEW c \in Channels, PatchChannel(c)
        PROVE  Quiet
    BY <2>3, <1>1 DEF PatchChannel
  <2>4. ASSUME NEW d \in Runs, CompleteClaim(d) \/ FailClaim(d)
        PROVE  Quiet
    BY <2>4, <1>2 DEF CompleteClaim, FailClaim
  <2>5. CASE UNCHANGED vars
    BY <2>5, <1>1 DEF vars
  <2>6. QED
    BY <1>3, <1>4, <1>5, <2>1, <2>2, <2>3, <2>4, <2>5 DEF Next, RunStep

-----------------------------------------------------------------------------
(* The fence                                                                 *)

\* No two runs work on a row under the same token, and no token is in use
\* that was not handed out.
TokensInv ==
  /\ \A d \in Runs :
       run[d].item # None => run[d].token <= tokens[run[d].item]
  /\ \A d, e \in Runs :
       /\ run[d].item # None
       /\ run[d].item = run[e].item
       /\ run[d].token = run[e].token
       => d = e

LEMMA TokensImplyFence == TokensInv => OneLiveClaim
BY DEF TokensInv, OneLiveClaim, Fence

LEMMA NextTokens ==
  ASSUME Typed, [Next]_vars, TokensInv
  PROVE  TokensInv'
<1>1. CASE Quiet
  BY <1>1 DEF Quiet, Keeps, Drops, TokensInv
<1>2. ASSUME NEW d \in Runs, NEW n \in Notices, Takes(d, n)
      PROVE  TokensInv'
  <2>1. /\ tokens \in [Notices -> Nat]
        /\ \A e \in Runs : run[e].token \in Nat
        /\ \A e \in Runs : run[e].item \in Notices \cup {None}
    BY RunIs DEF Typed, TypeOK
  <2>2. \A e \in Runs \ {d} : run[e].item = n => run[e].token < run'[d].token
    BY <1>2, <2>1, NoneAssumption DEF Takes, TokensInv
  <2>3. \A e \in Runs : run'[e].item # None =>
          run'[e].token <= tokens'[run'[e].item]
    BY <1>2, <2>1 DEF Takes, TokensInv
  <2>4. \A e \in Runs \ {d} : run'[e].item = n => run'[e].token # run'[d].token
    BY <1>2, <2>1, <2>2 DEF Takes
  <2>5. QED
    BY <1>2, <2>3, <2>4 DEF Takes, TokensInv
<1>3. QED
  BY <1>1, <1>2, StepKinds

LEMMA SpecTokens == Spec => [](Typed /\ TokensInv)
<1>1. Init => TokensInv
  BY DEF Init, TokensInv, IdleRun
<1>2. Typed /\ TokensInv /\ [Next]_vars => (Typed /\ TokensInv)'
  BY NextTyped, NextTokens
<1>3. QED
  BY <1>1, <1>2, InitTyped, PTL DEF Spec

\* Whatever leases ran out, however many runs of one process claimed the row:
\* at most one run passes the fence of completeClaim, failClaim and
\* recordDeliveredChannels.
THEOREM ClaimsFenced == Spec => []OneLiveClaim
BY SpecTokens, TokensImplyFence, PTL

-----------------------------------------------------------------------------
(* What was delivered                                                        *)

\* A step of run d that touches the row in its hand.
Writes(d) == RecordProgress(d) \/ CompleteClaim(d) \/ FailClaim(d)

\* What a step may do to the rows: nothing to what was delivered and to "sent",
\* unless a run writes the row in its hand.
RowsStep ==
  \A n \in Notices :
    /\ notice'[n].delivered = notice[n].delivered
    /\ notice'[n].status = "sent" => notice[n].status = "sent"

LEMMA RowsSteps ==
  ASSUME Typed, [Next]_vars
  PROVE  RowsStep \/ \E d \in Runs : Writes(d)
<1>0. /\ notice \in [Notices -> NoticeRow] /\ tokens \in [Notices -> Nat]
      /\ RunOwner \in [Runs -> Owners]
  BY RunsAssumption DEF Typed, TypeOK
<1>1. ASSUME notice' = notice
      PROVE  RowsStep
  BY <1>1 DEF RowsStep
<1>2. ASSUME NEW n \in Notices, Enqueue(n) \/ LeaseExpires(n)
      PROVE  RowsStep
  BY <1>0, <1>2, RowIs DEF RowsStep, Enqueue, LeaseExpires
<1>3. ASSUME NEW d \in Runs, NEW n \in Notices, Claim(d, n)
      PROVE  RowsStep
  <2>1. tokens[n] + 1 \in Nat
    BY <1>0
  <2>2. Takes(d, n)
    BY <1>3, ClaimTakes
  <2>3. /\ ClaimedNotice(notice[n], RunOwner[d], tokens[n] + 1).delivered
             = notice[n].delivered
        /\ ClaimedNotice(notice[n], RunOwner[d], tokens[n] + 1).status
             = notice[n].status
    BY <1>0, <2>1, ClaimedNoticeType
  <2>4. QED
    BY <1>0, <2>2, <2>3 DEF Takes, RowsStep
<1>4. ASSUME NEW c \in Channels, PatchChannel(c)
      PROVE  RowsStep
  BY <1>1, <1>4 DEF PatchChannel
<1>5. ASSUME NEW d \in Runs, StartRun(d) \/ EndRun(d) \/ Crash(d)
      PROVE  RowsStep
  BY <1>1, <1>5 DEF StartRun, EndRun, Crash
<1>6. ASSUME NEW d \in Runs, NEW c \in Channels,
             Deliver(d, c) \/ DeliverFails(d, c)
      PROVE  RowsStep
  BY <1>1, <1>6 DEF Deliver, DeliverFails
<1>7. CASE UNCHANGED vars
  BY <1>1, <1>7 DEF vars
<1>8. QED
  BY <1>2, <1>3, <1>4, <1>5, <1>6, <1>7 DEF Next, RunStep, Writes

LEMMA ReceivedGrows ==
  ASSUME [Next]_vars
  PROVE  received \subseteq received'
BY DEF Next, RunStep, vars, Enqueue, LeaseExpires, PatchChannel, StartRun,
       EndRun, Claim, Deliver, DeliverFails, RecordProgress, CompleteClaim,
       FailClaim, Crash

\* The successes a run goes by did happen; the channels it leaves out have the
\* notice recorded; and when the results are in, it has one for each target.
ProgressInv ==
  \A d \in Runs : run[d].item # None =>
    /\ \A c \in run[d].ok : <<run[d].item, c>> \in received
    /\ run[d].snapshot \ run[d].targets \subseteq notice[run[d].item].delivered
    /\ run[d].phase = "recorded" => run[d].targets \subseteq run[d].ok \cup run[d].bad

\* The write of a run: what it records was received.
LEMMA WriteEffect ==
  ASSUME Typed, NEW d \in Runs, Writes(d), ProgressInv
  PROVE  LET n == run[d].item
         IN  /\ n \in Notices /\ run[d].phase \in {"sending", "recorded"}
             /\ \A m \in Notices \ {n} : notice'[m] = notice[m]
             /\ notice[n].delivered \subseteq notice'[n].delivered
             /\ \A c \in notice'[n].delivered \ notice[n].delivered :
                  <<n, c>> \in received
             /\ received' = received
<1> DEFINE n == run[d].item
<1>1. run[d].phase \in {"sending", "recorded"}
  BY DEF Writes, RecordProgress, CompleteClaim, AllDelivered, FailClaim
<1>2. /\ n \in Notices /\ n # None
      /\ notice \in [Notices -> NoticeRow]
  BY <1>1, NoneAssumption DEF Typed, HandInv, TypeOK
<1>3. received' = received
  BY DEF Writes, RecordProgress, CompleteClaim, FailClaim
<1>4. \A c \in run[d].ok : <<n, c>> \in received
  BY <1>2 DEF ProgressInv
<1>5. CASE RecordProgress(d)
  <2>1. \/ notice' = notice
        \/ notice' = [notice EXCEPT ![n].delivered = @ \cup run[d].ok]
    BY <1>5 DEF RecordProgress, Succeeded
  <2>2. QED
    BY <1>1, <1>2, <1>3, <1>4, <2>1, RowIs
<1>6. CASE CompleteClaim(d)
  <2>1. \/ notice' = notice
        \/ notice' = [notice EXCEPT ![n] = SentNotice(notice[n])]
    BY <1>6 DEF CompleteClaim
  <2>2. SentNotice(notice[n]).delivered = notice[n].delivered
    BY <1>2, SentNoticeType
  <2>3. QED
    BY <1>1, <1>2, <1>3, <2>1, <2>2
<1>7. CASE FailClaim(d)
  <2>1. \/ notice' = notice
        \/ notice' = [notice EXCEPT ![n] = FailedNotice(notice[n])]
    BY <1>7 DEF FailClaim
  <2>2. FailedNotice(notice[n]).delivered = notice[n].delivered
    BY <1>2, FailedNoticeType
  <2>3. QED
    BY <1>1, <1>2, <1>3, <2>1, <2>2
<1>8. QED
  BY <1>5, <1>6, <1>7 DEF Writes

LEMMA DeliveredGrows ==
  ASSUME Typed, [Next]_vars, ProgressInv, NEW n \in Notices
  PROVE  notice[n].delivered \subseteq notice'[n].delivered
<1>1. CASE RowsStep
  BY <1>1 DEF RowsStep
<1>2. ASSUME NEW d \in Runs, Writes(d)
      PROVE  notice[n].delivered \subseteq notice'[n].delivered
  BY <1>2, WriteEffect
<1>3. QED
  BY <1>1, <1>2, RowsSteps

LEMMA NextReal ==
  ASSUME Typed, [Next]_vars, ProgressInv, ProgressIsReal
  PROVE  ProgressIsReal'
<1>1. CASE RowsStep
  BY <1>1, ReceivedGrows DEF RowsStep, ProgressIsReal
<1>2. ASSUME NEW d \in Runs, Writes(d)
      PROVE  ProgressIsReal'
  BY <1>2, WriteEffect DEF ProgressIsReal
<1>3. QED
  BY <1>1, <1>2, RowsSteps

\* Where the results of a run come from.
ResultsStep(d) ==
  run'[d].item # None =>
    /\ \A c \in run'[d].ok : c \in run[d].ok \/ <<run'[d].item, c>> \in received'
    /\ run'[d].ok \cup run'[d].bad
         \subseteq run[d].ok \cup run[d].bad \cup run[d].targets
    /\ run'[d].phase = "recorded" =>
         run[d].phase = "recorded" \/ run[d].targets \subseteq run[d].ok \cup run[d].bad
    /\ run'[d].phase = "sending" =>
         run[d].phase = "sending" \/ \E n \in Notices : Takes(d, n)

LEMMA Results ==
  ASSUME Typed, [Next]_vars, NEW d \in Runs
  PROVE  ResultsStep(d)
<1>0. run \in [Runs -> Run] /\ run[d] \in Run
  BY DEF Typed, TypeOK
<1>1. ASSUME run'[d] = run[d]
      PROVE  ResultsStep(d)
  BY <1>1 DEF ResultsStep
<1>2. ASSUME run'[d].item = None
      PROVE  ResultsStep(d)
  BY <1>2 DEF ResultsStep
<1>3. ASSUME NEW e \in Runs, NextItem(e)
      PROVE  ResultsStep(d)
  BY <1>1, <1>2, <1>3, NextItemTyped
<1>4. ASSUME NEW e \in Runs, StartRun(e) \/ EndRun(e) \/ Crash(e)
      PROVE  ResultsStep(d)
  <2> DEFINE r == [IdleRun EXCEPT !.phase = "ready", !.snapshot = active,
                                  !.left = LoopLimit]
  <2>1. IdleRun.item = None /\ r.item = None
    BY DEF IdleRun
  <2>2. run' = [run EXCEPT ![e] = IdleRun] \/ run' = [run EXCEPT ![e] = r]
    BY <1>4 DEF StartRun, EndRun, Crash
  <2> HIDE DEF r
  <2>3. QED
    BY <1>0, <1>1, <1>2, <2>1, <2>2
<1>5. ASSUME NEW e \in Runs, NEW n \in Notices, Claim(e, n)
      PROVE  ResultsStep(d)
  <2>1. Takes(e, n)
    BY <1>5, ClaimTakes
  <2>2. CASE d = e
    BY <2>1, <2>2 DEF Takes, ResultsStep
  <2>3. QED
    BY <1>1, <2>1, <2>2 DEF Takes
<1>6. ASSUME NEW e \in Runs, NEW c \in Channels,
             Deliver(e, c) \/ DeliverFails(e, c)
      PROVE  ResultsStep(d)
  <2>1. CASE d = e /\ Deliver(d, c)
    <3>1. /\ run'[d].ok = run[d].ok \cup {c} /\ run'[d].bad = run[d].bad
          /\ run'[d].item = run[d].item /\ run'[d].phase = run[d].phase
      BY <1>0, <2>1, RunIs DEF Deliver
    <3>2. <<run[d].item, c>> \in received' /\ c \in run[d].targets
      BY <2>1 DEF Deliver, Unsent
    <3>3. QED
      BY <3>1, <3>2 DEF ResultsStep
  <2>2. CASE d = e /\ DeliverFails(d, c)
    <3>1. /\ run'[d].ok = run[d].ok /\ run'[d].bad = run[d].bad \cup {c}
          /\ run'[d].item = run[d].item /\ run'[d].phase = run[d].phase
      BY <1>0, <2>2, RunIs DEF DeliverFails
    <3>2. c \in run[d].targets
      BY <2>2 DEF DeliverFails, Unsent
    <3>3. QED
      BY <3>1, <3>2 DEF ResultsStep
  <2>3. CASE d # e
    BY <1>0, <1>1, <1>6, <2>3 DEF Deliver, DeliverFails
  <2>4. QED
    BY <1>6, <2>1, <2>2, <2>3
<1>7. ASSUME NEW e \in Runs, RecordProgress(e)
      PROVE  ResultsStep(d)
  <2>1. CASE run' = [run EXCEPT ![e].phase = "recorded"]
    <3>1. CASE d = e
      <4>1. /\ run'[d].ok = run[d].ok /\ run'[d].bad = run[d].bad
            /\ run'[d].phase = "recorded"
        BY <1>0, <2>1, <3>1, RunIs
      <4>2. run[d].targets \subseteq run[d].ok \cup run[d].bad
        BY <1>7, <3>1 DEF RecordProgress, Unsent
      <4>3. QED
        BY <4>1, <4>2 DEF ResultsStep
    <3>2. QED
      BY <1>0, <1>1, <2>1, <3>1
  <2>2. CASE NextItem(e)
    BY <1>3, <2>2
  <2>3. QED
    BY <1>7, <2>1, <2>2 DEF RecordProgress
<1>8. ASSUME NEW e \in Runs, CompleteClaim(e) \/ FailClaim(e)
      PROVE  ResultsStep(d)
  BY <1>3, <1>8 DEF CompleteClaim, FailClaim
<1>9. ASSUME run' = run
      PROVE  ResultsStep(d)
  BY <1>1, <1>9
<1>10. ASSUME NEW n \in Notices, Enqueue(n) \/ LeaseExpires(n)
       PROVE  ResultsStep(d)
  BY <1>9, <1>10 DEF Enqueue, LeaseExpires
<1>11. ASSUME NEW c \in Channels, PatchChannel(c)
       PROVE  ResultsStep(d)
  BY <1>9, <1>11 DEF PatchChannel
<1>12. CASE UNCHANGED vars
  BY <1>9, <1>12 DEF vars
<1>13. QED
  BY <1>4, <1>5, <1>6, <1>7, <1>8, <1>10, <1>11, <1>12 DEF Next, RunStep

LEMMA NextProgress ==
  ASSUME Typed, [Next]_vars, ProgressInv
  PROVE  ProgressInv'
<1> SUFFICES ASSUME NEW d \in Runs, run'[d].item # None
             PROVE  /\ \A c \in run'[d].ok : <<run'[d].item, c>> \in received'
                    /\ run'[d].snapshot \ run'[d].targets
                         \subseteq notice'[run'[d].item].delivered
                    /\ run'[d].phase = "recorded" =>
                         run'[d].targets \subseteq run'[d].ok \cup run'[d].bad
  BY DEF ProgressInv
<1>0. /\ run'[d].item \in Notices
      /\ \A n \in Notices : notice[n].delivered \subseteq notice'[n].delivered
      /\ received \subseteq received' /\ ResultsStep(d)
  <2>1. Typed'
    BY NextTyped
  <2>2. run'[d].item \in Notices
    BY <2>1 DEF Typed, HandInv
  <2>3. QED
    BY <2>2, DeliveredGrows, ReceivedGrows, Results
<1>1. CASE Keeps(d, run[d].item)
  <2>1. \A c \in run'[d].ok : <<run'[d].item, c>> \in received'
    BY <1>0, <1>1 DEF Keeps, ProgressInv, ResultsStep
  <2>2. run'[d].snapshot \ run'[d].targets
          \subseteq notice'[run'[d].item].delivered
    BY <1>0, <1>1 DEF Keeps, ProgressInv
  <2>3. run'[d].phase = "recorded" =>
          run'[d].targets \subseteq run'[d].ok \cup run'[d].bad
    BY <1>0, <1>1 DEF Keeps, ProgressInv, ResultsStep
  <2>4. QED
    BY <2>1, <2>2, <2>3
<1>2. ASSUME NEW n \in Notices, Takes(d, n)
      PROVE  /\ \A c \in run'[d].ok : <<run'[d].item, c>> \in received'
             /\ run'[d].snapshot \ run'[d].targets
                  \subseteq notice'[run'[d].item].delivered
             /\ run'[d].phase = "recorded" =>
                  run'[d].targets \subseteq run'[d].ok \cup run'[d].bad
  BY <1>0, <1>2 DEF Takes
<1>3. Drops(d) \/ Keeps(d, run[d].item) \/ \E n \in Notices : Takes(d, n)
  <2>1. CASE Quiet
    BY <2>1 DEF Quiet
  <2>2. ASSUME NEW e \in Runs, NEW n \in Notices, Takes(e, n)
        PROVE  Keeps(d, run[d].item) \/ \E m \in Notices : Takes(d, m)
    BY <2>2 DEF Takes, Keeps
  <2>3. QED
    BY <2>1, <2>2, StepKinds
<1>4. QED
  BY <1>1, <1>2, <1>3 DEF Drops

LEMMA SpecProgress ==
  Spec => [](Typed /\ TokensInv /\ ProgressInv /\ ProgressIsReal)
<1>1. Init => ProgressInv /\ ProgressIsReal
  BY DEF Init, ProgressInv, ProgressIsReal, IdleRun, NewNotice
<1>2. Typed /\ ProgressInv /\ ProgressIsReal /\ [Next]_vars
        => (ProgressInv /\ ProgressIsReal)'
  BY NextProgress, NextReal
<1>3. QED
  BY <1>1, <1>2, SpecTokens, PTL DEF Spec

\* A channel recorded in delivered_channels has received the notice: to skip
\* it on a retry loses nothing.
THEOREM ProgressReal == Spec => []ProgressIsReal
BY SpecProgress, PTL

\* A notice closed as sent has reached every channel the run that closed it
\* had listed, through that run or earlier ones (settleClaimedItem).
THEOREM SentIsReceived == Spec => SentReachedItsChannels
<1>1. ASSUME Typed, ProgressInv, ProgressIsReal, [Next]_vars,
             NEW n \in Notices, notice[n].status # "sent",
             notice[n].status' = "sent"
      PROVE  \E d \in Runs :
               /\ run[d].item = n /\ run'[d] # run[d]
               /\ \A c \in run[d].snapshot : <<n, c>> \in received
  <2>1. PICK d \in Runs : Writes(d)
    BY <1>1, RowsSteps DEF RowsStep
  <2>2. /\ run[d].item \in Notices /\ run[d].item # None
        /\ \A m \in Notices \ {run[d].item} : notice'[m] = notice[m]
        /\ notice \in [Notices -> NoticeRow]
    BY <1>1, <2>1, WriteEffect, NoneAssumption DEF Typed, TypeOK
  <2>3. run[d].item = n
    BY <1>1, <2>2
  <2>4. ~RecordProgress(d)
    <3>1. RecordProgress(d) =>
            \/ notice' = notice
            \/ notice' = [notice EXCEPT ![n].delivered = @ \cup Succeeded(d)]
      BY <2>3 DEF RecordProgress
    <3>2. QED
      BY <1>1, <2>2, <3>1, RowIs
  <2>5. ~FailClaim(d)
    <3>1. FailClaim(d) =>
            \/ notice' = notice
            \/ notice' = [notice EXCEPT ![n] = FailedNotice(notice[n])]
      BY <2>3 DEF FailClaim
    <3>2. FailedNotice(notice[n]).status # "sent"
      BY <1>1, <2>2, FailedNoticeType
    <3>3. QED
      BY <1>1, <2>2, <3>1, <3>2
  <2>6. AllDelivered(d) /\ NextItem(d)
    BY <2>1, <2>4, <2>5 DEF Writes, CompleteClaim
  <2>7. run'[d] # run[d]
    BY <1>1, <2>6, NextItemTyped DEF AllDelivered
  <2>8. \A c \in run[d].snapshot : <<n, c>> \in received
    <3>1. /\ \A c \in run[d].ok : <<n, c>> \in received
          /\ \A c \in run[d].snapshot \ run[d].targets : <<n, c>> \in received
      BY <1>1, <2>2, <2>3 DEF ProgressInv, ProgressIsReal
    <3>2. run[d].targets \subseteq run[d].ok
      BY <1>1, <2>2, <2>6 DEF AllDelivered, ProgressInv
    <3>3. QED
      BY <3>1, <3>2
  <2>9. QED
    BY <2>3, <2>7, <2>8
<1>2. Typed /\ ProgressInv /\ ProgressIsReal /\ [Next]_vars =>
        [\A n \in Notices :
           notice[n].status # "sent" /\ notice[n].status' = "sent" =>
             \E d \in Runs :
               /\ run[d].item = n /\ run'[d] # run[d]
               /\ \A c \in run[d].snapshot : <<n, c>> \in received]_vars
  BY <1>1
<1>3. QED
  BY <1>2, SpecProgress, PTL DEF Spec, SentReachedItsChannels

-----------------------------------------------------------------------------
(* What is not sent again                                                    *)

\* While its claim holds, a run has no target that is recorded: nobody else
\* can record one under the fence.
AheadInv ==
  \A d \in Runs :
    run[d].phase = "sending" /\ Fence(d) =>
      run[d].targets \cap notice[run[d].item].delivered = {}

\* A row with a live lease after a step that claims nothing had it before,
\* under the same claim, unless it is inserted by the step.
LeaseStep(n) ==
  notice'[n].lease = "live" /\ notice[n].status # "none" =>
    /\ notice[n].lease = "live"
    /\ notice'[n].owner = notice[n].owner /\ notice'[n].token = notice[n].token
    /\ notice'[n].status = "pending" => notice[n].status = "pending"

LEMMA Leases ==
  ASSUME Typed, [Next]_vars, Quiet, NEW n \in Notices
  PROVE  LeaseStep(n)
<1>0. notice \in [Notices -> NoticeRow] /\ tokens \in [Notices -> Nat]
  BY DEF Typed, TypeOK
<1>1. ASSUME notice'[n] = notice[n]
      PROVE  LeaseStep(n)
  BY <1>1 DEF LeaseStep
<1>2. ASSUME NEW m \in Notices, Enqueue(m)
      PROVE  LeaseStep(n)
  BY <1>0, <1>2 DEF Enqueue, LeaseStep
<1>3. ASSUME NEW m \in Notices, LeaseExpires(m)
      PROVE  LeaseStep(n)
  BY <1>0, <1>3, RowIs DEF LeaseExpires, LeaseStep
<1>4. ASSUME NEW d \in Runs, NEW m \in Notices, Claim(d, m)
      PROVE  FALSE
  <2>1. tokens' = [tokens EXCEPT ![m] = tokens[m] + 1]
    BY <1>4 DEF Claim
  <2>2. tokens[m] \in Nat /\ tokens'[m] = tokens[m] + 1
    BY <1>0, <2>1
  <2>3. QED
    BY <2>2 DEF Quiet
<1>5. ASSUME NEW d \in Runs, RecordProgress(d)
      PROVE  LeaseStep(n)
  <2>1. run[d].item \in Notices
    BY <1>5 DEF RecordProgress, Typed, HandInv
  <2>2. \/ notice' = notice
        \/ notice' = [notice EXCEPT ![run[d].item].delivered =
                        @ \cup Succeeded(d)]
    BY <1>5 DEF RecordProgress
  <2>3. QED
    BY <1>0, <2>1, <2>2, RowIs DEF LeaseStep
<1>6. ASSUME NEW d \in Runs, CompleteClaim(d) \/ FailClaim(d)
      PROVE  LeaseStep(n)
  <2> DEFINE m == run[d].item
  <2>1. m \in Notices
    BY <1>6 DEF CompleteClaim, AllDelivered, FailClaim, Typed, HandInv
  <2>2. \/ notice' = notice
        \/ notice' = [notice EXCEPT ![m] = SentNotice(notice[m])]
        \/ notice' = [notice EXCEPT ![m] = FailedNotice(notice[m])]
    BY <1>6 DEF CompleteClaim, FailClaim
  <2>3. SentNotice(notice[m]).lease = "none"
    BY <1>0, <2>1, RowIs DEF SentNotice, Unclaimed
  <2>4. FailedNotice(notice[m]).lease = "none"
    BY <1>0, <2>1, RowIs DEF FailedNotice, Unclaimed
  <2>5. QED
    BY <1>0, <1>1, <2>1, <2>2, <2>3, <2>4 DEF LeaseStep
<1>7. ASSUME notice' = notice
      PROVE  LeaseStep(n)
  BY <1>1, <1>7
<1>8. ASSUME NEW d \in Runs, NEW c \in Channels,
             Deliver(d, c) \/ DeliverFails(d, c)
      PROVE  LeaseStep(n)
  BY <1>7, <1>8 DEF Deliver, DeliverFails
<1>9. ASSUME NEW d \in Runs, StartRun(d) \/ EndRun(d) \/ Crash(d)
      PROVE  LeaseStep(n)
  BY <1>7, <1>9 DEF StartRun, EndRun, Crash
<1>10. ASSUME NEW c \in Channels, PatchChannel(c)
       PROVE  LeaseStep(n)
  BY <1>7, <1>10 DEF PatchChannel
<1>11. CASE UNCHANGED vars
  BY <1>7, <1>11 DEF vars
<1>12. QED
  BY <1>2, <1>3, <1>4, <1>5, <1>6, <1>8, <1>9, <1>10, <1>11
  DEF Next, RunStep

LEMMA NextAhead ==
  ASSUME Typed, TokensInv, ProgressInv, AheadInv, [Next]_vars
  PROVE  AheadInv'
<1> SUFFICES ASSUME NEW d \in Runs, run'[d].phase = "sending", Fence(d)'
             PROVE  run'[d].targets \cap notice'[run'[d].item].delivered = {}
  BY DEF AheadInv
<1> DEFINE n == run'[d].item
<1>0. /\ n \in Notices /\ n # None
      /\ notice \in [Notices -> NoticeRow] /\ tokens \in [Notices -> Nat]
      /\ run \in [Runs -> Run] /\ RunOwner \in [Runs -> Owners]
  BY NextTyped, NoneAssumption, RunsAssumption DEF Typed, TypeOK, HandInv
<1>1. ASSUME NEW e \in Runs, NEW m \in Notices, Takes(e, m)
      PROVE  run'[d].targets \cap notice'[n].delivered = {}
  <2> DEFINE next == tokens[m] + 1
             q == ClaimedNotice(notice[m], RunOwner[e], next)
  <2>1. next \in Nat /\ notice' = [notice EXCEPT ![m] = q]
    BY <1>0, <1>1 DEF Takes
  <2> HIDE DEF next
  <2>2. q.delivered = notice[m].delivered /\ q.token = next
    <3>1. next \in Nat /\ notice[m] \in NoticeRow /\ RunOwner[e] \in Owners
      BY <1>0, <2>1
    <3>2. QED
      BY <3>1, ClaimedNoticeType
  <2> HIDE DEF q
  <2>3. CASE d = e
    BY <1>0, <1>1, <2>1, <2>2, <2>3 DEF Takes
  <2>4. CASE d # e
    <3>1. run'[d] = run[d]
      BY <1>1, <2>4 DEF Takes
    <3>2. n # m
      <4>1. SUFFICES ASSUME n = m PROVE FALSE
        OBVIOUS
      <4>2. run[d].token <= tokens[m] /\ run[d].token \in Nat
        BY <1>0, <3>1, <4>1, RunIs DEF TokensInv
      <4>3. notice'[m].token = tokens[m] + 1
        BY <1>0, <2>1, <2>2 DEF next
      <4>4. notice'[m].token = run[d].token
        BY <3>1, <4>1 DEF Fence
      <4>5. QED
        BY <1>0, <4>2, <4>3, <4>4
    <3>3. notice'[n] = notice[n]
      BY <1>0, <2>1, <3>2
    <3>4. Fence(d) /\ run[d].phase = "sending"
      BY <3>1, <3>3 DEF Fence
    <3>5. QED
      BY <3>1, <3>3, <3>4 DEF AheadInv
  <2>5. QED
    BY <2>3, <2>4
<1>2. CASE Quiet /\ ~\E m \in Notices : Takes(d, m)
  <2>1. Keeps(d, n)
    BY <1>0, <1>2 DEF Quiet, Keeps, Drops
  <2>2. run[d].phase = "sending"
    BY <1>0, <1>2, Results DEF ResultsStep
  <2>3. notice[n].status # "none"
    BY <2>1, <2>2 DEF Keeps, Typed, HandInv
  <2>4. LeaseStep(n)
    BY <1>0, <1>2, Leases
  <2>5. Fence(d)
    BY <2>1, <2>3, <2>4 DEF Keeps, LeaseStep, Fence
  <2>6. run'[d].targets \cap notice[n].delivered = {}
    BY <2>1, <2>2, <2>5 DEF AheadInv, Keeps
  <2>7. notice'[n].delivered = notice[n].delivered
    <3>1. CASE RowsStep
      BY <1>0, <3>1 DEF RowsStep
    <3>2. ASSUME NEW e \in Runs, Writes(e)
          PROVE  notice'[n].delivered = notice[n].delivered
      <4>1. run[e].item \in Notices
            /\ \A m \in Notices \ {run[e].item} : notice'[m] = notice[m]
        BY <3>2, WriteEffect
      <4>2. CASE RecordProgress(e) /\ run[e].item = n /\ notice' # notice
        <5>1. Fence(e) /\ run' = [run EXCEPT ![e].phase = "recorded"]
          BY <4>2 DEF RecordProgress
        <5>2. OneLiveClaim
          BY TokensImplyFence
        <5>3. d = e
          BY <1>0, <2>1, <2>5, <4>2, <5>1, <5>2 DEF Keeps, OneLiveClaim
        <5>4. run'[e].phase = "recorded"
          BY <1>0, <5>1, RunIs
        <5>5. QED
          BY <5>3, <5>4
      <4>3. CASE CompleteClaim(e) /\ run[e].item = n
        BY <1>0, <4>3, SentNoticeType DEF CompleteClaim
      <4>4. CASE FailClaim(e) /\ run[e].item = n
        BY <1>0, <4>4, FailedNoticeType DEF FailClaim
      <4>5. QED
        BY <1>0, <3>2, <4>1, <4>2, <4>3, <4>4 DEF Writes
    <3>3. QED
      BY <3>1, <3>2, RowsSteps
  <2>8. QED
    BY <2>6, <2>7
<1>3. QED
  BY <1>1, <1>2, StepKinds

\* While its claim holds, a run sends nothing to a channel recorded as
\* delivered, by an earlier attempt or by another worker.
THEOREM RecordedStaysUnsent == Spec => RecordedIsNotResent
<1>1. Init => AheadInv
  BY DEF Init, AheadInv, IdleRun
<1>2. Typed /\ TokensInv /\ ProgressInv /\ AheadInv /\ [Next]_vars => AheadInv'
  BY NextAhead
<1>3. Spec => [](Typed /\ AheadInv)
  BY <1>1, <1>2, SpecProgress, PTL DEF Spec
<1>4. ASSUME Typed, AheadInv, [Next]_vars, NEW d \in Runs,
             run[d].phase = "sending", Fence(d),
             NEW c \in (run'[d].ok \cup run'[d].bad) \ (run[d].ok \cup run[d].bad)
      PROVE  c \notin notice[run[d].item].delivered
  <2>1. run'[d].item # None
    BY <1>4, NextTyped, NoneAssumption DEF Typed, HandInv
  <2>2. c \in run[d].targets
    BY <1>4, <2>1, Results DEF ResultsStep
  <2>3. QED
    BY <1>4, <2>2 DEF AheadInv
<1>5. Typed /\ AheadInv /\ [Next]_vars =>
        [\A d \in Runs :
           run[d].phase = "sending" /\ Fence(d) =>
             \A c \in (run'[d].ok \cup run'[d].bad) \ (run[d].ok \cup run[d].bad) :
               c \notin notice[run[d].item].delivered]_vars
  BY <1>4
<1>6. QED
  BY <1>3, <1>5, PTL DEF Spec, RecordedIsNotResent

-----------------------------------------------------------------------------
(* The life of a notice                                                      *)

\* Attempts are counted by the row itself: a row that waits has one left, so
\* that it can be claimed again, and one given up has used them all.  A closed
\* row is nobody's.
RowSound(q) ==
  /\ q.status \in {"none", "pending"} => q.attempts < MaxAttempts
  /\ q.status = "sent" => q.attempts <= MaxAttempts
  /\ q.status = "given_up" => q.attempts = MaxAttempts
  /\ q.status # "pending" => q.lease = "none"

AttemptsAreLeft == \A n \in Notices : RowSound(notice[n])

\* A closed row never moves again, an attempt is counted only by the update that
\* ends it, and what is recorded as delivered stays recorded.
NoticeGoes(q, k) ==
  /\ q.status \in Closed => k = q
  /\ \/ k.attempts = q.attempts
     \/ /\ k.attempts = q.attempts + 1
        /\ q.lease = "live" /\ k.lease = "none"
  /\ q.delivered \subseteq k.delivered

\* What the statements of the outbox write.
NoticeMoves(q, k) ==
  \/ k = q
  \/ q.status = "none" /\ k = [q EXCEPT !.status = "pending"]
  \/ q.lease = "live" /\ k = [q EXCEPT !.lease = "expired"]
  \/ /\ q.status = "pending"
     /\ \E o \in Owners, m \in Nat : k = ClaimedNotice(q, o, m)
  \/ /\ q.status = "pending"
     /\ \E D \in SUBSET Channels : k = [q EXCEPT !.delivered = q.delivered \cup D]
  \/ q.status = "pending" /\ q.lease = "live" /\ k \in {SentNotice(q), FailedNotice(q)}

\* A released row is a row, nobody's, that keeps what was delivered.
LEMMA UnclaimedRow ==
  ASSUME NEW q \in NoticeRow
  PROVE  /\ Unclaimed(q) \in NoticeRow
         /\ Unclaimed(q).lease = "none"
         /\ Unclaimed(q).delivered = q.delivered
<1>1. Unclaimed(q) \in NoticeRow
  BY Members, RowIs DEF Unclaimed
<1>2. QED
  BY <1>1, RowIs DEF Unclaimed

\* Every statement of the outbox keeps a row sound and moves it as it may go.
LEMMA MoveIsSound ==
  ASSUME NEW q \in NoticeRow, RowSound(q), NEW k, NoticeMoves(q, k)
  PROVE  RowSound(k) /\ NoticeGoes(q, k)
<1>0. q.attempts \in Nat /\ MaxAttempts \in Nat /\ q.status \in RowStates
  BY RowIs, LimitsAssumption
<1>1. ASSUME k.status = q.status, k.attempts = q.attempts, k.lease = q.lease,
             q.status \notin Closed, q.delivered \subseteq k.delivered
      PROVE  RowSound(k) /\ NoticeGoes(q, k)
  BY <1>1 DEF RowSound, NoticeGoes
<1>2. CASE k = q
  BY <1>2 DEF NoticeGoes
<1>3. CASE q.status = "none" /\ k = [q EXCEPT !.status = "pending"]
  <2>1. /\ k.status = "pending" /\ k.attempts = q.attempts /\ k.lease = q.lease
        /\ k.delivered = q.delivered
    BY <1>3, RowIs
  <2>2. QED
    BY <1>3, <2>1 DEF RowSound, NoticeGoes, Closed
<1>4. CASE q.lease = "live" /\ k = [q EXCEPT !.lease = "expired"]
  <2>1. /\ k.status = q.status /\ k.attempts = q.attempts /\ k.lease = "expired"
        /\ k.delivered = q.delivered
    BY <1>4, RowIs
  <2>2. q.status = "pending"
    BY <1>4 DEF RowSound
  <2>3. QED
    BY <2>1, <2>2 DEF RowSound, NoticeGoes, Closed
<1>5. ASSUME q.status = "pending", NEW o \in Owners, NEW m \in Nat,
             k = ClaimedNotice(q, o, m)
      PROVE  RowSound(k) /\ NoticeGoes(q, k)
  <2>1. k.status = q.status /\ k.attempts = q.attempts /\ k.delivered = q.delivered
    BY <1>5, RowIs DEF ClaimedNotice
  <2>2. QED
    BY <1>5, <2>1 DEF RowSound, NoticeGoes, Closed
<1>6. ASSUME q.status = "pending", NEW D \in SUBSET Channels,
             k = [q EXCEPT !.delivered = q.delivered \cup D]
      PROVE  RowSound(k) /\ NoticeGoes(q, k)
  <2>1. /\ k.status = q.status /\ k.attempts = q.attempts /\ k.lease = q.lease
        /\ k.delivered = q.delivered \cup D
    BY <1>6, RowIs
  <2>2. QED
    BY <1>1, <1>6, <2>1 DEF Closed
<1>7. CASE q.status = "pending" /\ q.lease = "live" /\ k = SentNotice(q)
  <2>1. PICK a \in Nat : a = q.attempts + 1
    BY <1>0
  <2>2. PICK u \in NoticeRow :
          u = Unclaimed(q) /\ u.lease = "none" /\ u.delivered = q.delivered
    BY UnclaimedRow
  <2>3. k.status = "sent" /\ k.attempts = a /\ k.lease = "none" /\ k.delivered = q.delivered
    <3>1. k = [u EXCEPT !.status = "sent", !.attempts = a]
      BY <1>7, <2>1, <2>2 DEF SentNotice
    <3>2. QED
      BY <2>2, <3>1, RowIs
  <2>4. a <= MaxAttempts
    BY <1>0, <1>7, <2>1 DEF RowSound
  <2>5. QED
    BY <1>7, <2>1, <2>3, <2>4 DEF RowSound, NoticeGoes, Closed
<1>8. CASE q.status = "pending" /\ q.lease = "live" /\ k = FailedNotice(q)
  <2>1. PICK a \in Nat : a = q.attempts + 1
    BY <1>0
  <2>2. PICK s \in RowStates : s = IF a >= MaxAttempts THEN "given_up" ELSE q.status
    BY <1>0, Members
  <2>3. PICK u \in NoticeRow :
          u = Unclaimed(q) /\ u.lease = "none" /\ u.delivered = q.delivered
    BY UnclaimedRow
  <2>4. k.status = s /\ k.attempts = a /\ k.lease = "none" /\ k.delivered = q.delivered
    <3>1. k = [u EXCEPT !.status = s, !.attempts = a]
      BY <1>8, <2>1, <2>2, <2>3 DEF FailedNotice
    <3>2. QED
      BY <2>3, <3>1, RowIs
  <2>5. q.attempts < MaxAttempts
    BY <1>8 DEF RowSound
  <2>6. \/ s = "given_up" /\ a = MaxAttempts
        \/ s = "pending" /\ a < MaxAttempts
    BY <1>0, <1>8, <2>1, <2>2, <2>5
  <2>7. QED
    BY <1>8, <2>1, <2>4, <2>6 DEF RowSound, NoticeGoes, Closed
<1>9. QED
  BY <1>2, <1>3, <1>4, <1>5, <1>6, <1>7, <1>8 DEF NoticeMoves

LEMMA NoticesMove ==
  ASSUME Typed, [Next]_vars
  PROVE  \A n \in Notices : NoticeMoves(notice[n], notice'[n])
<1>0. /\ notice \in [Notices -> NoticeRow] /\ tokens \in [Notices -> Nat]
      /\ RunOwner \in [Runs -> Owners] /\ run \in [Runs -> Run]
  BY RunsAssumption DEF Typed, TypeOK
<1>1. ASSUME notice' = notice
      PROVE  \A n \in Notices : NoticeMoves(notice[n], notice'[n])
  BY <1>1 DEF NoticeMoves
<1>2. ASSUME NEW m \in Notices, NEW k, NoticeMoves(notice[m], k),
             notice' = [notice EXCEPT ![m] = k]
      PROVE  \A n \in Notices : NoticeMoves(notice[n], notice'[n])
  <2>1. \A n \in Notices : notice'[n] = IF n = m THEN k ELSE notice[n]
    BY <1>0, <1>2
  <2>2. ASSUME NEW n \in Notices PROVE NoticeMoves(notice[n], notice'[n])
    <3>1. CASE n = m
      BY <1>2, <2>1, <3>1
    <3>2. CASE n # m
      BY <2>1, <3>2 DEF NoticeMoves
    <3>3. QED
      BY <3>1, <3>2
  <2>3. QED
    BY <2>2
<1>3. ASSUME NEW m \in Notices, Enqueue(m)
      PROVE  \A n \in Notices : NoticeMoves(notice[n], notice'[n])
  <2>1. PICK k : k = [notice[m] EXCEPT !.status = "pending"]
    OBVIOUS
  <2>2. notice' = [notice EXCEPT ![m] = k]
    BY <1>3, <2>1 DEF Enqueue
  <2>3. NoticeMoves(notice[m], k)
    BY <1>3, <2>1 DEF Enqueue, NoticeMoves
  <2>4. QED
    BY <1>2, <2>2, <2>3
<1>4. ASSUME NEW m \in Notices, LeaseExpires(m)
      PROVE  \A n \in Notices : NoticeMoves(notice[n], notice'[n])
  <2>1. PICK k : k = [notice[m] EXCEPT !.lease = "expired"]
    OBVIOUS
  <2>2. notice' = [notice EXCEPT ![m] = k] /\ notice[m].lease = "live"
    BY <1>4, <2>1 DEF LeaseExpires
  <2>3. NoticeMoves(notice[m], k)
    BY <2>1, <2>2 DEF NoticeMoves
  <2>4. QED
    BY <1>2, <2>2, <2>3
<1>5. ASSUME NEW d \in Runs, NEW m \in Notices, Claim(d, m)
      PROVE  \A n \in Notices : NoticeMoves(notice[n], notice'[n])
  <2>1. PICK o \in Owners, x \in Nat : o = RunOwner[d] /\ x = tokens[m] + 1
    BY <1>0
  <2>2. PICK k : k = ClaimedNotice(notice[m], o, x)
    OBVIOUS
  <2>3. notice' = [notice EXCEPT ![m] = k] /\ notice[m].status = "pending"
    BY <1>5, <2>1, <2>2 DEF Claim, Claimable
  <2>4. NoticeMoves(notice[m], k)
    BY <2>2, <2>3 DEF NoticeMoves
  <2>5. QED
    BY <1>2, <2>3, <2>4
<1>6. ASSUME NEW d \in Runs, Writes(d), notice' # notice
      PROVE  \A n \in Notices : NoticeMoves(notice[n], notice'[n])
  <2>1. run[d].phase \in {"sending", "recorded"}
    BY <1>6 DEF Writes, RecordProgress, CompleteClaim, AllDelivered, FailClaim
  <2>2. PICK m \in Notices : m = run[d].item
    BY <2>1 DEF Typed, HandInv
  <2>3. Fence(d)
    BY <1>6 DEF Writes, RecordProgress, CompleteClaim, FailClaim
  <2>4. notice[m].status = "pending" /\ notice[m].lease = "live"
    BY <2>2, <2>3 DEF Fence
  <2>5. PICK D \in SUBSET Channels : D = run[d].ok
    BY <1>0, RunIs
  <2>6. CASE RecordProgress(d)
    <3>1. PICK k : k = [notice[m] EXCEPT !.delivered = notice[m].delivered \cup D]
      OBVIOUS
    <3>2. notice' = [notice EXCEPT ![m] = k]
      BY <1>6, <2>2, <2>5, <2>6, <3>1 DEF RecordProgress, Succeeded
    <3>3. NoticeMoves(notice[m], k)
      BY <2>4, <3>1 DEF NoticeMoves
    <3>4. QED
      BY <1>2, <3>2, <3>3
  <2>7. CASE CompleteClaim(d)
    <3>1. notice' = [notice EXCEPT ![m] = SentNotice(notice[m])]
      BY <1>6, <2>2, <2>7 DEF CompleteClaim
    <3>2. NoticeMoves(notice[m], SentNotice(notice[m]))
      BY <2>4 DEF NoticeMoves
    <3>3. QED
      BY <1>2, <3>1, <3>2
  <2>8. CASE FailClaim(d)
    <3>1. notice' = [notice EXCEPT ![m] = FailedNotice(notice[m])]
      BY <1>6, <2>2, <2>8 DEF FailClaim
    <3>2. NoticeMoves(notice[m], FailedNotice(notice[m]))
      BY <2>4 DEF NoticeMoves
    <3>3. QED
      BY <1>2, <3>1, <3>2
  <2>9. QED
    BY <1>6, <2>6, <2>7, <2>8 DEF Writes
<1>7. ASSUME \/ \E c \in Channels : PatchChannel(c)
             \/ \E d \in Runs : StartRun(d) \/ EndRun(d) \/ Crash(d)
             \/ \E d \in Runs, c \in Channels : Deliver(d, c) \/ DeliverFails(d, c)
             \/ UNCHANGED vars
      PROVE  notice' = notice
  BY <1>7 DEF PatchChannel, StartRun, EndRun, Crash, Deliver, DeliverFails, vars
<1>8. QED
  BY <1>1, <1>3, <1>4, <1>5, <1>6, <1>7 DEF Next, RunStep, Writes

LEMMA SpecAttempts == Spec => [](Typed /\ AttemptsAreLeft)
<1>1. Init => AttemptsAreLeft
  BY LimitsAssumption DEF Init, AttemptsAreLeft, RowSound, NewNotice
<1>2. Typed /\ AttemptsAreLeft /\ [Next]_vars => (Typed /\ AttemptsAreLeft)'
  <2>1. SUFFICES ASSUME Typed, AttemptsAreLeft, [Next]_vars, NEW n \in Notices
                 PROVE  RowSound(notice'[n])
    BY NextTyped DEF AttemptsAreLeft
  <2>2. notice[n] \in NoticeRow /\ RowSound(notice[n])
    BY <2>1 DEF Typed, TypeOK, AttemptsAreLeft
  <2>3. QED
    BY <2>1, <2>2, NoticesMove, MoveIsSound
<1>3. QED
  BY <1>1, <1>2, InitTyped, PTL DEF Spec

\* No crash, lost lease or late run uses up the attempts of a notice without
\* closing it: what waits can be claimed again, and a notice is given up after
\* MaxAttempts attempts that a live claim reported as failed, no fewer
\* (failClaim and claimPending of notify-store.ts).
THEOREM NothingStranded == Spec => []AttemptsAreLeft
BY SpecAttempts, PTL

\* A notice that is closed stays as it was closed, whichever runs still hold it
\* in hand; attempts go up by one at the end of a live claim and never else; and
\* no channel recorded as delivered is forgotten (completeClaim, failClaim,
\* recordDeliveredChannels).
THEOREM NoticesEndOnce ==
  Spec => [][\A n \in Notices : NoticeGoes(notice[n], notice'[n])]_vars
<1>1. Typed /\ AttemptsAreLeft /\ [Next]_vars =>
        [\A n \in Notices : NoticeGoes(notice[n], notice'[n])]_vars
  <2>1. SUFFICES ASSUME Typed, AttemptsAreLeft, [Next]_vars, NEW n \in Notices
                 PROVE  NoticeGoes(notice[n], notice'[n])
    OBVIOUS
  <2>2. notice[n] \in NoticeRow /\ RowSound(notice[n])
    BY <2>1 DEF Typed, TypeOK, AttemptsAreLeft
  <2>3. QED
    BY <2>1, <2>2, NoticesMove, MoveIsSound
<1>2. QED
  BY <1>1, SpecAttempts, PTL DEF Spec

-----------------------------------------------------------------------------
(* The settlement queue.                                                     *)

\* Only an active job is locked, and one that may still run has attempts left.
SoundJob(j) ==
  /\ j.lock # Null <=> j.state = "active"
  /\ j.state \in Live => j.made < JobAttempts

JobsAreSound == \A r \in Requests : SoundJob(job[r])

\* A consumer at work has taken a job.
ConsumersHaveAJob == \A c \in Consumers : con[c].step # "idle" => con[c].id \in Requests

QueueInv == QueueTypeOK /\ JobsAreSound /\ ConsumersHaveAJob

LEMMA QueueBounds ==
  /\ JobAttempts \in Nat /\ JobAttempts > 0 /\ MaxSettlements \in Nat
  /\ MaxFailures \in Nat /\ \A c \in Consumers : c # Null
BY QueueAssumption

RowStatuses == {"open", "due", "claimed", "backoff", "final"}
JobStatuses == {"none"} \union Live \union Terminal
ConsumerSteps == {"idle", "claim", "extras", "batch", "single", "throw", "return"}
EnqueuerSteps == {"idle", "bulk", "get", "state", "remove", "add"}

LEMMA Statuses ==
  /\ "open" \in RowStatuses /\ "due" \in RowStatuses /\ "claimed" \in RowStatuses
  /\ "backoff" \in RowStatuses /\ "final" \in RowStatuses
  /\ "none" \in JobStatuses /\ "waiting" \in JobStatuses /\ "active" \in JobStatuses
  /\ "delayed" \in JobStatuses /\ "completed" \in JobStatuses /\ "failed" \in JobStatuses
  /\ "idle" \in ConsumerSteps /\ "claim" \in ConsumerSteps /\ "extras" \in ConsumerSteps
  /\ "batch" \in ConsumerSteps /\ "single" \in ConsumerSteps /\ "throw" \in ConsumerSteps
  /\ "return" \in ConsumerSteps
  /\ "idle" \in EnqueuerSteps /\ "bulk" \in EnqueuerSteps /\ "get" \in EnqueuerSteps
  /\ "state" \in EnqueuerSteps /\ "remove" \in EnqueuerSteps /\ "add" \in EnqueuerSteps
BY DEF RowStatuses, JobStatuses, ConsumerSteps, EnqueuerSteps, Live, Terminal

LEMMA RecordsAre ==
  /\ Row = [state : RowStatuses, holder : Consumers \union {Null}, attempts : 0..MaxSettlements]
  /\ Job = [state : JobStatuses, made : 0..JobAttempts, lock : Consumers \union {Null}]
  /\ Enqueuer = [step : EnqueuerSteps, todo : SUBSET Requests, id : Requests \union {Null},
                 recent : SUBSET Requests, seen : BOOLEAN]
  /\ Consumer = [step : ConsumerSteps, id : Requests \union {Null}, extras : SUBSET Requests]
BY DEF Row, Job, Enqueuer, Consumer, RowStatuses, JobStatuses, ConsumerSteps, EnqueuerSteps

LEMMA Empties ==
  /\ NoJob \in Job /\ SoundJob(NoJob) /\ NoBatch \in Enqueuer /\ NoWork \in Consumer
  /\ NoWork.step = "idle"
<1>1. NoJob \in Job
  BY QueueBounds, Statuses, RecordsAre DEF NoJob
<1>2. SoundJob(NoJob)
  BY DEF NoJob, SoundJob, Live
<1>3. NoBatch \in Enqueuer /\ NoWork \in Consumer /\ NoWork.step = "idle"
  BY Statuses, RecordsAre DEF NoBatch, NoWork
<1>4. QED
  BY <1>1, <1>2, <1>3

LEMMA QueueTypes ==
  ASSUME QueueInv
  PROVE  /\ row \in [Requests -> Row] /\ job \in [Requests -> Job]
         /\ enq \in [Enqueuers -> Enqueuer] /\ con \in [Consumers -> Consumer]
         /\ failures \in 0..MaxFailures
         /\ \A r \in Requests : row[r] \in Row /\ job[r] \in Job /\ SoundJob(job[r])
         /\ \A e \in Enqueuers : enq[e] \in Enqueuer
         /\ \A c \in Consumers : con[c] \in Consumer /\ (con[c].step # "idle" => con[c].id \in Requests)
BY DEF QueueInv, QueueTypeOK, JobsAreSound, ConsumersHaveAJob

\* What the parts of a step have to leave.
RowsKept == row' \in [Requests -> Row]
EnqueuersKept == enq' \in [Enqueuers -> Enqueuer]
FailuresKept == failures' \in 0..MaxFailures
JobsKept == job' \in [Requests -> Job] /\ \A r \in Requests : SoundJob(job'[r])
ConsumersKept ==
  /\ con' \in [Consumers -> Consumer]
  /\ \A c \in Consumers : con'[c].step # "idle" => con'[c].id \in Requests

AllKept == RowsKept /\ JobsKept /\ EnqueuersKept /\ ConsumersKept /\ FailuresKept

LEMMA KeptIsInv ==
  ASSUME AllKept
  PROVE  QueueInv'
BY DEF AllKept, RowsKept, JobsKept, EnqueuersKept, ConsumersKept, FailuresKept,
       QueueInv, QueueTypeOK, JobsAreSound, ConsumersHaveAJob

LEMMA Unmoved ==
  ASSUME QueueInv
  PROVE  /\ UNCHANGED row => RowsKept
         /\ UNCHANGED job => JobsKept
         /\ UNCHANGED enq => EnqueuersKept
         /\ UNCHANGED con => ConsumersKept
         /\ UNCHANGED failures => FailuresKept
         /\ Failure => FailuresKept
<1>1. /\ UNCHANGED row => RowsKept
      /\ UNCHANGED job => JobsKept
      /\ UNCHANGED enq => EnqueuersKept
      /\ UNCHANGED con => ConsumersKept
      /\ UNCHANGED failures => FailuresKept
  BY QueueTypes DEF RowsKept, JobsKept, EnqueuersKept, ConsumersKept, FailuresKept
<1>2. Failure => FailuresKept
  BY QueueTypes, QueueBounds DEF Failure, FailuresKept
<1>3. QED
  BY <1>1, <1>2

\* One part moves.
LEMMA RowMoves ==
  ASSUME QueueInv, NEW r \in Requests, NEW q \in Row, row' = [row EXCEPT ![r] = q]
  PROVE  RowsKept
BY QueueTypes DEF RowsKept

LEMMA JobMoves ==
  ASSUME QueueInv, NEW r, NEW j \in Job, SoundJob(j), job' = [job EXCEPT ![r] = j]
  PROVE  JobsKept
<1>1. job' \in [Requests -> Job]
  BY QueueTypes
<1>2. ASSUME NEW q \in Requests PROVE SoundJob(job'[q])
  <2>1. job'[q] = j \/ job'[q] = job[q]
    BY QueueTypes
  <2>2. QED
    BY <2>1, QueueTypes
<1>3. QED
  BY <1>1, <1>2 DEF JobsKept

LEMMA EnqueuerMoves ==
  ASSUME QueueInv, NEW e \in Enqueuers, NEW b \in Enqueuer, enq' = [enq EXCEPT ![e] = b]
  PROVE  EnqueuersKept
BY QueueTypes DEF EnqueuersKept

LEMMA ConsumerMoves ==
  ASSUME QueueInv, NEW c \in Consumers, NEW k \in Consumer, con' = [con EXCEPT ![c] = k],
         k.step # "idle" => k.id \in Requests
  PROVE  ConsumersKept
<1>1. con' \in [Consumers -> Consumer]
  BY QueueTypes
<1>2. ASSUME NEW d \in Consumers, con'[d].step # "idle" PROVE con'[d].id \in Requests
  <2>1. con'[d] = k \/ con'[d] = con[d]
    BY QueueTypes
  <2>2. QED
    BY <1>2, <2>1, QueueTypes
<1>3. QED
  BY <1>1, <1>2 DEF ConsumersKept

-----------------------------------------------------------------------------
(* The steps of the queue.                                                   *)

LEMMA QueueStarts == QueueInit => QueueInv
<1>1. SUFFICES ASSUME QueueInit PROVE QueueInv
  OBVIOUS
<1>2. [state |-> "open", holder |-> Null, attempts |-> 0] \in Row
  BY Statuses, RecordsAre, QueueBounds
<1>3. QueueTypeOK
  <2>1. row \in [Requests -> Row]
    BY <1>1, <1>2 DEF QueueInit
  <2>2. QED
    BY <1>1, <2>1, Empties, QueueBounds DEF QueueInit, QueueTypeOK
<1>4. JobsAreSound /\ ConsumersHaveAJob
  BY <1>1, Empties DEF QueueInit, JobsAreSound, ConsumersHaveAJob
<1>5. QED
  BY <1>3, <1>4 DEF QueueInv

LEMMA RowStepsKeep ==
  ASSUME QueueInv, NEW r \in Requests,
         Signal(r) \/ BackoffEnds(r) \/ Recover(r) \/ LoseLease(r)
  PROVE  QueueInv'
<1>1. UNCHANGED <<job, enq, con>> /\ (UNCHANGED failures \/ Failure)
  BY DEF Signal, BackoffEnds, Recover, LoseLease, Recovered
<1>2. row[r] \in Row
  BY QueueTypes
<1>3. RowsKept
  <2>1. PICK q, p : q = [row[r] EXCEPT !.state = "due"]
                    /\ p = [row[r] EXCEPT !.state = "due", !.holder = Null]
    OBVIOUS
  <2>2. q \in Row /\ p \in Row
    BY <1>2, <2>1, Statuses, RecordsAre
  <2>3. row' = [row EXCEPT ![r] = q] \/ row' = [row EXCEPT ![r] = p]
    BY <2>1 DEF Signal, BackoffEnds, Recover, LoseLease, Recovered
  <2>4. QED
    BY <2>2, <2>3, RowMoves
<1>4. QED
  BY <1>1, <1>3, Unmoved, KeptIsInv DEF AllKept

\* What becomes of a job.
LEMMA JobsBecome ==
  ASSUME QueueInv, NEW r \in Requests
  PROVE  /\ Added(r) \in Job /\ SoundJob(Added(r))
         /\ \A c \in Consumers :
              job[r].state = "waiting" =>
                LET j == [job[r] EXCEPT !.state = "active", !.lock = c]
                IN  j \in Job /\ SoundJob(j)
         /\ LET j == [job[r] EXCEPT !.state = "completed", !.lock = Null]
            IN  j \in Job /\ SoundJob(j)
         /\ LET j == [job[r] EXCEPT !.state = "failed", !.lock = Null]
            IN  j \in Job /\ SoundJob(j)
         /\ job[r].state = "active" =>
              /\ Thrown(job[r]) \in Job /\ SoundJob(Thrown(job[r]))
              /\ LET j == [job[r] EXCEPT !.state = "waiting", !.lock = Null]
                 IN  j \in Job /\ SoundJob(j)
         /\ job[r].state = "delayed" =>
              LET j == [job[r] EXCEPT !.state = "waiting"]
              IN  j \in Job /\ SoundJob(j)
<1>1. /\ job[r] \in Job /\ SoundJob(job[r])
      /\ job[r].made \in 0..JobAttempts /\ job[r].lock \in Consumers \union {Null}
  BY QueueTypes, RecordsAre
<1>2. /\ Null \in Consumers \union {Null} /\ 0 \in 0..JobAttempts /\ 0 < JobAttempts
  BY QueueBounds
<1>3. Added(r) \in Job /\ SoundJob(Added(r))
  <2>1. PICK n : n = [state |-> "waiting", made |-> 0, lock |-> Null]
    OBVIOUS
  <2>2. n \in Job /\ SoundJob(n)
    BY <1>2, <2>1, Statuses, RecordsAre DEF SoundJob
  <2>3. QED
    BY <1>1, <2>1, <2>2 DEF Added
<1>4. ASSUME NEW c \in Consumers, job[r].state = "waiting"
      PROVE  LET j == [job[r] EXCEPT !.state = "active", !.lock = c]
             IN  j \in Job /\ SoundJob(j)
  <2>1. job[r].made < JobAttempts /\ c # Null /\ "active" \in Live
    BY <1>1, <1>4, QueueBounds DEF SoundJob, Live
  <2>2. QED
    BY <1>1, <2>1, Statuses, RecordsAre DEF SoundJob
<1>5. ASSUME NEW s \in {"completed", "failed"}
      PROVE  LET j == [job[r] EXCEPT !.state = s, !.lock = Null]
             IN  j \in Job /\ SoundJob(j)
  <2>1. s \in JobStatuses /\ s # "active" /\ s \notin Live
    BY <1>5, Statuses DEF Live
  <2>2. QED
    BY <1>1, <1>2, <2>1, RecordsAre DEF SoundJob
<1>6. ASSUME job[r].state = "active" PROVE Thrown(job[r]) \in Job /\ SoundJob(Thrown(job[r]))
  <2>1. PICK m : m = job[r].made + 1
    OBVIOUS
  <2>2. job[r].made < JobAttempts
    BY <1>1, <1>6 DEF SoundJob, Live
  <2>3. m \in 0..JobAttempts
    BY <1>1, <2>1, <2>2, QueueBounds
  <2>4. PICK s : s = IF m < JobAttempts THEN "delayed" ELSE "failed"
    OBVIOUS
  <2>5. PICK n : n = [state |-> s, made |-> m, lock |-> Null]
    OBVIOUS
  <2>6. n \in Job
    BY <1>2, <2>3, <2>4, <2>5, Statuses, RecordsAre
  <2>7. SoundJob(n)
    BY <2>4, <2>5 DEF SoundJob, Live
  <2>8. Thrown(job[r]) = n
    BY <2>1, <2>4, <2>5 DEF Thrown
  <2>9. QED
    BY <2>6, <2>7, <2>8
<1>7. ASSUME job[r].state \in {"active", "delayed"}
      PROVE  /\ LET j == [job[r] EXCEPT !.state = "waiting", !.lock = Null]
                IN  j \in Job /\ SoundJob(j)
             /\ job[r].state = "delayed" =>
                  LET j == [job[r] EXCEPT !.state = "waiting"]
                  IN  j \in Job /\ SoundJob(j)
  <2>1. job[r].made < JobAttempts
    BY <1>1, <1>7 DEF SoundJob, Live
  <2>2. job[r].state = "delayed" => job[r].lock = Null
    BY <1>1 DEF SoundJob
  <2>3. QED
    BY <1>1, <1>2, <2>1, <2>2, Statuses, RecordsAre DEF SoundJob
<1>8. QED
  BY <1>3, <1>4, <1>5, <1>6, <1>7

LEMMA EnqueuersBecome ==
  ASSUME NEW b \in Enqueuer
  PROVE  /\ NextId(b) \in Enqueuer
         /\ \A s \in EnqueuerSteps : [b EXCEPT !.step = s] \in Enqueuer
         /\ \A r \in Requests : [b EXCEPT !.recent = b.recent \union {r}] \in Enqueuer
<1>1. b.recent \in SUBSET Requests /\ b.recent \ {b.id} \in SUBSET Requests
  BY RecordsAre
<1>2. PICK t : t = b.recent \ {b.id}
  OBVIOUS
<1>3. PICK n : n = [b EXCEPT !.step = "get", !.id = Null, !.recent = t, !.seen = FALSE]
  OBVIOUS
<1>4. n \in Enqueuer
  BY <1>1, <1>2, <1>3, Statuses, RecordsAre
<1>5. NextId(b) = NoBatch \/ NextId(b) = n
  BY <1>2, <1>3 DEF NextId
<1>6. \A s \in EnqueuerSteps : [b EXCEPT !.step = s] \in Enqueuer
  BY RecordsAre
<1>7. \A r \in Requests : [b EXCEPT !.recent = b.recent \union {r}] \in Enqueuer
  BY <1>1, RecordsAre
<1>8. QED
  BY <1>4, <1>5, <1>6, <1>7, Empties

LEMMA FinishingKeeps ==
  ASSUME QueueInv, NEW r \in Requests, enq' = FinishedBeside(r)
  PROVE  EnqueuersKept
<1>1. ASSUME NEW e \in Enqueuers
      PROVE  [enq[e] EXCEPT !.recent = enq[e].recent \union {r}] \in Enqueuer
  BY QueueTypes, EnqueuersBecome
<1>2. \A e \in Enqueuers : enq[e] \in Enqueuer
  BY QueueTypes
<1>3. QED
  BY <1>1, <1>2 DEF FinishedBeside, EnqueuersKept

LEMMA QueueStepsKeep ==
  ASSUME QueueInv, NEW r \in Requests,
         DelayEnds(r) \/ Stalled(r) \/ Evict(r) \/ LoseJob(r)
  PROVE  QueueInv'
<1>1. UNCHANGED <<row, con>> /\ (UNCHANGED failures \/ Failure)
  BY DEF DelayEnds, Stalled, Evict, LoseJob
<1>2. JobsKept /\ EnqueuersKept
  <2>1. CASE DelayEnds(r)
    <3>1. PICK j : j = [job[r] EXCEPT !.state = "waiting"]
      OBVIOUS
    <3>2. job' = [job EXCEPT ![r] = j] /\ job[r].state = "delayed" /\ UNCHANGED enq
      BY <2>1, <3>1 DEF DelayEnds
    <3>3. j \in Job /\ SoundJob(j)
      BY <3>1, <3>2, JobsBecome
    <3>4. QED
      BY <3>2, <3>3, JobMoves, Unmoved
  <2>2. CASE Stalled(r)
    <3>1. PICK s \in {"waiting", "failed"} :
            /\ job' = [job EXCEPT ![r].state = s, ![r].lock = Null]
            /\ enq' = IF s = "failed" THEN FinishedBeside(r) ELSE enq
      BY <2>2 DEF Stalled
    <3>2. PICK j : j = [job[r] EXCEPT !.state = s, !.lock = Null]
      OBVIOUS
    <3>3. job' = [job EXCEPT ![r] = j] /\ job[r].state = "active"
      BY <2>2, <3>1, <3>2 DEF Stalled
    <3>4. j \in Job /\ SoundJob(j)
      BY <3>1, <3>2, <3>3, JobsBecome
    <3>5. EnqueuersKept
      BY <3>1, FinishingKeeps, Unmoved
    <3>6. QED
      BY <3>3, <3>4, <3>5, JobMoves
  <2>3. CASE Evict(r) \/ LoseJob(r)
    <3>1. job' = [job EXCEPT ![r] = NoJob] /\ UNCHANGED enq
      BY <2>3 DEF Evict, LoseJob
    <3>2. QED
      BY <3>1, Empties, JobMoves, Unmoved
  <2>4. QED
    BY <2>1, <2>2, <2>3
<1>3. QED
  BY <1>1, <1>2, Unmoved, KeptIsInv DEF AllKept

LEMMA EnqueuingKeeps ==
  ASSUME QueueInv, NEW e \in Enqueuers,
         \/ StartSweep(e) \/ \E r \in Requests : Wake(e, r)
         \/ AddBulk(e) \/ GetJob(e) \/ GetState(e) \/ Remove(e) \/ Add(e) \/ GiveUp(e)
  PROVE  QueueInv'
<1>1. UNCHANGED <<row, con>> /\ (UNCHANGED failures \/ Failure)
  BY DEF StartSweep, Wake, AddBulk, GetJob, GetState, Remove, Add, GiveUp
<1>2. enq[e] \in Enqueuer
  BY QueueTypes
<1>3. ASSUME NEW ids \in SUBSET Requests,
             enq' = [enq EXCEPT ![e] = [NoBatch EXCEPT !.step = "bulk", !.todo = ids]]
      PROVE  EnqueuersKept
  <2>1. [NoBatch EXCEPT !.step = "bulk", !.todo = ids] \in Enqueuer
    BY Empties, Statuses, RecordsAre
  <2>2. QED
    BY <1>3, <2>1, EnqueuerMoves
<1>4. CASE StartSweep(e)
  <2>1. PICK ids \in SUBSET Due :
          enq' = [enq EXCEPT ![e] = [NoBatch EXCEPT !.step = "bulk", !.todo = ids]]
    BY <1>4 DEF StartSweep
  <2>2. EnqueuersKept
    BY <1>3, <2>1 DEF Due
  <2>3. QED
    BY <1>1, <1>4, <2>2, Unmoved, KeptIsInv DEF AllKept, StartSweep
<1>5. CASE \E r \in Requests : Wake(e, r)
  <2>1. PICK r \in Requests : Wake(e, r)
    BY <1>5
  <2>2. EnqueuersKept
    BY <1>3, <2>1 DEF Wake
  <2>3. QED
    BY <1>1, <2>1, <2>2, Unmoved, KeptIsInv DEF AllKept, Wake
<1>6. CASE AddBulk(e)
  <2>1. JobsKept
    <3>1. \A r \in Requests : /\ Added(r) \in Job /\ SoundJob(Added(r))
                              /\ job[r] \in Job /\ SoundJob(job[r])
      BY JobsBecome, QueueTypes
    <3>2. QED
      BY <1>6, <3>1 DEF AddBulk, JobsKept
  <2>2. EnqueuersKept
    <3>1. PICK b : b = [enq[e] EXCEPT !.step = "get"]
      OBVIOUS
    <3>2. b \in Enqueuer /\ enq' = [enq EXCEPT ![e] = b]
      BY <1>2, <1>6, <3>1, EnqueuersBecome, Statuses DEF AddBulk
    <3>3. QED
      BY <3>2, EnqueuerMoves
  <2>3. QED
    BY <1>1, <2>1, <2>2, Unmoved, KeptIsInv DEF AllKept
<1>7. CASE GetJob(e)
  <2>1. PICK r \in enq[e].todo :
        \E b :
          /\ b = [enq[e] EXCEPT !.todo = @ \ {r}, !.id = r,
                                !.seen = job[r].state \in Terminal /\ r \in enq[e].recent]
          /\ \/ enq' = [enq EXCEPT ![e] = NextId(b)]
             \/ enq' = [enq EXCEPT ![e] = [b EXCEPT !.step = "state"]]
    BY <1>7 DEF GetJob
  <2> PICK b :
        /\ b = [enq[e] EXCEPT !.todo = @ \ {r}, !.id = r,
                              !.seen = job[r].state \in Terminal /\ r \in enq[e].recent]
        /\ \/ enq' = [enq EXCEPT ![e] = NextId(b)]
           \/ enq' = [enq EXCEPT ![e] = [b EXCEPT !.step = "state"]]
    BY <2>1
  <2>2. b \in Enqueuer
    <3>1. PICK t, v : /\ t = enq[e].todo \ {r}
                      /\ v = (job[r].state \in Terminal /\ r \in enq[e].recent)
      OBVIOUS
    <3>2. t \in SUBSET Requests /\ r \in Requests /\ v \in BOOLEAN
      BY <1>2, <2>1, <3>1, RecordsAre
    <3>3. b = [enq[e] EXCEPT !.todo = t, !.id = r, !.seen = v]
      BY <2>1, <3>1
    <3>4. QED
      BY <1>2, <3>2, <3>3, RecordsAre
  <2>3. EnqueuersKept
    BY <2>1, <2>2, EnqueuersBecome, Statuses, EnqueuerMoves
  <2>4. QED
    BY <1>1, <1>7, <2>3, Unmoved, KeptIsInv DEF AllKept, GetJob
<1>8. CASE GetState(e)
  <2>1. PICK b : b = [enq[e] EXCEPT !.step = "remove"] \/ b = NextId(enq[e])
    OBVIOUS
  <2>2. \/ enq' = [enq EXCEPT ![e] = [enq[e] EXCEPT !.step = "remove"]]
        \/ enq' = [enq EXCEPT ![e] = NextId(enq[e])]
    BY <1>2, <1>8, QueueTypes DEF GetState
  <2>3. EnqueuersKept
    BY <1>2, <2>2, EnqueuersBecome, Statuses, EnqueuerMoves
  <2>4. QED
    BY <1>1, <1>8, <2>3, Unmoved, KeptIsInv DEF AllKept, GetState
<1>9. CASE Remove(e)
  <2>1. PICK x : x = enq[e].id
    OBVIOUS
  <2>2. job' = [job EXCEPT ![x] = IF job[x].state = "active" THEN job[x] ELSE NoJob]
    BY <1>9, <2>1, QueueTypes DEF Remove
  <2>3. JobsKept
    <3>1. CASE job' = [job EXCEPT ![x] = NoJob]
      BY <3>1, Empties, JobMoves
    <3>2. CASE job' = [job EXCEPT ![x] = job[x]]
      <4>1. job' = job
        BY <3>2, QueueTypes
      <4>2. QED
        BY <4>1, Unmoved
    <3>3. QED
      BY <2>2, <3>1, <3>2
  <2>4. EnqueuersKept
    <3>1. PICK b : b = [enq[e] EXCEPT !.step = "add"]
      OBVIOUS
    <3>2. b \in Enqueuer /\ enq' = [enq EXCEPT ![e] = b]
      BY <1>2, <1>9, <3>1, EnqueuersBecome, Statuses DEF Remove
    <3>3. QED
      BY <3>2, EnqueuerMoves
  <2>5. QED
    BY <1>1, <2>3, <2>4, Unmoved, KeptIsInv DEF AllKept
<1>10. CASE Add(e)
  <2>1. PICK x : x = enq[e].id
    OBVIOUS
  <2>2. job' = [job EXCEPT ![x] = Added(x)]
    BY <1>10, <2>1 DEF Add
  <2>3. JobsKept
    <3>1. CASE x \in Requests
      BY <2>2, <3>1, JobsBecome, JobMoves
    <3>2. CASE x \notin Requests
      <4>1. job' = job
        BY <2>2, <3>2, QueueTypes
      <4>2. QED
        BY <4>1, Unmoved
    <3>3. QED
      BY <3>1, <3>2
  <2>4. enq' = [enq EXCEPT ![e] = NextId(enq[e])]
    BY <1>10, QueueTypes DEF Add
  <2>5. EnqueuersKept
    BY <1>2, <2>4, EnqueuersBecome, EnqueuerMoves
  <2>6. QED
    BY <1>1, <2>3, <2>5, Unmoved, KeptIsInv DEF AllKept
<1>11. CASE GiveUp(e)
  <2>1. EnqueuersKept
    BY <1>11, Empties, EnqueuerMoves DEF GiveUp
  <2>2. QED
    BY <1>1, <1>11, <2>1, Unmoved, KeptIsInv DEF AllKept, GiveUp
<1>12. QED
  BY <1>4, <1>5, <1>6, <1>7, <1>8, <1>9, <1>10, <1>11

LEMMA ConsumersBecome ==
  ASSUME NEW k \in Consumer, NEW s \in ConsumerSteps, NEW x \in SUBSET Requests
  PROVE  /\ [k EXCEPT !.step = s] \in Consumer /\ [k EXCEPT !.step = s].id = k.id
         /\ [k EXCEPT !.step = s, !.extras = x] \in Consumer
         /\ [k EXCEPT !.step = s, !.extras = x].id = k.id
BY RecordsAre

\* The rows that a consumer claims or settles.
LEMMA ClaimedRows ==
  ASSUME QueueInv, NEW c \in Consumers, NEW S
  PROVE  Claimed(c, S) \in [Requests -> Row] /\ Final(c, S) \in [Requests -> Row]
<1>1. ASSUME NEW r \in Requests
      PROVE  /\ [row[r] EXCEPT !.state = "claimed", !.holder = c,
                               !.attempts = Counted(row[r].attempts)] \in Row
             /\ [row[r] EXCEPT !.state = "final", !.holder = Null] \in Row
             /\ row[r] \in Row
  <2>1. row[r] \in Row /\ row[r].attempts \in 0..MaxSettlements
    BY QueueTypes, RecordsAre
  <2>2. PICK n : n = Counted(row[r].attempts)
    OBVIOUS
  <2>3. n \in 0..MaxSettlements
    BY <2>1, <2>2, QueueBounds DEF Counted
  <2>4. [row[r] EXCEPT !.state = "claimed", !.holder = c, !.attempts = n] \in Row
    BY <2>1, <2>3, Statuses, RecordsAre
  <2>5. QED
    BY <2>1, <2>2, <2>4, Statuses, RecordsAre
<1>2. Claimed(c, S) \in [Requests -> Row]
  BY <1>1 DEF Claimed
<1>3. Final(c, S) \in [Requests -> Row]
  BY <1>1 DEF Final
<1>4. QED
  BY <1>2, <1>3

LEMMA GotoKeeps ==
  ASSUME QueueInv, NEW c \in Consumers, NEW s \in ConsumerSteps, Goto(c, s),
         con[c].step # "idle"
  PROVE  ConsumersKept
<1>1. PICK k : k = [con[c] EXCEPT !.step = s]
  OBVIOUS
<1>2. /\ k \in Consumer /\ k.id \in Requests /\ con' = [con EXCEPT ![c] = k]
  <2>1. con[c] \in Consumer /\ con[c].id \in Requests
    BY QueueTypes
  <2>2. con' = [con EXCEPT ![c] = k]
    BY <1>1, <2>1, QueueTypes DEF Goto
  <2>3. k \in Consumer /\ k.id = con[c].id
    BY <1>1, <2>1, ConsumersBecome
  <2>4. QED
    BY <2>1, <2>2, <2>3
<1>3. QED
  BY <1>2, ConsumerMoves

LEMMA TakeKeeps ==
  ASSUME QueueInv, NEW c \in Consumers, NEW r \in Requests, Take(c, r)
  PROVE  QueueInv'
<1>1. JobsKept
  <2>1. PICK j : j = [job[r] EXCEPT !.state = "active", !.lock = c]
    OBVIOUS
  <2>2. job' = [job EXCEPT ![r] = j] /\ job[r].state = "waiting"
    BY <2>1 DEF Take
  <2>3. j \in Job /\ SoundJob(j)
    BY <2>1, <2>2, JobsBecome
  <2>4. QED
    BY <2>2, <2>3, JobMoves
<1>2. ConsumersKept
  <2>1. PICK k : k = [NoWork EXCEPT !.step = "claim", !.id = r]
    OBVIOUS
  <2>2. k \in Consumer /\ k.id \in Requests
    BY <2>1, Empties, Statuses, RecordsAre
  <2>3. QED
    BY <2>1, <2>2, ConsumerMoves DEF Take
<1>3. QED
  BY <1>1, <1>2, Unmoved, KeptIsInv DEF AllKept, Take

LEMMA SettlingKeeps ==
  ASSUME QueueInv, NEW c \in Consumers,
         \/ ClaimNotified(c) \/ ClaimExtras(c) \/ SettleBatch(c) \/ FallBack(c)
         \/ Settle(c) \/ Retry(c) \/ Fail(c)
  PROVE  QueueInv'
<1>1. UNCHANGED <<job, enq>> /\ (UNCHANGED failures \/ Failure) /\ con[c].step # "idle"
  BY DEF ClaimNotified, ClaimExtras, SettleBatch, FallBack, Settle, Retry, Fail
<1>2. con[c] \in Consumer /\ con[c].id \in Requests
  BY <1>1, QueueTypes
<1>3. RowsKept
  <2>1. CASE Retry(c)
    <3>1. PICK r, q : r = con[c].id /\ q = [row[r] EXCEPT !.state = "backoff", !.holder = Null]
      OBVIOUS
    <3>2. q \in Row /\ row' = [row EXCEPT ![r] = q]
      <4>1. r \in Requests /\ row[r] \in Row
        BY <1>2, <3>1, QueueTypes
      <4>2. q \in Row
        BY <3>1, <4>1, Statuses, RecordsAre
      <4>3. row' = [row EXCEPT ![r] = q]
        BY <2>1, <3>1 DEF Retry
      <4>4. QED
        BY <4>2, <4>3
    <3>3. QED
      BY <1>2, <3>1, <3>2, RowMoves
  <2>2. CASE UNCHANGED row
    BY <2>2, Unmoved
  <2>3. CASE \E S : row' = Claimed(c, S) \/ row' = Final(c, S)
    BY <2>3, ClaimedRows DEF RowsKept
  <2>4. QED
    BY <2>1, <2>2, <2>3 DEF ClaimNotified, ClaimExtras, SettleBatch, FallBack, Settle, Fail
<1>4. ConsumersKept
  <2>1. CASE \E s \in ConsumerSteps : Goto(c, s)
    BY <1>1, <2>1, GotoKeeps
  <2>2. CASE ClaimExtras(c) \/ FallBack(c)
    <3>1. PICK s \in {"single", "batch"}, x \in SUBSET Requests :
            con' = [con EXCEPT ![c] = [con[c] EXCEPT !.step = s, !.extras = x]]
      <4>1. CASE FallBack(c)
        <5>1. con' = [con EXCEPT ![c] = [con[c] EXCEPT !.step = "single", !.extras = {}]]
          BY <4>1, QueueTypes DEF FallBack
        <5>2. QED
          BY <5>1
      <4>2. CASE ClaimExtras(c)
        <5>1. PICK x \in SUBSET Due :
                con' = [con EXCEPT ![c].extras = x,
                                   ![c].step = IF x = {} THEN "single" ELSE "batch"]
          BY <4>2 DEF ClaimExtras
        <5>2. PICK s \in {"single", "batch"} : s = IF x = {} THEN "single" ELSE "batch"
          OBVIOUS
        <5>3. con' = [con EXCEPT ![c] = [con[c] EXCEPT !.step = s, !.extras = x]]
          <6>1. con \in [Consumers -> Consumer]
            BY QueueTypes
          <6>2. QED
            BY <5>1, <5>2, <6>1
        <5>4. x \in SUBSET Requests
          BY DEF Due
        <5>5. QED
          BY <5>3, <5>4
      <4>3. QED
        BY <2>2, <4>1, <4>2
    <3>2. PICK k : k = [con[c] EXCEPT !.step = s, !.extras = x]
      OBVIOUS
    <3>3. k \in Consumer /\ k.id \in Requests
      <4>1. s \in ConsumerSteps
        BY Statuses
      <4>2. QED
        <5>1. con[c] \in Consumer /\ con[c].id \in Requests
          BY <1>2
        <5>2. k \in Consumer /\ k.id = con[c].id
          BY <3>2, <4>1, <5>1, ConsumersBecome
        <5>3. QED
          BY <5>1, <5>2
    <3>4. QED
      BY <3>1, <3>2, <3>3, ConsumerMoves
  <2>3. QED
    BY <2>1, <2>2, Statuses DEF ClaimNotified, SettleBatch, Settle, Retry, Fail
<1>5. QED
  BY <1>1, <1>3, <1>4, Unmoved, KeptIsInv DEF AllKept

LEMMA ReportingKeeps ==
  ASSUME QueueInv, NEW c \in Consumers, Complete(c) \/ Throw(c)
  PROVE  QueueInv'
<1>1. PICK r \in Requests : r = con[c].id
  BY QueueTypes DEF Complete, Throw
<1>2. PICK to : /\ Report(c, to)
                /\ \/ to = [job[r] EXCEPT !.state = "completed", !.lock = Null]
                   \/ to = Thrown(job[r])
  BY <1>1 DEF Complete, Throw
<1>3. ConsumersKept
  BY <1>2, Empties, ConsumerMoves DEF Report
<1>4. JobsKept /\ EnqueuersKept
  <2>1. CASE job[r].lock = c
    <3>1. job[r].state = "active"
      BY <2>1, QueueBounds, QueueTypes DEF SoundJob
    <3>2. to \in Job /\ SoundJob(to)
      BY <1>2, <3>1, JobsBecome
    <3>3. /\ job' = [job EXCEPT ![r] = to]
          /\ enq' = IF to.state \in Terminal THEN FinishedBeside(r) ELSE enq
      BY <1>1, <1>2, <2>1 DEF Report
    <3>4. QED
      BY <3>2, <3>3, JobMoves, FinishingKeeps, Unmoved
  <2>2. CASE job[r].lock # c
    BY <1>1, <1>2, <2>2, Unmoved DEF Report
  <2>3. QED
    BY <2>1, <2>2
<1>5. QED
  BY <1>2, <1>3, <1>4, Unmoved, KeptIsInv DEF AllKept, Report

LEMMA CrashKeeps ==
  ASSUME QueueInv, NEW c \in Consumers, ConsumerCrash(c)
  PROVE  QueueInv'
<1>1. ConsumersKept
  BY Empties, ConsumerMoves DEF ConsumerCrash
<1>2. QED
  BY <1>1, Unmoved, KeptIsInv DEF AllKept, ConsumerCrash

LEMMA QueueStepKeeps ==
  ASSUME QueueInv, [QueueNext]_queueVars
  PROVE  QueueInv'
<1>1. CASE UNCHANGED queueVars
  BY <1>1, Unmoved, KeptIsInv DEF queueVars, AllKept
<1>2. CASE QueueNext
  BY <1>2, RowStepsKeep, QueueStepsKeep, EnqueuingKeeps, TakeKeeps, SettlingKeeps,
     ReportingKeeps, CrashKeeps DEF QueueNext
<1>3. QED
  BY <1>1, <1>2

\* The rows, the jobs in Redis and the runs that enqueue and consume them keep
\* their types; a job is made no more than JobAttempts times, though what
\* stalls is run again and a consumer may report a job it no longer has
\* (settlement-queue.ts, settlement.ts).
THEOREM QueueTypeCorrect == QueueSpec => []QueueTypeOK
<1>1. QueueInv => QueueTypeOK
  BY DEF QueueInv
<1>2. QED
  BY <1>1, QueueStarts, QueueStepKeeps, PTL DEF QueueSpec
=============================================================================
