-------------------------- MODULE GenerationProofs --------------------------
(***************************************************************************)
(* Theorems about Generation, for any sets of tasks and poll runs and any  *)
(* number of faults.                                                       *)
(***************************************************************************)
EXTENDS Generation, TLAPS

RowsType ==
  /\ kind \in [Tasks -> {"video", "music"}]
  /\ gate \in [Tasks -> {"none", "authorized", "started", "submitted", "done"}]
  /\ upstream \in [Tasks -> {"none", "running", "succeeded", "failed"}]
  /\ task \in [Tasks -> {"none"} \cup Active \cup Closed]
  /\ overdue \subseteq Tasks
  /\ faults \in Nat

BillsType ==
  /\ Bill!TypeOK
  /\ lease \in [Tasks -> {"none", "live", "over"}]
  /\ \A t \in Tasks : lease[t] # "none" <=> bill[t] = "held"
  /\ leaseOwner \in [Tasks -> Tasks \cup {Gateway, None}]
  /\ freed \in [Tasks -> {"none", "reported", "recovered"}]

RunsType == run \in [Runs -> Run]

LEMMA TypeParts == TypeOK <=> RowsType /\ BillsType /\ RunsType
BY DEF TypeOK, RowsType, BillsType, RunsType

-----------------------------------------------------------------------------
(* The bills                                                                 *)

\* A bill stays, or takes one of the steps of BillingOutcome; the failure code
\* is written when the hold goes back, and never else.
BillStep(t) ==
  \/ bill'[t] = bill[t] /\ freed'[t] = freed[t]
  \/ bill[t] = "none" /\ bill'[t] = "held" /\ freed'[t] = freed[t]
  \/ bill[t] = "held" /\ bill'[t] = "returned"
  \/ bill[t] = "held" /\ bill'[t] = "owed" /\ freed'[t] = freed[t]
  \/ bill[t] = "owed" /\ bill'[t] = "charged" /\ freed'[t] = freed[t]
  \/ bill[t] = "owed" /\ bill'[t] = "forgiven" /\ freed'[t] = freed[t]

\* Only the bill of t moves.
OnlyBill(t) ==
  \A u \in Tasks : u # t => bill'[u] = bill[u] /\ freed'[u] = freed[u]

LEMMA MoveOne ==
  ASSUME BillsType, NEW t \in Tasks, NEW from, NEW to \in Bill!Outcomes,
         Bill!Move({t}, from, to)
  PROVE  /\ bill[t] = from
         /\ bill' = [bill EXCEPT ![t] = to]
BY DEF Bill!Move, BillsType, Bill!TypeOK

LEMMA GiveBackEffect ==
  ASSUME BillsType, NEW t \in Tasks,
         NEW code \in {"reported", "recovered"}, GiveBack(t, code)
  PROVE  /\ BillsType'
         /\ bill[t] = "held" /\ bill'[t] = "returned" /\ freed'[t] = code
         /\ OnlyBill(t)
<1>1. "returned" \in Bill!Outcomes
  BY DEF Bill!Outcomes
<1>2. bill[t] = "held" /\ bill' = [bill EXCEPT ![t] = "returned"]
  BY <1>1, MoveOne DEF GiveBack, Bill!Return
<1>3. QED
  BY <1>1, <1>2
  DEF GiveBack, EndLease, BillsType, OnlyBill, Bill!TypeOK

LEMMA ReportEffect ==
  ASSUME BillsType, NEW t \in Tasks, ReportFailure(t)
  PROVE  /\ BillsType'
         /\ OnlyBill(t)
         /\ \/ bill'[t] = bill[t] /\ freed'[t] = freed[t]
            \/ /\ bill[t] = "held" /\ bill'[t] = "returned"
               /\ freed'[t] = "reported"
<1>1. CASE Held(t) /\ GiveBack(t, "reported")
  BY <1>1, GiveBackEffect
<1>2. CASE ~Held(t) /\ UNCHANGED billing
  BY <1>2 DEF billing, BillsType, OnlyBill, Bill!TypeOK
<1>3. QED
  BY <1>1, <1>2 DEF ReportFailure

LEMMA AcceptEffect ==
  ASSUME BillsType, NEW t \in Tasks, Accepts(t), AcceptReceipt(t)
  PROVE  /\ BillsType'
         /\ OnlyBill(t)
         /\ bill[t] = "held" /\ bill'[t] = "owed" /\ freed'[t] = freed[t]
BY DEF Accepts, Held, AcceptReceipt, EndLease, BillsType, OnlyBill,
       Bill!TypeOK, Bill!Outcomes

LEMMA BillsKept ==
  ASSUME BillsType, UNCHANGED billing
  PROVE  BillsType' /\ \A t \in Tasks : BillStep(t)
BY DEF billing, BillsType, BillStep, Bill!TypeOK

\* One step, whoever takes it, moves bills as BillingOutcome says.
LEMMA BillSteps ==
  ASSUME BillsType, RunsType, Next
  PROVE  BillsType' /\ \A t \in Tasks : BillStep(t)
<1> USE DEF OnlyBill
<1>1. ASSUME NEW t \in Tasks, Authorize(t)
      PROVE  BillsType' /\ \A u \in Tasks : BillStep(u)
  <2>1. "held" \in Bill!Outcomes
    BY DEF Bill!Outcomes
  <2>2. bill[t] = "none" /\ bill' = [bill EXCEPT ![t] = "held"]
    BY <1>1, <2>1, MoveOne DEF Authorize, Bill!Hold
  <2>3. QED
    BY <1>1, <2>1, <2>2
    DEF Authorize, BillsType, BillStep, Bill!TypeOK
<1>2. ASSUME NEW t \in Tasks, UpstreamStarted(t)
      PROVE  BillsType' /\ \A u \in Tasks : BillStep(u)
  BY <1>2 DEF UpstreamStarted, Held, BillsType, BillStep, Bill!TypeOK
<1>3. ASSUME NEW t \in Tasks, Submit(t) \/ Persist(t) \/ GatewayDies(t)
      PROVE  BillsType' /\ \A u \in Tasks : BillStep(u)
  BY <1>3, BillsKept DEF Submit, Persist, GatewayDies
<1>4. ASSUME NEW t \in Tasks, ReportFailure(t)
      PROVE  BillsType' /\ \A u \in Tasks : BillStep(u)
  BY <1>4, ReportEffect DEF BillStep
<1>5. ASSUME NEW t \in Tasks, GiveUp(t)
      PROVE  BillsType' /\ \A u \in Tasks : BillStep(u)
  BY <1>4, <1>5 DEF GiveUp
<1>6. ASSUME NEW t \in Tasks, UpstreamEnds(t) \/ BecomesOverdue(t)
      PROVE  BillsType' /\ \A u \in Tasks : BillStep(u)
  BY <1>6, BillsKept DEF UpstreamEnds, BecomesOverdue
<1>7. ASSUME NEW t \in Tasks, Settle(t)
      PROVE  BillsType' /\ \A u \in Tasks : BillStep(u)
  <2>1. "charged" \in Bill!Outcomes /\ "forgiven" \in Bill!Outcomes
    BY DEF Bill!Outcomes
  <2>2. \/ bill[t] = "owed" /\ bill' = [bill EXCEPT ![t] = "charged"]
        \/ bill[t] = "owed" /\ bill' = [bill EXCEPT ![t] = "forgiven"]
    BY <1>7, <2>1, MoveOne DEF Settle, Bill!Charge, Bill!Forgive
  <2>3. QED
    BY <1>7, <2>1, <2>2 DEF Settle, BillsType, BillStep, Bill!TypeOK
<1>8. ASSUME NEW t \in Tasks, LeaseEnds(t)
      PROVE  BillsType' /\ \A u \in Tasks : BillStep(u)
  BY <1>8 DEF LeaseEnds, BillsType, BillStep, Bill!TypeOK
<1>9. ASSUME NEW t \in Tasks, Recover(t)
      PROVE  BillsType' /\ \A u \in Tasks : BillStep(u)
  BY <1>9, GiveBackEffect DEF Recover, BillStep
<1>10. ASSUME NEW p \in Runs, RunStep(p)
       PROVE  BillsType' /\ \A u \in Tasks : BillStep(u)
  <2>1. ASSUME \/ StartRun(p) \/ ListPolled(p) \/ ListQueued(p) \/ EndRun(p)
               \/ \E t \in Tasks : Take(p, t)
               \/ Probe(p) \/ Execute(p) \/ MarkRunning(p)
               \/ FailTask(p) \/ CheckBilling(p) \/ FinishTask(p)
        PROVE  UNCHANGED billing
    BY <2>1 DEF StartRun, ListPolled, ListQueued, EndRun, Take, Probe,
                Execute, MarkRunning, FailTask, CheckBilling, FinishTask
  <2>2. ASSUME NEW t \in Tasks, ReleaseExpired(p, t)
        PROVE  BillsType' /\ \A u \in Tasks : BillStep(u)
    BY <1>4, <2>2 DEF ReleaseExpired
  <2>3. ASSUME run[p].item # None
        PROVE  Item(p) \in Tasks
    BY <2>3 DEF RunsType, Run, Item
  <2>4. CASE ReleaseFailed(p)
    BY <1>4, <2>3, <2>4 DEF ReleaseFailed, At
  <2>5. CASE RenewLease(p)
    BY <2>3, <2>5 DEF RenewLease, At, Held, BillsType, BillStep, Bill!TypeOK
  <2>6. CASE SignalSucceeded(p)
    <3>1. CASE Accepts(Item(p)) /\ AcceptReceipt(Item(p))
      <4>1. Item(p) \in Tasks
        BY <2>3, <2>6 DEF SignalSucceeded, At
      <4>2. QED
        BY <3>1, <4>1, AcceptEffect DEF BillStep
    <3>2. CASE UNCHANGED billing
      BY <3>2, BillsKept
    <3>3. QED
      BY <2>6, <3>1, <3>2 DEF SignalSucceeded
  <2>7. QED
    BY <1>10, <2>1, <2>2, <2>4, <2>5, <2>6, BillsKept DEF RunStep
<1>11. ASSUME NEW p \in Runs, SignalThrows(p) \/ Crash(p)
       PROVE  BillsType' /\ \A u \in Tasks : BillStep(u)
  BY <1>11, BillsKept DEF SignalThrows, Crash, billing
<1>12. QED
  BY <1>1, <1>2, <1>3, <1>5, <1>6, <1>7, <1>8, <1>9, <1>10, <1>11
  DEF Next, GatewayStep

-----------------------------------------------------------------------------
(* The rows                                                                  *)

LEMMA ItemIsTask ==
  ASSUME RunsType, NEW p \in Runs, run[p].item # None
  PROVE  Item(p) \in Tasks
BY DEF RunsType, Run, Item

\* A row stays, is stored, is marked running, is closed as expired or failed,
\* or is closed as succeeded by a run that has seen its receipt in billing.
RowStep(t) ==
  \/ task'[t] = task[t]
  \/ gate[t] = "submitted" /\ gate'[t] = "done" /\ task'[t] = "queued"
  \/ task[t] \in Active /\ task'[t] = "running"
  \/ task[t] \in Active /\ task'[t] \in {"expired", "failed"}
  \/ /\ task[t] \in Active /\ task'[t] = "succeeded"
     /\ \E p \in Runs : At(p, "finishing") /\ Item(p) = t

\* The gateway is done with a task for good.
GateStep(t) == gate'[t] = "done" \/ gate[t] # "done"

LEMMA RowsKept ==
  ASSUME RowsType, UNCHANGED <<gate, task>>
  PROVE  \A t \in Tasks : RowStep(t) /\ GateStep(t)
BY DEF RowStep, GateStep

LEMMA RowSteps ==
  ASSUME RowsType, RunsType, Next
  PROVE  RowsType' /\ \A t \in Tasks : RowStep(t) /\ GateStep(t)
<1>1. ASSUME NEW t \in Tasks,
             Authorize(t) \/ UpstreamStarted(t) \/ GiveUp(t) \/ GatewayDies(t)
      PROVE  RowsType' /\ \A u \in Tasks : RowStep(u) /\ GateStep(u)
  BY <1>1 DEF Authorize, UpstreamStarted, GiveUp, GatewayDies, Advance,
              RowsType, RowStep, GateStep
<1>2. ASSUME NEW t \in Tasks, Submit(t)
      PROVE  RowsType' /\ \A u \in Tasks : RowStep(u) /\ GateStep(u)
  BY <1>2 DEF Submit, Advance, RowsType, RowStep, GateStep
<1>3. ASSUME NEW t \in Tasks, Persist(t)
      PROVE  RowsType' /\ \A u \in Tasks : RowStep(u) /\ GateStep(u)
  BY <1>3 DEF Persist, Advance, RowsType, RowStep, GateStep, Active
<1>4. ASSUME NEW t \in Tasks,
             UpstreamEnds(t) \/ BecomesOverdue(t) \/ Settle(t) \/ LeaseEnds(t)
             \/ Recover(t)
      PROVE  RowsType' /\ \A u \in Tasks : RowStep(u) /\ GateStep(u)
  <2>1. UNCHANGED <<gate, task>>
    BY <1>4 DEF UpstreamEnds, BecomesOverdue, Settle, LeaseEnds, Recover,
                submission
  <2>2. RowsType'
    BY <1>4 DEF UpstreamEnds, BecomesOverdue, Settle, LeaseEnds, Recover,
                submission, RowsType
  <2>3. QED
    BY <2>1, <2>2, RowsKept
<1>5. ASSUME NEW p \in Runs, RunStep(p)
      PROVE  RowsType' /\ \A u \in Tasks : RowStep(u) /\ GateStep(u)
  <2>1. UNCHANGED <<submission, overdue, faults>>
    BY <1>5 DEF RunStep, StartRun, ListPolled, ListQueued, EndRun,
                ReleaseExpired, Take, Probe, Execute, MarkRunning, RenewLease,
                FailTask, ReleaseFailed, CheckBilling, SignalSucceeded,
                FinishTask
  <2>2. UNCHANGED gate
    BY <2>1 DEF submission
  <2>3. CASE StartRun(p)
    BY <2>1, <2>2, <2>3 DEF StartRun, Expirable, submission, RowsType,
                            RowStep, GateStep, Active, Closed
  <2>4. CASE MarkRunning(p)
    BY <2>1, <2>2, <2>4, ItemIsTask
    DEF MarkRunning, At, submission, RowsType, RowStep, GateStep, Active
  <2>5. CASE FailTask(p)
    BY <2>1, <2>2, <2>5, ItemIsTask
    DEF FailTask, At, submission, RowsType, RowStep, GateStep, Active, Closed
  <2>6. CASE FinishTask(p)
    BY <2>1, <2>2, <2>6, ItemIsTask
    DEF FinishTask, At, submission, RowsType, RowStep, GateStep, Active,
        Closed
  <2>7. ASSUME UNCHANGED task
        PROVE  RowsType' /\ \A u \in Tasks : RowStep(u) /\ GateStep(u)
    BY <2>1, <2>2, <2>7, RowsKept DEF submission, RowsType
  <2>8. ASSUME \/ ListPolled(p) \/ ListQueued(p) \/ EndRun(p)
               \/ \E t \in Tasks : ReleaseExpired(p, t) \/ Take(p, t)
               \/ Probe(p) \/ Execute(p) \/ RenewLease(p) \/ ReleaseFailed(p)
               \/ CheckBilling(p) \/ SignalSucceeded(p)
        PROVE  UNCHANGED task
    BY <2>8 DEF ListPolled, ListQueued, EndRun, ReleaseExpired, Take, Probe,
                Execute, RenewLease, ReleaseFailed, CheckBilling,
                SignalSucceeded
  <2>9. QED
    BY <1>5, <2>3, <2>4, <2>5, <2>6, <2>7, <2>8 DEF RunStep
<1>6. ASSUME NEW p \in Runs, SignalThrows(p) \/ Crash(p)
      PROVE  RowsType' /\ \A u \in Tasks : RowStep(u) /\ GateStep(u)
  BY <1>6, RowsKept DEF SignalThrows, Crash, Fault, submission, RowsType
<1>7. QED
  BY <1>1, <1>2, <1>3, <1>4, <1>5, <1>6 DEF Next, GatewayStep

-----------------------------------------------------------------------------
(* The runs                                                                  *)

Steps == {"take", "calling", "marking", "renewing", "failing", "releasing",
          "checking", "signalling", "finishing"}
Stages == {"idle", "expiring", "polling", "executing"}

LEMMA RunIs ==
  Run = [stage : Stages, todo : SUBSET Tasks, item : Tasks \cup {None},
         step : Steps]
BY DEF Run, Steps, Stages

LEMMA IdleRunType == IdleRun \in Run
BY RunIs DEF IdleRun, Steps, Stages

\* A row is stored at the gateway's last step.
GateInv == \A t \in Tasks : gate[t] # "done" => task[t] = "none"

Accepted == {"owed", "charged", "forgiven"}

\* A run reports the rows it expired, reports a row it closed as failed, and
\* finishes a row only with the receipt in billing.
RunOk(q) ==
  /\ run[q].stage \in {"idle", "expiring"} => run[q].item = None
  /\ run[q].stage = "expiring" => \A t \in run[q].todo : task[t] = "expired"
  /\ At(q, "releasing") => task[Item(q)] = "failed"
  /\ At(q, "finishing") => bill[Item(q)] \in Accepted

RunInv == \A q \in Runs : RunOk(q)

LEMMA GateInvKept ==
  ASSUME RowsType, GateInv, \A t \in Tasks : RowStep(t) /\ GateStep(t)
  PROVE  GateInv'
BY DEF GateInv, RowStep, GateStep, Active, RowsType

LEMMA ClosedStays ==
  ASSUME RowsType, GateInv, \A t \in Tasks : RowStep(t), NEW t \in Tasks,
         task[t] \in Closed
  PROVE  task'[t] = task[t]
BY DEF GateInv, RowStep, Active, Closed

LEMMA AcceptedStays ==
  ASSUME \A t \in Tasks : BillStep(t), NEW t \in Tasks, bill[t] \in Accepted
  PROVE  bill'[t] \in Accepted
BY DEF BillStep, Accepted

LEMMA RunOkKept ==
  ASSUME RowsType, RunsType, GateInv, \A t \in Tasks : RowStep(t),
         \A t \in Tasks : BillStep(t), NEW q \in Runs, RunOk(q),
         run'[q] = run[q]
  PROVE  RunOk(q)'
<1>1. \A t \in Tasks : task[t] \in {"expired", "failed"} => task'[t] = task[t]
  BY ClosedStays DEF Closed
<1>2. \A t \in run[q].todo : t \in Tasks
  BY RunIs DEF RunsType
<1>3. run[q].item # None => Item(q) \in Tasks
  BY ItemIsTask
<1>4. QED
  BY <1>1, <1>2, <1>3, AcceptedStays DEF RunOk, At, Item

\* A run that drops its item keeps the rest.
LEMMA NextItemIs ==
  ASSUME RunsType, NEW p \in Runs, NextItem(p)
  PROVE  /\ RunsType' /\ \A q \in Runs : q # p => run'[q] = run[q]
         /\ run'[p].item = None /\ run'[p].stage = run[p].stage
         /\ run'[p].todo = run[p].todo
<1>1. PICK k \in Run : k = run[p]
  BY DEF RunsType
<1>2. PICK n : n = [k EXCEPT !.item = None, !.step = "take"]
  OBVIOUS
<1>3. n \in Run /\ n.item = None /\ n.stage = k.stage /\ n.todo = k.todo
  BY <1>2, RunIs DEF Steps
<1>4. run' = [run EXCEPT ![p] = n]
  BY <1>1, <1>2 DEF NextItem
<1>5. QED
  BY <1>1, <1>3, <1>4 DEF RunsType

\* The step of a run leaves the other runs alone, and itself in a good state.
LEMMA RunSteps ==
  ASSUME RowsType, BillsType, RunsType, GateInv, RunInv, NEW p \in Runs,
         RunStep(p), \A t \in Tasks : RowStep(t), \A t \in Tasks : BillStep(t)
  PROVE  /\ RunsType'
         /\ \A q \in Runs : q # p => run'[q] = run[q]
         /\ RunOk(p)'
<1> USE RunIs DEF RunsType, Steps, Stages
<1> DEFINE Goal == /\ RunsType'
                   /\ \A q \in Runs : q # p => run'[q] = run[q]
                   /\ RunOk(p)'
<1>0. RunOk(p) /\ (run[p].item # None => Item(p) \in Tasks)
  BY ItemIsTask DEF RunInv
<1>1. ASSUME NEW stage \in Stages, NEW rows \in SUBSET Tasks,
             List(p, stage, rows),
             stage = "expiring" => \A t \in rows : task'[t] = "expired"
      PROVE  Goal
  BY <1>1 DEF List, RunOk, At, Item
<1>2. CASE StartRun(p)
  <2>1. \A t \in {u \in Tasks : Expirable(u)} : task'[t] = "expired"
    BY <1>2 DEF StartRun
  <2>2. QED
    BY <1>1, <1>2, <2>1 DEF StartRun
<1>3. CASE ListPolled(p) \/ ListQueued(p)
  <2> DEFINE videos == {t \in Tasks : kind[t] = "video" /\ task[t] \in Active}
             songs == {t \in Tasks : kind[t] = "music" /\ task[t] = "queued"}
  <2>1. videos \in SUBSET Tasks /\ songs \in SUBSET Tasks
    OBVIOUS
  <2>2. List(p, "polling", videos) \/ List(p, "executing", songs)
    BY <1>3 DEF ListPolled, ListQueued
  <2> HIDE DEF videos, songs
  <2>3. QED
    BY <1>1, <2>1, <2>2
<1>4. CASE EndRun(p)
  BY <1>4, IdleRunType DEF EndRun, RunOk, At, Item, IdleRun
<1>5. ASSUME NEW t \in Tasks, ReleaseExpired(p, t)
      PROVE  Goal
  <2>1. \A u \in Tasks : task[u] = "expired" => task'[u] = "expired"
    BY ClosedStays DEF Closed
  <2>2. /\ RunsType' /\ \A q \in Runs : q # p => run'[q] = run[q]
        /\ run'[p].stage = "expiring" /\ run'[p].item = run[p].item
        /\ run'[p].todo \subseteq run[p].todo
    BY <1>5 DEF ReleaseExpired
  <2>3. QED
    BY <1>0, <1>5, <2>1, <2>2 DEF RunOk, At, Item, ReleaseExpired
<1>6. ASSUME NEW t \in Tasks, Take(p, t)
      PROVE  Goal
  <2> DEFINE rest == run[p].todo \ {t}
  <2>1. rest \in SUBSET Tasks
    OBVIOUS
  <2> HIDE DEF rest
  <2>2. CASE run' = [run EXCEPT ![p] = [run[p] EXCEPT !.todo = rest,
                                          !.item = t, !.step = "calling"]]
    <3> DEFINE next == [run[p] EXCEPT !.todo = rest, !.item = t,
                                      !.step = "calling"]
    <3>1. next \in Run
      BY <2>1
    <3>2. next.stage = run[p].stage /\ next.step = "calling"
      OBVIOUS
    <3> HIDE DEF next
    <3>3. run' = [run EXCEPT ![p] = next]
      BY <2>2 DEF next
    <3>4. run'[p] = next /\ \A q \in Runs : q # p => run'[q] = run[q]
      BY <3>3
    <3>5. RunOk(p)'
      BY <1>6, <3>2, <3>4 DEF Take, RunOk, At
    <3>6. QED
      BY <3>1, <3>3, <3>4, <3>5
  <2>3. CASE run' = [run EXCEPT ![p].todo = rest]
    BY <1>6, <2>1, <2>3 DEF Take, RunOk, At, Item
  <2>4. QED
    BY <1>6, <2>2, <2>3 DEF Take, rest
<1>7. ASSUME NextItem(p)
      PROVE  /\ RunsType' /\ \A q \in Runs : q # p => run'[q] = run[q]
             /\ run'[p].item = None /\ run'[p].stage = run[p].stage
             /\ run'[p].todo = run[p].todo
  BY <1>7, NextItemIs
<1>8. ASSUME NextItem(p), run[p].item # None
      PROVE  Goal
  BY <1>0, <1>7, <1>8 DEF RunOk, At
<1>9. ASSUME NEW step \in Steps, Goto(p, step)
      PROVE  /\ RunsType' /\ \A q \in Runs : q # p => run'[q] = run[q]
             /\ run'[p].item = run[p].item /\ run'[p].stage = run[p].stage
             /\ run'[p].step = step
  BY <1>9 DEF Goto
<1>10. ASSUME NEW step \in Steps, Goto(p, step), run[p].item # None,
              step = "releasing" => task'[Item(p)] = "failed",
              step = "finishing" => bill'[Item(p)] \in Accepted
       PROVE  Goal
  BY <1>0, <1>9, <1>10 DEF RunOk, At, Item
<1>11. CASE Probe(p) \/ Execute(p) \/ MarkRunning(p)
  <2>1. /\ run[p].item # None
        /\ \E step \in {"renewing", "marking", "failing", "checking"} :
             Goto(p, step)
    BY <1>11 DEF Probe, Execute, MarkRunning, At, AfterFailure, AfterSuccess
  <2>2. QED
    BY <1>10, <2>1
<1>12. CASE RenewLease(p) \/ ReleaseFailed(p) \/ FinishTask(p)
  BY <1>8, <1>12 DEF RenewLease, ReleaseFailed, FinishTask, At
<1>13. CASE FailTask(p)
  <2>1. CASE task' = [task EXCEPT ![Item(p)] = "failed"] /\ Goto(p, "releasing")
    BY <1>0, <1>10, <1>13, <2>1 DEF FailTask, At, RowsType
  <2>2. QED
    BY <1>8, <1>13, <2>1 DEF FailTask, At
<1>14. CASE CheckBilling(p)
  <2>1. CASE bill[Item(p)] \in Landed /\ Goto(p, "finishing")
    <3>1. bill'[Item(p)] \in Accepted
      BY <1>14, <2>1 DEF CheckBilling, Landed, Accepted, billing
    <3>2. QED
      BY <1>10, <1>14, <2>1, <3>1 DEF CheckBilling, At
  <2>2. CASE Goto(p, "signalling")
    BY <1>10, <1>14, <2>2 DEF CheckBilling, At
  <2>3. QED
    BY <1>14, <2>1, <2>2 DEF CheckBilling
<1>15. CASE SignalSucceeded(p)
  <2>1. CASE Accepts(Item(p)) /\ AcceptReceipt(Item(p)) /\ Goto(p, "finishing")
    <3>1. bill'[Item(p)] = "owed"
      BY <1>0, <1>15, <2>1, AcceptEffect DEF SignalSucceeded, At
    <3>2. QED
      BY <1>10, <1>15, <2>1, <3>1 DEF SignalSucceeded, At, Accepted
  <2>2. CASE /\ bill[Item(p)] \in {"owed", "charged"}
             /\ Goto(p, "finishing") /\ UNCHANGED billing
    BY <1>10, <1>15, <2>2 DEF SignalSucceeded, At, Accepted, billing
  <2>3. CASE NextItem(p)
    BY <1>8, <1>15, <2>3 DEF SignalSucceeded, At
  <2>4. QED
    BY <1>15, <2>1, <2>2, <2>3 DEF SignalSucceeded
<1>16. QED
  BY <1>2, <1>3, <1>4, <1>5, <1>6, <1>11, <1>12, <1>13, <1>14, <1>15
  DEF RunStep

\* The steps of the others leave every run alone.
LEMMA OthersKeepRuns ==
  ASSUME NEW t \in Tasks,
         \/ GatewayStep(t) \/ UpstreamEnds(t) \/ BecomesOverdue(t)
         \/ Settle(t) \/ LeaseEnds(t) \/ Recover(t)
  PROVE  UNCHANGED run
BY DEF GatewayStep, Authorize, UpstreamStarted, Submit, GiveUp, Persist,
       GatewayDies, UpstreamEnds, BecomesOverdue, Settle, LeaseEnds, Recover

\* A signal that throws and a crash only make a run drop what it holds.
LEMMA FaultSteps ==
  ASSUME RowsType, RunsType, GateInv, RunInv, NEW p \in Runs,
         SignalThrows(p) \/ Crash(p),
         \A t \in Tasks : RowStep(t)
  PROVE  /\ RunsType'
         /\ \A q \in Runs : q # p => run'[q] = run[q]
         /\ RunOk(p)'
<1> USE RunIs DEF RunsType, Steps, Stages
<1>0. RunOk(p) /\ UNCHANGED task
  BY DEF RunInv, SignalThrows, Crash
<1>1. CASE NextItem(p) /\ run[p].item # None
  <2>1. /\ RunsType' /\ \A q \in Runs : q # p => run'[q] = run[q]
        /\ run'[p].item = None /\ run'[p].stage = run[p].stage
    BY <1>1, NextItemIs
  <2>2. QED
    BY <1>0, <1>1, <2>1 DEF RunOk, At
<1>2. ASSUME NEW t \in Tasks, run[p].stage = "expiring",
             run' = [run EXCEPT ![p].todo = @ \ {t}]
      PROVE  /\ RunsType'
             /\ \A q \in Runs : q # p => run'[q] = run[q]
             /\ RunOk(p)'
  <2>1. /\ RunsType' /\ \A q \in Runs : q # p => run'[q] = run[q]
        /\ run'[p].stage = "expiring" /\ run'[p].item = run[p].item
        /\ run'[p].todo \subseteq run[p].todo
    BY <1>2
  <2>2. QED
    BY <1>0, <1>2, <2>1 DEF RunOk, At, Item
<1>3. CASE run' = [run EXCEPT ![p] = IdleRun]
  BY <1>3, IdleRunType DEF RunOk, At, Item, IdleRun
<1>4. \A t \in run[p].todo : t \in Tasks
  OBVIOUS
<1>5. QED
  BY <1>1, <1>2, <1>3, <1>4 DEF SignalThrows, Crash

-----------------------------------------------------------------------------
(* The theorems                                                              *)

\* A row is closed as succeeded by a run that finishes it, and reports of
\* failure go to closed rows; with what the runs hold this is inductive.
IInv ==
  /\ RowsType /\ BillsType /\ RunsType
  /\ GateInv /\ RunInv
  /\ DeliveredIsOwed
  /\ ReportedIsUndelivered

LEMMA IInvInit == Init => IInv
<1> SUFFICES ASSUME Init PROVE IInv
  OBVIOUS
<1>1. RowsType /\ BillsType
  BY DEF Init, RowsType, BillsType, Bill!Init, Bill!TypeOK, Bill!Outcomes
<1>2. RunsType /\ RunInv
  BY IdleRunType DEF Init, RunsType, RunInv, RunOk, At, Item, IdleRun
<1>3. GateInv /\ DeliveredIsOwed /\ ReportedIsUndelivered
  BY DEF Init, GateInv, DeliveredIsOwed, ReportedIsUndelivered
<1>4. QED
  BY <1>1, <1>2, <1>3 DEF IInv

\* Who writes the failure code of a report.
LEMMA Reports ==
  ASSUME IInv, Next, \A t \in Tasks : RowStep(t), NEW t \in Tasks,
         freed'[t] = "reported", freed[t] # "reported"
  PROVE  \/ task'[t] \in {"failed", "expired"}
         \/ task'[t] = "none" /\ gate'[t] = "done"
<1> USE DEF IInv
<1>1. ASSUME NEW u \in Tasks, ReportFailure(u)
      PROVE  u = t
  BY <1>1, ReportEffect DEF OnlyBill
<1>2. ASSUME NEW u \in Tasks, GiveUp(u)
      PROVE  task'[t] = "none" /\ gate'[t] = "done"
  BY <1>1, <1>2 DEF GiveUp, Advance, GateInv, RowsType
<1>3. ASSUME NEW p \in Runs, NEW u \in Tasks, ReleaseExpired(p, u)
      PROVE  task'[t] = "expired"
  <2>1. u = t /\ task[t] = "expired"
    BY <1>1, <1>3 DEF ReleaseExpired, RunInv, RunOk
  <2>2. QED
    BY <1>3, <2>1 DEF ReleaseExpired
<1>4. ASSUME NEW p \in Runs, ReleaseFailed(p)
      PROVE  task'[t] = "failed"
  <2>1. Item(p) \in Tasks
    BY <1>4, ItemIsTask DEF ReleaseFailed, At
  <2>2. Item(p) = t /\ task[t] = "failed"
    BY <1>1, <1>4, <2>1 DEF ReleaseFailed, RunInv, RunOk
  <2>3. QED
    BY <1>4, <2>2 DEF ReleaseFailed
<1>5. ASSUME NEW u \in Tasks, Recover(u)
      PROVE  FALSE
  BY <1>5, GiveBackEffect DEF Recover, OnlyBill
<1>6. ASSUME NEW u \in Tasks,
             \/ Authorize(u) \/ UpstreamStarted(u) \/ Submit(u) \/ Persist(u)
             \/ GatewayDies(u) \/ UpstreamEnds(u) \/ BecomesOverdue(u)
             \/ Settle(u) \/ LeaseEnds(u)
      PROVE  FALSE
  BY <1>6 DEF Authorize, UpstreamStarted, Submit, Persist, GatewayDies,
              UpstreamEnds, BecomesOverdue, Settle, LeaseEnds, billing
<1>7. ASSUME NEW p \in Runs,
             \/ StartRun(p) \/ ListPolled(p) \/ ListQueued(p) \/ EndRun(p)
             \/ \E u \in Tasks : Take(p, u)
             \/ Probe(p) \/ Execute(p) \/ MarkRunning(p) \/ RenewLease(p)
             \/ FailTask(p) \/ CheckBilling(p) \/ FinishTask(p)
             \/ SignalThrows(p) \/ Crash(p)
      PROVE  FALSE
  BY <1>7 DEF StartRun, ListPolled, ListQueued, EndRun, Take, Probe, Execute,
              MarkRunning, RenewLease, FailTask, CheckBilling, FinishTask,
              SignalThrows, Crash, billing
<1>8. ASSUME NEW p \in Runs, SignalSucceeded(p)
      PROVE  FALSE
  BY <1>8 DEF SignalSucceeded, AcceptReceipt, billing
<1>9. QED
  BY <1>2, <1>3, <1>4, <1>5, <1>6, <1>7, <1>8
  DEF Next, GatewayStep, RunStep

LEMMA IInvNext == IInv /\ [Next]_vars => IInv'
<1> SUFFICES ASSUME IInv, [Next]_vars PROVE IInv'
  OBVIOUS
<1> USE DEF IInv
<1>1. CASE UNCHANGED vars
  BY <1>1 DEF vars, submission, billing, RowsType, BillsType, RunsType,
              GateInv, RunInv, RunOk, At, Item, DeliveredIsOwed,
              ReportedIsUndelivered, Bill!TypeOK
<1>2. CASE Next
  <2>1. RowsType' /\ \A t \in Tasks : RowStep(t) /\ GateStep(t)
    BY <1>2, RowSteps
  <2>2. BillsType' /\ \A t \in Tasks : BillStep(t)
    BY <1>2, BillSteps
  <2>3. GateInv'
    BY <2>1, GateInvKept
  <2>4. RunsType' /\ RunInv'
    <3>1. ASSUME UNCHANGED run
          PROVE  RunsType' /\ RunInv'
      BY <2>1, <2>2, <3>1, RunOkKept DEF RunsType, RunInv
    <3>2. ASSUME NEW p \in Runs, RunsType', RunOk(p)',
                 \A q \in Runs : q # p => run'[q] = run[q]
          PROVE  RunsType' /\ RunInv'
      BY <2>1, <2>2, <3>2, RunOkKept DEF RunInv
    <3>3. CASE \E p \in Runs : RunStep(p)
      BY <2>1, <2>2, <3>2, <3>3, RunSteps
    <3>4. CASE \E p \in Runs : SignalThrows(p) \/ Crash(p)
      BY <2>1, <3>2, <3>4, FaultSteps
    <3>5. QED
      BY <1>2, <3>1, <3>3, <3>4, OthersKeepRuns DEF Next
  <2>5. DeliveredIsOwed'
    <3> SUFFICES ASSUME NEW t \in Tasks, task'[t] = "succeeded"
                 PROVE  bill'[t] \in Accepted
      BY DEF DeliveredIsOwed, Accepted
    <3>1. bill[t] \in Accepted
      BY <2>1 DEF RowStep, RunInv, RunOk, DeliveredIsOwed, Accepted
    <3>2. QED
      BY <2>2, <3>1, AcceptedStays
  <2>6. ReportedIsUndelivered'
    <3> SUFFICES ASSUME NEW t \in Tasks, freed'[t] = "reported"
                 PROVE  /\ bill'[t] = "returned"
                        /\ \/ task'[t] \in {"failed", "expired"}
                           \/ task'[t] = "none" /\ gate'[t] = "done"
      BY DEF ReportedIsUndelivered
    <3>1. CASE freed[t] = "reported"
      <4>1. bill[t] = "returned"
        BY <3>1 DEF ReportedIsUndelivered
      <4>2. bill'[t] = "returned"
        BY <2>2, <4>1 DEF BillStep
      <4>3. CASE task[t] \in {"failed", "expired"}
        BY <2>1, <4>2, <4>3, ClosedStays DEF Closed
      <4>4. CASE task[t] = "none" /\ gate[t] = "done"
        BY <2>1, <4>2, <4>4 DEF RowStep, GateStep, Active
      <4>5. QED
        BY <3>1, <4>3, <4>4 DEF ReportedIsUndelivered
    <3>2. CASE freed[t] # "reported"
      <4>1. bill'[t] = "returned"
        BY <2>2, <3>2 DEF BillStep
      <4>2. QED
        BY <1>2, <2>1, <3>2, <4>1, Reports
    <3>3. QED
      BY <3>1, <3>2
  <2>7. QED
    BY <2>1, <2>2, <2>3, <2>4, <2>5, <2>6
<1>3. QED
  BY <1>1, <1>2

LEMMA IInvHolds == Spec => []IInv
BY IInvInit, IInvNext, PTL DEF Spec

\* The columns keep their domains, and a request has a lease exactly while it
\* holds money (schema of generation_tasks, signal.ts).
THEOREM TypeCorrect == Spec => []TypeOK
<1>1. IInv => TypeOK
  BY TypeParts DEF IInv
<1>2. QED
  BY <1>1, IInvHolds, PTL

\* No result is handed out without its receipt in billing, however many runs
\* work on a task and wherever they crash (settleSucceeded).
THEOREM DeliveredOwed == Spec => []DeliveredIsOwed
<1>1. IInv => DeliveredIsOwed
  BY DEF IInv
<1>2. QED
  BY <1>1, IInvHolds, PTL

\* A hold is given back on a report of failure only for a task that nobody is
\* going to deliver (settleFailed, expireScan, releaseAndFail).
THEOREM ReportedUndelivered == Spec => []ReportedIsUndelivered
<1>1. IInv => ReportedIsUndelivered
  BY DEF IInv
<1>2. QED
  BY <1>1, IInvHolds, PTL

-----------------------------------------------------------------------------
(* The promise of billing                                                    *)

LEMMA ReportMoves ==
  ASSUME NEW t \in Tasks, ReportFailure(t)
  PROVE  Bill!Next \/ UNCHANGED bill
BY DEF ReportFailure, GiveBack, Bill!Next, billing

\* The one transition that is written as an update is that of a receipt.
LEMMA AcceptMoves ==
  ASSUME BillsType, NEW t \in Tasks, Accepts(t), AcceptReceipt(t)
  PROVE  Bill!Next
<1>1. bill \in [Tasks -> Bill!Outcomes] /\ bill[t] = "held"
  BY DEF BillsType, Bill!TypeOK, Accepts, Held
<1>2. bill' = [u \in Tasks |-> IF u \in {t} THEN "owed" ELSE bill[u]]
  BY <1>1 DEF AcceptReceipt
<1>3. Bill!Owe(t)
  BY <1>1, <1>2 DEF Bill!Owe, Bill!Move
<1>4. QED
  BY <1>3 DEF Bill!Next

\* Whoever takes a step, billing sees one of its own.
LEMMA StepMoves ==
  ASSUME BillsType, RunsType, Next
  PROVE  Bill!Next \/ UNCHANGED bill
<1>1. ASSUME NEW t \in Tasks, GatewayStep(t)
      PROVE  Bill!Next \/ UNCHANGED bill
  <2>1. CASE Authorize(t)
    BY <2>1 DEF Authorize, Bill!Next
  <2>2. CASE GiveUp(t)
    BY <2>2, ReportMoves DEF GiveUp
  <2>3. CASE UpstreamStarted(t) \/ Submit(t) \/ Persist(t) \/ GatewayDies(t)
    BY <2>3 DEF UpstreamStarted, Submit, Persist, GatewayDies, billing
  <2>4. QED
    BY <1>1, <2>1, <2>2, <2>3 DEF GatewayStep
<1>2. ASSUME NEW t \in Tasks,
             UpstreamEnds(t) \/ BecomesOverdue(t) \/ LeaseEnds(t)
      PROVE  UNCHANGED bill
  BY <1>2 DEF UpstreamEnds, BecomesOverdue, LeaseEnds, billing
<1>3. ASSUME NEW t \in Tasks, Settle(t)
      PROVE  Bill!Next
  <2>1. {t} \in SUBSET Tasks
    OBVIOUS
  <2>2. QED
    BY <1>3, <2>1 DEF Settle, Bill!Next
<1>4. ASSUME NEW t \in Tasks, Recover(t)
      PROVE  Bill!Next
  BY <1>4 DEF Recover, GiveBack, Bill!Next
<1>5. ASSUME NEW p \in Runs, RunStep(p)
      PROVE  Bill!Next \/ UNCHANGED bill
  <2>1. CASE \/ StartRun(p) \/ ListPolled(p) \/ ListQueued(p) \/ EndRun(p)
             \/ \E t \in Tasks : Take(p, t)
             \/ Probe(p) \/ Execute(p) \/ MarkRunning(p) \/ RenewLease(p)
             \/ FailTask(p) \/ CheckBilling(p) \/ FinishTask(p)
    BY <2>1 DEF StartRun, ListPolled, ListQueued, EndRun, Take, Probe, Execute,
                MarkRunning, RenewLease, FailTask, CheckBilling, FinishTask,
                billing
  <2>2. ASSUME NEW t \in Tasks, ReleaseExpired(p, t)
        PROVE  Bill!Next \/ UNCHANGED bill
    BY <2>2, ReportMoves DEF ReleaseExpired
  <2>3. CASE ReleaseFailed(p)
    BY <2>3, ItemIsTask, ReportMoves DEF ReleaseFailed, At
  <2>4. CASE SignalSucceeded(p)
    BY <2>4, ItemIsTask, AcceptMoves DEF SignalSucceeded, At, billing
  <2>5. QED
    BY <1>5, <2>1, <2>2, <2>3, <2>4 DEF RunStep
<1>6. ASSUME NEW p \in Runs, SignalThrows(p) \/ Crash(p)
      PROVE  UNCHANGED bill
  BY <1>6 DEF SignalThrows, Crash, billing
<1>7. QED
  BY <1>1, <1>2, <1>3, <1>4, <1>5, <1>6 DEF Next

\* Gateway, poll runs and recovery use billing within the promise that
\* Settlement keeps: through every race of a signal, an expiry and a recovery,
\* what has been returned is not owed any more and what is owed is not given
\* back (generation-poll.ts, signal.ts).
THEOREM BillsAsPromised == Spec => Bill!Spec
<1>1. Init => Bill!Init
  BY DEF Init
<1>2. IInv /\ [Next]_vars => [Bill!Next]_bill
  BY StepMoves DEF IInv, vars, billing
<1>3. QED
  BY <1>1, <1>2, IInvHolds, PTL DEF Spec, Bill!Spec

=============================================================================
