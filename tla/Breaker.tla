------------------------------ MODULE Breaker ------------------------------
(***************************************************************************)
(* The circuit breaker of one upstream host (health/breaker.ts) as the     *)
(* gateways share it: a versioned record with a time to live in Redis,     *)
(* moved by compare-and-set only, read by every request before it is sent  *)
(* and written by what the events of ai say of it (channel-health.ts).     *)
(*                                                                         *)
(* Recording is fire and forget: it runs beside the request, may be        *)
(* overtaken, and a request may be recorded as a success at its first      *)
(* chunk and once more at its end.                                         *)
(*                                                                         *)
(* A request is one attempt at the host and is made once, which bounds     *)
(* the versions.  The clock is the time left and the time since, and it    *)
(* moves between the round trips to Redis, which are much shorter than     *)
(* the window and the cooldown.                                            *)
(***************************************************************************)
EXTENDS Integers, FiniteSets, Functions

CONSTANTS
  Attempts,          \* attempts at the host
  WindowMs,          \* windowMs
  Cooldown,          \* cooldownMs
  Thresholds,        \* the values of failureThreshold that are configured
  ProbeModes,        \* those of halfOpenProbe
  MaxRetries         \* CAS_MAX_RETRIES

ASSUME ConfigAssumption ==
  /\ WindowMs \in Nat \ {0} /\ Cooldown \in Nat \ {0}
  /\ Thresholds \subseteq Nat \ {0} /\ ProbeModes \subseteq BOOLEAN
  /\ MaxRetries \in Nat \ {0}

VARIABLES
  store,   \* the record under the key of the host
  config,  \* failureThreshold and halfOpenProbe
  phase,   \* where each request is
  seen,    \* the record that a request read for its admission
  task     \* the recordings of each request

breakerVars == <<store, config, phase, seen, task>>
-----------------------------------------------------------------------------
\* failures maps the recorded requests to the time since; an age beyond the
\* window is kept as the first such age.
FailureAges == UNION {[R -> 0..WindowMs + 1] : R \in SUBSET Attempts}

BreakerState ==
  [state : {"closed", "open", "half-open"}, failures : FailureAges,
   cooling : 0..Cooldown, version : Nat, ttl : 0..Cooldown + WindowMs]

\* A missing key is read as this, and version 0 is what its CAS expects.
ClosedState ==
  [state |-> "closed", failures |-> <<>>, cooling |-> 0, version |-> 0, ttl |-> 0]

Config == [failureThreshold : Thresholds, halfOpenProbe : ProbeModes]

Tasks == Attempts \X {"first_chunk", "final"}
Task ==
  [step : {"none", "load", "cas", "done"}, success : BOOLEAN,
   retries : 0..MaxRetries - 1, state : BreakerState]

NoTask ==
  [step |-> "none", success |-> FALSE, retries |-> 0, state |-> ClosedState]

Phases == {"new", "deciding", "admitted", "sent", "streaming", "ended", "refused"}

BreakerTypeOK ==
  /\ store \in BreakerState
  /\ config \in Config
  /\ phase \in [Attempts -> Phases]
  /\ seen \in [Attempts -> BreakerState]
  /\ task \in [Tasks -> Task]

BreakerInit ==
  /\ store = ClosedState
  /\ config \in Config
  /\ phase = [r \in Attempts |-> "new"]
  /\ seen = [r \in Attempts |-> ClosedState]
  /\ task = [x \in Tasks |-> NoTask]
-----------------------------------------------------------------------------
Closed(s) == [s EXCEPT !.state = "closed", !.failures = <<>>, !.cooling = 0]
HalfOpen(s) == [s EXCEPT !.state = "half-open"]
Opened(s) == [s EXCEPT !.state = "open", !.failures = <<>>, !.cooling = Cooldown]

\* The failures of the window, and one more.
Recent(f) == Restrict(f, {r \in DOMAIN f : f[r] <= WindowMs})
WithFailure(f, r) == [x \in DOMAIN Recent(f) \cup {r} |-> IF x = r THEN 0 ELSE f[x]]

\* What a failure of request r makes of the record s.
AfterFailure(s, r) ==
  IF s.state = "half-open"
     \/ Cardinality(DOMAIN WithFailure(s.failures, r)) >= config.failureThreshold
  THEN Opened(s) ELSE [s EXCEPT !.failures = WithFailure(s.failures, r)]

\* compareAndSet: the whole record is written over the version that was read.
AnyVersion(current) == TRUE
Matches(current) == store.version = current.version

ShortTtl == WindowMs
Ttl == Cooldown + WindowMs
Cas(current, next) ==
  store' = IF Matches(current)
           THEN [next EXCEPT !.version = current.version + 1, !.ttl = Ttl]
           ELSE store
-----------------------------------------------------------------------------
Goes(r, p) == phase' = [phase EXCEPT ![r] = p]

\* breakerCanRequest reads the record; only an open one that has cooled down
\* needs a CAS, and a half-open one is for its probe alone.
LoadForAdmission(r) ==
  /\ phase[r] = "new"
  /\ CASE store.state = "closed" -> Goes(r, "admitted") /\ UNCHANGED seen
       [] store.state = "half-open" -> Goes(r, "refused") /\ UNCHANGED seen
       [] store.state = "open" ->
            IF store.cooling > 0 THEN Goes(r, "refused") /\ UNCHANGED seen
            ELSE Goes(r, "deciding") /\ seen' = [seen EXCEPT ![r] = store]
  /\ UNCHANGED <<store, config, task>>

\* The one whose CAS succeeds is let through, as the probe or as the first.
CasForAdmission(r) ==
  /\ phase[r] = "deciding"
  /\ Cas(seen[r], IF config.halfOpenProbe THEN HalfOpen(seen[r]) ELSE Closed(seen[r]))
  /\ Goes(r, IF Matches(seen[r]) THEN "admitted" ELSE "refused")
  /\ seen' = [seen EXCEPT ![r] = ClosedState]
  /\ UNCHANGED <<config, task>>

\* gateChannel: the dead credential, the penalty box and the budget of the
\* channel may refuse a request that the breaker let through.
RefuseByLaterGate(r) ==
  /\ phase[r] = "admitted"
  /\ Goes(r, "refused")
  /\ UNCHANGED <<store, config, seen, task>>

AttemptStart(r) ==
  /\ phase[r] = "admitted"
  /\ Goes(r, "sent")
  /\ UNCHANGED <<store, config, seen, task>>
-----------------------------------------------------------------------------
Fire(r, which, success) ==
  task' = [task EXCEPT ![<<r, which>>] = [NoTask EXCEPT !.step = "load", !.success = success]]

FirstChunk(r) ==
  /\ phase[r] = "sent"
  /\ Goes(r, "streaming")
  /\ Fire(r, "first_chunk", TRUE)
  /\ UNCHANGED <<store, config, seen>>

\* The terminal event: a success, a termination that is not the fault of the
\* channel counts as one; a failure that trips; or one that says nothing of the
\* channel (circuitTrip = false, empty_completion), which only an attempt that
\* has not begun to stream can have.
End(r) ==
  /\ phase[r] \in {"sent", "streaming"}
  /\ Goes(r, "ended")
  /\ \/ Fire(r, "final", TRUE)
     \/ Fire(r, "final", FALSE)
     \/ phase[r] = "sent" /\ UNCHANGED task
  /\ UNCHANGED <<store, config, seen>>
-----------------------------------------------------------------------------
To(x, step) == task' = [task EXCEPT ![x].step = step, ![x].state = ClosedState]

\* A success is of interest only to a half-open breaker, a failure to one that
\* is not open.
Ignores(x) ==
  IF task[x].success THEN store.state # "half-open" ELSE store.state = "open"

Load(x) ==
  /\ task[x].step = "load"
  /\ IF Ignores(x) THEN To(x, "done")
     ELSE task' = [task EXCEPT ![x].step = "cas", ![x].state = store]
  /\ UNCHANGED <<store, config, phase, seen>>

RecordSuccess(x) ==
  /\ task[x].step = "cas" /\ task[x].success
  /\ Cas(task[x].state, Closed(task[x].state))
  /\ To(x, "done")
  /\ UNCHANGED <<config, phase, seen>>

\* recordFailure tries again when its CAS was overtaken, and at last gives up.
RecordFailure(x) ==
  /\ task[x].step = "cas" /\ ~task[x].success
  /\ Cas(task[x].state, AfterFailure(task[x].state, x[1]))
  /\ IF Matches(task[x].state) \/ task[x].retries + 1 = MaxRetries THEN To(x, "done")
     ELSE task' = [task EXCEPT ![x].step = "load", ![x].state = ClosedState,
                               ![x].retries = @ + 1]
  /\ UNCHANGED <<config, phase, seen>>
-----------------------------------------------------------------------------
UnboundedLess(n) == n - 1
Less(n) == IF n > 0 THEN n - 1 ELSE 0
Older(f) == [r \in DOMAIN f |-> IF f[r] > WindowMs THEN f[r] ELSE f[r] + 1]

\* The record as it is one unit of time later; Redis drops it at its time.
Kept(s) ==
  [s EXCEPT !.ttl = Less(s.ttl), !.cooling = Less(s.cooling),
            !.failures = Older(s.failures)]
Later(s) == IF s.ttl <= 1 THEN ClosedState ELSE Kept(s)

\* No round trip to Redis is under way.
Quiet ==
  /\ \A r \in Attempts : phase[r] # "deciding"
  /\ \A x \in Tasks : task[x].step \in {"none", "done"}

TimePasses ==
  /\ Quiet
  /\ store.version > 0
  /\ store' = Later(store)
  /\ UNCHANGED <<config, phase, seen, task>>

Admission(r) == LoadForAdmission(r) \/ CasForAdmission(r)
Recording(x) == Load(x) \/ RecordSuccess(x) \/ RecordFailure(x)

BreakerNext ==
  \/ \E r \in Attempts :
       \/ Admission(r) \/ RefuseByLaterGate(r) \/ AttemptStart(r)
       \/ FirstChunk(r) \/ End(r)
  \/ \E x \in Tasks : Recording(x)
  \/ TimePasses

BreakerSpec == BreakerInit /\ [][BreakerNext]_breakerVars

\* Round trips end, and time passes; an upstream may never answer.
BreakerFairSpec ==
  /\ BreakerSpec
  /\ \A r \in Attempts : WF_breakerVars(CasForAdmission(r))
  /\ \A x \in Tasks : WF_breakerVars(Recording(x))
  /\ WF_breakerVars(TimePasses)
-----------------------------------------------------------------------------
\* An open breaker stays open until it has cooled down: no late answer and no
\* overtaken recording closes it, nor does the key vanish before.
OpenUntilCooled ==
  [][store.state = "open" /\ store.cooling > 0 => store'.state = "open"]_store

\* Concurrent recordings lose none of the failures on record: while the breaker
\* remains closed a failure leaves the record by age alone.
NoFailureIsLost ==
  [][store.state = "closed" /\ store'.state = "closed"
       => DOMAIN Recent(Older(store.failures)) \subseteq DOMAIN store'.failures]_store

\* Of all the requests that meet a cooled breaker one is let through: an
\* admission finds the breaker closed, or turns it half-open (or closed) itself.
OneProbe ==
  [][\A r \in Attempts :
       phase[r] # "admitted" /\ phase'[r] = "admitted" =>
         \/ store.state = "closed"
         \/ store.state = "open" /\ store.cooling = 0 /\ store'.state # "open"]_breakerVars

\* Whatever becomes of the probe, refused by a later gate or ended with nothing
\* to record, the breaker does not stay half-open and cut the host off.
HalfOpenEnds == [](store.state = "half-open" => <>(store.state # "half-open"))
=============================================================================
