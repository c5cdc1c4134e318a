------------------------ MODULE CircuitBreakerProofs ------------------------
(***************************************************************************)
(* For every threshold, interval, width of time.Duration and number of     *)
(* probes and requests in flight: the breaker's invariants.  IInv is       *)
(* inductive: FailureBudget needs ClosedIsClean (the counter is bounded    *)
(* while traffic may start) and ClosedIsClean needs NonClosedIsUnhealthy.  *)
(***************************************************************************)
EXTENDS CircuitBreaker, TLAPS

\* Duration arithmetic wraps around and stays a time.Duration.
LEMMA WrapInDuration == ASSUME NEW d \in Int PROVE Wrap(d) \in Duration
  BY DurationAssumption DEF Wrap, Duration

\* UpdateStatus(true) closes the circuit and leaves a clean backend, for any
\* failure count the late reports have left.
LEMMA UpdateHealthy ==
  ASSUME NEW b \in Backend, NEW ci \in Nat
  PROVE  UpdateStatus(b, TRUE, ci) = NewBackend
<1>1. MarkHealthy(b) = NewBackend
  <2>1. 0 \in Duration /\ "Closed" \in States
    BY DurationAssumption DEF Duration, States
  <2>2. TRUE \in BOOLEAN /\ 0 \in Int
    OBVIOUS
  <2>3. MarkHealthy(b) \in Backend
    BY <2>1, <2>2, Zenon DEF MarkHealthy, Backend
  <2>4. NewBackend \in Backend
    BY <2>1, <2>2, Zenon DEF NewBackend, Backend
  <2>5. /\ MarkHealthy(b).healthy = NewBackend.healthy
        /\ MarkHealthy(b).failureCount = NewBackend.failureCount
        /\ MarkHealthy(b).resetTimeOut = NewBackend.resetTimeOut
        /\ MarkHealthy(b).backofDuration = NewBackend.backofDuration
        /\ MarkHealthy(b).state = NewBackend.state
    BY DEF MarkHealthy, NewBackend, Backend
  <2> QED BY <2>3, <2>4, <2>5 DEF Backend
<1>2. ~Trips(NewBackend)
  BY ThresholdAssumption DEF Trips, NewBackend
<1>3. UpdateStatus(b, TRUE, ci) = IF Trips(MarkHealthy(b)) THEN OpenCircuit(MarkHealthy(b), ci)
                                                           ELSE MarkHealthy(b)
  BY DEF UpdateStatus
<1> QED BY <1>1, <1>2, <1>3

\* UpdateStatus(false) adds one failure, marks the backend unhealthy and opens
\* the circuit exactly at the threshold (backend.go 64).
LEMMA UpdateUnhealthy ==
  ASSUME NEW b \in Backend, NEW ci \in Nat
  PROVE  LET u == UpdateStatus(b, FALSE, ci)
         IN  /\ u \in Backend
             /\ ~u.healthy
             /\ u.failureCount = b.failureCount + 1
             /\ u.failureCount >= FailureThreshold => u.state = "Open"
             /\ u.failureCount < FailureThreshold =>
                   /\ u.state = b.state
                   /\ u.resetTimeOut = b.resetTimeOut
                   /\ u.backofDuration = b.backofDuration
<1> DEFINE c == CountFailure(b)
<1>1. /\ c \in Backend /\ ~c.healthy /\ c.failureCount = b.failureCount + 1
      /\ c.state = b.state /\ c.resetTimeOut = b.resetTimeOut
      /\ c.backofDuration = b.backofDuration
  <2>1. FALSE \in BOOLEAN /\ b.failureCount + 1 \in Int
    BY DEF Backend
  <2>2. c \in Backend
    BY <2>1, Zenon DEF CountFailure, Backend
  <2>3. /\ c.healthy = FALSE /\ c.failureCount = b.failureCount + 1
        /\ c.state = b.state /\ c.resetTimeOut = b.resetTimeOut
        /\ c.backofDuration = b.backofDuration
    BY DEF CountFailure, Backend
  <2> HIDE DEF c
  <2> QED BY <2>2, <2>3
<1>2. /\ c.resetTimeOut \in Int /\ c.backofDuration \in Int
  BY <1>1, DurationAssumption DEF Backend, Duration
<1>3. NextReset(c, ci) \in Duration
  <2>1. c.backofDuration + BackoffStep + ci * 2 \in Int
    BY <1>2, BackoffAssumption
  <2>2. c.resetTimeOut + BackoffStep + ci \in Int
    BY <1>2, BackoffAssumption
  <2> HIDE DEF c
  <2> QED BY <2>1, <2>2, WrapInDuration DEF NextReset
<1>4. NextBackoff(c) \in Duration
  <2>1. c.backofDuration * 2 \in Int /\ BackoffStep \in Int
    BY <1>2, BackoffAssumption
  <2> HIDE DEF c
  <2> QED BY <2>1, WrapInDuration DEF NextBackoff
<1>5. UpdateStatus(b, FALSE, ci) = IF Trips(c) THEN OpenCircuit(c, ci) ELSE c
  BY DEF UpdateStatus
<1> HIDE DEF c
<1>6. CASE Trips(c)
  <2>1. /\ OpenCircuit(c, ci) \in Backend
        /\ OpenCircuit(c, ci).state = "Open"
        /\ OpenCircuit(c, ci).healthy = c.healthy
        /\ OpenCircuit(c, ci).failureCount = c.failureCount
    BY <1>1, <1>3, <1>4 DEF OpenCircuit, Backend, States
  <2>2. UpdateStatus(b, FALSE, ci) = OpenCircuit(c, ci)
    BY <1>5, <1>6
  <2>3. c.failureCount >= FailureThreshold
    BY <1>6 DEF Trips
  <2>4. b.failureCount \in Int
    BY DEF Backend
  <2> DEFINE u == OpenCircuit(c, ci)
  <2>5. u \in Backend /\ ~u.healthy /\ u.state = "Open"
    BY <1>1, <2>1, Zenon
  <2>6. u.failureCount = b.failureCount + 1 /\ ~(u.failureCount < FailureThreshold)
    BY <1>1, <2>1, <2>3, <2>4, ThresholdAssumption
  <2> HIDE DEF u
  <2> QED BY <2>2, <2>5, <2>6, Zenon DEF u
<1>7. CASE ~Trips(c)
  <2>1. UpdateStatus(b, FALSE, ci) = c
    BY <1>5, <1>7
  <2>2. b.failureCount \in Int
    BY DEF Backend
  <2> QED BY <1>1, <1>7, <2>1, <2>2, ThresholdAssumption DEF Trips
<1> QED BY <1>6, <1>7

\* Asking the breaker never changes health, never closes or re-opens the
\* circuit, and takes a failure off exactly when it answers "half-open".
LEMMA CircuitStateChange ==
  ASSUME NEW b \in Backend, NEW ci \in Nat
  PROVE  LET g == GetCircuitState(b, ci)
         IN  /\ g \in Backend
             /\ g.healthy = b.healthy
             /\ b.state = "Closed" => g = b
             /\ b.state # "Closed" => g.state # "Closed"
             /\ g.failureCount <= b.failureCount
             /\ b.state # "Closed" /\ ShouldCheck(b, ci)
                   => g.failureCount = b.failureCount - 1
<1>1. CASE Waiting(b, ci)
  <2>1. b.resetTimeOut - ci \in Duration
    BY <1>1, DurationAssumption DEF Waiting, Backend, Duration
  <2>2. GetCircuitState(b, ci) = [b EXCEPT !.resetTimeOut = @ - ci]
    BY <1>1 DEF GetCircuitState, Waiting
  <2> QED BY <1>1, <2>1, <2>2 DEF Backend, States, Waiting, ShouldCheck
<1>2. CASE ~Waiting(b, ci) /\ b.state = "Closed"
  <2>1. GetCircuitState(b, ci) = b
    BY <1>2 DEF GetCircuitState
  <2> QED BY <1>2, <2>1 DEF Backend
<1>3. CASE ~Waiting(b, ci) /\ b.state # "Closed"
  <2>1. GetCircuitState(b, ci) = [b EXCEPT !.state = "HalfOpen", !.failureCount = @ - 1]
    BY <1>3 DEF GetCircuitState
  <2> DEFINE g == [b EXCEPT !.state = "HalfOpen", !.failureCount = @ - 1]
  <2>2. "HalfOpen" \in States /\ b.failureCount - 1 \in Int
    BY DEF Backend, States
  <2>3. g \in Backend
    BY <2>2, Zenon DEF Backend
  <2>4. g.healthy = b.healthy
    BY DEF Backend
  <2>5. g.state = "HalfOpen" /\ g.failureCount = b.failureCount - 1
    BY DEF Backend
  <2>6. b.failureCount \in Int
    BY DEF Backend
  <2>7. g.failureCount <= b.failureCount /\ g.state # "Closed"
    BY <2>5, <2>6
  <2> HIDE DEF g
  <2> QED BY <1>3, <2>1, <2>3, <2>4, <2>5, <2>7, Zenon DEF g
<1> QED BY <1>1, <1>2, <1>3

-----------------------------------------------------------------------------
\* A fresh backend satisfies the invariant.
LEMMA InitInv == Init => IInv
<1> SUFFICES ASSUME Init PROVE IInv
  OBVIOUS
<1>1. NewBackend \in Backend
  BY DurationAssumption DEF NewBackend, Backend, Duration, States
<1> QED BY <1>1, ThresholdAssumption, BoundAssumption
        DEF Init, IInv, TypeOK, NonClosedIsUnhealthy, ClosedIsClean, FailureBudget,
            NewBackend

\* A report, late or not, keeps what the invariant says of the backend, and
\* costs the failure budget no more than the probe or request it ends.
LEMMA ReportInv ==
  ASSUME IInv, NEW ok \in BOOLEAN, Report(ok)
  PROVE  /\ backend' \in Backend
         /\ NonClosedIsUnhealthy'
         /\ ClosedIsClean'
         /\ backend'.failureCount \in Int
         /\ backend'.failureCount <= FailureThreshold - 1
               \/ backend'.failureCount <= backend.failureCount + 1
<1> USE DEF IInv, TypeOK
<1>0. /\ backend' = UpdateStatus(backend, ok, HealthInterval)
      /\ HealthInterval \in Nat
      /\ backend \in Backend /\ backend.failureCount \in Int
  BY IntervalAssumption DEF Report, Backend
<1>1. CASE ok = TRUE
  <2>1. backend' = NewBackend
    BY <1>0, <1>1, UpdateHealthy
  <2>2. NewBackend \in Backend
    BY DurationAssumption DEF NewBackend, Backend, Duration, States
  <2> QED BY <2>1, <2>2, ThresholdAssumption
          DEF NonClosedIsUnhealthy, ClosedIsClean, NewBackend
<1>2. CASE ok = FALSE
  <2>1. /\ backend' \in Backend
        /\ ~backend'.healthy
        /\ backend'.failureCount = backend.failureCount + 1
        /\ backend'.failureCount >= FailureThreshold => backend'.state = "Open"
        /\ backend'.failureCount < FailureThreshold =>
              /\ backend'.state = backend.state
              /\ backend'.resetTimeOut = backend.resetTimeOut
              /\ backend'.backofDuration = backend.backofDuration
    BY <1>0, <1>2, UpdateUnhealthy
  <2>2. NonClosedIsUnhealthy'
    BY <2>1 DEF NonClosedIsUnhealthy
  <2>3. ClosedIsClean'
    BY <1>0, <2>1, ThresholdAssumption DEF ClosedIsClean
  <2> QED BY <1>0, <2>1, <2>2, <2>3
<1> QED BY <1>1, <1>2

\* Every step of every actor preserves the invariant.
LEMMA NextInv == IInv /\ [Next]_vars => IInv'
<1> SUFFICES ASSUME IInv, [Next]_vars PROVE IInv'
  OBVIOUS
<1> USE ThresholdAssumption, BoundAssumption, IntervalAssumption
<1>0. backend \in Backend /\ backend.failureCount \in Int
  BY DEF IInv, TypeOK, Backend
<1>1. CASE HealthTick
  <2> DEFINE g == GetCircuitState(backend, HealthInterval)
  <2>1. backend' = g
    BY <1>1 DEF HealthTick
  <2>2. /\ g \in Backend
        /\ g.healthy = backend.healthy
        /\ backend.state = "Closed" => g = backend
        /\ backend.state # "Closed" => g.state # "Closed"
        /\ g.failureCount <= backend.failureCount
        /\ backend.state # "Closed" /\ ShouldCheck(backend, HealthInterval)
              => g.failureCount = backend.failureCount - 1
    BY <1>0, CircuitStateChange
  <2> HIDE DEF g
  <2>3. TypeOK'
    BY <1>1, <2>1, <2>2 DEF IInv, TypeOK, HealthTick
  <2>4. NonClosedIsUnhealthy' /\ ClosedIsClean'
    BY <2>1, <2>2 DEF IInv, NonClosedIsUnhealthy, ClosedIsClean
  <2>5. FailureBudget'
    <3>1. g.failureCount \in Int
      BY <2>2 DEF Backend
    <3>2. CASE backend.state = "Closed"
      BY <1>0, <1>1, <2>1, <2>2, <3>2
      DEF IInv, TypeOK, ClosedIsClean, FailureBudget, HealthTick
    <3>3. CASE backend.state # "Closed"
      BY <1>0, <1>1, <2>1, <2>2, <3>1, <3>3
      DEF IInv, TypeOK, FailureBudget, HealthTick
    <3> QED BY <3>2, <3>3
  <2> QED BY <2>3, <2>4, <2>5 DEF IInv
<1>2. CASE ProbeResult
  <2>1. up \in BOOLEAN /\ Report(up)
    BY <1>2 DEF ProbeResult, IInv, TypeOK
  <2>2. /\ backend' \in Backend
        /\ NonClosedIsUnhealthy'
        /\ ClosedIsClean'
        /\ backend'.failureCount \in Int
        /\ backend'.failureCount <= FailureThreshold - 1
              \/ backend'.failureCount <= backend.failureCount + 1
    BY <2>1, ReportInv
  <2>3. TypeOK' /\ FailureBudget'
    BY <1>0, <1>2, <2>2 DEF IInv, TypeOK, FailureBudget, ProbeResult
  <2> QED BY <2>2, <2>3 DEF IInv
<1>3. CASE LBAsk
  <2> DEFINE g == GetCircuitState(backend, LBInterval)
  <2>1. backend' = g
    BY <1>3 DEF LBAsk
  <2>2. /\ g \in Backend
        /\ g.healthy = backend.healthy
        /\ backend.state = "Closed" => g = backend
        /\ backend.state # "Closed" => g.state # "Closed"
        /\ g.failureCount <= backend.failureCount
    BY <1>0, CircuitStateChange
  <2> HIDE DEF g
  <2>3. TypeOK'
    BY <1>3, <2>1, <2>2 DEF IInv, TypeOK, LBAsk
  <2>4. NonClosedIsUnhealthy' /\ ClosedIsClean'
    BY <2>1, <2>2 DEF IInv, NonClosedIsUnhealthy, ClosedIsClean
  <2>5. g.failureCount \in Int
    BY <2>2 DEF Backend
  <2>6. FailureBudget'
    BY <1>0, <1>3, <2>1, <2>2, <2>5 DEF IInv, TypeOK, FailureBudget, LBAsk
  <2> QED BY <2>3, <2>4, <2>6 DEF IInv
<1>8. CASE LBIsHealthy
  <2>1. TypeOK'
    BY <1>8 DEF IInv, TypeOK, LBIsHealthy
  <2>2. NonClosedIsUnhealthy' /\ ClosedIsClean'
    BY <1>8 DEF IInv, NonClosedIsUnhealthy, ClosedIsClean, LBIsHealthy
  <2>3. FailureBudget'
    <3>1. CASE backend.healthy
      <4>1. backend.failureCount = 0
        BY <3>1 DEF IInv, NonClosedIsUnhealthy, ClosedIsClean
      <4> QED BY <1>8, <2>1, <4>1 DEF IInv, TypeOK, FailureBudget, LBIsHealthy
    <3>2. CASE ~backend.healthy
      BY <1>0, <1>8, <3>2 DEF IInv, TypeOK, FailureBudget, LBIsHealthy
    <3> QED BY <3>1, <3>2
  <2> QED BY <2>1, <2>2, <2>3 DEF IInv
<1>4. CASE RequestFails
  <2>1. Report(FALSE)
    BY <1>4 DEF RequestFails
  <2>2. /\ backend' \in Backend
        /\ NonClosedIsUnhealthy'
        /\ ClosedIsClean'
        /\ backend'.failureCount \in Int
        /\ backend'.failureCount <= FailureThreshold - 1
              \/ backend'.failureCount <= backend.failureCount + 1
    BY <2>1, ReportInv
  <2>3. TypeOK' /\ FailureBudget'
    BY <1>0, <1>4, <2>2 DEF IInv, TypeOK, FailureBudget, RequestFails
  <2> QED BY <2>2, <2>3 DEF IInv
<1>5. CASE RequestSucceeds
  BY <1>0, <1>5 DEF IInv, TypeOK, NonClosedIsUnhealthy, ClosedIsClean, FailureBudget,
                    RequestSucceeds
<1>6. CASE ServerChanges
  BY <1>0, <1>6 DEF IInv, TypeOK, NonClosedIsUnhealthy, ClosedIsClean, FailureBudget,
                    ServerChanges
<1>7. CASE UNCHANGED vars
  BY <1>7 DEF IInv, TypeOK, NonClosedIsUnhealthy, ClosedIsClean, FailureBudget, vars
<1> QED BY <1>1, <1>2, <1>3, <1>4, <1>5, <1>6, <1>7, <1>8 DEF Next

-----------------------------------------------------------------------------
\* The inductive invariant holds in every reachable state, for every value of
\* the constants (health.go, loadbalancer.go and handler.go interleaved).
THEOREM Invariant == Spec => []IInv
  BY InitInv, NextInv, PTL DEF Spec

\* Type correctness: durations stay within time.Duration although the backoff
\* doubles without a cap (backend.go 72-76).
THEOREM TypeCorrect == Spec => []TypeOK
<1>1. IInv => TypeOK
  BY DEF IInv
<1> QED BY <1>1, Invariant, PTL

\* No client traffic reaches a circuit that is open or half-open: such a
\* backend is never marked healthy.
THEOREM OpenIsUnhealthy == Spec => []NonClosedIsUnhealthy
<1>1. IInv => NonClosedIsUnhealthy
  BY DEF IInv
<1> QED BY <1>1, Invariant, PTL

\* A closed circuit carries nothing over from the last outage.
THEOREM ClosedStartsClean == Spec => []ClosedIsClean
<1>1. IInv => ClosedIsClean
  BY DEF IInv
<1> QED BY <1>1, Invariant, PTL

\* Failures are counted at most once per probe or request in flight beyond the
\* threshold, in whatever order the reports arrive.
THEOREM FailuresBounded == Spec => []FailureBudget
<1>1. IInv => FailureBudget
  BY DEF IInv
<1> QED BY <1>1, Invariant, PTL

\* The two reads of loadbalancer.go 66 and 75 are separate steps with any
\* reports in between, and still only a backend whose circuit is closed at the
\* second one is given to a request.
THEOREM ChosenNeedsClosed == Spec => ChosenOnlyWhenClosed
<1>1. IInv /\ [Next]_vars
        => [inflight' > inflight => backend.state = "Closed" /\ backend.healthy]_vars
  <2> SUFFICES ASSUME IInv, Next, inflight' > inflight
               PROVE  backend.state = "Closed" /\ backend.healthy
    BY DEF vars
  <2>1. inflight \in Int
    BY BoundAssumption DEF IInv, TypeOK
  <2>2. CASE HealthTick
    BY <2>1, <2>2 DEF HealthTick
  <2>3. CASE ProbeResult
    BY <2>1, <2>3 DEF ProbeResult
  <2>4. CASE LBAsk
    BY <2>1, <2>4 DEF LBAsk
  <2>8. CASE LBIsHealthy
    BY <2>1, <2>8 DEF LBIsHealthy, IInv, NonClosedIsUnhealthy
  <2>5. CASE RequestFails
    BY <2>1, <2>5 DEF RequestFails
  <2>6. CASE RequestSucceeds
    BY <2>1, <2>6 DEF RequestSucceeds
  <2>7. CASE ServerChanges
    BY <2>1, <2>7 DEF ServerChanges
  <2> QED BY <2>2, <2>3, <2>4, <2>5, <2>6, <2>7, <2>8 DEF Next
<1> QED BY <1>1, Invariant, PTL DEF Spec, ChosenOnlyWhenClosed
=============================================================================
