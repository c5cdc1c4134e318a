--------------------------- MODULE CircuitBreaker ---------------------------
(***************************************************************************)
(* The circuit breaker of one backend with everyone who drives it: the     *)
(* health checker's ticks and the probes it spawns (health.go), the load   *)
(* balancer's scans (loadbalancer.go) and the requests that were sent and  *)
(* report their failure later (handler.go).  Probes and requests are in    *)
(* flight across any number of other steps, so their reports reach the     *)
(* breaker in states other than the one that let them start.               *)
(***************************************************************************)
EXTENDS Backend

CONSTANTS
    LBInterval,      \* 10*time.Second, the interval the load balancer claims
    HealthInterval,  \* the health checker's interval, in seconds
    MaxProbes,       \* bound: health probes in flight
    MaxInflight,     \* bound: requests in flight
    MaxDebt          \* bound: how far below zero scans may drive failureCount

ASSUME IntervalAssumption == /\ LBInterval \in Nat /\ LBInterval > 0
                             /\ HealthInterval \in Nat /\ HealthInterval > 0
ASSUME BoundAssumption == /\ MaxProbes \in Nat
                          /\ MaxInflight \in Nat
                          /\ MaxDebt \in Nat

VARIABLES
    backend,   \* the object of backend.go
    probes,    \* health probes that have not reported yet
    asked,     \* scans that the circuit let pass and that have not read health
    inflight,  \* requests given the backend and not finished yet
    up         \* whether the real server answers (the environment)

vars == <<backend, probes, asked, inflight, up>>

TypeOK == /\ backend \in Backend
          /\ probes \in 0 .. MaxProbes
          /\ asked \in 0 .. MaxInflight
          /\ inflight \in 0 .. MaxInflight
          /\ asked + inflight <= MaxInflight
          /\ up \in BOOLEAN

Init == /\ backend = NewBackend
        /\ probes = 0
        /\ asked = 0
        /\ inflight = 0
        /\ up = TRUE

\* pool.UpdateBackendStatus, for a probe or for a request.
Report(ok) == backend' = UpdateStatus(backend, ok, HealthInterval)

-----------------------------------------------------------------------------
(* Health.Check's ticker case: ask the breaker, and probe if it allows it. *)
HealthTick ==
    /\ probes < MaxProbes
    /\ backend' = GetCircuitState(backend, HealthInterval)
    /\ probes' = IF ShouldCheck(backend, HealthInterval) THEN probes + 1 ELSE probes
    /\ UNCHANGED <<asked, inflight, up>>

\* Mutant: a probe whose report is sent twice (no return after the first).
ProbeResultTwice ==
    /\ probes' = probes - 1
    /\ Report(up)
    /\ UNCHANGED <<asked, inflight, up>>

\* Mutant: like a request, a probe that succeeds reports nothing.
ProbeResultQuiet ==
    /\ probes > 0
    /\ probes' = probes - 1
    /\ IF up THEN UNCHANGED backend ELSE Report(FALSE)
    /\ UNCHANGED <<asked, inflight, up>>

\* checkBackend: 2xx reports healthy; an error, the 3 s timeout or any other
\* status reports unhealthy.
ProbeResult ==
    /\ probes > 0
    /\ probes' = probes - 1
    /\ Report(up)
    /\ UNCHANGED <<asked, inflight, up>>

-----------------------------------------------------------------------------
(* getNextRoundRobin and getNextLeastConnection for this backend: a scan     *)
(* asks the circuit and then, under another lock, the health.  Reports,      *)
(* ticks and other scans (least connections takes no lock of its own) come   *)
(* in between.                                                               *)

\* pool.GetCircuitState: the answer lets the scan go on to the second read.
LBAsk ==
    /\ asked + inflight < MaxInflight
    /\ backend.failureCount + MaxDebt >= 0
    /\ backend' = GetCircuitState(backend, LBInterval)
    /\ asked' = IF ShouldCheck(backend, LBInterval) THEN asked + 1 ELSE asked
    /\ UNCHANGED <<probes, inflight, up>>

\* Mutant: the circuit's answer is enough, so the half-open trial is given to
\* client traffic and a failure between the two reads is overlooked.
LBIsHealthyIgnored ==
    /\ asked > 0
    /\ asked' = asked - 1
    /\ inflight' = inflight + 1
    /\ UNCHANGED <<backend, probes, up>>

\* b.IsHealthy(): the backend is given to the request, or passed over.
LBIsHealthy ==
    /\ asked > 0
    /\ asked' = asked - 1
    /\ inflight' = IF backend.healthy THEN inflight + 1 ELSE inflight
    /\ UNCHANGED <<backend, probes, up>>

\* RoundTrip failed: the handler reports the backend unhealthy, whoever is at
\* fault.  A client that goes away or a body already read fails the request
\* of a server that is up.
RequestFails ==
    /\ inflight > 0
    /\ inflight' = inflight - 1
    /\ Report(FALSE)
    /\ UNCHANGED <<asked, probes, up>>

\* A request that succeeds reports nothing.
RequestSucceeds ==
    /\ inflight > 0
    /\ up
    /\ inflight' = inflight - 1
    /\ UNCHANGED <<backend, asked, probes, up>>

ServerChanges == up' = ~up /\ UNCHANGED <<backend, probes, asked, inflight>>

Next == HealthTick \/ ProbeResult \/ LBAsk \/ LBIsHealthy \/ RequestFails \/ RequestSucceeds
          \/ ServerChanges

Spec == Init /\ [][Next]_vars

\* The ticker keeps ticking and a probe ends within its 3 s timeout.  Nothing
\* is assumed about traffic or about the server.
Fairness == WF_vars(HealthTick) /\ WF_vars(ProbeResult)
FairSpec == Spec /\ Fairness

-----------------------------------------------------------------------------
(* Safety *)

\* A circuit that is not closed belongs to an unhealthy backend: IsHealthy
\* alone keeps the load balancer away from open and half-open circuits, and
\* the half-open state is left only by a health probe (backend.go 45-79).
NonClosedIsUnhealthy == backend.state # "Closed" => ~backend.healthy

\* Coming back to Closed leaves nothing behind of the outage: the next outage
\* again takes FailureThreshold reports and starts from the first backoff.
ClosedIsClean == backend.state = "Closed" =>
                    /\ backend.failureCount \in 0 .. FailureThreshold - 1
                    /\ backend.resetTimeOut = 0
                    /\ backend.backofDuration = 0
                    /\ backend.healthy <=> backend.failureCount = 0

\* A late report never finds the counter beyond what was in flight when the
\* circuit opened: the half-open decrement pays for every probe it admits.
FailureBudget == backend.failureCount + probes + inflight
                    <= FailureThreshold - 1 + MaxProbes + MaxInflight

\* Although circuit and health are read under separate locks, a backend is
\* given to a request only while its circuit is closed: a report that opens
\* the circuit after the first read is seen by the second, and the half-open
\* trial is the health checker's probe, never a client's request.  (The
\* circuit may open between this choice and RoundTrip.)
ChosenOnlyWhenClosed ==
    [][inflight' > inflight => backend.state = "Closed" /\ backend.healthy]_vars

\* The strengthening that makes the three invariants inductive.
IInv == TypeOK /\ NonClosedIsUnhealthy /\ ClosedIsClean /\ FailureBudget

-----------------------------------------------------------------------------
(* Liveness *)

\* An open circuit does not stay open unprobed: the countdown reaches the
\* end, whatever the traffic and the reports in flight do to it.
OpenIsProbed == backend.state = "Open" ~> backend.state # "Open"

\* Once the server stays up the backend is healthy again and again: what the
\* outage left behind always ends, and after it only failing requests, as of
\* clients that go away, make it unhealthy for another while.
Recovers == (<>[]up) => []<>(backend.healthy /\ backend.state = "Closed")
=============================================================================
