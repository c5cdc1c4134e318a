------------------------------- MODULE Backend -------------------------------
(***************************************************************************)
(* One backend of the pool (pkg/proxy/backend.go): its health flag, the    *)
(* failure counter and the circuit breaker driven by them.  Both mutating  *)
(* methods run under b.mu, so each is one operator from the old value of   *)
(* the object to the new one.                                              *)
(*                                                                         *)
(* Time does not pass in this code: the breaker has no clock.  It counts   *)
(* resetTimeOut down by the interval its CALLER claims to check at, once   *)
(* per call of GetCircuitState, whoever calls it.                          *)
(***************************************************************************)
EXTENDS Integers

CONSTANTS
    FailureThreshold,  \* 5: reports in a row that open the circuit
    BackoffStep,       \* 3*time.Second, in seconds
    DurationLimit      \* time.Duration holds -DurationLimit .. DurationLimit-1

ASSUME ThresholdAssumption == FailureThreshold \in Nat /\ FailureThreshold > 0
ASSUME BackoffAssumption == BackoffStep \in Nat
ASSUME DurationAssumption == DurationLimit \in Nat /\ DurationLimit > 0

\* The State type of types.go.
States == {"Closed", "HalfOpen", "Open"}

\* The values of a time.Duration, and its two's complement arithmetic.
Duration == (0 - DurationLimit) .. (DurationLimit - 1)
Wrap(d) == ((d + DurationLimit) % (2 * DurationLimit)) - DurationLimit

Backend == [healthy : BOOLEAN, failureCount : Int, resetTimeOut : Duration,
            backofDuration : Duration, state : States]

\* The object CreateBackends builds: healthy, with every other field zero.
NewBackend == [healthy |-> TRUE, failureCount |-> 0, resetTimeOut |-> 0,
               backofDuration |-> 0, state |-> "Closed"]

-----------------------------------------------------------------------------
(* UpdateStatus(healthy, checkInterval) *)

\* Mutants: a recovery that forgets the state or the backoff.
MarkHealthyKeepsState(b) == [b EXCEPT !.healthy = TRUE, !.failureCount = 0,
                                      !.backofDuration = 0, !.resetTimeOut = 0]
MarkHealthyKeepsBackoff(b) == [b EXCEPT !.healthy = TRUE, !.failureCount = 0,
                                        !.state = "Closed", !.resetTimeOut = 0]

MarkHealthy(b) == [b EXCEPT !.healthy = TRUE, !.failureCount = 0,
                            !.backofDuration = 0, !.state = "Closed",
                            !.resetTimeOut = 0]

CountFailure(b) == [b EXCEPT !.healthy = FALSE, !.failureCount = @ + 1]

\* The wait before the next probe.  A failed probe of a half-open circuit
\* starts a new wait from the backoff; any other report extends the wait.
NextReset(b, ci) == IF b.state = "HalfOpen"
                      THEN Wrap(b.backofDuration + BackoffStep + ci * 2)
                      ELSE Wrap(b.resetTimeOut + BackoffStep + ci)

NextBackoff(b) == IF b.backofDuration # 0 THEN Wrap(b.backofDuration * 2)
                                          ELSE Wrap(BackoffStep)

OpenCircuit(b, ci) == [b EXCEPT !.state = "Open",
                                !.resetTimeOut = NextReset(b, ci),
                                !.backofDuration = NextBackoff(b)]

\* Reports that reach the threshold open the circuit.
Trips(b) == b.failureCount >= FailureThreshold

UpdateStatus(b, healthy, ci) ==
    LET u == IF healthy THEN MarkHealthy(b) ELSE CountFailure(b)
    IN  IF Trips(u) THEN OpenCircuit(u, ci) ELSE u

-----------------------------------------------------------------------------
(* GetCircuitState(checkInterval): answers whether the backend may be      *)
(* tried, and moves the countdown or the half-open failure count as it     *)
(* does so.                                                                *)

Waiting(b, ci) == b.state = "Open" /\ b.resetTimeOut >= ci

ShouldCheck(b, ci) == ~Waiting(b, ci)

\* Mutants: no countdown while open; no decrement while half-open.
GetCircuitStateStuck(b, ci) ==
    CASE Waiting(b, ci) \/ b.state = "Closed" -> b
      [] OTHER -> [b EXCEPT !.state = "HalfOpen", !.failureCount = @ - 1]
GetCircuitStateFree(b, ci) ==
    CASE Waiting(b, ci)     -> [b EXCEPT !.resetTimeOut = @ - ci]
      [] b.state = "Closed" -> b
      [] OTHER              -> [b EXCEPT !.state = "HalfOpen"]

GetCircuitState(b, ci) ==
    CASE Waiting(b, ci)       -> [b EXCEPT !.resetTimeOut = @ - ci]
      [] b.state = "Closed"   -> b
      [] OTHER                -> [b EXCEPT !.state = "HalfOpen",
                                           !.failureCount = @ - 1]
=============================================================================
