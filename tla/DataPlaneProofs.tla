--------------------------- MODULE DataPlaneProofs ---------------------------
(***************************************************************************)
(* For any services, configurations, number of reloads, requests, visits   *)
(* and attempts: ActiveRequest counts the requests in service, and a       *)
(* service that every configuration has is refused only after each of the  *)
(* endpoints it keeps was reported unhealthy.                              *)
(***************************************************************************)
EXTENDS DataPlane, FiniteSetTheorems, TLAPS

-----------------------------------------------------------------------------
(* One backend *)

LEMMA WrapInDuration == ASSUME NEW d \in Int PROVE Wrap(d) \in Duration
  BY DurationAssumption DEF Wrap, Duration

LEMMA NewBackendType == NewBackend \in Backend
  <1>1. 0 \in Duration /\ "Closed" \in States /\ 0 \in Int /\ TRUE \in BOOLEAN
    BY DurationAssumption DEF Duration, States
  <1> QED BY <1>1, Zenon DEF NewBackend, Backend

\* A report leaves a backend, whatever the durations wrap to.
LEMMA UpdateStatusType ==
  ASSUME NEW b \in Backend, NEW healthy \in BOOLEAN, NEW ci \in Nat
  PROVE  UpdateStatus(b, healthy, ci) \in Backend
  <1> DEFINE u == IF healthy THEN MarkHealthy(b) ELSE CountFailure(b)
  <1>1. u \in Backend
    <2>1. /\ 0 \in Duration /\ "Closed" \in States /\ 0 \in Int
          /\ b.failureCount + 1 \in Int
      BY DurationAssumption DEF Duration, States, Backend
    <2>2. MarkHealthy(b) \in Backend
      BY <2>1, Zenon DEF MarkHealthy, Backend
    <2>3. CountFailure(b) \in Backend
      BY <2>1, Zenon DEF CountFailure, Backend
    <2> QED BY <2>2, <2>3
  <1> HIDE DEF u
  <1>2. u.resetTimeOut \in Int /\ u.backofDuration \in Int
    BY <1>1, DurationAssumption DEF Backend, Duration
  <1>3. NextReset(u, ci) \in Duration
    <2>1. /\ u.backofDuration + BackoffStep + ci * 2 \in Int
          /\ u.resetTimeOut + BackoffStep + ci \in Int
      BY <1>2, BackoffAssumption
    <2> QED BY <2>1, WrapInDuration DEF NextReset
  <1>4. NextBackoff(u) \in Duration
    <2>1. u.backofDuration * 2 \in Int /\ BackoffStep \in Int
      BY <1>2, BackoffAssumption
    <2> QED BY <2>1, WrapInDuration DEF NextBackoff
  <1>5. OpenCircuit(u, ci) \in Backend
    BY <1>1, <1>3, <1>4 DEF OpenCircuit, Backend, States
  <1> QED BY <1>1, <1>5 DEF UpdateStatus, u

LEMMA GetCircuitStateType ==
  ASSUME NEW b \in Backend, NEW ci \in Nat
  PROVE  GetCircuitState(b, ci) \in Backend
  <1>1. CASE Waiting(b, ci)
    <2>1. b.resetTimeOut - ci \in Duration
      BY <1>1, DurationAssumption DEF Waiting, Backend, Duration
    <2>2. GetCircuitState(b, ci) = [b EXCEPT !.resetTimeOut = @ - ci]
      BY <1>1 DEF GetCircuitState, Waiting
    <2> QED BY <2>1, <2>2 DEF Backend
  <1>2. CASE ~Waiting(b, ci) /\ b.state = "Closed"
    BY <1>2 DEF GetCircuitState
  <1>3. CASE ~Waiting(b, ci) /\ b.state # "Closed"
    <2>1. GetCircuitState(b, ci) = [b EXCEPT !.state = "HalfOpen", !.failureCount = @ - 1]
      BY <1>3 DEF GetCircuitState
    <2>2. "HalfOpen" \in States /\ b.failureCount - 1 \in Int
      BY DEF Backend, States
    <2> QED BY <2>1, <2>2, Zenon DEF Backend
  <1> QED BY <1>1, <1>2, <1>3

\* A backend that has only been asked, and only reported healthy, stays as new.
LEMMA StaysNew ==
  ASSUME NEW ci \in Nat
  PROVE  /\ UpdateStatus(NewBackend, TRUE, ci) = NewBackend
         /\ GetCircuitState(NewBackend, ci) = NewBackend
         /\ ShouldCheck(NewBackend, ci)
         /\ NewBackend.healthy
  <1>1. MarkHealthy(NewBackend) = NewBackend
    <2>1. 0 \in Duration /\ "Closed" \in States /\ 0 \in Int /\ TRUE \in BOOLEAN
      BY DurationAssumption DEF Duration, States
    <2>2. MarkHealthy(NewBackend) \in Backend
      BY <2>1, NewBackendType, Zenon DEF MarkHealthy, Backend
    <2>3. /\ MarkHealthy(NewBackend).healthy = NewBackend.healthy
          /\ MarkHealthy(NewBackend).failureCount = NewBackend.failureCount
          /\ MarkHealthy(NewBackend).resetTimeOut = NewBackend.resetTimeOut
          /\ MarkHealthy(NewBackend).backofDuration = NewBackend.backofDuration
          /\ MarkHealthy(NewBackend).state = NewBackend.state
      BY DEF MarkHealthy, NewBackend
    <2> QED BY <2>2, <2>3, NewBackendType DEF Backend
  <1>2. ~Trips(NewBackend)
    BY ThresholdAssumption DEF Trips, NewBackend
  <1>3. UpdateStatus(NewBackend, TRUE, ci) = NewBackend
    BY <1>1, <1>2 DEF UpdateStatus
  <1>4. ~Waiting(NewBackend, ci) /\ NewBackend.state = "Closed" /\ NewBackend.healthy
    BY DEF Waiting, NewBackend
  <1>5. GetCircuitState(NewBackend, ci) = NewBackend
    BY <1>4 DEF GetCircuitState
  <1> QED BY <1>3, <1>4, <1>5 DEF ShouldCheck

-----------------------------------------------------------------------------
(* Objects and names *)

LEMMA ObjectParts ==
  ASSUME NEW o \in Objects
  PROVE  o[1] \in 1 .. MaxGen /\ o[2] \in Services /\ o[3] \in 1 .. MaxEndpoints
  BY DEF Objects

LEMMA NameParts ==
  ASSUME NEW n \in Names PROVE n[1] \in Services /\ n[2] \in 1 .. MaxEndpoints
  BY DEF Names

LEMMA CurrentObject ==
  ASSUME gen \in 1 .. MaxGen, NEW s \in Services, NEW k \in 1 .. MaxEndpoints
  PROVE  /\ Current(<<s, k>>) \in Objects
         /\ Current(<<s, k>>)[2] = s /\ Current(<<s, k>>)[3] = k
  BY DEF Current, Objects

\* There is a service with an endpoint, since no configuration is empty.
LEMMA SomeName ==
  ASSUME NEW c \in Configs
  PROVE  /\ 1 \in 1 .. MaxEndpoints
         /\ NoProbe \in Probe /\ ProbeOK(NoProbe)
         /\ Visited \in Probe /\ ProbeOK(Visited)
  <1>1. PICK s \in Services : c[s] > 0
    BY ConfigAssumption
  <1>2. c[s] \in 0 .. MaxEndpoints
    BY ConfigAssumption
  <1>3. 1 \in 1 .. MaxEndpoints
    BY <1>1, <1>2, CountAssumption
  <1>4. (CHOOSE x \in Services : TRUE) \in Services
    BY Zenon
  <1>5. <<CHOOSE x \in Services : TRUE, 1>> \in Names
    BY <1>3, <1>4 DEF Names
  <1>6. NoProbe \in Probe
    BY <1>5 DEF NoProbe, Probe
  <1>7. ProbeOK(NoProbe)
    BY DEF NoProbe, ProbeOK
  <1>8. Visited \in Probe /\ Visited.pc = "done"
    BY <1>6 DEF Visited, Probe
  <1>9. ProbeOK(Visited)
    BY <1>8 DEF ProbeOK
  <1> QED BY <1>3, <1>6, <1>7, <1>8, <1>9

\* A retained service is in every pool.
LEMMA KeptInPool ==
  ASSUME pool \in Configs, NEW s \in Services, NEW k \in 1 .. MaxEndpoints, Kept(s, k)
  PROVE  k <= pool[s] /\ pool[s] # 0 /\ InPool(<<s, k>>)
  <1>1. k <= pool[s] /\ pool[s] \in 0 .. MaxEndpoints
    BY ConfigAssumption DEF Kept
  <1> QED BY <1>1, CountAssumption DEF InPool

\* Reports only accumulate, so what a request knows stays true.
LEMMA BlamedGrows ==
  ASSUME NEW q, NEW old, NEW new, old \subseteq new, RequestOK(q, old)
  PROVE  RequestOK(q, new)
  <1>1. ASSUME NEW s, NEW m, KeptBlamed(s, m, old) PROVE KeptBlamed(s, m, new)
    BY <1>1 DEF KeptBlamed
  <1>2. Refusal(q, new)
    BY <1>1 DEF RequestOK, Refusal, AllKeptBlamed
  <1> QED BY <1>1, <1>2 DEF RequestOK

-----------------------------------------------------------------------------
(* One request *)

LEMMA RetryOK ==
  ASSUME NEW q \in Request, NEW bl, Refusal(q, bl), NEW failure \in {"500", "502", "503"},
         failure = "503" => AllKeptBlamed(q.svc, bl)
  PROVE  LET n == Retry(q, failure)
         IN  n \in Request /\ RequestOK(n, bl) /\ n.pc \in {"pick", "done"} /\ n.svc = q.svc
  <1>1. CASE q.attempt < MaxRetries - 1
    <2> DEFINE n == [q EXCEPT !.pc = "pick", !.attempt = @ + 1, !.b = NoBackend]
    <2>1. q.attempt + 1 \in 0 .. MaxRetries - 1
      BY <1>1, CountAssumption DEF Request
    <2>2. n \in Request /\ n.pc = "pick" /\ n.svc = q.svc /\ n.res = q.res
      BY <2>1 DEF Request, Pcs
    <2>3. Retry(q, failure) = n
      BY <1>1 DEF Retry
    <2> HIDE DEF n
    <2>4. RequestOK(n, bl)
      BY <2>2 DEF RequestOK, Refusal, Scanning
    <2> QED BY <2>2, <2>3, <2>4
  <1>2. CASE ~(q.attempt < MaxRetries - 1)
    <2> DEFINE n == [q EXCEPT !.pc = "done", !.res = failure, !.b = NoBackend]
    <2>1. n \in Request /\ n.pc = "done" /\ n.svc = q.svc /\ n.res = failure
      BY DEF Request, Pcs, Results
    <2>2. Retry(q, failure) = n
      BY <1>2 DEF Retry
    <2> HIDE DEF n
    <2>3. RequestOK(n, bl)
      BY <2>1 DEF RequestOK, Refusal, Scanning
    <2> QED BY <2>1, <2>2, <2>3
  <1> QED BY <1>1, <1>2

LEMMA EndScanOK ==
  ASSUME NEW q \in Request
  PROVE  LET n == EndScan(q)
         IN  n \in Request /\ n.pc = q.pc /\ n.svc = q.svc /\ n.idx = 1 /\ n.b = q.b /\ n.res = q.res
  <1>1. 1 \in 1 .. MaxGen /\ 0 \in 0 .. MaxEndpoints /\ 1 \in 1 .. MaxEndpoints + 1
    BY CountAssumption
  <1> QED BY <1>1 DEF EndScan, Request

LEMMA NewRequestOK ==
  ASSUME NEW s \in Services
  PROVE  NewRequest(s) \in Request /\ RequestOK(NewRequest(s), {}) /\ NewRequest(s).pc = "idle"
  <1>1. /\ 1 \in 1 .. MaxGen /\ 0 \in 0 .. MaxEndpoints /\ 1 \in 1 .. MaxEndpoints + 1
        /\ 0 \in 0 .. MaxRetries - 1
    BY CountAssumption
  <1>2. "idle" \in Pcs /\ "none" \in Results
    BY DEF Pcs, Results
  <1>3. NewRequest(s) \in Request
    BY <1>1, <1>2, Zenon DEF NewRequest, Request
  <1> QED BY <1>3 DEF NewRequest, RequestOK, Refusal, Scanning

-----------------------------------------------------------------------------
(* Counting: what a step of one request does to Using *)

Serving(q) == q.pc \in {"forward", "respond"}

LEMMA UsingFinite ==
  ASSUME NEW o PROVE IsFiniteSet(Using(o)) /\ Cardinality(Using(o)) \in 0 .. Cardinality(Requests)
  <1>1. Using(o) \in SUBSET Requests /\ IsFiniteSet(Requests)
    BY CountAssumption DEF Using
  <1>2. IsFiniteSet(Using(o)) /\ Cardinality(Using(o)) <= Cardinality(Requests)
    BY <1>1, FS_Subset
  <1>3. Cardinality(Using(o)) \in Nat /\ Cardinality(Requests) \in Nat
    BY <1>1, <1>2, FS_CardinalityType
  <1> QED BY <1>2, <1>3

Counts == [Objects -> 0 .. Cardinality(Requests)]

LEMMA CountSame ==
  ASSUME IInv, NEW r \in Requests, NEW q \in Request, Set(r, q), UNCHANGED active,
         Serving(q) <=> Serving(req[r]), Serving(q) => q.b = req[r].b
  PROVE  ActiveAccounting' /\ active' \in Counts
  <1>1. ASSUME NEW o \in Objects PROVE Using(o)' = Using(o)
    BY DEF IInv, TypeOK, Using, Set, Serving
  <1> QED BY <1>1 DEF IInv, TypeOK, ActiveAccounting, Counts

LEMMA CountMore ==
  ASSUME IInv, NEW r \in Requests, NEW q \in Request, Set(r, q),
         ~Serving(req[r]), Serving(q), q.b \in Objects,
         active' = [active EXCEPT ![q.b] = @ + 1]
  PROVE  ActiveAccounting' /\ active' \in Counts
  <1>1. ASSUME NEW o \in Objects
        PROVE  active'[o] = Cardinality(Using(o))' /\ active'[o] \in 0 .. Cardinality(Requests)
    <2>1. active[o] = Cardinality(Using(o)) /\ IsFiniteSet(Using(o)) /\ active[o] \in Nat
      BY UsingFinite DEF IInv, ActiveAccounting
    <2>2. CASE o = q.b
      <3>1. Using(o)' = Using(o) \cup {r} /\ r \notin Using(o)
        BY <2>2 DEF IInv, TypeOK, Using, Set, Serving
      <3>2. Cardinality(Using(o) \cup {r}) = Cardinality(Using(o)) + 1
        BY <2>1, <3>1, FS_AddElement
      <3>3. active'[o] = active[o] + 1
        BY <2>2 DEF IInv, TypeOK
      <3>4. Using(o) \cup {r} \in SUBSET Requests
        BY DEF Using
      <3>5. /\ Cardinality(Using(o) \cup {r}) <= Cardinality(Requests)
            /\ Cardinality(Requests) \in Nat
        BY <3>4, CountAssumption, FS_Subset, FS_CardinalityType
      <3> QED BY <2>1, <3>1, <3>2, <3>3, <3>5
    <2>3. CASE o # q.b
      <3>1. Using(o)' = Using(o)
        BY <2>3 DEF IInv, TypeOK, Using, Set, Serving
      <3>2. active'[o] = active[o]
        BY <2>3 DEF IInv, TypeOK
      <3> QED BY <2>1, <3>1, <3>2 DEF IInv, TypeOK
    <2> QED BY <2>2, <2>3
  <1>2. active' \in Counts
    BY <1>1 DEF IInv, TypeOK, Counts
  <1> QED BY <1>1, <1>2 DEF ActiveAccounting

LEMMA CountLess ==
  ASSUME IInv, NEW r \in Requests, NEW q \in Request, Set(r, q),
         Serving(req[r]), ~Serving(q), Decrement(req[r].b)
  PROVE  ActiveAccounting' /\ active' \in Counts
  <1> DEFINE x == req[r].b
  <1>0. x \in Objects
    BY DEF IInv, RequestOK, Serving
  <1>1. ASSUME NEW o \in Objects
        PROVE  active'[o] = Cardinality(Using(o))' /\ active'[o] \in 0 .. Cardinality(Requests)
    <2>1. /\ active[o] = Cardinality(Using(o)) /\ IsFiniteSet(Using(o))
          /\ active[o] \in 0 .. Cardinality(Requests)
      BY UsingFinite DEF IInv, ActiveAccounting
    <2>2. CASE o = x
      <3>1. Using(o)' = Using(o) \ {r} /\ r \in Using(o)
        BY <2>2 DEF IInv, TypeOK, Using, Set, Serving
      <3>2. /\ Cardinality(Using(o) \ {r}) = Cardinality(Using(o)) - 1
            /\ IsFiniteSet(Using(o) \ {r})
        BY <2>1, <3>1, FS_RemoveElement
      <3>3. Cardinality(Using(o) \ {r}) \in Nat /\ Cardinality(Requests) \in Nat
        BY <3>2, CountAssumption, FS_CardinalityType
      <3>4. active'[o] = active[o] - 1
        BY <2>2 DEF IInv, TypeOK, Decrement
      <3> QED BY <2>1, <3>1, <3>2, <3>3, <3>4
    <2>3. CASE o # x
      <3>1. Using(o)' = Using(o)
        BY <2>3 DEF IInv, TypeOK, Using, Set, Serving
      <3>2. active'[o] = active[o]
        BY <2>3 DEF IInv, TypeOK, Decrement
      <3> QED BY <2>1, <3>1, <3>2
    <2> QED BY <2>2, <2>3
  <1>2. active' \in Counts
    BY <1>1 DEF IInv, TypeOK, Counts, Decrement
  <1> QED BY <1>1, <1>2 DEF ActiveAccounting

-----------------------------------------------------------------------------
(* What a step does to the backends *)

LEMMA Asked ==
  ASSUME IInv, NEW o \in Objects, NEW ci \in Nat, UNCHANGED blamed,
         be' = [be EXCEPT ![o] = GetCircuitState(@, ci)]
  PROVE  be' \in [Objects -> Backend] /\ UnblamedClean'
  <1>1. be' \in [Objects -> Backend]
    BY GetCircuitStateType DEF IInv, TypeOK
  <1>2. be[o] = NewBackend => be'[o] = NewBackend
    BY StaysNew DEF IInv, TypeOK
  <1>3. \A x \in Objects : x # o => be'[x] = be[x]
    BY DEF IInv, TypeOK
  <1> QED BY <1>1, <1>2, <1>3 DEF IInv, UnblamedClean

LEMMA Reported ==
  ASSUME IInv, NEW o \in Objects, NEW healthy \in BOOLEAN, NEW ci \in Nat,
         blamed' = IF healthy THEN blamed ELSE blamed \cup {NameOf(o)},
         be' = [be EXCEPT ![o] = UpdateStatus(@, healthy, ci)]
  PROVE  /\ be' \in [Objects -> Backend] /\ UnblamedClean'
         /\ blamed \subseteq blamed' /\ blamed' \subseteq Names
  <1>1. be' \in [Objects -> Backend]
    BY UpdateStatusType DEF IInv, TypeOK
  <1>2. healthy /\ be[o] = NewBackend => be'[o] = NewBackend
    BY StaysNew DEF IInv, TypeOK
  <1>3. \A x \in Objects : x # o => be'[x] = be[x]
    BY DEF IInv, TypeOK
  <1>4. NameOf(o) \in Names
    BY ObjectParts DEF NameOf, Names
  <1>5. blamed \subseteq blamed' /\ blamed' \subseteq Names
    BY <1>4 DEF IInv, TypeOK
  <1>6. UnblamedClean'
    BY <1>2, <1>3 DEF IInv, UnblamedClean
  <1> QED BY <1>1, <1>5, <1>6

-----------------------------------------------------------------------------
(* A step of one request, of one probe, of a reload *)

LEMMA RequestStep ==
  ASSUME IInv, NEW r \in Requests, NEW q \in Request, RequestOK(q, blamed'), Set(r, q),
         UNCHANGED <<config, closed, draining, probe>>,
         blamed \subseteq blamed', blamed' \subseteq Names,
         lbMu' \in Requests \cup {NoRequest},
         be' \in [Objects -> Backend], UnblamedClean',
         active' \in Counts, ActiveAccounting'
  PROVE  IInv'
  <1>1. req' \in [Requests -> Request]
    BY DEF IInv, TypeOK, Set
  <1>2. \A x \in Requests : RequestOK(req'[x], blamed')
    BY BlamedGrows DEF IInv, TypeOK, Set
  <1>3. TypeOK'
    BY <1>1 DEF IInv, TypeOK, Counts, config
  <1>4. ReloadWithinBound' /\ RetainedRouted' /\ \A i \in 1 .. MaxVisits : ProbeOK(probe[i])'
    BY DEF IInv, ReloadWithinBound, RetainedRouted, Retained, ProbeOK, config
  <1> QED BY <1>2, <1>3, <1>4 DEF IInv

LEMMA ProbeStep ==
  ASSUME IInv, NEW i \in 1 .. MaxVisits, NEW p \in Probe, ProbeOK(p),
         probe' = [probe EXCEPT ![i] = p],
         UNCHANGED <<config, active, closed, draining, lbMu, req>>,
         blamed \subseteq blamed', blamed' \subseteq Names,
         be' \in [Objects -> Backend], UnblamedClean'
  PROVE  IInv'
  <1>1. probe' \in [1 .. MaxVisits -> Probe]
    BY DEF IInv, TypeOK
  <1>2. \A j \in 1 .. MaxVisits : ProbeOK(probe'[j])
    BY DEF IInv, TypeOK
  <1>3. TypeOK'
    BY <1>1 DEF IInv, TypeOK, config
  <1>4. ReloadWithinBound' /\ RetainedRouted' /\ ActiveAccounting'
    BY DEF IInv, ReloadWithinBound, RetainedRouted, Retained, ActiveAccounting, Using, config
  <1>5. \A x \in Requests : RequestOK(req'[x], blamed')
    BY BlamedGrows DEF IInv
  <1>6. \A j \in 1 .. MaxVisits : ProbeOK(probe[j])'
    BY <1>2 DEF ProbeOK
  <1> QED BY <1>3, <1>4, <1>5, <1>6 DEF IInv

LEMMA PoolStep ==
  ASSUME IInv, UNCHANGED <<be, active, probe, lbMu, req, blamed>>,
         routes' \subseteq Services, applying' \in Configs \cup {NoConfig},
         gen' \in 1 .. MaxGen, pool' \in Configs,
         closed' \subseteq Objects, draining' \subseteq Objects,
         ReloadWithinBound', RetainedRouted'
  PROVE  IInv'
  <1>1. TypeOK'
    BY DEF IInv, TypeOK
  <1>2. UnblamedClean' /\ ActiveAccounting'
    BY DEF IInv, UnblamedClean, ActiveAccounting, Using
  <1>3. /\ \A x \in Requests : RequestOK(req'[x], blamed')
        /\ \A j \in 1 .. MaxVisits : ProbeOK(probe[j])'
    BY DEF IInv, ProbeOK
  <1> QED BY <1>1, <1>2, <1>3 DEF IInv

-----------------------------------------------------------------------------
LEMMA ServicesOfConfig ==
  ASSUME NEW c \in Configs
  PROVE  /\ ServicesOf(c) \subseteq Services
         /\ \A s \in Services : Retained(s) => s \in ServicesOf(c)
  BY ConfigAssumption, CountAssumption DEF ServicesOf, Retained, Kept

LEMMA InitIInv == Init => IInv
  <1> SUFFICES ASSUME Init PROVE IInv OBVIOUS
  <1>1. PICK svc \in [Requests -> Services] : req = [r \in Requests |-> NewRequest(svc[r])]
    BY DEF Init
  <1>2. /\ req \in [Requests -> Request]
        /\ \A r \in Requests : RequestOK(req[r], blamed) /\ req[r].pc = "idle"
    BY <1>1, NewRequestOK DEF Init
  <1>3. /\ probe \in [1 .. MaxVisits -> Probe]
        /\ \A i \in 1 .. MaxVisits : ProbeOK(probe[i])
    BY SomeName DEF Init
  <1>4. be \in [Objects -> Backend] /\ UnblamedClean
    BY NewBackendType DEF Init, UnblamedClean
  <1>5. ActiveAccounting /\ active \in Counts
    <2>1. \A o \in Objects : Using(o) = {}
      BY <1>2 DEF Using
    <2>2. Cardinality(Requests) \in Nat
      BY CountAssumption, FS_CardinalityType
    <2>3. active \in Counts
      BY <2>2 DEF Init, Counts
    <2> QED BY <2>1, <2>3, FS_EmptySet DEF Init, ActiveAccounting
  <1>6. routes \subseteq Services /\ RetainedRouted /\ ReloadWithinBound
    BY ServicesOfConfig DEF Init, RetainedRouted, ReloadWithinBound
  <1>7. gen \in 1 .. MaxGen
    BY CountAssumption DEF Init
  <1>8. TypeOK
    BY <1>2, <1>3, <1>4, <1>5, <1>6, <1>7 DEF Init, TypeOK, Counts
  <1> QED BY <1>2, <1>3, <1>4, <1>5, <1>6, <1>8 DEF IInv

-----------------------------------------------------------------------------
(* HandleConfig and draining *)

LEMMA UpdateRoutesStep ==
  ASSUME IInv, NEW c \in Configs, UpdateRoutes(c) PROVE IInv'
  <1>1. /\ routes' = ServicesOf(c) /\ applying' = c /\ gen < MaxGen
        /\ UNCHANGED <<gen, pool, backends, probe, lbMu, req, blamed>>
    BY DEF UpdateRoutes
  <1>2. routes' \subseteq Services /\ RetainedRouted' /\ ReloadWithinBound'
    BY <1>1, ServicesOfConfig DEF RetainedRouted, Retained, ReloadWithinBound
  <1> QED BY <1>1, <1>2, PoolStep DEF IInv, TypeOK, backends

LEMMA UpdateBackendsStep ==
  ASSUME IInv, UpdateBackends PROVE IInv'
  <1>1. /\ pool' = applying /\ gen' = gen + 1 /\ applying' = NoConfig /\ applying # NoConfig
        /\ draining' = draining \cup Removed(applying)
        /\ UNCHANGED <<routes, be, active, closed, probe, lbMu, req, blamed>>
    BY DEF UpdateBackends
  <1>2. gen' \in 1 .. MaxGen
    BY <1>1, CountAssumption DEF IInv, TypeOK, ReloadWithinBound
  <1>3. pool' \in Configs /\ draining' \subseteq Objects
    BY <1>1 DEF IInv, TypeOK, Removed
  <1>4. RetainedRouted' /\ ReloadWithinBound'
    BY <1>1 DEF IInv, RetainedRouted, Retained, ReloadWithinBound
  <1> QED BY <1>1, <1>2, <1>3, <1>4, PoolStep DEF IInv, TypeOK

LEMMA DrainStep ==
  ASSUME IInv, NEW o \in Objects, DrainTick(o) \/ DrainTimeout(o) PROVE IInv'
  <1>1. /\ closed' = closed \cup {o} /\ draining' = draining \ {o}
        /\ UNCHANGED <<config, be, active, probe, lbMu, req, blamed>>
    BY DEF DrainTick, DrainTimeout
  <1>2. RetainedRouted' /\ ReloadWithinBound'
    BY <1>1 DEF IInv, RetainedRouted, Retained, ReloadWithinBound, config
  <1> QED BY <1>1, <1>2, PoolStep DEF IInv, TypeOK, config

-----------------------------------------------------------------------------
(* Health probes *)

\* The name of a probe, looked up in the pool of the moment.
LEMMA ProbedObject ==
  ASSUME IInv, NEW n \in Names
  PROVE  Current(n) \in Objects /\ NameOf(Current(n)) = n
  <1>1. n[1] \in Services /\ n[2] \in 1 .. MaxEndpoints
    BY NameParts
  <1> QED BY <1>1 DEF IInv, TypeOK, Current, Objects, NameOf, Names

LEMMA HealthTickStep ==
  ASSUME IInv, NEW i \in 1 .. MaxVisits, NEW n \in Names, HealthTick(i, n) PROVE IInv'
  <1> DEFINE p == [pc |-> "ask", n |-> n, t |-> Current(n)]
  <1>1. probe' = [probe EXCEPT ![i] = p] /\ UNCHANGED <<config, backends, lbMu, req, blamed>>
    BY DEF HealthTick
  <1>2. p \in Probe /\ ProbeOK(p)
    BY ProbedObject DEF Probe, ProbeOK
  <1>3. be' \in [Objects -> Backend] /\ UnblamedClean'
    BY <1>1 DEF IInv, TypeOK, UnblamedClean, backends
  <1> HIDE DEF p
  <1> QED BY <1>1, <1>2, <1>3, ProbeStep DEF backends, IInv, TypeOK

LEMMA AskForProbeStep ==
  ASSUME IInv, NEW i \in 1 .. MaxVisits, AskForProbe(i) PROVE IInv'
  <1> DEFINE p == IF ShouldCheck(be[probe[i].t], HealthInterval)
                    THEN [probe[i] EXCEPT !.pc = "probing", !.t = NoBackend]
                    ELSE Visited
  <1>0. probe[i] \in Probe /\ probe[i].pc = "ask" /\ probe[i].t \in Objects /\ HealthInterval \in Nat
    BY CountAssumption DEF IInv, TypeOK, AskForProbe, ProbeOK
  <1>1. /\ probe' = [probe EXCEPT ![i] = p]
        /\ UNCHANGED <<config, active, closed, draining, lbMu, req, blamed>>
        /\ be' = [be EXCEPT ![probe[i].t] = GetCircuitState(@, HealthInterval)]
    BY DEF AskForProbe, IInv, TypeOK
  <1>2. p \in Probe /\ ProbeOK(p)
    <2>1. Visited \in Probe /\ ProbeOK(Visited)
      BY SomeName DEF IInv, TypeOK
    <2> QED BY <1>0, <2>1 DEF Probe, ProbeOK
  <1>3. be' \in [Objects -> Backend] /\ UnblamedClean'
    BY <1>0, <1>1, Asked
  <1> HIDE DEF p
  <1> QED BY <1>1, <1>2, <1>3, ProbeStep DEF IInv, TypeOK

LEMMA ProbeReturnsStep ==
  ASSUME IInv, NEW i \in 1 .. MaxVisits, ProbeReturns(i) PROVE IInv'
  <1> DEFINE p == IF InPool(probe[i].n)
                    THEN [probe[i] EXCEPT !.pc = "book", !.t = Current(probe[i].n)]
                    ELSE Visited
  <1>0. probe[i] \in Probe /\ probe[i].n \in Names
    BY DEF IInv, TypeOK, Probe
  <1>1. probe' = [probe EXCEPT ![i] = p] /\ UNCHANGED <<config, backends, lbMu, req, blamed>>
    BY DEF ProbeReturns, IInv, TypeOK
  <1>2. p \in Probe /\ ProbeOK(p)
    <2>1. Visited \in Probe /\ ProbeOK(Visited)
      BY SomeName DEF IInv, TypeOK
    <2>2. Current(probe[i].n) \in Objects /\ NameOf(Current(probe[i].n)) = probe[i].n
      BY <1>0, ProbedObject
    <2> QED BY <1>0, <2>1, <2>2 DEF Probe, ProbeOK
  <1>3. be' \in [Objects -> Backend] /\ UnblamedClean'
    BY <1>1 DEF IInv, TypeOK, UnblamedClean, backends
  <1> HIDE DEF p
  <1> QED BY <1>1, <1>2, <1>3, ProbeStep DEF backends, IInv, TypeOK

LEMMA BookProbeStep ==
  ASSUME IInv, NEW i \in 1 .. MaxVisits, NEW healthy \in BOOLEAN, BookProbe(i, healthy)
  PROVE  IInv'
  <1>0. probe[i].t \in Objects /\ NameOf(probe[i].t) = probe[i].n /\ HealthInterval \in Nat
    BY CountAssumption DEF IInv, TypeOK, BookProbe, ProbeOK
  <1>1. /\ probe' = [probe EXCEPT ![i] = Visited]
        /\ UNCHANGED <<config, active, closed, draining, lbMu, req>>
        /\ be' = [be EXCEPT ![probe[i].t] = UpdateStatus(@, healthy, HealthInterval)]
        /\ blamed' = IF healthy THEN blamed ELSE blamed \cup {NameOf(probe[i].t)}
    BY <1>0 DEF BookProbe
  <1>2. Visited \in Probe /\ ProbeOK(Visited)
    BY SomeName DEF IInv, TypeOK
  <1>3. /\ be' \in [Objects -> Backend] /\ UnblamedClean'
        /\ blamed \subseteq blamed' /\ blamed' \subseteq Names
    BY <1>0, <1>1, Reported
  <1> QED BY <1>1, <1>2, <1>3, ProbeStep

-----------------------------------------------------------------------------
(* Requests *)

\* A step that leaves every backend and counter alone.
LEMMA QuietStep ==
  ASSUME IInv, NEW r \in Requests, NEW q \in Request, RequestOK(q, blamed), Set(r, q),
         UNCHANGED <<config, backends, probe, blamed>>, lbMu' \in Requests \cup {NoRequest},
         Serving(q) <=> Serving(req[r]), Serving(q) => q.b = req[r].b
  PROVE  IInv'
  <1>1. ActiveAccounting' /\ active' \in Counts
    BY CountSame DEF backends
  <1>2. be' \in [Objects -> Backend] /\ UnblamedClean'
    BY DEF IInv, TypeOK, UnblamedClean, backends
  <1> QED BY <1>1, <1>2, RequestStep DEF backends, IInv, TypeOK

\* The scan passes over a backend: one that not every configuration has, or
\* that was reported.
LEMMA SkipOK ==
  ASSUME IInv, NEW r \in Requests, Scanning(req[r]), Skip(r),
         Kept(req[r].svc, req[r].idx) => <<req[r].svc, req[r].idx>> \in blamed
  PROVE  /\ \E q \in Request : RequestOK(q, blamed) /\ Set(r, q) /\ ~Serving(q)
         /\ lbMu' \in Requests \cup {NoRequest}
  <1>0. /\ req[r] \in Request /\ req[r].idx \in 1 .. req[r].snapLen
        /\ req[r].snapLen \in 0 .. MaxEndpoints
        /\ \A k \in 1 .. MaxEndpoints : Kept(req[r].svc, k) => k <= req[r].snapLen
        /\ KeptBlamed(req[r].svc, req[r].idx - 1, blamed)
        /\ Refusal(req[r], blamed)
    BY DEF IInv, TypeOK, RequestOK, Request
  <1>1. KeptBlamed(req[r].svc, req[r].idx, blamed)
    BY <1>0, CountAssumption DEF KeptBlamed
  <1>2. CASE req[r].idx < req[r].snapLen
    <2> DEFINE q == [req[r] EXCEPT !.pc = "circuit", !.idx = @ + 1, !.t = NoBackend]
    <2>1. req[r].idx + 1 \in 1 .. MaxEndpoints + 1 /\ req[r].idx + 1 \in 1 .. req[r].snapLen
      BY <1>0, <1>2, CountAssumption DEF Request
    <2>2. /\ q \in Request /\ q.pc = "circuit" /\ q.svc = req[r].svc /\ q.res = req[r].res
          /\ q.idx \in 1 .. q.snapLen /\ q.snapLen = req[r].snapLen /\ q.idx = req[r].idx + 1
      BY <1>0, <2>1 DEF Request, Pcs
    <2>3. Set(r, q) /\ lbMu' = lbMu
      BY <1>2 DEF Skip
    <2> HIDE DEF q
    <2>4. q.idx - 1 = req[r].idx
      BY <1>0, <2>2, CountAssumption
    <2>5. RequestOK(q, blamed) /\ ~Serving(q)
      BY <1>0, <1>1, <2>2, <2>4 DEF RequestOK, Serving, Refusal, Scanning
    <2> QED BY <2>2, <2>3, <2>5 DEF IInv, TypeOK
  <1>3. CASE ~(req[r].idx < req[r].snapLen)
    <2> DEFINE q == Retry(EndScan(req[r]), "503")
    <2>1. /\ EndScan(req[r]) \in Request /\ EndScan(req[r]).svc = req[r].svc
          /\ EndScan(req[r]).res = req[r].res
      BY <1>0, EndScanOK
    <2>2. AllKeptBlamed(req[r].svc, blamed)
      BY <1>0, <1>1, <1>3, CountAssumption DEF AllKeptBlamed, KeptBlamed
    <2>3. Refusal(EndScan(req[r]), blamed)
      BY <1>0, <2>1 DEF Refusal
    <2>4. q \in Request /\ RequestOK(q, blamed) /\ q.pc \in {"pick", "done"}
      BY <2>1, <2>2, <2>3, RetryOK
    <2>5. Set(r, q) /\ lbMu' = NoRequest
      BY <1>3 DEF Skip
    <2> HIDE DEF q
    <2> QED BY <2>4, <2>5 DEF Serving
  <1> QED BY <1>2, <1>3

LEMMA FindServiceStep ==
  ASSUME IInv, NEW r \in Requests, FindService(r) PROVE IInv'
  <1> DEFINE q == IF req[r].svc \in routes
                    THEN [req[r] EXCEPT !.pc = "pick"]
                    ELSE [req[r] EXCEPT !.pc = "done", !.res = "404"]
  <1>1. /\ Set(r, q) /\ req[r].pc = "idle" /\ UNCHANGED <<config, backends, probe, lbMu, blamed>>
        /\ req[r] \in Request /\ RequestOK(req[r], blamed)
    BY DEF FindService, IInv, TypeOK
  <1>2. Retained(req[r].svc) => req[r].svc \in routes
    BY <1>1 DEF IInv, RetainedRouted, Request
  <1>3. q \in Request /\ RequestOK(q, blamed) /\ ~Serving(q) /\ ~Serving(req[r])
    <2>1. CASE req[r].svc \in routes
      <3> DEFINE n == [req[r] EXCEPT !.pc = "pick"]
      <3>1. n \in Request /\ n.pc = "pick" /\ n.svc = req[r].svc /\ n.res = req[r].res
        BY <1>1 DEF Request, Pcs
      <3> HIDE DEF n
      <3>2. RequestOK(n, blamed) /\ ~Serving(n) /\ ~Serving(req[r])
        BY <1>1, <3>1 DEF RequestOK, Refusal, Scanning, Serving
      <3> QED BY <2>1, <3>1, <3>2 DEF n
    <2>2. CASE req[r].svc \notin routes
      <3> DEFINE n == [req[r] EXCEPT !.pc = "done", !.res = "404"]
      <3>1. n \in Request /\ n.pc = "done" /\ n.svc = req[r].svc /\ n.res = "404"
        BY <1>1 DEF Request, Pcs, Results
      <3> HIDE DEF n
      <3>2. RequestOK(n, blamed) /\ ~Serving(n) /\ ~Serving(req[r])
        BY <1>1, <1>2, <2>2, <3>1 DEF RequestOK, Refusal, Scanning, Serving
      <3> QED BY <2>2, <3>1, <3>2 DEF n
    <2> QED BY <2>1, <2>2
  <1> HIDE DEF q
  <1> QED BY <1>1, <1>3, QuietStep DEF IInv, TypeOK

LEMMA LockAndSnapshotStep ==
  ASSUME IInv, NEW r \in Requests, LockAndSnapshot(r) PROVE IInv'
  <1>0. /\ req[r].pc = "pick" /\ UNCHANGED <<config, backends, probe, blamed>>
        /\ req[r] \in Request /\ RequestOK(req[r], blamed) /\ req[r].svc \in Services
        /\ pool \in Configs
    BY DEF LockAndSnapshot, IInv, TypeOK, Request
  <1>1. CASE pool[req[r].svc] = 0
    <2> DEFINE q == Retry(req[r], "503")
    <2>1. AllKeptBlamed(req[r].svc, blamed) /\ Refusal(req[r], blamed)
      BY <1>0, <1>1, KeptInPool DEF AllKeptBlamed, KeptBlamed, RequestOK
    <2>2. q \in Request /\ RequestOK(q, blamed) /\ q.pc \in {"pick", "done"}
      BY <1>0, <2>1, RetryOK
    <2>3. Set(r, q) /\ lbMu' = lbMu
      BY <1>1 DEF LockAndSnapshot
    <2> HIDE DEF q
    <2> QED BY <1>0, <2>2, <2>3, QuietStep DEF IInv, TypeOK, Serving
  <1>2. CASE pool[req[r].svc] # 0
    <2> DEFINE q == [req[r] EXCEPT !.pc = "circuit", !.snapGen = gen,
                                   !.snapLen = pool[req[r].svc], !.idx = 1]
    <2>1. Set(r, q) /\ lbMu' = r
      BY <1>2 DEF LockAndSnapshot
    <2>2. pool[req[r].svc] \in 0 .. MaxEndpoints /\ gen \in 1 .. MaxGen /\ 1 \in 1 .. MaxEndpoints + 1
      BY <1>0, ConfigAssumption, CountAssumption DEF IInv, TypeOK
    <2>3. 1 \in 1 .. pool[req[r].svc]
      BY <1>2, <2>2, CountAssumption
    <2>4. /\ q \in Request /\ q.pc = "circuit" /\ q.idx \in 1 .. q.snapLen
          /\ q.svc = req[r].svc /\ q.idx = 1 /\ q.res = req[r].res
          /\ q.snapLen = pool[req[r].svc]
      BY <1>0, <2>2, <2>3 DEF Request, Pcs
    <2> HIDE DEF q
    <2>5. RequestOK(q, blamed)
      <3>1. \A k \in 1 .. MaxEndpoints : Kept(q.svc, k) => k <= q.snapLen
        BY <1>0, <2>4, KeptInPool
      <3>2. KeptBlamed(q.svc, q.idx - 1, blamed)
        BY <2>4 DEF KeptBlamed
      <3> QED BY <1>0, <2>4, <3>1, <3>2 DEF RequestOK, Refusal, Scanning
    <2> QED BY <1>0, <2>1, <2>4, <2>5, QuietStep DEF Serving
  <1> QED BY <1>1, <1>2

LEMMA LookupCircuitStep ==
  ASSUME IInv, NEW r \in Requests, LookupCircuit(r) PROVE IInv'
  <1>0. /\ req[r].pc = "circuit" /\ UNCHANGED <<config, backends, probe, blamed>>
        /\ req[r] \in Request /\ RequestOK(req[r], blamed) /\ req[r].svc \in Services
        /\ req[r].idx \in 1 .. req[r].snapLen
        /\ pool \in Configs
    BY DEF LookupCircuit, IInv, TypeOK, Request, RequestOK, Scanning
  <1>1. CASE InPool(Scanned(r))
    <2> DEFINE q == [req[r] EXCEPT !.pc = "ask", !.t = Current(Scanned(r))]
    <2>1. Set(r, q) /\ lbMu' = lbMu
      BY <1>1 DEF LookupCircuit
    <2>2. req[r].idx \in 1 .. MaxEndpoints
      BY <1>0, CountAssumption DEF Request
    <2>3. /\ Current(Scanned(r)) \in Objects /\ Current(Scanned(r))[2] = req[r].svc
          /\ Current(Scanned(r))[3] = req[r].idx
      BY <1>0, <2>2, CurrentObject DEF Scanned, IInv, TypeOK
    <2>4. /\ q \in Request /\ q.pc = "ask" /\ q.t = Current(Scanned(r)) /\ q.svc = req[r].svc
          /\ q.idx = req[r].idx /\ q.snapLen = req[r].snapLen /\ q.res = req[r].res
      BY <1>0, <2>3 DEF Request, Pcs
    <2> HIDE DEF q
    <2>5. RequestOK(q, blamed)
      BY <1>0, <2>3, <2>4 DEF RequestOK, Refusal, Scanning
    <2> QED BY <1>0, <2>1, <2>4, <2>5, QuietStep DEF Serving, IInv, TypeOK
  <1>2. CASE ~InPool(Scanned(r))
    <2>0. req[r].idx \in 1 .. MaxEndpoints
      BY <1>0, CountAssumption DEF Request
    <2>1. ~Kept(req[r].svc, req[r].idx) /\ Scanning(req[r])
      BY <1>0, <1>2, <2>0, KeptInPool DEF Scanned, Scanning
    <2>2. Skip(r)
      BY <1>2 DEF LookupCircuit
    <2>3. /\ \E q \in Request : RequestOK(q, blamed) /\ Set(r, q) /\ ~Serving(q)
          /\ lbMu' \in Requests \cup {NoRequest}
      BY <1>0, <2>1, <2>2, SkipOK
    <2> QED BY <1>0, <2>3, QuietStep DEF Serving
  <1> QED BY <1>1, <1>2

LEMMA AskCircuitStep ==
  ASSUME IInv, NEW r \in Requests, AskCircuit(r) PROVE IInv'
  <1> DEFINE o == req[r].t
  <1>0. /\ req[r].pc = "ask" /\ UNCHANGED <<config, active, closed, draining, probe, blamed>>
        /\ req[r] \in Request /\ RequestOK(req[r], blamed)
        /\ o \in Objects /\ o[2] = req[r].svc /\ o[3] = req[r].idx
        /\ be' = [be EXCEPT ![o] = GetCircuitState(@, LBInterval)]
        /\ LBInterval \in Nat
    BY CountAssumption DEF AskCircuit, IInv, TypeOK, RequestOK
  <1>1. be' \in [Objects -> Backend] /\ UnblamedClean'
    BY <1>0, Asked
  <1>2. ASSUME NEW q \in Request, RequestOK(q, blamed), Set(r, q), ~Serving(q),
               lbMu' \in Requests \cup {NoRequest}
        PROVE  IInv'
    <2>1. ActiveAccounting' /\ active' \in Counts
      BY <1>0, <1>2, CountSame DEF Serving
    <2> QED BY <1>0, <1>1, <1>2, <2>1, RequestStep DEF IInv, TypeOK
  <1>3. CASE ShouldCheck(be[o], LBInterval)
    <2> DEFINE q == [req[r] EXCEPT !.pc = "health", !.t = NoBackend]
    <2>1. Set(r, q) /\ lbMu' = lbMu
      BY <1>3 DEF AskCircuit
    <2>2. /\ q \in Request /\ q.pc = "health" /\ q.svc = req[r].svc
          /\ q.idx = req[r].idx /\ q.snapLen = req[r].snapLen /\ q.res = req[r].res
      BY <1>0 DEF Request, Pcs
    <2> HIDE DEF q
    <2>3. RequestOK(q, blamed) /\ ~Serving(q)
      BY <1>0, <2>2 DEF RequestOK, Refusal, Scanning, Serving
    <2> QED BY <1>2, <2>1, <2>2, <2>3 DEF IInv, TypeOK
  <1>4. CASE ~ShouldCheck(be[o], LBInterval)
    <2>1. <<req[r].svc, req[r].idx>> \in blamed /\ Scanning(req[r])
      BY <1>0, <1>4, StaysNew DEF IInv, UnblamedClean, NameOf, Scanning
    <2>2. Skip(r)
      BY <1>4 DEF AskCircuit
    <2>3. /\ \E q \in Request : RequestOK(q, blamed) /\ Set(r, q) /\ ~Serving(q)
          /\ lbMu' \in Requests \cup {NoRequest}
      BY <1>0, <2>1, <2>2, SkipOK
    <2> QED BY <1>2, <2>3
  <1> QED BY <1>3, <1>4

LEMMA CheckHealthyStep ==
  ASSUME IInv, NEW r \in Requests, CheckHealthy(r) PROVE IInv'
  <1> DEFINE o == <<req[r].snapGen, req[r].svc, req[r].idx>>
  <1>0. /\ req[r].pc = "health" /\ UNCHANGED <<config, backends, probe, blamed>>
        /\ req[r] \in Request /\ RequestOK(req[r], blamed) /\ req[r].svc \in Services
        /\ req[r].idx \in 1 .. req[r].snapLen
    BY DEF CheckHealthy, IInv, TypeOK, Request, RequestOK, Scanning
  <1>1. o \in Objects /\ o[2] = req[r].svc /\ o[3] = req[r].idx
    <2>1. req[r].idx \in 1 .. MaxEndpoints /\ req[r].snapGen \in 1 .. MaxGen
      BY <1>0, CountAssumption DEF Request
    <2> QED BY <1>0, <2>1 DEF Objects
  <1>2. CASE be[o].healthy
    <2> DEFINE e == EndScan(req[r])
               q == [e EXCEPT !.pc = "chosen", !.b = o]
    <2>1. Set(r, q) /\ lbMu' = NoRequest
      BY <1>2 DEF CheckHealthy
    <2>2. e \in Request /\ e.svc = req[r].svc /\ e.idx = 1 /\ e.res = req[r].res
      BY <1>0, EndScanOK
    <2> HIDE DEF e, o
    <2>3. /\ q \in Request /\ q.pc = "chosen" /\ q.b = o /\ q.svc = req[r].svc
          /\ q.idx = 1 /\ q.res = req[r].res
      BY <1>1, <2>2 DEF Request, Pcs
    <2> HIDE DEF q
    <2>4. RequestOK(q, blamed)
      BY <1>0, <1>1, <2>3 DEF RequestOK, Refusal, Scanning
    <2> QED BY <1>0, <2>1, <2>3, <2>4, QuietStep DEF Serving
  <1>3. CASE ~be[o].healthy
    <2>1. <<req[r].svc, req[r].idx>> \in blamed /\ Scanning(req[r])
      BY <1>0, <1>1, <1>3, StaysNew, CountAssumption DEF IInv, UnblamedClean, NameOf, Scanning
    <2>2. Skip(r)
      BY <1>3 DEF CheckHealthy
    <2>3. /\ \E q \in Request : RequestOK(q, blamed) /\ Set(r, q) /\ ~Serving(q)
          /\ lbMu' \in Requests \cup {NoRequest}
      BY <1>0, <2>1, <2>2, SkipOK
    <2> QED BY <1>0, <2>3, QuietStep DEF Serving
  <1> QED BY <1>2, <1>3

\* From here on the request uses the backend it chose.
LEMMA IncrementStep ==
  ASSUME IInv, NEW r \in Requests, IncrementActiveRequests(r) PROVE IInv'
  <1> DEFINE q == [req[r] EXCEPT !.pc = "forward"]
  <1>0. /\ req[r].pc = "chosen" /\ req[r] \in Request /\ RequestOK(req[r], blamed)
        /\ Set(r, q) /\ active' = [active EXCEPT ![req[r].b] = @ + 1]
        /\ UNCHANGED <<config, be, closed, draining, probe, lbMu, blamed>>
    BY DEF IncrementActiveRequests, IInv, TypeOK
  <1>1. /\ q \in Request /\ q.pc = "forward" /\ q.b = req[r].b /\ q.svc = req[r].svc
        /\ q.idx = req[r].idx /\ q.res = req[r].res
    BY <1>0 DEF Request, Pcs
  <1> HIDE DEF q
  <1>2. RequestOK(q, blamed) /\ q.b \in Objects
    BY <1>0, <1>1 DEF RequestOK, Refusal, Scanning
  <1>3. ActiveAccounting' /\ active' \in Counts
    BY <1>0, <1>1, <1>2, CountMore DEF Serving
  <1>4. be' \in [Objects -> Backend] /\ UnblamedClean' /\ lbMu' \in Requests \cup {NoRequest}
    BY <1>0 DEF IInv, TypeOK, UnblamedClean
  <1> QED BY <1>0, <1>1, <1>2, <1>3, <1>4, RequestStep DEF IInv, TypeOK

LEMMA RoundTripOkStep ==
  ASSUME IInv, NEW r \in Requests, RoundTripOk(r) PROVE IInv'
  <1> DEFINE q == [req[r] EXCEPT !.pc = "respond"]
  <1>0. /\ req[r].pc = "forward" /\ req[r] \in Request /\ RequestOK(req[r], blamed)
        /\ Set(r, q) /\ UNCHANGED <<config, backends, probe, lbMu, blamed>>
    BY DEF RoundTripOk, IInv, TypeOK
  <1>1. /\ q \in Request /\ q.pc = "respond" /\ q.b = req[r].b /\ q.svc = req[r].svc
        /\ q.idx = req[r].idx /\ q.res = req[r].res
    BY <1>0 DEF Request, Pcs
  <1> HIDE DEF q
  <1>2. RequestOK(q, blamed)
    BY <1>0, <1>1 DEF RequestOK, Refusal, Scanning
  <1> QED BY <1>0, <1>1, <1>2, QuietStep DEF Serving, IInv, TypeOK

\* A step that lets go of the backend.
LEMMA ReleaseStep ==
  ASSUME IInv, NEW r \in Requests, NEW q \in Request, RequestOK(q, blamed), Set(r, q),
         Serving(req[r]), ~Serving(q), Decrement(req[r].b),
         UNCHANGED <<config, be, closed, draining, probe, lbMu, blamed>>
  PROVE  IInv'
  <1>1. ActiveAccounting' /\ active' \in Counts
    BY CountLess
  <1>2. be' \in [Objects -> Backend] /\ UnblamedClean' /\ lbMu' \in Requests \cup {NoRequest}
    BY DEF IInv, TypeOK, UnblamedClean
  <1> QED BY <1>1, <1>2, RequestStep DEF IInv, TypeOK

LEMMA RoundTripFailsStep ==
  ASSUME IInv, NEW r \in Requests, RoundTripFails(r) PROVE IInv'
  <1> DEFINE q == [req[r] EXCEPT !.pc = "report"]
  <1>0. /\ req[r].pc = "forward" /\ req[r] \in Request /\ RequestOK(req[r], blamed)
        /\ Set(r, q) /\ Decrement(req[r].b)
        /\ UNCHANGED <<config, be, closed, draining, probe, lbMu, blamed>>
    BY DEF RoundTripFails, IInv, TypeOK
  <1>1. /\ q \in Request /\ q.pc = "report" /\ q.b = req[r].b /\ q.svc = req[r].svc
        /\ q.res = req[r].res
    BY <1>0 DEF Request, Pcs
  <1> HIDE DEF q
  <1>2. RequestOK(q, blamed)
    BY <1>0, <1>1 DEF RequestOK, Refusal, Scanning
  <1> QED BY <1>0, <1>1, <1>2, ReleaseStep DEF Serving

LEMMA LookupReportStep ==
  ASSUME IInv, NEW r \in Requests, LookupReport(r) PROVE IInv'
  <1> DEFINE n == NameOf(req[r].b)
  <1>0. /\ req[r].pc = "report" /\ req[r] \in Request /\ RequestOK(req[r], blamed)
        /\ req[r].b \in Objects /\ req[r].b[2] = req[r].svc
        /\ Refusal(req[r], blamed)
        /\ UNCHANGED <<config, backends, probe, lbMu, blamed>>
    BY DEF LookupReport, IInv, TypeOK, RequestOK
  <1>1. CASE InPool(n)
    <2> DEFINE q == [req[r] EXCEPT !.pc = "book", !.t = Current(n)]
    <2>1. Set(r, q)
      BY <1>1 DEF LookupReport
    <2>2. Current(n) \in Objects /\ Current(n)[2] = req[r].svc
      BY <1>0, ObjectParts, CurrentObject DEF IInv, TypeOK, NameOf
    <2> HIDE DEF n
    <2>3. /\ q \in Request /\ q.pc = "book" /\ q.t = Current(n) /\ q.b = req[r].b
          /\ q.svc = req[r].svc /\ q.res = req[r].res
      BY <1>0, <2>2 DEF Request, Pcs
    <2> HIDE DEF q
    <2>4. RequestOK(q, blamed)
      BY <1>0, <2>2, <2>3 DEF RequestOK, Refusal, Scanning
    <2> QED BY <1>0, <2>1, <2>3, <2>4, QuietStep DEF Serving, IInv, TypeOK
  <1>2. CASE ~InPool(n)
    <2> DEFINE q == Retry(req[r], "502")
    <2>1. Set(r, q)
      BY <1>2 DEF LookupReport
    <2>2. q \in Request /\ RequestOK(q, blamed) /\ q.pc \in {"pick", "done"}
      BY <1>0, RetryOK
    <2> HIDE DEF q
    <2> QED BY <1>0, <2>1, <2>2, QuietStep DEF Serving, IInv, TypeOK
  <1> QED BY <1>1, <1>2

LEMMA BookFailureStep ==
  ASSUME IInv, NEW r \in Requests, BookFailure(r) PROVE IInv'
  <1> DEFINE e == [req[r] EXCEPT !.t = NoBackend]
             q == Retry(e, "502")
  <1>0. /\ req[r].pc = "book" /\ req[r] \in Request
        /\ req[r].t \in Objects /\ RequestOK(req[r], blamed)
        /\ Set(r, q) /\ be' = [be EXCEPT ![req[r].t] = UpdateStatus(@, FALSE, HealthInterval)]
        /\ blamed' = blamed \cup {NameOf(req[r].t)}
        /\ UNCHANGED <<config, active, closed, draining, probe, lbMu>>
        /\ HealthInterval \in Nat
    BY CountAssumption DEF BookFailure, IInv, TypeOK, RequestOK
  <1>1. e \in Request /\ e.svc = req[r].svc /\ e.res = req[r].res
    BY <1>0 DEF Request
  <1> HIDE DEF e
  <1>2. /\ be' \in [Objects -> Backend] /\ UnblamedClean'
        /\ blamed \subseteq blamed' /\ blamed' \subseteq Names
    BY <1>0, Reported
  <1>3. Refusal(e, blamed')
    <2>1. RequestOK(req[r], blamed')
      BY <1>0, <1>2, BlamedGrows
    <2> QED BY <1>1, <2>1 DEF RequestOK, Refusal
  <1>4. q \in Request /\ RequestOK(q, blamed') /\ q.pc \in {"pick", "done"}
    BY <1>1, <1>3, RetryOK
  <1> HIDE DEF q
  <1>5. ActiveAccounting' /\ active' \in Counts
    BY <1>0, <1>4, CountSame DEF Serving
  <1> QED BY <1>0, <1>2, <1>4, <1>5, RequestStep DEF IInv, TypeOK

LEMMA ModifyResponseFailsStep ==
  ASSUME IInv, NEW r \in Requests, ModifyResponseFails(r) PROVE IInv'
  <1> DEFINE q == Retry(req[r], "500")
  <1>0. /\ req[r].pc = "respond" /\ req[r] \in Request /\ RequestOK(req[r], blamed)
        /\ Set(r, q) /\ Decrement(req[r].b)
        /\ UNCHANGED <<config, be, closed, draining, probe, lbMu, blamed>>
    BY DEF ModifyResponseFails, IInv, TypeOK
  <1>1. Refusal(req[r], blamed)
    BY <1>0 DEF RequestOK
  <1>2. q \in Request /\ RequestOK(q, blamed) /\ q.pc \in {"pick", "done"}
    BY <1>0, <1>1, RetryOK
  <1> HIDE DEF q
  <1> QED BY <1>0, <1>2, ReleaseStep DEF Serving

LEMMA FinishStep ==
  ASSUME IInv, NEW r \in Requests, Finish(r) PROVE IInv'
  <1> DEFINE q == [req[r] EXCEPT !.pc = "done", !.res = "ok", !.b = NoBackend]
  <1>0. /\ req[r].pc = "respond" /\ req[r] \in Request /\ RequestOK(req[r], blamed)
        /\ Set(r, q) /\ Decrement(req[r].b)
        /\ UNCHANGED <<config, be, closed, draining, probe, lbMu, blamed>>
    BY DEF Finish, IInv, TypeOK
  <1>1. /\ q \in Request /\ q.pc = "done" /\ q.svc = req[r].svc /\ q.idx = req[r].idx
        /\ q.res = "ok"
    BY <1>0 DEF Request, Pcs, Results
  <1> HIDE DEF q
  <1>2. RequestOK(q, blamed)
    BY <1>0, <1>1 DEF RequestOK, Refusal, Scanning
  <1> QED BY <1>0, <1>1, <1>2, ReleaseStep DEF Serving

LEMMA ServeStep ==
  ASSUME IInv, NEW r \in Requests, FindService(r) \/ Serve(r) PROVE IInv'
  <1>1. CASE FindService(r)  BY <1>1, FindServiceStep
  <1>2. CASE LockAndSnapshot(r)  BY <1>2, LockAndSnapshotStep
  <1>3. CASE LookupCircuit(r)  BY <1>3, LookupCircuitStep
  <1>4. CASE AskCircuit(r)  BY <1>4, AskCircuitStep
  <1>5. CASE CheckHealthy(r)  BY <1>5, CheckHealthyStep
  <1>6. CASE IncrementActiveRequests(r)  BY <1>6, IncrementStep
  <1>7. CASE RoundTripOk(r)  BY <1>7, RoundTripOkStep
  <1>8. CASE RoundTripFails(r)  BY <1>8, RoundTripFailsStep
  <1>9. CASE LookupReport(r)  BY <1>9, LookupReportStep
  <1>10. CASE BookFailure(r)  BY <1>10, BookFailureStep
  <1>11. CASE ModifyResponseFails(r)  BY <1>11, ModifyResponseFailsStep
  <1>12. CASE Finish(r)  BY <1>12, FinishStep
  <1> QED BY <1>1, <1>2, <1>3, <1>4, <1>5, <1>6, <1>7, <1>8, <1>9, <1>10, <1>11, <1>12 DEF Serve

-----------------------------------------------------------------------------
LEMMA StepIInv == IInv /\ [Next]_vars => IInv'
  <1> SUFFICES ASSUME IInv, [Next]_vars PROVE IInv' OBVIOUS
  <1>1. ASSUME NEW c \in Configs, UpdateRoutes(c) PROVE IInv'
    BY <1>1, UpdateRoutesStep
  <1>2. CASE UpdateBackends
    BY <1>2, UpdateBackendsStep
  <1>3. ASSUME NEW o \in Objects, DrainTick(o) \/ DrainTimeout(o) PROVE IInv'
    BY <1>3, DrainStep
  <1>4. ASSUME NEW i \in 1 .. MaxVisits, Health(i) PROVE IInv'
    <2>1. ASSUME NEW n \in Names, HealthTick(i, n) PROVE IInv'
      BY <2>1, HealthTickStep
    <2>2. CASE AskForProbe(i)
      BY <2>2, AskForProbeStep
    <2>3. CASE ProbeReturns(i)
      BY <2>3, ProbeReturnsStep
    <2>4. ASSUME NEW healthy \in BOOLEAN, BookProbe(i, healthy) PROVE IInv'
      BY <2>4, BookProbeStep
    <2> QED BY <1>4, <2>1, <2>2, <2>3, <2>4 DEF Health
  <1>5. ASSUME NEW r \in Requests, FindService(r) \/ Serve(r) PROVE IInv'
    BY <1>5, ServeStep
  <1>6. CASE UNCHANGED vars
    <2>1. /\ UNCHANGED <<be, active, probe, lbMu, req, blamed>>
          /\ routes' = routes /\ applying' = applying /\ gen' = gen /\ pool' = pool
          /\ closed' = closed /\ draining' = draining
      BY <1>6 DEF vars, config, backends
    <2>2. ReloadWithinBound' /\ RetainedRouted'
      BY <2>1 DEF IInv, ReloadWithinBound, RetainedRouted, Retained
    <2> QED BY <2>1, <2>2, PoolStep DEF IInv, TypeOK
  <1> QED BY <1>1, <1>2, <1>3, <1>4, <1>5, <1>6 DEF Next

LEMMA InductiveInvariant == Spec => []IInv
  BY InitIInv, StepIInv, PTL DEF Spec

\* Every request, probe and backend stays well formed through any number of
\* reloads: attempts stay below maxRetries (handler.go 84-117), durations wrap
\* into range, and a counter is neither negative nor above the requests there are.
THEOREM TypeCorrect == Spec => []TypeOK
  <1>1. IInv => TypeOK
    BY DEF IInv
  <1> QED BY <1>1, InductiveInvariant, PTL

\* ActiveRequest is exact for every object of every generation, on all of
\* ServeHTTP's paths: draining waits for the requests in service and for
\* nothing else.
THEOREM CountersMatchRequests == Spec => []ActiveAccounting
  <1>1. IInv => ActiveAccounting
    BY DEF IInv
  <1> QED BY <1>1, InductiveInvariant, PTL

\* A service that every configuration has is always routed, and is refused
\* only after each endpoint it keeps was reported unhealthy, however reloads
\* interleave with the scan (loadbalancer.go 48-83) and whoever's requests fail.
THEOREM RetainedAlwaysServed == Spec => []RetainedServed
  <1>1. IInv => RetainedServed
    BY DEF IInv, RequestOK, RetainedServed
  <1> QED BY <1>1, InductiveInvariant, PTL
=============================================================================
