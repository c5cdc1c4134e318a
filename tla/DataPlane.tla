------------------------------ MODULE DataPlane ------------------------------
(***************************************************************************)
(* The gateway's data plane: requests served by ProxyHandler (handler.go), *)
(* the load balancer (loadbalancer.go), the backend pool and its draining  *)
(* (backend.go), the health checker's probe (health.go) and HandleConfig  *)
(* (dataplane.go), which replaces routes and backends under all of them.   *)
(*                                                                         *)
(* HandleConfig builds new Backend objects for every configuration, also   *)
(* for endpoints that stay.  An object is <<generation, service, index>>;  *)
(* its Name is "service-index", so objects of two generations share names. *)
(* A request keeps the object it picked; failure reports and circuit       *)
(* queries look the name up again in the pool of the moment, and then act  *)
(* on the object they found, which a reload may have replaced meanwhile.   *)
(***************************************************************************)
EXTENDS Backend, FiniteSets

CONSTANTS
    Services, Requests,
    MaxEndpoints,    \* bound: endpoints of a service
    Configs,         \* bound: accepted configurations, service -> endpoints
    MaxGen,          \* bound: configurations applied
    MaxVisits,       \* bound: the health checker's visits to backends
    MaxRetries,      \* 3: attempts per request
    LBInterval, HealthInterval,
    NoConfig, NoRequest, NoBackend

ASSUME ConfigAssumption ==
    /\ Configs \subseteq [Services -> 0 .. MaxEndpoints]
    /\ \A c \in Configs : \E s \in Services : c[s] > 0
    /\ NoConfig \notin Configs
ASSUME CountAssumption ==
    /\ MaxEndpoints \in Nat /\ MaxGen \in Nat \ {0} /\ MaxVisits \in Nat
    /\ MaxRetries \in Nat \ {0}
    /\ LBInterval \in Nat /\ HealthInterval \in Nat
    /\ IsFiniteSet(Requests)

Names == Services \X (1 .. MaxEndpoints)
Objects == (1 .. MaxGen) \X Services \X (1 .. MaxEndpoints)
ASSUME IdAssumption == NoRequest \notin Requests /\ NoBackend \notin Objects

VARIABLES
    routes,    \* Router: services of the routing table
    applying,  \* the configuration HandleConfig is applying, under p.mu
    gen, pool, \* BackendPool: generation and endpoint count of each service
    be,        \* Backend objects
    active,    \* ActiveRequest of each object
    closed,    \* objects with b.closed set
    draining,  \* objects watched by a drain goroutine
    probe,     \* the health checker's visits to backends
    lbMu,      \* the request that holds lb.mu
    req,       \* the ServeHTTP goroutines
    blamed     \* history: the names ever reported unhealthy

config == <<routes, applying, gen, pool>>
backends == <<be, active, closed, draining>>
vars == <<config, backends, probe, lbMu, req, blamed>>

Pcs == {"idle", "pick", "circuit", "ask", "health", "chosen", "forward", "report",
        "book", "respond", "done"}
Results == {"none", "ok", "404", "500", "502", "503"}

Request == [pc : Pcs, svc : Services, attempt : 0 .. MaxRetries - 1,
            snapGen : 1 .. MaxGen, snapLen : 0 .. MaxEndpoints, idx : 1 .. MaxEndpoints + 1,
            b : Objects \cup {NoBackend}, t : Objects \cup {NoBackend}, res : Results]
Probe == [pc : {"idle", "ask", "probing", "book", "done"}, n : Names, t : Objects \cup {NoBackend}]

TypeOK ==
    /\ routes \subseteq Services
    /\ applying \in Configs \cup {NoConfig}
    /\ gen \in 1 .. MaxGen
    /\ pool \in Configs
    /\ be \in [Objects -> Backend]
    /\ active \in [Objects -> 0 .. Cardinality(Requests)]
    /\ closed \subseteq Objects
    /\ draining \subseteq Objects
    /\ probe \in [1 .. MaxVisits -> Probe]
    /\ lbMu \in Requests \cup {NoRequest}
    /\ req \in [Requests -> Request]
    /\ blamed \subseteq Names

NewRequest(s) == [pc |-> "idle", svc |-> s, attempt |-> 0, snapGen |-> 1, snapLen |-> 0,
                  idx |-> 1, b |-> NoBackend, t |-> NoBackend, res |-> "none"]
NoProbe == [pc |-> "idle", n |-> <<CHOOSE s \in Services : TRUE, 1>>, t |-> NoBackend]
Visited == [NoProbe EXCEPT !.pc = "done"]

ServicesOf(c) == {s \in Services : c[s] > 0}

\* The state after the first HandleConfig and before any traffic.
Init ==
    /\ pool \in Configs
    /\ routes = ServicesOf(pool)
    /\ applying = NoConfig
    /\ gen = 1
    /\ be = [o \in Objects |-> NewBackend]
    /\ active = [o \in Objects |-> 0]
    /\ closed = {} /\ draining = {}
    /\ probe = [i \in 1 .. MaxVisits |-> NoProbe]
    /\ lbMu = NoRequest
    /\ blamed = {}
    /\ \E s \in [Requests -> Services] : req = [r \in Requests |-> NewRequest(s[r])]

\* The pool's object of a name, if the pool has one.
InPool(n) == n[2] <= pool[n[1]]
Current(n) == <<gen, n[1], n[2]>>
NameOf(o) == <<o[2], o[3]>>

-----------------------------------------------------------------------------
(* HandleConfig: first the routes, then the backends, each under a lock of  *)
(* its own.  p.mu keeps a second HandleConfig out, not the traffic.         *)

UpdateRoutes(c) ==
    /\ applying = NoConfig
    /\ gen < MaxGen
    /\ routes' = ServicesOf(c)
    /\ applying' = c
    /\ UNCHANGED <<gen, pool, backends, probe, lbMu, req, blamed>>

\* findRemovedBackends: objects of the old map whose NAME the new map lacks.
Removed(c) == {o \in Objects : o[1] = gen /\ o[3] <= pool[o[2]] /\ o[3] > c[o[2]]}

UpdateBackends ==
    /\ applying # NoConfig
    /\ pool' = applying
    /\ gen' = gen + 1
    /\ applying' = NoConfig
    /\ draining' = draining \cup Removed(applying)
    /\ UNCHANGED <<routes, be, active, closed, probe, lbMu, req, blamed>>

\* drainRemovedBackends: the 100 ms ticker finds no active request ...
DrainTick(o) ==
    /\ o \in draining
    /\ active[o] = 0
    /\ closed' = closed \cup {o}
    /\ draining' = draining \ {o}
    /\ UNCHANGED <<config, be, active, probe, lbMu, req, blamed>>

\* ... or 30 seconds are over.
DrainTimeout(o) ==
    /\ o \in draining
    /\ active[o] > 0
    /\ closed' = closed \cup {o}
    /\ draining' = draining \ {o}
    /\ UNCHANGED <<config, be, active, probe, lbMu, req, blamed>>

-----------------------------------------------------------------------------
(* Health.Check and checkBackend: one visit to one backend.  The name is    *)
(* looked up twice, to ask its circuit and to book the result.              *)

\* The tick reaches the backend: pool.GetCircuitState finds the object ...
HealthTick(i, n) ==
    /\ probe[i].pc = "idle"
    /\ InPool(n)
    /\ probe' = [probe EXCEPT ![i] = [pc |-> "ask", n |-> n, t |-> Current(n)]]
    /\ UNCHANGED <<config, backends, lbMu, req, blamed>>

\* ... and asks it.
AskForProbe(i) ==
    LET o == probe[i].t
    IN  /\ probe[i].pc = "ask"
        /\ be' = [be EXCEPT ![o] = GetCircuitState(@, HealthInterval)]
        /\ probe' = [probe EXCEPT ![i] = IF ShouldCheck(be[o], HealthInterval)
                                           THEN [@ EXCEPT !.pc = "probing", !.t = NoBackend]
                                           ELSE Visited]
        /\ UNCHANGED <<config, active, closed, draining, lbMu, req, blamed>>

\* The probe is over: UpdateBackendStatus finds the object ...
ProbeReturns(i) ==
    /\ probe[i].pc = "probing"
    /\ probe' = [probe EXCEPT ![i] = IF InPool(probe[i].n)
                                       THEN [@ EXCEPT !.pc = "book", !.t = Current(probe[i].n)]
                                       ELSE Visited]
    /\ UNCHANGED <<config, backends, lbMu, req, blamed>>

\* ... and updates it.
BookProbe(i, healthy) ==
    /\ probe[i].pc = "book"
    /\ be' = [be EXCEPT ![probe[i].t] = UpdateStatus(@, healthy, HealthInterval)]
    /\ blamed' = IF healthy THEN blamed ELSE blamed \cup {probe[i].n}
    /\ probe' = [probe EXCEPT ![i] = Visited]
    /\ UNCHANGED <<config, active, closed, draining, lbMu, req>>

-----------------------------------------------------------------------------
(* ServeHTTP *)

Set(r, q) == req' = [req EXCEPT ![r] = q]

\* The scan's locals die with it.
EndScan(q) == [q EXCEPT !.snapGen = 1, !.snapLen = 0, !.idx = 1,
                           !.t = NoBackend]

\* Mutant: one attempt too many.
RetryOnceMore(q, failure) ==
    IF q.attempt <= MaxRetries - 1
      THEN [q EXCEPT !.pc = "pick", !.attempt = @ + 1, !.b = NoBackend]
      ELSE [q EXCEPT !.pc = "done", !.res = failure, !.b = NoBackend]

\* continue with the next attempt, or answer once the attempts are used up.
Retry(q, failure) ==
    IF q.attempt < MaxRetries - 1
      THEN [q EXCEPT !.pc = "pick", !.attempt = @ + 1, !.b = NoBackend]
      ELSE [q EXCEPT !.pc = "done", !.res = failure, !.b = NoBackend]

FindService(r) ==
    /\ req[r].pc = "idle"
    /\ Set(r, IF req[r].svc \in routes
                THEN [req[r] EXCEPT !.pc = "pick"]
                ELSE [req[r] EXCEPT !.pc = "done", !.res = "404"])
    /\ UNCHANGED <<config, backends, probe, lbMu, blamed>>

\* Mutant: the pool is empty while a configuration is being applied.
LockWhileReloading(r) ==
    /\ req[r].pc = "pick"
    /\ lbMu = NoRequest
    /\ IF pool[req[r].svc] = 0 \/ applying # NoConfig
         THEN Set(r, Retry(req[r], "503")) /\ UNCHANGED lbMu
         ELSE /\ Set(r, [req[r] EXCEPT !.pc = "circuit", !.snapGen = gen,
                                       !.snapLen = pool[req[r].svc], !.idx = 1])
              /\ lbMu' = r
    /\ UNCHANGED <<config, backends, probe, blamed>>

\* getNextRoundRobin takes lb.mu and copies the service's list.
LockAndSnapshot(r) ==
    /\ req[r].pc = "pick"
    /\ lbMu = NoRequest
    /\ IF pool[req[r].svc] = 0
         THEN Set(r, Retry(req[r], "503")) /\ UNCHANGED lbMu
         ELSE /\ Set(r, [req[r] EXCEPT !.pc = "circuit", !.snapGen = gen,
                                       !.snapLen = pool[req[r].svc], !.idx = 1])
              /\ lbMu' = r
    /\ UNCHANGED <<config, backends, probe, blamed>>

\* Mutant: a scan that finds nothing returns without releasing lb.mu.
SkipKeepsLock(r) ==
    IF req[r].idx < req[r].snapLen
      THEN /\ Set(r, [req[r] EXCEPT !.pc = "circuit", !.idx = @ + 1, !.t = NoBackend])
           /\ UNCHANGED lbMu
      ELSE Set(r, Retry(EndScan(req[r]), "503")) /\ UNCHANGED lbMu

\* The scan goes on, or ends without a backend and releases lb.mu.
Skip(r) ==
    IF req[r].idx < req[r].snapLen
      THEN /\ Set(r, [req[r] EXCEPT !.pc = "circuit", !.idx = @ + 1, !.t = NoBackend])
           /\ UNCHANGED lbMu
      ELSE Set(r, Retry(EndScan(req[r]), "503")) /\ lbMu' = NoRequest

Scanned(r) == <<req[r].svc, req[r].idx>>

\* pool.GetCircuitState: by name, in the pool of the moment; false if it is
\* not there.
LookupCircuit(r) ==
    /\ req[r].pc = "circuit"
    /\ IF InPool(Scanned(r))
         THEN /\ Set(r, [req[r] EXCEPT !.pc = "ask", !.t = Current(Scanned(r))])
              /\ UNCHANGED lbMu
         ELSE Skip(r)
    /\ UNCHANGED <<config, backends, probe, blamed>>

AskCircuit(r) ==
    LET o == req[r].t
    IN  /\ req[r].pc = "ask"
        /\ be' = [be EXCEPT ![o] = GetCircuitState(@, LBInterval)]
        /\ IF ShouldCheck(be[o], LBInterval)
             THEN /\ Set(r, [req[r] EXCEPT !.pc = "health", !.t = NoBackend])
                  /\ UNCHANGED lbMu
             ELSE Skip(r)
        /\ UNCHANGED <<config, active, closed, draining, probe, blamed>>

\* b.IsHealthy: on the object of the copied list.
CheckHealthy(r) ==
    LET o == <<req[r].snapGen, req[r].svc, req[r].idx>>
    IN  /\ req[r].pc = "health"
        /\ IF be[o].healthy
             THEN /\ Set(r, [EndScan(req[r]) EXCEPT !.pc = "chosen", !.b = o])
                  /\ lbMu' = NoRequest
             ELSE Skip(r)
        /\ UNCHANGED <<config, backends, probe, blamed>>

IncrementActiveRequests(r) ==
    /\ req[r].pc = "chosen"
    /\ active' = [active EXCEPT ![req[r].b] = @ + 1]
    /\ Set(r, [req[r] EXCEPT !.pc = "forward"])
    /\ UNCHANGED <<config, be, closed, draining, probe, lbMu, blamed>>

Decrement(o) == active' = [active EXCEPT ![o] = @ - 1]

RoundTripOk(r) ==
    /\ req[r].pc = "forward"
    /\ Set(r, [req[r] EXCEPT !.pc = "respond"])
    /\ UNCHANGED <<config, backends, probe, lbMu, blamed>>

\* The backend or its connection fails, or the client goes away: r's context
\* is the attempt's context.
RoundTripFails(r) ==
    /\ req[r].pc = "forward"
    /\ Decrement(req[r].b)
    /\ Set(r, [req[r] EXCEPT !.pc = "report"])
    /\ UNCHANGED <<config, be, closed, draining, probe, lbMu, blamed>>

\* UpdateBackendStatus: by the name of the backend that failed.
LookupReport(r) ==
    LET n == NameOf(req[r].b)
    IN  /\ req[r].pc = "report"
        /\ Set(r, IF InPool(n) THEN [req[r] EXCEPT !.pc = "book", !.t = Current(n)]
                               ELSE Retry(req[r], "502"))
        /\ UNCHANGED <<config, backends, probe, lbMu, blamed>>

BookFailure(r) ==
    /\ req[r].pc = "book"
    /\ be' = [be EXCEPT ![req[r].t] = UpdateStatus(@, FALSE, HealthInterval)]
    /\ blamed' = blamed \cup {NameOf(req[r].t)}
    /\ Set(r, Retry([req[r] EXCEPT !.t = NoBackend], "502"))
    /\ UNCHANGED <<config, active, closed, draining, probe, lbMu>>

\* Mutant: the retry path of a response that cannot be read keeps the counter.
ModifyResponseLeaks(r) ==
    /\ req[r].pc = "respond"
    /\ Set(r, Retry(req[r], "500"))
    /\ UNCHANGED <<config, backends, probe, lbMu, blamed>>

\* ModifyResponse fails (the body breaks off): retried, but not reported.
ModifyResponseFails(r) ==
    /\ req[r].pc = "respond"
    /\ Decrement(req[r].b)
    /\ Set(r, Retry(req[r], "500"))
    /\ UNCHANGED <<config, be, closed, draining, probe, lbMu, blamed>>

\* The response is copied to the client and the backend released.
Finish(r) ==
    /\ req[r].pc = "respond"
    /\ Decrement(req[r].b)
    /\ Set(r, [req[r] EXCEPT !.pc = "done", !.res = "ok", !.b = NoBackend])
    /\ UNCHANGED <<config, be, closed, draining, probe, lbMu, blamed>>

Serve(r) == \/ LockAndSnapshot(r) \/ LookupCircuit(r) \/ AskCircuit(r) \/ CheckHealthy(r)
            \/ IncrementActiveRequests(r)
            \/ RoundTripOk(r) \/ RoundTripFails(r) \/ LookupReport(r) \/ BookFailure(r)
            \/ ModifyResponseFails(r) \/ Finish(r)

Health(i) == \/ \E n \in Names : HealthTick(i, n)
             \/ AskForProbe(i) \/ ProbeReturns(i)
             \/ \E healthy \in BOOLEAN : BookProbe(i, healthy)

Next == \/ \E c \in Configs : UpdateRoutes(c)
        \/ UpdateBackends
        \/ \E o \in Objects : DrainTick(o) \/ DrainTimeout(o)
        \/ \E i \in 1 .. MaxVisits : Health(i)
        \/ \E r \in Requests : FindService(r) \/ Serve(r)

Spec == Init /\ [][Next]_vars

\* While some goroutine can go on, some goroutine does, which is enough because
\* configurations, probes and requests are finitely many; RoundTrip returns,
\* because the backend answers or its connection breaks (the Transport itself
\* sets no response timeout).  Nothing is assumed about configurations, probes
\* or new requests.
Fairness == WF_vars(UpdateBackends \/ \E r \in Requests : Serve(r))
FairSpec == Spec /\ Fairness

-----------------------------------------------------------------------------
(* Safety *)

Using(o) == {r \in Requests : req[r].b = o /\ req[r].pc \in {"forward", "respond"}}

\* ActiveRequest counts the requests an object is serving, on every path of
\* ServeHTTP (retry, report, success) and across any number of reloads: a
\* leaked or doubled decrement would keep a removed backend from draining, or
\* close it under load.
ActiveAccounting == \A o \in Objects : active[o] = Cardinality(Using(o))

\* Endpoint k of service s is in every configuration.
Kept(s, k) == \A c \in Configs : k <= c[s]
KeptBlamed(s, m, bl) == \A k \in 1 .. m : Kept(s, k) => <<s, k>> \in bl
AllKeptBlamed(s, bl) == KeptBlamed(s, MaxEndpoints, bl)

\* Reloading never costs a request: a service that every configuration has is
\* always routed, and is refused only after each endpoint it keeps through all
\* reloads was reported unhealthy, by a probe or by a failing request.  The
\* copied list, the names of the moment and the objects of other generations
\* never hide an endpoint that nobody complained about.
Retained(s) == Kept(s, 1)
Refusal(q, bl) == /\ q.res = "404" => ~Retained(q.svc)
                  /\ q.res = "503" => AllKeptBlamed(q.svc, bl)
RetainedServed == \A r \in Requests : Refusal(req[r], blamed)

\* What makes them inductive.  A request scans within its copied list, which
\* has every endpoint that is kept; those it has passed were reported; and it
\* holds objects of its own service where it uses them.
Scanning(q) == q.pc \in {"circuit", "ask", "health"}
RequestOK(q, bl) ==
    /\ Scanning(q) => /\ q.idx \in 1 .. q.snapLen
                      /\ \A k \in 1 .. MaxEndpoints : Kept(q.svc, k) => k <= q.snapLen
                      /\ KeptBlamed(q.svc, q.idx - 1, bl)
    /\ q.pc \in {"ask", "book"} => q.t \in Objects /\ q.t[2] = q.svc
    /\ q.pc = "ask" => q.t[3] = q.idx
    /\ q.pc \in {"chosen", "forward", "respond", "report", "book"} =>
          q.b \in Objects /\ q.b[2] = q.svc
    /\ Refusal(q, bl)

\* A probe books its result on an object of the name it probed.
ProbeOK(p) == p.pc \in {"ask", "book"} => p.t \in Objects /\ NameOf(p.t) = p.n

\* Only a report of its name leaves a trace in an object, of any generation.
UnblamedClean == \A o \in Objects : NameOf(o) \notin blamed => be[o] = NewBackend
RetainedRouted == \A s \in Services : Retained(s) => s \in routes
ReloadWithinBound == applying # NoConfig => gen < MaxGen

IInv == /\ TypeOK /\ ReloadWithinBound
        /\ RetainedRouted /\ UnblamedClean
        /\ \A r \in Requests : RequestOK(req[r], blamed)
        /\ \A i \in 1 .. MaxVisits : ProbeOK(probe[i])
        /\ ActiveAccounting

-----------------------------------------------------------------------------
(* Liveness *)

\* Every request that has begun is answered: no lost lb.mu, no unbounded retry,
\* whatever reloads and reports come in between (ServeHTTP, getNextRoundRobin).
Answered == <>[](\A r \in Requests : req[r].pc \in {"idle", "done"})
=============================================================================
