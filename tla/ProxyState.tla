----------------------------- MODULE ProxyState -----------------------------
(***************************************************************************)
(* A proxy process from its start on: the subscription goroutine that runs *)
(* onConfig and HandleConfig (proxy/main.go, dataplane.go), the main       *)
(* goroutine that waits for the first configuration and then copies        *)
(* Router, LoadBalancer, BackendPool and Health out of the state without   *)
(* taking p.mu (gateway.go, listener.go), and the health checker           *)
(* goroutines that Restart replaces (health.go).                           *)
(*                                                                         *)
(* Configurations are versions; the pool is one object whose content is    *)
(* the version it was last updated to.  A checker's select evaluates       *)
(* h.stopCh each time it is entered, so `watch` is the channel it read     *)
(* then, not the current one.                                              *)
(***************************************************************************)
EXTENDS Integers, Sequences

CONSTANTS
    Mode,        \* "gateway" or "sidecar" (ANANSE_MODE)
    Intervals,   \* HealthCheckIntervalSeconds a configuration may carry
    MaxConfigs   \* bound: configurations received

ASSUME ModeAssumption == Mode \in {"gateway", "sidecar"}
ASSUME IntervalsAssumption == Intervals \subseteq Nat
ASSUME MaxConfigsAssumption == MaxConfigs \in Nat

VARIABLES
    proc,      \* "up" or "panicked"
    received,  \* version of the last configuration received, 0 for none
    cur,       \* the health check interval that HandleConfig's argument carries
    hpc,       \* where onConfig is
    routes,    \* Router: version of the routing table, 0 for the empty one
    pool,      \* BackendPool: 0 for nil, else the number of the object
    content,   \* version of the pool's content
    lb,        \* LoadBalancer: 0 for nil, else the pool it balances over
    health,    \* Health: 0 for nil, else the pool it checks
    interval,  \* h.checkInterval
    stopCh,    \* h.stopCh, as a number
    closedChs, \* stop channels that are closed
    checkers,  \* the goroutines running h.Check
    applied,   \* LastAppliedVersion
    appliedInterval, \* the interval of LastAppliedConfig
    ready,     \* firstConfigReady is closed
    main,      \* where the main goroutine is
    captured,  \* what the handler holds
    answer     \* how the last request was answered

objects == <<routes, pool, content, lb>>
checking == <<health, interval, stopCh, closedChs, checkers>>
subscription == <<received, cur, hpc>>
last == <<applied, appliedInterval>>
serving == <<main, captured, answer>>
vars == <<proc, subscription, objects, checking, last, ready, serving>>

Steps == {"idle", "routes", "pool", "lb", "health", "commit", "signal"}
Checker == [pc : {"start", "enter", "select", "sweep", "stopped"}, watch : Nat, ticker : Nat]

TypeOK ==
    /\ proc \in {"up", "panicked"}
    /\ received \in 0 .. MaxConfigs
    /\ cur \in Nat
    /\ hpc \in Steps
    /\ routes \in 0 .. MaxConfigs /\ content \in 0 .. MaxConfigs
    /\ pool \in 0 .. 1 /\ lb \in 0 .. 1 /\ health \in 0 .. 1
    /\ interval \in Nat
    /\ stopCh \in Nat
    /\ closedChs \subseteq Nat
    /\ checkers \in Seq(Checker)
    /\ applied \in 0 .. MaxConfigs /\ appliedInterval \in Nat
    /\ ready \in BOOLEAN
    /\ main \in {"waiting", "lb", "pool", "health", "serving", "exited"}
    /\ captured \in [lb : 0 .. 1, pool : 0 .. 1, health : 0 .. 1]
    /\ answer \in {"none", "404", "ok", "panic"}

\* NewProxyState: a Router with an empty table, everything else nil.
Init ==
    /\ proc = "up"
    /\ received = 0 /\ cur = 0 /\ hpc = "idle"
    /\ routes = 0 /\ pool = 0 /\ content = 0 /\ lb = 0
    /\ health = 0 /\ interval = 0 /\ stopCh = 0 /\ closedChs = {}
    /\ checkers = << >>
    /\ applied = 0 /\ appliedInterval = 0
    /\ ready = FALSE
    /\ main = "waiting"
    /\ captured = [lb |-> 0, pool |-> 0, health |-> 0]
    /\ answer = "none"

Up == proc = "up" /\ main # "exited"

-----------------------------------------------------------------------------
(* onConfig, called by Subscribe for each configuration, one at a time.     *)

\* buildRoutingTable and CreateBackends come first.  A configuration either of
\* them refuses changes nothing, the server's empty version 0 among them; it
\* counts as the first configuration all the same.
Receive(accepted, i) ==
    /\ Up /\ hpc = "idle"
    /\ received < MaxConfigs
    /\ received' = received + 1
    /\ cur' = i
    /\ hpc' = IF accepted THEN "routes" ELSE "signal"
    /\ UNCHANGED <<proc, objects, checking, last, ready, serving>>

\* HandleConfig's body, under p.mu, which the main goroutine does not take.
UpdateRoutes ==
    /\ Up /\ hpc = "routes"
    /\ routes' = received
    /\ hpc' = "pool"
    /\ UNCHANGED <<proc, received, cur, pool, content, lb, checking, last, ready, serving>>

\* Mutant: every configuration gets a new pool.
UpdatePoolReplaces ==
    /\ Up /\ hpc = "pool"
    /\ pool' = pool + 1
    /\ content' = received
    /\ hpc' = "lb"
    /\ UNCHANGED <<proc, received, cur, routes, lb, checking, last, ready, serving>>

UpdatePool ==
    /\ Up /\ hpc = "pool"
    /\ pool' = 1
    /\ content' = received
    /\ hpc' = "lb"
    /\ UNCHANGED <<proc, received, cur, routes, lb, checking, last, ready, serving>>

CreateLoadBalancer ==
    /\ Up /\ hpc = "lb"
    /\ lb' = IF lb = 0 THEN pool ELSE lb
    /\ hpc' = "health"
    /\ UNCHANGED <<proc, received, cur, routes, pool, content, checking, last, ready, serving>>

NewChecker == [pc |-> "start", watch |-> 0, ticker |-> 0]

\* Mutants: the channel that was closed stays; the interval stays.
RestartKeepsChannel(newInterval) ==
    /\ closedChs' = closedChs \cup {stopCh}
    /\ stopCh' = stopCh
    /\ interval' = newInterval
    /\ checkers' = Append(checkers, NewChecker)
RestartKeepsInterval(newInterval) ==
    /\ closedChs' = closedChs \cup {stopCh}
    /\ stopCh' = stopCh + 1
    /\ interval' = interval
    /\ checkers' = Append(checkers, NewChecker)

\* Restart: closes h.stopCh unless it is closed, replaces it, goes h.Check.
Restart(newInterval) ==
    /\ closedChs' = closedChs \cup {stopCh}
    /\ stopCh' = stopCh + 1
    /\ interval' = newInterval
    /\ checkers' = Append(checkers, NewChecker)

\* Mutant: Health is made once and its interval is never looked at again.
UpdateHealthOnce ==
    /\ Up /\ hpc = "health"
    /\ hpc' = "commit"
    /\ IF health = 0
         THEN /\ health' = pool
              /\ interval' = cur
              /\ stopCh' = 1
              /\ checkers' = <<NewChecker>>
              /\ UNCHANGED closedChs
         ELSE UNCHANGED checking
    /\ UNCHANGED <<proc, received, cur, objects, last, ready, serving>>

UpdateHealth ==
    /\ Up /\ hpc = "health"
    /\ hpc' = "commit"
    /\ IF health = 0
         THEN /\ health' = pool
              /\ interval' = cur
              /\ stopCh' = 1
              /\ checkers' = <<NewChecker>>
              /\ UNCHANGED closedChs
         ELSE /\ IF cur # interval THEN Restart(cur)
                                   ELSE UNCHANGED <<interval, stopCh, closedChs, checkers>>
              /\ UNCHANGED health
    /\ UNCHANGED <<proc, received, cur, objects, last, ready, serving>>

Commit ==
    /\ Up /\ hpc = "commit"
    /\ applied' = received /\ appliedInterval' = cur
    /\ hpc' = "signal"
    /\ UNCHANGED <<proc, received, cur, objects, checking, ready, serving>>

\* firstConfigOnce, whether or not HandleConfig applied anything.
SignalFirst ==
    /\ Up /\ hpc = "signal"
    /\ ready' = TRUE
    /\ hpc' = "idle"
    /\ UNCHANGED <<proc, received, cur, objects, checking, last, serving>>

OnConfig == UpdateRoutes \/ UpdatePool \/ CreateLoadBalancer \/ UpdateHealth
              \/ Commit \/ SignalFirst

-----------------------------------------------------------------------------
(* The main goroutine *)

\* The 30 s are over, or a signal arrives.
GiveUp ==
    /\ Up /\ main = "waiting"
    /\ main' = "exited"
    /\ UNCHANGED <<proc, subscription, objects, checking, last, ready, captured, answer>>

Proceed ==
    /\ Up /\ main = "waiting" /\ ready
    /\ main' = "lb"
    /\ UNCHANGED <<proc, subscription, objects, checking, last, ready, captured, answer>>

\* The arguments of NewProxyHandler and NewSideCarProxyState, in order.
Capture ==
    /\ Up
    /\ \/ /\ main = "lb" /\ main' = "pool"
          /\ captured' = [captured EXCEPT !.lb = lb]
       \/ /\ main = "pool" /\ main' = "health"
          /\ captured' = [captured EXCEPT !.pool = pool]
       \/ /\ main = "health" /\ main' = "serving"
          /\ captured' = [captured EXCEPT !.health = health]
    /\ UNCHANGED <<proc, subscription, objects, checking, last, ready, answer>>

\* A request: no route, or GetNextPeer on what was captured and, if the
\* backend fails, a report that asks Health for its interval.  A nil pointer
\* costs the gateway the request and the sidecar the process.
Serve(fails) ==
    /\ Up /\ main = "serving"
    /\ LET nilUsed == captured.lb = 0 \/ (fails /\ (captured.pool = 0 \/ captured.health = 0))
       IN  /\ answer' = IF routes = 0 THEN "404" ELSE IF nilUsed THEN "panic" ELSE "ok"
           /\ proc' = IF routes # 0 /\ nilUsed /\ Mode = "sidecar" THEN "panicked" ELSE proc
    /\ UNCHANGED <<subscription, objects, checking, last, ready, main, captured>>

-----------------------------------------------------------------------------
(* Health.Check *)

SetChecker(c, r) == /\ checkers' = [checkers EXCEPT ![c] = r]
                    /\ UNCHANGED <<health, interval, stopCh, closedChs>>

\* The interval is read once; time.NewTicker panics on an interval that is not positive.
StartTicker(c) ==
    /\ Up /\ checkers[c].pc = "start"
    /\ IF interval > 0
         THEN /\ SetChecker(c, [pc |-> "enter", watch |-> 0, ticker |-> interval])
              /\ UNCHANGED proc
         ELSE proc' = "panicked" /\ UNCHANGED checking
    /\ UNCHANGED <<subscription, objects, last, ready, serving>>

\* The first select evaluates h.stopCh, later than the interval was read.
EnterSelect(c) ==
    /\ Up /\ checkers[c].pc = "enter"
    /\ SetChecker(c, [checkers[c] EXCEPT !.pc = "select", !.watch = stopCh])
    /\ UNCHANGED <<proc, subscription, objects, last, ready, serving>>

\* The ticker's case, also when the stop channel is ready too.
Tick(c) ==
    /\ Up /\ checkers[c].pc = "select"
    /\ SetChecker(c, [checkers[c] EXCEPT !.pc = "sweep"])
    /\ UNCHANGED <<proc, subscription, objects, last, ready, serving>>

\* The sweep over the pool is done and select evaluates h.stopCh again.
SweepDone(c) ==
    /\ Up /\ checkers[c].pc = "sweep"
    /\ SetChecker(c, [checkers[c] EXCEPT !.pc = "select", !.watch = stopCh])
    /\ UNCHANGED <<proc, subscription, objects, last, ready, serving>>

Stop(c) ==
    /\ Up /\ checkers[c].pc = "select"
    /\ checkers[c].watch \in closedChs
    /\ SetChecker(c, [checkers[c] EXCEPT !.pc = "stopped"])
    /\ UNCHANGED <<proc, subscription, objects, last, ready, serving>>

Check(c) == StartTicker(c) \/ EnterSelect(c) \/ Tick(c) \/ SweepDone(c) \/ Stop(c)

Next == \/ \E a \in BOOLEAN, i \in Intervals : Receive(a, i)
        \/ OnConfig
        \/ GiveUp \/ Proceed \/ Capture \/ \E f \in BOOLEAN : Serve(f)
        \/ \E c \in DOMAIN checkers : Check(c)

Spec == Init /\ [][Next]_vars

\* Goroutines that can run do run, tickers tick.  Nothing is assumed about the
\* control plane or about requests.
Fairness == /\ WF_vars(OnConfig) /\ WF_vars(Proceed) /\ WF_vars(Capture)
            /\ \A c \in 1 .. MaxConfigs : WF_vars(c \in DOMAIN checkers /\ Check(c))
FairSpec == Spec /\ Fairness

-----------------------------------------------------------------------------
(* Safety *)

\* A configuration is applied as a whole or not at all: between calls of
\* HandleConfig routes, backends and health interval come from one and the
\* same configuration, the last one accepted (dataplane.go 166-220).
AllOrNothing ==
    hpc \in {"idle", "signal"} =>
        /\ routes = applied /\ content = applied
        /\ applied # 0 => /\ pool # 0 /\ lb # 0 /\ health # 0
                          /\ interval = appliedInterval

\* Whatever the handler captured stays the object that later configurations
\* update, and load balancer, health checker and handler share one pool: no
\* configuration is applied to objects nobody uses.
CapturedIsLive ==
    /\ lb # 0 => lb = pool
    /\ health # 0 => health = pool
    /\ captured.pool # 0 => captured.pool = pool
    /\ captured.lb # 0 => captured.lb = lb
    /\ captured.health # 0 => captured.health = health

Newest == Len(checkers)

\* However restarts overlap with sweeps, a checker is left: the newest is not
\* stopped by the channel its predecessor was stopped with (health.go 118-137).
CheckerAlive ==
    health # 0 => /\ stopCh \notin closedChs
                  /\ checkers # << >>
                  /\ checkers[Newest].pc # "stopped"
                  /\ checkers[Newest].pc = "select" => checkers[Newest].watch = stopCh

\* The newest checker ticks at the interval last configured, although it reads
\* the interval only when its goroutine gets to run.
NewestTicksAtInterval ==
    /\ hpc = "commit" => interval = cur
    /\ checkers # << >> /\ checkers[Newest].pc # "start" => checkers[Newest].ticker = interval

\* What makes AllOrNothing inductive: how far HandleConfig has got is what it
\* has replaced, and each object exists from its own step on.
AppliedSoFar ==
    /\ hpc # "idle" => received # 0
    /\ routes = IF hpc \in {"pool", "lb", "health", "commit"} THEN received ELSE applied
    /\ content = IF hpc \in {"lb", "health", "commit"} THEN received ELSE applied
    /\ applied # 0 \/ hpc \in {"lb", "health", "commit"} => pool # 0
    /\ applied # 0 \/ hpc \in {"health", "commit"} => lb # 0
    /\ applied # 0 \/ hpc = "commit" => health # 0
    /\ health # 0 => interval = IF hpc = "commit" THEN cur ELSE appliedInterval

\* What makes CheckerAlive inductive: stop channels are closed in the order they
\* were made, and there is nothing to stop before Health exists.
ChannelsInOrder ==
    /\ \A ch \in closedChs : ch < stopCh
    /\ health = 0 => stopCh = 0 /\ checkers = << >>

IInv == /\ TypeOK
        /\ AppliedSoFar /\ CapturedIsLive
        /\ ChannelsInOrder /\ CheckerAlive /\ NewestTicksAtInterval

-----------------------------------------------------------------------------
(* Liveness *)

\* Backends keep being checked at the configured interval, restart or not.
ChecksGoOn ==
    health # 0 ~> \/ ~Up
                  \/ /\ checkers # << >>
                     /\ checkers[Newest].pc = "sweep"
                     /\ checkers[Newest].ticker = interval
=============================================================================
