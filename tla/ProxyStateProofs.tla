-------------------------- MODULE ProxyStateProofs --------------------------
(***************************************************************************)
(* For any number of configurations and any intervals, in either mode:     *)
(* HandleConfig applies a configuration as a whole, what the handler       *)
(* captured is what later configurations update, and of the health         *)
(* checkers the newest is alive and ticks at the interval last configured. *)
(***************************************************************************)
EXTENDS ProxyState, TLAPS

LEMMA InitIInv == Init => IInv
  <1> SUFFICES ASSUME Init PROVE IInv OBVIOUS
  <1>1. TypeOK
    <2>1. checkers \in Seq(Checker) /\ closedChs \subseteq Nat
      BY DEF Init
    <2>2. captured \in [lb : 0 .. 1, pool : 0 .. 1, health : 0 .. 1]
      BY DEF Init
    <2>3. /\ received \in 0 .. MaxConfigs /\ cur \in Nat
          /\ routes \in 0 .. MaxConfigs /\ content \in 0 .. MaxConfigs
          /\ pool \in 0 .. 1 /\ lb \in 0 .. 1 /\ health \in 0 .. 1
          /\ interval \in Nat /\ stopCh \in Nat /\ applied \in 0 .. MaxConfigs
          /\ appliedInterval \in Nat
      BY MaxConfigsAssumption DEF Init
    <2>4. /\ proc \in {"up", "panicked"} /\ hpc \in Steps /\ ready \in BOOLEAN
          /\ main \in {"waiting", "lb", "pool", "health", "serving", "exited"}
          /\ answer \in {"none", "404", "ok", "panic"}
      BY DEF Init, Steps
    <2> QED BY <2>1, <2>2, <2>3, <2>4 DEF TypeOK
  <1>2. AppliedSoFar /\ CapturedIsLive
    BY DEF Init, AppliedSoFar, CapturedIsLive
  <1>3. ChannelsInOrder /\ CheckerAlive /\ NewestTicksAtInterval
    BY DEF Init, ChannelsInOrder, CheckerAlive, NewestTicksAtInterval
  <1> QED BY <1>1, <1>2, <1>3 DEF IInv

-----------------------------------------------------------------------------
(* onConfig.  Its steps but UpdateHealth leave the checkers alone. *)

LEMMA CheckersUntouched ==
  ASSUME IInv, UNCHANGED checking, hpc' # "commit" \/ UNCHANGED <<hpc, cur>>
  PROVE  ChannelsInOrder' /\ CheckerAlive' /\ NewestTicksAtInterval'
  BY DEF IInv, checking, ChannelsInOrder, CheckerAlive, NewestTicksAtInterval, Newest

LEMMA ReceiveStep ==
  ASSUME IInv, NEW accepted \in BOOLEAN, NEW i \in Intervals, Receive(accepted, i)
  PROVE  IInv'
  <1> USE DEF IInv
  <1>1. TypeOK'
    BY IntervalsAssumption, MaxConfigsAssumption
       DEF Receive, TypeOK, Steps, last, objects, checking, serving
  <1>2. AppliedSoFar'
    BY MaxConfigsAssumption DEF Receive, AppliedSoFar, TypeOK, last, objects, checking
  <1>3. CapturedIsLive'
    BY DEF Receive, CapturedIsLive, objects, checking, serving
  <1>4. ChannelsInOrder' /\ CheckerAlive' /\ NewestTicksAtInterval'
    BY CheckersUntouched DEF Receive
  <1> QED BY <1>1, <1>2, <1>3, <1>4

LEMMA UpdateRoutesStep ==
  ASSUME IInv, UpdateRoutes PROVE IInv'
  <1> USE DEF IInv
  <1>1. TypeOK'
    BY DEF UpdateRoutes, TypeOK, Steps, last, checking, serving
  <1>2. AppliedSoFar' /\ CapturedIsLive'
    BY DEF UpdateRoutes, AppliedSoFar, CapturedIsLive, last, checking, serving
  <1>3. ChannelsInOrder' /\ CheckerAlive' /\ NewestTicksAtInterval'
    BY CheckersUntouched DEF UpdateRoutes
  <1> QED BY <1>1, <1>2, <1>3

\* The pool is made once and then kept, so whoever holds it holds the live one.
LEMMA UpdatePoolStep ==
  ASSUME IInv, UpdatePool PROVE IInv'
  <1> USE DEF IInv
  <1>1. TypeOK'
    BY DEF UpdatePool, TypeOK, Steps, last, checking, serving
  <1>2. AppliedSoFar'
    BY DEF UpdatePool, AppliedSoFar, last, checking
  <1>3. CapturedIsLive'
    <2>1. pool # 0 => pool' = pool
      BY DEF UpdatePool, TypeOK
    <2>2. pool = 0 => lb = 0 /\ health = 0 /\ captured.pool = 0
      BY DEF CapturedIsLive
    <2> QED BY <2>1, <2>2 DEF UpdatePool, CapturedIsLive, checking, serving
  <1>4. ChannelsInOrder' /\ CheckerAlive' /\ NewestTicksAtInterval'
    BY CheckersUntouched DEF UpdatePool
  <1> QED BY <1>1, <1>2, <1>3, <1>4

LEMMA CreateLoadBalancerStep ==
  ASSUME IInv, CreateLoadBalancer PROVE IInv'
  <1> USE DEF IInv
  <1>1. TypeOK'
    BY DEF CreateLoadBalancer, TypeOK, Steps, last, checking, serving
  <1>2. AppliedSoFar' /\ CapturedIsLive'
    BY DEF CreateLoadBalancer, AppliedSoFar, CapturedIsLive, last, checking, serving
  <1>3. ChannelsInOrder' /\ CheckerAlive' /\ NewestTicksAtInterval'
    BY CheckersUntouched DEF CreateLoadBalancer
  <1> QED BY <1>1, <1>2, <1>3

\* A checker that is appended is the newest and has not started.
LEMMA AppendChecker ==
  ASSUME checkers \in Seq(Checker)
  PROVE  LET cs == Append(checkers, NewChecker)
         IN  cs \in Seq(Checker) /\ cs # << >> /\ cs[Len(cs)] = NewChecker
  <1>1. NewChecker \in Checker
    BY DEF NewChecker, Checker
  <1> QED BY <1>1

LEMMA UpdateHealthStep ==
  ASSUME IInv, UpdateHealth PROVE IInv'
  <1> USE DEF IInv
  <1>0. /\ hpc = "health" /\ hpc' = "commit" /\ pool # 0
        /\ UNCHANGED <<proc, received, cur, objects, last, ready, serving>>
    BY DEF UpdateHealth, AppliedSoFar
  <1>a. AppliedSoFar'
    <2>1. interval' = cur
      BY DEF UpdateHealth, Restart
    <2>2. health' # 0
      BY <1>0 DEF UpdateHealth
    <2> QED BY <1>0, <2>1, <2>2 DEF AppliedSoFar, last, objects
  <1>b. NewChecker.pc = "start"
    BY DEF NewChecker
  <1>1. CASE health = 0
    <2>1. /\ health' = pool /\ interval' = cur /\ stopCh' = 1
          /\ checkers' = <<NewChecker>> /\ closedChs' = closedChs
      BY <1>1 DEF UpdateHealth
    <2>2. checkers' \in Seq(Checker) /\ checkers' # << >> /\ checkers'[Newest'] = NewChecker
      <3>1. NewChecker \in Checker
        BY DEF NewChecker, Checker
      <3> QED BY <2>1, <3>1 DEF Newest
    <2>3. TypeOK'
      BY <1>0, <2>1, <2>2 DEF TypeOK, Steps, last, objects, serving
    <2>4. closedChs = {}
      BY <1>1 DEF ChannelsInOrder, TypeOK
    <2>5. ChannelsInOrder' /\ CheckerAlive' /\ NewestTicksAtInterval'
      BY <1>0, <1>b, <2>1, <2>2, <2>4 DEF ChannelsInOrder, CheckerAlive, NewestTicksAtInterval
    <2>6. CapturedIsLive'
      BY <1>0, <1>1, <2>1 DEF CapturedIsLive, objects, serving
    <2> QED BY <1>a, <2>3, <2>5, <2>6
  <1>2. CASE health # 0 /\ cur # interval
    <2>1. health' = health /\ Restart(cur)
      BY <1>2 DEF UpdateHealth
    <2>2. checkers' \in Seq(Checker) /\ checkers' # << >> /\ checkers'[Newest'] = NewChecker
      BY <2>1, AppendChecker DEF Restart, Newest, TypeOK
    <2>3. TypeOK'
      BY <1>0, <2>1, <2>2 DEF Restart, TypeOK, Steps, last, objects, serving
    <2>4. ChannelsInOrder'
      BY <1>2, <2>1 DEF Restart, ChannelsInOrder, TypeOK
    <2>5. CheckerAlive'
      <3>1. stopCh' \in Nat
        BY <2>3 DEF TypeOK
      <3>2. stopCh' \notin closedChs'
        BY <2>4, <3>1 DEF ChannelsInOrder
      <3> QED BY <1>b, <2>2, <3>2 DEF CheckerAlive
    <2>6. NewestTicksAtInterval'
      BY <1>0, <1>b, <2>1, <2>2 DEF Restart, NewestTicksAtInterval
    <2>7. CapturedIsLive'
      BY <1>0, <2>1 DEF CapturedIsLive, objects, serving
    <2> QED BY <1>a, <2>3, <2>4, <2>5, <2>6, <2>7
  <1>3. CASE health # 0 /\ cur = interval
    <2>1. UNCHANGED <<health, interval, stopCh, closedChs, checkers>>
      BY <1>3 DEF UpdateHealth
    <2>2. TypeOK'
      BY <1>0, <2>1 DEF TypeOK, Steps, last, objects, serving
    <2>3. ChannelsInOrder' /\ CheckerAlive' /\ NewestTicksAtInterval'
      BY <1>0, <1>3, <2>1 DEF ChannelsInOrder, CheckerAlive, NewestTicksAtInterval, Newest
    <2>4. CapturedIsLive'
      BY <1>0, <2>1 DEF CapturedIsLive, objects, serving
    <2> QED BY <1>a, <2>2, <2>3, <2>4
  <1> QED BY <1>1, <1>2, <1>3

LEMMA CommitStep ==
  ASSUME IInv, Commit PROVE IInv'
  <1> USE DEF IInv
  <1>1. TypeOK'
    BY DEF Commit, TypeOK, Steps, last, objects, checking, serving
  <1>2. AppliedSoFar' /\ CapturedIsLive'
    BY DEF Commit, AppliedSoFar, CapturedIsLive, last, objects, checking, serving
  <1>3. ChannelsInOrder' /\ CheckerAlive' /\ NewestTicksAtInterval'
    BY CheckersUntouched DEF Commit
  <1> QED BY <1>1, <1>2, <1>3

LEMMA SignalFirstStep ==
  ASSUME IInv, SignalFirst PROVE IInv'
  <1> USE DEF IInv
  <1>1. TypeOK'
    BY DEF SignalFirst, TypeOK, Steps, last, objects, checking, serving
  <1>2. AppliedSoFar' /\ CapturedIsLive'
    BY DEF SignalFirst, AppliedSoFar, CapturedIsLive, last, objects, checking, serving
  <1>3. ChannelsInOrder' /\ CheckerAlive' /\ NewestTicksAtInterval'
    BY CheckersUntouched DEF SignalFirst
  <1> QED BY <1>1, <1>2, <1>3

-----------------------------------------------------------------------------
(* The main goroutine *)

\* What the main goroutine does is no step of onConfig and of no checker.
LEMMA MainOnly ==
  ASSUME IInv, UNCHANGED <<subscription, objects, checking, last, ready>>
  PROVE  AppliedSoFar' /\ ChannelsInOrder' /\ CheckerAlive' /\ NewestTicksAtInterval'
  <1>1. AppliedSoFar'
    BY DEF IInv, AppliedSoFar, last, subscription, objects, checking
  <1> QED BY <1>1, CheckersUntouched DEF subscription

LEMMA WaitingStep ==
  ASSUME IInv, GiveUp \/ Proceed PROVE IInv'
  <1>1. UNCHANGED <<proc, subscription, objects, checking, last, ready, captured, answer>>
    BY DEF GiveUp, Proceed
  <1>2. TypeOK'
    BY <1>1 DEF IInv, GiveUp, Proceed, TypeOK, last, subscription, objects, checking
  <1>3. CapturedIsLive'
    BY <1>1 DEF IInv, CapturedIsLive, objects, checking
  <1> QED BY <1>1, <1>2, <1>3, MainOnly DEF IInv

\* A pointer that is copied while HandleConfig runs is nil or the live object.
LEMMA CaptureStep ==
  ASSUME IInv, Capture PROVE IInv'
  <1>1. UNCHANGED <<proc, subscription, objects, checking, last, ready, answer>>
    BY DEF Capture
  <1>2. TypeOK' /\ CapturedIsLive'
    <2> USE <1>1 DEF IInv, TypeOK, CapturedIsLive, last, subscription, objects, checking
    <2>1. CASE main' = "pool" /\ captured' = [captured EXCEPT !.lb = lb]
      BY <2>1
    <2>2. CASE main' = "health" /\ captured' = [captured EXCEPT !.pool = pool]
      BY <2>2
    <2>3. CASE main' = "serving" /\ captured' = [captured EXCEPT !.health = health]
      BY <2>3
    <2> QED BY <2>1, <2>2, <2>3 DEF Capture
  <1> QED BY <1>1, <1>2, MainOnly DEF IInv

LEMMA ServeStep ==
  ASSUME IInv, NEW fails \in BOOLEAN, Serve(fails) PROVE IInv'
  <1>1. UNCHANGED <<subscription, objects, checking, last, ready, main, captured>>
    BY DEF Serve
  <1>2. proc' \in {"up", "panicked"} /\ answer' \in {"none", "404", "ok", "panic"}
    BY DEF IInv, TypeOK, Serve
  <1>3. TypeOK' /\ CapturedIsLive'
    BY <1>1, <1>2 DEF IInv, TypeOK, CapturedIsLive, last, subscription, objects, checking
  <1> QED BY <1>1, <1>3, MainOnly DEF IInv

-----------------------------------------------------------------------------
(* The checkers *)

\* A step of one checker: what it says about the newest one is enough.
LEMMA SetCheckerStep ==
  ASSUME IInv, NEW c \in DOMAIN checkers, NEW r \in Checker, SetChecker(c, r),
         r.pc # "stopped" \/ c # Newest,
         r.pc = "select" /\ c = Newest => r.watch = stopCh,
         r.pc # "start" /\ c = Newest => r.ticker = interval,
         UNCHANGED <<proc, subscription, objects, last, ready, serving>>
  PROVE  IInv'
  <1> USE DEF IInv
  <1>1. /\ checkers' = [checkers EXCEPT ![c] = r]
        /\ UNCHANGED <<health, interval, stopCh, closedChs>>
    BY DEF SetChecker
  <1>2. /\ checkers' \in Seq(Checker) /\ Newest' = Newest
        /\ checkers # << >> /\ checkers' # << >>
    BY <1>1 DEF TypeOK, Newest
  <1>3. checkers'[Newest'] = IF c = Newest THEN r ELSE checkers[Newest]
    BY <1>1, <1>2 DEF TypeOK, Newest
  <1>4. TypeOK'
    BY <1>1, <1>2 DEF TypeOK, last, subscription, objects, serving
  <1>5. AppliedSoFar' /\ CapturedIsLive'
    BY <1>1 DEF AppliedSoFar, CapturedIsLive, last, subscription, objects, serving
  <1>6. health # 0
    BY <1>2 DEF ChannelsInOrder
  <1>7. ChannelsInOrder'
    BY <1>1, <1>6 DEF ChannelsInOrder
  <1>8. CheckerAlive'
    BY <1>1, <1>2, <1>3, <1>6 DEF CheckerAlive
  <1>9. NewestTicksAtInterval'
    BY <1>1, <1>2, <1>3 DEF NewestTicksAtInterval, subscription
  <1> QED BY <1>4, <1>5, <1>7, <1>8, <1>9

LEMMA StartTickerStep ==
  ASSUME IInv, NEW c \in DOMAIN checkers, StartTicker(c) PROVE IInv'
  <1>1. CASE interval > 0
    <2> DEFINE r == [pc |-> "enter", watch |-> 0, ticker |-> interval]
    <2>1. r \in Checker
      BY DEF IInv, TypeOK, Checker
    <2>2. SetChecker(c, r) /\ UNCHANGED <<proc, subscription, objects, last, ready, serving>>
      BY <1>1 DEF StartTicker
    <2> QED BY <2>1, <2>2, SetCheckerStep
  <1>2. CASE ~(interval > 0)
    <2>1. /\ proc' = "panicked"
          /\ UNCHANGED <<subscription, objects, checking, last, ready, serving>>
      BY <1>2 DEF StartTicker
    <2>2. TypeOK' /\ CapturedIsLive'
      BY <2>1 DEF IInv, TypeOK, CapturedIsLive, last, subscription, objects, checking, serving
    <2> QED BY <2>1, <2>2, MainOnly DEF IInv
  <1> QED BY <1>1, <1>2

LEMMA EnterSelectStep ==
  ASSUME IInv, NEW c \in DOMAIN checkers, EnterSelect(c) PROVE IInv'
  <1> DEFINE r == [checkers[c] EXCEPT !.pc = "select", !.watch = stopCh]
  <1>1. checkers[c] \in Checker /\ stopCh \in Nat
    BY DEF IInv, TypeOK
  <1>2. /\ r \in Checker /\ r.pc = "select" /\ r.watch = stopCh
        /\ r.ticker = checkers[c].ticker
    BY <1>1 DEF Checker
  <1>3. c = Newest => checkers[c].ticker = interval
    BY DEF IInv, NewestTicksAtInterval, Newest, EnterSelect, TypeOK
  <1>4. SetChecker(c, r) /\ UNCHANGED <<proc, subscription, objects, last, ready, serving>>
    BY DEF EnterSelect
  <1> HIDE DEF r
  <1> QED BY <1>2, <1>3, <1>4, SetCheckerStep

LEMMA TickStep ==
  ASSUME IInv, NEW c \in DOMAIN checkers, Tick(c) PROVE IInv'
  <1> DEFINE r == [checkers[c] EXCEPT !.pc = "sweep"]
  <1>1. checkers[c] \in Checker
    BY DEF IInv, TypeOK
  <1>2. r \in Checker /\ r.pc = "sweep" /\ r.ticker = checkers[c].ticker
    BY <1>1 DEF Checker
  <1>3. c = Newest => checkers[c].ticker = interval
    BY DEF IInv, NewestTicksAtInterval, Newest, Tick, TypeOK
  <1>4. SetChecker(c, r) /\ UNCHANGED <<proc, subscription, objects, last, ready, serving>>
    BY DEF Tick
  <1> HIDE DEF r
  <1> QED BY <1>2, <1>3, <1>4, SetCheckerStep

LEMMA SweepDoneStep ==
  ASSUME IInv, NEW c \in DOMAIN checkers, SweepDone(c) PROVE IInv'
  <1> DEFINE r == [checkers[c] EXCEPT !.pc = "select", !.watch = stopCh]
  <1>1. checkers[c] \in Checker /\ stopCh \in Nat
    BY DEF IInv, TypeOK
  <1>2. /\ r \in Checker /\ r.pc = "select" /\ r.watch = stopCh
        /\ r.ticker = checkers[c].ticker
    BY <1>1 DEF Checker
  <1>3. c = Newest => checkers[c].ticker = interval
    BY DEF IInv, NewestTicksAtInterval, Newest, SweepDone, TypeOK
  <1>4. SetChecker(c, r) /\ UNCHANGED <<proc, subscription, objects, last, ready, serving>>
    BY DEF SweepDone
  <1> HIDE DEF r
  <1> QED BY <1>2, <1>3, <1>4, SetCheckerStep

\* Only an older checker can be stopped: the newest waits on a channel that is
\* not closed.
LEMMA StopStep ==
  ASSUME IInv, NEW c \in DOMAIN checkers, Stop(c) PROVE IInv'
  <1> DEFINE r == [checkers[c] EXCEPT !.pc = "stopped"]
  <1>1. checkers[c] \in Checker /\ checkers # << >>
    BY DEF IInv, TypeOK
  <1>2. r \in Checker /\ r.pc = "stopped"
    BY <1>1 DEF Checker
  <1>3. c # Newest
    <2>1. health # 0
      BY <1>1 DEF IInv, ChannelsInOrder
    <2>2. checkers[c].pc = "select" /\ checkers[c].watch \in closedChs
      BY DEF Stop
    <2> QED BY <2>1, <2>2 DEF IInv, CheckerAlive
  <1>4. SetChecker(c, r) /\ UNCHANGED <<proc, subscription, objects, last, ready, serving>>
    BY DEF Stop
  <1> HIDE DEF r
  <1> QED BY <1>2, <1>3, <1>4, SetCheckerStep

-----------------------------------------------------------------------------
LEMMA StepIInv == IInv /\ [Next]_vars => IInv'
  <1> SUFFICES ASSUME IInv, [Next]_vars PROVE IInv' OBVIOUS
  <1>1. CASE UNCHANGED vars
    <2>1. TypeOK' /\ CapturedIsLive'
      BY <1>1 DEF vars, IInv, TypeOK, CapturedIsLive, last, subscription, objects, checking, serving
    <2> QED BY <1>1, <2>1, MainOnly DEF vars, IInv
  <1>2. CASE OnConfig
    BY <1>2, UpdateRoutesStep, UpdatePoolStep, CreateLoadBalancerStep, UpdateHealthStep,
       CommitStep, SignalFirstStep DEF OnConfig
  <1>3. ASSUME NEW c \in DOMAIN checkers, Check(c) PROVE IInv'
    BY <1>3, StartTickerStep, EnterSelectStep, TickStep, SweepDoneStep, StopStep DEF Check
  <1> QED BY <1>1, <1>2, <1>3, ReceiveStep, WaitingStep, CaptureStep, ServeStep DEF Next

LEMMA InductiveInvariant == Spec => []IInv
  BY InitIInv, StepIInv, PTL DEF Spec

\* dataplane.go 166-220: whenever HandleConfig is not running, routes, backends,
\* objects and the health interval are those of the last configuration it
\* accepted.
THEOREM AppliedAsAWhole == Spec => []AllOrNothing
  <1>1. IInv => AllOrNothing
    BY DEF IInv, AppliedSoFar, AllOrNothing
  <1> QED BY <1>1, InductiveInvariant, PTL

\* The pointers that gateway.go and listener.go copy without p.mu, at whatever
\* moment of HandleConfig, are nil or the objects every later configuration
\* updates.
THEOREM HandlersHoldLiveObjects == Spec => []CapturedIsLive
  <1>1. IInv => CapturedIsLive
    BY DEF IInv
  <1> QED BY <1>1, InductiveInvariant, PTL

\* health.go 118-137: Restart, at any point of a sweep, leaves a checker that
\* no closed channel will stop.
THEOREM CheckerSurvivesRestart == Spec => []CheckerAlive
  <1>1. IInv => CheckerAlive
    BY DEF IInv
  <1> QED BY <1>1, InductiveInvariant, PTL

\* That checker ticks at the interval last configured, although its goroutine
\* reads the interval later than Restart sets it.
THEOREM NewestFollowsInterval == Spec => []NewestTicksAtInterval
  <1>1. IInv => NewestTicksAtInterval
    BY DEF IInv
  <1> QED BY <1>1, InductiveInvariant, PTL
=============================================================================
