---------------------------- MODULE WatcherProofs ----------------------------
(***************************************************************************)
(* For any number of changes, any channel capacity and any versions        *)
(* without services: what Watcher sends is valid and never exceeds its     *)
(* channel, and the debouncer loses no change.                             *)
(***************************************************************************)
EXTENDS Watcher, TLAPS

\* buildConfig gives more or less of the state that discovery has now.
LEMMA BuildsType ==
  ASSUME found \in Versions, NEW c \in Builds
  PROVE  c \in Config /\ c.v = found /\ (Valid(c) => c \in ValidConfig)
  <1>1. PICK p \in {"all", "some", "none"} : c = [v |-> found, part |-> p]
    BY DEF Builds
  <1>2. c \in Config /\ c.v = found
    BY <1>1 DEF Config
  <1> QED BY <1>2 DEF ValidConfig

LEMMA InitIInv == Init => IInv
  <1> SUFFICES ASSUME Init PROVE IInv OBVIOUS
  <1>1. TypeOK
    <2>1. found \in Versions /\ told \in Versions /\ unsignalled \in 0 .. MaxChanges + 1
      BY ChangesAssumption DEF Init, Versions
    <2>2. configChan \in Seq(ValidConfig) /\ Len(configChan) <= ChanCap
      <3>1. Len(configChan) = 0
        BY DEF Init
      <3> QED BY <3>1, CapAssumption DEF Init
    <2> QED BY <2>1, <2>2 DEF Init, TypeOK
  <1>2. BuiltSinceTold /\ OnlyValidSent
    BY DEF Init, BuiltSinceTold, OnlyValidSent
  <1> QED BY <1>1, <1>2 DEF IInv

\* A valid configuration fits the channel, and a channel with room takes one.
LEMMA AppendType ==
  ASSUME configChan \in Seq(ValidConfig), Len(configChan) <= ChanCap,
         ~Full, NEW c \in ValidConfig
  PROVE  /\ Append(configChan, c) \in Seq(ValidConfig)
         /\ Len(Append(configChan, c)) <= ChanCap
  <1>1. Append(configChan, c) \in Seq(ValidConfig)
    OBVIOUS
  <1>2. Len(Append(configChan, c)) = Len(configChan) + 1
    OBVIOUS
  <1> QED BY <1>1, <1>2, CapAssumption DEF Full

LEMMA StepIInv == IInv /\ [Next]_vars => IInv'
  <1> SUFFICES ASSUME IInv, [Next]_vars PROVE IInv' OBVIOUS
  <1> USE DEF IInv
  <1>0. found \in Int /\ told \in Int /\ unsignalled \in Int /\ MaxChanges \in Nat
    BY ChangesAssumption DEF TypeOK, Versions
  <1>1. CASE UNCHANGED vars
    BY <1>1 DEF discovery, vars, signals, debouncer, watch, loop, TypeOK, BuiltSinceTold, Pending,
                OnlyValidSent
  <1>2. CASE Change
    <2>1. TypeOK' /\ OnlyValidSent'
      BY <1>0, <1>2 DEF Change, TypeOK, OnlyValidSent, Versions, debouncer, watch, loop
    <2>2. BuiltSinceTold'
      BY <1>0, <1>2 DEF Change, TypeOK, BuiltSinceTold, Pending, debouncer
    <2> QED BY <2>1, <2>2
  <1>13. CASE ChangeHealth
    <2>1. TypeOK' /\ OnlyValidSent'
      BY <1>0, <1>13 DEF ChangeHealth, TypeOK, OnlyValidSent, Versions, signals, debouncer,
                         watch, loop
    <2>2. BuiltSinceTold'
      BY <1>13 DEF ChangeHealth, BuiltSinceTold, Pending, signals, debouncer
    <2> QED BY <2>1, <2>2
  <1>3. CASE SignalUpdate
    <2>1. TypeOK' /\ OnlyValidSent'
      BY <1>0, <1>3 DEF discovery, SignalUpdate, TypeOK, OnlyValidSent, debouncer, watch, loop
    <2>2. BuiltSinceTold'
      BY <1>3 DEF discovery, SignalUpdate, BuiltSinceTold, Pending, debouncer
    <2> QED BY <2>1, <2>2
  <1>4. CASE Cancel
    BY <1>4 DEF discovery, Cancel, TypeOK, OnlyValidSent, BuiltSinceTold, Pending, signals, debouncer,
                watch, loop
  <1>5. CASE Debounce
    BY <1>5 DEF discovery, Debounce, TypeOK, OnlyValidSent, BuiltSinceTold, Pending, watch, loop
  <1>6. CASE Fire
    <2> PICK c \in Builds : dcfg' = c /\ dpc' = IF Valid(c) THEN "push" ELSE "select"
      BY <1>6 DEF Fire
    <2>1. c \in Config /\ c.v = found /\ (Valid(c) => c \in ValidConfig)
      BY BuildsType DEF TypeOK
    <2>2. TypeOK'
      BY <1>6, <2>1 DEF discovery, Fire, TypeOK, signals, watch, loop
    <2>3. OnlyValidSent'
      BY <1>6, <2>1 DEF discovery, Fire, OnlyValidSent, signals, watch
    <2>4. BuiltSinceTold'
      BY <1>0, <1>6, <2>1 DEF Fire, BuiltSinceTold, OnlyValidSent, discovery
    <2> QED BY <2>2, <2>3, <2>4
  <1>7. CASE Push
    <2>1. /\ configChan' \in Seq(ValidConfig)
          /\ Len(configChan') <= ChanCap
      BY <1>7, AppendType DEF Push, TypeOK, OnlyValidSent
    <2>2. TypeOK'
      BY <1>7, <2>1 DEF discovery, Push, TypeOK, signals, watch, loop
    <2>3. OnlyValidSent' /\ BuiltSinceTold'
      BY <1>7 DEF discovery, Push, OnlyValidSent, BuiltSinceTold, Pending, signals, watch
    <2> QED BY <2>2, <2>3
  <1>8. CASE StopDebouncer
    BY <1>8 DEF discovery, StopDebouncer, TypeOK, OnlyValidSent, BuiltSinceTold, Pending, signals,
                watch, loop
  <1>9. CASE BuildInitial
    <2> PICK c \in Builds : wcfg' = c /\ wpc' = IF Valid(c) THEN "send" ELSE "returned"
      BY <1>9 DEF BuildInitial
    <2>1. c \in Config /\ (Valid(c) => c \in ValidConfig)
      BY BuildsType DEF TypeOK
    <2>2. TypeOK'
      BY <1>9, <2>1 DEF discovery, BuildInitial, TypeOK, signals, debouncer, loop
    <2>3. OnlyValidSent' /\ BuiltSinceTold'
      BY <1>9, <2>1 DEF discovery, BuildInitial, OnlyValidSent, BuiltSinceTold, Pending, signals,
                        debouncer
    <2> QED BY <2>2, <2>3
  <1>10. CASE SendInitial
    <2>1. /\ configChan' \in Seq(ValidConfig)
          /\ Len(configChan') <= ChanCap
      BY <1>10, AppendType DEF SendInitial, TypeOK, OnlyValidSent
    <2>2. TypeOK'
      BY <1>10, <2>1 DEF discovery, SendInitial, TypeOK, signals, debouncer, loop
    <2>3. OnlyValidSent' /\ BuiltSinceTold'
      BY <1>10 DEF discovery, SendInitial, OnlyValidSent, BuiltSinceTold, Pending, signals, debouncer
    <2> QED BY <2>2, <2>3
  <1>11. CASE UpdateServer
    <2>1. /\ configChan' \in Seq(ValidConfig)
          /\ Len(configChan') <= ChanCap
          /\ current' \in ValidConfig
      BY <1>11, CapAssumption DEF UpdateServer, TypeOK
    <2>2. TypeOK'
      BY <1>11, <2>1 DEF discovery, UpdateServer, TypeOK, signals, debouncer, watch
    <2>3. OnlyValidSent' /\ BuiltSinceTold'
      BY <1>11 DEF discovery, UpdateServer, OnlyValidSent, BuiltSinceTold, Pending, signals, debouncer,
                   watch
    <2> QED BY <2>2, <2>3
  <1>12. CASE StopLoop
    BY <1>12 DEF discovery, StopLoop, TypeOK, OnlyValidSent, BuiltSinceTold, Pending, signals,
                 debouncer, watch
  <1> QED BY <1>1, <1>2, <1>3, <1>4, <1>5, <1>6, <1>7, <1>8, <1>9, <1>10, <1>11, <1>12,
             <1>13
          DEF Next, RunDebouncer, Watch, Loop

LEMMA InductiveInvariant == Spec => []IInv
  BY InitIInv, StepIInv, PTL DEF Spec

\* Only configurations with at least one service reach the channel and the
\* server, and the channel never holds more than its capacity, whether the
\* debouncer drops or the initial send waits.
THEOREM TypeCorrect == Spec => []TypeOK
  <1>1. IInv => TypeOK
    BY DEF IInv
  <1> QED BY <1>1, InductiveInvariant, PTL

\* runDebouncer loses no change that it was told of: at rest it has built, or
\* its queries failed, from a state no older, however signals and timers were
\* coalesced.
THEOREM WakeupsNeverLost == Spec => []NoLostWakeup
  <1>1. IInv => NoLostWakeup
    BY DEF IInv, TypeOK, BuiltSinceTold, NoLostWakeup, Quiet, Pending
  <1> QED BY <1>1, InductiveInvariant, PTL
=============================================================================
