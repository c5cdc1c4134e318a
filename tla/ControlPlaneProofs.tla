------------------------- MODULE ControlPlaneProofs -------------------------
(***************************************************************************)
(* Theorems about the control plane: the way of a configuration from the   *)
(* file to the routes that the proxies serve (ConfigDelivery), and the     *)
(* injector, which runs in the same process (Injector).                    *)
(***************************************************************************)
EXTENDS ConfigDelivery, Injector, FiniteSetTheorems, TLAPS

-----------------------------------------------------------------------------
(* UpdateRoutes, round by round *)

\* A set of natural numbers that is not empty has a least element: the form in
\* which the rounds of a loop are gone through by induction.
LEMMA LeastNat ==
    ASSUME NEW T \in SUBSET Nat, T # {}
    PROVE  \E m \in T : \A k \in T : ~(k < m)
  <1>1. IsWellFoundedOn(OpToRel(<, Nat), Nat)
    BY NatLessThanWellFounded, Zenon
  <1>2. PICK m \in T : \A k \in T : ~(<<k, m>> \in OpToRel(<, Nat))
    BY <1>1, WFMin, Zenon
  <1>3. \A k \in T : k < m => <<k, m>> \in OpToRel(<, Nat)
    BY Zenon DEF OpToRel
  <1> QED BY <1>2, <1>3, Zenon

\* The indexes after each of the first m rounds.
UpTo(order, m, g) ==
    g = [n \in 0 .. m |-> IF n = 0 THEN << >> ELSE AddRoutes(g[n - 1], order[n])]

\* However many rounds there are, the loop goes through them.
LEMMA RoundsExist ==
    ASSUME NEW order, NEW m \in Nat
    PROVE  \E g : UpTo(order, m, g)
  <1> DEFINE T == {k \in Nat : ~ \E g : UpTo(order, k, g)}
  <1> SUFFICES ASSUME T # {} PROVE FALSE
    OBVIOUS
  <1>1. PICK k \in T : \A j \in T : ~(j < k)
    BY LeastNat
  <1>2. CASE k = 0
    <2> DEFINE h == [n \in 0 .. 0 |-> << >>]
    <2>1. UpTo(order, 0, h)
      BY DEF UpTo
    <2> QED BY <1>1, <1>2, <2>1
  <1>3. CASE k # 0
    <2>1. k - 1 \in Nat /\ k - 1 < k
      BY <1>1, <1>3
    <2>2. PICK g : UpTo(order, k - 1, g)
      BY <1>1, <2>1
    <2> DEFINE h == [n \in 0 .. k |-> IF n = k THEN AddRoutes(g[k - 1], order[k]) ELSE g[n]]
    <2>3. ASSUME NEW n \in 0 .. k
          PROVE  h[n] = IF n = 0 THEN << >> ELSE AddRoutes(h[n - 1], order[n])
      <3>1. CASE n = k
        BY <1>1, <1>3, <2>1, <3>1
      <3>2. CASE n # k
        <4>1. n \in 0 .. (k - 1)
          BY <1>1, <2>1, <3>2
        <4>2. g[n] = IF n = 0 THEN << >> ELSE AddRoutes(g[n - 1], order[n])
          BY <2>2, <4>1 DEF UpTo
        <4>3. n # 0 => n - 1 \in 0 .. k /\ n - 1 # k
          BY <1>1, <4>1
        <4> QED BY <3>2, <4>2, <4>3
      <3> QED BY <3>1, <3>2
    <2>4. UpTo(order, k, h)
      BY <2>3 DEF UpTo
    <2> QED BY <1>1, <2>4
  <1> QED BY <1>2, <1>3

\* Rounds is what its definition says.
LEMMA RoundsDefined ==
    ASSUME NEW order, Len(order) \in Nat
    PROVE  UpTo(order, Len(order), Rounds(order))
  <1>1. Rounds(order) = CHOOSE g : UpTo(order, Len(order), g)
    BY DEF Rounds, UpTo
  <1>2. \E g : UpTo(order, Len(order), g)
    BY RoundsExist
  <1> QED BY <1>1, <1>2

\* After each round the index has the keys of the services met so far, and
\* every one of them names a service that declares it.
LEMMA RoundsOK ==
    ASSUME NEW order, Len(order) \in Nat, NEW m \in 0 .. Len(order)
    PROVE  /\ DOMAIN Rounds(order)[m] = UNION {Keys(order[i]) : i \in 1 .. m}
           /\ \A k \in DOMAIN Rounds(order)[m] :
                 \E i \in 1 .. m : k \in Keys(order[i]) /\ Rounds(order)[m][k] = order[i].name
  <1> DEFINE g == Rounds(order)
             OK(n) == /\ DOMAIN g[n] = UNION {Keys(order[i]) : i \in 1 .. n}
                      /\ \A k \in DOMAIN g[n] :
                            \E i \in 1 .. n : k \in Keys(order[i]) /\ g[n][k] = order[i].name
             T == {n \in 0 .. Len(order) : ~OK(n)}
  <1> SUFFICES ASSUME T # {} PROVE FALSE
    OBVIOUS
  <1>1. PICK n \in T : \A j \in T : ~(j < n)
    <2>1. T \subseteq Nat
      OBVIOUS
    <2> QED BY <2>1, LeastNat
  <1>2. g[n] = IF n = 0 THEN << >> ELSE AddRoutes(g[n - 1], order[n])
    BY RoundsDefined DEF UpTo
  <1>3. CASE n = 0
    <2>1. g[n] = << >> /\ DOMAIN g[n] = {} /\ 1 .. n = {}
      BY <1>2, <1>3
    <2>2. OK(n)
      BY <2>1
    <2> QED BY <1>1, <2>2
  <1>4. CASE n # 0
    <2>1. n - 1 \in 0 .. Len(order) /\ n - 1 < n
      BY <1>1, <1>4
    <2>2. OK(n - 1)
      BY <1>1, <2>1
    <2>3. /\ n \in 1 .. n
          /\ \A i \in 1 .. n : i = n \/ i \in 1 .. (n - 1)
          /\ \A i \in 1 .. (n - 1) : i \in 1 .. n
      BY <1>1, <1>4
    <2>4. /\ DOMAIN g[n] = DOMAIN g[n - 1] \cup Keys(order[n])
          /\ \A k \in DOMAIN g[n] :
                g[n][k] = IF k \in Keys(order[n]) THEN order[n].name ELSE g[n - 1][k]
      BY <1>2, <1>4 DEF AddRoutes
    <2>5. DOMAIN g[n] = UNION {Keys(order[i]) : i \in 1 .. n}
      <3>1. DOMAIN g[n - 1] = UNION {Keys(order[i]) : i \in 1 .. (n - 1)}
        BY <2>2
      <3> HIDE DEF g
      <3> QED BY <2>3, <2>4, <3>1
    <2>6. ASSUME NEW k \in DOMAIN g[n]
          PROVE  \E i \in 1 .. n : k \in Keys(order[i]) /\ g[n][k] = order[i].name
      <3>1. CASE k \in Keys(order[n])
        BY <2>3, <2>4, <3>1
      <3>2. CASE k \notin Keys(order[n])
        <4>1. PICK i \in 1 .. (n - 1) : k \in Keys(order[i]) /\ g[n - 1][k] = order[i].name
          BY <2>2, <2>4, <3>2
        <4> QED BY <2>3, <2>4, <3>2, <4>1
      <3> QED BY <3>1, <3>2
    <2>7. OK(n)
      BY <2>5, <2>6
    <2> QED BY <1>1, <2>7
  <1> QED BY <1>3, <1>4

\* An order in which UpdateRoutes meets the services leaves none out.
LEMMA OrdersCover ==
    ASSUME NEW S, IsFiniteSet(S), NEW f \in SetToSeqs(S)
    PROVE  /\ Len(f) \in Nat
           /\ {f[i] : i \in 1 .. Len(f)} = S
  <1> DEFINE n == Cardinality(S)
  <1>1. n \in Nat
    BY FS_CardinalityType
  <1>2. f \in [1 .. n -> S] /\ \A i, j \in 1 .. n : i # j => f[i] # f[j]
    BY DEF SetToSeqs
  <1>3. f \in Injection(1 .. n, S)
    BY <1>2 DEF Injection, IsInjective
  <1>4. Cardinality(1 .. n) = n
    BY <1>1, FS_Interval
  <1>5. f \in Surjection(1 .. n, S)
    BY <1>3, <1>4, FS_Injection
  <1>6. Len(f) = n
    BY <1>1, <1>2
  <1> QED BY <1>1, <1>2, <1>5, <1>6 DEF Surjection

\* Whatever the order, the index routes what the configuration declares.
Routed(c, index) ==
    /\ DOMAIN index = UNION {Keys(svc) : svc \in Ran(c.services)}
    /\ \A k \in DOMAIN index :
          FindService(index, k[1], k[2]) \in Declarers(c, k[1], k[2])

LEMMA PathIndexesOK ==
    ASSUME NEW c, IsFiniteSet(Ran(c.services)), NEW index \in PathIndexes(c)
    PROVE  Routed(c, index)
  <1>1. PICK order \in SetToSeqs(Ran(c.services)) : index = PathIndex(order)
    BY DEF PathIndexes
  <1> DEFINE n == Len(order)
  <1>2. n \in Nat /\ {order[i] : i \in 1 .. n} = Ran(c.services)
    BY <1>1, OrdersCover
  <1>3. /\ DOMAIN index = UNION {Keys(order[i]) : i \in 1 .. n}
        /\ \A k \in DOMAIN index :
              \E i \in 1 .. n : k \in Keys(order[i]) /\ index[k] = order[i].name
    <2>1. n \in 0 .. n /\ index = Rounds(order)[n]
      BY <1>1, <1>2 DEF PathIndex
    <2> HIDE DEF n
    <2> QED BY <1>2, <2>1, RoundsOK DEF n
  <1> HIDE DEF n
  <1>4. DOMAIN index = UNION {Keys(svc) : svc \in Ran(c.services)}
    BY <1>2, <1>3
  <1>5. ASSUME NEW k \in DOMAIN index
        PROVE  FindService(index, k[1], k[2]) \in Declarers(c, k[1], k[2])
    <2>1. PICK i \in 1 .. n : k \in Keys(order[i]) /\ index[k] = order[i].name
      BY <1>3
    <2>2. order[i] \in Ran(c.services)
      BY <1>2
    <2>3. k = <<k[1], k[2]>>
      BY <2>1 DEF Keys
    <2>4. FindService(index, k[1], k[2]) = order[i].name
      BY <2>1, <2>3 DEF FindService
    <2> QED BY <2>1, <2>2, <2>3, <2>4 DEF Declarers
  <1> QED BY <1>4, <1>5 DEF Routed

\* Before the first configuration: no service, and the index without keys.
LEMMA NothingRouted ==
    /\ Ran(Parse[Empty].services) = {}
    /\ << >> \in PathIndexes(Parse[Empty])
  <1>1. Ran(Parse[Empty].services) = {}
    <2>1. Items(Junk) = << >>
      BY DEF Items
    <2>2. DOMAIN ParseServices(Junk) = {}
      BY <2>1 DEF ParseServices
    <2>3. Parse[Empty].services = ParseServices(Junk)
      BY RawAssumption DEF Parse, ParseConfig
    <2> QED BY <2>2, <2>3 DEF Ran
  <1>2. << >> \in SetToSeqs({})
    <2>1. Cardinality({}) = 0
      BY FS_EmptySet
    <2> QED BY <2>1 DEF SetToSeqs
  <1>3. PathIndex(<< >>) = << >>
    <2>1. Len(<< >>) = 0
      OBVIOUS
    <2>2. UpTo(<< >>, 0, Rounds(<< >>))
      BY <2>1, RoundsDefined
    <2> QED BY <2>1, <2>2 DEF PathIndex, UpTo
  <1> QED BY <1>1, <1>2, <1>3 DEF PathIndexes

LEMMA EmptyFunction ==
    ASSUME NEW T, NEW f \in [{} -> T]
    PROVE  f = << >>
  OBVIOUS

\* A configuration that a proxy accepts routes something.
LEMMA AcceptedIsRouted ==
    ASSUME NEW t \in AnyText, Accepts(Parse[t])
    PROVE  UNION {Keys(svc) : svc \in Ran(Parse[t].services)} # {}
  <1> DEFINE c == Parse[t]
  <1>1. c.services # << >> /\ \A svc \in Ran(c.services) :
           svc.routes # << >> /\ \A r \in Ran(svc.routes) : Methods(r) # {}
    BY DEF Accepts, HasBackends, Routable, ServiceValid
  <1>2. c.services = ParseServices(Raw[t].services)
    BY DEF Parse, ParseConfig, AnyText
  <1>3. PICK i \in DOMAIN c.services : TRUE
    <2>1. c.services \in [DOMAIN c.services -> Ran(c.services)]
      BY <1>2 DEF ParseServices, Ran
    <2> QED BY <1>1, <2>1, EmptyFunction
  <1> DEFINE svc == c.services[i]
  <1>4. svc \in Ran(c.services)
    BY <1>3 DEF Ran
  <1>5. \E raw : svc.routes = ParseRoutes(raw)
    BY <1>2, <1>3 DEF ParseServices
  <1>6. PICK j \in DOMAIN svc.routes : TRUE
    <2>1. svc.routes \in [DOMAIN svc.routes -> Ran(svc.routes)]
      BY <1>5 DEF ParseRoutes, Ran
    <2>2. svc.routes # << >>
      BY <1>1, <1>4
    <2> QED BY <2>1, <2>2, EmptyFunction
  <1>7. svc.routes[j] \in Ran(svc.routes) /\ Methods(svc.routes[j]) # {}
    BY <1>1, <1>4, <1>6 DEF Ran
  <1>8. Keys(svc) # {}
    <2> DEFINE r == svc.routes[j]
    <2>1. PICK m \in Methods(r) : TRUE
      BY <1>7
    <2>2. <<r.path, m>> \in {r.path} \X Methods(r)
      BY <2>1
    <2> QED BY <1>7, <2>2 DEF Keys
  <1> QED BY <1>4, <1>8

-----------------------------------------------------------------------------
(* From the file to the proxies *)

\* The part of the invariant that is about the file watcher.
WatcherInv == WatcherTypeOK /\ OnlyLoadedSent /\ ClosedAtRest

\* An empty file is never loaded.
LEMMA ValidTexts == Valid \subseteq Texts
  BY TextAssumption DEF Valid

LEMMA WatcherStarts == WatcherInit => WatcherInv
  <1> SUFFICES ASSUME WatcherInit PROVE WatcherInv
    OBVIOUS
  <1> USE DEF WatcherInit, Idle
  <1>1. WatcherTypeOK
    <2>1. {watched, timer, closed, ctxDone} \subseteq BOOLEAN
      OBVIOUS
    <2>2. reload \in [Slots -> [pc : {"idle", "load", "send"}, cfg : AnyText]]
      BY DEF AnyText
    <2>3. wcfg \in AnyText /\ saves \in 0 .. MaxSaves /\ events \in 0 .. 2
      BY SavesAssumption DEF AnyText
    <2>4. configChan \in Seq(Texts) /\ Len(configChan) <= ChanCap
      BY DEF ChanCap
    <2> QED BY <2>1, <2>2, <2>3, <2>4 DEF WatcherTypeOK
  <1>2. OnlyLoadedSent
    BY DEF OnlyLoadedSent
  <1>3. ClosedAtRest
    BY DEF ClosedAtRest, NothingUnderWay
  <1> QED BY <1>1, <1>2, <1>3 DEF WatcherInv

LEMMA SavePreserves == WatcherInv /\ Save => WatcherInv'
  <1> SUFFICES ASSUME WatcherInv, Save PROVE WatcherInv'
    OBVIOUS
  <1> USE DEF WatcherInv, watchVars, chanVars
  <1>1. WatcherTypeOK'
    <2>1. events' \in 0 .. 2
      BY DEF Save, SaveTruncate, SaveText, SaveRename, Notify, WatcherTypeOK
    <2>3. watched' \in BOOLEAN
      BY DEF Save, SaveTruncate, SaveText, SaveRename, WatcherTypeOK
    <2>2. file' \in AnyText /\ saves' \in 0 .. MaxSaves
      BY SavesAssumption DEF Save, SaveTruncate, SaveText, SaveRename, WatcherTypeOK, AnyText
    <2> QED BY <2>1, <2>2, <2>3 DEF Save, SaveTruncate, SaveText, SaveRename, WatcherTypeOK
  <1>2. OnlyLoadedSent'
    BY DEF OnlyLoadedSent, Save, SaveTruncate, SaveText, SaveRename
  <1>3. ClosedAtRest'
    BY DEF ClosedAtRest, NothingUnderWay, Save, SaveTruncate, SaveText, SaveRename
  <1> QED BY <1>1, <1>2, <1>3

LEMMA WatchPreserves == WatcherInv /\ Watch => WatcherInv'
  <1> SUFFICES ASSUME WatcherInv, Watch PROVE WatcherInv'
    OBVIOUS
  <1> USE DEF WatcherInv, fileVars, notifyVars, chanVars, Stopped
  <1>1. CASE AddWatch
    <2>1. WatcherTypeOK'
      <3>1. watched' \in BOOLEAN /\ closed' \in BOOLEAN /\ timer' \in BOOLEAN
        BY <1>1 DEF AddWatch, WatcherTypeOK
      <3> QED BY <1>1, <3>1 DEF AddWatch, WatcherTypeOK
    <2>2. OnlyLoadedSent' /\ ClosedAtRest'
      BY <1>1 DEF AddWatch, OnlyLoadedSent, ClosedAtRest, NothingUnderWay
    <2> QED BY <2>1, <2>2
  <1>2. CASE LoadInitial
    <2>1. WatcherTypeOK'
      <3>1. watched' \in BOOLEAN /\ closed' \in BOOLEAN /\ timer' \in BOOLEAN
        BY <1>2 DEF LoadInitial, WatcherTypeOK
      <3> QED BY <1>2, <3>1, ValidTexts DEF LoadInitial, WatcherTypeOK, AnyText
    <2>2. OnlyLoadedSent'
      BY <1>2 DEF LoadInitial, OnlyLoadedSent
    <2>3. ClosedAtRest'
      BY <1>2 DEF LoadInitial, ClosedAtRest, NothingUnderWay
    <2> QED BY <2>1, <2>2, <2>3
  <1>3. CASE SendInitial
    <2>1. configChan' \in Seq(Texts) /\ Len(configChan') <= ChanCap
      BY <1>3, ValidTexts DEF SendInitial, WatcherTypeOK, OnlyLoadedSent, Room, ChanCap
    <2>2. WatcherTypeOK'
      <3>1. watched' \in BOOLEAN /\ closed' \in BOOLEAN
        BY <1>3 DEF SendInitial, WatcherTypeOK
      <3> QED BY <1>3, <2>1, <3>1 DEF SendInitial, WatcherTypeOK, AnyText
    <2>3. OnlyLoadedSent' /\ ClosedAtRest'
      BY <1>3 DEF SendInitial, OnlyLoadedSent, ClosedAtRest, NothingUnderWay
    <2> QED BY <2>2, <2>3
  <1>4. CASE TakeEvent
    <2>1. WatcherTypeOK'
      BY <1>4 DEF TakeEvent, WatcherTypeOK
    <2>2. OnlyLoadedSent' /\ ClosedAtRest'
      BY <1>4 DEF TakeEvent, OnlyLoadedSent, ClosedAtRest
    <2> QED BY <2>1, <2>2
  <1>5. CASE StopWatch
    <2>1. WatcherTypeOK'
      <3>1. watched' \in BOOLEAN /\ closed' \in BOOLEAN /\ timer' \in BOOLEAN
        BY <1>5 DEF StopWatch, WatcherTypeOK
      <3> QED BY <1>5, <3>1 DEF StopWatch, WatcherTypeOK
    <2>2. OnlyLoadedSent' /\ ClosedAtRest'
      BY <1>5 DEF StopWatch, OnlyLoadedSent, ClosedAtRest
    <2> QED BY <2>1, <2>2
  <1> QED BY <1>1, <1>2, <1>3, <1>4, <1>5 DEF Watch

\* A panic leaves nothing under way.
LEMMA PanicPreserves ==
    ASSUME WatcherInv, Panic, UNCHANGED <<fileVars, ctxDone>>
    PROVE  WatcherInv'
  <1> USE DEF WatcherInv, Panic, fileVars, Idle
  <1>1. WatcherTypeOK'
    <2>1. watched' \in BOOLEAN /\ timer' \in BOOLEAN
      OBVIOUS
    <2>2. configChan' \in Seq(Texts) /\ Len(configChan') <= ChanCap
      BY DEF ChanCap
    <2> QED BY <2>1, <2>2 DEF WatcherTypeOK, AnyText
  <1>2. OnlyLoadedSent' /\ ClosedAtRest'
    BY DEF OnlyLoadedSent, ClosedAtRest, NothingUnderWay
  <1> QED BY <1>1, <1>2

LEMMA TimerFuncPreserves ==
    ASSUME WatcherInv, NEW i \in Slots, TimerFunc(i)
    PROVE  WatcherInv'
  <1> USE DEF WatcherInv, fileVars, notifyVars, watchVars, chanVars, Survives
  <1>1. CASE FireTimer(i)
    <2>1. WatcherTypeOK'
      BY <1>1 DEF FireTimer, WatcherTypeOK
    <2>2. OnlyLoadedSent' /\ ClosedAtRest'
      BY <1>1 DEF FireTimer, WatcherTypeOK, OnlyLoadedSent, ClosedAtRest, NothingUnderWay
    <2> QED BY <2>1, <2>2
  <1>2. CASE Reload(i) /\ ~(LoadsOverlap /\ Panic)
    <2>1. WatcherTypeOK'
      BY <1>2, ValidTexts DEF Reload, WatcherTypeOK, AnyText, Idle
    <2>2. OnlyLoadedSent' /\ ClosedAtRest'
      BY <1>2 DEF Reload, WatcherTypeOK, OnlyLoadedSent, ClosedAtRest, NothingUnderWay, Idle
    <2> QED BY <2>1, <2>2
  <1>3. CASE SendReload(i) /\ ~(closed /\ Panic)
    <2>1. configChan' \in Seq(Texts) /\ Len(configChan') <= ChanCap
      BY <1>3, ValidTexts DEF SendReload, WatcherTypeOK, OnlyLoadedSent, Room, ChanCap
    <2>2. WatcherTypeOK'
      BY <1>3, <2>1 DEF SendReload, WatcherTypeOK, AnyText, Idle
    <2>3. OnlyLoadedSent' /\ ClosedAtRest'
      BY <1>3 DEF SendReload, WatcherTypeOK, OnlyLoadedSent, ClosedAtRest, NothingUnderWay, Idle
    <2> QED BY <2>2, <2>3
  <1>4. CASE Panic /\ UNCHANGED <<fileVars, ctxDone>>
    BY <1>4, PanicPreserves
  <1> QED BY <1>1, <1>2, <1>3, <1>4 DEF TimerFunc, Reload, SendReload

LEMMA CancelPreserves == WatcherInv /\ Cancel => WatcherInv'
  <1> SUFFICES ASSUME WatcherInv, Cancel PROVE WatcherInv'
    OBVIOUS
  <1> USE DEF WatcherInv, Cancel, fileVars, notifyVars, watchVars, chanVars
  <1>1. WatcherTypeOK'
    BY DEF WatcherTypeOK
  <1>2. OnlyLoadedSent' /\ ClosedAtRest'
    BY DEF OnlyLoadedSent, ClosedAtRest, NothingUnderWay
  <1> QED BY <1>1, <1>2

LEMMA WatcherRests == WatcherInv /\ UNCHANGED fileWatcherVars => WatcherInv'
  <1> SUFFICES ASSUME WatcherInv, UNCHANGED fileWatcherVars PROVE WatcherInv'
    OBVIOUS
  <1> USE DEF WatcherInv, fileWatcherVars, fileVars, notifyVars, watchVars, chanVars
  <1>1. WatcherTypeOK'
    BY DEF WatcherTypeOK
  <1>2. OnlyLoadedSent' /\ ClosedAtRest'
    BY DEF OnlyLoadedSent, ClosedAtRest, NothingUnderWay
  <1> QED BY <1>1, <1>2

LEMMA InvParts == IInv <=> WatcherInv /\ ServerTypeOK /\ RoutedAsDeclared
  BY DEF IInv, WatcherInv, TypeOK

LEMMA ServerRests ==
    ASSUME ServerTypeOK, RoutedAsDeclared, UNCHANGED serverVars
    PROVE  ServerTypeOK' /\ RoutedAsDeclared'
  <1> USE DEF serverVars, proxyVars
  <1>1. ServerTypeOK'
    BY DEF ServerTypeOK
  <1>2. RoutedAsDeclared'
    BY DEF RoutedAsDeclared
  <1> QED BY <1>1, <1>2

\* Every proxy starts without services and without routes.
LEMMA DeliveryStarts == Init => IInv
  <1> SUFFICES ASSUME Init PROVE IInv
    OBVIOUS
  <1>1. WatcherInv
    BY WatcherStarts DEF Init
  <1>2. ServerTypeOK
    <2>1. << >> \in Indexes
      BY NothingRouted DEF Indexes, AnyText
    <2>2. applied \in [Proxies -> {Parse[t] : t \in AnyText}]
      BY DEF Init, AnyText
    <2>3. seen \in [Proxies -> -1 .. Len(log)] /\ log \in Seq(Texts) /\ loop \in BOOLEAN
      BY DEF Init
    <2> QED BY <2>1, <2>2, <2>3, RestartsAssumption DEF Init, ServerTypeOK
  <1>3. RoutedAsDeclared
    BY NothingRouted DEF Init, RoutedAsDeclared
  <1> QED BY <1>1, <1>2, <1>3, InvParts

\* Version 0 has no services and is refused: a proxy only ever applies what
\* came from a text.
LEMMA ReceiveCases ==
    ASSUME ServerTypeOK, NEW p \in Proxies, Receive(p)
    PROVE  /\ seen' \in [Proxies -> -1 .. Len(log)]
           /\ \/ UNCHANGED proxyVars
              \/ \E t \in Texts : \E index \in PathIndexes(Parse[t]) :
                    /\ Accepts(Parse[t])
                    /\ applied' = [applied EXCEPT ![p] = Parse[t]]
                    /\ routes' = [routes EXCEPT ![p] = index]
  <1>1. PICK v \in (seen[p] + 1) .. Len(log) : seen' = [seen EXCEPT ![p] = v]
    BY DEF Receive, Feed!Deliver
  <1>2. v \in 0 .. Len(log) /\ seen'[p] = v
    BY <1>1 DEF ServerTypeOK
  <1>3. seen' \in [Proxies -> -1 .. Len(log)]
    BY <1>1, <1>2 DEF ServerTypeOK
  <1>4. CASE ~Accepts(Published(v))
    BY <1>2, <1>3, <1>4 DEF Receive
  <1>5. CASE Accepts(Published(v))
    <2>1. v # 0
      BY <1>5 DEF Published, Version0, Accepts, HasBackends
    <2>2. log[v] \in Texts /\ Published(v) = Parse[log[v]]
      BY <1>2, <2>1 DEF Published, ServerTypeOK
    <2> QED BY <1>2, <1>3, <1>5, <2>2 DEF Receive
  <1> QED BY <1>4, <1>5

\* Applying a configuration keeps what a proxy routes to what it applied.
LEMMA ReceivePreserves ==
    ASSUME IInv, NEW p \in Proxies, Receive(p)
    PROVE  IInv'
  <1>1. WatcherInv /\ ServerTypeOK /\ RoutedAsDeclared
    BY InvParts
  <1>2. WatcherInv'
    BY <1>1, WatcherRests DEF Receive
  <1>3. seen' \in [Proxies -> -1 .. Len(log)]
    BY <1>1, ReceiveCases
  <1>4. loop' = loop /\ log' = log /\ restarts' = restarts
    BY DEF Receive
  <1>5. CASE UNCHANGED proxyVars
    <2>1. ServerTypeOK'
      BY <1>1, <1>3, <1>4, <1>5 DEF ServerTypeOK, proxyVars
    <2>2. RoutedAsDeclared'
      BY <1>1, <1>5 DEF RoutedAsDeclared, proxyVars
    <2> QED BY <1>2, <2>1, <2>2, InvParts DEF IInv, WatcherInv, TypeOK
  <1>6. ASSUME NEW t \in Texts, NEW index \in PathIndexes(Parse[t]),
               applied' = [applied EXCEPT ![p] = Parse[t]],
               routes' = [routes EXCEPT ![p] = index]
        PROVE  IInv'
    <2>1. index \in Indexes /\ Parse[t] \in {Parse[u] : u \in AnyText}
      BY DEF Indexes, AnyText
    <2>2. ServerTypeOK'
      BY <1>1, <1>3, <1>4, <1>6, <2>1 DEF ServerTypeOK
    <2>3. Routed(Parse[t], index)
      BY PathIndexesOK, RawAssumption
    <2>4. \A q \in Proxies : Routed(applied[q], routes[q])
      BY <1>1 DEF RoutedAsDeclared, Routed
    <2>5. \A q \in Proxies : Routed(applied'[q], routes'[q])
      BY <1>1, <1>6, <2>3, <2>4 DEF ServerTypeOK
    <2>6. RoutedAsDeclared'
      BY <2>5 DEF RoutedAsDeclared, Routed
    <2> QED BY <1>2, <2>2, <2>6 DEF IInv, WatcherInv, TypeOK
  <1> QED BY <1>1, <1>5, <1>6, ReceiveCases

LEMMA UpdateServerPreserves == IInv /\ UpdateServer => IInv'
  <1> SUFFICES ASSUME IInv, UpdateServer PROVE IInv'
    OBVIOUS
  <1>1. WatcherInv /\ ServerTypeOK /\ RoutedAsDeclared
    BY InvParts
  <1>2. /\ Head(configChan) \in Texts
        /\ Tail(configChan) \in Seq(Texts)
        /\ Len(Tail(configChan)) <= ChanCap
    BY <1>1 DEF WatcherInv, WatcherTypeOK, UpdateServer, ChanCap
  <1>3. WatcherTypeOK'
    BY <1>1, <1>2 DEF WatcherInv, WatcherTypeOK, UpdateServer, fileVars, notifyVars, watchVars
  <1>4. OnlyLoadedSent' /\ ClosedAtRest'
    BY <1>1 DEF WatcherInv, OnlyLoadedSent, ClosedAtRest, NothingUnderWay, UpdateServer, watchVars
  <1>5. ServerTypeOK'
    <2>1. log' \in Seq(Texts) /\ Len(log') = Len(log) + 1
      BY <1>1, <1>2 DEF ServerTypeOK, UpdateServer
    <2>2. seen' \in [Proxies -> -1 .. Len(log')]
      BY <1>1, <2>1 DEF ServerTypeOK, UpdateServer
    <2> QED BY <1>1, <2>1, <2>2 DEF ServerTypeOK, UpdateServer, proxyVars
  <1>6. RoutedAsDeclared'
    BY <1>1 DEF RoutedAsDeclared, UpdateServer, proxyVars
  <1> QED BY <1>3, <1>4, <1>5, <1>6 DEF IInv, TypeOK

LEMMA StopLoopPreserves == IInv /\ StopLoop => IInv'
  <1> SUFFICES ASSUME IInv, StopLoop PROVE IInv'
    OBVIOUS
  <1>1. WatcherInv /\ ServerTypeOK /\ RoutedAsDeclared
    BY InvParts
  <1>2. WatcherInv'
    BY <1>1, WatcherRests DEF StopLoop
  <1>3. ServerTypeOK'
    BY <1>1 DEF ServerTypeOK, StopLoop, proxyVars
  <1>4. RoutedAsDeclared'
    BY <1>1 DEF RoutedAsDeclared, StopLoop, proxyVars
  <1> QED BY <1>2, <1>3, <1>4 DEF IInv, WatcherInv, TypeOK

\* The control plane that starts again knows of no configuration; the proxies
\* keep what they applied.
LEMMA RestartPreserves == IInv /\ Restart => IInv'
  <1> SUFFICES ASSUME IInv, Restart PROVE IInv'
    OBVIOUS
  <1>1. WatcherInv /\ ServerTypeOK /\ RoutedAsDeclared
    BY InvParts
  <1>2. WatcherTypeOK'
    <2>1. /\ watched' \in BOOLEAN /\ timer' \in BOOLEAN
          /\ closed' \in BOOLEAN /\ ctxDone' \in BOOLEAN
      BY DEF Restart
    <2>2. reload' \in [Slots -> [pc : {"idle", "load", "send"}, cfg : AnyText]]
      BY DEF Restart, Idle, AnyText
    <2>3. configChan' \in Seq(Texts) /\ Len(configChan') <= ChanCap
      BY DEF Restart, ChanCap
    <2> QED BY <1>1, <2>1, <2>2, <2>3 DEF WatcherInv, WatcherTypeOK, Restart, fileVars, AnyText
  <1>3. OnlyLoadedSent' /\ ClosedAtRest'
    BY DEF Restart, OnlyLoadedSent, ClosedAtRest, NothingUnderWay, Idle
  <1>4. ServerTypeOK'
    <2>1. log' \in Seq(Texts) /\ seen' \in [Proxies -> -1 .. Len(log')] /\ loop' \in BOOLEAN
      BY DEF Restart
    <2>2. restarts' \in 0 .. MaxRestarts
      BY <1>1, RestartsAssumption DEF Restart, ServerTypeOK
    <2> QED BY <1>1, <2>1, <2>2 DEF Restart, ServerTypeOK, proxyVars
  <1>5. RoutedAsDeclared'
    BY <1>1 DEF Restart, RoutedAsDeclared, proxyVars
  <1> QED BY <1>2, <1>3, <1>4, <1>5 DEF IInv, TypeOK

LEMMA DeliverySteps == IInv /\ [Next]_vars => IInv'
  <1> SUFFICES ASSUME IInv, [Next]_vars PROVE IInv'
    OBVIOUS
  <1>1. WatcherInv /\ ServerTypeOK /\ RoutedAsDeclared
    BY InvParts
  <1>2. ASSUME WatcherInv', UNCHANGED serverVars PROVE IInv'
    BY <1>1, <1>2, ServerRests DEF IInv, WatcherInv, TypeOK
  <1>3. CASE Watch /\ UNCHANGED serverVars
    BY <1>1, <1>2, <1>3, WatchPreserves
  <1>4. ASSUME NEW i \in Slots, TimerFunc(i), UNCHANGED serverVars PROVE IInv'
    BY <1>1, <1>2, <1>4, TimerFuncPreserves
  <1>5. CASE Save /\ UNCHANGED serverVars
    BY <1>1, <1>2, <1>5, SavePreserves
  <1>6. CASE Cancel /\ UNCHANGED serverVars
    BY <1>1, <1>2, <1>6, CancelPreserves
  <1>7. CASE UNCHANGED vars
    BY <1>1, <1>2, <1>7, WatcherRests DEF vars, serverVars
  <1> QED BY <1>3, <1>4, <1>5, <1>6, <1>7, UpdateServerPreserves, StopLoopPreserves,
             ReceivePreserves, RestartPreserves DEF Next, Step

LEMMA DeliveryInvariant == Spec => []IInv
  BY DeliveryStarts, DeliverySteps, PTL DEF Spec

\* The state of the watcher, the loop, the server and the proxies keeps its
\* type: the channel never holds more than its capacity (file-client.go:214)
\* nor the text of a file that was empty when it was read, no proxy is ahead of
\* what was published, and its index is one that UpdateRoutes builds.
THEOREM DeliveryTypes == Spec => []TypeOK
  <1>1. IInv => TypeOK
    BY DEF IInv
  <1> QED BY <1>1, DeliveryInvariant, PTL

\* A proxy finds a service for exactly the paths and methods that the
\* configuration it applied declares, and it is a service that declares them,
\* whatever is saved, whatever the interleaving and the restarts, and in
\* whatever order the loop of UpdateRoutes (Router.go) meets the services.
THEOREM RoutesAsDeclared == Spec => []RoutedAsDeclared
  <1>1. IInv => RoutedAsDeclared
    BY DEF IInv
  <1> QED BY <1>1, DeliveryInvariant, PTL

\* The control plane dies of its file watcher only when a timer function sends
\* on the channel that Watch has closed, which takes a shutdown, or when two
\* of them are inside LoadConfig at once.
THEOREM PanicsAreExplained == Spec => PanicsExplained
  <1>1. ASSUME IInv, [Next]_vars, Up, ~Up' PROVE ctxDone \/ LoadsOverlap
    <2> USE <1>1 DEF Up
    <2>1. ASSUME NEW i \in Slots, Reload(i) PROVE LoadsOverlap
      BY <2>1 DEF Reload, Survives
    <2>2. ASSUME NEW i \in Slots, SendReload(i) PROVE ctxDone
      BY <2>2 DEF SendReload, Survives, IInv, ClosedAtRest, NothingUnderWay
    <2>3. ASSUME NEW i \in Slots PROVE ~FireTimer(i)
      BY DEF FireTimer
    <2>4. ~Save /\ ~Cancel /\ ~Restart
      BY DEF Save, SaveTruncate, SaveText, SaveRename, Cancel, Restart
    <2>5. ~Watch
      BY DEF Watch, AddWatch, LoadInitial, SendInitial, TakeEvent, StopWatch
    <2>6. ~UNCHANGED fileWatcherVars
      BY DEF fileWatcherVars
    <2>7. ~UpdateServer /\ ~StopLoop /\ ~UNCHANGED vars /\ \A p \in Proxies : ~Receive(p)
      BY <2>6 DEF UpdateServer, StopLoop, vars, Receive
    <2> QED BY <2>1, <2>2, <2>3, <2>4, <2>5, <2>7 DEF Next, Step, TimerFunc
  <1>2. IInv /\ [Next]_vars => [Up /\ ~Up' => ctxDone \/ LoadsOverlap]_vars
    BY <1>1
  <1> QED BY <1>2, DeliveryInvariant, PTL DEF Spec, PanicsExplained

\* A proxy that has routes never loses them all: not to a file that is empty
\* while it is written, not to the empty configuration that a restarted
\* control plane sends first, and not to anything else that is saved.
THEOREM RoutesStay == Spec => NeverEmptied
  <1>1. ASSUME IInv, [Next]_vars, NEW p \in Proxies, DOMAIN routes[p] # {}
        PROVE  DOMAIN routes'[p] # {}
    <2>1. ServerTypeOK
      BY <1>1, InvParts
    <2>2. CASE UNCHANGED routes
      BY <1>1, <2>2
    <2>3. ASSUME NEW q \in Proxies, Receive(q) PROVE DOMAIN routes'[p] # {}
      <3>1. ASSUME NEW t \in Texts, NEW index \in PathIndexes(Parse[t]), Accepts(Parse[t]),
                   routes' = [routes EXCEPT ![q] = index]
            PROVE  DOMAIN routes'[p] # {}
        <4>1. DOMAIN index # {}
          <5>1. Routed(Parse[t], index)
            BY PathIndexesOK, RawAssumption
          <5>2. t \in AnyText
            BY DEF AnyText
          <5> QED BY <3>1, <5>1, <5>2, AcceptedIsRouted DEF Routed
        <4> QED BY <1>1, <2>1, <3>1, <4>1 DEF ServerTypeOK
      <3> QED BY <2>1, <2>2, <2>3, <3>1, ReceiveCases DEF proxyVars
    <2>4. UNCHANGED routes \/ \E q \in Proxies : Receive(q)
      BY <1>1 DEF Next, Step, serverVars, vars, proxyVars, UpdateServer, StopLoop, Restart
    <2> QED BY <2>2, <2>3, <2>4
  <1>2. IInv /\ [Next]_vars =>
           [\A p \in Proxies : DOMAIN routes[p] # {} => DOMAIN routes'[p] # {}]_vars
    BY <1>1
  <1> QED BY <1>2, DeliveryInvariant, PTL DEF Spec, NeverEmptied

-----------------------------------------------------------------------------
(* The injector *)

LEMMA InitReviews == InjectorInit => InjectorIInv
  <1> SUFFICES ASSUME InjectorInit PROVE InjectorIInv OBVIOUS
  <1>1. InjectorTypeOK
    BY PodsAssumption DEF InjectorInit, InjectorTypeOK, NoMtls
  <1>2. ReadsInOrder /\ Decided
    BY DEF InjectorInit, ReadsInOrder, NoMtls, Decided
  <1>3. PatchIsWhole /\ AskedIsGiven /\ FlagHasCause
    BY DEF InjectorInit, PatchIsWhole, AskedIsGiven, FlagHasCause
  <1> QED BY <1>1, <1>2, <1>3 DEF InjectorIInv

LEMMA StepReviews == InjectorIInv /\ [InjectorNext]_injectorVars => InjectorIInv'
  <1> SUFFICES ASSUME InjectorIInv, [InjectorNext]_injectorVars PROVE InjectorIInv' OBVIOUS
  <1> USE DEF InjectorIInv, InjectorTypeOK, Goto
  <1>1. CASE UNCHANGED injectorVars
    BY <1>1 DEF injectorVars, ReadsInOrder, Decided, PatchIsWhole, AskedIsGiven, FlagHasCause
  <1>2. ASSUME NEW r \in Reviews, Decide(r) PROVE InjectorIInv'
    <2>1. InjectorTypeOK' /\ ReadsInOrder'
      BY <1>2 DEF Decide, ReadsInOrder
    <2>2. PatchIsWhole' /\ AskedIsGiven'
      BY <1>2 DEF Decide, PatchIsWhole, AskedIsGiven
    <2>3. Decided' /\ FlagHasCause'
      BY <1>2 DEF Decide, Decided, FlagHasCause
    <2> QED BY <2>1, <2>2, <2>3
  <1>3. ASSUME NEW r \in Reviews, SetFlag(r) PROVE InjectorIInv'
    <2>1. InjectorTypeOK' /\ ReadsInOrder'
      BY <1>3 DEF SetFlag, ReadsInOrder
    <2>2. PatchIsWhole' /\ AskedIsGiven'
      BY <1>3 DEF SetFlag, PatchIsWhole, AskedIsGiven
    <2>3. Decided' /\ FlagHasCause'
      BY <1>3 DEF SetFlag, Decided, FlagHasCause
    <2> QED BY <2>1, <2>2, <2>3
  <1>4. ASSUME NEW r \in Reviews, BuildSidecar(r) PROVE InjectorIInv'
    <2>1. InjectorTypeOK' /\ ReadsInOrder'
      BY <1>4 DEF BuildSidecar, ReadsInOrder
    <2>2. PatchIsWhole' /\ AskedIsGiven'
      BY <1>4 DEF BuildSidecar, PatchIsWhole, AskedIsGiven
    <2>3. Decided' /\ FlagHasCause'
      BY <1>4 DEF BuildSidecar, Decided, FlagHasCause
    <2> QED BY <2>1, <2>2, <2>3
  <1>5. ASSUME NEW r \in Reviews, AddMount(r) PROVE InjectorIInv'
    <2>1. InjectorTypeOK' /\ ReadsInOrder'
      BY <1>5 DEF AddMount, ReadsInOrder
    <2>2. PatchIsWhole' /\ AskedIsGiven'
      BY <1>5 DEF AddMount, PatchIsWhole, AskedIsGiven
    <2>3. Decided' /\ FlagHasCause'
      BY <1>5 DEF AddMount, Decided, FlagHasCause
    <2> QED BY <2>1, <2>2, <2>3
  <1>6. ASSUME NEW r \in Reviews, AddVolume(r) PROVE InjectorIInv'
    <2>1. InjectorTypeOK' /\ ReadsInOrder'
      BY <1>6 DEF AddVolume, ReadsInOrder
    <2>2. PatchIsWhole' /\ AskedIsGiven'
      BY <1>6 DEF AddVolume, ReadsInOrder, PatchIsWhole, AskedIsGiven
    <2>3. Decided' /\ FlagHasCause'
      BY <1>6 DEF AddVolume, Decided, FlagHasCause
    <2> QED BY <2>1, <2>2, <2>3
  <1>7. ASSUME NEW r \in Reviews, CreatePatch(r) PROVE InjectorIInv'
    <2>1. InjectorTypeOK' /\ ReadsInOrder'
      BY <1>7 DEF CreatePatch, ReadsInOrder
    <2>2. PatchIsWhole' /\ AskedIsGiven'
      BY <1>7 DEF CreatePatch, PatchIsWhole, AskedIsGiven
    <2>3. Decided' /\ FlagHasCause'
      BY <1>7 DEF CreatePatch, Decided, FlagHasCause
    <2> QED BY <2>1, <2>2, <2>3
  <1> QED BY <1>1, <1>2, <1>3, <1>4, <1>5, <1>6, <1>7 DEF InjectorNext, Mutate

LEMMA ReviewsInvariant == InjectorSpec => []InjectorIInv
  BY InitReviews, StepReviews, PTL DEF InjectorSpec

\* A pod told to use mTLS has the certificates and their volume, however the
\* handlers of overlapping reviews interleave their reads of mtlsEnabled.
THEOREM PatchesAreWhole == InjectorSpec => []PatchIsWhole
  <1>1. InjectorIInv => PatchIsWhole
    BY DEF InjectorIInv
  <1> QED BY <1>1, ReviewsInvariant, PTL

\* A pod that asks for mTLS and is injected gets all of it.
THEOREM AskedAreGiven == InjectorSpec => []AskedIsGiven
  <1>1. InjectorIInv => AskedIsGiven
    BY DEF InjectorIInv
  <1> QED BY <1>1, ReviewsInvariant, PTL

\* Only a pod that is to be injected switches the mesh to mTLS.
THEOREM FlagsHaveCauses == InjectorSpec => []FlagHasCause
  <1>1. InjectorIInv => FlagHasCause
    BY DEF InjectorIInv
  <1> QED BY <1>1, ReviewsInvariant, PTL
=============================================================================
