--------------------------- MODULE ConfigDelivery ---------------------------
(***************************************************************************)
(* From the file to the routes a proxy serves: the file watcher, the loop  *)
(* of controlplane/cmd/main.go that publishes what the watcher sends, the  *)
(* control plane server as the feed that ConfigServer is shown to          *)
(* implement, and each proxy's HandleConfig as a whole (ProxyState takes   *)
(* it apart).  The control plane may crash, or be restarted, at any time:  *)
(* it comes back with the empty configuration of NewServer(nil), which it  *)
(* sends to every proxy that reconnects.                                   *)
(***************************************************************************)
EXTENDS FileWatcher

CONSTANTS
    Proxies,
    MaxRestarts   \* bound: restarts of the control plane

ASSUME RestartsAssumption == MaxRestarts \in Nat

VARIABLES
    loop,      \* the loop of main is running
    log,       \* what UpdateConfig published, by version: the text it came from
    seen,      \* the version each proxy's stream delivered last
    applied,   \* the configuration each proxy applied last
    routes,    \* its router's path index
    restarts

proxyVars == <<applied, routes>>
vars == <<fileWatcherVars, loop, log, seen, proxyVars, restarts>>

\* The indexes that the texts give.
Indexes == UNION {PathIndexes(Parse[t]) : t \in AnyText}

ServerTypeOK ==
    /\ loop \in BOOLEAN
    /\ log \in Seq(Texts)
    /\ seen \in [Proxies -> -1 .. Len(log)]
    /\ applied \in [Proxies -> {Parse[t] : t \in AnyText}]
    /\ routes \in [Proxies -> Indexes]
    /\ restarts \in 0 .. MaxRestarts
TypeOK == WatcherTypeOK /\ ServerTypeOK

Init ==
    /\ WatcherInit
    /\ loop = TRUE /\ log = << >>
    /\ seen = [p \in Proxies |-> -1]
    /\ applied = [p \in Proxies |-> Parse[Empty]]
    /\ routes = [p \in Proxies |-> << >>]
    /\ restarts = 0

\* The control plane server, as far as a stream can tell.
Feed == INSTANCE ConfigFeed WITH Streams <- Proxies, published <- Len(log)

\* Version 0 is NewServer(nil)'s.
Version0 == [port |-> 8089, services |-> << >>]
Published(v) == IF v = 0 THEN Version0 ELSE Parse[log[v]]

-----------------------------------------------------------------------------
(* The loop of main *)

UpdateServer ==
    /\ Up /\ loop /\ configChan # << >>
    /\ log' = Append(log, Head(configChan))
    /\ configChan' = Tail(configChan)
    /\ UNCHANGED <<fileVars, notifyVars, watchVars, reload, closed, ctxDone, proc,
                   loop, seen, proxyVars, restarts>>

\* The channel is closed and empty, or the context is done.
StopLoop ==
    /\ Up /\ loop
    /\ (closed /\ configChan = << >>) \/ ctxDone
    /\ loop' = FALSE
    /\ UNCHANGED <<fileWatcherVars, log, seen, proxyVars, restarts>>

-----------------------------------------------------------------------------
(* A proxy *)

\* A configuration arrives, and HandleConfig applies it or refuses it.  Of what it
\* applies, the routes: the health interval, and the panic on 0, are ProxyState's.
Receive(p) ==
    /\ Up
    /\ UNCHANGED <<fileWatcherVars, loop, log, restarts>>
    /\ Feed!Deliver(p)
    /\ LET cfg == Published(seen'[p])
       IN  IF Accepts(cfg)
             THEN /\ applied' = [applied EXCEPT ![p] = cfg]
                  /\ \E index \in PathIndexes(cfg) : routes' = [routes EXCEPT ![p] = index]
             ELSE UNCHANGED proxyVars

\* The control plane starts again; every proxy's next stream begins anew.
Restart ==
    /\ restarts < MaxRestarts
    /\ restarts' = restarts + 1
    /\ watched' = FALSE /\ events' = 0
    /\ wpc' = "add" /\ wcfg' = Empty /\ timer' = FALSE
    /\ reload' = [i \in Slots |-> Idle]
    /\ configChan' = << >> /\ closed' = FALSE
    /\ ctxDone' = FALSE /\ proc' = "up"
    /\ loop' = TRUE /\ log' = << >>
    /\ seen' = [p \in Proxies |-> -1]
    /\ UNCHANGED <<fileVars, proxyVars>>

serverVars == <<loop, log, seen, proxyVars, restarts>>

\* What the goroutines of the control plane and of the proxies do by themselves.
Step == \/ (Watch \/ \E i \in Slots : TimerFunc(i)) /\ UNCHANGED serverVars
        \/ UpdateServer \/ StopLoop
        \/ \E p \in Proxies : Receive(p)

Next == \/ Step
        \/ (Save \/ Cancel) /\ UNCHANGED serverVars
        \/ Restart

Spec == Init /\ [][Next]_vars

\* While some goroutine can go on, some goroutine does, timers fire, and streams
\* that stay registered deliver (ConfigServer's Converges).  Nothing is assumed
\* about the operator.
FairSpec == Spec /\ WF_vars(Step)

-----------------------------------------------------------------------------
(* Properties *)

\* The texts that both sides accept.
Good == {t \in Valid : Accepts(Parse[t])}

\* The process dies of its file watcher in two ways only: a timer function
\* sends after Watch has closed the channel, which takes a shutdown
\* (file-client.go:283 after 217), or two of them are inside LoadConfig at once.
PanicsExplained == [][Up /\ ~Up' => ctxDone \/ LoadsOverlap]_vars

\* A proxy that has routes never loses them all, whatever is saved: not when
\* the file is empty while it is written, and not when a restarted control
\* plane sends its empty configuration first.
NeverEmptied ==
    [][\A p \in Proxies : DOMAIN routes[p] # {} => DOMAIN routes'[p] # {}]_vars

\* A proxy finds a service for exactly the paths and methods that the
\* configuration it applied declares, and it is a service that declares them,
\* in whatever order UpdateRoutes meets the services of its map.
RoutedAsDeclared ==
    \A p \in Proxies :
        /\ DOMAIN routes[p] = UNION {Keys(svc) : svc \in Ran(applied[p].services)}
        /\ \A k \in DOMAIN routes[p] :
              FindService(routes[p], k[1], k[2]) \in Declarers(applied[p], k[1], k[2])

\* What makes RoutedAsDeclared inductive, with the types: only texts that
\* LoadConfig has loaded are on their way to the channel.
OnlyLoadedSent ==
    /\ wpc = "send" => wcfg \in Valid
    /\ \A i \in Slots : reload[i].pc = "send" => reload[i].cfg \in Valid

\* What makes PanicsExplained inductive: the channel is closed when Watch has
\* returned; before its loop there is no timer and no timer function, nor
\* after it has returned for another reason than the end of the context.
NothingUnderWay == ~timer /\ \A i \in Slots : reload[i].pc = "idle"
ClosedAtRest ==
    /\ closed <=> wpc = "stopped"
    /\ wpc # "loop" => ctxDone \/ NothingUnderWay

IInv == TypeOK /\ OnlyLoadedSent /\ ClosedAtRest /\ RoutedAsDeclared

\* The file is one that everybody accepts, and it is watched.
Settled == /\ wpc = "loop" /\ ~ctxDone /\ Up
           /\ watched /\ file \in Good
InFlight(i) == reload[i].pc # "idle"
Serial == \A i, j \in Slots : InFlight(i) /\ InFlight(j) => i = j

\* What is in the file at the end is what every proxy serves, through the
\* watch, the debouncing timer, the loop, the server and HandleConfig,
\* restarts included, provided that no two timer functions overlap (one that
\* read the file earlier may send later, and nothing corrects it).
Delivered ==
    []Serial /\ <>[]Settled => <>[](\A p \in Proxies : applied[p] = Parse[file])
=============================================================================
