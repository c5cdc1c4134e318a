------------------------------- MODULE Watcher -------------------------------
(***************************************************************************)
(* Service discovery with a debouncer (controlplane/k8s-client.go and      *)
(* consul-client.go, which share this structure) and the loop of           *)
(* controlplane/cmd/main.go that hands configurations to the server.       *)
(*                                                                         *)
(* Watch starts the debouncer, then builds and sends the initial           *)
(* configuration itself; the loop that receives starts only after Watch    *)
(* has returned.  A configuration is the version of the discovered state   *)
(* it was built from, and how much of it: Consul is queried service by     *)
(* service, and what a failed query would have told is left out.           *)
(***************************************************************************)
EXTENDS Integers, Sequences

CONSTANTS
    MaxChanges,    \* bound: changes of what discovery sees
    Empty,         \* versions without any meshed service
    ChanCap,       \* 5: capacity of configChan
    Consul         \* Consul: buildConfig queries, and health is not watched

ASSUME ChangesAssumption == MaxChanges \in Nat /\ Empty \subseteq 0 .. MaxChanges
ASSUME CapAssumption == ChanCap \in Nat /\ ChanCap > 0
ASSUME ConsulAssumption == Consul \in BOOLEAN

VARIABLES
    found,        \* the informer stores, or Consul's catalog: its version
    told,         \* history: the newest version that discovery was told of
    unsignalled,  \* changes whose event handler has not run yet
    updateChan,   \* whether updateChan (capacity 1) holds a signal
    timer,        \* whether the debounce timer is armed
    dpc, dcfg,    \* the debouncer and the configuration it built last
    wpc, wcfg,    \* Watch and the initial configuration
    configChan, closed,
    lpc,          \* main.go's loop
    current,      \* the configuration last passed to server.UpdateConfig
    ctxDone,
    proc          \* "up" or "panicked"

discovery == <<found, told>>
signals == <<unsignalled, updateChan>>
debouncer == <<timer, dpc, dcfg>>
watch == <<wpc, wcfg>>
loop == <<lpc, current>>
vars == <<discovery, signals, debouncer, watch, configChan, closed, loop, ctxDone, proc>>

Versions == 0 .. MaxChanges
Config == [v : Versions, part : {"all", "some", "none"}]
None == [v |-> -1, part |-> "none"]

\* validate: at least one service.
Valid(c) == c.part # "none" /\ c.v \notin Empty
ValidConfig == {c \in Config : Valid(c)}

TypeOK ==
    /\ found \in Versions /\ told \in Versions
    /\ unsignalled \in 0 .. MaxChanges + 1
    /\ updateChan \in BOOLEAN
    /\ timer \in BOOLEAN
    /\ dpc \in {"select", "push", "stopped"} /\ dcfg \in Config \cup {None}
    /\ wpc \in {"build", "send", "returned"} /\ wcfg \in Config \cup {None}
    /\ configChan \in Seq(ValidConfig) /\ Len(configChan) <= ChanCap
    /\ closed \in BOOLEAN
    /\ lpc \in {"run", "stopped"} /\ current \in ValidConfig \cup {None}
    /\ ctxDone \in BOOLEAN
    /\ proc \in {"up", "panicked"}

\* The caches are synced; what they hold may still be about to be signalled.
Init ==
    /\ found = 0 /\ told = 0
    /\ unsignalled \in {0, 1} /\ updateChan = FALSE
    /\ timer = FALSE /\ dpc = "select" /\ dcfg = None
    /\ wpc = "build" /\ wcfg = None
    /\ configChan = << >> /\ closed = FALSE
    /\ lpc = "run" /\ current = None
    /\ ctxDone = FALSE
    /\ proc = "up"

Up == proc = "up"
Full == Len(configChan) >= ChanCap

\* buildConfig: what discovery holds.  Of Consul, nothing if the list of
\* services cannot be had, and without the services whose health cannot.
Builds == {[v |-> found, part |-> p] : p \in IF Consul THEN {"all", "some", "none"}
                                                        ELSE {"all"}}

-----------------------------------------------------------------------------
(* Discovery and its event handlers *)

\* A change that the informers, or the blocking query of watchCatalog, see.
Change ==
    /\ Up /\ found < MaxChanges
    /\ found' = found + 1
    /\ told' = found + 1
    /\ unsignalled' = unsignalled + 1
    /\ UNCHANGED <<updateChan, debouncer, watch, configChan, closed, loop, ctxDone, proc>>

\* watchCatalog follows the list of services.  An instance that turns healthy
\* or unhealthy changes what buildConfig finds, and wakes nobody.
ChangeHealth ==
    /\ Up /\ Consul /\ found < MaxChanges
    /\ found' = found + 1
    /\ UNCHANGED <<told, signals, debouncer, watch, configChan, closed, loop, ctxDone, proc>>

\* signalUpdate: a signal that is already there is enough.
SignalUpdate ==
    /\ Up /\ unsignalled > 0
    /\ unsignalled' = unsignalled - 1
    /\ updateChan' = TRUE
    /\ UNCHANGED <<discovery, debouncer, watch, configChan, closed, loop, ctxDone, proc>>

Cancel ==
    /\ Up /\ ~ctxDone
    /\ ctxDone' = TRUE
    /\ UNCHANGED <<discovery, signals, debouncer, watch, configChan, closed, loop, proc>>

-----------------------------------------------------------------------------
(* runDebouncer *)

\* Mutant: only the first signal starts the timer.
DebounceOnce ==
    /\ Up /\ dpc = "select" /\ updateChan
    /\ updateChan' = FALSE
    /\ timer' = (dcfg = None)
    /\ UNCHANGED <<discovery, unsignalled, dpc, dcfg, watch, configChan, closed, loop, ctxDone, proc>>

Debounce ==
    /\ Up /\ dpc = "select" /\ updateChan
    /\ updateChan' = FALSE
    /\ timer' = TRUE
    /\ UNCHANGED <<discovery, unsignalled, dpc, dcfg, watch, configChan, closed, loop, ctxDone, proc>>

\* The timer's case: build and validate.
Fire ==
    /\ Up /\ dpc = "select" /\ timer
    /\ timer' = FALSE
    /\ \E c \in Builds : /\ dcfg' = c
                         /\ dpc' = IF Valid(c) THEN "push" ELSE "select"
    /\ UNCHANGED <<discovery, signals, watch, configChan, closed, loop, ctxDone, proc>>

\* A full channel loses the configuration just built.
Push ==
    /\ Up /\ dpc = "push"
    /\ configChan' = IF Full THEN configChan ELSE Append(configChan, dcfg)
    /\ dpc' = "select"
    /\ UNCHANGED <<discovery, signals, timer, dcfg, watch, closed, loop, ctxDone, proc>>

StopDebouncer ==
    /\ Up /\ dpc = "select" /\ ctxDone
    /\ closed' = TRUE
    /\ dpc' = "stopped"
    /\ UNCHANGED <<discovery, signals, timer, dcfg, watch, configChan, loop, ctxDone, proc>>

-----------------------------------------------------------------------------
(* The rest of Watch *)

BuildInitial ==
    /\ Up /\ wpc = "build"
    /\ \E c \in Builds : /\ wcfg' = c
                         /\ wpc' = IF Valid(c) THEN "send" ELSE "returned"
    /\ UNCHANGED <<discovery, signals, debouncer, configChan, closed, loop, ctxDone, proc>>

\* A plain send: it waits for room, and panics on a closed channel.
SendInitial ==
    /\ Up /\ wpc = "send"
    /\ \/ /\ ~closed /\ ~Full
          /\ configChan' = Append(configChan, wcfg)
          /\ wpc' = "returned"
          /\ UNCHANGED proc
       \/ /\ closed
          /\ proc' = "panicked"
          /\ UNCHANGED <<configChan, wpc>>
    /\ UNCHANGED <<discovery, signals, debouncer, wcfg, closed, loop, ctxDone>>

-----------------------------------------------------------------------------
(* The loop of main.go *)

UpdateServer ==
    /\ Up /\ wpc = "returned" /\ lpc = "run"
    /\ configChan # << >>
    /\ current' = Head(configChan)
    /\ configChan' = Tail(configChan)
    /\ UNCHANGED <<discovery, signals, debouncer, watch, closed, lpc, ctxDone, proc>>

StopLoop ==
    /\ Up /\ wpc = "returned" /\ lpc = "run"
    /\ ctxDone \/ (closed /\ configChan = << >>)
    /\ lpc' = "stopped"
    /\ UNCHANGED <<discovery, signals, debouncer, watch, configChan, closed, current, ctxDone, proc>>

RunDebouncer == Debounce \/ Fire \/ Push \/ StopDebouncer
Watch == BuildInitial \/ SendInitial
Loop == UpdateServer \/ StopLoop

Next == Change \/ ChangeHealth \/ SignalUpdate \/ Cancel \/ RunDebouncer \/ Watch \/ Loop

Spec == Init /\ [][Next]_vars

\* Event handlers run, the timer fires, goroutines that can run do run.
Fairness == /\ WF_vars(SignalUpdate) /\ WF_vars(RunDebouncer)
            /\ WF_vars(Watch) /\ WF_vars(Loop)
FairSpec == Spec /\ Fairness

-----------------------------------------------------------------------------
(* Safety *)

\* The debouncer has nothing left to do.
Quiet == unsignalled = 0 /\ ~updateChan /\ ~timer /\ dpc = "select"

\* Coalescing signals in a channel of one and restarting the timer never lose
\* a change that was seen: a debouncer at rest has built, or tried to, from a
\* state no older than the last such change, also when it came while the
\* debouncer was building or pushing.
NoLostWakeup == Quiet /\ told # 0 => dcfg.v >= told

\* What makes NoLostWakeup inductive: between a change and the build that sees
\* it there is always a handler that has not run, a signal or an armed timer,
\* whatever the debouncer is doing.
Pending == unsignalled > 0 \/ updateChan \/ timer
BuiltSinceTold == ~Pending /\ told # 0 => dcfg.v >= told

\* What makes TypeOK inductive: handlers left to run are not more than changes,
\* and only valid configurations are on their way to the channel.
OnlyValidSent ==
    /\ unsignalled <= found + 1 /\ told <= found
    /\ dpc = "push" => dcfg \in ValidConfig
    /\ wpc = "send" => wcfg \in ValidConfig

IInv == TypeOK /\ BuiltSinceTold /\ OnlyValidSent

-----------------------------------------------------------------------------
(* Liveness *)

\* No more changes that matter: the state is one to serve, and the last change
\* was one that discovery was told of.
Settled == <>[](~ctxDone /\ found \notin Empty /\ told = found)

\* The newest state reaches the server if its last build found every service,
\* configChan has room whenever the debouncer pushes, and Watch has returned
\* before the debouncer builds for the first time.  Each condition is needed:
\* a failed query is not retried, a full channel loses the newest, and the
\* initial configuration, built early and sent late, may be what the server
\* keeps.
AdaptsOnceStarted ==
    /\ Settled
    /\ <>[](dcfg.part = "all")
    /\ [](dpc = "push" => ~Full)
    /\ [](dcfg # None => wpc = "returned")
    => <>[](found = 0 \/ current = [v |-> found, part |-> "all"])
=============================================================================
