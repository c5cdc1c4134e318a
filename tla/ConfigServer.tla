---------------------------- MODULE ConfigServer ----------------------------
(***************************************************************************)
(* The control plane's gRPC server (controlplane/cmd/server.go): the       *)
(* subscriber table, one Subscribe handler per stream, UpdateConfig's      *)
(* latest-only push into bounded channels, and Shutdown.                   *)
(*                                                                         *)
(* A proxy reconnects with the same ProxyId, so a handler of an earlier    *)
(* stream and the handler of the current one can be alive together and     *)
(* share one slot of the table.  Everything under s.mu is atomic except    *)
(* UpdateConfig, whose channel operations interleave with the handlers'    *)
(* receives, which take no lock: todo is what it has yet to visit, and     *)
(* s.mu is held while todo is not empty.                                   *)
(***************************************************************************)
EXTENDS Integers, Sequences

CONSTANTS
    Proxies,     \* ProxyIds
    Streams,     \* bound: <<p, n>>, the n-th stream that proxy p opens
    MaxVersion,  \* bound: calls of UpdateConfig
    ChanCap,     \* 10: capacity of a subscriber's channel
    NoStream     \* a table slot that is not there

ProxyOf(s) == s[1]

ASSUME CapAssumption == ChanCap \in Nat /\ ChanCap > 0
ASSUME StreamAssumption == Streams \subseteq Proxies \X Nat /\ NoStream \notin Streams
ASSUME VersionAssumption == MaxVersion \in Nat

VARIABLES
    proc,        \* the server process: running, stopping (Shutdown ran), ...
    version,     \* s.version, also the version of s.currentConfig
    todo,        \* subscribers UpdateConfig has not served yet
    stage,       \* what UpdateConfig does with the one it is at
    at,          \* the slow subscriber it is overwriting
    subscribers, \* ProxyId -> the stream whose channel is in the table
    chan,        \* stream -> configChan, as versions
    closed,      \* stream -> whether configChan is closed
    pc,          \* stream -> where its Subscribe handler is
    snap,        \* stream -> `current`, read when it registered
    sent,        \* stream -> the last version passed to stream.Send
    clientGone,  \* stream -> the proxy has given up on it
    ctxDone      \* stream -> the server's transport has noticed

updater == <<todo, stage, at>>
handler == <<pc, snap, sent>>
client == <<clientGone, ctxDone>>
vars == <<proc, version, updater, subscribers, chan, closed, handler, client>>

TypeOK ==
    /\ proc \in {"running", "stopping", "exited", "panicked"}
    /\ version \in 0 .. MaxVersion
    /\ todo \subseteq Streams
    /\ stage \in {"try", "drop", "send"}
    /\ at \in Streams \cup {NoStream}
    /\ subscribers \in [Proxies -> Streams \cup {NoStream}]
    /\ chan \in [Streams -> Seq(1 .. MaxVersion)]
    /\ \A s \in Streams : Len(chan[s]) <= ChanCap
    /\ closed \in [Streams -> BOOLEAN]
    /\ pc \in [Streams -> {"idle", "register", "snapshot", "loop", "cleanup", "done"}]
    /\ snap \in [Streams -> 0 .. MaxVersion]
    /\ sent \in [Streams -> -1 .. MaxVersion]
    /\ clientGone \in [Streams -> BOOLEAN]
    /\ ctxDone \in [Streams -> BOOLEAN]

Init ==
    /\ proc = "running"
    /\ version = 0
    /\ todo = {} /\ stage = "try" /\ at = NoStream
    /\ subscribers = [p \in Proxies |-> NoStream]
    /\ chan = [s \in Streams |-> << >>]
    /\ closed = [s \in Streams |-> FALSE]
    /\ pc = [s \in Streams |-> "idle"]
    /\ snap = [s \in Streams |-> 0]
    /\ sent = [s \in Streams |-> -1]
    /\ clientGone = [s \in Streams |-> FALSE]
    /\ ctxDone = [s \in Streams |-> FALSE]

Alive == proc \in {"running", "stopping"}
MuFree == todo = {}
Registered(s) == subscribers[ProxyOf(s)] = s

-----------------------------------------------------------------------------
(* The proxies' side, as the server sees it *)

\* ConfigClient.Subscribe: a proxy opens a stream only after its last one ended.
Connect(s) ==
    /\ Alive
    /\ pc[s] = "idle"
    /\ \A t \in Streams : ProxyOf(t) = ProxyOf(s) /\ t[2] < s[2] => clientGone[t]
    /\ pc' = [pc EXCEPT ![s] = "register"]
    /\ UNCHANGED <<proc, version, updater, subscribers, chan, closed, snap, sent, client>>

\* The proxy restarts or loses the connection ...
Disconnect(s) ==
    /\ Alive
    /\ pc[s] # "idle" /\ ~clientGone[s]
    /\ clientGone' = [clientGone EXCEPT ![s] = TRUE]
    /\ UNCHANGED <<proc, version, updater, subscribers, chan, closed, handler, ctxDone>>

\* ... and the server may learn of it much later.
NoticeGone(s) ==
    /\ Alive
    /\ clientGone[s] /\ ~ctxDone[s]
    /\ ctxDone' = [ctxDone EXCEPT ![s] = TRUE]
    /\ UNCHANGED <<proc, version, updater, subscribers, chan, closed, handler, clientGone>>

-----------------------------------------------------------------------------
(* Subscribe, the handler of one stream *)

\* Writing to the table panics once Shutdown has made it nil.
Register(s) ==
    /\ Alive /\ MuFree
    /\ pc[s] = "register"
    /\ IF proc = "stopping"
         THEN /\ proc' = "panicked"
              /\ UNCHANGED <<subscribers, pc, snap>>
         ELSE /\ subscribers' = [subscribers EXCEPT ![ProxyOf(s)] = s]
              /\ snap' = [snap EXCEPT ![s] = version]
              /\ pc' = [pc EXCEPT ![s] = "snapshot"]
              /\ UNCHANGED proc
    /\ UNCHANGED <<version, updater, chan, closed, sent, client>>

\* stream.Send(v), which fails once the stream's context is done.
Send(s, v) ==
    IF ctxDone[s] THEN /\ pc' = [pc EXCEPT ![s] = "cleanup"]
                       /\ UNCHANGED sent
                  ELSE /\ pc' = [pc EXCEPT ![s] = "loop"]
                       /\ sent' = [sent EXCEPT ![s] = v]

\* Mutant: the snapshot is the configuration current when it is sent, not
\* the one current when the channel was registered.
SendSnapshotLate(s) ==
    /\ Alive
    /\ pc[s] = "snapshot"
    /\ Send(s, version)
    /\ UNCHANGED <<proc, version, updater, subscribers, chan, closed, snap, client>>

SendSnapshot(s) ==
    /\ Alive
    /\ pc[s] = "snapshot"
    /\ Send(s, snap[s])
    /\ UNCHANGED <<proc, version, updater, subscribers, chan, closed, snap, client>>

\* select, first case: a configuration is received and sent.
Receive(s) ==
    /\ Alive
    /\ pc[s] = "loop"
    /\ chan[s] # << >>
    /\ chan' = [chan EXCEPT ![s] = Tail(@)]
    /\ Send(s, Head(chan[s]))
    /\ UNCHANGED <<proc, version, updater, subscribers, closed, snap, client>>

\* Mutant: a handler that returns also closes its channel.
ReturnCloses(s) ==
    /\ Alive
    /\ pc[s] = "loop"
    /\ (chan[s] = << >> /\ closed[s]) \/ ctxDone[s]
    /\ pc' = [pc EXCEPT ![s] = "cleanup"]
    /\ closed' = [closed EXCEPT ![s] = TRUE]
    /\ UNCHANGED <<proc, version, updater, subscribers, chan, snap, sent, client>>

\* select: the channel is closed and empty (nil), or the context is done.
Return(s) ==
    /\ Alive
    /\ pc[s] = "loop"
    /\ (chan[s] = << >> /\ closed[s]) \/ ctxDone[s]
    /\ pc' = [pc EXCEPT ![s] = "cleanup"]
    /\ UNCHANGED <<proc, version, updater, subscribers, chan, closed, snap, sent, client>>

\* Mutant: the deferred function closes the channel but leaves it in the table.
CleanupKeepsEntry(s) ==
    /\ Alive /\ MuFree
    /\ pc[s] = "cleanup"
    /\ closed' = [closed EXCEPT ![s] = TRUE]
    /\ pc' = [pc EXCEPT ![s] = "done"]
    /\ UNCHANGED <<proc, version, updater, subscribers, chan, snap, sent, client>>

\* The deferred cleanup removes whatever is registered under the ProxyId and
\* closes its own channel; closing it a second time panics.
Cleanup(s) ==
    /\ Alive /\ MuFree
    /\ pc[s] = "cleanup"
    /\ subscribers' = [subscribers EXCEPT ![ProxyOf(s)] = NoStream]
    /\ IF closed[s] THEN proc' = "panicked" /\ UNCHANGED <<closed, pc>>
                    ELSE /\ closed' = [closed EXCEPT ![s] = TRUE]
                         /\ pc' = [pc EXCEPT ![s] = "done"]
                         /\ UNCHANGED proc
    /\ UNCHANGED <<version, updater, chan, snap, sent, client>>

Handler(s) == Register(s) \/ SendSnapshot(s) \/ Receive(s) \/ Return(s) \/ Cleanup(s)

-----------------------------------------------------------------------------
(* UpdateConfig, called by the watch loop of controlplane/cmd/main.go *)

UpdateConfig ==
    /\ Alive /\ MuFree
    /\ version < MaxVersion
    /\ version' = version + 1
    /\ todo' = {s \in Streams : Registered(s)}
    /\ UNCHANGED <<proc, stage, at, subscribers, chan, closed, handler, client>>

Full(s) == Len(chan[s]) >= ChanCap

\* Mutants: a full channel loses the newest configuration; no bound at all.
PushSkipsSlow(s) ==
    /\ Alive
    /\ stage = "try" /\ s \in todo
    /\ todo' = todo \ {s}
    /\ chan' = IF Full(s) THEN chan ELSE [chan EXCEPT ![s] = Append(@, version)]
    /\ UNCHANGED <<proc, version, stage, at, subscribers, closed, handler, client>>
PushUnbounded(s) ==
    /\ Alive
    /\ stage = "try" /\ s \in todo
    /\ todo' = todo \ {s}
    /\ chan' = [chan EXCEPT ![s] = Append(@, version)]
    /\ UNCHANGED <<proc, version, stage, at, subscribers, closed, handler, client>>

\* The outer select: send, or turn to overwriting when the channel is full.
Push(s) ==
    /\ Alive
    /\ stage = "try" /\ s \in todo
    /\ IF Full(s) THEN /\ stage' = "drop" /\ at' = s
                       /\ UNCHANGED <<todo, chan>>
                  ELSE /\ todo' = todo \ {s}
                       /\ chan' = [chan EXCEPT ![s] = Append(@, version)]
                       /\ UNCHANGED <<stage, at>>
    /\ UNCHANGED <<proc, version, subscribers, closed, handler, client>>

\* Mutant: nothing is taken out of the full channel.
DropNothing ==
    /\ Alive
    /\ stage = "drop"
    /\ stage' = "send"
    /\ UNCHANGED <<proc, version, todo, at, subscribers, chan, closed, handler, client>>

\* The inner select: the handler may have emptied the channel meanwhile.
Drop ==
    /\ Alive
    /\ stage = "drop"
    /\ stage' = "send"
    /\ chan' = [chan EXCEPT ![at] = IF @ = << >> THEN @ ELSE Tail(@)]
    /\ UNCHANGED <<proc, version, todo, at, subscribers, closed, handler, client>>

\* The plain send that follows blocks while the channel is full, under s.mu.
SendBlocking ==
    /\ Alive
    /\ stage = "send"
    /\ ~Full(at)
    /\ chan' = [chan EXCEPT ![at] = Append(@, version)]
    /\ todo' = todo \ {at}
    /\ stage' = "try" /\ at' = NoStream
    /\ UNCHANGED <<proc, version, subscribers, closed, handler, client>>

Updater == (\E s \in Streams : Push(s)) \/ Drop \/ SendBlocking

-----------------------------------------------------------------------------
(* Shutdown, and the return of main that ends the process soon after *)

Shutdown ==
    /\ proc = "running" /\ MuFree
    /\ proc' = "stopping"
    /\ closed' = [s \in Streams |-> closed[s] \/ Registered(s)]
    /\ subscribers' = [p \in Proxies |-> NoStream]
    /\ UNCHANGED <<version, updater, chan, handler, client>>

Exit == /\ proc = "stopping"
        /\ proc' = "exited"
        /\ UNCHANGED <<version, updater, subscribers, chan, closed, handler, client>>

Next == \/ \E s \in Streams : Connect(s) \/ Disconnect(s) \/ NoticeGone(s) \/ Handler(s)
        \/ UpdateConfig \/ Updater
        \/ Shutdown \/ Exit

Spec == Init /\ [][Next]_vars

\* Goroutines that can run do run; stream.Send returns, because the proxy reads
\* its stream or the transport reports the stream gone.  Nothing is assumed
\* about proxies, discovery or the operator.
Fairness == WF_vars(Updater) /\ \A s \in Streams : WF_vars(Handler(s))
FairSpec == Spec /\ Fairness

-----------------------------------------------------------------------------
(* Safety *)

\* A channel in the table is open and belongs to a handler that still receives
\* or is about to clean up: UpdateConfig never sends on a closed channel, which
\* would panic, however handlers of one ProxyId overlap.
RegisteredOpen ==
    \A p \in Proxies : subscribers[p] # NoStream =>
        /\ ProxyOf(subscribers[p]) = p
        /\ ~closed[subscribers[p]]
        /\ pc[subscribers[p]] \in {"snapshot", "loop", "cleanup"}

\* The send of server.go:117 finds room, so UpdateConfig does not block while
\* it holds s.mu and the whole control plane with it.
PushNeverBlocks == stage = "send" => ~Full(at)

\* What a stream's handler is committed to send before its channel's content,
\* and the newest configuration it has sent or will send.
Base(s) == IF pc[s] = "snapshot" THEN snap[s] ELSE sent[s]
Pending(s) == IF chan[s] # << >> THEN chan[s][Len(chan[s])] ELSE Base(s)

\* Registered and served by every update so far: the newest configuration is
\* with the subscriber or on its way, also when its channel overflowed.
NewestPending ==
    \A s \in Streams : Registered(s) /\ pc[s] \in {"snapshot", "loop"} /\ s \notin todo
        => Pending(s) = version

\* The two panics of this code, closing a channel again (65 after 145) and
\* writing to a nil table (57), are Shutdown's: until it runs, handlers of one
\* ProxyId may overlap as they like and none of them panics.
OpenWhileRunning ==
    proc = "running" => \A s \in Streams : closed[s] => pc[s] = "done"
PanicsOnlyAfterShutdown ==
    [][proc' = "panicked" => proc \in {"stopping", "panicked"}]_vars

\* Each stream is a feed: increasing versions, none invented.
Feed == INSTANCE ConfigFeed WITH published <- version, seen <- sent
ImplementsFeed == Feed!FeedSpec

-----------------------------------------------------------------------------
(* The inductive invariant behind them *)

\* UpdateConfig holds s.mu, so what it has to visit stays registered.
UpdaterInv ==
    /\ \A s \in todo : Registered(s)
    /\ stage = "try" <=> at = NoStream
    /\ at # NoStream => at \in todo
    /\ todo # {} => version > 0

\* What waits in a channel is newer than what was sent, in increasing order,
\* and older than an update that has not reached it.
StreamInv(s) ==
    /\ sent[s] <= version /\ snap[s] <= version
    /\ pc[s] \in {"idle", "register", "snapshot"} => sent[s] = -1
    /\ pc[s] \in {"idle", "register"} => chan[s] = << >> /\ ~closed[s]
    /\ \A i \in 1 .. Len(chan[s]) :
          /\ chan[s][i] <= version
          /\ pc[s] \in {"snapshot", "loop"} => Base(s) < chan[s][i]
          /\ s \in todo => chan[s][i] < version
    /\ \A i, j \in 1 .. Len(chan[s]) : i < j => chan[s][i] < chan[s][j]
    /\ s \in todo /\ pc[s] \in {"snapshot", "loop"} => Base(s) < version

\* Every stream's channel is in order behind what the stream has sent.
ChanInv == \A s \in Streams : StreamInv(s)

IInv == /\ TypeOK /\ RegisteredOpen /\ PushNeverBlocks /\ NewestPending
        /\ UpdaterInv /\ ChanInv

-----------------------------------------------------------------------------
(* Liveness *)

\* A stream that stays in the table converges to the newest configuration.
Converges == \A s \in Streams : <>[]Registered(s) => <>[](sent[s] = version)

-----------------------------------------------------------------------------
(* What comments say, and the code does not do *)

\* server.go:93 "UpdateConfig pushes new config to all subscribers": a stream
\* that both ends keep open has its ProxyId in the table.
SubscriberIsRegistered ==
    \A s \in Streams : proc = "running" /\ pc[s] = "loop" /\ ~clientGone[s]
        => subscribers[ProxyOf(s)] # NoStream
=============================================================================
