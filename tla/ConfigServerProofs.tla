------------------------- MODULE ConfigServerProofs -------------------------
(***************************************************************************)
(* The properties of ConfigServer for every set of proxies and streams,    *)
(* every channel capacity and every number of updates.                     *)
(*                                                                         *)
(* The inductive invariant adds to the properties what UpdateConfig may    *)
(* assume of the streams it has yet to visit (UpdaterInv) and that every   *)
(* channel holds increasing versions, all newer than what its stream has   *)
(* sent and older than an update that has not reached it (StreamInv).      *)
(***************************************************************************)
EXTENDS ConfigServer, SequenceTheorems, TLAPS

\* What a channel may hold.
Versions == 1 .. MaxVersion

\* A stream belongs to one of the proxies.
LEMMA ProxyOfStream == ASSUME NEW s \in Streams PROVE ProxyOf(s) \in Proxies
  BY StreamAssumption DEF ProxyOf

\* What a send does to a channel.
LEMMA AppendFacts ==
  ASSUME NEW q \in Seq(Versions), NEW e \in Versions
  PROVE  /\ Append(q, e) \in Seq(Versions)
         /\ Len(Append(q, e)) = Len(q) + 1
         /\ \A i \in 1 .. Len(q) : Append(q, e)[i] = q[i]
         /\ Append(q, e)[Len(q) + 1] = e
         /\ Append(q, e) # << >>
         /\ Len(q) \in Nat
  BY AppendProperties, LenProperties

\* What a receive does to a channel.
LEMMA TailFacts ==
  ASSUME NEW q \in Seq(Versions), q # << >>
  PROVE  /\ Tail(q) \in Seq(Versions)
         /\ Len(Tail(q)) = Len(q) - 1
         /\ \A i \in 1 .. Len(Tail(q)) : Tail(q)[i] = q[i + 1]
         /\ Head(q) = q[1]
         /\ Head(q) \in Versions
         /\ Len(q) \in Nat /\ Len(q) >= 1
         /\ Tail(q) = << >> <=> Len(q) = 1
<1>1. Head(q) = q[1]
  OBVIOUS
<1>2. Len(q) \in Nat \ {0}
  BY EmptySeq
<1>3. /\ Head(q) \in Versions
      /\ Tail(q) \in Seq(Versions)
      /\ Len(Tail(q)) = Len(q) - 1
      /\ \A i \in 1 .. Len(Tail(q)) : Tail(q)[i] = q[i + 1]
  BY HeadTailProperties
<1>4. Tail(q) = << >> <=> Len(q) = 1
  <2>1. Tail(q) = << >> => Len(Tail(q)) = 0
    BY EmptySeq
  <2>2. Tail(q) # << >> => Len(Tail(q)) \in Nat \ {0}
    BY <1>3, EmptySeq
  <2> QED BY <1>2, <1>3, <2>1, <2>2
<1> QED BY <1>1, <1>2, <1>3, <1>4

\* An update that reaches a registered stream: the new version goes behind
\* everything that waits there.
LEMMA AppendStream ==
  ASSUME NEW t \in Streams, TypeOK, StreamInv(t), t \in todo, t \notin todo',
         version > 0,
         chan'[t] = Append(chan[t], version),
         UNCHANGED <<version, pc, snap, sent, closed>>,
         pc[t] \in {"snapshot", "loop", "cleanup"}
  PROVE  StreamInv(t)' /\ Pending(t)' = version'
<1>1. chan[t] \in Seq(Versions) /\ version \in Versions
  BY VersionAssumption DEF TypeOK, Versions
<1> DEFINE q == chan[t]
           r == chan'[t]
<1>2. /\ r \in Seq(Versions)
      /\ Len(r) = Len(q) + 1
      /\ \A i \in 1 .. Len(q) : r[i] = q[i]
      /\ r[Len(q) + 1] = version
      /\ r # << >>
      /\ Len(q) \in Nat
  BY <1>1, AppendFacts
<1>3. \A i \in 1 .. Len(r) : i \in 1 .. Len(q) \/ i = Len(q) + 1
  BY <1>2
<1>4. \A i \in 1 .. Len(q) : q[i] \in Int
  <2>1. \A i \in 1 .. Len(q) : q[i] \in Versions
    BY <1>1, ElementOfSeq
  <2> QED BY <2>1, VersionAssumption DEF Versions
<1>5. /\ sent[t] \in Int /\ snap[t] \in Int /\ version \in Int
  BY VersionAssumption DEF TypeOK
<1>6. /\ \A i \in 1 .. Len(q) : q[i] < version
      /\ \A i \in 1 .. Len(q) : pc[t] \in {"snapshot", "loop"} => Base(t) < q[i]
      /\ \A i, j \in 1 .. Len(q) : i < j => q[i] < q[j]
      /\ pc[t] \in {"snapshot", "loop"} => Base(t) < version
  BY DEF StreamInv
<1>7. Base(t)' = Base(t)
  BY DEF Base
<1>8. \A i \in 1 .. Len(r) : r[i] <= version
                          /\ (pc[t] \in {"snapshot", "loop"} => Base(t) < r[i])
  BY <1>2, <1>3, <1>4, <1>5, <1>6
<1>9. \A i, j \in 1 .. Len(r) : i < j => r[i] < r[j]
  BY <1>2, <1>3, <1>4, <1>5, <1>6
<1>10. StreamInv(t)'
  BY <1>7, <1>8, <1>9 DEF StreamInv
<1>11. Pending(t)' = version'
  <2>1. r # << >> /\ r[Len(r)] = version
    BY <1>2
  <2>2. Pending(t)' = r[Len(r)]
    BY <2>1 DEF Pending
  <2> QED BY <2>1, <2>2
<1> QED BY <1>10, <1>11

\* Taking the oldest configuration out of a channel keeps the rest in order.
LEMMA TailStream ==
  ASSUME NEW t \in Streams, TypeOK, StreamInv(t), chan[t] # << >>,
         chan'[t] = Tail(chan[t])
  PROVE  /\ \A i \in 1 .. Len(chan'[t]) :
              /\ chan'[t][i] <= version
              /\ pc[t] \in {"snapshot", "loop"} => Base(t) < chan'[t][i]
              /\ t \in todo => chan'[t][i] < version
              /\ Head(chan[t]) < chan'[t][i]
         /\ \A i, j \in 1 .. Len(chan'[t]) : i < j => chan'[t][i] < chan'[t][j]
<1>1. chan[t] \in Seq(Versions)
  BY DEF TypeOK, Versions
<1> DEFINE q == chan[t]
           r == chan'[t]
<1>2. /\ Len(r) = Len(q) - 1
      /\ \A i \in 1 .. Len(r) : r[i] = q[i + 1]
      /\ Head(q) = q[1]
      /\ Len(q) \in Nat /\ Len(q) >= 1
  BY <1>1, TailFacts
<1>3. \A i \in 1 .. Len(r) : i + 1 \in 1 .. Len(q) /\ i + 1 > 1
  BY <1>2
<1>4. 1 \in 1 .. Len(q)
  BY <1>2
<1>5. /\ \A i \in 1 .. Len(q) :
              /\ q[i] <= version
              /\ pc[t] \in {"snapshot", "loop"} => Base(t) < q[i]
              /\ t \in todo => q[i] < version
      /\ \A i, j \in 1 .. Len(q) : i < j => q[i] < q[j]
  BY DEF StreamInv
<1>6. \A i, j \in 1 .. Len(r) : i < j => i + 1 < j + 1
  BY <1>2
<1> QED BY <1>2, <1>3, <1>4, <1>5, <1>6

\* A server that has just started has no subscribers and sent nothing.
LEMMA InitInv == Init => IInv
  BY CapAssumption, StreamAssumption, VersionAssumption
  DEF Init, IInv, TypeOK, RegisteredOpen, PushNeverBlocks, NewestPending, UpdaterInv,
      ChanInv, StreamInv, Base, Registered

\* A step that leaves a stream alone leaves what the invariant says of it.
LEMMA FrameStream ==
  ASSUME NEW t \in Streams, StreamInv(t), version' = version,
         chan'[t] = chan[t], pc'[t] = pc[t], sent'[t] = sent[t], snap'[t] = snap[t],
         closed'[t] = closed[t], t \in todo' => t \in todo
  PROVE  StreamInv(t)' /\ Pending(t)' = Pending(t)
<1>1. Base(t)' = Base(t)
  BY DEF Base
<1>2. Pending(t)' = Pending(t)
  BY <1>1 DEF Pending
<1>3. StreamInv(t)'
  BY <1>1 DEF StreamInv
<1> QED BY <1>2, <1>3

\* How the pieces of the invariant after a step make up IInv'.
LEMMA Assemble ==
  ASSUME TypeOK', RegisteredOpen', UpdaterInv', PushNeverBlocks',
         \A t \in Streams : StreamInv(t)',
         \A t \in Streams : Registered(t)' /\ pc'[t] \in {"snapshot", "loop"} /\ t \notin todo'
            => Pending(t)' = version'
  PROVE  IInv'
  BY DEF IInv, ChanInv, NewestPending

-----------------------------------------------------------------------------
(* One lemma per action that changes the table, a channel or what is sent *)

\* Registering a new stream, possibly over the entry of an older stream of the
\* same proxy, starts it with an empty channel and the current snapshot.
LEMMA RegisterInv == ASSUME IInv, NEW s \in Streams, Register(s) PROVE IInv'
<1>0. /\ TypeOK /\ RegisteredOpen /\ PushNeverBlocks /\ NewestPending
      /\ UpdaterInv /\ ChanInv
  BY DEF IInv
<1>a. /\ todo = {} /\ pc[s] = "register" /\ ProxyOf(s) \in Proxies
      /\ UNCHANGED <<version, todo, stage, at, chan, closed, sent, client>>
  BY ProxyOfStream DEF Register, MuFree, updater
<1>1. CASE proc = "stopping"
  <2>1. /\ proc' = "panicked" /\ UNCHANGED <<subscribers, pc, snap>>
    BY <1>1 DEF Register
  <2>2. TypeOK'
    BY <1>0, <1>a, <2>1 DEF TypeOK, client
  <2>3. RegisteredOpen' /\ UpdaterInv' /\ PushNeverBlocks'
    BY <1>0, <1>a, <2>1
    DEF RegisteredOpen, UpdaterInv, PushNeverBlocks, Registered, Full
  <2>4. \A t \in Streams : StreamInv(t)' /\ Pending(t)' = Pending(t)
    BY <1>0, <1>a, <2>1, FrameStream DEF ChanInv
  <2>5. \A t \in Streams : Registered(t)' => Registered(t)
    BY <2>1 DEF Registered
  <2> QED BY <1>0, <1>a, <2>1, <2>2, <2>3, <2>4, <2>5, Assemble DEF NewestPending
<1>2. CASE proc # "stopping"
  <2>1. /\ proc' = proc
        /\ subscribers' = [subscribers EXCEPT ![ProxyOf(s)] = s]
        /\ snap' = [snap EXCEPT ![s] = version]
        /\ pc' = [pc EXCEPT ![s] = "snapshot"]
    BY <1>2 DEF Register
  <2>2. TypeOK'
    BY <1>0, <1>a, <2>1 DEF TypeOK, client
  <2>3. RegisteredOpen'
    <3>1. ~closed[s]
      BY <1>0, <1>a DEF ChanInv, StreamInv
    <3> QED BY <1>0, <1>a, <2>1, <3>1, StreamAssumption DEF TypeOK, RegisteredOpen
  <2>4. UpdaterInv' /\ PushNeverBlocks'
    BY <1>0, <1>a DEF UpdaterInv, PushNeverBlocks, Full
  <2>5. ASSUME NEW t \in Streams, t # s
        PROVE  StreamInv(t)' /\ Pending(t)' = Pending(t)
                 /\ pc'[t] = pc[t] /\ (Registered(t)' => Registered(t))
    <3>1. pc'[t] = pc[t] /\ snap'[t] = snap[t]
      BY <1>0, <2>1, <2>5 DEF TypeOK
    <3>2. Registered(t)' => Registered(t)
      BY <1>0, <1>a, <2>1, <2>5, ProxyOfStream DEF Registered, TypeOK
    <3> QED BY <1>0, <1>a, <3>1, <3>2, FrameStream DEF ChanInv
  <2>6. StreamInv(s)' /\ Pending(s)' = version'
    <3>1. chan[s] = << >> /\ sent[s] = -1 /\ ~closed[s] /\ sent[s] <= version
      BY <1>0, <1>a DEF ChanInv, StreamInv
    <3>2. pc'[s] = "snapshot" /\ snap'[s] = version /\ version \in Int
      BY <1>0, <2>1, VersionAssumption DEF TypeOK
    <3>3. Base(s)' = version
      BY <3>2 DEF Base
    <3>4. Pending(s)' = version'
      BY <1>a, <3>1, <3>3 DEF Pending
    <3>5. Len(<< >>) = 0
      OBVIOUS
    <3>6. StreamInv(s)'
      BY <1>a, <3>1, <3>2, <3>3, <3>5 DEF StreamInv
    <3> QED BY <3>4, <3>6
  <2>7. \A t \in Streams : Registered(t)' /\ pc'[t] \in {"snapshot", "loop"} /\ t \notin todo'
            => Pending(t)' = version'
    BY <1>0, <1>a, <2>5, <2>6 DEF NewestPending
  <2> QED BY <2>2, <2>3, <2>4, <2>5, <2>6, <2>7, Assemble
<1> QED BY <1>1, <1>2

\* stream.Send, of the snapshot or of what came out of the channel: chan' is
\* ahead of what was sent, and what is pending stays pending.
LEMMA SendInv ==
  ASSUME IInv, NEW s \in Streams, NEW v \in 0 .. MaxVersion, Send(s, v),
         UNCHANGED <<proc, version, updater, subscribers, closed, snap, client>>,
         pc[s] \in {"snapshot", "loop"},
         v <= version,
         chan' \in [Streams -> Seq(1 .. MaxVersion)],
         \A t \in Streams : Len(chan'[t]) <= Len(chan[t]),
         \A t \in Streams : t # s => chan'[t] = chan[t],
         \A i \in 1 .. Len(chan'[s]) : v < chan'[s][i] /\ chan'[s][i] <= version,
         \A i \in 1 .. Len(chan'[s]) : s \in todo => chan'[s][i] < version,
         \A i, j \in 1 .. Len(chan'[s]) : i < j => chan'[s][i] < chan'[s][j],
         s \in todo => v < version,
         (IF chan'[s] # << >> THEN chan'[s][Len(chan'[s])] ELSE v) = Pending(s)
  PROVE  IInv'
<1>0. /\ TypeOK /\ RegisteredOpen /\ PushNeverBlocks /\ NewestPending
      /\ UpdaterInv /\ ChanInv
  BY DEF IInv
<1>a. \/ /\ pc' = [pc EXCEPT ![s] = "cleanup"] /\ sent' = sent
      \/ /\ pc' = [pc EXCEPT ![s] = "loop"] /\ sent' = [sent EXCEPT ![s] = v]
  BY DEF Send
<1>b. /\ UNCHANGED <<todo, stage, at, clientGone, ctxDone>>
      /\ \A t \in Streams : Len(chan[t]) \in Nat /\ Len(chan'[t]) \in Nat
  BY <1>0 DEF updater, client, TypeOK
<1>1. TypeOK'
  <2>1. \A t \in Streams : Len(chan'[t]) <= ChanCap
    BY <1>0, <1>b, CapAssumption DEF TypeOK
  <2>2. pc' \in [Streams -> {"idle", "register", "snapshot", "loop", "cleanup", "done"}]
    BY <1>0, <1>a DEF TypeOK
  <2>3. sent' \in [Streams -> -1 .. MaxVersion]
    <3>1. v \in -1 .. MaxVersion
      BY VersionAssumption
    <3>2. sent \in [Streams -> -1 .. MaxVersion]
      BY <1>0 DEF TypeOK
    <3> QED BY <1>a, <3>1, <3>2
  <2> QED BY <1>0, <1>b, <2>1, <2>2, <2>3 DEF TypeOK
<1>2. RegisteredOpen'
  <2>1. \A t \in Streams : pc[t] \in {"snapshot", "loop", "cleanup"}
                           => pc'[t] \in {"snapshot", "loop", "cleanup"}
    BY <1>0, <1>a DEF TypeOK
  <2>2. \A p \in Proxies : subscribers[p] # NoStream => subscribers[p] \in Streams
    BY <1>0 DEF TypeOK
  <2> QED BY <1>0, <2>1, <2>2 DEF RegisteredOpen
<1>3. UpdaterInv' /\ PushNeverBlocks'
  <2>1. UpdaterInv'
    BY <1>0, <1>b DEF UpdaterInv, Registered
  <2>2. stage = "send" => at \in Streams
    BY <1>0 DEF UpdaterInv, TypeOK
  <2>3. PushNeverBlocks'
    BY <1>0, <1>b, <2>2, CapAssumption DEF PushNeverBlocks, Full
  <2> QED BY <2>1, <2>3
<1>4. ASSUME NEW t \in Streams, t # s
      PROVE  StreamInv(t)' /\ Pending(t)' = Pending(t)
               /\ pc'[t] = pc[t] /\ (Registered(t)' => Registered(t))
  <2>1. pc'[t] = pc[t] /\ sent'[t] = sent[t] /\ chan'[t] = chan[t]
    BY <1>0, <1>a, <1>4 DEF TypeOK
  <2> QED BY <1>0, <1>b, <2>1, FrameStream DEF ChanInv, Registered
<1>5. StreamInv(s)'
  <2>0. /\ sent[s] \in Int /\ version \in Int /\ v \in Int
        /\ sent[s] <= version /\ snap[s] <= version
    BY <1>0, VersionAssumption DEF TypeOK, ChanInv, StreamInv
  <2>1. CASE pc' = [pc EXCEPT ![s] = "cleanup"] /\ sent' = sent
    <3>1. pc'[s] = "cleanup"
      BY <1>0, <2>1 DEF TypeOK
    <3> QED BY <1>b, <2>0, <2>1, <3>1 DEF StreamInv
  <2>2. CASE pc' = [pc EXCEPT ![s] = "loop"] /\ sent' = [sent EXCEPT ![s] = v]
    <3>1. pc'[s] = "loop" /\ sent'[s] = v
      BY <1>0, <2>2 DEF TypeOK
    <3>2. Base(s)' = v
      BY <3>1 DEF Base
    <3> QED BY <1>b, <2>0, <3>1, <3>2 DEF StreamInv
  <2> QED BY <1>a, <2>1, <2>2
<1>6. Registered(s)' /\ pc'[s] \in {"snapshot", "loop"} /\ s \notin todo'
        => Pending(s)' = version'
  <2> SUFFICES ASSUME Registered(s)', pc'[s] \in {"snapshot", "loop"}, s \notin todo'
               PROVE  Pending(s)' = version'
    OBVIOUS
  <2>1. pc'[s] = "loop" /\ sent'[s] = v
    BY <1>0, <1>a DEF TypeOK
  <2>2. Pending(s)' = IF chan'[s] # << >> THEN chan'[s][Len(chan'[s])] ELSE v
    BY <2>1 DEF Pending, Base
  <2>3. Registered(s) /\ s \notin todo
    BY <1>b DEF Registered
  <2> QED BY <1>0, <2>2, <2>3 DEF NewestPending
<1>7. \A t \in Streams : Registered(t)' /\ pc'[t] \in {"snapshot", "loop"} /\ t \notin todo'
         => Pending(t)' = version'
  BY <1>0, <1>b, <1>4, <1>6 DEF NewestPending
<1> QED BY <1>1, <1>2, <1>3, <1>4, <1>5, <1>7, Assemble

\* Sending the snapshot (server.go 71-74) keeps the stream in order: what waits
\* in the channel was pushed after the snapshot was read.
LEMMA SendSnapshotInv == ASSUME IInv, NEW s \in Streams, SendSnapshot(s) PROVE IInv'
<1>0. /\ TypeOK /\ StreamInv(s) /\ UpdaterInv
  BY DEF IInv, ChanInv
<1>1. /\ pc[s] = "snapshot" /\ Send(s, snap[s])
      /\ UNCHANGED <<proc, version, updater, subscribers, chan, closed, snap, client>>
  BY DEF SendSnapshot
<1>2. Base(s) = snap[s]
  BY <1>1 DEF Base
<1>3. /\ snap[s] \in 0 .. MaxVersion /\ snap[s] <= version
      /\ chan' \in [Streams -> Seq(1 .. MaxVersion)]
      /\ \A t \in Streams : Len(chan'[t]) <= Len(chan[t])
  BY <1>0, <1>1 DEF TypeOK, StreamInv
<1>4. /\ \A i \in 1 .. Len(chan'[s]) : snap[s] < chan'[s][i] /\ chan'[s][i] <= version
      /\ \A i \in 1 .. Len(chan'[s]) : s \in todo => chan'[s][i] < version
      /\ \A i, j \in 1 .. Len(chan'[s]) : i < j => chan'[s][i] < chan'[s][j]
      /\ s \in todo => snap[s] < version
  BY <1>0, <1>1, <1>2 DEF StreamInv
<1>5. (IF chan'[s] # << >> THEN chan'[s][Len(chan'[s])] ELSE snap[s]) = Pending(s)
  BY <1>1, <1>2 DEF Pending
<1> QED BY <1>1, <1>3, <1>4, <1>5, SendInv

\* Receiving from the channel and sending (server.go 76-86) moves the oldest
\* waiting configuration to what was sent.
LEMMA ReceiveInv == ASSUME IInv, NEW s \in Streams, Receive(s) PROVE IInv'
<1>0. /\ TypeOK /\ StreamInv(s)
  BY DEF IInv, ChanInv
<1> DEFINE q == chan[s]
           r == chan'[s]
           v == Head(q)
<1>1. /\ pc[s] = "loop" /\ chan[s] # << >> /\ Send(s, v)
      /\ chan' = [chan EXCEPT ![s] = Tail(@)]
      /\ UNCHANGED <<proc, version, updater, subscribers, closed, snap, client>>
  BY DEF Receive
<1>2. q \in Seq(Versions) /\ r = Tail(q)
  BY <1>0, <1>1 DEF TypeOK, Versions
<1>3. /\ r \in Seq(Versions)
      /\ Len(r) = Len(q) - 1
      /\ \A i \in 1 .. Len(r) : r[i] = q[i + 1]
      /\ v = q[1]
      /\ v \in Versions
      /\ Len(q) \in Nat /\ Len(q) >= 1
      /\ r = << >> <=> Len(q) = 1
  BY <1>1, <1>2, TailFacts
<1>4. /\ \A i \in 1 .. Len(r) : v < r[i] /\ r[i] <= version
      /\ \A i \in 1 .. Len(r) : s \in todo => r[i] < version
      /\ \A i, j \in 1 .. Len(r) : i < j => r[i] < r[j]
  BY <1>0, <1>1, <1>2, TailStream
<1>5. v <= version /\ (s \in todo => v < version)
  BY <1>0, <1>3 DEF StreamInv
<1>6. /\ chan' \in [Streams -> Seq(1 .. MaxVersion)]
      /\ \A t \in Streams : t # s => chan'[t] = chan[t]
      /\ \A t \in Streams : Len(chan'[t]) <= Len(chan[t])
  <2>1. chan \in [Streams -> Seq(Versions)]
    BY <1>0 DEF TypeOK, Versions
  <2>2. chan' = [chan EXCEPT ![s] = r]
    BY <1>1, <1>2, <2>1
  <2>3. \A t \in Streams : Len(chan[t]) \in Nat
    BY <2>1, LenProperties
  <2> HIDE DEF q, r
  <2>4. chan' \in [Streams -> Seq(Versions)]
    BY <1>3, <2>1, <2>2
  <2>5. \A t \in Streams : t # s => chan'[t] = chan[t]
    BY <2>1, <2>2
  <2>6. Len(chan'[s]) <= Len(chan[s])
    BY <1>3 DEF q, r
  <2> QED BY <2>3, <2>4, <2>5, <2>6 DEF Versions
<1>7. (IF r # << >> THEN r[Len(r)] ELSE v) = Pending(s)
  <2>1. Pending(s) = q[Len(q)]
    BY <1>1 DEF Pending
  <2>2. CASE Len(q) = 1
    BY <1>3, <2>1, <2>2
  <2>3. CASE Len(q) # 1
    <3>1. Len(r) \in 1 .. Len(r) /\ Len(r) + 1 = Len(q)
      BY <1>3, <2>3
    <3> QED BY <1>3, <2>1, <2>3, <3>1
  <2> QED BY <2>2, <2>3
<1>8. v \in 0 .. MaxVersion
  BY <1>3, VersionAssumption DEF Versions
<1> HIDE DEF v
<1> QED BY <1>1, <1>4, <1>5, <1>6, <1>7, <1>8, SendInv

\* The deferred cleanup (server.go 61-69) never leaves a closed channel in the
\* table, not even when it deletes the entry of a newer stream.
LEMMA CleanupInv == ASSUME IInv, NEW s \in Streams, Cleanup(s) PROVE IInv'
<1>0. /\ TypeOK /\ RegisteredOpen /\ PushNeverBlocks /\ NewestPending
      /\ UpdaterInv /\ ChanInv
  BY DEF IInv
<1>1. /\ todo = {} /\ pc[s] = "cleanup" /\ ProxyOf(s) \in Proxies
      /\ subscribers' = [subscribers EXCEPT ![ProxyOf(s)] = NoStream]
      /\ UNCHANGED <<version, todo, stage, at, chan, snap, sent, clientGone, ctxDone>>
  BY ProxyOfStream DEF Cleanup, MuFree, updater, client
<1>2. \/ /\ proc' = "panicked" /\ UNCHANGED <<closed, pc>>
      \/ /\ proc' = proc /\ closed' = [closed EXCEPT ![s] = TRUE]
         /\ pc' = [pc EXCEPT ![s] = "done"]
  BY DEF Cleanup
<1>3. TypeOK'
  <2>1. closed' \in [Streams -> BOOLEAN]
    BY <1>0, <1>2, Zenon DEF TypeOK
  <2> QED BY <1>0, <1>1, <1>2, <2>1 DEF TypeOK
<1>4. \A t \in Streams : Registered(t)' => Registered(t) /\ t # s
  BY <1>0, <1>1, StreamAssumption, ProxyOfStream DEF TypeOK, Registered
<1>5. \A t \in Streams : t # s => pc'[t] = pc[t] /\ closed'[t] = closed[t]
  BY <1>0, <1>2 DEF TypeOK
<1>6. RegisteredOpen'
  <2> SUFFICES ASSUME NEW p \in Proxies, subscribers'[p] # NoStream
               PROVE  /\ ProxyOf(subscribers'[p]) = p
                      /\ ~closed'[subscribers'[p]]
                      /\ pc'[subscribers'[p]] \in {"snapshot", "loop", "cleanup"}
    BY DEF RegisteredOpen
  <2>1. p # ProxyOf(s) /\ subscribers'[p] = subscribers[p] /\ subscribers[p] \in Streams
    BY <1>0, <1>1 DEF TypeOK
  <2>2. ProxyOf(subscribers[p]) = p /\ subscribers[p] # s
    BY <1>0, <2>1 DEF RegisteredOpen
  <2> QED BY <1>0, <1>5, <2>1, <2>2 DEF RegisteredOpen
<1>7. UpdaterInv' /\ PushNeverBlocks'
  BY <1>0, <1>1 DEF UpdaterInv, PushNeverBlocks, Full
<1>8. \A t \in Streams : t # s => StreamInv(t)' /\ Pending(t)' = Pending(t)
  BY <1>0, <1>1, <1>5, FrameStream DEF ChanInv
<1>9. StreamInv(s)'
  <2>1. pc'[s] \in {"cleanup", "done"}
    BY <1>0, <1>1, <1>2 DEF TypeOK
  <2>2. StreamInv(s)
    BY <1>0 DEF ChanInv
  <2> QED BY <1>1, <2>1, <2>2 DEF StreamInv
<1>10. \A t \in Streams : Registered(t)' /\ pc'[t] \in {"snapshot", "loop"} /\ t \notin todo'
         => Pending(t)' = version'
  BY <1>0, <1>1, <1>4, <1>5, <1>8 DEF NewestPending
<1> QED BY <1>3, <1>6, <1>7, <1>8, <1>9, <1>10, Assemble

\* A new version is newer than everything pushed or sent before it.
LEMMA UpdateConfigInv == ASSUME IInv, UpdateConfig PROVE IInv'
<1>0. /\ TypeOK /\ RegisteredOpen /\ PushNeverBlocks /\ NewestPending
      /\ UpdaterInv /\ ChanInv
  BY DEF IInv
<1>1. /\ todo = {} /\ version < MaxVersion /\ version' = version + 1
      /\ todo' = {s \in Streams : Registered(s)}
      /\ UNCHANGED <<proc, stage, at, subscribers, chan, closed, pc, snap, sent, clientGone,
                     ctxDone>>
  BY DEF UpdateConfig, MuFree, handler, client
<1>2. TypeOK'
  BY <1>0, <1>1, VersionAssumption DEF TypeOK
<1>3. RegisteredOpen' /\ UpdaterInv' /\ PushNeverBlocks'
  BY <1>0, <1>1, VersionAssumption DEF TypeOK, RegisteredOpen, UpdaterInv, PushNeverBlocks, Registered, Full
<1>4. ASSUME NEW t \in Streams PROVE StreamInv(t)'
  <2>1. StreamInv(t) /\ Base(t)' = Base(t)
    BY <1>0, <1>1 DEF ChanInv, Base
  <2>2. /\ version \in Int /\ sent[t] \in Int /\ snap[t] \in Int /\ Base(t) \in Int
        /\ Base(t) <= version
    BY <1>0, <2>1, VersionAssumption DEF TypeOK, Base, StreamInv
  <2>3. \A i \in 1 .. Len(chan[t]) : chan[t][i] \in Int
    <3>1. chan[t] \in Seq(Versions)
      BY <1>0 DEF TypeOK, Versions
    <3>2. \A i \in 1 .. Len(chan[t]) : chan[t][i] \in Versions
      BY <3>1, ElementOfSeq
    <3> QED BY <3>2, VersionAssumption DEF Versions
  <2>4. \A i \in 1 .. Len(chan[t]) : chan[t][i] <= version + 1 /\ chan[t][i] < version + 1
    BY <2>1, <2>2, <2>3 DEF StreamInv
  <2>5. /\ sent[t] <= version + 1 /\ snap[t] <= version + 1
        /\ Base(t) < version + 1
    BY <2>1, <2>2 DEF StreamInv
  <2> QED BY <1>1, <2>1, <2>4, <2>5 DEF StreamInv
<1>5. \A t \in Streams : Registered(t)' => t \in todo'
  BY <1>1 DEF Registered
<1> QED BY <1>2, <1>3, <1>4, <1>5, Assemble

\* A configuration appended to the channel of one subscriber.
LEMMA ChanAppendInv ==
  ASSUME IInv, NEW s \in Streams, s \in todo, ~Full(s),
         chan' = [chan EXCEPT ![s] = Append(@, version)],
         todo' = todo \ {s}, stage' = "try", at' = NoStream,
         at # NoStream => at = s,
         UNCHANGED <<proc, version, subscribers, closed, handler, client>>
  PROVE  IInv'
<1>0. /\ TypeOK /\ RegisteredOpen /\ PushNeverBlocks /\ NewestPending
      /\ UpdaterInv /\ ChanInv
  BY DEF IInv
<1>1. UNCHANGED <<pc, snap, sent, clientGone, ctxDone>>
  BY DEF handler, client
<1>2. Registered(s) /\ pc[s] \in {"snapshot", "loop", "cleanup"}
  <2>1. Registered(s)
    BY <1>0 DEF UpdaterInv
  <2> QED BY <1>0, <2>1, StreamAssumption, ProxyOfStream DEF RegisteredOpen, Registered
<1>3. version > 0 /\ version \in Versions
  BY <1>0, VersionAssumption DEF TypeOK, UpdaterInv, Versions
<1>4. /\ chan \in [Streams -> Seq(Versions)]
      /\ chan[s] \in Seq(Versions)
      /\ Append(chan[s], version) \in Seq(Versions)
      /\ Len(Append(chan[s], version)) = Len(chan[s]) + 1
      /\ Len(chan[s]) \in Nat
  BY <1>0, <1>3, AppendFacts DEF TypeOK, Versions
<1>5. /\ chan'[s] = Append(chan[s], version)
      /\ \A t \in Streams : t # s => chan'[t] = chan[t]
      /\ chan' \in [Streams -> Seq(Versions)]
  BY <1>4
<1>6. TypeOK'
  <2>1. \A t \in Streams : Len(chan'[t]) <= ChanCap
    BY <1>0, <1>4, <1>5, CapAssumption DEF TypeOK, Full
  <2> QED BY <1>0, <1>1, <1>5, <2>1 DEF TypeOK, Versions
<1>7. RegisteredOpen' /\ UpdaterInv' /\ PushNeverBlocks'
  BY <1>0, <1>1 DEF RegisteredOpen, UpdaterInv, PushNeverBlocks, Registered
<1>8. \A t \in Streams : t # s => StreamInv(t)' /\ Pending(t)' = Pending(t)
  BY <1>0, <1>1, <1>5, FrameStream DEF ChanInv
<1>9. StreamInv(s)' /\ Pending(s)' = version'
  BY <1>0, <1>1, <1>2, <1>3, <1>5, AppendStream DEF ChanInv
<1>10. \A t \in Streams : Registered(t)' /\ pc'[t] \in {"snapshot", "loop"} /\ t \notin todo'
         => Pending(t)' = version'
  <2>1. \A t \in Streams : Registered(t)' = Registered(t) /\ pc'[t] = pc[t]
    BY <1>1 DEF Registered
  <2> QED BY <1>0, <1>8, <1>9, <2>1 DEF NewestPending
<1> QED BY <1>6, <1>7, <1>8, <1>9, <1>10, Assemble

\* The outer select of UpdateConfig sends, or turns to a full channel.
LEMMA PushInv == ASSUME IInv, NEW s \in Streams, Push(s) PROVE IInv'
<1>0. /\ TypeOK /\ RegisteredOpen /\ PushNeverBlocks /\ NewestPending
      /\ UpdaterInv /\ ChanInv
  BY DEF IInv
<1>1. /\ stage = "try" /\ s \in todo /\ at = NoStream
      /\ UNCHANGED <<proc, version, subscribers, closed, handler, client>>
  BY <1>0 DEF Push, UpdaterInv
<1>2. CASE Full(s)
  <2>1. /\ stage' = "drop" /\ at' = s /\ UNCHANGED <<todo, chan>>
    BY <1>2 DEF Push
  <2>2. UNCHANGED <<pc, snap, sent, clientGone, ctxDone>>
    BY <1>1 DEF handler, client
  <2>3. TypeOK'
    BY <1>0, <1>1, <2>1, <2>2 DEF TypeOK
  <2>4. RegisteredOpen' /\ UpdaterInv' /\ PushNeverBlocks'
    BY <1>0, <1>1, <2>1, <2>2, StreamAssumption
    DEF RegisteredOpen, UpdaterInv, PushNeverBlocks, Registered
  <2>5. \A t \in Streams : StreamInv(t)' /\ Pending(t)' = Pending(t)
    BY <1>0, <1>1, <2>1, <2>2, FrameStream DEF ChanInv
  <2>6. \A t \in Streams : Registered(t)' => Registered(t)
    BY <1>1 DEF Registered
  <2> QED BY <1>0, <1>1, <2>1, <2>2, <2>3, <2>4, <2>5, <2>6, Assemble DEF NewestPending
<1>3. CASE ~Full(s)
  <2>1. /\ todo' = todo \ {s} /\ chan' = [chan EXCEPT ![s] = Append(@, version)]
        /\ UNCHANGED <<stage, at>>
    BY <1>3 DEF Push
  <2> QED BY <1>1, <1>3, <2>1, ChanAppendInv
<1> QED BY <1>2, <1>3

\* Making room takes the oldest configuration out and leaves room for one.
LEMMA DropInv == ASSUME IInv, Drop PROVE IInv'
<1>0. /\ TypeOK /\ RegisteredOpen /\ PushNeverBlocks /\ NewestPending
      /\ UpdaterInv /\ ChanInv
  BY DEF IInv
<1>1. /\ stage = "drop" /\ stage' = "send"
      /\ chan' = [chan EXCEPT ![at] = IF @ = << >> THEN @ ELSE Tail(@)]
      /\ UNCHANGED <<proc, version, todo, at, subscribers, closed>>
      /\ UNCHANGED <<pc, snap, sent, clientGone, ctxDone>>
  BY DEF Drop, handler, client
<1>2. at # NoStream /\ at \in todo /\ at \in Streams
  BY <1>0, <1>1 DEF TypeOK, UpdaterInv
<1> DEFINE q == chan[at]
           r == chan'[at]
<1>3. /\ chan \in [Streams -> Seq(Versions)] /\ q \in Seq(Versions)
      /\ r = IF q = << >> THEN q ELSE Tail(q)
      /\ chan' = [chan EXCEPT ![at] = r]
  BY <1>0, <1>1, <1>2 DEF TypeOK, Versions
<1>4. r \in Seq(Versions) /\ Len(q) \in Nat /\ Len(q) <= ChanCap /\ Len(r) < ChanCap
  <2>1. Len(q) \in Nat /\ Len(q) <= ChanCap
    BY <1>0, <1>2, <1>3, LenProperties DEF TypeOK
  <2>2. CASE q = << >>
    BY <1>3, <2>1, <2>2, CapAssumption, EmptySeq
  <2>3. CASE q # << >>
    <3>1. Tail(q) \in Seq(Versions) /\ Len(Tail(q)) = Len(q) - 1
      BY <1>3, <2>3, TailFacts
    <3> QED BY <1>3, <2>1, <2>3, <3>1, CapAssumption
  <2> QED BY <2>1, <2>2, <2>3
<1>5. /\ \A t \in Streams : t # at => chan'[t] = chan[t]
      /\ chan' \in [Streams -> Seq(Versions)]
  <2> HIDE DEF r
  <2> QED BY <1>3, <1>4
<1>6. TypeOK'
  <2>1. \A t \in Streams : Len(chan'[t]) <= ChanCap
    <3>1. r \in Seq(Versions) => Len(r) \in Nat
      BY LenProperties
    <3>2. Len(chan'[at]) <= ChanCap
      BY <1>4, <3>1, CapAssumption
    <3>3. \A t \in Streams : t # at => Len(chan'[t]) <= ChanCap
      BY <1>0, <1>5 DEF TypeOK
    <3> QED BY <3>2, <3>3
  <2> QED BY <1>0, <1>1, <1>5, <2>1 DEF TypeOK, Versions
<1>7. RegisteredOpen' /\ UpdaterInv'
  BY <1>0, <1>1, <1>2 DEF RegisteredOpen, UpdaterInv, Registered
<1>8. PushNeverBlocks'
  <2>1. Len(r) \in Nat
    BY <1>4, LenProperties
  <2> QED BY <1>1, <1>4, <2>1, CapAssumption DEF PushNeverBlocks, Full
<1>9. \A t \in Streams : t # at => StreamInv(t)' /\ Pending(t)' = Pending(t)
  BY <1>0, <1>1, <1>5, FrameStream DEF ChanInv
<1>10. StreamInv(at)'
  <2>0. StreamInv(at)
    BY <1>0, <1>2 DEF ChanInv
  <2>1. CASE q = << >>
    BY <1>1, <1>2, <1>3, <2>0, <2>1, FrameStream
  <2>2. CASE q # << >>
    <3>1. /\ \A i \in 1 .. Len(r) :
                /\ r[i] <= version
                /\ pc[at] \in {"snapshot", "loop"} => Base(at) < r[i]
                /\ at \in todo => r[i] < version
          /\ \A i, j \in 1 .. Len(r) : i < j => r[i] < r[j]
      BY <1>0, <1>2, <1>3, <2>0, <2>2, TailStream
    <3>2. Base(at)' = Base(at)
      BY <1>1 DEF Base
    <3>3. pc[at] \notin {"idle", "register"}
      BY <2>0, <2>2 DEF StreamInv
    <3> QED BY <1>1, <2>0, <3>1, <3>2, <3>3 DEF StreamInv
  <2> QED BY <2>1, <2>2
<1>11. \A t \in Streams : Registered(t)' /\ pc'[t] \in {"snapshot", "loop"} /\ t \notin todo'
         => Pending(t)' = version'
  <2>1. \A t \in Streams : Registered(t)' = Registered(t) /\ pc'[t] = pc[t]
    BY <1>1 DEF Registered
  <2> QED BY <1>0, <1>1, <1>2, <1>9, <2>1 DEF NewestPending
<1>12. ASSUME NEW t \in Streams PROVE StreamInv(t)'
  <2>1. CASE t = at
    <3>1. t = at'
      BY <1>1, <2>1
    <3> QED BY <1>10, <3>1
  <2> QED BY <1>9, <2>1
<1> QED BY <1>6, <1>7, <1>8, <1>11, <1>12, Assemble

\* The send after the drop (server.go:117) appends the newest version.
LEMMA SendBlockingInv == ASSUME IInv, SendBlocking PROVE IInv'
<1>1. /\ stage = "send" /\ ~Full(at)
      /\ chan' = [chan EXCEPT ![at] = Append(@, version)]
      /\ todo' = todo \ {at} /\ stage' = "try" /\ at' = NoStream
      /\ UNCHANGED <<proc, version, subscribers, closed, handler, client>>
  BY DEF SendBlocking
<1>2. at \in Streams /\ at \in todo
  BY <1>1 DEF IInv, TypeOK, UpdaterInv
<1> QED BY <1>1, <1>2, ChanAppendInv

\* Shutdown closes what is in the table and empties it.
LEMMA ShutdownInv == ASSUME IInv, Shutdown PROVE IInv'
<1>0. /\ TypeOK /\ RegisteredOpen /\ PushNeverBlocks /\ NewestPending
      /\ UpdaterInv /\ ChanInv
  BY DEF IInv
<1>1. /\ todo = {} /\ proc' = "stopping"
      /\ closed' = [s \in Streams |-> closed[s] \/ Registered(s)]
      /\ subscribers' = [p \in Proxies |-> NoStream]
      /\ UNCHANGED <<version, todo, stage, at, chan, pc, snap, sent, clientGone, ctxDone>>
  BY DEF Shutdown, MuFree, updater, handler, client
<1>2. TypeOK'
  <2>1. closed' \in [Streams -> BOOLEAN]
    BY <1>1, Zenon
  <2> QED BY <1>0, <1>1, <2>1 DEF TypeOK
<1>3. RegisteredOpen' /\ UpdaterInv' /\ PushNeverBlocks'
  BY <1>0, <1>1 DEF RegisteredOpen, UpdaterInv, PushNeverBlocks, Full
<1>4. ASSUME NEW t \in Streams PROVE StreamInv(t)' /\ ~Registered(t)'
  <2>1. StreamInv(t) /\ Base(t)' = Base(t)
    BY <1>0, <1>1 DEF ChanInv, Base
  <2>2. Registered(t) => pc[t] \in {"snapshot", "loop", "cleanup"}
    BY <1>0, StreamAssumption, ProxyOfStream DEF RegisteredOpen, Registered
  <2>3. pc[t] \in {"idle", "register"} => ~closed'[t]
    BY <1>1, <2>1, <2>2, Zenon DEF StreamInv
  <2>4. StreamInv(t)'
    BY <1>1, <2>1, <2>3 DEF StreamInv
  <2>5. ~Registered(t)'
    BY <1>1, StreamAssumption, ProxyOfStream DEF Registered
  <2> QED BY <2>4, <2>5
<1> QED BY <1>2, <1>3, <1>4, Assemble

-----------------------------------------------------------------------------
\* Every step of every handler, of UpdateConfig and of Shutdown preserves the
\* invariant.
LEMMA NextInv == IInv /\ [Next]_vars => IInv'
<1> SUFFICES ASSUME IInv, [Next]_vars PROVE IInv'
  OBVIOUS
<1>0. /\ TypeOK /\ RegisteredOpen /\ PushNeverBlocks /\ NewestPending
      /\ UpdaterInv /\ ChanInv
  BY DEF IInv
<1>1. ASSUME NEW s \in Streams, Connect(s) PROVE IInv'
  <2>1. /\ pc[s] = "idle" /\ pc' = [pc EXCEPT ![s] = "register"]
        /\ UNCHANGED <<proc, version, todo, stage, at, subscribers, chan, closed, snap, sent,
                       clientGone, ctxDone>>
    BY <1>1 DEF Connect, updater, client
  <2>2. TypeOK'
    BY <1>0, <2>1 DEF TypeOK
  <2>3. /\ \A t \in Streams : t # s => pc'[t] = pc[t]
        /\ pc'[s] = "register"
    BY <1>0, <2>1 DEF TypeOK
  <2>4. RegisteredOpen'
    BY <1>0, <2>1, <2>3 DEF TypeOK, RegisteredOpen
  <2>5. UpdaterInv' /\ PushNeverBlocks'
    BY <1>0, <2>1 DEF UpdaterInv, PushNeverBlocks, Registered, Full
  <2>6. \A t \in Streams : t # s => StreamInv(t)' /\ Pending(t)' = Pending(t)
    BY <1>0, <2>1, <2>3, FrameStream DEF ChanInv
  <2>7. StreamInv(s)'
    BY <1>0, <2>1, <2>3 DEF ChanInv, StreamInv
  <2>8. \A t \in Streams : Registered(t)' /\ pc'[t] \in {"snapshot", "loop"} /\ t \notin todo'
          => Pending(t)' = version'
    BY <1>0, <2>1, <2>3, <2>6 DEF NewestPending, Registered
  <2> QED BY <2>2, <2>4, <2>5, <2>6, <2>7, <2>8, Assemble
<1>2. ASSUME NEW s \in Streams, Disconnect(s) \/ NoticeGone(s) PROVE IInv'
  <2>1. /\ UNCHANGED <<proc, version, todo, stage, at, subscribers, chan, closed, pc, snap, sent>>
        /\ clientGone' \in [Streams -> BOOLEAN] /\ ctxDone' \in [Streams -> BOOLEAN]
    BY <1>0, <1>2, Zenon DEF TypeOK, Disconnect, NoticeGone, updater, handler
  <2>2. TypeOK'
    BY <1>0, <2>1 DEF TypeOK
  <2>3. RegisteredOpen' /\ UpdaterInv' /\ PushNeverBlocks'
    BY <1>0, <2>1 DEF RegisteredOpen, UpdaterInv, PushNeverBlocks, Registered, Full
  <2>4. \A t \in Streams : StreamInv(t)' /\ Pending(t)' = Pending(t)
    BY <1>0, <2>1, FrameStream DEF ChanInv
  <2>5. \A t \in Streams : Registered(t)' => Registered(t)
    BY <2>1 DEF Registered
  <2> QED BY <1>0, <2>1, <2>2, <2>3, <2>4, <2>5, Assemble DEF NewestPending
<1>3. ASSUME NEW s \in Streams, Return(s) PROVE IInv'
  <2>1. /\ pc[s] = "loop" /\ pc' = [pc EXCEPT ![s] = "cleanup"]
        /\ UNCHANGED <<proc, version, todo, stage, at, subscribers, chan, closed, snap, sent,
                       clientGone, ctxDone>>
    BY <1>3 DEF Return, updater, client
  <2>2. TypeOK'
    BY <1>0, <2>1 DEF TypeOK
  <2>3. /\ \A t \in Streams : t # s => pc'[t] = pc[t]
        /\ pc'[s] = "cleanup"
    BY <1>0, <2>1 DEF TypeOK
  <2>4. RegisteredOpen'
    BY <1>0, <2>1, <2>3 DEF TypeOK, RegisteredOpen
  <2>5. UpdaterInv' /\ PushNeverBlocks'
    BY <1>0, <2>1 DEF UpdaterInv, PushNeverBlocks, Registered, Full
  <2>6. \A t \in Streams : t # s => StreamInv(t)' /\ Pending(t)' = Pending(t)
    BY <1>0, <2>1, <2>3, FrameStream DEF ChanInv
  <2>7. StreamInv(s)'
    BY <1>0, <2>1, <2>3 DEF ChanInv, StreamInv
  <2>8. \A t \in Streams : Registered(t)' /\ pc'[t] \in {"snapshot", "loop"} /\ t \notin todo'
          => Pending(t)' = version'
    BY <1>0, <2>1, <2>3, <2>6 DEF NewestPending, Registered
  <2> QED BY <2>2, <2>4, <2>5, <2>6, <2>7, <2>8, Assemble
<1>4. ASSUME Exit \/ UNCHANGED vars PROVE IInv'
  <2>1. /\ UNCHANGED <<version, todo, stage, at, subscribers, chan, closed, pc, snap, sent,
                       clientGone, ctxDone>>
        /\ proc' \in {"running", "stopping", "exited", "panicked"}
    BY <1>0, <1>4 DEF TypeOK, Exit, vars, updater, handler, client
  <2>2. TypeOK'
    BY <1>0, <2>1 DEF TypeOK
  <2>3. RegisteredOpen' /\ UpdaterInv' /\ PushNeverBlocks'
    BY <1>0, <2>1 DEF RegisteredOpen, UpdaterInv, PushNeverBlocks, Registered, Full
  <2>4. \A t \in Streams : StreamInv(t)' /\ Pending(t)' = Pending(t)
    BY <1>0, <2>1, FrameStream DEF ChanInv
  <2>5. \A t \in Streams : Registered(t)' => Registered(t)
    BY <2>1 DEF Registered
  <2> QED BY <1>0, <2>1, <2>2, <2>3, <2>4, <2>5, Assemble DEF NewestPending
<1> QED
  BY <1>1, <1>2, <1>3, <1>4, RegisterInv, SendSnapshotInv, ReceiveInv, CleanupInv,
     UpdateConfigInv, PushInv, DropInv, SendBlockingInv, ShutdownInv
  DEF Next, Handler, Updater

-----------------------------------------------------------------------------
\* The inductive invariant, whatever the handlers of one ProxyId do at once.
THEOREM Invariant == Spec => []IInv
  BY InitInv, NextInv, PTL DEF Spec

\* Type correctness; in particular no channel exceeds its capacity.
THEOREM TypeCorrect == Spec => []TypeOK
<1>1. IInv => TypeOK
  BY DEF IInv
<1> QED BY <1>1, Invariant, PTL

\* UpdateConfig never sends on a closed channel (server.go 104-117 against the
\* close of 65 and 145).
THEOREM NeverSendsOnClosed == Spec => []RegisteredOpen
<1>1. IInv => RegisteredOpen
  BY DEF IInv
<1> QED BY <1>1, Invariant, PTL

\* The send of server.go:117 never blocks under s.mu.
THEOREM UpdateNeverBlocks == Spec => []PushNeverBlocks
<1>1. IInv => PushNeverBlocks
  BY DEF IInv
<1> QED BY <1>1, Invariant, PTL

\* An overflowing channel loses old configurations, never the newest.
THEOREM NewestSurvives == Spec => []NewestPending
<1>1. IInv => NewestPending
  BY DEF IInv
<1> QED BY <1>1, Invariant, PTL

\* The server implements the feed: every step publishes the next version,
\* delivers a newer one on one stream, or is invisible.
THEOREM Refinement == Spec => ImplementsFeed
<1>1. Init => Feed!FeedInit
  BY DEF Init, Feed!FeedInit
<1>2. IInv /\ [Next]_vars => [Feed!FeedNext]_Feed!feedVars
  <2> SUFFICES ASSUME IInv, [Next]_vars
               PROVE  Feed!FeedNext \/ UNCHANGED <<version, sent>>
    BY DEF Feed!feedVars
  <2>0. TypeOK /\ ChanInv
    BY DEF IInv
  <2>1. ASSUME NEW s \in Streams, NEW v \in Int, Send(s, v), sent[s] < v, v <= version,
               UNCHANGED version
        PROVE  Feed!FeedNext \/ UNCHANGED <<version, sent>>
    <3>1. CASE ctxDone[s]
      BY <2>1, <3>1 DEF Send
    <3>2. CASE ~ctxDone[s]
      <4>1. sent' = [sent EXCEPT ![s] = v]
        BY <2>1, <3>2 DEF Send
      <4>2. v \in (sent[s] + 1) .. version
        BY <2>0, <2>1, VersionAssumption DEF TypeOK
      <4> QED BY <2>1, <4>1, <4>2 DEF Feed!FeedNext, Feed!Deliver
    <3> QED BY <3>1, <3>2
  <2>2. ASSUME NEW s \in Streams, SendSnapshot(s)
        PROVE  Feed!FeedNext \/ UNCHANGED <<version, sent>>
    <3>1. /\ pc[s] = "snapshot" /\ Send(s, snap[s]) /\ UNCHANGED version
      BY <2>2 DEF SendSnapshot
    <3>2. snap[s] \in Int /\ sent[s] < snap[s] /\ snap[s] <= version
      BY <2>0, <3>1, VersionAssumption DEF TypeOK, ChanInv, StreamInv
    <3> QED BY <2>1, <3>1, <3>2
  <2>3. ASSUME NEW s \in Streams, Receive(s)
        PROVE  Feed!FeedNext \/ UNCHANGED <<version, sent>>
    <3>1. /\ pc[s] = "loop" /\ chan[s] # << >> /\ Send(s, Head(chan[s])) /\ UNCHANGED version
      BY <2>3 DEF Receive
    <3>2. chan[s] \in Seq(Versions) /\ StreamInv(s)
      BY <2>0 DEF TypeOK, Versions, ChanInv
    <3>3. /\ Head(chan[s]) = chan[s][1] /\ Head(chan[s]) \in Versions
          /\ 1 \in 1 .. Len(chan[s])
      BY <3>1, <3>2, TailFacts
    <3>4. sent[s] < chan[s][1] /\ chan[s][1] <= version
      BY <3>1, <3>2, <3>3 DEF StreamInv, Base
    <3>5. Head(chan[s]) \in Int
      BY <3>3, VersionAssumption DEF Versions
    <3> QED BY <2>1, <3>1, <3>3, <3>4, <3>5
  <2>4. CASE UpdateConfig
    BY <2>4 DEF UpdateConfig, handler, Feed!FeedNext, Feed!Publish
  <2>5. ASSUME NEW s \in Streams,
               Connect(s) \/ Disconnect(s) \/ NoticeGone(s) \/ Register(s) \/ Return(s)
                 \/ Cleanup(s) \/ Push(s)
        PROVE  UNCHANGED <<version, sent>>
    BY <2>5 DEF Connect, Disconnect, NoticeGone, Register, Return, Cleanup, Push, handler
  <2>6. CASE Drop \/ SendBlocking \/ Shutdown \/ Exit \/ UNCHANGED vars
    BY <2>6 DEF Drop, SendBlocking, Shutdown, Exit, vars, handler
  <2> QED BY <2>2, <2>3, <2>4, <2>5, <2>6 DEF Next, Handler, Updater
<1> QED BY <1>1, <1>2, Invariant, PTL DEF Spec, ImplementsFeed, Feed!FeedSpec

\* Until Shutdown runs only handlers that are done have closed their channel,
\* also when two handlers share a ProxyId (server.go 61-69).
LEMMA OpenInv == Spec => []OpenWhileRunning
<1>1. Init => OpenWhileRunning
  BY DEF Init, OpenWhileRunning
<1>2. TypeOK /\ OpenWhileRunning /\ [Next]_vars => OpenWhileRunning'
  <2> SUFFICES ASSUME TypeOK, OpenWhileRunning, [Next]_vars, proc' = "running",
                      NEW t \in Streams, closed'[t]
               PROVE  pc'[t] = "done"
    BY DEF OpenWhileRunning
  <2> USE DEF TypeOK, OpenWhileRunning
  <2>1. ASSUME NEW s \in Streams, Connect(s) PROVE pc'[t] = "done"
    BY <2>1 DEF Connect
  <2>2. ASSUME NEW s \in Streams, Disconnect(s) \/ NoticeGone(s) \/ Push(s) PROVE pc'[t] = "done"
    BY <2>2 DEF Disconnect, NoticeGone, Push, handler
  <2>3. ASSUME NEW s \in Streams, Register(s) PROVE pc'[t] = "done"
    BY <2>3 DEF Register, Alive
  <2>4. ASSUME NEW s \in Streams, SendSnapshot(s) PROVE pc'[t] = "done"
    BY <2>4 DEF SendSnapshot, Send
  <2>5. ASSUME NEW s \in Streams, Receive(s) PROVE pc'[t] = "done"
    BY <2>5 DEF Receive, Send
  <2>6. ASSUME NEW s \in Streams, Return(s) PROVE pc'[t] = "done"
    BY <2>6 DEF Return
  <2>7. ASSUME NEW s \in Streams, Cleanup(s) PROVE pc'[t] = "done"
    BY <2>7 DEF Cleanup
  <2>8. CASE UpdateConfig \/ Drop \/ SendBlocking \/ UNCHANGED vars
    BY <2>8 DEF UpdateConfig, Drop, SendBlocking, vars, handler
  <2>9. CASE Shutdown \/ Exit
    BY <2>9 DEF Shutdown, Exit
  <2> QED BY <2>1, <2>2, <2>3, <2>4, <2>5, <2>6, <2>7, <2>8, <2>9 DEF Next, Handler, Updater
<1> QED BY <1>1, <1>2, TypeCorrect, PTL DEF Spec

\* A handler panics only once Shutdown has closed the channels and dropped the
\* table (server.go 139-150): never because of another handler.
THEOREM NoPanicWhileRunning == Spec => PanicsOnlyAfterShutdown
<1>1. OpenWhileRunning /\ [Next]_vars
        => [proc' = "panicked" => proc \in {"stopping", "panicked"}]_vars
  <2> SUFFICES ASSUME OpenWhileRunning, Next, proc' = "panicked"
               PROVE  proc \in {"stopping", "panicked"}
    BY DEF vars
  <2>1. ASSUME NEW s \in Streams, Register(s) PROVE proc \in {"stopping", "panicked"}
    BY <2>1 DEF Register, Alive
  <2>2. ASSUME NEW s \in Streams, Cleanup(s) PROVE proc \in {"stopping", "panicked"}
    BY <2>2 DEF Cleanup, Alive, OpenWhileRunning
  <2>3. ASSUME NEW s \in Streams,
               Connect(s) \/ Disconnect(s) \/ NoticeGone(s) \/ SendSnapshot(s)
                 \/ Receive(s) \/ Return(s) \/ Push(s)
        PROVE  proc \in {"stopping", "panicked"}
    BY <2>3 DEF Connect, Disconnect, NoticeGone, SendSnapshot, Receive, Return, Push
  <2>4. CASE UpdateConfig \/ Drop \/ SendBlocking \/ Shutdown \/ Exit
    BY <2>4 DEF UpdateConfig, Drop, SendBlocking, Shutdown, Exit
  <2> QED BY <2>1, <2>2, <2>3, <2>4 DEF Next, Handler, Updater
<1> QED BY <1>1, OpenInv, PTL DEF Spec, PanicsOnlyAfterShutdown
=============================================================================
