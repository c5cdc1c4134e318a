-------------------------- MODULE SidecarConnProofs --------------------------
(***************************************************************************)
(* For connections of every kind, any number of messages and of attempts:  *)
(* on whichever way a handler of listener.go goes, a backend's counter and *)
(* a target connection are held exactly as long as they are used.          *)
(***************************************************************************)
EXTENDS SidecarConn, TLAPS

\* The parts of the inductive invariant that are about the handler's own state.
Held == NothingLeaks /\ DeferredWhereHeld /\ RouteWhereChosen /\ OncePerAttempt

LEMMA InitIInv == Init => IInv
  <1> SUFFICES ASSUME Init PROVE IInv OBVIOUS
  <1>1. TypeOK
    <2>1. /\ attempt \in 0 .. MaxRetries - 1
          /\ reports \in 0 .. MaxRetries /\ 0 \in Messages
      BY CountAssumption DEF Init, Messages
    <2>2. kind \in Kinds /\ pc \in {"peek", "dial", "detect"}
      BY DEF Init
    <2>3. /\ active \in 0 .. 1 /\ conns \in 0 .. 1
          /\ deferred \in [conn : 0 .. 1, counter : 0 .. 1]
          /\ tGot \in Messages /\ tSent \in Messages
          /\ cSent \in Messages /\ cGot \in Messages
      BY <2>1 DEF Init
    <2> QED BY <2>1, <2>2, <2>3 DEF Init, TypeOK
  <1>2. NothingLeaks /\ DeferredWhereHeld /\ RouteWhereChosen /\ OncePerAttempt
    BY DEF Init, NothingLeaks, DeferredWhereHeld, RouteWhereChosen, OncePerAttempt,
           UsesConn, UsesBackend, Outbound
  <1> QED BY <1>1, <1>2 DEF IInv

-----------------------------------------------------------------------------
(* Client, target and the copying goroutines leave the handler's state      *)
(* alone; what they count stays within what the client has sent.            *)

LEMMA TrafficStep ==
  ASSUME IInv, UNCHANGED handler,
         /\ up' \in {"off", "copy", "done"} /\ down' \in {"off", "copy", "done"}
         /\ cSent' \in Messages /\ cGot' \in Messages
         /\ tGot' \in Messages /\ tSent' \in Messages
         /\ cFin' \in BOOLEAN /\ cEOF' \in BOOLEAN /\ tFin' \in BOOLEAN /\ tEOF' \in BOOLEAN
  PROVE  IInv'
  <1> USE DEF handler, loop, held
  <1>1. TypeOK'
    BY DEF IInv, TypeOK
  <1>2. Held'
    BY DEF IInv, Held, NothingLeaks, DeferredWhereHeld, RouteWhereChosen, OncePerAttempt,
           UsesConn, UsesBackend, Outbound
  <1> QED BY <1>1, <1>2 DEF IInv, Held

LEMMA PeersStep ==
  ASSUME IInv, ClientSends \/ ClientFins \/ TargetReplies \/ TargetFins PROVE IInv'
  <1> USE DEF IInv, TypeOK, copies, client, target
  <1>1. CASE ClientSends
    BY <1>1, CountAssumption, TrafficStep DEF ClientSends, Messages
  <1>2. CASE ClientFins
    BY <1>2, TrafficStep DEF ClientFins
  <1>3. CASE TargetReplies
    BY <1>3, CountAssumption, TrafficStep DEF TargetReplies, Messages
  <1>4. CASE TargetFins
    BY <1>4, TrafficStep DEF TargetFins
  <1> QED BY <1>1, <1>2, <1>3, <1>4

LEMMA CopyStep ==
  ASSUME IInv, CopyingUp \/ CopyingDown PROVE IInv'
  <1> USE DEF IInv, TypeOK, copies, client, target
  <1>1. CASE CopyUp
    BY <1>1, CountAssumption, TrafficStep DEF CopyUp, Messages
  <1>2. CASE EndUp
    BY <1>2, TrafficStep DEF EndUp, TargetHasCloser, Outbound
  <1>3. CASE CopyDown
    BY <1>3, CountAssumption, TrafficStep DEF CopyDown, Messages
  <1>4. CASE EndDown
    BY <1>4, TrafficStep DEF EndDown, ClientHasCloser
  <1> QED BY <1>1, <1>2, <1>3, <1>4 DEF CopyingUp, CopyingDown

-----------------------------------------------------------------------------
(* How a handler goes on *)

\* What the handler releases by hand (conn, counter) and what it has deferred is
\* together what it holds.
AccountsFor(conn, counter) ==
    conns = conn + deferred.conn /\ active = counter + deferred.counter

\* A step of the handler that keeps the types of what it counts.
LEMMA HandlerTypes ==
  ASSUME IInv, kind' = kind,
         pc' \in {"detect", "dial", "peek", "read", "pick", "dialMesh", "forward", "await",
                  "respond", "splice", "done"},
         route' \in {"none", "mesh", "direct", "local"},
         attempt' \in 0 .. MaxRetries - 1, spent' \in BOOLEAN, reports' \in 0 .. MaxRetries,
         active' \in 0 .. 1, conns' \in 0 .. 1,
         deferred' \in [conn : 0 .. 1, counter : 0 .. 1],
         up' \in {"off", "copy", "done"}, down' \in {"off", "copy", "done"},
         cSent' = cSent, cFin' = cFin,
         cGot' \in Messages, tGot' \in Messages, tSent' \in Messages,
         cEOF' \in BOOLEAN, tFin' \in BOOLEAN, tEOF' \in BOOLEAN
  PROVE  TypeOK'
  BY DEF IInv, TypeOK

\* Before it is over, a handler has reported at most once for each attempt that
\* it has given up.
LEMMA StillCounting ==
  ASSUME IInv, pc # "done"
  PROVE  /\ attempt \in 0 .. MaxRetries - 1 /\ reports \in 0 .. attempt
         /\ reports \in 0 .. attempt + 1 /\ reports + 1 \in 0 .. attempt + 1
         /\ attempt + 1 \in 1 .. MaxRetries
  BY CountAssumption DEF IInv, TypeOK, OncePerAttempt

\* A return that accounts for what is held leaves nothing behind.
LEMMA ReturnStep ==
  ASSUME IInv, pc # "done", NEW conn \in 0 .. 1, NEW counter \in 0 .. 1,
         Return(conn, counter), AccountsFor(conn, counter),
         UNCHANGED <<kind, route, attempt, copies>>,
         spent' \in BOOLEAN, reports' \in {reports, reports + 1}
  PROVE  IInv'
  <1>1. reports' \in 0 .. attempt + 1 /\ reports' \in 0 .. MaxRetries
    BY StillCounting, CountAssumption
  <1>2. conns' = 0 /\ active' = 0 /\ deferred' = [conn |-> 0, counter |-> 0]
    <2>1. deferred.conn \in 0 .. 1 /\ deferred.counter \in 0 .. 1
      BY DEF IInv, TypeOK
    <2>2. /\ conns' = conns - conn - deferred.conn
          /\ active' = active - counter - deferred.counter
          /\ deferred' = [conn |-> 0, counter |-> 0]
          /\ conns = conn + deferred.conn /\ active = counter + deferred.counter
      BY DEF Return, AccountsFor
    <2> QED BY <2>1, <2>2
  <1>3. TypeOK'
    <2>1. tEOF' \in BOOLEAN
      BY DEF Return, IInv, TypeOK
    <2>2. /\ active' \in 0 .. 1 /\ conns' \in 0 .. 1
          /\ deferred' \in [conn : 0 .. 1, counter : 0 .. 1]
      BY <1>2
    <2> QED BY <1>1, <2>1, <2>2, HandlerTypes DEF Return, copies, IInv, TypeOK
  <1>4. NothingLeaks' /\ DeferredWhereHeld'
    BY <1>2 DEF Return, NothingLeaks, DeferredWhereHeld, UsesConn, UsesBackend
  <1>5. RouteWhereChosen' /\ OncePerAttempt'
    BY <1>1 DEF IInv, Return, RouteWhereChosen, OncePerAttempt, Outbound
  <1> QED BY <1>3, <1>4, <1>5 DEF IInv

\* Inside the loop nothing is deferred, so the next attempt starts with nothing of
\* the one before exactly if what is released by hand is all there is.
LEMMA TryAgainStep ==
  ASSUME IInv, pc # "done", NEW conn \in 0 .. 1, NEW counter \in 0 .. 1,
         TryAgain(conn, counter), AccountsFor(conn, counter),
         deferred.conn = 0, deferred.counter = 0,
         attempt < MaxRetries - 1, route = "mesh", UNCHANGED <<kind, route, copies>>,
         spent' \in BOOLEAN, reports' \in {reports, reports + 1}
  PROVE  IInv'
  <1>1. /\ reports' \in 0 .. attempt' /\ reports' \in 0 .. MaxRetries
        /\ attempt' \in 0 .. MaxRetries - 1 /\ 0 \in Messages
    BY StillCounting, CountAssumption DEF TryAgain, Messages
  <1>2. conns' = 0 /\ active' = 0 /\ deferred' = deferred
    BY DEF TryAgain, AccountsFor, IInv, TypeOK
  <1>3. TypeOK'
    <2>1. active' \in 0 .. 1 /\ conns' \in 0 .. 1
      BY <1>2
    <2> QED BY <1>1, <1>2, <2>1, HandlerTypes DEF TryAgain, copies, client, IInv, TypeOK
  <1>4. NothingLeaks' /\ DeferredWhereHeld'
    BY <1>2 DEF TryAgain, NothingLeaks, DeferredWhereHeld, UsesConn, UsesBackend, Outbound,
                IInv, RouteWhereChosen
  <1>5. RouteWhereChosen' /\ OncePerAttempt'
    BY <1>1 DEF IInv, TryAgain, RouteWhereChosen, OncePerAttempt, Outbound
  <1> QED BY <1>3, <1>4, <1>5 DEF IInv

LEMMA NextAttemptStep ==
  ASSUME IInv, pc # "done", NEW conn \in 0 .. 1, NEW counter \in 0 .. 1,
         NextAttempt(conn, counter), AccountsFor(conn, counter),
         deferred.conn = 0, deferred.counter = 0,
         route = "mesh", UNCHANGED <<kind, route, copies>>,
         spent' \in BOOLEAN, reports' \in {reports, reports + 1}
  PROVE  IInv'
  <1>1. CASE TryAgain(conn, counter) /\ attempt < MaxRetries - 1
    BY <1>1, TryAgainStep
  <1>2. CASE Return(conn, counter) /\ UNCHANGED attempt
    BY <1>2, ReturnStep
  <1> QED BY <1>1, <1>2 DEF NextAttempt

\* Away from the mesh route everything that is held has been deferred.
LEMMA QuietReturnStep ==
  ASSUME IInv, pc # "done", Return(0, 0),
         route # "mesh" \/ pc \in {"respond", "splice"},
         UNCHANGED <<kind, route, attempt, reports, copies>>, spent' \in BOOLEAN
  PROVE  IInv'
  <1>1. AccountsFor(0, 0)
    BY DEF IInv, TypeOK, AccountsFor, NothingLeaks, DeferredWhereHeld, RouteWhereChosen,
           UsesConn, UsesBackend
  <1> QED BY <1>1, ReturnStep

\* A write or read that fails closes, by hand, what the mesh route has not yet
\* deferred.
LEMMA ExchangeFails ==
  ASSUME IInv, pc \in {"forward", "await"},
         IF route = "mesh" THEN AttemptFails(1, 1) ELSE GiveUp,
         UNCHANGED <<kind, route, copies>>, spent' \in BOOLEAN
  PROVE  IInv'
  <1>1. CASE route = "mesh" /\ AttemptFails(1, 1)
    <2>1. AccountsFor(1, 1) /\ deferred.conn = 0 /\ deferred.counter = 0
      BY <1>1 DEF IInv, AccountsFor, NothingLeaks, DeferredWhereHeld, UsesConn, UsesBackend
    <2> QED BY <1>1, <2>1, NextAttemptStep DEF AttemptFails
  <1>2. CASE route # "mesh" /\ GiveUp
    BY <1>2, QuietReturnStep DEF GiveUp
  <1> QED BY <1>1, <1>2

-----------------------------------------------------------------------------
(* The handler, action by action.  Each lemma's first facts say where the     *)
(* step starts and what is held there.                                        *)

LEMMA DetectStep ==
  ASSUME IInv, Detect, UNCHANGED kind PROVE IInv'
  <1>0. pc = "detect" /\ route = "none" /\ ~Outbound /\ UNCHANGED <<route, loop, copies>>
    BY DEF Detect, IInv, RouteWhereChosen
  <1>1. CASE Return(0, 0)
    BY <1>0, <1>1, QuietReturnStep DEF loop, IInv, TypeOK
  <1>2. CASE pc' = "dial" /\ UNCHANGED <<held, client, target>>
    <2>1. TypeOK'
      BY <1>0, <1>2, HandlerTypes DEF IInv, TypeOK, loop, held, copies, client, target
    <2>2. Held'
      BY <1>0, <1>2 DEF IInv, Held, NothingLeaks, DeferredWhereHeld, RouteWhereChosen,
             OncePerAttempt, UsesConn, UsesBackend, Outbound, loop, held
    <2> QED BY <2>1, <2>2 DEF IInv, Held
  <1> QED BY <1>1, <1>2 DEF Detect

\* Opening a connection and deferring its Close.
LEMMA OpenStep ==
  ASSUME IInv, conns = 0, deferred.conn = 0, OpenDeferred
  PROVE  /\ conns' = 1 /\ active' = active
         /\ deferred'.conn = 1 /\ deferred'.counter = deferred.counter
         /\ conns' \in 0 .. 1 /\ active' \in 0 .. 1
         /\ deferred' \in [conn : 0 .. 1, counter : 0 .. 1]
  BY DEF OpenDeferred, IInv, TypeOK

LEMMA DialLocalStep ==
  ASSUME IInv, DialLocal, UNCHANGED kind PROVE IInv'
  <1>0. pc = "dial" /\ route = "none" /\ ~Outbound /\ UNCHANGED <<route, loop, copies>>
    BY DEF DialLocal, IInv, RouteWhereChosen
  <1>1. CASE Return(0, 0)
    BY <1>0, <1>1, QuietReturnStep DEF loop, IInv, TypeOK
  <1>2. CASE pc' = "peek" /\ OpenDeferred /\ UNCHANGED <<client, target>>
    <2>0. conns = 0 /\ active = 0 /\ deferred.conn = 0 /\ deferred.counter = 0
      BY <1>0 DEF IInv, NothingLeaks, DeferredWhereHeld, UsesConn, UsesBackend
    <2>1. TypeOK'
      BY <1>0, <1>2, <2>0, OpenStep, HandlerTypes
         DEF IInv, TypeOK, loop, copies, client, target
    <2>2. Held'
      BY <1>0, <1>2, <2>0, OpenStep DEF IInv, Held, NothingLeaks, DeferredWhereHeld,
             RouteWhereChosen, OncePerAttempt, UsesConn, UsesBackend, Outbound, loop
    <2> QED BY <2>1, <2>2 DEF IInv, Held
  <1> QED BY <1>1, <1>2 DEF DialLocal

LEMMA PeekAndDetectStep ==
  ASSUME IInv, PeekAndDetect, UNCHANGED kind PROVE IInv'
  <1>0. /\ pc = "peek" /\ route = "none" /\ UNCHANGED <<route, loop>>
        /\ active = 0 /\ deferred.counter = 0
        /\ Outbound => conns = 0 /\ deferred.conn = 0
        /\ ~Outbound => conns = 1 /\ deferred.conn = 1
    BY DEF IInv, NothingLeaks, DeferredWhereHeld, RouteWhereChosen, UsesConn, UsesBackend,
           PeekAndDetect
  <1>1. CASE pc' = "read" /\ UNCHANGED <<held, copies, client, target>>
    <2>1. TypeOK'
      BY <1>0, <1>1, HandlerTypes DEF IInv, TypeOK, loop, held, copies, client, target
    <2>2. Held'
      BY <1>0, <1>1 DEF IInv, Held, NothingLeaks, DeferredWhereHeld, RouteWhereChosen,
             OncePerAttempt, UsesConn, UsesBackend, Outbound, loop, held
    <2> QED BY <2>1, <2>2 DEF IInv, Held
  <1>2. CASE /\ Splice
             /\ IF Outbound THEN OpenDeferred ELSE UNCHANGED held
             /\ UNCHANGED <<client, target>>
    <2>0. /\ conns' = 1 /\ active' = 0 /\ deferred'.conn = 1 /\ deferred'.counter = 0
          /\ deferred' \in [conn : 0 .. 1, counter : 0 .. 1]
      BY <1>0, <1>2, OpenStep DEF IInv, TypeOK, held
    <2>1. TypeOK'
      <3>1. conns' \in 0 .. 1 /\ active' \in 0 .. 1
        BY <2>0
      <3> QED BY <1>0, <1>2, <2>0, <3>1, HandlerTypes
          DEF IInv, TypeOK, Splice, loop, client, target
    <2>2. Held'
      BY <1>0, <1>2, <2>0 DEF IInv, Held, NothingLeaks, DeferredWhereHeld, RouteWhereChosen,
             OncePerAttempt, UsesConn, UsesBackend, Outbound, Splice, loop
    <2> QED BY <2>1, <2>2 DEF IInv, Held
  <1>3. CASE Return(0, 0) /\ UNCHANGED copies
    BY <1>0, <1>3, QuietReturnStep DEF loop, IInv, TypeOK
  <1> QED BY <1>1, <1>2, <1>3 DEF PeekAndDetect

LEMMA ReadRequestStep ==
  ASSUME IInv, ReadRequest, UNCHANGED kind PROVE IInv'
  <1>0. /\ pc = "read" /\ route = "none" /\ UNCHANGED <<loop, copies>>
        /\ active = 0 /\ deferred.counter = 0
        /\ Outbound => conns = 0 /\ deferred.conn = 0
        /\ ~Outbound => conns = 1 /\ deferred.conn = 1
    BY DEF IInv, NothingLeaks, DeferredWhereHeld, RouteWhereChosen, UsesConn, UsesBackend,
           ReadRequest
  <1>1. CASE /\ Outbound
             /\ route' = "mesh" /\ pc' = "pick"
             /\ UNCHANGED <<held, client, target>>
    <2>1. TypeOK'
      BY <1>0, <1>1, HandlerTypes DEF IInv, TypeOK, loop, held, copies, client, target
    <2>2. Held'
      BY <1>0, <1>1 DEF IInv, Held, NothingLeaks, DeferredWhereHeld, RouteWhereChosen,
             OncePerAttempt, UsesConn, UsesBackend, Outbound, loop, held
    <2> QED BY <2>1, <2>2 DEF IInv, Held
  <1>2. CASE /\ route' \in {"direct", "local"} /\ pc' = "forward"
             /\ (Outbound /\ OpenDeferred) \/ (~Outbound /\ UNCHANGED held)
             /\ UNCHANGED <<client, target>>
    <2>0. /\ conns' = 1 /\ active' = 0 /\ deferred'.conn = 1 /\ deferred'.counter = 0
          /\ deferred' \in [conn : 0 .. 1, counter : 0 .. 1]
      BY <1>0, <1>2, OpenStep DEF IInv, TypeOK, held
    <2>1. TypeOK'
      <3>1. conns' \in 0 .. 1 /\ active' \in 0 .. 1
        BY <2>0
      <3> QED BY <1>0, <1>2, <2>0, <3>1, HandlerTypes
          DEF IInv, TypeOK, loop, copies, client, target
    <2>2. Held'
      BY <1>0, <1>2, <2>0 DEF IInv, Held, NothingLeaks, DeferredWhereHeld, RouteWhereChosen,
             OncePerAttempt, UsesConn, UsesBackend, Outbound, loop
    <2> QED BY <2>1, <2>2 DEF IInv, Held
  <1>3. CASE Return(0, 0) /\ UNCHANGED route
    BY <1>0, <1>3, QuietReturnStep DEF loop, IInv, TypeOK
  <1> QED BY <1>1, <1>2, <1>3 DEF ReadRequest

LEMMA PickBackendStep ==
  ASSUME IInv, PickBackend, UNCHANGED kind PROVE IInv'
  <1>0. /\ pc = "pick" /\ route = "mesh" /\ Outbound
        /\ UNCHANGED <<route, spent, reports, copies>>
        /\ active = 0 /\ conns = 0 /\ deferred.conn = 0 /\ deferred.counter = 0
    BY DEF IInv, NothingLeaks, DeferredWhereHeld, RouteWhereChosen, UsesConn, UsesBackend,
           PickBackend
  <1>1. CASE /\ pc' = "dialMesh" /\ active' = active + 1
             /\ UNCHANGED <<attempt, conns, deferred, client, target>>
    <2>0. active' = 1 /\ active' \in 0 .. 1
      BY <1>0, <1>1
    <2>1. TypeOK'
      BY <1>0, <1>1, <2>0, HandlerTypes DEF IInv, TypeOK, copies, client, target
    <2>2. Held'
      BY <1>0, <1>1, <2>0 DEF IInv, Held, NothingLeaks, DeferredWhereHeld, RouteWhereChosen,
             OncePerAttempt, UsesConn, UsesBackend, Outbound
    <2> QED BY <2>1, <2>2 DEF IInv, Held
  <1>2. CASE NextAttempt(0, 0)
    BY <1>0, <1>2, NextAttemptStep DEF AccountsFor, IInv, TypeOK
  <1> QED BY <1>1, <1>2 DEF PickBackend

LEMMA DialBackendStep ==
  ASSUME IInv, DialBackend, UNCHANGED kind PROVE IInv'
  <1>0. /\ pc = "dialMesh" /\ route = "mesh" /\ Outbound /\ UNCHANGED <<route, spent, copies>>
        /\ active = 1 /\ conns = 0 /\ deferred.conn = 0 /\ deferred.counter = 0
    BY DEF IInv, NothingLeaks, DeferredWhereHeld, RouteWhereChosen, UsesConn, UsesBackend,
           DialBackend
  <1>1. CASE /\ pc' = "forward" /\ conns' = conns + 1
             /\ UNCHANGED <<attempt, reports, active, deferred, client, target>>
    <2>0. conns' = 1 /\ conns' \in 0 .. 1
      BY <1>0, <1>1
    <2>1. TypeOK'
      BY <1>0, <1>1, <2>0, HandlerTypes DEF IInv, TypeOK, copies, client, target
    <2>2. Held'
      BY <1>0, <1>1, <2>0 DEF IInv, Held, NothingLeaks, DeferredWhereHeld, RouteWhereChosen,
             OncePerAttempt, UsesConn, UsesBackend, Outbound
    <2> QED BY <2>1, <2>2 DEF IInv, Held
  <1>2. CASE AttemptFails(0, 1)
    BY <1>0, <1>2, NextAttemptStep DEF AttemptFails, AccountsFor, IInv, TypeOK
  <1> QED BY <1>1, <1>2 DEF DialBackend

LEMMA ForwardRequestStep ==
  ASSUME IInv, ForwardRequest, UNCHANGED kind PROVE IInv'
  <1>0. pc = "forward" /\ spent' = TRUE /\ UNCHANGED <<route, copies>>
    BY DEF ForwardRequest
  <1>1. CASE /\ pc' = "await" /\ tGot' = cSent
             /\ UNCHANGED <<attempt, reports, held, client, tSent, tFin, tEOF>>
    <2>1. TypeOK'
      BY <1>0, <1>1, HandlerTypes DEF IInv, TypeOK, held, copies, client
    <2>2. Held'
      BY <1>0, <1>1 DEF IInv, Held, NothingLeaks, DeferredWhereHeld, RouteWhereChosen,
             OncePerAttempt, UsesConn, UsesBackend, Outbound, held
    <2> QED BY <2>1, <2>2 DEF IInv, Held
  <1>2. CASE WriteFails
    BY <1>0, <1>2, ExchangeFails DEF WriteFails
  <1> QED BY <1>1, <1>2 DEF ForwardRequest

LEMMA ReadResponseStep ==
  ASSUME IInv, ReadResponse, UNCHANGED kind PROVE IInv'
  <1>0. pc = "await" /\ UNCHANGED <<route, spent, copies>>
    BY DEF ReadResponse
  <1>1. CASE /\ pc' = "respond"
             /\ deferred' = IF route = "mesh" THEN [conn |-> 1, counter |-> 1] ELSE deferred
             /\ UNCHANGED <<attempt, reports, active, conns, client, target>>
    <2>0. deferred' \in [conn : 0 .. 1, counter : 0 .. 1]
      BY <1>1 DEF IInv, TypeOK
    <2>1. TypeOK'
      BY <1>0, <1>1, <2>0, HandlerTypes DEF IInv, TypeOK, copies, client, target
    <2>2. Held'
      BY <1>0, <1>1 DEF IInv, Held, NothingLeaks, DeferredWhereHeld, RouteWhereChosen,
             OncePerAttempt, UsesConn, UsesBackend, Outbound
    <2> QED BY <2>1, <2>2 DEF IInv, Held
  <1>2. CASE ReadFails
    BY <1>0, <1>2, ExchangeFails DEF ReadFails, IInv, TypeOK
  <1> QED BY <1>1, <1>2 DEF ReadResponse

LEMMA WriteResponseStep ==
  ASSUME IInv, WriteResponse, UNCHANGED kind PROVE IInv'
  <1>0. pc = "respond" /\ UNCHANGED <<route, loop>>
    BY DEF WriteResponse
  <1>1. CASE /\ Splice /\ cGot' = tSent
             /\ UNCHANGED <<held, cSent, cFin, cEOF, target>>
    <2>1. TypeOK'
      BY <1>0, <1>1, HandlerTypes DEF IInv, TypeOK, Splice, loop, held, target
    <2>2. Held'
      BY <1>0, <1>1 DEF IInv, Held, NothingLeaks, DeferredWhereHeld, RouteWhereChosen,
             OncePerAttempt, UsesConn, UsesBackend, Outbound, Splice, loop, held
    <2> QED BY <2>1, <2>2 DEF IInv, Held
  <1>2. CASE Return(0, 0) /\ UNCHANGED copies
    BY <1>0, <1>2, QuietReturnStep DEF loop, IInv, TypeOK
  <1> QED BY <1>1, <1>2 DEF WriteResponse

LEMMA EndSpliceStep ==
  ASSUME IInv, EndSplice, UNCHANGED kind PROVE IInv'
  BY QuietReturnStep DEF EndSplice, loop, IInv, TypeOK

-----------------------------------------------------------------------------
LEMMA StepIInv == IInv /\ [Next]_vars => IInv'
  <1> SUFFICES ASSUME IInv, [Next]_vars PROVE IInv' OBVIOUS
  <1>1. CASE UNCHANGED vars
    BY <1>1, TrafficStep DEF vars, IInv, TypeOK, copies, client, target
  <1>2. CASE Handle
    BY <1>2, DetectStep, DialLocalStep, PeekAndDetectStep, ReadRequestStep, PickBackendStep,
       DialBackendStep, ForwardRequestStep, ReadResponseStep, WriteResponseStep, EndSpliceStep
       DEF Handle
  <1> QED BY <1>1, <1>2, PeersStep, CopyStep DEF Next

LEMMA InductiveInvariant == Spec => []IInv
  BY InitIInv, StepIInv, PTL DEF Spec

\* The retry loop never makes more attempts than it may and never reports more
\* often than it has attempts; no release is made twice (listener.go).
THEOREM TypeCorrect == Spec => []TypeOK
  <1>1. IInv => TypeOK
    BY DEF IInv
  <1> QED BY <1>1, InductiveInvariant, PTL

\* On every way through the handlers, retries included, the releases by hand and
\* the deferred ones add up: a counter and a connection are held exactly as long
\* as they are used.
THEOREM HandlersLeakNothing == Spec => []NothingLeaks
  <1>1. IInv => NothingLeaks
    BY DEF IInv
  <1> QED BY <1>1, InductiveInvariant, PTL
=============================================================================
