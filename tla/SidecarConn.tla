----------------------------- MODULE SidecarConn -----------------------------
(***************************************************************************)
(* One connection through a sidecar (pkg/proxy/listener.go): the outbound  *)
(* handler with its protocol detection, VIP lookup and retry loop, the     *)
(* inbound handler with and without mTLS, and proxyBidirectional, whose    *)
(* two copying goroutines splice what is left of the connection.           *)
(*                                                                         *)
(* A message is a request or a reply.  The client sends one and waits for  *)
(* its reply before the next; it may stop sending (FIN) at any time.  The  *)
(* target answers what it gets, may close at any time, and closes after it *)
(* has seen end of file.  tGot and tSent are of the target in use.         *)
(***************************************************************************)
EXTENDS Integers

CONSTANTS
    Kinds,        \* the kinds of connection to consider, see below
    MaxMessages,  \* bound: messages of the client
    MaxRetries    \* 3: attempts of the outbound handler

\* Which handler, and for inbound how the client connects; what the client
\* speaks; whether its first flight has fewer than 24 bytes; whether its HTTP
\* request carries a body.
Kind == [path : {"outbound", "inbound", "permissivePlain", "permissiveTLS"},
         proto : {"HTTP", "RAW"}, short : BOOLEAN, body : BOOLEAN]

ASSUME KindsAssumption == Kinds \subseteq Kind
ASSUME CountAssumption == MaxMessages \in Nat /\ MaxRetries \in Nat \ {0}

VARIABLES
    kind,
    pc,           \* the handler
    route,        \* where an HTTP request goes: "mesh", "direct" or "local"
    attempt,
    spent,        \* req.Write has read the request's body and closed it
    reports,      \* UpdateBackendStatus(..., false) calls of this request
    active,       \* what the handler has added to ActiveRequest of its backends
    conns,        \* target connections this handler has open
    deferred,     \* the deferred calls: targetConn.Close, DecrementActiveRequests
    up, down,     \* the copying goroutines: client to target and back
    cSent, cGot, cFin, cEOF,   \* the client, and whether it sees end of file
    tGot, tSent, tFin, tEOF    \* the target, likewise

loop == <<attempt, spent, reports>>
held == <<active, conns, deferred>>
handler == <<kind, pc, route, loop, held>>
copies == <<up, down>>
client == <<cSent, cGot, cFin, cEOF>>
target == <<tGot, tSent, tFin, tEOF>>
vars == <<handler, copies, client, target>>

Outbound == kind.path = "outbound"
Messages == 0 .. MaxMessages

TypeOK ==
    /\ kind \in Kinds
    /\ pc \in {"detect", "dial", "peek", "read", "pick", "dialMesh", "forward", "await",
               "respond", "splice", "done"}
    /\ route \in {"none", "mesh", "direct", "local"}
    /\ attempt \in 0 .. MaxRetries - 1 /\ spent \in BOOLEAN
    /\ reports \in 0 .. MaxRetries
    /\ active \in 0 .. 1 /\ conns \in 0 .. 1
    /\ deferred \in [conn : 0 .. 1, counter : 0 .. 1]
    /\ up \in {"off", "copy", "done"} /\ down \in {"off", "copy", "done"}
    /\ cSent \in Messages /\ cGot \in Messages /\ tGot \in Messages /\ tSent \in Messages
    /\ cFin \in BOOLEAN /\ cEOF \in BOOLEAN /\ tFin \in BOOLEAN /\ tEOF \in BOOLEAN

\* The connection has been accepted.
Init ==
    /\ kind \in Kinds
    /\ pc = IF Outbound THEN "peek" ELSE IF kind.path = "inbound" THEN "dial" ELSE "detect"
    /\ route = "none" /\ active = 0 /\ conns = 0 /\ deferred = [conn |-> 0, counter |-> 0]
    /\ attempt = 0 /\ spent = FALSE /\ reports = 0
    /\ up = "off" /\ down = "off"
    /\ cSent = 0 /\ cGot = 0 /\ cFin = FALSE /\ cEOF = FALSE
    /\ tGot = 0 /\ tSent = 0 /\ tFin = FALSE /\ tEOF = FALSE

-----------------------------------------------------------------------------
(* Client and target *)

ClientSends ==
    /\ cSent < MaxMessages /\ cSent = cGot
    /\ ~cFin /\ ~cEOF
    /\ cSent' = cSent + 1
    /\ UNCHANGED <<handler, copies, cGot, cFin, cEOF, target>>

ClientFins ==
    /\ ~cFin
    /\ cFin' = TRUE
    /\ UNCHANGED <<handler, copies, cSent, cGot, cEOF, target>>

TargetReplies ==
    /\ tSent < tGot /\ ~tFin
    /\ tSent' = tSent + 1
    /\ UNCHANGED <<handler, copies, client, tGot, tFin, tEOF>>

TargetFins ==
    /\ conns = 1 /\ ~tFin
    /\ tFin' = TRUE
    /\ UNCHANGED <<handler, copies, client, tGot, tSent, tEOF>>

-----------------------------------------------------------------------------
(* How a handler goes on or ends *)

\* The handler returns: what it closes (conn) and gives back (counter) by hand
\* first, then what it has deferred.  The client's connection is always closed.
Return(conn, counter) ==
    /\ pc' = "done"
    /\ conns' = conns - conn - deferred.conn
    /\ active' = active - counter - deferred.counter
    /\ deferred' = [conn |-> 0, counter |-> 0]
    /\ cEOF' = TRUE
    /\ tEOF' = (tEOF \/ conns' = 0)
    /\ UNCHANGED <<cSent, cGot, cFin, tGot, tSent, tFin>>

\* `continue`: the next attempt, with another target.
TryAgain(conn, counter) ==
    /\ pc' = "pick"
    /\ attempt' = attempt + 1
    /\ conns' = conns - conn
    /\ active' = active - counter
    /\ tGot' = 0 /\ tSent' = 0 /\ tFin' = FALSE /\ tEOF' = FALSE
    /\ UNCHANGED <<deferred, client>>

\* Mutant: the loop tries once too often.
NextAttemptOnceMore(conn, counter) ==
    IF attempt < MaxRetries
      THEN TryAgain(conn, counter)
      ELSE Return(conn, counter) /\ UNCHANGED attempt

\* An attempt of the retry loop has failed.
NextAttempt(conn, counter) ==
    IF attempt < MaxRetries - 1
      THEN TryAgain(conn, counter)
      ELSE Return(conn, counter) /\ UNCHANGED attempt

\* It has failed with a backend chosen, which is reported.
AttemptFails(conn, counter) ==
    /\ reports' = reports + 1
    /\ NextAttempt(conn, counter)

\* The routes without a loop leave everything to their deferred calls.
GiveUp == Return(0, 0) /\ UNCHANGED <<attempt, reports>>

-----------------------------------------------------------------------------
(* handleInboundWithDetection: one byte within 5 s, then mTLS or plain *)

\* Over mTLS the byte and the handshake are the ClientHello's: the client has yet
\* to send its first request.
Detect ==
    /\ pc = "detect"
    /\ \/ /\ kind.path = "permissiveTLS" \/ cSent > 0
          /\ pc' = "dial"
          /\ UNCHANGED <<held, client, target>>
       \/ Return(0, 0)   \* nothing in time, or the handshake fails
    /\ UNCHANGED <<route, loop, copies>>

\* The target of a route without a loop is dialled and its Close deferred.
OpenDeferred ==
    /\ conns' = conns + 1
    /\ deferred' = [deferred EXCEPT !.conn = 1]
    /\ UNCHANGED active

\* The inbound handler dials the local application before it reads anything.
DialLocal ==
    /\ pc = "dial"
    /\ \/ pc' = "peek" /\ OpenDeferred /\ UNCHANGED <<client, target>>
       \/ Return(0, 0)
    /\ UNCHANGED <<route, loop, copies>>

\* Mutant: the outbound peek has no deadline either.
PeekReturnsNoDeadline == cFin \/ (cSent > 0 /\ ~kind.short)

\* Peek(24) waits for 24 bytes, for end of file, or (outbound) 2 seconds.
PeekReturns == Outbound \/ cFin \/ (cSent > 0 /\ ~kind.short)
DetectedHTTP == kind.proto = "HTTP" /\ cSent > 0

Splice == pc' = "splice" /\ up' = "copy" /\ down' = "copy"

\* detectProtocol.  What is not HTTP is spliced to the original destination.
PeekAndDetect ==
    /\ pc = "peek" /\ PeekReturns
    /\ \/ /\ DetectedHTTP
          /\ pc' = "read"
          /\ UNCHANGED <<held, copies, client, target>>
       \/ /\ ~DetectedHTTP
          /\ Splice
          /\ IF Outbound THEN OpenDeferred ELSE UNCHANGED held
          /\ UNCHANGED <<client, target>>
       \/ /\ ~DetectedHTTP /\ Outbound   \* the dial fails
          /\ Return(0, 0)
          /\ UNCHANGED copies
    /\ UNCHANGED <<route, loop>>

-----------------------------------------------------------------------------
(* The HTTP case *)

\* http.ReadRequest, and FindServiceByVIP when outbound.  An address that is no
\* VIP of the mesh is dialled directly.
ReadRequest ==
    /\ pc = "read"
    /\ \/ /\ Outbound
          /\ route' = "mesh" /\ pc' = "pick"
          /\ UNCHANGED <<held, client, target>>
       \/ /\ Outbound
          /\ route' = "direct" /\ pc' = "forward"
          /\ OpenDeferred
          /\ UNCHANGED <<client, target>>
       \/ /\ ~Outbound
          /\ route' = "local" /\ pc' = "forward"
          /\ UNCHANGED <<held, client, target>>
       \/ Return(0, 0) /\ UNCHANGED route
    /\ UNCHANGED <<loop, copies>>

\* D1: GetNextPeer, then IncrementActiveRequests.  No backend: no report.
PickBackend ==
    /\ pc = "pick"
    /\ \/ /\ pc' = "dialMesh" /\ active' = active + 1
          /\ UNCHANGED <<attempt, conns, deferred, client, target>>
       \/ NextAttempt(0, 0)
    /\ UNCHANGED <<route, spent, reports, copies>>

\* D2: dial, over TLS when mTLS is on.
DialBackend ==
    /\ pc = "dialMesh"
    /\ \/ /\ pc' = "forward" /\ conns' = conns + 1
          /\ UNCHANGED <<attempt, reports, active, deferred, client, target>>
       \/ AttemptFails(0, 1)
    /\ UNCHANGED <<route, spent, copies>>

\* req.Write reads and closes the request's body: in a second call the body
\* reads as an error, whatever the new target does.
CannotResend == kind.body /\ spent

\* req.Write fails.
WriteFails == IF route = "mesh" THEN AttemptFails(1, 1) ELSE GiveUp

\* D3: req.Write.
ForwardRequest ==
    /\ pc = "forward"
    /\ \/ /\ ~CannotResend
          /\ pc' = "await" /\ tGot' = cSent
          /\ UNCHANGED <<attempt, reports, held, client, tSent, tFin, tEOF>>
       \/ WriteFails
    /\ spent' = TRUE
    /\ UNCHANGED <<route, copies>>

\* Mutant: a failed read leaves the attempt's connection open.
ReadFailsKeepsConn == IF route = "mesh" THEN AttemptFails(0, 1) ELSE GiveUp

\* http.ReadResponse fails.
ReadFails == IF route = "mesh" THEN AttemptFails(1, 1) ELSE GiveUp

\* D4: http.ReadResponse has no deadline; it fails when the target closes.  Only
\* now does the mesh route defer its two releases.
ReadResponse ==
    /\ pc = "await"
    /\ \/ /\ tSent = tGot
          /\ pc' = "respond"
          /\ deferred' = IF route = "mesh" THEN [conn |-> 1, counter |-> 1] ELSE deferred
          /\ UNCHANGED <<attempt, reports, active, conns, client, target>>
       \/ tFin /\ tSent < tGot /\ ReadFails
    /\ UNCHANGED <<route, spent, copies>>

\* E: resp.Write; then the handler returns (probe paths, Connection: close, the
\* direct route, a client that is gone) or splices for keep-alive.
WriteResponse ==
    /\ pc = "respond"
    /\ \/ /\ route # "direct"
          /\ Splice
          /\ cGot' = tSent
          /\ UNCHANGED <<held, cSent, cFin, cEOF, target>>
       \/ Return(0, 0) /\ UNCHANGED copies
    /\ UNCHANGED <<route, loop>>

-----------------------------------------------------------------------------
(* proxyBidirectional *)

\* readWriter.CloseWrite does nothing without a conn: the inbound default case
\* sets none for the target, and a replayConn is no closer for the client.
TargetHasCloser == Outbound \/ route = "local"
ClientHasCloser == kind.path # "permissivePlain"

CopyUp ==
    /\ pc = "splice" /\ up = "copy"
    /\ tGot < cSent /\ ~tFin
    /\ tGot' = tGot + 1
    /\ UNCHANGED <<handler, copies, client, tSent, tFin, tEOF>>

\* Mutant: the goroutine ends without closing its write end.
EndUpNoClose ==
    /\ pc = "splice" /\ up = "copy"
    /\ (cFin /\ tGot = cSent) \/ (tFin /\ tGot < cSent)
    /\ up' = "done"
    /\ UNCHANGED <<handler, down, client, target>>

\* End of file from the client, or a write to a target that is gone.
EndUp ==
    /\ pc = "splice" /\ up = "copy"
    /\ (cFin /\ tGot = cSent) \/ (tFin /\ tGot < cSent)
    /\ up' = "done"
    /\ tEOF' = (tEOF \/ TargetHasCloser)
    /\ UNCHANGED <<handler, down, client, tGot, tSent, tFin>>

CopyDown ==
    /\ pc = "splice" /\ down = "copy"
    /\ cGot < tSent
    /\ cGot' = cGot + 1
    /\ UNCHANGED <<handler, copies, cSent, cFin, cEOF, target>>

EndDown ==
    /\ pc = "splice" /\ down = "copy"
    /\ tFin /\ cGot = tSent
    /\ down' = "done"
    /\ cEOF' = (cEOF \/ ClientHasCloser)
    /\ UNCHANGED <<handler, up, cSent, cGot, cFin, target>>

\* Both have reported on `done`.
EndSplice ==
    /\ pc = "splice" /\ up = "done" /\ down = "done"
    /\ Return(0, 0)
    /\ UNCHANGED <<route, loop, copies>>

Handle == /\ \/ Detect \/ DialLocal \/ PeekAndDetect \/ ReadRequest \/ PickBackend
             \/ DialBackend \/ ForwardRequest \/ ReadResponse \/ WriteResponse \/ EndSplice
          /\ UNCHANGED kind
CopyingUp == CopyUp \/ EndUp
CopyingDown == CopyDown \/ EndDown

Next == \/ ClientSends \/ ClientFins \/ TargetReplies \/ TargetFins
        \/ Handle \/ CopyingUp \/ CopyingDown

Spec == Init /\ [][Next]_vars

\* The handler's goroutines run; the target answers, and closes once it has
\* seen end of file; a client whose connection is over closes its side.
\* Nothing makes a client send or stop sending, or a target close early.
Fairness ==
    /\ WF_vars(Handle) /\ WF_vars(CopyingUp) /\ WF_vars(CopyingDown)
    /\ WF_vars(TargetReplies) /\ WF_vars(tEOF /\ TargetFins) /\ WF_vars(cEOF /\ ClientFins)
FairSpec == Spec /\ Fairness

-----------------------------------------------------------------------------
(* Safety *)

\* Where the handler uses a target connection, and where a backend's counter.
UsesConn == \/ pc \in {"forward", "await", "respond", "splice"}
            \/ pc \in {"peek", "read"} /\ ~Outbound
UsesBackend == route = "mesh" /\ pc \in {"dialMesh", "forward", "await", "respond", "splice"}

\* Whichever way the handler takes (no backend, a failed dial, write or read, a
\* client that is gone, the end of the splice; releases by hand, by defer or
\* both), a backend's counter and a target connection are held exactly as long
\* as they are used.  A counter that is never given back keeps a removed backend
\* from draining; one given back twice, or early, lets it drain under a request.
NothingLeaks ==
    /\ active = IF UsesBackend THEN 1 ELSE 0
    /\ conns = IF UsesConn THEN 1 ELSE 0

\* What makes NothingLeaks inductive: which releases are deferred where.
DeferredWhereHeld ==
    /\ deferred.conn = IF UsesConn /\ ~(route = "mesh" /\ pc \in {"forward", "await"})
                         THEN 1 ELSE 0
    /\ deferred.counter = IF route = "mesh" /\ pc \in {"respond", "splice"} THEN 1 ELSE 0

\* Which routes the handlers' places belong to.
RouteWhereChosen ==
    /\ pc \in {"detect", "dial"} => ~Outbound
    /\ pc \in {"detect", "dial", "peek", "read"} => route = "none"
    /\ pc \in {"pick", "dialMesh"} => route = "mesh"
    /\ route = "mesh" => Outbound

\* What makes TypeOK inductive: an attempt is reported once.
OncePerAttempt == reports <= IF pc = "done" THEN attempt + 1 ELSE attempt

IInv == TypeOK /\ NothingLeaks /\ DeferredWhereHeld /\ RouteWhereChosen /\ OncePerAttempt

-----------------------------------------------------------------------------
(* Liveness *)

\* listener.go:1085 "Each goroutine half-closes its write end when done so the
\* other side receives EOF and can exit cleanly, avoiding deadlocks": either
\* side's end of file ends the connection.
EOFEndsConnection == pc = "splice" /\ (cFin \/ tFin) ~> pc = "done"

\* The same where both readWriters have a conn: connections that leave, and
\* those that came in with a request.
EOFEndsServed ==
    pc = "splice" /\ (Outbound \/ route = "local") /\ (cFin \/ tFin) ~> pc = "done"

\* listener.go:763 "the peeked startup bytes are still in the buffer and must
\* reach the upstream server": what the client has sent arrives, or the
\* handler gives the connection up.
PeekedBytesArrive == cSent > 0 ~> tGot > 0 \/ pc = "done"
=============================================================================
