---------------------------- MODULE MCSidecarConn ----------------------------
(* SidecarConn for TLC: the kinds of connection a run considers.            *)
EXTENDS SidecarConn

\* Whatever leaves through the sidecar, and HTTP clients that come in, over mTLS
\* or to a sidecar without certificates; some of them close without a request.
Meshed == {k \in Kind : \/ k.path = "outbound"
                        \/ k.path \in {"inbound", "permissiveTLS"} /\ k.proto = "HTTP" /\ ~k.short}

\* Clients that come in: one that does not speak HTTP, and one that does, over mTLS.
ComingIn == {k \in Kind : /\ ~k.short /\ ~k.body
                          /\ \/ k.path = "inbound" /\ k.proto = "RAW"
                             \/ k.path = "permissiveTLS" /\ k.proto = "HTTP"}
=============================================================================
