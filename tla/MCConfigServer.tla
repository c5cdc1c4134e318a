--------------------------- MODULE MCConfigServer ---------------------------
(* ConfigServer for TLC: which proxies there are and how often they connect. *)
EXTENDS ConfigServer

OneProxy == {"p1"}
TwoProxies == {"p1", "p2"}

\* p1 reconnects once; p2 shares the updater with both of its streams.
OneReconnects == {<<"p1", 1>>, <<"p1", 2>>, <<"p2", 1>>}
TwoStreams == {<<"p1", 1>>, <<"p1", 2>>}
=============================================================================
