-------------------------- MODULE MCConfigDelivery --------------------------
EXTENDS ConfigDelivery

Svc(name, path, methods) ==
    [name |-> name, endpoints |-> <<[address |-> name], Junk>>,
     routes |-> <<[path |-> path, methods |-> methods]>>]

\* Two services that share a route, one method in lower case, and an entry that
\* is not a service.
Shared == [port |-> 1, services |-> <<Svc("users", "/u", <<"get", "POST">>), Junk,
                                      Svc("auth", "/u", <<"POST", Junk>>)>>]
One == [port |-> 1, services |-> <<Svc("users", "/u", <<"GET">>)>>]
\* Accepted by the control plane, refused by proxies: a route without methods.
NoMethod == [port |-> 1, services |-> <<Svc("users", "/u", Junk)>>]

MCRaw == [empty |-> [port |-> 0, services |-> Junk],
          shared |-> Shared, one |-> One, nomethod |-> NoMethod]
=============================================================================
