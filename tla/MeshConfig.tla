----------------------------- MODULE MeshConfig -----------------------------
(***************************************************************************)
(* What a mesh configuration is, which ones the control plane accepts      *)
(* (FileClient.validate), which ones a proxy accepts (buildRoutingTable    *)
(* and CreateBackends of dataplane.go), and the routes a proxy serves once *)
(* it has accepted one (Router.go).                                        *)
(*                                                                         *)
(* A configuration is [port, services]; a service has a name, endpoints    *)
(* (addresses) and routes (a path and a set of methods).  "" is a string   *)
(* that is missing.  Go ranges over a map in any order, so the routes are  *)
(* a function of the order in which UpdateRoutes meets the services.       *)
(***************************************************************************)
EXTENDS Integers, Sequences, FiniteSets, SequencesExt

CONSTANTS
    Junk,          \* a value of a file that is missing or of the wrong type
    BadAddresses   \* addresses that url.Parse refuses

Ran(s) == {s[i] : i \in DOMAIN s}
Distinct(s) == Cardinality(Ran(s)) = Len(s)

-----------------------------------------------------------------------------
(* From the tree that viper reads to a configuration: getString,            *)
(* getStringSlice and the parse functions drop what has the wrong type.     *)

GetString(v) == IF v = Junk THEN "" ELSE v
Items(v) == IF v = Junk THEN << >> ELSE SelectSeq(v, LAMBDA x : x # Junk)

ParseEndpoints(raw) == LET eps == Items(raw)
                       IN  [i \in DOMAIN eps |-> GetString(eps[i].address)]
ParseRoutes(raw) == LET rs == Items(raw)
                    IN  [i \in DOMAIN rs |-> [path |-> GetString(rs[i].path),
                                              methods |-> Ran(Items(rs[i].methods))]]
ParseServices(raw) == LET svcs == Items(raw)
                      IN  [i \in DOMAIN svcs |-> [name |-> GetString(svcs[i].name),
                                                  endpoints |-> ParseEndpoints(svcs[i].endpoints),
                                                  routes |-> ParseRoutes(svcs[i].routes)]]
ParseConfig(raw) == [port |-> raw.port, services |-> ParseServices(raw.services)]

-----------------------------------------------------------------------------
(* Both sides ask this of a service. *)
ServiceValid(svc) ==
    /\ svc.name # ""
    /\ svc.endpoints # << >> /\ "" \notin Ran(svc.endpoints) /\ Distinct(svc.endpoints)
    /\ svc.routes # << >> /\ \A r \in Ran(svc.routes) : r.path # ""

\* FileClient.validate.
Validate(c) == /\ c.port # 0
               /\ c.services # << >>
               /\ \A svc \in Ran(c.services) : ServiceValid(svc)

\* strings.ToUpper of a method; an empty one does not count.
Upper(m) == CASE m = "get" -> "GET" [] m = "post" -> "POST" [] OTHER -> m
Methods(r) == {Upper(m) : m \in r.methods \ {""}}

\* buildRoutingTable: every route has a method, no name comes twice.
Routable(c) ==
    /\ \A svc \in Ran(c.services) : /\ ServiceValid(svc)
                                    /\ \A r \in Ran(svc.routes) : Methods(r) # {}
    /\ Distinct([i \in DOMAIN c.services |-> c.services[i].name])

\* Mutant: an empty routing table is as good as any.
HasBackendsOrNone(c) ==
    \A svc \in Ran(c.services) : Ran(svc.endpoints) \cap BadAddresses = {}

\* CreateBackends: every address parses, and there is a service at all.
HasBackends(c) ==
    /\ \A svc \in Ran(c.services) : Ran(svc.endpoints) \cap BadAddresses = {}
    /\ c.services # << >>

\* HandleConfig applies a configuration or leaves everything as it is.
Accepts(c) == Routable(c) /\ HasBackends(c)

-----------------------------------------------------------------------------
(* UpdateRoutes and FindService *)

Keys(svc) == UNION {{r.path} \X Methods(r) : r \in Ran(svc.routes)}

\* Mutant: methods are looked up as they are written in the configuration.
AddRoutesVerbatim(index, svc) ==
    LET keys == UNION {{r.path} \X r.methods : r \in Ran(svc.routes)}
    IN  [k \in DOMAIN index \cup keys |-> IF k \in keys THEN svc.name ELSE index[k]]

\* One round of the loop: the service takes its keys from whoever had them.
AddRoutes(index, svc) ==
    [k \in DOMAIN index \cup Keys(svc) |-> IF k \in Keys(svc) THEN svc.name ELSE index[k]]

\* The index after each round, and at the end.
Rounds(order) ==
    LET after[n \in 0 .. Len(order)] ==
            IF n = 0 THEN << >> ELSE AddRoutes(after[n - 1], order[n])
    IN  after
PathIndex(order) == Rounds(order)[Len(order)]

\* The indexes a proxy may end up with.
PathIndexes(c) == {PathIndex(order) : order \in SetToSeqs(Ran(c.services))}

\* FindService: the path and the method of a request, or none.
FindService(index, path, method) ==
    IF <<path, method>> \in DOMAIN index THEN index[<<path, method>>] ELSE ""

\* Who declares a route, by the configuration.
Declarers(c, path, method) ==
    {svc.name : svc \in {s \in Ran(c.services) : <<path, method>> \in Keys(s)}}
=============================================================================
