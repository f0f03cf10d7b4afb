-------------------------------- MODULE Topology --------------------------------
(***************************************************************************)
(* TopologyService: builds and discoveries of the topology, each a request *)
(* with a database session of its own that commits once, at its end.  They *)
(* look for a row and insert it if there is none; no constraint keeps two  *)
(* of them from inserting the same.                                        *)
(*                                                                         *)
(* The database is SQLite: a SELECT outside a transaction sees what is     *)
(* committed; the first INSERT or UPDATE of a session waits for the write  *)
(* lock and keeps it until the session ends.  From then on nobody else     *)
(* commits, and the session sees its own rows too.                         *)
(***************************************************************************)
EXTENDS Naturals, FiniteSetsExt, Sequences, TLC

CONSTANTS
    Ips,
    Table,        \* the devices, in the order the database lists them
    AddressOf,    \* the address of each
    InterfaceSubnets,   \* the subnets of those of its interfaces that have one
    HomeOf,       \* the /24 subnet of an address
    Matching,     \* pairs of devices with a service of one name on one port
    Presences,    \* the sets of devices that may be not offline at a time
    Views,        \* what the network may show while a discovery looks at it
    Lists,        \* the lists of addresses a request can carry
    Selections,      \* the sets of providers, by edge type, that are asked and answer
    Builds, Discoveries, NoRun

Devices == {Table[i] : i \in DOMAIN Table}
Runs    == Builds \cup Discoveries

\* One look at the network: the addresses that answer a ping, the MAC address
\* the ARP table has for an address (none is {}), and the addresses in the lines
\* of a trace towards it: where the first line names the target, so does route.
View == [answers : SUBSET Ips, mac : [Ips -> SUBSET Ips], route : [Ips -> Seq(Ips)]]

ASSUME TableAssumption ==
    /\ Table \in Seq(Devices) /\ \A i, j \in DOMAIN Table : Table[i] = Table[j] => i = j
    /\ AddressOf \in [Devices -> Ips]
    /\ DOMAIN InterfaceSubnets = Devices /\ DOMAIN HomeOf = Ips
    /\ Presences \subseteq SUBSET Devices
    /\ Matching \subseteq Devices \X Devices
    /\ Lists \subseteq Seq(Ips)

ASSUME ViewAssumption == Views \subseteq View

ASSUME RunAssumption == Builds \cap Discoveries = {} /\ NoRun \notin Runs

VARIABLES
    nodes,   \* topology_nodes: a pair of the device and the run that made the node
    edges,   \* topology_edges: the confidence of each edge
    lock,    \* the run that holds the write lock
    run      \* where each run is, its local variables, and the rows it has not committed

vars == <<nodes, edges, lock, run>>

NoRows == <<>>

\* list are the devices of a build or the addresses of a discovery, at the place
\* in it, got the nodes so far; next is what the run is about to write.
Idle == [pc |-> "idle", list |-> <<>>, at |-> 1, got |-> <<>>, next |-> <<>>,
         found |-> NoRows, pairs |-> {}, nodes |-> {}, edges |-> NoRows]

Init ==
    /\ nodes = {}
    /\ edges = NoRows
    /\ lock = NoRun
    /\ run = [x \in Runs |-> Idle]

-----------------------------------------------------------------------------
(* The providers.  A result has two ends, addresses, as a set: whoever      *)
(* takes it up sorts them first.  Confidences are in percent.               *)

Result(a, b, type, confidence) ==
    [ends |-> {a, b}, type |-> type, confidence |-> confidence]

\* Pairs of addresses in the order of the list; only the second is pinged.
PairsOf(ips) ==
    {<<ips[p[1]], ips[p[2]]>> : p \in {q \in (DOMAIN ips) \X (DOMAIN ips) : q[1] < q[2]}}

Listed(ips) == {ips[i] : i \in DOMAIN ips}

ArpNeighbors(ips, v) ==
    {Result(p[1], p[2], "arp_neighbor", 90) :
        p \in {q \in Listed(ips) \X Listed(ips) :
                 q[1] # q[2] /\ v.mac[q[1]] # {} /\ v.mac[q[1]] = v.mac[q[2]]}}

\* Without an interface in a subnet, a device is taken to be in the /24 around it.
SubnetsOf(d) ==
    IF InterfaceSubnets[d] = {} THEN {HomeOf[AddressOf[d]]} ELSE InterfaceSubnets[d]

SubnetAdjacent(ips, present) ==
    LET here == {d \in present : AddressOf[d] \in Listed(ips)} IN
    {Result(AddressOf[p[1]], AddressOf[p[2]], "subnet_adjacent", 60) :
        p \in {q \in here \X here : q[1] # q[2] /\ SubnetsOf(q[1]) \cap SubnetsOf(q[2]) # {}}}

Reachable(ips, v) ==
    {Result(p[1], p[2], "reachable", 85) : p \in {q \in PairsOf(ips) : q[2] \in v.answers}}

\* Where a trace towards an address names listed ones, and then names the next.
Known(ips, v, a) == {i \in DOMAIN v.route[a] : v.route[a][i] \in Listed(ips)}

Nexts(ips, v, a) ==
    {p \in Known(ips, v, a) \X Known(ips, v, a) :
        /\ p[1] < p[2]
        /\ ~ \E k \in Known(ips, v, a) : p[1] < k /\ k < p[2]}

\* The hops from one to the next in the traces towards the second of each pair,
\* directed; the first of a trace counts more.
Hops(ips, v) ==
    UNION {{[from |-> v.route[a][p[1]], to |-> v.route[a][p[2]],
             confidence |-> IF \E k \in Known(ips, v, a) : k < p[1] THEN 50 ELSE 60] :
                p \in Nexts(ips, v, a)} : a \in {q[2] : q \in PairsOf(ips)}}

\* Of equal hops on two ways the one that is processed first is kept.
Traceroutes(ips, v) ==
    LET Hop(h) == [from |-> h.from, to |-> h.to]
        hops   == {Hop(h) : h \in Hops(ips, v)} IN
    {{Result(h.from, h.to, "traceroute_hop", c[h]) : h \in hops} :
        c \in {f \in [hops -> {50, 60}] :
                 \A h \in hops : [from |-> h.from, to |-> h.to, confidence |-> f[h]]
                                   \in Hops(ips, v)}}

Key(r) == [ends |-> r.ends, type |-> r.type]

Confidences(results, k) == {r.confidence : r \in {q \in results : Key(q) = k}}

\* One result for two addresses and a type, the most certain one.
Deduplicated(results) == [k \in {Key(r) : r \in results} |-> Max(Confidences(results, k))]

-----------------------------------------------------------------------------
(* Sessions.                                                                *)

At(x, place) == run[x].pc = place

NodesSeen(x) == nodes \cup run[x].nodes

\* The rows of f, and those of g it does not have.
Over(f, g) == [e \in DOMAIN f \cup DOMAIN g |-> IF e \in DOMAIN f THEN f[e] ELSE g[e]]

EdgesSeen(x) == Over(run[x].edges, edges)

\* Faulty: only the nodes this session has made are found.
OwnNodes(x, d) == {n \in run[x].nodes : n[1] = d}

NodesOf(x, d) == {n \in NodesSeen(x) : n[1] = d}

\* x writes: it has the lock, or gets it.
Writes(x) ==
    /\ lock \in {x, NoRun}
    /\ lock' = x

Released(x) == IF lock = x THEN NoRun ELSE lock

-----------------------------------------------------------------------------
(* Starting.                                                                *)

\* Some of the devices, in the order of the table.
InOrder(present) ==
    {s \in [1 .. Cardinality(present) -> present] :
        \A i, j \in DOMAIN s : i < j =>
            \E k, l \in DOMAIN Table : k < l /\ Table[k] = s[i] /\ Table[l] = s[j]}

StartBuild(x) ==
    /\ x \in Builds
    /\ At(x, "idle")
    /\ \E present \in Presences : \E devices \in InOrder(present) :
         run' = [run EXCEPT ![x].pc = "nodes", ![x].list = devices,
                            ![x].pairs = {p \in Matching : p[1] \in present /\ p[2] \in present}]
    /\ UNCHANGED <<nodes, edges, lock>>

\* The addresses of the request, or of the devices that are not offline.
Requested ==
    Lists \cup {[i \in DOMAIN devices |-> AddressOf[devices[i]]] :
                    devices \in UNION {InOrder(present) : present \in Presences}}

StartDiscovery(x) ==
    /\ x \in Discoveries
    /\ At(x, "idle")
    /\ \E ips \in Requested :
         run' = [run EXCEPT ![x].pc = IF Len(ips) < 2 THEN "nodes" ELSE "probe", ![x].list = ips]
    /\ UNCHANGED <<nodes, edges, lock>>

\* The engine asks the providers the request names.  What one of them finds is
\* lost if it raises, as if it had not been named.
Probe(x) ==
    /\ At(x, "probe")
    /\ \E v \in Views, present \in Presences, asked \in Selections :
       \E hops \in Traceroutes(run[x].list, v) :
         LET ips == run[x].list
             all == ArpNeighbors(ips, v) \cup SubnetAdjacent(ips, present)
                      \cup Reachable(ips, v) \cup hops IN
         run' = [run EXCEPT ![x].pc = "nodes",
                            ![x].found = Deduplicated({r \in all : r.type \in asked})]
    /\ UNCHANGED <<nodes, edges, lock>>

-----------------------------------------------------------------------------
(* Nodes.                                                                   *)

\* The device a build looks at is the next of its list; a discovery has an
\* address and takes the first device the database returns for it.
Candidates(x) ==
    LET this == run[x].list[run[x].at] IN
    IF x \in Builds THEN {this} ELSE {d \in Devices : AddressOf[d] = this}

Ensuring(x) == At(x, "nodes") /\ run[x].at <= Len(run[x].list)

\* An address nobody has.
SkipAddress(x) ==
    /\ Ensuring(x)
    /\ Candidates(x) = {}
    /\ run' = [run EXCEPT ![x].at = @ + 1]
    /\ UNCHANGED <<nodes, edges, lock>>

\* A build leaves a node it has found as it is.
KeepNode(x) ==
    /\ x \in Builds
    /\ Ensuring(x)
    /\ \E d \in Candidates(x) : \E n \in NodesOf(x, d) :
         run' = [run EXCEPT ![x].at = @ + 1, ![x].got = Append(@, n)]
    /\ UNCHANGED <<nodes, edges, lock>>

\* A missing node is to be inserted; a discovery also writes last_seen of one
\* it has found.
SelectNode(x) ==
    /\ Ensuring(x)
    /\ \E d \in Candidates(x) :
         \E n \in IF NodesOf(x, d) = {} THEN {<<d, x>>} ELSE NodesOf(x, d) :
           /\ x \in Builds => NodesOf(x, d) = {}
           /\ run' = [run EXCEPT ![x].pc = "write", ![x].next = n]
    /\ UNCHANGED <<nodes, edges, lock>>

WriteNode(x) ==
    LET n == run[x].next IN
    /\ At(x, "write")
    /\ Writes(x)
    /\ run' = [run EXCEPT ![x].pc = "nodes", ![x].at = @ + 1, ![x].next = <<>>,
                          ![x].got = Append(@, n),
                          ![x].nodes = IF n \in nodes THEN @ ELSE @ \cup {n}]
    /\ UNCHANGED <<nodes, edges>>

NodesDone(x) ==
    /\ At(x, "nodes")
    /\ run[x].at > Len(run[x].list)
    /\ run' = [run EXCEPT ![x].pc = IF x \in Builds THEN "match" ELSE "draw"]
    /\ UNCHANGED <<nodes, edges, lock>>

-----------------------------------------------------------------------------
(* Edges.                                                                   *)

Got(x) == {run[x].got[i] : i \in DOMAIN run[x].got}

\* The edges a query for this type between these nodes returns.
Joined(x, ends, type) ==
    {e \in DOMAIN EdgesSeen(x) : e.from = ends[1] /\ e.to = ends[2] /\ e.type = type}

Edge(x, ends, type) == [from |-> ends[1], to |-> ends[2], type |-> type, by |-> x]

\* A build: the nodes of two devices that have a service in common.
EndsOfMatch(x, p) ==
    LET node(d) == CHOOSE n \in Got(x) : n[1] = d IN <<node(p[1]), node(p[2])>>

SelectEdge(x) ==
    /\ At(x, "match")
    /\ \E p \in run[x].pairs :
         IF Joined(x, EndsOfMatch(x, p), "service_match") # {}
           THEN run' = [run EXCEPT ![x].pairs = @ \ {p}]
           ELSE run' = [run EXCEPT ![x].pairs = @ \ {p}, ![x].pc = "add",
                                   ![x].next = EndsOfMatch(x, p)]
    /\ UNCHANGED <<nodes, edges, lock>>

\* The new edge is written before the next SELECT, or by the commit.
AddEdge(x) ==
    /\ At(x, "add")
    /\ Writes(x)
    /\ run' = [run EXCEPT ![x].pc = "match", ![x].next = <<>>,
                          ![x].edges = Over([e \in {Edge(x, run[x].next, "service_match")} |-> 50], @)]
    /\ UNCHANGED <<nodes, edges>>

\* Faulty: the nodes are matched with the list of the request by position.
ByPosition(x, ip) == {run[x].got[i] : i \in {k \in DOMAIN run[x].got : run[x].list[k] = ip}}

\* node_ip_map, the last node for an address: no or one node.
NodeAt(x, ip) ==
    LET places == {i \in DOMAIN run[x].got : AddressOf[run[x].got[i][1]] = ip} IN
    IF places = {} THEN {} ELSE {run[x].got[Max(places)]}

\* Faulty: the ends stay in the order of the request.
AsListed(x, k) ==
    LET ends     == UNION {NodeAt(x, ip) : ip \in k.ends}
        place(n) == Min({i \in DOMAIN run[x].got : run[x].got[i] = n})
        first    == CHOOSE n \in ends : \A m \in ends : place(n) <= place(m)
    IN <<first, IF ends = {first} THEN first ELSE CHOOSE n \in ends \ {first} : TRUE>>

\* sorted([src, dst]): an edge of a discovery has one direction, that of the
\* ids of its nodes.
EndsOfResult(x, k) ==
    LET ends  == UNION {NodeAt(x, ip) : ip \in k.ends}
        first == CHOOSE n \in ends : TRUE
    IN <<first, IF ends = {first} THEN first ELSE CHOOSE n \in ends \ {first} : TRUE>>

\* Faulty: the confidence found last replaces the one known.
Replaced(known, found) == found

Raised(known, found) == Max({known, found})

\* The results both addresses of which have a node, and the edge for one of them:
\* the one there is, or else a new one.
Drawable(x) == {k \in DOMAIN run[x].found : \A ip \in k.ends : NodeAt(x, ip) # {}}

EdgeFor(x, k) ==
    LET old == Joined(x, EndsOfResult(x, k), k.type) IN
    IF old = {} THEN Edge(x, EndsOfResult(x, k), k.type) ELSE CHOOSE e \in old : TRUE

\* A discovery: it has the lock, so the loop over the results is one step.
DrawEdges(x) ==
    LET known(e) == IF e \in DOMAIN edges THEN edges[e] ELSE 0 IN
    /\ At(x, "draw")
    /\ run' = [run EXCEPT
                 ![x].pc = "commit",
                 ![x].edges = [e \in {EdgeFor(x, k) : k \in Drawable(x)} |->
                                Raised(known(e), run[x].found[CHOOSE k \in Drawable(x) : EdgeFor(x, k) = e])]]
    /\ UNCHANGED <<nodes, edges, lock>>

-----------------------------------------------------------------------------
(* The end of a run.                                                        *)

\* Faulty: the session is not removed after the request.
LeftOpen(x, place, found) == [run EXCEPT ![x].pc = place, ![x].found = found]

Ended(x, place, found) == [run EXCEPT ![x] = [Idle EXCEPT !.pc = place, !.found = found]]

Commit(x) ==
    /\ At(x, "commit") \/ (At(x, "match") /\ run[x].pairs = {})
    /\ nodes' = NodesSeen(x)
    /\ edges' = EdgesSeen(x)
    /\ lock' = Released(x)
    /\ run' = Ended(x, "done", run[x].found)

\* A statement raises, or gives up waiting for the lock: the session is closed
\* without a commit, and the request is answered 500.
Fail(x) ==
    /\ run[x].pc \notin {"idle", "done", "failed"}
    /\ lock' = Released(x)
    /\ run' = Ended(x, "failed", NoRows)
    /\ UNCHANGED <<nodes, edges>>

Step(x) ==
    \/ StartBuild(x) \/ StartDiscovery(x) \/ Probe(x)
    \/ SkipAddress(x) \/ KeepNode(x) \/ SelectNode(x) \/ WriteNode(x) \/ NodesDone(x)
    \/ SelectEdge(x) \/ AddEdge(x) \/ DrawEdges(x)
    \/ Commit(x) \/ Fail(x)

Next == \E x \in Runs : Step(x)

Spec == Init /\ [][Next]_vars

-----------------------------------------------------------------------------
(* Properties.                                                              *)

Providers == {"arp_neighbor", "subnet_adjacent", "reachable", "traceroute_hop"}
Types     == Providers \cup {"service_match"}

Node == Devices \X Runs

EdgesOK(rows) ==
    \A e \in DOMAIN rows :
        /\ e \in [from : Node, to : Node, type : Types, by : Runs]
        /\ rows[e] \in {50, 60, 85, 90}

\* Types, and what the foreign keys say: an edge has its nodes in the table.
TypeOK ==
    /\ nodes \subseteq Node
    /\ EdgesOK(edges)
    /\ \A e \in DOMAIN edges : {e.from, e.to} \subseteq nodes
    /\ lock \in Runs \cup {NoRun}
    /\ \A x \in Runs :
         /\ run[x].pc \in {"idle", "probe", "nodes", "write", "match", "add", "draw", "commit",
                           "done", "failed"}
         /\ run[x].nodes \subseteq Devices \X {x}
         /\ EdgesOK(run[x].edges)
         /\ Got(x) \subseteq NodesSeen(x)
         /\ run[x].nodes # {} \/ run[x].edges # NoRows => lock = x

Done == {x \in Runs : At(x, "done")}

SurplusNodes == Cardinality(nodes) - Cardinality({n[1] : n \in nodes})

SurplusEdges ==
    Cardinality(DOMAIN edges)
      - Cardinality({<<e.from, e.to, e.type>> : e \in DOMAIN edges})

\* No constraint keeps two runs from inserting the same row, but the write lock
\* does, from the first row on: however many rows two runs both find missing,
\* each run after the first adds at most one that was there already (service.py
\* 36-44 and 57-72, 164-173).
OneSurplusRowPerRun ==
    nodes # {} => SurplusNodes + SurplusEdges < Cardinality(Done)

\* Between two nodes there is one edge of each type a discovery draws, in one
\* direction, in whatever order two discoveries list and find the addresses.
OneEdgeEachWay ==
    \A e, f \in DOMAIN edges :
        e.type # "service_match" /\ e.type = f.type /\ {e.from, e.to} = {f.from, f.to} => e = f

\* Every result of a completed discovery whose addresses have devices is in the
\* table afterwards, between devices of these addresses, with no less than the
\* confidence it was found with, whatever other runs committed meanwhile or
\* since, and although two devices may share an address.
FoundIsDrawn ==
    \A x \in Done : \A k \in DOMAIN run[x].found :
        k.ends \subseteq {AddressOf[d] : d \in Devices} =>
            \E e \in DOMAIN edges :
                /\ {AddressOf[e.from[1]], AddressOf[e.to[1]]} = k.ends
                /\ e.type = k.type
                /\ edges[e] >= run[x].found[k]

\* The links of the abstract graph, and how certain evidence can make them.
Links == [ends : {{d, e} : d, e \in Devices}, type : Types]

Evidence ==
    [l \in Links |->
        LET ips == {AddressOf[d] : d \in l.ends}
            pair == Cardinality(ips) = 2 IN
        CASE l.type = "arp_neighbor" /\ pair
               /\ \E v \in Views : \E m \in (SUBSET Ips) \ {{}} : \A ip \in ips : v.mac[ip] = m -> 90
          [] l.type = "subnet_adjacent"
               /\ \E d, e \in Devices : /\ d # e /\ {AddressOf[d], AddressOf[e]} = ips
                                        /\ SubnetsOf(d) \cap SubnetsOf(e) # {} -> 60
          [] l.type = "reachable" /\ \E v \in Views : ips \cap v.answers # {} -> 85
          [] l.type = "traceroute_hop"
               /\ \E v \in Views : \E a \in Ips : \E i, j \in DOMAIN v.route[a] :
                    i < j /\ ips = {v.route[a][i], v.route[a][j]} -> 60
          [] l.type = "service_match" /\ \E p \in Matching : {p[1], p[2]} = l.ends -> 50
          [] OTHER -> 0]

LinkOf(e) == [ends |-> {e.from[1], e.to[1]}, type |-> e.type]

Certainty ==
    [l \in {LinkOf(e) : e \in DOMAIN edges} |->
        Max({edges[e] : e \in {f \in DOMAIN edges : LinkOf(f) = l}})]

Graph == INSTANCE TopologyGraph
           WITH drawn <- {n[1] : n \in nodes}, certainty <- Certainty

\* What builds and discoveries publish, together, is a graph that only grows:
\* no link without evidence for its own two devices, none lost, none less
\* certain than it was.
ImplementsGraph == Graph!GraphSpec
===============================================================================
