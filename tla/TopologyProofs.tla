---------------------------- MODULE TopologyProofs ----------------------------
(***************************************************************************)
(* Theorems about the topology, for any devices and addresses, any number  *)
(* of builds and discoveries at a time, and whatever the network shows     *)
(* each of them.                                                           *)
(*                                                                         *)
(* TopologyInv says of the committed rows (RowsOK) that they are of runs   *)
(* that are done, once for each pair of nodes and type, in one direction,  *)
(* with a confidence there is evidence for; and of each run (SessionOK)    *)
(* that rows of its own mean that it has the lock (LockOK), that it has a  *)
(* node for every device it has passed (CoverOK), that its rows agree with *)
(* the committed ones (OwnOK) and that, once it has the lock, it writes    *)
(* only what is missing (FreshOK), so that only the row it got the lock    *)
(* with may be one too many (SurplusOK).                                   *)
(***************************************************************************)
EXTENDS Topology, FiniteSetTheorems, FunctionTheorems, SequenceTheorems, TLAPS

Place == {"idle", "probe", "nodes", "write", "match", "add", "draw", "commit", "done", "failed"}

Confidence == {50, 60, 85, 90}

EdgeRow == [from : Node, to : Node, type : Types, by : Runs]

EdgeRows == UNION {[rows -> Confidence] : rows \in SUBSET EdgeRow}

ResultKey == [ends : SUBSET Ips, type : Providers]

Results == UNION {[keys -> Confidence] : keys \in SUBSET ResultKey}

Session == [pc : Place, list : Seq(Devices \cup Ips), at : Nat \ {0}, got : Seq(Node),
            next : {<<>>} \cup Node \cup (Node \X Node), found : Results,
            pairs : SUBSET Matching, nodes : SUBSET Node, edges : EdgeRows]

BaseType ==
    /\ nodes \subseteq Node /\ IsFiniteSet(nodes)
    /\ edges \in EdgeRows /\ IsFiniteSet(DOMAIN edges)
    /\ lock \in Runs \cup {NoRun}
    /\ run \in [Runs -> Session]
    /\ IsFiniteSet(Done)

Addresses == {AddressOf[d] : d \in Devices}

Placed(e) == <<e.from, e.to, e.type>>

\* The edges of a discovery have the direction of the ids of their nodes.
Directed(e) ==
    e.type # "service_match" =>
        LET ends == {e.from, e.to} IN
        /\ e.from = CHOOSE n \in ends : TRUE
        /\ e.to = IF ends = {e.from} THEN e.from ELSE CHOOSE n \in ends \ {e.from} : TRUE

Supported(e, confidence) == confidence <= Evidence[LinkOf(e)]

\* The committed rows: by runs that are done, with their nodes, in one direction,
\* once, and supported.
RowsOK ==
    /\ \A n \in nodes : n[2] \in Done
    /\ \A e \in DOMAIN edges :
         /\ e.by \in Done /\ e.from \in nodes /\ e.to \in nodes
         /\ Directed(e) /\ Supported(e, edges[e])
    /\ \A e, f \in DOMAIN edges : e.type # "service_match" /\ Placed(e) = Placed(f) => e = f

\* Rows of its own, and for a discovery a node it has passed, mean the lock.
LockOK(x) ==
    /\ run[x].nodes # {} => lock = x
    /\ run[x].edges # NoRows => lock = x
    /\ x \in Discoveries /\ run[x].got # <<>> => lock = x

PlaceOK(x) ==
    /\ run[x].pc \in {"idle", "probe", "done", "failed"} =>
         run[x].nodes = {} /\ run[x].got = <<>>
    /\ run[x].pc \notin {"match", "add", "commit"} => run[x].edges = NoRows
    /\ run[x].pc \in {"match", "add"} => x \in Builds /\ run[x].at > Len(run[x].list)
    /\ run[x].pc \in {"probe", "draw", "commit"} => x \in Discoveries
    /\ run[x].pc = "draw" => run[x].at > Len(run[x].list)
    /\ run[x].pc \in {"idle", "probe", "done", "failed"} => run[x].at = 1
    /\ x \in Builds \/ run[x].pc \in {"idle", "probe"} => run[x].found = NoRows

\* Every device or address it has passed has its node, if anybody has the address.
CoverOK(x) ==
    \A i \in DOMAIN run[x].list : i < run[x].at =>
        /\ x \in Builds => \E n \in Got(x) : n[1] = run[x].list[i]
        /\ x \in Discoveries /\ run[x].list[i] \in Addresses =>
             \E n \in Got(x) : AddressOf[n[1]] = run[x].list[i]

ListOK(x) ==
    /\ x \in Builds =>
         /\ \A i \in DOMAIN run[x].list : run[x].list[i] \in Devices
         /\ \A p \in run[x].pairs :
              p[1] \in Listed(run[x].list) /\ p[2] \in Listed(run[x].list)
    /\ x \in Discoveries => \A i \in DOMAIN run[x].list : run[x].list[i] \in Ips

NextOK(x) ==
    /\ run[x].pc = "write" =>
         /\ run[x].next \in Node
         /\ run[x].at \in DOMAIN run[x].list
         /\ run[x].next \in NodesSeen(x) \/ run[x].next[2] = x
         /\ x \in Builds => run[x].next[1] = run[x].list[run[x].at]
         /\ x \in Discoveries => AddressOf[run[x].next[1]] = run[x].list[run[x].at]
    /\ run[x].pc = "add" =>
         /\ run[x].next \in Got(x) \X Got(x)
         /\ <<run[x].next[1][1], run[x].next[2][1]>> \in Matching

\* Whoever has the lock only writes what is still missing.
FreshOK(x) ==
    lock = x =>
      /\ run[x].pc = "write" =>
           run[x].next \in NodesSeen(x) \/ NodesOf(x, run[x].next[1]) = {}
      /\ run[x].pc = "add" => Joined(x, run[x].next, "service_match") = {}

FoundOK(x) ==
    \A k \in DOMAIN run[x].found :
        /\ run[x].pc # "done" => \E a, b \in Listed(run[x].list) : k.ends = {a, b}
        /\ \A l \in Links :
             l.type = k.type /\ {AddressOf[d] : d \in l.ends} = k.ends =>
                run[x].found[k] <= Evidence[l]

OwnOK(x) ==
    /\ \A n \in run[x].nodes : n[2] = x
    /\ IsFiniteSet(run[x].nodes) /\ IsFiniteSet(DOMAIN run[x].edges)
    /\ \A e \in DOMAIN run[x].edges :
         /\ e.from \in NodesSeen(x) /\ e.to \in NodesSeen(x)
         /\ e.by = x \/ e \in DOMAIN edges
         /\ Directed(e) /\ Supported(e, run[x].edges[e])
         /\ e \in DOMAIN edges => edges[e] <= run[x].edges[e]
         /\ \A f \in DOMAIN edges \cup DOMAIN run[x].edges :
              e.type # "service_match" /\ Placed(e) = Placed(f) => e = f

DrawnBy(rows, found) ==
    \A k \in DOMAIN found : k.ends \subseteq Addresses =>
        \E e \in DOMAIN rows :
            /\ {AddressOf[e.from[1]], AddressOf[e.to[1]]} = k.ends
            /\ e.type = k.type
            /\ rows[e] >= found[k]

DrawnOK(x) ==
    /\ run[x].pc = "commit" => DrawnBy(run[x].edges, run[x].found)
    /\ run[x].pc = "done" => DrawnBy(edges, run[x].found)

\* How many rows there are too many.
Surplus(ns, es) ==
    (Cardinality(ns) - Cardinality({n[1] : n \in ns}))
      + (Cardinality(es) - Cardinality({Placed(e) : e \in es}))

SurplusOK(x) ==
    lock = x =>
      Surplus(NodesSeen(x), DOMAIN edges \cup DOMAIN run[x].edges)
        <= Surplus(nodes, DOMAIN edges) + (IF nodes = {} THEN 0 ELSE 1)

SessionOK(x) ==
    /\ LockOK(x) /\ PlaceOK(x) /\ ListOK(x) /\ CoverOK(x) /\ Got(x) \subseteq NodesSeen(x)
    /\ NextOK(x) /\ FreshOK(x) /\ FoundOK(x) /\ OwnOK(x) /\ DrawnOK(x) /\ SurplusOK(x)

BoundOK == nodes # {} => Surplus(nodes, DOMAIN edges) < Cardinality(Done)

TopologyInv ==
    /\ BaseType
    /\ RowsOK
    /\ BoundOK
    /\ \A x \in Runs : SessionOK(x)

-----------------------------------------------------------------------------
(* The operators of the model.                                             *)

LEMMA NoRowsOnly ==
    ASSUME NEW S, NEW D, NEW f \in [D -> S], D = {}
    PROVE  f = NoRows
<1>1. f \in [1 .. 0 -> S]
  OBVIOUS
<1>2. f \in Seq(S) /\ Len(f) = 0
  BY <1>1, SeqDef
<1> QED BY <1>2, EmptySeq DEF NoRows

LEMMA NoRowsDomain == DOMAIN NoRows = {}
  BY DEF NoRows

LEMMA ConfidenceMax ==
    ASSUME NEW S, S \subseteq Confidence, S # {}
    PROVE  Max(S) \in S /\ Max(S) \in Confidence /\ \A c \in S : c <= Max(S)
<1>1. \A c \in S : c \in {50, 60, 85, 90}
  BY DEF Confidence
<1>2. \E m \in S : \A c \in S : m >= c
  <2>1. CASE 90 \in S
    BY <1>1, <2>1
  <2>2. CASE 90 \notin S /\ 85 \in S
    BY <1>1, <2>2
  <2>3. CASE 90 \notin S /\ 85 \notin S /\ 60 \in S
    BY <1>1, <2>3
  <2>4. CASE 90 \notin S /\ 85 \notin S /\ 60 \notin S
    BY <1>1, <2>4
  <2> QED BY <2>1, <2>2, <2>3, <2>4
<1>3. Max(S) \in S /\ \A c \in S : Max(S) >= c
  BY <1>2 DEF Max
<1> QED BY <1>1, <1>3 DEF Confidence

LEMMA PlaceMax ==
    ASSUME NEW n \in Nat, NEW S \in SUBSET (1 .. n), S # {}
    PROVE  Max(S) \in S
<1> DEFINE T == {n - i : i \in S}
           R == {p \in Nat \X Nat : p[1] < p[2]}
<1>1. T \subseteq Nat /\ T # {}
  <2>1. \A i \in S : n - i \in Nat
    OBVIOUS
  <2>2. \A t \in T : t \in Nat
    BY <2>1
  <2> QED BY <2>2
<1>2. IsWellFoundedOn(R, Nat)
  BY NatLessThanWellFounded DEF OpToRel
<1> HIDE DEF T
<1>3. PICK t \in T : \A u \in T : ~ (<<u, t>> \in R)
  <2> HIDE DEF R
  <2> QED BY <1>1, <1>2, WFMin
<1>5. \A u \in T : t <= u
  <2> SUFFICES ASSUME NEW u \in T PROVE t <= u
    OBVIOUS
  <2>1. u \in Nat /\ t \in Nat
    BY <1>1, <1>3
  <2>2. <<u, t>> \in R <=> u < t
    BY <2>1
  <2> HIDE DEF R
  <2>3. ~ (u < t)
    BY <1>3, <2>2
  <2> QED BY <2>1, <2>3
<1>4. n - t \in S /\ \A i \in S : n - t >= i
  BY <1>5 DEF T
<1> QED BY <1>4 DEF Max

LEMMA RowsType ==
    ASSUME NEW f
    PROVE  f \in EdgeRows <=> f \in [DOMAIN f -> Confidence] /\ DOMAIN f \subseteq EdgeRow
BY DEF EdgeRows

LEMMA ResultsType ==
    ASSUME NEW f
    PROVE  f \in Results <=> f \in [DOMAIN f -> Confidence] /\ DOMAIN f \subseteq ResultKey
BY DEF Results

LEMMA OverNothing ==
    ASSUME NEW f \in EdgeRows
    PROVE  Over(NoRows, f) = f
BY RowsType, NoRowsDomain DEF Over

LEMMA OverType ==
    ASSUME NEW f \in EdgeRows, NEW g \in EdgeRows
    PROVE  /\ Over(f, g) \in EdgeRows
           /\ DOMAIN Over(f, g) = DOMAIN f \cup DOMAIN g
           /\ \A e \in DOMAIN f : Over(f, g)[e] = f[e]
           /\ \A e \in DOMAIN g \ DOMAIN f : Over(f, g)[e] = g[e]
<1>1. DOMAIN Over(f, g) = DOMAIN f \cup DOMAIN g
  BY DEF Over
<1>2. \A e \in DOMAIN Over(f, g) : Over(f, g)[e] = IF e \in DOMAIN f THEN f[e] ELSE g[e]
  BY DEF Over
<1>3. Over(f, g) \in [DOMAIN Over(f, g) -> Confidence]
  <2>1. \A e \in DOMAIN Over(f, g) : Over(f, g)[e] \in Confidence
    BY <1>1, <1>2, RowsType
  <2> QED BY <2>1, <1>1 DEF Over
<1> QED BY <1>1, <1>2, <1>3, RowsType

LEMMA ImageFinite ==
    ASSUME NEW S, IsFiniteSet(S), NEW f, DOMAIN f = S
    PROVE  IsFiniteSet({f[x] : x \in S}) /\ Cardinality({f[x] : x \in S}) <= Cardinality(S)
<1> DEFINE T == {f[x] : x \in S}
           g == [x \in S |-> f[x]]
<1>1. g \in Surjection(S, T)
  BY DEF Surjection
<1> HIDE DEF T, g
<1>2. IsFiniteSet(T) /\ Cardinality(T) <= Cardinality(S)
  BY <1>1, FS_Surjection
<1> QED BY <1>2 DEF T

LEMMA DevicesFinite == IsFiniteSet(Devices)
<1>1. Table \in Seq(Devices) /\ DOMAIN Table = 1 .. Len(Table) /\ Len(Table) \in Nat
  BY TableAssumption
<1>2. IsFiniteSet(DOMAIN Table)
  BY <1>1, FS_Interval
<1> QED BY <1>2, ImageFinite DEF Devices

\* The list of a build has all the devices it is for.
LEMMA InOrderCovers ==
    ASSUME NEW present \in SUBSET Devices, NEW s \in InOrder(present)
    PROVE  s \in Seq(present) /\ Listed(s) = present
<1> DEFINE n == Cardinality(present)
<1>1. IsFiniteSet(present) /\ n \in Nat
  BY DevicesFinite, FS_Subset, FS_CardinalityType
<1>2. s \in [1 .. n -> present]
  BY DEF InOrder
<1>3. \A i, j \in DOMAIN s : i < j =>
          \E k, l \in DOMAIN Table : k < l /\ Table[k] = s[i] /\ Table[l] = s[j]
  BY DEF InOrder
<1>4. \A i, j \in DOMAIN s : i < j => s[i] # s[j]
  <2> SUFFICES ASSUME NEW i \in DOMAIN s, NEW j \in DOMAIN s, i < j, s[i] = s[j] PROVE FALSE
    OBVIOUS
  <2>1. PICK k, l \in DOMAIN Table : k < l /\ Table[k] = s[i] /\ Table[l] = s[j]
    BY <1>3
  <2>2. k = l
    BY <2>1, TableAssumption
  <2>3. k \in Nat
    BY TableAssumption
  <2> QED BY <2>1, <2>2, <2>3
<1> HIDE DEF n
<1>5. s \in Injection(1 .. n, present)
  <2>1. \A i, j \in 1 .. n : s[i] = s[j] => i = j
    BY <1>1, <1>2, <1>4
  <2> QED BY <1>2, <2>1 DEF Injection, IsInjective
<1>6. IsFiniteSet(1 .. n) /\ Cardinality(1 .. n) = n
  BY <1>1, FS_Interval
<1>7. s \in Surjection(1 .. n, present)
  BY <1>1, <1>5, <1>6, FS_Injection DEF n
<1>8. \A d \in present : \E i \in 1 .. n : s[i] = d
  BY <1>7 DEF Surjection
<1>9. s \in Seq(present) /\ DOMAIN s = 1 .. n
  BY <1>1, <1>2, SeqDef
<1> QED BY <1>2, <1>8, <1>9 DEF Listed

-----------------------------------------------------------------------------
(* The providers, and the evidence there can be for a link.                *)

IpsOf(l) == {AddressOf[d] : d \in l.ends}

LEMMA LinkShape ==
    ASSUME NEW l \in Links
    PROVE  /\ l.type \in Types
           /\ \E d, e \in Devices : l.ends = {d, e} /\ IpsOf(l) = {AddressOf[d], AddressOf[e]}
BY DEF Links, IpsOf

LEMMA EvidenceValue ==
    ASSUME NEW l \in Links
    PROVE  Evidence[l] \in {0, 50, 60, 85, 90}
BY DEF Evidence

LEMMA PairCardinality ==
    ASSUME NEW a, NEW b, a # b
    PROVE  Cardinality({a, b}) = 2
<1>1. IsFiniteSet({a}) /\ Cardinality({a}) = 1
  BY FS_Singleton
<1>2. Cardinality({a} \cup {b}) = 2
  BY <1>1, FS_AddElement
<1>3. {a} \cup {b} = {a, b}
  OBVIOUS
<1> QED BY <1>2, <1>3

LEMMA ArpEvidence ==
    ASSUME NEW l \in Links, l.type = "arp_neighbor", NEW a, NEW b, a # b, IpsOf(l) = {a, b},
           NEW v \in Views, v.mac[a] \in SUBSET Ips, v.mac[a] # {}, v.mac[a] = v.mac[b]
    PROVE  Evidence[l] = 90
<1>1. Cardinality(IpsOf(l)) = 2
  BY PairCardinality
<1>2. \E m \in (SUBSET Ips) \ {{}} : \A ip \in IpsOf(l) : v.mac[ip] = m
  OBVIOUS
<1> QED BY <1>1, <1>2 DEF Evidence, IpsOf

LEMMA SubnetEvidence ==
    ASSUME NEW l \in Links, l.type = "subnet_adjacent", NEW d \in Devices, NEW e \in Devices,
           d # e, IpsOf(l) = {AddressOf[d], AddressOf[e]}, SubnetsOf(d) \cap SubnetsOf(e) # {}
    PROVE  Evidence[l] = 60
BY DEF Evidence, IpsOf

LEMMA ReachableEvidence ==
    ASSUME NEW l \in Links, l.type = "reachable", NEW v \in Views, IpsOf(l) \cap v.answers # {}
    PROVE  Evidence[l] = 85
BY DEF Evidence, IpsOf

LEMMA HopEvidence ==
    ASSUME NEW l \in Links, l.type = "traceroute_hop", NEW v \in Views, NEW a \in Ips,
           NEW i \in DOMAIN v.route[a], NEW j \in DOMAIN v.route[a], i < j,
           IpsOf(l) = {v.route[a][i], v.route[a][j]}
    PROVE  Evidence[l] = 60
BY DEF Evidence, IpsOf

LEMMA MatchEvidence ==
    ASSUME NEW l \in Links, l.type = "service_match", NEW p \in Matching, l.ends = {p[1], p[2]}
    PROVE  Evidence[l] = 50
BY DEF Evidence

\* A result is between two addresses of the list, and there is evidence for it.
Sound(r, ips) ==
    /\ \E a, b \in Listed(ips) : r.ends = {a, b}
    /\ r.type \in Providers
    /\ r.confidence \in Confidence
    /\ \A l \in Links : l.type = r.type /\ IpsOf(l) = r.ends => r.confidence <= Evidence[l]

LEMMA ListedIps ==
    ASSUME NEW ips \in Seq(Ips)
    PROVE  Listed(ips) \subseteq Ips
BY DEF Listed

LEMMA ResultFields ==
    ASSUME NEW a, NEW b, NEW type, NEW confidence
    PROVE  /\ Result(a, b, type, confidence).ends = {a, b}
           /\ Result(a, b, type, confidence).type = type
           /\ Result(a, b, type, confidence).confidence = confidence
BY DEF Result

LEMMA ArpSound ==
    ASSUME NEW ips \in Seq(Ips), NEW v \in Views, NEW r \in ArpNeighbors(ips, v)
    PROVE  Sound(r, ips)
<1>1. PICK q \in Listed(ips) \X Listed(ips) :
        /\ q[1] # q[2] /\ v.mac[q[1]] # {} /\ v.mac[q[1]] = v.mac[q[2]]
        /\ r = Result(q[1], q[2], "arp_neighbor", 90)
  BY DEF ArpNeighbors
<1>2. r.ends = {q[1], q[2]} /\ r.type = "arp_neighbor" /\ r.confidence = 90
  BY <1>1, ResultFields
<1> DEFINE a == q[1]
           b == q[2]
<1>3. a \in Ips /\ v.mac \in [Ips -> SUBSET Ips]
  <2>1. v \in View /\ q[1] \in Listed(ips)
    BY ViewAssumption
  <2> QED BY <2>1, ListedIps DEF View
<1>4. v.mac[a] \in SUBSET Ips /\ v.mac[a] # {} /\ v.mac[a] = v.mac[b] /\ a # b
  BY <1>1, <1>3
<1>5. r.ends = {a, b} /\ a \in Listed(ips) /\ b \in Listed(ips)
  BY <1>2
<1> HIDE DEF a, b
<1>6. \A l \in Links : l.type = r.type /\ IpsOf(l) = r.ends => Evidence[l] = 90
  <2> SUFFICES ASSUME NEW l \in Links, l.type = r.type, IpsOf(l) = r.ends PROVE Evidence[l] = 90
    OBVIOUS
  <2>2. IpsOf(l) = {a, b} /\ l.type = "arp_neighbor"
    BY <1>2, <1>5
  <2> QED BY <1>4, <2>2, ArpEvidence
<1> QED BY <1>2, <1>5, <1>6 DEF Sound, Providers, Confidence

LEMMA SubnetSound ==
    ASSUME NEW ips \in Seq(Ips), NEW present \in Presences, NEW r \in SubnetAdjacent(ips, present)
    PROVE  Sound(r, ips)
<1> DEFINE here == {d \in present : AddressOf[d] \in Listed(ips)}
<1>1. PICK q \in here \X here :
        /\ q[1] # q[2] /\ SubnetsOf(q[1]) \cap SubnetsOf(q[2]) # {}
        /\ r = Result(AddressOf[q[1]], AddressOf[q[2]], "subnet_adjacent", 60)
  BY DEF SubnetAdjacent
<1>2. r.ends = {AddressOf[q[1]], AddressOf[q[2]]} /\ r.type = "subnet_adjacent" /\ r.confidence = 60
  BY <1>1, ResultFields
<1>3. q[1] \in Devices /\ q[2] \in Devices
  BY <1>1, TableAssumption
<1>4. \A l \in Links : l.type = r.type /\ IpsOf(l) = r.ends => Evidence[l] = 60
  BY <1>1, <1>2, <1>3, SubnetEvidence
<1>5. AddressOf[q[1]] \in Listed(ips) /\ AddressOf[q[2]] \in Listed(ips)
  BY <1>1
<1> QED BY <1>2, <1>4, <1>5 DEF Sound, Providers, Confidence

LEMMA PairListed ==
    ASSUME NEW ips, NEW q \in PairsOf(ips)
    PROVE  q[1] \in Listed(ips) /\ q[2] \in Listed(ips)
BY DEF PairsOf, Listed

LEMMA ReachableSound ==
    ASSUME NEW ips \in Seq(Ips), NEW v \in Views, NEW r \in Reachable(ips, v)
    PROVE  Sound(r, ips)
<1>1. PICK q \in PairsOf(ips) : q[2] \in v.answers /\ r = Result(q[1], q[2], "reachable", 85)
  BY DEF Reachable
<1>2. r.ends = {q[1], q[2]} /\ r.type = "reachable" /\ r.confidence = 85
  BY <1>1, ResultFields
<1>3. \A l \in Links : l.type = r.type /\ IpsOf(l) = r.ends => Evidence[l] = 85
  BY <1>1, <1>2, ReachableEvidence
<1>4. q[1] \in Listed(ips) /\ q[2] \in Listed(ips)
  BY PairListed
<1> QED BY <1>2, <1>3, <1>4 DEF Sound, Providers, Confidence

LEMMA HopSound ==
    ASSUME NEW ips \in Seq(Ips), NEW v \in Views, NEW hops \in Traceroutes(ips, v), NEW r \in hops
    PROVE  Sound(r, ips)
<1> DEFINE ways == {[from |-> h.from, to |-> h.to] : h \in Hops(ips, v)}
<1>a. PICK f \in [ways -> {50, 60}] :
        /\ \A h \in ways : [from |-> h.from, to |-> h.to, confidence |-> f[h]] \in Hops(ips, v)
        /\ hops = {Result(h.from, h.to, "traceroute_hop", f[h]) : h \in ways}
  BY DEF Traceroutes
<1>b. PICK h \in ways : r = Result(h.from, h.to, "traceroute_hop", f[h])
  BY <1>a
<1> DEFINE from == h.from
           to   == h.to
           c    == f[h]
<1>1. /\ [from |-> from, to |-> to, confidence |-> c] \in Hops(ips, v)
      /\ r = Result(from, to, "traceroute_hop", c) /\ c \in {50, 60}
  BY <1>a, <1>b
<1> HIDE DEF from, to, c, ways
<1>2. PICK a \in {q[2] : q \in PairsOf(ips)} :
        [from |-> from, to |-> to, confidence |-> c] \in
           {[from |-> v.route[a][p[1]], to |-> v.route[a][p[2]],
             confidence |-> IF \E k \in Known(ips, v, a) : k < p[1] THEN 50 ELSE 60] :
                p \in Nexts(ips, v, a)}
  BY <1>1 DEF Hops
<1>3. PICK p \in Nexts(ips, v, a) : from = v.route[a][p[1]] /\ to = v.route[a][p[2]]
  BY <1>2
<1>4. /\ p[1] < p[2] /\ p[1] \in DOMAIN v.route[a] /\ p[2] \in DOMAIN v.route[a]
      /\ from \in Listed(ips) /\ to \in Listed(ips)
  BY <1>3 DEF Nexts, Known
<1>5. a \in Ips
  BY <1>2, PairListed, ListedIps
<1>6. r.ends = {from, to} /\ r.type = "traceroute_hop" /\ r.confidence = c
  BY <1>1, ResultFields
<1>7. \A l \in Links : l.type = r.type /\ IpsOf(l) = r.ends => Evidence[l] = 60
  BY <1>3, <1>4, <1>5, <1>6, HopEvidence
<1> QED BY <1>1, <1>4, <1>6, <1>7 DEF Sound, Providers, Confidence

\* What the engine makes of sound results.
LEMMA DeduplicatedSound ==
    ASSUME NEW ips \in Seq(Ips), NEW results, \A r \in results : Sound(r, ips)
    PROVE  /\ Deduplicated(results) \in Results
           /\ \A k \in DOMAIN Deduplicated(results) :
                /\ \E a, b \in Listed(ips) : k.ends = {a, b}
                /\ \A l \in Links : l.type = k.type /\ IpsOf(l) = k.ends =>
                                      Deduplicated(results)[k] <= Evidence[l]
<1> DEFINE f == Deduplicated(results)
           keys == {Key(r) : r \in results}
<1>1. DOMAIN f = keys
  BY DEF Deduplicated
<1>2. \A k \in keys : f[k] = Max(Confidences(results, k))
  BY DEF Deduplicated
<1>3. \A k \in keys : \E r \in results : Key(r) = k /\ f[k] = r.confidence
  <2> SUFFICES ASSUME NEW k \in keys PROVE \E r \in results : Key(r) = k /\ f[k] = r.confidence
    OBVIOUS
  <2>1. Confidences(results, k) # {} /\ Confidences(results, k) \subseteq Confidence
    BY DEF Confidences, Sound
  <2>2. Max(Confidences(results, k)) \in Confidences(results, k)
    BY <2>1, ConfidenceMax
  <2>3. f[k] \in Confidences(results, k)
    BY <1>2, <2>2
  <2> QED BY <2>3 DEF Confidences
<1>4. \A r \in results : Key(r).ends = r.ends /\ Key(r).type = r.type /\ Key(r) \in ResultKey
  <2> SUFFICES ASSUME NEW r \in results
               PROVE  Key(r).ends = r.ends /\ Key(r).type = r.type /\ Key(r) \in ResultKey
    OBVIOUS
  <2>1. r.ends \subseteq Ips /\ r.type \in Providers
    BY ListedIps DEF Sound
  <2> QED BY <2>1 DEF Key, ResultKey
<1>5. f = [k \in keys |-> f[k]] /\ keys \subseteq ResultKey
  BY <1>1, <1>4 DEF Deduplicated
<1> HIDE DEF f, keys
<1>6. \A k \in keys : f[k] \in Confidence
  BY <1>3 DEF Sound
<1>7. f \in [keys -> Confidence]
  BY <1>5, <1>6
<1>8. f \in Results
  BY <1>5, <1>7 DEF Results
<1>9. \A k \in keys : /\ \E a, b \in Listed(ips) : k.ends = {a, b}
                      /\ \A l \in Links : l.type = k.type /\ IpsOf(l) = k.ends => f[k] <= Evidence[l]
  BY <1>3, <1>4 DEF Sound
<1> QED BY <1>1, <1>8, <1>9 DEF f

-----------------------------------------------------------------------------
(* Nodes for addresses, and edges for results.                             *)

LEMMA RunFields ==
    ASSUME BaseType, NEW x \in Runs
    PROVE  /\ run[x].pc \in Place /\ run[x].list \in Seq(Devices \cup Ips) /\ run[x].at \in Nat \ {0}
           /\ run[x].got \in Seq(Node) /\ run[x].next \in {<<>>} \cup Node \cup (Node \X Node)
           /\ run[x].found \in Results /\ run[x].pairs \subseteq Matching
           /\ run[x].nodes \subseteq Node /\ run[x].edges \in EdgeRows
<1>1. run[x] \in Session
  BY DEF BaseType
<1> QED BY <1>1 DEF Session

LEMMA NodeAtOne ==
    ASSUME BaseType, NEW x \in Runs, NEW ip
    PROVE  /\ (\E n \in Got(x) : AddressOf[n[1]] = ip) => NodeAt(x, ip) # {}
           /\ NodeAt(x, ip) # {} => \E n \in Got(x) : AddressOf[n[1]] = ip /\ NodeAt(x, ip) = {n}
<1> DEFINE got == run[x].got
           places == {i \in DOMAIN got : AddressOf[got[i][1]] = ip}
<1>1. got \in Seq(Node)
  BY RunFields
<1>2. DOMAIN got = 1 .. Len(got) /\ Len(got) \in Nat
  BY <1>1
<1>3. NodeAt(x, ip) = IF places = {} THEN {} ELSE {got[Max(places)]}
  BY DEF NodeAt
<1>4. places \in SUBSET (1 .. Len(got))
  BY <1>2
<1>5. places # {} => Max(places) \in places
  BY <1>2, <1>4, PlaceMax
<1> QED BY <1>3, <1>5 DEF Got

\* The direction sorted() gives two ends.
DirectedEnds(m, n) ==
    LET ends == {m, n} IN
    /\ m = CHOOSE a \in ends : TRUE
    /\ n = IF ends = {m} THEN m ELSE CHOOSE a \in ends \ {m} : TRUE

LEMMA EndsOfResultOK ==
    ASSUME BaseType, NEW x \in Runs, NEW k, NEW a, NEW b, k.ends = {a, b},
           NodeAt(x, a) # {}, NodeAt(x, b) # {}
    PROVE  \E m, n \in Got(x) :
              /\ EndsOfResult(x, k) = <<m, n>>
              /\ {AddressOf[m[1]], AddressOf[n[1]]} = k.ends
              /\ DirectedEnds(m, n)
<1> DEFINE ends  == UNION {NodeAt(x, ip) : ip \in k.ends}
           m == CHOOSE n \in ends : TRUE
           n == IF ends = {m} THEN m ELSE CHOOSE c \in ends \ {m} : TRUE
<1>1. PICK p \in Got(x) : AddressOf[p[1]] = a /\ NodeAt(x, a) = {p}
  BY NodeAtOne
<1>2. PICK q \in Got(x) : AddressOf[q[1]] = b /\ NodeAt(x, b) = {q}
  BY NodeAtOne
<1>3. ends = {p, q}
  BY <1>1, <1>2
<1>4. EndsOfResult(x, k) = <<m, n>>
  BY DEF EndsOfResult
<1> HIDE DEF ends
<1>5. m \in ends
  BY <1>3
<1>6. n \in ends /\ ends = {m, n}
  <2>1. CASE ends = {m}
    BY <2>1
  <2>2. CASE ends # {m}
    <3>1. \E c : c \in ends \ {m}
      BY <1>5, <2>2
    <3>2. (CHOOSE c \in ends \ {m} : TRUE) \in ends \ {m}
      BY <3>1
    <3>3. n \in ends \ {m}
      BY <2>2, <3>2
    <3> QED BY <1>3, <1>5, <3>3
  <2> QED BY <2>1, <2>2
<1>7. DirectedEnds(m, n)
  BY <1>6 DEF DirectedEnds
<1>8. m \in Got(x) /\ n \in Got(x) /\ {AddressOf[m[1]], AddressOf[n[1]]} = k.ends
  <2> HIDE DEF m, n
  <2> QED BY <1>1, <1>2, <1>3, <1>5, <1>6
<1> HIDE DEF m, n
<1> QED BY <1>4, <1>7, <1>8

LEMMA SeenDomain ==
    ASSUME BaseType, NEW x \in Runs
    PROVE  DOMAIN EdgesSeen(x) = DOMAIN edges \cup DOMAIN run[x].edges
<1>1. edges \in EdgeRows /\ run[x].edges \in EdgeRows
  BY RunFields DEF BaseType
<1>2. DOMAIN Over(run[x].edges, edges) = DOMAIN run[x].edges \cup DOMAIN edges
  BY <1>1, OverType
<1> QED BY <1>2 DEF EdgesSeen

DrawnFor(x, k, e) ==
    /\ e.from \in Got(x) /\ e.to \in Got(x) /\ e.type = k.type
    /\ <<e.from, e.to>> = EndsOfResult(x, k)
    /\ {AddressOf[e.from[1]], AddressOf[e.to[1]]} = k.ends
    /\ DirectedEnds(e.from, e.to)
    /\ \/ e \in DOMAIN edges \cup DOMAIN run[x].edges
       \/ /\ e = Edge(x, EndsOfResult(x, k), k.type)
          /\ \A f \in DOMAIN edges \cup DOMAIN run[x].edges : Placed(f) # Placed(e)

\* The edge for a result is between nodes of its addresses, and is the one there
\* is between them, or new.
LEMMA EdgeForOK ==
    ASSUME BaseType, NEW x \in Runs, NEW k \in Drawable(x), NEW a, NEW b, k.ends = {a, b}
    PROVE  DrawnFor(x, k, EdgeFor(x, k))
<1> DEFINE seen == DOMAIN edges \cup DOMAIN run[x].edges
           e == EdgeFor(x, k)
           old == Joined(x, EndsOfResult(x, k), k.type)
<1>1. NodeAt(x, a) # {} /\ NodeAt(x, b) # {}
  BY DEF Drawable
<1>2. PICK m, n \in Got(x) :
        /\ EndsOfResult(x, k) = <<m, n>>
        /\ {AddressOf[m[1]], AddressOf[n[1]]} = k.ends
        /\ DirectedEnds(m, n)
  BY <1>1, EndsOfResultOK
<1>3. old = {f \in seen : f.from = m /\ f.to = n /\ f.type = k.type}
  <2>1. DOMAIN EdgesSeen(x) = seen
    BY SeenDomain
  <2>2. EndsOfResult(x, k)[1] = m /\ EndsOfResult(x, k)[2] = n
    BY <1>2
  <2> HIDE DEF seen
  <2> QED BY <2>1, <2>2 DEF Joined
<1>4. e = IF old = {} THEN Edge(x, EndsOfResult(x, k), k.type) ELSE CHOOSE f \in old : TRUE
  BY DEF EdgeFor
<1> HIDE DEF e, old, seen
<1>5. CASE old = {}
  <2>1. e = Edge(x, EndsOfResult(x, k), k.type)
    BY <1>4, <1>5
  <2>2. e.from = m /\ e.to = n /\ e.type = k.type
    BY <1>2, <2>1 DEF Edge
  <2>3. \A f \in seen : Placed(f) # Placed(e)
    BY <1>3, <1>5, <2>2 DEF Placed
  <2> QED BY <1>2, <2>1, <2>2, <2>3 DEF e, seen, DrawnFor
<1>6. CASE old # {}
  <2>1. e \in old
    BY <1>4, <1>6
  <2> QED BY <1>2, <1>3, <2>1 DEF e, seen, DrawnFor
<1> QED BY <1>5, <1>6

-----------------------------------------------------------------------------
(* Rows that are too many.                                                 *)

LEMMA DevicesOf ==
    ASSUME NEW ns, IsFiniteSet(ns)
    PROVE  IsFiniteSet({n[1] : n \in ns})
<1> DEFINE f == [n \in ns |-> n[1]]
<1>1. IsFiniteSet({f[n] : n \in ns})
  <2> DOMAIN f = ns
    OBVIOUS
  <2> HIDE DEF f
  <2> QED BY ImageFinite
<1> QED BY <1>1

LEMMA PlacesOf ==
    ASSUME NEW es, IsFiniteSet(es)
    PROVE  IsFiniteSet({Placed(e) : e \in es})
<1> DEFINE f == [e \in es |-> Placed(e)]
<1>1. IsFiniteSet({f[e] : e \in es})
  <2> DOMAIN f = es
    OBVIOUS
  <2> HIDE DEF f
  <2> QED BY ImageFinite
<1> QED BY <1>1

LEMMA SurplusType ==
    ASSUME NEW ns, IsFiniteSet(ns), NEW es, IsFiniteSet(es)
    PROVE  Surplus(ns, es) \in Int
<1>1. Cardinality(ns) \in Nat /\ Cardinality(es) \in Nat
  BY FS_CardinalityType
<1>2. Cardinality({n[1] : n \in ns}) \in Nat
  BY DevicesOf, FS_CardinalityType
<1>3. Cardinality({Placed(e) : e \in es}) \in Nat
  BY PlacesOf, FS_CardinalityType
<1> QED BY <1>1, <1>2, <1>3 DEF Surplus

LEMMA SurplusNothing == Surplus({}, {}) = 0
<1>1. {n[1] : n \in {}} = {} /\ {Placed(e) : e \in {}} = {} /\ Cardinality({}) = 0
  BY FS_EmptySet
<1> QED BY <1>1 DEF Surplus

LEMMA SurplusNode ==
    ASSUME NEW ns, IsFiniteSet(ns), NEW es, IsFiniteSet(es), NEW n
    PROVE  /\ Surplus(ns \cup {n}, es) <= Surplus(ns, es) + 1
           /\ n \in ns \/ n[1] \notin {m[1] : m \in ns} =>
                Surplus(ns \cup {n}, es) <= Surplus(ns, es)
<1> DEFINE D == {m[1] : m \in ns}
           P == {Placed(e) : e \in es}
<1>1. {m[1] : m \in ns \cup {n}} = D \cup {n[1]}
  OBVIOUS
<1>2. IsFiniteSet(D) /\ IsFiniteSet(P)
  BY DevicesOf, PlacesOf
<1>3. n \in ns => n[1] \in D
  OBVIOUS
<1>4. /\ Surplus(ns, es) = (Cardinality(ns) - Cardinality(D)) + (Cardinality(es) - Cardinality(P))
      /\ Surplus(ns \cup {n}, es) = (Cardinality(ns \cup {n}) - Cardinality(D \cup {n[1]}))
                                       + (Cardinality(es) - Cardinality(P))
  BY <1>1 DEF Surplus
<1> HIDE DEF D, P
<1>5. Cardinality(ns) \in Nat /\ Cardinality(D) \in Nat /\ Cardinality(es) \in Nat /\ Cardinality(P) \in Nat
  BY <1>2, FS_CardinalityType
<1>6. Cardinality(ns \cup {n}) = IF n \in ns THEN Cardinality(ns) ELSE Cardinality(ns) + 1
  BY FS_AddElement
<1>7. Cardinality(D \cup {n[1]}) = IF n[1] \in D THEN Cardinality(D) ELSE Cardinality(D) + 1
  BY <1>2, FS_AddElement
<1>8. /\ Surplus(ns \cup {n}, es) <= Surplus(ns, es) + 1
      /\ n \in ns \/ n[1] \notin D => Surplus(ns \cup {n}, es) <= Surplus(ns, es)
  BY <1>3, <1>4, <1>5, <1>6, <1>7
<1> QED BY <1>8 DEF D

\* Edges between places where there is none yet add none too many.
LEMMA SurplusNewEdges ==
    ASSUME NEW ns, IsFiniteSet(ns), NEW es, IsFiniteSet(es), NEW fs, IsFiniteSet(fs),
           \A e \in fs : \A f \in es : Placed(e) # Placed(f),
           \A e, f \in fs : Placed(e) = Placed(f) => e = f
    PROVE  Surplus(ns, es \cup fs) = Surplus(ns, es)
<1> DEFINE D == {m[1] : m \in ns}
           P == {Placed(e) : e \in es}
           Q == {Placed(e) : e \in fs}
           g == [e \in fs |-> Placed(e)]
<1>1. {Placed(e) : e \in es \cup fs} = P \cup Q
  OBVIOUS
<1>2. IsFiniteSet(D) /\ IsFiniteSet(P) /\ IsFiniteSet(Q)
  BY DevicesOf, PlacesOf
<1>3. es \cap fs = {} /\ P \cap Q = {}
  OBVIOUS
<1>4. g \in Bijection(fs, Q)
  <2>1. g \in Injection(fs, Q)
    BY DEF Injection, IsInjective
  <2>2. g \in Surjection(fs, Q)
    BY DEF Surjection
  <2> QED BY <2>1, <2>2 DEF Bijection
<1>5. /\ Surplus(ns, es) = (Cardinality(ns) - Cardinality(D)) + (Cardinality(es) - Cardinality(P))
      /\ Surplus(ns, es \cup fs) = (Cardinality(ns) - Cardinality(D))
                                       + (Cardinality(es \cup fs) - Cardinality(P \cup Q))
  BY <1>1 DEF Surplus
<1> HIDE DEF D, P, Q, g
<1>6. Cardinality(Q) = Cardinality(fs)
  BY <1>4, FS_Bijection DEF ExistsBijection
<1>7. /\ Cardinality(ns) \in Nat /\ Cardinality(D) \in Nat /\ Cardinality(es) \in Nat
      /\ Cardinality(P) \in Nat /\ Cardinality(fs) \in Nat /\ Cardinality({}) = 0
  BY <1>2, FS_CardinalityType, FS_EmptySet
<1>8. Cardinality(es \cup fs) = Cardinality(es) + Cardinality(fs)
  BY <1>3, <1>7, FS_Union
<1>9. Cardinality(P \cup Q) = Cardinality(P) + Cardinality(Q)
  <2>1. Cardinality(P \cup Q) = Cardinality(P) + Cardinality(Q) - Cardinality(P \cap Q)
    BY <1>2, FS_Union
  <2>2. Cardinality(P \cap Q) = 0
    BY <1>3, <1>7
  <2> QED BY <1>6, <1>7, <2>1, <2>2
<1> QED BY <1>5, <1>6, <1>7, <1>8, <1>9

\* One edge more is at most one too many.
LEMMA SurplusEdge ==
    ASSUME NEW ns, IsFiniteSet(ns), NEW es, IsFiniteSet(es), NEW e
    PROVE  /\ Surplus(ns, es \cup {e}) <= Surplus(ns, es) + 1
           /\ (\A f \in es : Placed(f) # Placed(e)) => Surplus(ns, es \cup {e}) <= Surplus(ns, es)
<1> DEFINE D == {m[1] : m \in ns}
           P == {Placed(f) : f \in es}
           p == Placed(e)
<1>1. {Placed(f) : f \in es \cup {e}} = P \cup {p}
  OBVIOUS
<1>2. IsFiniteSet(D) /\ IsFiniteSet(P)
  BY DevicesOf, PlacesOf
<1>3. (e \in es => p \in P) /\ ((\A f \in es : Placed(f) # p) => p \notin P)
  OBVIOUS
<1>4. /\ Surplus(ns, es) = (Cardinality(ns) - Cardinality(D)) + (Cardinality(es) - Cardinality(P))
      /\ Surplus(ns, es \cup {e}) = (Cardinality(ns) - Cardinality(D))
                                       + (Cardinality(es \cup {e}) - Cardinality(P \cup {p}))
  BY <1>1 DEF Surplus
<1> HIDE DEF D, P
<1>5. Cardinality(ns) \in Nat /\ Cardinality(D) \in Nat /\ Cardinality(es) \in Nat /\ Cardinality(P) \in Nat
  BY <1>2, FS_CardinalityType
<1>6. Cardinality(es \cup {e}) = IF e \in es THEN Cardinality(es) ELSE Cardinality(es) + 1
  BY FS_AddElement
<1>7. Cardinality(P \cup {p}) = IF p \in P THEN Cardinality(P) ELSE Cardinality(P) + 1
  BY <1>2, FS_AddElement
<1> HIDE DEF p
<1>8. /\ Surplus(ns, es \cup {e}) <= Surplus(ns, es) + 1
      /\ p \notin P => Surplus(ns, es \cup {e}) <= Surplus(ns, es)
  BY <1>3, <1>4, <1>5, <1>6, <1>7
<1> QED BY <1>3, <1>8 DEF p

-----------------------------------------------------------------------------
(* What a step of one run leaves alone.                                    *)

\* Every field of the session of x after a step.
Fields(x, pc, list, at, got, next, found, pairs, ns, es) ==
    /\ run'[x].pc = pc /\ run'[x].list = list /\ run'[x].at = at /\ run'[x].got = got
    /\ run'[x].next = next /\ run'[x].found = found /\ run'[x].pairs = pairs
    /\ run'[x].nodes = ns /\ run'[x].edges = es

Frame(x) ==
    /\ run' \in [Runs -> Session]
    /\ \A z \in Runs : z # x => run'[z] = run[z]

LEMMA Assigned ==
    ASSUME BaseType, NEW x \in Runs, NEW v \in Session, run' = [run EXCEPT ![x] = v]
    PROVE  /\ Frame(x)
           /\ Fields(x, v.pc, v.list, v.at, v.got, v.next, v.found, v.pairs, v.nodes, v.edges)
<1>1. run \in [Runs -> Session]
  BY DEF BaseType
<1>2. run' \in [Runs -> Session] /\ run'[x] = v /\ \A z \in Runs : z # x => run'[z] = run[z]
  BY <1>1
<1> QED BY <1>2 DEF Frame, Fields

\* A step of x that commits nothing.
Local(x) ==
    /\ Frame(x)
    /\ nodes' = nodes /\ edges' = edges
    /\ lock' = lock \/ (lock \in {x, NoRun} /\ lock' \in {x, NoRun})
    /\ run[x].pc # "done" /\ run'[x].pc # "done"

\* What z sees of a step of another run: nothing, or, if it has not got the lock,
\* that the tables grow.
Grows(z) ==
    \/ nodes' = nodes /\ edges' = edges /\ (lock' = z <=> lock = z)
    \/ /\ lock # z /\ lock' # z
       /\ nodes \subseteq nodes' /\ DOMAIN edges \subseteq DOMAIN edges'
       /\ \A e \in DOMAIN edges : edges[e] <= edges'[e]

LEMMA DrawnGrows ==
    ASSUME NEW f, NEW g, NEW found,
           DOMAIN f \subseteq DOMAIN g, \A e \in DOMAIN f : f[e] \in Nat /\ g[e] \in Nat /\ f[e] <= g[e],
           \A k \in DOMAIN found : found[k] \in Nat, DrawnBy(f, found)
    PROVE  DrawnBy(g, found)
BY DEF DrawnBy

LEMMA ConfidenceNat == Confidence \subseteq Nat
  BY DEF Confidence

LEMMA OthersKeep ==
    ASSUME BaseType, BaseType', NEW z \in Runs, SessionOK(z), run'[z] = run[z], Grows(z)
    PROVE  SessionOK(z)'
<1>1. CASE nodes' = nodes /\ edges' = edges /\ (lock' = z <=> lock = z)
  <2>1. NodesSeen(z)' = NodesSeen(z) /\ EdgesSeen(z)' = EdgesSeen(z) /\ Got(z)' = Got(z)
    BY <1>1 DEF NodesSeen, EdgesSeen, Got
  <2>2. LockOK(z)' /\ PlaceOK(z)' /\ ListOK(z)'
    BY <1>1 DEF SessionOK, LockOK, PlaceOK, ListOK
  <2>3. CoverOK(z)' /\ (Got(z) \subseteq NodesSeen(z))'
    BY <1>1, <2>1 DEF SessionOK, CoverOK
  <2>4. NextOK(z)'
    BY <1>1, <2>1 DEF SessionOK, NextOK
  <2>5. FreshOK(z)'
    BY <1>1, <2>1 DEF SessionOK, FreshOK, NodesOf, Joined
  <2>6. FoundOK(z)' /\ DrawnOK(z)'
    BY <1>1 DEF SessionOK, FoundOK, DrawnOK
  <2>7. OwnOK(z)'
    BY <1>1, <2>1 DEF SessionOK, OwnOK
  <2>8. SurplusOK(z)'
    BY <1>1, <2>1 DEF SessionOK, SurplusOK
  <2> QED BY <2>2, <2>3, <2>4, <2>5, <2>6, <2>7, <2>8 DEF SessionOK
<1>2. CASE /\ lock # z /\ lock' # z
           /\ nodes \subseteq nodes' /\ DOMAIN edges \subseteq DOMAIN edges'
           /\ \A e \in DOMAIN edges : edges[e] <= edges'[e]
  <2>1. NodesSeen(z) \subseteq NodesSeen(z)' /\ Got(z)' = Got(z)
    BY <1>2 DEF NodesSeen, Got
  <2>2. LockOK(z)' /\ PlaceOK(z)' /\ ListOK(z)'
    BY <1>2 DEF SessionOK, LockOK, PlaceOK, ListOK
  <2>3. CoverOK(z)' /\ (Got(z) \subseteq NodesSeen(z))'
    BY <2>1 DEF SessionOK, CoverOK
  <2>4. NextOK(z)'
    BY <2>1 DEF SessionOK, NextOK
  <2>5. FreshOK(z)' /\ SurplusOK(z)'
    BY <1>2 DEF FreshOK, SurplusOK
  <2>6. FoundOK(z)'
    BY DEF SessionOK, FoundOK
  <2>7. OwnOK(z)'
    <3>1. run'[z].edges = NoRows /\ run'[z].nodes = {}
      BY <1>2 DEF SessionOK, LockOK
    <3>2. IsFiniteSet({})
      BY FS_EmptySet
    <3> QED BY <3>1, <3>2, NoRowsDomain DEF OwnOK
  <2>8. DrawnOK(z)'
    <3>1. run[z].pc = "done" => DrawnBy(edges, run[z].found)
      BY DEF SessionOK, DrawnOK
    <3>2. \A e \in DOMAIN edges : edges[e] \in Nat
      BY RowsType, ConfidenceNat DEF BaseType
    <3>3. \A e \in DOMAIN edges' : edges'[e] \in Nat
      BY RowsType, ConfidenceNat DEF BaseType
    <3>4. \A k \in DOMAIN run[z].found : run[z].found[k] \in Nat
      BY RunFields, ResultsType, ConfidenceNat
    <3>5. run[z].pc = "done" => DrawnBy(edges', run[z].found)
      BY <1>2, <3>1, <3>2, <3>3, <3>4, DrawnGrows
    <3> QED BY <3>5 DEF SessionOK, DrawnOK
  <2> QED BY <2>2, <2>3, <2>4, <2>5, <2>6, <2>7, <2>8 DEF SessionOK
<1> QED BY <1>1, <1>2 DEF Grows

\* With a local step there is only the session of x to look at.
LEMMA LocalKeeps ==
    ASSUME TopologyInv, NEW x \in Runs, Local(x), SessionOK(x)'
    PROVE  TopologyInv'
<1>1. Done' = Done
  <2>1. \A z \in Runs : run'[z].pc = "done" <=> run[z].pc = "done"
    BY DEF Local, Frame
  <2> QED BY <2>1 DEF Done, At
<1>2. NoRun \notin Runs /\ lock \in Runs \cup {NoRun}
  BY RunAssumption DEF TopologyInv, BaseType
<1>3. BaseType'
  BY <1>1, <1>2 DEF TopologyInv, BaseType, Local, Frame
<1>4. RowsOK'
  BY <1>1 DEF TopologyInv, RowsOK, Local
<1>5. BoundOK'
  BY <1>1 DEF TopologyInv, BoundOK, Local
<1>6. ASSUME NEW z \in Runs, z # x PROVE SessionOK(z)'
  <2>1. Grows(z)
    BY <1>2, <1>6 DEF Grows, Local
  <2>2. run'[z] = run[z]
    BY <1>6 DEF Local, Frame
  <2> QED BY <1>3, <2>1, <2>2, OthersKeep DEF TopologyInv
<1> QED BY <1>3, <1>4, <1>5, <1>6 DEF TopologyInv

\* What does not change for x itself, when its rows stay as they are.
LEMMA SameRows ==
    ASSUME NEW x \in Runs, SessionOK(x), nodes' = nodes, edges' = edges, lock' = lock,
           run'[x].nodes = run[x].nodes, run'[x].edges = run[x].edges
    PROVE  /\ OwnOK(x)' /\ SurplusOK(x)'
           /\ NodesSeen(x)' = NodesSeen(x) /\ EdgesSeen(x)' = EdgesSeen(x)
<1>1. NodesSeen(x)' = NodesSeen(x) /\ EdgesSeen(x)' = EdgesSeen(x)
  BY DEF NodesSeen, EdgesSeen
<1>2. OwnOK(x)'
  BY <1>1 DEF SessionOK, OwnOK
<1>3. SurplusOK(x)'
  BY <1>1 DEF SessionOK, SurplusOK
<1> QED BY <1>1, <1>2, <1>3

-----------------------------------------------------------------------------
(* The steps that write nothing.                                           *)

LEMMA GotAppend ==
    ASSUME NEW got \in Seq(Node), NEW n \in Node
    PROVE  /\ Append(got, n) \in Seq(Node)
           /\ {Append(got, n)[i] : i \in DOMAIN Append(got, n)} = {got[i] : i \in DOMAIN got} \cup {n}
<1> DEFINE s == Append(got, n)
<1>1. s \in Seq(Node) /\ DOMAIN s = 1 .. (Len(got) + 1) /\ Len(got) \in Nat /\ DOMAIN got = 1 .. Len(got)
  OBVIOUS
<1>2. \A i \in DOMAIN got : s[i] = got[i]
  OBVIOUS
<1>3. s[Len(got) + 1] = n
  OBVIOUS
<1> HIDE DEF s
<1>4. \A i \in DOMAIN s : i \in DOMAIN got \/ i = Len(got) + 1
  BY <1>1
<1>5. {s[i] : i \in DOMAIN s} \subseteq {got[i] : i \in DOMAIN got} \cup {n}
  BY <1>2, <1>3, <1>4
<1>6. DOMAIN got \subseteq DOMAIN s /\ Len(got) + 1 \in DOMAIN s
  BY <1>1
<1>7. {got[i] : i \in DOMAIN got} \cup {n} \subseteq {s[i] : i \in DOMAIN s}
  BY <1>2, <1>3, <1>6
<1>8. s \in Seq(Node) /\ {s[i] : i \in DOMAIN s} = {got[i] : i \in DOMAIN got} \cup {n}
  BY <1>1, <1>5, <1>7
<1> QED BY <1>8 DEF s

LEMMA InBuild ==
    ASSUME NEW x \in Runs
    PROVE  x \in Builds <=> x \notin Discoveries
BY RunAssumption DEF Runs

LEMMA StartBuildKeeps ==
    ASSUME TopologyInv, NEW x \in Runs, StartBuild(x)
    PROVE  TopologyInv'
<1>0. BaseType /\ SessionOK(x) /\ x \in Builds /\ run[x].pc = "idle"
  BY DEF TopologyInv, StartBuild, At
<1>1. PICK present \in Presences : \E devices \in InOrder(present) :
         run' = [run EXCEPT ![x].pc = "nodes", ![x].list = devices,
                            ![x].pairs = {p \in Matching : p[1] \in present /\ p[2] \in present}]
  BY DEF StartBuild
<1>2. PICK devices \in InOrder(present) :
         run' = [run EXCEPT ![x].pc = "nodes", ![x].list = devices,
                            ![x].pairs = {p \in Matching : p[1] \in present /\ p[2] \in present}]
  BY <1>1
<1> DEFINE pairs == {p \in Matching : p[1] \in present /\ p[2] \in present}
           v == [run[x] EXCEPT !.pc = "nodes", !.list = devices, !.pairs = pairs]
<1>3. present \subseteq Devices
  BY TableAssumption
<1>4. devices \in Seq(present) /\ Listed(devices) = present
  BY <1>3, InOrderCovers
<1>5. devices \in Seq(Devices \cup Ips)
  BY <1>3, <1>4
<1>6. run[x] \in Session
  BY <1>0 DEF BaseType
<1>7. /\ v \in Session /\ v.pc = "nodes" /\ v.list = devices /\ v.at = run[x].at /\ v.got = run[x].got
      /\ v.next = run[x].next /\ v.found = run[x].found /\ v.pairs = pairs
      /\ v.nodes = run[x].nodes /\ v.edges = run[x].edges
  BY <1>5, <1>6 DEF Session, Place
<1>8. run' = [run EXCEPT ![x] = v]
  BY <1>2
<1> HIDE DEF v
<1>9. Frame(x) /\ Fields(x, "nodes", devices, run[x].at, run[x].got, run[x].next, run[x].found,
                         pairs, run[x].nodes, run[x].edges)
  BY <1>0, <1>7, <1>8, Assigned
<1>10. nodes' = nodes /\ edges' = edges /\ lock' = lock
  BY DEF StartBuild
<1>11. Local(x)
  BY <1>0, <1>9, <1>10 DEF Local, Fields
<1>12. /\ run[x].nodes = {} /\ run[x].got = <<>> /\ run[x].edges = NoRows /\ run[x].at = 1
       /\ run[x].found = NoRows
  BY <1>0 DEF SessionOK, PlaceOK
<1>13. OwnOK(x)' /\ SurplusOK(x)' /\ NodesSeen(x)' = NodesSeen(x)
  BY <1>0, <1>9, <1>10, SameRows DEF Fields
<1>14. Got(x)' = {}
  BY <1>9, <1>12 DEF Fields, Got
<1>15. LockOK(x)' /\ PlaceOK(x)'
  BY <1>0, <1>9, <1>12 DEF LockOK, PlaceOK, Fields
<1>16. ListOK(x)'
  <2>1. \A i \in DOMAIN devices : devices[i] \in Devices
    BY <1>3, <1>4 DEF Listed
  <2> QED BY <1>0, <1>4, <1>9, <2>1, InBuild DEF ListOK, Fields
<1>17. CoverOK(x)'
  <2>1. \A i \in DOMAIN devices : ~ (i < 1)
    BY <1>5
  <2> QED BY <1>9, <1>12, <2>1 DEF CoverOK, Fields
<1>18. NextOK(x)' /\ FreshOK(x)' /\ DrawnOK(x)'
  BY <1>9 DEF NextOK, FreshOK, DrawnOK, Fields
<1>19. FoundOK(x)'
  BY <1>9, <1>12, NoRowsDomain DEF FoundOK, Fields
<1>20. SessionOK(x)'
  BY <1>13, <1>14, <1>15, <1>16, <1>17, <1>18, <1>19 DEF SessionOK
<1> QED BY <1>11, <1>20, LocalKeeps

\* The lists a discovery can begin with are lists of addresses.
LEMMA RequestedType ==
    ASSUME NEW ips \in Requested
    PROVE  ips \in Seq(Ips)
<1>1. CASE ips \in Lists
  BY <1>1, TableAssumption
<1>2. CASE ips \notin Lists
  <2>1. PICK devices \in UNION {InOrder(present) : present \in Presences} :
          ips = [i \in DOMAIN devices |-> AddressOf[devices[i]]]
    BY <1>2 DEF Requested
  <2>2. PICK present \in Presences : devices \in InOrder(present)
    BY <2>1
  <2>3. present \subseteq Devices
    BY TableAssumption
  <2>4. devices \in Seq(present)
    BY <2>2, <2>3, InOrderCovers
  <2>5. \A i \in DOMAIN devices : AddressOf[devices[i]] \in Ips
    BY <2>3, <2>4, TableAssumption
  <2>6. DOMAIN devices = 1 .. Len(devices) /\ Len(devices) \in Nat
    BY <2>4
  <2>7. ips \in [1 .. Len(devices) -> Ips]
    BY <2>1, <2>5, <2>6
  <2> QED BY <2>6, <2>7, SeqDef
<1> QED BY <1>1, <1>2

LEMMA StartDiscoveryKeeps ==
    ASSUME TopologyInv, NEW x \in Runs, StartDiscovery(x)
    PROVE  TopologyInv'
<1>0. BaseType /\ SessionOK(x) /\ x \in Discoveries /\ run[x].pc = "idle"
  BY DEF TopologyInv, StartDiscovery, At
<1>1. PICK ips \in Requested :
         run' = [run EXCEPT ![x].pc = IF Len(ips) < 2 THEN "nodes" ELSE "probe", ![x].list = ips]
  BY DEF StartDiscovery
<1> DEFINE place == IF Len(ips) < 2 THEN "nodes" ELSE "probe"
           v == [run[x] EXCEPT !.pc = place, !.list = ips]
<1>2. ips \in Seq(Ips)
  BY RequestedType
<1>3. ips \in Seq(Devices \cup Ips)
  BY <1>2
<1>4. place \in {"nodes", "probe"} /\ run[x] \in Session
  BY <1>0 DEF BaseType
<1> HIDE DEF place
<1>5. /\ v \in Session /\ v.pc = place /\ v.list = ips /\ v.at = run[x].at /\ v.got = run[x].got
      /\ v.next = run[x].next /\ v.found = run[x].found /\ v.pairs = run[x].pairs
      /\ v.nodes = run[x].nodes /\ v.edges = run[x].edges
  BY <1>3, <1>4 DEF Session, Place
<1>6. run' = [run EXCEPT ![x] = v]
  BY <1>1 DEF place
<1> HIDE DEF v
<1>9. Frame(x) /\ Fields(x, place, ips, run[x].at, run[x].got, run[x].next, run[x].found,
                         run[x].pairs, run[x].nodes, run[x].edges)
  BY <1>0, <1>5, <1>6, Assigned
<1>10. nodes' = nodes /\ edges' = edges /\ lock' = lock
  BY DEF StartDiscovery
<1>11. Local(x)
  BY <1>0, <1>4, <1>9, <1>10 DEF Local, Fields
<1>12. /\ run[x].nodes = {} /\ run[x].got = <<>> /\ run[x].edges = NoRows /\ run[x].at = 1
       /\ run[x].found = NoRows
  BY <1>0 DEF SessionOK, PlaceOK
<1>13. OwnOK(x)' /\ SurplusOK(x)' /\ NodesSeen(x)' = NodesSeen(x)
  BY <1>0, <1>9, <1>10, SameRows DEF Fields
<1>14. Got(x)' = {}
  BY <1>9, <1>12 DEF Fields, Got
<1>15. LockOK(x)' /\ PlaceOK(x)'
  BY <1>0, <1>4, <1>9, <1>12 DEF LockOK, PlaceOK, Fields
<1>16. ListOK(x)'
  <2>1. \A i \in DOMAIN ips : ips[i] \in Ips
    BY <1>2
  <2> QED BY <1>0, <1>9, <2>1, InBuild DEF ListOK, Fields
<1>17. CoverOK(x)'
  <2>1. \A i \in DOMAIN ips : ~ (i < 1)
    BY <1>2
  <2> QED BY <1>9, <1>12, <2>1 DEF CoverOK, Fields
<1>18. NextOK(x)' /\ FreshOK(x)' /\ DrawnOK(x)'
  BY <1>4, <1>9 DEF NextOK, FreshOK, DrawnOK, Fields
<1>19. FoundOK(x)'
  BY <1>9, <1>12, NoRowsDomain DEF FoundOK, Fields
<1>20. SessionOK(x)'
  BY <1>13, <1>14, <1>15, <1>16, <1>17, <1>18, <1>19 DEF SessionOK
<1> QED BY <1>11, <1>20, LocalKeeps

LEMMA ProbeKeeps ==
    ASSUME TopologyInv, NEW x \in Runs, Probe(x)
    PROVE  TopologyInv'
<1>0. BaseType /\ SessionOK(x) /\ x \in Discoveries /\ x \notin Builds /\ run[x].pc = "probe"
  BY InBuild DEF TopologyInv, Probe, At, SessionOK, PlaceOK
<1>1. PICK v \in Views, present \in Presences, asked \in Selections :
        \E hops \in Traceroutes(run[x].list, v) :
          LET all == ArpNeighbors(run[x].list, v) \cup SubnetAdjacent(run[x].list, present)
                       \cup Reachable(run[x].list, v) \cup hops IN
          run' = [run EXCEPT ![x].pc = "nodes",
                             ![x].found = Deduplicated({r \in all : r.type \in asked})]
  BY DEF Probe
<1>2. PICK hops \in Traceroutes(run[x].list, v) :
          LET all == ArpNeighbors(run[x].list, v) \cup SubnetAdjacent(run[x].list, present)
                       \cup Reachable(run[x].list, v) \cup hops IN
          run' = [run EXCEPT ![x].pc = "nodes",
                             ![x].found = Deduplicated({r \in all : r.type \in asked})]
  BY <1>1
<1> DEFINE all == ArpNeighbors(run[x].list, v) \cup SubnetAdjacent(run[x].list, present)
                    \cup Reachable(run[x].list, v) \cup hops
           results == {r \in all : r.type \in asked}
           found == Deduplicated(results)
           s == [run[x] EXCEPT !.pc = "nodes", !.found = found]
<1>3. run[x].list \in Seq(Ips)
  <2>1. \A i \in DOMAIN run[x].list : run[x].list[i] \in Ips
    BY <1>0 DEF SessionOK, ListOK
  <2>2. run[x].list \in Seq(Devices \cup Ips)
    BY <1>0, RunFields
  <2>3. run[x].list \in [1 .. Len(run[x].list) -> Ips] /\ Len(run[x].list) \in Nat
    BY <2>1, <2>2
  <2> QED BY <2>3, SeqDef
<1>4. \A r \in results : Sound(r, run[x].list)
  BY <1>3, ArpSound, SubnetSound, ReachableSound, HopSound
<1>5. run[x] \in Session
  BY <1>0 DEF BaseType
<1> HIDE DEF results
<1>6. /\ found \in Results
      /\ \A k \in DOMAIN found :
           /\ \E a, b \in Listed(run[x].list) : k.ends = {a, b}
           /\ \A l \in Links : l.type = k.type /\ IpsOf(l) = k.ends => found[k] <= Evidence[l]
  BY <1>3, <1>4, DeduplicatedSound
<1>8. run' = [run EXCEPT ![x] = s]
  BY <1>2 DEF results
<1> HIDE DEF found
<1>7. /\ s \in Session /\ s.pc = "nodes" /\ s.list = run[x].list /\ s.at = run[x].at
      /\ s.got = run[x].got /\ s.next = run[x].next /\ s.found = found /\ s.pairs = run[x].pairs
      /\ s.nodes = run[x].nodes /\ s.edges = run[x].edges
  BY <1>5, <1>6 DEF Session, Place
<1> HIDE DEF s
<1>9. Frame(x) /\ Fields(x, "nodes", run[x].list, run[x].at, run[x].got, run[x].next, found,
                         run[x].pairs, run[x].nodes, run[x].edges)
  BY <1>0, <1>7, <1>8, Assigned
<1>10. nodes' = nodes /\ edges' = edges /\ lock' = lock
  BY DEF Probe
<1>11. Local(x)
  BY <1>0, <1>9, <1>10 DEF Local, Fields
<1>12. run[x].nodes = {} /\ run[x].got = <<>> /\ run[x].edges = NoRows /\ run[x].at = 1
  BY <1>0 DEF SessionOK, PlaceOK
<1>13. OwnOK(x)' /\ SurplusOK(x)' /\ NodesSeen(x)' = NodesSeen(x)
  BY <1>0, <1>9, <1>10, SameRows DEF Fields
<1>14. Got(x)' = {}
  BY <1>9, <1>12 DEF Fields, Got
<1>15. LockOK(x)' /\ PlaceOK(x)'
  BY <1>0, <1>9, <1>12 DEF LockOK, PlaceOK, Fields
<1>16. ListOK(x)'
  BY <1>0, <1>9 DEF SessionOK, ListOK, Fields
<1>17. CoverOK(x)'
  <2>1. \A i \in DOMAIN run[x].list : ~ (i < 1)
    BY <1>3
  <2> QED BY <1>9, <1>12, <2>1 DEF CoverOK, Fields
<1>18. NextOK(x)' /\ FreshOK(x)' /\ DrawnOK(x)'
  BY <1>9 DEF NextOK, FreshOK, DrawnOK, Fields
<1>19. FoundOK(x)'
  BY <1>6, <1>9 DEF FoundOK, Fields, IpsOf
<1>20. SessionOK(x)'
  BY <1>13, <1>14, <1>15, <1>16, <1>17, <1>18, <1>19 DEF SessionOK
<1> QED BY <1>11, <1>20, LocalKeeps

\* What Ensuring and Candidates say.
LEMMA CandidatesOK ==
    ASSUME BaseType, NEW x \in Runs, SessionOK(x), Ensuring(x)
    PROVE  /\ run[x].pc = "nodes" /\ run[x].at \in DOMAIN run[x].list
           /\ run[x].list \in Seq(Devices \cup Ips)
           /\ Candidates(x) \subseteq Devices
           /\ x \in Builds => Candidates(x) = {run[x].list[run[x].at]}
           /\ x \in Discoveries =>
                Candidates(x) = {d \in Devices : AddressOf[d] = run[x].list[run[x].at]}
<1>1. run[x].list \in Seq(Devices \cup Ips) /\ run[x].at \in Nat \ {0}
  BY RunFields
<1>2. run[x].pc = "nodes" /\ run[x].at \in DOMAIN run[x].list
  BY <1>1 DEF Ensuring, At
<1>3. x \in Builds => run[x].list[run[x].at] \in Devices
  BY <1>2 DEF SessionOK, ListOK
<1> QED BY <1>1, <1>2, <1>3, InBuild DEF Candidates

\* The list is passed one place at a time.
LEMMA CoverNext ==
    ASSUME BaseType, NEW x \in Runs, SessionOK(x),
           run'[x].list = run[x].list, run'[x].at = run[x].at + 1, Got(x) \subseteq Got(x)',
           run[x].at \in DOMAIN run[x].list,
           x \in Builds => \E n \in Got(x)' : n[1] = run[x].list[run[x].at],
           x \in Discoveries /\ run[x].list[run[x].at] \in Addresses =>
             \E n \in Got(x)' : AddressOf[n[1]] = run[x].list[run[x].at]
    PROVE  CoverOK(x)'
<1>1. CoverOK(x)
  BY DEF SessionOK
<1>2. run[x].at \in Nat /\ \A i \in DOMAIN run[x].list : i \in Nat
  BY RunFields
<1>3. \A i \in DOMAIN run[x].list : i < run[x].at + 1 => i < run[x].at \/ i = run[x].at
  BY <1>2
<1> QED BY <1>1, <1>3 DEF CoverOK

LEMMA SkipAddressKeeps ==
    ASSUME TopologyInv, NEW x \in Runs, SkipAddress(x)
    PROVE  TopologyInv'
<1>0. BaseType /\ SessionOK(x) /\ Ensuring(x) /\ Candidates(x) = {}
  BY DEF TopologyInv, SkipAddress
<1> DEFINE s == [run[x] EXCEPT !.at = @ + 1]
<1>1. run' = [run EXCEPT ![x] = s]
  BY DEF SkipAddress
<1>5. run[x] \in Session
  BY <1>0 DEF BaseType
<1>7. /\ s \in Session /\ s.pc = run[x].pc /\ s.list = run[x].list /\ s.at = run[x].at + 1
      /\ s.got = run[x].got /\ s.next = run[x].next /\ s.found = run[x].found
      /\ s.pairs = run[x].pairs /\ s.nodes = run[x].nodes /\ s.edges = run[x].edges
  BY <1>5 DEF Session
<1> HIDE DEF s
<1>8. run[x].pc = "nodes" /\ run[x].at \in DOMAIN run[x].list /\ x \in Discoveries /\ x \notin Builds
  BY <1>0, CandidatesOK, InBuild
<1>9. Frame(x) /\ Fields(x, "nodes", run[x].list, run[x].at + 1, run[x].got, run[x].next,
                         run[x].found, run[x].pairs, run[x].nodes, run[x].edges)
  BY <1>0, <1>1, <1>7, <1>8, Assigned
<1>10. nodes' = nodes /\ edges' = edges /\ lock' = lock
  BY DEF SkipAddress
<1>11. Local(x)
  BY <1>8, <1>9, <1>10 DEF Local, Fields
<1>12. run[x].list[run[x].at] \notin Addresses
  BY <1>0, <1>8, CandidatesOK DEF Addresses
<1>13. OwnOK(x)' /\ SurplusOK(x)' /\ NodesSeen(x)' = NodesSeen(x)
  BY <1>0, <1>9, <1>10, SameRows DEF Fields
<1>14. Got(x)' = Got(x)
  BY <1>9 DEF Fields, Got
<1>15. LockOK(x)' /\ PlaceOK(x)'
  BY <1>0, <1>8, <1>9, <1>10 DEF SessionOK, LockOK, PlaceOK, Fields
<1>16. ListOK(x)'
  BY <1>0, <1>9 DEF SessionOK, ListOK, Fields
<1>17. CoverOK(x)'
  BY <1>0, <1>8, <1>9, <1>12, <1>14, CoverNext DEF Fields
<1>18. NextOK(x)' /\ FreshOK(x)' /\ DrawnOK(x)'
  BY <1>9 DEF NextOK, FreshOK, DrawnOK, Fields
<1>19. FoundOK(x)'
  BY <1>0, <1>8, <1>9 DEF SessionOK, FoundOK, Fields
<1>20. SessionOK(x)'
  BY <1>0, <1>13, <1>14, <1>15, <1>16, <1>17, <1>18, <1>19 DEF SessionOK
<1> QED BY <1>11, <1>20, LocalKeeps

LEMMA KeepNodeKeeps ==
    ASSUME TopologyInv, NEW x \in Runs, KeepNode(x)
    PROVE  TopologyInv'
<1>0. BaseType /\ SessionOK(x) /\ Ensuring(x) /\ x \in Builds /\ x \notin Discoveries
  BY InBuild DEF TopologyInv, KeepNode
<1>1. PICK d \in Candidates(x) : \E n \in NodesOf(x, d) :
         run' = [run EXCEPT ![x].at = @ + 1, ![x].got = Append(@, n)]
  BY DEF KeepNode
<1>2. PICK n \in NodesOf(x, d) : run' = [run EXCEPT ![x].at = @ + 1, ![x].got = Append(@, n)]
  BY <1>1
<1> DEFINE got == Append(run[x].got, n)
           at  == run[x].at + 1
           s == [run[x] EXCEPT !.at = at, !.got = got]
<1>3. run' = [run EXCEPT ![x] = s]
  BY <1>2
<1>4. n \in NodesSeen(x) /\ n[1] = d /\ n \in Node
  BY <1>0, RunFields DEF NodesOf, NodesSeen, BaseType
<1>5. run[x] \in Session
  BY <1>0 DEF BaseType
<1>6. got \in Seq(Node) /\ at \in Nat \ {0}
  BY <1>0, <1>4, RunFields
<1> HIDE DEF got, at
<1>7. /\ s \in Session /\ s.pc = run[x].pc /\ s.list = run[x].list /\ s.at = at
      /\ s.got = got /\ s.next = run[x].next /\ s.found = run[x].found
      /\ s.pairs = run[x].pairs /\ s.nodes = run[x].nodes /\ s.edges = run[x].edges
  BY <1>5, <1>6 DEF Session
<1> HIDE DEF s
<1>8. run[x].pc = "nodes" /\ run[x].at \in DOMAIN run[x].list /\ d = run[x].list[run[x].at]
  BY <1>0, CandidatesOK
<1>9. Frame(x) /\ Fields(x, "nodes", run[x].list, at, got, run[x].next,
                         run[x].found, run[x].pairs, run[x].nodes, run[x].edges)
  BY <1>0, <1>3, <1>7, <1>8, Assigned
<1>10. nodes' = nodes /\ edges' = edges /\ lock' = lock
  BY DEF KeepNode
<1>11. Local(x)
  BY <1>8, <1>9, <1>10 DEF Local, Fields
<1>13. OwnOK(x)' /\ SurplusOK(x)' /\ NodesSeen(x)' = NodesSeen(x)
  BY <1>0, <1>9, <1>10, SameRows DEF Fields
<1>14. Got(x)' = Got(x) \cup {n}
  <2>1. run[x].got \in Seq(Node)
    BY <1>0, RunFields
  <2>2. run'[x].got = Append(run[x].got, n)
    BY <1>9 DEF Fields, got
  <2>3. {Append(run[x].got, n)[i] : i \in DOMAIN Append(run[x].got, n)}
          = {run[x].got[i] : i \in DOMAIN run[x].got} \cup {n}
    BY <1>4, <2>1, GotAppend
  <2> QED BY <2>2, <2>3 DEF Got
<1>15. LockOK(x)' /\ PlaceOK(x)'
  BY <1>0, <1>6, <1>8, <1>9, <1>10 DEF SessionOK, LockOK, PlaceOK, Fields
<1>16. ListOK(x)'
  BY <1>0, <1>9 DEF SessionOK, ListOK, Fields
<1>17. CoverOK(x)'
  BY <1>0, <1>4, <1>8, <1>9, <1>14, CoverNext DEF Fields, at
<1>18. NextOK(x)' /\ FreshOK(x)' /\ DrawnOK(x)'
  BY <1>9 DEF NextOK, FreshOK, DrawnOK, Fields
<1>19. FoundOK(x)'
  BY <1>0, <1>8, <1>9 DEF SessionOK, FoundOK, Fields
<1>20. SessionOK(x)'
  BY <1>0, <1>4, <1>13, <1>14, <1>15, <1>16, <1>17, <1>18, <1>19 DEF SessionOK
<1> QED BY <1>11, <1>20, LocalKeeps

LEMMA SelectNodeKeeps ==
    ASSUME TopologyInv, NEW x \in Runs, SelectNode(x)
    PROVE  TopologyInv'
<1>0. BaseType /\ SessionOK(x) /\ Ensuring(x)
  BY DEF TopologyInv, SelectNode
<1>1. PICK d \in Candidates(x) :
         \E n \in IF NodesOf(x, d) = {} THEN {<<d, x>>} ELSE NodesOf(x, d) :
           /\ x \in Builds => NodesOf(x, d) = {}
           /\ run' = [run EXCEPT ![x].pc = "write", ![x].next = n]
  BY DEF SelectNode
<1>2. PICK n \in IF NodesOf(x, d) = {} THEN {<<d, x>>} ELSE NodesOf(x, d) :
         run' = [run EXCEPT ![x].pc = "write", ![x].next = n]
  BY <1>1
<1> DEFINE s == [run[x] EXCEPT !.pc = "write", !.next = n]
<1>3. run' = [run EXCEPT ![x] = s]
  BY <1>2
<1>4. /\ n \in Node /\ n[1] = d
      /\ \/ n \in NodesSeen(x)
         \/ n[2] = x /\ NodesOf(x, d) = {}
  <2>1. CASE NodesOf(x, d) = {}
    <3>1. n = <<d, x>>
      BY <1>2, <2>1
    <3>2. d \in Devices
      BY <1>0, CandidatesOK
    <3> QED BY <2>1, <3>1, <3>2 DEF Node
  <2>2. CASE NodesOf(x, d) # {}
    <3>1. n \in NodesOf(x, d)
      BY <1>2, <2>2
    <3>2. n \in NodesSeen(x) /\ n[1] = d
      BY <3>1 DEF NodesOf
    <3>3. NodesSeen(x) \subseteq Node
      BY <1>0, RunFields DEF NodesSeen, BaseType
    <3> QED BY <3>2, <3>3
  <2> QED BY <2>1, <2>2
<1>5. run[x] \in Session
  BY <1>0 DEF BaseType
<1>7. /\ s \in Session /\ s.pc = "write" /\ s.list = run[x].list /\ s.at = run[x].at
      /\ s.got = run[x].got /\ s.next = n /\ s.found = run[x].found
      /\ s.pairs = run[x].pairs /\ s.nodes = run[x].nodes /\ s.edges = run[x].edges
  BY <1>4, <1>5 DEF Session, Place
<1> HIDE DEF s
<1>8. /\ run[x].pc = "nodes" /\ run[x].at \in DOMAIN run[x].list
      /\ x \in Builds => d = run[x].list[run[x].at]
      /\ x \in Discoveries => AddressOf[d] = run[x].list[run[x].at]
  BY <1>0, CandidatesOK
<1>9. Frame(x) /\ Fields(x, "write", run[x].list, run[x].at, run[x].got, n,
                         run[x].found, run[x].pairs, run[x].nodes, run[x].edges)
  BY <1>0, <1>3, <1>7, Assigned
<1>10. nodes' = nodes /\ edges' = edges /\ lock' = lock
  BY DEF SelectNode
<1>11. Local(x)
  BY <1>8, <1>9, <1>10 DEF Local, Fields
<1>13. OwnOK(x)' /\ SurplusOK(x)' /\ NodesSeen(x)' = NodesSeen(x)
  BY <1>0, <1>9, <1>10, SameRows DEF Fields
<1>14. Got(x)' = Got(x)
  BY <1>9 DEF Fields, Got
<1>15. LockOK(x)' /\ PlaceOK(x)'
  BY <1>0, <1>8, <1>9, <1>10 DEF SessionOK, LockOK, PlaceOK, Fields
<1>16. ListOK(x)' /\ DrawnOK(x)'
  BY <1>0, <1>9 DEF SessionOK, ListOK, DrawnOK, Fields
<1>17. CoverOK(x)'
  BY <1>0, <1>9, <1>14 DEF SessionOK, CoverOK, Fields
<1>18. NextOK(x)'
  BY <1>4, <1>8, <1>9, <1>13 DEF NextOK, Fields
<1>19. FreshOK(x)'
  <2>1. run'[x].pc = "write" /\ run'[x].next = n
    BY <1>9 DEF Fields
  <2>2. NodesOf(x, d)' = NodesOf(x, d)
    BY <1>13 DEF NodesOf
  <2>3. NodesOf(x, n[1])' = {m \in NodesSeen(x)' : m[1] = n[1]}
    BY DEF NodesOf
  <2>4. n \in NodesSeen(x) \/ {m \in NodesSeen(x) : m[1] = n[1]} = {}
    BY <1>4 DEF NodesOf
  <2> QED BY <1>13, <2>1, <2>4 DEF FreshOK, NodesOf
<1>20. FoundOK(x)'
  BY <1>0, <1>8, <1>9 DEF SessionOK, FoundOK, Fields
<1>21. SessionOK(x)'
  BY <1>0, <1>13, <1>14, <1>15, <1>16, <1>17, <1>18, <1>19, <1>20 DEF SessionOK
<1> QED BY <1>11, <1>21, LocalKeeps

LEMMA NodesDoneKeeps ==
    ASSUME TopologyInv, NEW x \in Runs, NodesDone(x)
    PROVE  TopologyInv'
<1>0. /\ BaseType /\ SessionOK(x) /\ run[x].pc = "nodes" /\ run[x].at > Len(run[x].list)
      /\ run' = [run EXCEPT ![x].pc = IF x \in Builds THEN "match" ELSE "draw"]
  BY DEF TopologyInv, NodesDone, At
<1> DEFINE place == IF x \in Builds THEN "match" ELSE "draw"
           s == [run[x] EXCEPT !.pc = place]
<1>1. run' = [run EXCEPT ![x] = s]
  BY <1>0
<1>2. place \in {"match", "draw"} /\ (place = "match" <=> x \in Builds)
  OBVIOUS
<1> HIDE DEF place
<1>5. run[x] \in Session
  BY <1>0 DEF BaseType
<1>7. /\ s \in Session /\ s.pc = place /\ s.list = run[x].list /\ s.at = run[x].at
      /\ s.got = run[x].got /\ s.next = run[x].next /\ s.found = run[x].found
      /\ s.pairs = run[x].pairs /\ s.nodes = run[x].nodes /\ s.edges = run[x].edges
  BY <1>2, <1>5 DEF Session, Place
<1> HIDE DEF s
<1>9. Frame(x) /\ Fields(x, place, run[x].list, run[x].at, run[x].got, run[x].next,
                         run[x].found, run[x].pairs, run[x].nodes, run[x].edges)
  BY <1>0, <1>1, <1>7, Assigned
<1>10. nodes' = nodes /\ edges' = edges /\ lock' = lock
  BY DEF NodesDone
<1>11. Local(x)
  BY <1>0, <1>2, <1>9, <1>10 DEF Local, Fields
<1>13. OwnOK(x)' /\ SurplusOK(x)' /\ NodesSeen(x)' = NodesSeen(x)
  BY <1>0, <1>9, <1>10, SameRows DEF Fields
<1>14. Got(x)' = Got(x)
  BY <1>9 DEF Fields, Got
<1>15. LockOK(x)'
  BY <1>0, <1>9, <1>10 DEF SessionOK, LockOK, Fields
<1>16. PlaceOK(x)'
  BY <1>0, <1>2, <1>9, InBuild DEF SessionOK, PlaceOK, Fields
<1>17. ListOK(x)'
  BY <1>0, <1>9 DEF SessionOK, ListOK, Fields
<1>18. CoverOK(x)'
  BY <1>0, <1>9, <1>14 DEF SessionOK, CoverOK, Fields
<1>19. NextOK(x)' /\ FreshOK(x)' /\ DrawnOK(x)'
  BY <1>2, <1>9 DEF NextOK, FreshOK, DrawnOK, Fields
<1>20. FoundOK(x)'
  BY <1>0, <1>2, <1>9 DEF SessionOK, FoundOK, Fields
<1>21. SessionOK(x)'
  BY <1>0, <1>13, <1>14, <1>15, <1>16, <1>17, <1>18, <1>19, <1>20 DEF SessionOK
<1> QED BY <1>11, <1>21, LocalKeeps

\* Of both devices of a pair the build has a node.
LEMMA EndsOfMatchOK ==
    ASSUME BaseType, NEW x \in Builds, SessionOK(x), run[x].at > Len(run[x].list),
           NEW p \in run[x].pairs
    PROVE  \E m, n \in Got(x) :
              EndsOfMatch(x, p) = <<m, n>> /\ m[1] = p[1] /\ n[1] = p[2]
<1>0. x \in Runs
  BY DEF Runs
<1>1. p[1] \in Listed(run[x].list) /\ p[2] \in Listed(run[x].list)
  BY DEF SessionOK, ListOK
<1>2. run[x].list \in Seq(Devices \cup Ips) /\ run[x].at \in Nat
  BY <1>0, RunFields
<1>3. \A i \in DOMAIN run[x].list : i < run[x].at
  BY <1>2
<1>4. \A d \in Listed(run[x].list) : \E n \in Got(x) : n[1] = d
  BY <1>3 DEF SessionOK, CoverOK, Listed
<1> DEFINE node(d) == CHOOSE n \in Got(x) : n[1] = d
<1>5. node(p[1]) \in Got(x) /\ node(p[1])[1] = p[1]
  BY <1>1, <1>4
<1>6. node(p[2]) \in Got(x) /\ node(p[2])[1] = p[2]
  BY <1>1, <1>4
<1>7. EndsOfMatch(x, p) = <<node(p[1]), node(p[2])>>
  BY DEF EndsOfMatch
<1> QED BY <1>5, <1>6, <1>7

LEMMA SelectEdgeKeeps ==
    ASSUME TopologyInv, NEW x \in Runs, SelectEdge(x)
    PROVE  TopologyInv'
<1>0. /\ BaseType /\ SessionOK(x) /\ run[x].pc = "match" /\ x \in Builds
      /\ run[x].at > Len(run[x].list)
  BY DEF TopologyInv, SelectEdge, At, SessionOK, PlaceOK
<1>1. PICK p \in run[x].pairs :
         IF Joined(x, EndsOfMatch(x, p), "service_match") # {}
           THEN run' = [run EXCEPT ![x].pairs = @ \ {p}]
           ELSE run' = [run EXCEPT ![x].pairs = @ \ {p}, ![x].pc = "add",
                                   ![x].next = EndsOfMatch(x, p)]
  BY DEF SelectEdge
<1>2. PICK m, n \in Got(x) : EndsOfMatch(x, p) = <<m, n>> /\ m[1] = p[1] /\ n[1] = p[2]
  BY <1>0, EndsOfMatchOK
<1>3. m \in Node /\ n \in Node /\ p \in Matching
  BY <1>0, RunFields DEF Got
<1> DEFINE there == Joined(x, <<m, n>>, "service_match") # {}
           place == IF there THEN "match" ELSE "add"
           next  == IF there THEN run[x].next ELSE <<m, n>>
           s == [run[x] EXCEPT !.pairs = @ \ {p}, !.pc = place, !.next = next]
<1>5. run[x] \in Session
  BY <1>0 DEF BaseType
<1>4. run' = [run EXCEPT ![x] = s]
  <2>1. CASE there
    <3>1. run' = [run EXCEPT ![x].pairs = @ \ {p}]
      BY <1>1, <1>2, <2>1
    <3>2. s = [run[x] EXCEPT !.pairs = @ \ {p}]
      BY <1>0, <1>5, <2>1 DEF Session
    <3> HIDE DEF s
    <3> QED BY <3>1, <3>2
  <2>2. CASE ~ there
    <3>1. run' = [run EXCEPT ![x].pairs = @ \ {p}, ![x].pc = "add", ![x].next = <<m, n>>]
      BY <1>1, <1>2, <2>2
    <3>2. s = [run[x] EXCEPT !.pairs = @ \ {p}, !.pc = "add", !.next = <<m, n>>]
      BY <2>2
    <3> HIDE DEF s
    <3> QED BY <3>1, <3>2
  <2> QED BY <2>1, <2>2
<1>6. /\ place \in {"match", "add"} /\ next \in {<<>>} \cup Node \cup (Node \X Node)
      /\ place = "add" => ~ there /\ next = <<m, n>>
  BY <1>0, <1>3, RunFields
<1> HIDE DEF place, next, there
<1>7. /\ s \in Session /\ s.pc = place /\ s.list = run[x].list /\ s.at = run[x].at
      /\ s.got = run[x].got /\ s.next = next /\ s.found = run[x].found
      /\ s.pairs = run[x].pairs \ {p} /\ s.nodes = run[x].nodes /\ s.edges = run[x].edges
  BY <1>5, <1>6 DEF Session, Place
<1> HIDE DEF s
<1>9. Frame(x) /\ Fields(x, place, run[x].list, run[x].at, run[x].got, next,
                         run[x].found, run[x].pairs \ {p}, run[x].nodes, run[x].edges)
  BY <1>0, <1>4, <1>7, Assigned
<1>10. nodes' = nodes /\ edges' = edges /\ lock' = lock
  BY DEF SelectEdge
<1>11. Local(x)
  BY <1>0, <1>6, <1>9, <1>10 DEF Local, Fields
<1>13. /\ OwnOK(x)' /\ SurplusOK(x)'
       /\ NodesSeen(x)' = NodesSeen(x) /\ EdgesSeen(x)' = EdgesSeen(x)
  BY <1>0, <1>9, <1>10, SameRows DEF Fields
<1>14. Got(x)' = Got(x)
  BY <1>9 DEF Fields, Got
<1>15. LockOK(x)'
  BY <1>0, <1>9, <1>10 DEF SessionOK, LockOK, Fields
<1>16. PlaceOK(x)'
  BY <1>0, <1>6, <1>9 DEF SessionOK, PlaceOK, Fields
<1>17. ListOK(x)'
  BY <1>0, <1>9 DEF SessionOK, ListOK, Fields
<1>18. CoverOK(x)'
  BY <1>0, <1>9, <1>14 DEF SessionOK, CoverOK, Fields
<1>19. NextOK(x)'
  <2>1. p = <<p[1], p[2]>>
    BY <1>3, TableAssumption
  <2> QED BY <1>2, <1>3, <1>6, <1>9, <1>14, <2>1 DEF NextOK, Fields
<1>20. FreshOK(x)' /\ DrawnOK(x)'
  <2>1. Joined(x, <<m, n>>, "service_match")' = Joined(x, <<m, n>>, "service_match")
    BY <1>13 DEF Joined
  <2>2. run'[x].pc = "add" => Joined(x, run[x].next, "service_match")' = {}
    BY <1>6, <1>9, <1>13 DEF there, Joined, Fields
  <2> QED BY <1>6, <1>9, <2>2 DEF FreshOK, DrawnOK, Fields
<1>21. FoundOK(x)'
  BY <1>0, <1>6, <1>9 DEF SessionOK, FoundOK, Fields
<1>22. SessionOK(x)'
  BY <1>0, <1>13, <1>14, <1>15, <1>16, <1>17, <1>18, <1>19, <1>20, <1>21 DEF SessionOK
<1> QED BY <1>11, <1>22, LocalKeeps

\* A run that ends has nothing any more.
LEMMA EndedOK ==
    ASSUME BaseType, NEW x \in Runs, NEW place \in {"done", "failed"}, NEW found \in Results,
           run' = Ended(x, place, found)
    PROVE  Frame(x) /\ Fields(x, place, <<>>, 1, <<>>, <<>>, found, {}, {}, NoRows)
<1> DEFINE v == [Idle EXCEPT !.pc = place, !.found = found]
<1>1. run' = [run EXCEPT ![x] = v]
  BY DEF Ended
<1>2. NoRows \in EdgeRows /\ NoRows \in Results
  <2>1. NoRows \in [{} -> Confidence]
    BY DEF NoRows
  <2> QED BY <2>1 DEF EdgeRows, Results
<1>3. /\ Idle \in Session /\ Idle.list = <<>> /\ Idle.at = 1 /\ Idle.got = <<>> /\ Idle.next = <<>>
      /\ Idle.pairs = {} /\ Idle.nodes = {} /\ Idle.edges = NoRows
  BY <1>2 DEF Idle, Session, Place
<1>4. /\ v \in Session /\ v.pc = place /\ v.list = Idle.list /\ v.at = Idle.at /\ v.got = Idle.got
      /\ v.next = Idle.next /\ v.found = found /\ v.pairs = Idle.pairs
      /\ v.nodes = Idle.nodes /\ v.edges = Idle.edges
  BY <1>3 DEF Session, Place
<1> HIDE DEF v
<1>5. Frame(x) /\ Fields(x, v.pc, v.list, v.at, v.got, v.next, v.found, v.pairs, v.nodes, v.edges)
  BY <1>1, <1>4, Assigned
<1> QED BY <1>3, <1>4, <1>5 DEF Fields

LEMMA EndedSession ==
    ASSUME NEW x \in Runs, NEW place \in {"done", "failed"}, NEW found,
           Fields(x, place, <<>>, 1, <<>>, <<>>, found, {}, {}, NoRows), lock' # x,
           x \in Builds => found = NoRows,
           \A k \in DOMAIN found : \A l \in Links :
             l.type = k.type /\ {AddressOf[d] : d \in l.ends} = k.ends => found[k] <= Evidence[l],
           place = "failed" => found = NoRows,
           place = "done" => DrawnBy(edges', found)
    PROVE  SessionOK(x)'
<1>1. LockOK(x)' /\ PlaceOK(x)'
  BY DEF LockOK, PlaceOK, Fields
<1>2. ListOK(x)' /\ CoverOK(x)'
  BY DEF ListOK, CoverOK, Fields
<1>3. Got(x)' = {}
  BY DEF Got, Fields
<1>4. NextOK(x)' /\ FreshOK(x)' /\ SurplusOK(x)'
  BY DEF NextOK, FreshOK, SurplusOK, Fields
<1>5. FoundOK(x)' /\ DrawnOK(x)'
  BY NoRowsDomain DEF FoundOK, DrawnOK, Fields
<1>6. OwnOK(x)'
  <2>1. IsFiniteSet({})
    BY FS_EmptySet
  <2> QED BY <2>1, NoRowsDomain DEF OwnOK, Fields
<1> QED BY <1>1, <1>2, <1>3, <1>4, <1>5, <1>6 DEF SessionOK

LEMMA FailKeeps ==
    ASSUME TopologyInv, NEW x \in Runs, Fail(x)
    PROVE  TopologyInv'
<1>0. BaseType /\ SessionOK(x) /\ run[x].pc # "done"
  BY DEF TopologyInv, Fail
<1>1. NoRows \in Results
  <2>1. NoRows \in [{} -> Confidence]
    BY DEF NoRows
  <2> QED BY <2>1 DEF Results
<1> DEFINE place == "failed"
<1>2. run' = Ended(x, place, NoRows) /\ place \in {"done", "failed"} /\ place # "done"
  BY DEF Fail
<1> HIDE DEF place
<1>3. Frame(x) /\ Fields(x, place, <<>>, 1, <<>>, <<>>, NoRows, {}, {}, NoRows)
  BY <1>0, <1>1, <1>2, EndedOK
<1>4. nodes' = nodes /\ edges' = edges /\ lock' = Released(x)
  BY DEF Fail
<1>5. Local(x)
  BY <1>0, <1>2, <1>3, <1>4 DEF Local, Fields, Released
<1>6. lock' # x
  BY <1>4, RunAssumption DEF Released
<1>7. SessionOK(x)'
  BY <1>2, <1>3, <1>6, NoRowsDomain, EndedSession
<1> QED BY <1>5, <1>7, LocalKeeps

-----------------------------------------------------------------------------
(* The steps that write.                                                   *)

\* A run that writes has the lock, or gets it and has no rows yet.
LEMMA WritesOK ==
    ASSUME BaseType, NEW x \in Runs, SessionOK(x), Writes(x)
    PROVE  /\ lock' = x
           /\ lock = x \/ (lock # x /\ lock \in {x, NoRun} /\ run[x].nodes = {} /\ run[x].edges = NoRows)
BY DEF Writes, SessionOK, LockOK

LEMMA WriteNodeKeeps ==
    ASSUME TopologyInv, NEW x \in Runs, WriteNode(x)
    PROVE  TopologyInv'
<1>0. BaseType /\ SessionOK(x) /\ RowsOK /\ run[x].pc = "write" /\ Writes(x)
  BY DEF TopologyInv, WriteNode, At
<1> DEFINE n == run[x].next
           got == Append(run[x].got, n)
           at  == run[x].at + 1
           own == IF n \in nodes THEN run[x].nodes ELSE run[x].nodes \cup {n}
           s == [run[x] EXCEPT !.pc = "nodes", !.at = at, !.next = <<>>, !.got = got, !.nodes = own]
<1>1. /\ n \in Node /\ run[x].at \in DOMAIN run[x].list
      /\ n \in NodesSeen(x) \/ n[2] = x
      /\ x \in Builds => n[1] = run[x].list[run[x].at]
      /\ x \in Discoveries => AddressOf[n[1]] = run[x].list[run[x].at]
  BY <1>0 DEF SessionOK, NextOK
<1>2. run' = [run EXCEPT ![x] = s]
  BY DEF WriteNode
<1>3. /\ lock' = x
      /\ lock = x \/ (lock # x /\ lock \in {x, NoRun} /\ run[x].nodes = {} /\ run[x].edges = NoRows)
  BY <1>0, WritesOK
<1>4. /\ run[x].nodes \subseteq Node /\ IsFiniteSet(run[x].nodes) /\ IsFiniteSet(nodes)
      /\ IsFiniteSet(DOMAIN edges) /\ run[x].edges = NoRows /\ \A m \in run[x].nodes : m[2] = x
  BY <1>0, RunFields DEF SessionOK, PlaceOK, OwnOK, BaseType
<1> HIDE DEF n
<1>5. got \in Seq(Node) /\ at \in Nat \ {0} /\ own \subseteq Node /\ run[x] \in Session
  BY <1>0, <1>1, <1>4, RunFields DEF BaseType
<1>6. {got[i] : i \in DOMAIN got} = Got(x) \cup {n}
  BY <1>0, <1>1, RunFields, GotAppend DEF Got
<1>7. /\ IsFiniteSet(own) /\ \A m \in own : m[2] = x
      /\ nodes \cup own = NodesSeen(x) \cup {n}
  <2>1. IsFiniteSet(run[x].nodes \cup {n})
    BY <1>4, FS_AddElement
  <2>2. n \in nodes \/ n[2] = x
    BY <1>1, <1>4 DEF NodesSeen
  <2> QED BY <1>4, <2>1, <2>2 DEF NodesSeen
<1> HIDE DEF got, at, own
<1>8. /\ s \in Session /\ s.pc = "nodes" /\ s.list = run[x].list /\ s.at = at
      /\ s.got = got /\ s.next = <<>> /\ s.found = run[x].found
      /\ s.pairs = run[x].pairs /\ s.nodes = own /\ s.edges = run[x].edges
  BY <1>5 DEF Session, Place
<1> HIDE DEF s
<1>9. Frame(x) /\ Fields(x, "nodes", run[x].list, at, got, <<>>,
                         run[x].found, run[x].pairs, own, run[x].edges)
  BY <1>0, <1>2, <1>8, Assigned
<1>10. nodes' = nodes /\ edges' = edges
  BY DEF WriteNode
<1>11. Local(x)
  BY <1>0, <1>3, <1>9, <1>10 DEF Local, Fields
<1>12. NodesSeen(x)' = NodesSeen(x) \cup {n}
  BY <1>7, <1>9, <1>10 DEF NodesSeen, Fields
<1>13. Got(x)' = Got(x) \cup {n}
  BY <1>6, <1>9 DEF Got, Fields
<1>14. LockOK(x)'
  BY <1>3 DEF LockOK
<1>15. PlaceOK(x)'
  BY <1>0, <1>4, <1>5, <1>9 DEF SessionOK, PlaceOK, Fields
<1>16. ListOK(x)'
  BY <1>0, <1>9 DEF SessionOK, ListOK, Fields
<1>17. CoverOK(x)'
  BY <1>0, <1>1, <1>9, <1>13, CoverNext DEF Fields, at
<1>18. NextOK(x)' /\ FreshOK(x)' /\ DrawnOK(x)'
  BY <1>9 DEF NextOK, FreshOK, DrawnOK, Fields
<1>19. FoundOK(x)'
  BY <1>0, <1>9 DEF SessionOK, FoundOK, Fields
<1>20. OwnOK(x)'
  <2>1. IsFiniteSet({})
    BY FS_EmptySet
  <2> QED BY <1>4, <1>7, <1>9, <2>1, NoRowsDomain DEF OwnOK, Fields
<1>21. SurplusOK(x)'
  <2> DEFINE E == DOMAIN edges \cup DOMAIN run[x].edges
  <2>1. E = DOMAIN edges
    BY <1>4, NoRowsDomain
  <2> HIDE DEF E
  <2>2. IsFiniteSet(NodesSeen(x))
    BY <1>4, FS_Union DEF NodesSeen
  <2>3. Surplus(nodes, DOMAIN edges) \in Int /\ Surplus(NodesSeen(x), E) \in Int
        /\ Surplus(NodesSeen(x) \cup {n}, E) \in Int /\ Surplus(nodes \cup {n}, E) \in Int
    BY <1>4, <2>1, <2>2, SurplusType, FS_AddElement
  <2>4. Surplus(NodesSeen(x) \cup {n}, E)
          <= Surplus(nodes, DOMAIN edges) + (IF nodes = {} THEN 0 ELSE 1)
    <3>1. CASE lock = x
      <4>1. Surplus(NodesSeen(x), E) <= Surplus(nodes, DOMAIN edges) + (IF nodes = {} THEN 0 ELSE 1)
        BY <1>0, <3>1 DEF SessionOK, SurplusOK, E
      <4>2. n \in NodesSeen(x) \/ n[1] \notin {m[1] : m \in NodesSeen(x)}
        BY <1>0, <3>1 DEF SessionOK, FreshOK, NodesOf, n
      <4>3. Surplus(NodesSeen(x) \cup {n}, E) <= Surplus(NodesSeen(x), E)
        BY <1>4, <2>1, <2>2, <4>2, SurplusNode
      <4> QED BY <2>3, <4>1, <4>3
    <3>2. CASE lock # x
      <4>1. NodesSeen(x) = nodes
        BY <1>3, <3>2 DEF NodesSeen
      <4>2. Surplus(nodes \cup {n}, E) <= Surplus(nodes, E) + 1
        BY <1>4, <2>1, SurplusNode
      <4>3. nodes = {} => Surplus(nodes \cup {n}, E) <= Surplus(nodes, E)
        <5>1. nodes = {} => n[1] \notin {m[1] : m \in nodes}
          OBVIOUS
        <5> QED BY <1>4, <2>1, <5>1, SurplusNode
      <4> QED BY <2>1, <2>3, <4>1, <4>2, <4>3
    <3> QED BY <3>1, <3>2
  <2>5. run'[x].edges = run[x].edges
    BY <1>9 DEF Fields
  <2> QED BY <1>10, <1>12, <2>4, <2>5 DEF SurplusOK, E
<1>22. (Got(x) \subseteq NodesSeen(x))'
  BY <1>0, <1>12, <1>13 DEF SessionOK
<1>23. SessionOK(x)'
  BY <1>14, <1>15, <1>16, <1>17, <1>18, <1>19, <1>20, <1>21, <1>22 DEF SessionOK
<1> QED BY <1>11, <1>23, LocalKeeps

LEMMA LinkOfOK ==
    ASSUME NEW e \in EdgeRow
    PROVE  /\ LinkOf(e) \in Links /\ LinkOf(e).type = e.type
           /\ LinkOf(e).ends = {e.from[1], e.to[1]}
           /\ {AddressOf[d] : d \in LinkOf(e).ends} = {AddressOf[e.from[1]], AddressOf[e.to[1]]}
<1>1. e.from[1] \in Devices /\ e.to[1] \in Devices /\ e.type \in Types
  BY DEF EdgeRow, Node
<1>2. LinkOf(e).type = e.type /\ LinkOf(e).ends = {e.from[1], e.to[1]}
  BY DEF LinkOf
<1>3. LinkOf(e) \in Links
  BY <1>1 DEF LinkOf, Links
<1> QED BY <1>2, <1>3

LEMMA AddEdgeKeeps ==
    ASSUME TopologyInv, NEW x \in Runs, AddEdge(x)
    PROVE  TopologyInv'
<1>0. /\ BaseType /\ SessionOK(x) /\ RowsOK /\ run[x].pc = "add" /\ Writes(x)
      /\ x \in Builds
  BY DEF TopologyInv, AddEdge, At, SessionOK, PlaceOK
<1> DEFINE type == "service_match"
           c == 50
           e0 == Edge(x, run[x].next, type)
           new == [e \in {e0} |-> c]
           own == Over(new, run[x].edges)
           s == [run[x] EXCEPT !.pc = "match", !.next = <<>>, !.edges = own]
<1>f. run[x].next \in Got(x) \X Got(x) /\ <<run[x].next[1][1], run[x].next[2][1]>> \in Matching
  BY <1>0 DEF SessionOK, NextOK
<1>1. PICK m \in Got(x), n \in Got(x) : run[x].next = <<m, n>> /\ <<m[1], n[1]>> \in Matching
  <2> DEFINE p == run[x].next
  <2>1. p \in Got(x) \X Got(x) /\ <<p[1][1], p[2][1]>> \in Matching
    BY <1>f
  <2> HIDE DEF p
  <2>2. p[1] \in Got(x) /\ p[2] \in Got(x) /\ p = <<p[1], p[2]>>
    BY <2>1
  <2>3. \E m \in Got(x), n \in Got(x) : p = <<m, n>> /\ <<m[1], n[1]>> \in Matching
    BY <2>1, <2>2, Zenon
  <2> QED BY <2>3 DEF p
<1>2. run' = [run EXCEPT ![x] = s]
  BY DEF AddEdge
<1>3. /\ lock' = x
      /\ lock = x \/ (lock # x /\ lock \in {x, NoRun} /\ run[x].nodes = {} /\ run[x].edges = NoRows)
  BY <1>0, WritesOK
<1>4. m \in Node /\ n \in Node /\ m \in NodesSeen(x) /\ n \in NodesSeen(x)
  BY <1>0, RunFields DEF Got, SessionOK
<1>5. /\ e0 \in EdgeRow /\ e0.from = m /\ e0.to = n /\ e0.type = type /\ e0.by = x
      /\ type = "service_match" /\ c \in Confidence /\ c <= 50
  BY <1>1, <1>4 DEF Edge, EdgeRow, Types, Confidence
<1>6. LinkOf(e0) \in Links /\ Evidence[LinkOf(e0)] = 50
  <2>1. /\ LinkOf(e0) \in Links /\ LinkOf(e0).type = "service_match"
        /\ LinkOf(e0).ends = {m[1], n[1]}
    BY <1>5, LinkOfOK
  <2>2. <<m[1], n[1]>> \in Matching /\ {m[1], n[1]} = {<<m[1], n[1]>>[1], <<m[1], n[1]>>[2]}
    BY <1>1
  <2> QED BY <2>1, <2>2, MatchEvidence
<1>7. e0 \notin DOMAIN edges
  BY <1>0, <1>5 DEF RowsOK, Done, At
<1> HIDE DEF e0, type, c
<1>8. /\ run[x].edges \in EdgeRows /\ IsFiniteSet(DOMAIN run[x].edges) /\ IsFiniteSet(run[x].nodes)
      /\ IsFiniteSet(DOMAIN edges) /\ IsFiniteSet(nodes)
  BY <1>0, RunFields DEF SessionOK, OwnOK, BaseType
<1>a. /\ DOMAIN new = {e0} /\ new[e0] = c /\ new \in EdgeRows
  <2>1. DOMAIN new = {e0} /\ new[e0] = c /\ new \in [{e0} -> Confidence]
    BY <1>5
  <2> QED BY <1>5, <2>1, RowsType
<1> HIDE DEF new
<1>b. /\ own \in EdgeRows /\ DOMAIN own = DOMAIN run[x].edges \cup {e0}
      /\ own[e0] = c /\ \A e \in DOMAIN run[x].edges : e # e0 => own[e] = run[x].edges[e]
  <2>1. /\ own \in EdgeRows /\ DOMAIN own = DOMAIN new \cup DOMAIN run[x].edges
        /\ \A e \in DOMAIN new : own[e] = new[e]
        /\ \A e \in DOMAIN run[x].edges \ DOMAIN new : own[e] = run[x].edges[e]
    BY <1>8, <1>a, OverType
  <2> QED BY <1>a, <2>1
<1>c. IsFiniteSet(DOMAIN own)
  BY <1>8, <1>b, FS_AddElement
<1>d. run[x] \in Session
  BY <1>0 DEF BaseType
<1> HIDE DEF own
<1>e. /\ s \in Session /\ s.pc = "match" /\ s.list = run[x].list /\ s.at = run[x].at
      /\ s.got = run[x].got /\ s.next = <<>> /\ s.found = run[x].found
      /\ s.pairs = run[x].pairs /\ s.nodes = run[x].nodes /\ s.edges = own
  BY <1>b, <1>d DEF Session, Place
<1> HIDE DEF s
<1>9. Frame(x) /\ Fields(x, "match", run[x].list, run[x].at, run[x].got, <<>>,
                         run[x].found, run[x].pairs, run[x].nodes, own)
  BY <1>0, <1>2, <1>e, Assigned
<1>10. nodes' = nodes /\ edges' = edges
  BY DEF AddEdge
<1>11. Local(x)
  BY <1>0, <1>3, <1>9, <1>10 DEF Local, Fields
<1>12. NodesSeen(x)' = NodesSeen(x) /\ Got(x)' = Got(x)
  BY <1>9, <1>10 DEF NodesSeen, Got, Fields
<1>14. LockOK(x)'
  BY <1>3 DEF LockOK
<1>15. PlaceOK(x)'
  BY <1>0, <1>9 DEF SessionOK, PlaceOK, Fields
<1>16. ListOK(x)'
  BY <1>0, <1>9 DEF SessionOK, ListOK, Fields
<1>17. CoverOK(x)' /\ (Got(x) \subseteq NodesSeen(x))'
  BY <1>0, <1>9, <1>12 DEF SessionOK, CoverOK, Fields
<1>18. NextOK(x)' /\ FreshOK(x)' /\ DrawnOK(x)'
  BY <1>9 DEF NextOK, FreshOK, DrawnOK, Fields
<1>19. FoundOK(x)'
  BY <1>0, <1>9 DEF SessionOK, FoundOK, Fields
<1>20. OwnOK(x)'
  <2>0. OwnOK(x) /\ run'[x].edges = own /\ run'[x].nodes = run[x].nodes
    BY <1>0, <1>9 DEF SessionOK, Fields
  <2>1. ASSUME NEW e \in DOMAIN own
        PROVE  /\ e.from \in NodesSeen(x) /\ e.to \in NodesSeen(x)
               /\ e.by = x \/ e \in DOMAIN edges
               /\ Directed(e) /\ Supported(e, own[e])
               /\ e \in DOMAIN edges => edges[e] <= own[e]
               /\ \A f \in DOMAIN edges \cup DOMAIN own :
                    e.type # "service_match" /\ Placed(e) = Placed(f) => e = f
    <3>1. CASE e = e0
      <4>1. Directed(e)
        BY <1>5, <3>1 DEF Directed
      <4>2. Supported(e, own[e])
        BY <1>5, <1>6, <1>b, <3>1 DEF Supported, Confidence
      <4> QED BY <1>4, <1>5, <1>7, <3>1, <4>1, <4>2
    <3>2. CASE e # e0
      <4>1. e \in DOMAIN run[x].edges /\ own[e] = run[x].edges[e]
        BY <1>b, <3>2
      <4>2. \A f \in DOMAIN edges \cup DOMAIN own :
                    e.type # "service_match" /\ Placed(e) = Placed(f) => e = f
        <5> SUFFICES ASSUME NEW f \in DOMAIN edges \cup DOMAIN own, e.type # "service_match",
                            Placed(e) = Placed(f)
                     PROVE  e = f
          OBVIOUS
        <5>1. f # e0
          BY <1>5 DEF Placed
        <5> QED BY <1>b, <2>0, <4>1, <5>1 DEF OwnOK
      <4> QED BY <2>0, <4>1, <4>2 DEF OwnOK
    <3> QED BY <3>1, <3>2
  <2>2. (\A k \in run[x].nodes : k[2] = x) /\ IsFiniteSet(run[x].nodes)
    BY <2>0 DEF OwnOK
  <2> QED BY <1>10, <1>12, <1>c, <2>0, <2>1, <2>2 DEF OwnOK
<1>21. SurplusOK(x)'
  <2> DEFINE E == DOMAIN edges \cup DOMAIN run[x].edges
  <2>1. DOMAIN edges \cup DOMAIN own = E \cup {e0}
    BY <1>b
  <2>2. IsFiniteSet(NodesSeen(x)) /\ IsFiniteSet(E)
    BY <1>8, FS_Union DEF NodesSeen
  <2>a. DOMAIN EdgesSeen(x) = E
    BY <1>0, SeenDomain
  <2>b. lock # x => E = DOMAIN edges /\ NodesSeen(x) = nodes
    BY <1>3, NoRowsDomain DEF NodesSeen
  <2>c. lock = x => Surplus(NodesSeen(x), E) <= Surplus(nodes, DOMAIN edges) + (IF nodes = {} THEN 0 ELSE 1)
    BY <1>0 DEF SessionOK, SurplusOK
  <2> HIDE DEF E
  <2>3. Surplus(nodes, DOMAIN edges) \in Int /\ Surplus(NodesSeen(x), E) \in Int
        /\ Surplus(NodesSeen(x), E \cup {e0}) \in Int
    BY <1>8, <2>2, SurplusType, FS_AddElement
  <2>4. Surplus(NodesSeen(x), E \cup {e0})
          <= Surplus(nodes, DOMAIN edges) + (IF nodes = {} THEN 0 ELSE 1)
    <3>1. CASE lock = x
      <4>1. Joined(x, run[x].next, "service_match") = {}
        BY <1>0, <3>1 DEF SessionOK, FreshOK
      <4>2. \A f \in E : Placed(f) # Placed(e0)
        BY <1>1, <1>5, <2>a, <4>1 DEF Joined, Placed
      <4>3. Surplus(NodesSeen(x), E \cup {e0}) <= Surplus(NodesSeen(x), E)
        BY <2>2, <4>2, SurplusEdge
      <4> QED BY <2>3, <2>c, <3>1, <4>3
    <3>2. CASE lock # x
      <4>1. nodes # {}
        BY <1>4, <2>b, <3>2
      <4>2. Surplus(NodesSeen(x), E \cup {e0}) <= Surplus(NodesSeen(x), E) + 1
        BY <2>2, SurplusEdge
      <4>3. Surplus(NodesSeen(x), E) = Surplus(nodes, DOMAIN edges)
        BY <2>b, <3>2
      <4> QED BY <2>3, <4>1, <4>2, <4>3
    <3> QED BY <3>1, <3>2
  <2>5. run'[x].edges = own
    BY <1>9 DEF Fields
  <2> QED BY <1>10, <1>12, <2>1, <2>4, <2>5 DEF SurplusOK
<1>23. SessionOK(x)'
  BY <1>14, <1>15, <1>16, <1>17, <1>18, <1>19, <1>20, <1>21 DEF SessionOK
<1> QED BY <1>11, <1>23, LocalKeeps

-----------------------------------------------------------------------------
(* The loop over the results.                                              *)

LEMMA ProvidersFinite == IsFiniteSet(Providers)
<1>1. IsFiniteSet({"arp_neighbor"})
  BY FS_Singleton
<1>2. IsFiniteSet({"arp_neighbor"} \cup {"subnet_adjacent"})
  BY <1>1, FS_AddElement
<1>3. IsFiniteSet(({"arp_neighbor"} \cup {"subnet_adjacent"}) \cup {"reachable"})
  BY <1>2, FS_AddElement
<1>4. IsFiniteSet((({"arp_neighbor"} \cup {"subnet_adjacent"}) \cup {"reachable"})
                     \cup {"traceroute_hop"})
  BY <1>3, FS_AddElement
<1>5. Providers = (({"arp_neighbor"} \cup {"subnet_adjacent"}) \cup {"reachable"})
                     \cup {"traceroute_hop"}
  BY DEF Providers
<1> QED BY <1>4, <1>5

\* Results between the addresses of a list are finitely many.
LEMMA KeysFinite ==
    ASSUME NEW S, NEW list \in Seq(S), NEW keys, keys \subseteq ResultKey,
           \A k \in keys : \E a, b \in Listed(list) : k.ends = {a, b}
    PROVE  IsFiniteSet(keys)
<1> DEFINE D == DOMAIN list
           L == {list[i] : i \in D}
           T == (SUBSET L) \X Providers
           f == [k \in keys |-> <<k.ends, k.type>>]
<1>1. IsFiniteSet(D)
  <2>1. D = 1 .. Len(list) /\ Len(list) \in Nat
    OBVIOUS
  <2> QED BY <2>1, FS_Interval
<1>2. IsFiniteSet(L)
  BY <1>1, ImageFinite
<1>3. IsFiniteSet(T)
  BY <1>2, ProvidersFinite, FS_SUBSET, FS_Product
<1>4. \A k \in keys : k.ends \in SUBSET L /\ k.type \in Providers /\ k = [ends |-> k.ends, type |-> k.type]
  BY DEF Listed, ResultKey
<1>5. f \in [keys -> T]
  BY <1>4
<1>6. \A k, l \in keys : f[k] = f[l] => k = l
  BY <1>4
<1> HIDE DEF T, f
<1>7. f \in Injection(keys, T)
  BY <1>5, <1>6 DEF Injection, IsInjective
<1> QED BY <1>3, <1>7, FS_Injection

LEMMA RaisedOK ==
    ASSUME NEW known \in Confidence \cup {0}, NEW found \in Confidence
    PROVE  /\ Raised(known, found) \in Confidence
           /\ Raised(known, found) \in {known, found}
           /\ known <= Raised(known, found) /\ found <= Raised(known, found)
<1>1. CASE known \in Confidence
  <2>1. {known, found} \subseteq Confidence /\ {known, found} # {}
    BY <1>1
  <2> QED BY <2>1, ConfidenceMax DEF Raised
<1>2. CASE known = 0
  <2>1. found > 0 /\ found \in Nat
    BY DEF Confidence
  <2>2. \E m \in {0, found} : \A y \in {0, found} : m >= y
    BY <2>1
  <2>3. Max({0, found}) \in {0, found} /\ \A y \in {0, found} : Max({0, found}) >= y
    BY <2>2 DEF Max
  <2>4. Max({0, found}) = found
    BY <2>1, <2>3
  <2> QED BY <1>2, <2>1, <2>4 DEF Raised
<1> QED BY <1>1, <1>2

\* The edge says what result it is for.
LEMMA EdgeForInjective ==
    ASSUME BaseType, NEW x \in Runs,
           \A k \in Drawable(x) : \E a, b : k.ends = {a, b},
           NEW k \in Drawable(x), NEW l \in Drawable(x), EdgeFor(x, k) = EdgeFor(x, l)
    PROVE  k = l
<1>1. k \in ResultKey /\ l \in ResultKey
  BY RunFields, ResultsType DEF Drawable
<1> DEFINE e == EdgeFor(x, k)
<1>3. DrawnFor(x, k, e)
  <2>1. PICK a, b : k.ends = {a, b}
    OBVIOUS
  <2> QED BY <2>1, EdgeForOK
<1>4. DrawnFor(x, l, e)
  <2>1. PICK a, b : l.ends = {a, b}
    OBVIOUS
  <2> QED BY <2>1, EdgeForOK
<1> HIDE DEF e
<1>2. k.type = l.type /\ k.ends = l.ends
  BY <1>3, <1>4 DEF DrawnFor
<1> QED BY <1>1, <1>2 DEF ResultKey

LEMMA DrawEdgesKeeps ==
    ASSUME TopologyInv, NEW x \in Runs, DrawEdges(x)
    PROVE  TopologyInv'
<1>0. /\ BaseType /\ SessionOK(x) /\ RowsOK /\ run[x].pc = "draw" /\ x \in Discoveries
      /\ x \notin Builds /\ run[x].edges = NoRows /\ run[x].at > Len(run[x].list)
  BY InBuild DEF TopologyInv, DrawEdges, At, SessionOK, PlaceOK
<1> DEFINE known(e) == IF e \in DOMAIN edges THEN edges[e] ELSE 0
           key(e) == CHOOSE k \in Drawable(x) : EdgeFor(x, k) = e
           D == {EdgeFor(x, k) : k \in Drawable(x)}
           own == [e \in D |-> Raised(known(e), run[x].found[key(e)])]
           place == "commit"
           s == [run[x] EXCEPT !.pc = place, !.edges = own]
<1>1. run' = [run EXCEPT ![x] = s]
  BY DEF DrawEdges
<1>2. /\ run[x].found \in [DOMAIN run[x].found -> Confidence] /\ DOMAIN run[x].found \subseteq ResultKey
      /\ Drawable(x) \subseteq DOMAIN run[x].found
  BY <1>0, RunFields, ResultsType DEF Drawable
<1>3. \A k \in DOMAIN run[x].found : \E a, b \in Listed(run[x].list) : k.ends = {a, b}
  BY <1>0 DEF SessionOK, FoundOK
<1>4. IsFiniteSet(D)
  <2>1. IsFiniteSet(DOMAIN run[x].found)
    BY <1>0, <1>2, <1>3, RunFields, KeysFinite
  <2>2. IsFiniteSet(Drawable(x))
    BY <1>2, <2>1, FS_Subset
  <2> DEFINE g == [k \in Drawable(x) |-> EdgeFor(x, k)]
  <2>3. DOMAIN g = Drawable(x) /\ D = {g[k] : k \in Drawable(x)}
    OBVIOUS
  <2> HIDE DEF g, D
  <2> QED BY <2>2, <2>3, ImageFinite
<1>5. \A e \in D : key(e) \in Drawable(x) /\ EdgeFor(x, key(e)) = e
  OBVIOUS
<1>6. DOMAIN own = D /\ \A e \in D : own[e] = Raised(known(e), run[x].found[key(e)])
  OBVIOUS
<1>7. \A e \in D : known(e) \in Confidence \cup {0} /\ run[x].found[key(e)] \in Confidence
  BY <1>0, <1>2, <1>5, RowsType DEF BaseType
<1>8. \A e \in D : /\ own[e] \in Confidence /\ own[e] \in {known(e), run[x].found[key(e)]}
                   /\ known(e) <= own[e] /\ run[x].found[key(e)] <= own[e]
  BY <1>6, <1>7, RaisedOK
<1>9. \A e \in DOMAIN edges : known(e) = edges[e]
  OBVIOUS
<1>a. place = "commit" /\ own = [e \in D |-> own[e]]
  OBVIOUS
<1> HIDE DEF own, key, known, place
<1>b. ASSUME NEW k \in Drawable(x)
      PROVE  LET e == EdgeFor(x, k) IN
             /\ e \in D /\ key(e) = k
             /\ e.from \in Got(x) /\ e.to \in Got(x) /\ e.type = k.type
             /\ <<e.from, e.to>> = EndsOfResult(x, k)
             /\ {AddressOf[e.from[1]], AddressOf[e.to[1]]} = k.ends
             /\ DirectedEnds(e.from, e.to)
             /\ \/ e \in DOMAIN edges
                \/ e.by = x /\ \A f \in DOMAIN edges : Placed(f) # Placed(e)
  <2> DEFINE e == EdgeFor(x, k)
  <2>1. e \in D
    OBVIOUS
  <2>2. key(e) = k
    BY <1>0, <1>2, <1>3, <1>5, <2>1, EdgeForInjective
  <2>3. PICK a, b : k.ends = {a, b}
    BY <1>2, <1>3
  <2>4. /\ e.from \in Got(x) /\ e.to \in Got(x) /\ e.type = k.type
        /\ <<e.from, e.to>> = EndsOfResult(x, k)
        /\ {AddressOf[e.from[1]], AddressOf[e.to[1]]} = k.ends
        /\ DirectedEnds(e.from, e.to)
        /\ \/ e \in DOMAIN edges \cup DOMAIN run[x].edges
           \/ /\ e = Edge(x, EndsOfResult(x, k), k.type)
              /\ \A f \in DOMAIN edges \cup DOMAIN run[x].edges : Placed(f) # Placed(e)
    <3>1. DrawnFor(x, k, e)
      BY <1>0, <2>3, EdgeForOK
    <3> HIDE DEF e, D
    <3> QED BY <3>1 DEF DrawnFor
  <2>5. Edge(x, EndsOfResult(x, k), k.type).by = x
    BY DEF Edge
  <2> HIDE DEF e, D
  <2>6. \/ e \in DOMAIN edges
        \/ e.by = x /\ \A f \in DOMAIN edges : Placed(f) # Placed(e)
    BY <1>0, <2>4, <2>5, NoRowsDomain
  <2> QED BY <2>1, <2>2, <2>4, <2>6 DEF e
<1>c. ASSUME NEW e \in D
      PROVE  /\ key(e) \in Drawable(x) /\ EdgeFor(x, key(e)) = e
             /\ e.from \in Got(x) /\ e.to \in Got(x) /\ e.type = key(e).type
             /\ <<e.from, e.to>> = EndsOfResult(x, key(e))
             /\ {AddressOf[e.from[1]], AddressOf[e.to[1]]} = key(e).ends
             /\ DirectedEnds(e.from, e.to)
             /\ \/ e \in DOMAIN edges
                \/ e.by = x /\ \A f \in DOMAIN edges : Placed(f) # Placed(e)
  <2> DEFINE k == key(e)
  <2>1. k \in Drawable(x) /\ EdgeFor(x, k) = e
    BY <1>5
  <2> HIDE DEF k, D
  <2> QED BY <1>b, <2>1 DEF k
<1>d. D \subseteq EdgeRow
  <2> SUFFICES ASSUME NEW e \in D PROVE e \in EdgeRow
    OBVIOUS
  <2>1. CASE e \in DOMAIN edges
    BY <1>0, <2>1, RowsType DEF BaseType
  <2>2. CASE e \notin DOMAIN edges
    <3> DEFINE k == key(e)
    <3>1. k \in Drawable(x) /\ EdgeFor(x, k) = e
      BY <1>c
    <3>2. k.type \in Types
      BY <1>2, <3>1 DEF ResultKey, Types
    <3>3. e.from \in Node /\ e.to \in Node
      BY <1>0, <1>c, RunFields DEF Got
    <3>4. PICK a, b : k.ends = {a, b}
      BY <1>2, <1>3, <3>1
    <3> HIDE DEF k
    <3>5. e = Edge(x, EndsOfResult(x, k), k.type)
      <4>1. DrawnFor(x, k, e)
        BY <1>0, <3>1, <3>4, EdgeForOK
      <4> QED BY <1>0, <2>2, <4>1, NoRowsDomain DEF DrawnFor
    <3> QED BY <3>2, <3>3, <3>5 DEF Edge, EdgeRow
  <2> QED BY <2>1, <2>2
<1>e. own \in EdgeRows
  <2>1. own \in [D -> Confidence]
    BY <1>8, <1>a
  <2> QED BY <1>6, <1>d, <2>1, RowsType
<1>f. run[x] \in Session
  BY <1>0 DEF BaseType
<1> HIDE DEF D
<1>g. /\ s \in Session /\ s.pc = place /\ s.list = run[x].list /\ s.at = run[x].at
      /\ s.got = run[x].got /\ s.next = run[x].next /\ s.found = run[x].found
      /\ s.pairs = run[x].pairs /\ s.nodes = run[x].nodes /\ s.edges = own
  BY <1>a, <1>e, <1>f DEF Session, Place
<1> HIDE DEF s
<1>h. Frame(x) /\ Fields(x, place, run[x].list, run[x].at, run[x].got, run[x].next,
                         run[x].found, run[x].pairs, run[x].nodes, own)
  BY <1>0, <1>1, <1>g, Assigned
<1>10. nodes' = nodes /\ edges' = edges /\ lock' = lock
  BY DEF DrawEdges
<1>11. Local(x)
  BY <1>0, <1>a, <1>h, <1>10 DEF Local, Fields
<1>12. NodesSeen(x)' = NodesSeen(x) /\ Got(x)' = Got(x)
  BY <1>h, <1>10 DEF NodesSeen, Got, Fields
<1>13. D # {} => lock = x
  <2>1. D # {} => Got(x) # {}
    BY <1>c
  <2>2. Got(x) # {} => run[x].got # <<>>
    BY DEF Got
  <2> QED BY <1>0, <2>1, <2>2 DEF SessionOK, LockOK
<1>14. LockOK(x)'
  <2>1. D = {} => own = NoRows
    BY <1>6, <1>e, RowsType, NoRowsOnly
  <2> QED BY <1>0, <1>h, <1>10, <1>13, <2>1 DEF SessionOK, LockOK, Fields
<1>15. PlaceOK(x)'
  BY <1>0, <1>a, <1>h DEF SessionOK, PlaceOK, Fields
<1>16. ListOK(x)'
  BY <1>0, <1>h DEF SessionOK, ListOK, Fields
<1>17. CoverOK(x)' /\ (Got(x) \subseteq NodesSeen(x))'
  BY <1>0, <1>h, <1>12 DEF SessionOK, CoverOK, Fields
<1>18. NextOK(x)' /\ FreshOK(x)'
  BY <1>a, <1>h DEF NextOK, FreshOK, Fields
<1>19. FoundOK(x)'
  BY <1>0, <1>a, <1>h DEF SessionOK, FoundOK, Fields
<1>20. \A e, f \in D : Placed(e) = Placed(f) => e = f
  <2> SUFFICES ASSUME NEW e \in D, NEW f \in D, Placed(e) = Placed(f) PROVE e = f
    OBVIOUS
  <2> DEFINE k == key(e)
             l == key(f)
  <2>1. e.from = f.from /\ e.to = f.to /\ e.type = f.type
    BY DEF Placed
  <2>2. e = EdgeFor(x, k) /\ f = EdgeFor(x, l)
    BY <1>c
  <2>3. EndsOfResult(x, k) = EndsOfResult(x, l) /\ k.type = l.type
    <3>1. <<e.from, e.to>> = EndsOfResult(x, k) /\ e.type = k.type
      BY <1>c
    <3>2. <<f.from, f.to>> = EndsOfResult(x, l) /\ f.type = l.type
      BY <1>c
    <3> QED BY <2>1, <3>1, <3>2
  <2> HIDE DEF k, l
  <2> QED BY <2>2, <2>3 DEF EdgeFor
<1>21. OwnOK(x)'
  <2>0. OwnOK(x) /\ run'[x].edges = own /\ run'[x].nodes = run[x].nodes /\ DOMAIN own = D
    BY <1>0, <1>6, <1>h DEF SessionOK, Fields
  <2>1. ASSUME NEW e \in D
        PROVE  /\ e.from \in NodesSeen(x) /\ e.to \in NodesSeen(x)
               /\ e.by = x \/ e \in DOMAIN edges
               /\ Directed(e) /\ Supported(e, own[e])
               /\ e \in DOMAIN edges => edges[e] <= own[e]
               /\ \A f \in DOMAIN edges \cup D :
                    e.type # "service_match" /\ Placed(e) = Placed(f) => e = f
    <3>1. e.from \in NodesSeen(x) /\ e.to \in NodesSeen(x)
      BY <1>0, <1>c DEF SessionOK
    <3>2. Directed(e)
      BY <1>c DEF Directed, DirectedEnds
    <3>3. Supported(e, own[e])
      <4> DEFINE k == key(e)
      <4>1. /\ LinkOf(e) \in Links /\ LinkOf(e).type = e.type
            /\ {AddressOf[d] : d \in LinkOf(e).ends} = {AddressOf[e.from[1]], AddressOf[e.to[1]]}
        BY <1>d, LinkOfOK
      <4>2. k \in DOMAIN run[x].found /\ e.type = k.type
            /\ {AddressOf[e.from[1]], AddressOf[e.to[1]]} = k.ends
        BY <1>2, <1>c
      <4> HIDE DEF k
      <4>3. run[x].found[k] <= Evidence[LinkOf(e)]
        BY <1>0, <4>1, <4>2 DEF SessionOK, FoundOK
      <4>4. CASE own[e] = run[x].found[k]
        BY <4>3, <4>4 DEF Supported
      <4>5. CASE own[e] = known(e)
        <5>1. e \in DOMAIN edges
          <6>1. own[e] \in Confidence /\ 0 \notin Confidence
            BY <1>8 DEF Confidence
          <6> QED BY <4>5, <6>1 DEF known
        <5> QED BY <1>0, <1>9, <4>5, <5>1 DEF RowsOK, Supported
      <4> QED BY <1>8, <4>4, <4>5 DEF k
    <3>4. e \in DOMAIN edges => edges[e] <= own[e]
      BY <1>8, <1>9
    <3>5. \A f \in DOMAIN edges \cup D :
                    e.type # "service_match" /\ Placed(e) = Placed(f) => e = f
      BY <1>0, <1>20, <1>c DEF RowsOK
    <3> QED BY <1>c, <3>1, <3>2, <3>3, <3>4, <3>5
  <2>2. (\A m \in run[x].nodes : m[2] = x) /\ IsFiniteSet(run[x].nodes)
    BY <2>0 DEF OwnOK
  <2> QED BY <1>10, <1>12, <1>4, <2>0, <2>1, <2>2 DEF OwnOK
<1>22. DrawnOK(x)'
  <2>1. ASSUME NEW k \in DOMAIN run[x].found, k.ends \subseteq Addresses
        PROVE  k \in Drawable(x)
    <3>1. \A ip \in k.ends : ip \in Listed(run[x].list)
      BY <1>3
    <3>2. run[x].list \in Seq(Devices \cup Ips) /\ run[x].at \in Nat
      BY <1>0, RunFields
    <3>3. \A i \in DOMAIN run[x].list : i < run[x].at
      BY <1>0, <3>2
    <3>4. \A ip \in k.ends : \E n \in Got(x) : AddressOf[n[1]] = ip
      BY <1>0, <2>1, <3>1, <3>3 DEF SessionOK, CoverOK, Listed
    <3>5. \A ip \in k.ends : NodeAt(x, ip) # {}
      BY <1>0, <3>4, NodeAtOne
    <3> QED BY <3>5 DEF Drawable
  <2>2. ASSUME NEW k \in DOMAIN run[x].found, k.ends \subseteq Addresses
        PROVE  \E e \in D : /\ {AddressOf[e.from[1]], AddressOf[e.to[1]]} = k.ends
                            /\ e.type = k.type /\ own[e] >= run[x].found[k]
    <3> DEFINE e == EdgeFor(x, k)
    <3>1. /\ e \in D /\ key(e) = k /\ e.type = k.type
          /\ {AddressOf[e.from[1]], AddressOf[e.to[1]]} = k.ends
      BY <1>b, <2>1, <2>2
    <3> HIDE DEF e
    <3>2. own[e] >= run[x].found[k]
      BY <1>7, <1>8, <3>1 DEF Confidence
    <3> QED BY <3>1, <3>2
  <2>3. DrawnBy(own, run[x].found)
    BY <1>6, <2>2 DEF DrawnBy
  <2> QED BY <1>a, <1>h, <2>3 DEF DrawnOK, Fields
<1>23. SurplusOK(x)'
  <2> DEFINE new == D \ DOMAIN edges
  <2>1. lock = x => Surplus(NodesSeen(x), DOMAIN edges)
                      <= Surplus(nodes, DOMAIN edges) + (IF nodes = {} THEN 0 ELSE 1)
    <3>1. DOMAIN edges \cup DOMAIN run[x].edges = DOMAIN edges
      BY <1>0, NoRowsDomain
    <3> QED BY <1>0, <3>1 DEF SessionOK, SurplusOK
  <2>2. IsFiniteSet(NodesSeen(x)) /\ IsFiniteSet(DOMAIN edges) /\ IsFiniteSet(new)
    BY <1>0, <1>4, FS_Union, FS_Subset DEF NodesSeen, BaseType, SessionOK, OwnOK
  <2>3. \A e \in new : \A f \in DOMAIN edges : Placed(e) # Placed(f)
    BY <1>c
  <2>4. \A e, f \in new : Placed(e) = Placed(f) => e = f
    BY <1>20
  <2>5. DOMAIN edges \cup D = DOMAIN edges \cup new
    OBVIOUS
  <2> HIDE DEF new
  <2>6. Surplus(NodesSeen(x), DOMAIN edges \cup new) = Surplus(NodesSeen(x), DOMAIN edges)
    BY <2>2, <2>3, <2>4, SurplusNewEdges
  <2>7. run'[x].edges = own /\ DOMAIN own = D
    BY <1>6, <1>h DEF Fields
  <2> QED BY <1>10, <1>12, <2>1, <2>5, <2>6, <2>7 DEF SurplusOK
<1>24. SessionOK(x)'
  BY <1>14, <1>15, <1>16, <1>17, <1>18, <1>19, <1>21, <1>22, <1>23 DEF SessionOK
<1> QED BY <1>11, <1>24, LocalKeeps

-----------------------------------------------------------------------------
(* The commit.                                                             *)

LEMMA DoneAdded ==
    ASSUME BaseType, NEW x \in Runs, run[x].pc # "done",
           Frame(x), run'[x].pc = "done"
    PROVE  /\ Done' = Done \cup {x} /\ x \notin Done /\ IsFiniteSet(Done')
           /\ Cardinality(Done') = Cardinality(Done) + 1
           /\ Cardinality(Done) \in Nat
<1>1. \A z \in Runs : z # x => (run'[z].pc = "done" <=> run[z].pc = "done")
  BY DEF Frame
<1>2. Done' = Done \cup {x} /\ x \notin Done
  BY <1>1 DEF Done, At
<1>3. IsFiniteSet(Done)
  BY DEF BaseType
<1> HIDE DEF Done
<1> QED BY <1>2, <1>3, FS_AddElement, FS_CardinalityType

\* The rows x commits, and that the tables only grow.
LEMMA CommitRows ==
    ASSUME BaseType, NEW x \in Runs, SessionOK(x)
    PROVE  /\ EdgesSeen(x) \in EdgeRows
           /\ DOMAIN EdgesSeen(x) = DOMAIN edges \cup DOMAIN run[x].edges
           /\ \A e \in DOMAIN run[x].edges : EdgesSeen(x)[e] = run[x].edges[e]
           /\ \A e \in DOMAIN edges \ DOMAIN run[x].edges : EdgesSeen(x)[e] = edges[e]
           /\ \A e \in DOMAIN edges : edges[e] <= EdgesSeen(x)[e]
           /\ NodesSeen(x) \subseteq Node /\ nodes \subseteq NodesSeen(x)
           /\ IsFiniteSet(NodesSeen(x)) /\ IsFiniteSet(DOMAIN EdgesSeen(x))
<1>1. edges \in EdgeRows /\ run[x].edges \in EdgeRows /\ run[x].nodes \subseteq Node
      /\ nodes \subseteq Node
  BY RunFields DEF BaseType
<1>2. /\ EdgesSeen(x) \in EdgeRows
      /\ DOMAIN EdgesSeen(x) = DOMAIN edges \cup DOMAIN run[x].edges
      /\ \A e \in DOMAIN run[x].edges : EdgesSeen(x)[e] = run[x].edges[e]
      /\ \A e \in DOMAIN edges \ DOMAIN run[x].edges : EdgesSeen(x)[e] = edges[e]
  <2> DEFINE f == run[x].edges
             g == Over(f, edges)
  <2>1. /\ g \in EdgeRows /\ DOMAIN g = DOMAIN f \cup DOMAIN edges
        /\ \A e \in DOMAIN f : g[e] = f[e]
        /\ \A e \in DOMAIN edges \ DOMAIN f : g[e] = edges[e]
    BY <1>1, OverType
  <2>2. g = EdgesSeen(x)
    BY DEF EdgesSeen
  <2> HIDE DEF g
  <2> QED BY <2>1, <2>2
<1>3. \A e \in DOMAIN edges : edges[e] <= EdgesSeen(x)[e]
  <2> SUFFICES ASSUME NEW e \in DOMAIN edges PROVE edges[e] <= EdgesSeen(x)[e]
    OBVIOUS
  <2>1. CASE e \in DOMAIN run[x].edges
    BY <1>2, <2>1 DEF SessionOK, OwnOK
  <2>2. CASE e \notin DOMAIN run[x].edges
    <3>1. edges[e] \in Nat
      BY <1>1, RowsType, ConfidenceNat
    <3> QED BY <1>2, <2>2, <3>1
  <2> QED BY <2>1, <2>2
<1>4. IsFiniteSet(nodes) /\ IsFiniteSet(run[x].nodes) /\ IsFiniteSet(DOMAIN edges)
      /\ IsFiniteSet(DOMAIN run[x].edges)
  BY DEF BaseType, SessionOK, OwnOK
<1>5. IsFiniteSet(NodesSeen(x)) /\ IsFiniteSet(DOMAIN EdgesSeen(x))
  <2>1. IsFiniteSet(nodes \cup run[x].nodes)
    BY <1>4, FS_Union
  <2>2. IsFiniteSet(DOMAIN edges \cup DOMAIN run[x].edges)
    BY <1>4, FS_Union
  <2> QED BY <1>2, <2>1, <2>2 DEF NodesSeen
<1> QED BY <1>1, <1>2, <1>3, <1>5 DEF NodesSeen

LEMMA CommitKeeps ==
    ASSUME TopologyInv, NEW x \in Runs, Commit(x)
    PROVE  TopologyInv'
<1>0. /\ BaseType /\ SessionOK(x) /\ RowsOK /\ BoundOK /\ run[x].pc \in {"match", "commit"}
      /\ run[x].pc # "done"
  BY DEF TopologyInv, Commit, At
<1> DEFINE place == "done"
           found == run[x].found
<1>1. /\ nodes' = NodesSeen(x) /\ edges' = EdgesSeen(x) /\ lock' = Released(x)
      /\ run' = Ended(x, place, found) /\ place \in {"done", "failed"} /\ place = "done"
  BY DEF Commit
<1>2. found \in Results
  BY <1>0, RunFields
<1> HIDE DEF place, found
<1>3. Frame(x) /\ Fields(x, place, <<>>, 1, <<>>, <<>>, found, {}, {}, NoRows)
  BY <1>0, <1>1, <1>2, EndedOK
<1>4. /\ Done' = Done \cup {x} /\ x \notin Done /\ IsFiniteSet(Done')
      /\ Cardinality(Done') = Cardinality(Done) + 1 /\ Cardinality(Done) \in Nat
  <2>1. run'[x].pc = "done"
    BY <1>1, <1>3 DEF Fields
  <2> QED BY <1>0, <1>3, <2>1, DoneAdded
<1> DEFINE own == run[x].edges
<1>5. /\ edges' \in EdgeRows /\ DOMAIN edges' = DOMAIN edges \cup DOMAIN own
      /\ \A e \in DOMAIN own : edges'[e] = own[e]
      /\ \A e \in DOMAIN edges \ DOMAIN own : edges'[e] = edges[e]
      /\ \A e \in DOMAIN edges : edges[e] <= edges'[e]
      /\ nodes' \subseteq Node /\ nodes \subseteq nodes'
      /\ IsFiniteSet(nodes') /\ IsFiniteSet(DOMAIN edges')
  BY <1>0, <1>1, CommitRows
<1>6. /\ NoRun \notin Runs /\ lock \in Runs \cup {NoRun} /\ lock' # x
      /\ lock' = (IF lock = x THEN NoRun ELSE lock)
  BY <1>0, <1>1, RunAssumption DEF BaseType, Released
<1>7. BaseType'
  BY <1>3, <1>4, <1>5, <1>6 DEF BaseType, Frame
<1>8. /\ \A n \in run[x].nodes : n[2] = x
      /\ \A e \in DOMAIN own :
           e.from \in nodes' /\ e.to \in nodes' /\ (e.by = x \/ e \in DOMAIN edges)
      /\ \A e \in DOMAIN own :
           /\ Directed(e) /\ Supported(e, own[e])
           /\ \A f \in DOMAIN edges \cup DOMAIN own :
                e.type # "service_match" /\ Placed(e) = Placed(f) => e = f
  BY <1>0, <1>1 DEF SessionOK, OwnOK
<1> HIDE DEF own
<1>9. RowsOK'
  <2>1. \A n \in nodes' : n[2] \in Done'
    BY <1>0, <1>1, <1>4, <1>8 DEF RowsOK, NodesSeen
  <2>2. ASSUME NEW e \in DOMAIN edges'
        PROVE  /\ e.by \in Done' /\ e.from \in nodes' /\ e.to \in nodes'
               /\ Directed(e) /\ Supported(e, edges'[e])
    <3>1. CASE e \in DOMAIN own
      <4>1. e.by \in Done'
        BY <1>0, <1>4, <1>8, <3>1 DEF RowsOK
      <4> QED BY <1>5, <1>8, <3>1, <4>1
    <3>2. CASE e \notin DOMAIN own
      <4>1. e \in DOMAIN edges /\ edges'[e] = edges[e]
        BY <1>5, <3>2
      <4> QED BY <1>0, <1>4, <1>5, <4>1 DEF RowsOK
    <3> QED BY <3>1, <3>2
  <2>3. ASSUME NEW e \in DOMAIN edges', NEW f \in DOMAIN edges',
               e.type # "service_match", Placed(e) = Placed(f)
        PROVE  e = f
    <3>1. f.type # "service_match"
      BY <2>3 DEF Placed
    <3>2. CASE e \in DOMAIN own
      BY <1>5, <1>8, <2>3, <3>2
    <3>3. CASE f \in DOMAIN own
      BY <1>5, <1>8, <2>3, <3>1, <3>3
    <3>4. CASE e \notin DOMAIN own /\ f \notin DOMAIN own
      BY <1>0, <1>5, <2>3, <3>4 DEF RowsOK
    <3> QED BY <3>2, <3>3, <3>4
  <2>4. \A e \in DOMAIN edges' : /\ e.by \in Done' /\ e.from \in nodes' /\ e.to \in nodes'
                                 /\ Directed(e)' /\ Supported(e, edges'[e])
    BY <2>2 DEF Directed
  <2> QED BY <2>1, <2>3, <2>4 DEF RowsOK, Directed, Supported, Placed
<1>10. BoundOK'
  <2> DEFINE S == Surplus(nodes, DOMAIN edges)
  <2>1. S \in Int /\ Surplus(nodes', DOMAIN edges') \in Int
    BY <1>0, <1>5, SurplusType DEF BaseType
  <2>2. CASE lock = x
    <3>1. Surplus(nodes', DOMAIN edges') <= S + (IF nodes = {} THEN 0 ELSE 1)
      BY <1>0, <1>1, <1>5, <2>2 DEF SessionOK, SurplusOK, own
    <3>2. CASE nodes = {}
      <4>1. DOMAIN edges = {}
        BY <1>0, <3>2 DEF RowsOK
      <4>2. S = 0
        BY <3>2, <4>1, SurplusNothing
      <4> HIDE DEF S
      <4> QED BY <1>4, <2>1, <3>1, <3>2, <4>2 DEF BoundOK
    <3>3. CASE nodes # {}
      <4>1. S < Cardinality(Done)
        BY <1>0, <3>3 DEF BoundOK
      <4> HIDE DEF S
      <4> QED BY <1>4, <2>1, <3>1, <3>3, <4>1 DEF BoundOK
    <3> QED BY <3>2, <3>3
  <2>3. CASE lock # x
    <3>1. nodes' = nodes /\ DOMAIN edges' = DOMAIN edges
      BY <1>0, <1>1, <1>5, <2>3, NoRowsDomain DEF SessionOK, LockOK, NodesSeen, own
    <3>2. nodes # {} => S < Cardinality(Done)
      BY <1>0 DEF BoundOK
    <3>3. Surplus(nodes', DOMAIN edges') = S
      BY <3>1
    <3> HIDE DEF S
    <3> QED BY <1>4, <2>1, <3>1, <3>2, <3>3 DEF BoundOK
  <2> QED BY <2>2, <2>3
<1>11. ASSUME NEW z \in Runs, z # x PROVE SessionOK(z)'
  <2>1. CASE lock = z
    <3>1. run[x].nodes = {} /\ run[x].edges = NoRows
      BY <1>0, <1>11, <2>1 DEF SessionOK, LockOK
    <3>2. nodes' = nodes
      BY <1>1, <3>1 DEF NodesSeen
    <3>3. edges' = edges
      BY <1>0, <1>1, <3>1, OverNothing DEF EdgesSeen, BaseType
    <3>4. Grows(z)
      BY <1>6, <1>11, <2>1, <3>2, <3>3 DEF Grows
    <3>5. run'[z] = run[z]
      BY <1>3, <1>11 DEF Frame
    <3> QED BY <1>7, <3>4, <3>5, OthersKeep DEF TopologyInv
  <2>2. CASE lock # z
    <3>1. lock' # z
      BY <1>6, <2>2
    <3>2. Grows(z)
      BY <1>5, <2>2, <3>1 DEF Grows
    <3>3. run'[z] = run[z]
      BY <1>3, <1>11 DEF Frame
    <3> QED BY <1>7, <3>2, <3>3, OthersKeep DEF TopologyInv
  <2> QED BY <2>1, <2>2
<1>12. SessionOK(x)'
  <2>1. x \in Builds => found = NoRows
    BY <1>0 DEF SessionOK, PlaceOK, found
  <2>2. \A k \in DOMAIN found : \A l \in Links :
          l.type = k.type /\ {AddressOf[d] : d \in l.ends} = k.ends => found[k] <= Evidence[l]
    BY <1>0 DEF SessionOK, FoundOK, found
  <2>3. DrawnBy(edges', found)
    <3>1. CASE x \in Builds
      BY <2>1, <3>1, NoRowsDomain DEF DrawnBy
    <3>2. CASE x \notin Builds
      <4>1. run[x].pc = "commit"
        BY <1>0, <3>2 DEF SessionOK, PlaceOK
      <4>2. DrawnBy(own, found)
        BY <1>0, <4>1 DEF SessionOK, DrawnOK, found, own
      <4> QED BY <1>5, <4>2 DEF DrawnBy
    <3> QED BY <3>1, <3>2
  <2> QED BY <1>1, <1>3, <1>6, <2>1, <2>2, <2>3, EndedSession
<1> QED BY <1>7, <1>9, <1>10, <1>11, <1>12 DEF TopologyInv

-----------------------------------------------------------------------------
(* The invariant.                                                          *)

LEMMA InitInv ==
    ASSUME Init
    PROVE  TopologyInv
<1>1. /\ nodes = {} /\ edges = NoRows /\ lock = NoRun /\ run = [z \in Runs |-> Idle]
  BY DEF Init
<1>2. NoRows \in EdgeRows /\ NoRows \in Results
  <2>1. NoRows \in [{} -> Confidence]
    BY DEF NoRows
  <2> QED BY <2>1 DEF EdgeRows, Results
<1>3. /\ Idle \in Session /\ Idle.pc = "idle" /\ Idle.list = <<>> /\ Idle.at = 1
      /\ Idle.got = <<>> /\ Idle.next = <<>> /\ Idle.found = NoRows
      /\ Idle.pairs = {} /\ Idle.nodes = {} /\ Idle.edges = NoRows
  BY <1>2 DEF Idle, Session, Place
<1>4. Done = {} /\ IsFiniteSet({})
  BY <1>1, <1>3, FS_EmptySet DEF Done, At
<1>5. run \in [Runs -> Session] /\ \A x \in Runs : run[x] = Idle
  BY <1>1, <1>3
<1>6. BaseType
  BY <1>1, <1>2, <1>4, <1>5, NoRowsDomain DEF BaseType
<1>7. RowsOK /\ BoundOK
  BY <1>1, NoRowsDomain DEF RowsOK, BoundOK
<1>8. ASSUME NEW x \in Runs PROVE SessionOK(x)
  <2>1. /\ run[x].pc = "idle" /\ run[x].list = <<>> /\ run[x].at = 1
        /\ run[x].got = <<>> /\ run[x].next = <<>> /\ run[x].found = NoRows
        /\ run[x].pairs = {} /\ run[x].nodes = {} /\ run[x].edges = NoRows
    BY <1>3, <1>5
  <2>2. LockOK(x) /\ PlaceOK(x) /\ ListOK(x) /\ CoverOK(x)
    BY <2>1 DEF LockOK, PlaceOK, ListOK, CoverOK
  <2>3. NextOK(x) /\ FreshOK(x) /\ DrawnOK(x) /\ Got(x) \subseteq NodesSeen(x)
    BY <2>1 DEF NextOK, FreshOK, DrawnOK, Got
  <2>4. FoundOK(x)
    BY <2>1, NoRowsDomain DEF FoundOK
  <2>5. OwnOK(x)
    BY <1>4, <2>1, NoRowsDomain DEF OwnOK
  <2>6. SurplusOK(x)
    BY <1>1, RunAssumption DEF SurplusOK
  <2> QED BY <2>2, <2>3, <2>4, <2>5, <2>6 DEF SessionOK
<1> QED BY <1>6, <1>7, <1>8 DEF TopologyInv

LEMMA NextKeeps ==
    ASSUME TopologyInv, Next
    PROVE  TopologyInv'
<1>1. PICK x \in Runs : Step(x)
  BY DEF Next
<1>2. CASE StartBuild(x)
  BY <1>2, StartBuildKeeps
<1>3. CASE StartDiscovery(x)
  BY <1>3, StartDiscoveryKeeps
<1>4. CASE Probe(x)
  BY <1>4, ProbeKeeps
<1>5. CASE SkipAddress(x)
  BY <1>5, SkipAddressKeeps
<1>6. CASE KeepNode(x)
  BY <1>6, KeepNodeKeeps
<1>7. CASE SelectNode(x)
  BY <1>7, SelectNodeKeeps
<1>8. CASE WriteNode(x)
  BY <1>8, WriteNodeKeeps
<1>9. CASE NodesDone(x)
  BY <1>9, NodesDoneKeeps
<1>10. CASE SelectEdge(x)
  BY <1>10, SelectEdgeKeeps
<1>11. CASE AddEdge(x)
  BY <1>11, AddEdgeKeeps
<1>12. CASE DrawEdges(x)
  BY <1>12, DrawEdgesKeeps
<1>13. CASE Commit(x)
  BY <1>13, CommitKeeps
<1>14. CASE Fail(x)
  BY <1>14, FailKeeps
<1> QED
  BY <1>1, <1>2, <1>3, <1>4, <1>5, <1>6, <1>7, <1>8, <1>9, <1>10, <1>11, <1>12, <1>13, <1>14
     DEF Step

LEMMA StutterKeeps ==
    ASSUME TopologyInv, UNCHANGED vars
    PROVE  TopologyInv'
<1>1. nodes' = nodes /\ edges' = edges /\ lock' = lock /\ run' = run
  BY DEF vars
<1>2. Done' = Done
  BY <1>1 DEF Done, At
<1>3. BaseType'
  BY <1>1, <1>2 DEF TopologyInv, BaseType
<1>4. RowsOK' /\ BoundOK'
  BY <1>1, <1>2 DEF TopologyInv, RowsOK, BoundOK
<1>5. ASSUME NEW z \in Runs PROVE SessionOK(z)'
  <2>1. Grows(z) /\ run'[z] = run[z]
    BY <1>1 DEF Grows
  <2> QED BY <1>3, <2>1, OthersKeep DEF TopologyInv
<1> QED BY <1>3, <1>4, <1>5 DEF TopologyInv

\* TopologyInv holds in every state, whatever builds and discoveries do at the
\* same time.
THEOREM TopologyInvariance == Spec => []TopologyInv
<1>1. Init => TopologyInv
  BY InitInv
<1>2. TopologyInv /\ [Next]_vars => TopologyInv'
  BY NextKeeps, StutterKeeps
<1> QED BY <1>1, <1>2, PTL DEF Spec

\* The state is of its type: an edge in the table has its nodes in the table, and
\* rows nobody else sees yet mean the write lock.
THEOREM TopologyTypeCorrect == Spec => []TypeOK
<1>1. TopologyInv => TypeOK
  <2> SUFFICES ASSUME TopologyInv PROVE TypeOK
    OBVIOUS
  <2>0. BaseType /\ RowsOK
    BY DEF TopologyInv
  <2>1. ASSUME NEW rows \in EdgeRows PROVE EdgesOK(rows)
    <3>1. rows \in [DOMAIN rows -> Confidence] /\ DOMAIN rows \subseteq EdgeRow
      BY RowsType
    <3> QED BY <3>1 DEF EdgesOK, EdgeRow, Confidence
  <2>2. ASSUME NEW x \in Runs
        PROVE  /\ run[x].pc \in Place /\ run[x].nodes \subseteq Devices \X {x}
               /\ EdgesOK(run[x].edges) /\ Got(x) \subseteq NodesSeen(x)
               /\ run[x].nodes # {} \/ run[x].edges # NoRows => lock = x
    <3>1. SessionOK(x)
      BY DEF TopologyInv
    <3>2. run[x].pc \in Place /\ run[x].nodes \subseteq Node /\ run[x].edges \in EdgeRows
      BY <2>0, RunFields
    <3>3. run[x].nodes \subseteq Devices \X {x}
      BY <3>1, <3>2 DEF SessionOK, OwnOK, Node
    <3> QED BY <2>1, <3>1, <3>2, <3>3 DEF SessionOK, LockOK
  <2>3. \A e \in DOMAIN edges : {e.from, e.to} \subseteq nodes
    BY <2>0 DEF RowsOK
  <2> QED BY <2>0, <2>1, <2>2, <2>3 DEF TypeOK, BaseType, Place
<1> QED BY <1>1, TopologyInvariance, PTL

\* Between two nodes there is one edge of each type that discoveries draw, since
\* discover orders the two node ids before it looks for the edge (service.py 118).
THEOREM EdgesOneWay == Spec => []OneEdgeEachWay
<1>1. TopologyInv => OneEdgeEachWay
  <2> SUFFICES ASSUME TopologyInv, NEW e \in DOMAIN edges, NEW f \in DOMAIN edges,
                      e.type # "service_match", e.type = f.type, {e.from, e.to} = {f.from, f.to}
               PROVE  e = f
    BY DEF OneEdgeEachWay
  <2>1. Directed(e) /\ Directed(f)
    BY DEF TopologyInv, RowsOK
  <2>2. e.from = f.from
    BY <2>1 DEF Directed
  <2>3. e.to = f.to
    BY <2>1, <2>2 DEF Directed
  <2>4. Placed(e) = Placed(f)
    BY <2>2, <2>3 DEF Placed
  <2> QED BY <2>4 DEF TopologyInv, RowsOK
<1> QED BY <1>1, TopologyInvariance, PTL

\* What a discovery has found between addresses that have devices is drawn when
\* it is done, and stays drawn (discover, service.py 101-140).
THEOREM FoundStaysDrawn == Spec => []FoundIsDrawn
<1>1. TopologyInv => FoundIsDrawn
  <2> SUFFICES ASSUME TopologyInv, NEW x \in Done PROVE DrawnBy(edges, run[x].found)
    BY DEF FoundIsDrawn, DrawnBy, Addresses
  <2>1. x \in Runs /\ run[x].pc = "done"
    BY DEF Done, At
  <2> QED BY <2>1 DEF TopologyInv, SessionOK, DrawnOK
<1> QED BY <1>1, TopologyInvariance, PTL

\* Runs that find the same rows missing together add one each of those that were
\* there already, and the first run none: the queries and inserts of both
\* handlers (service.py 36-44, 57-72) and get_or_create_node (164-173).
THEOREM SurplusBounded == Spec => []OneSurplusRowPerRun
<1>1. TopologyInv => OneSurplusRowPerRun
  BY DEF TopologyInv, BoundOK, OneSurplusRowPerRun, Surplus, SurplusNodes, SurplusEdges, Placed
<1> QED BY <1>1, TopologyInvariance, PTL

-----------------------------------------------------------------------------
(* The graph.                                                              *)

\* The certainty of a link is that of one of its edges, and no edge has more.
LEMMA CertaintyOK ==
    ASSUME BaseType
    PROVE  /\ DOMAIN Certainty = {LinkOf(e) : e \in DOMAIN edges}
           /\ DOMAIN Certainty \subseteq Links
           /\ \A l \in DOMAIN Certainty :
                /\ \E e \in DOMAIN edges : LinkOf(e) = l /\ Certainty[l] = edges[e]
                /\ \A e \in DOMAIN edges : LinkOf(e) = l => edges[e] <= Certainty[l]
<1>1. edges \in [DOMAIN edges -> Confidence] /\ DOMAIN edges \subseteq EdgeRow
  BY RowsType DEF BaseType
<1>2. DOMAIN Certainty = {LinkOf(e) : e \in DOMAIN edges}
  BY DEF Certainty
<1>3. DOMAIN Certainty \subseteq Links
  BY <1>1, <1>2, LinkOfOK
<1>4. ASSUME NEW l \in DOMAIN Certainty
      PROVE  /\ \E e \in DOMAIN edges : LinkOf(e) = l /\ Certainty[l] = edges[e]
             /\ \A e \in DOMAIN edges : LinkOf(e) = l => edges[e] <= Certainty[l]
  <2> DEFINE S == {edges[e] : e \in {f \in DOMAIN edges : LinkOf(f) = l}}
  <2>1. Certainty[l] = Max(S)
    BY <1>2 DEF Certainty
  <2>2. S \subseteq Confidence /\ S # {}
    BY <1>1, <1>2
  <2>3. \A c \in S : \E e \in DOMAIN edges : LinkOf(e) = l /\ c = edges[e]
    OBVIOUS
  <2>4. \A e \in DOMAIN edges : LinkOf(e) = l => edges[e] \in S
    OBVIOUS
  <2> HIDE DEF S
  <2>5. Max(S) \in S /\ \A c \in S : c <= Max(S)
    BY <2>2, ConfidenceMax
  <2> QED BY <2>1, <2>3, <2>4, <2>5
<1> QED BY <1>2, <1>3, <1>4

\* What is committed is learnt: nothing without evidence, nothing lost.
LEMMA GrowthLearns ==
    ASSUME TopologyInv, TopologyInv', nodes \subseteq nodes',
           DOMAIN edges \subseteq DOMAIN edges', \A e \in DOMAIN edges : edges[e] <= edges'[e]
    PROVE  Graph!Learn
<1>0. BaseType /\ BaseType' /\ RowsOK'
  BY DEF TopologyInv
<1>1. /\ DOMAIN Certainty = {LinkOf(e) : e \in DOMAIN edges}
      /\ \A l \in DOMAIN Certainty :
           /\ \E e \in DOMAIN edges : LinkOf(e) = l /\ Certainty[l] = edges[e]
           /\ \A e \in DOMAIN edges : LinkOf(e) = l => edges[e] <= Certainty[l]
  BY <1>0, CertaintyOK
<1>2. /\ DOMAIN Certainty' = {LinkOf(e) : e \in DOMAIN edges'}
      /\ DOMAIN Certainty' \subseteq Links
      /\ \A l \in DOMAIN Certainty' :
           /\ \E e \in DOMAIN edges' : LinkOf(e) = l /\ Certainty'[l] = edges'[e]
           /\ \A e \in DOMAIN edges' : LinkOf(e) = l => edges'[e] <= Certainty'[l]
  <2>1. (/\ DOMAIN Certainty = {LinkOf(e) : e \in DOMAIN edges}
         /\ DOMAIN Certainty \subseteq Links
         /\ \A l \in DOMAIN Certainty :
              /\ \E e \in DOMAIN edges : LinkOf(e) = l /\ Certainty[l] = edges[e]
              /\ \A e \in DOMAIN edges : LinkOf(e) = l => edges[e] <= Certainty[l])'
    BY <1>0, CertaintyOK, PTL
  <2> QED BY <2>1
<1>3. \A e \in DOMAIN edges : edges[e] \in Confidence
  BY <1>0, RowsType DEF BaseType
<1>4. /\ \A e \in DOMAIN edges' : edges'[e] \in Confidence /\ e \in EdgeRow
      /\ nodes \subseteq Node /\ nodes' \subseteq Node
  BY <1>0, RowsType DEF BaseType
<1>5. /\ {n[1] : n \in nodes} \subseteq {n[1] : n \in nodes'}
      /\ {n[1] : n \in nodes'} \subseteq Devices
  BY <1>4 DEF Node
<1>6. DOMAIN Certainty \subseteq DOMAIN Certainty'
  BY <1>1, <1>2
<1>7. ASSUME NEW l \in DOMAIN Certainty'
      PROVE  /\ l.ends \subseteq {n[1] : n \in nodes'}
             /\ Certainty'[l] \in 1 .. Evidence[l]
             /\ l \in DOMAIN Certainty => Certainty'[l] >= Certainty[l]
  <2>1. PICK e \in DOMAIN edges' : LinkOf(e) = l /\ Certainty'[l] = edges'[e]
    BY <1>2
  <2>2. e \in EdgeRow /\ edges'[e] \in Confidence
    BY <1>4
  <2>3. l.ends \subseteq {n[1] : n \in nodes'}
    <3>1. e.from \in nodes' /\ e.to \in nodes'
      BY <1>0 DEF RowsOK
    <3>2. l.ends = {e.from[1], e.to[1]}
      BY <2>1, <2>2, LinkOfOK
    <3> QED BY <3>1, <3>2
  <2>4. Certainty'[l] \in 1 .. Evidence[l]
    <3>1. edges'[e] <= Evidence[l]
      BY <1>0, <2>1 DEF RowsOK, Supported
    <3>2. l \in Links
      BY <1>2
    <3>3. Evidence[l] \in Nat
      BY <3>2, EvidenceValue
    <3>4. edges'[e] \in Nat /\ edges'[e] >= 1
      BY <2>2 DEF Confidence
    <3> QED BY <2>1, <3>1, <3>3, <3>4
  <2>5. l \in DOMAIN Certainty => Certainty'[l] >= Certainty[l]
    <3> SUFFICES ASSUME l \in DOMAIN Certainty PROVE Certainty'[l] >= Certainty[l]
      OBVIOUS
    <3>1. PICK f \in DOMAIN edges : LinkOf(f) = l /\ Certainty[l] = edges[f]
      BY <1>1
    <3>2. f \in DOMAIN edges' /\ edges[f] <= edges'[f] /\ edges'[f] <= Certainty'[l]
      BY <1>2, <3>1
    <3>3. edges[f] \in Nat /\ edges'[f] \in Nat /\ Certainty'[l] \in Nat
      BY <1>3, <1>4, <2>1, <3>2, ConfidenceNat
    <3> QED BY <3>1, <3>2, <3>3
  <2> QED BY <2>3, <2>4, <2>5
<1> QED BY <1>2, <1>5, <1>6, <1>7 DEF Graph!Learn

\* Only a commit changes the tables, and it only adds to them.
LEMMA TablesGrow ==
    ASSUME TopologyInv, Next
    PROVE  \/ nodes' = nodes /\ edges' = edges
           \/ /\ nodes \subseteq nodes' /\ DOMAIN edges \subseteq DOMAIN edges'
              /\ \A e \in DOMAIN edges : edges[e] <= edges'[e]
<1>1. PICK x \in Runs : Step(x)
  BY DEF Next
<1>2. CASE Commit(x)
  <2>1. nodes' = NodesSeen(x) /\ edges' = EdgesSeen(x)
    BY <1>2 DEF Commit
  <2>2. BaseType /\ SessionOK(x)
    BY DEF TopologyInv
  <2> QED BY <2>1, <2>2, CommitRows
<1>3. CASE ~ Commit(x)
  <2>1. nodes' = nodes /\ edges' = edges
    BY <1>1, <1>3 DEF Step, StartBuild, StartDiscovery, Probe, SkipAddress, KeepNode, SelectNode,
                      WriteNode, NodesDone, SelectEdge, AddEdge, DrawEdges, Fail
  <2> QED BY <2>1
<1> QED BY <1>2, <1>3

\* Builds and discoveries together publish a graph that only grows, in which each
\* link has evidence of its own.
THEOREM ImplementsTopologyGraph == Spec => ImplementsGraph
<1>1. Init => Graph!GraphInit
  <2> SUFFICES ASSUME Init PROVE Graph!GraphInit
    OBVIOUS
  <2>1. nodes = {} /\ edges = NoRows
    BY DEF Init
  <2>2. {n[1] : n \in nodes} = {}
    BY <2>1
  <2>3. Certainty = <<>>
    <3>1. Certainty \in [{} -> {}]
      BY <2>1, NoRowsDomain DEF Certainty
    <3> QED BY <3>1, NoRowsOnly DEF NoRows
  <2> QED BY <2>2, <2>3 DEF Graph!GraphInit
<1>2. TopologyInv /\ TopologyInv' /\ [Next]_vars => [Graph!Learn]_(Graph!graphVars)
  <2> SUFFICES ASSUME TopologyInv, TopologyInv', [Next]_vars
               PROVE  [Graph!Learn]_(Graph!graphVars)
    OBVIOUS
  <2>1. CASE nodes' = nodes /\ edges' = edges
    <3>1. Certainty' = Certainty
      BY <2>1 DEF Certainty
    <3> QED BY <2>1, <3>1 DEF Graph!graphVars
  <2>2. CASE ~ (nodes' = nodes /\ edges' = edges)
    <3>1. Next
      BY <2>2 DEF vars
    <3>2. /\ nodes \subseteq nodes' /\ DOMAIN edges \subseteq DOMAIN edges'
          /\ \A e \in DOMAIN edges : edges[e] <= edges'[e]
      BY <2>2, <3>1, TablesGrow
    <3> QED BY <3>2, GrowthLearns
  <2> QED BY <2>1, <2>2
<1> QED BY <1>1, <1>2, TopologyInvariance, PTL DEF Spec, ImplementsGraph, Graph!GraphSpec
===============================================================================
