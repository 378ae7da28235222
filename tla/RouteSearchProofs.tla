---------------------------- MODULE RouteSearchProofs ---------------------------
(***************************************************************************)
(* Proofs about RouteSearch, for every graph the simulator or the          *)
(* candidates of a request can give: findCheapestRoute finds a cheapest    *)
(* route, and the first of the cheapest candidates.                        *)
(***************************************************************************)
EXTENDS RouteSearch, TLAPS

\* A leaf may wait for its turn: the limits are above the default ones.
USE SMTT(20), ZenonT(20)

\* findCheapestRoute has been called.
Started == pc \in {"search", "rebuild"} \/ response.code = "OK"

\* The route is being rebuilt, or has been answered with.
Rebuilding == pc = "rebuild" \/ response.found

\* A node whose entry has been popped.
Settled(n) == n \in reached /\ <<dist[n], n>> \notin queue

\* Edge k of node n can carry the amount.
Carries(n, k) == k \in DOMAIN graph.edges[n] /\ Edge(n, k).liquidity >= request.amount

\* The edge cannot shorten anything.
Relaxed(n, k) == Edge(n, k).to \in reached /\ dist[Edge(n, k).to] <= dist[n] + Edge(n, k).fee

\* Before the search, and for a request it is not made for.
Blank ==
  /\ pc \in {"receive", "done"}
  /\ pc = "receive" => response = NoAnswer
  /\ response.code \in {"none", "INVALID_ARGUMENT"}
  /\ ~response.found
  /\ graph = EmptyGraph
  /\ reached = {} /\ queue = {} /\ dist = <<>> /\ pred = <<>>
  /\ u = NoNode /\ route = <<>>

\* The graph searched, and the nodes of the request in it.
GraphInv ==
  /\ ValidRequest(request)
  /\ graph = IF request.candidates = <<>> THEN network ELSE CandidateGraph(request)
  /\ {source, dest} \subseteq Nodes
  /\ graph.nodes[source] = <<request.source, request.asset>>
  /\ graph.nodes[dest] = <<request.dest, request.asset>>

\* The queue: the entry of a node reached last is the up to date one, and the
\* source is popped first.
QueueInv ==
  /\ source \in reached
  /\ dist[source] = 0
  /\ \A e \in queue : dist[e[2]] <= e[1]
  /\ ~Settled(source) => reached = {source} /\ queue = {<<0, source>>} /\ u = NoNode
  /\ u # NoNode => Settled(u)
  /\ \A n \in reached : graph.nodes[n][2] = request.asset

\* Nodes are settled in the order of their distances, where fees are not
\* negative; over candidate edges, the source is settled before the rest.
OrderInv ==
  /\ request.candidates = <<>> =>
       \A n \in Nodes : Settled(n) =>
         /\ \A e \in queue : dist[n] <= e[1]
         /\ u # NoNode => dist[n] <= dist[u]
  /\ request.candidates # <<>> /\ u = source => \A n \in Nodes \ {source} : ~Settled(n)

\* Edge k of node p is the one node n was reached over: of parallel edges that
\* cost the same, the first.
ReachedOver(n, p, k) ==
  /\ Settled(p)
  /\ Carries(p, k)
  /\ Edge(p, k).to = n
  /\ dist[n] = dist[p] + Edge(p, k).fee
  /\ \A j \in 1..(k - 1) : Carries(p, j) /\ Edge(p, j).to = n => Edge(p, k).fee < Edge(p, j).fee

PredInv == \A n \in reached \ {source} : ReachedOver(n, pred[n].node, pred[n].edge)

\* Every edge looked at is relaxed.
RelaxInv ==
  \A n \in Nodes : Settled(n) =>
    \A k \in DOMAIN graph.edges[n] : (n # u \/ k < next) /\ Carries(n, k) => Relaxed(n, k)

\* The predecessors lead back to the source: every settled node has a rank
\* above its predecessor's, and the route climbs.
Ranked(ord) ==
  /\ \A n \in Nodes \ {source} : Settled(n) => ord[pred[n].node] < ord[n]
  /\ Rebuilding =>
       /\ ord[at] <= ord[dest]
       /\ \A i \in DOMAIN route : ord[at] <= ord[route[i].from] /\ ord[route[i].from] < ord[dest]
       /\ \A i, j \in DOMAIN route : i < j => ord[route[i].from] < ord[route[j].from]

RankInv == \E ord \in [Nodes -> Nat] : Ranked(ord)

\* The search is over.
Over == queue = {} /\ u = NoNode

\* Hop i of the route is the edge its far end was reached over.
HopInv(i) ==
  LET n == route[i].from
      k == route[i].edge
  IN /\ n \in reached
     /\ Carries(n, k)
     /\ Edge(n, k).to \in reached \ {source}
     /\ pred[Edge(n, k).to] = [node |-> n, edge |-> k]

\* The route so far leads from at to the destination.
RouteInv ==
  Rebuilding =>
    /\ Over
    /\ at \in reached /\ dest \in reached
    /\ route \in Seq([from : Nodes, edge : Nat])
    /\ \A i \in DOMAIN route : HopInv(i)
    /\ \A i \in 1..(Len(route) - 1) : Edge(route[i].from, route[i].edge).to = route[i + 1].from
    /\ route = <<>> => at = dest
    /\ route # <<>> => /\ route[1].from = at
                       /\ Edge(route[Len(route)].from, route[Len(route)].edge).to = dest

\* The answer.
AnswerInv ==
  /\ pc \in {"search", "rebuild"} => response = NoAnswer
  /\ pc = "search" => route = <<>>
  /\ response.code = "OK" => Over /\ pc = "done" /\ (response.found <=> dest \in reached)
  /\ response.found =>
       /\ response.code = "OK"
       /\ at = source
       /\ response.fee = dist[dest]
       /\ response.hops =
            [i \in DOMAIN route |->
               [from |-> graph.nodes[route[i].from],
                to |-> graph.nodes[Edge(route[i].from, route[i].edge).to],
                bridge |-> Edge(route[i].from, route[i].edge).bridge,
                fee |-> Edge(route[i].from, route[i].edge).fee,
                liquidity |-> Edge(route[i].from, route[i].edge).liquidity]]

SearchInv == GraphInv /\ QueueInv /\ OrderInv /\ PredInv /\ RelaxInv

IInv ==
  /\ TypeOK
  /\ network \in Snapshots
  /\ IF Started THEN SearchInv /\ RankInv /\ RouteInv /\ AnswerInv ELSE Blank

-----------------------------------------------------------------------------
(***************************************************************************)
(* The graph.                                                              *)
(***************************************************************************)
\* What an element of a sequence is.
LEMMA SeqElement ==
  ASSUME NEW H, NEW s \in Seq(H), NEW i \in DOMAIN s
  PROVE  s[i] \in H
OBVIOUS

\* A predecessor entry is read back.
LEMMA PredFields ==
  ASSUME NEW x, NEW n, NEW k, x = [node |-> n, edge |-> k]
  PROVE  x.node = n /\ x.edge = k
OBVIOUS

\* The first and the last hop of a route.
LEMMA FirstAndLast == \A n \in Nat \ {0} : 1 \in 1..n /\ n \in 1..n
OBVIOUS

\* A total that improves is over a smaller fee.
LEMMA SmallerFee == \A d, a, b, c \in Int : d + a < c /\ c <= d + b => a < b
OBVIOUS

\* A length below the number of nodes.
LEMMA LengthRange == \A m \in Nat \ {0}, c \in Nat : m <= c - 1 => m \in 1..(c - 1)
OBVIOUS

\* Distances are compared.
LEMMA Comparing == \A a, b, c \in Int : /\ a <= a /\ (~(a < b) => b <= a)
                                      /\ (a < b /\ b <= c => a <= c)
OBVIOUS

\* An entry of an array is assigned.
LEMMA Assigned ==
  ASSUME NEW S, NEW T, NEW f \in [S -> T], NEW s \in S, NEW x \in T, NEW g, g = [f EXCEPT ![s] = x]
  PROVE  g \in [S -> T] /\ g[s] = x /\ \A n \in S \ {s} : g[n] = f[n]
OBVIOUS

\* Distances and costs are added up.
LEMMA Adding == \A d, g, c, f \in Int : d <= g + f /\ g <= c => d <= c + f
OBVIOUS

\* The first of the distances added up.
LEMMA FirstIndex == \A m \in Nat \ {0} : 0 \in 0..m /\ ~(0 > 0)
OBVIOUS

\* Two positions of a route.
LEMMA Positions == \A m \in Nat : \A i, j \in 1..m : i # j => i < j \/ j < i
OBVIOUS

\* A heap entry is read back.
LEMMA EntryFields ==
  ASSUME NEW d, NEW n
  PROVE  <<d, n>>[1] = d /\ <<d, n>>[2] = n
OBVIOUS

\* The node indices of a graph, and its edges.
LEMMA GraphShape ==
  ASSUME NEW g, IsGraph(g)
  PROVE  /\ Len(g.nodes) \in Nat
         /\ DOMAIN g.nodes = 1..Len(g.nodes)
         /\ NoNode \notin DOMAIN g.nodes
         /\ \A n \in DOMAIN g.nodes :
              /\ g.edges[n] \in Seq(EdgeRecords)
              /\ Len(g.edges[n]) \in Nat
              /\ DOMAIN g.edges[n] = 1..Len(g.edges[n])
              /\ \A k \in DOMAIN g.edges[n] :
                   /\ g.edges[n][k].to \in DOMAIN g.nodes
                   /\ g.edges[n][k].fee \in Int
                   /\ g.edges[n][k].liquidity \in Nat
                   /\ g.edges[n][k].bridge \in Nat
<1>1. Len(g.nodes) \in Nat /\ DOMAIN g.nodes = 1..Len(g.nodes)
  BY DEF IsGraph
<1>2. NoNode \notin DOMAIN g.nodes
  BY <1>1, NoNodeAssumption
<1>3. ASSUME NEW n \in DOMAIN g.nodes
      PROVE  /\ g.edges[n] \in Seq(EdgeRecords)
             /\ Len(g.edges[n]) \in Nat
             /\ DOMAIN g.edges[n] = 1..Len(g.edges[n])
             /\ \A k \in DOMAIN g.edges[n] : g.edges[n][k] \in EdgeRecords
             /\ \A k \in DOMAIN g.edges[n] : g.edges[n][k].to \in DOMAIN g.nodes
  BY DEF IsGraph
<1>4. \A e \in EdgeRecords : e.fee \in Int /\ e.liquidity \in Nat /\ e.bridge \in Nat
  BY DEF EdgeRecords
<1> QED
  BY <1>1, <1>2, <1>3, <1>4

\* buildGraphFromCandidates makes a graph of two nodes; all edges lead from the
\* first to the second, one per candidate, in the candidates' order.
LEMMA CandidateGraphShape ==
  ASSUME NEW r \in Requests, ValidRequest(r)
  PROVE  LET g == CandidateGraph(r)
         IN  /\ IsGraph(g)
             /\ DOMAIN g.nodes = {1, 2}
             /\ g.nodes[1] = <<r.source, r.asset>>
             /\ g.nodes[2] = <<r.dest, r.asset>>
             /\ g.nodes[1] # g.nodes[2]
             /\ DOMAIN g.edges[1] = DOMAIN r.candidates
             /\ DOMAIN g.edges[2] = {}
             /\ \A k \in DOMAIN r.candidates :
                  /\ g.edges[1][k].to = 2
                  /\ g.edges[1][k].fee = r.candidates[k].fee
                  /\ g.edges[1][k].bridge = r.candidates[k].bridge
                  /\ g.edges[1][k].liquidity >= r.amount
<1> DEFINE g == CandidateGraph(r)
           c == r.candidates
           out == [k \in DOMAIN c |-> [to |-> 2, bridge |-> c[k].bridge, fee |-> c[k].fee,
                                       liquidity |-> c[k].liquidity]]
<1>1. /\ c \in Seq([bridge : Nat, fee : Int, liquidity : Nat])
      /\ \A k \in DOMAIN c : c[k].liquidity >= r.amount
      /\ r.source # r.dest
  BY RequestsAssumption
<1>2. /\ Len(c) \in Nat /\ DOMAIN c = 1..Len(c)
      /\ \A k \in DOMAIN c : c[k] \in [bridge : Nat, fee : Int, liquidity : Nat]
  <2>1. PICK C : C = [bridge : Nat, fee : Int, liquidity : Nat]
    BY ZenonT(40)
  <2>2. c \in Seq(C)
    BY <1>1, <2>1
  <2> HIDE DEF c
  <2>3. Len(c) \in Nat /\ DOMAIN c = 1..Len(c) /\ \A k \in DOMAIN c : c[k] \in C
    BY <2>2
  <2> QED
    BY <2>1, <2>3
<1>3. out \in Seq(EdgeRecords)
  <2>1. out \in [1..Len(c) -> EdgeRecords]
    BY <1>2 DEF EdgeRecords
  <2> QED
    BY <1>2, <2>1
<1>4. g.nodes = <<<<r.source, r.asset>>, <<r.dest, r.asset>>>> /\ g.edges = <<out, <<>>>>
  BY DEF CandidateGraph
<1> HIDE DEF g
<1>5. g.nodes \in Seq(Chains \X Assets) /\ DOMAIN g.nodes = {1, 2} /\ DOMAIN g.edges = {1, 2}
  BY <1>4 DEF ValidRequest
<1>6. g.edges[1] = out /\ g.edges[2] = <<>>
  BY <1>4
<1>7. \A k \in DOMAIN c : /\ out[k].to = 2
                          /\ out[k].fee = c[k].fee
                          /\ out[k].bridge = c[k].bridge
                          /\ out[k].liquidity = c[k].liquidity
  OBVIOUS
<1>8. DOMAIN out = DOMAIN c
  OBVIOUS
<1>9. /\ g.nodes[1] = <<r.source, r.asset>>
      /\ g.nodes[2] = <<r.dest, r.asset>>
      /\ g.nodes[1] # g.nodes[2]
  BY <1>1, <1>4
<1> HIDE DEF out
<1>10. <<>> \in Seq(EdgeRecords) /\ DOMAIN <<>> = {}
  OBVIOUS
<1>11. IsGraph(g)
  BY <1>3, <1>5, <1>6, <1>7, <1>8, <1>10, ZenonT(40) DEF IsGraph
<1> QED
  BY <1>1, <1>5, <1>6, <1>7, <1>8, <1>9, <1>10, <1>11 DEF g

\* Graph::findNode finds a node that is there.
LEMMA FindNodeFinds ==
  ASSUME NEW g, NEW node, \E i \in DOMAIN g.nodes : g.nodes[i] = node
  PROVE  FindNode(g, node) \in DOMAIN g.nodes /\ g.nodes[FindNode(g, node)] = node
  BY ZenonT(40) DEF FindNode

\* The graph that FindRoute searches holds the nodes of a valid request.
LEMMA NodesPresent ==
  ASSUME NEW r \in Requests, ValidRequest(r), NEW net \in Snapshots,
         NEW g, g = IF r.candidates = <<>> THEN net ELSE CandidateGraph(r)
  PROVE  /\ IsGraph(g)
         /\ \E i \in DOMAIN g.nodes : g.nodes[i] = <<r.source, r.asset>>
         /\ \E i \in DOMAIN g.nodes : g.nodes[i] = <<r.dest, r.asset>>
<1>1. CASE r.candidates = <<>>
  <2>1. g = net
    BY <1>1
  <2>2. <<r.source, r.asset>> \in Chains \X Assets /\ <<r.dest, r.asset>> \in Chains \X Assets
    BY DEF ValidRequest
  <2> QED
    BY <2>1, <2>2, SnapshotsAssumption
<1>2. CASE r.candidates # <<>>
  BY <1>2, CandidateGraphShape
<1> QED
  BY <1>1, <1>2

\* What the invariant says of the graph: fees of a snapshot are not negative,
\* edges join nodes of one asset, and over candidates the source has all edges.
LEMMA Searched ==
  ASSUME IInv, Started
  PROVE  /\ IsGraph(graph)
         /\ source # dest
         /\ \A n \in Nodes : \A k \in DOMAIN graph.edges[n] :
              graph.nodes[Edge(n, k).to][2] = graph.nodes[n][2]
         /\ request.candidates = <<>> =>
              \A n \in Nodes : \A k \in DOMAIN graph.edges[n] : Edge(n, k).fee >= 0
         /\ request.candidates # <<>> =>
              /\ source = 1 /\ dest = 2 /\ Nodes = {1, 2}
              /\ DOMAIN graph.edges[1] = DOMAIN request.candidates
              /\ DOMAIN graph.edges[2] = {}
              /\ \A k \in DOMAIN request.candidates :
                   /\ Edge(1, k).to = 2
                   /\ Edge(1, k).fee = request.candidates[k].fee
                   /\ Edge(1, k).bridge = request.candidates[k].bridge
                   /\ Edge(1, k).liquidity >= request.amount
<1>1. /\ IsGraph(graph) /\ request \in Requests /\ GraphInv /\ network \in Snapshots
      /\ {source, dest} \subseteq Nodes
  BY DEF IInv, TypeOK, SearchInv, GraphInv
<1>2. source # dest
  <2>1. request.source # request.dest
    BY <1>1, RequestsAssumption
  <2>2. graph.nodes[source] # graph.nodes[dest]
    BY <1>1, <2>1 DEF GraphInv
  <2> QED
    BY <2>2
<1>3. CASE request.candidates = <<>>
  <2>1. graph = network
    BY <1>1, <1>3 DEF GraphInv
  <2> QED
    BY <1>1, <1>2, <1>3, <2>1, SnapshotsAssumption DEF Edge, Nodes
<1>4. CASE request.candidates # <<>>
  <2>1. graph = CandidateGraph(request)
    BY <1>1, <1>4 DEF GraphInv
  <2>2. ValidRequest(request)
    BY <1>1 DEF IInv, SearchInv, GraphInv
  <2>3. /\ Nodes = {1, 2}
        /\ graph.nodes[1] = <<request.source, request.asset>>
        /\ graph.nodes[2] = <<request.dest, request.asset>>
        /\ graph.nodes[1] # graph.nodes[2]
        /\ DOMAIN graph.edges[1] = DOMAIN request.candidates
        /\ DOMAIN graph.edges[2] = {}
        /\ \A k \in DOMAIN request.candidates :
             /\ Edge(1, k).to = 2
             /\ Edge(1, k).fee = request.candidates[k].fee
             /\ Edge(1, k).bridge = request.candidates[k].bridge
             /\ Edge(1, k).liquidity >= request.amount
    BY <1>1, <2>1, <2>2, CandidateGraphShape DEF Nodes, Edge
  <2>4. source = 1 /\ dest = 2
    BY <1>1, <2>3 DEF GraphInv
  <2>5. \A n \in Nodes : \A k \in DOMAIN graph.edges[n] :
          graph.nodes[Edge(n, k).to][2] = graph.nodes[n][2]
    BY <2>3
  <2> QED
    BY <1>1, <1>2, <1>4, <2>3, <2>4, <2>5
<1> QED
  BY <1>3, <1>4

-----------------------------------------------------------------------------
(***************************************************************************)
(* The request.                                                            *)
(***************************************************************************)
\* Before the request nothing has been searched.
LEMMA InitIInv == Init => IInv
<1> SUFFICES ASSUME Init
             PROVE  IInv
  BY ZenonT(40)
<1>1. IsGraph(network)
  BY SnapshotsAssumption DEF Init
<1>2. IsGraph(EmptyGraph) /\ DOMAIN EmptyGraph.nodes = {}
  BY DEF IsGraph, EmptyGraph
<1>3. ~Started /\ response.code = "none" /\ ~response.found
  BY DEF Init, Started, NoAnswer, Answer
<1>4. TypeOK
  <2>1. Nodes = {} /\ graph = EmptyGraph
    BY <1>2 DEF Init, Nodes
  <2>2. dist \in [Nodes -> Int] /\ pred \in [Nodes -> [node : Nodes \cup {NoNode}, edge : Nat]]
    BY <2>1 DEF Init
  <2> QED
    BY <1>1, <1>2, <1>3, <2>1, <2>2 DEF Init, TypeOK
<1>5. Blank
  BY <1>3 DEF Init, Blank
<1> QED
  BY <1>3, <1>4, <1>5 DEF Init, IInv

\* FindRoute refuses the request, or starts the search; it never answers that a
\* node is missing.
LEMMA FindRouteEffect ==
  ASSUME IInv, FindRoute
  PROVE  LET g == IF request.candidates = <<>> THEN network ELSE CandidateGraph(request)
             s == FindNode(g, <<request.source, request.asset>>)
             d == FindNode(g, <<request.dest, request.asset>>)
         IN  /\ UNCHANGED <<network, request, at, route>>
             /\ \/ /\ Respond(Answer("INVALID_ARGUMENT", FALSE, 0, <<>>))
                   /\ UNCHANGED <<graph, source, dest, searchVars>>
                \/ /\ ValidRequest(request)
                   /\ IsGraph(g)
                   /\ {s, d} \subseteq DOMAIN g.nodes
                   /\ g.nodes[s] = <<request.source, request.asset>>
                   /\ g.nodes[d] = <<request.dest, request.asset>>
                   /\ StartSearch(g, s, d)
<1> DEFINE g == IF request.candidates = <<>> THEN network ELSE CandidateGraph(request)
           s == FindNode(g, <<request.source, request.asset>>)
           d == FindNode(g, <<request.dest, request.asset>>)
<1>1. request \in Requests /\ network \in Snapshots
  BY DEF IInv, TypeOK
<1>2. CASE ~ValidRequest(request)
  BY <1>2, ZenonT(40) DEF FindRoute
<1>3. CASE ValidRequest(request)
  <2> HIDE DEF g
  <2>1. /\ IsGraph(g)
        /\ \E i \in DOMAIN g.nodes : g.nodes[i] = <<request.source, request.asset>>
        /\ \E i \in DOMAIN g.nodes : g.nodes[i] = <<request.dest, request.asset>>
    BY <1>1, <1>3, NodesPresent, ZenonT(40) DEF g
  <2>2. /\ s \in DOMAIN g.nodes /\ d \in DOMAIN g.nodes
        /\ g.nodes[s] = <<request.source, request.asset>>
        /\ g.nodes[d] = <<request.dest, request.asset>>
    BY <2>1, FindNodeFinds
  <2> HIDE DEF s, d
  <2>3. s # NoNode /\ d # NoNode
    BY <2>1, <2>2, GraphShape, ZenonT(40)
  <2>4. StartSearch(g, s, d)
    BY <1>3, <2>3, ZenonT(40) DEF FindRoute, g, s, d
  <2>5. UNCHANGED <<network, request, at, route>>
    BY DEF FindRoute
  <2> QED
    BY <1>3, <2>1, <2>2, <2>4, <2>5, ZenonT(40) DEF g, s, d
<1> QED
  BY <1>2, <1>3, ZenonT(40)

\* FindRoute keeps the invariant.
LEMMA FindRoutePreserves ==
  ASSUME IInv, FindRoute
  PROVE  IInv'
<1> DEFINE g == IF request.candidates = <<>> THEN network ELSE CandidateGraph(request)
           s == FindNode(g, <<request.source, request.asset>>)
           d == FindNode(g, <<request.dest, request.asset>>)
<1>1. pc = "receive" /\ UNCHANGED <<network, request, at, route>>
  BY DEF FindRoute
<1>2. Blank /\ TypeOK /\ ~Started
  <2>1. response.code # "OK"
    BY <1>1, ZenonT(40) DEF IInv, AnswerInv, Started
  <2> QED
    BY <1>1, <2>1 DEF IInv, Started
<1>3. CASE /\ Respond(Answer("INVALID_ARGUMENT", FALSE, 0, <<>>))
           /\ UNCHANGED <<graph, source, dest, searchVars>>
  <2>1. response'.code = "INVALID_ARGUMENT" /\ ~response'.found /\ pc' = "done"
    BY <1>3 DEF Respond, Answer
  <2>2. Blank' /\ ~Started'
    BY <1>1, <1>2, <1>3, <2>1 DEF Blank, Started, searchVars
  <2>3. TypeOK'
    BY <1>1, <1>2, <1>3, <2>1 DEF TypeOK, searchVars, Nodes
  <2> QED
    BY <1>1, <2>2, <2>3 DEF IInv
<1>4. CASE /\ ValidRequest(request)
           /\ IsGraph(g)
           /\ {s, d} \subseteq DOMAIN g.nodes
           /\ g.nodes[s] = <<request.source, request.asset>>
           /\ g.nodes[d] = <<request.dest, request.asset>>
           /\ StartSearch(g, s, d)
  <2> HIDE DEF s, d
  <2>1. /\ pc' = "search" /\ graph' = g /\ source' = s /\ dest' = d
        /\ reached' = {s}
        /\ dist' = [n \in DOMAIN g.nodes |-> 0]
        /\ pred' = [n \in DOMAIN g.nodes |-> NoPred]
        /\ queue' = {<<0, s>>}
        /\ UNCHANGED <<u, next, response>>
    BY <1>4 DEF StartSearch
  <2>2. graph' = IF request'.candidates = <<>> THEN network' ELSE CandidateGraph(request')
    BY <1>1, <2>1
  <2> HIDE DEF g
  <2>3. Nodes' = DOMAIN g.nodes /\ s \in DOMAIN g.nodes /\ d \in DOMAIN g.nodes
    BY <1>4, <2>1 DEF Nodes
  <2>4. u' = NoNode /\ route' = <<>> /\ response' = NoAnswer
    <3>1. response = NoAnswer
      BY <1>1, <1>2 DEF Blank
    <3> QED
      BY <1>1, <1>2, <2>1, <3>1 DEF Blank
  <2>5. response'.code = "none" /\ ~response'.found
    BY <2>4 DEF NoAnswer, Answer
  <2>6. TypeOK'
    <3>1. queue' \subseteq Int \X reached' /\ reached' \subseteq Nodes'
      BY <2>1, <2>3
    <3>2. dist' \in [Nodes' -> Int]
      BY <2>1, <2>3
    <3>3. pred' \in [Nodes' -> [node : Nodes' \cup {NoNode}, edge : Nat]]
      BY <2>1, <2>3 DEF NoPred
    <3>4. IsGraph(graph)' /\ IsGraph(network)'
      BY <1>1, <1>2, <1>4, <2>1 DEF TypeOK
    <3>5. (\A i \in DOMAIN route : route[i].from \in reached)'
      BY <2>4
    <3> QED
      BY <1>1, <1>2, <2>1, <2>3, <2>4, <2>5, <3>1, <3>2, <3>3, <3>4, <3>5 DEF TypeOK
  <2>7. Started' /\ ~Rebuilding'
    BY <2>1, <2>5 DEF Started, Rebuilding
  <2>8. GraphInv'
    BY <1>1, <1>4, <2>1, <2>2, <2>3, ZenonT(40) DEF GraphInv
  <2>9. \A n \in Nodes' : ~Settled(n)'
    BY <2>1, <2>3 DEF Settled
  <2>10. QueueInv'
    <3>1. (graph.nodes[source][2] = request.asset)'
      BY <1>1, <1>4, <2>1
    <3>2. (\A e \in queue : dist[e[2]] <= e[1])'
      BY <2>1, <2>3
    <3> QED
      BY <2>1, <2>3, <2>4, <3>1, <3>2 DEF QueueInv
  <2>11. OrderInv' /\ RelaxInv'
    BY <2>9 DEF OrderInv, RelaxInv
  <2>12. PredInv'
    BY <2>1 DEF PredInv
  <2>13. RankInv'
    <3>1. PICK ord : ord = [n \in Nodes' |-> 0]
      BY ZenonT(40)
    <3>2. ord \in [Nodes' -> Nat] /\ Ranked(ord)'
      BY <2>7, <2>9, <3>1 DEF Ranked
    <3> QED
      BY <3>2 DEF RankInv
  <2>14. RouteInv' /\ AnswerInv'
    BY <2>1, <2>4, <2>5, <2>7 DEF RouteInv, AnswerInv
  <2> QED
    BY <1>1, <2>6, <2>7, <2>8, <2>10, <2>11, <2>12, <2>13, <2>14 DEF IInv, SearchInv
<1> QED
  BY <1>3, <1>4, FindRouteEffect, ZenonT(40)

-----------------------------------------------------------------------------
(***************************************************************************)
(* The search.                                                             *)
(***************************************************************************)
\* What holds while findCheapestRoute takes a node's edges one by one.
LEMMA Searching ==
  ASSUME IInv, pc = "search"
  PROVE  /\ Started /\ ~Rebuilding
         /\ TypeOK /\ IsGraph(graph)
         /\ GraphInv /\ QueueInv /\ OrderInv /\ PredInv /\ RelaxInv /\ RankInv
         /\ source \in Nodes /\ source \in reached
         /\ NoNode \notin Nodes
         /\ \A n \in Nodes : dist[n] \in Int
         /\ \A e \in queue : /\ e = <<e[1], e[2]>> /\ e[1] \in Int
                             /\ e[2] \in reached /\ e[2] \in Nodes
<1>1. Started /\ response = NoAnswer
  BY ZenonT(40) DEF IInv, Started, AnswerInv
<1>2. ~response.found
  BY <1>1 DEF NoAnswer, Answer
<1>3. TypeOK /\ SearchInv /\ RankInv
  BY <1>1 DEF IInv
<1>4. IsGraph(graph) /\ reached \subseteq Nodes /\ dist \in [Nodes -> Int] /\ queue \subseteq Int \X reached
  BY <1>3 DEF TypeOK
<1>5. NoNode \notin Nodes
  BY <1>4, GraphShape DEF Nodes
<1>6. \A e \in queue : e = <<e[1], e[2]>> /\ e[1] \in Int /\ e[2] \in reached /\ e[2] \in Nodes
  BY <1>4
<1>7. source \in Nodes /\ source \in reached
  BY <1>3, <1>4 DEF SearchInv, QueueInv
<1> QED
  BY <1>1, <1>2, <1>3, <1>4, <1>5, <1>6, <1>7 DEF SearchInv, Rebuilding

\* A step of the search leaves the graph and the route alone.
LEMMA SearchFrame ==
  ASSUME IInv, pc = "search",
         UNCHANGED <<network, request, pc, graph, source, dest, at, route, response>>
  PROVE  /\ Started' /\ ~Rebuilding'
         /\ GraphInv' /\ RouteInv' /\ AnswerInv' /\ (network \in Snapshots)'
         /\ Nodes' = Nodes
         /\ \A n, k : Edge(n, k)' = Edge(n, k)
         /\ \A n, k : Carries(n, k)' <=> Carries(n, k)
<1>1. Started /\ ~Rebuilding /\ GraphInv
  BY Searching
<1>2. Started' /\ ~Rebuilding'
  BY <1>1 DEF Started, Rebuilding
<1>3. GraphInv' /\ Nodes' = Nodes
  BY <1>1 DEF GraphInv, Nodes
<1>4. RouteInv'
  BY <1>2 DEF RouteInv
<1>5. AnswerInv'
  <2>1. response = NoAnswer /\ route = <<>>
    BY <1>1 DEF IInv, AnswerInv
  <2>2. response'.code = "none" /\ ~response'.found
    BY <2>1 DEF NoAnswer, Answer
  <2> QED
    BY <2>1, <2>2, ZenonT(40) DEF AnswerInv
<1>6. \A n, k : Edge(n, k)' = Edge(n, k)
  BY DEF Edge
<1>7. \A n, k : Carries(n, k)' <=> Carries(n, k)
  BY <1>6 DEF Carries
<1> QED
  BY <1>2, <1>3, <1>4, <1>5, <1>6, <1>7 DEF IInv

\* A stale entry that is popped and skipped leaves the same nodes settled.
LEMMA PopStale ==
  ASSUME IInv, Pop, NEW e \in queue, queue' = queue \ {e}, e[1] > dist[e[2]], u' = NoNode
  PROVE  QueueInv' /\ OrderInv' /\ PredInv' /\ RelaxInv' /\ RankInv'
<1>1. /\ pc = "search" /\ u = NoNode
      /\ UNCHANGED <<network, request, pc, graph, source, dest, reached, dist, pred, at, route, response>>
  BY DEF Pop
<1>2. /\ Nodes' = Nodes /\ ~Rebuilding'
      /\ \A n, k : Edge(n, k)' = Edge(n, k)
      /\ \A n, k : Carries(n, k)' <=> Carries(n, k)
  BY <1>1, SearchFrame
<1>3. /\ TypeOK /\ QueueInv /\ OrderInv /\ PredInv /\ RelaxInv /\ RankInv /\ ~Rebuilding
      /\ source \in Nodes /\ NoNode \notin Nodes
      /\ \A n \in Nodes : dist[n] \in Int
      /\ \A f \in queue : f = <<f[1], f[2]>> /\ f[1] \in Int /\ f[2] \in Nodes
  BY <1>1, Searching
<1>4. \A n \in Nodes : Settled(n)' <=> Settled(n)
  <2>1. \A n \in Nodes : <<dist[n], n>> # e
    BY <1>3
  <2> QED
    BY <1>1, <2>1 DEF Settled
<1>5. QueueInv'
  <2>1. Settled(source)
    BY <1>3 DEF QueueInv
  <2> QED
    BY <1>1, <1>3, <1>4, <2>1 DEF QueueInv
<1>6. OrderInv'
  BY <1>1, <1>2, <1>3, <1>4 DEF OrderInv
<1>7. PredInv'
  <2> SUFFICES ASSUME NEW n \in reached \ {source}
               PROVE  ReachedOver(n, pred[n].node, pred[n].edge)'
    BY <1>1 DEF PredInv
  <2>1. ReachedOver(n, pred[n].node, pred[n].edge)
    BY <1>3 DEF PredInv
  <2>2. pred[n].node \in Nodes
    BY <1>3, <2>1, ZenonT(40) DEF ReachedOver, Settled, TypeOK
  <2> QED
    BY <1>1, <1>2, <1>4, <2>1, <2>2, ZenonT(40) DEF ReachedOver
<1>8. RelaxInv'
  BY <1>1, <1>2, <1>3, <1>4 DEF RelaxInv, Relaxed
<1>9. RankInv'
  <2>1. PICK ord \in [Nodes -> Nat] : Ranked(ord)
    BY <1>3 DEF RankInv
  <2>2. Ranked(ord)'
    BY <1>1, <1>2, <1>4, <2>1, ZenonT(40) DEF Ranked
  <2> QED
    BY <1>2, <2>1, <2>2 DEF RankInv
<1> QED
  BY <1>5, <1>6, <1>7, <1>8, <1>9

\* An up to date entry that is popped settles its node; its edges come next.
LEMMA PopCurrent ==
  ASSUME IInv, Pop, NEW e \in queue, Least(e), queue' = queue \ {e},
         ~(e[1] > dist[e[2]]), u' = e[2]
  PROVE  QueueInv' /\ OrderInv' /\ PredInv' /\ RelaxInv' /\ RankInv'
<1> DEFINE m == e[2]
<1>1. /\ pc = "search" /\ u = NoNode /\ next' = 1
      /\ UNCHANGED <<network, request, pc, graph, source, dest, reached, dist, pred, at, route, response>>
  BY DEF Pop
<1>2. /\ Nodes' = Nodes /\ ~Rebuilding'
      /\ \A n, k : Edge(n, k)' = Edge(n, k)
      /\ \A n, k : Carries(n, k)' <=> Carries(n, k)
  BY <1>1, SearchFrame
<1>3. /\ TypeOK /\ QueueInv /\ OrderInv /\ PredInv /\ RelaxInv /\ RankInv /\ ~Rebuilding
      /\ IsGraph(graph)
      /\ source \in Nodes /\ source \in reached /\ NoNode \notin Nodes
      /\ \A n \in Nodes : dist[n] \in Int
      /\ \A f \in queue : f = <<f[1], f[2]>> /\ f[1] \in Int /\ f[2] \in reached /\ f[2] \in Nodes
  BY <1>1, Searching
<1>4. e = <<dist[m], m>> /\ m \in Nodes /\ m \in reached /\ ~Settled(m)
  <2>1. dist[m] <= e[1]
    BY <1>3 DEF QueueInv
  <2>2. m \in Nodes /\ m \in reached /\ dist[m] \in Int /\ e[1] \in Int /\ e = <<e[1], m>>
    BY <1>3
  <2>3. e[1] = dist[m]
    BY <2>1, <2>2
  <2> QED
    BY <2>2, <2>3 DEF Settled
<1> HIDE DEF m
<1>5. \A n \in Nodes : Settled(n)' <=> Settled(n) \/ n = m
  <2>1. \A n \in Nodes : <<dist[n], n>> = e <=> n = m
    BY <1>4
  <2> QED
    BY <1>1, <1>4, <2>1 DEF Settled
<1>6. u' = m
  BY ZenonT(40) DEF m
<1>7. QueueInv'
  <2>1. Settled(source)'
    <3>1. CASE Settled(source)
      BY <1>1, <1>3, <1>5, <3>1 DEF Settled
    <3>2. CASE ~Settled(source)
      <4>1. e = <<0, source>>
        BY <1>3, <3>2 DEF QueueInv
      <4> QED
        BY <1>1, <1>3, <1>5, <4>1 DEF m, Settled
    <3> QED
      BY <3>1, <3>2
  <2> QED
    BY <1>1, <1>3, <1>4, <1>5, <1>6, <2>1, ZenonT(40) DEF QueueInv
<1>8. OrderInv'
  <2>1. ASSUME request.candidates = <<>>, NEW n \in Nodes, Settled(n)'
        PROVE  (\A f \in queue' : dist[n] <= f[1]) /\ dist[n] <= dist[m]
    <3>1. CASE Settled(n)
      <4>1. \A f \in queue : dist[n] <= f[1]
        BY <1>3, <2>1, <3>1 DEF OrderInv
      <4>2. dist[n] <= e[1] /\ e[1] = dist[m]
        BY <1>4, <4>1
      <4> QED
        BY <4>1, <4>2
    <3>2. CASE n = m
      <4>1. \A f \in queue : e[1] <= f[1]
        BY <1>3 DEF Least
      <4>2. e[1] = dist[m] /\ dist[m] \in Int
        BY <1>3, <1>4
      <4> QED
        BY <3>2, <4>1, <4>2
    <3> QED
      BY <1>5, <2>1, <3>1, <3>2
  <2>2. ASSUME m = source, NEW n \in Nodes \ {source}
        PROVE  ~Settled(n)'
    <3>1. reached = {source}
      BY <1>3, <1>4, <2>2, ZenonT(40) DEF QueueInv
    <3> QED
      BY <1>1, <3>1 DEF Settled
  <2> QED
    BY <1>1, <1>2, <1>6, <2>1, <2>2 DEF OrderInv
<1>9. PredInv'
  <2> SUFFICES ASSUME NEW n \in reached \ {source}
               PROVE  ReachedOver(n, pred[n].node, pred[n].edge)'
    BY <1>1 DEF PredInv
  <2>1. ReachedOver(n, pred[n].node, pred[n].edge)
    BY <1>3 DEF PredInv
  <2>2. pred[n].node \in Nodes
    BY <1>3, <2>1, ZenonT(40) DEF ReachedOver, Settled, TypeOK
  <2> QED
    BY <1>1, <1>2, <1>5, <2>1, <2>2, ZenonT(40) DEF ReachedOver
<1>10. RelaxInv'
  <2> SUFFICES ASSUME NEW n \in Nodes, Settled(n)', NEW k \in DOMAIN graph.edges[n],
                      n # m \/ k < 1, Carries(n, k)
               PROVE  Relaxed(n, k)'
    BY <1>1, <1>2, <1>6, ZenonT(40) DEF RelaxInv
  <2>1. k \in Nat \ {0}
    <3>1. Len(graph.edges[n]) \in Nat /\ DOMAIN graph.edges[n] = 1..Len(graph.edges[n])
      BY <1>3, GraphShape, ZenonT(40) DEF Nodes
    <3> QED
      BY <3>1
  <2>2. Settled(n) /\ n # u
    BY <1>1, <1>3, <1>5, <2>1
  <2>3. Relaxed(n, k)
    BY <1>3, <2>2 DEF RelaxInv
  <2> QED
    BY <1>1, <1>2, <2>3, ZenonT(40) DEF Relaxed
<1>11. RankInv'
  <2>1. PICK ord \in [Nodes -> Nat] : Ranked(ord)
    BY <1>3 DEF RankInv
  <2>2. \A n \in Nodes \ {source} : n \in reached => pred[n].node \in Nodes /\ pred[n].node # m
    BY <1>3, <1>4, ZenonT(40) DEF PredInv, ReachedOver, Settled, TypeOK
  <2>3. CASE m = source
    <3>1. Ranked(ord)'
      BY <1>1, <1>2, <1>5, <2>1, <2>3, ZenonT(40) DEF Ranked
    <3> QED
      BY <1>2, <2>1, <3>1 DEF RankInv
  <2>4. CASE m # source
    <3>1. PICK o : o = [ord EXCEPT ![m] = ord[pred[m].node] + 1]
      BY ZenonT(40)
    <3>2. pred[m].node \in Nodes /\ pred[m].node # m
      BY <1>4, <2>2, <2>4
    <3>3. /\ o \in [Nodes -> Nat]
          /\ o[m] = ord[pred[m].node] + 1
          /\ \A n \in Nodes \ {m} : o[n] = ord[n]
      BY <1>4, <2>1, <3>1, <3>2
    <3>4. ASSUME NEW n \in Nodes \ {source}, Settled(n)'
          PROVE  o[pred[n].node] < o[n]
      <4>1. CASE n = m
        BY <2>1, <3>2, <3>3, <4>1
      <4>2. CASE n # m
        <5>1. Settled(n) /\ n \in reached
          BY <1>5, <3>4, <4>2 DEF Settled
        <5>2. ord[pred[n].node] < ord[n]
          BY <2>1, <5>1 DEF Ranked
        <5> QED
          BY <2>2, <3>3, <4>2, <5>1, <5>2
      <4> QED
        BY <4>1, <4>2
    <3>5. Ranked(o)'
      BY <1>1, <1>2, <3>4, ZenonT(40) DEF Ranked
    <3> QED
      BY <1>2, <3>3, <3>5 DEF RankInv
  <2> QED
    BY <2>3, <2>4
<1> QED
  BY <1>7, <1>8, <1>9, <1>10, <1>11

\* Pop keeps the invariant.
LEMMA PopPreserves ==
  ASSUME IInv, Pop
  PROVE  IInv'
<1>1. /\ pc = "search" /\ next' = 1
      /\ UNCHANGED <<network, request, pc, graph, source, dest, reached, dist, pred, at, route, response>>
  BY DEF Pop
<1>2. PICK e \in queue : /\ Least(e) /\ queue' = queue \ {e}
                         /\ u' = IF e[1] > dist[e[2]] THEN NoNode ELSE e[2]
  BY DEF Pop
<1>3. QueueInv' /\ OrderInv' /\ PredInv' /\ RelaxInv' /\ RankInv'
  <2>1. CASE e[1] > dist[e[2]]
    BY <1>2, <2>1, PopStale
  <2>2. CASE ~(e[1] > dist[e[2]])
    BY <1>2, <2>2, PopCurrent
  <2> QED
    BY <2>1, <2>2
<1>4. Started' /\ GraphInv' /\ RouteInv' /\ AnswerInv' /\ (network \in Snapshots)'
  BY <1>1, SearchFrame
<1>5. TypeOK /\ e[2] \in reached
  BY <1>1, Searching
<1>6. TypeOK'
  <2>1. queue' \subseteq Int \X reached' /\ u' \in reached' \cup {NoNode}
    BY <1>1, <1>2, <1>5, ZenonT(40) DEF TypeOK
  <2> QED
    BY <1>1, <1>5, <2>1 DEF TypeOK, Nodes
<1> QED
  BY <1>3, <1>4, <1>6 DEF IInv, SearchInv

\* An edge that shortens a distance leads to a node that is not settled yet:
\* fees of a snapshot are not negative, and candidates all leave the source.
LEMMA ImprovedNotSettled ==
  ASSUME IInv, LookAtEdge
  PROVE  /\ u \in Nodes /\ u \in reached /\ Settled(u) /\ Settled(source)
         /\ next \in DOMAIN graph.edges[u]
         /\ Edge(u, next).to \in Nodes /\ Edge(u, next).fee \in Int
         /\ Edge(u, next).liquidity \in Nat
         /\ request.candidates = <<>> => Edge(u, next).fee >= 0
         /\ Improves(Edge(u, next)) => ~Settled(Edge(u, next).to)
<1> DEFINE e == Edge(u, next)
<1>1. pc = "search" /\ u # NoNode /\ next <= Len(graph.edges[u])
  BY ZenonT(40) DEF LookAtEdge
<1>2. Started /\ TypeOK /\ IsGraph(graph) /\ QueueInv /\ OrderInv /\ source \in Nodes
  BY <1>1, Searching
<1>3. u \in Nodes /\ u \in reached /\ next \in Nat \ {0}
  BY <1>1, <1>2 DEF TypeOK
<1>4. next \in DOMAIN graph.edges[u]
  BY <1>1, <1>2, <1>3, GraphShape DEF Nodes
<1>5. e.to \in Nodes /\ e.fee \in Int /\ e.liquidity \in Nat
  BY <1>2, <1>3, <1>4, GraphShape, ZenonT(40) DEF Nodes, Edge
<1>6. Settled(u) /\ Settled(source)
  BY <1>1, <1>2 DEF QueueInv
<1>7. request.candidates = <<>> => e.fee >= 0
  BY <1>2, <1>3, <1>4, Searched, ZenonT(40)
<1>8. ASSUME Improves(e), Settled(e.to)
      PROVE  FALSE
  <2>1. CASE request.candidates = <<>>
    <3>1. dist[e.to] <= dist[u]
      BY <1>1, <1>2, <1>5, <1>8, <2>1, ZenonT(40) DEF OrderInv
    <3>2. dist[u] + e.fee < dist[e.to]
      BY <1>8 DEF Improves, Settled
    <3>3. dist[u] \in Int /\ dist[e.to] \in Int
      BY <1>2, <1>3, <1>5 DEF TypeOK
    <3> QED
      BY <1>5, <1>7, <2>1, <3>1, <3>2, <3>3
  <2>2. CASE request.candidates # <<>>
    <3>1. /\ source = 1 /\ Nodes = {1, 2} /\ DOMAIN graph.edges[2] = {}
          /\ DOMAIN graph.edges[1] = DOMAIN request.candidates
          /\ \A k \in DOMAIN request.candidates : Edge(1, k).to = 2
      BY <1>2, <2>2, Searched, ZenonT(40)
    <3>2. u = 1
      BY <1>3, <1>4, <3>1
    <3>3. e.to = 2
      BY <1>4, <3>1, <3>2
    <3> QED
      BY <1>2, <1>8, <2>2, <3>1, <3>2, <3>3 DEF OrderInv
  <2> QED
    BY <2>1, <2>2
<1> QED
  BY <1>3, <1>4, <1>5, <1>6, <1>7, <1>8, ZenonT(40)

\* An edge that shortens nothing, or cannot carry the amount, is passed over.
LEMMA LookPasses ==
  ASSUME IInv, LookAtEdge, ~Improves(Edge(u, next))
  PROVE  QueueInv' /\ OrderInv' /\ PredInv' /\ RelaxInv' /\ RankInv'
<1>1. /\ pc = "search" /\ u # NoNode /\ next' = next + 1
      /\ UNCHANGED <<network, request, pc, graph, source, dest, reached, dist, pred, queue, u,
                     at, route, response>>
  BY DEF LookAtEdge
<1>2. /\ Nodes' = Nodes /\ ~Rebuilding'
      /\ \A n, k : Edge(n, k)' = Edge(n, k)
      /\ \A n, k : Carries(n, k)' <=> Carries(n, k)
  BY <1>1, SearchFrame
<1>3. /\ TypeOK /\ IsGraph(graph) /\ QueueInv /\ OrderInv /\ PredInv /\ RelaxInv /\ RankInv /\ ~Rebuilding
      /\ \A n \in Nodes : dist[n] \in Int
  BY <1>1, Searching
<1>4. /\ u \in Nodes /\ next \in DOMAIN graph.edges[u]
      /\ Edge(u, next).to \in Nodes /\ Edge(u, next).fee \in Int
  BY ImprovedNotSettled, ZenonT(40)
<1>5. \A n : Settled(n)' <=> Settled(n)
  BY <1>1, ZenonT(40) DEF Settled
<1>6. QueueInv'
  BY <1>1, <1>3, ZenonT(40) DEF QueueInv, Settled
<1>7. OrderInv'
  BY <1>1, <1>2, <1>3, <1>5, ZenonT(40) DEF OrderInv
<1>8. PredInv'
  <2> SUFFICES ASSUME NEW n \in reached \ {source}
               PROVE  ReachedOver(n, pred[n].node, pred[n].edge)'
    BY <1>1 DEF PredInv
  <2>1. ReachedOver(n, pred[n].node, pred[n].edge)
    BY <1>3 DEF PredInv
  <2> QED
    BY <1>1, <1>2, <1>5, <2>1, ZenonT(40) DEF ReachedOver
<1>9. RelaxInv'
  <2> SUFFICES ASSUME NEW n \in Nodes, Settled(n), NEW k \in DOMAIN graph.edges[n],
                      n # u \/ k < next + 1, Carries(n, k)
               PROVE  Relaxed(n, k)
    BY <1>1, <1>2, <1>5, ZenonT(40) DEF RelaxInv, Relaxed
  <2>1. k \in Nat /\ next \in Nat
    <3>1. \A a \in Nodes : /\ Len(graph.edges[a]) \in Nat
                           /\ DOMAIN graph.edges[a] = 1..Len(graph.edges[a])
      BY <1>3, GraphShape, ZenonT(40) DEF Nodes
    <3>2. k \in 1..Len(graph.edges[n]) /\ next \in 1..Len(graph.edges[u])
      BY <1>4, <3>1, ZenonT(40)
    <3> QED
      BY <3>2
  <2>2. CASE n = u /\ k = next
    <3>1. ~(Edge(u, next).to \notin reached \/ dist[u] + Edge(u, next).fee < dist[Edge(u, next).to])
      BY <2>2, ZenonT(40) DEF Improves, Carries
    <3>2. PICK a, b : a = dist[u] + Edge(u, next).fee /\ b = dist[Edge(u, next).to]
      BY ZenonT(40)
    <3>3. dist[u] \in Int /\ Edge(u, next).fee \in Int /\ b \in Int
      BY <1>3, <1>4, <3>2, ZenonT(40)
    <3>4. a \in Int
      BY <3>2, <3>3
    <3>5. b <= a
      BY <3>1, <3>2, <3>3, <3>4, Comparing, ZenonT(40)
    <3> QED
      BY <2>2, <3>1, <3>2, <3>5, ZenonT(40) DEF Relaxed
  <2>3. CASE n # u \/ k < next
    BY <1>3, <2>3, ZenonT(40) DEF RelaxInv
  <2>4. n # u \/ k < next \/ k = next
    BY <2>1
  <2> QED
    BY <2>2, <2>3, <2>4, ZenonT(40)
<1>10. RankInv'
  <2>1. PICK ord \in [Nodes -> Nat] : Ranked(ord)
    BY <1>3, ZenonT(40) DEF RankInv
  <2>2. Ranked(ord)'
    BY <1>1, <1>2, <1>5, <2>1, ZenonT(40) DEF Ranked
  <2> QED
    BY <1>2, <2>1, <2>2 DEF RankInv
<1> QED
  BY <1>6, <1>7, <1>8, <1>9, <1>10

\* An edge that shortens a distance changes that of its far end alone, and leaves
\* the same nodes settled.
LEMMA ImprovedEffect ==
  ASSUME IInv, LookAtEdge, Improves(Edge(u, next)),
         NEW t, t = Edge(u, next).to
  PROVE  /\ t \in Nodes /\ ~Settled(t) /\ t # u /\ t # source
         /\ reached' = reached \cup {t}
         /\ dist' \in [Nodes -> Int]
         /\ dist'[t] = dist[u] + Edge(u, next).fee
         /\ t \in reached => dist'[t] < dist[t]
         /\ \A n \in Nodes \ {t} : dist'[n] = dist[n] /\ pred'[n] = pred[n]
         /\ pred' \in [Nodes -> [node : Nodes \cup {NoNode}, edge : Nat]]
         /\ pred'[t] = [node |-> u, edge |-> next]
         /\ queue' = queue \cup {<<dist'[t], t>>}
         /\ \A n \in Nodes : Settled(n)' <=> Settled(n)
<1>1. pc = "search"
  BY ZenonT(40) DEF LookAtEdge
<1>2. TypeOK /\ IsGraph(graph)
  BY <1>1, Searching
<1>3. /\ u \in Nodes /\ Settled(u) /\ Settled(source) /\ next \in DOMAIN graph.edges[u]
      /\ t \in Nodes /\ Edge(u, next).fee \in Int /\ ~Settled(t)
  BY ImprovedNotSettled, ZenonT(40)
<1>4. /\ reached' = reached \cup {t}
      /\ dist' = [dist EXCEPT ![t] = dist[u] + Edge(u, next).fee]
      /\ pred' = [pred EXCEPT ![t] = [node |-> u, edge |-> next]]
      /\ queue' = queue \cup {<<dist[u] + Edge(u, next).fee, t>>}
  BY ZenonT(40) DEF LookAtEdge
<1>5. next \in Nat /\ dist \in [Nodes -> Int] /\ pred \in [Nodes -> [node : Nodes \cup {NoNode}, edge : Nat]]
  BY <1>2, ZenonT(40) DEF TypeOK
<1>6. /\ dist' \in [Nodes -> Int]
      /\ dist'[t] = dist[u] + Edge(u, next).fee
      /\ \A n \in Nodes \ {t} : dist'[n] = dist[n]
  <2>1. dist[u] \in Int /\ Edge(u, next).fee \in Int
    BY <1>3, <1>5, ZenonT(40)
  <2>2. dist[u] + Edge(u, next).fee \in Int
    BY <2>1
  <2> QED
    BY <1>3, <1>4, <1>5, <2>2, Assigned, ZenonT(40)
<1>7. /\ pred' \in [Nodes -> [node : Nodes \cup {NoNode}, edge : Nat]]
      /\ pred'[t] = [node |-> u, edge |-> next]
      /\ \A n \in Nodes \ {t} : pred'[n] = pred[n]
  BY <1>3, <1>4, <1>5, ZenonT(40)
<1>8. t \in reached => dist'[t] < dist[t]
  BY <1>6, ZenonT(40) DEF Improves
<1>9. queue' = queue \cup {<<dist'[t], t>>}
  BY <1>4, <1>6
<1>10. ASSUME NEW n \in Nodes
       PROVE  Settled(n)' <=> Settled(n)
  <2>1. CASE n = t
    BY <1>3, <1>9, <2>1, ZenonT(40) DEF Settled
  <2>2. CASE n # t
    <3>1. dist'[n] = dist[n] /\ <<dist[n], n>> # <<dist'[t], t>>
      BY <1>6, <2>2, ZenonT(40)
    <3> QED
      BY <1>4, <1>9, <2>2, <3>1, ZenonT(40) DEF Settled
  <2> QED
    BY <2>1, <2>2
<1> QED
  BY <1>3, <1>4, <1>6, <1>7, <1>8, <1>9, <1>10, ZenonT(40)

\* An edge that shortens a distance keeps the invariant.
LEMMA LookImproves ==
  ASSUME IInv, LookAtEdge, Improves(Edge(u, next))
  PROVE  QueueInv' /\ OrderInv' /\ PredInv' /\ RelaxInv' /\ RankInv'
<1> DEFINE e == Edge(u, next)
           t == e.to
<1>1. /\ pc = "search" /\ u # NoNode /\ next' = next + 1
      /\ UNCHANGED <<network, request, pc, graph, source, dest, u, at, route, response>>
  BY ZenonT(40) DEF LookAtEdge
<1>2. /\ Nodes' = Nodes /\ ~Rebuilding'
      /\ \A n, k : Edge(n, k)' = Edge(n, k)
      /\ \A n, k : Carries(n, k)' <=> Carries(n, k)
  BY <1>1, SearchFrame
<1>3. /\ Started /\ TypeOK /\ IsGraph(graph)
      /\ QueueInv /\ OrderInv /\ PredInv /\ RelaxInv /\ RankInv /\ ~Rebuilding
      /\ source \in Nodes /\ source \in reached
      /\ \A n \in Nodes : dist[n] \in Int
      /\ \A f \in queue : f = <<f[1], f[2]>> /\ f[1] \in Int /\ f[2] \in reached /\ f[2] \in Nodes
  BY <1>1, Searching
<1>4. /\ u \in Nodes /\ u \in reached /\ Settled(u) /\ Settled(source)
      /\ next \in DOMAIN graph.edges[u]
      /\ e.fee \in Int
      /\ request.candidates = <<>> => e.fee >= 0
  BY ImprovedNotSettled, ZenonT(40)
<1>5. /\ t \in Nodes /\ ~Settled(t) /\ t # u /\ t # source
      /\ reached' = reached \cup {t}
      /\ dist' \in [Nodes -> Int]
      /\ dist'[t] = dist[u] + e.fee
      /\ t \in reached => dist'[t] < dist[t]
      /\ \A n \in Nodes \ {t} : dist'[n] = dist[n] /\ pred'[n] = pred[n]
      /\ pred'[t] = [node |-> u, edge |-> next]
      /\ queue' = queue \cup {<<dist'[t], t>>}
      /\ \A n \in Nodes : Settled(n)' <=> Settled(n)
  BY ImprovedEffect, ZenonT(40)
<1>6. e.liquidity >= request.amount
  BY ZenonT(40) DEF Improves
<1>7. \A n \in Nodes : \A k \in DOMAIN graph.edges[n] : k \in Nat \ {0} /\ Edge(n, k).to \in Nodes /\ Edge(n, k).fee \in Int
  BY <1>3, GraphShape DEF Nodes, Edge
<1>8. e = Edge(u, next) /\ t = e.to /\ graph.nodes[t][2] = graph.nodes[u][2]
  BY <1>3, <1>4, Searched, ZenonT(40)
<1> HIDE DEF e, t
<1>9. QueueInv'
  <2>1. ASSUME NEW f \in queue'
        PROVE  dist'[f[2]] <= f[1]
    <3>1. CASE f = <<dist'[t], t>>
      <4>1. f[1] = dist'[t] /\ f[2] = t /\ dist'[t] \in Int
        BY <1>5, <3>1, EntryFields, ZenonT(40)
      <4> QED
        BY <4>1, Comparing, ZenonT(40)
    <3>2. CASE f \in queue /\ f[2] = t
      <4>1. dist[t] <= f[1] /\ dist'[t] < dist[t] /\ f[1] \in Int /\ dist[t] \in Int
        BY <1>3, <1>5, <3>2, ZenonT(40) DEF QueueInv
      <4>2. dist'[t] \in Int
        BY <1>5, ZenonT(40)
      <4> QED
        BY <3>2, <4>1, <4>2, Comparing, ZenonT(40)
    <3>3. CASE f \in queue /\ f[2] # t
      BY <1>3, <1>5, <3>3, ZenonT(40) DEF QueueInv
    <3> QED
      BY <1>5, <3>1, <3>2, <3>3, ZenonT(40)
  <2>2. Settled(source)' /\ Settled(u)'
    BY <1>1, <1>3, <1>4, <1>5, ZenonT(40) DEF Settled
  <2>3. source' \in reached' /\ dist'[source'] = 0
    BY <1>1, <1>3, <1>5, ZenonT(40) DEF QueueInv
  <2>4. \A n \in reached' : graph'.nodes[n][2] = request'.asset
    BY <1>1, <1>3, <1>4, <1>5, <1>8, ZenonT(40) DEF QueueInv
  <2> QED
    BY <2>1, <2>2, <2>3, <2>4, ZenonT(40) DEF QueueInv
<1>10. OrderInv'
  <2>1. ASSUME request.candidates = <<>>, NEW n \in Nodes, Settled(n)
        PROVE  (\A f \in queue' : dist'[n] <= f[1]) /\ dist'[n] <= dist'[u]
    <3>1. /\ \A f \in queue : dist[n] <= f[1]
          /\ dist[n] <= dist[u]
      BY <1>1, <1>3, <2>1, ZenonT(40) DEF OrderInv
    <3>2. dist'[n] = dist[n] /\ dist'[u] = dist[u]
      BY <1>4, <1>5, <2>1, ZenonT(40)
    <3>3. dist[n] <= dist'[t]
      BY <1>3, <1>4, <1>5, <2>1, <3>1
    <3>4. \A f \in queue' : f \in queue \/ f = <<dist'[t], t>>
      BY <1>5, ZenonT(40)
    <3>5. ASSUME NEW f \in queue'
          PROVE  dist[n] <= f[1]
      <4>1. CASE f \in queue
        BY <3>1, <4>1, ZenonT(40)
      <4>2. CASE f = <<dist'[t], t>>
        BY <3>3, <4>2, EntryFields, ZenonT(40)
      <4> QED
        BY <3>4, <4>1, <4>2, ZenonT(40)
    <3> QED
      BY <3>1, <3>2, <3>5, ZenonT(40)
  <2> QED
    BY <1>1, <1>2, <1>3, <1>5, <2>1, ZenonT(40) DEF OrderInv
<1>11. PredInv'
  <2> SUFFICES ASSUME NEW n \in reached' \ {source}
               PROVE  ReachedOver(n, pred[n].node, pred[n].edge)'
    BY <1>1 DEF PredInv
  <2>1. PICK p, k : p = pred'[n].node /\ k = pred'[n].edge
    OBVIOUS
  <2>2. ReachedOver(n, p, k)'
    <3>1. CASE n = t
      <4>1. p = u /\ k = next
        BY <1>5, <2>1, <3>1
      <4>2. p \in Nodes /\ Settled(p)' /\ Carries(p, k) /\ Edge(p, k) = e
        BY <1>4, <1>5, <1>6, <1>8, <4>1, ZenonT(40) DEF Carries
      <4>3. ASSUME NEW j \in 1..(k - 1), Carries(p, j), Edge(p, j).to = t
            PROVE  e.fee < Edge(p, j).fee
        <5>1. j \in DOMAIN graph.edges[u] /\ j < next
          BY <1>4, <1>7, <4>1, <4>3 DEF Carries
        <5>2. Relaxed(u, j)
          BY <1>3, <1>4, <4>1, <4>3, <5>1 DEF RelaxInv
        <5>3. t \in reached /\ dist[t] <= dist[u] + Edge(u, j).fee
          BY <4>1, <4>3, <5>2, ZenonT(40) DEF Relaxed
        <5>4. dist[u] \in Int /\ dist[t] \in Int /\ Edge(u, j).fee \in Int /\ e.fee \in Int
          BY <1>3, <1>4, <1>5, <1>7, <5>1, ZenonT(40)
        <5>5. dist[u] + e.fee < dist[t]
          BY <1>5, <5>3, ZenonT(40)
        <5> QED
          BY <4>1, <5>3, <5>4, <5>5, SmallerFee, ZenonT(40)
      <4>4. dist'[t] = dist'[p] + e.fee
        BY <1>4, <1>5, <4>1, ZenonT(40)
      <4> QED
        BY <1>2, <1>8, <3>1, <4>2, <4>3, <4>4, ZenonT(40) DEF ReachedOver
    <3>2. CASE n # t
      <4>1. n \in reached \ {source} /\ n \in Nodes
        BY <1>3, <1>5, <3>2, ZenonT(40) DEF TypeOK
      <4>2. p = pred[n].node /\ k = pred[n].edge /\ dist'[n] = dist[n]
        BY <1>5, <2>1, <3>2, <4>1, ZenonT(40)
      <4>3. ReachedOver(n, p, k)
        BY <1>3, <4>1, <4>2 DEF PredInv
      <4>4. p \in Nodes \ {t}
        BY <1>3, <1>5, <4>3, ZenonT(40) DEF ReachedOver, Settled, TypeOK
      <4> QED
        BY <1>1, <1>2, <1>5, <4>2, <4>3, <4>4, ZenonT(40) DEF ReachedOver
    <3> QED
      BY <3>1, <3>2, ZenonT(40)
  <2> QED
    BY <2>1, <2>2, ZenonT(40) DEF ReachedOver, Settled, Carries, Edge
<1>12. RelaxInv'
  <2> SUFFICES ASSUME NEW n \in Nodes, Settled(n), NEW k \in DOMAIN graph.edges[n],
                      n # u \/ k < next + 1, Carries(n, k)
               PROVE  Relaxed(n, k)'
    BY <1>1, <1>2, <1>5, ZenonT(40) DEF RelaxInv
  <2>1. dist'[n] = dist[n] /\ Edge(n, k)' = Edge(n, k)
    BY <1>2, <1>5, ZenonT(40)
  <2>2. CASE n = u /\ k = next
    <3>1. Edge(n, k)'.to = t /\ Edge(n, k)'.fee = e.fee
      BY <1>8, <2>1, <2>2, ZenonT(40)
    <3>2. t \in reached' /\ dist'[t] = dist'[n] + e.fee /\ dist'[t] \in Int
      BY <1>5, <2>1, <2>2, ZenonT(40)
    <3>3. dist'[t] <= dist'[n] + e.fee
      BY <3>2, Comparing, ZenonT(40)
    <3> QED
      BY <3>1, <3>2, <3>3, ZenonT(40) DEF Relaxed
  <2>3. CASE n # u \/ k < next
    <3>1. Relaxed(n, k)
      BY <1>3, <2>3 DEF RelaxInv
    <3>2. Edge(n, k).to \in Nodes /\ Edge(n, k).to \in reached /\ Edge(n, k).fee \in Int
      BY <1>7, <3>1, ZenonT(40) DEF Relaxed
    <3>3. dist'[Edge(n, k).to] <= dist[Edge(n, k).to]
      BY <1>3, <1>5, <3>2
    <3>4. dist'[Edge(n, k).to] <= dist'[n] + Edge(n, k).fee
      BY <1>3, <1>5, <2>1, <3>1, <3>2, <3>3 DEF Relaxed
    <3> QED
      BY <1>5, <2>1, <3>2, <3>4, ZenonT(40) DEF Relaxed
  <2>4. k \in Nat /\ next \in Nat
    BY <1>4, <1>7, ZenonT(40)
  <2>5. n # u \/ k < next \/ k = next
    BY <2>4
  <2> QED
    BY <2>2, <2>3, <2>5, ZenonT(40)
<1>13. RankInv'
  <2>1. PICK ord \in [Nodes -> Nat] : Ranked(ord)
    BY <1>3 DEF RankInv
  <2>2. \A n \in Nodes \ {source} : Settled(n) => pred'[n] = pred[n]
    BY <1>5, ZenonT(40)
  <2>3. Ranked(ord)'
    BY <1>1, <1>2, <1>5, <2>1, <2>2, ZenonT(40) DEF Ranked
  <2> QED
    BY <1>2, <2>1, <2>3 DEF RankInv
<1> QED
  BY <1>9, <1>10, <1>11, <1>12, <1>13

\* LookAtEdge keeps the invariant.
LEMMA LookAtEdgePreserves ==
  ASSUME IInv, LookAtEdge
  PROVE  IInv'
<1>1. /\ pc = "search" /\ next' = next + 1
      /\ UNCHANGED <<network, request, pc, graph, source, dest, u, at, route, response>>
  BY DEF LookAtEdge
<1>2. QueueInv' /\ OrderInv' /\ PredInv' /\ RelaxInv' /\ RankInv'
  BY LookPasses, LookImproves
<1>3. /\ Started' /\ GraphInv' /\ RouteInv' /\ AnswerInv' /\ (network \in Snapshots)'
      /\ Nodes' = Nodes
  BY <1>1, SearchFrame
<1>4. TypeOK
  BY <1>1, Searching
<1>5. /\ reached \subseteq reached' /\ reached' \subseteq Nodes
      /\ dist' \in [Nodes -> Int]
      /\ pred' \in [Nodes -> [node : Nodes \cup {NoNode}, edge : Nat]]
      /\ queue' \subseteq Int \X reached'
  <2>1. CASE Improves(Edge(u, next))
    <3>1. PICK t : t = Edge(u, next).to
      BY ZenonT(40)
    <3>2. /\ t \in Nodes /\ reached' = reached \cup {t}
          /\ dist' \in [Nodes -> Int]
          /\ pred' \in [Nodes -> [node : Nodes \cup {NoNode}, edge : Nat]]
          /\ queue' = queue \cup {<<dist'[t], t>>}
      BY <2>1, <3>1, ImprovedEffect, ZenonT(40)
    <3>3. queue' \subseteq Int \X reached'
      BY <1>4, <3>2 DEF TypeOK
    <3> QED
      BY <1>4, <3>2, <3>3 DEF TypeOK
  <2>2. CASE ~Improves(Edge(u, next))
    BY <1>4, <2>2, ZenonT(40) DEF TypeOK, LookAtEdge
  <2> QED
    BY <2>1, <2>2
<1>6. TypeOK'
  BY <1>1, <1>3, <1>4, <1>5 DEF TypeOK
<1> QED
  BY <1>2, <1>3, <1>6 DEF IInv, SearchInv

\* A node that is left has all its edges relaxed.
LEMMA LeaveNodePreserves ==
  ASSUME IInv, LeaveNode
  PROVE  IInv'
<1>1. /\ pc = "search" /\ u # NoNode /\ next > Len(graph.edges[u]) /\ u' = NoNode
      /\ UNCHANGED <<network, request, pc, graph, source, dest, reached, dist, pred, queue, next,
                     at, route, response>>
  BY ZenonT(40) DEF LeaveNode
<1>2. /\ Started' /\ GraphInv' /\ RouteInv' /\ AnswerInv' /\ (network \in Snapshots)'
      /\ Nodes' = Nodes /\ ~Rebuilding'
      /\ \A n, k : Edge(n, k)' = Edge(n, k)
      /\ \A n, k : Carries(n, k)' <=> Carries(n, k)
  BY <1>1, SearchFrame
<1>3. /\ TypeOK /\ IsGraph(graph) /\ QueueInv /\ OrderInv /\ PredInv /\ RelaxInv /\ RankInv
      /\ source \in Nodes /\ NoNode \notin Nodes
  BY <1>1, Searching
<1>4. \A n : Settled(n)' <=> Settled(n)
  BY <1>1 DEF Settled
<1>5. TypeOK'
  BY <1>1, <1>2, <1>3, ZenonT(40) DEF TypeOK
<1>6. QueueInv'
  BY <1>1, <1>3, ZenonT(40) DEF QueueInv, Settled
<1>7. OrderInv'
  BY <1>1, <1>2, <1>3, <1>4, ZenonT(40) DEF OrderInv
<1>8. PredInv'
  <2> SUFFICES ASSUME NEW n \in reached \ {source}
               PROVE  ReachedOver(n, pred[n].node, pred[n].edge)'
    BY <1>1 DEF PredInv
  <2>1. ReachedOver(n, pred[n].node, pred[n].edge)
    BY <1>3 DEF PredInv
  <2> QED
    BY <1>1, <1>2, <1>4, <2>1, ZenonT(40) DEF ReachedOver
<1>9. RelaxInv'
  <2> SUFFICES ASSUME NEW n \in Nodes, Settled(n), NEW k \in DOMAIN graph.edges[n], Carries(n, k)
               PROVE  Relaxed(n, k)
    BY <1>1, <1>2, <1>4, ZenonT(40) DEF RelaxInv, Relaxed
  <2>1. k \in Nat /\ k <= Len(graph.edges[n]) /\ Len(graph.edges[n]) \in Nat /\ next \in Nat
    <3>1. Len(graph.edges[n]) \in Nat /\ DOMAIN graph.edges[n] = 1..Len(graph.edges[n])
      BY <1>3, GraphShape, ZenonT(40) DEF Nodes
    <3>2. next \in Nat \ {0}
      BY <1>3, ZenonT(40) DEF TypeOK
    <3> QED
      BY <3>1, <3>2
  <2>2. n # u \/ k < next
    BY <1>1, <2>1
  <2> QED
    BY <1>3, <2>2, ZenonT(40) DEF RelaxInv
<1>10. RankInv'
  <2>1. PICK ord \in [Nodes -> Nat] : Ranked(ord)
    BY <1>3 DEF RankInv
  <2>2. Ranked(ord)'
    BY <1>1, <1>2, <1>4, <2>1, ZenonT(40) DEF Ranked
  <2> QED
    BY <1>2, <2>1, <2>2 DEF RankInv
<1> QED
  BY <1>2, <1>5, <1>6, <1>7, <1>8, <1>9, <1>10 DEF IInv, SearchInv

-----------------------------------------------------------------------------
(***************************************************************************)
(* The route.                                                              *)
(***************************************************************************)
\* Once the search is over, what it has found stays.
LEMMA FoundFrame ==
  ASSUME IInv, Started, UNCHANGED <<network, request, graph, source, dest, searchVars>>
  PROVE  /\ SearchInv'
         /\ (network \in Snapshots)'
         /\ Nodes' = Nodes /\ Over' = Over
         /\ \A n : Settled(n)' <=> Settled(n)
         /\ \A n, k : Edge(n, k)' = Edge(n, k)
         /\ \A n, k : Carries(n, k)' <=> Carries(n, k)
<1>1. UNCHANGED <<reached, dist, pred, queue, u, next>>
  BY DEF searchVars
<1>2. Nodes' = Nodes /\ Over' = Over /\ \A n, k : Edge(n, k)' = Edge(n, k)
  BY <1>1 DEF Nodes, Edge, Over
<1>3. \A n : Settled(n)' <=> Settled(n)
  BY <1>1 DEF Settled
<1>4. \A n, k : Carries(n, k)' <=> Carries(n, k)
  BY <1>2 DEF Carries
<1>5. GraphInv /\ QueueInv /\ OrderInv /\ PredInv /\ RelaxInv
  BY ZenonT(40) DEF IInv, SearchInv
<1>6. GraphInv'
  BY <1>2, <1>5, ZenonT(40) DEF GraphInv
<1>7. QueueInv'
  BY <1>1, <1>5, ZenonT(40) DEF QueueInv, Settled
<1>8. OrderInv'
  BY <1>1, <1>2, <1>3, <1>5, ZenonT(40) DEF OrderInv
<1>9. PredInv'
  <2> SUFFICES ASSUME NEW n \in reached \ {source}
               PROVE  ReachedOver(n, pred[n].node, pred[n].edge)'
    BY <1>1 DEF PredInv
  <2>1. ReachedOver(n, pred[n].node, pred[n].edge)
    BY <1>5, ZenonT(40) DEF PredInv
  <2> QED
    BY <1>1, <1>2, <1>3, <1>4, <2>1, ZenonT(40) DEF ReachedOver
<1>10. RelaxInv'
  BY <1>1, <1>2, <1>3, <1>4, <1>5, ZenonT(40) DEF RelaxInv, Relaxed
<1> QED
  BY <1>2, <1>3, <1>4, <1>6, <1>7, <1>8, <1>9, <1>10 DEF IInv, SearchInv

\* EndSearch keeps the invariant: the route starts out empty, at the destination.
LEMMA EndSearchPreserves ==
  ASSUME IInv, EndSearch
  PROVE  IInv'
<1>1. /\ pc = "search" /\ u = NoNode /\ queue = {}
      /\ UNCHANGED <<network, request, graph, source, dest, searchVars, route>>
  BY DEF EndSearch
<1>2. UNCHANGED <<reached, dist, pred, queue, u, next>>
  BY <1>1 DEF searchVars
<1>3. /\ Started /\ ~Rebuilding /\ TypeOK /\ GraphInv /\ RankInv
  BY <1>1, Searching
<1>4. route = <<>> /\ response = NoAnswer
  BY <1>1, <1>3, ZenonT(40) DEF IInv, AnswerInv
<1>5. /\ SearchInv' /\ (network \in Snapshots)' /\ Nodes' = Nodes
      /\ \A n : Settled(n)' <=> Settled(n)
  BY <1>1, <1>3, FoundFrame
<1>6. Over' /\ dest \in Nodes
  BY <1>1, <1>2, <1>3, ZenonT(40) DEF Over, GraphInv
<1>7. PICK ord \in [Nodes -> Nat] : Ranked(ord)
  BY <1>3 DEF RankInv
<1>8. CASE dest \in reached
  <2>1. pc' = "rebuild" /\ at' = dest /\ UNCHANGED response
    BY <1>8 DEF EndSearch
  <2>2. ~response'.found /\ response'.code = "none"
    BY <1>4, <2>1, ZenonT(40) DEF NoAnswer, Answer
  <2>3. TypeOK'
    BY <1>1, <1>2, <1>3, <1>5, <1>6, <1>8, <2>1, ZenonT(40) DEF TypeOK
  <2>4. Ranked(ord)'
    <3>1. \A n \in Nodes' \ {source'} : Settled(n)' => ord[pred'[n].node] < ord[n]
      BY <1>1, <1>2, <1>5, <1>7, ZenonT(40) DEF Ranked
    <3>2. ord[at'] <= ord[dest']
      BY <1>1, <1>6, <1>7, <2>1
    <3>3. DOMAIN route' = {}
      BY <1>1, <1>4
    <3> QED
      BY <3>1, <3>2, <3>3, ZenonT(40) DEF Ranked
  <2>5. RankInv'
    BY <1>5, <1>7, <2>4 DEF RankInv
  <2>6. RouteInv'
    BY <1>1, <1>2, <1>4, <1>6, <1>8, <2>1 DEF RouteInv
  <2>7. AnswerInv'
    BY <1>4, <2>1, <2>2, ZenonT(40) DEF AnswerInv
  <2>8. Started'
    BY <2>1 DEF Started
  <2> QED
    BY <1>5, <2>3, <2>5, <2>6, <2>7, <2>8 DEF IInv
<1>9. CASE dest \notin reached
  <2>1. Respond(Answer("OK", FALSE, 0, <<>>)) /\ UNCHANGED at
    BY <1>9, ZenonT(40) DEF EndSearch
  <2>2. ~response'.found /\ response'.code = "OK" /\ pc' = "done"
    BY <2>1, ZenonT(40) DEF Respond, Answer
  <2>3. TypeOK'
    BY <1>1, <1>2, <1>3, <1>5, <2>2, ZenonT(40) DEF TypeOK
  <2>4. Started' /\ ~Rebuilding'
    BY <2>2, ZenonT(40) DEF Started, Rebuilding
  <2>5. Ranked(ord)'
    BY <1>1, <1>2, <1>5, <1>7, <2>4, ZenonT(40) DEF Ranked
  <2>6. RankInv'
    BY <1>5, <1>7, <2>5 DEF RankInv
  <2>7. RouteInv'
    BY <2>4, ZenonT(40) DEF RouteInv
  <2>8. AnswerInv'
    BY <1>1, <1>2, <1>6, <1>9, <2>2, ZenonT(40) DEF AnswerInv
  <2> QED
    BY <1>5, <2>3, <2>4, <2>6, <2>7, <2>8 DEF IInv
<1> QED
  BY <1>8, <1>9

\* What holds while the route is rebuilt.
LEMMA RebuildingFacts ==
  ASSUME IInv, pc = "rebuild"
  PROVE  /\ Started /\ Rebuilding /\ TypeOK /\ SearchInv /\ RankInv /\ RouteInv
         /\ response = NoAnswer /\ Over
         /\ at \in reached /\ at \in Nodes /\ dest \in reached
         /\ \A n \in reached : Settled(n)
<1>1. Started /\ Rebuilding
  BY ZenonT(40) DEF Started, Rebuilding
<1>2. TypeOK /\ SearchInv /\ RankInv /\ RouteInv /\ response = NoAnswer
  BY <1>1, ZenonT(40) DEF IInv, AnswerInv
<1>3. Over /\ at \in reached /\ dest \in reached
  BY <1>1, <1>2, ZenonT(40) DEF RouteInv
<1>4. at \in Nodes
  BY <1>2, <1>3, ZenonT(40) DEF TypeOK
<1>5. \A n \in reached : Settled(n)
  BY <1>3 DEF Over, Settled
<1> QED
  BY <1>1, <1>2, <1>3, <1>4, <1>5

\* RebuildHop puts the edge that at was reached over before the route.
LEMMA RebuildHopPreserves ==
  ASSUME IInv, RebuildHop
  PROVE  IInv'
<1> DEFINE p == pred[at].node
           k == pred[at].edge
           h == [from |-> p, edge |-> k]
<1>1. /\ pc = "rebuild" /\ at # source /\ route' = <<h>> \o route /\ at' = p
      /\ UNCHANGED <<network, request, pc, graph, source, dest, searchVars, response>>
  BY ZenonT(40) DEF RebuildHop
<1>2. UNCHANGED <<reached, dist, pred, queue, u, next>>
  BY <1>1 DEF searchVars
<1>3. /\ Started /\ Rebuilding /\ TypeOK /\ SearchInv /\ RankInv /\ RouteInv
      /\ response = NoAnswer /\ Over
      /\ at \in reached /\ at \in Nodes /\ dest \in reached
      /\ \A n \in reached : Settled(n)
  BY <1>1, RebuildingFacts, ZenonT(40)
<1>4. /\ SearchInv' /\ (network \in Snapshots)' /\ Nodes' = Nodes /\ Over' = Over
      /\ \A n : Settled(n)' <=> Settled(n)
      /\ \A n, j : Edge(n, j)' = Edge(n, j)
      /\ \A n, j : Carries(n, j)' <=> Carries(n, j)
  BY <1>1, <1>3, FoundFrame, ZenonT(40)
<1>5. /\ reached \subseteq Nodes /\ p \in reached /\ p \in Nodes /\ k \in Nat
      /\ pred[at] = [node |-> p, edge |-> k]
      /\ Carries(p, k) /\ Edge(p, k).to = at
  <2>1. ReachedOver(at, p, k)
    BY <1>1, <1>3, ZenonT(40) DEF SearchInv, PredInv
  <2>2. pred[at] \in [node : Nodes \cup {NoNode}, edge : Nat] /\ reached \subseteq Nodes
    BY <1>3, ZenonT(40) DEF TypeOK
  <2> QED
    BY <2>1, <2>2, ZenonT(40) DEF ReachedOver, Settled
<1> HIDE DEF p, k
<1>6. h.from = p /\ h.edge = k /\ h \in [from : Nodes, edge : Nat]
  BY <1>5, ZenonT(40)
<1>7. /\ route \in Seq([from : Nodes, edge : Nat])
      /\ \A i \in DOMAIN route : HopInv(i)
      /\ \A i \in 1..(Len(route) - 1) : Edge(route[i].from, route[i].edge).to = route[i + 1].from
      /\ route = <<>> => at = dest
      /\ route # <<>> => /\ route[1].from = at
                         /\ Edge(route[Len(route)].from, route[Len(route)].edge).to = dest
  BY <1>3, ZenonT(40) DEF RouteInv
<1> HIDE DEF h
<1>8. /\ route' \in Seq([from : Nodes, edge : Nat])
      /\ Len(route) \in Nat /\ DOMAIN route = 1..Len(route)
      /\ Len(route') = Len(route) + 1 /\ DOMAIN route' = 1..(Len(route) + 1)
      /\ route'[1] = h
      /\ \A i \in DOMAIN route : route'[i + 1] = route[i]
      /\ route = <<>> <=> Len(route) = 0
  <2>1. PICK H : H = [from : Nodes, edge : Nat]
    BY ZenonT(40)
  <2>2. route \in Seq(H) /\ h \in H /\ route' = <<h>> \o route
    BY <1>1, <1>6, <1>7, <2>1, ZenonT(40)
  <2>3. /\ route' \in Seq(H)
        /\ Len(route) \in Nat /\ DOMAIN route = 1..Len(route)
        /\ Len(route') = Len(route) + 1 /\ DOMAIN route' = 1..(Len(route) + 1)
        /\ route'[1] = h
        /\ \A i \in DOMAIN route : route'[i + 1] = route[i]
        /\ route = <<>> <=> Len(route) = 0
    BY <2>2
  <2> QED
    BY <2>1, <2>3
<1>9. \A i \in DOMAIN route' : i = 1 \/ (i - 1 \in DOMAIN route /\ route'[i] = route[i - 1])
  BY <1>8
<1>10. RouteInv'
  <2>1. ASSUME NEW i \in DOMAIN route'
        PROVE  HopInv(i)'
    <3>1. CASE i = 1
      BY <1>1, <1>2, <1>3, <1>4, <1>5, <1>6, <1>8, <3>1, ZenonT(40) DEF HopInv
    <3>2. CASE i - 1 \in DOMAIN route /\ route'[i] = route[i - 1]
      <4>1. HopInv(i - 1)
        BY <1>7, <3>2, ZenonT(40)
      <4> QED
        BY <1>1, <1>2, <1>4, <3>2, <4>1, ZenonT(40) DEF HopInv
    <3> QED
      BY <1>9, <3>1, <3>2
  <2>2. ASSUME NEW i \in 1..(Len(route') - 1)
        PROVE  Edge(route'[i].from, route'[i].edge).to = route'[i + 1].from
    <3>1. i \in DOMAIN route /\ route'[i + 1] = route[i] /\ i \in Nat
      BY <1>8
    <3>2. CASE i = 1
      <4>1. route # <<>>
        BY <1>8, <3>1
      <4>2. route'[i] = h /\ route'[i + 1].from = at
        BY <1>7, <1>8, <3>1, <3>2, <4>1, ZenonT(40)
      <4> QED
        BY <1>5, <1>6, <4>2, ZenonT(40)
    <3>3. CASE i # 1
      <4>1. i - 1 \in 1..(Len(route) - 1) /\ route'[i] = route[i - 1]
        BY <1>8, <1>9, <3>1, <3>3
      <4>2. Edge(route[i - 1].from, route[i - 1].edge).to = route[(i - 1) + 1].from
        BY <1>7, <4>1, ZenonT(40)
      <4>3. (i - 1) + 1 = i
        BY <3>1
      <4> QED
        BY <3>1, <4>1, <4>2, <4>3, ZenonT(40)
    <3> QED
      BY <3>2, <3>3
  <2>3. route' # <<>> /\ route'[1].from = at'
    BY <1>1, <1>6, <1>8
  <2>4. Edge(route'[Len(route')].from, route'[Len(route')].edge).to = dest
    <3>1. CASE route = <<>>
      BY <1>5, <1>6, <1>7, <1>8, <3>1
    <3>2. CASE route # <<>>
      <4>1. Len(route) \in DOMAIN route /\ route'[Len(route')] = route[Len(route)]
        BY <1>8, <3>2
      <4> QED
        BY <1>7, <3>2, <4>1, ZenonT(40)
    <3> QED
      BY <3>1, <3>2
  <2>5. \A i \in 1..(Len(route') - 1) : graph'.edges[route'[i].from][route'[i].edge].to = route'[i + 1].from
    BY <1>1, <2>2, ZenonT(40) DEF Edge
  <2>6. Over' /\ at' \in reached' /\ dest' \in reached'
    BY <1>1, <1>2, <1>3, <1>4, <1>5, ZenonT(40)
  <2>7. graph'.edges[route'[Len(route')].from][route'[Len(route')].edge].to = dest'
    BY <1>1, <2>4, ZenonT(40) DEF Edge
  <2> QED
    BY <1>4, <1>8, <2>1, <2>3, <2>5, <2>6, <2>7, ZenonT(40) DEF RouteInv, Edge
<1>11. RankInv'
  <2>1. PICK ord \in [Nodes -> Nat] : Ranked(ord)
    BY <1>3 DEF RankInv
  <2>2. /\ \A n \in Nodes \ {source} : Settled(n) => ord[pred[n].node] < ord[n]
        /\ ord[at] <= ord[dest]
        /\ \A i \in DOMAIN route : ord[at] <= ord[route[i].from] /\ ord[route[i].from] < ord[dest]
        /\ \A i, j \in DOMAIN route : i < j => ord[route[i].from] < ord[route[j].from]
    BY <1>3, <2>1, ZenonT(40) DEF Ranked
  <2>3. ord[p] < ord[at]
    BY <1>1, <1>3, <2>2, ZenonT(40) DEF p
  <2>4. /\ ord[p] \in Nat /\ ord[at] \in Nat /\ ord[dest] \in Nat
        /\ \A i \in DOMAIN route : ord[route[i].from] \in Nat
    BY <1>3, <1>5, <1>7, <2>1, ZenonT(40) DEF HopInv
  <2>5. ord[p] < ord[dest] /\ ord[p] <= ord[dest]
    BY <2>2, <2>3, <2>4
  <2>6. ASSUME NEW i \in DOMAIN route'
        PROVE  ord[p] <= ord[route'[i].from] /\ ord[route'[i].from] < ord[dest]
    <3>1. CASE i = 1
      <4>1. route'[i].from = p
        BY <1>6, <1>8, <3>1
      <4> QED
        BY <2>4, <2>5, <4>1
    <3>2. CASE i - 1 \in DOMAIN route /\ route'[i] = route[i - 1]
      <4>1. /\ ord[at] <= ord[route'[i].from] /\ ord[route'[i].from] < ord[dest]
            /\ ord[route'[i].from] \in Nat
        BY <2>2, <2>4, <3>2, ZenonT(40)
      <4> QED
        BY <2>3, <2>4, <4>1
    <3> QED
      BY <1>9, <3>1, <3>2, ZenonT(40)
  <2>7. ASSUME NEW i \in DOMAIN route', NEW j \in DOMAIN route', i < j
        PROVE  ord[route'[i].from] < ord[route'[j].from]
    <3>1. i \in Nat \ {0} /\ j \in Nat \ {0, 1}
      BY <1>8, <2>7
    <3>2. j - 1 \in DOMAIN route /\ route'[j] = route[j - 1]
      BY <1>9, <3>1
    <3>3. CASE i = 1
      <4>1. route'[i].from = p
        BY <1>6, <1>8, <3>3, ZenonT(40)
      <4>2. ord[at] <= ord[route'[j].from] /\ ord[route'[j].from] \in Nat
        BY <2>2, <2>4, <3>2, ZenonT(40)
      <4> QED
        BY <2>3, <2>4, <4>1, <4>2
    <3>4. CASE i # 1
      <4>1. i - 1 \in DOMAIN route /\ route'[i] = route[i - 1] /\ i - 1 < j - 1
        BY <1>9, <2>7, <3>1, <3>4
      <4> QED
        BY <2>2, <3>2, <4>1, ZenonT(40)
    <3> QED
      BY <3>3, <3>4
  <2>8. Ranked(ord)'
    BY <1>1, <1>2, <1>4, <2>2, <2>5, <2>6, <2>7, ZenonT(40) DEF Ranked
  <2> QED
    BY <1>4, <2>1, <2>8 DEF RankInv
<1>12. TypeOK'
  <2>1. \A i \in DOMAIN route' : route'[i].from \in reached'
    BY <1>2, <1>5, <1>6, <1>7, <1>8, <1>9, ZenonT(40) DEF HopInv
  <2> QED
    BY <1>1, <1>2, <1>3, <1>4, <1>5, <2>1, ZenonT(40) DEF TypeOK
<1>13. AnswerInv' /\ Started'
  <2>1. ~response'.found /\ response'.code = "none"
    BY <1>1, <1>3 DEF NoAnswer, Answer
  <2> QED
    BY <1>1, <1>3, <2>1, ZenonT(40) DEF AnswerInv, Started
<1> QED
  BY <1>4, <1>10, <1>11, <1>12, <1>13 DEF IInv

\* AnswerRoute keeps the invariant.
LEMMA AnswerRoutePreserves ==
  ASSUME IInv, AnswerRoute
  PROVE  IInv'
<1> DEFINE hops == [i \in DOMAIN route |->
                      [from |-> graph.nodes[route[i].from],
                       to |-> graph.nodes[Edge(route[i].from, route[i].edge).to],
                       bridge |-> Edge(route[i].from, route[i].edge).bridge,
                       fee |-> Edge(route[i].from, route[i].edge).fee,
                       liquidity |-> Edge(route[i].from, route[i].edge).liquidity]]
<1>1. /\ pc = "rebuild" /\ at = source
      /\ Respond(Answer("OK", TRUE, dist[dest], hops))
      /\ UNCHANGED <<network, request, graph, source, dest, searchVars, at, route>>
  BY ZenonT(40) DEF AnswerRoute
<1>2. UNCHANGED <<reached, dist, pred, queue, u, next>>
  BY <1>1, ZenonT(40) DEF searchVars
<1>3. /\ Started /\ Rebuilding /\ TypeOK /\ SearchInv /\ RankInv /\ RouteInv /\ Over /\ dest \in reached
  BY <1>1, RebuildingFacts, ZenonT(40)
<1>4. /\ SearchInv' /\ (network \in Snapshots)' /\ Nodes' = Nodes /\ Over' = Over
      /\ \A n : Settled(n)' <=> Settled(n)
      /\ \A n, j : Edge(n, j)' = Edge(n, j)
      /\ \A n, j : Carries(n, j)' <=> Carries(n, j)
  BY <1>1, <1>3, FoundFrame, ZenonT(40)
<1>5. hops = hops'
  BY <1>1, ZenonT(40) DEF Edge
<1> HIDE DEF hops
<1>6. /\ response'.code = "OK" /\ response'.found /\ response'.fee = dist[dest]
      /\ response'.hops = hops /\ pc' = "done"
  BY <1>1, ZenonT(40) DEF Respond, Answer
<1>7. Started'
  BY <1>6 DEF Started
<1>8. TypeOK'
  BY <1>1, <1>2, <1>3, <1>4, <1>6, ZenonT(40) DEF TypeOK
<1>9. RankInv'
  <2>1. PICK ord \in [Nodes -> Nat] : Ranked(ord)
    BY <1>3 DEF RankInv
  <2>2. Ranked(ord)'
    BY <1>1, <1>2, <1>3, <1>4, <2>1, ZenonT(40) DEF Ranked
  <2> QED
    BY <1>4, <2>1, <2>2 DEF RankInv
<1>10. RouteInv'
  BY <1>1, <1>2, <1>3, <1>4, ZenonT(40) DEF RouteInv, HopInv, Edge
<1>11. AnswerInv'
  <2>1. Over' /\ dest' \in reached' /\ at' = source' /\ response'.fee = dist'[dest']
    BY <1>1, <1>2, <1>3, <1>4, <1>6, ZenonT(40)
  <2>2. response'.hops = hops'
    BY <1>5, <1>6
  <2> QED
    BY <1>6, <2>1, <2>2, ZenonT(40) DEF AnswerInv, hops
<1> QED
  BY <1>4, <1>7, <1>8, <1>9, <1>10, <1>11, ZenonT(40) DEF IInv

-----------------------------------------------------------------------------
(***************************************************************************)
(* The invariant, and what follows from it.                                *)
(***************************************************************************)
\* Every step keeps the invariant.
LEMMA NextIInv == IInv /\ [Next]_vars => IInv'
<1> SUFFICES ASSUME IInv, [Next]_vars
             PROVE  IInv'
  OBVIOUS
<1>1. CASE FindRoute
  BY <1>1, FindRoutePreserves
<1>2. CASE Pop
  BY <1>2, PopPreserves
<1>3. CASE LookAtEdge
  BY <1>3, LookAtEdgePreserves
<1>4. CASE LeaveNode
  BY <1>4, LeaveNodePreserves
<1>5. CASE EndSearch
  BY <1>5, EndSearchPreserves
<1>6. CASE RebuildHop
  BY <1>6, RebuildHopPreserves
<1>7. CASE AnswerRoute
  BY <1>7, AnswerRoutePreserves
<1>8. CASE UNCHANGED vars
  <2>1. UNCHANGED <<network, request, graph, source, dest, searchVars>>
    BY <1>8 DEF vars, searchVars
  <2>2. TypeOK' /\ (Started' <=> Started) /\ (Rebuilding' <=> Rebuilding)
    BY <1>8, ZenonT(40) DEF vars, IInv, TypeOK, Nodes, Started, Rebuilding
  <2>3. CASE Started
    <3>1. /\ SearchInv' /\ (network \in Snapshots)' /\ Nodes' = Nodes /\ Over' = Over
          /\ \A n : Settled(n)' <=> Settled(n)
          /\ \A n, j : Carries(n, j)' <=> Carries(n, j)
      BY <2>1, <2>3, FoundFrame
    <3>2. RankInv /\ RouteInv /\ AnswerInv
      BY <2>3 DEF IInv
    <3>3. PICK ord \in [Nodes -> Nat] : Ranked(ord)
      BY <3>2 DEF RankInv
    <3>4. Ranked(ord)'
      BY <1>8, <2>2, <3>1, <3>3, ZenonT(40) DEF vars, Ranked
    <3>5. RankInv'
      BY <3>1, <3>3, <3>4 DEF RankInv
    <3>6. RouteInv'
      BY <1>8, <2>2, <3>1, <3>2, ZenonT(40) DEF vars, RouteInv, HopInv, Edge
    <3>7. AnswerInv'
      BY <1>8, <3>1, <3>2, ZenonT(40) DEF vars, AnswerInv, Edge
    <3> QED
      BY <2>2, <2>3, <3>1, <3>5, <3>6, <3>7 DEF IInv
  <2>4. CASE ~Started
    BY <1>8, <2>2, <2>4, ZenonT(40) DEF vars, IInv, Blank
  <2> QED
    BY <2>3, <2>4
<1> QED
  BY <1>1, <1>2, <1>3, <1>4, <1>5, <1>6, <1>7, <1>8 DEF Next

\* The search's invariant holds in every reachable state: settled nodes have
\* their final distance, in the order they were popped, and their edges have
\* been relaxed.
THEOREM AlwaysIInv == Spec => []IInv
  BY InitIInv, NextIInv, PTL DEF Spec

\* Every variable has its type, for every snapshot and every request: in
\* particular every index the search and the route use is in range.
THEOREM TypeCorrect == Spec => []TypeOK
<1>1. IInv => TypeOK
  BY DEF IInv
<1> QED
  BY <1>1, AlwaysIInv, PTL

\* The distance and the predecessor of a node never change once its entry has
\* been popped: findCheapestRoute's edges cannot shorten a settled node.
THEOREM AlwaysSettledIsFinal == Spec => SettledIsFinal
<1>1. ASSUME IInv, [Next]_vars
      PROVE  [\A n \in reached : <<dist[n], n>> \notin queue =>
                dist'[n] = dist[n] /\ pred'[n] = pred[n]]_<<dist, pred>>
  <2>1. CASE FindRoute
    <3>1. reached = {}
      <4>1. pc = "receive"
        BY <2>1 DEF FindRoute
      <4> QED
        BY <1>1, <4>1, ZenonT(40) DEF IInv, Started, Blank, AnswerInv
    <3> QED
      BY <3>1, ZenonT(40)
  <2>2. CASE LookAtEdge /\ Improves(Edge(u, next))
    <3>1. PICK t : t = Edge(u, next).to
      OBVIOUS
    <3>2. ~Settled(t) /\ \A n \in Nodes \ {t} : dist'[n] = dist[n] /\ pred'[n] = pred[n]
      BY <1>1, <2>2, <3>1, ImprovedEffect, ZenonT(40)
    <3>3. reached \subseteq Nodes
      BY <1>1, ZenonT(40) DEF IInv, TypeOK
    <3> QED
      BY <3>2, <3>3, ZenonT(40) DEF Settled
  <2>3. CASE ~FindRoute /\ ~(LookAtEdge /\ Improves(Edge(u, next)))
    <3>1. UNCHANGED <<dist, pred>>
      BY <1>1, <2>3, ZenonT(40) DEF Next, vars, searchVars, Pop, LookAtEdge, LeaveNode, EndSearch, RebuildHop, AnswerRoute
    <3> QED
      BY <3>1
  <2> QED
    BY <2>1, <2>2, <2>3, ZenonT(40)
<1> QED
  BY <1>1, AlwaysIInv, PTL DEF Spec, SettledIsFinal

\* When the search is over no edge that can carry the amount and leaves a
\* reached node could shorten anything.
LEMMA OverRelaxed ==
  ASSUME IInv, Started, Over
  PROVE  \A n \in reached : \A k \in DOMAIN graph.edges[n] : Carries(n, k) => Relaxed(n, k)
<1>1. RelaxInv /\ TypeOK
  BY ZenonT(40) DEF IInv, SearchInv
<1>2. reached \subseteq Nodes /\ NoNode \notin Nodes
  BY <1>1, GraphShape, ZenonT(40) DEF TypeOK, Nodes
<1>3. \A n \in reached : Settled(n) /\ n # u
  BY <1>2 DEF Over, Settled
<1> QED
  BY <1>1, <1>2, <1>3, ZenonT(40) DEF RelaxInv

\* findCheapestRoute ends with every edge relaxed.
THEOREM AlwaysEveryEdgeRelaxed == Spec => []EveryEdgeRelaxed
<1>1. IInv => EveryEdgeRelaxed
  <2> SUFFICES ASSUME IInv, pc = "rebuild" \/ response.code = "OK",
                      NEW n \in reached, NEW k \in 1..Len(graph.edges[n]),
                      Edge(n, k).liquidity >= request.amount
               PROVE  Edge(n, k).to \in reached /\ dist[Edge(n, k).to] <= dist[n] + Edge(n, k).fee
    BY ZenonT(40) DEF EveryEdgeRelaxed
  <2>1. Started /\ Over
    BY ZenonT(40) DEF IInv, Started, AnswerInv, RouteInv, Rebuilding
  <2>2. k \in DOMAIN graph.edges[n]
    BY GraphShape, ZenonT(40) DEF IInv, TypeOK, Nodes
  <2> QED
    BY <2>1, <2>2, OverRelaxed, ZenonT(40) DEF Carries, Relaxed
<1> QED
  BY <1>1, AlwaysIInv, PTL

\* An answer with a route: the search is over, and the route leads from the
\* source to the destination.
LEMMA FoundFacts ==
  ASSUME IInv, response.found
  PROVE  /\ Started /\ Over /\ IsGraph(graph) /\ TypeOK
         /\ GraphInv /\ QueueInv /\ PredInv /\ RankInv
         /\ source # dest /\ {source, dest} \subseteq reached
         /\ response.code = "OK" /\ response.fee = dist[dest]
         /\ route \in Seq([from : Nodes, edge : Nat])
         /\ Len(route) \in Nat \ {0} /\ DOMAIN route = 1..Len(route)
         /\ \A i \in DOMAIN route : HopInv(i)
         /\ \A i \in 1..(Len(route) - 1) : Edge(route[i].from, route[i].edge).to = route[i + 1].from
         /\ route[1].from = source
         /\ Edge(route[Len(route)].from, route[Len(route)].edge).to = dest
<1>1. Started /\ Rebuilding
  BY DEF IInv, Blank, Rebuilding
<1>2. TypeOK /\ SearchInv /\ RankInv /\ RouteInv /\ AnswerInv
  BY <1>1 DEF IInv
<1>3. GraphInv /\ QueueInv /\ PredInv /\ IsGraph(graph)
  BY <1>2, ZenonT(40) DEF SearchInv, TypeOK
<1>4. /\ Over /\ at \in reached /\ dest \in reached
      /\ route \in Seq([from : Nodes, edge : Nat])
      /\ \A i \in DOMAIN route : HopInv(i)
      /\ \A i \in 1..(Len(route) - 1) : Edge(route[i].from, route[i].edge).to = route[i + 1].from
      /\ route = <<>> => at = dest
      /\ route # <<>> => /\ route[1].from = at
                         /\ Edge(route[Len(route)].from, route[Len(route)].edge).to = dest
  BY <1>1, <1>2, ZenonT(40) DEF RouteInv
<1>5. response.code = "OK" /\ at = source /\ response.fee = dist[dest]
  BY <1>2, ZenonT(40) DEF AnswerInv
<1>6. source # dest /\ source \in reached
  BY <1>1, <1>3, Searched, ZenonT(40) DEF QueueInv
<1>7. route # <<>>
  BY <1>4, <1>5, <1>6, ZenonT(40)
<1>8. Len(route) \in Nat \ {0} /\ DOMAIN route = 1..Len(route)
  <2>1. PICK H : H = [from : Nodes, edge : Nat]
    BY ZenonT(40)
  <2>2. route \in Seq(H)
    BY <1>4, <2>1, ZenonT(40)
  <2> QED
    BY <1>7, <2>2
<1> QED
  BY <1>1, <1>2, <1>3, <1>4, <1>5, <1>6, <1>7, <1>8, ZenonT(40)

\* The answer's hops name the nodes and the bridges of the route.
LEMMA AnswerHops ==
  ASSUME IInv, response.found
  PROVE  /\ DOMAIN response.hops = DOMAIN route
         /\ \A i \in DOMAIN route :
              /\ response.hops[i].from = graph.nodes[route[i].from]
              /\ response.hops[i].to = graph.nodes[Edge(route[i].from, route[i].edge).to]
              /\ response.hops[i].bridge = Edge(route[i].from, route[i].edge).bridge
<1>1. Started
  BY FoundFacts, ZenonT(40)
<1>2. AnswerInv
  BY <1>1 DEF IInv
<1>3. response.hops =
        [i \in DOMAIN route |->
           [from |-> graph.nodes[route[i].from],
            to |-> graph.nodes[Edge(route[i].from, route[i].edge).to],
            bridge |-> Edge(route[i].from, route[i].edge).bridge,
            fee |-> Edge(route[i].from, route[i].edge).fee,
            liquidity |-> Edge(route[i].from, route[i].edge).liquidity]]
  BY <1>2, ZenonT(40) DEF AnswerInv
<1>4. PICK hops : hops = response.hops
  OBVIOUS
<1>5. DOMAIN hops = DOMAIN route
  BY <1>3, <1>4, ZenonT(40)
<1>6. ASSUME NEW i \in DOMAIN route
      PROVE  /\ hops[i].from = graph.nodes[route[i].from]
             /\ hops[i].to = graph.nodes[Edge(route[i].from, route[i].edge).to]
             /\ hops[i].bridge = Edge(route[i].from, route[i].edge).bridge
  <2>1. PICK e : e = Edge(route[i].from, route[i].edge)
    OBVIOUS
  <2>2. hops[i] = [from |-> graph.nodes[route[i].from], to |-> graph.nodes[e.to],
                   bridge |-> e.bridge, fee |-> e.fee, liquidity |-> e.liquidity]
    BY <1>3, <1>4, <2>1, ZenonT(40)
  <2>3. hops[i].from = graph.nodes[route[i].from] /\ hops[i].to = graph.nodes[e.to]
        /\ hops[i].bridge = e.bridge
    BY <2>2
  <2> QED
    BY <2>1, <2>3, ZenonT(40)
<1> QED
  BY <1>4, <1>5, <1>6, ZenonT(40)

\* What hop i of the answer's route is.
LEMMA HopFacts ==
  ASSUME IInv, response.found, NEW i \in DOMAIN route,
         NEW n, n = route[i].from, NEW k, k = route[i].edge
  PROVE  /\ n \in Nodes /\ n \in reached /\ k \in Nat
         /\ route[i] = [from |-> n, edge |-> k]
         /\ Carries(n, k) /\ Edge(n, k).fee \in Int
         /\ Edge(n, k).to \in reached
         /\ ReachedOver(Edge(n, k).to, n, k)
<1>1. /\ IsGraph(graph) /\ TypeOK /\ PredInv /\ HopInv(i)
      /\ route \in Seq([from : Nodes, edge : Nat])
  BY FoundFacts, ZenonT(40)
<1>2. route[i] \in [from : Nodes, edge : Nat]
  <2>1. PICK H : H = [from : Nodes, edge : Nat]
    BY ZenonT(40)
  <2>2. route \in Seq(H)
    BY <1>1, <2>1
  <2>3. route[i] \in H
    BY <2>2, SeqElement, ZenonT(40)
  <2> QED
    BY <2>1, <2>3
<1>3. n \in Nodes /\ k \in Nat /\ route[i] = [from |-> n, edge |-> k]
  BY <1>2, ZenonT(40)
<1>4. /\ n \in reached /\ Carries(n, k) /\ Edge(n, k).to \in reached \ {source}
      /\ pred[Edge(n, k).to] = [node |-> n, edge |-> k]
  BY <1>1, ZenonT(40) DEF HopInv
<1>5. ReachedOver(Edge(n, k).to, n, k)
  <2>1. PICK t : t = Edge(n, k).to
    OBVIOUS
  <2>2. t \in reached \ {source} /\ pred[t] = [node |-> n, edge |-> k]
    BY <1>4, <2>1, ZenonT(40)
  <2>3. ReachedOver(t, pred[t].node, pred[t].edge)
    BY <1>1, <2>2, ZenonT(40) DEF PredInv
  <2>4. pred[t].node = n /\ pred[t].edge = k
    BY <2>2, PredFields, ZenonT(40)
  <2> QED
    BY <2>1, <2>3, <2>4, ZenonT(40)
<1>6. Edge(n, k).fee \in Int
  BY <1>1, <1>3, <1>4, GraphShape, ZenonT(40) DEF Carries, Nodes, Edge
<1> QED
  BY <1>3, <1>4, <1>5, <1>6, ZenonT(40)

\* Of the candidates with the least fee, findCheapestRoute takes the first: a
\* later edge that costs the same shortens nothing.
THEOREM AlwaysFirstCheapestWins == Spec => []FirstCheapestWins
<1>1. IInv => FirstCheapestWins
  <2> SUFFICES ASSUME IInv, response.found, request.candidates # <<>>
               PROVE  \E k \in DOMAIN request.candidates :
                        /\ response.hops[1].bridge = request.candidates[k].bridge
                        /\ \A j \in DOMAIN request.candidates :
                             request.candidates[k].fee <= request.candidates[j].fee
                        /\ \A j \in 1..(k - 1) : request.candidates[k].fee < request.candidates[j].fee
    BY ZenonT(40) DEF FirstCheapestWins
  <2>1. /\ Started /\ Over /\ IsGraph(graph) /\ TypeOK /\ QueueInv
        /\ Len(route) \in Nat \ {0} /\ DOMAIN route = 1..Len(route)
        /\ route[1].from = source /\ source \in reached
    BY FoundFacts, ZenonT(40)
  <2>2. /\ source = 1 /\ Nodes = {1, 2}
        /\ DOMAIN graph.edges[1] = DOMAIN request.candidates
        /\ \A j \in DOMAIN request.candidates :
             /\ Edge(1, j).to = 2
             /\ Edge(1, j).fee = request.candidates[j].fee
             /\ Edge(1, j).bridge = request.candidates[j].bridge
             /\ Edge(1, j).liquidity >= request.amount
    BY <2>1, Searched, ZenonT(40)
  <2>3. PICK k : k = route[1].edge
    OBVIOUS
  <2>4. 1 \in DOMAIN route /\ 1 = route[1].from
    <3>1. 1 \in 1..Len(route)
      BY <2>1
    <3> QED
      BY <2>1, <2>2, <3>1, ZenonT(40)
  <2>5. k \in Nat /\ Carries(1, k) /\ ReachedOver(Edge(1, k).to, 1, k)
    BY <2>3, <2>4, HopFacts, ZenonT(40)
  <2>6. k \in DOMAIN request.candidates /\ Edge(1, k).to = 2
    BY <2>2, <2>5, ZenonT(40) DEF Carries
  <2>7. /\ dist[2] = dist[1] + request.candidates[k].fee
        /\ \A j \in 1..(k - 1) : Carries(1, j) /\ Edge(1, j).to = 2 => Edge(1, k).fee < Edge(1, j).fee
    BY <2>2, <2>5, <2>6, ZenonT(40) DEF ReachedOver
  <2>8. \A j \in DOMAIN request.candidates : /\ request.candidates[j].fee \in Int
                                             /\ Carries(1, j) /\ Relaxed(1, j)
    <3>1. \A j \in DOMAIN graph.edges[1] : Edge(1, j).fee \in Int /\ Edge(1, j).liquidity \in Nat
      BY <2>1, <2>2, GraphShape, ZenonT(40) DEF Nodes, Edge
    <3>2. \A j \in DOMAIN request.candidates : Carries(1, j)
      BY <2>2, ZenonT(40) DEF Carries
    <3>3. \A j \in DOMAIN request.candidates : Relaxed(1, j)
      BY <2>1, <2>2, <3>2, OverRelaxed, ZenonT(40)
    <3> QED
      BY <2>2, <3>1, <3>2, <3>3, ZenonT(40)
  <2>9. dist[1] \in Int /\ dist[2] \in Int
    BY <2>1, <2>2, ZenonT(40) DEF TypeOK
  <2>10. ASSUME NEW j \in DOMAIN request.candidates
         PROVE  request.candidates[k].fee <= request.candidates[j].fee
    <3>1. dist[2] <= dist[1] + request.candidates[j].fee
      BY <2>2, <2>8, ZenonT(40) DEF Relaxed
    <3> QED
      BY <2>6, <2>7, <2>8, <2>9, <3>1
  <2>11. ASSUME NEW j \in 1..(k - 1)
         PROVE  request.candidates[k].fee < request.candidates[j].fee
    <3>1. j \in DOMAIN request.candidates
      <4>1. /\ Len(graph.edges[1]) \in Nat
            /\ DOMAIN request.candidates = 1..Len(graph.edges[1])
        BY <2>1, <2>2, GraphShape, ZenonT(40) DEF Nodes
      <4> QED
        BY <2>5, <2>6, <4>1
    <3> QED
      BY <2>2, <2>6, <2>7, <2>8, <3>1, ZenonT(40)
  <2>12. response.hops[1].bridge = request.candidates[k].bridge
    <3>1. response.hops[1].bridge = Edge(1, k).bridge
      BY <2>3, <2>4, AnswerHops, ZenonT(40)
    <3> QED
      BY <2>2, <2>6, <3>1, ZenonT(40)
  <2> QED
    BY <2>6, <2>10, <2>11, <2>12, ZenonT(40)
<1> QED
  BY <1>1, AlwaysIInv, PTL

-----------------------------------------------------------------------------
(***************************************************************************)
(* The cheapest route.                                                     *)
(***************************************************************************)
\* What is left counts nodes and adds fees up.
INSTANCE SetInduction

\* The cost of a path is the last of its running sums of fees.
LEMMA CostSteps ==
  ASSUME NEW m \in Nat, NEW s, DOMAIN s = 1..m, Len(s) = m,
         \A i \in 1..m : Edge(s[i].from, s[i].edge).fee \in Int
  PROVE  \E c \in [0..m -> Int] :
           /\ c[0] = 0
           /\ \A i \in 1..m : c[i] = c[i - 1] + Edge(s[i].from, s[i].edge).fee
           /\ Cost(s) = c[m]
<1> DEFINE f == [i \in 1..m |-> Edge(s[i].from, s[i].edge).fee]
           upTo[i \in 0..m] == IF i = 0 THEN 0 ELSE upTo[i - 1] + Edge(s[i].from, s[i].edge).fee
           V == {i \in 0..m : upTo[i] \in Int}
<1>1. f \in [1..m -> Int] /\ \A i \in 1..m : f[i] = Edge(s[i].from, s[i].edge).fee
  BY ZenonT(40)
<1> HIDE DEF f
<1>2. \E g : g = [i \in 0..m |-> IF i = 0 THEN 0 ELSE g[i - 1] + Edge(s[i].from, s[i].edge).fee]
  <2>1. PICK g : g = [i \in 0..m |-> IF i = 0 THEN 0 ELSE g[i - 1] + f[i]]
    BY <1>1, RunningSumExists, ZenonT(40)
  <2>2. g = [i \in 0..m |-> IF i = 0 THEN 0 ELSE g[i - 1] + Edge(s[i].from, s[i].edge).fee]
    <3>1. \A i \in 0..m : i # 0 => f[i] = Edge(s[i].from, s[i].edge).fee
      BY <1>1
    <3> QED
      BY <2>1, <3>1, ZenonT(40)
  <2> QED
    BY <2>2
<1>3. upTo = [i \in 0..m |-> IF i = 0 THEN 0 ELSE upTo[i - 1] + Edge(s[i].from, s[i].edge).fee]
  BY <1>2, ZenonT(40)
<1>4. Cost(s) = upTo[m]
  BY ZenonT(40) DEF Cost
<1> HIDE DEF upTo
<1>5. \A i \in 0..m : upTo[i] = IF i = 0 THEN 0 ELSE upTo[i - 1] + Edge(s[i].from, s[i].edge).fee
  BY <1>3, ZenonT(40)
<1>6. upTo[0] = 0 /\ \A i \in 1..m : upTo[i] = upTo[i - 1] + Edge(s[i].from, s[i].edge).fee
  BY <1>5
<1>7. 0..m \subseteq V
  <2>1. 0 \in V
    BY <1>6
  <2>2. ASSUME NEW i \in 0..(m - 1), i \in V
        PROVE  i + 1 \in V
    <3>1. i + 1 \in 1..m /\ (i + 1) - 1 = i
      OBVIOUS
    <3>2. upTo[i + 1] = upTo[i] + Edge(s[i + 1].from, s[i + 1].edge).fee
      BY <1>6, <3>1
    <3> QED
      BY <2>2, <3>1, <3>2
  <2> HIDE DEF V
  <2> QED
    BY <2>1, <2>2, IntervalInduction, ZenonT(40)
<1>8. upTo \in [0..m -> Int]
  BY <1>3, <1>7, ZenonT(40)
<1> QED
  BY <1>4, <1>6, <1>8, ZenonT(40)

\* A graph has finitely many nodes.
LEMMA NodesFinite ==
  ASSUME IsGraph(graph)
  PROVE  IsFiniteSet(Nodes) /\ Cardinality(Nodes) \in Nat
<1>1. PICK n \in Nat : Nodes = 1..n
  BY GraphShape, ZenonT(40) DEF Nodes
<1>2. IsFiniteSet(1..n)
  BY FS_Interval
<1> QED
  BY <1>1, <1>2, FS_CardinalityType

\* A path of the graph, hop by hop.
LEMMA PathShape ==
  ASSUME IsGraph(graph), NEW s \in Routes
  PROVE  /\ Len(s) \in Nat \ {0}
         /\ DOMAIN s = 1..Len(s)
         /\ \A i \in 1..Len(s) : /\ s[i].from \in Nodes
                                 /\ Carries(s[i].from, s[i].edge)
                                 /\ Edge(s[i].from, s[i].edge).fee \in Int
         /\ IsRoute(s)
<1>1. Cardinality(Nodes) \in Nat
  BY NodesFinite
<1>2. PICK m \in 1..(Cardinality(Nodes) - 1) : s \in [1..m -> LiquidHops]
  BY ZenonT(40) DEF Routes
<1>3. m \in Nat \ {0}
  BY <1>1
<1>4. Len(s) = m /\ DOMAIN s = 1..m
  BY <1>2, <1>3
<1>5. ASSUME NEW h \in LiquidHops
      PROVE  h.from \in Nodes /\ Carries(h.from, h.edge) /\ Edge(h.from, h.edge).fee \in Int
  <2>1. PICK n \in Nodes : h \in {[from |-> n, edge |-> k] :
            k \in {k \in DOMAIN graph.edges[n] : Edge(n, k).liquidity >= request.amount}}
    BY ZenonT(40) DEF LiquidHops
  <2>2. PICK k \in DOMAIN graph.edges[n] :
           Edge(n, k).liquidity >= request.amount /\ h = [from |-> n, edge |-> k]
    BY <2>1, ZenonT(40)
  <2>3. Edge(n, k).fee \in Int
    BY <2>2, GraphShape, ZenonT(40) DEF Nodes, Edge
  <2> QED
    BY <2>2, <2>3, ZenonT(40) DEF Carries
<1>6. IsRoute(s)
  BY ZenonT(40) DEF Routes
<1> QED
  BY <1>2, <1>3, <1>4, <1>5, <1>6

\* No path is cheaper than the distance of the destination, and there is none
\* to a destination that was not reached.
LEMMA NoneCheaper ==
  ASSUME IInv, Started, Over, NEW s \in Routes
  PROVE  dest \in reached /\ dist[dest] <= Cost(s)
<1> DEFINE m == Len(s)
           far(i) == Edge(s[i].from, s[i].edge).to
           fee(i) == Edge(s[i].from, s[i].edge).fee
<1>1. TypeOK /\ IsGraph(graph) /\ QueueInv /\ reached \subseteq Nodes /\ dist \in [Nodes -> Int]
  BY ZenonT(40) DEF IInv, TypeOK, SearchInv
<1>2. /\ m \in Nat \ {0} /\ DOMAIN s = 1..m
      /\ \A i \in 1..m : s[i].from \in Nodes /\ Carries(s[i].from, s[i].edge) /\ fee(i) \in Int
      /\ s[1].from = source /\ far(m) = dest
      /\ \A i \in 1..(m - 1) : far(i) = s[i + 1].from
  BY <1>1, PathShape, ZenonT(40) DEF IsRoute
<1>3. PICK c \in [0..m -> Int] :
        /\ c[0] = 0
        /\ \A i \in 1..m : c[i] = c[i - 1] + fee(i)
        /\ Cost(s) = c[m]
  BY <1>2, CostSteps, ZenonT(40)
<1> DEFINE T == {i \in 0..m : i > 0 => far(i) \in reached /\ dist[far(i)] <= c[i]}
<1>4. \A i \in 1..m : s[i].from \in reached =>
        far(i) \in reached /\ dist[far(i)] <= dist[s[i].from] + fee(i)
  BY <1>2, OverRelaxed, ZenonT(40) DEF Relaxed, Carries
<1> HIDE DEF m, far, fee
<1>5. 0 \in T
  BY <1>2
<1>6. ASSUME NEW i \in 0..(m - 1), i \in T
      PROVE  i + 1 \in T
  <2>1. i + 1 \in 1..m /\ (i + 1) - 1 = i /\ i \in 0..m
    BY <1>2
  <2>2. s[i + 1].from \in reached /\ dist[s[i + 1].from] <= c[i]
    <3>1. CASE i = 0
      <4>1. source \in reached /\ dist[source] = 0
        BY <1>1, ZenonT(40) DEF QueueInv
      <4>2. s[i + 1].from = source /\ c[i] = 0
        BY <1>2, <1>3, <3>1
      <4> QED
        BY <4>1, <4>2
    <3>2. CASE i # 0
      <4>1. i \in 1..(m - 1) /\ i > 0
        BY <1>2, <3>2
      <4> QED
        BY <1>2, <1>6, <4>1, ZenonT(40)
    <3> QED
      BY <3>1, <3>2, ZenonT(40)
  <2>3. far(i + 1) \in reached /\ dist[far(i + 1)] <= dist[s[i + 1].from] + fee(i + 1)
    BY <1>4, <2>1, <2>2, ZenonT(40)
  <2>4. c[i + 1] = c[i] + fee(i + 1)
    BY <1>3, <2>1
  <2>5. /\ dist[far(i + 1)] \in Int /\ dist[s[i + 1].from] \in Int
        /\ c[i] \in Int /\ fee(i + 1) \in Int
    BY <1>1, <1>2, <1>3, <2>1, <2>2, <2>3, ZenonT(40)
  <2>6. dist[far(i + 1)] <= c[i + 1]
    BY <2>2, <2>3, <2>4, <2>5, Adding, ZenonT(40)
  <2>7. i + 1 \in 0..m
    BY <1>2, <2>1
  <2> QED
    BY <2>3, <2>6, <2>7, ZenonT(40)
<1>7. 0..m \subseteq T
  <2> HIDE DEF T
  <2> QED
    BY <1>2, <1>5, <1>6, IntervalInduction, ZenonT(40)
<1>8. m \in T /\ m > 0
  BY <1>2, <1>7
<1> QED
  BY <1>2, <1>3, <1>8, ZenonT(40)

\* The route answered with costs the distance of the destination.
LEMMA RouteCost ==
  ASSUME IInv, response.found
  PROVE  Cost(route) = dist[dest]
<1> DEFINE m == Len(route)
           far(i) == Edge(route[i].from, route[i].edge).to
           fee(i) == Edge(route[i].from, route[i].edge).fee
<1>1. /\ TypeOK /\ QueueInv
      /\ m \in Nat \ {0} /\ DOMAIN route = 1..m
      /\ \A i \in 1..(m - 1) : far(i) = route[i + 1].from
      /\ route[1].from = source /\ far(m) = dest
  BY FoundFacts, ZenonT(40)
<1>2. \A i \in 1..m : fee(i) \in Int /\ far(i) \in reached /\ route[i].from \in reached
  BY <1>1, HopFacts, ZenonT(40)
<1>3. \A i \in 1..m : dist[far(i)] = dist[route[i].from] + fee(i)
  <2> SUFFICES ASSUME NEW i \in 1..m
               PROVE  dist[far(i)] = dist[route[i].from] + fee(i)
    BY ZenonT(40)
  <2>1. PICK n, k : n = route[i].from /\ k = route[i].edge
    BY ZenonT(40)
  <2>2. ReachedOver(Edge(n, k).to, n, k)
    BY <1>1, <2>1, HopFacts, ZenonT(40)
  <2>3. dist[Edge(n, k).to] = dist[n] + Edge(n, k).fee
    BY <2>2, ZenonT(40) DEF ReachedOver
  <2> QED
    BY <2>1, <2>3, ZenonT(40)
<1>4. PICK c \in [0..m -> Int] :
        /\ c[0] = 0
        /\ \A i \in 1..m : c[i] = c[i - 1] + fee(i)
        /\ Cost(route) = c[m]
  BY <1>1, <1>2, CostSteps, ZenonT(40)
<1> DEFINE T == {i \in 0..m : i > 0 => dist[far(i)] = c[i]}
<1> HIDE DEF m, far, fee
<1>5. 0 \in T
  BY <1>1, FirstIndex, ZenonT(40)
<1>6. ASSUME NEW i \in 0..(m - 1), i \in T
      PROVE  i + 1 \in T
  <2>1. i + 1 \in 1..m /\ (i + 1) - 1 = i /\ i \in 0..m
    BY <1>1
  <2>2. dist[route[i + 1].from] = c[i]
    <3>1. CASE i = 0
      <4>1. i + 1 = 1
        BY <3>1
      <4>2. dist[route[1].from] = 0
        BY <1>1, ZenonT(40) DEF QueueInv
      <4>3. c[i] = 0
        BY <1>4, <3>1, ZenonT(40)
      <4> QED
        BY <4>1, <4>2, <4>3, ZenonT(40)
    <3>2. CASE i # 0
      <4>1. i \in 1..(m - 1) /\ i > 0
        BY <1>1, <3>2
      <4> QED
        BY <1>1, <1>6, <4>1, ZenonT(40)
    <3> QED
      BY <3>1, <3>2, ZenonT(40)
  <2>3. c[i + 1] = c[i] + fee(i + 1) /\ dist[far(i + 1)] = dist[route[i + 1].from] + fee(i + 1)
    BY <1>3, <1>4, <2>1, ZenonT(40)
  <2>4. i + 1 \in 0..m
    BY <1>1, <2>1
  <2> QED
    BY <2>2, <2>3, <2>4, ZenonT(40)
<1>7. 0..m \subseteq T
  <2> HIDE DEF T
  <2> QED
    BY <1>1, <1>5, <1>6, IntervalInduction, ZenonT(40)
<1>8. m \in T /\ m > 0
  BY <1>1, <1>7
<1> QED
  BY <1>1, <1>4, <1>8, ZenonT(40)

\* The route answered with is a simple path from the source to the destination:
\* the ranks of its nodes climb.
LEMMA RouteIsPath ==
  ASSUME IInv, response.found
  PROVE  route \in Routes
<1> DEFINE m == Len(route)
<1>1. /\ RankInv /\ IsGraph(graph) /\ TypeOK /\ dest \in reached
      /\ m \in Nat \ {0} /\ DOMAIN route = 1..m
      /\ route \in Seq([from : Nodes, edge : Nat])
      /\ \A i \in 1..(m - 1) : Edge(route[i].from, route[i].edge).to = route[i + 1].from
      /\ route[1].from = source
      /\ Edge(route[m].from, route[m].edge).to = dest
  BY FoundFacts, ZenonT(40)
<1>2. dest \in Nodes /\ Rebuilding
  BY <1>1, ZenonT(40) DEF TypeOK, Rebuilding
<1>3. PICK ord \in [Nodes -> Nat] : Ranked(ord)
  BY <1>1, ZenonT(40) DEF RankInv
<1> HIDE DEF m
<1>4. \A i \in 1..m : route[i].from \in Nodes /\ route[i].edge \in Nat
                      /\ route[i] = [from |-> route[i].from, edge |-> route[i].edge]
                      /\ Carries(route[i].from, route[i].edge)
  BY <1>1, HopFacts, ZenonT(40)
<1>5. /\ \A i \in 1..m : ord[route[i].from] < ord[dest] /\ ord[route[i].from] \in Nat
      /\ \A i, j \in 1..m : i < j => ord[route[i].from] < ord[route[j].from]
      /\ ord[dest] \in Nat
  BY <1>1, <1>2, <1>3, <1>4, ZenonT(40) DEF Ranked
<1>6. \A i \in 1..m : route[i].from # dest
  BY <1>5
<1>7. \A i, j \in 1..m : route[i].from = route[j].from => i = j
  <2> SUFFICES ASSUME NEW i \in 1..m, NEW j \in 1..m, route[i].from = route[j].from, i # j
               PROVE  FALSE
    BY ZenonT(40)
  <2>1. m \in Nat
    BY <1>1
  <2>2. i < j \/ j < i
    BY <2>1, Positions, ZenonT(40)
  <2> QED
    BY <1>5, <2>2
<1>8. m <= Cardinality(Nodes) - 1 /\ Cardinality(Nodes) \in Nat
  <2>1. IsFiniteSet(Nodes) /\ Cardinality(Nodes) \in Nat
    BY <1>1, NodesFinite, ZenonT(40)
  <2>2. IsFiniteSet(Nodes \ {dest}) /\ Cardinality(Nodes \ {dest}) = Cardinality(Nodes) - 1
    BY <1>2, <2>1, FS_RemoveElement, ZenonT(40)
  <2>3. PICK f : f = [i \in 1..m |-> route[i].from]
    BY ZenonT(40)
  <2>4. f \in [1..m -> Nodes \ {dest}]
    BY <1>4, <1>6, <2>3, ZenonT(40)
  <2>5. \A i, j \in 1..m : f[i] = f[j] => i = j
    BY <1>7, <2>3, ZenonT(40)
  <2>6. f \in Injection(1..m, Nodes \ {dest})
    BY <2>4, <2>5, ZenonT(40) DEF Injection, IsInjective
  <2>7. Cardinality(1..m) <= Cardinality(Nodes \ {dest})
    BY <2>2, <2>6, FS_Injection, ZenonT(40)
  <2>8. Cardinality(1..m) = m
    <3>1. m \in Nat /\ 1 \in Int /\ m \in Int
      BY <1>1
    <3>2. Cardinality(1..m) = IF 1 > m THEN 0 ELSE m - 1 + 1
      BY <3>1, FS_Interval, ZenonT(40)
    <3> QED
      BY <3>1, <3>2
  <2> QED
    BY <2>1, <2>2, <2>7, <2>8, ZenonT(40)
<1>9. ASSUME NEW i \in 1..m
      PROVE  route[i] \in LiquidHops
  <2>1. PICK n \in Nodes : \E k \in DOMAIN graph.edges[n] :
          route[i] = [from |-> n, edge |-> k] /\ Edge(n, k).liquidity >= request.amount
    BY <1>4, ZenonT(40) DEF Carries
  <2>2. PICK S : S = {[from |-> n, edge |-> j] :
            j \in {j \in DOMAIN graph.edges[n] : Edge(n, j).liquidity >= request.amount}}
    BY ZenonT(40)
  <2>3. route[i] \in S
    BY <2>1, <2>2, ZenonT(40)
  <2>4. S \in {{[from |-> a, edge |-> k] :
                   k \in {k \in DOMAIN graph.edges[a] : Edge(a, k).liquidity >= request.amount}}
                  : a \in Nodes}
    BY <2>2, ZenonT(40)
  <2> QED
    BY <2>3, <2>4, ZenonT(40) DEF LiquidHops
<1>10. route \in [1..m -> LiquidHops]
  <2>1. PICK H : H = [from : Nodes, edge : Nat]
    BY ZenonT(40)
  <2>2. route \in Seq(H)
    BY <1>1, <2>1, ZenonT(40)
  <2>3. route = [i \in 1..m |-> route[i]]
    BY <1>1, <2>2
  <2> QED
    BY <1>9, <2>3
<1>11. route \in UNION {[1..n -> LiquidHops] : n \in 1..(Cardinality(Nodes) - 1)}
  <2>1. m \in 1..(Cardinality(Nodes) - 1)
    BY <1>1, <1>8, LengthRange, ZenonT(40)
  <2> QED
    BY <1>10, <2>1, ZenonT(40)
<1>12. IsRoute(route)
  BY <1>1, <1>7, ZenonT(40) DEF IsRoute, m
<1> QED
  BY <1>11, <1>12, ZenonT(40) DEF Routes

\* The answer's hops start at the source, end at the destination and keep the
\* asset.
LEMMA HopsKeepTheAsset ==
  ASSUME IInv, response.found
  PROVE  /\ response.hops[1].from = <<request.source, request.asset>>
         /\ response.hops[Len(route)].to = <<request.dest, request.asset>>
         /\ \A i \in DOMAIN response.hops : response.hops[i].to[2] = request.asset
<1>1. /\ Started /\ GraphInv /\ QueueInv
      /\ Len(route) \in Nat \ {0} /\ DOMAIN route = 1..Len(route)
      /\ route[1].from = source
      /\ Edge(route[Len(route)].from, route[Len(route)].edge).to = dest
  BY FoundFacts, ZenonT(40)
<1>2. /\ DOMAIN response.hops = DOMAIN route
      /\ \A i \in DOMAIN route : /\ response.hops[i].from = graph.nodes[route[i].from]
                                 /\ response.hops[i].to = graph.nodes[Edge(route[i].from, route[i].edge).to]
  BY AnswerHops, ZenonT(40)
<1>3. \A i \in DOMAIN route : Edge(route[i].from, route[i].edge).to \in reached
  BY HopFacts, ZenonT(40)
<1>4. 1 \in DOMAIN route /\ Len(route) \in DOMAIN route
  BY <1>1, FirstAndLast, ZenonT(40)
<1>5. response.hops[1].from = <<request.source, request.asset>>
  <2>1. graph.nodes[source] = <<request.source, request.asset>>
    BY <1>1, ZenonT(40) DEF GraphInv
  <2> QED
    BY <1>1, <1>2, <1>4, <2>1, ZenonT(40)
<1>6. response.hops[Len(route)].to = <<request.dest, request.asset>>
  <2>1. graph.nodes[dest] = <<request.dest, request.asset>>
    BY <1>1, ZenonT(40) DEF GraphInv
  <2> QED
    BY <1>1, <1>2, <1>4, <2>1, ZenonT(40)
<1>7. \A i \in DOMAIN response.hops : response.hops[i].to[2] = request.asset
  <2>1. \A n \in reached : graph.nodes[n][2] = request.asset
    BY <1>1, ZenonT(40) DEF QueueInv
  <2> SUFFICES ASSUME NEW i \in DOMAIN response.hops
               PROVE  response.hops[i].to[2] = request.asset
    BY ZenonT(40)
  <2>2. PICK n \in reached : response.hops[i].to = graph.nodes[n]
    BY <1>2, <1>3, ZenonT(40)
  <2> QED
    BY <2>1, <2>2, ZenonT(40)
<1> QED
  BY <1>5, <1>6, <1>7, ZenonT(40)

\* FindRoute is right for every snapshot and every request: it answers with a
\* route exactly when some path can carry the amount, and no path is cheaper.
THEOREM AlwaysCheapestFound == Spec => []CheapestFound
<1>1. ASSUME IInv
      PROVE  CheapestFound
  <2>1. response.code # "INTERNAL"
    <3>1. CASE Started
      <4>1. response.code = "OK" \/ response = NoAnswer
        BY <1>1, <3>1, ZenonT(40) DEF IInv, Started, AnswerInv
      <4> QED
        BY <4>1 DEF NoAnswer, Answer
    <3>2. CASE ~Started
      BY <1>1, <3>2 DEF IInv, Blank
    <3> QED
      BY <3>1, <3>2, ZenonT(40)
  <2>2. ASSUME response.code = "OK"
        PROVE  Started /\ Over /\ (response.found <=> dest \in reached)
    BY <1>1, <2>2, ZenonT(40) DEF IInv, Started, AnswerInv
  <2>3. ASSUME response.code = "OK"
        PROVE  response.found <=> Routes # {}
    <3>1. ASSUME response.found
          PROVE  Routes # {}
      BY <1>1, <3>1, RouteIsPath
    <3>2. ASSUME NEW s \in Routes
          PROVE  response.found
      BY <1>1, <2>2, <2>3, NoneCheaper, ZenonT(40)
    <3> QED
      <4>1. response.found => Routes # {}
        BY <3>1
      <4>2. Routes # {} => response.found
        BY <3>2
      <4> QED
        BY <4>1, <4>2, ZenonT(40)
  <2>4. ASSUME response.code = "OK", response.found
        PROVE  /\ route \in Routes
               /\ response.fee = Cost(route)
               /\ \A s \in Routes : response.fee <= Cost(s)
               /\ response.hops[1].from = <<request.source, request.asset>>
               /\ response.hops[Len(route)].to = <<request.dest, request.asset>>
               /\ \A i \in DOMAIN response.hops : response.hops[i].to[2] = request.asset
    <3>1. response.fee = dist[dest]
      BY <1>1, <2>4, FoundFacts, ZenonT(40)
    <3>2. \A s \in Routes : dist[dest] <= Cost(s)
      BY <1>1, <2>2, <2>4, NoneCheaper, ZenonT(40)
    <3> QED
      BY <1>1, <2>4, <3>1, <3>2, RouteCost, RouteIsPath, HopsKeepTheAsset, ZenonT(40)
  <2> QED
    BY <2>1, <2>3, <2>4, ZenonT(40) DEF CheapestFound
<1> QED
  BY <1>1, AlwaysIInv, PTL

=============================================================================
