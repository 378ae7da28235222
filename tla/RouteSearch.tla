------------------------------- MODULE RouteSearch ------------------------------
(***************************************************************************)
(* The routing service: FindRoute validates a request, searches the graph  *)
(* of its candidate edges, or a snapshot of the simulated network, and     *)
(* answers with the hops of a cheapest route.  findCheapestRoute is        *)
(* Dijkstra's algorithm with a priority queue whose stale entries are      *)
(* skipped when they are popped; one step is one pop, one edge looked at,  *)
(* or one hop of the route rebuilt.                                        *)
(*                                                                         *)
(* Requests share only the simulator, which the server never changes once  *)
(* it is constructed, so one request at a time is all there is to see.     *)
(* Fees and amounts are integers: rounding in double sums is left out.     *)
(***************************************************************************)
EXTENDS Integers, Sequences, FiniteSets

CONSTANTS
  Requests,  \* FindRouteRequest: [source, dest, asset, amount, candidates]
  Snapshots, \* graphs of the simulated network: [nodes, edges]
  Chains,    \* chains toChainId knows
  Assets,    \* assets toAssetId knows
  NoNode     \* std::nullopt, and "no node is being scanned"

EdgeRecords == [to : Nat, bridge : Nat, fee : Int, liquidity : Nat]

\* What Graph keeps: nodes by index, and the adjacency list of every node, its
\* edges within range (addEdge throws otherwise).
IsGraph(g) ==
  /\ g.nodes \in Seq(Chains \X Assets)
  /\ DOMAIN g.edges = DOMAIN g.nodes
  /\ \A n \in DOMAIN g.nodes :
       /\ g.edges[n] \in Seq(EdgeRecords)
       /\ \A k \in DOMAIN g.edges[n] : g.edges[n][k].to \in DOMAIN g.nodes

\* snapshot() adds a node for every chain and asset, its bridges join nodes of
\* one asset, and tickMetric clamps their fees at 0.
ASSUME SnapshotsAssumption ==
  \A g \in Snapshots :
    /\ IsGraph(g)
    /\ \A n \in Chains \X Assets : \E i \in DOMAIN g.nodes : g.nodes[i] = n
    /\ \A i \in DOMAIN g.nodes : \A k \in DOMAIN g.edges[i] :
         g.nodes[g.edges[i][k].to][2] = g.nodes[i][2] /\ g.edges[i][k].fee >= 0

\* Both callers, PostRoutes and PostPayments, refuse a source that is the
\* destination, and PostPayments gives every candidate the amount as liquidity.
ASSUME RequestsAssumption ==
  \A r \in Requests :
    /\ r.source # r.dest
    /\ r.amount \in Int
    /\ r.candidates \in Seq([bridge : Nat, fee : Int, liquidity : Nat])
    /\ \A k \in DOMAIN r.candidates : r.candidates[k].liquidity >= r.amount

\* std::nullopt is no index.
ASSUME NoNodeAssumption == NoNode \notin Nat \ {0}

VARIABLES
  network,  \* simulator_.snapshot()
  request,  \* the request
  pc,       \* "receive", "search", "rebuild" or "done"
  graph,    \* the graph searched
  source,   \* node index of the request's source
  dest,     \* node index of its destination
  reached,  \* nodes whose dist is below infinity
  dist,     \* dist, 0 for nodes not reached
  pred,     \* predNode and predEdge: [node, edge], edge an index of the node's edges
  queue,    \* entries <<d, u>> of the priority queue
  u,        \* the node whose edges are being looked at, or NoNode
  next,     \* the edge of u looked at next
  at,       \* where the route is rebuilt from
  route,    \* its edges so far: [from, edge]
  response  \* [code, found, fee, hops]

vars == <<network, request, pc, graph, source, dest, reached, dist, pred, queue,
          u, next, at, route, response>>
searchVars == <<reached, dist, pred, queue, u, next>>

Nodes == DOMAIN graph.nodes

Edge(n, k) == graph.edges[n][k]

EmptyGraph == [nodes |-> <<>>, edges |-> <<>>]

NoPred == [node |-> NoNode, edge |-> 0]

Answer(code, found, fee, hops) == [code |-> code, found |-> found, fee |-> fee, hops |-> hops]

NoAnswer == Answer("none", FALSE, 0, <<>>)

Init ==
  /\ network \in Snapshots
  /\ request \in Requests
  /\ pc = "receive"
  /\ graph = EmptyGraph
  /\ source = NoNode
  /\ dest = NoNode
  /\ reached = {}
  /\ dist = <<>>
  /\ pred = <<>>
  /\ queue = {}
  /\ u = NoNode
  /\ next = 1
  /\ at = NoNode
  /\ route = <<>>
  /\ response = NoAnswer

-----------------------------------------------------------------------------
\* toChainId and toAssetId know the enum's values, and amount > 0.
ValidRequest(r) ==
  /\ r.source \in Chains
  /\ r.dest \in Chains
  /\ r.asset \in Assets
  /\ r.amount > 0

\* Mutant: the candidates become edges last first.
CandidateGraphBackwards(r) ==
  [nodes |-> <<<<r.source, r.asset>>, <<r.dest, r.asset>>>>,
   edges |-> <<[k \in DOMAIN r.candidates |->
                 LET c == r.candidates[Len(r.candidates) + 1 - k]
                 IN [to |-> 2, bridge |-> c.bridge, fee |-> c.fee, liquidity |-> c.liquidity]],
               <<>>>>]

\* buildGraphFromCandidates: two nodes and an edge per candidate.
CandidateGraph(r) ==
  [nodes |-> <<<<r.source, r.asset>>, <<r.dest, r.asset>>>>,
   edges |-> <<[k \in DOMAIN r.candidates |->
                 [to |-> 2, bridge |-> r.candidates[k].bridge,
                  fee |-> r.candidates[k].fee, liquidity |-> r.candidates[k].liquidity]],
               <<>>>>]

\* Graph::findNode.
FindNode(g, node) ==
  IF \E i \in DOMAIN g.nodes : g.nodes[i] = node
    THEN CHOOSE i \in DOMAIN g.nodes : g.nodes[i] = node
    ELSE NoNode

Respond(answer) == response' = answer /\ pc' = "done"

\* The search starts with the source alone in the queue.
StartSearch(g, s, d) ==
  /\ pc' = "search"
  /\ graph' = g
  /\ source' = s
  /\ dest' = d
  /\ reached' = {s}
  /\ dist' = [n \in DOMAIN g.nodes |-> 0]
  /\ pred' = [n \in DOMAIN g.nodes |-> NoPred]
  /\ queue' = {<<0, s>>}
  /\ UNCHANGED <<u, next, response>>

\* FindRoute up to the call of findCheapestRoute.
FindRoute ==
  /\ pc = "receive"
  /\ LET g == IF request.candidates = <<>> THEN network ELSE CandidateGraph(request)
         s == FindNode(g, <<request.source, request.asset>>)
         d == FindNode(g, <<request.dest, request.asset>>)
     IN CASE ~ValidRequest(request) ->
               /\ Respond(Answer("INVALID_ARGUMENT", FALSE, 0, <<>>))
               /\ UNCHANGED <<graph, source, dest, searchVars>>
          [] ValidRequest(request) /\ NoNode \in {s, d} ->
               /\ Respond(Answer("INTERNAL", FALSE, 0, <<>>))
               /\ UNCHANGED <<graph, source, dest, searchVars>>
          [] OTHER -> StartSearch(g, s, d)
  /\ UNCHANGED <<network, request, at, route>>

-----------------------------------------------------------------------------
\* std::greater on (d, u): the least distance, then the least node.
Least(e) == \A f \in queue : e[1] < f[1] \/ (e[1] = f[1] /\ e[2] <= f[2])

\* Mutant: std::less, the default, pops the largest entry.
PopGreatest ==
  /\ pc = "search"
  /\ u = NoNode
  /\ \E e \in queue :
       /\ \A f \in queue : e[1] > f[1] \/ (e[1] = f[1] /\ e[2] >= f[2])
       /\ queue' = queue \ {e}
       /\ u' = IF e[1] > dist[e[2]] THEN NoNode ELSE e[2]
  /\ next' = 1
  /\ UNCHANGED <<network, request, pc, graph, source, dest, reached, dist, pred, at, route, response>>

\* Mutant: an entry that is up to date is skipped as well.
PopSkipsEqual ==
  /\ pc = "search"
  /\ u = NoNode
  /\ \E e \in queue :
       /\ Least(e)
       /\ queue' = queue \ {e}
       /\ u' = IF e[1] >= dist[e[2]] THEN NoNode ELSE e[2]
  /\ next' = 1
  /\ UNCHANGED <<network, request, pc, graph, source, dest, reached, dist, pred, at, route, response>>

\* Mutant: top() without pop().
PopKeeps ==
  /\ pc = "search"
  /\ u = NoNode
  /\ \E e \in queue :
       /\ Least(e)
       /\ u' = IF e[1] > dist[e[2]] THEN NoNode ELSE e[2]
  /\ next' = 1
  /\ UNCHANGED <<network, request, pc, graph, source, dest, reached, dist, pred, queue, at, route, response>>

\* The least entry is popped; one that is stale is skipped.
Pop ==
  /\ pc = "search"
  /\ u = NoNode
  /\ \E e \in queue :
       /\ Least(e)
       /\ queue' = queue \ {e}
       /\ u' = IF e[1] > dist[e[2]] THEN NoNode ELSE e[2]
  /\ next' = 1
  /\ UNCHANGED <<network, request, pc, graph, source, dest, reached, dist, pred, at, route, response>>

\* Mutant: the liquidity is not looked at.
ImprovesIlliquid(e) == e.to \notin reached \/ dist[u] + e.fee < dist[e.to]

\* Enough liquidity, and a shorter distance than the one known.
Improves(e) ==
  /\ e.liquidity >= request.amount
  /\ e.to \notin reached \/ dist[u] + e.fee < dist[e.to]

\* One turn of the loop over edgesFrom(u).
LookAtEdge ==
  /\ pc = "search"
  /\ u # NoNode
  /\ next <= Len(graph.edges[u])
  /\ next' = next + 1
  /\ LET e == Edge(u, next)
     IN IF Improves(e)
          THEN /\ reached' = reached \cup {e.to}
               /\ dist' = [dist EXCEPT ![e.to] = dist[u] + e.fee]
               /\ pred' = [pred EXCEPT ![e.to] = [node |-> u, edge |-> next]]
               /\ queue' = queue \cup {<<dist[u] + e.fee, e.to>>}
          ELSE UNCHANGED <<reached, dist, pred, queue>>
  /\ UNCHANGED <<network, request, pc, graph, source, dest, u, at, route, response>>

\* All edges of u have been looked at.
LeaveNode ==
  /\ pc = "search"
  /\ u # NoNode
  /\ next > Len(graph.edges[u])
  /\ u' = NoNode
  /\ UNCHANGED <<network, request, pc, graph, source, dest, reached, dist, pred, queue,
                 next, at, route, response>>

\* Mutant: the distance of the destination is not looked at.
EndSearchUnreached ==
  /\ pc = "search"
  /\ u = NoNode
  /\ queue = {}
  /\ pc' = "rebuild"
  /\ at' = dest
  /\ UNCHANGED <<network, request, graph, source, dest, searchVars, route, response>>

\* The queue is empty: no route, or the route is read off backwards.
EndSearch ==
  /\ pc = "search"
  /\ u = NoNode
  /\ queue = {}
  /\ IF dest \in reached
       THEN pc' = "rebuild" /\ at' = dest /\ UNCHANGED response
       ELSE Respond(Answer("OK", FALSE, 0, <<>>)) /\ UNCHANGED at
  /\ UNCHANGED <<network, request, graph, source, dest, searchVars, route>>

\* while (current != source).
RebuildHop ==
  /\ pc = "rebuild"
  /\ at # source
  /\ route' = <<[from |-> pred[at].node, edge |-> pred[at].edge]>> \o route
  /\ at' = pred[at].node
  /\ UNCHANGED <<network, request, pc, graph, source, dest, searchVars, response>>

\* The hops of the answer walk the route from the source.
AnswerRoute ==
  /\ pc = "rebuild"
  /\ at = source
  /\ Respond(Answer("OK", TRUE, dist[dest],
       [i \in DOMAIN route |->
          [from |-> graph.nodes[route[i].from],
           to |-> graph.nodes[Edge(route[i].from, route[i].edge).to],
           bridge |-> Edge(route[i].from, route[i].edge).bridge,
           fee |-> Edge(route[i].from, route[i].edge).fee,
           liquidity |-> Edge(route[i].from, route[i].edge).liquidity]]))
  /\ UNCHANGED <<network, request, graph, source, dest, searchVars, at, route>>

Next == FindRoute \/ Pop \/ LookAtEdge \/ LeaveNode \/ EndSearch \/ RebuildHop \/ AnswerRoute

Spec == Init /\ [][Next]_vars

\* The handler runs on a thread of the gRPC server until it returns.
FairSpec == Spec /\ WF_vars(Next)

-----------------------------------------------------------------------------
\* Every variable has its type; what the search keeps is about nodes of the
\* graph, and the route is rebuilt from edges the search has looked at.
TypeOK ==
  /\ IsGraph(network)
  /\ IsGraph(graph)
  /\ request \in Requests
  /\ pc \in {"receive", "search", "rebuild", "done"}
  /\ pc \in {"search", "rebuild"} => {source, dest} \subseteq Nodes
  /\ reached \subseteq Nodes
  /\ dist \in [Nodes -> Int]
  /\ pred \in [Nodes -> [node : Nodes \cup {NoNode}, edge : Nat]]
  /\ queue \subseteq Int \X reached
  /\ u \in reached \cup {NoNode}
  /\ next \in Nat \ {0}
  /\ pc = "rebuild" => at \in reached
  /\ \A i \in DOMAIN route : route[i].from \in reached
  /\ response.code \in {"none", "OK", "INVALID_ARGUMENT", "INTERNAL"}

\* The reference: every simple path of the graph from source to destination
\* over edges that hold the amount, and what it costs.
LiquidHops ==
  UNION {{[from |-> n, edge |-> k] :
            k \in {k \in DOMAIN graph.edges[n] : Edge(n, k).liquidity >= request.amount}}
           : n \in Nodes}

IsRoute(s) ==
  /\ s[1].from = source
  /\ Edge(s[Len(s)].from, s[Len(s)].edge).to = dest
  /\ \A i \in 1..(Len(s) - 1) : Edge(s[i].from, s[i].edge).to = s[i + 1].from
  /\ \A i, j \in DOMAIN s : s[i].from = s[j].from => i = j

Routes ==
  {s \in UNION {[1..n -> LiquidHops] : n \in 1..(Cardinality(Nodes) - 1)} : IsRoute(s)}

Cost(s) ==
  LET upTo[i \in 0..Len(s)] ==
        IF i = 0 THEN 0 ELSE upTo[i - 1] + Edge(s[i].from, s[i].edge).fee
  IN upTo[Len(s)]

\* FindRoute is right: it finds a route exactly when some path can carry the
\* amount, the route it answers with is such a path, hop by hop, its total fee
\* is the sum of the hops' fees, and no other path is cheaper.  A request that
\* passed the validation always has its nodes in the graph: the INTERNAL answer
\* "node not present in snapshot" is never given.
CheapestFound ==
  /\ response.code # "INTERNAL"
  /\ response.code = "OK" =>
       /\ response.found <=> Routes # {}
       /\ response.found =>
            /\ route \in Routes
            /\ response.fee = Cost(route)
            /\ \A s \in Routes : response.fee <= Cost(s)
            /\ response.hops[1].from = <<request.source, request.asset>>
            /\ response.hops[Len(route)].to = <<request.dest, request.asset>>
            /\ \A i \in DOMAIN response.hops : response.hops[i].to[2] = request.asset

\* PostPayments hands the quotes over in registration order "to keep the C++
\* tie-break deterministic": of candidates with equal fees the first one wins.
FirstCheapestWins ==
  response.found /\ request.candidates # <<>> =>
    \E k \in DOMAIN request.candidates :
      /\ response.hops[1].bridge = request.candidates[k].bridge
      /\ \A j \in DOMAIN request.candidates :
           request.candidates[k].fee <= request.candidates[j].fee
      /\ \A j \in 1..(k - 1) : request.candidates[k].fee < request.candidates[j].fee

\* When the search is over it has left no edge unrelaxed: an edge that holds
\* the amount and leaves a node that was reached cannot shorten anything.
EveryEdgeRelaxed ==
  pc = "rebuild" \/ response.code = "OK" =>
    \A n \in reached : \A k \in 1..Len(graph.edges[n]) :
      Edge(n, k).liquidity >= request.amount =>
        /\ Edge(n, k).to \in reached
        /\ dist[Edge(n, k).to] <= dist[n] + Edge(n, k).fee

\* What makes one pass over a node's edges enough: once its entry has been
\* popped, a node's distance and predecessor never change again.
SettledIsFinal ==
  [][\A n \in reached : <<dist[n], n>> \notin queue =>
       dist'[n] = dist[n] /\ pred'[n] = pred[n]]_<<dist, pred>>

\* The search ends and the loop that rebuilds the route reaches the source,
\* also through cycles of bridges that cost nothing.
Terminates == <>(pc = "done")

=============================================================================
