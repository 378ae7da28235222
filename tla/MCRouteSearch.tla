----------------------------- MODULE MCRouteSearch -----------------------------
(***************************************************************************)
(* The routing service over every simulated network of three chains with   *)
(* at most MaxBridges bridges of the first asset and one, free and between *)
(* the request's chains, of the second; and over candidate edges.          *)
(***************************************************************************)
EXTENDS RouteSearch, NetworkSimulator, FiniteSetsExt

CONSTANT MaxBridges

\* A bridge that holds the amount for 0, 1 or 3, or a free one that does not.
MCMetrics == [fee : {0, 1, 3}, liquidity : {5}] \cup [fee : {0}, liquidity : {4}]

Trap == <<2, 1, 3>>
FirstAsset == {p \in Pairs : p[1] = 1}

MCTopologies ==
  {[p \in Pairs |-> IF p \in FirstAsset THEN t[p] ELSE IF p = Trap THEN 1 ELSE 0] :
     t \in {t \in Topologies(FirstAsset) :
              MapThenSumSet(LAMBDA p : t[p], FirstAsset) <= MaxBridges}}

MCSnapshots ==
  UNION {{Snapshot(t, m) : m \in {f \in [Bridges(t) -> MCMetrics] :
                                    f[<<Trap, 1>>] = [fee |-> 0, liquidity |-> 5]}}
           : t \in MCTopologies}

\* The edges of a graph with the nodes they join, and the fee that labels them.
Links(g) ==
  UNION {{<<g.nodes[i], g.nodes[g.edges[i][k].to], g.edges[i][k].fee>> : k \in DOMAIN g.edges[i]}
           : i \in DOMAIN g.nodes}

\* snapshot() numbers its nodes by position and finds them by chain and asset:
\* with every bridge as its own label, the edges are exactly the bridges, each
\* between the nodes of its own chains and asset.
ASSUME SnapshotJoinsBridges ==
  \A t \in MCTopologies :
    Links(Snapshot(t, [b \in Bridges(t) |-> [fee |-> b, liquidity |-> 0]])) =
      {<<<<b[1][2], b[1][1]>>, <<b[1][3], b[1][1]>>, b>> : b \in Bridges(t)}

Request(s, d, a, amount, c) ==
  [source |-> s, dest |-> d, asset |-> a, amount |-> amount, candidates |-> c]

\* The handler of POST /payments gives every candidate the amount as liquidity.
Candidate(b, f) == [bridge |-> b, fee |-> f, liquidity |-> 5]

MCRequests ==
  {Request(1, 3, 1, 5, <<>>),
   Request(3, 2, 1, 5, <<>>),
   Request(3, 1, 2, 5, <<Candidate(1, 2), Candidate(2, -1), Candidate(3, -1)>>),
   Request(1, 3, 1, 0, <<>>)}

=============================================================================
