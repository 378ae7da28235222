---------------------------- MODULE NetworkSimulator ----------------------------
(***************************************************************************)
(* The simulated bridge network of the routing service: the topologies     *)
(* generateTopology can draw, and the graph snapshot() builds from one.    *)
(* The random draws are a hash of the seed, so any outcome within their    *)
(* ranges is some seed's; what a bridge costs and holds at a tick is any   *)
(* of Metrics.  Latency and reliability play no part in routing.           *)
(***************************************************************************)
EXTENDS Naturals, Sequences, Functions

CONSTANTS
  NumChains,          \* kChains, by position
  NumAssets,          \* kAssets, by position
  MaxBridgesPerPair,  \* kMaxBridgesPerPair
  Metrics             \* [fee, liquidity] of a bridge at a tick, after the clamp

SimChains == 1..NumChains
SimAssets == 1..NumAssets

\* Ordered pairs of different chains, once per asset.
Pairs == {p \in SimAssets \X SimChains \X SimChains : p[2] # p[3]}

\* generateTopology, for some of the pairs: a pair that is left out has no
\* bridge, one that is included has up to the most.
Topologies(pairs) == [pairs -> 0..MaxBridgesPerPair]

HasBridge(topology, b) == b[1] \in DOMAIN topology /\ b[2] <= topology[b[1]]

\* The nodes in the order snapshot() adds them: asset outer, chain inner.
SnapshotNodes ==
  [i \in 1..(NumAssets * NumChains) |->
     <<((i - 1) % NumChains) + 1, ((i - 1) \div NumChains) + 1>>]

NodeIndex(chain, asset) == (asset - 1) * NumChains + chain

\* The bridges there can be, in the order of generateTopology's loops: asset,
\* source chain, target chain, bridge index.
Slots ==
  [n \in 1..(NumAssets * NumChains * NumChains * MaxBridgesPerPair) |->
     LET m == n - 1
         pair == m \div MaxBridgesPerPair
     IN <<<<(pair \div (NumChains * NumChains)) + 1,
            ((pair \div NumChains) % NumChains) + 1,
            (pair % NumChains) + 1>>, (m % MaxBridgesPerPair) + 1>>]

Bridges(topology) == {b \in Range(Slots) : HasBridge(topology, b)}

\* snapshot(): one edge per bridge, from and to a node of the bridge's asset.
Snapshot(topology, metrics) ==
  [nodes |-> SnapshotNodes,
   edges |-> [i \in DOMAIN SnapshotNodes |->
     LET leaves(b) == NodeIndex(b[1][2], b[1][1]) = i /\ HasBridge(topology, b)
         out == SelectSeq(Slots, leaves)
     IN [k \in DOMAIN out |->
           [to |-> NodeIndex(out[k][1][3], out[k][1][1]), bridge |-> out[k][2],
            fee |-> metrics[out[k]].fee, liquidity |-> metrics[out[k]].liquidity]]]]

=============================================================================
