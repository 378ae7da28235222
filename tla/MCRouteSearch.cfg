\* Every network of up to three bridges, candidate edges, and a refused request.
CONSTANTS
  NoNode = 0
  NumChains = 3
  NumAssets = 2
  MaxBridgesPerPair = 2
  MaxBridges = 3
  Metrics <- MCMetrics
  Requests <- MCRequests
  Snapshots <- MCSnapshots
  Chains <- SimChains
  Assets <- SimAssets
SPECIFICATION FairSpec
INVARIANTS
  TypeOK
  EveryEdgeRelaxed
  CheapestFound
  FirstCheapestWins
PROPERTIES
  SettledIsFinal
  Terminates
CHECK_DEADLOCK FALSE
