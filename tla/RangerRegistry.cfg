SPECIFICATION Spec
CONSTANTS
  Keys = {k1, k2}
  MaxBoot = 2
  Histories <- MCHistories
  Registries = {r1, r2}
  Chains <- MCChains
  NoChain <- MCNoChain
  BootIds = {"b1"}
  Contents = {x}
  MaxTime = 3
  MaxCheckpoints = 3
SYMMETRY Symmetry
INVARIANTS TypeOK ReopenVerifies BoundChainVerifies CustodyNeverForks LatestPresentable
PROPERTY StandingNeverRegained
CHECK_DEADLOCK FALSE
