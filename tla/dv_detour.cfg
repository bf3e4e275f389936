SPECIFICATION FairSpec
CONSTANTS
  r1 = r1
  r2 = r2
  h1 = h1
  Routers = {r1, r2}
  Hosts = {h1}
  LinkCost <- DetourCosts
  CounterSize = 16
INVARIANTS NextHopIsCloser CounterCounts RestIsShortest
PROPERTY Converges
CHECK_DEADLOCK FALSE
