SPECIFICATION FairSpec
CONSTANTS
  r1 = r1
  r2 = r2
  h1 = h1
  Main = Main
  Routers = {r1, r2}
  Hosts = {h1}
  Links <- HostAndTwoRouters
  CounterSize = 16
  MaxRuns = 2
  MaxNews = 1
PROPERTY RunReturns
CHECK_DEADLOCK FALSE
