SPECIFICATION Spec
CONSTANTS
  r1 = r1
  r2 = r2
  h1 = h1
  Routers = {r1, r2}
  Hosts = {h1}
  Main = main
  Costs = {0, 1}
  MaxChanges = 3
PROPERTY UpdatesImprove
CHECK_DEADLOCK FALSE
