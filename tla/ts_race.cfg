SPECIFICATION Spec
CONSTANTS
  Host = Host
  Main = Main
  Timers = {t1, t2, t3}
INVARIANT NoRaces
CHECK_DEADLOCK FALSE
