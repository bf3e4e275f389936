SPECIFICATION FairSpec
CONSTANTS
  Host = Host
  Main = Main
  Timers = {t1, t2, t3}
INVARIANTS RacesAreOutOfTurn OneTimeout SenderHasTimeout NoThreadLeft
PROPERTY StopReturns
CHECK_DEADLOCK FALSE
