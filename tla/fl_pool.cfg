SPECIFICATION FairFLSpec
CONSTANTS
  Callers = {t1, t2}
  initialBlockPoolSize = 3
  SHOULD_BE_ON_FREELIST = 8
  Null = Null
INVARIANTS OneOwner NothingLost
PROPERTY SomeCallReturns
