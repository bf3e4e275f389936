SPECIFICATION FairSpec
CONSTANTS
  Consumers = {c1, c2}
  Blocks = {b1, b2, b3}
  BLOCK_SIZE = 2
  IndexSize = 8
  InitialIndexSize = 2
  Start = 7
  Bulks = {1, 3}
  Wanted = {2}
  MaxElements = 4
  NoBlock = NoBlock
  Uninit = Uninit
  Nothing = Nothing
CHECK_DEADLOCK FALSE
INVARIANTS NeverPastTail FindsItsBlock NoBlockLeaks
PROPERTIES ImplementsFIFO AllDequeued
