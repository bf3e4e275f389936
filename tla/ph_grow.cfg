SPECIFICATION FairSpec
CONSTANTS
  t1 = t1
  t2 = t2
  t3 = t3
  Threads = {t1, t2, t3}
  hash_thread_id <- hashes
  InitialSize = 2
  MaxProducers = 4
  MaxUpsets = 1
  invalid_thread_id = empty
  invalid_thread_id2 = reusable
INVARIANTS OwnProducer RoomLeft
PROPERTY EveryCallReturns
CHECK_DEADLOCK FALSE
