CONSTANTS
  Programs = {"crew", "shop", "pipe", "signal", "dot", "cancel", "life"}
  Versions = {"v1", "v2", "cv", "sem", "loop"}
  NUM_THREADS = 3
  NUM_ITEMS = 3
  Customer = {1, 2, 3}
  num_chairs = 1
  NUM_PRODUCERS = 3
  PIPE_BUF = 2
  Waiting_thread = {1, 2, 3}
  Worker_thread = 3
  max_elements = 4
  vector_a <- PowersOfTwo
  vector_b <- PowersOfTwo
  num_threads = 3
  MaxSpurious = 2
SPECIFICATION FairSpec
INVARIANTS SyncTypes NoWorkLost HaircutsGiven SumComplete SumIsReference CancelledClean JoinsInOrder
PROPERTIES CrewGoesHome ShopCloses ConsumerFinishes SignalsArrive ThreadsEnd
