CONSTANTS
  Programs = {"signal"}
  Versions = {"sem"}
  NUM_THREADS = 1
  NUM_ITEMS = 1
  Customer = {1}
  num_chairs = 1
  NUM_PRODUCERS = 1
  PIPE_BUF = 1
  Waiting_thread = {1}
  Worker_thread = 1
  max_elements = 1
  vector_a <- PowersOfTwo
  vector_b <- PowersOfTwo
  num_threads = 3
  MaxSpurious = 1
SPECIFICATION FairSpec
PROPERTY MainGoesOn
