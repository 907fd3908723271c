CONSTANTS
  Programs = {"cv"}
  NUM_PHILOSOPHERS = 2
  MAX_NUM_MEALS = 1
  QUEUE_SIZE = 3
  NUM_ITEMS = 7
  MaxSpurious = 2
  Thread = {1, 2, 3}
  Nobody = 0
  num_iterations = 3
  SemIterations = 1
  CvSpurious = 1
SPECIFICATION Spec
PROPERTY CvIsBarrier
