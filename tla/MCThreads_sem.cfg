CONSTANTS
  Programs = {"sem"}
  NUM_PHILOSOPHERS = 2
  MAX_NUM_MEALS = 1
  QUEUE_SIZE = 3
  NUM_ITEMS = 7
  MaxSpurious = 2
  Thread = {1, 2, 3}
  Nobody = 0
  num_iterations = 3
  SemIterations = 2
  CvSpurious = 0
SPECIFICATION Spec
PROPERTY SemIsBarrier
