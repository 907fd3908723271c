CONSTANTS
  Programs = {"dining", "queue", "sem", "cv"}
  NUM_PHILOSOPHERS = 3
  MAX_NUM_MEALS = 4
  QUEUE_SIZE = 3
  NUM_ITEMS = 7
  MaxSpurious = 2
  Thread = {1, 2, 3}
  Nobody = 0
  num_iterations = 3
  SemIterations = 1
  CvSpurious = 2
SPECIFICATION FairSpec
INVARIANTS ThreadTypes ChopstickExclusion MealsBounded StatisticsAddUp
PROPERTIES ChopsticksReturned ImplementsFifo AllDelivered SemIsBarrier SemAllReturn CvUntilSpurious CvAllReturn
