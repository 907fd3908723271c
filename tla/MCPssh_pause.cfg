CONSTANTS
  p1 = p1
  p2 = p2
  p3 = p3
  Shell = Shell
  Pid <- TwoPids
  MaxJobs = 2
  MaxTasks = 1
  MaxStops = 0
  Races <- OnlyPause
SPECIFICATION FairSpec
PROPERTY PromptReturns
CHECK_DEADLOCK FALSE
