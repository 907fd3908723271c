CONSTANTS
  p1 = p1
  p2 = p2
  p3 = p3
  Shell = Shell
  Pid <- TwoPids
  MaxJobs = 2
  MaxTasks = 1
  MaxStops = 1
  Races <- OnlyFg
SPECIFICATION Spec
INVARIANT TerminalOwned
CHECK_DEADLOCK FALSE
