CONSTANTS
  p1 = p1
  p2 = p2
  p3 = p3
  Shell = Shell
  Pid <- ThreePids
  MaxJobs = 2
  MaxTasks = 2
  MaxStops = 1
  Races <- Every
SPECIFICATION Spec
SYMMETRY Symmetry
INVARIANTS TypeOK OneJobPerProcess
PROPERTY ReapedBeforeForgotten
CHECK_DEADLOCK FALSE
