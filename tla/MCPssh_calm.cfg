CONSTANTS
  p1 = p1
  p2 = p2
  p3 = p3
  Shell = Shell
  Pid <- ThreePids
  MaxJobs = 2
  MaxTasks = 2
  MaxStops = 2
  Races <- Calm
SPECIFICATION FairSpec
INVARIANTS NoStaleJob StoppedIsShown TerminalOwned NoPhantomJob
PROPERTIES TerminalReturned PromptReturns
CHECK_DEADLOCK FALSE
