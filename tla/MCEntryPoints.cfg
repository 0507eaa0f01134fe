CONSTANTS
  Signal = {"SIGINT", "SIGTERM"}
  NormalExit = NormalExit
  ErrorExit = ErrorExit
  ForcedExit = ForcedExit
  Crash = Crash
  Code <- MCCode
  SignalExit <- MCSignalExit
  SignalForcedExit <- MCSignalForcedExit
  MaxOccurrences = 2
  None = None
  MaxTasks = 2
SPECIFICATION EntryFairSpec
INVARIANTS
  TasksAreDone
  SettledTellsTruth
  NoExitBeforeShutdown
  NormalExitIsExplained
PROPERTIES
  FirstCauseDecides
  EndedRunExits
  RequestIsKept
CHECK_DEADLOCK FALSE
