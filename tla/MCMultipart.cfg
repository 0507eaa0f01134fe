\* Four parts, two of them files that may fail; a limit or error event at any
\* moment.  The queue may be left stuck, so the system may stop.
CONSTANTS
  None = None
  Value = {1, 2, 3, 4}
  File = {1, 3}
  MayFail = {1, 3}
  MaxAborts = 2
  MayLeave = TRUE
SPECIFICATION FairSpec
INVARIANTS
  AssertionsHold
PROPERTIES
  KeepsStream
  CleanBodyIsRead
CHECK_DEADLOCK FALSE
