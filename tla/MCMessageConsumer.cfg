SPECIFICATION FairSpec
CONSTANTS
  p1 = p1
  p2 = p2
  orders = orders
  each = each
  whole = whole
  label = label
  root = root
  feature = feature
  C1 = C1
  C2 = C2
  None = None
  Partition = {p1, p2}
  Topic <- MCTopic
  Batched = {whole}
  Dynamic <- MCDynamic
  Mod = {root, feature}
  Entry = root
  Requires <- MCRequires
  Components <- MCComponents
  ControllerLabels <- MCControllerLabels
  Required = {label}
  Methods <- MCMethods
  Messages = 2
  BatchSize = 2
  MaxFailures = 1
  MaxRebalances = 1
INVARIANTS NothingLost
PROPERTIES InterruptedIsCommitted StopIsKept FailureReported
CHECK_DEADLOCK FALSE
