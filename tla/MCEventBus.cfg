SPECIFICATION FairSpec
CONSTANTS
  e1 = e1
  e2 = e2
  guarded = guarded
  bare = bare
  other = other
  unlabelled = unlabelled
  apart = apart
  root = root
  feature = feature
  shared = shared
  remote = remote
  C1 = C1
  C2 = C2
  C3 = C3
  C4 = C4
  service = service
  orders = orders
  context = context
  label = label
  Event = {e1, e2}
  Subscriber = {guarded, bare, other, unlabelled, apart}
  Call <- MCCall
  Channel <- MCChannel
  Mod = {root, feature, shared, remote}
  Entry = root
  Requires <- MCRequires
  Components <- MCComponents
  ControllerLabels <- MCControllerLabels
  Methods <- MCMethods
  Required = {label}
  Filters = {"accepts", "ignores", "throws"}
  Service = {context}
  BoundIds = {}
  ContextIds = {context}
  Chains <- MCChains
  MaxNexts = 1
INVARIANTS AnnouncedIsProcessed
PROPERTIES PublishSettles
CHECK_DEADLOCK FALSE
