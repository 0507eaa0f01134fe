SPECIFICATION FairSpec
CONSTANTS
  plain = plain
  upload = upload
  context = context
  user = user
  tenant = tenant
  hidden = hidden
  label = label
  root = root
  feature = feature
  shared = shared
  C1 = C1
  C2 = C2
  C3 = C3
  service = service
  Call = {plain, upload, hidden}
  Target <- MCTarget
  Mod = {root, feature, shared}
  Entry = root
  Requires <- MCRequires
  Components <- MCComponents
  ControllerLabels <- MCControllerLabels
  Required = {label}
  Methods <- MCMethods
  Multipart = {upload}
  Service = {context, user, tenant}
  BoundIds = {}
  ContextIds = {context}
  Chains <- MCChains
  MaxNexts = 2
INVARIANTS NothingMissing AnswerTellsTruth QuietAfterStop
PROPERTIES StopSettles
CHECK_DEADLOCK FALSE
