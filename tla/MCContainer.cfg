SPECIFICATION ContainerSpec
CONSTANTS
  idA = idA
  idB = idB
  idC = idC
  Id = {idA, idB, idC}
  ResolveSession = {s1, s2}
  None = None
  Proxy = Proxy
  Program <- MCProgram
  Parents <- MCParents
  ProxyParams <- MCProxyParams
  MaxCalls = 2
  MaxThrows = 1
  MinBound = 2
  MaxTemporary = 1
  MaxDepth = 21
SYMMETRY Sessions
INVARIANTS RightArguments OneInstance AcceptedResolves
CHECK_DEADLOCK FALSE
