\* Two clients, room for two children; requests may be cut in the URI.
CONSTANTS
  c1 = c1
  c2 = c2
  NoClient = NoClient
  Clients = {c1, c2}
  root = root
  k1 = k1
  k2 = k2
  Root = root
  Processes = {root, k1, k2}
  Requests <- MCRequests
  Path <- MCPath
  TooLong <- MCTooLong
  Cuts = {4}
  Leavers = {c2}
  Samples <- MCSamples
SPECIFICATION HttpFairSpec
INVARIANTS ParserDecides OneStatusLine OutputFits RootSurvives
PROPERTY Answered
CHECK_DEADLOCK FALSE
