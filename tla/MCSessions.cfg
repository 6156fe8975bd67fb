SPECIFICATION PlaneSpec
CONSTANTS
  a1 = a1  a2 = a2  k1 = k1  p1 = p1  w1 = w1  r1 = r1  c1 = c1  c2 = c2
  Unchecked = Unchecked  NoMember = NoMember  NoProfile = NoProfile  NoPlan = NoPlan
  NoSource = NoSource  NoSnapshot = NoSnapshot
  NoSession = NoSession  NoTarget = NoTarget  Inspector = Inspector
  Accelerators = {a1, a2}
  PhysicalDevice <- OneDevice
  Agent <- MCAgent
  Boot <- TwoBoots
  Capabilities = {k1}
  EmptySets = {}
  Advertisable <- MCAdvertisable
  Policies = {p1}
  DefaultPolicy = p1
  FreshnessBound = {p1}
  Workloads = {w1}
  Profiles = {r1}
  PlanIds = {}
  AbortReasons = {}
  Claims <- NoClaims
  MaxValue = 1
  HistoryLimit = 2
  MaxRecordedDecisions = 1
  PersistMode = "mutation"
  StoreMayFail = FALSE
  Verdict <- MCVerdict
  Portable <- MCPortable
  Connections = {c1, c2}
  Identities <- TwoBootIdentities
  RequestedStates = {"Active", "Degraded", "Observed"}
  RequestedSources = {NoSource}
  StrictPolicies = {p1}
  RealEvidence = {a1}
INVARIANTS HandlersKeepTheirSession WorkersHaveSessions OneLiveIncarnation
