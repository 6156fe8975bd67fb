SPECIFICATION CallersSpec
CONSTRAINT BoundedCounters
CONSTANTS
  a1 = a1  c1 = c1  c2 = c2  p1 = p1  p2 = p2  u1 = u1
  Unchecked = Unchecked  NoMember = NoMember  NoProfile = NoProfile  NoPlan = NoPlan
  NoSource = NoSource  NoSnapshot = NoSnapshot  NoClaim = NoClaim
  Accelerators = {a1}
  PhysicalDevice <- MCDevice
  Agent <- MCAgent
  Boot <- MCBoot
  Capabilities = {c1, c2}
  EmptySets = {}
  Advertisable <- MCAdvertisable
  Policies = {p1, p2}
  DefaultPolicy = p1
  FreshnessBound = {p1}
  Workloads = {}
  Profiles = {}
  PlanIds = {}
  AbortReasons = {}
  Claims <- MCOthers
  MaxValue = 99
  HistoryLimit = 2
  MaxRecordedDecisions = 1
  PersistMode = "mutation"
  StoreMayFail = TRUE
  Verdict <- MCVerdict
  Portable <- MCPortable
  Users = {u1}
  Shapes <- MCShapes
INVARIANTS TypeOK MembersFollowAuthority
  AcceptedClaimsSawThePresent ScopedClaimsSawTheCapabilities
PROPERTIES RetiredForever EpochRises
