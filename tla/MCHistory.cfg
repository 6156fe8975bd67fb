SPECIFICATION SetupSpec
CONSTANTS
  a1 = a1  a2 = a2  c0 = c0  c1 = c1  c2 = c2  p1 = p1  p2 = p2
  w1 = w1  r1 = r1  r2 = r2  i1 = i1  i2 = i2
  Unchecked = Unchecked  NoMember = NoMember  NoProfile = NoProfile  NoPlan = NoPlan
  NoSource = NoSource  NoSnapshot = NoSnapshot
  Accelerators = {a1, a2}
  PhysicalDevice <- MCDevice
  Agent <- MCAgent
  Boot <- MCBoot
  Capabilities = {c1}
  EmptySets <- MCEmpty
  Advertisable <- MCAdvertisable
  Policies = {p1, p2}
  DefaultPolicy = p1
  FreshnessBound = {p1}
  Workloads = {w1}
  Profiles = {r1}
  PlanIds = {i1, i2}
  AbortReasons = {"readable"}
  Claims <- MCUnchecked
  MutationBound = 2
  MaxValue = 99
  HistoryLimit = 4
  MaxRecordedDecisions = 1
  PersistMode = "mutation"
  StoreMayFail = FALSE
  Verdict <- MCVerdict
  Portable <- MCPortable
INVARIANTS StoreReopens
