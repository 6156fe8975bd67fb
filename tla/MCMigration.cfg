SPECIFICATION SetupSpec
CONSTANTS
  a1 = a1  a2 = a2  c0 = c0  c1 = c1  c2 = c2  p1 = p1  p2 = p2
  w1 = w1  r1 = r1  r2 = r2  i1 = i1  i2 = i2
  Unchecked = Unchecked  NoMember = NoMember  NoProfile = NoProfile  NoPlan = NoPlan
  NoSource = NoSource  NoSnapshot = NoSnapshot
  Accelerators = {a1, a2}
  PhysicalDevice <- MCDevice
  Agent <- MCAgent
  Boot <- MCBoot
  Capabilities = {c0, c1, c2}
  EmptySets <- MCEmpty
  Advertisable <- MCAdvertisable
  Policies = {p1, p2}
  DefaultPolicy = p1
  FreshnessBound = {p1}
  Workloads = {w1}
  Profiles = {r1, r2}
  PlanIds = {i1, i2}
  AbortReasons = {"readable", "oversized"}
  Claims <- MCUnchecked
  MutationBound = 2
  MaxValue = 99
  HistoryLimit = 64
  MaxRecordedDecisions = 1
  PersistMode = "mutation"
  StoreMayFail = FALSE
  Verdict <- MCVerdict
  Portable <- MCPortable
\* Nothing follows a crash when the stored snapshot cannot be decoded.
CHECK_DEADLOCK FALSE
INVARIANTS StructurallySound DecisionsReproducible NoWorkFromOldAuthority ReadersSeeDurableState
PROPERTIES TerminalPlansStay AuthorityAdvances
