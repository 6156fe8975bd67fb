SPECIFICATION Spec
CHECK_DEADLOCK FALSE
CONSTANTS
  None = None
  MaxDimensions = 2
  MaxClauses = 1
  MaxTopology = 2
  MaxTokens = 1
  MaxToken = 1
  MaxName = 1
  MaxString = 1
  MaxText = 2
  MaxReasons = 1
INVARIANTS PlannedMovesAreSupported EligibleMovesArePlanned EligibleMeansProven IneligibleIsFinal
  RankingIgnoresOrder VersionsAreOrdered ReloadsExactlyWhenCanonical CapabilitySetsAnswer
  AgentsDescribeTheirHardware ShippedDevicesKeepTheirState
