SPECIFICATION SpecAll
CONSTANTS
  Burst = 2
  MaxWalks = 2
  NumPkts = 4
  CountLimit = 10
  Features <- SampleFeatures
  Start = "L3"
  End = "L4"
  NULL = NULL
INVARIANTS CountersAgree FirewallHolds WalkDelivers ArcFollowsFeatures
PROPERTY WalkStops
CHECK_DEADLOCK FALSE
