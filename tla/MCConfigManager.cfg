SPECIFICATION FairSpec
INVARIANTS TypeOK EngineFollowsManager AcknowledgedInForce
PROPERTY EditsReachEngine
CONSTANTS
  p1 = p1
  p2 = p2
  t1 = t1
  t2 = t2
  u1 = u1
  Policies <- MCPolicies
  Thresholds <- MCThresholds
  Posts <- MCPosts
  MaxEdits = 2
  MaxClock = 3
CHECK_DEADLOCK FALSE
