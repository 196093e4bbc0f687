SPECIFICATION Spec
INVARIANT AcknowledgedStaysInForce
CONSTANTS
  p1 = p1
  p2 = p2
  t1 = t1
  t2 = t2
  u1 = u1
  Policies <- MCPolicies
  Thresholds <- MCThresholds
  Posts <- MCPosts
  MaxEdits = 1
  MaxClock = 2
CHECK_DEADLOCK FALSE
