SPECIFICATION Spec
CONSTANTS
  Requests = {q1, q2}
  Refs = {r1, r2, r3}
  IDs = {a, b}
  URLs = {u1, u2, v1}
  Configured <- BothConfigured
  Listings <- ShrinkingListings
  Threshold = 1
  NextWrap = 2
  Policies = {"cache_aware", "round_robin"}
  NoRef = NoRef
  NoEndpoint = NoEndpoint
  a = a
  b = b
  u1 = u1
  u2 = u2
  v1 = v1
SYMMETRY Symmetric
INVARIANTS TypeOK InflightExact SelectionFromOwnSnapshot
