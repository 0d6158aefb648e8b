SPECIFICATION HSpec
CONSTANTS
  Requests = {q1}
  Refs = {r1, r2, r3, r4}
  IDs = {a, b}
  URLs = {u1, u2, v1}
  Configured <- BothConfigured
  Listings <- UniqueListings
  Threshold = 2
  NextWrap = 2
  Policies = {"cache_aware", "round_robin"}
  NoRef = NoRef
  NoEndpoint = NoEndpoint
  a = a
  b = b
  u1 = u1
  u2 = u2
  v1 = v1
SYMMETRY SymmetricRefs
PROPERTIES HealthLostOnlyByFailures RefusedOnlyWithoutSteadyBackend
