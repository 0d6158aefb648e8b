SPECIFICATION FairSpec
CONSTANTS
  Requests = {q1}
  Refs = {r1, r2, r3}
  IDs = {a, b}
  URLs = {u1, u2, v1}
  Configured <- NothingConfigured
  Listings <- UniqueListings
  Threshold = 2
  NextWrap = 2
  Policies = {"round_robin"}
  NoRef = NoRef
  NoEndpoint = NoEndpoint
  a = a
  b = b
  u1 = u1
  u2 = u2
  v1 = v1
PROPERTIES UpBackendBecomesHealthy DownBackendBecomesUnhealthy
