SPECIFICATION HSpec
CONSTANTS
  Requests = {q1, q2}
  MaxReplacements = 0
  MaxArrivals = 1
  Outcomes = {"ok", "badurl", "proxyerr", "abort"}
INVARIANTS
  EveryFailureCounted
CHECK_DEADLOCK FALSE
