SPECIFICATION HSpec
CONSTANTS
  Requests = {q1, q2, q3}
  MaxReplacements = 2
  MaxArrivals = 4
  Outcomes = {"ok", "badurl", "proxyerr", "abort"}
SYMMETRY RequestSymmetry
INVARIANTS
  TypeOK
  OneAnswer
  ErrorsCounted
  GaugeBounded
  GaugeRepaired
CHECK_DEADLOCK FALSE
