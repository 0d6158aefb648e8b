SPECIFICATION HSpec
CONSTANTS
  Callers = {c1, c2}
  Prints = {p1, p2}
  Prompts <- Nested
  BackendIDs = {a}
  Entries = {e1, e2, e3, e4}
  ExpiryPolicy = "decay"
  DecayPolicy = "exponential"
  PrefixMaxAge = 2
  HalfLife = 1
  One = 8
  Start = 3
  MaxTime = 6
  Length <- Lengths
  NoEntry = NoEntry
  p1 = p1
  p2 = p2
SYMMETRY SymmetricEntries
INVARIANTS TypeOK CandidatesGenuine RecordsKept AnswerExact
PROPERTIES LoneCallsImplementTable
CHECK_DEADLOCK FALSE
