SPECIFICATION Spec
CONSTANTS
  a = a
  b = b
  x = x
  y = y
  Budget = 3
  IDs = {a, b}
  Loads <- MCLoads
  Pods = {a}
  Addresses = {x, y}
  NoPod = NoPod
  Letters = {x, y}
  Space = Space
  PrefixLengths = {1, 2, 3, 4}
  MAX_PREFIX_LENGTH = 4
  MaxLength = 3
  MaxSlices = 2
  MaxEndpoints = 2
  MaxAddresses = 2
  MaxTokens = 5
  cachePrefixLengths = {1, 2, 3, 4}
  Prompts <- MCPrompts
  TTLs <- MCTTLs
  Latencies <- MCLatencies
  Delays <- MCDelays
  TokenLimits = {0, 1, 2}
  Quantities <- MCQuantities
  Paths <- MCPaths
  Warmths = {0, 1, 2}
  PortLists <- MCPortLists
  PortNames = {"", "http"}
  Statuses <- MCStatuses
  Contents <- MCContents
INVARIANTS
  ReadyExactly
  SelectedIsBest
  ColdSelectionsRotate
  DiscoverExact
  ListingNamesPodOnce
  TurnsSharePrefix
  PrintsBounded
  StaticBackendsParsed
  ServesWithUsableSettings
  MockLookupExact
  ContinuationHits
  WarmSlowerOnlyAtCap
CHECK_DEADLOCK FALSE
