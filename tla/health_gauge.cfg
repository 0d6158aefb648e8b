SPECIFICATION FairSpec
CONSTANTS
  Refs = {r1, r2, r3}
  Threshold = 3
  NoRef = NoRef
INVARIANTS
  TypeOK
  GaugeRightAfterThreshold
PROPERTY
  GaugeConverges
