SPECIFICATION FairSpec
CONSTANTS
  Observers = {o1, o2, o3}
  Samples = {0, 20}
  Top = 20
  Scale = 20
  Weight = 10
  NoSample = NoSample
INVARIANTS TypeOK
PROPERTIES ImplementsAtomic LockFree
