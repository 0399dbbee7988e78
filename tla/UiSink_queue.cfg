SPECIFICATION FairSpec
CONSTANTS
  p1 = p1  p2 = p2  k1 = k1
  Producers = {p1, p2}  Keys = {k1}  Offers <- AllKinds
  MaxRecords = 2  MaxBytes = 3  MaxMerge = 2  MaxEmits = 3
INVARIANTS WithinBounds CriticalExactlyOnce DeltasInOrder ReaderIsAwake
PROPERTIES EmitReturns
CHECK_DEADLOCK FALSE
