SPECIFICATION Spec
CONSTANTS
  p1 = p1  p2 = p2  k1 = k1 
  Producers = {p1, p2}  Keys = {k1}  Offers <- Unsized
  MaxRecords = 1  MaxBytes = 4  MaxMerge = 2  MaxEmits = 2
INVARIANT WaiterSeesRoom
CHECK_DEADLOCK FALSE
