(* Three batches, at most two answers of Discord are lost. *)
SPECIFICATION FairSpec
CONSTANTS
  b1 = b1
  b2 = b2
  b3 = b3
  Batches = {b1, b2, b3}
  SizeOf <- SizesOfThree
  MaxRepeats = 2
INVARIANTS
  TypeOK
  NothingDiscarded
  NothingRepeated
PROPERTIES
  EventuallyReported
  ShutdownEnds
CHECK_DEADLOCK FALSE
