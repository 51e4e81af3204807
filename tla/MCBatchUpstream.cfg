(* Three lookups, batches of two, two in flight, bodies of at most one unit. *)
SPECIFICATION Spec
CONSTANTS
  l1 = l1
  l2 = l2
  l3 = l3
  a = a
  b = b
  u = u
  v = v
  Lookups = {l1, l2, l3}
  Names = {a, b}
  NameOf <- NameOfThree
  Uuids = {u, v}
  Size = 2
  QueueCapacity = 1
  MaxInFlight = 2
  Limit = 1
  Chunks = {1, 2}
  MaxProfiles = 2
INVARIANTS
  OneCallPerBatch
  AnswersAreMojangs
  BodyBounded
  ErrorsAreFailedCalls
CHECK_DEADLOCK FALSE
