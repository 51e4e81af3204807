(* Five lookups, batches of two, a channel of one, two batches in flight. *)
SPECIFICATION Spec
CONSTANTS
  l1 = l1
  l2 = l2
  l3 = l3
  l4 = l4
  l5 = l5
  a = a
  b = b
  u = u
  timeout = timeout
  Lookups = {l1, l2, l3, l4, l5}
  Names = {a, b}
  NameOf <- NameOfFive
  Uuids = {u}
  Errors = {timeout}
  Size = 2
  QueueCapacity = 1
  MaxInFlight = 2
SYMMETRY SameName
INVARIANTS
  TypeOK
  OnePlace
  NobodyStranded
  BatchBound
  PermitAccounting
  BacklogBound
  DrainAnswersAll
  NothingLost
CHECK_DEADLOCK FALSE
