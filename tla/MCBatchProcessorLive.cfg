(* Three lookups, batches of two, a channel of one, one batch in flight. *)
SPECIFICATION FairSpec
CONSTANTS
  l1 = l1
  l2 = l2
  l3 = l3
  l4 = l4
  l5 = l5
  a = a
  b = b
  u = u
  timeout = timeout
  Lookups = {l1, l2, l3}
  Names = {a, b}
  NameOf <- NameOfThree
  Uuids = {u}
  Errors = {timeout}
  Size = 2
  QueueCapacity = 1
  MaxInFlight = 1
PROPERTIES
  EveryLookupAnswered
  ShutdownEnds
CHECK_DEADLOCK FALSE
