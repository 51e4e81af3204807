(* Two requests for one name, two batches in flight. *)
SPECIFICATION Spec
CONSTANTS
  r1 = r1
  r2 = r2
  s1 = s1
  x1 = x1
  n1 = n1
  n2 = n2
  u = u
  timeout = timeout
  Requests = {r1, r2}
  Names = {n1, n2}
  PathOf <- PathsOfTwo
  Uuids = {u}
  MojangErrors = {timeout}
  Size = 2
  QueueCapacity = 1
  MaxInFlight = 2
INVARIANTS
  SharedInFlight
CHECK_DEADLOCK FALSE
