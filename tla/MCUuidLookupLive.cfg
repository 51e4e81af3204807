(* Two requests for one name and one with a malformed name. *)
SPECIFICATION FairSpec
CONSTANTS
  r1 = r1
  r2 = r2
  s1 = s1
  x1 = x1
  n1 = n1
  n2 = n2
  u = u
  timeout = timeout
  Requests = {r1, r2, x1}
  Names = {n1, n2}
  PathOf <- PathsOfRefused
  Uuids = {u}
  MojangErrors = {timeout}
  Size = 2
  QueueCapacity = 1
  MaxInFlight = 1
PROPERTIES
  EveryRequestEnds
CHECK_DEADLOCK FALSE
