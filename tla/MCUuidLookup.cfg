(* Two requests for one name and one for another. *)
SPECIFICATION Spec
CONSTANTS
  r1 = r1
  r2 = r2
  s1 = s1
  x1 = x1
  n1 = n1
  n2 = n2
  u = u
  timeout = timeout
  Requests = {r1, r2, s1}
  Names = {n1, n2}
  PathOf <- PathsOfThree
  Uuids = {u}
  MojangErrors = {timeout}
  Size = 2
  QueueCapacity = 1
  MaxInFlight = 1
INVARIANTS
  NoDuplicateNameInCall
  OpenLookupIsLoading
  AskedAgainForAReason
  MetricsAgree
PROPERTIES
  ImplementsNameResolution
CHECK_DEADLOCK FALSE
