(* Two requests, batches of two, a channel of one, one batch in flight. *)
SPECIFICATION FairSpec
CONSTANTS
  r1 = r1
  r2 = r2
  u = u
  timeout = timeout
  Connections = {r1, r2}
  Uuids = {u}
  MojangErrors = {timeout}
  Size = 2
  QueueCapacity = 1
  MaxInFlight = 1
INVARIANTS
  DrainedIsServed
PROPERTIES
  ShutdownExits
CHECK_DEADLOCK FALSE
