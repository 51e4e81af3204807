(* Six requests of two clients, a limit of two in three ticks, a lag of one tick. *)
SPECIFICATION Spec
CONSTANTS
  a1 = a1
  a2 = a2
  a3 = a3
  a4 = a4
  a5 = a5
  b1 = b1
  a = a
  b = b
  s = s
  Requests = {a1, a2, a3, a4, a5, b1}
  Clients = {a, b}
  HeaderOf <- Headers
  AddressOf <- Addresses
  Unspecified = b
  Shards = {s}
  ShardOf <- OneShard
  Limit = 2
  Window = 3
  Second = 2
  MaxLag = 1
  MaxTime = 6
SYMMETRY SameClient
INVARIANTS
  QuotaPerSpan
  FixedWindow
  DeniedForAReason
  ForgottenInTime
  RetryHonoured
CHECK_DEADLOCK FALSE
