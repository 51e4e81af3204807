(* Four callers, two keys, three ticks, lives of two ticks and of one. *)
SPECIFICATION TimedSpec
CONSTANTS
  c1 = c1
  c2 = c2
  c3 = c3
  d1 = d1
  k1 = k1
  k2 = k2
  v = v
  timeout = timeout
  Callers = {c1, c2, c3, d1}
  Keys = {k1, k2}
  KeyOf <- KeyOfFour
  Values = {v, "absent"}
  Errors = {timeout}
  PositiveTTL = 2
  NegativeTTL = 1
  MaxTime = 3
SYMMETRY SameKey
INVARIANTS
  WaiterIsLeader
  LoadedOnce
  NeverStale
CHECK_DEADLOCK FALSE
