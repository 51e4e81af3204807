(* Two requests for one uuid, one for another, a malformed one, bodies of at most one chunk. *)
SPECIFICATION Spec
CONSTANTS
  r1 = r1
  r2 = r2
  s1 = s1
  x1 = x1
  u1 = u1
  u2 = u2
  skin = skin
  Requests = {r1, r2, s1, x1}
  Uuids = {u1, u2}
  PathOf <- PathOfFour
  Skins = {skin}
  Limit = 1
  Chunks = {1}
SYMMETRY SameUuid
INVARIANTS
  OneCallPerUuid
  MetricsAgree
PROPERTIES
  ImplementsNameResolution
CHECK_DEADLOCK FALSE
