---------------------------- MODULE MCUuidLookup ----------------------------
(* Small instances of UuidLookup: requests for one name of the greatest     *)
(* length, for another of the least, and one whose name is too long.       *)
EXTENDS UuidLookup, TLC

CONSTANTS r1, r2, s1, x1, n1, n2, u, timeout

Name(letters, length) == [lower |-> letters, length |-> length, allowed |-> TRUE]

Paths ==
  r1 :> Name(n1, 16) @@ r2 :> Name(n1, 16)
  @@ s1 :> Name(n2, 1) @@ x1 :> Name(n1, 17)

PathsOfTwo == [r \in {r1, r2} |-> Paths[r]]
PathsOfThree == [r \in {r1, r2, s1} |-> Paths[r]]
PathsOfRefused == [r \in {r1, r2, x1} |-> Paths[r]]
=============================================================================
