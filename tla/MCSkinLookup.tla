---------------------------- MODULE MCSkinLookup ----------------------------
(* A small instance of SkinLookup: two requests for one uuid, one for      *)
(* another, and one that names no uuid.                                    *)
EXTENDS SkinLookup, TLC

CONSTANTS r1, r2, s1, x1, u1, u2, skin

Path(uuid, written) == [digits |-> uuid, form |-> written]

PathOfFour ==
  r1 :> Path(u1, "compact") @@ r2 :> Path(u1, "dashed")
  @@ s1 :> Path(u2, "dashed") @@ x1 :> Path(u2, "other")

\* The requests for one uuid may be exchanged for each other, for nothing but
\* the parser looks at how they write it.
SameUuid == Permutations({r1, r2})
=============================================================================
