--------------------------- MODULE MCCacheLifetime ---------------------------
(* A small instance of CacheLifetime: three callers of one key and one of   *)
(* another.                                                                *)
EXTENDS CacheLifetime, TLC

CONSTANTS c1, c2, c3, d1, k1, k2, v, timeout

KeyOfFour == c1 :> k1 @@ c2 :> k1 @@ c3 :> k1 @@ d1 :> k2

\* The callers of one key may be exchanged for each other.
SameKey == Permutations({c1, c2, c3})
=============================================================================
