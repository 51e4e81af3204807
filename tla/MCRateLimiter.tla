---------------------------- MODULE MCRateLimiter ----------------------------
(* A small instance of RateLimiter: the requests of one client, and one of  *)
(* another client of the same shard that may trigger its cleanup.          *)
EXTENDS RateLimiter, TLC

CONSTANTS a1, a2, a3, a4, a5, b1, a, b, s

Headers ==
  a1 :> "a" @@ a2 :> "a" @@ a3 :> "a" @@ a4 :> "a" @@ a5 :> "0:a" @@ b1 :> "none"
Addresses == "a" :> a @@ "0:a" :> a
OneShard == a :> s @@ b :> s

\* The requests of one client may be exchanged for each other.
SameClient == Permutations({a1, a2, a3, a4, a5})
=============================================================================
