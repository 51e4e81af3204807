-------------------------- MODULE MCBatchProcessor --------------------------
(* Small instances of BatchProcessor: up to five lookups of two names.     *)
EXTENDS BatchProcessor, TLC

CONSTANTS l1, l2, l3, l4, l5, a, b, u, timeout

\* The odd lookups ask for one name and the even ones for the other.
NameOfThree == l1 :> a @@ l2 :> b @@ l3 :> a
NameOfFive == NameOfThree @@ l4 :> b @@ l5 :> a

\* Lookups of the same name may be exchanged for each other.
SameName == Permutations({l1, l3, l5}) \cup Permutations({l2, l4})
=============================================================================
