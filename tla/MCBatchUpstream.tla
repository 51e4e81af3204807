--------------------------- MODULE MCBatchUpstream ---------------------------
(* A small instance of BatchUpstream: two lookups of one name and one of   *)
(* another.                                                                *)
EXTENDS BatchUpstream

CONSTANTS l1, l2, l3, a, b, u, v

NameOfThree == l1 :> a @@ l2 :> a @@ l3 :> b
=============================================================================
