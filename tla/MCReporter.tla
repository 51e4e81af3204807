----------------------------- MODULE MCReporter -----------------------------
(* A small instance of Reporter: three batches of one and two names.       *)
EXTENDS Reporter, TLC

CONSTANTS b1, b2, b3

SizesOfThree == b1 :> 1 @@ b2 :> 2 @@ b3 :> 2
=============================================================================
