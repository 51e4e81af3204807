---------------------------- MODULE MCLifecycle ----------------------------
(* A small instance of Lifecycle: two requests of different names.         *)
EXTENDS Lifecycle, TLC

CONSTANTS r1, r2, u, timeout

=============================================================================
