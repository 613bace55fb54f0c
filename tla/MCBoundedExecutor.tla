------------------------- MODULE MCBoundedExecutor -------------------------
(* A pool of two threads and four items for BoundedExecutor. *)
EXTENDS BoundedExecutor

CONSTANTS i1, i2, i3, i4
=============================================================================
