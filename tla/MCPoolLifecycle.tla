--------------------------- MODULE MCPoolLifecycle ---------------------------
(* Small instances of PoolLifecycle for TLC. *)
EXTENDS PoolLifecycle
CONSTANTS r1, r2, r3, p1, p2
=============================================================================
