--------------------------- MODULE MCMemoryQueue ---------------------------
(* An instance of the in-process queue for TLC.                            *)
EXTENDS MemoryQueue

CONSTANTS m1, m2, m3, p1, p2, c1, c2, c3
=============================================================================
