--------------------------- MODULE MCUploadTiming ---------------------------
(* An instance of the timed upload stage for TLC.                          *)
EXTENDS UploadTiming, TLC

CONSTANTS e1, e2, e3, u1, u2

Symmetry == Permutations(Event) \cup Permutations(Uploaders)
=============================================================================
