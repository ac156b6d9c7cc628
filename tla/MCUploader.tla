----------------------------- MODULE MCUploader -----------------------------
(* Instances of the upload stage for TLC.                                  *)
EXTENDS Uploader, TLC

CONSTANTS e1, e2, e3, u1, u2

Symmetry == Permutations(Event) \cup Permutations(Uploaders)
=============================================================================
