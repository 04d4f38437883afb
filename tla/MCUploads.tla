------------------------------ MODULE MCUploads ------------------------------
(* Small instances of Uploads for TLC. *)
EXTENDS Uploads, TLC

CONSTANTS k1, k2, k3, t1, t2

Symmetry == Permutations(Keys) \cup Permutations(Tabs)
=============================================================================
