---------------------------- MODULE MCVendorDesk ----------------------------
(* Small instances of VendorDesk for TLC. *)
EXTENDS VendorDesk, TLC

CONSTANTS v1, v2, c1, c2

Symmetry == Permutations(Vendors) \cup Permutations(Calls)
=============================================================================
