------------------------------ MODULE MCTenancy ------------------------------
(* Small instances of Tenancy for TLC. *)
EXTENDS Tenancy

CONSTANTS u1, u2, o1, o2, c1, c2
=============================================================================
