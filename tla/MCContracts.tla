---------------------------- MODULE MCContracts ----------------------------
(* Small instances of Contracts for TLC. *)
EXTENDS Contracts, TLC

CONSTANTS doc1, doc2, s1, e1, e2, e3
=============================================================================
