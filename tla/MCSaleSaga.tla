----------------------------- MODULE MCSaleSaga -----------------------------
(* Small instances of SaleSaga for TLC. *)
EXTENDS SaleSaga, TLC

CONSTANTS l1, v1, v2, p1, p2
=============================================================================
