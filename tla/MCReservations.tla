--------------------------- MODULE MCReservations ---------------------------
(* Small instances of Reservations for TLC. *)
EXTENDS Reservations

CONSTANTS l1, v1, t1, t2, s1, s2, r1, r2
=============================================================================
