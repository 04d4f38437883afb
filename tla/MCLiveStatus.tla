---------------------------- MODULE MCLiveStatus ----------------------------
(* A small instance of LiveStatus for TLC: more tabs than places. *)
EXTENDS LiveStatus, TLC

CONSTANTS tab1, tab2, tab3, l1
=============================================================================
