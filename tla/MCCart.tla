------------------------------- MODULE MCCart -------------------------------
(* Small instances of Cart for TLC. *)
EXTENDS Cart, TLC

CONSTANTS tab1, tab2, a1, a2, n1, n2, n3, user1

Symmetry == Permutations(Lines) \cup Permutations(Tabs)
=============================================================================
