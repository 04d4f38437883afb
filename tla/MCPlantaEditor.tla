--------------------------- MODULE MCPlantaEditor ---------------------------
(* Small instances of PlantaEditor for TLC. *)
EXTENDS PlantaEditor, TLC

CONSTANTS tab1, tab2, l1, l2, l3, c1, c2
=============================================================================
