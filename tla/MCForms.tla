------------------------------ MODULE MCForms ------------------------------
(* Small instances of Forms for TLC. *)
EXTENDS Forms, TLC

CONSTANTS t1, t2, e1, e2

Symmetry == Permutations({t1, t2}) \cup Permutations({e1, e2})

\* One tab with any form, or two with forms that create accounts, or that
\* change memberships or decide on the vendor.
Sharing == {{"signup", "user", "organizadora"}, {"members"}, {"approval"}}

MCOpenings ==
  {f \in [{t1, t2} -> Transitions \cup Handlers \cup {None}] :
     None \in {f[t1], f[t2]} \/ \E S \in Sharing : {f[t1], f[t2]} \subseteq S}
=============================================================================
