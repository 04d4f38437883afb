------------------------------ MODULE LotLease ------------------------------
(***************************************************************************)
(* What the reservation system promises about a lot: it is leased to at    *)
(* most one hold at a time, it is handed from one hold to the next only by *)
(* way of being free, and a hold that ended never comes back.              *)
(***************************************************************************)
CONSTANTS Lots, Holds, Free   \* Free is not a hold

VARIABLES
  lease,   \* lease[l]: the hold that owns lot l, or Free
  ended    \* the holds that are over

leaseVars == <<lease, ended>>

LeaseInit ==
  /\ lease = [l \in Lots |-> Free]
  /\ ended = {}

Acquire(l, h) ==
  /\ lease[l] = Free
  /\ h \notin ended
  /\ \A m \in Lots : lease[m] # h
  /\ lease' = [lease EXCEPT ![l] = h]
  /\ UNCHANGED ended

End(l) ==
  /\ lease[l] # Free
  /\ ended' = ended \cup {lease[l]}
  /\ lease' = [lease EXCEPT ![l] = Free]

LeaseNext == \E l \in Lots : End(l) \/ \E h \in Holds : Acquire(l, h)

LeaseSpec == LeaseInit /\ [][LeaseNext]_leaseVars
=============================================================================
