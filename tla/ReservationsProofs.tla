------------------------- MODULE ReservationsProofs -------------------------
(***************************************************************************)
(* Proofs about Reservations, for any number of lots, vendors, web         *)
(* transactions and expire jobs.                                           *)
(***************************************************************************)
EXTENDS Reservations, TLAPS

\* A transaction past TryLock owns the advisory lock of its lot.
LocksHeld ==
  \A t \in Txs : tx[t].pc # "idle" =>
    tx[t].lot \in Lots /\ tx[t].vendor \in Vendors /\ advisory[tx[t].lot] = t

\* The id of an uncommitted row belongs to one transaction and to no row.
IdsAreFresh ==
  \A t \in Txs :
    IF tx[t].pc = "inserted"
      THEN /\ tx[t].id \in ResIds
           /\ rows[tx[t].id] = Null
           /\ \A u \in Txs \ {t} : tx[u].id # tx[t].id
      ELSE tx[t].id = Null

\* While a row of the lot is uncommitted, the lot has no active row.
UncommittedIsAlone ==
  \A t \in Txs : tx[t].pc = "inserted" => ActiveOn(tx[t].lot) = {}

\* An approval that was read still stands.
ApprovalStands ==
  \A t \in Txs : tx[t].pc \in {"vendorChecked", "inserted"} => vendors[tx[t].vendor] = "approved"

IInv ==
  /\ TypeOK
  /\ LocksHeld
  /\ IdsAreFresh
  /\ UncommittedIsAlone
  /\ ApprovalStands
  /\ AtMostOneActive
  /\ ReservedAnnouncementIsTrue
  /\ ReleasesAreEmitted
  /\ ScannedAreExpired
  /\ OnlyApprovedHold

-----------------------------------------------------------------------------
(* Type correctness *)

LEMMA IdleTxType == IdleTx \in Tx
  BY DEF IdleTx, Tx, Phases

LEMMA NewRowType ==
  ASSUME TypeOK, NEW t \in Txs, tx[t].lot \in Lots, tx[t].vendor \in Vendors
  PROVE  NewRow(t) \in Row
  BY ConstantsAssumption DEF TypeOK, Tx, NewRow, Row

LEMMA EndTxType ==
  ASSUME TypeOK, NEW t \in Txs, EndTx(t)
  PROVE  tx' \in [Txs -> Tx] /\ advisory' \in [Lots -> Txs \cup {Null}]
  BY IdleTxType DEF TypeOK, EndTx

LEMMA EndHoldType ==
  ASSUME TypeOK, NEW r \in ResIds, NEW how \in EndStates, rows[r] # Null, EndHold(r, how)
  PROVE  rows' \in [ResIds -> Row \cup {Null}] /\ rows[r].lot \in Lots
<1>1. rows[r].lot \in Lots /\ [rows[r] EXCEPT !.state = how] \in Row
  BY DEF TypeOK, Row
<1> QED BY <1>1 DEF EndHold, TypeOK

\* Every step keeps each table, lock, job and announcement well formed.
LEMMA TypeStep ==
  ASSUME TypeOK, LocksHeld, IdsAreFresh, ScannedAreExpired, [Next]_vars
  PROVE  TypeOK'
<1> USE DEF TypeOK, Lot
<1>1. ASSUME NEW t \in Txs, ReserveStep(t) PROVE TypeOK'
  <2>1. ASSUME NEW l \in Lots, NEW v \in Vendors, TryLock(t, l, v) PROVE TypeOK'
    <3>1. [pc |-> "locked", lot |-> l, vendor |-> v, start |-> clock, id |-> Null] \in Tx
      BY DEF Tx, Phases
    <3> QED BY <2>1, <3>1 DEF TryLock, jobVars
  <2>2. CASE RecheckLot(t)
    <3>1. [tx[t] EXCEPT !.pc = "lotChecked"] \in Tx
      BY DEF Tx, Phases
    <3> QED BY <2>2, <3>1, EndTxType DEF RecheckLot, jobVars
  <2>3. CASE CheckVendor(t)
    <3>1. [tx[t] EXCEPT !.pc = "vendorChecked"] \in Tx
      BY DEF Tx, Phases
    <3> QED BY <2>3, <3>1, EndTxType DEF CheckVendor, jobVars
  <2>4. CASE InsertRow(t)
    <3>1. \A r \in FreshIds : [tx[t] EXCEPT !.pc = "inserted", !.id = r] \in Tx
      BY DEF Tx, Phases, FreshIds
    <3> QED BY <2>4, <3>1, EndTxType DEF InsertRow, jobVars
  <2>5. CASE CommitReserve(t)
    <3>1. NewRow(t) \in Row /\ tx[t].lot \in Lots
      BY <2>5, NewRowType DEF LocksHeld, CommitReserve
    <3> QED BY <2>5, <3>1, EndTxType DEF CommitReserve, LotStatus
  <2>6. CASE AbortReserve(t)
    BY <2>6, EndTxType DEF AbortReserve, jobVars
  <2> QED BY <1>1, <2>1, <2>2, <2>3, <2>4, <2>5, <2>6 DEF ReserveStep
<1>2. ASSUME NEW r \in ResIds, rows[r] # Null, MarkReleased(r), EmitReleased(r)
      PROVE  /\ rows' \in [ResIds -> Row \cup {Null}] /\ rows[r].lot \in Lots
             /\ relEvents' \in [ResIds -> Nat] /\ unheard' \in SUBSET Lots
  BY <1>2, EndHoldType DEF MarkReleased, EmitReleased, EndStates
<1>3. ASSUME NEW r \in ResIds, Release(r) PROVE TypeOK'
  BY <1>2, <1>3 DEF Release, Active, AnnounceFree, LotStatus
<1>4. ASSUME NEW s \in Scanners, ExpireStep(s) PROVE TypeOK'
  <2>1. CASE StartScan(s)
    BY <2>1 DEF StartScan, ScanResults, dbVars
  <2>2. ASSUME NEW r \in ResIds, ExpireRow(s, r) PROVE TypeOK'
    <3>1. rows[r] # Null
      BY <2>2 DEF ExpireRow, ScannedAreExpired
    <3> QED BY <1>2, <2>2, <3>1 DEF ExpireRow, AnnounceFree, LotStatus
  <2>3. ASSUME NEW r \in ResIds, ExpireRowFails(s, r) PROVE TypeOK'
    BY <2>3 DEF ExpireRowFails, dbVars
  <2>4. CASE WorkerCrash(s)
    BY <2>4 DEF WorkerCrash, dbVars
  <2> QED BY <1>4, <2>1, <2>2, <2>3, <2>4 DEF ExpireStep
<1>5. CASE OrganizerStep
  <2>1. ASSUME NEW v \in Vendors, NEW d \in {"approved", "rejected"}, DecideVendor(v, d)
        PROVE  TypeOK'
    BY <2>1 DEF DecideVendor, jobVars, VendorStatus
  <2>2. ASSUME NEW l \in Lots, NEW st \in LotStatus, UpdateLotStatus(l, st) PROVE TypeOK'
    BY <2>2 DEF UpdateLotStatus, jobVars
  <2>3. ASSUME NEW l \in Lots, DeleteLot(l) PROVE TypeOK'
    BY <2>3 DEF DeleteLot, jobVars
  <2> QED BY <1>5, <2>1, <2>2, <2>3 DEF OrganizerStep
<1>6. CASE HandlerStep
  <2>1. ASSUME NEW r \in ResIds, SettlePaid(r) PROVE TypeOK'
    <3>1. rows' \in [ResIds -> Row \cup {Null}] /\ rows[r].lot \in Lots
      BY <2>1, EndHoldType DEF SettlePaid, EndStates
    <3> QED BY <2>1, <3>1 DEF SettlePaid, LotStatus
  <2>2. ASSUME NEW r \in ResIds, SettleFailed(r) PROVE TypeOK'
    BY <1>2, <2>2 DEF SettleFailed
  <2>3. ASSUME NEW l \in Lots, AnnounceReleased(l) PROVE TypeOK'
    BY <2>3 DEF AnnounceReleased, AnnounceFree, LotStatus, dbVars
  <2> QED BY <1>6, <2>1, <2>2, <2>3 DEF HandlerStep
<1>7. CASE Tick
  BY <1>7 DEF Tick, dbVars, jobVars
<1>8. CASE UNCHANGED vars
  BY <1>8 DEF vars
<1> QED BY <1>1, <1>3, <1>4, <1>5, <1>6, <1>7, <1>8 DEF Next

-----------------------------------------------------------------------------
(* The locks, the ids and the approvals of the transactions in progress *)

\* Advancing a transaction's pc leaves the rest of it and the others alone.
LEMMA PcStep ==
  ASSUME TypeOK, NEW t \in Txs, NEW p \in Phases, tx' = [tx EXCEPT ![t].pc = p]
  PROVE  /\ tx'[t].pc = p /\ tx'[t].lot = tx[t].lot
         /\ tx'[t].vendor = tx[t].vendor /\ tx'[t].id = tx[t].id
         /\ \A u \in Txs : u # t => tx'[u] = tx[u]
  BY DEF TypeOK, Tx

LEMMA InsertedStep ==
  ASSUME TypeOK, NEW t \in Txs, NEW r \in ResIds,
         tx' = [tx EXCEPT ![t].pc = "inserted", ![t].id = r]
  PROVE  /\ tx'[t].pc = "inserted" /\ tx'[t].id = r
         /\ tx'[t].lot = tx[t].lot /\ tx'[t].vendor = tx[t].vendor
         /\ \A u \in Txs : u # t => tx'[u] = tx[u]
<1>1. tx[t] \in Tx
  BY DEF TypeOK
<1>2. tx'[t] = [[tx[t] EXCEPT !.pc = "inserted"] EXCEPT !.id = r]
      /\ \A u \in Txs : u # t => tx'[u] = tx[u]
  BY DEF TypeOK
<1>3. \A x \in Tx : LET y == [[x EXCEPT !.pc = "inserted"] EXCEPT !.id = r]
                    IN  y.pc = "inserted" /\ y.id = r /\ y.lot = x.lot /\ y.vendor = x.vendor
  BY DEF Tx
<1> QED BY <1>1, <1>2, <1>3

\* No step takes a lock, an id or an approval from a transaction that has it.
LEMMA TxStep ==
  ASSUME IInv, [Next]_vars
  PROVE  LocksHeld' /\ IdsAreFresh' /\ ApprovalStands'
<1> USE DEF LocksHeld, IdsAreFresh, ApprovalStands
<1> TypeOK /\ LocksHeld /\ IdsAreFresh /\ ApprovalStands /\ ScannedAreExpired
  BY DEF IInv
<1>1. ASSUME NEW t \in Txs, EndTx(t), rows' = rows, vendors' = vendors
      PROVE  LocksHeld' /\ IdsAreFresh' /\ ApprovalStands'
  BY <1>1, ConstantsAssumption DEF EndTx, IdleTx, TypeOK
<1>2. ASSUME NEW t \in Txs, ReserveStep(t)
      PROVE  LocksHeld' /\ IdsAreFresh' /\ ApprovalStands'
  <2>1. ASSUME NEW l \in Lots, NEW v \in Vendors, TryLock(t, l, v)
        PROVE  LocksHeld' /\ IdsAreFresh' /\ ApprovalStands'
    BY <2>1, ConstantsAssumption DEF TryLock, TypeOK
  <2>2. CASE RecheckLot(t)
    <3>1. CASE Reservable(tx[t].lot)
      BY <2>2, <3>1, PcStep DEF RecheckLot, Phases
    <3> QED BY <1>1, <2>2, <3>1 DEF RecheckLot
  <2>3. CASE CheckVendor(t)
    <3>1. CASE vendors[tx[t].vendor] = "approved"
      BY <2>3, <3>1, PcStep DEF CheckVendor, Phases
    <3> QED BY <1>1, <2>3, <3>1 DEF CheckVendor
  <2>4. CASE InsertRow(t)
    <3>1. CASE UniqueIndexAllows(tx[t].lot)
      <4>1. PICK r \in FreshIds : tx' = [tx EXCEPT ![t].pc = "inserted", ![t].id = r]
        BY <2>4, <3>1 DEF InsertRow
      <4>2. UNCHANGED <<rows, vendors, advisory>>
        BY <2>4, <3>1 DEF InsertRow
      <4>3. r \in ResIds /\ r # Null /\ rows[r] = Null /\ \A u \in Txs : tx[u].id # r
        BY <4>1, ConstantsAssumption DEF FreshIds
      <4>4. /\ tx'[t].pc = "inserted" /\ tx'[t].id = r
            /\ tx'[t].lot = tx[t].lot /\ tx'[t].vendor = tx[t].vendor
            /\ \A u \in Txs : u # t => tx'[u] = tx[u]
        BY <4>1, <4>3, InsertedStep
      <4>5. tx[t].pc = "vendorChecked"
        BY <2>4 DEF InsertRow
      <4>6. LocksHeld' /\ ApprovalStands'
        BY <4>2, <4>4, <4>5
      <4>7. IdsAreFresh'
        <5> SUFFICES ASSUME NEW u \in Txs
                     PROVE  /\ tx'[u].pc = "inserted" =>
                                 /\ tx'[u].id \in ResIds
                                 /\ rows'[tx'[u].id] = Null
                                 /\ \A w \in Txs \ {u} : tx'[w].id # tx'[u].id
                            /\ tx'[u].pc # "inserted" => tx'[u].id = Null
          BY Zenon
        <5>1. CASE u = t
          BY <4>2, <4>3, <4>4, <4>5, <5>1
        <5>2. CASE u # t
          BY <4>2, <4>3, <4>4, <4>5, <5>2
        <5> QED BY <5>1, <5>2
      <4> QED BY <4>6, <4>7
    <3> QED BY <1>1, <2>4, <3>1 DEF InsertRow
  <2>5. CASE CommitReserve(t)
    BY <2>5, ConstantsAssumption DEF CommitReserve, EndTx, IdleTx, TypeOK
  <2>6. CASE AbortReserve(t)
    BY <1>1, <2>6 DEF AbortReserve
  <2> QED BY <1>2, <2>1, <2>2, <2>3, <2>4, <2>5, <2>6 DEF ReserveStep
<1>3. ASSUME UNCHANGED <<tx, advisory>>,
             \A r \in ResIds : rows[r] = Null => rows'[r] = Null,
             \A v \in Vendors : vendors[v] = "approved" => vendors'[v] = "approved"
      PROVE  LocksHeld' /\ IdsAreFresh' /\ ApprovalStands'
  BY <1>3
<1>4. ASSUME NEW r \in ResIds, Release(r)
      PROVE  LocksHeld' /\ IdsAreFresh' /\ ApprovalStands'
  BY <1>3, <1>4 DEF Release, Active, MarkReleased, EndHold, TypeOK
<1>5. ASSUME NEW s \in Scanners, ExpireStep(s)
      PROVE  LocksHeld' /\ IdsAreFresh' /\ ApprovalStands'
  BY <1>3, <1>5 DEF ExpireStep, StartScan, ExpireRow, ExpireRowFails, WorkerCrash,
                    MarkReleased, EndHold, ScannedAreExpired, TypeOK, dbVars
<1>6. CASE HandlerStep
  <2>1. ASSUME NEW r \in ResIds, SettlePaid(r) \/ SettleFailed(r)
        PROVE  LocksHeld' /\ IdsAreFresh' /\ ApprovalStands'
    <3>1. UNCHANGED <<tx, advisory, vendors>> /\ rows[r] # Null
      BY <2>1 DEF SettlePaid, SettleFailed
    <3>2. \E how \in EndStates : EndHold(r, how)
      BY <2>1 DEF SettlePaid, SettleFailed, MarkReleased, EndStates
    <3>3. \A q \in ResIds : rows[q] = Null => rows'[q] = Null
      BY <3>1, <3>2 DEF EndHold, TypeOK
    <3> QED BY <1>3, <3>1, <3>3
  <2>2. ASSUME NEW l \in Lots, AnnounceReleased(l)
        PROVE  LocksHeld' /\ IdsAreFresh' /\ ApprovalStands'
    BY <1>3, <2>2 DEF AnnounceReleased, dbVars
  <2> QED BY <1>6, <2>1, <2>2 DEF HandlerStep
<1>7. CASE OrganizerStep
  BY <1>3, <1>7 DEF OrganizerStep, DecideVendor, UpdateLotStatus, DeleteLot, TypeOK
<1>8. CASE Tick \/ UNCHANGED vars
  BY <1>3, <1>8 DEF Tick, vars, dbVars
<1> QED BY <1>2, <1>4, <1>5, <1>6, <1>7, <1>8 DEF Next

-----------------------------------------------------------------------------
(* The tables *)

\* A commit turns one fresh id into the only active row of its lot.
LEMMA CommitActive ==
  ASSUME IInv, NEW t \in Txs, CommitReserve(t)
  PROVE  /\ tx[t].id \in ResIds /\ tx[t].lot \in Lots
         /\ rows[tx[t].id] = Null
         /\ ActiveOn(tx[t].lot) = {}
         /\ \A l \in Lots :
              ActiveOn(l)' = IF l = tx[t].lot THEN {tx[t].id} ELSE ActiveOn(l)
<1>1. tx[t].pc = "inserted"
  BY DEF CommitReserve
<1>2. tx[t].id \in ResIds /\ tx[t].lot \in Lots /\ tx[t].vendor \in Vendors
      /\ rows[tx[t].id] = Null /\ ActiveOn(tx[t].lot) = {}
  BY <1>1 DEF IInv, LocksHeld, IdsAreFresh, UncommittedIsAlone
<1>3. NewRow(t) # Null /\ NewRow(t).lot = tx[t].lot /\ NewRow(t).state = "active"
  BY <1>2, NewRowType, NullIsNoRow DEF NewRow, IInv
<1>4. rows'[tx[t].id] = NewRow(t) /\ \A r \in ResIds : r # tx[t].id => rows'[r] = rows[r]
  BY <1>2 DEF CommitReserve, IInv, TypeOK
<1> QED BY <1>2, <1>3, <1>4 DEF ActiveOn, Active

\* Ending a hold, again or for the first time, only removes it from the active
\* rows of its lot.
LEMMA EndHoldActive ==
  ASSUME TypeOK, NEW r \in ResIds, NEW how \in EndStates, rows[r] # Null, EndHold(r, how)
  PROVE  /\ rows[r].lot \in Lots
         /\ rows'[r] # Null /\ rows'[r].state # "active"
         /\ rows'[r].state = IF Active(r) THEN how ELSE rows[r].state
         /\ rows'[r].lot = rows[r].lot /\ rows'[r].vendor = rows[r].vendor
         /\ rows'[r].expiresAt = rows[r].expiresAt
         /\ \A q \in ResIds \ {r} : rows'[q] = rows[q]
         /\ ActiveOn(rows[r].lot)' = ActiveOn(rows[r].lot) \ {r}
         /\ \A l \in Lots \ {rows[r].lot} : ActiveOn(l)' = ActiveOn(l)
<1>1. rows[r] \in Row /\ how # "active"
  BY DEF TypeOK, EndStates
<1>2. /\ rows'[r] = IF Active(r) THEN [rows[r] EXCEPT !.state = how] ELSE rows[r]
      /\ \A q \in ResIds \ {r} : rows'[q] = rows[q]
  BY DEF EndHold, TypeOK
<1>3. rows'[r] \in Row
  BY <1>1, <1>2 DEF Row
<1>4. /\ rows'[r].state = IF Active(r) THEN how ELSE rows[r].state
      /\ rows'[r].lot = rows[r].lot /\ rows'[r].vendor = rows[r].vendor
      /\ rows'[r].expiresAt = rows[r].expiresAt
  BY <1>1, <1>2 DEF Row
<1>5. rows'[r].state # "active"
  BY <1>1, <1>4 DEF Active
<1>6. rows'[r] # Null
  BY <1>3, NullIsNoRow
<1> QED BY <1>1, <1>2, <1>4, <1>5, <1>6 DEF ActiveOn, Active, Row

\* The conjuncts of IInv about the committed rows.
RowsInv ==
  /\ UncommittedIsAlone
  /\ AtMostOneActive
  /\ ReservedAnnouncementIsTrue
  /\ ReleasesAreEmitted
  /\ ScannedAreExpired
  /\ OnlyApprovedHold

\* A commit: the lot had no active row, so the new one is alone, and no other
\* transaction has an uncommitted row of the lot, since it would own the lock.
LEMMA CommitRows ==
  ASSUME IInv, NEW t \in Txs, CommitReserve(t)
  PROVE  RowsInv'
<1> DEFINE new == tx[t].id
           lot == tx[t].lot
<1>1. /\ new \in ResIds /\ lot \in Lots /\ rows[new] = Null /\ ActiveOn(lot) = {}
      /\ \A l \in Lots : ActiveOn(l)' = IF l = lot THEN {new} ELSE ActiveOn(l)
  BY CommitActive
<1>2. /\ rows'[new] # Null /\ rows'[new].state = "active"
      /\ rows'[new].lot = lot /\ rows'[new].vendor = tx[t].vendor
      /\ \A r \in ResIds : r # new => rows'[r] = rows[r]
      /\ vendors[tx[t].vendor] = "approved" /\ tx[t].vendor \in Vendors
  <2>1. NewRow(t) # Null /\ NewRow(t).lot = lot /\ NewRow(t).state = "active"
        /\ NewRow(t).vendor = tx[t].vendor
    BY <1>1, NewRowType, NullIsNoRow DEF NewRow, IInv, LocksHeld, CommitReserve
  <2>2. rows'[new] = NewRow(t) /\ \A r \in ResIds : r # new => rows'[r] = rows[r]
    BY <1>1 DEF CommitReserve, IInv, TypeOK
  <2> QED BY <2>1, <2>2 DEF IInv, ApprovalStands, LocksHeld, CommitReserve
<1>3. UncommittedIsAlone'
  <2> SUFFICES ASSUME NEW u \in Txs, tx'[u].pc = "inserted", NEW q \in ResIds
               PROVE  ~(Active(q)' /\ rows'[q].lot = tx'[u].lot)
    BY DEF UncommittedIsAlone, ActiveOn
  <2>1. u # t /\ tx'[u] = tx[u]
    BY DEF CommitReserve, EndTx, IdleTx, IInv, TypeOK
  <2>2. tx[u].lot \in Lots /\ tx[u].lot # lot
    BY <2>1 DEF IInv, LocksHeld, CommitReserve
  <2>3. ActiveOn(tx[u].lot) = {}
    BY <2>1 DEF IInv, UncommittedIsAlone
  <2> QED BY <1>2, <2>1, <2>2, <2>3 DEF ActiveOn, Active
<1>4. AtMostOneActive'
  BY <1>1, <1>2 DEF AtMostOneActive, Active, ActiveOn, IInv
<1>5. ReservedAnnouncementIsTrue'
  BY <1>1 DEF ReservedAnnouncementIsTrue, CommitReserve, IInv, TypeOK
<1>6. ReleasesAreEmitted'
  <2>1. \A r \in ResIds : r # new => rows'[r] = rows[r] /\ Active(r)' = Active(r)
    BY <1>2 DEF Active
  <2>2. UNCHANGED relEvents /\ ~(relEvents[new] > 0)
    BY <1>1 DEF CommitReserve, ReleasesAreEmitted, IInv
  <2> QED BY <1>1, <1>2, <2>1, <2>2 DEF ReleasesAreEmitted, IInv
<1>7. ScannedAreExpired'
  BY <1>1, <1>2 DEF ScannedAreExpired, CommitReserve, IInv, TypeOK
<1>8. OnlyApprovedHold'
  BY <1>1, <1>2 DEF OnlyApprovedHold, CommitReserve, IInv
<1> QED BY <1>3, <1>4, <1>5, <1>6, <1>7, <1>8 DEF RowsInv

\* The end of a hold, whoever ends it: an event is written for every release,
\* and the lot is announced free or sold, now or by that event's handler.
LEMMA EndRows ==
  ASSUME IInv, NEW r \in ResIds, NEW how \in EndStates, rows[r] # Null, EndHold(r, how),
         \/ relEvents' = [relEvents EXCEPT ![r] = @ + 1]
         \/ how = "consumed" /\ UNCHANGED relEvents,
         unheard \subseteq unheard',
         \/ rows[r].lot \in unheard' /\ UNCHANGED announced
         \/ \E st \in {"available", "sold"} :
              announced' = [announced EXCEPT ![rows[r].lot] = st],
         UNCHANGED <<clock, vendors, tx>>,
         \A s \in Scanners : scan'[s] \subseteq scan[s]
  PROVE  RowsInv'
<1> DEFINE lot == rows[r].lot
<1> TypeOK
  BY DEF IInv
<1>1. /\ lot \in Lots
      /\ rows'[r] # Null /\ rows'[r].state # "active" /\ rows'[r].lot = lot
      /\ rows'[r].state = IF Active(r) THEN how ELSE rows[r].state
      /\ rows'[r].vendor = rows[r].vendor /\ rows'[r].expiresAt = rows[r].expiresAt
      /\ \A q \in ResIds : q # r => rows'[q] = rows[q]
  BY EndHoldActive
<1>2. \A l \in Lots : ActiveOn(l)' \subseteq ActiveOn(l)
                      /\ (l # lot => ActiveOn(l)' = ActiveOn(l))
  BY <1>1 DEF ActiveOn, Active
<1>3. UncommittedIsAlone'
  BY <1>2 DEF UncommittedIsAlone, IInv, LocksHeld
<1>4. AtMostOneActive'
  BY <1>1 DEF AtMostOneActive, Active, IInv
<1>5. ReservedAnnouncementIsTrue'
  <2> SUFFICES ASSUME NEW l \in Lots, announced'[l] = "reserved"
               PROVE  ActiveOn(l)' # {} \/ l \in unheard'
    BY DEF ReservedAnnouncementIsTrue
  <2>1. CASE l = lot
    BY <1>1, <2>1 DEF TypeOK
  <2>2. CASE l # lot
    BY <1>1, <1>2, <2>2 DEF TypeOK, ReservedAnnouncementIsTrue, IInv
  <2> QED BY <2>1, <2>2
<1>6. ReleasesAreEmitted'
  <2> SUFFICES ASSUME NEW q \in ResIds
               PROVE  /\ relEvents'[q] > 0 => rows'[q] # Null /\ ~Active(q)'
                      /\ rows'[q] # Null /\ rows'[q].state = "released" => relEvents'[q] > 0
    BY DEF ReleasesAreEmitted
  <2>1. CASE q # r
    BY <1>1, <2>1 DEF ReleasesAreEmitted, IInv, Active, TypeOK
  <2>2. ASSUME q = r, rows'[r].state = "released" PROVE relEvents'[r] > 0
    <3>1. relEvents[r] \in Nat
      BY DEF TypeOK
    <3>2. CASE relEvents' = [relEvents EXCEPT ![r] = @ + 1]
      BY <3>1, <3>2 DEF TypeOK
    <3>3. CASE how = "consumed" /\ UNCHANGED relEvents
      BY <1>1, <2>2, <3>3 DEF ReleasesAreEmitted, IInv
    <3> QED BY <3>2, <3>3
  <2> QED BY <1>1, <2>1, <2>2 DEF Active
<1>7. ScannedAreExpired'
  BY <1>1 DEF ScannedAreExpired, IInv, TypeOK
<1>8. OnlyApprovedHold'
  BY <1>1 DEF OnlyApprovedHold, IInv
<1> QED BY <1>3, <1>4, <1>5, <1>6, <1>7, <1>8 DEF RowsInv

\* Steps that leave the rows and their events alone and reserve no lot.
LEMMA OtherRows ==
  ASSUME IInv, UNCHANGED <<rows, relEvents>>,
         \A l \in Lots : announced'[l] = "reserved" =>
           announced[l] = "reserved" /\ (l \in unheard => l \in unheard'),
         clock' \in Nat, clock' >= clock,
         \A v \in Vendors : vendors[v] = "approved" => vendors'[v] = "approved",
         \A t \in Txs : tx'[t].pc = "inserted" /\ tx'[t] # tx[t] =>
           \E u \in Txs : tx'[t].lot = tx[u].lot /\ ActiveOn(tx[u].lot) = {},
         \A s \in Scanners : \A r \in scan'[s] : r \in scan[s] \/ (r \in ResIds /\ Expired(r))
  PROVE  RowsInv'
<1> TypeOK
  BY DEF IInv
<1>1. \A l : ActiveOn(l)' = ActiveOn(l)
  BY DEF ActiveOn, Active
<1>2. UncommittedIsAlone'
  BY <1>1 DEF UncommittedIsAlone, IInv, ActiveOn, Active
<1>3. AtMostOneActive'
  BY DEF AtMostOneActive, Active, IInv
<1>4. ReservedAnnouncementIsTrue'
  BY <1>1 DEF ReservedAnnouncementIsTrue, IInv
<1>5. ReleasesAreEmitted'
  BY DEF ReleasesAreEmitted, Active, IInv
<1>6. ScannedAreExpired'
  <2> SUFFICES ASSUME NEW s \in Scanners, NEW r \in scan'[s]
               PROVE  rows'[r] # Null /\ rows'[r].expiresAt < clock'
    BY DEF ScannedAreExpired
  <2>1. r \in ResIds /\ rows[r] # Null /\ rows[r].expiresAt < clock
    BY DEF ScannedAreExpired, IInv, Expired, Active, TypeOK
  <2>2. rows[r].expiresAt \in Nat
    BY <2>1 DEF TypeOK, Row
  <2> QED BY <2>1, <2>2 DEF TypeOK
<1>7. OnlyApprovedHold'
  <2>1. \A r \in ResIds : rows[r] # Null => rows[r].vendor \in Vendors
    BY DEF TypeOK, Row
  <2> QED BY <2>1 DEF OnlyApprovedHold, IInv
<1> QED BY <1>2, <1>3, <1>4, <1>5, <1>6, <1>7 DEF RowsInv

LEMMA RowsStep ==
  ASSUME IInv, [Next]_vars
  PROVE  RowsInv'
<1> TypeOK
  BY DEF IInv
<1>1. ASSUME NEW t \in Txs, ReserveStep(t) PROVE RowsInv'
  <2>1. ASSUME NEW l \in Lots, NEW v \in Vendors, TryLock(t, l, v) PROVE RowsInv'
    <3>1. \A u \in Txs : tx'[u].pc = "inserted" => tx'[u] = tx[u]
      BY <2>1 DEF TryLock, TypeOK
    <3> QED BY <2>1, <3>1, OtherRows DEF TryLock, TypeOK, jobVars
  <2>2. ASSUME EndTx(t), UNCHANGED <<clock, lots, vendors, rows, jobVars>> PROVE RowsInv'
    <3>1. \A u \in Txs : tx'[u].pc = "inserted" => tx'[u] = tx[u]
      BY <2>2 DEF EndTx, IdleTx, TypeOK
    <3> QED BY <2>2, <3>1, OtherRows DEF TypeOK, jobVars
  <2>3. ASSUME NEW p \in Phases \ {"inserted"}, tx' = [tx EXCEPT ![t].pc = p],
               UNCHANGED <<clock, lots, vendors, rows, jobVars>>
        PROVE  RowsInv'
    <3>1. \A u \in Txs : tx'[u].pc = "inserted" => tx'[u] = tx[u]
      BY <2>3, PcStep
    <3> QED BY <2>3, <3>1, OtherRows DEF TypeOK, jobVars
  <2>4. CASE RecheckLot(t)
    BY <2>2, <2>3, <2>4 DEF RecheckLot, Phases
  <2>5. CASE CheckVendor(t)
    BY <2>2, <2>3, <2>5 DEF CheckVendor, Phases
  <2>6. CASE InsertRow(t)
    <3>1. CASE UniqueIndexAllows(tx[t].lot)
      <4>1. PICK r \in FreshIds : tx' = [tx EXCEPT ![t].pc = "inserted", ![t].id = r]
        BY <2>6, <3>1 DEF InsertRow
      <4>2. tx'[t].lot = tx[t].lot /\ \A u \in Txs : u # t => tx'[u] = tx[u]
        BY <4>1, InsertedStep DEF FreshIds
      <4>3. \A u \in Txs : tx'[u].pc = "inserted" /\ tx'[u] # tx[u] =>
              \E w \in Txs : tx'[u].lot = tx[w].lot /\ ActiveOn(tx[w].lot) = {}
        BY <3>1, <4>2 DEF UniqueIndexAllows
      <4>4. UNCHANGED <<clock, vendors, rows, scan, relEvents, unheard, announced>>
        BY <2>6 DEF InsertRow, jobVars
      <4>5. /\ clock' \in Nat /\ clock' >= clock
            /\ \A v \in Vendors : vendors[v] = "approved" => vendors'[v] = "approved"
            /\ \A s \in Scanners : \A q \in scan'[s] :
                 q \in scan[s] \/ (q \in ResIds /\ Expired(q))
        BY <4>4 DEF TypeOK
      <4> QED BY <4>3, <4>4, <4>5, OtherRows
    <3> QED BY <2>2, <2>6, <3>1 DEF InsertRow
  <2>7. CASE CommitReserve(t)
    BY <2>7, CommitRows
  <2>8. CASE AbortReserve(t)
    BY <2>2, <2>8 DEF AbortReserve
  <2> QED BY <1>1, <2>1, <2>4, <2>5, <2>6, <2>7, <2>8 DEF ReserveStep
<1>2. ASSUME NEW r \in ResIds, Release(r) PROVE RowsInv'
  <2>1. \A s \in Scanners : scan'[s] \subseteq scan[s]
    BY <1>2 DEF Release
  <2> QED BY <1>2, <2>1, EndRows DEF Release, Active, MarkReleased, EmitReleased, AnnounceFree,
                                     EndStates
<1>3. ASSUME NEW s \in Scanners, ExpireStep(s) PROVE RowsInv'
  <2>1. CASE StartScan(s)
    <3>1. \A z \in Scanners : \A r \in scan'[z] :
            r \in scan[z] \/ (r \in ResIds /\ Expired(r))
      BY <2>1 DEF StartScan, ScanResults, TypeOK
    <3> QED BY <2>1, <3>1, OtherRows DEF StartScan, TypeOK, dbVars
  <2>2. ASSUME NEW r \in ResIds, ExpireRow(s, r) PROVE RowsInv'
    <3>1. rows[r] # Null
      BY <2>2 DEF ExpireRow, IInv, ScannedAreExpired
    <3>2. \A z \in Scanners : scan'[z] \subseteq scan[z]
      BY <2>2 DEF ExpireRow, TypeOK
    <3> QED BY <2>2, <3>1, <3>2, EndRows DEF ExpireRow, MarkReleased, EmitReleased, AnnounceFree,
                                            EndStates
  <2>3. ASSUME NEW r \in ResIds, ExpireRowFails(s, r) PROVE RowsInv'
    BY <2>3, OtherRows DEF ExpireRowFails, TypeOK, dbVars
  <2>4. CASE WorkerCrash(s)
    BY <2>4, OtherRows DEF WorkerCrash, TypeOK, dbVars
  <2> QED BY <1>3, <2>1, <2>2, <2>3, <2>4 DEF ExpireStep
<1>4. CASE OrganizerStep
  <2>1. ASSUME NEW v \in Vendors, NEW d \in {"approved", "rejected"}, DecideVendor(v, d)
        PROVE  RowsInv'
    BY <2>1, OtherRows DEF DecideVendor, TypeOK, jobVars
  <2>2. ASSUME NEW l \in Lots, NEW st \in LotStatus, UpdateLotStatus(l, st) PROVE RowsInv'
    BY <2>2, OtherRows DEF UpdateLotStatus, TypeOK, jobVars
  <2>3. ASSUME NEW l \in Lots, DeleteLot(l) PROVE RowsInv'
    BY <2>3, OtherRows DEF DeleteLot, TypeOK, jobVars
  <2> QED BY <1>4, <2>1, <2>2, <2>3 DEF OrganizerStep
<1>5. CASE HandlerStep
  <2>1. ASSUME NEW r \in ResIds, SettlePaid(r) PROVE RowsInv'
    BY <2>1, EndRows DEF SettlePaid, EndStates
  <2>2. ASSUME NEW r \in ResIds, SettleFailed(r) PROVE RowsInv'
    BY <2>2, EndRows DEF SettleFailed, MarkReleased, EmitReleased, EndStates
  <2>3. ASSUME NEW l \in Lots, AnnounceReleased(l) PROVE RowsInv'
    <3>1. \A m \in Lots : announced'[m] = "reserved" =>
            announced[m] = "reserved" /\ (m \in unheard => m \in unheard')
      BY <2>3 DEF AnnounceReleased, AnnounceFree, TypeOK
    <3> QED BY <2>3, <3>1, OtherRows DEF AnnounceReleased, TypeOK, dbVars
  <2> QED BY <1>5, <2>1, <2>2, <2>3 DEF HandlerStep
<1>6. CASE Tick
  BY <1>6, OtherRows DEF Tick, TypeOK, dbVars, jobVars
<1>7. CASE UNCHANGED vars
  BY <1>7, OtherRows DEF vars, TypeOK
<1> QED BY <1>1, <1>2, <1>3, <1>4, <1>5, <1>6, <1>7 DEF Next

-----------------------------------------------------------------------------
(* The inductive invariant and what follows from it *)

LEMMA InitIInv == Init => IInv
<1> SUFFICES ASSUME Init PROVE IInv
  OBVIOUS
<1>1. TypeOK
  BY IdleTxType DEF Init, TypeOK, Lot, LotStatus, VendorStatus
<1>2. LocksHeld /\ IdsAreFresh /\ UncommittedIsAlone /\ ApprovalStands
  BY DEF Init, IdleTx, LocksHeld, IdsAreFresh, UncommittedIsAlone, ApprovalStands
<1>3. AtMostOneActive /\ ReservedAnnouncementIsTrue /\ ReleasesAreEmitted
      /\ ScannedAreExpired /\ OnlyApprovedHold
  BY DEF Init, AtMostOneActive, ReservedAnnouncementIsTrue, ReleasesAreEmitted,
         ScannedAreExpired, OnlyApprovedHold, Active
<1> QED BY <1>1, <1>2, <1>3 DEF IInv

LEMMA NextIInv == IInv /\ [Next]_vars => IInv'
<1> SUFFICES ASSUME IInv, [Next]_vars PROVE IInv'
  OBVIOUS
<1>1. TypeOK'
  BY TypeStep DEF IInv
<1>2. LocksHeld' /\ IdsAreFresh' /\ ApprovalStands'
  BY TxStep
<1>3. RowsInv'
  BY RowsStep
<1> QED BY <1>1, <1>2, <1>3 DEF IInv, RowsInv

\* Every reachable state satisfies the inductive invariant.
THEOREM Invariance == Spec => []IInv
  BY InitIInv, NextIInv, PTL DEF Spec

\* All tables, locks and jobs stay well formed.
THEOREM TypeCorrect == Spec => []TypeOK
<1>1. IInv => TypeOK
  BY DEF IInv
<1> QED BY <1>1, Invariance, PTL

\* No interleaving of reserving, releasing and expiring gives a lot to two
\* reservations at a time, for any number of lots, vendors and transactions.
THEOREM NoDoubleHold == Spec => []AtMostOneActive
<1>1. IInv => AtMostOneActive
  BY DEF IInv
<1> QED BY <1>1, Invariance, PTL

\* A lot announced as reserved is reserved, or about to be announced free.
THEOREM AnnouncedIsReserved == Spec => []ReservedAnnouncementIsTrue
<1>1. IInv => ReservedAnnouncementIsTrue
  BY DEF IInv
<1> QED BY <1>1, Invariance, PTL

\* Every released row, and no active one, has its lot.released event.
THEOREM ReleaseIsEmitted == Spec => []ReleasesAreEmitted
<1>1. IInv => ReleasesAreEmitted
  BY DEF IInv
<1> QED BY <1>1, Invariance, PTL

\* Every holder of a lot is an approved vendor.
THEOREM HoldersAreApproved == Spec => []OnlyApprovedHold
<1>1. IInv => OnlyApprovedHold
  BY DEF IInv
<1> QED BY <1>1, Invariance, PTL

\* A stale scan never ends a hold that still has time left.
THEOREM ScansAreLate == Spec => []ScannedAreExpired
<1>1. IInv => ScannedAreExpired
  BY DEF IInv
<1> QED BY <1>1, Invariance, PTL

\* Only a cancellation or a payment ends a hold before its 15 minutes are over.
THEOREM EarlyEnd == Spec => EarlyEndIsDeliberate
<1> DEFINE Early == \A r \in ResIds : Active(r) /\ ~Active(r)' /\ ~Expired(r) => UNCHANGED scan
<1>1. IInv /\ [Next]_vars => [Early]_vars
  <2> SUFFICES ASSUME IInv, Next, NEW r \in ResIds, Active(r), ~Active(r)', ~Expired(r)
               PROVE  UNCHANGED scan
    BY DEF Active
  <2>1. ~UNCHANGED rows
    BY DEF Active
  <2>2. ASSUME NEW t \in Txs, ReserveStep(t) PROVE UNCHANGED scan
    BY <2>2 DEF ReserveStep, TryLock, RecheckLot, CheckVendor, InsertRow, CommitReserve,
                AbortReserve, jobVars
  <2>3. ASSUME NEW q \in ResIds, Release(q) PROVE UNCHANGED scan
    BY <2>3 DEF Release
  <2>4. ASSUME NEW s \in Scanners, ExpireStep(s) PROVE FALSE
    <3>1. PICK q \in ResIds : ExpireRow(s, q)
      BY <2>1, <2>4 DEF ExpireStep, StartScan, ExpireRowFails, WorkerCrash, dbVars
    <3>2. rows[q] # Null /\ rows[q].expiresAt < clock
      BY <3>1 DEF ExpireRow, IInv, ScannedAreExpired
    <3>3. q # r
      BY <3>2 DEF Active, Expired
    <3>4. rows'[r] = rows[r]
      BY <3>1, <3>3 DEF ExpireRow, MarkReleased, EndHold, IInv, TypeOK
    <3> QED BY <3>4 DEF Active
  <2>5. CASE OrganizerStep \/ Tick
    BY <2>1, <2>5 DEF OrganizerStep, DecideVendor, UpdateLotStatus, DeleteLot, Tick, dbVars
  <2>6. CASE HandlerStep
    BY <2>6 DEF HandlerStep, SettlePaid, SettleFailed, AnnounceReleased
  <2> QED BY <2>2, <2>3, <2>4, <2>5, <2>6 DEF Next
<1> QED BY <1>1, Invariance, PTL DEF Spec, EarlyEndIsDeliberate

-----------------------------------------------------------------------------
(* Reservations implement LotLease *)

\* The lease of a lot is its active row, which is unique.
LEMMA LeaseValue ==
  ASSUME IInv, NEW l \in Lots
  PROVE  /\ ActiveOn(l) = {} => LeaseOf[l] = Null
         /\ \A r \in ActiveOn(l) : LeaseOf[l] = r /\ ActiveOn(l) = {r}
<1>1. \A r, q \in ActiveOn(l) : r = q
  BY DEF ActiveOn, IInv, AtMostOneActive
<1>2. ActiveOn(l) # {} => (CHOOSE r \in ActiveOn(l) : TRUE) \in ActiveOn(l)
  OBVIOUS
<1> QED BY <1>1, <1>2 DEF LeaseOf, Holder

\* A step that changes no row changes neither the leases nor the ended holds.
LEMMA SameRowsSameLease ==
  ASSUME UNCHANGED rows
  PROVE  UNCHANGED <<LeaseOf, Ended>>
<1>1. \A l : ActiveOn(l)' = ActiveOn(l)
  BY DEF ActiveOn, Active
<1>2. \A r : Active(r)' = Active(r)
  BY DEF Active
<1> QED BY <1>1, <1>2 DEF LeaseOf, Ended

LEMMA CommitAcquires ==
  ASSUME IInv, IInv', NEW t \in Txs, CommitReserve(t)
  PROVE  Lease!Acquire(tx[t].lot, tx[t].id) /\ tx[t].lot \in Lots /\ tx[t].id \in ResIds
<1> DEFINE new == tx[t].id
           lot == tx[t].lot
<1>1. /\ new \in ResIds /\ lot \in Lots /\ rows[new] = Null /\ ActiveOn(lot) = {}
      /\ \A l \in Lots : ActiveOn(l)' = IF l = lot THEN {new} ELSE ActiveOn(l)
  BY CommitActive
<1>2. LeaseOf[lot] = Null
  BY <1>1, LeaseValue
<1>3. new \notin Ended
  BY <1>1 DEF Ended
<1>4. ASSUME NEW m \in Lots PROVE LeaseOf[m] # new
  <2>1. CASE ActiveOn(m) = {}
    BY <2>1, <1>1, LeaseValue, ConstantsAssumption
  <2>2. CASE ActiveOn(m) # {}
    BY <2>2, <1>1, LeaseValue DEF ActiveOn, Active
  <2> QED BY <2>1, <2>2
<1>5. LeaseOf' = [LeaseOf EXCEPT ![lot] = new]
  <2>1. Holder({new}) = new
    BY DEF Holder
  <2> QED BY <1>1, <2>1 DEF LeaseOf
<1>6. UNCHANGED Ended
  <2>1. rows'[new].state = "active" /\ \A r \in ResIds : r # new => rows'[r] = rows[r]
    BY <1>1 DEF CommitReserve, NewRow, IInv, TypeOK
  <2>2. rows[new] = Null /\ rows'[new].state = "active"
    BY <1>1, <2>1
  <2>3. \A r \in ResIds : r \in Ended' <=> r \in Ended
    BY <1>1, <2>1, <2>2 DEF Ended, Active
  <2> QED BY <2>3 DEF Ended
<1> QED BY <1>1, <1>2, <1>3, <1>4, <1>5, <1>6 DEF Lease!Acquire

LEMMA EndHoldEnds ==
  ASSUME IInv, NEW r \in ResIds, NEW how \in EndStates, rows[r] # Null, EndHold(r, how)
  PROVE  Lease!LeaseNext \/ UNCHANGED <<LeaseOf, Ended>>
<1> DEFINE lot == rows[r].lot
<1>1. /\ lot \in Lots
      /\ rows'[r] # Null /\ rows'[r].state # "active"
      /\ \A q \in ResIds \ {r} : rows'[q] = rows[q]
      /\ \A l \in Lots : ActiveOn(l)' = IF l = lot THEN ActiveOn(l) \ {r} ELSE ActiveOn(l)
  BY EndHoldActive DEF IInv
<1>2. CASE Active(r)
  <2>1. ActiveOn(lot) = {r} /\ LeaseOf[lot] = r
    BY <1>1, <1>2, LeaseValue DEF ActiveOn
  <2>2. LeaseOf' = [LeaseOf EXCEPT ![lot] = Null]
    <3>1. Holder({}) = Null
      BY DEF Holder
    <3>2. ActiveOn(lot) \ {r} = {}
      BY <2>1
    <3> QED BY <1>1, <3>1, <3>2 DEF LeaseOf
  <2>3. Ended' = Ended \cup {r}
    BY <1>1 DEF Ended, Active
  <2>4. r # Null
    BY ConstantsAssumption
  <2> QED BY <1>1, <2>1, <2>2, <2>3, <2>4 DEF Lease!LeaseNext, Lease!End
<1>3. CASE ~Active(r)
  BY <1>3, SameRowsSameLease DEF EndHold
<1> QED BY <1>2, <1>3

\* The reservation system implements the lease of a lot: every step is an
\* Acquire, an End, or invisible; a second expiry of a row is invisible.
THEOREM Refinement == Spec => ImplementsLotLease
<1>1. Init => Lease!LeaseInit
  <2> SUFFICES ASSUME Init PROVE Lease!LeaseInit
    OBVIOUS
  <2>1. \A l : ActiveOn(l) = {}
    BY DEF Init, ActiveOn, Active
  <2>2. Holder({}) = Null
    BY DEF Holder
  <2>3. Ended = {}
    BY DEF Init, Ended
  <2> QED BY <2>1, <2>2, <2>3 DEF Lease!LeaseInit, LeaseOf
<1>2. IInv /\ IInv' /\ [Next]_vars => [Lease!LeaseNext]_(Lease!leaseVars)
  <2> SUFFICES ASSUME IInv, IInv', [Next]_vars
               PROVE  Lease!LeaseNext \/ UNCHANGED <<LeaseOf, Ended>>
    BY DEF Lease!leaseVars
  <2>1. ASSUME NEW t \in Txs, ReserveStep(t)
        PROVE  Lease!LeaseNext \/ UNCHANGED <<LeaseOf, Ended>>
    <3>1. CASE CommitReserve(t)
      BY <3>1, CommitAcquires DEF Lease!LeaseNext
    <3>2. CASE ~CommitReserve(t)
      <4>1. UNCHANGED rows
        BY <2>1, <3>2 DEF ReserveStep, TryLock, RecheckLot, CheckVendor, InsertRow, AbortReserve
      <4> QED BY <4>1, SameRowsSameLease
    <3> QED BY <3>1, <3>2
  <2>2. ASSUME NEW r \in ResIds, Release(r)
        PROVE  Lease!LeaseNext \/ UNCHANGED <<LeaseOf, Ended>>
    BY <2>2, EndHoldEnds DEF Release, Active, MarkReleased, EndStates
  <2>3. ASSUME NEW s \in Scanners, ExpireStep(s)
        PROVE  Lease!LeaseNext \/ UNCHANGED <<LeaseOf, Ended>>
    <3>1. ASSUME NEW r \in ResIds, ExpireRow(s, r)
          PROVE  Lease!LeaseNext \/ UNCHANGED <<LeaseOf, Ended>>
      BY <3>1, EndHoldEnds DEF ExpireRow, MarkReleased, EndStates, IInv, ScannedAreExpired
    <3>2. CASE UNCHANGED rows
      BY <3>2, SameRowsSameLease
    <3> QED BY <2>3, <3>1, <3>2 DEF ExpireStep, StartScan, ExpireRowFails, WorkerCrash, dbVars
  <2>4. CASE HandlerStep
    <3>1. ASSUME NEW r \in ResIds, SettlePaid(r) \/ SettleFailed(r)
          PROVE  Lease!LeaseNext \/ UNCHANGED <<LeaseOf, Ended>>
      BY <3>1, EndHoldEnds DEF SettlePaid, SettleFailed, MarkReleased, EndStates
    <3>2. CASE UNCHANGED rows
      BY <3>2, SameRowsSameLease
    <3> QED BY <2>4, <3>1, <3>2 DEF HandlerStep, AnnounceReleased, dbVars
  <2>5. CASE OrganizerStep \/ Tick \/ UNCHANGED vars
    <3>1. UNCHANGED rows
      BY <2>5 DEF OrganizerStep, DecideVendor, UpdateLotStatus, DeleteLot, Tick, dbVars, vars
    <3> QED BY <3>1, SameRowsSameLease
  <2> QED BY <2>1, <2>2, <2>3, <2>4, <2>5 DEF Next
<1> QED BY <1>1, <1>2, Invariance, PTL DEF Spec, ImplementsLotLease, Lease!LeaseSpec
=============================================================================
