---------------------------- MODULE Reservations ----------------------------
(***************************************************************************)
(* The 15-minute hold on a lot: reserveLotInTenant and                     *)
(* releaseReservationInTenant (src/lib/actions/reservations.ts), the       *)
(* reservation.expire job (src/jobs/tasks/reservation-expire.ts), what the *)
(* outbox handlers payment-paid, payment-failed and lot-released do to a   *)
(* hold, and the organizer's writes to the rows they read (lots.ts,        *)
(* fornecedores.ts): every writer of lot_reservations.released_at.  Which  *)
(* payment settles which hold is the business of SaleSaga.                 *)
(*                                                                         *)
(* A variable is a table as committed, except tx (the web transactions in  *)
(* progress, one step per SQL statement whose answer another transaction   *)
(* can change), advisory (Postgres' advisory locks) and scan (the rows a   *)
(* running expire job holds in memory).  Postgres runs READ COMMITTED.     *)
(* A handler that writes in one statement is one step.                     *)
(***************************************************************************)
EXTENDS Integers, FiniteSets

CONSTANTS
  Lots,        \* ids of lots
  Vendors,     \* ids of vendors (fornecedores)
  Txs,         \* web transactions that may be in progress together
  Scanners,    \* expire jobs that may run together (worker concurrency is 5)
  ResIds,      \* reservation ids; the bound on how many rows are inserted
  TTL,         \* life of a reservation, in ticks
  BatchLimit,  \* LIMIT of the expire scan
  MaxTime,     \* bound on clock
  MaxEvents,   \* bound on the lot.released events payment-failed writes
  Null

ASSUME ConstantsAssumption ==
  /\ TTL \in Nat \ {0}
  /\ BatchLimit \in Nat \ {0}
  /\ MaxTime \in Nat
  /\ MaxEvents \in Nat
  /\ Null \notin Lots \cup Vendors \cup Txs \cup ResIds

LotStatus    == {"available", "reserved", "sold"}
Lot          == [status : LotStatus, deleted : {"no", "yes"}]
VendorStatus == {"pending", "approved", "rejected"}

\* A row of lot_reservations; state is "active" while released_at IS NULL,
\* "consumed" if payment-paid set released_at, which announces no release.
EndStates == {"released", "consumed"}
Row == [lot : Lots, vendor : Vendors, expiresAt : Nat, state : {"active"} \cup EndStates]

ASSUME NullIsNoRow == Null \notin Row

VARIABLES
  clock,      \* now()
  lots,       \* lots[l]: [status, deleted]
  vendors,    \* vendors[v]: vendors.status
  rows,       \* rows[r]: row of lot_reservations, or Null before its INSERT
  advisory,   \* advisory[l]: transaction that owns the lock 'lot:{event}:{l}'
  tx,         \* tx[t]: a reserveLotInTenant in progress
  scan,       \* scan[s]: rows a running expire job still has to release
  relEvents,  \* relEvents[r]: lot.released outbox events written for r
  unheard,    \* lots with a lot.released event whose handler has still to run
  announced   \* announced[l]: new_status of the last lot.status_changed written for l

dbVars  == <<lots, vendors, rows, advisory, tx>>
jobVars == <<scan, relEvents, unheard, announced>>
vars    == <<clock, lots, vendors, rows, advisory, tx, scan, relEvents, unheard, announced>>

Phases == {"idle", "locked", "lotChecked", "vendorChecked", "inserted"}
Tx     == [pc : Phases, lot : Lots \cup {Null}, vendor : Vendors \cup {Null},
           start : Nat, id : ResIds \cup {Null}]
IdleTx == [pc |-> "idle", lot |-> Null, vendor |-> Null, start |-> 0, id |-> Null]

TypeOK ==
  /\ clock \in Nat
  /\ lots \in [Lots -> Lot]
  /\ vendors \in [Vendors -> VendorStatus]
  /\ rows \in [ResIds -> Row \cup {Null}]
  /\ advisory \in [Lots -> Txs \cup {Null}]
  /\ tx \in [Txs -> Tx]
  /\ scan \in [Scanners -> SUBSET ResIds]
  /\ relEvents \in [ResIds -> Nat]
  /\ unheard \in SUBSET Lots
  /\ announced \in [Lots -> LotStatus]

Init ==
  /\ clock = 0
  /\ lots = [l \in Lots |-> [status |-> "available", deleted |-> "no"]]
  /\ vendors = [v \in Vendors |-> "pending"]
  /\ rows = [r \in ResIds |-> Null]
  /\ advisory = [l \in Lots |-> Null]
  /\ tx = [t \in Txs |-> IdleTx]
  /\ scan = [s \in Scanners |-> {}]
  /\ relEvents = [r \in ResIds |-> 0]
  /\ unheard = {}
  /\ announced = [l \in Lots |-> "available"]

-----------------------------------------------------------------------------
(* Reading the tables *)

Active(r)     == rows[r] # Null /\ rows[r].state = "active"
ActiveOn(l)   == {r \in ResIds : Active(r) /\ rows[r].lot = l}
Expired(r)    == Active(r) /\ rows[r].expiresAt < clock
InsertedBy(t) == tx[t].pc = "inserted"
Reservable(l) == lots[l].status = "available" /\ lots[l].deleted = "no"

\* mutant: the index the header of reservations.ts:22-25 describes
UniqueIndexAllows_Unexpired(l) == \A r \in ActiveOn(l) : Expired(r)

\* lot_reservations_lot_id_active_unique: no second row with released_at IS
\* NULL on the lot.  The predicate does not mention expires_at.
UniqueIndexAllows(l) == ActiveOn(l) = {}

\* Ids no committed row and no transaction in progress has drawn yet.
FreshIds == {r \in ResIds : rows[r] = Null /\ \A t \in Txs : tx[t].id # r}

-----------------------------------------------------------------------------
(* reserveLotInTenant *)

\* COMMIT and ROLLBACK both drop the transaction's advisory lock.
EndTx(t) ==
  /\ tx' = [tx EXCEPT ![t] = IdleTx]
  /\ advisory' = [l \in Lots |-> IF advisory[l] = t THEN Null ELSE advisory[l]]

\* Layer 1: pg_try_advisory_xact_lock, which never waits.  A caller that
\* finds the lock taken is turned away and leaves no trace.
TryLock(t, l, v) ==
  /\ tx[t].pc = "idle"
  /\ advisory[l] = Null
  /\ FreshIds # {}
  /\ clock + TTL < MaxTime
  /\ advisory' = [advisory EXCEPT ![l] = t]
  /\ tx' = [tx EXCEPT ![t] = [pc |-> "locked", lot |-> l, vendor |-> v,
                              start |-> clock, id |-> Null]]
  /\ UNCHANGED <<clock, lots, vendors, rows, jobVars>>

\* Layer 2: the lot is read again under the lock.
RecheckLot(t) ==
  /\ tx[t].pc = "locked"
  /\ IF Reservable(tx[t].lot)
       THEN tx' = [tx EXCEPT ![t].pc = "lotChecked"] /\ UNCHANGED advisory
       ELSE EndTx(t)
  /\ UNCHANGED <<clock, lots, vendors, rows, jobVars>>

CheckVendor(t) ==
  /\ tx[t].pc = "lotChecked"
  /\ IF vendors[tx[t].vendor] = "approved"
       THEN tx' = [tx EXCEPT ![t].pc = "vendorChecked"] /\ UNCHANGED advisory
       ELSE EndTx(t)
  /\ UNCHANGED <<clock, lots, vendors, rows, jobVars>>

\* Layer 3: the INSERT.  A 23505 aborts the transaction; an uncommitted row
\* of the same lot makes the INSERT wait for that transaction's end.
InsertRow(t) ==
  /\ tx[t].pc = "vendorChecked"
  /\ \A u \in Txs : ~(InsertedBy(u) /\ tx[u].lot = tx[t].lot)
  /\ IF UniqueIndexAllows(tx[t].lot)
       THEN /\ \E r \in FreshIds : tx' = [tx EXCEPT ![t].pc = "inserted", ![t].id = r]
            /\ UNCHANGED advisory
       ELSE EndTx(t)
  /\ UNCHANGED <<clock, lots, vendors, rows, jobVars>>

\* COMMIT: the row (expires_at = the transaction's now() + 15 minutes), its
\* lot.reserved and lot.status_changed events and the NOTIFY become visible
\* together.
NewRow(t) == [lot |-> tx[t].lot, vendor |-> tx[t].vendor,
              expiresAt |-> tx[t].start + TTL, state |-> "active"]

CommitReserve(t) ==
  /\ tx[t].pc = "inserted"
  /\ rows' = [rows EXCEPT ![tx[t].id] = NewRow(t)]
  /\ announced' = [announced EXCEPT ![tx[t].lot] = "reserved"]
  /\ EndTx(t)
  /\ UNCHANGED <<clock, lots, vendors, scan, relEvents, unheard>>

\* The request dies or its connection is lost before COMMIT.
AbortReserve(t) ==
  /\ tx[t].pc # "idle"
  /\ EndTx(t)
  /\ UNCHANGED <<clock, lots, vendors, rows, jobVars>>

-----------------------------------------------------------------------------
(* The end of a hold: cancelled, expired, paid for, or its payment failed *)

MarkReleased_Deletes(r) == rows' = [rows EXCEPT ![r] = Null]      \* mutant: DELETE for UPDATE
EmitReleased_Drops(r)   ==                                        \* mutant: emit forgotten
  r \in ResIds /\ UNCHANGED <<relEvents, unheard>>
AnnounceFree_Drops(l)   == l \in Lots /\ UNCHANGED announced      \* mutant: emit forgotten

\* UPDATE lot_reservations SET released_at = now() WHERE released_at IS NULL.
EndHold(r, how) == rows' = IF Active(r) THEN [rows EXCEPT ![r].state = how] ELSE rows

MarkReleased(r) == EndHold(r, "released")
EmitReleased(r) == /\ relEvents' = [relEvents EXCEPT ![r] = @ + 1]
                   /\ unheard' = unheard \cup {rows[r].lot}
AnnounceFree(l) == announced' = [announced EXCEPT ![l] = "available"]

\* releaseReservationInTenant: nothing is emitted when the UPDATE finds no row.
Release(r) ==
  /\ Active(r)
  /\ MarkReleased(r)
  /\ EmitReleased(r)
  /\ AnnounceFree(rows[r].lot)
  /\ UNCHANGED <<clock, lots, vendors, advisory, tx, scan>>

ScanResults_AnyActive ==   \* mutant: expires_at < now() forgotten
  {S \in SUBSET {r \in ResIds : Active(r)} : Cardinality(S) = BatchLimit}
ScanResults_LiveLots ==    \* mutant: joins lots WHERE deleted_at IS NULL
  {S \in SUBSET {r \in ResIds : Expired(r) /\ lots[rows[r].lot].deleted = "no"} :
     Cardinality(S) = BatchLimit}

\* The scan of reservation.expire commits at once, so its row locks are gone
\* before the first row is released: overlapping scans may pick one row twice.
ScanResults ==
  {S \in SUBSET {r \in ResIds : Expired(r)} :
     \/ S = {r \in ResIds : Expired(r)} /\ Cardinality(S) <= BatchLimit
     \/ Cardinality(S) = BatchLimit}

StartScan(s) ==
  /\ scan[s] = {}
  /\ \E S \in ScanResults : S # {} /\ scan' = [scan EXCEPT ![s] = S]
  /\ UNCHANGED <<clock, dbVars, relEvents, unheard, announced>>

\* One withTenant transaction per row.  The emits do not ask whether the UPDATE
\* found the row unreleased.
ExpireRow(s, r) ==
  /\ r \in scan[s]
  /\ MarkReleased(r)
  /\ EmitReleased(r)
  /\ AnnounceFree(rows[r].lot)
  /\ scan' = [scan EXCEPT ![s] = @ \ {r}]
  /\ UNCHANGED <<clock, lots, vendors, advisory, tx>>

\* The row's transaction fails: logged, the batch goes on.
ExpireRowFails(s, r) ==
  /\ r \in scan[s]
  /\ scan' = [scan EXCEPT ![s] = @ \ {r}]
  /\ UNCHANGED <<clock, dbVars, relEvents, unheard, announced>>

\* The worker process dies: what the job had in memory is lost.
WorkerCrash(s) ==
  /\ scan[s] # {}
  /\ scan' = [scan EXCEPT ![s] = {}]
  /\ UNCHANGED <<clock, dbVars, relEvents, unheard, announced>>

\* outbox.payment-paid: the lot is sold, under the same advisory lock, and the
\* reservation consumed, whether or not it was still active.
SettlePaid(r) ==
  /\ rows[r] # Null
  /\ advisory[rows[r].lot] = Null
  /\ EndHold(r, "consumed")
  /\ lots' = [lots EXCEPT ![rows[r].lot].status = IF lots[rows[r].lot].deleted = "no"
                                                    THEN "sold" ELSE @]
  /\ announced' = [announced EXCEPT ![rows[r].lot] = "sold"]
  /\ UNCHANGED <<clock, vendors, advisory, tx, scan, relEvents, unheard>>

\* outbox.payment-failed: lot.released is written whether or not the hold was
\* still active; the lot's status is announced by that event's handler.
SettleFailed(r) ==
  /\ rows[r] # Null
  /\ relEvents[r] < MaxEvents
  /\ MarkReleased(r)
  /\ EmitReleased(r)
  /\ UNCHANGED <<clock, lots, vendors, advisory, tx, scan, announced>>

\* outbox.lot-released, for one of the events of l: it reads nothing and
\* announces the lot as available.
AnnounceReleased(l) ==
  /\ l \in unheard
  /\ unheard' \in {unheard, unheard \ {l}}
  /\ AnnounceFree(l)
  /\ UNCHANGED <<clock, dbVars, scan, relEvents>>

-----------------------------------------------------------------------------
(* The organizer's writes *)

DecideVendor_AnyStatus(v, decision) ==   \* mutant: guard status = 'pending' dropped
  /\ vendors[v] # decision
  /\ vendors' = [vendors EXCEPT ![v] = decision]
  /\ UNCHANGED <<clock, lots, rows, advisory, tx, jobVars>>

\* approveVendorInTenant, rejectVendorInTenant: both UPDATEs are guarded by
\* status = 'pending', so both outcomes are final.
DecideVendor(v, decision) ==
  /\ vendors[v] = "pending"
  /\ vendors' = [vendors EXCEPT ![v] = decision]
  /\ UNCHANGED <<clock, lots, rows, advisory, tx, jobVars>>

\* updateLotStatusInTenant: any status to any status, reservations ignored.
UpdateLotStatus(l, status) ==
  /\ lots[l].deleted = "no"
  /\ lots' = [lots EXCEPT ![l].status = status]
  /\ UNCHANGED <<clock, vendors, rows, advisory, tx, jobVars>>

\* deleteLotInTenant: a soft delete, reservations ignored.
DeleteLot(l) ==
  /\ lots[l].deleted = "no"
  /\ lots' = [lots EXCEPT ![l].deleted = "yes"]
  /\ UNCHANGED <<clock, vendors, rows, advisory, tx, jobVars>>

Tick ==
  /\ clock < MaxTime
  /\ clock' = clock + 1
  /\ UNCHANGED <<dbVars, jobVars>>

-----------------------------------------------------------------------------
ReserveStep(t) ==
  \/ \E l \in Lots, v \in Vendors : TryLock(t, l, v)
  \/ RecheckLot(t)
  \/ CheckVendor(t)
  \/ InsertRow(t)
  \/ CommitReserve(t)
  \/ AbortReserve(t)

ExpireStep(s) ==
  \/ StartScan(s)
  \/ \E r \in ResIds : ExpireRow(s, r) \/ ExpireRowFails(s, r)
  \/ WorkerCrash(s)

HandlerStep ==
  \/ \E r \in ResIds : SettlePaid(r) \/ SettleFailed(r)
  \/ \E l \in Lots : AnnounceReleased(l)

OrganizerStep ==
  \/ \E v \in Vendors, d \in {"approved", "rejected"} : DecideVendor(v, d)
  \/ \E l \in Lots, st \in LotStatus : UpdateLotStatus(l, st)
  \/ \E l \in Lots : DeleteLot(l)

Next ==
  \/ \E t \in Txs : ReserveStep(t)
  \/ \E r \in ResIds : Release(r)
  \/ \E s \in Scanners : ExpireStep(s)
  \/ HandlerStep
  \/ OrganizerStep
  \/ Tick

Spec == Init /\ [][Next]_vars

\* The scheduler enqueues reservation.expire every 60 seconds for ever, so a
\* free worker starts a scan while rows are expired (weak), and the
\* transaction of a row does not fail every time it is tried (strong).
Fairness ==
  /\ WF_vars(Tick)
  /\ \A s \in Scanners : WF_vars(StartScan(s))
  /\ \A r \in ResIds : SF_vars(\E s \in Scanners : ExpireRow(s, r))
  /\ \A s \in Scanners : WF_vars(\E r \in ResIds : ExpireRow(s, r) \/ ExpireRowFails(s, r))

FairSpec == Spec /\ Fairness

-----------------------------------------------------------------------------
(* Properties *)

\* A lot never has two reservations with released_at IS NULL, whatever the
\* interleaving of reserving, releasing and expiring (reservations.ts:9-25).
AtMostOneActive ==
  \A r, q \in ResIds : Active(r) /\ Active(q) /\ rows[r].lot = rows[q].lot => r = q

\* A lot whose last announcement (the last lot.status_changed written, not what
\* a browser has received) is 'reserved' has an unreleased reservation,
\* or a lot.released event that will correct it: no announcement outlives the
\* hold it announced, although holds end in four places (reservations.ts:223,
\* reservation-expire.ts:86, payment-paid.ts:116, and lot-released.ts:56 for
\* payment-failed.ts, which announces nothing itself).
ReservedAnnouncementIsTrue ==
  \A l \in Lots : announced[l] = "reserved" => ActiveOn(l) # {} \/ l \in unheard

\* The outbox and the table agree: lot.released is never written for a hold
\* that goes on, and every reservation released, rather than consumed by a
\* payment, has its event: UPDATE and outbox INSERT share a transaction.
ReleasesAreEmitted ==
  \A r \in ResIds :
    /\ relEvents[r] > 0 => rows[r] # Null /\ ~Active(r)
    /\ rows[r] # Null /\ rows[r].state = "released" => relEvents[r] > 0

\* What an expire job holds in memory may be stale, but every row in it is a
\* reservation whose 15 minutes are over: no live hold is ever expired.
ScannedAreExpired ==
  \A s \in Scanners : \A r \in scan[s] : rows[r] # Null /\ rows[r].expiresAt < clock

\* Only approved vendors hold lots.  The approval is read one statement before
\* the INSERT without a row lock; it stays true because approval is final.
OnlyApprovedHold ==
  \A r \in ResIds : rows[r] # Null => vendors[rows[r].vendor] = "approved"

\* A hold ends early only on purpose: a step that releases r before its TTL is
\* a cancellation's or a payment's, never the expire job's.
EarlyEndIsDeliberate ==
  [][\A r \in ResIds :
       Active(r) /\ ~Active(r)' /\ ~Expired(r) => UNCHANGED scan]_vars

\* Reservations implement the lease of LotLease: a lot goes from one hold to
\* the next through being free, and a released reservation never revives.
Holder(S) == IF S = {} THEN Null ELSE CHOOSE r \in S : TRUE
LeaseOf   == [l \in Lots |-> Holder(ActiveOn(l))]
Ended     == {r \in ResIds : rows[r] # Null /\ ~Active(r)}

Lease == INSTANCE LotLease WITH Holds <- ResIds, Free <- Null, lease <- LeaseOf, ended <- Ended

ImplementsLotLease == Lease!LeaseSpec

\* Every hold ends: a vendor who walks away does not keep a lot for ever.
EveryHoldEnds == \A r \in ResIds : Active(r) ~> ~Active(r)
=============================================================================
