------------------------------ MODULE SaleSaga ------------------------------
(***************************************************************************)
(* From the hold on a lot to its sale: checkout                            *)
(* (src/lib/actions/checkout.ts), the settlement of the payment by         *)
(* payment.process-webhook or by the payment simulator                     *)
(* (src/lib/actions/payment-simulator.ts), and the outbox handlers that    *)
(* mark the lot sold and end the hold (src/jobs/outbox/handlers).          *)
(*                                                                         *)
(* Reserving is one step here, the lease that Reservations implements, and *)
(* an outbox event is an element of a set from which a handler may take it *)
(* several times (Outbox: dispatched once, handled at least once).  A      *)
(* settlement by webhook is one step (PaymentWebhook).                     *)
(***************************************************************************)
EXTENDS Naturals, Sequences

CONSTANTS
  Lots, Vendors,
  Payments,   \* payments rows; the bound on checkouts
  MaxRows,    \* bound on lot_reservations rows
  Null

ASSUME SagaAssumption ==
  /\ MaxRows \in Nat
  /\ Null \notin Lots \cup Vendors \cup Nat

\* A row of lot_reservations; its index in rows is the order of reserved_at.
Row == [lot : Lots, vendor : Vendors, active : BOOLEAN, lapsed : BOOLEAN]

\* A payments row with the contract it hangs on: (lot, vendor).  via says
\* whether gateway_order_id is a simulated one; row is the reservation the
\* checkout was for, which the schema does not keep.
Payment == [status : {"pending", "paid", "failed", "canceled"}, lot : Lots,
            vendor : Vendors, via : {"gateway", "simulator"}, row : 1 .. MaxRows]

ASSUME NullIsNothing == Null \notin Payment

\* An outbox event payment.paid or payment.failed; the webhook job leaves
\* lot_id and reservation_id out.
Event == [kind : {"paid", "failed"}, payment : Payments,
          lot : Lots \cup {Null}, row : (1 .. MaxRows) \cup {Null}]

VARIABLES
  lots,      \* lots[l]: lots.status
  rows,      \* the table lot_reservations
  payments,  \* payments[p]: Payment, or Null before it commits
  checkout,  \* checkout[p]: reservation of the checkout in progress, or Null
  checked,   \* simulations past their reads: events still to be written
  outbox     \* events whose handler is still to run

vars == <<lots, rows, payments, checkout, checked, outbox>>

TypeOK ==
  /\ lots \in [Lots -> {"available", "sold"}]
  /\ rows \in Seq(Row) /\ Len(rows) <= MaxRows
  /\ payments \in [Payments -> Payment \cup {Null}]
  /\ checkout \in [Payments -> (1 .. MaxRows) \cup {Null}]
  /\ checked \subseteq Event
  /\ outbox \subseteq Event

Init ==
  /\ lots = [l \in Lots |-> "available"]
  /\ rows = <<>>
  /\ payments = [p \in Payments |-> Null]
  /\ checkout = [p \in Payments |-> Null]
  /\ checked = {}
  /\ outbox = {}

-----------------------------------------------------------------------------
(* The hold *)

Reserve(l, v) ==
  /\ lots[l] = "available"
  /\ \A i \in DOMAIN rows : rows[i].lot = l => ~rows[i].active
  /\ Len(rows) < MaxRows
  /\ rows' = Append(rows, [lot |-> l, vendor |-> v, active |-> TRUE, lapsed |-> FALSE])
  /\ UNCHANGED <<lots, payments, checkout, checked, outbox>>

Released(i) == [rows EXCEPT ![i].active = FALSE]

\* releaseReservationInTenant
Cancel(i) ==
  /\ rows[i].active
  /\ rows' = Released(i)
  /\ UNCHANGED <<lots, payments, checkout, checked, outbox>>

\* expires_at passes.
Lapse(i) ==
  /\ ~rows[i].lapsed
  /\ rows' = [rows EXCEPT ![i].lapsed = TRUE]
  /\ UNCHANGED <<lots, payments, checkout, checked, outbox>>

\* reservation.expire
Expire(i) ==
  /\ rows[i].active /\ rows[i].lapsed
  /\ rows' = Released(i)
  /\ UNCHANGED <<lots, payments, checkout, checked, outbox>>

-----------------------------------------------------------------------------
(* checkoutCartInTenant: the reservation is checked first, the payment       *)
(* becomes visible at COMMIT, after the gateway has answered.                *)

\* Every submit draws its own idempotency key, so a second checkout of the
\* reservation passes.
StartCheckout(p, i) ==
  /\ payments[p] = Null /\ checkout[p] = Null
  /\ rows[i].active /\ ~rows[i].lapsed
  /\ checkout' = [checkout EXCEPT ![p] = i]
  /\ UNCHANGED <<lots, rows, payments, checked, outbox>>

CommitCheckout(p) ==
  /\ checkout[p] # Null
  /\ LET i == checkout[p] IN
       \E via \in {"gateway", "simulator"} :
         payments' = [payments EXCEPT ![p] =
                        [status |-> "pending", lot |-> rows[i].lot, vendor |-> rows[i].vendor,
                         via |-> via, row |-> i]]
  /\ checkout' = [checkout EXCEPT ![p] = Null]
  /\ UNCHANGED <<lots, rows, checked, outbox>>

\* The gateway refuses, or the transaction is lost.
AbortCheckout(p) ==
  /\ checkout[p] # Null
  /\ checkout' = [checkout EXCEPT ![p] = Null]
  /\ UNCHANGED <<lots, rows, payments, checked, outbox>>

-----------------------------------------------------------------------------
(* Settlement *)

Pending(p) == payments[p] # Null /\ payments[p].status = "pending"
Settled(p, status) == [payments EXCEPT ![p].status = status]

\* payment.process-webhook: payment.paid and payment.failed carry the order
\* and the payment only; a canceled order writes no event.
WebhookSettles(p, status) ==
  /\ Pending(p) /\ payments[p].via = "gateway"
  /\ payments' = Settled(p, status)
  /\ outbox' = outbox \cup
       IF status = "canceled" THEN {}
       ELSE {[kind |-> status, payment |-> p, lot |-> Null, row |-> Null]}
  /\ UNCHANGED <<lots, rows, checkout, checked>>

\* Mutant: the latest row of the lot, whoever's it is.
OldestRow_LatestOfLot(p, i) ==
  LET its == {j \in DOMAIN rows : rows[j].lot = payments[p].lot}
  IN  i \in its /\ \A j \in its : j <= i

\* findReservationByPayment: through the contract, the vendor's oldest
\* reservation of the lot, released ones included.
OldestRow(p, i) ==
  LET its == {j \in DOMAIN rows : /\ rows[j].lot = payments[p].lot
                                  /\ rows[j].vendor = payments[p].vendor}
  IN  i \in its /\ \A j \in its : i <= j

SimulatedEvent(p, kind, i) ==
  [kind |-> kind, payment |-> p, lot |-> payments[p].lot, row |-> i]

\* simulatePaymentPaid, simulatePaymentFailed: loadAndCheckPayment, then
\* findReservationByPayment (whose answer never changes) ...
SimulateCheck(p, kind) ==
  /\ Pending(p) /\ payments[p].via = "simulator"
  /\ \E i \in DOMAIN rows :
       OldestRow(p, i) /\ checked' = checked \cup {SimulatedEvent(p, kind, i)}
  /\ UNCHANGED <<lots, rows, payments, checkout, outbox>>

\* ... and in a later transaction the UPDATE guarded by status = 'pending' and
\* an event written whether or not the UPDATE found the row.
SimulateCommit(ev) ==
  /\ checked' = checked \ {ev}
  /\ payments' = IF Pending(ev.payment) THEN Settled(ev.payment, ev.kind) ELSE payments
  /\ outbox' = outbox \cup {ev}
  /\ UNCHANGED <<lots, rows, checkout>>

SimulateAbort(ev) ==
  /\ checked' = checked \ {ev}
  /\ UNCHANGED <<lots, rows, payments, checkout, outbox>>

-----------------------------------------------------------------------------
(* The outbox handlers.  A handler whose job is not removed runs again. *)

\* Mutant: the handler trusts the event.
Confirmed_Trusting(ev) == ev \in outbox

\* Mutant: the sale needs the hold to be still there.
Confirmed_StillHeld(ev) ==
  /\ payments[ev.payment].status = ev.kind
  /\ ev.row # Null => rows[ev.row].active

\* Step 1 of both handlers: the payment still has the status announced.
Confirmed(ev) == payments[ev.payment].status = ev.kind

EndHold(ev) == rows' = IF ev.row = Null THEN rows ELSE Released(ev.row)

\* outbox.payment-paid: the lot is sold under the advisory lock of reserve,
\* the hold is consumed.
HandlePaid(ev) ==
  /\ ev.kind = "paid" /\ Confirmed(ev)
  /\ lots' = IF ev.lot = Null THEN lots ELSE [lots EXCEPT ![ev.lot] = "sold"]
  /\ EndHold(ev)

\* outbox.payment-failed: the hold ends (lot.released follows).
HandleFailed(ev) ==
  /\ ev.kind = "failed" /\ Confirmed(ev)
  /\ EndHold(ev)
  /\ UNCHANGED lots

HandleStale(ev) == ~Confirmed(ev) /\ UNCHANGED <<lots, rows>>

Handle(ev) ==
  /\ HandlePaid(ev) \/ HandleFailed(ev) \/ HandleStale(ev)
  /\ UNCHANGED <<payments, checkout, checked>>

HandleOnce(ev)  == Handle(ev) /\ outbox' = outbox \ {ev}
HandleAgain(ev) == Handle(ev) /\ UNCHANGED outbox

-----------------------------------------------------------------------------
HoldStep(i) == Cancel(i) \/ Lapse(i) \/ Expire(i) \/ \E p \in Payments : StartCheckout(p, i)

PaymentStep(p) ==
  \/ CommitCheckout(p) \/ AbortCheckout(p)
  \/ \E status \in {"paid", "failed", "canceled"} : WebhookSettles(p, status)
  \/ \E kind \in {"paid", "failed"} : SimulateCheck(p, kind)

Next ==
  \/ \E l \in Lots, v \in Vendors : Reserve(l, v)
  \/ \E i \in DOMAIN rows : HoldStep(i)
  \/ \E p \in Payments : PaymentStep(p)
  \/ \E ev \in checked : SimulateCommit(ev) \/ SimulateAbort(ev)
  \/ \E ev \in outbox : HandleOnce(ev) \/ HandleAgain(ev)

Spec == Init /\ [][Next]_vars

\* Every event is dispatched and its handler eventually commits (Outbox).
Fairness == \A ev \in Event : WF_vars(ev \in outbox /\ HandleOnce(ev))

FairSpec == Spec /\ Fairness

-----------------------------------------------------------------------------
(* Properties *)

Paid(p) == payments[p] # Null /\ payments[p].status = "paid"

\* A lot is sold only to a vendor who paid for it, although a simulation that
\* lost the race still writes its event (payment-paid.ts:62-76).
SoldLotIsPaid ==
  \A l \in Lots : lots[l] = "sold" => \E p \in Payments : Paid(p) /\ payments[p].lot = l

\* A settlement ends holds of the vendor whose payment it settles and of that
\* lot only, however late it is handled: whoever reserved the lot in between
\* keeps the hold.
SettlementSparesOthers ==
  [][\A ev \in outbox : Handle(ev) =>
       \A i \in DOMAIN rows : rows'[i] # rows[i] =>
         /\ rows[i].vendor = payments[ev.payment].vendor
         /\ rows[i].lot = payments[ev.payment].lot]_vars

\* A sale settled by the simulator reaches the lot.
SimulatedSaleCompletes ==
  \A p \in Payments :
    (Paid(p) /\ payments[p].via = "simulator")
      ~> (Paid(p) /\ lots[payments[p].lot] = "sold")

=============================================================================
