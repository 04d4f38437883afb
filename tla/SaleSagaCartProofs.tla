------------------------- MODULE SaleSagaCartProofs -------------------------
(***************************************************************************)
(* What TLAPS proves of SaleSaga, for any number of lots, vendors,         *)
(* payments and reservations, and of Cart, whose checkout starts a sale,   *)
(* for any number of tabs, add-ons and lines and any prices. The two share *)
(* no variable.                                                            *)
(*                                                                         *)
(* An event is handled long after it was written, again, or without the    *)
(* settlement it announces. What it names still fits (EventFits), because  *)
(* a payment keeps its contract and a reservation its lot and vendor; and  *)
(* a payment that is paid stays so.                                        *)
(*                                                                         *)
(* OverLimitIsBounded keeps itself, once it is known that an id is drawn   *)
(* once (LinesAreDrawn). TicksAreTheCart does not: it says nothing of a    *)
(* tab that waits for an answer. TabIsCurrent does: until its call is      *)
(* carried out the tab shows the cart, with one line for each add-on and   *)
(* that line's id, and afterwards it will show the cart when it hears the  *)
(* answer. That what is shown is charged also takes a theory of sums. The  *)
(* library's induction theorems have an operator as parameter, so          *)
(* induction is stated here for a set: of numbers (Counting), and of       *)
(* subsets of a finite set (Growing).                                      *)
(***************************************************************************)
EXTENDS SaleSaga, Cart, SequenceTheorems, FiniteSetTheorems, WellFoundedInduction, TLAPS

-----------------------------------------------------------------------------
(* SaleSaga *)

\* The lot of an event is its payment's, and its reservation that of the payment's
\* vendor on that lot.
EventFits(ev) ==
  LET p == payments[ev.payment] IN
  /\ p \in Payment
  /\ ev.lot # Null => ev.lot = p.lot
  /\ ev.row # Null => /\ ev.row \in DOMAIN rows
                      /\ rows[ev.row].lot = p.lot /\ rows[ev.row].vendor = p.vendor

EventsFit == \A ev \in checked \cup outbox : EventFits(ev)

\* A checkout under way has no payment yet, and a reservation.
CheckoutsFit ==
  \A p \in Payments : checkout[p] # Null => checkout[p] \in DOMAIN rows /\ payments[p] = Null

IInv == TypeOK /\ EventsFit /\ CheckoutsFit /\ SoldLotIsPaid

-----------------------------------------------------------------------------
(* What steps leave alone *)

\* A reservation keeps its lot and its vendor.
RowsKept ==
  /\ rows' \in Seq(Row) /\ Len(rows') <= MaxRows
  /\ \A i \in DOMAIN rows : /\ i \in DOMAIN rows'
                            /\ rows'[i].lot = rows[i].lot /\ rows'[i].vendor = rows[i].vendor

\* A payment keeps its contract, and stays paid.
PaymentsKept ==
  /\ payments' \in [Payments -> Payment \cup {Null}]
  /\ \A p \in Payments : payments[p] \in Payment =>
       /\ payments'[p] \in Payment
       /\ payments'[p].lot = payments[p].lot /\ payments'[p].vendor = payments[p].vendor
       /\ payments[p].status = "paid" => payments'[p].status = "paid"

LEMMA EventsStayFit ==
  ASSUME TypeOK, EventsFit, RowsKept, PaymentsKept
  PROVE  \A ev \in checked \cup outbox : EventFits(ev)'
<1> SUFFICES ASSUME NEW CONSTANT ev \in checked \cup outbox
             PROVE  EventFits(ev)'
  OBVIOUS
<1>1. EventFits(ev) /\ ev.payment \in Payments
  BY DEF EventsFit, TypeOK, Event
<1> QED BY <1>1 DEF EventFits, RowsKept, PaymentsKept

LEMMA SoldStaysPaid ==
  ASSUME TypeOK, SoldLotIsPaid, PaymentsKept, NEW l \in Lots, lots[l] = "sold"
  PROVE  \E p \in Payments : Paid(p)' /\ payments'[p].lot = l
<1>1. PICK p \in Payments : Paid(p) /\ payments[p].lot = l
  BY DEF SoldLotIsPaid
<1>2. payments[p] \in Payment
  BY <1>1 DEF Paid, TypeOK
<1>3. payments'[p] \in Payment /\ payments'[p].lot = l /\ payments'[p].status = "paid"
  BY <1>1, <1>2 DEF PaymentsKept, Paid
<1> QED BY <1>3, NullIsNothing DEF Paid

\* The end or the lapse of a reservation.
LEMMA RowChanges ==
  ASSUME TypeOK, NEW i \in DOMAIN rows, NEW r \in Row,
         r.lot = rows[i].lot, r.vendor = rows[i].vendor, rows' = [rows EXCEPT ![i] = r]
  PROVE  RowsKept /\ \A j \in DOMAIN rows : j # i => rows'[j] = rows[j]
<1>1. rows \in Seq(Row) /\ i \in 1 .. Len(rows) /\ DOMAIN rows = 1 .. Len(rows)
  BY LenProperties DEF TypeOK
<1>2. /\ rows' \in Seq(Row) /\ Len(rows') = Len(rows)
      /\ \A j \in 1 .. Len(rows) : rows'[j] = IF j = i THEN r ELSE rows[j]
  BY <1>1, ExceptSeq
<1>3. DOMAIN rows' = 1 .. Len(rows)
  BY <1>2, LenProperties
<1> QED BY <1>1, <1>2, <1>3 DEF RowsKept, TypeOK

LEMMA RowIsRow ==
  ASSUME TypeOK, NEW i \in DOMAIN rows
  PROVE  rows[i] \in Row
  BY LenProperties, ElementOfSeq DEF TypeOK

LEMMA ReleasedRow ==
  ASSUME TypeOK, NEW i \in DOMAIN rows, rows' = Released(i)
  PROVE  RowsKept /\ \A j \in DOMAIN rows : j # i => rows'[j] = rows[j]
<1> DEFINE r == [rows[i] EXCEPT !.active = FALSE]
<1>1. r \in Row /\ r.lot = rows[i].lot /\ r.vendor = rows[i].vendor
  BY RowIsRow DEF Row
<1>2. rows' = [rows EXCEPT ![i] = r]
  BY DEF Released
<1> HIDE DEF r
<1> QED BY <1>1, <1>2, RowChanges

\* A pending payment is settled.
LEMMA Settling ==
  ASSUME TypeOK, NEW p \in Payments, NEW status \in {"paid", "failed", "canceled"}, Pending(p),
         payments' = Settled(p, status)
  PROVE  PaymentsKept /\ payments'[p] # Null /\ \A q \in Payments : payments[q] = Null <=> payments'[q] = Null
<1>1. payments[p] \in Payment /\ payments[p].status = "pending"
  BY DEF Pending, TypeOK
<1>2. /\ payments'[p] = [payments[p] EXCEPT !.status = status]
      /\ \A q \in Payments : q # p => payments'[q] = payments[q]
      /\ payments' = [payments EXCEPT ![p] = [payments[p] EXCEPT !.status = status]]
  BY DEF Settled, TypeOK
<1>3. /\ payments'[p] \in Payment
      /\ payments'[p].lot = payments[p].lot /\ payments'[p].vendor = payments[p].vendor
  BY <1>1, <1>2 DEF Payment
<1>4. payments' \in [Payments -> Payment \cup {Null}]
  BY <1>2, <1>3 DEF TypeOK
<1> QED BY <1>1, <1>2, <1>3, <1>4, NullIsNothing DEF PaymentsKept

\* A step that writes no lot and keeps rows, payments and checkouts.
LEMMA Keeps ==
  ASSUME IInv, RowsKept, PaymentsKept, UNCHANGED lots,
         checkout' \in [Payments -> (1 .. MaxRows) \cup {Null}],
         CheckoutsFit', checked' \subseteq Event, outbox' \subseteq Event,
         \A ev \in checked' \cup outbox' : ev \in checked \cup outbox \/ EventFits(ev)'
  PROVE  IInv'
<1>1. TypeOK'
  BY DEF IInv, TypeOK, RowsKept, PaymentsKept
<1>2. EventsFit'
  BY EventsStayFit DEF IInv, EventsFit
<1>3. SoldLotIsPaid'
  BY SoldStaysPaid DEF IInv, SoldLotIsPaid
<1> QED BY <1>1, <1>2, <1>3 DEF IInv

LEMMA Unchanged ==
  ASSUME TypeOK
  PROVE  (UNCHANGED rows => RowsKept) /\ (UNCHANGED payments => PaymentsKept)
<1>1. UNCHANGED rows => RowsKept
  BY DEF TypeOK, RowsKept
<1>2. UNCHANGED payments => PaymentsKept
  BY DEF TypeOK, PaymentsKept
<1> QED BY <1>1, <1>2

\* A step that only adds or changes reservations.
LEMMA RowStep ==
  ASSUME IInv, RowsKept, UNCHANGED <<lots, payments, checkout, checked, outbox>>
  PROVE  IInv'
<1>1. PaymentsKept
  BY Unchanged DEF IInv
<1>2. CheckoutsFit'
  BY DEF IInv, CheckoutsFit, RowsKept
<1>3. TypeOK
  BY DEF IInv
<1> QED BY <1>1, <1>2, <1>3, Keeps DEF TypeOK

-----------------------------------------------------------------------------
(* Steps of vendors and of the expire job *)

LEMMA ReserveStep ==
  ASSUME IInv, NEW l \in Lots, NEW v \in Vendors, Reserve(l, v)
  PROVE  IInv'
<1> DEFINE r == [lot |-> l, vendor |-> v, active |-> TRUE, lapsed |-> FALSE]
<1>1. rows \in Seq(Row) /\ r \in Row /\ Len(rows) < MaxRows /\ MaxRows \in Nat
  BY SagaAssumption DEF IInv, TypeOK, Row, Reserve
<1>2. rows' = Append(rows, r) /\ UNCHANGED <<lots, payments, checkout, checked, outbox>>
  BY DEF Reserve
<1> HIDE DEF r
<1>3. /\ rows' \in Seq(Row) /\ Len(rows') = Len(rows) + 1
      /\ \A i \in 1 .. Len(rows) : rows'[i] = rows[i]
  BY <1>1, <1>2, AppendProperties
<1>4. Len(rows) \in Nat /\ DOMAIN rows = 1 .. Len(rows) /\ DOMAIN rows' = 1 .. Len(rows')
  BY <1>1, <1>3, LenProperties
<1>5. RowsKept
  BY <1>1, <1>3, <1>4 DEF RowsKept
<1> QED BY <1>2, <1>5, RowStep

LEMMA HoldStepInv ==
  ASSUME IInv, NEW i \in DOMAIN rows, HoldStep(i)
  PROVE  IInv'
<1>1. CASE Cancel(i) \/ Expire(i)
  <2>1. rows' = Released(i) /\ UNCHANGED <<lots, payments, checkout, checked, outbox>>
    BY <1>1 DEF Cancel, Expire
  <2> QED BY <2>1, ReleasedRow, RowStep DEF IInv
<1>2. CASE Lapse(i)
  <2> DEFINE r == [rows[i] EXCEPT !.lapsed = TRUE]
  <2>1. rows' = [rows EXCEPT ![i] = r] /\ UNCHANGED <<lots, payments, checkout, checked, outbox>>
    BY <1>2 DEF Lapse
  <2>2. r \in Row /\ r.lot = rows[i].lot /\ r.vendor = rows[i].vendor
    BY RowIsRow DEF IInv, Row
  <2> HIDE DEF r
  <2> QED BY <2>1, <2>2, RowChanges, RowStep DEF IInv
<1>3. CASE \E p \in Payments : StartCheckout(p, i)
  <2>1. PICK p \in Payments : StartCheckout(p, i)
    BY <1>3
  <2>2. i \in 1 .. MaxRows
    BY LenProperties, SagaAssumption DEF IInv, TypeOK
  <2>3. /\ checkout' \in [Payments -> (1 .. MaxRows) \cup {Null}]
        /\ checkout'[p] = i /\ payments[p] = Null
        /\ \A q \in Payments : q # p => checkout'[q] = checkout[q]
    BY <2>1, <2>2 DEF StartCheckout, IInv, TypeOK
  <2>4. UNCHANGED <<lots, rows, payments, checked, outbox>>
    BY <2>1 DEF StartCheckout
  <2>5. CheckoutsFit'
    BY <2>3, <2>4 DEF IInv, CheckoutsFit
  <2>6. RowsKept /\ PaymentsKept
    BY <2>4, Unchanged DEF IInv
  <2> QED BY <2>3, <2>4, <2>5, <2>6, Keeps DEF IInv, TypeOK
<1> QED BY <1>1, <1>2, <1>3 DEF HoldStep

-----------------------------------------------------------------------------
(* Payments *)

\* The payment appears; nothing was about it before.
LEMMA CommitCheckoutStep ==
  ASSUME IInv, NEW p \in Payments, CommitCheckout(p)
  PROVE  IInv'
<1> DEFINE i == checkout[p]
<1>1. i \in DOMAIN rows /\ i \in 1 .. MaxRows /\ payments[p] = Null
  <2>1. i \in DOMAIN rows /\ payments[p] = Null
    BY DEF CommitCheckout, IInv, CheckoutsFit
  <2> QED BY <2>1, LenProperties, SagaAssumption DEF IInv, TypeOK
<1>2. rows[i].lot \in Lots /\ rows[i].vendor \in Vendors
  BY <1>1, RowIsRow DEF IInv, Row
<1>3. PICK via \in {"gateway", "simulator"} :
        payments' = [payments EXCEPT ![p] =
          [status |-> "pending", lot |-> rows[i].lot, vendor |-> rows[i].vendor,
           via |-> via, row |-> i]]
  BY DEF CommitCheckout
<1>4. payments' \in [Payments -> Payment \cup {Null}] /\ \A q \in Payments : q # p => payments'[q] = payments[q]
  BY <1>1, <1>2, <1>3 DEF IInv, TypeOK, Payment
<1>5. /\ checkout' = [checkout EXCEPT ![p] = Null]
      /\ UNCHANGED <<lots, rows, checked, outbox>>
  BY DEF CommitCheckout
<1>6. RowsKept /\ PaymentsKept
  BY <1>1, <1>4, <1>5, Unchanged, NullIsNothing DEF PaymentsKept, IInv
<1>7. CheckoutsFit'
  BY <1>4, <1>5 DEF IInv, TypeOK, CheckoutsFit
<1> QED BY <1>5, <1>6, <1>7, Keeps DEF IInv, TypeOK

LEMMA AbortCheckoutStep ==
  ASSUME IInv, NEW p \in Payments, AbortCheckout(p)
  PROVE  IInv'
<1>1. /\ checkout' = [checkout EXCEPT ![p] = Null]
      /\ UNCHANGED <<lots, rows, payments, checked, outbox>>
  BY DEF AbortCheckout
<1>2. CheckoutsFit'
  BY <1>1 DEF IInv, TypeOK, CheckoutsFit
<1>3. RowsKept /\ PaymentsKept
  BY <1>1, Unchanged DEF IInv
<1> QED BY <1>1, <1>2, <1>3, Keeps DEF IInv, TypeOK

\* A settlement by webhook, whose event names neither lot nor reservation.
LEMMA WebhookSettlesStep ==
  ASSUME IInv, NEW p \in Payments, NEW status \in {"paid", "failed", "canceled"},
         WebhookSettles(p, status)
  PROVE  IInv'
<1> DEFINE ev == [kind |-> status, payment |-> p, lot |-> Null, row |-> Null]
<1>1. UNCHANGED <<lots, rows, checkout, checked>> /\ Pending(p) /\ payments' = Settled(p, status)
  BY DEF WebhookSettles
<1>2. /\ PaymentsKept /\ payments'[p] # Null
      /\ \A q \in Payments : payments[q] = Null <=> payments'[q] = Null
  BY <1>1, Settling DEF IInv
<1>3. outbox' = outbox \/ (status # "canceled" /\ outbox' = outbox \cup {ev})
  BY DEF WebhookSettles
<1>4. status # "canceled" => ev \in Event
  BY DEF Event
<1>5. EventFits(ev)'
  BY <1>2 DEF EventFits, PaymentsKept
<1>6. RowsKept /\ CheckoutsFit'
  BY <1>1, <1>2, Unchanged DEF IInv, CheckoutsFit
<1> HIDE DEF ev
<1> QED BY <1>1, <1>2, <1>3, <1>4, <1>5, <1>6, Keeps DEF IInv, TypeOK

\* The simulator reads payment and reservation: of the contract's lot and vendor.
LEMMA SimulateCheckStep ==
  ASSUME IInv, NEW p \in Payments, NEW kind \in {"paid", "failed"}, SimulateCheck(p, kind)
  PROVE  IInv'
<1>1. PICK i \in DOMAIN rows : OldestRow(p, i) /\ checked' = checked \cup {SimulatedEvent(p, kind, i)}
  BY DEF SimulateCheck
<1>2. UNCHANGED <<lots, rows, payments, checkout, outbox>> /\ payments[p] \in Payment
  BY DEF SimulateCheck, Pending, IInv, TypeOK
<1>3. i \in 1 .. MaxRows
  BY LenProperties, SagaAssumption DEF IInv, TypeOK
<1>4. SimulatedEvent(p, kind, i) \in Event
  BY <1>2, <1>3 DEF SimulatedEvent, Event, Payment
<1>5. EventFits(SimulatedEvent(p, kind, i))
  BY <1>1, <1>2 DEF SimulatedEvent, EventFits, OldestRow
<1>6. \A ev \in checked' \cup outbox' : EventFits(ev)'
  BY <1>1, <1>2, <1>5 DEF IInv, EventsFit, EventFits
<1>7. RowsKept /\ PaymentsKept /\ CheckoutsFit'
  BY <1>2, Unchanged DEF IInv, CheckoutsFit
<1> QED BY <1>1, <1>2, <1>4, <1>6, <1>7, Keeps DEF IInv, TypeOK

\* ... and writes its event, whether or not the payment was still pending.
LEMMA SimulateCommitStep ==
  ASSUME IInv, NEW ev \in checked, SimulateCommit(ev)
  PROVE  IInv'
<1>1. /\ UNCHANGED <<lots, rows, checkout>> /\ checked' \subseteq checked
      /\ outbox' = outbox \cup {ev}
      /\ payments' = IF Pending(ev.payment) THEN Settled(ev.payment, ev.kind) ELSE payments
  BY DEF SimulateCommit
<1>2. ev \in Event /\ ev.payment \in Payments /\ ev.kind \in {"paid", "failed"}
  BY DEF IInv, TypeOK, Event
<1>3. PaymentsKept /\ \A q \in Payments : payments[q] = Null <=> payments'[q] = Null
  BY <1>1, <1>2, Settling, Unchanged DEF IInv
<1>4. RowsKept /\ CheckoutsFit'
  BY <1>1, <1>3, Unchanged DEF IInv, CheckoutsFit
<1> QED BY <1>1, <1>2, <1>3, <1>4, Keeps DEF IInv, TypeOK

LEMMA SimulateAbortStep ==
  ASSUME IInv, NEW ev \in checked, SimulateAbort(ev)
  PROVE  IInv'
<1>1. UNCHANGED <<lots, rows, payments, checkout, outbox>> /\ checked' \subseteq checked
  BY DEF SimulateAbort
<1>2. RowsKept /\ PaymentsKept /\ CheckoutsFit'
  BY <1>1, Unchanged DEF IInv, CheckoutsFit
<1> QED BY <1>1, <1>2, Keeps DEF IInv, TypeOK

-----------------------------------------------------------------------------
(* Handlers *)

\* The rows a handler ends are those of its event.
LEMMA HandleRows ==
  ASSUME IInv, NEW ev \in outbox, Handle(ev)
  PROVE  /\ RowsKept
         /\ \A i \in DOMAIN rows : rows'[i] # rows[i] =>
              /\ rows[i].vendor = payments[ev.payment].vendor
              /\ rows[i].lot = payments[ev.payment].lot
<1>1. EventFits(ev) /\ TypeOK
  BY DEF IInv, EventsFit
<1>2. rows' = rows \/ (ev.row # Null /\ rows' = Released(ev.row))
  BY DEF Handle, HandlePaid, HandleFailed, HandleStale, EndHold
<1>3. CASE rows' = rows
  BY <1>1, <1>3, Unchanged
<1>4. CASE ev.row # Null /\ rows' = Released(ev.row)
  <2>1. /\ ev.row \in DOMAIN rows /\ rows[ev.row].lot = payments[ev.payment].lot
        /\ rows[ev.row].vendor = payments[ev.payment].vendor
    BY <1>1, <1>4 DEF EventFits
  <2>2. RowsKept /\ \A j \in DOMAIN rows : j # ev.row => rows'[j] = rows[j]
    BY <1>1, <1>4, <2>1, ReleasedRow
  <2> QED BY <2>1, <2>2
<1> QED BY <1>2, <1>3, <1>4

\* A lot is sold for a payment that is paid and that is the lot's.
LEMMA HandleStep ==
  ASSUME IInv, NEW ev \in outbox, Handle(ev), outbox' \subseteq outbox
  PROVE  IInv'
<1>1. UNCHANGED <<payments, checkout, checked>> /\ RowsKept /\ PaymentsKept
  BY HandleRows, Unchanged DEF Handle, IInv
<1>2. EventFits(ev) /\ ev \in Event
  BY DEF IInv, TypeOK, EventsFit
<1>3. \/ lots' = lots
      \/ /\ payments[ev.payment].status = "paid" /\ ev.lot # Null
         /\ lots' = [lots EXCEPT ![ev.lot] = "sold"]
  BY DEF Handle, HandlePaid, HandleFailed, HandleStale, Confirmed
<1>4. CheckoutsFit'
  BY <1>1 DEF IInv, CheckoutsFit, RowsKept
<1>5. CASE lots' = lots
  BY <1>1, <1>4, <1>5, Keeps DEF IInv, TypeOK
<1>6. CASE /\ payments[ev.payment].status = "paid" /\ ev.lot # Null
           /\ lots' = [lots EXCEPT ![ev.lot] = "sold"]
  <2>1. /\ payments[ev.payment] \in Payment /\ ev.lot = payments[ev.payment].lot
        /\ ev.lot \in Lots /\ ev.payment \in Payments
    BY <1>2, <1>6 DEF EventFits, Event, Payment
  <2>2. /\ lots' \in [Lots -> {"available", "sold"}]
        /\ \A l \in Lots : l # ev.lot => lots'[l] = lots[l]
    BY <1>6, <2>1 DEF IInv, TypeOK
  <2>3. TypeOK'
    BY <1>1, <2>2 DEF IInv, TypeOK, RowsKept
  <2>4. EventsFit'
    BY <1>1, EventsStayFit DEF IInv, EventsFit
  <2>5. Paid(ev.payment)
    BY <1>6, <2>1, NullIsNothing DEF Paid
  <2>6. SoldLotIsPaid'
    BY <1>1, <2>1, <2>2, <2>5 DEF IInv, SoldLotIsPaid, Paid
  <2> QED BY <1>4, <2>3, <2>4, <2>6 DEF IInv
<1> QED BY <1>3, <1>5, <1>6

-----------------------------------------------------------------------------
LEMMA InitInv == Init => IInv
<1> SUFFICES ASSUME Init PROVE IInv
  OBVIOUS
<1>1. TypeOK
  BY EmptySeq, SagaAssumption DEF Init, TypeOK
<1>2. EventsFit /\ CheckoutsFit /\ SoldLotIsPaid
  BY DEF Init, EventsFit, CheckoutsFit, SoldLotIsPaid
<1> QED BY <1>1, <1>2 DEF IInv

LEMMA StepInv == IInv /\ [Next]_vars => IInv'
<1> SUFFICES ASSUME IInv, [Next]_vars PROVE IInv'
  OBVIOUS
<1>1. CASE \E l \in Lots, v \in Vendors : Reserve(l, v)
  BY <1>1, ReserveStep
<1>2. CASE \E i \in DOMAIN rows : HoldStep(i)
  BY <1>2, HoldStepInv
<1>3. CASE \E p \in Payments : PaymentStep(p)
  BY <1>3, CommitCheckoutStep, AbortCheckoutStep, WebhookSettlesStep, SimulateCheckStep DEF PaymentStep
<1>4. CASE \E ev \in checked : SimulateCommit(ev) \/ SimulateAbort(ev)
  BY <1>4, SimulateCommitStep, SimulateAbortStep
<1>5. CASE \E ev \in outbox : HandleOnce(ev) \/ HandleAgain(ev)
  BY <1>5, HandleStep DEF HandleOnce, HandleAgain
<1>6. CASE UNCHANGED vars
  BY <1>6, Unchanged, RowStep DEF vars, IInv
<1> QED BY <1>1, <1>2, <1>3, <1>4, <1>5, <1>6 DEF Next

-----------------------------------------------------------------------------
(* Theorems *)

\* The inductive invariant.
THEOREM Invariance == Spec => []IInv
<1>1. Init => IInv
  BY InitInv
<1>2. IInv /\ [Next]_vars => IInv'
  BY StepInv
<1> QED BY <1>1, <1>2, PTL DEF Spec

\* A lot is sold only when its payment is paid (payment-paid.ts:62-76).
THEOREM SoldLotsArePaid == Spec => []SoldLotIsPaid
<1>1. IInv => SoldLotIsPaid
  BY DEF IInv
<1> QED BY <1>1, Invariance, PTL

\* A settlement ends holds of its own vendor and lot only, however late its handler
\* runs (payment-paid.ts:62-103).
THEOREM OthersAreSpared == Spec => SettlementSparesOthers
<1>1. IInv => \A ev \in outbox : Handle(ev) =>
                \A i \in DOMAIN rows : rows'[i] # rows[i] =>
                  /\ rows[i].vendor = payments[ev.payment].vendor
                  /\ rows[i].lot = payments[ev.payment].lot
  BY HandleRows
<1> QED BY <1>1, Invariance, PTL DEF SettlementSparesOthers

-----------------------------------------------------------------------------
(* Cart *)

(* The invariant *)

\* An id drawn is drawn for good, and only finitely many have been.
LinesAreDrawn == IsFiniteSet(used) /\ Present \subseteq used

\* A call names what it is about, and the price it will insert was one of an add-on.
CallsAreMeant ==
  \A t \in Tabs :
    call[t] # None =>
      /\ call[t].op = "add" => call[t].addon \in Addons
      /\ Running(t, "add", "checked") => call[t].amount \in AddonPrices
      /\ call[t].op = "remove" => call[t].addon \in Addons /\ call[t].line \in Lines

InCart == {a \in Addons : LinesOf(a) # {}}

OneLineEach == \A a \in Addons : \A m, n \in LinesOf(a) : m = n

\* The lines of the props are lines that are there.
ShowsLines(t) ==
  \A a \in Addons :
    IF LinesOf(a) = {} THEN tabs[t].props.line[a] = None
                       ELSE tabs[t].props.line[a] \in LinesOf(a)

\* Before its call is carried out the tab shows the cart, afterwards it shows it as
\* soon as it hears the answer.
TabIsCurrent(t) ==
  /\ OneLineEach
  /\ call[t] = None \/ call[t].pc # "done" => tabs[t].active = InCart /\ ShowsLines(t)
  /\ call[t] # None =>
       /\ call[t].op = "add" /\ call[t].pc \in {"sent", "checked"} => call[t].addon \notin InCart
       /\ Running(t, "remove", "sent") => call[t].line \in LinesOf(call[t].addon)
       /\ call[t].pc = "done" => InCart = Ticked(tabs[t].active, call[t])

OpenTabsAreCurrent == \A t \in Tabs \ disturbed : tabs[t] # None => TabIsCurrent(t)

CartInv ==
  /\ CartTypeOK /\ LinesAreDrawn /\ CallsAreMeant
  /\ OverLimitIsBounded /\ OpenTabsAreCurrent

-----------------------------------------------------------------------------
(* Sums *)

Pick(s) == CHOOSE x \in s : TRUE

\* One round of the fold of MapThenSumSet over the subsets of S.
SumRound(f, S, g) ==
  [s \in SUBSET S |-> IF s = {} THEN 0 ELSE f[Pick(s)] + g[s \ {Pick(s)}]]

SumFcn(f, S) == CHOOSE g : g = SumRound(f, S, g)

Total(f, S) == SumFcn(f, S)[S]

\* Induction, on a set of numbers.
LEMMA Counting ==
  ASSUME NEW F, 0 \in F, \A n \in Nat : n \in F => n + 1 \in F
  PROVE  Nat \subseteq F
<1> DEFINE R == {p \in Nat \X Nat : p[1] < p[2]}
<1>1. IsWellFoundedOn(R, Nat)
  BY NatLessThanWellFounded, Zenon DEF OpToRel
<1> SUFFICES ASSUME Nat \ F # {}
             PROVE  FALSE
  OBVIOUS
<1>2. PICK x \in Nat \ F : \A y \in Nat \ F : <<y, x>> \notin R
  <2> HIDE DEF R
  <2> QED BY <1>1, WFMin, Zenon
<1>3. x # 0 /\ x - 1 \in Nat /\ (x - 1) + 1 = x
  OBVIOUS
<1>4. x - 1 \in F
  <2>1. <<x - 1, x>> \in R
    BY <1>3
  <2> QED BY <1>2, <1>3, <2>1
<1> QED BY <1>3, <1>4

\* Induction on the subsets of a finite set, element by element.
LEMMA Growing ==
  ASSUME NEW S, IsFiniteSet(S), NEW F,
         \A T \in SUBSET S : (\A x \in T : T \ {x} \in F) => T \in F
  PROVE  S \in F
<1> DEFINE N == {n \in Nat : \A T \in SUBSET S : Cardinality(T) = n => T \in F}
<1>1. \A T \in SUBSET S : IsFiniteSet(T) /\ Cardinality(T) \in Nat
  BY FS_Subset, FS_CardinalityType
<1>2. 0 \in N
  BY <1>1, FS_EmptySet
<1>3. ASSUME NEW n \in Nat, n \in N
      PROVE  n + 1 \in N
  <2> SUFFICES ASSUME NEW T \in SUBSET S, Cardinality(T) = n + 1
               PROVE  T \in F
    OBVIOUS
  <2>1. \A x \in T : Cardinality(T \ {x}) = n
    BY <1>1, FS_RemoveElement
  <2> QED BY <1>3, <2>1
<1>4. Nat \subseteq N
  <2> HIDE DEF N
  <2> QED BY <1>2, <1>3, Counting
<1> QED BY <1>1, <1>4

\* The fold has a result, and it is that of its rounds.
LEMMA SumFcnIsDefined ==
  ASSUME NEW S, IsFiniteSet(S), NEW f
  PROVE  SumFcn(f, S) = SumRound(f, S, SumFcn(f, S))
<1> DEFINE Upto(g, n) ==
      \A s \in SUBSET S : Cardinality(s) <= n => g[s] = SumRound(f, S, g)[s]
<1> DEFINE N == {n \in Nat : \E g : g = [s \in SUBSET S |-> g[s]] /\ Upto(g, n)}
<1>1. \A s \in SUBSET S : IsFiniteSet(s) /\ Cardinality(s) \in Nat
  BY FS_Subset, FS_CardinalityType
<1>2. \A s \in SUBSET S : s # {} =>
        Pick(s) \in s /\ s \ {Pick(s)} \in SUBSET S
        /\ Cardinality(s \ {Pick(s)}) = Cardinality(s) - 1
  BY <1>1, FS_RemoveElement DEF Pick
<1>3. 0 \in N
  <2> DEFINE g == [s \in SUBSET S |-> 0]
  <2>1. Upto(g, 0)
    BY <1>1, FS_EmptySet DEF SumRound
  <2> QED BY <2>1
<1>4. ASSUME NEW n \in Nat, n \in N
      PROVE  n + 1 \in N
  <2>1. PICK g : g = [s \in SUBSET S |-> g[s]] /\ Upto(g, n)
    BY <1>4
  <2> DEFINE h == SumRound(f, S, g)
  <2>2. ASSUME NEW s \in SUBSET S, Cardinality(s) <= n + 1
        PROVE  h[s] = SumRound(f, S, h)[s]
    <3>1. CASE s = {}
      BY <3>1 DEF SumRound
    <3>2. CASE s # {}
      <4> DEFINE u == s \ {Pick(s)}
      <4>1. u \in SUBSET S /\ Cardinality(u) <= n
        BY <1>1, <1>2, <2>2, <3>2
      <4>2. g[u] = h[u]
        BY <2>1, <4>1
      <4>3. h[s] = f[Pick(s)] + g[u] /\ SumRound(f, S, h)[s] = f[Pick(s)] + h[u]
        BY <3>2 DEF SumRound
      <4> QED BY <4>2, <4>3
    <3> QED BY <3>1, <3>2
  <2>3. h = [s \in SUBSET S |-> h[s]]
    BY DEF SumRound
  <2>4. Upto(h, n + 1)
    <3> HIDE DEF h
    <3> QED BY <2>2
  <2>5. \E e : e = [s \in SUBSET S |-> e[s]] /\ Upto(e, n + 1)
    <3> HIDE DEF h, Upto
    <3> QED BY <2>3, <2>4
  <2>6. n + 1 \in Nat
    OBVIOUS
  <2> HIDE DEF Upto
  <2> QED BY <2>5, <2>6
<1>5. Nat \subseteq N
  <2> HIDE DEF N
  <2> QED BY <1>3, <1>4, Counting
<1>6. PICK g : g = [s \in SUBSET S |-> g[s]] /\ Upto(g, Cardinality(S))
  BY <1>1, <1>5
<1>7. \A s \in SUBSET S : g[s] = SumRound(f, S, g)[s]
  BY <1>1, <1>6, FS_Subset
<1>8. g = SumRound(f, S, g)
  BY <1>6, <1>7 DEF SumRound
<1> QED BY <1>8 DEF SumFcn

LEMMA TotalStep ==
  ASSUME NEW f, NEW S, IsFiniteSet(S)
  PROVE  /\ S = {} => Total(f, S) = 0
         /\ S # {} => Pick(S) \in S /\ Total(f, S) = f[Pick(S)] + Total(f, S \ {Pick(S)})
<1>1. SumFcn(f, S)[S] = SumRound(f, S, SumFcn(f, S))[S]
  BY SumFcnIsDefined
<1>2. CASE S = {}
  BY <1>1, <1>2 DEF Total, SumRound
<1>3. CASE S # {}
  <2> DEFINE R == S \ {Pick(S)}
             F == {T \in SUBSET R : SumFcn(f, S)[T] = SumFcn(f, R)[T]}
  <2>1. Pick(S) \in S
    BY <1>3 DEF Pick
  <2>2. SumFcn(f, S)[S] = f[Pick(S)] + SumFcn(f, S)[R]
    BY <1>1, <1>3 DEF SumRound
  <2>3. R \in SUBSET S /\ IsFiniteSet(R)
    BY FS_Subset
  <2>4. ASSUME NEW T \in SUBSET R, \A x \in T : T \ {x} \in F
        PROVE  T \in F
    <3>1. SumFcn(f, S)[T] = SumRound(f, S, SumFcn(f, S))[T]
      BY SumFcnIsDefined, Zenon
    <3>2. SumFcn(f, R)[T] = SumRound(f, R, SumFcn(f, R))[T]
      BY SumFcnIsDefined, <2>3, Zenon
    <3>3. T # {} => Pick(T) \in T
      BY DEF Pick
    <3> QED BY <2>3, <2>4, <3>1, <3>2, <3>3 DEF SumRound
  <2>5. R \in F
    <3> HIDE DEF F, R
    <3> QED BY <2>3, <2>4, Growing
  <2> QED BY <1>3, <2>1, <2>2, <2>5 DEF Total
<1> QED BY <1>2, <1>3

\* The order in which a sum is taken does not matter.
LEMMA TotalWithout ==
  ASSUME NEW S, IsFiniteSet(S), NEW f, \A x \in S : f[x] \in Nat
  PROVE  /\ Total(f, S) \in Nat
         /\ \A x \in S : Total(f, S) = f[x] + Total(f, S \ {x})
<1> DEFINE Any(T) ==
             \A x \in T :
               Total(f, T \ {x}) \in Nat /\ Total(f, T) = f[x] + Total(f, T \ {x})
           F == {T \in SUBSET S : Total(f, T) \in Nat /\ Any(T)}
<1>1. ASSUME NEW T \in SUBSET S, \A x \in T : T \ {x} \in F
      PROVE  T \in F
  <2>1. IsFiniteSet(T)
    BY FS_Subset
  <2>2. CASE T = {}
    <3>1. Total(f, T) = 0
      BY <2>1, <2>2, TotalStep, Zenon
    <3> QED BY <2>2, <3>1
  <2>3. CASE T # {}
    <3> DEFINE p == Pick(T)
    <3>1. p \in T /\ Total(f, T) = f[p] + Total(f, T \ {p})
      BY <2>1, <2>3, TotalStep
    <3>2. Total(f, T \ {p}) \in Nat /\ Any(T \ {p})
      BY <1>1, <3>1
    <3>3. f[p] \in Nat /\ Total(f, T) \in Nat
      BY <3>1, <3>2
    <3>4. ASSUME NEW x \in T, x # p
          PROVE  Total(f, T) = f[x] + Total(f, T \ {x})
      <4> DEFINE u == (T \ {p}) \ {x}
      <4>1. Total(f, T \ {p}) = f[x] + Total(f, u)
        BY <3>2, <3>4
      <4>2. Total(f, T \ {x}) \in Nat /\ Any(T \ {x})
        BY <1>1
      <4>3. (T \ {x}) \ {p} = u
        OBVIOUS
      <4>4. Total(f, T \ {x}) = f[p] + Total(f, u)
        BY <3>1, <3>4, <4>2, <4>3
      <4>5. Total(f, u) \in Nat
        BY <3>2, <3>4
      <4> HIDE DEF u, p
      <4> QED BY <3>1, <3>3, <4>1, <4>4, <4>5
    <3>5. \A x \in T : Total(f, T \ {x}) \in Nat
      BY <1>1
    <3>6. Any(T)
      BY <3>1, <3>2, <3>4, <3>5
    <3> QED BY <3>3, <3>6
  <2> QED BY <2>2, <2>3
<1>2. S \in F
  <2> HIDE DEF F
  <2> QED BY <1>1, Growing
<1> QED BY <1>2

\* Two sums whose terms are the same one by one are equal.
LEMMA TotalAlong ==
  ASSUME NEW S, IsFiniteSet(S), NEW f, NEW g, NEW b,
         \A x \in S : f[x] \in Nat /\ g[b[x]] = f[x],
         \A x, y \in S : b[x] = b[y] => x = y
  PROVE  Total(f, S) = Total(g, {b[x] : x \in S})
<1> DEFINE I(T) == {b[x] : x \in T}
           F == {T \in SUBSET S : IsFiniteSet(I(T)) /\ Total(f, T) = Total(g, I(T))}
<1>1. ASSUME NEW T \in SUBSET S, \A x \in T : T \ {x} \in F
      PROVE  T \in F
  <2>1. IsFiniteSet(T)
    BY FS_Subset
  <2>2. CASE T = {}
    <3>1. I(T) = {}
      BY <2>2
    <3>2. IsFiniteSet(I(T))
      BY <3>1, FS_EmptySet
    <3>3. Total(f, T) = 0 /\ Total(g, I(T)) = 0
      BY <2>1, <2>2, <3>1, <3>2, TotalStep
    <3> QED BY <3>2, <3>3
  <2>3. CASE T # {}
    <3>1. PICK x : x \in T
      BY <2>3
    <3>2. IsFiniteSet(I(T \ {x})) /\ Total(f, T \ {x}) = Total(g, I(T \ {x}))
      BY <1>1, <3>1
    <3>3. I(T) = I(T \ {x}) \cup {b[x]} /\ I(T) \ {b[x]} = I(T \ {x}) /\ b[x] \in I(T)
      BY <3>1
    <3>4. IsFiniteSet(I(T))
      <4>1. IsFiniteSet(I(T \ {x}) \cup {b[x]})
        <5> HIDE DEF I
        <5> QED BY <3>2, FS_AddElement, Zenon
      <4> QED BY <3>3, <4>1, Zenon
    <3>5. \A y \in I(T) : g[y] \in Nat
      OBVIOUS
    <3>6. Total(g, I(T)) = g[b[x]] + Total(g, I(T \ {x}))
      <4>1. Total(g, I(T)) = g[b[x]] + Total(g, I(T) \ {b[x]})
        <5> HIDE DEF I
        <5> QED BY <3>3, <3>4, <3>5, TotalWithout, Zenon
      <4> QED BY <3>3, <4>1, Zenon
    <3>7. Total(f, T) = f[x] + Total(f, T \ {x})
      BY <2>1, <3>1, TotalWithout
    <3>8. g[b[x]] = f[x]
      BY <3>1
    <3> QED BY <3>2, <3>4, <3>6, <3>7, <3>8
  <2> QED BY <2>2, <2>3
<1>2. S \in F
  <2> HIDE DEF F
  <2> QED BY <1>1, Growing
<1> QED BY <1>2

-----------------------------------------------------------------------------
(* Prices *)

LEMMA LotPriceType == CartInv => LotPrice \in Nat
<1> SUFFICES ASSUME CartInv
             PROVE  LotPrice \in Nat
  OBVIOUS
<1>1. rate \in Nat /\ Area \in Nat /\ Base \in Nat
  BY CartAssumption DEF CartInv, CartTypeOK
<1>2. PICK x \in Nat : x = Area * rate
  BY <1>1
<1>3. PICK y \in Nat : y = 100 * Base + x + 50
  BY <1>1
<1>4. y \div 100 \in Nat
  OBVIOUS
<1> QED BY <1>2, <1>3, <1>4 DEF LotPrice

LEMMA PresentIsFinite ==
  ASSUME CartInv
  PROVE  /\ IsFiniteSet(Present)
         /\ \A a \in Addons : IsFiniteSet(LinesOf(a)) /\ Cardinality(LinesOf(a)) \in Nat
<1>1. IsFiniteSet(Present)
  BY FS_Subset DEF CartInv, LinesAreDrawn
<1>2. \A a \in Addons : LinesOf(a) \in SUBSET Present
  BY DEF LinesOf
<1> QED BY <1>1, <1>2, FS_Subset, FS_CardinalityType

\* What the lines cost, as a sum of the lemmas above.
LEMMA SumOfLines ==
  AddonTotal = Total([n \in Present |-> lines[n].price], Present)
<1> DEFINE f == [n \in Present |-> lines[n].price]
           c(s) == CHOOSE x \in s : TRUE
<1>1. AddonTotal =
        (CHOOSE g : g = [s \in SUBSET Present |->
           IF s = {} THEN 0 ELSE lines[c(s)].price + g[s \ {c(s)}]])[Present]
  BY Zenon DEF AddonTotal, MapThenSumSet, MapThenFoldSet
<1>2. \A g : [s \in SUBSET Present |->
                IF s = {} THEN 0 ELSE lines[c(s)].price + g[s \ {c(s)}]]
             = SumRound(f, Present, g)
  <2> SUFFICES ASSUME NEW s \in SUBSET Present, s # {}
               PROVE  lines[c(s)].price = f[c(s)]
    BY DEF SumRound, Pick
  <2>1. c(s) \in s
    OBVIOUS
  <2> QED BY <2>1
<1> QED BY <1>1, <1>2 DEF Total, SumFcn

LEMMA AddonTotalType == CartInv => AddonTotal \in Nat
<1> SUFFICES ASSUME CartInv
             PROVE  AddonTotal \in Nat
  OBVIOUS
<1> DEFINE f == [n \in Present |-> lines[n].price]
<1>1. \A n \in Present : f[n] \in Nat
  BY CartAssumption DEF CartInv, CartTypeOK, Line, Present
<1>2. Total(f, Present) \in Nat
  <2> HIDE DEF f
  <2> QED BY <1>1, PresentIsFinite, TotalWithout
<1> QED BY <1>2, SumOfLines

\* The add-ons of the total a tab shows.
LEMMA SumOfTicks ==
  ASSUME NEW t \in Tabs
  PROVE  Shown(t) = tabs[t].props.lot + Total(tabs[t].props.price, tabs[t].active)
<1> DEFINE f == tabs[t].props.price
           S == tabs[t].active
<1>1. MapThenSumSet(LAMBDA a : tabs[t].props.price[a], tabs[t].active) = Total(f, S)
  BY Zenon DEF MapThenSumSet, MapThenFoldSet, Total, SumFcn, SumRound, Pick
<1> QED BY <1>1, Zenon DEF Shown

-----------------------------------------------------------------------------
(* The start, and what most steps leave alone *)

LEMMA CartInitHolds == CartInit => CartInv
<1> SUFFICES ASSUME CartInit
             PROVE  CartInv
  OBVIOUS
<1>1. CartTypeOK
  <2>1. 0 \in 0 .. MaxEdits
    BY CartAssumption
  <2>2. addons \in [Addons -> [price : AddonPrices, active : BOOLEAN]]
    BY DEF CartInit
  <2> QED BY <2>1, <2>2 DEF CartInit, CartTypeOK
<1>2. LinesAreDrawn
  BY FS_EmptySet DEF CartInit, LinesAreDrawn, Present
<1>3. CallsAreMeant /\ OpenTabsAreCurrent
  BY DEF CartInit, CallsAreMeant, OpenTabsAreCurrent
<1>4. ASSUME NEW a \in Addons
      PROVE  Cardinality(LinesOf(a)) + Cardinality(Adding(a)) < MaxQty + Cardinality(Tabs)
  <2>1. LinesOf(a) = {} /\ Adding(a) = {}
    BY DEF CartInit, LinesOf, Present, Adding, Running
  <2>2. Cardinality(Tabs) \in Nat /\ Cardinality(Tabs) # 0
    BY CartAssumption, FS_EmptySet, FS_CardinalityType
  <2> QED BY <2>1, <2>2, FS_EmptySet, CartAssumption
<1> QED BY <1>1, <1>2, <1>3, <1>4 DEF CartInv, OverLimitIsBounded

\* A step that touches no line.
LEMMA LinesStay ==
  ASSUME CartInv, UNCHANGED <<lines, used>>
  PROVE  /\ LinesAreDrawn'
         /\ \A a \in Addons : LinesOf(a)' = LinesOf(a)
         /\ InCart' = InCart
         /\ OneLineEach' <=> OneLineEach
<1>1. Present' = Present
  BY DEF Present
<1>2. \A a \in Addons : LinesOf(a)' = LinesOf(a)
  BY <1>1 DEF LinesOf
<1> QED BY <1>1, <1>2 DEF CartInv, LinesAreDrawn, InCart, OneLineEach

\* A tab that such a step does not concern.
LEMMA TabStays ==
  ASSUME CartInv, UNCHANGED <<lines, used>>,
         NEW u \in Tabs, tabs'[u] = tabs[u], call'[u] = call[u], TabIsCurrent(u)
  PROVE  TabIsCurrent(u)'
<1>1. ShowsLines(u)' <=> ShowsLines(u)
  BY LinesStay DEF ShowsLines
<1>2. Running(u, "remove", "sent")' <=> Running(u, "remove", "sent")
  BY DEF Running
<1>3. Running(u, "remove", "sent") => LinesOf(call[u].addon)' = LinesOf(call[u].addon)
  BY LinesStay DEF CartInv, CallsAreMeant, Running
<1>4. Ticked(tabs[u].active, call[u])' = Ticked(tabs[u].active, call[u])
  BY DEF Ticked
<1> QED BY <1>1, <1>2, <1>3, <1>4, LinesStay DEF TabIsCurrent

\* Additions that are past their check.
LEMMA AddingIsFinite ==
  ASSUME NEW a
  PROVE  /\ IsFiniteSet(Adding(a)) /\ Cardinality(Adding(a)) \in Nat
         /\ IsFiniteSet(Adding(a)') /\ Cardinality(Adding(a)') \in Nat
         /\ Cardinality(Adding(a)') <= Cardinality(Tabs)
         /\ Cardinality(Tabs) \in Nat
<1>1. Adding(a) \in SUBSET Tabs /\ Adding(a)' \in SUBSET Tabs
  BY DEF Adding
<1> QED BY <1>1, CartAssumption, FS_Subset, FS_CardinalityType

LEMMA LimitStays ==
  ASSUME CartInv, UNCHANGED <<lines, used>>,
         \A a \in Addons : Adding(a)' \subseteq Adding(a)
  PROVE  OverLimitIsBounded'
<1> SUFFICES ASSUME NEW a \in Addons
             PROVE  Cardinality(LinesOf(a)') + Cardinality(Adding(a)')
                      < MaxQty + Cardinality(Tabs)
  BY DEF OverLimitIsBounded
<1>1. Cardinality(Adding(a)') <= Cardinality(Adding(a))
  BY AddingIsFinite, FS_Subset
<1>2. Cardinality(LinesOf(a)) \in Nat /\ MaxQty \in Nat
  BY PresentIsFinite, CartAssumption
<1>3. Cardinality(LinesOf(a)) + Cardinality(Adding(a)) < MaxQty + Cardinality(Tabs)
  BY DEF CartInv, OverLimitIsBounded
<1>4. LinesOf(a)' = LinesOf(a)
  BY LinesStay
<1> QED BY <1>1, <1>2, <1>3, <1>4, AddingIsFinite

-----------------------------------------------------------------------------
(* The tabs *)

\* A page shows a line of each add-on that has one, and no other.
LEMMA PagesAreProps ==
  ASSUME CartInv, NEW page \in Pages
  PROVE  /\ page \in Props
         /\ {a \in Addons : page.line[a] # None} = InCart
         /\ \A a \in Addons : IF LinesOf(a) = {} THEN page.line[a] = None
                                                 ELSE page.line[a] \in LinesOf(a)
<1>1. PICK f \in [Addons -> Lines \cup {None}] :
        /\ page = [lot |-> LotPrice, price |-> [a \in Addons |-> addons[a].price], line |-> f]
        /\ \A a \in Addons : IF LinesOf(a) = {} THEN f[a] = None ELSE f[a] \in LinesOf(a)
  BY DEF Pages
<1>2. [a \in Addons |-> addons[a].price] \in [Addons -> AddonPrices]
  BY DEF CartInv, CartTypeOK
<1>3. page \in Props
  BY <1>1, <1>2, LotPriceType DEF Props
<1>4. \A a \in Addons : LinesOf(a) \subseteq Lines
  BY DEF LinesOf, Present
<1>5. \A a \in Addons : f[a] # None <=> LinesOf(a) # {}
  BY <1>1, <1>4, CartAssumption
<1> QED BY <1>1, <1>3, <1>5 DEF InCart

\* No add-on with two lines.
LEMMA OneLineWhenSingle ==
  ASSUME CartInv, \A a \in Addons : ~(Cardinality(LinesOf(a)) > 1)
  PROVE  OneLineEach
<1> SUFFICES ASSUME NEW a \in Addons, NEW m \in LinesOf(a), NEW n \in LinesOf(a)
             PROVE  m = n
  BY DEF OneLineEach
<1>1. IsFiniteSet(LinesOf(a)) /\ Cardinality(LinesOf(a)) \in Nat
  BY PresentIsFinite
<1>2. Cardinality(LinesOf(a)) = 1
  BY <1>1, FS_EmptySet
<1>3. PICK x : LinesOf(a) = {x}
  BY <1>1, <1>2, FS_Singleton
<1> QED BY <1>3

LEMMA OpenPageKeeps ==
  ASSUME CartInv, NEW t \in Tabs, OpenPage(t)
  PROVE  CartInv'
<1> USE DEF rowVars
<1>1. PICK page \in Pages :
        tabs' = [tabs EXCEPT ![t] =
          [props |-> page, active |-> {a \in Addons : page.line[a] # None}, paid |-> FALSE]]
  BY DEF OpenPage
<1>2. PICK p : p = [props |-> page, active |-> {a \in Addons : page.line[a] # None}, paid |-> FALSE]
  OBVIOUS
<1>3. p \in Tab /\ p.active = InCart /\ p.props = page
  BY <1>2, PagesAreProps DEF Tab
<1>4. CartTypeOK'
  BY <1>1, <1>2, <1>3 DEF OpenPage, CartInv, CartTypeOK
<1>5. CallsAreMeant' /\ LinesAreDrawn'
  BY LinesStay DEF OpenPage, CartInv, CallsAreMeant, Running
<1>6. OverLimitIsBounded'
  BY LimitStays DEF OpenPage, Adding, Running
<1>7. ASSUME NEW u \in Tabs \ disturbed', tabs'[u] # None
      PROVE  TabIsCurrent(u)'
  <2>1. CASE u = t
    <3>1. tabs'[t] = p /\ call'[t] = None
      BY <1>1, <1>2 DEF OpenPage, CartInv, CartTypeOK
    <3>2. OneLineEach
      BY <1>7, <2>1, OneLineWhenSingle DEF OpenPage
    <3>3. ShowsLines(t)'
      BY <1>3, <3>1, LinesStay, PagesAreProps DEF OpenPage, ShowsLines
    <3> QED BY <1>3, <2>1, <3>1, <3>2, <3>3, LinesStay DEF OpenPage, TabIsCurrent
  <2>2. CASE u # t
    <3>1. u \notin disturbed /\ tabs'[u] = tabs[u] /\ call'[u] = call[u]
      BY <1>1, <1>7, <2>2 DEF OpenPage, CartInv, CartTypeOK
    <3>2. TabIsCurrent(u)
      BY <1>7, <3>1 DEF CartInv, OpenTabsAreCurrent
    <3> QED BY <3>1, <3>2, TabStays DEF OpenPage
  <2> QED BY <2>1, <2>2
<1> QED BY <1>4, <1>5, <1>6, <1>7 DEF CartInv, OpenTabsAreCurrent

LEMMA ClosePageKeeps ==
  ASSUME CartInv, NEW t \in Tabs, ClosePage(t)
  PROVE  CartInv'
<1> USE DEF rowVars
<1>1. CartTypeOK'
  BY DEF ClosePage, CartInv, CartTypeOK
<1>2. CallsAreMeant' /\ LinesAreDrawn'
  BY LinesStay DEF ClosePage, CartInv, CallsAreMeant, Running
<1>3. OverLimitIsBounded'
  BY LimitStays DEF ClosePage, Adding, Running
<1>4. ASSUME NEW u \in Tabs \ disturbed', tabs'[u] # None
      PROVE  TabIsCurrent(u)'
  <2>1. u # t /\ tabs'[u] = tabs[u] /\ call'[u] = call[u] /\ u \notin disturbed
    BY <1>4 DEF ClosePage, CartInv, CartTypeOK
  <2>2. TabIsCurrent(u)
    BY <1>4, <2>1 DEF CartInv, OpenTabsAreCurrent
  <2> QED BY <2>1, <2>2, TabStays DEF ClosePage
<1> QED BY <1>1, <1>2, <1>3, <1>4 DEF CartInv, OpenTabsAreCurrent

-----------------------------------------------------------------------------
(* The calls *)

\* A step that only moves the call of t to c.
LEMMA CallMoves ==
  ASSUME CartInv, NEW t \in Tabs, NEW c \in Call,
         call' = [call EXCEPT ![t] = c], UNCHANGED <<rowVars, tabs, disturbed>>,
         c.op = "add" => c.addon \in Addons,
         c.op = "add" /\ c.pc = "checked" => c.amount \in AddonPrices,
         c.op = "remove" => c.addon \in Addons /\ c.line \in Lines,
         t \notin disturbed /\ tabs[t] # None => TabIsCurrent(t)',
         OverLimitIsBounded'
  PROVE  CartInv'
<1> USE DEF rowVars
<1>1. CartTypeOK'
  BY DEF CartInv, CartTypeOK
<1>2. LinesAreDrawn'
  BY LinesStay
<1>3. call' \in [Tabs -> Call \cup {None}] /\ call'[t] = c
      /\ \A u \in Tabs : u # t => call'[u] = call[u]
  BY DEF CartInv, CartTypeOK
<1>4. CallsAreMeant'
  BY <1>3 DEF CartInv, CallsAreMeant, Running
<1>5. ASSUME NEW u \in Tabs \ disturbed', tabs'[u] # None, u # t
      PROVE  TabIsCurrent(u)'
  <2>1. TabIsCurrent(u)
    BY <1>5 DEF CartInv, OpenTabsAreCurrent
  <2> QED BY <1>3, <1>5, <2>1, TabStays
<1> QED BY <1>1, <1>2, <1>4, <1>5 DEF CartInv, OpenTabsAreCurrent

\* ... and it is not an addition that has passed its check.
LEMMA NoMoreAdding ==
  ASSUME CartInv, NEW t \in Tabs, NEW c \in Call,
         call' = [call EXCEPT ![t] = c], UNCHANGED <<rowVars, tabs, disturbed>>,
         ~(c.op = "add" /\ c.pc = "checked")
  PROVE  OverLimitIsBounded'
<1> USE DEF rowVars
<1>1. \A a \in Addons : Adding(a)' \subseteq Adding(a)
  BY DEF CartInv, CartTypeOK, Adding, Running
<1> QED BY <1>1, LimitStays

LEMMA SendKeeps ==
  ASSUME CartInv, NEW t \in Tabs, Idle(t), NEW op, NEW a, NEW n, Send(t, op, a, n),
         \/ op = "add" /\ a \in Addons /\ a \notin tabs[t].active /\ n = None
         \/ /\ op = "remove" /\ a \in Addons /\ tabs[t].props.line[a] # None
            /\ n = tabs[t].props.line[a]
         \/ op = "pay" /\ a = None /\ n = None
  PROVE  CartInv'
<1> USE DEF rowVars
<1>1. PICK c : c = [op |-> op, addon |-> a, line |-> n, pc |-> "sent", amount |-> 0]
  OBVIOUS
<1>2. tabs[t] \in Tab /\ tabs[t].props.line \in [Addons -> Lines \cup {None}]
  BY DEF Idle, CartInv, CartTypeOK, Tab, Props
<1>3. c \in Call /\ c.op = op /\ c.addon = a /\ c.line = n /\ c.pc = "sent"
  BY <1>1, <1>2 DEF Call
<1>4. call' = [call EXCEPT ![t] = c] /\ UNCHANGED <<rowVars, tabs, disturbed>>
  BY <1>1 DEF Send
<1>5. ASSUME t \notin disturbed, tabs[t] # None
      PROVE  TabIsCurrent(t)'
  <2>1. OneLineEach /\ tabs[t].active = InCart /\ ShowsLines(t)
    BY <1>5 DEF Idle, CartInv, OpenTabsAreCurrent, TabIsCurrent
  <2>2. call'[t] = c /\ c # None
    BY <1>3, <1>4, NoneIsNothing DEF CartInv, CartTypeOK
  <2>3. ShowsLines(t)'
    BY <1>4, <2>1, LinesStay DEF ShowsLines
  <2>4. op = "remove" => n \in LinesOf(a)
    BY <2>1 DEF ShowsLines
  <2>5. op = "remove" => n \in LinesOf(a)'
    BY <2>4, <1>4, LinesStay
  <2> QED BY <1>3, <1>4, <2>1, <2>2, <2>3, <2>5, LinesStay DEF TabIsCurrent, Running
<1>6. OverLimitIsBounded'
  BY <1>3, <1>4, NoMoreAdding
<1>7. op = "remove" => n \in Lines
  BY <1>2
<1> QED BY <1>3, <1>4, <1>5, <1>6, <1>7, CallMoves

\* The answer of a call that did nothing to the lines.
LEMMA GoesKeeps ==
  ASSUME CartInv, NEW t \in Tabs, call[t] # None, NEW pc, NEW n \in Nat,
         pc \in {"checked", "priced", "done", "refused"},
         call' = [call EXCEPT ![t].pc = pc, ![t].amount = n],
         UNCHANGED <<rowVars, tabs, disturbed>>,
         \/ pc = "refused" /\ call[t].pc # "done"
         \/ call[t].op = "pay" /\ call[t].pc # "done"
         \/ Running(t, "add", "sent") /\ pc = "checked" /\ n \in AddonPrices
            /\ WithinLimit(call[t].addon)
  PROVE  CartInv'
<1> USE DEF rowVars
<1>1. PICK c : c = [call[t] EXCEPT !.pc = pc, !.amount = n]
  OBVIOUS
<1>2. call[t] \in Call
  BY DEF CartInv, CartTypeOK
<1>3. c \in Call /\ c.op = call[t].op /\ c.addon = call[t].addon /\ c.line = call[t].line
      /\ c.pc = pc /\ c.amount = n
  BY <1>1, <1>2 DEF Call
<1>4. call' = [call EXCEPT ![t] = c]
  BY <1>1 DEF CartInv, CartTypeOK
<1>5. call'[t] = c /\ c # None
  BY <1>3, <1>4, NoneIsNothing DEF CartInv, CartTypeOK
<1>6. ASSUME t \notin disturbed, tabs[t] # None
      PROVE  TabIsCurrent(t)'
  <2>1. TabIsCurrent(t)
    BY <1>6 DEF CartInv, OpenTabsAreCurrent
  <2>2. call[t].pc # "done"
    BY DEF Running
  <2>3. OneLineEach /\ tabs[t].active = InCart /\ ShowsLines(t)
    BY <2>1, <2>2 DEF TabIsCurrent
  <2>4. ShowsLines(t)'
    BY <2>3, LinesStay DEF ShowsLines
  <2>5. c.op = "add" /\ c.pc \in {"sent", "checked"} => c.addon \notin InCart
    BY <1>3, <2>1 DEF TabIsCurrent, Running
  <2>6. ~Running(t, "remove", "sent")'
    BY <1>3, <1>5 DEF Running
  <2>7. c.pc = "done" => InCart = Ticked(tabs[t].active, c)
    BY <1>3, <2>3 DEF Ticked, Running
  <2>8. (Ticked(tabs[t].active, call[t]))' = Ticked(tabs[t].active, c)
    BY <1>5 DEF Ticked
  <2> QED BY <1>5, <2>3, <2>4, <2>5, <2>6, <2>7, <2>8, LinesStay DEF TabIsCurrent
<1>7. OverLimitIsBounded'
  <2>1. CASE ~(c.op = "add" /\ c.pc = "checked")
    BY <1>3, <1>4, <2>1, NoMoreAdding
  <2>2. CASE c.op = "add" /\ c.pc = "checked"
    <3> SUFFICES ASSUME NEW a \in Addons
                 PROVE  Cardinality(LinesOf(a)') + Cardinality(Adding(a)')
                          < MaxQty + Cardinality(Tabs)
      BY DEF OverLimitIsBounded
    <3>1. LinesOf(a)' = LinesOf(a)
      BY LinesStay
    <3>2. CASE a = c.addon
      <4>1. Cardinality(LinesOf(a)) + 1 <= MaxQty
        BY <1>3, <2>2, <3>2 DEF WithinLimit, Running
      <4> QED BY <3>1, <4>1, AddingIsFinite, PresentIsFinite, CartAssumption
    <3>3. CASE a # c.addon
      <4>1. Adding(a)' \subseteq Adding(a)
        BY <1>4, <1>5, <3>3 DEF Adding, Running, CartInv, CartTypeOK
      <4>2. Cardinality(Adding(a)') <= Cardinality(Adding(a))
        BY <4>1, AddingIsFinite, FS_Subset
      <4>3. Cardinality(LinesOf(a)) + Cardinality(Adding(a)) < MaxQty + Cardinality(Tabs)
        BY DEF CartInv, OverLimitIsBounded
      <4> QED BY <3>1, <4>2, <4>3, AddingIsFinite, PresentIsFinite, CartAssumption
    <3> QED BY <3>2, <3>3
  <2> QED BY <2>1, <2>2
<1>8. /\ c.op = "add" => c.addon \in Addons
      /\ c.op = "remove" => c.addon \in Addons /\ c.line \in Lines
      /\ c.op = "add" /\ c.pc = "checked" => c.amount \in AddonPrices
  BY <1>3 DEF CartInv, CallsAreMeant, Running
<1> QED BY <1>3, <1>4, <1>6, <1>7, <1>8, CallMoves

LEMMA GoesIsAStep ==
  ASSUME CartInv, NEW t \in Tabs, call[t] # None, NEW pc, Goes(t, pc)
  PROVE  /\ call[t].amount \in Nat
         /\ call' = [call EXCEPT ![t].pc = pc, ![t].amount = call[t].amount]
<1>1. call[t] \in Call
  BY DEF CartInv, CartTypeOK
<1>2. [call[t] EXCEPT !.pc = pc] = [call[t] EXCEPT !.pc = pc, !.amount = call[t].amount]
  BY <1>1 DEF Call
<1> QED BY <1>1, <1>2 DEF Goes, Call, CartInv, CartTypeOK

LEMMA RefuseKeeps ==
  ASSUME CartInv, NEW t \in Tabs, call[t] # None, call[t].pc # "done", Goes(t, "refused"),
         UNCHANGED <<rowVars, tabs, disturbed>>
  PROVE  CartInv'
  BY GoesIsAStep, GoesKeeps

LEMMA CheckAddKeeps ==
  ASSUME CartInv, NEW t \in Tabs, CheckAdd(t)
  PROVE  CartInv'
<1>1. call[t] # None /\ call[t].pc = "sent" /\ call[t].op = "add" /\ call[t].addon \in Addons
  BY DEF CheckAdd, Running, CartInv, CallsAreMeant
<1>2. CASE Addable(call[t].addon)
  <2>1. PICK n \in AddonPrices : n = addons[call[t].addon].price
    BY <1>1 DEF CartInv, CartTypeOK
  <2>2. call' = [call EXCEPT ![t].pc = "checked", ![t].amount = n]
    BY <1>2, <2>1 DEF CheckAdd
  <2>3. n \in Nat /\ WithinLimit(call[t].addon) /\ Running(t, "add", "sent")
    BY <1>2, CartAssumption DEF Addable, CheckAdd
  <2> QED BY <1>1, <2>2, <2>3, GoesKeeps DEF CheckAdd
<1>3. CASE ~Addable(call[t].addon)
  BY <1>1, <1>3, RefuseKeeps DEF CheckAdd
<1> QED BY <1>2, <1>3

LEMMA PayKeeps ==
  ASSUME CartInv, NEW t \in Tabs, PriceLot(t) \/ PriceAddons(t) \/ Charge(t)
  PROVE  CartInv'
<1>1. call[t] # None /\ call[t].pc # "done" /\ call[t].op = "pay" /\ call[t] \in Call
  BY DEF PriceLot, PriceAddons, Charge, Running, CartInv, CartTypeOK
<1>2. CASE PriceLot(t)
  <2>1. CASE held
    <3>1. call' = [call EXCEPT ![t].pc = "checked", ![t].amount = LotPrice]
      BY <1>2, <2>1 DEF PriceLot
    <3> QED BY <1>1, <1>2, <3>1, LotPriceType, GoesKeeps DEF PriceLot
  <2>2. CASE ~held
    BY <1>1, <1>2, <2>2, RefuseKeeps DEF PriceLot
  <2> QED BY <2>1, <2>2
<1>3. CASE PriceAddons(t)
  <2>1. PICK n \in Nat : n = call[t].amount + AddonTotal
    BY <1>1, AddonTotalType DEF Call
  <2>2. call' = [call EXCEPT ![t].pc = "priced", ![t].amount = n]
    BY <1>3, <2>1 DEF PriceAddons
  <2> QED BY <1>1, <1>3, <2>2, GoesKeeps DEF PriceAddons
<1>4. CASE Charge(t)
  <2>1. Goes(t, "done") /\ UNCHANGED <<rowVars, tabs, disturbed>>
    BY <1>4 DEF Charge
  <2>2. call[t].amount \in Nat
        /\ call' = [call EXCEPT ![t].pc = "done", ![t].amount = call[t].amount]
    BY <1>1, <2>1, GoesIsAStep
  <2>3. PICK n \in Nat : n = call[t].amount
    BY <2>2
  <2>4. call' = [call EXCEPT ![t].pc = "done", ![t].amount = n]
    BY <2>2, <2>3
  <2> QED BY <1>1, <2>1, <2>4, GoesKeeps
<1> QED BY <1>2, <1>3, <1>4

LEMMA HearAnswerKeeps ==
  ASSUME CartInv, NEW t \in Tabs, HearAnswer(t)
  PROVE  CartInv'
<1> USE DEF rowVars
<1>1. call' = [call EXCEPT ![t] = None] /\ call[t] # None /\ call[t] \in Call
      /\ UNCHANGED <<rowVars, disturbed>> /\ call[t].pc \in {"done", "refused"}
  BY DEF HearAnswer, CartInv, CartTypeOK
<1>2. call'[t] = None /\ \A u \in Tabs : u # t => call'[u] = call[u] /\ tabs'[u] = tabs[u]
  BY <1>1 DEF HearAnswer, CartInv, CartTypeOK
<1>3. CallsAreMeant' /\ LinesAreDrawn'
  BY <1>1, <1>2, LinesStay DEF CartInv, CallsAreMeant, Running
<1>4. OverLimitIsBounded'
  <2>1. \A a \in Addons : Adding(a)' \subseteq Adding(a)
    BY <1>2 DEF Adding, Running
  <2> QED BY <1>1, <2>1, LimitStays
<1>5. tabs' \in [Tabs -> Tab \cup {None}]
      /\ (t \notin disturbed /\ tabs'[t] # None => TabIsCurrent(t)')
  <2>1. CASE tabs[t] # None /\ call[t].pc = "done"
    <3> DEFINE c == call[t]
               p(page) == [props |-> page, active |-> Ticked(tabs[t].active, c),
                           paid |-> c.op = "pay"]
    <3>1. PICK page \in Pages : tabs' = [tabs EXCEPT ![t] = p(page)]
      BY <2>1 DEF HearAnswer, Rendered
    <3>2. tabs[t] \in Tab /\ tabs[t].active \in SUBSET Addons
      BY <2>1 DEF CartInv, CartTypeOK, Tab
    <3>3. Ticked(tabs[t].active, c) \in SUBSET Addons
      <4>1. c.op \in {"add", "remove", "pay"} /\ (c.op = "add" => c.addon \in Addons)
        BY <1>1 DEF CartInv, CallsAreMeant, Call
      <4> QED BY <3>2, <4>1 DEF Ticked
    <3>4. p(page) \in Tab
      BY <3>3, PagesAreProps DEF Tab
    <3>5. tabs' \in [Tabs -> Tab \cup {None}] /\ tabs'[t] = p(page)
      BY <3>1, <3>4 DEF CartInv, CartTypeOK
    <3>6. ASSUME t \notin disturbed
          PROVE  TabIsCurrent(t)'
      <4>1. TabIsCurrent(t)
        BY <2>1, <3>6 DEF CartInv, OpenTabsAreCurrent
      <4>2. OneLineEach /\ InCart = tabs'[t].active
        BY <1>1, <2>1, <3>5, <4>1 DEF TabIsCurrent
      <4>3. ShowsLines(t)'
        BY <1>1, <3>5, LinesStay, PagesAreProps DEF ShowsLines
      <4> QED BY <1>1, <1>2, <4>2, <4>3, LinesStay DEF TabIsCurrent
    <3> QED BY <3>5, <3>6
  <2>2. CASE ~(tabs[t] # None /\ call[t].pc = "done")
    <3>1. tabs' = tabs /\ (tabs[t] # None => call[t].pc # "done")
      BY <1>1, <2>2 DEF HearAnswer
    <3>2. ASSUME t \notin disturbed, tabs'[t] # None
          PROVE  TabIsCurrent(t)'
      <4>1. TabIsCurrent(t)
        BY <3>1, <3>2 DEF CartInv, OpenTabsAreCurrent
      <4>2. OneLineEach /\ tabs[t].active = InCart /\ ShowsLines(t)
        BY <3>1, <3>2, <4>1 DEF TabIsCurrent
      <4>3. ShowsLines(t)'
        BY <1>1, <3>1, <4>2, LinesStay DEF ShowsLines
      <4> QED BY <1>1, <1>2, <3>1, <4>2, <4>3, LinesStay DEF TabIsCurrent
    <3> QED BY <3>1, <3>2 DEF CartInv, CartTypeOK
  <2> QED BY <2>1, <2>2
<1>6. CartTypeOK'
  BY <1>1, <1>5 DEF CartInv, CartTypeOK
<1>7. ASSUME NEW u \in Tabs \ disturbed', tabs'[u] # None, u # t
      PROVE  TabIsCurrent(u)'
  <2>1. TabIsCurrent(u)
    BY <1>1, <1>2, <1>7 DEF CartInv, OpenTabsAreCurrent
  <2> QED BY <1>1, <1>2, <1>7, <2>1, TabStays
<1> QED BY <1>1, <1>3, <1>4, <1>5, <1>6, <1>7 DEF CartInv, OpenTabsAreCurrent

-----------------------------------------------------------------------------
(* The lines *)

LEMMA InsertLineKeeps ==
  ASSUME CartInv, NEW t \in Tabs, InsertLine(t)
  PROVE  CartInv'
<1> DEFINE a == call[t].addon
<1>1. call[t] # None /\ call[t] \in Call /\ call[t].op = "add" /\ call[t].pc = "checked"
      /\ a \in Addons /\ call[t].amount \in AddonPrices
  BY DEF InsertLine, Running, CartInv, CartTypeOK, CallsAreMeant
<1>2. PICK n \in Lines \ used :
        /\ lines' = [lines EXCEPT ![n] = [addon |-> a, price |-> call[t].amount]]
        /\ used' = used \cup {n}
  BY DEF InsertLine
<1>3. PICK r : r = [addon |-> a, price |-> call[t].amount]
  OBVIOUS
<1>4. r \in Line /\ r # None /\ r.addon = a
  BY <1>1, <1>3, NoneIsNothing DEF Line
<1>5. lines' \in [Lines -> Line \cup {None}] /\ lines'[n] = r
      /\ \A m \in Lines : m # n => lines'[m] = lines[m]
  BY <1>2, <1>3, <1>4 DEF CartInv, CartTypeOK
<1>6. n \notin Present
  BY <1>2 DEF CartInv, LinesAreDrawn
<1>7. Present' = Present \cup {n}
  BY <1>4, <1>5 DEF Present
<1>8. \A b \in Addons : LinesOf(b)' = IF b = a THEN LinesOf(b) \cup {n} ELSE LinesOf(b)
  BY <1>4, <1>5, <1>6, <1>7 DEF LinesOf, Present
<1>9. call' \in [Tabs -> Call \cup {None}] /\ call'[t] = [call[t] EXCEPT !.pc = "done"]
      /\ call'[t] \in Call /\ \A u \in Tabs : u # t => call'[u] = call[u]
  <2>1. [call[t] EXCEPT !.pc = "done"] \in Call
    BY <1>1 DEF Call
  <2> QED BY <2>1 DEF InsertLine, Goes, CartInv, CartTypeOK
<1>10. call'[t] # None /\ call'[t].op = "add" /\ call'[t].pc = "done" /\ call'[t].addon = a
  BY <1>1, <1>9, NoneIsNothing DEF Call
<1>11. CartTypeOK'
  BY <1>2, <1>5, <1>9 DEF InsertLine, Disturb, CartInv, CartTypeOK
<1>12. LinesAreDrawn'
  BY <1>2, <1>7, FS_AddElement DEF CartInv, LinesAreDrawn
<1>13. CallsAreMeant'
  BY <1>1, <1>9, <1>10 DEF CartInv, CallsAreMeant, Running
<1>14. ASSUME NEW b \in Addons
       PROVE  Cardinality(LinesOf(b)') + Cardinality(Adding(b)') < MaxQty + Cardinality(Tabs)
  <2>1. Cardinality(LinesOf(b)) + Cardinality(Adding(b)) < MaxQty + Cardinality(Tabs)
    BY DEF CartInv, OverLimitIsBounded
  <2>2. CASE b = a
    <3>1. t \in Adding(b) /\ Adding(b)' = Adding(b) \ {t}
      BY <1>1, <1>9, <1>10, <2>2 DEF Adding, Running
    <3>2. Cardinality(Adding(b)') = Cardinality(Adding(b)) - 1
      BY <3>1, AddingIsFinite, FS_RemoveElement
    <3>3. LinesOf(b)' = LinesOf(b) \cup {n} /\ n \notin LinesOf(b)
      BY <1>6, <1>8, <2>2 DEF LinesOf
    <3>4. Cardinality(LinesOf(b)') = Cardinality(LinesOf(b)) + 1
      BY <3>3, PresentIsFinite, FS_AddElement
    <3> QED BY <2>1, <3>2, <3>4, AddingIsFinite, PresentIsFinite, CartAssumption
  <2>3. CASE b # a
    <3>1. Adding(b)' = Adding(b)
      BY <1>1, <1>9, <1>10, <2>3 DEF Adding, Running
    <3>2. LinesOf(b)' = LinesOf(b)
      BY <1>8, <2>3
    <3> QED BY <2>1, <3>1, <3>2
  <2> QED BY <2>2, <2>3
<1>15. ASSUME NEW u \in Tabs \ disturbed', tabs'[u] # None
       PROVE  TabIsCurrent(u)'
  <2>1. u = t /\ u \notin disturbed /\ tabs' = tabs
    BY <1>15 DEF InsertLine, Disturb
  <2>2. TabIsCurrent(t)
    BY <1>15, <2>1 DEF CartInv, OpenTabsAreCurrent
  <2>3. OneLineEach /\ tabs[t].active = InCart /\ LinesOf(a) = {}
    BY <1>1, <2>2 DEF TabIsCurrent, InCart
  <2>4. OneLineEach'
    BY <1>8, <2>3 DEF OneLineEach
  <2>5. InCart' = InCart \cup {a}
    BY <1>1, <1>8 DEF InCart
  <2>6. (Ticked(tabs[t].active, call[t]))' = InCart \cup {a}
    BY <1>10, <2>1, <2>3 DEF Ticked
  <2> QED BY <1>10, <2>1, <2>4, <2>5, <2>6 DEF TabIsCurrent, Running
<1> QED BY <1>11, <1>12, <1>13, <1>14, <1>15
        DEF CartInv, OverLimitIsBounded, OpenTabsAreCurrent

LEMMA RemoveLineKeeps ==
  ASSUME CartInv, NEW t \in Tabs, RemoveLine(t)
  PROVE  CartInv'
<1> DEFINE a == call[t].addon
           k == call[t].line
<1>1. call[t] # None /\ call[t] \in Call /\ call[t].op = "remove" /\ call[t].pc = "sent"
      /\ a \in Addons /\ k \in Lines
  BY DEF RemoveLine, Running, CartInv, CartTypeOK, CallsAreMeant
<1>2. CASE UserId # VendorId
  BY <1>1, <1>2, RefuseKeeps DEF RemoveLine, rowVars
<1>3. CASE UserId = VendorId
  <2>1. lines' \in [Lines -> Line \cup {None}] /\ lines'[k] = None /\ used' = used
        /\ \A m \in Lines : m # k => lines'[m] = lines[m]
    BY <1>1, <1>3 DEF RemoveLine, CartInv, CartTypeOK
  <2>2. Present' = Present \ {k}
    BY <2>1 DEF Present
  <2>3. \A b \in Addons : LinesOf(b)' = LinesOf(b) \ {k}
    BY <2>1, <2>2 DEF LinesOf, Present
  <2>4. call' \in [Tabs -> Call \cup {None}] /\ call'[t] = [call[t] EXCEPT !.pc = "done"]
        /\ call'[t] \in Call /\ \A u \in Tabs : u # t => call'[u] = call[u]
    <3>1. [call[t] EXCEPT !.pc = "done"] \in Call
      BY <1>1 DEF Call
    <3> QED BY <1>3, <3>1 DEF RemoveLine, Goes, CartInv, CartTypeOK
  <2>5. call'[t] # None /\ call'[t].op = "remove" /\ call'[t].pc = "done"
        /\ call'[t].addon = a /\ call'[t].line = k
    BY <1>1, <2>4, NoneIsNothing DEF Call
  <2>6. CartTypeOK'
    BY <2>1, <2>4 DEF RemoveLine, Disturb, CartInv, CartTypeOK
  <2>7. LinesAreDrawn' /\ CallsAreMeant'
    BY <1>1, <2>1, <2>2, <2>4, <2>5 DEF CartInv, LinesAreDrawn, CallsAreMeant, Running
  <2>8. ASSUME NEW b \in Addons
        PROVE  Cardinality(LinesOf(b)') + Cardinality(Adding(b)') < MaxQty + Cardinality(Tabs)
    <3>1. Cardinality(LinesOf(b)) + Cardinality(Adding(b)) < MaxQty + Cardinality(Tabs)
      BY DEF CartInv, OverLimitIsBounded
    <3>2. Adding(b)' = Adding(b)
      BY <1>1, <2>4, <2>5 DEF Adding, Running
    <3>3. IsFiniteSet(LinesOf(b)') /\ Cardinality(LinesOf(b)') <= Cardinality(LinesOf(b))
          /\ Cardinality(LinesOf(b)') \in Nat
      BY <2>3, PresentIsFinite, FS_Subset, FS_CardinalityType
    <3> QED BY <3>1, <3>2, <3>3, AddingIsFinite, PresentIsFinite, CartAssumption
  <2>9. ASSUME NEW u \in Tabs \ disturbed', tabs'[u] # None
        PROVE  TabIsCurrent(u)'
    <3>1. tabs' = tabs /\ u \notin disturbed
      BY <2>9 DEF RemoveLine, Disturb
    <3>2. TabIsCurrent(u)
      BY <2>9, <3>1 DEF CartInv, OpenTabsAreCurrent
    <3>3. CASE u # t
      <4>1. lines' = lines
        BY <2>9, <3>1, <3>3 DEF RemoveLine, Disturb
      <4> QED BY <2>1, <2>4, <3>1, <3>2, <3>3, <4>1, TabStays
    <3>4. CASE u = t
      <4>1. OneLineEach /\ tabs[t].active = InCart /\ k \in LinesOf(a)
        BY <1>1, <3>2, <3>4 DEF TabIsCurrent, Running
      <4>2. LinesOf(a) = {k} /\ \A b \in Addons : b # a => k \notin LinesOf(b)
        BY <1>1, <4>1 DEF OneLineEach, LinesOf
      <4>3. OneLineEach'
        BY <2>3, <4>1 DEF OneLineEach
      <4>4. InCart' = InCart \ {a}
        BY <1>1, <2>3, <4>2 DEF InCart
      <4>5. (Ticked(tabs[t].active, call[t]))' = InCart \ {a}
        BY <2>5, <3>1, <4>1 DEF Ticked
      <4> QED BY <2>5, <3>1, <3>4, <4>3, <4>4, <4>5 DEF TabIsCurrent, Running
    <3> QED BY <3>3, <3>4
  <2> QED BY <2>6, <2>7, <2>8, <2>9 DEF CartInv, OverLimitIsBounded, OpenTabsAreCurrent
<1> QED BY <1>2, <1>3

\* Prices change, or the hold ends.
LEMMA AroundKeeps ==
  ASSUME CartInv, (\E a \in Addons : EditAddon(a)) \/ EditCategory \/ HoldEnds
  PROVE  CartInv'
<1>1. UNCHANGED <<lines, used, tabs, call, disturbed>>
  BY DEF EditAddon, EditCategory, HoldEnds
<1>2. edits' \in 0 .. MaxEdits
  BY CartAssumption DEF EditAddon, EditCategory, HoldEnds, CountEdit, CartInv, CartTypeOK
<1>3. held' \in BOOLEAN /\ rate' \in Rates
  BY DEF EditAddon, EditCategory, HoldEnds, CartInv, CartTypeOK
<1> DEFINE Addon == [price : AddonPrices, active : BOOLEAN]
<1>4. addons' \in [Addons -> Addon]
  <2>1. ASSUME NEW a \in Addons, EditAddon(a)
        PROVE  addons' \in [Addons -> Addon]
    <3>1. PICK x \in Addon : addons' = [addons EXCEPT ![a] = x]
      BY <2>1 DEF EditAddon
    <3> QED BY <3>1 DEF CartInv, CartTypeOK
  <2>2. addons \in [Addons -> Addon]
    BY DEF CartInv, CartTypeOK
  <2> QED BY <2>1, <2>2 DEF EditCategory, HoldEnds
<1>5. CartTypeOK'
  BY <1>1, <1>2, <1>3, <1>4 DEF CartInv, CartTypeOK
<1>6. CallsAreMeant' /\ LinesAreDrawn'
  BY <1>1, LinesStay DEF CartInv, CallsAreMeant, Running
<1>7. OverLimitIsBounded'
  BY <1>1, LimitStays DEF Adding, Running
<1>8. OpenTabsAreCurrent'
  BY <1>1, TabStays DEF CartInv, OpenTabsAreCurrent
<1> QED BY <1>5, <1>6, <1>7, <1>8 DEF CartInv

-----------------------------------------------------------------------------
(* The theorems *)

LEMMA CartNextKeeps == CartInv /\ [CartNext]_cartVars => CartInv'
<1> SUFFICES ASSUME CartInv, [CartNext]_cartVars
             PROVE  CartInv'
  OBVIOUS
<1>1. CASE UNCHANGED cartVars
  <2>1. UNCHANGED <<held, addons, rate, lines, used, edits, tabs, call, disturbed>>
    BY <1>1 DEF cartVars, rowVars
  <2>2. CallsAreMeant' /\ LinesAreDrawn'
    BY <2>1, LinesStay DEF CartInv, CallsAreMeant, Running
  <2>3. OverLimitIsBounded' /\ OpenTabsAreCurrent'
    BY <2>1, LimitStays, TabStays DEF Adding, Running, CartInv, OpenTabsAreCurrent
  <2> QED BY <2>1, <2>2, <2>3 DEF CartInv, CartTypeOK
<1>2. ASSUME NEW t \in Tabs, OfTab(t)
      PROVE  CartInv'
  <2>1. CASE OpenPage(t)
    BY <2>1, OpenPageKeeps
  <2>2. CASE ClosePage(t)
    BY <2>2, ClosePageKeeps
  <2>3. CASE Pay(t)
    BY <2>3, SendKeeps DEF Pay
  <2>4. CASE HearAnswer(t)
    BY <2>4, HearAnswerKeeps
  <2>5. ASSUME NEW a \in Addons, ToggleAddon(t, a)
        PROVE  CartInv'
    BY <2>5, SendKeeps DEF ToggleAddon
  <2> QED BY <1>2, <2>1, <2>2, <2>3, <2>4, <2>5 DEF OfTab
<1>3. ASSUME NEW t \in Tabs, OfServer(t)
      PROVE  CartInv'
  <2>1. CASE CheckAdd(t)
    BY <2>1, CheckAddKeeps
  <2>2. CASE InsertLine(t)
    BY <2>2, InsertLineKeeps
  <2>3. CASE RemoveLine(t)
    BY <2>3, RemoveLineKeeps
  <2>4. CASE PriceLot(t) \/ PriceAddons(t) \/ Charge(t)
    BY <2>4, PayKeeps
  <2>5. CASE Refuse(t)
    BY <2>5, RefuseKeeps DEF Refuse
  <2> QED BY <1>3, <2>1, <2>2, <2>3, <2>4, <2>5 DEF OfServer
<1> QED BY <1>1, <1>2, <1>3, AroundKeeps DEF CartNext

\* The invariant of the cart, however many tabs change it at once.
THEOREM CartInvariance == CartSpec => []CartInv
  BY CartInitHolds, CartNextKeeps, PTL DEF CartSpec

\* The limit of an add-on is exceeded by less than the number of tabs that add it,
\* although its check and its INSERT are two statements (cart.ts:105-123).
THEOREM LimitIsNearlyKept == CartSpec => []OverLimitIsBounded
<1>1. CartInv => OverLimitIsBounded
  BY DEF CartInv
<1> QED BY <1>1, CartInvariance, PTL

\* A tab that nobody disturbed shows as ticked what is in the cart
\* (checkout-sidebar.tsx:99-130).
THEOREM TabsTickTheCart == CartSpec => []TicksAreTheCart
<1>1. CartInv => TicksAreTheCart
  BY DEF CartInv, OpenTabsAreCurrent, TabIsCurrent, InCart, TicksAreTheCart
<1> QED BY <1>1, CartInvariance, PTL

\* The step that adds up the lines charges what the tab shows.
LEMMA StepChargesShown ==
  ASSUME CartInv, [CartNext]_cartVars, NEW t \in Tabs \ disturbed,
         Running(t, "pay", "checked"), tabs[t] # None, PricesAreShown(t),
         call'[t].pc = "priced"
  PROVE  call'[t].amount = Shown(t)
<1>1. PriceAddons(t)
  <2>1. call[t].pc = "checked" /\ call[t].op = "pay" /\ call[t] # None /\ call[t] \in Call
        /\ call \in [Tabs -> Call \cup {None}]
    BY DEF Running, CartInv, CartTypeOK
  <2>2. ASSUME NEW u \in Tabs, u # t, OfTab(u) \/ OfServer(u)
        PROVE  call'[t] = call[t]
    BY <2>1, <2>2 DEF OfTab, OfServer, OpenPage, ClosePage, Pay, HearAnswer, ToggleAddon, Send,
      CheckAdd, InsertLine, RemoveLine, PriceLot, PriceAddons, Charge, Refuse, Goes
  <2>3. ~OfTab(t)
    <3>1. ~Idle(t) /\ ~OpenPage(t) /\ ~HearAnswer(t)
      BY <2>1 DEF Idle, OpenPage, HearAnswer
    <3>2. ~ClosePage(t)
      BY <2>1 DEF ClosePage
    <3> QED BY <3>1, <3>2 DEF OfTab, Pay, ToggleAddon
  <2>4. ~(CheckAdd(t) \/ InsertLine(t) \/ RemoveLine(t) \/ PriceLot(t) \/ Charge(t))
    BY <2>1 DEF CheckAdd, InsertLine, RemoveLine, PriceLot, Charge, Running
  <2>5. ~Refuse(t)
    <3>1. Refuse(t) => call'[t].pc = "refused"
      BY <2>1 DEF Refuse, Goes, Call
    <3> QED BY <3>1
  <2>6. ~(\E a \in Addons : EditAddon(a)) /\ ~EditCategory /\ ~HoldEnds
        /\ ~UNCHANGED cartVars
    BY <2>1 DEF EditAddon, EditCategory, HoldEnds, cartVars
  <2> QED BY <2>1, <2>2, <2>3, <2>4, <2>5, <2>6 DEF CartNext, OfServer
<1>2. call[t] \in Call /\ call'[t].amount = call[t].amount + AddonTotal
  BY <1>1 DEF PriceAddons, Running, CartInv, CartTypeOK, Call
<1>3. OneLineEach /\ tabs[t].active = InCart
  BY DEF CartInv, OpenTabsAreCurrent, TabIsCurrent, Running
<1> DEFINE f == [n \in Present |-> lines[n].price]
           b == [n \in Present |-> lines[n].addon]
           g == tabs[t].props.price
<1>4. \A n \in Present : lines[n] \in Line
  BY DEF Present, CartInv, CartTypeOK
<1>5. \A n \in Present : f[n] \in Nat /\ g[b[n]] = f[n]
  BY <1>4, CartAssumption DEF PricesAreShown, Line
<1>6. \A m, n \in Present : b[m] = b[n] => m = n
  BY <1>3, <1>4 DEF OneLineEach, LinesOf, Line
<1>7. {b[n] : n \in Present} = InCart
  BY <1>4 DEF InCart, LinesOf, Line
<1>8. Total(f, Present) = Total(g, InCart)
  <2> HIDE DEF f, g, b
  <2> QED BY <1>5, <1>6, <1>7, PresentIsFinite, TotalAlong
<1>9. tabs[t].props.lot = call[t].amount
  BY DEF PricesAreShown
<1> QED BY <1>2, <1>3, <1>8, <1>9, SumOfLines, SumOfTicks

\* What such a tab shows as the total is what its checkout charges, unless a price
\* was changed: the page sums over ticks, the checkout over lines
\* (checkout-sidebar.tsx:94-97, checkout.ts:195-206).
THEOREM CheckoutsChargeShown == CartSpec => ShownIsCharged
<1>1. CartInv /\ [CartNext]_cartVars =>
        [\A t \in Tabs \ disturbed :
           /\ Running(t, "pay", "checked") /\ tabs[t] # None /\ PricesAreShown(t)
           /\ call'[t].pc = "priced"
           => call'[t].amount = Shown(t)]_cartVars
  BY StepChargesShown
<1> QED BY <1>1, CartInvariance, PTL DEF CartSpec, ShownIsCharged
=============================================================================
