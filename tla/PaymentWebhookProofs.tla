------------------------ MODULE PaymentWebhookProofs ------------------------
(***************************************************************************)
(* What TLAPS proves of PaymentWebhook, for any number of charges, events   *)
(* and changes of the orders.                                               *)
(*                                                                         *)
(* The job works on an answer that may be stale by the time it writes; what *)
(* it writes is right because the answer was the order at some time, and    *)
(* the gateway raised an event for each state of an order (OrderWasRaised). *)
(***************************************************************************)
EXTENDS PaymentWebhook, TLAPS

\* Pagar.me has raised an event about p that says o.
WasRaised(p, o) ==
  \E e \in Events : raised[e] # Null /\ raised[e].payment = p /\ raised[e].snapshot = o

OrderWasRaised == \A p \in Payments : orders[p] # Null => WasRaised(p, orders[p])

RaisedHasOrder == \A e \in Events : raised[e] # Null => orders[Of(e)] # Null

\* The webhook knows an order only once its charge has committed.
LinkedHasEnded == \A p \in linked : charge[p] = "ended"

\* Until then nothing can have settled the payment.
OpenIsUnsettled ==
  \A p \in Payments : charge[p] # "ended" =>
    payments[p] = "none" /\ effects[p].paid = 0 /\ effects[p].failed = 0

\* What a job has read.
JobFits(e) ==
  /\ raised[e] # Null /\ Of(e) \in linked
  /\ job[e].pc \in {"fetched", "read"} => job[e].api \in Order /\ WasRaised(Of(e), job[e].api)
  /\ job[e].pc = "read" => DecideNewStatus(job[e].api) # Null

JobsFit == \A e \in Events : job[e].pc # "none" => JobFits(e)

IInv ==
  /\ TypeOK /\ OrderWasRaised /\ RaisedHasOrder /\ LinkedHasEnded /\ OpenIsUnsettled /\ JobsFit
  /\ StatusFromGateway /\ SettledIffEmitted

-----------------------------------------------------------------------------
(* What the gateway says *)

LEMMA OrdersStayOrders ==
  ASSUME NEW o \in Order, NEW n \in OrderChanges(o)
  PROVE  n \in Order
  BY DEF OrderChanges, Order, OrderStatus, ChargeStatus, NewOrder

LEMMA NewIsOrder == NewOrder \in Order /\ NewOrder # Null
  BY NullIsNothing DEF NewOrder, Order, OrderStatus, ChargeStatus

\* What an order is decided to is a terminal status, and a new order is to nothing.
LEMMA DecidedIsTerminal ==
  ASSUME NEW o \in Order, DecideNewStatus(o) # Null
  PROVE  DecideNewStatus(o) \in TerminalStatuses /\ o # NewOrder
  BY DEF DecideNewStatus, Reports, TerminalStatuses, NewOrder

\* What a settlement emits, on top of what was emitted before.
LEMMA EffectsGrow ==
  ASSUME NEW status, NEW f \in [paid : Nat, failed : Nat, emails : Nat]
  PROVE  /\ EffectsOf(status, f) \in [paid : Nat, failed : Nat, emails : Nat]
         /\ EffectsOf(status, f).paid >= f.paid /\ EffectsOf(status, f).failed >= f.failed
         /\ status = "paid" => EffectsOf(status, f).paid > 0 /\ EffectsOf(status, f).emails > 0
         /\ status = "failed" => EffectsOf(status, f).failed > 0
<1>1. CASE status = "paid"
  <2> DEFINE g == [f EXCEPT !.paid = f.paid + 1]
  <2>1. EffectsOf(status, f) = [g EXCEPT !.emails = f.emails + 1]
    BY <1>1 DEF EffectsOf
  <2>2. /\ g \in [paid : Nat, failed : Nat, emails : Nat]
        /\ g.paid = f.paid + 1 /\ g.failed = f.failed /\ g.emails = f.emails
    OBVIOUS
  <2>3. f.paid \in Nat /\ f.failed \in Nat /\ f.emails \in Nat
    OBVIOUS
  <2> HIDE DEF g
  <2>4. /\ EffectsOf(status, f) \in [paid : Nat, failed : Nat, emails : Nat]
        /\ EffectsOf(status, f).paid = f.paid + 1 /\ EffectsOf(status, f).failed = f.failed
        /\ EffectsOf(status, f).emails = f.emails + 1
    BY <2>1, <2>2, <2>3
  <2> QED BY <1>1, <2>3, <2>4
<1>2. CASE status = "failed"
  <2>1. EffectsOf(status, f) = [f EXCEPT !.failed = f.failed + 1]
    BY <1>2 DEF EffectsOf
  <2> QED BY <1>2, <2>1
<1>3. CASE status # "paid" /\ status # "failed"
  <2>1. EffectsOf(status, f) = f
    BY <1>3 DEF EffectsOf
  <2> QED BY <1>3, <2>1
<1> QED BY <1>1, <1>2, <1>3

\* An event is raised of a payment, and none is taken back.
LEMMA RaiseStep ==
  ASSUME TypeOK, NEW p \in Payments, NEW o \in Order, Raise(p, o)
  PROVE  /\ raised' \in [Events -> RaisedEvent \cup {Null}]
         /\ \A e \in Events : raised[e] # Null => raised'[e] = raised[e]
         /\ \A e \in Events : raised'[e] # raised[e] =>
              raised'[e] # Null /\ raised'[e].payment = p /\ raised'[e].snapshot = o
         /\ WasRaised(p, o)'
<1>1. PICK e \in Events : /\ raised[e] = Null
                          /\ raised' = [raised EXCEPT ![e] = [payment |-> p, snapshot |-> o]]
  BY DEF Raise
<1>2. [payment |-> p, snapshot |-> o] \in RaisedEvent
  BY DEF RaisedEvent
<1>3. [payment |-> p, snapshot |-> o] # Null
  BY <1>2, NullIsNothing
<1>4. /\ raised'[e] = [payment |-> p, snapshot |-> o]
      /\ \A d \in Events : d # e => raised'[d] = raised[d]
  BY <1>1 DEF TypeOK
<1>5. WasRaised(p, o)'
  BY <1>3, <1>4 DEF WasRaised
<1> QED BY <1>1, <1>2, <1>3, <1>4, <1>5 DEF TypeOK

\* What is known of events and jobs survives a step of the gateway.
LEMMA GatewayKeeps ==
  ASSUME IInv, NEW p \in Payments, NEW o \in Order, Raise(p, o),
         orders' = [orders EXCEPT ![p] = o],
         UNCHANGED <<payments, linked, acked, inbox, job, effects>>,
         charge' \in [Payments -> Charge],
         \A q \in Payments : (charge[q] = "ended") <=> (charge'[q] = "ended")
  PROVE  IInv'
<1>1. /\ raised' \in [Events -> RaisedEvent \cup {Null}]
      /\ \A e \in Events : raised[e] # Null => raised'[e] = raised[e]
      /\ \A e \in Events : raised'[e] # raised[e] =>
              raised'[e] # Null /\ raised'[e].payment = p /\ raised'[e].snapshot = o
      /\ WasRaised(p, o)'
  BY RaiseStep DEF IInv
<1>2. \A q, n : WasRaised(q, n) => WasRaised(q, n)'
  BY <1>1 DEF WasRaised
<1>3. /\ orders' \in [Payments -> Order \cup {Null}] /\ orders'[p] = o /\ o # Null
      /\ \A q \in Payments : q # p => orders'[q] = orders[q]
  BY NullIsNothing DEF IInv, TypeOK
<1>4. TypeOK'
  BY <1>1, <1>3 DEF IInv, TypeOK
<1>5. OrderWasRaised'
  BY <1>1, <1>2, <1>3 DEF IInv, OrderWasRaised
<1>6. RaisedHasOrder'
  <2> SUFFICES ASSUME NEW e \in Events, raised'[e] # Null
               PROVE  orders'[raised'[e].payment] # Null
    BY DEF RaisedHasOrder, Of
  <2>1. CASE raised'[e] = raised[e]
    <3>1. raised[e].payment \in Payments /\ orders[raised[e].payment] # Null
      BY <2>1 DEF IInv, TypeOK, RaisedHasOrder, Of, RaisedEvent
    <3> QED BY <1>3, <2>1, <3>1
  <2>2. CASE raised'[e] # raised[e]
    BY <1>1, <1>3, <2>2
  <2> QED BY <2>1, <2>2
<1>7. LinkedHasEnded' /\ OpenIsUnsettled' /\ SettledIffEmitted'
  BY DEF IInv, TypeOK, LinkedHasEnded, OpenIsUnsettled, SettledIffEmitted
<1>8. JobsFit'
  BY <1>1, <1>2 DEF IInv, JobsFit, JobFits, Of
<1>9. StatusFromGateway'
  <2> SUFFICES ASSUME NEW q \in Payments, payments[q] \in TerminalStatuses
               PROVE  \E e \in Events : /\ raised'[e] # Null
                                        /\ raised'[e].payment = q
                                        /\ DecideNewStatus(raised'[e].snapshot) = payments[q]
                                        /\ raised'[e].snapshot # NewOrder
    BY DEF StatusFromGateway
  <2>1. PICK e \in Events : /\ raised[e] # Null
                            /\ raised[e].payment = q
                            /\ DecideNewStatus(raised[e].snapshot) = payments[q]
                            /\ raised[e].snapshot # NewOrder
    BY DEF IInv, StatusFromGateway
  <2> QED BY <1>1, <2>1
<1> QED BY <1>4, <1>5, <1>6, <1>7, <1>8, <1>9 DEF IInv

-----------------------------------------------------------------------------
(* Each step keeps the invariant *)

LEMMA ChangeOrderKeeps ==
  ASSUME IInv, NEW p \in Payments, ChangeOrder(p)
  PROVE  IInv'
<1>1. orders[p] \in Order
  BY DEF ChangeOrder, IInv, TypeOK
<1>2. PICK o \in OrderChanges(orders[p]) : orders' = [orders EXCEPT ![p] = o] /\ Raise(p, o)
  BY DEF ChangeOrder
<1>3. o \in Order
  BY <1>1, <1>2, OrdersStayOrders
<1>4. charge' \in [Payments -> Charge] /\ UNCHANGED <<payments, linked, acked, inbox, job, effects, charge>>
  BY DEF ChangeOrder, paymentVars, inboxVars, IInv, TypeOK
<1> QED BY <1>2, <1>3, <1>4, GatewayKeeps

LEMMA ChargeKeeps ==
  ASSUME IInv, NEW p \in Payments, ChargeStep(p)
  PROVE  IInv'
<1>1. CASE PostOrder(p)
  <2>1. /\ orders' = [orders EXCEPT ![p] = NewOrder] /\ Raise(p, NewOrder)
        /\ UNCHANGED <<payments, linked, acked, inbox, job, effects>>
    BY <1>1 DEF PostOrder, inboxVars
  <2>2. /\ charge' \in [Payments -> Charge]
        /\ \A q \in Payments : (charge[q] = "ended") <=> (charge'[q] = "ended")
    BY <1>1 DEF PostOrder, IInv, TypeOK, Charge
  <2> QED BY <2>1, <2>2, NewIsOrder, GatewayKeeps
<1>2. ASSUME NEW s \in {"open", "failed", "ended"}, charge[p] # "ended",
             charge' = [charge EXCEPT ![p] = s],
             UNCHANGED <<gatewayVars, inboxVars, job, effects>>,
             \/ UNCHANGED <<payments, linked>>
             \/ /\ s = "ended" /\ payments' = [payments EXCEPT ![p] = "pending"]
                /\ linked' \in {linked, linked \cup {p}}
      PROVE  IInv'
  <2>1. TypeOK'
    BY <1>2 DEF IInv, TypeOK, Charge, PaymentStatus, gatewayVars, inboxVars
  <2>2. OrderWasRaised' /\ RaisedHasOrder'
    BY <1>2 DEF IInv, OrderWasRaised, RaisedHasOrder, WasRaised, Of, gatewayVars
  <2>3. LinkedHasEnded' /\ OpenIsUnsettled'
    BY <1>2 DEF IInv, TypeOK, LinkedHasEnded, OpenIsUnsettled
  <2>4. JobsFit'
    BY <1>2 DEF IInv, JobsFit, JobFits, WasRaised, Of, gatewayVars
  <2>5. \A q \in Payments : payments'[q] = payments[q] \/ (q = p /\ payments'[q] = "pending")
    BY <1>2 DEF IInv, TypeOK
  <2>6. StatusFromGateway'
    BY <1>2, <2>5 DEF IInv, StatusFromGateway, TerminalStatuses, gatewayVars
  <2>7. SettledIffEmitted'
    BY <1>2, <2>5 DEF IInv, TypeOK, SettledIffEmitted, OpenIsUnsettled
  <2> QED BY <2>1, <2>2, <2>3, <2>4, <2>6, <2>7 DEF IInv
<1>3. CASE OpenCharge(p)
  BY <1>2, <1>3 DEF OpenCharge
<1>4. CASE PostFails(p)
  BY <1>2, <1>4 DEF PostFails
<1>5. CASE CommitCharge(p)
  BY <1>2, <1>5 DEF CommitCharge
<1>6. CASE AbortCharge(p)
  BY <1>2, <1>6 DEF AbortCharge
<1> QED BY <1>1, <1>3, <1>4, <1>5, <1>6 DEF ChargeStep

\* A step of the webhook or of a job which writes no payment.
LEMMA QuietJob ==
  ASSUME IInv, NEW e \in Events, UNCHANGED <<paymentVars, gatewayVars, effects>>,
         acked' \subseteq Events, inbox' \in [Events -> InboxStatus],
         job' \in [Events -> [pc : {"none", "queued", "fetched", "read", "committed", "done"},
                              api : Order \cup {Null}]],
         \A d \in Events : d # e => job'[d] = job[d],
         job'[e].pc # "none" => JobFits(e)'
  PROVE  IInv'
<1>1. TypeOK' /\ OrderWasRaised' /\ RaisedHasOrder' /\ LinkedHasEnded' /\ OpenIsUnsettled'
  BY DEF IInv, TypeOK, OrderWasRaised, RaisedHasOrder, LinkedHasEnded, OpenIsUnsettled,
         WasRaised, Of, paymentVars, gatewayVars
<1>2. JobsFit'
  <2> SUFFICES ASSUME NEW d \in Events, d # e, job'[d].pc # "none"
               PROVE  JobFits(d)'
    BY DEF JobsFit
  <2>1. job'[d] = job[d] /\ JobFits(d)
    BY DEF IInv, JobsFit
  <2> QED BY <2>1 DEF JobFits, WasRaised, Of, paymentVars, gatewayVars
<1>3. StatusFromGateway' /\ SettledIffEmitted'
  BY DEF IInv, StatusFromGateway, SettledIffEmitted, paymentVars, gatewayVars
<1> QED BY <1>1, <1>2, <1>3 DEF IInv

\* The job of e goes from one step to another.
LEMMA JobMoves ==
  ASSUME TypeOK, NEW e \in Events, NEW a \in Order \cup {Null},
         NEW pc \in {"none", "queued", "fetched", "read", "committed", "done"},
         job' = [job EXCEPT ![e] = [pc |-> pc, api |-> a]]
  PROVE  /\ job' \in [Events -> [pc : {"none", "queued", "fetched", "read", "committed", "done"},
                                 api : Order \cup {Null}]]
         /\ job'[e].pc = pc /\ job'[e].api = a
         /\ \A d \in Events : d # e => job'[d] = job[d]
  BY DEF TypeOK

LEMMA StepMoves ==
  ASSUME TypeOK, NEW e \in Events, NEW from,
         NEW to \in {"none", "queued", "fetched", "read", "committed", "done"}, Step(e, from, to)
  PROVE  job' = [job EXCEPT ![e] = [pc |-> to, api |-> job[e].api]]
         /\ job[e].api \in Order \cup {Null} /\ job[e].pc = from
<1>1. job[e] \in [pc : {"none", "queued", "fetched", "read", "committed", "done"},
                  api : Order \cup {Null}]
  BY DEF TypeOK
<1>2. [job[e] EXCEPT !.pc = to] = [pc |-> to, api |-> job[e].api]
  BY <1>1
<1> QED BY <1>1, <1>2 DEF Step

LEMMA DeliverKeeps ==
  ASSUME IInv, NEW e \in Events, Deliver(e)
  PROVE  IInv'
<1>1. acked' \subseteq Events /\ UNCHANGED <<paymentVars, gatewayVars, effects>>
  BY DEF Deliver, IInv, TypeOK
<1>2. CASE Known(e) /\ inbox[e] = "absent"
  <2>1. /\ inbox' = [inbox EXCEPT ![e] = "received"]
        /\ job' = [job EXCEPT ![e] = [pc |-> "queued", api |-> Null]]
    BY <1>2 DEF Deliver, Accept
  <2>2. inbox' \in [Events -> InboxStatus]
    BY <2>1 DEF IInv, TypeOK, InboxStatus
  <2>3. /\ job' \in [Events -> [pc : {"none", "queued", "fetched", "read", "committed", "done"},
                                 api : Order \cup {Null}]]
        /\ job'[e].pc = "queued" /\ \A d \in Events : d # e => job'[d] = job[d]
    BY <2>1, JobMoves DEF IInv
  <2>4. JobFits(e)'
    BY <1>1, <1>2, <2>3 DEF JobFits, Known, Of, paymentVars, gatewayVars
  <2> QED BY <1>1, <2>2, <2>3, <2>4, QuietJob
<1>3. CASE ~(Known(e) /\ inbox[e] = "absent")
  <2>1. UNCHANGED <<inbox, job>>
    BY <1>3 DEF Deliver
  <2>2. job'[e].pc # "none" => JobFits(e)'
    BY <1>1, <2>1 DEF IInv, JobsFit, JobFits, WasRaised, Of, paymentVars, gatewayVars
  <2> QED BY <1>1, <2>1, <2>2, QuietJob DEF IInv, TypeOK
<1> QED BY <1>2, <1>3

\* The answer is the order as it is, which an event was raised for.
LEMMA FetchKeeps ==
  ASSUME IInv, NEW e \in Events, Fetch(e)
  PROVE  IInv'
<1>1. /\ job[e].pc = "queued"
      /\ job' = [job EXCEPT ![e] = [pc |-> "fetched", api |-> orders[Of(e)]]]
      /\ UNCHANGED <<paymentVars, gatewayVars, inboxVars, effects>>
  BY DEF Fetch
<1>2. raised[e] # Null /\ Of(e) \in linked /\ Of(e) \in Payments
  BY <1>1 DEF IInv, TypeOK, JobsFit, JobFits
<1>3. orders[Of(e)] \in Order /\ WasRaised(Of(e), orders[Of(e)])
  BY <1>2 DEF IInv, TypeOK, RaisedHasOrder, OrderWasRaised
<1>4. /\ job' \in [Events -> [pc : {"none", "queued", "fetched", "read", "committed", "done"},
                              api : Order \cup {Null}]]
      /\ job'[e].pc = "fetched" /\ job'[e].api = orders[Of(e)]
      /\ \A d \in Events : d # e => job'[d] = job[d]
  BY <1>1, <1>3, JobMoves DEF IInv
<1>5. JobFits(e)'
  BY <1>1, <1>2, <1>3, <1>4 DEF JobFits, WasRaised, Of, paymentVars, gatewayVars
<1> QED BY <1>1, <1>4, <1>5, QuietJob DEF IInv, TypeOK, inboxVars

LEMMA JobKeeps ==
  ASSUME IInv, NEW e \in Events,
         ReadStatus(e) \/ MarkProcessed(e) \/ MarkProcessedFails(e) \/ RetryJob(e)
  PROVE  IInv'
<1>1. /\ UNCHANGED <<paymentVars, gatewayVars, effects>>
      /\ acked' \subseteq Events /\ inbox' \in [Events -> InboxStatus]
  BY DEF ReadStatus, MarkProcessed, MarkProcessedFails, RetryJob, inboxVars, InboxStatus, IInv, TypeOK
<1>2. job[e].pc # "none" /\ JobFits(e)
  BY DEF ReadStatus, MarkProcessed, MarkProcessedFails, RetryJob, Step, IInv, JobsFit
<1>3. ASSUME NEW from, NEW to \in {"read", "committed", "done"}, Step(e, from, to),
             to = "read" => from = "fetched" /\ DecideNewStatus(job[e].api) # Null
      PROVE  IInv'
  <2>1. /\ job' = [job EXCEPT ![e] = [pc |-> to, api |-> job[e].api]]
        /\ job[e].api \in Order \cup {Null} /\ job[e].pc = from
    BY <1>3, StepMoves DEF IInv
  <2>2. /\ job' \in [Events -> [pc : {"none", "queued", "fetched", "read", "committed", "done"},
                                api : Order \cup {Null}]]
        /\ job'[e].pc = to /\ job'[e].api = job[e].api
        /\ \A d \in Events : d # e => job'[d] = job[d]
    BY <2>1, JobMoves DEF IInv
  <2>3. JobFits(e)'
    BY <1>1, <1>2, <1>3, <2>1, <2>2 DEF JobFits, WasRaised, Of, paymentVars, gatewayVars
  <2> QED BY <1>1, <2>2, <2>3, QuietJob
<1>4. CASE RetryJob(e)
  <2>1. /\ job' \in [Events -> [pc : {"none", "queued", "fetched", "read", "committed", "done"},
                                api : Order \cup {Null}]]
        /\ job'[e].pc = "queued" /\ \A d \in Events : d # e => job'[d] = job[d]
    BY <1>4, JobMoves DEF RetryJob, IInv
  <2>2. JobFits(e)'
    BY <1>1, <1>2, <2>1 DEF JobFits, Of, paymentVars, gatewayVars
  <2> QED BY <1>1, <2>1, <2>2, QuietJob
<1> QED BY <1>3, <1>4 DEF ReadStatus, MarkProcessed, MarkProcessedFails

\* The status that is written comes from an answer, not from the payment's row, and
\* takes its event and email with it.
LEMMA ApplyKeeps ==
  ASSUME IInv, NEW e \in Events, ApplyStatus(e)
  PROVE  IInv'
<1> DEFINE p == Of(e)
           a == job[e].api
           new == DecideNewStatus(a)
<1>1. /\ Step(e, "read", "committed")
      /\ payments' = [payments EXCEPT ![p] = new]
      /\ effects' = [effects EXCEPT ![p] = EffectsOf(new, effects[p])]
      /\ UNCHANGED <<charge, linked, gatewayVars, inboxVars>>
  BY DEF ApplyStatus
<1>2. job[e].pc = "read" /\ JobFits(e)
  BY <1>1 DEF Step, IInv, JobsFit
<1>3. /\ raised[e] # Null /\ p \in linked /\ p \in Payments /\ charge[p] = "ended"
      /\ a \in Order /\ WasRaised(p, a) /\ new # Null
  BY <1>2 DEF JobFits, IInv, TypeOK, LinkedHasEnded
<1>4. new \in TerminalStatuses /\ a # NewOrder
  BY <1>3, DecidedIsTerminal
<1>5. /\ effects[p] \in [paid : Nat, failed : Nat, emails : Nat]
      /\ EffectsOf(new, effects[p]) \in [paid : Nat, failed : Nat, emails : Nat]
      /\ EffectsOf(new, effects[p]).paid >= effects[p].paid
      /\ EffectsOf(new, effects[p]).failed >= effects[p].failed
      /\ new = "paid" => EffectsOf(new, effects[p]).paid > 0 /\ EffectsOf(new, effects[p]).emails > 0
      /\ new = "failed" => EffectsOf(new, effects[p]).failed > 0
  BY <1>3, EffectsGrow DEF IInv, TypeOK
<1> HIDE DEF new
<1>6. /\ \A q \in Payments : q # p => payments'[q] = payments[q] /\ effects'[q] = effects[q]
      /\ payments'[p] = new /\ effects'[p] = EffectsOf(new, effects[p])
  BY <1>1, <1>3 DEF IInv, TypeOK
<1>7. /\ job' \in [Events -> [pc : {"none", "queued", "fetched", "read", "committed", "done"},
                              api : Order \cup {Null}]]
      /\ job'[e].pc = "committed" /\ \A d \in Events : d # e => job'[d] = job[d]
  BY <1>1, <1>3, StepMoves, JobMoves DEF IInv
<1>8. TypeOK'
  BY <1>1, <1>3, <1>4, <1>5, <1>7 DEF IInv, TypeOK, PaymentStatus, gatewayVars, inboxVars
<1>9. OrderWasRaised' /\ RaisedHasOrder' /\ LinkedHasEnded'
  BY <1>1 DEF IInv, OrderWasRaised, RaisedHasOrder, LinkedHasEnded, WasRaised, Of, gatewayVars
<1>10. OpenIsUnsettled'
  BY <1>1, <1>3, <1>6 DEF IInv, OpenIsUnsettled
<1>11. JobsFit'
  <2> SUFFICES ASSUME NEW d \in Events, job'[d].pc # "none"
               PROVE  JobFits(d)'
    BY DEF JobsFit
  <2>1. CASE d = e
    BY <1>1, <1>2, <1>7, <2>1 DEF JobFits, Of, gatewayVars
  <2>2. CASE d # e
    <3>1. job'[d] = job[d] /\ JobFits(d)
      BY <1>7, <2>2 DEF IInv, JobsFit
    <3> QED BY <1>1, <3>1 DEF JobFits, WasRaised, Of, gatewayVars
  <2> QED BY <2>1, <2>2
<1>12. StatusFromGateway'
  <2> SUFFICES ASSUME NEW q \in Payments, payments'[q] \in TerminalStatuses
               PROVE  \E d \in Events : /\ raised[d] # Null
                                        /\ raised[d].payment = q
                                        /\ DecideNewStatus(raised[d].snapshot) = payments'[q]
                                        /\ raised[d].snapshot # NewOrder
    BY <1>1 DEF StatusFromGateway, gatewayVars
  <2>1. CASE q = p
    BY <1>3, <1>4, <1>6, <2>1 DEF WasRaised, new
  <2>2. CASE q # p
    BY <1>6, <2>2 DEF IInv, StatusFromGateway
  <2> QED BY <2>1, <2>2
<1>13. SettledIffEmitted'
  BY <1>3, <1>4, <1>5, <1>6 DEF IInv, SettledIffEmitted
<1> QED BY <1>8, <1>9, <1>10, <1>11, <1>12, <1>13 DEF IInv

-----------------------------------------------------------------------------
(* The theorems *)

LEMMA InitHolds == Init => IInv
<1> SUFFICES ASSUME Init
             PROVE  IInv
  OBVIOUS
<1>1. TypeOK
  BY DEF Init, TypeOK, PaymentStatus, Charge, InboxStatus, NoJob, NoEffects
<1>2. OrderWasRaised /\ RaisedHasOrder /\ LinkedHasEnded /\ OpenIsUnsettled /\ JobsFit
  BY DEF Init, OrderWasRaised, RaisedHasOrder, LinkedHasEnded, OpenIsUnsettled, JobsFit,
         NoJob, NoEffects
<1>3. StatusFromGateway /\ SettledIffEmitted
  BY DEF Init, StatusFromGateway, SettledIffEmitted, TerminalStatuses, NoEffects
<1> QED BY <1>1, <1>2, <1>3 DEF IInv

LEMMA NextHolds == IInv /\ [Next]_vars => IInv'
<1> SUFFICES ASSUME IInv, [Next]_vars
             PROVE  IInv'
  OBVIOUS
<1>1. ASSUME NEW p \in Payments, ChargeStep(p) \/ ChangeOrder(p)
      PROVE  IInv'
  BY <1>1, ChargeKeeps, ChangeOrderKeeps
<1>2. ASSUME NEW e \in Events, Deliver(e) \/ JobStep(e) \/ RetryJob(e)
      PROVE  IInv'
  BY <1>2, DeliverKeeps, FetchKeeps, JobKeeps, ApplyKeeps DEF JobStep
<1>3. CASE UNCHANGED vars
  <2>1. TypeOK' /\ OrderWasRaised' /\ RaisedHasOrder' /\ LinkedHasEnded' /\ OpenIsUnsettled'
    BY <1>3 DEF IInv, TypeOK, OrderWasRaised, RaisedHasOrder, LinkedHasEnded, OpenIsUnsettled,
                WasRaised, Of, vars
  <2>2. JobsFit'
    BY <1>3 DEF IInv, JobsFit, JobFits, WasRaised, Of, vars
  <2>3. StatusFromGateway' /\ SettledIffEmitted'
    BY <1>3 DEF IInv, StatusFromGateway, SettledIffEmitted, vars
  <2> QED BY <2>1, <2>2, <2>3 DEF IInv
<1> QED BY <1>1, <1>2, <1>3 DEF Next

\* The invariant holds, however deliveries, jobs and changes of orders interleave.
THEOREM Invariance == Spec => []IInv
  BY InitHolds, NextHolds, PTL DEF Spec

\* A payment's status is one its order had at Pagar.me
\* (payment-process-webhook.ts:13-15).
THEOREM StatusComesFromGateway == Spec => []StatusFromGateway
<1>1. IInv => StatusFromGateway
  BY DEF IInv
<1> QED BY <1>1, Invariance, PTL

\* A settled payment has its outbox event and its email, and only a settled one has
\* (payment-process-webhook.ts, FORN-13).
THEOREM SettlementIsEmitted == Spec => []SettledIffEmitted
<1>1. IInv => SettledIffEmitted
  BY DEF IInv
<1> QED BY <1>1, Invariance, PTL
=============================================================================
