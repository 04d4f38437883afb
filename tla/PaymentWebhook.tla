--------------------------- MODULE PaymentWebhook ---------------------------
(***************************************************************************)
(* How an order settled at Pagar.me becomes a settled payment: the webhook *)
(* route (src/app/api/webhooks/pagarme/route.ts) writes an inbox row and   *)
(* queues payment.process-webhook, whose job                               *)
(* (src/jobs/tasks/payment-process-webhook.ts) asks Pagar.me for the order *)
(* and moves payments.status.  The charge is created inside a transaction  *)
(* (checkout.ts, payments.ts) that commits after Pagar.me has the order,   *)
(* or after the POST has failed: the middleware of the action may give the *)
(* error back as a value, which withTenant takes for success and COMMITs.  *)
(*                                                                         *)
(* The gateway is external: an order changes by itself, every change       *)
(* raises a webhook event, and an event is delivered any number of times,  *)
(* in any order.  Jobs run concurrently, stop at any step and are retried  *)
(* from the start.                                                         *)
(***************************************************************************)
EXTENDS Naturals, FiniteSets

CONSTANTS
  Payments,   \* charges being created, one order each
  Events,     \* gateway_event_ids; the bound on how often orders change
  Null

ASSUME NullAssumption == Null \notin Payments

\* order.status and charges[0].status, as getOrder answers them.
OrderStatus  == {"pending", "paid", "failed", "canceled"}
ChargeStatus == OrderStatus \cup {"refunded"}
Order        == [order : OrderStatus, charge : ChargeStatus]
NewOrder     == [order |-> "pending", charge |-> "pending"]

TerminalStatuses == {"paid", "failed", "canceled", "refunded"}
PaymentStatus    == TerminalStatuses \cup {"none", "pending"}

\* "posted" and "failed": the POST was answered, or it threw; "ended": COMMIT or
\* ROLLBACK.
Charge           == {"new", "open", "posted", "failed", "ended"}
InboxStatus      == {"absent", "received", "processed"}

\* A raised event: the payment it is about and the order as it was then.
RaisedEvent == [payment : Payments, snapshot : Order]

ASSUME NullIsNothing == Null \notin Order \cup RaisedEvent

VARIABLES
  payments,   \* payments[p]: payments.status, "none" before the charge commits
  charge,     \* charge[p]: how far the transaction of the charge is
  linked,     \* payments with the gateway_order_id of their order
  orders,     \* orders[p]: the order at Pagar.me, Null before the POST
  raised,     \* raised[e]: what event e says, Null while unused
  acked,      \* events Pagar.me got a 200 for
  inbox,      \* inbox[e]: processing_status of the payment_webhooks_inbox row
  job,        \* job[e]: the payment.process-webhook job of inbox row e
  effects     \* effects[p]: outbox rows and emails written for p

paymentVars == <<payments, charge, linked>>
gatewayVars == <<orders, raised>>
inboxVars   == <<acked, inbox>>
vars        == <<payments, charge, linked, orders, raised, acked, inbox, job, effects>>

NoJob      == [pc |-> "none", api |-> Null]
NoEffects  == [paid |-> 0, failed |-> 0, emails |-> 0]

TypeOK ==
  /\ payments \in [Payments -> PaymentStatus]
  /\ charge \in [Payments -> Charge]
  /\ linked \subseteq Payments
  /\ orders \in [Payments -> Order \cup {Null}]
  /\ raised \in [Events -> RaisedEvent \cup {Null}]
  /\ acked \subseteq Events
  /\ inbox \in [Events -> InboxStatus]
  /\ job \in [Events -> [pc : {"none", "queued", "fetched", "read", "committed", "done"},
                         api : Order \cup {Null}]]
  /\ effects \in [Payments -> [paid : Nat, failed : Nat, emails : Nat]]

Init ==
  /\ payments = [p \in Payments |-> "none"]
  /\ charge = [p \in Payments |-> "new"]
  /\ linked = {}
  /\ orders = [p \in Payments |-> Null]
  /\ raised = [e \in Events |-> Null]
  /\ acked = {}
  /\ inbox = [e \in Events |-> "absent"]
  /\ job = [e \in Events |-> NoJob]
  /\ effects = [p \in Payments |-> NoEffects]

-----------------------------------------------------------------------------
(* The gateway *)

Raise(p, o) ==
  \E e \in Events : /\ raised[e] = Null
                    /\ raised' = [raised EXCEPT ![e] = [payment |-> p, snapshot |-> o]]

\* Orders settle, and a paid one can be refunded or canceled afterwards.
OrderChanges(o) ==
  CASE o = NewOrder -> {[order |-> s, charge |-> s] : s \in {"paid", "failed", "canceled"}}
    [] o = [order |-> "paid", charge |-> "paid"] ->
         [order : {"paid", "canceled"}, charge : {"canceled", "refunded"}]
    [] OTHER -> {}

ChangeOrder(p) ==
  /\ orders[p] # Null
  /\ \E o \in OrderChanges(orders[p]) :
       orders' = [orders EXCEPT ![p] = o] /\ Raise(p, o)
  /\ UNCHANGED <<paymentVars, inboxVars, job, effects>>

-----------------------------------------------------------------------------
(* The transaction of a charge *)

\* The checks on the contract, then the rows of payments, pending, and of
\* pagarme_orders, which nobody sees before COMMIT.
OpenCharge(p) ==
  /\ charge[p] = "new"
  /\ charge' = [charge EXCEPT ![p] = "open"]
  /\ UNCHANGED <<payments, linked, gatewayVars, inboxVars, job, effects>>

\* createOrder: Pagar.me has the order, whose answer may be lost.
PostOrder(p) ==
  /\ charge[p] = "open"
  /\ charge' \in {[charge EXCEPT ![p] = s] : s \in {"posted", "failed"}}
  /\ orders' = [orders EXCEPT ![p] = NewOrder]
  /\ Raise(p, NewOrder)
  /\ UNCHANGED <<payments, linked, inboxVars, job, effects>>

\* Pagar.me refuses or is not reached.
PostFails(p) ==
  /\ charge[p] = "open"
  /\ charge' = [charge EXCEPT ![p] = "failed"]
  /\ UNCHANGED <<payments, linked, gatewayVars, inboxVars, job, effects>>

\* COMMIT, after an answer with gateway_order_id written.
CommitCharge(p) ==
  /\ charge[p] \in {"posted", "failed"}
  /\ charge' = [charge EXCEPT ![p] = "ended"]
  /\ payments' = [payments EXCEPT ![p] = "pending"]
  /\ linked' = IF charge[p] = "posted" THEN linked \cup {p} ELSE linked
  /\ UNCHANGED <<gatewayVars, inboxVars, job, effects>>

\* The transaction rolls back; the order at Pagar.me stays.
AbortCharge(p) ==
  /\ charge[p] \in {"open", "posted", "failed"}
  /\ charge' = [charge EXCEPT ![p] = "ended"]
  /\ UNCHANGED <<payments, linked, gatewayVars, inboxVars, job, effects>>

-----------------------------------------------------------------------------
(* POST /api/webhooks/pagarme *)

\* resolveTenantForOrderId: by gateway_order_id.
Known(e) == raised[e] # Null /\ raised[e].payment \in linked

\* Mutant: the inbox row is written, the job is queued in another transaction
\* that is lost.
Accept_NoJob(e) ==
  /\ inbox' = [inbox EXCEPT ![e] = "received"]
  /\ UNCHANGED job

\* INSERT ... ON CONFLICT DO NOTHING and add_job in one transaction.
Accept(e) ==
  /\ inbox' = [inbox EXCEPT ![e] = "received"]
  /\ job' = [job EXCEPT ![e] = [pc |-> "queued", api |-> Null]]

\* 200 in every case: unknown order, duplicate delivery, or accepted.  (On a
\* database error the route answers 400 and nothing changes.)
Deliver(e) ==
  /\ raised[e] # Null
  /\ acked' = acked \cup {e}
  /\ IF Known(e) /\ inbox[e] = "absent"
       THEN Accept(e)
       ELSE UNCHANGED <<inbox, job>>
  /\ UNCHANGED <<paymentVars, gatewayVars, effects>>

-----------------------------------------------------------------------------
(* The job payment.process-webhook *)

Reports(o, status) == status \in {o.order, o.charge}

\* Mutant: whatever is not paid has failed.
DecideNewStatus_ElseFailed(o) == IF Reports(o, "paid") THEN "paid" ELSE "failed"

\* Null is the code's null: nothing to apply.
DecideNewStatus(o) ==
  IF Reports(o, "paid") THEN "paid"
  ELSE IF Reports(o, "failed") THEN "failed"
  ELSE IF Reports(o, "canceled") THEN "canceled"
  ELSE IF o.charge = "refunded" THEN "refunded" ELSE Null

Of(e) == raised[e].payment
Step(e, from, to) == job[e].pc = from /\ job' = [job EXCEPT ![e].pc = to]

\* getOrder, outside any transaction.
Fetch(e) ==
  /\ job[e].pc = "queued"
  /\ job' = [job EXCEPT ![e] = [pc |-> "fetched", api |-> orders[Of(e)]]]
  /\ UNCHANGED <<paymentVars, gatewayVars, inboxVars, effects>>

\* SELECT status, without a lock; audited.  No transition to apply, or a
\* terminal payment, ends the transaction here.
ReadStatus(e) ==
  /\ job[e].pc = "fetched"
  /\ IF DecideNewStatus(job[e].api) = Null \/ payments[Of(e)] \in TerminalStatuses
       THEN Step(e, "fetched", "committed")
       ELSE Step(e, "fetched", "read")
  /\ UNCHANGED <<paymentVars, gatewayVars, inboxVars, effects>>

\* Mutant: payment.failed is not emitted.
EffectsOf_PaidOnly(status, f) ==
  IF status = "paid" THEN [f EXCEPT !.paid = @ + 1, !.emails = @ + 1] ELSE f

\* What COMMIT publishes besides the status: payment.paid and the receipt
\* email, or payment.failed; nothing for canceled and refunded.
EffectsOf(status, f) ==
  CASE status = "paid"   -> [f EXCEPT !.paid = @ + 1, !.emails = @ + 1]
    [] status = "failed" -> [f EXCEPT !.failed = @ + 1]
    [] OTHER             -> f

\* UPDATE payments SET status WHERE id: the status read before is not part of
\* the WHERE.  Outbox row and email job are in the same transaction.
ApplyStatus(e) ==
  LET new == DecideNewStatus(job[e].api) IN
  /\ Step(e, "read", "committed")
  /\ payments' = [payments EXCEPT ![Of(e)] = new]
  /\ effects' = [effects EXCEPT ![Of(e)] = EffectsOf(new, @)]
  /\ UNCHANGED <<charge, linked, gatewayVars, inboxVars>>

\* The inbox row is marked in a statement of its own.
MarkProcessed(e) ==
  /\ Step(e, "committed", "done")
  /\ inbox' = [inbox EXCEPT ![e] = "processed"]
  /\ UNCHANGED <<paymentVars, gatewayVars, acked, effects>>

\* ... whose failure is logged and ignored.
MarkProcessedFails(e) ==
  /\ Step(e, "committed", "done")
  /\ UNCHANGED <<paymentVars, gatewayVars, inboxVars, effects>>

\* getOrder or the transaction fails, or the worker dies: graphile-worker
\* runs the job again from the start.
RetryJob(e) ==
  /\ job[e].pc \in {"fetched", "read", "committed"}
  /\ job' = [job EXCEPT ![e] = [pc |-> "queued", api |-> Null]]
  /\ UNCHANGED <<paymentVars, gatewayVars, inboxVars, effects>>

-----------------------------------------------------------------------------
ChargeStep(p) ==
  OpenCharge(p) \/ PostOrder(p) \/ PostFails(p) \/ CommitCharge(p) \/ AbortCharge(p)

JobStep(e) ==
  Fetch(e) \/ ReadStatus(e) \/ ApplyStatus(e) \/ MarkProcessed(e) \/ MarkProcessedFails(e)

Next ==
  \/ \E p \in Payments : ChargeStep(p) \/ ChangeOrder(p)
  \/ \E e \in Events : Deliver(e) \/ JobStep(e) \/ RetryJob(e)

Spec == Init /\ [][Next]_vars

\* Pagar.me delivers an event until it gets a 200.  A free worker takes a
\* queued job, and a job is not interrupted at the same step for ever (it has
\* 25 attempts, spread over days).
Fairness ==
  \A e \in Events :
    /\ WF_vars(Deliver(e))
    /\ WF_vars(Fetch(e))
    /\ SF_vars(ReadStatus(e))
    /\ SF_vars(ApplyStatus(e))

FairSpec == Spec /\ Fairness

-----------------------------------------------------------------------------
(* Properties *)

\* A payment's status is one the gateway's order really had, whatever mix of
\* stale answers, retries and reordered events produced it: the webhook's
\* content is never trusted (payment-process-webhook.ts:13-15).
StatusFromGateway ==
  \A p \in Payments : payments[p] \in TerminalStatuses =>
    \E e \in Events : /\ raised[e] # Null
                      /\ raised[e].payment = p
                      /\ DecideNewStatus(raised[e].snapshot) = payments[p]
                      /\ raised[e].snapshot # NewOrder

\* A settled payment has the outbox event that carries on from it, and an
\* event belongs to a settled payment: status, event and email commit together
\* (FORN-13).
SettledIffEmitted ==
  \A p \in Payments :
    /\ payments[p] = "paid"   => effects[p].paid > 0 /\ effects[p].emails > 0
    /\ payments[p] = "failed" => effects[p].failed > 0
    /\ effects[p].paid + effects[p].failed > 0 => payments[p] \in TerminalStatuses

\* A change of an order that Pagar.me has still to report, when the payment is
\* already committed, settles the payment: an accepted event is never lost
\* between inbox, job and payment.
ReportedIsSettled ==
  \A e \in Events :
    (Known(e) /\ e \notin acked /\ raised[e].snapshot # NewOrder)
      ~> (raised[e] # Null /\ payments[Of(e)] \in TerminalStatuses)

=============================================================================
