------------------------------- MODULE Outbox -------------------------------
(***************************************************************************)
(* The transactional outbox: emitOutboxEvent (src/lib/outbox/emit.ts)      *)
(* writes rows, outbox.drain (src/jobs/tasks/outbox-drain.ts) turns each   *)
(* pending row into a graphile-worker job of the handler that              *)
(* handlerForEventType (src/jobs/outbox/handlers/index.ts) names.          *)
(*                                                                         *)
(* A drain is one transaction over a batch of rows it has locked; what it  *)
(* does to a row is visible when it commits.  Drains overlap: runner.ts    *)
(* queues one every 60 seconds without a job key and runs 5 jobs at once.  *)
(***************************************************************************)
EXTENDS Naturals, FiniteSets

CONSTANTS
  MaxRows,     \* bound on the rows written
  EventTypes,  \* the event types that are emitted
  Drains,      \* drains that may run together
  BatchSize,   \* LIMIT of the scan
  Poison,      \* rows whose add_job the database rejects every time
  MaxFaults,   \* bound on the times a drain fails for another reason
  Null

Rows == 1 .. MaxRows   \* in created_at order

ASSUME OutboxAssumption ==
  /\ MaxRows \in Nat
  /\ BatchSize \in Nat \ {0}
  /\ Poison \subseteq Rows
  /\ MaxFaults \in Nat

RowStatus == {"pending", "processed", "failed"}

VARIABLES
  type,    \* type[r]: event_type, Null before the row is written
  status,  \* status[r]: processing_status
  todo,    \* todo[d]: rows drain d has locked and not yet reached
  done,    \* done[d]: rows drain d has handled, uncommitted
  jobs,    \* jobs[r]: handler jobs queued for row r so far
  handled, \* rows whose handler ran to its end at least once
  faults   \* failures of drains so far

vars == <<type, status, todo, done, jobs, handled, faults>>

TypeOK ==
  /\ type \in [Rows -> EventTypes \cup {Null}]
  /\ status \in [Rows -> RowStatus]
  /\ todo \in [Drains -> SUBSET Rows]
  /\ done \in [Drains -> SUBSET Rows]
  /\ jobs \in [Rows -> Nat]
  /\ handled \subseteq Rows
  /\ faults \in 0 .. MaxFaults

Init ==
  /\ type = [r \in Rows |-> Null]
  /\ status = [r \in Rows |-> "pending"]
  /\ todo = [d \in Drains |-> {}]
  /\ done = [d \in Drains |-> {}]
  /\ jobs = [r \in Rows |-> 0]
  /\ handled = {}
  /\ faults = 0

-----------------------------------------------------------------------------
\* handlerForEventType; null for refund.created and for unknown types.
Handler(t) ==
  CASE t = "payment.paid"   -> "outbox.payment-paid"
    [] t = "payment.failed" -> "outbox.payment-failed"
    [] t = "lot.released"   -> "outbox.lot-released"
    [] t \in {"payment.created", "lot.reserved", "lot.sold", "lot.status_changed"} ->
         "outbox.lot-status-changed"
    [] OTHER -> Null

Smallest(r, S) == r \in S /\ \A q \in S : r <= q

\* emitOutboxEvent, with the business write it belongs to.
Emit ==
  \E r \in Rows, t \in EventTypes :
    /\ type[r] = Null
    /\ \A q \in 1 .. r - 1 : type[q] # Null
    /\ type' = [type EXCEPT ![r] = t]
    /\ UNCHANGED <<status, todo, done, jobs, handled, faults>>

-----------------------------------------------------------------------------
(* outbox.drain *)

Locked(r) == \E d \in Drains : r \in todo[d] \cup done[d]

\* Mutant: FOR UPDATE SKIP LOCKED dropped.
Pickable_NoLock(r) == type[r] # Null /\ status[r] = "pending"
Pickable(r) == type[r] # Null /\ status[r] = "pending" /\ ~Locked(r)

\* The oldest BatchSize rows that no other drain has locked.
StartDrain(d) ==
  LET rows == {r \in Rows : Pickable(r)} IN
  /\ todo[d] = {} /\ done[d] = {}
  /\ rows # {}
  /\ todo' = [todo EXCEPT ![d] = {r \in rows : Cardinality({q \in rows : q < r}) < BatchSize}]
  /\ UNCHANGED <<type, status, done, jobs, handled, faults>>

\* The next row of the loop: no handler, or add_job and the UPDATE succeed.
DrainRow(d) ==
  /\ \E r \in Rows :
       /\ Smallest(r, todo[d])
       /\ Handler(type[r]) # Null => r \notin Poison
       /\ todo' = [todo EXCEPT ![d] = @ \ {r}]
       /\ done' = [done EXCEPT ![d] = @ \cup {r}]
  /\ UNCHANGED <<type, status, jobs, handled, faults>>

\* The transaction is over and keeps nothing, its locks included.
Rollback(d) ==
  /\ todo' = [todo EXCEPT ![d] = {}]
  /\ done' = [done EXCEPT ![d] = {}]
  /\ UNCHANGED <<type, status, jobs, handled>>

\* add_job of the row is rejected.  Postgres has aborted the transaction, so
\* the UPDATE of attempt_count in the catch block is rejected too and leaves
\* the loop: the transaction rolls back with every row of the batch.
EnqueueRejected(d) ==
  /\ \E r \in Poison : Smallest(r, todo[d]) /\ Handler(type[r]) # Null
  /\ Rollback(d)
  /\ UNCHANGED faults

\* A connection blip or the death of the worker, at any point of the drain.
DrainFails(d) ==
  /\ todo[d] \cup done[d] # {}
  /\ faults < MaxFaults
  /\ faults' = faults + 1
  /\ Rollback(d)

\* Mutant: a row without handler is left pending.
StatusAfter_LeavesUnknown(r) == IF Handler(type[r]) = Null THEN "pending" ELSE "processed"

StatusAfter(r) == IF Handler(type[r]) = Null THEN "failed" ELSE "processed"

Dispatched(d) == {r \in done[d] : Handler(type[r]) # Null}

CommitDrain(d) ==
  /\ todo[d] = {} /\ done[d] # {}
  /\ status' = [r \in Rows |-> IF r \in done[d] THEN StatusAfter(r) ELSE status[r]]
  /\ jobs' = [r \in Rows |-> IF r \in Dispatched(d) THEN jobs[r] + 1 ELSE jobs[r]]
  /\ done' = [done EXCEPT ![d] = {}]
  /\ UNCHANGED <<type, todo, handled, faults>>

\* The handler's job commits.  Not removing a job is possible (the worker
\* dies before it can), so handlers run at least once.
RunHandler(r) ==
  /\ jobs[r] > 0
  /\ handled' = handled \cup {r}
  /\ UNCHANGED <<type, status, todo, done, jobs, faults>>

-----------------------------------------------------------------------------
DrainStep(d) ==
  StartDrain(d) \/ DrainRow(d) \/ EnqueueRejected(d) \/ DrainFails(d) \/ CommitDrain(d)

Next ==
  \/ Emit
  \/ \E d \in Drains : DrainStep(d)
  \/ \E r \in Rows : RunHandler(r)

Spec == Init /\ [][Next]_vars

\* runner.ts queues a drain every minute for ever and a drain that runs goes
\* on, unless it fails (finitely often but for poison).  A queued handler job
\* runs within its 25 attempts.
Fairness ==
  /\ \A d \in Drains :
       /\ WF_vars(StartDrain(d))
       /\ WF_vars(DrainRow(d) \/ EnqueueRejected(d))
       /\ WF_vars(CommitDrain(d))
  /\ \A r \in Rows : WF_vars(RunHandler(r))

FairSpec == Spec /\ Fairness

-----------------------------------------------------------------------------
(* Properties *)

\* However drains overlap, fail and are retried, a row is dispatched exactly
\* once: 'processed' and the job commit together and no row is in two batches
\* (outbox-drain.ts:10).
DispatchedOnce ==
  \A r \in Rows : jobs[r] = (IF status[r] = "processed" THEN 1 ELSE 0)

\* Every event reaches its handler, or is set aside if it has none: rows
\* without handler and failing drains never hold up the rows behind them
\* (outbox-drain.ts:66).  Only a row that add_job rejects for ever can.
Poisoned == \E q \in Poison : type[q] # Null /\ Handler(type[q]) # Null

EveryEventHandled ==
  \A r \in Rows :
    type[r] # Null ~> \/ r \in handled
                      \/ Handler(type[r]) = Null /\ status[r] = "failed"
                      \/ Poisoned

=============================================================================
