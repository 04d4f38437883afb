------------------------------ MODULE Contracts ------------------------------
(***************************************************************************)
(* The signature of one contract (contracts share no state): emitContract  *)
(* (src/lib/actions/contracts.ts) queues pdf.generate-contract, which      *)
(* queues zapsign.send-contract, which creates a document at ZapSign       *)
(* inside the transaction that records it; ZapSign's webhook               *)
(* (src/app/api/webhooks/zapsign/route.ts) or the simulator                *)
(* (src/lib/actions/zapsign-simulator.ts) then moves contracts.status.     *)
(*                                                                         *)
(* Jobs run at least once: what a job committed may be done again if the   *)
(* worker dies before it removes the job.  ZapSign is external: documents  *)
(* change by themselves, and an event is delivered until it gets a 200,    *)
(* which may be lost.                                                      *)
(***************************************************************************)
EXTENDS Naturals, FiniteSets

CONSTANTS
  Docs,       \* document tokens; the bound on POSTs to ZapSign
  Simulated,  \* the tokens that createSimulatedDocument draws (SIM_...)
  Sends,      \* zapsign.send-contract jobs; the bound on how many are queued
  Events,     \* webhook events; the bound on how many are raised
  Null

ASSUME ContractsAssumption == Simulated \subseteq Docs /\ Null \notin Docs

Terminal       == {"signed", "cancelled", "expired"}
ContractStatus == Terminal \cup {"none", "draft", "awaiting_org", "awaiting_fornecedor"}

\* The contracts row; pdf and signedPdf say whether their MinIO key is set.
Contract == [status : ContractStatus, pdf : BOOLEAN, signedPdf : BOOLEAN,
             zapsignDocId : Docs \cup {Null}]

\* A document at ZapSign; "orgSigned" is pending, signed by order_group 1.
DocStatus == {"none", "pending", "orgSigned", "signed", "refused", "expired"}

VARIABLES
  contract,  \* the contracts row
  known,     \* tokens with a committed zapsign_documents row
  pdfJob,    \* the job pdf.generate-contract
  send,      \* send[s]: a zapsign.send-contract job and the token its POST drew
  docs,      \* docs[d]: document d as ZapSign has it
  raised,    \* raised[e]: the token event e is about, Null while unused
  acked,     \* events ZapSign got a 200 for
  webhook,   \* webhook[e]: a delivery of e in progress, with the API's answer
  sim        \* token a simulateContractSigned in progress has read or Null

zapsign == <<docs, raised>>
route   == <<acked, webhook>>
vars    == <<contract, known, pdfJob, send, docs, raised, acked, webhook, sim>>

IdleWebhook == [pc |-> "idle", api |-> "none"]

TypeOK ==
  /\ contract \in Contract
  /\ known \subseteq Docs
  /\ pdfJob \in {"none", "queued", "done"}
  /\ send \in [Sends -> [pc : {"none", "queued", "posted", "done"}, doc : Docs \cup {Null}]]
  /\ docs \in [Docs -> DocStatus]
  /\ raised \in [Events -> Docs \cup {Null}]
  /\ acked \subseteq Events
  /\ webhook \in [Events -> [pc : {"idle", "fetched", "inTx"}, api : DocStatus]]
  /\ sim \in Docs \cup {Null}

Init ==
  /\ contract = [status |-> "none", pdf |-> FALSE, signedPdf |-> FALSE, zapsignDocId |-> Null]
  /\ known = {}
  /\ pdfJob = "none"
  /\ send = [s \in Sends |-> [pc |-> "none", doc |-> Null]]
  /\ docs = [d \in Docs |-> "none"]
  /\ raised = [e \in Events |-> Null]
  /\ acked = {}
  /\ webhook = [e \in Events |-> IdleWebhook]
  /\ sim = Null

-----------------------------------------------------------------------------
(* From the organizer's click to ZapSign *)

\* emitContractInTenant: the draft and its job in one transaction.
Emit ==
  /\ contract.status = "none"
  /\ contract' = [contract EXCEPT !.status = "draft"]
  /\ pdfJob' = "queued"
  /\ UNCHANGED <<known, send, zapsign, route, sim>>

\* pdf.generate-contract: the key of the PDF and the next job in one
\* transaction.  A job that is not removed runs again and queues another send.
RunPdf ==
  /\ pdfJob = "queued"
  /\ contract' = [contract EXCEPT !.pdf = TRUE]
  /\ \E s \in Sends : send[s].pc = "none" /\ send' = [send EXCEPT ![s].pc = "queued"]
  /\ pdfJob' \in {"queued", "done"}
  /\ UNCHANGED <<known, zapsign, route, sim>>

\* zapsign.send-contract until createDocument (or the simulator) has answered.
Post(s) ==
  /\ send[s].pc = "queued"
  /\ contract.pdf
  /\ \E d \in Docs : /\ docs[d] = "none"
                     /\ docs' = [docs EXCEPT ![d] = "pending"]
                     /\ send' = [send EXCEPT ![s] = [pc |-> "posted", doc |-> d]]
  /\ UNCHANGED <<contract, known, pdfJob, raised, route, sim>>

\* ... and its COMMIT: INSERT zapsign_documents, UPDATE contracts whatever the
\* status is by now.
CommitSend(s) ==
  /\ send[s].pc = "posted"
  /\ known' = known \cup {send[s].doc}
  /\ contract' = [contract EXCEPT !.status = "awaiting_org", !.zapsignDocId = send[s].doc]
  /\ \E pc \in {"queued", "done"} : send' = [send EXCEPT ![s] = [pc |-> pc, doc |-> Null]]
  /\ UNCHANGED <<pdfJob, zapsign, route, sim>>

\* ... or its ROLLBACK: the document stays at ZapSign and the job is retried.
AbortSend(s) ==
  /\ send[s].pc = "posted"
  /\ send' = [send EXCEPT ![s] = [pc |-> "queued", doc |-> Null]]
  /\ UNCHANGED <<contract, known, pdfJob, zapsign, route, sim>>

-----------------------------------------------------------------------------
(* ZapSign *)

\* Signers sign in order, any may refuse, the deadline may pass, and looking
\* at a document raises an event too.
DocChanges(status) ==
  CASE status = "pending"   -> {"pending", "orgSigned", "refused", "expired"}
    [] status = "orgSigned" -> {"signed", "refused", "expired"}
    [] OTHER                -> {}

ChangeDoc(d) ==
  /\ d \notin Simulated
  /\ \E status \in DocChanges(docs[d]) : docs' = [docs EXCEPT ![d] = status]
  /\ \E e \in Events : raised[e] = Null /\ raised' = [raised EXCEPT ![e] = d]
  /\ UNCHANGED <<contract, known, pdfJob, send, route, sim>>

-----------------------------------------------------------------------------
(* POST /api/webhooks/zapsign *)

\* Mutant: the first signature is taken for the last.
DecideNextStatus_FirstSigner(api) ==
  CASE api \in {"orgSigned", "signed"} -> "signed"
    [] api = "refused"                 -> "cancelled"
    [] api = "expired"                 -> "expired"
    [] OTHER                           -> Null

\* decideNextStatus; Null is the code's null.
DecideNextStatus(api) ==
  CASE api = "signed"    -> "signed"
    [] api = "refused"   -> "cancelled"
    [] api = "expired"   -> "expired"
    [] api = "orgSigned" -> "awaiting_fornecedor"
    [] OTHER             -> Null

\* Mutant: the 200 is sent before the transaction.
FetchDoc_AckFirst(e) ==
  /\ webhook' = [webhook EXCEPT ![e] = [pc |-> "fetched", api |-> docs[raised[e]]]]
  /\ acked' = acked \cup {e}

\* getDocument, outside any transaction.  (If it fails the route answers 400
\* and nothing changes.)
FetchDoc(e) ==
  /\ webhook' = [webhook EXCEPT ![e] = [pc |-> "fetched", api |-> docs[raised[e]]]]
  /\ UNCHANGED acked

\* The 200 may be lost, and the event delivered again.
Reply200(e) == acked' \in {acked, acked \cup {e}}

Deliver(e) ==
  /\ raised[e] # Null /\ e \notin acked
  /\ webhook[e].pc = "idle"
  /\ IF raised[e] \in known
       THEN FetchDoc(e)
       ELSE Reply200(e) /\ UNCHANGED webhook
  /\ UNCHANGED <<contract, known, pdfJob, send, zapsign, sim>>

\* Mutant: the transaction does not begin with an UPDATE of the document's row.
RowLocked_Never(e) == e \in Events /\ FALSE

\* The transaction's first statement updates the zapsign_documents row, whose
\* lock it holds until it ends.
RowLocked(e) == \E f \in Events \ {e} : webhook[f].pc = "inTx" /\ raised[f] = raised[e]

NothingToDo(e) ==
  DecideNextStatus(webhook[e].api) = Null \/ contract.status \in Terminal

\* BEGIN, the lock, SELECT status.
BeginTx(e) ==
  /\ webhook[e].pc = "fetched"
  /\ ~RowLocked(e)
  /\ IF NothingToDo(e)
       THEN webhook' = [webhook EXCEPT ![e] = IdleWebhook] /\ Reply200(e)
       ELSE webhook' = [webhook EXCEPT ![e].pc = "inTx"] /\ UNCHANGED acked
  /\ UNCHANGED <<contract, known, pdfJob, send, zapsign, sim>>

\* The signed PDF is stored, the status written without looking at it again,
\* the email queued; COMMIT.
CommitTx(e) ==
  LET new == DecideNextStatus(webhook[e].api) IN
  /\ webhook[e].pc = "inTx"
  /\ contract' = [contract EXCEPT !.status = new, !.signedPdf = @ \/ new = "signed"]
  /\ webhook' = [webhook EXCEPT ![e] = IdleWebhook]
  /\ Reply200(e)
  /\ UNCHANGED <<known, pdfJob, send, zapsign, sim>>

\* The download of the signed PDF or the transaction fails (400), or the
\* server dies: ZapSign delivers again.
FailTx(e) ==
  /\ webhook[e].pc # "idle"
  /\ webhook' = [webhook EXCEPT ![e] = IdleWebhook]
  /\ UNCHANGED <<contract, known, pdfJob, send, zapsign, acked, sim>>

-----------------------------------------------------------------------------
(* simulateContractSigned *)

\* The contract is read, without a lock ...
SimulateRead ==
  /\ sim = Null
  /\ contract.zapsignDocId \in Simulated
  /\ contract.status \in {"draft", "awaiting_org", "awaiting_fornecedor"}
  /\ sim' = contract.zapsignDocId
  /\ UNCHANGED <<contract, known, pdfJob, send, zapsign, route>>

\* Mutant: WHERE id only.
StillItsDoc_Any == sim # Null

\* ... and updated WHERE zapsign_doc_id is the one read; the status is not
\* looked at again.
StillItsDoc == contract.zapsignDocId = sim

SimulateCommit ==
  /\ sim # Null
  /\ contract' = IF StillItsDoc THEN [contract EXCEPT !.status = "signed"] ELSE contract
  /\ sim' = Null
  /\ UNCHANGED <<known, pdfJob, send, zapsign, route>>

SimulateAbort ==
  /\ sim # Null
  /\ sim' = Null
  /\ UNCHANGED <<contract, known, pdfJob, send, zapsign, route>>

-----------------------------------------------------------------------------
JobStep == Emit \/ RunPdf \/ \E s \in Sends : Post(s) \/ CommitSend(s) \/ AbortSend(s)

WebhookStep(e) == Deliver(e) \/ BeginTx(e) \/ CommitTx(e) \/ FailTx(e)

SimulatorStep == SimulateRead \/ SimulateCommit \/ SimulateAbort

Next ==
  \/ JobStep
  \/ \E d \in Docs : ChangeDoc(d)
  \/ \E e \in Events : WebhookStep(e)
  \/ SimulatorStep

Spec == Init /\ [][Next]_vars

\* ZapSign delivers until it gets a 200, and a delivery is not interrupted at
\* the same step for ever; waiting for a row lock ends when its owner does.
Fairness ==
  \A e \in Events :
    /\ WF_vars(Deliver(e))
    /\ SF_vars(BeginTx(e))
    /\ SF_vars(CommitTx(e))

FairSpec == Spec /\ Fairness

-----------------------------------------------------------------------------
(* Properties *)

\* What the contract says has happened to one of its documents, whatever stale
\* answers concurrent deliveries hold: the webhook's own content is never
\* trusted (route.ts:13-16).
Backs(d, status) ==
  CASE status = "signed"              -> docs[d] = "signed" \/ d \in Simulated
    [] status = "cancelled"           -> docs[d] = "refused"
    [] status = "expired"             -> docs[d] = "expired"
    [] status = "awaiting_fornecedor" -> docs[d] \notin {"none", "pending"}
    [] status = "awaiting_org"        -> docs[d] # "none"

StatusIsBacked ==
  contract.status \notin {"none", "draft"} => \E d \in known : Backs(d, contract.status)

\* A contract signed on a real document has its signed PDF, even when the
\* simulator raced a new send (zapsign-simulator.ts:91-95).
SignedHasPdf ==
  (contract.status = "signed" /\ contract.zapsignDocId \notin Simulated) => contract.signedPdf

\* While a contract has one document, no late or concurrent delivery moves it
\* out of a terminal state.  The status is read without a lock; what orders two
\* deliveries is the row lock of the payload_callback UPDATE (route.ts:215-227).
TerminalWithOneDoc ==
  [][contract.status \in Terminal /\ Cardinality(known') <= 1
       => contract'.status = contract.status]_vars

\* A settled document with an event still to be delivered settles its
\* contract: no failure between ZapSign and COMMIT loses the outcome.
SettledDocSettlesContract ==
  \A e \in Events :
    (/\ raised[e] \in known /\ e \notin acked /\ webhook[e].pc = "idle"
     /\ docs[raised[e]] \in {"signed", "refused", "expired"})
      ~> contract.status \in Terminal

=============================================================================
