--------------------------- MODULE ContractsProofs ---------------------------
(***************************************************************************)
(* What TLAPS proves of Contracts, for any number of documents, send jobs   *)
(* and webhook events.                                                      *)
(*                                                                         *)
(* A delivery acts on an answer that may be old; it is right because a      *)
(* settled document stays as it is (Stands).  It writes a status it read    *)
(* earlier and without a lock; with one document it is alone in doing so,   *)
(* since deliveries of a document take its row in turn (RowsAreLocked) and  *)
(* the simulator has a document that no event is about.                     *)
(***************************************************************************)
EXTENDS Contracts, FiniteSetTheorems, TLAPS

InTx(e) == webhook[e].pc = "inTx"

\* An answer that was true of d when it was given.
Stands(d, api) ==
  /\ api = "orgSigned" => docs[d] \notin {"none", "pending"}
  /\ api \in {"signed", "refused", "expired"} => docs[d] = api

DeliveryFits(e) ==
  /\ raised[e] \in known
  /\ Stands(raised[e], webhook[e].api)
  /\ InTx(e) => DecideNextStatus(webhook[e].api) # Null

DeliveriesFit == \A e \in Events : webhook[e].pc # "idle" => DeliveryFits(e)

EventsAreReal == \A e \in Events : raised[e] \notin Simulated

RowsAreLocked == \A e, f \in Events : InTx(e) /\ InTx(f) /\ e # f => raised[e] # raised[f]

KnownExist == IsFiniteSet(known) /\ \A d \in known : docs[d] # "none"

\* A document that was POSTed is nobody else's until COMMIT.
PostedFits(s) == send[s].doc \in Docs \ known /\ docs[send[s].doc] # "none"

Posted(s) == send[s].pc = "posted"

PostedAreNew ==
  /\ \A s \in Sends : Posted(s) => PostedFits(s)
  /\ \A s, q \in Sends : Posted(s) /\ Posted(q) /\ s # q => send[s].doc # send[q].doc

HasDoc ==
  /\ contract.zapsignDocId \in known \cup {Null}
  /\ contract.status \notin {"none", "draft"} \/ known # {} => contract.zapsignDocId \in known

SimFits == sim # Null => sim \in known /\ sim \in Simulated

OneDoc == \A c, d \in known : c = d

\* Whoever is about to write the status of a contract with one document.
AtWork == sim # Null \/ \E e \in Events : InTx(e)

UnsettledAtWork == OneDoc /\ AtWork => contract.status \notin Terminal

Deliveries == DeliveriesFit /\ EventsAreReal /\ RowsAreLocked
Documents  == KnownExist /\ PostedAreNew /\ HasDoc /\ SimFits

IInv == TypeOK /\ Deliveries /\ Documents /\ UnsettledAtWork /\ StatusIsBacked /\ SignedHasPdf

-----------------------------------------------------------------------------
\* Two documents are more than one.
LEMMA TwoAreTwo ==
  ASSUME NEW S, IsFiniteSet(S), Cardinality(S) <= 1, NEW c \in S, NEW d \in S
  PROVE  c = d
<1> SUFFICES ASSUME c # d PROVE FALSE
  OBVIOUS
<1>1. IsFiniteSet({c}) /\ Cardinality({c}) = 1
  BY FS_Singleton
<1>2. IsFiniteSet({c} \cup {d}) /\ Cardinality({c} \cup {d}) = 2
  <2>1. d \notin {c}
    OBVIOUS
  <2>2. /\ IsFiniteSet({c} \cup {d})
        /\ Cardinality({c} \cup {d}) = IF d \in {c} THEN Cardinality({c}) ELSE Cardinality({c}) + 1
    BY <1>1, FS_AddElement
  <2> QED BY <1>1, <2>1, <2>2
<1>3. Cardinality({c} \cup {d}) <= Cardinality(S)
  BY <1>2, FS_Subset
<1>4. Cardinality(S) \in Nat
  BY FS_CardinalityType
<1> QED BY <1>2, <1>3, <1>4

\* The status that an answer leads to.
LEMMA DecidedStatus ==
  ASSUME NEW api, DecideNextStatus(api) # Null
  PROVE  /\ DecideNextStatus(api) \in ContractStatus
         /\ DecideNextStatus(api) \notin {"none", "draft", "awaiting_org"}
         /\ DecideNextStatus(api) = "signed" => api = "signed"
         /\ DecideNextStatus(api) = "cancelled" => api = "refused"
         /\ DecideNextStatus(api) = "expired" => api = "expired"
         /\ DecideNextStatus(api) = "awaiting_fornecedor" => api = "orgSigned"
  BY DEF DecideNextStatus, ContractStatus, Terminal

\* A contract's fields are what its type says.
LEMMA ContractFields ==
  ASSUME TypeOK
  PROVE  /\ contract.status \in ContractStatus /\ contract.zapsignDocId \in Docs \cup {Null}
         /\ contract.pdf \in BOOLEAN /\ contract.signedPdf \in BOOLEAN
  BY DEF TypeOK, Contract

\* The initial state has the invariant.
LEMMA InitInv == Init => IInv
<1> SUFFICES ASSUME Init PROVE IInv
  OBVIOUS
<1>1. TypeOK
  BY DEF Init, TypeOK, Contract, ContractStatus, Terminal, IdleWebhook, DocStatus
<1>2. Deliveries
  BY ContractsAssumption DEF Init, Deliveries, DeliveriesFit, EventsAreReal, RowsAreLocked, InTx,
     IdleWebhook
<1>3. KnownExist
  BY FS_EmptySet DEF Init, KnownExist
<1>4. PostedAreNew /\ HasDoc /\ SimFits
  BY DEF Init, PostedAreNew, Posted, HasDoc, SimFits
<1>5. UnsettledAtWork /\ StatusIsBacked /\ SignedHasPdf
  BY DEF Init, UnsettledAtWork, Terminal, StatusIsBacked, SignedHasPdf
<1> QED BY <1>1, <1>2, <1>3, <1>4, <1>5 DEF IInv, Documents

-----------------------------------------------------------------------------
(* Jobs *)

\* emitContractInTenant makes a draft.
LEMMA EmitStep ==
  ASSUME IInv, Emit
  PROVE  IInv'
<1>1. /\ contract' \in Contract /\ contract'.status = "draft"
      /\ contract'.zapsignDocId = contract.zapsignDocId
  BY DEF Emit, IInv, TypeOK, Contract, ContractStatus
<1>2. TypeOK'
  BY <1>1 DEF Emit, IInv, TypeOK, zapsign, route
<1>3. Deliveries'
  BY DEF Emit, zapsign, route, IInv, Deliveries, DeliveriesFit, DeliveryFits, Stands,
     EventsAreReal, RowsAreLocked, InTx
<1>4. Documents'
  BY <1>1 DEF Emit, zapsign, route, IInv, Documents, KnownExist, PostedAreNew, PostedFits, Posted,
     HasDoc, SimFits
<1>5. UnsettledAtWork' /\ StatusIsBacked' /\ SignedHasPdf'
  BY <1>1 DEF UnsettledAtWork, StatusIsBacked, SignedHasPdf, Terminal
<1> QED BY <1>2, <1>3, <1>4, <1>5 DEF IInv

\* pdf.generate-contract sets the key of the PDF and queues a send job.
LEMMA PdfStep ==
  ASSUME IInv, RunPdf
  PROVE  IInv'
<1>1. /\ contract' \in Contract /\ contract'.status = contract.status
      /\ contract'.zapsignDocId = contract.zapsignDocId
      /\ contract'.signedPdf = contract.signedPdf
  BY DEF RunPdf, IInv, TypeOK, Contract
<1>2. PICK s \in Sends : send[s].pc = "none" /\ send' = [send EXCEPT ![s].pc = "queued"]
  BY DEF RunPdf
<1>3. /\ send' \in [Sends -> [pc : {"none", "queued", "posted", "done"}, doc : Docs \cup {Null}]]
      /\ \A q \in Sends : q # s => send'[q] = send[q]
      /\ send'[s].pc = "queued"
  BY <1>2 DEF IInv, TypeOK
<1>4. TypeOK'
  BY <1>1, <1>3 DEF RunPdf, IInv, TypeOK, zapsign, route
<1>5. Deliveries'
  BY DEF RunPdf, zapsign, route, IInv, Deliveries, DeliveriesFit, DeliveryFits, Stands,
     EventsAreReal, RowsAreLocked, InTx
<1>6. PostedAreNew'
  BY <1>3 DEF RunPdf, zapsign, IInv, Documents, PostedAreNew, PostedFits, Posted
<1>7. (KnownExist /\ HasDoc /\ SimFits)'
  BY <1>1 DEF RunPdf, zapsign, IInv, Documents, KnownExist, HasDoc, SimFits
<1>8. UnsettledAtWork' /\ StatusIsBacked' /\ SignedHasPdf'
  BY <1>1 DEF RunPdf, zapsign, route, IInv, UnsettledAtWork, OneDoc, AtWork, InTx,
     StatusIsBacked, Backs, SignedHasPdf
<1> QED BY <1>4, <1>5, <1>6, <1>7, <1>8 DEF IInv, Documents

\* zapsign.send-contract creates a document.
LEMMA PostStep ==
  ASSUME IInv, NEW s \in Sends, Post(s)
  PROVE  IInv'
<1>1. PICK d \in Docs : /\ docs[d] = "none" /\ docs' = [docs EXCEPT ![d] = "pending"]
                        /\ send' = [send EXCEPT ![s] = [pc |-> "posted", doc |-> d]]
  BY DEF Post
<1>2. /\ docs' \in [Docs -> DocStatus] /\ docs'[d] = "pending"
      /\ \A c \in Docs : c # d => docs'[c] = docs[c]
  BY <1>1 DEF IInv, TypeOK, DocStatus
<1>3. /\ send' \in [Sends -> [pc : {"none", "queued", "posted", "done"}, doc : Docs \cup {Null}]]
      /\ send'[s] = [pc |-> "posted", doc |-> d]
      /\ \A q \in Sends : q # s => send'[q] = send[q]
  BY <1>1 DEF IInv, TypeOK
<1>4. TypeOK'
  BY <1>2, <1>3 DEF Post, IInv, TypeOK, route
<1>5. d \notin known
  BY <1>1 DEF IInv, Documents, KnownExist
<1>6. known \subseteq Docs /\ \A c \in known : docs'[c] = docs[c]
  BY <1>2, <1>5 DEF IInv, TypeOK
<1>7. Deliveries'
  BY <1>6 DEF Post, route, IInv, Deliveries, DeliveriesFit, DeliveryFits, Stands,
     EventsAreReal, RowsAreLocked, InTx
<1>8. PostedAreNew'
  <2>1. \A q \in Sends : q # s /\ Posted(q) => send[q].doc # d
    BY <1>1 DEF IInv, Documents, PostedAreNew, PostedFits
  <2>2. \A q \in Sends : q # s /\ Posted(q) => send[q].doc \in Docs \ known /\ docs'[send[q].doc] # "none"
    BY <1>2, <2>1 DEF IInv, Documents, PostedAreNew, PostedFits
  <2>3. PostedFits(s)'
    BY <1>2, <1>3, <1>5 DEF Post, PostedFits
  <2> QED BY <1>3, <2>1, <2>2, <2>3 DEF Post, IInv, Documents, PostedAreNew, PostedFits, Posted
<1>9. (KnownExist /\ HasDoc /\ SimFits)'
  BY <1>6 DEF Post, IInv, Documents, KnownExist, HasDoc, SimFits
<1>10. UnsettledAtWork' /\ SignedHasPdf'
  BY DEF Post, route, IInv, UnsettledAtWork, OneDoc, AtWork, InTx, SignedHasPdf
<1>11. StatusIsBacked'
  BY <1>6 DEF Post, IInv, StatusIsBacked, Backs
<1> QED BY <1>4, <1>7, <1>8, <1>9, <1>10, <1>11 DEF IInv, Documents

\* It records the document, whatever the status of the contract is.
LEMMA CommitSendStep ==
  ASSUME IInv, NEW s \in Sends, CommitSend(s)
  PROVE  IInv' /\ \E c, d \in known' : contract.status \in Terminal => c # d
<1> DEFINE d == send[s].doc
<1>1. PICK pc \in {"queued", "done"} : send' = [send EXCEPT ![s] = [pc |-> pc, doc |-> Null]]
  BY DEF CommitSend
<1>2. d \in Docs /\ d \notin known /\ docs[d] # "none"
  BY DEF CommitSend, IInv, Documents, PostedAreNew, PostedFits, Posted
<1>3. /\ known' = known \cup {d} /\ known' \subseteq Docs
      /\ UNCHANGED <<docs, raised, acked, webhook, sim, pdfJob>>
  BY <1>2 DEF CommitSend, IInv, TypeOK, zapsign, route
<1> DEFINE g == [contract EXCEPT !.status = "awaiting_org"]
<1>4. /\ contract' \in Contract /\ contract'.status = "awaiting_org"
      /\ contract'.zapsignDocId = d
  <2>1. contract' = [g EXCEPT !.zapsignDocId = d]
    BY DEF CommitSend
  <2>2. g \in Contract /\ g.status = "awaiting_org"
    BY DEF IInv, TypeOK, Contract, ContractStatus
  <2> HIDE DEF g
  <2> QED BY <1>2, <2>1, <2>2 DEF Contract
<1>5. /\ send' \in [Sends -> [pc : {"none", "queued", "posted", "done"}, doc : Docs \cup {Null}]]
      /\ send'[s].pc # "posted"
      /\ \A q \in Sends : q # s => send'[q] = send[q]
  BY <1>1 DEF IInv, TypeOK
<1>6. TypeOK'
  BY <1>3, <1>4, <1>5 DEF IInv, TypeOK
<1>7. Deliveries'
  BY <1>3 DEF IInv, Deliveries, DeliveriesFit, DeliveryFits, Stands, EventsAreReal,
     RowsAreLocked, InTx
<1>8. PostedAreNew'
  <2>1. \A q \in Sends : q # s /\ Posted(q) => send[q].doc \in Docs \ known' /\ docs[send[q].doc] # "none"
    BY <1>3 DEF CommitSend, IInv, Documents, PostedAreNew, PostedFits, Posted
  <2> QED BY <1>3, <1>5, <2>1 DEF IInv, Documents, PostedAreNew, PostedFits, Posted
<1>9. KnownExist'
  BY <1>2, <1>3, FS_AddElement DEF IInv, Documents, KnownExist
<1>10. (HasDoc /\ SimFits)'
  BY <1>3, <1>4 DEF IInv, Documents, HasDoc, SimFits
<1>11. UnsettledAtWork' /\ SignedHasPdf'
  BY <1>4 DEF UnsettledAtWork, Terminal, SignedHasPdf
<1>12. StatusIsBacked'
  BY <1>2, <1>3, <1>4 DEF StatusIsBacked, Backs
<1>13. \E b, c \in known' : contract.status \in Terminal => b # c
  <2>1. CASE contract.status \in Terminal
    <3>1. contract.zapsignDocId \in known
      BY <2>1 DEF IInv, Documents, HasDoc, Terminal
    <3> QED BY <1>2, <1>3, <3>1
  <2>2. CASE contract.status \notin Terminal
    BY <1>3, <2>2
  <2> QED BY <2>1, <2>2
<1> QED BY <1>6, <1>7, <1>8, <1>9, <1>10, <1>11, <1>12, <1>13 DEF IInv, Documents

\* Or it rolls back.
LEMMA AbortSendStep ==
  ASSUME IInv, NEW s \in Sends, AbortSend(s)
  PROVE  IInv'
<1>1. /\ send' \in [Sends -> [pc : {"none", "queued", "posted", "done"}, doc : Docs \cup {Null}]]
      /\ send'[s].pc # "posted"
      /\ \A q \in Sends : q # s => send'[q] = send[q]
  BY DEF AbortSend, IInv, TypeOK
<1>2. TypeOK'
  BY <1>1 DEF AbortSend, IInv, TypeOK, zapsign, route
<1>3. Deliveries'
  BY DEF AbortSend, zapsign, route, IInv, Deliveries, DeliveriesFit, DeliveryFits, Stands,
     EventsAreReal, RowsAreLocked, InTx
<1>4. PostedAreNew'
  BY <1>1 DEF AbortSend, zapsign, IInv, Documents, PostedAreNew, PostedFits, Posted
<1>5. (KnownExist /\ HasDoc /\ SimFits)'
  BY DEF AbortSend, zapsign, IInv, Documents, KnownExist, HasDoc, SimFits
<1>6. UnsettledAtWork' /\ StatusIsBacked' /\ SignedHasPdf'
  BY DEF AbortSend, zapsign, route, IInv, UnsettledAtWork, OneDoc, AtWork, InTx,
     StatusIsBacked, Backs, SignedHasPdf
<1> QED BY <1>2, <1>3, <1>4, <1>5, <1>6 DEF IInv, Documents

-----------------------------------------------------------------------------
(* ZapSign *)

\* A document that is settled stays as it is, and one that was signed by the
\* organizer does not become pending again.
LEMMA DocsGrow ==
  ASSUME TypeOK, NEW d \in Docs, NEW status \in DocChanges(docs[d]),
         docs' = [docs EXCEPT ![d] = status]
  PROVE  /\ docs' \in [Docs -> DocStatus]
         /\ \A c \in Docs : docs[c] # "none" => docs'[c] # "none"
         /\ \A c \in Docs : docs[c] \notin {"none", "pending"} => docs'[c] \notin {"none", "pending"}
         /\ \A c \in Docs : docs[c] \in {"signed", "refused", "expired"} => docs'[c] = docs[c]
  BY DEF TypeOK, DocChanges, DocStatus

LEMMA ChangeDocStep ==
  ASSUME IInv, NEW d \in Docs, ChangeDoc(d)
  PROVE  IInv'
<1>1. PICK status \in DocChanges(docs[d]) : docs' = [docs EXCEPT ![d] = status]
  BY DEF ChangeDoc
<1>2. PICK e \in Events : raised[e] = Null /\ raised' = [raised EXCEPT ![e] = d]
  BY DEF ChangeDoc
<1>3. /\ docs' \in [Docs -> DocStatus]
      /\ \A c \in Docs : docs[c] # "none" => docs'[c] # "none"
      /\ \A c \in Docs : docs[c] \notin {"none", "pending"} => docs'[c] \notin {"none", "pending"}
      /\ \A c \in Docs : docs[c] \in {"signed", "refused", "expired"} => docs'[c] = docs[c]
  BY <1>1, DocsGrow DEF IInv
<1>4. /\ raised' \in [Events -> Docs \cup {Null}] /\ raised'[e] = d
      /\ \A f \in Events : f # e => raised'[f] = raised[f]
  BY <1>2 DEF IInv, TypeOK
<1>5. d \notin Simulated /\ UNCHANGED <<contract, known, pdfJob, send, acked, webhook, sim>>
  BY DEF ChangeDoc, route
<1>6. TypeOK'
  BY <1>3, <1>4, <1>5 DEF IInv, TypeOK
<1>7. known \subseteq Docs /\ Null \notin known
  BY ContractsAssumption DEF IInv, TypeOK
<1>8. webhook[e].pc = "idle"
  BY <1>2, <1>7 DEF IInv, Deliveries, DeliveriesFit, DeliveryFits
<1>9. DeliveriesFit'
  <2> SUFFICES ASSUME NEW f \in Events, webhook[f].pc # "idle"
               PROVE  DeliveryFits(f)'
    BY <1>5 DEF DeliveriesFit
  <2>1. DeliveryFits(f) /\ raised'[f] = raised[f] /\ raised[f] \in Docs
    BY <1>4, <1>7, <1>8 DEF IInv, Deliveries, DeliveriesFit, DeliveryFits
  <2>2. Stands(raised[f], webhook[f].api) => Stands(raised[f], webhook[f].api)'
    BY <1>3, <1>5, <2>1 DEF Stands
  <2> QED BY <1>5, <2>1, <2>2 DEF DeliveryFits, InTx, Stands
<1>10. (EventsAreReal /\ RowsAreLocked)'
  BY <1>4, <1>5, <1>8 DEF IInv, Deliveries, EventsAreReal, RowsAreLocked, InTx
<1>11. PostedAreNew'
  BY <1>3, <1>5 DEF IInv, Documents, PostedAreNew, PostedFits, Posted
<1>12. (KnownExist /\ HasDoc /\ SimFits)'
  BY <1>3, <1>5, <1>7 DEF IInv, Documents, KnownExist, HasDoc, SimFits
<1>13. UnsettledAtWork' /\ SignedHasPdf'
  BY <1>5 DEF IInv, UnsettledAtWork, OneDoc, AtWork, InTx, SignedHasPdf
<1>14. StatusIsBacked'
  <2> SUFFICES ASSUME contract.status \notin {"none", "draft"}
               PROVE  \E c \in known : Backs(c, contract.status)'
    BY <1>5 DEF StatusIsBacked, Backs
  <2>1. PICK c \in known : Backs(c, contract.status)
    BY DEF IInv, StatusIsBacked
  <2>2. contract.status \in Terminal \cup {"awaiting_org", "awaiting_fornecedor"}
    BY ContractFields DEF IInv, ContractStatus
  <2>3. Backs(c, contract.status)'
    BY <1>3, <1>5, <1>7, <2>1, <2>2 DEF Backs, Terminal
  <2> QED BY <2>3
<1> QED BY <1>6, <1>9, <1>10, <1>11, <1>12, <1>13, <1>14 DEF IInv, Deliveries, Documents

-----------------------------------------------------------------------------
(* The route *)

\* What an event of the route leaves alone, whatever it does to its delivery.
LEMMA WebhookKeeps ==
  ASSUME IInv, UNCHANGED <<contract, known, pdfJob, send, docs, raised, sim>>
  PROVE  (EventsAreReal /\ Documents /\ StatusIsBacked /\ SignedHasPdf)'
<1>1. EventsAreReal'
  BY DEF IInv, Deliveries, EventsAreReal
<1>2. Documents'
  BY DEF IInv, Documents, KnownExist, PostedAreNew, PostedFits, Posted, HasDoc, SimFits
<1>3. StatusIsBacked' /\ SignedHasPdf'
  BY DEF IInv, StatusIsBacked, Backs, SignedHasPdf
<1> QED BY <1>1, <1>2, <1>3

\* A delivery that ends, or never begins, disturbs no other.
LEMMA IdleKeeps ==
  ASSUME IInv, NEW e \in Events, UNCHANGED <<contract, known, pdfJob, send, docs, raised, sim>>,
         webhook' \in {webhook, [webhook EXCEPT ![e] = IdleWebhook]}, acked' \subseteq Events
  PROVE  IInv'
<1>1. /\ webhook' \in [Events -> [pc : {"idle", "fetched", "inTx"}, api : DocStatus]]
      /\ \A f \in Events : webhook'[f] = webhook[f] \/ webhook'[f].pc = "idle"
  BY DEF IInv, TypeOK, IdleWebhook, DocStatus
<1>2. TypeOK'
  BY <1>1 DEF IInv, TypeOK
<1>3. DeliveriesFit'
  BY <1>1 DEF IInv, Deliveries, DeliveriesFit, DeliveryFits, Stands, InTx
<1>4. RowsAreLocked'
  BY <1>1 DEF IInv, Deliveries, RowsAreLocked, InTx
<1>5. UnsettledAtWork'
  BY <1>1 DEF IInv, UnsettledAtWork, OneDoc, AtWork, InTx
<1> QED BY <1>2, <1>3, <1>4, <1>5, WebhookKeeps DEF IInv, Deliveries

\* The API is asked.
LEMMA DeliverStep ==
  ASSUME IInv, NEW e \in Events, Deliver(e)
  PROVE  IInv'
<1>1. UNCHANGED <<contract, known, pdfJob, send, docs, raised, sim>>
  BY DEF Deliver, zapsign
<1>2. CASE raised[e] \notin known
  <2>1. webhook' = webhook /\ acked' \subseteq Events
    BY <1>2 DEF Deliver, Reply200, IInv, TypeOK
  <2> QED BY <1>1, <2>1, IdleKeeps
<1>3. CASE raised[e] \in known
  <2>1. /\ webhook' = [webhook EXCEPT ![e] = [pc |-> "fetched", api |-> docs[raised[e]]]]
        /\ acked' = acked
    BY <1>3 DEF Deliver, FetchDoc
  <2>2. raised[e] \in Docs /\ docs[raised[e]] \in DocStatus
    BY <1>3 DEF IInv, TypeOK
  <2>3. /\ webhook' \in [Events -> [pc : {"idle", "fetched", "inTx"}, api : DocStatus]]
        /\ webhook'[e] = [pc |-> "fetched", api |-> docs[raised[e]]]
        /\ \A f \in Events : f # e => webhook'[f] = webhook[f]
    BY <2>1, <2>2 DEF IInv, TypeOK
  <2>4. TypeOK'
    BY <1>1, <2>1, <2>3 DEF IInv, TypeOK
  <2>5. Stands(raised[e], docs[raised[e]])
    BY DEF Stands
  <2>6. DeliveriesFit'
    BY <1>1, <1>3, <2>3, <2>5 DEF IInv, Deliveries, DeliveriesFit, DeliveryFits, Stands, InTx
  <2>7. RowsAreLocked'
    BY <1>1, <2>3 DEF IInv, Deliveries, RowsAreLocked, InTx
  <2>8. UnsettledAtWork'
    BY <1>1, <2>3 DEF IInv, UnsettledAtWork, OneDoc, AtWork, InTx
  <2> QED BY <1>1, <2>4, <2>6, <2>7, <2>8, WebhookKeeps DEF IInv, Deliveries
<1> QED BY <1>2, <1>3

\* The lock is taken and the status read.
LEMMA BeginTxStep ==
  ASSUME IInv, NEW e \in Events, BeginTx(e)
  PROVE  IInv'
<1>1. UNCHANGED <<contract, known, pdfJob, send, docs, raised, sim>>
  BY DEF BeginTx, zapsign
<1>2. CASE NothingToDo(e)
  <2>1. webhook' = [webhook EXCEPT ![e] = IdleWebhook] /\ acked' \subseteq Events
    BY <1>2 DEF BeginTx, Reply200, IInv, TypeOK
  <2> QED BY <1>1, <2>1, IdleKeeps
<1>3. CASE ~NothingToDo(e)
  <2>1. webhook' = [webhook EXCEPT ![e].pc = "inTx"] /\ acked' = acked
    BY <1>3 DEF BeginTx
  <2>2. /\ webhook' \in [Events -> [pc : {"idle", "fetched", "inTx"}, api : DocStatus]]
        /\ webhook'[e].pc = "inTx" /\ webhook'[e].api = webhook[e].api
        /\ \A f \in Events : f # e => webhook'[f] = webhook[f]
    BY <2>1 DEF IInv, TypeOK
  <2>3. /\ DecideNextStatus(webhook[e].api) # Null /\ contract.status \notin Terminal
        /\ webhook[e].pc = "fetched" /\ ~RowLocked(e)
    BY <1>3 DEF BeginTx, NothingToDo
  <2>4. TypeOK'
    BY <1>1, <2>1, <2>2 DEF IInv, TypeOK
  <2>5. DeliveryFits(e)
    BY <2>3 DEF IInv, Deliveries, DeliveriesFit
  <2>6. DeliveriesFit'
    BY <1>1, <2>2, <2>3, <2>5 DEF IInv, Deliveries, DeliveriesFit, DeliveryFits, Stands, InTx
  <2>7. RowsAreLocked'
    BY <1>1, <2>2, <2>3 DEF IInv, Deliveries, RowsAreLocked, RowLocked, InTx
  <2>8. UnsettledAtWork'
    BY <1>1, <2>3 DEF UnsettledAtWork
  <2> QED BY <1>1, <2>4, <2>6, <2>7, <2>8, WebhookKeeps DEF IInv, Deliveries
<1> QED BY <1>2, <1>3

\* The status is written.  Two deliveries, or a delivery and a simulation, that
\* are at work have two documents.
LEMMA CommitTxStep ==
  ASSUME IInv, NEW e \in Events, CommitTx(e)
  PROVE  IInv' /\ (OneDoc => contract.status \notin Terminal)
<1> DEFINE new == DecideNextStatus(webhook[e].api)
           w == contract.signedPdf \/ new = "signed"
           g == [contract EXCEPT !.status = new]
<1>1. InTx(e) /\ DeliveryFits(e) /\ new # Null /\ raised[e] \notin Simulated
  BY DEF CommitTx, InTx, IInv, Deliveries, DeliveriesFit, DeliveryFits, EventsAreReal
<1>2. /\ new \in ContractStatus /\ new \notin {"none", "draft", "awaiting_org"}
      /\ new = "signed" => webhook[e].api = "signed"
      /\ new = "cancelled" => webhook[e].api = "refused"
      /\ new = "expired" => webhook[e].api = "expired"
      /\ new = "awaiting_fornecedor" => webhook[e].api = "orgSigned"
  BY <1>1, DecidedStatus
<1>3. /\ webhook' = [webhook EXCEPT ![e] = IdleWebhook] /\ acked' \subseteq Events
      /\ UNCHANGED <<known, pdfJob, send, docs, raised, sim>>
  BY DEF CommitTx, Reply200, zapsign, IInv, TypeOK
<1>4. /\ contract' \in Contract /\ contract'.status = new
      /\ contract'.zapsignDocId = contract.zapsignDocId
      /\ new = "signed" => contract'.signedPdf
  <2>1. contract' = [g EXCEPT !.signedPdf = w]
    BY DEF CommitTx
  <2>2. w \in BOOLEAN /\ (new = "signed" => w)
    BY ContractFields DEF IInv
  <2>3. g \in Contract /\ g.status = new /\ g.zapsignDocId = contract.zapsignDocId
    BY <1>2 DEF IInv, TypeOK, Contract
  <2> HIDE DEF g, w
  <2>4. /\ contract' \in Contract /\ contract'.status = g.status
        /\ contract'.zapsignDocId = g.zapsignDocId /\ contract'.signedPdf = w
    BY <2>1, <2>2, <2>3 DEF Contract
  <2> QED BY <2>2, <2>3, <2>4
<1> HIDE DEF new, w, g
<1>5. /\ webhook' \in [Events -> [pc : {"idle", "fetched", "inTx"}, api : DocStatus]]
      /\ webhook'[e].pc = "idle"
      /\ \A f \in Events : f # e => webhook'[f] = webhook[f]
  BY <1>3 DEF IInv, TypeOK, IdleWebhook, DocStatus
<1>6. TypeOK'
  BY <1>3, <1>4, <1>5 DEF IInv, TypeOK
<1>7. Deliveries'
  BY <1>3, <1>5 DEF IInv, Deliveries, DeliveriesFit, DeliveryFits, Stands, EventsAreReal,
     RowsAreLocked, InTx
<1>8. raised[e] \in known /\ contract.zapsignDocId \in known
  BY <1>1 DEF DeliveryFits, IInv, Documents, HasDoc
<1>9. Documents'
  BY <1>3, <1>4, <1>8 DEF IInv, Documents, KnownExist, PostedAreNew, PostedFits, Posted,
     HasDoc, SimFits
<1>10. OneDoc => contract.status \notin Terminal
  BY <1>1 DEF IInv, UnsettledAtWork, AtWork
<1>11. UnsettledAtWork'
  <2> SUFFICES ASSUME AtWork'
               PROVE  ~OneDoc'
    BY DEF UnsettledAtWork
  <2>1. CASE sim' # Null
    BY <1>1, <1>3, <1>8, <2>1 DEF IInv, Documents, SimFits, OneDoc
  <2>2. CASE \E f \in Events : InTx(f)'
    <3>1. PICK f \in Events : f # e /\ InTx(f)
      BY <1>5, <2>2 DEF InTx
    <3>2. raised[f] \in known /\ raised[f] # raised[e]
      BY <1>1, <3>1 DEF IInv, Deliveries, DeliveriesFit, DeliveryFits, RowsAreLocked, InTx
    <3> QED BY <1>3, <1>8, <3>2 DEF OneDoc
  <2> QED BY <2>1, <2>2 DEF AtWork
<1>12. StatusIsBacked'
  <2>1. PICK d \in known, status \in {"signed", "cancelled", "expired", "awaiting_fornecedor"} :
          d = raised[e] /\ status = new
    BY <1>2, <1>8 DEF ContractStatus, Terminal
  <2>2. Backs(d, status)'
    BY <1>1, <1>2, <1>3, <2>1 DEF DeliveryFits, Stands, Backs
  <2> QED BY <1>3, <1>4, <2>1, <2>2 DEF StatusIsBacked
<1>13. SignedHasPdf'
  BY <1>4 DEF SignedHasPdf
<1> QED BY <1>6, <1>7, <1>9, <1>10, <1>11, <1>12, <1>13 DEF IInv

\* The route fails, or the server dies.
LEMMA FailTxStep ==
  ASSUME IInv, NEW e \in Events, FailTx(e)
  PROVE  IInv'
  BY IdleKeeps DEF FailTx, zapsign, IInv, TypeOK

-----------------------------------------------------------------------------
(* The simulator *)

LEMMA SimulateReadStep ==
  ASSUME IInv, SimulateRead
  PROVE  IInv'
<1>1. /\ UNCHANGED <<contract, known, pdfJob, send, docs, raised, acked, webhook>>
      /\ sim' = contract.zapsignDocId /\ sim' \in Simulated /\ contract.status \notin Terminal
  BY DEF SimulateRead, zapsign, route, Terminal
<1>2. TypeOK' /\ sim' \in known
  BY <1>1, ContractFields, ContractsAssumption DEF IInv, TypeOK, Documents, HasDoc
<1>3. Deliveries'
  BY <1>1 DEF IInv, Deliveries, DeliveriesFit, DeliveryFits, Stands, EventsAreReal,
     RowsAreLocked, InTx
<1>4. Documents'
  BY <1>1, <1>2 DEF IInv, Documents, KnownExist, PostedAreNew, PostedFits, Posted, HasDoc, SimFits
<1>5. UnsettledAtWork' /\ StatusIsBacked' /\ SignedHasPdf'
  BY <1>1 DEF IInv, UnsettledAtWork, StatusIsBacked, Backs, SignedHasPdf
<1> QED BY <1>2, <1>3, <1>4, <1>5 DEF IInv

\* The simulated signature: with one document, no delivery is at work.
LEMMA SimulateCommitStep ==
  ASSUME IInv, SimulateCommit
  PROVE  IInv' /\ (OneDoc => contract.status \notin Terminal)
<1>1. /\ UNCHANGED <<known, pdfJob, send, docs, raised, acked, webhook>>
      /\ sim # Null /\ sim' = Null /\ sim \in known /\ sim \in Simulated
  BY DEF SimulateCommit, zapsign, route, IInv, Documents, SimFits
<1>2. /\ contract' \in Contract /\ contract'.zapsignDocId = contract.zapsignDocId
      /\ \/ contract' = contract
         \/ contract'.status = "signed" /\ contract.zapsignDocId = sim
  BY DEF SimulateCommit, StillItsDoc, IInv, TypeOK, Contract, ContractStatus, Terminal
<1>3. TypeOK'
  BY <1>1, <1>2 DEF IInv, TypeOK
<1>4. Deliveries'
  BY <1>1 DEF IInv, Deliveries, DeliveriesFit, DeliveryFits, Stands, EventsAreReal,
     RowsAreLocked, InTx
<1>5. contract.zapsignDocId \in known
  BY <1>1 DEF IInv, Documents, HasDoc
<1>6. Documents'
  BY <1>1, <1>2, <1>5 DEF IInv, Documents, KnownExist, PostedAreNew, PostedFits, Posted,
     HasDoc, SimFits
<1>7. OneDoc => contract.status \notin Terminal
  BY <1>1 DEF IInv, UnsettledAtWork, AtWork
<1>8. UnsettledAtWork'
  <2> SUFFICES ASSUME NEW e \in Events, InTx(e)
               PROVE  ~OneDoc'
    BY <1>1 DEF UnsettledAtWork, AtWork, InTx
  <2>1. raised[e] \in known /\ raised[e] \notin Simulated
    BY DEF IInv, Deliveries, DeliveriesFit, DeliveryFits, EventsAreReal, InTx
  <2> QED BY <1>1, <2>1 DEF OneDoc
<1>9. StatusIsBacked' /\ SignedHasPdf'
  <2>1. CASE contract' = contract
    BY <1>1, <2>1 DEF IInv, StatusIsBacked, Backs, SignedHasPdf
  <2>2. CASE contract'.status = "signed" /\ contract.zapsignDocId = sim
    <3>1. PICK d \in known : d = sim
      BY <1>1
    <3>2. Backs(d, "signed")'
      BY <1>1, <3>1 DEF Backs
    <3> QED BY <1>1, <1>2, <2>2, <3>1, <3>2 DEF StatusIsBacked, SignedHasPdf
  <2> QED BY <1>2, <2>1, <2>2
<1> QED BY <1>3, <1>4, <1>6, <1>7, <1>8, <1>9 DEF IInv

LEMMA SimulateAbortStep ==
  ASSUME IInv, SimulateAbort
  PROVE  IInv'
<1>1. UNCHANGED <<contract, known, pdfJob, send, docs, raised, acked, webhook>> /\ sim' = Null
  BY DEF SimulateAbort, zapsign, route
<1>2. TypeOK'
  BY <1>1 DEF IInv, TypeOK
<1>3. Deliveries'
  BY <1>1 DEF IInv, Deliveries, DeliveriesFit, DeliveryFits, Stands, EventsAreReal,
     RowsAreLocked, InTx
<1>4. Documents'
  BY <1>1 DEF IInv, Documents, KnownExist, PostedAreNew, PostedFits, Posted, HasDoc, SimFits
<1>5. UnsettledAtWork' /\ StatusIsBacked' /\ SignedHasPdf'
  BY <1>1 DEF IInv, UnsettledAtWork, OneDoc, AtWork, InTx, StatusIsBacked, Backs, SignedHasPdf
<1> QED BY <1>2, <1>3, <1>4, <1>5 DEF IInv

-----------------------------------------------------------------------------
(* Steps *)

LEMMA StepInv == IInv /\ [Next]_vars => IInv'
<1> SUFFICES ASSUME IInv, [Next]_vars PROVE IInv'
  OBVIOUS
<1>1. CASE JobStep
  BY <1>1, EmitStep, PdfStep, PostStep, CommitSendStep, AbortSendStep DEF JobStep
<1>2. CASE \E d \in Docs : ChangeDoc(d)
  BY <1>2, ChangeDocStep
<1>3. CASE \E e \in Events : WebhookStep(e)
  BY <1>3, DeliverStep, BeginTxStep, CommitTxStep, FailTxStep DEF WebhookStep
<1>4. CASE SimulatorStep
  BY <1>4, SimulateReadStep, SimulateCommitStep, SimulateAbortStep DEF SimulatorStep
<1>5. CASE UNCHANGED vars
  <2>1. UNCHANGED <<contract, known, pdfJob, send, docs, raised, webhook, acked, sim>>
    BY <1>5 DEF vars
  <2>2. Deliveries'
    BY <2>1 DEF IInv, Deliveries, DeliveriesFit, DeliveryFits, Stands, EventsAreReal,
       RowsAreLocked, InTx
  <2>3. UnsettledAtWork'
    BY <2>1 DEF IInv, UnsettledAtWork, OneDoc, AtWork, InTx
  <2>4. TypeOK'
    BY <2>1 DEF IInv, TypeOK
  <2> QED BY <2>1, <2>2, <2>3, <2>4, WebhookKeeps DEF IInv
<1> QED BY <1>1, <1>2, <1>3, <1>4, <1>5 DEF Next

\* A step that takes a contract out of a terminal state has two documents after it.
LEMMA TerminalStep ==
  ASSUME IInv, [Next]_vars, contract.status \in Terminal, Cardinality(known') <= 1
  PROVE  contract'.status = contract.status
<1>1. IsFiniteSet(known')
  BY StepInv DEF IInv, Documents, KnownExist
<1>2. OneDoc'
  BY <1>1, TwoAreTwo DEF OneDoc
<1>3. CASE Emit \/ RunPdf
  BY <1>3 DEF Emit, RunPdf, Terminal, IInv, TypeOK, Contract
<1>4. CASE \E s \in Sends : CommitSend(s)
  BY <1>2, <1>4, CommitSendStep DEF OneDoc
<1>5. CASE \E s \in Sends : Post(s) \/ AbortSend(s)
  BY <1>5 DEF Post, AbortSend
<1>6. CASE \E d \in Docs : ChangeDoc(d)
  BY <1>6 DEF ChangeDoc
<1>7. CASE \E e \in Events : CommitTx(e)
  <2>1. OneDoc
    BY <1>2, <1>7 DEF CommitTx, OneDoc
  <2> QED BY <1>7, <2>1, CommitTxStep
<1>8. CASE \E e \in Events : Deliver(e) \/ BeginTx(e) \/ FailTx(e)
  BY <1>8 DEF Deliver, BeginTx, FailTx
<1>9. CASE SimulateCommit
  <2>1. OneDoc
    BY <1>2, <1>9 DEF SimulateCommit, OneDoc
  <2> QED BY <1>9, <2>1, SimulateCommitStep
<1>10. CASE SimulateRead \/ SimulateAbort \/ UNCHANGED vars
  BY <1>10 DEF SimulateRead, SimulateAbort, vars
<1> QED
  BY <1>3, <1>4, <1>5, <1>6, <1>7, <1>8, <1>9, <1>10
  DEF Next, JobStep, WebhookStep, SimulatorStep

-----------------------------------------------------------------------------
(* Theorems *)

\* The inductive invariant.
THEOREM Invariance == Spec => []IInv
<1>1. Init => IInv
  BY InitInv
<1>2. IInv /\ [Next]_vars => IInv'
  BY StepInv
<1> QED BY <1>1, <1>2, PTL DEF Spec

\* What the contract says has happened to one of its documents (route.ts:13-16).
THEOREM StatusesAreBacked == Spec => []StatusIsBacked
<1>1. IInv => StatusIsBacked
  BY DEF IInv
<1> QED BY <1>1, Invariance, PTL

\* A contract signed on a real document has its signed PDF
\* (zapsign-simulator.ts:91-95).
THEOREM SignedContractsHavePdf == Spec => []SignedHasPdf
<1>1. IInv => SignedHasPdf
  BY DEF IInv
<1> QED BY <1>1, Invariance, PTL

\* While a contract has one document, a terminal status is final, although it is
\* read without a lock (route.ts:215-227).
THEOREM TerminalIsFinal == Spec => TerminalWithOneDoc
<1>1. IInv /\ [Next]_vars =>
        [contract.status \in Terminal /\ Cardinality(known') <= 1
           => contract'.status = contract.status]_vars
  BY TerminalStep
<1> QED BY <1>1, Invariance, PTL DEF Spec, TerminalWithOneDoc
=============================================================================
