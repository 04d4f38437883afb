------------------------------ MODULE Uploads ------------------------------
(***************************************************************************)
(* Files that go from the browser straight to MinIO: documents of a vendor *)
(* (src/lib/actions/vendor-docs.ts, vendor-doc-uploader.tsx) and the floor *)
(* plan of an event (minio-presign.ts, planta-uploader.tsx).  The server   *)
(* signs a URL, the browser PUTs, the server looks at the object and files *)
(* its key.                                                                *)
(*                                                                         *)
(* One vendor and one event; a key is random, so each is drawn once.       *)
(***************************************************************************)
EXTENDS Naturals, FiniteSets

CONSTANTS
  Keys, Tabs,
  MaxDownloads,  \* bound on the downloads asked of one document
  Null

ASSUME UploadsAssumption == MaxDownloads \in Nat /\ Null \notin Keys

Kinds == {"doc", "planta"}

\* An upload under way in a tab, and what statObject has answered.
Upload == [key : Keys, pc : {"put", "stat", "refuse", "write", "answer"}]

ASSUME NullIsNothing == Null \notin Kinds \cup Upload

VARIABLES
  kind,      \* kind[k]: what a URL for k was signed for, or Null
  valid,     \* keys whose URL has not expired
  objects,   \* objects[k]: "none", or an object within the bounds ("good") or not
  docs,      \* docs[k]: the row of vendor_documents with this key
  planta,    \* planta_minio_key of the event
  replaced,  \* keys that somebody has PUT to once the object had been looked at
  tab,       \* tab[t]: Upload, or Null
  sent,      \* keys whose tab has shown "enviado"
  plantas,   \* audit rows event.planta_uploaded, by key
  audited    \* audited[k]: audit rows vendor.doc_downloaded

filed == <<docs, planta, plantas>>
vars  == <<kind, valid, objects, replaced, tab, sent, filed, audited>>

TypeOK ==
  /\ kind \in [Keys -> Kinds \cup {Null}]
  /\ valid \subseteq Keys /\ replaced \subseteq Keys
  /\ sent \subseteq Keys /\ plantas \subseteq Keys
  /\ objects \in [Keys -> {"none", "good", "bad"}]
  /\ docs \in [Keys -> {"none", "live", "deleted"}]
  /\ planta \in Keys \cup {Null}
  /\ tab \in [Tabs -> Upload \cup {Null}]
  /\ audited \in [Keys -> 0 .. MaxDownloads]

Init ==
  /\ kind = [k \in Keys |-> Null]
  /\ valid = {} /\ replaced = {} /\ sent = {} /\ plantas = {}
  /\ objects = [k \in Keys |-> "none"]
  /\ docs = [k \in Keys |-> "none"]
  /\ planta = Null
  /\ tab = [t \in Tabs |-> Null]
  /\ audited = [k \in Keys |-> 0]

-----------------------------------------------------------------------------
At(t, pc)   == tab[t] # Null /\ tab[t].pc = pc
Goes(t, pc) == tab' = [tab EXCEPT ![t].pc = pc]
Drop(t)     == tab' = [tab EXCEPT ![t] = Null]

\* handleUpload, handleFile: a file of the right type and size, and the URL for it.
\* A mint that fails changes nothing.
Mint(t, k, what) ==
  /\ tab[t] = Null /\ kind[k] = Null
  /\ kind' = [kind EXCEPT ![k] = what]
  /\ valid' = valid \cup {k}
  /\ tab' = [tab EXCEPT ![t] = [key |-> k, pc |-> "put"]]
  /\ UNCHANGED <<objects, replaced, sent, filed, audited>>

\* mintVendorDocUploadUrlInTenant, of a vendor that is there
MintDoc(t, k) == Mint(t, k, "doc")

\* mintEventPlantaUploadUrlInTenant, of an event that is there
MintPlanta(t, k) == Mint(t, k, "planta")

\* The PUT of the tab; MinIO refuses it once the URL has expired.
Put(t) ==
  LET k == tab[t].key IN
  /\ At(t, "put") /\ k \in valid
  /\ objects' = [objects EXCEPT ![k] = "good"]
  /\ Goes(t, "stat")
  /\ UNCHANGED <<kind, valid, replaced, sent, filed, audited>>

\* The PUT fails, or only its answer does: an error is shown and nothing confirmed.
PutFails(t) ==
  LET k == tab[t].key IN
  /\ At(t, "put")
  /\ objects' \in {objects} \cup (IF k \in valid THEN {[objects EXCEPT ![k] = "good"]} ELSE {})
  /\ Drop(t)
  /\ UNCHANGED <<kind, valid, replaced, sent, filed, audited>>

\* Keys that a tab has yet to confirm.
Unchecked == {k \in Keys : \E t \in Tabs : tab[t] # Null /\ tab[t].key = k
                                          /\ tab[t].pc \in {"put", "stat"}}

\* The URL takes any body, declared as anything, from whoever has it.
PutOther(k, o) ==
  /\ k \in valid
  /\ objects' = [objects EXCEPT ![k] = o]
  /\ replaced' = IF k \in Unchecked THEN replaced ELSE replaced \cup {k}
  /\ UNCHANGED <<kind, valid, tab, sent, filed, audited>>

\* PUT_TTL_SECONDS are over.
Expire(k) ==
  /\ k \in valid
  /\ valid' = valid \ {k}
  /\ UNCHANGED <<kind, objects, replaced, tab, sent, filed, audited>>

-----------------------------------------------------------------------------
(* Confirmation *)

\* Mutant: the object's type and size are not looked at.
Acceptable_Anything(o) == o # "none"

\* The type is the one of the key's extension, and the size within the cap.
Acceptable(o) == o = "good"

\* confirmVendorDocUploadInTenant, confirmEventPlantaUploadInTenant, down to
\* statObject; without an object, or with a query or MinIO failing, they throw.
StatObject(t) ==
  LET o == objects[tab[t].key] IN
  /\ At(t, "stat")
  /\ \/ Acceptable(o) /\ Goes(t, "write")
     \/ ~Acceptable(o) /\ o # "none" /\ Goes(t, "refuse")
     \/ Drop(t)
  /\ UNCHANGED <<kind, valid, objects, replaced, sent, filed, audited>>

\* tryDelete, whose failure is ignored, and the refusal.
Refuse(t) ==
  /\ At(t, "refuse")
  /\ objects' \in {objects, [objects EXCEPT ![tab[t].key] = "none"]}
  /\ Drop(t)
  /\ UNCHANGED <<kind, valid, replaced, sent, filed, audited>>

\* The row of the document.
FileDoc(k) ==
  /\ kind[k] = "doc"
  /\ docs' = [docs EXCEPT ![k] = "live"]
  /\ UNCHANGED <<planta, plantas>>

\* The key of the event, whatever key it had, and the audit row.
FilePlanta(k) ==
  /\ kind[k] = "planta"
  /\ planta' = k /\ plantas' = plantas \cup {k}
  /\ UNCHANGED docs

\* One or the other, and COMMIT.
Confirm(t) ==
  /\ At(t, "write")
  /\ FileDoc(tab[t].key) \/ FilePlanta(tab[t].key)
  /\ Goes(t, "answer")
  /\ UNCHANGED <<kind, valid, objects, replaced, sent, audited>>

\* A statement or COMMIT fails: the tab shows an error.
ConfirmFails(t) ==
  /\ At(t, "write")
  /\ Drop(t)
  /\ UNCHANGED <<kind, valid, objects, replaced, sent, filed, audited>>

\* Mutant: the tab tells of success once its PUT is accepted.
Told_ByPut(t) == At(t, "answer") \/ At(t, "write")

\* The answer of the confirmation has come.
Told(t) == At(t, "answer")

HearAnswer(t) ==
  /\ Told(t)
  /\ sent' = sent \cup {tab[t].key}
  /\ Drop(t)
  /\ UNCHANGED <<kind, valid, objects, replaced, filed, audited>>

\* The answer is lost: what has been filed stays.
LoseAnswer(t) ==
  /\ At(t, "answer")
  /\ Drop(t)
  /\ UNCHANGED <<kind, valid, objects, replaced, sent, filed, audited>>

-----------------------------------------------------------------------------
(* Documents *)

\* mintVendorDocDownloadUrlInTenant: the audit row is written in the transaction
\* of the request, and the URL leaves with COMMIT, if it leaves.
MintDownload(k) ==
  /\ docs[k] = "live" /\ audited[k] < MaxDownloads
  /\ audited' = [audited EXCEPT ![k] = @ + 1]
  /\ UNCHANGED <<kind, valid, objects, replaced, tab, sent, filed>>

\* deleteVendorDocInTenant: the row only.
DeleteDoc(k) ==
  /\ docs[k] = "live"
  /\ docs' = [docs EXCEPT ![k] = "deleted"]
  /\ UNCHANGED <<kind, valid, objects, replaced, tab, sent, planta, plantas, audited>>

-----------------------------------------------------------------------------
Next ==
  \/ \E t \in Tabs :
       \/ \E k \in Keys : MintDoc(t, k) \/ MintPlanta(t, k)
       \/ Put(t) \/ PutFails(t) \/ StatObject(t) \/ Refuse(t)
       \/ Confirm(t) \/ ConfirmFails(t) \/ HearAnswer(t) \/ LoseAnswer(t)
  \/ \E k \in Keys :
       \/ \E o \in {"good", "bad"} : PutOther(k, o)
       \/ Expire(k) \/ MintDownload(k) \/ DeleteDoc(k)

Spec == Init /\ [][Next]_vars

-----------------------------------------------------------------------------
(* Properties *)

Filed(k) == docs[k] = "live" \/ planta = k

\* What is filed is there and within the bounds, unless its URL was used again
\* after the object had been looked at (vendor-docs.ts:227-250,
\* minio-presign.ts:231-262).
FiledWasChecked == \A k \in Keys : Filed(k) => objects[k] = "good" \/ k \in replaced

\* A file the tab has shown as sent is in the vault, or was removed from it; a plan
\* is the event's, or a later one took its place, and the audit trail has it
\* (vendor-doc-uploader.tsx:96-111, planta-uploader.tsx:96-117).
SentIsFiled ==
  \A k \in sent : \/ kind[k] = "doc" /\ docs[k] # "none"
                  \/ k \in plantas /\ planta # Null
=============================================================================
