--------------------- MODULE UploadsPlantaEditorProofs ----------------------
(***************************************************************************)
(* What TLAPS proves of Uploads, for any number of keys and tabs, and of   *)
(* PlantaEditor, which draws on the plan that was uploaded, for any number *)
(* of lots, categories, editors and edits. The two share no variable.      *)
(*                                                                         *)
(* FiledWasChecked is not inductive: that the object of a key was looked   *)
(* at before the key was filed depends on what each upload under way has   *)
(* done, and on no two of them having one key.                             *)
(*                                                                         *)
(* EditsAreKept is not inductive either. An answer frees the next request, *)
(* a timer makes one, and an error reloads the page: what a tab shows of a *)
(* lot is in its timer, or in its queue, or saved, because the saves of a  *)
(* lot wait in the order of its edits (InOrder), the newest is what is     *)
(* shown (NewestWaits), and an answer says what was saved (AnswerIsTrue).  *)
(* A lot just created is not known to its tab before the answer            *)
(* (CreatedIsNew).                                                         *)
(***************************************************************************)
EXTENDS Uploads, PlantaEditor, TLAPS

-----------------------------------------------------------------------------
(* Uploads *)

Busy(t) == tab[t] # Null
KeyOf(t) == tab[t].key

\* A key belongs to the one upload its URL was signed for.
KeysAreOwn ==
  /\ \A t \in Tabs : Busy(t) => kind[KeyOf(t)] # Null
  /\ \A t, u \in Tabs : Busy(t) /\ Busy(u) /\ KeyOf(t) = KeyOf(u) => t = u

\* Nothing is known of a key that was never drawn.
UnusedKeys ==
  \A k \in Keys : kind[k] = Null =>
    /\ k \notin valid /\ k \notin plantas /\ k \notin sent
    /\ docs[k] = "none" /\ planta # k

\* How far an upload is: until it is confirmed its key is not filed, what waits to
\* be filed was looked at, and what waits for its answer is filed.
Fits(t) ==
  /\ tab[t].pc \in {"put", "stat", "refuse"} => ~Filed(KeyOf(t))
  /\ tab[t].pc = "write" => objects[KeyOf(t)] = "good" \/ KeyOf(t) \in replaced
  /\ tab[t].pc = "answer" => \/ kind[KeyOf(t)] = "doc" /\ docs[KeyOf(t)] # "none"
                            \/ KeyOf(t) \in plantas

Progress == \A t \in Tabs : Busy(t) => Fits(t)

PlanIsFiled == plantas # {} => planta # Null

IInv ==
  /\ TypeOK /\ KeysAreOwn /\ UnusedKeys /\ Progress /\ PlanIsFiled
  /\ FiledWasChecked /\ SentIsFiled

-----------------------------------------------------------------------------
(* How the steps of an upload change tab *)

\* An upload goes on: its key stays, and so do the other uploads.
LEMMA GoesStep ==
  ASSUME TypeOK, NEW t \in Tabs, NEW p, NEW q \in {"put", "stat", "refuse", "write", "answer"},
         At(t, p), Goes(t, q)
  PROVE  /\ tab' \in [Tabs -> Upload \cup {Null}]
         /\ tab'[t] # Null /\ tab'[t].key = KeyOf(t) /\ tab'[t].pc = q
         /\ \A u \in Tabs : u # t => tab'[u] = tab[u]
<1>1. tab[t] \in Upload
  BY DEF TypeOK, At
<1>2. tab' = [tab EXCEPT ![t] = [tab[t] EXCEPT !.pc = q]]
  BY DEF Goes
<1>3. [tab[t] EXCEPT !.pc = q] \in Upload
  BY <1>1 DEF Upload
<1>4. tab'[t] = [tab[t] EXCEPT !.pc = q] /\ \A u \in Tabs : u # t => tab'[u] = tab[u]
  BY <1>2 DEF TypeOK
<1>5. [tab[t] EXCEPT !.pc = q].key = tab[t].key /\ [tab[t] EXCEPT !.pc = q].pc = q
  BY <1>1 DEF Upload
<1> QED BY <1>2, <1>3, <1>4, <1>5, NullIsNothing DEF TypeOK, KeyOf

\* An upload ends.
LEMMA DropStep ==
  ASSUME TypeOK, NEW t \in Tabs, Drop(t)
  PROVE  /\ tab' \in [Tabs -> Upload \cup {Null}]
         /\ tab'[t] = Null /\ \A u \in Tabs : u # t => tab'[u] = tab[u]
  BY DEF TypeOK, Drop

\* The key of an upload, and what its progress says.
LEMMA Own ==
  ASSUME IInv, NEW t \in Tabs, NEW p, At(t, p)
  PROVE  /\ KeyOf(t) \in Keys /\ kind[KeyOf(t)] \in Kinds
         /\ Busy(t) /\ tab[t] \in Upload /\ tab[t].pc = p
         /\ \A u \in Tabs : Busy(u) /\ u # t => KeyOf(u) # KeyOf(t)
  BY DEF IInv, TypeOK, KeysAreOwn, At, Busy, KeyOf, Upload

-----------------------------------------------------------------------------
(* Each step keeps the invariant *)

LEMMA MintKeeps ==
  ASSUME IInv, NEW t \in Tabs, NEW k \in Keys, NEW what \in Kinds, Mint(t, k, what)
  PROVE  IInv'
<1>1. /\ tab[t] = Null /\ kind[k] = Null
      /\ kind' \in [Keys -> Kinds \cup {Null}] /\ kind'[k] = what
      /\ \A j \in Keys \ {k} : kind'[j] = kind[j]
      /\ tab'[t] = [key |-> k, pc |-> "put"] /\ \A u \in Tabs : u # t => tab'[u] = tab[u]
      /\ tab' \in [Tabs -> Upload \cup {Null}]
      /\ valid' = valid \cup {k}
      /\ UNCHANGED <<objects, replaced, sent, filed, audited>>
  BY DEF IInv, TypeOK, Mint, Upload
<1>2. TypeOK'
  BY <1>1 DEF IInv, TypeOK, filed
<1>3. KeysAreOwn'
  BY <1>1, NullIsNothing DEF IInv, TypeOK, KeysAreOwn, Busy, KeyOf, Upload
<1>4. UnusedKeys'
  BY <1>1, NullIsNothing DEF IInv, UnusedKeys, filed
<1>5. Progress'
  <2> SUFFICES ASSUME NEW u \in Tabs, Busy(u)'
               PROVE  Fits(u)'
    BY DEF Progress
  <2>1. CASE u = t
    BY <1>1, <2>1 DEF IInv, UnusedKeys, Fits, KeyOf, Filed, filed
  <2>2. CASE u # t
    <3>1. Busy(u) /\ KeyOf(u) \in Keys \ {k} /\ Fits(u)
      BY <1>1, <2>2 DEF IInv, TypeOK, KeysAreOwn, Progress, Busy, KeyOf, Upload
    <3> QED BY <1>1, <2>2, <3>1 DEF Fits, KeyOf, Filed, filed
  <2> QED BY <2>1, <2>2
<1>6. PlanIsFiled' /\ FiledWasChecked' /\ SentIsFiled'
  BY <1>1 DEF IInv, TypeOK, UnusedKeys, PlanIsFiled, FiledWasChecked, SentIsFiled,
              Filed, filed
<1> QED BY <1>2, <1>3, <1>4, <1>5, <1>6 DEF IInv

\* A step of the upload in t: it goes on or ends, and leaves the others alone.
TabMoves(t) ==
  /\ tab' \in [Tabs -> Upload \cup {Null}]
  /\ \A u \in Tabs : u # t => tab'[u] = tab[u]
  /\ tab'[t] # Null => tab'[t].key = KeyOf(t)
  /\ UNCHANGED kind

\* Other keys are filed, and their objects known, as before.
SameBut(k) ==
  \A j \in Keys \ {k} :
    /\ objects'[j] = objects[j] /\ (j \in replaced => j \in replaced')
    /\ docs'[j] = docs[j] /\ (planta' = j => planta = j) /\ (j \in plantas => j \in plantas')

LEMMA UploadMoves ==
  ASSUME IInv, NEW t \in Tabs, Busy(t), TabMoves(t), SameBut(KeyOf(t)),
         Busy(t)' => Fits(t)'
  PROVE  KeysAreOwn' /\ Progress'
<1>1. KeysAreOwn'
  BY DEF IInv, KeysAreOwn, TabMoves, Busy, KeyOf
<1>2. ASSUME NEW u \in Tabs, Busy(u)', u # t
      PROVE  Fits(u)'
  <2>1. Busy(u) /\ KeyOf(u) \in Keys \ {KeyOf(t)} /\ Fits(u) /\ KeyOf(u)' = KeyOf(u)
    BY <1>2 DEF IInv, TypeOK, KeysAreOwn, Progress, TabMoves, Busy, KeyOf, Upload
  <2>2. UNCHANGED <<kind, tab[u]>>
    BY <1>2 DEF TabMoves
  <2> QED BY <2>1, <2>2 DEF SameBut, Fits, Filed
<1> QED BY <1>1, <1>2 DEF Progress

\* The upload goes on or ends, and nothing else happens.
LEMMA QuietStep ==
  ASSUME IInv, NEW t \in Tabs, Busy(t), TabMoves(t),
         UNCHANGED <<valid, objects, replaced, sent, filed, audited>>,
         Busy(t)' => Fits(t)'
  PROVE  IInv'
<1>1. KeysAreOwn' /\ Progress'
  BY UploadMoves DEF SameBut, filed
<1>2. TypeOK' /\ UnusedKeys' /\ PlanIsFiled'
  BY DEF IInv, TypeOK, UnusedKeys, PlanIsFiled, TabMoves, filed
<1>3. FiledWasChecked' /\ SentIsFiled'
  BY DEF IInv, FiledWasChecked, SentIsFiled, Filed, TabMoves, filed
<1> QED BY <1>1, <1>2, <1>3 DEF IInv

LEMMA StatKeeps ==
  ASSUME IInv, NEW t \in Tabs, StatObject(t) \/ ConfirmFails(t) \/ LoseAnswer(t)
  PROVE  IInv'
<1>1. PICK p : /\ At(t, p)
               /\ \/ Drop(t)
                  \/ /\ p = "stat"
                     /\ \/ Goes(t, "refuse")
                        \/ (Goes(t, "write") /\ objects[KeyOf(t)] = "good")
  <2>1. CASE StatObject(t)
    BY <2>1 DEF StatObject, Acceptable, KeyOf
  <2>2. CASE ConfirmFails(t) \/ LoseAnswer(t)
    BY <2>2 DEF ConfirmFails, LoseAnswer
  <2> QED BY <2>1, <2>2
<1>2. UNCHANGED <<kind, valid, objects, replaced, sent, filed, audited>>
  BY DEF StatObject, ConfirmFails, LoseAnswer
<1>3. Busy(t) /\ Fits(t) /\ tab[t].pc = p
  BY <1>1, Own DEF IInv, Progress
<1>4. CASE Drop(t)
  BY <1>2, <1>3, <1>4, DropStep, QuietStep DEF IInv, TabMoves, Busy
<1>5. ASSUME NEW q \in {"refuse", "write"}, p = "stat", Goes(t, q),
             q = "write" => objects[KeyOf(t)] = "good"
      PROVE  IInv'
  <2>1. /\ tab' \in [Tabs -> Upload \cup {Null}]
        /\ tab'[t] # Null /\ tab'[t].key = KeyOf(t) /\ tab'[t].pc = q
        /\ \A u \in Tabs : u # t => tab'[u] = tab[u]
    BY <1>1, <1>5, GoesStep DEF IInv
  <2>2. Fits(t)'
    BY <1>2, <1>3, <1>5, <2>1 DEF Fits, Filed, KeyOf, filed
  <2> QED BY <1>2, <1>3, <2>1, <2>2, QuietStep DEF TabMoves
<1> QED BY <1>1, <1>4, <1>5

\* A step that writes or removes the object of an upload which is not filed yet.
LEMMA ObjectMoves ==
  ASSUME IInv, NEW t \in Tabs, Busy(t), TabMoves(t), ~Filed(KeyOf(t)),
         NEW o \in {"none", "good"}, objects' = [objects EXCEPT ![KeyOf(t)] = o],
         UNCHANGED <<valid, replaced, sent, filed, audited>>,
         Busy(t)' => Fits(t)'
  PROVE  IInv'
<1>1. KeyOf(t) \in Keys
  BY Own DEF At, Busy
<1>2. objects' \in [Keys -> {"none", "good", "bad"}] /\ SameBut(KeyOf(t))
  BY <1>1 DEF IInv, TypeOK, SameBut, filed
<1>3. KeysAreOwn' /\ Progress'
  BY <1>2, UploadMoves
<1>4. TypeOK' /\ UnusedKeys' /\ PlanIsFiled'
  BY <1>2 DEF IInv, TypeOK, UnusedKeys, PlanIsFiled, TabMoves, filed
<1>5. FiledWasChecked'
  BY <1>2 DEF IInv, FiledWasChecked, Filed, SameBut, filed
<1>6. SentIsFiled'
  BY DEF IInv, SentIsFiled, TabMoves, filed
<1> QED BY <1>3, <1>4, <1>5, <1>6 DEF IInv

LEMMA PutKeeps ==
  ASSUME IInv, NEW t \in Tabs, Put(t) \/ PutFails(t) \/ Refuse(t)
  PROVE  IInv'
<1>1. CASE Put(t)
  <2>1. /\ At(t, "put") /\ Goes(t, "stat")
        /\ objects' = [objects EXCEPT ![KeyOf(t)] = "good"]
        /\ UNCHANGED <<kind, valid, replaced, sent, filed, audited>>
    BY <1>1 DEF Put, KeyOf
  <2>2. /\ tab' \in [Tabs -> Upload \cup {Null}]
        /\ tab'[t] # Null /\ tab'[t].key = KeyOf(t) /\ tab'[t].pc = "stat"
        /\ \A u \in Tabs : u # t => tab'[u] = tab[u]
    BY <2>1, GoesStep DEF IInv
  <2>3. Busy(t) /\ ~Filed(KeyOf(t))
    BY <2>1 DEF IInv, Progress, Fits, At, Busy
  <2>4. Fits(t)'
    BY <2>1, <2>2, <2>3 DEF Fits, Filed, KeyOf, filed
  <2> QED BY <2>1, <2>2, <2>3, <2>4, ObjectMoves DEF TabMoves
<1>2. CASE PutFails(t) \/ Refuse(t)
  <2>1. PICK p \in {"put", "refuse"} : At(t, p)
    BY <1>2 DEF PutFails, Refuse
  <2>2. /\ Drop(t)
        /\ UNCHANGED <<kind, valid, replaced, sent, filed, audited>>
        /\ \/ objects' = objects
           \/ \E o \in {"none", "good"} : objects' = [objects EXCEPT ![KeyOf(t)] = o]
    BY <1>2 DEF PutFails, Refuse, KeyOf
  <2>3. Busy(t) /\ ~Filed(KeyOf(t)) /\ TabMoves(t) /\ ~Busy(t)'
    BY <2>1, <2>2, DropStep DEF IInv, Progress, Fits, At, Busy, TabMoves
  <2>4. CASE objects' = objects
    BY <2>2, <2>3, <2>4, QuietStep
  <2>5. CASE \E o \in {"none", "good"} : objects' = [objects EXCEPT ![KeyOf(t)] = o]
    BY <2>2, <2>3, <2>5, ObjectMoves
  <2> QED BY <2>2, <2>4, <2>5
<1> QED BY <1>1, <1>2

\* Whoever uses the URL of a key once its object was looked at is in replaced.
LEMMA PutOtherKeeps ==
  ASSUME IInv, NEW k \in Keys, NEW o \in {"good", "bad"}, PutOther(k, o)
  PROVE  IInv'
<1>1. /\ objects' \in [Keys -> {"none", "good", "bad"}]
      /\ \A j \in Keys \ {k} : objects'[j] = objects[j]
      /\ replaced \subseteq replaced' /\ replaced' \subseteq Keys
      /\ UNCHANGED <<kind, valid, tab, sent, filed, audited>>
  BY DEF IInv, TypeOK, PutOther
<1>2. k \in replaced' \/ ~Filed(k)
  BY DEF IInv, Progress, Fits, PutOther, Unchecked, Busy, KeyOf
<1>3. TypeOK' /\ KeysAreOwn' /\ UnusedKeys' /\ PlanIsFiled'
  BY <1>1 DEF IInv, TypeOK, KeysAreOwn, UnusedKeys, PlanIsFiled, Busy, KeyOf, filed
<1>4. Progress'
  <2> SUFFICES ASSUME NEW u \in Tabs, Busy(u)
               PROVE  Fits(u)'
    BY <1>1 DEF Progress, Busy
  <2>1. Fits(u) /\ KeyOf(u) \in Keys
    BY Own DEF IInv, Progress, At, Busy
  <2>2. tab[u].pc = "write" /\ KeyOf(u) = k => k \in replaced'
    BY DEF IInv, KeysAreOwn, PutOther, Unchecked, Busy, KeyOf
  <2> QED BY <1>1, <2>1, <2>2 DEF Fits, Filed, KeyOf, filed
<1>5. FiledWasChecked'
  BY <1>1, <1>2 DEF IInv, FiledWasChecked, Filed, filed
<1>6. SentIsFiled'
  BY <1>1 DEF IInv, SentIsFiled, filed
<1> QED BY <1>3, <1>4, <1>5, <1>6 DEF IInv

LEMMA ExpireKeeps ==
  ASSUME IInv, NEW k \in Keys, Expire(k)
  PROVE  IInv'
<1>1. TypeOK' /\ KeysAreOwn' /\ UnusedKeys' /\ PlanIsFiled'
  BY DEF IInv, TypeOK, KeysAreOwn, UnusedKeys, PlanIsFiled, Expire, Busy, KeyOf, filed
<1>2. Progress'
  BY DEF IInv, Progress, Expire, Busy, KeyOf, Fits, Filed, filed
<1>3. FiledWasChecked' /\ SentIsFiled'
  BY DEF IInv, FiledWasChecked, SentIsFiled, Expire, Filed, filed
<1> QED BY <1>1, <1>2, <1>3 DEF IInv

\* The object of what is filed was looked at, or replaced since.
LEMMA ConfirmKeeps ==
  ASSUME IInv, NEW t \in Tabs, Confirm(t)
  PROVE  IInv'
<1> DEFINE k == KeyOf(t)
<1>1. /\ At(t, "write") /\ Goes(t, "answer")
      /\ FileDoc(k) \/ FilePlanta(k)
      /\ UNCHANGED <<kind, valid, objects, replaced, sent, audited>>
  BY DEF Confirm, KeyOf
<1>2. /\ k \in Keys /\ kind[k] # Null /\ Busy(t)
      /\ objects[k] = "good" \/ k \in replaced
  BY <1>1, Own, NullIsNothing DEF IInv, Progress, Fits, Kinds
<1>3. /\ tab' \in [Tabs -> Upload \cup {Null}]
      /\ tab'[t] # Null /\ tab'[t].key = k /\ tab'[t].pc = "answer"
      /\ \A u \in Tabs : u # t => tab'[u] = tab[u]
  BY <1>1, GoesStep DEF IInv
<1>4. /\ docs' \in [Keys -> {"none", "live", "deleted"}]
      /\ \A j \in Keys \ {k} : docs'[j] = docs[j] /\ (planta' = j => planta = j)
      /\ \A j \in Keys : docs[j] # "none" => docs'[j] # "none"
      /\ plantas \subseteq plantas' /\ plantas' \subseteq plantas \cup {k}
      /\ planta' \in {planta, k} /\ (plantas' # plantas => planta' = k)
      /\ (kind[k] = "doc" /\ docs'[k] # "none") \/ k \in plantas'
  <2>1. CASE FileDoc(k)
    BY <1>2, <2>1 DEF IInv, TypeOK, FileDoc
  <2>2. CASE FilePlanta(k)
    BY <1>2, <2>2 DEF IInv, TypeOK, FilePlanta
  <2> QED BY <1>1, <2>1, <2>2
<1>5. k # Null
  BY <1>2, UploadsAssumption
<1>6. Fits(t)'
  BY <1>1, <1>3, <1>4 DEF Fits, KeyOf
<1>7. KeysAreOwn' /\ Progress'
  BY <1>1, <1>2, <1>3, <1>4, <1>6, UploadMoves DEF TabMoves, SameBut
<1>8. TypeOK' /\ UnusedKeys' /\ PlanIsFiled'
  BY <1>1, <1>2, <1>3, <1>4, <1>5 DEF IInv, TypeOK, UnusedKeys, PlanIsFiled
<1>9. FiledWasChecked'
  BY <1>1, <1>2, <1>4 DEF IInv, FiledWasChecked, Filed
<1>10. SentIsFiled'
  BY <1>1, <1>4, <1>5 DEF IInv, SentIsFiled, TypeOK
<1> QED BY <1>7, <1>8, <1>9, <1>10 DEF IInv

\* What a tab is told of is filed.
LEMMA HearKeeps ==
  ASSUME IInv, NEW t \in Tabs, HearAnswer(t)
  PROVE  IInv'
<1>1. /\ At(t, "answer") /\ Drop(t) /\ sent' = sent \cup {KeyOf(t)}
      /\ UNCHANGED <<kind, valid, objects, replaced, filed, audited>>
  BY DEF HearAnswer, Told, KeyOf
<1>2. /\ KeyOf(t) \in Keys /\ kind[KeyOf(t)] # Null /\ Busy(t) /\ Fits(t)
      /\ tab[t].pc = "answer"
  BY <1>1, Own, NullIsNothing DEF IInv, Progress, Kinds
<1>3. TabMoves(t) /\ ~Busy(t)'
  BY <1>1, DropStep DEF IInv, TabMoves, Busy
<1>4. KeysAreOwn' /\ Progress'
  BY <1>1, <1>2, <1>3, UploadMoves DEF SameBut, filed
<1>5. TypeOK' /\ UnusedKeys' /\ PlanIsFiled'
  BY <1>1, <1>2, <1>3 DEF IInv, TypeOK, UnusedKeys, PlanIsFiled, TabMoves, filed
<1>6. SentIsFiled'
  BY <1>1, <1>2 DEF IInv, SentIsFiled, PlanIsFiled, Fits, filed
<1>7. FiledWasChecked'
  BY <1>1 DEF IInv, FiledWasChecked, Filed, filed
<1> QED BY <1>4, <1>5, <1>6, <1>7 DEF IInv

LEMMA DownloadKeeps ==
  ASSUME IInv, NEW k \in Keys, MintDownload(k)
  PROVE  IInv'
<1>1. audited[k] \in Nat /\ audited[k] < MaxDownloads /\ MaxDownloads \in Nat
  BY UploadsAssumption DEF IInv, TypeOK, MintDownload
<1>2. /\ audited' = [audited EXCEPT ![k] = audited[k] + 1]
      /\ UNCHANGED <<kind, valid, objects, replaced, tab, sent, filed>>
  BY DEF MintDownload
<1>3. audited' \in [Keys -> 0 .. MaxDownloads]
  BY <1>1, <1>2 DEF IInv, TypeOK
<1>4. TypeOK' /\ KeysAreOwn' /\ UnusedKeys' /\ PlanIsFiled'
  BY <1>2, <1>3 DEF IInv, TypeOK, KeysAreOwn, UnusedKeys, PlanIsFiled, Busy, KeyOf, filed
<1>5. Progress'
  BY <1>2 DEF IInv, Progress, Busy, KeyOf, Fits, Filed, filed
<1>6. FiledWasChecked' /\ SentIsFiled'
  BY <1>2, <1>3 DEF IInv, FiledWasChecked, SentIsFiled, Filed, filed
<1> QED BY <1>4, <1>5, <1>6 DEF IInv

LEMMA DeleteKeeps ==
  ASSUME IInv, NEW k \in Keys, DeleteDoc(k)
  PROVE  IInv'
<1>1. /\ docs' \in [Keys -> {"none", "live", "deleted"}]
      /\ \A j \in Keys : /\ docs[j] # "none" <=> docs'[j] # "none"
                         /\ docs'[j] = "live" => docs[j] = "live"
      /\ UNCHANGED <<kind, valid, objects, replaced, tab, sent, planta, plantas, audited>>
  BY DEF IInv, TypeOK, DeleteDoc
<1>2. TypeOK' /\ KeysAreOwn' /\ UnusedKeys' /\ PlanIsFiled'
  BY <1>1 DEF IInv, TypeOK, KeysAreOwn, UnusedKeys, PlanIsFiled, Busy, KeyOf
<1>3. Progress'
  <2> SUFFICES ASSUME NEW u \in Tabs, Busy(u)
               PROVE  Fits(u)'
    BY <1>1 DEF Progress, Busy
  <2>1. Fits(u) /\ KeyOf(u) \in Keys
    BY Own DEF IInv, Progress, At, Busy
  <2> QED BY <1>1, <2>1 DEF Fits, Filed, KeyOf
<1>4. FiledWasChecked' /\ SentIsFiled'
  BY <1>1 DEF IInv, TypeOK, FiledWasChecked, SentIsFiled, Filed
<1> QED BY <1>2, <1>3, <1>4 DEF IInv

-----------------------------------------------------------------------------
(* The theorems *)

LEMMA InitHolds == Init => IInv
<1> SUFFICES ASSUME Init
             PROVE  IInv
  OBVIOUS
<1>1. TypeOK /\ KeysAreOwn /\ UnusedKeys /\ Progress /\ PlanIsFiled
  BY UploadsAssumption
  DEF Init, TypeOK, KeysAreOwn, UnusedKeys, Progress, PlanIsFiled, Busy
<1>2. FiledWasChecked /\ SentIsFiled
  BY UploadsAssumption DEF Init, FiledWasChecked, SentIsFiled, Filed
<1> QED BY <1>1, <1>2 DEF IInv

LEMMA NextHolds == IInv /\ [Next]_vars => IInv'
<1> SUFFICES ASSUME IInv, [Next]_vars
             PROVE  IInv'
  OBVIOUS
<1>1. ASSUME NEW t \in Tabs, NEW k \in Keys, MintDoc(t, k) \/ MintPlanta(t, k)
      PROVE  IInv'
  BY <1>1, MintKeeps DEF MintDoc, MintPlanta, Kinds
<1>2. ASSUME NEW t \in Tabs, Put(t) \/ PutFails(t) \/ Refuse(t)
      PROVE  IInv'
  BY <1>2, PutKeeps
<1>3. ASSUME NEW t \in Tabs, StatObject(t) \/ ConfirmFails(t) \/ LoseAnswer(t)
      PROVE  IInv'
  BY <1>3, StatKeeps
<1>4. ASSUME NEW t \in Tabs, Confirm(t) \/ HearAnswer(t)
      PROVE  IInv'
  BY <1>4, ConfirmKeeps, HearKeeps
<1>5. ASSUME NEW k \in Keys, NEW o \in {"good", "bad"}, PutOther(k, o)
      PROVE  IInv'
  BY <1>5, PutOtherKeeps
<1>6. ASSUME NEW k \in Keys, Expire(k) \/ MintDownload(k) \/ DeleteDoc(k)
      PROVE  IInv'
  BY <1>6, ExpireKeeps, DownloadKeeps, DeleteKeeps
<1>7. CASE UNCHANGED vars
  <2>1. UNCHANGED <<kind, valid, objects, replaced, tab, sent, docs, planta, plantas,
                    audited>>
    BY <1>7 DEF vars, filed
  <2>2. TypeOK' /\ KeysAreOwn' /\ UnusedKeys' /\ Progress' /\ PlanIsFiled'
    BY <2>1 DEF IInv, TypeOK, KeysAreOwn, UnusedKeys, Progress, PlanIsFiled,
                Busy, KeyOf, Fits, Filed
  <2>3. FiledWasChecked' /\ SentIsFiled'
    BY <2>1 DEF IInv, FiledWasChecked, SentIsFiled, Filed
  <2> QED BY <2>2, <2>3 DEF IInv
<1> QED BY <1>1, <1>2, <1>3, <1>4, <1>5, <1>6, <1>7 DEF Next

\* The invariant holds, however many files are sent and from however many tabs.
THEOREM Invariance == Spec => []IInv
  BY InitHolds, NextHolds, PTL DEF Spec

\* A row of a document or of a plan is of an object that was looked at, unless its
\* URL was used again (vendor-docs.ts:227-250, minio-presign.ts:231-262).
THEOREM FiledObjectsWereChecked == Spec => []FiledWasChecked
<1>1. IInv => FiledWasChecked
  BY DEF IInv
<1> QED BY <1>1, Invariance, PTL

\* "Enviado" is never shown of a file that is not filed
\* (vendor-doc-uploader.tsx:96-111, planta-uploader.tsx:96-117).
THEOREM ToldFilesAreFiled == Spec => []SentIsFiled
<1>1. IInv => SentIsFiled
  BY DEF IInv
<1> QED BY <1>1, Invariance, PTL

-----------------------------------------------------------------------------
(* PlantaEditor *)

IsUpdate(t, i, l) == queue[t][i].op = "update" /\ queue[t][i].lot = l

\* What t has asked for was drawn in t, of rows that exist; only the first of its
\* requests may have its answer.
OwnRequests(t) ==
  \A i \in DOMAIN queue[t] :
    LET r == queue[t][i] IN
    /\ r.op = "update" => r.lot \in LotIds /\ lots[r.lot] # None
    /\ r.op = "delete" => r.lot \in LotIds
    /\ r.op = "create" => r.category \in Categories
    /\ r.op # "delete" => r.polygon \in Polygon /\ r.polygon.by = t /\ r.polygon.n <= edits
    /\ i > 1 => r.answer = "sent"

\* A timer runs for what t shows, if t still shows the lot.
OwnTimers(t) ==
  \A l \in LotIds :
    LET p == tabs[t].timer[l] IN
    p # None => /\ p.by = t /\ p.n <= edits /\ lots[l] # None
                /\ tabs[t].lots[l] \in {None, p}

\* A lot that t shows has a row.
ShownExist(t) ==
  /\ \A l \in LotIds : tabs[t].lots[l] # None => lots[l] # None
  /\ tabs[t].open => tabs[t].category \in Categories

\* A lot that t has just created, and not heard of yet, is new to it.
CreatedIsNew(t) ==
  LET r == Head(queue[t]) IN
  queue[t] # <<>> /\ r.op = "create" /\ r.answer = "data" =>
    /\ r.lot \in LotIds /\ lots[r.lot] # None
    /\ tabs[t].lots[r.lot] = None /\ tabs[t].timer[r.lot] = None
    /\ \A i \in DOMAIN queue[t] : ~IsUpdate(t, i, r.lot)

\* The saves of a lot wait in the order of their edits, behind what is saved.
InOrder(t) ==
  \A l \in LotIds :
    LET p == tabs[t].timer[l] IN
    /\ \A i, j \in DOMAIN queue[t] :
         i < j /\ IsUpdate(t, i, l) /\ IsUpdate(t, j, l)
           => queue[t][i].polygon.n <= queue[t][j].polygon.n
    /\ \A i \in DOMAIN queue[t] : IsUpdate(t, i, l) =>
         /\ p # None => queue[t][i].polygon.n <= p.n
         /\ queue[t][i].answer = "sent" /\ lots[l].polygon.by = t
              => lots[l].polygon.n <= queue[t][i].polygon.n
    /\ p # None /\ lots[l].polygon.by = t => lots[l].polygon.n <= p.n

\* As long as a save of a lot waits, what t shows waits, and is the newest.
NewestWaits(t) ==
  \A l \in LotIds :
    LET p == tabs[t].lots[l] IN
    p # None => \A i \in DOMAIN queue[t] : IsUpdate(t, i, l) =>
      Waiting(t, l, p) /\ queue[t][i].polygon.n <= p.n

\* Row l is what t made it, but for what others did.
Arrived(t, l, p) == ~Live(l) \/ lots[l].polygon = p \/ lots[l].polygon.by # t

\* What was answered with data is there.
AnswerIsTrue(t) ==
  LET r == Head(queue[t]) IN
  queue[t] # <<>> /\ r.op # "delete" /\ r.answer = "data" => Arrived(t, r.lot, r.polygon)

Kept(t) ==
  \A l \in LotIds :
    LET p == tabs[t].lots[l] IN
    p # None /\ p.by = t /\ l \notin failed[t] => Waiting(t, l, p) \/ Arrived(t, l, p)

EditorOf(t) ==
  /\ OwnRequests(t) /\ OwnTimers(t) /\ ShownExist(t) /\ CreatedIsNew(t)
  /\ InOrder(t) /\ NewestWaits(t) /\ AnswerIsTrue(t) /\ Kept(t)

\* No row has a polygon of an edit to come.
RowsAreOld == \A l \in LotIds : lots[l] # None => lots[l].polygon.n <= edits

\* While a category is deleted, none of the lots that were seen comes to be in it.
SeenStayOut ==
  deletion # None => \A l \in deletion.seen : lots[l] # None /\ l \notin InCategory(deletion.category)

EditorInv ==
  /\ EditorTypeOK /\ RowsAreOld /\ SeenStayOut
  /\ \A t \in Editors : EditorOf(t)

-----------------------------------------------------------------------------
(* Queues *)

LEMMA Appended ==
  ASSUME NEW S, NEW q \in Seq(S), NEW r \in S
  PROVE  /\ Append(q, r) \in Seq(S)
         /\ DOMAIN Append(q, r) = 1 .. Len(q) + 1
         /\ DOMAIN q = 1 .. Len(q) /\ Len(q) \in Nat
         /\ \A i \in DOMAIN q : Append(q, r)[i] = q[i]
         /\ Append(q, r)[Len(q) + 1] = r
         /\ Append(q, r) # <<>>
         /\ q = <<>> => Head(Append(q, r)) = r
         /\ q # <<>> => Head(Append(q, r)) = Head(q)
<1>1. /\ Append(q, r) \in Seq(S) /\ Len(Append(q, r)) = Len(q) + 1 /\ Len(q) \in Nat
      /\ \A i \in 1 .. Len(q) : Append(q, r)[i] = q[i]
      /\ Append(q, r)[Len(q) + 1] = r
  OBVIOUS
<1>2. DOMAIN Append(q, r) = 1 .. Len(q) + 1 /\ DOMAIN q = 1 .. Len(q)
  BY <1>1
<1>3. Append(q, r) # <<>> /\ Head(Append(q, r)) = Append(q, r)[1]
  BY <1>1
<1>4. q = <<>> => Append(q, r)[1] = r
  BY <1>1
<1>5. q # <<>> => Len(q) > 0 /\ Head(q) = q[1]
  OBVIOUS
<1> QED
  BY <1>1, <1>2, <1>3, <1>4, <1>5

LEMMA First ==
  ASSUME NEW S, NEW q \in Seq(S), q # <<>>
  PROVE  /\ DOMAIN q = 1 .. Len(q) /\ Len(q) \in Nat \ {0}
         /\ 1 \in DOMAIN q
         /\ Head(q) = q[1] /\ Head(q) \in S
         /\ \A i \in DOMAIN q : q[i] \in S
OBVIOUS

LEMMA Replaced ==
  ASSUME NEW S, NEW q \in Seq(S), q # <<>>, NEW r \in S
  PROVE  /\ <<r>> \o Tail(q) \in Seq(S)
         /\ DOMAIN (<<r>> \o Tail(q)) = DOMAIN q
         /\ (<<r>> \o Tail(q))[1] = r
         /\ \A i \in DOMAIN q : i # 1 => (<<r>> \o Tail(q))[i] = q[i]
         /\ <<r>> \o Tail(q) # <<>>
         /\ Head(<<r>> \o Tail(q)) = r
<1>1. /\ Tail(q) \in Seq(S) /\ Len(Tail(q)) = Len(q) - 1 /\ Len(q) \in Nat \ {0}
      /\ \A i \in 1 .. Len(q) - 1 : Tail(q)[i] = q[i + 1]
  OBVIOUS
<1>2. /\ <<r>> \in Seq(S) /\ Len(<<r>>) = 1 /\ <<r>>[1] = r
  OBVIOUS
<1> QED
  BY <1>1, <1>2

LEMMA Dropped ==
  ASSUME NEW S, NEW q \in Seq(S), q # <<>>
  PROVE  /\ Tail(q) \in Seq(S)
         /\ \A i \in DOMAIN Tail(q) : i \in Nat /\ i >= 1 /\ i + 1 \in DOMAIN q /\ Tail(q)[i] = q[i + 1]
         /\ \A i \in DOMAIN q : i > 1 => i - 1 \in DOMAIN Tail(q) /\ q[i] = Tail(q)[i - 1]
         /\ Tail(q) # <<>> => Head(Tail(q)) = q[2] /\ 2 \in DOMAIN q
<1>1. /\ Tail(q) \in Seq(S) /\ Len(Tail(q)) = Len(q) - 1 /\ Len(q) \in Nat \ {0}
      /\ \A i \in 1 .. Len(q) - 1 : Tail(q)[i] = q[i + 1]
      /\ DOMAIN Tail(q) = 1 .. Len(q) - 1 /\ DOMAIN q = 1 .. Len(q)
  OBVIOUS
<1>2. Tail(q) # <<>> => Len(Tail(q)) > 0 /\ Head(Tail(q)) = Tail(q)[1]
  BY <1>1
<1>3. \A i \in DOMAIN q : i > 1 => i - 1 \in DOMAIN Tail(q) /\ q[i] = Tail(q)[i - 1]
  <2> SUFFICES ASSUME NEW i \in 1 .. Len(q), i > 1
               PROVE  i - 1 \in 1 .. Len(q) - 1 /\ q[i] = Tail(q)[i - 1]
    BY <1>1
  <2>1. i - 1 \in 1 .. Len(q) - 1 /\ (i - 1) + 1 = i
    BY <1>1
  <2> QED
    BY <1>1, <2>1
<1>4. \A i \in DOMAIN Tail(q) : i \in Nat /\ i >= 1 /\ i + 1 \in DOMAIN q /\ Tail(q)[i] = q[i + 1]
  BY <1>1
<1>5. Tail(q) # <<>> => Head(Tail(q)) = q[2] /\ 2 \in DOMAIN q
  BY <1>1, <1>2
<1> QED
  BY <1>1, <1>3, <1>4, <1>5

-----------------------------------------------------------------------------
(* Types *)

LEMMA TabParts ==
  ASSUME EditorTypeOK, NEW t \in Editors
  PROVE  /\ tabs[t].lots \in [LotIds -> Polygon \cup {None}]
         /\ tabs[t].timer \in [LotIds -> Polygon \cup {None}]
         /\ tabs[t].open \in BOOLEAN
         /\ tabs[t].points \in 0 .. MaxPoints
         /\ tabs[t].selected \in LotIds \cup {None}
         /\ tabs[t].category \in Categories \cup {None}
         /\ queue[t] \in Seq(Request)
         /\ DOMAIN queue[t] = 1 .. Len(queue[t]) /\ Len(queue[t]) \in Nat
         /\ \A i \in DOMAIN queue[t] : queue[t][i] \in Request
         /\ failed[t] \subseteq LotIds
<1>1. tabs[t] \in Tab /\ queue[t] \in Seq(Request) /\ failed[t] \subseteq LotIds
  BY DEF EditorTypeOK
<1>2. /\ tabs[t].lots \in [LotIds -> Polygon \cup {None}]
      /\ tabs[t].timer \in [LotIds -> Polygon \cup {None}]
      /\ tabs[t].open \in BOOLEAN
      /\ tabs[t].points \in 0 .. MaxPoints
      /\ tabs[t].selected \in LotIds \cup {None}
      /\ tabs[t].category \in Categories \cup {None}
  BY <1>1 DEF Tab
<1> QED
  BY <1>1, <1>2

LEMMA PolygonParts ==
  ASSUME NEW p \in Polygon
  PROVE  p # None /\ p.n \in Nat /\ p.n \in 0 .. MaxEdits /\ p.by \in Editors \cup {None}
BY NoneIsNothing, EditorAssumption DEF Polygon

LEMMA SamePolygon ==
  ASSUME NEW p \in Polygon, NEW q \in Polygon, p.by = q.by, p.n = q.n
  PROVE  p = q
BY DEF Polygon

LEMMA RowParts ==
  ASSUME EditorTypeOK, NEW l \in LotIds
  PROVE  /\ lots[l] \in Lot \cup {None}
         /\ lots[l] # None => /\ lots[l] \in Lot /\ lots[l].polygon \in Polygon
                              /\ lots[l].category \in Categories /\ lots[l].live \in BOOLEAN
BY DEF EditorTypeOK, Lot

LEMMA RequestParts ==
  ASSUME NEW r \in Request
  PROVE  /\ r.op \in {"create", "update", "delete"}
         /\ r.lot \in LotIds \cup {None}
         /\ r.polygon \in Polygon \cup {None}
         /\ r.category \in Categories \cup {None}
         /\ r.answer \in {"sent", "data", "serverError"}
BY DEF Request

-----------------------------------------------------------------------------
(* Steps that a tab has no part in *)

\* What a step may do to the rows as far as tab u goes: nothing of u's comes
\* back or is undone.
RowsFor(u) ==
  \A l \in LotIds :
    /\ lots[l] # None => lots'[l] # None
    /\ lots[l] # None => \/ lots'[l].polygon = lots[l].polygon
                         \/ lots'[l].polygon.by # u
    /\ lots[l] # None /\ ~lots[l].live => ~lots'[l].live
    /\ lots[l] = None /\ lots'[l] # None => lots'[l].polygon.by # u

SameTab(u) ==
  /\ tabs'[u].lots = tabs[u].lots /\ tabs'[u].timer = tabs[u].timer
  /\ tabs'[u].open = tabs[u].open /\ tabs'[u].category = tabs[u].category

LEMMA Undisturbed ==
  ASSUME NEW u \in Editors, EditorTypeOK, EditorTypeOK', EditorOf(u),
         SameTab(u), queue'[u] = queue[u], failed'[u] = failed[u],
         edits <= edits', RowsFor(u)
  PROVE  EditorOf(u)'
<1> DEFINE q == queue[u]
<1>t. EditorTypeOK /\ EditorTypeOK' /\ edits \in Nat /\ edits' \in Nat
  BY EditorAssumption DEF EditorTypeOK
<1>1. OwnRequests(u)'
  <2>1. \A i \in DOMAIN queue[u] : queue[u][i] \in Request
    BY TabParts, <1>t
  <2>2. \A i \in DOMAIN queue[u] : queue[u][i].polygon \in Polygon => queue[u][i].polygon.n \in Nat
    BY PolygonParts
  <2> QED
    BY <2>1, <2>2, <1>t DEF EditorOf, OwnRequests, RowsFor
<1>2. OwnTimers(u)'
  <2>1. \A l \in LotIds : tabs[u].timer[l] # None => tabs[u].timer[l].n \in Nat
    BY TabParts, PolygonParts, <1>t
  <2> QED
    BY <2>1, <1>t DEF EditorOf, OwnTimers, RowsFor, SameTab
<1>3. ShownExist(u)'
  BY DEF EditorOf, ShownExist, RowsFor, SameTab
<1>4. CreatedIsNew(u)'
  BY DEF EditorOf, CreatedIsNew, RowsFor, SameTab, IsUpdate
<1>5. InOrder(u)'
  <2>1. ASSUME NEW l \in LotIds, lots[l] # None, lots'[l].polygon.by = u
        PROVE  lots[l].polygon.by = u /\ lots'[l].polygon = lots[l].polygon
    BY <2>1 DEF RowsFor
  <2>2. ASSUME NEW l \in LotIds, NEW i \in DOMAIN queue[u], IsUpdate(u, i, l)
        PROVE  lots[l] # None
    BY <2>2 DEF EditorOf, OwnRequests, IsUpdate
  <2>3. ASSUME NEW l \in LotIds, tabs[u].timer[l] # None
        PROVE  lots[l] # None
    BY <2>3 DEF EditorOf, OwnTimers
  <2> QED
    BY <2>1, <2>2, <2>3 DEF EditorOf, InOrder, IsUpdate, SameTab
<1>6. NewestWaits(u)'
  BY DEF EditorOf, NewestWaits, SameTab, IsUpdate, Waiting
<1>a. ASSUME NEW l \in LotIds, NEW p, lots[l] # None, Arrived(u, l, p)
      PROVE  ~(lots'[l] # None /\ lots'[l].live) \/ lots'[l].polygon = p \/ lots'[l].polygon.by # u
  BY <1>a DEF Arrived, Live, RowsFor
<1>7. AnswerIsTrue(u)'
  <2> SUFFICES ASSUME q # <<>>, Head(q).op # "delete", Head(q).answer = "data"
               PROVE  Arrived(u, Head(q).lot, Head(q).polygon)'
    BY DEF AnswerIsTrue
  <2>1. Head(q).lot \in LotIds /\ lots[Head(q).lot] # None
    <3>1. Head(q) = q[1] /\ 1 \in DOMAIN q /\ q[1] \in Request
      BY First, TabParts, <1>t
    <3>2. Head(q).op \in {"create", "update"}
      BY <3>1, RequestParts
    <3> QED
      BY <3>1, <3>2 DEF EditorOf, OwnRequests, CreatedIsNew
  <2>2. Arrived(u, Head(q).lot, Head(q).polygon)
    BY DEF EditorOf, AnswerIsTrue
  <2> QED
    BY <2>1, <2>2, <1>a DEF Arrived, Live
<1>8. Kept(u)'
  <2> SUFFICES ASSUME NEW l \in LotIds, tabs[u].lots[l] # None, tabs[u].lots[l].by = u,
                      l \notin failed[u]
               PROVE  (Waiting(u, l, tabs[u].lots[l]) \/ Arrived(u, l, tabs[u].lots[l]))'
    BY DEF Kept, SameTab
  <2>1. lots[l] # None
    BY DEF EditorOf, ShownExist
  <2>2. CASE Waiting(u, l, tabs[u].lots[l])
    BY <2>2 DEF Waiting, SameTab
  <2>3. CASE Arrived(u, l, tabs[u].lots[l])
    BY <2>1, <2>3, <1>a DEF Arrived, Live, SameTab
  <2> QED
    BY <2>2, <2>3 DEF EditorOf, Kept
<1> QED
  BY <1>1, <1>2, <1>3, <1>4, <1>5, <1>6, <1>7, <1>8 DEF EditorOf

-----------------------------------------------------------------------------
(* Steps of the tab itself: it asks *)

\* A request that is no save is added.
LEMMA Asking ==
  ASSUME NEW t \in Editors, EditorTypeOK, EditorTypeOK', EditorOf(t),
         NEW r \in Request, r.op # "update", r.answer = "sent",
         r.op = "create" => /\ r.category \in Categories /\ r.polygon \in Polygon
                            /\ r.polygon.by = t /\ r.polygon.n <= edits',
         r.op = "delete" => r.lot \in LotIds,
         queue'[t] = Append(queue[t], r),
         SameTab(t), failed'[t] = failed[t], lots' = lots, edits <= edits'
  PROVE  EditorOf(t)'
<1> DEFINE q == queue[t]
           n == Len(q) + 1
<1>t. EditorTypeOK /\ EditorTypeOK' /\ edits \in Nat /\ edits' \in Nat
  BY EditorAssumption DEF EditorTypeOK
<1>q. /\ DOMAIN queue'[t] = 1 .. n /\ DOMAIN q = 1 .. Len(q) /\ Len(q) \in Nat
      /\ \A i \in DOMAIN q : queue'[t][i] = q[i] /\ q[i] \in Request
      /\ queue'[t][n] = r
      /\ queue'[t] # <<>>
      /\ q = <<>> => Head(queue'[t]) = r
      /\ q # <<>> => Head(queue'[t]) = Head(q)
  BY Appended, TabParts, <1>t
<1>i. \A i \in DOMAIN queue'[t] : i \in DOMAIN q \/ i = n
  BY <1>q
<1>d. \A i \in DOMAIN q : i \in DOMAIN queue'[t]
  BY <1>q
<1>u. \A i \in DOMAIN queue'[t], l \in LotIds :
        queue'[t][i].op = "update" /\ queue'[t][i].lot = l
          => i \in DOMAIN q /\ q[i].op = "update" /\ q[i].lot = l /\ queue'[t][i] = q[i]
  BY <1>i, <1>q
<1>w. ASSUME NEW l \in LotIds, NEW p, Waiting(t, l, p)
      PROVE  Waiting(t, l, p)'
  BY <1>w, <1>q, <1>d DEF Waiting, SameTab
<1>1. OwnRequests(t)'
  <2>2. \A i \in DOMAIN q : q[i].polygon \in Polygon => q[i].polygon.n \in Nat
    BY PolygonParts
  <2>3. ASSUME NEW i \in DOMAIN q
        PROVE  /\ q[i].op = "update" => q[i].lot \in LotIds /\ lots'[q[i].lot] # None
               /\ q[i].op = "delete" => q[i].lot \in LotIds
               /\ q[i].op = "create" => q[i].category \in Categories
               /\ q[i].op # "delete" => q[i].polygon \in Polygon /\ q[i].polygon.by = t
                                        /\ q[i].polygon.n <= edits'
               /\ i > 1 => q[i].answer = "sent"
    BY <2>2, <2>3, <1>t DEF EditorOf, OwnRequests
  <2>4. r.op # "update" /\ (r.op # "delete" => r.op = "create")
    BY RequestParts
  <2> QED
    BY <2>3, <2>4, <1>q, <1>i DEF OwnRequests
<1>2. OwnTimers(t)'
  <2>1. \A l \in LotIds : tabs[t].timer[l] # None => tabs[t].timer[l].n \in Nat
    BY TabParts, PolygonParts, <1>t
  <2> QED
    BY <2>1, <1>t DEF EditorOf, OwnTimers, SameTab
<1>3. ShownExist(t)'
  BY DEF EditorOf, ShownExist, SameTab
<1>4. CreatedIsNew(t)'
  BY <1>q, <1>u DEF EditorOf, CreatedIsNew, SameTab, IsUpdate
<1>5. InOrder(t)'
  BY <1>u DEF EditorOf, InOrder, IsUpdate, SameTab
<1>6. NewestWaits(t)'
  BY <1>u, <1>w DEF EditorOf, NewestWaits, SameTab, IsUpdate
<1>7. AnswerIsTrue(t)'
  BY <1>q DEF EditorOf, AnswerIsTrue, Arrived, Live
<1>8. Kept(t)'
  BY <1>w DEF EditorOf, Kept, SameTab, Arrived, Live
<1> QED
  BY <1>1, <1>2, <1>3, <1>4, <1>5, <1>6, <1>7, <1>8 DEF EditorOf

\* The timer of a lot fires.
LEMMA Firing ==
  ASSUME NEW t \in Editors, EditorTypeOK, EditorTypeOK', EditorOf(t),
         NEW k \in LotIds, TimerFires(t, k)
  PROVE  EditorOf(t)'
<1> DEFINE q == queue[t]
           n == Len(q) + 1
           s == tabs[t].timer[k]
           r == Asks("update", k, s, None)
<1>t. EditorTypeOK /\ EditorTypeOK' /\ edits \in Nat /\ edits' = edits
  BY EditorAssumption DEF EditorTypeOK, TimerFires
<1>s. /\ s # None /\ s \in Polygon /\ s.by = t /\ s.n <= edits /\ s.n \in Nat
      /\ lots[k] # None /\ tabs[t].lots[k] \in {None, s}
  BY TabParts, PolygonParts, <1>t DEF TimerFires, EditorOf, OwnTimers
<1>r. r \in Request /\ r.op = "update" /\ r.lot = k /\ r.polygon = s /\ r.answer = "sent"
  BY <1>s DEF Asks, Request
<1>x. /\ queue'[t] = Append(q, r)
      /\ tabs'[t] = [tabs[t] EXCEPT !.timer[k] = None]
      /\ failed' = failed /\ lots' = lots
  BY DEF TimerFires, Send, Enqueue, EditorTypeOK, serverVars
<1>y. /\ tabs'[t].lots = tabs[t].lots /\ tabs'[t].open = tabs[t].open
      /\ tabs'[t].category = tabs[t].category
      /\ tabs'[t].timer[k] = None
      /\ \A l \in LotIds : l # k => tabs'[t].timer[l] = tabs[t].timer[l]
  BY <1>x, <1>t DEF EditorTypeOK, Tab
<1>q. /\ DOMAIN queue'[t] = 1 .. n /\ DOMAIN q = 1 .. Len(q) /\ Len(q) \in Nat
      /\ \A i \in DOMAIN q : queue'[t][i] = q[i] /\ q[i] \in Request
      /\ queue'[t][n] = r
      /\ queue'[t] # <<>>
      /\ q = <<>> => Head(queue'[t]) = r
      /\ q # <<>> => Head(queue'[t]) = Head(q)
  BY Appended, TabParts, <1>t, <1>x, <1>r
<1>i. \A i \in DOMAIN queue'[t] : i \in DOMAIN q \/ i = n
  BY <1>q
<1>d. (\A i \in DOMAIN q : i \in DOMAIN queue'[t]) /\ n \in DOMAIN queue'[t]
  BY <1>q
<1>u. \A i \in DOMAIN queue'[t], l \in LotIds :
        queue'[t][i].op = "update" /\ queue'[t][i].lot = l =>
          \/ i = n /\ l = k /\ queue'[t][i] = r
          \/ i \in DOMAIN q /\ q[i].op = "update" /\ q[i].lot = l /\ queue'[t][i] = q[i]
  BY <1>i, <1>q, <1>r
<1>w. ASSUME NEW l \in LotIds, NEW p, p # None, Waiting(t, l, p)
      PROVE  Waiting(t, l, p)'
  <2>1. CASE tabs[t].timer[l] = p
    BY <2>1, <1>w, <1>d, <1>q, <1>y, <1>r DEF Waiting
  <2>2. CASE \E i \in DOMAIN q : q[i].op = "update" /\ q[i].lot = l /\ q[i].polygon = p
    BY <2>2, <1>d, <1>q DEF Waiting
  <2> QED
    BY <1>w, <2>1, <2>2 DEF Waiting
<1>1. OwnRequests(t)'
  BY <1>q, <1>i, <1>r, <1>s, <1>t, <1>x DEF EditorOf, OwnRequests
<1>2. OwnTimers(t)'
  BY <1>t, <1>x, <1>y DEF EditorOf, OwnTimers
<1>3. ShownExist(t)'
  BY <1>x, <1>y DEF EditorOf, ShownExist
<1>4. CreatedIsNew(t)'
  <2> SUFFICES ASSUME Head(queue'[t]).op = "create", Head(queue'[t]).answer = "data"
               PROVE  LET h == Head(queue'[t]) IN
                      /\ h.lot \in LotIds /\ lots'[h.lot] # None
                      /\ tabs'[t].lots[h.lot] = None /\ tabs'[t].timer[h.lot] = None
                      /\ \A i \in DOMAIN queue'[t] :
                           ~(queue'[t][i].op = "update" /\ queue'[t][i].lot = h.lot)
    BY DEF CreatedIsNew, IsUpdate
  <2>1. q # <<>> /\ Head(queue'[t]) = Head(q)
    BY <1>q, <1>r
  <2>2. /\ Head(q).lot \in LotIds /\ lots[Head(q).lot] # None
        /\ tabs[t].lots[Head(q).lot] = None /\ tabs[t].timer[Head(q).lot] = None
        /\ \A i \in DOMAIN q : ~IsUpdate(t, i, Head(q).lot)
    BY <2>1 DEF EditorOf, CreatedIsNew
  <2>3. Head(q).lot # k
    BY <2>2, <1>s
  <2> QED
    BY <2>1, <2>2, <2>3, <1>x, <1>y, <1>u DEF IsUpdate
<1>5. InOrder(t)'
  <2>1. ASSUME NEW i \in DOMAIN q, q[i].op = "update", q[i].lot = k
        PROVE  q[i].polygon.n <= s.n
    BY <2>1, <1>s DEF EditorOf, InOrder, IsUpdate
  <2>2. \A l \in LotIds : \A i, j \in DOMAIN queue'[t] :
          i < j /\ IsUpdate(t, i, l)' /\ IsUpdate(t, j, l)'
            => queue'[t][i].polygon.n <= queue'[t][j].polygon.n
    <3> SUFFICES ASSUME NEW l \in LotIds, NEW i \in DOMAIN queue'[t], NEW j \in DOMAIN queue'[t],
                        i < j, IsUpdate(t, i, l)', IsUpdate(t, j, l)'
                 PROVE  queue'[t][i].polygon.n <= queue'[t][j].polygon.n
      OBVIOUS
    <3>1. i \in DOMAIN q
      BY <1>i, <1>q
    <3>2. CASE j = n
      BY <3>1, <3>2, <1>u, <1>q, <1>r, <2>1 DEF IsUpdate
    <3>3. CASE j \in DOMAIN q
      BY <3>1, <3>3, <1>q DEF IsUpdate, EditorOf, InOrder
    <3> QED
      BY <3>2, <3>3, <1>i
  <2>3. \A l \in LotIds : \A i \in DOMAIN queue'[t] : IsUpdate(t, i, l)' =>
          /\ tabs'[t].timer[l] # None => queue'[t][i].polygon.n <= tabs'[t].timer[l].n
          /\ queue'[t][i].answer = "sent" /\ lots'[l].polygon.by = t
              => lots'[l].polygon.n <= queue'[t][i].polygon.n
    <3> SUFFICES ASSUME NEW l \in LotIds, NEW i \in DOMAIN queue'[t], IsUpdate(t, i, l)'
                 PROVE  /\ tabs'[t].timer[l] # None => queue'[t][i].polygon.n <= tabs'[t].timer[l].n
                        /\ queue'[t][i].answer = "sent" /\ lots'[l].polygon.by = t
                             => lots'[l].polygon.n <= queue'[t][i].polygon.n
      OBVIOUS
    <3>1. CASE i = n
      BY <3>1, <1>u, <1>q, <1>r, <1>s, <1>x, <1>y DEF IsUpdate, EditorOf, InOrder
    <3>2. CASE i \in DOMAIN q
      BY <3>2, <1>q, <1>x, <1>y DEF IsUpdate, EditorOf, InOrder
    <3> QED
      BY <3>1, <3>2, <1>i
  <2>4. \A l \in LotIds : tabs'[t].timer[l] # None /\ lots'[l].polygon.by = t
          => lots'[l].polygon.n <= tabs'[t].timer[l].n
    BY <1>x, <1>y DEF EditorOf, InOrder
  <2> QED
    BY <2>2, <2>3, <2>4 DEF InOrder
<1>6. NewestWaits(t)'
  <2> SUFFICES ASSUME NEW l \in LotIds, tabs'[t].lots[l] # None,
                      NEW i \in DOMAIN queue'[t], IsUpdate(t, i, l)'
               PROVE  /\ Waiting(t, l, tabs[t].lots[l])'
                      /\ queue'[t][i].polygon.n <= tabs[t].lots[l].n
    BY <1>y DEF NewestWaits, Waiting
  <2>1. CASE l = k
    <3>1. tabs[t].lots[k] = s /\ Waiting(t, k, s)
      BY <1>s, <1>y, <2>1 DEF Waiting
    <3>2. queue'[t][i].polygon.n <= s.n
      BY <1>u, <1>r, <1>s, <2>1 DEF EditorOf, InOrder, IsUpdate
    <3> QED
      BY <3>1, <3>2, <2>1, <1>w, <1>s, <1>y
  <2>2. CASE l # k
    <3>1. i \in DOMAIN q /\ IsUpdate(t, i, l) /\ queue'[t][i] = q[i]
      BY <1>u, <2>2 DEF IsUpdate
    <3>2. Waiting(t, l, tabs[t].lots[l]) /\ q[i].polygon.n <= tabs[t].lots[l].n
      BY <3>1, <1>y DEF EditorOf, NewestWaits
    <3> QED
      BY <3>1, <3>2, <1>w, <1>y
  <2> QED
    BY <2>1, <2>2
<1>7. AnswerIsTrue(t)'
  BY <1>q, <1>r, <1>x DEF EditorOf, AnswerIsTrue, Arrived, Live
<1>8. Kept(t)'
  <2> SUFFICES ASSUME NEW l \in LotIds, NEW p, p = tabs[t].lots[l], p # None, p.by = t,
                      l \notin failed[t]
               PROVE  Waiting(t, l, p)' \/ Arrived(t, l, p)'
    BY <1>x, <1>y DEF Kept, Waiting, Arrived, Live
  <2> QED
    BY <1>w, <1>x DEF EditorOf, Kept, Arrived, Live
<1> QED
  BY <1>1, <1>2, <1>3, <1>4, <1>5, <1>6, <1>7, <1>8 DEF EditorOf

-----------------------------------------------------------------------------
(* Steps of the tab itself: the page and the drag *)

LEMMA Opening ==
  ASSUME NEW t \in Editors, EditorTypeOK, EditorTypeOK', Open(t)
  PROVE  EditorOf(t)'
<1>1. PICK c \in Categories :
        tabs' = [tabs EXCEPT ![t] =
          [Closed EXCEPT !.open = TRUE, !.category = c,
                         !.lots = [l \in LotIds |-> IF Live(l) THEN lots[l].polygon ELSE None]]]
  BY DEF Open
<1>2. /\ tabs'[t].category = c
      /\ tabs'[t].lots = [l \in LotIds |-> IF Live(l) THEN lots[l].polygon ELSE None]
      /\ tabs'[t].timer = Nowhere
  BY <1>1 DEF EditorTypeOK, Closed
<1>3. queue'[t] = <<>> /\ lots' = lots /\ DOMAIN queue'[t] = {}
  BY DEF Open, serverVars
<1>4. \A l \in LotIds : tabs'[t].timer[l] = None
  BY <1>2 DEF Nowhere
<1>5. \A l \in LotIds : tabs'[t].lots[l] # None => Live(l) /\ tabs'[t].lots[l] = lots[l].polygon
  BY <1>2
<1> QED
  BY <1>2, <1>3, <1>4, <1>5
     DEF EditorOf, OwnRequests, OwnTimers, ShownExist, CreatedIsNew, InOrder, NewestWaits,
         AnswerIsTrue, Kept, Arrived, Live

LEMMA Closing ==
  ASSUME NEW t \in Editors, EditorTypeOK, EditorTypeOK', EditorOf(t), Close(t)
  PROVE  EditorOf(t)'
<1>1. tabs'[t] = Closed /\ lots' = lots /\ queue' = queue /\ edits' = edits /\ failed' = failed
  BY DEF Close, EditorTypeOK, serverVars
<1>2. /\ ~tabs'[t].open
      /\ \A l \in LotIds : tabs'[t].lots[l] = None /\ tabs'[t].timer[l] = None
  BY <1>1 DEF Closed, Nowhere
<1>3. OwnRequests(t)' /\ AnswerIsTrue(t)' /\ CreatedIsNew(t)'
  BY <1>1, <1>2 DEF EditorOf, OwnRequests, AnswerIsTrue, CreatedIsNew, Arrived, Live, IsUpdate
<1>4. OwnTimers(t)' /\ ShownExist(t)' /\ NewestWaits(t)' /\ Kept(t)'
  BY <1>2 DEF OwnTimers, ShownExist, NewestWaits, Kept
<1>5. InOrder(t)'
  BY <1>1, <1>2 DEF EditorOf, InOrder, IsUpdate
<1> QED
  BY <1>3, <1>4, <1>5 DEF EditorOf

LEMMA Dragging ==
  ASSUME NEW t \in Editors, EditorTypeOK, EditorTypeOK', RowsAreOld, EditorOf(t),
         NEW k \in LotIds, Drag(t, k)
  PROVE  EditorOf(t)'
<1> DEFINE s == NextPolygon(t)
<1>t. EditorTypeOK /\ EditorTypeOK' /\ edits \in Nat /\ edits' = edits + 1 /\ edits < MaxEdits
  BY EditorAssumption DEF EditorTypeOK, Drag, CountEdit
<1>s. s \in Polygon /\ s # None /\ s.by = t /\ s.n = edits'
  BY <1>t, EditorAssumption, PolygonParts DEF NextPolygon, Polygon
<1>x. /\ queue' = queue /\ lots' = lots /\ tabs[t].lots[k] # None
      /\ failed'[t] = failed[t] \ {k}
      /\ tabs'[t] = ScheduleSave([tabs[t] EXCEPT !.lots[k] = s], k, s)
  BY DEF Drag, EditorTypeOK, serverVars
<1>y. /\ tabs'[t].open = tabs[t].open /\ tabs'[t].category = tabs[t].category
      /\ tabs'[t].lots[k] = s /\ tabs'[t].timer[k] = s
      /\ \A l \in LotIds : l # k => /\ tabs'[t].lots[l] = tabs[t].lots[l]
                                    /\ tabs'[t].timer[l] = tabs[t].timer[l]
  BY <1>x, <1>t DEF EditorTypeOK, Tab, ScheduleSave
<1>k. lots[k] # None
  BY <1>x DEF EditorOf, ShownExist
<1>n. \A p \in Polygon : p.n \in Nat
  BY PolygonParts
<1>1. OwnRequests(t)'
  BY <1>x, <1>t, <1>n DEF EditorOf, OwnRequests
<1>2. OwnTimers(t)'
  <2>1. \A l \in LotIds : tabs[t].timer[l] # None => tabs[t].timer[l].n \in Nat
    BY TabParts, PolygonParts, <1>t
  <2> QED
    BY <2>1, <1>t, <1>s, <1>x, <1>y, <1>k DEF EditorOf, OwnTimers
<1>3. ShownExist(t)'
  BY <1>x, <1>y, <1>k DEF EditorOf, ShownExist
<1>4. CreatedIsNew(t)'
  BY <1>x, <1>y DEF EditorOf, CreatedIsNew, IsUpdate
<1>5. InOrder(t)'
  <2>1. \A i \in DOMAIN queue[t] : IsUpdate(t, i, k) => queue[t][i].polygon.n <= s.n
    BY <1>t, <1>s, <1>n DEF EditorOf, OwnRequests, IsUpdate
  <2>2. lots[k].polygon.n <= s.n
    BY <1>k, <1>t, <1>s, <1>n, RowParts DEF RowsAreOld
  <2>3. ASSUME NEW l \in LotIds, l = k
        PROVE  /\ \A i \in DOMAIN queue'[t] : IsUpdate(t, i, l)' /\ tabs'[t].timer[l] # None
                                             => queue'[t][i].polygon.n <= tabs'[t].timer[l].n
               /\ tabs'[t].timer[l] # None /\ lots'[l].polygon.by = t
                    => lots'[l].polygon.n <= tabs'[t].timer[l].n
    BY <2>1, <2>2, <2>3, <1>x, <1>y DEF IsUpdate
  <2>4. ASSUME NEW l \in LotIds, l # k
        PROVE  /\ \A i \in DOMAIN queue'[t] : IsUpdate(t, i, l)' /\ tabs'[t].timer[l] # None
                                             => queue'[t][i].polygon.n <= tabs'[t].timer[l].n
               /\ tabs'[t].timer[l] # None /\ lots'[l].polygon.by = t
                    => lots'[l].polygon.n <= tabs'[t].timer[l].n
    BY <2>4, <1>x, <1>y DEF IsUpdate, EditorOf, InOrder
  <2> QED
    BY <2>3, <2>4, <1>x DEF IsUpdate, EditorOf, InOrder
<1>6. NewestWaits(t)'
  <2> SUFFICES ASSUME NEW l \in LotIds, tabs'[t].lots[l] # None,
                      NEW i \in DOMAIN queue[t], IsUpdate(t, i, l)
               PROVE  /\ \/ tabs'[t].timer[l] = tabs'[t].lots[l]
                         \/ \E j \in DOMAIN queue[t] : IsUpdate(t, j, l)
                                             /\ queue[t][j].polygon = tabs'[t].lots[l]
                      /\ queue[t][i].polygon.n <= tabs'[t].lots[l].n
    BY <1>x DEF NewestWaits, Waiting, IsUpdate
  <2>1. CASE l = k
    BY <2>1, <1>y, <1>t, <1>s, <1>n DEF EditorOf, OwnRequests, IsUpdate
  <2>2. CASE l # k
    BY <2>2, <1>y DEF EditorOf, NewestWaits, Waiting, IsUpdate
  <2> QED
    BY <2>1, <2>2
<1>7. AnswerIsTrue(t)'
  BY <1>x DEF EditorOf, AnswerIsTrue, Arrived, Live
<1>8. Kept(t)'
  <2> SUFFICES ASSUME NEW l \in LotIds, NEW p, p = tabs'[t].lots[l], p # None, p.by = t,
                      l \notin failed'[t]
               PROVE  Waiting(t, l, p)' \/ Arrived(t, l, p)'
    BY DEF Kept, Waiting, Arrived, Live
  <2>1. CASE l = k
    BY <2>1, <1>y DEF Waiting
  <2>2. CASE l # k
    <3>1. p = tabs[t].lots[l] /\ l \notin failed[t]
      BY <2>2, <1>x, <1>y
    <3>2. Waiting(t, l, p) \/ Arrived(t, l, p)
      BY <3>1 DEF EditorOf, Kept
    <3> QED
      BY <3>2, <2>2, <1>x, <1>y DEF Waiting, Arrived, Live
  <2> QED
    BY <2>1, <2>2
<1> QED
  BY <1>1, <1>2, <1>3, <1>4, <1>5, <1>6, <1>7, <1>8 DEF EditorOf

-----------------------------------------------------------------------------
(* Steps of the server *)

\* The server answers the first request of t with r: the rows may change as the
\* request asks, and if it says so they have.
LEMMA Answering ==
  ASSUME NEW t \in Editors, EditorTypeOK, EditorTypeOK', EditorOf(t),
         tabs' = tabs, failed' = failed, edits' = edits,
         queue[t] # <<>>, NEW h, h = Head(queue[t]),
         NEW r \in Request,
         queue'[t] = <<r>> \o Tail(queue[t]),
         r.op = h.op, r.polygon = h.polygon, r.category = h.category,
         h.op # "create" => r.lot = h.lot,
         r.answer # "sent",
         \A l \in LotIds : lots[l] # None =>
           /\ lots'[l] # None
           /\ ~lots[l].live => ~lots'[l].live
           /\ \/ lots'[l].polygon = lots[l].polygon
              \/ h.op = "update" /\ h.lot = l /\ lots'[l].polygon = h.polygon,
         h.op = "create" /\ r.answer = "data" =>
           r.lot \in LotIds /\ lots[r.lot] = None /\ lots'[r.lot] # None,
         h.op # "delete" /\ r.answer = "data" => Arrived(t, r.lot, r.polygon)'
  PROVE  EditorOf(t)'
<1> DEFINE q == queue[t]
<1>t. EditorTypeOK /\ EditorTypeOK' /\ edits \in Nat
  BY EditorAssumption DEF EditorTypeOK
<1>h. 1 \in DOMAIN q /\ h = q[1] /\ h \in Request /\ DOMAIN q = 1 .. Len(q) /\ Len(q) \in Nat
  BY First, TabParts, <1>t
<1>q. /\ DOMAIN queue'[t] = DOMAIN q
      /\ queue'[t][1] = r
      /\ \A i \in DOMAIN q : i # 1 => queue'[t][i] = q[i]
      /\ queue'[t] # <<>> /\ Head(queue'[t]) = r
  BY Replaced, TabParts, <1>t
<1>u. \A i \in DOMAIN q, l \in LotIds : IsUpdate(t, i, l)' <=> IsUpdate(t, i, l)
  BY <1>q, <1>h DEF IsUpdate
<1>p. \A i \in DOMAIN q : queue'[t][i].polygon = q[i].polygon /\ queue'[t][i].op = q[i].op
  BY <1>q, <1>h
<1>w. ASSUME NEW l \in LotIds, NEW p
      PROVE  Waiting(t, l, p)' <=> Waiting(t, l, p)
  <2>1. Waiting(t, l, p) <=> \/ tabs[t].timer[l] = p
                             \/ \E i \in DOMAIN q : IsUpdate(t, i, l) /\ q[i].polygon = p
    BY DEF Waiting, IsUpdate
  <2>2. Waiting(t, l, p)' <=> \/ tabs[t].timer[l] = p
                              \/ \E i \in DOMAIN q : IsUpdate(t, i, l)' /\ queue'[t][i].polygon = p
    BY <1>q DEF Waiting, IsUpdate
  <2> QED
    BY <2>1, <2>2, <1>u, <1>p
<1>1. OwnRequests(t)'
  <2> SUFFICES ASSUME NEW i \in DOMAIN q
               PROVE  LET x == queue'[t][i] IN
                      /\ x.op = "update" => x.lot \in LotIds /\ lots'[x.lot] # None
                      /\ x.op = "delete" => x.lot \in LotIds
                      /\ x.op = "create" => x.category \in Categories
                      /\ x.op # "delete" => x.polygon \in Polygon /\ x.polygon.by = t
                                            /\ x.polygon.n <= edits
                      /\ i > 1 => x.answer = "sent"
    BY <1>q DEF OwnRequests
  <2>1. CASE i = 1
    BY <2>1, <1>q, <1>h DEF EditorOf, OwnRequests
  <2>2. CASE i # 1
    BY <2>2, <1>q DEF EditorOf, OwnRequests
  <2> QED
    BY <2>1, <2>2
<1>2. OwnTimers(t)' /\ ShownExist(t)'
  BY DEF EditorOf, OwnTimers, ShownExist
<1>4. CreatedIsNew(t)'
  <2> SUFFICES ASSUME r.op = "create", r.answer = "data"
               PROVE  /\ r.lot \in LotIds /\ lots'[r.lot] # None
                      /\ tabs[t].lots[r.lot] = None /\ tabs[t].timer[r.lot] = None
                      /\ \A i \in DOMAIN q :
                           ~(queue'[t][i].op = "update" /\ queue'[t][i].lot = r.lot)
    BY <1>q DEF CreatedIsNew, IsUpdate
  <2>1. r.lot \in LotIds /\ lots[r.lot] = None /\ lots'[r.lot] # None
    OBVIOUS
  <2>2. \A i \in DOMAIN q : ~IsUpdate(t, i, r.lot)
    BY <2>1 DEF EditorOf, OwnRequests, IsUpdate
  <2>3. tabs[t].lots[r.lot] = None /\ tabs[t].timer[r.lot] = None
    BY <2>1 DEF EditorOf, OwnTimers, ShownExist
  <2> QED
    BY <2>1, <2>2, <2>3, <1>u DEF IsUpdate
<1>r. \A i \in DOMAIN q, l \in LotIds : IsUpdate(t, i, l) => lots[l] # None
  BY DEF EditorOf, OwnRequests, IsUpdate
<1>5. InOrder(t)'
  <2>1. ASSUME NEW l \in LotIds, lots[l] # None, lots'[l].polygon.by = t
        PROVE  \/ lots'[l].polygon = lots[l].polygon
               \/ IsUpdate(t, 1, l) /\ lots'[l].polygon = q[1].polygon
    BY <2>1, <1>h DEF IsUpdate
  <2>2. \A l \in LotIds : \A i, j \in DOMAIN q :
          i < j /\ IsUpdate(t, i, l)' /\ IsUpdate(t, j, l)'
            => queue'[t][i].polygon.n <= queue'[t][j].polygon.n
    BY <1>u, <1>p DEF EditorOf, InOrder
  <2>3. ASSUME NEW l \in LotIds, NEW i \in DOMAIN q, IsUpdate(t, i, l)
        PROVE  /\ tabs[t].timer[l] # None => q[i].polygon.n <= tabs[t].timer[l].n
               /\ queue'[t][i].answer = "sent" /\ lots'[l].polygon.by = t
                    => lots'[l].polygon.n <= q[i].polygon.n
    <3>1. queue'[t][i].answer = "sent" => 1 < i /\ q[i].answer = "sent"
      BY <1>q, <1>h
    <3> QED
      BY <2>1, <2>3, <3>1, <1>r, <1>h DEF EditorOf, InOrder
  <2>4. ASSUME NEW l \in LotIds, tabs[t].timer[l] # None, lots'[l].polygon.by = t
        PROVE  lots'[l].polygon.n <= tabs[t].timer[l].n
    <3>1. lots[l] # None
      BY <2>4 DEF EditorOf, OwnTimers
    <3> QED
      BY <2>1, <2>4, <3>1, <1>h DEF EditorOf, InOrder
  <2> QED
    BY <2>2, <2>3, <2>4, <1>u, <1>p, <1>q DEF InOrder
<1>6. NewestWaits(t)'
  <2> SUFFICES ASSUME NEW l \in LotIds, NEW p, p = tabs'[t].lots[l], p # None,
                      NEW i \in DOMAIN queue'[t], IsUpdate(t, i, l)'
               PROVE  Waiting(t, l, p)' /\ queue'[t][i].polygon.n <= p.n
    BY DEF NewestWaits, Waiting
  <2>1. i \in DOMAIN q /\ IsUpdate(t, i, l) /\ queue'[t][i].polygon = q[i].polygon
    BY <1>u, <1>p, <1>q
  <2>2. Waiting(t, l, p) /\ q[i].polygon.n <= p.n
    BY <2>1 DEF EditorOf, NewestWaits
  <2> QED
    BY <1>w, <2>1, <2>2
<1>7. AnswerIsTrue(t)'
  BY <1>q DEF AnswerIsTrue, Arrived, Live
<1>8. Kept(t)'
  <2> SUFFICES ASSUME NEW l \in LotIds, NEW p, p = tabs[t].lots[l], p # None, p.by = t,
                      l \notin failed[t]
               PROVE  Waiting(t, l, p)' \/ Arrived(t, l, p)'
    BY DEF Kept, Waiting, Arrived, Live
  <2>1. Waiting(t, l, p) \/ Arrived(t, l, p)
    BY DEF EditorOf, Kept
  <2>2. lots[l] # None
    BY DEF EditorOf, ShownExist
  <2>3. CASE IsUpdate(t, 1, l)
    BY <2>3, <1>h, <1>w DEF EditorOf, NewestWaits
  <2>4. CASE ~IsUpdate(t, 1, l) /\ Arrived(t, l, p)
    <3>1. lots'[l].polygon = lots[l].polygon
      BY <2>2, <2>4, <1>h DEF IsUpdate
    <3> QED
      BY <2>2, <2>4, <3>1 DEF Arrived, Live
  <2> QED
    BY <2>1, <2>3, <2>4, <1>w
<1> QED
  BY <1>1, <1>2, <1>4, <1>5, <1>6, <1>7, <1>8 DEF EditorOf

\* The page hears of its first request, or hears that it is lost.
LEMMA Hearing ==
  ASSUME NEW t \in Editors, EditorTypeOK, EditorTypeOK', EditorOf(t),
         lots' = lots, edits' = edits,
         queue[t] # <<>>, NEW r, r = Head(queue[t]),
         queue'[t] = Tail(queue[t]),
         tabs'[t].timer = tabs[t].timer, tabs'[t].open = tabs[t].open,
         tabs'[t].category = tabs[t].category,
         \A l \in LotIds :
           \/ tabs'[t].lots[l] \in {None, tabs[t].lots[l]}
           \/ r.op = "create" /\ r.answer = "data" /\ l = r.lot /\ tabs'[t].lots[l] = r.polygon,
         failed[t] \subseteq failed'[t],
         r.op = "update" => r.answer = "data" \/ r.lot \in failed'[t]
  PROVE  EditorOf(t)'
<1> DEFINE q == queue[t]
           d == queue'[t]
<1>t. EditorTypeOK /\ EditorTypeOK' /\ edits \in Nat
  BY EditorAssumption DEF EditorTypeOK
<1>h. 1 \in DOMAIN q /\ r = q[1] /\ r \in Request /\ DOMAIN q = 1 .. Len(q) /\ Len(q) \in Nat
  BY First, TabParts, <1>t
<1>q. /\ \A i \in DOMAIN d : i \in Nat /\ i >= 1 /\ i + 1 \in DOMAIN q /\ d[i] = q[i + 1]
      /\ \A i \in DOMAIN q : i > 1 => i - 1 \in DOMAIN d /\ q[i] = d[i - 1]
      /\ d # <<>> => Head(d) = q[2] /\ 2 \in DOMAIN q
  BY Dropped, TabParts, <1>t
<1>s. \A i \in DOMAIN q : i > 1 => q[i].answer = "sent"
  BY DEF EditorOf, OwnRequests
<1>u. \A i \in DOMAIN d, l \in LotIds : IsUpdate(t, i, l)' => i + 1 \in DOMAIN q /\ IsUpdate(t, i + 1, l)
  BY <1>q DEF IsUpdate
<1>c. ASSUME r.op = "create", r.answer = "data"
      PROVE  /\ r.lot \in LotIds /\ lots[r.lot] # None
             /\ tabs[t].lots[r.lot] = None /\ tabs[t].timer[r.lot] = None
             /\ \A i \in DOMAIN q : ~IsUpdate(t, i, r.lot)
             /\ r.polygon \in Polygon /\ r.polygon.by = t
  BY <1>c, <1>h DEF EditorOf, CreatedIsNew, OwnRequests
<1>w. ASSUME NEW l \in LotIds, NEW p, Waiting(t, l, p),
             ~(IsUpdate(t, 1, l) /\ q[1].polygon = p)
      PROVE  Waiting(t, l, p)'
  <2>1. CASE tabs[t].timer[l] = p
    BY <2>1 DEF Waiting
  <2>2. ASSUME NEW i \in DOMAIN q, q[i].op = "update", q[i].lot = l, q[i].polygon = p
        PROVE  Waiting(t, l, p)'
    <3>1. i > 1
      BY <1>w, <1>h, <2>2 DEF IsUpdate
    <3>2. i - 1 \in DOMAIN d /\ d[i - 1] = q[i]
      BY <3>1, <1>q
    <3> QED
      BY <2>2, <3>2 DEF Waiting
  <2> QED
    BY <1>w, <2>1, <2>2 DEF Waiting
<1>1. OwnRequests(t)'
  <2> SUFFICES ASSUME NEW i \in DOMAIN d
               PROVE  LET x == d[i] IN
                      /\ x.op = "update" => x.lot \in LotIds /\ lots[x.lot] # None
                      /\ x.op = "delete" => x.lot \in LotIds
                      /\ x.op = "create" => x.category \in Categories
                      /\ x.op # "delete" => x.polygon \in Polygon /\ x.polygon.by = t
                                            /\ x.polygon.n <= edits
                      /\ i > 1 => x.answer = "sent"
    BY DEF OwnRequests
  <2>1. i + 1 \in DOMAIN q /\ d[i] = q[i + 1] /\ i + 1 > 1
    BY <1>q
  <2> QED
    BY <2>1 DEF EditorOf, OwnRequests
<1>2. OwnTimers(t)'
  <2> SUFFICES ASSUME NEW l \in LotIds, tabs[t].timer[l] # None
               PROVE  tabs'[t].lots[l] \in {None, tabs[t].timer[l]}
    BY DEF EditorOf, OwnTimers
  <2> QED
    BY <1>c DEF EditorOf, OwnTimers
<1>3. ShownExist(t)'
  BY <1>c DEF EditorOf, ShownExist
<1>4. CreatedIsNew(t)' /\ AnswerIsTrue(t)'
  BY <1>q, <1>s DEF CreatedIsNew, AnswerIsTrue
<1>5. InOrder(t)'
  <2>1. \A l \in LotIds : \A i, j \in DOMAIN d :
          i < j /\ IsUpdate(t, i, l)' /\ IsUpdate(t, j, l)' => d[i].polygon.n <= d[j].polygon.n
    <3> SUFFICES ASSUME NEW l \in LotIds, NEW i \in DOMAIN d, NEW j \in DOMAIN d, i < j,
                        IsUpdate(t, i, l)', IsUpdate(t, j, l)'
                 PROVE  d[i].polygon.n <= d[j].polygon.n
      OBVIOUS
    <3>1. /\ i + 1 \in DOMAIN q /\ j + 1 \in DOMAIN q /\ i + 1 < j + 1
          /\ IsUpdate(t, i + 1, l) /\ IsUpdate(t, j + 1, l)
          /\ d[i] = q[i + 1] /\ d[j] = q[j + 1]
      BY <1>q, <1>u
    <3> HIDE DEF q, d
    <3> QED
      BY <3>1 DEF EditorOf, InOrder, q
  <2>2. ASSUME NEW l \in LotIds, NEW i \in DOMAIN d, IsUpdate(t, i, l)'
        PROVE  /\ tabs'[t].timer[l] # None => d[i].polygon.n <= tabs'[t].timer[l].n
               /\ d[i].answer = "sent" /\ lots'[l].polygon.by = t
                    => lots'[l].polygon.n <= d[i].polygon.n
    <3>1. i + 1 \in DOMAIN q /\ IsUpdate(t, i + 1, l) /\ d[i] = q[i + 1]
      BY <1>q, <1>u, <2>2
    <3> QED
      BY <3>1 DEF EditorOf, InOrder
  <2>3. \A l \in LotIds : tabs'[t].timer[l] # None /\ lots'[l].polygon.by = t
          => lots'[l].polygon.n <= tabs'[t].timer[l].n
    BY DEF EditorOf, InOrder
  <2> QED
    BY <2>1, <2>2, <2>3 DEF InOrder
<1>6. NewestWaits(t)'
  <2> SUFFICES ASSUME NEW l \in LotIds, NEW p, p = tabs'[t].lots[l], p # None,
                      NEW i \in DOMAIN d, IsUpdate(t, i, l)'
               PROVE  Waiting(t, l, p)' /\ d[i].polygon.n <= p.n
    BY DEF NewestWaits, Waiting
  <2>1. i + 1 \in DOMAIN q /\ IsUpdate(t, i + 1, l) /\ d[i] = q[i + 1] /\ i + 1 > 1
    BY <1>q, <1>u
  <2>2. p = tabs[t].lots[l]
    BY <2>1, <1>c
  <2>3. Waiting(t, l, p) /\ q[i + 1].polygon.n <= p.n
    BY <2>1, <2>2 DEF EditorOf, NewestWaits
  <2>4. CASE ~(IsUpdate(t, 1, l) /\ q[1].polygon = p)
    BY <2>1, <2>3, <2>4, <1>w
  <2>5. CASE IsUpdate(t, 1, l) /\ q[1].polygon = p
    <3>1. q[1].polygon.n <= q[i + 1].polygon.n
      BY <2>1, <2>5, <1>h DEF EditorOf, InOrder
    <3>2. /\ q[1].polygon \in Polygon /\ q[i + 1].polygon \in Polygon
          /\ q[1].polygon.by = t /\ q[i + 1].polygon.by = t
      BY <2>1, <2>5, <1>h DEF EditorOf, OwnRequests, IsUpdate
    <3>3. q[1].polygon.n = q[i + 1].polygon.n
      BY <3>1, <3>2, <2>3, <2>5, PolygonParts
    <3>4. d[i].polygon = p
      BY <3>2, <3>3, <2>1, <2>5, SamePolygon
    <3>5. Waiting(t, l, p)'
      BY <3>4 DEF Waiting, IsUpdate
    <3> QED
      BY <3>5, <2>1, <2>3
  <2> QED
    BY <2>4, <2>5
<1>8. Kept(t)'
  <2> SUFFICES ASSUME NEW l \in LotIds, NEW p, p = tabs'[t].lots[l], p # None, p.by = t,
                      l \notin failed'[t]
               PROVE  Waiting(t, l, p)' \/ Arrived(t, l, p)
    BY DEF Kept, Waiting, Arrived, Live
  <2>1. CASE p = tabs[t].lots[l]
    <3>1. Waiting(t, l, p) \/ Arrived(t, l, p)
      BY <2>1 DEF EditorOf, Kept
    <3>2. CASE IsUpdate(t, 1, l) /\ q[1].polygon = p
      BY <3>2, <1>h DEF EditorOf, AnswerIsTrue, IsUpdate
    <3> QED
      BY <3>1, <3>2, <1>w
  <2>2. CASE r.op = "create" /\ r.answer = "data" /\ l = r.lot /\ p = r.polygon
    BY <2>2 DEF EditorOf, AnswerIsTrue
  <2> QED
    BY <2>1, <2>2
<1> QED
  BY <1>1, <1>2, <1>3, <1>4, <1>5, <1>6, <1>8 DEF EditorOf

-----------------------------------------------------------------------------
(* The type invariant *)

LEMMA EditorInitHolds == EditorInit => EditorInv
<1> SUFFICES ASSUME EditorInit PROVE EditorInv
  OBVIOUS
<1>0. 0 \in 0 .. MaxEdits /\ 0 \in 0 .. MaxPoints
  BY EditorAssumption
<1>1. PICK c \in Categories :
        lots = [l \in LotIds |->
                  IF l \in InitialLots
                    THEN [category |-> c, live |-> TRUE, polygon |-> [by |-> None, n |-> 0]]
                    ELSE None]
  BY DEF EditorInit
<1>2. [category |-> c, live |-> TRUE, polygon |-> [by |-> None, n |-> 0]] \in Lot
  BY <1>0 DEF Lot, Polygon
<1>3. lots \in [LotIds -> Lot \cup {None}]
  BY <1>1, <1>2
<1>4. Nowhere \in [LotIds -> Polygon \cup {None}]
  BY DEF Nowhere
<1>5. Closed \in Tab
  BY <1>0, <1>4 DEF Closed, Tab
<1>6. tabs \in [Editors -> Tab] /\ queue \in [Editors -> Seq(Request)]
  BY <1>5 DEF EditorInit
<1>7. EditorTypeOK
  BY <1>0, <1>3, <1>6 DEF EditorInit, EditorTypeOK
<1>8. RowsAreOld
  <2>1. \A l \in LotIds : lots[l] # None => lots[l].polygon.n = 0
    BY <1>1
  <2> QED
    BY <2>1 DEF RowsAreOld, EditorInit
<1>9. ASSUME NEW t \in Editors
      PROVE  EditorOf(t)
  <2>1. /\ queue[t] = <<>> /\ DOMAIN queue[t] = {} /\ ~tabs[t].open
        /\ \A l \in LotIds : tabs[t].lots[l] = None /\ tabs[t].timer[l] = None
    BY DEF EditorInit, Closed, Nowhere
  <2> QED
    BY <2>1 DEF EditorOf, OwnRequests, OwnTimers, ShownExist, CreatedIsNew, InOrder,
                NewestWaits, AnswerIsTrue, Kept
<1> QED
  BY <1>7, <1>8, <1>9 DEF EditorInv, SeenStayOut, EditorInit

\* What is known of the first request of a queue.
LEMMA HeadParts ==
  ASSUME EditorInv, NEW t \in Editors, queue[t] # <<>>, NEW h, h = Head(queue[t])
  PROVE  /\ h \in Request /\ 1 \in DOMAIN queue[t] /\ queue[t][1] = h
         /\ h.op \in {"create", "update", "delete"}
         /\ h.op = "update" => h.lot \in LotIds /\ lots[h.lot] # None
         /\ h.op = "delete" => h.lot \in LotIds
         /\ h.op = "create" => h.category \in Categories
         /\ h.op # "delete" => h.polygon \in Polygon /\ h.polygon.by = t /\ h.polygon.n <= edits
         /\ h.op = "create" /\ h.answer = "data" => h.lot \in LotIds
<1>1. EditorTypeOK /\ EditorOf(t)
  BY DEF EditorInv
<1>2. h \in Request /\ 1 \in DOMAIN queue[t] /\ queue[t][1] = h
  BY First, TabParts, <1>1
<1> QED
  BY <1>1, <1>2, RequestParts DEF EditorOf, OwnRequests, CreatedIsNew

LEMMA AskedIsRequest ==
  ASSUME NEW op \in {"create", "update", "delete"}, NEW l \in LotIds \cup {None},
         NEW p \in Polygon \cup {None}, NEW c \in Categories \cup {None}
  PROVE  /\ Asks(op, l, p, c) \in Request
         /\ Asks(op, l, p, c).op = op /\ Asks(op, l, p, c).lot = l
         /\ Asks(op, l, p, c).polygon = p /\ Asks(op, l, p, c).category = c
         /\ Asks(op, l, p, c).answer = "sent"
BY DEF Asks, Request

LEMMA AnsweredTyped ==
  ASSUME EditorTypeOK, NEW t \in Editors, queue[t] # <<>>, NEW r \in Request, Answered(t, r)
  PROVE  /\ queue' \in [Editors -> Seq(Request)]
         /\ queue'[t] = <<r>> \o Tail(queue[t])
         /\ \A u \in Editors : u # t => queue'[u] = queue[u]
<1>1. <<r>> \o Tail(queue[t]) \in Seq(Request)
  BY Replaced, TabParts
<1> QED
  BY <1>1 DEF Answered, EditorTypeOK

LEMMA SentTyped ==
  ASSUME EditorTypeOK, NEW t \in Editors, NEW r \in Request, Send(t, r)
  PROVE  /\ queue' \in [Editors -> Seq(Request)]
         /\ queue'[t] = Append(queue[t], r)
         /\ \A u \in Editors : u # t => queue'[u] = queue[u]
<1>1. Append(queue[t], r) \in Seq(Request)
  BY Appended, TabParts
<1> QED
  BY <1>1 DEF Send, Enqueue, EditorTypeOK

LEMMA TailTyped ==
  ASSUME EditorTypeOK, NEW t \in Editors, queue[t] # <<>>,
         queue' = [queue EXCEPT ![t] = Tail(@)]
  PROVE  /\ queue' \in [Editors -> Seq(Request)]
         /\ queue'[t] = Tail(queue[t])
         /\ \A u \in Editors : u # t => queue'[u] = queue[u]
<1>1. Tail(queue[t]) \in Seq(Request)
  BY Dropped, TabParts
<1> QED
  BY <1>1 DEF EditorTypeOK

\* Of a tab and what it hears.
LEMMA HeardParts ==
  ASSUME NEW page \in Tab, NEW r \in Request, r.answer # "sent"
  PROVE  /\ Heard(page, r) \in Tab
         /\ Heard(page, r).timer = page.timer
         /\ Heard(page, r).open = page.open
         /\ Heard(page, r).category = page.category
         /\ \A l \in LotIds :
              \/ Heard(page, r).lots[l] \in {None, page.lots[l]}
              \/ r.op = "create" /\ r.answer = "data" /\ l = r.lot /\ Heard(page, r).lots[l] = r.polygon
<1>0. 0 \in 0 .. MaxPoints
  BY EditorAssumption
<1>1. PICK e : e = EndDrawing(page, r)
  OBVIOUS
<1>2. e \in Tab /\ e.timer = page.timer /\ e.open = page.open /\ e.category = page.category /\ e.lots = page.lots
  BY <1>0, <1>1 DEF EndDrawing, Tab
<1>3. r.op \in {"create", "update", "delete"} /\ r.answer \in {"data", "serverError"}
      /\ r.polygon \in Polygon \cup {None}
  BY RequestParts
<1>4. CASE r.answer = "serverError"
  <2>1. Heard(page, r) = [e EXCEPT !.saveStatus = "error"]
    BY <1>1, <1>4 DEF Heard
  <2> QED
    BY <1>2, <2>1 DEF Tab
<1>5. CASE r.answer = "data" /\ r.op = "create"
  <2>1. Heard(page, r) = [[e EXCEPT !.saveStatus = "saved"] EXCEPT !.lots[r.lot] = r.polygon]
    BY <1>1, <1>5 DEF Heard
  <2>2. [e.lots EXCEPT ![r.lot] = r.polygon] \in [LotIds -> Polygon \cup {None}]
    BY <1>2, <1>3 DEF Tab
  <2>3. PICK x : x = [e.lots EXCEPT ![r.lot] = r.polygon]
    OBVIOUS
  <2>4. Heard(page, r) = [[e EXCEPT !.saveStatus = "saved"] EXCEPT !.lots = x]
    BY <1>2, <2>1, <2>3 DEF Tab
  <2>5. \A l \in LotIds : x[l] = page.lots[l] \/ (l = r.lot /\ x[l] = r.polygon)
    BY <1>2, <2>3 DEF Tab
  <2>6. Heard(page, r) \in Tab /\ Heard(page, r).lots = x
    BY <1>2, <2>2, <2>3, <2>4 DEF Tab
  <2>7. /\ Heard(page, r).timer = page.timer /\ Heard(page, r).open = page.open
        /\ Heard(page, r).category = page.category
    BY <1>2, <2>4 DEF Tab
  <2> QED
    BY <1>5, <2>5, <2>6, <2>7
<1>6. CASE r.answer = "data" /\ r.op = "update"
  <2>1. Heard(page, r) = [e EXCEPT !.saveStatus = "saved"]
    BY <1>1, <1>6 DEF Heard
  <2> QED
    BY <1>2, <2>1 DEF Tab
<1>7. CASE r.answer = "data" /\ r.op = "delete"
  <2>1. Heard(page, r) = [[e EXCEPT !.saveStatus = "saved"]
                           EXCEPT !.lots[r.lot] = None, !.selected = None]
    BY <1>1, <1>7 DEF Heard
  <2>2. [e.lots EXCEPT ![r.lot] = None] \in [LotIds -> Polygon \cup {None}]
    BY <1>2 DEF Tab
  <2>3. PICK x : x = [e.lots EXCEPT ![r.lot] = None]
    OBVIOUS
  <2>4. Heard(page, r) = [[e EXCEPT !.saveStatus = "saved"] EXCEPT !.lots = x, !.selected = None]
    BY <1>2, <2>1, <2>3 DEF Tab
  <2>5. \A l \in LotIds : x[l] \in {None, page.lots[l]}
    BY <1>2, <2>3 DEF Tab
  <2> QED
    BY <1>2, <2>2, <2>3, <2>4, <2>5 DEF Tab
<1> QED
  BY <1>3, <1>4, <1>5, <1>6, <1>7

-----------------------------------------------------------------------------
(* The inductive invariant: one lemma per group of actions *)

\* What a step of t leaves alone.
OthersSame(t) ==
  \A u \in Editors \ {t} :
    tabs'[u] = tabs[u] /\ queue'[u] = queue[u] /\ failed'[u] = failed[u]

\* A step of t that leaves the rows alone is a matter of t.
LEMMA TabStep ==
  ASSUME EditorInv, EditorTypeOK', NEW t \in Editors, EditorOf(t)', OthersSame(t),
         UNCHANGED serverVars, edits <= edits'
  PROVE  EditorInv'
<1>t. EditorTypeOK /\ edits \in Nat /\ edits' \in Nat
  BY EditorAssumption DEF EditorTypeOK, EditorInv
<1>1. RowsAreOld'
  <2>1. \A l \in LotIds : lots[l] # None => lots[l].polygon.n \in Nat
    BY <1>t, RowParts, PolygonParts
  <2> QED
    BY <2>1, <1>t DEF RowsAreOld, EditorInv, serverVars
<1>2. SeenStayOut'
  BY DEF SeenStayOut, EditorInv, serverVars, InCategory, Live
<1>3. ASSUME NEW u \in Editors, u # t
      PROVE  EditorOf(u)'
  <2>1. RowsFor(u)
    BY DEF RowsFor, serverVars
  <2>2. SameTab(u) /\ queue'[u] = queue[u] /\ failed'[u] = failed[u]
    BY <1>3 DEF OthersSame, SameTab
  <2> QED
    BY <2>1, <2>2, <1>t, Undisturbed DEF EditorInv
<1> QED
  BY <1>1, <1>2, <1>3 DEF EditorInv

\* On the canvas and with the page.
LEMMA CanvasStep ==
  ASSUME EditorInv, NEW t \in Editors,
         \/ \E l \in LotIds : SelectLot(t, l)
         \/ StartDrawing(t) \/ BackToSelect(t) \/ ClickStage(t)
  PROVE  EditorInv'
<1>t. EditorTypeOK /\ tabs[t] \in Tab /\ EditorOf(t) /\ edits \in Nat
  BY EditorAssumption DEF EditorTypeOK, EditorInv
<1>z. 0 \in 0 .. MaxPoints
  BY EditorAssumption
<1>0. OnlyTab(t) /\ UNCHANGED serverVars /\ edits' = edits /\ queue' = queue /\ failed' = failed
  BY DEF SelectLot, StartDrawing, BackToSelect, ClickStage, OnlyTab
<1>1. /\ tabs' \in [Editors -> Tab] /\ SameTab(t)
      /\ \A u \in Editors \ {t} : tabs'[u] = tabs[u]
  <2>1. CASE \E l \in LotIds : SelectLot(t, l)
    <3>1. PICK l \in LotIds : tabs' = [tabs EXCEPT ![t] = [tabs[t] EXCEPT !.selected = l]]
      BY <2>1, <1>t DEF SelectLot, EditorTypeOK
    <3>2. [tabs[t] EXCEPT !.selected = l] \in Tab
      BY <1>t DEF Tab
    <3> QED
      BY <3>1, <3>2, <1>t DEF SameTab, EditorTypeOK, Tab
  <2>2. CASE StartDrawing(t)
    BY <2>2, <1>t DEF StartDrawing, SameTab, EditorTypeOK, Tab
  <2>3. CASE BackToSelect(t)
    <3>1. tabs' = [tabs EXCEPT ![t] = [tabs[t] EXCEPT !.mode = "select", !.points = 0]]
      BY <2>3, <1>t DEF BackToSelect, EditorTypeOK
    <3>2. [tabs[t] EXCEPT !.mode = "select", !.points = 0] \in Tab
      BY <1>t, <1>z DEF Tab
    <3> QED
      BY <3>1, <3>2, <1>t DEF SameTab, EditorTypeOK, Tab
  <2>4. CASE ClickStage(t)
    <3>1. tabs[t].points + 1 \in 0 .. MaxPoints
      BY <2>4, <1>t, EditorAssumption DEF ClickStage, Tab
    <3> QED
      BY <2>4, <3>1, <1>t DEF ClickStage, SameTab, EditorTypeOK, Tab
  <2> QED
    BY <2>1, <2>2, <2>3, <2>4
<1>2. EditorTypeOK'
  BY <1>0, <1>1, <1>t DEF EditorTypeOK, serverVars
<1>3. EditorOf(t)'
  <2>1. RowsFor(t)
    BY <1>0 DEF RowsFor, serverVars
  <2> QED
    BY <2>1, <1>0, <1>1, <1>2, <1>t, Undisturbed
<1> QED
  BY <1>0, <1>1, <1>2, <1>3, <1>t, TabStep DEF OthersSame

LEMMA PageStep ==
  ASSUME EditorInv, NEW t \in Editors, Open(t) \/ Close(t)
  PROVE  EditorInv'
<1>t. EditorTypeOK /\ EditorOf(t) /\ edits \in Nat
  BY EditorAssumption DEF EditorTypeOK, EditorInv
<1>0. /\ UNCHANGED serverVars /\ edits' = edits /\ queue' = queue
      /\ failed' \in [Editors -> SUBSET LotIds]
      /\ \A u \in Editors \ {t} : failed'[u] = failed[u]
  BY <1>t DEF Open, Close, EditorTypeOK
<1>n. Nowhere \in [LotIds -> Polygon \cup {None}] /\ 0 \in 0 .. MaxPoints
  BY EditorAssumption DEF Nowhere
<1>1. /\ tabs' \in [Editors -> Tab]
      /\ \A u \in Editors \ {t} : tabs'[u] = tabs[u]
  <2>1. CASE Open(t)
    <3>1. [l \in LotIds |-> IF Live(l) THEN lots[l].polygon ELSE None]
            \in [LotIds -> Polygon \cup {None}]
      BY <1>t, RowParts DEF Live
    <3>2. PICK x \in [LotIds -> Polygon \cup {None}], c \in Categories :
            tabs' = [tabs EXCEPT ![t] = [Closed EXCEPT !.open = TRUE, !.category = c, !.lots = x]]
      BY <2>1, <3>1 DEF Open
    <3>3. [Closed EXCEPT !.open = TRUE, !.category = c, !.lots = x] \in Tab
      BY <1>n DEF Closed, Tab
    <3> QED
      BY <3>2, <3>3, <1>t DEF EditorTypeOK
  <2>2. CASE Close(t)
    <3>1. Closed \in Tab
      BY <1>n DEF Closed, Tab
    <3> QED
      BY <2>2, <3>1, <1>t DEF Close, EditorTypeOK
  <2> QED
    BY <2>1, <2>2
<1>2. EditorTypeOK'
  BY <1>0, <1>1, <1>t DEF EditorTypeOK, serverVars
<1>3. EditorOf(t)'
  BY <1>2, <1>t, Opening, Closing
<1> QED
  BY <1>0, <1>1, <1>2, <1>3, <1>t, TabStep DEF OthersSame

LEMMA EditStep ==
  ASSUME EditorInv, NEW t \in Editors,
         \/ \E l \in LotIds : Drag(t, l) \/ TimerFires(t, l)
         \/ DoubleClick(t) \/ DeleteSelected(t)
  PROVE  EditorInv'
<1>t. EditorTypeOK /\ tabs[t] \in Tab /\ EditorOf(t) /\ edits \in 0 .. MaxEdits /\ edits \in Nat
      /\ MaxEdits \in Nat /\ RowsAreOld
  BY EditorAssumption DEF EditorTypeOK, EditorInv
<1>p. ASSUME CountEdit
      PROVE  /\ edits' = edits + 1 /\ edits' \in 0 .. MaxEdits
             /\ NextPolygon(t) \in Polygon /\ NextPolygon(t).by = t /\ NextPolygon(t).n = edits'
  BY <1>t, <1>p DEF CountEdit, NextPolygon, Polygon
<1>1. ASSUME NEW k \in LotIds, Drag(t, k)
      PROVE  EditorInv'
  <2>0. CountEdit /\ UNCHANGED serverVars /\ queue' = queue
    BY <1>1 DEF Drag
  <2>1. [[tabs[t] EXCEPT !.lots[k] = NextPolygon(t)]
           EXCEPT !.timer[k] = NextPolygon(t), !.saveStatus = "saving"] \in Tab
    <3>1. /\ [tabs[t].lots EXCEPT ![k] = NextPolygon(t)] \in [LotIds -> Polygon \cup {None}]
          /\ [tabs[t].timer EXCEPT ![k] = NextPolygon(t)] \in [LotIds -> Polygon \cup {None}]
      BY <2>0, <1>p, <1>t DEF Tab
    <3> QED
      BY <3>1, <1>t DEF Tab
  <2>2. tabs' = [tabs EXCEPT ![t] = [[tabs[t] EXCEPT !.lots[k] = NextPolygon(t)]
                    EXCEPT !.timer[k] = NextPolygon(t), !.saveStatus = "saving"]]
    BY <1>1, <1>t DEF Drag, ScheduleSave, EditorTypeOK
  <2>3. tabs' \in [Editors -> Tab] /\ \A u \in Editors \ {t} : tabs'[u] = tabs[u]
    BY <2>1, <2>2, <1>t DEF EditorTypeOK
  <2>4. failed' \in [Editors -> SUBSET LotIds] /\ \A u \in Editors \ {t} : failed'[u] = failed[u]
    BY <1>1, <1>t DEF Drag, EditorTypeOK
  <2>5. EditorTypeOK'
    BY <2>0, <2>3, <2>4, <1>t, <1>p DEF EditorTypeOK, serverVars
  <2>6. EditorOf(t)'
    BY <2>5, <1>1, <1>t, Dragging
  <2> QED
    BY <2>0, <2>3, <2>4, <2>5, <2>6, <1>t, <1>p, TabStep DEF OthersSame
<1>2. ASSUME NEW k \in LotIds, TimerFires(t, k)
      PROVE  EditorInv'
  <2>0. /\ UNCHANGED serverVars /\ edits' = edits /\ failed' = failed
        /\ tabs[t].timer[k] \in Polygon
        /\ Send(t, Asks("update", k, tabs[t].timer[k], None))
    BY <1>2, <1>t, TabParts DEF TimerFires
  <2>1. Asks("update", k, tabs[t].timer[k], None) \in Request
    BY <2>0, AskedIsRequest
  <2>2. queue' \in [Editors -> Seq(Request)] /\ \A u \in Editors \ {t} : queue'[u] = queue[u]
    BY <2>0, <2>1, <1>t, SentTyped
  <2>3. [tabs[t] EXCEPT !.timer[k] = None] \in Tab
    <3>1. [tabs[t].timer EXCEPT ![k] = None] \in [LotIds -> Polygon \cup {None}]
      BY <1>t DEF Tab
    <3> QED
      BY <3>1, <1>t DEF Tab
  <2>4. tabs' = [tabs EXCEPT ![t] = [tabs[t] EXCEPT !.timer[k] = None]]
    BY <1>2, <1>t DEF TimerFires, EditorTypeOK
  <2>5. tabs' \in [Editors -> Tab] /\ \A u \in Editors \ {t} : tabs'[u] = tabs[u]
    BY <2>3, <2>4, <1>t DEF EditorTypeOK
  <2>6. EditorTypeOK'
    BY <2>0, <2>2, <2>5, <1>t DEF EditorTypeOK, serverVars
  <2>7. EditorOf(t)'
    BY <2>6, <1>2, <1>t, Firing
  <2> QED
    BY <2>0, <2>2, <2>5, <2>6, <2>7, <1>t, TabStep DEF OthersSame
<1>3. CASE DoubleClick(t)
  <2>0. UNCHANGED serverVars /\ failed' = failed
    BY <1>3 DEF DoubleClick
  <2>1. CASE tabs[t].points + 2 < 3
    <3>1. tabs' = [tabs EXCEPT ![t] = TooFewPoints(tabs[t])] /\ queue' = queue /\ edits' = edits
      BY <1>3, <2>1, <1>t DEF DoubleClick, EditorTypeOK
    <3>2. /\ tabs' \in [Editors -> Tab] /\ SameTab(t)
          /\ \A u \in Editors \ {t} : tabs'[u] = tabs[u]
      <4>1. 0 \in 0 .. MaxPoints
        BY EditorAssumption
      <4>2. TooFewPoints(tabs[t]) \in Tab
        BY <4>1, <1>t DEF TooFewPoints, Tab
      <4> QED
        BY <3>1, <4>2, <1>t DEF TooFewPoints, EditorTypeOK, Tab, SameTab
    <3>3. EditorTypeOK'
      BY <2>0, <3>1, <3>2, <1>t DEF EditorTypeOK, serverVars
    <3>4. RowsFor(t)
      BY <2>0 DEF RowsFor, serverVars
    <3>5. EditorOf(t)'
      BY <2>0, <3>1, <3>2, <3>3, <3>4, <1>t, Undisturbed
    <3> QED
      BY <2>0, <3>1, <3>2, <3>3, <3>5, <1>t, TabStep DEF OthersSame
  <2>2. CASE ~(tabs[t].points + 2 < 3)
    <3>1. /\ CountEdit /\ tabs[t].open
          /\ Send(t, Asks("create", None, NextPolygon(t), tabs[t].category))
          /\ tabs' = [tabs EXCEPT ![t].saveStatus = "saving"]
      BY <1>3, <2>2 DEF DoubleClick, Drawing
    <3>2. tabs[t].category \in Categories
      BY <3>1, <1>t DEF EditorOf, ShownExist
    <3>3. PICK r \in Request : /\ r = Asks("create", None, NextPolygon(t), tabs[t].category)
                               /\ r.op = "create" /\ r.polygon = NextPolygon(t)
                               /\ r.category = tabs[t].category /\ r.answer = "sent"
      BY <3>1, <3>2, <1>p, AskedIsRequest
    <3>4. /\ queue' \in [Editors -> Seq(Request)] /\ queue'[t] = Append(queue[t], r)
          /\ \A u \in Editors \ {t} : queue'[u] = queue[u]
      BY <3>1, <3>3, <1>t, SentTyped
    <3>5. /\ tabs' \in [Editors -> Tab] /\ SameTab(t)
          /\ \A u \in Editors \ {t} : tabs'[u] = tabs[u]
      BY <3>1, <1>t DEF EditorTypeOK, Tab, SameTab
    <3>6. EditorTypeOK'
      BY <2>0, <3>1, <3>4, <3>5, <1>p, <1>t DEF EditorTypeOK, serverVars
    <3>a. edits <= edits' /\ r.polygon \in Polygon /\ r.polygon.by = t /\ r.polygon.n <= edits'
      BY <3>1, <3>3, <1>p, <1>t
    <3>7. EditorOf(t)'
      BY <2>0, <3>2, <3>3, <3>4, <3>5, <3>6, <3>a, <1>t, Asking DEF serverVars
    <3> QED
      BY <2>0, <3>4, <3>5, <3>6, <3>7, <3>a, <1>t, TabStep DEF OthersSame
  <2> QED
    BY <2>1, <2>2
<1>4. CASE DeleteSelected(t)
  <2>1. /\ CountEdit /\ UNCHANGED serverVars /\ failed' = failed
        /\ tabs[t].selected # None
        /\ Send(t, Asks("delete", tabs[t].selected, None, None))
        /\ tabs' = [tabs EXCEPT ![t].saveStatus = "saving"]
    BY <1>4 DEF DeleteSelected
  <2>2. tabs[t].selected \in LotIds
    BY <2>1, <1>t, TabParts
  <2>3. PICK r \in Request : /\ r = Asks("delete", tabs[t].selected, None, None)
                             /\ r.op = "delete" /\ r.lot \in LotIds /\ r.answer = "sent"
    BY <2>2, AskedIsRequest
  <2>4. /\ queue' \in [Editors -> Seq(Request)] /\ queue'[t] = Append(queue[t], r)
        /\ \A u \in Editors \ {t} : queue'[u] = queue[u]
    BY <2>1, <2>3, <1>t, SentTyped
  <2>5. /\ tabs' \in [Editors -> Tab] /\ SameTab(t)
        /\ \A u \in Editors \ {t} : tabs'[u] = tabs[u]
    BY <2>1, <1>t DEF EditorTypeOK, Tab, SameTab
  <2>6. EditorTypeOK'
    BY <2>1, <2>4, <2>5, <1>p, <1>t DEF EditorTypeOK, serverVars
  <2>a. edits <= edits'
    BY <2>1, <1>p, <1>t
  <2>7. EditorOf(t)'
    BY <2>1, <2>3, <2>4, <2>5, <2>6, <2>a, <1>t, Asking DEF serverVars
  <2> QED
    BY <2>1, <2>4, <2>5, <2>6, <2>7, <2>a, <1>t, TabStep DEF OthersSame
<1> QED
  BY <1>1, <1>2, <1>3, <1>4

\* A step of the server for t: the rows change as one of the requests of t asks.
LEMMA RowsStep ==
  ASSUME EditorInv, NEW t \in Editors, EditorOf(t)', lots' \in [LotIds -> Lot \cup {None}],
         UNCHANGED <<categories, deletion, tabs, edits, failed>>,
         queue' \in [Editors -> Seq(Request)], \A u \in Editors \ {t} : queue'[u] = queue[u],
         \A l \in LotIds :
           /\ lots[l] # None =>
                /\ lots'[l] # None /\ lots'[l].category = lots[l].category
                /\ ~lots[l].live => ~lots'[l].live
                /\ \/ lots'[l].polygon = lots[l].polygon
                   \/ lots'[l].polygon.by = t /\ lots'[l].polygon.n <= edits
           /\ lots[l] = None /\ lots'[l] # None =>
                lots'[l].polygon.by = t /\ lots'[l].polygon.n <= edits
  PROVE  EditorInv'
<1>t. EditorTypeOK /\ edits \in Nat
  BY EditorAssumption DEF EditorTypeOK, EditorInv
<1>1. EditorTypeOK'
  BY <1>t DEF EditorTypeOK
<1>2. RowsAreOld'
  BY DEF RowsAreOld, EditorInv
<1>3. SeenStayOut'
  <2> SUFFICES ASSUME deletion # None, NEW l \in deletion.seen
               PROVE  lots'[l] # None
                      /\ ~(l \in LotIds /\ lots'[l] # None /\ lots'[l].live
                            /\ lots'[l].category = deletion.category)
    BY DEF SeenStayOut, InCategory, Live
  <2>1. l \in LotIds
    BY <1>t DEF EditorTypeOK
  <2>2. lots[l] # None /\ ~(lots[l].live /\ lots[l].category = deletion.category)
    BY <2>1 DEF EditorInv, SeenStayOut, InCategory, Live
  <2> QED
    BY <2>1, <2>2
<1>4. ASSUME NEW u \in Editors, u # t
      PROVE  EditorOf(u)'
  <2>1. RowsFor(u)
    BY <1>4 DEF RowsFor
  <2> QED
    BY <2>1, <1>1, <1>4, <1>t, Undisturbed DEF EditorInv, SameTab
<1> QED
  BY <1>1, <1>2, <1>3, <1>4 DEF EditorInv

LEMMA ServerStep ==
  ASSUME EditorInv, NEW t \in Editors, ServerRuns(t)
  PROVE  EditorInv'
<1> DEFINE h == Head(queue[t])
<1>t. EditorTypeOK /\ EditorOf(t) /\ edits \in Nat /\ lots \in [LotIds -> Lot \cup {None}]
  BY EditorAssumption DEF EditorTypeOK, EditorInv
<1>0. /\ queue[t] # <<>> /\ h.answer = "sent"
      /\ UNCHANGED <<categories, deletion, tabs, edits, failed>>
  BY DEF ServerRuns, UnderWay, CreateLot, UpdateGeometry, DeleteLot, RefuseRequest, serverVars
<1>h. /\ h \in Request
      /\ h.op \in {"create", "update", "delete"}
      /\ h.op = "update" => h.lot \in LotIds /\ lots[h.lot] # None
      /\ h.op = "delete" => h.lot \in LotIds
      /\ h.op = "create" => h.category \in Categories
      /\ h.op # "delete" => h.polygon \in Polygon /\ h.polygon.by = t /\ h.polygon.n <= edits
  BY <1>0, HeadParts
<1>r. \A l \in LotIds : lots[l] # None => lots[l] \in Lot
  BY <1>t, RowParts
\* With the answer and the rows as Answering and RowsStep want them.
<1>s. ASSUME NEW r \in Request, Answered(t, r), r.answer # "sent",
             r.op = h.op, r.polygon = h.polygon, r.category = h.category,
             h.op # "create" => r.lot = h.lot,
             lots' \in [LotIds -> Lot \cup {None}],
             \A l \in LotIds : lots[l] # None =>
               /\ lots'[l] # None /\ lots'[l].category = lots[l].category
               /\ ~lots[l].live => ~lots'[l].live
               /\ \/ lots'[l].polygon = lots[l].polygon
                  \/ h.op = "update" /\ h.lot = l /\ lots'[l].polygon = h.polygon,
             \A l \in LotIds : lots[l] = None /\ lots'[l] # None =>
               lots'[l].polygon = h.polygon /\ h.op = "create",
             h.op = "create" /\ r.answer = "data" =>
               r.lot \in LotIds /\ lots[r.lot] = None /\ lots'[r.lot] # None,
             h.op # "delete" /\ r.answer = "data" => Arrived(t, r.lot, r.polygon)'
      PROVE  EditorInv'
  <2>1. /\ queue' \in [Editors -> Seq(Request)]
        /\ queue'[t] = <<r>> \o Tail(queue[t])
        /\ \A u \in Editors : u # t => queue'[u] = queue[u]
    BY <1>0, <1>s, <1>t, AnsweredTyped
  <2>2. EditorTypeOK'
    BY <2>1, <1>0, <1>s, <1>t DEF EditorTypeOK
  <2>3. EditorOf(t)'
    <3> HIDE DEF h
    <3>1. h = Head(queue[t])
      BY DEF h
    <3> QED
      BY <2>1, <2>2, <3>1, <1>0, <1>s, <1>t, Answering
  <2> HIDE DEF h
  <2> QED
    BY <2>1, <2>3, <1>0, <1>s, <1>h, RowsStep
<1>1. CASE CreateLot(t)
  <2>1. PICK l \in LotIds :
          /\ lots[l] = None
          /\ lots' = [lots EXCEPT ![l] = [category |-> h.category, polygon |-> h.polygon,
                                          live |-> TRUE]]
          /\ Answered(t, [h EXCEPT !.lot = l, !.answer = "data"])
    BY <1>1 DEF CreateLot
  <2>2. h.op = "create"
    BY <1>1 DEF CreateLot
  <2>3. PICK r : r = [h EXCEPT !.lot = l, !.answer = "data"]
    OBVIOUS
  <2>4. /\ r \in Request /\ r.op = h.op /\ r.polygon = h.polygon /\ r.category = h.category
        /\ r.lot = l /\ r.answer = "data"
    BY <2>3, <1>h DEF Request
  <2>5. PICK w : w = [category |-> h.category, polygon |-> h.polygon, live |-> TRUE]
    OBVIOUS
  <2>6. w \in Lot /\ w # None /\ w.polygon = h.polygon
    <3>1. w \in Lot /\ w.polygon = h.polygon
      BY <2>2, <2>5, <1>h DEF Lot
    <3> QED
      BY <3>1, NoneIsNothing
  <2>7. /\ lots' \in [LotIds -> Lot \cup {None}] /\ lots'[l] = w
        /\ \A k \in LotIds : k # l => lots'[k] = lots[k]
    BY <2>1, <2>5, <2>6, <1>t
  <2>8. Answered(t, r)
    BY <2>1, <2>3
  <2>9. Arrived(t, r.lot, r.polygon)'
    BY <2>4, <2>6, <2>7 DEF Arrived, Live
  <2> HIDE DEF h
  <2> QED
    BY <2>1, <2>2, <2>4, <2>6, <2>7, <2>8, <2>9, <1>s
<1>2. CASE UpdateGeometry(t)
  <2>1. /\ h.op = "update" /\ h.lot \in LotIds /\ lots[h.lot] \in Lot /\ lots[h.lot] # None
        /\ lots' = IF Live(h.lot) THEN [lots EXCEPT ![h.lot].polygon = h.polygon] ELSE lots
        /\ Answered(t, [h EXCEPT !.answer = "data"])
    BY <1>2, <1>h, <1>r DEF UpdateGeometry
  <2>2. PICK r : r = [h EXCEPT !.answer = "data"]
    OBVIOUS
  <2>3. /\ r \in Request /\ r.op = h.op /\ r.polygon = h.polygon /\ r.category = h.category
        /\ r.lot = h.lot /\ r.answer = "data"
    BY <2>2, <1>h DEF Request
  <2>4. CASE Live(h.lot)
    <3>1. PICK w : w = [lots[h.lot] EXCEPT !.polygon = h.polygon]
      OBVIOUS
    <3>2. /\ w \in Lot /\ w # None /\ w.polygon = h.polygon
          /\ w.category = lots[h.lot].category /\ w.live = lots[h.lot].live
      BY <2>1, <3>1, <1>h, NoneIsNothing DEF Lot
    <3>3. /\ lots' \in [LotIds -> Lot \cup {None}] /\ lots'[h.lot] = w
          /\ \A k \in LotIds : k # h.lot => lots'[k] = lots[k]
      BY <2>1, <2>4, <3>1, <3>2, <1>t
    <3>4. Arrived(t, r.lot, r.polygon)'
      BY <2>3, <3>2, <3>3 DEF Arrived, Live
    <3> HIDE DEF h
    <3> QED
      BY <2>1, <2>2, <2>3, <3>2, <3>3, <3>4, <1>s
  <2>5. CASE ~Live(h.lot)
    <3>1. lots' = lots
      BY <2>1, <2>5
    <3>2. Arrived(t, r.lot, r.polygon)'
      BY <2>3, <2>5, <3>1 DEF Arrived, Live
    <3> HIDE DEF h
    <3> QED
      BY <2>1, <2>2, <2>3, <3>1, <3>2, <1>s, <1>t
  <2> QED
    BY <2>4, <2>5
<1>3. CASE DeleteLot(t)
  <2>1. /\ h.op = "delete" /\ h.lot \in LotIds
        /\ lots' = IF Live(h.lot) THEN [lots EXCEPT ![h.lot].live = FALSE] ELSE lots
        /\ Answered(t, [h EXCEPT !.answer = IF Live(h.lot) THEN "data" ELSE "serverError"])
    BY <1>3, <1>h DEF DeleteLot
  <2>2. PICK r : r = [h EXCEPT !.answer = IF Live(h.lot) THEN "data" ELSE "serverError"]
    OBVIOUS
  <2>3. /\ r \in Request /\ r.op = h.op /\ r.polygon = h.polygon /\ r.category = h.category
        /\ r.lot = h.lot /\ r.answer # "sent"
    BY <2>2, <1>h DEF Request
  <2>4. CASE Live(h.lot)
    <3>1. PICK w : w = [lots[h.lot] EXCEPT !.live = FALSE]
      OBVIOUS
    <3>2. /\ w \in Lot /\ w # None /\ w.polygon = lots[h.lot].polygon
          /\ w.category = lots[h.lot].category /\ ~w.live
      BY <2>1, <2>4, <3>1, <1>r, NoneIsNothing DEF Lot, Live
    <3>3. /\ lots' \in [LotIds -> Lot \cup {None}] /\ lots'[h.lot] = w
          /\ \A k \in LotIds : k # h.lot => lots'[k] = lots[k]
      BY <2>1, <2>4, <3>1, <3>2, <1>t
    <3>4. lots[h.lot] # None
      BY <2>4 DEF Live
    <3> HIDE DEF h
    <3> QED
      BY <2>1, <2>2, <2>3, <3>2, <3>3, <3>4, <1>s
  <2>5. CASE ~Live(h.lot)
    <3>1. lots' = lots
      BY <2>1, <2>5
    <3> HIDE DEF h
    <3> QED
      BY <2>1, <2>2, <2>3, <3>1, <1>s, <1>t
  <2> QED
    BY <2>4, <2>5
<1>4. CASE RefuseRequest(t)
  <2>1. lots' = lots /\ Answered(t, [h EXCEPT !.answer = "serverError"])
    BY <1>4 DEF RefuseRequest, serverVars
  <2>2. PICK r : r = [h EXCEPT !.answer = "serverError"]
    OBVIOUS
  <2>3. /\ r \in Request /\ r.op = h.op /\ r.polygon = h.polygon /\ r.category = h.category
        /\ r.lot = h.lot /\ r.answer = "serverError"
    BY <2>2, <1>h DEF Request
  <2> HIDE DEF h
  <2> QED
    BY <2>1, <2>2, <2>3, <1>s, <1>t
<1> QED
  BY <1>1, <1>2, <1>3, <1>4 DEF ServerRuns

LEMMA ReplyStep ==
  ASSUME EditorInv, NEW t \in Editors, HearReply(t) \/ LoseReply(t)
  PROVE  EditorInv'
<1>t. EditorTypeOK /\ tabs[t] \in Tab /\ EditorOf(t) /\ edits \in Nat
  BY EditorAssumption DEF EditorTypeOK, EditorInv
<1>0. /\ queue[t] # <<>> /\ queue' = [queue EXCEPT ![t] = Tail(@)]
      /\ UNCHANGED serverVars /\ edits' = edits
  BY DEF HearReply, LoseReply
<1>1. PICK r : r = Head(queue[t])
  OBVIOUS
<1>2. /\ r \in Request
      /\ r.op = "update" => r.lot \in LotIds
  BY <1>0, <1>1, HeadParts
<1>3. /\ queue' \in [Editors -> Seq(Request)] /\ queue'[t] = Tail(queue[t])
      /\ \A u \in Editors \ {t} : queue'[u] = queue[u]
  BY <1>0, <1>t, TailTyped
<1>4. /\ failed' \in [Editors -> SUBSET LotIds]
      /\ \A u \in Editors \ {t} : failed'[u] = failed[u]
      /\ failed[t] \subseteq failed'[t]
      /\ r.op = "update" => r.answer = "data" \/ r.lot \in failed'[t]
  <2>1. \A ok \in BOOLEAN : Failures(t, r, ok) \in SUBSET LotIds
    BY <1>2, <1>t DEF Failures, EditorTypeOK
  <2>2. PICK ok \in BOOLEAN : failed' = [failed EXCEPT ![t] = Failures(t, r, ok)]
                              /\ (ok => r.answer = "data")
    <3>1. CASE HearReply(t)
      BY <3>1, <1>1 DEF HearReply
    <3>2. CASE LoseReply(t)
      BY <3>2, <1>1 DEF LoseReply
    <3> QED
      BY <3>1, <3>2
  <2>3. failed'[t] = Failures(t, r, ok)
    BY <2>2, <1>t DEF EditorTypeOK
  <2> QED
    BY <2>1, <2>2, <2>3, <1>t DEF Failures, EditorTypeOK
<1>5. /\ tabs' \in [Editors -> Tab] /\ \A u \in Editors \ {t} : tabs'[u] = tabs[u]
      /\ tabs'[t].timer = tabs[t].timer /\ tabs'[t].open = tabs[t].open
      /\ tabs'[t].category = tabs[t].category
      /\ \A l \in LotIds :
           \/ tabs'[t].lots[l] \in {None, tabs[t].lots[l]}
           \/ r.op = "create" /\ r.answer = "data" /\ l = r.lot /\ tabs'[t].lots[l] = r.polygon
  <2>1. PICK x \in Tab :
          /\ tabs' = [tabs EXCEPT ![t] = x]
          /\ x.timer = tabs[t].timer /\ x.open = tabs[t].open /\ x.category = tabs[t].category
          /\ \A l \in LotIds :
               \/ x.lots[l] \in {None, tabs[t].lots[l]}
               \/ r.op = "create" /\ r.answer = "data" /\ l = r.lot /\ x.lots[l] = r.polygon
    <3>1. CASE HearReply(t)
      <4>1. /\ r.answer # "sent"
            /\ tabs' = [tabs EXCEPT ![t] = IF tabs[t].open THEN Heard(tabs[t], r) ELSE tabs[t]]
        BY <3>1, <1>1 DEF HearReply
      <4>2. /\ Heard(tabs[t], r) \in Tab
            /\ Heard(tabs[t], r).timer = tabs[t].timer
            /\ Heard(tabs[t], r).open = tabs[t].open
            /\ Heard(tabs[t], r).category = tabs[t].category
            /\ \A l \in LotIds :
                 \/ Heard(tabs[t], r).lots[l] \in {None, tabs[t].lots[l]}
                 \/ r.op = "create" /\ r.answer = "data" /\ l = r.lot
                      /\ Heard(tabs[t], r).lots[l] = r.polygon
        BY <4>1, <1>2, <1>t, HeardParts
      <4> QED
        BY <4>1, <4>2, <1>t
    <3>2. CASE LoseReply(t)
      <4>1. tabs' = [tabs EXCEPT ![t] =
              IF tabs[t].open THEN [EndDrawing(tabs[t], r) EXCEPT !.saveStatus = "error"] ELSE tabs[t]]
        BY <3>2, <1>1 DEF LoseReply
      <4>2. 0 \in 0 .. MaxPoints
        BY EditorAssumption
      <4>3. PICK e : e = EndDrawing(tabs[t], r)
        OBVIOUS
      <4>4. /\ e \in Tab /\ e.timer = tabs[t].timer /\ e.open = tabs[t].open
            /\ e.category = tabs[t].category /\ e.lots = tabs[t].lots
        BY <4>2, <4>3, <1>t DEF EndDrawing, Tab
      <4>5. PICK x : x = [e EXCEPT !.saveStatus = "error"]
        OBVIOUS
      <4>6. /\ x \in Tab /\ x.timer = tabs[t].timer /\ x.open = tabs[t].open
            /\ x.category = tabs[t].category /\ x.lots = tabs[t].lots
        BY <4>4, <4>5 DEF Tab
      <4> QED
        BY <4>1, <4>3, <4>5, <4>6, <1>t
    <3> QED
      BY <3>1, <3>2
  <2>2. tabs'[t] = x
    BY <2>1, <1>t DEF EditorTypeOK
  <2> QED
    BY <2>1, <2>2, <1>t DEF EditorTypeOK
<1>6. EditorTypeOK'
  BY <1>0, <1>3, <1>4, <1>5, <1>t DEF EditorTypeOK, serverVars
<1>7. EditorOf(t)'
  BY <1>0, <1>1, <1>3, <1>4, <1>5, <1>6, <1>t, Hearing DEF serverVars
<1> QED
  BY <1>0, <1>3, <1>4, <1>5, <1>6, <1>7, <1>t, TabStep DEF OthersSame

LEMMA CategoryStep ==
  ASSUME EditorInv, (\E c \in Categories : CheckCategory(c)) \/ DeleteCategory
  PROVE  EditorInv'
<1>t. EditorTypeOK /\ edits \in Nat
  BY EditorAssumption DEF EditorTypeOK, EditorInv
<1>0. UNCHANGED <<lots, tabs, queue, edits, failed>>
  BY DEF CheckCategory, DeleteCategory
<1>1. EditorTypeOK' /\ SeenStayOut'
  <2>1. ASSUME NEW c \in Categories, CheckCategory(c)
        PROVE  EditorTypeOK' /\ SeenStayOut'
    <3>1. deletion' = [category |-> c, seen |-> {l \in LotIds : lots[l] # None}]
          /\ InCategory(c) = {} /\ categories' = categories
      BY <2>1 DEF CheckCategory, CategoryIsFree
    <3>2. deletion'.category = c /\ deletion'.seen = {l \in LotIds : lots[l] # None}
      BY <3>1
    <3>3. EditorTypeOK'
      BY <3>1, <1>0, <1>t DEF EditorTypeOK
    <3>4. SeenStayOut'
      BY <3>1, <3>2, <1>0 DEF SeenStayOut, InCategory, Live
    <3> QED
      BY <3>3, <3>4
  <2>2. CASE DeleteCategory
    <3>1. deletion' = None /\ categories' \in [Categories -> {"live", "deleted"}]
      BY <2>2, <1>t DEF DeleteCategory, EditorTypeOK
    <3> QED
      BY <3>1, <1>0, <1>t DEF EditorTypeOK, SeenStayOut
  <2> QED
    BY <2>1, <2>2
<1>2. RowsAreOld'
  BY <1>0 DEF RowsAreOld, EditorInv
<1>3. ASSUME NEW u \in Editors
      PROVE  EditorOf(u)'
  <2>1. RowsFor(u)
    BY <1>0 DEF RowsFor
  <2> QED
    BY <2>1, <1>0, <1>1, <1>t, Undisturbed DEF EditorInv, SameTab
<1> QED
  BY <1>1, <1>2, <1>3 DEF EditorInv

LEMMA EditorStep == EditorInv /\ [EditorNext]_editorVars => EditorInv'
<1> SUFFICES ASSUME EditorInv, [EditorNext]_editorVars PROVE EditorInv'
  OBVIOUS
<1>1. ASSUME NEW t \in Editors, NEW l \in LotIds, OnLot(t, l)
      PROVE  EditorInv'
  BY <1>1, CanvasStep, EditStep DEF OnLot
<1>2. ASSUME NEW t \in Editors, OnCanvas(t)
      PROVE  EditorInv'
  BY <1>2, PageStep, CanvasStep, EditStep DEF OnCanvas
<1>3. ASSUME NEW t \in Editors, ServerRuns(t) \/ HearReply(t) \/ LoseReply(t)
      PROVE  EditorInv'
  BY <1>3, ServerStep, ReplyStep
<1>4. CASE (\E c \in Categories : CheckCategory(c)) \/ DeleteCategory
  BY <1>4, CategoryStep
<1>5. CASE UNCHANGED editorVars
  <2>1. UNCHANGED <<lots, categories, deletion, tabs, queue, edits, failed>>
    BY <1>5 DEF editorVars
  <2> QED
    BY <2>1 DEF EditorInv, EditorTypeOK, RowsAreOld, SeenStayOut, InCategory, Live, EditorOf,
                OwnRequests, OwnTimers, ShownExist, CreatedIsNew, InOrder, NewestWaits,
                AnswerIsTrue, Kept, Arrived, Waiting, IsUpdate
<1> QED
  BY <1>1, <1>2, <1>3, <1>4, <1>5 DEF EditorNext

\* The invariant of the editor, however many edits, tabs and lost answers.
THEOREM EditorInvariance == EditorSpec => []EditorInv
<1>1. EditorInit => EditorInv
  BY EditorInitHolds
<1>2. EditorInv /\ [EditorNext]_editorVars => EditorInv'
  BY EditorStep
<1> QED
  BY <1>1, <1>2, PTL DEF EditorSpec

\* What the organizer drew last is waiting to be saved or saved, unless an error was
\* shown, the lot is gone or another tab saved it: the debounce and the queue lose
\* nothing (planta-editor.tsx:307-328).
THEOREM SavesAreKept == EditorSpec => []EditsAreKept
<1>1. EditorInv => EditsAreKept
  BY DEF EditorInv, EditorOf, Kept, Arrived, EditsAreKept
<1> QED
  BY <1>1, EditorInvariance, PTL

\* A step changes the polygon of a row only as UpdateGeometry asked for by some
\* tab does.
LEMMA PolygonStep ==
  ASSUME EditorInv, EditorNext, NEW l \in LotIds, lots[l] # None,
         lots'[l].polygon # lots[l].polygon
  PROVE  \E t \in Editors :
           /\ UpdateGeometry(t) /\ queue[t] # <<>> /\ Head(queue[t]).lot = l
           /\ lots'[l].polygon = Head(queue[t]).polygon
<1>t. EditorTypeOK /\ lots \in [LotIds -> Lot \cup {None}] /\ lots[l] \in Lot
  BY RowParts DEF EditorInv, EditorTypeOK
<1>1. ASSUME NEW t \in Editors, ServerRuns(t)
      PROVE  \E u \in Editors :
               /\ UpdateGeometry(u) /\ queue[u] # <<>> /\ Head(queue[u]).lot = l
               /\ lots'[l].polygon = Head(queue[u]).polygon
  <2>1. CASE CreateLot(t)
    BY <2>1, <1>t DEF CreateLot
  <2>2. CASE UpdateGeometry(t)
    BY <2>2, <1>t DEF UpdateGeometry, UnderWay, Lot
  <2>3. CASE DeleteLot(t)
    BY <2>3, <1>t DEF DeleteLot, Lot
  <2>4. CASE RefuseRequest(t)
    BY <2>4 DEF RefuseRequest, serverVars
  <2> QED
    BY <1>1, <2>1, <2>2, <2>3, <2>4 DEF ServerRuns
<1>2. lots' # lots
  OBVIOUS
<1>3. \E t \in Editors : ServerRuns(t)
  <2>1. ASSUME NEW t \in Editors, NEW k \in LotIds, OnLot(t, k)
        PROVE  lots' = lots
    BY <2>1 DEF OnLot, SelectLot, Drag, TimerFires, OnlyTab, serverVars
  <2>2. ASSUME NEW t \in Editors, OnCanvas(t) \/ HearReply(t) \/ LoseReply(t)
        PROVE  lots' = lots
    BY <2>2 DEF OnCanvas, Open, Close, StartDrawing, BackToSelect, ClickStage, DoubleClick,
                DeleteSelected, HearReply, LoseReply, OnlyTab, serverVars
  <2>3. ((\E c \in Categories : CheckCategory(c)) \/ DeleteCategory) => lots' = lots
    BY DEF CheckCategory, DeleteCategory
  <2> QED
    BY <1>2, <2>1, <2>2, <2>3 DEF EditorNext
<1> QED
  BY <1>1, <1>3

\* A save never takes a lot back to an older polygon of the same tab
\* (planta-editor.tsx:307-328, lots.ts).
THEOREM SavesGoForward == EditorSpec => NeverBackwards
<1>1. ASSUME EditorInv, EditorNext, NEW l \in LotIds, lots[l] # None,
             lots[l].polygon.by = lots'[l].polygon.by
      PROVE  lots[l].polygon.n <= lots'[l].polygon.n
  <2>t. lots[l].polygon \in Polygon /\ lots[l].polygon.n \in Nat
    BY <1>1, RowParts, PolygonParts DEF EditorInv
  <2>1. CASE lots'[l].polygon = lots[l].polygon
    BY <2>1, <2>t
  <2>2. CASE lots'[l].polygon # lots[l].polygon
    <3>1. PICK t \in Editors :
            /\ UpdateGeometry(t) /\ queue[t] # <<>> /\ Head(queue[t]).lot = l
            /\ lots'[l].polygon = Head(queue[t]).polygon
      BY <1>1, <2>2, PolygonStep
    <3>2. /\ 1 \in DOMAIN queue[t] /\ Head(queue[t]) = queue[t][1]
          /\ Head(queue[t]).op = "update" /\ Head(queue[t]).answer = "sent"
          /\ Head(queue[t]).polygon.by = t
      BY <1>1, <3>1, HeadParts DEF UpdateGeometry, UnderWay
    <3>3. IsUpdate(t, 1, l)
      BY <3>1, <3>2 DEF IsUpdate
    <3> QED
      BY <1>1, <3>1, <3>2, <3>3 DEF EditorInv, EditorOf, InOrder
  <2> QED
    BY <2>1, <2>2
<1>2. EditorInv /\ [EditorNext]_editorVars =>
        [\A l \in LotIds :
           LET old == lots[l].polygon new == lots'[l].polygon IN
           lots[l] # None /\ old.by = new.by => old.n <= new.n]_editorVars
  BY <1>1
<1> QED
  BY <1>2, EditorInvariance, PTL DEF EditorSpec, NeverBackwards

\* A category is not deleted from under a lot the deletion had looked for
\* (lot-categories.ts:131-139).
THEOREM CategoriesGoWhenFree == EditorSpec => DeletedCategoryWasFree
<1>1. ASSUME EditorInv, EditorNext, NEW c \in Categories, categories'[c] # categories[c],
             NEW l \in InCategory(c)
      PROVE  l \notin deletion.seen
  <2>1. categories' # categories
    BY <1>1
  <2>2. ASSUME NEW t \in Editors, NEW k \in LotIds, OnLot(t, k)
        PROVE  categories' = categories
    BY <2>2 DEF OnLot, SelectLot, Drag, TimerFires, OnlyTab, serverVars
  <2>3. ASSUME NEW t \in Editors,
               OnCanvas(t) \/ HearReply(t) \/ LoseReply(t) \/ ServerRuns(t)
        PROVE  categories' = categories
    BY <2>3 DEF OnCanvas, Open, Close, StartDrawing, BackToSelect, ClickStage, DoubleClick,
                DeleteSelected, HearReply, LoseReply, OnlyTab, serverVars, ServerRuns,
                CreateLot, UpdateGeometry, DeleteLot, RefuseRequest
  <2>4. (\E d \in Categories : CheckCategory(d)) => categories' = categories
    BY DEF CheckCategory
  <2>5. DeleteCategory
    BY <1>1, <2>1, <2>2, <2>3, <2>4 DEF EditorNext
  <2>6. deletion # None /\ deletion.category = c
    BY <1>1, <2>5 DEF DeleteCategory, EditorInv, EditorTypeOK
  <2> QED
    BY <1>1, <2>6 DEF EditorInv, SeenStayOut
<1>2. EditorInv /\ [EditorNext]_editorVars =>
        [\A c \in Categories : categories'[c] # categories[c] =>
           \A l \in InCategory(c) : l \notin deletion.seen]_editorVars
  BY <1>1
<1> QED
  BY <1>2, EditorInvariance, PTL DEF EditorSpec, DeletedCategoryWasFree
=============================================================================
