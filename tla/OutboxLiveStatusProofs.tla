----------------------- MODULE OutboxLiveStatusProofs -----------------------
(***************************************************************************)
(* What TLAPS proves of Outbox, for any number of rows, drains and         *)
(* failures and any batch size, and of LiveStatus, which shows what the    *)
(* outbox announces, for any number of lots, tabs and places. The two      *)
(* share no variable.                                                      *)
(*                                                                         *)
(* A row is dispatched once because the batches of the drains are disjoint *)
(* (BatchesAreApart), as SKIP LOCKED makes them, and hold pending rows     *)
(* only.                                                                   *)
(*                                                                         *)
(* LiveTabIsCurrent speaks of a tab that has handled its notifications     *)
(* only. NewsArrives says what it will show once it has: of several        *)
(* notifications about a lot the last one counts. CopiesAgree: a copy the  *)
(* outbox still has to send is of an announcement that was made, so that   *)
(* sending it cannot pass for the last one unless it says the same.        *)
(* PlacesAreAccounted needs that the set of streams is finite.             *)
(***************************************************************************)
EXTENDS Outbox, LiveStatus, FiniteSetTheorems, TLAPS

-----------------------------------------------------------------------------
(* Outbox *)

Batch(d) == todo[d] \cup done[d]

BatchesAreApart == \A c, d \in Drains : c # d => Batch(c) \cap Batch(d) = {}

BatchesArePending == \A d \in Drains : \A r \in Batch(d) : status[r] = "pending"

IInv == TypeOK /\ BatchesAreApart /\ BatchesArePending /\ DispatchedOnce

LEMMA InitHolds == Init => IInv
  BY OutboxAssumption
  DEF Init, IInv, TypeOK, BatchesAreApart, BatchesArePending, DispatchedOnce, Batch, RowStatus

\* A step that only moves rows within the batch of d, or out of it.
LEMMA BatchShrinks ==
  ASSUME IInv, NEW d \in Drains, NEW T \in SUBSET Rows, NEW D \in SUBSET Rows,
         T \cup D \subseteq Batch(d),
         todo' = [todo EXCEPT ![d] = T], done' = [done EXCEPT ![d] = D],
         UNCHANGED <<type, status, jobs, handled>>, faults' \in 0 .. MaxFaults
  PROVE  IInv'
<1>1. TypeOK'
  BY DEF IInv, TypeOK
<1>2. \A c \in Drains : Batch(c)' \subseteq Batch(c)
  BY DEF IInv, TypeOK, Batch
<1>3. BatchesAreApart' /\ BatchesArePending'
  BY <1>2 DEF IInv, BatchesAreApart, BatchesArePending
<1>4. DispatchedOnce'
  BY DEF IInv, DispatchedOnce
<1> QED BY <1>1, <1>3, <1>4 DEF IInv

\* What a drain picks is pending and in no other batch.
LEMMA StartKeeps ==
  ASSUME IInv, NEW d \in Drains, StartDrain(d)
  PROVE  IInv'
<1>1. PICK S \in SUBSET {r \in Rows : Pickable(r)} : todo' = [todo EXCEPT ![d] = S]
  BY DEF StartDrain
<1>2. done[d] = {} /\ UNCHANGED <<type, status, done, jobs, handled, faults>>
  BY DEF StartDrain
<1>3. TypeOK'
  BY <1>1, <1>2 DEF IInv, TypeOK
<1>4. Batch(d)' = S /\ \A c \in Drains \ {d} : Batch(c)' = Batch(c)
  BY <1>1, <1>2 DEF IInv, TypeOK, Batch
<1>5. \A r \in S : status[r] = "pending" /\ \A c \in Drains : r \notin Batch(c)
  BY DEF Pickable, Locked, Batch
<1>6. BatchesAreApart' /\ BatchesArePending'
  BY <1>2, <1>4, <1>5 DEF IInv, BatchesAreApart, BatchesArePending
<1>7. DispatchedOnce'
  BY <1>2 DEF IInv, DispatchedOnce
<1> QED BY <1>3, <1>6, <1>7 DEF IInv

LEMMA CommitKeeps ==
  ASSUME IInv, NEW d \in Drains, CommitDrain(d)
  PROVE  IInv'
<1>1. /\ \A r \in Rows : status'[r] = IF r \in done[d] THEN StatusAfter(r) ELSE status[r]
      /\ \A r \in Rows : jobs'[r] = IF r \in Dispatched(d) THEN jobs[r] + 1 ELSE jobs[r]
      /\ done' = [done EXCEPT ![d] = {}] /\ todo[d] = {}
      /\ UNCHANGED <<type, todo, handled, faults>>
  BY DEF CommitDrain
<1>2. \A r \in Rows : StatusAfter(r) \in {"failed", "processed"}
  BY DEF StatusAfter
<1>3. TypeOK'
  BY <1>1, <1>2 DEF IInv, TypeOK, CommitDrain, RowStatus
<1>4. Batch(d)' = {} /\ \A c \in Drains \ {d} : Batch(c)' = Batch(c)
  BY <1>1 DEF IInv, TypeOK, Batch
<1>5. BatchesAreApart'
  BY <1>4 DEF IInv, BatchesAreApart
<1>6. BatchesArePending'
  <2> SUFFICES ASSUME NEW c \in Drains, c # d, NEW r \in Batch(c)
               PROVE  status'[r] = "pending"
    BY <1>4 DEF BatchesArePending
  <2>1. r \in Rows /\ r \notin done[d] /\ status[r] = "pending"
    BY DEF IInv, TypeOK, BatchesAreApart, BatchesArePending, Batch
  <2> QED BY <1>1, <2>1
<1>7. DispatchedOnce'
  <2> SUFFICES ASSUME NEW r \in Rows
               PROVE  jobs'[r] = IF status'[r] = "processed" THEN 1 ELSE 0
    BY DEF DispatchedOnce
  <2>1. jobs[r] = IF status[r] = "processed" THEN 1 ELSE 0
    BY DEF IInv, DispatchedOnce
  <2>2. CASE r \in done[d]
    <3>1. jobs[r] = 0
      BY <2>1, <2>2 DEF IInv, BatchesArePending, Batch
    <3>2. r \in Dispatched(d) <=> StatusAfter(r) = "processed"
      BY <2>2 DEF Dispatched, StatusAfter
    <3> QED BY <1>1, <2>2, <3>1, <3>2
  <2>3. CASE r \notin done[d]
    BY <1>1, <2>1, <2>3 DEF Dispatched
  <2> QED BY <2>2, <2>3
<1> QED BY <1>3, <1>5, <1>6, <1>7 DEF IInv

LEMMA NextHolds == IInv /\ [Next]_vars => IInv'
<1> SUFFICES ASSUME IInv, [Next]_vars
             PROVE  IInv'
  OBVIOUS
<1>1. CASE Emit \/ (\E r \in Rows : RunHandler(r)) \/ UNCHANGED vars
  <2>1. UNCHANGED <<status, todo, done, jobs, faults>>
    BY <1>1 DEF Emit, RunHandler, vars
  <2>2. type' \in [Rows -> EventTypes \cup {Null}] /\ handled' \subseteq Rows
    BY <1>1 DEF IInv, TypeOK, Emit, RunHandler, vars
  <2> QED BY <2>1, <2>2
      DEF IInv, TypeOK, BatchesAreApart, BatchesArePending, DispatchedOnce, Batch
<1>2. ASSUME NEW d \in Drains, DrainRow(d)
      PROVE  IInv'
  <2>1. PICK r \in Rows : /\ r \in todo[d]
                          /\ todo' = [todo EXCEPT ![d] = todo[d] \ {r}]
                          /\ done' = [done EXCEPT ![d] = done[d] \cup {r}]
    BY <1>2 DEF DrainRow, Smallest
  <2>2. UNCHANGED <<type, status, jobs, handled, faults>>
    BY <1>2 DEF DrainRow
  <2>3. /\ todo[d] \ {r} \in SUBSET Rows /\ done[d] \cup {r} \in SUBSET Rows
        /\ (todo[d] \ {r}) \cup (done[d] \cup {r}) \subseteq Batch(d)
        /\ faults' \in 0 .. MaxFaults
    BY <2>1, <2>2 DEF IInv, TypeOK, Batch
  <2> QED BY <2>1, <2>2, <2>3, BatchShrinks
<1>3. ASSUME NEW d \in Drains, EnqueueRejected(d) \/ DrainFails(d)
      PROVE  IInv'
  <2>1. /\ todo' = [todo EXCEPT ![d] = {}] /\ done' = [done EXCEPT ![d] = {}]
        /\ UNCHANGED <<type, status, jobs, handled>>
    BY <1>3 DEF EnqueueRejected, DrainFails, Rollback
  <2>2. faults' \in 0 .. MaxFaults
    BY <1>3, OutboxAssumption DEF EnqueueRejected, DrainFails, IInv, TypeOK
  <2> QED BY <2>1, <2>2, BatchShrinks
<1> QED BY <1>1, <1>2, <1>3, StartKeeps, CommitKeeps DEF Next, DrainStep

\* The invariant holds, however many drains overlap.
THEOREM Invariance == Spec => []IInv
  BY InitHolds, NextHolds, PTL DEF Spec

\* A row is dispatched once, when it becomes processed (outbox-drain.ts:10).
THEOREM RowsAreDispatchedOnce == Spec => []DispatchedOnce
<1>1. IInv => DispatchedOnce
  BY DEF IInv
<1> QED BY <1>1, Invariance, PTL

-----------------------------------------------------------------------------
(* LiveStatus *)

\* The i-th notification waiting in t is the last one of lot l.
LastNote(t, l, i) ==
  /\ inbox[t][i].lot = l
  /\ \A j \in DOMAIN inbox[t] : j > i => inbox[t][j].lot # l

\* Once it has handled what waits for it, t shows l as s.
WillShow(t, l, s) ==
  /\ (\A i \in DOMAIN inbox[t] : inbox[t][i].lot # l) => shown[t][l] = s
  /\ \A i \in DOMAIN inbox[t] : LastNote(t, l, i) => inbox[t][i].status = s

\* What was broadcast last arrives in every map that has not missed it.
NewsArrives ==
  \A t \in Tabs, l \in Lots :
    Open(t) /\ l \notin missed[t] => WillShow(t, l, sent[l].status)

\* A copy of the last announcement says what it said, on its way through the outbox and
\* once it is broadcast, and nothing has a number that was not given yet.
CopiesAgree ==
  /\ \A c \in late : c.n <= changes /\ (c.n = last[c.lot].n => c.status = last[c.lot].status)
  /\ \A l \in Lots : /\ last[l].n <= changes /\ sent[l].n <= changes
                     /\ sent[l].n = last[l].n => sent[l].status = last[l].status

\* A stream belongs to a page, and a page without one has nothing waiting.
StreamsOfPages ==
  \A t \in Tabs :
    /\ stream[t] # "none" => Open(t)
    /\ ~Listening(t) => inbox[t] = <<>>

LiveInv ==
  /\ LiveTypeOK /\ NewsArrives /\ CopiesAgree /\ StreamsOfPages
  /\ IsFiniteSet(Streaming) /\ PlacesAreAccounted

LEMMA LiveInitHolds == LiveInit => LiveInv
<1> SUFFICES ASSUME LiveInit
             PROVE  LiveInv
  OBVIOUS
<1>1. LiveTypeOK
  <2>1. 0 \in 0 .. MaxSseConn /\ 0 \in 0 .. MaxChanges
    BY LiveAssumption
  <2>2. /\ published \in BOOLEAN /\ held \subseteq Lots /\ released \subseteq Lots
        /\ changes \in 0 .. MaxChanges /\ late \subseteq Change
        /\ activeCount \in 0 .. MaxSseConn
        /\ closing \in 0 .. MaxSseConn /\ orphans \in 0 .. MaxSseConn
    BY <2>1 DEF LiveInit
  <2>3. lots \in [Lots -> LotStatus] /\ sent \in [Lots -> News] /\ last \in [Lots -> News]
    BY <2>1 DEF LiveInit, LotStatus, News
  <2>4. /\ shown \in [Tabs -> [Lots -> LotStatus] \cup {None}]
        /\ stream \in [Tabs -> StreamState] /\ missed \in [Tabs -> SUBSET Lots]
    BY DEF LiveInit, StreamState
  <2>5. inbox \in [Tabs -> Seq(Note)]
    BY DEF LiveInit
  <2> QED BY <2>2, <2>3, <2>4, <2>5 DEF LiveTypeOK
<1>2. NewsArrives /\ CopiesAgree /\ StreamsOfPages
  BY LiveAssumption
  DEF LiveInit, NewsArrives, CopiesAgree, StreamsOfPages, Open, Listening
<1>3. Streaming = {}
  BY DEF LiveInit, Streaming
<1>4. IsFiniteSet(Streaming) /\ Cardinality(Streaming) = 0
  BY <1>3, FS_EmptySet
<1>5. PlacesAreAccounted
  BY <1>4 DEF LiveInit, PlacesAreAccounted, Streaming
<1> QED BY <1>1, <1>2, <1>4, <1>5 DEF LiveInv

-----------------------------------------------------------------------------
(* The count of connections *)

\* A step that moves no stream.
LEMMA PlacesStay ==
  ASSUME LiveInv, UNCHANGED <<stream, connVars>>
  PROVE  IsFiniteSet(Streaming)' /\ PlacesAreAccounted'
  BY DEF LiveInv, Streaming, PlacesAreAccounted, connVars

\* A tab gets a stream.
LEMMA StreamAdded ==
  ASSUME LiveInv, NEW t \in Tabs, stream[t] = "none",
         stream' = [stream EXCEPT ![t] = "starting"]
  PROVE  /\ IsFiniteSet(Streaming) /\ IsFiniteSet(Streaming')
         /\ Cardinality(Streaming) \in Nat
         /\ Cardinality(Streaming') = Cardinality(Streaming) + 1
<1>1. t \notin Streaming /\ Streaming' = Streaming \cup {t}
  BY DEF LiveInv, LiveTypeOK, Streaming
<1> QED BY <1>1, FS_AddElement, FS_CardinalityType DEF LiveInv

\* A tab loses its stream.
LEMMA StreamRemoved ==
  ASSUME LiveInv, NEW t \in Tabs, stream[t] \in {"starting", "listening"},
         stream' = [stream EXCEPT ![t] = "none"]
  PROVE  /\ IsFiniteSet(Streaming) /\ IsFiniteSet(Streaming')
         /\ Cardinality(Streaming) \in Nat
         /\ Cardinality(Streaming') = Cardinality(Streaming) - 1
<1>1. t \in Streaming /\ Streaming' = Streaming \ {t}
  BY DEF LiveInv, LiveTypeOK, Streaming
<1> QED BY <1>1, FS_RemoveElement, FS_CardinalityType DEF LiveInv

-----------------------------------------------------------------------------
(* Announcements *)

\* What a broadcast does to the types, and to streams without a page.
LEMMA BroadcastTypes ==
  ASSUME LiveInv, NEW k \in Lots, NEW s \in LotStatus, NEW n \in 0 .. MaxChanges,
         Broadcast(k, s, n), UNCHANGED <<shown, stream>>
  PROVE  /\ inbox' \in [Tabs -> Seq(Note)] /\ missed' \in [Tabs -> SUBSET Lots]
         /\ sent' \in [Lots -> News] /\ sent'[k] = [status |-> s, n |-> n]
         /\ \A l \in Lots : l # k => sent'[l] = sent[l]
         /\ StreamsOfPages'
<1>1. [lot |-> k, status |-> s] \in Note /\ [status |-> s, n |-> n] \in News
  BY DEF Note, News
<1> QED BY <1>1 DEF LiveInv, LiveTypeOK, Broadcast, StreamsOfPages, Open, Listening

\* A broadcast about k is the last that the maps that may be current hear of k, and
\* nothing else is new in them.
LEMMA BroadcastArrives ==
  ASSUME LiveInv, NEW k \in Lots, NEW s \in LotStatus, NEW n,
         Broadcast(k, s, n), UNCHANGED <<shown, stream>>,
         NEW t \in Tabs, Open(t), NEW l \in Lots, l \notin missed'[t]
  PROVE  /\ l = k => WillShow(t, l, s)'
         /\ l # k => l \notin missed[t] /\ \A v : WillShow(t, l, v) => WillShow(t, l, v)'
<1> DEFINE note == [lot |-> k, status |-> s]
<1>1. inbox[t] \in Seq(Note) /\ note \in Note
  BY DEF LiveInv, LiveTypeOK, Note
<1>2. CASE ~Listening(t)
  <2>1. missed'[t] = missed[t] \cup {k} /\ inbox'[t] = inbox[t]
    BY <1>2 DEF Broadcast
  <2> QED BY <2>1 DEF WillShow, LastNote
<1>3. CASE Listening(t)
  <2>1. missed'[t] = missed[t] \ {k} /\ inbox'[t] = Append(inbox[t], note)
    BY <1>3 DEF Broadcast
  <2> DEFINE len == Len(inbox[t])
  <2>2. /\ DOMAIN inbox[t] = 1 .. len /\ len \in Nat /\ DOMAIN inbox'[t] = 1 .. len + 1
        /\ inbox'[t][len + 1] = note /\ \A i \in 1 .. len : inbox'[t][i] = inbox[t][i]
    BY <1>1, <2>1
  <2>3. l = k => WillShow(t, l, s)'
    BY <2>2 DEF WillShow, LastNote
  <2>4. ASSUME l # k, NEW v, WillShow(t, l, v)
        PROVE  WillShow(t, l, v)'
    <3>1. ASSUME \A i \in DOMAIN inbox'[t] : inbox'[t][i].lot # l
          PROVE  shown'[t][l] = v
      BY <2>2, <2>4, <3>1 DEF WillShow
    <3>2. ASSUME NEW i \in DOMAIN inbox'[t], LastNote(t, l, i)'
          PROVE  inbox'[t][i].status = v
      <4>1. i \in 1 .. len
        BY <2>2, <2>4, <3>2 DEF LastNote
      <4>2. LastNote(t, l, i)
        BY <2>2, <3>2, <4>1 DEF LastNote
      <4> QED BY <2>2, <2>4, <4>1, <4>2 DEF WillShow
    <3> QED BY <3>1, <3>2 DEF WillShow
  <2> QED BY <2>1, <2>3, <2>4
<1> QED BY <1>2, <1>3

LEMMA Numbers ==
  ASSUME LiveInv
  PROVE  /\ changes \in Nat
         /\ \A l \in Lots : /\ last[l].n \in Nat /\ last[l].n <= changes
                            /\ sent[l].n \in Nat /\ sent[l].n <= changes
<1>1. \A l \in Lots : last[l] \in News /\ sent[l] \in News
  BY DEF LiveInv, LiveTypeOK
<1>2. \A l \in Lots : last[l].n \in 0 .. MaxChanges /\ sent[l].n \in 0 .. MaxChanges
  BY <1>1 DEF News
<1>3. changes \in 0 .. MaxChanges
  BY DEF LiveInv, LiveTypeOK
<1>4. \A l \in Lots : last[l].n <= changes /\ sent[l].n <= changes
  BY DEF LiveInv, CopiesAgree
<1> QED BY <1>2, <1>3, <1>4

\* An announcement has a new number, the copy of it says the same, and the copies
\* on their way stay as old as they were.
LEMMA EmitOk ==
  ASSUME LiveInv, NEW k \in Lots, NEW s \in LotStatus, EmitOutboxEvent(k, s)
  PROVE  /\ changes' \in 0 .. MaxChanges /\ changes' = changes + 1
         /\ last' \in [Lots -> News]
         /\ last'[k] = [status |-> s, n |-> changes + 1]
         /\ \A l \in Lots : l # k => last'[l] = last[l]
         /\ late' \subseteq Change
         /\ \A c \in late' : c.n <= changes' /\ (c.n = last'[c.lot].n => c.status = last'[c.lot].status)
         /\ \A l \in Lots : last'[l].n <= changes'
<1> DEFINE new == [lot |-> k, status |-> s, n |-> changes + 1]
<1>1. changes + 1 \in 1 .. MaxChanges /\ changes \in Nat /\ changes' = changes + 1
  BY LiveAssumption DEF LiveInv, LiveTypeOK, EmitOutboxEvent
<1>2. /\ last' = [last EXCEPT ![k] = [status |-> s, n |-> changes + 1]]
      /\ late' = late \cup {new}
  BY DEF EmitOutboxEvent
<1>3. /\ last'[k] = [status |-> s, n |-> changes + 1]
      /\ \A l \in Lots : l # k => last'[l] = last[l]
      /\ last' \in [Lots -> News]
  <2>1. [status |-> s, n |-> changes + 1] \in News
    BY <1>1, LiveAssumption DEF News
  <2> QED BY <1>2, <2>1 DEF LiveInv, LiveTypeOK
<1>4. new \in Change /\ new.n = changes + 1 /\ new.lot = k /\ new.status = s
  BY <1>1 DEF Change
<1>5. ASSUME NEW c \in late
      PROVE  c.n <= changes' /\ (c.n = last'[c.lot].n => c.status = last'[c.lot].status)
  <2>1. c \in Change
    BY DEF LiveInv, LiveTypeOK
  <2>2. c.lot \in Lots /\ c.n \in 1 .. MaxChanges
    BY <2>1 DEF Change
  <2>3. c.n \in Nat
    BY <2>2, LiveAssumption
  <2>4. c.n <= changes /\ (c.n = last[c.lot].n => c.status = last[c.lot].status)
    BY DEF LiveInv, CopiesAgree
  <2> QED BY <1>1, <1>3, <2>2, <2>3, <2>4
<1>6. \A l \in Lots : last'[l].n <= changes'
  BY <1>1, <1>3, Numbers
<1> QED BY <1>1, <1>2, <1>3, <1>4, <1>5, <1>6 DEF LiveInv, LiveTypeOK

\* A change that is announced at once.
LEMMA NotifiedChange ==
  ASSUME LiveInv, NEW k \in Lots, NEW s \in LotStatus, EmitOutboxEventAndNotify(k, s),
         UNCHANGED <<published, lots, shown, stream, connVars>>,
         held' \subseteq Lots, released' \subseteq Lots
  PROVE  LiveInv'
<1>1. EmitOutboxEvent(k, s) /\ Broadcast(k, s, changes + 1)
  BY DEF EmitOutboxEventAndNotify
<1>2. changes + 1 \in 0 .. MaxChanges /\ changes \in Nat
  BY <1>1, LiveAssumption DEF EmitOutboxEvent, LiveInv, LiveTypeOK
<1>3. LiveTypeOK' /\ StreamsOfPages'
  BY <1>1, <1>2, EmitOk, BroadcastTypes DEF LiveInv, LiveTypeOK, connVars
<1>4. /\ sent'[k] = [status |-> s, n |-> changes + 1]
      /\ \A l \in Lots : l # k => sent'[l] = sent[l]
  BY <1>1, <1>2, BroadcastTypes
<1>0. /\ changes' = changes + 1 /\ last'[k] = [status |-> s, n |-> changes + 1]
      /\ \A l \in Lots : l # k => last'[l] = last[l]
  BY <1>1, EmitOk
<1>5. CopiesAgree'
  <2>1. \A l \in Lots : /\ sent'[l].n <= changes'
                        /\ sent'[l].n = last'[l].n => sent'[l].status = last'[l].status
    BY <1>0, <1>4, Numbers DEF LiveInv, CopiesAgree
  <2> QED BY <1>1, <2>1, EmitOk DEF CopiesAgree
<1>6. NewsArrives'
  <2> SUFFICES ASSUME NEW t \in Tabs, NEW l \in Lots, shown'[t] # None, l \notin missed'[t],
                      NEW v, v = sent'[l].status
               PROVE  WillShow(t, l, v)'
    BY DEF NewsArrives, WillShow, Open
  <2>1. Open(t)
    BY DEF Open
  <2>2. CASE l = k
    <3>1. v = s
      BY <1>4, <2>2
    <3> QED BY <1>1, <2>1, <2>2, <3>1, BroadcastArrives
  <2>3. CASE l # k
    <3>1. sent'[l] = sent[l]
      BY <1>4, <2>3
    <3>2. l \notin missed[t] /\ (WillShow(t, l, v) => WillShow(t, l, v)')
      BY <1>1, <2>1, <2>3, BroadcastArrives
    <3> QED BY <2>1, <3>1, <3>2 DEF LiveInv, NewsArrives
  <2> QED BY <2>2, <2>3
<1> QED BY <1>3, <1>5, <1>6, PlacesStay DEF LiveInv, connVars

\* A change that only the outbox will announce.
LEMMA QuietChange ==
  ASSUME LiveInv, NEW k \in Lots, NEW s \in LotStatus, EmitOutboxEvent(k, s),
         UNCHANGED <<published, sent, tabVars, connVars>>,
         lots' \in [Lots -> LotStatus], held' \subseteq Lots, released' \subseteq Lots
  PROVE  LiveInv'
<1>1. LiveTypeOK' /\ StreamsOfPages'
  BY EmitOk
  DEF LiveInv, LiveTypeOK, StreamsOfPages, Open, Listening, tabVars, connVars
<1>0. /\ changes' = changes + 1 /\ last'[k] = [status |-> s, n |-> changes + 1]
      /\ sent' = sent /\ \A l \in Lots : l # k => last'[l] = last[l]
  BY EmitOk
<1>2. CopiesAgree'
  <2>1. \A l \in Lots : /\ sent'[l].n <= changes'
                        /\ sent'[l].n = last'[l].n => sent'[l].status = last'[l].status
    BY <1>0, Numbers DEF LiveInv, CopiesAgree
  <2> QED BY <2>1, EmitOk DEF CopiesAgree
<1>3. NewsArrives'
  BY <1>0 DEF LiveInv, NewsArrives, WillShow, LastNote, Open, tabVars
<1> QED BY <1>1, <1>2, <1>3, PlacesStay DEF LiveInv, connVars, tabVars

\* The outbox's copy of an announcement, at once or late.
LEMMA NotifyChannelKeeps ==
  ASSUME LiveInv, NEW c \in late, NotifyChannel(c)
  PROVE  LiveInv'
<1>1. c \in Change
  BY DEF LiveInv, LiveTypeOK
<1>2. c.lot \in Lots /\ c.status \in LotStatus /\ c.n \in 1 .. MaxChanges
  BY <1>1 DEF Change
<1>3. /\ Broadcast(c.lot, c.status, c.n) /\ late' \subseteq late
      /\ UNCHANGED <<dbVars, last, changes, shown, stream, connVars>>
  BY DEF NotifyChannel
<1>4. c.n \in 0 .. MaxChanges
  BY <1>2, LiveAssumption
<1>5. LiveTypeOK' /\ StreamsOfPages'
  BY <1>2, <1>3, <1>4, BroadcastTypes DEF LiveInv, LiveTypeOK, dbVars, connVars
<1>6. c.n <= changes /\ (c.n = last[c.lot].n => c.status = last[c.lot].status)
  BY DEF LiveInv, CopiesAgree
<1>7. /\ sent'[c.lot] = [status |-> c.status, n |-> c.n]
      /\ \A l \in Lots : l # c.lot => sent'[l] = sent[l]
  BY <1>2, <1>3, <1>4, BroadcastTypes
<1>8. CopiesAgree'
  <2>1. \A l \in Lots : /\ sent'[l].n <= changes
                        /\ sent'[l].n = last[l].n => sent'[l].status = last[l].status
    BY <1>6, <1>7, Numbers DEF LiveInv, CopiesAgree
  <2> QED BY <1>3, <2>1 DEF LiveInv, CopiesAgree
<1>9. NewsArrives'
  <2> SUFFICES ASSUME NEW t \in Tabs, NEW l \in Lots, shown'[t] # None, l \notin missed'[t],
                      NEW v, v = sent'[l].status
               PROVE  WillShow(t, l, v)'
    BY <1>3 DEF NewsArrives, WillShow, Open
  <2>1. Open(t)
    BY <1>3 DEF Open
  <2>2. CASE l = c.lot
    <3>1. v = c.status
      BY <1>7, <2>2
    <3> QED BY <1>2, <1>3, <2>1, <2>2, <3>1, BroadcastArrives
  <2>3. CASE l # c.lot
    <3>1. l \notin missed[t] /\ (WillShow(t, l, v) => WillShow(t, l, v)')
      BY <1>2, <1>3, <2>1, <2>3, BroadcastArrives
    <3> QED BY <1>7, <2>1, <2>3, <3>1 DEF LiveInv, NewsArrives
  <2> QED BY <2>2, <2>3
<1> QED BY <1>3, <1>5, <1>8, <1>9, PlacesStay DEF LiveInv, connVars

-----------------------------------------------------------------------------
(* The page and its stream *)

\* A step of one tab, or of the cleanup of a stream: nothing is announced, and what
\* the map of the tab may have missed is what the step makes it.
LEMMA TabStep ==
  ASSUME LiveInv, NEW t \in Tabs, UNCHANGED <<last, changes, late, sent>>,
         \A u \in Tabs : u # t => shown'[u] = shown[u] /\ inbox'[u] = inbox[u]
                                    /\ missed'[u] = missed[u] /\ stream'[u] = stream[u],
         stream'[t] # "none" => shown'[t] # None,
         stream'[t] # "listening" => inbox'[t] = <<>>,
         \A l \in Lots : \A v : shown'[t] # None /\ l \notin missed'[t] /\ v = sent[l].status
                                => WillShow(t, l, v)'
  PROVE  NewsArrives' /\ CopiesAgree' /\ StreamsOfPages'
<1>1. NewsArrives'
  <2> SUFFICES ASSUME NEW u \in Tabs, NEW l \in Lots, shown'[u] # None, l \notin missed'[u],
                      NEW v, v = sent[l].status
               PROVE  WillShow(u, l, v)'
    BY DEF NewsArrives, WillShow, Open
  <2>1. CASE u = t
    BY <2>1
  <2>2. CASE u # t
    BY <2>2 DEF LiveInv, NewsArrives, WillShow, LastNote, Open
  <2> QED BY <2>1, <2>2
<1>2. CopiesAgree' /\ StreamsOfPages'
  BY DEF LiveInv, CopiesAgree, StreamsOfPages, Open, Listening
<1> QED BY <1>1, <1>2

LEMMA LoadPageKeeps ==
  ASSUME LiveInv, NEW t \in Tabs, LoadPage(t)
  PROVE  LiveInv'
<1>1. /\ stream[t] = "none" /\ inbox[t] = <<>>
      /\ shown' = [shown EXCEPT ![t] = lots]
      /\ missed' = [missed EXCEPT ![t] = {l \in Lots : lots[l] # sent[l].status}]
      /\ UNCHANGED <<dbVars, newsVars, stream, inbox, connVars>>
  BY DEF LoadPage, LotsForDashboard, LiveInv, StreamsOfPages, Listening
<1>2. LiveTypeOK'
  BY <1>1 DEF LiveInv, LiveTypeOK, dbVars, newsVars, connVars
<1>3. shown'[t] = lots /\ missed'[t] = {l \in Lots : lots[l] # sent[l].status}
  BY <1>1 DEF LiveInv, LiveTypeOK
<1>4. \A u \in Tabs : u # t => shown'[u] = shown[u] /\ missed'[u] = missed[u]
  BY <1>1 DEF LiveInv, LiveTypeOK
<1>5. \A l \in Lots : \A v : l \notin missed'[t] /\ v = sent[l].status => WillShow(t, l, v)'
  BY <1>1, <1>3 DEF WillShow
<1>6. NewsArrives' /\ CopiesAgree' /\ StreamsOfPages'
  BY <1>1, <1>4, <1>5, TabStep DEF newsVars
<1> QED BY <1>1, <1>2, <1>6, PlacesStay DEF LiveInv

LEMMA HearKeeps ==
  ASSUME LiveInv, NEW t \in Tabs, Hear(t)
  PROVE  LiveInv'
<1> DEFINE note == Head(inbox[t])
<1>1. /\ inbox[t] \in Seq(Note) /\ inbox[t] # <<>> /\ note \in Note
      /\ stream[t] = "listening" /\ shown[t] # None
  BY DEF Hear, LiveInv, LiveTypeOK, StreamsOfPages, Listening, Open
<1>2. /\ shown' = [shown EXCEPT ![t] = [shown[t] EXCEPT ![note.lot] = note.status]]
      /\ inbox' = [inbox EXCEPT ![t] = Tail(inbox[t])]
      /\ UNCHANGED <<dbVars, newsVars, stream, missed, connVars>>
  BY DEF Hear, Merge
<1>3. note.lot \in Lots /\ note.status \in LotStatus /\ shown[t] \in [Lots -> LotStatus]
  BY <1>1 DEF Note, LiveInv, LiveTypeOK
<1>4. Tail(inbox[t]) \in Seq(Note)
  BY <1>1
<1>5. LiveTypeOK'
  BY <1>2, <1>3, <1>4 DEF LiveInv, LiveTypeOK, dbVars, newsVars, connVars
<1>6. /\ shown'[t] = [shown[t] EXCEPT ![note.lot] = note.status] /\ inbox'[t] = Tail(inbox[t])
      /\ \A u \in Tabs : u # t => shown'[u] = shown[u] /\ inbox'[u] = inbox[u]
  BY <1>2 DEF LiveInv, LiveTypeOK
<1> DEFINE len == Len(inbox[t])
<1>7. /\ len \in Nat /\ len >= 1 /\ DOMAIN inbox[t] = 1 .. len /\ DOMAIN inbox'[t] = 1 .. len - 1
      /\ \A i \in 1 .. len - 1 : inbox'[t][i] = inbox[t][i + 1]
      /\ inbox[t][1] = note
  BY <1>1, <1>6
<1>8. ASSUME NEW l \in Lots, NEW v, WillShow(t, l, v)
      PROVE  WillShow(t, l, v)'
  <2>1. ASSUME \A i \in DOMAIN inbox'[t] : inbox'[t][i].lot # l
        PROVE  shown'[t][l] = v
    <3>1. \A j \in 2 .. len : inbox[t][j].lot # l
      <4> SUFFICES ASSUME NEW j \in 2 .. len
                   PROVE  inbox[t][j].lot # l
        OBVIOUS
      <4>1. j - 1 \in 1 .. len - 1 /\ (j - 1) + 1 = j
        BY <1>7
      <4> QED BY <1>7, <2>1, <4>1
    <3>2. CASE note.lot = l
      <4>1. LastNote(t, l, 1) /\ 1 \in DOMAIN inbox[t]
        BY <1>7, <3>1, <3>2 DEF LastNote
      <4>2. note.status = v
        BY <1>7, <1>8, <4>1 DEF WillShow
      <4> QED BY <1>3, <1>6, <3>2, <4>2
    <3>3. CASE note.lot # l
      <4>1. \A i \in DOMAIN inbox[t] : inbox[t][i].lot # l
        <5> SUFFICES ASSUME NEW i \in 1 .. len
                     PROVE  inbox[t][i].lot # l
          BY <1>7
        <5>1. i = 1 \/ i \in 2 .. len
          BY <1>7
        <5> QED BY <1>7, <3>1, <3>3, <5>1
      <4> QED BY <1>3, <1>6, <1>8, <3>3, <4>1 DEF WillShow
    <3> QED BY <3>2, <3>3
  <2>2. ASSUME NEW i \in DOMAIN inbox'[t], LastNote(t, l, i)'
        PROVE  inbox'[t][i].status = v
    <3>1. i + 1 \in DOMAIN inbox[t] /\ inbox'[t][i] = inbox[t][i + 1]
      BY <1>7
    <3>2. ASSUME NEW j \in DOMAIN inbox[t], j > i + 1
          PROVE  inbox[t][j].lot # l
      <4>1. j - 1 \in DOMAIN inbox'[t] /\ j - 1 > i /\ (j - 1) + 1 = j
        BY <1>7, <3>2
      <4>2. inbox'[t][j - 1] = inbox[t][j]
        BY <1>7, <4>1
      <4> QED BY <2>2, <4>1, <4>2 DEF LastNote
    <3>3. LastNote(t, l, i + 1)
      BY <2>2, <3>1, <3>2 DEF LastNote
    <3> QED BY <1>8, <3>1, <3>3 DEF WillShow
  <2> QED BY <2>1, <2>2 DEF WillShow
<1>9. NewsArrives' /\ CopiesAgree' /\ StreamsOfPages'
  <2>1. \A l \in Lots : \A v : l \notin missed'[t] /\ v = sent[l].status
                             => WillShow(t, l, v)'
    BY <1>1, <1>2, <1>8 DEF LiveInv, NewsArrives, Open
  <2>2. shown'[t] # None
    BY <1>1, <1>3, <1>6, NoneIsNoMap
  <2> QED BY <1>1, <1>2, <1>6, <2>1, <2>2, TabStep DEF newsVars
<1> QED BY <1>2, <1>5, <1>9, PlacesStay DEF LiveInv

\* A step that leaves the map of t, what it missed and what waits for it alone.
LEMMA StreamStep ==
  ASSUME LiveInv, NEW t \in Tabs, UNCHANGED <<dbVars, newsVars, shown, inbox, missed>>,
         \A u \in Tabs : u # t => stream'[u] = stream[u],
         stream'[t] # "none" => Open(t),
         stream'[t] # "listening" => inbox[t] = <<>>
  PROVE  NewsArrives' /\ CopiesAgree' /\ StreamsOfPages'
<1>1. \A l \in Lots : \A v : shown'[t] # None /\ l \notin missed'[t] /\ v = sent[l].status
                         => WillShow(t, l, v)'
  BY DEF LiveInv, NewsArrives, WillShow, LastNote, Open
<1> QED BY <1>1, TabStep DEF newsVars, Open

\* The places, as numbers.
LEMMA Places ==
  ASSUME LiveInv
  PROVE  /\ activeCount \in Nat /\ closing \in Nat /\ orphans \in Nat /\ MaxSseConn \in Nat
         /\ activeCount <= MaxSseConn /\ Cardinality(Streaming) \in Nat
         /\ activeCount = Cardinality(Streaming) + closing + orphans
<1>1. activeCount = Cardinality(Streaming) + closing + orphans
  BY DEF LiveInv, PlacesAreAccounted, Streaming
<1>2. activeCount \in 0 .. MaxSseConn /\ closing \in 0 .. MaxSseConn /\ orphans \in 0 .. MaxSseConn
  BY DEF LiveInv, LiveTypeOK
<1>3. Cardinality(Streaming) \in Nat
  BY FS_CardinalityType DEF LiveInv
<1> QED BY <1>1, <1>2, <1>3, LiveAssumption

\* What a step that moves streams or places has to show of them.
LEMMA PlacesKept ==
  ASSUME LiveInv, UNCHANGED <<dbVars, newsVars>>,
         shown' \in [Tabs -> [Lots -> LotStatus] \cup {None}],
         stream' \in [Tabs -> StreamState],
         inbox' \in [Tabs -> Seq(Note)], missed' \in [Tabs -> SUBSET Lots],
         closing' \in Nat, orphans' \in Nat, activeCount' <= MaxSseConn,
         IsFiniteSet(Streaming'), Cardinality(Streaming') \in Nat,
         activeCount' = Cardinality(Streaming') + closing' + orphans'
  PROVE  LiveTypeOK' /\ IsFiniteSet(Streaming)' /\ PlacesAreAccounted'
<1>1. /\ activeCount' \in 0 .. MaxSseConn
      /\ closing' \in 0 .. MaxSseConn /\ orphans' \in 0 .. MaxSseConn
  BY Places
<1>2. PlacesAreAccounted' /\ IsFiniteSet(Streaming)'
  BY DEF PlacesAreAccounted, Streaming
<1> QED BY <1>1, <1>2 DEF LiveInv, LiveTypeOK, dbVars, newsVars

LEMMA ConnectKeeps ==
  ASSUME LiveInv, NEW t \in Tabs, Connect(t)
  PROVE  LiveInv'
<1>1. /\ Open(t) /\ stream[t] = "none" /\ activeCount < MaxSseConn
      /\ activeCount' = activeCount + 1
      /\ stream' = [stream EXCEPT ![t] = "starting"]
      /\ UNCHANGED <<dbVars, newsVars, shown, inbox, missed, closing, orphans>>
  BY DEF Connect
<1>2. /\ \A u \in Tabs : u # t => stream'[u] = stream[u]
      /\ stream' \in [Tabs -> StreamState] /\ inbox[t] = <<>>
  BY <1>1 DEF LiveInv, LiveTypeOK, StreamState, StreamsOfPages, Listening
<1>3. NewsArrives' /\ CopiesAgree' /\ StreamsOfPages'
  BY <1>1, <1>2, StreamStep
<1>4. IsFiniteSet(Streaming') /\ Cardinality(Streaming') = Cardinality(Streaming) + 1
  BY <1>1, StreamAdded
<1>5. /\ activeCount' <= MaxSseConn /\ Cardinality(Streaming') \in Nat
      /\ activeCount' = Cardinality(Streaming') + closing' + orphans'
      /\ closing' \in Nat /\ orphans' \in Nat
  BY <1>1, <1>4, Places
<1>6. LiveTypeOK' /\ IsFiniteSet(Streaming)' /\ PlacesAreAccounted'
  BY <1>1, <1>2, <1>4, <1>5, PlacesKept DEF LiveInv, LiveTypeOK
<1> QED BY <1>3, <1>6 DEF LiveInv

\* A refusal, or LISTEN answered: the set of streams stays.
LEMMA SameStreamsKeep ==
  ASSUME LiveInv, NEW t \in Tabs, RefuseStream(t) \/ Listen(t)
  PROVE  LiveInv'
<1>1. UNCHANGED <<dbVars, newsVars, shown, inbox, missed, connVars>> /\ Open(t)
  BY DEF RefuseStream, Listen, LiveInv, StreamsOfPages
<1>2. /\ \A u \in Tabs : u # t => stream'[u] = stream[u]
      /\ stream' \in [Tabs -> StreamState] /\ inbox[t] = <<>>
      /\ Streaming' = Streaming
  BY DEF RefuseStream, Listen, LiveInv, LiveTypeOK, StreamState, StreamsOfPages, Listening,
         Streaming
<1>3. NewsArrives' /\ CopiesAgree' /\ StreamsOfPages'
  BY <1>1, <1>2, StreamStep
<1>4. LiveTypeOK' /\ IsFiniteSet(Streaming)' /\ PlacesAreAccounted'
  BY <1>1, <1>2, Places, PlacesKept DEF LiveInv, LiveTypeOK, connVars
<1> QED BY <1>3, <1>4 DEF LiveInv

LEMMA ListenFailsKeeps ==
  ASSUME LiveInv, NEW t \in Tabs, ListenFails(t)
  PROVE  LiveInv'
<1>1. /\ stream[t] = "starting" /\ orphans' = orphans + 1
      /\ stream' = [stream EXCEPT ![t] = "none"]
      /\ UNCHANGED <<dbVars, newsVars, shown, inbox, missed, activeCount, closing>>
  BY DEF ListenFails
<1>2. /\ \A u \in Tabs : u # t => stream'[u] = stream[u]
      /\ stream' \in [Tabs -> StreamState] /\ stream'[t] = "none" /\ inbox[t] = <<>>
  BY <1>1 DEF LiveInv, LiveTypeOK, StreamState, StreamsOfPages, Listening
<1>3. NewsArrives' /\ CopiesAgree' /\ StreamsOfPages'
  BY <1>1, <1>2, StreamStep
<1>4. IsFiniteSet(Streaming') /\ Cardinality(Streaming') = Cardinality(Streaming) - 1
  BY <1>1, StreamRemoved
<1>5. Cardinality(Streaming') \in Nat
  BY <1>4, FS_CardinalityType
<1>6. /\ activeCount' <= MaxSseConn /\ closing' \in Nat /\ orphans' \in Nat
      /\ activeCount' = Cardinality(Streaming') + closing' + orphans'
  BY <1>1, <1>4, Places
<1>7. LiveTypeOK' /\ IsFiniteSet(Streaming)' /\ PlacesAreAccounted'
  BY <1>1, <1>2, <1>4, <1>5, <1>6, PlacesKept DEF LiveInv, LiveTypeOK
<1> QED BY <1>3, <1>7 DEF LiveInv

\* EndStream takes one connection from the streams to those being closed or lost.
LEMMA EndStreamCounts ==
  ASSUME LiveInv, NEW t \in Tabs, EndStream(t), activeCount' = activeCount
  PROVE  /\ IsFiniteSet(Streaming') /\ Cardinality(Streaming') \in Nat
         /\ closing' \in Nat /\ orphans' \in Nat /\ activeCount' <= MaxSseConn
         /\ activeCount' = Cardinality(Streaming') + closing' + orphans'
         /\ stream' \in [Tabs -> StreamState] /\ inbox' \in [Tabs -> Seq(Note)]
         /\ stream'[t] = "none" /\ inbox'[t] = <<>>
         /\ \A u \in Tabs : u # t => stream'[u] = stream[u] /\ inbox'[u] = inbox[u]
<1>1. /\ stream' = [stream EXCEPT ![t] = "none"]
      /\ inbox' = [inbox EXCEPT ![t] = <<>>]
      /\ closing' = IF stream[t] = "listening" THEN closing + 1 ELSE closing
      /\ orphans' = IF stream[t] = "starting" THEN orphans + 1 ELSE orphans
  BY DEF EndStream
<1>2. /\ stream' \in [Tabs -> StreamState] /\ stream'[t] = "none"
      /\ \A u \in Tabs : u # t => stream'[u] = stream[u]
  BY <1>1 DEF LiveInv, LiveTypeOK, StreamState
<1>3. /\ inbox' \in [Tabs -> Seq(Note)] /\ inbox'[t] = <<>>
      /\ \A u \in Tabs : u # t => inbox'[u] = inbox[u]
  BY <1>1 DEF LiveInv, LiveTypeOK
<1>4. CASE stream[t] \in {"starting", "listening"}
  <2>1. IsFiniteSet(Streaming') /\ Cardinality(Streaming') = Cardinality(Streaming) - 1
    BY <1>1, <1>4, StreamRemoved
  <2>2. Cardinality(Streaming') \in Nat
    BY <2>1, FS_CardinalityType
  <2>3. \/ closing' = closing /\ orphans' = orphans + 1
        \/ closing' = closing + 1 /\ orphans' = orphans
    BY <1>1, <1>4
  <2>4. /\ closing' \in Nat /\ orphans' \in Nat /\ activeCount' <= MaxSseConn
        /\ activeCount' = Cardinality(Streaming') + closing' + orphans'
    BY <2>1, <2>3, Places
  <2> QED BY <1>2, <1>3, <2>1, <2>2, <2>4
<1>5. CASE stream[t] \notin {"starting", "listening"}
  <2>1. Streaming' = Streaming
    BY <1>2, <1>5 DEF Streaming
  <2>2. IsFiniteSet(Streaming') /\ closing' = closing /\ orphans' = orphans
    BY <1>1, <1>5, <2>1 DEF LiveInv
  <2> QED BY <1>2, <1>3, <2>1, <2>2, Places
<1> QED BY <1>4, <1>5

LEMMA DisconnectKeeps ==
  ASSUME LiveInv, NEW t \in Tabs, Disconnect(t)
  PROVE  LiveInv'
<1>1. /\ EndStream(t) /\ UNCHANGED <<dbVars, newsVars, shown, activeCount>>
      /\ missed' = [missed EXCEPT ![t] = missed[t] \cup {inbox[t][i].lot : i \in DOMAIN inbox[t]}]
  BY DEF Disconnect
<1>2. \A i \in DOMAIN inbox[t] : inbox[t][i].lot \in Lots
  <2>1. inbox[t] \in Seq(Note)
    BY DEF LiveInv, LiveTypeOK
  <2>2. \A i \in DOMAIN inbox[t] : inbox[t][i] \in Note
    BY <2>1
  <2> QED BY <2>2 DEF Note
<1>3. /\ missed' \in [Tabs -> SUBSET Lots]
      /\ missed'[t] = missed[t] \cup {inbox[t][i].lot : i \in DOMAIN inbox[t]}
      /\ \A u \in Tabs : u # t => missed'[u] = missed[u]
  BY <1>1, <1>2 DEF LiveInv, LiveTypeOK
<1>4. ASSUME NEW l \in Lots, NEW v, shown'[t] # None, l \notin missed'[t],
             v = sent[l].status
      PROVE  WillShow(t, l, v)'
  <2>1. WillShow(t, l, v) /\ \A i \in DOMAIN inbox[t] : inbox[t][i].lot # l
    BY <1>1, <1>3, <1>4 DEF LiveInv, NewsArrives, Open
  <2>2. shown'[t][l] = v /\ inbox'[t] = <<>>
    BY <1>1, <2>1, EndStreamCounts DEF WillShow
  <2>3. DOMAIN inbox'[t] = {}
    BY <2>2
  <2> QED BY <2>2, <2>3 DEF WillShow
<1>5. NewsArrives' /\ CopiesAgree' /\ StreamsOfPages'
  BY <1>1, <1>3, <1>4, EndStreamCounts, TabStep DEF newsVars
<1>6. LiveTypeOK' /\ IsFiniteSet(Streaming)' /\ PlacesAreAccounted'
  BY <1>1, <1>3, EndStreamCounts, PlacesKept DEF LiveInv, LiveTypeOK
<1> QED BY <1>5, <1>6 DEF LiveInv

LEMMA LeavePageKeeps ==
  ASSUME LiveInv, NEW t \in Tabs, LeavePage(t)
  PROVE  LiveInv'
<1>1. /\ EndStream(t) /\ UNCHANGED <<dbVars, newsVars, activeCount>>
      /\ shown' = [shown EXCEPT ![t] = None] /\ missed' = [missed EXCEPT ![t] = {}]
  BY DEF LeavePage, Leave
<1>2. /\ shown' \in [Tabs -> [Lots -> LotStatus] \cup {None}] /\ shown'[t] = None
      /\ missed' \in [Tabs -> SUBSET Lots]
      /\ \A u \in Tabs : u # t => shown'[u] = shown[u] /\ missed'[u] = missed[u]
  BY <1>1 DEF LiveInv, LiveTypeOK
<1>3. NewsArrives' /\ CopiesAgree' /\ StreamsOfPages'
  BY <1>1, <1>2, EndStreamCounts, TabStep DEF newsVars
<1>4. LiveTypeOK' /\ IsFiniteSet(Streaming)' /\ PlacesAreAccounted'
  BY <1>1, <1>2, EndStreamCounts, PlacesKept
<1> QED BY <1>3, <1>4 DEF LiveInv

LEMMA EndConnectionKeeps ==
  ASSUME LiveInv, EndConnection
  PROVE  LiveInv'
<1>1. /\ closing > 0 /\ closing' = closing - 1 /\ UNCHANGED <<dbVars, newsVars, tabVars, orphans>>
      /\ activeCount' = IF activeCount = 0 THEN 0 ELSE activeCount - 1
  BY DEF EndConnection, CountAfterEnd
<1>2. NewsArrives' /\ CopiesAgree' /\ StreamsOfPages'
  BY <1>1 DEF LiveInv, NewsArrives, CopiesAgree, StreamsOfPages, WillShow, LastNote, Open,
              Listening, newsVars, tabVars
<1>3. Streaming' = Streaming /\ UNCHANGED <<shown, stream, inbox, missed>>
  BY <1>1 DEF Streaming, tabVars
<1>4. /\ closing' \in Nat /\ orphans' \in Nat /\ activeCount' <= MaxSseConn
      /\ activeCount' = Cardinality(Streaming) + closing' + orphans'
  BY <1>1, Places
<1>5. LiveTypeOK' /\ IsFiniteSet(Streaming)' /\ PlacesAreAccounted'
  BY <1>1, <1>3, <1>4, Places, PlacesKept DEF LiveInv, LiveTypeOK
<1> QED BY <1>2, <1>5 DEF LiveInv

-----------------------------------------------------------------------------
\* Nothing changes that the invariant speaks of, types apart.
LEMMA LiveStutter ==
  ASSUME LiveInv, UNCHANGED liveVars \/ PublishEvent \/ \E l \in Lots : FailPayment(l)
  PROVE  LiveInv'
<1>1. /\ UNCHANGED <<lots, newsVars, tabVars, connVars>> /\ published' \in BOOLEAN
      /\ held' \subseteq Lots /\ released' \subseteq Lots
  BY DEF LiveInv, LiveTypeOK, PublishEvent, FailPayment, liveVars, dbVars
<1>2. LiveTypeOK'
  BY <1>1 DEF LiveInv, LiveTypeOK, newsVars, tabVars, connVars
<1>3. NewsArrives' /\ CopiesAgree' /\ StreamsOfPages'
  BY <1>1 DEF LiveInv, NewsArrives, CopiesAgree, StreamsOfPages, WillShow, LastNote, Open,
              Listening, newsVars, tabVars
<1> QED BY <1>1, <1>2, <1>3, PlacesStay DEF LiveInv, tabVars

LEMMA OfLotKeeps ==
  ASSUME LiveInv, NEW l \in Lots, OfLot(l)
  PROVE  LiveInv'
<1>1. CASE Reserve(l)
  BY <1>1, NotifiedChange DEF Reserve, LotStatus, LiveInv, LiveTypeOK
<1>2. CASE Release(l)
  BY <1>2, NotifiedChange DEF Release, LotStatus, LiveInv, LiveTypeOK
<1>3. CASE AnnounceReleased(l)
  BY <1>3, QuietChange DEF AnnounceReleased, LotStatus, LiveInv, LiveTypeOK
<1>4. CASE Sell(l)
  BY <1>4, QuietChange DEF Sell, LotStatus, LiveInv, LiveTypeOK
<1> QED BY <1>1, <1>2, <1>3, <1>4, LiveStutter DEF OfLot

LEMMA LiveNextHolds == LiveInv /\ [LiveNext]_liveVars => LiveInv'
<1> SUFFICES ASSUME LiveInv, [LiveNext]_liveVars
             PROVE  LiveInv'
  OBVIOUS
<1>1. ASSUME NEW t \in Tabs, OfTab(t)
      PROVE  LiveInv'
  BY <1>1, LoadPageKeeps, LeavePageKeeps, HearKeeps, ConnectKeeps, SameStreamsKeep,
     ListenFailsKeeps, DisconnectKeeps DEF OfTab
<1> QED BY <1>1, LiveStutter, OfLotKeeps, NotifyChannelKeeps, EndConnectionKeeps DEF LiveNext

\* The invariant of the live map, for any number of tabs and lots.
THEOREM LiveInvariance == LiveSpec => []LiveInv
  BY LiveInitHolds, LiveNextHolds, PTL DEF LiveSpec

\* A tab that listens and has missed nothing shows what was broadcast last, and the last
\* change if that was it (emit.ts:102-125, planta-editor.tsx:276-295).
THEOREM LiveTabsAreCurrent == LiveSpec => []LiveTabIsCurrent
<1>1. LiveInv => LiveTabIsCurrent
  BY DEF LiveInv, StreamsOfPages, CopiesAgree, NewsArrives, WillShow, LiveTabIsCurrent,
         UpToDate, Listening
<1> QED BY <1>1, LiveInvariance, PTL

\* Every place under MAX_SSE_CONN is accounted for (listen-pool.ts:89-97).
THEOREM AllPlacesAreAccounted == LiveSpec => []PlacesAreAccounted
<1>1. LiveInv => PlacesAreAccounted
  BY DEF LiveInv
<1> QED BY <1>1, LiveInvariance, PTL
=============================================================================
