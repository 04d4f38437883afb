----------------------------- MODULE LiveStatus -----------------------------
(***************************************************************************)
(* The buyers' map of one event: the page that renders it                  *)
(* (marketplace/[eventId]/planta/page.tsx, dashboard.ts, marketplace.ts),   *)
(* the stream that keeps it current (api/sse/.../lots/route.ts and          *)
(* lib/sse/listen-pool.ts) and the two ways a lot.status_changed reaches    *)
(* the stream: NOTIFY in the transaction that made the change               *)
(* (lib/outbox/emit.ts) and again, a minute later, through the outbox       *)
(* (outbox/handlers/lot-status-changed.ts, tasks/lot-notify-channel.ts).    *)
(***************************************************************************)
EXTENDS Naturals, Sequences, FiniteSets

CONSTANTS
  Tabs, Lots,
  MaxSseConn,    \* MAX_SSE_CONN, 200 in production
  MaxChanges,    \* bound on lot.status_changed events
  MaxInbox,      \* bound on notifications waiting for onmessage
  None

ASSUME LiveAssumption ==
  /\ MaxSseConn \in Nat \ {0} /\ MaxChanges \in Nat /\ MaxInbox \in Nat
  /\ None \notin Tabs \cup Lots

LotStatus == {"available", "reserved", "sold"}

ASSUME NoneIsNoMap == None \notin [Lots -> LotStatus]

\* A lot.status_changed, numbered in the order of COMMIT.
Change == [lot : Lots, status : LotStatus, n : 1 .. MaxChanges]

\* A tab's stream, as the server has it.  "starting": reservePgListenConnection
\* has returned and LISTEN is under way; "refused": answered 401, 403 or 404,
\* after which an EventSource never tries again.
StreamState == {"none", "starting", "listening", "refused"}

VARIABLES
  published,   \* events.status = 'published'
  lots,        \* lots[l].status
  held,        \* lots with an unreleased reservation
  released,    \* lots whose lot.released has not been handled
  last,        \* last[l]: the last status announced of l, and its number
  changes,     \* announcements so far
  late,        \* announcements on their way through the outbox
  sent,        \* sent[l]: the status broadcast last of l, and the number of its change
  shown,       \* shown[t]: buyerLotStatuses, None while t shows no map
  stream,      \* stream[t]: StreamState
  inbox,       \* inbox[t]: notifications not yet handled by onmessage
  missed,      \* missed[t]: lots of which t has not the status broadcast last
  activeCount, \* listen-pool's count of connections
  closing,     \* connections between their abort event and conn.end()
  orphans      \* connections nobody will end

dbVars   == <<published, lots, held, released>>
newsVars == <<last, changes, late, sent>>
tabVars  == <<shown, stream, inbox, missed>>
connVars == <<activeCount, closing, orphans>>
liveVars == <<dbVars, newsVars, tabVars, connVars>>

Note == [lot : Lots, status : LotStatus]

\* A status of a lot and the number of its change, 0 before the first.
News == [status : LotStatus, n : 0 .. MaxChanges]

LiveTypeOK ==
  /\ published \in BOOLEAN
  /\ lots \in [Lots -> LotStatus]
  /\ held \subseteq Lots /\ released \subseteq Lots
  /\ last \in [Lots -> News] /\ sent \in [Lots -> News]
  /\ changes \in 0 .. MaxChanges
  /\ late \subseteq Change
  /\ shown \in [Tabs -> [Lots -> LotStatus] \cup {None}]
  /\ stream \in [Tabs -> StreamState]
  /\ inbox \in [Tabs -> Seq(Note)]
  /\ missed \in [Tabs -> SUBSET Lots]
  /\ activeCount \in 0 .. MaxSseConn
  /\ closing \in 0 .. MaxSseConn /\ orphans \in 0 .. MaxSseConn

LiveInit ==
  /\ published = FALSE
  /\ lots = [l \in Lots |-> "available"]
  /\ held = {} /\ released = {}
  /\ last = [l \in Lots |-> [status |-> "available", n |-> 0]]
  /\ changes = 0
  /\ late = {}
  /\ sent = last
  /\ shown = [t \in Tabs |-> None]
  /\ stream = [t \in Tabs |-> "none"]
  /\ inbox = [t \in Tabs |-> <<>>]
  /\ missed = [t \in Tabs |-> {}]
  /\ activeCount = 0 /\ closing = 0 /\ orphans = 0

Open(t)      == shown[t] # None
Listening(t) == stream[t] = "listening"
Room         == \A t \in Tabs : Len(inbox[t]) < MaxInbox

-----------------------------------------------------------------------------
(* Announcing a lot's status *)

\* pg_notify: every connection that listens hears it, in the order of COMMIT.
Broadcast(l, status, n) ==
  /\ Room
  /\ inbox' = [t \in Tabs |-> IF Listening(t) THEN Append(inbox[t], [lot |-> l, status |-> status])
                                              ELSE inbox[t]]
  /\ missed' = [t \in Tabs |-> CASE ~Open(t)     -> {}
                                 [] Listening(t) -> missed[t] \ {l}
                                 [] OTHER        -> missed[t] \cup {l}]
  /\ sent' = [sent EXCEPT ![l] = [status |-> status, n |-> n]]

\* emitOutboxEvent('lot.status_changed'): a row the outbox delivers later.
EmitOutboxEvent(l, status) ==
  /\ changes < MaxChanges
  /\ changes' = changes + 1
  /\ last' = [last EXCEPT ![l] = [status |-> status, n |-> changes + 1]]
  /\ late' = late \cup {[lot |-> l, status |-> status, n |-> changes + 1]}

\* emitOutboxEventAndNotify: the row, and NOTIFY at the same COMMIT.
EmitOutboxEventAndNotify(l, status) ==
  /\ EmitOutboxEvent(l, status)
  /\ Broadcast(l, status, changes + 1)

\* outbox.drain, outbox.lot-status-changed and lot.notify-channel: each job
\* runs at least once, in no order, and looks at nothing but its payload.
NotifyChannel(c) ==
  /\ c \in late
  /\ late' \in {late, late \ {c}}
  /\ Broadcast(c.lot, c.status, c.n)
  /\ UNCHANGED <<dbVars, last, changes, shown, stream, connVars>>

-----------------------------------------------------------------------------
(* What happens to lots; see Reservations and SaleSaga *)

\* confirm() of a buyer's sidebar calls reserveLotForCurrentVendor, which
\* reads lots.status and leaves it "available".  The sidebar stays open whatever
\* the stream says of its lot: the tab may be any.  A refusal changes nothing;
\* the tab that got the lot goes on to the checkout (LeavePage).
Reserve(l) ==
  /\ \E t \in Tabs : Open(t)
  /\ lots[l] = "available" /\ l \notin held
  /\ held' = held \cup {l}
  /\ EmitOutboxEventAndNotify(l, "reserved")
  /\ UNCHANGED <<published, lots, released, shown, stream, connVars>>

\* releaseReservationInTenant and reservation.expire.
Release(l) ==
  /\ l \in held
  /\ held' = held \ {l} /\ released' = released \cup {l}
  /\ EmitOutboxEventAndNotify(l, "available")
  /\ UNCHANGED <<published, lots, shown, stream, connVars>>

\* outbox.payment-failed ends a hold without a word to the map.
FailPayment(l) ==
  /\ l \in held
  /\ held' = held \ {l} /\ released' = released \cup {l}
  /\ UNCHANGED <<published, lots, newsVars, tabVars, connVars>>

\* outbox.lot-released, at least once: no look at the lot, and no NOTIFY.
AnnounceReleased(l) ==
  /\ l \in released
  /\ released' \in {released, released \ {l}}
  /\ EmitOutboxEvent(l, "available")
  /\ UNCHANGED <<published, lots, held, sent, tabVars, connVars>>

\* outbox.payment-paid: no NOTIFY either.
Sell(l) ==
  /\ l \in held
  /\ held' = held \ {l}
  /\ lots' = [lots EXCEPT ![l] = "sold"]
  /\ EmitOutboxEvent(l, "sold")
  /\ UNCHANGED <<published, released, sent, tabVars, connVars>>

\* publishEventInTenant; there is no way back to draft.
PublishEvent ==
  /\ ~published
  /\ published' = TRUE
  /\ UNCHANGED <<lots, held, released, newsVars, tabVars, connVars>>

-----------------------------------------------------------------------------
(* The page *)

\* getOpenEventByIdInTenant: drafts are not found.
EventIsOpen == published

\* getEventLotsForDashboardInTenant: lots.status, whoever holds or was assigned the
\* lot; one that somebody holds is rendered as available.
LotsForDashboard == lots

\* MarketplacePlantaPage.
LoadPage(t) ==
  /\ EventIsOpen /\ ~Open(t) /\ stream[t] = "none"
  /\ shown' = [shown EXCEPT ![t] = LotsForDashboard]
  /\ missed' = [missed EXCEPT ![t] = {l \in Lots : lots[l] # sent[l].status}]
  /\ UNCHANGED <<dbVars, newsVars, stream, inbox, connVars>>

\* Mutant: a grey lot does not turn green again.
Merge_StaysGrey(prev, note) ==
  IF prev[note.lot] = "reserved" /\ note.status = "available" THEN prev
  ELSE [prev EXCEPT ![note.lot] = note.status]

\* setBuyerLotStatuses
Merge(prev, note) == [prev EXCEPT ![note.lot] = note.status]

\* onmessage
Hear(t) ==
  LET note == Head(inbox[t]) IN
  /\ inbox[t] # <<>>
  /\ shown' = [shown EXCEPT ![t] = Merge(@, note)]
  /\ inbox' = [inbox EXCEPT ![t] = Tail(@)]
  /\ UNCHANGED <<dbVars, newsVars, stream, missed, connVars>>

-----------------------------------------------------------------------------
(* The stream *)

\* Mutant: an end that frees no place.
CountAfterEnd_Kept(n) == n

CountAfterEnd(n) == IF n = 0 THEN 0 ELSE n - 1

\* GET: session, tenant and event are looked up, and a connection is reserved.
\* At the cap the stream is closed at once, with status 200, and the
\* EventSource tries again: nothing changes.
Connect(t) ==
  /\ Open(t) /\ stream[t] = "none"
  /\ activeCount < MaxSseConn
  /\ activeCount' = activeCount + 1
  /\ stream' = [stream EXCEPT ![t] = "starting"]
  /\ UNCHANGED <<dbVars, newsVars, shown, inbox, missed, closing, orphans>>

\* The session is over, or the organization is no longer the active one.
RefuseStream(t) ==
  /\ Open(t) /\ stream[t] = "none"
  /\ stream' = [stream EXCEPT ![t] = "refused"]
  /\ UNCHANGED <<dbVars, newsVars, shown, inbox, missed, connVars>>

\* conn.listen resolves, and the listener of abort is registered.
Listen(t) ==
  /\ stream[t] = "starting"
  /\ stream' = [stream EXCEPT ![t] = "listening"]
  /\ UNCHANGED <<dbVars, newsVars, shown, inbox, missed, connVars>>

\* conn.listen rejects: start() rejects with it, and nobody calls conn.end().
ListenFails(t) ==
  /\ stream[t] = "starting"
  /\ stream' = [stream EXCEPT ![t] = "none"]
  /\ orphans' = orphans + 1
  /\ UNCHANGED <<dbVars, newsVars, shown, inbox, missed, activeCount, closing>>

\* Mutant: the stream's cancel() ends the connection too.
EndStream_Twice(t) ==
  /\ stream' = [stream EXCEPT ![t] = "none"]
  /\ inbox' = [inbox EXCEPT ![t] = <<>>]
  /\ closing' = IF stream[t] = "listening" THEN closing + 2 ELSE closing
  /\ orphans' = IF stream[t] = "starting" THEN orphans + 1 ELSE orphans

\* The browser is gone.  Its abort event finds the listener only once LISTEN
\* is done: before that, the connection is ended by nobody.
EndStream(t) ==
  /\ stream' = [stream EXCEPT ![t] = "none"]
  /\ inbox' = [inbox EXCEPT ![t] = <<>>]
  /\ closing' = IF stream[t] = "listening" THEN closing + 1 ELSE closing
  /\ orphans' = IF stream[t] = "starting" THEN orphans + 1 ELSE orphans

\* The network drops.  The EventSource tries again; what it missed is not
\* replayed, and what was on its way is lost.
Disconnect(t) ==
  /\ stream[t] \in {"starting", "listening"}
  /\ EndStream(t)
  /\ missed' = [missed EXCEPT ![t] = @ \cup {inbox[t][i].lot : i \in DOMAIN inbox[t]}]
  /\ UNCHANGED <<dbVars, newsVars, shown, activeCount>>

\* The cleanup of the abort listener reaches conn.end().
EndConnection ==
  /\ closing > 0
  /\ closing' = closing - 1
  /\ activeCount' = CountAfterEnd(activeCount)
  /\ UNCHANGED <<dbVars, newsVars, tabVars, orphans>>

Leave(t) ==
  /\ EndStream(t)
  /\ shown' = [shown EXCEPT ![t] = None]
  /\ missed' = [missed EXCEPT ![t] = {}]
  /\ UNCHANGED activeCount

LeavePage(t) ==
  /\ Open(t)
  /\ Leave(t)
  /\ UNCHANGED <<dbVars, newsVars>>

-----------------------------------------------------------------------------
OfLot(l) == Reserve(l) \/ Release(l) \/ FailPayment(l) \/ AnnounceReleased(l) \/ Sell(l)

OfTab(t) ==
  \/ LoadPage(t) \/ LeavePage(t) \/ Hear(t)
  \/ Connect(t) \/ RefuseStream(t) \/ Listen(t) \/ ListenFails(t) \/ Disconnect(t)

LiveNext ==
  \/ PublishEvent
  \/ \E l \in Lots : OfLot(l)
  \/ \E c \in late : NotifyChannel(c)
  \/ \E t \in Tabs : OfTab(t)
  \/ EndConnection

LiveSpec == LiveInit /\ [][LiveNext]_liveVars

\* An EventSource tries again for as long as its page is open, and a place that
\* comes free over and over is not taken by others every time; LISTEN is
\* answered or fails; the cleanup of a stream runs to its end.
LiveFairness ==
  /\ \A t \in Tabs : SF_liveVars(Connect(t)) /\ WF_liveVars(Listen(t) \/ ListenFails(t))
  /\ WF_liveVars(EndConnection)

LiveFairSpec == LiveSpec /\ LiveFairness

-----------------------------------------------------------------------------
(* Properties *)

UpToDate(t, l) == Listening(t) /\ inbox[t] = <<>> /\ l \notin missed[t]

\* A tab that listens, has handled what it was sent and has missed nothing of
\* a lot shows the status that was broadcast last, however many copies the
\* outbox sends late or again: all such tabs agree.  It is the lot's last change
\* if that is what was broadcast last; an older copy may have come after it
\* (emit.ts:102-125, planta-editor.tsx:276-295).
LiveTabIsCurrent ==
  \A t \in Tabs, l \in Lots : UpToDate(t, l) =>
    /\ shown[t][l] = sent[l].status
    /\ sent[l].n = last[l].n => shown[t][l] = last[l].status

\* Every place under the cap belongs to a stream, to one being closed, or to a
\* connection lost before its LISTEN was done: reconnecting neither frees a
\* place twice nor keeps one (listen-pool.ts:89-97, route.ts:154-173).
Streaming == {t \in Tabs : stream[t] \in {"starting", "listening"}}

PlacesAreAccounted == activeCount = Cardinality(Streaming) + closing + orphans

\* With more tabs than places, a page that waits for its stream for ever does so
\* only because every place is, from some time on, that of a tab that listens or
\* of a lost connection: no place stays free, and none with a stream that was
\* closed (listen-pool.ts:68-73, 92-97).
Waiting(t) == Open(t) /\ stream[t] = "none"

PlacesAreTaken == Cardinality({t \in Tabs : Listening(t)}) + orphans = MaxSseConn

StreamComesBack == \A t \in Tabs : <>[]Waiting(t) => <>[]PlacesAreTaken

=============================================================================
