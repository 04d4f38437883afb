# FB_EVENTOS: formal models

FB_EVENTOS lets the organizer of an event rent its lots (stands) to vendors. A
vendor signs up and is approved, holds a lot for 15 minutes, adds extras, pays
through Pagar.me, and signs a contract at ZapSign; the organizer draws the floor
plan and everybody watches it change. The system is a Next.js application and a
graphile-worker process that share one PostgreSQL database, an object store
(MinIO), and browsers that follow the lots through server-sent events.

This directory holds TLA+ models of the parts of it in which several processes,
tabs, requests or messages meet, TLC runs that check them on small instances,
and TLAPS proofs that hold for every instance.

Source paths below are relative to `src/src/` of the repository.

## 1. The system and its hard parts

All shared state is in PostgreSQL, whose transactions run READ COMMITTED. Web
requests, five concurrent worker jobs and external webhooks write to it. A
server action runs in one transaction (`withTenant`); a browser tab sends its
server actions one at a time.

| Component | State | Operations | What is hard | What makes it correct |
|---|---|---|---|---|
| Reservation (`lib/actions/reservations.ts`) | `lot_reservations`, an advisory lock per lot | reserve, release | two vendors at once; facts read without row locks | at most one active hold per lot; only approved vendors hold |
| Expiry (`jobs/tasks/reservation-expire.ts`) | rows in the job's memory | scan, release one row per transaction | overlapping jobs, stale rows, failing rows, death | no live hold expires; every hold ends; each end has its event |
| Vendor desk (`lib/actions/fornecedores.ts`, `signup-fornecedor.ts`, `brasilapi.ts`, `lot-assignments.ts`, `jobs/tasks/email-send-status-update.ts`) | `vendors`, `cnpj_cache`, `lot_assignments`, accounts, jobs | register, sign up, look a CNPJ up, approve, reject, mail, assign | concurrent decisions; a signup that fails halfway; an old cached answer; mail sent twice | one decision and its mail; assigned once, to an approved vendor; who signed up can log in |
| Floor plan editor (`components/eventos/planta-editor.tsx`, `lib/actions/lots.ts`, `lot-categories.ts`) | the tab's copy, a timer per lot, the queue of actions; `lots`, `lot_categories` | draw, drag, save, delete, delete a category | debounced saves, two tabs, lost answers, category deleted under a new lot | no edit is lost or taken back; "Salvando" ends |
| Live status (`app/api/sse/events/[eventId]/lots/route.ts`, `lib/sse/listen-pool.ts`, `jobs/tasks/lot-notify-channel.ts`, the buyers' page) | a counter of connections, streams, what a tab shows | render, connect, NOTIFY, copy through the outbox, disconnect | each change announced twice, in any order; abort during opening | the map is current; every place under the cap is somebody's |
| Cart (`lib/actions/cart.ts`, `components/checkout/checkout-sidebar.tsx`) | `cart_addon_lines`; ticks and line ids in the tab | add, remove, total, checkout | check-then-insert; prices that change; two tabs | the limit is exceeded by no more than what was under way; what is shown is charged |
| Checkout and charges (`lib/actions/checkout.ts`, `payments.ts`, `lib/pagarme/client.ts`) | `payments`, `pagarme_orders`, orders at Pagar.me | create an order inside a transaction | order without payment, payment without order, hold that lapses | a settlement reaches its payment |
| Payment webhook (`app/api/webhooks/pagarme/route.ts`, `jobs/tasks/payment-process-webhook.ts`) | `payment_webhooks_inbox`, jobs | accept, fetch, apply, mark | repeated, reordered and early events; concurrent jobs; stale answers | the status is the gateway's; status and event go together; nothing is lost |
| Payment simulator (`lib/actions/payment-simulator.ts`) | `payments` | settle by hand | check and update in different transactions | a sale reaches its lot; nobody else's hold is touched |
| Outbox (`lib/outbox/emit.ts`, `jobs/tasks/outbox-drain.ts`, `jobs/outbox/handlers/`) | `outbox_events`, job queue | emit, drain, dispatch | overlapping and dying drains, poison rows | dispatched once, handled eventually |
| Sale handlers (`jobs/outbox/handlers/payment-paid.ts`, `payment-failed.ts`, `lot-released.ts`) | lots, holds, announcements | sell, free, announce | late and repeated runs | only a paid payment sells; only the payer's hold ends |
| Contracts (`lib/actions/contracts.ts`, `jobs/tasks/pdf-generate-contract.ts`, `zapsign-send-contract.ts`, `app/api/webhooks/zapsign/route.ts`, `lib/actions/zapsign-simulator.ts`) | `contracts`, `zapsign_documents`, documents at ZapSign | emit, generate, send, receive, simulate | jobs that run again, concurrent deliveries, stale answers | the status is a document's; terminal is final |
| Files (`lib/actions/vendor-docs.ts`, `minio-presign.ts`, the two uploaders) | objects in MinIO, `vendor_docs`, `events.planta_*`, URLs | sign, PUT, confirm, download, delete | the browser writes to the store by itself; a URL outlives its use; lost answers | what is filed was looked at; "Enviado" means filed |
| Tenancy (`db/with-tenant.ts`, `db/index.ts`, `lib/auth/set-active-org.ts`, `lib/actions/select-org.ts`, `onboarding.ts`, `admin/`) | session, `member`, `organization`, a setting on each pooled connection | switch, act, onboard, administer | a setting on a shared connection; rights removed meanwhile; two connections per request | statements see their tenant's rows; only members write; requests end |
| Forms (all pages that create something) | what a tab shows and has sent | press, type, hear | double presses, lost and late answers | one thing per press |
| Worker (`jobs/runner.ts`, `jobs/enqueue.ts`) | job queue | schedule every minute, run, retry | at-least-once, five at a time | the fairness the others rely on |

Interactions. Every business write that others must learn of writes an
`outbox_events` row in the same transaction; the drain turns rows into handler
jobs; the webhook routes turn foreign events into jobs. Checkout reads the hold
that expiry may end and the cart that another tab may change. The editor and the
sale handlers change the lots that the buyers' map shows. The approval that the
vendor desk gives is what a reservation asks for.

`PROJECT.json` lists all components, modelled or not, and under `hazards` each
of the hard parts at its line with the properties that watch it.

## 2. Modules

| Module | Models |
|---|---|
| `LotLease` | abstract specification: a lot is leased to one hold at a time, is free in between, and a hold that ended never comes back |
| `Reservations` | every writer of a hold's end and of what a reservation reads: reserve (one step per SQL statement), release, the expire job, the handlers, the organizer |
| `PaymentWebhook` | from a charge's POST to its settled payment: route, inbox, job, gateway |
| `Outbox` | emit, drain, dispatch |
| `SaleSaga` | hold, checkout, settlement, sale: composes what the three modules above abstract |
| `Contracts` | emission, PDF, send, signature |
| `VendorDesk` | registration, signup, CNPJ lookup, decision, mail, assignment |
| `PlantaEditor` | the organizer's floor plan in several tabs, and the lot and category actions behind it |
| `LiveStatus` | the buyers' floor plan: page, stream, the two ways of an announcement |
| `Cart` | the add-ons of one reservation in several tabs, and the price that is charged |
| `Uploads` | documents and floor plans between browser, server and object store |
| `Tenancy` | for whom a request acts, and on which connection |
| `Forms` | what a press on each form's button sends and creates |
| `*Proofs` | theorems: `ReservationsProofs`, `PaymentWebhookProofs`, `ContractsProofs`, `TenancyProofs`, and for two modules each `OutboxLiveStatusProofs`, `SaleSagaCartProofs`, `VendorDeskFormsProofs`, `UploadsPlantaEditorProofs` |
| `MC*` | model values and symmetry for TLC |

Conventions. A table is a variable as committed; what a transaction has not
committed is in the variable of its request (`tx`, `call`, `webhook`, ...). A
step ends where another process can come in: at an SQL statement whose answer
others can change, at a call to another system, at COMMIT, at an answer. A
`Mutant` operator before a definition is that definition with a plausible bug;
no specification uses it.

### Reservations

`rows[r]` is a row of `lot_reservations` (`state` is "active" while
`released_at IS NULL`), `lots`, `vendors` their rows. `tx[t]` is a
`reserveLotInTenant` in progress: `TryLock` (pg_try_advisory_xact_lock, which
never waits), `RecheckLot`, `CheckVendor`, `InsertRow`, `CommitReserve`. Each is a
step because another transaction can commit between two statements. An
uncommitted row is `tx[t].id`; a second INSERT for its lot waits for it, as the
unique index makes it. `scan[s]` is what an expire job holds in memory after its
SELECT, whose locks are already gone. Handlers that write in one statement each
are single steps: `SettlePaid`, `SettleFailed`, `AnnounceReleased`; which payment
settles which hold is left to `SaleSaga`, so here any hold may be settled at any
time, which is more than the program does. `releaseReservationInTenant` has no
caller besides its server action and the tests; it is modelled as exported.

One vendor suffices for the run since no code compares the vendors of two
holds; vendors matter in `SaleSaga`, which has two.

### PaymentWebhook

An order at Pagar.me is a pair of statuses; it changes by itself and every
change raises an event. `Deliver` may happen at any time and again. A job is
`queued`, `fetched` (has the API's answer, perhaps old by now), `read` (has seen
a payment that is not terminal), `committed`, `done`, and may fall back to
`queued` at any point, so that status, outbox row and inbox mark are hit by
every crash. A charge may also end with its POST failed: the pending payment is
then rolled back or committed, because `next()` of the action middleware hands
an error on as a value and `withTenant` commits (`lib/actions/safe-action.ts:75`).

### Outbox

`todo[d]` and `done[d]` are the rows a drain has locked; nothing it does is
visible before `CommitDrain`. `Poison` are rows whose `add_job` the database
always rejects. The catch block's UPDATE runs in the aborted transaction, so
`EnqueueRejected` is a rollback of the batch.

### SaleSaga

Rows of `lot_reservations` are a sequence, because `findReservationByPayment`
takes the oldest one. The gateway's settlement writes an event without lot and
reservation, the simulator's one with both: `HandlePaid` sells for the
second only. Where the other modules show details it has one step:
reserving is the lease (`Reservations` implements it), a settlement by webhook is
one step (`PaymentWebhook`), an event is in a set from which handlers take it at
least once (`Outbox`). The organizer's own status changes are left out: with
them a lot can be "sold" without a payment on purpose.

### Contracts

One contract, since contracts share nothing. `Post` and `CommitSend` are two
steps because ZapSign has the document before the database does. A webhook
delivery is `FetchDoc`, `BeginTx`, `CommitTx`; `RowLocked` is the row lock its
first UPDATE takes. The events carry only the token: the code reads nothing
else of them.

### VendorDesk

`call[c]` is one request at a time per slot: a registration or signup (lookup of
the CNPJ, then the rows), a decision (the UPDATE, which waits for the row, then
the email job, then COMMIT), an assignment (check of the vendor, check of the
lot, INSERT). `cache` is the row of `cnpj_cache`, `registry` what the tax
authority would say today; `Midnight` passes time and `CompanyCloses` makes a
cached answer wrong. A signup makes the account outside the transaction that
makes the member row and the vendor. `mails` and `jobs` are pairs of a vendor and
the status the mail tells: a mail leaves `jobs` only with its audit row.

### PlantaEditor and LiveStatus

A tab of `PlantaEditor` keeps the lots it loaded, a pending save per lot (the
one-second timer), the polygon under the mouse, a selection, and the state of
the saving badge; `queue[t]` are its server actions, the first one under way. A
polygon is the tab that drew it and a number, so that "older" means something. A
tab never hears of what another one does. In `LiveStatus` a tab is the buyer's:
what it shows per lot, its stream (none, starting, listening, refused), its inbox
and what it has missed while it had no stream. `late` are the copies of
announcements on their way through the outbox, `last` and `sent` the news announced
and the news broadcast last of a lot, each with its number; a failed payment ends
a hold without any news (`FailPayment`). `activeCount` is the counter of
`listen-pool.ts`, `closing` the streams whose cleanup runs, `orphans` the
connections that an abort during LISTEN leaves behind.

### Cart

A line has the price it was added at; a tab has the props of its last render and
the line ids of its last answers. `call[t]` is a server action of the tab, whose
check and INSERT are separate steps. `LotPrice` and the total are the code's arithmetic in
centavos: base price plus area times the category's rate, rounded. Prices may be edited once.

### Uploads

A key is random, so each is drawn once. The browser PUTs by itself; `valid` are
the keys whose URL still works and `PutOther` is any later use of it. Confirming
is `StatObject` (what the server sees), then `Confirm` or `Refuse`; answers can be
lost. An object is "good" (right type and size) or "bad".

### Tenancy

`guc[c]` is `app.current_tenant_id` on the connection that request `c` holds, and
`left` what the setting may be on an idle connection. A request begins with
statements of its own (`Arrive`: getSession and the check of the right), takes a
connection (`Begin`), may need another one while it holds it (`Nested`), and ends
with `Commit` or `Throw`. The tables behind row-level security are one
predicate on the setting; the policy of `session` is modelled as written.
`admitted` is history: who had a way into which organization.

### Forms

`Openings` says which form is open in which tab. A press sends a server action
unless the button is disabled, which depends on the form: `useTransition` stays
pending until the navigation has landed, react-hook-form's `isSubmitting` does
not. `rows[t][e]` counts what was created from one entry; `taken` is what the
database makes unique. The CNPJ field looks its number up on blur, in the same
queue of actions, and one badge shows the answers. Three assumptions about the
frameworks, which are not in the repository, are made here: React keeps a
transition pending until the `push` or `refresh` in it is on the screen, Next.js
sends the server actions of a tab in turn, and next-safe-action turns a thrown
error into a result.

## 3. Runs

| Run | Instance | Shows |
|---|---|---|
| `reservations` | 1 lot, 1 vendor, 2 transactions, 2 expire jobs, 2 holds, TTL 1, batch 1 | one active hold per lot (`AtMostOneActive`); "reserved" is announced for good only of a reserved lot (`ReservedAnnouncementIsTrue`); every release has its event (`ReleasesAreEmitted`); holders are approved (`OnlyApprovedHold`); no expiry before the TTL (`EarlyEndIsDeliberate`); refinement of `LotLease` (`ImplementsLotLease`); every hold ends (`EveryHoldEnds`) |
| `payment_webhook` | 1 payment, 3 events | a payment's status is one its order had (`StatusFromGateway`), it is settled exactly when its event and mail are written (`SettledIffEmitted`), and what Pagar.me reports is settled in the end (`ReportedIsSettled`) |
| `outbox` | 4 rows of 2 types, 2 drains, batch 2, 1 poison row, 2 failures | dispatched once (`DispatchedOnce`), handled eventually (`EveryEventHandled`) |
| `sale_saga` | 1 lot, 2 vendors, 2 payments, 2 holds | only a paid payment sells (`SoldLotIsPaid`), no handler ends somebody else's hold (`SettlementSparesOthers`), a simulated sale reaches its lot (`SimulatedSaleCompletes`) |
| `contracts` | a real and a simulated document, 1 send job, 3 events | the status is backed by a document (`StatusIsBacked`), a signed contract has its PDF (`SignedHasPdf`), terminal is final with one document (`TerminalWithOneDoc`), a settled document settles its contract (`SettledDocSettlesContract`) |
| `vendor_desk` | 2 vendors, 1 applicant, 1 lot, 2 requests, cache of 1 day, 1 midnight | one decision per vendor, and its mail (`MailsTellTheDecision`); a lot is assigned once, to an approved vendor (`AssignmentIsSound`); who signed up can log in (`VendorCanLogIn`); a verified CNPJ was active within the cache's life (`VerifiedWasActive`) |
| `planta_editor` | 2 tabs, 2 lots, 1 there at the start, 1 category, 2 edits, 1 vertex per polygon | what a tab shows is saved or on its way (`EditsAreKept`), no save goes back (`NeverBackwards`), a category is deleted only if it had no lot when looked at (`DeletedCategoryWasFree`), "Salvando" ends (`SavingEnds`) |
| `live_status` | 3 tabs, 1 lot, cap 2, 2 changes, inbox 2 | a listening tab that has missed nothing shows what was broadcast last, however many late copies there are, and the last change if no older copy came after it (`LiveTabIsCurrent`); the counter is the streams, the closing ones and the orphans (`PlacesAreAccounted`); a tab that waits for its stream for ever does so only while listening tabs and orphans have every place for ever (`StreamComesBack`) |
| `cart` | 2 tabs, 1 add-on of limit 1, 3 lines, 2 prices, 2 rates, 1 edit | the limit is exceeded by at most what was under way (`OverLimitIsBounded`), ticks are the cart (`TicksAreTheCart`), the total shown is charged (`ShownIsCharged`) |
| `uploads` | 3 files, 2 tabs, 1 download | what is filed was looked at and is within bounds unless its URL was used again (`FiledWasChecked`); "Enviado" means filed (`SentIsFiled`) |
| `tenancy` | 2 users, 2 organizations, 2 requests, 2 connections | who writes once had the right (`WritesWhereAdmitted`), statements see the rows of their tenant and sessions are found (`PoliciesShowTheRightRows`), requests end unless the pool is starved (`EveryRequestEnds`) |
| `forms` | 2 tabs, 3 entries (1 with wrong digits), 2 presses, 2 lookups, 1 lost answer | one press, one row, but for lost answers and the signup form (`CreatedOnce`); the badge is about the number in the field (`BadgeIsAboutField`) |

Each property of a run has a mutant in `PROJECT.json`: a change of one
definition, as a plausible bug would make it, under which the same run finds the
property violated.

Properties that hold only with an exception name it, because the exception is
what the code does: `OverLimitIsBounded` (how far the limit is exceeded),
`FiledWasChecked` (`replaced`), `LiveTabIsCurrent` (its second half: `sent[l].n = last[l].n`),
`TerminalWithOneDoc` (one document), `EveryRequestEnds` (`Starved`),
`StreamComesBack` (every place taken), `CreatedOnce` (`lost`, `again`).

Bounds. Every bound is a CONSTANT. Two transactions, requests, tabs, drains or
jobs are what a race needs. Two holds let a lot go through a hold, its
successor and a stale job that still knows the first; `MaxTime` lets both live
their TTL and lapse. `MaxEvents` bounds the `lot.released` events that repeated
handlers write for one hold. Three webhook events let a pending answer, a
settlement and a later change of the order be in three jobs. Four outbox rows of
two types with a batch of two let a batch be full, a row without handler stand in
front, and a poison row stand behind. Two edits let a save be under way while the
next one waits, in one tab or in two. Two changes of a lot let a late copy
come after a newer announcement. Three tabs for two places make one wait, behind
tabs that listen, streams being closed and lost connections. Three cart lines let
two tabs pass one check and a line be added again. One midnight makes a cached
answer old. `MaxRepeats` is the number of mails out whose send job still waits to
be repeated. Two connections
for two requests let both be held while both want one more. Two presses and one
lost answer let the press repeat before, during and after the answer.

Symmetry is used where the properties are invariants or are about one step
(`cart`, `vendor_desk`, `uploads`, `forms`), never with liveness. Deadlock is
checked in `tenancy`, where a request can always arrive or fail; the other
models stop when their bounded supply of ids, events, edits or clock ticks is
used up.

Fairness.

- `Reservations`: `jobs/runner.ts` enqueues `reservation.expire` every 60 seconds
  for ever, so a scan starts while rows are expired (weak, per job slot), a job
  that runs goes on, and the transaction of a row does not fail every time it is
  tried (strong). Users are not fair: they may walk away.
- `PaymentWebhook`: Pagar.me delivers until it gets a 200; a queued job is taken;
  a job retried 25 times is not interrupted at the same step every time (strong).
- `Outbox`: a drain per minute; failures other than poison are finitely many.
- `SaleSaga`: dispatched handlers run.
- `Contracts`: ZapSign delivers until it gets a 200, and a delivery eventually
  passes each of its steps (strong, as others hold the row lock in between).
- `PlantaEditor`: a timer fires and the server answers (weak). Nothing makes the
  organizer act, and an answer that is lost breaks the page.
- `LiveStatus`: an EventSource reconnects by itself for as long as its page is
  open. A place may be free only now and then, and a tab that tries every few
  seconds does not come too late every time, so this is strong; LISTEN is answered
  or fails, and a cleanup ends (weak). Nothing makes a tab give its place up.
- `Tenancy`: the pool serves its waiting list in order, so a request that wants a
  connection again and again when one is free gets it (strong); statements are
  answered. Nobody has to send a request.
- `VendorDesk`, `Cart`, `Uploads` and `Forms` state safety only: nothing in them
  has to happen, since every step waits for a user.

## 4. Proofs

Every safety property of every run is proved, for every value of the constants:
any number of lots, tabs, requests, jobs, documents and lines, and any bound.
Liveness is only model-checked.

| Module | Of | Theorems |
|---|---|---|
| `ReservationsProofs` | `Reservations` | `TypeCorrect`, `NoDoubleHold`, `AnnouncedIsReserved`, `ReleaseIsEmitted`, `HoldersAreApproved`, `ScansAreLate`, `EarlyEnd`, `Refinement` (of `LotLease`) |
| `PaymentWebhookProofs` | `PaymentWebhook` | `StatusComesFromGateway`, `SettlementIsEmitted` |
| `OutboxLiveStatusProofs` | `Outbox` | `RowsAreDispatchedOnce` |
| | `LiveStatus` | `LiveTabsAreCurrent`, `AllPlacesAreAccounted` |
| `SaleSagaCartProofs` | `SaleSaga` | `SoldLotsArePaid`, `OthersAreSpared` |
| | `Cart` | `LimitIsNearlyKept`, `TabsTickTheCart`, `CheckoutsChargeShown` |
| `ContractsProofs` | `Contracts` | `StatusesAreBacked`, `SignedContractsHavePdf`, `TerminalIsFinal` |
| `VendorDeskFormsProofs` | `VendorDesk` | `TypeCorrect`, `VendorsAreTold`, `AssignmentsAreSound`, `VendorsCanLogIn`, `VerifiedVendorsWereActive` |
| | `Forms` | `PressingTwiceCreatesOnce`, `BadgeFollowsField` |
| `UploadsPlantaEditorProofs` | `Uploads` | `FiledObjectsWereChecked`, `ToldFilesAreFiled` |
| | `PlantaEditor` | `SavesAreKept`, `SavesGoForward`, `CategoriesGoWhenFree` |
| `TenancyProofs` | `Tenancy` | `WritesAreAdmitted`, `RightRowsAreShown` |

Four proof modules are about two components that work next to each other: what
the outbox announces is shown by the live map, the editor draws on the plan that
was uploaded, the forms send the requests of the vendor desk, a checkout starts a
sale. The two specifications of such a module are independent; no theorem uses
both, and their names differ where they would collide (`LiveInit`, `EditorSpec`,
`FormsNext`, `cartVars`, `None` for `Null`).

For each component a theorem `Invariance` (`LiveInvariance`, `EditorInvariance`,
`FormsInvariance`, `CartInvariance`) says that the inductive invariant `IInv`
(`LiveInv`, `EditorInv`, `FormsInv`, `CartInv`) holds always. It contains the type
invariant. The lemmas before it show, action by action, that a step keeps it. TLC
checked the last four on the instances of the runs before they were proved.

Assumptions are on constants only, and TLC evaluates them on every run: bounds
are numbers, `Null` is none of the ids, and `NullIsNothing` (`NullIsNoRow`): it is
no record either (for `None`: `NoneIsNoMap`, `NoneIsNothing`). `Cart` has a finite
set of tabs, not empty: without a tab, and with a limit of 0, the strict bound on
what exceeds the limit would not hold at the start.

Why the properties are not inductive, and what `IInv` adds:

- `Reservations`. A commit would break `AtMostOneActive` unless the lot had no
  active row and no other uncommitted one. `LocksHeld`: a transaction past `TryLock`
  owns its lot's advisory lock, so two cannot be at work on one lot.
  `IdsAreFresh`: an uncommitted id is nobody else's. `UncommittedIsAlone`: while a row
  is uncommitted its lot has no active one (the index was asked at INSERT, and
  only a holder of the lock can add one). `ApprovalStands`: an approval that was
  read still stands, as it is final; which is why `OnlyApprovedHold` survives the
  gap between reading and committing. The refinement maps a lot's lease to its
  active row and shows a commit to be `Acquire`, the first end of a hold to be
  `End`, and everything else, a second expiry included, to be invisible.
- `PaymentWebhook`. A job writes on the strength of an answer that may be old.
  `JobsFit` says the answer was the order's at some time, and `OrderWasRaised` that
  every state of an order raised an event; `OpenIsUnsettled` and `LinkedHasEnded` tie
  charge, link and payment together.
- `Outbox`. `BatchesAreApart` and `BatchesArePending`: the rows drains have locked
  are disjoint (SKIP LOCKED) and pending, so what one commits no other has.
- `SaleSaga`. An event is handled long after it was written, and again.
  `EventsFit`: what it names still fits, as payments keep their contract and
  reservations their lot and vendor; `CheckoutsFit`: a checkout has no payment yet.
- `Contracts`. `Deliveries`: the answer a delivery has is still the document's if
  that is settled, and deliveries past their first UPDATE hold the row of their
  document; `Documents`: what is known, posted and on the contract agree;
  `UnsettledAtWork`: with one document, a delivery that is about to write found the
  contract not terminal and it still is not.
- `VendorDesk`. `CallsFit`: what a request has read and relies on is still so when
  it writes; `Locks`: two decisions never have one row; `CacheIsPast`: a row of the
  cache is no younger than the last day the company was active.
- `Uploads`. `KeysAreOwn`: no two uploads have one key; `Progress`: what waits to be
  filed was looked at and what waits for its answer is filed.
- `Tenancy`. `WaysAreAdmitted`, `SessionsAreAdmitted`: a right and an active
  organization were had legitimately, though they may be gone; `CallsFit`: past its
  set_config a transaction has the tenant of its request; `NothingLeft`: an idle
  connection has none.

- `LiveStatus`. The property is about a tab whose notifications are handled;
  `NewsArrives` says what it will show once they are: the last notification of a lot
  in its inbox is the last one broadcast, so a broadcast and the handling of one
  notification keep it. `CopiesAgree`: news with the number of the last
  change has its status, be it a copy still to be sent or what was broadcast last.
  Places are counted by the cardinality of the set of streams, which grows and
  shrinks with each action.
- `PlantaEditor`. `InOrder` and `NewestWaits`: the saves of a lot wait in the order
  of its edits, behind what is saved, and if one waits, what is shown waits and is
  the newest; `AnswerIsTrue`: an answer with data tells what the row has, until
  another tab or a deletion; `CreatedIsNew`: a lot whose creation was answered but
  not heard of has no timer and no save in its tab. `SavesGoForward` follows from the
  order, `CategoriesGoWhenFree` from `SeenStayOut`: the lots that were there when a
  deletion looked stay out of its category.
- `Forms`. `OneSubmission`: a tab has at most one submission in its queue;
  `WithinAllowance`: while it is under way, or the form is still there to be sent,
  the rows beyond the first that lost answers and early presses pay for are not
  used up; `KeyIsTaken`: what may be created once has left the key that refuses the
  next; `BadgeFollows`: a number that was left is looked up last, or answered last.
- `Cart`. `TabIsCurrent`: until its call is carried out a tab that nobody disturbed
  ticks the cart and holds the line ids, and an addition that has passed its check
  is of an add-on without a line; afterwards the cart is what the tab will tick. The
  limit is kept up by counting: an INSERT turns an addition under way into a line.

`CheckoutsChargeShown` compares two sums, over the lines and over the ticked
add-ons. Sums are folds (`MapThenSumSet`), so this takes induction; the theorems of
the library have an operator as parameter, which the provers cannot instantiate.
`SaleSagaCartProofs` therefore proves induction for a set: a set of numbers with 0
and every successor contains `Nat` (`Counting`), and a family that has each subset
of a finite set once it has the subset's parts has the whole set (`Growing`). From
these follow that the fold is defined (`SumFcnIsDefined`), that its order does not
matter (`TotalWithout`), and that sums with equal terms are equal (`TotalAlong`).

Only model-checked is liveness: `EveryHoldEnds`, `ReportedIsSettled`,
`EveryEventHandled`, `SimulatedSaleCompletes`, `SettledDocSettlesContract`,
`SavingEnds`, `StreamComesBack`, `EveryRequestEnds`. Fairness is a matter of ENABLED,
which the prover does not reason about. Every module has a type invariant; no run
lists it, and it is part of what is proved.

## 5. Where code and documentation disagree

Met while modelling; the models follow the code.

Reservation and sale:

- `reservation-expire.ts:46-47` says the locks of the scan keep two jobs apart.
  The SELECT is a transaction of its own, so they end with it (line 56), and a
  release is emitted by each of two overlapping jobs. `ReleasesAreEmitted` says at
  least one.
- `reservations.ts:17-20` says the re-check sees a committed reservation. It reads
  `lots.status`, which reserving does not change; it is the unique index that
  refuses the second hold. Lines 22-25 describe that index as one over holds that
  have not expired; migration 0018 (lines 183-189) looks at `released_at` only.
- `payment-process-webhook.ts:25` promises a transition at most once. The status
  is read without a lock (line 118) and updated by id alone, so two jobs can
  settle one payment and both write its event.
- `payment-paid.ts:3-6` says the sale completes. The event of
  `payment-process-webhook.ts:173` carries no lot and no reservation, so a payment
  settled by Pagar.me never sells its lot; `payment-simulator.ts:95-99` knows.
- `outbox-drain.ts:14` says a failing row is set aside. The UPDATE of the catch
  block (line 93) runs in the aborted transaction: the batch rolls back and meets
  the row again.
- `checkout.ts:23` describes an idempotency key per reservation; line 93 draws a
  random one, so a repeated checkout makes a second order.
- `payments.ts:210-214` says a nested transaction keeps the row when the API
  fails; there is none, as lines 256-259 admit, and whether the pending row stays
  depends on `next()` not throwing (`safe-action.ts:75`).
- `payment-simulator.ts:99` speaks of the active reservation; the query takes the
  oldest, released or not.
- A cart that changes after the sum of a checkout was taken is not charged for
  the change. The cart actions take the user's id for the vendor's, while
  reservations carry `vendors.id`.

Contracts:

- `zapsign-send-contract.ts:169` takes a contract back to `awaiting_org` whatever
  it was, a signed one included; the states at `db/schema/contracts.ts:68` do not
  allow it. Hence "with one document" in `TerminalWithOneDoc`.
- The simulated signature queues its email even when its UPDATE matched nothing
  (`zapsign-simulator.ts:88-108`).

Lots and their maps:

- `lot-notify-channel.ts:18-21` says a late copy corrects itself; it overwrites a
  newer status until the next change.
- An abort during LISTEN leaves a connection that nobody ends, and a stream over
  the cap is answered with a 200 that closes, after which an EventSource tries
  again, not with the 503 of `listen-pool.ts:42`.
- `planta-editor.tsx:174` says reserved lots are grey. The page loads
  `lots.status`, which a reservation leaves as it is, so a held lot is green until it
  is announced again.
- The editor shows "Salvo" while another lot's timer is pending and after moving
  a lot that was deleted elsewhere; leaving the page drops the last second's drag.
- `createLot` takes a category that was deleted, also one deleted between check
  and deletion; nothing makes lot codes unique.
- A lot can be assigned while it is held or sold: assignments and reservations
  ignore each other.
- Publishing is called idempotent; publishing again writes the date and an audit
  row again.

Vendors, files and accounts:

- CNPJ and email of a vendor are called unique; no index makes them so.
- A presigned PUT works until it expires, after the confirmation too; a second
  confirmation of a key whose object was replaced by a bad one deletes the object
  under the row. An event's old plan stays in the store.
- Changing the organization leaves `session.tenant_id` NULL; `auth/server.ts:115-135`
  and the page's comment say it follows. It is what keeps the session visible to
  every tenant (`PoliciesShowTheRightRows`).
- Removing a membership does not end the access of a session whose active
  organization it was. Member rows are checked, then inserted, and no index makes
  them unique. Two super admins can demote each other.
- A request inside a transaction that asks the pool for a second connection can
  wait for ever with others of its kind (`Starved`).
- A taken slug leaves the account of `createOrganizadora` behind, so the retry
  finds its email taken. In the signup page the CNPJ lookup needs a session its
  visitor lacks, so the badge is always the degraded one; an older answer may
  cover "inválido"; and the button comes back before the next page, so that a
  second press registers the vendor twice.

## 6. Plan

Written: `LotLease`, `Reservations`, `PaymentWebhook`, `Outbox`, `SaleSaga`,
`Contracts`; then `VendorDesk`, `PlantaEditor`, `LiveStatus`, `Cart`, `Uploads`,
`Tenancy`, `Forms`; proofs of the safety of all of them.

What could follow: an abstract `Sale` (a lot is offered, held, sold or offered
again) that `SaleSaga` implements; the consequences of assigning, holding and
selling one lot by different people; instalments as arithmetic against a
reference.

## 7. Not modelled

- The waiting-list job is a stub: it parses its payload and logs.
- Passwords, login and two-factor codes are Better Auth's, outside the
  repository. Consents are appended and read by nobody.
- Listings, dashboards and their sums, audit rows, templates, request validation
  and signatures of webhooks are data the properties do not tell apart, or reads
  that change nothing. Updating an event or a vendor writes attributes only.
- Row-level security of the business tables is one predicate on the setting of the
  connection (`Tenancy`); the other modules have one tenant. Jobs and webhooks use a
  second pool that bypasses it (`db/migrator-pool.ts`), whose size is not modelled.
- Three components have no user: the lot assignment dialog, the charge button and
  the onboarding form (its page redirects); the actions behind the first two are
  modelled.
- The toolbar's choice of a category, the heartbeat of a stream, quantities other
  than one (no page sends them), reminders to sign.
- `checkout.ts:178-187` inserts a contract that is signed and has no document, when
  the lot has none. `Contracts` is about contracts that `emitContractInTenant`
  makes, the only ones that reach ZapSign.
- `attachUserToOrg` (`usuarios.ts:142-158`) is one step in `Forms`; a key is
  confirmed once in `Uploads`; a failed payment of a hold that is over, which writes
  another `lot.released`, is in `Reservations` but not in `LiveStatus`; the hook of
  Better Auth on updates of a session (`auth/server.ts:127-133`) is left out, as its
  lookup of the member finds no row under the policies.
