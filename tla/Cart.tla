-------------------------------- MODULE Cart --------------------------------
(***************************************************************************)
(* The cart of one reservation: its add-on lines (src/lib/actions/cart.ts), *)
(* the tabs that show its checkout page (checkout/[cartId]/page.tsx,         *)
(* components/checkout/checkout-sidebar.tsx), and what a checkout charges     *)
(* (src/lib/actions/checkout.ts, src/lib/lots/price.ts).                      *)
(*                                                                         *)
(* The sidebar always adds one piece, so a line stands for its quantity.   *)
(* Statements of different requests interleave (READ COMMITTED).           *)
(***************************************************************************)
EXTENDS Naturals, FiniteSets, FiniteSetsExt

CONSTANTS
  Tabs, Addons, Lines,
  UserId,       \* what the actions on the cart pass as vendor id
  VendorId,     \* the vendor of the reservation, found by email at checkout
  MaxQty,       \* max_qty of every add-on
  AddonPrices,  \* prices an add-on may have, in centavos
  Rates,        \* per_sqm_rate a category may have, in centavos
  Base, Area,   \* base_fixed in centavos, area_m2 in hundredths
  MaxEdits,     \* bound on changes of prices
  None

ASSUME CartAssumption ==
  /\ IsFiniteSet(Tabs) /\ Tabs # {}
  /\ AddonPrices \subseteq Nat /\ Rates \subseteq Nat
  /\ Base \in Nat /\ Area \in Nat /\ MaxQty \in Nat /\ MaxEdits \in Nat
  /\ None \notin Lines

Line == [addon : Addons, price : AddonPrices]

\* The props of the sidebar: the lot's price, each add-on's price and a line of it.
Props == [lot : Nat, price : [Addons -> AddonPrices], line : [Addons -> Lines \cup {None}]]

\* A Server Action under way: what it asks, how far it is, and the amount it has
\* read: the price of the add-on to insert, or what a checkout adds up.
Call ==
  [op : {"add", "remove", "pay"}, addon : Addons \cup {None}, line : Lines \cup {None},
    pc : {"sent", "checked", "priced", "done", "refused"}, amount : Nat]

\* An open checkout page.
Tab == [props : Props, active : SUBSET Addons, paid : BOOLEAN]

ASSUME NoneIsNothing == None \notin Line \cup Call \cup Tab

VARIABLES
  held,      \* the reservation is neither released nor past its expires_at
  addons,    \* addons[a]: [price, active]
  rate,      \* per_sqm_rate of the lot's category
  lines,     \* lines[n]: Line, or None before it is inserted or once deleted
  used,      \* ids of lines drawn so far
  tabs,      \* tabs[t]: Tab, or None while closed
  call,      \* call[t]: the Server Action of t, or None
  disturbed, \* tabs whose lines others changed since they were opened, or that
             \* were opened when an add-on had two lines
  edits      \* changes of prices so far

rowVars  == <<held, addons, rate, lines, used, edits>>
cartVars == <<rowVars, tabs, call, disturbed>>

CartTypeOK ==
  /\ held \in BOOLEAN
  /\ addons \in [Addons -> [price : AddonPrices, active : BOOLEAN]]
  /\ rate \in Rates
  /\ lines \in [Lines -> Line \cup {None}]
  /\ used \subseteq Lines
  /\ tabs \in [Tabs -> Tab \cup {None}]
  /\ call \in [Tabs -> Call \cup {None}]
  /\ disturbed \subseteq Tabs
  /\ edits \in 0 .. MaxEdits

CartInit ==
  /\ held = TRUE
  /\ addons \in [Addons -> [price : AddonPrices, active : {TRUE}]]
  /\ rate \in Rates
  /\ lines = [n \in Lines |-> None]
  /\ used = {}
  /\ tabs = [t \in Tabs |-> None]
  /\ call = [t \in Tabs |-> None]
  /\ disturbed = {}
  /\ edits = 0

-----------------------------------------------------------------------------
(* Prices *)

\* computeLotPrice and the * 100 of its callers: base + area * rate, rounded
\* to centavos.
LotPrice == (100 * Base + Area * rate + 50) \div 100

Present == {n \in Lines : lines[n] # None}
LinesOf(a) == {n \in Present : lines[n].addon = a}

\* Mutant: every add-on is charged once, and only if it is active.
AddonTotal_ActiveOnly ==
  MapThenSumSet(LAMBDA n : lines[n].price, {n \in Present : addons[lines[n].addon].active})

\* SUM(price_brl_cents_snapshot * quantity)
AddonTotal == MapThenSumSet(LAMBDA n : lines[n].price, Present)

\* computeCartTotalInTenant, and steps 2 and 4 of checkoutCartInTenant.
CartTotal == LotPrice + AddonTotal

-----------------------------------------------------------------------------
(* The checkout page *)

\* CheckoutPage: of several lines of an add-on, the Map keeps the last one, in
\* an order no ORDER BY fixes.
Pages ==
  {[lot |-> LotPrice, price |-> [a \in Addons |-> addons[a].price], line |-> f] :
     f \in {g \in [Addons -> Lines \cup {None}] :
              \A a \in Addons : IF LinesOf(a) = {} THEN g[a] = None ELSE g[a] \in LinesOf(a)}}

OpenPage(t) ==
  /\ tabs[t] = None /\ call[t] = None
  /\ \E page \in Pages :
       tabs' = [tabs EXCEPT ![t] =
         [props |-> page, active |-> {a \in Addons : page.line[a] # None}, paid |-> FALSE]]
  /\ disturbed' = IF \E a \in Addons : Cardinality(LinesOf(a)) > 1
                    THEN disturbed \cup {t} ELSE disturbed \ {t}
  /\ UNCHANGED <<rowVars, call>>

\* The tab is closed, reloaded, or broken by a lost answer: the action goes on.
ClosePage(t) ==
  /\ tabs[t] # None
  /\ tabs' = [tabs EXCEPT ![t] = None]
  /\ UNCHANGED <<rowVars, call, disturbed>>

\* total
Shown(t) ==
  tabs[t].props.lot + MapThenSumSet(LAMBDA a : tabs[t].props.price[a], tabs[t].active)

\* isPending disables every control.
Idle(t) == tabs[t] # None /\ ~tabs[t].paid /\ call[t] = None

Send(t, op, a, n) ==
  /\ call' = [call EXCEPT ![t] =
       [op |-> op, addon |-> a, line |-> n, pc |-> "sent", amount |-> 0]]
  /\ UNCHANGED <<rowVars, tabs, disturbed>>

\* toggleAddon.  A ticked add-on without a line in the props cannot be unticked.
ToggleAddon(t, a) ==
  /\ Idle(t)
  /\ \/ a \notin tabs[t].active /\ Send(t, "add", a, None)
     \/ /\ a \in tabs[t].active /\ tabs[t].props.line[a] # None
        /\ Send(t, "remove", a, tabs[t].props.line[a])

\* handlePay
Pay(t) == Idle(t) /\ Send(t, "pay", None, None)

-----------------------------------------------------------------------------
(* The server *)

Running(t, op, pc) == call[t] # None /\ call[t].op = op /\ call[t].pc = pc
Goes(t, pc) == call' = [call EXCEPT ![t].pc = pc]

\* Mutant: the limit is compared without the piece that is added.
WithinLimit_OffByOne(a) == Cardinality(LinesOf(a)) <= MaxQty

\* existingQty + quantity <= max_qty
WithinLimit(a) == Cardinality(LinesOf(a)) + 1 <= MaxQty

\* The SELECTs of addAddonToCartInTenant.
Addable(a) ==
  /\ UserId = VendorId
  /\ held
  /\ addons[a].active
  /\ WithinLimit(a)

CheckAdd(t) ==
  LET a == call[t].addon IN
  /\ Running(t, "add", "sent")
  /\ IF Addable(a)
       THEN call' = [call EXCEPT ![t].pc = "checked", ![t].amount = addons[a].price]
       ELSE Goes(t, "refused")
  /\ UNCHANGED <<rowVars, tabs, disturbed>>

\* Every other tab that is open has not asked for this change.
Disturb(t) == disturbed' = disturbed \cup {u \in Tabs \ {t} : tabs[u] # None}

\* Step 4, INSERT and COMMIT: nobody has locked the cart since the SELECTs.
InsertLine(t) ==
  /\ Running(t, "add", "checked")
  /\ \E n \in Lines \ used :
       /\ lines' = [lines EXCEPT ![n] = [addon |-> call[t].addon, price |-> call[t].amount]]
       /\ used' = used \cup {n}
  /\ Goes(t, "done")
  /\ Disturb(t)
  /\ UNCHANGED <<held, addons, rate, edits, tabs>>

\* removeAddonFromCartInTenant: the state of the reservation is not looked at,
\* and deleting a line that is gone deletes nothing and succeeds.
RemoveLine(t) ==
  /\ Running(t, "remove", "sent")
  /\ IF UserId = VendorId
       THEN lines' = [lines EXCEPT ![call[t].line] = None] /\ Goes(t, "done")
       ELSE UNCHANGED lines /\ Goes(t, "refused")
  /\ IF lines' # lines THEN Disturb(t) ELSE UNCHANGED disturbed
  /\ UNCHANGED <<held, addons, rate, used, edits, tabs>>

\* checkoutCartInTenant, the reservation and the lot's price ...
PriceLot(t) ==
  /\ Running(t, "pay", "sent")
  /\ IF held
       THEN call' = [call EXCEPT ![t].pc = "checked", ![t].amount = LotPrice]
       ELSE Goes(t, "refused")
  /\ UNCHANGED <<rowVars, tabs, disturbed>>

\* ... the sum of the lines ...
PriceAddons(t) ==
  /\ Running(t, "pay", "checked")
  /\ call' = [call EXCEPT ![t].pc = "priced", ![t].amount = @ + AddonTotal]
  /\ UNCHANGED <<rowVars, tabs, disturbed>>

\* ... the order of that amount and COMMIT; see SaleSaga.
Charge(t) ==
  /\ Running(t, "pay", "priced")
  /\ Goes(t, "done")
  /\ UNCHANGED <<rowVars, tabs, disturbed>>

\* Pagar.me refuses, the database fails, or the session is over.
Refuse(t) ==
  /\ call[t] # None /\ call[t].pc \in {"sent", "checked", "priced"}
  /\ Goes(t, "refused")
  /\ UNCHANGED <<rowVars, tabs, disturbed>>

-----------------------------------------------------------------------------
(* The tab hears of it *)

\* Mutant: the page is not rendered again after an action.
Rendered_NotAgain(props, page) == props

\* revalidatePath: the answer of an action that succeeded brings the page anew,
\* as it is when the answer is made.
Rendered(props, page) == page

Ticked(active, c) ==
  CASE c.op = "add"    -> active \cup {c.addon}
    [] c.op = "remove" -> active \ {c.addon}
    [] c.op = "pay"    -> active

HearAnswer(t) ==
  LET c == call[t] IN
  /\ c # None /\ c.pc \in {"done", "refused"}
  /\ call' = [call EXCEPT ![t] = None]
  /\ IF tabs[t] # None /\ c.pc = "done"
       THEN \E page \in Pages :
              tabs' = [tabs EXCEPT ![t] = [props  |-> Rendered(@.props, page),
                                           active |-> Ticked(@.active, c),
                                           paid   |-> c.op = "pay"]]
       ELSE UNCHANGED tabs
  /\ UNCHANGED <<rowVars, disturbed>>

-----------------------------------------------------------------------------
(* Around the cart *)

\* Time passes, or the hold is released; see Reservations.
HoldEnds ==
  /\ held /\ held' = FALSE
  /\ UNCHANGED <<addons, rate, lines, used, edits, tabs, call, disturbed>>

CountEdit == edits < MaxEdits /\ edits' = edits + 1

\* No code of the repository writes event_addons: its columns price_brl_cents and
\* active are changed by hand.
EditAddon(a) ==
  /\ CountEdit
  /\ \E p \in AddonPrices, b \in BOOLEAN :
       /\ [price |-> p, active |-> b] # addons[a]
       /\ addons' = [addons EXCEPT ![a] = [price |-> p, active |-> b]]
  /\ UNCHANGED <<held, rate, lines, used, tabs, call, disturbed>>

\* updateLotCategoryInTenant, whoever holds lots of the category.
EditCategory ==
  /\ CountEdit
  /\ rate' \in Rates \ {rate}
  /\ UNCHANGED <<held, addons, lines, used, tabs, call, disturbed>>

-----------------------------------------------------------------------------
OfTab(t) ==
  \/ OpenPage(t) \/ ClosePage(t) \/ Pay(t) \/ HearAnswer(t)
  \/ \E a \in Addons : ToggleAddon(t, a)

OfServer(t) ==
  \/ CheckAdd(t) \/ InsertLine(t) \/ RemoveLine(t)
  \/ PriceLot(t) \/ PriceAddons(t) \/ Charge(t) \/ Refuse(t)

CartNext ==
  \/ \E t \in Tabs : OfTab(t) \/ OfServer(t)
  \/ \E a \in Addons : EditAddon(a)
  \/ EditCategory \/ HoldEnds

CartSpec == CartInit /\ [][CartNext]_cartVars

-----------------------------------------------------------------------------
(* Properties *)

\* The additions that are past their check, and may insert whatever happens.
Adding(a) == {t \in Tabs : Running(t, "add", "checked") /\ call[t].addon = a}

\* The sum of the quantities is read before the INSERT and nothing is locked
\* (cart.ts:105-123), so the limit can be exceeded, but by no more than the
\* additions that were under way at the same time.
OverLimitIsBounded ==
  \A a \in Addons : Cardinality(LinesOf(a)) + Cardinality(Adding(a)) < MaxQty + Cardinality(Tabs)

\* A tab that nobody disturbed shows as ticked what is in the cart, whatever it
\* has added, removed or been refused before (checkout-sidebar.tsx:99-130).
TicksAreTheCart ==
  \A t \in Tabs \ disturbed :
    tabs[t] # None /\ call[t] = None => tabs[t].active = {a \in Addons : LinesOf(a) # {}}

\* The prices the tab has are those a checkout would find now.
PricesAreShown(t) ==
  /\ tabs[t].props.lot = call[t].amount
  /\ \A n \in Present : lines[n].price = tabs[t].props.price[lines[n].addon]

\* What an undisturbed tab shows as the total is what its checkout charges,
\* unless a price was changed since: the page and the checkout compute it
\* apart, the page from current prices, the checkout from snapshots
\* (checkout-sidebar.tsx:94-97, checkout.ts:195-206).
ShownIsCharged ==
  [][\A t \in Tabs \ disturbed :
       /\ Running(t, "pay", "checked") /\ tabs[t] # None /\ PricesAreShown(t)
       /\ call'[t].pc = "priced"
       => call'[t].amount = Shown(t)]_cartVars
=============================================================================
