------------------------------- MODULE Forms -------------------------------
(***************************************************************************)
(* The forms and buttons with which organizers, vendors and administrators *)
(* create things, each in a tab of its browser: what a press sends, what   *)
(* the tab does with the answer, and what the server has created by then.  *)
(*                                                                         *)
(* Next.js sends the server actions of a tab one at a time, in order.  A   *)
(* useTransition is pending until its callback has returned and the        *)
(* navigation or refresh that the callback began is on the screen; the     *)
(* isSubmitting of react-hook-form, and the one of the signup form, ends   *)
(* when the handler returns, before the navigation does.                   *)
(***************************************************************************)
EXTENDS Naturals, Sequences, FiniteSets

CONSTANTS
  Tabs,
  Entries,     \* what a form may be filled with: an e-mail, a slug, a CNPJ ...
  Unchecked,   \* entries whose CNPJ fails its check digits
  Openings,    \* which form is open in which tab, in the behaviours considered
  MaxPresses, MaxLookups, MaxLost,  \* bounds on presses, lookups and lost answers
  None         \* no tab, nothing typed

\* useTransition, or a button that is gone after the answer.
Transitions == {"event", "category", "vendor", "approval", "publish"}
Handlers    == {"signup", "user", "organizadora", "members"}
WithCnpj    == {"vendor", "signup"}

ASSUME FormsAssumption ==
  /\ Unchecked \subseteq Entries /\ None \notin Entries
  /\ Openings \subseteq [Tabs -> Transitions \cup Handlers \cup {None}]
  /\ MaxPresses \in Nat /\ MaxLookups \in Nat /\ MaxLost \in Nat

\* LookupBadge.  of is the number an answer is about.
Badge == [kind : {"idle", "pending", "invalid", "answer"}, of : Entries \cup {None}]
Idle  == [kind |-> "idle", of |-> None]

\* blurred: the CNPJ field has been left since it was last changed.
Tab ==
  [form : Transitions \cup Handlers \cup {None}, entry : Entries \cup {None}, badge : Badge,
   blurred : BOOLEAN, at : {"form", "leaving", "left", "broken"}]

Request == [op : {"submit", "lookup"}, entry : Entries, answer : {"sent", "ok", "refused"}]

\* What the database has at most once: an e-mail, a slug, a member row or a flag,
\* and a decision on the one vendor that approval panels show.
Key == {"email", "slug", "member", "decision"}

VARIABLES
  tab,     \* tab[t]: Tab
  queue,   \* queue[t]: the server actions of t, the first one under way
  rows,    \* rows[t][e]: what t has had created from e
  taken,   \* keys in use: pairs of a Key and an entry
  filled,  \* filled[t]: entries the user of t has typed
  pressed, lookups,
  lost,    \* lost[t]: answers that t has lost
  again    \* again[t]: presses between the answer and the page it leads to

serverVars == <<rows, taken>>
countVars  == <<filled, pressed, lookups, lost, again>>
formsVars  == <<tab, queue, serverVars, countVars>>

FormsTypeOK ==
  /\ tab \in [Tabs -> Tab]
  /\ queue \in [Tabs -> Seq(Request)]
  /\ rows \in [Tabs -> [Entries -> Nat]]
  /\ taken \subseteq Key \X Entries
  /\ filled \in [Tabs -> SUBSET Entries]
  /\ pressed \in 0 .. MaxPresses /\ lookups \in 0 .. MaxLookups
  /\ lost \in [Tabs -> 0 .. MaxLost] /\ again \in [Tabs -> 0 .. MaxPresses]

Page(f) == [form |-> f, entry |-> None, badge |-> Idle, blurred |-> TRUE, at |-> "form"]

FormsInit ==
  /\ \E f \in Openings : tab = [t \in Tabs |-> Page(f[t])]
  /\ queue = [t \in Tabs |-> <<>>]
  /\ rows = [t \in Tabs |-> [e \in Entries |-> 0]]
  /\ taken = {}
  /\ filled = [t \in Tabs |-> {}]
  /\ pressed = 0 /\ lookups = 0
  /\ lost = [t \in Tabs |-> 0] /\ again = [t \in Tabs |-> 0]

-----------------------------------------------------------------------------
(* A press of the button *)

Plus1(f, t)    == [f EXCEPT ![t] = @ + 1]
OnPage(t, f)   == tab[t].form = f /\ tab[t].at \in {"form", "leaving"}
Submitting(t)  == \E i \in DOMAIN queue[t] : queue[t][i].op = "submit"

\* Mutant: pending only until the answer is there.
IsPending_WhileSent(t) == Submitting(t)

\* isPending of useTransition.
IsPending(t) == Submitting(t) \/ tab[t].at = "leaving"

Send(t, op, e) == queue' = [queue EXCEPT ![t] = Append(@, [op |-> op, entry |-> e, answer |-> "sent"])]

\* The button is enabled and the entry passes the schema of the form, the same
\* as the server's.
Press(t, disabled) ==
  LET e == tab[t].entry IN
  /\ ~disabled /\ e # None
  /\ tab[t].form \in WithCnpj => e \notin Unchecked
  /\ pressed < MaxPresses /\ pressed' = pressed + 1
  /\ again' = IF tab[t].at = "leaving" THEN Plus1(again, t) ELSE again
  /\ Send(t, "submit", e)
  /\ UNCHANGED <<tab, serverVars, filled, lookups, lost>>

EventForm(t)              == OnPage(t, "event") /\ Press(t, IsPending(t))
LotCategoryForm(t)        == OnPage(t, "category") /\ Press(t, IsPending(t))
VendorForm(t)             == OnPage(t, "vendor") /\ Press(t, IsPending(t))
VendorApprovalPanel(t)    == OnPage(t, "approval") /\ Press(t, IsPending(t))
PublishEventButton(t)     == OnPage(t, "publish") /\ Press(t, IsPending(t))
SignupFornecedorForm(t)   == OnPage(t, "signup") /\ Press(t, Submitting(t))
CreateUserForm(t)         == OnPage(t, "user") /\ Press(t, Submitting(t))
CreateOrganizadoraForm(t) == OnPage(t, "organizadora") /\ Press(t, Submitting(t))

\* Add or remove a member row, or set the flag.
UserMembershipsManager(t) == OnPage(t, "members") /\ Press(t, Submitting(t))

-----------------------------------------------------------------------------
(* The fields, and the one for a CNPJ *)

\* The user fills the form in, or changes it; no field is disabled while a
\* request is under way.  handleChange clears the badge.
Type(t, e) ==
  /\ tab[t].form # None /\ tab[t].at \in {"form", "leaving"} /\ e \notin filled[t]
  /\ tab' = [tab EXCEPT ![t].entry = e, ![t].badge = Idle, ![t].blurred = FALSE]
  /\ filled' = [filled EXCEPT ![t] = @ \cup {e}]
  /\ UNCHANGED <<queue, serverVars, pressed, lookups, lost, again>>

\* Mutant: no second lookup while one is pending.
HandleBlur_OneAtATime(t) ==
  LET e == tab[t].entry IN
  /\ tab[t].form \in WithCnpj /\ tab[t].at = "form" /\ e # None
  /\ lookups < MaxLookups
  /\ IF e \in Unchecked
       THEN /\ tab' = [tab EXCEPT ![t].blurred = TRUE, ![t].badge = [Idle EXCEPT !.kind = "invalid"]]
            /\ UNCHANGED <<queue, lookups>>
       ELSE /\ tab' = [tab EXCEPT ![t].blurred = TRUE, ![t].badge = [Idle EXCEPT !.kind = "pending"]]
            /\ IF queue[t] = <<>>
                 THEN Send(t, "lookup", e) /\ lookups' = lookups + 1
                 ELSE UNCHANGED <<queue, lookups>>
  /\ UNCHANGED <<serverVars, filled, pressed, lost, again>>

HandleBlur(t) ==
  LET e == tab[t].entry  Shows(k) == tab' = [tab EXCEPT ![t].blurred = TRUE, ![t].badge.kind = k,
                                                        ![t].badge.of = None] IN
  /\ tab[t].form \in WithCnpj /\ tab[t].at = "form" /\ e # None
  /\ IF e \in Unchecked
       THEN Shows("invalid") /\ UNCHANGED <<queue, lookups>>
       ELSE /\ lookups < MaxLookups /\ lookups' = lookups + 1
            /\ Shows("pending") /\ Send(t, "lookup", e)
  /\ UNCHANGED <<serverVars, filled, pressed, lost, again>>

-----------------------------------------------------------------------------
(* At the server *)

Asked(t, op)     == queue[t] # <<>> /\ Head(queue[t]).op = op /\ Head(queue[t]).answer = "sent"
Answer(t, a)     == queue' = [queue EXCEPT ![t][1].answer = a]
SubmitOf(t, f)   == tab[t].form = f /\ Asked(t, "submit")
Create(t, e)     == rows' = [rows EXCEPT ![t][e] = @ + 1] /\ Answer(t, "ok")
Refuse(t)        == Answer(t, "refused") /\ UNCHANGED rows
OnlyServer       == UNCHANGED <<tab, countVars>>

\* lookupCNPJCore always has an answer: verified, refused or degraded.  The
\* action needs a session, so a visitor who signs up is told "degraded".
LookupCNPJ(t) == Asked(t, "lookup") /\ Answer(t, "ok") /\ OnlyServer /\ UNCHANGED serverVars

\* Nothing makes an event, a category or a vendor unique.
CreateEvent(t) ==
  SubmitOf(t, "event") /\ Create(t, Head(queue[t]).entry) /\ OnlyServer /\ UNCHANGED taken

CreateLotCategory(t) ==
  SubmitOf(t, "category") /\ Create(t, Head(queue[t]).entry) /\ OnlyServer /\ UNCHANGED taken

AddVendor(t) ==
  SubmitOf(t, "vendor") /\ Create(t, Head(queue[t]).entry) /\ OnlyServer /\ UNCHANGED taken

\* Published again, with another audit row, whatever its status.
PublishEvent(t) ==
  SubmitOf(t, "publish") /\ Create(t, Head(queue[t]).entry) /\ OnlyServer /\ UNCHANGED taken

\* The account is found or made on another connection, and stays when the
\* transaction with the vendor fails.
SignupFornecedor(t) ==
  LET e == Head(queue[t]).entry IN
  /\ SubmitOf(t, "signup")
  /\ taken' = taken \cup {<<"email", e>>}
  /\ Create(t, e) \/ Refuse(t)
  /\ OnlyServer

CreateUser(t) ==
  LET e == Head(queue[t]).entry IN
  /\ SubmitOf(t, "user")
  /\ IF <<"email", e>> \in taken
       THEN Refuse(t) /\ UNCHANGED taken
       ELSE Create(t, e) /\ taken' = taken \cup {<<"email", e>>}
  /\ OnlyServer

\* The account comes first: a slug that is taken leaves it behind.
CreateOrganizadora(t) ==
  LET e == Head(queue[t]).entry IN
  /\ SubmitOf(t, "organizadora")
  /\ IF <<"email", e>> \in taken THEN Refuse(t) /\ UNCHANGED taken
     ELSE \/ /\ <<"slug", e>> \notin taken /\ Create(t, e)
             /\ taken' = taken \cup {<<"email", e>>, <<"slug", e>>}
          \/ Refuse(t) /\ taken' = taken \cup {<<"email", e>>}
  /\ OnlyServer

\* already_member, not_found, or a flag that has its value.
ChangeMembership(t) ==
  LET e == Head(queue[t]).entry IN
  /\ SubmitOf(t, "members")
  /\ IF <<"member", e>> \in taken THEN Refuse(t) ELSE Create(t, e)
  /\ taken' = taken \cup {<<"member", e>>}
  /\ OnlyServer

\* approveVendor, rejectVendor: the row is pending, or the action throws.
DecideVendor(t) ==
  LET e == Head(queue[t]).entry IN
  /\ SubmitOf(t, "approval")
  /\ IF \E k \in taken : k[1] = "decision"
       THEN Refuse(t) /\ UNCHANGED taken
       ELSE Create(t, e) /\ taken' = taken \cup {<<"decision", e>>}
  /\ OnlyServer

\* A transaction that fails is rolled back: serverError, or an error code.
FailSubmit(t) == Asked(t, "submit") /\ Refuse(t) /\ OnlyServer /\ UNCHANGED taken

Serve(t) ==
  \/ LookupCNPJ(t) \/ CreateEvent(t) \/ CreateLotCategory(t) \/ AddVendor(t)
  \/ PublishEvent(t) \/ SignupFornecedor(t) \/ CreateUser(t) \/ CreateOrganizadora(t)
  \/ ChangeMembership(t) \/ DecideVendor(t) \/ FailSubmit(t)

-----------------------------------------------------------------------------
(* The answer in the tab *)

Answered(t, op) == queue[t] # <<>> /\ Head(queue[t]).op = op /\ Head(queue[t]).answer # "sent"
Said(t)         == Head(queue[t]).answer
NextAction(t)   == queue' = [queue EXCEPT ![t] = Tail(@)]
OnlyTab         == UNCHANGED <<serverVars, countVars>>

HearLookup(t) ==
  /\ Answered(t, "lookup")
  /\ tab' = [tab EXCEPT ![t].badge = [kind |-> "answer", of |-> Head(queue[t]).entry]]
  /\ NextAction(t) /\ OnlyTab

\* router.push, refresh or reload; a refusal is shown and the form stays.
GoOn(t, f) ==
  /\ tab[t].form = f /\ Answered(t, "submit")
  /\ tab' = IF Said(t) = "ok" /\ tab[t].at = "form" THEN [tab EXCEPT ![t].at = "leaving"] ELSE tab
  /\ NextAction(t) /\ OnlyTab

HearEventForm(t)        == GoOn(t, "event")
HearVendorForm(t)       == GoOn(t, "vendor")
HearSignup(t)           == GoOn(t, "signup")
HearUserForm(t)         == GoOn(t, "user")
HearOrganizadoraForm(t) == GoOn(t, "organizadora")
HearMemberships(t)      == GoOn(t, "members")
HearApproval(t)         == GoOn(t, "approval")
HearPublish(t)          == GoOn(t, "publish")

\* form.reset, also of what was typed meanwhile.
HearCategoryForm(t) ==
  /\ tab[t].form = "category" /\ Answered(t, "submit")
  /\ tab' = IF Said(t) = "ok" /\ tab[t].at = "form"
              THEN [tab EXCEPT ![t].at = "leaving", ![t].entry = None] ELSE tab
  /\ NextAction(t) /\ OnlyTab

Hear(t) ==
  \/ HearLookup(t) \/ HearEventForm(t) \/ HearVendorForm(t) \/ HearSignup(t)
  \/ HearUserForm(t) \/ HearOrganizadoraForm(t) \/ HearMemberships(t)
  \/ HearApproval(t) \/ HearPublish(t) \/ HearCategoryForm(t)

\* The request or its answer is lost.  A transition that throws takes the page
\* with it; a handler that throws leaves the form.
LoseAnswer(t) ==
  /\ queue[t] # <<>>
  /\ \A u \in Tabs : lost[u] < MaxLost
  /\ lost' = Plus1(lost, t)
  /\ tab' = IF tab[t].form \in Transitions \cup {"members"} \/ Head(queue[t]).op = "lookup"
              THEN [tab EXCEPT ![t].at = "broken"] ELSE tab
  /\ NextAction(t)
  /\ UNCHANGED <<serverVars, filled, pressed, lookups, again>>

\* The next page is on the screen: a refreshed one with the same form, a
\* reloaded one with a new form, or another.
Land(t) ==
  /\ tab[t].at = "leaving"
  /\ tab' = [tab EXCEPT ![t] = CASE @.form = "category" -> [@ EXCEPT !.at = "form"]
                                 [] @.form = "members"  -> Page("members")
                                 [] OTHER               -> [@ EXCEPT !.at = "left"]]
  /\ UNCHANGED queue /\ OnlyTab

-----------------------------------------------------------------------------
User(t) ==
  \/ EventForm(t) \/ LotCategoryForm(t) \/ VendorForm(t) \/ VendorApprovalPanel(t)
  \/ PublishEventButton(t) \/ SignupFornecedorForm(t) \/ CreateUserForm(t)
  \/ CreateOrganizadoraForm(t) \/ UserMembershipsManager(t)
  \/ HandleBlur(t) \/ \E e \in Entries : Type(t, e)

FormsNext == \E t \in Tabs : User(t) \/ Serve(t) \/ Hear(t) \/ LoseAnswer(t) \/ Land(t)

FormsSpec == FormsInit /\ [][FormsNext]_formsVars

-----------------------------------------------------------------------------
(* Properties *)

Unique == {"user", "organizadora", "members", "approval"}

\* Nothing is created twice from one entry by pressing twice: a second row takes
\* an answer that was lost, or, in the signup form, whose isSubmitting ends before
\* the next page is there, a press in between (fornecedor/signup-form.tsx:73-84).
\* What the database or the action checks is created once whatever happens.
CreatedOnce ==
  \A t \in Tabs, e \in Entries :
    LET f == tab[t].form IN
    /\ f \notin Unique => rows[t][e] <= 1 + lost[t] + (IF f = "signup" THEN again[t] ELSE 0)
    /\ f \in Unique => rows[t][e] <= 1
    /\ \A u \in Tabs \ {t} :
         {f, tab[u].form} \subseteq {"user", "organizadora"} => rows[t][e] + rows[u][e] <= 1

Looking(t) == \E i \in DOMAIN queue[t] : queue[t][i].op = "lookup"

\* Once the lookups have answered, the badge is about the number in the field
\* that was left last: they come back in order (cnpj-input.tsx:62-95).  A number
\* that fails its digits asks nothing, and an older answer may cover its
\* "invalid".
BadgeIsAboutField ==
  \A t \in Tabs :
    LET b == tab[t].badge IN
    /\ tab[t].at = "form" /\ tab[t].blurred /\ ~Looking(t)
    /\ tab[t].entry \notin Unchecked /\ b.kind # "idle"
    => b = [kind |-> "answer", of |-> tab[t].entry]
=============================================================================
