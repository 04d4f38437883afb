----------------------------- MODULE VendorDesk -----------------------------
(***************************************************************************)
(* The vendors of one organizer: registration by the organizer              *)
(* (src/lib/actions/fornecedores.ts) or by the vendor (signup-fornecedor.ts), *)
(* the lookup of the CNPJ behind both (brasilapi.ts), the decision on a vendor, *)
(* its emails (src/jobs/tasks/email-send-status-update.ts) and the assignment of *)
(* lots to vendors (lot-assignments.ts).                                      *)
(*                                                                         *)
(* All vendors give one CNPJ: no index makes it unique.  The statements of   *)
(* different requests interleave (READ COMMITTED).                           *)
(***************************************************************************)
EXTENDS Naturals, FiniteSets

CONSTANTS
  Vendors,     \* ids a new row may draw
  Applicants,  \* people who sign up, by their email
  Lots, Calls,
  TTL,         \* CNPJ_CACHE_TTL_DAYS
  MaxDays,     \* bound on the days that pass
  MaxRepeats,  \* bound on the emails that are out although their jobs wait
  Null

ASSUME VendorDeskAssumption ==
  /\ TTL \in Nat \ {0} /\ MaxDays \in Nat /\ MaxRepeats \in Nat
  /\ Null \notin Vendors \cup Applicants \cup Lots

Status == {"pending", "approved", "rejected"}

\* A row of vendors and whom it was signed up by; its cnpj_verified is what the
\* request that inserts it has as verified.
Vendor == [status : Status, owner : Applicants \cup {Null}]

ASSUME NullIsNothing == Null \notin Vendor

\* A request under way: known is what it has read, the member row of a signup or
\* the answer about a CNPJ.
Call ==
  [op : {"create", "signup", "approved", "rejected", "assign"},
   vendor : Vendors \cup {Null}, owner : Applicants \cup {Null}, lot : Lots \cup {Null},
   pc : {"member", "lookup", "fetch", "cache", "insert", "commit", "assign"},
   member : BOOLEAN, verified : BOOLEAN]

VARIABLES
  day,
  registry,    \* the registry has the CNPJ as active
  lastActive,  \* the last day on which it had
  cache,       \* cached_at of the row of cnpj_lookup_cache, or Null
  accounts,    \* rows of user
  members,     \* members[a]: rows of member
  vendors,     \* vendors[v]: Vendor, or Null before it is inserted
  assigned,    \* live rows of lot_assignments: pairs of a lot and a vendor
  jobs, mails, \* email jobs queued and emails sent: pairs of a vendor and an
               \* event, "pending" standing for signup_fornecedor
  call         \* call[c]: Call, or Null

cnpjVars == <<day, registry, lastActive, cache>>
deskVars == <<accounts, members, vendors>>
mailVars == <<jobs, mails>>
vars     == <<cnpjVars, deskVars, assigned, mailVars, call>>

TypeOK ==
  /\ day \in 0 .. MaxDays
  /\ registry \in BOOLEAN /\ lastActive \in 0 .. day
  /\ cache \in 0 .. day \cup {Null}
  /\ accounts \subseteq Applicants /\ members \in [Applicants -> Nat]
  /\ vendors \in [Vendors -> Vendor \cup {Null}]
  /\ assigned \subseteq Lots \X Vendors
  /\ jobs \subseteq Vendors \X Status /\ mails \subseteq Vendors \X Status
  /\ call \in [Calls -> Call \cup {Null}]

Init ==
  /\ day = 0
  /\ registry = TRUE /\ lastActive = 0 /\ cache = Null
  /\ accounts = {} /\ members = [a \in Applicants |-> 0]
  /\ vendors = [v \in Vendors |-> Null]
  /\ assigned = {}
  /\ jobs = {} /\ mails = {}
  /\ call = [c \in Calls |-> Null]

-----------------------------------------------------------------------------
(* Requests *)

Rows == {v \in Vendors : vendors[v] # Null}

\* A request comes, and is at its statement pc; one that begins at its INSERT
\* has found its CNPJ in the cache.
Begin(c, op, pc, v, a, l) ==
  /\ call[c] = Null
  /\ call' = [call EXCEPT ![c] = [op |-> op, pc |-> pc, vendor |-> v, owner |-> a, lot |-> l,
                                  member |-> FALSE, verified |-> pc = "insert"]]

At(c, pc)    == call[c] # Null /\ call[c].pc = pc
Goes(c, pc)  == call' = [call EXCEPT ![c].pc = pc]
Finish(c)    == call' = [call EXCEPT ![c] = Null]

\* A statement fails and the transaction is rolled back; what other connections
\* have written stays: the account and the cache.
Fail(c) ==
  /\ call[c] # Null
  /\ Finish(c)
  /\ UNCHANGED <<cnpjVars, deskVars, assigned, mailVars>>

\* Mutant: one job per vendor may wait.
QueueEmail_OnePerVendor(v, event) ==
  IF \E j \in jobs : j[1] = v THEN jobs ELSE jobs \cup {<<v, event>>}

\* enqueueStatusEmail: add_job in the transaction of the caller.
QueueEmail(v, event) == jobs \cup {<<v, event>>}

-----------------------------------------------------------------------------
(* Registration *)

\* Mutant: somebody who has an account is taken for a member.
SignUp_KnownIsMember(c, a) ==
  /\ call[c] = Null
  /\ accounts' = accounts \cup {a}
  /\ call' = [call EXCEPT ![c] =
       [op |-> "signup", pc |-> IF a \in accounts THEN "lookup" ELSE "member", vendor |-> Null,
        owner |-> a, lot |-> Null, member |-> a \in accounts, verified |-> FALSE]]
  /\ UNCHANGED <<members, vendors, cnpjVars, assigned, mailVars>>

\* signupFornecedorForTenant up to resolveOrCreateUser, before the transaction
\* and on other connections: an account that is there is used, whatever its tenant.
SignUp(c, a) ==
  /\ Begin(c, "signup", "member", Null, a, Null)
  /\ accounts' = accounts \cup {a}
  /\ UNCHANGED <<members, vendors, cnpjVars, assigned, mailVars>>

\* existingMember
KnownMember(a) == members[a] > 0

\* Step 4: the INSERT that may follow is seen by nobody before COMMIT, and no
\* index makes it unique.
CheckMember(c) ==
  /\ At(c, "member")
  /\ call' = [call EXCEPT ![c].pc = "lookup", ![c].member = KnownMember(call[c].owner)]
  /\ UNCHANGED <<cnpjVars, deskVars, assigned, mailVars>>

\* Mutant: a row of the cache serves for ever.
IsCacheFresh_Always == cache # Null

IsCacheFresh == cache # Null /\ day - cache < TTL

\* lookupCNPJCore, step 1: of a request of the organizer ...
CreateVendor(c) ==
  /\ Begin(c, "create", IF IsCacheFresh THEN "insert" ELSE "fetch", Null, Null, Null)
  /\ UNCHANGED <<cnpjVars, deskVars, assigned, mailVars>>

\* ... and of a signup.
ReadCache(c) ==
  /\ At(c, "lookup")
  /\ IF IsCacheFresh
       THEN call' = [call EXCEPT ![c].pc = "insert", ![c].verified = TRUE]
       ELSE Goes(c, "fetch")
  /\ UNCHANGED <<cnpjVars, deskVars, assigned, mailVars>>

\* fetchBrasilAPI: an active company, or anything else: inactive, unknown, or no
\* answer in time.
FetchBrasilAPI(c) ==
  /\ At(c, "fetch")
  /\ \/ registry /\ Goes(c, "cache")
     \/ Goes(c, "insert")
  /\ UNCHANGED <<cnpjVars, deskVars, assigned, mailVars>>

\* writeCache, on another connection; its failure is ignored.
WriteCache(c) ==
  /\ At(c, "cache")
  /\ cache' \in {day, cache}
  /\ call' = [call EXCEPT ![c].pc = "insert", ![c].verified = TRUE]
  /\ UNCHANGED <<day, registry, lastActive, deskVars, assigned, mailVars>>

\* The INSERT of createVendorInTenant, for a signup the member row and the
\* consents too, and COMMIT.
InsertVendor(c) ==
  LET a == call[c].owner IN
  /\ At(c, "insert")
  /\ \E v \in Vendors \ Rows :
       /\ vendors' = [vendors EXCEPT ![v] =
            [status |-> "pending", owner |-> a]]
       /\ jobs' = QueueEmail(v, "pending")
  /\ members' = IF call[c].op = "signup" /\ ~call[c].member
                  THEN [members EXCEPT ![a] = @ + 1] ELSE members
  /\ Finish(c)
  /\ UNCHANGED <<accounts, mails, cnpjVars, assigned>>

-----------------------------------------------------------------------------
(* The decision *)

\* WHERE status = 'pending'
Undecided(v) == vendors[v].status = "pending"

Locked(v) == \E d \in Calls : At(d, "commit") /\ call[d].vendor = v

\* approveVendor, rejectVendor.  The UPDATE waits for the transaction that has the
\* row and then looks again; without a row the action throws.
Decide(c, v, status) ==
  /\ v \in Rows /\ ~Locked(v) /\ Undecided(v)
  /\ Begin(c, status, "commit", v, Null, Null)
  /\ UNCHANGED <<cnpjVars, deskVars, assigned, mailVars>>

\* The audit row, the email job and COMMIT.
CommitDecision(c) ==
  LET v == call[c].vendor IN
  /\ At(c, "commit")
  /\ vendors' = [vendors EXCEPT ![v].status = call[c].op]
  /\ jobs' = QueueEmail(v, call[c].op)
  /\ Finish(c)
  /\ UNCHANGED <<accounts, members, mails, cnpjVars, assigned>>

-----------------------------------------------------------------------------
(* Assignments *)

\* Steps 1 and 2 of assignLotToVendorInTenant: the vendor is approved, and the lot
\* is there; whether it is held or sold does not matter.
AssignLot(c, l, v) ==
  /\ v \in Rows /\ vendors[v].status = "approved"
  /\ Begin(c, "assign", "assign", v, Null, l)
  /\ UNCHANGED <<cnpjVars, deskVars, assigned, mailVars>>

\* Mutant: the index also has the vendor.
IndexAllows_PerVendor(l, v) == <<l, v>> \notin assigned

\* lot_assignments_lot_id_active_unique
IndexAllows(l, v) == \A u \in Vendors : <<l, u>> \notin assigned

\* Step 3, the INSERT and COMMIT, or the message that it is taken.
InsertAssignment(c) ==
  LET l == call[c].lot  v == call[c].vendor IN
  /\ At(c, "assign")
  /\ assigned' = IF IndexAllows(l, v) THEN assigned \cup {<<l, v>>} ELSE assigned
  /\ Finish(c)
  /\ UNCHANGED <<cnpjVars, deskVars, mailVars>>

\* unassignLotInTenant
UnassignLot(l) ==
  /\ \E v \in Vendors : <<l, v>> \in assigned
  /\ assigned' = {p \in assigned : p[1] # l}
  /\ UNCHANGED <<cnpjVars, deskVars, mailVars, call>>

-----------------------------------------------------------------------------
(* The email job *)

\* emailSendStatusUpdate: sendEmail, the audit row and COMMIT.
SendStatusUpdate(j) ==
  /\ mails' = mails \cup {j}
  /\ jobs' = jobs \ {j}
  /\ UNCHANGED <<cnpjVars, deskVars, assigned, call>>

\* SMTP, a query or the worker fails, before or after the email is out: the queue
\* keeps the job.  Fewer runs of it fail than max_attempts.
SendingFails(j) ==
  /\ mails' \in {mails, mails \cup {j}}
  /\ Cardinality(mails' \cap jobs) <= MaxRepeats
  /\ UNCHANGED <<cnpjVars, deskVars, assigned, jobs, call>>

-----------------------------------------------------------------------------
(* The registry and time *)

\* The company is closed, for good.
CompanyCloses ==
  /\ registry /\ registry' = FALSE
  /\ UNCHANGED <<day, lastActive, cache, deskVars, assigned, mailVars, call>>

Registering == {c \in Calls : call[c] # Null /\ call[c].op \in {"create", "signup"}}

\* A lookup takes seconds: none is under way at midnight.
Midnight ==
  /\ day < MaxDays
  /\ Registering = {}
  /\ day' = day + 1
  /\ lastActive' = IF registry THEN day + 1 ELSE lastActive
  /\ UNCHANGED <<registry, cache, deskVars, assigned, mailVars, call>>

-----------------------------------------------------------------------------
Requests(c) ==
  \/ CreateVendor(c)
  \/ \E a \in Applicants : SignUp(c, a)
  \/ \E v \in Vendors : \/ \E s \in {"approved", "rejected"} : Decide(c, v, s)
                        \/ \E l \in Lots : AssignLot(c, l, v)

Steps(c) ==
  \/ CheckMember(c) \/ ReadCache(c) \/ FetchBrasilAPI(c) \/ WriteCache(c)
  \/ InsertVendor(c) \/ CommitDecision(c) \/ InsertAssignment(c) \/ Fail(c)

Next ==
  \/ \E c \in Calls : Requests(c) \/ Steps(c)
  \/ \E l \in Lots : UnassignLot(l)
  \/ \E j \in jobs : SendStatusUpdate(j) \/ SendingFails(j)
  \/ CompanyCloses \/ Midnight

Spec == Init /\ [][Next]_vars

-----------------------------------------------------------------------------
(* Properties *)

\* A vendor is told of one decision, the one its row has, because a second
\* decision waits for the first and finds no pending row (fornecedores.ts:284-296);
\* and the email about it is out or will be tried again, although the worker may
\* die while it sends: the job is queued with the decision and leaves the queue
\* with the audit row (fornecedores.ts:117-130, 319-322).
MailsTellTheDecision ==
  \A v \in Rows :
    /\ \A s \in {"approved", "rejected"} : <<v, s>> \in mails \cup jobs => vendors[v].status = s
    /\ <<v, vendors[v].status>> \in mails \cup jobs

\* Whoever races whom, a lot is assigned once, and to an approved vendor: the
\* check of the vendor stays true because no decision is taken back
\* (lot-assignments.ts:84-98, migration 0011:137).
AssignmentIsSound ==
  /\ \A p \in assigned : vendors[p[2]].status = "approved"
  /\ \A p, q \in assigned : p[1] = q[1] => p = q

\* A vendor registered as verified had an active CNPJ within the lifetime of the
\* cache, whoever filled it (brasilapi.ts:112-116, 217-244).
VerifiedWasActive ==
  [][\A c \in Calls :
       At(c, "insert") /\ call[c].verified /\ vendors' # vendors => day - lastActive < TTL]_vars

\* A vendor that signed up has an account and belongs to the organizer, also when
\* the account is left over from a signup that failed (signup-fornecedor.ts:98-230).
VendorCanLogIn ==
  \A v \in Rows :
    vendors[v].owner # Null => vendors[v].owner \in accounts /\ members[vendors[v].owner] > 0
=============================================================================
