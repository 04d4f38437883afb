------------------------------ MODULE Tenancy ------------------------------
(***************************************************************************)
(* Which organizer a request acts for, and on which connection: the active *)
(* organization of a session (src/lib/actions/select-org.ts,               *)
(* src/lib/auth/set-active-org.ts, onboarding.ts), the memberships and     *)
(* super admins behind it (src/lib/actions/admin), the tenant of a         *)
(* transaction (src/db/with-tenant.ts, safe-action.ts), row-level          *)
(* security, and the pool of connections (src/db/index.ts).                *)
(*                                                                         *)
(* Some requests hold the connection of their transaction and ask the pool    *)
(* for a second one.  Sessions last; an organization has its tenant's id.      *)
(***************************************************************************)
EXTENDS Naturals, FiniteSets

CONSTANTS
  Users, Orgs, Calls,
  Managed,      \* the users whom the admins' requests are about
  FirstAdmins,  \* is_super_admin at the start
  FirstOrgs,    \* organizations at the start
  MaxConns,     \* postgres(url, { max })
  MaxRows,      \* bound on the member rows of one user in one organization
  Null

ASSUME TenancyAssumption ==
  /\ MaxConns \in Nat \ {0} /\ MaxRows \in Nat \ {0}
  /\ Managed \subseteq Users /\ FirstAdmins \subseteq Users /\ FirstOrgs \subseteq Orgs
  /\ Null \notin Users \cup Orgs

Session == [active : Orgs \cup {Null}, tenant : Orgs \cup {Null}]

\* A request under way: pick is selectActiveOrg, act an action of withTenantAction,
\* boot bootstrapOrganization, create createOrganizadora.  target is the user an
\* admin's request is about.
Ops == {"pick", "act", "boot", "create", "attach", "detach", "promote", "demote"}
Call == [op : Ops, user : Users, org : Orgs, target : Users,
         pc : {"begin", "nested", "check", "body"}]

ASSUME NullIsNothing == Null \notin Call

VARIABLES
  superAdmins, \* users with is_super_admin
  orgs,        \* rows of tenants and organization
  members,     \* members[<<u, o>>]: rows of member, which no index makes unique
  session,     \* session[u]: Session
  held,        \* calls that have the connection of their transaction
  guc,         \* guc[c]: app.current_tenant_id on that connection
  left,        \* what the setting may be on an idle connection
  call,        \* call[c]: Call, or Null
  admitted     \* pairs of a user and an organization it had, once, a way into

pool    == <<held, guc, left>>
access  == <<superAdmins, orgs, members, session, admitted>>
vars    == <<access, pool, call>>

Tenant == Orgs \cup {Null}

TypeOK ==
  /\ superAdmins \subseteq Users /\ orgs \subseteq Orgs
  /\ members \in [Users \X Orgs -> 0 .. MaxRows]
  /\ session \in [Users -> Session]
  /\ held \subseteq Calls /\ guc \in [Calls -> Tenant] /\ left \subseteq Tenant
  /\ call \in [Calls -> Call \cup {Null}]
  /\ admitted \subseteq Users \X Orgs

Init ==
  /\ superAdmins = FirstAdmins /\ orgs = FirstOrgs
  /\ members = [p \in Users \X Orgs |-> 0]
  /\ session = [u \in Users |-> [active |-> Null, tenant |-> Null]]
  /\ held = {} /\ guc = [c \in Calls |-> Null] /\ left = {Null}
  /\ call = [c \in Calls |-> Null]
  /\ admitted = FirstAdmins \X FirstOrgs

-----------------------------------------------------------------------------
(* Connections *)

\* An idle connection; a statement on its own gives it back at once.
\* Mutant: one connection is never handed out.
Free_OneKeptBack == Cardinality(held) + 1 < MaxConns

Free == Cardinality(held) < MaxConns

At(c, pc)   == call[c] # Null /\ call[c].pc = pc
Goes(c, pc) == call' = [call EXCEPT ![c].pc = pc]
Finish(c)   == call' = [call EXCEPT ![c] = Null]

\* set_config(..., true): gone with the transaction.
SettingAfter(g) == Null

\* COMMIT or ROLLBACK: the connection is idle again.
Release(c) ==
  /\ held' = held \ {c}
  /\ left' = left \cup {SettingAfter(guc[c])}
  /\ guc' = [guc EXCEPT ![c] = Null]

-----------------------------------------------------------------------------
(* The session *)

\* The policy of session.
SessionVisible(u, g) == session[u].tenant \in {Null, g}

\* The statements on their own that a request begins with: getSession, and what says
\* that it may go on.  One that may not changes nothing.
Arrive(c, op, u, o, v) ==
  /\ call[c] = Null /\ c \notin held
  /\ Free /\ \E g \in left : SessionVisible(u, g)
  /\ call' = [call EXCEPT ![c] =
       [op |-> op, user |-> u, org |-> o, target |-> v,
        pc |-> IF op \in {"promote", "demote"} THEN "body" ELSE "begin"]]
  /\ UNCHANGED <<access, pool>>

\* Mutant: any organization that is there can be picked.
MayPick_Anybody(u, o) == o \in orgs

\* A super admin, or a row of fb_list_user_memberships.
MayPick(u, o) == u \in superAdmins \/ members[<<u, o>>] > 0

\* selectActiveOrg.
SelectActiveOrg(c, u) == \E o \in orgs : MayPick(u, o) /\ Arrive(c, "pick", u, o, u)

\* withTenantAction: the tenant is the active organization of the session.
Act(c, u) == \E o \in orgs : session[u].active = o /\ Arrive(c, "act", u, o, u)

\* bootstrapOrganization.
Bootstrap(c, u) ==
  \E o \in Orgs \ orgs : session[u].active = Null /\ Arrive(c, "boot", u, o, u)

\* requireSuperAdmin, then createOrganizadora, attachUserToOrg, detachUserFromOrg,
\* setSuperAdmin; nobody demotes himself.
AdminRequest(c, u) ==
  /\ u \in superAdmins
  /\ \E v \in Managed :
       \/ \E o \in Orgs \ orgs : Arrive(c, "create", u, o, v)
       \/ \E o \in orgs, op \in {"attach", "detach"} : Arrive(c, op, u, o, v)
       \/ \E o \in FirstOrgs : Arrive(c, "promote", u, o, v)
       \/ \E o \in FirstOrgs : v # u /\ Arrive(c, "demote", u, o, v)

-----------------------------------------------------------------------------
(* The transaction *)

\* begin, and set_config of the tenant: only a switch looks the tenant up between
\* the two, on another connection.
Begin(c) ==
  LET r == call[c] IN
  /\ At(c, "begin") /\ Free
  /\ held' = held \cup {c}
  /\ guc' = [guc EXCEPT ![c] = IF r.op = "pick" THEN Null ELSE r.org]
  /\ \/ r.op \in {"pick", "act"} /\ Goes(c, "nested")
     \/ r.op \in {"attach", "detach"} /\ Goes(c, "check")
     \/ r.op \in {"act", "boot", "create"} /\ Goes(c, "body")
  /\ UNCHANGED <<access, left>>

\* lookupTenantIdForOrganization of a switch; resolveTenantSlug of the actions on
\* files, the CNPJ cache of createVendor.
Nested(c) ==
  /\ At(c, "nested") /\ Free
  /\ guc' = [guc EXCEPT ![c] = call[c].org]
  /\ Goes(c, "body")
  /\ UNCHANGED <<access, held, left>>

\* attachUserToOrg looks for a member row and detachUserFromOrg for the one it
\* deletes: without the right one they throw.
CheckMember(c) ==
  LET r == call[c]  n == members[<<r.target, r.org>>] IN
  /\ At(c, "check")
  /\ IF (r.op = "attach") = (n = 0)
       THEN Goes(c, "body") /\ UNCHANGED pool
       ELSE Finish(c) /\ Release(c)
  /\ UNCHANGED access

\* Mutant: the session's tenant follows its active organization.
Switched_Both(u, o) == [active |-> o, tenant |-> o]

\* setActiveOrganizationForSession, bootstrapOrganization: tenant_id stays.
Switched(u, o) == [session[u] EXCEPT !.active = o]

\* The rows of a new organization, unless its slug is taken, and its first member.
NewOrg(r) ==
  /\ r.org \notin orgs
  /\ orgs' = orgs \cup {r.org}
  /\ members' = [members EXCEPT ![<<r.target, r.org>>] = 1]
  /\ session' = IF r.op = "boot"
                  THEN [session EXCEPT ![r.user] = Switched(r.user, r.org)] ELSE session
  /\ UNCHANGED superAdmins

\* One row is inserted, or one of those that are left deleted.
MemberRow(r) ==
  /\ LET n == members[<<r.target, r.org>>] IN
     \/ r.op = "attach" /\ n < MaxRows /\ members' = [members EXCEPT ![<<r.target, r.org>>] = n + 1]
     \/ r.op = "detach" /\ n > 0 /\ members' = [members EXCEPT ![<<r.target, r.org>>] = n - 1]
  /\ UNCHANGED <<superAdmins, orgs, session>>

Effect(r) ==
  CASE r.op = "pick" -> /\ session' = [session EXCEPT ![r.user] = Switched(r.user, r.org)]
                        /\ UNCHANGED <<superAdmins, orgs, members>>
    [] r.op = "act" -> UNCHANGED <<superAdmins, orgs, members, session>>
    [] r.op \in {"boot", "create"} -> NewOrg(r)
    [] r.op \in {"attach", "detach"} -> MemberRow(r)
    [] OTHER -> /\ superAdmins' = IF r.op = "promote" THEN superAdmins \cup {r.target}
                                  ELSE superAdmins \ {r.target}
                /\ UNCHANGED <<orgs, members, session>>

\* Who has a way in now.
Ways == {p \in Users \X orgs : p[1] \in superAdmins \/ members[p] > 0}

\* The statements of the transaction, and COMMIT; the policies accept rows of the
\* tenant that is set.  setSuperAdmin is one statement without a transaction.
Commit(c) ==
  LET r == call[c] IN
  /\ At(c, "body")
  /\ Effect(r)
  /\ admitted' = admitted \cup Ways'
  /\ IF c \in held THEN Release(c) ELSE Free /\ UNCHANGED pool
  /\ Finish(c)

GiveBack(c) == IF c \in held THEN Release(c) ELSE UNCHANGED pool

\* A statement fails or the action throws.
Throw(c) ==
  /\ call[c] # Null
  /\ GiveBack(c)
  /\ Finish(c)
  /\ UNCHANGED access

-----------------------------------------------------------------------------
Progress(c) ==
  Begin(c) \/ Nested(c) \/ CheckMember(c) \/ Commit(c)

Next == \E c \in Calls :
  \/ \E u \in Users : \/ SelectActiveOrg(c, u) \/ Act(c, u) \/ Bootstrap(c, u)
                      \/ AdminRequest(c, u)
  \/ Progress(c) \/ Throw(c)

\* What cannot be done, because the slug or the row is gone, throws.
Ends(c) == Progress(c) \/ (At(c, "body") /\ Throw(c))

\* The pool serves those who wait in turn: strong fairness.
Fairness == \A c \in Calls : SF_vars(Ends(c))

Spec == Init /\ [][Next]_vars /\ Fairness

-----------------------------------------------------------------------------
(* Properties *)

\* A user writes rows of an organization only if it once was its member or a super
\* admin: nothing but a checked switch or an onboarding makes an organization active,
\* whatever happens to memberships meanwhile (select-org.ts:62-105).
WritesWhereAdmitted ==
  \A c \in Calls :
    At(c, "body") /\ call[c].op = "act" => <<call[c].user, guc[c]>> \in admitted

\* The policies show a statement the rows of its own tenant, and one outside a
\* transaction no tenant's, whoever had the connection before (with-tenant.ts:91-94,
\* index.ts:7-14); and a session is found by its token on every idle connection, so
\* that a switch logs nobody out (set-active-org.ts:104-122).
PoliciesShowTheRightRows ==
  /\ left = {Null}
  /\ \A c \in held : At(c, "body") \/ At(c, "check") => guc[c] = call[c].org
  /\ \A u \in Users, g \in left : SessionVisible(u, g)

\* Every connection is held by a request that waits for a second one.
Starved == Cardinality({c \in held : At(c, "nested")}) = MaxConns

\* A request ends, whichever others fail, unless the pool is exhausted by requests
\* that each want one connection more (with-tenant.ts:42-43, vendor-docs.ts:110).
EveryRequestEnds == \A c \in Calls : call[c] # Null ~> (call[c] = Null \/ Starved)
=============================================================================
