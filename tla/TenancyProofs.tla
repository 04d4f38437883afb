---------------------------- MODULE TenancyProofs ----------------------------
(***************************************************************************)
(* What TLAPS proves of Tenancy, for any number of users, organizations,    *)
(* requests and connections.                                                *)
(*                                                                         *)
(* A right may be gone by the time it is used.  What stays is that it was   *)
(* there (WaysAreAdmitted, SessionsAreAdmitted), and that a transaction     *)
(* past its set_config has the tenant of its request (CallFits).            *)
(***************************************************************************)
EXTENDS Tenancy, TLAPS

WaysAreAdmitted == Ways \subseteq admitted

SessionsAreAdmitted ==
  \A u \in Users : /\ session[u].tenant = Null
                   /\ session[u].active # Null => <<u, session[u].active>> \in admitted

OfOneUser == {"promote", "demote"}

CallFits(c) ==
  LET r == call[c] IN
  /\ r.op \in {"pick", "act"} => <<r.user, r.org>> \in admitted
  /\ r.op = "boot" => r.target = r.user
  /\ r.op \in OfOneUser => r.pc = "body" /\ c \notin held
  /\ r.op \notin OfOneUser /\ r.pc \in {"check", "body"} => guc[c] = r.org

CallsFit == \A c \in Calls : call[c] # Null => CallFits(c)

NothingLeft == left = {Null}

IInv == TypeOK /\ WaysAreAdmitted /\ SessionsAreAdmitted /\ CallsFit /\ NothingLeft

-----------------------------------------------------------------------------
LEMMA InitInv == Init => IInv
<1> SUFFICES ASSUME Init PROVE IInv
  OBVIOUS
<1>1. TypeOK
  BY TenancyAssumption DEF Init, TypeOK, Session, Tenant
<1>2. WaysAreAdmitted
  <2> SUFFICES ASSUME NEW p \in Ways PROVE p \in admitted
    BY DEF WaysAreAdmitted
  <2>1. /\ p \in Users \X orgs /\ (p[1] \in superAdmins \/ members[p] > 0)
        /\ superAdmins = FirstAdmins /\ orgs = FirstOrgs /\ members[p] = 0
        /\ admitted = FirstAdmins \X FirstOrgs
    BY TenancyAssumption DEF Ways, Init
  <2>2. PICK u \in Users, o \in orgs : p = <<u, o>>
    BY <2>1
  <2>3. u \in FirstAdmins /\ o \in FirstOrgs
    BY <2>1, <2>2
  <2> QED BY <2>1, <2>2, <2>3
<1>3. SessionsAreAdmitted /\ CallsFit /\ NothingLeft
  BY DEF Init, SessionsAreAdmitted, CallsFit, NothingLeft
<1> QED BY <1>1, <1>2, <1>3 DEF IInv

\* A request arrives: it has what it asks for, or asks as a super admin.
LEMMA ArriveStep ==
  ASSUME IInv, NEW c \in Calls, NEW op \in Ops, NEW u \in Users, NEW o \in Orgs, NEW v \in Users,
         Arrive(c, op, u, o, v),
         op \in {"pick", "act"} => <<u, o>> \in admitted, op = "boot" => v = u
  PROVE  IInv'
<1> DEFINE r == [op |-> op, user |-> u, org |-> o, target |-> v,
                 pc |-> IF op \in {"promote", "demote"} THEN "body" ELSE "begin"]
<1>1. /\ call' = [call EXCEPT ![c] = r] /\ c \notin held
      /\ UNCHANGED <<superAdmins, orgs, members, session, admitted, held, guc, left>>
  BY DEF Arrive, access, pool
<1>2. /\ r \in Call /\ r.op = op /\ r.user = u /\ r.org = o /\ r.target = v
      /\ r.pc = IF op \in {"promote", "demote"} THEN "body" ELSE "begin"
  BY DEF Call
<1> HIDE DEF r
<1>3. TypeOK'
  BY <1>1, <1>2 DEF IInv, TypeOK
<1>4. CallsFit'
  <2> SUFFICES ASSUME NEW d \in Calls, call'[d] # Null
               PROVE  CallFits(d)'
    BY DEF CallsFit
  <2>1. CASE d = c
    <3>1. call'[d] = r
      BY <1>1, <2>1 DEF IInv, TypeOK
    <3> QED BY <1>1, <1>2, <2>1, <3>1 DEF CallFits, OfOneUser
  <2>2. CASE d # c
    BY <1>1, <2>2 DEF IInv, TypeOK, CallsFit, CallFits
  <2> QED BY <2>1, <2>2
<1>5. WaysAreAdmitted' /\ SessionsAreAdmitted' /\ NothingLeft'
  BY <1>1 DEF IInv, WaysAreAdmitted, Ways, SessionsAreAdmitted, NothingLeft
<1> QED BY <1>3, <1>4, <1>5 DEF IInv

\* Steps in the transaction that touch nothing but the request and its connection.
LEMMA PoolStep ==
  ASSUME IInv, NEW c \in Calls, UNCHANGED access,
         held' \subseteq Calls, guc' \in [Calls -> Tenant], left' = {Null},
         call' \in [Calls -> Call \cup {Null}],
         call'[c] # Null => CallFits(c)',
         \A d \in Calls : d # c => call'[d] = call[d] /\ guc'[d] = guc[d] /\ (d \in held' => d \in held)
  PROVE  IInv'
<1>1. UNCHANGED <<superAdmins, orgs, members, session, admitted>>
  BY DEF access
<1>2. TypeOK'
  BY <1>1 DEF IInv, TypeOK, Tenant
<1>3. CallsFit'
  <2> SUFFICES ASSUME NEW d \in Calls, call'[d] # Null
               PROVE  CallFits(d)'
    BY DEF CallsFit
  <2>1. CASE d = c
    BY <2>1
  <2>2. CASE d # c
    BY <1>1, <2>2 DEF IInv, CallsFit, CallFits
  <2> QED BY <2>1, <2>2
<1>4. WaysAreAdmitted' /\ SessionsAreAdmitted' /\ NothingLeft'
  BY <1>1 DEF IInv, WaysAreAdmitted, Ways, SessionsAreAdmitted, NothingLeft
<1> QED BY <1>2, <1>3, <1>4 DEF IInv

\* A request that moves on to pc, its connection having the tenant g.
LEMMA MovesOn ==
  ASSUME IInv, NEW c \in Calls, NEW pc \in {"begin", "nested", "check", "body"}, NEW g \in Tenant,
         call[c] # Null, call[c].op \notin OfOneUser, Goes(c, pc), UNCHANGED <<access, left>>,
         guc' = [guc EXCEPT ![c] = g], held' \in {held, held \cup {c}},
         pc \in {"check", "body"} => g = call[c].org
  PROVE  IInv'
<1>1. call[c] \in Call
  BY DEF IInv, TypeOK
<1>2. /\ call' \in [Calls -> Call \cup {Null}]
      /\ call'[c] = [call[c] EXCEPT !.pc = pc]
      /\ \A d \in Calls : d # c => call'[d] = call[d]
  BY <1>1 DEF Goes, IInv, TypeOK, Call
<1>3. /\ call'[c].op = call[c].op /\ call'[c].user = call[c].user /\ call'[c].org = call[c].org
      /\ call'[c].target = call[c].target /\ call'[c].pc = pc
  BY <1>1, <1>2 DEF Call
<1>4. /\ guc' \in [Calls -> Tenant] /\ guc'[c] = g
      /\ \A d \in Calls : d # c => guc'[d] = guc[d]
  BY DEF IInv, TypeOK
<1>5. CallFits(c)
  BY DEF IInv, CallsFit
<1>6. CallFits(c)'
  BY <1>3, <1>4, <1>5 DEF CallFits, access
<1>7. held' \subseteq Calls /\ left' = {Null}
  BY DEF IInv, TypeOK, NothingLeft
<1> QED BY <1>2, <1>4, <1>6, <1>7, PoolStep

LEMMA BeginStep ==
  ASSUME IInv, NEW c \in Calls, Begin(c)
  PROVE  IInv'
<1>1. call[c] # Null /\ call[c] \in Call /\ call[c].org \in Tenant /\ Null \in Tenant
  BY DEF Begin, At, IInv, TypeOK, Call, Tenant
<1>2. call[c].op \notin OfOneUser
  BY DEF Begin, OfOneUser
<1>3. held' = held \cup {c} /\ UNCHANGED <<access, left>>
  BY DEF Begin
<1>4. PICK pc \in {"nested", "check", "body"} :
        Goes(c, pc) /\ (pc # "nested" => call[c].op # "pick")
  BY DEF Begin
<1>5. PICK g \in Tenant : /\ guc' = [guc EXCEPT ![c] = g]
                          /\ call[c].op # "pick" => g = call[c].org
  BY <1>1 DEF Begin
<1> QED BY <1>1, <1>2, <1>3, <1>4, <1>5, MovesOn

LEMMA NestedStep ==
  ASSUME IInv, NEW c \in Calls, Nested(c)
  PROVE  IInv'
<1>1. call[c] # Null /\ call[c].pc = "nested" /\ call[c] \in Call /\ call[c].org \in Tenant
  BY DEF Nested, At, IInv, TypeOK, Call, Tenant
<1>2. call[c].op \notin OfOneUser
  BY <1>1 DEF IInv, CallsFit, CallFits
<1>3. UNCHANGED <<access, held, left>> /\ Goes(c, "body") /\ guc' = [guc EXCEPT ![c] = call[c].org]
  BY DEF Nested
<1> QED BY <1>1, <1>2, <1>3, MovesOn

\* A request that ends without having written.
LEMMA Ending ==
  ASSUME IInv, NEW c \in Calls, UNCHANGED access, Finish(c), Release(c) \/ UNCHANGED pool
  PROVE  IInv'
<1>1. /\ call' \in [Calls -> Call \cup {Null}] /\ call'[c] = Null
      /\ \A d \in Calls : d # c => call'[d] = call[d]
  BY DEF Finish, IInv, TypeOK
<1>2. /\ held' \subseteq held /\ guc' \in [Calls -> Tenant] /\ left' = {Null}
      /\ \A d \in Calls : d # c => guc'[d] = guc[d]
  <2>1. CASE UNCHANGED pool
    BY <2>1 DEF pool, IInv, TypeOK, NothingLeft
  <2>2. CASE Release(c)
    BY <2>2 DEF Release, SettingAfter, IInv, TypeOK, Tenant, NothingLeft
  <2> QED BY <2>1, <2>2
<1>3. held' \subseteq Calls
  BY <1>2 DEF IInv, TypeOK
<1> QED BY <1>1, <1>2, <1>3, PoolStep

LEMMA CheckMemberStep ==
  ASSUME IInv, NEW c \in Calls, CheckMember(c)
  PROVE  IInv'
<1>1. call[c] # Null /\ call[c].pc = "check" /\ UNCHANGED access
  BY DEF CheckMember, At
<1>2. CASE Goes(c, "body") /\ UNCHANGED pool
  <2>1. call[c].op \notin OfOneUser /\ guc[c] = call[c].org
    BY <1>1 DEF IInv, CallsFit, CallFits
  <2>2. guc[c] \in Tenant /\ guc' = [guc EXCEPT ![c] = guc[c]] /\ UNCHANGED <<held, left>>
    BY <1>2 DEF pool, IInv, TypeOK
  <2> QED BY <1>1, <1>2, <2>1, <2>2, MovesOn
<1>3. CASE Finish(c) /\ Release(c)
  BY <1>1, <1>3, Ending
<1> QED BY <1>2, <1>3 DEF CheckMember

-----------------------------------------------------------------------------
(* What a transaction writes *)

\* Only a switch and an onboarding write a session, for who may use it.
LEMMA EffectStep ==
  ASSUME IInv, NEW c \in Calls, call[c] # Null, call[c].pc = "body", Effect(call[c]),
         admitted' = admitted \cup Ways'
  PROVE  /\ superAdmins' \subseteq Users /\ orgs' \subseteq Orgs
         /\ members' \in [Users \X Orgs -> 0 .. MaxRows] /\ session' \in [Users -> Session]
         /\ admitted' \subseteq Users \X Orgs
         /\ SessionsAreAdmitted'
<1> DEFINE r == call[c]
<1>1. /\ r \in Call /\ r.op \in Ops /\ r.user \in Users /\ r.org \in Orgs /\ r.target \in Users
      /\ CallFits(c)
  BY DEF IInv, TypeOK, Call, CallsFit
<1>2. /\ superAdmins \subseteq Users /\ orgs \subseteq Orgs
      /\ members \in [Users \X Orgs -> 0 .. MaxRows] /\ session \in [Users -> Session]
      /\ admitted \subseteq Users \X Orgs /\ MaxRows \in Nat \ {0}
  BY TenancyAssumption DEF IInv, TypeOK
<1>3. \A u \in Users : session[u] \in Session /\ session[u].tenant = Null
  BY <1>2 DEF IInv, SessionsAreAdmitted
<1>4. \A u \in Users : session[u].active # Null => <<u, session[u].active>> \in admitted'
  BY DEF IInv, SessionsAreAdmitted
<1>5. [session EXCEPT ![r.user] = Switched(r.user, r.org)] \in [Users -> Session]
  BY <1>1, <1>2, <1>3 DEF Switched, Session
<1>6. ASSUME session' = [session EXCEPT ![r.user] = Switched(r.user, r.org)],
             <<r.user, r.org>> \in admitted'
      PROVE  SessionsAreAdmitted'
  <2> SUFFICES ASSUME NEW CONSTANT u \in Users
               PROVE  /\ session'[u].tenant = Null
                      /\ session'[u].active # Null => <<u, session'[u].active>> \in admitted'
    BY DEF SessionsAreAdmitted
  <2>1. CASE u = r.user
    <3>1. session'[u] = [session[u] EXCEPT !.active = r.org]
      BY <1>2, <1>6, <2>1 DEF Switched
    <3>2. session'[u].tenant = Null /\ session'[u].active = r.org
      BY <1>3, <3>1 DEF Session
    <3> QED BY <1>6, <2>1, <3>2
  <2>2. CASE u # r.user
    <3>1. session'[u] = session[u]
      BY <1>2, <1>6, <2>2
    <3> QED BY <1>3, <1>4, <3>1
  <2> QED BY <2>1, <2>2
<1>7. session' = session => SessionsAreAdmitted'
  BY <1>3, <1>4 DEF SessionsAreAdmitted
<1>8. Ways' \subseteq Users \X orgs'
  BY DEF Ways
<1>9. CASE r.op = "pick"
  <2>1. /\ session' = [session EXCEPT ![r.user] = Switched(r.user, r.org)]
        /\ UNCHANGED <<superAdmins, orgs, members>>
    BY <1>9 DEF Effect
  <2>2. <<r.user, r.org>> \in admitted
    BY <1>1, <1>9 DEF CallFits
  <2> QED BY <1>2, <1>5, <1>6, <1>8, <2>1, <2>2
<1>10. CASE r.op \in {"act"}
  BY <1>2, <1>7, <1>8, <1>10 DEF Effect
<1>11. CASE r.op \in {"boot", "create"}
  <2>1. NewOrg(r)
    BY <1>11 DEF Effect
  <2>2. /\ orgs' = orgs \cup {r.org} /\ superAdmins' = superAdmins
        /\ members' = [members EXCEPT ![<<r.target, r.org>>] = 1]
    BY <2>1 DEF NewOrg
  <2>3. members' \in [Users \X Orgs -> 0 .. MaxRows] /\ members'[<<r.target, r.org>>] = 1
    BY <1>1, <1>2, <2>2
  <2>4. <<r.target, r.org>> \in Ways'
    BY <1>1, <2>2, <2>3 DEF Ways
  <2>5. CASE r.op = "boot"
    <3>1. session' = [session EXCEPT ![r.user] = Switched(r.user, r.org)] /\ r.target = r.user
      BY <1>1, <2>1, <2>5 DEF NewOrg, CallFits
    <3> QED BY <1>1, <1>2, <1>5, <1>6, <1>8, <2>2, <2>3, <2>4, <3>1
  <2>6. CASE r.op # "boot"
    BY <1>1, <1>2, <1>7, <1>8, <2>1, <2>2, <2>3, <2>6 DEF NewOrg
  <2> QED BY <2>5, <2>6
<1>12. CASE r.op \in {"attach", "detach"}
  <2>1. MemberRow(r)
    BY <1>12 DEF Effect
  <2>2. members[<<r.target, r.org>>] \in 0 .. MaxRows
    BY <1>1, <1>2
  <2>3. members' \in [Users \X Orgs -> 0 .. MaxRows] /\ UNCHANGED <<superAdmins, orgs, session>>
    BY <1>1, <1>2, <2>1, <2>2 DEF MemberRow
  <2> QED BY <1>2, <1>7, <1>8, <2>3
<1>13. CASE r.op \in OfOneUser
  <2>1. /\ superAdmins' = IF r.op = "promote" THEN superAdmins \cup {r.target}
                          ELSE superAdmins \ {r.target}
        /\ UNCHANGED <<orgs, members, session>>
    BY <1>13 DEF Effect, OfOneUser
  <2> QED BY <1>1, <1>2, <1>7, <1>8, <2>1
<1> QED BY <1>1, <1>9, <1>10, <1>11, <1>12, <1>13 DEF Ops, OfOneUser

LEMMA CommitStep ==
  ASSUME IInv, NEW c \in Calls, Commit(c)
  PROVE  IInv'
<1>1. /\ call[c] # Null /\ call[c].pc = "body" /\ Effect(call[c])
      /\ admitted' = admitted \cup Ways' /\ Finish(c) /\ (Release(c) \/ UNCHANGED pool)
  BY DEF Commit, At
<1>2. /\ superAdmins' \subseteq Users /\ orgs' \subseteq Orgs
      /\ members' \in [Users \X Orgs -> 0 .. MaxRows] /\ session' \in [Users -> Session]
      /\ admitted' \subseteq Users \X Orgs /\ SessionsAreAdmitted'
  BY <1>1, EffectStep
<1>3. /\ call' \in [Calls -> Call \cup {Null}] /\ call'[c] = Null
      /\ \A d \in Calls : d # c => call'[d] = call[d]
  BY <1>1 DEF Finish, IInv, TypeOK
<1>4. /\ held' \subseteq held /\ guc' \in [Calls -> Tenant] /\ left' = {Null}
      /\ \A d \in Calls : d # c => guc'[d] = guc[d]
  <2>1. CASE UNCHANGED pool
    BY <2>1 DEF pool, IInv, TypeOK, NothingLeft
  <2>2. CASE Release(c)
    BY <2>2 DEF Release, SettingAfter, IInv, TypeOK, Tenant, NothingLeft
  <2> QED BY <1>1, <2>1, <2>2
<1>5. TypeOK'
  BY <1>2, <1>3, <1>4 DEF IInv, TypeOK, Tenant
<1>6. CallsFit'
  BY <1>1, <1>3, <1>4 DEF IInv, CallsFit, CallFits
<1>7. WaysAreAdmitted'
  BY <1>1 DEF WaysAreAdmitted
<1> QED BY <1>2, <1>4, <1>5, <1>6, <1>7 DEF IInv, NothingLeft

-----------------------------------------------------------------------------
(* Requests *)

LEMMA RequestStep ==
  ASSUME IInv, NEW c \in Calls, NEW u \in Users,
         SelectActiveOrg(c, u) \/ Act(c, u) \/ Bootstrap(c, u) \/ AdminRequest(c, u)
  PROVE  IInv'
<1>1. CASE SelectActiveOrg(c, u)
  <2>1. PICK o \in orgs : MayPick(u, o) /\ Arrive(c, "pick", u, o, u)
    BY <1>1 DEF SelectActiveOrg
  <2>2. o \in Orgs /\ <<u, o>> \in admitted
    BY <2>1 DEF MayPick, IInv, TypeOK, WaysAreAdmitted, Ways
  <2> QED BY <2>1, <2>2, ArriveStep DEF Ops
<1>2. CASE Act(c, u)
  <2>1. PICK o \in orgs : session[u].active = o /\ Arrive(c, "act", u, o, u)
    BY <1>2 DEF Act
  <2>2. o \in Orgs /\ <<u, o>> \in admitted
    BY <2>1, TenancyAssumption DEF IInv, TypeOK, SessionsAreAdmitted
  <2> QED BY <2>1, <2>2, ArriveStep DEF Ops
<1>3. CASE Bootstrap(c, u)
  <2>1. PICK o \in Orgs : Arrive(c, "boot", u, o, u)
    BY <1>3 DEF Bootstrap
  <2> QED BY <2>1, ArriveStep DEF Ops
<1>4. CASE AdminRequest(c, u)
  <2>1. PICK v \in Users, o \in Orgs, op \in Ops \ {"pick", "act", "boot"} : Arrive(c, op, u, o, v)
    BY <1>4, TenancyAssumption DEF AdminRequest, Ops, IInv, TypeOK
  <2> QED BY <2>1, ArriveStep
<1> QED BY <1>1, <1>2, <1>3, <1>4

LEMMA StepInv == IInv /\ [Next]_vars => IInv'
<1> SUFFICES ASSUME IInv, [Next]_vars PROVE IInv'
  OBVIOUS
<1>1. ASSUME NEW c \in Calls, NEW u \in Users,
             SelectActiveOrg(c, u) \/ Act(c, u) \/ Bootstrap(c, u) \/ AdminRequest(c, u)
      PROVE  IInv'
  BY <1>1, RequestStep
<1>2. ASSUME NEW c \in Calls, Progress(c)
      PROVE  IInv'
  BY <1>2, BeginStep, NestedStep, CheckMemberStep, CommitStep DEF Progress
<1>3. ASSUME NEW c \in Calls, Throw(c)
      PROVE  IInv'
  BY <1>3, Ending DEF Throw, GiveBack
<1>4. CASE UNCHANGED vars
  <2>1. UNCHANGED <<superAdmins, orgs, members, session, admitted, held, guc, left, call>>
    BY <1>4 DEF vars, access, pool
  <2>2. TypeOK' /\ WaysAreAdmitted'
    BY <2>1 DEF IInv, TypeOK, WaysAreAdmitted, Ways
  <2> QED BY <2>1, <2>2 DEF IInv, SessionsAreAdmitted, CallsFit, CallFits, NothingLeft
<1> QED BY <1>1, <1>2, <1>3, <1>4 DEF Next

-----------------------------------------------------------------------------
(* Theorems *)

\* The inductive invariant.
THEOREM Invariance == Spec => []IInv
<1>1. Init => IInv
  BY InitInv
<1>2. IInv /\ [Next]_vars => IInv'
  BY StepInv
<1> QED BY <1>1, <1>2, PTL DEF Spec

\* A user writes rows of an organization only if it once had a way into it
\* (select-org.ts:62-105).
THEOREM WritesAreAdmitted == Spec => []WritesWhereAdmitted
<1>1. IInv => WritesWhereAdmitted
  BY DEF IInv, CallsFit, CallFits, WritesWhereAdmitted, At, OfOneUser
<1> QED BY <1>1, Invariance, PTL

\* Statements see the rows of their own tenant, and a switch of the organization logs
\* nobody out (with-tenant.ts:91-94, set-active-org.ts:104-122).
THEOREM RightRowsAreShown == Spec => []PoliciesShowTheRightRows
<1>1. IInv => PoliciesShowTheRightRows
  <2> SUFFICES ASSUME IInv PROVE PoliciesShowTheRightRows
    OBVIOUS
  <2>1. \A c \in held : At(c, "body") \/ At(c, "check") => guc[c] = call[c].org
    BY DEF IInv, TypeOK, CallsFit, CallFits, At
  <2>2. \A u \in Users, g \in left : SessionVisible(u, g)
    BY DEF IInv, SessionsAreAdmitted, SessionVisible
  <2> QED BY <2>1, <2>2 DEF IInv, NothingLeft, PoliciesShowTheRightRows
<1> QED BY <1>1, Invariance, PTL
=============================================================================
