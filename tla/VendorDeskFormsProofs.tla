----------------------- MODULE VendorDeskFormsProofs ------------------------
(***************************************************************************)
(* What TLAPS proves of VendorDesk, for any number of vendors, applicants, *)
(* lots and requests, and any lifetime of the cache, and of Forms, the     *)
(* pages that send those requests, for any number of tabs and entries. The *)
(* two share no variable.                                                  *)
(*                                                                         *)
(* The properties of VendorDesk are about rows; what keeps them is what    *)
(* each request has read and still relies on when it writes (CallFits),    *)
(* that two decisions never have one row (Locks), and that a row of the    *)
(* cache is no younger than the last day on which the company was active   *)
(* (CacheIsPast).                                                          *)
(*                                                                         *)
(* CreatedOnce counts rows. It is kept because a tab has one submission at *)
(* a time (OneSubmission); while one that could create a row is under way, *)
(* or the form is there to send it again, the rows that lost answers and   *)
(* early presses account for are not used up (WithinAllowance); and what   *)
(* may be created once leaves a key behind (KeyIsTaken). The badge follows *)
(* the field because a number that was left is the last one being looked   *)
(* up, or the one that was answered (BadgeFollows).                        *)
(***************************************************************************)
EXTENDS VendorDesk, Forms, TLAPS

-----------------------------------------------------------------------------
(* VendorDesk *)

Registration == {"member", "lookup", "fetch", "cache", "insert"}

Typed ==
  /\ day \in 0 .. MaxDays /\ lastActive \in 0 .. day /\ registry \in BOOLEAN
  /\ accounts \subseteq Applicants /\ members \in [Applicants -> Nat]
  /\ vendors \in [Vendors -> Vendor \cup {Null}]
  /\ assigned \subseteq Lots \X Vendors
  /\ jobs \subseteq Vendors \X Status /\ mails \subseteq Vendors \X Status
  /\ call \in [Calls -> Call \cup {Null}]

\* What a request has read and still holds.
CallFits(c) ==
  /\ call[c].pc = "commit" =>
       /\ call[c].op \in {"approved", "rejected"} /\ call[c].vendor \in Rows
       /\ vendors[call[c].vendor].status = "pending"
  /\ call[c].pc = "assign" =>
       /\ call[c].lot \in Lots /\ call[c].vendor \in Rows
       /\ vendors[call[c].vendor].status = "approved"
  /\ call[c].pc \in Registration =>
       /\ call[c].op \in {"create", "signup"}
       /\ call[c].op = "create" => call[c].owner = Null
       /\ call[c].op = "signup" => call[c].owner \in accounts
       /\ call[c].member /\ call[c].op = "signup" => members[call[c].owner] > 0
  /\ call[c].pc = "cache" => lastActive = day
  /\ call[c].verified => call[c].pc = "insert" /\ day - lastActive < TTL

CallsFit == \A c \in Calls : call[c] # Null => CallFits(c)

Locks == \A c, d \in Calls :
  At(c, "commit") /\ At(d, "commit") /\ call[c].vendor = call[d].vendor => c = d

\* The day of the registry: while it has the company, its last day is today.
ActiveToday == registry => lastActive = day

CacheIsPast == cache # Null => cache \in 0 .. lastActive

\* Emails and assignments are of rows.
RowsAreThere ==
  /\ \A j \in jobs \cup mails : j[1] \in Rows
  /\ \A p \in assigned : p[2] \in Rows

IInv ==
  /\ Typed /\ CallsFit /\ Locks /\ ActiveToday /\ CacheIsPast /\ RowsAreThere
  /\ MailsTellTheDecision /\ AssignmentIsSound /\ VendorCanLogIn

-----------------------------------------------------------------------------
(* The requests *)

\* The request c moves, and what the others rely on stays.
CallMoves(c) ==
  /\ call' \in [Calls -> Call \cup {Null}]
  /\ \A d \in Calls : d # c => call'[d] = call[d]
  /\ UNCHANGED <<day, lastActive>>
  /\ accounts \subseteq accounts'
  /\ \A a \in Applicants : members[a] > 0 => members'[a] > 0
  /\ \A v \in Rows : vendors'[v] = vendors[v] \/ (At(c, "commit") /\ call[c].vendor = v)

LEMMA OthersFit ==
  ASSUME IInv, NEW c \in Calls, CallMoves(c), call'[c] # Null => CallFits(c)',
         At(c, "commit")' => ~Locked(call'[c].vendor)
  PROVE  CallsFit' /\ Locks'
<1>1. ASSUME NEW d \in Calls, d # c, call'[d] # Null
      PROVE  CallFits(d)'
  <2>1. call'[d] = call[d] /\ CallFits(d) /\ call[d] \in Call
    BY <1>1 DEF IInv, Typed, CallsFit, CallMoves
  <2>2. ASSUME call[d].pc \in {"commit", "assign"}
        PROVE  vendors'[call[d].vendor] = vendors[call[d].vendor]
    BY <1>1, <2>1, <2>2 DEF IInv, CallsFit, Locks, CallMoves, CallFits, At
  <2>3. call[d].pc \in {"commit", "assign"} => call[d].vendor \in Rows /\ call[d].vendor \in Rows'
    BY <2>1, <2>2 DEF CallFits, Rows
  <2>4. call[d].op = "signup" /\ call[d].pc \in Registration => call[d].owner \in Applicants
    BY <2>1 DEF IInv, Typed, CallFits
  <2> QED BY <2>1, <2>2, <2>3, <2>4 DEF CallFits, CallMoves
<1>2. Locks'
  BY DEF IInv, Locks, CallMoves, Locked, At
<1> QED BY <1>1, <1>2 DEF CallsFit

\* Nothing but a request changes.
LEMMA OnlyCall ==
  ASSUME IInv, NEW c \in Calls, call' \in [Calls -> Call \cup {Null}],
         \A d \in Calls : d # c => call'[d] = call[d],
         call'[c] # Null => CallFits(c)',
         At(c, "commit")' => ~Locked(call'[c].vendor),
         UNCHANGED <<cnpjVars, deskVars, assigned, mailVars>>
  PROVE  IInv'
<1>1. CallsFit' /\ Locks'
  BY OthersFit DEF CallMoves, cnpjVars, deskVars
<1>2. Typed' /\ ActiveToday' /\ CacheIsPast' /\ RowsAreThere'
  BY DEF IInv, Typed, ActiveToday, CacheIsPast, RowsAreThere, Rows, cnpjVars, deskVars, mailVars
<1>3. MailsTellTheDecision' /\ AssignmentIsSound' /\ VendorCanLogIn'
  BY DEF IInv, MailsTellTheDecision, AssignmentIsSound, VendorCanLogIn, Rows, deskVars, mailVars
<1> QED BY <1>1, <1>2, <1>3 DEF IInv

\* A request that comes: its record is a call.
LEMMA Begins ==
  ASSUME Typed, NEW c \in Calls, NEW r \in Call, call' = [call EXCEPT ![c] = r]
  PROVE  /\ call' \in [Calls -> Call \cup {Null}] /\ call'[c] = r
         /\ \A d \in Calls : d # c => call'[d] = call[d]
  BY DEF Typed

\* The record of one that comes for op, at its statement pc.
NewCall(op, pc, v, a, l, w) ==
  [op |-> op, pc |-> pc, vendor |-> v, owner |-> a, lot |-> l, member |-> FALSE, verified |-> w]

\* A request that goes on, and one that ends.
LEMMA GoesOn ==
  ASSUME Typed, NEW c \in Calls, call[c] # Null, NEW p \in {"commit", "assign"} \cup Registration,
         \/ Goes(c, p)
         \/ \E w \in BOOLEAN : call' = [call EXCEPT ![c].pc = p, ![c].member = w]
         \/ \E w \in BOOLEAN : call' = [call EXCEPT ![c].pc = p, ![c].verified = w]
  PROVE  /\ call' \in [Calls -> Call \cup {Null}]
         /\ \A d \in Calls : d # c => call'[d] = call[d]
         /\ call'[c].op = call[c].op /\ call'[c].owner = call[c].owner /\ call'[c].pc = p
<1>1. call[c] \in Call
  BY DEF Typed
<1>2. ASSUME NEW m \in BOOLEAN, NEW w \in BOOLEAN
      PROVE  [call[c] EXCEPT !.pc = p, !.member = m, !.verified = w] \in Call
  BY <1>1 DEF Call, Registration
<1>3. CASE Goes(c, p)
  <2>1. call' = [call EXCEPT ![c] = [call[c] EXCEPT !.pc = p]]
    BY <1>3 DEF Goes
  <2>2. [call[c] EXCEPT !.pc = p] \in Call
    BY <1>1 DEF Call, Registration
  <2> QED BY <1>1, <2>1, <2>2 DEF Typed, Call
<1>4. CASE \E w \in BOOLEAN : call' = [call EXCEPT ![c].pc = p, ![c].member = w]
  <2>1. PICK w \in BOOLEAN : call' = [call EXCEPT ![c] = [call[c] EXCEPT !.pc = p, !.member = w]]
    BY <1>4
  <2>2. [call[c] EXCEPT !.pc = p, !.member = w] \in Call
    BY <1>1 DEF Call, Registration
  <2> QED BY <1>1, <2>1, <2>2 DEF Typed, Call
<1>5. CASE \E w \in BOOLEAN : call' = [call EXCEPT ![c].pc = p, ![c].verified = w]
  <2>1. PICK w \in BOOLEAN : call' = [call EXCEPT ![c] = [call[c] EXCEPT !.pc = p, !.verified = w]]
    BY <1>5
  <2>2. [call[c] EXCEPT !.pc = p, !.verified = w] \in Call
    BY <1>1 DEF Call, Registration
  <2> QED BY <1>1, <2>1, <2>2 DEF Typed, Call
<1> QED BY <1>3, <1>4, <1>5

LEMMA Ends ==
  ASSUME Typed, NEW c \in Calls, Finish(c)
  PROVE  /\ call' \in [Calls -> Call \cup {Null}]
         /\ call'[c] = Null /\ \A d \in Calls : d # c => call'[d] = call[d]
  BY DEF Typed, Finish

-----------------------------------------------------------------------------
(* Each step keeps the invariant *)

\* A row of the cache that is fresh is of a day on which the company was active.
LEMMA FreshWasActive ==
  ASSUME IInv, IsCacheFresh
  PROVE  day - lastActive < TTL
  BY VendorDeskAssumption DEF IInv, Typed, CacheIsPast, IsCacheFresh

LEMMA FailKeeps ==
  ASSUME IInv, NEW c \in Calls, Fail(c)
  PROVE  IInv'
<1>1. Finish(c) /\ UNCHANGED <<cnpjVars, deskVars, assigned, mailVars>>
  BY DEF Fail
<1>2. call' \in [Calls -> Call \cup {Null}] /\ call'[c] = Null
      /\ \A d \in Calls : d # c => call'[d] = call[d]
  BY <1>1, Ends DEF IInv
<1> QED BY <1>1, <1>2, OnlyCall DEF At

LEMMA CreateVendorKeeps ==
  ASSUME IInv, NEW c \in Calls, CreateVendor(c)
  PROVE  IInv'
<1>1. UNCHANGED <<cnpjVars, deskVars, assigned, mailVars>>
  BY DEF CreateVendor
<1>2. ASSUME NEW p \in {"insert", "fetch"}, NEW w \in BOOLEAN, w => p = "insert" /\ IsCacheFresh,
             call' = [call EXCEPT ![c] = NewCall("create", p, Null, Null, Null, w)]
      PROVE  IInv'
  <2> DEFINE r == NewCall("create", p, Null, Null, Null, w)
  <2>1. /\ r \in Call /\ r.op = "create" /\ r.pc = p /\ r.owner = Null
        /\ r.member = FALSE /\ r.verified = w
    BY DEF NewCall, Call
  <2>2. Typed /\ call' = [call EXCEPT ![c] = r]
    BY <1>2 DEF IInv
  <2> HIDE DEF r
  <2>3. /\ call' \in [Calls -> Call \cup {Null}] /\ call'[c] = r
        /\ \A d \in Calls : d # c => call'[d] = call[d]
    BY <2>1, <2>2, Begins
  <2>4. w => day' - lastActive' < TTL
    BY <1>1, <1>2, FreshWasActive DEF cnpjVars
  <2>5. CallFits(c)' /\ ~At(c, "commit")'
    BY <1>2, <2>1, <2>3, <2>4 DEF CallFits, Registration, At
  <2> QED BY <1>1, <2>3, <2>5, OnlyCall
<1>3. CASE IsCacheFresh
  <2>1. call' = [call EXCEPT ![c] = NewCall("create", "insert", Null, Null, Null, TRUE)]
    BY <1>3 DEF CreateVendor, Begin, NewCall
  <2> QED BY <1>2, <1>3, <2>1
<1>4. CASE ~IsCacheFresh
  <2>1. call' = [call EXCEPT ![c] = NewCall("create", "fetch", Null, Null, Null, FALSE)]
    BY <1>4 DEF CreateVendor, Begin, NewCall
  <2> QED BY <1>2, <2>1
<1> QED BY <1>3, <1>4

LEMMA LookupKeeps ==
  ASSUME IInv, NEW c \in Calls, CheckMember(c) \/ ReadCache(c) \/ FetchBrasilAPI(c)
  PROVE  IInv'
<1>1. UNCHANGED <<cnpjVars, deskVars, assigned, mailVars>> /\ call[c] # Null
  BY DEF CheckMember, ReadCache, FetchBrasilAPI, At
<1>2. call[c] \in Call /\ CallFits(c) /\ call[c].pc \in Registration \ {"insert"}
  BY <1>1 DEF IInv, Typed, CallsFit, CheckMember, ReadCache, FetchBrasilAPI, At, Registration
<1>3. ~call[c].verified
  BY <1>2 DEF CallFits, Registration, Call
<1>4. CASE CheckMember(c)
  <2> DEFINE m == KnownMember(call[c].owner)
  <2>1. call' = [call EXCEPT ![c].pc = "lookup", ![c].member = m] /\ m \in BOOLEAN
    BY <1>4 DEF CheckMember, KnownMember
  <2>2. /\ call' \in [Calls -> Call \cup {Null}]
        /\ \A d \in Calls : d # c => call'[d] = call[d]
        /\ call'[c].op = call[c].op /\ call'[c].owner = call[c].owner /\ call'[c].pc = "lookup"
    <3> HIDE DEF m
    <3> QED BY <1>1, <2>1, GoesOn DEF IInv, Registration
  <2>3. call'[c].member = KnownMember(call[c].owner) /\ call'[c].verified = call[c].verified
    BY <1>2, <2>1 DEF IInv, Typed, Call
  <2>4. CallFits(c)' /\ ~At(c, "commit")'
    BY <1>1, <1>2, <1>3, <2>2, <2>3 DEF CallFits, Registration, At, KnownMember, deskVars
  <2> QED BY <1>1, <2>2, <2>4, OnlyCall
<1>5. CASE IsCacheFresh /\ call' = [call EXCEPT ![c].pc = "insert", ![c].verified = TRUE]
  <2>2. /\ call' \in [Calls -> Call \cup {Null}]
        /\ \A d \in Calls : d # c => call'[d] = call[d]
        /\ call'[c].op = call[c].op /\ call'[c].owner = call[c].owner /\ call'[c].pc = "insert"
    BY <1>1, <1>5, GoesOn DEF IInv, Registration
  <2>3. call'[c].member = call[c].member
    BY <1>2, <1>5 DEF IInv, Typed, Call
  <2>4. CallFits(c)' /\ ~At(c, "commit")'
    BY <1>1, <1>2, <1>5, <2>2, <2>3, FreshWasActive
    DEF CallFits, Registration, At, cnpjVars, deskVars
  <2> QED BY <1>1, <2>2, <2>4, OnlyCall
<1>6. ASSUME NEW p \in {"fetch", "cache", "insert"}, Goes(c, p), p = "cache" => registry
      PROVE  IInv'
  <2>2. /\ call' \in [Calls -> Call \cup {Null}]
        /\ \A d \in Calls : d # c => call'[d] = call[d]
        /\ call'[c].op = call[c].op /\ call'[c].owner = call[c].owner /\ call'[c].pc = p
    BY <1>1, <1>6, GoesOn DEF IInv, Registration
  <2>3. call'[c].member = call[c].member /\ call'[c].verified = call[c].verified
    BY <1>2, <1>6 DEF IInv, Typed, Call, Goes
  <2>4. CallFits(c)' /\ ~At(c, "commit")'
    BY <1>1, <1>2, <1>3, <1>6, <2>2, <2>3
    DEF IInv, ActiveToday, CallFits, Registration, At, cnpjVars, deskVars
  <2> QED BY <1>1, <2>2, <2>4, OnlyCall
<1> QED BY <1>4, <1>5, <1>6 DEF ReadCache, FetchBrasilAPI

\* A decision or an assignment is asked for: the row is as the WHERE wants it.
LEMMA AskKeeps ==
  ASSUME IInv, NEW c \in Calls, NEW v \in Vendors,
         \/ \E s \in {"approved", "rejected"} : Decide(c, v, s)
         \/ \E l \in Lots : AssignLot(c, l, v)
  PROVE  IInv'
<1>1. UNCHANGED <<cnpjVars, deskVars, assigned, mailVars>> /\ v \in Rows
  BY DEF Decide, AssignLot
<1>2. ASSUME NEW r \in Call, call' = [call EXCEPT ![c] = r],
             r.vendor = v, r.verified = FALSE, r.pc \in {"commit", "assign"},
             r.pc = "commit" => /\ r.op \in {"approved", "rejected"} /\ Undecided(v) /\ ~Locked(v),
             r.pc = "assign" => r.lot \in Lots /\ vendors[v].status = "approved"
      PROVE  IInv'
  <2>1. /\ call' \in [Calls -> Call \cup {Null}] /\ call'[c] = r
        /\ \A d \in Calls : d # c => call'[d] = call[d]
    BY <1>2, Begins DEF IInv
  <2>2. CallFits(c)' /\ (At(c, "commit")' => ~Locked(call'[c].vendor))
    BY <1>1, <1>2, <2>1 DEF CallFits, Registration, At, Undecided, Rows, deskVars
  <2> QED BY <1>1, <2>1, <2>2, OnlyCall
<1>3. ASSUME NEW s \in {"approved", "rejected"}, Decide(c, v, s)
      PROVE  IInv'
  <2>1. call' = [call EXCEPT ![c] = NewCall(s, "commit", v, Null, Null, FALSE)]
    BY <1>3 DEF Decide, Begin, NewCall
  <2>2. /\ NewCall(s, "commit", v, Null, Null, FALSE) \in Call
        /\ NewCall(s, "commit", v, Null, Null, FALSE).op = s
        /\ NewCall(s, "commit", v, Null, Null, FALSE).pc = "commit"
        /\ NewCall(s, "commit", v, Null, Null, FALSE).vendor = v
        /\ NewCall(s, "commit", v, Null, Null, FALSE).verified = FALSE
    BY DEF NewCall, Call
  <2>3. Undecided(v) /\ ~Locked(v)
    BY <1>3 DEF Decide
  <2> QED BY <1>2, <2>1, <2>2, <2>3
<1>4. ASSUME NEW l \in Lots, AssignLot(c, l, v)
      PROVE  IInv'
  <2>1. call' = [call EXCEPT ![c] = NewCall("assign", "assign", v, Null, l, FALSE)]
    BY <1>4 DEF AssignLot, Begin, NewCall
  <2>2. /\ NewCall("assign", "assign", v, Null, l, FALSE) \in Call
        /\ NewCall("assign", "assign", v, Null, l, FALSE).pc = "assign"
        /\ NewCall("assign", "assign", v, Null, l, FALSE).vendor = v
        /\ NewCall("assign", "assign", v, Null, l, FALSE).lot = l
        /\ NewCall("assign", "assign", v, Null, l, FALSE).verified = FALSE
    BY DEF NewCall, Call
  <2>3. vendors[v].status = "approved"
    BY <1>4 DEF AssignLot
  <2> QED BY <1>2, <2>1, <2>2, <2>3
<1> QED BY <1>3, <1>4

LEMMA SignUpKeeps ==
  ASSUME IInv, NEW c \in Calls, NEW a \in Applicants, SignUp(c, a)
  PROVE  IInv'
<1> DEFINE r == NewCall("signup", "member", Null, a, Null, FALSE)
<1>1. /\ call' = [call EXCEPT ![c] = r] /\ accounts' = accounts \cup {a}
      /\ UNCHANGED <<members, vendors, cnpjVars, assigned, mailVars>>
  BY DEF SignUp, Begin, NewCall
<1>2. /\ r \in Call /\ r.op = "signup" /\ r.pc = "member" /\ r.owner = a
      /\ r.member = FALSE /\ r.verified = FALSE
  BY DEF NewCall, Call
<1> HIDE DEF r
<1>3. /\ call' \in [Calls -> Call \cup {Null}] /\ call'[c] = r
      /\ \A d \in Calls : d # c => call'[d] = call[d]
  BY <1>1, <1>2, Begins DEF IInv
<1>4. CallFits(c)' /\ ~At(c, "commit")'
  BY <1>1, <1>2, <1>3 DEF CallFits, Registration, At
<1>5. CallsFit' /\ Locks'
  BY <1>1, <1>3, <1>4, OthersFit DEF CallMoves, cnpjVars
<1>6. Typed' /\ ActiveToday' /\ CacheIsPast' /\ RowsAreThere'
  BY <1>1, <1>3 DEF IInv, Typed, ActiveToday, CacheIsPast, RowsAreThere, Rows, cnpjVars, mailVars
<1>7. MailsTellTheDecision' /\ AssignmentIsSound' /\ VendorCanLogIn'
  BY <1>1 DEF IInv, MailsTellTheDecision, AssignmentIsSound, VendorCanLogIn, Rows, mailVars
<1> QED BY <1>5, <1>6, <1>7 DEF IInv

\* What is written to the cache is of today, on which the company is active.
LEMMA WriteCacheKeeps ==
  ASSUME IInv, NEW c \in Calls, WriteCache(c)
  PROVE  IInv'
<1>1. /\ call[c] # Null /\ call[c].pc = "cache" /\ cache' \in {day, cache}
      /\ call' = [call EXCEPT ![c].pc = "insert", ![c].verified = TRUE]
      /\ UNCHANGED <<day, registry, lastActive, deskVars, assigned, mailVars>>
  BY DEF WriteCache, At
<1>2. call[c] \in Call /\ CallFits(c) /\ lastActive = day /\ day \in Nat
  BY <1>1 DEF IInv, Typed, CallsFit, CallFits
<1>3. /\ call' \in [Calls -> Call \cup {Null}]
      /\ \A d \in Calls : d # c => call'[d] = call[d]
      /\ call'[c].op = call[c].op /\ call'[c].owner = call[c].owner /\ call'[c].pc = "insert"
  BY <1>1, GoesOn DEF IInv, Registration
<1>4. call'[c].member = call[c].member
  BY <1>1, <1>2 DEF IInv, Typed, Call
<1>5. CallFits(c)' /\ ~At(c, "commit")'
  BY <1>1, <1>2, <1>3, <1>4, VendorDeskAssumption DEF CallFits, Registration, At, deskVars
<1>6. CallsFit' /\ Locks'
  BY <1>1, <1>3, <1>5, OthersFit DEF CallMoves, deskVars
<1>7. Typed' /\ ActiveToday' /\ CacheIsPast' /\ RowsAreThere'
  BY <1>1, <1>2, <1>3
  DEF IInv, Typed, ActiveToday, CacheIsPast, RowsAreThere, Rows, deskVars, mailVars
<1>8. MailsTellTheDecision' /\ AssignmentIsSound' /\ VendorCanLogIn'
  BY <1>1 DEF IInv, MailsTellTheDecision, AssignmentIsSound, VendorCanLogIn, Rows, deskVars, mailVars
<1> QED BY <1>6, <1>7, <1>8 DEF IInv

\* The new row has its email queued, and what it says of its owner was read or is
\* written with it.
LEMMA InsertVendorKeeps ==
  ASSUME IInv, NEW c \in Calls, InsertVendor(c)
  PROVE  IInv'
<1> DEFINE a == call[c].owner
<1>1. /\ call[c] # Null /\ call[c].pc = "insert" /\ Finish(c)
      /\ members' = IF call[c].op = "signup" /\ ~call[c].member
                      THEN [members EXCEPT ![a] = @ + 1] ELSE members
      /\ UNCHANGED <<accounts, mails, cnpjVars, assigned>>
  BY DEF InsertVendor, At
<1>2. PICK v \in Vendors \ Rows :
        /\ vendors' = [vendors EXCEPT ![v] = [status |-> "pending", owner |-> a]]
        /\ jobs' = jobs \cup {<<v, "pending">>}
  BY DEF InsertVendor, QueueEmail
<1>3. call[c] \in Call /\ CallFits(c)
  BY <1>1 DEF IInv, Typed, CallsFit
<1>4. /\ call' \in [Calls -> Call \cup {Null}] /\ call'[c] = Null
      /\ \A d \in Calls : d # c => call'[d] = call[d]
  BY <1>1, Ends DEF IInv
<1>5. [status |-> "pending", owner |-> a] \in Vendor /\ [status |-> "pending", owner |-> a] # Null
  BY <1>3, NullIsNothing DEF Call, Vendor, Status
<1>6. /\ vendors' \in [Vendors -> Vendor \cup {Null}]
      /\ vendors'[v] # Null /\ vendors'[v].status = "pending" /\ vendors'[v].owner = a
      /\ \A u \in Vendors : u # v => vendors'[u] = vendors[u]
  BY <1>2, <1>5 DEF IInv, Typed
<1>7. /\ members' \in [Applicants -> Nat]
      /\ \A b \in Applicants : members[b] > 0 => members'[b] > 0
      /\ a # Null => a \in accounts /\ members'[a] > 0
  BY <1>1, <1>3 DEF IInv, Typed, CallFits, Registration
<1>8. CallsFit' /\ Locks'
  BY <1>1, <1>4, <1>6, <1>7, <1>2, OthersFit DEF CallMoves, At, Rows, cnpjVars
<1>9. Typed' /\ ActiveToday' /\ CacheIsPast' /\ RowsAreThere'
  BY <1>1, <1>2, <1>4, <1>6, <1>7
  DEF IInv, Typed, ActiveToday, CacheIsPast, RowsAreThere, Rows, Status, cnpjVars
<1>10. MailsTellTheDecision'
  <2> SUFFICES ASSUME NEW u \in Rows'
               PROVE  /\ \A s \in {"approved", "rejected"} :
                           <<u, s>> \in mails' \cup jobs' => vendors'[u].status = s
                      /\ <<u, vendors'[u].status>> \in mails' \cup jobs'
    BY DEF MailsTellTheDecision
  <2>1. CASE u = v
    <3>1. \A s : <<v, s>> \notin mails \cup jobs
      BY <1>2 DEF IInv, RowsAreThere
    <3> QED BY <1>1, <1>2, <1>6, <2>1, <3>1
  <2>2. CASE u # v
    <3>1. u \in Rows /\ vendors'[u] = vendors[u]
      BY <1>6, <2>2 DEF Rows
    <3>2. /\ \A s \in {"approved", "rejected"} :
               <<u, s>> \in mails \cup jobs => vendors[u].status = s
          /\ <<u, vendors[u].status>> \in mails \cup jobs
      BY <3>1 DEF IInv, MailsTellTheDecision
    <3>3. mails' = mails /\ \A s : <<u, s>> \in jobs' <=> <<u, s>> \in jobs
      BY <1>1, <1>2, <2>2
    <3> QED BY <3>1, <3>2, <3>3
  <2> QED BY <2>1, <2>2
<1>11. AssignmentIsSound'
  BY <1>1, <1>2, <1>6 DEF IInv, Typed, AssignmentIsSound, RowsAreThere, Rows
<1>12. VendorCanLogIn'
  BY <1>1, <1>6, <1>7 DEF IInv, Typed, VendorCanLogIn, Rows
<1> QED BY <1>8, <1>9, <1>10, <1>11, <1>12 DEF IInv

\* The decision, its email and the end of the request come together.
LEMMA CommitDecisionKeeps ==
  ASSUME IInv, NEW c \in Calls, CommitDecision(c)
  PROVE  IInv'
<1> DEFINE v == call[c].vendor
           s == call[c].op
<1>1. /\ call[c] # Null /\ call[c].pc = "commit" /\ Finish(c)
      /\ vendors' = [vendors EXCEPT ![v].status = s] /\ jobs' = jobs \cup {<<v, s>>}
      /\ UNCHANGED <<accounts, members, mails, cnpjVars, assigned>>
  BY DEF CommitDecision, QueueEmail, At
<1>2. /\ call[c] \in Call /\ s \in {"approved", "rejected"} /\ v \in Rows /\ v \in Vendors
      /\ vendors[v] \in Vendor /\ vendors[v].status = "pending"
  BY <1>1 DEF IInv, Typed, CallsFit, CallFits, Rows
<1> HIDE DEF v, s
<1>3. /\ call' \in [Calls -> Call \cup {Null}] /\ call'[c] = Null
      /\ \A d \in Calls : d # c => call'[d] = call[d]
  BY <1>1, Ends DEF IInv
<1>4. /\ vendors' \in [Vendors -> Vendor \cup {Null}]
      /\ vendors'[v] # Null /\ vendors'[v].status = s /\ vendors'[v].owner = vendors[v].owner
      /\ \A u \in Vendors : u # v => vendors'[u] = vendors[u]
  <2>1. vendors' = [vendors EXCEPT ![v] = [vendors[v] EXCEPT !.status = s]]
    BY <1>1
  <2>2. /\ [vendors[v] EXCEPT !.status = s] \in Vendor
        /\ [vendors[v] EXCEPT !.status = s].status = s
        /\ [vendors[v] EXCEPT !.status = s].owner = vendors[v].owner
    BY <1>2 DEF Vendor, Status
  <2> QED BY <1>2, <2>1, <2>2, NullIsNothing DEF IInv, Typed
<1>5. CallsFit' /\ Locks'
  BY <1>1, <1>2, <1>3, <1>4, OthersFit DEF CallMoves, At, Rows, cnpjVars, v
<1>6. Typed' /\ ActiveToday' /\ CacheIsPast' /\ RowsAreThere'
  BY <1>1, <1>2, <1>3, <1>4
  DEF IInv, Typed, ActiveToday, CacheIsPast, RowsAreThere, Rows, Status, cnpjVars
<1>7. MailsTellTheDecision'
  <2> SUFFICES ASSUME NEW u \in Rows'
               PROVE  /\ \A t \in {"approved", "rejected"} :
                           <<u, t>> \in mails' \cup jobs' => vendors'[u].status = t
                      /\ <<u, vendors'[u].status>> \in mails' \cup jobs'
    BY DEF MailsTellTheDecision
  <2>1. CASE u = v
    <3>1. \A t \in {"approved", "rejected"} : <<v, t>> \notin mails \cup jobs
      BY <1>2 DEF IInv, MailsTellTheDecision
    <3> QED BY <1>1, <1>2, <1>4, <2>1, <3>1
  <2>2. CASE u # v
    <3>1. u \in Rows /\ vendors'[u] = vendors[u]
      BY <1>4, <2>2 DEF Rows
    <3>2. /\ \A t \in {"approved", "rejected"} :
               <<u, t>> \in mails \cup jobs => vendors[u].status = t
          /\ <<u, vendors[u].status>> \in mails \cup jobs
      BY <3>1 DEF IInv, MailsTellTheDecision
    <3>3. mails' = mails /\ \A t : <<u, t>> \in jobs' <=> <<u, t>> \in jobs
      BY <1>1, <2>2
    <3> QED BY <3>1, <3>2, <3>3
  <2> QED BY <2>1, <2>2
<1>8. AssignmentIsSound'
  <2>1. \A p \in assigned : p[2] \in Vendors /\ p[2] # v
    BY <1>2 DEF IInv, Typed, AssignmentIsSound
  <2> QED BY <1>1, <1>4, <2>1 DEF IInv, AssignmentIsSound
<1>9. VendorCanLogIn'
  BY <1>1, <1>2, <1>4 DEF IInv, VendorCanLogIn, Rows
<1> QED BY <1>5, <1>6, <1>7, <1>8, <1>9 DEF IInv

\* The vendor that was read as approved still is.
LEMMA InsertAssignmentKeeps ==
  ASSUME IInv, NEW c \in Calls, InsertAssignment(c)
  PROVE  IInv'
<1> DEFINE l == call[c].lot
           v == call[c].vendor
<1>1. /\ call[c] # Null /\ call[c].pc = "assign" /\ Finish(c)
      /\ assigned' = IF IndexAllows(l, v) THEN assigned \cup {<<l, v>>} ELSE assigned
      /\ UNCHANGED <<cnpjVars, deskVars, mailVars>>
  BY DEF InsertAssignment, At
<1>2. l \in Lots /\ v \in Rows /\ v \in Vendors /\ vendors[v].status = "approved"
  BY <1>1 DEF IInv, CallsFit, CallFits, Rows
<1> HIDE DEF l, v
<1>3. /\ call' \in [Calls -> Call \cup {Null}] /\ call'[c] = Null
      /\ \A d \in Calls : d # c => call'[d] = call[d]
  BY <1>1, Ends DEF IInv
<1>4. CallsFit' /\ Locks'
  BY <1>1, <1>3, OthersFit DEF CallMoves, At, cnpjVars, deskVars
<1>5. Typed' /\ ActiveToday' /\ CacheIsPast' /\ RowsAreThere'
  BY <1>1, <1>2, <1>3
  DEF IInv, Typed, ActiveToday, CacheIsPast, RowsAreThere, Rows, cnpjVars, deskVars, mailVars
<1>6. MailsTellTheDecision' /\ VendorCanLogIn'
  BY <1>1 DEF IInv, MailsTellTheDecision, VendorCanLogIn, Rows, deskVars, mailVars
<1>7. AssignmentIsSound'
  <2>1. CASE IndexAllows(l, v)
    <3>1. \A p \in assigned : p[1] # l
      BY <2>1 DEF IInv, Typed, IndexAllows
    <3> QED BY <1>1, <1>2, <2>1, <3>1 DEF IInv, AssignmentIsSound, deskVars
  <2>2. CASE ~IndexAllows(l, v)
    BY <1>1, <2>2 DEF IInv, AssignmentIsSound, deskVars
  <2> QED BY <2>1, <2>2
<1> QED BY <1>4, <1>5, <1>6, <1>7 DEF IInv

\* What happens beside the requests: the email job, the end of an assignment, the
\* registry and the days.
LEMMA OutsideKeeps ==
  ASSUME IInv,
         \/ \E l \in Lots : UnassignLot(l)
         \/ \E j \in jobs : SendStatusUpdate(j) \/ SendingFails(j)
         \/ CompanyCloses \/ Midnight \/ UNCHANGED vars
  PROVE  IInv'
<1>1. call' = call /\ UNCHANGED deskVars
  BY DEF UnassignLot, SendStatusUpdate, SendingFails, CompanyCloses, Midnight, vars
<1>2. CallsFit'
  <2>1. CASE UNCHANGED <<day, lastActive>>
    BY <1>1, <2>1 DEF IInv, CallsFit, CallFits, Rows, deskVars
  <2>2. CASE Midnight
    <3>1. \A c \in Calls : call[c] # Null =>
            ~call[c].verified /\ call[c].pc \in {"commit", "assign"}
      BY <2>2 DEF IInv, Typed, CallsFit, CallFits, Midnight, Registering, Registration, Call
    <3> QED BY <1>1, <3>1 DEF IInv, CallsFit, CallFits, Registration, Rows, deskVars
  <2> QED BY <2>1, <2>2
      DEF UnassignLot, SendStatusUpdate, SendingFails, CompanyCloses, cnpjVars, vars
<1>3. assigned' \subseteq assigned /\ mails' \cup jobs' = mails \cup jobs
  BY DEF UnassignLot, SendStatusUpdate, SendingFails, CompanyCloses, Midnight, mailVars, vars
<1>4. Typed'
  <2>1. assigned' \subseteq Lots \X Vendors
        /\ jobs' \subseteq Vendors \X Status /\ mails' \subseteq Vendors \X Status
    BY <1>3 DEF IInv, Typed
  <2>2. day' \in 0 .. MaxDays /\ lastActive' \in 0 .. day' /\ registry' \in BOOLEAN
    <3>1. CASE Midnight
      <4>1. /\ day \in Nat /\ lastActive \in Nat /\ lastActive <= day
            /\ MaxDays \in Nat /\ day < MaxDays
        BY <3>1, VendorDeskAssumption DEF IInv, Typed, Midnight
      <4>2. day' = day + 1 /\ lastActive' \in {day + 1, lastActive} /\ registry' = registry
        BY <3>1 DEF Midnight
      <4> QED BY <4>1, <4>2 DEF IInv, Typed
    <3>2. CASE CompanyCloses
      BY <3>2 DEF IInv, Typed, CompanyCloses
    <3>3. CASE UNCHANGED cnpjVars
      BY <3>3 DEF IInv, Typed, cnpjVars
    <3> QED BY <3>1, <3>2, <3>3 DEF UnassignLot, SendStatusUpdate, SendingFails, vars
  <2> QED BY <1>1, <2>1, <2>2 DEF IInv, Typed, deskVars
<1>5. ActiveToday' /\ CacheIsPast'
  BY DEF IInv, Typed, ActiveToday, CacheIsPast,
     UnassignLot, SendStatusUpdate, SendingFails, CompanyCloses, Midnight, cnpjVars, vars
<1>6. Locks' /\ RowsAreThere'
  BY <1>1, <1>3 DEF IInv, Locks, At, RowsAreThere, Rows, deskVars
<1>7. MailsTellTheDecision' /\ AssignmentIsSound' /\ VendorCanLogIn'
  BY <1>1, <1>3
  DEF IInv, MailsTellTheDecision, AssignmentIsSound, VendorCanLogIn, Rows, deskVars
<1> QED BY <1>2, <1>4, <1>5, <1>6, <1>7 DEF IInv

-----------------------------------------------------------------------------
(* The theorems *)

LEMMA InitHolds == Init => IInv
<1> SUFFICES ASSUME Init
             PROVE  IInv
  OBVIOUS
<1>1. Rows = {} /\ \A c \in Calls : call[c] = Null
  BY DEF Init, Rows
<1>2. Typed /\ ActiveToday /\ CacheIsPast
  BY VendorDeskAssumption DEF Init, Typed, ActiveToday, CacheIsPast
<1>3. CallsFit /\ Locks /\ RowsAreThere
  BY <1>1 DEF Init, CallsFit, Locks, RowsAreThere, At
<1>4. MailsTellTheDecision /\ AssignmentIsSound /\ VendorCanLogIn
  BY <1>1 DEF Init, MailsTellTheDecision, AssignmentIsSound, VendorCanLogIn
<1> QED BY <1>2, <1>3, <1>4 DEF IInv

LEMMA NextHolds == IInv /\ [Next]_vars => IInv'
<1> SUFFICES ASSUME IInv, [Next]_vars
             PROVE  IInv'
  OBVIOUS
<1>1. ASSUME NEW c \in Calls, Requests(c)
      PROVE  IInv'
  BY <1>1, CreateVendorKeeps, SignUpKeeps, AskKeeps DEF Requests
<1>2. ASSUME NEW c \in Calls, Steps(c)
      PROVE  IInv'
  BY <1>2, LookupKeeps, WriteCacheKeeps, InsertVendorKeeps, CommitDecisionKeeps,
     InsertAssignmentKeeps, FailKeeps DEF Steps
<1> QED BY <1>1, <1>2, OutsideKeeps DEF Next

\* The invariant holds, however many requests race.
THEOREM Invariance == Spec => []IInv
  BY InitHolds, NextHolds, PTL DEF Spec

\* Rows, jobs, emails and requests stay well formed.
THEOREM TypeCorrect == Spec => []TypeOK
<1>1. IInv => TypeOK
  BY DEF IInv, Typed, CacheIsPast, TypeOK
<1> QED BY <1>1, Invariance, PTL

\* A vendor is told of one decision, the one its row has, and the email of its
\* status is out or queued (fornecedores.ts:117-130, 284-296, 319-322).
THEOREM VendorsAreTold == Spec => []MailsTellTheDecision
<1>1. IInv => MailsTellTheDecision
  BY DEF IInv
<1> QED BY <1>1, Invariance, PTL

\* A lot is assigned to one vendor, an approved one (lot-assignments.ts:84-98).
THEOREM AssignmentsAreSound == Spec => []AssignmentIsSound
<1>1. IInv => AssignmentIsSound
  BY DEF IInv
<1> QED BY <1>1, Invariance, PTL

\* A vendor that signed up has an account and a membership
\* (signup-fornecedor.ts:98-230).
THEOREM VendorsCanLogIn == Spec => []VendorCanLogIn
<1>1. IInv => VendorCanLogIn
  BY DEF IInv
<1> QED BY <1>1, Invariance, PTL

\* Whatever the lifetime of the cache, a vendor registered as verified had an
\* active CNPJ within it (brasilapi.ts:112-116, 217-244).
THEOREM VerifiedVendorsWereActive == Spec => VerifiedWasActive
<1>1. IInv /\ [Next]_vars =>
        [\A c \in Calls : At(c, "insert") /\ call[c].verified /\ vendors' # vendors
            => day - lastActive < TTL]_vars
  BY DEF IInv, CallsFit, CallFits, At
<1> QED BY <1>1, Invariance, PTL DEF Spec, VerifiedWasActive

-----------------------------------------------------------------------------
(* Forms *)

IsSubmit(t, i) == queue[t][i].op = "submit"
IsLookup(t, i) == queue[t][i].op = "lookup"

\* A tab has at most one submission, of something its user has typed, and only
\* the first of its requests may have its answer.
OneSubmission(t) ==
  /\ \A i, j \in DOMAIN queue[t] : IsSubmit(t, i) /\ IsSubmit(t, j) => i = j
  /\ \A i \in DOMAIN queue[t] : /\ IsSubmit(t, i) => queue[t][i].entry \in filled[t]
                                /\ i > 1 => queue[t][i].answer = "sent"

\* What is in the field, or was created, was typed.
OnlyTyped(t) ==
  /\ tab[t].entry # None => tab[t].entry \in filled[t]
  /\ \A e \in Entries : rows[t][e] > 0 => e \in filled[t]
  /\ again[t] <= pressed

\* The rows beyond the first that lost answers and early presses account for.
Allowance(t) == lost[t] + (IF tab[t].form = "signup" THEN again[t] ELSE 0)

Created(t) == \E i \in DOMAIN queue[t] : IsSubmit(t, i) /\ queue[t][i].answer = "ok"

\* The form is there to be sent, or will be without being filled in anew.
FormStays(t) == tab[t].at = "form" \/ (tab[t].form = "category" /\ tab[t].at = "leaving")

\* While a creation may still come that nothing accounts for, the allowance is
\* not used up.
WithinAllowance(t) ==
  tab[t].form \notin Unique =>
    /\ \A e \in Entries :
         /\ rows[t][e] <= 1 + Allowance(t)
         /\ \A i \in DOMAIN queue[t] :
              IsSubmit(t, i) /\ queue[t][i].entry = e /\ queue[t][i].answer = "sent"
                => rows[t][e] <= Allowance(t)
         /\ FormStays(t) /\ tab[t].entry = e /\ ~Created(t) => rows[t][e] <= Allowance(t)
    /\ tab[t].form = "category" /\ tab[t].at = "leaving" => ~Submitting(t)

ForAccounts == {"user", "organizadora"}

\* What was created holds the key that keeps it from being created again.
KeyIsTaken(t) ==
  \A e \in Entries :
    /\ tab[t].form \in ForAccounts /\ rows[t][e] > 0 => <<"email", e>> \in taken
    /\ tab[t].form = "members" /\ rows[t][e] > 0 => <<"member", e>> \in taken
    /\ tab[t].form = "approval" /\ rows[t][e] > 0 => \E k \in taken : k[1] = "decision"
    /\ tab[t].form \in Unique => rows[t][e] <= 1

LastLookup(t, e) ==
  \E i \in DOMAIN queue[t] :
    /\ IsLookup(t, i) /\ queue[t][i].entry = e
    /\ \A j \in DOMAIN queue[t] : IsLookup(t, j) => j <= i

\* A number that was left is being looked up, after all others, or was.
BadgeFollows(t) ==
  /\ tab[t].form \notin WithCnpj \/ tab[t].entry = None =>
       tab[t].badge = Idle /\ ~Looking(t)
  /\ tab[t].form \in WithCnpj /\ tab[t].at = "form" /\ tab[t].blurred
     /\ tab[t].entry # None /\ tab[t].entry \notin Unchecked =>
       \/ LastLookup(t, tab[t].entry)
       \/ ~Looking(t) /\ tab[t].badge = [kind |-> "answer", of |-> tab[t].entry]

FormOf(t) ==
  /\ OneSubmission(t) /\ OnlyTyped(t) /\ WithinAllowance(t) /\ KeyIsTaken(t) /\ BadgeFollows(t)

\* Two tabs do not create two accounts of one e-mail.
AccountsDiffer ==
  \A t, u \in Tabs, e \in Entries :
    t # u /\ {tab[t].form, tab[u].form} \subseteq ForAccounts => rows[t][e] + rows[u][e] <= 1

FormsInv == FormsTypeOK /\ AccountsDiffer /\ \A t \in Tabs : FormOf(t)

-----------------------------------------------------------------------------
(* Queues *)

LEMMA Appended ==
  ASSUME NEW S, NEW q \in Seq(S), NEW r \in S
  PROVE  /\ Append(q, r) \in Seq(S)
         /\ DOMAIN Append(q, r) = 1 .. Len(q) + 1
         /\ DOMAIN q = 1 .. Len(q) /\ Len(q) \in Nat
         /\ \A i \in DOMAIN q : Append(q, r)[i] = q[i]
         /\ Append(q, r)[Len(q) + 1] = r
         /\ Append(q, r) # <<>>
         /\ q = <<>> => Head(Append(q, r)) = r
         /\ q # <<>> => Head(Append(q, r)) = Head(q)
<1>1. /\ Append(q, r) \in Seq(S) /\ Len(Append(q, r)) = Len(q) + 1 /\ Len(q) \in Nat
      /\ \A i \in 1 .. Len(q) : Append(q, r)[i] = q[i]
      /\ Append(q, r)[Len(q) + 1] = r
  OBVIOUS
<1>2. DOMAIN Append(q, r) = 1 .. Len(q) + 1 /\ DOMAIN q = 1 .. Len(q)
  BY <1>1
<1>3. Append(q, r) # <<>> /\ Head(Append(q, r)) = Append(q, r)[1]
  BY <1>1
<1>4. q = <<>> => Append(q, r)[1] = r
  BY <1>1
<1>5. q # <<>> => Len(q) > 0 /\ Head(q) = q[1]
  OBVIOUS
<1> QED
  BY <1>1, <1>2, <1>3, <1>4, <1>5

LEMMA First ==
  ASSUME NEW S, NEW q \in Seq(S), q # <<>>
  PROVE  /\ DOMAIN q = 1 .. Len(q) /\ Len(q) \in Nat \ {0}
         /\ 1 \in DOMAIN q
         /\ Head(q) = q[1] /\ Head(q) \in S
         /\ \A i \in DOMAIN q : q[i] \in S
OBVIOUS

LEMMA Dropped ==
  ASSUME NEW S, NEW q \in Seq(S), q # <<>>
  PROVE  /\ Tail(q) \in Seq(S)
         /\ \A i \in DOMAIN Tail(q) : i \in Nat /\ i >= 1 /\ i + 1 \in DOMAIN q /\ Tail(q)[i] = q[i + 1]
         /\ \A i \in DOMAIN q : i > 1 => i - 1 \in DOMAIN Tail(q) /\ q[i] = Tail(q)[i - 1]
         /\ Tail(q) # <<>> => Head(Tail(q)) = q[2] /\ 2 \in DOMAIN q
<1>1. /\ Tail(q) \in Seq(S) /\ Len(Tail(q)) = Len(q) - 1 /\ Len(q) \in Nat \ {0}
      /\ \A i \in 1 .. Len(q) - 1 : Tail(q)[i] = q[i + 1]
      /\ DOMAIN Tail(q) = 1 .. Len(q) - 1 /\ DOMAIN q = 1 .. Len(q)
  OBVIOUS
<1>2. Tail(q) # <<>> => Len(Tail(q)) > 0 /\ Head(Tail(q)) = Tail(q)[1]
  BY <1>1
<1>3. \A i \in DOMAIN q : i > 1 => i - 1 \in DOMAIN Tail(q) /\ q[i] = Tail(q)[i - 1]
  <2> SUFFICES ASSUME NEW i \in 1 .. Len(q), i > 1
               PROVE  i - 1 \in 1 .. Len(q) - 1 /\ q[i] = Tail(q)[i - 1]
    BY <1>1
  <2>1. i - 1 \in 1 .. Len(q) - 1 /\ (i - 1) + 1 = i
    BY <1>1
  <2> QED
    BY <1>1, <2>1
<1>4. \A i \in DOMAIN Tail(q) : i \in Nat /\ i >= 1 /\ i + 1 \in DOMAIN q /\ Tail(q)[i] = q[i + 1]
  BY <1>1
<1>5. Tail(q) # <<>> => Head(Tail(q)) = q[2] /\ 2 \in DOMAIN q
  BY <1>1, <1>2
<1> QED
  BY <1>1, <1>3, <1>4, <1>5


LEMMA RequestHasParts ==
  ASSUME NEW r \in Request
  PROVE  /\ r.op \in {"submit", "lookup"} /\ r.entry \in Entries
         /\ r.answer \in {"sent", "ok", "refused"}
BY DEF Request

\* The first request of a queue is answered.
LEMMA FirstAnswered ==
  ASSUME NEW q \in Seq(Request), q # <<>>, NEW a \in {"sent", "ok", "refused"}, NEW d,
         d = [q EXCEPT ![1].answer = a]
  PROVE  /\ d \in Seq(Request) /\ d # <<>> /\ DOMAIN d = DOMAIN q
         /\ d[1].op = q[1].op /\ d[1].entry = q[1].entry /\ d[1].answer = a
         /\ \A i \in DOMAIN q : i # 1 => d[i] = q[i]
<1>1. 1 \in DOMAIN q /\ q[1] \in Request /\ DOMAIN q = 1 .. Len(q) /\ Len(q) \in Nat
      /\ \A i \in DOMAIN q : q[i] \in Request
  BY First
<1>2. PICK r : r = [q[1] EXCEPT !.answer = a]
  OBVIOUS
<1>3. r \in Request /\ r.op = q[1].op /\ r.entry = q[1].entry /\ r.answer = a
  BY <1>1, <1>2 DEF Request
<1>4. d = [q EXCEPT ![1] = r]
  BY <1>2
<1>5. DOMAIN d = DOMAIN q /\ d[1] = r /\ \A i \in DOMAIN q : i # 1 => d[i] = q[i]
  BY <1>1, <1>4
<1>6. d \in [1 .. Len(q) -> Request]
  BY <1>1, <1>3, <1>4
<1>7. d \in Seq(Request) /\ d # <<>>
  BY <1>1, <1>6
<1> QED
  BY <1>3, <1>5, <1>7

-----------------------------------------------------------------------------
(* Types *)

LEMMA FormParts ==
  ASSUME FormsTypeOK, NEW t \in Tabs
  PROVE  /\ tab[t] \in Tab
         /\ tab[t].form \in Transitions \cup Handlers \cup {None}
         /\ tab[t].entry \in Entries \cup {None}
         /\ tab[t].at \in {"form", "leaving", "left", "broken"}
         /\ queue[t] \in Seq(Request)
         /\ DOMAIN queue[t] = 1 .. Len(queue[t]) /\ Len(queue[t]) \in Nat
         /\ \A i \in DOMAIN queue[t] : queue[t][i] \in Request
         /\ rows[t] \in [Entries -> Nat]
         /\ filled[t] \subseteq Entries
         /\ lost[t] \in Nat /\ again[t] \in Nat /\ pressed \in Nat
         /\ Allowance(t) \in Nat
<1>1. tab[t] \in Tab /\ queue[t] \in Seq(Request) /\ rows[t] \in [Entries -> Nat]
      /\ filled[t] \subseteq Entries
  BY DEF FormsTypeOK
<1>2. lost[t] \in Nat /\ again[t] \in Nat /\ pressed \in Nat
  BY FormsAssumption DEF FormsTypeOK
<1>3. /\ tab[t].form \in Transitions \cup Handlers \cup {None}
      /\ tab[t].entry \in Entries \cup {None}
      /\ tab[t].at \in {"form", "leaving", "left", "broken"}
  BY <1>1 DEF Tab
<1>4. Allowance(t) \in Nat
  BY <1>2 DEF Allowance
<1>5. DOMAIN queue[t] = 1 .. Len(queue[t]) /\ Len(queue[t]) \in Nat
      /\ \A i \in DOMAIN queue[t] : queue[t][i] \in Request
  BY <1>1
<1> QED
  BY <1>1, <1>2, <1>3, <1>4, <1>5

-----------------------------------------------------------------------------
(* Steps of the other tabs *)

LEMMA Elsewhere ==
  ASSUME NEW u \in Tabs, FormsTypeOK, FormsTypeOK', FormOf(u),
         tab'[u] = tab[u], queue'[u] = queue[u], rows'[u] = rows[u],
         filled'[u] = filled[u], lost'[u] = lost[u], again'[u] = again[u],
         taken \subseteq taken', pressed <= pressed'
  PROVE  FormOf(u)'
<1>1. again[u] \in Nat /\ pressed \in Nat /\ pressed' \in Nat
  BY FormParts, FormsAssumption DEF FormsTypeOK
<1>2. OneSubmission(u)' /\ OnlyTyped(u)'
  BY <1>1 DEF FormOf, OneSubmission, OnlyTyped, IsSubmit
<1>3. WithinAllowance(u)'
  BY DEF FormOf, WithinAllowance, Allowance, Created, FormStays, IsSubmit, Submitting
<1>4. KeyIsTaken(u)'
  BY DEF FormOf, KeyIsTaken
<1>5. BadgeFollows(u)'
  BY DEF FormOf, BadgeFollows, LastLookup, IsLookup, Looking
<1> QED
  BY <1>2, <1>3, <1>4, <1>5 DEF FormOf

-----------------------------------------------------------------------------
(* Steps of the tab: its user presses, types and leaves the field *)

\* What the button of any of the forms does.
LEMMA Pressing ==
  ASSUME NEW t \in Tabs, FormsTypeOK, FormsTypeOK', FormOf(t),
         tab[t].form \in Transitions \cup Handlers, tab[t].at \in {"form", "leaving"},
         ~Submitting(t), tab[t].form \in Transitions => tab[t].at # "leaving",
         tab[t].entry # None, NEW r \in Request,
         r.op = "submit", r.entry = tab[t].entry, r.answer = "sent",
         queue'[t] = Append(queue[t], r),
         again'[t] = IF tab[t].at = "leaving" THEN again[t] + 1 ELSE again[t],
         pressed' = pressed + 1,
         tab' = tab, rows' = rows, taken' = taken, filled' = filled, lost' = lost
  PROVE  FormOf(t)'
<1> DEFINE q == queue[t]
           n == Len(q) + 1
<1>t. /\ q \in Seq(Request) /\ DOMAIN q = 1 .. Len(q) /\ Len(q) \in Nat
      /\ \A i \in DOMAIN q : q[i] \in Request
      /\ rows[t] \in [Entries -> Nat] /\ lost[t] \in Nat /\ again[t] \in Nat /\ pressed \in Nat
      /\ Allowance(t) \in Nat
  BY FormParts
<1>q. /\ DOMAIN queue'[t] = 1 .. n
      /\ \A i \in DOMAIN q : queue'[t][i] = q[i]
      /\ queue'[t][n] = r
  BY <1>t, Appended
<1>i. (\A i \in DOMAIN queue'[t] : i \in DOMAIN q \/ i = n) /\ \A i \in DOMAIN q : i \in DOMAIN queue'[t]
  BY <1>t, <1>q
<1>s. \A i \in DOMAIN q : q[i].op # "submit"
  BY DEF Submitting
<1>f. tab[t].entry \in filled[t]
  BY DEF FormOf, OnlyTyped
<1>1. OneSubmission(t)'
  BY <1>q, <1>i, <1>s, <1>f DEF FormOf, OneSubmission, IsSubmit
<1>2. OnlyTyped(t)'
  BY <1>t DEF FormOf, OnlyTyped
<1>3. WithinAllowance(t)'
  <2> SUFFICES ASSUME tab[t].form \notin Unique
               PROVE  WithinAllowance(t)'
    BY DEF WithinAllowance
  <2>c. ~Created(t)
    BY <1>s DEF Created, IsSubmit
  <2>w. \A e \in Entries : /\ rows[t][e] <= 1 + Allowance(t)
                           /\ FormStays(t) /\ tab[t].entry = e => rows[t][e] <= Allowance(t)
    BY <2>c DEF FormOf, WithinAllowance
  <2>1. CASE tab[t].at = "form"
    <3>1. Allowance(t)' = Allowance(t) /\ FormStays(t)
      BY <2>1 DEF Allowance, FormStays
    <3>2. \A e \in Entries : \A i \in DOMAIN queue'[t] :
            queue'[t][i].op = "submit" /\ queue'[t][i].entry = e => rows[t][e] <= Allowance(t)
      BY <2>w, <3>1, <1>i, <1>q, <1>s
    <3> QED
      BY <2>1, <2>w, <3>1, <3>2 DEF WithinAllowance, IsSubmit, FormStays
  <2>2. CASE tab[t].at = "leaving"
    <3>1. tab[t].form = "signup"
      BY <2>2 DEF Handlers, Unique
    <3>2. Allowance(t)' = Allowance(t) + 1
      BY <2>2, <3>1, <1>t DEF Allowance
    <3>3. \A e \in Entries : rows[t][e] <= Allowance(t)' /\ rows[t][e] <= 1 + Allowance(t)'
      BY <2>w, <3>2, <1>t
    <3> QED
      BY <3>1, <3>3 DEF WithinAllowance
  <2> QED
    BY <2>1, <2>2
<1>4. KeyIsTaken(t)'
  BY DEF FormOf, KeyIsTaken
<1>5. BadgeFollows(t)'
  <2>1. Looking(t)' <=> Looking(t)
    BY <1>i, <1>q DEF Looking
  <2>2. ASSUME NEW e, LastLookup(t, e) PROVE LastLookup(t, e)'
    BY <2>2, <1>i, <1>q DEF LastLookup, IsLookup
  <2> QED
    BY <2>1, <2>2 DEF FormOf, BadgeFollows
<1> QED
  BY <1>1, <1>2, <1>3, <1>4, <1>5 DEF FormOf

LEMMA Typing ==
  ASSUME NEW t \in Tabs, FormsTypeOK, FormsTypeOK', FormOf(t), NEW e \in Entries, Type(t, e)
  PROVE  FormOf(t)'
<1>t. /\ tab[t] \in Tab /\ rows[t] \in [Entries -> Nat] /\ Allowance(t) \in Nat
  BY FormParts
<1>x. /\ tab'[t] = [tab[t] EXCEPT !.entry = e, !.badge = Idle, !.blurred = FALSE]
      /\ filled'[t] = filled[t] \cup {e} /\ e \notin filled[t]
      /\ queue' = queue /\ rows' = rows /\ taken' = taken /\ pressed' = pressed
      /\ lost' = lost /\ again' = again
  BY DEF Type, FormsTypeOK, serverVars
<1>y. /\ tab'[t].form = tab[t].form /\ tab'[t].at = tab[t].at
      /\ tab'[t].entry = e /\ tab'[t].badge = Idle /\ tab'[t].blurred = FALSE
  BY <1>x, <1>t DEF Tab
<1>1. OneSubmission(t)'
  BY <1>x DEF FormOf, OneSubmission, IsSubmit
<1>2. OnlyTyped(t)'
  BY <1>x, <1>y DEF FormOf, OnlyTyped
<1>3. WithinAllowance(t)'
  <2>1. rows[t][e] = 0
    BY <1>t, <1>x DEF FormOf, OnlyTyped
  <2>2. Allowance(t)' = Allowance(t) /\ rows[t][e] <= Allowance(t)
    BY <2>1, <1>t, <1>x, <1>y DEF Allowance
  <2>3. Created(t)' <=> Created(t)
    BY <1>x DEF Created, IsSubmit
  <2> QED
    BY <2>2, <2>3, <1>x, <1>y DEF FormOf, WithinAllowance, IsSubmit, FormStays, Submitting
<1>4. KeyIsTaken(t)'
  BY <1>x, <1>y DEF FormOf, KeyIsTaken
<1>5. BadgeFollows(t)'
  BY <1>x, <1>y, FormsAssumption DEF FormOf, BadgeFollows, Looking
<1> QED
  BY <1>1, <1>2, <1>3, <1>4, <1>5 DEF FormOf

\* The field is left with a number that is looked up, or that is not.
LEMMA Blurring ==
  ASSUME NEW t \in Tabs, FormsTypeOK, FormsTypeOK', FormOf(t), HandleBlur(t)
  PROVE  FormOf(t)'
<1> DEFINE q == queue[t]
           n == Len(q) + 1
           e == tab[t].entry
<1>t. /\ tab[t] \in Tab /\ q \in Seq(Request) /\ DOMAIN q = 1 .. Len(q) /\ Len(q) \in Nat
      /\ \A i \in DOMAIN q : q[i] \in Request
      /\ e \in Entries
  BY FormParts DEF HandleBlur
<1>x. /\ rows' = rows /\ taken' = taken /\ filled' = filled /\ pressed' = pressed
      /\ lost' = lost /\ again' = again
      /\ tab[t].form \in WithCnpj /\ tab[t].at = "form" /\ e # None
  BY DEF HandleBlur, serverVars
<1>y. /\ tab'[t].form = tab[t].form /\ tab'[t].at = tab[t].at /\ tab'[t].entry = e
  BY <1>t DEF HandleBlur, FormsTypeOK, Tab
<1>1. CASE e \in Unchecked
  <2>1. queue' = queue
    BY <1>1 DEF HandleBlur
  <2>2. OneSubmission(t)' /\ OnlyTyped(t)' /\ KeyIsTaken(t)'
    BY <2>1, <1>x, <1>y DEF FormOf, OneSubmission, OnlyTyped, KeyIsTaken, IsSubmit
  <2>3. WithinAllowance(t)'
    BY <2>1, <1>x, <1>y DEF FormOf, WithinAllowance, Allowance, Created, FormStays, IsSubmit, Submitting
  <2>4. BadgeFollows(t)'
    BY <1>1, <1>x, <1>y DEF BadgeFollows
  <2> QED
    BY <2>2, <2>3, <2>4 DEF FormOf
<1>2. CASE e \notin Unchecked
  <2>1. PICK r \in Request : /\ queue'[t] = Append(q, r)
                             /\ r.op = "lookup" /\ r.entry = e /\ r.answer = "sent"
    BY <1>2, <1>t DEF HandleBlur, Send, FormsTypeOK, Request
  <2>q. /\ DOMAIN queue'[t] = 1 .. n
        /\ \A i \in DOMAIN q : queue'[t][i] = q[i]
        /\ queue'[t][n] = r
    BY <1>t, <2>1, Appended
  <2>i. (\A i \in DOMAIN queue'[t] : i \in DOMAIN q \/ i = n)
        /\ (\A i \in DOMAIN q : i \in DOMAIN queue'[t]) /\ n \in DOMAIN queue'[t]
    BY <1>t, <2>q
  <2>s. \A i \in DOMAIN queue'[t] : queue'[t][i].op = "submit" => i \in DOMAIN q /\ queue'[t][i] = q[i]
    BY <2>1, <2>q, <2>i
  <2>2. OneSubmission(t)'
    BY <2>s, <2>1, <2>q, <2>i, <1>x DEF FormOf, OneSubmission, IsSubmit
  <2>3. OnlyTyped(t)' /\ KeyIsTaken(t)'
    BY <1>x, <1>y DEF FormOf, OnlyTyped, KeyIsTaken
  <2>4. WithinAllowance(t)'
    <3>1. Created(t)' <=> Created(t)
      BY <2>s, <2>q, <2>i DEF Created, IsSubmit
    <3>2. Submitting(t)' <=> Submitting(t)
      BY <2>s, <2>q, <2>i DEF Submitting
    <3> QED
      BY <3>1, <3>2, <2>s, <1>x, <1>y DEF FormOf, WithinAllowance, Allowance, FormStays, IsSubmit
  <2>5. BadgeFollows(t)'
    <3>1. ASSUME NEW j \in DOMAIN queue'[t] PROVE j <= n
      BY <2>q, <1>t
    <3>2. LastLookup(t, e)'
      BY <3>1, <2>1, <2>q, <2>i, <1>y DEF LastLookup, IsLookup
    <3> QED
      BY <3>2, <1>x, <1>y DEF BadgeFollows
  <2> QED
    BY <2>2, <2>3, <2>4, <2>5 DEF FormOf
<1> QED
  BY <1>1, <1>2

-----------------------------------------------------------------------------
(* Steps of the server *)

\* The first request is answered with a; c says whether a row is created.
LEMMA Serving ==
  ASSUME NEW t \in Tabs, FormsTypeOK, FormsTypeOK', FormOf(t),
         queue[t] # <<>>, NEW h, h = Head(queue[t]), h.answer = "sent",
         NEW a \in {"ok", "refused"}, NEW c \in BOOLEAN,
         queue'[t] = [queue[t] EXCEPT ![1].answer = a],
         rows'[t] = IF c THEN [rows[t] EXCEPT ![h.entry] = @ + 1] ELSE rows[t],
         c => h.op = "submit" /\ a = "ok",
         taken \subseteq taken',
         c /\ tab[t].form \in Unique => rows[t][h.entry] = 0,
         c /\ tab[t].form \in ForAccounts => <<"email", h.entry>> \in taken',
         c /\ tab[t].form = "members" => <<"member", h.entry>> \in taken',
         c /\ tab[t].form = "approval" => \E k \in taken' : k[1] = "decision",
         tab' = tab, filled' = filled, pressed' = pressed, lost' = lost, again' = again
  PROVE  FormOf(t)'
<1> DEFINE q == queue[t]
           d == queue'[t]
           e == h.entry
<1>t. /\ q \in Seq(Request) /\ DOMAIN q = 1 .. Len(q) /\ Len(q) \in Nat
      /\ rows[t] \in [Entries -> Nat] /\ Allowance(t) \in Nat
  BY FormParts
<1>h. 1 \in DOMAIN q /\ h = q[1] /\ h \in Request /\ e \in Entries
  BY <1>t, First, RequestHasParts
<1>d. /\ DOMAIN d = DOMAIN q
      /\ d[1].op = h.op /\ d[1].entry = e /\ d[1].answer = a
      /\ \A i \in DOMAIN q : i # 1 => d[i] = q[i]
  BY <1>t, <1>h, FirstAnswered
<1>o. \A i \in DOMAIN q : d[i].op = q[i].op /\ d[i].entry = q[i].entry
  BY <1>d, <1>h
<1>s. \A i \in DOMAIN q : q[i].answer = "sent"
  BY <1>h, <1>t DEF FormOf, OneSubmission
<1>r. \A x \in Entries : rows'[t][x] = IF c /\ x = e THEN rows[t][x] + 1 ELSE rows[t][x]
  BY <1>t, <1>h
<1>1. OneSubmission(t)'
  <2>1. \A i, j \in DOMAIN d : d[i].op = "submit" /\ d[j].op = "submit" => i = j
    BY <1>d, <1>o DEF FormOf, OneSubmission, IsSubmit
  <2>2. \A i \in DOMAIN d : /\ d[i].op = "submit" => d[i].entry \in filled[t]
                            /\ i > 1 => d[i].answer = "sent"
    BY <1>d, <1>o DEF FormOf, OneSubmission, IsSubmit
  <2> QED
    BY <2>1, <2>2 DEF OneSubmission, IsSubmit
<1>2. OnlyTyped(t)'
  <2>1. c => e \in filled[t]
    BY <1>h DEF FormOf, OneSubmission, IsSubmit
  <2> QED
    BY <2>1, <1>r DEF FormOf, OnlyTyped
<1>3. WithinAllowance(t)'
  <2> SUFFICES ASSUME tab[t].form \notin Unique
               PROVE  WithinAllowance(t)'
    BY DEF WithinAllowance
  <2>0. Allowance(t)' = Allowance(t)
    BY DEF Allowance
  <2>1. \A x \in Entries : rows'[t][x] <= 1 + Allowance(t)
    <3>1. c => rows[t][e] <= Allowance(t)
      BY <1>h DEF FormOf, WithinAllowance, IsSubmit
    <3>2. \A x \in Entries : rows[t][x] <= 1 + Allowance(t)
      BY DEF FormOf, WithinAllowance
    <3> QED
      BY <3>1, <3>2, <1>r, <1>t, <1>h
  <2>2. ASSUME NEW x \in Entries, NEW i \in DOMAIN d,
               d[i].op = "submit", d[i].entry = x, d[i].answer = "sent"
        PROVE  rows'[t][x] <= Allowance(t)
    <3>1. i # 1
      BY <2>2, <1>d
    <3>2. ~c
      BY <2>2, <3>1, <1>d, <1>o, <1>h DEF FormOf, OneSubmission, IsSubmit
    <3> QED
      BY <2>2, <3>1, <3>2, <1>d, <1>r DEF FormOf, WithinAllowance, IsSubmit
  <2>3. ASSUME NEW x \in Entries, FormStays(t), tab[t].entry = x, ~Created(t)'
        PROVE  rows'[t][x] <= Allowance(t)
    <3>1. ~c
      BY <2>3, <1>d, <1>h DEF Created, IsSubmit
    <3>2. ~Created(t)
      BY <1>s DEF Created
    <3> QED
      BY <2>3, <3>1, <3>2, <1>r DEF FormOf, WithinAllowance
  <2>4. Submitting(t)' => Submitting(t)
    BY <1>d, <1>o DEF Submitting
  <2> QED
    BY <2>0, <2>1, <2>2, <2>3, <2>4 DEF FormOf, WithinAllowance, IsSubmit, FormStays
<1>4. KeyIsTaken(t)'
  <2> SUFFICES ASSUME NEW x \in Entries
               PROVE  /\ tab[t].form \in ForAccounts /\ rows'[t][x] > 0 => <<"email", x>> \in taken'
                      /\ tab[t].form = "members" /\ rows'[t][x] > 0 => <<"member", x>> \in taken'
                      /\ tab[t].form = "approval" /\ rows'[t][x] > 0 =>
                           \E k \in taken' : k[1] = "decision"
                      /\ tab[t].form \in Unique => rows'[t][x] <= 1
    BY DEF KeyIsTaken
  <2>1. CASE c /\ x = e
    BY <2>1, <1>r, <1>t, <1>h
  <2>2. CASE ~(c /\ x = e)
    BY <2>2, <1>r DEF FormOf, KeyIsTaken
  <2> QED
    BY <2>1, <2>2
<1>5. BadgeFollows(t)'
  <2>1. Looking(t)' <=> Looking(t)
    BY <1>d, <1>o DEF Looking
  <2>2. ASSUME NEW x, LastLookup(t, x) PROVE LastLookup(t, x)'
    BY <2>2, <1>d, <1>o DEF LastLookup, IsLookup
  <2> QED
    BY <2>1, <2>2 DEF FormOf, BadgeFollows
<1> QED
  BY <1>1, <1>2, <1>3, <1>4, <1>5 DEF FormOf

-----------------------------------------------------------------------------
(* Steps of the tab: it hears *)

\* The first request is done: its answer is lost, or is that of a lookup, or that
\* of a submission.
LEMMA HearingBack ==
  ASSUME NEW t \in Tabs, FormsTypeOK, FormsTypeOK', FormOf(t),
         queue[t] # <<>>, NEW h, h = Head(queue[t]),
         queue'[t] = Tail(queue[t]),
         rows' = rows, taken' = taken, filled' = filled, pressed' = pressed, again' = again,
         tab'[t].form = tab[t].form, tab'[t].blurred = tab[t].blurred,
         \/ /\ lost'[t] = lost[t] + 1
            /\ tab'[t].entry = tab[t].entry /\ tab'[t].badge = tab[t].badge
            /\ tab'[t].at \in {tab[t].at, "broken"}
            /\ h.op = "lookup" => tab'[t].at = "broken"
         \/ /\ lost'[t] = lost[t] /\ h.op = "lookup"
            /\ tab'[t].entry = tab[t].entry /\ tab'[t].at = tab[t].at
            /\ tab'[t].badge = [kind |-> "answer", of |-> h.entry]
         \/ /\ lost'[t] = lost[t] /\ h.op = "submit" /\ tab'[t].badge = tab[t].badge
            /\ IF h.answer = "ok" /\ tab[t].at = "form"
                 THEN /\ tab'[t].at = "leaving"
                      /\ tab'[t].entry = IF tab[t].form = "category" THEN None ELSE tab[t].entry
                 ELSE tab'[t].at = tab[t].at /\ tab'[t].entry = tab[t].entry
  PROVE  FormOf(t)'
<1> DEFINE q == queue[t]
           d == queue'[t]
<1>t. /\ q \in Seq(Request) /\ DOMAIN q = 1 .. Len(q) /\ Len(q) \in Nat
      /\ rows[t] \in [Entries -> Nat] /\ Allowance(t) \in Nat /\ lost[t] \in Nat /\ again[t] \in Nat
  BY FormParts
<1>h. 1 \in DOMAIN q /\ h = q[1] /\ h \in Request
  BY <1>t, First
<1>q. /\ \A i \in DOMAIN d : i \in Nat /\ i >= 1 /\ i + 1 \in DOMAIN q /\ d[i] = q[i + 1]
      /\ \A i \in DOMAIN q : i > 1 => i - 1 \in DOMAIN d /\ q[i] = d[i - 1]
  BY <1>t, Dropped
<1>s. \A i \in DOMAIN q : i > 1 => q[i].answer = "sent"
  BY DEF FormOf, OneSubmission
<1>1. OneSubmission(t)'
  <2>1. ASSUME NEW i \in DOMAIN d, NEW j \in DOMAIN d, d[i].op = "submit", d[j].op = "submit"
        PROVE  i = j
    <3>1. i \in Nat /\ j \in Nat /\ i + 1 \in DOMAIN q /\ j + 1 \in DOMAIN q
          /\ q[i + 1].op = "submit" /\ q[j + 1].op = "submit"
      BY <2>1, <1>q
    <3>2. i + 1 = j + 1
      BY <3>1 DEF FormOf, OneSubmission, IsSubmit
    <3> QED
      BY <3>1, <3>2
  <2>2. \A i \in DOMAIN d : /\ d[i].op = "submit" => d[i].entry \in filled[t]
                            /\ i > 1 => d[i].answer = "sent"
    <3> SUFFICES ASSUME NEW i \in DOMAIN d
                 PROVE  /\ d[i].op = "submit" => d[i].entry \in filled[t]
                        /\ i > 1 => d[i].answer = "sent"
      OBVIOUS
    <3>1. i + 1 \in DOMAIN q /\ i + 1 > 1 /\ d[i] = q[i + 1]
      BY <1>q
    <3> QED
      BY <3>1, <1>s DEF FormOf, OneSubmission, IsSubmit
  <2> QED
    BY <2>1, <2>2 DEF OneSubmission, IsSubmit
<1>e. tab'[t].entry = tab[t].entry \/ (tab'[t].entry = None /\ tab[t].form = "category")
  OBVIOUS
<1>2. OnlyTyped(t)'
  BY <1>e DEF FormOf, OnlyTyped
<1>a. ~Created(t)'
  <2>1. \A i \in DOMAIN d : d[i].answer = "sent"
    BY <1>q, <1>s
  <2> QED
    BY <2>1 DEF Created
<1>u. Submitting(t)' => Submitting(t) /\ h.op # "submit"
  <2> SUFFICES ASSUME NEW i \in DOMAIN d, d[i].op = "submit"
               PROVE  Submitting(t) /\ h.op # "submit"
    BY DEF Submitting
  <2>1. i + 1 \in DOMAIN q /\ i + 1 > 1 /\ q[i + 1].op = "submit"
    BY <1>q
  <2> QED
    BY <2>1, <1>h DEF FormOf, OneSubmission, IsSubmit, Submitting
<1>3. WithinAllowance(t)'
  <2> SUFFICES ASSUME tab[t].form \notin Unique
               PROVE  WithinAllowance(t)'
    BY DEF WithinAllowance
  <2>n. \A x \in Entries : rows[t][x] \in Nat /\ rows[t][x] <= 1 + Allowance(t)
    BY <1>t DEF FormOf, WithinAllowance
  <2>s. ASSUME NEW x \in Entries, NEW i \in DOMAIN d,
               d[i].op = "submit", d[i].entry = x, d[i].answer = "sent"
        PROVE  rows[t][x] <= Allowance(t)
    <3>1. i + 1 \in DOMAIN q /\ d[i] = q[i + 1]
      BY <1>q
    <3> QED
      BY <2>s, <3>1 DEF FormOf, WithinAllowance, IsSubmit
  <2>1. CASE lost'[t] = lost[t] + 1
    <3>1. Allowance(t)' = Allowance(t) + 1
      <4>1. PICK x \in Nat : x = IF tab[t].form = "signup" THEN again[t] ELSE 0
        BY <1>t
      <4>2. Allowance(t) = lost[t] + x /\ Allowance(t)' = lost'[t] + x
        BY <4>1 DEF Allowance
      <4> QED
        BY <2>1, <4>2, <1>t
    <3>2. \A x \in Entries : rows[t][x] <= Allowance(t)' /\ rows[t][x] <= 1 + Allowance(t)'
      BY <2>n, <3>1, <1>t
    <3>3. tab'[t].at = "leaving" => tab[t].at = "leaving"
      BY <2>1, <1>t
    <3> QED
      BY <3>2, <3>3, <1>u DEF FormOf, WithinAllowance
  <2>2. CASE lost'[t] = lost[t]
    <3>1. Allowance(t)' = Allowance(t)
      BY <2>2 DEF Allowance
    <3>c. ASSUME NEW x \in Entries, FormStays(t)', tab'[t].entry = x
          PROVE  rows[t][x] <= Allowance(t)
      <4>n. x # None
        BY FormsAssumption
      <4>1. CASE h.op = "lookup"
        <5>1. ~Created(t)
          BY <4>1, <1>h, <1>s, <1>t DEF Created, IsSubmit
        <5>2. FormStays(t) /\ tab[t].entry = x
          BY <3>c, <4>1, <2>2, <1>t DEF FormStays
        <5> QED
          BY <5>1, <5>2 DEF FormOf, WithinAllowance
      <4>2. CASE h.op = "submit" /\ h.answer = "ok" /\ tab[t].at = "form"
        BY <3>c, <4>n, <4>2, <2>2, <1>t DEF FormStays
      <4>3. CASE h.op = "submit" /\ ~(h.answer = "ok" /\ tab[t].at = "form")
        <5>1. FormStays(t) /\ tab[t].entry = x /\ tab'[t].at = tab[t].at
          BY <3>c, <4>3, <2>2, <1>t DEF FormStays
        <5>2. CASE tab[t].at = "form"
          <6>1. ~Created(t)
            BY <4>3, <5>2, <1>h, <1>s, <1>t DEF Created, IsSubmit
          <6> QED
            BY <5>1, <6>1 DEF FormOf, WithinAllowance
        <5>3. CASE tab[t].form = "category" /\ tab[t].at = "leaving"
          BY <4>3, <5>3, <1>h DEF FormOf, WithinAllowance, Submitting
        <5> QED
          BY <5>1, <5>2, <5>3 DEF FormStays
      <4> QED
        BY <4>1, <4>2, <4>3, <1>h, RequestHasParts
    <3>d. tab[t].form = "category" /\ tab'[t].at = "leaving" => ~Submitting(t)'
      BY <1>u, <2>2, <1>t DEF FormOf, WithinAllowance
    <3> QED
      BY <2>n, <2>s, <3>1, <3>c, <3>d DEF WithinAllowance, IsSubmit
  <2> QED
    BY <2>1, <2>2
<1>4. KeyIsTaken(t)'
  BY DEF FormOf, KeyIsTaken
<1>5. BadgeFollows(t)'
  <2>l. Looking(t)' => Looking(t)
    BY <1>q DEF Looking
  <2>h. h.op = "lookup" => Looking(t)
    BY <1>h DEF Looking
  <2>1. tab[t].form \notin WithCnpj \/ tab'[t].entry = None =>
          tab'[t].badge = Idle /\ ~Looking(t)'
    BY <2>l, <2>h, <1>e DEF FormOf, BadgeFollows, WithCnpj
  <2>2. ASSUME tab[t].form \in WithCnpj, tab'[t].at = "form", tab[t].blurred,
               tab'[t].entry # None, tab'[t].entry \notin Unchecked
        PROVE  \/ LastLookup(t, tab[t].entry)'
               \/ ~Looking(t)' /\ tab'[t].badge = [kind |-> "answer", of |-> tab[t].entry]
    <3>1. tab'[t].entry = tab[t].entry /\ tab[t].at = "form"
      BY <2>2, <1>e DEF WithCnpj
    <3>2. CASE ~Looking(t) /\ tab[t].badge = [kind |-> "answer", of |-> tab[t].entry]
      BY <3>2, <2>l, <2>h
    <3>3. CASE LastLookup(t, tab[t].entry)
      <4>1. PICK i \in DOMAIN q : /\ q[i].op = "lookup" /\ q[i].entry = tab[t].entry
                                  /\ \A j \in DOMAIN q : q[j].op = "lookup" => j <= i
        BY <3>3 DEF LastLookup, IsLookup
      <4>2. CASE i = 1
        <5>1. ~Looking(t)'
          <6> SUFFICES ASSUME NEW j \in DOMAIN d, d[j].op = "lookup" PROVE FALSE
            BY DEF Looking
          <6>1. j \in Nat /\ j >= 1 /\ j + 1 \in DOMAIN q /\ q[j + 1].op = "lookup"
            BY <1>q
          <6>2. j + 1 <= 1
            BY <6>1, <4>1, <4>2
          <6> QED
            BY <6>1, <6>2
        <5>2. tab'[t].badge = [kind |-> "answer", of |-> tab[t].entry]
          BY <2>2, <4>1, <4>2, <1>h
        <5> QED
          BY <5>1, <5>2
      <4>3. CASE i # 1
        <5>1. i \in Nat /\ i > 1 /\ i - 1 \in DOMAIN d /\ d[i - 1] = q[i]
          BY <4>3, <1>q, <1>t
        <5>2. ASSUME NEW j \in DOMAIN d, d[j].op = "lookup" PROVE j <= i - 1
          <6>1. j \in Nat /\ j + 1 \in DOMAIN q /\ q[j + 1].op = "lookup"
            BY <5>2, <1>q
          <6>2. j + 1 <= i
            BY <6>1, <4>1
          <6> QED
            BY <6>1, <6>2, <5>1
        <5>3. PICK k : k = i - 1
          OBVIOUS
        <5>4. /\ k \in DOMAIN d /\ d[k].op = "lookup" /\ d[k].entry = tab'[t].entry
              /\ \A j \in DOMAIN d : d[j].op = "lookup" => j <= k
          BY <5>1, <5>2, <5>3, <4>1, <3>1
        <5> QED
          BY <5>4, <3>1 DEF LastLookup, IsLookup
      <4> QED
        BY <4>2, <4>3
    <3> QED
      BY <2>2, <3>1, <3>2, <3>3 DEF FormOf, BadgeFollows
  <2> QED
    BY <2>1, <2>2, <1>e DEF BadgeFollows, WithCnpj
<1> QED
  BY <1>1, <1>2, <1>3, <1>4, <1>5 DEF FormOf

LEMMA Landing ==
  ASSUME NEW t \in Tabs, FormsTypeOK, FormsTypeOK', FormOf(t), Land(t)
  PROVE  FormOf(t)'
<1>t. tab[t] \in Tab
  BY FormParts
<1>x. /\ queue' = queue /\ rows' = rows /\ taken' = taken /\ filled' = filled
      /\ pressed' = pressed /\ lost' = lost /\ again' = again /\ tab[t].at = "leaving"
  BY DEF Land, OnlyTab, serverVars, countVars
<1>y. /\ tab'[t].form = tab[t].form
      /\ tab'[t].entry \in {tab[t].entry, None}
      /\ tab[t].form \in WithCnpj =>
           tab'[t].at = "left" /\ tab'[t].entry = tab[t].entry /\ tab'[t].badge = tab[t].badge
      /\ tab[t].form \notin WithCnpj => tab'[t].badge \in {tab[t].badge, Idle}
      /\ tab'[t].at # "leaving"
      /\ FormStays(t)' => \/ tab[t].form = "members"
                          \/ tab[t].form = "category" /\ tab'[t].entry = tab[t].entry
  <2>1. CASE tab[t].form = "category"
    <3>1. tab'[t] = [tab[t] EXCEPT !.at = "form"]
      BY <2>1, <1>t DEF Land, FormsTypeOK
    <3> QED
      BY <2>1, <3>1, <1>t DEF Tab, WithCnpj
  <2>2. CASE tab[t].form = "members"
    <3>1. tab'[t] = Page("members")
      BY <2>2, <1>t DEF Land, FormsTypeOK
    <3> QED
      BY <2>2, <3>1 DEF Page, WithCnpj
  <2>3. CASE tab[t].form \notin {"category", "members"}
    <3>1. tab'[t] = [tab[t] EXCEPT !.at = "left"]
      BY <2>3, <1>t DEF Land, FormsTypeOK
    <3> QED
      BY <2>3, <3>1, <1>t DEF Tab, FormStays
  <2> QED
    BY <2>1, <2>2, <2>3
<1>1. OneSubmission(t)'
  BY <1>x DEF FormOf, OneSubmission, IsSubmit
<1>2. OnlyTyped(t)' /\ KeyIsTaken(t)'
  BY <1>x, <1>y DEF FormOf, OnlyTyped, KeyIsTaken
<1>3. WithinAllowance(t)'
  <2>1. Allowance(t)' = Allowance(t)
    BY <1>x, <1>y DEF Allowance
  <2>2. Created(t)' <=> Created(t)
    BY <1>x DEF Created, IsSubmit
  <2>3. "members" \in Unique
    BY DEF Unique
  <2>4. FormStays(t)' /\ tab[t].form \notin Unique => FormStays(t) /\ tab'[t].entry = tab[t].entry
    BY <2>3, <1>x, <1>y DEF FormStays
  <2> QED
    BY <2>1, <2>2, <2>4, <1>x, <1>y DEF FormOf, WithinAllowance, IsSubmit
<1>5. BadgeFollows(t)'
  <2>1. Looking(t)' <=> Looking(t)
    BY <1>x DEF Looking
  <2>2. tab[t].form \notin WithCnpj \/ tab'[t].entry = None =>
          tab'[t].badge = Idle /\ ~Looking(t)
    <3>1. tab[t].form \notin WithCnpj \/ tab[t].entry = None => tab[t].badge = Idle /\ ~Looking(t)
      BY DEF FormOf, BadgeFollows
    <3>2. CASE tab[t].form \notin WithCnpj
      BY <3>1, <3>2, <1>y
    <3>3. CASE tab[t].form \in WithCnpj /\ tab'[t].entry = None
      BY <3>1, <3>3, <1>y
    <3> QED
      BY <3>2, <3>3
  <2> QED
    BY <2>1, <2>2, <1>y DEF BadgeFollows
<1> QED
  BY <1>1, <1>2, <1>3, <1>5 DEF FormOf

-----------------------------------------------------------------------------
(* The inductive invariant *)

LEMMA FormsInitHolds == FormsInit => FormsInv
<1> SUFFICES ASSUME FormsInit PROVE FormsInv
  OBVIOUS
<1>0. 0 \in 0 .. MaxPresses /\ 0 \in 0 .. MaxLookups /\ 0 \in 0 .. MaxLost
  BY FormsAssumption
<1>1. PICK f \in Openings : tab = [t \in Tabs |-> Page(f[t])]
  BY DEF FormsInit
<1>2. f \in [Tabs -> Transitions \cup Handlers \cup {None}]
  BY FormsAssumption
<1>3. ASSUME NEW t \in Tabs
      PROVE  /\ Page(f[t]) \in Tab /\ tab[t] = Page(f[t])
             /\ tab[t].entry = None /\ tab[t].badge = Idle
             /\ queue[t] = <<>> /\ DOMAIN queue[t] = {}
             /\ rows[t] = [e \in Entries |-> 0] /\ lost[t] = 0 /\ again[t] = 0 /\ pressed = 0
             /\ \A e \in Entries : rows[t][e] = 0
  <2>1. Page(f[t]) \in Tab
    BY <1>2 DEF Page, Tab, Idle, Badge
  <2>2. tab[t] = Page(f[t])
    BY <1>1
  <2>3. queue[t] = <<>> /\ DOMAIN queue[t] = {}
    BY DEF FormsInit
  <2> QED
    BY <2>1, <2>2, <2>3 DEF FormsInit, Page
<1>4. FormsTypeOK
  <2>1. tab \in [Tabs -> Tab]
    BY <1>1, <1>3
  <2>2. queue \in [Tabs -> Seq(Request)] /\ rows \in [Tabs -> [Entries -> Nat]]
    BY DEF FormsInit
  <2> QED
    BY <1>0, <2>1, <2>2 DEF FormsInit, FormsTypeOK
<1>5. ASSUME NEW t \in Tabs PROVE FormOf(t)
  <2>1. Allowance(t) = 0
    BY <1>3 DEF Allowance
  <2> QED
    BY <1>3, <2>1, FormsAssumption
       DEF FormOf, OneSubmission, OnlyTyped, WithinAllowance, KeyIsTaken, BadgeFollows, Looking,
           Submitting
<1>6. AccountsDiffer
  BY <1>3 DEF AccountsDiffer
<1> QED
  BY <1>4, <1>5, <1>6 DEF FormsInv

\* What a step of t leaves alone.
OtherTabsSame(t) ==
  \A u \in Tabs \ {t} :
    /\ tab'[u] = tab[u] /\ queue'[u] = queue[u] /\ rows'[u] = rows[u]
    /\ filled'[u] = filled[u] /\ lost'[u] = lost[u] /\ again'[u] = again[u]

LEMMA OneTab ==
  ASSUME FormsInv, FormsTypeOK', NEW t \in Tabs, FormOf(t)', OtherTabsSame(t),
         tab'[t].form = tab[t].form, taken \subseteq taken', pressed <= pressed',
         rows' = rows \/ AccountsDiffer'
  PROVE  FormsInv'
<1>1. ASSUME NEW u \in Tabs, u # t PROVE FormOf(u)'
  BY <1>1, Elsewhere DEF FormsInv, OtherTabsSame
<1>2. AccountsDiffer'
  <2>1. \A u \in Tabs : tab'[u].form = tab[u].form
    BY DEF OtherTabsSame
  <2> QED
    BY <2>1 DEF FormsInv, AccountsDiffer
<1> QED
  BY <1>1, <1>2 DEF FormsInv

LEMMA PressStep ==
  ASSUME FormsInv, NEW t \in Tabs,
         \/ EventForm(t) \/ LotCategoryForm(t) \/ VendorForm(t) \/ VendorApprovalPanel(t)
         \/ PublishEventButton(t) \/ SignupFornecedorForm(t) \/ CreateUserForm(t)
         \/ CreateOrganizadoraForm(t) \/ UserMembershipsManager(t)
  PROVE  FormsInv'
<1>t. /\ FormsTypeOK /\ FormOf(t) /\ tab[t] \in Tab /\ queue[t] \in Seq(Request)
      /\ pressed \in Nat /\ again[t] \in Nat /\ again[t] <= pressed
  BY FormParts DEF FormsInv, FormOf, OnlyTyped
<1>1. PICK disabled \in BOOLEAN :
        /\ Press(t, disabled)
        /\ ~disabled => ~Submitting(t) /\ (tab[t].form \in Transitions => tab[t].at # "leaving")
        /\ tab[t].form \in Transitions \cup Handlers /\ tab[t].at \in {"form", "leaving"}
  <2>1. CASE \/ EventForm(t) \/ LotCategoryForm(t) \/ VendorForm(t) \/ VendorApprovalPanel(t)
             \/ PublishEventButton(t)
    BY <2>1 DEF EventForm, LotCategoryForm, VendorForm, VendorApprovalPanel, PublishEventButton,
                IsPending, OnPage, Transitions, Handlers, Submitting
  <2>2. CASE \/ SignupFornecedorForm(t) \/ CreateUserForm(t) \/ CreateOrganizadoraForm(t)
             \/ UserMembershipsManager(t)
    BY <2>2 DEF SignupFornecedorForm, CreateUserForm, CreateOrganizadoraForm,
                UserMembershipsManager, OnPage, Transitions, Handlers, Submitting
  <2> QED
    BY <2>1, <2>2
<1>2. /\ ~Submitting(t) /\ tab[t].entry # None /\ tab[t].entry \in Entries
      /\ pressed < MaxPresses /\ pressed' = pressed + 1
      /\ again' = IF tab[t].at = "leaving" THEN Plus1(again, t) ELSE again
      /\ Send(t, "submit", tab[t].entry)
      /\ UNCHANGED <<tab, serverVars, filled, lookups, lost>>
      /\ (tab[t].form \in Transitions => tab[t].at # "leaving")
  BY <1>1, <1>t DEF Press, Tab
<1>3. PICK r : r = [op |-> "submit", entry |-> tab[t].entry, answer |-> "sent"]
  OBVIOUS
<1>4. r \in Request /\ r.op = "submit" /\ r.entry = tab[t].entry /\ r.answer = "sent"
  BY <1>2, <1>3 DEF Request
<1>5. Append(queue[t], r) \in Seq(Request)
  BY <1>4, <1>t, Appended
<1>6. /\ queue' \in [Tabs -> Seq(Request)] /\ queue'[t] = Append(queue[t], r)
      /\ \A u \in Tabs \ {t} : queue'[u] = queue[u]
  BY <1>2, <1>3, <1>5, <1>t DEF Send, FormsTypeOK
<1>7. /\ again' \in [Tabs -> 0 .. MaxPresses] /\ \A u \in Tabs \ {t} : again'[u] = again[u]
      /\ again'[t] = IF tab[t].at = "leaving" THEN again[t] + 1 ELSE again[t]
  <2>1. again[t] + 1 \in 0 .. MaxPresses
    BY <1>2, <1>t, FormsAssumption
  <2> QED
    BY <2>1, <1>2, <1>t DEF Plus1, FormsTypeOK
<1>8. pressed' \in 0 .. MaxPresses /\ pressed <= pressed'
  BY <1>2, <1>t, FormsAssumption
<1>9. FormsTypeOK'
  BY <1>2, <1>6, <1>7, <1>8, <1>t DEF FormsTypeOK, serverVars
<1>a. FormOf(t)'
  BY <1>1, <1>2, <1>4, <1>6, <1>7, <1>9, <1>t, Pressing DEF serverVars
<1> QED
  BY <1>2, <1>6, <1>7, <1>8, <1>9, <1>a, OneTab DEF OtherTabsSame, serverVars

LEMMA FieldStep ==
  ASSUME FormsInv, NEW t \in Tabs, HandleBlur(t) \/ \E e \in Entries : Type(t, e)
  PROVE  FormsInv'
<1>t. /\ FormsTypeOK /\ FormOf(t) /\ tab[t] \in Tab /\ queue[t] \in Seq(Request) /\ pressed \in Nat
      /\ lookups \in 0 .. MaxLookups /\ MaxLookups \in Nat
  BY FormParts, FormsAssumption DEF FormsInv, FormsTypeOK
<1>1. CASE HandleBlur(t)
  <2>0. /\ UNCHANGED <<serverVars, filled, pressed, lost, again>>
        /\ tab[t].entry \in Entries
    BY <1>1, <1>t DEF HandleBlur, Tab
  <2>1. PICK k \in {"invalid", "pending"} :
          tab' = [tab EXCEPT ![t].blurred = TRUE, ![t].badge.kind = k, ![t].badge.of = None]
    BY <1>1 DEF HandleBlur
  <2>2. [tab[t] EXCEPT !.blurred = TRUE, !.badge.kind = k, !.badge.of = None] \in Tab
    <3>1. tab[t].badge \in Badge
      BY <1>t DEF Tab
    <3>2. [tab[t].badge EXCEPT !.kind = k, !.of = None] \in Badge
      BY <3>1 DEF Badge
    <3> QED
      BY <3>2, <1>t DEF Tab
  <2>3. tab' = [tab EXCEPT ![t] = [tab[t] EXCEPT !.blurred = TRUE, !.badge.kind = k, !.badge.of = None]]
    BY <2>1, <1>t DEF FormsTypeOK
  <2>4. /\ tab' \in [Tabs -> Tab] /\ \A u \in Tabs \ {t} : tab'[u] = tab[u]
        /\ tab'[t].form = tab[t].form
    BY <2>2, <2>3, <1>t DEF FormsTypeOK, Tab
  <2>5. /\ queue' \in [Tabs -> Seq(Request)] /\ \A u \in Tabs \ {t} : queue'[u] = queue[u]
        /\ lookups' \in 0 .. MaxLookups
    <3>1. CASE tab[t].entry \in Unchecked
      BY <3>1, <1>1, <1>t DEF HandleBlur, FormsTypeOK
    <3>2. CASE tab[t].entry \notin Unchecked
      <4>1. PICK r \in Request : queue' = [queue EXCEPT ![t] = Append(@, r)]
        BY <3>2, <2>0, <1>1 DEF HandleBlur, Send, Request
      <4>2. Append(queue[t], r) \in Seq(Request)
        BY <1>t, Appended
      <4>3. lookups < MaxLookups /\ lookups' = lookups + 1
        BY <3>2, <1>1 DEF HandleBlur
      <4>4. lookups' \in 0 .. MaxLookups
        BY <4>3, <1>t
      <4> QED
        BY <4>1, <4>2, <4>4, <1>t DEF FormsTypeOK
    <3> QED
      BY <3>1, <3>2
  <2>6. FormsTypeOK'
    BY <2>0, <2>4, <2>5, <1>t DEF FormsTypeOK, serverVars
  <2>7. FormOf(t)'
    BY <2>6, <1>1, <1>t, Blurring
  <2> QED
    BY <2>0, <2>4, <2>5, <2>6, <2>7, <1>t, OneTab DEF OtherTabsSame, serverVars
<1>2. ASSUME NEW e \in Entries, Type(t, e)
      PROVE  FormsInv'
  <2>0. /\ UNCHANGED <<queue, serverVars, pressed, lookups, lost, again>>
        /\ filled' = [filled EXCEPT ![t] = @ \cup {e}]
        /\ tab' = [tab EXCEPT ![t] = [tab[t] EXCEPT !.entry = e, !.badge = Idle, !.blurred = FALSE]]
    BY <1>2, <1>t DEF Type, FormsTypeOK
  <2>1. [tab[t] EXCEPT !.entry = e, !.badge = Idle, !.blurred = FALSE] \in Tab
    BY <1>t DEF Tab, Idle, Badge
  <2>2. /\ tab' \in [Tabs -> Tab] /\ \A u \in Tabs \ {t} : tab'[u] = tab[u]
        /\ tab'[t].form = tab[t].form
    BY <2>0, <2>1, <1>t DEF FormsTypeOK, Tab
  <2>3. filled' \in [Tabs -> SUBSET Entries] /\ \A u \in Tabs \ {t} : filled'[u] = filled[u]
    BY <2>0, <1>t DEF FormsTypeOK
  <2>4. FormsTypeOK'
    BY <2>0, <2>2, <2>3, <1>t DEF FormsTypeOK, serverVars
  <2>5. FormOf(t)'
    BY <2>4, <1>2, <1>t, Typing
  <2> QED
    BY <2>0, <2>2, <2>3, <2>4, <2>5, <1>t, OneTab DEF OtherTabsSame, serverVars
<1> QED
  BY <1>1, <1>2

\* What each handler does: it answers, and may create a row if its key is free.
LEMMA Served ==
  ASSUME FormsInv, NEW t \in Tabs, Serve(t)
  PROVE  LET h == Head(queue[t]) IN
         /\ queue[t] # <<>> /\ h.answer = "sent"
         /\ OnlyServer
         /\ taken \subseteq taken' /\ taken' \subseteq Key \X Entries
         /\ \E a \in {"ok", "refused"}, c \in BOOLEAN :
              /\ Answer(t, a)
              /\ rows' = IF c THEN [rows EXCEPT ![t][h.entry] = @ + 1] ELSE rows
              /\ c => h.op = "submit" /\ a = "ok"
              /\ c /\ tab[t].form \in ForAccounts =>
                   <<"email", h.entry>> \notin taken /\ <<"email", h.entry>> \in taken'
              /\ c /\ tab[t].form = "members" =>
                   <<"member", h.entry>> \notin taken /\ <<"member", h.entry>> \in taken'
              /\ c /\ tab[t].form = "approval" =>
                   /\ ~\E k \in taken : k[1] = "decision"
                   /\ \E k \in taken' : k[1] = "decision"
<1> DEFINE h == Head(queue[t])
<1>t. taken \subseteq Key \X Entries
  BY DEF FormsInv, FormsTypeOK
<1>h. queue[t] # <<>> => h.entry \in Entries
  BY FormParts, First, RequestHasParts DEF FormsInv
<1>k. \A e \in Entries : /\ <<"email", e>> \in Key \X Entries /\ <<"slug", e>> \in Key \X Entries
                         /\ <<"member", e>> \in Key \X Entries
                         /\ <<"decision", e>> \in Key \X Entries /\ <<"decision", e>>[1] = "decision"
  BY DEF Key
<1>1. CASE LookupCNPJ(t) \/ FailSubmit(t)
  BY <1>1, <1>t DEF LookupCNPJ, FailSubmit, Refuse, Asked, serverVars
<1>2. CASE CreateEvent(t) \/ CreateLotCategory(t) \/ AddVendor(t) \/ PublishEvent(t)
  <2>1. /\ tab[t].form \in {"event", "category", "vendor", "publish"} /\ Asked(t, "submit")
        /\ Create(t, h.entry) /\ OnlyServer /\ taken' = taken
    BY <1>2 DEF CreateEvent, CreateLotCategory, AddVendor, PublishEvent, SubmitOf
  <2> QED
    BY <2>1, <1>t DEF Create, Asked, ForAccounts
<1>3. CASE SignupFornecedor(t)
  <2>1. /\ tab[t].form = "signup" /\ Asked(t, "submit") /\ OnlyServer
        /\ taken' = taken \cup {<<"email", h.entry>>}
        /\ Create(t, h.entry) \/ Refuse(t)
    BY <1>3 DEF SignupFornecedor, SubmitOf
  <2>2. taken' \subseteq Key \X Entries
    BY <2>1, <1>h, <1>k, <1>t DEF Asked
  <2> QED
    BY <2>1, <2>2 DEF Create, Refuse, Asked, ForAccounts
<1>4. CASE CreateUser(t)
  <2>1. /\ tab[t].form = "user" /\ Asked(t, "submit") /\ OnlyServer
        /\ \/ Refuse(t) /\ taken' = taken
           \/ /\ <<"email", h.entry>> \notin taken /\ Create(t, h.entry)
              /\ taken' = taken \cup {<<"email", h.entry>>}
    BY <1>4 DEF CreateUser, SubmitOf
  <2>2. taken' \subseteq Key \X Entries
    BY <2>1, <1>h, <1>k, <1>t DEF Asked
  <2> QED
    BY <2>1, <2>2 DEF Create, Refuse, Asked, ForAccounts
<1>5. CASE CreateOrganizadora(t)
  <2>1. /\ tab[t].form = "organizadora" /\ Asked(t, "submit") /\ OnlyServer
        /\ \/ Refuse(t) /\ taken' = taken
           \/ /\ <<"email", h.entry>> \notin taken /\ Create(t, h.entry)
              /\ taken' = taken \cup {<<"email", h.entry>>, <<"slug", h.entry>>}
           \/ Refuse(t) /\ taken' = taken \cup {<<"email", h.entry>>}
    BY <1>5 DEF CreateOrganizadora, SubmitOf
  <2>2. taken' \subseteq Key \X Entries
    BY <2>1, <1>h, <1>k, <1>t DEF Asked
  <2> QED
    BY <2>1, <2>2 DEF Create, Refuse, Asked, ForAccounts
<1>6. CASE ChangeMembership(t)
  <2>1. /\ tab[t].form = "members" /\ Asked(t, "submit") /\ OnlyServer
        /\ Refuse(t) \/ (<<"member", h.entry>> \notin taken /\ Create(t, h.entry))
        /\ taken' = taken \cup {<<"member", h.entry>>}
    BY <1>6 DEF ChangeMembership, SubmitOf
  <2>2. taken' \subseteq Key \X Entries
    BY <2>1, <1>h, <1>k, <1>t DEF Asked
  <2> QED
    BY <2>1, <2>2 DEF Create, Refuse, Asked, ForAccounts
<1>7. CASE DecideVendor(t)
  <2>1. /\ tab[t].form = "approval" /\ Asked(t, "submit") /\ OnlyServer
        /\ \/ Refuse(t) /\ taken' = taken
           \/ /\ ~\E k \in taken : k[1] = "decision"
              /\ Create(t, h.entry) /\ taken' = taken \cup {<<"decision", h.entry>>}
    BY <1>7 DEF DecideVendor, SubmitOf
  <2>2. taken' \subseteq Key \X Entries
    BY <2>1, <1>h, <1>k, <1>t DEF Asked
  <2>3. <<"decision", h.entry>> \in taken' => \E k \in taken' : k[1] = "decision"
    BY <2>1, <1>h, <1>k DEF Asked
  <2> QED
    BY <2>1, <2>2, <2>3 DEF Create, Refuse, Asked, ForAccounts
<1> QED
  BY <1>1, <1>2, <1>3, <1>4, <1>5, <1>6, <1>7 DEF Serve

LEMMA ServeStep ==
  ASSUME FormsInv, NEW t \in Tabs, Serve(t)
  PROVE  FormsInv'
<1>t. /\ FormsTypeOK /\ FormOf(t) /\ AccountsDiffer /\ queue[t] \in Seq(Request)
      /\ rows \in [Tabs -> [Entries -> Nat]]
  BY FormParts DEF FormsInv, FormsTypeOK
<1>0. PICK h : h = Head(queue[t])
  OBVIOUS
<1>1. PICK a \in {"ok", "refused"}, c \in BOOLEAN :
        /\ queue[t] # <<>> /\ h.answer = "sent"
        /\ OnlyServer
        /\ taken \subseteq taken' /\ taken' \subseteq Key \X Entries
        /\ Answer(t, a)
        /\ rows' = IF c THEN [rows EXCEPT ![t][h.entry] = @ + 1] ELSE rows
        /\ c => h.op = "submit" /\ a = "ok"
        /\ c /\ tab[t].form \in ForAccounts =>
             <<"email", h.entry>> \notin taken /\ <<"email", h.entry>> \in taken'
        /\ c /\ tab[t].form = "members" =>
             <<"member", h.entry>> \notin taken /\ <<"member", h.entry>> \in taken'
        /\ c /\ tab[t].form = "approval" =>
             /\ ~\E k \in taken : k[1] = "decision"
             /\ \E k \in taken' : k[1] = "decision"
  BY <1>0, Served
<1>2. h \in Request /\ h.entry \in Entries /\ queue[t][1] = h
  BY <1>0, <1>1, <1>t, First, RequestHasParts
<1>3. /\ queue' \in [Tabs -> Seq(Request)]
      /\ queue'[t] = [queue[t] EXCEPT ![1].answer = a]
      /\ \A u \in Tabs \ {t} : queue'[u] = queue[u]
  <2>1. [queue[t] EXCEPT ![1].answer = a] \in Seq(Request)
    BY <1>1, <1>t, FirstAnswered
  <2>2. queue' = [queue EXCEPT ![t] = [queue[t] EXCEPT ![1].answer = a]]
    BY <1>1, <1>t DEF Answer, FormsTypeOK
  <2> QED
    BY <2>1, <2>2, <1>t DEF FormsTypeOK
<1>4. /\ rows' \in [Tabs -> [Entries -> Nat]]
      /\ rows'[t] = IF c THEN [rows[t] EXCEPT ![h.entry] = @ + 1] ELSE rows[t]
      /\ \A u \in Tabs \ {t} : rows'[u] = rows[u]
  <2>1. rows[t] \in [Entries -> Nat] /\ [rows[t] EXCEPT ![h.entry] = @ + 1] \in [Entries -> Nat]
    BY <1>2, <1>t
  <2>2. rows' = IF c THEN [rows EXCEPT ![t] = [rows[t] EXCEPT ![h.entry] = @ + 1]] ELSE rows
    BY <1>1, <1>t
  <2> QED
    BY <2>1, <2>2, <1>t
<1>5. FormsTypeOK'
  BY <1>1, <1>3, <1>4, <1>t DEF FormsTypeOK, OnlyServer, countVars
<1>z. ASSUME c, tab[t].form \in Unique PROVE rows[t][h.entry] = 0
  <2>1. rows[t][h.entry] \in Nat
    BY <1>2, <1>t
  <2>2. ~(rows[t][h.entry] > 0)
    BY <1>1, <1>2, <1>t, <1>z DEF FormOf, KeyIsTaken, Unique, ForAccounts
  <2> QED
    BY <2>1, <2>2
<1>6. FormOf(t)'
  BY <1>0, <1>1, <1>3, <1>4, <1>5, <1>z, <1>t, Serving DEF OnlyServer, countVars
<1>7. rows' = rows \/ AccountsDiffer'
  <2> SUFFICES ASSUME c, NEW x \in Tabs, NEW y \in Tabs, NEW e \in Entries, x # y,
                      tab[x].form \in ForAccounts, tab[y].form \in ForAccounts
               PROVE  rows'[x][e] + rows'[y][e] <= 1
    BY <1>1 DEF AccountsDiffer, OnlyServer
  <2>1. rows[x][e] + rows[y][e] <= 1 /\ rows[x][e] \in Nat /\ rows[y][e] \in Nat
    BY <1>t DEF AccountsDiffer
  <2>2. ASSUME NEW u \in Tabs, tab[u].form \in ForAccounts, tab[t].form \in ForAccounts
        PROVE  rows[u][h.entry] = 0
    <3>1. FormOf(u) /\ rows[u][h.entry] \in Nat
      BY <1>2, <1>t DEF FormsInv
    <3>2. ~(rows[u][h.entry] > 0)
      BY <2>2, <3>1, <1>1, <1>2 DEF FormOf, KeyIsTaken
    <3> QED
      BY <3>1, <3>2
  <2>3. rows'[t] = [rows[t] EXCEPT ![h.entry] = @ + 1] /\ rows[t] \in [Entries -> Nat]
    BY <1>4, <1>t
  <2>4. \A u \in Tabs : rows'[u][e] = IF u = t /\ e = h.entry THEN rows[u][e] + 1 ELSE rows[u][e]
    BY <2>3, <1>4
  <2>5. CASE (x = t \/ y = t) /\ e = h.entry
    <3>1. rows[x][e] = 0 /\ rows[y][e] = 0
      BY <2>2, <2>5
    <3> QED
      BY <3>1, <2>4
  <2>6. CASE ~((x = t \/ y = t) /\ e = h.entry)
    BY <2>1, <2>4, <2>6
  <2> QED
    BY <2>5, <2>6
<1>8. pressed \in Nat /\ pressed' = pressed
  BY <1>1, <1>t, FormParts DEF OnlyServer, countVars
<1> QED
  <2>1. OtherTabsSame(t)
    BY <1>1, <1>3, <1>4 DEF OtherTabsSame, OnlyServer, countVars
  <2>2. tab' = tab /\ taken \subseteq taken' /\ pressed <= pressed'
    BY <1>1, <1>8 DEF OnlyServer
  <2> QED
    BY <2>1, <2>2, <1>5, <1>6, <1>7, OneTab

LEMMA BackStep ==
  ASSUME FormsInv, NEW t \in Tabs, Hear(t) \/ LoseAnswer(t)
  PROVE  FormsInv'
<1>t. /\ FormsTypeOK /\ FormOf(t) /\ tab[t] \in Tab /\ queue[t] \in Seq(Request) /\ pressed \in Nat
      /\ lost[t] \in 0 .. MaxLost /\ MaxLost \in Nat
  BY FormParts, FormsAssumption DEF FormsInv, FormsTypeOK
<1>0. PICK h : h = Head(queue[t])
  OBVIOUS
<1>1. /\ queue[t] # <<>> /\ NextAction(t)
      /\ UNCHANGED <<serverVars, filled, pressed, lookups, again>>
  BY DEF Hear, HearLookup, HearEventForm, HearVendorForm, HearSignup, HearUserForm,
         HearOrganizadoraForm, HearMemberships, HearApproval, HearPublish, HearCategoryForm,
         GoOn, LoseAnswer, Answered, OnlyTab, countVars
<1>2. h \in Request /\ h.entry \in Entries
  BY <1>0, <1>1, <1>t, First, RequestHasParts
<1>3. /\ queue' \in [Tabs -> Seq(Request)] /\ queue'[t] = Tail(queue[t])
      /\ \A u \in Tabs \ {t} : queue'[u] = queue[u]
  <2>1. Tail(queue[t]) \in Seq(Request)
    BY <1>1, <1>t, Dropped
  <2> QED
    BY <2>1, <1>1, <1>t DEF NextAction, FormsTypeOK
<1>4. /\ tab' \in [Tabs -> Tab] /\ \A u \in Tabs \ {t} : tab'[u] = tab[u]
      /\ lost' \in [Tabs -> 0 .. MaxLost] /\ \A u \in Tabs \ {t} : lost'[u] = lost[u]
      /\ tab'[t].form = tab[t].form /\ tab'[t].blurred = tab[t].blurred
      /\ \/ /\ lost'[t] = lost[t] + 1
            /\ tab'[t].entry = tab[t].entry /\ tab'[t].badge = tab[t].badge
            /\ tab'[t].at \in {tab[t].at, "broken"}
            /\ h.op = "lookup" => tab'[t].at = "broken"
         \/ /\ lost'[t] = lost[t] /\ h.op = "lookup"
            /\ tab'[t].entry = tab[t].entry /\ tab'[t].at = tab[t].at
            /\ tab'[t].badge = [kind |-> "answer", of |-> h.entry]
         \/ /\ lost'[t] = lost[t] /\ h.op = "submit" /\ tab'[t].badge = tab[t].badge
            /\ IF h.answer = "ok" /\ tab[t].at = "form"
                 THEN /\ tab'[t].at = "leaving"
                      /\ tab'[t].entry = IF tab[t].form = "category" THEN None ELSE tab[t].entry
                 ELSE tab'[t].at = tab[t].at /\ tab'[t].entry = tab[t].entry
  <2>1. CASE LoseAnswer(t)
    <3>1. lost[t] < MaxLost /\ lost' = [lost EXCEPT ![t] = lost[t] + 1]
      BY <2>1, <1>t DEF LoseAnswer, Plus1, FormsTypeOK
    <3>2. lost[t] + 1 \in 0 .. MaxLost
      BY <3>1, <1>t
    <3>3. /\ lost' \in [Tabs -> 0 .. MaxLost] /\ lost'[t] = lost[t] + 1
          /\ \A u \in Tabs \ {t} : lost'[u] = lost[u]
      BY <3>1, <3>2, <1>t DEF FormsTypeOK
    <3>4. \/ tab' = [tab EXCEPT ![t] = [tab[t] EXCEPT !.at = "broken"]]
          \/ tab' = tab /\ h.op # "lookup"
      BY <2>1, <1>0, <1>t DEF LoseAnswer, FormsTypeOK
    <3>5. [tab[t] EXCEPT !.at = "broken"] \in Tab
      BY <1>t DEF Tab
    <3>6. PICK x \in Tab :
            /\ tab' = [tab EXCEPT ![t] = x] /\ x.form = tab[t].form /\ x.blurred = tab[t].blurred
            /\ x.entry = tab[t].entry /\ x.badge = tab[t].badge
            /\ x.at \in {tab[t].at, "broken"} /\ (h.op = "lookup" => x.at = "broken")
      <4>1. CASE tab' = tab /\ h.op # "lookup"
        <5>1. tab' = [tab EXCEPT ![t] = tab[t]]
          BY <4>1, <1>t DEF FormsTypeOK
        <5> QED
          BY <4>1, <5>1, <1>t
      <4>2. CASE tab' = [tab EXCEPT ![t] = [tab[t] EXCEPT !.at = "broken"]]
        <5>1. PICK x : x = [tab[t] EXCEPT !.at = "broken"]
          OBVIOUS
        <5>2. /\ x \in Tab /\ x.form = tab[t].form /\ x.blurred = tab[t].blurred
              /\ x.entry = tab[t].entry /\ x.badge = tab[t].badge /\ x.at = "broken"
          BY <3>5, <5>1, <1>t DEF Tab
        <5> QED
          BY <4>2, <5>1, <5>2
      <4> QED
        BY <3>4, <4>1, <4>2
    <3>7. tab' \in [Tabs -> Tab] /\ tab'[t] = x /\ \A u \in Tabs \ {t} : tab'[u] = tab[u]
      BY <3>6, <1>t DEF FormsTypeOK
    <3> QED
      BY <3>3, <3>6, <3>7
  <2>2. CASE HearLookup(t)
    <3>1. /\ tab' = [tab EXCEPT ![t] = [tab[t] EXCEPT !.badge = [kind |-> "answer", of |-> h.entry]]]
          /\ lost' = lost /\ h.op = "lookup"
      BY <2>2, <1>0, <1>t DEF HearLookup, Answered, OnlyTab, countVars, FormsTypeOK
    <3>2. [kind |-> "answer", of |-> h.entry] \in Badge
      BY <1>2 DEF Badge
    <3>3. [tab[t] EXCEPT !.badge = [kind |-> "answer", of |-> h.entry]] \in Tab
      BY <3>2, <1>t DEF Tab
    <3> QED
      BY <3>1, <3>3, <1>t DEF FormsTypeOK, Tab
  <2>3. CASE HearCategoryForm(t)
    <3>1. /\ tab[t].form = "category" /\ h.op = "submit" /\ lost' = lost
          /\ IF h.answer = "ok" /\ tab[t].at = "form"
               THEN tab' = [tab EXCEPT ![t] = [tab[t] EXCEPT !.at = "leaving", !.entry = None]]
               ELSE tab' = tab
      BY <2>3, <1>0, <1>t DEF HearCategoryForm, Answered, Said, OnlyTab, countVars, FormsTypeOK
    <3>2. PICK x : x = [tab[t] EXCEPT !.at = "leaving", !.entry = None]
      OBVIOUS
    <3>3. /\ x \in Tab /\ x.form = tab[t].form /\ x.blurred = tab[t].blurred
          /\ x.entry = None /\ x.badge = tab[t].badge /\ x.at = "leaving"
      BY <3>2, <1>t DEF Tab
    <3>4. CASE h.answer = "ok" /\ tab[t].at = "form"
      <4>1. tab' \in [Tabs -> Tab] /\ tab'[t] = x /\ \A u \in Tabs \ {t} : tab'[u] = tab[u]
        BY <3>1, <3>2, <3>3, <3>4, <1>t DEF FormsTypeOK
      <4> QED
        BY <3>1, <3>3, <3>4, <4>1, <1>t DEF FormsTypeOK
    <3>5. CASE ~(h.answer = "ok" /\ tab[t].at = "form")
      BY <3>1, <3>5, <1>t DEF FormsTypeOK
    <3> QED
      BY <3>4, <3>5
  <2>4. CASE \/ HearEventForm(t) \/ HearVendorForm(t) \/ HearSignup(t) \/ HearUserForm(t)
             \/ HearOrganizadoraForm(t) \/ HearMemberships(t) \/ HearApproval(t) \/ HearPublish(t)
    <3>0. PICK f \in (Transitions \cup Handlers) \ {"category"} : GoOn(t, f)
      BY <2>4 DEF HearEventForm, HearVendorForm, HearSignup, HearUserForm, HearOrganizadoraForm,
                  HearMemberships, HearApproval, HearPublish, Transitions, Handlers
    <3>1. /\ tab[t].form # "category" /\ h.op = "submit" /\ lost' = lost
          /\ IF h.answer = "ok" /\ tab[t].at = "form"
               THEN tab' = [tab EXCEPT ![t] = [tab[t] EXCEPT !.at = "leaving"]]
               ELSE tab' = tab
      BY <3>0, <1>0, <1>t DEF GoOn, Answered, Said, OnlyTab, countVars, FormsTypeOK
    <3>2. PICK x : x = [tab[t] EXCEPT !.at = "leaving"]
      OBVIOUS
    <3>3. /\ x \in Tab /\ x.form = tab[t].form /\ x.blurred = tab[t].blurred
          /\ x.entry = tab[t].entry /\ x.badge = tab[t].badge /\ x.at = "leaving"
      BY <3>2, <1>t DEF Tab
    <3>4. CASE h.answer = "ok" /\ tab[t].at = "form"
      <4>1. tab' \in [Tabs -> Tab] /\ tab'[t] = x /\ \A u \in Tabs \ {t} : tab'[u] = tab[u]
        BY <3>1, <3>2, <3>3, <3>4, <1>t DEF FormsTypeOK
      <4> QED
        BY <3>1, <3>3, <3>4, <4>1, <1>t DEF FormsTypeOK
    <3>5. CASE ~(h.answer = "ok" /\ tab[t].at = "form")
      BY <3>1, <3>5, <1>t DEF FormsTypeOK
    <3> QED
      BY <3>4, <3>5
  <2> QED
    BY <2>1, <2>2, <2>3, <2>4 DEF Hear
<1>5. FormsTypeOK'
  BY <1>1, <1>3, <1>4, <1>t DEF FormsTypeOK, serverVars
<1>6. FormOf(t)'
  BY <1>0, <1>1, <1>3, <1>4, <1>5, <1>t, HearingBack DEF serverVars
<1> QED
  BY <1>1, <1>3, <1>4, <1>5, <1>6, <1>t, OneTab DEF OtherTabsSame, serverVars

LEMMA LandStep ==
  ASSUME FormsInv, NEW t \in Tabs, Land(t)
  PROVE  FormsInv'
<1>t. FormsTypeOK /\ FormOf(t) /\ tab[t] \in Tab /\ pressed \in Nat
  BY FormParts DEF FormsInv
<1>1. UNCHANGED <<queue, serverVars, countVars>>
  BY DEF Land, OnlyTab
<1>2. PICK x \in Tab : tab' = [tab EXCEPT ![t] = x] /\ x.form = tab[t].form
  <2>1. CASE tab[t].form = "category"
    <3>1. tab' = [tab EXCEPT ![t] = [tab[t] EXCEPT !.at = "form"]]
      BY <2>1, <1>t DEF Land, FormsTypeOK
    <3>2. [tab[t] EXCEPT !.at = "form"] \in Tab /\ [tab[t] EXCEPT !.at = "form"].form = tab[t].form
      BY <1>t DEF Tab
    <3> QED
      BY <3>1, <3>2
  <2>2. CASE tab[t].form = "members"
    <3>1. Page("members") \in Tab /\ Page("members").form = "members"
      BY DEF Page, Tab, Idle, Badge, Handlers
    <3> QED
      BY <2>2, <3>1 DEF Land
  <2>3. CASE tab[t].form \notin {"category", "members"}
    <3>1. tab' = [tab EXCEPT ![t] = [tab[t] EXCEPT !.at = "left"]]
      BY <2>3, <1>t DEF Land, FormsTypeOK
    <3>2. [tab[t] EXCEPT !.at = "left"] \in Tab /\ [tab[t] EXCEPT !.at = "left"].form = tab[t].form
      BY <1>t DEF Tab
    <3> QED
      BY <3>1, <3>2
  <2> QED
    BY <2>1, <2>2, <2>3
<1>3. /\ tab' \in [Tabs -> Tab] /\ \A u \in Tabs \ {t} : tab'[u] = tab[u]
      /\ tab'[t].form = tab[t].form
  BY <1>2, <1>t DEF FormsTypeOK
<1>4. FormsTypeOK'
  BY <1>1, <1>3, <1>t DEF FormsTypeOK, serverVars, countVars
<1>5. FormOf(t)'
  BY <1>4, <1>t, Landing
<1> QED
  BY <1>1, <1>3, <1>4, <1>5, <1>t, OneTab DEF OtherTabsSame, serverVars, countVars

LEMMA FormsStep == FormsInv /\ [FormsNext]_formsVars => FormsInv'
<1> SUFFICES ASSUME FormsInv, [FormsNext]_formsVars PROVE FormsInv'
  OBVIOUS
<1>1. ASSUME NEW t \in Tabs, User(t)
      PROVE  FormsInv'
  BY <1>1, PressStep, FieldStep DEF User
<1>2. ASSUME NEW t \in Tabs, Serve(t) \/ Hear(t) \/ LoseAnswer(t) \/ Land(t)
      PROVE  FormsInv'
  BY <1>2, ServeStep, BackStep, LandStep
<1>3. CASE UNCHANGED formsVars
  <2>1. /\ UNCHANGED <<tab, queue, rows, taken, filled, pressed>>
        /\ UNCHANGED <<lookups, lost, again>>
    BY <1>3 DEF formsVars, serverVars, countVars
  <2>2. FormsTypeOK' /\ AccountsDiffer'
    BY <2>1 DEF FormsInv, FormsTypeOK, AccountsDiffer
  <2>3. ASSUME NEW u \in Tabs PROVE FormOf(u)'
    <3>1. pressed <= pressed'
      BY <2>1, FormParts DEF FormsInv
    <3> QED
      BY <2>1, <2>2, <3>1, Elsewhere DEF FormsInv
  <2> QED
    BY <2>2, <2>3 DEF FormsInv
<1> QED
  BY <1>1, <1>2, <1>3 DEF FormsNext

\* The invariant of the forms, however often they are sent and from whatever tabs.
THEOREM FormsInvariance == FormsSpec => []FormsInv
<1>1. FormsInit => FormsInv
  BY FormsInitHolds
<1>2. FormsInv /\ [FormsNext]_formsVars => FormsInv'
  BY FormsStep
<1> QED
  BY <1>1, <1>2, PTL DEF FormsSpec

\* One entry creates one row, but for answers that were lost and presses before the
\* next page is there; what is checked is created once whatever happens
\* (fornecedor/signup-form.tsx:73-84).
THEOREM PressingTwiceCreatesOnce == FormsSpec => []CreatedOnce
<1>1. FormsInv => CreatedOnce
  <2> SUFFICES ASSUME FormsInv, NEW t \in Tabs, NEW e \in Entries
               PROVE  LET f == tab[t].form IN
                      /\ f \notin Unique =>
                           rows[t][e] <= 1 + lost[t] + (IF f = "signup" THEN again[t] ELSE 0)
                      /\ f \in Unique => rows[t][e] <= 1
                      /\ \A u \in Tabs \ {t} :
                           {f, tab[u].form} \subseteq {"user", "organizadora"}
                             => rows[t][e] + rows[u][e] <= 1
    BY DEF CreatedOnce
  <2>t. rows[t] \in [Entries -> Nat] /\ lost[t] \in Nat /\ again[t] \in Nat /\ FormOf(t)
    BY FormParts DEF FormsInv
  <2>1. tab[t].form \notin Unique =>
          rows[t][e] <= 1 + lost[t] + (IF tab[t].form = "signup" THEN again[t] ELSE 0)
    <3>1. tab[t].form \notin Unique => rows[t][e] <= 1 + Allowance(t)
      BY <2>t DEF FormOf, WithinAllowance
    <3>2. PICK x \in Nat : x = IF tab[t].form = "signup" THEN again[t] ELSE 0
      BY <2>t
    <3>3. 1 + Allowance(t) = 1 + lost[t] + x
      BY <3>2, <2>t DEF Allowance
    <3> QED
      BY <3>1, <3>2, <3>3
  <2>2. tab[t].form \in Unique => rows[t][e] <= 1
    BY <2>t DEF FormOf, KeyIsTaken
  <2>3. \A u \in Tabs \ {t} :
          {tab[t].form, tab[u].form} \subseteq {"user", "organizadora"} => rows[t][e] + rows[u][e] <= 1
    BY DEF FormsInv, AccountsDiffer, ForAccounts
  <2> QED
    BY <2>1, <2>2, <2>3
<1> QED
  BY <1>1, FormsInvariance, PTL

\* Once the lookups have answered, the badge is about the number in the field
\* (cnpj-input.tsx:62-95).
THEOREM BadgeFollowsField == FormsSpec => []BadgeIsAboutField
<1>1. FormsInv => BadgeIsAboutField
  BY DEF FormsInv, FormOf, BadgeFollows, LastLookup, IsLookup, Looking, Idle, BadgeIsAboutField
<1> QED
  BY <1>1, FormsInvariance, PTL
=============================================================================
