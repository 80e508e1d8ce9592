--------------------------- MODULE Access_proofs ---------------------------
(* Who gets into a workspace, for any number of people, devices, sign-ins   *)
(* and requests. The inductive invariant says, besides the types, that what *)
(* a row waits for is its newest secret (Newest), what each lookup of a     *)
(* request established that stays true while others go on (Requests), that  *)
(* what was open before is closed once nobody is left to close it (Closed), *)
(* and how many wrong tries can still come (Limited).                       *)
EXTENDS Access, FiniteSetTheorems, TLAPS

\* The newest secret is the one that works, and a used one is not waited for.
Newest ==
  /\ \A p \in People :
       /\ invitation[p].status = "PENDING" => invitation[p].secret = invitation[p].issued
       /\ used[p] # 0 => member[p] # "NONE"
  /\ \A d \in Devices :
       /\ device[d].status = "PENDING" => device[d].secret = device[d].issued
       /\ device[d].status = "NONE" => device[d].issued = 0
       /\ device[d].status \in {"NONE", "PENDING"} => used[d] = 0

\* A device that was activated, and may have been revoked since.
Activated(d) == device[d].status \in {"ACTIVE", "REVOKED"}

\* What a request knows of its session and the session's device.
Sound(q) ==
  /\ q.pc = "login" /\ q.device # None => Activated(q.device)
  /\ q.pc \in {"device", "scope", "member", "served"} => session[q.session] # None
  /\ q.pc = "device" =>
       LET bound == session[q.session].device
       IN  bound # None /\ (q.fresh \/ device[bound].status = "REVOKED")
  /\ q.pc = "scope" =>
       LET bound == session[q.session].device
       IN  bound # None /\ q.fresh /\ q.device = bound
  /\ q.pc \in {"member", "served"} =>
       LET bound == session[q.session].device
       IN  bound # None => q.fresh /\ (q.scope = bound \/ device[bound].status = "REVOKED")

Requests ==
  /\ \A c \in Calls : Sound(call[c])
  /\ \A s \in Sessions : session[s] # None /\ session[s].device # None => Activated(session[s].device)

\* What a member had open is closed, unless somebody is about to close it or the
\* request that put the member out left it alone.
Closed ==
  \A p \in People :
    /\ \A s \in had[p] : session[s] # None
    /\ ~Ending(p) => had[p] \cap SessionsOf(p) \subseteq kept[p]

HistoryTyped == had \in [People -> SUBSET Sessions] /\ kept \in [People -> SUBSET Sessions]

\* The requests that may still count a try against a person's PIN.
Trying(p) ==
  {c \in Calls : call[c].pc \in {"approver", "guess", "right", "wrong"} /\ call[c].person = p}

\* While a PIN takes tries its row has counted every wrong one; while it does
\* not, only those under way are left.
Within(row, wrong, trying) ==
  /\ row.set /\ ~row.locked => wrong <= row.tries
  /\ ~row.set \/ row.locked => wrong + Cardinality(trying) < MaxTries + Cardinality(Calls)

Limited == \A p \in People : Within(pin[p], guesses[p], Trying(p))

Inv == TypeOK /\ Newest /\ Requests /\ Closed /\ Limited

-----------------------------------------------------------------------------
(* Rows and requests                                                         *)

LEMMA IdleTyped == Idle \in Call /\ Idle.pc = "idle"
  BY DEF Idle, Call

\* What is known of a request by where it is.
LEMMA CallTyped ==
  ASSUME NEW q \in Call
  PROVE  /\ q.pc \in {"invite", "accept", "deactivate", "end", "approver", "guess", "right", "wrong"}
              => q.person \in People
         /\ q.pc \in {"accept", "activate"} => q.secret \in Numbers
         /\ q.pc \in {"activate", "revoke"} => q.device \in Devices
         /\ q.pc = "deactivate" => q.wasActive \in BOOLEAN
         /\ q.pc \in {"device", "scope", "member", "served"} =>
              /\ q.session \in Sessions /\ q.fresh \in BOOLEAN
              /\ q.device \in Devices \cup {None} /\ q.scope \in Devices \cup {None}
         /\ q.pc = "end" => q = [pc |-> "end", person |-> q.person]
  BY DEF Call, Idle

\* The same, of a request that signs in.
LEMMA LoginTyped ==
  ASSUME NEW q \in Call, q.pc = "login"
  PROVE  q.person \in People /\ q.device \in Devices \cup {None}
  BY DEF Call, Idle

\* A guarded request that goes on to its next lookup.
LEMMA GuardedTyped ==
  ASSUME NEW q \in Call, q.pc \in {"device", "scope", "member", "served"},
         NEW pc \in {"device", "scope", "member", "served"}
  PROVE  /\ [q EXCEPT !.pc = pc] \in Call
         /\ [q EXCEPT !.pc = pc].pc = pc
         /\ [q EXCEPT !.pc = pc].session = q.session
         /\ [q EXCEPT !.pc = pc].device = q.device
         /\ [q EXCEPT !.pc = pc].scope = q.scope
         /\ [q EXCEPT !.pc = pc].fresh = q.fresh
<1>1. q \in [pc : {"device", "scope", "member", "served"}, session : Sessions,
             device : Devices \cup {None}, scope : Devices \cup {None}, fresh : BOOLEAN]
  BY DEF Call, Idle
<1> QED
  BY <1>1 DEF Call

LEMMA ScopedTyped ==
  ASSUME NEW q \in Call, q.pc = "scope", NEW d \in Devices \cup {None}
  PROVE  /\ [q EXCEPT !.pc = "member", !.scope = d] \in Call
         /\ [q EXCEPT !.pc = "member", !.scope = d].pc = "member"
         /\ [q EXCEPT !.pc = "member", !.scope = d].session = q.session
         /\ [q EXCEPT !.pc = "member", !.scope = d].scope = d
         /\ [q EXCEPT !.pc = "member", !.scope = d].fresh = q.fresh
<1>1. q \in [pc : {"device", "scope", "member", "served"}, session : Sessions,
             device : Devices \cup {None}, scope : Devices \cup {None}, fresh : BOOLEAN]
  BY DEF Call, Idle
<1> QED
  BY <1>1 DEF Call

\* A request that tries a PIN and goes on.
LEMMA TryingTyped ==
  ASSUME NEW q \in Call, q.pc \in {"approver", "guess", "right", "wrong"},
         NEW pc \in {"approver", "guess", "right", "wrong"}
  PROVE  /\ [q EXCEPT !.pc = pc] \in Call
         /\ [q EXCEPT !.pc = pc].pc = pc
         /\ [q EXCEPT !.pc = pc].person = q.person
<1>1. q \in [pc : {"approver", "guess", "right", "wrong"}, person : People]
  BY DEF Call, Idle
<1> QED
  BY <1>1 DEF Call

\* Ending sign-ins closes those that are open and leaves everything else of them.
LEMMA EndedRows ==
  ASSUME session \in [Sessions -> Session \cup {None}], NEW S
  PROVE  /\ Ended(S) \in [Sessions -> Session \cup {None}]
         /\ \A s \in Sessions :
              /\ session[s] = None <=> Ended(S)[s] = None
              /\ session[s] # None =>
                   /\ Ended(S)[s].person = session[s].person
                   /\ Ended(S)[s].device = session[s].device
                   /\ Ended(S)[s].open => session[s].open
                   /\ s \in S => ~Ended(S)[s].open
<1> DEFINE row(s) == IF Open(s) /\ s \in S THEN [session[s] EXCEPT !.open = FALSE]
                                           ELSE session[s]
<1>1. None \notin Session
  BY NoneAssumption
<1>2. ASSUME NEW s \in Sessions
      PROVE  /\ row(s) \in Session \cup {None}
             /\ session[s] = None <=> row(s) = None
             /\ session[s] # None =>
                  /\ row(s).person = session[s].person
                  /\ row(s).device = session[s].device
                  /\ row(s).open => session[s].open
                  /\ s \in S => ~row(s).open
  <2>1. CASE session[s] = None
    BY <2>1 DEF Open
  <2>2. CASE session[s] # None
    <3> DEFINE r == session[s]
    <3>1. r \in Session
      BY <2>2
    <3>2. /\ [r EXCEPT !.open = FALSE] \in Session
          /\ [r EXCEPT !.open = FALSE].person = r.person
          /\ [r EXCEPT !.open = FALSE].device = r.device
          /\ [r EXCEPT !.open = FALSE].open = FALSE
      BY <3>1 DEF Session
    <3> QED
      BY <1>1, <2>2, <3>1, <3>2 DEF Open, Session
  <2> QED
    BY <2>1, <2>2
<1>3. Ended(S) = [s \in Sessions |-> row(s)]
  BY DEF Ended
<1> HIDE DEF row
<1> QED
  BY <1>2, <1>3

\* What is left of an invitation that was accepted, withdrawn or let run out
\* is an invitation without a link.
LEMMA DoneInvitation ==
  ASSUME NEW row \in Invitation, NEW status \in {"ACCEPTED", "REVOKED", "EXPIRED"}
  PROVE  /\ Done(row, status) \in Invitation
         /\ Done(row, status).status = status
         /\ Done(row, status).secret = 0
         /\ Done(row, status).issued = row.issued
<1>1. 0 \in 0 .. MaxIssued
  BY AccessAssumption
<1> QED
  BY <1>1 DEF Invitation, Numbers, Done

\* A row that gets a new secret, and one that loses its own.
LEMMA InvitationRows ==
  ASSUME NEW row \in Invitation
  PROVE  /\ \A status \in {"ACCEPTED", "REVOKED", "EXPIRED"} :
              /\ Done(row, status) \in Invitation
              /\ Done(row, status).status = status
              /\ Done(row, status).secret = 0
              /\ Done(row, status).issued = row.issued
         /\ row.issued < MaxIssued =>
              /\ Issue(row) \in Invitation
              /\ Issue(row).status = "PENDING"
              /\ Issue(row).secret = Issue(row).issued
              /\ Issue(row).secret # 0
         /\ /\ [row EXCEPT !.late = TRUE] \in Invitation
            /\ [row EXCEPT !.late = TRUE].status = row.status
            /\ [row EXCEPT !.late = TRUE].secret = row.secret
            /\ [row EXCEPT !.late = TRUE].issued = row.issued
  <1>1. /\ MaxIssued \in Nat /\ row.issued \in 0 .. MaxIssued
        /\ 0 \in 0 .. MaxIssued
    BY AccessAssumption DEF Invitation, Numbers
  <1>2. ASSUME NEW status \in {"ACCEPTED", "REVOKED", "EXPIRED"}
        PROVE  /\ Done(row, status) \in Invitation
               /\ Done(row, status).status = status
               /\ Done(row, status).secret = 0
               /\ Done(row, status).issued = row.issued
    BY <1>2, DoneInvitation
  <1>3. ASSUME row.issued < MaxIssued
        PROVE  row.issued + 1 \in 0 .. MaxIssued /\ row.issued + 1 # 0
    BY <1>1, <1>3
  <1>4. row.issued < MaxIssued =>
          /\ Issue(row) \in Invitation
          /\ Issue(row).status = "PENDING"
          /\ Issue(row).secret = Issue(row).issued
          /\ Issue(row).secret # 0
    BY <1>3 DEF Invitation, Numbers, Issue
  <1>5. /\ [row EXCEPT !.late = TRUE] \in Invitation
        /\ [row EXCEPT !.late = TRUE].status = row.status
        /\ [row EXCEPT !.late = TRUE].secret = row.secret
        /\ [row EXCEPT !.late = TRUE].issued = row.issued
    BY DEF Invitation
  <1> QED
    BY <1>2, <1>4, <1>5

LEMMA DeviceRows ==
  ASSUME NEW row \in Device
  PROVE  /\ \A status \in {"ACTIVE", "REVOKED"} :
              /\ Done(row, status) \in Device
              /\ Done(row, status).status = status
              /\ Done(row, status).secret = 0
              /\ Done(row, status).issued = row.issued
         /\ row.issued < MaxIssued =>
              /\ Issue(row) \in Device
              /\ Issue(row).status = "PENDING"
              /\ Issue(row).secret = Issue(row).issued
         /\ /\ [row EXCEPT !.late = TRUE] \in Device
            /\ [row EXCEPT !.late = TRUE].status = row.status
            /\ [row EXCEPT !.late = TRUE].secret = row.secret
            /\ [row EXCEPT !.late = TRUE].issued = row.issued
  <1>1. /\ MaxIssued \in Nat /\ row.issued \in 0 .. MaxIssued
        /\ 0 \in 0 .. MaxIssued
    BY AccessAssumption DEF Device, Numbers
  <1>2. ASSUME NEW status \in {"ACTIVE", "REVOKED"}
        PROVE  /\ Done(row, status) \in Device
               /\ Done(row, status).status = status
               /\ Done(row, status).secret = 0
               /\ Done(row, status).issued = row.issued
    BY <1>1 DEF Device, Numbers, Done
  <1>3. ASSUME row.issued < MaxIssued
        PROVE  row.issued + 1 \in 0 .. MaxIssued /\ row.issued + 1 # 0
    BY <1>1, <1>3
  <1>4. row.issued < MaxIssued =>
          /\ Issue(row) \in Device
          /\ Issue(row).status = "PENDING"
          /\ Issue(row).secret = Issue(row).issued
    BY <1>3 DEF Device, Numbers, Issue
  <1>5. /\ [row EXCEPT !.late = TRUE] \in Device
        /\ [row EXCEPT !.late = TRUE].status = row.status
        /\ [row EXCEPT !.late = TRUE].secret = row.secret
        /\ [row EXCEPT !.late = TRUE].issued = row.issued
    BY DEF Device
  <1> QED
    BY <1>2, <1>4, <1>5

\* A PIN's row after a wrong try.
LEMMA PinRows ==
  ASSUME NEW row \in Pin
  PROVE  /\ Counted(row) \in Pin
         /\ Counted(row).set = row.set
         /\ row.tries + 1 >= MaxTries => Counted(row).locked
         /\ row.tries + 1 < MaxTries => /\ Counted(row).tries = row.tries + 1
                                        /\ Counted(row).locked = row.locked
         /\ /\ [row EXCEPT !.tries = 0, !.locked = FALSE] \in Pin
            /\ [row EXCEPT !.tries = 0, !.locked = FALSE].set = row.set
            /\ [row EXCEPT !.tries = 0, !.locked = FALSE].tries = 0
            /\ ~[row EXCEPT !.tries = 0, !.locked = FALSE].locked
         /\ /\ [row EXCEPT !.locked = FALSE] \in Pin
            /\ [row EXCEPT !.locked = FALSE].set = row.set
            /\ [row EXCEPT !.locked = FALSE].tries = row.tries
            /\ ~[row EXCEPT !.locked = FALSE].locked
  <1>1. /\ MaxTries \in Nat /\ MaxTries # 0
        /\ row.tries \in Nat /\ row.set \in BOOLEAN /\ row.locked \in BOOLEAN
        /\ row.tries < MaxTries
    BY AccessAssumption DEF Pin
  <1>2. ASSUME row.tries + 1 >= MaxTries
        PROVE  /\ Counted(row) \in Pin
               /\ Counted(row).set = row.set
               /\ Counted(row).locked
    <2>1. Counted(row) = [row EXCEPT !.tries = 0, !.locked = TRUE]
      BY <1>2 DEF Counted
    <2>2. 0 \in 0 .. MaxTries - 1
      BY <1>1
    <2> QED
      BY <2>1, <2>2 DEF Pin
  <1>3. ASSUME row.tries + 1 < MaxTries
        PROVE  /\ Counted(row) \in Pin
               /\ Counted(row).set = row.set
               /\ Counted(row).tries = row.tries + 1
               /\ Counted(row).locked = row.locked
    <2>1. ~(row.tries + 1 >= MaxTries)
      BY <1>1, <1>3
    <2>2. Counted(row) = [row EXCEPT !.tries = row.tries + 1]
      BY <2>1 DEF Counted
    <2>3. row.tries + 1 \in 0 .. MaxTries - 1
      BY <1>1, <1>3
    <2> HIDE <1>3
    <2>4. /\ [row EXCEPT !.tries = row.tries + 1] \in Pin
          /\ [row EXCEPT !.tries = row.tries + 1].tries = row.tries + 1
          /\ [row EXCEPT !.tries = row.tries + 1].set = row.set
          /\ [row EXCEPT !.tries = row.tries + 1].locked = row.locked
      BY <2>3 DEF Pin
    <2> QED
      BY <2>2, <2>4
  <1>4. 0 \in 0 .. MaxTries - 1
    BY <1>1
  <1>5. /\ [row EXCEPT !.tries = 0, !.locked = FALSE] \in Pin
        /\ [row EXCEPT !.tries = 0, !.locked = FALSE].set = row.set
        /\ [row EXCEPT !.tries = 0, !.locked = FALSE].tries = 0
        /\ ~[row EXCEPT !.tries = 0, !.locked = FALSE].locked
    BY <1>4 DEF Pin
  <1>6. /\ [row EXCEPT !.locked = FALSE] \in Pin
        /\ [row EXCEPT !.locked = FALSE].set = row.set
        /\ [row EXCEPT !.locked = FALSE].tries = row.tries
        /\ ~[row EXCEPT !.locked = FALSE].locked
    BY DEF Pin
  <1>7. row.tries + 1 >= MaxTries \/ row.tries + 1 < MaxTries
    BY <1>1
  <1> QED
    BY <1>2, <1>3, <1>5, <1>6, <1>7

-----------------------------------------------------------------------------
(* What a step may do to the rows of invitations, members and devices        *)

\* The rows keep their types and wait for their newest secret only.
RowsKept ==
  /\ invitation' \in [People -> Invitation]
  /\ member' \in [People -> {"NONE", "ACTIVE", "INACTIVE"}]
  /\ device' \in [Devices -> Device]
  /\ used' \in [People \cup Devices -> Numbers]
  /\ \A p \in People : (invitation'[p].status = "PENDING") = (invitation'[p].secret # 0)
  /\ Newest'

\* One invitation, device or membership changes, and waits for nothing old.
LEMMA InvitationMoves ==
  ASSUME TypeOK, Newest, NEW p \in People, NEW row \in Invitation,
         (row.status = "PENDING") = (row.secret # 0),
         row.status = "PENDING" => row.secret = row.issued,
         invitation' = [invitation EXCEPT ![p] = row],
         UNCHANGED <<member, device, used>>
  PROVE  RowsKept
  BY DEF TypeOK, Newest, RowsKept

LEMMA DeviceMoves ==
  ASSUME TypeOK, Newest, NEW d \in Devices, NEW row \in Device,
         row.status = "PENDING" => row.secret = row.issued,
         row.status \in {"NONE", "PENDING"} => device[d].status \in {"NONE", "PENDING"},
         row.status # "NONE",
         device' = [device EXCEPT ![d] = row],
         UNCHANGED <<member, invitation, used>>
  PROVE  RowsKept
  BY DEF TypeOK, Newest, RowsKept

LEMMA MemberMoves ==
  ASSUME TypeOK, Newest, NEW p \in People, NEW status \in {"ACTIVE", "INACTIVE"},
         member' = [member EXCEPT ![p] = status],
         UNCHANGED <<invitation, device, used>>
  PROVE  RowsKept
  BY DEF TypeOK, Newest, RowsKept

LEMMA RowsUnmoved ==
  ASSUME TypeOK, Newest, UNCHANGED <<invitation, member, device, used>>
  PROVE  RowsKept
  BY DEF TypeOK, Newest, RowsKept

LEMMA InvitationsKept ==
  ASSUME TypeOK, Newest, Joining
  PROVE  RowsKept
<1>1. ASSUME NEW p \in People, resend(p) PROVE RowsKept
  <2> DEFINE row == invitation[p]
  <2>1. row \in Invitation /\ row.issued < MaxIssued
    BY <1>1 DEF resend, TypeOK
  <2>2. invitation' = [invitation EXCEPT ![p] = Issue(row)] /\ UNCHANGED <<member, device, used>>
    BY <1>1 DEF resend
  <2> HIDE DEF row
  <2>3. /\ Issue(row) \in Invitation /\ Issue(row).status = "PENDING"
        /\ Issue(row).secret = Issue(row).issued /\ Issue(row).secret # 0
    BY <2>1, InvitationRows
  <2> QED
    BY <2>2, <2>3, InvitationMoves
<1>2. ASSUME NEW p \in People, NEW row \in Invitation,
             NEW status \in {"ACCEPTED", "REVOKED", "EXPIRED"},
             invitation' = [invitation EXCEPT ![p] = Done(row, status)],
             UNCHANGED <<member, device, used>>
      PROVE  RowsKept
  <2>1. /\ Done(row, status) \in Invitation /\ Done(row, status).status = status
        /\ Done(row, status).secret = 0
    BY DoneInvitation
  <2> QED
    BY <1>2, <2>1, InvitationMoves
<1>3. ASSUME NEW p \in People, revokeInvitation(p) PROVE RowsKept
  BY <1>2, <1>3 DEF revokeInvitation, TypeOK
<1>4. ASSUME NEW p \in People, createMembership(p) PROVE RowsKept
  BY <1>4, MemberMoves DEF createMembership
<1>5. ASSUME NEW p \in People, NEW c \in Calls, BeginInvite(c, p) PROVE RowsKept
  <2>1. CASE invitation[p].late
    BY <1>2, <1>5, <2>1 DEF BeginInvite, TypeOK
  <2>2. CASE ~invitation[p].late
    <3>1. invitation' = [invitation EXCEPT ![p] = invitation[p]] /\ UNCHANGED <<member, device, used>>
      BY <1>5, <2>2 DEF BeginInvite
    <3>2. invitation' = invitation
      BY <3>1 DEF TypeOK
    <3> QED
      BY <3>1, <3>2, RowsUnmoved
  <2> QED
    BY <2>1, <2>2
<1>6. ASSUME NEW p \in People, NEW c \in Calls, BeginAccept(c, p) PROVE RowsKept
  BY <1>6, RowsUnmoved DEF BeginAccept
<1>7. ASSUME NEW c \in Calls, CommitInvite(c) PROVE RowsKept
  <2> DEFINE p == call[c].person
             row == invitation[p]
  <2>1. p \in People
    BY <1>7, CallTyped DEF CommitInvite, At, TypeOK
  <2>2. row \in Invitation /\ row.issued < MaxIssued /\ UNCHANGED <<member, device, used>>
    BY <1>7, <2>1 DEF CommitInvite, TypeOK
  <2>3. invitation' = invitation \/ invitation' = [invitation EXCEPT ![p] = Issue(row)]
    BY <1>7 DEF CommitInvite
  <2> HIDE DEF row
  <2>4. /\ Issue(row) \in Invitation /\ Issue(row).status = "PENDING"
        /\ Issue(row).secret = Issue(row).issued /\ Issue(row).secret # 0
    BY <2>2, InvitationRows
  <2> QED
    BY <2>1, <2>2, <2>3, <2>4, InvitationMoves, RowsUnmoved
<1>8. ASSUME NEW c \in Calls, CommitAccept(c) PROVE RowsKept
  <2> DEFINE p == call[c].person
             row == Done(invitation[p], "ACCEPTED")
  <2>1. p \in People /\ call[c].secret \in Numbers
    BY <1>8, CallTyped DEF CommitAccept, At, TypeOK
  <2>2. CASE UNCHANGED <<invitation, member, used>>
    BY <1>8, <2>2, RowsUnmoved DEF CommitAccept
  <2>3. CASE /\ invitation' = [invitation EXCEPT ![p] = row]
             /\ member' = [member EXCEPT ![p] = "ACTIVE"]
             /\ used' = [used EXCEPT ![p] = call[c].secret]
    <3>1. device' = device
      BY <1>8 DEF CommitAccept
    <3>2. row \in Invitation /\ row.status = "ACCEPTED" /\ row.secret = 0
      BY <2>1, DoneInvitation DEF TypeOK
    <3> HIDE DEF row
    <3>3. \A d \in Devices : used'[d] = used[d]
      BY <2>1, <2>3, AccessAssumption DEF TypeOK
    <3> QED
      BY <2>1, <2>3, <3>1, <3>2, <3>3 DEF TypeOK, Newest, RowsKept
  <2> QED
    BY <1>8, <2>2, <2>3 DEF CommitAccept
<1> QED
  BY <1>1, <1>3, <1>4, <1>5, <1>6, <1>7, <1>8 DEF Joining

LEMMA MembersKept ==
  ASSUME TypeOK, Newest, Leaving
  PROVE  RowsKept
<1>1. ASSUME NEW p \in People, reactivate(p) PROVE RowsKept
  BY <1>1, MemberMoves DEF reactivate
<1>2. ASSUME NEW p \in People, revokeMemberSessions(p) PROVE RowsKept
  BY <1>2, RowsUnmoved DEF revokeMemberSessions
<1>3. ASSUME NEW p \in People, NEW c \in Calls, BeginDeactivate(c, p) PROVE RowsKept
  BY <1>3, RowsUnmoved DEF BeginDeactivate
<1>4. ASSUME NEW c \in Calls, CommitDeactivate(c) PROVE RowsKept
  <2>1. call[c].person \in People
    BY <1>4, CallTyped DEF CommitDeactivate, At, TypeOK
  <2> QED
    BY <1>4, <2>1, MemberMoves DEF CommitDeactivate
<1>5. ASSUME NEW c \in Calls, EndSessions(c) PROVE RowsKept
  BY <1>5, RowsUnmoved DEF EndSessions
<1> QED
  BY <1>1, <1>2, <1>3, <1>4, <1>5 DEF Leaving

LEMMA DevicesKept ==
  ASSUME TypeOK, Newest, Equipping
  PROVE  RowsKept
<1>1. ASSUME NEW d \in Devices, device[d].status \in {"NONE", "PENDING"},
             device[d].issued < MaxIssued,
             device' = [device EXCEPT ![d] = Issue(@)],
             UNCHANGED <<invitation, member, used>>
      PROVE  RowsKept
  <2> DEFINE row == device[d]
  <2>1. row \in Device /\ row.issued < MaxIssued /\ device' = [device EXCEPT ![d] = Issue(row)]
    BY <1>1 DEF TypeOK
  <2> HIDE DEF row
  <2>2. Issue(row) \in Device /\ Issue(row).status = "PENDING" /\ Issue(row).secret = Issue(row).issued
    BY <2>1, DeviceRows
  <2> QED
    BY <1>1, <2>1, <2>2, DeviceMoves
<1>2. ASSUME NEW d \in Devices, register(d) PROVE RowsKept
  <2>1. device[d].status = "NONE" /\ device[d].issued = 0
    BY <1>2 DEF register, Newest
  <2> QED
    BY <1>1, <1>2, <2>1 DEF register
<1>3. ASSUME NEW d \in Devices, reissueCode(d) PROVE RowsKept
  BY <1>1, <1>3 DEF reissueCode
<1>4. ASSUME NEW d \in Devices, NEW c \in Calls, BeginActivate(c, d) \/ BeginRevoke(c, d)
      PROVE  RowsKept
  BY <1>4, RowsUnmoved DEF BeginActivate, BeginRevoke
<1>5. ASSUME NEW c \in Calls, CommitActivate(c) PROVE RowsKept
  <2> DEFINE d == call[c].device
             row == Done(device[d], "ACTIVE")
  <2>1. d \in Devices /\ call[c].secret \in Numbers
    BY <1>5, CallTyped DEF CommitActivate, At, TypeOK
  <2>2. CASE UNCHANGED <<device, used>>
    BY <1>5, <2>2, RowsUnmoved DEF CommitActivate
  <2>3. CASE /\ device' = [device EXCEPT ![d] = row]
             /\ used' = [used EXCEPT ![d] = call[c].secret]
    <3>1. UNCHANGED <<invitation, member>>
      BY <1>5 DEF CommitActivate
    <3>2. row \in Device /\ row.status = "ACTIVE"
      BY <2>1, DeviceRows DEF TypeOK
    <3> HIDE DEF row
    <3>3. \A p \in People : used'[p] = used[p]
      BY <2>1, <2>3, AccessAssumption DEF TypeOK
    <3> QED
      BY <2>1, <2>3, <3>1, <3>2, <3>3 DEF TypeOK, Newest, RowsKept
  <2> QED
    BY <1>5, <2>2, <2>3 DEF CommitActivate
<1>6. ASSUME NEW c \in Calls, CommitRevoke(c) PROVE RowsKept
  <2> DEFINE d == call[c].device
             row == Done(device[d], "REVOKED")
  <2>1. d \in Devices /\ UNCHANGED <<invitation, member, used>>
    BY <1>6, CallTyped DEF CommitRevoke, At, TypeOK
  <2>2. row \in Device /\ row.status = "REVOKED"
    BY <2>1, DeviceRows DEF TypeOK
  <2>3. device' = device \/ device' = [device EXCEPT ![d] = row]
    BY <1>6 DEF CommitRevoke
  <2> HIDE DEF row
  <2> QED
    BY <2>1, <2>2, <2>3, DeviceMoves, RowsUnmoved
<1> QED
  BY <1>1, <1>2, <1>3, <1>4, <1>5, <1>6 DEF Equipping

LEMMA OthersKeepRows ==
  ASSUME TypeOK, Newest, Signing \/ Approving \/ \E c \in Calls : Abandon(c)
  PROVE  UNCHANGED <<invitation, member, device, used>>
  BY DEF Signing, logout, CommitLogin, BeginRequest, BeginLogin, CheckDevice, Check, Scope,
     CheckMember, Finish, Approving, setOwn, resetPin, Unlock, BeginVerify, CheckApprover,
     Compare, recordSuccess, recordFailure, Abandon

LEMMA RunOutKept ==
  ASSUME TypeOK, Newest, RunOut
  PROVE  RowsKept
<1>1. ASSUME NEW p \in People, invitation' = [invitation EXCEPT ![p].late = TRUE], UNCHANGED device
      PROVE  RowsKept
  <2> DEFINE row == invitation[p]
  <2>1. row \in Invitation /\ invitation' = [invitation EXCEPT ![p] = [row EXCEPT !.late = TRUE]]
    BY <1>1 DEF TypeOK
  <2>2. /\ (row.status = "PENDING") = (row.secret # 0)
        /\ row.status = "PENDING" => row.secret = row.issued
        /\ UNCHANGED <<member, device, used>>
    BY <1>1 DEF TypeOK, Newest, RunOut
  <2> HIDE DEF row
  <2>3. /\ [row EXCEPT !.late = TRUE] \in Invitation
        /\ [row EXCEPT !.late = TRUE].status = row.status
        /\ [row EXCEPT !.late = TRUE].secret = row.secret
        /\ [row EXCEPT !.late = TRUE].issued = row.issued
    BY <2>1, InvitationRows
  <2>4. /\ ([row EXCEPT !.late = TRUE].status = "PENDING") = ([row EXCEPT !.late = TRUE].secret # 0)
        /\ [row EXCEPT !.late = TRUE].status = "PENDING" =>
             [row EXCEPT !.late = TRUE].secret = [row EXCEPT !.late = TRUE].issued
    BY <2>2, <2>3
  <2> QED
    BY <2>1, <2>2, <2>3, <2>4, InvitationMoves
<1>2. ASSUME NEW d \in Devices, Works(device[d], device[d].secret),
             device' = [device EXCEPT ![d].late = TRUE], UNCHANGED invitation
      PROVE  RowsKept
  <2> DEFINE row == device[d]
  <2>1. row \in Device /\ device' = [device EXCEPT ![d] = [row EXCEPT !.late = TRUE]]
    BY <1>2 DEF TypeOK
  <2>2. /\ row.status = "PENDING" /\ row.secret = row.issued
        /\ UNCHANGED <<member, invitation, used>>
    BY <1>2 DEF Works, Newest, RunOut
  <2>3. device[d].status = "PENDING"
    BY <2>2
  <2> HIDE DEF row
  <2>4. /\ [row EXCEPT !.late = TRUE] \in Device
        /\ [row EXCEPT !.late = TRUE].status = row.status
        /\ [row EXCEPT !.late = TRUE].secret = row.secret
        /\ [row EXCEPT !.late = TRUE].issued = row.issued
    BY <2>1, DeviceRows
  <2> QED
    BY <2>1, <2>2, <2>3, <2>4, DeviceMoves
<1> QED
  BY <1>1, <1>2 DEF RunOut

LEMMA RowsNext ==
  ASSUME TypeOK, Newest, [Next]_vars
  PROVE  RowsKept
<1>1. CASE UNCHANGED vars
  BY <1>1, RowsUnmoved DEF vars
<1> QED
  BY <1>1, InvitationsKept, MembersKept, DevicesKept, RunOutKept, OthersKeepRows, RowsUnmoved DEF Next

-----------------------------------------------------------------------------
(* What a step may do to sign-ins                                            *)

\* A sign-in stays that of its person and device and is never opened again; a
\* device that was activated only goes on to be revoked.
Forward ==
  /\ session' \in [Sessions -> Session \cup {None}]
  /\ \A s \in Sessions : session[s] # None =>
       /\ session'[s] # None
       /\ session'[s].person = session[s].person
       /\ session'[s].device = session[s].device
       /\ session'[s].open => session[s].open
  /\ \A d \in Devices :
       /\ device[d].status = "REVOKED" => device'[d].status = "REVOKED"
       /\ device[d].status = "ACTIVE" => device'[d].status \in {"ACTIVE", "REVOKED"}

\* Nobody signs in, but sign-ins may end.
Ends == session' = session \/ \E S : session' = Ended(S)

LEMMA EndsForward ==
  ASSUME TypeOK, Ends,
         \A d \in Devices :
           /\ device[d].status = "REVOKED" => device'[d].status = "REVOKED"
           /\ device[d].status = "ACTIVE" => device'[d].status \in {"ACTIVE", "REVOKED"}
  PROVE  Forward
<1>1. session \in [Sessions -> Session \cup {None}]
  BY DEF TypeOK
<1>2. ASSUME NEW S, session' = Ended(S) PROVE Forward
  BY <1>1, <1>2, EndedRows DEF Forward
<1>3. CASE session' = session
  BY <1>1, <1>3 DEF Forward
<1> QED
  BY <1>2, <1>3 DEF Ends

LEMMA DevicesForward ==
  ASSUME TypeOK, [Next]_vars, NEW d \in Devices
  PROVE  /\ device[d].status = "REVOKED" => device'[d].status = "REVOKED"
         /\ device[d].status = "ACTIVE" => device'[d].status \in {"ACTIVE", "REVOKED"}
<1>1. CASE device' = device
  BY <1>1
<1>2. ASSUME NEW e \in Devices, device[e].status \notin {"ACTIVE", "REVOKED"}, NEW row,
             device' = [device EXCEPT ![e] = row]
      PROVE  device[d].status \in {"ACTIVE", "REVOKED"} => device'[d] = device[d]
  BY <1>2 DEF TypeOK
<1>3. ASSUME NEW e \in Devices, register(e)
      PROVE  device[d].status \in {"ACTIVE", "REVOKED"} => device'[d] = device[d]
  BY <1>2, <1>3 DEF register
<1>4. ASSUME NEW e \in Devices, reissueCode(e)
      PROVE  device[d].status \in {"ACTIVE", "REVOKED"} => device'[d] = device[d]
  BY <1>2, <1>4 DEF reissueCode
<1>5. ASSUME NEW c \in Calls, CommitActivate(c)
      PROVE  device[d].status \in {"ACTIVE", "REVOKED"} => device'[d] = device[d]
  <2>1. call[c].device \in Devices
    BY <1>5, CallTyped DEF CommitActivate, At, TypeOK
  <2> QED
    BY <1>2, <1>5, <2>1 DEF CommitActivate, Claimable
<1>6. ASSUME NEW c \in Calls, CommitRevoke(c)
      PROVE  device'[d] = device[d] \/ device'[d].status = "REVOKED"
  <2>1. call[c].device \in Devices
    BY <1>6, CallTyped DEF CommitRevoke, At, TypeOK
  <2>2. \A row \in Device : Done(row, "REVOKED").status = "REVOKED"
    BY DeviceRows
  <2> QED
    BY <1>6, <2>1, <2>2 DEF CommitRevoke, TypeOK
<1>7. ASSUME RunOut PROVE device[d].status \in {"ACTIVE", "REVOKED"} => device'[d] = device[d]
  <2>1. ASSUME NEW e \in Devices, Works(device[e], device[e].secret),
               device' = [device EXCEPT ![e].late = TRUE]
        PROVE  device[d].status \in {"ACTIVE", "REVOKED"} => device'[d] = device[d]
    BY <2>1 DEF Works, TypeOK
  <2> QED
    BY <1>7, <2>1 DEF RunOut
<1>8. CASE Joining
  BY <1>1, <1>8 DEF Joining, resend, revokeInvitation, createMembership, BeginInvite, BeginAccept,
     CommitInvite, CommitAccept
<1>9. CASE Leaving
  BY <1>1, <1>9 DEF Leaving, reactivate, revokeMemberSessions, BeginDeactivate, CommitDeactivate,
     EndSessions
<1>10. CASE Equipping
  <2>1. ASSUME NEW c \in Calls, NEW e \in Devices, BeginActivate(c, e) \/ BeginRevoke(c, e)
        PROVE  device' = device
    BY <2>1 DEF BeginActivate, BeginRevoke
  <2> QED
    BY <1>1, <1>3, <1>4, <1>5, <1>6, <1>10, <2>1 DEF Equipping
<1>11. CASE Signing \/ Approving \/ \E c \in Calls : Abandon(c)
  BY <1>1, <1>11 DEF Signing, logout, CommitLogin, BeginRequest, BeginLogin, CheckDevice, Check,
     Scope, CheckMember, Finish, Approving, setOwn, resetPin, Unlock, BeginVerify, CheckApprover,
     Compare, recordSuccess, recordFailure, Abandon
<1>12. CASE UNCHANGED vars
  BY <1>1, <1>12 DEF vars
<1> QED
  BY <1>7, <1>8, <1>9, <1>10, <1>11, <1>12 DEF Next

LEMMA SignInsNext ==
  ASSUME TypeOK, [Next]_vars
  PROVE  Ends \/ \E c \in Calls, s \in Sessions : CommitLogin(c, s)
<1>1. CASE Joining
  BY <1>1 DEF Joining, resend, revokeInvitation, createMembership, BeginInvite, BeginAccept,
     CommitInvite, CommitAccept, Ends
<1>2. CASE Leaving
  BY <1>2 DEF Leaving, reactivate, revokeMemberSessions, BeginDeactivate, CommitDeactivate,
     EndSessions, Ends
<1>3. CASE Equipping
  <2>1. ASSUME NEW d \in Devices, register(d) \/ reissueCode(d) PROVE Ends
    BY <2>1 DEF register, reissueCode, Ends
  <2>2. ASSUME NEW d \in Devices, NEW c \in Calls, BeginActivate(c, d) \/ BeginRevoke(c, d)
        PROVE  Ends
    BY <2>2 DEF BeginActivate, BeginRevoke, Ends
  <2>3. ASSUME NEW c \in Calls, CommitActivate(c) \/ CommitRevoke(c) PROVE Ends
    BY <2>3 DEF CommitActivate, CommitRevoke, Ends
  <2> QED
    BY <1>3, <2>1, <2>2, <2>3 DEF Equipping
<1>4. CASE Signing
  <2>1. ASSUME NEW s \in Sessions, logout(s) PROVE Ends
    BY <2>1 DEF logout, Ends
  <2>2. ASSUME NEW c \in Calls, CheckDevice(c) \/ Scope(c) \/ CheckMember(c) \/ Finish(c) PROVE Ends
    BY <2>2 DEF CheckDevice, Check, Scope, CheckMember, Finish, Ends
  <2>3. ASSUME NEW c \in Calls, NEW s \in Sessions, NEW d \in Devices \cup {None}, BeginRequest(c, s, d)
        PROVE  Ends
    BY <2>3 DEF BeginRequest, Ends
  <2>4. ASSUME NEW c \in Calls, NEW p \in People, NEW d \in Devices \cup {None}, BeginLogin(c, p, d)
        PROVE  Ends
    BY <2>4 DEF BeginLogin, Ends
  <2> QED
    BY <1>4, <2>1, <2>2, <2>3, <2>4 DEF Signing
<1>5. CASE Approving \/ RunOut \/ \E c \in Calls : Abandon(c)
  BY <1>5 DEF Approving, setOwn, resetPin, Unlock, BeginVerify, CheckApprover, Check, Compare,
     recordSuccess, recordFailure, RunOut, Abandon, Ends
<1>6. CASE UNCHANGED vars
  BY <1>6 DEF vars, Ends
<1> QED
  BY <1>1, <1>2, <1>3, <1>4, <1>5, <1>6 DEF Next

\* The sign-in of a login under way.
LEMMA LoginRow ==
  ASSUME TypeOK, NEW c \in Calls, NEW s \in Sessions, CommitLogin(c, s)
  PROVE  /\ session' \in [Sessions -> Session \cup {None}]
         /\ session[s] = None /\ session'[s] # None
         /\ session'[s].device = call[c].device
         /\ \A r \in Sessions : r # s => session'[r] = session[r]
<1> DEFINE row == [person |-> call[c].person, device |-> call[c].device, open |-> TRUE]
<1>1. call[c].person \in People /\ call[c].device \in Devices \cup {None}
  <2>1. call[c] \in Call /\ call[c].pc = "login"
    BY DEF CommitLogin, At, TypeOK
  <2> QED
    BY <2>1, LoginTyped
<1>2. row \in Session /\ row # None /\ row.device = call[c].device
  <2>1. None \notin Session
    BY NoneAssumption
  <2>2. row \in Session
    BY <1>1 DEF Session
  <2> QED
    BY <2>1, <2>2
<1>3. session' = [session EXCEPT ![s] = row] /\ session[s] = None
  BY DEF CommitLogin
<1> HIDE DEF row
<1> QED
  BY <1>2, <1>3 DEF TypeOK

LEMMA ForwardNext ==
  ASSUME TypeOK, [Next]_vars
  PROVE  Forward
<1>1. ASSUME NEW c \in Calls, NEW s \in Sessions, CommitLogin(c, s) PROVE Forward
  BY <1>1, LoginRow, DevicesForward DEF Forward
<1> QED
  BY <1>1, SignInsNext, DevicesForward, EndsForward

-----------------------------------------------------------------------------
(* What a step may do to requests                                            *)

\* A step writes at most one request, which knows what it says.
CallKept ==
  \/ call' = call
  \/ \E c \in Calls, work \in Call : call' = [call EXCEPT ![c] = work] /\ Sound(work)'

\* What a request knew stays true while others go on.
LEMMA SoundStays ==
  ASSUME TypeOK, Forward, NEW q \in Call, Sound(q)
  PROVE  Sound(q)'
<1>1. CASE q.pc = "login"
  <2>1. q.device \in Devices \cup {None}
    BY <1>1, LoginTyped
  <2> QED
    BY <1>1, <2>1 DEF Forward, Sound, Activated
<1>2. CASE q.pc \in {"device", "scope", "member", "served"}
  <2> DEFINE s == q.session
  <2>1. s \in Sessions /\ session[s] # None
    BY <1>2, CallTyped DEF Sound
  <2>2. session'[s] # None /\ session'[s].device = session[s].device
    BY <2>1 DEF Forward
  <2>3. session[s] \in Session
    BY <2>1 DEF TypeOK
  <2>4. session[s].device \in Devices \cup {None}
    BY <2>3 DEF Session
  <2>5. session[s].device # None /\ device[session[s].device].status = "REVOKED"
          => device'[session[s].device].status = "REVOKED"
    BY <2>4 DEF Forward
  <2> QED
    BY <1>2, <2>1, <2>2, <2>5 DEF Sound
<1>3. CASE q.pc \notin {"login", "device", "scope", "member", "served"}
  BY <1>3 DEF Sound
<1> QED
  BY <1>1, <1>2, <1>3

LEMMA Writes ==
  ASSUME NEW c \in Calls, NEW work \in Call, call' = [call EXCEPT ![c] = work],
         work.pc \notin {"login", "device", "scope", "member", "served"}
  PROVE  CallKept
  BY DEF CallKept, Sound

\* A request that looked at rows which do not change in the same step.
LEMMA Looks ==
  ASSUME NEW c \in Calls, NEW work \in Call, call' = [call EXCEPT ![c] = work],
         Sound(work), UNCHANGED <<device, session>>
  PROVE  CallKept
  BY DEF CallKept, Sound, Activated

LEMMA Answers ==
  ASSUME NEW c \in Calls, Answer(c)
  PROVE  CallKept
  BY Writes, IdleTyped DEF Answer, Goto

LEMMA JoiningCalls ==
  ASSUME TypeOK, Joining
  PROVE  CallKept
<1>1. ASSUME NEW p \in People, resend(p) \/ revokeInvitation(p) \/ createMembership(p) PROVE CallKept
  BY <1>1 DEF resend, revokeInvitation, createMembership, CallKept
<1>2. ASSUME NEW c \in Calls, NEW p \in People, BeginInvite(c, p) PROVE CallKept
  <2>1. [pc |-> "invite", person |-> p] \in Call
    BY DEF Call
  <2> QED
    BY <1>2, <2>1, Writes DEF BeginInvite, Begin
<1>3. ASSUME NEW c \in Calls, NEW p \in People, BeginAccept(c, p) PROVE CallKept
  <2>1. invitation[p].secret \in Numbers
    BY DEF TypeOK, Invitation
  <2>2. [pc |-> "accept", person |-> p, secret |-> invitation[p].secret] \in Call
    BY <2>1 DEF Call
  <2> QED
    BY <1>3, <2>2, Writes DEF BeginAccept, Begin
<1>4. ASSUME NEW c \in Calls, CommitInvite(c) \/ CommitAccept(c) PROVE CallKept
  BY <1>4, Answers DEF CommitInvite, CommitAccept
<1> QED
  BY <1>1, <1>2, <1>3, <1>4 DEF Joining

LEMMA LeavingCalls ==
  ASSUME TypeOK, Leaving
  PROVE  CallKept
<1>1. ASSUME NEW p \in People, reactivate(p) \/ revokeMemberSessions(p) PROVE CallKept
  BY <1>1 DEF reactivate, revokeMemberSessions, CallKept
<1>2. ASSUME NEW c \in Calls, NEW p \in People, BeginDeactivate(c, p) PROVE CallKept
  <2>1. [pc |-> "deactivate", person |-> p, wasActive |-> member[p] = "ACTIVE"] \in Call
    BY DEF Call
  <2> QED
    BY <1>2, <2>1, Writes DEF BeginDeactivate, Begin
<1>3. ASSUME NEW c \in Calls, CommitDeactivate(c) PROVE CallKept
  <2>1. call[c].person \in People
    BY <1>3, CallTyped DEF CommitDeactivate, At, TypeOK
  <2>2. [pc |-> "end", person |-> call[c].person] \in Call
    BY <2>1 DEF Call
  <2> QED
    BY <1>3, <2>2, Writes, Answers DEF CommitDeactivate, Goto
<1>4. ASSUME NEW c \in Calls, EndSessions(c) PROVE CallKept
  BY <1>4, Answers DEF EndSessions
<1> QED
  BY <1>1, <1>2, <1>3, <1>4 DEF Leaving

LEMMA EquippingCalls ==
  ASSUME TypeOK, Equipping
  PROVE  CallKept
<1>1. ASSUME NEW d \in Devices, register(d) \/ reissueCode(d) PROVE CallKept
  BY <1>1 DEF register, reissueCode, CallKept
<1>2. ASSUME NEW c \in Calls, NEW d \in Devices, BeginActivate(c, d) PROVE CallKept
  <2>1. device[d].secret \in Numbers
    BY DEF TypeOK, Device
  <2>2. [pc |-> "activate", device |-> d, secret |-> device[d].secret] \in Call
    BY <2>1 DEF Call
  <2> QED
    BY <1>2, <2>2, Writes DEF BeginActivate, Begin
<1>3. ASSUME NEW c \in Calls, NEW d \in Devices, BeginRevoke(c, d) PROVE CallKept
  <2>1. device[d].status \in {"PENDING", "ACTIVE"}
    BY <1>3 DEF BeginRevoke
  <2>2. [pc |-> "revoke", device |-> d, seen |-> device[d].status] \in Call
    BY <2>1 DEF Call
  <2> QED
    BY <1>3, <2>2, Writes DEF BeginRevoke, Begin
<1>4. ASSUME NEW c \in Calls, CommitActivate(c) \/ CommitRevoke(c) PROVE CallKept
  BY <1>4, Answers DEF CommitActivate, CommitRevoke
<1> QED
  BY <1>1, <1>2, <1>3, <1>4 DEF Equipping

LEMMA SigningCalls ==
  ASSUME TypeOK, Requests, Signing
  PROVE  CallKept
<1>1. ASSUME NEW s \in Sessions, logout(s) PROVE CallKept
  BY <1>1 DEF logout, CallKept
<1>2. ASSUME NEW c \in Calls, NEW s \in Sessions, CommitLogin(c, s) PROVE CallKept
  BY <1>2, Answers DEF CommitLogin
<1>3. ASSUME NEW c \in Calls, NEW p \in People, NEW d \in Devices \cup {None}, BeginLogin(c, p, d)
      PROVE  CallKept
  <2> DEFINE known == authenticate(d)
             work == [pc |-> "login", person |-> p, device |-> known]
  <2>1. known \in Devices \cup {None} /\ (known # None => Activated(known))
    BY DEF authenticate, Activated
  <2>2. call' = [call EXCEPT ![c] = work] /\ UNCHANGED <<device, session>>
    BY <1>3 DEF BeginLogin, Begin
  <2> HIDE DEF known
  <2>3. work \in Call /\ work.pc = "login" /\ work.device = known
    BY <2>1 DEF Call
  <2> HIDE DEF work
  <2>4. Sound(work)
    BY <2>1, <2>2, <2>3 DEF Sound, Activated
  <2> QED
    BY <2>2, <2>3, <2>4, Looks
<1>4. ASSUME NEW c \in Calls, NEW s \in Sessions, NEW d \in Devices \cup {None}, BeginRequest(c, s, d)
      PROVE  CallKept
  <2> DEFINE bound == session[s].device
             pc == IF bound = None THEN "member" ELSE "device"
             fresh == bound = None \/ device[bound].status # "REVOKED"
             work == [pc |-> pc, session |-> s, device |-> d, scope |-> None, fresh |-> fresh]
  <2>1. session[s] # None
    BY <1>4 DEF BeginRequest, Open
  <2>2. call' = [call EXCEPT ![c] = work] /\ UNCHANGED <<device, session>>
    BY <1>4 DEF BeginRequest, Begin
  <2>3. /\ pc \in {"device", "member"} /\ fresh \in BOOLEAN
        /\ pc = "member" => bound = None
        /\ pc = "device" => bound # None /\ (fresh \/ device[bound].status = "REVOKED")
    OBVIOUS
  <2> HIDE DEF pc, fresh
  <2>4. /\ work \in Call /\ work.pc = pc /\ work.session = s /\ work.fresh = fresh
    BY <2>3 DEF Call
  <2> HIDE DEF work
  <2>5. Sound(work)
    BY <2>1, <2>2, <2>3, <2>4 DEF Sound
  <2> QED
    BY <2>2, <2>4, <2>5, Looks
<1>5. ASSUME NEW c \in Calls, CheckDevice(c) PROVE CallKept
  <2> DEFINE q == call[c]
             work == [q EXCEPT !.pc = "scope"]
             bound == session[q.session].device
  <2>1. q \in Call /\ q.pc = "device" /\ Sound(q) /\ UNCHANGED <<device, session>>
    BY <1>5 DEF CheckDevice, At, Check, TypeOK, Requests
  <2>2. /\ authenticate(q.device) = bound /\ call' = [call EXCEPT ![c] = work]
        \/ Answer(c)
    BY <1>5 DEF CheckDevice, Check, Goto
  <2>3. CASE authenticate(q.device) = bound /\ call' = [call EXCEPT ![c] = work]
    <3> HIDE DEF q
    <3>1. session[q.session] # None /\ bound # None /\ (q.fresh \/ device[bound].status = "REVOKED")
      BY <2>1 DEF Sound
    <3>2. q.device = bound /\ device[bound].status = "ACTIVE"
      BY <2>3, <3>1 DEF authenticate
    <3>3. /\ work \in Call /\ work.pc = "scope" /\ work.session = q.session
          /\ work.device = q.device /\ work.fresh = q.fresh
      BY <2>1, GuardedTyped
    <3>4. Sound(work)
      <4> HIDE DEF work
      <4> QED
        BY <2>1, <3>1, <3>2, <3>3 DEF Sound
    <3> QED
      BY <2>1, <2>3, <3>3, <3>4, Looks
  <2> QED
    BY <2>2, <2>3, Answers
<1>6. ASSUME NEW c \in Calls, Scope(c) PROVE CallKept
  <2> DEFINE q == call[c]
             good == authenticate(q.device)
             work == [q EXCEPT !.pc = "member", !.scope = good]
             bound == session[q.session].device
  <2>1. q \in Call /\ q.pc = "scope" /\ Sound(q) /\ UNCHANGED <<device, session>>
    BY <1>6 DEF Scope, At, TypeOK, Requests
  <2>2. call' = [call EXCEPT ![c] = work]
    BY <1>6 DEF Scope, Goto
  <2> HIDE DEF q
  <2>3. session[q.session] # None /\ bound # None /\ q.fresh /\ q.device = bound
    BY <2>1 DEF Sound
  <2>4. q.device \in Devices /\ Activated(q.device)
    <3>1. q.session \in Sessions
      BY <2>1, CallTyped
    <3>2. session[q.session] \in Session
      BY <2>3, <3>1 DEF TypeOK
    <3> QED
      BY <2>3, <3>1, <3>2 DEF Requests, Session
  <2>5. good = bound \/ (good = None /\ device[bound].status = "REVOKED")
    BY <2>3, <2>4 DEF authenticate, Activated
  <2>6. good \in Devices \cup {None}
    BY <2>3, <2>4, <2>5
  <2> HIDE DEF good
  <2>7. /\ work \in Call /\ work.pc = "member" /\ work.session = q.session
        /\ work.scope = good /\ work.fresh = q.fresh
    BY <2>1, <2>6, ScopedTyped
  <2>8. Sound(work)
    <3> HIDE DEF work
    <3> QED
      BY <2>1, <2>3, <2>5, <2>7 DEF Sound
  <2> QED
    BY <2>1, <2>2, <2>7, <2>8, Looks
<1>7. ASSUME NEW c \in Calls, CheckMember(c) PROVE CallKept
  <2> DEFINE q == call[c]
             work == [q EXCEPT !.pc = "served"]
  <2>1. q \in Call /\ q.pc = "member" /\ Sound(q) /\ UNCHANGED <<device, session>>
    BY <1>7 DEF CheckMember, At, Check, TypeOK, Requests
  <2>2. call' = [call EXCEPT ![c] = work] \/ Answer(c)
    BY <1>7 DEF CheckMember, Check, Goto
  <2>3. CASE call' = [call EXCEPT ![c] = work]
    <3> HIDE DEF q
    <3>1. /\ work \in Call /\ work.pc = "served" /\ work.session = q.session
          /\ work.scope = q.scope /\ work.fresh = q.fresh
      BY <2>1, GuardedTyped
    <3>2. Sound(work)
      <4> HIDE DEF work
      <4> QED
        BY <2>1, <3>1 DEF Sound
    <3> QED
      BY <2>1, <2>3, <3>1, <3>2, Looks
  <2> QED
    BY <2>2, <2>3, Answers
<1>8. ASSUME NEW c \in Calls, Finish(c) PROVE CallKept
  BY <1>8, Answers DEF Finish
<1> QED
  BY <1>1, <1>2, <1>3, <1>4, <1>5, <1>6, <1>7, <1>8 DEF Signing

LEMMA ApprovingCalls ==
  ASSUME TypeOK, Approving
  PROVE  CallKept
<1>1. ASSUME NEW p \in People, setOwn(p) \/ resetPin(p) \/ Unlock(p) PROVE CallKept
  BY <1>1 DEF setOwn, resetPin, Unlock, CallKept
<1>2. ASSUME NEW c \in Calls, NEW p \in People, BeginVerify(c, p) PROVE CallKept
  <2>1. [pc |-> "approver", person |-> p] \in Call
    BY DEF Call
  <2> QED
    BY <1>2, <2>1, Writes DEF BeginVerify, Begin
<1>3. ASSUME NEW c \in Calls, call[c].pc \in {"approver", "guess", "right", "wrong"},
             NEW pc \in {"approver", "guess", "right", "wrong"},
             call' = [call EXCEPT ![c] = [call[c] EXCEPT !.pc = pc]]
      PROVE  CallKept
  <2>1. call[c] \in Call
    BY DEF TypeOK
  <2>2. [call[c] EXCEPT !.pc = pc] \in Call /\ [call[c] EXCEPT !.pc = pc].pc = pc
    BY <1>3, <2>1, TryingTyped
  <2> QED
    BY <1>3, <2>2, Writes
<1>4. ASSUME NEW c \in Calls, CheckApprover(c) PROVE CallKept
  BY <1>3, <1>4, Answers DEF CheckApprover, At, Check, Goto
<1>5. ASSUME NEW c \in Calls, Compare(c) PROVE CallKept
  <2>1. PICK result \in {"right", "wrong"} : call' = [call EXCEPT ![c] = [call[c] EXCEPT !.pc = result]]
    BY <1>5 DEF Compare, Goto
  <2> QED
    BY <1>3, <1>5, <2>1 DEF Compare, At
<1>6. ASSUME NEW c \in Calls, recordSuccess(c) \/ recordFailure(c) PROVE CallKept
  BY <1>6, Answers DEF recordSuccess, recordFailure
<1> QED
  BY <1>1, <1>2, <1>4, <1>5, <1>6 DEF Approving

LEMMA CallsNext ==
  ASSUME TypeOK, Requests, [Next]_vars
  PROVE  CallKept
<1>1. ASSUME NEW c \in Calls, Abandon(c) PROVE CallKept
  BY <1>1, Answers DEF Abandon
<1>2. CASE RunOut \/ UNCHANGED vars
  BY <1>2 DEF RunOut, vars, CallKept
<1> QED
  BY <1>1, <1>2, JoiningCalls, LeavingCalls, EquippingCalls, SigningCalls, ApprovingCalls DEF Next

LEMMA RequestsNext ==
  ASSUME TypeOK, Requests, [Next]_vars
  PROVE  call' \in [Calls -> Call] /\ Requests'
<1>1. Forward
  BY ForwardNext
<1>2. call \in [Calls -> Call] /\ \A e \in Calls : Sound(call[e])
  BY DEF TypeOK, Requests
<1>3. call' \in [Calls -> Call]
  BY <1>2, CallsNext DEF CallKept
<1>4. \A q \in Call : Sound(q) => Sound(q)'
  BY <1>1, SoundStays
<1>5. ASSUME NEW e \in Calls PROVE Sound(call[e])'
  <2>1. ASSUME NEW q \in Call, call'[e] = q, Sound(q)' PROVE Sound(call[e])'
    BY <2>1 DEF Sound, Activated
  <2>2. CASE call'[e] = call[e]
    <3>1. PICK q \in Call : call'[e] = q /\ Sound(q)
      BY <1>2, <2>2
    <3> QED
      BY <1>4, <2>1, <3>1
  <2>3. CASE call'[e] # call[e]
    <3>1. PICK c \in Calls, work \in Call : call' = [call EXCEPT ![c] = work] /\ Sound(work)'
      BY <2>3, CallsNext DEF CallKept
    <3>2. call'[e] = work
      BY <1>2, <2>3, <3>1
    <3> QED
      BY <2>1, <3>1, <3>2
  <2> QED
    BY <2>2, <2>3
<1>6. \A s \in Sessions : session'[s] # None /\ session'[s].device # None =>
        device'[session'[s].device].status \in {"ACTIVE", "REVOKED"}
  <2>1. ASSUME NEW d \in Devices, Activated(d) PROVE Activated(d)'
    BY <1>1, <2>1 DEF Forward, Activated
  <2>2. ASSUME NEW s \in Sessions, session[s] # None, session[s].device # None
        PROVE  device'[session'[s].device].status \in {"ACTIVE", "REVOKED"}
    <3>1. session[s].device \in Devices /\ Activated(session[s].device)
      BY <2>2 DEF TypeOK, Session, Requests
    <3>2. PICK d \in Devices : d = session[s].device
      BY <3>1
    <3>3. session'[s].device = d
      BY <1>1, <2>2, <3>2 DEF Forward
    <3> QED
      BY <2>1, <3>1, <3>2, <3>3 DEF Activated
  <2>3. ASSUME NEW c \in Calls, NEW s \in Sessions, CommitLogin(c, s), session'[s].device # None
        PROVE  device'[session'[s].device].status \in {"ACTIVE", "REVOKED"}
    <3>1. call[c].pc = "login" /\ call[c] \in Call
      BY <2>3 DEF CommitLogin, At, TypeOK
    <3>2. session'[s].device = call[c].device
      BY <2>3, LoginRow
    <3>3. call[c].device \in Devices /\ Activated(call[c].device)
      BY <1>2, <2>3, <3>1, <3>2, LoginTyped DEF Sound
    <3>4. PICK d \in Devices : d = call[c].device
      BY <3>3
    <3> QED
      BY <2>1, <3>2, <3>3, <3>4 DEF Activated
  <2>4. ASSUME NEW s \in Sessions, Ends PROVE session'[s] = None <=> session[s] = None
    <3>1. session \in [Sessions -> Session \cup {None}]
      BY DEF TypeOK
    <3>2. ASSUME NEW S, session' = Ended(S) PROVE session'[s] = None <=> session[s] = None
      BY <3>1, <3>2, EndedRows
    <3> QED
      BY <2>4, <3>2 DEF Ends
  <2>5. ASSUME NEW s \in Sessions, session'[s] # None, session'[s].device # None
        PROVE  device'[session'[s].device].status \in {"ACTIVE", "REVOKED"}
    <3>1. CASE session[s] = None
      <4>1. PICK c \in Calls, r \in Sessions : CommitLogin(c, r)
        BY <2>4, <2>5, <3>1, SignInsNext
      <4>2. r = s
        BY <2>5, <3>1, <4>1, LoginRow
      <4> QED
        BY <2>3, <2>5, <4>1, <4>2
    <3>2. CASE session[s] # None
      <4>1. session[s].device # None
        BY <1>1, <2>5, <3>2 DEF Forward
      <4> QED
        BY <2>2, <3>2, <4>1
    <3> QED
      BY <3>1, <3>2
  <2> QED
    BY <2>5
<1> QED
  BY <1>3, <1>5, <1>6 DEF Requests, Activated

-----------------------------------------------------------------------------
(* What is taken away                                                        *)

\* Nobody begins, finishes or gives up closing what a member had open.
LeavesEnding ==
  /\ had' = had /\ kept' = kept
  /\ \A c \in Calls : call[c].pc = "end" => call'[c] = call[c]

LEMMA ElsewhereNoEnding ==
  ASSUME TypeOK, NEW c \in Calls, call[c].pc # "end", NEW work,
         call' = [call EXCEPT ![c] = work], had' = had, kept' = kept
  PROVE  LeavesEnding
  BY DEF LeavesEnding, TypeOK

LEMMA BegunNoEnding ==
  ASSUME TypeOK, NEW c \in Calls, NEW work, Begin(c, work), had' = had, kept' = kept
  PROVE  LeavesEnding
  BY ElsewhereNoEnding, IdleTyped DEF Begin

LEMMA EndingNext ==
  ASSUME TypeOK, [Next]_vars
  PROVE  \/ LeavesEnding
         \/ \E c \in Calls : CommitDeactivate(c) \/ EndSessions(c) \/ Abandon(c)
<1>1. CASE Joining
  <2>1. ASSUME NEW p \in People, resend(p) \/ revokeInvitation(p) \/ createMembership(p)
        PROVE  LeavesEnding
    BY <2>1 DEF resend, revokeInvitation, createMembership, LeavesEnding
  <2>2. ASSUME NEW p \in People, NEW c \in Calls, BeginInvite(c, p) \/ BeginAccept(c, p)
        PROVE  LeavesEnding
    BY <2>2, BegunNoEnding DEF BeginInvite, BeginAccept
  <2>3. ASSUME NEW c \in Calls, CommitInvite(c) \/ CommitAccept(c) PROVE LeavesEnding
    BY <2>3, ElsewhereNoEnding DEF CommitInvite, CommitAccept, At, Answer, Goto
  <2> QED
    BY <1>1, <2>1, <2>2, <2>3 DEF Joining
<1>2. CASE Leaving
  <2>1. ASSUME NEW p \in People, reactivate(p) \/ revokeMemberSessions(p) PROVE LeavesEnding
    BY <2>1 DEF reactivate, revokeMemberSessions, LeavesEnding
  <2>2. ASSUME NEW p \in People, NEW c \in Calls, BeginDeactivate(c, p) PROVE LeavesEnding
    BY <2>2, BegunNoEnding DEF BeginDeactivate
  <2> QED
    BY <1>2, <2>1, <2>2 DEF Leaving
<1>3. CASE Equipping
  <2>1. ASSUME NEW d \in Devices, register(d) \/ reissueCode(d) PROVE LeavesEnding
    BY <2>1 DEF register, reissueCode, LeavesEnding
  <2>2. ASSUME NEW d \in Devices, NEW c \in Calls, BeginActivate(c, d) \/ BeginRevoke(c, d)
        PROVE  LeavesEnding
    BY <2>2, BegunNoEnding DEF BeginActivate, BeginRevoke
  <2>3. ASSUME NEW c \in Calls, CommitActivate(c) \/ CommitRevoke(c) PROVE LeavesEnding
    BY <2>3, ElsewhereNoEnding DEF CommitActivate, CommitRevoke, At, Answer, Goto
  <2> QED
    BY <1>3, <2>1, <2>2, <2>3 DEF Equipping
<1>4. CASE Signing
  <2>1. ASSUME NEW s \in Sessions, logout(s) PROVE LeavesEnding
    BY <2>1 DEF logout, LeavesEnding
  <2>2. ASSUME NEW c \in Calls, NEW s \in Sessions, CommitLogin(c, s) PROVE LeavesEnding
    BY <2>2, ElsewhereNoEnding DEF CommitLogin, At, Answer, Goto
  <2>3. ASSUME NEW c \in Calls, NEW s \in Sessions, NEW d \in Devices \cup {None}, BeginRequest(c, s, d)
        PROVE  LeavesEnding
    BY <2>3, BegunNoEnding DEF BeginRequest
  <2>4. ASSUME NEW c \in Calls, NEW p \in People, NEW d \in Devices \cup {None}, BeginLogin(c, p, d)
        PROVE  LeavesEnding
    BY <2>4, BegunNoEnding DEF BeginLogin
  <2>5. ASSUME NEW c \in Calls, CheckDevice(c) \/ Scope(c) \/ CheckMember(c) \/ Finish(c)
        PROVE  LeavesEnding
    BY <2>5, ElsewhereNoEnding DEF CheckDevice, Scope, CheckMember, Finish, At, Check, Answer, Goto
  <2> QED
    BY <1>4, <2>1, <2>2, <2>3, <2>4, <2>5 DEF Signing
<1>5. CASE Approving
  <2>1. ASSUME NEW p \in People, setOwn(p) \/ resetPin(p) \/ Unlock(p) PROVE LeavesEnding
    BY <2>1 DEF setOwn, resetPin, Unlock, LeavesEnding
  <2>2. ASSUME NEW p \in People, NEW c \in Calls, BeginVerify(c, p) PROVE LeavesEnding
    BY <2>2, BegunNoEnding DEF BeginVerify
  <2>3. ASSUME NEW c \in Calls, CheckApprover(c) \/ Compare(c) \/ recordSuccess(c) \/ recordFailure(c)
        PROVE  LeavesEnding
    BY <2>3, ElsewhereNoEnding DEF CheckApprover, Compare, recordSuccess, recordFailure, At, Check, Answer, Goto
  <2> QED
    BY <1>5, <2>1, <2>2, <2>3 DEF Approving
<1>6. CASE RunOut \/ UNCHANGED vars
  BY <1>6 DEF RunOut, vars, LeavesEnding
<1> QED
  BY <1>1, <1>2, <1>3, <1>4, <1>5, <1>6 DEF Next

LEMMA StaysClosed ==
  ASSUME TypeOK, Forward, Closed, NEW p \in People, had'[p] = had[p], kept'[p] = kept[p],
         \A c \in Calls : call[c] = [pc |-> "end", person |-> p] => call'[c] = call[c]
  PROVE  /\ \A s \in had'[p] : session'[s] # None
         /\ ~Ending(p)' => had'[p] \cap SessionsOf(p)' \subseteq kept'[p]
<1>1. \A s \in had[p] : s \in Sessions /\ session[s] # None
  BY DEF Closed, TypeOK
<1>2. ASSUME ~Ending(p)', NEW s \in had[p], s \in SessionsOf(p)'
      PROVE  s \in kept[p]
  <2>1. had[p] \cap SessionsOf(p) \subseteq kept[p]
    BY <1>2 DEF Closed, Ending
  <2>2. s \in SessionsOf(p)
    BY <1>1, <1>2 DEF SessionsOf, Open, Forward
  <2> QED
    BY <1>2, <2>1, <2>2
<1> QED
  BY <1>1, <1>2 DEF Forward

LEMMA ClosedNext ==
  ASSUME TypeOK, Closed, [Next]_vars
  PROVE  HistoryTyped' /\ Closed'
<1> DEFINE ending(p) == [pc |-> "end", person |-> p]
           closed(p) == /\ \A s \in had'[p] : session'[s] # None
                        /\ ~Ending(p)' => had'[p] \cap SessionsOf(p)' \subseteq kept'[p]
<1>1. Forward
  BY ForwardNext
<1>2. SUFFICES HistoryTyped' /\ \A p \in People : closed(p)
  BY DEF Closed
<1>3. CASE LeavesEnding
  BY <1>1, <1>3, StaysClosed DEF LeavesEnding, TypeOK, HistoryTyped
<1>4. ASSUME NEW c \in Calls, CommitDeactivate(c)
      PROVE  HistoryTyped' /\ \A p \in People : closed(p)
  <2>1. PICK o \in People : call[c].person = o /\ call[c].pc = "deactivate"
    BY <1>4, CallTyped DEF CommitDeactivate, At, TypeOK
  <2> DEFINE out == IF member[o] = "ACTIVE" THEN SessionsOf(o) ELSE {}
  <2>2. out \subseteq SessionsOf(o) /\ out \subseteq Sessions /\ \A s \in out : session[s] # None
    BY DEF SessionsOf, Open
  <2>3. /\ session' = session /\ SessionsOf(o)' = SessionsOf(o)
        /\ had' = [had EXCEPT ![o] = @ \cup out]
    BY <1>4, <2>1 DEF CommitDeactivate, SessionsOf, Open
  <2>4. \/ /\ call' = [call EXCEPT ![c] = ending(o)] /\ kept' = [kept EXCEPT ![o] = @ \ out]
        \/ /\ call' = [call EXCEPT ![c] = Idle] /\ kept' = [kept EXCEPT ![o] = @ \cup out]
    BY <1>4, <2>1 DEF CommitDeactivate, Answer, Goto
  <2>5. HistoryTyped'
    BY <2>1, <2>2, <2>3, <2>4 DEF TypeOK, HistoryTyped
  <2>6. had'[o] = had[o] \cup out /\ \A s \in had'[o] : session'[s] # None
    BY <2>1, <2>2, <2>3 DEF TypeOK, Closed
  <2>7. ASSUME call' = [call EXCEPT ![c] = ending(o)] PROVE closed(o)
    <3>1. Ending(o)'
      BY <2>7 DEF Ending, TypeOK
    <3> QED
      BY <2>6, <3>1
  <2>8. ASSUME call' = [call EXCEPT ![c] = Idle], kept' = [kept EXCEPT ![o] = @ \cup out]
        PROVE  closed(o)
    <3>1. kept'[o] = kept[o] \cup out
      BY <2>1, <2>8 DEF TypeOK
    <3>2. ~Ending(o)' => ~Ending(o)
      BY <2>1, <2>8 DEF Ending, TypeOK
    <3>3. ~Ending(o) => had[o] \cap SessionsOf(o) \subseteq kept[o]
      BY <2>1 DEF Closed
    <3> QED
      BY <2>3, <2>6, <3>1, <3>2, <3>3
  <2>9. closed(o)
    BY <2>4, <2>7, <2>8
  <2>10. ASSUME NEW p \in People, p # o PROVE closed(p)
    <3>1. had'[p] = had[p] /\ kept'[p] = kept[p]
      BY <2>3, <2>4, <2>10 DEF TypeOK
    <3>2. \A e \in Calls : call[e] = ending(p) => call'[e] = call[e]
      BY <2>1, <2>4 DEF TypeOK
    <3> QED
      BY <1>1, <3>1, <3>2, StaysClosed
  <2> QED
    BY <2>5, <2>9, <2>10
<1>5. ASSUME NEW c \in Calls, EndSessions(c)
      PROVE  HistoryTyped' /\ \A p \in People : closed(p)
  <2>1. PICK o \in People : call[c].person = o /\ call[c].pc = "end" /\ call[c] = ending(o)
    BY <1>5, CallTyped DEF EndSessions, At, TypeOK
  <2>2. /\ session' = Ended(SessionsOf(o)) /\ had' = had /\ kept' = kept
        /\ \A e \in Calls : e # c => call'[e] = call[e]
    BY <1>5, <2>1 DEF EndSessions, Answer, Goto, TypeOK
  <2>3. closed(o)
    <3>1. session \in [Sessions -> Session \cup {None}]
      BY DEF TypeOK
    <3>2. ASSUME NEW s \in Sessions, session'[s] # None, session'[s].open, session'[s].person = o
          PROVE  FALSE
      <4>1. session[s] # None
        BY <2>2, <3>1, <3>2, EndedRows
      <4>2. session[s].person = o /\ session[s].open
        BY <1>1, <3>2, <4>1 DEF Forward
      <4>3. s \in SessionsOf(o)
        BY <4>1, <4>2 DEF SessionsOf, Open
      <4> QED
        BY <2>2, <3>1, <3>2, <4>1, <4>3, EndedRows
    <3>3. SessionsOf(o)' = {}
      BY <3>2 DEF SessionsOf, Open
    <3>4. \A s \in had'[o] : session'[s] # None
      BY <1>1, <2>1, <2>2 DEF Closed, Forward, TypeOK
    <3> QED
      BY <3>3, <3>4
  <2>4. ASSUME NEW p \in People, p # o PROVE closed(p)
    <3>1. call[c] # ending(p)
      BY <2>1, <2>4
    <3> QED
      BY <1>1, <2>2, <3>1, StaysClosed
  <2> QED
    BY <2>2, <2>3, <2>4 DEF TypeOK, HistoryTyped
<1>6. ASSUME NEW c \in Calls, Abandon(c)
      PROVE  HistoryTyped' /\ \A p \in People : closed(p)
  <2>1. CASE ~At(c, "end")
    BY <1>3, <1>6, <2>1, ElsewhereNoEnding DEF Abandon, At, Answer, Goto
  <2>2. CASE At(c, "end")
    <3>1. PICK o \in People : call[c].person = o /\ call[c] = ending(o)
      BY <2>2, CallTyped DEF At, TypeOK
    <3>2. /\ had' = [had EXCEPT ![o] = {}] /\ kept' = [kept EXCEPT ![o] = {}]
          /\ \A e \in Calls : e # c => call'[e] = call[e]
      BY <1>6, <2>2, <3>1 DEF Abandon, Answer, Goto, TypeOK
    <3>3. had'[o] = {}
      BY <3>1, <3>2 DEF TypeOK
    <3>4. ASSUME NEW p \in People, p # o PROVE closed(p)
      <4>1. call[c] # ending(p) /\ had'[p] = had[p] /\ kept'[p] = kept[p]
        BY <3>1, <3>2, <3>4 DEF TypeOK
      <4> QED
        BY <1>1, <3>2, <4>1, StaysClosed
    <3> QED
      BY <3>2, <3>3, <3>4 DEF TypeOK, HistoryTyped
  <2> QED
    BY <2>1, <2>2
<1> QED
  BY <1>3, <1>4, <1>5, <1>6, EndingNext

-----------------------------------------------------------------------------
(* Tries at a PIN                                                            *)

\* Nobody begins to try a PIN and no try is counted.
LeavesTries ==
  /\ UNCHANGED <<pin, guesses>>
  /\ \A p \in People : Trying(p)' \subseteq Trying(p)

LEMMA NoneTries ==
  ASSUME UNCHANGED <<pin, guesses, call>>
  PROVE  LeavesTries
  BY DEF LeavesTries, Trying

LEMMA OtherWork ==
  ASSUME TypeOK, NEW c \in Calls, NEW work, work.pc \notin {"approver", "guess", "right", "wrong"},
         call' = [call EXCEPT ![c] = work]
  PROVE  \A p \in People : Trying(p)' \subseteq Trying(p) \ {c}
  BY DEF Trying, TypeOK

LEMMA ElsewhereNoTries ==
  ASSUME TypeOK, NEW c \in Calls, NEW work, work.pc \notin {"approver", "guess", "right", "wrong"},
         call' = [call EXCEPT ![c] = work], UNCHANGED <<pin, guesses>>
  PROVE  LeavesTries
  BY OtherWork DEF LeavesTries

LEMMA AnsweredNoTries ==
  ASSUME TypeOK, NEW c \in Calls, Answer(c), UNCHANGED <<pin, guesses>>
  PROVE  LeavesTries
  BY ElsewhereNoTries, IdleTyped DEF Answer, Goto

LEMMA StillTries ==
  ASSUME TypeOK, NEW c \in Calls, call[c].pc \in {"approver", "guess", "right", "wrong"},
         NEW pc \in {"approver", "guess", "right", "wrong"},
         call' = [call EXCEPT ![c] = [call[c] EXCEPT !.pc = pc]], UNCHANGED <<pin, guesses>>
  PROVE  LeavesTries
<1>1. call[c] \in Call
  BY DEF TypeOK
<1>2. [call[c] EXCEPT !.pc = pc].person = call[c].person
  BY <1>1, TryingTyped
<1>3. \A e \in Calls : call'[e].person = call[e].person /\ (e # c => call'[e] = call[e])
  BY <1>2 DEF TypeOK
<1> QED
  BY <1>3 DEF LeavesTries, Trying

LEMMA TriesNext ==
  ASSUME TypeOK, [Next]_vars
  PROVE  \/ LeavesTries
         \/ \E p \in People : setOwn(p) \/ resetPin(p) \/ Unlock(p)
         \/ \E c \in Calls, p \in People : BeginVerify(c, p)
         \/ \E c \in Calls : recordSuccess(c) \/ recordFailure(c)
<1>1. CASE Joining
  <2>1. ASSUME NEW p \in People, resend(p) \/ revokeInvitation(p) \/ createMembership(p)
        PROVE  LeavesTries
    BY <2>1, NoneTries DEF resend, revokeInvitation, createMembership
  <2>2. ASSUME NEW p \in People, NEW c \in Calls, BeginInvite(c, p) \/ BeginAccept(c, p)
        PROVE  LeavesTries
    BY <2>2, ElsewhereNoTries DEF BeginInvite, BeginAccept, Begin
  <2>3. ASSUME NEW c \in Calls, CommitInvite(c) \/ CommitAccept(c) PROVE LeavesTries
    BY <2>3, AnsweredNoTries DEF CommitInvite, CommitAccept
  <2> QED
    BY <1>1, <2>1, <2>2, <2>3 DEF Joining
<1>2. CASE Leaving
  <2>1. ASSUME NEW p \in People, reactivate(p) \/ revokeMemberSessions(p) PROVE LeavesTries
    BY <2>1, NoneTries DEF reactivate, revokeMemberSessions
  <2>2. ASSUME NEW p \in People, NEW c \in Calls, BeginDeactivate(c, p) PROVE LeavesTries
    <3> DEFINE work == [pc |-> "deactivate", person |-> p, wasActive |-> member[p] = "ACTIVE"]
    <3>1. work.pc = "deactivate" /\ call' = [call EXCEPT ![c] = work] /\ UNCHANGED <<pin, guesses>>
      BY <2>2 DEF BeginDeactivate, Begin
    <3> HIDE DEF work
    <3> QED
      BY <3>1, ElsewhereNoTries
  <2>3. ASSUME NEW c \in Calls, CommitDeactivate(c) \/ EndSessions(c) PROVE LeavesTries
    BY <2>3, AnsweredNoTries, ElsewhereNoTries DEF CommitDeactivate, EndSessions, Goto
  <2> QED
    BY <1>2, <2>1, <2>2, <2>3 DEF Leaving
<1>3. CASE Equipping
  <2>1. ASSUME NEW d \in Devices, register(d) \/ reissueCode(d) PROVE LeavesTries
    BY <2>1, NoneTries DEF register, reissueCode
  <2>2. ASSUME NEW d \in Devices, NEW c \in Calls, BeginActivate(c, d) \/ BeginRevoke(c, d)
        PROVE  LeavesTries
    BY <2>2, ElsewhereNoTries DEF BeginActivate, BeginRevoke, Begin
  <2>3. ASSUME NEW c \in Calls, CommitActivate(c) \/ CommitRevoke(c) PROVE LeavesTries
    BY <2>3, AnsweredNoTries DEF CommitActivate, CommitRevoke
  <2> QED
    BY <1>3, <2>1, <2>2, <2>3 DEF Equipping
<1>4. CASE Signing
  <2>1. ASSUME NEW s \in Sessions, logout(s) PROVE LeavesTries
    BY <2>1, NoneTries DEF logout
  <2>2. ASSUME NEW c \in Calls, NEW s \in Sessions, CommitLogin(c, s) PROVE LeavesTries
    BY <2>2, AnsweredNoTries DEF CommitLogin
  <2>3. ASSUME NEW c \in Calls, NEW s \in Sessions, NEW d \in Devices \cup {None}, BeginRequest(c, s, d)
        PROVE  LeavesTries
    <3> DEFINE pc == IF session[s].device = None THEN "member" ELSE "device"
               fresh == session[s].device = None \/ device[session[s].device].status # "REVOKED"
               work == [pc |-> pc, session |-> s, device |-> d, scope |-> None, fresh |-> fresh]
    <3>1. call' = [call EXCEPT ![c] = work] /\ UNCHANGED <<pin, guesses>> /\ pc \in {"member", "device"}
      BY <2>3 DEF BeginRequest, Begin
    <3> HIDE DEF pc, fresh
    <3>2. work.pc = pc
      OBVIOUS
    <3> HIDE DEF work
    <3> QED
      BY <3>1, <3>2, ElsewhereNoTries
  <2>4. ASSUME NEW c \in Calls, NEW p \in People, NEW d \in Devices \cup {None}, BeginLogin(c, p, d)
        PROVE  LeavesTries
    BY <2>4, ElsewhereNoTries DEF BeginLogin, Begin
  <2>5. ASSUME NEW c \in Calls, CheckDevice(c) \/ Scope(c) \/ CheckMember(c) PROVE LeavesTries
    <3> DEFINE d == authenticate(call[c].device)
    <3>1. call[c] \in Call /\ call[c].pc \in {"device", "scope", "member", "served"}
      BY <2>5 DEF CheckDevice, Scope, CheckMember, At, TypeOK
    <3>2. d \in Devices \cup {None}
      BY <3>1, CallTyped DEF authenticate
    <3>3. \A pc \in {"device", "scope", "member", "served"} : [call[c] EXCEPT !.pc = pc].pc = pc
      BY <3>1, GuardedTyped
    <3>4. call[c].pc = "scope" => [call[c] EXCEPT !.pc = "member", !.scope = d].pc = "member"
      BY <3>1, <3>2, ScopedTyped
    <3>5. CASE CheckDevice(c) \/ CheckMember(c)
      BY <3>3, <3>5, ElsewhereNoTries, AnsweredNoTries DEF CheckDevice, CheckMember, Check, Goto
    <3>6. CASE Scope(c)
      BY <3>4, <3>6, ElsewhereNoTries DEF Scope, At, Goto
    <3> QED
      BY <2>5, <3>5, <3>6
  <2>6. ASSUME NEW c \in Calls, Finish(c) PROVE LeavesTries
    BY <2>6, AnsweredNoTries DEF Finish
  <2> QED
    BY <1>4, <2>1, <2>2, <2>3, <2>4, <2>5, <2>6 DEF Signing
<1>5. CASE Approving
  <2>1. ASSUME NEW c \in Calls, CheckApprover(c) PROVE LeavesTries
    BY <2>1, StillTries, AnsweredNoTries DEF CheckApprover, At, Check, Goto
  <2>2. ASSUME NEW c \in Calls, Compare(c) PROVE LeavesTries
    <3>1. PICK result \in {"right", "wrong"} : call' = [call EXCEPT ![c] = [call[c] EXCEPT !.pc = result]]
      BY <2>2 DEF Compare, Goto
    <3> QED
      BY <2>2, <3>1, StillTries DEF Compare, At
  <2> QED
    BY <1>5, <2>1, <2>2 DEF Approving
<1>6. CASE RunOut \/ UNCHANGED vars
  BY <1>6, NoneTries DEF RunOut, vars
<1>7. ASSUME NEW c \in Calls, Abandon(c) PROVE LeavesTries
  BY <1>7, AnsweredNoTries DEF Abandon
<1> QED
  BY <1>1, <1>2, <1>3, <1>4, <1>5, <1>6, <1>7 DEF Next

LEMMA TryingCounted ==
  ASSUME NEW p \in People
  PROVE  /\ Trying(p) \subseteq Calls /\ IsFiniteSet(Trying(p))
         /\ Cardinality(Trying(p)) \in Nat /\ Cardinality(Calls) \in Nat
         /\ Cardinality(Trying(p)) <= Cardinality(Calls)
<1>1. Trying(p) \subseteq Calls
  BY DEF Trying
<1> QED
  BY <1>1, AccessAssumption, FS_Subset, FS_CardinalityType

\* A request that stops trying is one try less to come.
LEMMA OneTryLess ==
  ASSUME NEW A, NEW B, IsFiniteSet(B), NEW c \in B, A \subseteq B \ {c}
  PROVE  /\ Cardinality(A) \in Nat /\ Cardinality(B) \in Nat
         /\ Cardinality(A) < Cardinality(B)
<1>1. IsFiniteSet(B \ {c}) /\ Cardinality(B \ {c}) = Cardinality(B) - 1
  BY FS_RemoveElement
<1>2. IsFiniteSet(A) /\ Cardinality(A) <= Cardinality(B \ {c})
  BY <1>1, FS_Subset
<1> QED
  BY <1>1, <1>2, FS_CardinalityType

LEMMA WithinFewer ==
  ASSUME NEW row, NEW wrong \in Nat, NEW A, NEW B, IsFiniteSet(B), A \subseteq B,
         Within(row, wrong, B)
  PROVE  Within(row, wrong, A)
<1>1. Cardinality(A) \in Nat /\ Cardinality(B) \in Nat /\ Cardinality(A) <= Cardinality(B)
  BY FS_Subset, FS_CardinalityType
<1>2. MaxTries \in Nat /\ Cardinality(Calls) \in Nat
  BY AccessAssumption, FS_CardinalityType
<1> QED
  BY <1>1, <1>2 DEF Within

LEMMA WithinAnew ==
  ASSUME NEW row, row.tries \in Nat, NEW A, A \subseteq Calls
  PROVE  Within(row, 0, A)
<1>1. Cardinality(A) \in Nat /\ Cardinality(Calls) \in Nat /\ Cardinality(A) <= Cardinality(Calls)
  BY AccessAssumption, FS_Subset, FS_CardinalityType
<1>2. MaxTries \in Nat /\ MaxTries > 0
  BY AccessAssumption
<1> QED
  BY <1>1, <1>2 DEF Within

\* A wrong try on a row: the one that locks it leaves room for all others under
\* way, and each of those is one less to come.
LEMMA WithinCounted ==
  ASSUME NEW row \in Pin, row.set, NEW wrong \in Nat, NEW A, NEW B, B \subseteq Calls,
         NEW c \in B, A \subseteq B \ {c}, Within(row, wrong, B)
  PROVE  Within(Counted(row), wrong + 1, A)
<1>1. IsFiniteSet(B) /\ IsFiniteSet(Calls) /\ c \in Calls /\ A \subseteq Calls \ {c}
  BY AccessAssumption, FS_Subset
<1>2. /\ Cardinality(A) \in Nat /\ Cardinality(B) \in Nat /\ Cardinality(Calls) \in Nat
      /\ Cardinality(A) < Cardinality(B) /\ Cardinality(A) < Cardinality(Calls)
  BY <1>1, OneTryLess
<1>3. MaxTries \in Nat /\ row.tries \in Nat /\ row.locked \in BOOLEAN /\ row.tries < MaxTries
  BY AccessAssumption DEF Pin
<1>4. CASE row.locked
  <2>1. wrong + Cardinality(B) < MaxTries + Cardinality(Calls)
    BY <1>4 DEF Within
  <2>2. wrong + 1 + Cardinality(A) < MaxTries + Cardinality(Calls)
    BY <1>2, <1>3, <2>1
  <2>3. Counted(row).locked
    <3>1. row.tries + 1 >= MaxTries \/ row.tries + 1 < MaxTries
      BY <1>3
    <3> QED
      BY <1>4, <3>1, PinRows
  <2> QED
    BY <2>2, <2>3 DEF Within
<1>5. CASE ~row.locked
  <2>1. wrong <= row.tries
    BY <1>5 DEF Within
  <2>2. CASE row.tries + 1 >= MaxTries
    <3>1. Counted(row).locked
      BY <2>2, PinRows
    <3>2. wrong + 1 + Cardinality(A) < MaxTries + Cardinality(Calls)
      BY <1>2, <1>3, <2>1
    <3> QED
      BY <3>1, <3>2 DEF Within
  <2>3. CASE row.tries + 1 < MaxTries
    <3>1. Counted(row).tries = row.tries + 1 /\ ~Counted(row).locked /\ Counted(row).set
      BY <1>5, <2>3, PinRows
    <3>2. wrong + 1 <= row.tries + 1
      BY <1>3, <2>1
    <3> QED
      BY <3>1, <3>2 DEF Within
  <2> QED
    BY <1>3, <2>2, <2>3
<1> QED
  BY <1>4, <1>5

LEMMA LimitedNext ==
  ASSUME TypeOK, Limited, [Next]_vars
  PROVE  pin' \in [People -> Pin] /\ guesses' \in [People -> Nat] /\ Limited'
<1> DEFINE limited(p) == Within(pin'[p], guesses'[p], Trying(p)')
           typed == pin' \in [People -> Pin] /\ guesses' \in [People -> Nat]
<1>1. SUFFICES typed /\ \A p \in People : limited(p)
  BY DEF Limited, Within
<1>2. pin \in [People -> Pin] /\ guesses \in [People -> Nat]
  BY DEF TypeOK
<1>3. \A p \in People : /\ Within(pin[p], guesses[p], Trying(p))
                        /\ Trying(p) \subseteq Calls /\ IsFiniteSet(Trying(p))
  BY TryingCounted DEF Limited, Within
<1>4. ASSUME NEW p \in People, pin'[p] = pin[p], guesses'[p] = guesses[p],
             Trying(p)' \subseteq Trying(p)
      PROVE  limited(p)
  BY <1>2, <1>3, <1>4, WithinFewer
<1>5. ASSUME NEW p \in People, pin' \in [People -> Pin], guesses' = [guesses EXCEPT ![p] = 0]
      PROVE  guesses' \in [People -> Nat] /\ limited(p)
  <2>1. guesses' \in [People -> Nat] /\ guesses'[p] = 0
    BY <1>2, <1>5
  <2>2. pin'[p].tries \in Nat
    BY <1>5, AccessAssumption DEF Pin
  <2>3. Trying(p)' \subseteq Calls
    BY DEF Trying
  <2>4. Within(pin'[p], 0, Trying(p)')
    BY <2>2, <2>3, WithinAnew
  <2> QED
    BY <2>1, <2>4
<1>6. CASE LeavesTries
  BY <1>2, <1>4, <1>6 DEF LeavesTries
<1>7. ASSUME NEW o \in People, setOwn(o) \/ resetPin(o) \/ Unlock(o)
      PROVE  typed /\ \A p \in People : limited(p)
  <2>1. PICK row \in Pin : pin' = [pin EXCEPT ![o] = row]
    <3>1. 0 \in 0 .. MaxTries - 1
      BY AccessAssumption
    <3>2. [set |-> TRUE, tries |-> 0, locked |-> FALSE] \in Pin /\ NoPin \in Pin
      BY <3>1 DEF Pin, NoPin
    <3>3. pin[o] \in Pin /\ [pin[o] EXCEPT !.locked = FALSE] \in Pin
      BY <1>2, PinRows
    <3>4. CASE setOwn(o)
      BY <3>2, <3>4 DEF setOwn
    <3>5. CASE resetPin(o)
      BY <3>2, <3>5 DEF resetPin
    <3>6. CASE Unlock(o)
      BY <3>3, <3>6 DEF Unlock
    <3> QED
      BY <1>7, <3>4, <3>5, <3>6
  <2>2. guesses' = [guesses EXCEPT ![o] = 0] /\ call' = call
    BY <1>7 DEF setOwn, resetPin, Unlock
  <2>3. pin' \in [People -> Pin] /\ \A p \in People : p # o => pin'[p] = pin[p] /\ guesses'[p] = guesses[p]
    BY <1>2, <2>1, <2>2
  <2>4. \A p \in People : Trying(p)' \subseteq Trying(p)
    BY <2>2 DEF Trying
  <2> QED
    BY <1>4, <1>5, <2>2, <2>3, <2>4
<1>8. ASSUME NEW c \in Calls, NEW o \in People, BeginVerify(c, o)
      PROVE  typed /\ \A p \in People : limited(p)
  <2>1. UNCHANGED <<pin, guesses>> /\ pin[o].set /\ ~pin[o].locked
    BY <1>8 DEF BeginVerify
  <2>2. limited(o)
    BY <1>3, <2>1 DEF Within
  <2>3. ASSUME NEW p \in People, p # o PROVE Trying(p)' \subseteq Trying(p)
    BY <1>8, <2>3 DEF BeginVerify, Begin, Trying, TypeOK
  <2> QED
    BY <1>2, <1>4, <2>1, <2>2, <2>3
<1>9. ASSUME NEW c \in Calls, recordSuccess(c)
      PROVE  typed /\ \A p \in People : limited(p)
  <2>1. PICK o \in People : call[c].person = o
    BY <1>9, CallTyped DEF recordSuccess, At, TypeOK
  <2>2. /\ pin' = [pin EXCEPT ![o].tries = 0, ![o].locked = FALSE]
        /\ guesses' = [guesses EXCEPT ![o] = 0]
        /\ Answer(c)
    BY <1>9, <2>1 DEF recordSuccess
  <2>3. pin' = [pin EXCEPT ![o] = [pin[o] EXCEPT !.tries = 0, !.locked = FALSE]]
    BY <1>2, <2>2
  <2>4. [pin[o] EXCEPT !.tries = 0, !.locked = FALSE] \in Pin
    BY <1>2, PinRows
  <2>5. pin' \in [People -> Pin] /\ \A p \in People : p # o => pin'[p] = pin[p] /\ guesses'[p] = guesses[p]
    BY <1>2, <2>2, <2>3, <2>4
  <2>6. \A p \in People : Trying(p)' \subseteq Trying(p)
    BY <2>2, IdleTyped, OtherWork DEF Answer, Goto
  <2> QED
    BY <1>4, <1>5, <2>2, <2>5, <2>6
<1>10. ASSUME NEW c \in Calls, recordFailure(c)
      PROVE  typed /\ \A p \in People : limited(p)
  <2>1. PICK o \in People : call[c].person = o /\ call[c].pc = "wrong"
    BY <1>10, CallTyped DEF recordFailure, At, TypeOK
  <2>2. /\ pin' = IF pin[o].set THEN [pin EXCEPT ![o] = Counted(pin[o])] ELSE pin
        /\ guesses' = [guesses EXCEPT ![o] = guesses[o] + 1]
        /\ Answer(c)
    BY <1>10, <2>1 DEF recordFailure
  <2>3. Counted(pin[o]) \in Pin
    BY <1>2, PinRows
  <2>4. /\ typed
        /\ guesses'[o] = guesses[o] + 1
        /\ \A p \in People : p # o => pin'[p] = pin[p] /\ guesses'[p] = guesses[p]
    BY <1>2, <2>2, <2>3
  <2>5. \A p \in People : Trying(p)' \subseteq Trying(p) \ {c}
    BY <2>2, IdleTyped, OtherWork DEF Answer, Goto
  <2>6. c \in Trying(o)
    BY <2>1 DEF Trying
  <2>7. limited(o)
    <3>1. CASE pin[o].set
      <4>1. pin'[o] = Counted(pin[o])
        BY <1>2, <2>2, <3>1
      <4>2. Within(Counted(pin[o]), guesses[o] + 1, Trying(o)')
        BY <1>2, <1>3, <2>5, <2>6, <3>1, WithinCounted
      <4> QED
        BY <2>4, <4>1, <4>2
    <3>2. CASE ~pin[o].set
      <4>1. pin'[o] = pin[o]
        BY <2>2, <3>2
      <4>2. guesses[o] + Cardinality(Trying(o)) < MaxTries + Cardinality(Calls)
        BY <1>3, <3>2 DEF Within
      <4>3. /\ Cardinality(Trying(o)') \in Nat /\ Cardinality(Trying(o)) \in Nat
            /\ Cardinality(Trying(o)') < Cardinality(Trying(o))
        BY <1>3, <2>5, <2>6, OneTryLess
      <4>4. guesses[o] \in Nat /\ MaxTries \in Nat /\ Cardinality(Calls) \in Nat
        BY <1>2, AccessAssumption, FS_CardinalityType
      <4>5. guesses[o] + 1 + Cardinality(Trying(o)') < MaxTries + Cardinality(Calls)
        BY <4>2, <4>3, <4>4
      <4> QED
        BY <2>4, <3>2, <4>1, <4>5 DEF Within
    <3> QED
      BY <3>1, <3>2
  <2> QED
    BY <1>4, <2>4, <2>5, <2>7
<1> QED
  BY <1>6, <1>7, <1>8, <1>9, <1>10, TriesNext

-----------------------------------------------------------------------------
(* The inductive invariant                                                   *)

LEMMA InvInit == Init => Inv
<1> SUFFICES ASSUME Init PROVE Inv
  OBVIOUS
<1>1. 0 \in Numbers /\ 0 \in 0 .. MaxTries - 1 /\ 0 \in Nat
  BY AccessAssumption DEF Numbers
<1>2. Blank \in Invitation /\ Blank \in Device /\ NoPin \in Pin
  BY <1>1 DEF Blank, Invitation, Device, NoPin, Pin
<1>3. Blank.status = "NONE" /\ Blank.secret = 0 /\ Blank.issued = 0 /\ ~NoPin.set
  BY DEF Blank, NoPin
<1>4. TypeOK
  BY <1>1, <1>2, <1>3, IdleTyped DEF Init, TypeOK
<1>5. Newest
  BY <1>3 DEF Init, Newest
<1>6. Requests
  BY IdleTyped DEF Init, Requests, Sound
<1>7. Closed
  BY DEF Init, Closed
<1>8. Limited
  <2> SUFFICES ASSUME NEW p \in People PROVE Within(pin[p], guesses[p], Trying(p))
    BY DEF Limited, Within
  <2>1. pin[p] \in Pin /\ guesses[p] = 0 /\ pin[p].tries \in Nat
    BY <1>2, AccessAssumption DEF Init, Pin, NoPin
  <2> QED
    BY <2>1, TryingCounted, WithinAnew
<1> QED
  BY <1>4, <1>5, <1>6, <1>7, <1>8 DEF Inv

LEMMA InvNext == Inv /\ [Next]_vars => Inv'
<1> SUFFICES ASSUME Inv, [Next]_vars PROVE Inv'
  OBVIOUS
<1>1. TypeOK /\ Newest /\ Requests /\ Closed /\ Limited
  BY DEF Inv
<1>2. RowsKept
  BY <1>1, RowsNext
<1>3. session' \in [Sessions -> Session \cup {None}]
  BY <1>1, ForwardNext DEF Forward
<1>4. call' \in [Calls -> Call] /\ Requests'
  BY <1>1, RequestsNext
<1>5. HistoryTyped' /\ Closed'
  BY <1>1, ClosedNext
<1>6. pin' \in [People -> Pin] /\ guesses' \in [People -> Nat] /\ Limited'
  BY <1>1, LimitedNext
<1>7. TypeOK' /\ Newest'
  BY <1>2, <1>3, <1>4, <1>5, <1>6 DEF RowsKept, TypeOK, HistoryTyped
<1> QED
  BY <1>4, <1>5, <1>6, <1>7 DEF Inv

LEMMA InvHolds == Spec => []Inv
  BY InvInit, InvNext, PTL DEF Spec

-----------------------------------------------------------------------------
(* Theorems                                                                  *)

\* Invitations, memberships, devices, sign-ins, PINs and requests keep their
\* types, and an invitation has a link exactly while it waits.
THEOREM TypeCorrect == Spec => []TypeOK
<1>1. Inv => TypeOK
  BY DEF Inv
<1> QED
  BY <1>1, InvHolds, PTL

\* However many open one link or type one code, and however often it is renewed
\* meanwhile, it lets in once, and only the newest does (accept, activate).
THEOREM SecretsWorkOnceTheorem == Spec => SecretsWorkOnce
<1> DEFINE Once == \A x \in People \cup Devices :
             LET row == IF x \in People THEN invitation[x] ELSE device[x]
             IN  used'[x] # used[x] =>
                   used[x] = 0 /\ row.status = "PENDING" /\ used'[x] = row.issued
<1>1. ASSUME Inv, [Next]_vars PROVE [Once]_vars
  <2>1. CASE used' = used
    BY <2>1
  <2>2. ASSUME NEW c \in Calls, CommitAccept(c) PROVE used' = used \/ Once
    <3> DEFINE p == call[c].person
    <3>1. p \in People
      BY <1>1, <2>2, CallTyped DEF Inv, CommitAccept, At, TypeOK
    <3>2. CASE /\ Claimable(invitation[p], call[c].secret) /\ member[p] = "NONE"
               /\ used' = [used EXCEPT ![p] = call[c].secret]
      <4>1. \A x \in People \cup Devices : used'[x] # used[x] => x = p /\ used'[x] = call[c].secret
        BY <1>1, <3>2 DEF Inv, TypeOK
      <4>2. /\ invitation[p].status = "PENDING" /\ invitation[p].issued = call[c].secret
            /\ used[p] = 0
        BY <1>1, <3>1, <3>2 DEF Inv, Newest, Claimable
      <4> QED
        BY <3>1, <4>1, <4>2
    <3> QED
      BY <2>2, <3>2 DEF CommitAccept
  <2>3. ASSUME NEW c \in Calls, CommitActivate(c) PROVE used' = used \/ Once
    <3> DEFINE d == call[c].device
    <3>1. d \in Devices /\ d \notin People
      BY <1>1, <2>3, CallTyped, AccessAssumption DEF Inv, CommitActivate, At, TypeOK
    <3>2. CASE /\ Claimable(device[d], call[c].secret)
               /\ used' = [used EXCEPT ![d] = call[c].secret]
      <4>1. \A x \in People \cup Devices : used'[x] # used[x] => x = d /\ used'[x] = call[c].secret
        BY <1>1, <3>2 DEF Inv, TypeOK
      <4>2. /\ device[d].status = "PENDING" /\ device[d].issued = call[c].secret
            /\ used[d] = 0
        BY <1>1, <3>1, <3>2 DEF Inv, Newest, Claimable
      <4> QED
        BY <3>1, <4>1, <4>2
    <3> QED
      BY <2>3, <3>2 DEF CommitActivate
  <2>4. \/ used' = used
        \/ \E c \in Calls : CommitAccept(c) \/ CommitActivate(c)
    <3>1. CASE Joining
      BY <3>1 DEF Joining, resend, revokeInvitation, createMembership, BeginInvite, BeginAccept, CommitInvite
    <3>2. CASE Leaving
      BY <3>2 DEF Leaving, reactivate, revokeMemberSessions, BeginDeactivate, CommitDeactivate, EndSessions
    <3>3. CASE Equipping
      BY <3>3 DEF Equipping, register, reissueCode, BeginActivate, BeginRevoke, CommitRevoke
    <3>4. CASE Signing \/ Approving \/ \E c \in Calls : Abandon(c)
      BY <1>1, <3>4, OthersKeepRows DEF Inv
    <3>5. CASE RunOut \/ UNCHANGED vars
      BY <3>5 DEF RunOut, vars
    <3> QED
      BY <1>1, <3>1, <3>2, <3>3, <3>4, <3>5 DEF Next
  <2> QED
    BY <2>1, <2>2, <2>3, <2>4
<1> QED
  BY <1>1, InvHolds, PTL DEF Spec, SecretsWorkOnce

\* Of what a member had open when somebody put them out, what the request that
\* did it was there to close is closed unless the process died over it: it stays
\* open only when the request had found no member at all. And no request is
\* served on a device that was revoked before it began, or for another device's
\* outlet, whatever changes between its lookups.
THEOREM TakenAwayTheorem == Spec => []TakenAway
<1>1. Inv => TakenAway
  BY DEF Inv, Closed, Requests, Sound, TakenAway, At
<1> QED
  BY <1>1, InvHolds, PTL

\* However many requests try one PIN at once, the wrong answers given before the
\* lock ends are bounded by the tries allowed and the requests under way.
THEOREM TriesBoundedTheorem == Spec => []TriesBounded
<1>1. ASSUME Inv, NEW p \in People PROVE guesses[p] < MaxTries + Cardinality(Calls)
  <2>1. /\ pin[p] \in Pin /\ guesses[p] \in Nat
        /\ Within(pin[p], guesses[p], Trying(p))
    BY <1>1 DEF Inv, TypeOK, Limited, Within
  <2>2. /\ Cardinality(Trying(p)) \in Nat /\ Cardinality(Calls) \in Nat
    BY TryingCounted
  <2>3. MaxTries \in Nat /\ pin[p].tries \in Nat /\ pin[p].tries < MaxTries
    BY <2>1, AccessAssumption DEF Pin
  <2>4. CASE pin[p].set /\ ~pin[p].locked
    <3>1. guesses[p] <= pin[p].tries
      BY <2>1, <2>4 DEF Within
    <3> QED
      BY <2>1, <2>2, <2>3, <3>1
  <2>5. CASE ~pin[p].set \/ pin[p].locked
    <3>1. guesses[p] + Cardinality(Trying(p)) < MaxTries + Cardinality(Calls)
      BY <2>1, <2>5 DEF Within
    <3> QED
      BY <2>1, <2>2, <2>3, <3>1
  <2> QED
    BY <2>4, <2>5
<1>2. Inv => TriesBounded
  BY <1>1 DEF TriesBounded
<1> QED
  BY <1>2, InvHolds, PTL
=============================================================================
