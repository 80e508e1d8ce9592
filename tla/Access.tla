------------------------------- MODULE Access -------------------------------
(* Who gets into a workspace and how they are put out again: invitations    *)
(* and memberships (core/memberships), the activation of devices            *)
(* (core/devices), sign-ins (core/auth), the checks of a guarded request,   *)
(* and the approval PIN. A request makes its database calls one after the   *)
(* other, and anything may happen in between.                               *)
(*                                                                          *)
(* Links and activation codes are numbers, in the order they were issued.   *)
(* Time is left out: a link or code runs out, a session expires and a lock  *)
(* ends at any moment. So are roles, outlets, entitlements, rate limits and *)
(* disabled users, which only add refusals, mail, and the audit rows.       *)
EXTENDS Naturals, FiniteSets

CONSTANTS
  People,     \* users, each with one email address
  Devices,
  Sessions,   \* sign-ins there may be
  Calls,      \* requests the API works on at a time
  MaxIssued,  \* bound of the instance: links of a person, codes of a device
  MaxTries,   \* APPROVAL_PIN_MAX_ATTEMPTS
  None

ASSUME AccessAssumption ==
  /\ MaxIssued \in Nat
  /\ MaxTries \in Nat \ {0}
  /\ IsFiniteSet(Calls) /\ Calls # {}
  /\ None \notin Devices
  /\ People \cap Devices = {}

VARIABLES
  invitation,  \* core_invitations: the newest one of each person
  member,      \* tenant_memberships.status
  device,      \* core_devices
  session,     \* login_sessions
  pin,         \* core_approval_pins
  call,        \* the requests in flight
  used,        \* the link or code that was accepted, by person and device (history)
  had,         \* sessions open when a member was put out (history)
  kept,        \* those of them the request that did it left alone (history)
  guesses      \* wrong PINs answered since the count last started anew (history)

vars == <<invitation, member, device, session, pin, call, used, had, kept, guesses>>

-----------------------------------------------------------------------------
(* Rows                                                                      *)

Numbers == 0 .. MaxIssued

\* A secret is the hash a row keeps: the number of a link or code, 0 for none.
Invitation ==
  [status : {"NONE", "PENDING", "ACCEPTED", "REVOKED", "EXPIRED"},
   secret : Numbers, issued : Numbers, late : BOOLEAN]

\* An ACTIVE device, and no other, keeps the hash of its one credential.
Device ==
  [status : {"NONE", "PENDING", "ACTIVE", "REVOKED"},
   secret : Numbers, issued : Numbers, late : BOOLEAN]

Session == [person : People, device : Devices \cup {None}, open : BOOLEAN]

ASSUME NoneAssumption == None \notin Session

Pin == [set : BOOLEAN, tries : 0 .. MaxTries - 1, locked : BOOLEAN]

Idle == [pc |-> "idle"]

Call == {Idle}
  \cup [pc : {"invite"}, person : People]
  \cup [pc : {"accept"}, person : People, secret : Numbers]
  \cup [pc : {"activate"}, device : Devices, secret : Numbers]
  \cup [pc : {"revoke"}, device : Devices, seen : {"PENDING", "ACTIVE"}]
  \cup [pc : {"deactivate"}, person : People, wasActive : BOOLEAN]
  \cup [pc : {"end"}, person : People]
  \cup [pc : {"login"}, person : People, device : Devices \cup {None}]
  \cup [pc : {"device", "scope", "member", "served"}, session : Sessions,
        device : Devices \cup {None}, scope : Devices \cup {None}, fresh : BOOLEAN]
  \cup [pc : {"approver", "guess", "right", "wrong"}, person : People]

TypeOK ==
  /\ invitation \in [People -> Invitation]
  /\ member \in [People -> {"NONE", "ACTIVE", "INACTIVE"}]
  /\ device \in [Devices -> Device]
  /\ session \in [Sessions -> Session \cup {None}]
  /\ pin \in [People -> Pin]
  /\ call \in [Calls -> Call]
  /\ used \in [People \cup Devices -> Numbers]
  /\ had \in [People -> SUBSET Sessions]
  /\ kept \in [People -> SUBSET Sessions]
  /\ guesses \in [People -> Nat]
  /\ \A p \in People : (invitation[p].status = "PENDING") = (invitation[p].secret # 0)

Blank == [status |-> "NONE", secret |-> 0, issued |-> 0, late |-> FALSE]
NoPin == [set |-> FALSE, tries |-> 0, locked |-> FALSE]

Init ==
  /\ invitation = [p \in People |-> Blank]
  /\ member \in [People -> {"NONE", "ACTIVE"}]
  /\ device = [d \in Devices |-> Blank]
  /\ session = [s \in Sessions |-> None]
  /\ pin = [p \in People |-> NoPin]
  /\ call = [c \in Calls |-> Idle]
  /\ used = [x \in People \cup Devices |-> 0]
  /\ had = [p \in People |-> {}]
  /\ kept = [p \in People |-> {}]
  /\ guesses = [p \in People |-> 0]

\* A row with a fresh link or code; the old one stops working.
Issue(row) == [status |-> "PENDING", secret |-> row.issued + 1,
               issued |-> row.issued + 1, late |-> FALSE]

\* Slip: the secret stays.
Done_KeepsSecret(row, status) == [row EXCEPT !.status = status, !.late = FALSE]

\* A row whose secret is gone.
Done(row, status) == [row EXCEPT !.status = status, !.secret = 0, !.late = FALSE]

\* A secret that opens the row at this moment.
Works(row, n) == row.status = "PENDING" /\ row.secret = n /\ ~row.late

Open(s) == session[s] # None /\ session[s].open

\* The sessions of S are ended.
Ended(S) ==
  [s \in Sessions |-> IF Open(s) /\ s \in S THEN [session[s] EXCEPT !.open = FALSE]
                                            ELSE session[s]]

SessionsOf(p) == {s \in Sessions : Open(s) /\ session[s].person = p}
SessionsOn(d) == {s \in Sessions : Open(s) /\ session[s].device = d}

Begin(c, work)  == call[c] = Idle /\ call' = [call EXCEPT ![c] = work]
At(c, pc)       == call[c].pc = pc
Goto(c, work)   == call' = [call EXCEPT ![c] = work]
Answer(c)       == Goto(c, Idle)

-----------------------------------------------------------------------------
(* Invitations: invitation.service.ts and its repository                     *)

\* create, up to the insert: no member yet, what ran out is marked so, and none
\* is left open.
BeginInvite(c, p) ==
  LET row == IF invitation[p].late THEN Done(invitation[p], "EXPIRED") ELSE invitation[p]
  IN  /\ member[p] = "NONE"
      /\ row.status # "PENDING"
      /\ invitation' = [invitation EXCEPT ![p] = row]
      /\ Begin(c, [pc |-> "invite", person |-> p])
      /\ UNCHANGED <<member, device, session, pin, used, had, kept, guesses>>

\* create, the insert: the database takes one open invitation of an address.
CommitInvite(c) ==
  LET p == call[c].person
  IN  /\ At(c, "invite")
      /\ invitation[p].issued < MaxIssued
      /\ invitation' = IF invitation[p].status = "PENDING" THEN invitation
                       ELSE [invitation EXCEPT ![p] = Issue(@)]
      /\ Answer(c)
      /\ UNCHANGED <<member, device, session, pin, used, had, kept, guesses>>

\* resend: only an open invitation, run out or not, gets another link.
resend(p) ==
  /\ invitation[p].status = "PENDING"
  /\ invitation[p].issued < MaxIssued
  /\ invitation' = [invitation EXCEPT ![p] = Issue(@)]
  /\ UNCHANGED <<member, device, session, pin, call, used, had, kept, guesses>>

revokeInvitation(p) ==
  /\ invitation[p].status = "PENDING"
  /\ invitation' = [invitation EXCEPT ![p] = Done(@, "REVOKED")]
  /\ UNCHANGED <<member, device, session, pin, call, used, had, kept, guesses>>

\* Time: a link or a code that is not used runs out.
RunOut ==
  /\ \/ \E p \in People :
          /\ Works(invitation[p], invitation[p].secret)
          /\ invitation' = [invitation EXCEPT ![p].late = TRUE]
          /\ UNCHANGED device
     \/ \E d \in Devices :
          /\ Works(device[d], device[d].secret)
          /\ device' = [device EXCEPT ![d].late = TRUE]
          /\ UNCHANGED invitation
  /\ UNCHANGED <<member, session, pin, call, used, had, kept, guesses>>

\* accept, the checks: the link works and the person is no member.
BeginAccept(c, p) ==
  /\ Works(invitation[p], invitation[p].secret)
  /\ member[p] = "NONE"
  /\ Begin(c, [pc |-> "accept", person |-> p, secret |-> invitation[p].secret])
  /\ UNCHANGED <<invitation, member, device, session, pin, used, had, kept, guesses>>

\* Slip: a row that still waits is taken, whichever secret it has by now.
Claimable_Waiting(row, n) == row.status = "PENDING"

\* Slip: the row was looked up when the request came in.
Claimable_Before(row, n) == TRUE

\* What takes a secret: the row still waits for this very one. Whether it ran
\* out is judged by the time the request came in.
Claimable(row, n) == row.status = "PENDING" /\ row.secret = n

\* accept, the transaction: the link is claimed and the membership made, or
\* neither when the person became a member in another way.
CommitAccept(c) ==
  LET p == call[c].person
  IN  /\ At(c, "accept")
      /\ IF Claimable(invitation[p], call[c].secret) /\ member[p] = "NONE"
           THEN /\ invitation' = [invitation EXCEPT ![p] = Done(@, "ACCEPTED")]
                /\ member' = [member EXCEPT ![p] = "ACTIVE"]
                /\ used' = [used EXCEPT ![p] = call[c].secret]
           ELSE UNCHANGED <<invitation, member, used>>
      /\ Answer(c)
      /\ UNCHANGED <<device, session, pin, had, kept, guesses>>

-----------------------------------------------------------------------------
(* Memberships: access.service.ts                                            *)

\* createMembership; the unique key of workspace and person backs its look.
createMembership(p) ==
  /\ member[p] = "NONE"
  /\ member' = [member EXCEPT ![p] = "ACTIVE"]
  /\ UNCHANGED <<invitation, device, session, pin, call, used, had, kept, guesses>>

\* updateMembership to INACTIVE, the look at the membership.
BeginDeactivate(c, p) ==
  /\ member[p] # "NONE"
  /\ Begin(c, [pc |-> "deactivate", person |-> p, wasActive |-> member[p] = "ACTIVE"])
  /\ UNCHANGED <<invitation, member, device, session, pin, used, had, kept, guesses>>

\* updateMembership, the update: it asks nothing of what it finds, and only who
\* had found the membership active goes on to end what the person has open.
CommitDeactivate(c) ==
  LET p   == call[c].person
      out == IF member[p] = "ACTIVE" THEN SessionsOf(p) ELSE {}
  IN  /\ At(c, "deactivate")
      /\ member' = [member EXCEPT ![p] = "INACTIVE"]
      /\ had' = [had EXCEPT ![p] = @ \cup out]
      /\ IF call[c].wasActive
           THEN Goto(c, [pc |-> "end", person |-> p]) /\ kept' = [kept EXCEPT ![p] = @ \ out]
           ELSE Answer(c) /\ kept' = [kept EXCEPT ![p] = @ \cup out]
      /\ UNCHANGED <<invitation, device, session, pin, used, guesses>>

\* Slip: one sign-in is ended.
EndSessions_One(c) ==
  /\ At(c, "end")
  /\ \E s \in Sessions : session' = Ended(SessionsOf(call[c].person) \cap {s})
  /\ Answer(c)
  /\ UNCHANGED <<invitation, member, device, pin, used, had, kept, guesses>>

\* endSessions: every sign-in of the person, on every surface.
EndSessions(c) ==
  /\ At(c, "end")
  /\ session' = Ended(SessionsOf(call[c].person))
  /\ Answer(c)
  /\ UNCHANGED <<invitation, member, device, pin, used, had, kept, guesses>>

\* updateMembership back to ACTIVE, which asks nothing of what it finds.
reactivate(p) ==
  /\ member[p] # "NONE"
  /\ member' = [member EXCEPT ![p] = "ACTIVE"]
  /\ UNCHANGED <<invitation, device, session, pin, call, used, had, kept, guesses>>

revokeMemberSessions(p) ==
  /\ member[p] # "NONE"
  /\ session' = Ended(SessionsOf(p))
  /\ UNCHANGED <<invitation, member, device, pin, call, used, had, kept, guesses>>

-----------------------------------------------------------------------------
(* Devices: device.service.ts and its repository                             *)

register(d) ==
  /\ device[d].status = "NONE"
  /\ MaxIssued > 0
  /\ device' = [device EXCEPT ![d] = Issue(@)]
  /\ UNCHANGED <<invitation, member, session, pin, call, used, had, kept, guesses>>

\* reissueCode: only for a device that was never activated.
reissueCode(d) ==
  /\ device[d].status = "PENDING"
  /\ device[d].issued < MaxIssued
  /\ device' = [device EXCEPT ![d] = Issue(@)]
  /\ UNCHANGED <<invitation, member, session, pin, call, used, had, kept, guesses>>

\* A person types the code that works now.
BeginActivate(c, d) ==
  /\ Works(device[d], device[d].secret)
  /\ Begin(c, [pc |-> "activate", device |-> d, secret |-> device[d].secret])
  /\ UNCHANGED <<invitation, member, device, session, pin, used, had, kept, guesses>>

\* activate: of the devices typing one code, one gets the credential.
CommitActivate(c) ==
  LET d == call[c].device
  IN  /\ At(c, "activate")
      /\ IF Claimable(device[d], call[c].secret)
           THEN /\ device' = [device EXCEPT ![d] = Done(@, "ACTIVE")]
                /\ used' = [used EXCEPT ![d] = call[c].secret]
           ELSE UNCHANGED <<device, used>>
      /\ Answer(c)
      /\ UNCHANGED <<invitation, member, session, pin, had, kept, guesses>>

\* revoke, the read in its transaction.
BeginRevoke(c, d) ==
  /\ device[d].status \in {"PENDING", "ACTIVE"}
  /\ Begin(c, [pc |-> "revoke", device |-> d, seen |-> device[d].status])
  /\ UNCHANGED <<invitation, member, device, session, pin, used, had, kept, guesses>>

\* revoke, the update, only of the status just read, and the sign-ins opened on
\* the device. An activation in between makes the answer "already revoked".
CommitRevoke(c) ==
  LET d == call[c].device
  IN  /\ At(c, "revoke")
      /\ IF device[d].status = call[c].seen
           THEN /\ device' = [device EXCEPT ![d] = Done(@, "REVOKED")]
                /\ session' = Ended(SessionsOn(d))
           ELSE UNCHANGED <<device, session>>
      /\ Answer(c)
      /\ UNCHANGED <<invitation, member, pin, used, had, kept, guesses>>

\* A browser has a device's credential, or none, from an activation.
Carried(d) == d # None => device[d].status \in {"ACTIVE", "REVOKED"}

\* authenticate: the credential is good as long as the device is active.
authenticate(d) == IF d # None /\ device[d].status = "ACTIVE" THEN d ELSE None

-----------------------------------------------------------------------------
(* Signing in and out: auth.service.ts                                       *)

\* login with the right password, on a browser that has device d's credential
\* or none: the device is looked up before the session is made.
BeginLogin(c, p, d) ==
  /\ Carried(d)
  /\ Begin(c, [pc |-> "login", person |-> p, device |-> authenticate(d)])
  /\ UNCHANGED <<invitation, member, device, session, pin, used, had, kept, guesses>>

CommitLogin(c, s) ==
  /\ At(c, "login")
  /\ session[s] = None
  /\ session' = [session EXCEPT ![s] =
       [person |-> call[c].person, device |-> call[c].device, open |-> TRUE]]
  /\ Answer(c)
  /\ UNCHANGED <<invitation, member, device, pin, used, had, kept, guesses>>

\* logout; also the end of a session's lifetime.
logout(s) ==
  /\ Open(s)
  /\ session' = Ended({s})
  /\ UNCHANGED <<invitation, member, device, pin, call, used, had, kept, guesses>>

-----------------------------------------------------------------------------
(* A guarded request: session-permission.guard.ts                            *)

\* getSession, the session of the token. It is remembered whether the device of
\* the session was still in use then (history).
BeginRequest(c, s, d) ==
  /\ Open(s) /\ Carried(d)
  /\ Begin(c, [pc |-> IF session[s].device = None THEN "member" ELSE "device",
               session |-> s, device |-> d, scope |-> None,
               fresh |-> session[s].device = None \/ device[session[s].device].status # "REVOKED"])
  /\ UNCHANGED <<invitation, member, device, session, pin, used, had, kept, guesses>>

\* A request that goes on when the condition holds and is refused otherwise.
Check(c, condition, work) ==
  /\ IF condition THEN Goto(c, work) ELSE Answer(c)
  /\ UNCHANGED <<invitation, member, device, session, pin, used, had, kept, guesses>>

\* Slip: any device of the workspace will do.
CheckDevice_Any(c) ==
  /\ At(c, "device")
  /\ Check(c, authenticate(call[c].device) # None, [call[c] EXCEPT !.pc = "scope"])

\* Slip: the session's device is looked at, not its credential.
CheckDevice_Named(c) ==
  /\ At(c, "device")
  /\ Check(c, call[c].device = session[call[c].session].device, [call[c] EXCEPT !.pc = "scope"])

\* getSession: a session bound to a device needs the credential of that device.
CheckDevice(c) ==
  /\ At(c, "device")
  /\ Check(c, authenticate(call[c].device) = session[call[c].session].device,
           [call[c] EXCEPT !.pc = "scope"])

\* authorize: the device is looked up again for the outlet it is good for.
Scope(c) ==
  /\ At(c, "scope")
  /\ Goto(c, [call[c] EXCEPT !.pc = "member", !.scope = authenticate(call[c].device)])
  /\ UNCHANGED <<invitation, member, device, session, pin, used, had, kept, guesses>>

\* describeAccess: the membership of the session's person.
CheckMember(c) ==
  /\ At(c, "member")
  /\ Check(c, member[session[call[c].session].person] = "ACTIVE", [call[c] EXCEPT !.pc = "served"])

Finish(c) ==
  /\ At(c, "served")
  /\ Answer(c)
  /\ UNCHANGED <<invitation, member, device, session, pin, used, had, kept, guesses>>

-----------------------------------------------------------------------------
(* Approval PINs: approval-pin.service.ts and its repository                 *)

\* setOwn: a new PIN starts with no wrong tries.
setOwn(p) ==
  /\ member[p] = "ACTIVE"
  /\ pin' = [pin EXCEPT ![p] = [set |-> TRUE, tries |-> 0, locked |-> FALSE]]
  /\ guesses' = [guesses EXCEPT ![p] = 0]
  /\ UNCHANGED <<invitation, member, device, session, call, used, had, kept>>

resetPin(p) ==
  /\ pin[p].set
  /\ pin' = [pin EXCEPT ![p] = NoPin]
  /\ guesses' = [guesses EXCEPT ![p] = 0]
  /\ UNCHANGED <<invitation, member, device, session, call, used, had, kept>>

\* Time: the lock ends.
Unlock(p) ==
  /\ pin[p].locked
  /\ pin' = [pin EXCEPT ![p].locked = FALSE]
  /\ guesses' = [guesses EXCEPT ![p] = 0]
  /\ UNCHANGED <<invitation, member, device, session, call, used, had, kept>>

\* verify, the record: there is a PIN, and it is not locked.
BeginVerify(c, p) ==
  /\ pin[p].set /\ ~pin[p].locked
  /\ Begin(c, [pc |-> "approver", person |-> p])
  /\ UNCHANGED <<invitation, member, device, session, pin, used, had, kept, guesses>>

\* verify, mayApprove: the approver is a member.
CheckApprover(c) ==
  /\ At(c, "approver")
  /\ Check(c, member[call[c].person] = "ACTIVE", [call[c] EXCEPT !.pc = "guess"])

\* verify, the comparison with the record that was read.
Compare(c) ==
  /\ At(c, "guess")
  /\ \E result \in {"right", "wrong"} : Goto(c, [call[c] EXCEPT !.pc = result])
  /\ UNCHANGED <<invitation, member, device, session, pin, used, had, kept, guesses>>

\* recordSuccess: the count starts anew and the lock is gone, if there is a PIN.
recordSuccess(c) ==
  LET p == call[c].person
  IN  /\ At(c, "right")
      /\ pin' = [pin EXCEPT ![p].tries = 0, ![p].locked = FALSE]
      /\ guesses' = [guesses EXCEPT ![p] = 0]
      /\ Answer(c)
      /\ UNCHANGED <<invitation, member, device, session, used, had, kept>>

\* Slip: the lock comes one try late.
Counted_OneMore(row) ==
  IF row.tries + 1 > MaxTries THEN [row EXCEPT !.tries = 0, !.locked = TRUE]
                              ELSE [row EXCEPT !.tries = @ + 1]

\* A wrong try on the row as it is then: the last one allowed locks it and
\* starts the count anew.
Counted(row) ==
  IF row.tries + 1 >= MaxTries THEN [row EXCEPT !.tries = 0, !.locked = TRUE]
                               ELSE [row EXCEPT !.tries = @ + 1]

recordFailure(c) ==
  LET p == call[c].person
  IN  /\ At(c, "wrong")
      /\ pin' = IF pin[p].set THEN [pin EXCEPT ![p] = Counted(@)] ELSE pin
      /\ guesses' = [guesses EXCEPT ![p] = @ + 1]
      /\ Answer(c)
      /\ UNCHANGED <<invitation, member, device, session, used, had, kept>>

-----------------------------------------------------------------------------

\* The process dies or loses the database: the request ends where it is.
Abandon(c) ==
  /\ call[c] # Idle
  /\ IF At(c, "end")
       THEN /\ had' = [had EXCEPT ![call[c].person] = {}]
            /\ kept' = [kept EXCEPT ![call[c].person] = {}]
       ELSE UNCHANGED <<had, kept>>
  /\ Answer(c)
  /\ UNCHANGED <<invitation, member, device, session, pin, used, guesses>>

Joining ==
  \/ \E p \in People :
       \/ resend(p) \/ revokeInvitation(p) \/ createMembership(p)
       \/ \E c \in Calls : BeginInvite(c, p) \/ BeginAccept(c, p)
  \/ \E c \in Calls : CommitInvite(c) \/ CommitAccept(c)

Leaving ==
  \/ \E p \in People :
       \/ reactivate(p) \/ revokeMemberSessions(p)
       \/ \E c \in Calls : BeginDeactivate(c, p)
  \/ \E c \in Calls : CommitDeactivate(c) \/ EndSessions(c)

Equipping ==
  \/ \E d \in Devices :
       \/ register(d) \/ reissueCode(d)
       \/ \E c \in Calls : BeginActivate(c, d) \/ BeginRevoke(c, d)
  \/ \E c \in Calls : CommitActivate(c) \/ CommitRevoke(c)

Signing ==
  \/ \E s \in Sessions :
       \/ logout(s)
       \/ \E c \in Calls :
            \/ CommitLogin(c, s)
            \/ \E d \in Devices \cup {None} : BeginRequest(c, s, d)
  \/ \E c \in Calls, p \in People, d \in Devices \cup {None} : BeginLogin(c, p, d)
  \/ \E c \in Calls : CheckDevice(c) \/ Scope(c) \/ CheckMember(c) \/ Finish(c)

Approving ==
  \/ \E p \in People :
       \/ setOwn(p) \/ resetPin(p) \/ Unlock(p)
       \/ \E c \in Calls : BeginVerify(c, p)
  \/ \E c \in Calls :
       CheckApprover(c) \/ Compare(c) \/ recordSuccess(c) \/ recordFailure(c)

Next ==
  \/ Joining \/ Leaving \/ Equipping \/ Signing \/ Approving
  \/ RunOut
  \/ \E c \in Calls : Abandon(c)

Spec == Init /\ [][Next]_vars

-----------------------------------------------------------------------------
(* Properties                                                                *)

\* An invitation link or an activation code lets in once, and only the newest
\* one of its invitation or device that was not withdrawn, also when it was
\* opened or typed before another took its place (accept, activate; resend says
\* "the old one stops working").
SecretsWorkOnce ==
  [][\A x \in People \cup Devices :
       LET row == IF x \in People THEN invitation[x] ELSE device[x]
       IN  used'[x] # used[x] =>
             used[x] = 0 /\ row.status = "PENDING" /\ used'[x] = row.issued]_vars

\* Somebody who found the person a member is about to end what they have open.
Ending(p) == \E c \in Calls : call[c] = [pc |-> "end", person |-> p]

\* Taking someone out of the workspace ends what they have open right now, as
\* the comment in updateMembership says: what a member had open when somebody
\* put them out is closed, unless that is still being done or the process died
\* over it.
PutOutIsClosed ==
  \A p \in People : ~Ending(p) => had[p] \cap SessionsOf(p) = {}

\* Nobody stays in with what was taken away. Of what a member had open when
\* somebody put them out nothing stays open, once nobody is ending it and unless
\* the process died over it, but what the request that did it had no eye for:
\* it had found no member, and somebody made the person one again before it
\* wrote. And a request on a device's session is served only if the device was
\* in use when the request began, and for that device's outlet, unless the
\* device was revoked while the request was under way (updateMembership,
\* getSession, authorize).
TakenAway ==
  /\ \A p \in People : ~Ending(p) => had[p] \cap SessionsOf(p) \subseteq kept[p]
  /\ \A c \in Calls : At(c, "served") =>
       LET bound == session[call[c].session].device
       IN  bound # None =>
             call[c].fresh /\ (call[c].scope = bound \/ device[bound].status = "REVOKED")

\* However many try an approver's PIN at once, no more of them are told that it
\* was wrong before the lock ends, a new PIN is set or someone has it right than
\* the tries allowed and one for each other request under way when the PIN is
\* locked (verify, recordFailure).
TriesBounded ==
  \A p \in People : guesses[p] < MaxTries + Cardinality(Calls)
=============================================================================
