---------------------------- MODULE FloorVisits ----------------------------
(* Guests at the tables of one outlet (modules/floor): staff seat, move and *)
(* close visits, clean and set aside tables and manage their QR codes;      *)
(* guests order from a table's QR, which opens a visit when nobody sits     *)
(* there, and call staff. Every command reads first and writes later in a   *)
(* transaction of its own; the unique indexes and the rows a transaction    *)
(* locks are all that is between two of them.                               *)
(*                                                                          *)
(* The payment and moderation of orders is in SalesLedger: here an order is *)
(* settled at some moment. Floors and areas are set aside only without      *)
(* active tables, so a table is in service or not, whatever the reason.     *)
EXTENDS Naturals, Sequences, FiniteSets, FiniteSetsExt

CONSTANTS
  Tables,       \* service tables of the outlet
  Visits,       \* table sessions that may be opened
  Keys,         \* idempotency keys of orders, one for each thing a guest asks for
  Calls,        \* requests in progress at the same time
  MaxVersions,  \* bound of the instance: QR codes made for one table
  None          \* no table, no visit

ASSUME FloorAssumption == MaxVersions \in Nat /\ None \notin Tables \cup Visits

VARIABLES
  visit,      \* floor_table_sessions
  held,       \* floor_session_tables with detached_at null: <<visit, table>>
  inService,  \* tables that are active, on an active area and floor
  cleaning,   \* floor_outlet_policies.cleaning_after_close
  qr,         \* floor_qr_tokens: the status of each version of a table's code
  order,      \* order_orders by idempotency key: the visit and who ordered
  settled,    \* keys of orders that are paid or canceled
  asked,      \* floor_service_requests with status OPEN: visits
  call        \* what each request in progress has read

rooms == <<visit, held, inService, cleaning>>

vars == <<rooms, qr, order, settled, asked, call>>

-----------------------------------------------------------------------------
(* Types                                                                     *)

Visit == [status : {"NONE", "OPEN", "CLOSED"}, number : Nat,
          needsCleaning : BOOLEAN, cleaned : BOOLEAN]

Idle == [pc |-> "idle", guest |-> FALSE, visit |-> None, table |-> None,
         key |-> None, read |-> 0]

Call == [pc : {"idle", "number", "insert", "again", "move", "close", "clean",
               "aside", "generate", "rotate", "revoke", "seat", "order", "look", "ask"},
         guest : BOOLEAN, visit : Visits \cup {None}, table : Tables \cup {None},
         key : Keys \cup {None}, read : Nat]

TypeOK ==
  /\ visit \in [Visits -> Visit]
  /\ held \subseteq Visits \X Tables
  /\ inService \subseteq Tables
  /\ cleaning \in BOOLEAN
  /\ qr \in [Tables -> Seq({"ACTIVE", "ROTATED", "REVOKED"})]
  /\ order \in [Keys -> [visit : Visits \cup {None}, guest : BOOLEAN]]
  /\ settled \subseteq {k \in Keys : order[k].visit # None}
  /\ asked \subseteq Visits
  /\ call \in [Calls -> Call]

Init ==
  /\ visit = [v \in Visits |-> [status |-> "NONE", number |-> 0,
                                needsCleaning |-> FALSE, cleaned |-> FALSE]]
  /\ held = {}
  /\ inService = Tables
  /\ cleaning \in BOOLEAN
  /\ qr \in [Tables -> {<<>>, <<"ACTIVE">>}]
  /\ order = [k \in Keys |-> [visit |-> None, guest |-> FALSE]]
  /\ settled = {}
  /\ asked = {}
  /\ call = [c \in Calls |-> Idle]

-----------------------------------------------------------------------------
(* What is read                                                              *)

\* The visits attached to a table and not let go (at most one, by the partial
\* unique index on the table).
holderOf(t) == {v \in Visits : <<v, t>> \in held}

\* The rows of a visit.
rowsOf(v) == {row \in held : row[1] = v}

\* findTable: nobody holds the table and it is in service.
Available(t) == holderOf(t) = {} /\ t \in inService

Opened == {v \in Visits : visit[v].status # "NONE"}

Numbers == {visit[v].number : v \in Opened}

\* Every order of the visit is paid or canceled.
ensureSettled(v) == \A k \in Keys : order[k].visit = v => k \in settled

\* The versions of a table's code that work.
Working(t) == {i \in DOMAIN qr[t] : qr[t][i] = "ACTIVE"}

\* A request that has read what it needs and goes on with what it read.
Begin(c, read) ==
  /\ call[c] = Idle
  /\ call' = [call EXCEPT ![c] = read]

Continue(c, pc) == call' = [call EXCEPT ![c].pc = pc]

End(c) == call' = [call EXCEPT ![c] = Idle]

-----------------------------------------------------------------------------
(* Seating                                                                   *)

\* Staff seat guests at a table they see free.
BeginOpen(c, t) ==
  /\ Available(t)
  /\ Begin(c, [Idle EXCEPT !.pc = "number", !.table = t])
  /\ UNCHANGED <<rooms, qr, order, settled, asked>>

\* The transaction of a visit first reads the largest display number.
ReadNumber(c) ==
  /\ call[c].pc = "number"
  /\ call' = [call EXCEPT ![c].pc = "insert", ![c].read = Max(Numbers \cup {0}) + 1]
  /\ UNCHANGED <<rooms, qr, order, settled, asked>>

\* Slip: no unique index on the active table.
Accepted_TwoHolders(c) == call[c].read \notin Numbers

\* Slip: no unique index on the display number.
Accepted_AnyNumber(c) == holderOf(call[c].table) = {}

\* What the unique indexes accept: a table nobody holds and a fresh number.
Accepted(c) == holderOf(call[c].table) = {} /\ call[c].read \notin Numbers

\* The visit and its table are inserted, or a unique index refuses: staff are
\* told that the table is taken, a guest looks again who sits there.
InsertVisit(c, v) ==
  /\ call[c].pc = "insert"
  /\ visit[v].status = "NONE"
  /\ IF Accepted(c)
     THEN /\ visit' = [visit EXCEPT ![v].status = "OPEN", ![v].number = call[c].read]
          /\ held' = held \cup {<<v, call[c].table>>}
          /\ IF call[c].guest
             THEN call' = [call EXCEPT ![c].pc = "order", ![c].visit = v]
             ELSE End(c)
     ELSE /\ IF call[c].guest THEN Continue(c, "again") ELSE End(c)
          /\ UNCHANGED <<visit, held>>
  /\ UNCHANGED <<inService, cleaning, qr, order, settled, asked>>

\* Staff move the guests of an open visit to a table they see free.
BeginMove(c, v, t) ==
  /\ visit[v].status = "OPEN"
  /\ Available(t)
  /\ Begin(c, [Idle EXCEPT !.pc = "move", !.visit = v, !.table = t])
  /\ UNCHANGED <<rooms, qr, order, settled, asked>>

\* Slip: the table the guests leave is not let go.
Moved_KeepsOld(v, t) == held \cup {<<v, t>>}

Moved(v, t) == (held \ rowsOf(v)) \cup {<<v, t>>}

\* The update locks the visit; the row of a closed one is not found, and a
\* table that another visit holds by now is refused by the index.
CommitMove(c) ==
  LET v == call[c].visit
      t == call[c].table IN
  /\ call[c].pc = "move"
  /\ IF visit[v].status = "OPEN" /\ holderOf(t) \subseteq {v}
     THEN held' = Moved(v, t)
     ELSE UNCHANGED held
  /\ End(c)
  /\ UNCHANGED <<visit, inService, cleaning, qr, order, settled, asked>>

\* Staff close a visit that owes nothing; the outlet's policy is read before
\* the transaction.
BeginClose(c, v) ==
  /\ visit[v].status = "OPEN"
  /\ ensureSettled(v)
  /\ Begin(c, [Idle EXCEPT !.pc = "close", !.visit = v,
                           !.read = IF cleaning THEN 1 ELSE 0])
  /\ UNCHANGED <<rooms, qr, order, settled, asked>>

\* Slip: closing does not look whether the visit was closed meanwhile.
Closable_Again(v) == ensureSettled(v)

\* With the visit locked: it is still open and still owes nothing.
Closable(v) == ensureSettled(v) /\ visit[v].status = "OPEN"

\* Without cleaning the table is free at once.
CommitClose(c) ==
  LET v == call[c].visit
      needsCleaning == call[c].read = 1 IN
  /\ call[c].pc = "close"
  /\ IF Closable(v)
     THEN /\ visit' = [visit EXCEPT ![v].status = "CLOSED",
                                    ![v].needsCleaning = needsCleaning]
          /\ held' = IF needsCleaning THEN held ELSE held \ rowsOf(v)
     ELSE UNCHANGED <<visit, held>>
  /\ End(c)
  /\ UNCHANGED <<inService, cleaning, qr, order, settled, asked>>

\* The visit whose table waits to be cleaned.
BeginClean(c, t) ==
  /\ \E v \in holderOf(t) :
       /\ visit[v].status = "CLOSED" /\ visit[v].needsCleaning /\ ~visit[v].cleaned
       /\ Begin(c, [Idle EXCEPT !.pc = "clean", !.visit = v, !.table = t])
  /\ UNCHANGED <<rooms, qr, order, settled, asked>>

\* Slip: whoever is at the table by now loses it.
Cleaned_Table(c) == {row \in held : row[2] = call[c].table}

\* The rows of the visit that was found are let go, whatever happened since.
Cleaned(c) == rowsOf(call[c].visit)

CommitClean(c) ==
  /\ call[c].pc = "clean"
  /\ visit' = [visit EXCEPT ![call[c].visit].cleaned = TRUE]
  /\ held' = held \ Cleaned(c)
  /\ End(c)
  /\ UNCHANGED <<inService, cleaning, qr, order, settled, asked>>

\* The policy is read, merged with the change and written back whole: a change
\* of the other setting writes the cleaning policy it read.
setPolicy ==
  /\ cleaning' = ~cleaning
  /\ UNCHANGED <<visit, held, inService, qr, order, settled, asked, call>>

-----------------------------------------------------------------------------
(* Tables in and out of service                                              *)

\* The layout is saved with a table set aside: nobody holds it when looked at.
BeginSetAside(c, t) ==
  /\ t \in inService /\ holderOf(t) = {}
  /\ Begin(c, [Idle EXCEPT !.pc = "aside", !.table = t])
  /\ UNCHANGED <<rooms, qr, order, settled, asked>>

\* The layout is written without looking again.
CommitSetAside(c) ==
  /\ call[c].pc = "aside"
  /\ inService' = inService \ {call[c].table}
  /\ End(c)
  /\ UNCHANGED <<visit, held, cleaning, qr, order, settled, asked>>

restore(t) ==
  /\ t \notin inService
  /\ inService' = inService \cup {t}
  /\ UNCHANGED <<visit, held, cleaning, qr, order, settled, asked, call>>

-----------------------------------------------------------------------------
(* QR codes                                                                  *)

\* Staff ask for the code of a table: one that works is shown, else one is made.
BeginGenerate(c, t) ==
  /\ Len(qr[t]) < MaxVersions
  /\ Len(qr[t]) \notin Working(t)
  /\ Begin(c, [Idle EXCEPT !.pc = "generate", !.table = t])
  /\ UNCHANGED <<rooms, qr, order, settled, asked>>

\* Slip: no unique index on the working code.
CommitGenerate_Second(c) ==
  LET t == call[c].table IN
  /\ call[c].pc = "generate"
  /\ qr' = IF Len(qr[t]) < MaxVersions THEN [qr EXCEPT ![t] = Append(@, "ACTIVE")] ELSE qr
  /\ End(c)
  /\ UNCHANGED <<rooms, order, settled, asked>>

\* A second working code is refused by the partial unique index.
CommitGenerate(c) ==
  LET t == call[c].table IN
  /\ call[c].pc = "generate"
  /\ qr' = IF Working(t) = {} /\ Len(qr[t]) < MaxVersions
           THEN [qr EXCEPT ![t] = Append(@, "ACTIVE")] ELSE qr
  /\ End(c)
  /\ UNCHANGED <<rooms, order, settled, asked>>

\* The working code is found first, to be replaced or taken back.
BeginRetire(c, t, pc) ==
  /\ \E i \in Working(t) : Begin(c, [Idle EXCEPT !.pc = pc, !.table = t, !.read = i])
  /\ UNCHANGED <<rooms, qr, order, settled, asked>>

\* Slip: the code that was found is retired as it is.
Retirable_Found(t, i) == TRUE

\* Only a code that still works is rotated.
Retirable(t, i) == qr[t][i] = "ACTIVE"

CommitRotate(c) ==
  LET t == call[c].table IN
  /\ call[c].pc = "rotate"
  /\ qr' = IF Retirable(t, call[c].read) /\ Len(qr[t]) < MaxVersions
           THEN [qr EXCEPT ![t] = Append([@ EXCEPT ![call[c].read] = "ROTATED"], "ACTIVE")]
           ELSE qr
  /\ End(c)
  /\ UNCHANGED <<rooms, order, settled, asked>>

\* Slip: no check constraint ties the status ROTATED to its time.
Revocable_Rotated(t, i) == TRUE

\* The row is written by its id; one that was rotated meanwhile is refused by
\* the check constraint that ties the status ROTATED to its time.
Revocable(t, i) == qr[t][i] # "ROTATED"

CommitRevoke(c) ==
  LET t == call[c].table IN
  /\ call[c].pc = "revoke"
  /\ qr' = IF Revocable(t, call[c].read)
           THEN [qr EXCEPT ![t][call[c].read] = "REVOKED"] ELSE qr
  /\ End(c)
  /\ UNCHANGED <<rooms, order, settled, asked>>

-----------------------------------------------------------------------------
(* Guests                                                                    *)

\* A guest's request comes with the token of a working code of a table in
\* service: to order (with a key, which a repetition keeps) or to call staff.
scan(c, t, k, pc) ==
  /\ Working(t) # {} /\ t \in inService
  /\ Begin(c, [Idle EXCEPT !.pc = pc, !.guest = TRUE, !.table = t, !.key = k])
  /\ UNCHANGED <<rooms, qr, order, settled, asked>>

\* The guests of a visit order on it; a closed one keeps the table until it is
\* cleaned; when nobody is there, a visit is opened.
seat(c) ==
  LET t == call[c].table IN
  /\ call[c].pc = "seat"
  /\ \/ /\ holderOf(t) = {}
        /\ Continue(c, "number")
     \/ \E v \in holderOf(t) :
          IF visit[v].status = "OPEN"
          THEN call' = [call EXCEPT ![c].pc = "order", ![c].visit = v]
          ELSE End(c)
  /\ UNCHANGED <<rooms, qr, order, settled, asked>>

\* Someone else was faster: the guest joins whoever sits there now.
seatAgain(c) ==
  LET t == call[c].table IN
  /\ call[c].pc = "again"
  /\ IF \E v \in holderOf(t) : visit[v].status = "OPEN"
     THEN \E v \in holderOf(t) :
            call' = [call EXCEPT ![c].pc = "order", ![c].visit = v]
     ELSE End(c)
  /\ UNCHANGED <<rooms, qr, order, settled, asked>>

\* Staff take an order for a visit they see open.
BeginAddOrder(c, v, k) ==
  /\ visit[v].status = "OPEN"
  /\ Begin(c, [Idle EXCEPT !.pc = "order", !.visit = v, !.key = k])
  /\ UNCHANGED <<rooms, qr, order, settled, asked>>

\* With the visit locked: it is still open.
ensureOpen(v) == visit[v].status = "OPEN"

\* A used key is answered with its order when this visit and this kind of request
\* are the order's own, and refused as the key of another order otherwise.
Replayed(c) == order[call[c].key] = [visit |-> call[c].visit, guest |-> call[c].guest]

\* A key that is not used yet places the order; a used one places nothing and is
\* answered with its order or refused (Replayed).
createSubmitted(c) ==
  LET k == call[c].key
      v == call[c].visit IN
  /\ call[c].pc = "order"
  /\ order' = IF order[k].visit = None /\ ensureOpen(v)
              THEN [order EXCEPT ![k] = [visit |-> v, guest |-> call[c].guest]]
              ELSE order
  /\ End(c)
  /\ UNCHANGED <<rooms, qr, settled, asked>>

\* Slip: nobody at the table is not noticed.
openVisit_Anyone(c) ==
  /\ call[c].pc = "look"
  /\ IF holderOf(call[c].table) = {}
     THEN Continue(c, "ask")
     ELSE \E v \in holderOf(call[c].table) :
            call' = [call EXCEPT ![c].pc = "ask", ![c].visit = v]
  /\ UNCHANGED <<rooms, qr, order, settled, asked>>

\* Guests without an open visit have nothing to ask for.
openVisit(c) ==
  /\ call[c].pc = "look"
  /\ IF \E v \in holderOf(call[c].table) : visit[v].status = "OPEN"
     THEN \E v \in holderOf(call[c].table) :
            call' = [call EXCEPT ![c].pc = "ask", ![c].visit = v]
     ELSE End(c)
  /\ UNCHANGED <<rooms, qr, order, settled, asked>>

\* One open request per visit; the visit is not looked at again.
ask(c) ==
  /\ call[c].pc = "ask"
  /\ asked' = asked \cup {call[c].visit}
  /\ End(c)
  /\ UNCHANGED <<rooms, qr, order, settled>>

\* Staff came to the table.
finishRequest(v) ==
  /\ v \in asked
  /\ asked' = asked \ {v}
  /\ UNCHANGED <<rooms, qr, order, settled, call>>

\* An order is paid or canceled: the moment at which the commands that SalesLedger
\* takes apart have done it.
settle(k) ==
  /\ order[k].visit # None
  /\ settled' = settled \cup {k}
  /\ UNCHANGED <<rooms, qr, order, asked, call>>

-----------------------------------------------------------------------------
(* The specification                                                         *)

Staff(c) ==
  \/ \E t \in Tables :
       \/ BeginOpen(c, t)
       \/ BeginClean(c, t)
       \/ BeginSetAside(c, t)
       \/ BeginGenerate(c, t)
       \/ BeginRetire(c, t, "rotate")
       \/ BeginRetire(c, t, "revoke")
  \/ \E v \in Visits :
       \/ \E t \in Tables : BeginMove(c, v, t)
       \/ \E k \in Keys : BeginAddOrder(c, v, k)
       \/ BeginClose(c, v)
  \/ CommitMove(c)
  \/ CommitClose(c)
  \/ CommitClean(c)
  \/ CommitSetAside(c)
  \/ CommitGenerate(c)
  \/ CommitRotate(c)
  \/ CommitRevoke(c)

Guest(c) ==
  \/ \E t \in Tables :
       \/ \E k \in Keys : scan(c, t, k, "seat")
       \/ scan(c, t, None, "look")
  \/ seat(c)
  \/ seatAgain(c)
  \/ openVisit(c)
  \/ ask(c)

Next ==
  \/ \E c \in Calls :
       \/ Staff(c)
       \/ Guest(c)
       \/ ReadNumber(c)
       \/ \E v \in Visits : InsertVisit(c, v)
       \/ createSubmitted(c)
  \/ setPolicy
  \/ \E t \in Tables : restore(t)
  \/ \E v \in Visits : finishRequest(v)
  \/ \E k \in Keys : settle(k)

Spec == Init /\ [][Next]_vars

-----------------------------------------------------------------------------
(* Properties                                                                *)

\* Display numbers count the visits of the outlet: every visit has its own and
\* none is skipped, although the next one is read before it is written.
NumbersDense ==
  /\ Numbers = 1 .. Cardinality(Opened)
  /\ Cardinality(Numbers) = Cardinality(Opened)

\* What was printed earlier never leads to a table again: whatever staff ask for
\* at the same moment, at most the newest code of a table works, and a code that
\* was taken out of use keeps its state for good.
QrRetired ==
  [][\A t \in Tables :
       /\ Working(t)' \subseteq {Len(qr'[t])}
       /\ \A i \in DOMAIN qr[t] : qr[t][i] # "ACTIVE" => qr'[t][i] = qr[t][i]]_vars

\* How the floor screen shows a visit (tableStatus): while it is open its table
\* is occupied, and after that for as long as it waits to be cleaned.
shown(v) ==
  [state |-> CASE visit[v].status = "NONE" -> "EXPECTED"
               [] visit[v].status = "OPEN" -> "OCCUPIED"
               [] visit[v].status = "CLOSED" /\ visit[v].needsCleaning
                                             /\ ~visit[v].cleaned -> "CLEANING"
               [] OTHER -> "OVER",
   table |-> IF \E t \in Tables : rowsOf(v) = {<<v, t>>}
               THEN CHOOSE t \in Tables : rowsOf(v) = {<<v, t>>} ELSE None]

\* The table rows and the visits, written by different commands, always tell
\* the same story: guests have one table of their own from the moment they are
\* seated until they leave, and the table is kept for its cleaning and no
\* longer.
Promise == INSTANCE Seating WITH place <- [v \in Visits |-> shown(v)]

Promised == Promise!Spec

\* A guest who repeats an order under its key is answered with the order: "replays
\* retain their original snapshot, even after a visit closes" (createSubmitted).
RepeatIsAnswered ==
  [][\A c \in Calls :
       (/\ call[c].pc = "order" /\ call[c].guest /\ call'[c] = Idle
        /\ order[call[c].key].guest)
       => Replayed(c)]_vars
=============================================================================
