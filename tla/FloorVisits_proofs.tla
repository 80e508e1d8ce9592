------------------------- MODULE FloorVisits_proofs -------------------------
(* Safety of FloorVisits for any number of tables, visits, keys and requests *)
(* in progress. The inductive invariant says what a request knows, although *)
(* everything it read may have changed since (Knowing), that the rows of the *)
(* tables and the state of the visits tell one story (Seated), and that      *)
(* display numbers and QR codes are counted up (NumbersDense, QrNewest).     *)
EXTENDS FloorVisits, FiniteSetTheorems, TLAPS

\* What a request in state q counts on.
Knows(q) ==
  /\ q.pc \in {"number", "insert", "again", "move", "aside", "generate", "rotate",
               "revoke", "seat", "look"} => q.table \in Tables
  /\ q.pc \in {"move", "close", "clean", "order", "ask"} => q.visit \in Visits
  /\ q.pc \in {"order", "seat", "again"} \/ (q.guest /\ q.pc \in {"number", "insert"})
       => q.key \in Keys
  /\ q.pc \in {"rotate", "revoke"} => q.read \in 1 .. Len(qr[q.table])
  /\ q.pc = "insert" => q.read \in 1 .. Cardinality(Opened) + 1
  /\ q.pc = "clean" => visit[q.visit].status = "CLOSED" /\ visit[q.visit].needsCleaning

Knowing == \A c \in Calls : Knows(call[c])

\* The visit keeps its table busy.
Keeps(v) ==
  \/ visit[v].status = "OPEN"
  \/ visit[v].status = "CLOSED" /\ visit[v].needsCleaning /\ ~visit[v].cleaned

\* A visit has one table exactly as long as it keeps one, and nobody else has it.
Seated ==
  /\ \A v, w \in Visits, t \in Tables : <<v, t>> \in held /\ <<w, t>> \in held => v = w
  /\ \A v \in Visits, s, t \in Tables : <<v, s>> \in held /\ <<v, t>> \in held => s = t
  /\ \A v \in Visits : Keeps(v) <=> \E t \in Tables : <<v, t>> \in held
  /\ \A v \in Visits : visit[v].cleaned => visit[v].status = "CLOSED"

\* At most the newest version of a table's code works.
QrNewest == \A t \in Tables : Working(t) \subseteq {Len(qr[t])}

Counted == IsFiniteSet(Opened) /\ NumbersDense

Inv == TypeOK /\ Knowing /\ Seated /\ QrNewest /\ Counted

-----------------------------------------------------------------------------
(* The steps, by what they may change                                        *)

\* A request reads what it needs, or ends without a change.
Reading(c) ==
  \/ \E t \in Tables :
       \/ BeginOpen(c, t)
       \/ BeginClean(c, t)
       \/ BeginSetAside(c, t)
       \/ BeginGenerate(c, t)
       \/ BeginRetire(c, t, "rotate")
       \/ BeginRetire(c, t, "revoke")
       \/ \E k \in Keys : scan(c, t, k, "seat")
       \/ scan(c, t, None, "look")
  \/ \E v \in Visits :
       \/ \E t \in Tables : BeginMove(c, v, t)
       \/ \E k \in Keys : BeginAddOrder(c, v, k)
       \/ BeginClose(c, v)
  \/ seat(c) \/ seatAgain(c) \/ openVisit(c) \/ ReadNumber(c)

\* A request writes visits and the rows of tables.
Rooming(c) ==
  \/ \E v \in Visits : InsertVisit(c, v)
  \/ CommitMove(c)
  \/ CommitClose(c)
  \/ CommitClean(c)

\* A request writes the codes of a table.
Coding(c) == CommitGenerate(c) \/ CommitRotate(c) \/ CommitRevoke(c)

\* A request writes anything else.
Noting(c) == CommitSetAside(c) \/ createSubmitted(c) \/ ask(c)

\* Steps that are not part of a request.
Around ==
  \/ setPolicy
  \/ \E t \in Tables : restore(t)
  \/ \E v \in Visits : finishRequest(v)
  \/ \E k \in Keys : settle(k)

LEMMA NextCases ==
  ASSUME Next
  PROVE  Around \/ \E c \in Calls : Reading(c) \/ Rooming(c) \/ Coding(c) \/ Noting(c)
  BY DEF Next, Staff, Guest, Around, Reading, Rooming, Coding, Noting

LEMMA NoneApart == None \notin Tables /\ None \notin Visits
  BY FloorAssumption

-----------------------------------------------------------------------------
(* What a request knows                                                      *)

LEMMA IdleKnows == Idle \in Call /\ Knows(Idle)
  BY DEF Idle, Call, Knows

\* What is never taken back, on which requests count.
Growing ==
  /\ \A t \in Tables : Len(qr[t]) <= Len(qr'[t])
  /\ Cardinality(Opened') \in Nat
  /\ Cardinality(Opened) <= Cardinality(Opened')
  /\ \A v \in Visits : visit[v].status = "CLOSED" /\ visit[v].needsCleaning =>
                       visit'[v].status = "CLOSED" /\ visit'[v].needsCleaning

\* Rows as they are.
LEMMA SameGrows ==
  ASSUME TypeOK, Counted, UNCHANGED <<visit, qr>>
  PROVE  Growing
<1>1. Opened' = Opened
  BY DEF Opened
<1>2. Cardinality(Opened) \in Nat
  BY FS_CardinalityType DEF Counted
<1>3. \A t \in Tables : Len(qr[t]) \in Nat
  BY DEF TypeOK
<1> QED
  BY <1>1, <1>2, <1>3 DEF Growing

\* What a request knows stays true.
LEMMA KnowsStays ==
  ASSUME TypeOK, TypeOK', Counted, Growing, NEW q \in Call, Knows(q)
  PROVE  Knows(q)'
<1>1. q.pc \in {"rotate", "revoke"} => q.read \in 1 .. Len(qr'[q.table])
  <2> SUFFICES ASSUME q.pc \in {"rotate", "revoke"} PROVE q.read \in 1 .. Len(qr'[q.table])
    OBVIOUS
  <2>1. q.table \in Tables /\ q.read \in 1 .. Len(qr[q.table])
    BY DEF Knows
  <2>2. /\ Len(qr[q.table]) \in Nat /\ Len(qr'[q.table]) \in Nat
        /\ Len(qr[q.table]) <= Len(qr'[q.table])
    BY <2>1 DEF TypeOK, Growing
  <2> QED
    BY <2>1, <2>2
<1>2. q.pc = "insert" => q.read \in 1 .. Cardinality(Opened') + 1
  <2> SUFFICES ASSUME q.pc = "insert" PROVE q.read \in 1 .. Cardinality(Opened') + 1
    OBVIOUS
  <2> DEFINE n == Cardinality(Opened)
             m == Cardinality(Opened')
  <2>1. q.read \in 1 .. n + 1 /\ n <= m /\ n \in Nat /\ m \in Nat
    BY FS_CardinalityType DEF Knows, Growing, Counted
  <2> HIDE DEF n, m
  <2>2. q.read \in 1 .. m + 1
    BY <2>1
  <2> QED
    BY <2>2 DEF m
<1> QED
  BY <1>1, <1>2 DEF Knows, Growing

\* One request goes on to q, all others know what they knew.
LEMMA KnowingStep ==
  ASSUME TypeOK, TypeOK', Counted, Knowing, Growing,
         NEW c \in Calls, NEW q, call' = [call EXCEPT ![c] = q], Knows(q)'
  PROVE  Knowing'
<1> SUFFICES ASSUME NEW f \in Calls PROVE Knows(call[f])'
  BY DEF Knowing
<1>1. PICK r : r = call[f]
  OBVIOUS
<1>2. r \in Call /\ Knows(r)
  BY <1>1 DEF TypeOK, Knowing
<1>3. Knows(r)'
  BY <1>2, KnowsStays
<1>4. call'[f] = q \/ call'[f] = r
  BY <1>1 DEF TypeOK
<1> QED
  BY <1>3, <1>4 DEF Knows

LEMMA KnowingSame ==
  ASSUME TypeOK, TypeOK', Counted, Knowing, Growing, UNCHANGED call
  PROVE  Knowing'
<1> SUFFICES ASSUME NEW f \in Calls PROVE Knows(call[f])'
  BY DEF Knowing
<1>1. PICK r : r = call[f]
  OBVIOUS
<1>2. r \in Call /\ Knows(r)
  BY <1>1 DEF TypeOK, Knowing
<1>3. Knows(r)'
  BY <1>2, KnowsStays
<1> QED
  BY <1>1, <1>3 DEF Knows

\* The next display number is the first free one.
LEMMA NextNumber ==
  ASSUME Counted
  PROVE  Max(Numbers \cup {0}) = Cardinality(Opened)
<1> DEFINE n == Cardinality(Opened)
           S == Numbers \cup {0}
<1>1. n \in Nat /\ S = 0 .. n
  BY FS_CardinalityType DEF Counted, NumbersDense
<1> HIDE DEF n, S
<1>2. n \in S /\ \A y \in S : n >= y
  BY <1>1
<1>3. \A x \in S : (\A y \in S : x >= y) => x = n
  BY <1>1
<1>4. Max(S) = n
  BY <1>2, <1>3 DEF Max
<1> QED
  BY <1>4 DEF n, S

\* A request that only reads knows what it read.
LEMMA ReadingKnows ==
  ASSUME TypeOK, Counted, NEW c \in Calls, Knows(call[c]), Reading(c)
  PROVE  \E q \in Call : call' = [call EXCEPT ![c] = q] /\ Knows(q)
<1> DEFINE Good(q) == q \in Call /\ Knows(q)
<1>1. ASSUME NEW q, Begin(c, q), Good(q)
      PROVE  \E r \in Call : call' = [call EXCEPT ![c] = r] /\ Knows(r)
  BY <1>1 DEF Begin
<1>2. ASSUME NEW t \in Tables
      PROVE  /\ \A p \in {"number", "aside", "generate"} : Good([Idle EXCEPT !.pc = p, !.table = t])
             /\ Good([Idle EXCEPT !.pc = "look", !.guest = TRUE, !.table = t, !.key = None])
             /\ \A k \in Keys : Good([Idle EXCEPT !.pc = "seat", !.guest = TRUE, !.table = t, !.key = k])
             /\ \A v \in Visits : Good([Idle EXCEPT !.pc = "move", !.visit = v, !.table = t])
  BY DEF Knows, Idle, Call
<1>3. ASSUME NEW v \in Visits
      PROVE  /\ \A k \in Keys : Good([Idle EXCEPT !.pc = "order", !.visit = v, !.key = k])
             /\ Good([Idle EXCEPT !.pc = "close", !.visit = v, !.read = 0])
             /\ Good([Idle EXCEPT !.pc = "close", !.visit = v, !.read = 1])
  BY DEF Knows, Idle, Call
<1>4. ASSUME NEW t \in Tables, NEW i \in Working(t), NEW p \in {"rotate", "revoke"}
      PROVE  Good([Idle EXCEPT !.pc = p, !.table = t, !.read = i])
  <2>1. i \in 1 .. Len(qr[t]) /\ i \in Nat
    BY DEF Working, TypeOK
  <2> QED
    BY <2>1 DEF Knows, Idle, Call
<1>5. ASSUME NEW t \in Tables, BeginClean(c, t)
      PROVE  \E r \in Call : call' = [call EXCEPT ![c] = r] /\ Knows(r)
  <2>1. PICK v \in holderOf(t) :
          /\ visit[v].status = "CLOSED" /\ visit[v].needsCleaning
          /\ Begin(c, [Idle EXCEPT !.pc = "clean", !.visit = v, !.table = t])
    BY <1>5 DEF BeginClean
  <2>2. Good([Idle EXCEPT !.pc = "clean", !.visit = v, !.table = t])
    BY <2>1 DEF holderOf, Knows, Idle, Call
  <2> QED
    BY <1>1, <2>1, <2>2
<1>6. CASE ReadNumber(c)
  <2> DEFINE n == Max(Numbers \cup {0}) + 1
             m == Cardinality(Opened)
             r == [call[c] EXCEPT !.pc = "insert", !.read = n]
  <2>1. m \in Nat /\ n = m + 1
    BY NextNumber, FS_CardinalityType DEF Counted
  <2>2. call' = [call EXCEPT ![c] = r]
    BY <1>6 DEF ReadNumber
  <2>3. n \in 1 .. m + 1 /\ n \in Nat
    <3> HIDE DEF n, m
    <3> QED
      BY <2>1
  <2> HIDE DEF n
  <2>4. Good(r)
    BY <1>6, <2>3 DEF ReadNumber, Knows, Call, TypeOK
  <2> QED
    BY <2>2, <2>4
<1>7. CASE seat(c)
  <2>1. call[c] \in Call /\ call[c].pc = "seat"
    BY <1>7 DEF seat, TypeOK
  <2>2. Good([call[c] EXCEPT !.pc = "number"])
    BY <2>1 DEF Knows, Call
  <2>3. \A v \in Visits : Good([call[c] EXCEPT !.pc = "order", !.visit = v])
    BY <1>7, <2>1 DEF Knows, Call, seat
  <2> QED
    BY <1>7, <2>2, <2>3, IdleKnows DEF seat, Continue, End, holderOf
<1>8. CASE seatAgain(c)
  <2>1. call[c] \in Call /\ call[c].pc = "again"
    BY <1>8 DEF seatAgain, TypeOK
  <2>2. \A v \in Visits : Good([call[c] EXCEPT !.pc = "order", !.visit = v])
    BY <2>1 DEF Knows, Call
  <2> QED
    BY <1>8, <2>2, IdleKnows DEF seatAgain, End, holderOf
<1>9. CASE openVisit(c)
  <2>1. call[c] \in Call /\ call[c].pc = "look"
    BY <1>9 DEF openVisit, TypeOK
  <2>2. \A v \in Visits : Good([call[c] EXCEPT !.pc = "ask", !.visit = v])
    BY <2>1 DEF Knows, Call
  <2> QED
    BY <1>9, <2>2, IdleKnows DEF openVisit, End, holderOf
<1> HIDE DEF Good
<1>10. ASSUME NEW t \in Tables,
              \/ BeginOpen(c, t) \/ BeginSetAside(c, t) \/ BeginGenerate(c, t)
              \/ \E k \in Keys : scan(c, t, k, "seat")
              \/ scan(c, t, None, "look")
              \/ \E v \in Visits : BeginMove(c, v, t)
       PROVE  \E r \in Call : call' = [call EXCEPT ![c] = r] /\ Knows(r)
  BY <1>1, <1>2, <1>10 DEF BeginOpen, BeginSetAside, BeginGenerate, scan, BeginMove
<1>11. ASSUME NEW t \in Tables, BeginRetire(c, t, "rotate") \/ BeginRetire(c, t, "revoke")
       PROVE  \E r \in Call : call' = [call EXCEPT ![c] = r] /\ Knows(r)
  BY <1>1, <1>4, <1>11 DEF BeginRetire
<1>12. ASSUME NEW v \in Visits, BeginClose(c, v) \/ \E k \in Keys : BeginAddOrder(c, v, k)
       PROVE  \E r \in Call : call' = [call EXCEPT ![c] = r] /\ Knows(r)
  BY <1>1, <1>3, <1>12 DEF BeginClose, BeginAddOrder
<1> QED
  BY <1>5, <1>6, <1>7, <1>8, <1>9, <1>10, <1>11, <1>12 DEF Reading

\* A request that writes keeps nothing it has read but whom it is about.
LEMMA WritingKnows ==
  ASSUME TypeOK, NEW c \in Calls, Knows(call[c]), Rooming(c) \/ Coding(c) \/ Noting(c)
  PROVE  \E q \in Call : call' = [call EXCEPT ![c] = q] /\ Knows(q)'
<1>1. Knows(Idle)' /\ Idle \in Call
  BY DEF Knows, Idle, Call
<1>2. ASSUME NEW v \in Visits, InsertVisit(c, v)
      PROVE  \E q \in Call : call' = [call EXCEPT ![c] = q] /\ Knows(q)'
  <2> DEFINE joined == [call[c] EXCEPT !.pc = "order", !.visit = v]
             again == [call[c] EXCEPT !.pc = "again"]
  <2>1. call[c] \in Call /\ call[c].pc = "insert"
    BY <1>2 DEF InsertVisit, TypeOK
  <2>2. \/ call' = [call EXCEPT ![c] = joined] /\ call[c].guest
        \/ call' = [call EXCEPT ![c] = again] /\ call[c].guest
        \/ call' = [call EXCEPT ![c] = Idle]
    BY <1>2 DEF InsertVisit, Continue, End
  <2>3. PICK r : r = call[c]
    OBVIOUS
  <2>4. r.guest => /\ [r EXCEPT !.pc = "order", !.visit = v] \in Call
                   /\ Knows([r EXCEPT !.pc = "order", !.visit = v])'
                   /\ [r EXCEPT !.pc = "again"] \in Call
                   /\ Knows([r EXCEPT !.pc = "again"])'
    BY <2>1, <2>3 DEF Knows, Call
  <2> QED
    BY <1>1, <2>2, <2>3, <2>4
<1>3. CASE \E v \in Visits : InsertVisit(c, v)
  BY <1>2, <1>3
<1>4. CASE ~(\E v \in Visits : InsertVisit(c, v))
  <2>1. End(c)
    BY <1>4 DEF Rooming, Coding, Noting, CommitMove, CommitClose, CommitClean, CommitGenerate,
       CommitRotate, CommitRevoke, CommitSetAside, createSubmitted, ask
  <2> QED
    BY <1>1, <2>1 DEF End
<1> QED
  BY <1>3, <1>4

-----------------------------------------------------------------------------
(* Visits and the rows of tables                                             *)

SeatAt(v, t) ==
  /\ visit[v].status = "NONE" /\ holderOf(t) = {}
  /\ visit' = [visit EXCEPT ![v] = [@ EXCEPT !.status = "OPEN", !.number = Cardinality(Opened) + 1]]
  /\ held' = held \cup {<<v, t>>}

MoveTo(v, t) ==
  /\ visit[v].status = "OPEN" /\ holderOf(t) \subseteq {v}
  /\ held' = (held \ rowsOf(v)) \cup {<<v, t>>}
  /\ UNCHANGED visit

LeaveFor(v, needsCleaning) ==
  /\ visit[v].status = "OPEN"
  /\ visit' = [visit EXCEPT ![v] = [@ EXCEPT !.status = "CLOSED", !.needsCleaning = needsCleaning]]
  /\ held' = IF needsCleaning THEN held ELSE held \ rowsOf(v)

CleanAfter(v) ==
  /\ visit[v].status = "CLOSED" /\ visit[v].needsCleaning
  /\ visit' = [visit EXCEPT ![v] = [@ EXCEPT !.cleaned = TRUE]]
  /\ held' = held \ rowsOf(v)

\* What any step does to visits and the rows of tables.
RoomsStep ==
  \/ UNCHANGED <<visit, held>>
  \/ \E v \in Visits, t \in Tables : SeatAt(v, t) \/ MoveTo(v, t)
  \/ \E v \in Visits, n \in BOOLEAN : LeaveFor(v, n)
  \/ \E v \in Visits : CleanAfter(v)

LEMMA RoomingSteps ==
  ASSUME TypeOK, Counted, NEW c \in Calls, Knows(call[c]), Rooming(c)
  PROVE  RoomsStep
<1>1. visit \in [Visits -> Visit]
  BY DEF TypeOK
<1>2. ASSUME NEW v \in Visits, InsertVisit(c, v) PROVE RoomsStep
  <2> DEFINE t == call[c].table
             n == call[c].read
  <2>1. t \in Tables /\ n \in 1 .. Cardinality(Opened) + 1
    BY <1>2 DEF InsertVisit, Knows
  <2>2. CASE Accepted(c)
    <3>1. n = Cardinality(Opened) + 1
      <4> DEFINE m == Cardinality(Opened)
      <4>1. m \in Nat /\ n \in 1 .. m + 1 /\ n \notin 1 .. m
        BY <2>1, <2>2, FS_CardinalityType DEF Counted, NumbersDense, Accepted
      <4> HIDE DEF m, n
      <4> QED
        BY <4>1 DEF m
    <3>2. visit' = [visit EXCEPT ![v] = [@ EXCEPT !.status = "OPEN", !.number = n]]
      BY <1>1, <1>2, <2>2 DEF InsertVisit
    <3> HIDE DEF n
    <3>3. SeatAt(v, t)
      BY <1>2, <2>2, <3>1, <3>2 DEF InsertVisit, Accepted, SeatAt
    <3> QED
      BY <2>1, <3>3 DEF RoomsStep
  <2>3. CASE ~Accepted(c)
    BY <1>2, <2>3 DEF InsertVisit, RoomsStep
  <2> QED
    BY <2>2, <2>3
<1>3. CASE CommitMove(c)
  <2>1. call[c].visit \in Visits /\ call[c].table \in Tables
    BY <1>3 DEF CommitMove, Knows
  <2>2. UNCHANGED <<visit, held>> \/ MoveTo(call[c].visit, call[c].table)
    BY <1>3 DEF CommitMove, MoveTo, Moved
  <2> QED
    BY <2>1, <2>2 DEF RoomsStep
<1>4. CASE CommitClose(c)
  <2> DEFINE v == call[c].visit
             n == (call[c].read = 1)
  <2>1. v \in Visits /\ n \in BOOLEAN
    BY <1>4 DEF CommitClose, Knows
  <2>2. UNCHANGED <<visit, held>> \/ LeaveFor(v, n)
    <3>1. CASE ~Closable(v)
      BY <1>4, <3>1 DEF CommitClose
    <3>2. CASE Closable(v)
      <4>1. visit' = [visit EXCEPT ![v] = [@ EXCEPT !.status = "CLOSED", !.needsCleaning = n]]
        BY <1>1, <1>4, <2>1, <3>2 DEF CommitClose
      <4> QED
        BY <1>4, <3>2, <4>1 DEF CommitClose, Closable, LeaveFor
    <3> QED
      BY <3>1, <3>2
  <2> QED
    BY <2>1, <2>2 DEF RoomsStep
<1>5. CASE CommitClean(c)
  <2> DEFINE v == call[c].visit
  <2>1. v \in Visits /\ visit[v].status = "CLOSED" /\ visit[v].needsCleaning
    BY <1>5 DEF CommitClean, Knows
  <2>2. CleanAfter(v)
    BY <1>5, <2>1 DEF CommitClean, CleanAfter, Cleaned
  <2> QED
    BY <2>1, <2>2 DEF RoomsStep
<1> QED
  BY <1>2, <1>3, <1>4, <1>5 DEF Rooming

\* What the rows of the tables are after a step.
LEMMA RowsAre ==
  ASSUME TypeOK, NEW v \in Visits
  PROVE  rowsOf(v) \subseteq held /\ \A w \in Visits, t \in Tables :
           <<w, t>> \in rowsOf(v) <=> w = v /\ <<w, t>> \in held
  BY DEF rowsOf, TypeOK

LEMMA RoomsTyped ==
  ASSUME TypeOK, Counted, RoomsStep
  PROVE  visit' \in [Visits -> Visit] /\ held' \subseteq Visits \X Tables
<1>1. visit \in [Visits -> Visit] /\ held \subseteq Visits \X Tables
  BY DEF TypeOK
<1>2. \A r \in Visit, n \in Nat, b \in BOOLEAN :
        /\ [r EXCEPT !.status = "OPEN", !.number = n] \in Visit
        /\ [r EXCEPT !.status = "CLOSED", !.needsCleaning = b] \in Visit
        /\ [r EXCEPT !.cleaned = TRUE] \in Visit
  BY DEF Visit
<1>3. Cardinality(Opened) + 1 \in Nat
  BY FS_CardinalityType DEF Counted
<1>4. visit' \in [Visits -> Visit]
  <2>1. ASSUME NEW v \in Visits, NEW t, SeatAt(v, t) PROVE visit' \in [Visits -> Visit]
    BY <1>1, <1>2, <1>3, <2>1 DEF SeatAt
  <2>2. ASSUME NEW v \in Visits, NEW n \in BOOLEAN, LeaveFor(v, n) PROVE visit' \in [Visits -> Visit]
    BY <1>1, <1>2, <2>2 DEF LeaveFor
  <2>3. ASSUME NEW v \in Visits, CleanAfter(v) PROVE visit' \in [Visits -> Visit]
    BY <1>1, <1>2, <2>3 DEF CleanAfter
  <2> QED
    BY <1>1, <2>1, <2>2, <2>3 DEF RoomsStep, MoveTo
<1>5. held' \subseteq Visits \X Tables
  <2>1. ASSUME NEW v \in Visits, NEW t \in Tables PROVE held \cup {<<v, t>>} \subseteq Visits \X Tables
    BY <1>1
  <2>2. held' \subseteq held \/ \E v \in Visits, t \in Tables : held' \subseteq held \cup {<<v, t>>}
    BY DEF RoomsStep, SeatAt, MoveTo, LeaveFor, CleanAfter
  <2> QED
    BY <1>1, <2>1, <2>2
<1> QED
  BY <1>4, <1>5

LEMMA SeatedNext ==
  ASSUME TypeOK, Counted, Seated, RoomsStep
  PROVE  Seated'
<1>1. visit \in [Visits -> Visit] /\ held \subseteq Visits \X Tables
  BY DEF TypeOK
<1>2. CASE UNCHANGED <<visit, held>>
  BY <1>2 DEF Seated, Keeps
<1>3. ASSUME NEW v \in Visits, NEW t \in Tables, SeatAt(v, t) PROVE Seated'
  <2>1. \A w \in Visits : <<w, t>> \notin held
    BY <1>3 DEF SeatAt, holderOf
  <2>2. \A s \in Tables : <<v, s>> \notin held
    BY <1>3 DEF SeatAt, Seated, Keeps
  <2>3. \A w \in Visits, s \in Tables : <<w, s>> \in held' <=> <<w, s>> \in held \/ (w = v /\ s = t)
    BY <1>3 DEF SeatAt
  <2>4. visit'[v].status = "OPEN" /\ visit'[v].cleaned = visit[v].cleaned
    BY <1>1, <1>3 DEF SeatAt, Visit
  <2>5. \A w \in Visits \ {v} : visit'[w] = visit[w]
    BY <1>3 DEF SeatAt
  <2>6. ~visit[v].cleaned
    BY <1>3 DEF SeatAt, Seated
  <2>7. \A w \in Visits : Keeps(w)' <=> Keeps(w) \/ w = v
    BY <1>3, <2>4, <2>5 DEF Keeps
  <2> QED
    BY <2>1, <2>2, <2>3, <2>4, <2>5, <2>6, <2>7 DEF Seated
<1>4. ASSUME NEW v \in Visits, NEW t \in Tables, MoveTo(v, t) PROVE Seated'
  <2>1. \A w \in Visits \ {v} : <<w, t>> \notin held
    BY <1>4 DEF MoveTo, holderOf
  <2>2. \A w \in Visits, s \in Tables :
          <<w, s>> \in held' <=> IF w = v THEN s = t ELSE <<w, s>> \in held
    BY <1>4, RowsAre DEF MoveTo
  <2>3. \A w \in Visits : Keeps(w)' <=> Keeps(w)
    BY <1>4 DEF Keeps, MoveTo
  <2>4. Keeps(v) /\ visit' = visit
    BY <1>4 DEF Keeps, MoveTo
  <2> QED
    BY <2>1, <2>2, <2>3, <2>4 DEF Seated
<1>5. ASSUME NEW v \in Visits, NEW n \in BOOLEAN, LeaveFor(v, n) PROVE Seated'
  <2>1. \A w \in Visits, s \in Tables :
          <<w, s>> \in held' <=> <<w, s>> \in held /\ (w = v => n)
    BY <1>5, RowsAre DEF LeaveFor
  <2>2. /\ visit'[v].status = "CLOSED" /\ visit'[v].needsCleaning = n
        /\ visit'[v].cleaned = visit[v].cleaned
    BY <1>1, <1>5 DEF LeaveFor, Visit
  <2>3. \A w \in Visits \ {v} : visit'[w] = visit[w]
    BY <1>5 DEF LeaveFor
  <2>4. ~visit[v].cleaned /\ Keeps(v)
    BY <1>5 DEF LeaveFor, Seated, Keeps
  <2>5. \A w \in Visits : Keeps(w)' <=> Keeps(w) /\ (w = v => n)
    BY <2>2, <2>3, <2>4 DEF Keeps
  <2> QED
    BY <2>1, <2>2, <2>3, <2>5 DEF Seated
<1>6. ASSUME NEW v \in Visits, CleanAfter(v) PROVE Seated'
  <2>1. \A w \in Visits, s \in Tables : <<w, s>> \in held' <=> <<w, s>> \in held /\ w # v
    BY <1>6, RowsAre DEF CleanAfter
  <2>2. visit'[v].status = "CLOSED" /\ visit'[v].cleaned
    BY <1>1, <1>6 DEF CleanAfter, Visit
  <2>3. \A w \in Visits \ {v} : visit'[w] = visit[w]
    BY <1>6 DEF CleanAfter
  <2>4. \A w \in Visits : Keeps(w)' <=> Keeps(w) /\ w # v
    BY <2>2, <2>3 DEF Keeps
  <2> QED
    BY <2>1, <2>2, <2>3, <2>4 DEF Seated
<1> QED
  BY <1>2, <1>3, <1>4, <1>5, <1>6 DEF RoomsStep

\* A seated visit gets the next number; all others keep theirs.
LEMMA CountedNext ==
  ASSUME TypeOK, Counted, RoomsStep
  PROVE  Counted' /\ Cardinality(Opened) <= Cardinality(Opened')
<1> DEFINE m == Cardinality(Opened)
<1>1. visit \in [Visits -> Visit]
  BY DEF TypeOK
<1>2. m \in Nat /\ Numbers = 1 .. m /\ IsFiniteSet(Opened)
  BY FS_CardinalityType DEF Counted, NumbersDense
<1>3. CASE Opened' = Opened /\ Numbers' = Numbers
  BY <1>2, <1>3 DEF Counted, NumbersDense
<1>4. ASSUME NEW v \in Visits, NEW t \in Tables, SeatAt(v, t)
      PROVE  Counted' /\ Cardinality(Opened) <= Cardinality(Opened')
  <2>1. v \notin Opened
    BY <1>4 DEF SeatAt, Opened
  <2>2. visit'[v].status = "OPEN" /\ visit'[v].number = m + 1
    BY <1>1, <1>4 DEF SeatAt, Visit
  <2>3. \A w \in Visits \ {v} : visit'[w] = visit[w]
    BY <1>4 DEF SeatAt
  <2>4. Opened' = Opened \cup {v}
    BY <2>2, <2>3 DEF Opened
  <2>5. Cardinality(Opened') = m + 1 /\ IsFiniteSet(Opened')
    BY <1>2, <2>1, <2>4, FS_AddElement
  <2> HIDE DEF m
  <2>6. Numbers' = Numbers \cup {m + 1}
    <3>1. \A w \in Opened : visit'[w] = visit[w]
      BY <2>1, <2>3 DEF Opened
    <3>2. Numbers' = {visit'[w].number : w \in Opened \cup {v}}
      BY <2>4 DEF Numbers
    <3> QED
      BY <2>2, <3>1, <3>2 DEF Numbers
  <2>7. Numbers' = 1 .. m + 1
    BY <1>2, <2>6
  <2>8. Cardinality(1 .. m + 1) = m + 1
    BY <1>2, FS_Interval
  <2> QED
    BY <1>2, <2>5, <2>7, <2>8 DEF m, Counted, NumbersDense
<1>5. CASE ~(\E v \in Visits, t \in Tables : SeatAt(v, t))
  <2>1. \A v \in Visits : /\ visit'[v].number = visit[v].number
                          /\ visit'[v].status = "NONE" <=> visit[v].status = "NONE"
    <3>1. ASSUME NEW w \in Visits, NEW n, LeaveFor(w, n) \/ CleanAfter(w), NEW v \in Visits
          PROVE  /\ visit'[v].number = visit[v].number
                 /\ visit'[v].status = "NONE" <=> visit[v].status = "NONE"
      <4>1. \A r \in Visit :
              /\ r.status = "OPEN" => LET q == [r EXCEPT !.status = "CLOSED", !.needsCleaning = n]
                                      IN  q.number = r.number /\ q.status # "NONE"
              /\ [r EXCEPT !.cleaned = TRUE].number = r.number
              /\ [r EXCEPT !.cleaned = TRUE].status = r.status
        BY DEF Visit
      <4>2. CASE LeaveFor(w, n)
        BY <1>1, <4>1, <4>2 DEF LeaveFor
      <4>3. CASE CleanAfter(w)
        BY <1>1, <4>1, <4>3 DEF CleanAfter
      <4> QED
        BY <3>1, <4>2, <4>3
    <3>2. ASSUME UNCHANGED visit, NEW v \in Visits
          PROVE  /\ visit'[v].number = visit[v].number
                 /\ visit'[v].status = "NONE" <=> visit[v].status = "NONE"
      BY <3>2
    <3> QED
      BY <1>5, <3>1, <3>2 DEF RoomsStep, MoveTo
  <2>2. Opened' = Opened
    BY <2>1 DEF Opened
  <2>3. Numbers' = Numbers
    BY <2>1, <2>2 DEF Numbers, Opened
  <2> QED
    BY <1>3, <2>2, <2>3
<1> QED
  BY <1>4, <1>5

\* A visit that waited or was over stays closed as it is.
LEMMA ClosedStays ==
  ASSUME TypeOK, RoomsStep, NEW v \in Visits, visit[v].status = "CLOSED"
  PROVE  /\ visit'[v].status = "CLOSED"
         /\ visit'[v].needsCleaning = visit[v].needsCleaning
<1>1. visit \in [Visits -> Visit]
  BY DEF TypeOK
<1> QED
  BY <1>1 DEF RoomsStep, SeatAt, MoveTo, LeaveFor, CleanAfter, Visit

-----------------------------------------------------------------------------
(* Codes                                                                     *)

Codes == {"ACTIVE", "ROTATED", "REVOKED"}

\* A code that is out of use keeps its state, and only the newest may work.
CodesKept ==
  \A t \in Tables :
    /\ Working(t)' \subseteq {Len(qr'[t])}
    /\ \A i \in DOMAIN qr[t] : qr[t][i] # "ACTIVE" => qr'[t][i] = qr[t][i]

CodesGrow == \A t \in Tables : Len(qr[t]) <= Len(qr'[t])

LEMMA Replaced ==
  ASSUME NEW s \in Seq(Codes), NEW i \in 1 .. Len(s), NEW x \in Codes
  PROVE  LET r == [s EXCEPT ![i] = x]
         IN  /\ r \in Seq(Codes) /\ Len(r) = Len(s) /\ r[i] = x
             /\ \A j \in 1 .. Len(s) : j # i => r[j] = s[j]
  OBVIOUS

LEMMA Appended ==
  ASSUME NEW s \in Seq(Codes), NEW x \in Codes
  PROVE  LET r == Append(s, x)
         IN  /\ r \in Seq(Codes) /\ Len(r) = Len(s) + 1 /\ r[Len(s) + 1] = x
             /\ \A j \in 1 .. Len(s) : r[j] = s[j]
  OBVIOUS

\* The versions of one table become r.
LEMMA OneTable ==
  ASSUME TypeOK, QrNewest, NEW t \in Tables, NEW r \in Seq(Codes), qr' = [qr EXCEPT ![t] = r],
         \A i \in 1 .. Len(r) : r[i] = "ACTIVE" => i = Len(r),
         Len(qr[t]) <= Len(r),
         \A i \in 1 .. Len(qr[t]) : qr[t][i] # "ACTIVE" => r[i] = qr[t][i]
  PROVE  qr' \in [Tables -> Seq(Codes)] /\ CodesKept /\ CodesGrow
<1>1. qr \in [Tables -> Seq(Codes)]
  BY DEF TypeOK, Codes
<1>2. qr' \in [Tables -> Seq(Codes)]
  BY <1>1
<1>3. \A s \in Tables : qr'[s] = IF s = t THEN r ELSE qr[s]
  BY <1>1
<1>4. ASSUME NEW s \in Tables
      PROVE  /\ Working(s)' \subseteq {Len(qr'[s])}
             /\ \A i \in DOMAIN qr[s] : qr[s][i] # "ACTIVE" => qr'[s][i] = qr[s][i]
             /\ Len(qr[s]) <= Len(qr'[s])
  <2>1. CASE s = t
    <3>1. qr'[s] = r /\ DOMAIN r = 1 .. Len(r) /\ DOMAIN qr[s] = 1 .. Len(qr[s])
      BY <1>1, <1>3, <2>1
    <3> QED
      BY <2>1, <3>1 DEF Working
  <2>2. CASE s # t
    <3>1. qr'[s] = qr[s] /\ Len(qr[s]) \in Nat
      BY <1>1, <1>3, <2>2
    <3> QED
      BY <3>1 DEF Working, QrNewest
  <2> QED
    BY <2>1, <2>2
<1> QED
  BY <1>2, <1>4 DEF CodesKept, CodesGrow

LEMMA SameCodes ==
  ASSUME TypeOK, QrNewest, UNCHANGED qr
  PROVE  qr' \in [Tables -> Seq(Codes)] /\ CodesKept /\ CodesGrow
<1>1. qr \in [Tables -> Seq(Codes)]
  BY DEF TypeOK, Codes
<1>2. \A t \in Tables : Len(qr[t]) \in Nat
  BY <1>1
<1> QED
  BY <1>1, <1>2 DEF CodesKept, CodesGrow, QrNewest, Working

LEMMA CodingNext ==
  ASSUME TypeOK, QrNewest, NEW c \in Calls, Knows(call[c]), Coding(c)
  PROVE  qr' \in [Tables -> Seq(Codes)] /\ CodesKept /\ CodesGrow
<1> DEFINE t == call[c].table
           s == qr[t]
           i == call[c].read
           new == Append(s, "ACTIVE")
           gone(x) == [s EXCEPT ![i] = x]
<1>1. t \in Tables /\ qr \in [Tables -> Seq(Codes)]
  BY DEF TypeOK, Codes, Coding, CommitGenerate, CommitRotate, CommitRevoke, Knows
<1>2. s \in Seq(Codes) /\ Len(s) \in Nat /\ DOMAIN s = 1 .. Len(s)
  BY <1>1
<1>3. \A j \in 1 .. Len(s) : s[j] = "ACTIVE" => j = Len(s)
  BY <1>1, <1>2 DEF QrNewest, Working
<1>4. "ACTIVE" \in Codes /\ "ROTATED" \in Codes /\ "REVOKED" \in Codes
  BY DEF Codes
<1>5. CASE UNCHANGED qr
  BY <1>5, SameCodes
<1>6. CASE CommitGenerate(c) /\ qr' # qr
  <2>1. qr' = [qr EXCEPT ![t] = new] /\ Working(t) = {}
    BY <1>6 DEF CommitGenerate
  <2>2. \A j \in 1 .. Len(s) : s[j] # "ACTIVE"
    BY <1>2, <2>1 DEF Working
  <2>3. /\ new \in Seq(Codes) /\ Len(new) = Len(s) + 1
        /\ \A j \in 1 .. Len(s) : new[j] = s[j]
    BY <1>2, <1>4, Appended
  <2> HIDE DEF new, s, t
  <2>4. \A j \in 1 .. Len(new) : new[j] = "ACTIVE" => j = Len(new)
    BY <1>2, <2>2, <2>3
  <2>5. Len(s) <= Len(new)
    BY <1>2, <2>3
  <2> QED
    BY <1>1, <2>1, <2>2, <2>3, <2>4, <2>5, OneTable DEF s
<1>7. CASE CommitRotate(c) /\ qr' # qr
  <2> DEFINE r == Append(gone("ROTATED"), "ACTIVE")
  <2>1. i \in 1 .. Len(s) /\ s[i] = "ACTIVE" /\ qr' = [qr EXCEPT ![t] = r]
    BY <1>7 DEF CommitRotate, Retirable, Knows
  <2>2. /\ gone("ROTATED") \in Seq(Codes) /\ Len(gone("ROTATED")) = Len(s)
        /\ gone("ROTATED")[i] = "ROTATED"
        /\ \A j \in 1 .. Len(s) : j # i => gone("ROTATED")[j] = s[j]
    BY <1>2, <1>4, <2>1, Replaced
  <2> HIDE DEF gone, s, t, i
  <2>3. /\ r \in Seq(Codes) /\ Len(r) = Len(s) + 1
        /\ \A j \in 1 .. Len(s) : r[j] = gone("ROTATED")[j]
    BY <1>4, <2>2, Appended
  <2> HIDE DEF r
  <2>4. \A j \in 1 .. Len(s) : /\ r[j] # "ACTIVE"
                               /\ s[j] # "ACTIVE" => r[j] = s[j]
    BY <1>3, <2>1, <2>2, <2>3
  <2>5. \A j \in 1 .. Len(r) : r[j] = "ACTIVE" => j = Len(r)
    BY <1>2, <2>3, <2>4
  <2>6. Len(s) <= Len(r)
    BY <1>2, <2>3
  <2> QED
    BY <1>1, <2>1, <2>3, <2>4, <2>5, <2>6, OneTable DEF s
<1>8. CASE CommitRevoke(c) /\ qr' # qr
  <2> DEFINE r == gone("REVOKED")
  <2>1. i \in 1 .. Len(s) /\ s[i] # "ROTATED"
    BY <1>8 DEF CommitRevoke, Revocable, Knows
  <2>2. qr' = [qr EXCEPT ![t] = r]
    BY <1>1, <1>8 DEF CommitRevoke
  <2>3. /\ r \in Seq(Codes) /\ Len(r) = Len(s) /\ r[i] = "REVOKED"
        /\ \A j \in 1 .. Len(s) : j # i => r[j] = s[j]
    BY <1>2, <1>4, <2>1, Replaced
  <2>4. s[i] \in Codes
    BY <1>2, <2>1
  <2> HIDE DEF r, s, t, i
  <2>5. \A j \in 1 .. Len(s) : s[j] # "ACTIVE" => r[j] = s[j]
    BY <2>1, <2>3, <2>4 DEF Codes
  <2>6. \A j \in 1 .. Len(r) : r[j] = "ACTIVE" => j = Len(r)
    BY <1>3, <2>3
  <2>7. Len(s) <= Len(r)
    BY <1>2, <2>3
  <2> QED
    BY <1>1, <2>2, <2>3, <2>5, <2>6, <2>7, OneTable DEF s
<1> QED
  BY <1>5, <1>6, <1>7, <1>8 DEF Coding

-----------------------------------------------------------------------------
(* The invariant                                                             *)

LEMMA OrdersNext ==
  ASSUME TypeOK, NEW c \in Calls, Knows(call[c]), createSubmitted(c)
  PROVE  /\ order' \in [Keys -> [visit : Visits \cup {None}, guest : BOOLEAN]]
         /\ \A k \in Keys : order[k].visit # None => order'[k] = order[k]
<1> DEFINE k == call[c].key
           new == [visit |-> call[c].visit, guest |-> call[c].guest]
<1>1. k \in Keys /\ call[c].visit \in Visits /\ call[c].guest \in BOOLEAN
  BY DEF createSubmitted, Knows, TypeOK, Call
<1>2. new \in [visit : Visits \cup {None}, guest : BOOLEAN]
  BY <1>1
<1>3. \/ order' = order
      \/ order' = [order EXCEPT ![k] = new] /\ order[k].visit = None
  <2>1. CASE order[k].visit = None /\ ensureOpen(call[c].visit)
    BY <2>1 DEF createSubmitted
  <2>2. CASE ~(order[k].visit = None /\ ensureOpen(call[c].visit))
    BY <2>2 DEF createSubmitted
  <2> QED
    BY <2>1, <2>2
<1> HIDE DEF new
<1> QED
  BY <1>1, <1>2, <1>3 DEF TypeOK

\* Everything but the requests, after any step.
LEMMA SharedNext ==
  ASSUME Inv, Next
  PROVE  /\ RoomsStep
         /\ qr' \in [Tables -> Seq(Codes)] /\ CodesKept /\ CodesGrow
         /\ inService' \subseteq Tables /\ cleaning' \in BOOLEAN
         /\ order' \in [Keys -> [visit : Visits \cup {None}, guest : BOOLEAN]]
         /\ settled' \subseteq {k \in Keys : order'[k].visit # None}
         /\ asked' \subseteq Visits
<1>1. /\ TypeOK /\ Counted /\ QrNewest /\ \A c \in Calls : Knows(call[c])
      /\ inService \subseteq Tables /\ cleaning \in BOOLEAN /\ asked \subseteq Visits
      /\ order \in [Keys -> [visit : Visits \cup {None}, guest : BOOLEAN]]
      /\ settled \subseteq {k \in Keys : order[k].visit # None}
  BY DEF Inv, TypeOK, Knowing
<1>2. CASE Around
  <2>1. UNCHANGED <<visit, held, qr, order>>
    BY <1>2 DEF Around, setPolicy, restore, finishRequest, settle, rooms
  <2>2. inService' \subseteq Tables /\ cleaning' \in BOOLEAN /\ asked' \subseteq Visits
    BY <1>1, <1>2 DEF Around, setPolicy, restore, finishRequest, settle, rooms
  <2>3. settled' \subseteq {k \in Keys : order'[k].visit # None}
    BY <1>1, <1>2, <2>1 DEF Around, setPolicy, restore, finishRequest, settle
  <2> QED
    BY <1>1, <2>1, <2>2, <2>3, SameCodes DEF RoomsStep
<1>3. ASSUME NEW c \in Calls, Reading(c) PROVE UNCHANGED <<rooms, qr, order, settled, asked>>
  BY <1>3 DEF Reading, BeginOpen, BeginClean, BeginSetAside, BeginGenerate, BeginRetire, scan,
     BeginMove, BeginAddOrder, BeginClose, seat, seatAgain, openVisit, ReadNumber
<1>4. ASSUME NEW c \in Calls, Rooming(c)
      PROVE  UNCHANGED <<inService, cleaning, qr, order, settled, asked>>
  BY <1>4 DEF Rooming, InsertVisit, CommitMove, CommitClose, CommitClean
<1>5. ASSUME NEW c \in Calls, Coding(c) PROVE UNCHANGED <<rooms, order, settled, asked>>
  BY <1>5 DEF Coding, CommitGenerate, CommitRotate, CommitRevoke
<1>6. CASE UNCHANGED <<rooms, qr, order, settled, asked>>
  BY <1>1, <1>6, SameCodes DEF rooms, RoomsStep
<1>7. ASSUME NEW c \in Calls, Rooming(c) PROVE RoomsStep
  BY <1>1, <1>7, RoomingSteps
<1>8. ASSUME NEW c \in Calls, Coding(c)
      PROVE  qr' \in [Tables -> Seq(Codes)] /\ CodesKept /\ CodesGrow
  BY <1>1, <1>8, CodingNext
<1>9. ASSUME NEW c \in Calls, Noting(c)
      PROVE  /\ UNCHANGED <<visit, held, cleaning, qr, settled>>
             /\ inService' \subseteq Tables /\ asked' \subseteq Visits
             /\ order' \in [Keys -> [visit : Visits \cup {None}, guest : BOOLEAN]]
             /\ \A k \in Keys : order[k].visit # None => order'[k] = order[k]
  <2>1. CASE CommitSetAside(c) \/ ask(c)
    BY <1>1, <2>1 DEF CommitSetAside, ask, rooms, Knows
  <2>2. CASE createSubmitted(c)
    BY <1>1, <2>2, OrdersNext DEF createSubmitted, rooms
  <2> QED
    BY <1>9, <2>1, <2>2 DEF Noting
<1>10. ASSUME NEW c \in Calls, Noting(c)
       PROVE  settled' \subseteq {k \in Keys : order'[k].visit # None}
  BY <1>1, <1>9, <1>10
<1> QED
  <2>1. CASE \E c \in Calls : Rooming(c)
    BY <1>1, <1>4, <1>7, <2>1, SameCodes
  <2>2. CASE \E c \in Calls : Coding(c)
    BY <1>1, <1>5, <1>8, <2>2 DEF rooms, RoomsStep
  <2>3. CASE \E c \in Calls : Noting(c)
    BY <1>1, <1>9, <1>10, <2>3, SameCodes DEF RoomsStep
  <2> QED
    BY <1>2, <1>3, <1>6, <2>1, <2>2, <2>3, NextCases

LEMMA GrowingNext ==
  ASSUME TypeOK, Counted, RoomsStep, CodesGrow
  PROVE  Growing
<1>1. Counted' /\ Cardinality(Opened) <= Cardinality(Opened')
  BY CountedNext
<1>2. Cardinality(Opened') \in Nat
  BY <1>1, FS_CardinalityType DEF Counted
<1> QED
  BY <1>1, <1>2, ClosedStays DEF Growing, CodesGrow

LEMMA CallsNext ==
  ASSUME Inv, Next
  PROVE  UNCHANGED call \/ \E c \in Calls, q \in Call :
           call' = [call EXCEPT ![c] = q] /\ (Knows(q) \/ Knows(q)')
<1>1. TypeOK /\ Counted /\ \A c \in Calls : Knows(call[c])
  BY DEF Inv, Knowing
<1>2. CASE Around
  BY <1>2 DEF Around, setPolicy, restore, finishRequest, settle
<1>3. ASSUME NEW c \in Calls, Reading(c) \/ Rooming(c) \/ Coding(c) \/ Noting(c)
      PROVE  \E q \in Call : call' = [call EXCEPT ![c] = q] /\ (Knows(q) \/ Knows(q)')
  BY <1>1, <1>3, ReadingKnows, WritingKnows
<1> QED
  BY <1>2, <1>3, NextCases

LEMMA InvNext == Inv /\ [Next]_vars => Inv'
<1> SUFFICES ASSUME Inv, [Next]_vars PROVE Inv'
  OBVIOUS
<1>1. CASE UNCHANGED vars
  <2>1. TypeOK'
    BY <1>1 DEF vars, rooms, Inv, TypeOK
  <2>2. Opened' = Opened /\ Numbers' = Numbers
    BY <1>1 DEF vars, rooms, Opened, Numbers
  <2>3. Counted'
    BY <2>2 DEF Inv, Counted, NumbersDense
  <2>4. Seated' /\ QrNewest'
    BY <1>1 DEF vars, rooms, Inv, Seated, Keeps, QrNewest, Working
  <2>5. TypeOK /\ Counted /\ Knowing /\ UNCHANGED call /\ UNCHANGED <<visit, qr>>
    BY <1>1 DEF vars, rooms, Inv
  <2>6. Knowing'
    BY <2>1, <2>5, SameGrows, KnowingSame
  <2> QED
    BY <2>1, <2>3, <2>4, <2>6 DEF Inv
<1>2. CASE Next
  <2>1. TypeOK /\ Counted /\ Seated /\ Knowing
    BY DEF Inv
  <2>2. RoomsStep /\ CodesKept /\ CodesGrow
    BY <1>2, SharedNext
  <2>3. call' \in [Calls -> Call]
    BY <1>2, <2>1, CallsNext DEF TypeOK
  <2>4. TypeOK'
    BY <1>2, <2>1, <2>2, <2>3, SharedNext, RoomsTyped DEF TypeOK, Codes
  <2>5. Seated' /\ Counted' /\ QrNewest' /\ Growing
    BY <2>1, <2>2, SeatedNext, CountedNext, GrowingNext DEF CodesKept, QrNewest
  <2>6. Knowing'
    <3>1. ASSUME NEW c \in Calls, NEW q \in Call, call' = [call EXCEPT ![c] = q],
                 Knows(q) \/ Knows(q)'
          PROVE  Knowing'
      <4>1. Knows(q)'
        BY <2>1, <2>4, <2>5, <3>1, KnowsStays
      <4> QED
        BY <2>1, <2>4, <2>5, <3>1, <4>1, KnowingStep
    <3> QED
      BY <1>2, <2>1, <2>4, <2>5, <3>1, CallsNext, KnowingSame
  <2> QED
    BY <2>4, <2>5, <2>6 DEF Inv
<1> QED
  BY <1>1, <1>2

LEMMA InvInit == Init => Inv
<1> SUFFICES ASSUME Init PROVE Inv
  OBVIOUS
<1>1. TypeOK
  <2>1. qr \in [Tables -> Seq({"ACTIVE", "ROTATED", "REVOKED"})]
    <3>1. /\ <<>> \in Seq({"ACTIVE", "ROTATED", "REVOKED"})
          /\ <<"ACTIVE">> \in Seq({"ACTIVE", "ROTATED", "REVOKED"})
      OBVIOUS
    <3> QED
      BY <3>1 DEF Init
  <2>2. visit \in [Visits -> Visit] /\ call \in [Calls -> Call]
    BY DEF Init, Visit, Call, Idle
  <2> QED
    BY <2>1, <2>2 DEF Init, TypeOK
<1>2. Knowing
  BY IdleKnows DEF Init, Knowing
<1>3. Seated
  BY DEF Init, Seated, Keeps
<1>4. QrNewest
  <2> SUFFICES ASSUME NEW t \in Tables, NEW i \in DOMAIN qr[t] PROVE i = Len(qr[t])
    BY DEF QrNewest, Working
  <2>1. qr[t] \in {<<>>, <<"ACTIVE">>}
    BY DEF Init
  <2>2. CASE qr[t] = <<>>
    BY <2>2
  <2>3. CASE qr[t] = <<"ACTIVE">>
    <3>1. DOMAIN qr[t] = 1 .. 1 /\ Len(qr[t]) = 1
      BY <2>3
    <3> QED
      BY <3>1
  <2> QED
    BY <2>1, <2>2, <2>3
<1>5. Counted
  <2>1. Opened = {}
    BY DEF Init, Opened
  <2>2. Numbers = {}
    BY <2>1 DEF Numbers
  <2>3. Cardinality(Opened) = 0 /\ IsFiniteSet(Opened)
    BY <2>1, FS_EmptySet
  <2>4. 1 .. 0 = {}
    OBVIOUS
  <2> QED
    BY <2>1, <2>2, <2>3, <2>4 DEF Counted, NumbersDense
<1> QED
  BY <1>1, <1>2, <1>3, <1>4, <1>5 DEF Inv

LEMMA InvAlways == Spec => []Inv
  BY InvInit, InvNext, PTL DEF Spec

\* Every variable keeps its type.
THEOREM TypeCorrect == Spec => []TypeOK
<1>1. Inv => TypeOK
  BY DEF Inv
<1> QED
  BY <1>1, InvAlways, PTL

\* Display numbers count the visits: each has its own and none is skipped.
THEOREM NumbersDenseTheorem == Spec => []NumbersDense
<1>1. Inv => NumbersDense
  BY DEF Inv, Counted
<1> QED
  BY <1>1, InvAlways, PTL

\* At most the newest code of a table works, and one that was taken out of use
\* keeps its state for good.
THEOREM QrRetiredTheorem == Spec => QrRetired
<1> DEFINE kept == \A t \in Tables :
             /\ Working(t)' \subseteq {Len(qr'[t])}
             /\ \A i \in DOMAIN qr[t] : qr[t][i] # "ACTIVE" => qr'[t][i] = qr[t][i]
<1>1. Inv /\ [Next]_vars => [kept]_vars
  BY SharedNext DEF CodesKept
<1> QED
  BY <1>1, InvAlways, PTL DEF Spec, QrRetired

-----------------------------------------------------------------------------
(* The floor keeps its promise                                               *)

\* What is shown of every visit.
ShownFacts ==
  \A v \in Visits :
    /\ \A t \in Tables : <<v, t>> \in held =>
         shown(v) = [state |-> IF visit[v].status = "OPEN" THEN "OCCUPIED" ELSE "CLEANING",
                     table |-> t]
    /\ ~Keeps(v) =>
         shown(v) = [state |-> IF visit[v].status = "NONE" THEN "EXPECTED" ELSE "OVER",
                     table |-> None]

LEMMA ShownNow == TypeOK /\ Seated => ShownFacts
<1> SUFFICES ASSUME TypeOK, Seated, NEW v \in Visits
             PROVE  /\ \A t \in Tables : <<v, t>> \in held =>
                         shown(v) = [state |-> IF visit[v].status = "OPEN" THEN "OCCUPIED"
                                               ELSE "CLEANING",
                                     table |-> t]
                    /\ ~Keeps(v) =>
                         shown(v) = [state |-> IF visit[v].status = "NONE" THEN "EXPECTED"
                                               ELSE "OVER",
                                     table |-> None]
  BY DEF ShownFacts
<1>1. held \subseteq Visits \X Tables /\ visit[v].status \in {"NONE", "OPEN", "CLOSED"}
  BY DEF TypeOK, Visit
<1>2. ASSUME NEW t \in Tables, <<v, t>> \in held
      PROVE  shown(v) = [state |-> IF visit[v].status = "OPEN" THEN "OCCUPIED" ELSE "CLEANING",
                         table |-> t]
  <2>1. rowsOf(v) = {<<v, t>>}
    <3>1. <<v, t>> \in rowsOf(v)
      BY <1>2, RowsAre
    <3>2. ASSUME NEW row \in rowsOf(v) PROVE row = <<v, t>>
      <4>1. PICK w \in Visits, s \in Tables : row = <<w, s>>
        BY <1>1 DEF rowsOf
      <4>2. w = v /\ <<v, s>> \in held
        BY <4>1, RowsAre
      <4> QED
        BY <1>2, <4>1, <4>2 DEF Seated
    <3> QED
      BY <3>1, <3>2
  <2>2. \A s \in Tables : rowsOf(v) = {<<v, s>>} <=> s = t
    <3>1. ASSUME NEW s \in Tables, rowsOf(v) = {<<v, s>>} PROVE s = t
      <4>1. <<v, s>> \in rowsOf(v)
        BY <3>1
      <4> QED
        BY <1>2, <4>1, RowsAre DEF Seated
    <3> QED
      BY <2>1, <3>1
  <2>3. (CHOOSE s \in Tables : rowsOf(v) = {<<v, s>>}) = t
    BY <2>2
  <2>4. Keeps(v)
    BY <1>2 DEF Seated
  <2>5. \E s \in Tables : rowsOf(v) = {<<v, s>>}
    BY <2>1
  <2> QED
    BY <2>3, <2>4, <2>5 DEF shown, Keeps
<1>3. ASSUME ~Keeps(v)
      PROVE  shown(v) = [state |-> IF visit[v].status = "NONE" THEN "EXPECTED" ELSE "OVER",
                         table |-> None]
  <2>1. \A t \in Tables : <<v, t>> \notin rowsOf(v)
    BY <1>3, RowsAre DEF Seated
  <2>2. ~ \E t \in Tables : rowsOf(v) = {<<v, t>>}
    BY <2>1
  <2> QED
    BY <1>1, <1>3, <2>2 DEF shown, Keeps
<1> QED
  BY <1>2, <1>3

LEMMA ShownNext == (TypeOK /\ Seated)' => ShownFacts'
  BY ShownNow, PTL

\* What one visit shows changes to x.
LEMMA PlaceChanges ==
  ASSUME NEW v \in Visits, NEW x, shown(v)' = x, \A w \in Visits \ {v} : shown(w)' = shown(w)
  PROVE  [w \in Visits |-> shown(w)]' = [[w \in Visits |-> shown(w)] EXCEPT ![v] = x]
  OBVIOUS

\* A visit whose row and table stay shows what it showed.
LEMMA SameShown ==
  ASSUME TypeOK, Seated, Seated', ShownFacts, ShownFacts', NEW w \in Visits,
         visit'[w] = visit[w], \A s \in Tables : <<w, s>> \in held' <=> <<w, s>> \in held
  PROVE  shown(w)' = shown(w)
<1>1. CASE Keeps(w)
  <2>1. PICK t \in Tables : <<w, t>> \in held
    BY <1>1 DEF Seated
  <2> QED
    BY <2>1 DEF ShownFacts
<1>2. CASE ~Keeps(w)
  <2>1. ~Keeps(w)'
    BY <1>2 DEF Keeps
  <2> QED
    BY <1>2, <2>1 DEF ShownFacts
<1> QED
  BY <1>1, <1>2

\* A table nobody holds is free.
LEMMA FreeTable ==
  ASSUME Seated, ShownFacts, NEW t \in Tables, holderOf(t) = {}, NEW w \in Visits
  PROVE  shown(w).table # t
<1>1. CASE Keeps(w)
  <2>1. PICK s \in Tables : <<w, s>> \in held
    BY <1>1 DEF Seated
  <2>2. s # t
    BY <2>1 DEF holderOf
  <2> QED
    BY <2>1, <2>2 DEF ShownFacts
<1>2. CASE ~Keeps(w)
  BY <1>2, NoneApart DEF ShownFacts
<1> QED
  BY <1>1, <1>2

LEMMA PromiseNext ==
  ASSUME TypeOK, Counted, Seated, RoomsStep, TypeOK', Seated'
  PROVE  [Promise!Next]_([v \in Visits |-> shown(v)])
<1> DEFINE place == [v \in Visits |-> shown(v)]
<1>1. ShownFacts /\ ShownFacts'
  BY ShownNow, ShownNext
<1>2. visit \in [Visits -> Visit] /\ held \subseteq Visits \X Tables
  BY DEF TypeOK
<1>3. CASE UNCHANGED <<visit, held>>
  <2>1. \A v \in Visits : shown(v)' = shown(v)
    BY <1>1, <1>3, SameShown
  <2> QED
    BY <2>1
<1>4. ASSUME NEW v \in Visits, NEW t \in Tables, SeatAt(v, t) PROVE Promise!Next
  <2>1. \A w \in Visits, s \in Tables : <<w, s>> \in held' <=> <<w, s>> \in held \/ (w = v /\ s = t)
    BY <1>4 DEF SeatAt
  <2>2. \A w \in Visits \ {v} : visit'[w] = visit[w]
    BY <1>4 DEF SeatAt
  <2>3. \A w \in Visits \ {v} : shown(w)' = shown(w)
    BY <1>1, <2>1, <2>2, SameShown
  <2>4. shown(v)' = [state |-> "OCCUPIED", table |-> t]
    <3>1. visit'[v].status = "OPEN" /\ <<v, t>> \in held'
      BY <1>2, <1>4, <2>1 DEF SeatAt, Visit
    <3> QED
      BY <1>1, <3>1 DEF ShownFacts
  <2>5. shown(v).state = "EXPECTED"
    BY <1>1, <1>4 DEF SeatAt, ShownFacts, Keeps
  <2>6. \A w \in Visits : shown(w).table # t
    BY <1>1, <1>4, FreeTable DEF SeatAt
  <2>7. place' = [place EXCEPT ![v] = [state |-> "OCCUPIED", table |-> t]]
    BY <2>3, <2>4, PlaceChanges
  <2>8. Promise!Seat(v, t)
    BY <2>5, <2>6, <2>7 DEF Promise!Seat, Promise!Free, Promise!At
  <2> QED
    BY <2>8 DEF Promise!Next
<1>5. ASSUME NEW v \in Visits, NEW t \in Tables, MoveTo(v, t)
      PROVE  [Promise!Next]_place
  <2>1. \A w \in Visits, s \in Tables :
          <<w, s>> \in held' <=> IF w = v THEN s = t ELSE <<w, s>> \in held
    BY <1>5, RowsAre DEF MoveTo
  <2>2. \A w \in Visits \ {v} : shown(w)' = shown(w)
    BY <1>1, <1>5, <2>1, SameShown DEF MoveTo
  <2>3. shown(v)' = [state |-> "OCCUPIED", table |-> t]
    BY <1>1, <1>5, <2>1 DEF ShownFacts, MoveTo
  <2>4. CASE <<v, t>> \in held
    <3>1. shown(v) = [state |-> "OCCUPIED", table |-> t]
      BY <1>1, <1>5, <2>4 DEF ShownFacts, MoveTo
    <3>2. \A w \in Visits : shown(w)' = shown(w)
      BY <2>2, <2>3, <3>1
    <3> QED
      BY <3>2
  <2>5. CASE <<v, t>> \notin held
    <3>1. holderOf(t) = {}
      BY <1>5, <2>5 DEF MoveTo, holderOf
    <3>2. shown(v).state = "OCCUPIED"
      <4>1. PICK s \in Tables : <<v, s>> \in held
        BY <1>5 DEF MoveTo, Seated, Keeps
      <4> QED
        BY <1>1, <1>5, <4>1 DEF ShownFacts, MoveTo
    <3>3. \A w \in Visits : shown(w).table # t
      BY <1>1, <3>1, FreeTable
    <3>4. place' = [place EXCEPT ![v] = [state |-> "OCCUPIED", table |-> t]]
      BY <2>2, <2>3, PlaceChanges
    <3>5. Promise!Move(v, t)
      BY <3>2, <3>3, <3>4 DEF Promise!Move, Promise!Free, Promise!At
    <3> QED
      BY <3>5 DEF Promise!Next
  <2> QED
    BY <2>4, <2>5
<1>6. ASSUME NEW v \in Visits, NEW n \in BOOLEAN, LeaveFor(v, n) PROVE Promise!Next
  <2>1. \A w \in Visits, s \in Tables :
          <<w, s>> \in held' <=> <<w, s>> \in held /\ (w = v => n)
    BY <1>6, RowsAre DEF LeaveFor
  <2>2. /\ visit'[v].status = "CLOSED" /\ visit'[v].needsCleaning = n
        /\ visit'[v].cleaned = visit[v].cleaned
    BY <1>2, <1>6 DEF LeaveFor, Visit
  <2>3. \A w \in Visits \ {v} : visit'[w] = visit[w]
    BY <1>6 DEF LeaveFor
  <2>4. \A w \in Visits \ {v} : shown(w)' = shown(w)
    BY <1>1, <2>1, <2>3, SameShown
  <2>5. PICK t \in Tables : <<v, t>> \in held
    BY <1>6 DEF LeaveFor, Seated, Keeps
  <2>6. shown(v) = [state |-> "OCCUPIED", table |-> t]
    BY <1>1, <1>6, <2>5 DEF ShownFacts, LeaveFor
  <2>7. shown(v)' = IF n THEN [state |-> "CLEANING", table |-> t]
                         ELSE [state |-> "OVER", table |-> None]
    <3>1. CASE n
      BY <1>1, <2>1, <2>2, <2>5, <3>1 DEF ShownFacts
    <3>2. CASE ~n
      <4>1. ~Keeps(v)'
        BY <2>2, <3>2 DEF Keeps
      <4> QED
        BY <1>1, <2>2, <3>2, <4>1 DEF ShownFacts
    <3> QED
      BY <3>1, <3>2
  <2>8. \/ place' = [place EXCEPT ![v] = [state |-> "CLEANING", table |-> t]]
        \/ place' = [place EXCEPT ![v] = [state |-> "OVER", table |-> None]]
    BY <2>4, <2>7, PlaceChanges
  <2>9. Promise!Leave(v)
    <3>1. place[v].state = "OCCUPIED" /\ place[v].table = t
      BY <2>6
    <3>2. CASE place' = [place EXCEPT ![v] = [state |-> "CLEANING", table |-> t]]
      BY <3>1, <3>2 DEF Promise!Leave, Promise!At
    <3>3. CASE place' = [place EXCEPT ![v] = [state |-> "OVER", table |-> None]]
      BY <3>1, <3>3 DEF Promise!Leave, Promise!NoTable
    <3> QED
      BY <2>8, <3>2, <3>3
  <2> QED
    BY <2>9 DEF Promise!Next
<1>7. ASSUME NEW v \in Visits, CleanAfter(v) PROVE [Promise!Next]_place
  <2>1. \A w \in Visits, s \in Tables : <<w, s>> \in held' <=> <<w, s>> \in held /\ w # v
    BY <1>7, RowsAre DEF CleanAfter
  <2>2. visit'[v].status = "CLOSED" /\ visit'[v].cleaned
    BY <1>2, <1>7 DEF CleanAfter, Visit
  <2>3. \A w \in Visits \ {v} : visit'[w] = visit[w]
    BY <1>7 DEF CleanAfter
  <2>4. \A w \in Visits \ {v} : shown(w)' = shown(w)
    BY <1>1, <2>1, <2>3, SameShown
  <2>5. shown(v)' = [state |-> "OVER", table |-> None]
    <3>1. ~Keeps(v)'
      BY <2>2 DEF Keeps
    <3> QED
      BY <1>1, <2>2, <3>1 DEF ShownFacts
  <2>6. CASE Keeps(v)
    <3>1. PICK t \in Tables : <<v, t>> \in held
      BY <2>6 DEF Seated
    <3>2. shown(v).state = "CLEANING"
      BY <1>1, <1>7, <3>1 DEF ShownFacts, CleanAfter
    <3>3. place' = [place EXCEPT ![v] = [state |-> "OVER", table |-> None]]
      BY <2>4, <2>5, PlaceChanges
    <3>4. Promise!Clean(v)
      BY <3>2, <3>3 DEF Promise!Clean, Promise!NoTable
    <3> QED
      BY <3>4 DEF Promise!Next
  <2>7. CASE ~Keeps(v)
    <3>1. shown(v) = [state |-> "OVER", table |-> None]
      BY <1>1, <1>7, <2>7 DEF ShownFacts, CleanAfter
    <3>2. \A w \in Visits : shown(w)' = shown(w)
      BY <2>4, <2>5, <3>1
    <3> QED
      BY <3>2
  <2> QED
    BY <2>6, <2>7
<1> QED
  BY <1>3, <1>4, <1>5, <1>6, <1>7 DEF RoomsStep

LEMMA PromiseInit == Init => Promise!Init
<1> SUFFICES ASSUME Init PROVE Promise!Init
  OBVIOUS
<1>1. ShownFacts
  BY InvInit, ShownNow DEF Inv
<1>2. \A v \in Visits : shown(v) = [state |-> "EXPECTED", table |-> None]
  BY <1>1 DEF Init, ShownFacts, Keeps
<1> QED
  BY <1>2 DEF Promise!Init, Promise!NoTable

\* The table rows and the visits tell the story of Seating, whatever requests
\* meet: guests have one table of their own from the moment they are seated until
\* they leave, and it is kept for its cleaning and no longer.
THEOREM PromisedTheorem == Spec => Promised
<1>1. Inv /\ Inv' /\ [Next]_vars => [Promise!Next]_([v \in Visits |-> shown(v)])
  <2> SUFFICES ASSUME Inv, Inv', [Next]_vars
               PROVE  [Promise!Next]_([v \in Visits |-> shown(v)])
    OBVIOUS
  <2>1. RoomsStep
    BY SharedNext DEF vars, rooms, RoomsStep
  <2> QED
    BY <2>1, PromiseNext DEF Inv
<1> QED
  BY <1>1, PromiseInit, InvAlways, PTL DEF Spec, Promised, Promise!Spec
=============================================================================
