------------------------ MODULE EventDelivery_proofs ------------------------
(* Safety of EventDelivery for any number of events, consumers, dispatchers, *)
(* crashes, retries and batches of any size. The inductive invariant says     *)
(* what a dispatcher knows of the event it delivers (Delivering), that every  *)
(* claim pays for at most one more effect (Paid), and that the outcomes a     *)
(* dispatcher has so far count (Outcomes). A retry by a person takes excuses  *)
(* and attempts back; what a delivery under way knows counts on, because the  *)
(* retry notes which deliveries it came too late for (met, overtaken).        *)
EXTENDS EventDelivery, FiniteSetTheorems, WellFoundedInduction, TLAPS

\* What a dispatcher at work knows of its batch and of the handler it runs. A
\* handler that succeeded did its work.
Knows(d) ==
  /\ \A x, y \in work[d].batch : x.event = y.event => x = y
  /\ \A x \in work[d].batch : outbox[x.event].recorded
  /\ work[d].consumer # "none" => work[d].consumer \in Remaining(d)
  /\ \A c \in work[d].waiting : c \in Listeners[Current(d)]
  /\ work[d].pc = "aside" => Exhausted(Claimed(d).attempt)
  /\ work[d].pc \in {"record", "report"} /\ work[d].outcome = "done"
       => effects[work[d].consumer][Current(d)] > 0

Delivering == \A d \in Dispatchers : Knows(d)

\* The handler ran, or will not run, for the claim under way.
Spent(q, c) ==
  \/ c \in q.done \cup q.waiting
  \/ q.pc = "aside"
  \/ c = q.consumer /\ q.pc \in {"record", "report"}

\* The dispatcher may still run the handler of the event for the claim it holds.
MayHandle(d, c, e) ==
  /\ \E x \in work[d].batch : x.event = e
  /\ e = Current(d) => ~Spent(work[d], c)

\* Every claim of an event pays for one effect, made or still possible.
Paid ==
  \A c \in Consumers, e \in Events :
    effects[c][e] + Cardinality({d \in Dispatchers : MayHandle(d, c, e)}) <= outbox[e].claims

Inv == TypeOK /\ Delivering /\ ProcessedWasHandled /\ Paid

\* What the inbox holds back was excused.
HeldIsExcused ==
  \A c \in Consumers, e \in Events : inbox[c][e] \in {"BLOCKED", "FAILED"} => Reached(c, e)

\* The outcomes a dispatcher has so far count, and the attempts of an event whose
\* last one it makes are spent.
Counts(d) ==
  /\ work[d].pc # "idle" => \A c \in work[d].done : Reached(c, Current(d))
  /\ work[d].pc = "report" => Reached(work[d].consumer, Current(d))
  /\ \A x \in work[d].batch : Exhausted(x.attempt) => OutOfAttempts(x.event)

Outcomes == HeldIsExcused /\ \A d \in Dispatchers : Counts(d)

FullInv == Inv /\ Outcomes /\ RetryIsDelivered

-----------------------------------------------------------------------------
(* Facts about the operators                                                 *)

\* A batch that is not empty has an oldest event.
LEMMA OldestOfBatch ==
  ASSUME NEW batch \in SUBSET [event : Events, attempt : Nat], batch # {}
  PROVE  Oldest(batch) \in batch
<1> DEFINE numbers == {x.event : x \in batch}
<1>1. numbers \subseteq Nat /\ numbers # {}
  <2>1. \A x \in batch : x.event \in Nat
    BY DeliveryAssumption
  <2>2. PICK x \in batch : TRUE
    OBVIOUS
  <2> QED
    BY <2>1, <2>2
<1> DEFINE less == {pair \in Nat \X Nat : pair[1] < pair[2]}
<1>2. PICK n \in numbers : \A m \in numbers : ~(<<m, n>> \in less)
  <2>1. IsWellFoundedOn(less, Nat)
    BY NatLessThanWellFounded DEF OpToRel
  <2> HIDE DEF less
  <2> QED
    BY <1>1, <2>1, WFMin
<1>3. \A m \in numbers : n <= m
  <2> SUFFICES ASSUME NEW m \in numbers PROVE n <= m
    OBVIOUS
  <2>1. n \in Nat /\ m \in Nat
    BY <1>1
  <2>2. <<m, n>> \notin less
    BY <1>2
  <2> HIDE DEF numbers
  <2>3. ~(m < n)
    BY <2>1, <2>2
  <2> QED
    BY <2>1, <2>3
<1>4. PICK x \in batch : x.event = n
  BY <1>2
<1>5. \A y \in batch : x.event <= y.event
  BY <1>3, <1>4
<1> QED
  BY <1>5 DEF Oldest

\* A dispatcher at work delivers an event of its batch.
LEMMA ClaimedInBatch ==
  ASSUME TypeOK, NEW d \in Dispatchers, work[d].pc # "idle"
  PROVE  /\ Claimed(d) \in work[d].batch
         /\ Current(d) \in Events
         /\ Claimed(d).attempt \in Nat
<1>1. work[d] \in Work /\ work[d].batch # {}
  BY DEF TypeOK
<1>2. Claimed(d) \in work[d].batch
  BY <1>1, OldestOfBatch DEF Claimed, Work
<1> QED
  BY <1>1, <1>2 DEF Current, Work

LEMMA IdleType == Idle \in Work
  BY DEF Idle, Work

\* A dispatcher whose batch stays delivers the same event.
LEMMA SameBatch ==
  ASSUME NEW d, work'[d].batch = work[d].batch
  PROVE  Claimed(d)' = Claimed(d) /\ Current(d)' = Current(d)
  BY DEF Claimed, Current

-----------------------------------------------------------------------------
(* Type correctness, one lemma per action                                    *)

\* A dispatcher is idle exactly when it has nothing claimed, and has a consumer
\* at hand exactly while it runs a handler.
WellFormed(q) ==
  /\ q \in Work
  /\ q.pc = "idle" <=> q.batch = {}
  /\ q.consumer = "none" <=> q.pc \in {"idle", "deliver", "aside"}

LEMMA IdleWellFormed == WellFormed(Idle)
  BY DEF WellFormed, Idle, Work

LEMMA WorkWellFormed ==
  ASSUME TypeOK, NEW d \in Dispatchers
  PROVE  WellFormed(work[d])
  BY DEF TypeOK, WellFormed

\* A step of one dispatcher that leaves it well formed keeps the types.
LEMMA WorkStepTyped ==
  ASSUME TypeOK, NEW d \in Dispatchers, NEW q, WellFormed(q),
         work' = [work EXCEPT ![d] = q],
         outbox' \in [Events -> Row],
         inbox' \in [Consumers -> [Events -> InboxStatus]],
         effects' \in [Consumers -> [Events -> Nat]],
         excused' \in [Consumers -> SUBSET Events],
         crashes' \in 0 .. MaxCrashes,
         UNCHANGED <<bindings, active, retries, history>>
  PROVE  TypeOK'
<1>1. work' \in [Dispatchers -> Work]
  BY DEF TypeOK, WellFormed
<1>2. \A f \in Dispatchers : WellFormed(work'[f])
  BY WorkWellFormed DEF TypeOK
<1>3. \A f \in Dispatchers :
        /\ (work'[f].pc = "idle") = (work'[f].batch = {})
        /\ (work'[f].consumer = "none") = (work'[f].pc \in {"idle", "deliver", "aside"})
  BY <1>2 DEF WellFormed
<1> QED
  BY <1>1, <1>3 DEF TypeOK, bindings, history

LEMMA EnvironmentTyped ==
  ASSUME TypeOK,
         \/ \E e \in Events : Append(e) \/ BecomeDue(e)
         \/ \E c \in Consumers :
              \/ SwitchModule(c)
              \/ \E decision \in Bindings \ {"skip"} : Pause(c, decision)
              \/ "skip" \in Bindings /\ (disableForModule(c) \/ ensureForModule(c))
  PROVE  TypeOK'
<1>1. ASSUME NEW e \in Events, Append(e) \/ BecomeDue(e) PROVE TypeOK'
  <2>1. outbox' \in [Events -> Row]
    <3>1. outbox' = [outbox EXCEPT ![e] = [@ EXCEPT !.recorded = TRUE, !.due = TRUE]]
            \/ outbox' = [outbox EXCEPT ![e] = [@ EXCEPT !.due = TRUE]]
      BY <1>1 DEF Append, BecomeDue
    <3>2. outbox \in [Events -> Row]
      BY DEF TypeOK
    <3>3. \A r \in Row : /\ [r EXCEPT !.recorded = TRUE, !.due = TRUE] \in Row
                         /\ [r EXCEPT !.due = TRUE] \in Row
      BY DEF Row
    <3> QED
      BY <3>1, <3>2, <3>3
  <2>2. UNCHANGED <<inbox, effects, excused, bindings, active, work, crashes, retries, history>>
    BY <1>1 DEF Append, BecomeDue
  <2> QED
    BY <2>1, <2>2 DEF TypeOK, bindings, history
<1>2. ASSUME NEW c \in Consumers, SwitchModule(c) PROVE TypeOK'
  BY <1>2 DEF SwitchModule, TypeOK, bindings, history
<1>3. ASSUME NEW c \in Consumers, NEW decision \in Bindings, Pause(c, decision) PROVE TypeOK'
  BY <1>3 DEF Pause, TypeOK, bindings, history
<1>4. ASSUME NEW c \in Consumers, "skip" \in Bindings, disableForModule(c) PROVE TypeOK'
  BY <1>4 DEF disableForModule, TypeOK, bindings, history
<1>5. ASSUME NEW c \in Consumers, "skip" \in Bindings, ensureForModule(c) PROVE TypeOK'
  BY <1>5, DeliveryAssumption DEF ensureForModule, TypeOK, bindings, history
<1> QED
  BY <1>1, <1>2, <1>3, <1>4, <1>5

LEMMA RetryTyped ==
  ASSUME TypeOK, NEW c \in Consumers, Retry(c)
  PROVE  TypeOK'
<1>1. outbox' \in [Events -> Row]
  <2>1. outbox \in [Events -> Row]
    BY DEF TypeOK
  <2>2. \A r \in Row : [r EXCEPT !.due = TRUE, !.attempts = 0, !.processed = FALSE,
                                 !.failed = FALSE] \in Row
    BY DEF Row
  <2> QED
    BY <2>1, <2>2 DEF Retry
<1>2. inbox' \in [Consumers -> [Events -> InboxStatus]]
  BY DEF Retry, TypeOK, InboxStatus
<1>3. binding' \in [Consumers -> Bindings] /\ excused' \in [Consumers -> SUBSET Events]
  BY DeliveryAssumption DEF Retry, TypeOK
<1>4. retries' \in 0 .. MaxRetries
  <2>1. retries < MaxRetries /\ retries' = retries + 1
    BY DEF Retry
  <2>2. retries \in 0 .. MaxRetries
    BY DEF TypeOK
  <2> QED
    BY <2>1, <2>2, DeliveryAssumption
<1>5. UNCHANGED <<effects, early, active, work, crashes>>
  BY DEF Retry
<1>6. met' \in [Consumers -> SUBSET Events] /\ overtaken' \subseteq Events
  <2>1. Held(c) \subseteq Events
    BY DEF Held
  <2> QED
    BY <2>1 DEF Retry, Meet, TypeOK
<1> QED
  BY <1>1, <1>2, <1>3, <1>4, <1>5, <1>6 DEF TypeOK

LEMMA ClaimTyped ==
  ASSUME TypeOK, NEW d \in Dispatchers, Claim(d)
  PROVE  TypeOK'
<1> DEFINE due == {e \in Events : Claimable(e)}
           taken == {e \in due : Cardinality({f \in due : f < e}) < BatchSize}
           batch == {[event |-> e, attempt |-> outbox'[e].attempts] : e \in taken}
           q == [Idle EXCEPT !.pc = "deliver", !.batch = batch]
<1>1. taken \subseteq Events /\ taken # {}
  BY DEF Claim
<1>2. outbox' \in [Events -> Row]
  <2> HIDE DEF taken
  <2>1. outbox' = [e \in Events |->
           IF e \in taken THEN [outbox[e] EXCEPT !.due = FALSE, !.attempts = @ + 1, !.claims = @ + 1]
                          ELSE outbox[e]]
    BY DEF Claim, taken
  <2>2. outbox \in [Events -> Row]
    BY DEF TypeOK
  <2>3. \A r \in Row, n, k \in Nat :
          [r EXCEPT !.due = FALSE, !.attempts = n, !.claims = k] \in Row
    BY DEF Row
  <2>4. \A r \in Row : r.attempts + 1 \in Nat /\ r.claims + 1 \in Nat
    BY DEF Row
  <2> QED
    BY <1>1, <2>1, <2>2, <2>3, <2>4
<1>3. batch \in SUBSET [event : Events, attempt : Nat] /\ batch # {}
  <2>1. \A e \in taken : [event |-> e, attempt |-> outbox'[e].attempts]
                          \in [event : Events, attempt : Nat]
    BY <1>1, <1>2 DEF Row
  <2> HIDE DEF taken
  <2>2. PICK e : e \in taken
    BY <1>1
  <2> QED
    BY <2>1, <2>2
<1>4. WellFormed(q)
  <2> HIDE DEF batch
  <2> QED
    BY <1>3 DEF WellFormed, Idle, Work
<1>5. work' = [work EXCEPT ![d] = q]
  BY DEF Claim
<1> HIDE DEF q
<1> QED
  BY <1>2, <1>4, <1>5, WorkStepTyped DEF Claim, TypeOK

LEMMA LookTyped ==
  ASSUME TypeOK, NEW d \in Dispatchers, NEW c \in Consumers, Look(d, c)
  PROVE  TypeOK'
<1> DEFINE look == [work[d] EXCEPT !.pc = "decide", !.consumer = c]
<1>1. WellFormed(work[d]) /\ work[d].pc = "deliver"
  BY WorkWellFormed DEF Look
<1>2. WellFormed(Done(d, c)) /\ WellFormed(look)
  BY <1>1, DeliveryAssumption DEF WellFormed, Work, Done
<1>3. work' = [work EXCEPT ![d] = Done(d, c)] \/ work' = [work EXCEPT ![d] = look]
  BY DEF Look
<1>4. UNCHANGED <<outbox, inbox, effects, excused, bindings, active, crashes, retries, history>>
  BY DEF Look
<1> HIDE DEF look
<1> QED
  BY <1>2, <1>3, <1>4, WorkStepTyped DEF TypeOK

\* What running a handler may make of the work of a dispatcher.
LEMMA HandlerWorkTyped ==
  ASSUME TypeOK, NEW d \in Dispatchers, work[d].pc \in {"decide", "handle", "record", "report"}
  PROVE  LET c == work[d].consumer
         IN  /\ c \in Consumers
             /\ Current(d) \in Events
             /\ WellFormed(Done(d, c))
             /\ WellFormed(Wait(d, c))
             /\ \A o \in {"done", "error", "blocked"} :
                  WellFormed([work[d] EXCEPT !.pc = "record", !.outcome = o])
             /\ WellFormed([work[d] EXCEPT !.pc = "handle"])
             /\ WellFormed([work[d] EXCEPT !.pc = "report"])
<1>1. WellFormed(work[d]) /\ work[d].consumer \in Consumers
  BY WorkWellFormed DEF WellFormed, Work
<1>2. Current(d) \in Events
  BY ClaimedInBatch
<1> QED
  BY <1>1, <1>2 DEF WellFormed, Work, Done, Wait

\* A note in the inbox.
LEMMA SetInboxTyped ==
  ASSUME TypeOK, NEW c \in Consumers, NEW e \in Events, NEW s \in InboxStatus,
         SetInbox(c, e, s)
  PROVE  inbox' \in [Consumers -> [Events -> InboxStatus]]
  BY DEF TypeOK, SetInbox

LEMMA DecideTyped ==
  ASSUME TypeOK, NEW d \in Dispatchers, Decide(d)
  PROVE  TypeOK'
<1> DEFINE c == work[d].consumer
           handle == [work[d] EXCEPT !.pc = "handle"]
<1>1. work[d].pc = "decide"
  BY DEF Decide
<1>2. /\ c \in Consumers /\ Current(d) \in Events
      /\ WellFormed(Done(d, c)) /\ WellFormed(Wait(d, c)) /\ WellFormed(handle)
  BY <1>1, HandlerWorkTyped
<1>3. \E q : WellFormed(q) /\ work' = [work EXCEPT ![d] = q]
  BY <1>2 DEF Decide
<1>4. inbox' \in [Consumers -> [Events -> InboxStatus]]
  BY <1>2, SetInboxTyped DEF Decide, TypeOK, InboxStatus
<1>5. excused' \in [Consumers -> SUBSET Events]
  <2>1. excused' = excused \/ excused' = [excused EXCEPT ![c] = @ \cup {Current(d)}]
    BY DEF Decide
  <2>2. excused \in [Consumers -> SUBSET Events] /\ Current(d) \in Events
    BY <1>2 DEF TypeOK
  <2> HIDE DEF c
  <2> QED
    BY <2>1, <2>2
<1>6. UNCHANGED <<outbox, effects, bindings, active, crashes, retries, history>>
  BY DEF Decide
<1> QED
  BY <1>3, <1>4, <1>5, <1>6, WorkStepTyped DEF TypeOK

LEMMA HandleTyped ==
  ASSUME TypeOK, NEW d \in Dispatchers, Handle(d)
  PROVE  TypeOK'
<1> DEFINE c == work[d].consumer
           record(o) == [work[d] EXCEPT !.pc = "record", !.outcome = o]
<1>1. work[d].pc = "handle"
  BY DEF Handle
<1>2. /\ c \in Consumers /\ Current(d) \in Events
      /\ WellFormed(record("done")) /\ WellFormed(record("error"))
      /\ WellFormed(record("blocked"))
  BY <1>1, HandlerWorkTyped
<1>3. \E q : WellFormed(q) /\ work' = [work EXCEPT ![d] = q]
  BY <1>2 DEF Handle
<1>4. effects' \in [Consumers -> [Events -> Nat]]
  <2>1. effects \in [Consumers -> [Events -> Nat]]
    BY DEF TypeOK
  <2>2. effects[c][Current(d)] + 1 \in Nat
    BY <1>2, <2>1
  <2>3. effects' = [effects EXCEPT ![c][Current(d)] = effects[c][Current(d)] + 1]
          \/ effects' = effects
    BY DEF Handle
  <2>4. \A n \in Nat : [effects EXCEPT ![c][Current(d)] = n] \in [Consumers -> [Events -> Nat]]
    BY <1>2, <2>1
  <2> QED
    BY <2>1, <2>2, <2>3, <2>4
<1>5. UNCHANGED <<outbox, inbox, excused, bindings, active, crashes, retries, history>>
  BY DEF Handle
<1> QED
  BY <1>3, <1>4, <1>5, WorkStepTyped DEF TypeOK

LEMMA RecordOutcomeTyped ==
  ASSUME TypeOK, NEW d \in Dispatchers, RecordOutcome(d)
  PROVE  TypeOK'
<1> DEFINE c == work[d].consumer
           report == [work[d] EXCEPT !.pc = "report"]
<1>1. work[d].pc = "record"
  BY DEF RecordOutcome
<1>2. /\ c \in Consumers /\ Current(d) \in Events
      /\ WellFormed(report) /\ WellFormed(Wait(d, c))
  BY <1>1, HandlerWorkTyped
<1>3. \E q : WellFormed(q) /\ work' = [work EXCEPT ![d] = q]
  BY <1>2 DEF RecordOutcome
<1>4. inbox' \in [Consumers -> [Events -> InboxStatus]]
  BY <1>2, SetInboxTyped DEF RecordOutcome, InboxStatus
<1>5. excused' \in [Consumers -> SUBSET Events]
  BY <1>2 DEF RecordOutcome, TypeOK
<1>6. UNCHANGED <<outbox, effects, bindings, active, crashes, retries, history>>
  BY DEF RecordOutcome
<1> QED
  BY <1>3, <1>4, <1>5, <1>6, WorkStepTyped DEF TypeOK

LEMMA ReportTyped ==
  ASSUME TypeOK, NEW d \in Dispatchers, Report(d)
  PROVE  TypeOK'
<1> DEFINE c == work[d].consumer
<1>1. work[d].pc = "report"
  BY DEF Report
<1>2. /\ c \in Consumers /\ Current(d) \in Events
      /\ WellFormed(Done(d, c)) /\ WellFormed(Wait(d, c))
  BY <1>1, HandlerWorkTyped
<1>3. \E q : WellFormed(q) /\ work' = [work EXCEPT ![d] = q]
  BY <1>2 DEF Report
<1>4. inbox' \in [Consumers -> [Events -> InboxStatus]]
  BY <1>2, SetInboxTyped DEF Report, InboxStatus, TypeOK
<1>5. UNCHANGED <<outbox, effects, excused, bindings, active, crashes, retries, history>>
  BY DEF Report
<1> QED
  BY <1>3, <1>4, <1>5, WorkStepTyped DEF TypeOK

\* The dispatcher goes on with the rest of its batch.
LEMMA NextEventTyped ==
  ASSUME TypeOK, NEW d \in Dispatchers, NextEvent(d)
  PROVE  \E q : WellFormed(q) /\ work' = [work EXCEPT ![d] = q]
<1> DEFINE rest == work[d].batch \ {Claimed(d)}
           next == [Idle EXCEPT !.pc = "deliver", !.batch = rest]
<1>1. rest \in SUBSET [event : Events, attempt : Nat]
  BY WorkWellFormed DEF WellFormed, Work
<1>2. rest # {} => WellFormed(next)
  <2> HIDE DEF rest
  <2> QED
    BY <1>1 DEF WellFormed, Idle, Work
<1>3. work' = [work EXCEPT ![d] = IF rest = {} THEN Idle ELSE next]
  BY DEF NextEvent
<1> HIDE DEF next
<1> QED
  BY <1>2, <1>3, IdleWellFormed

\* A mark on an event of the outbox keeps its type.
LEMMA MarkTyped ==
  ASSUME TypeOK, NEW e \in Events
  PROVE  /\ [outbox EXCEPT ![e].processed = TRUE] \in [Events -> Row]
         /\ [outbox EXCEPT ![e].failed = TRUE] \in [Events -> Row]
         /\ [outbox EXCEPT ![e].due = FALSE] \in [Events -> Row]
<1>1. outbox \in [Events -> Row]
  BY DEF TypeOK
<1>2. \A r \in Row : /\ [r EXCEPT !.processed = TRUE] \in Row
                     /\ [r EXCEPT !.failed = TRUE] \in Row
                     /\ [r EXCEPT !.due = FALSE] \in Row
  BY DEF Row
<1> QED
  BY <1>1, <1>2

LEMMA SettleTyped ==
  ASSUME TypeOK, NEW d \in Dispatchers, Settle(d)
  PROVE  TypeOK'
<1> DEFINE aside == [work[d] EXCEPT !.pc = "aside"]
<1>1. WellFormed(work[d]) /\ work[d].pc = "deliver" /\ Current(d) \in Events
  BY WorkWellFormed, ClaimedInBatch DEF Settle
<1>2. WellFormed(aside)
  BY <1>1 DEF WellFormed, Work
<1>3. \E q : WellFormed(q) /\ work' = [work EXCEPT ![d] = q]
  BY <1>2, NextEventTyped DEF Settle
<1>4. outbox' \in [Events -> Row]
  <2>1. \/ outbox' = [outbox EXCEPT ![Current(d)].processed = TRUE]
        \/ outbox' = [outbox EXCEPT ![Current(d)].due = FALSE]
        \/ outbox' = outbox
    BY DEF Settle
  <2>2. outbox \in [Events -> Row]
    BY DEF TypeOK
  <2> QED
    BY <1>1, <2>1, <2>2, MarkTyped
<1>5. UNCHANGED <<inbox, effects, excused, bindings, active, crashes, retries, history>>
  BY DEF Settle
<1> QED
  BY <1>3, <1>4, <1>5, WorkStepTyped DEF TypeOK

LEMMA SetAsideTyped ==
  ASSUME TypeOK, NEW d \in Dispatchers, SetAside(d)
  PROVE  TypeOK'
<1>1. WellFormed(work[d]) /\ work[d].pc = "aside" /\ Current(d) \in Events
  BY WorkWellFormed, ClaimedInBatch DEF SetAside
<1>2. UNCHANGED <<effects, bindings, active, crashes, retries, history>>
  BY DEF SetAside
<1>3. ASSUME NEW c \in work[d].waiting,
             SetInbox(c, Current(d), "FAILED"),
             excused' = [excused EXCEPT ![c] = @ \cup {Current(d)}],
             work' = [work EXCEPT ![d].waiting = @ \ {c}],
             UNCHANGED outbox
      PROVE  TypeOK'
  <2> DEFINE q == [work[d] EXCEPT !.waiting = @ \ {c}]
  <2>1. c \in Consumers /\ WellFormed(q) /\ work' = [work EXCEPT ![d] = q]
    BY <1>1, <1>3 DEF WellFormed, Work
  <2>2. inbox' \in [Consumers -> [Events -> InboxStatus]]
    BY <1>1, <1>3, <2>1, SetInboxTyped DEF InboxStatus
  <2>3. excused' \in [Consumers -> SUBSET Events]
    BY <1>1, <1>3, <2>1 DEF TypeOK
  <2> HIDE DEF q
  <2> QED
    BY <1>2, <1>3, <2>1, <2>2, <2>3, WorkStepTyped DEF TypeOK
<1>4. CASE /\ outbox' = [outbox EXCEPT ![Current(d)].failed = TRUE]
           /\ NextEvent(d)
           /\ UNCHANGED <<inbox, excused>>
  <2>1. outbox' \in [Events -> Row]
    BY <1>1, <1>4, MarkTyped
  <2>2. \E q : WellFormed(q) /\ work' = [work EXCEPT ![d] = q]
    BY <1>4, NextEventTyped
  <2>3. UNCHANGED crashes /\ UNCHANGED <<bindings, active, retries, history>>
    BY <1>2
  <2> QED
    BY <1>2, <1>4, <2>1, <2>2, <2>3, WorkStepTyped DEF TypeOK
<1> QED
  BY <1>3, <1>4 DEF SetAside

LEMMA AbandonTyped ==
  ASSUME TypeOK, NEW d \in Dispatchers, Abandon(d)
  PROVE  TypeOK'
<1>1. crashes' \in 0 .. MaxCrashes
  <2>1. crashes < MaxCrashes /\ crashes' = crashes + 1
    BY DEF Abandon
  <2>2. crashes \in 0 .. MaxCrashes
    BY DEF TypeOK
  <2> QED
    BY <2>1, <2>2, DeliveryAssumption
<1> QED
  BY <1>1, IdleWellFormed, WorkStepTyped DEF Abandon, TypeOK

\* One step of the environment, other than a person's retry.
Environment ==
  \/ \E e \in Events : Append(e) \/ BecomeDue(e)
  \/ \E c \in Consumers :
       \/ SwitchModule(c)
       \/ \E decision \in Bindings \ {"skip"} : Pause(c, decision)
       \/ "skip" \in Bindings /\ (disableForModule(c) \/ ensureForModule(c))

LEMMA NextCases ==
  ASSUME Next
  PROVE  \/ Environment
         \/ \E c \in Consumers : Retry(c)
         \/ \E d \in Dispatchers : Claim(d) \/ Step(d) \/ Abandon(d)
  BY DEF Next, Environment

LEMMA TypeInit == Init => TypeOK
<1> SUFFICES ASSUME Init PROVE TypeOK
  OBVIOUS
<1>1. outbox \in [Events -> Row]
  BY DEF Init, Row
<1>2. work \in [Dispatchers -> Work] /\ \A d \in Dispatchers : work[d] = Idle
  BY IdleType DEF Init
<1>3. crashes \in 0 .. MaxCrashes /\ retries \in 0 .. MaxRetries
  BY DeliveryAssumption DEF Init
<1>4. /\ inbox \in [Consumers -> [Events -> InboxStatus]]
      /\ effects \in [Consumers -> [Events -> Nat]]
      /\ excused \in [Consumers -> SUBSET Events]
      /\ binding \in [Consumers -> Bindings]
      /\ early \in [Consumers -> SUBSET Events]
      /\ active \subseteq Consumers
      /\ met \in [Consumers -> SUBSET Events] /\ overtaken \subseteq Events
  BY DEF Init, InboxStatus
<1> QED
  BY <1>1, <1>2, <1>3, <1>4 DEF TypeOK, Idle

LEMMA TypeNext == TypeOK /\ [Next]_vars => TypeOK'
<1> SUFFICES ASSUME TypeOK, [Next]_vars PROVE TypeOK'
  OBVIOUS
<1>1. CASE Environment
  BY <1>1, EnvironmentTyped DEF Environment
<1>2. ASSUME NEW c \in Consumers, Retry(c) PROVE TypeOK'
  BY <1>2, RetryTyped
<1>3. ASSUME NEW d \in Dispatchers, Claim(d) \/ Abandon(d) PROVE TypeOK'
  BY <1>3, ClaimTyped, AbandonTyped
<1>4. ASSUME NEW d \in Dispatchers, Step(d) PROVE TypeOK'
  BY <1>4, LookTyped, DecideTyped, HandleTyped, RecordOutcomeTyped, ReportTyped,
     SettleTyped, SetAsideTyped DEF Step
<1>5. CASE UNCHANGED vars
  BY <1>5 DEF vars, bindings, history, TypeOK
<1> QED
  BY <1>1, <1>2, <1>3, <1>4, <1>5, NextCases

-----------------------------------------------------------------------------
(* What every step keeps                                                     *)

\* Events stay recorded, and effects and claims are never taken back.
Growing ==
  /\ \A e \in Events : /\ outbox[e].recorded => outbox'[e].recorded
                       /\ outbox[e].claims <= outbox'[e].claims
  /\ \A c \in Consumers, e \in Events : effects[c][e] <= effects'[c][e]

\* A mark on an event of the outbox, or none, takes no claim back.
LEMMA MarkGrows ==
  ASSUME TypeOK, NEW e \in Events,
         \/ outbox' = [outbox EXCEPT ![e].processed = TRUE]
         \/ outbox' = [outbox EXCEPT ![e].failed = TRUE]
         \/ outbox' = [outbox EXCEPT ![e].due = FALSE]
         \/ outbox' = outbox,
         effects' = effects
  PROVE  Growing
<1> DEFINE Kept == \A f \in Events : /\ outbox'[f].recorded = outbox[f].recorded
                                    /\ outbox'[f].claims = outbox[f].claims
<1>1. Kept /\ \A f \in Events : outbox[f].claims \in Nat
  <2>1. outbox \in [Events -> Row]
    BY DEF TypeOK
  <2>2. CASE outbox' = [outbox EXCEPT ![e].processed = TRUE]
    BY <2>1, <2>2 DEF Row
  <2>3. CASE outbox' = [outbox EXCEPT ![e].failed = TRUE]
    BY <2>1, <2>3 DEF Row
  <2>4. CASE outbox' = [outbox EXCEPT ![e].due = FALSE]
    BY <2>1, <2>4 DEF Row
  <2>5. CASE outbox' = outbox
    BY <2>1, <2>5 DEF Row
  <2> QED
    BY <2>2, <2>3, <2>4, <2>5
<1>2. \A c \in Consumers, f \in Events : effects[c][f] \in Nat
  BY DEF TypeOK
<1> QED
  BY <1>1, <1>2 DEF Growing

LEMMA NextGrows == TypeOK /\ [Next]_vars => Growing
<1> SUFFICES ASSUME TypeOK, [Next]_vars PROVE Growing
  OBVIOUS
<1>1. \A e \in Events : outbox[e] \in Row /\ outbox[e].claims \in Nat
  BY DEF TypeOK, Row
<1>2. \A c \in Consumers, e \in Events : effects[c][e] \in Nat
  BY DEF TypeOK
<1>3. ASSUME effects' = effects,
             \A e \in Events : /\ outbox[e].recorded => outbox'[e].recorded
                              /\ outbox'[e].claims \in {outbox[e].claims, outbox[e].claims + 1}
      PROVE  Growing
  BY <1>1, <1>2, <1>3 DEF Growing
<1>4. CASE Environment \/ UNCHANGED vars
  <2>1. ASSUME NEW e \in Events, Append(e) \/ BecomeDue(e) PROVE Growing
    <3>1. outbox \in [Events -> Row]
      BY DEF TypeOK
    <3>2. CASE Append(e)
      BY <1>3, <3>1, <3>2 DEF Append, Row
    <3>3. CASE BecomeDue(e)
      BY <1>3, <3>1, <3>3 DEF BecomeDue, Row
    <3> QED
      BY <2>1, <3>2, <3>3
  <2>2. CASE UNCHANGED <<outbox, effects>>
    BY <1>3, <2>2
  <2> QED
    BY <1>4, <2>1, <2>2 DEF Environment, SwitchModule, Pause, disableForModule,
       ensureForModule, vars
<1>5. ASSUME NEW c \in Consumers, Retry(c) PROVE Growing
  BY <1>1, <1>3, <1>5 DEF Retry, TypeOK, Row
<1>6. ASSUME NEW d \in Dispatchers, Claim(d) PROVE Growing
  BY <1>1, <1>3, <1>6 DEF Claim, TypeOK, Row
<1>7. ASSUME NEW d \in Dispatchers, Abandon(d) PROVE Growing
  BY <1>3, <1>7 DEF Abandon
<1>8. ASSUME NEW d \in Dispatchers, Step(d) PROVE Growing
  <2>1. CASE UNCHANGED <<outbox, effects>>
    BY <1>3, <2>1
  <2>2. CASE Handle(d)
    <3>1. work[d].consumer \in Consumers /\ Current(d) \in Events
      BY <2>2, HandlerWorkTyped DEF Handle
    <3>2. outbox' = outbox
      BY <2>2 DEF Handle
    <3>3. \A c \in Consumers, e \in Events :
            effects'[c][e] \in {effects[c][e], effects[c][e] + 1}
      <4>1. effects \in [Consumers -> [Events -> Nat]]
        BY DEF TypeOK
      <4>2. effects' = effects \/ effects' = [effects EXCEPT ![work[d].consumer][Current(d)] = @ + 1]
        BY <2>2 DEF Handle
      <4> QED
        BY <3>1, <4>1, <4>2
    <3> QED
      BY <1>1, <1>2, <3>2, <3>3 DEF Growing
  <2>3. CASE Settle(d) \/ SetAside(d)
    BY <2>3, MarkGrows, ClaimedInBatch DEF Settle, SetAside
  <2> QED
    BY <1>8, <2>1, <2>2, <2>3 DEF Step, Look, Decide, RecordOutcome, Report
<1> QED
  BY <1>4, <1>5, <1>6, <1>7, <1>8, NextCases

-----------------------------------------------------------------------------
(* Delivering                                                                *)

\* What a dispatcher knows stays true while others work.
LEMMA KnowsStays ==
  ASSUME TypeOK, Growing, TypeOK', NEW f \in Dispatchers, work'[f] = work[f], Knows(f)
  PROVE  Knows(f)'
<1>1. /\ work'[f] = work[f] /\ Claimed(f)' = Claimed(f) /\ Current(f)' = Current(f)
      /\ Remaining(f)' = Remaining(f)
  BY SameBatch DEF Remaining
<1>2. \A x \in work[f].batch : x.event \in Events
  BY DEF TypeOK, Work
<1>3. /\ \A x \in work'[f].batch : outbox'[x.event].recorded
      /\ \A x, y \in work'[f].batch : x.event = y.event => x = y
      /\ work'[f].consumer # "none" => work'[f].consumer \in Remaining(f)'
      /\ \A c \in work'[f].waiting : c \in Listeners[Current(f)']
      /\ work'[f].pc = "aside" => Exhausted(Claimed(f)'.attempt)
  BY <1>1, <1>2 DEF Knows, Growing
<1>4. ASSUME work[f].pc \in {"record", "report"}, work[f].outcome = "done"
      PROVE  effects'[work[f].consumer][Current(f)] > 0
  <2>1. work[f].consumer \in Consumers /\ Current(f) \in Events
    BY <1>4, HandlerWorkTyped
  <2>2. /\ effects[work[f].consumer][Current(f)] \in Nat
        /\ effects'[work[f].consumer][Current(f)] \in Nat
    BY <2>1 DEF TypeOK
  <2>3. effects[work[f].consumer][Current(f)] > 0
    BY <1>4 DEF Knows
  <2>4. effects[work[f].consumer][Current(f)] <= effects'[work[f].consumer][Current(f)]
    BY <2>1 DEF Growing
  <2> QED
    BY <2>2, <2>3, <2>4
<1> QED
  BY <1>1, <1>3, <1>4 DEF Knows

\* A dispatcher that goes on with the same event.
LEMMA KnowsSameEvent ==
  ASSUME TypeOK, Growing, TypeOK', NEW d \in Dispatchers, Knows(d),
         NEW q, work'[d] = q, q.batch = work[d].batch,
         q.consumer # "none" =>
           q.consumer \in Listeners[Current(d)] \ (q.done \cup q.waiting),
         \A c \in q.waiting : c \in Listeners[Current(d)],
         q.pc = "aside" => Exhausted(Claimed(d).attempt),
         q.pc \in {"record", "report"} /\ q.outcome = "done"
           => effects'[q.consumer][Current(d)] > 0
  PROVE  Knows(d)'
<1>1. Claimed(d)' = Claimed(d) /\ Current(d)' = Current(d)
  BY SameBatch
<1>2. \A x \in work[d].batch : x.event \in Events
  BY DEF TypeOK, Work
<1>3. \A x \in work'[d].batch : outbox'[x.event].recorded
  BY <1>2 DEF Knows, Growing
<1> QED
  BY <1>1, <1>3 DEF Knows, Remaining

\* A dispatcher that goes on with the next event, or is idle again.
LEMMA KnowsNext ==
  ASSUME TypeOK, Growing, NEW d \in Dispatchers, Knows(d), NEW q, work'[d] = q,
         q.batch \subseteq work[d].batch, q.waiting = {}, q.consumer = "none",
         q.pc \in {"idle", "deliver"}
  PROVE  Knows(d)'
<1>1. \A x \in work[d].batch : x.event \in Events
  BY DEF TypeOK, Work
<1>2. \A x \in q.batch : outbox'[x.event].recorded
  BY <1>1 DEF Knows, Growing
<1> QED
  BY <1>2 DEF Knows

LEMMA NextEventKnows ==
  ASSUME TypeOK, Growing, NEW d \in Dispatchers, Knows(d), NextEvent(d)
  PROVE  Knows(d)'
<1> DEFINE rest == work[d].batch \ {Claimed(d)}
           next == [Idle EXCEPT !.pc = "deliver", !.batch = rest]
<1>1. work'[d] = Idle \/ work'[d] = next
  BY DEF NextEvent, TypeOK
<1>2. /\ Idle.batch = {} /\ Idle.waiting = {} /\ Idle.consumer = "none" /\ Idle.pc = "idle"
      /\ next.batch = rest /\ next.waiting = {} /\ next.consumer = "none"
      /\ next.pc = "deliver"
  BY DEF Idle
<1>3. {} \subseteq work[d].batch /\ rest \subseteq work[d].batch
  OBVIOUS
<1> HIDE DEF rest, next
<1> QED
  BY <1>1, <1>2, <1>3, KnowsNext

LEMMA ClaimKnows ==
  ASSUME TypeOK, NEW d \in Dispatchers, Claim(d)
  PROVE  Knows(d)'
<1> DEFINE due == {e \in Events : Claimable(e)}
           taken == {e \in due : Cardinality({f \in due : f < e}) < BatchSize}
           batch == {[event |-> e, attempt |-> outbox'[e].attempts] : e \in taken}
           q == [Idle EXCEPT !.pc = "deliver", !.batch = batch]
<1>1. work'[d] = q
  BY DEF Claim, TypeOK
<1>2. q.batch = batch /\ q.waiting = {} /\ q.consumer = "none" /\ q.pc = "deliver"
  <2> HIDE DEF batch
  <2> QED
    BY DEF Idle
<1>3. \A e \in taken : outbox'[e].recorded
  <2>1. \A e \in taken : e \in Events /\ outbox[e].recorded
    BY DEF Claimable, Unfinished
  <2> HIDE DEF taken
  <2>2. outbox' = [e \in Events |->
           IF e \in taken THEN [outbox[e] EXCEPT !.due = FALSE, !.attempts = @ + 1, !.claims = @ + 1]
                          ELSE outbox[e]]
    BY DEF Claim, taken
  <2> QED
    BY <2>1, <2>2 DEF TypeOK, Row
<1>4. /\ \A x \in batch : outbox'[x.event].recorded
      /\ \A x, y \in batch : x.event = y.event => x = y
  <2> HIDE DEF taken
  <2> QED
    BY <1>3
<1> HIDE DEF batch, q
<1> QED
  BY <1>1, <1>2, <1>4 DEF Knows

LEMMA LookKnows ==
  ASSUME TypeOK, Growing, TypeOK', NEW d \in Dispatchers, NEW c \in Consumers,
         Knows(d), Look(d, c)
  PROVE  Knows(d)'
<1> DEFINE look == [work[d] EXCEPT !.pc = "decide", !.consumer = c]
<1>1. work[d] \in Work /\ c \in Remaining(d)
  BY DEF Look, TypeOK
<1>2. work'[d] = Done(d, c) \/ work'[d] = look
  BY DEF Look, TypeOK
<1>3. /\ Done(d, c).batch = work[d].batch /\ Done(d, c).waiting = work[d].waiting
      /\ Done(d, c).consumer = "none" /\ Done(d, c).pc = "deliver"
  BY <1>1 DEF Done, Work
<1>4. /\ look.batch = work[d].batch /\ look.waiting = work[d].waiting
      /\ look.done = work[d].done /\ look.consumer = c /\ look.pc = "decide"
  BY <1>1 DEF Work
<1>5. \A g \in work[d].waiting : g \in Listeners[Current(d)]
  BY DEF Knows
<1>6. c \in Listeners[Current(d)] \ (work[d].done \cup work[d].waiting)
  BY <1>1 DEF Remaining
<1> HIDE DEF look
<1>7. CASE work'[d] = Done(d, c)
  BY <1>3, <1>5, <1>7, KnowsSameEvent
<1>8. CASE work'[d] = look
  BY <1>4, <1>5, <1>6, <1>8, KnowsSameEvent
<1> QED
  BY <1>2, <1>7, <1>8

\* What running a handler makes of the work of a dispatcher.
LEMMA HandlerWork ==
  ASSUME TypeOK, NEW d \in Dispatchers, Knows(d),
         work[d].pc \in {"decide", "handle", "record", "report"}
  PROVE  LET c == work[d].consumer
         IN  /\ c # "none" /\ c \in Listeners[Current(d)] \ (work[d].done \cup work[d].waiting)
             /\ \A g \in work[d].waiting : g \in Listeners[Current(d)]
             /\ \A q \in {Done(d, c), Wait(d, c)} :
                  /\ q.batch = work[d].batch /\ q.consumer = "none" /\ q.pc = "deliver"
                  /\ \A g \in q.waiting : g \in Listeners[Current(d)]
             /\ \A o \in {"done", "error", "blocked"} :
                  LET q == [work[d] EXCEPT !.pc = "record", !.outcome = o]
                  IN  /\ q.batch = work[d].batch /\ q.consumer = c /\ q.pc = "record"
                      /\ q.done = work[d].done /\ q.waiting = work[d].waiting
                      /\ q.outcome = o
             /\ \A pc \in {"handle", "report"} :
                  LET q == [work[d] EXCEPT !.pc = pc]
                  IN  /\ q.batch = work[d].batch /\ q.consumer = c /\ q.pc = pc
                      /\ q.done = work[d].done /\ q.waiting = work[d].waiting
                      /\ q.outcome = work[d].outcome
<1> DEFINE c == work[d].consumer
<1>1. WellFormed(work[d]) /\ c # "none"
  BY WorkWellFormed DEF WellFormed
<1>2. c \in Listeners[Current(d)] \ (work[d].done \cup work[d].waiting)
  BY <1>1 DEF Knows, Remaining
<1>3. \A g \in work[d].waiting : g \in Listeners[Current(d)]
  BY DEF Knows
<1>4. work[d] \in Work
  BY <1>1 DEF WellFormed
<1>5. /\ Done(d, c).batch = work[d].batch /\ Done(d, c).consumer = "none"
      /\ Done(d, c).pc = "deliver" /\ Done(d, c).waiting = work[d].waiting
  BY <1>4 DEF Done, Work
<1>6. /\ Wait(d, c).batch = work[d].batch /\ Wait(d, c).consumer = "none"
      /\ Wait(d, c).pc = "deliver" /\ Wait(d, c).waiting = work[d].waiting \cup {c}
  BY <1>4 DEF Wait, Work
<1>7. \A o \in {"done", "error", "blocked"} :
        LET q == [work[d] EXCEPT !.pc = "record", !.outcome = o]
        IN  /\ q.batch = work[d].batch /\ q.consumer = c /\ q.pc = "record"
            /\ q.done = work[d].done /\ q.waiting = work[d].waiting
            /\ q.outcome = o
  BY <1>4 DEF Work
<1>8. \A pc \in {"handle", "report"} :
        LET q == [work[d] EXCEPT !.pc = pc]
        IN  /\ q.batch = work[d].batch /\ q.consumer = c /\ q.pc = pc
            /\ q.done = work[d].done /\ q.waiting = work[d].waiting
            /\ q.outcome = work[d].outcome
  BY <1>4 DEF Work
<1> HIDE DEF c
<1>9. \A q \in {Done(d, c), Wait(d, c)} :
        /\ q.batch = work[d].batch /\ q.consumer = "none" /\ q.pc = "deliver"
        /\ \A g \in q.waiting : g \in Listeners[Current(d)]
  BY <1>2, <1>3, <1>5, <1>6
<1> QED
  BY <1>1, <1>2, <1>3, <1>7, <1>8, <1>9 DEF c

\* A handler step that ends in one of those ways keeps what its dispatcher knows.
LEMMA HandlerKnows ==
  ASSUME TypeOK, Growing, TypeOK', NEW d \in Dispatchers, Knows(d),
         work[d].pc \in {"decide", "handle", "record", "report"},
         \/ work'[d] \in {Done(d, work[d].consumer), Wait(d, work[d].consumer)}
         \/ work'[d] = [work[d] EXCEPT !.pc = "handle"]
         \/ /\ work'[d] = [work[d] EXCEPT !.pc = "report"]
            /\ work[d].outcome = "done" => effects'[work[d].consumer][Current(d)] > 0
         \/ \E o \in {"done", "error", "blocked"} :
              /\ work'[d] = [work[d] EXCEPT !.pc = "record", !.outcome = o]
              /\ o = "done" => effects'[work[d].consumer][Current(d)] > 0
  PROVE  Knows(d)'
<1> DEFINE c == work[d].consumer
           handle == [work[d] EXCEPT !.pc = "handle"]
           report == [work[d] EXCEPT !.pc = "report"]
           record(o) == [work[d] EXCEPT !.pc = "record", !.outcome = o]
<1>1. CASE work'[d] \in {Done(d, c), Wait(d, c)}
  <2>1. PICK q \in {Done(d, c), Wait(d, c)} : work'[d] = q
    BY <1>1
  <2>2. /\ q.batch = work[d].batch /\ q.consumer = "none" /\ q.pc = "deliver"
        /\ \A g \in q.waiting : g \in Listeners[Current(d)]
    BY HandlerWork
  <2> QED
    BY <2>1, <2>2, KnowsSameEvent
<1>2. CASE work'[d] = handle
  <2>1. /\ c \in Listeners[Current(d)] \ (work[d].done \cup work[d].waiting)
        /\ \A g \in work[d].waiting : g \in Listeners[Current(d)]
        /\ handle.batch = work[d].batch /\ handle.consumer = c /\ handle.pc = "handle"
        /\ handle.done = work[d].done /\ handle.waiting = work[d].waiting
    BY HandlerWork
  <2> HIDE DEF handle, c
  <2> QED
    BY <1>2, <2>1, KnowsSameEvent
<1>3. CASE work'[d] = report /\ (work[d].outcome = "done" => effects'[c][Current(d)] > 0)
  <2>1. /\ c \in Listeners[Current(d)] \ (work[d].done \cup work[d].waiting)
        /\ \A g \in work[d].waiting : g \in Listeners[Current(d)]
        /\ report.batch = work[d].batch /\ report.consumer = c /\ report.pc = "report"
        /\ report.done = work[d].done /\ report.waiting = work[d].waiting
        /\ report.outcome = work[d].outcome
    BY HandlerWork
  <2> HIDE DEF report, c
  <2> QED
    BY <1>3, <2>1, KnowsSameEvent
<1>4. ASSUME NEW o \in {"done", "error", "blocked"}, work'[d] = record(o),
             o = "done" => effects'[c][Current(d)] > 0
      PROVE  Knows(d)'
  <2>1. /\ c \in Listeners[Current(d)] \ (work[d].done \cup work[d].waiting)
        /\ \A g \in work[d].waiting : g \in Listeners[Current(d)]
        /\ record(o).batch = work[d].batch /\ record(o).consumer = c /\ record(o).pc = "record"
        /\ record(o).done = work[d].done /\ record(o).waiting = work[d].waiting
        /\ record(o).outcome = o
    BY HandlerWork
  <2> HIDE DEF record, c
  <2> QED
    BY <1>4, <2>1, KnowsSameEvent
<1> QED
  BY <1>1, <1>2, <1>3, <1>4

LEMMA DecideKnows ==
  ASSUME TypeOK, Growing, TypeOK', NEW d \in Dispatchers, Knows(d), Decide(d)
  PROVE  Knows(d)'
<1>1. work[d].pc = "decide"
  BY DEF Decide
<1>2. \/ work'[d] \in {Done(d, work[d].consumer), Wait(d, work[d].consumer)}
      \/ work'[d] = [work[d] EXCEPT !.pc = "handle"]
  BY DEF Decide, TypeOK
<1> QED
  BY <1>1, <1>2, HandlerKnows

LEMMA HandleKnows ==
  ASSUME TypeOK, Growing, TypeOK', NEW d \in Dispatchers, Knows(d), Handle(d)
  PROVE  Knows(d)'
<1> DEFINE c == work[d].consumer
<1>1. work[d].pc = "handle" /\ c \in Consumers /\ Current(d) \in Events
  BY HandlerWorkTyped DEF Handle
<1>2. effects \in [Consumers -> [Events -> Nat]]
  BY DEF TypeOK
<1>3. \/ /\ effects' = [effects EXCEPT ![c][Current(d)] = @ + 1]
         /\ work' = [work EXCEPT ![d].pc = "record", ![d].outcome = "done"]
      \/ work' = [work EXCEPT ![d].pc = "record", ![d].outcome = "error"]
      \/ work' = [work EXCEPT ![d].pc = "record", ![d].outcome = "blocked"]
  BY DEF Handle
<1>4. effects' = [effects EXCEPT ![c][Current(d)] = @ + 1] => effects'[c][Current(d)] > 0
  BY <1>1, <1>2
<1>5. work \in [Dispatchers -> Work]
  BY DEF TypeOK
<1>6. \E o \in {"done", "error", "blocked"} :
        /\ work'[d] = [work[d] EXCEPT !.pc = "record", !.outcome = o]
        /\ o = "done" => effects'[c][Current(d)] > 0
  BY <1>3, <1>4, <1>5
<1> QED
  BY <1>1, <1>6, HandlerKnows

LEMMA RecordOutcomeKnows ==
  ASSUME TypeOK, Growing, TypeOK', NEW d \in Dispatchers, Knows(d), RecordOutcome(d)
  PROVE  Knows(d)'
<1>1. work[d].pc = "record" /\ effects' = effects
  BY DEF RecordOutcome
<1>2. work[d].outcome = "done" => effects'[work[d].consumer][Current(d)] > 0
  BY <1>1 DEF Knows
<1>3. \/ work'[d] \in {Done(d, work[d].consumer), Wait(d, work[d].consumer)}
      \/ work'[d] = [work[d] EXCEPT !.pc = "report"]
  BY DEF RecordOutcome, TypeOK
<1> QED
  BY <1>1, <1>2, <1>3, HandlerKnows

LEMMA ReportKnows ==
  ASSUME TypeOK, Growing, TypeOK', NEW d \in Dispatchers, Knows(d), Report(d)
  PROVE  Knows(d)'
<1>1. work[d].pc = "report"
  BY DEF Report
<1>2. work'[d] \in {Done(d, work[d].consumer), Wait(d, work[d].consumer)}
  BY DEF Report, TypeOK
<1> QED
  BY <1>1, <1>2, HandlerKnows

LEMMA SettleKnows ==
  ASSUME TypeOK, Growing, TypeOK', NEW d \in Dispatchers, Knows(d), Settle(d)
  PROVE  Knows(d)'
<1> DEFINE aside == [work[d] EXCEPT !.pc = "aside"]
<1>1. CASE NextEvent(d)
  BY <1>1, NextEventKnows
<1>2. CASE work'[d] = aside /\ Exhausted(Claimed(d).attempt)
  <2>1. WellFormed(work[d]) /\ work[d].pc = "deliver"
    BY WorkWellFormed DEF Settle
  <2>2. /\ aside.batch = work[d].batch /\ aside.consumer = "none" /\ aside.pc = "aside"
        /\ aside.waiting = work[d].waiting
    BY <2>1 DEF WellFormed, Work
  <2>3. \A g \in work[d].waiting : g \in Listeners[Current(d)]
    BY DEF Knows
  <2> HIDE DEF aside
  <2> QED
    BY <1>2, <2>2, <2>3, KnowsSameEvent
<1> QED
  BY <1>1, <1>2 DEF Settle, TypeOK

LEMMA SetAsideKnows ==
  ASSUME TypeOK, Growing, TypeOK', NEW d \in Dispatchers, Knows(d), SetAside(d)
  PROVE  Knows(d)'
<1>1. CASE NextEvent(d)
  BY <1>1, NextEventKnows
<1>2. ASSUME NEW c, work' = [work EXCEPT ![d].waiting = @ \ {c}]
      PROVE  Knows(d)'
  <2> DEFINE q == [work[d] EXCEPT !.waiting = @ \ {c}]
  <2>1. WellFormed(work[d]) /\ work[d].pc = "aside"
    BY WorkWellFormed DEF SetAside
  <2>2. /\ q.batch = work[d].batch /\ q.consumer = "none" /\ q.pc = "aside"
        /\ q.waiting = work[d].waiting \ {c}
    BY <2>1 DEF WellFormed, Work
  <2>3. /\ \A g \in work[d].waiting : g \in Listeners[Current(d)]
        /\ Exhausted(Claimed(d).attempt)
    BY <2>1 DEF Knows
  <2>4. work'[d] = q
    BY <1>2 DEF TypeOK
  <2> HIDE DEF q
  <2> QED
    BY <2>2, <2>3, <2>4, KnowsSameEvent
<1> QED
  BY <1>1, <1>2 DEF SetAside

LEMMA AbandonKnows ==
  ASSUME TypeOK, Growing, NEW d \in Dispatchers, Knows(d), Abandon(d)
  PROVE  Knows(d)'
<1>1. work'[d] = Idle
  BY DEF Abandon, TypeOK
<1>2. /\ Idle.batch = {} /\ Idle.waiting = {} /\ Idle.consumer = "none" /\ Idle.pc = "idle"
  BY DEF Idle
<1> QED
  BY <1>1, <1>2, KnowsNext

\* A step of a dispatcher leaves the others alone.
LEMMA StepOfOne ==
  ASSUME TypeOK, NEW d \in Dispatchers, Claim(d) \/ Step(d) \/ Abandon(d)
  PROVE  \A f \in Dispatchers \ {d} : work'[f] = work[f]
<1> SUFFICES \E q : work' = [work EXCEPT ![d] = q]
  BY DEF TypeOK
<1>1. work \in [Dispatchers -> Work]
  BY DEF TypeOK
<1>2. CASE Claim(d) \/ Abandon(d)
  BY <1>2 DEF Claim, Abandon
<1>3. ASSUME NEW c \in Consumers, Look(d, c) PROVE \E q : work' = [work EXCEPT ![d] = q]
  BY <1>1, <1>3 DEF Look
<1>4. CASE Decide(d)
  BY <1>1, <1>4 DEF Decide
<1>5. CASE Handle(d)
  BY <1>1, <1>5 DEF Handle
<1>6. CASE RecordOutcome(d) \/ Report(d)
  BY <1>1, <1>6 DEF RecordOutcome, Report
<1>7. CASE Settle(d) \/ SetAside(d)
  BY <1>1, <1>7 DEF Settle, SetAside, NextEvent
<1> QED
  BY <1>2, <1>3, <1>4, <1>5, <1>6, <1>7 DEF Step

LEMMA DeliveringNext == TypeOK /\ Delivering /\ [Next]_vars => Delivering'
<1> SUFFICES ASSUME TypeOK, Delivering, [Next]_vars, NEW f \in Dispatchers PROVE Knows(f)'
  BY DEF Delivering
<1>1. TypeOK' /\ Growing /\ Knows(f)
  BY TypeNext, NextGrows DEF Delivering
<1>2. CASE UNCHANGED work
  BY <1>1, <1>2, KnowsStays
<1>3. ASSUME NEW d \in Dispatchers, Claim(d) \/ Step(d) \/ Abandon(d) PROVE Knows(f)'
  <2>1. CASE f # d
    BY <1>1, <1>3, <2>1, StepOfOne, KnowsStays
  <2>2. CASE f = d
    BY <1>1, <1>3, <2>2, ClaimKnows, AbandonKnows, LookKnows, DecideKnows, HandleKnows,
       RecordOutcomeKnows, ReportKnows, SettleKnows, SetAsideKnows DEF Step
  <2> QED
    BY <2>1, <2>2
<1>4. Environment \/ (\E c \in Consumers : Retry(c)) \/ UNCHANGED vars => UNCHANGED work
  BY DEF Environment, Append, BecomeDue, SwitchModule, Pause, disableForModule,
     ensureForModule, Retry, vars
<1> QED
  BY <1>2, <1>3, <1>4, NextCases

-----------------------------------------------------------------------------
(* What the inbox calls PROCESSED                                            *)

\* A note in the inbox changes one consumer's entry for one event.
LEMMA SetInboxChanges ==
  ASSUME TypeOK, NEW c \in Consumers, NEW e \in Events, NEW s, SetInbox(c, e, s)
  PROVE  \A g \in Consumers, h \in Events :
           inbox'[g][h] = IF g = c /\ h = e THEN s ELSE inbox[g][h]
  BY DEF TypeOK, SetInbox

LEMMA ProcessedNext ==
  TypeOK /\ Delivering /\ ProcessedWasHandled /\ [Next]_vars => ProcessedWasHandled'
<1> SUFFICES ASSUME TypeOK, Delivering, ProcessedWasHandled, [Next]_vars
             PROVE  ProcessedWasHandled'
  OBVIOUS
<1>1. ASSUME \A c \in Consumers, e \in Events :
               inbox'[c][e] = "PROCESSED" => inbox[c][e] = "PROCESSED" \/ effects[c][e] > 0
      PROVE  ProcessedWasHandled'
  <2>1. \A c \in Consumers, e \in Events :
          effects[c][e] \in Nat /\ effects'[c][e] \in Nat /\ effects[c][e] <= effects'[c][e]
    <3>1. TypeOK' /\ Growing
      BY TypeNext, NextGrows
    <3> QED
      BY <3>1 DEF TypeOK, Growing
  <2> QED
    BY <1>1, <2>1 DEF ProcessedWasHandled
<1>2. CASE UNCHANGED inbox
  BY <1>1, <1>2
<1>3. ASSUME NEW c \in Consumers, Retry(c) PROVE ProcessedWasHandled'
  BY <1>1, <1>3 DEF Retry, TypeOK
<1>4. ASSUME NEW d \in Dispatchers, Decide(d) \/ RecordOutcome(d) \/ Report(d)
      PROVE  ProcessedWasHandled'
  <2> DEFINE c == work[d].consumer
             e == Current(d)
  <2>1. c \in Consumers /\ e \in Events
    BY <1>4, HandlerWorkTyped DEF Decide, RecordOutcome, Report
  <2>2. \/ UNCHANGED inbox
        \/ \E s \in {"RETRYING", "BLOCKED"} : SetInbox(c, e, s)
        \/ SetInbox(c, e, "PROCESSED") /\ work[d].pc = "record" /\ work[d].outcome = "done"
    BY <1>4 DEF Decide, RecordOutcome, Report
  <2>3. work[d].pc = "record" /\ work[d].outcome = "done" => effects[c][e] > 0
    BY DEF Delivering, Knows
  <2> HIDE DEF c, e
  <2> QED
    BY <1>1, <1>2, <2>1, <2>2, <2>3, SetInboxChanges
<1>5. ASSUME NEW d \in Dispatchers, SetAside(d) PROVE ProcessedWasHandled'
  <2>1. Current(d) \in Events /\ work[d].waiting \subseteq Consumers
    BY <1>5, ClaimedInBatch DEF SetAside, TypeOK, Work
  <2>2. UNCHANGED inbox \/ \E c \in Consumers : SetInbox(c, Current(d), "FAILED")
    BY <1>5, <2>1 DEF SetAside
  <2> QED
    BY <1>1, <1>2, <2>1, <2>2, SetInboxChanges
<1>6. CASE Environment \/ UNCHANGED vars
  BY <1>2, <1>6 DEF Environment, Append, BecomeDue, SwitchModule, Pause, disableForModule,
     ensureForModule, vars
<1>7. ASSUME NEW d \in Dispatchers, Claim(d) \/ Abandon(d) \/ Step(d)
      PROVE  ProcessedWasHandled'
  BY <1>2, <1>4, <1>5, <1>7 DEF Step, Claim, Abandon, Look, Handle, Settle
<1> QED
  BY <1>3, <1>6, <1>7, NextCases

-----------------------------------------------------------------------------
(* Every effect is paid for by a claim                                       *)

\* The dispatchers that may still run the handler of the event.
Holders(c, e) == {d \in Dispatchers : MayHandle(d, c, e)}

\* What a step may do to the account of one consumer and event.
LEMMA PaidStep ==
  ASSUME TypeOK, TypeOK', Growing, Paid, NEW c \in Consumers, NEW e \in Events,
         NEW d,
         \/ Holders(c, e)' \subseteq Holders(c, e) /\ effects'[c][e] = effects[c][e]
         \/ /\ d \in Holders(c, e)
            /\ Holders(c, e)' \subseteq Holders(c, e) \ {d}
            /\ effects'[c][e] = effects[c][e] + 1
         \/ /\ Holders(c, e)' \subseteq Holders(c, e) \cup {d}
            /\ effects'[c][e] = effects[c][e]
            /\ outbox'[e].claims = outbox[e].claims + 1
  PROVE  effects'[c][e] + Cardinality(Holders(c, e)') <= outbox'[e].claims
<1> DEFINE before == Holders(c, e)
           after == Holders(c, e)'
<1>1. before \subseteq Dispatchers /\ IsFiniteSet(before) /\ Cardinality(before) \in Nat
  BY DeliveryAssumption, FS_Subset, FS_CardinalityType DEF Holders
<1>2. /\ effects[c][e] \in Nat /\ effects'[c][e] \in Nat
      /\ outbox[e].claims \in Nat /\ outbox'[e].claims \in Nat
      /\ outbox[e].claims <= outbox'[e].claims
  BY DEF TypeOK, Row, Growing
<1>3. effects[c][e] + Cardinality(before) <= outbox[e].claims
  BY DEF Paid, Holders
<1> HIDE DEF before, after
<1>4. CASE after \subseteq before /\ effects'[c][e] = effects[c][e]
  <2>1. Cardinality(after) \in Nat /\ Cardinality(after) <= Cardinality(before)
    BY <1>1, <1>4, FS_Subset, FS_CardinalityType
  <2> QED
    BY <1>1, <1>2, <1>3, <1>4, <2>1 DEF after
<1>5. CASE /\ d \in before
           /\ after \subseteq before \ {d}
           /\ effects'[c][e] = effects[c][e] + 1
  <2>1. IsFiniteSet(before \ {d}) /\ Cardinality(before \ {d}) = Cardinality(before) - 1
    BY <1>1, <1>5, FS_RemoveElement
  <2>2. Cardinality(after) \in Nat /\ Cardinality(after) <= Cardinality(before \ {d})
    BY <1>5, <2>1, FS_Subset, FS_CardinalityType
  <2> QED
    BY <1>1, <1>2, <1>3, <1>5, <2>1, <2>2 DEF after
<1>6. CASE /\ after \subseteq before \cup {d}
           /\ effects'[c][e] = effects[c][e]
           /\ outbox'[e].claims = outbox[e].claims + 1
  <2>1. /\ IsFiniteSet(before \cup {d}) /\ Cardinality(before \cup {d}) \in Nat
        /\ Cardinality(before \cup {d}) <= Cardinality(before) + 1
    <3>1. /\ IsFiniteSet(before \cup {d})
          /\ Cardinality(before \cup {d}) \in {Cardinality(before), Cardinality(before) + 1}
      BY <1>1, FS_AddElement
    <3> QED
      BY <1>1, <3>1
  <2>2. Cardinality(after) \in Nat /\ Cardinality(after) <= Cardinality(before \cup {d})
    BY <1>6, <2>1, FS_Subset, FS_CardinalityType
  <2> QED
    BY <1>1, <1>2, <1>3, <1>6, <2>1, <2>2 DEF after
<1> QED
  BY <1>4, <1>5, <1>6 DEF before, after

\* Another dispatcher's step changes nothing for this one.
LEMMA MayHandleStays ==
  ASSUME NEW f, work'[f] = work[f], NEW c, NEW e
  PROVE  MayHandle(f, c, e)' = MayHandle(f, c, e)
<1>1. Current(f)' = Current(f)
  BY SameBatch
<1> QED
  BY <1>1 DEF MayHandle, Spent

\* A dispatcher that goes on with the same event, and took nothing back, may not
\* run a handler it could not run.
LEMMA MayHandleShrinks ==
  ASSUME NEW d, NEW q, work'[d] = q, q.batch = work[d].batch, NEW c,
         Spent(work[d], c) => Spent(q, c), NEW e, MayHandle(d, c, e)'
  PROVE  MayHandle(d, c, e)
<1>1. Current(d)' = Current(d)
  BY SameBatch
<1> QED
  BY <1>1 DEF MayHandle, Spent

\* Nor may one that goes on with the next event of its batch.
LEMMA NextEventShrinks ==
  ASSUME TypeOK, NEW d \in Dispatchers, Knows(d), work[d].pc # "idle", NextEvent(d),
         NEW c, NEW e, MayHandle(d, c, e)'
  PROVE  MayHandle(d, c, e)
<1> DEFINE rest == work[d].batch \ {Claimed(d)}
<1>1. work'[d].batch \subseteq rest
  <2> DEFINE next == [Idle EXCEPT !.pc = "deliver", !.batch = rest]
  <2>1. work'[d] = Idle \/ work'[d] = next
    BY DEF NextEvent, TypeOK
  <2>2. Idle.batch = {} /\ next.batch = rest
    BY DEF Idle
  <2> HIDE DEF rest, next
  <2> QED
    BY <2>1, <2>2
<1>2. PICK x \in rest : x.event = e
  BY <1>1 DEF MayHandle
<1>3. e # Current(d)
  BY <1>2, ClaimedInBatch DEF Knows, Current
<1> QED
  BY <1>2, <1>3 DEF MayHandle

\* What a step of a handler leaves spent.
LEMMA HandlerSpends ==
  ASSUME TypeOK, NEW d \in Dispatchers,
         work[d].pc \in {"decide", "handle", "record", "report"}, NEW c,
         Spent(work[d], c)
  PROVE  LET k == work[d].consumer
         IN  /\ Spent(Done(d, k), c) /\ Spent(Wait(d, k), c)
             /\ \A o \in {"done", "error", "blocked"} :
                  Spent([work[d] EXCEPT !.pc = "record", !.outcome = o], c)
             /\ work[d].pc = "decide" => Spent([work[d] EXCEPT !.pc = "handle"], c)
             /\ Spent([work[d] EXCEPT !.pc = "report"], c)
  BY DEF TypeOK, Work, Spent, Done, Wait

\* The batch a handler's step leaves its dispatcher with.
LEMMA HandlerBatch ==
  ASSUME TypeOK, NEW d \in Dispatchers
  PROVE  LET k == work[d].consumer
         IN  /\ Done(d, k).batch = work[d].batch /\ Wait(d, k).batch = work[d].batch
             /\ \A o \in {"done", "error", "blocked"} :
                  [work[d] EXCEPT !.pc = "record", !.outcome = o].batch = work[d].batch
             /\ \A pc \in {"handle", "report", "aside"} :
                  [work[d] EXCEPT !.pc = pc].batch = work[d].batch
  BY DEF TypeOK, Work, Done, Wait

\* A step of a delivery gives its dispatcher no handler it might not run before.
LEMMA StepShrinks ==
  ASSUME TypeOK, Delivering, NEW d \in Dispatchers, Step(d), NEW c, NEW e,
         MayHandle(d, c, e)'
  PROVE  MayHandle(d, c, e)
<1> DEFINE k == work[d].consumer
<1>1. work[d] \in Work /\ Knows(d)
  BY DEF TypeOK, Delivering
<1>2. ASSUME NEW g \in Consumers, Look(d, g) PROVE MayHandle(d, c, e)
  <2> DEFINE look == [work[d] EXCEPT !.pc = "decide", !.consumer = g]
  <2>1. work[d].pc = "deliver" /\ (work'[d] = Done(d, g) \/ work'[d] = look)
    BY <1>2 DEF Look, TypeOK
  <2>2. /\ Done(d, g).batch = work[d].batch /\ look.batch = work[d].batch
        /\ Spent(work[d], c) => Spent(Done(d, g), c) /\ Spent(look, c)
    BY <1>1, <2>1 DEF Work, Done, Spent
  <2> HIDE DEF look
  <2> QED
    BY <2>1, <2>2, MayHandleShrinks
<1>3. CASE Decide(d)
  <2>1. work[d].pc = "decide"
    BY <1>3 DEF Decide
  <2>2. work'[d] \in {Done(d, k), Wait(d, k), [work[d] EXCEPT !.pc = "handle"]}
    BY <1>3 DEF Decide, TypeOK
  <2> QED
    BY <2>1, <2>2, HandlerSpends, HandlerBatch, MayHandleShrinks
<1>4. CASE Handle(d)
  <2>1. work[d].pc = "handle"
    BY <1>4 DEF Handle
  <2>2. PICK o \in {"done", "error", "blocked"} :
          work'[d] = [work[d] EXCEPT !.pc = "record", !.outcome = o]
    BY <1>4 DEF Handle, TypeOK
  <2> DEFINE q == [work[d] EXCEPT !.pc = "record", !.outcome = o]
  <2>3. q.batch = work[d].batch /\ (Spent(work[d], c) => Spent(q, c))
    BY <2>1, HandlerSpends, HandlerBatch
  <2> HIDE DEF q
  <2> QED
    BY <2>2, <2>3, MayHandleShrinks DEF q
<1>5. CASE RecordOutcome(d) \/ Report(d)
  <2>1. work[d].pc \in {"record", "report"}
    BY <1>5 DEF RecordOutcome, Report
  <2>2. work'[d] \in {Done(d, k), Wait(d, k), [work[d] EXCEPT !.pc = "report"]}
    BY <1>5 DEF RecordOutcome, Report, TypeOK
  <2> QED
    BY <2>1, <2>2, HandlerSpends, HandlerBatch, MayHandleShrinks
<1>6. CASE NextEvent(d) /\ work[d].pc # "idle"
  BY <1>1, <1>6, NextEventShrinks
<1>7. CASE work'[d] = [work[d] EXCEPT !.pc = "aside"]
  <2>1. Spent([work[d] EXCEPT !.pc = "aside"], c)
    BY <1>1 DEF Work, Spent
  <2> QED
    BY <1>7, <2>1, HandlerBatch, MayHandleShrinks
<1>8. ASSUME NEW g, work[d].pc = "aside", work' = [work EXCEPT ![d].waiting = @ \ {g}]
      PROVE  MayHandle(d, c, e)
  <2> DEFINE q == [work[d] EXCEPT !.waiting = @ \ {g}]
  <2>1. work'[d] = q
    BY <1>8 DEF TypeOK
  <2>2. q.batch = work[d].batch /\ q.pc = "aside"
    BY <1>1, <1>8 DEF Work
  <2>3. Spent(q, c)
    BY <2>2 DEF Spent
  <2> HIDE DEF q
  <2> QED
    BY <2>1, <2>2, <2>3, MayHandleShrinks
<1>9. CASE Settle(d)
  BY <1>6, <1>7, <1>9 DEF Settle, TypeOK
<1>10. CASE SetAside(d)
  BY <1>6, <1>8, <1>10 DEF SetAside
<1> QED
  BY <1>2, <1>3, <1>4, <1>5, <1>9, <1>10 DEF Step

\* A handler that does its work could run, and cannot again for this claim.
LEMMA HandleSpends ==
  ASSUME TypeOK, Delivering, NEW d \in Dispatchers, Handle(d),
         NEW c, c = work[d].consumer, NEW e, e = Current(d)
  PROVE  MayHandle(d, c, e) /\ ~MayHandle(d, c, e)'
<1>1. work[d].pc = "handle"
  BY DEF Handle
<1>2. MayHandle(d, c, e)
  <2>1. c \notin work[d].done \cup work[d].waiting
    BY <1>1, HandlerWork DEF Delivering
  <2>2. \E x \in work[d].batch : x.event = e
    BY <1>1, ClaimedInBatch DEF Current
  <2> QED
    BY <1>1, <2>1, <2>2 DEF MayHandle, Spent
<1>3. PICK o \in {"done", "error", "blocked"} :
        work'[d] = [work[d] EXCEPT !.pc = "record", !.outcome = o]
  BY DEF Handle, TypeOK
<1>4. work'[d].batch = work[d].batch /\ work'[d].pc = "record" /\ work'[d].consumer = c
  <2>1. work[d] \in Work
    BY DEF TypeOK
  <2> QED
    BY <1>3, <2>1 DEF Work
<1>5. Current(d)' = e
  BY <1>4, SameBatch
<1>6. Spent(work'[d], c)
  BY <1>4 DEF Spent
<1> QED
  BY <1>2, <1>5, <1>6 DEF MayHandle, Spent

LEMMA PaidNext ==
  TypeOK /\ Delivering /\ Paid /\ [Next]_vars => Paid'
<1> SUFFICES ASSUME TypeOK, Delivering, Paid, [Next]_vars,
                    NEW c \in Consumers, NEW e \in Events
             PROVE  effects'[c][e] + Cardinality(Holders(c, e)') <= outbox'[e].claims
  BY DEF Paid, Holders
<1> DEFINE Goal == effects'[c][e] + Cardinality(Holders(c, e)') <= outbox'[e].claims
<1>1. TypeOK' /\ Growing
  BY TypeNext, NextGrows
<1>2. CASE UNCHANGED <<work, effects>>
  <2>1. \A d \in Dispatchers : MayHandle(d, c, e)' = MayHandle(d, c, e)
    BY <1>2, MayHandleStays
  <2>2. Holders(c, e)' \subseteq Holders(c, e)
    BY <2>1 DEF Holders
  <2> QED
    BY <1>1, <1>2, <2>2, PaidStep
<1>3. ASSUME NEW d \in Dispatchers, Claim(d) PROVE Goal
  <2> DEFINE due == {f \in Events : Claimable(f)}
             taken == {f \in due : Cardinality({g \in due : g < f}) < BatchSize}
             batch == {[event |-> f, attempt |-> outbox'[f].attempts] : f \in taken}
             q == [Idle EXCEPT !.pc = "deliver", !.batch = batch]
  <2>1. effects' = effects /\ work'[d] = q
    BY <1>3 DEF Claim, TypeOK
  <2>2. \A f \in Dispatchers \ {d} : MayHandle(f, c, e)' = MayHandle(f, c, e)
    BY <1>3, StepOfOne, MayHandleStays
  <2>3. CASE e \in taken
    <3>1. outbox'[e].claims = outbox[e].claims + 1
      <4> HIDE DEF taken
      <4>1. outbox' = [f \in Events |->
              IF f \in taken THEN [outbox[f] EXCEPT !.due = FALSE, !.attempts = @ + 1,
                                                  !.claims = @ + 1]
                             ELSE outbox[f]]
        BY <1>3 DEF Claim, taken
      <4> QED
        BY <2>3, <4>1 DEF TypeOK, Row
    <3>2. Holders(c, e)' \subseteq Holders(c, e) \cup {d}
      BY <2>2 DEF Holders
    <3> QED
      BY <1>1, <2>1, <3>1, <3>2, PaidStep
  <2>4. CASE e \notin taken
    <3>1. work'[d].batch = batch
      <4> HIDE DEF batch
      <4> QED
        BY <2>1 DEF Idle
    <3>2. \A x \in batch : x.event # e
      <4> HIDE DEF taken
      <4> QED
        BY <2>4
    <3>3. ~MayHandle(d, c, e)'
      <4> HIDE DEF batch
      <4> QED
        BY <3>1, <3>2 DEF MayHandle
    <3>4. Holders(c, e)' \subseteq Holders(c, e)
      BY <2>2, <3>3 DEF Holders
    <3> QED
      BY <1>1, <2>1, <3>4, PaidStep
  <2> QED
    BY <2>3, <2>4
<1>4. ASSUME NEW d \in Dispatchers, Abandon(d) PROVE Goal
  <2>1. effects' = effects /\ work'[d].batch = {}
    BY <1>4 DEF Abandon, TypeOK, Idle
  <2>2. ~MayHandle(d, c, e)'
    BY <2>1 DEF MayHandle
  <2>3. \A f \in Dispatchers \ {d} : MayHandle(f, c, e)' = MayHandle(f, c, e)
    BY <1>4, StepOfOne, MayHandleStays
  <2>4. Holders(c, e)' \subseteq Holders(c, e)
    BY <2>2, <2>3 DEF Holders
  <2> QED
    BY <1>1, <2>1, <2>4, PaidStep
<1>5. ASSUME NEW d \in Dispatchers, Step(d) PROVE Goal
  <2>1. \A f \in Dispatchers \ {d} : MayHandle(f, c, e)' = MayHandle(f, c, e)
    BY <1>5, StepOfOne, MayHandleStays
  <2>2. Holders(c, e)' \subseteq Holders(c, e)
    BY <1>5, <2>1, StepShrinks DEF Holders
  <2>3. CASE effects'[c][e] = effects[c][e]
    BY <1>1, <2>2, <2>3, PaidStep
  <2>4. CASE Handle(d) /\ effects'[c][e] # effects[c][e]
    <3>1. work[d].consumer \in Consumers /\ Current(d) \in Events
      BY <2>4, HandlerWorkTyped DEF Handle
    <3>2. effects \in [Consumers -> [Events -> Nat]]
      BY DEF TypeOK
    <3>3. effects' = [effects EXCEPT ![work[d].consumer][Current(d)] = @ + 1]
      BY <2>4 DEF Handle
    <3>4. c = work[d].consumer /\ e = Current(d) /\ effects'[c][e] = effects[c][e] + 1
      BY <2>4, <3>1, <3>2, <3>3
    <3>5. MayHandle(d, c, e) /\ ~MayHandle(d, c, e)'
      BY <2>4, <3>4, HandleSpends
    <3>6. d \in Holders(c, e) /\ Holders(c, e)' \subseteq Holders(c, e) \ {d}
      BY <2>2, <3>5 DEF Holders
    <3> QED
      BY <1>1, <3>4, <3>6, PaidStep
  <2> QED
    BY <1>5, <2>3, <2>4 DEF Step, Look, Decide, RecordOutcome, Report, Settle, SetAside
<1>6. Environment \/ (\E g \in Consumers : Retry(g)) \/ UNCHANGED vars
        => UNCHANGED <<work, effects>>
  BY DEF Environment, Append, BecomeDue, SwitchModule, Pause, disableForModule,
     ensureForModule, Retry, vars
<1> QED
  BY <1>2, <1>3, <1>4, <1>5, <1>6, NextCases

LEMMA InvInit == Init => Inv
<1> SUFFICES ASSUME Init PROVE Inv
  OBVIOUS
<1>1. TypeOK
  BY TypeInit
<1>2. \A d \in Dispatchers : work[d] = Idle
  BY DEF Init
<1>3. Delivering
  BY <1>2 DEF Delivering, Knows, Idle
<1>4. ProcessedWasHandled
  BY DEF Init, ProcessedWasHandled
<1>5. Paid
  <2> SUFFICES ASSUME NEW c \in Consumers, NEW e \in Events
               PROVE  effects[c][e] + Cardinality(Holders(c, e)) <= outbox[e].claims
    BY DEF Paid, Holders
  <2>1. Holders(c, e) = {}
    BY <1>2 DEF Holders, MayHandle, Idle
  <2>2. Cardinality(Holders(c, e)) = 0
    BY <2>1, FS_EmptySet
  <2>3. effects[c][e] = 0 /\ outbox[e].claims = 0
    BY DEF Init
  <2> QED
    BY <2>2, <2>3
<1> QED
  BY <1>1, <1>3, <1>4, <1>5 DEF Inv

LEMMA InvNext == Inv /\ [Next]_vars => Inv'
  BY TypeNext, DeliveringNext, ProcessedNext, PaidNext DEF Inv

LEMMA InvAlways == Spec => []Inv
  BY InvInit, InvNext, PTL DEF Spec

-----------------------------------------------------------------------------
(* Theorems about every instance                                             *)

\* Every state of the outbox, the inbox and the dispatchers has its type, and a
\* dispatcher is at work exactly on what it claimed.
THEOREM TypeCorrect == Spec => []TypeOK
<1>1. Inv => TypeOK
  BY DEF Inv
<1> QED
  BY <1>1, InvAlways, PTL

\* No interleaving of deliveries and crashes leaves a PROCESSED in the inbox for
\* a handler that never did its work.
THEOREM ProcessedWasHandledTheorem == Spec => []ProcessedWasHandled
<1>1. Inv => ProcessedWasHandled
  BY DEF Inv
<1> QED
  BY <1>1, InvAlways, PTL

\* Whatever fails and whoever overlaps, a handler does its work at most once for
\* each claim of the event.
THEOREM OnceEachClaimTheorem == Spec => []OnceEachClaim
<1>1. Inv => OnceEachClaim
  <2> SUFFICES ASSUME Inv, NEW c \in Consumers, NEW e \in Events
               PROVE  effects[c][e] <= outbox[e].claims
    BY DEF OnceEachClaim
  <2>1. Holders(c, e) \subseteq Dispatchers
    BY DEF Holders
  <2>2. Cardinality(Holders(c, e)) \in Nat
    BY <2>1, DeliveryAssumption, FS_Subset, FS_CardinalityType
  <2>3. effects[c][e] + Cardinality(Holders(c, e)) <= outbox[e].claims
    BY DEF Inv, Paid, Holders
  <2>4. effects[c][e] \in Nat /\ outbox[e].claims \in Nat
    BY DEF Inv, TypeOK, Row
  <2> QED
    BY <2>2, <2>3, <2>4
<1> QED
  BY <1>1, InvAlways, PTL

-----------------------------------------------------------------------------
(* Outcomes                                                                  *)

\* What a consumer owed nothing, it owes nothing.
StaysReached == \A c \in Consumers, e \in Events : Reached(c, e) => Reached(c, e)'

\* An event whose attempts are spent gets none back.
StaysSpent == \A e \in Events : OutOfAttempts(e) => OutOfAttempts(e)'

\* What a dispatcher counts on stays true while others work.
LEMMA CountsStays ==
  ASSUME TypeOK, NEW f \in Dispatchers, work'[f] = work[f], Counts(f), StaysReached,
         StaysSpent
  PROVE  Counts(f)'
<1>1. Current(f)' = Current(f)
  BY SameBatch
<1>2. /\ \A x \in work[f].batch : x.event \in Events
      /\ work[f].done \subseteq Consumers
  BY DEF TypeOK, Work
<1>3. work[f].pc # "idle" => \A c \in work[f].done : Reached(c, Current(f))'
  BY <1>1, <1>2, ClaimedInBatch DEF Counts, StaysReached, Reached
<1>4. work[f].pc = "report" => Reached(work[f].consumer, Current(f))'
  BY <1>1, HandlerWorkTyped DEF Counts, StaysReached, Reached
<1>5. \A x \in work[f].batch : Exhausted(x.attempt) => OutOfAttempts(x.event)'
  BY <1>2 DEF Counts, StaysSpent
<1> QED
  BY <1>1, <1>3, <1>4, <1>5 DEF Counts, Reached, OutOfAttempts

\* A dispatcher that goes on with the same event.
LEMMA CountsSameEvent ==
  ASSUME TypeOK, NEW d \in Dispatchers, Counts(d), StaysReached, StaysSpent,
         NEW q, work'[d] = q, q.batch = work[d].batch, work[d].pc # "idle",
         \A c \in q.done : c \in work[d].done \/ Reached(c, Current(d))',
         q.pc = "report" => Reached(q.consumer, Current(d))'
  PROVE  Counts(d)'
<1>1. Current(d)' = Current(d) /\ Current(d) \in Events /\ work[d].done \subseteq Consumers
  BY SameBatch, ClaimedInBatch DEF TypeOK, Work
<1>2. \A c \in q.done : Reached(c, Current(d))'
  BY <1>1 DEF Counts, StaysReached, Reached
<1>3. \A x \in q.batch : Exhausted(x.attempt) => OutOfAttempts(x.event)'
  <2>1. \A x \in work[d].batch : x.event \in Events
    BY DEF TypeOK, Work
  <2> QED
    BY <2>1 DEF Counts, StaysSpent
<1> QED
  BY <1>1, <1>2, <1>3 DEF Counts, Reached, OutOfAttempts

LEMMA NextEventCounts ==
  ASSUME TypeOK, NEW d \in Dispatchers, Counts(d), StaysSpent, NextEvent(d)
  PROVE  Counts(d)'
<1> DEFINE rest == work[d].batch \ {Claimed(d)}
           next == [Idle EXCEPT !.pc = "deliver", !.batch = rest]
<1>1. work'[d].batch \subseteq rest /\ work'[d].done = {} /\ work'[d].pc # "report"
  <2>1. work'[d] = Idle \/ work'[d] = next
    BY DEF NextEvent, TypeOK
  <2>2. /\ Idle.batch = {} /\ Idle.done = {} /\ Idle.pc = "idle"
        /\ next.batch = rest /\ next.done = {} /\ next.pc = "deliver"
    BY DEF Idle
  <2> HIDE DEF rest, next
  <2> QED
    BY <2>1, <2>2
<1>2. \A x \in rest : x.event \in Events
  BY DEF TypeOK, Work
<1>3. \A x \in rest : Exhausted(x.attempt) => OutOfAttempts(x.event)'
  BY <1>2 DEF Counts, StaysSpent
<1> QED
  BY <1>1, <1>3 DEF Counts, OutOfAttempts

LEMMA ClaimCounts ==
  ASSUME TypeOK, NEW d \in Dispatchers, Claim(d)
  PROVE  Counts(d)'
<1> DEFINE due == {e \in Events : Claimable(e)}
           taken == {e \in due : Cardinality({f \in due : f < e}) < BatchSize}
           batch == {[event |-> e, attempt |-> outbox'[e].attempts] : e \in taken}
           q == [Idle EXCEPT !.pc = "deliver", !.batch = batch]
<1>1. work'[d] = q
  BY DEF Claim, TypeOK
<1>2. q.batch = batch /\ q.done = {} /\ q.pc = "deliver"
  <2> HIDE DEF batch
  <2> QED
    BY DEF Idle
<1>3. \A x \in batch : Exhausted(x.attempt) => OutOfAttempts(x.event)'
  <2> SUFFICES ASSUME NEW e \in taken, Exhausted(outbox'[e].attempts)
               PROVE  OutOfAttempts(e)'
    <3> HIDE DEF taken
    <3> QED
      BY DEF OutOfAttempts
  <2> HIDE DEF taken
  <2> QED
    BY DEF Exhausted, OutOfAttempts
<1> HIDE DEF batch, q
<1> QED
  BY <1>1, <1>2, <1>3 DEF Counts, OutOfAttempts

\* Only a retry notes what it came too late for.
LEMMA HistoryStays ==
  ASSUME [Next]_vars, ~ \E c \in Consumers : Retry(c)
  PROVE  UNCHANGED history
<1>1. Environment \/ UNCHANGED vars => UNCHANGED history
  BY DEF Environment, Append, BecomeDue, SwitchModule, Pause, disableForModule,
     ensureForModule, vars
<1>2. ASSUME NEW d \in Dispatchers, Claim(d) \/ Abandon(d) PROVE UNCHANGED history
  BY <1>2 DEF Claim, Abandon
<1>3. ASSUME NEW d \in Dispatchers, Step(d) PROVE UNCHANGED history
  BY <1>3 DEF Step, Look, Decide, Handle, RecordOutcome, Report, Settle, SetAside
<1> QED
  BY <1>1, <1>2, <1>3, NextCases

\* Only a person takes an excuse back, or lets the attempts start over.
LEMMA NextKeepsReached ==
  ASSUME TypeOK, [Next]_vars
  PROVE  (\E c \in Consumers : Retry(c)) \/ (StaysReached /\ StaysSpent)
<1> SUFFICES ASSUME ~ \E c \in Consumers : Retry(c) PROVE StaysReached /\ StaysSpent
  OBVIOUS
<1>9. UNCHANGED history
  BY HistoryStays
<1>1. TypeOK' /\ Growing
  BY TypeNext, NextGrows
<1>2. /\ \A c \in Consumers, e \in Events :
           effects[c][e] \in Nat /\ effects'[c][e] \in Nat /\ effects[c][e] <= effects'[c][e]
      /\ \A e \in Events : outbox[e].attempts \in Nat
  BY <1>1 DEF TypeOK, Row, Growing
<1>3. ASSUME \A c \in Consumers : excused[c] \subseteq excused'[c],
             \A e \in Events : outbox'[e].attempts
                              \in {outbox[e].attempts, outbox[e].attempts + 1}
      PROVE  StaysReached /\ StaysSpent
  <2>1. StaysReached
    BY <1>2, <1>3, <1>9 DEF StaysReached, Reached, history
  <2>2. ASSUME NEW e \in Events, outbox[e].attempts >= MaxAttempts
        PROVE  outbox'[e].attempts >= MaxAttempts
    BY <1>2, <1>3, <2>2, DeliveryAssumption
  <2>3. StaysSpent
    BY <1>9, <2>2 DEF StaysSpent, OutOfAttempts, history
  <2> QED
    BY <2>1, <2>3
<1>4. outbox \in [Events -> Row] /\ excused \in [Consumers -> SUBSET Events]
  BY DEF TypeOK
<1>5. CASE Environment \/ UNCHANGED vars
  <2>1. ASSUME NEW e \in Events, Append(e) \/ BecomeDue(e) PROVE StaysReached /\ StaysSpent
    <3>1. excused' = excused
      BY <2>1 DEF Append, BecomeDue
    <3>2. CASE Append(e)
      BY <1>3, <1>4, <3>1, <3>2 DEF Append, Row
    <3>3. CASE BecomeDue(e)
      BY <1>3, <1>4, <3>1, <3>3 DEF BecomeDue, Row
    <3> QED
      BY <2>1, <3>2, <3>3
  <2>2. CASE UNCHANGED <<outbox, excused>>
    BY <1>3, <2>2
  <2> QED
    BY <1>5, <2>1, <2>2 DEF Environment, SwitchModule, Pause, disableForModule,
       ensureForModule, vars
<1>6. ASSUME NEW d \in Dispatchers, Claim(d) PROVE StaysReached /\ StaysSpent
  BY <1>3, <1>4, <1>6 DEF Claim, Row
<1>7. ASSUME NEW d \in Dispatchers, Abandon(d) PROVE StaysReached /\ StaysSpent
  BY <1>3, <1>7 DEF Abandon
<1>8. ASSUME NEW d \in Dispatchers, Step(d) PROVE StaysReached /\ StaysSpent
  <2>1. CASE UNCHANGED <<outbox, excused>>
    BY <1>3, <2>1
  <2>2. CASE Decide(d) \/ RecordOutcome(d)
    <3>1. outbox' = outbox
      BY <2>2 DEF Decide, RecordOutcome
    <3>2. UNCHANGED excused
            \/ excused' = [excused EXCEPT ![work[d].consumer] = @ \cup {Current(d)}]
      BY <2>2 DEF Decide, RecordOutcome
    <3> QED
      BY <1>3, <1>4, <3>1, <3>2
  <2>3. CASE Settle(d)
    <3>1. excused' = excused
      BY <2>3 DEF Settle
    <3>2. \/ outbox' = [outbox EXCEPT ![Current(d)].processed = TRUE]
          \/ outbox' = [outbox EXCEPT ![Current(d)].due = FALSE]
          \/ outbox' = outbox
      BY <2>3 DEF Settle
    <3>3. CASE outbox' = [outbox EXCEPT ![Current(d)].processed = TRUE]
      BY <1>3, <1>4, <3>1, <3>3 DEF Row
    <3>4. CASE outbox' = [outbox EXCEPT ![Current(d)].due = FALSE]
      BY <1>3, <1>4, <3>1, <3>4 DEF Row
    <3> QED
      BY <1>3, <3>1, <3>2, <3>3, <3>4
  <2>4. CASE SetAside(d)
    <3>1. CASE outbox' = outbox /\ \E c \in work[d].waiting :
                 excused' = [excused EXCEPT ![c] = @ \cup {Current(d)}]
      BY <1>3, <1>4, <3>1
    <3>2. CASE outbox' = [outbox EXCEPT ![Current(d)].failed = TRUE] /\ excused' = excused
      BY <1>3, <1>4, <3>2 DEF Row
    <3> QED
      BY <2>4, <3>1, <3>2 DEF SetAside
  <2> QED
    BY <1>8, <2>1, <2>2, <2>3, <2>4 DEF Step, Look, Handle, Report
<1> QED
  BY <1>5, <1>6, <1>7, <1>8, NextCases

\* What a retry starts over: events that are finished and held back from the
\* consumer, for this consumer alone.
StartsOver(c, held) ==
  /\ \A e \in held : outbox[e].processed \/ outbox[e].failed
  /\ \A e \in held : inbox[c][e] \in {"BLOCKED", "FAILED"}
  /\ \A e \in Events :
       IF e \in held
         THEN /\ ~outbox'[e].processed /\ ~outbox'[e].failed
              /\ outbox'[e].attempts = 0
              /\ outbox'[e].recorded = outbox[e].recorded
         ELSE outbox'[e] = outbox[e]
  /\ \A g \in Consumers, e \in Events :
       /\ g = c /\ e \in held => inbox'[g][e] = "RETRYING"
       /\ ~(g = c /\ e \in held) => inbox'[g][e] = inbox[g][e]
       /\ e \in excused'[g] <=> e \in excused[g] /\ ~(g = c /\ e \in held)
       /\ e \in met'[g] <=> IF g = c /\ e \in held
                            THEN \E d \in Dispatchers : Through(d, c, e)
                            ELSE e \in met[g]
  /\ \A e \in Events :
       e \in overtaken' <=> IF e \in held
                            THEN \E d \in Dispatchers : LastTry(d, e)
                            ELSE e \in overtaken
  /\ UNCHANGED <<effects, work>>

LEMMA RetryStartsOver ==
  ASSUME TypeOK, NEW c \in Consumers, Retry(c)
  PROVE  \E held \in SUBSET Events : StartsOver(c, held)
<1> DEFINE held == Held(c)
<1>1. /\ \A e \in held : outbox[e].processed \/ outbox[e].failed
      /\ \A e \in held : inbox[c][e] \in {"BLOCKED", "FAILED"}
      /\ held \subseteq Events
  BY DEF Held
<1>2. outbox' = [e \in Events |->
        IF e \in held THEN [outbox[e] EXCEPT !.due = TRUE, !.attempts = 0,
                                              !.processed = FALSE, !.failed = FALSE]
                      ELSE outbox[e]]
  BY DEF Retry
<1>3. inbox' = [inbox EXCEPT ![c] =
        [e \in Events |-> IF e \in held THEN "RETRYING" ELSE inbox[c][e]]]
  BY DEF Retry
<1>4. excused' = [excused EXCEPT ![c] = @ \ held]
  BY DEF Retry
<1>5. UNCHANGED <<effects, work>>
  BY DEF Retry
<1>6. /\ outbox \in [Events -> Row]
      /\ inbox \in [Consumers -> [Events -> InboxStatus]]
      /\ excused \in [Consumers -> SUBSET Events]
      /\ met \in [Consumers -> SUBSET Events]
  BY DEF TypeOK
<1>9. /\ met' = [met EXCEPT ![c] =
           {e \in @ \cup held : e \in held => \E d \in Dispatchers : Through(d, c, e)}]
      /\ overtaken' =
           {e \in overtaken \cup held : e \in held => \E d \in Dispatchers : LastTry(d, e)}
  BY DEF Retry, Meet
<1> HIDE DEF held
<1>7. \A e \in Events :
        IF e \in held
          THEN /\ ~outbox'[e].processed /\ ~outbox'[e].failed
               /\ outbox'[e].attempts = 0
               /\ outbox'[e].recorded = outbox[e].recorded
          ELSE outbox'[e] = outbox[e]
  BY <1>2, <1>6 DEF Row
<1>8. \A g \in Consumers, e \in Events :
        /\ g = c /\ e \in held => inbox'[g][e] = "RETRYING"
        /\ ~(g = c /\ e \in held) => inbox'[g][e] = inbox[g][e]
        /\ e \in excused'[g] <=> e \in excused[g] /\ ~(g = c /\ e \in held)
  BY <1>3, <1>4, <1>6
<1>10. \A g \in Consumers, e \in Events :
         e \in met'[g] <=> IF g = c /\ e \in held
                           THEN \E d \in Dispatchers : Through(d, c, e)
                           ELSE e \in met[g]
  BY <1>6, <1>9
<1>11. \A e \in Events :
         e \in overtaken' <=> IF e \in held
                              THEN \E d \in Dispatchers : LastTry(d, e)
                              ELSE e \in overtaken
  BY <1>9
<1>12. StartsOver(c, held)
  BY <1>1, <1>5, <1>7, <1>8, <1>10, <1>11 DEF StartsOver
<1> QED
  BY <1>1, <1>12

\* What the inbox holds back stays excused, step by step of a delivery.
LEMMA HeldNext ==
  ASSUME TypeOK, [Next]_vars, HeldIsExcused
  PROVE  HeldIsExcused'
<1>1. ASSUME StaysReached,
             \A c \in Consumers, e \in Events : inbox'[c][e] \in {"BLOCKED", "FAILED"} =>
               inbox[c][e] \in {"BLOCKED", "FAILED"} \/ e \in excused'[c]
      PROVE  HeldIsExcused'
  BY <1>1 DEF HeldIsExcused, StaysReached, Reached
<1>2. CASE UNCHANGED inbox /\ StaysReached
  BY <1>1, <1>2
<1>3. ASSUME NEW c \in Consumers, Retry(c) PROVE HeldIsExcused'
  BY <1>3, RetryStartsOver DEF StartsOver, HeldIsExcused, Reached
<1>4. ASSUME NEW d \in Dispatchers, Decide(d) \/ RecordOutcome(d) \/ Report(d), StaysReached
      PROVE  HeldIsExcused'
  <2> DEFINE c == work[d].consumer
             e == Current(d)
  <2>1. c \in Consumers /\ e \in Events
    BY <1>4, HandlerWorkTyped DEF Decide, RecordOutcome, Report
  <2>2. \/ UNCHANGED inbox
        \/ \E s \in {"RETRYING", "PROCESSED"} : SetInbox(c, e, s)
        \/ SetInbox(c, e, "BLOCKED") /\ excused' = [excused EXCEPT ![c] = @ \cup {e}]
    BY <1>4 DEF Decide, RecordOutcome, Report
  <2>3. excused \in [Consumers -> SUBSET Events]
    BY DEF TypeOK
  <2> HIDE DEF c, e
  <2> QED
    BY <1>1, <1>4, <2>1, <2>2, <2>3, SetInboxChanges
<1>5. ASSUME NEW d \in Dispatchers, SetAside(d), StaysReached PROVE HeldIsExcused'
  <2>1. Current(d) \in Events /\ work[d].waiting \subseteq Consumers
    BY <1>5, ClaimedInBatch DEF SetAside, TypeOK, Work
  <2>2. UNCHANGED inbox \/ \E c \in Consumers :
          /\ SetInbox(c, Current(d), "FAILED")
          /\ excused' = [excused EXCEPT ![c] = @ \cup {Current(d)}]
    BY <1>5, <2>1 DEF SetAside
  <2>3. excused \in [Consumers -> SUBSET Events]
    BY DEF TypeOK
  <2> QED
    BY <1>1, <1>2, <1>5, <2>1, <2>2, <2>3, SetInboxChanges
<1>6. (\E c \in Consumers : Retry(c)) \/ StaysReached
  BY NextKeepsReached
<1>7. CASE (Environment \/ UNCHANGED vars) /\ StaysReached
  BY <1>2, <1>7 DEF Environment, Append, BecomeDue, SwitchModule, Pause, disableForModule,
     ensureForModule, vars
<1>8. ASSUME NEW d \in Dispatchers, Claim(d) \/ Abandon(d) \/ Step(d), StaysReached
      PROVE  HeldIsExcused'
  BY <1>2, <1>4, <1>5, <1>8 DEF Step, Claim, Abandon, Look, Handle, Settle
<1> QED
  BY <1>3, <1>6, <1>7, <1>8, NextCases

\* What the inbox knows as finished for a consumer, the consumer owes no more.
LEMMA KnownIsReached ==
  ASSUME HeldIsExcused, ProcessedWasHandled, NEW c \in Consumers, NEW e \in Events,
         inbox[c][e] \in {"PROCESSED", "BLOCKED", "FAILED"}
  PROVE  Reached(c, e)
  BY DEF HeldIsExcused, ProcessedWasHandled, Reached

\* A step of a handler goes on with an outcome that counts.
LEMMA HandlerCounts ==
  ASSUME TypeOK, NEW d \in Dispatchers, Counts(d), StaysReached, StaysSpent,
         work[d].pc \in {"decide", "handle", "record", "report"},
         \/ /\ work'[d] = Done(d, work[d].consumer)
            /\ \/ Reached(work[d].consumer, Current(d))
               \/ Current(d) \in excused'[work[d].consumer]
         \/ work'[d] = Wait(d, work[d].consumer)
         \/ work'[d] = [work[d] EXCEPT !.pc = "handle"]
         \/ \E o \in {"done", "error", "blocked"} :
              work'[d] = [work[d] EXCEPT !.pc = "record", !.outcome = o]
         \/ /\ work'[d] = [work[d] EXCEPT !.pc = "report"]
            /\ \/ Reached(work[d].consumer, Current(d))
               \/ Current(d) \in excused'[work[d].consumer]
  PROVE  Counts(d)'
<1> DEFINE handle == [work[d] EXCEPT !.pc = "handle"]
           report == [work[d] EXCEPT !.pc = "report"]
           record(o) == [work[d] EXCEPT !.pc = "record", !.outcome = o]
<1>1. PICK c \in Consumers : c = work[d].consumer
  BY HandlerWorkTyped
<1>2. PICK e \in Events : e = Current(d)
  BY HandlerWorkTyped
<1>3. Reached(c, e) \/ e \in excused'[c] => Reached(c, e)'
  BY DEF StaysReached, Reached
<1>4. /\ Done(d, c).batch = work[d].batch /\ Done(d, c).done = work[d].done \cup {c}
      /\ Done(d, c).pc = "deliver"
      /\ Wait(d, c).batch = work[d].batch /\ Wait(d, c).done = work[d].done
      /\ Wait(d, c).pc = "deliver"
  BY <1>1 DEF Done, Wait, TypeOK, Work
<1>5. /\ handle.batch = work[d].batch /\ handle.done = work[d].done /\ handle.pc = "handle"
      /\ report.batch = work[d].batch /\ report.done = work[d].done /\ report.pc = "report"
      /\ report.consumer = c
      /\ \A o \in {"done", "error", "blocked"} :
           /\ record(o).batch = work[d].batch /\ record(o).done = work[d].done
           /\ record(o).pc = "record"
  BY <1>1 DEF TypeOK, Work
<1> HIDE DEF handle, report, record
<1>6. ASSUME NEW q, work'[d] = q, q.batch = work[d].batch,
             \A g \in q.done : g \in work[d].done \/ Reached(g, e)',
             q.pc = "report" => Reached(q.consumer, e)'
      PROVE  Counts(d)'
  <2>1. Current(d)' = e
    BY <1>2, <1>6, SameBatch
  <2>2. \A g \in q.done : g \in work[d].done \/ Reached(g, Current(d))'
    BY <1>6, <2>1 DEF Reached
  <2>3. q.pc = "report" => Reached(q.consumer, Current(d))'
    BY <1>6, <2>1 DEF Reached
  <2> QED
    BY <1>6, <2>2, <2>3, CountsSameEvent
<1>7. CASE work'[d] = Done(d, c) /\ Reached(c, e)'
  BY <1>4, <1>6, <1>7
<1>8. CASE work'[d] = Wait(d, c)
  BY <1>4, <1>6, <1>8
<1>9. CASE work'[d] = handle
  BY <1>5, <1>6, <1>9
<1>10. ASSUME NEW o \in {"done", "error", "blocked"}, work'[d] = record(o) PROVE Counts(d)'
  <2>1. /\ record(o).batch = work[d].batch /\ record(o).done = work[d].done
        /\ record(o).pc = "record"
    BY <1>5
  <2> QED
    BY <1>6, <1>10, <2>1
<1>11. CASE work'[d] = report /\ Reached(c, e)'
  BY <1>5, <1>6, <1>11
<1> QED
  BY <1>1, <1>2, <1>3, <1>7, <1>8, <1>9, <1>10, <1>11 DEF handle, report, record

LEMMA LookCounts ==
  ASSUME TypeOK, NEW d \in Dispatchers, Counts(d), StaysReached, StaysSpent,
         HeldIsExcused, ProcessedWasHandled, NEW c \in Consumers, Look(d, c)
  PROVE  Counts(d)'
<1> DEFINE look == [work[d] EXCEPT !.pc = "decide", !.consumer = c]
<1>1. work[d].pc = "deliver" /\ Current(d) \in Events
  BY ClaimedInBatch DEF Look
<1>2. \/ work'[d] = Done(d, c) /\ inbox[c][Current(d)] \in {"PROCESSED", "BLOCKED", "FAILED"}
      \/ work'[d] = look
  BY DEF Look, TypeOK
<1>3. /\ Done(d, c).batch = work[d].batch /\ Done(d, c).done = work[d].done \cup {c}
      /\ Done(d, c).pc = "deliver"
      /\ look.batch = work[d].batch /\ look.done = work[d].done /\ look.pc = "decide"
  BY DEF Done, TypeOK, Work
<1> HIDE DEF look
<1>4. CASE work'[d] = Done(d, c) /\ inbox[c][Current(d)] \in {"PROCESSED", "BLOCKED", "FAILED"}
  <2>1. Reached(c, Current(d)) /\ Current(d)' = Current(d)
    BY <1>1, <1>3, <1>4, KnownIsReached, SameBatch
  <2>2. Reached(c, Current(d))'
    BY <1>1, <2>1 DEF StaysReached, Reached
  <2> QED
    BY <1>1, <1>3, <1>4, <2>2, CountsSameEvent
<1>5. CASE work'[d] = look
  BY <1>1, <1>3, <1>5, CountsSameEvent
<1> QED
  BY <1>2, <1>4, <1>5

LEMMA StepCounts ==
  ASSUME TypeOK, Delivering, ProcessedWasHandled, HeldIsExcused, StaysReached,
         StaysSpent, NEW d \in Dispatchers, Counts(d), Step(d)
  PROVE  Counts(d)'
<1> DEFINE k == work[d].consumer
<1>1. excused \in [Consumers -> SUBSET Events]
  BY DEF TypeOK
<1>2. work[d].pc \in {"decide", "handle", "record", "report"} =>
        k \in Consumers /\ Current(d) \in Events
  BY HandlerWorkTyped
<1>3. CASE Decide(d)
  <2>1. work[d].pc = "decide"
    BY <1>3 DEF Decide
  <2>2. \/ /\ work'[d] = Done(d, k)
           /\ excused' = [excused EXCEPT ![k] = @ \cup {Current(d)}]
        \/ work'[d] = Wait(d, k)
        \/ work'[d] = [work[d] EXCEPT !.pc = "handle"]
    BY <1>3 DEF Decide, TypeOK
  <2>3. excused' = [excused EXCEPT ![k] = @ \cup {Current(d)}] => Current(d) \in excused'[k]
    BY <1>1, <1>2, <2>1
  <2> QED
    BY <2>1, <2>2, <2>3, HandlerCounts
<1>4. CASE Handle(d)
  <2>1. work[d].pc = "handle"
    BY <1>4 DEF Handle
  <2>2. \E o \in {"done", "error", "blocked"} :
          work'[d] = [work[d] EXCEPT !.pc = "record", !.outcome = o]
    BY <1>4 DEF Handle, TypeOK
  <2> QED
    BY <2>1, <2>2, HandlerCounts
<1>5. CASE RecordOutcome(d)
  <2>1. work[d].pc = "record"
    BY <1>5 DEF RecordOutcome
  <2>2. \/ work'[d] = [work[d] EXCEPT !.pc = "report"] /\ work[d].outcome = "done"
        \/ work'[d] = Wait(d, k)
        \/ /\ work'[d] = [work[d] EXCEPT !.pc = "report"]
           /\ excused' = [excused EXCEPT ![k] = @ \cup {Current(d)}]
    BY <1>5 DEF RecordOutcome, TypeOK
  <2>3. excused' = [excused EXCEPT ![k] = @ \cup {Current(d)}] => Current(d) \in excused'[k]
    BY <1>1, <1>2, <2>1
  <2>4. work[d].outcome = "done" => Reached(k, Current(d))
    BY <2>1 DEF Delivering, Knows, Reached
  <2> QED
    BY <2>1, <2>2, <2>3, <2>4, HandlerCounts
<1>6. CASE Report(d)
  <2>1. work[d].pc = "report"
    BY <1>6 DEF Report
  <2>2. work'[d] = Done(d, k) \/ work'[d] = Wait(d, k)
    BY <1>6 DEF Report, TypeOK
  <2>3. Reached(k, Current(d))
    BY <2>1 DEF Counts
  <2> QED
    BY <2>1, <2>2, <2>3, HandlerCounts
<1>7. NextEvent(d) => Counts(d)'
  BY NextEventCounts
<1>8. CASE Settle(d)
  <2>1. CASE work' = [work EXCEPT ![d].pc = "aside"]
    <3> DEFINE q == [work[d] EXCEPT !.pc = "aside"]
    <3>1. work'[d] = q
      BY <2>1 DEF TypeOK
    <3>2. q.batch = work[d].batch /\ q.done = work[d].done /\ q.pc = "aside"
      BY DEF TypeOK, Work
    <3> HIDE DEF q
    <3> QED
      BY <1>8, <2>1, <3>1, <3>2, CountsSameEvent DEF Settle
  <2> QED
    BY <1>7, <1>8, <2>1 DEF Settle
<1>9. CASE SetAside(d)
  <2>1. ASSUME NEW c, work' = [work EXCEPT ![d].waiting = @ \ {c}]
        PROVE  Counts(d)'
    <3> DEFINE q == [work[d] EXCEPT !.waiting = @ \ {c}]
    <3>1. work'[d] = q
      BY <2>1 DEF TypeOK
    <3>2. q.batch = work[d].batch /\ q.done = work[d].done /\ q.pc = work[d].pc
      BY DEF TypeOK, Work
    <3>3. work[d].pc = "aside"
      BY <1>9 DEF SetAside
    <3> HIDE DEF q
    <3> QED
      BY <2>1, <3>1, <3>2, <3>3, CountsSameEvent
  <2> QED
    BY <1>7, <1>9, <2>1 DEF SetAside
<1> QED
  BY <1>3, <1>4, <1>5, <1>6, <1>8, <1>9, LookCounts DEF Step

\* A retry leaves the outcomes counting: it notes the deliveries that are through
\* with the consumer, and those that make the last attempt.
LEMMA RetryCounts ==
  ASSUME TypeOK, NEW c \in Consumers, Retry(c), NEW f \in Dispatchers, Counts(f)
  PROVE  Counts(f)'
<1>1. PICK held \in SUBSET Events : StartsOver(c, held)
  BY RetryStartsOver
<1>2. work'[f] = work[f] /\ Current(f)' = Current(f)
  BY <1>1, SameBatch DEF StartsOver
<1>3. ASSUME NEW g \in Consumers, work[f].pc # "idle", Reached(g, Current(f)),
             g \in work[f].done \/ (g = work[f].consumer /\ work[f].pc = "report")
      PROVE  Reached(g, Current(f))'
  <2>1. Current(f) \in Events
    BY <1>3, ClaimedInBatch
  <2>2. Through(f, g, Current(f))
    BY <1>3 DEF Through
  <2> HIDE DEF Current
  <2>3. effects'[g][Current(f)] > 0 \/ Current(f) \in excused'[g] \/ Current(f) \in met'[g]
    BY <1>1, <1>3, <2>1, <2>2 DEF StartsOver, Reached
  <2> QED
    BY <1>2, <2>3 DEF Reached
<1>4. /\ work[f].done \subseteq Consumers
      /\ work[f].pc = "report" => work[f].consumer \in Consumers
  BY HandlerWorkTyped DEF TypeOK, Work
<1>5. work[f].pc # "idle" => \A g \in work[f].done : Reached(g, Current(f))'
  BY <1>3, <1>4 DEF Counts
<1>6. work[f].pc = "report" => Reached(work[f].consumer, Current(f))'
  BY <1>2, <1>3, <1>4 DEF Counts, Reached
<1>7. ASSUME NEW x \in work[f].batch, Exhausted(x.attempt) PROVE OutOfAttempts(x.event)'
  <2>1. x.event \in Events
    BY DEF TypeOK, Work
  <2>2. LastTry(f, x.event)
    BY <1>7 DEF LastTry
  <2>3. OutOfAttempts(x.event)
    BY <1>7 DEF Counts
  <2> QED
    BY <1>1, <2>1, <2>2, <2>3 DEF StartsOver, OutOfAttempts
<1> QED
  BY <1>2, <1>5, <1>6, <1>7 DEF Counts, Reached, OutOfAttempts

LEMMA OutcomesNext ==
  Inv /\ Outcomes /\ [Next]_vars => Outcomes'
<1> SUFFICES ASSUME Inv, Outcomes, [Next]_vars PROVE Outcomes'
  OBVIOUS
<1>1. HeldIsExcused'
  BY HeldNext DEF Inv, Outcomes
<1> SUFFICES ASSUME NEW f \in Dispatchers PROVE Counts(f)'
  BY <1>1 DEF Outcomes
<1>2. TypeOK /\ Delivering /\ ProcessedWasHandled /\ HeldIsExcused /\ Counts(f)
  BY DEF Inv, Outcomes
<1>3. ASSUME NEW c \in Consumers, Retry(c) PROVE Counts(f)'
  BY <1>2, <1>3, RetryCounts
<1>4. CASE StaysReached /\ StaysSpent /\ (Environment \/ UNCHANGED vars)
  <2>1. UNCHANGED work
    BY <1>4 DEF Environment, Append, BecomeDue, SwitchModule, Pause, disableForModule,
       ensureForModule, vars
  <2> QED
    BY <1>2, <1>4, <2>1, CountsStays
<1>5. ASSUME NEW d \in Dispatchers, Claim(d) \/ Step(d) \/ Abandon(d),
             StaysReached, StaysSpent
      PROVE  Counts(f)'
  <2>1. CASE f # d
    <3>1. work'[f] = work[f]
      BY <1>2, <1>5, <2>1, StepOfOne
    <3> QED
      BY <1>2, <1>5, <3>1, CountsStays
  <2>2. CASE f = d /\ Abandon(d)
    <3>1. work'[d] = Idle
      BY <1>2, <2>2 DEF Abandon, TypeOK
    <3> QED
      BY <2>2, <3>1 DEF Counts, Idle
  <2>3. CASE f = d /\ (Claim(d) \/ Step(d))
    BY <1>2, <1>5, <2>3, ClaimCounts, StepCounts
  <2> QED
    BY <1>5, <2>1, <2>2, <2>3
<1> QED
  BY <1>2, <1>3, <1>4, <1>5, NextKeepsReached, NextCases

\* The handlers of an event that is finished by its dispatcher were all reached.
LEMMA SettledIsReached ==
  ASSUME TypeOK, NEW d \in Dispatchers, Counts(d), work[d].pc = "deliver",
         Remaining(d) = {}, work[d].waiting = {}
  PROVE  \A c \in Listeners[Current(d)] : Reached(c, Current(d))
  BY DEF Remaining, Counts

LEMMA RetryIsDeliveredNext ==
  Inv /\ Outcomes /\ RetryIsDelivered /\ [Next]_vars => RetryIsDelivered'
<1> SUFFICES ASSUME Inv, Outcomes, RetryIsDelivered, [Next]_vars,
                    NEW e \in Events, outbox'[e].processed, NEW c \in Listeners[e]
             PROVE  Reached(c, e)'
  BY DEF RetryIsDelivered, Reached
<1>1. TypeOK /\ c \in Consumers
  BY DeliveryAssumption DEF Inv
<1>2. outbox[e].processed => Reached(c, e)
  BY DEF RetryIsDelivered, Reached
<1>3. ASSUME NEW g \in Consumers, Retry(g) PROVE Reached(c, e)'
  BY <1>1, <1>2, <1>3, RetryStartsOver DEF StartsOver, Reached
<1>4. outbox \in [Events -> Row]
  BY <1>1 DEF TypeOK
<1>5. CASE StaysReached /\ (Environment \/ UNCHANGED vars)
  <2>1. outbox[e].processed
    <3>1. ASSUME NEW f \in Events, Append(f) \/ BecomeDue(f) PROVE outbox[e].processed
      <4>1. CASE Append(f)
        BY <1>4, <4>1 DEF Append, Row
      <4>2. CASE BecomeDue(f)
        BY <1>4, <4>2 DEF BecomeDue, Row
      <4> QED
        BY <3>1, <4>1, <4>2
    <3>2. outbox' = outbox => outbox[e].processed
      OBVIOUS
    <3> QED
      BY <1>5, <3>1, <3>2 DEF Environment, SwitchModule, Pause, disableForModule,
         ensureForModule, vars
  <2> QED
    BY <1>1, <1>2, <1>5, <2>1 DEF StaysReached
<1>6. ASSUME NEW d \in Dispatchers, Claim(d) \/ Step(d) \/ Abandon(d), StaysReached
      PROVE  Reached(c, e)'
  <2>1. CASE outbox[e].processed
    BY <1>1, <1>2, <1>6, <2>1 DEF StaysReached
  <2>2. CASE Claim(d)
    <3>1. outbox[e].processed
      BY <1>4, <2>2 DEF Claim, Row
    <3> QED
      BY <2>1, <3>1
  <2>3. CASE Settle(d)
    <3>1. CASE e = Current(d) /\ work[d].waiting = {}
      <4>1. Reached(c, e)
        BY <1>1, <2>3, <3>1, SettledIsReached DEF Settle, Outcomes
      <4> QED
        BY <1>1, <1>6, <4>1 DEF StaysReached
    <3>2. CASE ~(e = Current(d) /\ work[d].waiting = {})
      <4>1. \/ outbox' = [outbox EXCEPT ![Current(d)].processed = TRUE] /\ e # Current(d)
            \/ outbox' = [outbox EXCEPT ![Current(d)].due = FALSE]
            \/ outbox' = outbox
        BY <2>3, <3>2 DEF Settle
      <4>2. CASE outbox' = [outbox EXCEPT ![Current(d)].processed = TRUE] /\ e # Current(d)
        BY <1>4, <2>1, <4>2
      <4>3. CASE outbox' = [outbox EXCEPT ![Current(d)].due = FALSE]
        BY <1>4, <2>1, <4>3 DEF Row
      <4> QED
        BY <2>1, <4>1, <4>2, <4>3
    <3> QED
      BY <3>1, <3>2
  <2>4. CASE SetAside(d)
    <3>1. outbox' = [outbox EXCEPT ![Current(d)].failed = TRUE] \/ outbox' = outbox
      BY <2>4 DEF SetAside
    <3>2. outbox[e].processed
      BY <1>4, <3>1 DEF Row
    <3> QED
      BY <2>1, <3>2
  <2> QED
    BY <1>6, <2>1, <2>2, <2>3, <2>4 DEF Step, Look, Decide, Handle, RecordOutcome, Report, Abandon
<1> QED
  BY <1>1, <1>3, <1>5, <1>6, NextKeepsReached, NextCases

LEMMA FullInvInit == Init => FullInv
<1> SUFFICES ASSUME Init PROVE FullInv
  OBVIOUS
<1>1. \A d \in Dispatchers : Counts(d)
  BY DEF Init, Idle, Counts
<1>2. HeldIsExcused /\ RetryIsDelivered
  BY DEF Init, HeldIsExcused, RetryIsDelivered
<1> QED
  BY <1>1, <1>2, InvInit DEF FullInv, Outcomes

LEMMA FullInvAlways == Spec => []FullInv
<1>1. FullInv /\ [Next]_vars => FullInv'
  BY InvNext, OutcomesNext, RetryIsDeliveredNext DEF FullInv
<1> QED
  BY <1>1, FullInvInit, PTL DEF Spec

\* However many dispatchers deliver while a person retries, an event that is
\* processed owes no handler anything, except where a delivery was through with the
\* handler when the retry came.
THEOREM RetryIsDeliveredTheorem == Spec => []RetryIsDelivered
<1>1. FullInv => RetryIsDelivered
  BY DEF FullInv
<1> QED
  BY <1>1, FullInvAlways, PTL

-----------------------------------------------------------------------------
(* One dispatcher                                                            *)

Alone == \A d, f \in Dispatchers : d = f

\* What a dispatcher that works alone delivers is unfinished, and no retry has come
\* too late.
Undisturbed ==
  /\ \A d \in Dispatchers : \A x \in work[d].batch : Unfinished(x.event)
  /\ \A c \in Consumers : met[c] = {}

\* What a step leaves in the batch of a dispatcher, and of the rows it delivers.
LEMMA BatchUnfinished ==
  ASSUME TypeOK, NEW d \in Dispatchers, Knows(d), Step(d) \/ Abandon(d),
         \A x \in work[d].batch : Unfinished(x.event)
  PROVE  \A x \in work'[d].batch : Unfinished(x.event)'
<1> DEFINE k == work[d].consumer
<1>1. work[d] \in Work /\ outbox \in [Events -> Row]
  BY DEF TypeOK
<1>2. ASSUME work'[d].batch = work[d].batch, outbox' = outbox
      PROVE  \A x \in work'[d].batch : Unfinished(x.event)'
  BY <1>2 DEF Unfinished
<1>3. ASSUME NEW c \in Consumers, Look(d, c)
      PROVE  work'[d].batch = work[d].batch /\ outbox' = outbox
  <2> DEFINE look == [work[d] EXCEPT !.pc = "decide", !.consumer = c]
  <2>1. work'[d] = Done(d, c) \/ work'[d] = look
    BY <1>3 DEF Look, TypeOK
  <2>2. Done(d, c).batch = work[d].batch /\ look.batch = work[d].batch
    BY <1>1 DEF Done, Work
  <2> HIDE DEF look
  <2> QED
    BY <1>3, <2>1, <2>2 DEF Look
<1>4. CASE Decide(d) \/ Handle(d) \/ RecordOutcome(d) \/ Report(d)
  <2>1. outbox' = outbox
    BY <1>4 DEF Decide, Handle, RecordOutcome, Report
  <2>2. \/ work'[d] = Done(d, k) \/ work'[d] = Wait(d, k)
        \/ \E o \in {"done", "error", "blocked"} :
              work'[d] = [work[d] EXCEPT !.pc = "record", !.outcome = o]
        \/ \E pc \in {"handle", "report"} : work'[d] = [work[d] EXCEPT !.pc = pc]
    BY <1>4 DEF Decide, Handle, RecordOutcome, Report, TypeOK
  <2> DEFINE record(o) == [work[d] EXCEPT !.pc = "record", !.outcome = o]
             other(pc) == [work[d] EXCEPT !.pc = pc]
  <2>3. /\ Done(d, k).batch = work[d].batch /\ Wait(d, k).batch = work[d].batch
        /\ \A o \in {"done", "error", "blocked"} : record(o).batch = work[d].batch
        /\ \A pc \in {"handle", "report"} : other(pc).batch = work[d].batch
    BY HandlerBatch
  <2>4. \/ work'[d] = Done(d, k) \/ work'[d] = Wait(d, k)
        \/ \E o \in {"done", "error", "blocked"} : work'[d] = record(o)
        \/ \E pc \in {"handle", "report"} : work'[d] = other(pc)
    BY <2>2
  <2> HIDE DEF record, other, k
  <2>5. work'[d].batch = work[d].batch
    BY <2>3, <2>4
  <2> QED
    BY <1>2, <2>1, <2>5
<1>5. ASSUME NextEvent(d), work[d].pc # "idle",
             \A e \in Events : e # Current(d) => Unfinished(e)' = Unfinished(e)
      PROVE  \A x \in work'[d].batch : Unfinished(x.event)'
  <2> DEFINE rest == work[d].batch \ {Claimed(d)}
             next == [Idle EXCEPT !.pc = "deliver", !.batch = rest]
  <2>1. work'[d] = Idle \/ work'[d] = next
    BY <1>5 DEF NextEvent, TypeOK
  <2>2. Idle.batch = {} /\ next.batch = rest
    BY DEF Idle
  <2>3. \A x \in rest : x.event \in Events /\ x.event # Current(d)
    <3>1. Claimed(d) \in work[d].batch /\ Current(d) = Claimed(d).event
      BY <1>5, ClaimedInBatch DEF Current
    <3>2. \A x \in work[d].batch : x.event \in Events
      BY <1>1 DEF Work
    <3> QED
      BY <3>1, <3>2 DEF Knows
  <2> HIDE DEF next
  <2>4. work'[d].batch \subseteq rest
    BY <2>1, <2>2
  <2>5. \A x \in rest : Unfinished(x.event)'
    BY <1>5, <2>3
  <2> HIDE DEF rest
  <2> QED
    BY <2>4, <2>5 DEF Unfinished
<1>6. CASE Settle(d) \/ SetAside(d)
  <2>1. work[d].pc # "idle" /\ Current(d) \in Events
    BY <1>6, ClaimedInBatch DEF Settle, SetAside
  <2>2. CASE outbox' = outbox /\ work'[d].batch = work[d].batch
    BY <1>2, <2>2
  <2>3. ASSUME NextEvent(d), \A e \in Events : e # Current(d) => outbox'[e] = outbox[e]
        PROVE  \A x \in work'[d].batch : Unfinished(x.event)'
    BY <1>5, <2>1, <2>3 DEF Unfinished
  <2>4. \/ outbox' = outbox /\ work'[d].batch = work[d].batch
        \/ /\ NextEvent(d)
           /\ \/ outbox' = [outbox EXCEPT ![Current(d)].processed = TRUE]
              \/ outbox' = [outbox EXCEPT ![Current(d)].due = FALSE]
              \/ outbox' = [outbox EXCEPT ![Current(d)].failed = TRUE]
    <3>1. CASE Settle(d)
      BY <1>1, <3>1 DEF Settle, TypeOK, Work
    <3>2. CASE SetAside(d)
      BY <1>1, <3>2 DEF SetAside, TypeOK, Work
    <3> QED
      BY <1>6, <3>1, <3>2
  <2>5. NextEvent(d) /\ ~(outbox' = outbox /\ work'[d].batch = work[d].batch)
          => \A e \in Events : e # Current(d) => outbox'[e] = outbox[e]
    BY <1>1, <2>1, <2>4
  <2> QED
    BY <2>2, <2>3, <2>4, <2>5
<1>7. CASE Abandon(d)
  <2>1. work'[d].batch = {}
    BY <1>7 DEF Abandon, Idle, TypeOK
  <2> QED
    BY <2>1
<1> QED
  BY <1>2, <1>3, <1>4, <1>6, <1>7 DEF Step

\* What a claim takes is unfinished.
LEMMA ClaimUnfinished ==
  ASSUME TypeOK, NEW d \in Dispatchers, Claim(d)
  PROVE  \A x \in work'[d].batch : Unfinished(x.event)'
<1> DEFINE due == {e \in Events : Claimable(e)}
           taken == {e \in due : Cardinality({f \in due : f < e}) < BatchSize}
           batch == {[event |-> e, attempt |-> outbox'[e].attempts] : e \in taken}
           q == [Idle EXCEPT !.pc = "deliver", !.batch = batch]
<1>1. work'[d] = q
  BY DEF Claim, TypeOK
<1>2. q.batch = batch
  <2> HIDE DEF batch
  <2> QED
    BY DEF Idle
<1>3. \A e \in taken : Unfinished(e)'
  <2>1. \A e \in taken : e \in Events /\ Unfinished(e)
    BY DEF Claimable
  <2> HIDE DEF taken
  <2>2. outbox' = [e \in Events |->
           IF e \in taken THEN [outbox[e] EXCEPT !.due = FALSE, !.attempts = @ + 1, !.claims = @ + 1]
                          ELSE outbox[e]]
    BY DEF Claim, taken
  <2> QED
    BY <2>1, <2>2 DEF TypeOK, Row, Unfinished
<1>4. \A x \in batch : Unfinished(x.event)'
  <2> SUFFICES ASSUME NEW e \in taken PROVE Unfinished(e)'
    <3> HIDE DEF taken
    <3> QED
      BY DEF Unfinished
  <2> QED
    BY <1>3
<1> HIDE DEF batch, q
<1> QED
  BY <1>1, <1>2, <1>4 DEF Unfinished

\* A dispatcher that works alone is never disturbed.
LEMMA UndisturbedNext ==
  ASSUME Alone
  PROVE  Inv /\ Undisturbed /\ [Next]_vars => Undisturbed'
<1> SUFFICES ASSUME Inv, Undisturbed, [Next]_vars PROVE Undisturbed'
  OBVIOUS
<1>1. /\ TypeOK /\ outbox \in [Events -> Row]
      /\ \A d \in Dispatchers : Knows(d) /\ \A x \in work[d].batch : x.event \in Events
  BY DEF Inv, Delivering, TypeOK, Work
<1>2. ASSUME UNCHANGED work, \A e \in Events : Unfinished(e) => Unfinished(e)', met' = met
      PROVE  Undisturbed'
  BY <1>1, <1>2 DEF Undisturbed, Unfinished
<1>3. ASSUME NEW e \in Events, Append(e) \/ BecomeDue(e) PROVE Undisturbed'
  <2>1. UNCHANGED work /\ met' = met
    BY <1>3 DEF Append, BecomeDue, history
  <2>2. ASSUME NEW f \in Events, Unfinished(f) PROVE Unfinished(f)'
    <3>1. CASE Append(e)
      BY <1>1, <2>2, <3>1 DEF Append, Unfinished, Row
    <3>2. CASE BecomeDue(e)
      BY <1>1, <2>2, <3>2 DEF BecomeDue, Unfinished, Row
    <3> QED
      BY <1>3, <3>1, <3>2
  <2> QED
    BY <1>2, <2>1, <2>2
<1>4. CASE UNCHANGED <<outbox, work, history>>
  BY <1>2, <1>4 DEF Unfinished, history
<1>5. ASSUME NEW c \in Consumers, Retry(c) PROVE Undisturbed'
  <2>1. PICK held \in SUBSET Events : StartsOver(c, held)
    BY <1>1, <1>5, RetryStartsOver
  <2>2. \A d \in Dispatchers : \A x \in work[d].batch : x.event \notin held
    BY <2>1 DEF StartsOver, Undisturbed, Unfinished
  <2>3. \A d \in Dispatchers : \A x \in work'[d].batch : Unfinished(x.event)'
    BY <1>1, <2>1, <2>2 DEF StartsOver, Undisturbed, Unfinished
  <2>4. ASSUME NEW d \in Dispatchers, NEW e \in held PROVE ~Through(d, c, e)
    <3>1. work[d].pc # "idle" => Claimed(d) \in work[d].batch
      BY <1>1, ClaimedInBatch
    <3> QED
      BY <2>2, <3>1 DEF Through, Current
  <2>5. \A g \in Consumers, e \in Events : e \notin met'[g]
    BY <2>1, <2>4 DEF StartsOver, Undisturbed
  <2>6. met' \in [Consumers -> SUBSET Events]
    BY <1>1, <1>5, RetryTyped DEF TypeOK
  <2> QED
    BY <2>3, <2>5, <2>6 DEF Undisturbed, Unfinished
<1>6. ASSUME NEW d \in Dispatchers, Step(d) \/ Abandon(d) \/ Claim(d), UNCHANGED history
      PROVE  Undisturbed'
  <2>1. \A f \in Dispatchers : f = d
    BY DEF Alone
  <2>2. CASE Step(d) \/ Abandon(d)
    <3>1. \A x \in work'[d].batch : Unfinished(x.event)'
      BY <1>1, <2>2, BatchUnfinished DEF Undisturbed
    <3> QED
      BY <1>6, <2>1, <3>1 DEF Undisturbed, Unfinished, history
  <2>3. CASE Claim(d)
    <3>1. \A x \in work'[d].batch : Unfinished(x.event)'
      BY <1>1, <2>3, ClaimUnfinished
    <3> QED
      BY <1>6, <2>1, <3>1 DEF Undisturbed, Unfinished, history
  <2> QED
    BY <1>6, <2>2, <2>3
<1>7. (\E c \in Consumers : Retry(c)) \/ UNCHANGED history
  BY HistoryStays
<1>8. Environment \/ UNCHANGED vars =>
        \/ \E e \in Events : Append(e) \/ BecomeDue(e)
        \/ UNCHANGED <<outbox, work, history>>
  BY DEF Environment, SwitchModule, Pause, disableForModule, ensureForModule, vars
<1> QED
  BY <1>3, <1>4, <1>5, <1>6, <1>7, <1>8, NextCases

\* Where one dispatcher works, no retry is lost: an event is not processed again
\* before the handlers it was retried for did their work or were excused anew.
THEOREM NoRetryLostTheorem ==
  ASSUME Alone PROVE Spec => []NoRetryLost
<1>1. Init => Undisturbed
  BY DEF Init, Undisturbed, Idle
<1>2. Inv /\ Undisturbed /\ [Next]_vars => Undisturbed'
  BY UndisturbedNext
<1>3. FullInv /\ Undisturbed => NoRetryLost
  BY DeliveryAssumption DEF FullInv, RetryIsDelivered, Reached, Undisturbed, NoRetryLost
<1> QED
  BY <1>1, <1>2, <1>3, InvAlways, FullInvAlways, PTL DEF Spec

-----------------------------------------------------------------------------
(* The outbox keeps its promise                                              *)

\* The state of the promise, as the rows show it.
Recorded == {e \in Events : outbox[e].recorded}
ReachedBy == [e \in Events |-> {c \in Listeners[e] : Reached(c, e)}]
AttemptsSpent == {e \in Events : OutOfAttempts(e)}
Processed == {e \in Events : outbox[e].processed}
Aside == {e \in Events : outbox[e].failed}

\* What each action of the promise asks of a step, said of the rows.
LEMMA PromiseStep ==
  ASSUME \/ UNCHANGED <<Recorded, ReachedBy, AttemptsSpent, Processed, Aside>>
         \/ \E e \in Events :
              /\ e \notin Recorded
              /\ Recorded' = Recorded \cup {e}
              /\ UNCHANGED <<ReachedBy, AttemptsSpent, Processed, Aside>>
         \/ \E e \in Recorded, c \in Consumers :
              /\ c \in Listeners[e]
              /\ ReachedBy' = [ReachedBy EXCEPT ![e] = @ \cup {c}]
              /\ UNCHANGED <<Recorded, AttemptsSpent, Processed, Aside>>
         \/ \E S \in SUBSET Recorded :
              /\ AttemptsSpent' = AttemptsSpent \cup S
              /\ UNCHANGED <<Recorded, ReachedBy, Processed, Aside>>
         \/ \E e \in Recorded :
              /\ ReachedBy[e] = Listeners[e]
              /\ Processed' = Processed \cup {e}
              /\ UNCHANGED <<Recorded, ReachedBy, AttemptsSpent, Aside>>
         \/ \E e \in AttemptsSpent :
              /\ Aside' = Aside \cup {e}
              /\ UNCHANGED <<Recorded, ReachedBy, AttemptsSpent, Processed>>
         \/ \E c \in Consumers, S \in SUBSET (Processed \cup Aside) :
              /\ \E kept \in SUBSET S :
                   ReachedBy' = [e \in Events |->
                      IF e \in S \ kept THEN ReachedBy[e] \ {c} ELSE ReachedBy[e]]
              /\ \E spent \in SUBSET S : AttemptsSpent' = AttemptsSpent \ (S \ spent)
              /\ Processed' = Processed \ S
              /\ Aside' = Aside \ S
              /\ UNCHANGED Recorded
  PROVE  [Promise!Next]_(Promise!vars)
<1>1. Recorded \subseteq Events /\ AttemptsSpent \subseteq Events
  BY DEF Recorded, AttemptsSpent
<1>2. Processed \cup Aside \subseteq Events
  BY DEF Processed, Aside
<1>3. CASE UNCHANGED <<Recorded, ReachedBy, AttemptsSpent, Processed, Aside>>
  BY <1>3 DEF Recorded, ReachedBy, AttemptsSpent, Processed, Aside, Promise!vars
<1>4. ASSUME NEW e \in Events, e \notin Recorded, Recorded' = Recorded \cup {e},
             UNCHANGED <<ReachedBy, AttemptsSpent, Processed, Aside>>
      PROVE  Promise!Next
  <2>1. Promise!Record(e)
    BY <1>4 DEF Recorded, ReachedBy, AttemptsSpent, Processed, Aside, Promise!Record
  <2> QED
    BY <2>1 DEF Promise!Next
<1>5. ASSUME NEW e \in Recorded, NEW c \in Consumers, c \in Listeners[e],
             ReachedBy' = [ReachedBy EXCEPT ![e] = @ \cup {c}],
             UNCHANGED <<Recorded, AttemptsSpent, Processed, Aside>>
      PROVE  Promise!Next
  <2>1. Promise!Reach(e, c)
    BY <1>5 DEF Recorded, ReachedBy, AttemptsSpent, Processed, Aside, Promise!Reach
  <2> QED
    BY <1>1, <2>1 DEF Promise!Next
<1>6. ASSUME NEW S \in SUBSET Recorded, AttemptsSpent' = AttemptsSpent \cup S,
             UNCHANGED <<Recorded, ReachedBy, Processed, Aside>>
      PROVE  Promise!Next
  <2>1. Promise!Exhaust(S)
    BY <1>6 DEF Recorded, ReachedBy, AttemptsSpent, Processed, Aside, Promise!Exhaust
  <2>2. S \in SUBSET Events
    BY <1>1
  <2> QED
    BY <2>1, <2>2 DEF Promise!Next
<1>7. ASSUME NEW e \in Recorded, ReachedBy[e] = Listeners[e],
             Processed' = Processed \cup {e},
             UNCHANGED <<Recorded, ReachedBy, AttemptsSpent, Aside>>
      PROVE  Promise!Next
  <2>1. Promise!Process(e)
    BY <1>7 DEF Recorded, ReachedBy, AttemptsSpent, Processed, Aside, Promise!Process
  <2> QED
    BY <1>1, <2>1 DEF Promise!Next
<1>8. ASSUME NEW e \in AttemptsSpent, Aside' = Aside \cup {e},
             UNCHANGED <<Recorded, ReachedBy, AttemptsSpent, Processed>>
      PROVE  Promise!Next
  <2>1. Promise!SetAside(e)
    BY <1>8 DEF Recorded, ReachedBy, AttemptsSpent, Processed, Aside, Promise!SetAside
  <2> QED
    BY <1>1, <2>1 DEF Promise!Next
<1>9. ASSUME NEW c \in Consumers, NEW S \in SUBSET (Processed \cup Aside),
             \E kept \in SUBSET S :
                ReachedBy' = [e \in Events |->
                  IF e \in S \ kept THEN ReachedBy[e] \ {c} ELSE ReachedBy[e]],
             \E spent \in SUBSET S : AttemptsSpent' = AttemptsSpent \ (S \ spent),
             Processed' = Processed \ S, Aside' = Aside \ S, UNCHANGED Recorded
      PROVE  Promise!Next
  <2>1. Promise!Reopen(c, S)
    BY <1>9 DEF Recorded, ReachedBy, AttemptsSpent, Processed, Aside, Promise!Reopen
  <2>2. S \in SUBSET Events
    BY <1>2
  <2> QED
    BY <2>1, <2>2 DEF Promise!Next
<1> QED
  BY <1>3, <1>4, <1>5, <1>6, <1>7, <1>8, <1>9

\* A step that leaves what the rows say of an event unchanged.
LEMMA SameRows ==
  ASSUME \A e \in Events :
           /\ outbox'[e].recorded = outbox[e].recorded
           /\ outbox'[e].attempts = outbox[e].attempts
           /\ outbox'[e].processed = outbox[e].processed
           /\ outbox'[e].failed = outbox[e].failed,
         UNCHANGED history
  PROVE  UNCHANGED <<Recorded, AttemptsSpent, Processed, Aside>>
  BY DEF Recorded, AttemptsSpent, Processed, Aside, OutOfAttempts, history

\* One consumer more is reached, or was already.
LEMMA OneMoreReached ==
  ASSUME NEW e \in Recorded, NEW c \in Listeners[e], Listeners[e] \subseteq Consumers,
         UNCHANGED <<outbox, history>>,
         \A f \in Events : \A g \in Listeners[f] :
           Reached(g, f)' <=> Reached(g, f) \/ (g = c /\ f = e)
  PROVE  [Promise!Next]_(Promise!vars)
<1>1. UNCHANGED <<Recorded, AttemptsSpent, Processed, Aside>>
  BY SameRows
<1>2. ReachedBy' = [ReachedBy EXCEPT ![e] = @ \cup {c}]
  <2>1. \A f \in Events : ReachedBy'[f] = IF f = e THEN ReachedBy[f] \cup {c} ELSE ReachedBy[f]
    BY DEF ReachedBy, Recorded
  <2> QED
    BY <2>1 DEF ReachedBy
<1> QED
  BY <1>1, <1>2, PromiseStep

LEMMA EnvironmentPromised ==
  ASSUME TypeOK, Environment
  PROVE  [Promise!Next]_(Promise!vars)
<1>1. outbox \in [Events -> Row]
  BY DEF TypeOK
<1>2. UNCHANGED <<effects, excused, history>>
  BY DEF Environment, Append, BecomeDue, SwitchModule, Pause, disableForModule, ensureForModule
<1>3. UNCHANGED ReachedBy
  BY <1>2 DEF ReachedBy, Reached, history
<1>4. ASSUME NEW e \in Events, Append(e) PROVE [Promise!Next]_(Promise!vars)
  <2>1. outbox' = [outbox EXCEPT ![e] = [@ EXCEPT !.recorded = TRUE, !.due = TRUE]]
    BY <1>4 DEF Append
  <2>2. UNCHANGED <<AttemptsSpent, Processed, Aside>>
    BY <1>1, <1>2, <2>1 DEF AttemptsSpent, OutOfAttempts, Processed, Aside, Row, history
  <2>3. e \notin Recorded /\ Recorded' = Recorded \cup {e}
    BY <1>1, <1>4, <2>1 DEF Append, Recorded, Row
  <2> QED
    BY <1>3, <2>2, <2>3, PromiseStep
<1>5. ASSUME NEW e \in Events, BecomeDue(e) PROVE [Promise!Next]_(Promise!vars)
  <2>1. UNCHANGED <<Recorded, AttemptsSpent, Processed, Aside>>
    BY <1>1, <1>2, <1>5, SameRows DEF BecomeDue, Row
  <2> QED
    BY <1>3, <2>1, PromiseStep
<1>6. CASE UNCHANGED outbox
  BY <1>2, <1>3, <1>6, SameRows, PromiseStep
<1> QED
  BY <1>4, <1>5, <1>6 DEF Environment, SwitchModule, Pause, disableForModule, ensureForModule

LEMMA RetryPromised ==
  ASSUME TypeOK, HeldIsExcused, \A d \in Dispatchers : Counts(d), NEW c \in Consumers, Retry(c)
  PROVE  [Promise!Next]_(Promise!vars)
<1>1. PICK held \in SUBSET Events : StartsOver(c, held)
  BY RetryStartsOver
<1>2. held \subseteq Processed \cup Aside
  BY <1>1 DEF StartsOver, Processed, Aside
<1>3. UNCHANGED Recorded /\ Processed' = Processed \ held /\ Aside' = Aside \ held
  BY <1>1 DEF StartsOver, Recorded, Processed, Aside
<1> DEFINE spent == {e \in held : e \in overtaken'}
<1>4. AttemptsSpent' = AttemptsSpent \ (held \ spent)
  <2>1. \A e \in held : OutOfAttempts(e)' <=> e \in overtaken'
    <3>1. ~(0 >= MaxAttempts)
      BY DeliveryAssumption
    <3> QED
      BY <1>1, <3>1 DEF StartsOver, OutOfAttempts
  <2>2. ASSUME NEW e \in spent PROVE OutOfAttempts(e)
    <3>1. PICK d \in Dispatchers : LastTry(d, e)
      BY <1>1, <2>2 DEF StartsOver
    <3> QED
      BY <3>1 DEF Counts, LastTry
  <2>3. \A e \in Events \ held : OutOfAttempts(e)' <=> OutOfAttempts(e)
    BY <1>1 DEF StartsOver, OutOfAttempts
  <2>4. \A e \in Events : OutOfAttempts(e)' <=> OutOfAttempts(e) /\ ~(e \in held \ spent)
    BY <2>1, <2>2, <2>3
  <2> HIDE DEF spent
  <2> QED
    BY <2>4 DEF AttemptsSpent
<1> DEFINE kept == {e \in held : Reached(c, e)'}
<1>5. ReachedBy' = [e \in Events |-> IF e \in held \ kept THEN ReachedBy[e] \ {c} ELSE ReachedBy[e]]
  <2>1. \A e \in Events :
          ReachedBy'[e] = IF e \in held \ kept THEN ReachedBy[e] \ {c} ELSE ReachedBy[e]
    <3> SUFFICES ASSUME NEW e \in Events
                 PROVE ReachedBy'[e] = IF e \in held \ kept THEN ReachedBy[e] \ {c} ELSE ReachedBy[e]
      OBVIOUS
    <3>1. Listeners[e] \subseteq Consumers
      BY DeliveryAssumption
    <3>2. e \in held => Reached(c, e)
      BY <1>1 DEF StartsOver, HeldIsExcused
    <3>3. \A g \in Listeners[e] : ~(g = c /\ e \in held) => (Reached(g, e)' <=> Reached(g, e))
      BY <1>1, <3>1 DEF StartsOver, Reached
    <3>4. \A g \in Listeners[e] : Reached(g, e)' <=> Reached(g, e) /\ ~(g = c /\ e \in held \ kept)
      BY <3>2, <3>3
    <3> HIDE DEF kept
    <3> QED
      BY <3>4 DEF ReachedBy
  <2> QED
    BY <2>1 DEF ReachedBy
<1>6. kept \in SUBSET held /\ spent \in SUBSET held
  OBVIOUS
<1> HIDE DEF kept, spent
<1> QED
  BY <1>2, <1>3, <1>4, <1>5, <1>6, PromiseStep

LEMMA ClaimPromised ==
  ASSUME TypeOK, NEW d \in Dispatchers, Claim(d)
  PROVE  [Promise!Next]_(Promise!vars)
<1> DEFINE due == {e \in Events : Claimable(e)}
           taken == {e \in due : Cardinality({f \in due : f < e}) < BatchSize}
           last == {e \in taken : OutOfAttempts(e)'}
<1>1. taken \in SUBSET Events /\ \A e \in taken : outbox[e].recorded
  BY DEF Claimable, Unfinished
<1>2. outbox' = [e \in Events |->
        IF e \in taken THEN [outbox[e] EXCEPT !.due = FALSE, !.attempts = @ + 1, !.claims = @ + 1]
                       ELSE outbox[e]]
  BY DEF Claim
<1>3. outbox \in [Events -> Row]
  BY DEF TypeOK
<1>4. UNCHANGED <<effects, excused, history>>
  BY DEF Claim
<1> HIDE DEF taken
<1>5. \A e \in Events :
        /\ outbox'[e].recorded = outbox[e].recorded
        /\ outbox'[e].processed = outbox[e].processed
        /\ outbox'[e].failed = outbox[e].failed
        /\ outbox'[e].attempts = IF e \in taken THEN outbox[e].attempts + 1 ELSE outbox[e].attempts
  BY <1>2, <1>3 DEF Row
<1>6. UNCHANGED <<Recorded, Processed, Aside, ReachedBy>>
  BY <1>4, <1>5 DEF Recorded, Processed, Aside, ReachedBy, Reached, history
<1>7. AttemptsSpent' = AttemptsSpent \cup last
  <2>1. \A e \in taken : OutOfAttempts(e) => OutOfAttempts(e)'
    <3>1. \A e \in taken : /\ outbox[e].attempts \in Nat
                            /\ outbox'[e].attempts = outbox[e].attempts + 1
      BY <1>1, <1>3, <1>5 DEF Row
    <3>2. \A n \in Nat : n >= MaxAttempts => n + 1 >= MaxAttempts
      BY DeliveryAssumption
    <3> QED
      BY <1>4, <3>1, <3>2 DEF OutOfAttempts, history
  <2>2. \A e \in Events \ taken : OutOfAttempts(e)' <=> OutOfAttempts(e)
    BY <1>4, <1>5 DEF OutOfAttempts, history
  <2>3. \A e \in Events : OutOfAttempts(e)' <=> OutOfAttempts(e) \/ e \in last
    BY <1>1, <2>1, <2>2
  <2> HIDE DEF last
  <2> QED
    BY <1>1, <2>3 DEF AttemptsSpent, last
<1>8. last \in SUBSET Recorded
  BY <1>1 DEF Recorded
<1> HIDE DEF last
<1> QED
  BY <1>6, <1>7, <1>8, PromiseStep

\* The event a dispatcher delivers was recorded, and only Consumers listen to it.
LEMMA CurrentRecorded ==
  ASSUME TypeOK, NEW d \in Dispatchers, Knows(d), work[d].pc # "idle"
  PROVE  Current(d) \in Recorded /\ Listeners[Current(d)] \subseteq Consumers
<1>1. Claimed(d) \in work[d].batch /\ Current(d) \in Events
  BY ClaimedInBatch
<1>2. outbox[Current(d)].recorded
  BY <1>1 DEF Knows, Current
<1> QED
  BY <1>1, <1>2, DeliveryAssumption DEF Recorded

\* A dispatcher excuses a listener of the event it delivers.
LEMMA ExcusePromised ==
  ASSUME TypeOK, NEW d \in Dispatchers, Knows(d), work[d].pc # "idle",
         NEW c \in Listeners[Current(d)],
         excused' = [excused EXCEPT ![c] = @ \cup {Current(d)}],
         UNCHANGED <<outbox, effects, history>>
  PROVE  [Promise!Next]_(Promise!vars)
<1>1. Current(d) \in Recorded /\ Listeners[Current(d)] \subseteq Consumers
  BY CurrentRecorded
<1>2. excused \in [Consumers -> SUBSET Events]
  BY DEF TypeOK
<1>3. ASSUME NEW f \in Events, NEW g \in Listeners[f]
      PROVE  Reached(g, f)' <=> Reached(g, f) \/ (g = c /\ f = Current(d))
  <2>1. g \in Consumers
    BY DeliveryAssumption
  <2>2. f \in excused'[g] <=> f \in excused[g] \/ (g = c /\ f = Current(d))
    BY <1>1, <1>2, <2>1
  <2> HIDE DEF Current
  <2> QED
    BY <2>2 DEF Reached, history
<1> HIDE DEF Current
<1> QED
  BY <1>1, <1>3, OneMoreReached

LEMMA StepPromised ==
  ASSUME TypeOK, NEW d \in Dispatchers, Knows(d), Counts(d), Step(d)
  PROVE  [Promise!Next]_(Promise!vars)
<1> DEFINE k == work[d].consumer
           e == Current(d)
<1>1. outbox \in [Events -> Row] /\ effects \in [Consumers -> [Events -> Nat]]
  BY DEF TypeOK
<1>2. work[d].pc \in {"decide", "handle", "record", "report"} => k \in Listeners[e]
  BY HandlerWork
<1>3. work[d].pc # "idle" => e \in Events /\ e \in Recorded /\ Listeners[e] \subseteq Consumers
  BY ClaimedInBatch, CurrentRecorded
<1>12. UNCHANGED history
  BY DEF Step, Look, Decide, Handle, RecordOutcome, Report, Settle, SetAside
<1>4. CASE UNCHANGED <<outbox, effects, excused>>
  BY <1>4, <1>12, SameRows, PromiseStep DEF ReachedBy, Reached, history
<1>5. ASSUME NEW c, Look(d, c) PROVE UNCHANGED <<outbox, effects, excused>>
  BY <1>5 DEF Look
<1>6. CASE Decide(d)
  <2>1. work[d].pc = "decide" /\ UNCHANGED <<outbox, effects>>
    BY <1>6 DEF Decide
  <2>2. excused' = [excused EXCEPT ![k] = @ \cup {e}] \/ excused' = excused
    BY <1>6 DEF Decide
  <2> QED
    BY <1>2, <1>4, <1>12, <2>1, <2>2, ExcusePromised
<1>7. CASE Handle(d)
  <2>1. work[d].pc = "handle" /\ UNCHANGED <<outbox, excused>>
    BY <1>7 DEF Handle
  <2>2. CASE effects' = [effects EXCEPT ![k][e] = @ + 1]
    <3>1. \A f \in Events : \A g \in Listeners[f] :
            Reached(g, f)' <=> Reached(g, f) \/ (g = k /\ f = e)
      <4> SUFFICES ASSUME NEW f \in Events, NEW g \in Listeners[f]
                   PROVE  Reached(g, f)' <=> Reached(g, f) \/ (g = k /\ f = e)
        OBVIOUS
      <4>1. g \in Consumers /\ k \in Consumers /\ e \in Events
        BY <1>2, <1>3, <2>1, DeliveryAssumption
      <4>2. effects'[g][f] = IF g = k /\ f = e THEN effects[g][f] + 1 ELSE effects[g][f]
        BY <1>1, <2>2, <4>1
      <4>3. effects[g][f] \in Nat
        BY <1>1, <4>1
      <4>4. effects'[g][f] > 0 <=> effects[g][f] > 0 \/ (g = k /\ f = e)
        BY <4>2, <4>3
      <4> HIDE DEF e, k
      <4> QED
        BY <1>12, <2>1, <4>4 DEF Reached, history
    <3> HIDE DEF e, k
    <3> QED
      BY <1>2, <1>3, <1>12, <2>1, <3>1, OneMoreReached DEF e, k
  <2>3. CASE effects' = effects
    BY <1>4, <2>1, <2>3
  <2> QED
    BY <1>7, <2>2, <2>3 DEF Handle
<1>8. CASE RecordOutcome(d)
  <2>1. work[d].pc = "record" /\ UNCHANGED <<outbox, effects>>
    BY <1>8 DEF RecordOutcome
  <2>2. excused' = [excused EXCEPT ![k] = @ \cup {e}] \/ excused' = excused
    BY <1>8 DEF RecordOutcome
  <2> QED
    BY <1>2, <1>4, <1>12, <2>1, <2>2, ExcusePromised
<1>9. Report(d) => UNCHANGED <<outbox, effects, excused>>
  BY DEF Report
<1>10. CASE Settle(d)
  <2>1. work[d].pc = "deliver" /\ UNCHANGED <<effects, excused>> /\ Remaining(d) = {}
    BY <1>10 DEF Settle
  <2>2. UNCHANGED ReachedBy
    BY <1>12, <2>1 DEF ReachedBy, Reached, history
  <2>3. CASE work[d].waiting = {} /\ outbox' = [outbox EXCEPT ![e].processed = TRUE]
    <3>1. UNCHANGED <<Recorded, AttemptsSpent, Aside>>
      BY <1>1, <1>12, <2>3 DEF Recorded, AttemptsSpent, OutOfAttempts, Aside, Row, history
    <3>2. Processed' = Processed \cup {e}
      BY <1>1, <1>3, <2>1, <2>3 DEF Processed, Row
    <3>3. ReachedBy[e] = Listeners[e]
      BY <1>3, <2>1, <2>3, SettledIsReached DEF ReachedBy
    <3> QED
      BY <1>3, <2>1, <2>2, <3>1, <3>2, <3>3, PromiseStep
  <2>4. CASE outbox' = [outbox EXCEPT ![e].due = FALSE] \/ outbox' = outbox
    <3>1. UNCHANGED <<Recorded, AttemptsSpent, Processed, Aside>>
      BY <1>1, <1>12, <2>4, SameRows DEF Row
    <3> QED
      BY <2>2, <3>1, PromiseStep
  <2> QED
    BY <1>10, <2>3, <2>4 DEF Settle
<1>11. CASE SetAside(d)
  <2>1. work[d].pc = "aside" /\ UNCHANGED effects
    BY <1>11 DEF SetAside
  <2>2. ASSUME NEW c \in work[d].waiting, UNCHANGED outbox,
               excused' = [excused EXCEPT ![c] = @ \cup {e}]
        PROVE  [Promise!Next]_(Promise!vars)
    BY <1>12, <2>1, <2>2, ExcusePromised DEF Knows
  <2>3. CASE UNCHANGED excused /\ outbox' = [outbox EXCEPT ![e].failed = TRUE]
    <3>1. UNCHANGED <<Recorded, AttemptsSpent, Processed>>
      BY <1>1, <1>12, <2>3 DEF Recorded, AttemptsSpent, OutOfAttempts, Processed, Row, history
    <3>2. Aside' = Aside \cup {e}
      BY <1>1, <1>3, <2>1, <2>3 DEF Aside, Row
    <3>3. UNCHANGED ReachedBy
      BY <1>12, <2>1, <2>3 DEF ReachedBy, Reached, history
    <3>4. e \in AttemptsSpent
      <4>1. Claimed(d) \in work[d].batch
        BY <2>1, ClaimedInBatch
      <4>2. Exhausted(Claimed(d).attempt)
        BY <2>1 DEF Knows
      <4>3. OutOfAttempts(e)
        BY <4>1, <4>2 DEF Counts, Current
      <4> QED
        BY <1>3, <2>1, <4>3 DEF AttemptsSpent
    <3> QED
      BY <3>1, <3>2, <3>3, <3>4, PromiseStep
  <2> QED
    BY <1>11, <2>2, <2>3 DEF SetAside
<1> QED
  BY <1>4, <1>5, <1>6, <1>7, <1>8, <1>9, <1>10, <1>11 DEF Step

LEMMA PromiseInit == Init => Promise!Init
<1> SUFFICES ASSUME Init PROVE Promise!Init
  OBVIOUS
<1>1. \A e \in Events : /\ ~outbox[e].recorded /\ ~outbox[e].processed /\ ~outbox[e].failed
                        /\ outbox[e].attempts = 0
  BY DEF Init
<1>2. {e \in Events : OutOfAttempts(e)} = {}
  <2>1. ~(0 >= MaxAttempts)
    BY DeliveryAssumption
  <2>2. overtaken = {}
    BY DEF Init
  <2> QED
    BY <1>1, <2>1, <2>2 DEF OutOfAttempts
<1>3. ReachedBy = [e \in Events |-> {}]
  <2>1. \A e \in Events : \A c \in Listeners[e] :
          effects[c][e] = 0 /\ excused[c] = {} /\ met[c] = {}
    BY DeliveryAssumption DEF Init
  <2>2. \A e \in Events : {c \in Listeners[e] : Reached(c, e)} = {}
    BY <2>1 DEF Reached
  <2> QED
    BY <2>2 DEF ReachedBy
<1> QED
  BY <1>1, <1>2, <1>3 DEF Promise!Init, ReachedBy

LEMMA PromiseNext ==
  Inv /\ Outcomes /\ [Next]_vars => [Promise!Next]_(Promise!vars)
<1> SUFFICES ASSUME Inv, Outcomes, [Next]_vars PROVE [Promise!Next]_(Promise!vars)
  OBVIOUS
<1>1. TypeOK /\ HeldIsExcused /\ \A d \in Dispatchers : Knows(d) /\ Counts(d)
  BY DEF Inv, Delivering, Outcomes
<1>2. CASE UNCHANGED vars
  BY <1>2, SameRows, PromiseStep DEF vars, ReachedBy, Reached, history
<1>3. ASSUME NEW d \in Dispatchers, Abandon(d) PROVE [Promise!Next]_(Promise!vars)
  BY <1>3, SameRows, PromiseStep DEF Abandon, ReachedBy, Reached, history
<1> QED
  BY <1>1, <1>2, <1>3, EnvironmentPromised, RetryPromised, ClaimPromised, StepPromised, NextCases

\* However many dispatchers deliver, die and overlap while a person retries, the
\* outbox keeps its promise: no event is marked processed before every handler did
\* its work or was excused, and none is set aside before its attempts are spent. A
\* retry may only find an excuse, or the last attempt, kept by a delivery under way.
THEOREM PromisedTheorem == Spec => Promised
<1>1. FullInv /\ [Next]_vars => [Promise!Next]_(Promise!vars)
  BY PromiseNext DEF FullInv
<1> QED
  BY <1>1, PromiseInit, FullInvAlways, PTL DEF Spec, Promised, Promise!Spec
=============================================================================
