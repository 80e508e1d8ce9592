--------------------------- MODULE EventDelivery ---------------------------
(* The outbox, the inbox and the dispatchers that deliver events to their   *)
(* handlers (core/events). Several dispatchers work side by side: each      *)
(* claims a batch, which hides the events for one lease, and delivers them  *)
(* one after the other. The lease is taken for the whole batch, so it may   *)
(* run out while the batch is still being delivered, and another dispatcher *)
(* then delivers the same event at the same time. A dispatcher may die, and *)
(* any database call of it may fail, at every step.                         *)
(*                                                                          *)
(* Time is left out: an event that waits for its lease or for its next      *)
(* attempt becomes due at any moment.                                       *)
EXTENDS Integers, FiniteSets

CONSTANTS
  Events,       \* outbox events, numbered in the order they occurred
  Consumers,    \* consumer names of the registered handlers
  Listeners,    \* Listeners[e]: the consumers registered for the type of e
  Dispatchers,  \* worker processes that run an outbox loop
  BatchSize,    \* DispatcherOptions.batchSize
  MaxAttempts,  \* DispatcherOptions.maxAttempts
  Bindings,     \* statuses a binding may get, by what they decide
  MaxCrashes,   \* bound of the instance: dispatchers that die or lose the database
  MaxRetries    \* bound of the instance: retries of held events by a person

ASSUME DeliveryAssumption ==
  /\ Events \subseteq Nat
  /\ "none" \notin Consumers
  /\ IsFiniteSet(Dispatchers)
  /\ Listeners \in [Events -> SUBSET Consumers]
  /\ BatchSize \in Nat \ {0}
  /\ MaxAttempts \in Nat \ {0}
  /\ Bindings \subseteq {"run", "skip", "block"}
  /\ "run" \in Bindings
  /\ MaxCrashes \in Nat
  /\ MaxRetries \in Nat

VARIABLES
  outbox,   \* outbox_events, with the number of claims so far (history)
  inbox,    \* core_inbox_events.status of a consumer and an event
  effects,  \* how often a handler did its work for an event (history)
  excused,  \* events a consumer was excused from (history)
  binding,  \* "run", "skip" or "block": the binding of a consumer is active,
            \* disabled, or paused
  early,    \* events from before the binding took effect
  active,   \* consumers whose module is available
  work,     \* what a dispatcher is doing
  crashes,  \* how often a dispatcher died
  retries,  \* how often a person retried held events
  met,      \* events retried for a consumer that a delivery under way was
            \* through with (history)
  overtaken \* events retried while their last attempt was under way (history)

history  == <<met, overtaken>>
bindings == <<binding, early>>

vars == <<outbox, inbox, effects, excused, bindings, active, work, crashes, retries, history>>

-----------------------------------------------------------------------------
(* Rows                                                                      *)

InboxStatus == {"NONE", "RETRYING", "PROCESSED", "BLOCKED", "FAILED"}

Row == [recorded : BOOLEAN, due : BOOLEAN, attempts : Nat,
        processed : BOOLEAN, failed : BOOLEAN, claims : Nat]

\* batch: the claimed events with the attempt each was claimed for; the oldest
\* is being delivered. done and waiting: the outcomes so far of its handlers.
Work == [pc : {"idle", "deliver", "decide", "handle", "record", "report", "aside"},
         batch : SUBSET [event : Events, attempt : Nat],
         done : SUBSET Consumers, waiting : SUBSET Consumers,
         consumer : Consumers \cup {"none"},
         outcome : {"none", "done", "error", "blocked"}]

\* Types, and that a dispatcher is idle exactly when it has nothing claimed and
\* has a consumer at hand exactly while it runs a handler.
TypeOK ==
  /\ outbox \in [Events -> Row]
  /\ inbox \in [Consumers -> [Events -> InboxStatus]]
  /\ effects \in [Consumers -> [Events -> Nat]]
  /\ excused \in [Consumers -> SUBSET Events]
  /\ binding \in [Consumers -> Bindings]
  /\ early \in [Consumers -> SUBSET Events]
  /\ active \subseteq Consumers
  /\ work \in [Dispatchers -> Work]
  /\ \A d \in Dispatchers :
       /\ (work[d].pc = "idle") = (work[d].batch = {})
       /\ (work[d].consumer = "none") = (work[d].pc \in {"idle", "deliver", "aside"})
  /\ crashes \in 0 .. MaxCrashes
  /\ retries \in 0 .. MaxRetries
  /\ met \in [Consumers -> SUBSET Events]
  /\ overtaken \subseteq Events

Idle == [pc |-> "idle", batch |-> {}, done |-> {}, waiting |-> {},
         consumer |-> "none", outcome |-> "none"]

Init ==
  /\ outbox = [e \in Events |-> [recorded |-> FALSE, due |-> FALSE, attempts |-> 0,
                                 processed |-> FALSE, failed |-> FALSE, claims |-> 0]]
  /\ inbox = [c \in Consumers |-> [e \in Events |-> "NONE"]]
  /\ effects = [c \in Consumers |-> [e \in Events |-> 0]]
  /\ excused = [c \in Consumers |-> {}]
  /\ binding \in [Consumers -> Bindings]
  /\ early = [c \in Consumers |-> {}]
  /\ active \in SUBSET Consumers
  /\ work = [d \in Dispatchers |-> Idle]
  /\ crashes = 0
  /\ retries = 0
  /\ met = [c \in Consumers |-> {}]
  /\ overtaken = {}

-----------------------------------------------------------------------------
(* What a dispatcher reads                                                   *)

Unfinished(e) == outbox[e].recorded /\ ~outbox[e].processed /\ ~outbox[e].failed

\* Slip: an event whose attempts are spent is not claimed again.
Claimable_WithAttemptsLeft(e) == Unfinished(e) /\ outbox[e].due /\ outbox[e].attempts < MaxAttempts

\* The rows claim() takes: due, neither processed nor failed.
Claimable(e) == Unfinished(e) /\ outbox[e].due

Oldest(batch) == CHOOSE x \in batch : \A y \in batch : x.event <= y.event

\* The event of a batch that is being delivered: the oldest.
Claimed(d) == Oldest(work[d].batch)

Current(d) == Claimed(d).event

\* What the binding says about calling a handler: nothing from before it was on.
decide(c, e) == IF e \in early[c] THEN "skip" ELSE binding[c]

\* The handlers of the event that have no outcome yet.
Remaining(d) == Listeners[Current(d)] \ (work[d].done \cup work[d].waiting)

\* Slip: one attempt too few.
Exhausted_Early(attempt) == attempt >= MaxAttempts - 1

Exhausted(attempt) == attempt >= MaxAttempts

-----------------------------------------------------------------------------
(* The rest of the system                                                    *)

\* A transaction of a module writes the event with the change it announces.
Append(e) ==
  /\ ~outbox[e].recorded
  /\ outbox' = [outbox EXCEPT ![e].recorded = TRUE, ![e].due = TRUE]
  /\ UNCHANGED <<inbox, effects, excused, bindings, active, work, crashes, retries, history>>

\* available_at passes: a lease ran out or the next attempt is due.
BecomeDue(e) ==
  /\ Unfinished(e)
  /\ ~outbox[e].due
  /\ outbox' = [outbox EXCEPT ![e].due = TRUE]
  /\ UNCHANGED <<inbox, effects, excused, bindings, active, work, crashes, retries, history>>

\* The owner pauses a binding or resumes it (move, without retryHeld).
Pause(c, decision) ==
  /\ binding[c] # decision
  /\ {binding[c], decision} = {"run", "block"}
  /\ binding' = [binding EXCEPT ![c] = decision]
  /\ UNCHANGED <<outbox, inbox, effects, excused, early, active, work, crashes, retries, history>>

\* A module is taken out of use: its bindings are switched off.
disableForModule(c) ==
  /\ binding[c] # "skip"
  /\ binding' = [binding EXCEPT ![c] = "skip"]
  /\ UNCHANGED <<outbox, inbox, effects, excused, early, active, work, crashes, retries, history>>

\* A module is added: its bindings are on, for what happens from now on.
ensureForModule(c) ==
  /\ binding[c] = "skip"
  /\ binding' = [binding EXCEPT ![c] = "run"]
  /\ early' = [early EXCEPT ![c] = {e \in Events : outbox[e].recorded}]
  /\ UNCHANGED <<outbox, inbox, effects, excused, active, work, crashes, retries, history>>

\* The finished events a consumer holds: blocked or failed, and not from before
\* its binding took effect.
Held(c) ==
  {e \in Events \ early[c] :
     /\ inbox[c][e] \in {"BLOCKED", "FAILED"}
     /\ outbox[e].processed \/ outbox[e].failed}

\* A delivery under way that is through with the consumer: it has called the
\* handler, or found that it need not, and does not look there again.
Through(d, c, e) ==
  /\ work[d].pc # "idle" /\ Current(d) = e
  /\ c \in work[d].done \/ (c = work[d].consumer /\ work[d].pc = "report")

\* A delivery under way that may set the event aside.
LastTry(d, e) == \E x \in work[d].batch : x.event = e /\ Exhausted(x.attempt)

\* What a retry of events for a consumer comes too late for (history).
Meet(c, held) ==
  /\ met' = [met EXCEPT ![c] =
       {e \in @ \cup held : e \in held => \E d \in Dispatchers : Through(d, c, e)}]
  /\ overtaken' =
       {e \in overtaken \cup held : e \in held => \E d \in Dispatchers : LastTry(d, e)}

\* Slip: the events start over, and the inbox still says they are finished.
Retry_KeepsInbox(c) ==
  /\ retries < MaxRetries
  /\ binding[c] # "skip"
  /\ Held(c) # {}
  /\ binding' = [binding EXCEPT ![c] = "run"]
  /\ outbox' = [e \in Events |->
       IF e \in Held(c) THEN [outbox[e] EXCEPT !.due = TRUE, !.attempts = 0,
                                              !.processed = FALSE, !.failed = FALSE]
                        ELSE outbox[e]]
  /\ excused' = [excused EXCEPT ![c] = @ \ Held(c)]
  /\ retries' = retries + 1
  /\ Meet(c, Held(c))
  /\ UNCHANGED <<inbox, effects, early, active, work, crashes>>

\* A person retries what a binding holds: the binding is active again, and the
\* events it holds start over.
Retry(c) ==
  /\ retries < MaxRetries
  /\ binding[c] # "skip"
  /\ Held(c) # {}
  /\ binding' = [binding EXCEPT ![c] = "run"]
  /\ inbox' = [inbox EXCEPT ![c] =
       [e \in Events |-> IF e \in Held(c) THEN "RETRYING" ELSE inbox[c][e]]]
  /\ outbox' = [e \in Events |->
       IF e \in Held(c) THEN [outbox[e] EXCEPT !.due = TRUE, !.attempts = 0,
                                              !.processed = FALSE, !.failed = FALSE]
                        ELSE outbox[e]]
  /\ excused' = [excused EXCEPT ![c] = @ \ Held(c)]
  /\ retries' = retries + 1
  /\ Meet(c, Held(c))
  /\ UNCHANGED <<effects, early, active, work, crashes>>

\* A module is activated or switched off for the workspace.
SwitchModule(c) ==
  /\ active' = IF c \in active THEN active \ {c} ELSE active \cup {c}
  /\ UNCHANGED <<outbox, inbox, effects, excused, bindings, work, crashes, retries, history>>

-----------------------------------------------------------------------------
(* A dispatcher                                                              *)

\* claim: the oldest due events, each counted as one more attempt and hidden
\* for a lease. SKIP LOCKED keeps two claims from taking one row.
Claim(d) ==
  LET due == {e \in Events : Claimable(e)}
      taken == {e \in due : Cardinality({f \in due : f < e}) < BatchSize}
  IN  /\ work[d].pc = "idle"
      /\ taken # {}
      /\ outbox' = [e \in Events |->
           IF e \in taken THEN [outbox[e] EXCEPT !.due = FALSE, !.attempts = @ + 1, !.claims = @ + 1]
                          ELSE outbox[e]]
      /\ work' = [work EXCEPT ![d] = [Idle EXCEPT
           !.pc = "deliver",
           !.batch = {[event |-> e, attempt |-> outbox'[e].attempts] : e \in taken}]]
      /\ UNCHANGED <<inbox, effects, excused, bindings, active, crashes, retries, history>>

Done(d, c) == [work[d] EXCEPT !.pc = "deliver", !.done = @ \cup {c},
                              !.consumer = "none", !.outcome = "none"]

Wait(d, c) == [work[d] EXCEPT !.pc = "deliver", !.waiting = @ \cup {c},
                              !.consumer = "none", !.outcome = "none"]

SetInbox(c, e, status) == inbox' = [inbox EXCEPT ![c][e] = status]

\* run, the first read: an event the inbox knows as finished for the consumer is
\* not looked at further.
Look(d, c) ==
  LET known == inbox[c][Current(d)]
  IN  /\ work[d].pc = "deliver"
      /\ c \in Remaining(d)
      /\ \/ /\ known \in {"PROCESSED", "BLOCKED", "FAILED"}
            /\ work' = [work EXCEPT ![d] = Done(d, c)]
         \/ /\ known \in {"NONE", "RETRYING"}
            /\ work' = [work EXCEPT ![d].pc = "decide", ![d].consumer = c]
      /\ UNCHANGED <<outbox, inbox, effects, excused, bindings, active, crashes, retries, history>>

\* Slip: an event of a module that is switched off is taken for handled.
Decide_InactiveIsDone(d) ==
  LET c == work[d].consumer
      e == Current(d)
  IN  /\ work[d].pc = "decide"
      /\ \/ /\ c \notin active
            /\ SetInbox(c, e, "PROCESSED")
            /\ work' = [work EXCEPT ![d] = Done(d, c)]
         \/ /\ c \in active
            /\ work' = [work EXCEPT ![d].pc = "handle"]
            /\ UNCHANGED inbox
      /\ UNCHANGED <<outbox, effects, excused, bindings, active, crashes, retries, history>>

\* run, up to the call of the handler: the binding decides, then whether the
\* module is available. The inbox may have changed since it was read.
Decide(d) ==
  LET c == work[d].consumer
      e == Current(d)
  IN  /\ work[d].pc = "decide"
      /\ \/ /\ decide(c, e) = "skip"
            /\ excused' = [excused EXCEPT ![c] = @ \cup {e}]
            /\ work' = [work EXCEPT ![d] = Done(d, c)]
            /\ UNCHANGED inbox
         \/ /\ decide(c, e) = "block"
            /\ SetInbox(c, e, "BLOCKED")
            /\ excused' = [excused EXCEPT ![c] = @ \cup {e}]
            /\ work' = [work EXCEPT ![d] = Done(d, c)]
         \/ /\ decide(c, e) = "run"
            /\ c \notin active
            /\ SetInbox(c, e, "RETRYING")
            /\ work' = [work EXCEPT ![d] = Wait(d, c)]
            /\ UNCHANGED excused
         \/ /\ decide(c, e) = "run"
            /\ c \in active
            /\ work' = [work EXCEPT ![d].pc = "handle"]
            /\ UNCHANGED <<inbox, excused>>
      /\ UNCHANGED <<outbox, effects, bindings, active, crashes, retries, history>>

\* The handler does its work, fails and leaves nothing, or says that retrying
\* cannot help (BlockedEventError).
Handle(d) ==
  LET c == work[d].consumer
      e == Current(d)
  IN  /\ work[d].pc = "handle"
      /\ \/ /\ effects' = [effects EXCEPT ![c][e] = @ + 1]
            /\ work' = [work EXCEPT ![d].pc = "record", ![d].outcome = "done"]
         \/ /\ work' = [work EXCEPT ![d].pc = "record", ![d].outcome = "error"]
            /\ UNCHANGED effects
         \/ /\ work' = [work EXCEPT ![d].pc = "record", ![d].outcome = "blocked"]
            /\ UNCHANGED effects
      /\ UNCHANGED <<outbox, inbox, excused, bindings, active, crashes, retries, history>>

\* The outcome goes to the inbox, whatever is written there by now. When the
\* record of a success fails, the catch takes it for a failure of the handler.
RecordOutcome(d) ==
  LET c == work[d].consumer
      e == Current(d)
  IN  /\ work[d].pc = "record"
      /\ \/ /\ work[d].outcome = "done"
            /\ SetInbox(c, e, "PROCESSED")
            /\ work' = [work EXCEPT ![d].pc = "report"]
            /\ UNCHANGED excused
         \/ /\ work[d].outcome \in {"done", "error"}
            /\ SetInbox(c, e, "RETRYING")
            /\ work' = [work EXCEPT ![d] = Wait(d, c)]
            /\ UNCHANGED excused
         \/ /\ work[d].outcome = "blocked"
            /\ SetInbox(c, e, "BLOCKED")
            /\ excused' = [excused EXCEPT ![c] = @ \cup {e}]
            /\ work' = [work EXCEPT ![d].pc = "report"]
      /\ UNCHANGED <<outbox, effects, bindings, active, crashes, retries, history>>

\* Slip: a success whose report failed is delivered again at once.
Report_AgainAtOnce(d) ==
  LET c == work[d].consumer
      e == Current(d)
  IN  /\ work[d].pc = "report"
      /\ \/ /\ work' = [work EXCEPT ![d] = Done(d, c)]
            /\ UNCHANGED inbox
         \/ /\ work[d].outcome = "done"
            /\ effects[c][e] < outbox[e].claims + 1
            /\ work' = [work EXCEPT ![d].pc = "handle"]
            /\ UNCHANGED inbox
      /\ UNCHANGED <<outbox, effects, excused, bindings, active, crashes, retries, history>>

\* The binding's health is updated. It is inside the try of the handler: when it
\* fails after a success, the catch records the event as RETRYING. After a
\* blocked event nothing catches it: see Abandon.
Report(d) ==
  LET c == work[d].consumer
      e == Current(d)
  IN  /\ work[d].pc = "report"
      /\ \/ /\ work' = [work EXCEPT ![d] = Done(d, c)]
            /\ UNCHANGED inbox
         \/ /\ work[d].outcome = "done"
            /\ SetInbox(c, e, "RETRYING")
            /\ work' = [work EXCEPT ![d] = Wait(d, c)]
      /\ UNCHANGED <<outbox, effects, excused, bindings, active, crashes, retries, history>>

\* Slip: the batch goes on after its last event.
NextEvent_OneMore(d) ==
  work' = [work EXCEPT ![d] = [Idle EXCEPT !.pc = "deliver", !.batch = work[d].batch \ {Claimed(d)}]]

\* The next event of the batch, or the next batch.
NextEvent(d) ==
  LET rest == work[d].batch \ {Claimed(d)}
  IN  work' = [work EXCEPT ![d] =
        IF rest = {} THEN Idle ELSE [Idle EXCEPT !.pc = "deliver", !.batch = rest]]

\* Slip: an event counts as processed once every handler was called.
Settle_Hasty(d) ==
  LET e == Current(d)
  IN  /\ work[d].pc = "deliver"
      /\ Remaining(d) = {}
      /\ outbox' = [outbox EXCEPT ![e].processed = TRUE]
      /\ NextEvent(d)
      /\ UNCHANGED <<inbox, effects, excused, bindings, active, crashes, retries, history>>

\* deliver, once every handler has an outcome: processed, due again later, or
\* out of attempts. None of the updates looks at the row's state again.
Settle(d) ==
  LET e == Current(d)
  IN  /\ work[d].pc = "deliver"
      /\ Remaining(d) = {}
      /\ \/ /\ work[d].waiting = {}
            /\ outbox' = [outbox EXCEPT ![e].processed = TRUE]
            /\ NextEvent(d)
         \/ /\ work[d].waiting # {}
            /\ ~Exhausted(Claimed(d).attempt)
            /\ outbox' = [outbox EXCEPT ![e].due = FALSE]
            /\ NextEvent(d)
         \/ /\ work[d].waiting # {}
            /\ Exhausted(Claimed(d).attempt)
            /\ work' = [work EXCEPT ![d].pc = "aside"]
            /\ UNCHANGED outbox
      /\ UNCHANGED <<inbox, effects, excused, bindings, active, crashes, retries, history>>

\* Out of attempts: every waiting handler is recorded as failed, then the event
\* is set aside.
SetAside(d) ==
  LET e == Current(d)
  IN  /\ work[d].pc = "aside"
      /\ \/ \E c \in work[d].waiting :
              /\ SetInbox(c, e, "FAILED")
              /\ excused' = [excused EXCEPT ![c] = @ \cup {e}]
              /\ work' = [work EXCEPT ![d].waiting = @ \ {c}]
              /\ UNCHANGED outbox
         \/ /\ work[d].waiting = {}
            /\ outbox' = [outbox EXCEPT ![e].failed = TRUE]
            /\ NextEvent(d)
            /\ UNCHANGED <<inbox, excused>>
      /\ UNCHANGED <<effects, bindings, active, crashes, retries, history>>

\* The process dies, or a database call outside the try fails and dispatchBatch
\* throws: the batch is forgotten and comes back when its lease has run out.
Abandon(d) ==
  /\ work[d].pc # "idle"
  /\ crashes < MaxCrashes
  /\ crashes' = crashes + 1
  /\ work' = [work EXCEPT ![d] = Idle]
  /\ UNCHANGED <<outbox, inbox, effects, excused, bindings, active, retries, history>>

\* One step of a delivery that is under way.
Step(d) ==
  \/ \E c \in Consumers : Look(d, c)
  \/ Decide(d)
  \/ Handle(d)
  \/ RecordOutcome(d)
  \/ Report(d)
  \/ Settle(d)
  \/ SetAside(d)

Next ==
  \/ \E e \in Events : Append(e) \/ BecomeDue(e)
  \/ \E c \in Consumers :
       \/ SwitchModule(c)
       \/ \E decision \in Bindings \ {"skip"} : Pause(c, decision)
       \/ "skip" \in Bindings /\ (disableForModule(c) \/ ensureForModule(c))
       \/ Retry(c)
  \/ \E d \in Dispatchers : Claim(d) \/ Step(d) \/ Abandon(d)

Spec == Init /\ [][Next]_vars

\* The loop of a worker claims as long as something is due and finishes what it
\* claimed unless it dies, and time passes. Nothing else is fair: modules and
\* bindings may be switched for ever.
Fairness ==
  /\ \A e \in Events : WF_vars(BecomeDue(e))
  /\ \A d \in Dispatchers : WF_vars(Claim(d)) /\ WF_vars(Step(d))

FairSpec == Spec /\ Fairness

-----------------------------------------------------------------------------
(* Properties                                                                *)

\* What a consumer of the event owes nothing more to: it did its work, or its
\* binding, a problem retrying cannot fix, or the end of the attempts excused it,
\* or a delivery was through with it when a person retried the event.
Reached(c, e) == effects[c][e] > 0 \/ e \in excused[c] \/ e \in met[c]

\* The attempts of the event are spent, or were when a person retried it while the
\* last of them was under way.
OutOfAttempts(e) == outbox[e].attempts >= MaxAttempts \/ e \in overtaken

Promise == INSTANCE Delivery WITH
  recorded  <- {e \in Events : outbox[e].recorded},
  reached   <- [e \in Events |-> {c \in Listeners[e] : Reached(c, e)}],
  exhausted <- {e \in Events : OutOfAttempts(e)},
  processed <- {e \in Events : outbox[e].processed},
  aside     <- {e \in Events : outbox[e].failed}

\* No event is marked processed before every handler has done its work or was
\* excused, and none is set aside before its attempts are spent, whichever
\* dispatchers deliver it at once (deliver, prisma-event-stores claim).
Promised == Promise!Spec

\* A handler does its work at most once for each time the event was claimed,
\* although its record and its report may fail: every repetition costs an attempt.
OnceEachClaim ==
  \A c \in Consumers, e \in Events : effects[c][e] <= outbox[e].claims

\* What the inbox calls PROCESSED was done: a dispatcher that dies leaves an
\* effect without its record, never a record without its effect.
ProcessedWasHandled ==
  \A c \in Consumers, e \in Events : inbox[c][e] = "PROCESSED" => effects[c][e] > 0

\* Every event is finished in the end, processed or set aside, although any of
\* its handlers may fail every time and its module may never be switched on.
EventFinishes ==
  \A e \in Events : outbox[e].recorded ~> (outbox[e].processed \/ outbox[e].failed)

\* An event that is processed owes no handler anything: what a person retried is
\* delivered again before the event is processed again, unless a delivery was under
\* way that was through with the handler already (setStatus, retryHeld).
RetryIsDelivered ==
  \A e \in Events : outbox[e].processed => \A c \in Listeners[e] : Reached(c, e)

\* The same of every retry: it holds as long as one dispatcher works.
NoRetryLost ==
  \A e \in Events : outbox[e].processed =>
    \A c \in Listeners[e] : effects[c][e] > 0 \/ e \in excused[c]

\* Processed stays processed: once a handler's success is in the inbox, no later
\* delivery takes it away.
ProcessedStaysProcessed ==
  [][\A c \in Consumers, e \in Events :
       inbox[c][e] = "PROCESSED" => inbox'[c][e] = "PROCESSED"]_vars
=============================================================================
