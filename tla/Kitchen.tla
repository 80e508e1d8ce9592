------------------------------ MODULE Kitchen ------------------------------
(* Orders and their kitchen tickets, which never share a transaction: the   *)
(* order announces that it was submitted or canceled, the kitchen (modules/ *)
(* kds) reacts by making or canceling a ticket, and its own announcements   *)
(* move the order along (kernels/order-intake). Every announcement is an    *)
(* outbox event; dispatchers deliver it at least once, in any order, and    *)
(* more than one may be delivering the same event (EventDelivery). Each     *)
(* database call of a handler is a step.                                    *)
(*                                                                          *)
(* Every order here is unpaid, so that it may be canceled at any time; what *)
(* payments add is in SalesLedger. Setting an event aside after its last    *)
(* attempt is in EventDelivery.                                             *)
EXTENDS Naturals, Sequences

CONSTANTS
  Orders,       \* orders that may be placed
  Dispatchers,  \* worker processes that deliver events
  MaxFailures   \* bound of the instance: deliveries that fail or die on the way

ASSUME KitchenAssumption == MaxFailures \in Nat

VARIABLES
  order,     \* order_orders: status and whether its moderation lets it proceed
  ticket,    \* kds_tickets.status of the order's ticket
  counted,   \* how often a ticket was counted as usage (the counter's share)
  usage,     \* orders whose ticket has its usage event (core_usage_events)
  waiting,   \* events to deliver
  done,      \* events marked processed
  job,       \* what a dispatcher is doing
  failures,  \* how many deliveries failed
  missed     \* orders whose cancellation missed a ticket in the making (history)

events == <<waiting, done>>

vars == <<order, ticket, counted, usage, events, job, failures, missed>>

-----------------------------------------------------------------------------
(* Statuses                                                                  *)

\* ORDER of fulfillment.ts: how an order goes forward.
OrderSteps == <<"SUBMITTED", "ACCEPTED", "PREPARING", "READY", "SERVED">>

OrderStatus == {"NONE", "SUBMITTED", "PREPARING", "READY", "SERVED", "CANCELED"}

TicketStatus == {"NONE", "NEW", "ACCEPTED", "PREPARING", "READY", "SERVED", "CANCELED"}

\* NEXT of ticket-status.ts: the one next step of a ticket.
nextStatus == [NEW |-> "ACCEPTED", ACCEPTED |-> "PREPARING",
               PREPARING |-> "READY", READY |-> "SERVED"]

Open == DOMAIN nextStatus

\* What the kitchen announces, and what it means for the order.
Progress == {"PREPARING", "READY", "SERVED"}

Events == [kind : {"submitted", "canceled"} \cup Progress, order : Orders]

Rank(status) == CHOOSE i \in 1 .. Len(OrderSteps) : OrderSteps[i] = status

\* Slip: an order takes one step at a time.
statusesBefore_OneStep(progress) ==
  IF progress = "PREPARING" THEN {"SUBMITTED", "ACCEPTED"}
  ELSE {OrderSteps[Rank(progress) - 1]}

\* Slip: an announcement is believed whenever it arrives.
statusesBefore_Any(progress) == OrderStatus \ {progress}

\* The statuses an order may be in to move to progress: any earlier one.
statusesBefore(progress) == {OrderSteps[i] : i \in 1 .. Rank(progress) - 1}

Idle == [pc |-> "idle", event |-> {}, seen |-> "NONE"]

Job == {Idle} \cup [pc : {"read", "find", "create", "meter", "cancel", "finish"},
                    event : Events, seen : TicketStatus]

TypeOK ==
  /\ order \in [Orders -> [status : OrderStatus, approved : BOOLEAN]]
  /\ ticket \in [Orders -> TicketStatus]
  /\ counted \in [Orders -> Nat]
  /\ usage \subseteq Orders
  /\ waiting \subseteq Events
  /\ done \subseteq Events
  /\ job \in [Dispatchers -> Job]
  /\ failures \in 0 .. MaxFailures
  /\ missed \subseteq Orders

Init ==
  /\ order = [o \in Orders |-> [status |-> "NONE", approved |-> FALSE]]
  /\ ticket = [o \in Orders |-> "NONE"]
  /\ counted = [o \in Orders |-> 0]
  /\ usage = {}
  /\ waiting = {}
  /\ done = {}
  /\ job = [d \in Dispatchers |-> Idle]
  /\ failures = 0
  /\ missed = {}

Announce(kind, o) ==
  /\ waiting' = waiting \cup {[kind |-> kind, order |-> o]}
  /\ UNCHANGED done

-----------------------------------------------------------------------------
(* The order                                                                 *)

\* A cashier submits an order: it needs no moderation and is announced.
createSubmitted(o) ==
  /\ order[o].status = "NONE"
  /\ order' = [order EXCEPT ![o] = [status |-> "SUBMITTED", approved |-> TRUE]]
  /\ Announce("submitted", o)
  /\ UNCHANGED <<ticket, counted, usage, job, failures, missed>>

\* A guest submits an order: it waits for moderation and nobody is told.
createGuest(o) ==
  /\ order[o].status = "NONE"
  /\ order' = [order EXCEPT ![o] = [status |-> "SUBMITTED", approved |-> FALSE]]
  /\ UNCHANGED <<ticket, counted, usage, events, job, failures, missed>>

\* Slip: only a cashier's own orders are announced.
decideGuestOrder_Silent(o) ==
  /\ order[o] = [status |-> "SUBMITTED", approved |-> FALSE]
  /\ \/ /\ order' = [order EXCEPT ![o].approved = TRUE]
        /\ UNCHANGED events
     \/ /\ order' = [order EXCEPT ![o].status = "CANCELED"]
        /\ Announce("canceled", o)
  /\ UNCHANGED <<ticket, counted, usage, job, failures, missed>>

\* A cashier accepts a guest's order, which announces it, or rejects it, which
\* announces that it is canceled.
decideGuestOrder(o) ==
  /\ order[o] = [status |-> "SUBMITTED", approved |-> FALSE]
  /\ \/ /\ order' = [order EXCEPT ![o].approved = TRUE]
        /\ Announce("submitted", o)
     \/ /\ order' = [order EXCEPT ![o].status = "CANCELED"]
        /\ Announce("canceled", o)
  /\ UNCHANGED <<ticket, counted, usage, job, failures, missed>>

\* A cashier cancels an unpaid order, whatever the kitchen has done with it.
cancel(o) ==
  /\ order[o].status \notin {"NONE", "CANCELED"}
  /\ order' = [order EXCEPT ![o].status = "CANCELED"]
  /\ Announce("canceled", o)
  /\ UNCHANGED <<ticket, counted, usage, job, failures, missed>>

-----------------------------------------------------------------------------
(* The kitchen's screen                                                      *)

\* A cook moves a ticket from the status the screen shows to the next one, if
\* it still has that status; all steps but the first are announced with it.
move(o) ==
  /\ ticket[o] \in Open
  /\ ticket' = [ticket EXCEPT ![o] = nextStatus[ticket[o]]]
  /\ IF ticket'[o] \in Progress THEN Announce(ticket'[o], o) ELSE UNCHANGED events
  /\ UNCHANGED <<order, counted, usage, job, failures, missed>>

-----------------------------------------------------------------------------
(* Delivery                                                                  *)

\* A dispatcher takes an event that is not finished, also one that another
\* dispatcher is still delivering after its lease ran out.
Take(d, e) ==
  /\ job[d].pc = "idle"
  /\ e \in waiting
  /\ job' = [job EXCEPT ![d] = [pc |-> "read", event |-> e, seen |-> "NONE"]]
  /\ UNCHANGED <<order, ticket, counted, usage, events, failures, missed>>

\* The handler threw, or the process died: the event is delivered again.
Fail(d) ==
  /\ job[d].pc # "idle"
  /\ failures < MaxFailures
  /\ failures' = failures + 1
  /\ job' = [job EXCEPT ![d] = Idle]
  /\ UNCHANGED <<order, ticket, counted, usage, events, missed>>

\* The handler returned: the event is processed.
Finish(d) ==
  /\ job[d].pc = "finish"
  /\ waiting' = waiting \ {job[d].event}
  /\ done' = done \cup {job[d].event}
  /\ job' = [job EXCEPT ![d] = Idle]
  /\ UNCHANGED <<order, ticket, counted, usage, failures, missed>>

\* A step of the handler that only goes on to another step.
Goto(d, pc) == job' = [job EXCEPT ![d].pc = pc]

-----------------------------------------------------------------------------
(* order.submitted.v1: onSubmitted and CreateKitchenTicket                   *)

Handles(d, kind, pc) == job[d].pc = pc /\ job[d].event.kind = kind

\* Slip: an order that was announced gets a ticket.
ReadOrder_Trusting(d) ==
  /\ Handles(d, "submitted", "read")
  /\ Goto(d, "find")
  /\ UNCHANGED <<order, ticket, counted, usage, events, failures, missed>>

\* The order is read; a canceled one, or one not approved, gets no ticket.
ReadOrder(d) ==
  LET o == job[d].event.order
  IN  /\ Handles(d, "submitted", "read")
      /\ Goto(d, IF order[o].status = "CANCELED" \/ ~order[o].approved THEN "finish" ELSE "find")
      /\ UNCHANGED <<order, ticket, counted, usage, events, failures, missed>>

\* Slip: an existing ticket was counted when it was made.
FindTicket_ExistingIsCounted(d) ==
  /\ Handles(d, "submitted", "find")
  /\ Goto(d, IF ticket[job[d].event.order] = "NONE" THEN "create" ELSE "finish")
  /\ UNCHANGED <<order, ticket, counted, usage, events, failures, missed>>

\* create, the look for a ticket of the same source reference.
FindTicket(d) ==
  /\ Handles(d, "submitted", "find")
  /\ Goto(d, IF ticket[job[d].event.order] = "NONE" THEN "create" ELSE "meter")
  /\ UNCHANGED <<order, ticket, counted, usage, events, failures, missed>>

\* Slip: the insert replaces what another delivery made in the meantime.
CreateTicket_Replaces(d) ==
  /\ Handles(d, "submitted", "create")
  /\ ticket' = [ticket EXCEPT ![job[d].event.order] = "NEW"]
  /\ Goto(d, "meter")
  /\ UNCHANGED <<order, counted, usage, events, failures, missed>>

\* create, the insert: the unique reference lets one of two deliveries make it.
CreateTicket(d) ==
  LET o == job[d].event.order
  IN  /\ Handles(d, "submitted", "create")
      /\ ticket' = [ticket EXCEPT ![o] = IF @ = "NONE" THEN "NEW" ELSE @]
      /\ Goto(d, "meter")
      /\ UNCHANGED <<order, counted, usage, events, failures, missed>>

\* A delivery has read the order and is about to make its ticket.
Making(d, o) == job[d].pc \in {"find", "create"} /\ job[d].event.order = o

\* Slip: every delivery adds to the counter.
RecordUsage_EveryTime(d) ==
  LET o == job[d].event.order
  IN  /\ Handles(d, "submitted", "meter")
      /\ usage' = usage \cup {o}
      /\ counted' = [counted EXCEPT ![o] = @ + 1]
      /\ Goto(d, "finish")
      /\ UNCHANGED <<order, ticket, events, failures, missed>>

\* MeteringService.record: one usage event for the ticket, and with it one more
\* on the counter.
RecordUsage(d) ==
  LET o == job[d].event.order
  IN  /\ Handles(d, "submitted", "meter")
      /\ usage' = usage \cup {o}
      /\ counted' = [counted EXCEPT ![o] = IF o \in usage THEN @ ELSE @ + 1]
      /\ Goto(d, "finish")
      /\ UNCHANGED <<order, ticket, events, failures, missed>>

-----------------------------------------------------------------------------
(* order.canceled.v1: onCanceled and cancelBySource                          *)

\* The ticket is read. None, a canceled one and a served one end the handler.
FindForCancel(d) ==
  LET o == job[d].event.order
  IN  /\ Handles(d, "canceled", "read")
      /\ job' = [job EXCEPT ![d].seen = ticket[o],
                            ![d].pc = IF ticket[o] \in Open THEN "cancel" ELSE "finish"]
      /\ missed' = IF ticket[o] = "NONE" /\ \E x \in Dispatchers : Making(x, o)
                     THEN missed \cup {o} ELSE missed
      /\ UNCHANGED <<order, ticket, counted, usage, events, failures>>

\* Slip: a ticket that moved in the meantime counts as dealt with.
CommitCancel_Once(d) ==
  LET o == job[d].event.order
  IN  /\ Handles(d, "canceled", "cancel")
      /\ ticket' = [ticket EXCEPT ![o] = IF @ = job[d].seen THEN "CANCELED" ELSE @]
      /\ Goto(d, "finish")
      /\ UNCHANGED <<order, counted, usage, events, failures, missed>>

\* Slip: the cancellation does not ask for the status it read.
CommitCancel_Unguarded(d) ==
  LET o == job[d].event.order
  IN  /\ Handles(d, "canceled", "cancel")
      /\ ticket' = [ticket EXCEPT ![o] = "CANCELED"]
      /\ Goto(d, "finish")
      /\ UNCHANGED <<order, counted, usage, events, failures, missed>>

\* The ticket is canceled if it still has the status just read. One that was
\* finished meanwhile stays; one that moved on makes the handler throw.
CommitCancel(d) ==
  LET o == job[d].event.order
  IN  /\ Handles(d, "canceled", "cancel")
      /\ \/ /\ ticket[o] = job[d].seen
            /\ ticket' = [ticket EXCEPT ![o] = "CANCELED"]
            /\ Goto(d, "finish")
         \/ /\ ticket[o] # job[d].seen
            /\ ticket[o] \notin Open
            /\ Goto(d, "finish")
            /\ UNCHANGED ticket
         \/ /\ ticket[o] # job[d].seen
            /\ ticket[o] \in Open
            /\ job' = [job EXCEPT ![d] = Idle]
            /\ UNCHANGED ticket
      /\ UNCHANGED <<order, counted, usage, events, failures, missed>>

-----------------------------------------------------------------------------
(* kitchen_ticket.*.v1: the order follows the kitchen                        *)

\* moveStatus: forward only, and only an order that may proceed.
follow(d) ==
  LET o == job[d].event.order
      progress == job[d].event.kind
  IN  /\ job[d].pc = "read"
      /\ progress \in Progress
      /\ order' = [order EXCEPT ![o].status =
           IF order[o].approved /\ @ \in statusesBefore(progress) THEN progress ELSE @]
      /\ Goto(d, "finish")
      /\ UNCHANGED <<ticket, counted, usage, events, failures, missed>>

\* One step of a delivery that is under way.
Step(d) ==
  \/ ReadOrder(d)
  \/ FindTicket(d)
  \/ CreateTicket(d)
  \/ RecordUsage(d)
  \/ FindForCancel(d)
  \/ CommitCancel(d)
  \/ follow(d)
  \/ Finish(d)

Next ==
  \/ \E o \in Orders :
       \/ createSubmitted(o)
       \/ createGuest(o)
       \/ decideGuestOrder(o)
       \/ cancel(o)
       \/ move(o)
  \/ \E d \in Dispatchers :
       \/ \E e \in Events : Take(d, e)
       \/ Step(d)
       \/ Fail(d)

Spec == Init /\ [][Next]_vars

\* A dispatcher goes on with what it took, and the loops keep claiming: claims go
\* by age, so no event is passed over by all for ever. People owe nothing.
Fairness ==
  /\ \A d \in Dispatchers : WF_vars(Step(d))
  /\ \A e \in Events : SF_vars(\E d \in Dispatchers : Take(d, e))

FairSpec == Spec /\ Fairness

-----------------------------------------------------------------------------
(* Properties                                                                *)

\* A canceled order leaves no work in the kitchen: once its cancellation was
\* delivered its ticket is not open, and none appears later, although the
\* events may be delivered in the other order. The one exception: when the
\* cancellation looked for a ticket there was none yet, but another delivery had
\* read the order before and was about to make one (onSubmitted, cancelBySource).
CanceledTicketClosed ==
  \A o \in Orders \ missed :
    [kind |-> "canceled", order |-> o] \in done => ticket[o] \notin Open

\* The same without the exception. It holds where one dispatcher delivers, and
\* nothing in the code sees to it where there are more (onSubmitted,
\* cancelBySource).
NoCanceledTicketOpen ==
  \A o \in Orders : [kind |-> "canceled", order |-> o] \in done => ticket[o] \notin Open

\* No ticket is counted twice, and when the event is finished the ticket of an
\* order that stands is counted, although the handler may die between the ticket
\* and the count. The ticket of an order canceled in between may stay uncounted:
\* the repeated delivery skips it (CreateKitchenTicket, MeteringService.record).
TicketsCounted ==
  \A o \in Orders :
    /\ counted[o] <= 1
    /\ /\ [kind |-> "submitted", order |-> o] \in done
       /\ order[o].status # "CANCELED"
       => counted[o] = 1

\* The order never runs ahead of the kitchen: what it shows was reached by its
\* ticket, and a ticket is only canceled for a canceled order (moveStatus).
OrderFollowsTicket ==
  \A o \in Orders :
    /\ order[o].status \in Progress =>
         ticket[o] \in Progress /\ Rank(order[o].status) <= Rank(ticket[o])
    /\ ticket[o] = "CANCELED" => order[o].status = "CANCELED"

\* A finished ticket is history, an existing one is never made anew and neither
\* ticket nor order goes back, in whatever order the announcements arrive.
OnlyForward ==
  [][\A o \in Orders :
       /\ ticket[o] \in {"SERVED", "CANCELED"} => ticket'[o] = ticket[o]
       /\ ticket[o] # "NONE" => ticket'[o] \notin {"NONE", "NEW"} \ {ticket[o]}
       /\ order[o].status \in Progress =>
            order'[o].status \in {OrderSteps[i] : i \in Rank(order[o].status) .. Len(OrderSteps)}
                                 \cup {"CANCELED"}]_vars

\* What the kitchen served is served for the order too, unless it was canceled,
\* although the earlier announcements may arrive after the last one.
ServedIsSeen ==
  \A o \in Orders : ticket[o] = "SERVED" ~> order[o].status \in {"SERVED", "CANCELED"}

\* An approved order gets its ticket, or was canceled first.
ApprovedIsCooked ==
  \A o \in Orders : order[o].approved ~> (ticket[o] # "NONE" \/ order[o].status = "CANCELED")

\* A cancellation reaches the kitchen for good, however often a cook moves the
\* ticket while it is being canceled, but for a ticket that it missed.
CancellationArrives ==
  \A o \in Orders :
    order[o].status = "CANCELED" ~> [](ticket[o] \notin Open \/ o \in missed)
=============================================================================
