--------------------------- MODULE Kitchen_proofs ---------------------------
(* Safety of Kitchen for any number of orders, dispatchers and failures. The *)
(* order and its ticket never share a transaction, so the invariant is about *)
(* what the announcements between them still mean when they are delivered:   *)
(* what was announced of an order or a ticket stays true of it (Announced).  *)
EXTENDS Kitchen, TLAPS

Told == waiting \cup done

Submitted(o) == [kind |-> "submitted", order |-> o]
Canceled(o)  == [kind |-> "canceled", order |-> o]

\* A dispatcher is at work on an event that was announced.
Delivering == \A d \in Dispatchers : job[d].pc # "idle" => job[d].event \in Told

\* Later events leave what an earlier one told: an order that was announced is
\* approved, one canceled stays canceled, and a ticket is as far as it said,
\* unless it was canceled.
Announced ==
  \A e \in Told :
    /\ e.kind = "submitted" => order[e.order].approved /\ order[e.order].status # "NONE"
    /\ e.kind = "canceled" => order[e.order].status = "CANCELED"
    /\ e.kind \in Progress =>
         \/ ticket[e.order] = "CANCELED"
         \/ ticket[e.order] \in Progress /\ Rank(e.kind) <= Rank(ticket[e.order])

\* What a handler knows at its steps.
AtWork ==
  \A d \in Dispatchers :
    /\ job[d].pc = "cancel" => job[d].event.kind = "canceled" /\ job[d].seen \in Open
    /\ job[d].pc = "finish" /\ job[d].event.kind = "submitted" =>
         \/ order[job[d].event.order].status = "CANCELED"
         \/ job[d].event.order \in usage

Metered ==
  \A o \in Orders :
    /\ counted[o] = IF o \in usage THEN 1 ELSE 0
    /\ Submitted(o) \in done /\ order[o].status # "CANCELED" => o \in usage

Inv == TypeOK /\ Delivering /\ Announced /\ AtWork /\ Metered /\ OrderFollowsTicket

\* The cancellation of an order was delivered, or its handler has returned.
Ended(o) ==
  \/ Canceled(o) \in done
  \/ \E d \in Dispatchers : job[d].pc = "finish" /\ job[d].event = Canceled(o)

\* A cancellation that missed nothing ends with the ticket closed, or with none
\* and nobody who could still make one.
Closing ==
  /\ \A o \in Orders \ missed : Ended(o) =>
       /\ ticket[o] \notin Open
       /\ ticket[o] = "NONE" => \A d \in Dispatchers : ~Making(d, o)
  /\ \A d \in Dispatchers : job[d].pc = "cancel" => ticket[job[d].event.order] # "NONE"

-----------------------------------------------------------------------------
(* Statuses                                                                  *)

LEMMA Statuses ==
  /\ Open = {"NEW", "ACCEPTED", "PREPARING", "READY"}
  /\ nextStatus["NEW"] = "ACCEPTED" /\ nextStatus["ACCEPTED"] = "PREPARING"
  /\ nextStatus["PREPARING"] = "READY" /\ nextStatus["READY"] = "SERVED"
  /\ Rank("SUBMITTED") = 1 /\ Rank("ACCEPTED") = 2 /\ Rank("PREPARING") = 3
  /\ Rank("READY") = 4 /\ Rank("SERVED") = 5
<1>1. /\ Open = {"NEW", "ACCEPTED", "PREPARING", "READY"}
      /\ nextStatus["NEW"] = "ACCEPTED" /\ nextStatus["ACCEPTED"] = "PREPARING"
      /\ nextStatus["PREPARING"] = "READY" /\ nextStatus["READY"] = "SERVED"
  BY DEF Open, nextStatus
<1>2. /\ Len(OrderSteps) = 5
      /\ OrderSteps[1] = "SUBMITTED" /\ OrderSteps[2] = "ACCEPTED" /\ OrderSteps[3] = "PREPARING"
      /\ OrderSteps[4] = "READY" /\ OrderSteps[5] = "SERVED"
  BY DEF OrderSteps
<1>3. \A i \in 1 .. 5 : i = 1 \/ i = 2 \/ i = 3 \/ i = 4 \/ i = 5
  OBVIOUS
<1>4. ASSUME NEW n \in 1 .. 5, NEW s, s = OrderSteps[n]
      PROVE  Rank(s) = n
  <2>1. \A i \in 1 .. 5 : OrderSteps[i] = s <=> i = n
    BY <1>2, <1>3, <1>4
  <2>2. Rank(s) = CHOOSE i \in 1 .. 5 : OrderSteps[i] = s
    BY <1>2 DEF Rank
  <2> QED
    BY <2>1, <2>2
<1> QED
  BY <1>1, <1>2, <1>4

\* Where an order may come from.
LEMMA Before ==
  ASSUME NEW k \in Progress
  PROVE  /\ statusesBefore(k) \subseteq {"SUBMITTED", "ACCEPTED", "PREPARING", "READY"}
         /\ \A s \in statusesBefore(k) : Rank(s) < Rank(k)
<1>1. /\ OrderSteps[1] = "SUBMITTED" /\ OrderSteps[2] = "ACCEPTED" /\ OrderSteps[3] = "PREPARING"
      /\ OrderSteps[4] = "READY"
  BY DEF OrderSteps
<1>2. Rank(k) \in {3, 4, 5}
  BY Statuses DEF Progress
<1>3. ASSUME NEW s \in statusesBefore(k)
      PROVE  s \in {"SUBMITTED", "ACCEPTED", "PREPARING", "READY"} /\ Rank(s) < Rank(k)
  <2>1. PICK i \in 1 .. Rank(k) - 1 : s = OrderSteps[i]
    BY DEF statusesBefore
  <2>2. i \in {1, 2, 3, 4} /\ i < Rank(k)
    BY <1>2
  <2> QED
    BY <1>1, <2>1, <2>2, Statuses
<1> QED
  BY <1>3

OrderRow == [status : OrderStatus, approved : BOOLEAN]

LEMMA OrderRows ==
  ASSUME NEW r \in OrderRow
  PROVE  /\ r.status \in OrderStatus /\ r.approved \in BOOLEAN
         /\ \A s \in OrderStatus :
              /\ [r EXCEPT !.status = s] \in OrderRow
              /\ [r EXCEPT !.status = s].status = s
              /\ [r EXCEPT !.status = s].approved = r.approved
         /\ [r EXCEPT !.approved = TRUE] \in OrderRow
         /\ [r EXCEPT !.approved = TRUE].status = r.status
         /\ [r EXCEPT !.approved = TRUE].approved
  BY DEF OrderRow

LEMMA EventFields ==
  /\ \A e \in Events :
       /\ e.kind \in {"submitted", "canceled"} \cup Progress /\ e.order \in Orders
       /\ e = [kind |-> e.kind, order |-> e.order]
  /\ \A k \in {"submitted", "canceled"} \cup Progress, o \in Orders :
       /\ [kind |-> k, order |-> o] \in Events
       /\ [kind |-> k, order |-> o].kind = k /\ [kind |-> k, order |-> o].order = o
  BY DEF Events

LEMMA JobFields ==
  ASSUME TypeOK, NEW d \in Dispatchers, job[d].pc # "idle"
  PROVE  /\ job[d].pc \in {"read", "find", "create", "meter", "cancel", "finish"}
         /\ job[d].event \in Events /\ job[d].seen \in TicketStatus
         /\ job[d] = [pc |-> job[d].pc, event |-> job[d].event, seen |-> job[d].seen]
<1>1. job[d] \in Job
  BY DEF TypeOK
<1> QED
  BY <1>1 DEF Job, Idle

\* A dispatcher goes on.
LEMMA JobStep ==
  ASSUME TypeOK, NEW d \in Dispatchers, NEW q \in Job, job' = [job EXCEPT ![d] = q]
  PROVE  /\ job' \in [Dispatchers -> Job] /\ job'[d] = q
         /\ \A x \in Dispatchers \ {d} : job'[x] = job[x]
  BY DEF TypeOK

LEMMA GotoStep ==
  ASSUME TypeOK, NEW d \in Dispatchers, job[d].pc # "idle",
         NEW pc \in {"read", "find", "create", "meter", "cancel", "finish"}, Goto(d, pc)
  PROVE  /\ job' \in [Dispatchers -> Job]
         /\ job'[d].pc = pc /\ job'[d].event = job[d].event
         /\ \A x \in Dispatchers \ {d} : job'[x] = job[x]
<1>1. PICK e \in Events, s \in TicketStatus,
           p \in {"read", "find", "create", "meter", "cancel", "finish"} :
        e = job[d].event /\ s = job[d].seen /\ job[d] = [pc |-> p, event |-> e, seen |-> s]
  BY JobFields
<1> DEFINE q == [pc |-> pc, event |-> e, seen |-> s]
<1>2. q \in Job /\ q.pc = pc /\ q.event = e
  BY DEF Job
<1>3. job' = [job EXCEPT ![d] = q]
  <2>1. job' = [job EXCEPT ![d] = [job[d] EXCEPT !.pc = pc]]
    BY DEF Goto, TypeOK
  <2>2. [job[d] EXCEPT !.pc = pc] = q
    BY <1>1
  <2> QED
    BY <2>1, <2>2
<1> HIDE DEF q
<1> QED
  BY <1>1, <1>2, <1>3, JobStep

-----------------------------------------------------------------------------
(* What one step may do to an order, to a ticket and to the announcements    *)

OrderEffect(o) ==
  \/ order'[o] = order[o]
  \/ order[o].status = "NONE" /\ order'[o].status = "SUBMITTED"
  \/ order[o].status = "SUBMITTED" /\ order'[o].status = "SUBMITTED" /\ order'[o].approved
  \/ order[o].status # "NONE" /\ order'[o].status = "CANCELED"
     /\ order'[o].approved = order[o].approved
  \/ /\ order[o].approved /\ order'[o].approved
     /\ order'[o].status \in Progress
     /\ order[o].status \in statusesBefore(order'[o].status)
     /\ ticket[o] \in Progress /\ Rank(order'[o].status) <= Rank(ticket[o])

TicketEffect(o) ==
  \/ ticket'[o] = ticket[o]
  \/ ticket[o] = "NONE" /\ ticket'[o] = "NEW"
  \/ ticket[o] \in Open /\ ticket'[o] = nextStatus[ticket[o]]
  \/ ticket[o] \in Open /\ ticket'[o] = "CANCELED" /\ order[o].status = "CANCELED"

\* A new announcement tells what has just become so.
EventsEffect ==
  /\ Told \subseteq Told' /\ Told' \subseteq Events
  /\ \A e \in Told' \ Told :
       /\ e.kind = "submitted" => order'[e.order].approved /\ order'[e.order].status # "NONE"
       /\ e.kind = "canceled" => order'[e.order].status = "CANCELED"
       /\ e.kind \in Progress => ticket'[e.order] = e.kind

Effects ==
  /\ order' \in [Orders -> OrderRow]
  /\ ticket' \in [Orders -> TicketStatus]
  /\ \A o \in Orders : OrderEffect(o) /\ TicketEffect(o)
  /\ EventsEffect

\* A step leaves order and ticket of at least one alone.
LEMMA FollowsNext ==
  ASSUME TypeOK, OrderFollowsTicket, Effects,
         order' = order \/ ticket' = ticket
  PROVE  OrderFollowsTicket'
<1> SUFFICES ASSUME NEW o \in Orders
             PROVE  /\ order'[o].status \in Progress =>
                         ticket'[o] \in Progress /\ Rank(order'[o].status) <= Rank(ticket'[o])
                    /\ ticket'[o] = "CANCELED" => order'[o].status = "CANCELED"
  BY DEF OrderFollowsTicket
<1>1. /\ order[o].status \in Progress =>
           ticket[o] \in Progress /\ Rank(order[o].status) <= Rank(ticket[o])
      /\ ticket[o] = "CANCELED" => order[o].status = "CANCELED"
  BY DEF OrderFollowsTicket
<1>2. \A k \in Progress : "CANCELED" \notin statusesBefore(k)
  BY Before
<1>3. CASE ticket' = ticket
  <2>1. OrderEffect(o)
    BY DEF Effects
  <2> QED
    BY <1>1, <1>2, <1>3, <2>1 DEF OrderEffect, Progress
<1>4. CASE order' = order
  <2>1. TicketEffect(o) /\ ticket[o] \in TicketStatus
    BY DEF Effects, TypeOK
  <2>2. CASE ticket'[o] = ticket[o]
    BY <1>1, <1>4, <2>2
  <2>3. CASE ticket[o] = "NONE" /\ ticket'[o] = "NEW"
    BY <1>1, <1>4, <2>3 DEF Progress
  <2>4. CASE ticket[o] \in Open /\ ticket'[o] = nextStatus[ticket[o]]
    BY <1>1, <1>4, <2>4, Statuses DEF Progress
  <2>5. CASE ticket[o] \in Open /\ ticket'[o] = "CANCELED" /\ order[o].status = "CANCELED"
    BY <1>4, <2>5 DEF Progress
  <2> QED
    BY <2>1, <2>2, <2>3, <2>4, <2>5 DEF TicketEffect
<1> QED
  BY <1>3, <1>4

\* What was told stays true.
LEMMA AnnouncedNext ==
  ASSUME TypeOK, Announced, Effects
  PROVE  Announced'
<1> SUFFICES ASSUME NEW e \in Told'
             PROVE  /\ e.kind = "submitted" => order'[e.order].approved /\ order'[e.order].status # "NONE"
                    /\ e.kind = "canceled" => order'[e.order].status = "CANCELED"
                    /\ e.kind \in Progress =>
                         \/ ticket'[e.order] = "CANCELED"
                         \/ ticket'[e.order] \in Progress /\ Rank(e.kind) <= Rank(ticket'[e.order])
  BY DEF Announced
<1>1. e \in Events /\ e.order \in Orders
  BY EventFields DEF Effects, EventsEffect
<1>2. CASE e \notin Told
  <2>1. /\ e.kind = "submitted" => order'[e.order].approved /\ order'[e.order].status # "NONE"
        /\ e.kind = "canceled" => order'[e.order].status = "CANCELED"
        /\ e.kind \in Progress => ticket'[e.order] = e.kind
    BY <1>2 DEF Effects, EventsEffect
  <2>2. \A k \in Progress : Rank(k) <= Rank(k)
    BY Statuses DEF Progress
  <2> QED
    BY <2>1, <2>2
<1>3. CASE e \in Told
  <2> DEFINE o == e.order
  <2>1. /\ e.kind = "submitted" => order[o].approved /\ order[o].status # "NONE"
        /\ e.kind = "canceled" => order[o].status = "CANCELED"
        /\ e.kind \in Progress =>
             \/ ticket[o] = "CANCELED"
             \/ ticket[o] \in Progress /\ Rank(e.kind) <= Rank(ticket[o])
    BY <1>3 DEF Announced
  <2>2. OrderEffect(o) /\ TicketEffect(o)
    BY <1>1 DEF Effects
  <2>3. \A k \in Progress : "CANCELED" \notin statusesBefore(k)
    BY Before
  <2> HIDE DEF o
  <2>4. e.kind = "submitted" => order'[o].approved /\ order'[o].status # "NONE"
    BY <2>1, <2>2 DEF OrderEffect, Progress
  <2>5. e.kind = "canceled" => order'[o].status = "CANCELED"
    BY <2>1, <2>2, <2>3 DEF OrderEffect
  <2>6. e.kind \in Progress =>
          \/ ticket'[o] = "CANCELED"
          \/ ticket'[o] \in Progress /\ Rank(e.kind) <= Rank(ticket'[o])
    BY <2>1, <2>2, Statuses DEF TicketEffect, Progress
  <2> QED
    BY <2>4, <2>5, <2>6 DEF o
<1> QED
  BY <1>2, <1>3

\* Nothing goes back.
LEMMA ForwardNext ==
  ASSUME TypeOK, Effects, NEW o \in Orders
  PROVE  /\ ticket[o] \in {"SERVED", "CANCELED"} => ticket'[o] = ticket[o]
         /\ ticket[o] # "NONE" => ticket'[o] \notin {"NONE", "NEW"} \ {ticket[o]}
         /\ order[o].status \in Progress =>
              order'[o].status \in {OrderSteps[i] : i \in Rank(order[o].status) .. Len(OrderSteps)}
                                   \cup {"CANCELED"}
<1>1. OrderEffect(o) /\ TicketEffect(o)
  BY DEF Effects
<1>2. /\ ticket[o] \in {"SERVED", "CANCELED"} => ticket'[o] = ticket[o]
      /\ ticket[o] # "NONE" => ticket'[o] \notin {"NONE", "NEW"} \ {ticket[o]}
  BY <1>1, Statuses DEF TicketEffect
<1>3. ASSUME order[o].status \in Progress, order'[o].status # "CANCELED"
      PROVE  order'[o].status \in {OrderSteps[i] : i \in Rank(order[o].status) .. Len(OrderSteps)}
  <2>1. order'[o].status \in Progress /\ Rank(order[o].status) <= Rank(order'[o].status)
    <3>1. \A k \in Progress : Rank(k) <= Rank(k)
      BY Statuses DEF Progress
    <3>2. \A k \in Progress, s \in Progress : s \in statusesBefore(k) => Rank(s) <= Rank(k)
      BY Before, Statuses DEF Progress
    <3> QED
      BY <1>1, <1>3, <3>1, <3>2 DEF OrderEffect, Progress
  <2>2. /\ Len(OrderSteps) = 5
        /\ OrderSteps[3] = "PREPARING" /\ OrderSteps[4] = "READY" /\ OrderSteps[5] = "SERVED"
    BY DEF OrderSteps
  <2>3. \A k \in Progress : Rank(k) \in 3 .. 5 /\ OrderSteps[Rank(k)] = k
    BY <2>2, Statuses DEF Progress
  <2> QED
    BY <1>3, <2>1, <2>2, <2>3
<1> QED
  BY <1>2, <1>3

-----------------------------------------------------------------------------
(* What goes on besides                                                      *)

LEMMA CanceledStays ==
  ASSUME Effects, NEW o \in Orders, order[o].status = "CANCELED"
  PROVE  order'[o].status = "CANCELED"
<1>1. OrderEffect(o) /\ \A k \in Progress : "CANCELED" \notin statusesBefore(k)
  BY Before DEF Effects
<1> QED
  BY <1>1 DEF OrderEffect

\* One dispatcher goes on, or none.
LEMMA WorkNext ==
  ASSUME TypeOK, Delivering, AtWork, Effects, usage \subseteq usage', NEW D \in SUBSET Dispatchers,
         \A x \in Dispatchers \ D : job'[x] = job[x],
         \A d \in D :
           /\ job'[d].pc # "idle" => job'[d].event \in Told'
           /\ job'[d].pc = "cancel" => job'[d].event.kind = "canceled" /\ job'[d].seen \in Open
           /\ job'[d].pc = "finish" /\ job'[d].event.kind = "submitted" =>
                \/ order'[job'[d].event.order].status = "CANCELED"
                \/ job'[d].event.order \in usage'
  PROVE  Delivering' /\ AtWork'
<1>1. Delivering'
  BY DEF Delivering, Effects, EventsEffect
<1>2. ASSUME NEW x \in Dispatchers
      PROVE  /\ job'[x].pc = "cancel" => job'[x].event.kind = "canceled" /\ job'[x].seen \in Open
             /\ job'[x].pc = "finish" /\ job'[x].event.kind = "submitted" =>
                  \/ order'[job'[x].event.order].status = "CANCELED"
                  \/ job'[x].event.order \in usage'
  <2>1. CASE x \in D
    BY <2>1
  <2>2. CASE x \notin D
    <3>1. job'[x] = job[x]
      BY <2>2
    <3>2. job[x].pc = "finish" => job[x].event.order \in Orders
      BY JobFields, EventFields
    <3>3. /\ job[x].pc = "cancel" => job[x].event.kind = "canceled" /\ job[x].seen \in Open
          /\ job[x].pc = "finish" /\ job[x].event.kind = "submitted" =>
               \/ order[job[x].event.order].status = "CANCELED"
               \/ job[x].event.order \in usage
      BY DEF AtWork
    <3>4. \A o \in Orders : order[o].status = "CANCELED" => order'[o].status = "CANCELED"
      BY CanceledStays
    <3> QED
      BY <3>1, <3>2, <3>3, <3>4
  <2> QED
    BY <2>1, <2>2
<1> QED
  BY <1>1, <1>2 DEF AtWork

LEMMA MeteredNext ==
  ASSUME Metered, Effects, usage \subseteq usage',
         \A o \in Orders : counted'[o] = IF o \in usage' THEN 1 ELSE 0,
         \A o \in Orders : Submitted(o) \in done' =>
           Submitted(o) \in done \/ order[o].status = "CANCELED" \/ o \in usage'
  PROVE  Metered'
<1>1. \A o \in Orders : order[o].status = "CANCELED" => order'[o].status = "CANCELED"
  BY CanceledStays
<1> QED
  BY <1>1 DEF Metered, Submitted

\* What has to be shown of a step.
Kept ==
  /\ TypeOK' /\ Delivering' /\ AtWork' /\ Metered' /\ Effects
  /\ order' = order \/ ticket' = ticket

LEMMA KeptInv ==
  ASSUME Inv, Kept
  PROVE  Inv'
  BY AnnouncedNext, FollowsNext DEF Inv, Kept

-----------------------------------------------------------------------------
(* Orders and tickets                                                        *)

\* Somebody changes an order and may announce it.
LEMMA OrderChanges ==
  ASSUME Inv, NEW o \in Orders, NEW row \in OrderRow, order' = [order EXCEPT ![o] = row],
         \/ order[o].status = "NONE" /\ row.status = "SUBMITTED"
         \/ order[o].status = "SUBMITTED" /\ row.status = "SUBMITTED" /\ row.approved
         \/ order[o].status # "NONE" /\ row.status = "CANCELED" /\ row.approved = order[o].approved,
         \/ waiting' = waiting
         \/ waiting' = waiting \cup {Submitted(o)} /\ row.approved /\ row.status = "SUBMITTED"
         \/ waiting' = waiting \cup {Canceled(o)} /\ row.status = "CANCELED",
         UNCHANGED <<ticket, counted, usage, done, job, failures, missed>>
  PROVE  Kept
<1>1. order' \in [Orders -> OrderRow] /\ order'[o] = row /\ \A x \in Orders \ {o} : order'[x] = order[x]
  BY DEF Inv, TypeOK, OrderRow
<1>2. \A x \in Orders : OrderEffect(x) /\ TicketEffect(x)
  <2>1. OrderEffect(o)
    BY <1>1 DEF OrderEffect
  <2>2. \A x \in Orders \ {o} : OrderEffect(x)
    BY <1>1 DEF OrderEffect
  <2> QED
    BY <2>1, <2>2 DEF TicketEffect
<1>3. /\ Submitted(o) \in Events /\ Submitted(o).kind = "submitted" /\ Submitted(o).order = o
      /\ Canceled(o) \in Events /\ Canceled(o).kind = "canceled" /\ Canceled(o).order = o
  BY EventFields DEF Submitted, Canceled
<1>4. Told \subseteq Events
  BY DEF Inv, TypeOK, Told
<1>5. EventsEffect
  <2>1. CASE waiting' = waiting
    BY <1>4, <2>1 DEF EventsEffect, Told
  <2>2. CASE waiting' = waiting \cup {Submitted(o)} /\ row.approved /\ row.status = "SUBMITTED"
    <3>1. Told' = Told \cup {Submitted(o)}
      BY <2>2 DEF Told
    <3> QED
      BY <1>1, <1>3, <1>4, <2>2, <3>1 DEF EventsEffect, Progress
  <2>3. CASE waiting' = waiting \cup {Canceled(o)} /\ row.status = "CANCELED"
    <3>1. Told' = Told \cup {Canceled(o)}
      BY <2>3 DEF Told
    <3> QED
      BY <1>1, <1>3, <1>4, <2>3, <3>1 DEF EventsEffect, Progress
  <2> QED
    BY <2>1, <2>2, <2>3
<1>6. Effects
  BY <1>1, <1>2, <1>5 DEF Effects, Inv, TypeOK
<1>7. TypeOK'
  <2>1. waiting' \subseteq Events
    BY <1>5 DEF EventsEffect, Told
  <2> QED
    BY <1>1, <2>1 DEF Inv, TypeOK, OrderRow
<1>8. Delivering' /\ AtWork'
  <2>1. {} \in SUBSET Dispatchers /\ \A x \in Dispatchers \ {} : job'[x] = job[x]
    OBVIOUS
  <2> QED
    BY <1>6, <2>1, WorkNext DEF Inv
<1>9. Metered'
  BY <1>6, MeteredNext DEF Inv, Metered
<1> QED
  BY <1>6, <1>7, <1>8, <1>9 DEF Kept

LEMMA OrderSide ==
  ASSUME Inv, NEW o \in Orders,
         createSubmitted(o) \/ createGuest(o) \/ decideGuestOrder(o) \/ cancel(o)
  PROVE  Kept
<1>1. order[o] \in OrderRow /\ order \in [Orders -> OrderRow]
  BY DEF Inv, TypeOK, OrderRow
<1>2. CASE createSubmitted(o)
  <2> DEFINE row == [status |-> "SUBMITTED", approved |-> TRUE]
  <2>1. row \in OrderRow /\ row.status = "SUBMITTED" /\ row.approved
    BY DEF OrderRow, OrderStatus
  <2>2. /\ order[o].status = "NONE" /\ order' = [order EXCEPT ![o] = row]
        /\ waiting' = waiting \cup {Submitted(o)}
        /\ UNCHANGED <<ticket, counted, usage, done, job, failures, missed>>
    BY <1>2 DEF createSubmitted, Announce, Submitted
  <2> HIDE DEF row
  <2> QED
    BY <2>1, <2>2, OrderChanges
<1>3. CASE createGuest(o)
  <2> DEFINE row == [status |-> "SUBMITTED", approved |-> FALSE]
  <2>1. row \in OrderRow /\ row.status = "SUBMITTED"
    BY DEF OrderRow, OrderStatus
  <2>2. /\ order[o].status = "NONE" /\ order' = [order EXCEPT ![o] = row]
        /\ waiting' = waiting
        /\ UNCHANGED <<ticket, counted, usage, done, job, failures, missed>>
    BY <1>3 DEF createGuest, events
  <2> HIDE DEF row
  <2> QED
    BY <2>1, <2>2, OrderChanges
<1>4. ASSUME order[o].status # "NONE", order' = [order EXCEPT ![o].status = "CANCELED"],
             Announce("canceled", o), UNCHANGED <<ticket, counted, usage, job, failures, missed>>
      PROVE  Kept
  <2> DEFINE row == [order[o] EXCEPT !.status = "CANCELED"]
  <2>1. row \in OrderRow /\ row.status = "CANCELED" /\ row.approved = order[o].approved
    <3>1. "CANCELED" \in OrderStatus
      BY DEF OrderStatus
    <3>2. PICK r \in OrderRow : r = order[o]
      BY <1>1
    <3>3. /\ [r EXCEPT !.status = "CANCELED"] \in OrderRow
          /\ [r EXCEPT !.status = "CANCELED"].status = "CANCELED"
          /\ [r EXCEPT !.status = "CANCELED"].approved = r.approved
      BY <3>1, OrderRows
    <3> QED
      BY <3>2, <3>3
  <2>2. /\ order' = [order EXCEPT ![o] = row]
        /\ waiting' = waiting \cup {Canceled(o)} /\ done' = done
    BY <1>1, <1>4 DEF Announce, Canceled
  <2> HIDE DEF row
  <2> QED
    BY <1>4, <2>1, <2>2, OrderChanges
<1>5. CASE cancel(o)
  BY <1>4, <1>5 DEF cancel
<1>6. CASE decideGuestOrder(o)
  <2>1. order[o].status = "SUBMITTED" /\ UNCHANGED <<ticket, counted, usage, job, failures, missed>>
    BY <1>6 DEF decideGuestOrder
  <2>2. CASE order' = [order EXCEPT ![o].approved = TRUE] /\ Announce("submitted", o)
    <3> DEFINE row == [order[o] EXCEPT !.approved = TRUE]
    <3>1. row \in OrderRow /\ row.status = order[o].status /\ row.approved
      BY <1>1, OrderRows
    <3>2. /\ order' = [order EXCEPT ![o] = row]
          /\ waiting' = waiting \cup {Submitted(o)} /\ done' = done
      BY <1>1, <2>2 DEF Announce, Submitted
    <3> HIDE DEF row
    <3> QED
      BY <2>1, <3>1, <3>2, OrderChanges
  <2>3. CASE order' = [order EXCEPT ![o].status = "CANCELED"] /\ Announce("canceled", o)
    BY <1>4, <2>1, <2>3
  <2> QED
    BY <1>6, <2>2, <2>3 DEF decideGuestOrder
<1> QED
  BY <1>2, <1>3, <1>5, <1>6

LEMMA MoveKept ==
  ASSUME Inv, NEW o \in Orders, move(o)
  PROVE  Kept
<1>1. ticket[o] \in Open /\ ticket' = [ticket EXCEPT ![o] = nextStatus[ticket[o]]]
  BY DEF move
<1>2. /\ ticket' \in [Orders -> TicketStatus] /\ ticket'[o] = nextStatus[ticket[o]]
      /\ \A x \in Orders \ {o} : ticket'[x] = ticket[x]
  <2>1. nextStatus[ticket[o]] \in TicketStatus
    BY <1>1, Statuses DEF TicketStatus
  <2> QED
    BY <1>1, <2>1 DEF Inv, TypeOK
<1>3. UNCHANGED <<order, counted, usage, job, failures, missed, done>>
  BY DEF move, Announce, events
<1>4. \A x \in Orders : OrderEffect(x) /\ TicketEffect(x)
  BY <1>1, <1>2, <1>3 DEF OrderEffect, TicketEffect
<1>5. Told \subseteq Events
  BY DEF Inv, TypeOK, Told
<1>6. EventsEffect
  <2>1. CASE waiting' = waiting
    BY <1>3, <1>5, <2>1 DEF EventsEffect, Told
  <2>2. CASE ticket'[o] \in Progress /\ Announce(ticket'[o], o)
    <3> DEFINE e == [kind |-> ticket'[o], order |-> o]
    <3>1. e \in Events /\ e.kind = ticket'[o] /\ e.order = o
      BY <2>2, EventFields
    <3>2. Told' = Told \cup {e}
      BY <1>3, <2>2 DEF Announce, Told
    <3>3. e.kind # "submitted" /\ e.kind # "canceled"
      BY <2>2, <3>1 DEF Progress
    <3> HIDE DEF e
    <3> QED
      BY <1>5, <3>1, <3>2, <3>3 DEF EventsEffect
  <2> QED
    BY <2>1, <2>2 DEF move, events
<1>7. Effects
  BY <1>2, <1>3, <1>4, <1>6 DEF Effects, Inv, TypeOK, OrderRow
<1>8. TypeOK'
  <2>1. waiting' \subseteq Events
    BY <1>6 DEF EventsEffect, Told
  <2> QED
    BY <1>2, <1>3, <2>1 DEF Inv, TypeOK
<1>9. Delivering' /\ AtWork'
  <2>1. {} \in SUBSET Dispatchers /\ \A x \in Dispatchers \ {} : job'[x] = job[x]
    BY <1>3
  <2> QED
    BY <1>3, <1>7, <2>1, WorkNext DEF Inv
<1>10. Metered'
  BY <1>3, <1>7, MeteredNext DEF Inv, Metered
<1> QED
  BY <1>3, <1>7, <1>8, <1>9, <1>10 DEF Kept

-----------------------------------------------------------------------------
(* Deliveries                                                                *)

\* A dispatcher goes on and changes no order, no ticket and no announcement but
\* for what it finished.
LEMMA JobKept ==
  ASSUME Inv, NEW d \in Dispatchers, job' \in [Dispatchers -> Job],
         \A x \in Dispatchers \ {d} : job'[x] = job[x],
         job'[d].pc # "idle" => job'[d].event \in Told',
         job'[d].pc = "cancel" => job'[d].event.kind = "canceled" /\ job'[d].seen \in Open,
         job'[d].pc = "finish" /\ job'[d].event.kind = "submitted" =>
           \/ order'[job'[d].event.order].status = "CANCELED"
           \/ job'[d].event.order \in usage',
         Effects, order' = order \/ ticket' = ticket,
         usage \subseteq usage', usage' \subseteq Orders,
         counted' \in [Orders -> Nat], failures' \in 0 .. MaxFailures, missed' \subseteq Orders,
         \A o \in Orders : counted'[o] = IF o \in usage' THEN 1 ELSE 0,
         waiting' \subseteq Events, done' \subseteq Events,
         \A o \in Orders : Submitted(o) \in done' =>
           Submitted(o) \in done \/ order[o].status = "CANCELED" \/ o \in usage'
  PROVE  Kept
<1>1. TypeOK'
  BY DEF TypeOK, Effects, OrderRow
<1>2. Delivering' /\ AtWork'
  <2>1. {d} \in SUBSET Dispatchers
    OBVIOUS
  <2>2. \A x \in {d} :
          /\ job'[x].pc # "idle" => job'[x].event \in Told'
          /\ job'[x].pc = "cancel" => job'[x].event.kind = "canceled" /\ job'[x].seen \in Open
          /\ job'[x].pc = "finish" /\ job'[x].event.kind = "submitted" =>
               \/ order'[job'[x].event.order].status = "CANCELED"
               \/ job'[x].event.order \in usage'
    OBVIOUS
  <2>3. TypeOK /\ Delivering /\ AtWork
    BY DEF Inv
  <2> QED
    BY <2>1, <2>2, <2>3, WorkNext
<1>3. Metered'
  BY MeteredNext DEF Inv
<1> QED
  BY <1>1, <1>2, <1>3 DEF Kept

\* What a step has no effect on.
LEMMA NoEffect ==
  ASSUME Inv, UNCHANGED <<order, ticket>>, Told' = Told
  PROVE  Effects
<1>1. Told \subseteq Events
  BY DEF Inv, TypeOK, Told
<1> QED
  BY <1>1 DEF Inv, TypeOK, OrderRow, Effects, OrderEffect, TicketEffect, EventsEffect

\* A dispatcher that only goes on.
LEMMA QuietKept ==
  ASSUME Inv, NEW d \in Dispatchers, job' \in [Dispatchers -> Job],
         \A x \in Dispatchers \ {d} : job'[x] = job[x],
         job'[d].pc # "idle" => job'[d].event \in Told,
         job'[d].pc = "cancel" => job'[d].event.kind = "canceled" /\ job'[d].seen \in Open,
         job'[d].pc = "finish" /\ job'[d].event.kind = "submitted" =>
           order[job'[d].event.order].status = "CANCELED",
         failures' \in 0 .. MaxFailures, missed' \subseteq Orders,
         UNCHANGED <<order, ticket, counted, usage, waiting, done>>
  PROVE  Kept
<1>1. Told' = Told
  BY DEF Told
<1>2. Effects
  BY <1>1, NoEffect
<1>3. /\ usage' \subseteq Orders /\ counted' \in [Orders -> Nat]
      /\ \A o \in Orders : counted'[o] = IF o \in usage' THEN 1 ELSE 0
      /\ waiting' \subseteq Events /\ done' \subseteq Events
  BY DEF Inv, TypeOK, Metered
<1> QED
  BY <1>1, <1>2, <1>3, JobKept

LEMMA IdleJob == Idle \in Job /\ Idle.pc = "idle"
  BY DEF Job, Idle

LEMMA TakeKept ==
  ASSUME Inv, NEW d \in Dispatchers, NEW e \in Events, Take(d, e)
  PROVE  Kept
<1> DEFINE q == [pc |-> "read", event |-> e, seen |-> "NONE"]
<1>1. q \in Job /\ q.pc = "read" /\ q.event = e
  BY DEF Job, TicketStatus
<1>2. /\ e \in Told /\ job' = [job EXCEPT ![d] = q]
      /\ UNCHANGED <<order, ticket, counted, usage, waiting, done, failures, missed>>
  BY DEF Take, Told, events
<1> HIDE DEF q
<1>3. /\ job' \in [Dispatchers -> Job] /\ job'[d] = q
      /\ \A x \in Dispatchers \ {d} : job'[x] = job[x]
  BY <1>1, <1>2, JobStep DEF Inv
<1>4. failures' \in 0 .. MaxFailures /\ missed' \subseteq Orders
  BY <1>2 DEF Inv, TypeOK
<1> QED
  BY <1>1, <1>2, <1>3, <1>4, QuietKept

LEMMA FailKept ==
  ASSUME Inv, NEW d \in Dispatchers, Fail(d)
  PROVE  Kept
<1>1. /\ job' \in [Dispatchers -> Job] /\ job'[d] = Idle
      /\ \A x \in Dispatchers \ {d} : job'[x] = job[x]
  BY IdleJob, JobStep DEF Inv, Fail
<1>2. failures' \in 0 .. MaxFailures /\ missed' \subseteq Orders
  BY KitchenAssumption DEF Inv, TypeOK, Fail
<1>3. UNCHANGED <<order, ticket, counted, usage, waiting, done>>
  BY DEF Fail, events
<1> QED
  BY <1>1, <1>2, <1>3, IdleJob, QuietKept

\* A step of a handler that only reads.
LEMMA GotoKept ==
  ASSUME Inv, NEW d \in Dispatchers, job[d].pc # "idle",
         NEW pc \in {"find", "create", "meter", "finish"}, Goto(d, pc),
         pc = "finish" /\ job[d].event.kind = "submitted" =>
           order[job[d].event.order].status = "CANCELED",
         UNCHANGED <<order, ticket, counted, usage, events, failures, missed>>
  PROVE  Kept
<1>1. /\ job' \in [Dispatchers -> Job]
      /\ job'[d].pc = pc /\ job'[d].event = job[d].event
      /\ \A x \in Dispatchers \ {d} : job'[x] = job[x]
  BY GotoStep DEF Inv
<1>2. job[d].event \in Told
  BY DEF Inv, Delivering
<1>3. failures' \in 0 .. MaxFailures /\ missed' \subseteq Orders /\ waiting' = waiting /\ done' = done
  BY DEF Inv, TypeOK, events
<1> QED
  BY <1>1, <1>2, <1>3, QuietKept

LEMMA ReadOrderKept ==
  ASSUME Inv, NEW d \in Dispatchers, ReadOrder(d)
  PROVE  Kept
<1>1. /\ job[d].pc = "read" /\ job[d].event.kind = "submitted"
      /\ UNCHANGED <<order, ticket, counted, usage, events, failures, missed>>
  BY DEF ReadOrder, Handles
<1>2. order[job[d].event.order].approved
  BY <1>1 DEF Inv, Delivering, Announced
<1>3. CASE order[job[d].event.order].status = "CANCELED"
  <2>1. Goto(d, "finish")
    BY <1>3 DEF ReadOrder
  <2> QED
    BY <1>1, <1>3, <2>1, GotoKept
<1>4. CASE order[job[d].event.order].status # "CANCELED"
  <2>1. Goto(d, "find")
    BY <1>2, <1>4 DEF ReadOrder
  <2> QED
    BY <1>1, <2>1, GotoKept
<1> QED
  BY <1>3, <1>4

LEMMA FindTicketKept ==
  ASSUME Inv, NEW d \in Dispatchers, FindTicket(d)
  PROVE  Kept
<1>1. /\ job[d].pc = "find"
      /\ UNCHANGED <<order, ticket, counted, usage, events, failures, missed>>
  BY DEF FindTicket, Handles
<1>2. Goto(d, "create") \/ Goto(d, "meter")
  BY DEF FindTicket
<1> QED
  BY <1>1, <1>2, GotoKept

LEMMA FindForCancelKept ==
  ASSUME Inv, NEW d \in Dispatchers, FindForCancel(d)
  PROVE  Kept
<1>1. /\ job[d].pc = "read" /\ job[d].event.kind = "canceled"
      /\ UNCHANGED <<order, ticket, counted, usage, events, failures>>
  BY DEF FindForCancel, Handles
<1>2. PICK e \in Events : e = job[d].event
  BY <1>1, JobFields DEF Inv
<1>3. e.order \in Orders /\ ticket[e.order] \in TicketStatus
  BY EventFields DEF Inv, TypeOK
<1> DEFINE next == IF ticket[e.order] \in Open THEN "cancel" ELSE "finish"
           q == [job[d] EXCEPT !.seen = ticket[e.order], !.pc = next]
<1>4. next \in {"cancel", "finish"} /\ (next = "cancel" => ticket[e.order] \in Open)
  OBVIOUS
<1>5. job' = [job EXCEPT ![d] = q]
  BY <1>2 DEF FindForCancel, Inv, TypeOK
<1> HIDE DEF next
<1>6. q \in Job /\ q.pc = next /\ q.event = e /\ q.seen = ticket[e.order]
  <2> DEFINE J == [pc : {"read", "find", "create", "meter", "cancel", "finish"},
                   event : Events, seen : TicketStatus]
  <2>1. job[d] \in J
    BY <1>1 DEF Inv, TypeOK, Job, Idle
  <2>2. J \subseteq Job
    BY DEF Job
  <2> HIDE DEF J
  <2>3. PICK r \in J, t \in TicketStatus, n \in {"cancel", "finish"} :
          r = job[d] /\ t = ticket[e.order] /\ n = next
    BY <1>3, <1>4, <2>1
  <2>4. /\ [r EXCEPT !.seen = t, !.pc = n] \in J
        /\ [r EXCEPT !.seen = t, !.pc = n].pc = n
        /\ [r EXCEPT !.seen = t, !.pc = n].event = r.event
        /\ [r EXCEPT !.seen = t, !.pc = n].seen = t
    BY DEF J
  <2> QED
    BY <1>2, <2>2, <2>3, <2>4
<1> HIDE DEF q
<1>7. /\ job' \in [Dispatchers -> Job] /\ job'[d] = q
      /\ \A x \in Dispatchers \ {d} : job'[x] = job[x]
  BY <1>5, <1>6, JobStep DEF Inv
<1>8. e \in Told
  BY <1>1, <1>2 DEF Inv, Delivering
<1>9. failures' \in 0 .. MaxFailures /\ missed' \subseteq Orders /\ waiting' = waiting /\ done' = done
  BY <1>1, <1>2, <1>3 DEF Inv, TypeOK, events, FindForCancel
<1> QED
  BY <1>1, <1>2, <1>4, <1>6, <1>7, <1>8, <1>9, QuietKept

LEMMA FinishKept ==
  ASSUME Inv, NEW d \in Dispatchers, Finish(d)
  PROVE  Kept
<1>1. /\ job[d].pc = "finish" /\ job[d].event \in Told
      /\ waiting' = waiting \ {job[d].event} /\ done' = done \cup {job[d].event}
      /\ UNCHANGED <<order, ticket, counted, usage, failures, missed>>
  BY DEF Finish, Inv, Delivering
<1>2. /\ job' \in [Dispatchers -> Job] /\ job'[d] = Idle
      /\ \A x \in Dispatchers \ {d} : job'[x] = job[x]
  BY IdleJob, JobStep DEF Inv, Finish
<1>3. Told' = Told
  BY <1>1 DEF Told
<1>4. Effects
  BY <1>1, <1>3, NoEffect
<1>5. /\ waiting' \subseteq Events /\ done' \subseteq Events
      /\ usage' \subseteq Orders /\ counted' \in [Orders -> Nat] /\ failures' \in 0 .. MaxFailures /\ missed' \subseteq Orders
      /\ \A o \in Orders : counted'[o] = IF o \in usage' THEN 1 ELSE 0
  BY <1>1 DEF Inv, TypeOK, Told, Metered
<1>6. ASSUME NEW o \in Orders, Submitted(o) \in done'
      PROVE  Submitted(o) \in done \/ order[o].status = "CANCELED" \/ o \in usage'
  <2>1. CASE Submitted(o) = job[d].event
    <3>1. job[d].event.kind = "submitted" /\ job[d].event.order = o
      BY <2>1 DEF Submitted
    <3> QED
      BY <1>1, <3>1 DEF Inv, AtWork
  <2>2. CASE Submitted(o) # job[d].event
    BY <1>1, <1>6, <2>2
  <2> QED
    BY <2>1, <2>2
<1>7. usage \subseteq usage' /\ order' = order
  BY <1>1
<1> QED
  BY <1>2, <1>4, <1>5, <1>6, <1>7, IdleJob, JobKept

\* One ticket changes and nothing is announced.
LEMMA TicketEffects ==
  ASSUME Inv, NEW o \in Orders, NEW t \in TicketStatus, ticket' = [ticket EXCEPT ![o] = t],
         \/ t = ticket[o]
         \/ ticket[o] = "NONE" /\ t = "NEW"
         \/ ticket[o] \in Open /\ t = "CANCELED" /\ order[o].status = "CANCELED",
         order' = order, Told' = Told
  PROVE  Effects
<1>1. /\ ticket' \in [Orders -> TicketStatus] /\ ticket'[o] = t
      /\ \A x \in Orders \ {o} : ticket'[x] = ticket[x]
  BY DEF Inv, TypeOK
<1>2. Told \subseteq Events
  BY DEF Inv, TypeOK, Told
<1>3. EventsEffect
  BY <1>2 DEF EventsEffect
<1>4. \A x \in Orders : OrderEffect(x)
  BY DEF OrderEffect
<1>5. \A x \in Orders : TicketEffect(x)
  BY <1>1 DEF TicketEffect
<1> QED
  BY <1>1, <1>3, <1>4, <1>5 DEF Effects, Inv, TypeOK, OrderRow

LEMMA CreateTicketKept ==
  ASSUME Inv, NEW d \in Dispatchers, CreateTicket(d)
  PROVE  Kept
<1>1. /\ job[d].pc = "create" /\ Goto(d, "meter")
      /\ UNCHANGED <<order, counted, usage, failures, missed>> /\ waiting' = waiting /\ done' = done
  BY DEF CreateTicket, Handles, events
<1>2. job[d].event \in Told /\ job[d].event \in Events /\ job[d].event.order \in Orders
  BY <1>1, JobFields, EventFields DEF Inv, Delivering
<1>3. PICK o \in Orders : o = job[d].event.order
  BY <1>2
<1> DEFINE t == IF ticket[o] = "NONE" THEN "NEW" ELSE ticket[o]
<1>4. t \in TicketStatus /\ (t = ticket[o] \/ (ticket[o] = "NONE" /\ t = "NEW"))
  <2>1. ticket[o] \in TicketStatus /\ "NEW" \in TicketStatus
    BY DEF Inv, TypeOK, TicketStatus
  <2>2. CASE ticket[o] = "NONE"
    BY <2>1, <2>2
  <2>3. CASE ticket[o] # "NONE"
    <3>1. t = ticket[o]
      BY <2>3
    <3> QED
      BY <2>1, <3>1
  <2> QED
    BY <2>2, <2>3
<1>5. ticket' = [ticket EXCEPT ![o] = t]
  BY <1>3 DEF CreateTicket, Inv, TypeOK
<1> HIDE DEF t
<1>6. Told' = Told
  BY <1>1 DEF Told
<1>7. Effects
  BY <1>1, <1>4, <1>5, <1>6, TicketEffects
<1>8. /\ job' \in [Dispatchers -> Job] /\ job'[d].pc = "meter" /\ job'[d].event = job[d].event
      /\ \A x \in Dispatchers \ {d} : job'[x] = job[x]
  BY <1>1, GotoStep DEF Inv
<1>9. /\ waiting' \subseteq Events /\ done' \subseteq Events
      /\ usage' \subseteq Orders /\ counted' \in [Orders -> Nat] /\ failures' \in 0 .. MaxFailures /\ missed' \subseteq Orders
      /\ \A x \in Orders : counted'[x] = IF x \in usage' THEN 1 ELSE 0
  BY <1>1 DEF Inv, TypeOK, Metered
<1>10. usage \subseteq usage' /\ order' = order /\ done' = done /\ job'[d].event \in Told'
  BY <1>1, <1>2, <1>6, <1>8
<1> QED
  BY <1>7, <1>8, <1>9, <1>10, JobKept

LEMMA RecordUsageKept ==
  ASSUME Inv, NEW d \in Dispatchers, RecordUsage(d)
  PROVE  Kept
<1>1. /\ job[d].pc = "meter" /\ Goto(d, "finish")
      /\ UNCHANGED <<order, ticket, failures, missed>> /\ waiting' = waiting /\ done' = done
  BY DEF RecordUsage, Handles, events
<1>2. job[d].event \in Told /\ job[d].event \in Events /\ job[d].event.order \in Orders
  BY <1>1, JobFields, EventFields DEF Inv, Delivering
<1>3. PICK o \in Orders : o = job[d].event.order
  BY <1>2
<1>4. usage' = usage \cup {o} /\ counted' = [counted EXCEPT ![o] = IF o \in usage THEN @ ELSE @ + 1]
  BY <1>3 DEF RecordUsage
<1>5. Told' = Told
  BY <1>1 DEF Told
<1>6. Effects
  BY <1>1, <1>5, NoEffect
<1>7. /\ job' \in [Dispatchers -> Job] /\ job'[d].pc = "finish" /\ job'[d].event = job[d].event
      /\ \A x \in Dispatchers \ {d} : job'[x] = job[x]
  BY <1>1, GotoStep DEF Inv
<1>8. /\ counted' \in [Orders -> Nat]
      /\ \A x \in Orders : counted'[x] = IF x \in usage' THEN 1 ELSE 0
  <2>1. counted \in [Orders -> Nat] /\ \A x \in Orders : counted[x] = IF x \in usage THEN 1 ELSE 0
    BY DEF Inv, TypeOK, Metered
  <2>2. \A n \in Nat : n + 1 \in Nat
    OBVIOUS
  <2>3. 0 + 1 = 1
    OBVIOUS
  <2> QED
    BY <1>4, <2>1, <2>2, <2>3
<1>9. /\ waiting' \subseteq Events /\ done' \subseteq Events
      /\ usage' \subseteq Orders /\ failures' \in 0 .. MaxFailures /\ missed' \subseteq Orders
  BY <1>1, <1>4 DEF Inv, TypeOK
<1>10. /\ usage \subseteq usage' /\ order' = order /\ done' = done /\ job'[d].event \in Told'
       /\ job'[d].event.order \in usage'
  BY <1>1, <1>2, <1>3, <1>4, <1>5, <1>7
<1> QED
  BY <1>6, <1>7, <1>8, <1>9, <1>10, JobKept

LEMMA CommitCancelKept ==
  ASSUME Inv, NEW d \in Dispatchers, CommitCancel(d)
  PROVE  Kept
<1>1. /\ job[d].pc = "cancel" /\ job[d].event.kind = "canceled"
      /\ UNCHANGED <<order, counted, usage, failures, missed>> /\ waiting' = waiting /\ done' = done
  BY DEF CommitCancel, Handles, events
<1>2. /\ job[d].event \in Told /\ job[d].event \in Events /\ job[d].event.order \in Orders
      /\ job[d].seen \in Open
  BY <1>1, JobFields, EventFields DEF Inv, Delivering, AtWork
<1>3. PICK o \in Orders : o = job[d].event.order
  BY <1>2
<1>4. order[o].status = "CANCELED"
  BY <1>1, <1>2, <1>3 DEF Inv, Announced
<1>5. Told' = Told
  BY <1>1 DEF Told
<1>6. Effects
  <2>1. CASE ticket[o] = job[d].seen /\ ticket' = [ticket EXCEPT ![o] = "CANCELED"]
    <3>1. "CANCELED" \in TicketStatus
      BY DEF TicketStatus
    <3> QED
      BY <1>1, <1>2, <1>4, <1>5, <2>1, <3>1, TicketEffects
  <2>2. CASE ticket' = ticket
    BY <1>1, <1>5, <2>2, NoEffect
  <2> QED
    BY <1>3, <2>1, <2>2 DEF CommitCancel
<1>7. /\ job' \in [Dispatchers -> Job]
      /\ \A x \in Dispatchers \ {d} : job'[x] = job[x]
      /\ \/ job'[d].pc = "finish" /\ job'[d].event = job[d].event
         \/ job'[d].pc = "idle"
  <2>1. CASE Goto(d, "finish")
    BY <1>1, <2>1, GotoStep DEF Inv
  <2>2. CASE job' = [job EXCEPT ![d] = Idle]
    BY <2>2, JobStep, IdleJob DEF Inv
  <2> QED
    BY <2>1, <2>2 DEF CommitCancel
<1>8. /\ waiting' \subseteq Events /\ done' \subseteq Events
      /\ usage' \subseteq Orders /\ counted' \in [Orders -> Nat] /\ failures' \in 0 .. MaxFailures /\ missed' \subseteq Orders
      /\ \A x \in Orders : counted'[x] = IF x \in usage' THEN 1 ELSE 0
  BY <1>1 DEF Inv, TypeOK, Metered
<1>9. /\ usage \subseteq usage' /\ order' = order /\ done' = done
      /\ job'[d].pc # "idle" => job'[d].event \in Told'
      /\ job'[d].pc # "cancel"
      /\ job'[d].pc = "finish" => job'[d].event.kind # "submitted"
  BY <1>1, <1>2, <1>5, <1>7
<1> QED
  BY <1>6, <1>7, <1>8, <1>9, JobKept

LEMMA FollowKept ==
  ASSUME Inv, NEW d \in Dispatchers, follow(d)
  PROVE  Kept
<1>1. /\ job[d].pc = "read" /\ job[d].event.kind \in Progress /\ Goto(d, "finish")
      /\ UNCHANGED <<ticket, counted, usage, failures, missed>> /\ waiting' = waiting /\ done' = done
  BY DEF follow, events
<1>2. job[d].event \in Told /\ job[d].event \in Events /\ job[d].event.order \in Orders
  BY <1>1, JobFields, EventFields DEF Inv, Delivering
<1>3. PICK o \in Orders, k \in Progress : o = job[d].event.order /\ k = job[d].event.kind
  BY <1>1, <1>2
<1>4. \/ ticket[o] = "CANCELED"
      \/ ticket[o] \in Progress /\ Rank(k) <= Rank(ticket[o])
  BY <1>2, <1>3 DEF Inv, Announced
<1>5. Told' = Told
  BY <1>1 DEF Told
<1>6. order \in [Orders -> OrderRow]
  BY DEF Inv, TypeOK, OrderRow
<1>7. Effects
  <2>1. CASE order[o].approved /\ order[o].status \in statusesBefore(k)
    <3> DEFINE row == [order[o] EXCEPT !.status = k]
    <3>1. row \in OrderRow /\ row.status = k /\ row.approved = order[o].approved
      <4>1. PICK r \in OrderRow : r = order[o]
        BY <1>6
      <4>2. k \in OrderStatus
        BY DEF OrderStatus, Progress
      <4>3. /\ [r EXCEPT !.status = k] \in OrderRow
            /\ [r EXCEPT !.status = k].status = k
            /\ [r EXCEPT !.status = k].approved = r.approved
        BY <4>2, OrderRows
      <4> QED
        BY <4>1, <4>3
    <3>2. order' = [order EXCEPT ![o] = row]
      BY <1>3, <1>6, <2>1 DEF follow
    <3> HIDE DEF row
    <3>3. /\ order' \in [Orders -> OrderRow] /\ order'[o] = row
          /\ \A x \in Orders \ {o} : order'[x] = order[x]
      BY <1>6, <3>1, <3>2
    <3>4. ticket[o] # "CANCELED"
      <4>1. order[o].status # "CANCELED"
        BY <2>1, Before
      <4> QED
        BY <4>1 DEF Inv, OrderFollowsTicket
    <3>5. OrderEffect(o)
      BY <1>4, <2>1, <3>1, <3>3, <3>4 DEF OrderEffect
    <3>6. \A x \in Orders : OrderEffect(x) /\ TicketEffect(x)
      BY <1>1, <3>3, <3>5 DEF OrderEffect, TicketEffect
    <3>7. EventsEffect
      BY <1>5 DEF EventsEffect, Inv, TypeOK, Told
    <3> QED
      BY <1>1, <3>3, <3>6, <3>7 DEF Effects, Inv, TypeOK
  <2>2. CASE ~(order[o].approved /\ order[o].status \in statusesBefore(k))
    <3>1. order' = [order EXCEPT ![o] = [order[o] EXCEPT !.status = order[o].status]]
      BY <1>3, <1>6, <2>2 DEF follow
    <3>2. [order[o] EXCEPT !.status = order[o].status] = order[o]
      BY <1>6 DEF OrderRow
    <3>3. order' = order
      BY <1>6, <3>1, <3>2
    <3> QED
      BY <1>1, <1>5, <3>3, NoEffect
  <2> QED
    BY <2>1, <2>2
<1>8. /\ job' \in [Dispatchers -> Job] /\ job'[d].pc = "finish" /\ job'[d].event = job[d].event
      /\ \A x \in Dispatchers \ {d} : job'[x] = job[x]
  BY <1>1, GotoStep DEF Inv
<1>9. /\ waiting' \subseteq Events /\ done' \subseteq Events
      /\ usage' \subseteq Orders /\ counted' \in [Orders -> Nat] /\ failures' \in 0 .. MaxFailures /\ missed' \subseteq Orders
      /\ \A x \in Orders : counted'[x] = IF x \in usage' THEN 1 ELSE 0
  BY <1>1 DEF Inv, TypeOK, Metered
<1>10. /\ usage \subseteq usage' /\ ticket' = ticket /\ done' = done /\ job'[d].event \in Told'
       /\ job'[d].event.kind # "submitted"
  BY <1>1, <1>2, <1>5, <1>8 DEF Progress
<1> QED
  BY <1>7, <1>8, <1>9, <1>10, JobKept

LEMMA NextKept ==
  ASSUME Inv, Next
  PROVE  Kept
  BY OrderSide, MoveKept, TakeKept, FailKept, ReadOrderKept, FindTicketKept, CreateTicketKept,
     RecordUsageKept, FindForCancelKept, CommitCancelKept, FollowKept, FinishKept DEF Next, Step

LEMMA InitInv == Init => Inv
<1> SUFFICES ASSUME Init PROVE Inv
  OBVIOUS
<1>1. TypeOK
  BY KitchenAssumption DEF Init, TypeOK, OrderStatus, TicketStatus, Job
<1>2. Told = {} /\ \A d \in Dispatchers : job[d].pc = "idle"
  BY DEF Init, Told, Idle
<1>3. Delivering /\ Announced /\ AtWork /\ Metered
  BY <1>2 DEF Init, Delivering, Announced, AtWork, Metered
<1>4. OrderFollowsTicket
  BY DEF Init, OrderFollowsTicket, Progress
<1> QED
  BY <1>1, <1>3, <1>4 DEF Inv

LEMMA StepInv == Inv /\ [Next]_vars => Inv'
<1> SUFFICES ASSUME Inv, [Next]_vars PROVE Inv'
  OBVIOUS
<1>1. CASE Next
  BY <1>1, NextKept, KeptInv
<1>2. CASE UNCHANGED vars
  BY <1>2 DEF vars, events, Inv, TypeOK, Delivering, Announced, AtWork, Metered,
     OrderFollowsTicket, Told
<1> QED
  BY <1>1, <1>2

LEMMA InvHolds == Spec => []Inv
  BY InitInv, StepInv, PTL DEF Spec

-----------------------------------------------------------------------------
(* Theorems                                                                  *)

\* Orders, tickets, counters, events and deliveries keep their types.
THEOREM TypeCorrect == Spec => []TypeOK
<1>1. Inv => TypeOK
  BY DEF Inv
<1> QED
  BY <1>1, InvHolds, PTL

\* No ticket is counted twice, and when order.submitted.v1 is finished the
\* ticket of an order that stands is counted, however often the handler died on
\* the way (CreateKitchenTicket, MeteringService.record).
THEOREM TicketsCountedTheorem == Spec => []TicketsCounted
<1>1. Inv => TicketsCounted
  <2> SUFFICES ASSUME Inv, NEW o \in Orders
               PROVE  /\ counted[o] <= 1
                      /\ /\ [kind |-> "submitted", order |-> o] \in done
                         /\ order[o].status # "CANCELED"
                         => counted[o] = 1
    BY DEF TicketsCounted
  <2>1. /\ counted[o] = IF o \in usage THEN 1 ELSE 0
        /\ Submitted(o) \in done /\ order[o].status # "CANCELED" => o \in usage
    BY DEF Inv, Metered
  <2> QED
    BY <2>1 DEF Submitted
<1> QED
  BY <1>1, InvHolds, PTL

\* An order never shows more than its ticket reached, and a ticket is only
\* canceled for a canceled order, in whatever order the announcements arrive
\* and whoever delivers them (moveStatus).
THEOREM OrderFollowsTicketTheorem == Spec => []OrderFollowsTicket
<1>1. Inv => OrderFollowsTicket
  BY DEF Inv
<1> QED
  BY <1>1, InvHolds, PTL

\* Neither a ticket nor an order ever goes back, a finished ticket is history
\* and an existing one is never made anew.
THEOREM OnlyForwardTheorem == Spec => OnlyForward
<1> DEFINE Forward(o) ==
      /\ ticket[o] \in {"SERVED", "CANCELED"} => ticket'[o] = ticket[o]
      /\ ticket[o] # "NONE" => ticket'[o] \notin {"NONE", "NEW"} \ {ticket[o]}
      /\ order[o].status \in Progress =>
           order'[o].status \in {OrderSteps[i] : i \in Rank(order[o].status) .. Len(OrderSteps)}
                                \cup {"CANCELED"}
<1>1. Inv /\ [Next]_vars => [\A o \in Orders : Forward(o)]_vars
  <2> SUFFICES ASSUME Inv, Next, NEW o \in Orders PROVE Forward(o)
    OBVIOUS
  <2>1. TypeOK /\ Effects
    BY NextKept DEF Inv, Kept
  <2> QED
    BY <2>1, ForwardNext
<1>2. Spec => [][\A o \in Orders : Forward(o)]_vars
  BY <1>1, InvHolds, PTL DEF Spec
<1> QED
  BY <1>2 DEF OnlyForward

-----------------------------------------------------------------------------
(* The end of a canceled order                                               *)

LEMMA CanceledFields ==
  ASSUME NEW o \in Orders
  PROVE  Canceled(o) \in Events /\ Canceled(o).kind = "canceled" /\ Canceled(o).order = o
  BY EventFields DEF Canceled

\* The order of a cancellation that was told is canceled.
LEMMA EndedIsCanceled ==
  ASSUME Inv, NEW o \in Orders, Ended(o)
  PROVE  order[o].status = "CANCELED"
<1>1. Canceled(o) \in Told
  BY DEF Ended, Inv, Delivering, Told
<1> QED
  BY <1>1, CanceledFields DEF Inv, Announced

\* A ticket that is not open opens only when it is made, and one that was made
\* does not go away.
LEMMA StaysClosed ==
  ASSUME Inv, Effects, NEW o \in Orders
  PROVE  /\ ticket[o] \notin Open =>
              ticket'[o] \notin Open \/ (ticket[o] = "NONE" /\ ticket'[o] = "NEW")
         /\ ticket[o] # "NONE" => ticket'[o] # "NONE"
<1>1. TicketEffect(o)
  BY DEF Effects
<1> QED
  BY <1>1, Statuses DEF TicketEffect

\* Tickets are made by who was making one, whoever begins to make one has found
\* the order standing, and what ends a cancellation has seen to the ticket.
LEMMA ClosingStep ==
  ASSUME Inv, Closing, Effects, missed \subseteq missed',
         \A o \in Orders : ticket[o] = "NONE" /\ ticket'[o] = "NEW" =>
           \E d \in Dispatchers : Making(d, o),
         \A o \in Orders, d \in Dispatchers : Making(d, o)' =>
           Making(d, o) \/ order[o].status # "CANCELED",
         \A o \in Orders \ missed' : Ended(o)' =>
           \/ Ended(o)
           \/ /\ ticket'[o] \notin Open
              /\ ticket'[o] = "NONE" => \A d \in Dispatchers : ~Making(d, o)',
         \A d \in Dispatchers : job'[d].pc = "cancel" =>
           \/ job'[d] = job[d]
           \/ job'[d].event.order \in Orders /\ ticket'[job'[d].event.order] # "NONE"
  PROVE  Closing'
<1>1. ASSUME NEW o \in Orders \ missed', Ended(o)'
      PROVE  /\ ticket'[o] \notin Open
             /\ ticket'[o] = "NONE" => \A d \in Dispatchers : ~Making(d, o)'
  <2>1. CASE ~Ended(o)
    BY <1>1, <2>1
  <2>2. CASE Ended(o)
    <3>1. /\ ticket[o] \notin Open
          /\ ticket[o] = "NONE" => \A d \in Dispatchers : ~Making(d, o)
      BY <2>2 DEF Closing
    <3>2. order[o].status = "CANCELED"
      BY <2>2, EndedIsCanceled
    <3>3. ticket'[o] \notin Open
      BY <3>1, StaysClosed
    <3>4. ticket'[o] = "NONE" => ticket[o] = "NONE"
      BY StaysClosed
    <3> QED
      BY <3>1, <3>2, <3>3, <3>4
  <2> QED
    BY <2>1, <2>2
<1>2. ASSUME NEW d \in Dispatchers, job'[d].pc = "cancel"
      PROVE  ticket'[job'[d].event.order] # "NONE"
  <2>1. CASE job'[d] = job[d]
    <3>1. job[d].event.order \in Orders /\ ticket[job[d].event.order] # "NONE"
      BY <1>2, <2>1, JobFields, EventFields DEF Closing, Inv
    <3> QED
      BY <2>1, <3>1, StaysClosed
  <2> QED
    BY <1>2, <2>1
<1> QED
  BY <1>1, <1>2 DEF Closing

\* A step beside the dispatchers.
LEMMA ClosingBeside ==
  ASSUME Inv, Closing, Effects, job' = job, done' = done, missed' = missed,
         \A o \in Orders : ~(ticket[o] = "NONE" /\ ticket'[o] = "NEW")
  PROVE  Closing'
<1>1. \A o \in Orders : /\ Ended(o)' <=> Ended(o)
                        /\ \A d \in Dispatchers : Making(d, o)' <=> Making(d, o)
  BY DEF Ended, Making
<1> QED
  BY <1>1, ClosingStep

\* A dispatcher's step that marks nothing as processed.
LEMMA ClosingJob ==
  ASSUME Inv, Closing, Effects, NEW d \in Dispatchers, done' = done, missed \subseteq missed',
         \A x \in Dispatchers \ {d} : job'[x] = job[x],
         \A o \in Orders : ticket[o] = "NONE" /\ ticket'[o] = "NEW" => Making(d, o),
         job'[d].pc \in {"find", "create"} =>
           \/ job[d].pc \in {"find", "create"} /\ job'[d].event = job[d].event
           \/ order[job'[d].event.order].status # "CANCELED",
         job'[d].pc = "cancel" =>
           job'[d].event.order \in Orders /\ ticket'[job'[d].event.order] # "NONE",
         \A o \in Orders \ missed' : job'[d].pc = "finish" /\ job'[d].event = Canceled(o) =>
           /\ ticket'[o] \notin Open
           /\ ticket'[o] = "NONE" => \A x \in Dispatchers : ~Making(x, o)'
  PROVE  Closing'
<1>1. \A o \in Orders, x \in Dispatchers : Making(x, o)' =>
        Making(x, o) \/ order[o].status # "CANCELED"
  BY DEF Making
<1>2. ASSUME NEW o \in Orders \ missed', Ended(o)', ~Ended(o)
      PROVE  job'[d].pc = "finish" /\ job'[d].event = Canceled(o)
  <2>1. PICK x \in Dispatchers : job'[x].pc = "finish" /\ job'[x].event = Canceled(o)
    BY <1>2 DEF Ended, Canceled
  <2>2. x = d
    BY <1>2, <2>1 DEF Ended
  <2> QED
    BY <2>1, <2>2
<1>3. \A x \in Dispatchers : job'[x].pc = "cancel" =>
        \/ job'[x] = job[x]
        \/ job'[x].event.order \in Orders /\ ticket'[job'[x].event.order] # "NONE"
  OBVIOUS
<1> QED
  BY <1>1, <1>2, <1>3, ClosingStep

\* A handler's step that goes on to pc and makes no ticket.
LEMMA ClosingGoto ==
  ASSUME Inv, Closing, Effects, NEW d \in Dispatchers, job[d].pc # "idle",
         NEW pc \in {"find", "create", "meter", "finish"}, Goto(d, pc),
         done' = done, missed' = missed,
         \A o \in Orders : ~(ticket[o] = "NONE" /\ ticket'[o] = "NEW"),
         pc \in {"find", "create"} =>
           \/ job[d].pc \in {"find", "create"}
           \/ order[job[d].event.order].status # "CANCELED",
         pc = "finish" /\ job[d].event.kind = "canceled" =>
           LET o == job[d].event.order IN ticket'[o] \notin Open /\ ticket'[o] # "NONE"
  PROVE  Closing'
<1>1. /\ job'[d].pc = pc /\ job'[d].event = job[d].event
      /\ \A x \in Dispatchers \ {d} : job'[x] = job[x]
  BY GotoStep DEF Inv
<1>2. ASSUME NEW o \in Orders, pc = "finish", job[d].event = Canceled(o)
      PROVE  ticket'[o] \notin Open /\ ticket'[o] # "NONE"
  BY <1>2, CanceledFields
<1> QED
  BY <1>1, <1>2, ClosingJob

\* The look for a ticket to cancel: if there is none, either nobody is making it
\* or it is missed.
LEMMA FindForCancelClosing ==
  ASSUME Inv, Closing, Effects, NEW d \in Dispatchers, FindForCancel(d)
  PROVE  Closing'
<1>1. /\ job[d].pc = "read" /\ job[d].event.kind = "canceled"
      /\ ticket' = ticket /\ done' = done
      /\ job' = [job EXCEPT ![d].seen = ticket[job[d].event.order],
                            ![d].pc = IF ticket[job[d].event.order] \in Open THEN "cancel" ELSE "finish"]
  BY DEF FindForCancel, Handles, events
<1>2. PICK o \in Orders, e \in Events : e = job[d].event /\ o = e.order
  BY <1>1, JobFields, EventFields DEF Inv
<1>3. /\ job'[d].pc = IF ticket[o] \in Open THEN "cancel" ELSE "finish"
      /\ job'[d].event = e
      /\ \A x \in Dispatchers \ {d} : job'[x] = job[x]
  <2>1. PICK p \in {"read", "find", "create", "meter", "cancel", "finish"}, s \in TicketStatus :
          job[d] = [pc |-> p, event |-> e, seen |-> s]
    BY <1>1, <1>2, JobFields DEF Inv
  <2> DEFINE n == IF ticket[o] \in Open THEN "cancel" ELSE "finish"
  <2>2. /\ job'[d] = [job[d] EXCEPT !.seen = ticket[o], !.pc = n]
        /\ \A x \in Dispatchers \ {d} : job'[x] = job[x]
    BY <1>1, <1>2 DEF Inv, TypeOK
  <2> HIDE DEF n
  <2>3. PICK t \in TicketStatus, m \in {"cancel", "finish"} : t = ticket[o] /\ m = n
    BY DEF Inv, TypeOK, n
  <2> DEFINE q == [pc |-> p, event |-> e, seen |-> s]
  <2>4. [q EXCEPT !.seen = t, !.pc = m].pc = m /\ [q EXCEPT !.seen = t, !.pc = m].event = e
    OBVIOUS
  <2> HIDE DEF q
  <2>5. job[d] = q
    BY <2>1 DEF q
  <2> QED
    BY <2>2, <2>3, <2>4, <2>5 DEF n
<1>4. missed' = IF ticket[o] = "NONE" /\ \E x \in Dispatchers : Making(x, o)
                  THEN missed \cup {o} ELSE missed
  BY <1>2 DEF FindForCancel
<1>5. \A x \in Dispatchers : Making(x, o)' => Making(x, o)
  BY <1>3 DEF Making
<1>6. job'[d].pc = "cancel" => job'[d].event.order \in Orders /\ ticket'[job'[d].event.order] # "NONE"
  BY <1>1, <1>2, <1>3, Statuses
<1>7. ASSUME NEW x \in Orders \ missed', job'[d].pc = "finish", job'[d].event = Canceled(x)
      PROVE  /\ ticket'[x] \notin Open
             /\ ticket'[x] = "NONE" => \A y \in Dispatchers : ~Making(y, x)'
  <2>1. x = o
    BY <1>2, <1>3, <1>7, CanceledFields
  <2> QED
    BY <1>1, <1>3, <1>4, <1>5, <1>7, <2>1
<1>8. job'[d].pc \notin {"find", "create"}
  BY <1>3
<1> QED
  BY <1>1, <1>3, <1>4, <1>6, <1>7, <1>8, ClosingJob

LEMMA CommitCancelClosing ==
  ASSUME Inv, Closing, Effects, NEW d \in Dispatchers, CommitCancel(d)
  PROVE  Closing'
<1>1. /\ job[d].pc = "cancel" /\ job[d].event.kind = "canceled"
      /\ done' = done /\ missed' = missed
  BY DEF CommitCancel, Handles, events
<1>2. PICK o \in Orders : o = job[d].event.order
  BY <1>1, JobFields, EventFields DEF Inv
<1>3. ticket[o] # "NONE"
  BY <1>1, <1>2 DEF Closing
<1>4. CASE ticket' = [ticket EXCEPT ![o] = "CANCELED"] /\ Goto(d, "finish")
  <2>1. /\ ticket'[o] \notin Open /\ ticket'[o] # "NONE"
        /\ \A x \in Orders : ~(ticket[x] = "NONE" /\ ticket'[x] = "NEW")
    BY <1>4, Statuses DEF Inv, TypeOK
  <2> QED
    BY <1>1, <1>2, <1>4, <2>1, ClosingGoto
<1>5. CASE ticket[o] \notin Open /\ Goto(d, "finish") /\ ticket' = ticket
  BY <1>1, <1>2, <1>3, <1>5, ClosingGoto
<1>6. CASE job' = [job EXCEPT ![d] = Idle] /\ ticket' = ticket
  <2>1. job'[d].pc = "idle" /\ \A x \in Dispatchers \ {d} : job'[x] = job[x]
    BY <1>6, IdleJob DEF Inv, TypeOK
  <2> QED
    BY <1>1, <1>6, <2>1, ClosingJob
<1> QED
  BY <1>2, <1>4, <1>5, <1>6 DEF CommitCancel

LEMMA FinishClosing ==
  ASSUME Inv, Closing, Effects, NEW d \in Dispatchers, Finish(d)
  PROVE  Closing'
<1>1. /\ job[d].pc = "finish" /\ done' = done \cup {job[d].event}
      /\ ticket' = ticket /\ missed' = missed
      /\ job'[d] = Idle /\ \A x \in Dispatchers \ {d} : job'[x] = job[x]
  BY DEF Finish, Inv, TypeOK
<1>2. Idle.pc = "idle"
  BY DEF Idle
<1>3. \A o \in Orders : Ended(o)' => Ended(o)
  BY <1>1, <1>2 DEF Ended, Canceled
<1>4. \A o \in Orders, x \in Dispatchers : Making(x, o)' => Making(x, o)
  BY <1>1, <1>2 DEF Making
<1>5. \A x \in Dispatchers : job'[x].pc = "cancel" => job'[x] = job[x]
  BY <1>1, <1>2
<1> QED
  BY <1>1, <1>3, <1>4, <1>5, ClosingStep

LEMMA ClosingNext ==
  ASSUME Inv, Closing, Next
  PROVE  Closing'
<1>1. Effects /\ TypeOK
  BY NextKept DEF Kept, Inv
<1>2. ASSUME NEW o \in Orders,
             createSubmitted(o) \/ createGuest(o) \/ decideGuestOrder(o) \/ cancel(o)
      PROVE  Closing'
  <2>1. ticket' = ticket /\ job' = job /\ done' = done /\ missed' = missed
    BY <1>2 DEF createSubmitted, createGuest, decideGuestOrder, cancel, Announce, events
  <2> QED
    BY <1>1, <2>1, ClosingBeside
<1>3. ASSUME NEW o \in Orders, move(o)
      PROVE  Closing'
  <2>1. /\ job' = job /\ done' = done /\ missed' = missed
        /\ ticket' = [ticket EXCEPT ![o] = nextStatus[ticket[o]]] /\ ticket[o] \in Open
    BY <1>3 DEF move, Announce, events
  <2>2. \A x \in Orders : ~(ticket[x] = "NONE" /\ ticket'[x] = "NEW")
    BY <1>1, <2>1, Statuses DEF TypeOK
  <2> QED
    BY <1>1, <2>1, <2>2, ClosingBeside
<1>4. ASSUME NEW d \in Dispatchers,
             (\E e \in Events : Take(d, e)) \/ Fail(d)
      PROVE  Closing'
  <2>1. /\ done' = done /\ ticket' = ticket /\ missed' = missed
        /\ job'[d].pc \in {"read", "idle"} /\ \A x \in Dispatchers \ {d} : job'[x] = job[x]
    BY <1>1, <1>4 DEF Take, Fail, events, Idle, TypeOK
  <2> QED
    BY <1>1, <2>1, ClosingJob
<1>5. ASSUME NEW d \in Dispatchers, ReadOrder(d)
      PROVE  Closing'
  <2>1. /\ job[d].pc # "idle" /\ job[d].event.kind = "submitted"
        /\ ticket' = ticket /\ done' = done /\ missed' = missed
        /\ Goto(d, "finish") \/ (order[job[d].event.order].status # "CANCELED" /\ Goto(d, "find"))
    BY <1>5 DEF ReadOrder, Handles, events
  <2> QED
    BY <1>1, <2>1, ClosingGoto
<1>6. ASSUME NEW d \in Dispatchers, FindTicket(d)
      PROVE  Closing'
  <2>1. /\ job[d].pc = "find" /\ job[d].event.kind = "submitted"
        /\ ticket' = ticket /\ done' = done /\ missed' = missed
        /\ Goto(d, "create") \/ Goto(d, "meter")
    BY <1>6 DEF FindTicket, Handles, events
  <2> QED
    BY <1>1, <2>1, ClosingGoto
<1>7. ASSUME NEW d \in Dispatchers, CreateTicket(d)
      PROVE  Closing'
  <2>1. /\ job[d].pc = "create" /\ job[d].event.kind = "submitted"
        /\ done' = done /\ missed' = missed /\ Goto(d, "meter")
    BY <1>7 DEF CreateTicket, Handles, events
  <2>2. \A o \in Orders : ticket[o] = "NONE" /\ ticket'[o] = "NEW" => Making(d, o)
    BY <1>1, <1>7, <2>1 DEF CreateTicket, Making, TypeOK
  <2>3. job'[d].pc = "meter" /\ \A x \in Dispatchers \ {d} : job'[x] = job[x]
    BY <1>1, <2>1, GotoStep
  <2> QED
    BY <1>1, <2>1, <2>2, <2>3, ClosingJob
<1>8. ASSUME NEW d \in Dispatchers, RecordUsage(d) \/ follow(d)
      PROVE  Closing'
  <2>1. /\ job[d].pc # "idle" /\ job[d].event.kind # "canceled"
        /\ ticket' = ticket /\ done' = done /\ missed' = missed /\ Goto(d, "finish")
    BY <1>8 DEF RecordUsage, follow, Handles, events, Progress
  <2> QED
    BY <1>1, <2>1, ClosingGoto
<1> QED
  BY <1>1, <1>2, <1>3, <1>4, <1>5, <1>6, <1>7, <1>8, FindForCancelClosing,
     CommitCancelClosing, FinishClosing DEF Next, Step

\* A canceled order leaves no open ticket once its cancellation was delivered,
\* although the submission may be delivered after it and by another dispatcher,
\* unless that one had read the order before and the cancellation found no ticket
\* yet (onSubmitted, cancelBySource).
THEOREM CanceledTicketClosedTheorem == Spec => []CanceledTicketClosed
<1>1. Init => Closing
  BY DEF Init, Closing, Ended, Idle
<1>2. Inv /\ Closing /\ [Next]_vars => Closing'
  <2>1. ASSUME UNCHANGED vars, Closing PROVE Closing'
    BY <2>1 DEF vars, events, Closing, Ended, Making, Canceled
  <2> QED
    BY <2>1, ClosingNext
<1>3. Closing => CanceledTicketClosed
  BY DEF Closing, Ended, Canceled, CanceledTicketClosed
<1> QED
  BY <1>1, <1>2, <1>3, InvHolds, PTL DEF Spec

-----------------------------------------------------------------------------
(* A single dispatcher                                                       *)

\* A deployment of one worker, whose loop does not overlap itself.
OneDispatcher == \A d, e \in Dispatchers : d = e

\* Where one dispatcher delivers, no cancellation misses a ticket: while it looks
\* for one nobody else is making it, and a canceled order leaves no open ticket
\* without exception (onSubmitted, cancelBySource).
THEOREM NoCanceledTicketOpenTheorem ==
  ASSUME OneDispatcher
  PROVE  Spec => []NoCanceledTicketOpen
<1> DEFINE NoneMissed == missed = {}
<1>1. Init => NoneMissed
  BY DEF Init
<1>2. ASSUME NoneMissed, [Next]_vars
      PROVE  NoneMissed'
  <2>1. CASE missed' = missed
    BY <1>2, <2>1
  <2>2. ASSUME NEW d \in Dispatchers, FindForCancel(d)
        PROVE  NoneMissed'
    <3>1. \A x \in Dispatchers : \A o : ~Making(x, o)
      BY <2>2 DEF FindForCancel, Handles, Making, OneDispatcher
    <3> QED
      BY <1>2, <2>2, <3>1 DEF FindForCancel
  <2> QED
    BY <1>2, <2>1, <2>2 DEF Next, Step, vars, createSubmitted, createGuest, decideGuestOrder,
       cancel, move, Take, Fail, Finish, ReadOrder, FindTicket, CreateTicket, RecordUsage,
       CommitCancel, follow
<1>3. NoneMissed /\ CanceledTicketClosed => NoCanceledTicketOpen
  BY DEF CanceledTicketClosed, NoCanceledTicketOpen
<1> QED
  BY <1>1, <1>2, <1>3, CanceledTicketClosedTheorem, PTL DEF Spec
=============================================================================
