------------------------------ MODULE Delivery ------------------------------
(* What the outbox promises of an event, whoever delivers it: the event       *)
(* reaches every handler that listens to it, or is explicitly left out of a   *)
(* handler's work, before it counts as processed; and it is set aside only    *)
(* once the attempts the dispatcher allows have been spent on it. A person     *)
(* may reopen a finished event for one handler.                               *)
EXTENDS Naturals

CONSTANTS
  Events,     \* outbox events that may be recorded
  Consumers,  \* consumer names of the registered handlers
  Listeners   \* Listeners[e]: the consumers registered for the type of e

VARIABLES
  recorded,   \* events written with the change they announce
  reached,    \* reached[e]: the consumers that handled e or were excused from it
  exhausted,  \* events whose attempts are spent
  processed,  \* events marked processed
  aside       \* events set aside for a person

vars == <<recorded, reached, exhausted, processed, aside>>

Init ==
  /\ recorded = {}
  /\ reached = [e \in Events |-> {}]
  /\ exhausted = {}
  /\ processed = {}
  /\ aside = {}

\* A transaction writes the event.
Record(e) ==
  /\ e \notin recorded
  /\ recorded' = recorded \cup {e}
  /\ UNCHANGED <<reached, exhausted, processed, aside>>

\* A handler has done its work for the event, again or for the first time.
Reach(e, c) ==
  /\ e \in recorded
  /\ c \in Listeners[e]
  /\ reached' = [reached EXCEPT ![e] = @ \cup {c}]
  /\ UNCHANGED <<recorded, exhausted, processed, aside>>

\* The last attempt allowed begins, for all events of a batch at once.
Exhaust(S) ==
  /\ S \subseteq recorded
  /\ exhausted' = exhausted \cup S
  /\ UNCHANGED <<recorded, reached, processed, aside>>

\* Nobody is left to handle the event.
Process(e) ==
  /\ e \in recorded
  /\ reached[e] = Listeners[e]
  /\ processed' = processed \cup {e}
  /\ UNCHANGED <<recorded, reached, exhausted, aside>>

SetAside(e) ==
  /\ e \in exhausted
  /\ aside' = aside \cup {e}
  /\ UNCHANGED <<recorded, reached, exhausted, processed>>

\* A handler's finished events are delivered to it again, from the first attempt;
\* it keeps what it has done, and loses its excuses. A delivery that is still at it
\* may keep an excuse (kept) or the last attempt (spent) alive.
Reopen(c, S) ==
  /\ S \subseteq processed \cup aside
  /\ \E kept \in SUBSET S :
       reached' = [e \in Events |-> IF e \in S \ kept THEN reached[e] \ {c} ELSE reached[e]]
  /\ \E spent \in SUBSET S : exhausted' = exhausted \ (S \ spent)
  /\ processed' = processed \ S
  /\ aside' = aside \ S
  /\ UNCHANGED recorded

Next ==
  \/ \E S \in SUBSET Events : Exhaust(S) \/ \E c \in Consumers : Reopen(c, S)
  \/ \E e \in Events :
       \/ Record(e)
       \/ \E c \in Consumers : Reach(e, c)
       \/ Process(e)
       \/ SetAside(e)

Spec == Init /\ [][Next]_vars
=============================================================================
