--------------------------- MODULE MasterCommands ---------------------------
(* What the commands of the Inventory module promise to those who send      *)
(* them: each takes effect at one moment between the request and its answer *)
(* or not at all, on rows it finds as it demands them, once for its key; a  *)
(* request sent again gets the answer its key has, or none. Inventory is    *)
(* shown to keep this.                                                      *)
EXTENDS MasterRecords

CONSTANT Calls  \* requests that are sent

VARIABLE request  \* what became of each of them

vars == <<rows, saved, request>>

Init == RowsInit /\ request = [c \in Calls |-> [pc |-> "idle"]]

\* Somebody asks for a command under a key, or asks again.
Ask(c) ==
  /\ request[c].pc \in {"idle", "done"}
  /\ request'[c] \in [pc : {"asked"}, cmd : Command, key : Keys]
  /\ request' = [request EXCEPT ![c] = request'[c]]
  /\ UNCHANGED <<rows, saved>>

Answered(c, answer) ==
  request' = [request EXCEPT ![c] = [pc |-> "done", cmd |-> @.cmd, key |-> @.key,
                                     answer |-> answer]]

\* The whole command.
Perform(c) ==
  /\ request[c].pc = "asked"
  /\ ~ \E s \in saved : SameKey(s, request[c])
  /\ Known(request[c].cmd) /\ Allowed(request[c].cmd) /\ Kept(request[c].cmd)
  /\ \E answer \in Answers(request[c].cmd) :
       Carry(request[c].cmd, request[c].key, answer) /\ Answered(c, answer)

\* The same command was performed before.
Repeat(c) ==
  /\ request[c].pc = "asked"
  /\ \E s \in saved : /\ SameKey(s, request[c]) /\ s.cmd = request[c].cmd /\ ~s.expired
                      /\ Answered(c, s.answer)
  /\ UNCHANGED <<rows, saved>>

\* The request ends without an effect.
Refuse(c) ==
  /\ request[c].pc = "asked"
  /\ request' = [request EXCEPT ![c] = [pc |-> "idle"]]
  /\ UNCHANGED <<rows, saved>>

Next ==
  \/ \E c \in Calls : Ask(c) \/ Perform(c) \/ Repeat(c) \/ Refuse(c)
  \/ Expired /\ UNCHANGED request

Spec == Init /\ [][Next]_vars
=============================================================================
