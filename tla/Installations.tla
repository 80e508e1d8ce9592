--------------------------- MODULE Installations ---------------------------
(* One commercial module of one workspace: its installation                 *)
(* (core/installations) and the bindings through which it reacts to other   *)
(* modules' events (core/integrations). Modules share nothing; installing   *)
(* all a package allows (provisionEntitled) is one installation at a time.  *)
(*                                                                          *)
(* A request reads, decides, and saves only where what it read still holds; *)
(* the bindings follow the installation in transactions of their own. What  *)
(* a package allows is left out, which only adds refusals, and so is time:  *)
(* EventDelivery says what a binding does with an event.                    *)
CONSTANTS
  Handlers,   \* eventHandlers of the manifest, each with one binding
  Setup,      \* whether the manifest has install steps a person must take
  Targets,    \* the statuses people move it to: ACTIVE, SUSPENDED, ERROR, NOT_INSTALLED
  Requests,
  Absent      \* no row

VARIABLES
  status,   \* core_module_installations.status
  binding,  \* core_integration_bindings.status
  request   \* the requests under way and what they read

vars == <<status, binding, request>>

-----------------------------------------------------------------------------

\* Where an installation may go from a status.
NEXT ==
  [ACTIVE         |-> {"SUSPENDED", "ERROR", "NOT_INSTALLED"},
   ERROR          |-> {"PROVISIONING", "NOT_INSTALLED"},
   NOT_INSTALLED  |-> {"PROVISIONING"},
   PROVISIONING   |-> {"SETUP_REQUIRED", "ACTIVE", "ERROR"},
   SETUP_REQUIRED |-> {"ACTIVE", "ERROR", "NOT_INSTALLED"},
   SUSPENDED      |-> {"ACTIVE", "ERROR", "NOT_INSTALLED"}]

canMove(from, to) == from \in DOMAIN NEXT /\ to \in NEXT[from]

Idle == [pc |-> "idle"]

BindingStatus == {"ACTIVE", "PAUSED", "DISABLED", Absent}

TypeOK ==
  /\ status \in DOMAIN NEXT \cup {Absent}
  /\ binding \in [Handlers -> BindingStatus]
  /\ request \in [Requests ->
       {Idle}
       \cup [pc : {"provision"}, read : {Absent, "NOT_INSTALLED", "ERROR"}]
       \cup [pc : {"finish", "list"}]
       \cup [pc : {"move"}, read : DOMAIN NEXT, to : Targets]
       \cup [pc : {"bind"}, left : SUBSET Handlers, found : SUBSET Handlers]
       \cup [pc : {"unbind"}, left : SUBSET Handlers, read : [Handlers -> BindingStatus]]]

Init ==
  /\ status = Absent
  /\ binding = [h \in Handlers |-> Absent]
  /\ request = [c \in Requests |-> Idle]

At(c, pc)     == request[c].pc = pc
Goto(c, work) == request' = [request EXCEPT ![c] = work]

\* Slip: the status is not part of the condition.
save_Anyway(c, expected, new, work) ==
  /\ status' = new
  /\ Goto(c, work)
  /\ UNCHANGED binding

\* The status changes if it is still the one expected, and the request goes on;
\* otherwise it is over.
save(c, expected, new, work) ==
  /\ IF status = expected
       THEN status' = new /\ Goto(c, work)
       ELSE UNCHANGED status /\ Goto(c, Idle)
  /\ UNCHANGED binding

-----------------------------------------------------------------------------
(* install: InstallationService.install, BindingService.ensureForModule      *)

\* What is installed, or being installed, is left as it is.
isInstalled == status \in {"ACTIVE", "SETUP_REQUIRED", "PROVISIONING"}

BeginInstall(c) ==
  /\ At(c, "idle")
  /\ ~isInstalled
  /\ status # Absent => canMove(status, "PROVISIONING")
  /\ Goto(c, [pc |-> "provision", read |-> status])
  /\ UNCHANGED <<status, binding>>

Provision(c) ==
  /\ At(c, "provision")
  /\ save(c, request[c].read, "PROVISIONING", [pc |-> "finish"])

\* Only a module that was finished here gets its bindings here.
FinishInstall(c) ==
  /\ At(c, "finish")
  /\ save(c, "PROVISIONING", IF Setup THEN "SETUP_REQUIRED" ELSE "ACTIVE",
          [pc |-> "bind", left |-> Handlers, found |-> {}])

\* A binding that is missing is made; one that was switched off is found, to be
\* switched on (the code deals with one handler after the other).
CreateBinding(c, h) ==
  LET q == request[c] IN
  /\ At(c, "bind")
  /\ h \in q.left
  /\ binding' = [binding EXCEPT ![h] = IF @ = Absent THEN "ACTIVE" ELSE @]
  /\ Goto(c, [q EXCEPT !.left = @ \ {h},
                       !.found = IF binding[h] = "DISABLED" THEN @ \cup {h} ELSE @])
  /\ UNCHANGED status

\* Slip: whatever became of the binding since it was found.
Enabled_Anyway(h) == "ACTIVE"

\* What was found switched off is switched on, if it still is.
Enabled(h) == IF binding[h] = "DISABLED" THEN "ACTIVE" ELSE binding[h]

EnableBinding(c, h) ==
  /\ At(c, "bind")
  /\ h \in request[c].found
  /\ binding' = [binding EXCEPT ![h] = Enabled(h)]
  /\ Goto(c, [request[c] EXCEPT !.found = @ \ {h}])
  /\ UNCHANGED status

-----------------------------------------------------------------------------
(* completeSetup, suspend, resume, fail, uninstall: InstallationService.move *)

\* One decision on the status as it is read now.
BeginMove(c, to) ==
  /\ At(c, "idle")
  /\ status # Absent
  /\ canMove(status, to)
  /\ Goto(c, [pc |-> "move", read |-> status, to |-> to])
  /\ UNCHANGED <<status, binding>>

CommitMove(c) ==
  /\ At(c, "move")
  /\ save(c, request[c].read, request[c].to,
          IF request[c].to = "NOT_INSTALLED" THEN [pc |-> "list"] ELSE Idle)

\* disableForModule: the bindings are listed, and those that are on are switched
\* off one by one, each if it is still as it was listed.
ListBindings(c) ==
  /\ At(c, "list")
  /\ Goto(c, [pc |-> "unbind", read |-> binding,
              left |-> {h \in Handlers : binding[h] \notin {Absent, "DISABLED"}}])
  /\ UNCHANGED <<status, binding>>

DisableBinding(c, h) ==
  /\ At(c, "unbind")
  /\ h \in request[c].left
  /\ binding' = [binding EXCEPT ![h] = IF @ = request[c].read[h] THEN "DISABLED" ELSE @]
  /\ Goto(c, [request[c] EXCEPT !.left = @ \ {h}])
  /\ UNCHANGED status

\* Every binding was dealt with.
Done(c) ==
  /\ \/ At(c, "bind") /\ request[c].left = {} /\ request[c].found = {}
     \/ At(c, "unbind") /\ request[c].left = {}
  /\ Goto(c, Idle)
  /\ UNCHANGED <<status, binding>>

-----------------------------------------------------------------------------
(* A person pauses a binding, resumes it or retries what it held back: each  *)
(* saves only where the status is the one it decided on.                     *)

pause(h) ==
  /\ binding[h] = "ACTIVE"
  /\ binding' = [binding EXCEPT ![h] = "PAUSED"]
  /\ UNCHANGED <<status, request>>

resume(h) ==
  /\ binding[h] = "PAUSED"
  /\ binding' = [binding EXCEPT ![h] = "ACTIVE"]
  /\ UNCHANGED <<status, request>>

-----------------------------------------------------------------------------

Next ==
  \/ \E c \in Requests :
       \/ BeginInstall(c)
       \/ Provision(c)
       \/ FinishInstall(c)
       \/ \E to \in Targets : BeginMove(c, to)
       \/ CommitMove(c)
       \/ ListBindings(c)
       \/ \E h \in Handlers : CreateBinding(c, h) \/ EnableBinding(c, h) \/ DisableBinding(c, h)
       \/ Done(c)
  \/ \E h \in Handlers : pause(h) \/ resume(h)

Spec == Init /\ [][Next]_vars

-----------------------------------------------------------------------------
(* Properties                                                                *)

\* Requests decide on a status they read earlier. However they interleave, the
\* installation only moves along its lifecycle, and a binding somebody paused is
\* switched on by a person and never by an installation under way.
StaleChangesNothing ==
  [][/\ status # Absent /\ status' # status => canMove(status, status')
     /\ \A h \in Handlers :
          binding[h] = "PAUSED" /\ binding'[h] = "ACTIVE" => UNCHANGED request]_vars

\* Once every request is answered the bindings tell what the installation tells:
\* a module in use has its bindings, and one that was taken out of use reacts to
\* nothing.
BindingsFollow ==
  (\A c \in Requests : request[c] = Idle) =>
    /\ status = "ACTIVE" => \A h \in Handlers : binding[h] \in {"ACTIVE", "PAUSED"}
    /\ status = "NOT_INSTALLED" => \A h \in Handlers : binding[h] \in {"DISABLED", Absent}
=============================================================================
