------------------------ MODULE Installations_proofs ------------------------
(* Safety of Installations for any number of requests and bindings. A       *)
(* request acts on what it read earlier, so the inductive invariant says of *)
(* a request under way that its decision was right for what it read         *)
(* (Decided); the compare-and-set of save does the rest.                    *)
EXTENDS Installations, TLAPS

\* The mark of a row that is not there is no status of a row.
AbsentIsNoStatus == Absent \notin DOMAIN NEXT \cup {"ACTIVE", "PAUSED", "DISABLED"}

\* A request moves an installation to a status its reading allows.
Decided ==
  \A c \in Requests : At(c, "move") => canMove(request[c].read, request[c].to)

Inv == TypeOK /\ Decided

-----------------------------------------------------------------------------

\* The statuses of an installation.
LEMMA Statuses ==
  /\ DOMAIN NEXT = {"ACTIVE", "ERROR", "NOT_INSTALLED", "PROVISIONING",
                    "SETUP_REQUIRED", "SUSPENDED"}
  /\ \A from \in DOMAIN NEXT : NEXT[from] \subseteq DOMAIN NEXT
  BY DEF NEXT

LEMMA InvInit == Init => Inv
  BY DEF Init, Inv, TypeOK, Decided, Idle, At, BindingStatus

\* What a request may hold, by its progress.
Work ==
  {Idle}
  \cup [pc : {"provision"}, read : {Absent, "NOT_INSTALLED", "ERROR"}]
  \cup [pc : {"finish", "list"}]
  \cup [pc : {"move"}, read : DOMAIN NEXT, to : Targets]
  \cup [pc : {"bind"}, left : SUBSET Handlers, found : SUBSET Handlers]
  \cup [pc : {"unbind"}, left : SUBSET Handlers, read : [Handlers -> BindingStatus]]

\* A request that goes on with well formed work leaves the requests well formed.
LEMMA GotoKeeps ==
  ASSUME Inv, NEW c \in Requests, NEW work \in Work, Goto(c, work),
         work.pc = "move" => canMove(work.read, work.to)
  PROVE  request' \in [Requests -> Work] /\ Decided'
<1>1. request \in [Requests -> Work]
  BY DEF Inv, TypeOK, Work
<1>2. request' = [request EXCEPT ![c] = work]
  BY DEF Goto
<1>3. request' \in [Requests -> Work]
  BY <1>1, <1>2
<1>4. Decided'
  BY <1>1, <1>2 DEF Inv, Decided, At, canMove
<1> QED
  BY <1>3, <1>4

\* What a request under way holds.
LEMMA RequestType ==
  ASSUME Inv, NEW c \in Requests
  PROVE  /\ At(c, "provision") => request[c].read \in {Absent, "NOT_INSTALLED", "ERROR"}
         /\ At(c, "move") => /\ request[c].read \in DOMAIN NEXT
                             /\ request[c].to \in Targets
                             /\ canMove(request[c].read, request[c].to)
         /\ At(c, "bind") => /\ request[c].left \subseteq Handlers
                             /\ request[c].found \subseteq Handlers
                             /\ request[c] = [pc |-> "bind", left |-> request[c].left,
                                              found |-> request[c].found]
         /\ At(c, "unbind") => /\ request[c].left \subseteq Handlers
                               /\ request[c].read \in [Handlers -> BindingStatus]
                               /\ request[c] = [pc |-> "unbind", left |-> request[c].left,
                                                read |-> request[c].read]
<1>1. request[c] \in Work
  BY DEF Inv, TypeOK, Work
<1>2. At(c, "move") => canMove(request[c].read, request[c].to)
  BY DEF Inv, Decided
<1> QED
  BY <1>1, <1>2 DEF Work, At, Idle

-----------------------------------------------------------------------------
(* Every step                                                                *)

\* What the installation and a binding may do in a step.
Sound ==
  /\ status # Absent /\ status' # status => canMove(status, status')
  /\ \A h \in Handlers :
       binding[h] = "PAUSED" /\ binding'[h] = "ACTIVE" => UNCHANGED request

\* A save moves the installation only from the status its request read.
LEMMA SaveKeeps ==
  ASSUME Inv, NEW c \in Requests, NEW expected, NEW new, NEW work \in Work,
         new \in DOMAIN NEXT, expected # Absent => canMove(expected, new),
         work.pc # "move", save(c, expected, new, work)
  PROVE  Inv' /\ Sound
<1>1. Idle \in Work /\ Idle.pc # "move"
  BY DEF Work, Idle
<1>2. request' \in [Requests -> Work] /\ Decided'
  BY <1>1, GotoKeeps DEF save
<1>3. status' \in DOMAIN NEXT \cup {Absent} /\ binding' = binding
  BY DEF save, Inv, TypeOK
<1>4. TypeOK'
  BY <1>2, <1>3 DEF Inv, TypeOK, Work
<1>5. Sound
  BY <1>3, Statuses DEF save, Sound, Inv, TypeOK
<1> QED
  BY <1>2, <1>4, <1>5 DEF Inv

LEMMA BeginInstallKeeps ==
  ASSUME Inv, NEW c \in Requests, BeginInstall(c)
  PROVE  Inv' /\ Sound
<1> DEFINE work == [pc |-> "provision", read |-> status]
<1>1. status \in {Absent, "NOT_INSTALLED", "ERROR"}
  BY DEF BeginInstall, isInstalled, canMove, NEXT, Inv, TypeOK
<1>2. work \in Work /\ work.pc # "move"
  BY <1>1 DEF Work
<1>3. request' \in [Requests -> Work] /\ Decided'
  BY <1>2, GotoKeeps DEF BeginInstall
<1>4. TypeOK' /\ Sound
  BY <1>3 DEF BeginInstall, Inv, TypeOK, Work, Sound
<1> QED
  BY <1>3, <1>4 DEF Inv

LEMMA ProvisionKeeps ==
  ASSUME Inv, NEW c \in Requests, Provision(c)
  PROVE  Inv' /\ Sound
<1> DEFINE work == [pc |-> "finish"]
<1>1. request[c].read \in {Absent, "NOT_INSTALLED", "ERROR"}
  BY RequestType DEF Provision
<1>2. request[c].read # Absent => canMove(request[c].read, "PROVISIONING")
  BY <1>1 DEF canMove, NEXT
<1>3. work \in Work /\ work.pc # "move" /\ "PROVISIONING" \in DOMAIN NEXT
  BY Statuses DEF Work
<1> QED
  BY <1>2, <1>3, SaveKeeps DEF Provision

LEMMA FinishInstallKeeps ==
  ASSUME Inv, NEW c \in Requests, FinishInstall(c)
  PROVE  Inv' /\ Sound
<1> DEFINE work == [pc |-> "bind", left |-> Handlers, found |-> {}]
           new == IF Setup THEN "SETUP_REQUIRED" ELSE "ACTIVE"
<1>1. new \in DOMAIN NEXT /\ canMove("PROVISIONING", new)
  BY DEF canMove, NEXT
<1>2. work \in Work /\ work.pc # "move"
  BY DEF Work
<1> QED
  BY <1>1, <1>2, SaveKeeps DEF FinishInstall

LEMMA BeginMoveKeeps ==
  ASSUME Inv, NEW c \in Requests, NEW to \in Targets, BeginMove(c, to)
  PROVE  Inv' /\ Sound
<1> DEFINE work == [pc |-> "move", read |-> status, to |-> to]
<1>1. work \in Work /\ canMove(work.read, work.to)
  BY DEF BeginMove, canMove, Work
<1>2. request' \in [Requests -> Work] /\ Decided'
  BY <1>1, GotoKeeps DEF BeginMove
<1>3. TypeOK' /\ Sound
  BY <1>2 DEF BeginMove, Inv, TypeOK, Work, Sound
<1> QED
  BY <1>2, <1>3 DEF Inv

LEMMA CommitMoveKeeps ==
  ASSUME Inv, NEW c \in Requests, CommitMove(c)
  PROVE  Inv' /\ Sound
<1> DEFINE q == request[c]
           work == IF q.to = "NOT_INSTALLED" THEN [pc |-> "list"] ELSE Idle
<1>1. canMove(q.read, q.to)
  BY RequestType DEF CommitMove
<1>2. q.to \in DOMAIN NEXT
  BY <1>1, Statuses DEF canMove
<1>3. work \in Work /\ work.pc # "move"
  BY DEF Work, Idle
<1> QED
  BY <1>1, <1>2, <1>3, SaveKeeps DEF CommitMove

LEMMA ListBindingsKeeps ==
  ASSUME Inv, NEW c \in Requests, ListBindings(c)
  PROVE  Inv' /\ Sound
<1> DEFINE work == [pc |-> "unbind", read |-> binding,
                    left |-> {h \in Handlers : binding[h] \notin {Absent, "DISABLED"}}]
<1>1. work \in Work /\ work.pc # "move"
  BY DEF Work, Inv, TypeOK
<1>2. request' \in [Requests -> Work] /\ Decided'
  BY <1>1, GotoKeeps DEF ListBindings
<1>3. TypeOK' /\ Sound
  BY <1>2 DEF ListBindings, Inv, TypeOK, Work, Sound
<1> QED
  BY <1>2, <1>3 DEF Inv

\* Where a row that is not there is told from a row, a binding that is made was
\* not paused.
LEMMA CreateBindingKeeps ==
  ASSUME AbsentIsNoStatus, Inv, NEW c \in Requests, NEW g \in Handlers, CreateBinding(c, g)
  PROVE  Inv' /\ Sound
<1> DEFINE q == request[c]
           work == [q EXCEPT !.left = @ \ {g},
                             !.found = IF binding[g] = "DISABLED" THEN @ \cup {g} ELSE @]
<1>1. At(c, "bind") /\ q = [pc |-> "bind", left |-> q.left, found |-> q.found]
  BY RequestType DEF CreateBinding
<1>2. q.left \subseteq Handlers /\ q.found \subseteq Handlers
  BY <1>1, RequestType
<1> DEFINE Binds == [pc : {"bind"}, left : SUBSET Handlers, found : SUBSET Handlers]
<1>3. work \in Binds
  <2>1. q \in Binds
    BY <1>1, <1>2
  <2>2. ASSUME NEW r \in Binds, NEW l \in SUBSET Handlers, NEW f \in SUBSET Handlers
        PROVE  [r EXCEPT !.left = l, !.found = f] \in Binds
    OBVIOUS
  <2>3. /\ q.left \ {g} \in SUBSET Handlers
        /\ (IF binding[g] = "DISABLED" THEN q.found \cup {g} ELSE q.found) \in SUBSET Handlers
    BY <1>2
  <2> HIDE DEF Binds
  <2> QED
    BY <2>1, <2>2, <2>3
<1>4. work \in Work /\ work.pc # "move"
  BY <1>3 DEF Work
<1>5. request' \in [Requests -> Work] /\ Decided'
  BY <1>4, GotoKeeps DEF CreateBinding
<1>6. /\ binding' \in [Handlers -> BindingStatus]
      /\ \A h \in Handlers : binding[h] = "PAUSED" => binding'[h] = "PAUSED"
  BY DEF CreateBinding, Inv, TypeOK, BindingStatus, AbsentIsNoStatus
<1>7. TypeOK' /\ Sound
  BY <1>5, <1>6 DEF CreateBinding, Inv, TypeOK, Work, Sound
<1> QED
  BY <1>5, <1>7 DEF Inv

LEMMA EnableBindingKeeps ==
  ASSUME Inv, NEW c \in Requests, NEW g \in Handlers, EnableBinding(c, g)
  PROVE  Inv' /\ Sound
<1> DEFINE q == request[c]
           work == [q EXCEPT !.found = @ \ {g}]
<1>1. At(c, "bind") /\ q = [pc |-> "bind", left |-> q.left, found |-> q.found]
  BY RequestType DEF EnableBinding
<1>2. q.left \subseteq Handlers /\ q.found \subseteq Handlers
  BY <1>1, RequestType
<1>3. work = [pc |-> "bind", left |-> q.left, found |-> q.found \ {g}]
  BY <1>1
<1>4. work \in Work /\ work.pc # "move"
  BY <1>2, <1>3 DEF Work
<1>5. request' \in [Requests -> Work] /\ Decided'
  BY <1>4, GotoKeeps DEF EnableBinding
<1>6. /\ binding' \in [Handlers -> BindingStatus]
      /\ \A h \in Handlers : binding[h] = "PAUSED" => binding'[h] = "PAUSED"
  BY DEF EnableBinding, Enabled, Inv, TypeOK, BindingStatus
<1>7. TypeOK' /\ Sound
  BY <1>5, <1>6 DEF EnableBinding, Inv, TypeOK, Work, Sound
<1> QED
  BY <1>5, <1>7 DEF Inv

LEMMA DisableBindingKeeps ==
  ASSUME Inv, NEW c \in Requests, NEW g \in Handlers, DisableBinding(c, g)
  PROVE  Inv' /\ Sound
<1> DEFINE q == request[c]
           work == [q EXCEPT !.left = @ \ {g}]
<1>1. At(c, "unbind") /\ q = [pc |-> "unbind", left |-> q.left, read |-> q.read]
  BY RequestType DEF DisableBinding
<1>2. q.left \subseteq Handlers /\ q.read \in [Handlers -> BindingStatus]
  BY <1>1, RequestType
<1>3. work = [pc |-> "unbind", left |-> q.left \ {g}, read |-> q.read]
  BY <1>1
<1>4. work \in Work /\ work.pc # "move"
  BY <1>2, <1>3 DEF Work
<1>5. request' \in [Requests -> Work] /\ Decided'
  BY <1>4, GotoKeeps DEF DisableBinding
<1>6. /\ binding' \in [Handlers -> BindingStatus]
      /\ \A h \in Handlers : binding[h] = "PAUSED" => binding'[h] # "ACTIVE"
  BY DEF DisableBinding, Inv, TypeOK, BindingStatus
<1>7. TypeOK' /\ Sound
  BY <1>5, <1>6 DEF DisableBinding, Inv, TypeOK, Work, Sound
<1> QED
  BY <1>5, <1>7 DEF Inv

LEMMA DoneKeeps ==
  ASSUME Inv, NEW c \in Requests, Done(c)
  PROVE  Inv' /\ Sound
<1>1. Idle \in Work /\ Idle.pc # "move"
  BY DEF Work, Idle
<1>2. request' \in [Requests -> Work] /\ Decided'
  BY <1>1, GotoKeeps DEF Done
<1>3. TypeOK' /\ Sound
  BY <1>2 DEF Done, Inv, TypeOK, Work, Sound
<1> QED
  BY <1>2, <1>3 DEF Inv

LEMMA PersonKeeps ==
  ASSUME Inv, NEW g \in Handlers, pause(g) \/ resume(g)
  PROVE  Inv' /\ Sound
<1>1. binding' \in [Handlers -> BindingStatus]
  BY DEF pause, resume, Inv, TypeOK, BindingStatus
<1>2. UNCHANGED <<status, request>>
  BY DEF pause, resume
<1> QED
  BY <1>1, <1>2 DEF Inv, TypeOK, Decided, At, canMove, Sound

\* Every step keeps the invariant and is sound.
LEMMA InvNext == AbsentIsNoStatus /\ Inv /\ [Next]_vars => Inv' /\ [Sound]_vars
<1> SUFFICES ASSUME AbsentIsNoStatus, Inv, [Next]_vars PROVE Inv' /\ [Sound]_vars
  OBVIOUS
<1>1. CASE UNCHANGED vars
  BY <1>1 DEF vars, Inv, TypeOK, Decided, At, canMove
<1>2. ASSUME NEW c \in Requests,
             \/ BeginInstall(c) \/ Provision(c) \/ FinishInstall(c)
             \/ CommitMove(c) \/ ListBindings(c) \/ Done(c)
      PROVE  Inv' /\ Sound
  BY <1>2, BeginInstallKeeps, ProvisionKeeps, FinishInstallKeeps, CommitMoveKeeps,
     ListBindingsKeeps, DoneKeeps
<1>3. ASSUME NEW c \in Requests, NEW to \in Targets, BeginMove(c, to)
      PROVE  Inv' /\ Sound
  BY <1>3, BeginMoveKeeps
<1>4. ASSUME NEW c \in Requests, NEW h \in Handlers,
             CreateBinding(c, h) \/ EnableBinding(c, h) \/ DisableBinding(c, h)
      PROVE  Inv' /\ Sound
  BY <1>4, CreateBindingKeeps, EnableBindingKeeps, DisableBindingKeeps
<1>5. ASSUME NEW h \in Handlers, pause(h) \/ resume(h)
      PROVE  Inv' /\ Sound
  BY <1>5, PersonKeeps
<1> QED
  BY <1>1, <1>2, <1>3, <1>4, <1>5 DEF Next

-----------------------------------------------------------------------------
(* Theorems                                                                  *)

\* Every state of an installation, its bindings and its requests has its type.
THEOREM TypeCorrect == ASSUME AbsentIsNoStatus PROVE Spec => []TypeOK
<1>1. Inv => TypeOK
  BY DEF Inv
<1>2. Init => Inv
  BY InvInit
<1>3. Inv /\ [Next]_vars => Inv'
  BY InvNext
<1> QED
  BY <1>1, <1>2, <1>3, PTL DEF Spec

\* However many requests interleave, an installation moves only along its
\* lifecycle, and only a person switches on what a person paused.
THEOREM StaleChangesNothingTheorem ==
  ASSUME AbsentIsNoStatus PROVE Spec => StaleChangesNothing
<1>1. Init => Inv
  BY InvInit
<1>2. Inv /\ [Next]_vars => Inv'
  BY InvNext
<1>3. Inv /\ [Next]_vars => [Sound]_vars
  BY InvNext
<1>4. Spec => [][Sound]_vars
  BY <1>1, <1>2, <1>3, PTL DEF Spec
<1> QED
  BY <1>4 DEF StaleChangesNothing, Sound
=============================================================================
