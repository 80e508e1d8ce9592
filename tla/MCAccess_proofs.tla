--------------------------- MODULE MCAccess_proofs ---------------------------
(* The administration of a workspace as a whole: what is proved of Access and *)
(* of Installations holds of both side by side, whichever of their requests   *)
(* meet. A step of the one leaves the rows of the other alone.                *)
EXTENDS MCAccess, Access_proofs

\* The proofs about Installations, with the requests of the workspace.
Installing == INSTANCE Installations_proofs WITH Requests <- Calls, Absent <- None

both == <<vars, scenario, status, binding, request>>

-----------------------------------------------------------------------------

\* A row that is missing is not taken for one that is there.
LEMMA AbsentIsTold == Installing!AbsentIsNoStatus
BY StatusAssumption DEF Installing!AbsentIsNoStatus, Installing!NEXT, Module!NEXT

\* The instance steps as Installations does.
LEMMA ModuleSteps == Module!Next <=> Installing!Next
<1>1. ASSUME NEW c \in Calls
      PROVE  /\ Module!BeginInstall(c) <=> Installing!BeginInstall(c)
             /\ Module!Provision(c) <=> Installing!Provision(c)
             /\ Module!FinishInstall(c) <=> Installing!FinishInstall(c)
             /\ \A to \in Targets : Module!BeginMove(c, to) <=> Installing!BeginMove(c, to)
             /\ Module!CommitMove(c) <=> Installing!CommitMove(c)
             /\ Module!ListBindings(c) <=> Installing!ListBindings(c)
             /\ Module!Done(c) <=> Installing!Done(c)
  BY DEF
        Module!BeginInstall, Installing!BeginInstall, Module!Provision,
        Installing!Provision, Module!FinishInstall, Installing!FinishInstall,
        Module!BeginMove, Installing!BeginMove, Module!CommitMove,
        Installing!CommitMove, Module!ListBindings, Installing!ListBindings,
        Module!Done, Installing!Done, Module!At, Installing!At, Module!Goto,
        Installing!Goto, Module!save, Installing!save, Module!isInstalled,
        Installing!isInstalled, Module!canMove, Installing!canMove,
        Module!NEXT, Installing!NEXT, Module!Idle, Installing!Idle
<1>2. ASSUME NEW c \in Calls, NEW h \in Handlers
      PROVE  /\ Module!CreateBinding(c, h) <=> Installing!CreateBinding(c, h)
             /\ Module!EnableBinding(c, h) <=> Installing!EnableBinding(c, h)
             /\ Module!DisableBinding(c, h) <=> Installing!DisableBinding(c, h)
  BY DEF
        Module!CreateBinding, Installing!CreateBinding, Module!EnableBinding,
        Installing!EnableBinding, Module!DisableBinding,
        Installing!DisableBinding, Module!At, Installing!At, Module!Goto,
        Installing!Goto, Module!Enabled, Installing!Enabled
<1>3. ASSUME NEW h \in Handlers
      PROVE  /\ Module!pause(h) <=> Installing!pause(h)
             /\ Module!resume(h) <=> Installing!resume(h)
  BY DEF Module!pause, Installing!pause, Module!resume, Installing!resume
<1> QED
  BY <1>1, <1>2, <1>3 DEF Module!Next, Installing!Next

\* A step is one of Access, one of Installations, or none.
LEMMA BothStep ==
  ASSUME [MCNext]_both
  PROVE  [Next]_vars /\ [Installing!Next]_(Installing!vars)
<1>1. CASE AccessNext
  <2>1. Next /\ UNCHANGED <<status, binding, request>>
    BY <1>1 DEF AccessNext
  <2> QED
    BY <2>1 DEF Installing!vars
<1>2. CASE ModuleNext
  <2>1. Installing!Next /\ UNCHANGED vars
    BY <1>2, ModuleSteps DEF ModuleNext
  <2> QED
    BY <2>1
<1>3. CASE UNCHANGED both
  <2>1. UNCHANGED vars /\ UNCHANGED <<status, binding, request>>
    BY <1>3 DEF both
  <2> QED
    BY <2>1 DEF Installing!vars
<1> QED
  BY <1>1, <1>2, <1>3 DEF MCNext

\* What the workspace does is something Access does.
LEMMA IsAccess == MCSpec => Spec
<1>1. MCInit => Init
  BY DEF MCInit
<1>2. [MCNext]_both => [Next]_vars
  BY BothStep
<1> QED
  BY <1>1, <1>2, PTL DEF MCSpec, Spec, both

\* And something Installations does.
LEMMA IsInstallations == MCSpec => Installing!Spec
<1>1. MCInit => Installing!Init
  BY DEF MCInit, Module!Init, Installing!Init, Module!Idle, Installing!Idle
<1>2. [MCNext]_both => [Installing!Next]_(Installing!vars)
  BY BothStep
<1> QED
  BY <1>1, <1>2, PTL DEF MCSpec, Installing!Spec, both

-----------------------------------------------------------------------------
(* Theorems                                                                  *)

\* Every state of the workspace has its type, whoever asks for what.
THEOREM TypesCorrect == MCSpec => []TypesOK
<1>1. MCSpec => []TypeOK
  BY IsAccess, TypeCorrect, PTL
<1>2. Installing!Spec => []Installing!TypeOK
  BY AbsentIsTold, Installing!TypeCorrect
<1>3. Installing!TypeOK => Module!TypeOK
  BY DEF Installing!TypeOK, Module!TypeOK, Installing!NEXT, Module!NEXT,
         Installing!Idle, Module!Idle, Installing!BindingStatus, Module!BindingStatus
<1>4. TypeOK /\ Module!TypeOK => TypesOK
  BY DEF TypesOK
<1> QED
  BY <1>1, <1>2, <1>3, <1>4, IsInstallations, PTL

\* However many requests about a module meet each other and everything else in
\* the workspace, none changes what moved since it decided (save, ensureForModule).
THEOREM StaleChangesNothingAnywhere == MCSpec => StaleChangesNothing
<1>1. Installing!Spec => Installing!StaleChangesNothing
  BY AbsentIsTold, Installing!StaleChangesNothingTheorem
<1>2. Installing!StaleChangesNothing <=> StaleChangesNothing
  BY DEF StaleChangesNothing, Installing!StaleChangesNothing, Module!StaleChangesNothing,
         Installing!vars, Module!vars, Installing!canMove, Module!canMove,
         Installing!NEXT, Module!NEXT
<1> QED
  BY <1>1, <1>2, IsInstallations, PTL

\* Beside everything else in the workspace, what was taken away stays away, wrong
\* PINs are bounded and a link or code lets in once.
THEOREM AccessAnywhere == MCSpec => []TakenAway /\ []TriesBounded /\ SecretsWorkOnce
BY IsAccess, TakenAwayTheorem, TriesBoundedTheorem, SecretsWorkOnceTheorem, PTL
=============================================================================
