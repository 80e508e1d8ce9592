----------------------------- MODULE Inventory -----------------------------
(* The commands of the Inventory module as database transactions. A command *)
(* claims its idempotency key, locks the rows it depends on one after the   *)
(* other, checks them, writes and saves its answer under the key; another   *)
(* command sees all of that at once, when the transaction commits. The      *)
(* triggers of the tables check the writes again. A transaction that is     *)
(* refused or dies leaves nothing. What the commands are is MasterRecords;  *)
(* that they work as if each was one step is MasterCommands.                *)
(*                                                                          *)
(* Left out: the actor a key belongs to, and requests for rows that are not *)
(* there, which are refused without a trace.                                *)
EXTENDS MasterRecords, Sequences, FiniteSetsExt

CONSTANTS
  Calls,    \* requests the API works on at a time
  MaxSaved  \* bound on the commands that take effect

ASSUME CallsAssumption == MaxSaved \in Nat /\ IsFiniteSet(Calls)

VARIABLE call  \* the requests in flight

vars == <<unit, category, item, conversion, saved, call>>

Idle == [pc |-> "idle"]
Call == {Idle}
  \cup [pc : {"claim", "lock", "write"}, cmd : Command, key : Keys, held : 0..4]
  \cup [pc : {"done"}, cmd : Command, key : Keys, answer : Answer]

TypeOK ==
  /\ unit \in [Units -> UnitRow]
  /\ category \in [Categories -> {"ACTIVE", "INACTIVE", None}]
  /\ item \in [Items -> ItemRow \cup {None}]
  /\ conversion \in [Pairs -> Factors \cup {None}]
  /\ saved \subseteq Saved
  /\ call \in [Calls -> Call]

Init == RowsInit /\ call = [c \in Calls |-> Idle]
-----------------------------------------------------------------------------
\* Slip: the units of a pair are locked in the order of the pair.
UnitLocks_AsNamed(p) == [n \in 1..2 |-> <<"unit", p[n]>>]

UnitLocks(p) ==
  [n \in 1..2 |-> <<"unit", IF n = 1 THEN Min({p[1], p[2]}) ELSE Max({p[1], p[2]})>>]

\* Slip: the status of the category is read without a lock.
CategoryLock_None(g) == <<>>

CategoryLock(g) == IF g \in Categories THEN << <<"category", g>> >> ELSE <<>>

\* Slip: items are counted without their lock, as the gate of a mere count does.
Locks_Uncounted(cmd) ==
  CASE cmd.kind \in {"unit.update", "item.create"} -> << <<"unit", cmd.unit>> >>
    [] OTHER -> <<>>

\* What a command locks, in order: the count of active items, units, a
\* category, the row it changes.
Locks(cmd) ==
  CASE cmd.kind = "unit.update"       -> << <<"unit", cmd.unit>> >>
    [] cmd.kind = "category.status"   -> CategoryLock(cmd.category)
    [] cmd.kind = "item.create"       ->
         << <<"items", None>>, <<"unit", cmd.unit>> >> \o CategoryLock(cmd.category)
    [] cmd.kind = "item.update"       ->
         << <<"items", None>>, <<"unit", item[cmd.item].unit>> >>
           \o CategoryLock(cmd.category) \o << <<"item", cmd.item>> >>
    [] cmd.kind = "conversion.create" -> UnitLocks(cmd.pair)
    [] cmd.kind = "conversion.update" -> UnitLocks(cmd.pair) \o << <<"conversion", cmd.pair>> >>
    [] OTHER                          -> <<>>

InTransaction(c) == call[c].pc \in {"lock", "write"}

Holds(c, row) ==
  InTransaction(c) /\ \E n \in 1..call[c].held : Locks(call[c].cmd)[n] = row

\* The row a command needs next.
Wanted(c) == Locks(call[c].cmd)[call[c].held + 1]

\* Slip: the key is looked up, but its transaction is not waited for.
Blockers_Rows(c) ==
  IF call[c].pc = "lock" /\ call[c].held < Len(Locks(call[c].cmd))
    THEN {d \in Calls \ {c} : Holds(d, Wanted(c))} ELSE {}

\* The commands a command has to wait for.
Blockers(c) ==
  CASE call[c].pc = "claim" -> {d \in Calls \ {c} : InTransaction(d) /\ SameKey(call[d], call[c])}
    [] call[c].pc = "lock" /\ call[c].held < Len(Locks(call[c].cmd)) ->
         {d \in Calls \ {c} : Holds(d, Wanted(c))}
    [] OTHER -> {}

Refused(c) == call' = [call EXCEPT ![c] = Idle]
-----------------------------------------------------------------------------
(* A request arrives, or is repeated because its answer was lost.           *)
Begin(c, cmd, k) ==
  /\ call[c].pc \in {"idle", "done"}
  /\ Known(cmd)
  /\ call' = [call EXCEPT ![c] = [pc |-> "claim", cmd |-> cmd, key |-> k, held |-> 0]]
  /\ UNCHANGED <<unit, category, item, conversion, saved>>

\* The key is new: the transaction goes on under it.
Claim(c) ==
  /\ call[c].pc = "claim" /\ Blockers(c) = {}
  /\ Cardinality(saved) < MaxSaved
  /\ ~ \E s \in saved : SameKey(s, call[c])
  /\ call' = [call EXCEPT ![c].pc = "lock"]
  /\ UNCHANGED <<unit, category, item, conversion, saved>>

\* Slip: the answer is read from the item as it is now.
Replay_Current(c) ==
  /\ call[c].pc = "claim" /\ Blockers(c) = {}
  /\ \E s \in saved :
       /\ SameKey(s, call[c])
       /\ IF s.cmd = call[c].cmd /\ ~s.expired
            THEN call' = [call EXCEPT ![c] =
                   [pc |-> "done", cmd |-> @.cmd, key |-> @.key,
                    answer |-> IF s.answer = None THEN None
                                 ELSE <<s.answer[1], item[s.answer[1]]>>]]
            ELSE Refused(c)
  /\ UNCHANGED <<unit, category, item, conversion, saved>>

\* The key is known: the first answer is given again, or none.
Replay(c) ==
  /\ call[c].pc = "claim" /\ Blockers(c) = {}
  /\ \E s \in saved :
       /\ SameKey(s, call[c])
       /\ IF s.cmd = call[c].cmd /\ ~s.expired
            THEN call' = [call EXCEPT ![c] =
                   [pc |-> "done", cmd |-> @.cmd, key |-> @.key, answer |-> s.answer]]
            ELSE Refused(c)
  /\ UNCHANGED <<unit, category, item, conversion, saved>>

Lock(c) ==
  /\ call[c].pc = "lock" /\ call[c].held < Len(Locks(call[c].cmd))
  /\ Blockers(c) = {}
  /\ call' = [call EXCEPT ![c].held = @ + 1]
  /\ UNCHANGED <<unit, category, item, conversion, saved>>

\* Slip: the rows are checked as they are found, and locked later or never.
Check_Early(c) ==
  /\ call[c].pc = "lock"
  /\ IF Allowed(call[c].cmd) THEN call' = [call EXCEPT ![c].pc = "write"] ELSE Refused(c)
  /\ UNCHANGED <<unit, category, item, conversion, saved>>

Check(c) ==
  /\ call[c].pc = "lock" /\ call[c].held = Len(Locks(call[c].cmd))
  /\ IF Allowed(call[c].cmd) THEN call' = [call EXCEPT ![c].pc = "write"] ELSE Refused(c)
  /\ UNCHANGED <<unit, category, item, conversion, saved>>

\* The transaction commits, unless the tables refuse the write.
Commit(c) ==
  /\ call[c].pc = "write" /\ Kept(call[c].cmd)
  /\ \E answer \in Answers(call[c].cmd) :
       /\ Carry(call[c].cmd, call[c].key, answer)
       /\ call' = [call EXCEPT ![c] =
            [pc |-> "done", cmd |-> @.cmd, key |-> @.key, answer |-> answer]]

\* The tables refuse the write, or the process, the connection or the
\* transaction's time ends: everything is rolled back, the key with it.
Abort(c) ==
  /\ InTransaction(c)
  /\ Refused(c)
  /\ UNCHANGED <<unit, category, item, conversion, saved>>

\* The answers of a key are kept for a day, the key itself for good.
Expire == Expired /\ UNCHANGED call

Next ==
  \/ \E c \in Calls :
       \/ \E cmd \in Command, k \in Keys : Begin(c, cmd, k)
       \/ Claim(c) \/ Replay(c) \/ Lock(c) \/ Check(c) \/ Commit(c) \/ Abort(c)
  \/ Expire

Spec == Init /\ [][Next]_vars
-----------------------------------------------------------------------------
(* The package's allowance of items is never exceeded: two commands after   *)
(* the last place count one after the other.                                *)
QuotaHolds == Cardinality(Existing) <= Allowance

(* Whatever happens to units, no item has a minimum its unit cannot         *)
(* express, and a unit an item or a conversion refers to is locked: its     *)
(* precision no longer changes under what refers to it.                     *)
MinimumFits ==
  /\ \A i \in Existing : Fits(item[i].minimum, item[i].unit)
  /\ \A i \in Existing : unit[item[i].unit].locked
  /\ \A p \in Pairs : conversion[p] # None => unit[p[1]].locked /\ unit[p[2]].locked

(* A key stands for one command and one effect: all requests answered under *)
(* it asked for the same and got the same answer, however often they were   *)
(* sent, at once or after a death, and whatever became of the rows since.   *)
OneAnswerPerKey ==
  /\ \A c, d \in Calls :
       call[c].pc = "done" /\ call[d].pc = "done" /\ SameKey(call[c], call[d]) =>
         call[c].cmd = call[d].cmd /\ call[c].answer = call[d].answer
  /\ Cardinality({<<s.key, s.cmd.kind>> : s \in saved}) = Cardinality(saved)

(* Among any commands that wait there is one that waits for none of them:   *)
(* the orders in which keys and rows are locked never meet in a circle.     *)
NobodyWaitsInACircle ==
  \A S \in (SUBSET Calls) \ {{}} : \E c \in S : Blockers(c) \cap S = {}

(* An item is put into a category only while the category is active, though *)
(* the category may be switched off at any moment around it.                *)
ChosenCategoryActive ==
  [][\A i \in Items : item'[i] # item[i] /\ item'[i].category # None =>
       \/ category[item'[i].category] = "ACTIVE"
       \/ item[i] # None /\ item[i].category = item'[i].category]_vars

\* What a request is for who sent it: asked, or done with an answer.
shown(c) ==
  IF call[c].pc \in {"claim", "lock", "write"}
    THEN [pc |-> "asked", cmd |-> call[c].cmd, key |-> call[c].key] ELSE call[c]

AtOnce == INSTANCE MasterCommands WITH request <- [c \in Calls |-> shown(c)]

(* Commands that meet work as if each one looked, decided, wrote and saved  *)
(* its answer in a single step between its request and its answer, although *)
(* its transaction goes from lock to lock (the writers and updaters, and    *)
(* runTransactionalWorkspaceCommand).                                       *)
Serializable == AtOnce!Spec
=============================================================================
