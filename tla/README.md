# Verification of the merchant operations platform

TLA+ models of the parts of this repository where requests, events and people
meet: money, tables, the kitchen, master records, and who gets in. With them come
the instances TLC checks, and proofs for every detailed model. The models are
translated from the TypeScript and SQL under `src/`; a definition has the name of
the code it stands for wherever that is possible.

Run a model with `tlc -config SalesLedger_visit.cfg MCSalesLedger.tla`, and a
proof module with `tlapm SalesLedger_proofs.tla`.

## The system

One Postgres database, an API (NestJS, Prisma), a worker that delivers outbox
events, and web clients. Requests to the API run concurrently in any number of
processes. Nearly every operation has the same form: a *service* reads without
a lock and decides, then a *repository* runs one interactive transaction that
locks some rows, decides again on part of what was read, writes, and appends an
audit row and an outbox event. Modules never write each other's tables: they
call each other's services, or react to outbox events. What goes wrong in such a
system lies between the reads and the transaction, between two transactions, and
between an event and its delivery; that is what the models keep.

| Component | State | Operations | Interacts with | What makes it correct |
| --- | --- | --- | --- | --- |
| Order intake (`kernels/order-intake`) | orders, lines, moderation, numbers | submit, moderate, cancel, kitchen progress | ledger (paid?), floor (visit open?), events | a paid order stands; progress goes forward; no order on a closed visit |
| Billing and payment ledger (`kernels/billing-payment-ledger`) | bills, payments, claims, allocations, sales, numbers, refunds | pay an order or a visit, claim, confirm, reject, refund | orders, visits, shifts, charges | settled once and fully; refunds within the sale; dense sale numbers; one claim per visit |
| POS shifts and drawer (`modules/pos-sales`) | register sessions, cash movements | open, cash in and out, close | ledger (cash of payments and refunds) | a closed shift's cash is the cash of its rows; the drawer is never overdrawn |
| Floor (`modules/floor`) | floors, tables, QR codes, visits, service requests, policy | open, move, close, clean, set aside, codes, guest orders, calls for staff and claims | orders, ledger | a table holds one visit until it is free again; numbers are dense; an old code stays dead; a closed visit is settled |
| Outbox, inbox, dispatcher (`core/events`, `worker`) | outbox and inbox rows, leases, attempts | append, claim, deliver, record, retry | every module | at least once, finished only when handled or excused |
| Kitchen display (`modules/kds`) | tickets, stations, intake sources | create, cancel, move a ticket | order events in both directions, metering | one ticket per order; a canceled order leaves no open ticket; the order follows the ticket |
| Integration bindings (`core/integrations`) | bindings between modules | ensure, disable, pause, resume, retry held events | installations, dispatcher | the bindings follow the installation; a retry is delivered |
| Module installations (`core/installations`) | installations | install, complete setup, suspend, resume, fail, remove | bindings, entitlements | a stale decision changes nothing |
| Inventory (`modules/inventory`) | units, conversions, categories, items | create and change each | idempotency keys, metering (allowance) | the allowance holds; minimums fit their unit; one answer per key; nobody waits in a circle |
| Idempotency (`core/idempotency`) | keyed requests | claim, replay, complete, expire | inventory commands | one execution per key |
| Access: auth, memberships, devices | sessions, members, invitations, devices, PINs | sign in, invite, activate, put out, guard, approve | every request | a link or code works once; what was taken away stays away; tries are bounded |
| Metering and entitlements | usage events, counters, plans | record, count, evaluate | all modules | counted once; limits hold |
| Catalog, customers, files, mail | master data | create, change, archive | order intake reads prices | optimistic versions |
| Web, UI, Storybook | none of its own | views | API | not state machines |

Hard behaviour: a payment racing a cancellation, a closing visit or a closing
shift; retries under an idempotency key; charges that change between reading and
paying; leases that run out while a batch is delivered; a dispatcher that dies
between a handler's work and its record; events in another order than they were
written; a person's retry racing a delivery; a table freed by one command while
another seats guests; a lock taken in another order; a device revoked while its
request is served; a module removed while it is installed. `PROJECT.json` lists
each with the line where it bites under `hazards`, and every component, modelled
or not, under `components`.

## Modules

| Module | Models |
| --- | --- |
| `Settlement` | Abstract: what an outlet promises of an order and its money, whoever asks for what at once |
| `SalesLedger` | Orders, visits, bills, payments, claims, sales, refunds and shifts of an outlet: how the services and the repositories work on them together; implements `Settlement` |
| `MCSalesLedger`, `MCSalesLedgerMoney` | Instances of it: one visit, and amounts (changing charges, or cash and refunds in two shifts) |
| `Delivery` | Abstract: what the outbox promises of an event, whoever delivers it |
| `EventDelivery` | The outbox, inbox, bindings and several dispatchers; implements `Delivery` |
| `MCEventDelivery` | Instances of it |
| `Kitchen`, `MCKitchen` | Orders and kitchen tickets that talk to each other only through events |
| `Seating` | Abstract: what the floor promises to guests and staff about tables |
| `FloorVisits` | Visits, tables, QR codes, guests' orders and calls, and the staff's commands; implements `Seating` |
| `MCFloorVisits` | Instances of it |
| `MasterRecords` | Units, conversions, categories and items, and what a command finds and writes of them, whatever it locks |
| `MasterCommands` | Abstract: commands on them that happen at once, between a request and its answer |
| `Inventory`, `MCInventory` | The transactional command that takes locks and writes them under an idempotency key; implements `MasterCommands` |
| `Access` | Invitations, memberships, devices, sign-ins, the guard of a request, approval PINs |
| `Installations` | The installation of a module and the bindings that follow it |
| `MCAccess` | Instances of `Access` and `Installations`, the administration of a workspace |
| `SalesLedger_proofs`, `EventDelivery_proofs`, `Kitchen_proofs`, `FloorVisits_proofs`, `Inventory_proofs`, `Access_proofs`, `Installations_proofs`, `MCAccess_proofs` | Theorems about each detailed model, and about `Access` and `Installations` side by side, for all values of their constants |

Definitions named `X_Something` and commented as a *slip* are variants of `X`
with a plausible mistake in them. No specification uses them. They exist to show
that each property notices a mistake of its kind.

### SalesLedger and Settlement

A request is a record in `calls`: a `Begin` action is the service's reading and
its early refusals, and stores what was read; a `Commit` action is the
transaction, any time later. `BeginPayOrder` and `CommitPayOrder` are
`payOrderInFull` and `recordFullPayment`, and so on for visit payments, claims,
refunds and cash movements. Operations that decide everything inside their
transaction (`cancel`, `decideGuestOrder`, `createSubmitted`, `closeVisit`,
`closeShift`, `rejectClaim`, ...) are one action. A transaction is one step
because it first takes the advisory lock of the visit (`lockTableVisit`), the
row of the shift, the rows of the orders and of the sale, so that two
transactions that touch the same rows are serial. A process that dies before its
commit leaves a request that never commits: a stuttering behaviour the
specification has.

Rows are keyed by what made them: a bill and a sale by their order, a payment by
the request that inserted it, a refund by its idempotency key; the database has
unique keys for each. The rounding of tax and service (`computeCharges`) is a
table `Total[r][S]`, additive over orders as in `sessionBills`. `rate` changes
at any time. The cash of a shift is kept as running totals of rows that are only
inserted.

`Settlement` has none of this: no requests, no keys, no bills, no claims. An order
there is asked for, agreed to, canceled or paid; a checkout covers one order or all
that a visit owes, at the charges of one moment, and makes sales with the next
numbers; something may be given back of a paid order; guests leave when they owe
nothing. `SalesLedger!Promised` is the refinement. `standing` computes where an
order is from its row and its bill, and the checkouts are the PAID payments with
the orders they were allocated to. A visit's payment of several orders that left
out one placed meanwhile, a canceled order that a late announcement brings back, or a refund that
is not of a paid order would each be a step `Settlement` does not have. It is about
the order's money only: kitchen statuses, shifts, claims and answers do not show in
it, and have properties of their own.

### EventDelivery and Delivery

An outbox event has the columns `claim` looks at; time is left out, so a lease
or a delay may end at any moment (`BecomeDue`). A dispatcher claims a batch, then
for every handler of the oldest event reads the inbox (`Look`), asks the binding
and the module's availability (`Decide`), calls the handler (`Handle`), records
the outcome (`RecordOutcome`) and reports to the binding (`Report`). `Settle`
marks the event processed, reschedules it or starts setting it aside. The updates
of the outbox and the inbox do not look at the row they change, as in the code.
`Abandon` is a process that dies or a database call outside the handler's `try`
that fails, at any step. Around it a person pauses, resumes, switches and retries
bindings.

`Delivery` says what all this is for: an event is processed only when every
handler has done its work or was excused, and set aside only when its attempts
are spent. `Exhaust` is a step of several events, since one claim takes a batch
and each event of it may be at its last attempt. A handler is excused when its binding says skip or hold, when it
reports a problem that retrying cannot fix, or when the attempts ran out.
`EventDelivery!Promised` states the refinement: `reached` is what handlers did or
were excused from, `exhausted` what was claimed `MaxAttempts` times. The history
variables `effects`, `excused` and the field `claims` exist for these statements.

A retry by a person gives an event its attempts back and takes a handler's excuse
away, whatever a dispatcher is doing at that moment; `Delivery` calls it `Reopen`. A
delivery under way holds its outcomes and its attempt in memory and does not look
again, so the retry may come too late for it. Two history variables say exactly when:
`met` has the events a delivery was through with for that handler (`Through`), and
`overtaken` those whose last attempt was under way (`LastTry`). `Reached` and
`OutOfAttempts` count them, and `Reopen` may keep an excuse or a spent attempt of such
an event. With `NoRetryLost` the exception is taken away again, and TLC finds the
retry that is lost.

### Kitchen

Orders, tickets and the five events between them. Every database call of a
handler is its own step: `ReadOrder`, `FindTicket`, `CreateTicket` and
`RecordUsage` are `onSubmitted` with `CreateKitchenTicket`; `FindForCancel` and
`CommitCancel` are `cancelBySource`; `follow` is the order's reaction to the
kitchen. Delivery is abstracted to what `EventDelivery` shows of it: any waiting
event may be taken, by several dispatchers at once, and any delivery may fail and
come again. The history variable `missed` has the orders whose cancellation found no
ticket while another delivery had read the order and was about to make it (`Making`);
such a ticket stays open, which `NoCanceledTicketOpen` shows, and `CanceledTicketClosed`
is about all the others. Orders are unpaid, which makes cancellation possible at all times and
leaves more behaviours than the code has.

### FloorVisits and Seating

`visit` and `held` are the tables `floor_table_sessions` and
`floor_session_tables`: the first says whether a visit is open, the second which
table it keeps, and different commands write them. A staff command is a `Begin`
step (what `TableSessions`, `TableQr` or the layout service reads) and a
`Commit` step (the transaction of the repository), with what was read kept in
`call`; opening a visit has a third, because its transaction reads the largest
display number (`ReadNumber`) before it inserts (`InsertVisit`). What stands
between two of them is the partial unique index on the table, the unique display
number (`Accepted`), and the row a transaction locks (`Closable`, `CommitMove`).
A guest's order goes from the code that was scanned (`scan`) to the visit at its
table (`seat`), opens one when nobody is there, looks again once when someone was
faster (`seatAgain`), and only then is stored under its key (`createSubmitted`). A
key that is used is answered with the stored order when that is of the visit the guest
was seated at (`Replayed`), and refused otherwise.
A code is a version in `qr[t]`; a partial unique index allows one that works, and
a check constraint keeps a rotated one from being revoked.

`Seating` knows only `place`, the table each visit keeps busy. `shown` computes
it from the two tables as the floor screen does (`tableStatus`), and `Promised`
is the refinement: the two tables of the database never disagree, guests keep one
table until they leave, and nobody else is seated there, whichever commands meet.
Payment and moderation of orders is in `SalesLedger`; here an order is settled at
some moment.

### Inventory and MasterCommands

Each request is one transaction of `runTransactionalWorkspaceCommand`, taken
apart where it may wait: it claims its key (`Claim`, or `Replay` when a committed
row has it; a request that runs under the same key is waited for), takes its row
locks one after the other (`Lock`, in the order `Locks` gives), checks what it
locked (`Check`), and writes rows, answer and key together (`Commit`). `Kept` is
what the constraints and triggers demand at the write, `Latched` the trigger that
closes a unit's definition once something refers to it. `Abort` is a refused
write, a lost connection or a death: all of it is rolled back, the key too.
`Expire` is the time after which an answer is no longer
given; the key stays taken. That other commands see a transaction's
writes only at its commit is what makes `Commit` one step.

`MasterRecords` holds what both levels share: the rows, what a command demands of
them (`Known`, `Allowed`, `Kept`), what it writes and what it answers (`Carry`). `MasterCommands` has a request, one
step that looks, decides and writes on the spot, or gives the answer its key has,
and an answer. The refinement
`Inventory!Serializable` says that the commands behave as if each had run alone at
its commit, although what they check was read before it, under their own locks. No
lock, wait or abort shows in `MasterCommands`, so a command whose locks do not cover
what it checked would be seen.

### Access

Each database call of a request is a step, so that anything may happen between
the look at an invitation and its acceptance, between a device's credential and
the session made with it, between the two lookups of a device in one guarded
request (`CheckDevice` is `getSession`, `Scope` is `authorize`), between putting
a member out and ending their sessions, and between reading a PIN and counting a
wrong try. Secrets are numbers in the order they were issued, since the code
compares hashes and nothing else of them. `RunOut`, `logout` and `Unlock` are
time. `used`, `had`, `kept` and `guesses` are history variables. `had` has what a member
had open when their row went from ACTIVE to INACTIVE, whatever the request had read of
it before; `kept` has the part of it that a request left alone because it had found no
member. `PutOutIsClosed` is what the code's comment says, and does not hold;
`TakenAway` says that nothing but `kept` stays open.

### Installations

`save` is the repository's compare-and-set: the status changes only if it is
still the one the request read. The bindings follow in transactions of their
own: `CreateBinding` and `EnableBinding` are `ensureForModule`, `ListBindings`
and `DisableBinding` are `disableForModule`. A person pauses and resumes bindings
meanwhile. `MCAccess` puts it beside `Access` with the same requests.

## What is checked

| Run | Shows |
| --- | --- |
| `ledger_visit` | With three requests on two orders of a visit: paid orders stand (`PaidOrdersStand`), bills are settled once and in full (`SettledOnce`), one claim waits per visit (`OneClaimPerVisit`), a closed visit is settled (`ClosedVisitSettled`) and gets no claim (`NoClaimOnClosedVisit`), an answer is backed by the ledger (`AnswerBacked`) |
| `ledger_money` | Charges that change at any time: every payment is allocated to the last unit (`PaymentFullyAllocated`), sale numbers are dense (`SaleNumbersDense`). Cash in two shifts: refunds stay within the sale (`RefundsWithinSale`), a closed shift balances for good (`ClosedShiftBalanced`). In both, all that happens to orders and their money is a step of `Settlement` (`Promised`) |
| `delivery_two` | Two dispatchers, bindings that change, a crash, a person's retry at any moment: `Promised` (the refinement of `Delivery`), `RetryIsDelivered` (what a person retries is delivered before the event is processed again, unless a delivery was through with it), `OnceEachClaim` (a handler repeats its work only at the price of an attempt), `ProcessedWasHandled` (the inbox never records a success that did not happen) |
| `delivery_one` | One dispatcher that may die, two handlers, a retry: the liveness property `EventFinishes`, although handlers may fail each time |
| `kitchen_two` | Two dispatchers: tickets of standing orders are counted once (`TicketsCounted`), the order never runs ahead (`OrderFollowsTicket`), nothing goes back (`OnlyForward`), a canceled order leaves no open ticket but one that was in the making (`CanceledTicketClosed`), and the liveness properties `ServedIsSeen`, `ApprovedIsCooked`, `CancellationArrives` |
| `floor_seats` | Two requests at two tables: `Promised` (the refinement of `Seating`), display numbers are dense although read before they are written (`NumbersDense`), a code taken out of use stays so and only the newest works (`QrRetired`) |
| `inventory_keys` | Two commands at once: the allowance holds (`QuotaHolds`), minimums fit units that change (`MinimumFits`), a key has one effect and one answer (`OneAnswerPerKey`), waiting never closes a circle (`NobodyWaitsInACircle`), and every command works as if it ran alone at its commit (`Serializable`, the refinement of `MasterCommands`); that no item enters a category switched off meanwhile is part of that |
| `access_in` | Three requests: a link or code lets in once and only the newest (`SecretsWorkOnce`), nothing of what was taken away stays open but what a request left alone that had found no member (`TakenAway`), wrong PINs are bounded however many try at once (`TriesBounded`), and three requests about one module change nothing that moved since they decided (`StaleChangesNothing`) |

In the composed instances (`floor_seats`, `inventory_keys`, `access_in`) TLC's
`-coverage` shows every action of the modules taken.

Deadlock checking is off everywhere: an outlet where every request is answered,
an outbox with nothing to deliver, a workspace nobody administers, may stop. That
commands do not wait for each other for ever is `NobodyWaitsInACircle`, which
looks at every set of commands and not only at states where nothing moves.

### Bounds, and why they are enough

- **Ledger.** Two orders of different price are enough for payments of parts of
  a visit, for wrong amounts and for two sale numbers. Three requests let a
  request be overtaken by one that is itself overtaken; the keys are fewer than
  the requests, so that keys are used again. `ledger_money` explores (as a
  `CONSTRAINT`) only the states its properties need, of one kind or the other. Where
  charges change, two requests in progress pay without cash, in one shift that stays
  open, since the race is between a request's reading and its transaction; one of the
  two orders may be canceled or cooked, which for the other would be the same again.
  A payment
  of two of a visit's three orders would need three; that it cannot happen is in the
  proof of `PromisedTheorem`, for any number. For
  cash there are three requests in progress on one order: a payment and two
  refunds, or a refund and a cash movement while the shift is closed.
- **Delivery.** One event is enough for every race of two deliveries, since
  events share nothing but the batch. Two handlers and two dispatchers are
  explored in separate runs because their product is out of reach. Two attempts
  (`MaxAttempts`) have one that is not the last. `MaxCrashes` and `MaxRetries` are
  one: a second crash or retry meets the states the first one left. The theorems
  are for any number of all of them.
- **Kitchen.** Orders share nothing, so one is enough. With two dispatchers two
  deliveries of one event, or of two, overlap in every way; two failed deliveries
  let an event overtake two others.
- **Floor.** Two tables for moving, two visits for a table that is seated again,
  and two requests; what can be between two commands is a third one that
  completes, and steps with nothing to read first (`setPolicy`, `restore`,
  `settle`, `finishRequest`) come on top of the two. Three code versions: the one
  that was found, the one that replaced it and a later one. An instance is about
  seats, codes or service, which meet only in whether a table has a code that
  works, and that is where the code lets them meet.
- **Inventory.** An allowance of one and two items is the race for the last
  place; two units are what a circle of locks needs, and two pairs in both
  directions. Two commands wait for each other in every way three can: a circle
  of three needs three kinds of row in three orders, and items, units, categories
  and the changed row are locked in one fixed order. Two effects (`MaxSaved`)
  and the requests that repeat them.
- **Access.** Two people and devices, so that one's secret is not the other's;
  two sign-ins, three links or codes, two tries before the lock, and three
  requests. Sending links, typing codes, signing in, putting members out,
  approving and the module are instances of their own; approving is about the PIN
  of one member. The three that overlap, devices with signing in and members with
  signing in, are explored together: on a device where devices are the question,
  anywhere else where members are. `access_out` needs one person, one sign-in and
  two requests.
- **Installations.** One binding, because bindings are dealt with one by one and
  share nothing.

Calls, keys, people, devices, tables, visits and items, and dispatchers where no
liveness is checked, are interchangeable and symmetric. The bounds of counters
(`MaxVersions`, `MaxSaved`, `MaxIssued`, `MaxCrashes`, `MaxRetries`,
`MaxFailures`) are constants in the guards. `MaxAttempts`, `MaxTries` and
`Allowance` are the code's own limits with smaller values.

### Where the code does not do what it says

| Run | Shows |
| --- | --- |
| `ledger_drawer` | Two requests checked against the same drawer take out more cash than it holds |
| `floor_retry` | A guest whose visit was closed repeats an order under its key: a visit is opened for the table before the key is looked up, the order found is not of that visit, and the repeat is refused with 409 `IDEMPOTENCY_KEY_CONFLICT` where the comment and the milestone promise the stored order. An open visit stays at which nobody sits |
| `access_out` | A request to put a member out reads that they are not active; somebody reactivates them and they sign in; the request writes INACTIVE without looking again and ends no session: the member is out, and what they have open stays open |
| `module_follow` | A module removed while it is being installed ends up not installed with active bindings, or installed with all of them disabled |

Each is one property, that of a comment or a document quoted under `findings`,
with a short counterexample.

These were seen as well, and have a configuration to see them again by hand:

| Configuration and module | Property | Shows |
| --- | --- | --- |
| `SalesLedger_key.cfg`, `MCSalesLedger` | `AnswerIsOwn` | Two payments of different orders race under one key: the loser is answered with the other order's checkout, and its order stays unpaid |
| `EventDelivery_report.cfg`, `MCEventDelivery` | `ProcessedStaysProcessed` | A failing health report turns a recorded success into RETRYING, and the handler runs again |
| `EventDelivery_retry.cfg`, `MCEventDelivery` | `NoRetryLost`, two dispatchers | A dispatcher whose lease ran out is through with a handler when a person retries the event for it; it marks the event processed, and the retry is lost. `RetryIsDelivered` allows exactly that |
| `Kitchen_race.cfg`, `MCKitchen` | `NoCanceledTicketOpen`, two dispatchers | A cancellation handled between the reading of an order and the making of its ticket leaves an open ticket of a canceled order. `CanceledTicketClosed` allows exactly that |

The models also have these behaviours, which no comment or document speaks
against: a table is set aside while guests are being seated at it; a request is
served, without its device's outlet, when the device is revoked between its two
lookups (`TakenAway` allows exactly that); a person who was put out can be signed
in by a request under way, though every later request is refused; and a process
that dies in the middle of an installation leaves it PROVISIONING, where neither
installing again nor removing gets it out.

### Fairness

`EventDelivery!Fairness`: the worker's loop claims as long as something is due and
goes on with what it claimed (`startOutboxLoop` catches every error and continues),
and leases and delays end. Handlers may fail for ever, modules and bindings
may be switched for ever: nothing is assumed of them. `MaxCrashes` bounds how
often a dispatcher dies; with unbounded crashes no event need ever be finished.
`Kitchen!Fairness` adds that no waiting event is passed over for ever, since claims
go by age and failures by attempts are bounded (`MaxFailures`). People (cooks,
cashiers, guests, owners) owe nothing, and a request may die at any step, so the
models of requests have no fairness and no liveness property.

## What is proved

Each `X_proofs` module holds theorems about `X` for every value of its constants
that satisfies the assumptions named in `X`: any number of orders, tables, items,
people, events, dispatchers and concurrent requests. The assumptions say that the
sets that are counted are finite (`FiniteAssumption`, `DeliveryAssumption`,
`NumbersAssumption`, `AccessAssumption`, `CallsAssumption`, ...), that limits are
numbers, and that the mark of an absent row is not itself a row (`NoneAssumption`,
`AbsentAssumption`) nor the name of a status (`StatusAssumption` of `MCAccess`). Where a theorem needs more, it says so as a hypothesis:

| Hypothesis | Of | Where it holds, and what happens otherwise |
| --- | --- | --- |
| `AbsentIsNoStatus` | `Installations_proofs` | always: the mark of a missing row is not the name of a status. It is a hypothesis because `Installations` is used through `INSTANCE` only; `MCAccess_proofs` discharges it from `StatusAssumption`, which TLC evaluates |

No theorem listed in `PROJECT.json` bounds the number of dispatchers, since several
workers are intended (`prisma-event-stores.ts:57`, `docs/foundation/deploy.md:317`).
Two more say what one worker adds: `Kitchen_proofs!NoCanceledTicketOpenTheorem` and
`EventDelivery_proofs!NoRetryLostTheorem` prove the properties that two dispatchers
violate, under the hypothesis that there is only one (`OneDispatcher`, `Alone`).

The proofs of invariants have the form Init => Inv, Inv /\ [Next]_vars => Inv', Inv => property.
What is worth reading is Inv: it says what a request under way still knows of rows
others may change meanwhile. The four refinements (`PromisedTheorem` three times,
`SerializableTheorem`) show from such an invariant that initial states map to
initial states, and every step to a step of the abstract module or a stutter.

### SalesLedger

`TypeOK` alone is not inductive: what a transaction writes comes from what the
request read, so a request under way must remember well-typed values, and a
claim must be about at least one order. That is `RequestsTyped`, and
`Typed == TypeOK /\ RequestsTyped` is inductive (`TypedInit`, `TypedStep`, one
lemma per action). The frame lemma `CallStep` says once what a step of a request
may do to bills, payments, sales and shifts.

| Theorem | Argument |
| --- | --- |
| `TypeCorrect` | `Typed` |
| `PaidOrdersAlwaysStand` | a payment rechecks the orders it settles; nothing cancels or moderates a paid order |
| `ClosedVisitsAlwaysSettled` | closing checks under the lock; orders come to open visits only; a payment only settles |
| `ClaimsOnOpenVisitsOnly` | a claim's orders are exactly the unpaid ones, and not none, and a closed visit has none (`ClosedVisitSettled`): the transaction needs not read the visit |
| `ClosedShiftsAlwaysBalanced` | whatever adds cash to a shift requires it open |
| `RefundsAlwaysWithinSale` | the refund rechecks what is left under the sale's lock |
| `OneClaimPerVisitAlways` | the partial unique index, and confirmations only leave VERIFYING |
| `FinalFactsAlwaysStay` | an action property, from the bills being paid or absent (`SettledBills`) |
| `BillsAlwaysSettledOnce`, `SaleNumbersAlwaysDense`, `AnswersAlwaysBacked`, `KeysAlwaysUnique`, `PaymentsAlwaysAllocated` | `Backed` |
| `PaymentsAlwaysFullyAllocated` | `PaymentAllocated` line by line, and `TotalAssumption`, by which totals add up. The sum over a set is a fold, for which the library has no induction that can be used here; `SumIsUnique` takes instead a smallest set on which two ways of adding up differ (strict inclusion is well-founded on finite sets) and shows that there is none |
| `PromisedTheorem` | the refinement of `Settlement`, from `Backed` and `PaidOrdersStand`: requests that read or are refused, claims, cash and shifts do not show (`NothingShows`, `ClaimShown`); a payment transaction that writes anything has rechecked every order, and writes one order or all the visit owes (`PayOrderWhole`, `PayVisitWhole`), with the numbers after those of the orders sold (`SoldAreNumbered`) |

`Backed` relates the rows of one payment: a key has one payment (`KeyUnique`); a
bill without payment has no allocation and no sale, a paid one has exactly one of
each (`SettledRow`); the numbers given are those up to the counter
(`SaleNumbersDense`); a payment's amount is the total of its orders at one state
of the charges, and every line is allocated at that one (`PaymentAllocated`); and
whoever was answered is answered with orders a PAID payment under the request's
key stands for (`AnswerBacked`). They are proved together because each one's step
needs the others.

### EventDelivery

| Theorem | Argument |
| --- | --- |
| `TypeCorrect`, `ProcessedWasHandledTheorem` | `Delivering`: at the step that records a success, the handler's work is done |
| `OnceEachClaimTheorem` | `Paid`: an effect made, or one a dispatcher may still make, is paid for by a claim of its own. No hypothesis is needed: leases that overlap, crashes and retries all go through a claim |
| `RetryIsDeliveredTheorem` | `Outcomes`: what the inbox says is held back was excused, and the outcomes and last attempts a dispatcher holds in memory count on after a retry, because the retry notes them (`met`, `overtaken`); every other step only adds (`StaysReached`, `StaysSpent`) |
| `PromisedTheorem` | the refinement of `Delivery`, step by step: a claim is `Exhaust` of the events whose last attempt it begins, work and excuses are `Reach`, `Settle` is `Process` or a stutter, a retry is `Reopen`, with what deliveries under way keep alive |
| `NoRetryLostTheorem` (one dispatcher) | `Undisturbed`: what it delivers is unfinished, and only finished events are retried, so no retry comes too late |

The refinement first failed at the claim: a batch may spend the last attempt of
several events in one step. `Delivery` allows that now.

### Kitchen

The order and its ticket never share a transaction. The invariant is therefore
about the announcements between them: what was announced stays true (`Announced`),
in whatever order it is delivered.

| Theorem | Argument |
| --- | --- |
| `TypeCorrect`, `OrderFollowsTicketTheorem` | `Announced`: a ticket is at least where any of its announcements says |
| `TicketsCountedTheorem` | `Metered`: the counter is the usage rows, whose key is the ticket |
| `OnlyForwardTheorem` | an action property: every write of a status is conditional on the status before it |
| `CanceledTicketClosedTheorem` | `Closing`: once the cancellation of an order was handled and missed nothing, its ticket is not open, and where there is none nobody can make one any more: whoever still reads the order finds it canceled (`Announced`) |
| `NoCanceledTicketOpenTheorem` (one dispatcher) | nobody is between reading an order and making its ticket while a cancellation is handled, so `missed` stays empty |

### FloorVisits

`Knowing` is what a request read that cannot become false (that a closed visit
stays closed, that a code's version exists, that the display number it will try
is at most the next one); `Seated` says that a visit has one row in `held` exactly
while it keeps a table, and that no table has two.

| Theorem | Argument |
| --- | --- |
| `TypeCorrect` | `Knowing` |
| `NumbersDenseTheorem` | a number read before others were given is refused by the unique key, so what is inserted is the next one (`Accepted`) |
| `QrRetiredTheorem` | an action property: only a new version becomes ACTIVE, when none works |
| `PromisedTheorem` | the refinement of `Seating`: one step of the rooms is one of seating, moving, leaving, cleaning, or a stutter (`RoomsStep`) |

### Inventory

| Theorem | Argument |
| --- | --- |
| `TypeCorrect`, `MinimumFitsTheorem`, `ChosenCategoryActiveTheorem` | `Checked` and `Referenced` |
| `QuotaHoldsTheorem` | `Checked`, as every command that may add an item locks the counter |
| `OneAnswerPerKeyTheorem` | `Remembered`: a key is saved once, and whoever is done has what is saved |
| `SerializableTheorem` | the refinement of `MasterCommands`: what was found still holds when it is written, by `Checked`, so all that shows of a command is its one step at the commit; a replayed answer is the one saved |
| `NobodyWaitsInACircleTheorem` | `LocksClimb`: the rows of any command are locked in one order, so of the commands of a circle the one that waits for the largest row waits for nobody in it |

`Checked` says that what a command found when it had locked its rows is still so
when it writes. It is inductive because two transactions never hold one row
(`Apart`, `NoCommonRow`), each writes only rows it locked (`WritesWithinLocks`), and a
write elsewhere leaves what was found (`AllowedStays`). This is the proof that the
locks the code takes are enough for the checks it makes.

### Access

| Theorem | Argument |
| --- | --- |
| `TypeCorrect`, `SecretsWorkOnceTheorem` | `Newest`: the secret that a row waits for is its newest, and who used one is no longer waited for |
| `TakenAwayTheorem` | `Closed`: what was open is closed, or somebody is about to close it, or the request that put the member out left it alone (`kept`). `Requests`: what each lookup of a guarded request established cannot become false, because a sign-in keeps its person and device and a revoked device stays revoked (`Forward`) |
| `TriesBoundedTheorem` | `Limited`: while a PIN takes tries its row has counted them; once it is locked, the wrong answers given and the requests still under way stay below the bound together, since none joins them and each is counted once |

### Installations

| Theorem | Argument |
| --- | --- |
| `TypeCorrect`, `StaleChangesNothingTheorem` | `Decided`: a request's decision is right for what it read, and `save` writes only over what was read |
| `TypesCorrect`, `StaleChangesNothingAnywhere`, `AccessAnywhere` (`MCAccess_proofs`) | a step of the composed administration is one of `Access` or of `Installations` and leaves the other's rows alone (`BothStep`), so the specification implements both, and their theorems hold in it; `StatusAssumption` gives the hypothesis |

### Only model-checked

- The liveness properties `EventFinishes`, `ServedIsSeen`, `ApprovedIsCooked` and
  `CancellationArrives`: the prover has no rules for fairness.
- That the code violates the four properties above, and those to see by hand.

## Plan

1. `SalesLedger`, `EventDelivery`, `Kitchen`, `FloorVisits`, `Inventory`, `Access`,
   `Installations`: modelled, checked and proved as above.
2. Next for the proofs: that `EventDelivery` implements the delivery `Kitchen`
   abstracts to (any dispatcher may take a waiting event, which is done only after
   a success); that `FloorVisits` and `SalesLedger` agree on when a visit may be
   closed, with the order and its moderation in one model.
3. `Charges`: the arithmetic of tax, service and included charges, against a
   reference over bounded inputs.
4. `Metering`: thresholds that are announced once.

## What is not modelled

Amounts beyond small numbers, currencies, formatting and wording; database
isolation below the locks the code takes (a transaction is a step, or several
where it waits, which is right only where it locks what it reads, as it does
here); the pool of connections; rate limits, roles and permissions, which only
refuse.

Held carts, customers, the catalog, files, mail, feature flags and the naming
and placing of floors and tables are one row written by one statement, mostly
under an optimistic version: their models would restate the statement. The
entitlement evaluator is a pure function over rows. Adjusting and rebuilding a
usage counter and `consumeThrottled` have no caller. The idempotency interceptor
serves one route and keeps a key reserved once its outcome is uncertain.

The larger part of the repository's lines is web user interface, controllers,
schemas, mappers and listings. They hold no state that two actors share, so a
model of them would show nothing. What is mapped is therefore a small share of
all lines, and most of those that decide something. `PROJECT.json` names each
part with its reason.
