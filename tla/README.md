# LapanganGo: a TLA+ verification project

LapanganGo sells time slots of sports courts. A customer reserves a slot, pays
for it by proof of transfer or through a payment gateway, and the owner of the
venue accepts, completes, cancels or refunds. The platform takes a commission,
keeps its own double-entry books and lets customers open a booking to other
players. The program is a Go API over PostgreSQL; nearly everything that is hard
in it is concurrency between transactions, statements outside transactions,
background workers, the payment provider and its webhooks.

The project models the paths along which slots, money, rights and places move.
Paths below are relative to `apps/api/internal` unless they name another
directory.

## 1. The system

| Component | State | Operations | Interacts with |
|---|---|---|---|
| `bookings` | rows of `bookings`, income and refund rows of `owner_finance_transactions` | create (customer, owner offline), payment proof, confirm, verify, reject, mark paid, complete, cancel, cancel with refund, expiry sweeper, auto-completion | locks court rows; prices with a commercial term; cancels payment attempts; triggers of migrations 020, 021 and 030 |
| `refunds` | `booking_refund_requests` | request, approve, reject | cancels bookings and writes refund rows |
| `blockedslots` | `court_blocked_slots` | block, unblock | read by booking creation |
| `payments` | `payment_attempts`, `payment_capture_facts` | create or replay an attempt, bind the provider identity, record a capture, transition | the booking-flow advisory lock (`paymentflow`); outbox |
| `paymentoutbox`, `paymentworker` | `payment_provider_commands` with leases | enqueue, claim, call the provider, finish under the lease token | provider, payments, bookings |
| `paymentwebhooks`, `paymentwebhookprocessor` | `payment_webhook_events` | receive, insert, duplicate, conflict; claim, apply, terminalize | provider; payment attempts |
| `commercialterms` | versioned terms and their idempotency keys | create (supersedes), resolve, preview | read by the booking that is priced |
| `platformfinance` | `booking_fee_snapshots`, the cutover, platform expenses, journals, their audit | price, cut over, detect, backfill; create, approve, post, void, cancel an expense; post and reverse a journal; projections, breakdowns, trends, reconciliation | bookings; the owners' ledger |
| `finance` | the owners' rows of `owner_finance_transactions` | enter, edit, delete, summarise | rows written by bookings and refunds |
| `mabar` | open matches and participants | create, join, leave, cancel, list | the booking's status; the connection pool |
| `staff`, `auth`, `middleware`, `owneraccess`, `venues`, `courts`, `schedules`, `admin` | accounts, memberships, permissions, links, contents of an owner's workspace | invite, set password, log in, assign, suspend, edit | every request of the owner's pages |
| `db/migrations` | triggers, CHECKs, unique indexes | guard of every write above | all |

What is hard:

* **Interleavings.** Two creations of one court; refund approval, direct
  cancellation and auto-completion of one booking; cancellation and the claim of
  the create command; two deliveries of one webhook key; two administrators who
  post and void one expense; two customers who join the last place; a staff
  member who sets a password while the owner regenerates the link.
* **Stale reads.** The sweeper's candidate list; the attempt a worker read before
  a call of several seconds; the attempt a webhook request looked up before its
  insert; the permissions a request was let in with; the term a booking is priced
  with while a newer one waits to commit.
* **Crashes, timeouts and retries.** A worker dies between the provider's answer
  and the commit; a lease lapses during the call; the outcome of a create call or
  of a backfill's commit is unknown; clients repeat requests under one
  idempotency key.
* **Unreliable delivery.** Webhooks are lost, repeated, delayed and repeated with
  another body.
* **Deadlock and exhaustion.** Triggers that take the advisory lock after the
  row; handlers that take a second pooled connection inside a transaction.
* **Cutover.** Bookings of an older release that are under way while the finance
  cutover commits.

`PROJECT.json` lists the hazards one by one, with the line where each bites and
the properties that would catch it.

## 2. Modules

| Module | Models | Instance |
|---|---|---|
| `BookingLifecycle` | abstract: what the tables promise of one booking and its money | – |
| `Bookings` | `bookings`, `refunds`, `blockedslots` | many rows, courts and requests |
| `GatewayPayments` | `payments`, `paymentoutbox`, `paymentworker`, the sandbox triggers, and the legacy path of the same booking | one booking, many attempts and workers |
| `LockOrder` | the locks the transactions of one booking take, and PostgreSQL's deadlock detector | many transactions |
| `WebhookInbox` | `paymentwebhooks`, `paymentwebhookprocessor`, the trigger of migration 029 | many events, requests, processors |
| `Fees`, `BookingFees` | the fee arithmetic and the calculator, shared by the next two | operators |
| `FeeSnapshots` | `commercialterms`, the pricing transaction of `bookings`, cutover, detector and backfill with their commands | many bookings and calls of CreateTerm |
| `FinanceReports` | `finance`, the rows bookings and refunds write, projections, breakdowns, trends and the reconciliation | many bookings, venues and owners |
| `PlatformLedger` | expenses, journals, reversals, their idempotency and audit | many expenses, requests, keys |
| `OpenMatches` | `mabar` and the connection pool | many matches, users, requests |
| `OwnerWorkspace` | `staff`, login, the middleware chain, `owneraccess`, `venues`, `courts`, `schedules`, `admin` | one owner, many members, venues, requests |
| `BookingsProofs` (with `OpenMatches`), `GatewayPaymentsProofs`, `InboxLockProofs` (`WebhookInbox` and `LockOrder`), `FeeSnapshotsProofs`, `FinanceReportsProofs`, `PlatformLedgerProofs`, `OwnerWorkspaceProofs` | theorems | |
| `Money` | lemmas on the fee arithmetic and on sums over sets, for the three proof modules about money | |
| `MC...` | the values of the constants for TLC (`LockOrder` is its own) | |

`Bookings` and `GatewayPayments` are both shown to implement `BookingLifecycle`.
`GatewayPayments` composes the gateway with the legacy path, the cancellation
and the sweep of the same booking. `LockOrder` is kept apart because the other
modules take a whole transaction as one step, which is only right if the locks
they rely on do not deadlock. `GatewayPayments` takes the outcome of a webhook
as one action; `WebhookInbox` opens that action up and takes the worker's
effects on an attempt as its environment. `FeeSnapshots` opens the pricing of a
creation up that `Bookings` leaves out; `FinanceReports` reads the ledger rows
that `Bookings` counts.

### Granularity

A transaction that takes its row or advisory lock before it reads is one action.
It is split where the code reads in one transaction and writes in another, holds
a lock over statements that others can observe, or runs outside a transaction:

* `Bookings`: the creation (begin, lock the court and check, insert or abort),
  the sweep (read the list, then one transaction per candidate, which may fail
  and be skipped), the refund request (checks, then the insert);
* `GatewayPayments`: a worker's claim, decision, provider answer and commit;
* `WebhookInbox`: a request's lookup, its select and its insert; a processor's
  claim, commit and, for an event that cannot be applied, the second
  transaction that terminalizes it;
* `FeeSnapshots`: a booking's begin, pricing, INSERT (which waits for the
  cutover's table lock), deferred trigger and commit; CreateTerm's begin, key
  lock, scope lock and commit; the cutover's table lock and commit; the
  backfill's fetch and commit of each batch;
* `FinanceReports`: a payment's and a refund's begin and commit. Every report
  is one REPEATABLE READ transaction, so it is an operator on the state;
* `PlatformLedger`: arrival, the lock on the idempotency key, the lock on the
  expense row and the rest of the transaction;
* `OpenMatches`: where a request waits, that is for a connection, for the row,
  for the second connection;
* `OwnerWorkspace`: one statement a step, since most of its handlers are not
  transactions; what a handler does in one transaction is one step, except that
  the DELETE and the INSERTs of a replaced venue set are two.

### State and actions

`Bookings`: `status`, `slot`, `createdAt`, `expiresAt` are columns of
`bookings`; `income` and `refund` count the ledger rows of a booking; `creation`
and `courtLock` are transactions in progress; `sweep` is the list
`CancelExpiredBookings` read; `request` the refund requests. The clock `now`
ticks, `ExpiredPending` compares with it. Actions carry the names of the service
methods.

`GatewayPayments`: `attempt`, `identity` and `fact` are the attempt's row and
its capture fact; `cstate`, `holder` and `malformed` the command's row, where
`LAPSED` is a lease that ran out; `session` and `paid` are the provider;
`worker` holds what a worker carries between its steps. `late` in a worker is
the deadline as its transaction saw it, since `transaction_timestamp()` is the
begin. `EXPIRED` also stands for `FAILED` and for a cancellation at the provider:
the code treats them alike.

`WebhookInbox`: `row` is a row of the inbox, `queue` the order
`received_at, id` in which `claimNext` looks, with insertion at any place because
`received_at` is the API's clock. `contract` is the configured contract version;
processors only run under the verified one. A body is its hash, with two
predicates: `Mismatched` (amount, currency or references are not the attempt's)
and `Suspect` (quarantined by the first parse). `PROCESSING` is never
committed without `PROCESSED`, so it is the lock `Locked`.

`FeeSnapshots`: `terms` is the term table with half-open validity, `treq` the
calls of CreateTerm and their answers (the idempotency rows are the terms'
keys), `book` a booking transaction with the created and effective time it read,
`snap` the committed snapshots, `cut` the cutover row, `act` the activating
commands, `fill` the backfill with its cursor and batch. The order of `Ids` is
the order of the UUIDs, which the cursor follows and time does not.

`FinanceReports`: `ledger` is `owner_finance_transactions` with amounts in
hundredths of a rupiah, `book` and `snap` the bookings behind it, `pend` the
payments and refunds under way (their `created_at` is fixed at the begin). Days
are days of Asia/Jakarta. The reports are compared in states
without transactions under way (`AtRest`), which have every content of the
tables. `Faulty` says in terms of the state what
the reconciliation report is there to find; `Clean` is the report.

`PlatformLedger`: `expense`, `journal`, `idem` and `audit` are the tables, a
journal is indexed by its event key, a hash is the payload it hashes. `req` is
the transaction of a request and `answers` the history of successful answers.

`OpenMatches`: `joined` are the participants with status JOINED; a request in
`begun`, `locked` or `seen` holds a connection, one in `locked` or `seen` the
match's row. `blind` remembers the matches with a join whose lookup failed.

`OwnerWorkspace`: `member`, `access`, `invite`, `password` are the tables of
accounts, `content` who wrote a venue, its court and its hours last, `req` the
requests with the context the middleware gave them. A row of `access` is the
request that inserted it: a venue that a rival deleted and inserted again is
another row. `saw` is what the DELETE of a replacement sees; a row that is not
in it stays (`KeptRows`), and inserting it again is a duplicate key. `entitled`
and `replaced` are history for the properties.

## 3. Runs

TLC checks each run to the end; sizes are distinct states.

| Run | States | What it shows |
|---|---|---|
| `bookings_slots` | 445,434 | two bookings with overlapping intervals, a block, two refund requests, sweeper and completion worker: overlap, cash, refunds, lifecycle, and that expired and paid bookings move on |
| `bookings_double` | violation | an expired booking is revived after its slot was sold |
| `gateway_leases` | 237,630 | one attempt, two workers with lapsing leases; refinement |
| `gateway_liveness` | 6,366 | a payment is found; an expired booking is swept |
| `locks_flows` | 30,079 | three transactions of all flows: what a wait cycle needs; every transaction ends |
| `inbox_delivery` | 22,558 | two bodies, two requests: what was answered is recorded, only compared events apply, every delivery is accepted in the end |
| `inbox_queue` | 13,434 | two events and two failing processors: every event settles |
| `fees_cutover` | 3,089,374 | two bookings around the cutover and the backfill, or one beside two calls of CreateTerm: terms, snapshots, detector, backfill |
| `ledger_expenses` | 189,610 | two administrators, repeated and failing requests, a second service that reverses: expense, ledger and answers agree |
| `reports_books` | 131,370 | an online and a walk-in booking over three days: the report finds every fault, totals agree, a closed day is stable |
| `open_matches` | 182,608 | three requests, three users, two connections: places, live joins, answers |
| `workspace_access` | 2,922,104 | three requests on accounts or on rights, failures between statements: links, rights, venue sets |

### Bounds

* Two bookings are enough for every pairwise property (overlap, sweep); the
  interleavings with a third are covered by the theorems, which have no bound.
  `MaxTime` lets a deadline (`TTL` 1) pass, the slot be sold again and its
  interval end; `DayLength`, `OpenAt` and `CloseAt` put an interval on the next
  day for the completion worker.
* Two refund requests: two that compete for one booking, or one for each.
  `MaxBlocks` 1: a block only ever removes a creation.
* One attempt and two workers: two workers on one command. What two attempts of
  one booking may do is the theorems' part, which have no bound.
* Three transactions in `LockOrder`: every pair of flows, and a third that
  waits behind them.
* One event with two bodies has every pair of verdicts for deliveries; a second
  event is needed only for the queue.
* `FeeSnapshots`: three instants are before, at and after a term's or the
  cutover's time; `Workloads` keeps two bookings around the cutover apart from
  one booking beside two calls of CreateTerm. The sample requests have a
  commission that is rounded, a discount, an overridden walk-in price; the rows
  of the older release lack the price columns or hold a fraction. `BatchSize` 1
  makes the backfill need two batches.
* `PlatformLedger`: one key and two requests compete for it or repeat it; the
  amounts are zero, valid and above the maximum, `MaxInt` is scaled down with
  them; `Window` and `MaxClock` put a date inside and outside the back-date
  window.
* `FinanceReports`: three days, periods of two and three days in place of weeks
  and months (so that they start before and end after a range), prices whose
  commission ends on half a rupiah, one entry or edit of the owner in every
  history.
* `OpenMatches`: three requests on a pool of two have every wait; one or two
  places.
* `OwnerWorkspace`: three requests are two that overlap and one that sees what
  they left; loads keep routes apart that share no row. Requests are symmetric,
  and the run has no liveness property.

`CHECK_DEADLOCK FALSE` stands where a system may come to rest: all bookings
final, all deliveries answered, the clock at its bound. The lock model, the
ledger and the open matches have no such rest and check deadlock.

### Fairness

* `Bookings`: time passes; the expiry and completion workers tick for as long as
  the process lives and go on after an error (weak fairness); a candidate's own
  transaction does not fail for ever (strong). Users and owners owe nothing.
* `GatewayPayments`: time passes, leases run out, the sweeper runs; a due command
  is claimed, because the claim orders by `available_at` and a retry pushes its
  own back; a provider call and a commit that are tried again and again succeed
  in the end. Customers, owners and webhooks owe nothing.
* `LockOrder`: lock queues are first come first served; a transaction that has
  its locks commits; the detector runs.
* `WebhookInbox`: the processor polls; no transaction fails every time; for
  `DeliveryAccepted` the provider redelivers what was not answered with 200.
* `PlatformLedger` and `OpenMatches`: a request that can go on again and again
  does go on (strong fairness): PostgreSQL grants locks and the pool grants
  connections in the order of the requests. Nothing makes a client give up:
  `RequestsAnswered` of `OpenMatches` has `Stalled` as its exception.

## 4. Properties

The comments above the definitions state each property. The ones a reviewer
would argue about:

* `OverlapOnlyAfterDeadline`: two live bookings of one slot exist only if the
  deadline of one had passed before the other was created. This is what the code
  guarantees; `NoDoubleBooking`, what it promises, fails.
* `CashMatchesFulfilment`, `ApprovedRefundIsFinal`: ledger and status agree, and
  there is one refund, on every path.
* `OnTimeCapturePays`, `PaidByLiveAttempt`: the gateway pays exactly for an
  on-time capture, and only in the step that captures a pending attempt.
* `CommandsFollowAttempt`: a stale worker leaves no command behind that its
  attempt contradicts.
* `PaymentIsFound`: a payment made at the provider is found through crashes and
  lapsed leases.
* `CyclesNeedTrigger`, `TransactionsEnd`: the flows take attempt, booking and
  command in different orders, and only one of them can close a circle.
* `AckedIsRecorded`, `DeliveryAccepted`, `OnlyComparedEventsApply`: an answer 200
  is durable and comes, and what a webhook may do to an attempt.
* `ResolverTotal`, `StaleOnlyBehindLateTerm`: the validity intervals never leave
  a gap or an overlap, and a booking priced with another rate than the one now
  in force at its instant was overtaken by a term that committed late.
* `DetectorClear`, `BackfillComplete`: what the table lock, the deferred trigger
  and the cursor give together.
* `JournalsFollowExpenses`, `AnswersAgree`: the expense row, the journal and every
  replayed answer are one story, although a second service reverses journals.
* `ReconcileFindsFaults`: the report of any range is clean exactly when nothing
  is wrong with the rows of that range; `BooksBalance`: clean books hold the
  money of the bookings.
* `SeatsKept`, `RequestsAnswered`: the row lock alone protects the count, and the
  pool can stall only in one way.
* `JoinsOnlyLive`: nobody joins a match once its booking has left PAID and
  CONFIRMED; `GetOpenMatchJoinContextTx` locks the booking's row with the
  match until the commit. That PAID is admitted contradicts the repository's
  README (section 6).
* `InvitedCanActivate`: what four statements outside a transaction keep unless
  one fails or two regenerations overlap.
* `VenuesReplaced`: the last replacement grants its whole set whatever runs
  beside it, and any other venue is the row of a request that ran beside it. A
  row that a rival inserted again makes the request fail; it is never lost.
* `WritesWithinRights`: what was withdrawn before a request arrived stays
  withdrawn for it. The two handlers that edit a court are its stated exception
  for the venue scope (`CourtEdits`), see section 6.

## 5. Proofs

The theorems hold for every value of the constants that satisfies the `ASSUME`
of the module, so for any number of bookings, requests, workers, events and
commands. Each follows from an inductive invariant; the invariants of the runs
are too weak to be inductive.

* **`BookingsProofs`**: `TypeCorrect`, `CashCorrect`, `OverlapCorrect`,
  `RefundCorrect`, `SweepCorrect`, and `RowsRefineLifecycle`, the step
  simulation of `BookingLifecycle`. A creation past its checks holds the lock of
  its court (`CreationInv`, `LockInv`) and counts as a claim on its interval, so
  two claims overlap only behind a deadline (`ClaimInv`; `DeadlineInv` says that
  such rows have one): that gives the overlap. `CashInv` says which ledger rows
  each status comes with, `RequestInv` ties approved requests to their booking:
  they give the money.
* **`BookingsProofs`**, open matches: `MatchesTypeCorrect`, `SeatsCorrect`,
  `JoinsCorrect`. `RowLockInv` says who holds the row, `HolderInv` that what the holder read is
  still true, `SeatInv` which count goes with which status; the second makes the
  third inductive.
* **`GatewayPaymentsProofs`**: `GatewayTypeCorrect`, `OnTimeCaptureCorrect`,
  `PathsExclusiveCorrect`, `CancelledCorrect`, `PaidByLiveCorrect`,
  `OneOpenCorrect`, `GatewayRefinesLifecycle` and `CommandsCorrect`. A worker's
  answer is one to the command it claimed (`WorkerInv`); a capture fact is what
  a captured attempt has, and it closed the inquiry (`FactInv`); a create
  command leaves `PENDING` by a claim, before any call, so a local cancellation
  never meets a session at the provider (`DispatchInv`); income goes with the
  status (`LedgerInv`). What a worker brings back from the provider stays true
  until it is recorded: the session exists, the customer has paid, the attempt
  is terminal (`AnswerInv`). With it `CommandsFollowAttempt` survives every
  commit of a stale worker, attempt by attempt (`CommandsFollow`).
* **`InboxLockProofs`**, inbox: `InboxTypeCorrect`, `AckedCorrect`,
  `CapturedCorrect`, `ComparedCorrect`. A request and a processor at work name
  an event (`BusyInv`), a claimed event stays a verified row (`ClaimInv`), and a
  bound row that is not quarantined was compared with its attempt, from the
  request's lookup on (`ComparedInv`).
* **`InboxLockProofs`**, locks: `LocksTypeCorrect` and `CyclesCorrect`. A
  transaction holds the first locks of its flow and still has to take the others
  (`StageInv`), so what a transaction that holds one lock may wait for is known
  flow by flow (`MayWait`). Take a circle without the trigger's request. If a
  member holds the advisory lock, the one it waits for holds the attempt and
  asks for the command, whose holder would have the attempt too. If none holds
  it, no member holds a lock behind it, and nobody holds what the others ask
  for. The circle may have any number of members.
* **`Money`**: `CommissionRounded` and `CommissionBounded`, for every price and
  rate, and what sums over finite sets do. `SumFunctionOnSet` of the community
  modules chooses one element after another; `SumStep` shows that the recursion
  is defined and `SumRemove` that the choice does not matter. Then come unions,
  images, groups and sums of sums. Induction on the set would need a theorem
  with an operator parameter; each lemma takes a smallest set that refutes it
  instead (`SmallestSet`) and removes one element of it.
* **`FeeSnapshotsProofs`**: `FeesTypeCorrect`, which needs `CommissionBounded`
  for the CHECK on a snapshot; `ResolverCorrect` from `TermInv` (the
  terms of a scope are disjoint, the global ones leave no gap);
  `DetectorCorrect` from `CutInv` (one command at work and only before a
  cutover, nothing inserted under the table lock, nothing past the trigger
  without a snapshot once there is a cutover); `RatesCorrect` from `PriceInv`,
  whose step lemma `FreshKept` shows that only a late commit changes what was in
  force at an instant already priced. `KeysCorrect`: a call past the key's lock
  is alone with its key (`AloneKeyInv`), a key has one audit row
  (`OneAuditInv`), the row of a created term names a term that stands as it was
  asked for (`CreatedInv`), and every answer is that of a row (`RecordedInv`).
  `DetectorAgreesCorrect`: the columns and the snapshot of a priced booking come
  from one request under one term (`ColumnsInv`), and by `CommissionRounded` its
  formula gives the calculator's amount. `BackfillCorrect` counts: the bookings
  a run has filled and those still without a snapshot are together the reviewed
  count (`CountInv`, with `BegunInv` and `BatchInv`), so a run that has filled
  that many has left none; `CutInv` keeps new ones from arriving.
* **`PlatformLedgerProofs`**: `LedgerTypeCorrect`, `JournalsCorrect`,
  `ReversalsCorrect`, `BalancesCorrect`, `AnswersCorrect`. `LedgerInv` ties the
  status of an expense to the journals under its event keys, says that a reversal stands
  beside its posting and inverts it line by line (`ReversalsInvert`), and that a
  voiding request holds an instant which is not before the posting
  (`ReadAfterPosting`, from `PostedInThePast`), which `JournalsFollowExpenses`
  asks of its reversal. The balance of an account is a sum over all journals:
  grouped by expense, a reversed posting and its reversal cancel line by line
  (`BookedByPosting`), and one posting remains for each open expense.
  `AnswersInv` says that an action has one audit row when the status says it
  was done and none before (`AuditFollowsStatus`), that what
  is stored for a key was done (`StoredIsDone`) and that what was answered is
  what is stored (`AnsweredIsStored`).
* **`FinanceReportsProofs`**: `ReportsTypeCorrect`, `ClosedDaysCorrect`,
  `FaultsReported`, `ViewsAgree` and `BooksBalanced`, for any prices, any
  entries of the owners and any length of a day, a week and a month.
  `ReportsInv` says what a ledger row looks like by its source (`RowsInv`), that
  the booking flow wrote each row once (`OneRow`), which rows go with the status
  of a booking (`BooksInv`), and that a snapshot is the policy's or, only for a
  booking from before the cutover, the backfill's (`SnapsInv`).
  - A closed day: no row joins it, since a row is dated by the begin of its
    transaction; the events of its rows and the reasons to refuse them stay as
    they were, because a backfilled booking is projected as historical, as it
    was without a snapshot (`SnapshotMoves`, `EventStays`).
  - The views: figures of events are sums over rows (`FiguresOfRows`), and so
    are the cells computed in SQL (`CellsAre`), row by row with the same rounded
    commission; figures add up over any grouping (`FiguresAdd`), and the periods
    of a trend are a partition of the days, cut at both ends (`Periods`).
  - The reconciliation: every fault shows in some check (`FaultShows`), and
    without one no query lists an issue (`NothingFound`) and each check compares
    sums of the same rows (`SourcesAgree`, `DayAgrees`).
  - The books: in clean books the rows match the bookings one to one
    (`CleanRows`), so sums over rows are sums over bookings in which the
    refunded ones cancel (`KeptSum`); the summaries of all owners add up to the
    rows (`OwnersBooks`).

  None of these proofs uses `AtRest`: the three report results hold with
  transactions under way as well. The condition stays in the properties to
  bound the work of the run.
* **`OwnerWorkspaceProofs`**: `WorkspaceTypeCorrect`, `VenuesReplacedCorrect`,
  `InvitedCanActivateCorrect`, `WritesWithinRightsCorrect`. `WorkInv` says of
  every request where its route may be, which rows it may name and that it has
  written once it is past its first write (`Noted`). `VenuesInv` adds that of two
  requests on the same rows the later one knows (`OverlapsKnown`), and that a row
  which the DELETE of a replacement did not see was inserted by a request that
  ran beside it (`SnapshotsFit`); such rows are all that a replacement leaves
  outside its set, and it fails rather than lose one inside. `InviteInv` follows
  the link through `RegenerateInvite`: an invited member has a link that works or
  a request under way that will make one (`InvitesFit`), and a link just made is
  cut only by an overlapping request (`NewLinksFit`). `RightsInv` follows what a
  request was entitled to since its arrival: it is recorded while the request is
  under way (`Watched`), a request past its checks has been entitled to what
  they asked for (`Checked`), and one that wrote to all of it, for a court edit
  with the exception of the venue scope (`Covered`).

The assumptions on the constants are few. Sets that rows are counted or summed
over are finite (expenses, bookings, venues, users, requests); `None` and the
fractional amount differ from every value of the tables, and in `FinanceReports`
from every snapshot and every pair of event sets (`NoneAssumption`), since it
also stands for an answer that is withheld; the inputs have their types. Two say more, each because a guard outside the
module does: an online creation has no price adjustment above zero
(`bookings/service.go:258` refuses a discounted price above the original one,
and without a promo code they are equal), and `Starts` of `OwnerWorkspace` are
accounts as completed requests leave them (an invited member was sent a link, a
link belongs to a membership). TLC evaluates the assumptions in every run.

Model-checked only:

* Every liveness property (`ExpiredPendingMovesOn`, `PaidSettles`,
  `PaymentIsFound`, `ExpiredBookingIsSwept`, `TransactionsEnd`,
  `DeliveryAccepted`, `EventsSettle`, `RequestsAnswered`): fairness and `ENABLED`
  are out of the prover's reach. Every invariant, action property and refinement
  of the passing runs is a theorem.

## 6. Findings

`bookings_double`: `UpdatePaymentReference` and `ConfirmPendingByIDAndCustomerID`
do not look at `expires_at`; an expired booking whose slot was sold again can be
revived before the sweeper comes.

`PROJECT.json` quotes the line this run contradicts.

Further disagreements and observations, with the definition that states what was
expected where there is one. They have no run of their own, and no passing
property claims what they refute:

* `OpenMatches!JoinsOnlyConfirmed`: `src/README.md:157` says that matches are
  "only listed and joinable while the source booking status is `CONFIRMED`" and
  that "CANCELLED or any other status" accepts no participants. The code creates
  (`mabar/service.go:103`), lists (`mabar/repository.go:168`) and joins
  (`mabar/service.go:220`) matches of PAID bookings too, and
  `mabar/service_test.go:217` joins one. As the PROPERTY of `open_matches.cfg`
  the formula is violated within 8 states; `JoinsOnlyLive` is what the code keeps.
* `OwnerWorkspace!StaffWriteAssignedVenues`:
  `docs/version_1_3_release_readiness.md:10` limits staff to the venues allowed
  to them. `UpdateCourt` and `UpdateCourtStatus` (`courts/service.go:108`, `133`)
  update the row first and compare its venue with those of the caller afterwards
  (`EditCourt`): staff with COURTS_WRITE change a court elsewhere, also after
  their access to that venue was withdrawn, and are answered 404. The other
  handlers compare first. As an INVARIANT of `workspace_access.cfg` it is violated
  within 5 states; `WritesWithinRights` keeps it for every other write.

* `LockOrder!NoWaitCycle`: the trigger of migration 030 takes the advisory lock
  after the booking's row, where `paymentflow/lock.go` wants it first.
  `locks_flows` shows that this trigger is the only cause of a wait cycle.
* `WebhookInbox!ConflictCannotMutate`: a conflicting delivery cannot quarantine a
  `VERIFIED` event, because the trigger of migration 029 refuses; the first event
  is applied, where `docs/task_5a-05_payment_technical_contract.md` says that the
  key cannot mutate state.
* `FinanceReports!RefundsStayBooked`: owners can edit and delete the refund rows
  of bookings: `UpdateTransaction` is commented "to ensure it's MANUAL" and
  compares the source with `BOOKING` only. `ReconcileFindsFaults` shows that the
  report lists the result.
* A command that waits for its retry when its attempt becomes terminal stays
  `RETRYABLE` (`claimablePaymentCommandPredicate`), where
  `docs/task_5b-07_root_cause_stabilization.md` asks for a local no-op.
* After an attempt expired locally a second one may be opened while the first
  payment is still settling (`RejectActiveAttempt`), where
  `docs/task_5a-03_payment_refund_state_machine.md` asks for the opposite.
* `JoinOpenMatch` reads any error of `FindParticipant` as "not joined", and takes
  its connection inside the transaction (`blind`, `Stalled`).
* The preview of commercial terms cuts the commission off where the calculator
  rounds it (`CommissionAmountTruncated` is that arithmetic).

## 7. Not modelled

* Promo codes, notifications, mail, analytics, the availability page, owners'
  profiles, venue creation, photos and public search, the browser client: single
  statements, reading or I/O that no guard of the models depends on.
* The worker's retry delays and budgets (a command is due again "later"), the
  rate limiters, deliveries refused before the lookup, `LiveWriteGuard` (nothing
  in `src/` constructs it), paged reading of journals, sanitising of audit
  payloads, the checks of database roles.
* Refunds at the provider, which the configuration disables.
* `AuditedJournalService` is modelled as a second service that reverses journals
  although no route calls it: it is exported, tested, and shares the tables.

Every component left out is listed in `PROJECT.json` with its reason.

## 8. Plan

1. `RetryPolicy`: the worker's delays, budgets and malformed-response limits, as
   operators checked over bounded inputs and composed with `GatewayPayments`.
2. Promo redemption beside the creation, and `Availability` as operators.
