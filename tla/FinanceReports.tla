--------------------------- MODULE FinanceReports ---------------------------
(***************************************************************************)
(* The owners' cash ledger (owner_finance_transactions) and what is read   *)
(* from it: the platform's commission projection, its breakdowns and       *)
(* trends, the reconciliation report that compares them, and the owner's   *)
(* own finance summary (packages finance and platformfinance, the command  *)
(* reconcile-platform-finance).                                            *)
(*                                                                         *)
(* Every report runs in one REPEATABLE READ transaction, so it is an       *)
(* operator on the state.  A payment or refund is split at its commit:     *)
(* created_at of its ledger row is the start of its transaction, which may *)
(* lie on the day before.  Days are Jakarta days of PerDay instants.       *)
(* Ledger amounts are NUMERIC(14,2), so they are counted in hundredths of  *)
(* a rupiah; prices, snapshots and reports are in whole rupiah.            *)
(***************************************************************************)
EXTENDS BookingFees, FiniteSets, Functions

CONSTANTS
    Ids,         \* bookings
    Facts,       \* what each booking is: [venue, price, channel]
    OwnerOf,     \* the owner of each venue
    Rate,        \* commission_bps of the term in force
    Inputs,      \* what an owner may enter: [type, venue, amount], the amount in hundredths
    PerDay,      \* instants in a day
    WeekDays,    \* days of a week (7) and of a month in the trend
    MonthDays,
    MaxClock,    \* bound on the clock
    MaxEntries   \* bound on the owners' entries, edits and deletions

Venues == DOMAIN OwnerOf
Time == 0 .. MaxClock
DayOf(t) == t \div PerDay
Days == 0 .. DayOf(MaxClock)

ASSUME ReportsAssumption ==
    /\ IsFiniteSet(Ids) /\ IsFiniteSet(Venues)
    /\ Facts \in [Ids -> [venue : Venues, price : Nat \ {0}, channel : {Online, WalkIn}]]
    /\ None \notin Ids \cup Nat
    /\ Rate \in 0 .. MaxBps
    /\ Inputs \subseteq [type : {"INCOME", "EXPENSE"}, venue : Venues, amount : Nat \ {0}]
    /\ {PerDay, WeekDays, MonthDays} \subseteq Nat \ {0}
    /\ {MaxClock, MaxEntries} \subseteq Nat

VARIABLES
    clock,
    book,     \* the bookings: [status, created, via]; via (how it was paid) is history
    snap,     \* booking_fee_snapshots
    cut,      \* snapshot_cutover_at, or None
    pend,     \* the payment or refund transaction under way on a booking
    ledger,   \* owner_finance_transactions; edited is updated_at > created_at
    entries   \* the owners' entries and edits so far, which number the manual rows

vars == <<clock, book, snap, cut, pend, ledger, entries>>

Created == {b \in Ids : book[b].status # "none"}
IsOnline(b) == Facts[b].channel = Online

Hundredths == 100
Whole(amount) == amount % Hundredths = 0
Rupiah(amount) == amount \div Hundredths

----------------------------------------------------------------------------
(* Bookings, the cutover and the backfill.                                 *)

NoRow == [status |-> "none", created |-> 0, via |-> "none"]

PolicySnapshot(b) ==
    LET fees == CalculateBookingFees([channel |-> Facts[b].channel, original |-> Facts[b].price,
                                      adjustment |-> 0, reason |-> FALSE], Rate)
    IN  [source |-> "POLICY", channel |-> Facts[b].channel, final |-> fees.final,
         bps |-> fees.bps, commission |-> fees.commission]

LegacySnapshot(b) == [source |-> "LEGACY_NO_COMMISSION", channel |-> Facts[b].channel,
                      final |-> Facts[b].price, bps |-> 0, commission |-> 0]

\* A ledger row of a booking.
BookingRow(b, type, source, at) ==
    [key |-> b, type |-> type, source |-> source, booking |-> b, venue |-> Facts[b].venue,
     owner |-> OwnerOf[Facts[b].venue], amount |-> Facts[b].price * Hundredths, at |-> at, edited |-> FALSE]

Incomes(b) == {r \in ledger : r.booking = b /\ r.type = "INCOME" /\ r.source = "BOOKING"}
Refunds(b) == {r \in ledger : r.booking = b /\ r.type = "EXPENSE" /\ r.source = "REFUND"}

\* An online booking, whose payment comes later.
BookOnline(b) ==
    /\ book[b].status = "none" /\ IsOnline(b)
    /\ book' = [book EXCEPT ![b] = [status |-> "CONFIRMED", created |-> clock, via |-> "none"]]
    /\ snap' = [snap EXCEPT ![b] = PolicySnapshot(b)]
    /\ UNCHANGED <<clock, cut, pend, ledger, entries>>

\* The owner's walk-in booking is paid and booked as income in one transaction.
BookWalkIn(b) ==
    /\ book[b].status = "none" /\ ~IsOnline(b)
    /\ book' = [book EXCEPT ![b] = [status |-> "PAID", created |-> clock, via |-> "OWNER"]]
    /\ snap' = [snap EXCEPT ![b] = PolicySnapshot(b)]
    /\ ledger' = ledger \cup {BookingRow(b, "INCOME", "BOOKING", clock)}
    /\ UNCHANGED <<clock, cut, pend, entries>>

\* A release without snapshots; the trigger refuses it once there is a cutover.
BookLegacy(b) ==
    /\ book[b].status = "none" /\ cut = None
    /\ book' = [book EXCEPT ![b] = [status |-> IF IsOnline(b) THEN "CONFIRMED" ELSE "PAID",
                                    created |-> clock, via |-> IF IsOnline(b) THEN "none" ELSE "OWNER"]]
    /\ ledger' = IF IsOnline(b) THEN ledger
                 ELSE ledger \cup {BookingRow(b, "INCOME", "BOOKING", clock)}
    /\ UNCHANGED <<clock, snap, cut, pend, entries>>

\* ActivateCutover, as FeeSnapshots shows it works.
Cutover ==
    /\ cut = None
    /\ \A b \in Created : book[b].created < clock
    /\ cut' = clock
    /\ UNCHANGED <<clock, book, snap, pend, ledger, entries>>

\* One row of the backfill.
Backfill(b) ==
    /\ b \in Created /\ cut # None /\ book[b].created < cut /\ snap[b] = None
    /\ snap' = [snap EXCEPT ![b] = LegacySnapshot(b)]
    /\ UNCHANGED <<clock, book, cut, pend, ledger, entries>>

----------------------------------------------------------------------------
(* Payments and refunds.                                                   *)

\* MarkBookingPaid: the transaction starts and locks the booking row.
BeginPayment(b) ==
    /\ book[b].status = "CONFIRMED" /\ pend[b] = None
    /\ pend' = [pend EXCEPT ![b] = clock]
    /\ UNCHANGED <<clock, book, snap, cut, ledger, entries>>

\* Altered form: the income is dated by the booking, not by its payment.
MarkBookingPaidBackdated(b) ==
    /\ book[b].status = "CONFIRMED" /\ pend[b] # None
    /\ book' = [book EXCEPT ![b].status = "PAID", ![b].via = "OWNER"]
    /\ ledger' = ledger \cup {BookingRow(b, "INCOME", "BOOKING", book[b].created)}
    /\ pend' = [pend EXCEPT ![b] = None]
    /\ UNCHANGED <<clock, snap, cut, entries>>

\* Its commit; the unique index and ON CONFLICT DO NOTHING keep one income.
MarkBookingPaid(b) ==
    /\ book[b].status = "CONFIRMED" /\ pend[b] # None
    /\ book' = [book EXCEPT ![b].status = "PAID", ![b].via = "OWNER"]
    /\ ledger' = IF Incomes(b) = {} THEN ledger \cup {BookingRow(b, "INCOME", "BOOKING", pend[b])}
                                    ELSE ledger
    /\ pend' = [pend EXCEPT ![b] = None]
    /\ UNCHANGED <<clock, snap, cut, entries>>

\* A capture reported by the payment gateway writes no ledger row.
GatewayCapture(b) ==
    /\ book[b].status = "CONFIRMED" /\ pend[b] = None /\ IsOnline(b)
    /\ book' = [book EXCEPT ![b].status = "PAID", ![b].via = "GATEWAY"]
    /\ UNCHANGED <<clock, snap, cut, pend, ledger, entries>>

CompleteBooking(b) ==
    /\ book[b].status = "PAID" /\ pend[b] = None
    /\ book' = [book EXCEPT ![b].status = "COMPLETED"]
    /\ UNCHANGED <<clock, snap, cut, pend, ledger, entries>>

\* The owner's cancellation with refund: PAID, an income and no refund yet.
BeginRefund(b) ==
    /\ book[b].status = "PAID" /\ pend[b] = None
    /\ Incomes(b) # {} /\ Refunds(b) = {}
    /\ pend' = [pend EXCEPT ![b] = clock]
    /\ UNCHANGED <<clock, book, snap, cut, ledger, entries>>

RefundBooking(b) ==
    /\ book[b].status = "PAID" /\ pend[b] # None
    /\ book' = [book EXCEPT ![b].status = "CANCELLED"]
    /\ ledger' = ledger \cup {BookingRow(b, "EXPENSE", "REFUND", pend[b])}
    /\ pend' = [pend EXCEPT ![b] = None]
    /\ UNCHANGED <<clock, snap, cut, entries>>

AbortTransaction(b) ==
    /\ pend[b] # None
    /\ pend' = [pend EXCEPT ![b] = None]
    /\ UNCHANGED <<clock, book, snap, cut, ledger, entries>>

----------------------------------------------------------------------------
(* The owner's own entries.                                                *)

CreateTransaction(x) ==
    /\ entries < MaxEntries
    /\ ledger' = ledger \cup {[key |-> entries + 1, type |-> x.type, source |-> "MANUAL", booking |-> None,
                               venue |-> x.venue, owner |-> OwnerOf[x.venue], amount |-> x.amount,
                               at |-> clock, edited |-> FALSE]}
    /\ entries' = entries + 1
    /\ UNCHANGED <<clock, book, snap, cut, pend>>

\* The rows UpdateTransaction and DeleteTransaction let through.
Editable(r) == r.source # "BOOKING"

UpdateTransaction(r, x) ==
    /\ Editable(r) /\ entries < MaxEntries
    /\ OwnerOf[x.venue] = r.owner
    /\ ledger' = (ledger \ {r}) \cup {[r EXCEPT !.type = x.type, !.venue = x.venue, !.amount = x.amount,
                                                !.edited = TRUE]}
    /\ entries' = entries + 1
    /\ UNCHANGED <<clock, book, snap, cut, pend>>

DeleteTransaction(r) ==
    /\ Editable(r) /\ entries < MaxEntries
    /\ ledger' = ledger \ {r}
    /\ entries' = entries + 1
    /\ UNCHANGED <<clock, book, snap, cut, pend>>

----------------------------------------------------------------------------

Init ==
    /\ clock = 0
    /\ book = [b \in Ids |-> NoRow]
    /\ snap = [b \in Ids |-> None]
    /\ cut = None
    /\ pend = [b \in Ids |-> None]
    /\ ledger = {}
    /\ entries = 0

Tick ==
    /\ clock < MaxClock
    /\ clock' = clock + 1
    /\ UNCHANGED <<book, snap, cut, pend, ledger, entries>>

BookingStep == \E b \in Ids : \/ BookOnline(b) \/ BookWalkIn(b) \/ BookLegacy(b) \/ Backfill(b)
                              \/ BeginPayment(b) \/ MarkBookingPaid(b) \/ GatewayCapture(b)
                              \/ CompleteBooking(b) \/ BeginRefund(b) \/ RefundBooking(b)
                              \/ AbortTransaction(b)

OwnerStep == \/ \E x \in Inputs : CreateTransaction(x) \/ \E r \in ledger : UpdateTransaction(r, x)
             \/ \E r \in ledger : DeleteTransaction(r)

Next == Tick \/ Cutover \/ BookingStep \/ OwnerStep

Spec == Init /\ [][Next]_vars

----------------------------------------------------------------------------
(* The projection: the online events of the days s .. e.  A range that     *)
(* holds damaged data is refused as a whole.                               *)

MaxDays == 366
ParseAndValidateDates(s, e) == s <= e /\ e - s < MaxDays
InRange(t, s, e) == DayOf(t) \in s .. e

IncomeRows == {r \in ledger : r.type = "INCOME" /\ r.source = "BOOKING"}
RefundRows == {r \in ledger : r.type = "EXPENSE" /\ r.source = "REFUND"}

\* The row names a booking, its venue and the venue's owner.
Canonical(r) == r.booking # None /\ r.venue = Facts[r.booking].venue /\ r.owner = OwnerOf[r.venue]

SameOwner(i, r) == i.booking = r.booking /\ i.owner = r.owner /\ i.venue = r.venue

LateBookings(s, e) == {b \in Created : /\ cut # None /\ book[b].created >= cut
                                       /\ InRange(book[b].created, s, e)}
MissingPostCutover(s, e) == {b \in LateBookings(s, e) : snap[b] = None}
LegacyPostCutover(s, e) ==
    {b \in LateBookings(s, e) : snap[b] # None /\ snap[b].source = "LEGACY_NO_COMMISSION"}
DuplicateIncome(s, e) ==
    {b \in Ids : Cardinality(Incomes(b)) > 1 /\ \E r \in Incomes(b) : InRange(r.at, s, e)}
Fractional(s, e) == {r \in ledger : ~Whole(r.amount) /\ InRange(r.at, s, e)}
OrphanRefunds(s, e) ==
    {r \in RefundRows : /\ InRange(r.at, s, e)
                        /\ ~Canonical(r) \/ ~\E i \in IncomeRows : SameOwner(i, r)}

Historical == "HISTORICAL_SCENARIO"
Snapshot == "BOOKING_SNAPSHOT"
Mixed == "MIXED"
HistoricalBps == 700

\* classifyProjection refuses the event of a booking with this ledger amount.
ClassificationFails(b, rupiah) ==
    LET s == snap[b]
        late == cut # None /\ book[b].created >= cut
    IN  IF s = None THEN late
        ELSE \/ s.commission # CommissionAmount(s.final, s.bps)
             \/ s.channel # Online
             \/ s.final # rupiah
             \/ s.source = "LEGACY_NO_COMMISSION" /\ late

Basis(b) == IF snap[b] # None /\ snap[b].source = "POLICY" THEN Snapshot ELSE Historical

\* What an event projects: the snapshot's commission, or a scenario of 7%.
ProjectedCommission(b, rupiah) ==
    IF Basis(b) = Snapshot THEN snap[b].commission ELSE CommissionAmount(rupiah, HistoricalBps)

Event(r) == [booking |-> r.booking, at |-> r.at, venue |-> r.venue, amount |-> Rupiah(r.amount),
             commission |-> ProjectedCommission(r.booking, Rupiah(r.amount)), basis |-> Basis(r.booking)]

\* loadProjectionEventsMode: the income and refund events of the venues in
\* scope, or None.  The first checks look at every row of the range, also at
\* those of other venues.
loadProjectionEvents(scope, s, e) ==
    LET online(r) == Canonical(r) /\ IsOnline(r.booking) /\ InRange(r.at, s, e) /\ r.venue \in scope
        incomes == {r \in IncomeRows : online(r)}
        refunds == {r \in RefundRows : online(r)}
        damaged == MissingPostCutover(s, e) \cup LegacyPostCutover(s, e) \cup DuplicateIncome(s, e)
        refused == \/ \E r \in incomes \cup refunds : ClassificationFails(r.booking, Rupiah(r.amount))
                   \/ \E r \in refunds : \E i \in Incomes(r.booking) : i.amount # r.amount
    IN  IF damaged # {} \/ Fractional(s, e) # {} \/ OrphanRefunds(s, e) # {} \/ refused
        THEN None
        ELSE [incomes |-> {Event(r) : r \in incomes}, refunds |-> {Event(r) : r \in refunds}]

Sum(F(_), S) == SumFunction([x \in S |-> F(x)])
Amount(x) == x.amount
Commission(x) == x.commission

\* addIncome and addRefund over sets of events: the five figures that every
\* view reports (their split by basis is the same sum over fewer events).
Figures(incomes, refunds) ==
    [gross |-> Sum(Amount, incomes), refund |-> Sum(Amount, refunds),
     commission |-> Sum(Commission, incomes) - Sum(Commission, refunds),
     bookings |-> Cardinality(incomes), refunded |-> Cardinality(refunds)]

\* aggregateProjection: the figures of all events, and of each owner and venue.
aggregateProjection(scope, incomes, refunds) ==
    LET at(v, S) == {x \in S : x.venue \in v}
        group(v) == Figures(at(v, incomes), at(v, refunds))
    IN  [total |-> Figures(incomes, refunds),
         topOwners |-> [o \in {OwnerOf[v] : v \in scope} |-> group({v \in scope : OwnerOf[v] = o})],
         topVenues |-> [v \in scope |-> group({v})]]

\* projectionBasisWithPresence and, for a range without events, projectionBasisForEmptyRange.
ProjectionBasis(present, s, e) ==
    CASE Cardinality(present) = 2 -> Mixed
      [] Cardinality(present) = 1 -> CHOOSE x \in present : TRUE
      [] OTHER -> IF cut = None \/ (e + 1) * PerDay <= cut THEN Historical
                  ELSE IF s * PerDay >= cut THEN Snapshot ELSE Mixed

PaidWithoutLedger(scope, s, e) ==
    {b \in Created : /\ book[b].status \in {"PAID", "COMPLETED"} /\ IsOnline(b)
                     /\ Facts[b].venue \in scope /\ InRange(book[b].created, s, e)
                     /\ ~\E r \in Incomes(b) : Canonical(r)}
LedgerWithoutBooking(scope, s, e) ==
    {r \in IncomeRows : InRange(r.at, s, e) /\ r.venue \in scope /\ ~Canonical(r)}

\* getProjectionSummary, or None when the range is refused.
getProjectionSummary(scope, s, e) ==
    LET events == loadProjectionEvents(scope, s, e)
        present == {x.basis : x \in events.incomes \cup events.refunds}
    IN  IF events = None THEN None
        ELSE [figures |-> aggregateProjection(scope, events.incomes, events.refunds),
              basis |-> ProjectionBasis(present, s, e),
              paidWithoutLedger |-> Cardinality(PaidWithoutLedger(scope, s, e)),
              ledgerWithoutBooking |-> Cardinality(LedgerWithoutBooking(scope, s, e))]

\* GetSummary of the service: what the owners keep after the commission.
GetSummary(scope, s, e) ==
    LET data == getProjectionSummary(scope, s, e)
        total == data.figures.total
        net == total.gross - total.refund
    IN  IF loadProjectionEvents(scope, s, e) = None THEN None
        ELSE [net |-> net, commission |-> total.commission, ownerNet |-> net - total.commission,
              basis |-> data.basis, complete |-> data.paidWithoutLedger + data.ledgerWithoutBooking = 0]

----------------------------------------------------------------------------
(* The same figures as the breakdown's SQL computes them, and the trend.   *)

\* The commission of an income row in loadProjectionBreakdownCellsMode: ROUND on the numeric amount.
CellCommission(b, amount) ==
    IF Basis(b) = Historical
    THEN (amount * HistoricalBps + (Divisor * Hundredths) \div 2) \div (Divisor * Hundredths)
    ELSE snap[b].commission

IncomeBase(scope) == {i \in IncomeRows : Canonical(i) /\ IsOnline(i.booking) /\ i.venue \in scope}

Totals(incomes, refunds) ==
    LET commission(r) == CellCommission(r.booking, r.amount)
    IN  [gross |-> Rupiah(Sum(Amount, incomes)), refund |-> Rupiah(Sum(Amount, refunds)),
         commission |-> Sum(commission, incomes) - Sum(commission, refunds),
         bookings |-> Cardinality(incomes), refunded |-> Cardinality(refunds)]

\* A cell of the breakdown: the totals of a set of venues on the days s .. e.
\* A refund counts when an income of the same amount stands against it.
loadProjectionBreakdownCells(scope, s, e) ==
    LET base == IncomeBase(scope)
    IN  Totals({i \in base : InRange(i.at, s, e)},
               {r \in RefundRows : InRange(r.at, s, e)
                                   /\ \E i \in base : SameOwner(i, r) /\ i.amount = r.amount})

\* getProjectionBreakdown: one row per owner or venue, or None.
getProjectionBreakdown(groups, scope, s, e) ==
    IF loadProjectionEvents(scope, s, e) = None THEN None
    ELSE [g \in groups |-> loadProjectionBreakdownCells(g \cap scope, s, e)]

OnDay(d, S) == {x \in S : DayOf(x.at) = d}

\* Altered form: the periods are counted from the first requested day.
TrendPeriodsUnaligned(length, s, e) ==
    {d \in s .. e : (d - s) % length = 0}

\* The first days of the calendar weeks or months that touch s .. e.
TrendPeriods(length, s, e) ==
    {d \in (s - (s % length)) .. e : d % length = 0}

\* The days of a period that lie in s .. e; it ends with the calendar week or month.
PeriodDays(first, length, s, e) ==
    {d \in s .. e : first <= d /\ d <= first - (first % length) + length - 1}

DetermineGranularity(s, e) ==
    LET days == e - s + 1
    IN  IF days <= 31 THEN 1 ELSE IF days <= 180 THEN WeekDays ELSE MonthDays

\* buildContinuousBucketsAtWithOpex: the figures of each period of the trend.
buildContinuousBuckets(events, length, s, e) ==
    {LET days == PeriodDays(first, length, s, e)
         during(S) == {x \in S : DayOf(x.at) \in days}
     IN  [first |-> first, totals |-> Figures(during(events.incomes), during(events.refunds))]
     : first \in TrendPeriods(length, s, e)}

----------------------------------------------------------------------------
(* The reconciliation report of the days s .. e.                           *)

\* What an income should be: the snapshot's price, or the booking's.
SourceAmount(b) == IF snap[b] # None THEN snap[b].final ELSE Facts[b].price

OnlineIncomes(s, e) == {i \in IncomeBase(Venues) : InRange(i.at, s, e)}

PaidBookings(s, e) == {b \in Created : /\ book[b].status \in {"PAID", "COMPLETED"}
                                       /\ InRange(book[b].created, s, e)}
PaysCommission(b) == snap[b] # None /\ (snap[b].bps # 0 \/ snap[b].commission # 0)

When(code, S) == IF S = {} THEN {} ELSE {code}

\* loadReconciliationDataIssues, in three parts: rows that are wrong in
\* themselves, rows that disagree with their source, and rows without their
\* counterpart.  Each names the codes it reports.
LedgerIssues(s, e) ==
    UNION {When("DUPLICATE_INCOME", DuplicateIncome(s, e)),
           When("DUPLICATE_EVENT", {b \in Ids : Cardinality(Refunds(b)) > 1
                                                /\ \E r \in Refunds(b) : InRange(r.at, s, e)}),
           When("FRACTIONAL_LEDGER", Fractional(s, e)),
           When("MISSING_SNAPSHOT", MissingPostCutover(s, e)),
           When("POST_CUTOVER_LEGACY", LegacyPostCutover(s, e))}

SourceIssues(s, e) ==
    LET backed(r) == Canonical(r) /\ InRange(r.at, s, e) /\ snap[r.booking] # None
    IN  UNION {When("SNAPSHOT_MISMATCH", {r \in IncomeRows : backed(r) /\ r.amount # snap[r.booking].final * Hundredths}),
               When("SNAPSHOT_MISMATCH", {r \in OnlineIncomes(s, e) : backed(r) /\ snap[r.booking].channel # Online}),
               When("SOURCE_LEDGER_MISMATCH", {r \in OnlineIncomes(s, e) :
                                                 /\ snap[r.booking] = None /\ Whole(r.amount)
                                                 /\ r.amount # SourceAmount(r.booking) * Hundredths})}

\* Altered form: refunds of another amount are not looked for.
CoverageIssuesExactRefunds(s, e) ==
    UNION {When("PAID_WITHOUT_LEDGER", PaidWithoutLedger(Venues, s, e)),
           When("LEDGER_WITHOUT_BOOKING", LedgerWithoutBooking(Venues, s, e)),
           When("ORPHAN_REFUND", OrphanRefunds(s, e))}

CoverageIssues(s, e) ==
    UNION {When("PAID_WITHOUT_LEDGER", PaidWithoutLedger(Venues, s, e)),
           When("LEDGER_WITHOUT_BOOKING", LedgerWithoutBooking(Venues, s, e)),
           When("ORPHAN_REFUND", OrphanRefunds(s, e)),
           When("REFUND_MISMATCH", {r \in RefundRows : /\ InRange(r.at, s, e)
                                                       /\ \E i \in IncomeRows : SameOwner(i, r) /\ i.amount # r.amount}),
           When("OFFLINE_COMMISSION", {b \in PaidBookings(s, e) : ~IsOnline(b) /\ PaysCommission(b)})}

\* A check fails by a difference or an issue it knows, and is blocked when
\* the projection was withheld.
CheckStatus(withheld, differs, issues, codes) ==
    IF differs \/ issues \cap codes # {} THEN "FAIL" ELSE IF withheld THEN "BLOCKED" ELSE "PASS"

evaluateOnline(events, issues, s, e) ==
    LET source(r) == SourceAmount(r.booking)
        differs(d) == Rupiah(Sum(Amount, OnDay(d, OnlineIncomes(s, e)))) # Sum(source, OnDay(d, OnlineIncomes(s, e)))
    IN  CheckStatus(events = None, events # None /\ \E d \in s .. e : differs(d), issues,
                    {"DUPLICATE_INCOME", "FRACTIONAL_LEDGER", "SOURCE_LEDGER_MISMATCH",
                     "LEDGER_WITHOUT_BOOKING", "PAID_WITHOUT_LEDGER", "SNAPSHOT_MISMATCH"})

evaluateSnapshot(issues, s, e) ==
    LET own(b) == {r \in Incomes(b) : Canonical(r)}
        differs(b) == \/ cut # None /\ book[b].created >= cut /\ snap[b] = None
                      \/ snap[b] # None /\ ~\E r \in own(b) : own(b) = {r} /\ r.amount = snap[b].final * Hundredths
    IN  CheckStatus(FALSE, \E b \in PaidBookings(s, e) : IsOnline(b) /\ differs(b), issues,
                    {"MISSING_SNAPSHOT", "SNAPSHOT_MISMATCH", "PAID_WITHOUT_LEDGER"})

evaluateOffline(issues, s, e) ==
    CheckStatus(FALSE, \E b \in PaidBookings(s, e) : ~IsOnline(b) /\ PaysCommission(b),
                issues, {"OFFLINE_COMMISSION"})

evaluateRefund(events, issues) == CheckStatus(events = None, FALSE, issues, {"REFUND_MISMATCH", "ORPHAN_REFUND"})

evaluateDuplicates(issues) ==
    CheckStatus(FALSE, FALSE, issues, {"DUPLICATE_EVENT", "DUPLICATE_INCOME", "FRACTIONAL_LEDGER"})

loadReconciliationTrendTotals(d) == loadProjectionBreakdownCells(Venues, d, d)

\* Summary, breakdown (summed over its rows) and trend agree on every day.
evaluateRollups(events, issues, s, e) ==
    LET differs(d) ==
          LET summary == Figures(OnDay(d, events.incomes), OnDay(d, events.refunds))
              cells == {[venue |-> v, totals |-> loadProjectionBreakdownCells({v}, d, d)] : v \in Venues}
          IN  \/ summary # loadReconciliationTrendTotals(d)
              \/ \E f \in DOMAIN summary : summary[f] # Sum(LAMBDA c : c.totals[f], cells)
    IN  CheckStatus(events = None, events # None /\ \E d \in s .. e : differs(d), issues,
                    {"MISSING_SNAPSHOT", "SNAPSHOT_MISMATCH", "POST_CUTOVER_LEGACY", "DUPLICATE_INCOME",
                     "SOURCE_LEDGER_MISMATCH", "REFUND_MISMATCH", "PAID_WITHOUT_LEDGER",
                     "LEDGER_WITHOUT_BOOKING"})

\* LoadReconciliationSnapshot and Reconcile: the status of every check.
\* Issues found beforehand, or a range the projection refuses, withhold it.
Reconcile(s, e) ==
    LET found == LedgerIssues(s, e) \cup SourceIssues(s, e) \cup CoverageIssues(s, e)
        events == IF found # {} THEN None ELSE loadProjectionEvents(Venues, s, e)
        issues == IF found = {} /\ events = None THEN {"SNAPSHOT_MISMATCH"} ELSE found
    IN  [online |-> evaluateOnline(events, issues, s, e), snapshot |-> evaluateSnapshot(issues, s, e),
         offline |-> evaluateOffline(issues, s, e), refund |-> evaluateRefund(events, issues),
         duplicates |-> evaluateDuplicates(issues), rollups |-> evaluateRollups(events, issues, s, e)]

Clean(s, e) == LET report == Reconcile(s, e) IN \A c \in DOMAIN report : report[c] = "PASS"

----------------------------------------------------------------------------
(* The owner's own summary, over the venues a member of staff may see.     *)

\* Altered form: every expense counts as a refund.
GetFinanceSummaryAllExpenses(owner, scope) ==
    LET rows == {r \in ledger : r.owner = owner /\ r.venue \in scope}
        sum(type) == Sum(Amount, {r \in rows : r.type = type})
    IN  [income |-> sum("INCOME"), expense |-> sum("EXPENSE"),
         revenue |-> Sum(Amount, {r \in rows : r.type = "INCOME" /\ r.source = "BOOKING"}),
         refunds |-> sum("EXPENSE"), net |-> sum("INCOME") - sum("EXPENSE")]

GetFinanceSummary(owner, scope) ==
    LET rows == {r \in ledger : r.owner = owner /\ r.venue \in scope}
        sum(type, sources) == Sum(Amount, {r \in rows : r.type = type /\ r.source \in sources})
        all == {"BOOKING", "MANUAL", "REFUND"}
    IN  [income |-> sum("INCOME", all), expense |-> sum("EXPENSE", all),
         revenue |-> sum("INCOME", {"BOOKING"}), refunds |-> sum("EXPENSE", {"REFUND"}),
         net |-> sum("INCOME", all) - sum("EXPENSE", all)]

----------------------------------------------------------------------------
(* Properties.                                                             *)

BookStatuses == {"none", "CONFIRMED", "PAID", "COMPLETED", "CANCELLED"}

Snapshots == [source : {"POLICY", "LEGACY_NO_COMMISSION"}, channel : {Online, WalkIn},
              final : Nat, bps : Nat, commission : Nat]

Rows == [key : Ids \cup Nat, type : {"INCOME", "EXPENSE"}, source : {"BOOKING", "REFUND", "MANUAL"},
         booking : Ids \cup {None}, venue : Venues, owner : {OwnerOf[v] : v \in Venues},
         amount : Nat \ {0}, at : Time, edited : BOOLEAN]

Events == [booking : Ids, at : Time, venue : Venues, amount : Nat, commission : Nat,
           basis : {Historical, Snapshot}]

ASSUME NoneAssumption == None \notin Snapshots \cup [incomes : SUBSET Events, refunds : SUBSET Events]

\* Every variable has its type.
TypeOK ==
    /\ clock \in Time
    /\ book \in [Ids -> [status : BookStatuses, created : Time, via : {"none", "OWNER", "GATEWAY"}]]
    /\ snap \in [Ids -> Snapshots \cup {None}]
    /\ cut \in Time \cup {None}
    /\ pend \in [Ids -> Time \cup {None}]
    /\ ledger \subseteq Rows
    /\ \A r \in ledger : OwnerOf[r.venue] = r.owner
    /\ entries \in 0 .. MaxEntries

\* No transaction is under way.  A report reads committed rows, and every one
\* under way may abort, so these states have every content of the tables that
\* any state has, and the reports are compared in them.
AtRest == \A b \in Ids : pend[b] = None

\* What the reconciliation of a range should report: a booking the gateway
\* paid, which has no income row, an entry with a fraction of a rupiah, and a
\* refund an owner has moved or given another amount.
Faulty(s, e) ==
    \/ \E b \in Created : book[b].via = "GATEWAY" /\ InRange(book[b].created, s, e)
    \/ \E r \in ledger : InRange(r.at, s, e) /\ r.amount % Hundredths # 0
    \/ \E r \in ledger : /\ InRange(r.at, s, e) /\ r.edited /\ r.source = "REFUND" /\ r.type = "EXPENSE"
                         /\ r.amount # Facts[r.booking].price * Hundredths \/ r.venue # Facts[r.booking].venue

\* The reconciliation report of a range is clean exactly when nothing in it is
\* at fault: whatever the order of payments, refunds, cutover, backfill and the
\* owners' edits, summary, breakdown, trend, snapshots and ledger agree to the
\* rupiah on every day, and every fault in the range shows in some check.
ReconcileFindsFaults ==
    AtRest => \A s, e \in Days : ParseAndValidateDates(s, e) => (Clean(s, e) <=> ~Faulty(s, e))

\* The day is over, and so are the transactions that began in it.
Closed(d) == (d + 1) * PerDay <= clock /\ \A b \in Ids : pend[b] # None => pend[b] >= (d + 1) * PerDay

\* Once a day is over and the transactions that began in it have ended, no
\* later step (a cutover, the backfill of snapshots with another commission, a
\* refund, another owner's entry) changes what was projected for it, unless an
\* owner's edit of one of its rows does.
ClosedDayStable ==
    [][\A d \in Days : Closed(d) /\ {r \in ledger : DayOf(r.at) = d} \subseteq ledger' =>
          LET events == loadProjectionEvents(Venues, d, d)
          IN  events # None => loadProjectionEvents(Venues, d, d)' = events]_<<book, snap, cut, ledger>>

\* The views of a range that the service computes in Go and in SQL agree: the
\* trend, by day, week or month and from any day of the week, adds up to the
\* summary (no day is dropped or counted twice), and each row of the breakdown
\* by owner or venue holds what the summary holds for that owner or venue.
ReportsAgree ==
    AtRest => \A s, e \in Days :
        LET events == loadProjectionEvents(Venues, s, e)
            summary == aggregateProjection(Venues, events.incomes, events.refunds)
            owned(o) == {v \in Venues : OwnerOf[v] = o}
            byVenue == getProjectionBreakdown({{v} : v \in Venues}, Venues, s, e)
            byOwner == getProjectionBreakdown({owned(o) : o \in DOMAIN summary.topOwners}, Venues, s, e)
        IN  ParseAndValidateDates(s, e) /\ events # None =>
              /\ \A length \in {DetermineGranularity(s, e), WeekDays, MonthDays} :
                    LET trend == buildContinuousBuckets(events, length, s, e)
                    IN  \A f \in DOMAIN summary.total : summary.total[f] = Sum(LAMBDA p : p.totals[f], trend)
              /\ \A v \in Venues : byVenue[{v}] = summary.topVenues[v]
              /\ \A o \in DOMAIN summary.topOwners : byOwner[owned(o)] = summary.topOwners[o]

\* A refunded booking whose refund row is still an expense.
RefundKept(b) == book[b].status = "CANCELLED" => Refunds(b) # {}

\* When the report over all days is clean and no refund row was taken away,
\* the money in the books is the money of the bookings: the platform's net
\* and what it leaves the owners are those of the online bookings paid and not
\* refunded, and the owners' own summaries hold the same and the walk-ins.
BooksBalance ==
    LET all == <<0, DayOf(MaxClock)>>
        kept == {b \in Created : book[b].via = "OWNER" /\ book[b].status # "CANCELLED"}
        price(b) == Facts[b].price
        commission(b) == RoundedShare(Facts[b].price, IF Basis(b) = Snapshot THEN Rate ELSE HistoricalBps)
        online == {b \in kept : IsOnline(b)}
        summary == GetSummary(Venues, all[1], all[2])
        owners == {OwnerOf[v] : v \in Venues}
        books(o) == GetFinanceSummary(o, Venues)
    IN  AtRest /\ Clean(all[1], all[2]) /\ (\A b \in Ids : RefundKept(b)) =>
          /\ summary.net = Sum(price, online) /\ summary.complete
          /\ summary.ownerNet = Sum(LAMBDA b : price(b) - commission(b), online)
          /\ Sum(LAMBDA o : books(o).revenue - books(o).refunds, owners) = Sum(price, kept) * Hundredths

\* UpdateTransaction and DeleteTransaction touch manual entries only: a
\* refunded booking keeps its refund row as it was written.
RefundsStayBooked ==
    \A b \in Ids : book[b].status = "CANCELLED" =>
        \E r \in Refunds(b) : r.amount = Facts[b].price * Hundredths /\ r.venue = Facts[b].venue
=============================================================================
