------------------------ MODULE FinanceReportsProofs ------------------------
(***************************************************************************)
(* Proofs about FinanceReports for any number of bookings, venues, owners, *)
(* prices and entries, and any length of days, weeks and months.           *)
(*                                                                         *)
(* The inductive invariant ReportsInv says what a row of the ledger may    *)
(* look like by who wrote it (RowsInv), that the booking flow wrote each   *)
(* row once (OneRow), which rows and which instants the status of a        *)
(* booking comes with (BooksInv), and what a snapshot holds (SnapsInv).    *)
(*                                                                         *)
(* From it the reports follow.  The events of a range are its income and   *)
(* refund rows on the bookings' venues, or nothing when one of them cannot *)
(* be classified (LoadedIsView), so that the figures of events are sums    *)
(* over rows (FiguresOfRows), equal to the cells of the breakdown          *)
(* (CellsAre).  Figures add up over any grouping of the rows (FiguresAdd), *)
(* and the periods of a trend partition the days of its range (Periods):   *)
(* that gives ReportsAgree.  Without a fault in the range no check finds   *)
(* an issue and both sides of each comparison sum the same rows            *)
(* (NothingFound, SourcesAgree, DayAgrees), and every fault shows in some  *)
(* check (FaultShows): ReconcileFindsFaults.  In clean books the rows      *)
(* match the bookings one to one (CleanRows), so sums over rows are sums   *)
(* over bookings, and the refunded ones cancel (KeptSum): BooksBalance.    *)
(***************************************************************************)
EXTENDS FinanceReports, Money

\* A row by its source.  The owners edit refund rows, but not those of payments.
RowOf(r) ==
    CASE r.source = "BOOKING" -> r.booking \in Ids /\ r = BookingRow(r.booking, "INCOME", "BOOKING", r.at)
      [] r.source = "REFUND"  -> /\ r.booking \in Ids
                                 /\ r.owner = OwnerOf[Facts[r.booking].venue]
                                 /\ ~r.edited => r = BookingRow(r.booking, "EXPENSE", "REFUND", r.at)
      [] r.source = "MANUAL"  -> r.booking = None

\* The rows of the ledger are what the booking flow and the owners wrote.
RowsInv == \A r \in ledger : RowOf(r)

\* A booking has one income and one refund row at most.
OneRow == \A r, q \in ledger : r.source = q.source /\ r.booking = q.booking /\ r.source # "MANUAL" => r = q

\* How a booking was paid, by its status.
PaidBy(b) ==
    CASE book[b].status \in {"none", "CONFIRMED"}  -> book[b].via = "none"
      [] book[b].status \in {"PAID", "COMPLETED"}  -> book[b].via \in {"OWNER", "GATEWAY"}
      [] book[b].status = "CANCELLED"              -> book[b].via = "OWNER"

\* The rows of a booking follow its status, and only its payment or its refund
\* can be under way.
BooksInv ==
    \A b \in Ids :
        /\ PaidBy(b)
        /\ book[b].status = "CONFIRMED" \/ book[b].via = "GATEWAY" => IsOnline(b)
        /\ book[b].via = "OWNER" <=> \E r \in ledger : r.source = "BOOKING" /\ r.booking = b
        /\ (\E r \in ledger : r.source = "REFUND" /\ r.booking = b) => book[b].status = "CANCELLED"
        /\ pend[b] # None => \/ book[b].status = "CONFIRMED"
                             \/ book[b].status = "PAID" /\ book[b].via = "OWNER"

\* A snapshot is that of the policy in force or, for a booking from before the
\* cutover, the backfill's; a booking without one is from before the cutover.
SnapsInv ==
    /\ cut # None => cut <= clock
    /\ \A b \in Ids :
        /\ book[b].created <= clock
        /\ snap[b] # None => b \in Created
        /\ snap[b] # None /\ snap[b] # PolicySnapshot(b) =>
              snap[b] = LegacySnapshot(b) /\ cut # None /\ book[b].created < cut
        /\ b \in Created /\ snap[b] = None /\ cut # None => book[b].created < cut

ReportsInv == TypeOK /\ IsFiniteSet(ledger) /\ RowsInv /\ OneRow /\ BooksInv /\ SnapsInv

----------------------------------------------------------------------------
(***************************************************************************)
(* Types.                                                                  *)
(***************************************************************************)

LEMMA Parameters ==
    /\ MaxClock \in Nat /\ MaxEntries \in Nat
    /\ PerDay \in Nat \ {0} /\ WeekDays \in Nat \ {0} /\ MonthDays \in Nat \ {0}
    /\ Time \subseteq Nat /\ 0 \in Time
    /\ None \notin Ids /\ None \notin Nat
    /\ \A b \in Ids : /\ Facts[b].price \in Nat \ {0} /\ Facts[b].venue \in Venues
                       /\ Facts[b].channel \in {Online, WalkIn}
<1>1. MaxClock \in Nat /\ MaxEntries \in Nat
  BY ReportsAssumption
<1>2. PerDay \in Nat \ {0} /\ WeekDays \in Nat \ {0} /\ MonthDays \in Nat \ {0}
  BY ReportsAssumption
<1>3. None \notin Ids /\ None \notin Nat
  BY ReportsAssumption
<1>4. \A b \in Ids : /\ Facts[b].price \in Nat \ {0} /\ Facts[b].venue \in Venues
                     /\ Facts[b].channel \in {Online, WalkIn}
  BY ReportsAssumption
<1> QED
  BY <1>1, <1>2, <1>3, <1>4 DEF Time

\* What the calculator writes for a booking without adjustment.
LEMMA SnapshotFacts ==
    ASSUME NEW b \in Ids
    PROVE  LET bps == IF IsOnline(b) THEN Rate ELSE 0
           IN  /\ PolicySnapshot(b) = [source |-> "POLICY", channel |-> Facts[b].channel, final |-> Facts[b].price,
                                       bps |-> bps, commission |-> CommissionAmount(Facts[b].price, bps)]
               /\ PolicySnapshot(b) \in Snapshots /\ LegacySnapshot(b) \in Snapshots
               /\ PolicySnapshot(b) # None /\ LegacySnapshot(b) # None
               /\ PolicySnapshot(b) # LegacySnapshot(b)
               /\ bps \in 0 .. MaxBps /\ CommissionAmount(Facts[b].price, bps) \in Nat
<1> DEFINE p == [channel |-> Facts[b].channel, original |-> Facts[b].price, adjustment |-> 0, reason |-> FALSE]
           bps == IF IsOnline(b) THEN Rate ELSE 0
           commission == CommissionAmount(Facts[b].price, bps)
<1>1. Facts[b].price \in Nat \ {0} /\ Facts[b].channel \in {Online, WalkIn} /\ Rate \in 0 .. MaxBps
  BY ReportsAssumption
<1>2. bps \in 0 .. MaxBps /\ Online # WalkIn
  BY <1>1 DEF MaxBps, Online, WalkIn
<1>3. commission \in 0 .. Facts[b].price /\ commission \in Nat
  <2>1. CommissionAmount(Facts[b].price, bps) \in 0 .. Facts[b].price
    BY <1>1, <1>2, CommissionBounded
  <2> HIDE DEF bps
  <2> QED
    BY <2>1, <1>1
<1>4. /\ p.original + p.adjustment = Facts[b].price
      /\ (IF p.channel = WalkIn THEN 0 ELSE Rate) = bps
  BY <1>1, <1>2 DEF IsOnline
<1>5. CalculateBookingFees(p, Rate) = [final |-> Facts[b].price, bps |-> bps, commission |-> commission,
                                       net |-> Facts[b].price - commission]
  <2>1. p.adjustment = 0
    OBVIOUS
  <2> HIDE DEF p, bps
  <2> QED
    BY <1>1, <1>4, <2>1 DEF CalculateBookingFees
<1>6. PolicySnapshot(b) = [source |-> "POLICY", channel |-> Facts[b].channel, final |-> Facts[b].price,
                           bps |-> bps, commission |-> commission]
  <2> HIDE DEF bps, commission
  <2> QED
    BY <1>5 DEF PolicySnapshot
<1>7. PolicySnapshot(b) \in Snapshots /\ LegacySnapshot(b) \in Snapshots
  <2> HIDE DEF bps, commission
  <2>1. bps \in Nat
    BY <1>2 DEF MaxBps
  <2> QED
    BY <1>1, <1>3, <1>6, <2>1 DEF Snapshots, LegacySnapshot
<1>8. PolicySnapshot(b) # LegacySnapshot(b)
  <2> HIDE DEF bps, commission
  <2> QED
    BY <1>6 DEF LegacySnapshot
<1> QED
  BY <1>2, <1>3, <1>6, <1>7, <1>8, NoneAssumption

LEMMA BookingRowType ==
    ASSUME NEW b \in Ids, NEW at \in Time, NEW type \in {"INCOME", "EXPENSE"}, NEW source \in {"BOOKING", "REFUND"}
    PROVE  /\ BookingRow(b, type, source, at) \in Rows
           /\ LET r == BookingRow(b, type, source, at)
              IN  /\ OwnerOf[r.venue] = r.owner
                  /\ r.booking = b /\ r.at = at /\ r.type = type /\ r.source = source /\ ~r.edited
                  /\ r.venue = Facts[b].venue /\ r.amount = Facts[b].price * Hundredths
<1>1. Facts[b].price \in Nat \ {0} /\ Facts[b].venue \in Venues
  BY ReportsAssumption
<1>2. Facts[b].price * Hundredths \in Nat \ {0}
  BY <1>1 DEF Hundredths
<1> QED
  BY <1>1, <1>2 DEF BookingRow, Rows

LEMMA NewRowTypes ==
    ASSUME NEW x \in Inputs, entries \in Nat, clock \in Time
    PROVE  LET r == [key |-> entries + 1, type |-> x.type, source |-> "MANUAL", booking |-> None, venue |-> x.venue,
                     owner |-> OwnerOf[x.venue], amount |-> x.amount, at |-> clock, edited |-> FALSE]
           IN  r \in Rows /\ OwnerOf[r.venue] = r.owner
  BY ReportsAssumption DEF Rows

LEMMA EditedRowTypes ==
    ASSUME NEW x \in Inputs, NEW r \in Rows, OwnerOf[x.venue] = r.owner
    PROVE  LET q == [r EXCEPT !.type = x.type, !.venue = x.venue, !.amount = x.amount, !.edited = TRUE]
           IN  /\ q \in Rows /\ OwnerOf[q.venue] = q.owner
               /\ q.type = x.type /\ q.source = r.source /\ q.booking = r.booking /\ q.venue = x.venue
               /\ q.owner = r.owner /\ q.amount = x.amount /\ q.at = r.at /\ q.edited
  BY ReportsAssumption DEF Rows

LEMMA TypeInit == Init => TypeOK
  BY Parameters DEF Init, TypeOK, Time, NoRow, BookStatuses

LEMMA TypeStep == TypeOK /\ [Next]_vars => TypeOK'
<1> SUFFICES ASSUME TypeOK, [Next]_vars PROVE TypeOK'
  OBVIOUS
<1> USE DEF TypeOK
<1>1. CASE Tick
  BY <1>1, Parameters DEF Tick, Time
<1>2. CASE Cutover
  BY <1>2 DEF Cutover
<1>3. CASE OwnerStep
  <2>0. entries \in Nat /\ MaxEntries \in Nat
    BY Parameters
  <2>1. ASSUME NEW x \in Inputs, CreateTransaction(x) PROVE TypeOK'
    BY <2>0, <2>1, NewRowTypes DEF CreateTransaction
  <2>2. ASSUME NEW x \in Inputs, NEW r \in ledger, UpdateTransaction(r, x) PROVE TypeOK'
    <3> DEFINE q == [r EXCEPT !.type = x.type, !.venue = x.venue, !.amount = x.amount, !.edited = TRUE]
    <3>1. q \in Rows /\ OwnerOf[q.venue] = q.owner
      BY <2>2, EditedRowTypes DEF UpdateTransaction
    <3>2. ledger' = (ledger \ {r}) \cup {q}
      BY <2>2 DEF UpdateTransaction
    <3> HIDE DEF q
    <3> QED
      BY <2>0, <2>2, <3>1, <3>2 DEF UpdateTransaction
  <2>3. ASSUME NEW r \in ledger, DeleteTransaction(r) PROVE TypeOK'
    BY <2>0, <2>3 DEF DeleteTransaction
  <2> QED
    BY <1>3, <2>1, <2>2, <2>3 DEF OwnerStep
<1>4. ASSUME NEW b \in Ids,
             \/ BookOnline(b) \/ BookWalkIn(b) \/ BookLegacy(b) \/ Backfill(b)
             \/ BeginPayment(b) \/ MarkBookingPaid(b) \/ GatewayCapture(b)
             \/ CompleteBooking(b) \/ BeginRefund(b) \/ RefundBooking(b) \/ AbortTransaction(b)
      PROVE  TypeOK'
  <2>1. PolicySnapshot(b) \in Snapshots /\ LegacySnapshot(b) \in Snapshots
    BY SnapshotFacts
  <2>2. /\ book' \in [Ids -> [status : BookStatuses, created : Time, via : {"none", "OWNER", "GATEWAY"}]]
        /\ snap' \in [Ids -> Snapshots \cup {None}]
    <3>1. CASE BookOnline(b)
      BY <2>1, <3>1 DEF BookOnline, BookStatuses
    <3>2. CASE BookWalkIn(b)
      BY <2>1, <3>2 DEF BookWalkIn, BookStatuses
    <3>3. CASE BookLegacy(b)
      BY <3>3 DEF BookLegacy, BookStatuses
    <3>4. CASE MarkBookingPaid(b) \/ GatewayCapture(b) \/ CompleteBooking(b) \/ RefundBooking(b)
      BY <3>4 DEF MarkBookingPaid, GatewayCapture, CompleteBooking, RefundBooking, BookStatuses
    <3>5. CASE Backfill(b) \/ BeginPayment(b) \/ BeginRefund(b) \/ AbortTransaction(b)
      BY <2>1, <3>5 DEF Backfill, BeginPayment, BeginRefund, AbortTransaction
    <3> QED
      BY <1>4, <3>1, <3>2, <3>3, <3>4, <3>5
  <2>3. clock' \in Time /\ cut' \in Time \cup {None} /\ pend' \in [Ids -> Time \cup {None}] /\ entries' \in 0 .. MaxEntries
    BY <1>4 DEF BookOnline, BookWalkIn, BookLegacy, Backfill, BeginPayment, MarkBookingPaid, GatewayCapture,
                CompleteBooking, BeginRefund, RefundBooking, AbortTransaction
  <2>4. \/ ledger' = ledger
        \/ \E at \in Time : \/ ledger' = ledger \cup {BookingRow(b, "INCOME", "BOOKING", at)}
                            \/ ledger' = ledger \cup {BookingRow(b, "EXPENSE", "REFUND", at)}
    BY <1>4 DEF BookOnline, BookWalkIn, BookLegacy, Backfill, BeginPayment, MarkBookingPaid, GatewayCapture,
                CompleteBooking, BeginRefund, RefundBooking, AbortTransaction
  <2>5. ledger' \subseteq Rows /\ \A r \in ledger' : OwnerOf[r.venue] = r.owner
    BY <2>4, BookingRowType
  <2> QED
    BY <2>2, <2>3, <2>5
<1>5. CASE UNCHANGED vars
  BY <1>5 DEF vars
<1> QED
  BY <1>1, <1>2, <1>3, <1>4, <1>5 DEF Next, BookingStep

\* The tables keep their types (sanity for everything below).
THEOREM ReportsTypeCorrect == Spec => []TypeOK
  BY TypeInit, TypeStep, PTL DEF Spec

----------------------------------------------------------------------------
(***************************************************************************)
(* The inductive invariant.                                                *)
(***************************************************************************)

\* What an owner's entry, edit or deletion does: it never touches an income
\* row of a booking, and keeps the booking and the date of a refund row.
LEMMA OwnerMoves ==
    ASSUME ReportsInv, OwnerStep
    PROVE  /\ UNCHANGED <<clock, book, snap, cut, pend>>
           /\ IsFiniteSet(ledger)' /\ RowsInv' /\ OneRow'
           /\ \A r \in ledger \cup ledger' : r.source = "BOOKING" => (r \in ledger <=> r \in ledger')
           /\ \A r \in ledger' : r.source = "REFUND" =>
                 \E q \in ledger : q.source = "REFUND" /\ q.booking = r.booking /\ q.at = r.at
<1> USE DEF ReportsInv
<1>0. clock \in Time /\ entries \in Nat /\ ledger \subseteq Rows
  BY Parameters DEF TypeOK
<1>1. ASSUME NEW x \in Inputs, CreateTransaction(x)
      PROVE  /\ UNCHANGED <<clock, book, snap, cut, pend>>
             /\ IsFiniteSet(ledger)' /\ RowsInv' /\ OneRow'
             /\ \A r \in ledger \cup ledger' : r.source = "BOOKING" => (r \in ledger <=> r \in ledger')
             /\ \A r \in ledger' : r.source = "REFUND" =>
                   \E q \in ledger : q.source = "REFUND" /\ q.booking = r.booking /\ q.at = r.at
  <2> DEFINE new == [key |-> entries + 1, type |-> x.type, source |-> "MANUAL", booking |-> None, venue |-> x.venue,
                     owner |-> OwnerOf[x.venue], amount |-> x.amount, at |-> clock, edited |-> FALSE]
  <2>1. ledger' = ledger \cup {new} /\ UNCHANGED <<clock, book, snap, cut, pend>>
    BY <1>1 DEF CreateTransaction
  <2>2. new.source = "MANUAL" /\ new.booking = None
    OBVIOUS
  <2> HIDE DEF new
  <2>3. IsFiniteSet(ledger)'
    BY <2>1, FS_AddElement
  <2>4. RowsInv'
    BY <2>1, <2>2 DEF RowsInv, RowOf
  <2>5. OneRow'
    BY <2>1, <2>2 DEF OneRow
  <2> QED
    BY <2>1, <2>2, <2>3, <2>4, <2>5
<1>2. ASSUME NEW x \in Inputs, NEW r \in ledger, UpdateTransaction(r, x)
      PROVE  /\ UNCHANGED <<clock, book, snap, cut, pend>>
             /\ IsFiniteSet(ledger)' /\ RowsInv' /\ OneRow'
             /\ \A q \in ledger \cup ledger' : q.source = "BOOKING" => (q \in ledger <=> q \in ledger')
             /\ \A q \in ledger' : q.source = "REFUND" =>
                   \E p \in ledger : p.source = "REFUND" /\ p.booking = q.booking /\ p.at = q.at
  <2> DEFINE new == [r EXCEPT !.type = x.type, !.venue = x.venue, !.amount = x.amount, !.edited = TRUE]
  <2>1. /\ ledger' = (ledger \ {r}) \cup {new} /\ UNCHANGED <<clock, book, snap, cut, pend>>
        /\ r.source # "BOOKING" /\ OwnerOf[x.venue] = r.owner
    BY <1>2 DEF UpdateTransaction, Editable
  <2>2. /\ new.source = r.source /\ new.booking = r.booking /\ new.at = r.at /\ new.owner = r.owner
        /\ new.edited
    BY <1>0, <2>1, EditedRowTypes
  <2> HIDE DEF new
  <2>3. IsFiniteSet(ledger)'
    BY <2>1, FS_AddElement, FS_RemoveElement
  <2>4. RowsInv'
    <3>1. r.source \in {"REFUND", "MANUAL"} /\ RowOf(r)
      BY <1>0, <2>1 DEF Rows, RowsInv
    <3>2. RowOf(new)
      <4>1. CASE r.source = "REFUND"
        BY <2>2, <3>1, <4>1 DEF RowOf
      <4>2. CASE r.source = "MANUAL"
        BY <2>2, <3>1, <4>2 DEF RowOf
      <4> QED
        BY <3>1, <4>1, <4>2
    <3> QED
      BY <2>1, <3>2 DEF RowsInv, RowOf
  <2>5. OneRow'
    BY <2>1, <2>2 DEF OneRow
  <2> QED
    BY <2>1, <2>2, <2>3, <2>4, <2>5
<1>3. ASSUME NEW r \in ledger, DeleteTransaction(r)
      PROVE  /\ UNCHANGED <<clock, book, snap, cut, pend>>
             /\ IsFiniteSet(ledger)' /\ RowsInv' /\ OneRow'
             /\ \A q \in ledger \cup ledger' : q.source = "BOOKING" => (q \in ledger <=> q \in ledger')
             /\ \A q \in ledger' : q.source = "REFUND" =>
                   \E p \in ledger : p.source = "REFUND" /\ p.booking = q.booking /\ p.at = q.at
  <2>1. ledger' = ledger \ {r} /\ r.source # "BOOKING" /\ UNCHANGED <<clock, book, snap, cut, pend>>
    BY <1>3 DEF DeleteTransaction, Editable
  <2>2. IsFiniteSet(ledger)'
    BY <2>1, FS_RemoveElement
  <2>3. RowsInv' /\ OneRow'
    BY <2>1 DEF RowsInv, RowOf, OneRow
  <2> QED
    BY <2>1, <2>2, <2>3
<1> QED
  BY <1>1, <1>2, <1>3 DEF OwnerStep

\* What a step of the booking flow adds to the ledger.
Adds(b, type, source, at) == ledger' = ledger \cup {BookingRow(b, type, source, at)}

HasIncome(b) == \E r \in ledger : r.source = "BOOKING" /\ r.booking = b
HasRefund(b) == \E r \in ledger : r.source = "REFUND" /\ r.booking = b

LEMMA AddedRow ==
    ASSUME ReportsInv, NEW b \in Ids, NEW type, NEW source, NEW at \in Time,
           \/ type = "INCOME" /\ source = "BOOKING" /\ ~HasIncome(b)
           \/ type = "EXPENSE" /\ source = "REFUND" /\ ~HasRefund(b),
           Adds(b, type, source, at)
    PROVE  /\ IsFiniteSet(ledger)' /\ RowsInv' /\ OneRow'
           /\ \A c \in Ids : /\ HasIncome(c)' <=> HasIncome(c) \/ (c = b /\ source = "BOOKING")
                             /\ HasRefund(c)' <=> HasRefund(c) \/ (c = b /\ source = "REFUND")
<1> DEFINE new == BookingRow(b, type, source, at)
<1>1. ledger' = ledger \cup {new}
  BY DEF Adds
<1>2. /\ new.booking = b /\ new.at = at /\ new.type = type /\ new.source = source /\ ~new.edited
      /\ new.owner = OwnerOf[Facts[b].venue]
  BY DEF BookingRow
<1>3. RowOf(new)
  BY <1>2 DEF RowOf
<1> HIDE DEF new
<1>4. IsFiniteSet(ledger)'
  BY <1>1, FS_AddElement DEF ReportsInv
<1>5. RowsInv'
  BY <1>1, <1>3 DEF ReportsInv, RowsInv, RowOf
<1>6. OneRow'
  BY <1>1, <1>2 DEF ReportsInv, OneRow, HasIncome, HasRefund
<1>7. \A c \in Ids : /\ HasIncome(c)' <=> HasIncome(c) \/ (c = b /\ source = "BOOKING")
                     /\ HasRefund(c)' <=> HasRefund(c) \/ (c = b /\ source = "REFUND")
  BY <1>1, <1>2 DEF HasIncome, HasRefund
<1> QED
  BY <1>4, <1>5, <1>6, <1>7

\* The incomes and refunds that the code looks for are the rows of these kinds.
LEMMA IncomesAre ==
    ASSUME RowsInv, NEW b \in Ids
    PROVE  /\ Incomes(b) # {} <=> HasIncome(b)
           /\ Refunds(b) # {} => HasRefund(b)
  BY DEF RowsInv, RowOf, BookingRow, Incomes, Refunds, HasIncome, HasRefund

\* The part of BooksInv about one booking.
BookFollows(b) ==
    /\ PaidBy(b)
    /\ book[b].status = "CONFIRMED" \/ book[b].via = "GATEWAY" => IsOnline(b)
    /\ book[b].via = "OWNER" <=> HasIncome(b)
    /\ HasRefund(b) => book[b].status = "CANCELLED"
    /\ pend[b] # None => \/ book[b].status = "CONFIRMED"
                         \/ book[b].status = "PAID" /\ book[b].via = "OWNER"

LEMMA BooksFollow == BooksInv <=> \A b \in Ids : BookFollows(b)
  BY DEF BooksInv, BookFollows, HasIncome, HasRefund

LEMMA ReportsInit == Init => ReportsInv
<1> SUFFICES ASSUME Init PROVE ReportsInv
  OBVIOUS
<1>1. TypeOK /\ IsFiniteSet(ledger) /\ RowsInv /\ OneRow
  BY TypeInit, FS_EmptySet DEF Init, RowsInv, OneRow
<1>2. ASSUME NEW b \in Ids
      PROVE  book[b] = NoRow /\ snap[b] = None /\ pend[b] = None
  BY DEF Init
<1>3. BooksInv
  BY <1>2 DEF Init, BooksInv, PaidBy, NoRow
<1>4. SnapsInv
  BY <1>2, Parameters DEF Init, SnapsInv, NoRow, Created
<1> QED
  BY <1>1, <1>3, <1>4 DEF ReportsInv

\* What a booking's step does to its own row; the others are left alone.
LEMMA BookingMoves ==
    ASSUME ReportsInv, NEW b \in Ids,
           \/ BookOnline(b) \/ BookWalkIn(b) \/ BookLegacy(b) \/ Backfill(b)
           \/ BeginPayment(b) \/ MarkBookingPaid(b) \/ GatewayCapture(b)
           \/ CompleteBooking(b) \/ BeginRefund(b) \/ RefundBooking(b) \/ AbortTransaction(b)
    PROVE  /\ IsFiniteSet(ledger)' /\ RowsInv' /\ OneRow' /\ BookFollows(b)'
           /\ ledger \subseteq ledger'
           /\ \A c \in Ids \ {b} : /\ HasIncome(c)' <=> HasIncome(c)
                                   /\ HasRefund(c)' <=> HasRefund(c)
                                   /\ book'[c] = book[c] /\ pend'[c] = pend[c] /\ snap'[c] = snap[c]
           /\ \A r \in ledger' \ ledger : r.at = clock \/ (pend[b] # None /\ r.at = pend[b])
<1>1. /\ BookFollows(b) /\ RowsInv /\ OneRow /\ IsFiniteSet(ledger) /\ clock \in Time
      /\ DOMAIN book = Ids /\ DOMAIN pend = Ids /\ DOMAIN snap = Ids
      /\ book[b].status \in BookStatuses /\ book[b].via \in {"none", "OWNER", "GATEWAY"}
      /\ pend[b] \in Time \cup {None}
      /\ DOMAIN book[b] = {"status", "created", "via"}
  BY BooksFollow DEF ReportsInv, TypeOK
<1>2. ASSUME ledger' = ledger PROVE /\ IsFiniteSet(ledger)' /\ RowsInv' /\ OneRow'
                                    /\ \A c \in Ids : /\ HasIncome(c)' <=> HasIncome(c)
                                                      /\ HasRefund(c)' <=> HasRefund(c)
  BY <1>1, <1>2 DEF RowsInv, RowOf, OneRow, HasIncome, HasRefund
<1>3. CASE BookOnline(b) \/ Backfill(b) \/ BeginPayment(b) \/ GatewayCapture(b) \/ CompleteBooking(b)
           \/ BeginRefund(b) \/ AbortTransaction(b) \/ (BookLegacy(b) /\ IsOnline(b))
  <2>1. ledger' = ledger
    BY <1>3 DEF BookOnline, Backfill, BeginPayment, GatewayCapture, CompleteBooking, BeginRefund,
                AbortTransaction, BookLegacy
  <2>2. \A c \in Ids \ {b} : book'[c] = book[c] /\ pend'[c] = pend[c] /\ snap'[c] = snap[c]
    BY <1>1, <1>3 DEF BookOnline, Backfill, BeginPayment, GatewayCapture, CompleteBooking, BeginRefund,
                AbortTransaction, BookLegacy
  <2>3. BookFollows(b)'
    <3>1. (HasIncome(b)' <=> HasIncome(b)) /\ (HasRefund(b)' <=> HasRefund(b))
      BY <1>2, <2>1
    <3>2. CASE BookOnline(b) \/ (BookLegacy(b) /\ IsOnline(b))
      <4>1. book[b].status = "none" /\ IsOnline(b) /\ pend'[b] = pend[b]
            /\ book'[b] = [status |-> "CONFIRMED", created |-> clock, via |-> "none"]
        BY <1>1, <3>2 DEF BookOnline, BookLegacy
      <4> QED
        BY <1>1, <3>1, <4>1 DEF BookFollows, PaidBy, IsOnline
    <3>3. CASE GatewayCapture(b) \/ CompleteBooking(b)
      <4>1. /\ pend[b] = None /\ pend'[b] = None
            /\ \/ /\ book[b].status = "CONFIRMED" /\ book'[b].status = "PAID" /\ book'[b].via = "GATEWAY"
                  /\ IsOnline(b)
               \/ /\ book[b].status = "PAID" /\ book'[b].status = "COMPLETED" /\ book'[b].via = book[b].via
        BY <1>1, <3>3 DEF GatewayCapture, CompleteBooking
      <4> QED
        BY <1>1, <3>1, <4>1 DEF BookFollows, PaidBy, IsOnline
    <3>4. CASE Backfill(b) \/ BeginPayment(b) \/ BeginRefund(b) \/ AbortTransaction(b)
      <4>1. /\ book' = book
            /\ \/ pend'[b] \in {pend[b], None}
               \/ book[b].status = "CONFIRMED"
               \/ book[b].status = "PAID" /\ HasIncome(b)
        BY <1>1, <3>4, IncomesAre DEF Backfill, BeginPayment, BeginRefund, AbortTransaction
      <4> QED
        BY <1>1, <3>1, <4>1 DEF BookFollows, PaidBy, IsOnline
    <3> QED
      BY <1>3, <3>2, <3>3, <3>4
  <2> QED
    BY <1>2, <2>1, <2>2, <2>3
<1>4. CASE BookWalkIn(b) \/ (BookLegacy(b) /\ ~IsOnline(b))
  <2>1. /\ book[b].status = "none" /\ ~IsOnline(b)
        /\ book' = [book EXCEPT ![b] = [status |-> "PAID", created |-> clock, via |-> "OWNER"]]
        /\ Adds(b, "INCOME", "BOOKING", clock) /\ pend' = pend
        /\ \A c \in Ids \ {b} : snap'[c] = snap[c]
    BY <1>1, <1>4 DEF BookWalkIn, BookLegacy, Adds
  <2>2. ~HasIncome(b) /\ ~HasRefund(b)
    BY <1>1, <2>1 DEF BookFollows, PaidBy
  <2>3. /\ IsFiniteSet(ledger)' /\ RowsInv' /\ OneRow'
        /\ \A c \in Ids : /\ HasIncome(c)' <=> HasIncome(c) \/ c = b
                          /\ HasRefund(c)' <=> HasRefund(c)
    BY <1>1, <2>1, <2>2, AddedRow
  <2>4. BookFollows(b)'
    <3>1. book'[b].status = "PAID" /\ book'[b].via = "OWNER" /\ HasIncome(b)' /\ ~HasRefund(b)'
      BY <1>1, <2>1, <2>2, <2>3
    <3> QED
      BY <1>1, <2>1, <3>1 DEF BookFollows, PaidBy, IsOnline
  <2>5. ledger \subseteq ledger' /\ \A r \in ledger' \ ledger : r.at = clock
    BY <2>1 DEF Adds, BookingRow
  <2>6. \A c \in Ids \ {b} : book'[c] = book[c] /\ pend'[c] = pend[c]
    BY <1>1, <2>1
  <2> QED
    BY <2>1, <2>3, <2>4, <2>5, <2>6
<1>5. CASE MarkBookingPaid(b)
  <2>1. /\ book[b].status = "CONFIRMED" /\ pend[b] \in Time
        /\ book' = [book EXCEPT ![b].status = "PAID", ![b].via = "OWNER"]
        /\ pend' = [pend EXCEPT ![b] = None] /\ snap' = snap
    BY <1>1, <1>5 DEF MarkBookingPaid
  <2>2. ~HasIncome(b) /\ ~HasRefund(b) /\ Incomes(b) = {}
    BY <1>1, <2>1, IncomesAre DEF BookFollows, PaidBy
  <2>3. Adds(b, "INCOME", "BOOKING", pend[b])
    BY <1>5, <2>2 DEF MarkBookingPaid, Adds
  <2>4. /\ IsFiniteSet(ledger)' /\ RowsInv' /\ OneRow'
        /\ \A c \in Ids : /\ HasIncome(c)' <=> HasIncome(c) \/ c = b
                          /\ HasRefund(c)' <=> HasRefund(c)
    BY <1>1, <2>1, <2>2, <2>3, AddedRow
  <2>5. BookFollows(b)'
    <3>1. /\ book'[b].status = "PAID" /\ book'[b].via = "OWNER" /\ HasIncome(b)' /\ ~HasRefund(b)'
          /\ pend'[b] = None
      BY <1>1, <2>1, <2>2, <2>4
    <3> QED
      BY <1>1, <2>1, <3>1 DEF BookFollows, PaidBy, IsOnline
  <2>6. ledger \subseteq ledger' /\ \A r \in ledger' \ ledger : r.at = pend[b]
    BY <2>3 DEF Adds, BookingRow
  <2>7. \A c \in Ids \ {b} : book'[c] = book[c] /\ pend'[c] = pend[c] /\ snap'[c] = snap[c]
    BY <1>1, <2>1
  <2>8. pend[b] # None
    BY <1>5 DEF MarkBookingPaid
  <2> QED
    BY <2>4, <2>5, <2>6, <2>7, <2>8
<1>6. CASE RefundBooking(b)
  <2>1. /\ book[b].status = "PAID" /\ pend[b] \in Time
        /\ book' = [book EXCEPT ![b].status = "CANCELLED"]
        /\ pend' = [pend EXCEPT ![b] = None] /\ snap' = snap
        /\ Adds(b, "EXPENSE", "REFUND", pend[b])
    BY <1>1, <1>6 DEF RefundBooking, Adds
  <2>2. HasIncome(b) /\ ~HasRefund(b) /\ book[b].via = "OWNER"
    BY <1>1, <2>1, Parameters DEF BookFollows
  <2>3. /\ IsFiniteSet(ledger)' /\ RowsInv' /\ OneRow'
        /\ \A c \in Ids : /\ HasIncome(c)' <=> HasIncome(c)
                          /\ HasRefund(c)' <=> HasRefund(c) \/ c = b
    BY <1>1, <2>1, <2>2, AddedRow
  <2>4. BookFollows(b)'
    <3>1. /\ book'[b].status = "CANCELLED" /\ book'[b].via = "OWNER" /\ HasIncome(b)'
          /\ pend'[b] = None
      BY <1>1, <2>1, <2>2, <2>3
    <3> QED
      BY <1>1, <2>1, <3>1 DEF BookFollows, PaidBy, IsOnline
  <2>5. ledger \subseteq ledger' /\ \A r \in ledger' \ ledger : r.at = pend[b]
    BY <2>1 DEF Adds, BookingRow
  <2>6. \A c \in Ids \ {b} : book'[c] = book[c] /\ pend'[c] = pend[c] /\ snap'[c] = snap[c]
    BY <1>1, <2>1
  <2>7. pend[b] # None
    BY <1>6 DEF RefundBooking
  <2> QED
    BY <2>3, <2>4, <2>5, <2>6, <2>7
<1> QED
  BY <1>3, <1>4, <1>5, <1>6

LEMMA SnapsStep == ReportsInv /\ [Next]_vars => SnapsInv'
<1> SUFFICES ASSUME ReportsInv, [Next]_vars PROVE SnapsInv'
  OBVIOUS
<1>1. /\ SnapsInv /\ clock \in Time /\ Time \subseteq Nat /\ cut \in Time \cup {None}
      /\ DOMAIN book = Ids /\ DOMAIN snap = Ids /\ \A b \in Ids : book[b].created \in Time
      /\ None \notin Nat
  BY Parameters DEF ReportsInv, TypeOK
<1>2. \A b \in Ids : PolicySnapshot(b) # None /\ LegacySnapshot(b) # None
  BY SnapshotFacts
<1>3. CASE Tick
  <2>1. UNCHANGED <<book, snap, cut>> /\ clock' = clock + 1
    BY <1>3 DEF Tick
  <2>2. \A t \in Time : t <= clock => t <= clock'
    BY <1>1, <2>1
  <2>3. cut # None => cut \in Time
    BY <1>1
  <2> QED
    BY <1>1, <2>1, <2>2, <2>3 DEF SnapsInv, Created
<1>4. CASE Cutover
  BY <1>1, <1>4 DEF Cutover, SnapsInv, Created, PolicySnapshot, LegacySnapshot
<1>5. CASE OwnerStep
  <2>1. UNCHANGED <<clock, book, snap, cut, pend>>
    BY <1>5, OwnerMoves
  <2> QED
    BY <1>1, <2>1 DEF SnapsInv, Created, PolicySnapshot, LegacySnapshot
<1>6. CASE BookingStep
  <2>1. PICK b \in Ids : \/ BookOnline(b) \/ BookWalkIn(b) \/ BookLegacy(b) \/ Backfill(b)
                         \/ BeginPayment(b) \/ MarkBookingPaid(b) \/ GatewayCapture(b)
                         \/ CompleteBooking(b) \/ BeginRefund(b) \/ RefundBooking(b) \/ AbortTransaction(b)
    BY <1>6 DEF BookingStep
  <2>2. clock' = clock /\ cut' = cut
    BY <2>1 DEF BookOnline, BookWalkIn, BookLegacy, Backfill, BeginPayment, MarkBookingPaid, GatewayCapture,
                CompleteBooking, BeginRefund, RefundBooking, AbortTransaction
  <2>3. /\ \A c \in Ids \ {b} : book'[c] = book[c] /\ snap'[c] = snap[c]
        /\ \/ book'[b].status # "none" /\ book'[b].created = book[b].created /\ book[b].status # "none"
              /\ snap'[b] = snap[b]
           \/ book'[b] = book[b] /\ snap'[b] = snap[b]
           \/ book'[b].status # "none" /\ book'[b].created = clock /\ snap'[b] = PolicySnapshot(b)
           \/ book[b].status = "none" /\ book'[b].status # "none" /\ book'[b].created = clock /\ snap'[b] = snap[b] /\ cut = None
           \/ book'[b] = book[b] /\ snap'[b] = LegacySnapshot(b) /\ b \in Created /\ cut # None /\ book[b].created < cut
    <3>1. \A c \in Ids \ {b} : book'[c] = book[c] /\ snap'[c] = snap[c]
      BY <2>1, BookingMoves
    <3>2. CASE BookOnline(b) \/ BookWalkIn(b)
      BY <1>1, <3>1, <3>2 DEF BookOnline, BookWalkIn
    <3>3. CASE BookLegacy(b)
      BY <1>1, <3>1, <3>3 DEF BookLegacy
    <3>4. CASE Backfill(b)
      BY <1>1, <3>1, <3>4 DEF Backfill
    <3>5. CASE BeginPayment(b) \/ BeginRefund(b) \/ AbortTransaction(b)
      BY <1>1, <3>1, <3>5 DEF BeginPayment, BeginRefund, AbortTransaction
    <3>6. CASE MarkBookingPaid(b) \/ GatewayCapture(b) \/ CompleteBooking(b) \/ RefundBooking(b)
      <4>1. book[b] \in [status : BookStatuses, created : Time, via : {"none", "OWNER", "GATEWAY"}]
        BY DEF ReportsInv, TypeOK
      <4> QED
        BY <1>1, <3>1, <3>6, <4>1 DEF MarkBookingPaid, GatewayCapture, CompleteBooking, RefundBooking
    <3> QED
      BY <2>1, <3>2, <3>3, <3>4, <3>5, <3>6
  <2>4. ASSUME NEW c \in Ids
        PROVE  /\ book'[c].created <= clock'
               /\ snap'[c] # None => c \in Created'
               /\ snap'[c] # None /\ snap'[c] # PolicySnapshot(c) =>
                     snap'[c] = LegacySnapshot(c) /\ cut' # None /\ book'[c].created < cut'
               /\ c \in Created' /\ snap'[c] = None /\ cut' # None => book'[c].created < cut'
    <3>1. /\ book[c].created <= clock
          /\ snap[c] # None => c \in Created
          /\ snap[c] # None /\ snap[c] # PolicySnapshot(c) =>
                snap[c] = LegacySnapshot(c) /\ cut # None /\ book[c].created < cut
          /\ c \in Created /\ snap[c] = None /\ cut # None => book[c].created < cut
      BY <1>1 DEF SnapsInv
    <3>2. (c \in Created <=> book[c].status # "none") /\ (c \in Created' <=> book'[c].status # "none")
      BY DEF Created
    <3>3. clock <= clock
      BY <1>1
    <3>4. CASE c # b
      BY <2>2, <2>3, <3>1, <3>2, <3>4
    <3>5. CASE c = b
      BY <1>2, <2>2, <2>3, <3>1, <3>2, <3>3, <3>5
    <3> QED
      BY <3>4, <3>5
  <2> QED
    BY <1>1, <2>2, <2>4 DEF SnapsInv, PolicySnapshot, LegacySnapshot
<1>7. CASE UNCHANGED vars
  BY <1>1, <1>7 DEF vars, SnapsInv, Created, PolicySnapshot, LegacySnapshot
<1> QED
  BY <1>3, <1>4, <1>5, <1>6, <1>7 DEF Next

LEMMA ReportsStep == ReportsInv /\ [Next]_vars => ReportsInv'
<1> SUFFICES ASSUME ReportsInv, [Next]_vars PROVE ReportsInv'
  OBVIOUS
<1>1. TypeOK'
  BY TypeStep DEF ReportsInv
<1>2. SnapsInv'
  BY SnapsStep
<1>3. \A b \in Ids : BookFollows(b)
  BY BooksFollow DEF ReportsInv
<1>4. CASE UNCHANGED <<book, pend, ledger>>
  <2>1. IsFiniteSet(ledger)' /\ RowsInv' /\ OneRow'
    BY <1>4 DEF ReportsInv, RowsInv, RowOf, OneRow
  <2>2. BooksInv'
    BY <1>4 DEF ReportsInv, BooksInv, PaidBy, IsOnline
  <2> QED
    BY <1>1, <1>2, <2>1, <2>2 DEF ReportsInv
<1>5. CASE Tick \/ Cutover \/ UNCHANGED vars
  BY <1>4, <1>5 DEF Tick, Cutover, vars
<1>6. CASE OwnerStep
  <2>1. /\ UNCHANGED <<book, pend>> /\ IsFiniteSet(ledger)' /\ RowsInv' /\ OneRow'
        /\ \A r \in ledger \cup ledger' : r.source = "BOOKING" => (r \in ledger <=> r \in ledger')
        /\ \A r \in ledger' : r.source = "REFUND" => \E q \in ledger : q.source = "REFUND" /\ q.booking = r.booking
    BY <1>6, OwnerMoves
  <2>2. ASSUME NEW b \in Ids PROVE BookFollows(b)'
    <3>1. (HasIncome(b)' <=> HasIncome(b)) /\ (HasRefund(b)' => HasRefund(b))
      BY <2>1 DEF HasIncome, HasRefund
    <3>2. BookFollows(b)
      BY <1>3
    <3> QED
      BY <2>1, <3>1, <3>2 DEF BookFollows, PaidBy, IsOnline
  <2>3. BooksInv'
    BY <2>2 DEF BooksInv, BookFollows, HasIncome, HasRefund
  <2> QED
    BY <1>1, <1>2, <2>1, <2>3 DEF ReportsInv
<1>7. CASE BookingStep
  <2>1. PICK b \in Ids : \/ BookOnline(b) \/ BookWalkIn(b) \/ BookLegacy(b) \/ Backfill(b)
                         \/ BeginPayment(b) \/ MarkBookingPaid(b) \/ GatewayCapture(b)
                         \/ CompleteBooking(b) \/ BeginRefund(b) \/ RefundBooking(b) \/ AbortTransaction(b)
    BY <1>7 DEF BookingStep
  <2>2. /\ IsFiniteSet(ledger)' /\ RowsInv' /\ OneRow' /\ BookFollows(b)'
        /\ \A c \in Ids \ {b} : /\ HasIncome(c)' <=> HasIncome(c)
                                /\ HasRefund(c)' <=> HasRefund(c)
                                /\ book'[c] = book[c] /\ pend'[c] = pend[c]
    BY <2>1, BookingMoves
  <2>3. ASSUME NEW c \in Ids PROVE BookFollows(c)'
    BY <1>3, <2>2 DEF BookFollows, PaidBy, IsOnline
  <2>4. BooksInv'
    BY <2>3 DEF BooksInv, BookFollows, HasIncome, HasRefund
  <2> QED
    BY <1>1, <1>2, <2>2, <2>4 DEF ReportsInv
<1> QED
  BY <1>5, <1>6, <1>7 DEF Next

LEMMA ReportsInvariance == Spec => []ReportsInv
  BY ReportsInit, ReportsStep, PTL DEF Spec

----------------------------------------------------------------------------
(***************************************************************************)
(* What the invariant says about the rows that the reports read.           *)
(***************************************************************************)

LEMMA DayAfter ==
    ASSUME NEW d \in Nat, NEW t \in Nat, (d + 1) * PerDay <= t
    PROVE  DayOf(t) # d
<1>1. PerDay \in Nat \ {0}
  BY Parameters
<1> DEFINE q == t \div PerDay
<1>2. q \in Nat /\ t < PerDay * q + PerDay
  BY <1>1, Z3
<1> SUFFICES ASSUME q = d PROVE FALSE
  BY DEF DayOf
<1>3. (d + 1) * PerDay = PerDay * d + PerDay
  BY <1>1
<1> QED
  BY <1>1, <1>2, <1>3

\* The income row of a booking is what its payment wrote.
LEMMA IncomeFacts ==
    ASSUME ReportsInv, NEW r \in IncomeRows
    PROVE  /\ r \in ledger /\ r.source = "BOOKING" /\ r.booking \in Ids /\ r.booking # None /\ r.booking \in Created
           /\ r.venue = Facts[r.booking].venue /\ r.owner = OwnerOf[r.venue]
           /\ r.amount = Facts[r.booking].price * Hundredths /\ r.at \in Time /\ ~r.edited
           /\ Canonical(r) /\ r.venue \in Venues
           /\ book[r.booking].via = "OWNER"
           /\ Incomes(r.booking) = {r}
           /\ \A q \in IncomeRows : q.booking = r.booking => q = r
<1>1. r \in ledger /\ r \in Rows /\ r.source = "BOOKING" /\ r.type = "INCOME" /\ r.at \in Time
  BY DEF IncomeRows, ReportsInv, TypeOK, Rows
<1>2. r.booking \in Ids /\ r = BookingRow(r.booking, "INCOME", "BOOKING", r.at)
  BY <1>1 DEF ReportsInv, RowsInv, RowOf
<1>3. /\ r.venue = Facts[r.booking].venue /\ r.owner = OwnerOf[r.venue]
      /\ r.amount = Facts[r.booking].price * Hundredths /\ ~r.edited
  BY <1>2, <1>1, BookingRowType
<1>4. r.booking # None /\ r.venue \in Venues
  BY <1>2, <1>3, Parameters
<1>5. \A q \in IncomeRows : q.booking = r.booking => q = r
  BY <1>1 DEF ReportsInv, OneRow, IncomeRows
<1>6. Incomes(r.booking) = {r}
  BY <1>1, <1>5 DEF Incomes, IncomeRows
<1>7. book[r.booking].via = "OWNER"
  BY <1>1, <1>2, BooksFollow DEF ReportsInv, BookFollows, HasIncome
<1>8. book[r.booking].status # "none"
  BY <1>2, <1>7, BooksFollow DEF ReportsInv, BookFollows, PaidBy
<1> QED
  BY <1>1, <1>2, <1>3, <1>4, <1>5, <1>6, <1>7, <1>8 DEF Canonical, Created

\* A refund row belongs to a cancelled booking that has its income row.
LEMMA RefundFacts ==
    ASSUME ReportsInv, NEW r \in RefundRows
    PROVE  /\ r \in ledger /\ r.source = "REFUND" /\ r.booking \in Ids /\ r.booking # None /\ r.booking \in Created
           /\ r.at \in Time /\ r.venue \in Venues /\ r.amount \in Nat \ {0}
           /\ r.owner = OwnerOf[r.venue] /\ r.owner = OwnerOf[Facts[r.booking].venue]
           /\ ~r.edited => r.venue = Facts[r.booking].venue /\ r.amount = Facts[r.booking].price * Hundredths
           /\ book[r.booking].status = "CANCELLED" /\ book[r.booking].via = "OWNER"
           /\ \E i \in IncomeRows : i.booking = r.booking
           /\ Refunds(r.booking) = {r}
           /\ \A q \in RefundRows : q.booking = r.booking => q = r
<1>1. r \in ledger /\ r \in Rows /\ r.source = "REFUND" /\ r.type = "EXPENSE" /\ r.at \in Time
      /\ r.venue \in Venues /\ r.amount \in Nat \ {0} /\ r.owner = OwnerOf[r.venue]
  BY DEF RefundRows, ReportsInv, TypeOK, Rows
<1>2. /\ r.booking \in Ids /\ r.owner = OwnerOf[Facts[r.booking].venue]
      /\ ~r.edited => r = BookingRow(r.booking, "EXPENSE", "REFUND", r.at)
  BY <1>1 DEF ReportsInv, RowsInv, RowOf
<1>3. ~r.edited => r.venue = Facts[r.booking].venue /\ r.amount = Facts[r.booking].price * Hundredths
  BY <1>1, <1>2, BookingRowType
<1>4. r.booking # None
  BY <1>2, Parameters
<1>5. \A q \in RefundRows : q.booking = r.booking => q = r
  BY <1>1 DEF ReportsInv, OneRow, RefundRows
<1>6. Refunds(r.booking) = {r}
  BY <1>1, <1>5 DEF Refunds, RefundRows
<1>7. book[r.booking].status = "CANCELLED" /\ book[r.booking].via = "OWNER" /\ HasIncome(r.booking)
  BY <1>1, <1>2, BooksFollow DEF ReportsInv, BookFollows, PaidBy, HasRefund
<1>8. \E i \in IncomeRows : i.booking = r.booking
  BY <1>2, <1>7 DEF HasIncome, IncomeRows, ReportsInv, RowsInv, RowOf, BookingRow
<1> QED
  BY <1>1, <1>2, <1>3, <1>4, <1>5, <1>6, <1>7, <1>8 DEF Created

LEMMA SnapFacts ==
    ASSUME ReportsInv, NEW b \in Created
    PROVE  /\ b \in Ids
           /\ cut # None /\ book[b].created >= cut => snap[b] # None /\ snap[b].source = "POLICY"
           /\ snap[b] # None =>
                 /\ snap[b].final = Facts[b].price /\ snap[b].channel = Facts[b].channel
                 /\ snap[b].commission = CommissionAmount(Facts[b].price, snap[b].bps)
                 /\ snap[b].source = "POLICY" => snap[b].bps = IF IsOnline(b) THEN Rate ELSE 0
                 /\ ~IsOnline(b) => snap[b].bps = 0 /\ snap[b].commission = 0
                 /\ snap[b].commission \in Nat
                 /\ snap[b].source \in {"POLICY", "LEGACY_NO_COMMISSION"}
<1>1. b \in Ids
  BY DEF Created
<1>2. book[b].created \in Nat /\ (cut # None => cut \in Nat)
  BY <1>1, Parameters DEF ReportsInv, TypeOK
<1>3. /\ snap[b] # None /\ snap[b] # PolicySnapshot(b) =>
            snap[b] = LegacySnapshot(b) /\ cut # None /\ book[b].created < cut
      /\ snap[b] = None /\ cut # None => book[b].created < cut
  BY <1>1 DEF ReportsInv, SnapsInv
<1>4. Facts[b].price \in Nat
  BY <1>1, Parameters
<1>5. CommissionAmount(Facts[b].price, 0) = 0
  BY <1>4 DEF CommissionAmount, Divisor
<1>6. /\ LegacySnapshot(b).final = Facts[b].price /\ LegacySnapshot(b).channel = Facts[b].channel
      /\ LegacySnapshot(b).bps = 0 /\ LegacySnapshot(b).commission = 0
      /\ LegacySnapshot(b).source = "LEGACY_NO_COMMISSION"
  BY DEF LegacySnapshot
<1> DEFINE bps == IF IsOnline(b) THEN Rate ELSE 0
<1>7. /\ PolicySnapshot(b).final = Facts[b].price /\ PolicySnapshot(b).channel = Facts[b].channel
      /\ PolicySnapshot(b).bps = bps /\ PolicySnapshot(b).commission = CommissionAmount(Facts[b].price, bps)
      /\ PolicySnapshot(b).source = "POLICY" /\ CommissionAmount(Facts[b].price, bps) \in Nat
  BY <1>1, SnapshotFacts
<1>8. ~IsOnline(b) => bps = 0
  OBVIOUS
<1> HIDE DEF bps
<1>9. CASE snap[b] = PolicySnapshot(b)
  <2>1. snap[b].source = "POLICY" => snap[b].bps = bps
    BY <1>7, <1>9
  <2>2. snap[b] # None
    BY <1>1, <1>9, SnapshotFacts
  <2> QED
    BY <1>1, <1>5, <1>7, <1>8, <1>9, <2>1, <2>2 DEF bps
<1>10. CASE snap[b] = LegacySnapshot(b) /\ cut # None /\ book[b].created < cut
  BY <1>1, <1>2, <1>5, <1>6, <1>10
<1>11. CASE snap[b] = None
  BY <1>1, <1>2, <1>3, <1>11
<1> QED
  BY <1>3, <1>9, <1>10, <1>11

\* What can never be found wrong: each booking has one income and one refund
\* row at most, and no booking after the cutover lacks its own snapshot.
LEMMA NothingDamaged ==
    ASSUME ReportsInv, NEW s, NEW e
    PROVE  /\ MissingPostCutover(s, e) = {} /\ LegacyPostCutover(s, e) = {} /\ DuplicateIncome(s, e) = {}
           /\ {b \in Ids : Cardinality(Refunds(b)) > 1 /\ \E r \in Refunds(b) : InRange(r.at, s, e)} = {}
<1>1. MissingPostCutover(s, e) = {} /\ LegacyPostCutover(s, e) = {}
  BY SnapFacts DEF MissingPostCutover, LegacyPostCutover, LateBookings
<1>2. ASSUME NEW x PROVE ~(Cardinality({x}) > 1)
  BY FS_Singleton
<1>3. ASSUME NEW b \in Ids, NEW r \in Incomes(b) PROVE ~(Cardinality(Incomes(b)) > 1)
  <2>1. r \in IncomeRows /\ r.booking = b
    BY <1>3 DEF Incomes, IncomeRows
  <2> QED
    BY <1>2, <2>1, IncomeFacts
<1>4. ASSUME NEW b \in Ids, NEW r \in Refunds(b) PROVE ~(Cardinality(Refunds(b)) > 1)
  <2>1. r \in RefundRows /\ r.booking = b
    BY <1>4 DEF Refunds, RefundRows
  <2> QED
    BY <1>2, <2>1, RefundFacts
<1> QED
  BY <1>1, <1>3, <1>4 DEF DuplicateIncome

\* The rows whose events a range reports.
Reported(r, scope, s, e) == Canonical(r) /\ IsOnline(r.booking) /\ InRange(r.at, s, e) /\ r.venue \in scope
EventIncomes(scope, s, e) == {r \in IncomeRows : Reported(r, scope, s, e)}
EventRefunds(scope, s, e) == {r \in RefundRows : Reported(r, scope, s, e)}

\* A refund against an income of another amount.
Mismatched(r) == \E i \in Incomes(r.booking) : i.amount # r.amount

\* loadProjectionEvents refuses a range for three reasons only.
Refusals(scope, s, e) ==
    \/ Fractional(s, e) # {}
    \/ OrphanRefunds(s, e) # {}
    \/ \E r \in EventRefunds(scope, s, e) : Mismatched(r)

LEMMA RupiahOfPrice == \A n \in Nat : Rupiah(n * Hundredths) = n /\ Whole(n * Hundredths)
  BY DEF Rupiah, Hundredths, Whole

LEMMA Classified ==
    ASSUME ReportsInv, NEW b \in Created, IsOnline(b)
    PROVE  ~ClassificationFails(b, Facts[b].price)
  BY SnapFacts DEF ClassificationFails, IsOnline

LEMMA EventAmounts ==
    ASSUME ReportsInv, NEW scope, NEW s, NEW e, ~Refusals(scope, s, e),
           NEW r \in EventIncomes(scope, s, e) \cup EventRefunds(scope, s, e)
    PROVE  /\ r.booking \in Created /\ r.booking \in Ids /\ IsOnline(r.booking)
           /\ r.amount = Facts[r.booking].price * Hundredths /\ Rupiah(r.amount) = Facts[r.booking].price
           /\ r.at \in Time /\ r.venue \in Venues /\ r.venue = Facts[r.booking].venue /\ r.owner = OwnerOf[r.venue]
<1>1. CASE r \in EventIncomes(scope, s, e)
  <2>1. r \in IncomeRows /\ IsOnline(r.booking)
    BY <1>1 DEF EventIncomes, Reported
  <2> QED
    BY <2>1, IncomeFacts, RupiahOfPrice, Parameters
<1>2. CASE r \in EventRefunds(scope, s, e)
  <2>1. r \in RefundRows /\ IsOnline(r.booking) /\ Canonical(r)
    BY <1>2 DEF EventRefunds, Reported
  <2>2. PICK i \in IncomeRows : i.booking = r.booking
    BY <2>1, RefundFacts
  <2>3. i \in Incomes(r.booking) /\ i.amount = Facts[r.booking].price * Hundredths
    BY <2>2, IncomeFacts DEF Incomes
  <2>4. i.amount = r.amount
    BY <1>2, <2>3 DEF Refusals, Mismatched
  <2> QED
    BY <2>1, <2>3, <2>4, RefundFacts, RupiahOfPrice, Parameters DEF Canonical
<1> QED
  BY <1>1, <1>2

LEMMA Loaded ==
    ASSUME ReportsInv, NEW scope, NEW s, NEW e
    PROVE  loadProjectionEvents(scope, s, e) =
             IF Refusals(scope, s, e) THEN None
             ELSE [incomes |-> {Event(r) : r \in EventIncomes(scope, s, e)},
                   refunds |-> {Event(r) : r \in EventRefunds(scope, s, e)}]
<1>1. MissingPostCutover(s, e) \cup LegacyPostCutover(s, e) \cup DuplicateIncome(s, e) = {}
  BY NothingDamaged
<1>2. ~Refusals(scope, s, e) =>
        ~\E r \in EventIncomes(scope, s, e) \cup EventRefunds(scope, s, e) : ClassificationFails(r.booking, Rupiah(r.amount))
  BY EventAmounts, Classified
<1> DEFINE fails == \E r \in EventIncomes(scope, s, e) \cup EventRefunds(scope, s, e) :
                       ClassificationFails(r.booking, Rupiah(r.amount))
           view == [incomes |-> {Event(r) : r \in EventIncomes(scope, s, e)},
                    refunds |-> {Event(r) : r \in EventRefunds(scope, s, e)}]
<1>3. loadProjectionEvents(scope, s, e) =
        IF \/ MissingPostCutover(s, e) \cup LegacyPostCutover(s, e) \cup DuplicateIncome(s, e) # {}
           \/ Fractional(s, e) # {} \/ OrphanRefunds(s, e) # {}
           \/ fails \/ \E r \in EventRefunds(scope, s, e) : Mismatched(r)
        THEN None ELSE view
  BY Zenon DEF loadProjectionEvents, EventIncomes, EventRefunds, Reported, Mismatched
<1> HIDE DEF fails, view
<1>4. loadProjectionEvents(scope, s, e) = IF Refusals(scope, s, e) THEN None ELSE view
  BY <1>1, <1>2, <1>3 DEF Refusals, fails
<1> QED
  BY <1>4 DEF view

LEMMA ScenarioCommission == \A n \in Nat : CommissionAmount(n, HistoricalBps) \in Nat
<1>1. HistoricalBps \in 0 .. MaxBps
  BY DEF HistoricalBps, MaxBps
<1> SUFFICES ASSUME NEW n \in Nat PROVE CommissionAmount(n, HistoricalBps) \in Nat
  OBVIOUS
<1>2. CommissionAmount(n, HistoricalBps) \in 0 .. n
  BY <1>1, CommissionBounded
<1> QED
  BY <1>2

LEMMA EventType ==
    ASSUME ReportsInv, NEW scope, NEW s, NEW e, ~Refusals(scope, s, e),
           NEW r \in EventIncomes(scope, s, e) \cup EventRefunds(scope, s, e)
    PROVE  Event(r) \in Events
<1>1. /\ r.booking \in Created /\ r.booking \in Ids /\ Rupiah(r.amount) \in Nat
      /\ r.at \in Time /\ r.venue \in Venues
  BY EventAmounts, Parameters
<1>2. ProjectedCommission(r.booking, Rupiah(r.amount)) \in Nat
  BY <1>1, SnapFacts, ScenarioCommission DEF ProjectedCommission, Basis, Snapshot, Historical
<1>3. Basis(r.booking) \in {Historical, Snapshot}
  BY DEF Basis
<1> QED
  BY <1>1, <1>2, <1>3 DEF Event, Events

LEMMA LoadedIsView ==
    ASSUME ReportsInv, NEW scope, NEW s, NEW e
    PROVE  loadProjectionEvents(scope, s, e) # None <=> ~Refusals(scope, s, e)
<1>1. CASE Refusals(scope, s, e)
  BY <1>1, Loaded
<1>2. CASE ~Refusals(scope, s, e)
  <2>1. /\ {Event(r) : r \in EventIncomes(scope, s, e)} \subseteq Events
        /\ {Event(r) : r \in EventRefunds(scope, s, e)} \subseteq Events
    BY <1>2, EventType
  <2>2. loadProjectionEvents(scope, s, e) \in [incomes : SUBSET Events, refunds : SUBSET Events]
    BY <1>2, <2>1, Loaded
  <2> QED
    BY <1>2, <2>2, NoneAssumption
<1> QED
  BY <1>1, <1>2

----------------------------------------------------------------------------
(***************************************************************************)
(* A closed day keeps its figures.                                         *)
(***************************************************************************)

\* Incomes stay, and no row is added to a closed day but an edited one.
LEMMA LedgerMoves ==
    ASSUME ReportsInv, [Next]_vars
    PROVE  /\ \A r \in ledger : r.source = "BOOKING" => r \in ledger'
           /\ \A d \in Days : Closed(d) /\ {r \in ledger : DayOf(r.at) = d} \subseteq ledger' =>
                 {r \in ledger' : DayOf(r.at) = d} = {r \in ledger : DayOf(r.at) = d}
<1>0. clock \in Nat /\ \A b \in Ids : pend[b] # None => pend[b] \in Nat
  BY Parameters DEF ReportsInv, TypeOK
<1>1. Days \subseteq Nat
  BY DEF Days
<1>2. ASSUME NEW d \in Days, Closed(d)
      PROVE  DayOf(clock) # d /\ \A b \in Ids : pend[b] # None => DayOf(pend[b]) # d
  BY <1>0, <1>1, <1>2, DayAfter DEF Closed
<1>3. CASE OwnerStep
  <2>1. \A r \in ledger : r.source = "BOOKING" => r \in ledger'
    BY <1>3, OwnerMoves
  <2>2. ASSUME NEW d \in Days, Closed(d), {r \in ledger : DayOf(r.at) = d} \subseteq ledger'
        PROVE  {r \in ledger' : DayOf(r.at) = d} = {r \in ledger : DayOf(r.at) = d}
    <3>1. ASSUME NEW x \in Inputs, CreateTransaction(x)
          PROVE  \A r \in ledger' \ ledger : r.at = clock
      BY <3>1 DEF CreateTransaction
    <3>2. ASSUME NEW x \in Inputs, NEW r \in ledger, UpdateTransaction(r, x)
          PROVE  {q \in ledger' : DayOf(q.at) = d} = {q \in ledger : DayOf(q.at) = d}
      <4> DEFINE new == [r EXCEPT !.type = x.type, !.venue = x.venue, !.amount = x.amount, !.edited = TRUE]
      <4>1. ledger' = (ledger \ {r}) \cup {new} /\ OwnerOf[x.venue] = r.owner
        BY <3>2 DEF UpdateTransaction
      <4>2. new.at = r.at
        BY <4>1, EditedRowTypes DEF ReportsInv, TypeOK
      <4> HIDE DEF new
      <4>3. CASE DayOf(r.at) = d
        <5>1. r \in ledger'
          BY <2>2, <4>3
        <5>2. new = r
          BY <4>1, <5>1
        <5> QED
          BY <4>1, <5>2
      <4>4. CASE DayOf(r.at) # d
        BY <4>1, <4>2, <4>4
      <4> QED
        BY <4>3, <4>4
    <3>3. ASSUME NEW r \in ledger, DeleteTransaction(r)
          PROVE  ledger' \subseteq ledger
      BY <3>3 DEF DeleteTransaction
    <3>4. CASE \A r \in ledger' \ ledger : r.at = clock
      BY <1>2, <2>2, <3>4
    <3> QED
      BY <1>3, <2>2, <3>1, <3>2, <3>3, <3>4 DEF OwnerStep
  <2> QED
    BY <2>1, <2>2
<1>4. CASE BookingStep
  <2>1. PICK b \in Ids : \/ BookOnline(b) \/ BookWalkIn(b) \/ BookLegacy(b) \/ Backfill(b)
                         \/ BeginPayment(b) \/ MarkBookingPaid(b) \/ GatewayCapture(b)
                         \/ CompleteBooking(b) \/ BeginRefund(b) \/ RefundBooking(b) \/ AbortTransaction(b)
    BY <1>4 DEF BookingStep
  <2>2. /\ ledger \subseteq ledger'
        /\ \A r \in ledger' \ ledger : r.at = clock \/ (pend[b] # None /\ r.at = pend[b])
    BY <2>1, BookingMoves
  <2> QED
    BY <1>2, <2>2
<1>5. CASE Tick \/ Cutover \/ UNCHANGED vars
  <2>1. ledger' = ledger
    BY <1>5 DEF Tick, Cutover, vars
  <2> QED
    BY <2>1
<1> QED
  BY <1>3, <1>4, <1>5 DEF Next

\* The snapshot of a booking that has rows changes at most from none to one
\* without commission, which projects the same.
LEMMA SnapshotMoves ==
    ASSUME ReportsInv, [Next]_vars, NEW b \in Created
    PROVE  b \in Created' /\ (snap'[b] = snap[b] \/ (snap[b] = None /\ snap'[b] = LegacySnapshot(b)))
<1>1. b \in Ids /\ book[b].status # "none"
  BY DEF Created
<1>2. CASE OwnerStep
  <2>1. UNCHANGED <<book, snap>>
    BY <1>2, OwnerMoves
  <2> QED
    BY <2>1 DEF Created
<1>3. CASE Tick \/ Cutover \/ UNCHANGED vars
  <2>1. UNCHANGED <<book, snap>>
    BY <1>3 DEF Tick, Cutover, vars
  <2> QED
    BY <2>1 DEF Created
<1>4. CASE BookingStep
  <2>1. PICK c \in Ids : \/ BookOnline(c) \/ BookWalkIn(c) \/ BookLegacy(c) \/ Backfill(c)
                         \/ BeginPayment(c) \/ MarkBookingPaid(c) \/ GatewayCapture(c)
                         \/ CompleteBooking(c) \/ BeginRefund(c) \/ RefundBooking(c) \/ AbortTransaction(c)
    BY <1>4 DEF BookingStep
  <2>2. CASE c # b
    <3>1. book'[b] = book[b] /\ snap'[b] = snap[b]
      BY <1>1, <2>1, <2>2, BookingMoves
    <3> QED
      BY <1>1, <3>1 DEF Created
  <2>3. CASE c = b
    <3>1. DOMAIN book = Ids /\ DOMAIN snap = Ids
          /\ book[b] \in [status : BookStatuses, created : Time, via : {"none", "OWNER", "GATEWAY"}]
      BY <1>1 DEF ReportsInv, TypeOK
    <3>2. CASE Backfill(b)
      BY <1>1, <3>1, <3>2 DEF Backfill, Created
    <3>3. CASE BeginPayment(b) \/ BeginRefund(b) \/ AbortTransaction(b)
      BY <1>1, <3>1, <3>3 DEF BeginPayment, BeginRefund, AbortTransaction, Created
    <3>4. CASE MarkBookingPaid(b) \/ GatewayCapture(b) \/ CompleteBooking(b) \/ RefundBooking(b)
      BY <1>1, <3>1, <3>4 DEF MarkBookingPaid, GatewayCapture, CompleteBooking, RefundBooking, Created
    <3> QED
      BY <1>1, <2>1, <2>3, <3>2, <3>3, <3>4 DEF BookOnline, BookWalkIn, BookLegacy
  <2> QED
    BY <2>2, <2>3
<1> QED
  BY <1>2, <1>3, <1>4 DEF Next

LEMMA EventStays ==
    ASSUME ReportsInv, [Next]_vars, NEW r, r.booking \in Created
    PROVE  Event(r)' = Event(r)
<1> DEFINE b == r.booking
<1>1. snap'[b] = snap[b] \/ (snap[b] = None /\ snap'[b] = LegacySnapshot(b))
  BY SnapshotMoves
<1>2. b \in Ids /\ LegacySnapshot(b).source # "POLICY"
  BY DEF Created, LegacySnapshot
<1>3. Basis(b)' = Basis(b) /\ (Basis(b) = Snapshot => snap'[b] = snap[b])
  BY <1>1, <1>2 DEF Basis, Snapshot, Historical
<1>4. ASSUME NEW n PROVE ProjectedCommission(b, n)' = ProjectedCommission(b, n)
  BY <1>3 DEF ProjectedCommission
<1> QED
  BY <1>3, <1>4 DEF Event

\* Facts of the invariant that are needed of the next state too.
LEMMA IncomesUnique == ReportsInv => \A q \in IncomeRows : Incomes(q.booking) = {q}
  BY IncomeFacts

LEMMA NextIncomes ==
    ASSUME ReportsInv'
    PROVE  \A q \in IncomeRows' : Incomes(q.booking)' = {q}
<1>1. (ReportsInv => \A q \in IncomeRows : Incomes(q.booking) = {q})'
  BY IncomesUnique, PTL
<1> QED
  BY <1>1

\* A day that is not refused loads the events of its rows.
DayLoads ==
    \A d \in Days : ~Refusals(Venues, d, d) =>
        loadProjectionEvents(Venues, d, d) = [incomes |-> {Event(r) : r \in EventIncomes(Venues, d, d)},
                                              refunds |-> {Event(r) : r \in EventRefunds(Venues, d, d)}]

LEMMA LoadedDay == ReportsInv => DayLoads
<1> SUFFICES ASSUME ReportsInv, NEW d \in Days, ~Refusals(Venues, d, d)
             PROVE  loadProjectionEvents(Venues, d, d) =
                      [incomes |-> {Event(r) : r \in EventIncomes(Venues, d, d)},
                       refunds |-> {Event(r) : r \in EventRefunds(Venues, d, d)}]
  BY DEF DayLoads
<1>1. loadProjectionEvents(Venues, d, d) =
        IF Refusals(Venues, d, d) THEN None
        ELSE [incomes |-> {Event(r) : r \in EventIncomes(Venues, d, d)},
              refunds |-> {Event(r) : r \in EventRefunds(Venues, d, d)}]
  BY Loaded
<1> QED
  BY <1>1, Zenon

LEMMA NextDayLoads ==
    ASSUME ReportsInv'
    PROVE  DayLoads'
<1>1. (ReportsInv => DayLoads)'
  BY LoadedDay, PTL
<1> QED
  BY <1>1

LEMMA NextLoaded ==
    ASSUME ReportsInv', NEW d \in Days, ~Refusals(Venues, d, d)'
    PROVE  loadProjectionEvents(Venues, d, d)' =
             [incomes |-> {Event(r)' : r \in EventIncomes(Venues, d, d)'},
              refunds |-> {Event(r)' : r \in EventRefunds(Venues, d, d)'}]
<1>1. DayLoads'
  BY NextDayLoads
<1>2. Days' = Days
  BY DEF Days, DayOf
<1> QED
  BY <1>1, <1>2, Zenon DEF DayLoads

\* loadProjectionEvents of one day reads that day's rows and, for its refunds,
\* the incomes of any day.
LEMMA ClosedDayStep ==
    ASSUME ReportsInv, ReportsInv', [Next]_vars, NEW d \in Days,
           Closed(d), {r \in ledger : DayOf(r.at) = d} \subseteq ledger',
           loadProjectionEvents(Venues, d, d) # None
    PROVE  loadProjectionEvents(Venues, d, d)' = loadProjectionEvents(Venues, d, d)
<1> DEFINE at(S) == {r \in S : DayOf(r.at) = d}
<1>1. at(ledger') = at(ledger)
  BY LedgerMoves
<1>2. d \in Nat /\ \A t : InRange(t, d, d) => DayOf(t) = d
  BY DEF Days, InRange
<1>3. ~Refusals(Venues, d, d)
  BY LoadedIsView
<1>4. /\ \A r : r \in RefundRows' /\ InRange(r.at, d, d) <=> r \in RefundRows /\ InRange(r.at, d, d)
      /\ \A r : r \in IncomeRows' /\ InRange(r.at, d, d) <=> r \in IncomeRows /\ InRange(r.at, d, d)
  BY <1>1, <1>2 DEF RefundRows, IncomeRows
<1>5. \A i \in IncomeRows : i \in IncomeRows'
  BY LedgerMoves DEF IncomeRows
<1>6. ~Refusals(Venues, d, d)'
  <2>1. Fractional(d, d)' = {}
    <3>1. Fractional(d, d) = {}
      BY <1>3 DEF Refusals
    <3> QED
      BY <1>1, <1>2, <3>1 DEF Fractional
  <2>2. OrphanRefunds(d, d)' = {}
    <3>1. OrphanRefunds(d, d) = {}
      BY <1>3 DEF Refusals
    <3> SUFFICES ASSUME NEW r \in RefundRows', InRange(r.at, d, d)
                 PROVE  Canonical(r) /\ \E i \in IncomeRows' : SameOwner(i, r)
      BY DEF OrphanRefunds, Canonical, SameOwner, InRange, DayOf
    <3>2. r \in RefundRows
      BY <1>4
    <3> QED
      BY <1>5, <3>1, <3>2 DEF OrphanRefunds
  <2>3. ASSUME NEW r \in EventRefunds(Venues, d, d)' PROVE ~Mismatched(r)'
    <3>1. r \in RefundRows' /\ Reported(r, Venues, d, d)
      BY DEF EventRefunds, Reported, Canonical, IsOnline, InRange, DayOf
    <3>2. r \in RefundRows
      BY <1>4, <3>1 DEF Reported
    <3>3. r \in EventRefunds(Venues, d, d)
      BY <3>1, <3>2 DEF EventRefunds
    <3>4. ~Mismatched(r)
      BY <1>3, <3>3 DEF Refusals
    <3>5. PICK i \in IncomeRows : i.booking = r.booking
      BY <3>2, RefundFacts
    <3>6. i.amount = r.amount
      BY <3>4, <3>5, IncomeFacts DEF Mismatched
    <3>7. i \in IncomeRows'
      BY <1>5
    <3>8. Incomes(i.booking)' = {i}
      BY <3>7, NextIncomes
    <3> QED
      BY <3>5, <3>6, <3>8 DEF Mismatched
  <2> QED
    BY <2>1, <2>2, <2>3 DEF Refusals
<1>7. EventIncomes(Venues, d, d)' = EventIncomes(Venues, d, d)
  BY <1>4 DEF EventIncomes, Reported, Canonical, IsOnline, InRange, DayOf
<1>8. EventRefunds(Venues, d, d)' = EventRefunds(Venues, d, d)
  BY <1>4 DEF EventRefunds, Reported, Canonical, IsOnline, InRange, DayOf
<1>9. \A r \in EventIncomes(Venues, d, d) \cup EventRefunds(Venues, d, d) : Event(r)' = Event(r)
  <2>1. \A r \in EventIncomes(Venues, d, d) \cup EventRefunds(Venues, d, d) : r.booking \in Created
    BY <1>3, EventAmounts
  <2> QED
    BY <2>1, EventStays
<1>10. /\ {Event(r)' : r \in EventIncomes(Venues, d, d)'} = {Event(r) : r \in EventIncomes(Venues, d, d)}
       /\ {Event(r)' : r \in EventRefunds(Venues, d, d)'} = {Event(r) : r \in EventRefunds(Venues, d, d)}
  BY <1>7, <1>8, <1>9
<1>11. loadProjectionEvents(Venues, d, d) =
         [incomes |-> {Event(r) : r \in EventIncomes(Venues, d, d)},
          refunds |-> {Event(r) : r \in EventRefunds(Venues, d, d)}]
  BY <1>3, LoadedDay, Zenon DEF DayLoads
<1>12. loadProjectionEvents(Venues, d, d)' =
         [incomes |-> {Event(r)' : r \in EventIncomes(Venues, d, d)'},
          refunds |-> {Event(r)' : r \in EventRefunds(Venues, d, d)'}]
  BY <1>6, NextLoaded, Zenon
<1> QED
  BY <1>10, <1>11, <1>12

\* The views of a closed day do not change by any later step but an owner's
\* edit of one of its rows (repository.go, the projection queries).
THEOREM ClosedDaysCorrect == Spec => ClosedDayStable
<1>1. ReportsInv /\ ReportsInv' /\ [Next]_vars =>
        [\A d \in Days : Closed(d) /\ {r \in ledger : DayOf(r.at) = d} \subseteq ledger' =>
           LET events == loadProjectionEvents(Venues, d, d)
           IN  events # None => loadProjectionEvents(Venues, d, d)' = events]_<<book, snap, cut, ledger>>
  BY ClosedDayStep
<1> QED
  BY <1>1, ReportsInvariance, PTL DEF Spec, ClosedDayStable

----------------------------------------------------------------------------
(***************************************************************************)
(* The figures of a set of events are the totals of their rows.            *)
(***************************************************************************)

Price(b) == Facts[b].price

\* The projection rounds an amount in rupiah, the breakdown's SQL one in
\* hundredths.
LEMMA CellOfPrice ==
    ASSUME ReportsInv, NEW b \in Created
    PROVE  /\ CellCommission(b, Price(b) * Hundredths) = ProjectedCommission(b, Price(b))
           /\ ProjectedCommission(b, Price(b)) \in Nat
<1>1. Price(b) \in Nat
  BY Parameters DEF Created, Price
<1>2. HistoricalBps \in Nat
  BY DEF HistoricalBps
<1>3. CommissionAmount(Price(b), HistoricalBps) = RoundedShare(Price(b), HistoricalBps)
  BY <1>1, <1>2, CommissionRounded
<1>4. \A n \in Nat : (n * Hundredths * HistoricalBps + (Divisor * Hundredths) \div 2) \div (Divisor * Hundredths)
                       = RoundedShare(n, HistoricalBps)
  BY DEF RoundedShare, HistoricalBps, Hundredths, Divisor
<1>5. Basis(b) = Historical \/ (Basis(b) = Snapshot /\ snap[b].commission \in Nat)
  BY SnapFacts DEF Basis
<1>6. Historical # Snapshot
  BY DEF Historical, Snapshot
<1> QED
  BY <1>1, <1>3, <1>4, <1>5, <1>6, ScenarioCommission DEF CellCommission, ProjectedCommission

\* The rows of a range that is not refused are those of different bookings, at their price.
RowsOfEvents(T, scope, s, e) == T \subseteq EventIncomes(scope, s, e) \/ T \subseteq EventRefunds(scope, s, e)

LEMMA RowsOfBookings ==
    ASSUME ReportsInv, NEW scope, NEW s, NEW e, ~Refusals(scope, s, e), NEW T, RowsOfEvents(T, scope, s, e)
    PROVE  /\ IsFiniteSet(T)
           /\ \A x, y \in T : x.booking = y.booking => x = y
           /\ \A x \in T : /\ x.booking \in Created /\ x.booking \in Ids
                           /\ x.amount = Price(x.booking) * Hundredths
                           /\ Rupiah(x.amount) = Price(x.booking) /\ Price(x.booking) \in Nat
<1>1. T \subseteq ledger
  BY DEF RowsOfEvents, EventIncomes, EventRefunds, IncomeRows, RefundRows
<1>2. IsFiniteSet(T)
  BY <1>1, FS_Subset DEF ReportsInv
<1>3. \A x, y \in T : x.booking = y.booking => x = y
  <2>1. CASE T \subseteq EventIncomes(scope, s, e)
    BY <2>1, IncomeFacts DEF EventIncomes
  <2>2. CASE T \subseteq EventRefunds(scope, s, e)
    BY <2>2, RefundFacts DEF EventRefunds
  <2> QED
    BY <2>1, <2>2 DEF RowsOfEvents
<1>4. T \subseteq EventIncomes(scope, s, e) \cup EventRefunds(scope, s, e)
  BY DEF RowsOfEvents
<1> QED
  BY <1>2, <1>3, <1>4, EventAmounts, Parameters DEF Price

LEMMA EventSums ==
    ASSUME ReportsInv, NEW scope, NEW s, NEW e, ~Refusals(scope, s, e), NEW T, RowsOfEvents(T, scope, s, e)
    PROVE  LET E == {Event(r) : r \in T}
           IN  /\ IsFiniteSet(E)
               /\ Sum(Amount, E) = SumFunctionOnSet([r \in T |-> Price(r.booking)], T)
               /\ Rupiah(Sum(Amount, T)) = Sum(Amount, E)
               /\ Sum(Commission, E) = SumFunctionOnSet([r \in T |-> CellCommission(r.booking, r.amount)], T)
               /\ Cardinality(E) = Cardinality(T)
               /\ Sum(Amount, E) \in Int /\ Sum(Commission, E) \in Int
<1> DEFINE E == {Event(r) : r \in T}
           h == [r \in T |-> Event(r)]
           A == [x \in E |-> x.amount]
           C == [x \in E |-> x.commission]
           P == [r \in T |-> Price(r.booking)]
           K == [r \in T |-> CellCommission(r.booking, r.amount)]
           R == [r \in T |-> r.amount]
<1>1. /\ IsFiniteSet(T)
      /\ \A x, y \in T : x.booking = y.booking => x = y
      /\ \A x \in T : /\ x.booking \in Created /\ x.booking \in Ids
                      /\ x.amount = Price(x.booking) * Hundredths
                      /\ Rupiah(x.amount) = Price(x.booking) /\ Price(x.booking) \in Nat
  BY RowsOfBookings
<1>2. \A x, y \in T : h[x] = h[y] => x = y
  BY <1>1 DEF Event
<1>3. E = {h[r] : r \in T}
  OBVIOUS
<1>4. \A r \in T : A[h[r]] = P[r] /\ P[r] \in Nat
  BY <1>1 DEF Event
<1>5. \A r \in T : C[h[r]] = K[r] /\ K[r] \in Nat
  BY <1>1, CellOfPrice DEF Event
<1>6. \A r \in T : R[r] = P[r] * Hundredths
  BY <1>1
<1>7. /\ DOMAIN A = E /\ DOMAIN C = E /\ DOMAIN R = T
      /\ Sum(Amount, E) = SumFunctionOnSet(A, E) /\ Sum(Commission, E) = SumFunctionOnSet(C, E)
      /\ Sum(Amount, T) = SumFunctionOnSet(R, T)
  BY DEF Sum, SumFunction, Amount, Commission
<1> HIDE DEF E, h, A, C, P, K, R
<1>8. IsFiniteSet(E) /\ SumFunctionOnSet(A, E) = SumFunctionOnSet([r \in T |-> A[h[r]]], T)
  <2>1. \A r \in T : A[h[r]] \in Int
    BY <1>4
  <2> QED
    BY <1>1, <1>2, <1>3, <2>1, SumImage
<1>9. SumFunctionOnSet(C, E) = SumFunctionOnSet([r \in T |-> C[h[r]]], T)
  <2>1. \A r \in T : C[h[r]] \in Int
    BY <1>5
  <2> QED
    BY <1>1, <1>2, <1>3, <2>1, SumImage
<1>10. Summable(P, T) /\ Summable(K, T)
  BY <1>4, <1>5 DEF Summable
<1>11. SumFunctionOnSet([r \in T |-> A[h[r]]], T) = SumFunctionOnSet(P, T)
  <2>1. \A r \in T : P[r] = [q \in T |-> A[h[q]]][r]
    BY <1>4
  <2> QED
    BY <1>1, <1>10, <2>1, SumEqual
<1>12. SumFunctionOnSet([r \in T |-> C[h[r]]], T) = SumFunctionOnSet(K, T)
  <2>1. \A r \in T : K[r] = [q \in T |-> C[h[q]]][r]
    BY <1>5
  <2> QED
    BY <1>1, <1>10, <2>1, SumEqual
<1>13. SumFunctionOnSet(P, T) \in Int /\ SumFunctionOnSet(K, T) \in Int
  BY <1>1, <1>10, SumType
<1>14. SumFunctionOnSet(R, T) = SumFunctionOnSet(P, T) * Hundredths
  <2>1. Hundredths \in Int
    BY DEF Hundredths
  <2> QED
    BY <1>1, <1>6, <1>10, <2>1, SumScaled
<1>15. \A n \in Int : Rupiah(n * Hundredths) = n
  BY DEF Rupiah, Hundredths
<1>16. Cardinality(E) = Cardinality(T)
  BY <1>1, <1>2, <1>3, CardinalityImage
<1> QED
  BY <1>7, <1>8, <1>9, <1>11, <1>12, <1>13, <1>14, <1>15, <1>16 DEF E, P, K

\* What the service adds up in Go is what the breakdown's SQL adds up.
LEMMA FiguresOfRows ==
    ASSUME ReportsInv, NEW scope, NEW s, NEW e, ~Refusals(scope, s, e),
           NEW A \in SUBSET EventIncomes(scope, s, e), NEW B \in SUBSET EventRefunds(scope, s, e)
    PROVE  Figures({Event(r) : r \in A}, {Event(r) : r \in B}) = Totals(A, B)
<1>1. RowsOfEvents(A, scope, s, e) /\ RowsOfEvents(B, scope, s, e)
  BY DEF RowsOfEvents
<1> DEFINE EA == {Event(r) : r \in A}
           EB == {Event(r) : r \in B}
<1>2. /\ Rupiah(Sum(Amount, A)) = Sum(Amount, EA) /\ Cardinality(EA) = Cardinality(A)
      /\ Sum(Commission, EA) = SumFunctionOnSet([r \in A |-> CellCommission(r.booking, r.amount)], A)
  BY <1>1, EventSums
<1>3. /\ Rupiah(Sum(Amount, B)) = Sum(Amount, EB) /\ Cardinality(EB) = Cardinality(B)
      /\ Sum(Commission, EB) = SumFunctionOnSet([r \in B |-> CellCommission(r.booking, r.amount)], B)
  BY <1>1, EventSums
<1> DEFINE commission(r) == CellCommission(r.booking, r.amount)
<1>4. \A S : Sum(commission, S) = SumFunctionOnSet([r \in S |-> CellCommission(r.booking, r.amount)], S)
  BY DEF Sum, SumFunction
<1>5. Totals(A, B) = [gross |-> Rupiah(Sum(Amount, A)), refund |-> Rupiah(Sum(Amount, B)),
                      commission |-> Sum(commission, A) - Sum(commission, B),
                      bookings |-> Cardinality(A), refunded |-> Cardinality(B)]
  BY DEF Totals
<1> HIDE DEF EA, EB, commission
<1>6. Figures(EA, EB) = Totals(A, B)
  BY <1>2, <1>3, <1>4, <1>5 DEF Figures
<1> QED
  BY <1>6 DEF EA, EB

----------------------------------------------------------------------------
(***************************************************************************)
(* Figures add up over the groups of a partition.                          *)
(***************************************************************************)

FigureNames == {"gross", "refund", "commission", "bookings", "refunded"}

LEMMA FigureNamesOf == \A E, R : DOMAIN Figures(E, R) = FigureNames
  BY DEF Figures, FigureNames

Amounts(S) == SumFunctionOnSet([x \in S |-> x.amount], S)
Commissions(S) == SumFunctionOnSet([x \in S |-> x.commission], S)

LEMMA FiguresAre ==
    \A E, R : Figures(E, R) = [gross |-> Amounts(E), refund |-> Amounts(R),
                               commission |-> Commissions(E) - Commissions(R),
                               bookings |-> Cardinality(E), refunded |-> Cardinality(R)]
  BY DEF Figures, Sum, SumFunction, Amount, Commission, Amounts, Commissions

Counted(E) == \A x \in E : x.amount \in Int /\ x.commission \in Int
Grouped(E, g, I) == \A x \in E : g[x] \in I

\* Each figure of one set is a sum over its groups.
AddsUp(E, g, I) ==
    /\ Amounts(E) = SumFunctionOnSet([i \in I |-> Amounts({x \in E : g[x] = i})], I)
    /\ Commissions(E) = SumFunctionOnSet([i \in I |-> Commissions({x \in E : g[x] = i})], I)
    /\ Cardinality(E) = SumFunctionOnSet([i \in I |-> Cardinality({x \in E : g[x] = i})], I)
    /\ \A i \in I : /\ Amounts({x \in E : g[x] = i}) \in Int
                    /\ Commissions({x \in E : g[x] = i}) \in Int
                    /\ Cardinality({x \in E : g[x] = i}) \in Int

LEMMA AddUp ==
    ASSUME NEW E, IsFiniteSet(E), Counted(E), NEW I, IsFiniteSet(I), NEW g, Grouped(E, g, I)
    PROVE  AddsUp(E, g, I)
<1> DEFINE Of(i) == {x \in E : g[x] = i}
           A == [x \in E |-> x.amount]
           C == [x \in E |-> x.commission]
           N == [x \in E |-> 1]
<1>1. Summable(A, E) /\ Summable(C, E) /\ Summable(N, E)
  BY DEF Summable, Counted
<1>2. \A i : Of(i) \in SUBSET E /\ IsFiniteSet(Of(i))
  BY FS_Subset
<1>3. \A x \in E : A[x] = x.amount /\ C[x] = x.commission /\ N[x] = 1
  OBVIOUS
<1>4. /\ SumFunctionOnSet(A, E) = SumFunctionOnSet([i \in I |-> SumFunctionOnSet(A, {x \in E : g[x] = i})], I)
      /\ SumFunctionOnSet(C, E) = SumFunctionOnSet([i \in I |-> SumFunctionOnSet(C, {x \in E : g[x] = i})], I)
      /\ SumFunctionOnSet(N, E) = SumFunctionOnSet([i \in I |-> SumFunctionOnSet(N, {x \in E : g[x] = i})], I)
  <2>1. \A x \in E : g[x] \in I
    BY DEF Grouped
  <2> HIDE DEF A, C, N
  <2> QED
    BY <1>1, <2>1, SumGroups
<1> HIDE DEF A, C, N
<1>5. ASSUME NEW T \in SUBSET E
      PROVE  /\ SumFunctionOnSet(A, T) = Amounts(T) /\ Amounts(T) \in Int
             /\ SumFunctionOnSet(C, T) = Commissions(T) /\ Commissions(T) \in Int
             /\ SumFunctionOnSet(N, T) = Cardinality(T) /\ Cardinality(T) \in Int
  <2>1. IsFiniteSet(T) /\ Summable(A, T) /\ Summable(C, T)
    BY <1>1, FS_Subset DEF Summable
  <2>2. /\ \A x \in T : A[x] = [y \in T |-> y.amount][x]
        /\ \A x \in T : C[x] = [y \in T |-> y.commission][x]
        /\ \A x \in T : N[x] = 1
    BY <1>3
  <2>3. SumFunctionOnSet(A, T) = Amounts(T) /\ SumFunctionOnSet(C, T) = Commissions(T)
    BY <2>1, <2>2, SumEqual DEF Amounts, Commissions
  <2>4. SumFunctionOnSet(N, T) = Cardinality(T) /\ Cardinality(T) \in Int
    BY <2>1, <2>2, SumOnes, FS_CardinalityType
  <2> QED
    BY <2>1, <2>3, <2>4, SumType
<1> HIDE DEF Of
<1>6. /\ [i \in I |-> SumFunctionOnSet(A, Of(i))] = [i \in I |-> Amounts(Of(i))]
      /\ [i \in I |-> SumFunctionOnSet(C, Of(i))] = [i \in I |-> Commissions(Of(i))]
      /\ [i \in I |-> SumFunctionOnSet(N, Of(i))] = [i \in I |-> Cardinality(Of(i))]
  BY <1>2, <1>5
<1>7. \A i \in I : Amounts(Of(i)) \in Int /\ Commissions(Of(i)) \in Int /\ Cardinality(Of(i)) \in Int
  BY <1>2, <1>5
<1>8. E \in SUBSET E
  OBVIOUS
<1>9. SumFunctionOnSet(A, E) = Amounts(E) /\ SumFunctionOnSet(C, E) = Commissions(E)
      /\ SumFunctionOnSet(N, E) = Cardinality(E)
  BY <1>5, <1>8
<1> QED
  BY <1>4, <1>6, <1>7, <1>9 DEF Of, AddsUp

FiguresAddUp(E, R, g, I, f) ==
    /\ Figures(E, R)[f] =
         SumFunctionOnSet([i \in I |-> Figures({x \in E : g[x] = i}, {x \in R : g[x] = i})[f]], I)
    /\ \A i \in I : Figures({x \in E : g[x] = i}, {x \in R : g[x] = i})[f] \in Int

LEMMA FiguresAdd ==
    ASSUME NEW E, NEW R, IsFiniteSet(E), IsFiniteSet(R), Counted(E \cup R),
           NEW I, IsFiniteSet(I), NEW g, Grouped(E \cup R, g, I), NEW f \in FigureNames
    PROVE  FiguresAddUp(E, R, g, I, f)
<1> DEFINE e(i) == {x \in E : g[x] = i}
           r(i) == {x \in R : g[x] = i}
           part == [i \in I |-> Figures(e(i), r(i))[f]]
           ce == [i \in I |-> Commissions(e(i))]
           cr == [i \in I |-> Commissions(r(i))]
<1>1. /\ Amounts(E) = SumFunctionOnSet([i \in I |-> Amounts(e(i))], I)
      /\ Commissions(E) = SumFunctionOnSet(ce, I)
      /\ Cardinality(E) = SumFunctionOnSet([i \in I |-> Cardinality(e(i))], I)
      /\ \A i \in I : Amounts(e(i)) \in Int /\ Commissions(e(i)) \in Int /\ Cardinality(e(i)) \in Int
  <2>1. Counted(E)
    BY DEF Counted
  <2>2. Grouped(E, g, I)
    BY DEF Grouped
  <2>3. AddsUp(E, g, I)
    BY <2>1, <2>2, AddUp
  <2> QED
    BY <2>3 DEF AddsUp
<1>2. /\ Amounts(R) = SumFunctionOnSet([i \in I |-> Amounts(r(i))], I)
      /\ Commissions(R) = SumFunctionOnSet(cr, I)
      /\ Cardinality(R) = SumFunctionOnSet([i \in I |-> Cardinality(r(i))], I)
      /\ \A i \in I : Amounts(r(i)) \in Int /\ Commissions(r(i)) \in Int /\ Cardinality(r(i)) \in Int
  <2>1. Counted(R)
    BY DEF Counted
  <2>2. Grouped(R, g, I)
    BY DEF Grouped
  <2>3. AddsUp(R, g, I)
    BY <2>1, <2>2, AddUp
  <2> QED
    BY <2>3 DEF AddsUp
<1> HIDE DEF e, r
<1>3. \A i \in I : Figures(e(i), r(i))[f] \in Int
  BY <1>1, <1>2, FiguresAre DEF FigureNames
<1>4. Figures(E, R)[f] = SumFunctionOnSet(part, I)
  <2>1. CASE f = "gross"
    <3>1. part = [i \in I |-> Amounts(e(i))]
      BY <2>1, FiguresAre
    <3> QED
      BY <1>1, <2>1, <3>1, FiguresAre
  <2>2. CASE f = "refund"
    <3>1. part = [i \in I |-> Amounts(r(i))]
      BY <2>2, FiguresAre
    <3> QED
      BY <1>2, <2>2, <3>1, FiguresAre
  <2>3. CASE f = "bookings"
    <3>1. part = [i \in I |-> Cardinality(e(i))]
      BY <2>3, FiguresAre
    <3> QED
      BY <1>1, <2>3, <3>1, FiguresAre
  <2>4. CASE f = "refunded"
    <3>1. part = [i \in I |-> Cardinality(r(i))]
      BY <2>4, FiguresAre
    <3> QED
      BY <1>2, <2>4, <3>1, FiguresAre
  <2>5. CASE f = "commission"
    <3>1. \A i \in I : part[i] = ce[i] - cr[i]
      BY <2>5, FiguresAre
    <3>2. Summable(ce, I) /\ Summable(cr, I)
      BY <1>1, <1>2 DEF Summable
    <3> HIDE DEF part, ce, cr
    <3>3. SumFunctionOnSet(part, I) = SumFunctionOnSet(ce, I) - SumFunctionOnSet(cr, I)
      BY <3>1, <3>2, SumDifference
    <3> QED
      BY <1>1, <1>2, <2>5, <3>3, FiguresAre
  <2> QED
    BY <2>1, <2>2, <2>3, <2>4, <2>5 DEF FigureNames
<1> QED
  BY <1>3, <1>4 DEF e, r, part, FiguresAddUp

\* The rows of a view, one for each group, add up to the sum over the groups.
LEMMA SumOfPeriods ==
    ASSUME NEW I, IsFiniteSet(I), NEW t, NEW f, \A i \in I : t[i][f] \in Int
    PROVE  Sum(LAMBDA p : p.totals[f], {[first |-> i, totals |-> t[i]] : i \in I})
             = SumFunctionOnSet([i \in I |-> t[i][f]], I)
<1> DEFINE h == [i \in I |-> [first |-> i, totals |-> t[i]]]
           T == {h[i] : i \in I}
           F == [p \in T |-> p.totals[f]]
<1>1. \A i, j \in I : h[i] = h[j] => i = j
  OBVIOUS
<1>2. \A i \in I : F[h[i]] = t[i][f]
  OBVIOUS
<1>3. Sum(LAMBDA p : p.totals[f], T) = SumFunctionOnSet(F, T)
  BY DEF Sum, SumFunction
<1> HIDE DEF h, F
<1>4. SumFunctionOnSet(F, T) = SumFunctionOnSet([i \in I |-> F[h[i]]], I)
  BY <1>1, <1>2, SumImage
<1>5. [i \in I |-> F[h[i]]] = [i \in I |-> t[i][f]]
  BY <1>2
<1> QED
  BY <1>3, <1>4, <1>5 DEF h

LEMMA SumOfVenues ==
    ASSUME NEW I, IsFiniteSet(I), NEW t, NEW f, \A i \in I : t[i][f] \in Int
    PROVE  Sum(LAMBDA c : c.totals[f], {[venue |-> i, totals |-> t[i]] : i \in I})
             = SumFunctionOnSet([i \in I |-> t[i][f]], I)
<1> DEFINE h == [i \in I |-> [venue |-> i, totals |-> t[i]]]
           T == {h[i] : i \in I}
           F == [c \in T |-> c.totals[f]]
<1>1. \A i, j \in I : h[i] = h[j] => i = j
  OBVIOUS
<1>2. \A i \in I : F[h[i]] = t[i][f]
  OBVIOUS
<1>3. Sum(LAMBDA c : c.totals[f], T) = SumFunctionOnSet(F, T)
  BY DEF Sum, SumFunction
<1> HIDE DEF h, F
<1>4. SumFunctionOnSet(F, T) = SumFunctionOnSet([i \in I |-> F[h[i]]], I)
  BY <1>1, <1>2, SumImage
<1>5. [i \in I |-> F[h[i]]] = [i \in I |-> t[i][f]]
  BY <1>2
<1> QED
  BY <1>3, <1>4, <1>5 DEF h

----------------------------------------------------------------------------
(***************************************************************************)
(* The periods of the trend partition the days of a range.                 *)
(***************************************************************************)

LEMMA Multiples == \A k \in Nat \ {0}, a, b \in Nat : a < b => k * a + k <= k * b
<1> SUFFICES ASSUME NEW k \in Nat \ {0}, NEW a \in Nat, NEW b \in Nat, a < b PROVE k * a + k <= k * b
  OBVIOUS
<1> DEFINE j == b - a - 1
<1>1. j \in Nat /\ b = a + 1 + j
  OBVIOUS
<1> HIDE DEF j
<1>2. k * j \in Nat
  BY <1>1, ProductNat
<1>3. k * (a + 1 + j) = k * a + k + k * j
  BY <1>1
<1> QED
  BY <1>1, <1>2, <1>3

LEMMA PeriodOf ==
    ASSUME NEW n \in Nat, NEW k \in Nat \ {0}
    PROVE  \E q \in Nat : n - (n % k) = k * q /\ n % k \in 0 .. (k - 1)
<1> DEFINE q == n \div k
<1>1. q \in Nat /\ n % k \in 0 .. (k - 1)
  OBVIOUS
<1>2. n % k = n - k * q
  BY Z3
<1> HIDE DEF q
<1>3. k * q \in Int
  BY <1>1, ProductNat
<1>4. n - (n % k) = k * q
  <2> DEFINE m == k * q
  <2> HIDE DEF m
  <2>1. m \in Int /\ n % k = n - m
    BY <1>2, <1>3 DEF m
  <2>2. n - (n % k) = m
    BY <2>1
  <2> QED
    BY <2>2 DEF m
<1> QED
  BY <1>1, <1>4

LEMMA Periods ==
    ASSUME NEW length \in Nat \ {0}, NEW s \in Nat, NEW e \in Nat
    PROVE  /\ IsFiniteSet(TrendPeriods(length, s, e))
           /\ \A d \in s .. e : d - (d % length) \in TrendPeriods(length, s, e)
           /\ \A d \in s .. e, p \in TrendPeriods(length, s, e) :
                 d \in PeriodDays(p, length, s, e) <=> d - (d % length) = p
<1>1. PICK qs \in Nat : s - (s % length) = length * qs /\ s % length \in 0 .. (length - 1)
  BY PeriodOf
<1>2. length * qs \in Nat /\ s - (s % length) <= s
  BY <1>1, ProductNat
<1>3. IsFiniteSet(TrendPeriods(length, s, e))
  <2>1. IsFiniteSet((s - (s % length)) .. e)
    BY <1>1, <1>2, FS_Interval
  <2> QED
    BY <2>1, FS_Subset DEF TrendPeriods
<1>4. ASSUME NEW p \in TrendPeriods(length, s, e)
      PROVE  p \in Nat /\ p % length = 0 /\ \E q \in Nat : p = length * q
  <2>1. p \in Nat /\ p % length = 0
    BY <1>1, <1>2 DEF TrendPeriods
  <2>2. PICK q \in Nat : p - (p % length) = length * q
    BY <2>1, PeriodOf
  <2> QED
    BY <2>1, <2>2
<1>5. ASSUME NEW d \in s .. e
      PROVE  /\ d - (d % length) \in TrendPeriods(length, s, e)
             /\ \A p \in TrendPeriods(length, s, e) :
                   d \in PeriodDays(p, length, s, e) <=> d - (d % length) = p
  <2>1. d \in Nat
    OBVIOUS
  <2>2. PICK q \in Nat : d - (d % length) = length * q /\ d % length \in 0 .. (length - 1)
    BY <2>1, PeriodOf
  <2>3. length * q \in Nat /\ (length * q) % length = 0 /\ length * q <= d /\ d < length * q + length
    <3>1. length * q \in Nat
      BY ProductNat
    <3>2. (length * q) % length = 0
      <4>1. PICK k \in Nat : length * q - ((length * q) % length) = length * k
                             /\ (length * q) % length \in 0 .. (length - 1)
        BY <3>1, PeriodOf
      <4>2. length * k \in Nat
        BY ProductNat
      <4>3. ~(k < q)
        BY <4>1, <4>2, <3>1, Multiples
      <4>4. ~(q < k)
        BY <4>1, <4>2, <3>1, Multiples
      <4> QED
        BY <4>1, <4>2, <4>3, <4>4, <3>1
    <3> QED
      BY <2>1, <2>2, <3>1, <3>2
  <2>4. length * qs <= length * q
    <3>1. ~(q < qs)
      BY <1>1, <1>2, <2>3, Multiples
    <3>2. CASE q = qs
      BY <3>2, <1>2
    <3>3. CASE qs < q
      BY <3>3, <1>2, <2>3, Multiples
    <3> QED
      BY <3>1, <3>2, <3>3
  <2>5. d - (d % length) \in TrendPeriods(length, s, e)
    BY <1>1, <2>1, <2>2, <2>3, <2>4 DEF TrendPeriods
  <2>6. ASSUME NEW p \in TrendPeriods(length, s, e)
        PROVE  d \in PeriodDays(p, length, s, e) <=> d - (d % length) = p
    <3>1. p \in Nat /\ p % length = 0
      BY <1>4
    <3>2. PICK k \in Nat : p = length * k
      BY <1>4
    <3>3. d \in PeriodDays(p, length, s, e) <=> p <= d /\ d <= p + length - 1
      BY <3>1 DEF PeriodDays
    <3>4. CASE k = q
      BY <2>1, <2>2, <2>3, <3>1, <3>2, <3>3, <3>4
    <3>5. CASE k < q
      BY <2>1, <2>2, <2>3, <3>1, <3>2, <3>3, <3>5, Multiples
    <3>6. CASE q < k
      BY <2>1, <2>2, <2>3, <3>1, <3>2, <3>3, <3>6, Multiples
    <3> QED
      BY <3>4, <3>5, <3>6
  <2> QED
    BY <2>5, <2>6
<1> QED
  BY <1>3, <1>5

----------------------------------------------------------------------------
(***************************************************************************)
(* Summary, breakdown and trend.                                           *)
(***************************************************************************)

EventsOf(T) == {Event(r) : r \in T}

\* The breakdown looks for refunds with an income of the same amount: in a
\* range that is not refused these are all refunds of the venues.
LEMMA CellsAre ==
    ASSUME ReportsInv, NEW s, NEW e, ~Refusals(Venues, s, e), NEW g \in SUBSET Venues
    PROVE  loadProjectionBreakdownCells(g, s, e) =
             Totals({r \in EventIncomes(Venues, s, e) : r.venue \in g},
                    {r \in EventRefunds(Venues, s, e) : r.venue \in g})
<1> DEFINE A == {i \in IncomeBase(g) : InRange(i.at, s, e)}
           B == {r \in RefundRows : InRange(r.at, s, e)
                                    /\ \E i \in IncomeBase(g) : SameOwner(i, r) /\ i.amount = r.amount}
<1>1. A = {r \in EventIncomes(Venues, s, e) : r.venue \in g}
  BY DEF EventIncomes, Reported, IncomeBase
<1>2. ASSUME NEW r \in EventRefunds(Venues, s, e), r.venue \in g
      PROVE  r \in B
  <2>1. /\ r \in RefundRows /\ Canonical(r) /\ IsOnline(r.booking) /\ InRange(r.at, s, e)
        /\ r.amount = Price(r.booking) * Hundredths
    BY EventAmounts DEF EventRefunds, Reported, Price
  <2>2. PICK i \in IncomeRows : i.booking = r.booking
    BY <2>1, RefundFacts
  <2>3. Canonical(i) /\ i.amount = Price(i.booking) * Hundredths
    BY IncomeFacts DEF Price
  <2> QED
    BY <1>2, <2>1, <2>2, <2>3 DEF IncomeBase, SameOwner, Canonical
<1>3. ASSUME NEW r \in B PROVE r \in EventRefunds(Venues, s, e) /\ r.venue \in g
  <2>1. PICK i \in IncomeBase(g) : SameOwner(i, r) /\ i.amount = r.amount
    OBVIOUS
  <2> QED
    BY <2>1 DEF EventRefunds, Reported, IncomeBase, SameOwner, Canonical
<1>4. B = {r \in EventRefunds(Venues, s, e) : r.venue \in g}
  BY <1>2, <1>3 DEF EventRefunds
<1>5. loadProjectionBreakdownCells(g, s, e) = Totals(A, B)
  BY DEF loadProjectionBreakdownCells
<1> QED
  BY <1>1, <1>4, <1>5, Zenon

\* The events of a range as sets that can be summed.
LEMMA EventsCounted ==
    ASSUME ReportsInv, NEW scope, NEW s, NEW e, ~Refusals(scope, s, e), NEW T, RowsOfEvents(T, scope, s, e)
    PROVE  /\ IsFiniteSet(EventsOf(T)) /\ EventsOf(T) \subseteq Events
           /\ \A x \in EventsOf(T) : x.amount \in Int /\ x.commission \in Int /\ x.venue \in Venues
           /\ \A x \in EventsOf(T) : \E r \in T : x = Event(r) /\ x.at = r.at /\ x.venue = r.venue /\ InRange(r.at, s, e)
<1>1. IsFiniteSet(EventsOf(T))
  BY EventSums DEF EventsOf
<1>2. T \subseteq EventIncomes(scope, s, e) \cup EventRefunds(scope, s, e)
  BY DEF RowsOfEvents
<1>3. EventsOf(T) \subseteq Events
  BY <1>2, EventType DEF EventsOf
<1>4. \A r \in T : InRange(r.at, s, e)
  BY <1>2 DEF EventIncomes, EventRefunds, Reported
<1> QED
  BY <1>1, <1>3, <1>4 DEF EventsOf, Event, Events


PartSum(f, parts) == Sum(LAMBDA p : p.totals[f], parts)

LEMMA TrendAgrees ==
    ASSUME ReportsInv, NEW s \in Nat, NEW e \in Nat, ~Refusals(Venues, s, e),
           NEW length \in Nat \ {0}, NEW f \in FigureNames
    PROVE  Figures(EventsOf(EventIncomes(Venues, s, e)), EventsOf(EventRefunds(Venues, s, e)))[f]
             = PartSum(f, buildContinuousBuckets([incomes |-> EventsOf(EventIncomes(Venues, s, e)),
                                                  refunds |-> EventsOf(EventRefunds(Venues, s, e))],
                                                 length, s, e))
<1> DEFINE E == EventsOf(EventIncomes(Venues, s, e))
           R == EventsOf(EventRefunds(Venues, s, e))
           events == [incomes |-> E, refunds |-> R]
           P == TrendPeriods(length, s, e)
           g == [x \in E \cup R |-> DayOf(x.at) - (DayOf(x.at) % length)]
           During(S, p) == {x \in S : DayOf(x.at) \in PeriodDays(p, length, s, e)}
           t == [p \in P |-> Figures(During(E, p), During(R, p))]
<1>1. /\ RowsOfEvents(EventIncomes(Venues, s, e), Venues, s, e)
      /\ RowsOfEvents(EventRefunds(Venues, s, e), Venues, s, e)
  BY DEF RowsOfEvents
<1>2. /\ IsFiniteSet(E) /\ IsFiniteSet(R)
      /\ \A x \in E \cup R : x.amount \in Int /\ x.commission \in Int /\ DayOf(x.at) \in s .. e
  BY <1>1, EventsCounted DEF InRange
<1>3. IsFiniteSet(P)
  BY Periods
<1>4. \A x \in E \cup R : g[x] \in P
  BY <1>2, Periods
<1>5. \A p \in P : /\ {x \in E : g[x] = p} = During(E, p)
                   /\ {x \in R : g[x] = p} = During(R, p)
  BY <1>2, Periods
<1>6. buildContinuousBuckets(events, length, s, e) = {[first |-> p, totals |-> t[p]] : p \in P}
  BY DEF buildContinuousBuckets
<1> HIDE DEF E, R, P, g, During
<1>7. /\ Figures(E, R)[f] =
           SumFunctionOnSet([p \in P |-> Figures({x \in E : g[x] = p}, {x \in R : g[x] = p})[f]], P)
      /\ \A p \in P : Figures({x \in E : g[x] = p}, {x \in R : g[x] = p})[f] \in Int
  <2>1. Counted(E \cup R) /\ Grouped(E \cup R, g, P)
    BY <1>2, <1>4 DEF Counted, Grouped
  <2>2. FiguresAddUp(E, R, g, P, f)
    BY <1>2, <1>3, <2>1, FiguresAdd
  <2> QED
    BY <2>2 DEF FiguresAddUp
<1>8. \A p \in P : t[p][f] = Figures({x \in E : g[x] = p}, {x \in R : g[x] = p})[f]
  BY <1>5
<1> HIDE DEF t
<1>9. Figures(E, R)[f] = SumFunctionOnSet([p \in P |-> t[p][f]], P)
  BY <1>7, <1>8
<1>10. Sum(LAMBDA p : p.totals[f], {[first |-> p, totals |-> t[p]] : p \in P})
         = SumFunctionOnSet([p \in P |-> t[p][f]], P)
  <2>1. \A p \in P : t[p][f] \in Int
    BY <1>7, <1>8
  <2> QED
    BY <1>3, <2>1, SumOfPeriods
<1>11. Figures(E, R)[f] = PartSum(f, buildContinuousBuckets(events, length, s, e))
  BY <1>6, <1>9, <1>10 DEF PartSum
<1> QED
  BY <1>11 DEF E, R

\* The figures of the venues add up to those of the range.
LEMMA VenuesAddUp ==
    ASSUME ReportsInv, NEW s, NEW e, ~Refusals(Venues, s, e), NEW f \in FigureNames
    PROVE  Totals(EventIncomes(Venues, s, e), EventRefunds(Venues, s, e))[f]
             = Sum(LAMBDA c : c.totals[f],
                   {[venue |-> v, totals |-> loadProjectionBreakdownCells({v}, s, e)] : v \in Venues})
<1> DEFINE A == EventIncomes(Venues, s, e)
           B == EventRefunds(Venues, s, e)
           E == EventsOf(A)
           R == EventsOf(B)
           g == [x \in E \cup R |-> x.venue]
           t == [v \in Venues |-> loadProjectionBreakdownCells({v}, s, e)]
<1>1. RowsOfEvents(A, Venues, s, e) /\ RowsOfEvents(B, Venues, s, e)
  BY DEF RowsOfEvents
<1>2. /\ IsFiniteSet(E) /\ IsFiniteSet(R) /\ IsFiniteSet(Venues)
      /\ \A x \in E \cup R : x.amount \in Int /\ x.commission \in Int /\ x.venue \in Venues
  BY <1>1, EventsCounted, ReportsAssumption
<1>3. Counted(E \cup R) /\ Grouped(E \cup R, g, Venues)
  BY <1>2 DEF Counted, Grouped
<1>4. \A v : {x \in E : x.venue = v} = EventsOf({r \in A : r.venue \in {v}})
             /\ {x \in R : x.venue = v} = EventsOf({r \in B : r.venue \in {v}})
  <2> HIDE DEF A, B
  <2> QED
    BY DEF EventsOf, Event
<1>5. \A v : {x \in E : g[x] = v} = {x \in E : x.venue = v} /\ {x \in R : g[x] = v} = {x \in R : x.venue = v}
  OBVIOUS
<1>6. \A v \in Venues : t[v] = Totals({r \in A : r.venue \in {v}}, {r \in B : r.venue \in {v}})
  BY CellsAre
<1>7. \A v \in Venues : Figures({x \in E : g[x] = v}, {x \in R : g[x] = v}) = t[v]
  <2> SUFFICES ASSUME NEW v \in Venues PROVE Figures({x \in E : g[x] = v}, {x \in R : g[x] = v}) = t[v]
    OBVIOUS
  <2> DEFINE Av == {r \in A : r.venue \in {v}}
             Bv == {r \in B : r.venue \in {v}}
  <2>1. Av \in SUBSET A /\ Bv \in SUBSET B
    OBVIOUS
  <2> HIDE DEF Av, Bv
  <2>2. Figures(EventsOf(Av), EventsOf(Bv)) = Totals(Av, Bv)
    BY <2>1, FiguresOfRows DEF EventsOf
  <2> HIDE DEF g, t, E, R, A, B
  <2> QED
    BY <1>4, <1>5, <1>6, <2>2 DEF Av, Bv
<1>8. Figures(E, R) = Totals(A, B)
  BY FiguresOfRows DEF EventsOf
<1>9. {[venue |-> v, totals |-> t[v]] : v \in Venues}
        = {[venue |-> v, totals |-> loadProjectionBreakdownCells({v}, s, e)] : v \in Venues}
  OBVIOUS
<1> HIDE DEF A, B, E, R, g, t
<1>10. FiguresAddUp(E, R, g, Venues, f)
  BY <1>2, <1>3, FiguresAdd
<1>11. /\ Figures(E, R)[f] = SumFunctionOnSet([v \in Venues |-> t[v][f]], Venues)
       /\ \A v \in Venues : t[v][f] \in Int
  BY <1>7, <1>10 DEF FiguresAddUp
<1>12. Sum(LAMBDA c : c.totals[f], {[venue |-> v, totals |-> t[v]] : v \in Venues})
         = SumFunctionOnSet([v \in Venues |-> t[v][f]], Venues)
  BY <1>2, <1>11, SumOfVenues
<1> QED
  BY <1>8, <1>9, <1>11, <1>12 DEF A, B

\* Each row of the breakdown is what the summary holds for its venues.
LEMMA GroupAgrees ==
    ASSUME ReportsInv, NEW s, NEW e, ~Refusals(Venues, s, e), NEW g \in SUBSET Venues
    PROVE  loadProjectionBreakdownCells(g, s, e)
             = Figures({x \in EventsOf(EventIncomes(Venues, s, e)) : x.venue \in g},
                       {x \in EventsOf(EventRefunds(Venues, s, e)) : x.venue \in g})
<1> DEFINE A == {r \in EventIncomes(Venues, s, e) : r.venue \in g}
           B == {r \in EventRefunds(Venues, s, e) : r.venue \in g}
<1>1. A \in SUBSET EventIncomes(Venues, s, e) /\ B \in SUBSET EventRefunds(Venues, s, e)
  OBVIOUS
<1>2. loadProjectionBreakdownCells(g, s, e) = Totals(A, B)
  BY CellsAre
<1>3. /\ {x \in EventsOf(EventIncomes(Venues, s, e)) : x.venue \in g} = EventsOf(A)
      /\ {x \in EventsOf(EventRefunds(Venues, s, e)) : x.venue \in g} = EventsOf(B)
  BY DEF EventsOf, Event
<1> HIDE DEF A, B
<1>4. Figures(EventsOf(A), EventsOf(B)) = Totals(A, B)
  BY <1>1, FiguresOfRows DEF EventsOf
<1> QED
  BY <1>2, <1>3, <1>4

LEMMA Agreement == ReportsInv => ReportsAgree
<1> SUFFICES ASSUME ReportsInv, NEW s \in Days, NEW e \in Days,
                    loadProjectionEvents(Venues, s, e) # None
             PROVE  LET events == loadProjectionEvents(Venues, s, e)
                        summary == aggregateProjection(Venues, events.incomes, events.refunds)
                        owned(o) == {v \in Venues : OwnerOf[v] = o}
                        byVenue == getProjectionBreakdown({{v} : v \in Venues}, Venues, s, e)
                        byOwner == getProjectionBreakdown({owned(o) : o \in DOMAIN summary.topOwners}, Venues, s, e)
                    IN  /\ \A length \in {DetermineGranularity(s, e), WeekDays, MonthDays} :
                              LET trend == buildContinuousBuckets(events, length, s, e)
                              IN  \A f \in DOMAIN summary.total :
                                    summary.total[f] = Sum(LAMBDA p : p.totals[f], trend)
                        /\ \A v \in Venues : byVenue[{v}] = summary.topVenues[v]
                        /\ \A o \in DOMAIN summary.topOwners : byOwner[owned(o)] = summary.topOwners[o]
  BY DEF ReportsAgree
<1> DEFINE E == EventsOf(EventIncomes(Venues, s, e))
           R == EventsOf(EventRefunds(Venues, s, e))
           events == [incomes |-> E, refunds |-> R]
           summary == aggregateProjection(Venues, E, R)
           owned(o) == {v \in Venues : OwnerOf[v] = o}
           owners == {OwnerOf[v] : v \in Venues}
<1>1. ~Refusals(Venues, s, e)
  BY LoadedIsView
<1>2. loadProjectionEvents(Venues, s, e) = events
  BY <1>1, Loaded DEF EventsOf
<1>3. s \in Nat /\ e \in Nat
  BY DEF Days
<1>4. ASSUME NEW length \in {DetermineGranularity(s, e), WeekDays, MonthDays}
      PROVE  length \in Nat \ {0}
  BY Parameters DEF DetermineGranularity
<1>5. /\ summary.total = Figures(E, R)
      /\ summary.topVenues = [v \in Venues |-> Figures({x \in E : x.venue \in {v}}, {x \in R : x.venue \in {v}})]
      /\ summary.topOwners = [o \in owners |-> Figures({x \in E : x.venue \in owned(o)}, {x \in R : x.venue \in owned(o)})]
  BY DEF aggregateProjection
<1>6. ASSUME NEW length \in Nat \ {0}, NEW f \in DOMAIN summary.total
      PROVE  summary.total[f] = PartSum(f, buildContinuousBuckets(events, length, s, e))
  <2>1. f \in FigureNames
    BY <1>5, FigureNamesOf
  <2> QED
    BY <1>1, <1>3, <1>5, <2>1, TrendAgrees
<1>7. ASSUME NEW v \in Venues
      PROVE  getProjectionBreakdown({{w} : w \in Venues}, Venues, s, e)[{v}] = summary.topVenues[v]
  <2>1. getProjectionBreakdown({{w} : w \in Venues}, Venues, s, e)
          = [h \in {{w} : w \in Venues} |-> loadProjectionBreakdownCells(h \cap Venues, s, e)]
    BY DEF getProjectionBreakdown
  <2>2. {v} \cap Venues = {v} /\ {v} \in {{w} : w \in Venues} /\ {v} \in SUBSET Venues
    OBVIOUS
  <2>3. loadProjectionBreakdownCells({v}, s, e) = Figures({x \in E : x.venue \in {v}}, {x \in R : x.venue \in {v}})
    BY <1>1, <2>2, GroupAgrees
  <2> HIDE DEF E, R, summary
  <2> QED
    BY <1>5, <2>1, <2>2, <2>3
<1>8. ASSUME NEW o \in owners, NEW groups, owned(o) \in groups
      PROVE  getProjectionBreakdown(groups, Venues, s, e)[owned(o)] = summary.topOwners[o]
  <2>1. getProjectionBreakdown(groups, Venues, s, e)
          = [h \in groups |-> loadProjectionBreakdownCells(h \cap Venues, s, e)]
    BY DEF getProjectionBreakdown
  <2> DEFINE w == owned(o)
  <2>2. w \cap Venues = w /\ w \in SUBSET Venues
    OBVIOUS
  <2> HIDE DEF w
  <2>3. loadProjectionBreakdownCells(w, s, e) = Figures({x \in E : x.venue \in w}, {x \in R : x.venue \in w})
    BY <1>1, <2>2, GroupAgrees
  <2>4. getProjectionBreakdown(groups, Venues, s, e)[w] = loadProjectionBreakdownCells(w, s, e)
    BY <1>8, <2>1, <2>2 DEF w
  <2>5. summary.topOwners[o] = Figures({x \in E : x.venue \in w}, {x \in R : x.venue \in w})
    <3> HIDE DEF E, R, summary
    <3> QED
      BY <1>5, <1>8 DEF w
  <2> QED
    BY <2>3, <2>4, <2>5 DEF w
<1>9. DOMAIN summary.topOwners = owners
  BY <1>5
<1> HIDE DEF E, R, summary
<1>10. \A o \in owners :
         getProjectionBreakdown({owned(q) : q \in owners}, Venues, s, e)[owned(o)] = summary.topOwners[o]
  BY <1>8
<1> DEFINE ev == loadProjectionEvents(Venues, s, e)
           sum  == aggregateProjection(Venues, ev.incomes, ev.refunds)
<1>11. ev = events /\ ev.incomes = E /\ ev.refunds = R
  BY <1>2
<1> HIDE DEF owners, ev, owned
<1>12. sum = summary
  BY <1>11 DEF summary
<1> HIDE DEF sum, events
<1>13. \A length \in {DetermineGranularity(s, e), WeekDays, MonthDays} :
          \A f \in DOMAIN sum.total : sum.total[f] = PartSum(f, buildContinuousBuckets(ev, length, s, e))
  BY <1>4, <1>6, <1>11, <1>12
<1>14. \A v \in Venues : getProjectionBreakdown({{w} : w \in Venues}, Venues, s, e)[{v}] = sum.topVenues[v]
  BY <1>7, <1>12
<1>15. \A o \in DOMAIN sum.topOwners :
          getProjectionBreakdown({owned(q) : q \in DOMAIN sum.topOwners}, Venues, s, e)[owned(o)] = sum.topOwners[o]
  BY <1>9, <1>10, <1>12
<1> QED
  BY <1>13, <1>14, <1>15, Zenon DEF sum, ev, owned, PartSum

----------------------------------------------------------------------------
(***************************************************************************)
(* The reconciliation report.                                              *)
(***************************************************************************)

Found(s, e) == LedgerIssues(s, e) \cup SourceIssues(s, e) \cup CoverageIssues(s, e)

ReportOf(s, e, events, issues) ==
    [online |-> evaluateOnline(events, issues, s, e), snapshot |-> evaluateSnapshot(issues, s, e),
     offline |-> evaluateOffline(issues, s, e), refund |-> evaluateRefund(events, issues),
     duplicates |-> evaluateDuplicates(issues), rollups |-> evaluateRollups(events, issues, s, e)]

LEMMA ReconcileIs ==
    \A s, e : Reconcile(s, e) =
        IF Found(s, e) # {} THEN ReportOf(s, e, None, Found(s, e))
        ELSE IF loadProjectionEvents(Venues, s, e) = None THEN ReportOf(s, e, None, {"SNAPSHOT_MISMATCH"})
        ELSE ReportOf(s, e, loadProjectionEvents(Venues, s, e), {})
<1> SUFFICES ASSUME NEW s, NEW e
             PROVE  Reconcile(s, e) =
                      IF Found(s, e) # {} THEN ReportOf(s, e, None, Found(s, e))
                      ELSE IF loadProjectionEvents(Venues, s, e) = None THEN ReportOf(s, e, None, {"SNAPSHOT_MISMATCH"})
                      ELSE ReportOf(s, e, loadProjectionEvents(Venues, s, e), {})
  OBVIOUS
<1> DEFINE found == LedgerIssues(s, e) \cup SourceIssues(s, e) \cup CoverageIssues(s, e)
           events == IF found # {} THEN None ELSE loadProjectionEvents(Venues, s, e)
           issues == IF found = {} /\ events = None THEN {"SNAPSHOT_MISMATCH"} ELSE found
<1>1. Reconcile(s, e) = ReportOf(s, e, events, issues)
  BY DEF Reconcile, ReportOf
<1>2. found = Found(s, e)
  BY DEF Found
<1> HIDE DEF found
<1> QED
  BY <1>1, <1>2

LEMMA CleanIs ==
    ASSUME NEW s, NEW e, NEW events, NEW issues, Reconcile(s, e) = ReportOf(s, e, events, issues)
    PROVE  Clean(s, e) <=> /\ evaluateOnline(events, issues, s, e) = "PASS" /\ evaluateSnapshot(issues, s, e) = "PASS"
                           /\ evaluateOffline(issues, s, e) = "PASS" /\ evaluateRefund(events, issues) = "PASS"
                           /\ evaluateDuplicates(issues) = "PASS" /\ evaluateRollups(events, issues, s, e) = "PASS"
  BY DEF Clean, ReportOf

\* An issue of these kinds fails a check.
LEMMA IssueShows ==
    ASSUME NEW s, NEW e,
           NEW c \in {"PAID_WITHOUT_LEDGER", "FRACTIONAL_LEDGER", "ORPHAN_REFUND", "REFUND_MISMATCH"},
           c \in Found(s, e)
    PROVE  ~Clean(s, e)
<1>1. Reconcile(s, e) = ReportOf(s, e, None, Found(s, e))
  BY ReconcileIs
<1>2. CASE c \in {"PAID_WITHOUT_LEDGER", "FRACTIONAL_LEDGER"}
  <2>1. evaluateOnline(None, Found(s, e), s, e) = "FAIL"
    BY <1>2 DEF evaluateOnline, CheckStatus
  <2> QED
    BY <1>1, <2>1, CleanIs
<1>3. CASE c \in {"ORPHAN_REFUND", "REFUND_MISMATCH"}
  <2>1. evaluateRefund(None, Found(s, e)) = "FAIL"
    BY <1>3 DEF evaluateRefund, CheckStatus
  <2> QED
    BY <1>1, <2>1, CleanIs
<1> QED
  BY <1>2, <1>3

LEMMA FaultShows ==
    ASSUME ReportsInv, NEW s, NEW e, Faulty(s, e)
    PROVE  ~Clean(s, e)
<1>1. CASE \E b \in Created : book[b].via = "GATEWAY" /\ InRange(book[b].created, s, e)
  <2>1. PICK b \in Created : book[b].via = "GATEWAY" /\ InRange(book[b].created, s, e)
    BY <1>1
  <2>2. b \in Ids /\ BookFollows(b) /\ book[b].status \in BookStatuses /\ book[b].status # "none"
    BY BooksFollow DEF Created, ReportsInv, TypeOK
  <2>3. book[b].status \in {"PAID", "COMPLETED"} /\ IsOnline(b) /\ ~HasIncome(b)
    BY <2>1, <2>2 DEF BookFollows, PaidBy, BookStatuses
  <2>4. Incomes(b) = {}
    BY <2>2, <2>3, IncomesAre DEF ReportsInv
  <2>5. Facts[b].venue \in Venues
    BY <2>2, Parameters
  <2>6. b \in PaidWithoutLedger(Venues, s, e)
    BY <2>1, <2>3, <2>4, <2>5 DEF PaidWithoutLedger
  <2>7. "PAID_WITHOUT_LEDGER" \in CoverageIssues(s, e)
    BY <2>6 DEF CoverageIssues, When
  <2> QED
    BY <2>7, IssueShows DEF Found
<1>2. CASE \E r \in ledger : InRange(r.at, s, e) /\ r.amount % Hundredths # 0
  <2>1. Fractional(s, e) # {}
    BY <1>2 DEF Fractional, Whole
  <2>2. "FRACTIONAL_LEDGER" \in LedgerIssues(s, e)
    BY <2>1 DEF LedgerIssues, When
  <2> QED
    BY <2>2, IssueShows DEF Found
<1>3. CASE \E r \in ledger : /\ InRange(r.at, s, e) /\ r.edited /\ r.source = "REFUND" /\ r.type = "EXPENSE"
                             /\ r.amount # Facts[r.booking].price * Hundredths \/ r.venue # Facts[r.booking].venue
  <2>1. PICK r \in RefundRows : /\ InRange(r.at, s, e)
                                /\ r.amount # Facts[r.booking].price * Hundredths \/ r.venue # Facts[r.booking].venue
    BY <1>3 DEF RefundRows
  <2>2. CASE r.venue # Facts[r.booking].venue
    <3>1. r \in OrphanRefunds(s, e)
      BY <2>1, <2>2 DEF OrphanRefunds, Canonical
    <3>2. "ORPHAN_REFUND" \in CoverageIssues(s, e)
      BY <3>1 DEF CoverageIssues, When
    <3> QED
      BY <3>2, IssueShows DEF Found
  <2>3. CASE r.venue = Facts[r.booking].venue
    <3>1. PICK i \in IncomeRows : i.booking = r.booking
      BY RefundFacts
    <3>2. SameOwner(i, r) /\ i.amount # r.amount
      BY <2>1, <2>3, <3>1, IncomeFacts, RefundFacts DEF SameOwner
    <3>3. r \in {q \in RefundRows : InRange(q.at, s, e) /\ \E j \in IncomeRows : SameOwner(j, q) /\ j.amount # q.amount}
      BY <2>1, <3>2
    <3>4. "REFUND_MISMATCH" \in CoverageIssues(s, e)
      BY <3>3 DEF CoverageIssues, When
    <3> QED
      BY <3>4, IssueShows DEF Found
  <2> QED
    BY <2>2, <2>3
<1> QED
  BY <1>1, <1>2, <1>3 DEF Faulty

\* A range without fault: its refunds are as the cancellation wrote them.
LEMMA SoundRefunds ==
    ASSUME ReportsInv, NEW s, NEW e, ~Faulty(s, e), NEW r \in RefundRows, InRange(r.at, s, e)
    PROVE  /\ Canonical(r)
           /\ \E i \in IncomeRows : SameOwner(i, r)
           /\ \A i \in IncomeRows : i.booking = r.booking => i.amount = r.amount
<1>1. r \in ledger /\ r.source = "REFUND" /\ r.type = "EXPENSE" /\ r.edited \in BOOLEAN
  BY DEF RefundRows, ReportsInv, TypeOK, Rows
<1>2. r.venue = Facts[r.booking].venue /\ r.amount = Facts[r.booking].price * Hundredths
  BY <1>1, RefundFacts DEF Faulty
<1>3. Canonical(r)
  BY <1>2, RefundFacts DEF Canonical
<1>4. \A i \in IncomeRows : i.booking = r.booking =>
         SameOwner(i, r) /\ i.amount = Facts[r.booking].price * Hundredths
  BY <1>2, <1>3, IncomeFacts DEF SameOwner, Canonical
<1> QED
  BY <1>2, <1>3, <1>4, RefundFacts

LEMMA NothingFound ==
    ASSUME ReportsInv, NEW s, NEW e, ~Faulty(s, e)
    PROVE  Found(s, e) = {} /\ ~Refusals(Venues, s, e) /\ PaidWithoutLedger(Venues, s, e) = {}
           /\ LedgerWithoutBooking(Venues, s, e) = {}
<1>1. Fractional(s, e) = {}
  BY DEF Faulty, Fractional, Whole
<1>2. LedgerIssues(s, e) = {}
  BY <1>1, NothingDamaged DEF LedgerIssues, When
<1>3. SourceIssues(s, e) = {}
  <2> DEFINE backed(r) == Canonical(r) /\ InRange(r.at, s, e) /\ snap[r.booking] # None
  <2>1. {r \in IncomeRows : backed(r) /\ r.amount # snap[r.booking].final * Hundredths} = {}
    BY IncomeFacts, SnapFacts
  <2>2. ASSUME NEW r \in OnlineIncomes(s, e)
        PROVE  /\ r.booking \in Created /\ IsOnline(r.booking)
               /\ r.amount = Facts[r.booking].price * Hundredths
    BY IncomeFacts DEF OnlineIncomes, IncomeBase
  <2>3. {r \in OnlineIncomes(s, e) : backed(r) /\ snap[r.booking].channel # Online} = {}
    BY <2>2, SnapFacts DEF IsOnline
  <2>4. {r \in OnlineIncomes(s, e) : /\ snap[r.booking] = None /\ Whole(r.amount)
                                     /\ r.amount # SourceAmount(r.booking) * Hundredths} = {}
    BY <2>2 DEF SourceAmount
  <2> QED
    BY <2>1, <2>3, <2>4 DEF SourceIssues, When
<1>4. PaidWithoutLedger(Venues, s, e) = {}
  <2> SUFFICES ASSUME NEW b \in Created, book[b].status \in {"PAID", "COMPLETED"}, InRange(book[b].created, s, e)
               PROVE  \E r \in Incomes(b) : Canonical(r)
    BY DEF PaidWithoutLedger
  <2>1. b \in Ids /\ BookFollows(b)
    BY BooksFollow DEF Created, ReportsInv
  <2>2. book[b].via = "OWNER"
    BY <2>1 DEF Faulty, BookFollows, PaidBy
  <2>3. Incomes(b) # {}
    BY <2>1, <2>2, IncomesAre DEF BookFollows, ReportsInv
  <2> QED
    BY <2>3, IncomeFacts DEF Incomes, IncomeRows
<1>5. LedgerWithoutBooking(Venues, s, e) = {}
  BY IncomeFacts DEF LedgerWithoutBooking
<1>6. OrphanRefunds(s, e) = {}
  BY SoundRefunds DEF OrphanRefunds
<1>7. {r \in RefundRows : /\ InRange(r.at, s, e)
                          /\ \E i \in IncomeRows : SameOwner(i, r) /\ i.amount # r.amount} = {}
  BY SoundRefunds DEF SameOwner
<1>8. {b \in PaidBookings(s, e) : ~IsOnline(b) /\ PaysCommission(b)} = {}
  BY SnapFacts DEF PaidBookings, PaysCommission
<1>9. CoverageIssues(s, e) = {}
  BY <1>4, <1>5, <1>6, <1>7, <1>8 DEF CoverageIssues, When
<1>10. ~Refusals(Venues, s, e)
  <2> SUFFICES ASSUME NEW r \in EventRefunds(Venues, s, e) PROVE ~Mismatched(r)
    BY <1>1, <1>6 DEF Refusals
  <2>1. r \in RefundRows /\ InRange(r.at, s, e)
    BY DEF EventRefunds, Reported
  <2>2. \A i \in Incomes(r.booking) : i \in IncomeRows /\ i.booking = r.booking
    BY DEF Incomes, IncomeRows
  <2> QED
    BY <2>1, <2>2, SoundRefunds DEF Mismatched
<1> QED
  BY <1>2, <1>3, <1>4, <1>5, <1>9, <1>10 DEF Found

\* The source of each day's online income is its ledger.
LEMMA SourcesAgree ==
    ASSUME ReportsInv, NEW s, NEW e, ~Faulty(s, e), NEW d
    PROVE  LET source(r) == SourceAmount(r.booking)
           IN  Rupiah(Sum(Amount, OnDay(d, OnlineIncomes(s, e)))) = Sum(source, OnDay(d, OnlineIncomes(s, e)))
<1> DEFINE T == OnDay(d, OnlineIncomes(s, e))
           S == [r \in T |-> SourceAmount(r.booking)]
           A == [r \in T |-> r.amount]
           source(r) == SourceAmount(r.booking)
<1>1. T \subseteq ledger /\ T \subseteq IncomeRows
  BY DEF OnDay, OnlineIncomes, IncomeBase, IncomeRows
<1>2. IsFiniteSet(T)
  BY <1>1, FS_Subset DEF ReportsInv
<1>3. \A r \in T : A[r] = S[r] * Hundredths /\ S[r] \in Int
  <2> SUFFICES ASSUME NEW r \in T PROVE A[r] = S[r] * Hundredths /\ S[r] \in Int
    OBVIOUS
  <2>1. r.booking \in Created /\ r.booking \in Ids /\ r.amount = Facts[r.booking].price * Hundredths
    BY <1>1, IncomeFacts
  <2>2. SourceAmount(r.booking) = Facts[r.booking].price /\ Facts[r.booking].price \in Int
    BY <2>1, SnapFacts, Parameters DEF SourceAmount
  <2> QED
    BY <2>1, <2>2
<1>4. Sum(Amount, T) = SumFunctionOnSet(A, T) /\ Sum(source, T) = SumFunctionOnSet(S, T)
  BY DEF Sum, SumFunction, Amount
<1> HIDE DEF T, S, A
<1>5. Summable(S, T)
  BY <1>3 DEF Summable
<1>6. SumFunctionOnSet(A, T) = SumFunctionOnSet(S, T) * Hundredths
  <2>1. Hundredths \in Int
    BY DEF Hundredths
  <2> QED
    BY <1>2, <1>3, <1>5, <2>1, SumScaled
<1>7. SumFunctionOnSet(S, T) \in Int
  BY <1>2, <1>5, SumType
<1>8. \A n \in Int : Rupiah(n * Hundredths) = n
  BY DEF Rupiah, Hundredths
<1>9. Rupiah(Sum(Amount, T)) = Sum(source, T)
  BY <1>4, <1>6, <1>7, <1>8
<1> QED
  BY <1>9 DEF T

\* Summary, trend and breakdown of a day.
LEMMA DayAgrees ==
    ASSUME ReportsInv, NEW s, NEW e, ~Refusals(Venues, s, e), NEW d \in s .. e
    PROVE  LET summary == Figures(OnDay(d, EventsOf(EventIncomes(Venues, s, e))),
                                  OnDay(d, EventsOf(EventRefunds(Venues, s, e))))
           IN  /\ summary = loadReconciliationTrendTotals(d)
               /\ \A f \in DOMAIN summary :
                     summary[f] = PartSum(f, {[venue |-> v, totals |-> loadProjectionBreakdownCells({v}, d, d)]
                                              : v \in Venues})
<1> DEFINE A == EventIncomes(Venues, d, d)
           B == EventRefunds(Venues, d, d)
<1>1. ASSUME NEW t PROVE InRange(t, d, d) <=> InRange(t, s, e) /\ DayOf(t) = d
  BY DEF InRange
<1>2. /\ A = {r \in EventIncomes(Venues, s, e) : DayOf(r.at) = d}
      /\ B = {r \in EventRefunds(Venues, s, e) : DayOf(r.at) = d}
  BY <1>1 DEF EventIncomes, EventRefunds, Reported
<1>3. ~Refusals(Venues, d, d)
  <2>1. Fractional(d, d) \subseteq Fractional(s, e) /\ OrphanRefunds(d, d) \subseteq OrphanRefunds(s, e)
    BY <1>1 DEF Fractional, OrphanRefunds
  <2> QED
    BY <1>2, <2>1 DEF Refusals
<1>4. /\ OnDay(d, EventsOf(EventIncomes(Venues, s, e))) = EventsOf(A)
      /\ OnDay(d, EventsOf(EventRefunds(Venues, s, e))) = EventsOf(B)
  <2> HIDE DEF A, B
  <2> QED
    BY <1>2 DEF OnDay, EventsOf, Event
<1>5. Figures(EventsOf(A), EventsOf(B)) = Totals(A, B)
  BY <1>3, FiguresOfRows DEF EventsOf
<1>6. loadReconciliationTrendTotals(d) = Totals(A, B)
  <2>1. /\ {r \in A : r.venue \in Venues} = A
        /\ {r \in B : r.venue \in Venues} = B
    BY DEF EventIncomes, EventRefunds, Reported
  <2>2. Venues \in SUBSET Venues
    OBVIOUS
  <2>3. loadProjectionBreakdownCells(Venues, d, d)
          = Totals({r \in A : r.venue \in Venues}, {r \in B : r.venue \in Venues})
    BY <1>3, <2>2, CellsAre
  <2> HIDE DEF A, B
  <2> QED
    BY <2>1, <2>3 DEF loadReconciliationTrendTotals
<1>7. \A f \in FigureNames :
         Totals(A, B)[f] = PartSum(f, {[venue |-> v, totals |-> loadProjectionBreakdownCells({v}, d, d)] : v \in Venues})
  BY <1>3, VenuesAddUp DEF PartSum
<1> HIDE DEF A, B
<1> QED
  BY <1>4, <1>5, <1>6, <1>7, FigureNamesOf

\* Without fault every check passes.
LEMMA NoFaultPasses ==
    ASSUME ReportsInv, NEW s, NEW e, ~Faulty(s, e)
    PROVE  Clean(s, e)
<1> DEFINE ev == loadProjectionEvents(Venues, s, e)
<1>1. Found(s, e) = {} /\ ~Refusals(Venues, s, e)
  BY NothingFound
<1>2. ev # None /\ ev.incomes = EventsOf(EventIncomes(Venues, s, e)) /\ ev.refunds = EventsOf(EventRefunds(Venues, s, e))
  <2>1. ev # None
    BY <1>1, LoadedIsView
  <2>2. ev = [incomes |-> EventsOf(EventIncomes(Venues, s, e)), refunds |-> EventsOf(EventRefunds(Venues, s, e))]
    BY <1>1, Loaded DEF EventsOf
  <2> HIDE DEF ev
  <2> QED
    BY <2>1, <2>2
<1>3. Reconcile(s, e) = ReportOf(s, e, ev, {})
  BY <1>1, <1>2, ReconcileIs
<1> HIDE DEF ev
<1>4. evaluateOnline(ev, {}, s, e) = "PASS"
  <2> DEFINE source(r) == SourceAmount(r.booking)
             differs(d) == Rupiah(Sum(Amount, OnDay(d, OnlineIncomes(s, e)))) # Sum(source, OnDay(d, OnlineIncomes(s, e)))
  <2>1. \A d : ~differs(d)
    BY SourcesAgree
  <2>2. evaluateOnline(ev, {}, s, e) =
          CheckStatus(ev = None, ev # None /\ \E d \in s .. e : differs(d), {},
                      {"DUPLICATE_INCOME", "FRACTIONAL_LEDGER", "SOURCE_LEDGER_MISMATCH",
                       "LEDGER_WITHOUT_BOOKING", "PAID_WITHOUT_LEDGER", "SNAPSHOT_MISMATCH"})
    BY DEF evaluateOnline
  <2> HIDE DEF differs
  <2> QED
    BY <1>2, <2>1, <2>2 DEF CheckStatus
<1>5. evaluateSnapshot({}, s, e) = "PASS"
  <2> DEFINE own(b) == {r \in Incomes(b) : Canonical(r)}
             differs(b) == \/ cut # None /\ book[b].created >= cut /\ snap[b] = None
                           \/ snap[b] # None /\ ~\E r \in own(b) : own(b) = {r} /\ r.amount = snap[b].final * Hundredths
  <2>1. ASSUME NEW b \in PaidBookings(s, e), IsOnline(b) PROVE ~differs(b)
    <3>1. b \in Created /\ b \in Ids /\ book[b].status \in {"PAID", "COMPLETED"} /\ InRange(book[b].created, s, e)
      BY DEF PaidBookings, Created
    <3>2. Facts[b].venue \in Venues
      BY <3>1, Parameters
    <3>3. b \notin PaidWithoutLedger(Venues, s, e)
      BY NothingFound
    <3>4. PICK r \in Incomes(b) : Canonical(r)
      BY <2>1, <3>1, <3>2, <3>3 DEF PaidWithoutLedger
    <3>5. r \in IncomeRows /\ r.booking = b
      BY DEF Incomes, IncomeRows
    <3>6. Incomes(b) = {r} /\ r.amount = Facts[b].price * Hundredths
      BY <3>5, IncomeFacts
    <3>7. own(b) = {r}
      BY <3>4, <3>6
    <3> QED
      BY <3>1, <3>6, <3>7, SnapFacts
  <2>2. evaluateSnapshot({}, s, e) =
          CheckStatus(FALSE, \E b \in PaidBookings(s, e) : IsOnline(b) /\ differs(b), {},
                      {"MISSING_SNAPSHOT", "SNAPSHOT_MISMATCH", "PAID_WITHOUT_LEDGER"})
    BY DEF evaluateSnapshot
  <2> HIDE DEF differs
  <2> QED
    BY <2>1, <2>2 DEF CheckStatus
<1>6. evaluateOffline({}, s, e) = "PASS"
  BY SnapFacts DEF evaluateOffline, PaidBookings, PaysCommission, CheckStatus
<1>7. evaluateRefund(ev, {}) = "PASS" /\ evaluateDuplicates({}) = "PASS"
  BY <1>2 DEF evaluateRefund, evaluateDuplicates, CheckStatus
<1>8. evaluateRollups(ev, {}, s, e) = "PASS"
  <2> DEFINE summary(d) == Figures(OnDay(d, ev.incomes), OnDay(d, ev.refunds))
             cells(d) == {[venue |-> v, totals |-> loadProjectionBreakdownCells({v}, d, d)] : v \in Venues}
             differs(d) == \/ summary(d) # loadReconciliationTrendTotals(d)
                           \/ \E f \in DOMAIN summary(d) : summary(d)[f] # Sum(LAMBDA c : c.totals[f], cells(d))
  <2>1. ASSUME NEW d \in s .. e PROVE ~differs(d)
    <3>1. /\ summary(d) = loadReconciliationTrendTotals(d)
          /\ \A f \in DOMAIN summary(d) : summary(d)[f] = PartSum(f, cells(d))
      <4>1. summary(d) = Figures(OnDay(d, EventsOf(EventIncomes(Venues, s, e))),
                                 OnDay(d, EventsOf(EventRefunds(Venues, s, e))))
        BY <1>2
      <4> HIDE DEF summary
      <4> QED
        BY <1>1, <4>1, DayAgrees
    <3> HIDE DEF summary, cells
    <3> QED
      BY <3>1 DEF PartSum
  <2>2. evaluateRollups(ev, {}, s, e) =
          CheckStatus(ev = None, ev # None /\ \E d \in s .. e : differs(d), {},
                      {"MISSING_SNAPSHOT", "SNAPSHOT_MISMATCH", "POST_CUTOVER_LEGACY", "DUPLICATE_INCOME",
                       "SOURCE_LEDGER_MISMATCH", "REFUND_MISMATCH", "PAID_WITHOUT_LEDGER",
                       "LEDGER_WITHOUT_BOOKING"})
    BY DEF evaluateRollups
  <2> HIDE DEF differs
  <2> QED
    BY <1>2, <2>1, <2>2 DEF CheckStatus
<1> QED
  BY <1>3, <1>4, <1>5, <1>6, <1>7, <1>8, CleanIs

LEMMA FaultsFound == ReportsInv => ReconcileFindsFaults
  BY FaultShows, NoFaultPasses DEF ReconcileFindsFaults

\* The reconciliation report of every range is clean exactly when nothing in
\* it is at fault (reconciliation.go, the checks and the issues they read),
\* whatever the bookings, prices, days, venues and owners are.
THEOREM FaultsReported == Spec => []ReconcileFindsFaults
  BY FaultsFound, ReportsInvariance, PTL

\* Summary, breakdown and trend of every range agree (service.go and the SQL
\* of repository.go compute them apart).
THEOREM ViewsAgree == Spec => []ReportsAgree
  BY Agreement, ReportsInvariance, PTL

----------------------------------------------------------------------------
(***************************************************************************)
(* The money in the books is the money of the bookings.                    *)
(***************************************************************************)

\* The bookings that have an income row, and those of them that have a refund.
Owned == {b \in Created : book[b].via = "OWNER"}
Returned == {b \in Owned : book[b].status = "CANCELLED"}

BookingsOf(T) == {r.booking : r \in T}

LEMMA AllDays == \A t \in Time : InRange(t, 0, DayOf(MaxClock))
<1> SUFFICES ASSUME NEW t \in Time PROVE InRange(t, 0, DayOf(MaxClock))
  OBVIOUS
<1> DEFINE q == t \div PerDay
           m == MaxClock \div PerDay
<1>1. PerDay \in Nat \ {0} /\ t \in Nat /\ MaxClock \in Nat /\ t <= MaxClock
  BY Parameters DEF Time
<1>2. q \in Nat /\ m \in Nat /\ PerDay * q <= t /\ MaxClock < PerDay * m + PerDay
  BY <1>1, Z3
<1> HIDE DEF q, m
<1>3. ~(m < q)
  <2>1. PerDay * q \in Nat /\ PerDay * m \in Nat
    BY <1>1, <1>2, ProductNat
  <2> QED
    BY <1>1, <1>2, <2>1, Multiples
<1> QED
  BY <1>2, <1>3 DEF InRange, DayOf, q, m

OneToOne(h, S) == \A x, y \in S : h[x] = h[y] => x = y
SumsImage(F, h, S) ==
    /\ IsFiniteSet({h[x] : x \in S})
    /\ SumFunctionOnSet(F, {h[x] : x \in S}) = SumFunctionOnSet([x \in S |-> F[h[x]]], S)

LEMMA SumOverImage ==
    ASSUME NEW F, NEW h, NEW S, IsFiniteSet(S), OneToOne(h, S), Summable([x \in S |-> F[h[x]]], S)
    PROVE  SumsImage(F, h, S)
<1>1. \A x, y \in S : h[x] = h[y] => x = y
  BY DEF OneToOne
<1>2. \A x \in S : F[h[x]] \in Int
  BY DEF Summable
<1>3. /\ IsFiniteSet({h[x] : x \in S})
      /\ SumFunctionOnSet(F, {h[x] : x \in S}) = SumFunctionOnSet([x \in S |-> F[h[x]]], S)
  BY <1>1, <1>2, SumImage
<1> QED
  BY <1>3 DEF SumsImage

\* A booking has one of these rows at most; what G says of a row F says of its booking.
OnePerBooking(T) == \A x, y \in T : x.booking = y.booking => x = y
ByBooking(G, F, T) == \A x \in T : G[x] = F[x.booking]

LEMMA SumByBooking ==
    ASSUME NEW T, IsFiniteSet(T), OnePerBooking(T),
           NEW F, Summable(F, BookingsOf(T)), NEW G, ByBooking(G, F, T)
    PROVE  IsFiniteSet(BookingsOf(T)) /\ SumFunctionOnSet(G, T) = SumFunctionOnSet(F, BookingsOf(T))
<1> DEFINE h == [x \in T |-> x.booking]
           H == [x \in T |-> F[h[x]]]
<1>1. OneToOne(h, T)
  BY DEF OneToOne, OnePerBooking
<1>2. Summable(H, T) /\ Summable(G, T)
  BY DEF Summable, BookingsOf, ByBooking
<1>3. BookingsOf(T) = {h[x] : x \in T}
  BY DEF BookingsOf
<1>4. \A x \in T : G[x] = H[x]
  BY DEF ByBooking
<1>5. SumsImage(F, h, T)
  <2> HIDE DEF h
  <2> QED
    BY <1>1, <1>2, SumOverImage
<1>6. SumFunctionOnSet(G, T) = SumFunctionOnSet(H, T)
  <2> HIDE DEF H
  <2> QED
    BY <1>2, <1>4, SumEqual
<1> HIDE DEF h
<1> QED
  BY <1>3, <1>5, <1>6 DEF SumsImage

\* The rows of a clean ledger by their bookings.
LEMMA CleanRows ==
    ASSUME ReportsInv, ~Faulty(0, DayOf(MaxClock)), \A b \in Ids : RefundKept(b)
    PROVE  /\ IsFiniteSet(IncomeRows) /\ IsFiniteSet(RefundRows) /\ IsFiniteSet(Ids)
           /\ \A x, y \in IncomeRows : x.booking = y.booking => x = y
           /\ \A x, y \in RefundRows : x.booking = y.booking => x = y
           /\ \A r \in IncomeRows \cup RefundRows : /\ r.amount = Price(r.booking) * Hundredths
                                                    /\ Canonical(r) /\ r.booking \in Owned
                                                    /\ r.owner \in {OwnerOf[v] : v \in Venues}
                                                    /\ r.venue \in Venues
                                                    /\ InRange(r.at, 0, DayOf(MaxClock))
           /\ BookingsOf(IncomeRows) = Owned /\ BookingsOf(RefundRows) = Returned
<1>1. IsFiniteSet(IncomeRows) /\ IsFiniteSet(RefundRows) /\ IsFiniteSet(Ids)
  <2>1. IncomeRows \in SUBSET ledger /\ RefundRows \in SUBSET ledger
    BY DEF IncomeRows, RefundRows
  <2> QED
    BY <2>1, FS_Subset, ReportsAssumption DEF ReportsInv
<1>2. \A x, y \in IncomeRows : x.booking = y.booking => x = y
  BY IncomeFacts
<1>3. \A x, y \in RefundRows : x.booking = y.booking => x = y
  BY RefundFacts
<1>4. ASSUME NEW r \in IncomeRows
      PROVE  /\ r.amount = Price(r.booking) * Hundredths /\ Canonical(r) /\ r.booking \in Owned
             /\ r.owner \in {OwnerOf[v] : v \in Venues} /\ r.venue \in Venues
             /\ InRange(r.at, 0, DayOf(MaxClock))
  BY IncomeFacts, AllDays DEF Owned, Price
<1>5. ASSUME NEW r \in RefundRows
      PROVE  /\ r.amount = Price(r.booking) * Hundredths /\ Canonical(r) /\ r.booking \in Owned
             /\ r.owner \in {OwnerOf[v] : v \in Venues} /\ r.venue \in Venues
             /\ InRange(r.at, 0, DayOf(MaxClock)) /\ r.booking \in Returned
  <2>1. InRange(r.at, 0, DayOf(MaxClock))
    BY RefundFacts, AllDays
  <2>2. Canonical(r)
    BY <2>1, SoundRefunds
  <2>3. PICK i \in IncomeRows : i.booking = r.booking
    BY RefundFacts
  <2>4. r.amount = Price(r.booking) * Hundredths
    BY <1>4, <2>1, <2>3, SoundRefunds
  <2> QED
    BY <2>1, <2>2, <2>4, RefundFacts DEF Owned, Returned
<1>6. Owned \subseteq BookingsOf(IncomeRows)
  <2> SUFFICES ASSUME NEW b \in Owned PROVE \E r \in IncomeRows : r.booking = b
    BY DEF BookingsOf
  <2>1. b \in Ids /\ BookFollows(b) /\ book[b].via = "OWNER"
    BY BooksFollow DEF Owned, Created, ReportsInv
  <2>2. Incomes(b) # {}
    BY <2>1, IncomesAre DEF BookFollows, ReportsInv
  <2> QED
    BY <2>2 DEF Incomes, IncomeRows
<1>7. Returned \subseteq BookingsOf(RefundRows)
  <2> SUFFICES ASSUME NEW b \in Returned PROVE \E r \in RefundRows : r.booking = b
    BY DEF BookingsOf
  <2>1. Refunds(b) # {}
    BY DEF Returned, Owned, Created, RefundKept
  <2> QED
    BY <2>1 DEF Refunds, RefundRows
<1> QED
  BY <1>1, <1>2, <1>3, <1>4, <1>5, <1>6, <1>7 DEF BookingsOf

\* What the platform keeps of a booking.
Share(b) == RoundedShare(Price(b), IF Basis(b) = Snapshot THEN Rate ELSE HistoricalBps)

LEMMA ShareProjected ==
    ASSUME ReportsInv, NEW b \in Created, IsOnline(b)
    PROVE  ProjectedCommission(b, Price(b)) = Share(b) /\ Share(b) \in Int /\ Price(b) \in Int
<1>1. Price(b) \in Nat /\ Rate \in Nat /\ HistoricalBps \in Nat
  BY Parameters, ReportsAssumption DEF Created, Price, HistoricalBps, MaxBps
<1>2. /\ CommissionAmount(Price(b), Rate) = RoundedShare(Price(b), Rate)
      /\ CommissionAmount(Price(b), HistoricalBps) = RoundedShare(Price(b), HistoricalBps)
  BY <1>1, CommissionRounded
<1>3. Basis(b) = Snapshot => snap[b].commission = CommissionAmount(Price(b), Rate)
  BY SnapFacts DEF Basis, Snapshot, Historical, Price
<1>4. ProjectedCommission(b, Price(b)) = Share(b)
  BY <1>2, <1>3 DEF ProjectedCommission, Share
<1> QED
  BY <1>1, <1>4, CellOfPrice

\* The kept bookings' sum of a price or a share, from the rows of both kinds.
LEMMA KeptSum ==
    ASSUME ReportsInv, ~Faulty(0, DayOf(MaxClock)), \A b \in Ids : RefundKept(b),
           NEW C \in SUBSET Ids, NEW F, Summable(F, Owned \cap C),
           NEW G, \A r \in IncomeRows : r.booking \in C => G[r] = F[r.booking],
           NEW H, \A r \in RefundRows : r.booking \in C => H[r] = F[r.booking]
    PROVE  SumFunctionOnSet(G, {r \in IncomeRows : r.booking \in C})
             - SumFunctionOnSet(H, {r \in RefundRows : r.booking \in C})
             = SumFunctionOnSet(F, (Owned \ Returned) \cap C)
<1> DEFINE A == {r \in IncomeRows : r.booking \in C}
           B == {r \in RefundRows : r.booking \in C}
<1>1. IsFiniteSet(A) /\ IsFiniteSet(B) /\ OnePerBooking(A) /\ OnePerBooking(B)
  BY CleanRows, FS_Subset DEF OnePerBooking
<1>2. BookingsOf(A) = Owned \cap C /\ BookingsOf(B) = Returned \cap C
  BY CleanRows DEF BookingsOf
<1>3. Returned \cap C \in SUBSET (Owned \cap C)
  BY DEF Returned
<1>4. Summable(F, Returned \cap C)
  BY <1>3 DEF Summable
<1>5. ByBooking(G, F, A) /\ ByBooking(H, F, B)
  BY DEF ByBooking
<1>6. (Owned \cap C) \ (Returned \cap C) = (Owned \ Returned) \cap C
  OBVIOUS
<1> HIDE DEF A, B
<1>7. IsFiniteSet(Owned \cap C) /\ SumFunctionOnSet(G, A) = SumFunctionOnSet(F, Owned \cap C)
  BY <1>1, <1>2, <1>5, SumByBooking
<1>8. SumFunctionOnSet(H, B) = SumFunctionOnSet(F, Returned \cap C)
  BY <1>1, <1>2, <1>4, <1>5, SumByBooking
<1>9. SumFunctionOnSet(F, Owned \cap C) - SumFunctionOnSet(F, Returned \cap C)
        = SumFunctionOnSet(F, (Owned \ Returned) \cap C)
  <2> DEFINE S == Owned \cap C
             R == Returned \cap C
  <2>1. IsFiniteSet(S) /\ R \in SUBSET S /\ Summable(F, S)
    BY <1>3, <1>7
  <2> HIDE DEF S, R
  <2>2. SumFunctionOnSet(F, S) - SumFunctionOnSet(F, R) = SumFunctionOnSet(F, S \ R)
    BY <2>1, SumWithout
  <2> QED
    BY <1>6, <2>2 DEF S, R
<1> QED
  BY <1>7, <1>8, <1>9 DEF A, B

\* The summary of all days holds the online bookings kept.
LEMMA NetOfBookings ==
    ASSUME ReportsInv, ~Faulty(0, DayOf(MaxClock)), \A b \in Ids : RefundKept(b)
    PROVE  LET E == EventsOf(EventIncomes(Venues, 0, DayOf(MaxClock)))
               R == EventsOf(EventRefunds(Venues, 0, DayOf(MaxClock)))
               online == {b \in Owned \ Returned : IsOnline(b)}
           IN  /\ Amounts(E) - Amounts(R) = SumFunctionOnSet([b \in Ids |-> Price(b)], online)
               /\ Commissions(E) - Commissions(R) = SumFunctionOnSet([b \in Ids |-> Share(b)], online)
               /\ Amounts(E) \in Int /\ Amounts(R) \in Int /\ Commissions(E) \in Int /\ Commissions(R) \in Int
<1> DEFINE e == DayOf(MaxClock)
           A == EventIncomes(Venues, 0, e)
           B == EventRefunds(Venues, 0, e)
           C == {b \in Ids : IsOnline(b)}
           P == [b \in Ids |-> Price(b)]
           K == [b \in Ids |-> Share(b)]
           GP(T) == [r \in T |-> Price(r.booking)]
           GK(T) == [r \in T |-> CellCommission(r.booking, r.amount)]
           online == {b \in Owned \ Returned : IsOnline(b)}
<1>1. ~Refusals(Venues, 0, e)
  BY NothingFound
<1>2. Owned \subseteq Created /\ Created \subseteq Ids
  BY DEF Owned, Created
<1>3. /\ A = {r \in IncomeRows : r.booking \in C}
      /\ B = {r \in RefundRows : r.booking \in C}
  BY <1>2, CleanRows DEF EventIncomes, EventRefunds, Reported
<1>4. online = (Owned \ Returned) \cap C
  BY <1>2
<1>5. RowsOfEvents(A, Venues, 0, e) /\ RowsOfEvents(B, Venues, 0, e)
  BY DEF RowsOfEvents
<1>6. /\ Amounts(EventsOf(A)) = SumFunctionOnSet(GP(A), A) /\ Amounts(EventsOf(A)) \in Int
      /\ Commissions(EventsOf(A)) = SumFunctionOnSet(GK(A), A) /\ Commissions(EventsOf(A)) \in Int
  <2>1. /\ Sum(Amount, EventsOf(A)) = SumFunctionOnSet(GP(A), A)
        /\ Sum(Commission, EventsOf(A)) = SumFunctionOnSet(GK(A), A)
        /\ Sum(Amount, EventsOf(A)) \in Int /\ Sum(Commission, EventsOf(A)) \in Int
    BY <1>1, <1>5, EventSums DEF EventsOf
  <2> HIDE DEF A
  <2>2. \A T : Sum(Amount, T) = Amounts(T) /\ Sum(Commission, T) = Commissions(T)
    BY DEF Sum, SumFunction, Amount, Commission, Amounts, Commissions
  <2> QED
    BY <2>1, <2>2
<1>7. /\ Amounts(EventsOf(B)) = SumFunctionOnSet(GP(B), B) /\ Amounts(EventsOf(B)) \in Int
      /\ Commissions(EventsOf(B)) = SumFunctionOnSet(GK(B), B) /\ Commissions(EventsOf(B)) \in Int
  <2>1. /\ Sum(Amount, EventsOf(B)) = SumFunctionOnSet(GP(B), B)
        /\ Sum(Commission, EventsOf(B)) = SumFunctionOnSet(GK(B), B)
        /\ Sum(Amount, EventsOf(B)) \in Int /\ Sum(Commission, EventsOf(B)) \in Int
    BY <1>1, <1>5, EventSums DEF EventsOf
  <2> HIDE DEF B
  <2>2. \A T : Sum(Amount, T) = Amounts(T) /\ Sum(Commission, T) = Commissions(T)
    BY DEF Sum, SumFunction, Amount, Commission, Amounts, Commissions
  <2> QED
    BY <2>1, <2>2
<1>8. \A r \in A \cup B : /\ r.booking \in Created /\ r.booking \in Ids /\ IsOnline(r.booking)
                          /\ r.amount = Price(r.booking) * Hundredths
  BY <1>1, EventAmounts DEF Price
<1>9. \A r \in A \cup B : /\ CellCommission(r.booking, r.amount) = Share(r.booking)
                          /\ Share(r.booking) \in Int
  BY <1>8, CellOfPrice, ShareProjected
<1>10. Summable(P, Owned \cap C) /\ Summable(K, Owned \cap C)
  BY <1>2, ShareProjected DEF Summable
<1>11. /\ \A r \in IncomeRows : r.booking \in C => GP(A)[r] = P[r.booking] /\ GK(A)[r] = K[r.booking]
       /\ \A r \in RefundRows : r.booking \in C => GP(B)[r] = P[r.booking] /\ GK(B)[r] = K[r.booking]
  <2>1. /\ \A r \in A : GP(A)[r] = P[r.booking] /\ GK(A)[r] = K[r.booking]
        /\ \A r \in B : GP(B)[r] = P[r.booking] /\ GK(B)[r] = K[r.booking]
    <3> HIDE DEF A, B
    <3> QED
      BY <1>8, <1>9
  <2> HIDE DEF A, B, GP, GK, P, K
  <2> QED
    BY <1>3, <2>1
<1>12. C \in SUBSET Ids
  OBVIOUS
<1> HIDE DEF A, B, C, P, K, GP, GK
<1>13. SumFunctionOnSet(GP(A), A) - SumFunctionOnSet(GP(B), B) = SumFunctionOnSet(P, (Owned \ Returned) \cap C)
  BY <1>3, <1>10, <1>11, <1>12, KeptSum
<1>14. SumFunctionOnSet(GK(A), A) - SumFunctionOnSet(GK(B), B) = SumFunctionOnSet(K, (Owned \ Returned) \cap C)
  BY <1>3, <1>10, <1>11, <1>12, KeptSum
<1> QED
  BY <1>4, <1>6, <1>7, <1>13, <1>14 DEF A, B, P, K

\* The rows of the owners add up to all rows.
OwnersAddUp(S, I) ==
    /\ Amounts(S) = SumFunctionOnSet([o \in I |-> Amounts({r \in S : r.owner = o})], I)
    /\ \A o \in I : Amounts({r \in S : r.owner = o}) \in Int

LEMMA AddOwners ==
    ASSUME NEW S, IsFiniteSet(S), NEW I, IsFiniteSet(I), \A r \in S : r.amount \in Int /\ r.owner \in I
    PROVE  OwnersAddUp(S, I)
<1> DEFINE A == [r \in S |-> r.amount]
           g == [r \in S |-> r.owner]
           Of(o) == {r \in S : g[r] = o}
<1>1. Summable(A, S)
  BY DEF Summable
<1>2. \A r \in S : g[r] \in I
  OBVIOUS
<1>3. \A o : Of(o) = {r \in S : r.owner = o}
  OBVIOUS
<1>4. \A o : Of(o) \in SUBSET S
  OBVIOUS
<1>5. SumFunctionOnSet(A, S) = SumFunctionOnSet([o \in I |-> SumFunctionOnSet(A, {r \in S : g[r] = o})], I)
  <2> HIDE DEF A, g
  <2> QED
    BY <1>1, <1>2, SumGroups
<1>6. ASSUME NEW T \in SUBSET S
      PROVE  SumFunctionOnSet(A, T) = Amounts(T) /\ Amounts(T) \in Int
  <2>1. IsFiniteSet(T) /\ Summable(A, T)
    BY <1>1, FS_Subset DEF Summable
  <2>2. \A r \in T : A[r] = [q \in T |-> q.amount][r]
    OBVIOUS
  <2> HIDE DEF A
  <2> QED
    BY <2>1, <2>2, SumEqual, SumType DEF Amounts
<1> HIDE DEF A
<1>7. SumFunctionOnSet(A, S) = Amounts(S)
  BY <1>6
<1>8. \A o \in I : SumFunctionOnSet(A, Of(o)) = Amounts(Of(o)) /\ Amounts(Of(o)) \in Int
  <2> HIDE DEF Of
  <2> QED
    BY <1>4, <1>6
<1>9. [o \in I |-> SumFunctionOnSet(A, Of(o))] = [o \in I |-> Amounts(Of(o))]
  <2> HIDE DEF Of
  <2> QED
    BY <1>8
<1>10. Amounts(S) = SumFunctionOnSet([o \in I |-> Amounts(Of(o))], I)
  BY <1>5, <1>7, <1>9
<1> HIDE DEF Of
<1> QED
  BY <1>3, <1>8, <1>10 DEF OwnersAddUp

\* What an owner's own summary holds.
LEMMA SummaryOfOwner ==
    ASSUME ReportsInv, \A r \in IncomeRows \cup RefundRows : r.venue \in Venues, NEW o
    PROVE  /\ GetFinanceSummary(o, Venues).revenue = Amounts({r \in IncomeRows : r.owner = o})
           /\ GetFinanceSummary(o, Venues).refunds = Amounts({r \in RefundRows : r.owner = o})
<1> DEFINE rows == {r \in ledger : r.owner = o /\ r.venue \in Venues}
           A == {r \in rows : r.type = "INCOME" /\ r.source \in {"BOOKING"}}
           B == {r \in rows : r.type = "EXPENSE" /\ r.source \in {"REFUND"}}
<1>1. A = {r \in IncomeRows : r.owner = o} /\ B = {r \in RefundRows : r.owner = o}
  BY DEF IncomeRows, RefundRows
<1>2. /\ GetFinanceSummary(o, Venues).revenue = Sum(Amount, A)
      /\ GetFinanceSummary(o, Venues).refunds = Sum(Amount, B)
  BY DEF GetFinanceSummary
<1> HIDE DEF A, B
<1>3. Sum(Amount, A) = Amounts(A) /\ Sum(Amount, B) = Amounts(B)
  BY DEF Sum, SumFunction, Amount, Amounts
<1> QED
  BY <1>1, <1>2, <1>3

LEMMA OwnersBooks ==
    ASSUME ReportsInv, ~Faulty(0, DayOf(MaxClock)), \A b \in Ids : RefundKept(b)
    PROVE  LET owners == {OwnerOf[v] : v \in Venues}
           IN  Sum(LAMBDA o : GetFinanceSummary(o, Venues).revenue - GetFinanceSummary(o, Venues).refunds, owners)
                 = SumFunctionOnSet([b \in Ids |-> Price(b)], Owned \ Returned) * Hundredths
<1> DEFINE owners == {OwnerOf[v] : v \in Venues}
           R == [o \in owners |-> Amounts({r \in IncomeRows : r.owner = o})]
           X == [o \in owners |-> Amounts({r \in RefundRows : r.owner = o})]
           N == [o \in owners |-> GetFinanceSummary(o, Venues).revenue - GetFinanceSummary(o, Venues).refunds]
           P == [b \in Ids |-> Price(b)]
           F == [b \in Ids |-> Price(b) * Hundredths]
           G == [r \in IncomeRows |-> r.amount]
           H == [r \in RefundRows |-> r.amount]
<1>1. \A r \in IncomeRows \cup RefundRows : r.venue \in Venues /\ r.owner \in owners
  BY CleanRows
<1>2. \A b \in Ids : P[b] \in Int /\ F[b] \in Int /\ F[b] = P[b] * Hundredths
  BY Parameters DEF Price, Hundredths
<1>3. \A r \in IncomeRows \cup RefundRows : r.amount \in Int /\ r.booking \in Ids
  <2> SUFFICES ASSUME NEW r \in IncomeRows \cup RefundRows PROVE r.amount \in Int /\ r.booking \in Ids
    OBVIOUS
  <2>1. r.amount = Price(r.booking) * Hundredths /\ r.booking \in Ids
    BY CleanRows DEF Owned, Created
  <2> QED
    BY <1>2, <2>1
<1>4. IsFiniteSet(owners) /\ IsFiniteSet(IncomeRows) /\ IsFiniteSet(RefundRows) /\ IsFiniteSet(Owned \ Returned)
  <2>1. IsFiniteSet(owners)
    <3> DEFINE f == [v \in Venues |-> OwnerOf[v]]
    <3>1. f \in Surjection(Venues, owners) /\ IsFiniteSet(Venues)
      BY ReportsAssumption DEF Surjection
    <3> QED
      BY <3>1, FS_Surjection
  <2>2. IsFiniteSet(IncomeRows) /\ IsFiniteSet(RefundRows) /\ IsFiniteSet(Ids)
    BY CleanRows
  <2>3. Owned \ Returned \in SUBSET Ids
    BY DEF Owned, Created
  <2> QED
    BY <2>1, <2>2, <2>3, FS_Subset
<1>5. Sum(LAMBDA o : GetFinanceSummary(o, Venues).revenue - GetFinanceSummary(o, Venues).refunds, owners)
        = SumFunctionOnSet(N, owners)
  BY DEF Sum, SumFunction
<1>6. \A o \in owners : N[o] = R[o] - X[o]
  <2>1. ASSUME NEW o
        PROVE  /\ GetFinanceSummary(o, Venues).revenue = Amounts({r \in IncomeRows : r.owner = o})
               /\ GetFinanceSummary(o, Venues).refunds = Amounts({r \in RefundRows : r.owner = o})
    BY <1>1, SummaryOfOwner
  <2> QED
    BY <2>1
<1>7. /\ SumFunctionOnSet(R, owners) = Amounts(IncomeRows) /\ Summable(R, owners)
      /\ SumFunctionOnSet(X, owners) = Amounts(RefundRows) /\ Summable(X, owners)
  <2> HIDE DEF owners
  <2>1. OwnersAddUp(IncomeRows, owners) /\ OwnersAddUp(RefundRows, owners)
    BY <1>1, <1>3, <1>4, AddOwners
  <2> QED
    BY <2>1 DEF OwnersAddUp, Summable
<1>8. Amounts(IncomeRows) = SumFunctionOnSet(G, IncomeRows) /\ Amounts(RefundRows) = SumFunctionOnSet(H, RefundRows)
  BY DEF Amounts
<1>9. /\ \A r \in IncomeRows : r.booking \in Ids => G[r] = F[r.booking]
      /\ \A r \in RefundRows : r.booking \in Ids => H[r] = F[r.booking]
  BY CleanRows
<1>10. /\ {r \in IncomeRows : r.booking \in Ids} = IncomeRows
       /\ {r \in RefundRows : r.booking \in Ids} = RefundRows
       /\ (Owned \ Returned) \cap Ids = Owned \ Returned
       /\ Owned \cap Ids = Owned /\ Owned \subseteq Ids
  BY <1>3 DEF Owned, Created
<1>11. Summable(F, Owned \cap Ids) /\ Summable(P, Owned \ Returned)
  BY <1>2, <1>10 DEF Summable
<1>12. \A b \in Owned \ Returned : F[b] = P[b] * Hundredths
  BY <1>2, <1>10
<1> HIDE DEF owners, N, R, X, P, F, G, H
<1>13. SumFunctionOnSet(N, owners) = SumFunctionOnSet(R, owners) - SumFunctionOnSet(X, owners)
  BY <1>4, <1>6, <1>7, SumDifference
<1>14. SumFunctionOnSet(G, {r \in IncomeRows : r.booking \in Ids}) - SumFunctionOnSet(H, {r \in RefundRows : r.booking \in Ids})
         = SumFunctionOnSet(F, (Owned \ Returned) \cap Ids)
  <2>1. Ids \in SUBSET Ids
    OBVIOUS
  <2> QED
    BY <1>9, <1>11, <2>1, KeptSum
<1>15. SumFunctionOnSet(F, Owned \ Returned) = SumFunctionOnSet(P, Owned \ Returned) * Hundredths
  <2>1. Hundredths \in Int
    BY DEF Hundredths
  <2> QED
    BY <1>4, <1>11, <1>12, <2>1, SumScaled
<1>16. SumFunctionOnSet(N, owners) = SumFunctionOnSet(P, Owned \ Returned) * Hundredths
  BY <1>7, <1>8, <1>10, <1>13, <1>14, <1>15
<1> QED
  BY <1>5, <1>16 DEF owners, P

LEMMA Balance == ReportsInv => BooksBalance
<1> DEFINE e == DayOf(MaxClock)
           kept == {b \in Created : book[b].via = "OWNER" /\ book[b].status # "CANCELLED"}
           price(b) == Facts[b].price
           commission(b) == RoundedShare(Facts[b].price, IF Basis(b) = Snapshot THEN Rate ELSE HistoricalBps)
           online == {b \in kept : IsOnline(b)}
           summary == GetSummary(Venues, 0, e)
           owners == {OwnerOf[v] : v \in Venues}
<1> SUFFICES ASSUME ReportsInv, Clean(0, e), \A b \in Ids : RefundKept(b)
             PROVE  /\ summary.net = Sum(price, online) /\ summary.complete
                    /\ summary.ownerNet = Sum(LAMBDA b : price(b) - commission(b), online)
                    /\ Sum(LAMBDA o : GetFinanceSummary(o, Venues).revenue - GetFinanceSummary(o, Venues).refunds, owners)
                         = Sum(price, kept) * Hundredths
  BY DEF BooksBalance
<1> DEFINE E == EventsOf(EventIncomes(Venues, 0, e))
           R == EventsOf(EventRefunds(Venues, 0, e))
           P == [b \in Ids |-> Price(b)]
           K == [b \in Ids |-> Share(b)]
<1>1. ~Faulty(0, e)
  BY FaultShows
<1>2. /\ loadProjectionEvents(Venues, 0, e) # None
      /\ loadProjectionEvents(Venues, 0, e) = [incomes |-> E, refunds |-> R]
      /\ PaidWithoutLedger(Venues, 0, e) = {} /\ LedgerWithoutBooking(Venues, 0, e) = {}
  BY <1>1, NothingFound, LoadedIsView, Loaded DEF EventsOf
<1>3. kept = Owned \ Returned
  BY DEF Owned, Returned
<1>4. kept \subseteq Ids /\ online \subseteq kept /\ kept \subseteq Created
  BY DEF Created
<1>5. /\ Amounts(E) - Amounts(R) = SumFunctionOnSet(P, online)
      /\ Commissions(E) - Commissions(R) = SumFunctionOnSet(K, online)
      /\ Amounts(E) \in Int /\ Amounts(R) \in Int /\ Commissions(E) \in Int /\ Commissions(R) \in Int
  BY <1>1, <1>3, NetOfBookings
<1>6. /\ summary.net = Amounts(E) - Amounts(R)
      /\ summary.ownerNet = Amounts(E) - Amounts(R) - (Commissions(E) - Commissions(R))
      /\ summary.complete
  <2> DEFINE data == getProjectionSummary(Venues, 0, e)
             total == data.figures.total
             net == total.gross - total.refund
  <2>1. /\ data.figures = aggregateProjection(Venues, E, R)
        /\ data.paidWithoutLedger = Cardinality(PaidWithoutLedger(Venues, 0, e))
        /\ data.ledgerWithoutBooking = Cardinality(LedgerWithoutBooking(Venues, 0, e))
    <3> HIDE DEF E, R
    <3> QED
      BY <1>2 DEF getProjectionSummary
  <2> HIDE DEF E, R
  <2>2. total = Figures(E, R)
    BY <2>1 DEF aggregateProjection
  <2>3. data.paidWithoutLedger + data.ledgerWithoutBooking = 0
    BY <1>2, <2>1, FS_EmptySet
  <2>4. /\ total.gross = Amounts(E) /\ total.refund = Amounts(R)
        /\ total.commission = Commissions(E) - Commissions(R)
    BY <2>2, FiguresAre
  <2>5. summary = [net |-> net, commission |-> total.commission, ownerNet |-> net - total.commission,
                   basis |-> data.basis, complete |-> data.paidWithoutLedger + data.ledgerWithoutBooking = 0]
    BY <1>2 DEF GetSummary
  <2> HIDE DEF data, summary
  <2> QED
    BY <2>3, <2>4, <2>5
<1> HIDE DEF E, R, summary
<1>7. IsFiniteSet(kept) /\ IsFiniteSet(online)
  BY <1>4, FS_Subset, ReportsAssumption
<1>8. \A b \in online : P[b] = price(b) /\ K[b] = commission(b) /\ P[b] \in Int /\ K[b] \in Int
  <2> SUFFICES ASSUME NEW b \in online
               PROVE  P[b] = price(b) /\ K[b] = commission(b) /\ P[b] \in Int /\ K[b] \in Int
    OBVIOUS
  <2>1. b \in Created /\ b \in Ids /\ IsOnline(b)
    BY <1>4
  <2>2. Share(b) \in Int /\ Price(b) \in Int
    BY <2>1, ShareProjected
  <2> QED
    BY <2>1, <2>2 DEF Price, Share
<1>9. \A b \in kept : P[b] = price(b) /\ P[b] \in Int
  BY <1>4, Parameters DEF Price
<1> DEFINE onlinePrice == [b \in online |-> price(b)]
           keptPrice == [b \in kept |-> price(b)]
           share == [b \in online |-> price(b) - commission(b)]
<1>10. /\ Sum(price, online) = SumFunctionOnSet(onlinePrice, online)
       /\ Sum(price, kept) = SumFunctionOnSet(keptPrice, kept)
       /\ Sum(LAMBDA b : price(b) - commission(b), online) = SumFunctionOnSet(share, online)
  BY DEF Sum, SumFunction
<1> HIDE DEF price, commission, P, K, kept, online
<1>11. /\ \A b \in online : P[b] = onlinePrice[b] /\ share[b] = P[b] - K[b]
       /\ \A b \in kept : P[b] = keptPrice[b]
       /\ Summable(P, online) /\ Summable(K, online) /\ Summable(P, kept)
  BY <1>8, <1>9 DEF Summable
<1> HIDE DEF onlinePrice, keptPrice, share
<1>12. SumFunctionOnSet(P, online) = SumFunctionOnSet(onlinePrice, online)
  BY <1>7, <1>11, SumEqual
<1>13. SumFunctionOnSet(P, kept) = SumFunctionOnSet(keptPrice, kept)
  BY <1>7, <1>11, SumEqual
<1>14. SumFunctionOnSet(share, online) = SumFunctionOnSet(P, online) - SumFunctionOnSet(K, online)
  BY <1>7, <1>11, SumDifference
<1>15. Sum(LAMBDA o : GetFinanceSummary(o, Venues).revenue - GetFinanceSummary(o, Venues).refunds, owners)
         = SumFunctionOnSet(P, kept) * Hundredths
  BY <1>1, <1>3, OwnersBooks DEF P
<1>16. summary.net = Sum(price, online)
  BY <1>5, <1>6, <1>10, <1>12
<1>17. summary.ownerNet = Sum(LAMBDA b : price(b) - commission(b), online)
  BY <1>5, <1>6, <1>10, <1>14
<1>18. Sum(LAMBDA o : GetFinanceSummary(o, Venues).revenue - GetFinanceSummary(o, Venues).refunds, owners)
         = Sum(price, kept) * Hundredths
  BY <1>10, <1>13, <1>15
<1> QED
  BY <1>6, <1>16, <1>17, <1>18

\* Whenever the report over all days is clean and no refund row was deleted,
\* the platform's net, the owners' share of it and the owners' own summaries
\* are the sums over the bookings paid and not refunded (GetSummary of
\* platformfinance, GetFinanceSummary of finance).
THEOREM BooksBalanced == Spec => []BooksBalance
  BY Balance, ReportsInvariance, PTL

=============================================================================
