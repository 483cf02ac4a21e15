------------------------------ MODULE Bookings ------------------------------
(***************************************************************************)
(* The booking lifecycle of internal/bookings and internal/refunds: slots  *)
(* are reserved, paid by proof or by confirmation, swept when they expire, *)
(* completed, cancelled and refunded.  Every transaction that takes its    *)
(* row locks before it reads is one action.  The operations that read in   *)
(* one transaction and write in another, or that hold a lock across        *)
(* several statements, are split at those points: the creation of a        *)
(* booking, the expiry sweep and the request of a refund.                  *)
(***************************************************************************)
EXTENDS Integers, FiniteSets

CONSTANTS
    BookingIds,     \* rows of the table bookings
    RequestIds,     \* rows of the table booking_refund_requests
    Courts,         \* courts of active venues
    Intervals,      \* pairs <<start, end>> a booking or a block may ask for
    NoBooking,      \* the value of a court lock nobody holds
    DayLength,      \* ticks of a day
    OpenAt,         \* opening hour of every court, in ticks of the day
    CloseAt,        \* closing hour of every court
    TTL,            \* BOOKING_TTL_MINUTES
    RefundCutoff,   \* the hour before the start, in ticks
    MaxBlocks,      \* bound on the owner's blocked slots
    MaxTime         \* bound on the clock

NullTime == -1      \* expires_at IS NULL

ASSUME BookingsAssumption ==
    /\ Intervals \subseteq {i \in Nat \X Nat : i[1] < i[2]}
    /\ NoBooking \notin BookingIds
    /\ DayLength \in Nat \ {0}
    /\ OpenAt \in Nat /\ CloseAt \in Nat
    /\ TTL \in Nat \ {0}
    /\ RefundCutoff \in Nat
    /\ MaxBlocks \in Nat
    /\ MaxTime \in Nat

VARIABLES
    now,        \* the database clock
    status,     \* bookings.status, "NONE" for a row not inserted
    slot,       \* court and interval asked for
    createdAt,  \* transaction timestamp of the creation
    expiresAt,  \* bookings.expires_at
    creation,   \* progress of the transaction that creates the row
    courtLock,  \* holder of SELECT ... FOR UPDATE on a court
    income,     \* rows INCOME/BOOKING of owner_finance_transactions
    refund,     \* rows EXPENSE/REFUND of owner_finance_transactions
    request,    \* refund requests and the handlers about to insert one
    sweep,      \* expired bookings the sweeper read and has yet to visit
    blocked     \* court_blocked_slots

rows  == <<status, slot, createdAt, expiresAt>>
locks == <<creation, courtLock>>
cash  == <<income, refund>>
vars  == <<now, rows, locks, cash, request, sweep, blocked>>

Statuses == {"NONE", "PENDING_PAYMENT", "WAITING_VERIFICATION", "CONFIRMED",
             "PAID", "COMPLETED", "CANCELLED"}

Slots  == {[court |-> c, start |-> i[1], end |-> i[2]] : c \in Courts, i \in Intervals}
NoSlot == [court |-> "NONE", start |-> 0, end |-> 0]
SlotOf(c, i) == [court |-> c, start |-> i[1], end |-> i[2]]

NoCreation == [step |-> "IDLE", status |-> "NONE"]
NoRequest  == [booking |-> NoBooking, state |-> "FREE"]

Overlap(s, t) ==
    /\ s.court = t.court
    /\ s.start < t.end
    /\ t.start < s.end

(***************************************************************************)
(* A transaction sees clock value at: a pending booking whose deadline is  *)
(* reached no longer holds its slot.                                       *)
(***************************************************************************)
ExpiredAt(b, at) ==
    /\ status[b] = "PENDING_PAYMENT"
    /\ expiresAt[b] = NullTime \/ expiresAt[b] <= at

HoldsSlotAt(b, at) ==
    /\ status[b] \notin {"NONE", "CANCELLED"}
    /\ ~ExpiredAt(b, at)

Finished(b) == slot[b].end <= now

DateOf(t) == t \div DayLength

-----------------------------------------------------------------------------
Init ==
    /\ now = 0
    /\ status = [b \in BookingIds |-> "NONE"]
    /\ slot = [b \in BookingIds |-> NoSlot]
    /\ createdAt = [b \in BookingIds |-> NullTime]
    /\ expiresAt = [b \in BookingIds |-> NullTime]
    /\ creation = [b \in BookingIds |-> NoCreation]
    /\ courtLock = [c \in Courts |-> NoBooking]
    /\ income = [b \in BookingIds |-> 0]
    /\ refund = [b \in BookingIds |-> 0]
    /\ request = [r \in RequestIds |-> NoRequest]
    /\ sweep = {}
    /\ blocked = {}

Tick ==
    /\ now < MaxTime
    /\ now' = now + 1
    /\ UNCHANGED <<rows, locks, cash, request, sweep, blocked>>

-----------------------------------------------------------------------------
(***************************************************************************)
(* Creation.  The service reads the clock and validates the request, locks *)
(* the court, checks the slot and inserts; the lock is held to the commit. *)
(***************************************************************************)
BeginBookingTx(b, s, target, deadline) ==
    /\ status[b] = "NONE"
    /\ creation[b] = NoCreation
    /\ creation' = [creation EXCEPT ![b] = [step |-> "BEGUN", status |-> target]]
    /\ slot' = [slot EXCEPT ![b] = s]
    /\ createdAt' = [createdAt EXCEPT ![b] = now]
    /\ expiresAt' = [expiresAt EXCEPT ![b] = deadline]
    /\ UNCHANGED <<now, status, courtLock, cash, request, sweep, blocked>>

CreateBooking(b, c, i) ==
    /\ DateOf(i[1]) >= DateOf(now)                  \* else ErrPastDate
    /\ BeginBookingTx(b, SlotOf(c, i), "PENDING_PAYMENT", now + TTL)

OwnerCreateOfflineBooking(b, c, i, target) ==
    BeginBookingTx(b, SlotOf(c, i), target, NullTime)

InOperatingHours(s) ==
    /\ s.start % DayLength >= OpenAt
    /\ s.end - DayLength * DateOf(s.start) <= CloseAt

CheckBlockedSlots(s) == \E k \in blocked : Overlap(s, k)

CheckExistingBookings(s, at) ==
    \E b \in BookingIds : Overlap(slot[b], s) /\ HoldsSlotAt(b, at)

\* Altered form: the SELECT of the court without FOR UPDATE.
CourtFreeUnlocked(c) == c \in Courts

CourtFree(c) == courtLock[c] = NoBooking

\* LockCourtValidationInfo and the checks under the lock.
LockCourtAndCheck(b) ==
    /\ creation[b].step = "BEGUN"
    /\ CourtFree(slot[b].court)
    /\ InOperatingHours(slot[b])
    /\ ~CheckBlockedSlots(slot[b])
    /\ ~CheckExistingBookings(slot[b], createdAt[b])
    /\ courtLock' = [courtLock EXCEPT ![slot[b].court] = b]
    /\ creation' = [creation EXCEPT ![b].step = "CHECKED"]
    /\ UNCHANGED <<now, rows, cash, request, sweep, blocked>>

CommitBookingTx(b) ==
    /\ creation[b].step = "CHECKED"
    /\ status' = [status EXCEPT ![b] = creation[b].status]
    /\ creation' = [creation EXCEPT ![b] = NoCreation]
    /\ courtLock' = [courtLock EXCEPT ![slot[b].court] = NoBooking]
    /\ UNCHANGED <<now, slot, createdAt, expiresAt, refund, request, sweep, blocked>>

InsertBooking(b) ==
    /\ creation[b].status = "PENDING_PAYMENT"
    /\ CommitBookingTx(b)
    /\ UNCHANGED income

InsertOfflineBookingTx(b) ==
    /\ creation[b].status \in {"PAID", "COMPLETED"}
    /\ CommitBookingTx(b)
    /\ income' = [income EXCEPT ![b] = @ + 1]

(***************************************************************************)
(* Any error return of the service: a failed check, an invalid promo or    *)
(* price, a lost connection.  The rollback undoes everything.              *)
(***************************************************************************)
AbortBookingTx(b) ==
    /\ creation[b].step \in {"BEGUN", "CHECKED"}
    /\ courtLock' = [c \in Courts |-> IF courtLock[c] = b THEN NoBooking ELSE courtLock[c]]
    /\ creation' = [creation EXCEPT ![b] = NoCreation]
    /\ slot' = [slot EXCEPT ![b] = NoSlot]
    /\ createdAt' = [createdAt EXCEPT ![b] = NullTime]
    /\ expiresAt' = [expiresAt EXCEPT ![b] = NullTime]
    /\ UNCHANGED <<now, status, cash, request, sweep, blocked>>

-----------------------------------------------------------------------------
(***************************************************************************)
(* One UPDATE ... WHERE status = from; no row means an error response.     *)
(***************************************************************************)
MoveStatus(b, from, to) ==
    /\ status[b] = from
    /\ status' = [status EXCEPT ![b] = to]
    /\ UNCHANGED <<now, slot, createdAt, expiresAt, locks, sweep, blocked>>

SubmitPaymentProof(b) ==
    /\ MoveStatus(b, "PENDING_PAYMENT", "WAITING_VERIFICATION")
    /\ UNCHANGED <<cash, request>>

ConfirmBookingPayment(b) ==
    /\ MoveStatus(b, "PENDING_PAYMENT", "CONFIRMED")
    /\ UNCHANGED <<cash, request>>

\* INSERT ... ON CONFLICT (booking_id) DO NOTHING.
InsertIncomeOnce(b) ==
    income' = [income EXCEPT ![b] = IF @ = 0 THEN 1 ELSE @]

ApprovePayment(b) ==
    /\ MoveStatus(b, "WAITING_VERIFICATION", "PAID")
    /\ InsertIncomeOnce(b)
    /\ UNCHANGED <<refund, request>>

\* The deadline is not extended: expires_at keeps its value.
RejectPayment(b) ==
    /\ MoveStatus(b, "WAITING_VERIFICATION", "PENDING_PAYMENT")
    /\ UNCHANGED <<cash, request>>

MarkBookingPaid(b) ==
    /\ MoveStatus(b, "CONFIRMED", "PAID")
    /\ InsertIncomeOnce(b)
    /\ UNCHANGED <<refund, request>>

CompleteBooking(b) ==
    /\ Finished(b)
    /\ MoveStatus(b, "PAID", "COMPLETED")
    /\ UNCHANGED <<cash, request>>

\* Altered form: a booking whose proof is under verification is cancelled too.
CancelUnpaidBooking(b) ==
    /\ \/ MoveStatus(b, "PENDING_PAYMENT", "CANCELLED")
       \/ MoveStatus(b, "WAITING_VERIFICATION", "CANCELLED")
    /\ UNCHANGED <<cash, request>>

CancelBooking(b) ==
    /\ MoveStatus(b, "PENDING_PAYMENT", "CANCELLED")
    /\ UNCHANGED <<cash, request>>

\* The checks and writes shared by the owner's cancellation and an approval.
RefundPaidBooking(b) ==
    /\ income[b] > 0                                \* else ErrBookingIncomeLedgerNotFound
    /\ refund[b] = 0                                \* else ErrBookingRefundAlreadyExists
    /\ MoveStatus(b, "PAID", "CANCELLED")
    /\ refund' = [refund EXCEPT ![b] = @ + 1]
    /\ UNCHANGED income

\* Altered form: the cancellation commits without its refund row.
CancelPaidBookingWithoutRefund(b) ==
    /\ MoveStatus(b, "PAID", "CANCELLED")
    /\ UNCHANGED <<cash, request>>

CancelPaidBookingWithRefund(b) ==
    /\ RefundPaidBooking(b)
    /\ UNCHANGED request

-----------------------------------------------------------------------------
(***************************************************************************)
(* Background workers.  The expiry sweep reads its candidates once and     *)
(* then cancels them one transaction at a time, in order of their          *)
(* deadlines; an error on one is logged and the next one is tried.         *)
(***************************************************************************)
FinishedPaid == {b \in BookingIds : status[b] = "PAID" /\ Finished(b)}

\* Altered form: only bookings of the current date are completed.
AutoCompleteTodaysBookings ==
    /\ \E b \in FinishedPaid : DateOf(slot[b].start) = DateOf(now)
    /\ status' = [b \in BookingIds |->
                    IF b \in FinishedPaid /\ DateOf(slot[b].start) = DateOf(now)
                      THEN "COMPLETED" ELSE status[b]]
    /\ UNCHANGED <<now, slot, createdAt, expiresAt, locks, cash, request, sweep, blocked>>

AutoCompleteFinishedBookings ==
    /\ FinishedPaid # {}
    /\ status' = [b \in BookingIds |-> IF b \in FinishedPaid THEN "COMPLETED" ELSE status[b]]
    /\ UNCHANGED <<now, slot, createdAt, expiresAt, locks, cash, request, sweep, blocked>>

ExpiredPending(b) ==
    /\ status[b] = "PENDING_PAYMENT"
    /\ expiresAt[b] # NullTime
    /\ expiresAt[b] <= now

\* Altered form: only the deadlines reached since the last tick are read.
SweepReadLatest ==
    /\ sweep = {}
    /\ sweep' = {b \in BookingIds : ExpiredPending(b) /\ expiresAt[b] = now}
    /\ sweep' # {}
    /\ UNCHANGED <<now, rows, locks, cash, request, blocked>>

SweepRead ==
    /\ sweep = {}
    /\ \E b \in BookingIds : ExpiredPending(b)
    /\ sweep' = {b \in BookingIds : ExpiredPending(b)}
    /\ UNCHANGED <<now, rows, locks, cash, request, blocked>>

NextCandidate(b) ==
    /\ b \in sweep
    /\ \A o \in sweep : expiresAt[b] <= expiresAt[o]

\* The UPDATE of cancelPendingByIDAndCustomerID with requireExpired.
SweepCancel(b) ==
    /\ NextCandidate(b)
    /\ ExpiredPending(b)
    /\ status' = [status EXCEPT ![b] = "CANCELLED"]
    /\ sweep' = sweep \ {b}
    /\ UNCHANGED <<now, slot, createdAt, expiresAt, locks, cash, request, blocked>>

\* pgx.ErrNoRows, or an error of this candidate's transaction.
SweepSkip(b) ==
    /\ NextCandidate(b)
    /\ sweep' = sweep \ {b}
    /\ UNCHANGED <<now, rows, locks, cash, request, blocked>>

-----------------------------------------------------------------------------
(***************************************************************************)
(* Refund requests.  The customer's handler reads the booking and the      *)
(* pending request outside a transaction and inserts afterwards; the       *)
(* partial unique index allows one PENDING row per booking.                *)
(***************************************************************************)
CanRequestRefund(b) == now < slot[b].start - RefundCutoff

PendingRequestOf(b) ==
    \E r \in RequestIds : request[r] = [booking |-> b, state |-> "PENDING"]

SetRequest(r, b, s) == request' = [request EXCEPT ![r] = [booking |-> b, state |-> s]]

CheckRefundRequest(r, b) ==
    /\ request[r] = NoRequest
    /\ status[b] = "PAID"
    /\ expiresAt[b] # NullTime                      \* the owner is the customer of an offline row
    /\ CanRequestRefund(b)
    /\ ~PendingRequestOf(b)
    /\ SetRequest(r, b, "CHECKED")
    /\ UNCHANGED <<now, rows, locks, cash, sweep, blocked>>

CreateRefundRequest(r) ==
    /\ request[r].state = "CHECKED"
    /\ IF PendingRequestOf(request[r].booking)      \* unique violation
         THEN request' = [request EXCEPT ![r] = NoRequest]
         ELSE SetRequest(r, request[r].booking, "PENDING")
    /\ UNCHANGED <<now, rows, locks, cash, sweep, blocked>>

\* Altered form: the approval trusts the status the request was made under.
ApproveRefundUnlocked(r) ==
    /\ request[r].state = "PENDING"
    /\ status' = [status EXCEPT ![request[r].booking] = "CANCELLED"]
    /\ refund' = [refund EXCEPT ![request[r].booking] = @ + 1]
    /\ SetRequest(r, request[r].booking, "APPROVED")
    /\ UNCHANGED <<now, slot, createdAt, expiresAt, locks, income, sweep, blocked>>

ApproveRefundRequest(r) ==
    /\ request[r].state = "PENDING"
    /\ RefundPaidBooking(request[r].booking)
    /\ SetRequest(r, request[r].booking, "APPROVED")

RejectRefundRequest(r) ==
    /\ request[r].state = "PENDING"
    /\ SetRequest(r, request[r].booking, "REJECTED")
    /\ UNCHANGED <<now, rows, locks, cash, sweep, blocked>>

-----------------------------------------------------------------------------
\* An owner blocks an interval of a court; existing bookings are not looked at.
CreateBlockedSlot(c, i) ==
    /\ Cardinality(blocked) < MaxBlocks
    /\ blocked' = blocked \cup {SlotOf(c, i)}
    /\ UNCHANGED <<now, rows, locks, cash, request, sweep>>

DeleteBlockedSlot(k) ==
    /\ blocked' = blocked \ {k}
    /\ UNCHANGED <<now, rows, locks, cash, request, sweep>>

-----------------------------------------------------------------------------
CreationStep(b) ==
    \/ \E c \in Courts, i \in Intervals :
         \/ CreateBooking(b, c, i)
         \/ \E target \in {"PAID", "COMPLETED"} : OwnerCreateOfflineBooking(b, c, i, target)
    \/ LockCourtAndCheck(b)
    \/ InsertBooking(b)
    \/ InsertOfflineBookingTx(b)
    \/ AbortBookingTx(b)

LifecycleStep(b) ==
    \/ SubmitPaymentProof(b)
    \/ ConfirmBookingPayment(b)
    \/ ApprovePayment(b)
    \/ RejectPayment(b)
    \/ MarkBookingPaid(b)
    \/ CompleteBooking(b)
    \/ CancelBooking(b)
    \/ CancelPaidBookingWithRefund(b)

SweepStep(b) == SweepCancel(b) \/ SweepSkip(b)

RequestStep(r) ==
    \/ \E b \in BookingIds : CheckRefundRequest(r, b)
    \/ CreateRefundRequest(r)
    \/ ApproveRefundRequest(r)
    \/ RejectRefundRequest(r)

BlockStep ==
    \/ \E c \in Courts, i \in Intervals : CreateBlockedSlot(c, i)
    \/ \E k \in blocked : DeleteBlockedSlot(k)

Next ==
    \/ Tick
    \/ \E b \in BookingIds : CreationStep(b) \/ LifecycleStep(b) \/ SweepStep(b)
    \/ SweepRead
    \/ AutoCompleteFinishedBookings
    \/ \E r \in RequestIds : RequestStep(r)
    \/ BlockStep

Spec == Init /\ [][Next]_vars

(***************************************************************************)
(* StartExpiryWorker and StartAutoCompleteWorker tick for as long as the   *)
(* process lives and go on after an error; a candidate's own transaction   *)
(* does not fail for ever.  Users and owners owe nothing.                  *)
(***************************************************************************)
Fairness ==
    /\ WF_vars(Tick)
    /\ WF_vars(SweepRead)
    /\ WF_vars(\E b \in BookingIds : SweepStep(b))
    /\ \A b \in BookingIds : SF_vars(SweepCancel(b))
    /\ WF_vars(AutoCompleteFinishedBookings)

FairSpec == Spec /\ Fairness

-----------------------------------------------------------------------------
\* Type invariant: every column and every transaction variable has a value
\* the schema and the code allow.
TypeOK ==
    /\ now \in 0 .. MaxTime
    /\ status \in [BookingIds -> Statuses]
    /\ slot \in [BookingIds -> Slots \cup {NoSlot}]
    /\ createdAt \in [BookingIds -> Int]
    /\ expiresAt \in [BookingIds -> Int]
    /\ creation \in [BookingIds -> [step : {"IDLE", "BEGUN", "CHECKED"},
                                    status : {"NONE", "PENDING_PAYMENT", "PAID", "COMPLETED"}]]
    /\ courtLock \in [Courts -> BookingIds \cup {NoBooking}]
    /\ income \in [BookingIds -> Nat]
    /\ refund \in [BookingIds -> Nat]
    /\ request \in [RequestIds -> [booking : BookingIds \cup {NoBooking},
                                   state : {"FREE", "CHECKED", "PENDING", "APPROVED", "REJECTED"}]]
    /\ sweep \subseteq BookingIds
    /\ blocked \subseteq Slots

Fulfilled(b) == status[b] \in {"PAID", "COMPLETED"}

(***************************************************************************)
(* The owner's ledger agrees with the bookings on every path to and from   *)
(* PAID: a booking is paid or completed exactly when it has one income row *)
(* that no refund row reverses, and a refund row only reverses an income   *)
(* row, once (VerifyPayment, MarkBookingPaid, InsertOfflineBookingTx,      *)
(* CancelPaidBookingWithRefund, ApproveRefundRequest racing each other).   *)
(***************************************************************************)
CashMatchesFulfilment ==
    \A b \in BookingIds :
        /\ income[b] \in {0, 1}
        /\ refund[b] \in {0, income[b]}
        /\ Fulfilled(b) <=> income[b] - refund[b] = 1

(***************************************************************************)
(* A deadline is what separates two bookings of one slot: when two rows    *)
(* that are not cancelled overlap, the deadline of one had passed when the *)
(* other was created.  It is the row lock on the court, held from the      *)
(* check to the commit, that keeps two creations from both passing         *)
(* CheckExistingBookings.                                                  *)
(***************************************************************************)
DeadlineBefore(b, o) == expiresAt[b] # NullTime /\ expiresAt[b] <= createdAt[o]

Active(b) == status[b] \notin {"NONE", "CANCELLED"}

OverlapOnlyAfterDeadline ==
    \A b, o \in BookingIds :
        (b # o /\ Active(b) /\ Active(o) /\ Overlap(slot[b], slot[o]))
            => DeadlineBefore(b, o) \/ DeadlineBefore(o, b)

(***************************************************************************)
(* An approved request is the one refund of its booking: the booking is    *)
(* cancelled for good, its refund row is written, and no second request of *)
(* the booking is approved, whatever the owner's direct cancellation and   *)
(* the completion worker do meanwhile.                                     *)
(***************************************************************************)
ApprovedRefundIsFinal ==
    \A r \in RequestIds : request[r].state = "APPROVED" =>
        /\ status[request[r].booking] = "CANCELLED"
        /\ refund[request[r].booking] = 1
        /\ \A q \in RequestIds \ {r} :
             request[q].booking = request[r].booking => request[q].state # "APPROVED"

(***************************************************************************)
(* The sweeper acts on a list it read earlier.  It never cancels a booking *)
(* that was paid for, confirmed or put under verification since: a step    *)
(* that takes a booking off the list and changes it finds it pending with  *)
(* its deadline reached.                                                   *)
(***************************************************************************)
SweepCancelsOnlyExpired ==
    [][\A b \in sweep \ sweep' :
          status'[b] # status[b] =>
              /\ status[b] = "PENDING_PAYMENT" /\ status'[b] = "CANCELLED"
              /\ expiresAt[b] # NullTime /\ expiresAt[b] <= now]_vars

(***************************************************************************)
(* An expired booking does not keep its row pending: the sweeper, or a     *)
(* user's own step, moves it on, though other candidates fail and users    *)
(* keep bouncing it between proof and rejection.                           *)
(***************************************************************************)
ExpiredPendingMovesOn ==
    \A b \in BookingIds : ExpiredPending(b) ~> ~ExpiredPending(b)

(***************************************************************************)
(* Every paid booking is settled in the end: completed after its interval  *)
(* or cancelled with a refund (AutoCompleteFinishedBookings).              *)
(***************************************************************************)
PaidSettles ==
    \A b \in BookingIds :
        status[b] = "PAID" ~> status[b] \in {"COMPLETED", "CANCELLED"}

(***************************************************************************)
(* What ErrOverlapBooking tells a customer, "court is already booked for   *)
(* the requested time": a slot has one booking at a time.                  *)
(***************************************************************************)
Reserved(b) == status[b] \in {"WAITING_VERIFICATION", "CONFIRMED", "PAID"}

NoDoubleBooking ==
    \A b, o \in BookingIds :
        (b # o /\ Reserved(b) /\ Reserved(o)) => ~Overlap(slot[b], slot[o])

(***************************************************************************)
(* Every row of bookings, with its ledger rows, follows BookingLifecycle:  *)
(* no interleaving of customers, owners, the sweeper, the completion       *)
(* worker and refund handlers moves a booking or its money another way.    *)
(***************************************************************************)
Row(b) == INSTANCE BookingLifecycle
            WITH status <- status[b], income <- income[b], refund <- refund[b]

RowsFollowLifecycle ==
    /\ \A b \in BookingIds : Row(b)!Init
    /\ [][\A b \in BookingIds : [Row(b)!Next]_(Row(b)!vars)]_vars
-----------------------------------------------------------------------------
(***************************************************************************)
(* Inductive strengthenings of the invariants, used by BookingsProofs.     *)
(***************************************************************************)
\* A transaction in progress owns its row, and has one only while it runs.
CreationInv ==
    \A b \in BookingIds :
        IF creation[b].step = "IDLE"
          THEN creation[b] = NoCreation
          ELSE /\ status[b] = "NONE" /\ slot[b] \in Slots
               /\ creation[b].status \in {"PENDING_PAYMENT", "PAID", "COMPLETED"}

\* The ledger rows each status comes with.
CashInv ==
    \A b \in BookingIds :
        /\ status[b] \in {"PAID", "COMPLETED"} => income[b] = 1 /\ refund[b] = 0
        /\ status[b] \in {"NONE", "PENDING_PAYMENT", "WAITING_VERIFICATION", "CONFIRMED"}
              => income[b] = 0 /\ refund[b] = 0
        /\ status[b] = "CANCELLED" => income[b] \in {0, 1} /\ refund[b] = income[b]

\* Rows that can still become, or become again, pending have a deadline.
DeadlineInv ==
    \A b \in BookingIds :
        \/ status[b] \in {"PENDING_PAYMENT", "WAITING_VERIFICATION"}
        \/ creation[b].status = "PENDING_PAYMENT"
        => expiresAt[b] # NullTime

\* A creation that passed its checks holds the lock on its court.
LockInv ==
    \A b \in BookingIds :
        creation[b].step = "CHECKED" => courtLock[slot[b].court] = b

Claims(b) == Active(b) \/ creation[b].step = "CHECKED"

\* OverlapOnlyAfterDeadline for rows about to be inserted as well.
ClaimInv ==
    \A b, o \in BookingIds :
        (b # o /\ Claims(b) /\ Claims(o) /\ Overlap(slot[b], slot[o]))
            => DeadlineBefore(b, o) \/ DeadlineBefore(o, b)

\* A request that left FREE names a booking.
RequestInv ==
    /\ \A r \in RequestIds : request[r].state # "FREE" => request[r].booking \in BookingIds
    /\ ApprovedRefundIsFinal
=============================================================================
