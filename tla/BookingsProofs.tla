--------------------------- MODULE BookingsProofs ---------------------------
(***************************************************************************)
(* Proofs about Bookings and about the open matches played on them.        *)
(*                                                                         *)
(* Bookings: types, the owner's ledger, slot exclusion up to the payment   *)
(* deadline, final refunds and the sweeper's re-check, for any number of   *)
(* bookings, courts, intervals and requests.                               *)
(*                                                                         *)
(* OpenMatches: for any number of matches, customers, requests and         *)
(* connections, MatchInv says who holds the row of a match (RowLockInv),   *)
(* that what a holder read behind its locks is still true (HolderInv), and *)
(* which number of participants goes with which status (SeatInv); the      *)
(* second is what makes the third inductive.                               *)
(***************************************************************************)
EXTENDS Bookings, OpenMatches, FiniteSetTheorems, TLAPS

(***************************************************************************)
(* A slot of SlotOf's shape lies on a court and has integer bounds.        *)
(***************************************************************************)
LEMMA SlotFacts ==
    /\ \A c \in Courts, i \in Intervals : SlotOf(c, i) \in Slots
    /\ \A s \in Slots : s.court \in Courts /\ s.start \in Nat /\ s.end \in Nat
BY BookingsAssumption DEF Slots, SlotOf

(***************************************************************************)
(* Every action keeps the variables in their types.                        *)
(***************************************************************************)
LEMMA TypeStep == TypeOK /\ [Next]_vars => TypeOK'
<1> SUFFICES ASSUME TypeOK, [Next]_vars PROVE TypeOK'
  OBVIOUS
<1> USE BookingsAssumption DEF TypeOK
<1>1. CASE Tick
  BY <1>1 DEF Tick, rows, locks, cash
<1>2. ASSUME NEW b \in BookingIds, CreationStep(b) PROVE TypeOK'
  <2>1. ASSUME NEW c \in Courts, NEW i \in Intervals, CreateBooking(b, c, i) PROVE TypeOK'
    <3>1. now + TTL \in Int /\ now \in Int
      OBVIOUS
    <3> QED
      BY <2>1, <3>1, SlotFacts DEF CreateBooking, BeginBookingTx, cash
  <2>2. ASSUME NEW c \in Courts, NEW i \in Intervals, NEW t \in {"PAID", "COMPLETED"},
               OwnerCreateOfflineBooking(b, c, i, t) PROVE TypeOK'
    BY <2>2, SlotFacts DEF OwnerCreateOfflineBooking, BeginBookingTx, cash, NullTime
  <2>3. CASE LockCourtAndCheck(b)
    BY <2>3 DEF LockCourtAndCheck, rows, cash
  <2>4. CASE InsertBooking(b)
    BY <2>4 DEF InsertBooking, CommitBookingTx, NoCreation, Statuses
  <2>5. CASE InsertOfflineBookingTx(b)
    <3>1. income[b] + 1 \in Nat
      OBVIOUS
    <3>2. income' \in [BookingIds -> Nat]
      BY <2>5, <3>1 DEF InsertOfflineBookingTx
    <3>3. creation[b].status \in Statuses
      BY DEF Statuses
    <3> QED
      BY <2>5, <3>2, <3>3 DEF InsertOfflineBookingTx, CommitBookingTx, NoCreation
  <2>6. CASE AbortBookingTx(b)
    BY <2>6 DEF AbortBookingTx, NoCreation, NullTime, cash
  <2> QED
    BY <1>2, <2>1, <2>2, <2>3, <2>4, <2>5, <2>6 DEF CreationStep
<1>3. ASSUME NEW b \in BookingIds, LifecycleStep(b) PROVE TypeOK'
  BY <1>3 DEF LifecycleStep, SubmitPaymentProof, ConfirmBookingPayment, ApprovePayment,
     RejectPayment, MarkBookingPaid, CompleteBooking, CancelBooking,
     CancelPaidBookingWithRefund, RefundPaidBooking, MoveStatus, InsertIncomeOnce,
     Statuses, locks, cash
<1>4. ASSUME NEW b \in BookingIds, SweepStep(b) PROVE TypeOK'
  BY <1>4 DEF SweepStep, SweepCancel, SweepSkip, Statuses, rows, locks, cash
<1>5. CASE SweepRead
  BY <1>5 DEF SweepRead, rows, locks, cash
<1>6. CASE AutoCompleteFinishedBookings
  BY <1>6 DEF AutoCompleteFinishedBookings, Statuses, locks, cash
<1>7. ASSUME NEW r \in RequestIds, RequestStep(r) PROVE TypeOK'
  BY <1>7 DEF RequestStep, CheckRefundRequest, CreateRefundRequest, ApproveRefundRequest,
     RejectRefundRequest, RefundPaidBooking, MoveStatus, SetRequest, NoRequest, Statuses,
     rows, locks, cash
<1>8. CASE BlockStep
  BY <1>8, SlotFacts DEF BlockStep, CreateBlockedSlot, DeleteBlockedSlot, rows, locks, cash
<1>9. CASE UNCHANGED vars
  BY <1>9 DEF vars, rows, locks, cash
<1> QED
  BY <1>1, <1>2, <1>3, <1>4, <1>5, <1>6, <1>7, <1>8, <1>9 DEF Next

(***************************************************************************)
(* Type correctness of the lifecycle.                                      *)
(***************************************************************************)
THEOREM TypeCorrect == Spec => []TypeOK
<1>1. Init => TypeOK
  BY BookingsAssumption DEF Init, TypeOK, NoSlot, NoCreation, NoRequest, NullTime, Statuses
<1> QED
  BY <1>1, TypeStep, PTL DEF Spec

-----------------------------------------------------------------------------
(***************************************************************************)
(* The edges of a row that exists.                                         *)
(***************************************************************************)
LifecycleEdge(b) ==
    \/ status'[b] = status[b]
    \/ status[b] = "PENDING_PAYMENT"
       /\ status'[b] \in {"WAITING_VERIFICATION", "CONFIRMED", "CANCELLED"}
    \/ status[b] = "WAITING_VERIFICATION" /\ status'[b] \in {"PAID", "PENDING_PAYMENT"}
    \/ status[b] = "CONFIRMED" /\ status'[b] = "PAID"
    \/ status[b] = "PAID" /\ status'[b] \in {"COMPLETED", "CANCELLED"}

(***************************************************************************)
(* Only a creation touches deadlines, slots and court locks; every other   *)
(* step moves existing rows along their edges.                             *)
(***************************************************************************)
LEMMA RowStep ==
    ASSUME TypeOK, [Next]_vars, ~ \E b \in BookingIds : CreationStep(b)
    PROVE  /\ UNCHANGED <<slot, createdAt, expiresAt, creation, courtLock>>
           /\ \A b \in BookingIds : LifecycleEdge(b)
<1> USE DEF TypeOK, LifecycleEdge
<1>1. CASE Tick
  BY <1>1 DEF Tick, rows, locks
<1>2. ASSUME NEW b \in BookingIds, LifecycleStep(b)
      PROVE  /\ UNCHANGED <<slot, createdAt, expiresAt, creation, courtLock>>
             /\ \A x \in BookingIds : LifecycleEdge(x)
  BY <1>2 DEF LifecycleStep, SubmitPaymentProof, ConfirmBookingPayment, ApprovePayment,
     RejectPayment, MarkBookingPaid, CompleteBooking, CancelBooking,
     CancelPaidBookingWithRefund, RefundPaidBooking, MoveStatus, locks
<1>3. ASSUME NEW b \in BookingIds, SweepStep(b)
      PROVE  /\ UNCHANGED <<slot, createdAt, expiresAt, creation, courtLock>>
             /\ \A x \in BookingIds : LifecycleEdge(x)
  BY <1>3 DEF SweepStep, SweepCancel, SweepSkip, ExpiredPending, rows, locks
<1>4. CASE SweepRead
  BY <1>4 DEF SweepRead, rows, locks
<1>5. CASE AutoCompleteFinishedBookings
  BY <1>5 DEF AutoCompleteFinishedBookings, FinishedPaid, locks
<1>6. ASSUME NEW r \in RequestIds, RequestStep(r)
      PROVE  /\ UNCHANGED <<slot, createdAt, expiresAt, creation, courtLock>>
             /\ \A x \in BookingIds : LifecycleEdge(x)
  BY <1>6 DEF RequestStep, CheckRefundRequest, CreateRefundRequest, ApproveRefundRequest,
     RejectRefundRequest, RefundPaidBooking, MoveStatus, rows, locks
<1>7. CASE BlockStep
  BY <1>7 DEF BlockStep, CreateBlockedSlot, DeleteBlockedSlot, rows, locks
<1>8. CASE UNCHANGED vars
  BY <1>8 DEF vars, rows, locks
<1> QED
  BY <1>1, <1>2, <1>3, <1>4, <1>5, <1>6, <1>7, <1>8 DEF Next

-----------------------------------------------------------------------------
(***************************************************************************)
(* Transactions in progress own rows that do not exist yet.                *)
(***************************************************************************)
LEMMA CreationStepInv == TypeOK /\ CreationInv /\ [Next]_vars => CreationInv'
<1> SUFFICES ASSUME TypeOK, CreationInv, [Next]_vars PROVE CreationInv'
  OBVIOUS
<1> USE DEF TypeOK, CreationInv
<1>1. ASSUME NEW b \in BookingIds, CreationStep(b) PROVE CreationInv'
  <2>1. ASSUME NEW c \in Courts, NEW i \in Intervals, CreateBooking(b, c, i) PROVE CreationInv'
    BY <2>1, SlotFacts DEF CreateBooking, BeginBookingTx
  <2>2. ASSUME NEW c \in Courts, NEW i \in Intervals, NEW t \in {"PAID", "COMPLETED"},
               OwnerCreateOfflineBooking(b, c, i, t) PROVE CreationInv'
    BY <2>2, SlotFacts DEF OwnerCreateOfflineBooking, BeginBookingTx
  <2>3. CASE LockCourtAndCheck(b)
    BY <2>3 DEF LockCourtAndCheck, rows, NoCreation
  <2>4. CASE InsertBooking(b)
    BY <2>4 DEF InsertBooking, CommitBookingTx, NoCreation
  <2>5. CASE InsertOfflineBookingTx(b)
    BY <2>5 DEF InsertOfflineBookingTx, CommitBookingTx, NoCreation
  <2>6. CASE AbortBookingTx(b)
    BY <2>6 DEF AbortBookingTx, NoCreation
  <2> QED
    BY <1>1, <2>1, <2>2, <2>3, <2>4, <2>5, <2>6 DEF CreationStep
<1>2. CASE ~ \E b \in BookingIds : CreationStep(b)
  BY <1>2, RowStep DEF LifecycleEdge
<1> QED
  BY <1>1, <1>2

(***************************************************************************)
(* Each status comes with its ledger rows.                                 *)
(***************************************************************************)
LEMMA CashStepInv == TypeOK /\ CreationInv /\ CashInv /\ [Next]_vars => CashInv'
<1> SUFFICES ASSUME TypeOK, CreationInv, CashInv, [Next]_vars PROVE CashInv'
  OBVIOUS
<1> USE DEF TypeOK, CashInv
<1>1. CASE Tick
  BY <1>1 DEF Tick, rows, cash
<1>2. ASSUME NEW b \in BookingIds, CreationStep(b) PROVE CashInv'
  <2>1. ASSUME NEW c \in Courts, NEW i \in Intervals, CreateBooking(b, c, i) PROVE CashInv'
    BY <2>1 DEF CreateBooking, BeginBookingTx, cash
  <2>2. ASSUME NEW c \in Courts, NEW i \in Intervals, NEW t \in {"PAID", "COMPLETED"},
               OwnerCreateOfflineBooking(b, c, i, t) PROVE CashInv'
    BY <2>2 DEF OwnerCreateOfflineBooking, BeginBookingTx, cash
  <2>3. CASE LockCourtAndCheck(b)
    BY <2>3 DEF LockCourtAndCheck, rows, cash
  <2>4. CASE InsertBooking(b)
    BY <2>4 DEF InsertBooking, CommitBookingTx, CreationInv
  <2>5. CASE InsertOfflineBookingTx(b)
    BY <2>5 DEF InsertOfflineBookingTx, CommitBookingTx, CreationInv
  <2>6. CASE AbortBookingTx(b)
    BY <2>6 DEF AbortBookingTx, cash
  <2> QED
    BY <1>2, <2>1, <2>2, <2>3, <2>4, <2>5, <2>6 DEF CreationStep
<1>3. ASSUME NEW b \in BookingIds, LifecycleStep(b) PROVE CashInv'
  <2>1. CASE SubmitPaymentProof(b) \/ ConfirmBookingPayment(b) \/ RejectPayment(b)
             \/ CompleteBooking(b) \/ CancelBooking(b)
    BY <2>1 DEF SubmitPaymentProof, ConfirmBookingPayment, RejectPayment, CompleteBooking,
       CancelBooking, MoveStatus, cash
  <2>2. CASE ApprovePayment(b) \/ MarkBookingPaid(b)
    BY <2>2 DEF ApprovePayment, MarkBookingPaid, MoveStatus, InsertIncomeOnce
  <2>3. CASE CancelPaidBookingWithRefund(b)
    BY <2>3 DEF CancelPaidBookingWithRefund, RefundPaidBooking, MoveStatus
  <2> QED
    BY <1>3, <2>1, <2>2, <2>3 DEF LifecycleStep
<1>4. ASSUME NEW b \in BookingIds, SweepStep(b) PROVE CashInv'
  BY <1>4 DEF SweepStep, SweepCancel, SweepSkip, ExpiredPending, rows, cash
<1>5. CASE SweepRead
  BY <1>5 DEF SweepRead, rows, cash
<1>6. CASE AutoCompleteFinishedBookings
  BY <1>6 DEF AutoCompleteFinishedBookings, FinishedPaid, cash
<1>7. ASSUME NEW r \in RequestIds, RequestStep(r) PROVE CashInv'
  <2>1. CASE ApproveRefundRequest(r)
    BY <2>1 DEF ApproveRefundRequest, RefundPaidBooking, MoveStatus
  <2>2. CASE ~ApproveRefundRequest(r)
    BY <1>7, <2>2 DEF RequestStep, CheckRefundRequest, CreateRefundRequest,
       RejectRefundRequest, rows, cash
  <2> QED
    BY <2>1, <2>2
<1>8. CASE BlockStep
  BY <1>8 DEF BlockStep, CreateBlockedSlot, DeleteBlockedSlot, rows, cash
<1>9. CASE UNCHANGED vars
  BY <1>9 DEF vars, rows, cash
<1> QED
  BY <1>1, <1>2, <1>3, <1>4, <1>5, <1>6, <1>7, <1>8, <1>9 DEF Next

(***************************************************************************)
(* Paid and completed bookings, and no others, have one income row that no *)
(* refund reverses, whichever payment, cancellation and refund paths ran.  *)
(***************************************************************************)
THEOREM CashCorrect == Spec => []CashMatchesFulfilment
<1>1. Init => CreationInv /\ CashInv
  BY DEF Init, CreationInv, CashInv, NoCreation
<1>2. TypeOK /\ CashInv => CashMatchesFulfilment
  BY DEF TypeOK, CashInv, CashMatchesFulfilment, Fulfilled, Statuses
<1> QED
  BY <1>1, <1>2, TypeCorrect, CreationStepInv, CashStepInv, PTL DEF Spec

-----------------------------------------------------------------------------
(***************************************************************************)
(* A row that is pending, or may be again, has a deadline.                 *)
(***************************************************************************)
LEMMA DeadlineStepInv ==
    TypeOK /\ CreationInv /\ DeadlineInv /\ [Next]_vars => DeadlineInv'
<1> SUFFICES ASSUME TypeOK, CreationInv, DeadlineInv, [Next]_vars PROVE DeadlineInv'
  OBVIOUS
<1> USE DEF TypeOK, DeadlineInv
<1>1. ASSUME NEW b \in BookingIds, CreationStep(b) PROVE DeadlineInv'
  <2>1. ASSUME NEW c \in Courts, NEW i \in Intervals, CreateBooking(b, c, i) PROVE DeadlineInv'
    <3>1. now + TTL # NullTime
      BY BookingsAssumption DEF NullTime
    <3> QED
      BY <2>1, <3>1 DEF CreateBooking, BeginBookingTx
  <2>2. ASSUME NEW c \in Courts, NEW i \in Intervals, NEW t \in {"PAID", "COMPLETED"},
               OwnerCreateOfflineBooking(b, c, i, t) PROVE DeadlineInv'
    BY <2>2 DEF OwnerCreateOfflineBooking, BeginBookingTx
  <2>3. CASE LockCourtAndCheck(b)
    BY <2>3 DEF LockCourtAndCheck, rows
  <2>4. CASE InsertBooking(b)
    BY <2>4 DEF InsertBooking, CommitBookingTx, NoCreation
  <2>5. CASE InsertOfflineBookingTx(b)
    BY <2>5 DEF InsertOfflineBookingTx, CommitBookingTx, NoCreation
  <2>6. CASE AbortBookingTx(b)
    BY <2>6 DEF AbortBookingTx, NoCreation, CreationInv
  <2> QED
    BY <1>1, <2>1, <2>2, <2>3, <2>4, <2>5, <2>6 DEF CreationStep
<1>2. CASE ~ \E b \in BookingIds : CreationStep(b)
  BY <1>2, RowStep DEF LifecycleEdge
<1> QED
  BY <1>1, <1>2

(***************************************************************************)
(* A creation that passed its checks holds its court's lock to the end.    *)
(***************************************************************************)
LEMMA LockStepInv == TypeOK /\ CreationInv /\ LockInv /\ [Next]_vars => LockInv'
<1> SUFFICES ASSUME TypeOK, CreationInv, LockInv, [Next]_vars PROVE LockInv'
  OBVIOUS
<1> USE BookingsAssumption DEF TypeOK, LockInv
<1>1. ASSUME NEW b \in BookingIds, CreationStep(b) PROVE LockInv'
  <2>1. ASSUME NEW c \in Courts, NEW i \in Intervals, CreateBooking(b, c, i) PROVE LockInv'
    BY <2>1 DEF CreateBooking, BeginBookingTx
  <2>2. ASSUME NEW c \in Courts, NEW i \in Intervals, NEW t \in {"PAID", "COMPLETED"},
               OwnerCreateOfflineBooking(b, c, i, t) PROVE LockInv'
    BY <2>2 DEF OwnerCreateOfflineBooking, BeginBookingTx
  <2>3. CASE LockCourtAndCheck(b)
    <3>1. slot[b].court \in Courts
      BY <2>3, SlotFacts DEF LockCourtAndCheck, CreationInv
    <3> QED
      BY <2>3, <3>1 DEF LockCourtAndCheck, CourtFree, rows
  <2>4. CASE InsertBooking(b) \/ InsertOfflineBookingTx(b)
    <3> SUFFICES ASSUME NEW x \in BookingIds, creation'[x].step = "CHECKED"
                 PROVE  courtLock'[slot'[x].court] = x
      OBVIOUS
    <3>1. /\ creation[b].step = "CHECKED"
          /\ creation' = [creation EXCEPT ![b] = NoCreation]
          /\ courtLock' = [courtLock EXCEPT ![slot[b].court] = NoBooking]
          /\ slot' = slot
      BY <2>4 DEF InsertBooking, InsertOfflineBookingTx, CommitBookingTx
    <3>2. x # b /\ creation[x].step = "CHECKED"
      BY <3>1 DEF NoCreation
    <3>3. slot[x].court # slot[b].court
      BY <3>1, <3>2
    <3>4. slot[x].court \in Courts
      BY <3>2, SlotFacts DEF CreationInv
    <3> QED
      BY <3>1, <3>2, <3>3, <3>4
  <2>5. CASE AbortBookingTx(b)
    <3>1. \A x \in BookingIds : creation[x].step = "CHECKED" => slot[x].court \in Courts
      BY SlotFacts DEF CreationInv
    <3> QED
      BY <2>5, <3>1 DEF AbortBookingTx, NoCreation
  <2> QED
    BY <1>1, <2>1, <2>2, <2>3, <2>4, <2>5 DEF CreationStep
<1>2. CASE ~ \E b \in BookingIds : CreationStep(b)
  BY <1>2, RowStep
<1> QED
  BY <1>1, <1>2

(***************************************************************************)
(* Two rows that overlap, inserted or about to be, are separated by a      *)
(* deadline.                                                               *)
(***************************************************************************)
LEMMA ClaimStepInv ==
    TypeOK /\ CreationInv /\ DeadlineInv /\ LockInv /\ ClaimInv /\ [Next]_vars => ClaimInv'
<1> SUFFICES ASSUME TypeOK, CreationInv, DeadlineInv, LockInv, ClaimInv, [Next]_vars
             PROVE  ClaimInv'
  OBVIOUS
<1> USE DEF TypeOK, ClaimInv, Claims, Active, DeadlineBefore
<1>1. ASSUME NEW b \in BookingIds, CreationStep(b) PROVE ClaimInv'
  <2>1. ASSUME NEW c \in Courts, NEW i \in Intervals, CreateBooking(b, c, i) PROVE ClaimInv'
    BY <2>1 DEF CreateBooking, BeginBookingTx
  <2>2. ASSUME NEW c \in Courts, NEW i \in Intervals, NEW t \in {"PAID", "COMPLETED"},
               OwnerCreateOfflineBooking(b, c, i, t) PROVE ClaimInv'
    BY <2>2 DEF OwnerCreateOfflineBooking, BeginBookingTx
  <2>3. CASE LockCourtAndCheck(b)
    <3>1. ASSUME NEW o \in BookingIds, o # b, Claims(o), Overlap(slot[o], slot[b])
          PROVE  DeadlineBefore(o, b)
      <4>1. creation[o].step # "CHECKED"
        BY <2>3, <3>1, BookingsAssumption DEF LockCourtAndCheck, CourtFree, LockInv, Overlap
      <4>2. ExpiredAt(o, createdAt[b])
        BY <2>3, <3>1, <4>1 DEF LockCourtAndCheck, CheckExistingBookings, HoldsSlotAt
      <4> QED
        BY <4>2 DEF ExpiredAt, DeadlineInv
    <3>2. \A o \in BookingIds : Overlap(slot[b], slot[o]) => Overlap(slot[o], slot[b])
      BY DEF Overlap
    <3>3. UNCHANGED <<status, slot, createdAt, expiresAt>>
      BY <2>3 DEF LockCourtAndCheck, rows
    <3>4. \A o \in BookingIds : o # b => creation'[o] = creation[o]
      BY <2>3 DEF LockCourtAndCheck
    <3> QED
      BY <3>1, <3>2, <3>3, <3>4 DEF Overlap
  <2>4. CASE InsertBooking(b) \/ InsertOfflineBookingTx(b)
    BY <2>4 DEF InsertBooking, InsertOfflineBookingTx, CommitBookingTx, NoCreation
  <2>5. CASE AbortBookingTx(b)
    BY <2>5 DEF AbortBookingTx, NoCreation, CreationInv
  <2> QED
    BY <1>1, <2>1, <2>2, <2>3, <2>4, <2>5 DEF CreationStep
<1>2. CASE ~ \E b \in BookingIds : CreationStep(b)
  BY <1>2, RowStep DEF LifecycleEdge
<1> QED
  BY <1>1, <1>2

(***************************************************************************)
(* The court lock makes the check of existing bookings sound: overlapping  *)
(* rows that are not cancelled are separated by a payment deadline.        *)
(***************************************************************************)
THEOREM OverlapCorrect == Spec => []OverlapOnlyAfterDeadline
<1>1. Init => CreationInv /\ DeadlineInv /\ LockInv /\ ClaimInv
  BY DEF Init, CreationInv, DeadlineInv, LockInv, ClaimInv, Claims, Active, NoCreation
<1>2. ClaimInv => OverlapOnlyAfterDeadline
  BY DEF ClaimInv, Claims, OverlapOnlyAfterDeadline
<1> QED
  BY <1>1, <1>2, TypeCorrect, CreationStepInv, DeadlineStepInv, LockStepInv, ClaimStepInv,
     PTL DEF Spec

-----------------------------------------------------------------------------
(***************************************************************************)
(* Approved requests stay the only refund of a cancelled booking.          *)
(***************************************************************************)
LEMMA RequestStepInv ==
    TypeOK /\ CreationInv /\ CashInv /\ RequestInv /\ [Next]_vars => RequestInv'
<1> SUFFICES ASSUME TypeOK, CreationInv, CashInv, RequestInv, [Next]_vars PROVE RequestInv'
  OBVIOUS
<1> USE BookingsAssumption DEF TypeOK, RequestInv, ApprovedRefundIsFinal
<1>1. ASSUME NEW r \in RequestIds, RequestStep(r) PROVE RequestInv'
  <2>1. ASSUME NEW b \in BookingIds, CheckRefundRequest(r, b) PROVE RequestInv'
    BY <2>1 DEF CheckRefundRequest, SetRequest, NoRequest, rows, cash
  <2>2. CASE CreateRefundRequest(r)
    <3>1. CASE request' = [request EXCEPT ![r] = NoRequest]
      BY <2>2, <3>1 DEF CreateRefundRequest, NoRequest, rows, cash
    <3>2. CASE SetRequest(r, request[r].booking, "PENDING")
      BY <2>2, <3>2 DEF CreateRefundRequest, SetRequest, rows, cash
    <3> QED
      BY <2>2, <3>1, <3>2 DEF CreateRefundRequest
  <2>3. CASE ApproveRefundRequest(r)
    BY <2>3 DEF ApproveRefundRequest, RefundPaidBooking, MoveStatus, SetRequest
  <2>4. CASE RejectRefundRequest(r)
    BY <2>4 DEF RejectRefundRequest, SetRequest, rows, cash
  <2> QED
    BY <1>1, <2>1, <2>2, <2>3, <2>4 DEF RequestStep
<1>2. CASE /\ UNCHANGED request
           /\ \A b \in BookingIds : status[b] = "CANCELLED" =>
                status'[b] = "CANCELLED" /\ refund'[b] = refund[b]
  BY <1>2
<1>3. CASE Tick \/ SweepRead \/ AutoCompleteFinishedBookings \/ BlockStep \/ UNCHANGED vars
  BY <1>2, <1>3 DEF Tick, SweepRead, AutoCompleteFinishedBookings, FinishedPaid, BlockStep,
     CreateBlockedSlot, DeleteBlockedSlot, vars, rows, cash
<1>4. ASSUME NEW b \in BookingIds, CreationStep(b) PROVE RequestInv'
  BY <1>2, <1>4 DEF CreationStep, CreateBooking, OwnerCreateOfflineBooking, BeginBookingTx,
     LockCourtAndCheck, InsertBooking, InsertOfflineBookingTx, CommitBookingTx,
     AbortBookingTx, CreationInv, rows, cash
<1>5. ASSUME NEW b \in BookingIds, LifecycleStep(b) PROVE RequestInv'
  BY <1>2, <1>5 DEF LifecycleStep, SubmitPaymentProof, ConfirmBookingPayment,
     ApprovePayment, RejectPayment, MarkBookingPaid, CompleteBooking, CancelBooking,
     CancelPaidBookingWithRefund, RefundPaidBooking, MoveStatus, cash
<1>6. ASSUME NEW b \in BookingIds, SweepStep(b) PROVE RequestInv'
  BY <1>2, <1>6 DEF SweepStep, SweepCancel, SweepSkip, ExpiredPending, rows, cash
<1> QED
  BY <1>1, <1>3, <1>4, <1>5, <1>6 DEF Next

(***************************************************************************)
(* An approved request cancels its booking for good and refunds it once.   *)
(***************************************************************************)
THEOREM RefundCorrect == Spec => []ApprovedRefundIsFinal
<1>1. Init => CreationInv /\ CashInv /\ RequestInv
  BY DEF Init, CreationInv, CashInv, RequestInv, ApprovedRefundIsFinal, NoCreation, NoRequest
<1>2. RequestInv => ApprovedRefundIsFinal
  BY DEF RequestInv
<1> QED
  BY <1>1, <1>2, TypeCorrect, CreationStepInv, CashStepInv, RequestStepInv, PTL DEF Spec

-----------------------------------------------------------------------------
(***************************************************************************)
(* What the sweeper read earlier never decides a cancellation: the row is  *)
(* pending and expired in the very step that cancels it.                   *)
(***************************************************************************)
THEOREM SweepCorrect == Spec => SweepCancelsOnlyExpired
<1> DEFINE Safe == \A b \in sweep \ sweep' :
          status'[b] # status[b] =>
              /\ status[b] = "PENDING_PAYMENT" /\ status'[b] = "CANCELLED"
              /\ expiresAt[b] # NullTime /\ expiresAt[b] <= now
<1>1. ASSUME TypeOK, [Next]_vars PROVE [Safe]_vars
  <2> USE DEF TypeOK
  <2>1. ASSUME NEW b \in BookingIds, SweepStep(b) PROVE Safe
    <3>1. CASE SweepCancel(b)
      BY <3>1 DEF SweepCancel, ExpiredPending
    <3>2. CASE SweepSkip(b)
      BY <3>2 DEF SweepSkip, rows
    <3> QED
      BY <2>1, <3>1, <3>2 DEF SweepStep
  <2>2. ASSUME NEW b \in BookingIds, CreationStep(b) \/ LifecycleStep(b) PROVE Safe
    BY <2>2 DEF CreationStep, CreateBooking, OwnerCreateOfflineBooking, BeginBookingTx,
       LockCourtAndCheck, InsertBooking, InsertOfflineBookingTx, CommitBookingTx,
       AbortBookingTx, LifecycleStep, SubmitPaymentProof, ConfirmBookingPayment,
       ApprovePayment, RejectPayment, MarkBookingPaid, CompleteBooking, CancelBooking,
       CancelPaidBookingWithRefund, RefundPaidBooking, MoveStatus
  <2>3. ASSUME NEW r \in RequestIds, RequestStep(r) PROVE Safe
    BY <2>3 DEF RequestStep, CheckRefundRequest, CreateRefundRequest, ApproveRefundRequest,
       RejectRefundRequest, RefundPaidBooking, MoveStatus
  <2>4. CASE Tick \/ SweepRead \/ AutoCompleteFinishedBookings \/ BlockStep
    BY <2>4 DEF Tick, SweepRead, AutoCompleteFinishedBookings, BlockStep,
       CreateBlockedSlot, DeleteBlockedSlot
  <2> QED
    BY <1>1, <2>1, <2>2, <2>3, <2>4 DEF Next
<1> QED
  BY <1>1, TypeCorrect, PTL DEF Spec, SweepCancelsOnlyExpired

-----------------------------------------------------------------------------
MoneyKept(x) == income'[x] = income[x] /\ refund'[x] = refund[x]

\* The steps of Bookings as row x and its ledger rows see them.
Follows(x) ==
    \/ LifecycleEdge(x) /\ status'[x] # "PAID" /\ status[x] # "PAID" /\ MoneyKept(x)
    \/ status'[x] = status[x] /\ MoneyKept(x)
    \/ status[x] = "NONE" /\ status'[x] = "PENDING_PAYMENT" /\ MoneyKept(x)
    \/ /\ status[x] = "NONE" /\ status'[x] \in {"PAID", "COMPLETED"}
       /\ income'[x] = 1 /\ refund'[x] = refund[x]
    \/ /\ status[x] \in {"WAITING_VERIFICATION", "CONFIRMED"} /\ status'[x] = "PAID"
       /\ income[x] = 0 /\ income'[x] = 1 /\ refund'[x] = refund[x]
    \/ status[x] = "PAID" /\ status'[x] = "COMPLETED" /\ MoneyKept(x)
    \/ /\ status[x] = "PAID" /\ status'[x] = "CANCELLED"
       /\ income[x] = 1 /\ refund[x] = 0 /\ refund'[x] = 1 /\ income'[x] = income[x]

(***************************************************************************)
(* Each of those steps is one of BookingLifecycle, or a stutter.           *)
(***************************************************************************)
LEMMA FollowsIsStep ==
    ASSUME NEW x \in BookingIds, Follows(x)
    PROVE  [Row(x)!Next]_(Row(x)!vars)
BY DEF Follows, LifecycleEdge, MoneyKept, Row!vars, Row!Next, Row!Move, Row!Reserve,
   Row!RecordOffline, Row!Declare, Row!PayOwner, Row!Complete, Row!Cancel, Row!Refund

(***************************************************************************)
(* Every row of bookings moves with its money, and only along the edges of *)
(* BookingLifecycle, in every interleaving of the handlers and workers.    *)
(***************************************************************************)
THEOREM RowsRefineLifecycle == Spec => RowsFollowLifecycle
<1> DEFINE Step == \A b \in BookingIds : [Row(b)!Next]_(Row(b)!vars)
<1>1. Init => \A b \in BookingIds : Row(b)!Init
  BY DEF Init, Row!Init
<1>2. ASSUME TypeOK, CreationInv, CashInv, RequestInv, [Next]_vars
      PROVE  \A x \in BookingIds : Follows(x)
  <2>0. /\ status \in [BookingIds -> Statuses] /\ income \in [BookingIds -> Nat]
        /\ refund \in [BookingIds -> Nat]
    BY <1>2 DEF TypeOK
  <2> USE DEF Follows, LifecycleEdge, MoneyKept
  <2>1. ASSUME NEW b \in BookingIds, CreationStep(b) PROVE \A x \in BookingIds : Follows(x)
    <3>1. CASE InsertBooking(b) \/ InsertOfflineBookingTx(b)
      <4>1. status[b] = "NONE" /\ income[b] = 0
        BY <1>2, <3>1 DEF CreationInv, CashInv, InsertBooking, InsertOfflineBookingTx, CommitBookingTx
      <4> QED
        BY <2>0, <3>1, <4>1 DEF InsertBooking, InsertOfflineBookingTx, CommitBookingTx
    <3>2. CASE UNCHANGED <<status, income, refund>>
      BY <3>2
    <3> QED
      BY <2>1, <3>1, <3>2 DEF CreationStep, CreateBooking, OwnerCreateOfflineBooking,
         BeginBookingTx, LockCourtAndCheck, AbortBookingTx, rows, cash
  <2>2. ASSUME NEW b \in BookingIds, RefundPaidBooking(b) PROVE \A x \in BookingIds : Follows(x)
    BY <1>2, <2>0, <2>2 DEF CashInv, RefundPaidBooking, MoveStatus
  <2>3. ASSUME NEW b \in BookingIds, LifecycleStep(b) PROVE \A x \in BookingIds : Follows(x)
    <3>1. CASE SubmitPaymentProof(b) \/ ConfirmBookingPayment(b) \/ RejectPayment(b)
      BY <2>0, <3>1 DEF SubmitPaymentProof, ConfirmBookingPayment, RejectPayment, MoveStatus, cash
    <3>2. CASE ApprovePayment(b) \/ MarkBookingPaid(b)
      BY <1>2, <2>0, <3>2 DEF CashInv, ApprovePayment, MarkBookingPaid, MoveStatus, InsertIncomeOnce
    <3>3. CASE CompleteBooking(b) \/ CancelBooking(b)
      BY <2>0, <3>3 DEF CompleteBooking, CancelBooking, MoveStatus, cash
    <3> QED
      BY <2>2, <2>3, <3>1, <3>2, <3>3 DEF LifecycleStep, CancelPaidBookingWithRefund
  <2>4. ASSUME NEW b \in BookingIds, SweepStep(b) PROVE \A x \in BookingIds : Follows(x)
    BY <2>0, <2>4 DEF SweepStep, SweepCancel, SweepSkip, ExpiredPending, rows, cash
  <2>5. CASE AutoCompleteFinishedBookings
    BY <2>0, <2>5 DEF AutoCompleteFinishedBookings, FinishedPaid, cash
  <2>6. ASSUME NEW r \in RequestIds, RequestStep(r) PROVE \A x \in BookingIds : Follows(x)
    <3>1. CASE ApproveRefundRequest(r)
      <4>1. request[r].booking \in BookingIds
        BY <1>2, <3>1 DEF ApproveRefundRequest, RequestInv
      <4> QED
        BY <2>2, <3>1, <4>1 DEF ApproveRefundRequest
    <3>2. CASE UNCHANGED <<status, income, refund>>
      BY <3>2
    <3> QED
      BY <2>6, <3>1, <3>2 DEF RequestStep, CheckRefundRequest, CreateRefundRequest,
         RejectRefundRequest, rows, cash
  <2>7. CASE UNCHANGED <<status, income, refund>>
    BY <2>7
  <2> QED
    BY <1>2, <2>1, <2>3, <2>4, <2>5, <2>6, <2>7 DEF Next, Tick, SweepRead, BlockStep,
       CreateBlockedSlot, DeleteBlockedSlot, vars, rows, cash
<1>3. TypeOK /\ CreationInv /\ CashInv /\ RequestInv /\ [Next]_vars => [Step]_vars
  BY <1>2, FollowsIsStep
<1>4. Init => CreationInv /\ CashInv /\ RequestInv
  BY DEF Init, CreationInv, CashInv, RequestInv, ApprovedRefundIsFinal, NoCreation, NoRequest
<1>5. RowsFollowLifecycle <=> (\A b \in BookingIds : Row(b)!Init) /\ [][Step]_vars
  BY DEF RowsFollowLifecycle
<1> HIDE DEF Step
<1> QED
  BY <1>1, <1>3, <1>4, <1>5, TypeCorrect, CreationStepInv, CashStepInv,
     RequestStepInv, PTL DEF Spec

----------------------------------------------------------------------------
(* Open matches.                                                           *)

MatchInv == MatchTypeOK /\ RowLockInv /\ HolderInv /\ SeatInv

----------------------------------------------------------------------------
(***************************************************************************)
(* Every step keeps the variables in their types.                          *)
(***************************************************************************)
LEMMA MatchTypeStep == MatchTypeOK /\ [MatchNext]_matchVars => MatchTypeOK'
<1> SUFFICES ASSUME MatchTypeOK, [MatchNext]_matchVars PROVE MatchTypeOK'
  OBVIOUS
<1> USE MatchesAssumption
<1>1. ASSUME NEW r \in Requests, NEW m \in Matches, NEW u \in Users, CheckOpenMatch(r, m, u)
      PROVE MatchTypeOK'
  BY <1>1 DEF MatchTypeOK, CheckOpenMatch
<1>2. ASSUME NEW r \in Requests, NEW m \in Matches, NEW u \in Users,
             NEW kind \in {"join", "leave", "cancel"}, ExecuteTx(r, kind, m, u)
      PROVE MatchTypeOK'
  BY <1>2 DEF MatchTypeOK, ExecuteTx
<1>3. ASSUME NEW r \in Requests, CreateOpenMatch(r) PROVE MatchTypeOK'
  BY <1>3 DEF MatchTypeOK, CreateOpenMatch, Ends
<1>4. ASSUME NEW r \in Requests, req[r] # Idle,
             LockOpenMatch(r) \/ FindParticipant(r) \/ FindParticipantFails(r) \/ Abandon(r)
      PROVE MatchTypeOK'
  BY <1>4 DEF MatchTypeOK, LockOpenMatch, FindParticipant, FindParticipantFails, Abandon, Ends, Goes
<1>5. ASSUME NEW r \in Requests, req[r] # Idle,
             JoinOpenMatch(r) \/ LeaveOpenMatch(r) \/ CancelOpenMatch(r)
      PROVE MatchTypeOK'
  BY <1>5 DEF MatchTypeOK, JoinOpenMatch, LeaveOpenMatch, CancelOpenMatch, UpsertParticipant,
     UpdateOpenMatchStatus, Ends
<1>6. ASSUME NEW m \in Matches, BookingMoves(m) \/ MatchStarts(m) PROVE MatchTypeOK'
  BY <1>6 DEF MatchTypeOK, BookingMoves, MatchStarts
<1>7. CASE UNCHANGED matchVars
  BY <1>7 DEF MatchTypeOK, matchVars
<1>8. ASSUME NEW r \in Requests,
             \/ LockOpenMatch(r) \/ FindParticipant(r) \/ FindParticipantFails(r)
             \/ JoinOpenMatch(r) \/ LeaveOpenMatch(r) \/ CancelOpenMatch(r) \/ Abandon(r)
      PROVE req[r] # Idle
  BY <1>8 DEF LockOpenMatch, FindParticipant, FindParticipantFails, JoinOpenMatch,
     LeaveOpenMatch, CancelOpenMatch, Abandon, Idle
<1> QED
  BY <1>1, <1>2, <1>3, <1>4, <1>5, <1>6, <1>7, <1>8 DEF MatchNext, Arrive, Proceed

(***************************************************************************)
(* Counting participants.                                                  *)
(***************************************************************************)
LEMMA PlacesAreNat == \A n \in Places \cup {0} : n \in Nat
<1> SUFFICES ASSUME NEW n \in Places PROVE n \in Nat
  OBVIOUS
<1> QED
  BY MatchesAssumption

LEMMA Finite == ASSUME NEW S \in SUBSET Users PROVE IsFiniteSet(S) /\ Cardinality(S) \in Nat
BY FS_Subset, FS_CardinalityType, MatchesAssumption

LEMMA Counting ==
    ASSUME NEW S \in SUBSET Users, NEW u \in Users
    PROVE  /\ u \notin S => Cardinality(S \cup {u}) = Cardinality(S) + 1
           /\ u \in S => Cardinality(S \cup {u}) = Cardinality(S)
           /\ u \in S => Cardinality(S \ {u}) = Cardinality(S) - 1
<1>1. IsFiniteSet(S) /\ Cardinality(S) \in Nat
  BY Finite
<1>2. u \in S => S \cup {u} = S
  OBVIOUS
<1> QED
  BY <1>1, <1>2, FS_AddElement, FS_RemoveElement

----------------------------------------------------------------------------
(***************************************************************************)
(* The holder of a row, and what it saw, in every step.  Most steps move   *)
(* one request: when it ends, or was never a holder, it is no holder after *)
(* the step; when it goes on, only its pc changes.                         *)
(***************************************************************************)
LEMMA EndsFacts ==
    ASSUME MatchTypeOK, NEW r \in Requests, Ends(r)
    PROVE  /\ \A m \in Matches : Holders(m)' = Holders(m) \ {r}
           /\ \A s \in Requests \ {r} : req'[s] = req[s]
BY DEF MatchTypeOK, Ends, Holders, Idle

LEMMA GoesFacts ==
    ASSUME MatchTypeOK, NEW r \in Requests, req[r] # Idle, NEW p \in {"locked", "seen"}, Goes(r, p),
           NEW m, m = req[r].match
    PROVE  /\ req'[r].pc = p /\ req'[r].kind = req[r].kind
           /\ req'[r].user = req[r].user /\ req'[r].match = m /\ m \in Matches
           /\ \A s \in Requests \ {r} : req'[s] = req[s]
           /\ \A x \in Matches \ {m} : Holders(x)' = Holders(x)
           /\ Holders(m)' = Holders(m) \cup {r}
<1>1. req[r] \in [kind : {"create", "join", "leave", "cancel"},
                  pc : {"checked", "begun", "locked", "seen"}, user : Users, match : Matches]
  BY DEF MatchTypeOK
<1>2. req'[r] = [req[r] EXCEPT !.pc = p]
  BY DEF MatchTypeOK, Goes
<1>3. /\ req'[r].pc = p /\ req'[r].kind = req[r].kind
      /\ req'[r].user = req[r].user /\ req'[r].match = m /\ m \in Matches
  BY <1>1, <1>2
<1>4. \A s \in Requests \ {r} : req'[s] = req[s]
  BY DEF MatchTypeOK, Goes
<1> QED
  BY <1>3, <1>4 DEF Holders

\* A step after which r is no holder, and which leaves the rows of the other
\* holders alone.
LEMMA OthersKeep ==
    ASSUME RowLockInv, HolderInv, NEW r \in Requests,
           \A m \in Matches : Holders(m)' \subseteq Holders(m) \ {r},
           \A s \in Requests \ {r} : req'[s] = req[s],
           \A m \in Matches : \A s \in Holders(m) \ {r} :
               state'[m] = state[m] /\ booking'[m] = booking[m] /\ joined'[m] = joined[m]
    PROVE  RowLockInv' /\ HolderInv'
<1>1. \A m \in Matches : Holders(m) \subseteq Requests
  BY DEF Holders
<1>2. RowLockInv'
  BY <1>1 DEF RowLockInv
<1>3. ASSUME NEW m \in Matches, NEW s \in Holders(m)'
      PROVE  /\ s \in Holders(m) /\ req'[s] = req[s]
             /\ state'[m] = state[m] /\ booking'[m] = booking[m] /\ joined'[m] = joined[m]
  BY <1>1, <1>3
<1> QED
  BY <1>2, <1>3 DEF HolderInv, Live, CanLeave

LEMMA HolderStep == MatchInv /\ [MatchNext]_matchVars => RowLockInv' /\ HolderInv'
<1> SUFFICES ASSUME MatchTypeOK, RowLockInv, HolderInv, [MatchNext]_matchVars PROVE RowLockInv' /\ HolderInv'
  BY DEF MatchInv
<1>1. ASSUME NEW r \in Requests, NEW k, NEW pc \in {"checked", "begun"}, NEW m, NEW u,
             req[r] = Idle,
             req' = [req EXCEPT ![r] = [kind |-> k, pc |-> pc, user |-> u, match |-> m]],
             UNCHANGED <<state, booking, joined>>
      PROVE RowLockInv' /\ HolderInv'
  <2>1. req'[r].pc = pc /\ req[r].pc = "idle" /\ \A s \in Requests \ {r} : req'[s] = req[s]
    BY <1>1 DEF MatchTypeOK, Idle
  <2>2. \A x \in Matches : Holders(x)' \subseteq Holders(x) \ {r}
    BY <2>1 DEF Holders
  <2> QED
    BY <1>1, <2>1, <2>2, OthersKeep
<1>2. ASSUME NEW r \in Requests, Ends(r),
             \A m \in Matches : \A s \in Holders(m) \ {r} :
                 state'[m] = state[m] /\ booking'[m] = booking[m] /\ joined'[m] = joined[m]
      PROVE RowLockInv' /\ HolderInv'
  BY <1>2, EndsFacts, OthersKeep
<1>3. ASSUME NEW r \in Requests, CreateOpenMatch(r) PROVE RowLockInv' /\ HolderInv'
  <2>1. \A m \in Matches : Holders(m) # {} => state[m] # "none"
    BY DEF RowLockInv, HolderInv, CanLeave
  <2>2. \A m \in Matches : state'[m] = state[m] \/ state[m] = "none"
    BY <1>3 DEF CreateOpenMatch, MatchTypeOK
  <2> QED
    BY <1>2, <1>3, <2>1, <2>2 DEF CreateOpenMatch
<1>4. ASSUME NEW r \in Requests, LockOpenMatch(r) PROVE RowLockInv' /\ HolderInv'
  <2> PICK m : m = req[r].match
    OBVIOUS
  <2>1. CASE Ends(r)
    BY <1>2, <1>4, <2>1 DEF LockOpenMatch
  <2>2. CASE Goes(r, "locked") /\ (IF req[r].kind = "join" THEN CanJoin(m, req[r].user) ELSE CanLeave(m))
    <3>1. req[r] # Idle /\ req[r].kind \in {"join", "leave"} /\ Holders(m) = {}
      BY <1>4 DEF LockOpenMatch, Idle
    <3>2. /\ \A x \in Matches \ {m} : Holders(x)' = Holders(x)
          /\ Holders(m)' = {r} /\ m \in Matches
          /\ req'[r].kind = req[r].kind /\ req'[r].pc = "locked"
          /\ \A s \in Requests \ {r} : req'[s] = req[s]
      BY <2>2, <3>1, GoesFacts
    <3>3. UNCHANGED <<state, booking, joined>>
      BY <1>4 DEF LockOpenMatch
    <3>4. \A x \in Matches \ {m} : r \notin Holders(x) /\ Holders(x) \subseteq Requests
      BY DEF Holders
    <3>5. RowLockInv'
      BY <3>1, <3>2, <3>4 DEF RowLockInv
    <3>6. \A x \in Matches \ {m} : \A s \in Holders(x)' : s \in Holders(x) /\ req'[s] = req[s]
      BY <3>2, <3>4
    <3>7. req'[r].kind = "join" => state[m] = "OPEN" /\ Live(m)
      BY <2>2, <3>2 DEF CanJoin
    <3>8. req'[r].kind = "leave" => CanLeave(m)
      BY <2>2, <3>2
    <3>9. \A x \in Matches : Live(x)' = Live(x) /\ CanLeave(x)' = CanLeave(x)
      BY <3>3 DEF Live, CanLeave
    <3>10. \A s \in Holders(m)' :
             /\ req'[s].kind = "join" => state'[m] = "OPEN" /\ Live(m)'
             /\ req'[s].kind = "leave" => CanLeave(m)'
             /\ req'[s].pc # "seen"
      BY <3>2, <3>3, <3>7, <3>8, <3>9
    <3>11. \A x \in Matches \ {m} : \A s \in Holders(x)' :
             /\ req'[s].kind = "join" => state'[x] = "OPEN" /\ Live(x)'
             /\ req'[s].kind = "leave" => CanLeave(x)'
             /\ req'[s].kind = "leave" /\ req'[s].pc = "seen" => req'[s].user \in joined'[x]
      BY <3>3, <3>6, <3>9 DEF HolderInv
    <3> QED
      BY <3>5, <3>10, <3>11 DEF HolderInv
  <2> QED
    BY <1>4, <2>1, <2>2 DEF LockOpenMatch
<1>5. ASSUME NEW r \in Requests, FindParticipant(r) \/ FindParticipantFails(r)
      PROVE RowLockInv' /\ HolderInv'
  <2> PICK m : m = req[r].match
    OBVIOUS
  <2>1. UNCHANGED <<state, booking, joined>> /\ req[r].pc = "locked"
    BY <1>5 DEF FindParticipant, FindParticipantFails
  <2>2. CASE Ends(r)
    BY <1>2, <2>1, <2>2
  <2>3. CASE Goes(r, "seen") /\ (req[r].kind = "leave" => req[r].user \in joined[m])
    <3>1. req[r] # Idle
      BY <2>1 DEF Idle
    <3>2. /\ \A x \in Matches \ {m} : Holders(x)' = Holders(x)
          /\ Holders(m)' = Holders(m) \cup {r} /\ m \in Matches
          /\ req'[r].kind = req[r].kind /\ req'[r].user = req[r].user
          /\ \A s \in Requests \ {r} : req'[s] = req[s]
      BY <2>3, <3>1, GoesFacts
    <3>3. \A x \in Matches : Holders(x)' = Holders(x) /\ Holders(x) \subseteq Requests
      BY <2>1, <3>2 DEF Holders
    <3>4. \A s \in Requests : req'[s].kind = req[s].kind
      BY <3>2
    <3>5. RowLockInv'
      BY <3>3, <3>4 DEF RowLockInv
    <3>6. \A x \in Matches : Live(x)' = Live(x) /\ CanLeave(x)' = CanLeave(x)
      BY <2>1 DEF Live, CanLeave
    <3>7. \A x \in Matches : \A s \in Holders(x)' :
             /\ req'[s].kind = "join" => state'[x] = "OPEN" /\ Live(x)'
             /\ req'[s].kind = "leave" => CanLeave(x)'
      BY <2>1, <3>3, <3>4, <3>6 DEF HolderInv
    <3>8. \A x \in Matches : \A s \in Holders(x) \ {r} :
             req'[s].kind = "leave" /\ req'[s].pc = "seen" => req'[s].user \in joined'[x]
      BY <2>1, <3>2, <3>3 DEF HolderInv
    <3>9. \A x \in Matches : r \in Holders(x) => x = m
      BY DEF Holders
    <3>10. r \in Holders(m)' /\ req'[r].kind = "leave" => req'[r].user \in joined'[m]
      BY <2>1, <2>3, <3>2
    <3> QED
      BY <3>3, <3>5, <3>7, <3>8, <3>9, <3>10 DEF HolderInv
  <2> QED
    BY <1>5, <2>2, <2>3 DEF FindParticipant, FindParticipantFails
<1>6. ASSUME NEW r \in Requests, JoinOpenMatch(r) \/ LeaveOpenMatch(r)
      PROVE RowLockInv' /\ HolderInv'
  <2>1. r \in Holders(req[r].match) /\ Ends(r) /\ booking' = booking
    BY <1>6 DEF JoinOpenMatch, LeaveOpenMatch, Holders
  <2>2. \A m \in Matches \ {req[r].match} : state'[m] = state[m] /\ joined'[m] = joined[m]
    BY <1>6 DEF JoinOpenMatch, LeaveOpenMatch, UpsertParticipant, UpdateOpenMatchStatus, MatchTypeOK
  <2>3. \A m \in Matches : \A s \in Holders(m) \ {r} : m # req[r].match
    BY <2>1 DEF RowLockInv
  <2> QED
    BY <1>2, <2>1, <2>2, <2>3
<1>7. ASSUME NEW r \in Requests, CancelOpenMatch(r) PROVE RowLockInv' /\ HolderInv'
  <2>1. \A m \in Matches \ {req[r].match} : state'[m] = state[m]
    BY <1>7 DEF CancelOpenMatch, UpdateOpenMatchStatus, MatchTypeOK
  <2> QED
    BY <1>2, <1>7, <2>1 DEF CancelOpenMatch
<1>8. ASSUME NEW r \in Requests, Abandon(r) PROVE RowLockInv' /\ HolderInv'
  BY <1>2, <1>8 DEF Abandon
<1>9. ASSUME NEW m \in Matches, BookingMoves(m) \/ MatchStarts(m) PROVE RowLockInv' /\ HolderInv'
  <2>1. UNCHANGED <<req, state, joined>>
    BY <1>9 DEF BookingMoves, MatchStarts
  <2>2. \A x \in Matches : Holders(x)' = Holders(x)
    BY <2>1 DEF Holders
  <2>3. \A x \in Matches : booking'[x] # booking[x] => ~BookingLocked(x)
    BY <1>9 DEF BookingMoves, MatchStarts, MatchTypeOK
  <2>4. \A x \in Matches : \A s \in Holders(x) : req[s].kind = "join" => booking'[x] = booking[x]
    BY <2>3 DEF BookingLocked
  <2>5. RowLockInv'
    BY <2>1, <2>2 DEF RowLockInv
  <2> QED
    BY <2>1, <2>2, <2>4, <2>5 DEF HolderInv, Live, CanLeave
<1>10. CASE UNCHANGED matchVars
  BY <1>10 DEF matchVars, RowLockInv, HolderInv, Holders, Live, CanLeave
<1>11. ASSUME NEW r \in Requests, Arrive(r) PROVE RowLockInv' /\ HolderInv'
  BY <1>1, <1>11 DEF Arrive, CheckOpenMatch, ExecuteTx
<1> QED
  BY <1>3, <1>4, <1>5, <1>6, <1>7, <1>8, <1>9, <1>10, <1>11 DEF MatchNext, Proceed

(***************************************************************************)
(* The participants of a match stay within its places.                     *)
(***************************************************************************)
LEMMA SeatStep == MatchInv /\ [MatchNext]_matchVars => SeatInv'
<1> SUFFICES ASSUME MatchInv, [MatchNext]_matchVars PROVE SeatInv'
  OBVIOUS
<1> USE DEF MatchInv
<1>1. ASSUME UNCHANGED <<state, max, joined, blind>> PROVE SeatInv'
  BY <1>1 DEF SeatInv, CountJoinedParticipants
<1>2. \A m \in Matches : Cardinality(joined[m]) \in Nat /\ max[m] \in Nat
  <2> TAKE m \in Matches
  <2>1. joined[m] \in SUBSET Users /\ max[m] \in Places \cup {0}
    BY DEF MatchTypeOK
  <2>2. Cardinality(joined[m]) \in Nat
    BY <2>1, Finite, Zenon
  <2>3. max[m] \in Nat
    BY <2>1, PlacesAreNat
  <2> QED
    BY <2>2, <2>3
<1>3. ASSUME NEW r \in Requests, CreateOpenMatch(r) PROVE SeatInv'
  <2> PICK m : m = req[r].match
    OBVIOUS
  <2>1. CASE state[m] = "none"
    <3>1. m \in Matches
      BY <1>3 DEF CreateOpenMatch, MatchTypeOK, Idle
    <3>2. joined[m] = {} /\ Cardinality(joined[m]) = 0
      BY <2>1, <3>1, FS_EmptySet DEF SeatInv
    <3>3. PICK n \in Places : max' = [max EXCEPT ![m] = n]
      BY <1>3, <2>1 DEF CreateOpenMatch
    <3>4. n \in Nat /\ n > 0
      BY MatchesAssumption
    <3>5. state' = [state EXCEPT ![m] = "OPEN"] /\ UNCHANGED <<joined, blind>>
      BY <1>3, <2>1 DEF CreateOpenMatch
    <3>6. joined'[m] = joined[m] /\ state'[m] = "OPEN" /\ max'[m] = n
      BY <3>1, <3>3, <3>5 DEF MatchTypeOK
    <3>7. \A x \in Matches \ {m} : /\ joined'[x] = joined[x] /\ state'[x] = state[x]
                                   /\ max'[x] = max[x]
      BY <3>1, <3>3, <3>5 DEF MatchTypeOK
    <3>8. Cardinality(joined'[m]) = 0 /\ blind' = blind
      BY <3>2, <3>5, <3>6
    <3> QED
      BY <3>4, <3>6, <3>7, <3>8 DEF SeatInv, CountJoinedParticipants
  <2> QED
    BY <1>1, <1>3, <2>1 DEF CreateOpenMatch
<1>4. ASSUME NEW r \in Requests, JoinOpenMatch(r) PROVE SeatInv'
  <2> PICK m, u, count : m = req[r].match /\ u = req[r].user /\ count = Cardinality(joined[m])
    OBVIOUS
  <2>1. m \in Matches /\ u \in Users /\ r \in Holders(m) /\ state[m] = "OPEN"
    BY <1>4 DEF JoinOpenMatch, MatchTypeOK, Idle, Holders, HolderInv
  <2>2. count \in Nat /\ max[m] \in Nat /\ count < max[m]
    BY <1>2, <2>1 DEF SeatInv, CountJoinedParticipants
  <2>3. /\ joined' = [joined EXCEPT ![m] = @ \cup {u}]
        /\ state' = [state EXCEPT ![m] = IF count + 1 >= max[m] THEN "FULL" ELSE state[m]]
        /\ blind' = IF u \in joined[m] THEN blind \cup {m} ELSE blind
        /\ max' = max
    BY <1>4, <2>2 DEF JoinOpenMatch, UpsertParticipant, UpdateOpenMatchStatus,
       CountJoinedParticipants
  <2>4. /\ u \notin joined[m] => Cardinality(joined'[m]) = count + 1
        /\ u \in joined[m] => Cardinality(joined'[m]) = count
    BY <2>1, <2>3, Counting DEF MatchTypeOK
  <2>5. /\ state'[m] \in {"OPEN", "FULL"}
        /\ Cardinality(joined'[m]) <= max[m]
        /\ state'[m] = "OPEN" => Cardinality(joined'[m]) < max[m]
        /\ state'[m] = "FULL" /\ m \notin blind' => Cardinality(joined'[m]) = max[m]
    <3>1. state'[m] = IF count + 1 >= max[m] THEN "FULL" ELSE "OPEN"
      BY <2>1, <2>3 DEF MatchTypeOK
    <3>2. u \in joined[m] => m \in blind'
      BY <2>3
    <3> QED
      BY <2>2, <2>4, <3>1, <3>2
  <2>6. \A x \in Matches \ {m} : /\ joined'[x] = joined[x] /\ state'[x] = state[x]
                                 /\ max'[x] = max[x] /\ (x \in blind' <=> x \in blind)
    BY <2>1, <2>3 DEF MatchTypeOK
  <2> QED
    BY <2>3, <2>5, <2>6 DEF SeatInv, CountJoinedParticipants
<1>5. ASSUME NEW r \in Requests, LeaveOpenMatch(r) PROVE SeatInv'
  <2> PICK m, u, count : m = req[r].match /\ u = req[r].user /\ count = Cardinality(joined[m])
    OBVIOUS
  <2>1. m \in Matches /\ u \in joined[m] /\ u \in Users /\ CanLeave(m)
    BY <1>5 DEF LeaveOpenMatch, MatchTypeOK, Idle, Holders, HolderInv
  <2>2. count \in Nat /\ max[m] \in Nat /\ count <= max[m]
    BY <1>2, <2>1 DEF SeatInv, CountJoinedParticipants
  <2>3. /\ joined' = [joined EXCEPT ![m] = @ \ {u}]
        /\ state' = [state EXCEPT ![m] = IF state[m] = "FULL" THEN "OPEN" ELSE state[m]]
        /\ UNCHANGED <<max, blind>>
    BY <1>5 DEF LeaveOpenMatch, UpsertParticipant, UpdateOpenMatchStatus
  <2>4. Cardinality(joined'[m]) = count - 1
    BY <2>1, <2>3, Counting DEF MatchTypeOK
  <2>5. state'[m] # "FULL" /\ state'[m] # "none"
    BY <2>1, <2>3 DEF MatchTypeOK, CanLeave
  <2>6. \A x \in Matches \ {m} : joined'[x] = joined[x] /\ state'[x] = state[x]
    BY <2>1, <2>3 DEF MatchTypeOK
  <2>7. /\ Cardinality(joined'[m]) <= max'[m]
        /\ state'[m] = "OPEN" => Cardinality(joined'[m]) < max'[m]
    BY <2>2, <2>3, <2>4
  <2>8. \A x \in Matches \ {m} : max'[x] = max[x] /\ (x \in blind' <=> x \in blind)
    BY <2>3
  <2> QED
    BY <2>5, <2>6, <2>7, <2>8 DEF SeatInv, CountJoinedParticipants
<1>6. ASSUME NEW r \in Requests, CancelOpenMatch(r) PROVE SeatInv'
  BY <1>6 DEF CancelOpenMatch, UpdateOpenMatchStatus, CanLeave, MatchTypeOK, SeatInv,
     CountJoinedParticipants
<1> QED
  BY <1>1, <1>3, <1>4, <1>5, <1>6 DEF MatchNext, Arrive, Proceed, CheckOpenMatch, ExecuteTx,
     LockOpenMatch, FindParticipant, FindParticipantFails, Abandon, BookingMoves, MatchStarts, matchVars

LEMMA MatchInvInit == MatchInit => MatchInv
<1> SUFFICES ASSUME MatchInit PROVE MatchInv
  OBVIOUS
<1>1. MatchTypeOK
  BY MatchesAssumption DEF MatchInit, MatchTypeOK
<1>2. RowLockInv /\ HolderInv
  BY DEF MatchInit, RowLockInv, HolderInv, Holders, Idle
<1>3. SeatInv
  BY FS_EmptySet DEF MatchInit, SeatInv, CountJoinedParticipants
<1> QED
  BY <1>1, <1>2, <1>3 DEF MatchInv

LEMMA MatchInvariance == MatchSpec => []MatchInv
<1>1. MatchInv /\ [MatchNext]_matchVars => MatchInv'
  BY MatchTypeStep, HolderStep, SeatStep DEF MatchInv
<1> QED
  BY MatchInvInit, <1>1, PTL DEF MatchSpec

----------------------------------------------------------------------------
(***************************************************************************)
(* Every state of OpenMatches has its type.                                *)
(***************************************************************************)
THEOREM MatchesTypeCorrect == MatchSpec => []MatchTypeOK
<1>1. MatchInv => MatchTypeOK
  BY DEF MatchInv
<1> QED
  BY MatchInvariance, <1>1, PTL

(***************************************************************************)
(* JoinOpenMatch and LeaveOpenMatch keep every match within its places,    *)
(* however many requests and connections there are: the row lock, and not  *)
(* the lookup on the second connection, protects the count.                *)
(***************************************************************************)
THEOREM SeatsCorrect == MatchSpec => []SeatsKept
<1>1. MatchInv => SeatsKept
  <2> SUFFICES ASSUME MatchInv, NEW m \in Matches
               PROVE  /\ RemainingSlots(m) >= 0
                      /\ (state[m] = "OPEN" \/ m \in ListOpenMatches) => RemainingSlots(m) > 0
                      /\ state[m] = "FULL" /\ m \notin blind => RemainingSlots(m) = 0
    BY DEF SeatsKept
  <2>1. CountJoinedParticipants(m) \in Nat /\ max[m] \in Nat
    <3>1. joined[m] \in SUBSET Users /\ max[m] \in Places \cup {0}
      BY DEF MatchInv, MatchTypeOK
    <3>2. Cardinality(joined[m]) \in Nat
      BY <3>1, Finite, Zenon
    <3>3. max[m] \in Nat
      BY <3>1, PlacesAreNat
    <3> QED
      BY <3>2, <3>3 DEF CountJoinedParticipants
  <2> QED
    BY <2>1 DEF MatchInv, SeatInv, RemainingSlots, ListOpenMatches
<1> QED
  BY MatchInvariance, <1>1, PTL

(***************************************************************************)
(* A customer becomes a participant only in a step in which the match is   *)
(* open and its booking live: LockOpenMatch and GetOpenMatchJoinContextTx  *)
(* hold both rows from the checks to the commit.                           *)
(***************************************************************************)
THEOREM JoinsCorrect == MatchSpec => JoinsOnlyLive
<1>1. MatchInv /\ [MatchNext]_matchVars =>
        [\A m \in Matches : joined'[m] \ joined[m] # {} => state[m] = "OPEN" /\ Live(m)]_matchVars
  <2> SUFFICES ASSUME MatchInv, MatchNext, NEW m \in Matches, joined'[m] \ joined[m] # {}
               PROVE  state[m] = "OPEN" /\ Live(m)
    OBVIOUS
  <2>1. PICK r \in Requests : JoinOpenMatch(r) \/ LeaveOpenMatch(r)
    BY DEF MatchNext, Arrive, Proceed, CheckOpenMatch, ExecuteTx, CreateOpenMatch, LockOpenMatch,
       FindParticipant, FindParticipantFails, CancelOpenMatch, Abandon, BookingMoves, MatchStarts
  <2>2. JoinOpenMatch(r) /\ req[r].match = m
    BY <2>1 DEF JoinOpenMatch, LeaveOpenMatch, UpsertParticipant, MatchInv, MatchTypeOK
  <2> QED
    BY <2>2 DEF JoinOpenMatch, MatchInv, HolderInv, Holders
<1> QED
  BY MatchInvariance, <1>1, PTL DEF MatchSpec, JoinsOnlyLive
=============================================================================
