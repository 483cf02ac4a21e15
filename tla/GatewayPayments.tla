-------------------------- MODULE GatewayPayments ---------------------------
(***************************************************************************)
(* One booking paid through the payment gateway: the orchestrator opens an *)
(* attempt and enqueues its create command, workers lease commands, call   *)
(* the provider outside any transaction and commit the answer under the    *)
(* lease they still hold, webhooks expire attempts, and cancellation, the  *)
(* expiry sweep and the legacy payment path run beside them.  Every        *)
(* transaction takes the booking-flow advisory lock or the row it changes  *)
(* before it reads, so a transaction is one action; a worker's claim, its  *)
(* read of the attempt, the provider's answer and the commit are four.     *)
(***************************************************************************)
EXTENDS Integers, FiniteSets

CONSTANTS
    Attempts,   \* payment_attempts of the booking, by idempotency key
    Workers,    \* payment workers; a worker holds one lease token at a time
    None        \* no worker, no attempt

ASSUME GatewayAssumption == None \notin Attempts \cup Workers

VARIABLES
    status,     \* bookings.status
    expired,    \* bookings.expires_at has been reached
    income,     \* rows INCOME/BOOKING of owner_finance_transactions
    refund,     \* rows EXPENSE/REFUND of owner_finance_transactions
    attempt,    \* payment_attempts.state; CANCELLED always has its tombstone
    identity,   \* provider identity bound to the attempt
    fact,       \* payment_capture_facts, and whether the capture was late
    cstate,     \* payment_provider_commands.state; LAPSED is an expired lease
    holder,     \* worker whose lease token the command carries
    malformed,  \* malformed_response_count >= 1
    session,    \* checkout sessions at the provider
    paid,       \* attempts the customer has paid at the provider
    worker      \* what each worker is doing

booking  == <<status, expired>>
cash     == <<income, refund>>
attempts == <<attempt, identity, fact>>
commands == <<cstate, holder, malformed>>
provider == <<session, paid>>
vars     == <<booking, cash, attempts, commands, provider, worker>>

Types == {"CREATE", "INQUIRY"}
Open  == {"CREATED", "PENDING"}
\* EXPIRED stands for FAILED too, and for a cancellation at the provider;
\* CANCELLED is the local cancellation of an attempt that was not dispatched.
Terminal == {"CAPTURED", "EXPIRED", "CANCELLED"}

\* seen is the identity read before the call, late the deadline as the commit saw it.
WorkerAt(pc, t, a, seen, out, late) ==
    [pc |-> pc, type |-> t, attempt |-> a, seen |-> seen, out |-> out, late |-> late]

Idle == WorkerAt("IDLE", "CREATE", None, "NONE", "NONE", FALSE)

Init ==
    /\ status = "PENDING_PAYMENT"
    /\ expired = FALSE
    /\ income = 0
    /\ refund = 0
    /\ attempt = [a \in Attempts |-> "NONE"]
    /\ identity = [a \in Attempts |-> "NONE"]
    /\ fact = [a \in Attempts |-> "NONE"]
    /\ cstate = [t \in Types |-> [a \in Attempts |-> "NONE"]]
    /\ holder = [t \in Types |-> [a \in Attempts |-> None]]
    /\ malformed = [t \in Types |-> [a \in Attempts |-> FALSE]]
    /\ session = [a \in Attempts |-> "NONE"]
    /\ paid = [a \in Attempts |-> FALSE]
    /\ worker = [w \in Workers |-> Idle]

DeadlinePasses ==
    /\ ~expired
    /\ expired' = TRUE
    /\ UNCHANGED <<status, cash, attempts, commands, provider, worker>>

-----------------------------------------------------------------------------
(***************************************************************************)
(* The customer opens an attempt.  A replay of a known idempotency key     *)
(* returns the stored attempt and changes nothing.                         *)
(***************************************************************************)
LockPaymentBooking == status = "PENDING_PAYMENT" /\ ~expired

RejectActiveAttempt == \A o \in Attempts : attempt[o] \notin Open

\* Trigger guard_sandbox_payment_attempt_isolation.
GuardAttemptIsolation == status = "PENDING_PAYMENT" /\ income = 0

CreateOrReplayAttempt(a) ==
    /\ attempt[a] = "NONE"
    /\ LockPaymentBooking
    /\ RejectActiveAttempt
    /\ GuardAttemptIsolation
    /\ attempt' = [attempt EXCEPT ![a] = "CREATED"]

\* INSERT ... ON CONFLICT DO NOTHING: a command that exists stays as it is.
EnqueueTx(t, a) == IF cstate[t][a] = "NONE" THEN "PENDING" ELSE cstate[t][a]

CreatePayment(a) ==
    /\ CreateOrReplayAttempt(a)
    /\ cstate' = [cstate EXCEPT !["CREATE"][a] = EnqueueTx("CREATE", a)]
    /\ UNCHANGED <<booking, cash, identity, fact, holder, malformed, provider, worker>>

-----------------------------------------------------------------------------
(***************************************************************************)
(* The legacy payment path of the same booking.  The triggers on bookings  *)
(* and owner_finance_transactions refuse it once an attempt exists.        *)
(***************************************************************************)
NoAttempt == \A a \in Attempts : attempt[a] = "NONE"

\* Trigger guard_sandbox_booking_payment_isolation, for a legacy update.
GuardBookingPayment(next) ==
    next \in {"CONFIRMED", "WAITING_VERIFICATION", "PAID"} => NoAttempt

LegacyMove(from, to) ==
    /\ status = from
    /\ GuardBookingPayment(to)
    /\ status' = to
    /\ UNCHANGED <<expired, attempts, commands, provider, worker>>

SubmitPaymentProof == LegacyMove("PENDING_PAYMENT", "WAITING_VERIFICATION") /\ UNCHANGED cash

ConfirmBookingPayment == LegacyMove("PENDING_PAYMENT", "CONFIRMED") /\ UNCHANGED cash

RejectPayment == LegacyMove("WAITING_VERIFICATION", "PENDING_PAYMENT") /\ UNCHANGED cash

\* Trigger guard_sandbox_owner_cash_isolation on the income row.
InsertIncomeOnce == NoAttempt /\ income' = 1 /\ UNCHANGED refund

ApprovePayment == LegacyMove("WAITING_VERIFICATION", "PAID") /\ InsertIncomeOnce

MarkBookingPaid == LegacyMove("CONFIRMED", "PAID") /\ InsertIncomeOnce

CompleteBooking == LegacyMove("PAID", "COMPLETED") /\ UNCHANGED cash

CancelPaidBookingWithRefund ==
    /\ income > 0
    /\ refund = 0
    /\ LegacyMove("PAID", "CANCELLED")
    /\ refund' = refund + 1
    /\ UNCHANGED income

-----------------------------------------------------------------------------
(***************************************************************************)
(* Cancellation of a pending booking, by its customer or by the sweep.  An *)
(* attempt still CREATED is cancelled with it, provided that its create    *)
(* command was never claimed (attempt_count = 0 exactly while PENDING); if *)
(* one was, the whole transaction fails.  A PENDING attempt is left alone. *)
(***************************************************************************)
\* Altered form: attempts already dispatched are cancelled too.
OpenAttempts == {a \in Attempts : attempt[a] \in Open}

UndispatchedAttempts == {a \in Attempts : attempt[a] = "CREATED"}

\* Altered form: a claimed command does not stop the cancellation.
CancelAnyCreatedAttempt == TRUE

CancelUndispatchedAttempts ==
    \A a \in UndispatchedAttempts : cstate["CREATE"][a] = "PENDING"

CancelPending(requireExpired) ==
    /\ status = "PENDING_PAYMENT"
    /\ requireExpired => expired
    /\ CancelUndispatchedAttempts
    /\ status' = "CANCELLED"
    /\ attempt' = [a \in Attempts |->
                     IF a \in UndispatchedAttempts THEN "CANCELLED" ELSE attempt[a]]
    /\ UNCHANGED <<expired, cash, identity, fact, commands, provider, worker>>

CancelBooking == CancelPending(FALSE)

SweepExpired == CancelPending(TRUE)

-----------------------------------------------------------------------------
(***************************************************************************)
(* The outbox.  Type(w) and Attempt(w) are the command a worker claimed.   *)
(***************************************************************************)
Type(w) == worker[w].type
Attempt(w) == worker[w].attempt

\* Altered form: a command whose lease ran out is not taken again.
DueUnleased(t, a) == cstate[t][a] \in {"PENDING", "RETRYABLE"}

\* Eligible by its own state: due, or leased beyond the end of the lease.
Due(t, a) == cstate[t][a] \in {"PENDING", "RETRYABLE", "LAPSED"}

\* claimablePaymentCommandPredicate.
Claimable(t, a) ==
    \/ /\ t = "CREATE"
       /\ \/ attempt[a] = "CREATED" /\ status = "PENDING_PAYMENT"
          \/ attempt[a] = "PENDING"
    \/ t = "INQUIRY" /\ attempt[a] = "PENDING"
    \/ cstate[t][a] = "LAPSED" /\ attempt[a] \in Terminal

ClaimNext(w, t, a) ==
    /\ worker[w] = Idle
    /\ Due(t, a)
    /\ Claimable(t, a)
    /\ cstate' = [cstate EXCEPT ![t][a] = "LEASED"]
    /\ holder' = [holder EXCEPT ![t][a] = w]
    /\ worker' = [worker EXCEPT ![w] = WorkerAt("CLAIMED", t, a, "NONE", "NONE", FALSE)]
    /\ UNCHANGED <<booking, cash, attempts, malformed, provider>>

LeaseExpires(t, a) ==
    /\ cstate[t][a] = "LEASED"
    /\ cstate' = [cstate EXCEPT ![t][a] = "LAPSED"]
    /\ UNCHANGED <<booking, cash, attempts, holder, malformed, provider, worker>>

\* commandLeaseActive: the lease this worker was given has not run out.
LeaseActive(w) ==
    /\ cstate[Type(w)][Attempt(w)] = "LEASED"
    /\ holder[Type(w)][Attempt(w)] = w

\* Altered form: a finisher updates the command whoever leases it now.
FenceIgnoringToken(w) == worker[w].pc = "FINISH"

(***************************************************************************)
(* The WHERE clause of finishLeaseTx, for a transaction that began while   *)
(* the lease was live: the token must still be this worker's.              *)
(***************************************************************************)
Fence(w) ==
    /\ worker[w].pc = "FINISH"
    /\ cstate[Type(w)][Attempt(w)] \in {"LEASED", "LAPSED"}
    /\ holder[Type(w)][Attempt(w)] = w

FinishLease(w, next) ==
    /\ Fence(w)
    /\ cstate' = [cstate EXCEPT ![Type(w)][Attempt(w)] = next]
    /\ holder' = [holder EXCEPT ![Type(w)][Attempt(w)] = None]
    /\ worker' = [worker EXCEPT ![w] = Idle]

\* The finishers complete the command of a terminal attempt as a no-op.
UnlessTerminal(w, next) ==
    IF attempt[Attempt(w)] \in Terminal THEN "SUCCEEDED" ELSE next

-----------------------------------------------------------------------------
(***************************************************************************)
(* The processor.  Decide reads the attempt without a lock.  An identity   *)
(* is bound in the transaction that completes the create command, and the  *)
(* inquiry command appears in that transaction too, so the branches that   *)
(* recover a known identity, retry an inquiry without one, or reject a     *)
(* command of the wrong state are never taken (see CommandsFollowAttempt). *)
(***************************************************************************)
BeginFinish(w, out) ==
    worker' = [worker EXCEPT ![w] =
                 WorkerAt("FINISH", Type(w), Attempt(w), worker[w].seen, out, expired)]

DecideCommandExecution(w) ==
    /\ worker[w].pc = "CLAIMED"
    /\ LeaseActive(w)
    /\ IF attempt[Attempt(w)] \in Terminal
         THEN BeginFinish(w, "NOOP")
         ELSE worker' = [worker EXCEPT ![w] =
                WorkerAt("CALLING", Type(w), Attempt(w), identity[Attempt(w)], "NONE", FALSE)]
    /\ UNCHANGED <<booking, cash, attempts, commands, provider>>

Calling(w, t) ==
    /\ worker[w].pc = "CALLING"
    /\ Type(w) = t
    /\ LeaseActive(w)

\* The provider opens at most one session for an idempotency key.
OpenedSession(a) == IF session[a] = "NONE" THEN "OPEN" ELSE session[a]

(***************************************************************************)
(* The answer to a create call, and the begin of the transaction that      *)
(* records it.  A call that failed may have opened the session or not.     *)
(***************************************************************************)
CreateAnswer(w, out) ==
    /\ Calling(w, "CREATE")
    /\ BeginFinish(w, out)
    /\ \/ session' = [session EXCEPT ![Attempt(w)] = OpenedSession(Attempt(w))]
       \/ out # "SUCCESS" /\ UNCHANGED session
    /\ UNCHANGED <<booking, cash, attempts, commands, paid>>

(***************************************************************************)
(* What the provider can answer to an inquiry, by the identity the request *)
(* carried.  A session inquiry that finds a payment request binds it first *)
(* and comes back; only a payment inquiry captures, or reports a request   *)
(* that failed.  The answer may be older than the payment.                 *)
(***************************************************************************)
DecideInquiryResponse(w, out) ==
    CASE out = "BIND"             -> worker[w].seen = "SESSION"
      [] out = "TERMINAL_PAYMENT" -> session[Attempt(w)] = "EXPIRED" \/ worker[w].seen = "REQUEST"
      [] out = "CAPTURE"          -> worker[w].seen = "REQUEST" /\ paid[Attempt(w)]
      [] OTHER                    -> TRUE

InquiryAnswer(w, out) ==
    /\ Calling(w, "INQUIRY")
    /\ DecideInquiryResponse(w, out)
    /\ BeginFinish(w, out)
    /\ UNCHANGED <<booking, cash, attempts, commands, provider>>

(***************************************************************************)
(* An error return, a panic, a crash or a lost lease: the command stays    *)
(* leased until the lease lapses and another worker claims it.             *)
(***************************************************************************)
Abandon(w) ==
    /\ worker[w].pc # "IDLE"
    /\ worker' = [worker EXCEPT ![w] = Idle]
    /\ \/ UNCHANGED session
       \/ /\ worker[w].pc = "CALLING" /\ Type(w) = "CREATE"
          /\ session' = [session EXCEPT ![Attempt(w)] = OpenedSession(Attempt(w))]
    /\ UNCHANGED <<booking, cash, attempts, commands, paid>>

-----------------------------------------------------------------------------
(***************************************************************************)
(* The transactions that record an answer.                                 *)
(***************************************************************************)
Finishing(w, out) == worker[w].pc = "FINISH" /\ worker[w].out = out

FinishNoop(w) ==
    /\ Finishing(w, "NOOP")
    /\ FinishLease(w, "SUCCEEDED")
    /\ UNCHANGED <<booking, cash, attempts, malformed, provider>>

FinishRetryable(w) ==
    /\ Finishing(w, "RETRYABLE")
    /\ FinishLease(w, UnlessTerminal(w, "RETRYABLE"))
    /\ UNCHANGED <<booking, cash, attempts, malformed, provider>>

\* The second malformed answer of a command ends it.
FinishMalformed(w) ==
    /\ Finishing(w, "MALFORMED")
    /\ FinishLease(w, UnlessTerminal(w, IF malformed[Type(w)][Attempt(w)]
                                          THEN "TERMINAL" ELSE "RETRYABLE"))
    /\ malformed' = [malformed EXCEPT ![Type(w)][Attempt(w)] =
                       @ \/ attempt[Attempt(w)] \notin Terminal]
    /\ UNCHANGED <<booking, cash, attempts, provider>>

FinishTerminal(w) ==
    /\ Finishing(w, "TERMINAL")
    /\ FinishLease(w, "TERMINAL")
    /\ UNCHANGED <<booking, cash, attempts, malformed, provider>>

\* The create call timed out: its outcome is unknown, the attempt is PENDING.
FinishCreateTimeout(w) ==
    /\ Finishing(w, "TIMEOUT")
    /\ FinishLease(w, UnlessTerminal(w, "RETRYABLE"))
    /\ attempt' = [attempt EXCEPT ![Attempt(w)] = IF @ = "CREATED" THEN "PENDING" ELSE @]
    /\ UNCHANGED <<booking, cash, identity, fact, malformed, provider>>

\* A terminal attempt does not take the identity of the session.
ApplyCreateProviderResult(a) ==
    IF attempt[a] \in Terminal
      THEN UNCHANGED <<attempt, identity>>
      ELSE /\ attempt' = [attempt EXCEPT ![a] = "PENDING"]
           /\ identity' = [identity EXCEPT ![a] = "SESSION"]

\* A terminal attempt does not get an inquiry command either.
ApplyCreateResult(w) ==
    /\ Finishing(w, "SUCCESS")
    /\ Fence(w)
    /\ ApplyCreateProviderResult(Attempt(w))
    /\ cstate' = IF attempt[Attempt(w)] \in Terminal
                   THEN [cstate EXCEPT !["CREATE"][Attempt(w)] = "SUCCEEDED"]
                   ELSE [cstate EXCEPT !["CREATE"][Attempt(w)] = "SUCCEEDED",
                                       !["INQUIRY"][Attempt(w)] = EnqueueTx("INQUIRY", Attempt(w))]
    /\ holder' = [holder EXCEPT !["CREATE"][Attempt(w)] = None]
    /\ worker' = [worker EXCEPT ![w] = Idle]
    /\ UNCHANGED <<booking, cash, fact, malformed, provider>>

\* ApplyInquiryIdentityTx binds the payment request to a PENDING attempt only.
ApplyInquiryIdentity(a) ==
    identity' = [identity EXCEPT ![a] = IF attempt[a] = "PENDING" THEN "REQUEST" ELSE @]

BindInquiryIdentity(w) ==
    /\ Finishing(w, "BIND")
    /\ FinishLease(w, UnlessTerminal(w, "RETRYABLE"))
    /\ ApplyInquiryIdentity(Attempt(w))
    /\ UNCHANGED <<booking, cash, attempt, fact, malformed, provider>>

\* TransitionStateTx from PENDING; a state conflict is ignored.
FinishTerminalPayment(w) ==
    /\ Finishing(w, "TERMINAL_PAYMENT")
    /\ FinishLease(w, "SUCCEEDED")
    /\ attempt' = [attempt EXCEPT ![Attempt(w)] = IF @ = "PENDING" THEN "EXPIRED" ELSE @]
    /\ UNCHANGED <<booking, cash, identity, fact, malformed, provider>>

\* Altered form: an expired attempt does not make the capture late.
LateCaptureByBooking(w) ==
    /\ fact[Attempt(w)] = "NONE"
    /\ status = "CANCELLED" \/ worker[w].late

(***************************************************************************)
(* RecordCaptureTx.  expired is what the transaction saw when it began.  A *)
(* fact that already exists is a duplicate and never reported as late.     *)
(***************************************************************************)
LateCapture(w) ==
    /\ fact[Attempt(w)] = "NONE"
    /\ status = "CANCELLED" \/ worker[w].late \/ attempt[Attempt(w)] # "PENDING"

\* The unique index on captured attempts of a booking.
RecordCapture(w) ==
    /\ \A o \in Attempts \ {Attempt(w)} : attempt[o] # "CAPTURED"
    /\ attempt' = [attempt EXCEPT ![Attempt(w)] = "CAPTURED"]
    /\ fact' = [fact EXCEPT ![Attempt(w)] =
                  IF @ # "NONE" THEN @ ELSE IF LateCapture(w) THEN "LATE" ELSE "ON_TIME"]

\* Altered form: every capture pays a booking that is still pending.
FinalizeAnyCapture(w) ==
    /\ Finishing(w, "CAPTURE")
    /\ FinishLease(w, "SUCCEEDED")
    /\ RecordCapture(w)
    /\ status' = IF status = "PENDING_PAYMENT" THEN "PAID" ELSE status
    /\ UNCHANGED <<expired, cash, identity, malformed, provider>>

\* Altered form: only the deadline seen at the begin decides what is late.
FinalizeByDeadline(w) ==
    /\ Finishing(w, "CAPTURE")
    /\ FinishLease(w, "SUCCEEDED")
    /\ RecordCapture(w)
    /\ status' = IF worker[w].late THEN status ELSE "PAID"
    /\ UNCHANGED <<expired, cash, identity, malformed, provider>>

FinalizeGatewayCapture(w) ==
    /\ Finishing(w, "CAPTURE")
    /\ FinishLease(w, "SUCCEEDED")
    /\ RecordCapture(w)
    /\ LateCapture(w) \/ status = "PENDING_PAYMENT"      \* else ErrStateConflict
    /\ status' = IF LateCapture(w) THEN status ELSE "PAID"
    /\ UNCHANGED <<expired, cash, identity, malformed, provider>>

-----------------------------------------------------------------------------
\* payment_session.expired; a session event proves no capture.
WebhookSessionExpired(a) ==
    /\ session[a] = "EXPIRED"
    /\ attempt[a] = "PENDING"
    /\ attempt' = [attempt EXCEPT ![a] = "EXPIRED"]
    /\ UNCHANGED <<booking, cash, identity, fact, commands, provider, worker>>

\* A payment begun in an open session may settle after the session expired.
ProviderPays(a) ==
    /\ session[a] # "NONE"
    /\ ~paid[a]
    /\ paid' = [paid EXCEPT ![a] = TRUE]
    /\ UNCHANGED <<booking, cash, attempts, commands, session, worker>>

ProviderExpires(a) ==
    /\ session[a] = "OPEN"
    /\ ~paid[a]
    /\ session' = [session EXCEPT ![a] = "EXPIRED"]
    /\ UNCHANGED <<booking, cash, attempts, commands, paid, worker>>

-----------------------------------------------------------------------------
BookingStep ==
    \/ DeadlinePasses
    \/ SubmitPaymentProof
    \/ ConfirmBookingPayment
    \/ ApprovePayment
    \/ RejectPayment
    \/ MarkBookingPaid
    \/ CompleteBooking
    \/ CancelPaidBookingWithRefund
    \/ CancelBooking
    \/ SweepExpired

FinishStep(w) ==
    \/ FinishNoop(w)
    \/ FinishRetryable(w)
    \/ FinishMalformed(w)
    \/ FinishTerminal(w)
    \/ FinishCreateTimeout(w)
    \/ ApplyCreateResult(w)
    \/ BindInquiryIdentity(w)
    \/ FinishTerminalPayment(w)
    \/ FinalizeGatewayCapture(w)

CreateOutcomes  == {"SUCCESS", "TIMEOUT", "RETRYABLE", "MALFORMED", "TERMINAL"}
InquiryOutcomes == {"BIND", "CAPTURE", "TERMINAL_PAYMENT", "RETRYABLE", "MALFORMED", "TERMINAL"}

WorkerStep(w) ==
    \/ DecideCommandExecution(w)
    \/ \E out \in CreateOutcomes : CreateAnswer(w, out)
    \/ \E out \in InquiryOutcomes : InquiryAnswer(w, out)
    \/ FinishStep(w)
    \/ Abandon(w)

ProviderStep(a) ==
    \/ WebhookSessionExpired(a)
    \/ ProviderPays(a)
    \/ ProviderExpires(a)

Next ==
    \/ BookingStep
    \/ \E a \in Attempts : CreatePayment(a) \/ ProviderStep(a)
    \/ \E t \in Types, a \in Attempts :
         LeaseExpires(t, a) \/ \E w \in Workers : ClaimNext(w, t, a)
    \/ \E w \in Workers : WorkerStep(w)

Spec == Init /\ [][Next]_vars

(***************************************************************************)
(* The sweeper and the payment workers tick for as long as the process     *)
(* lives; time passes, so deadlines and leases run out; the claim orders   *)
(* commands by available_at and a retry pushes its own back, so a command  *)
(* that stays due is claimed.  No call fails for ever: a step that can be  *)
(* taken again and again (the provider answering, the commit of what it    *)
(* answered) is taken in the end.  Customers, owners and webhooks owe      *)
(* nothing.                                                                *)
(***************************************************************************)
Fairness ==
    /\ WF_vars(DeadlinePasses)
    /\ WF_vars(SweepExpired)
    /\ \A t \in Types, a \in Attempts :
         /\ WF_vars(LeaseExpires(t, a))
         /\ SF_vars(\E w \in Workers : ClaimNext(w, t, a))
    /\ \A w \in Workers :
         /\ WF_vars(Abandon(w))
         /\ SF_vars(DecideCommandExecution(w))
         /\ SF_vars(CreateAnswer(w, "SUCCESS"))
         /\ SF_vars(InquiryAnswer(w, "BIND"))
         /\ SF_vars(InquiryAnswer(w, "CAPTURE"))
         /\ SF_vars(ApplyCreateResult(w))
         /\ SF_vars(BindInquiryIdentity(w))
         /\ SF_vars(FinalizeGatewayCapture(w))

FairSpec == Spec /\ Fairness

-----------------------------------------------------------------------------
WorkerStates ==
    [pc : {"IDLE", "CLAIMED", "CALLING", "FINISH"}, type : Types, attempt : Attempts \cup {None},
     seen : {"NONE", "SESSION", "REQUEST"}, late : BOOLEAN,
     out : {"NONE", "NOOP"} \cup CreateOutcomes \cup InquiryOutcomes]

\* Type invariant: the rows, the provider and what each worker carries.
TypeOK ==
    /\ status \in {"PENDING_PAYMENT", "WAITING_VERIFICATION", "CONFIRMED",
                   "PAID", "COMPLETED", "CANCELLED"}
    /\ expired \in BOOLEAN
    /\ income \in Nat /\ refund \in Nat
    /\ attempt \in [Attempts -> {"NONE"} \cup Open \cup Terminal]
    /\ identity \in [Attempts -> {"NONE", "SESSION", "REQUEST"}]
    /\ fact \in [Attempts -> {"NONE", "ON_TIME", "LATE"}]
    /\ cstate \in [Types -> [Attempts -> {"NONE", "PENDING", "LEASED", "LAPSED",
                                          "RETRYABLE", "SUCCEEDED", "TERMINAL"}]]
    /\ holder \in [Types -> [Attempts -> Workers \cup {None}]]
    /\ malformed \in [Types -> [Attempts -> BOOLEAN]]
    /\ session \in [Attempts -> {"NONE", "OPEN", "EXPIRED"}]
    /\ paid \in [Attempts -> BOOLEAN]
    /\ worker \in [Workers -> WorkerStates]

(***************************************************************************)
(* The gateway pays the booking exactly when it recorded a capture in      *)
(* time: a capture that came after the deadline, a cancellation or the     *)
(* expiry of its attempt never pays it, however the worker's read, the     *)
(* provider's answer and its commit were spread around them, and a booking *)
(* that was paid in time stays fulfilled (FinalizeGatewayCaptureTx).       *)
(***************************************************************************)
OnTimeCapturePays ==
    (\E a \in Attempts : fact[a] = "ON_TIME")
        <=> status \in {"PAID", "COMPLETED"} /\ income = 0

(***************************************************************************)
(* The two ways to pay exclude each other: a booking with an attempt has   *)
(* no income row and is on no step of the legacy path (the triggers of     *)
(* migrations 028 and 030, in both orders of the race).                    *)
(***************************************************************************)
PaymentPathsExclusive ==
    ~NoAttempt => income = 0 /\ status \notin {"WAITING_VERIFICATION", "CONFIRMED"}

(***************************************************************************)
(* A cancelled undispatched attempt reaches the provider never: no session *)
(* is opened for it and no worker holds its create command, although the   *)
(* claim and the cancellation race for it.                                 *)
(***************************************************************************)
CancelledNeverDispatched ==
    \A a \in Attempts : attempt[a] = "CANCELLED" =>
        /\ session[a] = "NONE"
        /\ \A w \in Workers : Attempt(w) # a

(***************************************************************************)
(* The customer faces one checkout at a time as far as the database knows, *)
(* and a booking has one capture at most (RejectActiveAttempt, the unique  *)
(* index on captured attempts).                                            *)
(***************************************************************************)
OneOpenAttempt ==
    \A a, o \in Attempts : a # o =>
        /\ ~(attempt[a] \in Open /\ attempt[o] \in Open)
        /\ ~(fact[a] # "NONE" /\ fact[o] # "NONE")

CommandsFollow(a) ==
    /\ identity[a] # "NONE" <=> cstate["INQUIRY"][a] # "NONE"
    /\ identity[a] # "NONE" => cstate["CREATE"][a] = "SUCCEEDED" /\ session[a] # "NONE"
    /\ attempt[a] = "PENDING" =>
         \/ cstate["CREATE"][a] \in {"LEASED", "LAPSED", "RETRYABLE", "TERMINAL"}
         \/ cstate["INQUIRY"][a] \in {"PENDING", "LEASED", "LAPSED", "RETRYABLE", "TERMINAL"}
    /\ attempt[a] = "CAPTURED" <=> fact[a] # "NONE"
    /\ fact[a] # "NONE" => cstate["INQUIRY"][a] = "SUCCEEDED" /\ paid[a]

(***************************************************************************)
(* Attempt and commands change together: an identity is known exactly when *)
(* the inquiry command exists, and then the create command has succeeded;  *)
(* a pending attempt always has a command to resolve it, unless that       *)
(* command ended as an incident; a captured attempt has no inquiry that    *)
(* could run again.                                                        *)
(***************************************************************************)
CommandsFollowAttempt == \A a \in Attempts : CommandsFollow(a)

(***************************************************************************)
(* The gateway pays a booking only in the step that captures an attempt    *)
(* nobody had given up: the worker read the attempt before its call, and   *)
(* by the commit a webhook or another inquiry may have ended it.           *)
(***************************************************************************)
PaidByLiveAttempt ==
    [][(status # "PAID" /\ status' = "PAID" /\ income' = 0) =>
         /\ status = "PENDING_PAYMENT"
         /\ \E a \in Attempts : attempt[a] = "PENDING" /\ attempt'[a] = "CAPTURED"]_vars

(***************************************************************************)
(* The booking and the owner's ledger follow BookingLifecycle while both   *)
(* payment paths, cancellation, the sweep and late captures run: the       *)
(* gateway revives no cancelled booking and books no owner's cash.         *)
(***************************************************************************)
Lifecycle == INSTANCE BookingLifecycle

GatewayFollowsLifecycle == Lifecycle!Spec

(***************************************************************************)
(* A payment made at the provider is found, through crashed workers, lost  *)
(* answers and lapsed leases: the attempt does not stay pending, unless a  *)
(* command ended as an incident or the booking has another capture.        *)
(***************************************************************************)
PaymentIsFound ==
    \A a \in Attempts :
        (paid[a] /\ attempt[a] = "PENDING") ~>
            \/ attempt[a] # "PENDING"
            \/ \E t \in Types : cstate[t][a] = "TERMINAL"
            \/ \E o \in Attempts \ {a} : fact[o] # "NONE"

(***************************************************************************)
(* An expired booking does not stay pending because it was sent to the     *)
(* gateway: the sweep cancels it, unless an attempt is still CREATED and   *)
(* its create command was already claimed (cancelUndispatched...).         *)
(***************************************************************************)
ExpiredBookingIsSwept ==
    (expired /\ status = "PENDING_PAYMENT") ~>
        \/ status # "PENDING_PAYMENT"
        \/ \E a \in Attempts : attempt[a] = "CREATED" /\ cstate["CREATE"][a] # "PENDING"

-----------------------------------------------------------------------------
(***************************************************************************)
(* The inductive invariant of the proofs, in named parts.                  *)
(***************************************************************************)
\* Owner's cash is booked on the legacy path only, and once the status says so.
LedgerInv ==
    /\ income \in {0, 1}
    /\ income > 0 => status \in {"PAID", "COMPLETED", "CANCELLED"}
    /\ OnTimeCapturePays
    /\ PaymentPathsExclusive

\* A capture fact is what a captured attempt has, and it closed the inquiry.
FactInv ==
    \A a \in Attempts :
        /\ attempt[a] = "CAPTURED" <=> fact[a] # "NONE"
        /\ fact[a] # "NONE" => cstate["INQUIRY"][a] = "SUCCEEDED"

\* A worker's answer is one to the command it claimed.
WorkerInv ==
    \A w \in Workers : worker[w].pc # "IDLE" =>
        /\ worker[w].attempt \in Attempts
        /\ worker[w].out \in {"SUCCESS", "TIMEOUT"} => worker[w].type = "CREATE"
        /\ worker[w].out \in {"BIND", "CAPTURE", "TERMINAL_PAYMENT"} => worker[w].type = "INQUIRY"

\* A create command leaves PENDING by a claim, before any call is made.
DispatchInv ==
    /\ \A a \in Attempts :
         /\ attempt[a] = "NONE" => cstate["CREATE"][a] = "NONE"
         /\ attempt[a] = "CANCELLED" => cstate["CREATE"][a] = "PENDING"
         /\ cstate["INQUIRY"][a] # "NONE" => cstate["CREATE"][a] = "SUCCEEDED"
         /\ session[a] # "NONE" => cstate["CREATE"][a] \notin {"NONE", "PENDING"}
    /\ \A w \in Workers : worker[w].pc # "IDLE" =>
         cstate["CREATE"][worker[w].attempt] \notin {"NONE", "PENDING"}
    /\ \A w \in Workers : worker[w].pc = "IDLE" => worker[w].attempt = None

\* What an answer says of the provider and of the attempt stays true until it is recorded.
AnswerInv ==
    \A w \in Workers :
        /\ worker[w].out # "NONE" => worker[w].pc = "FINISH"
        /\ worker[w].out = "SUCCESS" => session[Attempt(w)] # "NONE"
        /\ worker[w].out = "CAPTURE" => paid[Attempt(w)]
        /\ worker[w].out = "NOOP" => attempt[Attempt(w)] \in Terminal
=============================================================================
