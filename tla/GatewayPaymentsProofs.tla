------------------------ MODULE GatewayPaymentsProofs -----------------------
(***************************************************************************)
(* Proofs about GatewayPayments for any number of attempts and workers:    *)
(* types, what pays a booking, the separation of the two payment paths and *)
(* the isolation of cancelled attempts from the provider.                  *)
(***************************************************************************)
EXTENDS GatewayPayments, TLAPS

(***************************************************************************)
(* The fields of a typed worker, and the idle worker.                      *)
(***************************************************************************)
LEMMA WorkerFields ==
    /\ Idle \in WorkerStates /\ Idle.pc = "IDLE" /\ Idle.attempt = None
    /\ \A r \in WorkerStates :
         /\ r.pc \in {"IDLE", "CLAIMED", "CALLING", "FINISH"} /\ r.type \in Types
         /\ r.attempt \in Attempts \cup {None} /\ r.seen \in {"NONE", "SESSION", "REQUEST"}
         /\ r.out \in {"NONE", "NOOP"} \cup CreateOutcomes \cup InquiryOutcomes
BY DEF Idle, WorkerAt, WorkerStates, Types

\* What every step proof needs of the state it starts in.
Base == TypeOK /\ WorkerInv

(***************************************************************************)
(* Steps of a worker put a record of the right type in its place.          *)
(***************************************************************************)
LEMMA WorkerUpdate ==
    ASSUME Base, NEW w \in Workers, NEW r \in WorkerStates,
           r.pc # "IDLE" => /\ r.attempt \in Attempts
                            /\ r.out \in {"SUCCESS", "TIMEOUT"} => r.type = "CREATE"
                            /\ r.out \in {"BIND", "CAPTURE", "TERMINAL_PAYMENT"}
                                 => r.type = "INQUIRY",
           worker' = [worker EXCEPT ![w] = r]
    PROVE  worker' \in [Workers -> WorkerStates] /\ WorkerInv'
BY DEF Base, TypeOK, WorkerInv

(***************************************************************************)
(* Types, and the match of a worker's answer with its command.             *)
(***************************************************************************)
LEMMA BaseStep == Base /\ [Next]_vars => Base'
<1> SUFFICES ASSUME Base, [Next]_vars PROVE Base'
  OBVIOUS
<1>1. CASE BookingStep
  <2>1. \/ /\ UNCHANGED <<attempts, commands, provider, worker>>
           /\ income' \in Nat /\ refund' \in Nat
        \/ CancelBooking \/ SweepExpired
    BY <1>1 DEF Base, TypeOK, BookingStep, DeadlinePasses, SubmitPaymentProof,
       ConfirmBookingPayment, ApprovePayment, RejectPayment, MarkBookingPaid,
       CompleteBooking,
       InsertIncomeOnce, CancelPaidBookingWithRefund, LegacyMove, cash
  <2>2. status' \in {"PENDING_PAYMENT", "WAITING_VERIFICATION", "CONFIRMED",
                     "PAID", "COMPLETED", "CANCELLED"} /\ expired' \in BOOLEAN
    BY <1>1 DEF Base, TypeOK, BookingStep, DeadlinePasses, SubmitPaymentProof,
       ConfirmBookingPayment, ApprovePayment, RejectPayment, MarkBookingPaid,
       CompleteBooking,
       CancelPaidBookingWithRefund, CancelBooking, SweepExpired, CancelPending, LegacyMove
  <2>3. CASE UNCHANGED <<attempts, commands, provider,
    worker>> /\ income' \in Nat /\ refund' \in Nat
    BY <2>2, <2>3 DEF Base, TypeOK, WorkerInv, attempts, commands, provider
  <2>4. CASE CancelBooking \/ SweepExpired
    BY <2>2, <2>4 DEF Base, TypeOK, WorkerInv, CancelBooking, SweepExpired, CancelPending,
       Terminal, cash, commands, provider
  <2> QED
    BY <2>1, <2>3, <2>4
<1>2. ASSUME NEW a \in Attempts, CreatePayment(a) PROVE Base'
  BY <1>2 DEF Base, TypeOK, WorkerInv, CreatePayment, EnqueueTx, CreateOrReplayAttempt,
     Open, Types, booking, cash, provider
<1>3. ASSUME NEW a \in Attempts, ProviderStep(a) PROVE Base'
  BY <1>3 DEF Base, TypeOK, WorkerInv, ProviderStep, WebhookSessionExpired, ProviderPays,
     ProviderExpires, Terminal, booking, cash, attempts, commands, provider
<1>4. ASSUME NEW t \in Types, NEW a \in Attempts, LeaseExpires(t, a) PROVE Base'
  BY <1>4 DEF Base, TypeOK, WorkerInv, LeaseExpires, booking, cash, attempts, provider
<1>5. ASSUME NEW t \in Types, NEW a \in Attempts, NEW w \in Workers, ClaimNext(w, t, a)
      PROVE Base'
  <2> DEFINE r == WorkerAt("CLAIMED", t, a, "NONE", "NONE", FALSE)
  <2>1. r \in WorkerStates /\ r.attempt = a /\ r.out = "NONE"
    BY DEF WorkerAt, WorkerStates
  <2>2. worker' = [worker EXCEPT ![w] = r]
    BY <1>5 DEF ClaimNext
  <2> HIDE DEF r
  <2>3. worker' \in [Workers -> WorkerStates] /\ WorkerInv'
    BY <2>1, <2>2, WorkerUpdate
  <2> QED
    BY <1>5, <2>3 DEF Base, TypeOK, ClaimNext, booking, cash, attempts, provider
<1>6. ASSUME NEW w \in Workers, WorkerStep(w) PROVE Base'
  <2> DEFINE a == Attempt(w)
             t == Type(w)
  <2>0. /\ a \in Attempts \cup {None} /\ t \in Types
        /\ worker[w].pc # "IDLE" => a \in Attempts
        /\ worker[w].seen \in {"NONE", "SESSION", "REQUEST"}
        /\ expired \in BOOLEAN
        /\ a \in Attempts => /\ identity[a] \in {"NONE", "SESSION", "REQUEST"}
                             /\ session[a] \in {"NONE", "OPEN", "EXPIRED"}
    BY WorkerFields DEF Base, TypeOK, WorkerInv, Attempt, Type
  <2>1. CASE DecideCommandExecution(w)
    <3>1. worker[w].pc # "IDLE" /\ UNCHANGED <<booking, cash, attempts, commands, provider>>
      BY <2>1 DEF DecideCommandExecution
    <3> DEFINE r == WorkerAt("FINISH", t, a, worker[w].seen, "NOOP", expired)
               q == WorkerAt("CALLING", t, a, identity[a], "NONE", FALSE)
    <3>2. r \in WorkerStates /\ r.attempt = a /\ r.out = "NOOP"
      BY <2>0 DEF WorkerAt, WorkerStates
    <3>3. q \in WorkerStates /\ q.attempt = a /\ q.out = "NONE"
      BY <2>0, <3>1 DEF WorkerAt, WorkerStates
    <3>4. worker' = [worker EXCEPT ![w] = r] \/ worker' = [worker EXCEPT ![w] = q]
      BY <2>1 DEF DecideCommandExecution, BeginFinish
    <3>5. a \in Attempts
      BY <2>0, <3>1
    <3> HIDE DEF a, r, q
    <3>6. worker' \in [Workers -> WorkerStates] /\ WorkerInv'
      BY <3>2, <3>3, <3>4, <3>5, WorkerUpdate
    <3> QED
      BY <3>1, <3>6 DEF Base, TypeOK, booking, cash, attempts, commands, provider
  <2>2. ASSUME NEW out \in CreateOutcomes, CreateAnswer(w, out) PROVE Base'
    <3>1. worker[w].pc # "IDLE" /\ t = "CREATE" /\ UNCHANGED <<booking, cash, attempts,
      commands, paid>>
      BY <2>2 DEF CreateAnswer, Calling
    <3>2. out \notin {"BIND", "CAPTURE", "TERMINAL_PAYMENT"}
      BY DEF CreateOutcomes
    <3> DEFINE r == WorkerAt("FINISH", t, a, worker[w].seen, out, expired)
    <3>a. r \in WorkerStates /\ r.attempt = a /\ r.out = out /\ r.type = t
      BY <2>0 DEF WorkerAt, WorkerStates
    <3>b. worker' = [worker EXCEPT ![w] = r] /\ a \in Attempts
      BY <2>0, <2>2, <3>1 DEF CreateAnswer, BeginFinish
    <3> HIDE DEF r
    <3>3. worker' \in [Workers -> WorkerStates] /\ WorkerInv'
      BY <3>1, <3>2, <3>a, <3>b, WorkerUpdate
    <3>4. session' \in [Attempts -> {"NONE", "OPEN", "EXPIRED"}]
      BY <2>0, <2>2, <3>1 DEF Base, TypeOK, CreateAnswer, OpenedSession
    <3> QED
      BY <3>1, <3>3, <3>4 DEF Base, TypeOK, booking, cash, attempts, commands
  <2>3. ASSUME NEW out \in InquiryOutcomes, InquiryAnswer(w, out) PROVE Base'
    <3>1. worker[w].pc # "IDLE" /\ t = "INQUIRY" /\ UNCHANGED <<booking, cash, attempts,
      commands, provider>>
      BY <2>3 DEF InquiryAnswer, Calling
    <3>2. out \notin {"SUCCESS", "TIMEOUT"}
      BY DEF InquiryOutcomes
    <3> DEFINE r == WorkerAt("FINISH", t, a, worker[w].seen, out, expired)
    <3>a. r \in WorkerStates /\ r.attempt = a /\ r.out = out /\ r.type = t
      BY <2>0 DEF WorkerAt, WorkerStates
    <3>b. worker' = [worker EXCEPT ![w] = r] /\ a \in Attempts
      BY <2>0, <2>3, <3>1 DEF InquiryAnswer, BeginFinish
    <3> HIDE DEF r
    <3>3. worker' \in [Workers -> WorkerStates] /\ WorkerInv'
      BY <3>1, <3>2, <3>a, <3>b, WorkerUpdate
    <3> QED
      BY <3>1, <3>3 DEF Base, TypeOK, booking, cash, attempts, commands, provider
  <2>4. CASE Abandon(w)
    <3>1. worker' \in [Workers -> WorkerStates] /\ WorkerInv'
      BY <2>4, WorkerUpdate, WorkerFields DEF Abandon
    <3>2. session' \in [Attempts -> {"NONE", "OPEN", "EXPIRED"}]
      BY <2>0, <2>4 DEF Base, TypeOK, Abandon, OpenedSession
    <3> QED
      BY <2>4, <3>1, <3>2 DEF Base, TypeOK, Abandon, booking, cash, attempts, commands
  <2>5. CASE FinishStep(w)
    <3>1. worker' = [worker EXCEPT ![w] = Idle]
      BY <2>5 DEF FinishStep, FinishNoop, FinishRetryable, FinishMalformed,
         FinishTerminal, FinishCreateTimeout, ApplyCreateResult,
         ApplyCreateProviderResult, EnqueueTx, BindInquiryIdentity, ApplyInquiryIdentity,
         FinishTerminalPayment, FinalizeGatewayCapture, FinishLease
    <3>2. worker' \in [Workers -> WorkerStates] /\ WorkerInv'
      BY <3>1, WorkerUpdate, WorkerFields
    <3>3. UNCHANGED <<expired, cash, provider>>
      BY <2>5 DEF FinishStep, FinishNoop, FinishRetryable, FinishMalformed,
         FinishTerminal, FinishCreateTimeout, ApplyCreateResult,
         ApplyCreateProviderResult, EnqueueTx, BindInquiryIdentity, ApplyInquiryIdentity,
         FinishTerminalPayment, FinalizeGatewayCapture, booking
    <3>4. worker[w].pc = "FINISH"
      BY <2>5 DEF FinishStep, FinishNoop, FinishRetryable, FinishMalformed,
         FinishTerminal, FinishCreateTimeout, ApplyCreateResult,
         ApplyCreateProviderResult, EnqueueTx, BindInquiryIdentity, ApplyInquiryIdentity,
         FinishTerminalPayment, FinalizeGatewayCapture, Finishing
    <3>5. a \in Attempts
      BY <2>0, <3>4
    <3> HIDE DEF a, t
    <3>6. /\ status' \in {"PENDING_PAYMENT", "WAITING_VERIFICATION", "CONFIRMED",
                     "PAID", "COMPLETED", "CANCELLED"}
          /\ attempt' \in [Attempts -> {"NONE"} \cup Open \cup Terminal]
          /\ identity' \in [Attempts -> {"NONE", "SESSION", "REQUEST"}]
          /\ fact' \in [Attempts -> {"NONE", "ON_TIME", "LATE"}]
      <4>1. CASE UNCHANGED <<status, attempts>>
        BY <4>1 DEF Base, TypeOK, attempts
      <4>2. CASE FinishCreateTimeout(w)
        BY <4>2, <3>5 DEF a, Base, TypeOK, FinishCreateTimeout, Open, booking
      <4>3. CASE ApplyCreateResult(w)
        BY <4>3, <3>5 DEF a, Base, TypeOK, ApplyCreateResult, ApplyCreateProviderResult,
           EnqueueTx, Open, booking
      <4>4. CASE BindInquiryIdentity(w)
        BY <4>4, <3>5 DEF a, Base, TypeOK, BindInquiryIdentity, ApplyInquiryIdentity,
           booking
      <4>5. CASE FinishTerminalPayment(w)
        BY <4>5, <3>5 DEF a, Base, TypeOK, FinishTerminalPayment, Terminal, booking
      <4>6. CASE FinalizeGatewayCapture(w)
        BY <4>6, <3>5 DEF a, Base, TypeOK, FinalizeGatewayCapture, RecordCapture, Terminal
      <4> QED
        BY <2>5, <4>1, <4>2, <4>3, <4>4, <4>5, <4>6 DEF FinishStep, FinishNoop,
           FinishRetryable, FinishMalformed, FinishTerminal, booking
    <3>7. /\ cstate' \in [Types -> [Attempts -> {"NONE", "PENDING", "LEASED", "LAPSED",
                                                 "RETRYABLE", "SUCCEEDED", "TERMINAL"}]]
          /\ holder' \in [Types -> [Attempts -> Workers \cup {None}]]
      <4>1. CASE ApplyCreateResult(w)
        BY <4>1, <3>5 DEF a, Base, TypeOK, ApplyCreateResult, ApplyCreateProviderResult,
           EnqueueTx, Types
      <4>2. ASSUME NEW n \in {"RETRYABLE", "SUCCEEDED", "TERMINAL"}, FinishLease(w, n)
            PROVE  /\ cstate' \in [Types -> [Attempts -> {"NONE", "PENDING", "LEASED", "LAPSED",
                                                         "RETRYABLE", "SUCCEEDED",
                                                         "TERMINAL"}]]
                   /\ holder' \in [Types -> [Attempts -> Workers \cup {None}]]
        BY <2>0, <4>2, <3>5 DEF a, t, Base, TypeOK, FinishLease
      <4> QED
        BY <2>5, <4>1, <4>2 DEF FinishStep, FinishNoop, FinishRetryable, FinishMalformed,
           FinishTerminal, FinishCreateTimeout, BindInquiryIdentity, ApplyInquiryIdentity,
           FinishTerminalPayment, FinalizeGatewayCapture, UnlessTerminal
    <3>8. malformed' \in [Types -> [Attempts -> BOOLEAN]]
      <4>1. CASE UNCHANGED malformed
        BY <4>1 DEF Base, TypeOK
      <4>2. CASE FinishMalformed(w)
        BY <4>2, <2>0, <3>5 DEF a, t, Base, TypeOK, FinishMalformed
      <4> QED
        BY <2>5, <4>1, <4>2 DEF FinishStep, FinishNoop, FinishRetryable, FinishTerminal,
           FinishCreateTimeout, ApplyCreateResult, ApplyCreateProviderResult, EnqueueTx,
           BindInquiryIdentity, ApplyInquiryIdentity, FinishTerminalPayment,
           FinalizeGatewayCapture
    <3> QED
      BY <3>2, <3>3, <3>6, <3>7, <3>8 DEF Base, TypeOK, cash, provider
  <2> QED
    BY <1>6, <2>1, <2>2, <2>3, <2>4, <2>5 DEF WorkerStep
<1>7. CASE UNCHANGED vars
  BY <1>7 DEF Base, TypeOK, WorkerInv, vars, booking, cash, attempts, commands, provider
<1> QED
  BY <1>1, <1>2, <1>3, <1>4, <1>5, <1>6, <1>7 DEF Next

(***************************************************************************)
(* Type correctness, and the match of answers with commands.               *)
(***************************************************************************)
THEOREM GatewayTypeCorrect == Spec => [](TypeOK /\ WorkerInv)
<1>1. Init => Base
  <2> SUFFICES ASSUME Init PROVE Base
    OBVIOUS
  <2>1. worker \in [Workers -> WorkerStates] /\ WorkerInv
    BY WorkerFields DEF Init, WorkerInv
  <2> QED
    BY <2>1 DEF Init, Base, TypeOK
<1> QED
  BY <1>1, BaseStep, PTL DEF Spec, Base

-----------------------------------------------------------------------------
(***************************************************************************)
(* How one finishing step changes a command: only the worker's own, only   *)
(* while it is leased to it; an inquiry command appears with a live        *)
(* attempt only.                                                           *)
(***************************************************************************)
LEMMA FinishEffect ==
    ASSUME Base, NEW w \in Workers, FinishStep(w)
    PROVE  /\ Attempt(w) \in Attempts
           /\ Type(w) \in Types
           /\ cstate[Type(w)][Attempt(w)] \in {"LEASED", "LAPSED"}
           /\ worker' = [worker EXCEPT ![w] = Idle]
           /\ UNCHANGED <<expired, cash, provider>>
           /\ \/ ApplyCreateResult(w)
              \/ \E n \in {"RETRYABLE", "SUCCEEDED", "TERMINAL"} :
                   cstate' = [cstate EXCEPT ![Type(w)][Attempt(w)] = n]
<1>1. worker[w].pc = "FINISH" /\ cstate[Type(w)][Attempt(w)] \in {"LEASED", "LAPSED"}
      /\ worker' = [worker EXCEPT ![w] = Idle]
  BY DEF FinishStep, FinishNoop, FinishRetryable, FinishMalformed, FinishTerminal,
     FinishCreateTimeout, ApplyCreateResult, ApplyCreateProviderResult, EnqueueTx,
     BindInquiryIdentity, ApplyInquiryIdentity, FinishTerminalPayment,
     FinalizeGatewayCapture, FinishLease, Fence
<1>2. Attempt(w) \in Attempts /\ Type(w) \in Types
  BY <1>1, WorkerFields DEF Base, TypeOK, WorkerInv, Attempt, Type
<1>3. UNCHANGED <<expired, cash, provider>>
  BY DEF FinishStep, FinishNoop, FinishRetryable, FinishMalformed, FinishTerminal,
     FinishCreateTimeout, ApplyCreateResult, ApplyCreateProviderResult, EnqueueTx,
     BindInquiryIdentity, ApplyInquiryIdentity, FinishTerminalPayment,
     FinalizeGatewayCapture, booking
<1>4. \/ ApplyCreateResult(w)
      \/ \E n \in {"RETRYABLE", "SUCCEEDED", "TERMINAL"} : FinishLease(w, n)
  BY DEF FinishStep, FinishNoop, FinishRetryable, FinishMalformed, FinishTerminal,
     FinishCreateTimeout, BindInquiryIdentity, ApplyInquiryIdentity,
     FinishTerminalPayment, FinalizeGatewayCapture, UnlessTerminal
<1> QED
  BY <1>1, <1>2, <1>3, <1>4 DEF FinishLease

(***************************************************************************)
(* A capture fact and the CAPTURED state are written together, with the    *)
(* completion of the inquiry command, and nothing undoes them.             *)
(***************************************************************************)
LEMMA FactStep == Base /\ FactInv /\ [Next]_vars => FactInv'
<1> SUFFICES ASSUME Base, FactInv, [Next]_vars PROVE FactInv'
  OBVIOUS
<1>1. CASE BookingStep
  <2>1. CASE CancelBooking \/ SweepExpired
    BY <2>1 DEF Base, TypeOK, FactInv, CancelBooking, SweepExpired, CancelPending,
       UndispatchedAttempts, commands
  <2>2. CASE UNCHANGED <<attempts, commands>>
    BY <2>2 DEF FactInv, attempts, commands
  <2> QED
    BY <1>1, <2>1, <2>2 DEF BookingStep, DeadlinePasses, SubmitPaymentProof,
       ConfirmBookingPayment, ApprovePayment, RejectPayment, MarkBookingPaid,
       CompleteBooking, CancelPaidBookingWithRefund, LegacyMove
<1>2. ASSUME NEW a \in Attempts, CreatePayment(a) PROVE FactInv'
  BY <1>2 DEF Base, TypeOK, FactInv, CreatePayment, EnqueueTx, CreateOrReplayAttempt,
     Types
<1>3. ASSUME NEW a \in Attempts, ProviderStep(a) PROVE FactInv'
  BY <1>3 DEF Base, TypeOK, FactInv, ProviderStep, WebhookSessionExpired, ProviderPays,
     ProviderExpires, attempts, commands
<1>4. ASSUME NEW t \in Types, NEW a \in Attempts, LeaseExpires(t, a) PROVE FactInv'
  BY <1>4 DEF Base, TypeOK, FactInv, LeaseExpires, Types, attempts
<1>5. ASSUME NEW t \in Types, NEW a \in Attempts, NEW w \in Workers, ClaimNext(w, t, a)
      PROVE FactInv'
  BY <1>5 DEF Base, TypeOK, FactInv, ClaimNext, Due, Types, attempts
<1>6. ASSUME NEW w \in Workers, WorkerStep(w) PROVE FactInv'
  <2>1. CASE FinishStep(w)
    <3> DEFINE a == Attempt(w)
               t == Type(w)
    <3>1. a \in Attempts /\ t \in Types /\ cstate[t][a] \in {"LEASED", "LAPSED"}
      BY <2>1, FinishEffect
    <3>2. CASE ApplyCreateResult(w)
      BY <3>1, <3>2 DEF Base, TypeOK, FactInv, ApplyCreateResult,
         ApplyCreateProviderResult, EnqueueTx, Terminal, Types
    <3>3. CASE FinalizeGatewayCapture(w)
      <4>1. t = "INQUIRY"
        BY <3>3 DEF Base, WorkerInv, FinalizeGatewayCapture, Finishing, Type
      <4>2. cstate' = [cstate EXCEPT !["INQUIRY"][a] = "SUCCEEDED"]
        BY <3>3, <4>1 DEF FinalizeGatewayCapture, FinishLease
      <4>3. /\ attempt' = [attempt EXCEPT ![a] = "CAPTURED"]
            /\ \A x \in Attempts : x # a => fact'[x] = fact[x]
            /\ fact'[a] # "NONE"
        BY <3>1, <3>3 DEF Base, TypeOK, FinalizeGatewayCapture, RecordCapture
      <4> HIDE DEF a, t
      <4> QED
        BY <3>1, <4>2, <4>3 DEF Base, TypeOK, FactInv, Types
    <3>4. ASSUME NEW n \in {"RETRYABLE", "SUCCEEDED", "TERMINAL"},
                 cstate' = [cstate EXCEPT ![t][a] = n], UNCHANGED fact,
                 \A x \in Attempts : attempt'[x] = "CAPTURED" <=> attempt[x] = "CAPTURED"
          PROVE FactInv'
      <4> HIDE DEF a, t
      <4> QED
        BY <3>1, <3>4 DEF Base, TypeOK, FactInv, Types
    <3>5. \/ FinalizeGatewayCapture(w)
          \/ /\ UNCHANGED fact
             /\ \A x \in Attempts : attempt'[x] = "CAPTURED" <=> attempt[x] = "CAPTURED"
      BY <2>1 DEF Base, TypeOK, FinishStep, FinishNoop, FinishRetryable, FinishMalformed,
         FinishTerminal, FinishCreateTimeout, ApplyCreateResult,
         ApplyCreateProviderResult, EnqueueTx, BindInquiryIdentity, ApplyInquiryIdentity,
         FinishTerminalPayment, Terminal, attempts
    <3>6. \/ ApplyCreateResult(w)
          \/ \E n \in {"RETRYABLE", "SUCCEEDED", "TERMINAL"} :
               cstate' = [cstate EXCEPT ![t][a] = n]
      BY <2>1, FinishEffect
    <3> QED
      BY <3>2, <3>3, <3>4, <3>5, <3>6
  <2>2. CASE UNCHANGED <<attempts, commands>>
    BY <2>2 DEF FactInv, attempts, commands
  <2> QED
    BY <1>6, <2>1, <2>2 DEF WorkerStep, DecideCommandExecution, CreateAnswer,
      InquiryAnswer, Abandon
<1>7. CASE UNCHANGED vars
  BY <1>7 DEF FactInv, vars, attempts, commands
<1> QED
  BY <1>1, <1>2, <1>3, <1>4, <1>5, <1>6, <1>7 DEF Next

-----------------------------------------------------------------------------
(***************************************************************************)
(* A create command leaves PENDING only by a claim; the cancellation of an *)
(* attempt finds it PENDING, and no claim takes it afterwards.             *)
(***************************************************************************)
LEMMA DispatchStep == Base /\ DispatchInv /\ [Next]_vars => DispatchInv'
<1> SUFFICES ASSUME Base, DispatchInv, [Next]_vars PROVE DispatchInv'
  OBVIOUS
<1>1. CASE BookingStep
  <2>1. CASE CancelBooking \/ SweepExpired
    BY <2>1 DEF Base, TypeOK, DispatchInv, CancelBooking, SweepExpired, CancelPending,
       CancelUndispatchedAttempts, UndispatchedAttempts, commands, provider
  <2>2. CASE UNCHANGED <<attempts, commands, provider, worker>>
    BY <2>2 DEF DispatchInv, attempts, commands, provider
  <2> QED
    BY <1>1, <2>1, <2>2 DEF BookingStep, DeadlinePasses, SubmitPaymentProof,
       ConfirmBookingPayment, ApprovePayment, RejectPayment, MarkBookingPaid,
       CompleteBooking, CancelPaidBookingWithRefund, LegacyMove
<1>2. ASSUME NEW a \in Attempts, CreatePayment(a) PROVE DispatchInv'
  BY <1>2 DEF Base, TypeOK, WorkerInv, DispatchInv, CreatePayment, EnqueueTx,
     CreateOrReplayAttempt, Types, provider
<1>3. ASSUME NEW a \in Attempts, ProviderStep(a) PROVE DispatchInv'
  BY <1>3 DEF Base, TypeOK, DispatchInv, ProviderStep, WebhookSessionExpired, ProviderPays,
     ProviderExpires, attempts, commands, provider
<1>4. ASSUME NEW t \in Types, NEW a \in Attempts, LeaseExpires(t, a) PROVE DispatchInv'
  BY <1>4 DEF Base, TypeOK, WorkerInv, DispatchInv, LeaseExpires, Types, attempts, provider
<1>5. ASSUME NEW t \in Types, NEW a \in Attempts, NEW w \in Workers, ClaimNext(w, t, a)
      PROVE DispatchInv'
  <2> DEFINE r == WorkerAt("CLAIMED", t, a, "NONE", "NONE", FALSE)
  <2>1. r.pc = "CLAIMED" /\ r.attempt = a
    BY DEF WorkerAt
  <2>2. worker' = [worker EXCEPT ![w] = r] /\ UNCHANGED <<attempts, provider>>
    BY <1>5 DEF ClaimNext
  <2>3. /\ cstate' = [cstate EXCEPT ![t][a] = "LEASED"]
        /\ cstate[t][a] \in {"PENDING", "RETRYABLE", "LAPSED"}
        /\ attempt[a] # "NONE" /\ (attempt[a] = "CANCELLED" => cstate[t][a] = "LAPSED")
    BY <1>5 DEF ClaimNext, Due, Claimable, Terminal
  <2>4. t = "CREATE" => attempt[a] # "CANCELLED" /\ cstate["INQUIRY"][a] = "NONE"
    BY <2>3 DEF DispatchInv
  <2>5. t = "INQUIRY" => cstate["CREATE"][a] = "SUCCEEDED"
    BY <2>3 DEF DispatchInv
  <2> HIDE DEF r
  <2>6. /\ \A x \in Attempts : x # a => /\ cstate'["CREATE"][x] = cstate["CREATE"][x]
                                        /\ cstate'["INQUIRY"][x] = cstate["INQUIRY"][x]
        /\ cstate'["CREATE"][a] \in {"LEASED", "SUCCEEDED"}
        /\ cstate'["INQUIRY"][a] # "NONE" => cstate'["CREATE"][a] = "SUCCEEDED"
        /\ attempt[a] = "CANCELLED" => FALSE
    BY <2>3, <2>4, <2>5 DEF Base, TypeOK, DispatchInv, Types
  <2> QED
    BY <2>1, <2>2, <2>3, <2>6 DEF Base, TypeOK, WorkerInv, DispatchInv, attempts, provider
<1>6. ASSUME NEW w \in Workers, WorkerStep(w) PROVE DispatchInv'
  <2>1. CASE FinishStep(w)
    <3> DEFINE a == Attempt(w)
               t == Type(w)
    <3>1. /\ a \in Attempts /\ t \in Types /\ cstate[t][a] \in {"LEASED", "LAPSED"}
          /\ worker' = [worker EXCEPT ![w] = Idle] /\ UNCHANGED provider
      BY <2>1, FinishEffect
    <3>2. ApplyCreateResult(w) => t = "CREATE"
      BY DEF Base, WorkerInv, ApplyCreateResult, ApplyCreateProviderResult, EnqueueTx,
         Finishing, Type
    <3>3. /\ t = "CREATE" => /\ attempt[a] \notin {"NONE", "CANCELLED"}
                             /\ cstate["INQUIRY"][a] = "NONE"
          /\ t = "INQUIRY" => /\ attempt[a] \notin {"NONE", "CANCELLED"}
                              /\ cstate["CREATE"][a] = "SUCCEEDED"
      BY <3>1 DEF DispatchInv
    <3>4. \A x \in Attempts :
            attempt'[x] \in {"NONE", "CANCELLED"} => attempt'[x] = attempt[x] /\ x # a
      <4>1. CASE FinalizeGatewayCapture(w)
        BY <3>1, <3>3, <4>1 DEF Base, TypeOK, FinalizeGatewayCapture, RecordCapture, Types
      <4>2. CASE FinishTerminalPayment(w) \/ FinishCreateTimeout(w)
        BY <3>1, <3>3, <4>2 DEF Base, TypeOK, FinishTerminalPayment, FinishCreateTimeout,
          Types
      <4>3. CASE ApplyCreateResult(w)
        BY <3>1, <3>3, <4>3 DEF Base, TypeOK, ApplyCreateResult,
           ApplyCreateProviderResult, EnqueueTx, Types
      <4>4. CASE UNCHANGED attempt
        BY <3>1, <3>3, <4>4 DEF Types
      <4> QED
        BY <2>1, <4>1, <4>2, <4>3, <4>4 DEF FinishStep, FinishNoop, FinishRetryable,
           FinishMalformed, FinishTerminal, BindInquiryIdentity, ApplyInquiryIdentity,
           attempts
    <3>5. /\ \A x \in Attempts : x # a => /\ cstate'["CREATE"][x] = cstate["CREATE"][x]
                                          /\ cstate'["INQUIRY"][x] = cstate["INQUIRY"][x]
          /\ cstate'["CREATE"][a] \in {"RETRYABLE", "SUCCEEDED", "TERMINAL"}
          /\ cstate'["INQUIRY"][a] # "NONE" => cstate'["CREATE"][a] = "SUCCEEDED"
      <4>1. CASE ApplyCreateResult(w)
        BY <3>1, <3>2, <3>3, <4>1 DEF Base, TypeOK, ApplyCreateResult,
           ApplyCreateProviderResult, EnqueueTx, Types
      <4>2. ASSUME NEW n \in {"RETRYABLE", "SUCCEEDED", "TERMINAL"},
                   cstate' = [cstate EXCEPT ![t][a] = n]
            PROVE <3>5!:
        <5> HIDE DEF a, t
        <5> QED
          BY <3>1, <3>3, <4>2 DEF Base, TypeOK, Types
      <4> QED
        BY <2>1, <4>1, <4>2, FinishEffect
    <3> HIDE DEF a, t
    <3>6. \A v \in Workers : worker'[v] = Idle \/ worker'[v] = worker[v]
      BY <3>1 DEF Base, TypeOK
    <3>7. \A x \in Attempts :
            /\ attempt'[x] = "NONE" => cstate'["CREATE"][x] = "NONE"
            /\ attempt'[x] = "CANCELLED" => cstate'["CREATE"][x] = "PENDING"
            /\ cstate'["INQUIRY"][x] # "NONE" => cstate'["CREATE"][x] = "SUCCEEDED"
            /\ session'[x] # "NONE" => cstate'["CREATE"][x] \notin {"NONE", "PENDING"}
      BY <3>1, <3>4, <3>5 DEF DispatchInv, provider
    <3>8. \A v \in Workers : worker'[v].pc # "IDLE" =>
            cstate'["CREATE"][worker'[v].attempt] \notin {"NONE", "PENDING"}
      BY <3>5, <3>6, WorkerFields DEF Base, WorkerInv, DispatchInv
    <3> QED
      BY <3>6, <3>7, <3>8, WorkerFields DEF DispatchInv
  <2>2. CASE Abandon(w)
    <3>1. Attempt(w) \in Attempts /\ cstate["CREATE"][Attempt(w)] \notin {"NONE", "PENDING"}
      BY <2>2 DEF Base, WorkerInv, DispatchInv, Abandon, Attempt
    <3> QED
      BY <2>2, <3>1, WorkerFields DEF Base, TypeOK, DispatchInv, Abandon, attempts, commands
  <2>3. CASE \/ DecideCommandExecution(w)
             \/ \E out \in CreateOutcomes : CreateAnswer(w, out)
             \/ \E out \in InquiryOutcomes : InquiryAnswer(w, out)
    <3>1. worker[w].pc # "IDLE" /\ UNCHANGED <<attempts, commands>>
      BY <2>3 DEF DecideCommandExecution, CreateAnswer, InquiryAnswer, Calling
    <3>2. Attempt(w) \in Attempts /\ cstate["CREATE"][Attempt(w)] \notin {"NONE", "PENDING"}
      BY <3>1 DEF Base, WorkerInv, DispatchInv, Attempt
    <3>3. \A a \in Attempts : session'[a] = session[a] \/ a = Attempt(w)
      BY <2>3 DEF Base, TypeOK, DecideCommandExecution, CreateAnswer, InquiryAnswer,
        provider
    <3>4. \A v \in Workers :
            \/ worker'[v] = worker[v]
            \/ worker'[v].pc # "IDLE" /\ worker'[v].attempt = Attempt(w)
      <4>1. CASE DecideCommandExecution(w)
        BY <4>1 DEF Base, TypeOK, DecideCommandExecution, BeginFinish, WorkerAt
      <4>2. ASSUME NEW out, BeginFinish(w, out) PROVE <3>4!:
        BY <4>2 DEF Base, TypeOK, BeginFinish, WorkerAt
      <4> QED
        BY <2>3, <4>1, <4>2 DEF CreateAnswer, InquiryAnswer
    <3> QED
      BY <3>1, <3>2, <3>3, <3>4 DEF Base, TypeOK, DispatchInv, attempts, commands
  <2> QED
    BY <1>6, <2>1, <2>2, <2>3 DEF WorkerStep
<1>7. CASE UNCHANGED vars
  BY <1>7 DEF DispatchInv, vars, attempts, commands, provider
<1> QED
  BY <1>1, <1>2, <1>3, <1>4, <1>5, <1>6, <1>7 DEF Next

-----------------------------------------------------------------------------
(***************************************************************************)
(* Ledger, status and capture facts agree after every step.                *)
(***************************************************************************)
LEMMA LedgerStep == Base /\ FactInv /\ DispatchInv /\ LedgerInv /\ [Next]_vars => LedgerInv'
<1> SUFFICES ASSUME Base, FactInv, DispatchInv, LedgerInv, [Next]_vars PROVE LedgerInv'
  OBVIOUS
<1> USE DEF LedgerInv, OnTimeCapturePays, PaymentPathsExclusive, NoAttempt
<1>1. CASE BookingStep
  <2>1. NoAttempt => \A a \in Attempts : fact[a] = "NONE"
    BY DEF FactInv
  <2>2. CASE CancelBooking \/ SweepExpired
    BY <2>2 DEF Base, TypeOK, CancelBooking, SweepExpired, CancelPending,
       UndispatchedAttempts, cash
  <2>3. CASE DeadlinePasses \/ CompleteBooking \/ RejectPayment
    BY <2>3 DEF DeadlinePasses, CompleteBooking, RejectPayment, LegacyMove, cash, attempts
  <2>4. CASE SubmitPaymentProof \/ ConfirmBookingPayment
    BY <2>1, <2>4 DEF SubmitPaymentProof, ConfirmBookingPayment, LegacyMove,
       GuardBookingPayment, cash, attempts
  <2>5. CASE ApprovePayment \/ MarkBookingPaid
    BY <2>1, <2>5 DEF ApprovePayment, MarkBookingPaid, LegacyMove, InsertIncomeOnce,
       GuardBookingPayment, attempts
  <2>6. CASE CancelPaidBookingWithRefund
    BY <2>6 DEF CancelPaidBookingWithRefund, LegacyMove, attempts
  <2> QED
    BY <1>1, <2>2, <2>3, <2>4, <2>5, <2>6 DEF BookingStep
<1>2. ASSUME NEW a \in Attempts, CreatePayment(a) PROVE LedgerInv'
  BY <1>2 DEF Base, TypeOK, CreatePayment, EnqueueTx, CreateOrReplayAttempt,
     GuardAttemptIsolation, booking, cash
<1>3. ASSUME NEW a \in Attempts, ProviderStep(a) PROVE LedgerInv'
  BY <1>3 DEF Base, TypeOK, ProviderStep, WebhookSessionExpired, ProviderPays,
     ProviderExpires, booking, cash, attempts
<1>4. CASE UNCHANGED <<booking, cash, attempts>>
  BY <1>4 DEF booking, cash, attempts
<1>5. ASSUME NEW w \in Workers, FinishStep(w) PROVE LedgerInv'
  <2> DEFINE a == Attempt(w)
  <2>1. a \in Attempts /\ cstate[Type(w)][a] \in {"LEASED", "LAPSED"} /\ UNCHANGED cash
    BY <1>5, FinishEffect
  <2>2. CASE FinalizeGatewayCapture(w)
    <3>1. Type(w) = "INQUIRY"
      BY <2>2 DEF Base, WorkerInv, FinalizeGatewayCapture, Finishing, Type
    <3>2. fact[a] = "NONE" /\ attempt[a] # "CAPTURED"
      BY <2>1, <3>1 DEF FactInv
    <3>3. attempt[a] # "NONE"
      BY <2>1, <3>1 DEF DispatchInv
    <3>4. /\ attempt' = [attempt EXCEPT ![a] = "CAPTURED"]
          /\ fact' = [fact EXCEPT ![a] = IF LateCapture(w) THEN "LATE" ELSE "ON_TIME"]
          /\ LateCapture(w) \/ status = "PENDING_PAYMENT"
          /\ status' = IF LateCapture(w) THEN status ELSE "PAID"
      BY <2>1, <2>2, <3>2 DEF Base, TypeOK, FinalizeGatewayCapture, RecordCapture
    <3>5. income' = income /\ income \in Nat
      BY <2>1 DEF Base, TypeOK, cash
    <3> HIDE DEF a
    <3> QED
      BY <2>1, <3>2, <3>3, <3>4, <3>5 DEF Base, TypeOK
  <2>3. CASE ApplyCreateResult(w)
    <3>1. Type(w) = "CREATE"
      BY <2>3 DEF Base, WorkerInv, ApplyCreateResult, ApplyCreateProviderResult,
         EnqueueTx, Finishing, Type
    <3>2. attempt[a] # "NONE"
      BY <2>1, <3>1 DEF DispatchInv
    <3>3. \A x \in Attempts : attempt'[x] = "NONE" <=> attempt[x] = "NONE"
      BY <2>1, <2>3, <3>2 DEF Base, TypeOK, ApplyCreateResult, ApplyCreateProviderResult,
         EnqueueTx
    <3> QED
      BY <2>1, <2>3, <3>3 DEF ApplyCreateResult, ApplyCreateProviderResult, EnqueueTx,
         booking, cash
  <2>4. CASE /\ UNCHANGED <<booking, fact>>
             /\ \A x \in Attempts : attempt'[x] = "NONE" <=> attempt[x] = "NONE"
    BY <2>1, <2>4 DEF booking, cash
  <2>5. CASE FinishTerminalPayment(w) \/ FinishCreateTimeout(w)
    <3>1. \A x \in Attempts : attempt'[x] = "NONE" <=> attempt[x] = "NONE"
      BY <2>5 DEF Base, TypeOK, FinishTerminalPayment, FinishCreateTimeout
    <3> QED
      BY <2>4, <2>5, <3>1 DEF FinishTerminalPayment, FinishCreateTimeout
  <2>6. CASE UNCHANGED <<booking, attempts>>
    BY <2>1, <2>6 DEF booking, cash, attempts
  <2>7. CASE BindInquiryIdentity(w)
    BY <2>1, <2>7 DEF BindInquiryIdentity, ApplyInquiryIdentity, booking, cash
  <2> QED
    BY <1>5, <2>2, <2>3, <2>5, <2>6, <2>7 DEF FinishStep, FinishNoop, FinishRetryable,
       FinishMalformed, FinishTerminal
<1> QED
  BY <1>1, <1>2, <1>3, <1>4, <1>5 DEF Next, LeaseExpires, ClaimNext, WorkerStep,
     DecideCommandExecution, CreateAnswer, InquiryAnswer, Abandon, vars

-----------------------------------------------------------------------------
\* The inductive invariant.
IInv == Base /\ FactInv /\ DispatchInv /\ LedgerInv

(***************************************************************************)
(* IInv holds of every reachable state.                                    *)
(***************************************************************************)
LEMMA InvariantHolds == Spec => []IInv
<1>1. Init => Base
  <2> SUFFICES ASSUME Init PROVE Base
    OBVIOUS
  <2>1. worker \in [Workers -> WorkerStates] /\ WorkerInv
    BY WorkerFields DEF Init, WorkerInv
  <2> QED
    BY <2>1 DEF Init, Base, TypeOK
<1>2. Init => FactInv /\ DispatchInv
  BY WorkerFields DEF Init, FactInv, DispatchInv, Types
<1>3. Init => LedgerInv
  BY DEF Init, LedgerInv, OnTimeCapturePays, PaymentPathsExclusive, NoAttempt
<1>4. IInv /\ [Next]_vars => IInv'
  BY BaseStep, FactStep, DispatchStep, LedgerStep DEF IInv
<1> QED
  BY <1>1, <1>2, <1>3, <1>4, PTL DEF Spec, IInv

(***************************************************************************)
(* The gateway pays a booking exactly when it recorded a capture in time   *)
(* (FinalizeGatewayCaptureTx), for any number of attempts and workers.     *)
(***************************************************************************)
THEOREM OnTimeCaptureCorrect == Spec => []OnTimeCapturePays
<1>1. IInv => OnTimeCapturePays
  BY DEF IInv, LedgerInv
<1> QED
  BY <1>1, InvariantHolds, PTL

(***************************************************************************)
(* A booking with a gateway attempt has no income row and is on no step of *)
(* the legacy path (the isolation triggers of migrations 028 and 030).     *)
(***************************************************************************)
THEOREM PathsExclusiveCorrect == Spec => []PaymentPathsExclusive
<1>1. IInv => PaymentPathsExclusive
  BY DEF IInv, LedgerInv
<1> QED
  BY <1>1, InvariantHolds, PTL

(***************************************************************************)
(* A cancelled attempt has no session at the provider and no worker on its *)
(* create command (cancelUndispatchedPaymentAttemptsTx against claimNext). *)
(***************************************************************************)
THEOREM CancelledCorrect == Spec => []CancelledNeverDispatched
<1>1. IInv => CancelledNeverDispatched
  BY GatewayAssumption DEF IInv, Base, WorkerInv, DispatchInv, CancelledNeverDispatched,
    Attempt
<1> QED
  BY <1>1, InvariantHolds, PTL

(***************************************************************************)
(* A step that pays the booking through the gateway captures an attempt    *)
(* that was still pending (RecordCaptureTx, FinalizeGatewayCaptureTx).     *)
(***************************************************************************)
THEOREM PaidByLiveCorrect == Spec => PaidByLiveAttempt
<1> DEFINE Pays == (status # "PAID" /\ status' = "PAID" /\ income' = 0) =>
                     /\ status = "PENDING_PAYMENT"
                     /\ \E a \in Attempts : attempt[a] = "PENDING" /\ attempt'[a] = "CAPTURED"
<1>1. IInv /\ [Next]_vars => [Pays]_vars
  <2> SUFFICES ASSUME IInv, Next, status # "PAID", status' = "PAID", income' = 0
               PROVE /\ status = "PENDING_PAYMENT"
                     /\ \E a \in Attempts : attempt[a] = "PENDING" /\ attempt'[a] = "CAPTURED"
    OBVIOUS
  <2>1. PICK w \in Workers : FinalizeGatewayCapture(w)
    <3>1. ~BookingStep
      BY DEF BookingStep, DeadlinePasses, SubmitPaymentProof, ConfirmBookingPayment,
         ApprovePayment, RejectPayment, MarkBookingPaid, CompleteBooking, InsertIncomeOnce,
         CancelPaidBookingWithRefund, LegacyMove, CancelBooking, SweepExpired, CancelPending
    <3>2. \A a \in Attempts : ~CreatePayment(a) /\ ~ProviderStep(a)
      BY DEF CreatePayment, EnqueueTx, ProviderStep, WebhookSessionExpired, ProviderPays,
         ProviderExpires, booking
    <3>3. \A t \in Types, a \in Attempts :
            ~LeaseExpires(t, a) /\ \A w \in Workers : ~ClaimNext(w, t, a)
      BY DEF LeaseExpires, ClaimNext, booking
    <3>4. \A w \in Workers : WorkerStep(w) => FinalizeGatewayCapture(w)
      BY DEF WorkerStep, DecideCommandExecution, CreateAnswer, InquiryAnswer, Abandon,
         FinishStep, FinishNoop, FinishRetryable, FinishMalformed, FinishTerminal,
         FinishCreateTimeout, ApplyCreateResult, ApplyCreateProviderResult, EnqueueTx,
         BindInquiryIdentity, ApplyInquiryIdentity, FinishTerminalPayment, booking
    <3> QED
      BY <3>1, <3>2, <3>3, <3>4 DEF Next
  <2> DEFINE a == Attempt(w)
  <2>2. /\ a \in Attempts /\ Type(w) = "INQUIRY"
        /\ cstate["INQUIRY"][a] \in {"LEASED", "LAPSED"}
    BY <2>1, FinishEffect DEF IInv, Base, WorkerInv, FinalizeGatewayCapture, Finishing,
      Type,
       FinishStep
  <2>3. fact[a] = "NONE"
    BY <2>2 DEF IInv, FactInv
  <2>4. ~LateCapture(w) /\ status = "PENDING_PAYMENT"
    BY <2>1 DEF FinalizeGatewayCapture
  <2>5. attempt[a] = "PENDING"
    BY <2>3, <2>4 DEF LateCapture
  <2>6. attempt'[a] = "CAPTURED"
    BY <2>1, <2>2 DEF IInv, Base, TypeOK, FinalizeGatewayCapture, RecordCapture
  <2> QED
    BY <2>2, <2>4, <2>5, <2>6
<1>2. PaidByLiveAttempt <=> [][Pays]_vars
  BY DEF PaidByLiveAttempt
<1> HIDE DEF Pays
<1> QED
  BY <1>1, <1>2, InvariantHolds, PTL DEF Spec

(***************************************************************************)
(* The gateway, the legacy path, cancellation and the sweep together move  *)
(* the booking and its cash only as BookingLifecycle allows.               *)
(***************************************************************************)
THEOREM GatewayRefinesLifecycle == Spec => GatewayFollowsLifecycle
<1>1. Init => Lifecycle!Init
  BY DEF Init, Lifecycle!Init
<1>2. IInv /\ [Next]_vars => [Lifecycle!Next]_(Lifecycle!vars)
  <2> SUFFICES ASSUME IInv, [Next]_vars
               PROVE  Lifecycle!Next \/ UNCHANGED <<status, income, refund>>
    BY DEF Lifecycle!vars
  <2> USE DEF Lifecycle!Next, Lifecycle!Move
  <2>1. /\ income \in {0, 1}
        /\ status \in {"PENDING_PAYMENT", "WAITING_VERIFICATION", "CONFIRMED"} => income = 0
    BY DEF IInv, LedgerInv
  <2>2. CASE BookingStep
    <3>1. CASE ApprovePayment \/ MarkBookingPaid
      BY <2>1, <3>1 DEF ApprovePayment, MarkBookingPaid, LegacyMove, InsertIncomeOnce,
         Lifecycle!PayOwner
    <3>2. CASE SubmitPaymentProof \/ ConfirmBookingPayment \/ RejectPayment
      BY <3>2 DEF SubmitPaymentProof, ConfirmBookingPayment, RejectPayment, LegacyMove,
        cash,
         Lifecycle!Declare
    <3>3. CASE CompleteBooking \/ DeadlinePasses
      BY <3>3 DEF CompleteBooking, DeadlinePasses, LegacyMove, cash, Lifecycle!Complete
    <3>4. CASE CancelBooking \/ SweepExpired
      BY <3>4 DEF CancelBooking, SweepExpired, CancelPending, cash, Lifecycle!Cancel
    <3>5. CASE CancelPaidBookingWithRefund
      BY <2>1, <3>5 DEF CancelPaidBookingWithRefund, LegacyMove, Lifecycle!Refund
    <3> QED
      BY <2>2, <3>1, <3>2, <3>3, <3>4, <3>5 DEF BookingStep
  <2>3. ASSUME NEW w \in Workers, FinalizeGatewayCapture(w)
        PROVE  Lifecycle!Next \/ UNCHANGED <<status, income, refund>>
    BY <2>1, <2>3 DEF FinalizeGatewayCapture, cash, Lifecycle!PayGateway
  <2>4. CASE UNCHANGED <<booking, cash>>
    BY <2>4 DEF booking, cash
  <2> QED
    BY <2>2, <2>3, <2>4 DEF Next, CreatePayment, EnqueueTx, ProviderStep,
       WebhookSessionExpired, ProviderPays, ProviderExpires, LeaseExpires, ClaimNext,
       WorkerStep, DecideCommandExecution, CreateAnswer, InquiryAnswer, Abandon,
       FinishStep, FinishNoop, FinishRetryable, FinishMalformed, FinishTerminal,
       FinishCreateTimeout, ApplyCreateResult, ApplyCreateProviderResult, EnqueueTx,
       BindInquiryIdentity, ApplyInquiryIdentity, FinishTerminalPayment, vars
<1> QED
  BY <1>1, <1>2, InvariantHolds, PTL DEF Spec, GatewayFollowsLifecycle, Lifecycle!Spec
-----------------------------------------------------------------------------
(***************************************************************************)
(* What one step does to the attempts: one that becomes open was open, or  *)
(* is created while none is; one that becomes captured is so alone.        *)
(***************************************************************************)
LEMMA AttemptEffect ==
    ASSUME IInv, [Next]_vars
    PROVE  \/ attempt' = attempt
           \/ /\ \A a \in Attempts : attempt'[a] \in Open => attempt[a] \in Open
              /\ \A a \in Attempts : attempt'[a] = "CAPTURED" => attempt[a] = "CAPTURED"
           \/ \E a \in Attempts : /\ RejectActiveAttempt
                                  /\ attempt' = [attempt EXCEPT ![a] = "CREATED"]
           \/ \E a \in Attempts : /\ \A o \in Attempts \ {a} : attempt[o] # "CAPTURED"
                                  /\ attempt' = [attempt EXCEPT ![a] = "CAPTURED"]
<1>1. CASE BookingStep
  BY <1>1 DEF IInv, Base, TypeOK, Open, BookingStep, DeadlinePasses, SubmitPaymentProof,
     ConfirmBookingPayment, ApprovePayment, RejectPayment, MarkBookingPaid, CompleteBooking,
     CancelPaidBookingWithRefund, LegacyMove, CancelBooking, SweepExpired, CancelPending,
     attempts
<1>2. ASSUME NEW a \in Attempts, CreatePayment(a)
      PROVE RejectActiveAttempt /\ attempt' = [attempt EXCEPT ![a] = "CREATED"]
  BY <1>2 DEF CreatePayment, CreateOrReplayAttempt
<1>3. ASSUME NEW a \in Attempts, ProviderStep(a)
      PROVE \/ attempt' = attempt
            \/ attempt' = [attempt EXCEPT ![a] = "EXPIRED"]
  BY <1>3 DEF ProviderStep, WebhookSessionExpired, ProviderPays, ProviderExpires, attempts
<1>4. ASSUME NEW w \in Workers, WorkerStep(w)
      PROVE \/ attempt' = attempt
            \/ \E a \in Attempts : attempt[a] \in Open /\ attempt' = [attempt EXCEPT ![a] = "PENDING"]
            \/ \E a \in Attempts : attempt' = [attempt EXCEPT ![a] = "EXPIRED"]
            \/ \E a \in Attempts : /\ \A o \in Attempts \ {a} : attempt[o] # "CAPTURED"
                                   /\ attempt' = [attempt EXCEPT ![a] = "CAPTURED"]
  <2>1. CASE FinishStep(w)
    <3> PICK a : a = Attempt(w)
      OBVIOUS
    <3>1. a \in Attempts /\ attempt \in [Attempts -> {"NONE"} \cup Open \cup Terminal]
      BY <2>1, FinishEffect DEF IInv, Base, TypeOK
    <3>2. CASE FinishCreateTimeout(w)
      BY <3>1, <3>2 DEF FinishCreateTimeout, Open
    <3>3. CASE ApplyCreateResult(w)
      <4>1. Type(w) = "CREATE" /\ cstate["CREATE"][a] \in {"LEASED", "LAPSED"}
        BY <2>1, <3>3, FinishEffect DEF IInv, Base, WorkerInv, ApplyCreateResult, Finishing, Type
      <4>2. attempt[a] # "NONE"
        BY <3>1, <4>1 DEF IInv, DispatchInv
      <4> QED
        BY <3>1, <3>3, <4>2 DEF ApplyCreateResult, ApplyCreateProviderResult
    <3>4. CASE FinishTerminalPayment(w)
      BY <3>1, <3>4 DEF FinishTerminalPayment
    <3>5. CASE FinalizeGatewayCapture(w)
      BY <3>1, <3>5 DEF FinalizeGatewayCapture, RecordCapture
    <3> QED
      BY <2>1, <3>2, <3>3, <3>4, <3>5 DEF FinishStep, FinishNoop, FinishRetryable,
         FinishMalformed, FinishTerminal, BindInquiryIdentity, attempts
  <2> QED
    BY <1>4, <2>1 DEF WorkerStep, DecideCommandExecution, CreateAnswer, InquiryAnswer, Abandon,
       attempts
<1>5. ASSUME NEW t \in Types, NEW a \in Attempts,
             LeaseExpires(t, a) \/ \E w \in Workers : ClaimNext(w, t, a)
      PROVE attempt' = attempt
  BY <1>5 DEF LeaseExpires, ClaimNext, attempts
<1>6. CASE UNCHANGED vars
  BY <1>6 DEF vars, attempts
<1>7. attempt \in [Attempts -> {"NONE"} \cup Open \cup Terminal]
  BY DEF IInv, Base, TypeOK
<1>8. ASSUME NEW a \in Attempts,
             \/ attempt' = [attempt EXCEPT ![a] = "EXPIRED"]
             \/ attempt[a] \in Open /\ attempt' = [attempt EXCEPT ![a] = "PENDING"]
      PROVE /\ \A x \in Attempts : attempt'[x] \in Open => attempt[x] \in Open
            /\ \A x \in Attempts : attempt'[x] = "CAPTURED" => attempt[x] = "CAPTURED"
  BY <1>7, <1>8 DEF Open
<1> QED
  BY <1>1, <1>2, <1>3, <1>4, <1>5, <1>6, <1>8 DEF Next

(***************************************************************************)
(* At most one attempt of a booking is open, and at most one is captured,  *)
(* for any number of attempts and workers (RejectActiveAttempt, the unique *)
(* index on captured attempts).                                            *)
(***************************************************************************)
THEOREM OneOpenCorrect == Spec => []OneOpenAttempt
<1> DEFINE Single == \A a, o \in Attempts : a # o =>
                       /\ ~(attempt[a] \in Open /\ attempt[o] \in Open)
                       /\ ~(attempt[a] = "CAPTURED" /\ attempt[o] = "CAPTURED")
<1>1. Init => Single
  BY DEF Init, Open
<1>2. IInv /\ Single /\ [Next]_vars => Single'
  <2> SUFFICES ASSUME IInv, Single, [Next]_vars PROVE Single'
    OBVIOUS
  <2>1. attempt \in [Attempts -> {"NONE"} \cup Open \cup Terminal]
    BY DEF IInv, Base, TypeOK
  <2>2. CASE attempt' = attempt
    BY <2>2
  <2>3. CASE /\ \A a \in Attempts : attempt'[a] \in Open => attempt[a] \in Open
             /\ \A a \in Attempts : attempt'[a] = "CAPTURED" => attempt[a] = "CAPTURED"
    BY <2>3
  <2>4. ASSUME NEW a \in Attempts, RejectActiveAttempt,
               attempt' = [attempt EXCEPT ![a] = "CREATED"]
        PROVE Single'
    BY <2>1, <2>4 DEF RejectActiveAttempt
  <2>5. ASSUME NEW a \in Attempts, \A o \in Attempts \ {a} : attempt[o] # "CAPTURED",
               attempt' = [attempt EXCEPT ![a] = "CAPTURED"]
        PROVE Single'
    BY <2>1, <2>5 DEF Open
  <2> HIDE DEF Single
  <2> QED
    BY <2>2, <2>3, <2>4, <2>5, AttemptEffect
<1>3. IInv /\ Single => OneOpenAttempt
  BY DEF IInv, FactInv, OneOpenAttempt
<1> HIDE DEF Single
<1> QED
  BY <1>1, <1>2, <1>3, InvariantHolds, PTL DEF Spec
-----------------------------------------------------------------------------
(***************************************************************************)
(* What no step takes back: a session at the provider, a payment, and the  *)
(* end of an attempt.                                                      *)
(***************************************************************************)
Kept(a) ==
    /\ session[a] # "NONE" => session'[a] # "NONE"
    /\ paid[a] => paid'[a]
    /\ attempt[a] \in Terminal => attempt'[a] \in Terminal

\* A finishing step leaves the provider alone and ends no ended attempt again.
LEMMA FinishAttempt ==
    ASSUME IInv, NEW w \in Workers, FinishStep(w), NEW x \in Attempts
    PROVE  /\ attempt[x] \in Terminal => attempt'[x] \in Terminal
           /\ x # Attempt(w) => /\ attempt'[x] = attempt[x] /\ identity'[x] = identity[x]
                                /\ fact'[x] = fact[x]
                                /\ \A t \in Types : cstate'[t][x] = cstate[t][x]
<1> DEFINE a == Attempt(w)
           t == Type(w)
<1>1. a \in Attempts /\ t \in Types /\ Base
  BY FinishEffect DEF IInv
<1>2. /\ attempt \in [Attempts -> {"NONE"} \cup Open \cup Terminal]
      /\ identity \in [Attempts -> {"NONE", "SESSION", "REQUEST"}]
      /\ fact \in [Attempts -> {"NONE", "ON_TIME", "LATE"}]
      /\ DOMAIN cstate = Types /\ \A u \in Types : DOMAIN cstate[u] = Attempts
  BY <1>1 DEF Base, TypeOK
<1>3. CASE ApplyCreateResult(w)
  <2> HIDE DEF a, t
  <2>1. ApplyCreateProviderResult(a) /\ UNCHANGED fact
    BY <1>3 DEF ApplyCreateResult, a
  <2>2. \/ cstate' = [cstate EXCEPT !["CREATE"][a] = "SUCCEEDED"]
        \/ \E n : cstate' = [cstate EXCEPT !["CREATE"][a] = "SUCCEEDED", !["INQUIRY"][a] = n]
    BY <1>3 DEF ApplyCreateResult, a
  <2>3. x # a => \A u \in Types : cstate'[u][x] = cstate[u][x]
    BY <1>1, <1>2, <2>2 DEF Types
  <2>4. /\ attempt[x] \in Terminal => attempt'[x] \in Terminal
        /\ x # a => attempt'[x] = attempt[x] /\ identity'[x] = identity[x]
    BY <1>1, <1>2, <2>1 DEF ApplyCreateProviderResult
  <2> QED
    BY <2>1, <2>3, <2>4 DEF a
<1>4. CASE ~ApplyCreateResult(w)
  <2>1. PICK n \in {"RETRYABLE", "SUCCEEDED", "TERMINAL"} : cstate' = [cstate EXCEPT ![t][a] = n]
    BY <1>4, <1>1, FinishEffect
  <2>2. x # a => \A u \in Types : cstate'[u][x] = cstate[u][x]
    BY <1>1, <1>2, <2>1
  <2>3. CASE FinalizeGatewayCapture(w)
    BY <1>1, <1>2, <2>2, <2>3 DEF FinalizeGatewayCapture, RecordCapture, Terminal
  <2>4. CASE FinishTerminalPayment(w) \/ FinishCreateTimeout(w)
    BY <1>1, <1>2, <2>2, <2>4 DEF FinishTerminalPayment, FinishCreateTimeout, Terminal
  <2>5. CASE BindInquiryIdentity(w)
    BY <1>1, <1>2, <2>2, <2>5 DEF BindInquiryIdentity, ApplyInquiryIdentity
  <2>6. CASE FinishNoop(w) \/ FinishRetryable(w) \/ FinishMalformed(w) \/ FinishTerminal(w)
    BY <2>2, <2>6 DEF FinishNoop, FinishRetryable, FinishMalformed, FinishTerminal, attempts
  <2> QED
    BY <1>4, <2>3, <2>4, <2>5, <2>6 DEF FinishStep
<1> QED
  BY <1>3, <1>4

LEMMA KeptStep == ASSUME IInv, [Next]_vars, NEW a \in Attempts PROVE Kept(a)
<1>1. /\ attempt \in [Attempts -> {"NONE"} \cup Open \cup Terminal]
      /\ session \in [Attempts -> {"NONE", "OPEN", "EXPIRED"}] /\ paid \in [Attempts -> BOOLEAN]
  BY DEF IInv, Base, TypeOK
<1> USE DEF Kept
<1>2. CASE BookingStep
  BY <1>1, <1>2 DEF BookingStep, DeadlinePasses, SubmitPaymentProof, ConfirmBookingPayment,
     ApprovePayment, RejectPayment, MarkBookingPaid, CompleteBooking, CancelPaidBookingWithRefund,
     LegacyMove, CancelBooking, SweepExpired, CancelPending, attempts, provider, Terminal
<1>3. ASSUME NEW x \in Attempts, CreatePayment(x) \/ ProviderStep(x) PROVE Kept(a)
  <2>1. CASE CreatePayment(x)
    BY <1>1, <2>1 DEF CreatePayment, CreateOrReplayAttempt, provider, Terminal
  <2>2. CASE ProviderStep(x)
    BY <1>1, <2>2 DEF ProviderStep, WebhookSessionExpired, ProviderPays, ProviderExpires,
       attempts, provider, Terminal
  <2> QED
    BY <1>3, <2>1, <2>2
<1>4. ASSUME NEW t \in Types, NEW x \in Attempts,
             LeaseExpires(t, x) \/ \E w \in Workers : ClaimNext(w, t, x)
      PROVE Kept(a)
  BY <1>4 DEF LeaseExpires, ClaimNext, attempts, provider
<1>5. ASSUME NEW w \in Workers, WorkerStep(w) PROVE Kept(a)
  <2>1. CASE FinishStep(w)
    BY <2>1, FinishAttempt, FinishEffect DEF IInv, provider
  <2>2. CASE Abandon(w)
    BY <1>1, <2>2 DEF Abandon, OpenedSession, attempts
  <2>3. ASSUME NEW out \in CreateOutcomes, CreateAnswer(w, out) PROVE Kept(a)
    BY <1>1, <2>3 DEF CreateAnswer, OpenedSession, attempts
  <2>4. CASE DecideCommandExecution(w) \/ \E out \in InquiryOutcomes : InquiryAnswer(w, out)
    BY <2>4 DEF DecideCommandExecution, InquiryAnswer, attempts, provider
  <2> QED
    BY <1>5, <2>1, <2>2, <2>3, <2>4 DEF WorkerStep
<1>6. CASE UNCHANGED vars
  BY <1>6 DEF vars, attempts, provider
<1> QED
  BY <1>2, <1>3, <1>4, <1>5, <1>6 DEF Next

(***************************************************************************)
(* A worker that carries an answer keeps carrying a true one.              *)
(***************************************************************************)
TrueAnswer(r) ==
    /\ r.out # "NONE" => r.pc = "FINISH"
    /\ r.out = "SUCCESS" => session[r.attempt] # "NONE"
    /\ r.out = "CAPTURE" => paid[r.attempt]
    /\ r.out = "NOOP" => attempt[r.attempt] \in Terminal


LEMMA AnswerStep == IInv /\ AnswerInv /\ [Next]_vars => AnswerInv'
<1> SUFFICES ASSUME IInv, AnswerInv, [Next]_vars, NEW v \in Workers PROVE TrueAnswer(worker[v])'
  BY DEF AnswerInv, TrueAnswer, Attempt
<1>1. /\ worker \in [Workers -> WorkerStates] /\ worker[v] \in WorkerStates
      /\ worker[v].pc # "IDLE" => worker[v].attempt \in Attempts
      /\ TrueAnswer(worker[v])
  BY DEF IInv, Base, TypeOK, WorkerInv, AnswerInv, TrueAnswer, Attempt
<1>2. CASE worker'[v].out = "NONE"
  BY <1>2 DEF TrueAnswer
<1>3. CASE worker'[v] = worker[v]
  <2>1. CASE worker[v].out = "NONE"
    BY <1>3, <2>1 DEF TrueAnswer
  <2>2. CASE worker[v].out # "NONE"
    <3>1. worker[v].attempt \in Attempts
      BY <1>1, <2>2 DEF TrueAnswer
    <3>2. Kept(worker[v].attempt)
      BY <3>1, KeptStep
    <3> QED
      BY <1>1, <1>3, <3>2 DEF TrueAnswer, Kept
  <2> QED
    BY <2>1, <2>2
<1>4. CASE BookingStep \/ UNCHANGED vars \/ \E a \in Attempts : CreatePayment(a) \/ ProviderStep(a)
  <2>1. worker' = worker
    BY <1>4 DEF BookingStep, DeadlinePasses, SubmitPaymentProof, ConfirmBookingPayment,
       ApprovePayment, RejectPayment, MarkBookingPaid, CompleteBooking, CancelPaidBookingWithRefund,
       LegacyMove, CancelBooking, SweepExpired, CancelPending, vars, CreatePayment, ProviderStep,
       WebhookSessionExpired, ProviderPays, ProviderExpires
  <2> QED
    BY <1>3, <2>1
<1>5. ASSUME NEW t \in Types, NEW a \in Attempts,
             LeaseExpires(t, a) \/ \E w \in Workers : ClaimNext(w, t, a)
      PROVE TrueAnswer(worker[v])'
  <2>1. worker'[v] = worker[v] \/ worker'[v] = WorkerAt("CLAIMED", t, a, "NONE", "NONE", FALSE)
    BY <1>1, <1>5 DEF LeaseExpires, ClaimNext
  <2> QED
    BY <1>2, <1>3, <2>1 DEF WorkerAt
<1>6. ASSUME NEW w \in Workers, WorkerStep(w) PROVE TrueAnswer(worker[v])'
  <2>1. CASE FinishStep(w) \/ Abandon(w)
    <3>1. worker' = [worker EXCEPT ![w] = Idle]
      BY <2>1, FinishEffect DEF Abandon, IInv
    <3>2. worker'[v] = worker[v] \/ worker'[v] = Idle
      BY <1>1, <3>1
    <3> QED
      BY <1>2, <1>3, <3>2 DEF Idle, WorkerAt
  <2>2. CASE v # w /\ ~FinishStep(w) /\ ~Abandon(w)
    <3>1. worker'[v] = worker[v]
      BY <1>1, <1>6, <2>2 DEF WorkerStep, DecideCommandExecution, CreateAnswer, InquiryAnswer, BeginFinish
    <3> QED
      BY <1>3, <3>1
  <2>3. CASE v = w /\ DecideCommandExecution(w)
    <3>1. \/ worker'[v].out = "NONE"
          \/ /\ worker'[v].out = "NOOP" /\ worker'[v].pc = "FINISH" /\ worker'[v].attempt = Attempt(v)
             /\ attempt[Attempt(v)] \in Terminal /\ attempt' = attempt
      BY <1>1, <2>3 DEF DecideCommandExecution, BeginFinish, WorkerAt, attempts
    <3> QED
      BY <1>2, <3>1 DEF TrueAnswer
  <2>4. ASSUME NEW out \in CreateOutcomes, v = w, CreateAnswer(w, out) PROVE TrueAnswer(worker[v])'
    <3>1. worker'[v].out = out /\ worker'[v].pc = "FINISH" /\ worker'[v].attempt = Attempt(v)
      BY <1>1, <2>4 DEF CreateAnswer, BeginFinish, WorkerAt
    <3>2. Attempt(v) \in Attempts
      BY <1>1, <2>4 DEF CreateAnswer, Calling, Attempt
    <3>3. out = "SUCCESS" => session'[Attempt(v)] # "NONE"
      BY <2>4, <3>2 DEF CreateAnswer, OpenedSession, IInv, Base, TypeOK
    <3> QED
      BY <3>1, <3>3 DEF TrueAnswer, CreateOutcomes
  <2>5. ASSUME NEW out \in InquiryOutcomes, v = w, InquiryAnswer(w, out) PROVE TrueAnswer(worker[v])'
    <3>1. worker'[v].out = out /\ worker'[v].pc = "FINISH" /\ worker'[v].attempt = Attempt(v)
      BY <1>1, <2>5 DEF InquiryAnswer, BeginFinish, WorkerAt
    <3>2. out = "CAPTURE" => paid'[Attempt(v)]
      BY <2>5 DEF InquiryAnswer, DecideInquiryResponse, provider
    <3> QED
      BY <3>1, <3>2 DEF TrueAnswer, InquiryOutcomes
  <2> QED
    BY <1>6, <2>1, <2>2, <2>3, <2>4, <2>5 DEF WorkerStep
<1> QED
  BY <1>4, <1>5, <1>6 DEF Next

(***************************************************************************)
(* Attempt and commands keep together in every step.  The commands of the  *)
(* other attempts stay as they are; of the worker's own attempt, every     *)
(* finisher leaves what its outcome says.                                  *)
(***************************************************************************)
LEMMA CommandsStay ==
    ASSUME NEW a \in Attempts, CommandsFollow(a), Kept(a),
           attempt'[a] = attempt[a], identity'[a] = identity[a], fact'[a] = fact[a],
           \A t \in Types : cstate'[t][a] = cstate[t][a]
    PROVE  CommandsFollow(a)'
BY DEF CommandsFollow, Kept, Types

\* A command is claimed or its lease lapses.
LEMMA LeaseMoves ==
    ASSUME IInv, NEW a \in Attempts, CommandsFollow(a), NEW t \in Types,
           cstate[t][a] \notin {"NONE", "SUCCEEDED", "TERMINAL"},
           NEW next \in {"LEASED", "LAPSED"}, cstate' = [cstate EXCEPT ![t][a] = next],
           UNCHANGED <<attempts, provider>>
    PROVE  CommandsFollow(a)'
<1>1. /\ cstate'[t][a] = next
      /\ \A u \in Types \ {t} : cstate'[u][a] = cstate[u][a]
  BY DEF IInv, Base, TypeOK
<1>2. CASE t = "CREATE"
  BY <1>1, <1>2 DEF CommandsFollow, Types, attempts, provider
<1>3. CASE t = "INQUIRY"
  BY <1>1, <1>3 DEF CommandsFollow, Types, attempts, provider
<1> QED
  BY <1>2, <1>3 DEF Types

LEMMA FinishOwn ==
    ASSUME IInv, AnswerInv, NEW w \in Workers, FinishStep(w),
           NEW a \in Attempts, a = Attempt(w), NEW t \in Types, t = Type(w), CommandsFollow(a)
    PROVE  CommandsFollow(a)'
<1>1. cstate[t][a] \in {"LEASED", "LAPSED"} /\ session' = session /\ paid' = paid /\ Base
  BY FinishEffect DEF IInv, provider
<1>2. /\ attempt \in [Attempts -> {"NONE"} \cup Open \cup Terminal]
      /\ identity \in [Attempts -> {"NONE", "SESSION", "REQUEST"}]
      /\ fact \in [Attempts -> {"NONE", "ON_TIME", "LATE"}]
      /\ DOMAIN cstate = Types /\ \A u \in Types : DOMAIN cstate[u] = Attempts
  BY <1>1 DEF Base, TypeOK
<1>3. /\ worker[w].out \in {"SUCCESS", "TIMEOUT"} => t = "CREATE"
      /\ worker[w].out \in {"BIND", "CAPTURE", "TERMINAL_PAYMENT"} => t = "INQUIRY"
  <2>1. worker[w].pc # "IDLE"
    BY DEF FinishStep, FinishNoop, FinishRetryable, FinishMalformed, FinishTerminal,
       FinishCreateTimeout, ApplyCreateResult, BindInquiryIdentity, FinishTerminalPayment,
       FinalizeGatewayCapture, Finishing
  <2> QED
    BY <1>1, <2>1 DEF Base, WorkerInv, Type
<1>4. attempt[a] # "NONE" /\ (cstate["INQUIRY"][a] # "NONE" => cstate["CREATE"][a] = "SUCCEEDED")
  BY <1>1 DEF IInv, DispatchInv, Types
<1>5. ASSUME NEW next, cstate' = [cstate EXCEPT ![t][a] = next]
      PROVE  /\ cstate'[t][a] = next
             /\ \A u \in Types \ {t} : cstate'[u][a] = cstate[u][a]
  BY <1>2, <1>5
\* The command ends with an attempt that is not pending, or goes on.
<1>6. ASSUME UNCHANGED attempts, NEW next \in {"RETRYABLE", "SUCCEEDED", "TERMINAL"},
             cstate' = [cstate EXCEPT ![t][a] = next],
             next = "SUCCEEDED" => attempt[a] \in Terminal
      PROVE  CommandsFollow(a)'
  <2>1. cstate'[t][a] = next /\ \A u \in Types \ {t} : cstate'[u][a] = cstate[u][a]
    BY <1>5, <1>6
  <2>2. CASE t = "CREATE"
    BY <1>1, <1>4, <1>6, <2>1, <2>2 DEF CommandsFollow, Types, Terminal, attempts
  <2>3. CASE t = "INQUIRY"
    BY <1>1, <1>4, <1>6, <2>1, <2>3 DEF CommandsFollow, Types, Terminal, attempts
  <2> QED
    BY <2>2, <2>3 DEF Types
<1>7. CASE FinishNoop(w)
  <2>1. attempt[a] \in Terminal
    BY <1>7 DEF FinishNoop, Finishing, AnswerInv
  <2> QED
    BY <1>6, <1>7, <2>1 DEF FinishNoop, FinishLease
<1>8. CASE FinishRetryable(w) \/ FinishTerminal(w)
  BY <1>6, <1>8 DEF FinishRetryable, FinishTerminal, FinishLease, UnlessTerminal
<1>9. CASE FinishMalformed(w)
  BY <1>6, <1>9 DEF FinishMalformed, FinishLease, UnlessTerminal
<1>10. CASE FinishCreateTimeout(w)
  <2>1. /\ cstate' = [cstate EXCEPT ![t][a] = IF attempt[a] \in Terminal THEN "SUCCEEDED" ELSE "RETRYABLE"]
        /\ attempt'[a] = IF attempt[a] = "CREATED" THEN "PENDING" ELSE attempt[a]
        /\ identity' = identity /\ fact' = fact /\ t = "CREATE"
    BY <1>2, <1>3, <1>10 DEF FinishCreateTimeout, FinishLease, UnlessTerminal, Finishing
  <2>2. /\ cstate'["CREATE"][a] = IF attempt[a] \in Terminal THEN "SUCCEEDED" ELSE "RETRYABLE"
        /\ cstate'["INQUIRY"][a] = cstate["INQUIRY"][a]
    BY <1>5, <2>1 DEF Types
  <2> QED
    BY <1>1, <2>1, <2>2 DEF CommandsFollow, Terminal
<1>11. CASE ApplyCreateResult(w)
  <2>1. t = "CREATE" /\ session[a] # "NONE" /\ fact' = fact
    BY <1>3, <1>11 DEF ApplyCreateResult, Finishing, AnswerInv
  <2>2. cstate["INQUIRY"][a] = "NONE" /\ identity[a] = "NONE" /\ fact[a] = "NONE"
    BY <1>1, <1>4, <2>1 DEF CommandsFollow
  <2>3. CASE attempt[a] \in Terminal
    <3>1. attempt' = attempt /\ identity' = identity /\ cstate' = [cstate EXCEPT ![t][a] = "SUCCEEDED"]
      BY <1>11, <2>1, <2>3 DEF ApplyCreateResult, ApplyCreateProviderResult
    <3> QED
      BY <1>6, <2>1, <2>3, <3>1 DEF attempts
  <2>4. CASE attempt[a] \notin Terminal
    <3>1. attempt'[a] = "PENDING" /\ identity'[a] = "SESSION"
      BY <1>2, <1>11, <2>4 DEF ApplyCreateResult, ApplyCreateProviderResult
    <3>2. cstate' = [cstate EXCEPT !["CREATE"][a] = "SUCCEEDED", !["INQUIRY"][a] = "PENDING"]
      BY <1>11, <2>2, <2>4 DEF ApplyCreateResult, EnqueueTx
    <3>3. cstate'["CREATE"][a] = "SUCCEEDED" /\ cstate'["INQUIRY"][a] = "PENDING"
      BY <1>2, <3>2 DEF Types
    <3> QED
      BY <1>1, <2>1, <2>2, <3>1, <3>3 DEF CommandsFollow
  <2> QED
    BY <2>3, <2>4
<1>12. CASE BindInquiryIdentity(w)
  <2>1. /\ t = "INQUIRY" /\ attempt' = attempt /\ fact' = fact
        /\ identity'[a] = IF attempt[a] = "PENDING" THEN "REQUEST" ELSE identity[a]
        /\ cstate' = [cstate EXCEPT ![t][a] = IF attempt[a] \in Terminal THEN "SUCCEEDED" ELSE "RETRYABLE"]
    BY <1>2, <1>3, <1>12 DEF BindInquiryIdentity, ApplyInquiryIdentity, FinishLease, UnlessTerminal, Finishing
  <2>2. /\ cstate'["INQUIRY"][a] = IF attempt[a] \in Terminal THEN "SUCCEEDED" ELSE "RETRYABLE"
        /\ cstate'["CREATE"][a] = cstate["CREATE"][a]
    BY <1>5, <2>1 DEF Types
  <2> QED
    BY <1>1, <2>1, <2>2 DEF CommandsFollow, Terminal
<1>13. CASE FinishTerminalPayment(w)
  <2>1. /\ t = "INQUIRY" /\ identity' = identity /\ fact' = fact
        /\ attempt'[a] = IF attempt[a] = "PENDING" THEN "EXPIRED" ELSE attempt[a]
        /\ cstate' = [cstate EXCEPT ![t][a] = "SUCCEEDED"]
    BY <1>2, <1>3, <1>13 DEF FinishTerminalPayment, FinishLease, Finishing
  <2>2. cstate'["INQUIRY"][a] = "SUCCEEDED" /\ cstate'["CREATE"][a] = cstate["CREATE"][a]
    BY <1>5, <2>1 DEF Types
  <2> QED
    BY <1>1, <2>1, <2>2 DEF CommandsFollow
<1>14. CASE FinalizeGatewayCapture(w)
  <2>1. /\ t = "INQUIRY" /\ identity' = identity /\ attempt'[a] = "CAPTURED" /\ fact'[a] # "NONE"
        /\ paid[a] /\ cstate' = [cstate EXCEPT ![t][a] = "SUCCEEDED"]
    BY <1>2, <1>3, <1>14 DEF FinalizeGatewayCapture, RecordCapture, FinishLease, Finishing, AnswerInv
  <2>2. cstate'["INQUIRY"][a] = "SUCCEEDED" /\ cstate'["CREATE"][a] = cstate["CREATE"][a]
    BY <1>5, <2>1 DEF Types
  <2> QED
    BY <1>1, <2>1, <2>2 DEF CommandsFollow
<1> QED
  BY <1>7, <1>8, <1>9, <1>10, <1>11, <1>12, <1>13, <1>14 DEF FinishStep

LEMMA CommandsStep ==
    ASSUME IInv, AnswerInv, CommandsFollowAttempt, [Next]_vars
    PROVE  CommandsFollowAttempt'
<1> SUFFICES ASSUME NEW a \in Attempts PROVE CommandsFollow(a)'
  BY DEF CommandsFollowAttempt
<1>1. CommandsFollow(a) /\ Kept(a) /\ Base
  BY KeptStep DEF CommandsFollowAttempt, IInv
<1>2. /\ attempt \in [Attempts -> {"NONE"} \cup Open \cup Terminal]
      /\ DOMAIN cstate = Types /\ \A u \in Types : DOMAIN cstate[u] = Attempts
  BY <1>1 DEF Base, TypeOK
<1>3. CASE UNCHANGED <<attempts, commands>>
  BY <1>1, <1>3, CommandsStay DEF attempts, commands
<1>4. CASE BookingStep
  <2>1. CASE CancelBooking \/ SweepExpired
    <3>1. /\ UNCHANGED <<identity, fact, commands>>
          /\ attempt'[a] = IF attempt[a] = "CREATED" THEN "CANCELLED" ELSE attempt[a]
      BY <2>1 DEF CancelBooking, SweepExpired, CancelPending, UndispatchedAttempts
    <3> QED
      BY <1>1, <3>1 DEF CommandsFollow, Kept, commands
  <2> QED
    BY <1>3, <1>4, <2>1 DEF BookingStep, DeadlinePasses, SubmitPaymentProof, ConfirmBookingPayment,
       ApprovePayment, RejectPayment, MarkBookingPaid, CompleteBooking, CancelPaidBookingWithRefund,
       LegacyMove
<1>5. ASSUME NEW x \in Attempts, CreatePayment(x) PROVE CommandsFollow(a)'
  <2>1. /\ UNCHANGED <<identity, fact, provider>> /\ attempt[x] = "NONE"
        /\ attempt' = [attempt EXCEPT ![x] = "CREATED"]
        /\ cstate' = [cstate EXCEPT !["CREATE"][x] = EnqueueTx("CREATE", x)]
    BY <1>5 DEF CreatePayment, CreateOrReplayAttempt
  <2>2. cstate["CREATE"][x] = "NONE"
    BY <2>1 DEF IInv, DispatchInv
  <2>3. x # a => attempt'[a] = attempt[a] /\ \A t \in Types : cstate'[t][a] = cstate[t][a]
    BY <1>2, <2>1 DEF Types
  <2>4. x = a => attempt'[a] = "CREATED" /\ cstate'["INQUIRY"][a] = cstate["INQUIRY"][a]
    BY <1>2, <2>1 DEF Types
  <2>5. CASE x # a
    BY <1>1, <2>1, <2>3, <2>5, CommandsStay
  <2>6. CASE x = a
    BY <1>1, <2>1, <2>2, <2>4, <2>6 DEF CommandsFollow, provider
  <2> QED
    BY <2>5, <2>6
<1>6. ASSUME NEW x \in Attempts, ProviderStep(x) PROVE CommandsFollow(a)'
  <2>1. CASE WebhookSessionExpired(x)
    <3>1. /\ UNCHANGED <<identity, fact, commands, provider>>
          /\ attempt'[a] = IF x = a THEN "EXPIRED" ELSE attempt[a]
          /\ x = a => attempt[a] = "PENDING"
      BY <1>2, <2>1 DEF WebhookSessionExpired
    <3> QED
      BY <1>1, <3>1 DEF CommandsFollow, commands, provider
  <2> QED
    BY <1>3, <1>6, <2>1 DEF ProviderStep, ProviderPays, ProviderExpires
<1>7. ASSUME NEW t \in Types, NEW x \in Attempts,
             LeaseExpires(t, x) \/ \E w \in Workers : ClaimNext(w, t, x)
      PROVE CommandsFollow(a)'
  <2>1. /\ UNCHANGED <<attempts, provider>> /\ cstate[t][x] \notin {"NONE", "SUCCEEDED", "TERMINAL"}
        /\ \E next \in {"LEASED", "LAPSED"} : cstate' = [cstate EXCEPT ![t][x] = next]
    BY <1>7 DEF LeaseExpires, ClaimNext, Due
  <2>2. CASE x # a
    <3>1. \A u \in Types : cstate'[u][a] = cstate[u][a]
      BY <1>2, <2>1, <2>2
    <3> QED
      BY <1>1, <2>1, <3>1, CommandsStay DEF attempts
  <2>3. CASE x = a
    BY <1>1, <2>1, <2>3, LeaseMoves
  <2> QED
    BY <2>2, <2>3
<1>8. ASSUME NEW w \in Workers, WorkerStep(w) PROVE CommandsFollow(a)'
  <2>1. CASE FinishStep(w)
    <3>1. Attempt(w) \in Attempts /\ Type(w) \in Types
      BY <1>1, <2>1, FinishEffect
    <3>2. CASE a = Attempt(w)
      BY <1>1, <2>1, <3>1, <3>2, FinishOwn
    <3>3. CASE a # Attempt(w)
      BY <1>1, <2>1, <3>3, FinishAttempt, CommandsStay
    <3> QED
      BY <3>2, <3>3
  <2> QED
    BY <1>3, <1>8, <2>1 DEF WorkerStep, DecideCommandExecution, CreateAnswer, InquiryAnswer, Abandon
<1> QED
  BY <1>3, <1>4, <1>5, <1>6, <1>7, <1>8 DEF Next, vars

(***************************************************************************)
(* An attempt and its commands change together: an identity has its        *)
(* inquiry, a pending attempt a command to resolve it, a capture no        *)
(* inquiry that could run again, through claims, lapsed leases and answers *)
(* that come late (finishLeaseTx, applyCreateResult, finishInquiry).       *)
(***************************************************************************)
THEOREM CommandsCorrect == Spec => []CommandsFollowAttempt
<1>1. Init => AnswerInv
  BY DEF Init, AnswerInv, Idle, WorkerAt
<1>2. Init => CommandsFollowAttempt
  BY DEF Init, CommandsFollowAttempt, CommandsFollow, Types
<1>3. IInv /\ AnswerInv /\ CommandsFollowAttempt /\ [Next]_vars => AnswerInv' /\ CommandsFollowAttempt'
  BY AnswerStep, CommandsStep
<1> QED
  BY <1>1, <1>2, <1>3, InvariantHolds, PTL DEF Spec

=============================================================================
