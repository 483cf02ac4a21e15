-------------------------- MODULE InboxLockProofs ---------------------------
(***************************************************************************)
(* Proofs about the webhook inbox and about the locks that payment and     *)
(* booking transactions take.                                              *)
(*                                                                         *)
(* WebhookInbox: for any number of sessions, events, bodies, requests and  *)
(* processors.  The inductive invariant adds to the type that a busy actor *)
(* has an event, that a claimed row stays verified, and that a bound,      *)
(* unquarantined event was compared with its attempt.                      *)
(*                                                                         *)
(* LockOrder: for any number of transactions and any choice of the flows.  *)
(* StageInv says that a transaction holds the first locks of a flow and    *)
(* has the others to take.  What a waiting transaction may hold follows    *)
(* flow by flow (MayWait), and two cases exclude every other circle: a     *)
(* circle with the holder of FLOW in it, and one without.                  *)
(***************************************************************************)
EXTENDS WebhookInbox, LockOrder, Integers, TLAPS

\* The inductive invariant of the inbox.
IInv == TypeOK /\ BusyInv /\ ClaimInv /\ ComparedInv /\ AckedIsRecorded

\* Inserting an event anywhere in the queue leaves a sequence of events
\* (received_at of a new row in Accept).
LEMMA InsertAtType ==
    ASSUME NEW s \in Seq(Events), NEW i \in 1 .. Len(s) + 1, NEW e \in Events
    PROVE  InsertAt(s, i, e) \in Seq(Events)
<1>1. SubSeq(s, 1, i - 1) \in Seq(Events) /\ SubSeq(s, i, Len(s)) \in Seq(Events)
  OBVIOUS
<1>2. <<e>> \in Seq(Events)
  OBVIOUS
<1> QED BY <1>1, <1>2 DEF InsertAt

\* A new inbox satisfies the invariant: no row, nobody busy.
LEMMA InitInv == Init => IInv
<1> SUFFICES ASSUME Init PROVE IInv
  OBVIOUS
<1> USE DEF Init, NoRow, RowAt, HandlerIdle, HandlerAt, ProcessorIdle, ProcessorAt
<1>1. TypeOK
  BY DEF TypeOK, RowStates, HandlerStates, ProcessorStates, AttemptStates
<1>2. BusyInv /\ ClaimInv /\ ComparedInv /\ AckedIsRecorded
  BY DEF BusyInv, ClaimInv, ComparedInv, AckedIsRecorded
<1> QED BY <1>1, <1>2 DEF IInv

\* What the payment worker does to attempts keeps the invariant: identities
\* are only ever bound, so a comparison made once stays made.
LEMMA PaymentStepInv ==
    ASSUME IInv, NEW s \in Sessions, PaymentStep(s) \/ DeployVerifiedContract
    PROVE  IInv'
<1> USE DEF IInv
<1>1. UNCHANGED <<inbox, handler, processor, answers>>
  BY DEF PaymentStep, DeployVerifiedContract, FinishCreateTimeout, BindIdentity,
         FinishTerminalPayment, RecordCapture
<1>2. /\ attempt' \in [Sessions -> AttemptStates] /\ known' \in [Sessions -> BOOLEAN]
      /\ contract' \in {"PROVISIONAL", "VERIFIED"}
      /\ \A t \in Sessions : known[t] => known'[t]
  BY DEF PaymentStep, DeployVerifiedContract, FinishCreateTimeout, BindIdentity,
         FinishTerminalPayment, RecordCapture, payment, TypeOK, AttemptStates
<1>3. TypeOK'
  BY <1>1, <1>2 DEF TypeOK, inbox, answers
<1>4. BusyInv' /\ ClaimInv' /\ AckedIsRecorded'
  BY <1>1 DEF BusyInv, ClaimInv, AckedIsRecorded, Delivery, inbox, answers
<1>5. \A e \in Events : Session(e) \in Sessions
  BY InboxAssumption DEF Session
<1>6. ComparedInv'
  <2>1. \A e \in Events : \A b : Compared(e, b) => Compared(e, b)'
    BY <1>2, <1>5 DEF Compared
  <2>2. QED BY <1>1, <2>1 DEF ComparedInv, BusyInv, inbox
<1> QED BY <1>3, <1>4, <1>6

\* A request that leaves the rows alone keeps the invariant: the lookup, the
\* select, and every answer but those of an insert or a conflict.
LEMMA RequestStepInv ==
    ASSUME IInv, NEW h \in Handlers,
           \/ \E e \in Events, b \in Bodies : Receive(h, e, b)
           \/ ReceiveFails(h) \/ AcceptFindsNoRow(h) \/ AcceptDuplicate(h)
           \/ AcceptConflictRefused(h) \/ AcceptInsertCollides(h)
    PROVE  IInv'
<1> USE DEF IInv
<1>1. CASE \E e \in Events, b \in Bodies : Receive(h, e, b)
  <2>1. PICK e \in Events, b \in Bodies : Receive(h, e, b)
    BY <1>1
  <2> USE <2>1 DEF Receive, HandlerAt, FindAttemptContext, Verification, payment, inbox
  <2>2. Session(e) \in Sessions
    BY InboxAssumption DEF Session
  <2>3. TypeOK'
    BY <2>2 DEF TypeOK, HandlerStates
  <2>4. BusyInv' /\ ClaimInv' /\ AckedIsRecorded'
    BY DEF BusyInv, ClaimInv, AckedIsRecorded, Delivery, TypeOK
  <2>5. ComparedInv'
    BY DEF ComparedInv, Compared, TypeOK
  <2> QED BY <2>3, <2>4, <2>5
<1>2. CASE AcceptFindsNoRow(h)
  <2> USE <1>2 DEF AcceptFindsNoRow, Selecting, payment, inbox, answers
  <2>1. TypeOK'
    BY DEF TypeOK, HandlerStates
  <2>2. BusyInv' /\ ClaimInv' /\ AckedIsRecorded'
    BY DEF BusyInv, ClaimInv, AckedIsRecorded, Delivery, TypeOK, HandlerStates
  <2>3. ComparedInv'
    BY DEF ComparedInv, Compared, TypeOK, HandlerStates
  <2> QED BY <2>1, <2>2, <2>3
<1>3. CASE ReceiveFails(h) \/ AcceptDuplicate(h) \/ AcceptConflictRefused(h) \/ AcceptInsertCollides(h)
  <2>1. /\ UNCHANGED <<contract, payment, inbox, processor, sent>>
        /\ handler' = [handler EXCEPT ![h] = HandlerIdle]
    BY <1>3 DEF ReceiveFails, AcceptDuplicate, AcceptConflictRefused, AcceptInsertCollides,
                Answer200, answers
  <2>2. /\ acked' \subseteq sent /\ conflicted' \subseteq Events
        /\ AckedIsRecorded'
    <3>1. CASE AcceptDuplicate(h)
      BY <3>1, <2>1 DEF AcceptDuplicate, Answer200, Selecting, SelectedRow, AckedIsRecorded,
                        BusyInv, Delivery, TypeOK, inbox
    <3>2. CASE AcceptConflictRefused(h)
      BY <3>2, <2>1 DEF AcceptConflictRefused, Conflicting, Selecting, AckedIsRecorded,
                        BusyInv, TypeOK, inbox
    <3>3. CASE ReceiveFails(h) \/ AcceptInsertCollides(h)
      BY <3>3, <2>1 DEF ReceiveFails, AcceptInsertCollides, answers, AckedIsRecorded, TypeOK, inbox
    <3> QED BY <1>3, <3>1, <3>2, <3>3
  <2> USE <2>1 DEF HandlerIdle, HandlerAt, payment, inbox
  <2>3. TypeOK'
    BY <2>2 DEF TypeOK, HandlerStates
  <2>4. BusyInv' /\ ClaimInv'
    BY DEF BusyInv, ClaimInv, Delivery, TypeOK
  <2>5. ComparedInv'
    BY DEF ComparedInv, Compared, TypeOK
  <2> QED BY <2>2, <2>3, <2>4, <2>5
<1> QED BY <1>1, <1>2, <1>3

\* A conflicting delivery quarantines an open row and never a verified one, so
\* what a processor has claimed stays as it is.
LEMMA ConflictInv ==
    ASSUME IInv, NEW h \in Handlers, AcceptConflict(h)
    PROVE  IInv'
<1> USE DEF IInv
<1> DEFINE e == handler[h].event
<1>1. e \in Events /\ handler[h].body \in Bodies /\ Delivery(h) \in sent
  BY DEF BusyInv, AcceptConflict, Conflicting, Selecting
<1>2. /\ UNCHANGED <<contract, attempt, known, queue, processor, sent>>
      /\ acked' = acked \cup {Delivery(h)}
      /\ conflicted' = conflicted \cup {e}
      /\ handler' = [handler EXCEPT ![h] = HandlerIdle]
  BY DEF AcceptConflict, Conflicting, Answer200, payment
<1>3. /\ row[e].proc # "ABSENT"
      /\ \/ row[e].proc \in Finished /\ row' = row
         \/ /\ row[e].verif # "VERIFIED"
            /\ row' = [row EXCEPT ![e] = Quarantined(row[e])]
  BY DEF AcceptConflict, Conflicting, SelectedRow, QuarantineOpenRow
<1>4. /\ Quarantined(row[e]) \in RowStates
      /\ Quarantined(row[e]).verif = "QUARANTINED" /\ Quarantined(row[e]).proc = "TERMINAL"
      /\ Quarantined(row[e]).body = row[e].body
  BY <1>1 DEF Quarantined, RowAt, TypeOK, RowStates
<1> HIDE DEF e
<1>5. /\ row' \in [Events -> RowStates]
      /\ \A f \in Events :
           \/ row'[f] = row[f]
           \/ /\ f = e /\ row[f].verif # "VERIFIED" /\ row'[f].body = row[f].body
              /\ row'[f].verif = "QUARANTINED" /\ row'[f].proc = "TERMINAL"
      /\ row'[e].proc \in Finished
  BY <1>1, <1>3, <1>4 DEF TypeOK, Finished
<1> USE <1>2, <1>5 DEF HandlerIdle, HandlerAt
<1>6. TypeOK'
  <2>1. \A f \in Events : row'[f].verif = "QUARANTINED" => row'[f].proc = "TERMINAL"
    BY DEF TypeOK
  <2>2. handler' \in [Handlers -> HandlerStates]
    BY DEF TypeOK, HandlerStates
  <2>3. acked' \subseteq sent /\ conflicted' \subseteq Events
    BY <1>1 DEF TypeOK
  <2> QED BY <2>1, <2>2, <2>3 DEF TypeOK
<1>7. BusyInv'
  BY DEF BusyInv, Delivery, TypeOK
<1>8. ClaimInv'
  BY DEF ClaimInv, BusyInv, TypeOK
<1>9. ComparedInv'
  BY DEF ComparedInv, Compared, TypeOK
<1>10. AckedIsRecorded'
  <2>1. \A d \in acked : d[1] \in Events
    BY DEF TypeOK
  <2>2. Delivery(h)[1] = e
    BY DEF Delivery, e
  <2> QED BY <1>1, <2>1, <2>2 DEF AckedIsRecorded, Finished
<1> QED BY <1>6, <1>7, <1>8, <1>9, <1>10

\* An insert records the delivery it answers, with the lookup's attempt.
LEMMA InsertInv ==
    ASSUME IInv, NEW h \in Handlers, AcceptInserts(h)
    PROVE  IInv'
<1> USE AcceptInserts(h) DEF IInv, AcceptInserts, SelectedRow, InsertedRow, RowAt,
        InitialLifecycle, Answer200, HandlerIdle, HandlerAt, payment
<1>1. handler[h].event \in Events /\ handler[h].body \in Bodies /\ Delivery(h) \in sent
  BY DEF BusyInv
<1>2. queue' \in Seq(Events)
  BY <1>1, InsertAtType DEF TypeOK
<1>3. TypeOK'
  BY <1>1, <1>2 DEF TypeOK, HandlerStates, RowStates
<1>4. BusyInv'
  BY DEF BusyInv, Delivery, TypeOK
<1>5. ClaimInv'
  BY <1>1 DEF ClaimInv, BusyInv, TypeOK, RowStates
<1>6. ComparedInv'
  BY <1>1 DEF ComparedInv, Compared, TypeOK, RowStates
<1>7. AckedIsRecorded'
  BY <1>1 DEF AckedIsRecorded, Delivery, TypeOK, RowStates
<1> QED BY <1>3, <1>4, <1>5, <1>6, <1>7

\* A claim, a rollback and a rejected event change no row.
LEMMA ClaimStepInv ==
    ASSUME IInv, NEW p \in Processors, ClaimNext(p) \/ RejectUnbound(p) \/ ProcessorFails(p)
    PROVE  IInv'
<1> USE DEF IInv
<1>1. UNCHANGED <<contract, payment, inbox, handler, answers>>
  BY DEF ClaimNext, RejectUnbound, ProcessorFails
<1>2. PICK q \in ProcessorStates :
        /\ processor' = [processor EXCEPT ![p] = q]
        /\ q.pc # "IDLE" => /\ q.event \in Events
                            /\ row[q.event].verif = "VERIFIED" /\ row[q.event].proc # "ABSENT"
  <2>1. CASE ClaimNext(p)
    <3>1. PICK i \in DOMAIN queue :
            /\ Claimable(queue[i])
            /\ processor' = [processor EXCEPT ![p] =
                 ProcessorAt("CLAIMED", queue[i], attempt[Session(queue[i])])]
      BY <2>1 DEF ClaimNext
    <3>2. queue[i] \in Events
      BY DEF TypeOK
    <3>3. attempt[Session(queue[i])] \in AttemptStates
      BY <3>2, InboxAssumption DEF Session, TypeOK
    <3> DEFINE q == ProcessorAt("CLAIMED", queue[i], attempt[Session(queue[i])])
    <3>4. /\ q \in ProcessorStates /\ q.event = queue[i]
      BY <3>2, <3>3 DEF ProcessorAt, ProcessorStates
    <3>5. processor' = [processor EXCEPT ![p] = q]
      BY <3>1
    <3>6. row[queue[i]].verif = "VERIFIED" /\ row[queue[i]].proc # "ABSENT"
      BY <3>1 DEF Claimable
    <3> HIDE DEF q
    <3> QED BY <3>2, <3>4, <3>5, <3>6
  <2>2. CASE RejectUnbound(p)
    <3> DEFINE q == [processor[p] EXCEPT !.pc = "TERMINALIZING"]
    <3>1. processor[p].pc = "CLAIMED" /\ processor' = [processor EXCEPT ![p] = q]
      BY <2>2 DEF RejectUnbound, Claimed
    <3>2. q \in ProcessorStates /\ q.event = processor[p].event
      BY DEF TypeOK, ProcessorStates
    <3> HIDE DEF q
    <3> QED BY <3>1, <3>2 DEF BusyInv, ClaimInv
  <2>3. CASE ProcessorFails(p)
    <3>1. processor' = [processor EXCEPT ![p] = ProcessorIdle]
      BY <2>3 DEF ProcessorFails
    <3>2. ProcessorIdle \in ProcessorStates /\ ProcessorIdle.pc = "IDLE"
      BY DEF ProcessorIdle, ProcessorAt, ProcessorStates, AttemptStates
    <3> QED BY <3>1, <3>2
  <2> QED BY <2>1, <2>2, <2>3
<1> USE <1>1, <1>2 DEF payment, inbox, answers
<1>3. TypeOK'
  BY DEF TypeOK
<1>4. BusyInv' /\ ClaimInv'
  BY DEF BusyInv, ClaimInv, Delivery, TypeOK
<1>5. ComparedInv' /\ AckedIsRecorded'
  BY DEF ComparedInv, Compared, AckedIsRecorded
<1> QED BY <1>3, <1>4, <1>5

\* Committing a claimed event, as processed or as terminal, finishes its row.
LEMMA CommitInv ==
    ASSUME IInv, NEW p \in Processors,
           ProcessCompleted(p) \/ ProcessExpired(p) \/ MarkTerminal(p)
    PROVE  IInv'
<1> USE DEF IInv
<1> DEFINE e == processor[p].event
<1>1. /\ UNCHANGED <<contract, known, queue, handler, answers>>
      /\ processor' = [processor EXCEPT ![p] = ProcessorIdle]
      /\ processor[p].pc # "IDLE"
  BY DEF ProcessCompleted, ProcessExpired, MarkTerminal, MarkProcessed, Claimed, payment
<1>2. e \in Events /\ row[e].verif = "VERIFIED" /\ row[e].proc # "ABSENT"
  BY <1>1 DEF BusyInv, ClaimInv
<1>3. PICK x \in Finished : row' = [row EXCEPT ![e].proc = x]
  <2>1. CASE ProcessCompleted(p) \/ ProcessExpired(p)
    BY <2>1 DEF ProcessCompleted, ProcessExpired, MarkProcessed, Finished
  <2>2. CASE MarkTerminal(p)
    BY <2>2, <1>2 DEF MarkTerminal, TerminalizeOpen, Finished, TypeOK, RowStates
  <2> QED BY <2>1, <2>2
<1>4. attempt' \in [Sessions -> AttemptStates]
  BY DEF ProcessCompleted, ProcessExpired, MarkTerminal, TransitionState, payment, TypeOK,
         AttemptStates
<1> HIDE DEF e
<1> USE <1>1, <1>2, <1>3 DEF answers, ProcessorIdle, ProcessorAt
<1>5. TypeOK'
  BY <1>4 DEF TypeOK, RowStates, ProcessorStates, AttemptStates, Finished
<1>6. BusyInv' /\ ClaimInv'
  BY DEF BusyInv, ClaimInv, Delivery, TypeOK, RowStates, Finished
<1>7. ComparedInv' /\ AckedIsRecorded'
  BY DEF ComparedInv, Compared, AckedIsRecorded, TypeOK, RowStates, Finished
<1> QED BY <1>5, <1>6, <1>7

\* Every step keeps the invariant.
LEMMA NextInv == IInv /\ [Next]_vars => IInv'
<1> SUFFICES ASSUME IInv, [Next]_vars PROVE IInv'
  OBVIOUS
<1>1. CASE \E s \in Sessions : PaymentStep(s)
  BY <1>1, PaymentStepInv
<1>2. CASE DeployVerifiedContract
  <2>1. CASE Sessions = {}
    BY <1>2, <2>1 DEF DeployVerifiedContract, IInv, TypeOK, BusyInv, ClaimInv, ComparedInv,
         Compared, AckedIsRecorded, Delivery, payment, inbox, answers
  <2>2. CASE Sessions # {}
    BY <1>2, <2>2, PaymentStepInv
  <2> QED BY <2>1, <2>2
<1>3. ASSUME NEW h \in Handlers,
             \/ \E e \in Events, b \in Bodies : Receive(h, e, b)
             \/ Accept(h) \/ ReceiveFails(h)
      PROVE  IInv'
  BY <1>3, RequestStepInv, ConflictInv, InsertInv DEF Accept
<1>4. ASSUME NEW p \in Processors, ClaimNext(p) \/ Process(p) \/ ProcessorFails(p)
      PROVE  IInv'
  BY <1>4, ClaimStepInv, CommitInv DEF Process
<1>5. CASE UNCHANGED vars
  BY <1>5 DEF vars, payment, inbox, answers, IInv, TypeOK, BusyInv, ClaimInv, ComparedInv,
              Compared, AckedIsRecorded, Delivery
<1> QED BY <1>1, <1>2, <1>3, <1>4, <1>5 DEF Next

\* The invariant holds in every reachable state of the inbox.
LEMMA SpecInv == Spec => []IInv
<1> QED BY InitInv, NextInv, PTL DEF Spec

\* Rows, requests and processors have their types and a quarantined row is
\* terminal (chk_payment_webhook_event_quarantine), for any constants.
THEOREM InboxTypeCorrect == Spec => []TypeOK
<1>1. IInv => TypeOK
  BY DEF IInv
<1> QED BY <1>1, SpecInv, PTL

\* The answer 200 of Receive is always backed by a row that carries the
\* delivered body or is finished.
THEOREM AckedCorrect == Spec => []AckedIsRecorded
<1>1. IInv => AckedIsRecorded
  BY DEF IInv
<1> QED BY <1>1, SpecInv, PTL

\* No step of a processor, a request or a worker takes a capture back.
THEOREM CapturedCorrect == Spec => CapturedStays
<1> DEFINE Kept == \A s \in Sessions : attempt[s] = "CAPTURED" => attempt'[s] = "CAPTURED"
<1>1. ASSUME IInv, [Next]_vars
      PROVE  Kept
  <2> USE <1>1 DEF IInv, TypeOK
  <2>1. CASE \E t \in Sessions : PaymentStep(t)
    BY <2>1 DEF PaymentStep, FinishCreateTimeout, BindIdentity, FinishTerminalPayment,
                RecordCapture
  <2>2. CASE \E p \in Processors : ProcessExpired(p)
    BY <2>2 DEF ProcessExpired, TransitionState
  <2>3. CASE attempt' = attempt
    BY <2>3
  <2>4. DeployVerifiedContract => attempt' = attempt
    BY DEF DeployVerifiedContract, payment
  <2>5. ASSUME NEW h \in Handlers,
               \/ \E e \in Events, b \in Bodies : Receive(h, e, b)
               \/ Accept(h) \/ ReceiveFails(h)
        PROVE  attempt' = attempt
    BY <2>5 DEF Receive, ReceiveFails, Accept, AcceptFindsNoRow, AcceptDuplicate, AcceptConflict,
                AcceptConflictRefused, AcceptInserts, AcceptInsertCollides, payment
  <2>6. ASSUME NEW p \in Processors, ClaimNext(p) \/ Process(p) \/ ProcessorFails(p)
        PROVE  attempt' = attempt \/ ProcessExpired(p)
    BY <2>6 DEF ClaimNext, Process, ProcessCompleted, RejectUnbound, MarkTerminal, ProcessorFails,
                payment
  <2>7. UNCHANGED vars => attempt' = attempt
    BY DEF vars, payment
  <2> QED BY <2>1, <2>2, <2>3, <2>4, <2>5, <2>6, <2>7 DEF Next
<1>2. IInv /\ [Next]_vars => [Kept]_vars
  BY <1>1
<1> QED BY <1>2, SpecInv, PTL DEF Spec, CapturedStays

\* An event that changes an attempt was compared with it and agreed
\* (the second ParseWebhook of Receive), whenever the identity was bound.
THEOREM ComparedCorrect == Spec => OnlyComparedEventsApply
<1> DEFINE Agreed ==
      \A e \in Events :
         row[e].proc # "PROCESSED" /\ row'[e].proc = "PROCESSED" /\ attempt' # attempt =>
             /\ row[e].body \notin Mismatched \cup Suspect
             /\ known[Session(e)]
<1>1. ASSUME IInv, [Next]_vars
      PROVE  Agreed
  <2> USE <1>1 DEF IInv
  <2>1. CASE row' = row \/ attempt' = attempt
    BY <2>1
  <2>2. ASSUME NEW p \in Processors, ProcessExpired(p)
        PROVE  Agreed
    <3> DEFINE e == processor[p].event
    <3>1. e \in Events /\ row[e].verif = "VERIFIED" /\ row[e].bound
      BY <2>2 DEF ProcessExpired, Claimed, ClaimedRow, BusyInv, ClaimInv
    <3>2. row[e].body \notin Mismatched \cup Suspect /\ known[Session(e)]
      BY <3>1 DEF ComparedInv, Compared
    <3>3. \A f \in Events \ {e} : row'[f] = row[f]
      BY <2>2 DEF ProcessExpired, MarkProcessed, TypeOK
    <3> HIDE DEF e
    <3> QED BY <3>2, <3>3
  <2>3. ASSUME NEW s \in Sessions, PaymentStep(s)
        PROVE  row' = row
    BY <2>3 DEF PaymentStep, FinishCreateTimeout, BindIdentity, FinishTerminalPayment,
                RecordCapture, inbox
  <2>4. DeployVerifiedContract => attempt' = attempt
    BY DEF DeployVerifiedContract, payment
  <2>5. ASSUME NEW h \in Handlers,
               \/ \E e \in Events, b \in Bodies : Receive(h, e, b)
               \/ Accept(h) \/ ReceiveFails(h)
        PROVE  attempt' = attempt
    BY <2>5 DEF Receive, ReceiveFails, Accept, AcceptFindsNoRow, AcceptDuplicate, AcceptConflict,
                AcceptConflictRefused, AcceptInserts, AcceptInsertCollides, payment
  <2>6. ASSUME NEW p \in Processors, ClaimNext(p) \/ Process(p) \/ ProcessorFails(p)
        PROVE  attempt' = attempt \/ ProcessExpired(p)
    BY <2>6 DEF ClaimNext, Process, ProcessCompleted, RejectUnbound, MarkTerminal, ProcessorFails,
                payment
  <2>7. UNCHANGED vars => row' = row
    BY DEF vars, inbox
  <2> QED BY <2>1, <2>2, <2>3, <2>4, <2>5, <2>6, <2>7 DEF Next
<1>2. IInv /\ [Next]_vars => [Agreed]_vars
  BY <1>1
<1> QED BY <1>2, SpecInv, PTL DEF Spec, OnlyComparedEventsApply

----------------------------------------------------------------------------
(* Locks.                                                                  *)

\* The transaction has taken the first k locks of the flow.
Stage(t, flow, k) ==
    /\ held[t] = {flow[i] : i \in 1 .. k}
    /\ Len(todo[t]) = Len(flow) - k
    /\ \A i \in 1 .. Len(flow) - k : todo[t][i] = flow[k + i]

StageInv == \A t \in Txns : NoLocks(t) \/ \E flow \in AllFlows : \E k \in 0 .. Len(flow) : Stage(t, flow, k)

LockInv == LocksTypeOK /\ StageInv

LEMMA FlowsTyped == AllFlows \subseteq Seq(Locks)
  BY DEF AllFlows, GatewayFlows, LegacyFlows, CreatePaymentFlow, ReplayPaymentFlow, ClaimNextFlow, FinishAttemptFlow,
     FinalizeGatewayCaptureFlow, FinishTerminalPaymentFlow, FinishTerminalFlow, CancelPendingFlow, WebhookSessionExpiredFlow,
     UpdateBookingStatusFlow, ApproveRefundRequestFlow, RejectRefundRequestFlow, Locks

LEMMA LocksStart == LockInit => LockInv
  BY DEF LockInit, LockInv, LocksTypeOK, StageInv, NoLocks, Locks

LEMMA StandsStill ==
    ASSUME NEW u \in Txns, held'[u] = held[u], todo'[u] = todo[u]
    PROVE  /\ NoLocks(u)' <=> NoLocks(u)
           /\ \A flow \in AllFlows : \A k \in 0 .. Len(flow) : Stage(u, flow, k)' <=> Stage(u, flow, k)
  BY DEF NoLocks, Stage

\* A step that leaves the locks of the other transactions as they are.
LEMMA OneMoves ==
    ASSUME LockInv, NEW t \in Txns,
           held' \in [Txns -> SUBSET Locks], todo' \in [Txns -> Seq(Locks)],
           \A u \in Txns \ {t} : held'[u] = held[u] /\ todo'[u] = todo[u] /\ held'[t] \cap held[u] = {},
           NoLocks(t)' \/ \E flow \in AllFlows : \E k \in 0 .. Len(flow) : Stage(t, flow, k)'
    PROVE  LockInv'
<1>1. LocksTypeOK'
  <2>1. ASSUME NEW u \in Txns, NEW v \in Txns, u # v
        PROVE  held'[u] \cap held'[v] = {}
    <3>1. held[u] \cap held[v] = {}
      BY <2>1 DEF LockInv, LocksTypeOK
    <3>2. CASE u = t
      BY <2>1, <3>2
    <3>3. CASE v = t
      BY <2>1, <3>3
    <3> QED
      BY <3>1, <3>2, <3>3
  <2> QED
    BY <2>1 DEF LocksTypeOK
<1>2. StageInv'
  <2> SUFFICES ASSUME NEW u \in Txns, u # t
               PROVE  NoLocks(u)' \/ \E flow \in AllFlows : \E k \in 0 .. Len(flow) : Stage(u, flow, k)'
    BY DEF StageInv
  <2>1. NoLocks(u) \/ \E flow \in AllFlows : \E k \in 0 .. Len(flow) : Stage(u, flow, k)
    BY DEF LockInv, StageInv
  <2> QED
    BY <2>1, StandsStill
<1> QED
  BY <1>1, <1>2 DEF LockInv

LEMMA LockStep == LockInv /\ [LockNext]_lockVars => LockInv'
<1> SUFFICES ASSUME LockInv, [LockNext]_lockVars PROVE LockInv'
  OBVIOUS
<1>0. /\ held \in [Txns -> SUBSET Locks] /\ todo \in [Txns -> Seq(Locks)]
      /\ \A t, u \in Txns : t # u => held[t] \cap held[u] = {}
  BY DEF LockInv, LocksTypeOK
<1>1. ASSUME NEW t \in Txns, NEW flow \in Flows, Begin(t, flow)
      PROVE  LockInv'
  <2>1. flow \in AllFlows /\ flow \in Seq(Locks)
    BY FlowsAssumption, FlowsTyped
  <2>2. held' = held /\ held[t] = {} /\ todo' = [todo EXCEPT ![t] = flow]
    BY <1>1 DEF Begin, NoLocks
  <2>3. Stage(t, flow, 0)'
    BY <1>0, <2>1, <2>2 DEF Stage
  <2>4. 0 \in 0 .. Len(flow)
    BY <2>1
  <2> QED
    BY <1>0, <2>1, <2>2, <2>3, <2>4, OneMoves
<1>2. ASSUME NEW t \in Txns, Acquire(t)
      PROVE  LockInv'
  <2> DEFINE lock == Head(todo[t])
  <2>1. /\ todo[t] # <<>> /\ todo[t] \in Seq(Locks) /\ lock \in Locks /\ lock = todo[t][1]
        /\ Len(todo[t]) \in Nat /\ Len(todo[t]) > 0
    BY <1>0, <1>2 DEF Acquire
  <2>2. /\ held' = [held EXCEPT ![t] = held[t] \cup {lock}] /\ todo' = [todo EXCEPT ![t] = Tail(todo[t])]
        /\ \A u \in Txns \ {t} : lock \notin held[u]
    BY <1>2 DEF Acquire
  <2>3. /\ Tail(todo[t]) \in Seq(Locks) /\ Len(Tail(todo[t])) = Len(todo[t]) - 1
        /\ \A i \in 1 .. Len(todo[t]) - 1 : Tail(todo[t])[i] = todo[t][i + 1]
    BY <2>1
  <2>4a. PICK flow \in AllFlows : \E k \in 0 .. Len(flow) : Stage(t, flow, k)
    BY <2>1 DEF LockInv, StageInv, NoLocks
  <2>4. PICK k \in 0 .. Len(flow) : Stage(t, flow, k)
    BY <2>4a
  <2>5. flow \in Seq(Locks) /\ Len(flow) \in Nat
    BY FlowsTyped
  <2>6. k + 1 \in 0 .. Len(flow) /\ lock = flow[k + 1]
    BY <2>1, <2>4, <2>5 DEF Stage
  <2>7. Stage(t, flow, k + 1)'
    <3>1. held'[t] = {flow[i] : i \in 1 .. k + 1}
      <4>1. 1 .. k + 1 = (1 .. k) \cup {k + 1}
        BY <2>5
      <4>2. {flow[i] : i \in 1 .. k + 1} = {flow[i] : i \in 1 .. k} \cup {flow[k + 1]}
        BY <4>1
      <4>3. held'[t] = held[t] \cup {flow[k + 1]}
        BY <1>0, <2>2, <2>6
      <4> QED
        BY <2>4, <4>2, <4>3 DEF Stage
    <3>2. todo'[t] = Tail(todo[t])
      BY <1>0, <2>2
    <3>3. Len(todo'[t]) = Len(flow) - (k + 1)
      BY <2>3, <2>4, <2>5, <3>2 DEF Stage
    <3>4. ASSUME NEW i \in 1 .. Len(flow) - (k + 1)
          PROVE  todo'[t][i] = flow[k + 1 + i]
      <4>1. i \in 1 .. Len(todo[t]) - 1 /\ i + 1 \in 1 .. Len(flow) - k /\ k + (i + 1) = k + 1 + i
        BY <2>4, <2>5 DEF Stage
      <4> QED
        BY <2>3, <2>4, <3>2, <4>1 DEF Stage
    <3> QED
      BY <3>1, <3>3, <3>4 DEF Stage
  <2> HIDE DEF lock
  <2>8. \A u \in Txns \ {t} : held'[u] = held[u] /\ todo'[u] = todo[u] /\ held'[t] \cap held[u] = {}
    BY <1>0, <2>2
  <2>9. held' \in [Txns -> SUBSET Locks] /\ todo' \in [Txns -> Seq(Locks)]
    BY <1>0, <2>1, <2>2, <2>3
  <2> QED
    BY <2>6, <2>7, <2>8, <2>9, OneMoves
<1>3. ASSUME NEW t \in Txns, Release(t)
      PROVE  LockInv'
  <2>1. held' = [held EXCEPT ![t] = {}] /\ todo' = [todo EXCEPT ![t] = <<>>]
    BY <1>3 DEF Release
  <2>2. NoLocks(t)' /\ <<>> \in Seq(Locks)
    BY <1>0, <2>1 DEF NoLocks
  <2> QED
    BY <1>0, <2>1, <2>2, OneMoves
<1>4. CASE UNCHANGED lockVars
  <2>1. LocksTypeOK'
    BY <1>4 DEF LockInv, LocksTypeOK, lockVars
  <2>2. StageInv'
    BY <1>4, StandsStill DEF LockInv, StageInv, lockVars
  <2> QED
    BY <2>1, <2>2 DEF LockInv
<1> QED
  BY <1>1, <1>2, <1>3, <1>4 DEF LockNext, Commit, Rollback, DeadlockVictim

\* No lock has two holders, however many transactions run.
THEOREM LocksTypeCorrect == LockSpec => []LocksTypeOK
<1>1. LockInv => LocksTypeOK
  BY DEF LockInv
<1> QED
  BY <1>1, LocksStart, LockStep, PTL DEF LockSpec

----------------------------------------------------------------------------
(* What a transaction may hold while it waits.                             *)

\* It holds the locks in h and asks for the lock l.
MayWait(h, l) ==
    /\ "KEY" \in h \/ l = "KEY" => "FLOW" \in h
    /\ "FLOW" \in h => l \in {"KEY", "ATTEMPT", "BOOKING", "COMMAND"}
    /\ "FLOW" \in h /\ "COMMAND" \in h => "ATTEMPT" \in h
    /\ "FLOW" \notin h =>
          /\ "COMMAND" \notin h
          /\ "ATTEMPT" \in h => l = "COMMAND"
          /\ "BOOKING" \in h => l = "FLOW"
          /\ "REQUEST" \in h /\ "BOOKING" \notin h => l = "BOOKING"

LEMMA FlowsWait ==
    ASSUME NEW flow \in AllFlows, NEW k \in 0 .. Len(flow) - 1
    PROVE  MayWait({flow[i] : i \in 1 .. k}, flow[k + 1])
<1>1. CASE flow = CreatePaymentFlow
  BY <1>1 DEF CreatePaymentFlow, MayWait
<1>2. CASE flow = ReplayPaymentFlow
  BY <1>2 DEF ReplayPaymentFlow, MayWait
<1>3. CASE flow = ClaimNextFlow
  BY <1>3 DEF ClaimNextFlow, MayWait
<1>4. CASE flow = FinishAttemptFlow
  BY <1>4 DEF FinishAttemptFlow, MayWait
<1>5. CASE flow = FinalizeGatewayCaptureFlow
  BY <1>5 DEF FinalizeGatewayCaptureFlow, MayWait
<1>6. CASE flow = FinishTerminalPaymentFlow
  BY <1>6 DEF FinishTerminalPaymentFlow, MayWait
<1>7. CASE flow = FinishTerminalFlow
  BY <1>7 DEF FinishTerminalFlow, MayWait
<1>8. CASE flow = CancelPendingFlow
  BY <1>8 DEF CancelPendingFlow, MayWait
<1>9. CASE flow = WebhookSessionExpiredFlow
  BY <1>9 DEF WebhookSessionExpiredFlow, MayWait
<1>10. CASE flow = UpdateBookingStatusFlow
  BY <1>10 DEF UpdateBookingStatusFlow, MayWait
<1>11. CASE flow = ApproveRefundRequestFlow
  BY <1>11 DEF ApproveRefundRequestFlow, MayWait
<1>12. CASE flow = RejectRefundRequestFlow
  BY <1>12 DEF RejectRefundRequestFlow, MayWait
<1> QED
  BY <1>1, <1>2, <1>3, <1>4, <1>5, <1>6, <1>7, <1>8, <1>9, <1>10, <1>11, <1>12
     DEF AllFlows, GatewayFlows, LegacyFlows

LEMMA Waits ==
    ASSUME LockInv, NEW t \in Txns, todo[t] # <<>>
    PROVE  MayWait(held[t], Head(todo[t]))
<1>1. todo[t] \in Seq(Locks) /\ Len(todo[t]) \in Nat /\ Len(todo[t]) > 0 /\ Head(todo[t]) = todo[t][1]
  BY DEF LockInv, LocksTypeOK
<1>2a. PICK flow \in AllFlows : \E k \in 0 .. Len(flow) : Stage(t, flow, k)
  BY DEF LockInv, StageInv, NoLocks
<1>2. PICK k \in 0 .. Len(flow) : Stage(t, flow, k)
  BY <1>2a
<1>3. flow \in Seq(Locks) /\ Len(flow) \in Nat
  BY FlowsTyped
<1>4. k \in 0 .. Len(flow) - 1 /\ Head(todo[t]) = flow[k + 1]
  BY <1>1, <1>2, <1>3 DEF Stage
<1> QED
  BY <1>2, <1>4, FlowsWait DEF Stage

\* Transactions of one booking wait in a circle only where the trigger of
\* migration 030 asks for the advisory lock behind the booking's row, however
\* many of them and of whichever flows take part (paymentflow/lock.go).
THEOREM CyclesCorrect == LockSpec => []CyclesNeedTrigger
<1>1. LockInv => CyclesNeedTrigger
  <2> SUFFICES ASSUME LockInv, NEW S \in SUBSET Txns, WaitCycle(S),
                      \A t \in S : ~("BOOKING" \in held[t] /\ Head(todo[t]) = "FLOW")
               PROVE  FALSE
    BY DEF CyclesNeedTrigger
  <2> DEFINE asked(t) == Head(todo[t])
  <2>1. \A t, u \in S : t # u => held[t] \cap held[u] = {}
    BY DEF LockInv, LocksTypeOK
  <2>2. \A t \in S : MayWait(held[t], asked(t)) /\ \E u \in S : t # u /\ asked(t) \in held[u]
    BY Waits DEF WaitCycle, WaitsFor
  <2>3. \A t \in S : asked(t) \in Locks
    BY DEF LockInv, LocksTypeOK, WaitCycle, WaitsFor
  <2>4. \A t \in S : "BOOKING" \in held[t] => asked(t) # "FLOW"
    OBVIOUS
  <2> HIDE DEF asked
  <2>5. \A f \in S : "FLOW" \notin held[f]
    <3> SUFFICES ASSUME NEW f \in S, "FLOW" \in held[f] PROVE FALSE
      OBVIOUS
    <3>1. PICK u \in S : f # u /\ asked(f) \in held[u]
      BY <2>2
    <3>2. "FLOW" \notin held[u] /\ asked(f) \in {"KEY", "ATTEMPT", "BOOKING", "COMMAND"}
      BY <2>1, <2>2, <3>1 DEF MayWait
    <3>3. "ATTEMPT" \in held[u] /\ asked(u) = "COMMAND"
      BY <2>2, <2>4, <3>1, <3>2 DEF MayWait
    <3>4. PICK v \in S : u # v /\ "COMMAND" \in held[v]
      BY <2>2, <3>3
    <3>5. "ATTEMPT" \in held[v]
      BY <2>2, <3>4 DEF MayWait
    <3> QED
      BY <2>1, <3>3, <3>4, <3>5
  <2>6. \A u \in S : held[u] \cap {"FLOW", "KEY", "COMMAND", "BOOKING"} = {}
    BY <2>2, <2>4, <2>5 DEF MayWait
  <2>7. PICK t \in S, u \in S : asked(t) \in held[u]
    BY <2>2 DEF WaitCycle
  <2>8. asked(u) \in {"COMMAND", "BOOKING"}
    BY <2>2, <2>3, <2>5, <2>6, <2>7 DEF MayWait, Locks
  <2> QED
    BY <2>2, <2>6, <2>8
<1> QED
  BY <1>1, LocksStart, LockStep, PTL DEF LockSpec
=============================================================================
