---------------------------- MODULE WebhookInbox ----------------------------
(***************************************************************************)
(* The inbox of provider webhooks.  Handlers turn deliveries into rows of  *)
(* payment_webhook_events, one per provider_event_key, and answer 200 or   *)
(* 503; the provider redelivers what was not answered with 200.  Inbox     *)
(* processors claim verified rows and apply them to payment attempts that  *)
(* the payment workers change at the same time.  A handler looks up the    *)
(* attempt before its transaction begins; a processor's transaction holds  *)
(* its row from the claim to the commit.  A delivery that is refused before *)
(* the lookup (401, 400, 413, 415) changes nothing and is left out.        *)
(***************************************************************************)
EXTENDS Naturals, Sequences, SequencesExt

CONSTANTS
    Sessions,    \* checkout sessions; each is, or will be, known to one attempt
    Events,      \* provider_event_key: <<session, event type>>
    Bodies,      \* raw_body_hash
    Mismatched,  \* bodies whose amount, currency or references are not the attempt's
    Suspect,     \* bodies ParseWebhook quarantines whatever the attempt
    Handlers,    \* webhook requests being served
    Processors,  \* inbox processors, one per API process
    None         \* no event, no body

SessionTypes == {"payment_session.completed", "payment_session.expired"}
EventTypes   == SessionTypes \cup {"payment.capture"}

ASSUME InboxAssumption ==
    /\ Events \subseteq Sessions \X EventTypes
    /\ Mismatched \subseteq Bodies
    /\ Suspect \subseteq Bodies
    /\ None \notin Events \cup Bodies

VARIABLES
    contract,    \* PAYMENT_WEBHOOK_CONTRACT_VERSION of the deployed processes
    attempt,     \* payment_attempts.state
    known,       \* the provider identity is bound to the attempt
    row,         \* payment_webhook_events
    queue,       \* the rows' keys in the order of received_at, id
    handler,     \* what each request is doing
    processor,   \* what each processor is doing
    sent,        \* deliveries the provider has made
    acked,       \* deliveries it has an answer 200 for
    conflicted   \* events delivered again with another body, and answered

payment == <<attempt, known>>
inbox   == <<row, queue>>
answers == <<sent, acked, conflicted>>
vars    == <<contract, payment, inbox, handler, processor, answers>>

Session(e)   == e[1]
EventType(e) == e[2]

RowAt(proc, verif, body, bound) ==
    [proc |-> proc, verif |-> verif, body |-> body, bound |-> bound]

NoRow == RowAt("ABSENT", "DIAGNOSTIC", None, FALSE)

HandlerAt(pc, e, b, bound, verif) ==
    [pc |-> pc, event |-> e, body |-> b, bound |-> bound, verif |-> verif]

HandlerIdle == HandlerAt("IDLE", None, None, FALSE, "DIAGNOSTIC")

\* seen is the state of the attempt as applyNonCaptureState read it.
ProcessorAt(pc, e, seen) == [pc |-> pc, event |-> e, seen |-> seen]

ProcessorIdle == ProcessorAt("IDLE", None, "CREATED")

Init ==
    /\ contract = "PROVISIONAL"
    /\ attempt = [s \in Sessions |-> "CREATED"]
    /\ known = [s \in Sessions |-> FALSE]
    /\ row = [e \in Events |-> NoRow]
    /\ queue = <<>>
    /\ handler = [h \in Handlers |-> HandlerIdle]
    /\ processor = [p \in Processors |-> ProcessorIdle]
    /\ sent = {}
    /\ acked = {}
    /\ conflicted = {}

\* The operator deploys the verified contract, which starts the processors.
DeployVerifiedContract ==
    /\ contract = "PROVISIONAL"
    /\ contract' = "VERIFIED"
    /\ UNCHANGED <<payment, inbox, handler, processor, answers>>

-----------------------------------------------------------------------------
(***************************************************************************)
(* What the payment worker does to the attempt meanwhile.                  *)
(***************************************************************************)
\* The create call's outcome is unknown: PENDING, without an identity.
FinishCreateTimeout(s) ==
    /\ attempt[s] = "CREATED"
    /\ attempt' = [attempt EXCEPT ![s] = "PENDING"]
    /\ UNCHANGED <<contract, known, inbox, handler, processor, answers>>

\* The create or inquiry answer binds the identity.
BindIdentity(s) ==
    /\ attempt[s] \in {"CREATED", "PENDING"}
    /\ attempt' = [attempt EXCEPT ![s] = "PENDING"]
    /\ known' = [known EXCEPT ![s] = TRUE]
    /\ UNCHANGED <<contract, inbox, handler, processor, answers>>

FinishTerminalPayment(s) ==
    /\ known[s] /\ attempt[s] = "PENDING"
    /\ attempt' = [attempt EXCEPT ![s] = "EXPIRED"]
    /\ UNCHANGED <<contract, known, inbox, handler, processor, answers>>

\* RecordCaptureTx takes an expired attempt too.
RecordCapture(s) ==
    /\ known[s] /\ attempt[s] \in {"PENDING", "EXPIRED"}
    /\ attempt' = [attempt EXCEPT ![s] = "CAPTURED"]
    /\ UNCHANGED <<contract, known, inbox, handler, processor, answers>>

-----------------------------------------------------------------------------
(***************************************************************************)
(* A request.                                                              *)
(***************************************************************************)
Delivery(h) == <<handler[h].event, handler[h].body>>

FindAttemptContext(e, b) == b \notin Suspect /\ known[Session(e)]

\* The second normalisation compares with the attempt, when there is one.
Verification(e, b) ==
    IF b \in Suspect \/ (FindAttemptContext(e, b) /\ b \in Mismatched) THEN "QUARANTINED"
    ELSE IF contract = "VERIFIED" /\ EventType(e) \in SessionTypes THEN "VERIFIED"
    ELSE "DIAGNOSTIC"

Receive(h, e, b) ==
    /\ handler[h].pc = "IDLE"
    /\ handler' = [handler EXCEPT ![h] =
                     HandlerAt("LOOKED", e, b, FindAttemptContext(e, b), Verification(e, b))]
    /\ sent' = sent \cup {<<e, b>>}
    /\ UNCHANGED <<contract, payment, inbox, processor, acked, conflicted>>

\* A database error or the ingress deadline: rolled back, 503.
ReceiveFails(h) ==
    /\ handler[h].pc # "IDLE"
    /\ handler' = [handler EXCEPT ![h] = HandlerIdle]
    /\ UNCHANGED <<contract, payment, inbox, processor, answers>>

Locked(e) == \E p \in Processors : processor[p].pc = "CLAIMED" /\ processor[p].event = e

\* SELECT ... FOR UPDATE of Accept; a row a processor holds makes it wait.
Selecting(h) == handler[h].pc = "LOOKED" /\ ~Locked(handler[h].event)

SelectedRow(h) == row[handler[h].event]

Finished == {"PROCESSED", "TERMINAL"}

Answer200(h) ==
    /\ acked' = acked \cup {Delivery(h)}
    /\ handler' = [handler EXCEPT ![h] = HandlerIdle]

AcceptFindsNoRow(h) ==
    /\ Selecting(h)
    /\ SelectedRow(h).proc = "ABSENT"
    /\ handler' = [handler EXCEPT ![h].pc = "INSERTING"]
    /\ UNCHANGED <<contract, payment, inbox, processor, answers>>

AcceptDuplicate(h) ==
    /\ Selecting(h)
    /\ SelectedRow(h).proc # "ABSENT" /\ SelectedRow(h).body = handler[h].body
    /\ Answer200(h)
    /\ UNCHANGED <<contract, payment, inbox, processor, sent, conflicted>>

Quarantined(r) == RowAt("TERMINAL", "QUARANTINED", r.body, r.bound)

\* Altered form: the conflict is audited and the open row left as it is.
QuarantineNothing(e) == row' = row

\* Altered form: the update does not look at the processing state, and the
\* trigger refuses to touch a finished row.
QuarantineAlways(e) ==
    /\ row[e].verif # "VERIFIED" /\ row[e].proc \notin Finished
    /\ row' = [row EXCEPT ![e] = Quarantined(@)]

(***************************************************************************)
(* The update of a conflicting delivery; only an open row is touched.  The *)
(* trigger guard_payment_webhook_event_lifecycle lets no verified row      *)
(* become quarantined: then the whole transaction fails.                   *)
(***************************************************************************)
QuarantineOpenRow(e) ==
    \/ row[e].proc \in Finished /\ row' = row
    \/ /\ row[e].proc \notin Finished /\ row[e].verif # "VERIFIED"
       /\ row' = [row EXCEPT ![e] = Quarantined(@)]

Conflicting(h) ==
    /\ Selecting(h)
    /\ SelectedRow(h).proc # "ABSENT" /\ SelectedRow(h).body # handler[h].body
    /\ conflicted' = conflicted \cup {handler[h].event}

AcceptConflict(h) ==
    /\ Conflicting(h)
    /\ QuarantineOpenRow(handler[h].event)
    /\ Answer200(h)
    /\ UNCHANGED <<contract, payment, queue, processor, sent>>

AcceptConflictRefused(h) ==
    /\ Conflicting(h)
    /\ SelectedRow(h).proc \notin Finished /\ SelectedRow(h).verif = "VERIFIED"
    /\ handler' = [handler EXCEPT ![h] = HandlerIdle]
    /\ UNCHANGED <<contract, payment, inbox, processor, sent, acked>>

InitialLifecycle(verif) == IF verif = "QUARANTINED" THEN "TERMINAL" ELSE "RECEIVED"

\* Altered form: the attempt is looked up again by the insert.
InsertedRowLookedUpAgain(h) ==
    RowAt(InitialLifecycle(handler[h].verif), handler[h].verif, handler[h].body,
          FindAttemptContext(handler[h].event, handler[h].body))

InsertedRow(h) ==
    RowAt(InitialLifecycle(handler[h].verif), handler[h].verif, handler[h].body,
          handler[h].bound)

\* received_at is the handler's clock, so the row may sort before older ones.
AcceptInserts(h) ==
    /\ handler[h].pc = "INSERTING"
    /\ SelectedRow(h).proc = "ABSENT"
    /\ row' = [row EXCEPT ![handler[h].event] = InsertedRow(h)]
    /\ \E i \in 1 .. Len(queue) + 1 : queue' = InsertAt(queue, i, handler[h].event)
    /\ Answer200(h)
    /\ UNCHANGED <<contract, payment, processor, sent, conflicted>>

\* Another request inserted the key first: unique violation, 503.
AcceptInsertCollides(h) ==
    /\ handler[h].pc = "INSERTING"
    /\ SelectedRow(h).proc # "ABSENT"
    /\ handler' = [handler EXCEPT ![h] = HandlerIdle]
    /\ UNCHANGED <<contract, payment, inbox, processor, answers>>

-----------------------------------------------------------------------------
(***************************************************************************)
(* A processor.  The claim's PROCESSING is committed only together with    *)
(* PROCESSED, so no other transaction sees it and reclaimStaleProcessing   *)
(* finds nothing; a failure puts the row back to RECEIVED.                 *)
(***************************************************************************)
Claimable(e) ==
    /\ row[e].verif = "VERIFIED" /\ row[e].proc = "RECEIVED"
    /\ EventType(e) \in SessionTypes
    /\ ~Locked(e)

ClaimNext(p) ==
    /\ contract = "VERIFIED"
    /\ processor[p].pc = "IDLE"
    /\ \E i \in DOMAIN queue :
         /\ Claimable(queue[i])
         /\ \A j \in 1 .. i - 1 : ~Claimable(queue[j])
         /\ processor' = [processor EXCEPT ![p] =
              ProcessorAt("CLAIMED", queue[i], attempt[Session(queue[i])])]
    /\ UNCHANGED <<contract, payment, inbox, handler, answers>>

Claimed(p, type) ==
    processor[p].pc = "CLAIMED" /\ EventType(processor[p].event) = type

ClaimedRow(p) == row[processor[p].event]

MarkProcessed(p) ==
    /\ row' = [row EXCEPT ![processor[p].event].proc = "PROCESSED"]
    /\ processor' = [processor EXCEPT ![p] = ProcessorIdle]

\* Completion of a checkout proves no capture.
ProcessCompleted(p) ==
    /\ Claimed(p, "payment_session.completed")
    /\ MarkProcessed(p)
    /\ UNCHANGED <<contract, payment, queue, handler, answers>>

\* TransitionStateTx reads the state again under the row lock.
TransitionState(p, s) ==
    attempt' = [attempt EXCEPT ![s] =
                  IF processor[p].seen = "PENDING" /\ @ = "PENDING" THEN "EXPIRED" ELSE @]

ProcessExpired(p) ==
    /\ Claimed(p, "payment_session.expired")
    /\ ClaimedRow(p).bound
    /\ TransitionState(p, Session(processor[p].event))
    /\ MarkProcessed(p)
    /\ UNCHANGED <<contract, known, queue, handler, answers>>

\* REFERENCE_MISMATCH: the claim is rolled back, then the row terminalized.
RejectUnbound(p) ==
    /\ Claimed(p, "payment_session.expired")
    /\ ~ClaimedRow(p).bound
    /\ processor' = [processor EXCEPT ![p].pc = "TERMINALIZING"]
    /\ UNCHANGED <<contract, payment, inbox, handler, answers>>

\* Altered form: only a row in PROCESSING is terminalized.
TerminalizeProcessing(e) == row' = row

\* No row updated is ErrStateConflict, which the worker's loop survives.
TerminalizeOpen(e) ==
    row' = [row EXCEPT ![e].proc =
              IF @ = "RECEIVED" /\ row[e].verif = "VERIFIED" THEN "TERMINAL" ELSE @]

MarkTerminal(p) ==
    /\ processor[p].pc = "TERMINALIZING"
    /\ ~Locked(processor[p].event)
    /\ TerminalizeOpen(processor[p].event)
    /\ processor' = [processor EXCEPT ![p] = ProcessorIdle]
    /\ UNCHANGED <<contract, payment, queue, handler, answers>>

\* A crash, a database error or a failed audit row: rolled back.
ProcessorFails(p) ==
    /\ processor[p].pc # "IDLE"
    /\ processor' = [processor EXCEPT ![p] = ProcessorIdle]
    /\ UNCHANGED <<contract, payment, inbox, handler, answers>>

-----------------------------------------------------------------------------
PaymentStep(s) ==
    \/ FinishCreateTimeout(s)
    \/ BindIdentity(s)
    \/ FinishTerminalPayment(s)
    \/ RecordCapture(s)

Accept(h) ==
    \/ AcceptFindsNoRow(h)
    \/ AcceptDuplicate(h)
    \/ AcceptConflict(h)
    \/ AcceptConflictRefused(h)
    \/ AcceptInserts(h)
    \/ AcceptInsertCollides(h)

Process(p) ==
    \/ ProcessCompleted(p)
    \/ ProcessExpired(p)
    \/ RejectUnbound(p)
    \/ MarkTerminal(p)

Next ==
    \/ DeployVerifiedContract
    \/ \E s \in Sessions : PaymentStep(s)
    \/ \E h \in Handlers :
         \/ \E e \in Events, b \in Bodies : Receive(h, e, b)
         \/ Accept(h)
         \/ ReceiveFails(h)
    \/ \E p \in Processors : ClaimNext(p) \/ Process(p) \/ ProcessorFails(p)

Spec == Init /\ [][Next]_vars

(***************************************************************************)
(* The processor's loop polls for ever, in each of its processes, and no   *)
(* transaction fails for ever: one that can commit again and again does.   *)
(***************************************************************************)
ProcessorFairness ==
    \A p \in Processors :
        /\ WF_vars(ClaimNext(p))
        /\ SF_vars(ProcessCompleted(p) \/ ProcessExpired(p))
        /\ SF_vars(RejectUnbound(p))
        /\ SF_vars(MarkTerminal(p))

ProcessorSpec == Spec /\ ProcessorFairness

(***************************************************************************)
(* The provider delivers again what was not answered with 200, and a       *)
(* delivery that is made again and again does not fail every time.         *)
(***************************************************************************)
Redelivers(e, b) ==
    /\ <<e, b>> \in sent \ acked
    /\ \E h \in Handlers : Receive(h, e, b)

Answered(e, b) ==
    \E h \in Handlers :
        /\ Delivery(h) = <<e, b>>
        /\ AcceptDuplicate(h) \/ AcceptConflict(h) \/ AcceptInserts(h)

DeliveryFairness ==
    /\ \A e \in Events, b \in Bodies : SF_vars(Redelivers(e, b)) /\ SF_vars(Answered(e, b))
    /\ SF_vars(\E h \in Handlers : AcceptFindsNoRow(h))
    /\ \A h \in Handlers : WF_vars(AcceptConflictRefused(h)) /\ WF_vars(AcceptInsertCollides(h))

DeliverySpec == Spec /\ ProcessorFairness /\ DeliveryFairness

-----------------------------------------------------------------------------
HandlerStates ==
    [pc : {"IDLE", "LOOKED", "INSERTING"}, event : Events \cup {None},
     body : Bodies \cup {None}, bound : BOOLEAN,
     verif : {"DIAGNOSTIC", "VERIFIED", "QUARANTINED"}]

RowStates ==
    [proc : {"ABSENT", "RECEIVED", "PROCESSED", "TERMINAL"},
     verif : {"DIAGNOSTIC", "VERIFIED", "QUARANTINED"},
     body : Bodies \cup {None}, bound : BOOLEAN]

AttemptStates == {"CREATED", "PENDING", "EXPIRED", "CAPTURED"}

ProcessorStates ==
    [pc : {"IDLE", "CLAIMED", "TERMINALIZING"}, event : Events \cup {None},
     seen : AttemptStates]

\* Type invariant, with chk_payment_webhook_event_quarantine: a quarantined row
\* is TERMINAL, whichever transaction wrote it last.
TypeOK ==
    /\ contract \in {"PROVISIONAL", "VERIFIED"}
    /\ attempt \in [Sessions -> AttemptStates]
    /\ known \in [Sessions -> BOOLEAN]
    /\ row \in [Events -> RowStates]
    /\ \A e \in Events : row[e].verif = "QUARANTINED" => row[e].proc = "TERMINAL"
    /\ queue \in Seq(Events)
    /\ handler \in [Handlers -> HandlerStates]
    /\ processor \in [Processors -> ProcessorStates]
    /\ sent \subseteq Events \X Bodies
    /\ acked \subseteq sent
    /\ conflicted \subseteq Events

\* A delivery answered with 200 is durable: its event has a row, and the row
\* either carries the delivered body or will never be applied any more.  The
\* provider stops redelivering on 200, so an answer without this loses the event.
AckedIsRecorded ==
    \A d \in acked :
        /\ row[d[1]].proc # "ABSENT"
        /\ row[d[1]].body = d[2] \/ row[d[1]].proc \in Finished

\* A captured attempt stays captured whatever an inbox processor read before
\* the capture was committed (applyNonCaptureState, TransitionStateTx).
CapturedStays ==
    [][\A s \in Sessions : attempt[s] = "CAPTURED" => attempt'[s] = "CAPTURED"]_vars

\* An event changes an attempt only if the event's body was compared with that
\* attempt and agreed with it, also when the identity was bound between the
\* handler's lookup and its insert.
OnlyComparedEventsApply ==
    [][\A e \in Events :
         row[e].proc # "PROCESSED" /\ row'[e].proc = "PROCESSED" /\ attempt' # attempt =>
             /\ row[e].body \notin Mismatched \cup Suspect
             /\ known[Session(e)]]_vars

\* Once the processors run, every verified event is processed or terminalized,
\* also one that no attempt is known for, and none behind it is held up.
EventsSettle ==
    \A e \in Events :
        row[e].verif = "VERIFIED" /\ row[e].proc = "RECEIVED" ~> row[e].proc \in Finished

\* The provider's retries of a delivery end: it is answered with 200 in the
\* end, a conflicting one once the first event of its key is settled.
DeliveryAccepted ==
    \A e \in Events, b \in Bodies : <<e, b>> \in sent ~> <<e, b>> \in acked

\* "Same key with a different hash is quarantined and cannot mutate state."
\* (docs/task_5a-05_payment_technical_contract.md)
ConflictCannotMutate ==
    [][\A e \in conflicted :
         row[e].proc = "RECEIVED" /\ row'[e].proc = "PROCESSED" => attempt' = attempt]_vars

-----------------------------------------------------------------------------
(***************************************************************************)
(* What the proofs add to make the properties inductive.                   *)
(***************************************************************************)
\* A request or a processor that is busy has an event.
BusyInv ==
    /\ \A h \in Handlers : handler[h].pc # "IDLE" =>
         handler[h].event \in Events /\ handler[h].body \in Bodies /\ Delivery(h) \in sent
    /\ \A p \in Processors : processor[p].pc # "IDLE" => processor[p].event \in Events

\* A claimed event is and stays a verified row.
ClaimInv ==
    \A p \in Processors : processor[p].pc # "IDLE" =>
        /\ row[processor[p].event].verif = "VERIFIED"
        /\ row[processor[p].event].proc # "ABSENT"

Compared(e, b) == b \notin Mismatched \cup Suspect /\ known[Session(e)]

\* A bound event that was not quarantined was compared with its attempt, from
\* the handler's lookup on.
ComparedInv ==
    /\ \A h \in Handlers :
         handler[h].pc # "IDLE" /\ handler[h].bound /\ handler[h].verif # "QUARANTINED" =>
             Compared(handler[h].event, handler[h].body)
    /\ \A e \in Events :
         row[e].bound /\ row[e].verif # "QUARANTINED" => Compared(e, row[e].body)

=============================================================================
