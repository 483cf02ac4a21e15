------------------------------ MODULE LockOrder -----------------------------
(***************************************************************************)
(* The locks that the transactions around one booking take, in the order   *)
(* the code and the triggers take them, and what PostgreSQL does when they *)
(* wait in a circle.  FLOW is the advisory lock of paymentflow.LockBooking *)
(* and KEY that of lockCreateIdempotency; the others are row locks.  Rows  *)
(* a transaction inserts itself are not contended.                         *)
(*                                                                         *)
(* What every specification has, LockInit to LockSpec, carries a prefix:   *)
(* InboxLockProofs extends this module and WebhookInbox.                   *)
(***************************************************************************)
EXTENDS Sequences, FiniteSets

CONSTANTS
    Txns,       \* concurrent transactions, one per connection
    Flows       \* the flows they run, a subset of AllFlows

-----------------------------------------------------------------------------
\* A new attempt: lockPaymentBooking is SELECT ... FOR UPDATE.
CreatePaymentFlow == <<"FLOW", "KEY", "BOOKING">>

\* A replayed one: the stored attempt, its booking, its command.
ReplayPaymentFlow == <<"FLOW", "KEY", "ATTEMPT", "BOOKING", "COMMAND">>

\* Altered form: the candidate is locked before its booking's flow.
ClaimCommandFirstFlow == <<"COMMAND", "FLOW">>

\* The candidate is read without a lock, and locked under its booking's flow.
ClaimNextFlow == <<"FLOW", "COMMAND">>

\* The finishers that look at the attempt again, and ApplyCreateResult.
FinishAttemptFlow == <<"FLOW", "ATTEMPT", "COMMAND">>

FinalizeGatewayCaptureFlow == <<"FLOW", "ATTEMPT", "BOOKING", "COMMAND">>

\* The inquiry of an expired session, which takes no advisory lock.
FinishTerminalPaymentFlow == <<"ATTEMPT", "COMMAND">>

FinishTerminalFlow == <<"COMMAND">>

CancelPendingFlow == <<"FLOW", "ATTEMPT", "COMMAND", "BOOKING">>

WebhookSessionExpiredFlow == <<"ATTEMPT">>

\* An UPDATE of bookings.status locks the row; then its trigger asks for FLOW.
UpdateBookingStatusFlow == <<"BOOKING", "FLOW">>

ApproveRefundRequestFlow == <<"REQUEST", "BOOKING", "FLOW">>

RejectRefundRequestFlow == <<"REQUEST">>

GatewayFlows ==
    {CreatePaymentFlow, ReplayPaymentFlow, ClaimNextFlow, FinishAttemptFlow,
     FinalizeGatewayCaptureFlow, FinishTerminalPaymentFlow, FinishTerminalFlow,
     CancelPendingFlow, WebhookSessionExpiredFlow}

LegacyFlows == {UpdateBookingStatusFlow, ApproveRefundRequestFlow, RejectRefundRequestFlow}

AllFlows == GatewayFlows \cup LegacyFlows

ASSUME FlowsAssumption == Flows \subseteq AllFlows /\ IsFiniteSet(Txns)

-----------------------------------------------------------------------------
VARIABLES
    held,   \* locks of each transaction
    todo    \* locks it has yet to take, in order

lockVars == <<held, todo>>

LockInit ==
    /\ held = [t \in Txns |-> {}]
    /\ todo = [t \in Txns |-> <<>>]

NoLocks(t) == held[t] = {} /\ todo[t] = <<>>

Begin(t, flow) ==
    /\ NoLocks(t)
    /\ todo' = [todo EXCEPT ![t] = flow]
    /\ UNCHANGED held

\* Altered form: row locks taken FOR SHARE do not exclude one another.
AcquireShared(t) ==
    /\ todo[t] # <<>>
    /\ held' = [held EXCEPT ![t] = @ \cup {Head(todo[t])}]
    /\ todo' = [todo EXCEPT ![t] = Tail(@)]

\* A lock is granted when no other transaction holds it.
Acquire(t) ==
    /\ todo[t] # <<>>
    /\ \A u \in Txns \ {t} : Head(todo[t]) \notin held[u]
    /\ held' = [held EXCEPT ![t] = @ \cup {Head(todo[t])}]
    /\ todo' = [todo EXCEPT ![t] = Tail(@)]

\* Altered form: a session-level advisory lock outlives the transaction.
ReleaseRowLocks(t) ==
    /\ held' = [held EXCEPT ![t] = @ \cap {"FLOW"}]
    /\ todo' = [todo EXCEPT ![t] = <<>>]

Release(t) ==
    /\ held' = [held EXCEPT ![t] = {}]
    /\ todo' = [todo EXCEPT ![t] = <<>>]

Commit(t) ==
    /\ todo[t] = <<>> /\ held[t] # {}
    /\ Release(t)

\* A failed check, a lost connection or a cancelled context.
Rollback(t) ==
    /\ ~NoLocks(t)
    /\ Release(t)

WaitsFor(t, u) == t # u /\ todo[t] # <<>> /\ Head(todo[t]) \in held[u]

WaitCycle(S) == S # {} /\ \A t \in S : \E u \in S : WaitsFor(t, u)

\* PostgreSQL's detector ends one of the waiting transactions (40P01).
DeadlockVictim(t) ==
    /\ \E S \in SUBSET Txns : t \in S /\ WaitCycle(S)
    /\ Release(t)

LockNext ==
    \E t \in Txns :
        \/ \E flow \in Flows : Begin(t, flow)
        \/ Acquire(t)
        \/ Commit(t)
        \/ Rollback(t)
        \/ DeadlockVictim(t)

LockSpec == LockInit /\ [][LockNext]_lockVars

(***************************************************************************)
(* A lock queue is first come, first served, so a transaction that keeps   *)
(* asking is granted the lock; a statement that was granted its locks runs *)
(* to its commit; the detector runs after deadlock_timeout.  No rollback   *)
(* is owed to anyone.                                                      *)
(***************************************************************************)
LockFairness ==
    \A t \in Txns :
        /\ SF_lockVars(Acquire(t))
        /\ WF_lockVars(Commit(t))
        /\ WF_lockVars(DeadlockVictim(t))

LockFairSpec == LockSpec /\ LockFairness

-----------------------------------------------------------------------------
Locks == {"FLOW", "KEY", "ATTEMPT", "BOOKING", "COMMAND", "REQUEST"}

(***************************************************************************)
(* No lock has two holders, and no transaction asks again for a lock it    *)
(* already has.                                                            *)
(***************************************************************************)
LocksTypeOK ==
    /\ held \in [Txns -> SUBSET Locks]
    /\ todo \in [Txns -> Seq(Locks)]
    /\ \A t, u \in Txns : t # u => held[t] \cap held[u] = {}

(***************************************************************************)
(* Transactions wait in a circle only through the trigger of migration     *)
(* 030, which asks for the advisory lock after the UPDATE of bookings has  *)
(* locked the row.  No other pair of flows does, although a capture takes  *)
(* the booking before the command, a cancellation the command before the   *)
(* booking, and two flows take no advisory lock.                           *)
(***************************************************************************)
CyclesNeedTrigger ==
    \A S \in SUBSET Txns : WaitCycle(S) =>
        \E t \in S : "BOOKING" \in held[t] /\ Head(todo[t]) = "FLOW"

(***************************************************************************)
(* "Every caller must acquire it before locking a payment attempt or       *)
(* booking row" (paymentflow/lock.go), so no two transactions of a booking *)
(* wait for one another in a circle.                                       *)
(***************************************************************************)
NoWaitCycle == \A S \in SUBSET Txns : ~WaitCycle(S)

(***************************************************************************)
(* Every transaction ends, the ones whose triggers take the advisory lock  *)
(* after the booking row included: what they cannot avoid, the detector    *)
(* breaks, and nothing keeps the advisory lock beyond its transaction.     *)
(***************************************************************************)
TransactionsEnd == \A t \in Txns : ~NoLocks(t) ~> NoLocks(t)
=============================================================================
