-------------------------- MODULE BookingLifecycle --------------------------
(***************************************************************************)
(* What the tables bookings and owner_finance_transactions promise of one  *)
(* booking, whoever changes it: the owner's money moves in the same step   *)
(* as the status, a booking leaves an unpaid status only along the paths   *)
(* below, and COMPLETED and CANCELLED are final.  Bookings implements it   *)
(* for each row, GatewayPayments for the row the gateway pays.             *)
(***************************************************************************)
EXTENDS Naturals

VARIABLES
    status,     \* bookings.status, "NONE" before the row exists
    income,     \* income rows of the booking
    refund      \* refund rows of the booking

vars == <<status, income, refund>>

Init ==
    /\ status \in {"NONE", "PENDING_PAYMENT"}
    /\ income = 0
    /\ refund = 0

Move(from, to) == status \in from /\ status' = to

Reserve == Move({"NONE"}, "PENDING_PAYMENT") /\ UNCHANGED <<income, refund>>

\* An owner books offline what was already paid in cash.
RecordOffline ==
    /\ Move({"NONE"}, "PAID") \/ Move({"NONE"}, "COMPLETED")
    /\ income' = 1
    /\ UNCHANGED refund

\* The customer declares a payment; the owner may reject it.
Declare ==
    /\ \/ Move({"PENDING_PAYMENT"}, "WAITING_VERIFICATION")
       \/ Move({"PENDING_PAYMENT"}, "CONFIRMED")
       \/ Move({"WAITING_VERIFICATION"}, "PENDING_PAYMENT")
    /\ UNCHANGED <<income, refund>>

\* The owner received the money: the income row comes with the status.
PayOwner ==
    /\ Move({"WAITING_VERIFICATION", "CONFIRMED"}, "PAID")
    /\ income = 0 /\ income' = 1
    /\ UNCHANGED refund

\* The platform received the money: the owner has no cash to book.
PayGateway ==
    /\ Move({"PENDING_PAYMENT"}, "PAID")
    /\ income = 0
    /\ UNCHANGED <<income, refund>>

Complete == Move({"PAID"}, "COMPLETED") /\ UNCHANGED <<income, refund>>

Cancel == Move({"PENDING_PAYMENT"}, "CANCELLED") /\ UNCHANGED <<income, refund>>

\* Only money that was booked is refunded, once, and the booking ends with it.
Refund ==
    /\ Move({"PAID"}, "CANCELLED")
    /\ income = 1 /\ refund = 0
    /\ refund' = 1
    /\ UNCHANGED income

Next ==
    \/ Reserve
    \/ RecordOffline
    \/ Declare
    \/ PayOwner
    \/ PayGateway
    \/ Complete
    \/ Cancel
    \/ Refund

Spec == Init /\ [][Next]_vars
=============================================================================
