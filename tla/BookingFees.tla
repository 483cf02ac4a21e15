---------------------------- MODULE BookingFees -----------------------------
(***************************************************************************)
(* What a booking is charged: the parameters that the calculator accepts   *)
(* and the amounts of the snapshot it returns for them.                    *)
(***************************************************************************)
EXTENDS Fees

CONSTANT None    \* SQL's NULL, a missing row, an absent answer

\* CalculateBookingFees: the amounts of a snapshot, or None when the
\* parameters are refused.  A walk-in booking pays no commission.
CalculateBookingFees(p, bps) ==
    LET final == p.original + p.adjustment
        effective == IF p.channel = WalkIn THEN 0 ELSE bps
        commission == CommissionAmount(final, effective)
    IN  IF bps \in 0 .. MaxBps /\ (p.adjustment # 0 => p.reason) /\ final >= 0
        THEN [final |-> final, bps |-> effective, commission |-> commission,
              net |-> final - commission]
        ELSE None
=============================================================================
