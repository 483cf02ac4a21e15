-------------------------------- MODULE Fees --------------------------------
(***************************************************************************)
(* The fee arithmetic of platformfinance, shared by the booking flow, the  *)
(* cutover detector and the reports.  Amounts are whole rupiah.            *)
(***************************************************************************)
EXTENDS Integers

Online == "MARKETPLACE_ONLINE"
WalkIn == "OWNER_WALK_IN"

Divisor == 10000
MaxBps == 3000

\* Altered form: the remainder is cut off, as the preview does.
CommissionAmountTruncated(basis, bps) ==
    (basis \div Divisor) * bps + (((basis % Divisor) * bps) \div Divisor)

\* The commission, computed on the whole and the remaining part of the basis
\* so that no product overflows, rounded half up.
CommissionAmount(basis, bps) ==
    LET product == (basis % Divisor) * bps
    IN  (basis \div Divisor) * bps + (product \div Divisor)
          + (IF product % Divisor >= Divisor \div 2 THEN 1 ELSE 0)

\* The same amount as SQL's ROUND and the detector write it.
RoundedShare(basis, bps) == (basis * bps + Divisor \div 2) \div Divisor
=============================================================================
