----------------------------- MODULE MCBookings -----------------------------
(***************************************************************************)
(* Values of the constants of Bookings for TLC.                            *)
(***************************************************************************)
EXTENDS Bookings, TLC

\* Two overlapping intervals, late enough for a refund to be asked for before
\* the cutoff and for a deadline to pass before the start.
OverlappingIntervals == {<<2, 4>>, <<3, 4>>}

\* Two overlapping intervals early in the first day.
EarlyOverlap == {<<1, 3>>, <<2, 3>>}

=============================================================================
