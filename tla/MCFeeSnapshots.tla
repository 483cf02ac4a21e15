--------------------------- MODULE MCFeeSnapshots ---------------------------
EXTENDS FeeSnapshots, TLC

\* An online booking with a promo whose commission is rounded, and a walk-in
\* booking the owner overrides.
SampleRequests ==
    {[channel |-> Online, original |-> 20008, adjustment |-> -5000, reason |-> TRUE],
     [channel |-> WalkIn, original |-> 10000, adjustment |-> 500, reason |-> TRUE]}

\* A row from before the price columns existed, and one with a fractional total.
SampleRows ==
    {[channel |-> Online, original |-> None, final |-> None, total |-> 15000, discount |-> 0,
      offSystem |-> None, offFinal |-> None, reason |-> FALSE],
     [channel |-> Online, original |-> None, final |-> None, total |-> Fraction, discount |-> 0,
      offSystem |-> None, offFinal |-> None, reason |-> FALSE]}

\* A new global rate, a second body under the same key, a rate above the limit,
\* an owner's rate and a LIVE request.
SampleTerms ==
    {[key |-> "k1", scope |-> Global, bps |-> 1000, from |-> 1, mode |-> "SIMULATION"],
     [key |-> "k1", scope |-> Global, bps |-> 1000, from |-> 2, mode |-> "SIMULATION"],
     [key |-> "k3", scope |-> Global, bps |-> 3001, from |-> 1, mode |-> "SIMULATION"],
     [key |-> "k2", scope |-> Owner, bps |-> 500, from |-> 1, mode |-> "SIMULATION"],
     [key |-> "k1", scope |-> Global, bps |-> 1000, from |-> 2, mode |-> "LIVE"]}

\* Two bookings around the cutover and the backfill, or one booking beside two
\* calls of CreateTerm.
SampleWorkloads ==
    {[bookings |-> Ids, calls |-> {}], [bookings |-> {1}, calls |-> TermReqs]}
=============================================================================
