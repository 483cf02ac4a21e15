--------------------------- MODULE MCOpenMatches ---------------------------
(* One match; its host and two customers for one or two places.                                  *)
EXTENDS OpenMatches

SampleHost == [m \in Matches |-> "host"]
=============================================================================
