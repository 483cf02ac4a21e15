-------------------------- MODULE MCFinanceReports --------------------------
(* An online and a walk-in booking at two venues of one owner.             *)
EXTENDS FinanceReports, TLC

\* The price of the online booking makes 7% end on half a rupiah.
SampleFacts == 1 :> [venue |-> "v1", price |-> 1050, channel |-> Online]
            @@ 2 :> [venue |-> "v2", price |-> 990, channel |-> WalkIn]

SampleOwners == [v \in {"v1", "v2"} |-> "o1"]

\* A refund of the walk-in booking with another amount, one of the online
\* booking moved to another venue, and an entry with a fraction of a rupiah.
SampleInputs == {[type |-> "EXPENSE", venue |-> "v2", amount |-> 105000],
                 [type |-> "EXPENSE", venue |-> "v1", amount |-> 1050]}
=============================================================================
