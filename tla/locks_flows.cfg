SPECIFICATION LockFairSpec
CONSTANTS
    Txns = {t1, t2, t3}
    Flows <- AllFlows
INVARIANTS LocksTypeOK CyclesNeedTrigger
PROPERTY TransactionsEnd
