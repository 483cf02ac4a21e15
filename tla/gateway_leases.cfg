SPECIFICATION Spec
CONSTANTS
    Attempts = {a1}
    Workers = {w1, w2}
    None = None
INVARIANTS OnTimeCapturePays CancelledNeverDispatched CommandsFollowAttempt
PROPERTIES PaidByLiveAttempt GatewayFollowsLifecycle
CHECK_DEADLOCK FALSE
