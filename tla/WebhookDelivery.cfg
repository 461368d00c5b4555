CONSTANTS
    e1 = e1
    e2 = e2
    Delivery <- TwoDeliveries
    Configured = TRUE
    MaxAttempts = 3
SPECIFICATION Spec
INVARIANT BackoffIsLinear
PROPERTIES NoPostAfterAnswer ImplementsEventDelivery CallEnds
CHECK_DEADLOCK FALSE
