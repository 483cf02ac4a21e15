SPECIFICATION DeliverySpec
CONSTANTS
    s1 = s1
    Sessions = {s1}
    Events <- OneEvent
    Bodies = {b1, b2}
    Mismatched = {b2}
    Suspect = {}
    Handlers = {h1, h2}
    Processors = {p1}
    None = None
INVARIANT AckedIsRecorded
PROPERTIES OnlyComparedEventsApply DeliveryAccepted
CHECK_DEADLOCK FALSE
