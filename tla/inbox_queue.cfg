SPECIFICATION ProcessorSpec
CONSTANTS
    s1 = s1
    Sessions = {s1}
    Events <- SessionEvents
    Bodies = {b1}
    Mismatched = {}
    Suspect = {}
    Handlers = {h1}
    Processors = {p1, p2}
    None = None
PROPERTIES EventsSettle
CHECK_DEADLOCK FALSE
