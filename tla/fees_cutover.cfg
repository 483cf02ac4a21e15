SPECIFICATION Spec
CONSTANTS
    Ids = {1, 2}
    PolicyRequests <- SampleRequests
    LegacyRows <- SampleRows
    TermReqs = {r1, r2}
    Workloads <- SampleWorkloads
    TermInputs <- SampleTerms
    Activators = {c1}
    BatchSize = 1
    MaxClock = 2
    Fraction = Fraction
    None = None
INVARIANTS ResolverTotal TermAnswersAgree StaleOnlyBehindLateTerm DetectorClear BackfillComplete DetectorAgreesWithPolicy
CHECK_DEADLOCK FALSE
