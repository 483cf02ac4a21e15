SPECIFICATION FairSpec
CONSTANTS
    Requests = {q1, q2}
    Admins = {a1, a2}
    Keys = {k1}
    Expenses = {e1}
    Amounts = {0, 1, 3}
    Reasons = {r1}
    MaxAmount = 2
    MaxInt = 10
    Window = 1
    MaxClock = 1
    None = None
INVARIANTS JournalsFollowExpenses LedgerMatchesExpenses AnswersAgree
PROPERTY RequestsAnswered
