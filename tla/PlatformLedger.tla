--------------------------- MODULE PlatformLedger ---------------------------
(***************************************************************************)
(* The platform's own books: operating expenses and the double-entry       *)
(* journal they are posted to.  A request of an administrator is one       *)
(* transaction: it takes an advisory lock on its idempotency key, replays  *)
(* the stored answer if there is one, locks the expense row, checks the    *)
(* status and writes the row, the journal, the audit rows and the answer   *)
(* together.  Clients repeat requests whose answer they did not see, and   *)
(* two administrators may act on one expense.  A hash is modelled by what  *)
(* is hashed, a journal's id by its event key, which is unique.            *)
(***************************************************************************)
EXTENDS Integers, Sequences, FiniteSets, Functions

CONSTANTS
    Requests,   \* requests being served
    Admins,     \* actor_user_id
    Keys,       \* Idempotency-Key headers
    Expenses,   \* ids of platform_expenses
    Amounts,    \* amounts the clients send
    Reasons,    \* reasons of cancellations and reversals
    MaxAmount,  \* ExpenseMaxAmountRupiah
    MaxInt,     \* math.MaxInt64
    Window,     \* ExpenseBackdateWindow
    MaxClock,   \* bound on the database's clock
    None

ASSUME LedgerAssumption ==
    /\ IsFiniteSet(Expenses)
    /\ Amounts \subseteq Int
    /\ {MaxAmount, MaxInt, Window, MaxClock} \subseteq Nat
    /\ None \notin Admins \cup Keys \cup Expenses \cup Reasons \cup Int

VARIABLES
    now,        \* clock_timestamp()
    expense,    \* platform_expenses
    journal,    \* platform_journals with their entries, by event key
    idem,       \* platform_expense_idempotency
    audit,      \* platform_audit_logs: number of rows per expense and action
    req,        \* what each request is doing
    answers     \* history: the successful answers sent

books == <<expense, journal, audit>>
vars  == <<now, books, idem, req, answers>>

Actions    == {"CREATE", "CANCEL", "APPROVE", "POST", "VOID"}
Statuses   == {"NONE", "DRAFT", "APPROVED", "POSTED", "VOID", "CANCELLED"}
AuditKinds == Actions \cup {"REVERSED"}
Times      == 0 .. MaxClock

PostedKey(e)   == <<"expense.posted", e>>
ReversedKey(e) == <<"journal.reversed", e>>
EventKeys      == {"expense.posted", "journal.reversed"} \X Expenses

\* The fields of a row that later steps read; the others are copies of the request.
Row(status, amount, occurred, posted, void, reason) ==
    [status |-> status, amount |-> amount, occurred |-> occurred,
     posted |-> posted, void |-> void, reason |-> reason]

NoRow == Row("NONE", 0, 0, None, None, None)

Idle == [pc |-> "IDLE", actor |-> None, action |-> "CREATE", key |-> None,
         expense |-> None, reason |-> None, amount |-> 0, occurred |-> 0, read |-> 0]

Init ==
    /\ now = 0
    /\ expense = [e \in Expenses |-> NoRow]
    /\ journal = [k \in EventKeys |-> None]
    /\ idem = [s \in Admins \X Actions \X Keys |-> None]
    /\ audit = [e \in Expenses |-> [k \in AuditKinds |-> 0]]
    /\ req = [r \in Requests |-> Idle]
    /\ answers = {}

Tick ==
    /\ now < MaxClock
    /\ now' = now + 1
    /\ UNCHANGED <<books, idem, req, answers>>

-----------------------------------------------------------------------------
(***************************************************************************)
(* Journals.                                                               *)
(***************************************************************************)
Entry(account, side, amount) == [account |-> account, side |-> side, amount |-> amount]

Accounts == {"OPEX", "BANK"}

\* checkedJournalAdd refuses a total above MaxInt; the amounts are positive, so
\* a running total is above it only if the final one is.
Total(entries, side) ==
    SumFunctionOnSet([i \in DOMAIN entries |-> entries[i].amount],
                     {i \in DOMAIN entries : entries[i].side = side})

ValidateJournal(entries) ==
    /\ Len(entries) >= 2
    /\ \A i \in DOMAIN entries : entries[i].amount > 0
    /\ \A side \in {"DEBIT", "CREDIT"} : Total(entries, side) <= MaxInt
    /\ Total(entries, "DEBIT") = Total(entries, "CREDIT")

ValidateAccounts(entries) == \A i \in DOMAIN entries : entries[i].account \in Accounts

\* hashJournalPayloadV1WithReversal: everything but the id and the database's times.
Payload(effective, creator, reverses, reason, entries) ==
    [effective |-> effective, creator |-> creator, reverses |-> reverses,
     reason |-> reason, entries |-> entries]

\* TryInsertJournal and InsertEntries; posted_at is the database's clock.
Inserted(payload) == [payload |-> payload, postedAt |-> now]

\* Altered form: the side is copied.
InvertSideCopied(side) == side

InvertSide(side) == IF side = "DEBIT" THEN "CREDIT" ELSE "DEBIT"

InvertedEntries(entries) ==
    [i \in DOMAIN entries |-> [entries[i] EXCEPT !.side = InvertSide(entries[i].side)]]

ExpenseEntries(amount) == <<Entry("OPEX", "DEBIT", amount), Entry("BANK", "CREDIT", amount)>>

\* A repeated posting finds the first journal; with another payload it fails.
ReplayMatches(k, payload) == journal[k] # None => journal[k].payload = payload

PostJournal(k, payload) ==
    /\ ValidateJournal(payload.entries)
    /\ ValidateAccounts(payload.entries)
    /\ payload.effective <= now
    /\ ReplayMatches(k, payload)
    /\ journal' = IF journal[k] = None THEN [journal EXCEPT ![k] = Inserted(payload)] ELSE journal

ReversalPayload(e, effective, creator, reason) ==
    Payload(effective, creator, PostedKey(e), reason,
            InvertedEntries(journal[PostedKey(e)].payload.entries))

\* Altered form: an existing reversal is taken whatever its payload.
CanReverseAnyPayload(e, payload) == journal[PostedKey(e)] # None

\* The source row is locked FOR UPDATE from here to the commit, and the
\* reversal's event key is the source's: one reversal per journal.
CanReverse(e, payload) ==
    /\ journal[PostedKey(e)] # None
    /\ ReplayMatches(ReversedKey(e), payload)

ReverseJournal(e, effective, creator, reason) ==
    LET payload == ReversalPayload(e, effective, creator, reason)
    IN  /\ CanReverse(e, payload)
        /\ ValidateJournal(payload.entries)
        /\ effective <= now
        /\ journal' = IF journal[ReversedKey(e)] = None
                      THEN [journal EXCEPT ![ReversedKey(e)] = Inserted(payload)]
                      ELSE journal

-----------------------------------------------------------------------------
(***************************************************************************)
(* Arrival of a request.  What the handlers and validateActionInputs       *)
(* refuse (no key, no actor, a malformed body) never reaches the database. *)
(***************************************************************************)
NormalizeAndValidate(amount, occurred) ==
    /\ amount \in 1 .. MaxAmount
    /\ occurred <= now
    /\ occurred >= now - Window

Arrive(r, actor, action, key, e, reason, amount, occurred) ==
    /\ req[r].pc = "IDLE"
    /\ req' = [req EXCEPT ![r] =
                 [pc |-> "BEGUN", actor |-> actor, action |-> action, key |-> key,
                  expense |-> e, reason |-> reason, amount |-> amount,
                  occurred |-> occurred, read |-> 0]]
    /\ UNCHANGED <<now, books, idem, answers>>

CreateRequest(r, a, k) ==
    \E amount \in Amounts, occurred \in Times :
        /\ NormalizeAndValidate(amount, occurred)
        /\ Arrive(r, a, "CREATE", k, None, None, amount, occurred)

CancelRequest(r, a, k) ==
    \E e \in Expenses, reason \in Reasons : Arrive(r, a, "CANCEL", k, e, reason, 0, 0)

ApproveRequest(r, a, k) == \E e \in Expenses : Arrive(r, a, "APPROVE", k, e, None, 0, 0)

PostRequest(r, a, k) == \E e \in Expenses : Arrive(r, a, "POST", k, e, None, 0, 0)

VoidRequest(r, a, k) ==
    \E e \in Expenses, reason \in Reasons : Arrive(r, a, "VOID", k, e, reason, 0, 0)

-----------------------------------------------------------------------------
(***************************************************************************)
(* The transaction up to the lock of the expense row.                      *)
(***************************************************************************)
Scope(q) == <<q.actor, q.action, q.key>>

\* expenseRequestHash and expenseActionHash.
RequestHash(q) == <<q.expense, q.reason, q.amount, q.occurred>>

KeyLocked(r) ==
    \E p \in Requests \ {r} : /\ req[p].pc \in {"KEYED", "LOCKED"}
                              /\ Scope(req[p]) = Scope(req[r])

RowLocked(e) == \E p \in Requests : req[p].pc = "LOCKED" /\ req[p].expense = e

LockIdempotency(r) ==
    /\ req[r].pc = "BEGUN"
    /\ ~KeyLocked(r)
    /\ req' = [req EXCEPT ![r].pc = "KEYED"]
    /\ UNCHANGED <<now, books, idem, answers>>

GetIdempotency(r) == idem[Scope(req[r])]

Ends(r) == req' = [req EXCEPT ![r] = Idle]

\* A refusal or an error: rolled back, nothing is stored for the key.
Refused(r) ==
    /\ Ends(r)
    /\ UNCHANGED <<now, books, idem, answers>>

Answer(r, e, status) == [scope |-> Scope(req[r]), expense |-> e, status |-> status]

\* The stored answer is sent again, or the key was used for something else.
ReplayExpenseAction(r) ==
    /\ req[r].pc = "KEYED"
    /\ GetIdempotency(r) # None
    /\ Ends(r)
    /\ answers' = IF GetIdempotency(r).hash = RequestHash(req[r])
                  THEN answers \cup {Answer(r, GetIdempotency(r).expense, GetIdempotency(r).status)}
                  ELSE answers
    /\ UNCHANGED <<now, books, idem>>

FromStatus(action) ==
    CASE action \in {"CANCEL", "APPROVE"} -> "DRAFT"
      [] action = "POST" -> "APPROVED"
      [] action = "VOID" -> "POSTED"

\* GetExpenseForUpdate, the status check and DatabaseNow.
GetExpenseForUpdate(r) ==
    /\ req[r].pc = "KEYED" /\ req[r].action # "CREATE"
    /\ GetIdempotency(r) = None
    /\ ~RowLocked(req[r].expense)
    /\ expense[req[r].expense].status = FromStatus(req[r].action)
    /\ expense[req[r].expense].occurred <= now
    /\ req' = [req EXCEPT ![r].pc = "LOCKED", ![r].read = now]
    /\ UNCHANGED <<now, books, idem, answers>>

\* Altered form: a wrong status without a record is not answered.
RefuseStatusRecordedOnly(r) ==
    /\ req[r].pc = "KEYED" /\ req[r].action # "CREATE"
    /\ GetIdempotency(r) # None
    /\ Refused(r)

RefuseStatus(r) ==
    /\ req[r].pc = "KEYED" /\ req[r].action # "CREATE"
    /\ GetIdempotency(r) = None
    /\ ~RowLocked(req[r].expense)
    /\ expense[req[r].expense].status # FromStatus(req[r].action)
    /\ Refused(r)

\* A database error, a cancelled context or a violated constraint, the unique
\* (vendor, external_reference) included, before the commit.
RequestFails(r) ==
    /\ req[r].pc # "IDLE"
    /\ Refused(r)

-----------------------------------------------------------------------------
(***************************************************************************)
(* The writes and the commit.  The UPDATEs repeat the status in their      *)
(* WHERE clause, the idempotency insert meets a unique index.              *)
(***************************************************************************)
\* Altered form: the row read before the update is stored as the answer.
StoredResponseBeforeUpdate(r, e, row) ==
    [hash |-> RequestHash(req[r]), expense |-> e, status |-> expense[e].status]

StoredResponse(r, e, row) ==
    [hash |-> RequestHash(req[r]), expense |-> e, status |-> row.status]

InsertIdempotency(r, e, row) ==
    /\ idem[Scope(req[r])] = None
    /\ idem' = [idem EXCEPT ![Scope(req[r])] = StoredResponse(r, e, row)]

Recorded(e, kinds) ==
    [audit EXCEPT ![e] = [k \in AuditKinds |-> audit[e][k] + (IF k \in kinds THEN 1 ELSE 0)]]

Committed(r, e, row) ==
    /\ InsertIdempotency(r, e, row)
    /\ expense' = [expense EXCEPT ![e] = row]
    /\ answers' = answers \cup {Answer(r, e, row.status)}
    /\ Ends(r)
    /\ UNCHANGED now

CreateDraft(r) ==
    /\ req[r].pc = "KEYED" /\ req[r].action = "CREATE"
    /\ GetIdempotency(r) = None
    /\ \E e \in Expenses :
          /\ expense[e].status = "NONE"
          /\ Committed(r, e, Row("DRAFT", req[r].amount, req[r].occurred, None, None, None))
          /\ audit' = Recorded(e, {"CREATE"})
    /\ UNCHANGED journal

\* Not in the code: the bound on the number of expenses is reached.
ExpensesUsedUp(r) ==
    /\ req[r].pc = "KEYED" /\ req[r].action = "CREATE"
    /\ GetIdempotency(r) = None
    /\ \A e \in Expenses : expense[e].status # "NONE"
    /\ Refused(r)

Locked(r, action, e) ==
    /\ req[r].pc = "LOCKED" /\ req[r].action = action /\ req[r].expense = e
    /\ expense[e].status = FromStatus(action)

CancelDraft(r, e) ==
    /\ Locked(r, "CANCEL", e)
    /\ Committed(r, e, [expense[e] EXCEPT !.status = "CANCELLED", !.reason = req[r].reason])
    /\ audit' = Recorded(e, {"CANCEL"})
    /\ UNCHANGED journal

ApproveDraft(r, e) ==
    /\ Locked(r, "APPROVE", e)
    /\ Committed(r, e, [expense[e] EXCEPT !.status = "APPROVED"])
    /\ audit' = Recorded(e, {"APPROVE"})
    /\ UNCHANGED journal

PostExpense(r, e) ==
    /\ Locked(r, "POST", e)
    /\ PostJournal(PostedKey(e), Payload(expense[e].occurred, req[r].actor, None, None,
                                         ExpenseEntries(expense[e].amount)))
    /\ Committed(r, e, [expense[e] EXCEPT !.status = "POSTED", !.posted = PostedKey(e)])
    /\ audit' = Recorded(e, {"POST"})

\* findFinanceAuditMarker: a marker that exists is compared, not written again.
ReversalMarker(e) == IF audit[e]["REVERSED"] = 0 THEN {"REVERSED"} ELSE {}

VoidExpense(r, e) ==
    /\ Locked(r, "VOID", e)
    /\ expense[e].posted # None
    /\ ReverseJournal(e, req[r].read, req[r].actor, req[r].reason)
    /\ Committed(r, e, [expense[e] EXCEPT !.status = "VOID", !.void = ReversedKey(e),
                                          !.reason = req[r].reason])
    /\ audit' = Recorded(e, {"VOID"} \cup ReversalMarker(e))

\* The journal was reversed by other means: JOURNAL_CONFLICT.
VoidConflicts(r, e) ==
    /\ Locked(r, "VOID", e)
    /\ ~CanReverse(e, ReversalPayload(e, req[r].read, req[r].actor, req[r].reason))
    /\ Refused(r)

\* AuditedJournalService.ReverseJournal, the other writer of reversals: its
\* transaction holds the source journal, and the marker is written with it.
AuditedReverse(a, e, reason, effective) ==
    /\ ReverseJournal(e, effective, a, reason)
    /\ audit' = Recorded(e, ReversalMarker(e))
    /\ UNCHANGED <<now, expense, idem, req, answers>>

-----------------------------------------------------------------------------
Arrives ==
    \E r \in Requests, a \in Admins, k \in Keys :
        \/ CreateRequest(r, a, k)
        \/ CancelRequest(r, a, k)
        \/ ApproveRequest(r, a, k)
        \/ PostRequest(r, a, k)
        \/ VoidRequest(r, a, k)

Serves(r) ==
    \/ LockIdempotency(r)
    \/ ReplayExpenseAction(r)
    \/ GetExpenseForUpdate(r)
    \/ RefuseStatus(r)
    \/ CreateDraft(r)
    \/ ExpensesUsedUp(r)
    \/ \E e \in Expenses :
          \/ CancelDraft(r, e)
          \/ ApproveDraft(r, e)
          \/ PostExpense(r, e)
          \/ VoidExpense(r, e)
          \/ VoidConflicts(r, e)

Next ==
    \/ Tick
    \/ Arrives
    \/ \E r \in Requests : Serves(r) \/ RequestFails(r)
    \/ \E a \in Admins, e \in Expenses, reason \in Reasons, effective \in Times :
          AuditedReverse(a, e, reason, effective)

Spec == Init /\ [][Next]_vars

(***************************************************************************)
(* A request that is being served goes on until it is answered.  It waits  *)
(* for nothing but locks, whose waiters PostgreSQL serves in their order,  *)
(* so a request that can go on again and again does go on.                 *)
(***************************************************************************)
FairSpec == Spec /\ \A r \in Requests : SF_vars(Serves(r))

-----------------------------------------------------------------------------
Rows == [status : Statuses, amount : Nat, occurred : Times,
         posted : EventKeys \cup {None}, void : EventKeys \cup {None},
         reason : Reasons \cup {None}]

JournalRows ==
    [payload : [effective : Times, creator : Admins, reverses : EventKeys \cup {None},
                reason : Reasons \cup {None},
                entries : [1 .. 2 -> [account : Accounts, side : {"DEBIT", "CREDIT"}, amount : Nat]]],
     postedAt : Times]

Scopes == Admins \X Actions \X Keys

StoredAnswers ==
    [hash : (Expenses \cup {None}) \X (Reasons \cup {None}) \X Nat \X Times,
     expense : Expenses, status : Statuses]

ASSUME NoneAssumption == None \notin EventKeys \cup JournalRows \cup StoredAnswers

ServedRequests ==
    [pc : {"IDLE", "BEGUN", "KEYED", "LOCKED"}, actor : Admins \cup {None}, action : Actions,
     key : Keys \cup {None}, expense : Expenses \cup {None}, reason : Reasons \cup {None},
     amount : Nat, occurred : Times, read : Times]

IsRequest(q) ==
    /\ q \in ServedRequests
    /\ q.pc # "IDLE" => /\ Scope(q) \in Scopes
                        /\ q.action # "CREATE" => q.expense \in Expenses
    /\ q.pc = "LOCKED" => q.action # "CREATE"

\* The types of the tables, the requests being served and the answers sent.
TypeOK ==
    /\ now \in Times
    /\ expense \in [Expenses -> Rows]
    /\ journal \in [EventKeys -> JournalRows \cup {None}]
    /\ idem \in [Scopes -> StoredAnswers \cup {None}]
    /\ audit \in [Expenses -> [AuditKinds -> Nat]]
    /\ DOMAIN req = Requests /\ \A r \in Requests : IsRequest(req[r])
    /\ answers \subseteq [scope : Scopes, expense : Expenses, status : Statuses]

JournalFollows(e) ==
    LET row == expense[e]
        posting == journal[PostedKey(e)]
        reversal == journal[ReversedKey(e)]
    IN  /\ (row.status \in {"POSTED", "VOID"}) = (posting # None)
        /\ posting # None =>
              /\ row.posted = PostedKey(e)
              /\ posting.payload.entries = ExpenseEntries(row.amount)
        /\ row.status = "VOID" =>
              /\ reversal # None
              /\ row.void = ReversedKey(e)
              /\ reversal.payload.reason = row.reason
              /\ reversal.payload.effective >= posting.postedAt

(***************************************************************************)
(* An expense has a posted journal exactly when it is POSTED or VOID, with *)
(* its amount; a VOID one has the reversal it names, with its own reason   *)
(* and effective no earlier than it was posted: the expense row and the    *)
(* ledger never disagree, although another service reverses journals too   *)
(* (PostExpense, VoidExpense).                                             *)
(***************************************************************************)
JournalsFollowExpenses == \A e \in Expenses : JournalFollows(e)

\* What the entries of a journal add to an account; a credit counts against it.
Booked(account, entries) ==
    SumFunction([i \in DOMAIN entries |->
                   IF entries[i].account # account THEN 0
                   ELSE IF entries[i].side = "DEBIT" THEN entries[i].amount ELSE -entries[i].amount])

Journals == {k \in EventKeys : journal[k] # None}

Balance(account) == SumFunction([k \in Journals |-> Booked(account, journal[k].payload.entries)])

(***************************************************************************)
(* The balance of the expense account is the sum of the posted expenses    *)
(* whose journal was not reversed, and the bank's is its negative: no      *)
(* amount is booked twice or taken back twice (PostJournal, ReverseJournal).*)
(***************************************************************************)
LedgerMatchesExpenses ==
    LET open == {e \in Expenses : /\ expense[e].status \in {"POSTED", "VOID"}
                                  /\ journal[ReversedKey(e)] = None}
        spent == SumFunction([e \in open |-> expense[e].amount])
    IN  Balance("OPEX") = spent /\ Balance("BANK") = -spent

(***************************************************************************)
(* Every answer to a key is the same answer, the replays included, and the *)
(* action it reports was done to that expense exactly once, however often  *)
(* and by how many administrators it was requested (LockIdempotency,       *)
(* InsertIdempotency).                                                     *)
(***************************************************************************)
AnswersAgree ==
    /\ \A x, y \in answers : x.scope = y.scope => x = y
    /\ \A x \in answers : audit[x.expense][x.scope[2]] = 1

(***************************************************************************)
(* Every request is answered: the advisory lock and the row lock, always   *)
(* taken in this order, are never waited for in a circle.                  *)
(***************************************************************************)
RequestsAnswered == \A r \in Requests : req[r].pc # "IDLE" ~> req[r].pc = "IDLE"
=============================================================================
