------------------------ MODULE PlatformLedgerProofs ------------------------
(***************************************************************************)
(* Proofs about PlatformLedger for any number of requests, administrators, *)
(* keys, expenses and amounts.  JournalsFollowExpenses needs to know what  *)
(* a request that holds an expense for its reversal read (ReadAfterPosting)*)
(* and that a journal is never replaced; AnswersAgree needs what each      *)
(* status says about the audit rows and the stored answers.  The balances  *)
(* of LedgerMatchesExpenses are sums over the journals: a reversal takes   *)
(* back what its posting booked, line by line, and what remains is one     *)
(* journal for each open expense.                                          *)
(***************************************************************************)
EXTENDS PlatformLedger, Money

\* A reversal exists only beside its posting and is its exact inverse.
ReversalsInvert ==
    \A e \in Expenses :
        journal[ReversedKey(e)] # None =>
            /\ journal[PostedKey(e)] # None
            /\ journal[ReversedKey(e)].payload.entries = InvertedEntries(journal[PostedKey(e)].payload.entries)

\* Journals are posted at the database's clock, which does not run back.
PostedInThePast == \A k \in EventKeys : journal[k] # None => journal[k].postedAt <= now

\* The instant a voiding request read is not before the posting it reverses.
ReadAfterPosting ==
    \A r \in Requests :
        req[r].pc = "LOCKED" /\ req[r].action = "VOID" =>
            /\ journal[PostedKey(req[r].expense)] # None
            /\ journal[PostedKey(req[r].expense)].postedAt <= req[r].read

LedgerInv == TypeOK /\ JournalsFollowExpenses /\ ReversalsInvert /\ PostedInThePast /\ ReadAfterPosting

\* The statuses of an expense on which an action was done.
After(action) ==
    CASE action = "CREATE"  -> Statuses \ {"NONE"}
      [] action = "CANCEL"  -> {"CANCELLED"}
      [] action = "APPROVE" -> {"APPROVED", "POSTED", "VOID"}
      [] action = "POST"    -> {"POSTED", "VOID"}
      [] action = "VOID"    -> {"VOID"}

\* Each action has one audit row when it was done and none before.
AuditFollowsStatus ==
    \A e \in Expenses, action \in Actions :
        audit[e][action] = IF expense[e].status \in After(action) THEN 1 ELSE 0

\* What is stored for a key was done.
StoredIsDone ==
    \A s \in Scopes : idem[s] # None => expense[idem[s].expense].status \in After(s[2])

\* What was answered to a key is what is stored for it.
AnsweredIsStored ==
    \A x \in answers : /\ idem[x.scope] # None
                       /\ x.expense = idem[x.scope].expense
                       /\ x.status = idem[x.scope].status

AnswersInv == TypeOK /\ AuditFollowsStatus /\ StoredIsDone /\ AnsweredIsStored

----------------------------------------------------------------------------
(***************************************************************************)
(* Helpers of the journal.                                                 *)
(***************************************************************************)

\* The two kinds of event keys never meet.
LEMMA KeysDiffer ==
    ASSUME NEW e \in Expenses, NEW f \in Expenses
    PROVE  /\ PostedKey(e) \in EventKeys /\ ReversedKey(e) \in EventKeys
           /\ PostedKey(e) # ReversedKey(f)
           /\ e # f => PostedKey(e) # PostedKey(f) /\ ReversedKey(e) # ReversedKey(f)
BY DEF PostedKey, ReversedKey, EventKeys

\* A journal that is inserted is a row.
LEMMA InsertedIsRow ==
    ASSUME TypeOK, NEW effective \in Times, NEW creator \in Admins,
           NEW reverses \in EventKeys \cup {None}, NEW reason \in Reasons \cup {None},
           NEW entries \in [1 .. 2 -> [account : Accounts, side : {"DEBIT", "CREDIT"}, amount : Nat]]
    PROVE  /\ Inserted(Payload(effective, creator, reverses, reason, entries)) \in JournalRows
           /\ Inserted(Payload(effective, creator, reverses, reason, entries)) # None
BY NoneAssumption DEF TypeOK, Inserted, Payload, JournalRows

LEMMA ExpenseEntriesType ==
    ASSUME NEW amount \in Nat
    PROVE  ExpenseEntries(amount) \in [1 .. 2 -> [account : Accounts, side : {"DEBIT", "CREDIT"}, amount : Nat]]
BY DEF ExpenseEntries, Entry, Accounts

LEMMA InvertedEntriesType ==
    ASSUME NEW entries \in [1 .. 2 -> [account : Accounts, side : {"DEBIT", "CREDIT"}, amount : Nat]]
    PROVE  InvertedEntries(entries) \in [1 .. 2 -> [account : Accounts, side : {"DEBIT", "CREDIT"}, amount : Nat]]
BY DEF InvertedEntries, InvertSide

LEMMA ReversalIsRow ==
    ASSUME TypeOK, NEW e \in Expenses, journal[PostedKey(e)] # None, NEW effective \in Times,
           NEW creator \in Admins, NEW reason \in Reasons \cup {None}
    PROVE  /\ Inserted(ReversalPayload(e, effective, creator, reason)) \in JournalRows
           /\ Inserted(ReversalPayload(e, effective, creator, reason)) # None
<1>1. journal[PostedKey(e)] \in JournalRows
  BY KeysDiffer DEF TypeOK
<1>2. journal[PostedKey(e)].payload.entries
          \in [1 .. 2 -> [account : Accounts, side : {"DEBIT", "CREDIT"}, amount : Nat]]
  BY <1>1 DEF JournalRows
<1> QED
  BY <1>2, InvertedEntriesType, InsertedIsRow, KeysDiffer DEF ReversalPayload

\* Posting and reversing add at most one journal and replace none.
LEMMA PostEffect ==
    ASSUME TypeOK, NEW e \in Expenses, NEW creator \in Admins,
           PostJournal(PostedKey(e), Payload(expense[e].occurred, creator, None, None,
                                             ExpenseEntries(expense[e].amount)))
    PROVE  /\ journal' \in [EventKeys -> JournalRows \cup {None}]
           /\ \A k \in EventKeys \ {PostedKey(e)} : journal'[k] = journal[k]
           /\ journal'[PostedKey(e)] # None
           /\ journal'[PostedKey(e)].payload.entries = ExpenseEntries(expense[e].amount)
           /\ journal[PostedKey(e)] # None => journal' = journal
           /\ journal[PostedKey(e)] = None => journal'[PostedKey(e)].postedAt = now
<1> DEFINE p == Payload(expense[e].occurred, creator, None, None, ExpenseEntries(expense[e].amount))
<1>1. expense[e] \in Rows
  BY DEF TypeOK
<1>2. Inserted(p) \in JournalRows /\ Inserted(p) # None
  BY <1>1, InsertedIsRow, ExpenseEntriesType DEF Rows
<1>3. p.entries = ExpenseEntries(expense[e].amount) /\ Inserted(p).payload = p /\ Inserted(p).postedAt = now
  BY DEF Payload, Inserted
<1>4. /\ journal[PostedKey(e)] # None => journal[PostedKey(e)].payload = p
      /\ journal' = IF journal[PostedKey(e)] = None THEN [journal EXCEPT ![PostedKey(e)] = Inserted(p)]
                    ELSE journal
  BY DEF PostJournal, ReplayMatches
<1> HIDE DEF p
<1> QED
  BY <1>2, <1>3, <1>4, KeysDiffer DEF TypeOK

LEMMA ReverseEffect ==
    ASSUME TypeOK, NEW e \in Expenses, NEW effective \in Times, NEW creator \in Admins,
           NEW reason \in Reasons \cup {None}, ReverseJournal(e, effective, creator, reason)
    PROVE  /\ journal' \in [EventKeys -> JournalRows \cup {None}]
           /\ \A k \in EventKeys \ {ReversedKey(e)} : journal'[k] = journal[k]
           /\ journal[PostedKey(e)] # None
           /\ journal[ReversedKey(e)] # None => journal' = journal
           /\ journal'[ReversedKey(e)] # None
           /\ journal'[ReversedKey(e)].payload.entries = InvertedEntries(journal[PostedKey(e)].payload.entries)
           /\ journal'[ReversedKey(e)].payload.reason = reason
           /\ journal'[ReversedKey(e)].payload.effective = effective
<1> DEFINE p == ReversalPayload(e, effective, creator, reason)
<1>1. journal[PostedKey(e)] # None
  BY DEF ReverseJournal, CanReverse
<1>2. Inserted(p) \in JournalRows /\ Inserted(p) # None
  BY <1>1, ReversalIsRow
<1>3. /\ p.entries = InvertedEntries(journal[PostedKey(e)].payload.entries)
      /\ p.reason = reason /\ p.effective = effective /\ Inserted(p).payload = p
  BY DEF ReversalPayload, Payload, Inserted
<1>4. /\ journal[ReversedKey(e)] # None => journal[ReversedKey(e)].payload = p
      /\ journal' = IF journal[ReversedKey(e)] = None THEN [journal EXCEPT ![ReversedKey(e)] = Inserted(p)]
                    ELSE journal
  BY DEF ReverseJournal, CanReverse, ReplayMatches
<1> HIDE DEF p
<1> QED
  BY <1>1, <1>2, <1>3, <1>4, KeysDiffer DEF TypeOK

----------------------------------------------------------------------------
(***************************************************************************)
(* The steps of one request.  Most of them only move its pc.               *)
(***************************************************************************)
LEMMA RequestKeepsType ==
    ASSUME TypeOK, NEW r \in Requests, NEW q, IsRequest(q), req' = [req EXCEPT ![r] = q]
    PROVE  DOMAIN req' = Requests /\ \A s \in Requests : IsRequest(req'[s])
BY DEF TypeOK

LEMMA IdleIsRequest == IsRequest(Idle)
BY LedgerAssumption DEF Idle, IsRequest, ServedRequests, Actions, Times

LEMMA BeginFacts ==
    ASSUME TypeOK, NEW r \in Requests
    PROVE  /\ LockIdempotency(r) => IsRequest([req[r] EXCEPT !.pc = "KEYED"])
           /\ GetExpenseForUpdate(r) => IsRequest([req[r] EXCEPT !.pc = "LOCKED", !.read = now])
           /\ \A a \in Actions, e \in Expenses : Locked(r, a, e) =>
                 /\ req[r].actor \in Admins /\ req[r].reason \in Reasons \cup {None}
                 /\ req[r].read \in Times /\ Scope(req[r]) \in Scopes
           /\ CreateDraft(r) => Scope(req[r]) \in Scopes
<1>1. IsRequest(req[r])
  BY DEF TypeOK
<1>2. LockIdempotency(r) => IsRequest([req[r] EXCEPT !.pc = "KEYED"])
  BY <1>1 DEF LockIdempotency, IsRequest, ServedRequests, Scope
<1>3. GetExpenseForUpdate(r) => IsRequest([req[r] EXCEPT !.pc = "LOCKED", !.read = now])
  BY <1>1 DEF GetExpenseForUpdate, IsRequest, ServedRequests, Scope, TypeOK
<1>4. ASSUME NEW a \in Actions, NEW e \in Expenses, Locked(r, a, e)
      PROVE  /\ req[r].actor \in Admins /\ req[r].reason \in Reasons \cup {None}
             /\ req[r].read \in Times /\ Scope(req[r]) \in Scopes
  BY <1>1, <1>4 DEF Locked, IsRequest, ServedRequests, Scope, Scopes
<1>5. CreateDraft(r) => Scope(req[r]) \in Scopes
  BY <1>1 DEF CreateDraft, IsRequest
<1> QED
  BY <1>2, <1>3, <1>4, <1>5

LEMMA ArrivalFacts ==
    ASSUME TypeOK, Arrives
    PROVE  \E r \in Requests, q \in ServedRequests :
               /\ q.pc = "BEGUN" /\ IsRequest(q)
               /\ req' = [req EXCEPT ![r] = q]
               /\ UNCHANGED <<now, books, idem, answers>>
<1> DEFINE Asked(actor, action, key, e, reason, amount, occurred) ==
        [pc |-> "BEGUN", actor |-> actor, action |-> action, key |-> key, expense |-> e,
         reason |-> reason, amount |-> amount, occurred |-> occurred, read |-> 0]
<1>1. PICK r \in Requests, a \in Admins, k \in Keys :
         CreateRequest(r, a, k) \/ CancelRequest(r, a, k) \/ ApproveRequest(r, a, k)
         \/ PostRequest(r, a, k) \/ VoidRequest(r, a, k)
  BY DEF Arrives
<1>2. ASSUME NEW action \in Actions, NEW e \in Expenses \cup {None}, NEW reason \in Reasons \cup {None},
             NEW amount \in Nat, NEW occurred \in Times, action # "CREATE" => e \in Expenses
      PROVE  IsRequest(Asked(a, action, k, e, reason, amount, occurred))
  BY <1>2, LedgerAssumption DEF IsRequest, ServedRequests, Scope, Scopes, Times
<1>3. CASE CreateRequest(r, a, k)
  <2>1. PICK amount \in Amounts, occurred \in Times :
           NormalizeAndValidate(amount, occurred) /\ Arrive(r, a, "CREATE", k, None, None, amount, occurred)
    BY <1>3 DEF CreateRequest
  <2>2. amount \in Nat
    BY <2>1, LedgerAssumption DEF NormalizeAndValidate
  <2>3. IsRequest(Asked(a, "CREATE", k, None, None, amount, occurred))
    BY <1>2, <2>2 DEF Actions
  <2> QED
    BY <2>1, <2>3 DEF Arrive, IsRequest
<1>4. 0 \in Nat /\ 0 \in Times
  BY LedgerAssumption DEF Times
<1>5. ASSUME NEW action \in Actions, NEW e \in Expenses, NEW reason \in Reasons \cup {None},
             Arrive(r, a, action, k, e, reason, 0, 0)
      PROVE  \E q \in ServedRequests :
                 /\ q.pc = "BEGUN" /\ IsRequest(q)
                 /\ req' = [req EXCEPT ![r] = q]
                 /\ UNCHANGED <<now, books, idem, answers>>
  <2>1. IsRequest(Asked(a, action, k, e, reason, 0, 0))
    BY <1>2, <1>4
  <2> QED
    BY <1>5, <2>1 DEF Arrive, IsRequest
<1> QED
  BY <1>1, <1>3, <1>5 DEF CancelRequest, ApproveRequest, PostRequest, VoidRequest, Actions

(***************************************************************************)
(* What a commit leaves: the new row of its expense, the stored answer and *)
(* the answer sent.                                                        *)
(***************************************************************************)
LEMMA CommittedFacts ==
    ASSUME TypeOK, NEW r \in Requests, NEW e \in Expenses, NEW row \in Rows,
           Scope(req[r]) \in Scopes, Committed(r, e, row)
    PROVE  /\ expense' \in [Expenses -> Rows] /\ expense'[e] = row
           /\ \A f \in Expenses \ {e} : expense'[f] = expense[f]
           /\ idem' \in [Scopes -> StoredAnswers \cup {None}]
           /\ idem[Scope(req[r])] = None
           /\ idem'[Scope(req[r])] # None
           /\ idem'[Scope(req[r])].expense = e /\ idem'[Scope(req[r])].status = row.status
           /\ \A s \in Scopes \ {Scope(req[r])} : idem'[s] = idem[s]
           /\ answers' = answers \cup {Answer(r, e, row.status)}
           /\ answers' \subseteq [scope : Scopes, expense : Expenses, status : Statuses]
           /\ req' = [req EXCEPT ![r] = Idle]
           /\ now' = now
<1>1. /\ idem[Scope(req[r])] = None
      /\ idem' = [idem EXCEPT ![Scope(req[r])] = StoredResponse(r, e, row)]
      /\ expense' = [expense EXCEPT ![e] = row]
      /\ answers' = answers \cup {Answer(r, e, row.status)}
      /\ req' = [req EXCEPT ![r] = Idle] /\ now' = now
  BY DEF Committed, InsertIdempotency, Ends
<1>2. row.status \in Statuses
  BY DEF Rows
<1>3. RequestHash(req[r]) \in (Expenses \cup {None}) \X (Reasons \cup {None}) \X Nat \X Times
  BY DEF RequestHash, IsRequest, ServedRequests, TypeOK
<1>4. StoredResponse(r, e, row) \in StoredAnswers /\ StoredResponse(r, e, row) # None
  BY <1>2, <1>3, NoneAssumption DEF StoredResponse, StoredAnswers
<1>5. Answer(r, e, row.status) \in [scope : Scopes, expense : Expenses, status : Statuses]
  BY <1>2 DEF Answer
<1>6. StoredResponse(r, e, row).expense = e /\ StoredResponse(r, e, row).status = row.status
  BY DEF StoredResponse
<1> QED
  BY <1>1, <1>4, <1>5, <1>6 DEF TypeOK

----------------------------------------------------------------------------
(***************************************************************************)
(* Every step keeps the tables in their types.                             *)
(***************************************************************************)

\* The steps that change neither a table nor the answers.
Quiet(r) == LockIdempotency(r) \/ GetExpenseForUpdate(r) \/ RefuseStatus(r) \/ ExpensesUsedUp(r)
            \/ RequestFails(r) \/ \E e \in Expenses : VoidConflicts(r, e)

\* The steps that commit.
Commits(r, e) == CancelDraft(r, e) \/ ApproveDraft(r, e) \/ PostExpense(r, e) \/ VoidExpense(r, e)

LEMMA QuietFacts ==
    ASSUME TypeOK, NEW r \in Requests, Quiet(r)
    PROVE  /\ UNCHANGED <<now, books, idem, answers>>
           /\ \/ req' = [req EXCEPT ![r] = Idle]
              \/ req' = [req EXCEPT ![r] = [req[r] EXCEPT !.pc = "KEYED"]] /\ LockIdempotency(r)
              \/ /\ req' = [req EXCEPT ![r] = [req[r] EXCEPT !.pc = "LOCKED", !.read = now]]
                 /\ GetExpenseForUpdate(r)
<1>1. CASE LockIdempotency(r)
  BY <1>1 DEF LockIdempotency, TypeOK
<1>2. CASE GetExpenseForUpdate(r)
  BY <1>2 DEF GetExpenseForUpdate, TypeOK
<1>3. CASE RefuseStatus(r) \/ ExpensesUsedUp(r) \/ RequestFails(r) \/ \E e \in Expenses : VoidConflicts(r, e)
  BY <1>3 DEF RefuseStatus, ExpensesUsedUp, RequestFails, VoidConflicts, Refused, Ends
<1> QED
  BY <1>1, <1>2, <1>3 DEF Quiet

LEMMA RecordedFacts ==
    ASSUME TypeOK, NEW e \in Expenses, NEW kinds, audit' = Recorded(e, kinds)
    PROVE  /\ audit' \in [Expenses -> [AuditKinds -> Nat]]
           /\ \A f \in Expenses \ {e} : audit'[f] = audit[f]
           /\ \A k \in AuditKinds : audit'[e][k] = audit[e][k] + (IF k \in kinds THEN 1 ELSE 0)
<1>1. audit[e] \in [AuditKinds -> Nat]
  BY DEF TypeOK
<1>2. [k \in AuditKinds |-> audit[e][k] + (IF k \in kinds THEN 1 ELSE 0)] \in [AuditKinds -> Nat]
  BY <1>1
<1> QED
  BY <1>2 DEF TypeOK, Recorded

\* The new row of a commit, and its audit row.
RowAfter(r, e) ==
    CASE req[r].action = "CANCEL"  -> [expense[e] EXCEPT !.status = "CANCELLED", !.reason = req[r].reason]
      [] req[r].action = "APPROVE" -> [expense[e] EXCEPT !.status = "APPROVED"]
      [] req[r].action = "POST"    -> [expense[e] EXCEPT !.status = "POSTED", !.posted = PostedKey(e)]
      [] req[r].action = "VOID"    -> [expense[e] EXCEPT !.status = "VOID", !.void = ReversedKey(e),
                                                         !.reason = req[r].reason]

LEMMA CommitFacts ==
    ASSUME TypeOK, NEW r \in Requests, NEW e \in Expenses, Commits(r, e)
    PROVE  /\ req[r].action \in {"CANCEL", "APPROVE", "POST", "VOID"}
           /\ Locked(r, req[r].action, e)
           /\ RowAfter(r, e) \in Rows
           /\ Committed(r, e, RowAfter(r, e))
           /\ req[r].action = "VOID" => audit' = Recorded(e, {"VOID"} \cup ReversalMarker(e))
           /\ req[r].action # "VOID" => audit' = Recorded(e, {req[r].action})
           /\ req[r].action = "POST" =>
                 PostJournal(PostedKey(e), Payload(expense[e].occurred, req[r].actor, None, None,
                                                   ExpenseEntries(expense[e].amount)))
           /\ req[r].action = "VOID" => ReverseJournal(e, req[r].read, req[r].actor, req[r].reason)
           /\ req[r].action \in {"CANCEL", "APPROVE"} => journal' = journal
<1>1. expense[e] \in Rows
  BY DEF TypeOK
<1>2. CASE CancelDraft(r, e)
  BY <1>1, <1>2, BeginFacts DEF CancelDraft, Locked, RowAfter, Rows, Statuses, Actions
<1>3. CASE ApproveDraft(r, e)
  BY <1>1, <1>3 DEF ApproveDraft, Locked, RowAfter, Rows, Statuses
<1>4. CASE PostExpense(r, e)
  BY <1>1, <1>4, KeysDiffer DEF PostExpense, Locked, RowAfter, Rows, Statuses
<1>5. CASE VoidExpense(r, e)
  BY <1>1, <1>5, BeginFacts, KeysDiffer DEF VoidExpense, Locked, RowAfter, Rows, Statuses, Actions
<1> QED
  BY <1>2, <1>3, <1>4, <1>5 DEF Commits

\* A creation: the row it takes was never used.
LEMMA CreateFacts ==
    ASSUME TypeOK, NEW r \in Requests, CreateDraft(r)
    PROVE  \E e \in Expenses, row \in Rows :
               /\ expense[e].status = "NONE" /\ row.status = "DRAFT"
               /\ req[r].action = "CREATE" /\ Committed(r, e, row)
               /\ audit' = Recorded(e, {"CREATE"}) /\ journal' = journal
<1>1. PICK e \in Expenses :
         /\ expense[e].status = "NONE" /\ req[r].action = "CREATE" /\ journal' = journal
         /\ Committed(r, e, Row("DRAFT", req[r].amount, req[r].occurred, None, None, None))
         /\ audit' = Recorded(e, {"CREATE"})
  BY DEF CreateDraft
<1>2. req[r].amount \in Nat /\ req[r].occurred \in Times
  BY DEF TypeOK, IsRequest, ServedRequests
<1>3. /\ Row("DRAFT", req[r].amount, req[r].occurred, None, None, None) \in Rows
      /\ Row("DRAFT", req[r].amount, req[r].occurred, None, None, None).status = "DRAFT"
  BY <1>2 DEF Row, Rows, Statuses
<1> QED
  BY <1>1, <1>3

\* The steps of Next, by what they do.
LEMMA NextCases ==
    ASSUME [Next]_vars
    PROVE  \/ Tick \/ Arrives \/ UNCHANGED vars
           \/ \E r \in Requests : Quiet(r) \/ ReplayExpenseAction(r) \/ CreateDraft(r)
           \/ \E r \in Requests, e \in Expenses : Commits(r, e)
           \/ \E a \in Admins, e \in Expenses, reason \in Reasons, effective \in Times :
                 AuditedReverse(a, e, reason, effective)
BY DEF Next, Serves, Quiet, Commits

LEMMA TypeInit == Init => TypeOK
<1> SUFFICES ASSUME Init PROVE TypeOK
  OBVIOUS
<1>1. 0 \in Times
  BY LedgerAssumption DEF Times
<1>2. NoRow \in Rows
  BY <1>1 DEF NoRow, Row, Rows, Statuses
<1> QED
  BY <1>1, <1>2, IdleIsRequest DEF Init, TypeOK, Scopes

LEMMA TypeStep == TypeOK /\ [Next]_vars => TypeOK'
<1> SUFFICES ASSUME TypeOK, [Next]_vars PROVE TypeOK'
  OBVIOUS
<1>1. CASE Tick
  BY <1>1, LedgerAssumption DEF Tick, TypeOK, books, Times
<1>2. CASE Arrives
  BY <1>2, ArrivalFacts, RequestKeepsType DEF TypeOK, books
<1>3. CASE UNCHANGED vars
  BY <1>3 DEF vars, books, TypeOK
<1>4. ASSUME NEW r \in Requests, Quiet(r) PROVE TypeOK'
  BY <1>4, QuietFacts, BeginFacts, IdleIsRequest, RequestKeepsType DEF TypeOK, books
<1>5. ASSUME NEW r \in Requests, ReplayExpenseAction(r) PROVE TypeOK'
  <2>1. DOMAIN req' = Requests /\ \A s \in Requests : IsRequest(req'[s])
    BY <1>5, IdleIsRequest, RequestKeepsType DEF ReplayExpenseAction, Ends
  <2>2. GetIdempotency(r) \in StoredAnswers /\ Scope(req[r]) \in Scopes
    BY <1>5 DEF ReplayExpenseAction, GetIdempotency, TypeOK, IsRequest
  <2>3. answers' \subseteq [scope : Scopes, expense : Expenses, status : Statuses]
    BY <1>5, <2>2 DEF ReplayExpenseAction, TypeOK, Answer, StoredAnswers
  <2> QED
    BY <1>5, <2>1, <2>3 DEF ReplayExpenseAction, TypeOK, books
<1>6. ASSUME NEW r \in Requests, CreateDraft(r) PROVE TypeOK'
  <2>1. PICK e \in Expenses, row \in Rows :
           Committed(r, e, row) /\ audit' = Recorded(e, {"CREATE"}) /\ journal' = journal
    BY <1>6, CreateFacts
  <2> QED
    BY <1>6, <2>1, BeginFacts, CommittedFacts, RecordedFacts, IdleIsRequest, RequestKeepsType DEF TypeOK
<1>7. ASSUME NEW r \in Requests, NEW e \in Expenses, Commits(r, e) PROVE TypeOK'
  <2>1. /\ req[r].actor \in Admins /\ req[r].reason \in Reasons \cup {None}
        /\ req[r].read \in Times /\ Scope(req[r]) \in Scopes
    BY <1>7, CommitFacts, BeginFacts DEF Actions
  <2>2. journal' \in [EventKeys -> JournalRows \cup {None}]
    <3>1. CASE req[r].action = "POST"
      BY <1>7, <2>1, <3>1, CommitFacts, PostEffect
    <3>2. CASE req[r].action = "VOID"
      BY <1>7, <2>1, <3>2, CommitFacts, ReverseEffect
    <3> QED
      BY <1>7, <3>1, <3>2, CommitFacts DEF TypeOK
  <2>3. audit' \in [Expenses -> [AuditKinds -> Nat]]
    BY <1>7, CommitFacts, RecordedFacts
  <2>4. RowAfter(r, e) \in Rows /\ Committed(r, e, RowAfter(r, e))
    BY <1>7, CommitFacts
  <2>5. /\ now' = now /\ expense' \in [Expenses -> Rows] /\ idem' \in [Scopes -> StoredAnswers \cup {None}]
        /\ answers' \subseteq [scope : Scopes, expense : Expenses, status : Statuses]
        /\ req' = [req EXCEPT ![r] = Idle]
    BY <2>1, <2>4, CommittedFacts
  <2> QED
    BY <2>2, <2>3, <2>5, IdleIsRequest, RequestKeepsType DEF TypeOK
<1>8. ASSUME NEW a \in Admins, NEW e \in Expenses, NEW reason \in Reasons, NEW effective \in Times,
             AuditedReverse(a, e, reason, effective)
      PROVE  TypeOK'
  BY <1>8, ReverseEffect, RecordedFacts DEF AuditedReverse, TypeOK
<1> QED
  BY <1>1, <1>2, <1>3, <1>4, <1>5, <1>6, <1>7, <1>8, NextCases

\* Every table, request and answer has its type, for any constants.
THEOREM LedgerTypeCorrect == Spec => []TypeOK
BY TypeInit, TypeStep, PTL DEF Spec

----------------------------------------------------------------------------
(***************************************************************************)
(* The expense rows and the ledger.                                        *)
(***************************************************************************)

\* Steps that leave the rows and the journal alone, with the clock going on.
LEMMA LedgerStays ==
    ASSUME JournalsFollowExpenses, ReversalsInvert, PostedInThePast,
           expense' = expense, journal' = journal, now \in Int, now' \in Int, now <= now',
           \A k \in EventKeys : journal[k] # None => journal[k].postedAt \in Int
    PROVE  JournalsFollowExpenses' /\ ReversalsInvert' /\ PostedInThePast'
<1>1. JournalsFollowExpenses' /\ ReversalsInvert'
  BY DEF JournalsFollowExpenses, JournalFollows, ReversalsInvert
<1>2. PostedInThePast'
  BY DEF PostedInThePast
<1> QED
  BY <1>1, <1>2

\* A request that ends or goes on without holding a row.
LEMMA ReadStays ==
    ASSUME TypeOK, ReadAfterPosting, NEW r \in Requests, NEW q, q.pc # "LOCKED",
           req' = [req EXCEPT ![r] = q],
           \A k \in EventKeys : journal[k] # None => journal'[k] = journal[k]
    PROVE  ReadAfterPosting'
<1> SUFFICES ASSUME NEW s \in Requests, req'[s].pc = "LOCKED", req'[s].action = "VOID"
             PROVE  /\ journal'[PostedKey(req'[s].expense)] # None
                    /\ journal'[PostedKey(req'[s].expense)].postedAt <= req'[s].read
  BY DEF ReadAfterPosting
<1>1. req'[s] = req[s]
  BY DEF TypeOK
<1>2. req[s].expense \in Expenses
  BY <1>1 DEF TypeOK, IsRequest
<1> QED
  BY <1>1, <1>2, KeysDiffer DEF ReadAfterPosting

LEMMA PostedAtType ==
    ASSUME TypeOK
    PROVE  /\ \A k \in EventKeys : journal[k] # None => journal[k].postedAt \in Nat
           /\ now \in Nat
BY LedgerAssumption DEF TypeOK, JournalRows, Times

LEMMA QuietLedger ==
    ASSUME LedgerInv, NEW r \in Requests, Quiet(r)
    PROVE  JournalsFollowExpenses' /\ ReversalsInvert' /\ PostedInThePast' /\ ReadAfterPosting'
<1> USE DEF LedgerInv
<1>1. UNCHANGED <<now, expense, journal>>
  BY QuietFacts DEF books
<1>2. JournalsFollowExpenses' /\ ReversalsInvert' /\ PostedInThePast'
  BY <1>1, LedgerStays, PostedAtType
<1>3. CASE req' = [req EXCEPT ![r] = Idle]
  BY <1>1, <1>2, <1>3, ReadStays DEF Idle
<1>4. CASE req' = [req EXCEPT ![r] = [req[r] EXCEPT !.pc = "KEYED"]]
  <2>1. [req[r] EXCEPT !.pc = "KEYED"].pc = "KEYED"
    BY DEF TypeOK, IsRequest, ServedRequests
  <2> QED
    BY <1>1, <1>2, <1>4, <2>1, ReadStays
<1>5. CASE /\ req' = [req EXCEPT ![r] = [req[r] EXCEPT !.pc = "LOCKED", !.read = now]]
           /\ GetExpenseForUpdate(r)
  <2> DEFINE e == req[r].expense
  <2>1. /\ req'[r].read = now /\ req'[r].action = req[r].action /\ req'[r].expense = e
        /\ \A s \in Requests \ {r} : req'[s] = req[s]
    BY <1>5 DEF TypeOK, IsRequest, ServedRequests
  <2>2. ASSUME req[r].action = "VOID"
        PROVE  journal[PostedKey(e)] # None /\ journal[PostedKey(e)].postedAt <= now
    <3>1. e \in Expenses /\ expense[e].status = "POSTED"
      BY <1>5, <2>2 DEF GetExpenseForUpdate, FromStatus, TypeOK, IsRequest
    <3> QED
      BY <3>1, KeysDiffer DEF JournalsFollowExpenses, JournalFollows, PostedInThePast
  <2> QED
    BY <1>1, <1>2, <2>1, <2>2 DEF ReadAfterPosting
<1> QED
  BY <1>2, <1>3, <1>4, <1>5, QuietFacts

\* Steps that change one expense row and leave the journal alone: the row was
\* not posted before and is not posted after.
LEMMA RowChanges ==
    ASSUME LedgerInv, NEW e \in Expenses, journal' = journal,
           \A f \in Expenses \ {e} : expense'[f] = expense[f],
           expense[e].status \notin {"POSTED", "VOID"}, expense'[e].status \notin {"POSTED", "VOID"}
    PROVE  JournalsFollowExpenses' /\ ReversalsInvert'
<1>1. journal[PostedKey(e)] = None
  BY DEF LedgerInv, JournalsFollowExpenses, JournalFollows
<1>2. JournalsFollowExpenses'
  <2> SUFFICES ASSUME NEW f \in Expenses
               PROVE  JournalFollows(f)'
    BY DEF JournalsFollowExpenses
  <2>1. JournalFollows(f)
    BY DEF LedgerInv, JournalsFollowExpenses
  <2>2. CASE f = e
    BY <1>1, <2>1, <2>2 DEF JournalFollows
  <2>3. CASE f # e
    BY <2>1, <2>3 DEF JournalFollows
  <2> QED
    BY <2>2, <2>3
<1>3. ReversalsInvert'
  BY DEF LedgerInv, ReversalsInvert
<1> QED
  BY <1>2, <1>3

\* A commit moves one expense; a posting or a reversal adds the journal that
\* goes with the new status.
LEMMA CommitLedger ==
    ASSUME LedgerInv, NEW r \in Requests, NEW e \in Expenses, Commits(r, e)
    PROVE  JournalsFollowExpenses' /\ ReversalsInvert' /\ PostedInThePast' /\ ReadAfterPosting'
<1>1. TypeOK /\ expense[e] \in Rows /\ JournalFollows(e)
  BY DEF LedgerInv, JournalsFollowExpenses, TypeOK
<1>2. /\ Locked(r, req[r].action, e) /\ req[r].action \in {"CANCEL", "APPROVE", "POST", "VOID"}
      /\ req[r].actor \in Admins /\ req[r].reason \in Reasons \cup {None}
      /\ req[r].read \in Times /\ Scope(req[r]) \in Scopes
  BY <1>1, CommitFacts, BeginFacts DEF Actions
<1>3. /\ expense'[e] = RowAfter(r, e) /\ \A f \in Expenses \ {e} : expense'[f] = expense[f]
      /\ req' = [req EXCEPT ![r] = Idle] /\ now' = now
  <2>1. RowAfter(r, e) \in Rows /\ Committed(r, e, RowAfter(r, e))
    BY <1>1, CommitFacts
  <2> QED
    BY <1>1, <1>2, <2>1, CommittedFacts
<1>4. expense[e].status = FromStatus(req[r].action) /\ req[r].pc = "LOCKED" /\ req[r].expense = e
  BY <1>2 DEF Locked
<1>5. CASE req[r].action \in {"CANCEL", "APPROVE"}
  <2>1. journal' = journal
    BY <1>1, <1>5, CommitFacts
  <2>2. expense[e].status = "DRAFT" /\ expense'[e].status \in {"CANCELLED", "APPROVED"}
    BY <1>1, <1>3, <1>4, <1>5 DEF FromStatus, RowAfter, Rows
  <2>3. JournalsFollowExpenses' /\ ReversalsInvert'
    BY <1>3, <2>1, <2>2, RowChanges
  <2> QED
    BY <1>1, <1>3, <2>1, <2>3, ReadStays DEF LedgerInv, PostedInThePast, Idle
<1>6. CASE req[r].action = "POST"
  <2>1. /\ expense[e].status = "APPROVED" /\ expense'[e].status = "POSTED"
        /\ expense'[e].posted = PostedKey(e) /\ expense'[e].amount = expense[e].amount
    BY <1>1, <1>3, <1>4, <1>6 DEF FromStatus, RowAfter, Rows
  <2>2. journal[PostedKey(e)] = None
    BY <1>1, <2>1 DEF JournalFollows
  <2>3. /\ \A k \in EventKeys \ {PostedKey(e)} : journal'[k] = journal[k]
        /\ journal'[PostedKey(e)] # None /\ journal'[PostedKey(e)].postedAt = now
        /\ journal'[PostedKey(e)].payload.entries = ExpenseEntries(expense[e].amount)
    BY <1>1, <1>2, <1>6, <2>2, CommitFacts, PostEffect
  <2>4. journal[ReversedKey(e)] = None
    BY <2>2 DEF LedgerInv, ReversalsInvert
  <2>5. ASSUME NEW f \in Expenses PROVE JournalFollows(f)'
    <3>1. CASE f = e
      BY <2>1, <2>3, <3>1 DEF JournalFollows
    <3>2. CASE f # e
      BY <1>3, <2>3, <3>2, KeysDiffer DEF LedgerInv, JournalsFollowExpenses, JournalFollows
    <3> QED
      BY <3>1, <3>2
  <2>6. ReversalsInvert'
    BY <2>3, <2>4, KeysDiffer DEF LedgerInv, ReversalsInvert
  <2>7. PostedInThePast'
    BY <1>1, <1>3, <2>3, PostedAtType DEF LedgerInv, PostedInThePast
  <2>8. ReadAfterPosting'
    BY <1>1, <1>3, <2>2, <2>3, ReadStays DEF LedgerInv, Idle
  <2> QED
    BY <2>5, <2>6, <2>7, <2>8 DEF JournalsFollowExpenses
<1>7. CASE req[r].action = "VOID"
  <2>1. /\ expense[e].status = "POSTED" /\ expense'[e].status = "VOID"
        /\ expense'[e].posted = expense[e].posted /\ expense'[e].amount = expense[e].amount
        /\ expense'[e].void = ReversedKey(e) /\ expense'[e].reason = req[r].reason
    BY <1>1, <1>3, <1>4, <1>7 DEF FromStatus, RowAfter, Rows
  <2>2. ReverseJournal(e, req[r].read, req[r].actor, req[r].reason)
    BY <1>1, <1>7, CommitFacts
  <2>3. /\ \A k \in EventKeys \ {ReversedKey(e)} : journal'[k] = journal[k]
        /\ journal[PostedKey(e)] # None
        /\ journal[ReversedKey(e)] # None => journal' = journal
        /\ journal'[ReversedKey(e)] # None
        /\ journal'[ReversedKey(e)].payload.entries = InvertedEntries(journal[PostedKey(e)].payload.entries)
        /\ journal'[ReversedKey(e)].payload.reason = req[r].reason
        /\ journal'[ReversedKey(e)].payload.effective = req[r].read
    BY <1>1, <1>2, <2>2, ReverseEffect
  <2>4. journal[PostedKey(e)].postedAt <= req[r].read
    BY <1>4, <1>7 DEF LedgerInv, ReadAfterPosting
  <2>5. journal[PostedKey(e)].postedAt \in Nat /\ req[r].read \in Nat
    BY <1>1, <1>2, <2>3, PostedAtType, KeysDiffer DEF Times
  <2>6. ASSUME NEW f \in Expenses PROVE JournalFollows(f)'
    <3>1. CASE f = e
      BY <1>1, <2>1, <2>3, <2>4, <2>5, <3>1, KeysDiffer DEF JournalFollows
    <3>2. CASE f # e
      BY <1>3, <2>3, <3>2, KeysDiffer DEF LedgerInv, JournalsFollowExpenses, JournalFollows
    <3> QED
      BY <3>1, <3>2
  <2>7. ReversalsInvert'
    BY <2>3, KeysDiffer DEF LedgerInv, ReversalsInvert
  <2>8. \A k \in EventKeys : journal[k] # None => journal'[k] = journal[k]
    BY <2>3
  <2>9. journal[ReversedKey(e)] = None => journal'[ReversedKey(e)].postedAt = now
    BY <1>1, <2>2, KeysDiffer DEF ReverseJournal, Inserted, TypeOK
  <2>10. PostedInThePast'
    BY <1>1, <1>3, <2>3, <2>8, <2>9, PostedAtType DEF LedgerInv, PostedInThePast
  <2>11. ReadAfterPosting'
    BY <1>1, <1>3, <2>8, ReadStays DEF LedgerInv, Idle
  <2> QED
    BY <2>6, <2>7, <2>10, <2>11 DEF JournalsFollowExpenses
<1> QED
  BY <1>2, <1>5, <1>6, <1>7

\* The other service adds a reversal, or finds the one it wanted; the
\* expense's row, POSTED or VOID, stays as it is.
LEMMA AuditedLedger ==
    ASSUME LedgerInv, NEW a \in Admins, NEW e \in Expenses, NEW reason \in Reasons,
           NEW effective \in Times, AuditedReverse(a, e, reason, effective)
    PROVE  JournalsFollowExpenses' /\ ReversalsInvert' /\ PostedInThePast' /\ ReadAfterPosting'
<1>1. TypeOK /\ UNCHANGED <<now, expense, req>> /\ ReverseJournal(e, effective, a, reason)
  BY DEF LedgerInv, AuditedReverse
<1>2. /\ \A k \in EventKeys \ {ReversedKey(e)} : journal'[k] = journal[k]
      /\ journal[PostedKey(e)] # None
      /\ journal[ReversedKey(e)] # None => journal' = journal
      /\ journal'[ReversedKey(e)] # None
      /\ journal'[ReversedKey(e)].payload.entries = InvertedEntries(journal[PostedKey(e)].payload.entries)
  BY <1>1, ReverseEffect
<1>3. \A k \in EventKeys : journal[k] # None => journal'[k] = journal[k]
  BY <1>2
<1>4. journal[ReversedKey(e)] = None => journal'[ReversedKey(e)].postedAt = now
  BY <1>1, KeysDiffer DEF ReverseJournal, Inserted, TypeOK
<1>5. ASSUME NEW f \in Expenses PROVE JournalFollows(f)'
  <2>1. JournalFollows(f) /\ journal'[PostedKey(f)] = journal[PostedKey(f)]
    BY <1>2, KeysDiffer DEF LedgerInv, JournalsFollowExpenses
  <2>2. journal[ReversedKey(f)] # None => journal'[ReversedKey(f)] = journal[ReversedKey(f)]
    BY <1>3, KeysDiffer
  <2> QED
    BY <1>1, <2>1, <2>2 DEF JournalFollows
<1>6. ReversalsInvert'
  BY <1>2, KeysDiffer DEF LedgerInv, ReversalsInvert
<1>7. PostedInThePast'
  BY <1>1, <1>2, <1>3, <1>4, PostedAtType DEF LedgerInv, PostedInThePast
<1>8. ReadAfterPosting'
  <2> SUFFICES ASSUME NEW s \in Requests, req[s].pc = "LOCKED", req[s].action = "VOID"
               PROVE  /\ journal'[PostedKey(req[s].expense)] # None
                      /\ journal'[PostedKey(req[s].expense)].postedAt <= req[s].read
    BY <1>1 DEF ReadAfterPosting
  <2>1. req[s].expense \in Expenses
    BY <1>1 DEF TypeOK, IsRequest
  <2> QED
    BY <1>3, <2>1, KeysDiffer DEF LedgerInv, ReadAfterPosting
<1> QED
  BY <1>5, <1>6, <1>7, <1>8 DEF JournalsFollowExpenses

LEMMA LedgerInit == Init => LedgerInv
<1> SUFFICES ASSUME Init PROVE LedgerInv
  OBVIOUS
<1>1. \A e \in Expenses : expense[e].status = "NONE"
  BY DEF Init, NoRow, Row
<1>2. \A k \in EventKeys : journal[k] = None
  BY DEF Init
<1>3. JournalsFollowExpenses /\ ReversalsInvert
  BY <1>1, <1>2, KeysDiffer DEF JournalsFollowExpenses, JournalFollows, ReversalsInvert
<1> QED
  BY <1>2, <1>3, TypeInit DEF LedgerInv, PostedInThePast, ReadAfterPosting, Init, Idle

LEMMA LedgerStep == LedgerInv /\ [Next]_vars => LedgerInv'
<1> SUFFICES ASSUME LedgerInv, [Next]_vars PROVE LedgerInv'
  OBVIOUS
<1>1. TypeOK'
  BY TypeStep DEF LedgerInv
<1>2. CASE Tick
  <2>1. now <= now' /\ now' \in Int /\ UNCHANGED <<expense, journal, req>>
    BY <1>2, PostedAtType DEF Tick, books, LedgerInv
  <2>2. ReadAfterPosting'
    BY <2>1 DEF LedgerInv, ReadAfterPosting
  <2> QED
    BY <1>1, <2>1, <2>2, LedgerStays, PostedAtType DEF LedgerInv
<1>3. CASE Arrives
  <2>1. PICK r \in Requests, q \in ServedRequests :
           q.pc = "BEGUN" /\ req' = [req EXCEPT ![r] = q] /\ UNCHANGED <<now, books, idem, answers>>
    BY <1>3, ArrivalFacts DEF LedgerInv
  <2>2. UNCHANGED <<now, expense, journal>>
    BY <2>1 DEF books
  <2>3. JournalsFollowExpenses' /\ ReversalsInvert' /\ PostedInThePast'
    BY <2>2, LedgerStays, PostedAtType DEF LedgerInv
  <2>4. ReadAfterPosting'
    BY <2>1, <2>2, ReadStays DEF LedgerInv
  <2> QED
    BY <1>1, <2>3, <2>4 DEF LedgerInv
<1>4. CASE UNCHANGED vars
  <2>1. UNCHANGED <<now, expense, journal, req>>
    BY <1>4 DEF vars, books
  <2>2. ReadAfterPosting'
    BY <2>1 DEF LedgerInv, ReadAfterPosting
  <2> QED
    BY <1>1, <2>1, <2>2, LedgerStays, PostedAtType DEF LedgerInv
<1>5. ASSUME NEW r \in Requests, Quiet(r) PROVE LedgerInv'
  BY <1>1, <1>5, QuietLedger DEF LedgerInv
<1>6. ASSUME NEW r \in Requests, ReplayExpenseAction(r) PROVE LedgerInv'
  <2>1. req' = [req EXCEPT ![r] = Idle] /\ UNCHANGED <<now, expense, journal>>
    BY <1>6 DEF ReplayExpenseAction, Ends, books
  <2>2. JournalsFollowExpenses' /\ ReversalsInvert' /\ PostedInThePast'
    BY <2>1, LedgerStays, PostedAtType DEF LedgerInv
  <2>3. ReadAfterPosting'
    BY <2>1, ReadStays DEF LedgerInv, Idle
  <2> QED
    BY <1>1, <2>2, <2>3 DEF LedgerInv
<1>7. ASSUME NEW r \in Requests, CreateDraft(r) PROVE LedgerInv'
  <2>1. PICK e \in Expenses, row \in Rows :
           /\ expense[e].status = "NONE" /\ row.status = "DRAFT"
           /\ Committed(r, e, row) /\ journal' = journal
    BY <1>7, CreateFacts DEF LedgerInv
  <2>2. Scope(req[r]) \in Scopes
    BY <1>7, BeginFacts DEF LedgerInv
  <2>3. /\ now' = now /\ req' = [req EXCEPT ![r] = Idle]
        /\ expense'[e] = row /\ \A f \in Expenses \ {e} : expense'[f] = expense[f]
    BY <2>1, <2>2, CommittedFacts DEF LedgerInv
  <2>4. JournalsFollowExpenses' /\ ReversalsInvert'
    BY <2>1, <2>3, RowChanges
  <2>5. PostedInThePast' /\ ReadAfterPosting'
    BY <2>1, <2>3, ReadStays DEF LedgerInv, PostedInThePast, Idle
  <2> QED
    BY <1>1, <2>4, <2>5 DEF LedgerInv
<1>8. ASSUME NEW r \in Requests, NEW e \in Expenses, Commits(r, e) PROVE LedgerInv'
  BY <1>1, <1>8, CommitLedger DEF LedgerInv
<1>9. ASSUME NEW a \in Admins, NEW e \in Expenses, NEW reason \in Reasons, NEW effective \in Times,
             AuditedReverse(a, e, reason, effective)
      PROVE  LedgerInv'
  BY <1>1, <1>9, AuditedLedger DEF LedgerInv
<1> QED
  BY <1>2, <1>3, <1>4, <1>5, <1>6, <1>7, <1>8, <1>9, NextCases

\* PostExpense, VoidExpense and ReverseJournal: the expense rows and the ledger
\* never disagree, for any number of requests and whatever another service reverses.
THEOREM JournalsCorrect == Spec => []JournalsFollowExpenses
<1>1. LedgerInv => JournalsFollowExpenses
  BY DEF LedgerInv
<1> QED
  BY <1>1, LedgerInit, LedgerStep, PTL DEF Spec

\* ReverseJournal: every reversal is the exact inverse of its posting.
THEOREM ReversalsCorrect == Spec => []ReversalsInvert
<1>1. LedgerInv => ReversalsInvert
  BY DEF LedgerInv
<1> QED
  BY <1>1, LedgerInit, LedgerStep, PTL DEF Spec

----------------------------------------------------------------------------
(***************************************************************************)
(* Answers, stored answers and audit rows.                                 *)
(***************************************************************************)

\* No action undoes another's status: the sets After(action) are closed under
\* the moves of an expense.
LEMMA AfterMoves ==
    ASSUME NEW from \in Statuses, NEW to \in Statuses, NEW act \in Actions,
           \/ act = "CREATE" /\ from = "NONE" /\ to = "DRAFT"
           \/ act = "CANCEL" /\ from = "DRAFT" /\ to = "CANCELLED"
           \/ act = "APPROVE" /\ from = "DRAFT" /\ to = "APPROVED"
           \/ act = "POST" /\ from = "APPROVED" /\ to = "POSTED"
           \/ act = "VOID" /\ from = "POSTED" /\ to = "VOID"
    PROVE  /\ from \notin After(act) /\ to \in After(act)
           /\ \A other \in Actions \ {act} : from \in After(other) <=> to \in After(other)
BY DEF After, Statuses, Actions

\* One expense moves by one action, which writes its audit row, and the answer
\* is stored for the request's key.
LEMMA AnswersMove ==
    ASSUME AnswersInv, NEW r \in Requests, NEW e \in Expenses, NEW row \in Rows,
           Scope(req[r]) \in Scopes, Committed(r, e, row), NEW kinds, audit' = Recorded(e, kinds),
           kinds \cap Actions = {req[r].action}, req[r].action \in Actions,
           expense[e].status \notin After(req[r].action), row.status \in After(req[r].action),
           \A other \in Actions \ {req[r].action} :
               expense[e].status \in After(other) <=> row.status \in After(other)
    PROVE  AuditFollowsStatus' /\ StoredIsDone' /\ AnsweredIsStored'
<1> DEFINE scope == Scope(req[r])
<1>1. TypeOK
  BY DEF AnswersInv
<1>2. /\ expense'[e] = row /\ \A f \in Expenses \ {e} : expense'[f] = expense[f]
      /\ idem[scope] = None /\ idem'[scope] # None
      /\ idem'[scope].expense = e /\ idem'[scope].status = row.status
      /\ \A s \in Scopes \ {scope} : idem'[s] = idem[s]
      /\ answers' = answers \cup {Answer(r, e, row.status)}
  BY <1>1, CommittedFacts
<1>3. scope[2] = req[r].action
  BY DEF Scope
<1>4. AuditFollowsStatus'
  <2> SUFFICES ASSUME NEW f \in Expenses, NEW act \in Actions
               PROVE  audit'[f][act] = IF expense'[f].status \in After(act) THEN 1 ELSE 0
    BY DEF AuditFollowsStatus
  <2>1. audit[f][act] = IF expense[f].status \in After(act) THEN 1 ELSE 0
    BY DEF AnswersInv, AuditFollowsStatus
  <2>2. act \in AuditKinds
    BY DEF AuditKinds
  <2>3. CASE f # e
    BY <1>1, <1>2, <2>1, <2>3, RecordedFacts
  <2>4. CASE f = e
    <3>1. audit'[e][act] = audit[e][act] + (IF act \in kinds THEN 1 ELSE 0)
      BY <1>1, <2>2, RecordedFacts
    <3>2. act \in kinds <=> act = req[r].action
      OBVIOUS
    <3> QED
      BY <1>2, <2>1, <2>4, <3>1, <3>2
  <2> QED
    BY <2>3, <2>4
<1>5. StoredIsDone'
  <2> SUFFICES ASSUME NEW s \in Scopes, idem'[s] # None
               PROVE  expense'[idem'[s].expense].status \in After(s[2])
    BY DEF StoredIsDone
  <2>1. CASE s = scope
    BY <1>2, <1>3, <2>1
  <2>2. CASE s # scope
    <3>1. idem'[s] = idem[s] /\ idem[s].expense \in Expenses /\ s[2] \in Actions
      BY <1>1, <1>2, <2>2 DEF TypeOK, StoredAnswers, Scopes
    <3>2. expense[idem[s].expense].status \in After(s[2])
      BY <3>1 DEF AnswersInv, StoredIsDone
    <3> QED
      BY <1>2, <3>1, <3>2
  <2> QED
    BY <2>1, <2>2
<1>6. AnsweredIsStored'
  <2> SUFFICES ASSUME NEW x \in answers'
               PROVE  /\ idem'[x.scope] # None
                      /\ x.expense = idem'[x.scope].expense
                      /\ x.status = idem'[x.scope].status
    BY DEF AnsweredIsStored
  <2>1. CASE x = Answer(r, e, row.status)
    BY <1>2, <2>1 DEF Answer
  <2>2. CASE x \in answers
    <3>1. x.scope \in Scopes
      BY <1>1, <2>2 DEF TypeOK
    <3>2. idem[x.scope] # None
      BY <2>2 DEF AnswersInv, AnsweredIsStored
    <3>3. x.scope # scope
      BY <1>2, <3>2
    <3> QED
      BY <1>2, <2>2, <3>1, <3>3 DEF AnswersInv, AnsweredIsStored
  <2> QED
    BY <1>2, <2>1, <2>2
<1> QED
  BY <1>4, <1>5, <1>6

LEMMA AnswersStay ==
    ASSUME AnswersInv, UNCHANGED <<expense, idem, answers>>,
           \A e \in Expenses, act \in Actions : audit'[e][act] = audit[e][act]
    PROVE  AuditFollowsStatus' /\ StoredIsDone' /\ AnsweredIsStored'
BY DEF AnswersInv, AuditFollowsStatus, StoredIsDone, AnsweredIsStored

LEMMA AnswersInit == Init => AnswersInv
<1> SUFFICES ASSUME Init PROVE AnswersInv
  OBVIOUS
<1>1. \A e \in Expenses, act \in Actions : expense[e].status = "NONE" /\ audit[e][act] = 0
  BY DEF Init, NoRow, Row, AuditKinds
<1>2. \A act \in Actions : "NONE" \notin After(act)
  BY DEF Actions, After
<1>3. AuditFollowsStatus
  BY <1>1, <1>2 DEF AuditFollowsStatus
<1> QED
  BY <1>3, TypeInit DEF AnswersInv, Init, StoredIsDone, AnsweredIsStored, Scopes

LEMMA AnswersStep == AnswersInv /\ [Next]_vars => AnswersInv'
<1> SUFFICES ASSUME AnswersInv, [Next]_vars PROVE AnswersInv'
  OBVIOUS
<1>1. TypeOK /\ TypeOK'
  BY TypeStep DEF AnswersInv
<1>2. CASE Tick \/ Arrives \/ UNCHANGED vars
  <2>1. UNCHANGED <<expense, idem, audit, answers>>
    BY <1>1, <1>2, ArrivalFacts DEF Tick, vars, books
  <2> QED
    BY <1>1, <2>1, AnswersStay DEF AnswersInv
<1>3. ASSUME NEW r \in Requests, Quiet(r) PROVE AnswersInv'
  BY <1>1, <1>3, QuietFacts, AnswersStay DEF AnswersInv, books
<1>4. ASSUME NEW r \in Requests, ReplayExpenseAction(r) PROVE AnswersInv'
  <2>1. Scope(req[r]) \in Scopes /\ idem[Scope(req[r])] # None
    BY <1>1, <1>4 DEF ReplayExpenseAction, GetIdempotency, TypeOK, IsRequest
  <2>2. UNCHANGED <<expense, idem, audit>>
    BY <1>4 DEF ReplayExpenseAction, books
  <2>3. AuditFollowsStatus' /\ StoredIsDone'
    BY <2>2 DEF AnswersInv, AuditFollowsStatus, StoredIsDone
  <2>4. \A x \in answers' \ answers :
            x = Answer(r, idem[Scope(req[r])].expense, idem[Scope(req[r])].status)
    BY <1>4 DEF ReplayExpenseAction, GetIdempotency
  <2>5. AnsweredIsStored'
    BY <2>1, <2>2, <2>4 DEF AnswersInv, AnsweredIsStored, Answer
  <2> QED
    BY <1>1, <2>3, <2>5 DEF AnswersInv
<1>5. ASSUME NEW r \in Requests, CreateDraft(r) PROVE AnswersInv'
  <2>1. PICK e \in Expenses, row \in Rows :
           /\ expense[e].status = "NONE" /\ row.status = "DRAFT" /\ req[r].action = "CREATE"
           /\ Committed(r, e, row) /\ audit' = Recorded(e, {"CREATE"})
    BY <1>1, <1>5, CreateFacts
  <2>2. Scope(req[r]) \in Scopes
    BY <1>1, <1>5, BeginFacts
  <2>3. "NONE" \in Statuses /\ "DRAFT" \in Statuses /\ "CREATE" \in Actions
    BY DEF Statuses, Actions
  <2>4. /\ "NONE" \notin After("CREATE") /\ "DRAFT" \in After("CREATE")
        /\ \A other \in Actions \ {"CREATE"} : "NONE" \in After(other) <=> "DRAFT" \in After(other)
    BY <2>3, AfterMoves
  <2>5. {"CREATE"} \cap Actions = {"CREATE"}
    BY <2>3
  <2> QED
    BY <1>1, <2>1, <2>2, <2>3, <2>4, <2>5, AnswersMove DEF AnswersInv
<1>6. ASSUME NEW r \in Requests, NEW e \in Expenses, Commits(r, e) PROVE AnswersInv'
  <2> DEFINE act == req[r].action  row == RowAfter(r, e)
             kinds == IF act = "VOID" THEN {"VOID"} \cup ReversalMarker(e) ELSE {act}
  <2>1. /\ act \in {"CANCEL", "APPROVE", "POST", "VOID"} /\ Locked(r, act, e)
        /\ row \in Rows /\ Committed(r, e, row) /\ audit' = Recorded(e, kinds)
    BY <1>1, <1>6, CommitFacts
  <2>2. Scope(req[r]) \in Scopes /\ act \in Actions
    BY <1>1, <2>1, BeginFacts DEF Actions
  <2>3. expense[e] \in Rows /\ expense[e].status = FromStatus(act)
    BY <1>1, <2>1 DEF TypeOK, Locked
  <2>4. kinds \cap Actions = {act}
    BY <2>2 DEF ReversalMarker, Actions
  <2>5. /\ act = "CANCEL" => expense[e].status = "DRAFT" /\ row.status = "CANCELLED"
        /\ act = "APPROVE" => expense[e].status = "DRAFT" /\ row.status = "APPROVED"
        /\ act = "POST" => expense[e].status = "APPROVED" /\ row.status = "POSTED"
        /\ act = "VOID" => expense[e].status = "POSTED" /\ row.status = "VOID"
    BY <2>3 DEF FromStatus, RowAfter, Rows
  <2>6. expense[e].status \in Statuses /\ row.status \in Statuses
    BY <2>1, <2>3 DEF Rows
  <2>7. /\ expense[e].status \notin After(act) /\ row.status \in After(act)
        /\ \A other \in Actions \ {act} : expense[e].status \in After(other) <=> row.status \in After(other)
    <3> HIDE DEF row, act
    <3> QED
      BY <2>1, <2>2, <2>5, <2>6, AfterMoves
  <2>8. AuditFollowsStatus' /\ StoredIsDone' /\ AnsweredIsStored'
    <3> HIDE DEF row, kinds
    <3> QED
      BY <2>1, <2>2, <2>4, <2>7, AnswersMove
  <2> QED
    BY <1>1, <2>8 DEF AnswersInv
<1>7. ASSUME NEW a \in Admins, NEW e \in Expenses, NEW reason \in Reasons, NEW effective \in Times,
             AuditedReverse(a, e, reason, effective)
      PROVE  AnswersInv'
  <2>1. UNCHANGED <<expense, idem, answers>> /\ audit' = Recorded(e, ReversalMarker(e))
    BY <1>7 DEF AuditedReverse
  <2>2. ReversalMarker(e) \cap Actions = {} /\ Actions \subseteq AuditKinds
    BY DEF ReversalMarker, Actions, AuditKinds
  <2>3. \A f \in Expenses, act \in Actions : audit[f][act] \in Nat
    BY <1>1, <2>2 DEF TypeOK
  <2>4. \A f \in Expenses, act \in Actions : audit'[f][act] = audit[f][act]
    BY <1>1, <2>1, <2>2, <2>3, RecordedFacts
  <2> QED
    BY <1>1, <2>1, <2>4, AnswersStay DEF AnswersInv
<1> QED
  BY <1>2, <1>3, <1>4, <1>5, <1>6, <1>7, NextCases

\* Two answers to one key are both what is stored for it, and what is stored
\* was done, once.
LEMMA AnswersFollow == AnswersInv => AnswersAgree
<1> SUFFICES ASSUME AnswersInv PROVE AnswersAgree
  OBVIOUS
<1>1. answers \subseteq [scope : Scopes, expense : Expenses, status : Statuses]
  BY DEF AnswersInv, TypeOK
<1>2. ASSUME NEW x \in answers, NEW y \in answers, x.scope = y.scope PROVE x = y
  <2>1. x.expense = y.expense /\ x.status = y.status
    BY <1>2 DEF AnswersInv, AnsweredIsStored
  <2>2. /\ x = [scope |-> x.scope, expense |-> x.expense, status |-> x.status]
        /\ y = [scope |-> y.scope, expense |-> y.expense, status |-> y.status]
    BY <1>1
  <2> QED
    BY <1>2, <2>1, <2>2
<1>3. ASSUME NEW x \in answers PROVE audit[x.expense][x.scope[2]] = 1
  <2>1. x.scope \in Scopes /\ x.expense \in Expenses /\ x.scope[2] \in Actions
    BY <1>1 DEF Scopes
  <2>2. idem[x.scope] # None /\ x.expense = idem[x.scope].expense
    BY DEF AnswersInv, AnsweredIsStored
  <2>3. expense[x.expense].status \in After(x.scope[2])
    BY <2>1, <2>2 DEF AnswersInv, StoredIsDone
  <2> QED
    BY <2>1, <2>3 DEF AnswersInv, AuditFollowsStatus
<1> QED
  BY <1>2, <1>3 DEF AnswersAgree

\* LockIdempotency, GetIdempotency and InsertIdempotency: every answer to a key
\* is the same, and what it reports was done exactly once.
THEOREM AnswersCorrect == Spec => []AnswersAgree
BY AnswersFollow, AnswersInit, AnswersStep, PTL DEF Spec

----------------------------------------------------------------------------
(***************************************************************************)
(* The balances.  An expense adds its amount to an account once, while its *)
(* posting is not reversed: its reversal cancels its posting.              *)
(***************************************************************************)

\* What an amount counts for an account of an expense's posting.
SignOf(account) == IF account = "OPEX" THEN 1 ELSE -1

LEMMA BookedByPosting ==
    ASSUME NEW account \in Accounts, NEW amount \in Nat
    PROVE  /\ Booked(account, ExpenseEntries(amount)) = SignOf(account) * amount
           /\ Booked(account, InvertedEntries(ExpenseEntries(amount))) = -(SignOf(account) * amount)
<1> DEFINE Signed(entries) ==
             [i \in DOMAIN entries |->
                IF entries[i].account # account THEN 0
                ELSE IF entries[i].side = "DEBIT" THEN entries[i].amount ELSE -entries[i].amount]
           posted   == ExpenseEntries(amount)
           inverted == InvertedEntries(ExpenseEntries(amount))
<1>1. posted = <<Entry("OPEX", "DEBIT", amount), Entry("BANK", "CREDIT", amount)>> /\ DOMAIN posted = {1, 2}
  BY DEF ExpenseEntries
<1>2. DOMAIN inverted = {1, 2} /\ \A i \in {1, 2} : inverted[i] = [posted[i] EXCEPT !.side = InvertSide(posted[i].side)]
  BY <1>1 DEF InvertedEntries
<1>3. /\ DOMAIN Signed(posted) = {1, 2}
      /\ Signed(posted)[1] = IF account = "OPEX" THEN amount ELSE 0
      /\ Signed(posted)[2] = IF account = "BANK" THEN -amount ELSE 0
  BY <1>1 DEF Entry
<1>4. /\ DOMAIN Signed(inverted) = {1, 2}
      /\ Signed(inverted)[1] = IF account = "OPEX" THEN -amount ELSE 0
      /\ Signed(inverted)[2] = IF account = "BANK" THEN amount ELSE 0
  BY <1>1, <1>2 DEF Entry, InvertSide
<1> HIDE DEF Signed, posted, inverted
<1>5. /\ SumFunction(Signed(posted)) = Signed(posted)[1] + Signed(posted)[2]
      /\ SumFunction(Signed(inverted)) = Signed(inverted)[1] + Signed(inverted)[2]
  BY <1>3, <1>4, SumPair DEF SumFunction
<1>6. account = "OPEX" \/ account = "BANK"
  BY DEF Accounts
<1>7. /\ SumFunction(Signed(posted)) = SignOf(account) * amount
      /\ SumFunction(Signed(inverted)) = -(SignOf(account) * amount)
  BY <1>3, <1>4, <1>5, <1>6 DEF SignOf
<1> QED
  BY <1>7 DEF Booked, Signed, posted, inverted

\* PostJournal, ReverseJournal: the balance of each account is what the posted
\* and not reversed expenses cost.
LEMMA LedgerBalances == LedgerInv => LedgerMatchesExpenses
<1> SUFFICES ASSUME LedgerInv PROVE LedgerMatchesExpenses
  OBVIOUS
<1> DEFINE open == {e \in Expenses : expense[e].status \in {"POSTED", "VOID"} /\ journal[ReversedKey(e)] = None}
           cost == [e \in open |-> expense[e].amount]
           spent == SumFunction(cost)
<1>1. IsFiniteSet(Expenses) /\ IsFiniteSet(open)
  BY LedgerAssumption, FS_Subset
<1>2. \A e \in Expenses : expense[e].amount \in Nat
  BY DEF LedgerInv, TypeOK, Rows
<1>3. IsFiniteSet(Journals)
  <2>1. IsFiniteSet({"expense.posted"} \cup {"journal.reversed"})
    BY FS_Singleton, FS_AddElement
  <2>2. IsFiniteSet(EventKeys)
    <3>1. {"expense.posted", "journal.reversed"} = {"expense.posted"} \cup {"journal.reversed"}
      OBVIOUS
    <3> QED
      BY <1>1, <2>1, <3>1, FS_Product DEF EventKeys
  <2> QED
    BY <2>2, FS_Subset DEF Journals
<1>4. ASSUME NEW account \in Accounts
      PROVE  Balance(account) = SignOf(account) * spent
  <2> DEFINE B == [k \in Journals |-> Booked(account, journal[k].payload.entries)]
             group == [k \in Journals |-> k[2]]
             Of(e) == {k \in Journals : group[k] = e}
             net == [e \in Expenses |-> SumFunctionOnSet(B, Of(e))]
             signed == [e \in open |-> expense[e].amount * SignOf(account)]
  <2>1. ASSUME NEW e \in Expenses
        PROVE  /\ e \in open => Of(e) = {PostedKey(e)} /\ B[PostedKey(e)] = expense[e].amount * SignOf(account)
               /\ e \notin open => \/ Of(e) = {}
                                   \/ /\ Of(e) = {PostedKey(e), ReversedKey(e)}
                                      /\ B[PostedKey(e)] \in Int
                                      /\ B[ReversedKey(e)] = -B[PostedKey(e)]
    <3>1. Of(e) \subseteq {PostedKey(e), ReversedKey(e)}
      BY DEF Journals, EventKeys, PostedKey, ReversedKey
    <3>2. /\ PostedKey(e) \in Of(e) <=> journal[PostedKey(e)] # None
          /\ ReversedKey(e) \in Of(e) <=> journal[ReversedKey(e)] # None
      BY KeysDiffer DEF Journals, PostedKey, ReversedKey
    <3>3. JournalFollows(e)
      BY DEF LedgerInv, JournalsFollowExpenses
    <3>4. journal[PostedKey(e)] # None =>
             journal[PostedKey(e)].payload.entries = ExpenseEntries(expense[e].amount)
      BY <3>3 DEF JournalFollows
    <3>5. journal[ReversedKey(e)] # None =>
             /\ journal[PostedKey(e)] # None
             /\ journal[ReversedKey(e)].payload.entries = InvertedEntries(ExpenseEntries(expense[e].amount))
      BY <3>4 DEF LedgerInv, ReversalsInvert
    <3>6. /\ PostedKey(e) \in Of(e) => B[PostedKey(e)] = Booked(account, ExpenseEntries(expense[e].amount))
          /\ ReversedKey(e) \in Of(e) =>
                B[ReversedKey(e)] = Booked(account, InvertedEntries(ExpenseEntries(expense[e].amount)))
      BY <3>2, <3>4, <3>5
    <3>7. e \in open <=> journal[PostedKey(e)] # None /\ journal[ReversedKey(e)] = None
      BY <3>3 DEF JournalFollows
    <3>8. /\ Booked(account, ExpenseEntries(expense[e].amount)) = expense[e].amount * SignOf(account)
          /\ Booked(account, InvertedEntries(ExpenseEntries(expense[e].amount))) = -(expense[e].amount * SignOf(account))
          /\ expense[e].amount * SignOf(account) \in Int
      BY <1>2, BookedByPosting DEF SignOf
    <3> HIDE DEF B, Of, open
    <3>9. CASE e \in open
      BY <3>1, <3>2, <3>6, <3>7, <3>8, <3>9
    <3>10. CASE e \notin open
      <4>1. CASE journal[PostedKey(e)] = None
        BY <3>1, <3>2, <3>5, <3>10, <4>1
      <4>2. CASE journal[PostedKey(e)] # None
        BY <3>1, <3>2, <3>6, <3>7, <3>8, <3>10, <4>2
      <4> QED
        BY <4>1, <4>2
    <3> QED
      BY <3>9, <3>10
  <2>2. Summable(B, Journals)
    <3> SUFFICES ASSUME NEW k \in Journals PROVE B[k] \in Int
      BY DEF Summable
    <3>1. PICK e \in Expenses : k \in Of(e)
      BY DEF Journals, EventKeys
    <3> HIDE DEF B, Of, open
    <3> QED
      BY <1>2, <2>1, <3>1 DEF SignOf
  <2>3. \A k \in Journals : group[k] \in Expenses
    BY DEF Journals, EventKeys
  <2>4. SumFunctionOnSet(B, Journals) = SumFunctionOnSet(net, Expenses)
    <3> HIDE DEF B, group
    <3> QED
      BY <1>1, <1>3, <2>2, <2>3, SumGroups
  <2>5. ASSUME NEW e \in Expenses
        PROVE  /\ e \in open => net[e] = signed[e]
               /\ e \notin open => net[e] = 0
    <3>1. net[e] = SumFunctionOnSet(B, Of(e))
      OBVIOUS
    <3>2. ASSUME e \in open PROVE net[e] = signed[e]
      <4>1. signed[e] = expense[e].amount * SignOf(account) /\ signed[e] \in Int
        BY <1>2, <3>2 DEF SignOf
      <4> HIDE DEF B, Of, open, net, signed
      <4>2. SumFunctionOnSet(B, {PostedKey(e)}) = B[PostedKey(e)]
        BY <2>1, <3>2, <4>1, SumSingleton
      <4> QED
        BY <2>1, <3>1, <3>2, <4>1, <4>2
    <3>3. ASSUME e \notin open PROVE net[e] = 0
      <4> HIDE DEF B, Of, open, net, signed
      <4>1. CASE Of(e) = {}
        BY <3>1, <4>1, SumEmpty
      <4>2. CASE /\ Of(e) = {PostedKey(e), ReversedKey(e)}
                 /\ B[PostedKey(e)] \in Int
                 /\ B[ReversedKey(e)] = -B[PostedKey(e)]
        <5>1. SumFunctionOnSet(B, {PostedKey(e), ReversedKey(e)}) = B[PostedKey(e)] + B[ReversedKey(e)]
          <6>1. PostedKey(e) # ReversedKey(e) /\ B[PostedKey(e)] \in Int /\ B[ReversedKey(e)] \in Int
            BY <4>2, KeysDiffer
          <6> QED
            BY <6>1, SumPair
        <5> QED
          BY <3>1, <4>2, <5>1
      <4> QED
        BY <2>1, <3>3, <4>1, <4>2
    <3> QED
      BY <3>2, <3>3
  <2>6. Summable(net, open) /\ Summable(net, Expenses)
    <3>1. \A e \in open : signed[e] \in Int
      BY <1>2 DEF SignOf
    <3> HIDE DEF net, signed
    <3> QED
      BY <2>5, <3>1 DEF Summable
  <2>7. SumFunctionOnSet(net, Expenses) = SumFunctionOnSet(net, open)
    <3>1. \A e \in Expenses \ open : net[e] = 0
      BY <2>5
    <3>2. open \in SUBSET Expenses
      OBVIOUS
    <3> HIDE DEF net, open
    <3> QED
      BY <1>1, <2>6, <3>1, <3>2, SumSupport
  <2>8. SumFunctionOnSet(net, open) = SumFunctionOnSet(cost, open) * SignOf(account)
    <3>1. \A e \in open : net[e] = cost[e] * SignOf(account) /\ cost[e] \in Int
      <4> SUFFICES ASSUME NEW e \in open PROVE net[e] = cost[e] * SignOf(account) /\ cost[e] \in Int
        OBVIOUS
      <4>1. signed[e] = cost[e] * SignOf(account) /\ cost[e] \in Int
        BY <1>2
      <4> QED
        BY <2>5, <4>1
    <3>2. SignOf(account) \in Int
      BY DEF SignOf
    <3> HIDE DEF net, open, cost
    <3> QED
      BY <1>1, <3>1, <3>2, SumScaled DEF Summable
  <2>9. Balance(account) = SumFunctionOnSet(B, Journals)
    BY DEF Balance, SumFunction
  <2>10. spent = SumFunctionOnSet(cost, open) /\ spent \in Int
    <3>1. Summable(cost, open) /\ DOMAIN cost = open
      BY <1>2 DEF Summable
    <3> HIDE DEF cost, open
    <3> QED
      BY <1>1, <3>1, SumType DEF SumFunction
  <2> HIDE DEF spent, B, net, cost, open
  <2> QED
    BY <2>4, <2>7, <2>8, <2>9, <2>10 DEF SignOf
<1>5. "OPEX" \in Accounts /\ "BANK" \in Accounts /\ SignOf("OPEX") = 1 /\ SignOf("BANK") = -1
  BY DEF Accounts, SignOf
<1>6. spent \in Int
  <2>1. Summable(cost, open) /\ DOMAIN cost = open
    BY <1>2 DEF Summable
  <2> HIDE DEF cost, open
  <2> QED
    BY <1>1, <2>1, SumType DEF SumFunction
<1>7. Balance("OPEX") = spent /\ Balance("BANK") = -spent
  <2> HIDE DEF spent
  <2> QED
    BY <1>4, <1>5, <1>6
<1> QED
  BY <1>7 DEF LedgerMatchesExpenses

\* PostJournal, ReverseJournal: the balances of the books are the posted and
\* not reversed expenses, for any number of requests, expenses and amounts.
THEOREM BalancesCorrect == Spec => []LedgerMatchesExpenses
<1> QED
  BY LedgerBalances, LedgerInit, LedgerStep, PTL DEF Spec

=============================================================================
