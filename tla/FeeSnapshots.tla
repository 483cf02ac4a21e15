---------------------------- MODULE FeeSnapshots ----------------------------
(***************************************************************************)
(* Commercial terms, the fee snapshot every booking is priced with, the    *)
(* cutover after which no booking may exist without one, and the backfill  *)
(* that gives the older bookings theirs (packages commercialterms and      *)
(* platformfinance, bookings/snapshot_orchestrator.go, the commands        *)
(* finance-cutover, backfill-platform-finance and detect-platform-         *)
(* finance-p0, and migrations 019 to 021).                                 *)
(*                                                                         *)
(* A booking transaction is split where PostgreSQL lets others in: its     *)
(* begin (which fixes created_at), the reading of the commercial term, the *)
(* INSERT (which waits for the cutover's table lock), the deferred trigger *)
(* at COMMIT and the COMMIT itself.  The database clock is the only clock. *)
(* Bookings are priced for one owner; ids are UUIDs, whose order has       *)
(* nothing to do with time.                                                *)
(***************************************************************************)
EXTENDS BookingFees, FiniteSets

CONSTANTS
    Ids,             \* booking ids, positive integers: the order of the UUIDs
    PolicyRequests,  \* what a booking request asks for: [channel, original, adjustment, reason];
                     \* online only a promo moves the price, downwards (ErrInvalidPromoPrice)
    LegacyRows,      \* price columns written by releases without snapshots
    TermReqs,        \* calls of CreateTerm
    TermInputs,      \* their bodies: [key, scope, bps, from, mode]
    Activators,      \* runs of finance-cutover --apply
    Workloads,       \* bound: which bookings and calls of CreateTerm arrive together
    BatchSize,       \* --batch-size of the backfill
    MaxClock,        \* bound on the clock
    Fraction         \* a NUMERIC(12,2) amount that is not a whole rupiah

Global == "GLOBAL"
Owner == "OWNER"
Scopes == {Global, Owner}

\* Instants of the model, and the end of an open-ended term.
Time == 0 .. MaxClock
Forever == MaxClock + 2

\* A price column of a row.
Money == Nat \cup {Fraction, None}

PolicyRequest == [channel : {Online, WalkIn}, original : Nat, adjustment : Int, reason : BOOLEAN]
PriceColumns == [channel : {Online, WalkIn}, original : Money, final : Money, total : Money,
                 discount : Money \cup Int, offSystem : Money, offFinal : Money, reason : BOOLEAN]
TermInput == [key : STRING, scope : Scopes, bps : Int, from : 1 .. MaxClock + 1,
              mode : {"SIMULATION", "LIVE"}]

\* Rows of platform_commercial_terms and of booking_fee_snapshots.
TermIds == Scopes \X (0 .. MaxClock + 1)
TermRow == [scope : Scopes, from : 0 .. MaxClock + 1, until : 0 .. Forever, bps : 0 .. MaxBps, at : Time]
Snapshot == [source : {"POLICY", "LEGACY_NO_COMMISSION"}, term : TermIds \cup {None},
             channel : {Online, WalkIn}, original : Nat, final : Nat, bps : 0 .. MaxBps,
             commission : Nat, net : Nat]

\* The audit rows of CreateTerm, its calls, and the booking transactions.
AuditRow == [key : STRING, action : {"CREATED", "LIVE_REJECTED"}, in : TermInputs, term : TermIds \cup {None}]
TermCall == [pc : {"absent", "idle", "begun", "keyed", "answered"}, in : TermInputs \cup {None}, ts : Time,
             term : TermIds \cup {None},
             answer : {"", "TERM", "CONFLICT", "INVALID", "FORBIDDEN", "ERROR"}]
BookingTx == [stage : {"absent", "none", "begun", "priced", "inserted", "checked", "done", "aborted"},
              created : Time, effective : Time, row : PriceColumns \cup {None}, fee : Snapshot \cup {None}]

ASSUME ConstantsAssumption ==
    /\ Ids \subseteq Nat \ {0}
    /\ IsFiniteSet(Ids)
    /\ PolicyRequests \subseteq PolicyRequest
    /\ \A p \in PolicyRequests : p.channel = Online => p.adjustment <= 0
    /\ LegacyRows \subseteq PriceColumns
    /\ TermInputs \subseteq TermInput
    /\ Workloads \subseteq [bookings : SUBSET Ids, calls : SUBSET TermReqs]
    /\ BatchSize \in Nat \ {0}
    /\ MaxClock \in Nat

ASSUME NoneAssumption ==
    None \notin Int \cup TermRow \cup Snapshot /\ Fraction \notin Int \cup {None}

VARIABLES
    clock,   \* the database's clock
    terms,   \* platform_commercial_terms; field at (when the row was committed) is history
    audits,  \* the audit rows CreateTerm looks up by idempotency key
    treq,    \* the calls of CreateTerm
    book,    \* the booking transactions, and the rows they committed
    snap,    \* booking_fee_snapshots, committed rows only
    cut,     \* snapshot_cutover_at of the one platform_finance_cutovers row, or None
    act,     \* the runs of ActivateCutover
    fill     \* the backfill runner, which holds a session advisory lock

vars == <<clock, terms, audits, treq, book, snap, cut, act, fill>>

----------------------------------------------------------------------------
(* Commercial terms.                                                       *)

TermId(t) == <<t.scope, t.from>>

InForce(scope, at) == {t \in terms : t.scope = scope /\ t.from <= at /\ at < t.until}

\* ResolveEffectiveTerm: the owner's term, else the global one.  More than one
\* row in either scope is an error, and so is no row at all.
ResolveEffectiveTerm(at) ==
    LET own == InForce(Owner, at)
        global == InForce(Global, at)
    IN  IF Cardinality(own) > 1 \/ Cardinality(global) > 1 \/ own \cup global = {}
        THEN None
        ELSE CHOOSE t \in (IF own # {} THEN own ELSE global) : TRUE

\* The seed row of migration 019.
SeedTerm == [scope |-> Global, from |-> 0, until |-> Forever, bps |-> 700, at |-> 0]

IdleRequest == [pc |-> "idle", in |-> None, ts |-> 0, answer |-> "", term |-> None]

\* The request passes Validate and opens its transaction, whose timestamp it
\* will compare valid_from with.
BeginTerm(r) ==
    /\ treq[r].pc = "idle"
    /\ \E in \in TermInputs :
          /\ in.bps \in 0 .. MaxBps
          /\ treq' = [treq EXCEPT ![r] = [pc |-> "begun", in |-> in, ts |-> clock,
                                              answer |-> "", term |-> None]]
    /\ UNCHANGED <<clock, terms, audits, book, snap, cut, act, fill>>

Answered(r, answer, term) ==
    [treq EXCEPT ![r].pc = "answered", ![r].answer = answer, ![r].term = term]

\* Altered form: the idempotency key is not locked.
KeyFreeUnlocked(r) == r \in TermReqs

\* The advisory lock on the idempotency key is held to the end of the transaction.
KeyFree(r) == \A q \in TermReqs \ {r} : ~(treq[q].pc = "keyed" /\ treq[q].in.key = treq[r].in.key)

AuditsOf(key) == {a \in audits : a.key = key}

\* The stored fingerprint, or the stored term, is that of this body.
SameRequest(a, in) == a.in = in

\* A LIVE request is refused and leaves an audit row that reserves its key.
RejectLive(r) ==
    LET in == treq[r].in
        same == {a \in AuditsOf(in.key) : a.action = "LIVE_REJECTED" /\ SameRequest(a, in)}
    IN  /\ treq[r].pc = "begun" /\ in.mode = "LIVE" /\ KeyFree(r)
        /\ IF AuditsOf(in.key) = {}
           THEN audits' = audits \cup {[key |-> in.key, action |-> "LIVE_REJECTED", in |-> in,
                                         term |-> None]}
           ELSE UNCHANGED audits
        /\ treq' = Answered(r, IF AuditsOf(in.key) = {} \/ same # {} THEN "FORBIDDEN" ELSE "CONFLICT",
                             None)
        /\ UNCHANGED <<clock, terms, book, snap, cut, act, fill>>

\* A key that was used answers with the term it created if the body is the same.
ReplayTerm(r) ==
    LET in == treq[r].in
        same == {a \in AuditsOf(in.key) : a.action = "CREATED" /\ SameRequest(a, in)}
    IN  /\ treq[r].pc = "begun" /\ in.mode # "LIVE" /\ KeyFree(r)
        /\ AuditsOf(in.key) # {}
        /\ treq' = IF same # {} THEN Answered(r, "TERM", (CHOOSE a \in same : TRUE).term)
                              ELSE Answered(r, "CONFLICT", None)
        /\ UNCHANGED <<clock, terms, audits, book, snap, cut, act, fill>>

\* A new key: valid_from is compared with the timestamp of the transaction,
\* before the wait for the scope's advisory lock.
LockScope(r) ==
    LET in == treq[r].in
    IN  /\ treq[r].pc = "begun" /\ in.mode # "LIVE" /\ KeyFree(r)
        /\ AuditsOf(in.key) = {}
        /\ treq' = IF in.from <= treq[r].ts THEN Answered(r, "INVALID", None)
                                             ELSE [treq EXCEPT ![r].pc = "keyed"]
        /\ UNCHANGED <<clock, terms, audits, book, snap, cut, act, fill>>

OpenTerms(scope) == {t \in terms : t.scope = scope /\ t.until = Forever}

\* Altered form: the old term ends one instant too early.
SupersededEarly(in) ==
    {IF t \in OpenTerms(in.scope) THEN [t EXCEPT !.until = in.from - 1] ELSE t : t \in terms}

\* SupersedeTerm ends the open-ended term of the scope where the new one begins.
Superseded(in) ==
    {IF t \in OpenTerms(in.scope) THEN [t EXCEPT !.until = in.from] ELSE t : t \in terms}

\* Under the scope's lock, to the commit.  The exclusion constraint and the
\* unique index of migration 019 refuse what would overlap.
CommitTerm(r) ==
    LET in == treq[r].in
        new == [scope |-> in.scope, from |-> in.from, until |-> Forever, bps |-> in.bps, at |-> clock]
        later == \A t \in OpenTerms(in.scope) : t.from < in.from
        overlap == \E t \in Superseded(in) : t.scope = in.scope /\ in.from < t.until
    IN  /\ treq[r].pc = "keyed"
        /\ IF later /\ ~overlap
           THEN /\ terms' = Superseded(in) \cup {new}
                /\ audits' = audits \cup {[key |-> in.key, action |-> "CREATED", in |-> in,
                                            term |-> TermId(new)]}
                /\ treq' = Answered(r, "TERM", TermId(new))
           ELSE /\ treq' = Answered(r, "CONFLICT", None)
                /\ UNCHANGED <<terms, audits>>
        /\ UNCHANGED <<clock, book, snap, cut, act, fill>>

\* The connection or the process is lost: the transaction rolls back.
FailTerm(r) ==
    /\ treq[r].pc \in {"begun", "keyed"}
    /\ treq' = Answered(r, "ERROR", None)
    /\ UNCHANGED <<clock, terms, audits, book, snap, cut, act, fill>>

----------------------------------------------------------------------------
(* Booking transactions.                                                   *)

NoBooking == [stage |-> "none", created |-> 0, effective |-> 0, row |-> None, fee |-> None]
RolledBack == [NoBooking EXCEPT !.stage = "aborted"]

\* created_at is DEFAULT now(), the start of the transaction.
BeginBooking(b) ==
    /\ book[b].stage = "none"
    /\ book' = [book EXCEPT ![b].stage = "begun", ![b].created = clock]
    /\ UNCHANGED <<clock, terms, audits, treq, snap, cut, act, fill>>

\* The columns InsertBooking and InsertOfflineBookingTx write.
PolicyRow(p) ==
    LET final == p.original + p.adjustment
    IN  [channel |-> p.channel, original |-> p.original, final |-> final, total |-> final,
         discount |-> IF p.channel = Online THEN p.original - final ELSE 0,
         offSystem |-> IF p.channel = WalkIn THEN p.original ELSE None,
         offFinal |-> IF p.channel = WalkIn THEN final ELSE None,
         reason |-> p.reason]

\* What CreateBookingWithSnapshot stores beside the booking.
PolicySnapshot(p, t) ==
    LET fees == CalculateBookingFees(p, t.bps)
    IN  [source |-> "POLICY", term |-> TermId(t), channel |-> p.channel, original |-> p.original,
         final |-> fees.final, bps |-> fees.bps, commission |-> fees.commission, net |-> fees.net]

\* Altered form: the term is the one in force when the transaction began.
PriceBookingAtBegin(b, p) ==
    LET t == ResolveEffectiveTerm(book[b].created)
    IN  /\ book[b].stage = "begun"
        /\ t # None /\ CalculateBookingFees(p, t.bps) # None
        /\ book' = [book EXCEPT ![b] = [stage |-> "priced", created |-> book[b].created,
                                        effective |-> clock, row |-> PolicyRow(p),
                                        fee |-> PolicySnapshot(p, t)]]
        /\ UNCHANGED <<clock, terms, audits, treq, snap, cut, act, fill>>

\* CreateBookingWithSnapshot up to the INSERT: the effective time is read, the
\* term in force resolved and the fees calculated; a refusal rolls back.
PriceBooking(b, p) ==
    LET t == ResolveEffectiveTerm(clock)
        refused == t = None \/ CalculateBookingFees(p, t.bps) = None
    IN  /\ book[b].stage = "begun"
        /\ book' = IF refused
                   THEN [book EXCEPT ![b] = RolledBack]
                   ELSE [book EXCEPT ![b] = [stage |-> "priced", created |-> book[b].created,
                                             effective |-> clock, row |-> PolicyRow(p),
                                             fee |-> PolicySnapshot(p, t)]]
        /\ UNCHANGED <<clock, terms, audits, treq, snap, cut, act, fill>>

\* Altered form: the lock mode does not conflict with inserts.
TableLockedWeakly == FALSE

\* The cutover's SHARE ROW EXCLUSIVE lock on bookings refuses inserts.
TableLocked == \E c \in Activators : act[c].pc = "locked"

InsertBooking(b) ==
    /\ book[b].stage = "priced"
    /\ ~TableLocked
    /\ book' = [book EXCEPT ![b].stage = "inserted"]
    /\ UNCHANGED <<clock, terms, audits, treq, snap, cut, act, fill>>

\* A release without snapshots, still running, inserts a bare booking.
InsertLegacy(b, row) ==
    /\ book[b].stage = "begun"
    /\ ~TableLocked
    /\ book' = [book EXCEPT ![b].stage = "inserted", ![b].row = row]
    /\ UNCHANGED <<clock, terms, audits, treq, snap, cut, act, fill>>

\* The deferred trigger at COMMIT (READ COMMITTED: it sees the latest cutover).
SnapshotRequired(b) == book[b].fee = None /\ cut # None

CheckSnapshot(b) ==
    /\ book[b].stage = "inserted"
    /\ book' = IF SnapshotRequired(b) THEN [book EXCEPT ![b] = RolledBack]
                                    ELSE [book EXCEPT ![b].stage = "checked"]
    /\ UNCHANGED <<clock, terms, audits, treq, snap, cut, act, fill>>

CommitBooking(b) ==
    /\ book[b].stage = "checked"
    /\ book' = [book EXCEPT ![b].stage = "done"]
    /\ snap' = [snap EXCEPT ![b] = book[b].fee]
    /\ UNCHANGED <<clock, terms, audits, treq, cut, act, fill>>

AbortBooking(b) ==
    /\ book[b].stage \in {"begun", "priced", "inserted", "checked"}
    /\ book' = [book EXCEPT ![b] = RolledBack]
    /\ UNCHANGED <<clock, terms, audits, treq, snap, cut, act, fill>>

----------------------------------------------------------------------------
(* The cutover.                                                            *)

IdleActivator == [pc |-> "idle", at |-> 0]

\* The advisory lock and the first look at the cutover row.
StartCutover(c) ==
    /\ act[c].pc = "idle"
    /\ \A d \in Activators \ {c} : act[d].pc \notin {"advised", "locked"}
    /\ act' = [act EXCEPT ![c].pc = IF cut = None THEN "advised" ELSE "refused"]
    /\ UNCHANGED <<clock, terms, audits, treq, book, snap, cut, fill>>

\* A transaction that has inserted a booking holds ROW EXCLUSIVE until it ends.
Inserting == {b \in Ids : book[b].stage \in {"inserted", "checked"}}

\* Altered form: the lock is not waited for.
LockBookingsUnwaited(c) ==
    /\ act[c].pc = "advised"
    /\ \A b \in Ids : book[b].stage \notin {"absent", "none"} => book[b].created < clock
    /\ act' = [act EXCEPT ![c] = [pc |-> "locked", at |-> clock]]
    /\ UNCHANGED <<clock, terms, audits, treq, book, snap, cut, fill>>

\* LOCK TABLE waits for the inserting transactions; the cutover is the clock
\* read once the lock is held, a later microsecond than the begin of any
\* transaction that is under way.
LockBookings(c) ==
    /\ act[c].pc = "advised"
    /\ Inserting = {}
    /\ \A b \in Ids : book[b].stage \notin {"absent", "none"} => book[b].created < clock
    /\ act' = [act EXCEPT ![c] = [pc |-> "locked", at |-> clock]]
    /\ UNCHANGED <<clock, terms, audits, treq, book, snap, cut, fill>>

CommitCutover(c) ==
    /\ act[c].pc = "locked"
    /\ cut' = act[c].at
    /\ act' = [act EXCEPT ![c].pc = "activated"]
    /\ UNCHANGED <<clock, terms, audits, treq, book, snap, fill>>

\* lock_timeout while waiting, or any later failure: everything rolls back.
FailCutover(c) ==
    /\ act[c].pc \in {"advised", "locked"}
    /\ act' = [act EXCEPT ![c] = [pc |-> "refused", at |-> 0]]
    /\ UNCHANGED <<clock, terms, audits, treq, book, snap, cut, fill>>

----------------------------------------------------------------------------
(* The backfill of bookings that are older than the cutover.               *)

Committed == {b \in Ids : book[b].stage = "done"}
Bare == {b \in Committed : snap[b] = None}

\* FetchLegacyBackfillCandidates and the count that guards --apply.
Candidates(after) == {b \in Bare : book[b].created < cut /\ after < b}

\* ORDER BY id LIMIT BatchSize.
FirstBatch(S) == {b \in S : Cardinality({c \in S : c < b}) < BatchSize}
LastId(S) == CHOOSE b \in S : \A c \in S : c <= b

\* The first column that is not NULL.
Coalesce(columns) ==
    LET present == {i \in DOMAIN columns : columns[i] # None}
    IN  IF present = {} THEN None ELSE columns[CHOOSE i \in present : \A j \in present : i <= j]

LegacyOriginal(row) == IF row.channel = WalkIn THEN Coalesce(<<row.offSystem, row.original, row.total>>)
                                               ELSE Coalesce(<<row.original, row.total>>)
LegacyFinal(row) == IF row.channel = WalkIn THEN Coalesce(<<row.offFinal, row.final, row.total>>)
                                            ELSE Coalesce(<<row.final, row.total>>)

\* The cross-checks between the columns that are present.
LegacyConsistent(row) ==
    IF row.channel = WalkIn
    THEN /\ (row.offSystem # None /\ row.original # None) => row.offSystem = row.original
         /\ (row.offFinal # None /\ row.total # None) => row.offFinal = row.total
    ELSE (None \notin {row.original, row.final, row.discount, row.total})
            => row.final = row.original - row.discount /\ row.total = row.final

\* CalculateLegacySnapshot: no term, no commission; None when it refuses the row.
CalculateLegacySnapshot(row) ==
    LET original == LegacyOriginal(row)
        final == LegacyFinal(row)
        whole == Fraction \notin {row.original, row.final, row.total, row.discount,
                                  row.offSystem, row.offFinal}
    IN  IF whole /\ original # None /\ final # None /\ LegacyConsistent(row)
             /\ final > 0 /\ (final # original => row.reason)
        THEN [source |-> "LEGACY_NO_COMMISSION", term |-> None, channel |-> row.channel,
              original |-> original, final |-> final, bps |-> 0, commission |-> 0, net |-> final]
        ELSE None

\* The bookings the post-cutover detector reports.
DetectorCandidates(at) == {b \in Bare : book[b].created >= at}

\* calculatorResultMatches: the snapshot the booking should have had, by the
\* formula the detector writes without the calculator's overflow guard.
ExpectedFees(final, bps) ==
    LET commission == RoundedShare(final, bps)
    IN  [final |-> final, bps |-> bps, commission |-> commission, net |-> final - commission]

\* ClassifyPostCutoverP0Candidate: the columns must be whole, present and agree,
\* and the calculator must confirm the formula.
ClassifyPostCutoverP0Candidate(row, t) ==
    LET wanted == {row.original, row.final, row.total}
                    \cup (IF row.channel = Online THEN {row.discount} ELSE {row.offSystem, row.offFinal})
        adjustment == row.final - row.original
        agree == IF row.channel = Online
                 THEN adjustment <= 0 /\ row.original - row.discount = row.final
                 ELSE row.offSystem = row.original /\ row.offFinal = row.final
        fees == CalculateBookingFees([channel |-> row.channel, original |-> row.original,
                                      adjustment |-> adjustment, reason |-> TRUE], t.bps)
        bps == IF row.channel = WalkIn THEN 0 ELSE t.bps
    IN  IF /\ wanted \cap {None, Fraction} = {}
           /\ agree /\ row.final = row.total /\ (adjustment # 0 => row.reason)
           /\ fees = ExpectedFees(row.final, bps)
        THEN "REPAIRABLE" ELSE "MANUAL_DECISION_REQUIRED"

IdleFill == [pc |-> "idle", cursor |-> 0, batch |-> {}, expected |-> 0, processed |-> 0,
             start |-> 0, last |-> 0]

\* --apply: the reviewed count equals the count now.  The run starts at the
\* beginning or after the last cursor a run reported.
StartBackfill ==
    /\ DOMAIN fill = DOMAIN IdleFill
    /\ fill.pc \in {"idle", "done", "failed"}
    /\ cut # None
    /\ \E after \in {0, fill.last} :
          fill' = [pc |-> "scan", cursor |-> after, batch |-> {}, processed |-> 0,
                   expected |-> Cardinality(Candidates(after)), start |-> after, last |-> fill.last]
    /\ UNCHANGED <<clock, terms, audits, treq, book, snap, cut, act>>

\* The end of a run: the exit code is 0 only if it processed the reviewed count.
Finished(processed) == IF processed = fill.expected THEN "done" ELSE "failed"

\* One batch is read and its rows locked; one bad row fails the run.
FetchBatch ==
    LET batch == FirstBatch(Candidates(fill.cursor))
    IN  /\ fill.pc = "scan"
        /\ fill' = CASE batch = {} -> [fill EXCEPT !.pc = Finished(fill.processed)]
                     [] \E b \in batch : CalculateLegacySnapshot(book[b].row) = None ->
                            [fill EXCEPT !.pc = "failed"]
                     [] OTHER -> [fill EXCEPT !.pc = "batch", !.batch = batch]
        /\ UNCHANGED <<clock, terms, audits, treq, book, snap, cut, act>>

\* InsertIdempotentBackfillSnapshot on every row of the batch.
Filled == [b \in Ids |-> IF b \in fill.batch /\ snap[b] = None
                         THEN CalculateLegacySnapshot(book[b].row) ELSE snap[b]]

CommitBatch ==
    LET processed == fill.processed + Cardinality(fill.batch)
        more == Cardinality(fill.batch) = BatchSize
    IN  /\ fill.pc = "batch"
        /\ snap' = Filled
        /\ fill' = [fill EXCEPT !.pc = IF more THEN "scan" ELSE Finished(processed),
                                !.cursor = LastId(fill.batch), !.last = LastId(fill.batch),
                                !.batch = {}, !.processed = processed]
        /\ UNCHANGED <<clock, terms, audits, treq, book, cut, act>>

\* COMMIT_OUTCOME_UNKNOWN: the batch is stored, the runner does not know.
LoseCommit ==
    /\ fill.pc = "batch"
    /\ snap' = Filled
    /\ fill' = [fill EXCEPT !.pc = "failed", !.batch = {}]
    /\ UNCHANGED <<clock, terms, audits, treq, book, cut, act>>

\* The runner dies: its transaction rolls back and its session lock is released.
CrashBackfill ==
    /\ fill.pc \in {"scan", "batch"}
    /\ fill' = [fill EXCEPT !.pc = "failed", !.batch = {}]
    /\ UNCHANGED <<clock, terms, audits, treq, book, snap, cut, act>>

----------------------------------------------------------------------------

Init ==
    /\ clock = 0
    /\ terms = {SeedTerm}
    /\ audits = {}
    /\ \E w \in Workloads :
          /\ treq = [r \in TermReqs |-> [IdleRequest EXCEPT !.pc = IF r \in w.calls THEN "idle" ELSE "absent"]]
          /\ book = [b \in Ids |-> [NoBooking EXCEPT !.stage = IF b \in w.bookings THEN "none" ELSE "absent"]]
    /\ snap = [b \in Ids |-> None]
    /\ cut = None
    /\ act = [c \in Activators |-> IdleActivator]
    /\ fill = IdleFill

Tick ==
    /\ clock < MaxClock
    /\ clock' = clock + 1
    /\ UNCHANGED <<terms, audits, treq, book, snap, cut, act, fill>>

TermStep == \E r \in TermReqs : \/ BeginTerm(r) \/ RejectLive(r) \/ ReplayTerm(r)
                                \/ LockScope(r) \/ CommitTerm(r) \/ FailTerm(r)

BookingStep == \E b \in Ids : \/ BeginBooking(b) \/ InsertBooking(b) \/ CheckSnapshot(b)
                              \/ CommitBooking(b) \/ AbortBooking(b)
                              \/ \E p \in PolicyRequests : PriceBooking(b, p)
                              \/ \E row \in LegacyRows : InsertLegacy(b, row)

CutoverStep == \E c \in Activators : \/ StartCutover(c) \/ LockBookings(c)
                                     \/ CommitCutover(c) \/ FailCutover(c)

BackfillStep == StartBackfill \/ FetchBatch \/ CommitBatch \/ LoseCommit \/ CrashBackfill

Next == Tick \/ TermStep \/ BookingStep \/ CutoverStep \/ BackfillStep

Spec == Init /\ [][Next]_vars

----------------------------------------------------------------------------
(* Properties.                                                             *)

\* Every variable keeps the type its table or its run gives it; the CHECKs of
\* migration 020 hold of every stored amount (no commission above the price).
TypeOK ==
    /\ clock \in Time
    /\ terms \subseteq TermRow
    /\ audits \subseteq AuditRow
    /\ treq \in [TermReqs -> TermCall]
    /\ \A r \in TermReqs : treq[r].pc \in {"begun", "keyed"} =>
          treq[r].in \in TermInputs /\ treq[r].in.bps \in 0 .. MaxBps
    /\ book \in [Ids -> BookingTx]
    /\ \A b \in Ids : book[b].stage \in {"priced", "inserted", "checked", "done"} => book[b].row \in PriceColumns
    /\ snap \in [Ids -> Snapshot \cup {None}]
    /\ cut \in Time \cup {None}
    /\ act \in [Activators -> [pc : {"idle", "advised", "locked", "activated", "refused"}, at : Time]]
    /\ DOMAIN fill = DOMAIN IdleFill
    /\ fill.pc \in {"idle", "scan", "batch", "done", "failed"} /\ fill.batch \subseteq Committed

\* The resolver finds exactly one term at every instant, whatever terms
\* administrators insert and in whatever order they commit: no booking is
\* ever refused for want of a term (MISSING_EFFECTIVE_TERM, DUPLICATE_...).
ResolverTotal == \A at \in Time : ResolveEffectiveTerm(at) # None

\* One idempotency key stands for one outcome: two answers that carry a term
\* carry the same one, a key that was refused for LIVE never creates a term,
\* and an answered term is in force from the requested instant at the
\* requested rate.
TermAnswersAgree ==
    \A q, r \in TermReqs :
       (treq[q].pc = "answered" /\ treq[r].pc = "answered" /\ treq[q].in.key = treq[r].in.key) =>
          /\ treq[q].answer = "TERM" =>
                /\ treq[r].answer # "FORBIDDEN"
                /\ treq[r].answer = "TERM" => treq[r].term = treq[q].term
                /\ \E t \in terms : TermId(t) = treq[q].term /\ t.bps = treq[q].in.bps
                                     /\ t.from = treq[q].in.from /\ t.scope = treq[q].in.scope

\* A booking's rate differs from the rate now in force at the instant it was
\* priced for only if that term was committed after it had come into force:
\* CreateTerm compares valid_from with the start of its transaction, so a term
\* whose transaction waits can still be backdated, and nothing else can.
StaleOnlyBehindLateTerm ==
    \A b \in Committed :
       (snap[b] # None /\ snap[b].source = "POLICY") =>
          LET t == ResolveEffectiveTerm(book[b].effective)
          IN  t # None /\ (TermId(t) # snap[b].term => t.at >= t.from)

\* After the cutover the detector has nothing to report: every booking created
\* at or after it has a snapshot, the transactions that were under way included.
DetectorClear == cut # None => DetectorCandidates(cut) = {}

\* A backfill run that ends with the reviewed count and started at the
\* beginning has left no booking without a snapshot.
BackfillComplete == (fill.pc = "done" /\ fill.start = 0) => Bare = {}

\* The detector, the calculator and the booking flow agree: the columns of a
\* booking the flow priced are repairable under its own term, and repairing it
\* would write the amounts it already has.
DetectorAgreesWithPolicy ==
    \A b \in Committed :
       (snap[b] # None /\ snap[b].source = "POLICY") =>
          \E t \in terms : /\ TermId(t) = snap[b].term
                           /\ ClassifyPostCutoverP0Candidate(book[b].row, t) = "REPAIRABLE"
                           /\ snap[b].commission = ExpectedFees(book[b].row.final, snap[b].bps).commission
                           /\ snap[b].net + snap[b].commission = book[b].row.total
=============================================================================
