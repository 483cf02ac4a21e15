------------------------- MODULE FeeSnapshotsProofs -------------------------
(***************************************************************************)
(* Proofs about Fees and FeeSnapshots for any prices, rates and terms, and *)
(* any number of bookings, calls of CreateTerm and activating commands:    *)
(* the two formulas of the commission agree and stay within the price;     *)
(* every instant has one term in force (TermInv); no booking slips past    *)
(* the cutover without its snapshot (CutInv); a booking keeps the rate     *)
(* that was in force, unless a term was committed late (PriceInv); a key   *)
(* of CreateTerm has one outcome (KeyInv); the detector agrees with what   *)
(* the booking flow wrote (ColumnsInv); and a finished backfill has left   *)
(* nothing out (FillInv).                                                  *)
(***************************************************************************)
EXTENDS FeeSnapshots, Money, FiniteSetTheorems, TLAPS

----------------------------------------------------------------------------
(* Every step keeps the variables in their types.                          *)

LEMMA ResolverTyped == \A at : ResolveEffectiveTerm(at) \in terms \cup {None}
  BY DEF ResolveEffectiveTerm, InForce

LEMMA FeesTyped ==
    ASSUME NEW p \in PolicyRequest, NEW bps \in 0 .. MaxBps, CalculateBookingFees(p, bps) # None
    PROVE  CalculateBookingFees(p, bps) \in [final : Nat, bps : 0 .. MaxBps, commission : Nat, net : Nat]
<1> DEFINE final == p.original + p.adjustment
           effective == IF p.channel = WalkIn THEN 0 ELSE bps
           commission == CommissionAmount(final, effective)
<1>1. final \in Int /\ effective \in 0 .. MaxBps
  BY DEF PolicyRequest, MaxBps
<1>2. /\ final >= 0
      /\ CalculateBookingFees(p, bps) = [final |-> final, bps |-> effective, commission |-> commission,
                                         net |-> final - commission]
  <2> HIDE DEF commission
  <2> QED
    BY DEF CalculateBookingFees, commission
<1>3. final \in Nat
  BY <1>1, <1>2
<1>4. commission \in 0 .. final
  BY <1>1, <1>3, CommissionBounded
<1> HIDE DEF final, effective, commission
<1>5. commission \in Nat /\ final - commission \in Nat
  BY <1>3, <1>4
<1> QED
  BY <1>1, <1>2, <1>3, <1>5

LEMMA CoalescePicks ==
    /\ \A x, y : Coalesce(<<x, y>>) \in {x, y, None}
    /\ \A x, y, z : Coalesce(<<x, y, z>>) \in {x, y, z, None}
<1>1. ASSUME NEW x, NEW y PROVE Coalesce(<<x, y>>) \in {x, y, None}
  <2> DEFINE present == {i \in DOMAIN <<x, y>> : <<x, y>>[i] # None}
  <2>1. present \subseteq {1, 2}
    OBVIOUS
  <2>2. present # {} => \E i \in present : \A j \in present : i <= j
    BY <2>1
  <2> QED
    BY <2>1, <2>2 DEF Coalesce
<1>2. ASSUME NEW x, NEW y, NEW z PROVE Coalesce(<<x, y, z>>) \in {x, y, z, None}
  <2> DEFINE present == {i \in DOMAIN <<x, y, z>> : <<x, y, z>>[i] # None}
  <2>1. present \subseteq {1, 2, 3}
    OBVIOUS
  <2>2. present # {} => \E i \in present : \A j \in present : i <= j
    BY <2>1
  <2> QED
    BY <2>1, <2>2 DEF Coalesce
<1> QED
  BY <1>1, <1>2

LEMMA LegacyTyped ==
    ASSUME NEW row \in PriceColumns
    PROVE  CalculateLegacySnapshot(row) \in Snapshot \cup {None}
<1> DEFINE original == LegacyOriginal(row)
           final == LegacyFinal(row)
<1>1. /\ original \in {row.offSystem, row.original, row.total, None}
      /\ final \in {row.offFinal, row.final, row.total, None}
  BY CoalescePicks DEF LegacyOriginal, LegacyFinal
<1> HIDE DEF original, final
<1>2. CASE CalculateLegacySnapshot(row) = None
  BY <1>2
<1>3. CASE CalculateLegacySnapshot(row) # None
  <2>1. /\ Fraction \notin {row.original, row.final, row.total, row.discount, row.offSystem, row.offFinal}
        /\ original # None /\ final # None
        /\ CalculateLegacySnapshot(row) =
             [source |-> "LEGACY_NO_COMMISSION", term |-> None, channel |-> row.channel,
              original |-> original, final |-> final, bps |-> 0, commission |-> 0, net |-> final]
    BY <1>3, Zenon DEF CalculateLegacySnapshot, original, final
  <2>2. original \in Nat /\ final \in Nat
    BY <1>1, <2>1, NoneAssumption DEF PriceColumns, Money
  <2>3. row.channel \in {Online, WalkIn} /\ 0 \in 0 .. MaxBps
    BY DEF PriceColumns, MaxBps
  <2> QED
    BY <2>1, <2>2, <2>3 DEF Snapshot
<1> QED
  BY <1>2, <1>3

LEMMA TypeInit == Init => TypeOK
<1> SUFFICES ASSUME Init PROVE TypeOK
  OBVIOUS
<1>1. PICK w \in Workloads :
         /\ treq = [r \in TermReqs |-> [IdleRequest EXCEPT !.pc = IF r \in w.calls THEN "idle" ELSE "absent"]]
         /\ book = [b \in Ids |-> [NoBooking EXCEPT !.stage = IF b \in w.bookings THEN "none" ELSE "absent"]]
  BY DEF Init
<1>2. SeedTerm \in TermRow /\ 0 \in Time
  BY ConstantsAssumption DEF SeedTerm, TermRow, Scopes, Forever, Time, MaxBps
<1>3. \A r \in TermReqs : treq[r].pc \in {"absent", "idle"}
  BY <1>1 DEF IdleRequest
<1>4. \A b \in Ids : book[b].stage \in {"absent", "none"}
  BY <1>1 DEF NoBooking
<1>5. treq \in [TermReqs -> TermCall]
  BY <1>1, <1>2 DEF IdleRequest, TermCall
<1>6. book \in [Ids -> BookingTx]
  BY <1>1, <1>2 DEF NoBooking, BookingTx
<1> QED
  BY <1>2, <1>3, <1>4, <1>5, <1>6 DEF Init, TypeOK, IdleActivator, IdleFill, Committed

LEMMA TermTyped ==
    ASSUME TypeOK, NEW t \in terms
    PROVE  /\ t \in TermRow /\ TermId(t) \in TermIds
           /\ t.bps \in 0 .. MaxBps
  BY DEF TypeOK, TermRow, TermId, TermIds

LEMMA InputTyped ==
    ASSUME NEW in \in TermInputs
    PROVE  /\ in.key \in STRING /\ in.scope \in Scopes /\ in.bps \in Int
           /\ in.from \in 1 .. MaxClock + 1 /\ in.from \in 0 .. MaxClock + 1 /\ in.from \in 0 .. Forever
  BY ConstantsAssumption DEF TermInput, Forever

\* The last step of a call of CreateTerm.
LEMMA AnswerTyped ==
    ASSUME TypeOK, NEW r \in TermReqs, treq[r].pc \in {"begun", "keyed"},
           NEW answer \in {"TERM", "CONFLICT", "INVALID", "FORBIDDEN", "ERROR"},
           NEW term \in TermIds \cup {None},
           treq' = Answered(r, answer, term), UNCHANGED <<book, cut, act, fill, snap>>,
           clock' = clock, terms' \subseteq TermRow,
           audits' \subseteq AuditRow
    PROVE  TypeOK'
<1>1. treq' \in [TermReqs -> TermCall]
  <2> DEFINE call == [treq[r] EXCEPT !.pc = "answered", !.answer = answer, !.term = term]
  <2>1. treq[r] \in TermCall
    BY DEF TypeOK
  <2>2. call \in TermCall
    BY <2>1 DEF TermCall
  <2>3. treq' = [treq EXCEPT ![r] = call]
    BY <2>1 DEF TypeOK, Answered, TermCall
  <2> HIDE DEF call
  <2> QED
    BY <2>2, <2>3 DEF TypeOK
<1>2. \A q \in TermReqs : treq'[q].pc \in {"begun", "keyed"} => treq'[q] = treq[q]
  BY DEF TypeOK, Answered, TermCall
<1>3. Committed' = Committed
  BY DEF Committed
<1> QED
  BY <1>1, <1>2, <1>3 DEF TypeOK

LEMMA TermStepTyped == TypeOK /\ TermStep => TypeOK'
<1> SUFFICES ASSUME TypeOK, NEW r \in TermReqs,
                    \/ BeginTerm(r) \/ RejectLive(r) \/ ReplayTerm(r)
                    \/ LockScope(r) \/ CommitTerm(r) \/ FailTerm(r)
             PROVE  TypeOK'
  BY DEF TermStep
<1> DEFINE in == treq[r].in
<1>0. treq[r].pc \in {"begun", "keyed"} => in \in TermInputs /\ in.bps \in 0 .. MaxBps
  BY DEF TypeOK
<1>1. CASE BeginTerm(r)
  <2>1. PICK body \in TermInputs :
           /\ body.bps \in 0 .. MaxBps
           /\ treq' = [treq EXCEPT ![r] = [pc |-> "begun", in |-> body, ts |-> clock, answer |-> "", term |-> None]]
    BY <1>1 DEF BeginTerm
  <2>2. treq' \in [TermReqs -> TermCall]
    BY <2>1 DEF TypeOK, TermCall
  <2>3. \A q \in TermReqs : treq'[q] = treq[q] \/ (treq'[q].in = body)
    BY <2>1 DEF TypeOK, TermCall
  <2>4. Committed' = Committed
    BY <1>1 DEF BeginTerm, Committed
  <2> QED
    BY <1>1, <2>1, <2>2, <2>3, <2>4 DEF BeginTerm, TypeOK
<1>2. CASE RejectLive(r)
  <2>1. treq[r].pc = "begun" /\ in \in TermInputs
    BY <1>0, <1>2 DEF RejectLive
  <2>2. PICK answer \in {"FORBIDDEN", "CONFLICT"} : treq' = Answered(r, answer, None)
    BY <1>2 DEF RejectLive
  <2>3. audits' \subseteq AuditRow
    BY <1>2, <2>1, InputTyped DEF RejectLive, TypeOK, AuditRow
  <2> QED
    BY <1>2, <2>1, <2>2, <2>3, AnswerTyped DEF RejectLive, TypeOK
<1>3. CASE ReplayTerm(r)
  <2> DEFINE same == {a \in AuditsOf(in.key) : a.action = "CREATED" /\ SameRequest(a, in)}
  <2>1. treq[r].pc = "begun"
    BY <1>3 DEF ReplayTerm
  <2>2. same # {} => (CHOOSE a \in same : TRUE).term \in TermIds \cup {None}
    <3>1. \A a \in same : a.term \in TermIds \cup {None}
      BY DEF AuditsOf, TypeOK, AuditRow
    <3> QED
      BY <3>1
  <2>3. PICK answer \in {"TERM", "CONFLICT"}, term \in TermIds \cup {None} : treq' = Answered(r, answer, term)
    BY <1>3, <2>2 DEF ReplayTerm
  <2> QED
    BY <1>3, <2>1, <2>3, AnswerTyped DEF ReplayTerm, TypeOK
<1>4. CASE LockScope(r)
  <2>1. treq[r].pc = "begun"
    BY <1>4 DEF LockScope
  <2>2. CASE treq' = Answered(r, "INVALID", None)
    BY <1>4, <2>1, <2>2, AnswerTyped DEF LockScope, TypeOK
  <2>3. CASE treq' = [treq EXCEPT ![r].pc = "keyed"]
    <3>1. treq' \in [TermReqs -> TermCall]
      <4> DEFINE call == [treq[r] EXCEPT !.pc = "keyed"]
      <4>1. treq[r] \in TermCall
        BY DEF TypeOK
      <4>2. call \in TermCall
        BY <4>1 DEF TermCall
      <4>3. treq' = [treq EXCEPT ![r] = call]
        BY <2>3 DEF TypeOK
      <4> HIDE DEF call
      <4> QED
        BY <4>2, <4>3 DEF TypeOK
    <3>2. \A q \in TermReqs : treq'[q].in = treq[q].in /\ (treq'[q].pc = treq[q].pc \/ q = r)
      BY <2>3 DEF TypeOK, TermCall
    <3>3. Committed' = Committed
      BY <1>4 DEF LockScope, Committed
    <3> QED
      BY <1>0, <1>4, <2>1, <3>1, <3>2, <3>3 DEF LockScope, TypeOK
  <2> QED
    BY <1>4, <2>2, <2>3 DEF LockScope
<1>5. CASE CommitTerm(r)
  <2> DEFINE new == [scope |-> in.scope, from |-> in.from, until |-> Forever, bps |-> in.bps, at |-> clock]
  <2>1. treq[r].pc = "keyed" /\ in \in TermInputs /\ in.bps \in 0 .. MaxBps
    BY <1>0, <1>5 DEF CommitTerm
  <2>2. new \in TermRow /\ TermId(new) \in TermIds
    <3>1. clock \in Time
      BY DEF TypeOK
    <3>2. Forever \in 0 .. Forever
      BY ConstantsAssumption DEF Forever
    <3> HIDE DEF in
    <3> QED
      BY <2>1, <3>1, <3>2, InputTyped DEF TermRow, TermId, TermIds
  <2>3. Superseded(in) \subseteq TermRow
    <3>1. in.from \in 0 .. Forever
      BY <2>1, InputTyped
    <3> QED
      BY <3>1 DEF Superseded, TypeOK, TermRow
  <2>4. CASE treq' = Answered(r, "CONFLICT", None) /\ UNCHANGED <<terms, audits>>
    BY <1>5, <2>1, <2>4, AnswerTyped DEF CommitTerm, TypeOK
  <2>5. CASE /\ terms' = Superseded(in) \cup {new}
             /\ audits' = audits \cup {[key |-> in.key, action |-> "CREATED", in |-> in, term |-> TermId(new)]}
             /\ treq' = Answered(r, "TERM", TermId(new))
    <3>1. audits' \subseteq AuditRow
      <4> HIDE DEF new
      <4> QED
        BY <2>1, <2>2, <2>5, InputTyped DEF TypeOK, AuditRow
    <3>2. terms' \subseteq TermRow
      BY <2>2, <2>3, <2>5
    <3>3. clock' = clock /\ UNCHANGED <<book, cut, act, fill, snap>>
      BY <1>5 DEF CommitTerm
    <3> HIDE DEF new
    <3> QED
      BY <2>1, <2>2, <2>5, <3>1, <3>2, <3>3, AnswerTyped
  <2> QED
    BY <1>5, <2>4, <2>5 DEF CommitTerm
<1>6. CASE FailTerm(r)
  BY <1>6, AnswerTyped DEF FailTerm, TypeOK
<1> QED
  BY <1>1, <1>2, <1>3, <1>4, <1>5, <1>6

LEMMA BookingStepTyped == TypeOK /\ BookingStep => TypeOK'
<1> SUFFICES ASSUME TypeOK, NEW b \in Ids,
                    \/ BeginBooking(b) \/ InsertBooking(b) \/ CheckSnapshot(b)
                    \/ CommitBooking(b) \/ AbortBooking(b)
                    \/ \E p \in PolicyRequests : PriceBooking(b, p)
                    \/ \E row \in LegacyRows : InsertLegacy(b, row)
             PROVE  TypeOK'
  BY DEF BookingStep
<1>1. RolledBack \in BookingTx
  BY ConstantsAssumption DEF RolledBack, NoBooking, BookingTx, Time
<1>2. ASSUME NEW tx \in BookingTx, book' = [book EXCEPT ![b] = tx],
             tx.stage \in {"priced", "inserted", "checked", "done"} => tx.row \in PriceColumns,
             snap' \in [Ids -> Snapshot \cup {None}],
             UNCHANGED <<clock, terms, audits, treq, cut, act, fill>>,
             book[b].stage # "done"
      PROVE  TypeOK'
  <2>1. Committed \subseteq Committed'
    BY <1>2 DEF Committed, TypeOK
  <2> QED
    BY <1>2, <2>1 DEF TypeOK
<1>3. book[b] \in BookingTx /\ (book[b].stage \in {"priced", "inserted", "checked", "done"}
                                  => book[b].row \in PriceColumns)
  BY DEF TypeOK
<1>4. CASE BeginBooking(b)
  <2> DEFINE tx == [book[b] EXCEPT !.stage = "begun", !.created = clock]
  <2>1. tx \in BookingTx /\ tx.stage = "begun"
    BY <1>3 DEF BookingTx, TypeOK
  <2>2. book' = [book EXCEPT ![b] = tx] /\ book[b].stage # "done"
    BY <1>3, <1>4 DEF BeginBooking, TypeOK, BookingTx
  <2> HIDE DEF tx
  <2> QED
    BY <1>2, <1>4, <2>1, <2>2 DEF BeginBooking, TypeOK
<1>5. CASE InsertBooking(b)
  <2> DEFINE tx == [book[b] EXCEPT !.stage = "inserted"]
  <2>1. tx \in BookingTx /\ tx.row = book[b].row
    BY <1>3 DEF BookingTx
  <2>2. book' = [book EXCEPT ![b] = tx] /\ book[b].stage = "priced"
    BY <1>5 DEF InsertBooking
  <2> HIDE DEF tx
  <2> QED
    BY <1>2, <1>3, <1>5, <2>1, <2>2 DEF InsertBooking, TypeOK
<1>6. CASE CheckSnapshot(b)
  <2> DEFINE tx == [book[b] EXCEPT !.stage = "checked"]
  <2>1. tx \in BookingTx /\ tx.row = book[b].row
    BY <1>3 DEF BookingTx
  <2>2. book[b].stage = "inserted" /\ RolledBack.stage = "aborted"
    BY <1>6 DEF CheckSnapshot, RolledBack, NoBooking
  <2>3. book' = [book EXCEPT ![b] = tx] \/ book' = [book EXCEPT ![b] = RolledBack]
    BY <1>6 DEF CheckSnapshot
  <2> HIDE DEF tx
  <2> QED
    BY <1>1, <1>2, <1>3, <1>6, <2>1, <2>2, <2>3 DEF CheckSnapshot, TypeOK
<1>7. CASE CommitBooking(b)
  <2> DEFINE tx == [book[b] EXCEPT !.stage = "done"]
  <2>1. tx \in BookingTx /\ tx.row = book[b].row
    BY <1>3 DEF BookingTx
  <2>2. book' = [book EXCEPT ![b] = tx] /\ book[b].stage = "checked"
    BY <1>7 DEF CommitBooking
  <2>3. snap' \in [Ids -> Snapshot \cup {None}]
    BY <1>3, <1>7 DEF CommitBooking, TypeOK, BookingTx
  <2> HIDE DEF tx
  <2> QED
    BY <1>2, <1>3, <1>7, <2>1, <2>2, <2>3 DEF CommitBooking
<1>8. CASE AbortBooking(b)
  <2>1. RolledBack.stage = "aborted" /\ book[b].stage # "done"
    BY <1>8 DEF AbortBooking, RolledBack, NoBooking
  <2> QED
    BY <1>1, <1>2, <1>8, <2>1 DEF AbortBooking, TypeOK
<1>9. ASSUME NEW p \in PolicyRequests, PriceBooking(b, p)
      PROVE  TypeOK'
  <2> DEFINE t == ResolveEffectiveTerm(clock)
             tx == [stage |-> "priced", created |-> book[b].created, effective |-> clock,
                    row |-> PolicyRow(p), fee |-> PolicySnapshot(p, t)]
  <2>1. book[b].stage = "begun" /\ RolledBack.stage = "aborted"
    BY <1>9 DEF PriceBooking, RolledBack, NoBooking
  <2>2. CASE book' = [book EXCEPT ![b] = RolledBack]
    BY <1>1, <1>2, <1>9, <2>1, <2>2 DEF PriceBooking, TypeOK
  <2>3. CASE t # None /\ CalculateBookingFees(p, t.bps) # None /\ book' = [book EXCEPT ![b] = tx]
    <3>1. t \in terms
      BY <2>3, ResolverTyped
    <3> HIDE DEF t
    <3>2. t.bps \in 0 .. MaxBps /\ TermId(t) \in TermIds
      BY <3>1, TermTyped
    <3>3. p \in PolicyRequest
      BY ConstantsAssumption
    <3>4. CalculateBookingFees(p, t.bps) \in [final : Nat, bps : 0 .. MaxBps, commission : Nat, net : Nat]
      BY <2>3, <3>2, <3>3, FeesTyped
    <3>5. p.channel \in {Online, WalkIn} /\ p.original \in Nat
      BY <3>3 DEF PolicyRequest
    <3>6. PolicySnapshot(p, t) \in Snapshot
      BY <3>2, <3>4, <3>5 DEF PolicySnapshot, Snapshot
    <3>7. PolicyRow(p) \in PriceColumns
      <4>1. p.original + p.adjustment \in Nat
        BY <2>3, <3>3 DEF CalculateBookingFees, PolicyRequest
      <4> QED
        BY <3>3, <4>1 DEF PolicyRow, PriceColumns, PolicyRequest, Money
    <3>8. tx \in BookingTx /\ tx.stage = "priced" /\ tx.row = PolicyRow(p)
      BY <1>3, <3>6, <3>7 DEF BookingTx, TypeOK
    <3> HIDE DEF tx
    <3> QED
      BY <1>2, <1>9, <2>1, <2>3, <3>7, <3>8 DEF PriceBooking, TypeOK
  <2> HIDE DEF tx
  <2> QED
    BY <1>9, <2>2, <2>3 DEF PriceBooking, tx
<1>10. ASSUME NEW row \in LegacyRows, InsertLegacy(b, row)
       PROVE  TypeOK'
  <2> DEFINE tx == [book[b] EXCEPT !.stage = "inserted", !.row = row]
  <2>1. row \in PriceColumns
    BY ConstantsAssumption
  <2>2. tx \in BookingTx /\ tx.row = row
    BY <1>3, <2>1 DEF BookingTx
  <2>3. book' = [book EXCEPT ![b] = tx] /\ book[b].stage = "begun"
    BY <1>3, <1>10 DEF InsertLegacy, TypeOK, BookingTx
  <2> HIDE DEF tx
  <2> QED
    BY <1>2, <1>10, <2>1, <2>2, <2>3 DEF InsertLegacy, TypeOK
<1> QED
  BY <1>4, <1>5, <1>6, <1>7, <1>8, <1>9, <1>10

LEMMA CutoverStepTyped == TypeOK /\ CutoverStep => TypeOK'
<1> SUFFICES ASSUME TypeOK, NEW c \in Activators,
                    StartCutover(c) \/ LockBookings(c) \/ CommitCutover(c) \/ FailCutover(c)
             PROVE  TypeOK'
  BY DEF CutoverStep
<1> USE ConstantsAssumption
<1>1. Committed' = Committed
  BY DEF StartCutover, LockBookings, CommitCutover, FailCutover, Committed
<1>2. 0 \in Time
  BY DEF Time
<1>3. act' \in [Activators -> [pc : {"idle", "advised", "locked", "activated", "refused"}, at : Time]]
  BY <1>2 DEF TypeOK, StartCutover, LockBookings, CommitCutover, FailCutover
<1>4. cut' \in Time \cup {None}
  BY DEF TypeOK, StartCutover, LockBookings, CommitCutover, FailCutover
<1> QED
  BY <1>1, <1>3, <1>4 DEF TypeOK, StartCutover, LockBookings, CommitCutover, FailCutover

LEMMA FilledTyped == TypeOK => Filled \in [Ids -> Snapshot \cup {None}]
<1> SUFFICES ASSUME TypeOK, NEW b \in Ids, b \in fill.batch
             PROVE  CalculateLegacySnapshot(book[b].row) \in Snapshot \cup {None}
  BY DEF Filled, TypeOK
<1>1. book[b].row \in PriceColumns
  BY DEF TypeOK, Committed
<1> QED
  BY <1>1, LegacyTyped

LEMMA BackfillStepTyped == TypeOK /\ BackfillStep => TypeOK'
<1> SUFFICES ASSUME TypeOK, BackfillStep PROVE TypeOK'
  OBVIOUS
<1>1. Committed' = Committed /\ UNCHANGED <<clock, terms, audits, treq, book, cut, act>>
  BY DEF BackfillStep, StartBackfill, FetchBatch, CommitBatch, LoseCommit, CrashBackfill, Committed
<1>2. snap' \in [Ids -> Snapshot \cup {None}]
  BY FilledTyped DEF BackfillStep, StartBackfill, FetchBatch, CommitBatch, LoseCommit, CrashBackfill, TypeOK
<1>3. /\ DOMAIN fill' = DOMAIN IdleFill
      /\ fill'.pc \in {"idle", "scan", "batch", "done", "failed"} /\ fill'.batch \subseteq Committed
  <2>1. CASE StartBackfill
    BY <2>1 DEF StartBackfill, IdleFill
  <2>2. CASE FetchBatch
    <3>1. FirstBatch(Candidates(fill.cursor)) \subseteq Committed
      BY DEF FirstBatch, Candidates, Bare
    <3> QED
      BY <2>2, <3>1 DEF FetchBatch, TypeOK, Finished, IdleFill
  <2>3. CASE CommitBatch
    BY <2>3 DEF CommitBatch, TypeOK, Finished, IdleFill
  <2>4. CASE LoseCommit \/ CrashBackfill
    <3>1. fill' = [fill EXCEPT !.pc = "failed", !.batch = {}]
      BY <2>4 DEF LoseCommit, CrashBackfill
    <3> QED
      BY <3>1 DEF TypeOK, IdleFill
  <2> QED
    BY <2>1, <2>2, <2>3, <2>4 DEF BackfillStep
<1> QED
  BY <1>1, <1>2, <1>3 DEF TypeOK

LEMMA TypeStep == TypeOK /\ [Next]_vars => TypeOK'
<1> SUFFICES ASSUME TypeOK, [Next]_vars PROVE TypeOK'
  OBVIOUS
<1>1. CASE Tick
  <2>1. clock' \in Time
    BY <1>1, ConstantsAssumption DEF Tick, Time, TypeOK
  <2>2. Committed' = Committed
    BY <1>1 DEF Tick, Committed
  <2> QED
    BY <1>1, <2>1, <2>2 DEF Tick, TypeOK
<1>2. CASE UNCHANGED vars
  <2>1. Committed' = Committed
    BY <1>2 DEF vars, Committed
  <2> QED
    BY <1>2, <2>1 DEF vars, TypeOK
<1> QED
  BY <1>1, <1>2, TermStepTyped, BookingStepTyped, CutoverStepTyped, BackfillStepTyped DEF Next

\* The rows of every table keep the types and the bounds the CHECKs give them.
THEOREM FeesTypeCorrect == Spec => []TypeOK
  BY TypeInit, TypeStep, PTL DEF Spec

----------------------------------------------------------------------------
(***************************************************************************)
(* The cutover.  CutInv says that one command at a time is at work and     *)
(* only before there is a cutover (AloneInv), that while it holds the      *)
(* table lock nobody has inserted what could still commit and all that is  *)
(* committed is older (LockedInv), that a transaction that has passed the  *)
(* deferred trigger without a snapshot has passed it before the cutover    *)
(* (CheckedInv), and that what has no snapshot is older than the cutover   *)
(* (BareInv).  Each of the first three is needed for the last.             *)
(***************************************************************************)
AtWork(c) == act[c].pc \in {"advised", "locked"}

AloneInv == \A c \in Activators : AtWork(c) =>
               cut = None /\ \A d \in Activators \ {c} : ~AtWork(d)

LockedInv == \A c \in Activators : act[c].pc = "locked" =>
                Inserting = {} /\ \A b \in Bare : book[b].created < act[c].at

CheckedInv == \A b \in Ids : book[b].stage = "checked" /\ book[b].fee = None => cut = None

BareInv == cut # None => \A b \in Bare : book[b].created < cut

CutInv == AloneInv /\ LockedInv /\ CheckedInv /\ BareInv

LEMMA CutInit == Init => CutInv
<1> SUFFICES ASSUME Init PROVE CutInv
  OBVIOUS
<1>1. \A b \in Ids : book[b].stage \in {"absent", "none"}
  BY DEF Init, NoBooking
<1>2. \A c \in Activators : act[c].pc = "idle"
  BY DEF Init, IdleActivator
<1> QED
  BY <1>1, <1>2 DEF Init, CutInv, AloneInv, LockedInv, CheckedInv, BareInv, AtWork

\* A step that neither moves a command nor lets a booking into the table.
LEMMA CutQuiet ==
    ASSUME CutInv, UNCHANGED <<act, cut>>, Bare' \subseteq Bare, Inserting' \subseteq Inserting,
           \A b \in Bare' : book'[b].created = book[b].created,
           \A b \in Ids : book'[b].stage = "checked" /\ book'[b].fee = None => cut = None
    PROVE  CutInv'
  BY DEF CutInv, AloneInv, LockedInv, CheckedInv, BareInv, AtWork

LEMMA CutBooking ==
    ASSUME TypeOK, CutInv, BookingStep
    PROVE  CutInv'
<1> SUFFICES ASSUME NEW b \in Ids,
                    \/ BeginBooking(b) \/ InsertBooking(b) \/ CheckSnapshot(b)
                    \/ CommitBooking(b) \/ AbortBooking(b)
                    \/ \E p \in PolicyRequests : PriceBooking(b, p)
                    \/ \E row \in LegacyRows : InsertLegacy(b, row)
             PROVE  CutInv'
  BY DEF BookingStep
<1>0. book[b] \in BookingTx /\ book \in [Ids -> BookingTx]
  BY DEF TypeOK
<1>1. UNCHANGED <<act, cut>> /\ \A c \in Ids \ {b} : book'[c] = book[c] /\ snap'[c] = snap[c]
  BY <1>0 DEF BeginBooking, InsertBooking, CheckSnapshot, CommitBooking, AbortBooking, PriceBooking,
     InsertLegacy, TypeOK
<1>2. ASSUME book'[b].stage \notin {"inserted", "checked", "done"}
      PROVE  CutInv'
  <2>1. Bare' \subseteq Bare /\ Inserting' \subseteq Inserting
    BY <1>1, <1>2 DEF Bare, Committed, Inserting
  <2>2. b \notin Bare'
    BY <1>2 DEF Bare, Committed
  <2> QED
    BY <1>1, <1>2, <2>1, <2>2, CutQuiet DEF CutInv, CheckedInv, Bare, Committed
<1>3. CASE BeginBooking(b) \/ AbortBooking(b) \/ \E p \in PolicyRequests : PriceBooking(b, p)
  <2>1. book'[b].stage \in {"begun", "aborted", "priced"}
    BY <1>0, <1>3 DEF BeginBooking, AbortBooking, PriceBooking, RolledBack, NoBooking, BookingTx
  <2> QED
    BY <1>2, <2>1
<1>4. CASE InsertBooking(b) \/ \E row \in LegacyRows : InsertLegacy(b, row)
  <2>1. book'[b].stage = "inserted" /\ \A c \in Activators : act[c].pc # "locked"
    BY <1>0, <1>4 DEF InsertBooking, InsertLegacy, TableLocked, BookingTx
  <2>2. Bare' \subseteq Bare /\ b \notin Bare'
    BY <1>1, <2>1 DEF Bare, Committed
  <2> QED
    BY <1>1, <2>1, <2>2 DEF CutInv, AloneInv, LockedInv, CheckedInv, BareInv, AtWork, Bare, Committed
<1>5. CASE CheckSnapshot(b)
  <2>1. CASE SnapshotRequired(b)
    <3>1. book'[b].stage = "aborted"
      BY <1>0, <1>5, <2>1 DEF CheckSnapshot, RolledBack, NoBooking
    <3> QED
      BY <1>2, <3>1
  <2>2. CASE ~SnapshotRequired(b)
    <3>1. /\ book[b].stage = "inserted" /\ book'[b].stage = "checked"
          /\ book'[b].fee = book[b].fee /\ (book[b].fee = None => cut = None)
      BY <1>0, <1>5, <2>2 DEF CheckSnapshot, SnapshotRequired, BookingTx
    <3>2. Bare' \subseteq Bare /\ b \notin Bare' /\ Inserting' \subseteq Inserting
      BY <1>1, <3>1 DEF Bare, Committed, Inserting
    <3> QED
      BY <1>1, <3>1, <3>2, CutQuiet DEF CutInv, CheckedInv, Bare, Committed
  <2> QED
    BY <2>1, <2>2
<1>6. CASE CommitBooking(b)
  <2>1. book[b].stage = "checked" /\ book'[b].stage = "done" /\ snap'[b] = book[b].fee
    BY <1>0, <1>6 DEF CommitBooking, BookingTx, TypeOK
  <2>2. b \in Bare' => cut = None
    BY <2>1 DEF Bare, CutInv, CheckedInv
  <2>3. \A c \in Activators : act[c].pc # "locked"
    BY <2>1 DEF CutInv, LockedInv, Inserting
  <2>4. Bare' \subseteq Bare \cup {b}
    BY <1>1 DEF Bare, Committed
  <2> QED
    BY <1>1, <2>1, <2>2, <2>3, <2>4 DEF CutInv, AloneInv, LockedInv, CheckedInv, BareInv, AtWork,
       Bare, Committed
<1> QED
  BY <1>3, <1>4, <1>5, <1>6

LEMMA CutCommand ==
    ASSUME TypeOK, CutInv, CutoverStep
    PROVE  CutInv'
<1> SUFFICES ASSUME NEW c \in Activators,
                    StartCutover(c) \/ LockBookings(c) \/ CommitCutover(c) \/ FailCutover(c)
             PROVE  CutInv'
  BY DEF CutoverStep
<1>1. UNCHANGED <<book, snap>> /\ Bare' = Bare /\ Inserting' = Inserting
  BY DEF StartCutover, LockBookings, CommitCutover, FailCutover, Bare, Committed, Inserting
<1>2. \A d \in Activators \ {c} : act'[d] = act[d]
  BY DEF StartCutover, LockBookings, CommitCutover, FailCutover, TypeOK
<1>3. CASE StartCutover(c)
  <2>1. /\ cut' = cut /\ act'[c].pc # "locked" /\ (AtWork(c)' => cut = None)
        /\ \A d \in Activators \ {c} : ~AtWork(d) /\ ~AtWork(d)'
    BY <1>2, <1>3 DEF StartCutover, TypeOK, AtWork
  <2> QED
    BY <1>1, <1>2, <2>1 DEF CutInv, AloneInv, LockedInv, CheckedInv, BareInv, AtWork
<1>4. CASE LockBookings(c)
  <2>1. cut' = cut /\ AtWork(c) /\ act'[c] = [pc |-> "locked", at |-> clock] /\ Inserting = {}
    BY <1>4 DEF LockBookings, TypeOK, AtWork
  <2>2. \A b \in Bare : book[b].created < clock
    BY <1>4 DEF LockBookings, Bare, Committed
  <2> QED
    BY <1>1, <1>2, <2>1, <2>2 DEF CutInv, AloneInv, LockedInv, CheckedInv, BareInv, AtWork
<1>5. CASE CommitCutover(c)
  <2>1. /\ act[c].pc = "locked" /\ AtWork(c) /\ cut' = act[c].at
        /\ act'[c].pc = "activated"
    BY <1>5 DEF CommitCutover, TypeOK, AtWork
  <2>2. \A d \in Activators : ~AtWork(d)' /\ act'[d].pc # "locked"
    BY <1>2, <2>1 DEF CutInv, AloneInv, AtWork
  <2>3. \A b \in Ids : book'[b].stage # "checked"
    BY <1>1, <2>1 DEF CutInv, LockedInv, Inserting
  <2> QED
    BY <1>1, <2>1, <2>2, <2>3 DEF CutInv, AloneInv, LockedInv, CheckedInv, BareInv
<1>6. CASE FailCutover(c)
  <2>1. cut' = cut /\ act'[c].pc = "refused"
    BY <1>6 DEF FailCutover, TypeOK
  <2> QED
    BY <1>1, <1>2, <2>1 DEF CutInv, AloneInv, LockedInv, CheckedInv, BareInv, AtWork
<1> QED
  BY <1>3, <1>4, <1>5, <1>6

LEMMA CutStep == TypeOK /\ CutInv /\ [Next]_vars => CutInv'
<1> SUFFICES ASSUME TypeOK, CutInv, [Next]_vars PROVE CutInv'
  OBVIOUS
<1>1. CASE Tick \/ TermStep \/ UNCHANGED vars
  <2>1. UNCHANGED <<book, snap, cut, act>>
    BY <1>1 DEF Tick, TermStep, BeginTerm, RejectLive, ReplayTerm, LockScope, CommitTerm, FailTerm, vars
  <2>2. Bare' = Bare /\ Inserting' = Inserting
    BY <2>1 DEF Bare, Committed, Inserting
  <2> QED
    BY <2>1, <2>2, CutQuiet DEF CutInv, CheckedInv
<1>2. CASE BackfillStep
  <2>1. UNCHANGED <<book, cut, act>>
    BY <1>2 DEF BackfillStep, StartBackfill, FetchBatch, CommitBatch, LoseCommit, CrashBackfill
  <2>2. \A b \in Ids : snap[b] # None => snap'[b] = snap[b]
    BY <1>2 DEF BackfillStep, StartBackfill, FetchBatch, CommitBatch, LoseCommit, CrashBackfill, Filled
  <2>3. Bare' \subseteq Bare /\ Inserting' = Inserting
    BY <2>1, <2>2 DEF Bare, Committed, Inserting
  <2> QED
    BY <2>1, <2>3, CutQuiet DEF CutInv, CheckedInv
<1> QED
  BY <1>1, <1>2, CutBooking, CutCommand DEF Next

\* Every booking created at or after the cutover has a snapshot, whatever was
\* under way when the command took its lock (cutover.go, migration 021).
THEOREM DetectorCorrect == Spec => []DetectorClear
<1>1. Init => TypeOK /\ CutInv
  BY TypeInit, CutInit
<1>2. TypeOK /\ CutInv /\ [Next]_vars => (TypeOK /\ CutInv)'
  BY TypeStep, CutStep
<1>3. TypeOK /\ CutInv => DetectorClear
  <2> SUFFICES ASSUME TypeOK, CutInv, cut # None, NEW b \in Bare PROVE ~(book[b].created >= cut)
    BY DEF DetectorClear, DetectorCandidates
  <2>1. book[b].created < cut
    BY DEF CutInv, BareInv
  <2>2. book[b].created \in Int /\ cut \in Int
    BY ConstantsAssumption DEF TypeOK, BookingTx, Time, Bare, Committed
  <2> QED
    BY <2>1, <2>2
<1> QED
  BY <1>1, <1>2, <1>3, PTL DEF Spec

----------------------------------------------------------------------------
(***************************************************************************)
(* The terms.  TermInv says that the terms of a scope do not overlap and   *)
(* that the global ones leave no gap.                                      *)
(***************************************************************************)
Covers(t, at) == t.from <= at /\ at < t.until

DisjointInv == \A s, t \in terms : \A at \in 0 .. MaxClock + 1 :
                  s.scope = t.scope /\ Covers(s, at) /\ Covers(t, at) => s = t

GapFreeInv == \A at \in 0 .. MaxClock + 1 : \E t \in terms : t.scope = Global /\ Covers(t, at)

TermInv == DisjointInv /\ GapFreeInv

LEMMA TermInit == Init => TermInv
<1> SUFFICES ASSUME Init PROVE TermInv
  OBVIOUS
<1>1. terms = {SeedTerm}
  BY DEF Init
<1>2. \A at \in 0 .. MaxClock + 1 : SeedTerm.scope = Global /\ Covers(SeedTerm, at)
  BY ConstantsAssumption DEF SeedTerm, Covers, Forever
<1> QED
  BY <1>1, <1>2 DEF TermInv, DisjointInv, GapFreeInv

\* What the commit of CreateTerm does to the terms, if it changes them.
LEMMA TermChange ==
    ASSUME TypeOK, NEW r \in TermReqs, CommitTerm(r)
    PROVE  \/ UNCHANGED terms
           \/ LET in == treq[r].in
                  new == [scope |-> in.scope, from |-> in.from, until |-> Forever, bps |-> in.bps, at |-> clock]
              IN  /\ in \in TermInputs
                  /\ terms' = Superseded(in) \cup {new}
                  /\ \A t \in OpenTerms(in.scope) : t.from < in.from
                  /\ \A t \in Superseded(in) : t.scope = in.scope => t.until <= in.from
<1> DEFINE in == treq[r].in
<1>1. in \in TermInputs
  BY DEF CommitTerm, TypeOK
<1>2. \A t \in Superseded(in) : t.until \in Int
  <2>1. \A t \in terms : t.until \in Int
    BY ConstantsAssumption DEF TypeOK, TermRow, Forever
  <2>2. in.from \in Int
    BY <1>1, ConstantsAssumption, InputTyped
  <2> HIDE DEF in
  <2> QED
    BY <2>1, <2>2 DEF Superseded, OpenTerms, TypeOK, TermRow
<1>3. in.from \in Int
  BY <1>1, ConstantsAssumption, InputTyped
<1>4. (~\E t \in Superseded(in) : t.scope = in.scope /\ in.from < t.until)
        => \A t \in Superseded(in) : t.scope = in.scope => t.until <= in.from
  <2> HIDE DEF in
  <2> QED
    BY <1>2, <1>3
<1> QED
  BY <1>1, <1>4 DEF CommitTerm

\* Ending a term earlier keeps its id, its rate and its commit, and what it
\* covers before the new term begins.
LEMMA SupersededRows ==
    ASSUME TypeOK, NEW in \in TermInputs, \A t \in OpenTerms(in.scope) : t.from < in.from
    PROVE  /\ \A u \in Superseded(in) : \E t \in terms :
                 /\ u.scope = t.scope /\ u.from = t.from /\ u.bps = t.bps /\ u.at = t.at
                 /\ u = (IF t \in OpenTerms(in.scope) THEN [t EXCEPT !.until = in.from] ELSE t)
                 /\ \A at \in 0 .. MaxClock + 1 : Covers(u, at) => Covers(t, at)
           /\ \A t \in terms : \E u \in Superseded(in) :
                 /\ u.scope = t.scope /\ u.from = t.from /\ u.bps = t.bps /\ u.at = t.at
                 /\ \A at \in 0 .. MaxClock + 1 :
                       Covers(t, at) /\ (at < in.from \/ in.scope # t.scope) => Covers(u, at)
<1> DEFINE cutoff(t) == IF t \in OpenTerms(in.scope) THEN [t EXCEPT !.until = in.from] ELSE t
<1>1. Superseded(in) = {cutoff(t) : t \in terms}
  BY DEF Superseded
<1>2. ASSUME NEW t \in terms
      PROVE  LET u == cutoff(t)
             IN  /\ u.scope = t.scope /\ u.from = t.from /\ u.bps = t.bps /\ u.at = t.at
                 /\ \A at \in 0 .. MaxClock + 1 : Covers(u, at) => Covers(t, at)
                 /\ \A at \in 0 .. MaxClock + 1 :
                       Covers(t, at) /\ (at < in.from \/ in.scope # t.scope) => Covers(u, at)
  <2>1. t \in TermRow
    BY DEF TypeOK
  <2>2. in.from \in 1 .. MaxClock + 1 /\ MaxClock \in Nat
    BY InputTyped, ConstantsAssumption
  <2>3. CASE t \in OpenTerms(in.scope)
    <3>1. t.until = MaxClock + 2 /\ t.scope = in.scope
      BY <2>3 DEF OpenTerms, Forever
    <3>2. cutoff(t) = [t EXCEPT !.until = in.from]
      BY <2>3
    <3> HIDE DEF cutoff
    <3> QED
      BY <2>1, <2>2, <3>1, <3>2 DEF TermRow, Covers
  <2>4. CASE t \notin OpenTerms(in.scope)
    <3>1. cutoff(t) = t
      BY <2>4
    <3> HIDE DEF cutoff
    <3> QED
      BY <3>1
  <2> QED
    BY <2>3, <2>4
<1> QED
  BY <1>1, <1>2

LEMMA TermStepKeeps == TypeOK /\ TermInv /\ [Next]_vars => TermInv'
<1> SUFFICES ASSUME TypeOK, TermInv, [Next]_vars PROVE TermInv'
  OBVIOUS
<1>1. CASE UNCHANGED terms
  BY <1>1 DEF TermInv, DisjointInv, GapFreeInv
<1>2. ASSUME NEW r \in TermReqs, CommitTerm(r)
      PROVE  TermInv'
  <2> DEFINE in == treq[r].in
             new == [scope |-> in.scope, from |-> in.from, until |-> Forever, bps |-> in.bps, at |-> clock]
  <2> SUFFICES ASSUME in \in TermInputs, terms' = Superseded(in) \cup {new},
                      \A t \in OpenTerms(in.scope) : t.from < in.from,
                      \A t \in Superseded(in) : t.scope = in.scope => t.until <= in.from
               PROVE  TermInv'
    BY <1>1, <1>2, TermChange
  <2>1. /\ in.from \in 1 .. MaxClock + 1 /\ MaxClock \in Nat
        /\ new.scope = in.scope /\ new.from = in.from /\ new.until = MaxClock + 2
    BY InputTyped, ConstantsAssumption DEF Forever
  <2>2. \A at \in 0 .. MaxClock + 1 : Covers(new, at) <=> in.from <= at
    <3> HIDE DEF new, in
    <3> QED
      BY <2>1 DEF Covers
  <2>3. \A u \in Superseded(in) : u.from \in Int /\ u.until \in Int
    <3>1. \A t \in terms : t \in TermRow
      BY DEF TypeOK
    <3> HIDE DEF new, in
    <3> QED
      BY <2>1, <3>1 DEF Superseded, TermRow, Forever
  <2>4. \A u \in Superseded(in), at \in 0 .. MaxClock + 1 : u.scope = in.scope /\ Covers(u, at) => ~Covers(new, at)
    <3> HIDE DEF new, in
    <3> QED
      BY <2>1, <2>2, <2>3 DEF Covers
  <2>5. DisjointInv'
    <3> SUFFICES ASSUME NEW u \in terms', NEW v \in terms', NEW at \in 0 .. MaxClock + 1,
                        u.scope = v.scope, Covers(u, at), Covers(v, at)
                 PROVE  u = v
      BY DEF DisjointInv, Covers
    <3>1. CASE u \in Superseded(in) /\ v \in Superseded(in)
      <4>1. PICK s \in terms :
               /\ u.scope = s.scope /\ Covers(s, at)
               /\ u = (IF s \in OpenTerms(in.scope) THEN [s EXCEPT !.until = in.from] ELSE s)
        BY <3>1, SupersededRows
      <4>2. PICK t \in terms :
               /\ v.scope = t.scope /\ Covers(t, at)
               /\ v = (IF t \in OpenTerms(in.scope) THEN [t EXCEPT !.until = in.from] ELSE t)
        BY <3>1, SupersededRows
      <4>3. s = t
        BY <4>1, <4>2 DEF TermInv, DisjointInv
      <4> QED
        BY <4>1, <4>2, <4>3
    <3>2. CASE u = new \/ v = new
      <4> HIDE DEF new, in
      <4> QED
        BY <2>1, <2>4, <3>2
    <3> QED
      BY <3>1, <3>2
  <2>6. GapFreeInv'
    <3> SUFFICES ASSUME NEW at \in 0 .. MaxClock + 1
                 PROVE  \E t \in terms' : t.scope = Global /\ Covers(t, at)
      BY DEF GapFreeInv, Covers
    <3>1. PICK t \in terms : t.scope = Global /\ Covers(t, at)
      BY DEF TermInv, GapFreeInv
    <3>2. PICK u \in Superseded(in) :
             /\ u.scope = t.scope
             /\ at < in.from \/ in.scope # t.scope => Covers(u, at)
      BY <3>1, SupersededRows
    <3> HIDE DEF new, in
    <3>3. CASE at < in.from \/ in.scope # Global
      BY <3>1, <3>2, <3>3
    <3>4. CASE in.from <= at /\ in.scope = Global
      BY <2>1, <2>2, <3>4
    <3> QED
      BY <2>1, <3>3, <3>4
  <2> QED
    BY <2>5, <2>6 DEF TermInv
<1>3. CASE Tick \/ BookingStep \/ CutoverStep \/ BackfillStep \/ UNCHANGED vars
  BY <1>1, <1>3 DEF Tick, BookingStep, BeginBooking, InsertBooking, CheckSnapshot, CommitBooking,
     AbortBooking, PriceBooking, InsertLegacy, CutoverStep, StartCutover, LockBookings, CommitCutover,
     FailCutover, BackfillStep, StartBackfill, FetchBatch, CommitBatch, LoseCommit, CrashBackfill, vars
<1>4. CASE TermStep
  BY <1>1, <1>2, <1>4 DEF TermStep, BeginTerm, RejectLive, ReplayTerm, LockScope, FailTerm
<1> QED
  BY <1>3, <1>4 DEF Next

\* At an instant one term of a scope is in force at most, and one of the
\* global terms is: the resolver answers.
Found(at) ==
    LET found == ResolveEffectiveTerm(at)
    IN  /\ found \in terms /\ Covers(found, at) /\ found # None
        /\ \A t \in terms : Covers(t, at) => t = found \/ (t.scope = Global /\ found.scope = Owner)

LEMMA ResolverFinds == TypeOK /\ TermInv => \A at \in 0 .. MaxClock + 1 : Found(at)
<1> SUFFICES ASSUME TypeOK, TermInv, NEW at \in 0 .. MaxClock + 1
             PROVE  Found(at)
  OBVIOUS
<1> DEFINE own == InForce(Owner, at)
           global == InForce(Global, at)
           found == ResolveEffectiveTerm(at)
<1>1. /\ \A s, t \in own : s = t
      /\ \A s, t \in global : s = t
  BY DEF InForce, TermInv, DisjointInv, Covers
<1>2. ASSUME NEW S, \A s, t \in S : s = t
      PROVE  ~(Cardinality(S) > 1)
  <2>1. CASE S = {}
    BY <2>1, FS_EmptySet
  <2>2. CASE S # {}
    <3>1. PICK s \in S : S = {s}
      BY <1>2, <2>2
    <3> QED
      BY <3>1, FS_Singleton
  <2> QED
    BY <2>1, <2>2
<1>3. global # {}
  BY DEF TermInv, GapFreeInv, InForce, Covers
<1>4. ~(Cardinality(own) > 1) /\ ~(Cardinality(global) > 1)
  BY <1>1, <1>2
<1>5. found = CHOOSE t \in (IF own # {} THEN own ELSE global) : TRUE
  <2> HIDE DEF own, global
  <2> QED
    BY <1>3, <1>4 DEF found, ResolveEffectiveTerm, own, global
<1>6. found \in (IF own # {} THEN own ELSE global)
  <2> HIDE DEF own, global
  <2> QED
    BY <1>3, <1>5
<1>7. found \in terms /\ Covers(found, at)
  <2> HIDE DEF found
  <2> QED
    BY <1>6 DEF InForce, Covers
<1>8. ASSUME NEW t \in terms, Covers(t, at)
      PROVE  t = found \/ (t.scope = Global /\ found.scope = Owner)
  <2>1. t.scope \in {Global, Owner}
    BY DEF TypeOK, TermRow, Scopes
  <2>2. t \in own \/ t \in global
    BY <1>8, <2>1 DEF InForce, Covers
  <2> HIDE DEF found
  <2> QED
    BY <1>1, <1>6, <2>2 DEF InForce
<1>9. found # None
  BY <1>7, NoneAssumption DEF TypeOK
<1> QED
  BY <1>7, <1>8, <1>9 DEF Found

LEMMA ResolverFindsNext == (TypeOK /\ TermInv => \A at \in 0 .. MaxClock + 1 : Found(at))'
  BY ResolverFinds, PTL

\* Whatever terms administrators create and in whatever order they commit,
\* the resolver finds exactly one term at every instant (repository.go of
\* commercialterms, the exclusion constraint of migration 019).
THEOREM ResolverCorrect == Spec => []ResolverTotal
<1>1. Init => TypeOK /\ TermInv
  BY TypeInit, TermInit
<1>2. TypeOK /\ TermInv /\ [Next]_vars => (TypeOK /\ TermInv)'
  BY TypeStep, TermStepKeeps
<1>3. TypeOK /\ TermInv => ResolverTotal
  <2> SUFFICES ASSUME TypeOK, TermInv, NEW at \in Time PROVE ResolveEffectiveTerm(at) # None
    BY DEF ResolverTotal
  <2>1. at \in 0 .. MaxClock + 1
    BY ConstantsAssumption DEF Time
  <2> QED
    BY <2>1, ResolverFinds DEF Found
<1> QED
  BY <1>1, <1>2, <1>3, PTL DEF Spec

----------------------------------------------------------------------------
(***************************************************************************)
(* Rates that were in force.  PricedInv says of every fee a transaction    *)
(* holds that it is the fee of the term now in force at its instant, or    *)
(* that this term was committed late; StoredInv that a stored snapshot is  *)
(* the fee of its transaction or comes from the backfill.                  *)
(***************************************************************************)
Fresh(at, id) == LET t == ResolveEffectiveTerm(at)
                 IN  TermId(t) # id => t.at >= t.from

PricedInv == \A b \in Ids : book[b].fee # None =>
                /\ book[b].effective <= clock
                /\ \A at \in Time : at = book[b].effective => Fresh(at, book[b].fee.term)

StoredInv == \A b \in Ids : snap[b] # None =>
                /\ book[b].stage = "done"
                /\ snap[b].source = "POLICY" => snap[b] = book[b].fee

PriceInv == TypeOK /\ TermInv /\ PricedInv /\ StoredInv

\* A new term changes what is in force at an instant already priced only if
\* it is committed after it has come into force.
LEMMA FreshKept ==
    ASSUME TypeOK, TypeOK', TermInv, TermInv', [Next]_vars,
           NEW at \in Time, at <= clock, NEW id, Fresh(at, id)
    PROVE  Fresh(at, id)'
<1>0. at \in 0 .. MaxClock + 1 /\ at \in Int /\ clock \in Int
  BY ConstantsAssumption DEF Time, TypeOK
<1>1. CASE UNCHANGED terms
  BY <1>1 DEF Fresh, ResolveEffectiveTerm, InForce
<1>2. ASSUME NEW r \in TermReqs, CommitTerm(r)
      PROVE  Fresh(at, id)'
  <2> DEFINE in == treq[r].in
             new == [scope |-> in.scope, from |-> in.from, until |-> Forever, bps |-> in.bps, at |-> clock]
             old == ResolveEffectiveTerm(at)
             now == ResolveEffectiveTerm(at)'
  <2> SUFFICES ASSUME in \in TermInputs, terms' = Superseded(in) \cup {new},
                      \A t \in OpenTerms(in.scope) : t.from < in.from
               PROVE  Fresh(at, id)'
    BY <1>1, <1>2, TermChange
  <2>1. /\ now \in terms' /\ Covers(now, at)
        /\ \A t \in terms' : Covers(t, at) => t = now \/ (t.scope = Global /\ now.scope = Owner)
    <3>1. Found(at)'
      BY <1>0, ResolverFindsNext
    <3> QED
      BY <3>1 DEF Found, Covers
  <2>2. /\ old \in terms /\ Covers(old, at)
        /\ \A t \in terms : Covers(t, at) => t = old \/ (t.scope = Global /\ old.scope = Owner)
    BY <1>0, ResolverFinds DEF Found
  <2>3. Global # Owner
    BY DEF Global, Owner
  <2>4. /\ in.from \in Int /\ MaxClock \in Nat
        /\ new.scope = in.scope /\ new.from = in.from /\ new.until = MaxClock + 2 /\ new.at = clock
    BY InputTyped, ConstantsAssumption DEF Forever
  <2> HIDE DEF new, now, old, in
  <2>5. CASE now = new
    <3>1. now.at >= now.from
      BY <1>0, <2>1, <2>4, <2>5 DEF Covers
    <3> QED
      BY <3>1 DEF Fresh, now
  <2>6. CASE now # new
    <3>1. now \in Superseded(in)
      BY <2>1, <2>6
    <3>2. PICK t \in terms : /\ now.scope = t.scope /\ now.from = t.from /\ now.at = t.at
                             /\ Covers(t, at)
      BY <1>0, <2>1, <3>1, SupersededRows
    <3>3. CASE t = old
      <4>1. TermId(now) = TermId(old) /\ now.at = old.at /\ now.from = old.from
        BY <3>2, <3>3 DEF TermId
      <4>2. TermId(old) # id => old.at >= old.from
        BY DEF Fresh, old
      <4>3. TermId(now) # id => now.at >= now.from
        BY <4>1, <4>2
      <4> QED
        BY <4>3 DEF Fresh, TermId, now
    <3>4. CASE t.scope = Global /\ old.scope = Owner
      <4>1. PICK u \in Superseded(in) :
               u.scope = Owner /\ (at < in.from \/ in.scope # Owner => Covers(u, at))
        BY <1>0, <2>2, <3>4, SupersededRows
      <4>2. CASE at < in.from \/ in.scope # Owner
        BY <2>1, <2>3, <3>2, <3>4, <4>1, <4>2
      <4>3. CASE ~(at < in.from) /\ in.scope = Owner
        <5>1. Covers(new, at)
          BY <1>0, <2>4, <4>3 DEF Covers
        <5> QED
          BY <2>1, <2>3, <2>4, <2>6, <4>3, <5>1
      <4> QED
        BY <4>2, <4>3
    <3> QED
      BY <2>2, <3>2, <3>3, <3>4
  <2> QED
    BY <2>5, <2>6
<1>3. CASE Tick \/ BookingStep \/ CutoverStep \/ BackfillStep \/ UNCHANGED vars
  BY <1>1, <1>3 DEF Tick, BookingStep, BeginBooking, InsertBooking, CheckSnapshot, CommitBooking,
     AbortBooking, PriceBooking, InsertLegacy, CutoverStep, StartCutover, LockBookings, CommitCutover,
     FailCutover, BackfillStep, StartBackfill, FetchBatch, CommitBatch, LoseCommit, CrashBackfill, vars
<1>4. CASE TermStep
  BY <1>1, <1>2, <1>4 DEF TermStep, BeginTerm, RejectLive, ReplayTerm, LockScope, FailTerm
<1> QED
  BY <1>3, <1>4 DEF Next

LEMMA PriceInit == Init => PriceInv
<1> SUFFICES ASSUME Init PROVE PriceInv
  OBVIOUS
<1>1. \A b \in Ids : book[b].fee = None /\ snap[b] = None
  BY DEF Init, NoBooking
<1> QED
  BY <1>1, TypeInit, TermInit DEF PriceInv, PricedInv, StoredInv

LEMMA PriceStep == PriceInv /\ [Next]_vars => PriceInv'
<1> SUFFICES ASSUME PriceInv, [Next]_vars PROVE PriceInv'
  OBVIOUS
<1>1. TypeOK /\ TypeOK' /\ TermInv /\ TermInv'
  BY TypeStep, TermStepKeeps DEF PriceInv
<1>2. clock \in Int /\ clock' \in Int /\ clock <= clock' /\ clock \in Time
  <2>1. clock' = clock \/ clock' = clock + 1
    BY DEF Next, Tick, TermStep, BeginTerm, RejectLive, ReplayTerm, LockScope, CommitTerm, FailTerm,
       BookingStep, BeginBooking, InsertBooking, CheckSnapshot, CommitBooking,
       AbortBooking, PriceBooking, InsertLegacy, CutoverStep, StartCutover, LockBookings, CommitCutover,
       FailCutover, BackfillStep, StartBackfill, FetchBatch, CommitBatch, LoseCommit, CrashBackfill, vars
  <2>2. clock \in Int /\ clock \in Time
    BY <1>1, ConstantsAssumption DEF TypeOK, Time
  <2> QED
    BY <2>1, <2>2
<1>3. ASSUME NEW b \in Ids, book'[b].fee = book[b].fee, book'[b].effective = book[b].effective,
             book'[b].fee # None
      PROVE  /\ book'[b].effective <= clock'
             /\ \A at \in Time : at = book'[b].effective => Fresh(at, book[b].fee.term)'
  <2>1. /\ book[b].effective <= clock /\ book[b].effective \in Time
        /\ \A at \in Time : at = book[b].effective => Fresh(at, book[b].fee.term)
    BY <1>1, <1>3 DEF PriceInv, PricedInv, TypeOK, BookingTx
  <2>2. book[b].effective \in Int
    BY <2>1, ConstantsAssumption DEF Time
  <2>3. ASSUME NEW at \in Time, at = book[b].effective
        PROVE  Fresh(at, book[b].fee.term)'
    <3>1. PICK id : id = book[b].fee.term
      OBVIOUS
    <3>2. Fresh(at, id)
      BY <2>1, <2>3, <3>1
    <3>3. Fresh(at, id)'
      BY <1>1, <2>1, <2>3, <3>2, FreshKept
    <3>4. id = book'[b].fee.term
      BY <1>3, <3>1
    <3> QED
      BY <3>3, <3>4 DEF Fresh
  <2> QED
    BY <1>2, <1>3, <2>1, <2>2, <2>3
<1>4. ASSUME NEW b \in Ids, book'[b].fee # None
      PROVE  \/ book'[b].fee = book[b].fee /\ book'[b].effective = book[b].effective
             \/ /\ book'[b].effective = clock /\ clock' = clock /\ UNCHANGED terms
                /\ ResolveEffectiveTerm(clock) # None
                /\ book'[b].fee.term = TermId(ResolveEffectiveTerm(clock))
  <2>1. CASE UNCHANGED book
    BY <2>1
  <2>2. CASE BookingStep
    <3>1. PICK c \in Ids :
             \/ BeginBooking(c) \/ InsertBooking(c) \/ CheckSnapshot(c)
             \/ CommitBooking(c) \/ AbortBooking(c)
             \/ \E p \in PolicyRequests : PriceBooking(c, p)
             \/ \E row \in LegacyRows : InsertLegacy(c, row)
      BY <2>2 DEF BookingStep
    <3>2. book \in [Ids -> BookingTx] /\ RolledBack.fee = None
      BY <1>1 DEF TypeOK, RolledBack, NoBooking
    <3>3. CASE BeginBooking(c) \/ InsertBooking(c) \/ CommitBooking(c) \/ \E row \in LegacyRows : InsertLegacy(c, row)
      BY <3>2, <3>3 DEF BeginBooking, InsertBooking, CommitBooking, InsertLegacy, BookingTx
    <3>4. CASE CheckSnapshot(c) \/ AbortBooking(c)
      BY <1>4, <3>2, <3>4 DEF CheckSnapshot, AbortBooking, BookingTx
    <3>5. ASSUME NEW p \in PolicyRequests, PriceBooking(c, p), b = c
          PROVE  /\ book'[b].effective = clock /\ clock' = clock /\ UNCHANGED terms
                 /\ ResolveEffectiveTerm(clock) # None
                 /\ book'[b].fee.term = TermId(ResolveEffectiveTerm(clock))
      <4> DEFINE t == ResolveEffectiveTerm(clock)
                 tx == [stage |-> "priced", created |-> book[b].created, effective |-> clock,
                        row |-> PolicyRow(p), fee |-> PolicySnapshot(p, t)]
      <4>1. t # None /\ book' = [book EXCEPT ![b] = tx]
        BY <1>4, <3>2, <3>5 DEF PriceBooking
      <4>2. book'[b] = tx
        BY <3>2, <4>1
      <4>3. tx.effective = clock /\ tx.fee.term = TermId(t)
        BY DEF PolicySnapshot
      <4> HIDE DEF tx, t
      <4> QED
        BY <3>5, <4>1, <4>2, <4>3 DEF PriceBooking, t
    <3>6. ASSUME NEW p \in PolicyRequests, PriceBooking(c, p), b # c
          PROVE  book'[b] = book[b]
      BY <3>2, <3>6 DEF PriceBooking
    <3> QED
      BY <3>1, <3>3, <3>4, <3>5, <3>6
  <2> QED
    BY <2>1, <2>2 DEF Next, Tick, TermStep, BeginTerm, RejectLive, ReplayTerm, LockScope, CommitTerm, FailTerm,
       CutoverStep, StartCutover, LockBookings, CommitCutover, FailCutover, BackfillStep, StartBackfill,
       FetchBatch, CommitBatch, LoseCommit, CrashBackfill, vars
<1>5. PricedInv'
  <2> SUFFICES ASSUME NEW b \in Ids, book'[b].fee # None
               PROVE  /\ book'[b].effective <= clock'
                      /\ \A at \in Time : at = book'[b].effective => Fresh(at, book[b].fee.term)'
    BY DEF PricedInv
  <2>1. CASE book'[b].fee = book[b].fee /\ book'[b].effective = book[b].effective
    BY <1>3, <2>1
  <2>2. CASE /\ book'[b].effective = clock /\ clock' = clock /\ UNCHANGED terms
             /\ ResolveEffectiveTerm(clock) # None
             /\ book'[b].fee.term = TermId(ResolveEffectiveTerm(clock))
    <3>1. ASSUME NEW at \in Time, at = book'[b].effective
          PROVE  Fresh(at, book[b].fee.term)'
      <4>1. ResolveEffectiveTerm(at)' = ResolveEffectiveTerm(at)
        BY <2>2 DEF ResolveEffectiveTerm, InForce
      <4>2. book'[b].fee.term = TermId(ResolveEffectiveTerm(at))
        BY <2>2, <3>1
      <4> QED
        BY <4>1, <4>2 DEF Fresh, TermId
    <3> QED
      BY <1>2, <2>2, <3>1
  <2> QED
    BY <1>4, <2>1, <2>2
<1>6. StoredInv'
  <2>1. CASE UNCHANGED <<book, snap>>
    BY <2>1 DEF PriceInv, StoredInv
  <2>2. CASE BookingStep
    <3>1. PICK c \in Ids :
             \/ BeginBooking(c) \/ InsertBooking(c) \/ CheckSnapshot(c)
             \/ CommitBooking(c) \/ AbortBooking(c)
             \/ \E p \in PolicyRequests : PriceBooking(c, p)
             \/ \E row \in LegacyRows : InsertLegacy(c, row)
      BY <2>2 DEF BookingStep
    <3>2. book \in [Ids -> BookingTx] /\ snap \in [Ids -> Snapshot \cup {None}]
      BY <1>1 DEF TypeOK
    <3>3. \A b \in Ids \ {c} : book'[b] = book[b] /\ snap'[b] = snap[b]
      BY <3>1, <3>2 DEF BeginBooking, InsertBooking, CheckSnapshot, CommitBooking, AbortBooking,
         PriceBooking, InsertLegacy
    <3>4. CASE CommitBooking(c)
      <4>1. book'[c].stage = "done" /\ book'[c].fee = book[c].fee /\ snap'[c] = book[c].fee
        BY <3>2, <3>4 DEF CommitBooking, BookingTx
      <4> QED
        BY <3>3, <4>1 DEF PriceInv, StoredInv
    <3>5. CASE ~CommitBooking(c)
      <4>1. book[c].stage # "done" /\ snap' = snap
        BY <3>1, <3>5 DEF BeginBooking, InsertBooking, CheckSnapshot, AbortBooking, PriceBooking, InsertLegacy
      <4>2. snap'[c] = None
        BY <4>1 DEF PriceInv, StoredInv
      <4> QED
        BY <3>3, <4>2 DEF PriceInv, StoredInv
    <3> QED
      BY <3>4, <3>5
  <2>3. CASE snap' = Filled /\ book' = book
    <3> SUFFICES ASSUME NEW b \in Ids, snap'[b] # None
                 PROVE  /\ book[b].stage = "done"
                        /\ snap'[b].source = "POLICY" => snap'[b] = book[b].fee
      BY <2>3 DEF StoredInv
    <3>1. CASE snap'[b] = snap[b]
      BY <3>1 DEF PriceInv, StoredInv
    <3>2. CASE b \in fill.batch /\ snap'[b] = CalculateLegacySnapshot(book[b].row)
      <4>1. book[b].stage = "done"
        BY <1>1, <3>2 DEF TypeOK, Committed
      <4>2. snap'[b].source = "LEGACY_NO_COMMISSION"
        BY <3>2 DEF CalculateLegacySnapshot
      <4> QED
        BY <4>1, <4>2
    <3> QED
      BY <2>3, <3>1, <3>2 DEF Filled
  <2> QED
    BY <2>1, <2>2, <2>3 DEF Next, Tick, TermStep, BeginTerm, RejectLive, ReplayTerm, LockScope, CommitTerm, FailTerm,
       CutoverStep, StartCutover, LockBookings, CommitCutover, FailCutover, BackfillStep, StartBackfill,
       FetchBatch, CommitBatch, LoseCommit, CrashBackfill, vars
<1> QED
  BY <1>1, <1>5, <1>6 DEF PriceInv

\* The rate a booking was sold at is the rate in force at the instant it was
\* priced for, unless that term was committed late (service.go of
\* commercialterms compares valid_from before it waits for the scope's lock).
THEOREM RatesCorrect == Spec => []StaleOnlyBehindLateTerm
<1>1. PriceInv => StaleOnlyBehindLateTerm
  <2> SUFFICES ASSUME PriceInv, NEW b \in Committed, snap[b] # None, snap[b].source = "POLICY"
               PROVE  LET t == ResolveEffectiveTerm(book[b].effective)
                      IN  t # None /\ (TermId(t) # snap[b].term => t.at >= t.from)
    BY DEF StaleOnlyBehindLateTerm
  <2>1. b \in Ids /\ snap[b] = book[b].fee /\ book[b].effective \in Time
    BY DEF PriceInv, StoredInv, Committed, TypeOK, BookingTx
  <2>2. book[b].effective \in 0 .. MaxClock + 1
    BY <2>1, ConstantsAssumption DEF Time
  <2>3. Found(book[b].effective)
    BY <2>2, ResolverFinds DEF PriceInv
  <2>4. Fresh(book[b].effective, snap[b].term)
    BY <2>1 DEF PriceInv, PricedInv
  <2> QED
    BY <2>3, <2>4 DEF Found, Fresh
<1> QED
  BY <1>1, PriceInit, PriceStep, PTL DEF Spec

----------------------------------------------------------------------------
(***************************************************************************)
(* Idempotency keys.  A call past the advisory lock on its key is alone on *)
(* it and the key is new (AloneKeyInv); therefore a key has one audit row  *)
(* (OneAuditInv).  The row of a created term names a term that is there    *)
(* (CreatedInv), and every answer is that of a row (RecordedInv).          *)
(***************************************************************************)
AloneKeyInv == \A r \in TermReqs : treq[r].pc = "keyed" =>
                  KeyFree(r) /\ AuditsOf(treq[r].in.key) = {}

OneAuditInv == \A a, b \in audits : a.key = b.key => a = b

Stands(in, id) == \E t \in terms : /\ TermId(t) = id /\ t.bps = in.bps
                                   /\ t.from = in.from /\ t.scope = in.scope

CreatedInv == \A a \in audits : a.action = "CREATED" => Stands(a.in, a.term)

Recorded(r) ==
    /\ treq[r].answer = "TERM" =>
          \E a \in audits : /\ a.key = treq[r].in.key /\ a.action = "CREATED"
                            /\ a.in = treq[r].in /\ a.term = treq[r].term
    /\ treq[r].answer = "FORBIDDEN" =>
          \E a \in audits : a.key = treq[r].in.key /\ a.action = "LIVE_REJECTED"

RecordedInv == \A r \in TermReqs : treq[r].pc = "answered" => Recorded(r)

KeyInv == AloneKeyInv /\ OneAuditInv /\ CreatedInv /\ RecordedInv

LEMMA KeyInit == Init => KeyInv
<1> SUFFICES ASSUME Init PROVE KeyInv
  OBVIOUS
<1>1. \A r \in TermReqs : treq[r].pc \in {"idle", "absent"}
  <2>1. PICK w \in Workloads :
           treq = [r \in TermReqs |-> [IdleRequest EXCEPT !.pc = IF r \in w.calls THEN "idle" ELSE "absent"]]
    BY DEF Init
  <2> QED
    BY <2>1 DEF IdleRequest
<1>2. audits = {}
  BY DEF Init
<1> QED
  BY <1>1, <1>2 DEF KeyInv, AloneKeyInv, OneAuditInv, CreatedInv, RecordedInv

\* A term may end, but it keeps its scope, its first instant and its rate.
LEMMA TermsKept ==
    ASSUME TypeOK, [Next]_vars, NEW t \in terms
    PROVE  \E u \in terms' : u.scope = t.scope /\ u.from = t.from /\ u.bps = t.bps
<1>1. CASE UNCHANGED terms
  BY <1>1
<1>2. ASSUME NEW r \in TermReqs, CommitTerm(r), terms' # terms
      PROVE  \E u \in terms' : u.scope = t.scope /\ u.from = t.from /\ u.bps = t.bps
  <2>1. PICK in \in TermInputs :
           Superseded(in) \subseteq terms' /\ \A s \in OpenTerms(in.scope) : s.from < in.from
    BY <1>2, TermChange
  <2>2. \E u \in Superseded(in) : u.scope = t.scope /\ u.from = t.from /\ u.bps = t.bps
    BY <2>1, SupersededRows
  <2> QED
    BY <2>1, <2>2
<1> QED
  BY <1>1, <1>2 DEF Next, Tick, TermStep, BeginTerm, RejectLive, ReplayTerm, LockScope, FailTerm,
     BookingStep, BeginBooking, InsertBooking, CheckSnapshot, CommitBooking,
     AbortBooking, PriceBooking, InsertLegacy, CutoverStep, StartCutover, LockBookings, CommitCutover,
     FailCutover, BackfillStep, StartBackfill, FetchBatch, CommitBatch, LoseCommit, CrashBackfill, vars

LEMMA StandsKept ==
    ASSUME TypeOK, [Next]_vars, NEW in, NEW id, Stands(in, id)
    PROVE  Stands(in, id)'
<1>1. PICK t \in terms : TermId(t) = id /\ t.bps = in.bps /\ t.from = in.from /\ t.scope = in.scope
  BY DEF Stands
<1>2. PICK u \in terms' : u.scope = t.scope /\ u.from = t.from /\ u.bps = t.bps
  BY TermsKept
<1> QED
  BY <1>1, <1>2 DEF Stands, TermId

LEMMA AnsweredRow ==
    ASSUME TypeOK, NEW r \in TermReqs, NEW answer, NEW term, treq' = Answered(r, answer, term)
    PROVE  /\ treq'[r].pc = "answered" /\ treq'[r].answer = answer
           /\ treq'[r].term = term /\ treq'[r].in = treq[r].in
           /\ \A q \in TermReqs \ {r} : treq'[q] = treq[q]
  BY DEF TypeOK, Answered, TermCall

\* A step of a call that leaves the tables alone.
LEMMA KeyQuiet ==
    ASSUME TypeOK, KeyInv, NEW r \in TermReqs, UNCHANGED <<terms, audits>>,
           \A q \in TermReqs \ {r} : treq'[q] = treq[q],
           treq'[r].pc = "keyed" =>
               treq'[r].in = treq[r].in /\ KeyFree(r) /\ AuditsOf(treq[r].in.key) = {},
           treq'[r].pc = "answered" => Recorded(r)'
    PROVE  KeyInv'
<1>1. AloneKeyInv'
  <2> SUFFICES ASSUME NEW q \in TermReqs, treq'[q].pc = "keyed"
               PROVE  KeyFree(q)' /\ AuditsOf(treq[q].in.key)' = {}
    BY DEF AloneKeyInv
  <2>1. CASE q = r
    BY <2>1 DEF KeyFree, AuditsOf
  <2>2. CASE q # r
    <3>1. treq'[q] = treq[q] /\ KeyFree(q) /\ AuditsOf(treq[q].in.key) = {}
      BY <2>2 DEF KeyInv, AloneKeyInv
    <3>2. treq'[r].pc = "keyed" => treq'[r].in.key # treq[q].in.key
      BY <2>2, <3>1 DEF KeyFree
    <3> QED
      BY <2>2, <3>1, <3>2 DEF KeyFree, AuditsOf
  <2> QED
    BY <2>1, <2>2
<1>2. OneAuditInv' /\ CreatedInv'
  BY DEF KeyInv, OneAuditInv, CreatedInv, Stands
<1>3. RecordedInv'
  <2> SUFFICES ASSUME NEW q \in TermReqs, treq'[q].pc = "answered", q # r
               PROVE  Recorded(q)'
    BY DEF RecordedInv
  <2>1. treq'[q] = treq[q] /\ Recorded(q)
    BY DEF KeyInv, RecordedInv
  <2> QED
    BY <2>1 DEF Recorded
<1> QED
  BY <1>1, <1>2, <1>3 DEF KeyInv

\* The step that writes the audit row of a new key.
LEMMA KeyWritten ==
    ASSUME TypeOK, KeyInv, [Next]_vars, NEW r \in TermReqs, NEW a,
           KeyFree(r), AuditsOf(treq[r].in.key) = {},
           a.key = treq[r].in.key, audits' = audits \cup {a},
           a.action = "CREATED" => Stands(a.in, a.term)',
           \A q \in TermReqs \ {r} : treq'[q] = treq[q],
           treq'[r].pc = "answered", Recorded(r)'
    PROVE  KeyInv'
<1>1. AloneKeyInv'
  <2> SUFFICES ASSUME NEW q \in TermReqs, treq'[q].pc = "keyed"
               PROVE  KeyFree(q)' /\ AuditsOf(treq[q].in.key)' = {}
    BY DEF AloneKeyInv
  <2>1. q # r /\ treq'[q] = treq[q]
    OBVIOUS
  <2>2. KeyFree(q) /\ AuditsOf(treq[q].in.key) = {}
    BY <2>1 DEF KeyInv, AloneKeyInv
  <2>3. treq[q].in.key # a.key
    BY <2>1 DEF KeyFree
  <2> QED
    BY <2>1, <2>2, <2>3 DEF KeyFree, AuditsOf
<1>2. OneAuditInv'
  BY DEF KeyInv, OneAuditInv, AuditsOf
<1>3. CreatedInv'
  <2> SUFFICES ASSUME NEW b \in audits', b.action = "CREATED"
               PROVE  Stands(b.in, b.term)'
    BY DEF CreatedInv
  <2>1. CASE b \in audits
    BY <2>1, StandsKept DEF KeyInv, CreatedInv
  <2> QED
    BY <2>1
<1>4. RecordedInv'
  <2> SUFFICES ASSUME NEW q \in TermReqs, treq'[q].pc = "answered", q # r
               PROVE  Recorded(q)'
    BY DEF RecordedInv
  <2>1. treq'[q] = treq[q] /\ Recorded(q)
    BY DEF KeyInv, RecordedInv
  <2> QED
    BY <2>1 DEF Recorded
<1> QED
  BY <1>1, <1>2, <1>3, <1>4 DEF KeyInv


LEMMA KeyTermStep ==
    ASSUME TypeOK, KeyInv, [Next]_vars, NEW r \in TermReqs,
           \/ BeginTerm(r) \/ RejectLive(r) \/ ReplayTerm(r)
           \/ LockScope(r) \/ CommitTerm(r) \/ FailTerm(r)
    PROVE  KeyInv'
<1> DEFINE in == treq[r].in
<1>1. treq \in [TermReqs -> TermCall]
  BY DEF TypeOK
<1>2. CASE BeginTerm(r)
  <2>1. UNCHANGED <<terms, audits>>
    BY <1>2 DEF BeginTerm
  <2>2. PICK body \in TermInputs :
           treq' = [treq EXCEPT ![r] = [pc |-> "begun", in |-> body, ts |-> clock, answer |-> "", term |-> None]]
    BY <1>2 DEF BeginTerm
  <2>3. treq'[r].pc = "begun" /\ \A q \in TermReqs \ {r} : treq'[q] = treq[q]
    BY <1>1, <2>2
  <2> QED
    BY <2>1, <2>3, KeyQuiet
<1>3. CASE RejectLive(r)
  <2> DEFINE a == [key |-> in.key, action |-> "LIVE_REJECTED", in |-> in, term |-> None]
             same == {b \in AuditsOf(in.key) : b.action = "LIVE_REJECTED" /\ SameRequest(b, in)}
  <2>1. KeyFree(r) /\ UNCHANGED terms
    BY <1>3 DEF RejectLive
  <2>2. CASE AuditsOf(in.key) = {}
    <3>1. audits' = audits \cup {a} /\ treq' = Answered(r, "FORBIDDEN", None)
      BY <1>3, <2>2 DEF RejectLive
    <3>2. /\ treq'[r].pc = "answered" /\ treq'[r].answer = "FORBIDDEN" /\ treq'[r].in = in
          /\ \A q \in TermReqs \ {r} : treq'[q] = treq[q]
      BY <3>1, AnsweredRow, Zenon
    <3>3. a \in audits' /\ a.key = in.key /\ a.action = "LIVE_REJECTED"
      BY <3>1
    <3> HIDE DEF a
    <3>4. Recorded(r)'
      BY <3>2, <3>3 DEF Recorded
    <3>5. a.action # "CREATED"
      BY <3>3
    <3> QED
      BY <2>1, <2>2, <3>1, <3>2, <3>3, <3>4, <3>5, KeyWritten
  <2>3. CASE AuditsOf(in.key) # {}
    <3>1. UNCHANGED audits /\ treq' = Answered(r, IF same # {} THEN "FORBIDDEN" ELSE "CONFLICT", None)
      BY <1>3, <2>3 DEF RejectLive
    <3>2. /\ treq'[r].pc = "answered" /\ treq'[r].in = in
          /\ treq'[r].answer = (IF same # {} THEN "FORBIDDEN" ELSE "CONFLICT")
          /\ \A q \in TermReqs \ {r} : treq'[q] = treq[q]
      BY <3>1, AnsweredRow, Zenon
    <3>3. Recorded(r)'
      BY <3>1, <3>2 DEF Recorded, AuditsOf
    <3> QED
      BY <2>1, <3>1, <3>2, <3>3, KeyQuiet
  <2> QED
    BY <2>2, <2>3
<1>4. CASE ReplayTerm(r)
  <2> DEFINE same == {b \in AuditsOf(in.key) : b.action = "CREATED" /\ SameRequest(b, in)}
             found == CHOOSE b \in same : TRUE
  <2>1. UNCHANGED <<terms, audits>>
    BY <1>4 DEF ReplayTerm
  <2>2. CASE same # {}
    <3>1. treq' = Answered(r, "TERM", found.term)
      BY <1>4, <2>2 DEF ReplayTerm
    <3>2. found \in same
      BY <2>2
    <3>3. found \in audits /\ found.key = in.key /\ found.action = "CREATED" /\ found.in = in
      BY <3>2 DEF AuditsOf, SameRequest
    <3> HIDE DEF found
    <3>4. /\ treq'[r].pc = "answered" /\ treq'[r].answer = "TERM" /\ treq'[r].in = in
          /\ treq'[r].term = found.term
          /\ \A q \in TermReqs \ {r} : treq'[q] = treq[q]
      BY <3>1, AnsweredRow
    <3>5. Recorded(r)'
      BY <2>1, <3>3, <3>4 DEF Recorded
    <3> QED
      BY <2>1, <3>4, <3>5, KeyQuiet
  <2>3. CASE same = {}
    <3>1. treq' = Answered(r, "CONFLICT", None)
      BY <1>4, <2>3 DEF ReplayTerm
    <3>2. /\ treq'[r].pc = "answered" /\ treq'[r].answer = "CONFLICT"
          /\ \A q \in TermReqs \ {r} : treq'[q] = treq[q]
      BY <3>1, AnsweredRow, Zenon
    <3> QED
      BY <2>1, <3>2, KeyQuiet DEF Recorded
  <2> QED
    BY <2>2, <2>3
<1>5. CASE LockScope(r)
  <2>1. UNCHANGED <<terms, audits>> /\ KeyFree(r) /\ AuditsOf(in.key) = {}
    BY <1>5 DEF LockScope
  <2>2. CASE in.from <= treq[r].ts
    <3>1. treq' = Answered(r, "INVALID", None)
      BY <1>5, <2>2 DEF LockScope
    <3>2. /\ treq'[r].pc = "answered" /\ treq'[r].answer = "INVALID"
          /\ \A q \in TermReqs \ {r} : treq'[q] = treq[q]
      BY <3>1, AnsweredRow, Zenon
    <3> QED
      BY <2>1, <3>2, KeyQuiet DEF Recorded
  <2>3. CASE ~(in.from <= treq[r].ts)
    <3>1. treq' = [treq EXCEPT ![r].pc = "keyed"]
      BY <1>5, <2>3 DEF LockScope
    <3>2. /\ treq'[r].pc = "keyed" /\ treq'[r].in = in
          /\ \A q \in TermReqs \ {r} : treq'[q] = treq[q]
      BY <1>1, <3>1 DEF TermCall
    <3> QED
      BY <2>1, <3>2, KeyQuiet
  <2> QED
    BY <2>2, <2>3
<1>6. CASE CommitTerm(r)
  <2> DEFINE new == [scope |-> in.scope, from |-> in.from, until |-> Forever, bps |-> in.bps, at |-> clock]
             a == [key |-> in.key, action |-> "CREATED", in |-> in, term |-> TermId(new)]
  <2>1. treq[r].pc = "keyed" /\ KeyFree(r) /\ AuditsOf(in.key) = {}
    BY <1>6 DEF CommitTerm, KeyInv, AloneKeyInv
  <2>2. CASE treq' = Answered(r, "CONFLICT", None) /\ UNCHANGED <<terms, audits>>
    <3>1. /\ treq'[r].pc = "answered" /\ treq'[r].answer = "CONFLICT"
          /\ \A q \in TermReqs \ {r} : treq'[q] = treq[q]
      BY <2>2, AnsweredRow, Zenon
    <3> QED
      BY <2>2, <3>1, KeyQuiet DEF Recorded
  <2>3. CASE /\ terms' = Superseded(in) \cup {new} /\ audits' = audits \cup {a}
             /\ treq' = Answered(r, "TERM", TermId(new))
    <3>1. /\ treq'[r].pc = "answered" /\ treq'[r].answer = "TERM" /\ treq'[r].in = in
          /\ treq'[r].term = TermId(new)
          /\ \A q \in TermReqs \ {r} : treq'[q] = treq[q]
      <4>1. treq' = Answered(r, "TERM", TermId(new)) /\ in = treq[r].in
        BY <2>3
      <4> HIDE DEF new, a, in
      <4> QED
        BY <4>1, AnsweredRow, Zenon
    <3>2. PICK row, term : row = a /\ term = new
      OBVIOUS
    <3>3. /\ term \in terms' /\ TermId(term) = row.term /\ term.bps = row.in.bps
          /\ term.from = row.in.from /\ term.scope = row.in.scope
      BY <2>3, <3>2
    <3>4. /\ row.key = in.key /\ row.action = "CREATED" /\ row.in = in /\ row.term = TermId(new)
          /\ row \in audits' /\ audits' = audits \cup {row}
      BY <2>3, <3>2
    <3> HIDE DEF new, a
    <3>5. Stands(row.in, row.term)'
      BY <3>3 DEF Stands, TermId
    <3>6. Recorded(r)'
      BY <3>1, <3>4 DEF Recorded
    <3> QED
      BY <2>1, <3>1, <3>4, <3>5, <3>6, KeyWritten
  <2> QED
    BY <1>6, <2>2, <2>3 DEF CommitTerm
<1>7. CASE FailTerm(r)
  <2>1. treq' = Answered(r, "ERROR", None) /\ UNCHANGED <<terms, audits>>
    BY <1>7 DEF FailTerm
  <2>2. /\ treq'[r].pc = "answered" /\ treq'[r].answer = "ERROR"
        /\ \A q \in TermReqs \ {r} : treq'[q] = treq[q]
    BY <2>1, AnsweredRow, Zenon
  <2> QED
    BY <2>1, <2>2, KeyQuiet DEF Recorded
<1> QED
  BY <1>2, <1>3, <1>4, <1>5, <1>6, <1>7

LEMMA KeyStep == TypeOK /\ KeyInv /\ [Next]_vars => KeyInv'
<1> SUFFICES ASSUME TypeOK, KeyInv, [Next]_vars PROVE KeyInv'
  OBVIOUS
<1>1. CASE UNCHANGED <<terms, audits, treq>>
  <2>1. \A r \in TermReqs : KeyFree(r)' <=> KeyFree(r)
    BY <1>1 DEF KeyFree
  <2>2. \A r \in TermReqs : Recorded(r)' <=> Recorded(r)
    BY <1>1 DEF Recorded
  <2> QED
    BY <1>1, <2>1, <2>2 DEF KeyInv, AloneKeyInv, OneAuditInv, CreatedInv, RecordedInv, AuditsOf, Stands
<1>2. CASE TermStep
  BY <1>2, KeyTermStep DEF TermStep
<1> QED
  BY <1>1, <1>2 DEF Next, Tick,
     BookingStep, BeginBooking, InsertBooking, CheckSnapshot, CommitBooking,
     AbortBooking, PriceBooking, InsertLegacy, CutoverStep, StartCutover, LockBookings, CommitCutover,
     FailCutover, BackfillStep, StartBackfill, FetchBatch, CommitBatch, LoseCommit, CrashBackfill, vars

\* One idempotency key stands for one outcome, however many calls carry it,
\* with whatever bodies and in whatever order they commit or fail: the answers
\* that carry a term carry one, which stands as it was asked for (service.go of
\* commercialterms locks the key before it looks the audit row up).
THEOREM KeysCorrect == Spec => []TermAnswersAgree
<1>1. KeyInv => TermAnswersAgree
  <2> SUFFICES ASSUME KeyInv, NEW q \in TermReqs, NEW r \in TermReqs,
                      treq[q].pc = "answered", treq[r].pc = "answered", treq[q].in.key = treq[r].in.key,
                      treq[q].answer = "TERM"
               PROVE  /\ treq[r].answer # "FORBIDDEN"
                      /\ treq[r].answer = "TERM" => treq[r].term = treq[q].term
                      /\ \E t \in terms : TermId(t) = treq[q].term /\ t.bps = treq[q].in.bps
                                           /\ t.from = treq[q].in.from /\ t.scope = treq[q].in.scope
    BY DEF TermAnswersAgree
  <2>1. PICK a \in audits : /\ a.key = treq[q].in.key /\ a.action = "CREATED"
                            /\ a.in = treq[q].in /\ a.term = treq[q].term
    BY DEF KeyInv, RecordedInv, Recorded
  <2>2. \A b \in audits : b.key = treq[r].in.key => b = a
    BY <2>1 DEF KeyInv, OneAuditInv
  <2>3. Stands(treq[q].in, treq[q].term)
    BY <2>1 DEF KeyInv, CreatedInv
  <2> QED
    BY <2>1, <2>2, <2>3 DEF KeyInv, RecordedInv, Recorded, Stands
<1> QED
  BY <1>1, TypeInit, TypeStep, KeyInit, KeyStep, PTL DEF Spec


----------------------------------------------------------------------------
(***************************************************************************)
(* The detector and the booking flow.  Whatever a transaction is priced    *)
(* with it writes into both tables: its columns and its snapshot are those *)
(* of one request under one term (ColumnsInv).                             *)
(***************************************************************************)
PricedAs(b, p, t) == /\ CalculateBookingFees(p, t.bps) # None
                     /\ book[b].row = PolicyRow(p)
                     /\ book[b].fee = PolicySnapshot(p, t)

UnpricedInv == \A b \in Ids : book[b].stage \in {"absent", "none", "begun"} => book[b].fee = None

ColumnsInv == \A b \in Ids : book[b].fee # None =>
                 \E p \in PolicyRequests, t \in terms : PricedAs(b, p, t)

LEMMA ColumnsInit == Init => UnpricedInv /\ ColumnsInv
<1> SUFFICES ASSUME Init PROVE \A b \in Ids : book[b].fee = None
  BY DEF UnpricedInv, ColumnsInv
<1>1. PICK w \in Workloads :
         book = [b \in Ids |-> [NoBooking EXCEPT !.stage = IF b \in w.bookings THEN "none" ELSE "absent"]]
  BY DEF Init
<1> QED
  BY <1>1 DEF NoBooking

\* A later row of the same term prices a request as the former did.
LEMMA SameTermSamePrice ==
    ASSUME NEW p, NEW t, NEW u, u.scope = t.scope, u.from = t.from, u.bps = t.bps
    PROVE  PolicySnapshot(p, u) = PolicySnapshot(p, t)
  BY DEF PolicySnapshot, TermId

\* What a step does to one booking: nothing to what it is priced with, or it
\* loses its fee, or it is priced.
LEMMA BookingChange ==
    ASSUME TypeOK, UnpricedInv, [Next]_vars, NEW b \in Ids
    PROVE  /\ book'[b].stage \in {"absent", "none", "begun"} => book'[b].fee = None
           /\ \/ book'[b].fee = None
              \/ book'[b].fee = book[b].fee /\ book'[b].row = book[b].row
              \/ \E p \in PolicyRequests, t \in terms :
                    /\ CalculateBookingFees(p, t.bps) # None
                    /\ book'[b].row = PolicyRow(p) /\ book'[b].fee = PolicySnapshot(p, t)
<1> DEFINE Goal(c) ==
      /\ book'[c].stage \in {"absent", "none", "begun"} => book'[c].fee = None
      /\ \/ book'[c].fee = None
         \/ book'[c].fee = book[c].fee /\ book'[c].row = book[c].row
         \/ \E p \in PolicyRequests, t \in terms :
               /\ CalculateBookingFees(p, t.bps) # None
               /\ book'[c].row = PolicyRow(p) /\ book'[c].fee = PolicySnapshot(p, t)
<1>1. ASSUME book'[b] = book[b]
      PROVE  Goal(b)
  BY <1>1 DEF UnpricedInv
<1>2. ASSUME BookingStep
      PROVE  Goal(b)
  <2>1. PICK c \in Ids :
           \/ BeginBooking(c) \/ InsertBooking(c) \/ CheckSnapshot(c)
           \/ CommitBooking(c) \/ AbortBooking(c)
           \/ \E p \in PolicyRequests : PriceBooking(c, p)
           \/ \E row \in LegacyRows : InsertLegacy(c, row)
    BY <1>2 DEF BookingStep
  <2>2. book \in [Ids -> BookingTx] /\ RolledBack.fee = None
    BY DEF TypeOK, RolledBack, NoBooking
  <2>3. CASE b # c
    <3>1. book'[b] = book[b]
      BY <2>1, <2>2, <2>3 DEF BeginBooking, InsertBooking, CheckSnapshot, CommitBooking, AbortBooking,
         PriceBooking, InsertLegacy
    <3> QED
      BY <1>1, <3>1
  <2>4. CASE BeginBooking(b) \/ \E row \in LegacyRows : InsertLegacy(b, row)
    <3>1. book[b].fee = None
      BY <2>4 DEF UnpricedInv, BeginBooking, InsertLegacy
    <3>2. book'[b].fee = book[b].fee
      BY <2>2, <2>4 DEF BeginBooking, InsertLegacy, BookingTx
    <3> QED
      BY <3>1, <3>2
  <2>5. CASE InsertBooking(b) \/ CommitBooking(b)
    <3>1. book'[b].fee = book[b].fee /\ book'[b].row = book[b].row /\ book'[b].stage \in {"inserted", "done"}
      BY <2>2, <2>5 DEF InsertBooking, CommitBooking, BookingTx
    <3> QED
      BY <3>1
  <2>6. CASE CheckSnapshot(b) \/ AbortBooking(b)
    <3>1. \/ book'[b] = RolledBack
          \/ book'[b].fee = book[b].fee /\ book'[b].row = book[b].row /\ book'[b].stage = "checked"
      BY <2>2, <2>6 DEF CheckSnapshot, AbortBooking, BookingTx
    <3> QED
      BY <2>2, <3>1
  <2>7. ASSUME NEW p \in PolicyRequests, PriceBooking(b, p)
        PROVE  Goal(b)
    <3> DEFINE t == ResolveEffectiveTerm(clock)
               tx == [stage |-> "priced", created |-> book[b].created, effective |-> clock,
                      row |-> PolicyRow(p), fee |-> PolicySnapshot(p, t)]
    <3>1. CASE book' = [book EXCEPT ![b] = RolledBack]
      BY <2>2, <3>1
    <3>2. CASE t # None /\ CalculateBookingFees(p, t.bps) # None /\ book' = [book EXCEPT ![b] = tx]
      <4>1. t \in terms
        BY <3>2, ResolverTyped
      <4>2. book'[b] = tx
        BY <2>2, <3>2
      <4>3. tx.stage = "priced" /\ tx.row = PolicyRow(p) /\ tx.fee = PolicySnapshot(p, t)
        OBVIOUS
      <4> HIDE DEF tx, t
      <4> QED
        BY <3>2, <4>1, <4>2, <4>3
    <3> HIDE DEF tx, Goal
    <3> QED
      BY <2>7, <3>1, <3>2 DEF PriceBooking, tx
  <2> HIDE DEF Goal
  <2> QED
    BY <2>1, <2>3, <2>4, <2>5, <2>6, <2>7
<1>3. ASSUME UNCHANGED book
      PROVE  Goal(b)
  BY <1>1, <1>3
<1> HIDE DEF Goal
<1>4. Goal(b)
  BY <1>2, <1>3 DEF Next, Tick, TermStep, BeginTerm, RejectLive, ReplayTerm, LockScope, CommitTerm, FailTerm,
     CutoverStep, StartCutover, LockBookings, CommitCutover, FailCutover, BackfillStep, StartBackfill,
     FetchBatch, CommitBatch, LoseCommit, CrashBackfill, vars
<1> QED
  BY <1>4, Zenon DEF Goal

LEMMA ColumnsStep ==
    ASSUME TypeOK, UnpricedInv, ColumnsInv, [Next]_vars
    PROVE  UnpricedInv' /\ ColumnsInv'
<1>1. UnpricedInv'
  BY BookingChange DEF UnpricedInv
<1>2. ASSUME NEW b \in Ids, book'[b].fee # None
      PROVE  \E p \in PolicyRequests, u \in terms' :
                /\ CalculateBookingFees(p, u.bps) # None
                /\ book'[b].row = PolicyRow(p) /\ book'[b].fee = PolicySnapshot(p, u)
  <2>1. PICK p \in PolicyRequests, t \in terms :
               /\ CalculateBookingFees(p, t.bps) # None
               /\ book'[b].row = PolicyRow(p) /\ book'[b].fee = PolicySnapshot(p, t)
    <3>1. CASE book'[b].fee = book[b].fee /\ book'[b].row = book[b].row
      BY <1>2, <3>1 DEF ColumnsInv, PricedAs
    <3> QED
      BY <1>2, <3>1, BookingChange
  <2>2. PICK u \in terms' : u.scope = t.scope /\ u.from = t.from /\ u.bps = t.bps
    BY TermsKept
  <2>3. PolicySnapshot(p, u) = PolicySnapshot(p, t)
    BY <2>2, SameTermSamePrice
  <2> QED
    BY <2>1, <2>2, <2>3
<1> QED
  BY <1>1, <1>2 DEF ColumnsInv, PricedAs

\* The columns a request writes are whole, present and consistent, and the
\* detector's formula gives the calculator's amounts.
LEMMA Repairable ==
    ASSUME NEW p \in PolicyRequests, NEW t, t.bps \in 0 .. MaxBps, CalculateBookingFees(p, t.bps) # None
    PROVE  /\ ClassifyPostCutoverP0Candidate(PolicyRow(p), t) = "REPAIRABLE"
           /\ LET s == PolicySnapshot(p, t)
              IN  /\ s.commission = ExpectedFees(PolicyRow(p).final, s.bps).commission
                  /\ s.net + s.commission = PolicyRow(p).total
<1> DEFINE row == PolicyRow(p)
           final == p.original + p.adjustment
           effective == IF p.channel = WalkIn THEN 0 ELSE t.bps
           again == [channel |-> row.channel, original |-> row.original,
                     adjustment |-> row.final - row.original, reason |-> TRUE]
<1>1. /\ p.channel \in {Online, WalkIn} /\ p.original \in Nat /\ p.adjustment \in Int
      /\ p.channel = Online => p.adjustment <= 0
  BY ConstantsAssumption DEF PolicyRequest
<1>2. final \in Nat /\ effective \in 0 .. MaxBps /\ effective \in Nat /\ (p.adjustment # 0 => p.reason)
  <2>1. (p.adjustment # 0 => p.reason) /\ final >= 0
    BY DEF CalculateBookingFees
  <2>2. final \in Int /\ effective \in 0 .. MaxBps
    BY <1>1 DEF MaxBps
  <2> HIDE DEF final, effective
  <2> QED
    BY <2>1, <2>2 DEF MaxBps
<1>3. /\ row.channel = p.channel /\ row.original = p.original /\ row.final = final /\ row.total = final
      /\ row.reason = p.reason
      /\ p.channel = Online => row.discount = p.original - final
      /\ p.channel = WalkIn => row.offSystem = p.original /\ row.offFinal = final
  BY DEF PolicyRow
<1>4. CommissionAmount(final, effective) = RoundedShare(final, effective)
  BY <1>2, CommissionRounded
<1>5. CommissionAmount(final, effective) \in Int
  <2>1. CommissionAmount(final, effective) \in 0 .. final
    BY <1>2, CommissionBounded
  <2> QED
    BY <1>2, <2>1
<1>6. CalculateBookingFees(p, t.bps) =
         [final |-> final, bps |-> effective, commission |-> CommissionAmount(final, effective),
          net |-> final - CommissionAmount(final, effective)]
  BY DEF CalculateBookingFees
<1>7. CalculateBookingFees(again, t.bps) = CalculateBookingFees(p, t.bps)
  <2>1. /\ again.channel = p.channel /\ again.original = p.original
        /\ again.original + again.adjustment = final /\ again.reason = TRUE
    BY <1>1, <1>2, <1>3
  <2> HIDE DEF again
  <2> QED
    BY <1>2, <1>6, <2>1 DEF CalculateBookingFees
<1>8. ExpectedFees(row.final, effective) = CalculateBookingFees(p, t.bps)
  BY <1>3, <1>4, <1>6 DEF ExpectedFees
<1> HIDE DEF row, again
<1>9. /\ {row.original, row.final, row.total}
             \cup (IF row.channel = Online THEN {row.discount} ELSE {row.offSystem, row.offFinal})
           \subseteq Int
  <2>1. Online # WalkIn
    BY DEF Online, WalkIn
  <2> QED
    BY <1>1, <1>2, <1>3, <2>1
<1>10. Int \cap {None, Fraction} = {}
  BY NoneAssumption
<1>11. /\ row.final - row.original = p.adjustment /\ row.final = row.total
       /\ IF row.channel = Online
          THEN row.final - row.original <= 0 /\ row.original - row.discount = row.final
          ELSE row.offSystem = row.original /\ row.offFinal = row.final
  BY <1>1, <1>2, <1>3
<1>12. ClassifyPostCutoverP0Candidate(row, t) = "REPAIRABLE"
  <2>1. effective = (IF row.channel = WalkIn THEN 0 ELSE t.bps)
    BY <1>3
  <2> HIDE DEF effective, final
  <2> QED
    BY <1>2, <1>3, <1>7, <1>8, <1>9, <1>10, <1>11, <2>1 DEF ClassifyPostCutoverP0Candidate, again
<1>13. /\ PolicySnapshot(p, t).bps = effective
       /\ PolicySnapshot(p, t).commission = CommissionAmount(final, effective)
       /\ PolicySnapshot(p, t).net = final - CommissionAmount(final, effective)
  BY <1>6 DEF PolicySnapshot
<1>14. ExpectedFees(row.final, effective).commission = CommissionAmount(final, effective)
  BY <1>3, <1>4 DEF ExpectedFees
<1>15. final - CommissionAmount(final, effective) + CommissionAmount(final, effective) = row.total
  BY <1>2, <1>3, <1>5
<1> HIDE DEF final, effective
<1> QED
  BY <1>12, <1>13, <1>14, <1>15 DEF row

\* The detector finds every booking the flow has priced repairable under its
\* own term, and would write the amounts the flow has written, for any prices
\* and rates (post_cutover_detector.go repeats the calculator's formula).
THEOREM DetectorAgreesCorrect == Spec => []DetectorAgreesWithPolicy
<1>1. PriceInv /\ ColumnsInv => DetectorAgreesWithPolicy
  <2> SUFFICES ASSUME PriceInv, ColumnsInv, NEW b \in Committed, snap[b] # None, snap[b].source = "POLICY"
               PROVE  \E t \in terms : /\ TermId(t) = snap[b].term
                           /\ ClassifyPostCutoverP0Candidate(book[b].row, t) = "REPAIRABLE"
                           /\ snap[b].commission = ExpectedFees(book[b].row.final, snap[b].bps).commission
                           /\ snap[b].net + snap[b].commission = book[b].row.total
    BY DEF DetectorAgreesWithPolicy
  <2>1. b \in Ids /\ snap[b] = book[b].fee
    BY DEF PriceInv, StoredInv, Committed
  <2>2. PICK p \in PolicyRequests, t \in terms :
               /\ CalculateBookingFees(p, t.bps) # None
               /\ book[b].row = PolicyRow(p) /\ snap[b] = PolicySnapshot(p, t)
    BY <2>1 DEF ColumnsInv, PricedAs
  <2>3. t.bps \in 0 .. MaxBps
    BY TermTyped DEF PriceInv
  <2>4. TermId(t) = snap[b].term
    BY <2>2 DEF PolicySnapshot
  <2> QED
    BY <2>2, <2>3, <2>4, Repairable
<1>2. Init => PriceInv /\ UnpricedInv /\ ColumnsInv
  BY PriceInit, ColumnsInit
<1>3. PriceInv /\ UnpricedInv /\ ColumnsInv /\ [Next]_vars => (PriceInv /\ UnpricedInv /\ ColumnsInv)'
  BY PriceStep, ColumnsStep DEF PriceInv
<1> QED
  BY <1>1, <1>2, <1>3, PTL DEF Spec


----------------------------------------------------------------------------
(***************************************************************************)
(* The backfill.  After the cutover no booking without a snapshot is added *)
(* (CutInv), so a run that has started at the beginning finds what its     *)
(* count has found: what it has processed and what is still bare are the   *)
(* reviewed count (CountInv).  The rows of a batch are bare and priceable  *)
(* until the batch is stored (BatchInv).                                   *)
(***************************************************************************)
Running == fill.pc \in {"scan", "batch"}

BegunInv == fill.pc # "idle" => cut # None

BatchInv == fill.pc = "batch" => \A b \in fill.batch :
               b \in Bare /\ CalculateLegacySnapshot(book[b].row) # None

CountInv == /\ fill.processed \in Nat /\ fill.expected \in Nat
            /\ (Running /\ fill.start = 0) => fill.processed + Cardinality(Bare) = fill.expected

FillInv == BegunInv /\ BatchInv /\ CountInv /\ BackfillComplete

LEMMA BareFinite == IsFiniteSet(Bare) /\ Cardinality(Bare) \in Nat
<1>1. Bare \in SUBSET Ids
  BY DEF Bare, Committed
<1>2. IsFiniteSet(Bare)
  BY <1>1, FS_Subset, ConstantsAssumption
<1> QED
  BY <1>2, FS_CardinalityType

LEMMA BareFiniteNext == (IsFiniteSet(Bare) /\ Cardinality(Bare) \in Nat)'
  BY BareFinite, PTL

LEMMA FillInit == Init => FillInv
<1> SUFFICES ASSUME Init PROVE FillInv
  OBVIOUS
<1> QED
  BY DEF Init, IdleFill, FillInv, BegunInv, BatchInv, CountInv, Running, BackfillComplete

\* Once there is a cutover, nothing but the backfill changes what is bare.
LEMMA BareFixed ==
    ASSUME TypeOK, CutInv, Tick \/ TermStep \/ BookingStep \/ CutoverStep \/ UNCHANGED vars, cut # None
    PROVE  /\ cut' # None /\ UNCHANGED fill /\ Bare' = Bare
           /\ \A b \in Bare : book'[b].row = book[b].row
<1>1. CASE BookingStep
  <2>1. PICK b \in Ids :
           \/ BeginBooking(b) \/ InsertBooking(b) \/ CheckSnapshot(b)
           \/ CommitBooking(b) \/ AbortBooking(b)
           \/ \E p \in PolicyRequests : PriceBooking(b, p)
           \/ \E row \in LegacyRows : InsertLegacy(b, row)
    BY <1>1 DEF BookingStep
  <2>2. book \in [Ids -> BookingTx] /\ snap \in [Ids -> Snapshot \cup {None}]
    BY DEF TypeOK
  <2>3. /\ UNCHANGED <<cut, fill>> /\ book[b].stage # "done"
        /\ \A c \in Ids \ {b} : book'[c] = book[c] /\ snap'[c] = snap[c]
    BY <2>1, <2>2 DEF BeginBooking, InsertBooking, CheckSnapshot, CommitBooking, AbortBooking, PriceBooking,
       InsertLegacy
  <2>4. b \notin Bare'
    <3>1. CASE CommitBooking(b)
      <4>1. book[b].fee # None /\ snap'[b] = book[b].fee
        BY <2>2, <3>1 DEF CommitBooking, CutInv, CheckedInv
      <4> QED
        BY <4>1 DEF Bare
    <3>2. CASE ~CommitBooking(b)
      <4>1. book'[b].stage # "done"
        BY <2>1, <2>2, <3>2 DEF BeginBooking, InsertBooking, CheckSnapshot, AbortBooking, PriceBooking,
           InsertLegacy, RolledBack, NoBooking, BookingTx
      <4> QED
        BY <4>1 DEF Bare, Committed
    <3> QED
      BY <3>1, <3>2
  <2> QED
    BY <2>3, <2>4 DEF Bare, Committed
<1>2. CASE Tick \/ TermStep \/ UNCHANGED vars
  <2>1. UNCHANGED <<book, snap, cut, fill>>
    BY <1>2 DEF Tick, TermStep, BeginTerm, RejectLive, ReplayTerm, LockScope, CommitTerm, FailTerm, vars
  <2> QED
    BY <2>1 DEF Bare, Committed
<1>3. CASE CutoverStep
  <2>1. UNCHANGED <<book, snap, fill>>
    BY <1>3 DEF CutoverStep, StartCutover, LockBookings, CommitCutover, FailCutover
  <2>2. cut' # None
    <3>1. \A x \in Time : x # None
      BY NoneAssumption, ConstantsAssumption DEF Time
    <3> QED
      BY <1>3, <3>1 DEF CutoverStep, StartCutover, LockBookings, CommitCutover, FailCutover, TypeOK
  <2> QED
    BY <2>1, <2>2 DEF Bare, Committed
<1> QED
  BY <1>1, <1>2, <1>3

\* The run that starts at the beginning counts everything that is bare.
LEMMA AllCandidates ==
    ASSUME TypeOK, CutInv, cut # None
    PROVE  Candidates(0) = Bare
<1>1. \A b \in Bare : b \in Nat \ {0}
  BY ConstantsAssumption DEF Bare, Committed
<1>2. \A b \in Bare : 0 < b
  BY <1>1
<1>3. \A b \in Bare : book[b].created < cut
  BY DEF CutInv, BareInv
<1> QED
  BY <1>2, <1>3 DEF Candidates

\* Storing a batch takes it out of what is bare, and nothing else.
LEMMA BatchStored ==
    ASSUME TypeOK, BatchInv, fill.pc = "batch", snap' = Filled, book' = book
    PROVE  /\ Bare' = Bare \ fill.batch
           /\ Cardinality(Bare') + Cardinality(fill.batch) = Cardinality(Bare)
           /\ Cardinality(fill.batch) \in Nat
<1>1. Bare' = Bare \ fill.batch
  <2>1. \A b \in Ids : snap'[b] = None <=> snap[b] = None /\ b \notin fill.batch
    BY DEF Filled, BatchInv, Bare
  <2> QED
    BY <2>1 DEF Bare, Committed
<1>2. fill.batch \in SUBSET Bare
  BY DEF BatchInv
<1>3. IsFiniteSet(fill.batch) /\ Cardinality(fill.batch) \in Nat
  BY <1>2, BareFinite, FS_Subset, FS_CardinalityType
<1> DEFINE left == Bare \ fill.batch
<1>4. IsFiniteSet(left) /\ Cardinality(left) \in Nat
  BY <1>1, BareFiniteNext
<1>5. Cardinality(left \cup fill.batch) =
         Cardinality(left) + Cardinality(fill.batch) - Cardinality(left \cap fill.batch)
  <2> HIDE DEF left
  <2> QED
    BY <1>3, <1>4, FS_Union
<1>6. left \cup fill.batch = Bare /\ left \cap fill.batch = {}
  BY <1>2
<1>7. Cardinality(left \cap fill.batch) = 0
  BY <1>6, FS_EmptySet
<1>8. Cardinality(Bare) = Cardinality(left) + Cardinality(fill.batch) - 0
  BY <1>5, <1>6, <1>7
<1>9. Cardinality(Bare') = Cardinality(left)
  BY <1>1
<1> HIDE DEF left
<1> QED
  BY <1>1, <1>3, <1>4, <1>8, <1>9

LEMMA FillStep == TypeOK /\ CutInv /\ FillInv /\ [Next]_vars => FillInv'
<1> SUFFICES ASSUME TypeOK, CutInv, FillInv, [Next]_vars PROVE FillInv'
  OBVIOUS
<1>0. DOMAIN fill = {"pc", "cursor", "batch", "expected", "processed", "start", "last"}
  BY DEF TypeOK, IdleFill
<1>1. ASSUME Tick \/ TermStep \/ BookingStep \/ CutoverStep \/ UNCHANGED vars
      PROVE  FillInv'
  <2>1. CASE fill.pc = "idle"
    <3>1. fill' = fill
      BY <1>1 DEF Tick, TermStep, BeginTerm, RejectLive, ReplayTerm, LockScope, CommitTerm, FailTerm,
         BookingStep, BeginBooking, InsertBooking, CheckSnapshot, CommitBooking,
         AbortBooking, PriceBooking, InsertLegacy, CutoverStep, StartCutover, LockBookings, CommitCutover,
         FailCutover, vars
    <3> QED
      BY <2>1, <3>1 DEF FillInv, BegunInv, BatchInv, CountInv, Running, BackfillComplete
  <2>2. CASE fill.pc # "idle"
    <3>1. cut # None
      BY <2>2 DEF FillInv, BegunInv
    <3>2. /\ cut' # None /\ UNCHANGED fill /\ Bare' = Bare
          /\ \A b \in Bare : book'[b].row = book[b].row
      BY <1>1, <3>1, BareFixed
    <3> QED
      BY <3>2 DEF FillInv, BegunInv, BatchInv, CountInv, Running, BackfillComplete
  <2> QED
    BY <2>1, <2>2
<1>2. CASE StartBackfill
  <2>1. PICK after \in {0, fill.last} :
           fill' = [pc |-> "scan", cursor |-> after, batch |-> {}, processed |-> 0,
                    expected |-> Cardinality(Candidates(after)), start |-> after, last |-> fill.last]
    BY <1>2 DEF StartBackfill
  <2>2. cut # None /\ UNCHANGED <<book, snap, cut>> /\ Bare' = Bare
    BY <1>2 DEF StartBackfill, Bare, Committed
  <2>3. Cardinality(Candidates(after)) \in Nat
    <3>1. Candidates(after) \in SUBSET Bare
      BY DEF Candidates
    <3> QED
      BY <3>1, BareFinite, FS_Subset, FS_CardinalityType
  <2>4. after = 0 => Cardinality(Candidates(after)) = Cardinality(Bare)
    BY <2>2, AllCandidates
  <2> QED
    BY <2>1, <2>2, <2>3, <2>4, BareFinite DEF FillInv, BegunInv, BatchInv, CountInv, Running, BackfillComplete
<1>3. CASE FetchBatch
  <2> DEFINE batch == FirstBatch(Candidates(fill.cursor))
  <2>1. /\ fill.pc = "scan" /\ UNCHANGED <<book, snap, cut>> /\ Bare' = Bare /\ cut # None
    BY <1>3 DEF FetchBatch, Bare, Committed, FillInv, BegunInv
  <2>2. CASE fill' = [fill EXCEPT !.pc = Finished(fill.processed)]
    <3>1. /\ fill'.processed = fill.processed /\ fill'.expected = fill.expected /\ fill'.start = fill.start
          /\ fill'.pc \in {"done", "failed"} /\ (fill'.pc = "done" => fill.processed = fill.expected)
      BY <1>0, <2>2 DEF Finished
    <3>2. (fill'.pc = "done" /\ fill.start = 0) => Bare = {}
      <4>1. fill.start = 0 => fill.processed + Cardinality(Bare) = fill.expected
        BY <2>1 DEF FillInv, CountInv, Running
      <4>2. (fill'.pc = "done" /\ fill.start = 0) => Cardinality(Bare) = 0
        BY <3>1, <4>1, BareFinite DEF FillInv, CountInv
      <4> QED
        BY <4>2, BareFinite, FS_EmptySet
    <3> QED
      BY <2>1, <3>1, <3>2 DEF FillInv, BegunInv, BatchInv, CountInv, Running, BackfillComplete
  <2>3. CASE fill' = [fill EXCEPT !.pc = "failed"]
    <3>1. /\ fill'.processed = fill.processed /\ fill'.expected = fill.expected /\ fill'.pc = "failed"
      BY <1>0, <2>3
    <3> QED
      BY <2>1, <3>1 DEF FillInv, BegunInv, BatchInv, CountInv, Running, BackfillComplete
  <2>4. CASE /\ fill' = [fill EXCEPT !.pc = "batch", !.batch = batch]
             /\ \A b \in batch : CalculateLegacySnapshot(book[b].row) # None
    <3>1. batch \subseteq Bare
      BY DEF FirstBatch, Candidates
    <3>2. /\ fill'.processed = fill.processed /\ fill'.expected = fill.expected /\ fill'.pc = "batch"
          /\ fill'.start = fill.start /\ fill'.batch = batch
      BY <1>0, <2>4
    <3> HIDE DEF batch
    <3> QED
      BY <2>1, <2>4, <3>1, <3>2 DEF FillInv, BegunInv, BatchInv, CountInv, Running, BackfillComplete
  <2> QED
    BY <1>3, <2>2, <2>3, <2>4 DEF FetchBatch
<1>4. CASE CommitBatch
  <2> DEFINE processed == fill.processed + Cardinality(fill.batch)
  <2>1. fill.pc = "batch" /\ UNCHANGED <<book, cut>> /\ snap' = Filled /\ cut # None
    BY <1>4 DEF CommitBatch, FillInv, BegunInv
  <2>2. /\ Cardinality(Bare') + Cardinality(fill.batch) = Cardinality(Bare)
        /\ Cardinality(fill.batch) \in Nat
    BY <2>1, BatchStored DEF FillInv
  <2>3. /\ fill'.processed = processed /\ fill'.expected = fill.expected /\ fill'.start = fill.start
        /\ fill'.pc \in {"scan", "done", "failed"} /\ (fill'.pc = "done" => processed = fill.expected)
    BY <1>0, <1>4 DEF CommitBatch, Finished
  <2>4. processed \in Nat /\ fill.expected \in Nat
    BY <2>2 DEF FillInv, CountInv
  <2>5. fill.start = 0 => processed + Cardinality(Bare') = fill.expected
    <3>1. fill.start = 0 => fill.processed + Cardinality(Bare) = fill.expected
      BY <2>1 DEF FillInv, CountInv, Running
    <3>2. fill.processed \in Nat
      BY DEF FillInv, CountInv
    <3> QED
      BY <2>2, <3>1, <3>2, BareFiniteNext
  <2> HIDE DEF processed
  <2>6. (fill'.pc = "done" /\ fill.start = 0) => Bare' = {}
    <3>1. (fill'.pc = "done" /\ fill.start = 0) => Cardinality(Bare') = 0
      BY <2>3, <2>4, <2>5, BareFiniteNext
    <3> QED
      BY <3>1, BareFiniteNext, FS_EmptySet
  <2> QED
    BY <2>1, <2>3, <2>4, <2>5, <2>6 DEF FillInv, BegunInv, BatchInv, CountInv, Running, BackfillComplete
<1>5. CASE LoseCommit \/ CrashBackfill
  <2>1. /\ cut' = cut /\ cut # None /\ fill' = [fill EXCEPT !.pc = "failed", !.batch = {}]
    BY <1>5 DEF LoseCommit, CrashBackfill, FillInv, BegunInv
  <2>2. fill'.pc = "failed" /\ fill'.processed = fill.processed /\ fill'.expected = fill.expected
    BY <1>0, <2>1
  <2> QED
    BY <2>1, <2>2 DEF FillInv, BegunInv, BatchInv, CountInv, Running, BackfillComplete
<1> QED
  BY <1>1, <1>2, <1>3, <1>4, <1>5 DEF Next, BackfillStep

\* A backfill that ends with the reviewed count and started at the beginning
\* has left nothing behind, for any bookings, batches, crashes and commits
\* whose outcome the runner has lost (cmd/backfill-platform-finance).
THEOREM BackfillCorrect == Spec => []BackfillComplete
<1>1. FillInv => BackfillComplete
  BY DEF FillInv
<1> QED
  BY <1>1, TypeInit, TypeStep, CutInit, CutStep, FillInit, FillStep, PTL DEF Spec

=============================================================================
