------------------------ MODULE OwnerWorkspaceProofs ------------------------
(***************************************************************************)
(* Proofs about OwnerWorkspace for any members, venues, requests and       *)
(* tokens: the tables keep their types (WorkInv), a replacement of venues  *)
(* grants its set, and only a request that ran beside it leaves another    *)
(* row (VenuesInv), an invited member keeps a link that works or a request *)
(* that is about to give one (InviteInv), and nothing is written without a *)
(* right to it (RightsInv).                                                *)
(***************************************************************************)
EXTENDS OwnerWorkspace, TLAPS

----------------------------------------------------------------------------
(* What a request at each point is about.                                  *)

Guarded == StaffRoutes \cup PermissionRoutes \cup AdminRoutes

\* Points of a handler behind its first write.
Noted == {"invite", "invited", "used", "activate", "answer"}

\* The kinds of request that reach a point of a handler, and who sends them.
StageFits(q) ==
    /\ q.pc = "idle" => q = Idle
    /\ q.pc # "idle" => q.kind \in Routes
    /\ q.kind \in StaffRoutes \cup PermissionRoutes => q.who \in Members \cup {"owner"}
    /\ q.kind \in AdminRoutes => q.who = "admin"
    /\ q.kind \in {"SETUP", "LOGIN"} => q.who = "public"
    /\ q.pc = "active" => q.kind \in Guarded
    /\ q.pc = "workspace" => q.kind \in StaffRoutes \cup PermissionRoutes
    /\ q.pc \in {"invalidate", "invite"} => q.kind \in {"REGENERATE", "RESET"}
    /\ q.pc = "invited" => q.kind = "REGENERATE"
    /\ q.pc \in {"password", "used", "activate"} => q.kind = "SETUP"
    /\ q.pc = "memberships" => q.kind = "LOGIN"
    /\ q.pc = "replace" => q.kind \in {"UPDATE", "VENUES"} /\ q.want \subseteq OwnVenues
    /\ q.pc = "status" => q.kind = "STATUS"
    /\ q.pc = "court" => q.kind = "NEW_COURT"
    /\ q.pc = "hours" => q.kind = "HOURS"
    /\ q.pc = "mutate" => q.kind \in AdminRoutes
    /\ q.pc = "answer" => q.kind \in StaffRoutes \cup AdminRoutes \cup {"SETUP"}
    /\ q.pc \in Noted => q.wrote

\* What a request under way carries.
CarriesFit(q) ==
    /\ q.kind \in StaffRoutes \cup {"SETUP", "LOGIN"} => q.of \in Members
    /\ q.tok \in Tokens => q.of \in Members
    /\ q.pc \notin {"idle", "done"} =>
          /\ q.kind \in PermissionRoutes \cup {"SUSPEND"} => q.venue \in Venues
          /\ q.kind = "STATUS" => q.to \in {"ACTIVE", "INACTIVE"}
          /\ q.kind = "OWNER_STATUS" => q.to \in {"ACTIVE", "SUSPENDED"}
          /\ q.kind = "SETUP" => q.tok \in Tokens /\ invite[q.tok].sent

\* A request that has made a link and not sent it yet: nobody else has it.
HoldsLink(q) == q.kind \in {"CREATE", "REGENERATE", "RESET"} /\ q.pc \in {"invited", "answer"}

Working == {"replace", "status", "invalidate", "invite", "invited", "password", "used", "activate"}

RequestFits(r) ==
    LET q == req[r] IN
    /\ StageFits(q) /\ CarriesFit(q)
    /\ q.tok \in Tokens => invite[q.tok].of = q.of
    /\ q.pc \in Working => member[q.of] # Absent
    /\ HoldsLink(q) =>
          /\ q.tok \in Tokens
          /\ invite[q.tok].purpose = PurposeOf(q.kind)
          /\ ~invite[q.tok].sent /\ ~invite[q.tok].used

\* A membership has a status, and a link a member.
MembersFit ==
    /\ \A m \in Members : member[m].status = "none" => member[m] = Absent
    /\ \A t \in Tokens : invite[t].of # None => member[invite[t].of] # Absent
    /\ \A t \in Tokens : invite[t].sent => invite[t].of # None

OwnLinks ==
    \A r, x \in Requests :
       HoldsLink(req[r]) /\ HoldsLink(req[x]) /\ req[r].tok = req[x].tok => r = x

WorkInv == TypeOK /\ (\A r \in Requests : RequestFits(r)) /\ MembersFit /\ OwnLinks

----------------------------------------------------------------------------
(* Requests.                                                               *)

LEMMA RoutesAre ==
    /\ PermissionRoutes = {"VENUE", "VENUE_STATUS", "NEW_COURT", "COURT", "COURT_STATUS", "HOURS"}
    /\ \A k \in Routes : k # "none"
  BY DEF PermissionRoutes, VenueRoutes, CourtRoutes, ScheduleRoutes, Routes, StaffRoutes, AdminRoutes

LEMMA IdleTyped == Idle \in RequestRow
<1>1. [v \in OwnVenues |-> None] \in AccessRows
  BY DEF AccessRows
<1> QED
  BY <1>1 DEF Idle, RequestRow, Routes, Actors, Pcs

LEMMA MovedTyped ==
    ASSUME NEW q \in RequestRow, NEW p \in Pcs
    PROVE  [q EXCEPT !.pc = p] \in RequestRow
  BY DEF RequestRow

\* What is kept of a request that ends without or with a write.
Ends(r, ans, logged) == {Over(r, ans, logged), [Over(r, ans, logged) EXCEPT !.wrote = TRUE]}

\* A request that ends, by an answer or a failure, fits whatever it changed.
LEMMA OverFits ==
    ASSUME TypeOK, NEW r \in Requests, RequestFits(r), InFlight(r),
           NEW ans \in Nat, NEW logged \in BOOLEAN,
           NEW q \in Ends(r, ans, logged)
    PROVE  /\ q \in RequestRow /\ q.pc = "done" /\ q.tok = None
           /\ q.kind = req[r].kind /\ q.of = req[r].of /\ q.who = req[r].who
           /\ q.rivals = req[r].rivals
           /\ req' = [req EXCEPT ![r] = q] => RequestFits(r)'
<1>1. req[r] \in RequestRow
  BY DEF TypeOK
<1>2. /\ q \in RequestRow /\ q.pc = "done" /\ q.tok = None
      /\ q.kind = req[r].kind /\ q.of = req[r].of /\ q.who = req[r].who
      /\ q.rivals = req[r].rivals
  <2>1. "done" \in Pcs
    BY DEF Pcs
  <2>2. Over(r, ans, logged) \in RequestRow
    BY <1>1, <2>1, IdleTyped DEF Over, RequestRow
  <2> DEFINE o == Over(r, ans, logged)
  <2>3. o \in RequestRow
    BY <2>2
  <2>4. /\ o.pc = "done" /\ o.tok = None
        /\ o.kind = req[r].kind /\ o.of = req[r].of /\ o.who = req[r].who
        /\ o.rivals = req[r].rivals
    BY DEF Over, Idle
  <2>5. q = o \/ q = [o EXCEPT !.wrote = TRUE]
    BY DEF Ends
  <2> HIDE DEF o
  <2> QED
    BY <2>3, <2>4, <2>5 DEF RequestRow
<1>3. ASSUME req' = [req EXCEPT ![r] = q] PROVE RequestFits(r)'
  <2>1. req'[r] = q
    BY <1>3 DEF TypeOK
  <2>2. q.tok \notin Tokens
    BY <1>2, WorkspaceAssumption
  <2>3. StageFits(q)
    BY <1>2 DEF RequestFits, StageFits, InFlight, Noted
  <2>4. CarriesFit(q)'
    BY <1>2, <2>2 DEF RequestFits, CarriesFit, InFlight
  <2> QED
    BY <2>1, <2>2, <2>3, <2>4, <1>2 DEF RequestFits, StageFits, CarriesFit, HoldsLink, Working
<1> QED
  BY <1>2, <1>3

----------------------------------------------------------------------------
(* Steps keep what requests rely on.                                       *)

\* Memberships stay, and a link keeps its member and its purpose.
DataKept ==
    /\ \A m \in Members : member[m] # Absent => member'[m] # Absent
    /\ \A t \in Tokens : invite[t].of # None =>
          /\ invite'[t].of = invite[t].of /\ invite'[t].purpose = invite[t].purpose
          /\ invite[t].sent => invite'[t].sent

\* A request that the step of another one leaves alone still fits.
LEMMA OthersFit ==
    ASSUME WorkInv, DataKept, NEW x \in Requests, req'[x] = req[x],
           HoldsLink(req[x]) => /\ invite'[req[x].tok].sent = invite[req[x].tok].sent
                                /\ invite'[req[x].tok].used = invite[req[x].tok].used
    PROVE  RequestFits(x)'
<1> DEFINE q == req[x]
<1>1. q \in RequestRow /\ RequestFits(x) /\ MembersFit
  BY DEF WorkInv, TypeOK
<1>2. q.tok \in Tokens => q.of \in Members /\ q.of # None /\ invite[q.tok].of = q.of
  BY <1>1, WorkspaceAssumption DEF RequestFits, CarriesFit
<1>3. StageFits(q)'
  BY <1>1 DEF RequestFits, StageFits
<1>4. CarriesFit(q)'
  BY <1>1, <1>2 DEF RequestFits, CarriesFit, DataKept
<1>5. q.tok \in Tokens => invite'[q.tok].of = q.of
  BY <1>2 DEF DataKept
<1>6. q.pc \in Working => member'[q.of] # Absent
  <2>1. q.pc \in Working => q.of \in Members
    BY <1>1 DEF RequestFits, StageFits, CarriesFit, Working, StaffRoutes
  <2> QED
    BY <1>1, <2>1 DEF RequestFits, DataKept
<1>7. HoldsLink(q) => /\ q.tok \in Tokens
                      /\ invite'[q.tok].purpose = PurposeOf(q.kind)
                      /\ ~invite'[q.tok].sent /\ ~invite'[q.tok].used
  BY <1>1, <1>2 DEF RequestFits, DataKept
<1> QED
  BY <1>3, <1>4, <1>5, <1>6, <1>7 DEF RequestFits, HoldsLink

LEMMA RequestStep ==
    ASSUME WorkInv, TypeOK', MembersFit', DataKept, NEW r \in Requests, NEW q,
           req' = [req EXCEPT ![r] = q], RequestFits(r)',
           HoldsLink(q) => (HoldsLink(req[r]) /\ q.tok = req[r].tok) \/ q.tok \in FreshTokens,
           \A x \in Requests \ {r} : HoldsLink(req[x]) =>
               /\ invite'[req[x].tok].sent = invite[req[x].tok].sent
               /\ invite'[req[x].tok].used = invite[req[x].tok].used
    PROVE  WorkInv'
<1>1. req'[r] = q /\ \A x \in Requests \ {r} : req'[x] = req[x]
  BY DEF WorkInv, TypeOK
<1>2. \A x \in Requests : RequestFits(x)'
  <2> SUFFICES ASSUME NEW x \in Requests, x # r PROVE RequestFits(x)'
    OBVIOUS
  <2> QED
    BY <1>1, OthersFit
<1>3. \A x \in Requests \ {r} : HoldsLink(req[x]) => req[x].tok \notin FreshTokens
  <2> SUFFICES ASSUME NEW x \in Requests \ {r}, HoldsLink(req[x]) PROVE req[x].tok \notin FreshTokens
    OBVIOUS
  <2>1. RequestFits(x)
    BY DEF WorkInv
  <2>2. req[x].tok \in Tokens /\ req[x].of \in Members /\ invite[req[x].tok].of = req[x].of
    BY <2>1 DEF RequestFits, CarriesFit
  <2> QED
    BY <2>2, WorkspaceAssumption DEF FreshTokens
<1>4. OwnLinks'
  <2> SUFFICES ASSUME NEW a \in Requests, NEW b \in Requests,
                      HoldsLink(req'[a]), HoldsLink(req'[b]), req'[a].tok = req'[b].tok
               PROVE  a = b
    BY DEF OwnLinks, HoldsLink
  <2>1. \A x, y \in Requests : HoldsLink(req[x]) /\ HoldsLink(req[y]) /\ req[x].tok = req[y].tok => x = y
    BY DEF WorkInv, OwnLinks
  <2> QED
    BY <1>1, <1>3, <2>1
<1> QED
  BY <1>2, <1>4 DEF WorkInv

\* The tables that no request relies on.
RestTyped ==
    /\ owner \in {"ACTIVE", "SUSPENDED"}
    /\ password \in [Members -> Requests \cup {None, "earlier"}]
    /\ session \subseteq {m \in Members : member[m] # Absent}
    /\ venue \in [Venues -> {"LISTED", "SUSPENDED"}]
    /\ content \in [Venues -> [Parts -> Requests \cup {None}]]
    /\ entitled \in [Requests -> SUBSET {"rights", "scope", "venue"}]

LEMMA EntitledTyped ==
    ASSUME TypeOK, Entitle
    PROVE  entitled' \in [Requests -> SUBSET {"rights", "scope", "venue"}]
<1> DEFINE gained(r) == Facets(req[r])'
<1>1. \A r \in Requests : gained(r) \subseteq {"rights", "scope", "venue"}
  BY Zenon DEF Facets
<1> HIDE DEF gained
<1>2. entitled' = [r \in Requests |-> IF ~InFlight(r)' THEN IF req'[r].wrote THEN entitled[r] ELSE {}
                                     ELSE entitled[r] \cup gained(r)]
  BY Zenon DEF Entitle, gained
<1> QED
  BY <1>1, <1>2 DEF TypeOK

\* Steps that neither change a membership nor a link.
LEMMA QuietStep ==
    ASSUME WorkInv, NEW r \in Requests, NEW q \in RequestRow, req' = [req EXCEPT ![r] = q],
           UNCHANGED <<load, member, access, invite, replaced>>, RestTyped', RequestFits(r)',
           HoldsLink(q) => HoldsLink(req[r]) /\ q.tok = req[r].tok
    PROVE  WorkInv'
<1>1. DataKept /\ MembersFit'
  BY DEF WorkInv, MembersFit, DataKept
<1>2. TypeOK'
  <2>1. req' \in [Requests -> RequestRow] /\ req'[r] = q /\ \A x \in Requests \ {r} : req'[x] = req[x]
    BY DEF WorkInv, TypeOK
  <2>2. \A x \in Requests : req'[x].tok \in Tokens => invite'[req'[x].tok].of = req'[x].of
    <3> SUFFICES ASSUME NEW x \in Requests PROVE req'[x].tok \in Tokens => invite'[req'[x].tok].of = req'[x].of
      OBVIOUS
    <3>1. CASE x = r
      BY <3>1 DEF RequestFits
    <3>2. CASE x # r
      BY <3>2, <2>1 DEF WorkInv, TypeOK
    <3> QED
      BY <3>1, <3>2
  <2> QED
    BY <2>1, <2>2 DEF WorkInv, TypeOK, RestTyped
<1> QED
  BY <1>1, <1>2, RequestStep


LEMMA CalmStep ==
    ASSUME WorkInv, Entitle, UNCHANGED <<load, account, estate>>
    PROVE  RestTyped' /\ UNCHANGED <<load, member, access, invite, replaced>>
<1>1. /\ member' = member /\ access' = access /\ password' = password /\ session' = session
      /\ invite' = invite /\ replaced' = replaced
      /\ owner' = owner /\ venue' = venue /\ content' = content /\ load' = load
  BY DEF account, estate
<1>2. entitled' \in [Requests -> SUBSET {"rights", "scope", "venue"}]
  BY EntitledTyped DEF WorkInv
<1> QED
  BY <1>1, <1>2 DEF WorkInv, TypeOK, RestTyped

\* A request ends, whatever tables it wrote beside the memberships and links.
LEMMA EndStep ==
    ASSUME WorkInv, RestTyped', UNCHANGED <<load, member, access, invite, replaced>>,
           NEW r \in Requests, InFlight(r), NEW ans \in Nat, NEW logged \in BOOLEAN,
           NEW q \in Ends(r, ans, logged),
           req' = [req EXCEPT ![r] = q]
    PROVE  WorkInv'
<1>1. TypeOK /\ RequestFits(r)
  BY DEF WorkInv
<1>2. q \in RequestRow /\ q.pc = "done" /\ RequestFits(r)'
  BY <1>1, OverFits
<1>3. ~HoldsLink(q)
  BY <1>2 DEF HoldsLink
<1> QED
  BY <1>2, <1>3, QuietStep

\* A request answers and changes nothing else.
LEMMA AnswerStep ==
    ASSUME WorkInv, Entitle, UNCHANGED <<load, account, estate>>,
           NEW r \in Requests, InFlight(r), NEW ans \in Nat, Answer(r, ans)
    PROVE  WorkInv'
<1>1. req' = [req EXCEPT ![r] = Over(r, ans, FALSE)]
  BY DEF Answer
<1>2. Over(r, ans, FALSE) \in Ends(r, ans, FALSE)
  BY DEF Ends
<1> QED
  BY <1>1, <1>2, CalmStep, EndStep

LEMMA RecordStep ==
    ASSUME WorkInv, Entitle, UNCHANGED <<load, account, estate>>,
           NEW r \in Requests, InFlight(r), NEW ans \in Nat, Record(r, ans)
    PROVE  WorkInv'
<1>1. PICK logged \in BOOLEAN : req' = [req EXCEPT ![r] = Over(r, ans, logged)]
  BY DEF Record
<1>2. Over(r, ans, logged) \in Ends(r, ans, logged)
  BY DEF Ends
<1> QED
  BY <1>1, <1>2, CalmStep, EndStep

\* A request goes on, by fields that nothing else depends on.
LEMMA GoStep ==
    ASSUME WorkInv, RestTyped', UNCHANGED <<load, member, access, invite, replaced>>,
           NEW r \in Requests, InFlight(r), NEW q \in RequestRow, req' = [req EXCEPT ![r] = q],
           q.kind = req[r].kind, q.who = req[r].who, q.of = req[r].of, q.venue = req[r].venue,
           q.to = req[r].to, q.tok = req[r].tok, q.want = req[r].want, q.pc \in Pcs \ {"idle"},
           StageFits(q), q.pc \in Working => member[q.of] # Absent, HoldsLink(q) => HoldsLink(req[r])
    PROVE  WorkInv'
<1>1. RequestFits(r) /\ req'[r] = q
  BY DEF WorkInv, TypeOK
<1>2. CarriesFit(q)'
  BY <1>1 DEF RequestFits, CarriesFit, InFlight
<1>3. StageFits(q)'
  BY DEF StageFits
<1>4. q.tok \in Tokens => invite'[q.tok].of = q.of
  BY <1>1 DEF RequestFits
<1>5. q.pc \in Working => member'[q.of] # Absent
  OBVIOUS
<1>6. HoldsLink(q) => /\ q.tok \in Tokens /\ invite'[q.tok].purpose = PurposeOf(q.kind)
                      /\ ~invite'[q.tok].sent /\ ~invite'[q.tok].used
  BY <1>1 DEF RequestFits
<1>7. RequestFits(r)'
  BY <1>1, <1>2, <1>3, <1>4, <1>5, <1>6 DEF RequestFits, HoldsLink
<1> QED
  BY <1>7, QuietStep

\* A request goes to its next point.
LEMMA MoveStep ==
    ASSUME WorkInv, Entitle, UNCHANGED <<load, account, estate>>,
           NEW r \in Requests, InFlight(r), NEW p \in Pcs \ {"idle", "invited", "answer"}, Goes(r, p),
           StageFits([req[r] EXCEPT !.pc = p]), p \in Working => member[req[r].of] # Absent
    PROVE  WorkInv'
<1> DEFINE q == [req[r] EXCEPT !.pc = p]
<1>1. req[r] \in RequestRow
  BY DEF WorkInv, TypeOK
<1>2. q \in RequestRow
  BY <1>1, MovedTyped
<1>3. /\ q.kind = req[r].kind /\ q.who = req[r].who /\ q.of = req[r].of /\ q.venue = req[r].venue
      /\ q.to = req[r].to /\ q.tok = req[r].tok /\ q.want = req[r].want /\ q.pc = p
  BY <1>1 DEF RequestRow
<1>4. req' = [req EXCEPT ![r] = q]
  BY DEF Goes
<1>5. ~HoldsLink(q)
  BY <1>3 DEF HoldsLink
<1>6. StageFits(q) /\ (q.pc \in Working => member[q.of] # Absent) /\ q.pc \in Pcs \ {"idle"}
  BY <1>3
<1>7. RestTyped' /\ UNCHANGED <<load, member, access, invite, replaced>>
  BY CalmStep
<1> HIDE DEF q
<1> QED
  BY <1>2, <1>3, <1>4, <1>5, <1>6, <1>7, GoStep


----------------------------------------------------------------------------
(* Requests arrive and are let in.                                         *)

LEMMA PointsAre ==
    {"active", "workspace", "begin", "invalidate", "invite", "invited", "answer", "password", "used",
     "activate", "memberships", "replace", "status", "court", "hours", "mutate", "done"} \subseteq Pcs
  BY DEF Pcs

\* A request to which nothing has happened yet.
Bare(in) == in \in RequestRow /\ in.ctx = {} /\ ~in.wrote /\ in.ans = 0

\* What an input carries, whatever the route.
InputFits(k, in) ==
    /\ Bare(in)
    /\ k \in StaffRoutes \cup {"SETUP", "LOGIN"} => in.of \in Members
    /\ in.tok \in Tokens => k = "SETUP"
    /\ k \in PermissionRoutes \cup {"SUSPEND"} => in.venue \in Venues
    /\ k = "STATUS" => in.to \in {"ACTIVE", "INACTIVE"}
    /\ k = "OWNER_STATUS" => in.to \in {"ACTIVE", "SUSPENDED"}
    /\ k = "SETUP" => in.tok \in Tokens /\ invite[in.tok].sent /\ invite[in.tok].of = in.of

LEMMA StaffInputTyped ==
    ASSUME NEW m \in Members, NEW w \in SUBSET Venues, NEW p \in SUBSET Permissions,
           NEW to \in {"none", "ACTIVE", "INACTIVE"}, NEW in, in = StaffInput(m, w, p, to)
    PROVE  Bare(in) /\ in.of = m /\ in.to = to /\ in.tok = None
<1>1. in \in RequestRow
  BY IdleTyped DEF StaffInput, RequestRow
<1> QED
  BY <1>1 DEF StaffInput, Idle, Bare

LEMMA VenueInputTyped ==
    ASSUME NEW v \in Venues, NEW in, in = VenueInput(v)
    PROVE  Bare(in) /\ in.venue = v /\ in.tok = None
<1>1. in \in RequestRow
  BY IdleTyped DEF VenueInput, RequestRow
<1> QED
  BY <1>1 DEF VenueInput, Idle, Bare

LEMMA AdminInputTyped ==
    ASSUME NEW v \in Venues \cup {None}, NEW to \in {"none", "ACTIVE", "SUSPENDED"},
           NEW l \in BOOLEAN, NEW in, in = AdminInput(v, to, l)
    PROVE  Bare(in) /\ in.venue = v /\ in.to = to /\ in.tok = None
<1>1. in \in RequestRow
  BY IdleTyped DEF AdminInput, RequestRow
<1> QED
  BY <1>1 DEF AdminInput, Idle, Bare

LEMMA LinkInputTyped ==
    ASSUME NEW m \in Members, NEW t \in Tokens \cup Requests, NEW in, in = LinkInput(m, t)
    PROVE  Bare(in) /\ in.of = m /\ in.tok = t
<1>1. in \in RequestRow
  BY IdleTyped DEF LinkInput, RequestRow
<1> QED
  BY <1>1 DEF LinkInput, Idle, Bare

LEMMA InputsOf ==
    ASSUME NEW k \in Routes, NEW in \in Inputs(k)
    PROVE  /\ k \in {"CREATE", "UPDATE"} =>
                 \E m \in Members, w \in VenueSets, p \in PermSets : in = StaffInput(m, w, p, "none")
           /\ k \in {"REGENERATE", "RESET"} => \E m \in Members : in = StaffInput(m, {}, {}, "none")
           /\ k \in PermissionRoutes => \E v \in load.at : in = VenueInput(v)
<1>1. CASE k = "CREATE"
  BY <1>1, RoutesAre DEF Inputs
<1>2. CASE k = "UPDATE"
  BY <1>2, RoutesAre DEF Inputs
<1>3. CASE k = "REGENERATE"
  BY <1>3, RoutesAre DEF Inputs
<1>4. CASE k = "RESET"
  BY <1>4, RoutesAre DEF Inputs
<1>5. CASE k = "VENUE"
  BY <1>5, RoutesAre DEF Inputs
<1>6. CASE k = "VENUE_STATUS"
  BY <1>6, RoutesAre DEF Inputs
<1>7. CASE k = "NEW_COURT"
  BY <1>7, RoutesAre DEF Inputs
<1>8. CASE k = "COURT"
  BY <1>8, RoutesAre DEF Inputs
<1>9. CASE k = "COURT_STATUS"
  BY <1>9, RoutesAre DEF Inputs
<1>10. CASE k = "HOURS"
  BY <1>10, RoutesAre DEF Inputs
<1> QED
  BY <1>1, <1>2, <1>3, <1>4, <1>5, <1>6, <1>7, <1>8, <1>9, <1>10, RoutesAre

LEMMA InputsFit ==
    ASSUME WorkInv, NEW k \in Routes, NEW in \in Inputs(k)
    PROVE  InputFits(k, in)
<1>1. None \notin Tokens /\ Requests \cap Tokens = {}
  BY WorkspaceAssumption
<1>2. load.at \subseteq Venues
  BY DEF WorkInv, TypeOK, Load
<1>3. VenueSets \subseteq SUBSET Venues /\ PermSets \subseteq SUBSET Permissions
  BY WorkspaceAssumption
<1>4. CASE k \in {"CREATE", "UPDATE"}
  <2>1. PICK m \in Members, w \in VenueSets, p \in PermSets : in = StaffInput(m, w, p, "none")
    BY <1>4, InputsOf
  <2>2. w \in SUBSET Venues /\ p \in SUBSET Permissions
    BY <2>1, <1>2, <1>3
  <2>3. Bare(in) /\ in.tok = None /\ in.of = m
    BY <2>1, <2>2, StaffInputTyped
  <2> QED
    BY <2>1, <2>2, <2>3, <1>4, <1>1, RoutesAre DEF InputFits, StaffRoutes
<1>5. CASE k = "VENUES"
  <2>1. PICK m \in Members, w \in VenueSets : in = StaffInput(m, w, {}, "none")
    BY <1>5, RoutesAre DEF Inputs
  <2>2. w \in SUBSET Venues /\ {} \in SUBSET Permissions
    BY <2>1, <1>2, <1>3
  <2>3. Bare(in) /\ in.tok = None /\ in.of = m
    BY <2>1, <2>2, StaffInputTyped
  <2> QED
    BY <2>1, <2>2, <2>3, <1>5, <1>1, RoutesAre DEF InputFits, StaffRoutes
<1>6. CASE k = "STATUS"
  <2>1. PICK m \in Members, to \in {"ACTIVE", "INACTIVE"} : in = StaffInput(m, {}, {}, to)
    BY <1>6, RoutesAre DEF Inputs
  <2>2. {} \in SUBSET Venues /\ {} \in SUBSET Permissions /\ to \in {"none", "ACTIVE", "INACTIVE"}
    BY <2>1, <1>2, <1>3
  <2>3. Bare(in) /\ in.tok = None /\ in.of = m /\ in.to = to
    BY <2>1, <2>2, StaffInputTyped
  <2> QED
    BY <2>1, <2>2, <2>3, <1>6, <1>1, RoutesAre DEF InputFits, StaffRoutes
<1>7. CASE k \in {"REGENERATE", "RESET"}
  <2>1. PICK m \in Members : in = StaffInput(m, {}, {}, "none")
    BY <1>7, InputsOf
  <2>2. {} \in SUBSET Venues /\ {} \in SUBSET Permissions
    BY <2>1, <1>2, <1>3
  <2>3. Bare(in) /\ in.tok = None /\ in.of = m
    BY <2>1, <2>2, StaffInputTyped
  <2> QED
    BY <2>1, <2>2, <2>3, <1>7, <1>1, RoutesAre DEF InputFits, StaffRoutes
<1>8. CASE k \in PermissionRoutes
  <2>1. PICK v \in load.at : in = VenueInput(v)
    BY <1>8, InputsOf
  <2>2. v \in Venues
    BY <2>1, <1>2, <1>3
  <2>3. Bare(in) /\ in.tok = None /\ in.venue = v
    BY <2>1, <2>2, VenueInputTyped
  <2> QED
    BY <2>1, <2>2, <2>3, <1>8, <1>1, RoutesAre DEF InputFits, StaffRoutes
<1>9. CASE k = "OWNER_STATUS"
  <2>1. PICK to \in {"ACTIVE", "SUSPENDED"}, l \in BOOLEAN : in = AdminInput(None, to, l)
    BY <1>9, RoutesAre DEF Inputs
  <2>2. to \in {"none", "ACTIVE", "SUSPENDED"} /\ None \in Venues \cup {None}
    BY <2>1, <1>2, <1>3
  <2>3. Bare(in) /\ in.tok = None /\ in.to = to
    BY <2>1, <2>2, AdminInputTyped
  <2> QED
    BY <2>1, <2>2, <2>3, <1>9, <1>1, RoutesAre DEF InputFits, StaffRoutes
<1>10. CASE k = "SUSPEND"
  <2>1. PICK v \in load.at, to \in {"ACTIVE", "SUSPENDED"}, l \in BOOLEAN : in = AdminInput(v, to, l)
    BY <1>10, RoutesAre DEF Inputs
  <2>2. v \in Venues /\ to \in {"none", "ACTIVE", "SUSPENDED"}
    BY <2>1, <1>2, <1>3
  <2>3. Bare(in) /\ in.tok = None /\ in.venue = v
    BY <2>1, <2>2, AdminInputTyped
  <2> QED
    BY <2>1, <2>2, <2>3, <1>10, <1>1, RoutesAre DEF InputFits, StaffRoutes
<1>11. CASE k = "SETUP"
  <2>1. PICK t \in Tokens : invite[t].sent /\ in = LinkInput(invite[t].of, t)
    BY <1>11, RoutesAre DEF Inputs
  <2>2. invite[t].of \in Members
    BY <2>1, <1>2, <1>3 DEF WorkInv, MembersFit, TypeOK, InviteRow
  <2>3. Bare(in) /\ in.tok = t /\ in.of = invite[t].of
    BY <2>1, <2>2, LinkInputTyped
  <2> QED
    BY <2>1, <2>2, <2>3, <1>11, <1>1, RoutesAre DEF InputFits, StaffRoutes
<1>12. CASE k = "LOGIN"
  <2>1. PICK x \in Requests : req[x].kind = "SETUP" /\ in = LinkInput(req[x].of, x)
    BY <1>12, RoutesAre DEF Inputs
  <2>2. req[x].of \in Members
    BY <2>1, <1>2, <1>3 DEF WorkInv, RequestFits, CarriesFit
  <2>3. Bare(in) /\ in.tok = x /\ in.of = req[x].of
    BY <2>1, <2>2, LinkInputTyped
  <2> QED
    BY <2>1, <2>2, <2>3, <1>12, <1>1, RoutesAre DEF InputFits, StaffRoutes
<1> QED
  BY <1>4, <1>5, <1>6, <1>7, <1>8, <1>9, <1>10, <1>11, <1>12 DEF Routes, StaffRoutes, AdminRoutes

\* What a request is when it has arrived.
LEMMA Arrived ==
    ASSUME WorkInv, NEW r \in Requests, Arrive(r)
    PROVE  \E k \in Routes, in \in RequestRow, rv \in SUBSET Requests, a \in Actors :
              /\ InputFits(k, in)
              /\ Auth(k, a)
              /\ req' = [req EXCEPT ![r] =
                   [in EXCEPT !.kind = k, !.who = a, !.pc = IF a = "public" THEN "begin" ELSE "active",
                              !.rivals = rv]]
              /\ rv = {x \in Requests : InFlight(x) /\ req[x].kind \in Rivals(k) /\ req[x].of = in.of}
<1>1. PICK k \in load.kinds : \E a \in {x \in Actors : Auth(k, x)}, in \in Inputs(k) :
          req' = [req EXCEPT ![r] =
             [in EXCEPT !.kind = k, !.who = a, !.pc = IF a = "public" THEN "begin" ELSE "active",
                        !.rivals = {x \in Requests : InFlight(x) /\ req[x].kind \in Rivals(k) /\ req[x].of = in.of}]]
  BY DEF Arrive
<1>8. PICK a \in {x \in Actors : Auth(k, x)}, in \in Inputs(k) :
          req' = [req EXCEPT ![r] =
             [in EXCEPT !.kind = k, !.who = a, !.pc = IF a = "public" THEN "begin" ELSE "active",
                        !.rivals = {x \in Requests : InFlight(x) /\ req[x].kind \in Rivals(k) /\ req[x].of = in.of}]]
  BY <1>1
<1> DEFINE rv == {x \in Requests : InFlight(x) /\ req[x].kind \in Rivals(k) /\ req[x].of = in.of}
<1>2. k \in Routes
  BY DEF WorkInv, TypeOK, Load
<1>3. InputFits(k, in)
  BY <1>2, InputsFit
<1>4. in \in RequestRow
  BY <1>3 DEF InputFits, Bare
<1>5. rv \in SUBSET Requests
  OBVIOUS
<1>6. req' = [req EXCEPT ![r] =
             [in EXCEPT !.kind = k, !.who = a, !.pc = IF a = "public" THEN "begin" ELSE "active",
                        !.rivals = rv]]
  BY <1>8
<1>7. rv = {x \in Requests : InFlight(x) /\ req[x].kind \in Rivals(k) /\ req[x].of = in.of}
  OBVIOUS
<1> HIDE DEF rv
<1> QED
  BY <1>2, <1>3, <1>4, <1>5, <1>6, <1>7


LEMMA ArriveWorks ==
    ASSUME WorkInv, Entitle, NEW r \in Requests, Arrive(r)
    PROVE  WorkInv'
<1>1. PICK k \in Routes, in \in RequestRow, rv \in SUBSET Requests, a \in Actors :
          /\ InputFits(k, in)
          /\ Auth(k, a)
          /\ req' = [req EXCEPT ![r] =
               [in EXCEPT !.kind = k, !.who = a, !.pc = IF a = "public" THEN "begin" ELSE "active",
                          !.rivals = rv]]
          /\ rv = {x \in Requests : InFlight(x) /\ req[x].kind \in Rivals(k) /\ req[x].of = in.of}
  BY Arrived, Zenon
<1> DEFINE q == [in EXCEPT !.kind = k, !.who = a, !.pc = IF a = "public" THEN "begin" ELSE "active",
                           !.rivals = rv]
<1>2. q \in RequestRow
  BY PointsAre DEF RequestRow
<1>3. /\ q.kind = k /\ q.who = a /\ q.of = in.of /\ q.venue = in.venue /\ q.to = in.to /\ q.tok = in.tok
      /\ q.pc = IF a = "public" THEN "begin" ELSE "active"
  BY DEF RequestRow
<1> HIDE DEF q
<1>4. /\ k \in StaffRoutes \cup PermissionRoutes => a \in Members \cup {"owner"}
      /\ k \in AdminRoutes => a = "admin"
      /\ k \in {"SETUP", "LOGIN"} => a = "public"
      /\ a = "public" => k \in {"SETUP", "LOGIN"}
  <2>1. session \subseteq Members /\ "public" \notin Members
    BY WorkspaceAssumption DEF WorkInv, TypeOK
  <2>2. StaffRoutes = {"CREATE", "UPDATE", "STATUS", "VENUES", "REGENERATE", "RESET"}
        /\ AdminRoutes = {"OWNER_STATUS", "SUSPEND"}
    BY DEF StaffRoutes, AdminRoutes
  <2>3. CASE k \in StaffRoutes \cup PermissionRoutes
    <3>1. a = "owner" \/ a \in session
      BY <1>1, <2>3, <2>2, RoutesAre DEF Auth
    <3> QED
      BY <3>1, <2>1, <2>2, <2>3, RoutesAre
  <2>4. CASE k \in AdminRoutes
    <3>1. a = "admin"
      BY <1>1, <2>4, <2>2, RoutesAre DEF Auth
    <3> QED
      BY <3>1, <2>2, <2>4, RoutesAre
  <2>5. CASE k \in {"SETUP", "LOGIN"}
    <3>1. a = "public"
      BY <1>1, <2>5, <2>2, RoutesAre DEF Auth
    <3> QED
      BY <3>1, <2>2, <2>5, RoutesAre
  <2> QED
    BY <2>3, <2>4, <2>5 DEF Routes
<1>5. StageFits(q)
  BY <1>3, <1>4 DEF StageFits, Guarded, Routes, Noted
<1>6. RestTyped' /\ UNCHANGED <<load, member, access, invite, replaced>>
  BY CalmStep DEF Arrive
<1>7. req'[r] = q
  BY <1>1 DEF q, WorkInv, TypeOK
<1>8. RequestFits(r)'
  <2>1. q.tok \in Tokens => q.of \in Members /\ invite[q.tok].of = q.of /\ invite[q.tok].sent
    BY <1>1, <1>3 DEF InputFits
  <2>2. CarriesFit(q)'
    BY <1>1, <1>3, <1>6 DEF CarriesFit, InputFits, PermissionRoutes
  <2>3. q.pc \notin Working /\ ~HoldsLink(q)
    BY <1>3 DEF Working, HoldsLink
  <2> QED
    BY <1>5, <1>6, <1>7, <2>1, <2>2, <2>3 DEF RequestFits, StageFits, HoldsLink
<1>9. ~HoldsLink(q) /\ req' = [req EXCEPT ![r] = q]
  BY <1>1, <1>3 DEF HoldsLink, q
<1> QED
  BY <1>2, <1>6, <1>8, <1>9, QuietStep


\* Steps that only read the tables: the request goes on, or is refused.
CheckStep(r) ==
    \/ RequireActiveUser(r) \/ OwnerWorkspaceAccess(r) \/ RegenerateInvite(r) \/ ResetPasswordToken(r)
    \/ SetupPassword(r) \/ Login(r) \/ UpdateStaff(r) \/ UpdateVenues(r) \/ FindOldStatus(r)
    \/ CreateCourt(r) \/ FindOwnedCourt(r) \/ DeadlinePasses(r) \/ StartAdmin(r)

LEMMA AnswersNat ==
    /\ {403, 404, 408, 409, 400, 401, 500, 200, 201} \subseteq Nat
    /\ {UpdateStaffAnswer.StaffNotFound, UpdateStaffAnswer.InvalidVenueAccess, UpdateStaffAnswer.OK,
        UpdateStaffAnswer.PhoneAlreadyUsed, UpdateStatusAnswer.StaffNotFound, UpdateStatusAnswer.OK,
        UpdateVenuesAnswer.StaffNotFound, UpdateVenuesAnswer.InvalidVenueAccess, UpdateVenuesAnswer.Other,
        UpdateVenuesAnswer.OK, RegenerateInviteAnswer.StaffNotFound, RegenerateInviteAnswer.AlreadyActive,
        RegenerateInviteAnswer.OK, ResetPasswordAnswer.StaffNotFound, ResetPasswordAnswer.NotActive,
        ResetPasswordAnswer.OK, SetupPasswordAnswer.InvalidToken, SetupPasswordAnswer.OK,
        LoginAnswer.InvalidCredential, LoginAnswer.OK, CreateStaffAnswer.InvalidVenueAccess,
        CreateStaffAnswer.EmailAlreadyUsed, CreateStaffAnswer.OK, respondVenueError.VenueNotFound,
        respondCourtError.VenueNotFound, respondCourtError.CourtNotFound,
        respondScheduleError.CourtNotFound} \subseteq Nat
  BY DEF UpdateStaffAnswer, UpdateStatusAnswer, UpdateVenuesAnswer, RegenerateInviteAnswer,
         ResetPasswordAnswer, SetupPasswordAnswer, LoginAnswer, CreateStaffAnswer, respondVenueError,
         respondCourtError, respondScheduleError

\* Where a request can go from where it is.
MovesTo(q, p) ==
    \/ p = "begin"
    \/ p = "workspace" /\ q.kind \in StaffRoutes \cup PermissionRoutes
    \/ p \in {"invalidate", "invite"} /\ q.kind \in {"REGENERATE", "RESET"}
    \/ p = "invited" /\ q.kind = "REGENERATE"
    \/ p \in {"password", "used", "activate"} /\ q.kind = "SETUP"
    \/ p = "memberships" /\ q.kind = "LOGIN"
    \/ p = "status" /\ q.kind = "STATUS"
    \/ p = "court" /\ q.kind = "NEW_COURT"
    \/ p = "hours" /\ q.kind = "HOURS"
    \/ p = "mutate" /\ q.kind \in AdminRoutes
    \/ p = "answer" /\ q.kind \in StaffRoutes \cup AdminRoutes \cup {"SETUP"}

LEMMA StageMoves ==
    ASSUME NEW q \in RequestRow, StageFits(q), q.pc # "idle", NEW p, MovesTo(q, p), p \in Noted => q.wrote
    PROVE  StageFits([q EXCEPT !.pc = p])
<1> DEFINE n == [q EXCEPT !.pc = p]
<1>1. n.pc = p /\ n.kind = q.kind /\ n.who = q.who /\ n.want = q.want /\ n.wrote = q.wrote
  BY DEF RequestRow
<1>2. q.kind \in Routes
  BY DEF StageFits
<1> HIDE DEF n
<1>3. StageFits(n)
  BY <1>1, <1>2 DEF StageFits, MovesTo
<1> QED
  BY <1>3 DEF n

LEMMA ChecksWork ==
    ASSUME WorkInv, Entitle, NEW r \in Requests, CheckStep(r)
    PROVE  WorkInv'
<1>1. req[r] \in RequestRow /\ RequestFits(r) /\ StageFits(req[r])
  BY DEF WorkInv, TypeOK, RequestFits
<1>2. \A ans \in Nat : InFlight(r) /\ Answer(r, ans) /\ UNCHANGED <<load, account, estate>> => WorkInv'
  BY AnswerStep
<1>3. CASE RequireActiveUser(r)
  <2>1. InFlight(r) /\ req[r].pc = "active" /\ UNCHANGED <<load, account, estate>>
    BY <1>3 DEF RequireActiveUser, InFlight
  <2>2. CASE Answer(r, 403)
    BY <2>1, <2>2, <1>2, AnswersNat
  <2>3. CASE req[r].who = "admin" /\ Goes(r, "begin")
    <3>1. StageFits([req[r] EXCEPT !.pc = "begin"])
      BY <1>1, <2>1, StageMoves DEF MovesTo, Noted
    <3> QED
      BY <3>1, <2>1, <2>3, PointsAre, MoveStep DEF Working
  <2>4. CASE req[r].who # "admin" /\ Goes(r, "workspace")
    <3>1. StageFits([req[r] EXCEPT !.pc = "workspace"])
      BY <1>1, <2>1, <2>4, StageMoves DEF StageFits, Guarded, MovesTo, Noted
    <3> QED
      BY <3>1, <2>1, <2>4, PointsAre, MoveStep DEF Working
  <2> QED
    BY <1>3, <2>2, <2>3, <2>4 DEF RequireActiveUser
<1>4. CASE OwnerWorkspaceAccess(r)
  <2>1. InFlight(r) /\ req[r].pc = "workspace" /\ UNCHANGED <<load, account, estate>>
    BY <1>4 DEF OwnerWorkspaceAccess, InFlight
  <2>2. CASE Answer(r, 403)
    BY <2>1, <2>2, <1>2, AnswersNat
  <2>3. ASSUME NEW ctx \in SUBSET Venues, req' = [req EXCEPT ![r].pc = "begin", ![r].ctx = ctx]
        PROVE  WorkInv'
    <3> DEFINE b == [req[r] EXCEPT !.pc = "begin"]
               q == [b EXCEPT !.ctx = ctx]
    <3>1. b \in RequestRow /\ StageFits(b)
      BY <1>1, <2>1, MovedTyped, PointsAre, StageMoves DEF MovesTo, Noted
    <3>2. req' = [req EXCEPT ![r] = q]
      BY <2>3
    <3>3. /\ b.kind = req[r].kind /\ b.who = req[r].who /\ b.of = req[r].of /\ b.venue = req[r].venue
          /\ b.to = req[r].to /\ b.tok = req[r].tok /\ b.want = req[r].want /\ b.pc = "begin"
      BY <1>1 DEF RequestRow
    <3> HIDE DEF b
    <3>4. /\ q \in RequestRow
          /\ q.kind = b.kind /\ q.who = b.who /\ q.of = b.of /\ q.venue = b.venue
          /\ q.to = b.to /\ q.tok = b.tok /\ q.want = b.want /\ q.pc = b.pc
      BY <3>1 DEF RequestRow
    <3> HIDE DEF q
    <3>5. StageFits(q) /\ q.pc \notin Working /\ ~HoldsLink(q) /\ q.pc \in Pcs \ {"idle"}
      BY <3>1, <3>3, <3>4, PointsAre DEF StageFits, Working, HoldsLink, Noted
    <3>6. RestTyped' /\ UNCHANGED <<load, member, access, invite, replaced>>
      BY <2>1, CalmStep
    <3> QED
      BY <2>1, <3>2, <3>3, <3>4, <3>5, <3>6, GoStep
  <2>5. (IF req[r].who = "owner" THEN Venues ELSE GetStaffContext(req[r].who).venues) \in SUBSET Venues
    BY WorkspaceAssumption DEF GetStaffContext, VenuesOf
  <2> QED
    BY <1>4, <2>2, <2>3, <2>5 DEF OwnerWorkspaceAccess
<1>5. CASE RegenerateInvite(r) \/ ResetPasswordToken(r)
  <2>1. /\ InFlight(r) /\ req[r].pc = "begin" /\ UNCHANGED <<load, account, estate>>
        /\ req[r].kind \in {"REGENERATE", "RESET"}
    BY <1>5 DEF RegenerateInvite, ResetPasswordToken, InFlight
  <2>2. CASE \E ans \in Nat : Answer(r, ans)
    BY <2>1, <2>2, <1>2
  <2>3. CASE member[req[r].of] # Absent /\ Goes(r, "invalidate")
    <3>1. StageFits([req[r] EXCEPT !.pc = "invalidate"])
      BY <1>1, <2>1, StageMoves DEF MovesTo, Noted
    <3> QED
      BY <3>1, <2>1, <2>3, PointsAre, MoveStep
  <2> QED
    BY <1>5, <2>2, <2>3, AnswersNat DEF RegenerateInvite, ResetPasswordToken
<1>6. CASE SetupPassword(r)
  <2>1. InFlight(r) /\ req[r].pc = "begin" /\ UNCHANGED <<load, account, estate>> /\ req[r].kind = "SETUP"
    BY <1>6 DEF SetupPassword, InFlight
  <2>2. CASE Answer(r, SetupPasswordAnswer.InvalidToken)
    BY <2>1, <2>2, <1>2, AnswersNat
  <2>3. CASE Goes(r, "password")
    <3>1. StageFits([req[r] EXCEPT !.pc = "password"])
      BY <1>1, <2>1, StageMoves DEF MovesTo, Noted
    <3>2. req[r].tok \in Tokens /\ invite[req[r].tok].of = req[r].of /\ req[r].of \in Members
      BY <1>1, <2>1 DEF RequestFits, CarriesFit
    <3>3. member[req[r].of] # Absent
      BY <3>2, WorkspaceAssumption DEF WorkInv, MembersFit
    <3> QED
      BY <3>1, <3>3, <2>1, <2>3, PointsAre, MoveStep
  <2> QED
    BY <1>6, <2>2, <2>3 DEF SetupPassword
<1>7. CASE Login(r)
  <2>1. InFlight(r) /\ req[r].pc = "begin" /\ UNCHANGED <<load, account, estate>> /\ req[r].kind = "LOGIN"
    BY <1>7 DEF Login, InFlight
  <2>2. CASE Answer(r, LoginAnswer.InvalidCredential)
    BY <2>1, <2>2, <1>2, AnswersNat
  <2>3. CASE Goes(r, "memberships")
    <3>1. StageFits([req[r] EXCEPT !.pc = "memberships"])
      BY <1>1, <2>1, StageMoves DEF MovesTo, Noted
    <3> QED
      BY <3>1, <2>1, <2>3, PointsAre, MoveStep DEF Working
  <2> QED
    BY <1>7, <2>2, <2>3 DEF Login
<1>8. CASE UpdateStaff(r) \/ UpdateVenues(r)
  <2>1. /\ InFlight(r) /\ req[r].pc = "begin" /\ UNCHANGED <<load, account, estate>>
        /\ req[r].kind \in {"UPDATE", "VENUES"}
    BY <1>8 DEF UpdateStaff, UpdateVenues, InFlight
  <2>2. CASE \E ans \in Nat : Answer(r, ans)
    BY <2>1, <2>2, <1>2
  <2>3. CASE member[req[r].of] # Absent /\ req[r].want \subseteq OwnVenues /\ StartReplacing(r)
    <3> DEFINE b == [req[r] EXCEPT !.pc = "replace"]
               q == [b EXCEPT !.saw = access[req[r].of]]
    <3>1. req[r].of \in Members
      BY <1>1, <2>1 DEF RequestFits, CarriesFit, StaffRoutes
    <3>2. access[req[r].of] \in AccessRows
      BY <3>1 DEF WorkInv, TypeOK
    <3>3. b \in RequestRow
      BY <1>1, MovedTyped, PointsAre
    <3>4. req' = [req EXCEPT ![r] = q]
      BY <2>3 DEF StartReplacing
    <3>5. /\ b.kind = req[r].kind /\ b.who = req[r].who /\ b.of = req[r].of /\ b.venue = req[r].venue
          /\ b.to = req[r].to /\ b.tok = req[r].tok /\ b.want = req[r].want /\ b.pc = "replace"
      BY <1>1 DEF RequestRow
    <3> HIDE DEF b
    <3>6. /\ q \in RequestRow
          /\ q.kind = b.kind /\ q.who = b.who /\ q.of = b.of /\ q.venue = b.venue
          /\ q.to = b.to /\ q.tok = b.tok /\ q.want = b.want /\ q.pc = b.pc
      BY <3>2, <3>3 DEF RequestRow
    <3> HIDE DEF q
    <3>7. StageFits(q) /\ ~HoldsLink(q) /\ q.pc \in Pcs \ {"idle"} /\ member[q.of] # Absent
      BY <1>1, <2>1, <2>3, <3>5, <3>6, PointsAre DEF StageFits, HoldsLink, Noted
    <3>8. RestTyped' /\ UNCHANGED <<load, member, access, invite, replaced>>
      BY <2>1, CalmStep
    <3> QED
      BY <2>1, <3>4, <3>5, <3>6, <3>7, <3>8, GoStep
  <2> QED
    BY <1>8, <2>2, <2>3, AnswersNat DEF UpdateStaff, UpdateVenues, validateVenueOwnership
<1>9. CASE FindOldStatus(r)
  <2>1. InFlight(r) /\ req[r].pc = "begin" /\ UNCHANGED <<load, account, estate>> /\ req[r].kind = "STATUS"
    BY <1>9 DEF FindOldStatus, InFlight
  <2>2. CASE Answer(r, UpdateStatusAnswer.StaffNotFound)
    BY <2>1, <2>2, <1>2, AnswersNat
  <2>3. CASE member[req[r].of] # Absent /\ Goes(r, "status")
    <3>1. StageFits([req[r] EXCEPT !.pc = "status"])
      BY <1>1, <2>1, StageMoves DEF MovesTo, Noted
    <3> QED
      BY <3>1, <2>1, <2>3, PointsAre, MoveStep
  <2> QED
    BY <1>9, <2>2, <2>3 DEF FindOldStatus
<1>10. CASE CreateCourt(r)
  <2>1. InFlight(r) /\ req[r].pc = "begin" /\ UNCHANGED <<load, account, estate>> /\ req[r].kind = "NEW_COURT"
    BY <1>10 DEF CreateCourt, InFlight
  <2>2. CASE Answer(r, respondCourtError.VenueNotFound)
    BY <2>1, <2>2, <1>2, AnswersNat
  <2>3. CASE Goes(r, "court")
    <3>1. StageFits([req[r] EXCEPT !.pc = "court"])
      BY <1>1, <2>1, StageMoves DEF MovesTo, Noted
    <3> QED
      BY <3>1, <2>1, <2>3, PointsAre, MoveStep DEF Working
  <2> QED
    BY <1>10, <2>2, <2>3 DEF CreateCourt
<1>11. CASE FindOwnedCourt(r)
  <2>1. InFlight(r) /\ req[r].pc = "begin" /\ UNCHANGED <<load, account, estate>> /\ req[r].kind = "HOURS"
    BY <1>11 DEF FindOwnedCourt, InFlight
  <2>2. CASE Answer(r, respondScheduleError.CourtNotFound)
    BY <2>1, <2>2, <1>2, AnswersNat
  <2>3. CASE Goes(r, "hours")
    <3>1. StageFits([req[r] EXCEPT !.pc = "hours"])
      BY <1>1, <2>1, StageMoves DEF MovesTo, Noted
    <3> QED
      BY <3>1, <2>1, <2>3, PointsAre, MoveStep DEF Working
  <2> QED
    BY <1>11, <2>2, <2>3 DEF FindOwnedCourt
<1>12. CASE DeadlinePasses(r)
  <2> DEFINE q == [req[r] EXCEPT !.late = TRUE]
  <2>1. InFlight(r) /\ UNCHANGED <<load, account, estate>> /\ req' = [req EXCEPT ![r] = q]
    BY <1>12 DEF DeadlinePasses
  <2>2. /\ q \in RequestRow
        /\ q.kind = req[r].kind /\ q.who = req[r].who /\ q.of = req[r].of /\ q.venue = req[r].venue
        /\ q.to = req[r].to /\ q.tok = req[r].tok /\ q.want = req[r].want /\ q.pc = req[r].pc
        /\ q.wrote = req[r].wrote
    BY <1>1 DEF RequestRow
  <2> HIDE DEF q
  <2>3. StageFits(q) /\ q.pc \in Pcs \ {"idle"}
    BY <1>1, <2>1, <2>2 DEF StageFits, InFlight, RequestRow
  <2>4. (HoldsLink(q) => HoldsLink(req[r])) /\ (q.pc \in Working => member[q.of] # Absent)
    BY <1>1, <2>2 DEF HoldsLink, RequestFits
  <2>5. RestTyped' /\ UNCHANGED <<load, member, access, invite, replaced>>
    BY <2>1, CalmStep
  <2> QED
    BY <2>1, <2>2, <2>3, <2>4, <2>5, GoStep
<1>13. CASE StartAdmin(r)
  <2>1. /\ InFlight(r) /\ req[r].pc = "begin" /\ UNCHANGED <<load, account, estate>>
        /\ req[r].kind \in AdminRoutes
    BY <1>13 DEF StartAdmin, InFlight
  <2>2. CASE Answer(r, 408)
    BY <2>1, <2>2, <1>2, AnswersNat
  <2>3. CASE Goes(r, "mutate")
    <3>1. StageFits([req[r] EXCEPT !.pc = "mutate"])
      BY <1>1, <2>1, StageMoves DEF MovesTo, Noted
    <3> QED
      BY <3>1, <2>1, <2>3, PointsAre, MoveStep DEF Working
  <2> QED
    BY <1>13, <2>2, <2>3 DEF StartAdmin
<1> QED
  BY <1>3, <1>4, <1>5, <1>6, <1>7, <1>8, <1>9, <1>10, <1>11, <1>12, <1>13 DEF CheckStep


\* Steps that end a request and change no table.
EndingStep(r) == Fails(r) \/ PasswordSet(r) \/ StaffChanged(r) \/ AdminAnswers(r)

LEMMA EndingsWork ==
    ASSUME WorkInv, Entitle, NEW r \in Requests, EndingStep(r)
    PROVE  WorkInv'
<1>1. UNCHANGED <<load, account, estate>> /\ InFlight(r)
  BY DEF EndingStep, Fails, PasswordSet, StaffChanged, AdminAnswers, InFlight
<1>2. CASE Fails(r)
  <2>1. FailureAnswer(req[r]) \in Nat
    BY AnswersNat DEF FailureAnswer
  <2> QED
    BY <1>1, <1>2, <2>1, AnswerStep DEF Fails
<1>3. CASE PasswordSet(r)
  BY <1>1, <1>3, AnswersNat, RecordStep DEF PasswordSet
<1>4. CASE StaffChanged(r)
  <2>1. CASE req[r].kind = "UPDATE"
    BY <1>1, <1>4, <2>1, AnswersNat, RecordStep DEF StaffChanged
  <2>2. CASE req[r].kind = "VENUES"
    BY <1>1, <1>4, <2>2, AnswersNat, RecordStep DEF StaffChanged
  <2>3. CASE req[r].kind = "STATUS"
    BY <1>1, <1>4, <2>3, AnswersNat, RecordStep DEF StaffChanged
  <2> QED
    BY <1>4, <2>1, <2>2, <2>3 DEF StaffChanged
<1>5. CASE AdminAnswers(r)
  BY <1>1, <1>5, AnswersNat, RecordStep DEF AdminAnswers
<1> QED
  BY <1>2, <1>3, <1>4, <1>5 DEF EndingStep

\* A request that goes on and notes that it has written.
Wrote(q, p) == [q EXCEPT !.pc = p, !.wrote = TRUE]

LEMMA WroteMoves ==
    ASSUME NEW q \in RequestRow, StageFits(q), q.pc # "idle", NEW p \in Pcs \ {"idle"}, MovesTo(q, p)
    PROVE  /\ Wrote(q, p) \in RequestRow /\ StageFits(Wrote(q, p))
           /\ Wrote(q, p).kind = q.kind /\ Wrote(q, p).who = q.who /\ Wrote(q, p).of = q.of
           /\ Wrote(q, p).venue = q.venue /\ Wrote(q, p).to = q.to /\ Wrote(q, p).tok = q.tok
           /\ Wrote(q, p).want = q.want /\ Wrote(q, p).pc = p /\ Wrote(q, p).wrote
<1> DEFINE b == [q EXCEPT !.pc = p]
           n == [b EXCEPT !.wrote = TRUE]
<1>1. b \in RequestRow /\ b.kind = q.kind /\ b.who = q.who /\ b.of = q.of /\ b.venue = q.venue
      /\ b.to = q.to /\ b.tok = q.tok /\ b.want = q.want /\ b.pc = p
  BY DEF RequestRow
<1> HIDE DEF b
<1>2. n \in RequestRow /\ n.kind = b.kind /\ n.who = b.who /\ n.of = b.of /\ n.venue = b.venue
      /\ n.to = b.to /\ n.tok = b.tok /\ n.want = b.want /\ n.pc = b.pc /\ n.wrote
  BY <1>1 DEF RequestRow
<1>3. n = Wrote(q, p)
  BY DEF b, Wrote
<1> HIDE DEF n
<1>4. StageFits(n)
  BY <1>1, <1>2 DEF StageFits, MovesTo
<1> QED
  BY <1>1, <1>2, <1>3, <1>4

\* Steps that write tables on which no request relies.
EstateStep(r) ==
    \/ UpdateVenue(r) \/ UpdateVenueStatus(r) \/ InsertCourt(r) \/ UpdateCourt(r) \/ UpdateCourtStatus(r)
    \/ ReplaceOperatingHours(r) \/ UpdateOwnerStatus(r) \/ SuspendVenue(r)

\* A write in a venue, or the refusal of one.
WriteOrAnswer(r) ==
    /\ InFlight(r)
    /\ UNCHANGED <<load, account, owner, venue>>
    /\ \E ans \in Nat :
          \/ \E part \in Parts : Writes(r, part, ans)
          \/ Answer(r, ans) /\ UNCHANGED content

LEMMA WriteOrAnswerIs ==
    ASSUME WorkInv, NEW r \in Requests,
           \/ UpdateVenue(r) \/ UpdateVenueStatus(r) \/ InsertCourt(r) \/ UpdateCourt(r)
           \/ UpdateCourtStatus(r) \/ ReplaceOperatingHours(r)
    PROVE  WriteOrAnswer(r) /\ req[r].kind \in PermissionRoutes
<1>1. StageFits(req[r])
  BY DEF WorkInv, RequestFits
<1>2. {"venue", "court", "hours"} \subseteq Parts
  BY DEF Parts
<1>3. CASE UpdateVenue(r) \/ UpdateVenueStatus(r)
  BY <1>2, <1>3, AnswersNat, RoutesAre DEF UpdateVenue, UpdateVenueStatus, WriteOrAnswer, InFlight
<1>4. CASE InsertCourt(r) \/ ReplaceOperatingHours(r)
  BY <1>1, <1>2, <1>4, AnswersNat, RoutesAre DEF InsertCourt, ReplaceOperatingHours, WriteOrAnswer, InFlight, StageFits
<1>5. CASE UpdateCourt(r) \/ UpdateCourtStatus(r)
  BY <1>2, <1>5, AnswersNat, RoutesAre DEF UpdateCourt, UpdateCourtStatus, EditCourt, WriteOrAnswer, InFlight
<1> QED
  BY <1>3, <1>4, <1>5

LEMMA EstateWorks ==
    ASSUME WorkInv, Entitle, NEW r \in Requests, EstateStep(r)
    PROVE  WorkInv'
<1>1. req[r] \in RequestRow /\ RequestFits(r) /\ StageFits(req[r]) /\ CarriesFit(req[r]) /\ TypeOK
  BY DEF WorkInv, TypeOK, RequestFits
<1>2. entitled' \in [Requests -> SUBSET {"rights", "scope", "venue"}]
  BY <1>1, EntitledTyped
<1>3. ASSUME WriteOrAnswer(r), req[r].kind \in PermissionRoutes PROVE WorkInv'
  <2>1. InFlight(r) /\ UNCHANGED <<load, account, owner, venue>>
    BY <1>3 DEF WriteOrAnswer
  <2>2. UNCHANGED <<load, member, access, invite, replaced, password, session, owner, venue>>
    BY <2>1 DEF account
  <2>3. PICK ans \in Nat : \/ \E part \in Parts : Writes(r, part, ans)
                           \/ Answer(r, ans) /\ UNCHANGED content
    BY <1>3 DEF WriteOrAnswer
  <2>4. ASSUME NEW part \in Parts, Writes(r, part, ans) PROVE WorkInv'
    <3>1. content' = [content EXCEPT ![req[r].venue][part] = r]
      BY <2>4 DEF Writes
    <3>2. req[r].venue \in Venues
      BY <1>1, <1>3, <2>1 DEF CarriesFit, InFlight
    <3>3. content' \in [Venues -> [Parts -> Requests \cup {None}]]
      BY <1>1, <3>1, <3>2 DEF TypeOK
    <3>4. RestTyped'
      BY <1>1, <1>2, <2>2, <3>3 DEF RestTyped, TypeOK
    <3>5. [Over(r, ans, FALSE) EXCEPT !.wrote = TRUE] \in Ends(r, ans, FALSE)
      BY DEF Ends
    <3>6. req' = [req EXCEPT ![r] = [Over(r, ans, FALSE) EXCEPT !.wrote = TRUE]]
      BY <2>4 DEF Writes
    <3> QED
      BY <2>1, <2>2, <3>4, <3>5, <3>6, EndStep
  <2>5. CASE Answer(r, ans) /\ UNCHANGED content
    <3>1. UNCHANGED <<load, account, estate>>
      BY <2>1, <2>5 DEF estate
    <3> QED
      BY <3>1, <2>1, <2>5, AnswerStep
  <2> QED
    BY <2>3, <2>4, <2>5
<1>4. CASE UpdateOwnerStatus(r) \/ SuspendVenue(r)
  <2> DEFINE q == Wrote(req[r], "answer")
  <2>1. req[r].pc = "mutate" /\ InFlight(r) /\ req' = [req EXCEPT ![r] = q] /\ UNCHANGED <<load, account, content>>
    BY <1>4 DEF UpdateOwnerStatus, SuspendVenue, InFlight, Wrote
  <2>2. req[r].kind \in AdminRoutes
    BY <1>1, <2>1 DEF StageFits
  <2>3. MovesTo(req[r], "answer")
    BY <2>2 DEF MovesTo
  <2>4. /\ q \in RequestRow /\ StageFits(q)
        /\ q.kind = req[r].kind /\ q.who = req[r].who /\ q.of = req[r].of /\ q.venue = req[r].venue
        /\ q.to = req[r].to /\ q.tok = req[r].tok /\ q.want = req[r].want /\ q.pc = "answer"
    <3>1. req[r].pc # "idle" /\ "answer" \in Pcs \ {"idle"}
      BY <2>1, PointsAre
    <3> QED
      BY <1>1, <2>3, <3>1, WroteMoves
  <2> HIDE DEF q
  <2>5. q.pc \in Pcs \ {"idle"} /\ ~HoldsLink(q) /\ q.pc \notin Working
    BY <2>2, <2>4, PointsAre DEF HoldsLink, Working, AdminRoutes
  <2>6. owner' \in {"ACTIVE", "SUSPENDED"} /\ venue' \in [Venues -> {"LISTED", "SUSPENDED"}]
    <3>1. CASE UpdateOwnerStatus(r)
      BY <1>1, <2>1, <3>1 DEF UpdateOwnerStatus, CarriesFit, TypeOK
    <3>2. CASE SuspendVenue(r)
      BY <1>1, <3>2 DEF SuspendVenue, TypeOK
    <3> QED
      BY <1>4, <3>1, <3>2
  <2>7. UNCHANGED <<load, member, access, invite, replaced, password, session, content>>
    BY <2>1 DEF account
  <2>8. RestTyped'
    BY <1>1, <1>2, <2>6, <2>7 DEF RestTyped, TypeOK
  <2> QED
    BY <2>1, <2>4, <2>5, <2>7, <2>8, GoStep
<1> QED
  BY <1>3, <1>4, WriteOrAnswerIs DEF EstateStep


\* Steps on the password and the session of a member.
LEMMA LoginWorks ==
    ASSUME WorkInv, Entitle, NEW r \in Requests, UpdateUserPassword(r) \/ GetStaffMemberships(r)
    PROVE  WorkInv'
<1>1. req[r] \in RequestRow /\ RequestFits(r) /\ StageFits(req[r]) /\ CarriesFit(req[r]) /\ TypeOK
  BY DEF WorkInv, TypeOK, RequestFits
<1>2. entitled' \in [Requests -> SUBSET {"rights", "scope", "venue"}]
  BY <1>1, EntitledTyped
<1>3. CASE UpdateUserPassword(r)
  <2> DEFINE q == Wrote(req[r], "used")
  <2>1. /\ req[r].pc = "password" /\ InFlight(r) /\ req' = [req EXCEPT ![r] = q]
        /\ password' = [password EXCEPT ![req[r].of] = r]
        /\ UNCHANGED <<load, member, access, session, invite, replaced, estate>>
    BY <1>3 DEF UpdateUserPassword, InFlight, Wrote
  <2>2. req[r].kind = "SETUP" /\ member[req[r].of] # Absent
    BY <1>1, <2>1 DEF StageFits, RequestFits, Working
  <2>3. MovesTo(req[r], "used")
    BY <2>2 DEF MovesTo
  <2>4. /\ q \in RequestRow /\ StageFits(q)
        /\ q.kind = req[r].kind /\ q.who = req[r].who /\ q.of = req[r].of /\ q.venue = req[r].venue
        /\ q.to = req[r].to /\ q.tok = req[r].tok /\ q.want = req[r].want /\ q.pc = "used"
    <3>1. req[r].pc # "idle" /\ "used" \in Pcs \ {"idle"}
      BY <2>1, PointsAre
    <3> QED
      BY <1>1, <2>3, <3>1, WroteMoves
  <2> HIDE DEF q
  <2>5. q.pc \in Pcs \ {"idle"} /\ ~HoldsLink(q) /\ member[q.of] # Absent
    BY <2>2, <2>4, PointsAre DEF HoldsLink
  <2>6. password' \in [Members -> Requests \cup {None, "earlier"}]
    BY <1>1, <2>1 DEF TypeOK
  <2>7. RestTyped'
    BY <1>1, <1>2, <2>1, <2>6 DEF RestTyped, TypeOK, estate
  <2> QED
    BY <2>1, <2>4, <2>5, <2>7, GoStep
<1>4. CASE GetStaffMemberships(r)
  <2>1. /\ req[r].pc = "memberships" /\ InFlight(r)
        /\ UNCHANGED <<load, member, access, password, invite, replaced, estate>>
    BY <1>4 DEF GetStaffMemberships, InFlight
  <2>2. req[r].of \in Members
    BY <1>1, <2>1 DEF StageFits, CarriesFit
  <2>3. \/ member[req[r].of].status = "ACTIVE" /\ session' = session \cup {req[r].of}
        \/ UNCHANGED session
    BY <1>4 DEF GetStaffMemberships
  <2>4. session' \subseteq {m \in Members : member[m] # Absent}
    BY <1>1, <2>2, <2>3 DEF TypeOK, Absent
  <2>5. RestTyped'
    BY <1>1, <1>2, <2>1, <2>4 DEF RestTyped, TypeOK, estate
  <2>6. PICK ans \in Nat : req' = [req EXCEPT ![r] = Over(r, ans, FALSE)]
    BY <1>4, AnswersNat DEF GetStaffMemberships, Answer
  <2>7. Over(r, ans, FALSE) \in Ends(r, ans, FALSE)
    BY DEF Ends
  <2> QED
    BY <2>1, <2>5, <2>6, <2>7, EndStep
<1> QED
  BY <1>3, <1>4

\* The rows of owner_staff_venue_access, and who wrote them last.
AccessTyped ==
    /\ access \in [Members -> AccessRows]
    /\ replaced \in [Members -> [by : Requests \cup {"earlier"}, venues : SUBSET OwnVenues]]

\* Steps that change one membership and keep it.
LEMMA MemberStep ==
    ASSUME WorkInv, Entitle, NEW r \in Requests, InFlight(r),
           UNCHANGED <<load, password, session, invite, estate>>,
           NEW m \in Members, member[m] # Absent,
           NEW row \in MemberRow, row.status # "none", member' = [member EXCEPT ![m] = row],
           AccessTyped',
           NEW q \in RequestRow, req' = [req EXCEPT ![r] = q], StageFits(q), q.pc = "answer",
           q.kind = req[r].kind, q.of = req[r].of, q.venue = req[r].venue, q.to = req[r].to,
           q.tok = req[r].tok, HoldsLink(q) => HoldsLink(req[r])
    PROVE  WorkInv'
<1>1. RequestFits(r) /\ TypeOK /\ MembersFit /\ req'[r] = q
  BY DEF WorkInv, TypeOK
<1>2. row # Absent
  BY DEF Absent
<1>3. /\ member' \in [Members -> MemberRow]
      /\ \A x \in Members : member'[x] = IF x = m THEN row ELSE member[x]
  BY <1>1 DEF TypeOK
<1>4. DataKept /\ MembersFit'
  <2>1. DataKept
    BY <1>2, <1>3 DEF DataKept
  <2>2. \A x \in Members : member'[x].status = "none" => member'[x] = Absent
    BY <1>1, <1>3 DEF MembersFit
  <2>3. \A t \in Tokens : invite'[t].of # None => member'[invite'[t].of] # Absent
    <3> SUFFICES ASSUME NEW t \in Tokens, invite[t].of # None PROVE member'[invite[t].of] # Absent
      OBVIOUS
    <3>1. invite[t].of \in Members /\ member[invite[t].of] # Absent
      BY <1>1 DEF TypeOK, InviteRow, MembersFit
    <3> QED
      BY <1>2, <1>3, <3>1
  <2> QED
    BY <1>1, <2>1, <2>2, <2>3 DEF MembersFit
<1>5. TypeOK'
  <2>1. entitled' \in [Requests -> SUBSET {"rights", "scope", "venue"}]
    BY <1>1, EntitledTyped
  <2>2. session' \subseteq {x \in Members : member'[x] # Absent}
    BY <1>1, <1>2, <1>3 DEF TypeOK
  <2>3. \A x \in Requests : req'[x].tok \in Tokens => invite'[req'[x].tok].of = req'[x].of
    BY <1>1 DEF TypeOK
  <2> QED
    BY <1>1, <1>3, <2>1, <2>2, <2>3 DEF TypeOK, AccessTyped, estate
<1>6. RequestFits(r)'
  <2>1. CarriesFit(q)'
    BY <1>1 DEF RequestFits, CarriesFit, InFlight
  <2>2. q.pc \notin Working
    BY DEF Working
  <2>3. HoldsLink(q) => /\ q.tok \in Tokens /\ invite'[q.tok].purpose = PurposeOf(q.kind)
                        /\ ~invite'[q.tok].sent /\ ~invite'[q.tok].used
    BY <1>1 DEF RequestFits
  <2> QED
    BY <1>1, <2>1, <2>2, <2>3 DEF RequestFits, StageFits, HoldsLink
<1> QED
  BY <1>4, <1>5, <1>6, RequestStep

MembershipStep(r) == MarkInvited(r) \/ MarkActive(r) \/ UpdateStatus(r) \/ ReplaceVenueAccess(r)

LEMMA MembershipsWork ==
    ASSUME WorkInv, Entitle, NEW r \in Requests, MembershipStep(r)
    PROVE  WorkInv'
<1>1. req[r] \in RequestRow /\ RequestFits(r) /\ StageFits(req[r]) /\ CarriesFit(req[r]) /\ TypeOK
  BY DEF WorkInv, TypeOK, RequestFits
<1> DEFINE m == req[r].of
<1>2. req[r].pc \in {"invited", "activate", "status", "replace"} /\ InFlight(r)
  BY DEF MembershipStep, MarkInvited, MarkActive, UpdateStatus, ReplaceVenueAccess, InFlight
<1>3. m \in Members /\ member[m] # Absent
  <2>1. m \in Members
    BY <1>1, <1>2 DEF StageFits, CarriesFit, StaffRoutes
  <2> QED
    BY <1>1, <1>2, <2>1 DEF RequestFits, Working
<1>4. member[m] \in MemberRow /\ member[m].status # "none"
  BY <1>1, <1>3 DEF TypeOK, WorkInv, MembersFit
<1>5. MovesTo(req[r], "answer")
  BY <1>1, <1>2 DEF StageFits, StaffRoutes, MovesTo
<1>6. CASE MarkInvited(r) \/ MarkActive(r)
  <2> DEFINE q == [req[r] EXCEPT !.pc = "answer"]
  <2>1. PICK to \in {"INVITED", "ACTIVE"} : UpdateStaffInvitationStatus(r, to)
    BY <1>6 DEF MarkInvited, MarkActive
  <2>2. q \in RequestRow /\ req' = [req EXCEPT ![r] = q]
    BY <1>1, <2>1, MovedTyped, PointsAre DEF UpdateStaffInvitationStatus, Goes
  <2>3. /\ q.kind = req[r].kind /\ q.of = req[r].of /\ q.venue = req[r].venue
        /\ q.to = req[r].to /\ q.tok = req[r].tok /\ q.pc = "answer"
    BY <1>1 DEF RequestRow
  <2> HIDE DEF q
  <2>4. HoldsLink(q) => HoldsLink(req[r])
    BY <1>1, <1>2, <1>6, <2>3 DEF HoldsLink, StageFits, MarkInvited, MarkActive
  <2> DEFINE row == [member[m] EXCEPT !.invitation = to]
  <2>5. row \in MemberRow /\ row.status # "none"
    BY <1>4 DEF MemberRow
  <2>6. member' = [member EXCEPT ![m] = row]
    BY <2>1 DEF UpdateStaffInvitationStatus
  <2> HIDE DEF row, m
  <2>7. /\ UNCHANGED <<load, password, session, invite, estate>>
        /\ AccessTyped'
    BY <1>1, <2>1 DEF UpdateStaffInvitationStatus, TypeOK, AccessTyped
  <2>8. StageFits(q)
    <3>1. req[r].pc # "idle" /\ req[r].wrote
      BY <1>1, <1>6 DEF MarkInvited, MarkActive, StageFits, Noted
    <3> QED
      BY <1>1, <1>5, <3>1, StageMoves DEF q
  <2> QED
    BY <1>2, <1>3, <2>2, <2>3, <2>4, <2>5, <2>6, <2>7, <2>8, MemberStep
<1>7. CASE UpdateStatus(r)
  <2> DEFINE q == Wrote(req[r], "answer")
             row == [member[m] EXCEPT !.status = req[r].to]
  <2>1. /\ req[r].pc = "status" /\ req' = [req EXCEPT ![r] = q]
        /\ member' = [member EXCEPT ![m] = row]
        /\ UNCHANGED <<load, access, password, session, invite, replaced, estate>>
    BY <1>7 DEF UpdateStatus, Wrote
  <2>2. req[r].kind = "STATUS" /\ req[r].to \in {"ACTIVE", "INACTIVE"}
    BY <1>1, <2>1 DEF StageFits, CarriesFit
  <2>3. row \in MemberRow /\ row.status # "none"
    BY <1>4, <2>2 DEF MemberRow
  <2>4. /\ q \in RequestRow /\ StageFits(q) /\ q.kind = req[r].kind /\ q.of = req[r].of
        /\ q.venue = req[r].venue /\ q.to = req[r].to /\ q.tok = req[r].tok /\ q.pc = "answer"
    <3>1. req[r].pc # "idle" /\ "answer" \in Pcs \ {"idle"}
      BY <2>1, PointsAre
    <3> QED
      BY <1>1, <1>5, <3>1, WroteMoves
  <2> HIDE DEF q, row, m
  <2>5. ~HoldsLink(q)
    BY <2>2, <2>4 DEF HoldsLink
  <2>6. AccessTyped'
    BY <1>1, <2>1 DEF TypeOK, AccessTyped
  <2> QED
    BY <1>2, <1>3, <2>1, <2>3, <2>4, <2>5, <2>6, MemberStep
<1>8. CASE ReplaceVenueAccess(r)
  <2>1. /\ req[r].pc = "replace" /\ UNCHANGED <<load, password, session, invite, estate>>
    BY <1>8 DEF ReplaceVenueAccess
  <2>2. req[r].kind \in {"UPDATE", "VENUES"} /\ req[r].want \subseteq OwnVenues
    BY <1>1, <2>1 DEF StageFits
  <2>3. CASE (\E ans \in Nat : Answer(r, ans)) /\ UNCHANGED <<member, access, replaced>>
    <3>1. UNCHANGED <<load, account, estate>>
      BY <2>1, <2>3 DEF account
    <3> QED
      BY <1>2, <2>3, <3>1, AnswerStep
  <2>4. CASE Replaces(r, req[r].want, KeptRows(r))
    <3> DEFINE q == Wrote(req[r], "answer")
               row == IF req[r].kind = "UPDATE" THEN [member[m] EXCEPT !.perms = req[r].perms] ELSE member[m]
    <3>1. req' = [req EXCEPT ![r] = q]
      BY <2>4 DEF Wrote, Replaces
    <3>2. row \in MemberRow /\ row.status # "none"
      BY <1>1, <1>4 DEF MemberRow, RequestRow
    <3>3. member' = [member EXCEPT ![m] = row]
      BY <1>1, <1>3, <2>4 DEF TypeOK, Replaces
    <3>4. /\ q \in RequestRow /\ StageFits(q) /\ q.kind = req[r].kind /\ q.of = req[r].of
          /\ q.venue = req[r].venue /\ q.to = req[r].to /\ q.tok = req[r].tok /\ q.pc = "answer"
      <4>1. req[r].pc # "idle" /\ "answer" \in Pcs \ {"idle"}
        BY <2>1, PointsAre
      <4> QED
        BY <1>1, <1>5, <4>1, WroteMoves
    <3>5. AccessTyped'
      <4> DEFINE rows == [v \in OwnVenues |-> IF v \in req[r].want THEN r
                                              ELSE IF v \in KeptRows(r) THEN access[m][v] ELSE None]
      <4>1. access[m] \in AccessRows
        BY <1>1, <1>3 DEF TypeOK
      <4>2. rows \in AccessRows
        BY <4>1 DEF AccessRows
      <4>3. /\ access' = [access EXCEPT ![m] = rows]
            /\ replaced' = [replaced EXCEPT ![m] = [by |-> r, venues |-> req[r].want]]
        BY <2>4 DEF Replaces
      <4> HIDE DEF rows, m
      <4> QED
        BY <1>1, <1>3, <2>2, <4>2, <4>3 DEF TypeOK, AccessTyped
    <3> HIDE DEF q, row, m
    <3>6. ~HoldsLink(q)
      BY <2>2, <3>4 DEF HoldsLink
    <3> QED
      BY <1>2, <1>3, <2>1, <3>1, <3>2, <3>3, <3>4, <3>5, <3>6, MemberStep
  <2> QED
    BY <1>8, <2>3, <2>4, AnswersNat DEF ReplaceVenueAccess
<1> QED
  BY <1>6, <1>7, <1>8 DEF MembershipStep


----------------------------------------------------------------------------
(* Links.                                                                  *)

\* A change of the links that keeps what memberships and requests rely on.
LinksKept ==
    /\ invite' \in [Tokens -> InviteRow]
    /\ \A t \in Tokens :
          /\ invite[t].of # None =>
                /\ invite'[t].of = invite[t].of /\ invite'[t].purpose = invite[t].purpose
                /\ invite[t].sent => invite'[t].sent
          /\ invite'[t].of # None => member[invite'[t].of] # Absent
          /\ invite'[t].sent => invite'[t].of # None

LEMMA OldLinks ==
    ASSUME WorkInv, NEW x \in Requests, req[x].tok \in Tokens
    PROVE  req[x].of \in Members /\ invite[req[x].tok].of = req[x].of /\ invite[req[x].tok].of # None
<1>1. req[x].of \in Members /\ invite[req[x].tok].of = req[x].of
  BY DEF WorkInv, RequestFits, CarriesFit
<1> QED
  BY <1>1, WorkspaceAssumption

LEMMA LinkStep ==
    ASSUME WorkInv, Entitle, UNCHANGED <<load, member, access, password, session, replaced, estate>>,
           LinksKept, NEW r \in Requests, NEW q \in RequestRow, req' = [req EXCEPT ![r] = q], RequestFits(r)',
           HoldsLink(q) => (HoldsLink(req[r]) /\ q.tok = req[r].tok) \/ q.tok \in FreshTokens,
           \A x \in Requests \ {r} : HoldsLink(req[x]) =>
               /\ invite'[req[x].tok].sent = invite[req[x].tok].sent
               /\ invite'[req[x].tok].used = invite[req[x].tok].used
    PROVE  WorkInv'
<1>1. DataKept
  BY DEF DataKept, LinksKept
<1>2. MembersFit'
  BY DEF MembersFit, LinksKept, WorkInv
<1>3. TypeOK
  BY DEF WorkInv
<1>4. \A x \in Requests \ {r} : req'[x] = req[x]
  BY <1>3 DEF TypeOK
<1>5. \A x \in Requests : req'[x].tok \in Tokens => invite'[req'[x].tok].of = req'[x].of
  <2> SUFFICES ASSUME NEW x \in Requests, req'[x].tok \in Tokens PROVE invite'[req'[x].tok].of = req'[x].of
    OBVIOUS
  <2>1. CASE x = r
    BY <2>1 DEF RequestFits
  <2>2. CASE x # r
    BY <2>2, <1>4, OldLinks DEF LinksKept
  <2> QED
    BY <2>1, <2>2
<1>6. entitled' \in [Requests -> SUBSET {"rights", "scope", "venue"}]
  BY <1>3, EntitledTyped
<1>7. TypeOK'
  BY <1>3, <1>5, <1>6 DEF TypeOK, LinksKept, estate
<1> QED
  BY <1>1, <1>2, <1>7, RequestStep

LEMMA InvalidateWorks ==
    ASSUME WorkInv, Entitle, NEW r \in Requests, InvalidateStaffInvites(r)
    PROVE  WorkInv'
<1> DEFINE q == Wrote(req[r], "invite")
<1>1. req[r] \in RequestRow /\ RequestFits(r) /\ StageFits(req[r]) /\ CarriesFit(req[r]) /\ TypeOK /\ MembersFit
  BY DEF WorkInv, TypeOK, RequestFits
<1>2. req[r].pc = "invalidate" /\ UNCHANGED <<load, member, access, password, session, replaced, estate>>
  BY DEF InvalidateStaffInvites
<1>3. req' = [req EXCEPT ![r] = q] /\ req'[r] = q
  BY <1>1 DEF InvalidateStaffInvites, Wrote, TypeOK
<1>4. /\ q.kind = req[r].kind /\ q.of = req[r].of /\ q.venue = req[r].venue
      /\ q.to = req[r].to /\ q.tok = req[r].tok /\ q.pc = "invite"
      /\ q \in RequestRow /\ StageFits(q)
  <2>1. MovesTo(req[r], "invite")
    BY <1>1, <1>2 DEF StageFits, MovesTo
  <2>2. req[r].pc # "idle" /\ "invite" \in Pcs \ {"idle"}
    BY <1>2, PointsAre
  <2> QED
    BY <1>1, <2>1, <2>2, WroteMoves
<1>5. StageFits(q)
  BY <1>4
<1> HIDE DEF q
<1>6. \A t \in Tokens : \/ invite'[t] = invite[t]
                        \/ invite[t] \in InviteRow /\ invite'[t] = [invite[t] EXCEPT !.ends = "cut"]
  BY <1>1 DEF InvalidateStaffInvites, TypeOK
<1>7. \A t \in Tokens : /\ invite'[t] \in InviteRow
                        /\ invite'[t].of = invite[t].of /\ invite'[t].purpose = invite[t].purpose
                        /\ invite'[t].sent = invite[t].sent /\ invite'[t].used = invite[t].used
  <2> SUFFICES ASSUME NEW t \in Tokens
               PROVE  /\ invite'[t] \in InviteRow
                      /\ invite'[t].of = invite[t].of /\ invite'[t].purpose = invite[t].purpose
                      /\ invite'[t].sent = invite[t].sent /\ invite'[t].used = invite[t].used
    OBVIOUS
  <2>1. invite[t] \in InviteRow
    BY <1>1 DEF TypeOK
  <2>2. CASE invite'[t] = invite[t]
    BY <2>1, <2>2
  <2>3. CASE invite'[t] = [invite[t] EXCEPT !.ends = "cut"]
    BY <2>1, <2>3 DEF InviteRow
  <2> QED
    BY <1>6, <2>2, <2>3
<1>8. LinksKept
  <2>1. invite' \in [Tokens -> InviteRow]
    BY <1>7 DEF InvalidateStaffInvites
  <2> QED
    BY <1>1, <1>7, <2>1 DEF LinksKept, MembersFit
<1>9. RequestFits(r)'
  <2>1. CarriesFit(req[r])'
    BY <1>1, <1>2, <1>3, <1>4, <1>5, <1>7 DEF CarriesFit, StageFits
  <2>2. q.tok \in Tokens => invite'[q.tok].of = q.of
    BY <1>4, <1>7, OldLinks
  <2>3. member[q.of] # Absent
    BY <1>1, <1>2, <1>4 DEF RequestFits, Working
  <2>4. StageFits(req[r])'
    BY <1>3, <1>5 DEF StageFits
  <2> QED
    BY <1>2, <1>3, <1>4, <2>1, <2>2, <2>3, <2>4 DEF RequestFits, HoldsLink
<1>10. ~HoldsLink(q)
  BY <1>4 DEF HoldsLink
<1>11. \A x \in Requests \ {r} : HoldsLink(req[x]) =>
               /\ invite'[req[x].tok].sent = invite[req[x].tok].sent
               /\ invite'[req[x].tok].used = invite[req[x].tok].used
  BY <1>7 DEF WorkInv, RequestFits
<1> QED
  BY <1>2, <1>3, <1>4, <1>8, <1>9, <1>10, <1>11, LinkStep

\* What INSERT INTO owner_staff_invites leaves of the links.
LEMMA NewLink ==
    ASSUME TypeOK, MembersFit, NEW t \in FreshTokens, NEW m \in Members,
           NEW purpose \in {"SET_PASSWORD", "RESET_PASSWORD"}, CreateStaffInvite(t, m, purpose)
    PROVE  /\ t \in Tokens /\ invite' \in [Tokens -> InviteRow]
           /\ \A x \in Tokens \ {t} : invite'[x] = invite[x]
           /\ invite'[t].of = m /\ invite'[t].purpose = purpose
           /\ ~invite'[t].sent /\ ~invite'[t].used /\ invite'[t].ends = "later"
<1>1. t \in Tokens /\ invite \in [Tokens -> InviteRow]
  BY DEF FreshTokens, TypeOK
<1> DEFINE row == [of |-> m, purpose |-> purpose, used |-> FALSE, ends |-> "later", sent |-> FALSE]
<1>2. row \in InviteRow
  BY DEF InviteRow
<1>3. invite' = [invite EXCEPT ![t] = row]
  BY DEF CreateStaffInvite
<1> QED
  BY <1>1, <1>2, <1>3

LEMMA NewInviteWorks ==
    ASSUME WorkInv, Entitle, NEW r \in Requests, NewInvite(r)
    PROVE  WorkInv'
<1>1. req[r] \in RequestRow /\ RequestFits(r) /\ StageFits(req[r]) /\ CarriesFit(req[r]) /\ TypeOK /\ MembersFit
  BY DEF WorkInv, TypeOK, RequestFits
<1>2. req[r].pc = "invite" /\ UNCHANGED <<load, member, access, password, session, replaced, estate>>
  BY DEF NewInvite
<1>3. PICK t \in FreshTokens :
          /\ CreateStaffInvite(t, req[r].of, PurposeOf(req[r].kind))
          /\ req' = [req EXCEPT ![r].tok = t, ![r].wrote = TRUE,
                                ![r].pc = IF req[r].kind = "RESET" THEN "answer" ELSE "invited"]
  BY DEF NewInvite
<1>4. /\ req[r].kind \in {"REGENERATE", "RESET"} /\ req[r].of \in Members
      /\ member[req[r].of] # Absent /\ req[r].of # None
  <2>1. req[r].kind \in {"REGENERATE", "RESET"}
    BY <1>1, <1>2 DEF StageFits
  <2>2. req[r].of \in Members
    BY <1>1, <2>1 DEF CarriesFit, StaffRoutes
  <2> QED
    BY <1>1, <1>2, <2>1, <2>2, WorkspaceAssumption DEF RequestFits, Working
<1> DEFINE p == IF req[r].kind = "RESET" THEN "answer" ELSE "invited"
           b == Wrote(req[r], p)
           q == [b EXCEPT !.tok = t]
<1>5. MovesTo(req[r], p)
  BY <1>4 DEF StaffRoutes, MovesTo
<1>6. /\ b \in RequestRow /\ StageFits(b) /\ b.wrote /\ b.kind = req[r].kind /\ b.who = req[r].who /\ b.of = req[r].of
      /\ b.venue = req[r].venue /\ b.to = req[r].to /\ b.want = req[r].want /\ b.pc = p
  <2>1. req[r].pc # "idle" /\ p \in Pcs \ {"idle"}
    BY <1>2, PointsAre
  <2> QED
    BY <1>1, <1>5, <2>1, WroteMoves
<1>7. req' = [req EXCEPT ![r] = q]
  BY <1>3 DEF Wrote
<1> HIDE DEF b
<1>8. PurposeOf(req[r].kind) \in {"SET_PASSWORD", "RESET_PASSWORD"}
  BY DEF PurposeOf
<1>9. /\ t \in Tokens /\ invite' \in [Tokens -> InviteRow]
      /\ \A x \in Tokens \ {t} : invite'[x] = invite[x]
      /\ invite'[t].of = req[r].of /\ invite'[t].purpose = PurposeOf(req[r].kind)
      /\ ~invite'[t].sent /\ ~invite'[t].used
  BY <1>1, <1>3, <1>4, <1>8, NewLink
<1>10. /\ q \in RequestRow /\ q.kind = b.kind /\ q.who = b.who /\ q.of = b.of /\ q.venue = b.venue
       /\ q.to = b.to /\ q.want = b.want /\ q.pc = b.pc /\ q.tok = t /\ q.wrote = b.wrote
  BY <1>6, <1>9 DEF RequestRow
<1> HIDE DEF q
<1>11. req'[r] = q
  BY <1>1, <1>7 DEF TypeOK
<1>12. invite[t].of = None
  BY DEF FreshTokens
<1>13. LinksKept
  BY <1>1, <1>4, <1>9, <1>12 DEF LinksKept, MembersFit
<1>14. RequestFits(r)'
  <2>1. StageFits(q)
    BY <1>4, <1>6, <1>10 DEF StageFits
  <2>2. CarriesFit(req[r])'
    BY <1>1, <1>4, <1>6, <1>9, <1>10, <1>11, RoutesAre DEF CarriesFit
  <2>3. q.pc \in Working => member'[q.of] # Absent
    BY <1>2, <1>4, <1>6, <1>10
  <2>4. StageFits(req[r])'
    BY <1>11, <2>1 DEF StageFits
  <2> QED
    BY <1>6, <1>9, <1>10, <1>11, <2>2, <2>3, <2>4 DEF RequestFits, HoldsLink
<1>15. \A x \in Requests : req[x].tok \in Tokens => req[x].tok # t
  BY <1>12, OldLinks
<1>16. \A x \in Requests \ {r} : HoldsLink(req[x]) => invite'[req[x].tok] = invite[req[x].tok]
  BY <1>9, <1>15 DEF WorkInv, RequestFits
<1> QED
  BY <1>2, <1>7, <1>10, <1>13, <1>14, <1>16, LinkStep


LEMMA SendLinkWorks ==
    ASSUME WorkInv, Entitle, NEW r \in Requests, SendLink(r)
    PROVE  WorkInv'
<1>1. req[r] \in RequestRow /\ RequestFits(r) /\ StageFits(req[r]) /\ CarriesFit(req[r]) /\ TypeOK /\ MembersFit
  BY DEF WorkInv, TypeOK, RequestFits
<1>2. /\ HoldsLink(req[r]) /\ InFlight(r)
      /\ UNCHANGED <<load, member, access, password, session, replaced, estate>>
      /\ invite' = [invite EXCEPT ![req[r].tok].sent = TRUE]
  BY DEF SendLink, HoldsLink, InFlight
<1>3. PICK ans \in Nat, logged \in BOOLEAN : req' = [req EXCEPT ![r] = Over(r, ans, logged)]
  <2>1. \E ans \in {CreateStaffAnswer.OK, ResetPasswordAnswer.OK, RegenerateInviteAnswer.OK} : Record(r, ans)
    BY DEF SendLink
  <2>2. PICK ans \in Nat : Record(r, ans)
    BY <2>1, AnswersNat
  <2> QED
    BY <2>2 DEF Record
<1>4. Over(r, ans, logged) \in Ends(r, ans, logged)
  BY DEF Ends
<1>5. /\ Over(r, ans, logged) \in RequestRow /\ Over(r, ans, logged).pc = "done"
      /\ RequestFits(r)'
  BY <1>1, <1>2, <1>3, <1>4, OverFits
<1>6. ~HoldsLink(Over(r, ans, logged))
  BY <1>5 DEF HoldsLink
<1>7. req[r].tok \in Tokens
  BY <1>1, <1>2 DEF RequestFits
<1>8. \A t \in Tokens : /\ invite'[t] \in InviteRow
                        /\ invite'[t].of = invite[t].of /\ invite'[t].purpose = invite[t].purpose
                        /\ invite'[t].used = invite[t].used /\ invite'[t].ends = invite[t].ends
                        /\ t # req[r].tok => invite'[t].sent = invite[t].sent
                        /\ invite[t].sent => invite'[t].sent
  <2> SUFFICES ASSUME NEW t \in Tokens
               PROVE  /\ invite'[t] \in InviteRow
                      /\ invite'[t].of = invite[t].of /\ invite'[t].purpose = invite[t].purpose
                      /\ invite'[t].used = invite[t].used /\ invite'[t].ends = invite[t].ends
                      /\ t # req[r].tok => invite'[t].sent = invite[t].sent
                      /\ invite[t].sent => invite'[t].sent
    OBVIOUS
  <2>1. invite[t] \in InviteRow
    BY <1>1 DEF TypeOK
  <2>2. CASE t # req[r].tok
    BY <1>1, <1>2, <2>1, <2>2 DEF TypeOK
  <2>3. CASE t = req[r].tok
    <3>1. invite'[t] = [invite[t] EXCEPT !.sent = TRUE]
      BY <1>1, <1>2, <2>3 DEF TypeOK
    <3> QED
      BY <2>1, <2>3, <3>1 DEF InviteRow
  <2> QED
    BY <2>2, <2>3
<1>9. LinksKept
  <2>1. invite' \in [Tokens -> InviteRow]
    BY <1>1, <1>2, <1>8 DEF TypeOK
  <2>2. invite[req[r].tok].of # None
    BY <1>7, OldLinks
  <2>3. \A t \in Tokens : invite'[t].of # None => member[invite'[t].of] # Absent
    BY <1>1, <1>8 DEF MembersFit
  <2>4. \A t \in Tokens : invite'[t].sent => invite'[t].of # None
    BY <1>1, <1>8, <2>2 DEF MembersFit
  <2> QED
    BY <1>8, <2>1, <2>3, <2>4 DEF LinksKept
<1>10. \A x \in Requests \ {r} : HoldsLink(req[x]) => req[x].tok \in Tokens /\ req[x].tok # req[r].tok
  BY <1>2 DEF WorkInv, RequestFits, OwnLinks
<1>11. \A x \in Requests \ {r} : HoldsLink(req[x]) =>
               /\ invite'[req[x].tok].sent = invite[req[x].tok].sent
               /\ invite'[req[x].tok].used = invite[req[x].tok].used
  BY <1>8, <1>10
<1> QED
  BY <1>2, <1>3, <1>5, <1>6, <1>9, <1>11, LinkStep

LEMMA MarkUsedWorks ==
    ASSUME WorkInv, Entitle, NEW r \in Requests, MarkStaffInviteUsed(r)
    PROVE  WorkInv'
<1> DEFINE p == IF invite[req[r].tok].purpose = "SET_PASSWORD" THEN "activate" ELSE "answer"
           q == [req[r] EXCEPT !.pc = p]
<1>1. req[r] \in RequestRow /\ RequestFits(r) /\ StageFits(req[r]) /\ CarriesFit(req[r]) /\ TypeOK /\ MembersFit
  BY DEF WorkInv, TypeOK, RequestFits
<1>2. /\ req[r].pc = "used" /\ req[r].kind = "SETUP"
      /\ UNCHANGED <<load, member, access, password, session, replaced, estate>>
      /\ invite' = [invite EXCEPT ![req[r].tok].used = TRUE]
  BY <1>1 DEF MarkStaffInviteUsed, StageFits
<1>3. q \in RequestRow /\ req' = [req EXCEPT ![r] = q] /\ req'[r] = q
  <2>1. p \in Pcs
    BY PointsAre
  <2> QED
    BY <1>1, <2>1, MovedTyped DEF MarkStaffInviteUsed, Goes, TypeOK
<1>4. /\ q.kind = req[r].kind /\ q.of = req[r].of /\ q.venue = req[r].venue
      /\ q.to = req[r].to /\ q.tok = req[r].tok /\ q.pc = p
  BY <1>1 DEF RequestRow
<1>5. StageFits(q)
  BY <1>1, <1>2, StageMoves DEF StageFits, MovesTo, Noted
<1> HIDE DEF q
<1>6. req[r].tok \in Tokens /\ invite[req[r].tok].sent
  BY <1>1, <1>2 DEF CarriesFit
<1>7. \A t \in Tokens : /\ invite'[t] \in InviteRow
                        /\ invite'[t].of = invite[t].of /\ invite'[t].purpose = invite[t].purpose
                        /\ invite'[t].sent = invite[t].sent /\ invite'[t].ends = invite[t].ends
                        /\ t # req[r].tok => invite'[t].used = invite[t].used
  <2> SUFFICES ASSUME NEW t \in Tokens
               PROVE  /\ invite'[t] \in InviteRow
                      /\ invite'[t].of = invite[t].of /\ invite'[t].purpose = invite[t].purpose
                      /\ invite'[t].sent = invite[t].sent /\ invite'[t].ends = invite[t].ends
                      /\ t # req[r].tok => invite'[t].used = invite[t].used
    OBVIOUS
  <2>1. invite[t] \in InviteRow
    BY <1>1 DEF TypeOK
  <2>2. CASE t # req[r].tok
    BY <1>1, <1>2, <2>1, <2>2 DEF TypeOK
  <2>3. CASE t = req[r].tok
    <3>1. invite'[t] = [invite[t] EXCEPT !.used = TRUE]
      BY <1>1, <1>2, <2>3 DEF TypeOK
    <3> QED
      BY <2>1, <2>3, <3>1 DEF InviteRow
  <2> QED
    BY <2>2, <2>3
<1>8. LinksKept
  <2>1. invite' \in [Tokens -> InviteRow]
    BY <1>1, <1>2, <1>7 DEF TypeOK
  <2>2. \A t \in Tokens : invite'[t].of # None => member[invite'[t].of] # Absent
    BY <1>1, <1>7 DEF MembersFit
  <2> QED
    BY <1>1, <1>7, <2>1, <2>2 DEF LinksKept, MembersFit
<1>9. RequestFits(r)'
  <2>1. CarriesFit(req[r])'
    BY <1>1, <1>2, <1>3, <1>4, <1>6, <1>7, RoutesAre DEF CarriesFit
  <2>2. q.tok \in Tokens => invite'[q.tok].of = q.of
    BY <1>4, <1>7, OldLinks
  <2>3. member[q.of] # Absent
    BY <1>1, <1>2, <1>4 DEF RequestFits, Working
  <2>4. StageFits(req[r])'
    BY <1>3, <1>5 DEF StageFits
  <2> QED
    BY <1>2, <1>3, <1>4, <2>1, <2>2, <2>3, <2>4 DEF RequestFits, HoldsLink
<1>10. ~HoldsLink(q)
  BY <1>2, <1>4 DEF HoldsLink
<1>11. \A x \in Requests \ {r} : HoldsLink(req[x]) => req[x].tok \in Tokens /\ req[x].tok # req[r].tok
  BY <1>6 DEF WorkInv, RequestFits
<1>12. \A x \in Requests \ {r} : HoldsLink(req[x]) =>
               /\ invite'[req[x].tok].sent = invite[req[x].tok].sent
               /\ invite'[req[x].tok].used = invite[req[x].tok].used
  BY <1>7, <1>11
<1> QED
  BY <1>2, <1>3, <1>8, <1>9, <1>10, <1>12, LinkStep

LEMMA ExpiryWorks ==
    ASSUME WorkInv, Entitle, NEW t \in Tokens, LinkExpires(t)
    PROVE  WorkInv'
<1>1. TypeOK /\ MembersFit
  BY DEF WorkInv
<1>2. /\ UNCHANGED <<load, member, access, password, session, replaced, estate, req>>
      /\ invite' = [invite EXCEPT ![t].ends = "lapsed"]
  BY DEF LinkExpires
<1>3. \A x \in Tokens : /\ invite'[x] \in InviteRow
                        /\ invite'[x].of = invite[x].of /\ invite'[x].purpose = invite[x].purpose
                        /\ invite'[x].sent = invite[x].sent /\ invite'[x].used = invite[x].used
  <2> SUFFICES ASSUME NEW x \in Tokens
               PROVE  /\ invite'[x] \in InviteRow
                      /\ invite'[x].of = invite[x].of /\ invite'[x].purpose = invite[x].purpose
                      /\ invite'[x].sent = invite[x].sent /\ invite'[x].used = invite[x].used
    OBVIOUS
  <2>1. invite[x] \in InviteRow
    BY <1>1 DEF TypeOK
  <2>2. CASE x # t
    BY <1>1, <1>2, <2>1, <2>2 DEF TypeOK
  <2>3. CASE x = t
    <3>1. invite'[x] = [invite[x] EXCEPT !.ends = "lapsed"]
      BY <1>1, <1>2, <2>3 DEF TypeOK
    <3> QED
      BY <2>1, <3>1 DEF InviteRow
  <2> QED
    BY <2>2, <2>3
<1>4. \A x \in Requests : RequestFits(x)'
  <2>1. DataKept
    BY <1>2, <1>3 DEF DataKept
  <2>2. \A x \in Requests : HoldsLink(req[x]) => req[x].tok \in Tokens
    BY DEF WorkInv, RequestFits
  <2> QED
    BY <1>2, <1>3, <2>1, <2>2, OthersFit
<1>5. MembersFit'
  BY <1>1, <1>2, <1>3 DEF MembersFit
<1>6. OwnLinks'
  BY <1>2 DEF WorkInv, OwnLinks, HoldsLink
<1>7. TypeOK'
  <2>1. entitled' \in [Requests -> SUBSET {"rights", "scope", "venue"}]
    BY <1>1, EntitledTyped
  <2>2. invite' \in [Tokens -> InviteRow]
    BY <1>1, <1>2, <1>3 DEF TypeOK
  <2>3. \A x \in Requests : req'[x].tok \in Tokens => invite'[req'[x].tok].of = req'[x].of
    BY <1>1, <1>2, <1>3 DEF TypeOK
  <2> QED
    BY <1>1, <1>2, <2>1, <2>2, <2>3 DEF TypeOK, estate
<1> QED
  BY <1>4, <1>5, <1>6, <1>7 DEF WorkInv

LEMMA CreateStaffWorks ==
    ASSUME WorkInv, Entitle, NEW r \in Requests, CreateStaff(r)
    PROVE  WorkInv'
<1> DEFINE m == req[r].of
<1>1. req[r] \in RequestRow /\ RequestFits(r) /\ StageFits(req[r]) /\ CarriesFit(req[r]) /\ TypeOK /\ MembersFit
  BY DEF WorkInv, TypeOK, RequestFits
<1>2. req[r].kind = "CREATE" /\ req[r].pc = "begin" /\ InFlight(r) /\ UNCHANGED <<load, estate>>
  BY DEF CreateStaff, InFlight
<1>3. m \in Members /\ m # None
  BY <1>1, <1>2, WorkspaceAssumption DEF CarriesFit, StaffRoutes
<1>4. CASE (\E ans \in Nat : Answer(r, ans)) /\ UNCHANGED account
  BY <1>2, <1>4, AnswerStep
<1>5. ASSUME NEW t \in FreshTokens, InsertStaff(r, m, req[r].perms, req[r].want, t),
             req' = [req EXCEPT ![r].pc = "answer", ![r].tok = t, ![r].wrote = TRUE],
             req[r].want \subseteq OwnVenues, UNCHANGED <<password, session>>
      PROVE  WorkInv'
  <2> DEFINE b == Wrote(req[r], "answer")
             q == [b EXCEPT !.tok = t]
             row == [status |-> "ACTIVE", invitation |-> "INVITED", perms |-> req[r].perms]
             rows == [v \in OwnVenues |-> IF v \in req[r].want THEN r ELSE None]
  <2>1. MovesTo(req[r], "answer")
    BY <1>2 DEF StaffRoutes, MovesTo
  <2>2. /\ b \in RequestRow /\ StageFits(b) /\ b.wrote /\ b.kind = req[r].kind /\ b.who = req[r].who /\ b.of = req[r].of
        /\ b.venue = req[r].venue /\ b.to = req[r].to /\ b.want = req[r].want /\ b.pc = "answer"
    <3>1. req[r].pc # "idle" /\ "answer" \in Pcs \ {"idle"}
      BY <1>2, PointsAre
    <3> QED
      BY <1>1, <2>1, <3>1, WroteMoves
  <2>3. req' = [req EXCEPT ![r] = q]
    BY <1>5 DEF Wrote
  <2> HIDE DEF b
  <2>4. /\ t \in Tokens /\ invite' \in [Tokens -> InviteRow]
        /\ \A x \in Tokens \ {t} : invite'[x] = invite[x]
        /\ invite'[t].of = m /\ invite'[t].purpose = "SET_PASSWORD"
        /\ ~invite'[t].sent /\ ~invite'[t].used
    BY <1>1, <1>3, <1>5, NewLink DEF InsertStaff
  <2>5. /\ q \in RequestRow /\ q.kind = b.kind /\ q.who = b.who /\ q.of = b.of /\ q.venue = b.venue
        /\ q.to = b.to /\ q.want = b.want /\ q.pc = b.pc /\ q.tok = t /\ q.wrote = b.wrote
    BY <2>2, <2>4 DEF RequestRow
  <2> HIDE DEF q
  <2>6. req'[r] = q /\ \A x \in Requests \ {r} : req'[x] = req[x]
    BY <1>1, <2>3 DEF TypeOK
  <2>7. invite[t].of = None
    BY DEF FreshTokens
  <2>8. row \in MemberRow /\ row # Absent
    BY <1>1 DEF MemberRow, RequestRow, Absent
  <2>9. /\ member' = [member EXCEPT ![m] = row]
        /\ access' = [access EXCEPT ![m] = rows]
        /\ replaced' = [replaced EXCEPT ![m] = [by |-> r, venues |-> req[r].want]]
    BY <1>5 DEF InsertStaff
  <2>10. member' \in [Members -> MemberRow] /\ \A x \in Members : member'[x] = IF x = m THEN row ELSE member[x]
    BY <1>1, <1>3, <2>8, <2>9 DEF TypeOK
  <2>11. DataKept
    BY <2>4, <2>7, <2>8, <2>10 DEF DataKept
  <2>12. MembersFit'
    <3>1. \A x \in Members : member'[x].status = "none" => member'[x] = Absent
      BY <1>1, <2>10 DEF MembersFit
    <3>2. \A x \in Tokens : invite'[x].of # None => member'[invite'[x].of] # Absent
      <4> SUFFICES ASSUME NEW x \in Tokens, invite'[x].of # None PROVE member'[invite'[x].of] # Absent
        OBVIOUS
      <4>1. CASE x = t
        BY <1>3, <2>4, <2>8, <2>10, <4>1
      <4>2. CASE x # t
        <5>1. invite[x].of \in Members /\ member[invite[x].of] # Absent /\ invite'[x] = invite[x]
          BY <1>1, <2>4, <4>2 DEF TypeOK, InviteRow, MembersFit
        <5> QED
          BY <2>8, <2>10, <5>1
      <4> QED
        BY <4>1, <4>2
    <3>3. \A x \in Tokens : invite'[x].sent => invite'[x].of # None
      BY <1>1, <2>4 DEF MembersFit
    <3> QED
      BY <3>1, <3>2, <3>3 DEF MembersFit
  <2>13. TypeOK'
    <3>1. entitled' \in [Requests -> SUBSET {"rights", "scope", "venue"}]
      BY <1>1, EntitledTyped
    <3>2. session' \subseteq {x \in Members : member'[x] # Absent}
      BY <1>1, <1>5, <2>8, <2>10 DEF TypeOK
    <3>3. AccessTyped'
      <4>1. rows \in AccessRows
        BY DEF AccessRows
      <4> HIDE DEF rows, row, m
      <4> QED
        BY <1>1, <1>3, <1>5, <2>9, <4>1 DEF TypeOK, AccessTyped
    <3>4. \A x \in Requests : req'[x].tok \in Tokens => invite'[req'[x].tok].of = req'[x].of
      <4> SUFFICES ASSUME NEW x \in Requests, req'[x].tok \in Tokens PROVE invite'[req'[x].tok].of = req'[x].of
        OBVIOUS
      <4>1. CASE x = r
        BY <2>2, <2>4, <2>5, <2>6, <4>1
      <4>2. CASE x # r
        <5>1. req'[x] = req[x] /\ invite[req[x].tok].of = req[x].of /\ invite[req[x].tok].of # None
          BY <2>6, <4>2, OldLinks
        <5> QED
          BY <2>4, <2>7, <5>1
      <4> QED
        BY <4>1, <4>2
    <3>5. req' \in [Requests -> RequestRow]
      BY <1>1, <2>3, <2>5 DEF TypeOK
    <3>6. /\ load' = load /\ owner' = owner /\ venue' = venue /\ content' = content
          /\ password' = password
      BY <1>2, <1>5 DEF estate
    <3> QED
      BY <1>1, <2>4, <2>10, <3>1, <3>2, <3>3, <3>4, <3>5, <3>6 DEF TypeOK, AccessTyped
  <2>14. RequestFits(r)'
    <3>1. StageFits(req[r])'
      BY <2>6, <1>2, <2>2, <2>5 DEF StageFits, StaffRoutes
    <3>2. CarriesFit(req[r])'
      BY <1>2, <1>3, <2>2, <2>4, <2>5, <2>6, RoutesAre DEF CarriesFit
    <3>3. q.pc \notin Working
      BY <2>2, <2>5 DEF Working
    <3>4. PurposeOf("CREATE") = "SET_PASSWORD"
      BY DEF PurposeOf
    <3> QED
      BY <1>2, <2>2, <2>4, <2>5, <2>6, <3>1, <3>2, <3>3, <3>4 DEF RequestFits, HoldsLink
  <2>15. \A x \in Requests \ {r} : HoldsLink(req[x]) => invite'[req[x].tok] = invite[req[x].tok]
    <3> SUFFICES ASSUME NEW x \in Requests \ {r}, HoldsLink(req[x]) PROVE invite'[req[x].tok] = invite[req[x].tok]
      OBVIOUS
    <3>1. req[x].tok \in Tokens
      BY DEF WorkInv, RequestFits
    <3>2. req[x].tok # t
      BY <2>7, <3>1, OldLinks
    <3> QED
      BY <2>4, <3>1, <3>2
  <2> QED
    BY <2>3, <2>5, <2>11, <2>12, <2>13, <2>14, <2>15, RequestStep
<1>6. CASE \E t \in FreshTokens :
              /\ InsertStaff(r, m, req[r].perms, req[r].want, t)
              /\ req' = [req EXCEPT ![r].pc = "answer", ![r].tok = t, ![r].wrote = TRUE]
              /\ req[r].want \subseteq OwnVenues /\ UNCHANGED <<password, session>>
  BY <1>5, <1>6
<1>7. CASE /\ \E ans \in {CreateStaffAnswer.InvalidVenueAccess, CreateStaffAnswer.EmailAlreadyUsed} : Answer(r, ans)
           /\ UNCHANGED account
  BY <1>4, <1>7, AnswersNat
<1> QED
  BY <1>6, <1>7, Zenon DEF CreateStaff, validateVenueOwnership

----------------------------------------------------------------------------
(* Every state.                                                            *)

LEMMA IdleFits ==
    StageFits(Idle) /\ CarriesFit(Idle) /\ Idle.pc = "idle" /\ Idle.tok = None /\ ~HoldsLink(Idle)
  BY RoutesAre, WorkspaceAssumption
  DEF Idle, StageFits, CarriesFit, HoldsLink, StaffRoutes, AdminRoutes, Noted

LEMMA InitWorks ==
    ASSUME Init
    PROVE  WorkInv
<1>1. PICK s \in Starts :
         /\ load = s.load
         /\ member = s.member /\ invite = s.invite
         /\ access = [m \in Members |-> [v \in OwnVenues |-> IF v \in s.access[m] THEN "earlier" ELSE None]]
         /\ replaced = [m \in Members |-> [by |-> "earlier", venues |-> s.access[m]]]
         /\ session = {m \in Members : s.member[m].invitation = "ACTIVE"}
         /\ password = [m \in Members |-> IF s.member[m].invitation = "ACTIVE" THEN "earlier" ELSE None]
  BY DEF Init
<1>2. /\ load \in Load /\ member \in [Members -> MemberRow]
      /\ s.access \in [Members -> SUBSET OwnVenues] /\ invite \in [Tokens -> InviteRow]
      /\ \A m \in Members : member[m].status = "none" => member[m] = Absent
      /\ \A t \in Tokens : invite[t] = NoInvite \/ (invite[t].of # None /\ member[invite[t].of] # Absent)
  BY <1>1, StartsAssumption
<1>3. \A r \in Requests : req[r] = Idle
  BY DEF Init
<1>4. TypeOK
  <2>1. session \subseteq {m \in Members : member[m] # Absent}
    BY <1>1 DEF Absent
  <2>2. content \in [Venues -> [Parts -> Requests \cup {None}]]
    BY DEF Init
  <2>3. req \in [Requests -> RequestRow] /\ \A r \in Requests : req[r].tok \notin Tokens
    BY <1>3, IdleTyped, IdleFits, WorkspaceAssumption DEF Init
  <2>4. password \in [Members -> Requests \cup {None, "earlier"}]
    BY <1>1
  <2>5. /\ owner \in {"ACTIVE", "SUSPENDED"} /\ venue \in [Venues -> {"LISTED", "SUSPENDED"}]
        /\ entitled \in [Requests -> SUBSET {"rights", "scope", "venue"}]
    BY DEF Init
  <2>6. AccessTyped
    BY <1>1, <1>2 DEF AccessTyped, AccessRows
  <2> QED
    BY <1>2, <2>1, <2>2, <2>3, <2>4, <2>5, <2>6 DEF TypeOK, AccessTyped
<1>5. \A r \in Requests : RequestFits(r)
  <2>1. StageFits(Idle) /\ CarriesFit(Idle) /\ Idle.tok \notin Tokens /\ Idle.pc \notin Working /\ ~HoldsLink(Idle)
    BY IdleFits, WorkspaceAssumption DEF Working
  <2> QED
    BY <1>3, <2>1 DEF RequestFits
<1>6. MembersFit
  BY <1>2 DEF MembersFit, NoInvite
<1>7. OwnLinks
  BY <1>3, IdleFits DEF OwnLinks
<1> QED
  BY <1>4, <1>5, <1>6, <1>7 DEF WorkInv

\* The actions, by what they change.
LoginStep(r) == UpdateUserPassword(r) \/ GetStaffMemberships(r)
InviteStep(r) ==
    InvalidateStaffInvites(r) \/ NewInvite(r) \/ SendLink(r) \/ MarkStaffInviteUsed(r) \/ CreateStaff(r)
Handles(r) ==
    \/ Arrive(r) \/ CheckStep(r) \/ EndingStep(r) \/ EstateStep(r) \/ LoginStep(r)
    \/ MembershipStep(r) \/ InviteStep(r)

LEMMA StepIs ==
    ASSUME Step
    PROVE  (\E r \in Requests : Handles(r)) \/ \E t \in Tokens : LinkExpires(t)
<1>1. CASE \E t \in Tokens : LinkExpires(t)
  BY <1>1
<1>2. ASSUME ~(\E t \in Tokens : LinkExpires(t)) PROVE \E r \in Requests : Handles(r)
  BY <1>2, Zenon DEF Step, Handles, CheckStep, EndingStep, EstateStep, LoginStep, MembershipStep, InviteStep
<1> QED
  BY <1>1, <1>2

LEMMA WorkStep ==
    ASSUME WorkInv, [Next]_vars
    PROVE  WorkInv'
<1>1. ASSUME Step, Entitle PROVE WorkInv'
  <2>1. ASSUME NEW r \in Requests, Handles(r) PROVE WorkInv'
    <3>1. CASE InviteStep(r)
      BY <1>1, <3>1, InvalidateWorks, NewInviteWorks, SendLinkWorks, MarkUsedWorks, CreateStaffWorks
      DEF InviteStep
    <3>2. CASE LoginStep(r)
      BY <1>1, <3>2, LoginWorks DEF LoginStep
    <3> QED
      BY <1>1, <2>1, <3>1, <3>2, ArriveWorks, ChecksWork, EndingsWork, EstateWorks, MembershipsWork DEF Handles
  <2> QED
    BY <1>1, <2>1, StepIs, ExpiryWorks
<1>2. CASE UNCHANGED vars
  <2>1. /\ load' = load /\ owner' = owner /\ member' = member /\ access' = access /\ replaced' = replaced
        /\ password' = password /\ session' = session /\ invite' = invite /\ venue' = venue
        /\ content' = content /\ req' = req /\ entitled' = entitled
    BY <1>2 DEF vars, account, estate
  <2>2. TypeOK'
    BY <2>1 DEF WorkInv, TypeOK
  <2>3. \A r \in Requests : RequestFits(r)'
    BY <2>1 DEF WorkInv, RequestFits, CarriesFit, StageFits, HoldsLink
  <2>4. MembersFit' /\ OwnLinks'
    BY <2>1 DEF WorkInv, MembersFit, OwnLinks, HoldsLink
  <2> QED
    BY <2>2, <2>3, <2>4 DEF WorkInv
<1> QED
  BY <1>1, <1>2 DEF Next

\* The tables keep their enums, and no request works with a token that nobody
\* created or a membership that is not there.
THEOREM WorkspaceTypeCorrect == Spec => []TypeOK
<1>1. Init => WorkInv
  BY InitWorks
<1>2. WorkInv /\ [Next]_vars => WorkInv'
  BY WorkStep
<1>3. WorkInv => TypeOK
  BY DEF WorkInv
<1> QED
  BY <1>1, <1>2, <1>3, PTL DEF Spec

----------------------------------------------------------------------------
(* A request under way stays the request it is.                            *)

\* r becomes q: the same request, further on.  One that starts to replace the
\* venues of a member has seen the rows there are.
Becomes(r, q) ==
    /\ req' = [req EXCEPT ![r] = q] /\ q \in RequestRow
    /\ q.kind = req[r].kind /\ q.who = req[r].who /\ q.of = req[r].of /\ q.rivals = req[r].rivals
    /\ q.pc # "idle"
    /\ q.pc = "replace" => q.saw = access[q.of]
    /\ q.pc # "done" => q.ans = req[r].ans
Advances(r) == InFlight(r) /\ \E q : Becomes(r, q)

LEMMA EndAdvances ==
    ASSUME WorkInv, NEW r \in Requests, InFlight(r), NEW ans \in Nat, NEW logged \in BOOLEAN,
           NEW q \in Ends(r, ans, logged), req' = [req EXCEPT ![r] = q]
    PROVE  Advances(r)
<1>1. /\ q \in RequestRow /\ q.pc = "done" /\ q.kind = req[r].kind /\ q.of = req[r].of
      /\ q.who = req[r].who /\ q.rivals = req[r].rivals
  BY OverFits DEF WorkInv
<1> QED
  BY <1>1 DEF Advances, Becomes

LEMMA AnswerAdvances ==
    ASSUME WorkInv, NEW r \in Requests, InFlight(r), NEW ans \in Nat, Answer(r, ans) \/ Record(r, ans)
    PROVE  Advances(r)
<1>1. \A logged \in BOOLEAN : Over(r, ans, logged) \in Ends(r, ans, logged)
  BY DEF Ends
<1>2. PICK logged \in BOOLEAN : req' = [req EXCEPT ![r] = Over(r, ans, logged)]
  BY DEF Answer, Record
<1> QED
  BY <1>1, <1>2, EndAdvances

\* A request that moves on to p, with what it notes on the way.
LEMMA MoveAdvances ==
    ASSUME WorkInv, NEW r \in Requests, InFlight(r), NEW p \in Pcs \ {"idle", "replace", "done"},
           NEW tok \in Tokens \cup Requests \cup {None}, NEW wrote \in BOOLEAN, NEW ctx \in SUBSET Venues,
           req' = [req EXCEPT ![r] = [req[r] EXCEPT !.pc = p, !.tok = tok, !.wrote = wrote, !.ctx = ctx]]
    PROVE  Advances(r)
<1> DEFINE q == [req[r] EXCEPT !.pc = p, !.tok = tok, !.wrote = wrote, !.ctx = ctx]
<1>1. req[r] \in RequestRow
  BY DEF WorkInv, TypeOK
<1>2. /\ q \in RequestRow /\ q.pc = p /\ q.kind = req[r].kind /\ q.of = req[r].of
      /\ q.who = req[r].who /\ q.rivals = req[r].rivals /\ q.ans = req[r].ans
  BY <1>1 DEF RequestRow
<1> QED
  BY <1>2 DEF Advances, Becomes

LEMMA GoAdvances ==
    ASSUME WorkInv, NEW r \in Requests, InFlight(r), NEW p \in Pcs \ {"idle", "replace", "done"},
           \/ Goes(r, p)
           \/ req' = [req EXCEPT ![r].pc = p, ![r].wrote = TRUE]
           \/ \E ctx \in SUBSET Venues : req' = [req EXCEPT ![r].pc = p, ![r].ctx = ctx]
    PROVE  Advances(r)
<1> DEFINE q == req[r]
           to(tok, wrote, ctx) == [q EXCEPT !.pc = p, !.tok = tok, !.wrote = wrote, !.ctx = ctx]
<1>1. q \in RequestRow /\ q.tok \in Tokens \cup Requests \cup {None} /\ q.wrote \in BOOLEAN /\ q.ctx \in SUBSET Venues
  BY DEF WorkInv, TypeOK, RequestRow
<1>5. \A tok \in Tokens \cup Requests \cup {None}, wrote \in BOOLEAN, ctx \in SUBSET Venues :
         req' = [req EXCEPT ![r] = to(tok, wrote, ctx)] => Advances(r)
  BY MoveAdvances
<1>2. CASE Goes(r, p)
  <2>1. [q EXCEPT !.pc = p] = to(q.tok, q.wrote, q.ctx)
    BY <1>1 DEF RequestRow
  <2> HIDE DEF to
  <2> QED
    BY <1>1, <1>2, <1>5, <2>1 DEF Goes
<1>3. CASE req' = [req EXCEPT ![r].pc = p, ![r].wrote = TRUE]
  <2>1. [q EXCEPT !.pc = p, !.wrote = TRUE] = to(q.tok, TRUE, q.ctx)
    BY <1>1 DEF RequestRow
  <2>2. req' = [req EXCEPT ![r] = [q EXCEPT !.pc = p, !.wrote = TRUE]]
    BY <1>3
  <2> HIDE DEF to, q
  <2> QED
    BY <1>1, <1>5, <2>1, <2>2
<1>4. ASSUME NEW ctx \in SUBSET Venues, req' = [req EXCEPT ![r].pc = p, ![r].ctx = ctx] PROVE Advances(r)
  <2>1. [q EXCEPT !.pc = p, !.ctx = ctx] = to(q.tok, q.wrote, ctx)
    BY <1>1 DEF RequestRow
  <2>2. req' = [req EXCEPT ![r] = [q EXCEPT !.pc = p, !.ctx = ctx]]
    BY <1>4
  <2> HIDE DEF to, q
  <2> QED
    BY <1>1, <1>5, <2>1, <2>2
<1> QED
  BY <1>2, <1>3, <1>4

LEMMA LinkAdvances ==
    ASSUME WorkInv, NEW r \in Requests, InFlight(r), NEW p \in Pcs \ {"idle", "replace", "done"}, NEW t \in Tokens,
           \/ req' = [req EXCEPT ![r].pc = p, ![r].tok = t, ![r].wrote = TRUE]
           \/ req' = [req EXCEPT ![r].tok = t, ![r].wrote = TRUE, ![r].pc = p]
    PROVE  Advances(r)
<1> DEFINE q == req[r]
           to(tok, wrote, ctx) == [q EXCEPT !.pc = p, !.tok = tok, !.wrote = wrote, !.ctx = ctx]
<1>1. q \in RequestRow /\ q.ctx \in SUBSET Venues
  BY DEF WorkInv, TypeOK, RequestRow
<1>2. /\ [q EXCEPT !.pc = p, !.tok = t, !.wrote = TRUE] = to(t, TRUE, q.ctx)
      /\ [q EXCEPT !.tok = t, !.wrote = TRUE, !.pc = p] = to(t, TRUE, q.ctx)
  BY <1>1 DEF RequestRow
<1>3. req' = [req EXCEPT ![r] = to(t, TRUE, q.ctx)]
  BY <1>2
<1> QED
  BY <1>1, <1>3, MoveAdvances

\* Every step of a request that has arrived.
LEMMA HandlesAdvances ==
    ASSUME WorkInv, NEW r \in Requests, Handles(r), ~Arrive(r)
    PROVE  Advances(r)
<1>1. req[r] \in RequestRow /\ RequestFits(r) /\ StageFits(req[r]) /\ CarriesFit(req[r]) /\ TypeOK
  BY DEF WorkInv, TypeOK, RequestFits
<1>2. \A ans \in Nat : InFlight(r) /\ (Answer(r, ans) \/ Record(r, ans)) => Advances(r)
  BY AnswerAdvances
<1>3. \A p \in Pcs \ {"idle", "replace", "done"} :
         InFlight(r) /\ (Goes(r, p) \/ req' = [req EXCEPT ![r].pc = p, ![r].wrote = TRUE]) => Advances(r)
  BY GoAdvances
<1>4. {"active", "workspace", "begin", "invalidate", "invite", "invited", "answer", "password", "used",
       "activate", "memberships", "status", "court", "hours", "mutate"} \subseteq Pcs \ {"idle", "replace", "done"}
  BY PointsAre
<1>5. CASE RequireActiveUser(r)
  <2>1. InFlight(r) /\ (Answer(r, 403) \/ Goes(r, "begin") \/ Goes(r, "workspace"))
    BY <1>5 DEF RequireActiveUser, InFlight
  <2>2. CASE Answer(r, 403)
    BY <1>2, <2>1, <2>2, AnswersNat
  <2> QED
    BY <1>3, <1>4, <2>1, <2>2
<1>6. CASE OwnerWorkspaceAccess(r)
  <2>2. req[r].who \in Members \cup {"owner"} /\ InFlight(r)
    BY <1>1, <1>6 DEF OwnerWorkspaceAccess, StageFits, InFlight
  <2>3. (IF req[r].who = "owner" THEN Venues ELSE GetStaffContext(req[r].who).venues) \in SUBSET Venues
    BY WorkspaceAssumption DEF GetStaffContext, VenuesOf
  <2>4. CASE Answer(r, 403)
    BY <1>2, <2>2, <2>4, AnswersNat
  <2>5. CASE \E ctx \in SUBSET Venues : req' = [req EXCEPT ![r].pc = "begin", ![r].ctx = ctx]
    BY <1>4, <2>2, <2>5, GoAdvances
  <2> QED
    BY <1>6, <2>3, <2>4, <2>5 DEF OwnerWorkspaceAccess
<1>7. CASE RegenerateInvite(r) \/ ResetPasswordToken(r)
  BY <1>2, <1>3, <1>4, <1>7, AnswersNat DEF RegenerateInvite, ResetPasswordToken, InFlight
<1>8. CASE SetupPassword(r) \/ Login(r)
  BY <1>2, <1>3, <1>4, <1>8, AnswersNat DEF SetupPassword, Login, InFlight
<1>9. CASE UpdateStaff(r) \/ UpdateVenues(r)
  <2>1. InFlight(r)
    BY <1>9 DEF UpdateStaff, UpdateVenues, InFlight
  <2>2. CASE StartReplacing(r)
    <3> DEFINE q == [req[r] EXCEPT !.pc = "replace", !.saw = access[req[r].of]]
    <3>1. req[r].of \in Members /\ access[req[r].of] \in AccessRows
      BY <1>1, <1>9 DEF UpdateStaff, UpdateVenues, CarriesFit, StaffRoutes, TypeOK
    <3>2. /\ q \in RequestRow /\ q.pc = "replace" /\ q.kind = req[r].kind /\ q.of = req[r].of
          /\ q.who = req[r].who /\ q.rivals = req[r].rivals /\ q.ans = req[r].ans
          /\ q.saw = access[req[r].of]
      BY <1>1, <3>1, PointsAre DEF RequestRow
    <3>3. req' = [req EXCEPT ![r] = q]
      BY <2>2 DEF StartReplacing
    <3> QED
      BY <2>1, <3>2, <3>3 DEF Advances, Becomes
  <2>3. CASE \E ans \in {UpdateStaffAnswer.StaffNotFound, UpdateStaffAnswer.InvalidVenueAccess,
                         UpdateVenuesAnswer.StaffNotFound, UpdateVenuesAnswer.InvalidVenueAccess} : Answer(r, ans)
    BY <1>2, <2>1, <2>3, AnswersNat
  <2> QED
    BY <1>9, <2>2, <2>3 DEF UpdateStaff, UpdateVenues
<1>10. CASE FindOldStatus(r) \/ CreateCourt(r) \/ FindOwnedCourt(r) \/ StartAdmin(r)
  <2>1. InFlight(r)
    BY <1>10 DEF FindOldStatus, CreateCourt, FindOwnedCourt, StartAdmin, InFlight
  <2>2. \/ \E ans \in {UpdateStatusAnswer.StaffNotFound, respondCourtError.VenueNotFound,
                      respondScheduleError.CourtNotFound, 408} : Answer(r, ans)
        \/ \E p \in {"status", "court", "hours", "mutate"} : Goes(r, p)
    BY <1>10 DEF FindOldStatus, CreateCourt, FindOwnedCourt, StartAdmin
  <2>3. ASSUME NEW p \in {"status", "court", "hours", "mutate"}, Goes(r, p) PROVE Advances(r)
    BY <1>3, <1>4, <2>1, <2>3
  <2>4. ASSUME NEW ans \in {UpdateStatusAnswer.StaffNotFound, respondCourtError.VenueNotFound,
                           respondScheduleError.CourtNotFound, 408}, Answer(r, ans)
        PROVE  Advances(r)
    BY <1>2, <2>1, <2>4, AnswersNat
  <2> QED
    BY <2>2, <2>3, <2>4
<1>11. CASE DeadlinePasses(r)
  <2> DEFINE q == [req[r] EXCEPT !.late = TRUE]
  <2>1. /\ q \in RequestRow /\ q.pc = req[r].pc /\ q.kind = req[r].kind /\ q.of = req[r].of
        /\ q.who = req[r].who /\ q.rivals = req[r].rivals /\ q.ans = req[r].ans
    BY <1>1 DEF RequestRow
  <2>2. InFlight(r) /\ req' = [req EXCEPT ![r] = q] /\ req[r].pc \notin {"idle", "replace"}
    BY <1>1, <1>11 DEF DeadlinePasses, InFlight, StageFits, AdminRoutes
  <2> HIDE DEF q
  <2> QED
    BY <2>1, <2>2 DEF Advances, Becomes
<1>12. CASE EndingStep(r)
  <2>1. InFlight(r)
    BY <1>12 DEF EndingStep, Fails, PasswordSet, StaffChanged, AdminAnswers, InFlight
  <2>2. \E ans \in {400, 403, 500, 200, SetupPasswordAnswer.OK, UpdateStaffAnswer.OK, UpdateVenuesAnswer.OK,
                  UpdateStatusAnswer.OK} : Answer(r, ans) \/ Record(r, ans)
    BY <1>12 DEF FailureAnswer, EndingStep, Fails, PasswordSet, StaffChanged, AdminAnswers
  <2> QED
    BY <1>2, <2>1, <2>2, AnswersNat
<1>13. CASE EstateStep(r)
  <2>1. CASE WriteOrAnswer(r)
    <3>1. PICK ans \in Nat : (\E part \in Parts : Writes(r, part, ans)) \/ Answer(r, ans)
      BY <2>1 DEF WriteOrAnswer
    <3>2. [Over(r, ans, FALSE) EXCEPT !.wrote = TRUE] \in Ends(r, ans, FALSE)
      BY DEF Ends
    <3>3. InFlight(r)
      BY <2>1 DEF WriteOrAnswer
    <3>4. CASE \E part \in Parts : Writes(r, part, ans)
      BY <3>2, <3>3, <3>4, EndAdvances DEF Writes
    <3> QED
      BY <1>2, <3>1, <3>3, <3>4
  <2>2. CASE UpdateOwnerStatus(r) \/ SuspendVenue(r)
    BY <1>3, <1>4, <2>2 DEF UpdateOwnerStatus, SuspendVenue, InFlight
  <2> QED
    BY <1>13, <2>1, <2>2, WriteOrAnswerIs DEF EstateStep
<1>14. CASE LoginStep(r)
  BY <1>2, <1>3, <1>4, <1>14, AnswersNat DEF LoginStep, UpdateUserPassword, GetStaffMemberships, InFlight
<1>15. CASE MarkInvited(r) \/ MarkActive(r) \/ UpdateStatus(r)
  BY <1>3, <1>4, <1>15 DEF MarkInvited, MarkActive, UpdateStatus, UpdateStaffInvitationStatus, InFlight
<1>16. CASE ReplaceVenueAccess(r)
  <2>1. InFlight(r)
    BY <1>16 DEF ReplaceVenueAccess, InFlight
  <2>2. \/ \E ans \in {UpdateStaffAnswer.PhoneAlreadyUsed, UpdateVenuesAnswer.Other} : Answer(r, ans)
        \/ req' = [req EXCEPT ![r].pc = "answer", ![r].wrote = TRUE]
    BY <1>16 DEF ReplaceVenueAccess, Replaces
  <2> QED
    BY <1>2, <1>3, <1>4, <2>1, <2>2, AnswersNat
<1>17. CASE InvalidateStaffInvites(r) \/ MarkStaffInviteUsed(r)
  BY <1>3, <1>4, <1>17 DEF InvalidateStaffInvites, MarkStaffInviteUsed, InFlight
<1>18. CASE SendLink(r)
  <2>1. \E ans \in {CreateStaffAnswer.OK, ResetPasswordAnswer.OK, RegenerateInviteAnswer.OK} : Record(r, ans)
    BY <1>18 DEF SendLink
  <2>2. InFlight(r)
    BY <1>18 DEF SendLink, InFlight
  <2> QED
    BY <1>2, <2>1, <2>2, AnswersNat
<1>19. CASE NewInvite(r)
  <2>1. InFlight(r) /\ FreshTokens \subseteq Tokens
    BY <1>19 DEF NewInvite, InFlight, FreshTokens
  <2>2. PICK t \in Tokens, p \in {"answer", "invited"} :
           req' = [req EXCEPT ![r].tok = t, ![r].wrote = TRUE, ![r].pc = p]
    BY <1>19, <2>1 DEF NewInvite
  <2> QED
    BY <1>4, <2>1, <2>2, LinkAdvances
<1>20. CASE CreateStaff(r)
  <2>1. InFlight(r) /\ FreshTokens \subseteq Tokens
    BY <1>20 DEF CreateStaff, InFlight, FreshTokens
  <2>2. CASE \E t \in Tokens : req' = [req EXCEPT ![r].pc = "answer", ![r].tok = t, ![r].wrote = TRUE]
    BY <1>4, <2>1, <2>2, LinkAdvances
  <2>3. CASE \E ans \in {CreateStaffAnswer.InvalidVenueAccess, CreateStaffAnswer.EmailAlreadyUsed} : Answer(r, ans)
    BY <1>2, <2>1, <2>3, AnswersNat
  <2> QED
    BY <1>20, <2>1, <2>2, <2>3 DEF CreateStaff
<1> QED
  BY <1>5, <1>6, <1>7, <1>8, <1>9, <1>10, <1>11, <1>12, <1>13, <1>14, <1>15, <1>16, <1>17, <1>18, <1>19, <1>20
  DEF Handles, CheckStep, MembershipStep, InviteStep

\* r becomes q: a request that has just reached the server.
Joins(r, q) ==
    /\ req[r].pc = "idle"
    /\ req' = [req EXCEPT ![r] = q] /\ q \in RequestRow
    /\ q.kind \in Routes /\ q.pc \in {"active", "begin"} /\ ~q.wrote /\ q.ans = 0
    /\ q.kind \in Guarded => q.pc = "active"
    /\ q.rivals = {x \in Requests : InFlight(x) /\ req[x].kind \in Rivals(q.kind) /\ req[x].of = q.of}

LEMMA ArriveJoins ==
    ASSUME WorkInv, NEW r \in Requests, Arrive(r)
    PROVE  \E q : Joins(r, q)
<1>1. PICK k \in Routes, in \in RequestRow, rv \in SUBSET Requests, a \in Actors :
          /\ InputFits(k, in)
          /\ Auth(k, a)
          /\ req' = [req EXCEPT ![r] =
               [in EXCEPT !.kind = k, !.who = a, !.pc = IF a = "public" THEN "begin" ELSE "active",
                          !.rivals = rv]]
          /\ rv = {x \in Requests : InFlight(x) /\ req[x].kind \in Rivals(k) /\ req[x].of = in.of}
  BY Arrived, Zenon
<1> DEFINE q == [in EXCEPT !.kind = k, !.who = a, !.pc = IF a = "public" THEN "begin" ELSE "active",
                           !.rivals = rv]
<1>2. q \in RequestRow
  BY PointsAre DEF RequestRow
<1>3. /\ q.kind = k /\ q.of = in.of /\ q.wrote = in.wrote /\ q.ans = in.ans /\ q.rivals = rv
      /\ q.pc = IF a = "public" THEN "begin" ELSE "active"
  BY DEF RequestRow
<1>4. req' = [req EXCEPT ![r] = q] /\ req[r].pc = "idle"
  BY <1>1 DEF Arrive
<1>5. ~in.wrote /\ in.ans = 0
  BY <1>1 DEF InputFits, Bare
<1>6. k \in Guarded => a # "public"
  <2>1. session \subseteq Members /\ "public" \notin Members
    BY WorkspaceAssumption DEF WorkInv, TypeOK
  <2>4. StaffRoutes = {"CREATE", "UPDATE", "STATUS", "VENUES", "REGENERATE", "RESET"}
        /\ AdminRoutes = {"OWNER_STATUS", "SUSPEND"}
    BY DEF StaffRoutes, AdminRoutes
  <2>2. CASE k \in StaffRoutes \cup PermissionRoutes
    <3>1. a = "owner" \/ a \in session
      BY <1>1, <2>2, <2>4, RoutesAre DEF Auth
    <3> QED
      BY <2>1, <3>1
  <2>3. CASE k \in AdminRoutes
    <3>1. a = "admin"
      BY <1>1, <2>3, <2>4, RoutesAre DEF Auth
    <3> QED
      BY <3>1
  <2> QED
    BY <2>2, <2>3 DEF Guarded
<1> HIDE DEF q
<1>7. q.rivals = {x \in Requests : InFlight(x) /\ req[x].kind \in Rivals(q.kind) /\ req[x].of = q.of}
  BY <1>1, <1>3
<1>8. q.pc \in {"active", "begin"} /\ (q.kind \in Guarded => q.pc = "active")
  BY <1>3, <1>6
<1>9. q.kind \in Routes /\ ~q.wrote /\ q.ans = 0
  BY <1>3, <1>5
<1> QED
  BY <1>2, <1>4, <1>7, <1>8, <1>9 DEF Joins

\* What a step does to the requests.
LEMMA RequestsChange ==
    ASSUME WorkInv, [Next]_vars
    PROVE  req' = req \/ \E r \in Requests : Advances(r) \/ \E q : Joins(r, q)
<1>1. CASE Step
  <2>1. CASE \E t \in Tokens : LinkExpires(t)
    BY <2>1 DEF LinkExpires
  <2>2. ASSUME NEW r \in Requests, Handles(r) PROVE Advances(r) \/ \E q : Joins(r, q)
    BY <2>2, HandlesAdvances, ArriveJoins
  <2> QED
    BY <1>1, <2>1, <2>2, StepIs
<1>2. CASE UNCHANGED vars
  BY <1>2 DEF vars
<1> QED
  BY <1>1, <1>2 DEF Next

----------------------------------------------------------------------------
(* Overlapping requests.                                                   *)

\* Of two requests under way that replace the same rows, the later one knows.
OverlapsKnown ==
    \A r, x \in Requests :
       /\ r # x /\ InFlight(r) /\ InFlight(x)
       /\ req[r].kind \in Rivals(req[x].kind) /\ req[r].of = req[x].of
       => Overlap(r, x)

LEMMA RivalsMutual == \A j, k : j \in Rivals(k) => k \in Rivals(j)
  BY DEF Rivals

LEMMA OverlapsStep ==
    ASSUME WorkInv, OverlapsKnown, [Next]_vars
    PROVE  OverlapsKnown'
<1>1. CASE req' = req
  BY <1>1 DEF OverlapsKnown, Overlap, InFlight
<1>2. ASSUME NEW r \in Requests, Advances(r) PROVE OverlapsKnown'
  <2>1. PICK q : Becomes(r, q)
    BY <1>2 DEF Advances
  <2>2. /\ InFlight(r) /\ req'[r] = q /\ \A x \in Requests \ {r} : req'[x] = req[x]
        /\ q.kind = req[r].kind /\ q.of = req[r].of /\ q.rivals = req[r].rivals
    BY <1>2, <2>1 DEF Becomes, Advances, WorkInv, TypeOK
  <2> QED
    BY <2>2 DEF OverlapsKnown, Overlap, InFlight
<1>3. ASSUME NEW r \in Requests, NEW q, Joins(r, q) PROVE OverlapsKnown'
  <2>1. req'[r] = q /\ \A x \in Requests \ {r} : req'[x] = req[x]
    BY <1>3 DEF Joins, WorkInv, TypeOK
  <2>2. q.rivals = {x \in Requests : InFlight(x) /\ req[x].kind \in Rivals(q.kind) /\ req[x].of = q.of}
    BY <1>3 DEF Joins
  <2>3. SUFFICES ASSUME NEW a \in Requests, NEW b \in Requests, a # b, InFlight(a)', InFlight(b)',
                        req'[a].kind \in Rivals(req'[b].kind), req'[a].of = req'[b].of
                 PROVE  a \in req'[b].rivals \/ b \in req'[a].rivals
    BY DEF OverlapsKnown, Overlap
  <2>4. CASE a # r /\ b # r
    BY <2>1, <2>3, <2>4 DEF OverlapsKnown, Overlap, InFlight
  <2>5. CASE b = r
    BY <2>1, <2>2, <2>3, <2>5 DEF InFlight
  <2>6. CASE a = r
    BY <2>1, <2>2, <2>3, <2>6, RivalsMutual DEF InFlight
  <2> QED
    BY <2>4, <2>5, <2>6
<1> QED
  BY <1>1, <1>2, <1>3, RequestsChange

\* What overlapped stays known.
LEMMA OverlapsStay ==
    ASSUME WorkInv, [Next]_vars
    PROVE  /\ \A a, b : Overlap(a, b) => a \in Requests /\ b \in Requests
                                         /\ (a \in req'[b].rivals \/ b \in req'[a].rivals)
           /\ \A m : Overlapped(m) => Overlapped(m)'
<1>1. ASSUME NEW x \in Requests, req[x].rivals # {}
      PROVE  req'[x].of = req[x].of /\ req'[x].kind = req[x].kind /\ req'[x].rivals = req[x].rivals
  <2>1. ASSUME NEW r \in Requests, Advances(r)
        PROVE  req'[x].of = req[x].of /\ req'[x].kind = req[x].kind /\ req'[x].rivals = req[x].rivals
    BY <1>1, <2>1 DEF Advances, Becomes, WorkInv, TypeOK
  <2>2. ASSUME NEW r \in Requests, NEW q, Joins(r, q)
        PROVE  req'[x].of = req[x].of /\ req'[x].kind = req[x].kind /\ req'[x].rivals = req[x].rivals
    <3>1. req[r] = Idle
      BY <2>2 DEF Joins, WorkInv, RequestFits, StageFits
    <3>2. x # r
      BY <1>1, <3>1 DEF Idle
    <3> QED
      BY <1>1, <2>2, <3>2 DEF Joins, WorkInv, TypeOK
  <2> QED
    BY <1>1, <2>1, <2>2, RequestsChange
<1>2. \A a, b : Overlap(a, b) => a \in Requests /\ b \in Requests /\ (a \in req'[b].rivals \/ b \in req'[a].rivals)
  <2> SUFFICES ASSUME NEW a, NEW b, Overlap(a, b)
               PROVE  a \in Requests /\ b \in Requests /\ (a \in req'[b].rivals \/ b \in req'[a].rivals)
    OBVIOUS
  <2>1. a \in Requests /\ b \in Requests /\ (a \in req[b].rivals \/ b \in req[a].rivals)
    BY DEF Overlap
  <2> QED
    BY <1>1, <2>1
<1>3. \A m : Overlapped(m) => Overlapped(m)'
  BY <1>1 DEF Overlapped
<1> QED
  BY <1>2, <1>3


----------------------------------------------------------------------------
(* The venues of a member.                                                 *)

\* A row that a DELETE did not see is the row of a request that ran beside it.
SnapshotFits(r) ==
    req[r].pc = "replace" =>
       \A v \in OwnVenues :
          access[req[r].of][v] \in {None, req[r].saw[v]} \/ Overlap(access[req[r].of][v], r)
SnapshotsFit == \A r \in Requests : SnapshotFits(r)

VenuesInv == WorkInv /\ OverlapsKnown /\ SnapshotsFit /\ VenuesReplaced

\* The member of r gets the venues r wants, and the rows in stay remain.
GetsVenues(r, stay) ==
    LET m == req[r].of IN
    /\ access' = [access EXCEPT ![m] = [v \in OwnVenues |-> IF v \in req[r].want THEN r
                                                          ELSE IF v \in stay THEN access[m][v] ELSE None]]
    /\ replaced' = [replaced EXCEPT ![m] = [by |-> r, venues |-> req[r].want]]

LEMMA AccessWritten ==
    ASSUME WorkInv, NEW r \in Requests, Handles(r)
    PROVE  \/ UNCHANGED <<access, replaced>>
           \/ /\ req[r].kind = "CREATE" /\ member[req[r].of] = Absent /\ req'[r].pc # "replace"
              /\ GetsVenues(r, {})
           \/ /\ req[r].pc = "replace" /\ req'[r].pc # "replace"
              /\ GetsVenues(r, KeptRows(r))
<1>1. req[r] \in RequestRow /\ req \in [Requests -> RequestRow]
  BY DEF WorkInv, TypeOK
<1>2. CASE CreateStaff(r)
  <2>1. CASE UNCHANGED account
    BY <2>1 DEF account
  <2>2. ASSUME NEW t \in FreshTokens, member[req[r].of] = Absent,
               InsertStaff(r, req[r].of, req[r].perms, req[r].want, t),
               req' = [req EXCEPT ![r].pc = "answer", ![r].tok = t, ![r].wrote = TRUE]
        PROVE  /\ member[req[r].of] = Absent /\ req'[r].pc # "replace"
               /\ GetsVenues(r, {})
    <3>1. req'[r].pc = "answer"
      BY <1>1, <2>2 DEF RequestRow
    <3>2. \A x : x \notin {}
      OBVIOUS
    <3> QED
      BY <2>2, <3>1, <3>2 DEF InsertStaff, GetsVenues
  <2> QED
    BY <1>2, <2>1, <2>2 DEF CreateStaff
<1>3. CASE ReplaceVenueAccess(r)
  <2>1. CASE UNCHANGED <<access, replaced>>
    BY <2>1
  <2>2. CASE Replaces(r, req[r].want, KeptRows(r))
    <3>1. req'[r].pc = "answer"
      BY <1>1, <2>2 DEF RequestRow, Replaces
    <3> QED
      BY <1>3, <2>2, <3>1 DEF ReplaceVenueAccess, Replaces, GetsVenues
  <2> QED
    BY <1>3, <2>1, <2>2 DEF ReplaceVenueAccess
<1>4. CASE Arrive(r) \/ CheckStep(r) \/ EndingStep(r)
  BY <1>4 DEF Arrive, CheckStep, RequireActiveUser, OwnerWorkspaceAccess, RegenerateInvite, ResetPasswordToken,
              SetupPassword, Login, UpdateStaff, UpdateVenues, FindOldStatus, CreateCourt, FindOwnedCourt,
              DeadlinePasses, StartAdmin, EndingStep, Fails, PasswordSet, StaffChanged, AdminAnswers, account
<1>5. CASE EstateStep(r)
  BY <1>5, WriteOrAnswerIs DEF EstateStep, WriteOrAnswer, UpdateOwnerStatus, SuspendVenue, account
<1>6. CASE LoginStep(r) \/ MarkInvited(r) \/ MarkActive(r) \/ UpdateStatus(r)
  BY <1>6 DEF LoginStep, UpdateUserPassword, GetStaffMemberships, MarkInvited, MarkActive,
              UpdateStaffInvitationStatus, UpdateStatus
<1>7. CASE InvalidateStaffInvites(r) \/ NewInvite(r) \/ SendLink(r) \/ MarkStaffInviteUsed(r)
  BY <1>7 DEF InvalidateStaffInvites, NewInvite, SendLink, MarkStaffInviteUsed
<1> QED
  BY <1>2, <1>3, <1>4, <1>5, <1>6, <1>7 DEF Handles, MembershipStep, InviteStep

\* Requests that start to replace have seen the rows there are.
LEMMA SnapshotsKept ==
    ASSUME WorkInv, SnapshotsFit, [Next]_vars, NEW x \in Requests,
           access'[req'[x].of] = access[req'[x].of]
    PROVE  SnapshotFits(x)'
<1>1. CASE req'[x] = req[x]
  <2>1. SnapshotFits(x)
    BY DEF SnapshotsFit
  <2> SUFFICES ASSUME req[x].pc = "replace", NEW v \in OwnVenues
               PROVE  \/ access[req[x].of][v] \in {None, req[x].saw[v]}
                      \/ Overlap(access[req[x].of][v], x)'
    BY <1>1 DEF SnapshotFits, Overlap
  <2>2. access[req[x].of][v] \in {None, req[x].saw[v]} \/ Overlap(access[req[x].of][v], x)
    BY <2>1 DEF SnapshotFits
  <2>3. access'[req[x].of] = access[req[x].of]
    BY <1>1
  <2> QED
    BY <1>1, <2>2, <2>3, OverlapsStay DEF Overlap
<1>2. ASSUME NEW r \in Requests, Advances(r), req'[x] # req[x]
      PROVE  req'[x].pc = "replace" => req'[x].saw = access[req'[x].of]
  <2>1. PICK q : Becomes(r, q)
    BY <1>2 DEF Advances
  <2>2. x = r /\ req'[x] = q
    BY <1>2, <2>1 DEF Becomes, WorkInv, TypeOK
  <2> QED
    BY <2>1, <2>2 DEF Becomes
<1>3. ASSUME NEW r \in Requests, NEW q, Joins(r, q) PROVE req'[x] = req[x] \/ req'[x].pc # "replace"
  BY <1>3 DEF Joins, WorkInv, TypeOK
<1>4. \/ req'[x] = req[x] \/ req'[x].pc # "replace"
      \/ (req'[x].pc = "replace" => req'[x].saw = access[req'[x].of])
  BY <1>2, <1>3, RequestsChange
<1> QED
  BY <1>1, <1>4 DEF SnapshotFits

\* The venues of one member are written, and every row that stays and every
\* replacement under way belongs to a request that ran beside the writer.
LEMMA VenuesWritten ==
    ASSUME VenuesInv, [Next]_vars, NEW r \in Requests, NEW stay, req[r].of \in Members,
           GetsVenues(r, stay), \A v \in OwnVenues : v \in stay => Overlap(access[req[r].of][v], r),
           req'[r].pc # "replace",
           \A x \in Requests \ {r} : req[x].pc = "replace" /\ req[x].of = req[r].of => Overlap(r, x),
           \A x \in Requests \ {r} : req'[x] = req[x]
    PROVE  SnapshotsFit' /\ VenuesReplaced'
<1> DEFINE m == req[r].of
           rows == [v \in OwnVenues |-> IF v \in req[r].want THEN r
                                        ELSE IF v \in stay THEN access[m][v] ELSE None]
           last == [by |-> r, venues |-> req[r].want]
<1>1. \A a, b : Overlap(a, b) => a \in Requests /\ b \in Requests
                                 /\ (a \in req'[b].rivals \/ b \in req'[a].rivals)
  BY OverlapsStay DEF VenuesInv
<1>2. /\ \A n \in Members : /\ access'[n] = IF n = m THEN rows ELSE access[n]
                            /\ replaced'[n] = IF n = m THEN last ELSE replaced[n]
  BY DEF GetsVenues, VenuesInv, WorkInv, TypeOK
<1>3. \A v \in OwnVenues : /\ v \in req[r].want => rows[v] = r
                           /\ v \notin req[r].want /\ v \in stay => rows[v] = access[m][v]
                           /\ v \notin req[r].want /\ v \notin stay => rows[v] = None
  OBVIOUS
<1>4. last.by = r /\ last.venues = req[r].want /\ r # None /\ m \in Members
  BY WorkspaceAssumption
<1> HIDE DEF rows, last, m
<1>5. VenuesReplaced'
  <2> SUFFICES ASSUME NEW n \in Members, NEW v \in OwnVenues
               PROVE  /\ v \in replaced'[n].venues => access'[n][v] # None
                      /\ access'[n][v] # None /\ v \notin replaced'[n].venues
                         => LET a == access'[n][v]
                                b == replaced'[n].by
                            IN a \in Requests /\ b \in Requests /\ (a \in req'[b].rivals \/ b \in req'[a].rivals)
    BY DEF VenuesReplaced, Overlap
  <2>1. CASE n # m
    <3>1. /\ v \in replaced[n].venues => access[n][v] # None
          /\ access[n][v] # None /\ v \notin replaced[n].venues => Overlap(access[n][v], replaced[n].by)
      BY DEF VenuesInv, VenuesReplaced
    <3> QED
      BY <1>1, <1>2, <2>1, <3>1
  <2>2. CASE n = m
    <3>1. v \in stay => Overlap(access[m][v], r)
      BY DEF m
    <3> QED
      BY <1>1, <1>2, <1>3, <1>4, <2>2, <3>1
  <2> QED
    BY <2>1, <2>2
<1>6. SnapshotsFit'
  <2> SUFFICES ASSUME NEW x \in Requests PROVE SnapshotFits(x)'
    BY DEF SnapshotsFit
  <2>1. CASE req'[x].pc # "replace"
    BY <2>1 DEF SnapshotFits
  <2>2. CASE x # r /\ req[x].pc = "replace" /\ req[x].of = m
    <3>1. Overlap(r, x) /\ req'[x] = req[x] /\ SnapshotFits(x)
      BY <2>2 DEF m, VenuesInv, SnapshotsFit
    <3>2. access'[m] = rows
      BY <1>2, <1>4
    <3>3. ASSUME NEW v \in OwnVenues
          PROVE  rows[v] \in {None, req[x].saw[v]} \/ Overlap(rows[v], x)
      <4>1. access[m][v] \in {None, req[x].saw[v]} \/ Overlap(access[m][v], x)
        BY <2>2, <3>1 DEF SnapshotFits
      <4> QED
        BY <1>3, <3>1, <4>1
    <3>4. ASSUME NEW v \in OwnVenues
          PROVE  \/ access'[req'[x].of][v] \in {None, req'[x].saw[v]}
                 \/ Overlap(access[req[x].of][v], x)'
      <4>1. access'[req'[x].of][v] = rows[v] /\ req'[x].saw[v] = req[x].saw[v]
        BY <2>2, <3>1, <3>2
      <4> QED
        BY <1>1, <3>3, <4>1 DEF Overlap
    <3> QED
      BY <3>4 DEF SnapshotFits
  <2>3. CASE x # r /\ req[x].of # m
    <3>1. access'[req'[x].of] = access[req'[x].of]
      BY <2>3 DEF GetsVenues, m, VenuesInv, WorkInv, TypeOK
    <3> QED
      BY <3>1, SnapshotsKept DEF VenuesInv
  <2> QED
    BY <2>1, <2>2, <2>3
<1> QED
  BY <1>5, <1>6

LEMMA VenuesStep ==
    ASSUME VenuesInv, [Next]_vars
    PROVE  VenuesInv'
<1>1. WorkInv' /\ OverlapsKnown'
  BY WorkStep, OverlapsStep DEF VenuesInv
<1>2. ASSUME UNCHANGED <<access, replaced>> PROVE SnapshotsFit' /\ VenuesReplaced'
  <2>1. VenuesReplaced'
    <3>1. \A a, b : Overlap(a, b) => a \in Requests /\ b \in Requests
                                     /\ (a \in req'[b].rivals \/ b \in req'[a].rivals)
      BY OverlapsStay DEF VenuesInv
    <3> QED
      BY <1>2, <3>1 DEF VenuesInv, VenuesReplaced, Overlap
  <2>2. SnapshotsFit'
    <3>1. \A x \in Requests : SnapshotFits(x)'
      BY <1>2, SnapshotsKept DEF VenuesInv
    <3> QED
      BY <3>1 DEF SnapshotsFit
  <2> QED
    BY <2>1, <2>2
<1>3. ASSUME NEW r \in Requests, Handles(r) PROVE SnapshotsFit' /\ VenuesReplaced'
  <2>1. WorkInv /\ req[r] \in RequestRow /\ RequestFits(r) /\ StageFits(req[r]) /\ CarriesFit(req[r])
    BY DEF VenuesInv, WorkInv, TypeOK, RequestFits
  <2>2. \A x \in Requests \ {r} : req'[x] = req[x]
    BY <1>3, <2>1, HandlesAdvances, ArriveJoins DEF Advances, Becomes, Joins, WorkInv, TypeOK
  <2>3. CASE UNCHANGED <<access, replaced>>
    BY <1>2, <2>3
  <2>4. CASE /\ req[r].kind = "CREATE" /\ member[req[r].of] = Absent /\ req'[r].pc # "replace"
             /\ GetsVenues(r, {})
    <3>1. req[r].of \in Members
      BY <2>1, <2>4 DEF CarriesFit, StaffRoutes
    <3>2. \A x \in Requests \ {r} : ~(req[x].pc = "replace" /\ req[x].of = req[r].of)
      BY <2>1, <2>4 DEF WorkInv, RequestFits, Working
    <3> QED
      BY <2>2, <2>4, <3>1, <3>2, VenuesWritten
  <2>5. CASE /\ req[r].pc = "replace" /\ req'[r].pc # "replace"
             /\ GetsVenues(r, KeptRows(r))
    <3>1. req[r].kind \in {"UPDATE", "VENUES"} /\ req[r].of \in Members /\ InFlight(r)
      BY <2>1, <2>5 DEF StageFits, CarriesFit, StaffRoutes, InFlight
    <3>2. \A v \in OwnVenues : v \in KeptRows(r) => Overlap(access[req[r].of][v], r)
      BY <2>5 DEF VenuesInv, SnapshotsFit, SnapshotFits, KeptRows
    <3>3. \A x \in Requests \ {r} : req[x].pc = "replace" /\ req[x].of = req[r].of => Overlap(r, x)
      <4> SUFFICES ASSUME NEW x \in Requests \ {r}, req[x].pc = "replace", req[x].of = req[r].of
                   PROVE  Overlap(r, x)
        OBVIOUS
      <4>1. req[x].kind \in {"UPDATE", "VENUES"} /\ InFlight(x)
        BY <2>1 DEF WorkInv, RequestFits, StageFits, InFlight
      <4>2. req[r].kind \in Rivals(req[x].kind)
        BY <3>1, <4>1 DEF Rivals
      <4> QED
        BY <3>1, <4>1, <4>2 DEF VenuesInv, OverlapsKnown
    <3> QED
      BY <2>2, <2>5, <3>1, <3>2, <3>3, VenuesWritten
  <2> QED
    BY <1>3, <2>1, <2>3, <2>4, <2>5, AccessWritten
<1>4. ASSUME \E t \in Tokens : LinkExpires(t) PROVE SnapshotsFit' /\ VenuesReplaced'
  <2>1. UNCHANGED <<access, replaced>>
    BY <1>4 DEF LinkExpires
  <2> QED
    BY <1>2, <2>1
<1>5. ASSUME UNCHANGED vars PROVE SnapshotsFit' /\ VenuesReplaced'
  <2>1. UNCHANGED <<access, replaced>>
    BY <1>5 DEF vars, account
  <2> QED
    BY <1>2, <2>1
<1>6. SnapshotsFit' /\ VenuesReplaced'
  <2>1. CASE Step
    BY <1>3, <1>4, <2>1, StepIs
  <2> QED
    BY <1>5, <2>1 DEF Next
<1> QED
  BY <1>1, <1>6 DEF VenuesInv

LEMMA InitVenues ==
    ASSUME Init
    PROVE  VenuesInv
<1>1. \A m \in Members, v \in OwnVenues : access[m][v] # None <=> v \in replaced[m].venues
  <2>1. "earlier" # None
    BY WorkspaceAssumption
  <2> QED
    BY <2>1 DEF Init
<1>2. \A r \in Requests : req[r].pc = "idle"
  BY IdleFits DEF Init
<1>3. OverlapsKnown /\ SnapshotsFit /\ VenuesReplaced
  BY <1>1, <1>2 DEF OverlapsKnown, SnapshotsFit, SnapshotFits, VenuesReplaced, InFlight
<1> QED
  BY <1>3, InitWorks DEF VenuesInv

\* The last replacement of a member's venues granted its whole set, and another
\* venue remains only by a request that overlapped it (UpdateVenues takes no lock).
THEOREM VenuesReplacedCorrect == Spec => []VenuesReplaced
<1>1. Init => VenuesInv
  BY InitVenues
<1>2. VenuesInv /\ [Next]_vars => VenuesInv'
  BY VenuesStep
<1>3. VenuesInv => VenuesReplaced
  BY DEF VenuesInv
<1> QED
  BY <1>1, <1>2, <1>3, PTL DEF Spec


----------------------------------------------------------------------------
(* Invited members.                                                        *)

\* A request that will give m a link that works, or its membership.
Pending(q, m) ==
    /\ q.of = m
    /\ \/ q.kind \in {"CREATE", "REGENERATE"} /\ q.pc \in {"invited", "answer"} /\ invite[q.tok].ends # "cut"
       \/ q.kind = "REGENERATE" /\ q.pc = "invite"
       \/ q.kind = "SETUP" /\ q.pc = "activate"

\* m has a link that works or will have one, or a request on the account
\* failed half-way or overlapped another.
Reachable(m) ==
    \/ Interrupted(m) \/ Overlapped(m)
    \/ \E t \in Tokens : Activates(invite[t], m)
    \/ \E r \in Requests : Pending(req[r], m)

InvitesFit == \A m \in Members : member[m].invitation = "INVITED" => Reachable(m)

\* A link that was made for a new invitation is cut only by an overlapping request.
NewLinkFits(r) ==
    req[r].kind = "REGENERATE" /\ req[r].pc = "invited" =>
       invite[req[r].tok].ends # "cut" \/ Overlapped(req[r].of)
NewLinksFit == \A r \in Requests : NewLinkFits(r)

InviteInv == WorkInv /\ OverlapsKnown /\ NewLinksFit /\ InvitesFit

LEMMA InterruptedStays ==
    ASSUME WorkInv, [Next]_vars, NEW m, Interrupted(m)
    PROVE  Interrupted(m)'
<1>1. PICK x \in Requests :
         /\ req[x].of = m /\ req[x].kind \in {"CREATE", "REGENERATE", "SETUP"}
         /\ req[x].pc = "done" /\ req[x].wrote /\ req[x].ans \notin {200, 201}
  BY DEF Interrupted
<1>2. ~InFlight(x) /\ req[x] # Idle
  BY <1>1 DEF InFlight, Idle
<1>3. ASSUME NEW r \in Requests, Advances(r) PROVE req'[x] = req[x]
  BY <1>2, <1>3 DEF Advances, Becomes, WorkInv, TypeOK
<1>4. ASSUME NEW r \in Requests, NEW q, Joins(r, q) PROVE req'[x] = req[x]
  <2>1. req[r] = Idle
    BY <1>4 DEF Joins, WorkInv, RequestFits, StageFits
  <2> QED
    BY <1>2, <1>4, <2>1 DEF Joins, WorkInv, TypeOK
<1>5. req'[x] = req[x]
  BY <1>3, <1>4, RequestsChange
<1> QED
  BY <1>1, <1>5 DEF Interrupted

LEMMA StillReachable ==
    ASSUME InviteInv, [Next]_vars, NEW m \in Members, Reachable(m),
           \A t \in Tokens : Activates(invite[t], m) => Reachable(m)',
           \A x \in Requests : Pending(req[x], m) => Reachable(m)'
    PROVE  Reachable(m)'
<1>1. CASE Interrupted(m)
  BY <1>1, InterruptedStays DEF InviteInv, Reachable
<1>2. CASE Overlapped(m)
  BY <1>2, OverlapsStay DEF InviteInv, Reachable
<1> QED
  BY <1>1, <1>2 DEF Reachable

\* What a step of r has to leave: invitations as they are, and links and
\* requests that still reach the members.
LEMMA InvitesHold ==
    ASSUME InviteInv, [Next]_vars, NEW r \in Requests, \A x \in Requests \ {r} : req'[x] = req[x],
           \A m \in Members : member'[m].invitation = "INVITED" =>
              member[m].invitation = "INVITED" \/ Reachable(m)',
           \A t \in Tokens, m \in Members : Activates(invite[t], m) => Activates(invite'[t], m) \/ Reachable(m)',
           \A m \in Members : member'[m].invitation = "INVITED" /\ Pending(req[r], m) => Reachable(m)',
           \A x \in Requests \ {r}, m \in Members :
              /\ req[x].kind \in {"CREATE", "REGENERATE"} /\ HoldsLink(req[x]) /\ req[x].of = m
              /\ invite'[req[x].tok].ends = "cut"
              => \/ invite[req[x].tok].ends = "cut" \/ Overlapped(m)'
                 \/ req[x].kind = "CREATE" /\ Reachable(m)',
           NewLinkFits(r)'
    PROVE  NewLinksFit' /\ InvitesFit'
<1>1. \A m : Overlapped(m) => Overlapped(m)'
  BY OverlapsStay DEF InviteInv
<1>2. ASSUME NEW x \in Requests \ {r} PROVE NewLinkFits(x)'
  <2>1. CASE req[x].kind = "REGENERATE" /\ req[x].pc = "invited"
    <3>1. HoldsLink(req[x]) /\ req'[x] = req[x]
      BY <2>1 DEF HoldsLink
    <3>2. invite[req[x].tok].ends # "cut" \/ Overlapped(req[x].of)
      BY <2>1 DEF InviteInv, NewLinksFit, NewLinkFits
    <3>3. PICK m \in Members : req[x].of = m
      BY <2>1 DEF InviteInv, WorkInv, RequestFits, CarriesFit, StaffRoutes
    <3>4. invite'[req[x].tok].ends # "cut" \/ Overlapped(m)'
      BY <1>1, <2>1, <3>1, <3>2, <3>3
    <3> QED
      BY <2>1, <3>1, <3>3, <3>4 DEF NewLinkFits, Overlapped
  <2>2. CASE ~(req[x].kind = "REGENERATE" /\ req[x].pc = "invited")
    BY <2>2 DEF NewLinkFits
  <2> QED
    BY <2>1, <2>2
<1>3. ASSUME NEW m \in Members, member'[m].invitation = "INVITED" PROVE Reachable(m)'
  <2>1. CASE Reachable(m)
    <3>1. ASSUME NEW t \in Tokens, Activates(invite[t], m) PROVE Reachable(m)'
      BY <3>1 DEF Reachable
    <3>2. ASSUME NEW x \in Requests \ {r}, Pending(req[x], m) PROVE Reachable(m)'
      <4>1. req'[x] = req[x] /\ req[x].of = m
        BY <3>2 DEF Pending
      <4>2. CASE Pending(req[x], m)'
        BY <4>2 DEF Reachable
      <4>3. CASE req[x].kind \in {"CREATE", "REGENERATE"} /\ HoldsLink(req[x]) /\ invite[req[x].tok].ends # "cut"
        <5>1. invite'[req[x].tok].ends = "cut" => Overlapped(m)' \/ Reachable(m)'
          BY <4>1, <4>3
        <5>2. CASE invite'[req[x].tok].ends # "cut"
          <6>1. Pending(req[x], m)'
            BY <4>1, <4>3, <5>2 DEF Pending, HoldsLink
          <6> QED
            BY <4>2, <6>1
        <5> QED
          BY <5>1, <5>2 DEF Reachable
      <4>4. CASE \/ req[x].kind = "REGENERATE" /\ req[x].pc = "invite"
                 \/ req[x].kind = "SETUP" /\ req[x].pc = "activate"
        <5>1. Pending(req[x], m)'
          BY <4>1, <4>4 DEF Pending
        <5> QED
          BY <4>2, <5>1
      <4> QED
        BY <3>2, <4>3, <4>4 DEF Pending, HoldsLink
    <3>3. ASSUME Pending(req[r], m) PROVE Reachable(m)'
      BY <1>3, <3>3
    <3>4. \A x \in Requests : Pending(req[x], m) => Reachable(m)'
      BY <3>2, <3>3
    <3> QED
      BY <2>1, <3>1, <3>4, StillReachable
  <2>2. CASE member[m].invitation = "INVITED"
    BY <2>1, <2>2 DEF InviteInv, InvitesFit
  <2> QED
    BY <1>3, <2>2
<1> QED
  BY <1>2, <1>3 DEF NewLinksFit, InvitesFit


\* Where a request is after a step.
LEMMA PointsAfter ==
    ASSUME WorkInv, NEW r \in Requests
    PROVE  /\ \A ans : Answer(r, ans) \/ Record(r, ans) => req'[r].pc = "done"
           /\ \A ans, part : Writes(r, part, ans) => req'[r].pc = "done"
           /\ \A p : Goes(r, p) => req'[r].pc = p
           /\ \A p : req' = [req EXCEPT ![r].pc = p, ![r].wrote = TRUE] => req'[r].pc = p
           /\ StartReplacing(r) => req'[r].pc = "replace"
<1>1. req \in [Requests -> RequestRow] /\ req[r] \in RequestRow
  BY DEF WorkInv, TypeOK
<1>2. \A ans, logged : Over(r, ans, logged).pc = "done" /\ [Over(r, ans, logged) EXCEPT !.wrote = TRUE].pc = "done"
  BY DEF Over, Idle
<1>3. ASSUME NEW ans, Answer(r, ans) \/ Record(r, ans) PROVE req'[r].pc = "done"
  <2>1. PICK logged \in BOOLEAN : req' = [req EXCEPT ![r] = Over(r, ans, logged)]
    BY <1>3 DEF Answer, Record
  <2>2. req'[r] = Over(r, ans, logged)
    BY <1>1, <2>1
  <2> QED
    BY <1>2, <2>2
<1>7. ASSUME NEW ans, NEW part, Writes(r, part, ans) PROVE req'[r].pc = "done"
  <2>1. req'[r] = [Over(r, ans, FALSE) EXCEPT !.wrote = TRUE]
    BY <1>1, <1>7 DEF Writes
  <2> QED
    BY <1>2, <2>1
<1>4. \A p : Goes(r, p) => req'[r].pc = p
  BY <1>1 DEF Goes, RequestRow
<1>5. \A p : req' = [req EXCEPT ![r].pc = p, ![r].wrote = TRUE] => req'[r].pc = p
  BY <1>1 DEF RequestRow
<1>6. StartReplacing(r) => req'[r].pc = "replace"
  BY <1>1 DEF StartReplacing, RequestRow
<1> QED
  BY <1>3, <1>4, <1>5, <1>6, <1>7

\* Steps of requests that reach nobody: no link and no invitation changes.
UnrelatedStep(r) ==
    \/ Arrive(r) \/ CheckStep(r) \/ PasswordSet(r) \/ StaffChanged(r) \/ AdminAnswers(r)
    \/ EstateStep(r) \/ LoginStep(r) \/ UpdateStatus(r) \/ ReplaceVenueAccess(r)

LEMMA UnrelatedKeeps ==
    ASSUME WorkInv, NEW r \in Requests, UnrelatedStep(r)
    PROVE  /\ invite' = invite
           /\ \A m \in Members : member'[m].invitation = member[m].invitation
           /\ \A m : ~Pending(req[r], m)
           /\ req'[r].pc # "invited"
<1>1. req[r] \in RequestRow /\ RequestFits(r) /\ StageFits(req[r]) /\ CarriesFit(req[r]) /\ TypeOK
  BY DEF WorkInv, TypeOK, RequestFits
<1>2. \A m \in Members : member[m] \in MemberRow
  BY <1>1 DEF TypeOK
<1>3. ASSUME UNCHANGED account PROVE invite' = invite /\ \A m \in Members : member'[m].invitation = member[m].invitation
  BY <1>3 DEF account
<1>4. ASSUME \/ req[r].pc \in {"idle", "active", "workspace", "begin", "replace", "status", "password",
                               "memberships", "court", "hours", "mutate"}
             \/ req[r].kind \in {"UPDATE", "VENUES", "STATUS"} \cup AdminRoutes
             \/ req[r].kind = "SETUP" /\ req[r].pc = "answer"
      PROVE  \A m : ~Pending(req[r], m)
  BY <1>4 DEF Pending, AdminRoutes
<1>5. CASE Arrive(r)
  <2>1. UNCHANGED account /\ req[r].pc = "idle"
    BY <1>5 DEF Arrive
  <2>2. PICK q : Joins(r, q)
    BY <1>5, ArriveJoins
  <2>3. req'[r].pc # "invited"
    BY <1>1, <2>2 DEF Joins, TypeOK
  <2> QED
    BY <1>3, <1>4, <2>1, <2>3
<1>6. CASE CheckStep(r)
  <2>1. UNCHANGED account
    BY <1>6 DEF CheckStep, RequireActiveUser, OwnerWorkspaceAccess, RegenerateInvite, ResetPasswordToken,
                SetupPassword, Login, UpdateStaff, UpdateVenues, FindOldStatus, CreateCourt, FindOwnedCourt,
                DeadlinePasses, StartAdmin
  <2>2. req[r].pc \in {"active", "workspace", "begin"} \/ req[r].kind \in AdminRoutes
    BY <1>6 DEF CheckStep, RequireActiveUser, OwnerWorkspaceAccess, RegenerateInvite, ResetPasswordToken,
                SetupPassword, Login, UpdateStaff, UpdateVenues, FindOldStatus, CreateCourt, FindOwnedCourt,
                DeadlinePasses, StartAdmin
  <2>3. CASE DeadlinePasses(r)
    <3>1. req'[r].pc = req[r].pc /\ req[r].kind \in AdminRoutes
      BY <1>1, <2>3 DEF DeadlinePasses, TypeOK, RequestRow
    <3> QED
      BY <1>1, <1>3, <1>4, <2>1, <3>1 DEF StageFits, AdminRoutes
  <2>4. CASE ~DeadlinePasses(r)
    <3>1. \/ \E ans : Answer(r, ans)
          \/ \E p \in {"begin", "workspace", "invalidate", "password", "memberships", "status", "court",
                       "hours", "mutate"} : Goes(r, p)
          \/ StartReplacing(r)
          \/ \E ctx : req' = [req EXCEPT ![r].pc = "begin", ![r].ctx = ctx]
      <4>1. CASE OwnerWorkspaceAccess(r)
        BY <4>1 DEF OwnerWorkspaceAccess
      <4>2. CASE UpdateStaff(r) \/ UpdateVenues(r)
        BY <4>2 DEF UpdateStaff, UpdateVenues
      <4>3. CASE RequireActiveUser(r) \/ RegenerateInvite(r) \/ ResetPasswordToken(r) \/ SetupPassword(r)
        BY <4>3 DEF RequireActiveUser, RegenerateInvite, ResetPasswordToken, SetupPassword
      <4>4. CASE Login(r) \/ FindOldStatus(r) \/ CreateCourt(r) \/ FindOwnedCourt(r) \/ StartAdmin(r)
        BY <4>4 DEF Login, FindOldStatus, CreateCourt, FindOwnedCourt, StartAdmin
      <4> QED
        BY <1>6, <2>4, <4>1, <4>2, <4>3, <4>4 DEF CheckStep
    <3>2. ASSUME NEW ctx, req' = [req EXCEPT ![r].pc = "begin", ![r].ctx = ctx]
          PROVE  req'[r].pc # "invited"
      <4>1. req'[r].pc = "begin"
        BY <1>1, <3>2 DEF RequestRow, TypeOK
      <4> QED
        BY <4>1
    <3>3. ASSUME NEW ans, Answer(r, ans) PROVE req'[r].pc # "invited"
      BY <3>3, PointsAfter
    <3>4. ASSUME NEW p \in {"begin", "workspace", "invalidate", "password", "memberships", "status", "court",
                           "hours", "mutate"}, Goes(r, p)
          PROVE  req'[r].pc # "invited"
      BY <3>4, PointsAfter
    <3>5. req'[r].pc # "invited"
      BY <3>1, <3>2, <3>3, <3>4, PointsAfter
    <3> QED
      BY <1>3, <1>4, <2>1, <2>2, <3>5
  <2> QED
    BY <2>3, <2>4
<1>7. CASE PasswordSet(r) \/ StaffChanged(r) \/ AdminAnswers(r)
  <2>1. UNCHANGED account
    BY <1>7 DEF PasswordSet, StaffChanged, AdminAnswers
  <2>2. \E ans : Record(r, ans)
    BY <1>7 DEF PasswordSet, StaffChanged, AdminAnswers
  <2>3. \/ req[r].kind \in {"UPDATE", "VENUES", "STATUS"} \cup AdminRoutes
        \/ req[r].kind = "SETUP" /\ req[r].pc = "answer"
    BY <1>7 DEF PasswordSet, StaffChanged, AdminAnswers
  <2> QED
    BY <1>3, <1>4, <2>1, <2>2, <2>3, PointsAfter
<1>8. CASE EstateStep(r)
  <2>1. CASE WriteOrAnswer(r) /\ req[r].kind \in PermissionRoutes
    <3>1. req'[r].pc = "done" /\ UNCHANGED account
      BY <2>1, PointsAfter DEF WriteOrAnswer
    <3>2. \A m : ~Pending(req[r], m)
      BY <2>1, RoutesAre DEF Pending
    <3> QED
      BY <1>3, <3>1, <3>2
  <2>2. CASE UpdateOwnerStatus(r) \/ SuspendVenue(r)
    <3>1. req'[r].pc = "answer" /\ UNCHANGED account /\ req[r].pc = "mutate"
      BY <2>2, PointsAfter DEF UpdateOwnerStatus, SuspendVenue
    <3> QED
      BY <1>3, <1>4, <3>1
  <2> QED
    BY <1>8, <2>1, <2>2, WriteOrAnswerIs DEF EstateStep
<1>9. CASE LoginStep(r)
  <2>1. invite' = invite /\ member' = member /\ req[r].pc \in {"password", "memberships"}
    BY <1>9 DEF LoginStep, UpdateUserPassword, GetStaffMemberships
  <2>2. (\E ans : Answer(r, ans)) \/ req' = [req EXCEPT ![r].pc = "used", ![r].wrote = TRUE]
    BY <1>9 DEF LoginStep, UpdateUserPassword, GetStaffMemberships
  <2> QED
    BY <1>4, <2>1, <2>2, PointsAfter
<1>10. CASE UpdateStatus(r)
  <2>1. /\ invite' = invite /\ req[r].pc = "status" /\ member' = [member EXCEPT ![req[r].of].status = req[r].to]
        /\ req'[r].pc = "answer"
    BY <1>10, PointsAfter DEF UpdateStatus
  <2>2. \A m \in Members : member'[m].invitation = member[m].invitation
    BY <1>1, <1>2, <2>1 DEF MemberRow, TypeOK
  <2> QED
    BY <1>4, <2>1, <2>2
<1>11. CASE ReplaceVenueAccess(r)
  <2>1. /\ invite' = invite /\ req[r].pc = "replace"
        /\ member' = member \/ member' = [member EXCEPT ![req[r].of].perms = req[r].perms]
        /\ (\E ans : Answer(r, ans)) \/ req' = [req EXCEPT ![r].pc = "answer", ![r].wrote = TRUE]
    BY <1>11 DEF ReplaceVenueAccess, Replaces
  <2>2. \A m \in Members : member'[m].invitation = member[m].invitation
    BY <1>1, <1>2, <2>1 DEF MemberRow, TypeOK
  <2> QED
    BY <1>4, <2>1, <2>2, PointsAfter
<1> QED
  BY <1>5, <1>6, <1>7, <1>8, <1>9, <1>10, <1>11 DEF UnrelatedStep


LEMMA UnrelatedInvites ==
    ASSUME InviteInv, [Next]_vars, NEW r \in Requests, UnrelatedStep(r), \A x \in Requests \ {r} : req'[x] = req[x]
    PROVE  NewLinksFit' /\ InvitesFit'
<1>1. /\ invite' = invite
      /\ \A m \in Members : member'[m].invitation = member[m].invitation
      /\ \A m : ~Pending(req[r], m)
      /\ req'[r].pc # "invited"
  BY UnrelatedKeeps DEF InviteInv
<1>2. NewLinkFits(r)'
  BY <1>1 DEF NewLinkFits
<1> QED
  BY <1>1, <1>2, InvitesHold

\* A request that fails half-way is an interruption its member may not recover from.
LEMMA FailedInvites ==
    ASSUME InviteInv, [Next]_vars, NEW r \in Requests, Fails(r), \A x \in Requests \ {r} : req'[x] = req[x]
    PROVE  NewLinksFit' /\ InvitesFit'
<1> DEFINE ans == FailureAnswer(req[r])
<1>1. invite' = invite /\ member' = member /\ req' = [req EXCEPT ![r] = Over(r, ans, FALSE)]
  BY DEF Fails, account, Answer
<1>2. req'[r] = Over(r, ans, FALSE)
  BY <1>1 DEF InviteInv, WorkInv, TypeOK
<1>3. /\ req'[r].of = req[r].of /\ req'[r].kind = req[r].kind /\ req'[r].pc = "done"
      /\ req'[r].wrote = req[r].wrote /\ req'[r].ans = ans
  BY <1>2 DEF Over, Idle
<1>4. ASSUME NEW m \in Members, Pending(req[r], m) PROVE Reachable(m)'
  <2>1. req[r].pc \in Noted /\ req[r].kind \in {"CREATE", "REGENERATE", "SETUP"} /\ req[r].of = m
    BY <1>4 DEF Pending, Noted
  <2>2. req[r].wrote
    BY <2>1 DEF InviteInv, WorkInv, RequestFits, StageFits
  <2>3. ans \notin {200, 201}
    BY DEF FailureAnswer
  <2>4. Interrupted(m)'
    BY <1>3, <2>1, <2>2, <2>3 DEF Interrupted
  <2> QED
    BY <2>4 DEF Reachable
<1>5. NewLinkFits(r)'
  BY <1>3 DEF NewLinkFits
<1> QED
  BY <1>1, <1>4, <1>5, InvitesHold

LEMMA InvitedAgain ==
    ASSUME InviteInv, [Next]_vars, NEW r \in Requests, MarkInvited(r), \A x \in Requests \ {r} : req'[x] = req[x]
    PROVE  NewLinksFit' /\ InvitesFit'
<1> DEFINE n == req[r].of
<1>1. /\ WorkInv /\ req[r] \in RequestRow /\ RequestFits(r) /\ StageFits(req[r]) /\ CarriesFit(req[r]) /\ TypeOK
  BY DEF InviteInv, WorkInv, TypeOK, RequestFits
<1>2. /\ req[r].pc = "invited" /\ req[r].kind = "REGENERATE" /\ Goes(r, "answer")
      /\ invite' = invite /\ member' = [member EXCEPT ![n].invitation = "INVITED"]
  BY <1>1 DEF MarkInvited, UpdateStaffInvitationStatus, StageFits
<1>3. req'[r].pc = "answer" /\ req'[r].of = n /\ req'[r].kind = "REGENERATE" /\ req'[r].tok = req[r].tok
  BY <1>1, <1>2 DEF Goes, TypeOK, RequestRow
<1>4. n \in Members
  BY <1>1, <1>2 DEF CarriesFit, StaffRoutes
<1>5. Reachable(n)'
  <2>1. invite[req[r].tok].ends # "cut" \/ Overlapped(n)
    BY <1>2 DEF InviteInv, NewLinksFit, NewLinkFits
  <2>4. CASE invite[req[r].tok].ends # "cut"
    <3>1. Pending(req[r], n)'
      BY <1>2, <1>3, <2>4 DEF Pending
    <3> QED
      BY <3>1 DEF Reachable
  <2>5. CASE Overlapped(n)
    <3>1. Overlapped(n)'
      BY <1>1, <1>3, <2>5, OverlapsStay DEF Overlapped
    <3> QED
      BY <3>1 DEF Reachable
  <2> QED
    BY <2>1, <2>4, <2>5
<1>6. \A m \in Members : m # n => member'[m] = member[m]
  BY <1>1, <1>2 DEF TypeOK
<1>7. \A m \in Members : m = n => Reachable(m)'
  BY <1>3, <1>5 DEF Reachable, Interrupted, Overlapped, Pending
<1>8. NewLinkFits(r)'
  BY <1>3 DEF NewLinkFits
<1>9. \A m \in Members : Pending(req[r], m) => m = n
  BY DEF Pending
<1> HIDE DEF n
<1> QED
  BY <1>2, <1>6, <1>7, <1>8, <1>9, InvitesHold

LEMMA ActivatedNow ==
    ASSUME InviteInv, [Next]_vars, NEW r \in Requests, MarkActive(r), \A x \in Requests \ {r} : req'[x] = req[x]
    PROVE  NewLinksFit' /\ InvitesFit'
<1>1. /\ WorkInv /\ req[r] \in RequestRow /\ RequestFits(r) /\ StageFits(req[r]) /\ CarriesFit(req[r]) /\ TypeOK
  BY DEF InviteInv, WorkInv, TypeOK, RequestFits
<1>2. /\ req[r].pc = "activate" /\ Goes(r, "answer")
      /\ invite' = invite /\ member' = [member EXCEPT ![req[r].of].invitation = "ACTIVE"]
  BY DEF MarkActive, UpdateStaffInvitationStatus
<1>3. req'[r].pc = "answer"
  BY <1>1, <1>2, PointsAfter
<1>4. NewLinkFits(r)'
  BY <1>3 DEF NewLinkFits
<1>5. \A m \in Members : member'[m] = IF m = req[r].of THEN [member[m] EXCEPT !.invitation = "ACTIVE"] ELSE member[m]
  BY <1>1, <1>2 DEF TypeOK
<1>6. \A m \in Members : member'[m].invitation = "INVITED" => member[m].invitation = "INVITED" /\ m # req[r].of
  <2> SUFFICES ASSUME NEW m \in Members, member'[m].invitation = "INVITED"
               PROVE  member[m].invitation = "INVITED" /\ m # req[r].of
    OBVIOUS
  <2>1. member[m] \in MemberRow
    BY <1>1 DEF TypeOK
  <2> QED
    BY <1>5, <2>1 DEF MemberRow
<1>7. \A m \in Members : ~(member'[m].invitation = "INVITED" /\ Pending(req[r], m))
  BY <1>6 DEF Pending
<1> QED
  BY <1>2, <1>4, <1>6, <1>7, InvitesHold


\* Open links are cut off: those of a regenerated invitation are followed by a new one.
LEMMA CutLinks ==
    ASSUME InviteInv, [Next]_vars, NEW r \in Requests, InvalidateStaffInvites(r),
           \A x \in Requests \ {r} : req'[x] = req[x]
    PROVE  NewLinksFit' /\ InvitesFit'
<1>1. /\ WorkInv /\ req[r] \in RequestRow /\ RequestFits(r) /\ StageFits(req[r]) /\ CarriesFit(req[r]) /\ TypeOK
  BY DEF InviteInv, WorkInv, TypeOK, RequestFits
<1>2. /\ req[r].pc = "invalidate" /\ req[r].kind \in {"REGENERATE", "RESET"} /\ InFlight(r)
      /\ req' = [req EXCEPT ![r].pc = "invite", ![r].wrote = TRUE] /\ member' = member
  BY <1>1 DEF InvalidateStaffInvites, StageFits, InFlight
<1>3. \A t \in Tokens :
         \/ invite'[t] = invite[t]
         \/ invite[t].of = req[r].of /\ invite[t].purpose = PurposeOf(req[r].kind)
  BY DEF InvalidateStaffInvites
<1>4. req'[r].pc = "invite" /\ req'[r].of = req[r].of /\ req'[r].kind = req[r].kind
  BY <1>1, <1>2 DEF TypeOK, RequestRow
<1>5. ASSUME NEW m \in Members, req[r].of = m, req[r].kind = "REGENERATE" PROVE Reachable(m)'
  <2>1. Pending(req[r], m)'
    BY <1>4, <1>5 DEF Pending
  <2> QED
    BY <2>1 DEF Reachable
<1>6. ASSUME NEW t \in Tokens, NEW m \in Members, Activates(invite[t], m)
      PROVE  Activates(invite'[t], m) \/ Reachable(m)'
  <2>1. CASE invite'[t] = invite[t]
    BY <1>6, <2>1
  <2>2. CASE invite[t].of = req[r].of /\ invite[t].purpose = PurposeOf(req[r].kind)
    <3>1. req[r].kind = "REGENERATE" /\ req[r].of = m
      BY <1>2, <1>6, <2>2 DEF Activates, PurposeOf
    <3> QED
      BY <1>5, <3>1
  <2> QED
    BY <1>3, <2>1, <2>2
<1>7. \A m : ~Pending(req[r], m)
  BY <1>2 DEF Pending
<1>8. ASSUME NEW x \in Requests \ {r}, NEW m \in Members, req[x].kind \in {"CREATE", "REGENERATE"},
             HoldsLink(req[x]), req[x].of = m, invite'[req[x].tok].ends = "cut", invite[req[x].tok].ends # "cut"
      PROVE  Overlapped(m)' \/ (req[x].kind = "CREATE" /\ Reachable(m)')
  <2>1. req[x].tok \in Tokens /\ invite[req[x].tok].of = m /\ invite[req[x].tok].purpose = "SET_PASSWORD"
    <3>1. PurposeOf(req[x].kind) = "SET_PASSWORD"
      BY <1>8 DEF PurposeOf
    <3>2. RequestFits(x)
      BY <1>1 DEF WorkInv
    <3> QED
      BY <1>8, <3>1, <3>2 DEF RequestFits
  <2>2. req[r].kind = "REGENERATE" /\ req[r].of = m
    BY <1>2, <1>3, <1>8, <2>1 DEF PurposeOf
  <2>3. CASE req[x].kind = "CREATE"
    BY <1>5, <2>2, <2>3
  <2>4. CASE req[x].kind = "REGENERATE"
    <3>1. InFlight(x)
      BY <1>8 DEF HoldsLink, InFlight
    <3>2. req[r].rivals # {} \/ req[x].rivals # {}
      BY <1>2, <1>8, <2>2, <2>4, <3>1 DEF InviteInv, OverlapsKnown, Overlap, Rivals
    <3>3. Overlapped(m)
      BY <1>8, <2>2, <2>4, <3>2 DEF Overlapped
    <3> QED
      BY <3>3, OverlapsStay DEF InviteInv
  <2> QED
    BY <1>8, <2>3, <2>4
<1>9. NewLinkFits(r)'
  BY <1>4 DEF NewLinkFits
<1> QED
  BY <1>2, <1>6, <1>7, <1>8, <1>9, InvitesHold

\* A new link disturbs no other.
LEMMA FreshLinks ==
    ASSUME InviteInv, NEW t \in FreshTokens, NEW n \in Members,
           NEW purpose \in {"SET_PASSWORD", "RESET_PASSWORD"}, CreateStaffInvite(t, n, purpose)
    PROVE  /\ t \in Tokens /\ invite'[t].ends = "later" /\ invite'[t].of = n
           /\ \A x \in Tokens, m \in Members : Activates(invite[x], m) => Activates(invite'[x], m)
           /\ \A x \in Requests : HoldsLink(req[x]) => invite'[req[x].tok] = invite[req[x].tok]
<1>1. WorkInv /\ TypeOK /\ MembersFit
  BY DEF InviteInv, WorkInv
<1>2. /\ t \in Tokens /\ invite[t].of = None
      /\ \A x \in Tokens \ {t} : invite'[x] = invite[x]
      /\ invite'[t].of = n
  BY <1>1, NewLink DEF FreshTokens
<1>3. invite'[t].ends = "later"
  BY <1>1, <1>2 DEF CreateStaffInvite, TypeOK
<1>4. \A x \in Tokens, m \in Members : Activates(invite[x], m) => x # t
  BY <1>2, WorkspaceAssumption DEF Activates
<1>5. \A x \in Requests : HoldsLink(req[x]) => req[x].tok \in Tokens /\ req[x].tok # t
  <2> SUFFICES ASSUME NEW x \in Requests, HoldsLink(req[x]) PROVE req[x].tok \in Tokens /\ req[x].tok # t
    OBVIOUS
  <2>1. req[x].tok \in Tokens
    BY <1>1 DEF WorkInv, RequestFits
  <2>2. invite[req[x].tok].of # None
    BY <1>1, <2>1, OldLinks
  <2> QED
    BY <1>2, <2>1, <2>2
<1> QED
  BY <1>2, <1>3, <1>4, <1>5

LEMMA NewInviteReaches ==
    ASSUME InviteInv, [Next]_vars, NEW r \in Requests, NewInvite(r), \A x \in Requests \ {r} : req'[x] = req[x]
    PROVE  NewLinksFit' /\ InvitesFit'
<1> DEFINE p == IF req[r].kind = "RESET" THEN "answer" ELSE "invited"
<1>1. /\ WorkInv /\ req[r] \in RequestRow /\ RequestFits(r) /\ StageFits(req[r]) /\ CarriesFit(req[r]) /\ TypeOK
  BY DEF InviteInv, WorkInv, TypeOK, RequestFits
<1>2. /\ req[r].pc = "invite" /\ req[r].kind \in {"REGENERATE", "RESET"} /\ member' = member
  BY <1>1 DEF NewInvite, StageFits
<1>3. PICK t \in FreshTokens :
         /\ CreateStaffInvite(t, req[r].of, PurposeOf(req[r].kind))
         /\ req' = [req EXCEPT ![r].tok = t, ![r].wrote = TRUE, ![r].pc = p]
  BY DEF NewInvite
<1>4. req[r].of \in Members /\ PurposeOf(req[r].kind) \in {"SET_PASSWORD", "RESET_PASSWORD"}
  BY <1>1, <1>2 DEF CarriesFit, StaffRoutes, PurposeOf
<1>5. /\ t \in Tokens /\ invite'[t].ends = "later" /\ invite'[t].of = req[r].of
      /\ \A x \in Tokens, m \in Members : Activates(invite[x], m) => Activates(invite'[x], m)
      /\ \A x \in Requests : HoldsLink(req[x]) => invite'[req[x].tok] = invite[req[x].tok]
  BY <1>3, <1>4, FreshLinks
<1>6. req'[r].tok = t /\ req'[r].pc = p /\ req'[r].of = req[r].of /\ req'[r].kind = req[r].kind
  BY <1>1, <1>3 DEF TypeOK, RequestRow
<1>7. NewLinkFits(r)'
  BY <1>5, <1>6 DEF NewLinkFits
<1>8. ASSUME NEW m \in Members, Pending(req[r], m) PROVE Reachable(m)'
  <2>1. req[r].kind = "REGENERATE" /\ req[r].of = m
    BY <1>2, <1>8 DEF Pending
  <2>2. Pending(req[r], m)'
    BY <1>5, <1>6, <2>1 DEF Pending
  <2> QED
    BY <2>2 DEF Reachable
<1> QED
  BY <1>2, <1>5, <1>7, <1>8, InvitesHold

LEMMA CreatedInvited ==
    ASSUME InviteInv, [Next]_vars, NEW r \in Requests, CreateStaff(r), \A x \in Requests \ {r} : req'[x] = req[x]
    PROVE  NewLinksFit' /\ InvitesFit'
<1> DEFINE n == req[r].of
<1>1. /\ WorkInv /\ req[r] \in RequestRow /\ RequestFits(r) /\ StageFits(req[r]) /\ CarriesFit(req[r]) /\ TypeOK
  BY DEF InviteInv, WorkInv, TypeOK, RequestFits
<1>2. req[r].kind = "CREATE" /\ req[r].pc = "begin" /\ n \in Members
  BY <1>1 DEF CreateStaff, CarriesFit, StaffRoutes
<1>3. \A m : ~Pending(req[r], m)
  BY <1>2 DEF Pending
<1>4. CASE UNCHANGED account /\ \E ans : Answer(r, ans)
  <2>1. invite' = invite /\ member' = member /\ req'[r].pc = "done"
    BY <1>1, <1>4, PointsAfter DEF account
  <2>2. NewLinkFits(r)'
    BY <2>1 DEF NewLinkFits
  <2> QED
    BY <1>3, <2>1, <2>2, InvitesHold
<1>5. ASSUME NEW t \in FreshTokens, InsertStaff(r, n, req[r].perms, req[r].want, t),
             req' = [req EXCEPT ![r].pc = "answer", ![r].tok = t, ![r].wrote = TRUE]
      PROVE  NewLinksFit' /\ InvitesFit'
  <2>1. /\ t \in Tokens /\ invite'[t].ends = "later" /\ invite'[t].of = n
        /\ \A x \in Tokens, m \in Members : Activates(invite[x], m) => Activates(invite'[x], m)
        /\ \A x \in Requests : HoldsLink(req[x]) => invite'[req[x].tok] = invite[req[x].tok]
    <3>1. CreateStaffInvite(t, n, "SET_PASSWORD")
      BY <1>5 DEF InsertStaff
    <3> QED
      BY <1>2, <3>1, FreshLinks
  <2>2. req'[r].tok = t /\ req'[r].pc = "answer" /\ req'[r].of = n /\ req'[r].kind = "CREATE"
    BY <1>1, <1>2, <1>5 DEF TypeOK, RequestRow
  <2>3. ASSUME NEW m \in Members, m = n PROVE Reachable(m)'
    <3>1. Pending(req[r], m)'
      BY <2>1, <2>2, <2>3 DEF Pending
    <3> QED
      BY <3>1 DEF Reachable
  <2>4. \A m \in Members : m # n => member'[m] = member[m]
    BY <1>1, <1>2, <1>5 DEF InsertStaff, TypeOK
  <2>5. NewLinkFits(r)'
    BY <2>2 DEF NewLinkFits
  <2> HIDE DEF n
  <2> QED
    BY <1>3, <2>1, <2>3, <2>4, <2>5, InvitesHold
<1> QED
  BY <1>4, <1>5 DEF CreateStaff


LEMMA SentLink ==
    ASSUME InviteInv, [Next]_vars, NEW r \in Requests, SendLink(r), \A x \in Requests \ {r} : req'[x] = req[x]
    PROVE  NewLinksFit' /\ InvitesFit'
<1>1. /\ WorkInv /\ req[r] \in RequestRow /\ RequestFits(r) /\ TypeOK
  BY DEF InviteInv, WorkInv, TypeOK, RequestFits
<1>2. /\ req[r].pc = "answer" /\ req[r].kind \in {"CREATE", "REGENERATE", "RESET"} /\ member' = member
      /\ invite' = [invite EXCEPT ![req[r].tok].sent = TRUE] /\ \E ans : Record(r, ans)
  BY DEF SendLink
<1>3. req'[r].pc = "done"
  BY <1>1, <1>2, PointsAfter
<1>4. req[r].tok \in Tokens /\ invite[req[r].tok].purpose = PurposeOf(req[r].kind)
      /\ ~invite[req[r].tok].used /\ invite[req[r].tok].of = req[r].of
  BY <1>1, <1>2 DEF RequestFits, HoldsLink
<1>5. \A t \in Tokens : /\ invite'[t].of = invite[t].of /\ invite'[t].purpose = invite[t].purpose
                        /\ invite'[t].used = invite[t].used /\ invite'[t].ends = invite[t].ends
                        /\ invite'[t].sent <=> invite[t].sent \/ t = req[r].tok
  <2> SUFFICES ASSUME NEW t \in Tokens
               PROVE  /\ invite'[t].of = invite[t].of /\ invite'[t].purpose = invite[t].purpose
                      /\ invite'[t].used = invite[t].used /\ invite'[t].ends = invite[t].ends
                      /\ invite'[t].sent <=> invite[t].sent \/ t = req[r].tok
    OBVIOUS
  <2>1. invite[t] \in InviteRow
    BY <1>1 DEF TypeOK
  <2>2. CASE t # req[r].tok
    BY <1>1, <1>2, <2>2 DEF TypeOK
  <2>3. CASE t = req[r].tok
    <3>1. invite'[t] = [invite[t] EXCEPT !.sent = TRUE]
      BY <1>1, <1>2, <2>3 DEF TypeOK
    <3> QED
      BY <2>1, <2>3, <3>1 DEF InviteRow
  <2> QED
    BY <2>2, <2>3
<1>6. ASSUME NEW m \in Members, Pending(req[r], m) PROVE Reachable(m)'
  <2>1. req[r].of = m /\ invite[req[r].tok].ends # "cut" /\ PurposeOf(req[r].kind) = "SET_PASSWORD"
    BY <1>2, <1>6 DEF Pending, PurposeOf
  <2>2. Activates(invite'[req[r].tok], m)
    BY <1>4, <1>5, <2>1 DEF Activates
  <2> QED
    BY <1>4, <2>2 DEF Reachable
<1>7. \A t \in Tokens, m \in Members : Activates(invite[t], m) => Activates(invite'[t], m)
  BY <1>5 DEF Activates
<1>8. \A x \in Requests : HoldsLink(req[x]) => req[x].tok \in Tokens
  BY <1>1 DEF WorkInv, RequestFits
<1>9. NewLinkFits(r)'
  BY <1>3 DEF NewLinkFits
<1> QED
  BY <1>2, <1>5, <1>6, <1>7, <1>8, <1>9, InvitesHold

\* A link is used up by the request that is about to activate its member.
LEMMA UsedLink ==
    ASSUME InviteInv, [Next]_vars, NEW r \in Requests, MarkStaffInviteUsed(r),
           \A x \in Requests \ {r} : req'[x] = req[x]
    PROVE  NewLinksFit' /\ InvitesFit'
<1> DEFINE p == IF invite[req[r].tok].purpose = "SET_PASSWORD" THEN "activate" ELSE "answer"
<1>1. /\ WorkInv /\ req[r] \in RequestRow /\ RequestFits(r) /\ StageFits(req[r]) /\ CarriesFit(req[r]) /\ TypeOK
  BY DEF InviteInv, WorkInv, TypeOK, RequestFits
<1>2. /\ req[r].pc = "used" /\ req[r].kind = "SETUP" /\ member' = member
      /\ invite' = [invite EXCEPT ![req[r].tok].used = TRUE] /\ Goes(r, p)
  BY <1>1 DEF MarkStaffInviteUsed, StageFits
<1>3. req'[r].pc = p /\ req'[r].of = req[r].of /\ req'[r].kind = "SETUP"
  BY <1>1, <1>2 DEF Goes, TypeOK, RequestRow
<1>4. req[r].tok \in Tokens /\ invite[req[r].tok].of = req[r].of
  BY <1>1, <1>2 DEF RequestFits, CarriesFit
<1>5. \A t \in Tokens : /\ invite'[t].ends = invite[t].ends
                        /\ t # req[r].tok => invite'[t] = invite[t]
  <2> SUFFICES ASSUME NEW t \in Tokens
               PROVE  invite'[t].ends = invite[t].ends /\ (t # req[r].tok => invite'[t] = invite[t])
    OBVIOUS
  <2>1. invite[t] \in InviteRow
    BY <1>1 DEF TypeOK
  <2> QED
    BY <1>1, <1>2, <2>1 DEF TypeOK, InviteRow
<1>6. ASSUME NEW t \in Tokens, NEW m \in Members, Activates(invite[t], m)
      PROVE  Activates(invite'[t], m) \/ Reachable(m)'
  <2>1. CASE t # req[r].tok
    BY <1>5, <1>6, <2>1
  <2>2. CASE t = req[r].tok
    <3>1. req[r].of = m /\ p = "activate"
      BY <1>4, <1>6, <2>2 DEF Activates
    <3>2. Pending(req[r], m)'
      BY <1>3, <3>1 DEF Pending
    <3> QED
      BY <3>2 DEF Reachable
  <2> QED
    BY <2>1, <2>2
<1>7. \A m : ~Pending(req[r], m)
  BY <1>2 DEF Pending
<1>8. \A x \in Requests : HoldsLink(req[x]) => req[x].tok \in Tokens
  BY <1>1 DEF WorkInv, RequestFits
<1>9. NewLinkFits(r)'
  BY <1>3 DEF NewLinkFits
<1> QED
  BY <1>2, <1>5, <1>6, <1>7, <1>8, <1>9, InvitesHold

\* The requests and memberships stay as they are, and no link is cut.
LEMMA OnlyTimePasses ==
    ASSUME InviteInv, [Next]_vars, UNCHANGED <<req, member>>,
           \A t \in Tokens : /\ invite'[t].of = invite[t].of /\ invite'[t].purpose = invite[t].purpose
                             /\ invite'[t].used = invite[t].used /\ invite'[t].sent = invite[t].sent
                             /\ invite'[t].ends = "cut" => invite[t].ends = "cut"
    PROVE  NewLinksFit' /\ InvitesFit'
<1>1. \A x \in Requests : HoldsLink(req[x]) => req[x].tok \in Tokens
  BY DEF InviteInv, WorkInv, RequestFits
<1>2. NewLinksFit'
  <2> SUFFICES ASSUME NEW x \in Requests PROVE NewLinkFits(x)'
    BY DEF NewLinksFit
  <2>1. NewLinkFits(x)
    BY DEF InviteInv, NewLinksFit
  <2> QED
    BY <1>1, <2>1 DEF NewLinkFits, Overlapped, HoldsLink
<1>3. ASSUME NEW m \in Members, member'[m].invitation = "INVITED" PROVE Reachable(m)'
  <2>1. Reachable(m)
    BY <1>3 DEF InviteInv, InvitesFit
  <2>2. ASSUME NEW t \in Tokens, Activates(invite[t], m) PROVE Reachable(m)'
    <3>1. Activates(invite'[t], m)
      BY <2>2 DEF Activates
    <3> QED
      BY <3>1 DEF Reachable
  <2>3. ASSUME NEW x \in Requests, Pending(req[x], m) PROVE Reachable(m)'
    <3>1. Pending(req[x], m)'
      BY <1>1, <2>3 DEF Pending, HoldsLink
    <3> QED
      BY <3>1 DEF Reachable
  <2> QED
    BY <2>1, <2>2, <2>3, StillReachable
<1> QED
  BY <1>2, <1>3 DEF InvitesFit

LEMMA InviteInvStep ==
    ASSUME InviteInv, [Next]_vars
    PROVE  InviteInv'
<1>1. WorkInv' /\ OverlapsKnown'
  BY WorkStep, OverlapsStep DEF InviteInv
<1>2. ASSUME NEW r \in Requests, Handles(r) PROVE NewLinksFit' /\ InvitesFit'
  <2>1. \A x \in Requests \ {r} : req'[x] = req[x]
    BY <1>2, HandlesAdvances, ArriveJoins DEF Advances, Becomes, Joins, InviteInv, WorkInv, TypeOK
  <2>2. \/ UnrelatedStep(r) \/ Fails(r) \/ MarkInvited(r) \/ MarkActive(r)
        \/ InvalidateStaffInvites(r) \/ NewInvite(r) \/ SendLink(r) \/ MarkStaffInviteUsed(r) \/ CreateStaff(r)
    BY <1>2 DEF Handles, EndingStep, MembershipStep, InviteStep, UnrelatedStep
  <2> QED
    BY <2>1, <2>2, UnrelatedInvites, FailedInvites, InvitedAgain, ActivatedNow, CutLinks, NewInviteReaches,
       SentLink, UsedLink, CreatedInvited
<1>3. ASSUME NEW t \in Tokens, LinkExpires(t) PROVE NewLinksFit' /\ InvitesFit'
  <2>1. invite' = [invite EXCEPT ![t].ends = "lapsed"] /\ UNCHANGED <<req, member>>
    BY <1>3 DEF LinkExpires
  <2>2. invite \in [Tokens -> InviteRow]
    BY DEF InviteInv, WorkInv, TypeOK
  <2>3. ASSUME NEW x \in Tokens
        PROVE  /\ invite'[x].of = invite[x].of /\ invite'[x].purpose = invite[x].purpose
               /\ invite'[x].used = invite[x].used /\ invite'[x].sent = invite[x].sent
               /\ invite'[x].ends = "cut" => invite[x].ends = "cut"
    BY <2>1, <2>2 DEF InviteRow
  <2> QED
    BY <2>1, <2>3, OnlyTimePasses
<1>4. ASSUME UNCHANGED vars PROVE NewLinksFit' /\ InvitesFit'
  <2>1. invite' = invite /\ UNCHANGED <<req, member>>
    BY <1>4 DEF vars, account
  <2> QED
    BY <2>1, OnlyTimePasses
<1>5. NewLinksFit' /\ InvitesFit'
  <2>1. CASE Step
    BY <1>2, <1>3, <2>1, StepIs
  <2> QED
    BY <1>4, <2>1 DEF Next
<1> QED
  BY <1>1, <1>5 DEF InviteInv

LEMMA InitInvites ==
    ASSUME Init
    PROVE  InviteInv
<1>1. \A r \in Requests : req[r].pc = "idle"
  BY IdleFits DEF Init
<1>2. OverlapsKnown /\ NewLinksFit
  BY <1>1 DEF OverlapsKnown, NewLinksFit, NewLinkFits, InFlight
<1>3. PICK s \in Starts : member = s.member /\ invite = s.invite
  BY DEF Init
<1>4. \A m \in Members : member[m].invitation = "INVITED" => \E t \in Tokens : Activates(invite[t], m)
  BY <1>3, StartsAssumption
<1> QED
  BY <1>2, <1>4, InitWorks DEF InviteInv, InvitesFit, Reachable

\* An invited member can still become active: between requests there is a sent
\* link that is unused and was not cut off, unless a request on the account
\* failed half-way or two regenerations overlapped.
THEOREM InvitedCanActivateCorrect == Spec => []InvitedCanActivate
<1>1. Init => InviteInv
  BY InitInvites
<1>2. InviteInv /\ [Next]_vars => InviteInv'
  BY InviteInvStep
<1>3. InviteInv => InvitedCanActivate
  <2> SUFFICES ASSUME InviteInv, NEW m \in Members, member[m].invitation = "INVITED", Settled(m),
                      ~Interrupted(m), ~Overlapped(m)
               PROVE  \E t \in Tokens : Activates(invite[t], m)
    BY DEF InvitedCanActivate
  <2>1. \A r \in Requests : ~Pending(req[r], m)
    BY DEF Settled, Pending, InFlight
  <2> QED
    BY <2>1 DEF InviteInv, InvitesFit, Reachable
<1> QED
  BY <1>1, <1>2, <1>3, PTL DEF Spec


----------------------------------------------------------------------------
(* Rights.                                                                 *)

\* What a request is entitled to while it is under way is recorded.
Watched(r) ==
    /\ InFlight(r) /\ Rights(req[r]) => "rights" \in entitled[r]
    /\ InFlight(r) /\ Scope(req[r]) => "scope" \in entitled[r]
    /\ InFlight(r) /\ OpenVenue(req[r]) => "venue" \in entitled[r]

\* A request past its checks was entitled to what they asked for at some time
\* since it arrived; the venue scope is checked against the context.
Checked(r) ==
    /\ req[r].pc \notin {"idle", "active", "workspace", "done"} =>
          /\ req[r].kind \in StaffRoutes => {"rights", "scope"} \subseteq entitled[r]
          /\ req[r].kind \in PermissionRoutes =>
                "rights" \in entitled[r] /\ (InScope(r) => "scope" \in entitled[r])
    /\ req[r].pc \in {"court", "hours", "mutate"} => {"rights", "scope"} \subseteq entitled[r]
    /\ req[r].pc = "hours" => "venue" \in entitled[r]

\* What a write has to show; UpdateCourt and UpdateCourtStatus ask for no venue scope.
MayWrite(r) ==
    req[r].kind \in Guarded =>
       {"rights", "venue"} \subseteq entitled[r] /\ (req[r].kind \notin CourtEdits => "scope" \in entitled[r])

Covered(r) == req[r].wrote => MayWrite(r)

RightsInv == WorkInv /\ \A r \in Requests : Watched(r) /\ Checked(r) /\ Covered(r)

LEMMA Entitles ==
    ASSUME Entitle, NEW r \in Requests
    PROVE  /\ InFlight(r)' => entitled[r] \subseteq entitled'[r]
           /\ InFlight(r)' /\ Rights(req[r])' => "rights" \in entitled'[r]
           /\ InFlight(r)' /\ Scope(req[r])' => "scope" \in entitled'[r]
           /\ InFlight(r)' /\ OpenVenue(req[r])' => "venue" \in entitled'[r]
           /\ ~InFlight(r)' /\ req'[r].wrote => entitled'[r] = entitled[r]
<1>1. entitled'[r] = IF ~InFlight(r)' THEN IF req'[r].wrote THEN entitled[r] ELSE {}
                     ELSE entitled[r] \cup Facets(req[r])'
  BY DEF Entitle
<1>2. /\ Rights(req[r])' => "rights" \in Facets(req[r])'
      /\ Scope(req[r])' => "scope" \in Facets(req[r])'
      /\ OpenVenue(req[r])' => "venue" \in Facets(req[r])'
  BY DEF Facets
<1> QED
  BY <1>1, <1>2

LEMMA RightsWatched ==
    ASSUME Entitle, NEW r \in Requests
    PROVE  Watched(r)'
  BY Entitles DEF Watched

\* What a step of r has to show for its rights.
Earned(r) ==
    /\ req'[r].kind = req[r].kind
    /\ req'[r].wrote => req[r].wrote \/ MayWrite(r)
    /\ req'[r].pc \notin {"idle", "active", "workspace", "done"} =>
          /\ req[r].kind \in StaffRoutes => {"rights", "scope"} \subseteq entitled[r]
          /\ req[r].kind \in PermissionRoutes =>
                "rights" \in entitled[r] /\ (InScope(r)' => "scope" \in entitled[r])
    /\ req'[r].pc \in {"court", "hours", "mutate"} => {"rights", "scope"} \subseteq entitled[r]
    /\ req'[r].pc = "hours" => "venue" \in entitled[r]

LEMMA EarnedFits ==
    ASSUME RightsInv, Entitle, NEW r \in Requests, Earned(r)
    PROVE  Watched(r)' /\ Checked(r)' /\ Covered(r)'
<1>1. /\ InFlight(r)' => entitled[r] \subseteq entitled'[r]
      /\ ~InFlight(r)' /\ req'[r].wrote => entitled'[r] = entitled[r]
  BY Entitles
<1>2. Checked(r)'
  BY <1>1 DEF Earned, Checked, InFlight
<1>3. Covered(r)'
  <2> SUFFICES ASSUME req'[r].wrote PROVE MayWrite(r)'
    BY DEF Covered
  <2>1. MayWrite(r) /\ req'[r].kind = req[r].kind
    BY DEF Earned, RightsInv, Covered
  <2> QED
    BY <1>1, <2>1 DEF MayWrite
<1> QED
  BY <1>2, <1>3, RightsWatched

\* The other requests keep what they have.
LEMMA OthersEarned ==
    ASSUME RightsInv, NEW x \in Requests, req'[x] = req[x]
    PROVE  Earned(x)
<1>1. Checked(x)
  BY DEF RightsInv
<1>2. InScope(x)' <=> InScope(x)
  BY DEF InScope
<1> QED
  BY <1>1, <1>2 DEF Earned, Checked

\* The fields of a request after a step.
LEMMA FieldsAfter ==
    ASSUME WorkInv, NEW r \in Requests
    PROVE  /\ \A ans : Answer(r, ans) \/ Record(r, ans) =>
                 req'[r].pc = "done" /\ req'[r].kind = req[r].kind /\ (req'[r].wrote => req[r].wrote)
           /\ \A ans, part : Writes(r, part, ans) => req'[r].pc = "done" /\ req'[r].kind = req[r].kind
           /\ \A p : Goes(r, p) =>
                 /\ req'[r].pc = p /\ req'[r].kind = req[r].kind /\ (req'[r].wrote => req[r].wrote)
                 /\ req'[r].ctx = req[r].ctx /\ req'[r].venue = req[r].venue
           /\ \A p : req' = [req EXCEPT ![r].pc = p, ![r].wrote = TRUE] =>
                 req'[r].pc = p /\ req'[r].kind = req[r].kind
<1>1. req \in [Requests -> RequestRow] /\ req[r] \in RequestRow
  BY DEF WorkInv, TypeOK
<1>2. ASSUME NEW ans, Answer(r, ans) \/ Record(r, ans)
      PROVE  req'[r].pc = "done" /\ req'[r].kind = req[r].kind /\ (req'[r].wrote => req[r].wrote)
  <2>1. PICK logged \in BOOLEAN : req' = [req EXCEPT ![r] = Over(r, ans, logged)]
    BY <1>2 DEF Answer, Record
  <2>2. req'[r] = Over(r, ans, logged)
    BY <1>1, <2>1
  <2> QED
    BY <2>2 DEF Over, Idle
<1>3. ASSUME NEW ans, NEW part, Writes(r, part, ans) PROVE req'[r].pc = "done" /\ req'[r].kind = req[r].kind
  <2>1. req'[r] = [Over(r, ans, FALSE) EXCEPT !.wrote = TRUE]
    BY <1>1, <1>3 DEF Writes
  <2> QED
    BY <2>1 DEF Over, Idle
<1>4. ASSUME NEW p, Goes(r, p)
      PROVE  /\ req'[r].pc = p /\ req'[r].kind = req[r].kind /\ (req'[r].wrote => req[r].wrote)
             /\ req'[r].ctx = req[r].ctx /\ req'[r].venue = req[r].venue
  BY <1>1, <1>4 DEF Goes, RequestRow
<1>5. ASSUME NEW p, req' = [req EXCEPT ![r].pc = p, ![r].wrote = TRUE]
      PROVE  req'[r].pc = p /\ req'[r].kind = req[r].kind
  BY <1>1, <1>5 DEF RequestRow
<1> QED
  BY <1>2, <1>3, <1>4, <1>5

LEMMA AnswerEarned ==
    ASSUME RightsInv, NEW r \in Requests, NEW ans, Answer(r, ans) \/ Record(r, ans)
    PROVE  Earned(r)
<1>1. req'[r].pc = "done" /\ req'[r].kind = req[r].kind /\ (req'[r].wrote => req[r].wrote)
  BY FieldsAfter DEF RightsInv
<1> QED
  BY <1>1 DEF Earned

\* A request on the staff accounts, past its checks, has the owner's rights.
LEMMA StaffEarned ==
    ASSUME RightsInv, NEW r \in Requests, req[r].kind \in StaffRoutes,
           req[r].pc \notin {"idle", "active", "workspace", "done"}, req'[r].kind = req[r].kind,
           req'[r].pc \notin {"court", "hours", "mutate"}
    PROVE  Earned(r)
<1>1. {"rights", "scope", "venue"} \subseteq entitled[r]
  <2>1. OpenVenue(req[r])
    BY DEF OpenVenue, StaffRoutes
  <2> QED
    BY <2>1 DEF RightsInv, Watched, Checked, InFlight
<1>2. req[r].kind \notin PermissionRoutes
  BY RoutesAre DEF StaffRoutes
<1> QED
  BY <1>1, <1>2 DEF Earned, MayWrite

\* Requests that anyone may send need no rights.
LEMMA PublicEarned ==
    ASSUME NEW r \in Requests, req[r].kind \in {"SETUP", "LOGIN"}, req'[r].kind = req[r].kind,
           req'[r].pc \notin {"court", "hours", "mutate"}
    PROVE  Earned(r)
<1>1. req[r].kind \notin StaffRoutes \cup PermissionRoutes \cup AdminRoutes
  BY RoutesAre DEF StaffRoutes, AdminRoutes
<1> QED
  BY <1>1 DEF Earned, MayWrite, Guarded


LEMMA OwnerRights ==
    ASSUME WorkInv, NEW r \in Requests
    PROVE  /\ req[r].who = "owner" => (Rights(req[r]) <=> owner = "ACTIVE")
           /\ req[r].who = "admin" => (Rights(req[r]) <=> ~req[r].late)
           /\ req[r].who \in Members =>
                (Rights(req[r]) <=>
                   /\ member[req[r].who].status = "ACTIVE" /\ owner = "ACTIVE"
                   /\ req[r].kind \in PermissionRoutes
                   /\ PermissionOf(req[r].kind) \in member[req[r].who].perms)
           /\ Rights(req[r]) /\ (req[r].who \in Members => req[r].venue \in VenuesOf(req[r].who)) => Scope(req[r])
<1>1. "owner" \notin Members /\ "admin" \notin Members
  BY WorkspaceAssumption
<1> QED
  BY <1>1 DEF Rights, Scope

\* The checks of the middleware are what entitles a caller.
LEMMA AccessEarned ==
    ASSUME RightsInv, NEW r \in Requests, OwnerWorkspaceAccess(r)
    PROVE  Earned(r)
<1>1. /\ WorkInv /\ req[r] \in RequestRow /\ RequestFits(r) /\ StageFits(req[r]) /\ TypeOK
  BY DEF RightsInv, WorkInv, TypeOK, RequestFits
<1>2. req[r].pc = "workspace" /\ InFlight(r) /\ req[r].kind \in StaffRoutes \cup PermissionRoutes
      /\ req[r].who \in Members \cup {"owner"}
  BY <1>1 DEF OwnerWorkspaceAccess, InFlight, StageFits
<1>3. (Rights(req[r]) => "rights" \in entitled[r]) /\ (Scope(req[r]) => "scope" \in entitled[r])
  BY <1>2 DEF RightsInv, Watched
<1>4. CASE Answer(r, 403)
  BY <1>4, AnswerEarned
<1>5. CASE req[r].who = "owner" /\ owner = "ACTIVE" /\ req' = [req EXCEPT ![r].pc = "begin", ![r].ctx = Venues]
  <2>1. "rights" \in entitled[r] /\ "scope" \in entitled[r]
    BY <1>1, <1>3, <1>5, OwnerRights, WorkspaceAssumption
  <2>2. req'[r].pc = "begin" /\ req'[r].kind = req[r].kind /\ (req'[r].wrote => req[r].wrote)
    BY <1>1, <1>5 DEF TypeOK, RequestRow
  <2> QED
    BY <2>1, <2>2 DEF Earned
<1>6. CASE /\ req[r].who # "owner" /\ member[req[r].who].status = "ACTIVE" /\ owner = "ACTIVE"
           /\ RequireActualOwner(req[r].kind, req[r].who)
           /\ RequireOwnerPermission(req[r].kind, member[req[r].who].perms)
           /\ req' = [req EXCEPT ![r].pc = "begin", ![r].ctx = VenuesOf(req[r].who)]
  <2>1. req[r].who \in Members /\ req[r].kind \notin StaffRoutes /\ req[r].kind \in PermissionRoutes
    BY <1>2, <1>6 DEF RequireActualOwner
  <2>2. req'[r].pc = "begin" /\ req'[r].kind = req[r].kind /\ (req'[r].wrote => req[r].wrote)
        /\ req'[r].ctx = VenuesOf(req[r].who) /\ req'[r].venue = req[r].venue
    BY <1>1, <1>6 DEF TypeOK, RequestRow
  <2>3. Rights(req[r])
    BY <1>1, <1>6, <2>1, OwnerRights DEF RequireOwnerPermission
  <2>4. InScope(r)' => Scope(req[r])
    BY <1>1, <2>2, <2>3, OwnerRights DEF InScope
  <2> QED
    BY <1>3, <2>1, <2>2, <2>3, <2>4 DEF Earned
<1> QED
  BY <1>4, <1>5, <1>6 DEF OwnerWorkspaceAccess, GetOwnerContext, GetStaffContext

\* A request on a venue that moves on to its write.
LEMMA VenueEarned ==
    ASSUME RightsInv, NEW r \in Requests, req[r].kind \in PermissionRoutes, req[r].pc = "begin",
           req'[r].kind = req[r].kind, req[r].kind = "NEW_COURT" \/ Writable(req[r].venue),
           InScope(r) \/ (req[r].kind \in CourtEdits /\ req'[r].pc = "done")
    PROVE  Earned(r)
<1>1. "rights" \in entitled[r] /\ (InScope(r) => "scope" \in entitled[r])
  BY DEF RightsInv, Checked
<1>2. OpenVenue(req[r])
  BY RoutesAre DEF OpenVenue
<1>3. "venue" \in entitled[r]
  BY <1>2 DEF RightsInv, Watched, InFlight
<1> QED
  BY <1>1, <1>3 DEF Earned, MayWrite

LEMMA EstateEarned ==
    ASSUME RightsInv, NEW r \in Requests, EstateStep(r)
    PROVE  Earned(r)
<1>1. /\ WorkInv /\ req[r] \in RequestRow /\ StageFits(req[r])
  BY DEF RightsInv, WorkInv, TypeOK, RequestFits
<1>2. \A ans, part : Writes(r, part, ans) => req'[r].pc = "done" /\ req'[r].kind = req[r].kind
  BY <1>1, FieldsAfter
<1>3. \A ans : Answer(r, ans) => Earned(r)
  BY AnswerEarned
<1>4. {"VENUE", "VENUE_STATUS", "COURT", "COURT_STATUS", "NEW_COURT", "HOURS"} \subseteq PermissionRoutes
  BY RoutesAre
<1>5. CASE UpdateVenue(r) \/ UpdateVenueStatus(r)
  <2>1. req[r].kind \in PermissionRoutes /\ req[r].pc = "begin"
    BY <1>4, <1>5 DEF UpdateVenue, UpdateVenueStatus
  <2>2. \/ InScope(r) /\ Writable(req[r].venue) /\ Writes(r, "venue", 200)
        \/ Answer(r, respondVenueError.VenueNotFound)
    BY <1>5 DEF UpdateVenue, UpdateVenueStatus
  <2> QED
    BY <1>2, <1>3, <2>1, <2>2, VenueEarned
<1>6. CASE UpdateCourt(r) \/ UpdateCourtStatus(r)
  <2>1. req[r].kind \in {"COURT", "COURT_STATUS"} /\ req[r].pc = "begin" /\ EditCourt(r)
    BY <1>6 DEF UpdateCourt, UpdateCourtStatus, EditCourt
  <2>2. \/ Writable(req[r].venue) /\ \E ans : Writes(r, "court", ans)
        \/ Answer(r, respondCourtError.CourtNotFound)
    BY <2>1 DEF EditCourt
  <2> QED
    BY <1>2, <1>3, <1>4, <2>1, <2>2, VenueEarned DEF CourtEdits
<1>7. CASE InsertCourt(r) \/ ReplaceOperatingHours(r)
  <2>1. /\ req[r].pc \in {"court", "hours"} /\ InFlight(r)
        /\ req'[r].pc = "done" /\ req'[r].kind = req[r].kind
    BY <1>2, <1>7 DEF InsertCourt, ReplaceOperatingHours, InFlight
  <2>2. {"rights", "scope"} \subseteq entitled[r]
    BY <2>1 DEF RightsInv, Checked
  <2>3. "venue" \in entitled[r]
    <3>1. CASE req[r].pc = "hours"
      BY <3>1 DEF RightsInv, Checked
    <3>2. CASE req[r].pc = "court"
      <4>1. OpenVenue(req[r])
        BY <1>1, <3>2 DEF StageFits, OpenVenue
      <4> QED
        BY <2>1, <4>1 DEF RightsInv, Watched
    <3> QED
      BY <2>1, <3>1, <3>2
  <2> QED
    BY <2>1, <2>2, <2>3 DEF Earned, MayWrite
<1>8. CASE UpdateOwnerStatus(r) \/ SuspendVenue(r)
  <2>1. /\ req[r].pc = "mutate" /\ InFlight(r) /\ req[r].kind \in AdminRoutes
        /\ req'[r].pc = "answer" /\ req'[r].kind = req[r].kind
    BY <1>1, <1>8, FieldsAfter DEF UpdateOwnerStatus, SuspendVenue, InFlight, StageFits
  <2>2. {"rights", "scope"} \subseteq entitled[r]
    BY <2>1 DEF RightsInv, Checked
  <2>3. OpenVenue(req[r])
    BY <2>1 DEF OpenVenue, AdminRoutes
  <2>4. "venue" \in entitled[r]
    BY <2>1, <2>3 DEF RightsInv, Watched
  <2> QED
    BY <2>1, <2>2, <2>4 DEF Earned, MayWrite
<1> QED
  BY <1>5, <1>6, <1>7, <1>8 DEF EstateStep

LEMMA CheckEarned ==
    ASSUME RightsInv, NEW r \in Requests, CheckStep(r)
    PROVE  Earned(r)
<1>1. /\ WorkInv /\ req[r] \in RequestRow /\ StageFits(req[r]) /\ TypeOK
  BY DEF RightsInv, WorkInv, TypeOK, RequestFits
<1>2. \A p : Goes(r, p) =>
         /\ req'[r].pc = p /\ req'[r].kind = req[r].kind /\ (req'[r].wrote => req[r].wrote)
         /\ req'[r].ctx = req[r].ctx /\ req'[r].venue = req[r].venue
  BY <1>1, FieldsAfter
<1>3. \A ans : Answer(r, ans) => Earned(r)
  BY AnswerEarned
<1>4. CASE RequireActiveUser(r)
  <2>1. req[r].pc = "active"
    BY <1>4 DEF RequireActiveUser
  <2>2. CASE req[r].who = "admin" /\ Goes(r, "begin")
    <3>1. req[r].kind \notin StaffRoutes \cup PermissionRoutes
      BY <1>1, <2>2, WorkspaceAssumption DEF StageFits
    <3> QED
      BY <1>2, <2>2, <3>1 DEF Earned
  <2>3. CASE Goes(r, "workspace")
    BY <1>2, <2>3 DEF Earned
  <2> QED
    BY <1>3, <1>4, <2>2, <2>3 DEF RequireActiveUser
<1>5. CASE OwnerWorkspaceAccess(r)
  BY <1>5, AccessEarned
<1>6. CASE RegenerateInvite(r) \/ ResetPasswordToken(r) \/ FindOldStatus(r)
  <2>1. req[r].kind \in StaffRoutes /\ req[r].pc = "begin"
    BY <1>6 DEF RegenerateInvite, ResetPasswordToken, FindOldStatus, StaffRoutes
  <2>2. Goes(r, "invalidate") \/ Goes(r, "status") \/ \E ans : Answer(r, ans)
    BY <1>6 DEF RegenerateInvite, ResetPasswordToken, FindOldStatus
  <2> QED
    BY <1>2, <1>3, <2>1, <2>2, StaffEarned
<1>7. CASE UpdateStaff(r) \/ UpdateVenues(r)
  <2>1. req[r].kind \in StaffRoutes /\ req[r].pc = "begin"
    BY <1>7 DEF UpdateStaff, UpdateVenues, StaffRoutes
  <2>2. StartReplacing(r) \/ \E ans : Answer(r, ans)
    BY <1>7 DEF UpdateStaff, UpdateVenues
  <2>3. CASE StartReplacing(r)
    <3>1. req'[r].pc = "replace" /\ req'[r].kind = req[r].kind
      BY <1>1, <2>3 DEF StartReplacing, TypeOK, RequestRow
    <3> QED
      BY <2>1, <3>1, StaffEarned
  <2> QED
    BY <1>3, <2>2, <2>3
<1>8. CASE SetupPassword(r) \/ Login(r)
  <2>1. req[r].kind \in {"SETUP", "LOGIN"}
    BY <1>8 DEF SetupPassword, Login
  <2>2. Goes(r, "password") \/ Goes(r, "memberships") \/ \E ans : Answer(r, ans)
    BY <1>8 DEF SetupPassword, Login
  <2> QED
    BY <1>2, <1>3, <2>1, <2>2, PublicEarned
<1>9. CASE CreateCourt(r)
  <2>1. req[r].kind = "NEW_COURT" /\ req[r].pc = "begin" /\ req[r].kind \in PermissionRoutes
    BY <1>9, RoutesAre DEF CreateCourt
  <2>2. (InScope(r) /\ Goes(r, "court")) \/ \E ans : Answer(r, ans)
    BY <1>9 DEF CreateCourt
  <2> QED
    BY <1>2, <1>3, <2>1, <2>2, VenueEarned
<1>10. CASE FindOwnedCourt(r)
  <2>1. req[r].kind = "HOURS" /\ req[r].pc = "begin" /\ req[r].kind \in PermissionRoutes
    BY <1>10, RoutesAre DEF FindOwnedCourt
  <2>2. (InScope(r) /\ Writable(req[r].venue) /\ Goes(r, "hours")) \/ \E ans : Answer(r, ans)
    BY <1>10 DEF FindOwnedCourt
  <2> QED
    BY <1>2, <1>3, <2>1, <2>2, VenueEarned
<1>11. CASE DeadlinePasses(r)
  <2>1. /\ req'[r].pc = req[r].pc /\ req'[r].kind = req[r].kind /\ (req'[r].wrote => req[r].wrote)
        /\ req'[r].ctx = req[r].ctx /\ req'[r].venue = req[r].venue
    BY <1>1, <1>11 DEF DeadlinePasses, TypeOK, RequestRow
  <2>2. InScope(r)' <=> InScope(r)
    BY <2>1 DEF InScope
  <2>3. Checked(r)
    BY DEF RightsInv
  <2> QED
    BY <2>1, <2>2, <2>3 DEF Earned, Checked
<1>12. CASE StartAdmin(r)
  <2>1. req[r].kind \in AdminRoutes /\ req[r].pc = "begin" /\ InFlight(r) /\ req[r].who = "admin"
    BY <1>1, <1>12 DEF StartAdmin, InFlight, StageFits
  <2>2. (~req[r].late /\ Goes(r, "mutate")) \/ \E ans : Answer(r, ans)
    BY <1>12 DEF StartAdmin, rejectExpiredMutation
  <2>3. CASE ~req[r].late /\ Goes(r, "mutate")
    <3>1. {"rights", "scope"} \subseteq entitled[r]
      BY <1>1, <2>1, <2>3, OwnerRights, WorkspaceAssumption DEF RightsInv, Watched
    <3> QED
      BY <1>2, <2>3, <3>1 DEF Earned
  <2> QED
    BY <1>3, <2>2, <2>3
<1> QED
  BY <1>4, <1>5, <1>6, <1>7, <1>8, <1>9, <1>10, <1>11, <1>12 DEF CheckStep


\* Steps on the accounts: of the owner, or of a member with a link.
LEMMA AccountEarned ==
    ASSUME RightsInv, NEW r \in Requests, LoginStep(r) \/ MembershipStep(r) \/ InviteStep(r)
    PROVE  Earned(r)
<1>1. /\ WorkInv /\ req[r] \in RequestRow /\ StageFits(req[r]) /\ TypeOK
  BY DEF RightsInv, WorkInv, TypeOK, RequestFits
<1>2. /\ \A p : Goes(r, p) => req'[r].pc = p /\ req'[r].kind = req[r].kind
      /\ \A p : req' = [req EXCEPT ![r].pc = p, ![r].wrote = TRUE] => req'[r].pc = p /\ req'[r].kind = req[r].kind
  BY <1>1, FieldsAfter
<1>3. \A ans : Answer(r, ans) \/ Record(r, ans) => Earned(r)
  BY AnswerEarned
<1>4. req[r].kind \in StaffRoutes \cup {"SETUP", "LOGIN"} /\ req[r].pc \notin {"idle", "active", "workspace", "done"}
  <2>1. {"CREATE", "UPDATE", "STATUS", "VENUES", "REGENERATE", "RESET"} \subseteq StaffRoutes
    BY DEF StaffRoutes
  <2>2. CASE LoginStep(r) \/ MembershipStep(r)
    BY <1>1, <2>1, <2>2 DEF LoginStep, UpdateUserPassword, GetStaffMemberships, MembershipStep, MarkInvited,
                            MarkActive, UpdateStatus, ReplaceVenueAccess, StageFits
  <2>3. CASE InviteStep(r)
    BY <1>1, <2>1, <2>3 DEF InviteStep, InvalidateStaffInvites, NewInvite, SendLink, MarkStaffInviteUsed,
                            CreateStaff, StageFits
  <2> QED
    BY <2>2, <2>3
<1>5. \/ \E ans : Answer(r, ans) \/ Record(r, ans)
      \/ req'[r].kind = req[r].kind /\ req'[r].pc \notin {"court", "hours", "mutate"}
  <2>1. CASE LoginStep(r)
    BY <1>2, <2>1 DEF LoginStep, UpdateUserPassword, GetStaffMemberships
  <2>2. CASE MembershipStep(r)
    BY <1>2, <2>2 DEF MembershipStep, MarkInvited, MarkActive, UpdateStaffInvitationStatus, UpdateStatus,
                      ReplaceVenueAccess, Replaces
  <2>3. CASE InvalidateStaffInvites(r) \/ SendLink(r)
    BY <1>2, <2>3 DEF InvalidateStaffInvites, SendLink
  <2>4. CASE MarkStaffInviteUsed(r)
    <3>1. Goes(r, "activate") \/ Goes(r, "answer")
      BY <2>4 DEF MarkStaffInviteUsed
    <3> QED
      BY <1>2, <3>1
  <2>5. CASE NewInvite(r)
    <3>1. PICK t \in FreshTokens, p \in {"answer", "invited"} :
             req' = [req EXCEPT ![r].tok = t, ![r].wrote = TRUE, ![r].pc = p]
      BY <2>5 DEF NewInvite
    <3> QED
      BY <1>1, <3>1 DEF TypeOK, RequestRow
  <2>6. CASE CreateStaff(r)
    <3>1. ASSUME NEW t \in FreshTokens, req' = [req EXCEPT ![r].pc = "answer", ![r].tok = t, ![r].wrote = TRUE]
          PROVE  req'[r].kind = req[r].kind /\ req'[r].pc \notin {"court", "hours", "mutate"}
      BY <1>1, <3>1 DEF TypeOK, RequestRow
    <3> QED
      BY <2>6, <3>1 DEF CreateStaff
  <2> QED
    BY <2>1, <2>2, <2>3, <2>4, <2>5, <2>6 DEF InviteStep
<1> QED
  BY <1>3, <1>4, <1>5, StaffEarned, PublicEarned

LEMMA RightsStep ==
    ASSUME RightsInv, [Next]_vars
    PROVE  RightsInv'
<1>1. WorkInv'
  BY WorkStep DEF RightsInv
<1>2. ASSUME NEW r \in Requests, Handles(r), ~Arrive(r) PROVE Earned(r)
  <2>1. CASE EndingStep(r)
    <3>1. \E ans : Answer(r, ans) \/ Record(r, ans)
      BY <2>1 DEF EndingStep, Fails, PasswordSet, StaffChanged, AdminAnswers
    <3> QED
      BY <3>1, AnswerEarned
  <2> QED
    BY <1>2, <2>1, CheckEarned, EstateEarned, AccountEarned DEF Handles
<1>3. ASSUME Entitle, NEW r \in Requests, Arrive(r) PROVE Watched(r)' /\ Checked(r)' /\ Covered(r)'
  <2>1. PICK q : Joins(r, q)
    BY <1>3, ArriveJoins DEF RightsInv
  <2>2. req'[r] = q
    BY <2>1 DEF Joins, RightsInv, WorkInv, TypeOK
  <2>3. Checked(r)' /\ Covered(r)'
    BY <2>1, <2>2 DEF Joins, Checked, Covered, Guarded
  <2> QED
    BY <1>3, <2>3, RightsWatched
<1>4. ASSUME Step, Entitle, NEW x \in Requests PROVE Watched(x)' /\ Checked(x)' /\ Covered(x)'
  <2>1. CASE \E t \in Tokens : LinkExpires(t)
    <3>1. req' = req
      BY <2>1 DEF LinkExpires
    <3> QED
      BY <1>4, <3>1, OthersEarned, EarnedFits
  <2>2. ASSUME NEW r \in Requests, Handles(r) PROVE Watched(x)' /\ Checked(x)' /\ Covered(x)'
    <3>1. \A y \in Requests \ {r} : req'[y] = req[y]
      BY <2>2, HandlesAdvances, ArriveJoins DEF Advances, Becomes, Joins, RightsInv, WorkInv, TypeOK
    <3>2. CASE x # r
      BY <1>4, <3>1, <3>2, OthersEarned, EarnedFits
    <3>3. CASE x = r /\ Arrive(r)
      BY <1>3, <1>4, <3>3
    <3>4. CASE x = r /\ ~Arrive(r)
      BY <1>2, <1>4, <2>2, <3>4, EarnedFits
    <3> QED
      BY <3>2, <3>3, <3>4
  <2> QED
    BY <1>4, <2>1, <2>2, StepIs
<1>5. ASSUME UNCHANGED vars, NEW x \in Requests PROVE Watched(x)' /\ Checked(x)' /\ Covered(x)'
  <2>1. /\ owner' = owner /\ member' = member /\ access' = access /\ venue' = venue /\ req' = req
        /\ entitled' = entitled
    BY <1>5 DEF vars, account, estate
  <2>2. Watched(x) /\ Checked(x) /\ Covered(x)
    BY DEF RightsInv
  <2>3. Watched(x)'
    BY <2>1, <2>2 DEF Watched, InFlight, Rights, Scope, VenuesOf, OpenVenue, Writable
  <2>4. Checked(x)' /\ Covered(x)'
    BY <2>1, <2>2 DEF Checked, Covered, MayWrite, InScope
  <2> QED
    BY <2>3, <2>4
<1> QED
  BY <1>1, <1>4, <1>5 DEF RightsInv, Next

LEMMA InitRights ==
    ASSUME Init
    PROVE  RightsInv
<1>1. \A r \in Requests : req[r].pc = "idle" /\ ~req[r].wrote
  BY DEF Init, Idle
<1>2. \A r \in Requests : Watched(r) /\ Checked(r) /\ Covered(r)
  BY <1>1 DEF Watched, Checked, Covered, InFlight
<1> QED
  BY <1>2, InitWorks DEF RightsInv

\* Nothing is written for a caller who had no right to it, or in a venue that
\* was suspended, during the whole of the request; for staff the venue was one
\* of theirs as well, except where a court is edited.
THEOREM WritesWithinRightsCorrect == Spec => []WritesWithinRights
<1>1. Init => RightsInv
  BY InitRights
<1>2. RightsInv /\ [Next]_vars => RightsInv'
  BY RightsStep
<1>3. RightsInv => WritesWithinRights
  BY DEF RightsInv, Covered, MayWrite, WritesWithinRights, Guarded
<1> QED
  BY <1>1, <1>2, <1>3, PTL DEF Spec

=============================================================================
