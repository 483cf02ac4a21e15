--------------------------- MODULE OwnerWorkspace ---------------------------
(***************************************************************************)
(* The workspace of one venue owner: who may act in it and what they       *)
(* change (packages auth, middleware, owneraccess, staff, venues, courts,  *)
(* schedules, admin).                                                      *)
(*                                                                         *)
(* The owner invites staff, assigns them permissions and venues and        *)
(* deactivates them; an invited member sets a password with the link and   *)
(* logs in; owner and staff edit venues, courts and opening hours; the     *)
(* administrator suspends the owner or a venue.  The handlers run          *)
(* concurrently and most of them are several statements outside a          *)
(* transaction, so a step here is one statement, or one transaction where  *)
(* the code opens one.  Payloads are abstracted to who wrote last.         *)
(***************************************************************************)
EXTENDS Naturals, FiniteSets

CONSTANTS
    None,        \* no request, no token
    Members,     \* email addresses of staff: one account and one membership each
    Venues,      \* every venue; each stands for its court as well
    OwnVenues,   \* those of this owner
    VenueSets,   \* venue_ids a request may carry
    PermSets,    \* permissions a request may carry
    Requests,    \* HTTP requests
    Tokens,      \* random tokens of invitation and reset links
    Starts       \* states of the accounts to start from, with the load to serve

Permissions == {"VENUES_WRITE", "COURTS_WRITE", "SCHEDULE_WRITE"}

ASSUME WorkspaceAssumption ==
    /\ OwnVenues \subseteq Venues
    /\ VenueSets \subseteq SUBSET Venues
    /\ PermSets \subseteq SUBSET Permissions
    /\ Members \cap {"owner", "admin", "public"} = {}
    /\ None \notin Members \cup Requests \cup Tokens \cup {"earlier"}
    /\ Requests \cap Tokens = {}
    /\ IsFiniteSet(Tokens)

VARIABLES
    load,      \* the kinds of request served, and the venues they are about
    owner,     \* users.status of the owner
    member,    \* owner_staff_members: status, invitation_status, permissions
    access,    \* owner_staff_venue_access: the request that inserted a row, or None
    password,  \* the request that set users.password_hash; None: the random placeholder
    session,   \* members that hold a JWT
    invite,    \* owner_staff_invites
    venue,     \* venues.status; "LISTED" stands for DRAFT, ACTIVE and INACTIVE
    content,   \* the request that wrote a venue, its court, its hours last
    req,       \* the requests
    entitled,  \* history: what a request has been entitled to since it arrived
    replaced   \* history: the last committed replacement of a member's venues

account == <<member, access, password, session, invite, replaced>>
estate == <<owner, venue, content>>
vars == <<load, account, estate, req, entitled>>

Parts == {"venue", "court", "hours"}
Actors == {"owner", "admin", "public"} \cup Members

Absent == [status |-> "none", invitation |-> "none", perms |-> {}]

Idle == [kind |-> "none", who |-> "public", of |-> None, pc |-> "idle", venue |-> None,
         want |-> {}, perms |-> {}, to |-> "none", tok |-> None, ctx |-> {},
         saw |-> [v \in OwnVenues |-> None], late |-> FALSE, wrote |-> FALSE, rivals |-> {},
         logged |-> FALSE, ans |-> 0]

InFlight(r) == req[r].pc \notin {"idle", "done"}

Goes(r, pc) == req' = [req EXCEPT ![r].pc = pc]

\* What is kept of a request that is over.
Over(r, ans, logged) ==
    [Idle EXCEPT !.kind = req[r].kind, !.who = req[r].who, !.of = req[r].of, !.pc = "done",
                 !.rivals = req[r].rivals, !.wrote = req[r].wrote, !.logged = logged, !.ans = ans]
Answer(r, ans) == req' = [req EXCEPT ![r] = Over(r, ans, FALSE)]

----------------------------------------------------------------------------
(* Routes and what guards them.                                            *)

StaffRoutes == {"CREATE", "UPDATE", "STATUS", "VENUES", "REGENERATE", "RESET"}
VenueRoutes == [VENUE |-> "VENUES_WRITE", VENUE_STATUS |-> "VENUES_WRITE"]
CourtRoutes == [NEW_COURT |-> "COURTS_WRITE", COURT |-> "COURTS_WRITE", COURT_STATUS |-> "COURTS_WRITE"]
ScheduleRoutes == [HOURS |-> "SCHEDULE_WRITE"]
AdminRoutes == {"OWNER_STATUS", "SUSPEND"}

PermissionRoutes == DOMAIN VenueRoutes \cup DOMAIN CourtRoutes \cup DOMAIN ScheduleRoutes
Routes == StaffRoutes \cup PermissionRoutes \cup AdminRoutes \cup {"SETUP", "LOGIN"}
PermissionOf(k) == IF k \in DOMAIN VenueRoutes THEN VenueRoutes[k]
                   ELSE IF k \in DOMAIN CourtRoutes THEN CourtRoutes[k]
                   ELSE ScheduleRoutes[k]

\* The venues a member has a row for.
VenuesOf(m) == {v \in OwnVenues : access[m][v] # None}

\* GetStaffContextByUserID is one statement: the facts it returns held together.
GetStaffContext(m) ==
    [active |-> member[m].status = "ACTIVE", owner |-> owner = "ACTIVE",
     perms |-> member[m].perms, venues |-> VenuesOf(m)]

GetOwnerContext == [active |-> owner = "ACTIVE"]

\* users.status of an actor; nothing suspends staff users or administrators.
GetUserStatus(a) == IF a = "owner" THEN owner ELSE "ACTIVE"

\* Only the owner passes RequireActualOwner, an owner always passes RequireOwnerPermission.
RequireActualOwner(k, a) == k \in StaffRoutes => a = "owner"
RequireOwnerPermission(k, perms) == k \in PermissionRoutes => PermissionOf(k) \in perms

\* Auth: staff carry the JWT of a login, administrators pass RequireRole.
Auth(k, a) ==
    CASE k \in StaffRoutes \cup PermissionRoutes -> a = "owner" \/ a \in session
      [] k \in AdminRoutes -> a = "admin"
      [] OTHER -> a = "public"

StaffInput(m, venues, perms, to) ==
    [Idle EXCEPT !.of = m, !.want = venues, !.perms = perms, !.to = to]
VenueInput(v) == [Idle EXCEPT !.venue = v]
AdminInput(v, to, late) == [Idle EXCEPT !.venue = v, !.to = to, !.late = late]
LinkInput(m, tok) == [Idle EXCEPT !.of = m, !.tok = tok]

\* What a request of each route carries.
Inputs(k) ==
    CASE k \in {"CREATE", "UPDATE"} ->
            {StaffInput(m, w, p, "none") : m \in Members, w \in VenueSets, p \in PermSets}
      [] k = "VENUES" -> {StaffInput(m, w, {}, "none") : m \in Members, w \in VenueSets}
      [] k = "STATUS" -> {StaffInput(m, {}, {}, to) : m \in Members, to \in {"ACTIVE", "INACTIVE"}}
      [] k \in {"REGENERATE", "RESET"} -> {StaffInput(m, {}, {}, "none") : m \in Members}
      [] k \in PermissionRoutes -> {VenueInput(v) : v \in load.at}
      [] k = "OWNER_STATUS" -> {AdminInput(None, to, l) : to \in {"ACTIVE", "SUSPENDED"}, l \in BOOLEAN}
      [] k = "SUSPEND" ->
            {AdminInput(v, to, l) : v \in load.at, to \in {"ACTIVE", "SUSPENDED"}, l \in BOOLEAN}
      \* a link is used once it was sent, a password by those who set it
      [] k = "SETUP" -> {LinkInput(invite[t].of, t) : t \in {x \in Tokens : invite[x].sent}}
      [] k = "LOGIN" -> {LinkInput(req[x].of, x) :
                            x \in {y \in Requests : req[y].kind = "SETUP" /\ req[y].ans = 200}}

\* Requests that replace the same rows or the same links.
Rivals(k) == IF k \in {"UPDATE", "VENUES"} THEN {"UPDATE", "VENUES"} ELSE {k} \cap {"REGENERATE"}

\* A request reaches the server.
Arrive(r) ==
    /\ req[r].pc = "idle"
    /\ \E k \in load.kinds : \E a \in {x \in Actors : Auth(k, x)}, in \in Inputs(k) :
          req' = [req EXCEPT ![r] =
             [in EXCEPT !.kind = k, !.who = a, !.pc = IF a = "public" THEN "begin" ELSE "active",
                        !.rivals = {x \in Requests : InFlight(x) /\ req[x].kind \in Rivals(k)
                                                                /\ req[x].of = in.of}]]
    /\ UNCHANGED <<load, account, estate>>

RequireActiveUser(r) ==
    /\ req[r].pc = "active"
    /\ IF GetUserStatus(req[r].who) # "ACTIVE" THEN Answer(r, 403)
       ELSE Goes(r, IF req[r].who = "admin" THEN "begin" ELSE "workspace")
    /\ UNCHANGED <<load, account, estate>>

\* Altered form: staff of a suspended owner, and deactivated staff, pass.
OwnerWorkspaceAccessLoose(r) ==
    /\ req[r].pc = "workspace"
    /\ LET a == req[r].who
           ctx == IF a = "owner" THEN [perms |-> Permissions, venues |-> Venues] ELSE GetStaffContext(a)
       IN IF /\ RequireActualOwner(req[r].kind, a)
             /\ RequireOwnerPermission(req[r].kind, ctx.perms)
          THEN req' = [req EXCEPT ![r].pc = "begin", ![r].ctx = ctx.venues]
          ELSE Answer(r, 403)
    /\ UNCHANGED <<load, account, estate>>

\* OwnerWorkspaceAccess and the in-memory check that follows; the venues of
\* the context are kept for the handler.
OwnerWorkspaceAccess(r) ==
    /\ req[r].pc = "workspace"
    /\ LET a == req[r].who
           staff == GetStaffContext(a)
           active == IF a = "owner" THEN GetOwnerContext.active ELSE staff.active /\ staff.owner
       IN IF /\ active
             /\ RequireActualOwner(req[r].kind, a)
             /\ a = "owner" \/ RequireOwnerPermission(req[r].kind, staff.perms)
          THEN req' = [req EXCEPT ![r].pc = "begin",
                                  ![r].ctx = IF a = "owner" THEN Venues ELSE staff.venues]
          ELSE Answer(r, 403)
    /\ UNCHANGED <<load, account, estate>>

\* The venue scope of the caller: the owner's context holds every venue.
InScope(r) == req[r].venue \in req[r].ctx

\* A lookup that fails in OwnerWorkspaceAccess is refused; the handlers of
\* RegenerateInvite and ResetPassword take every error for a bad request.
FailureAnswer(q) ==
    IF q.pc = "workspace" THEN 403
    ELSE IF q.kind \in {"REGENERATE", "RESET"} /\ q.pc # "active" THEN 400
    ELSE 500

\* A statement fails or the client goes away: a transaction rolls back,
\* earlier statements stay.
Fails(r) ==
    /\ InFlight(r)
    /\ Answer(r, FailureAnswer(req[r]))
    /\ UNCHANGED <<load, account, estate>>

\* auditService.Record swallows its error.
Record(r, ans) ==
    \E logged \in BOOLEAN : req' = [req EXCEPT ![r] = Over(r, ans, logged)]

----------------------------------------------------------------------------
(* Staff accounts.                                                         *)

\* normalizeVenueIDs and validateVenueOwnership: every venue is the owner's.
validateVenueOwnership(w) == w \subseteq OwnVenues

FreshTokens == {t \in Tokens : invite[t].of = None}

\* INSERT INTO owner_staff_invites; the link is not known to anyone yet.
CreateStaffInvite(t, m, purpose) ==
    invite' = [invite EXCEPT ![t] = [of |-> m, purpose |-> purpose, used |-> FALSE,
                                     ends |-> "later", sent |-> FALSE]]

\* The statements of CreateStaff's transaction.
InsertStaff(r, m, perms, venues, t) ==
    /\ member' = [member EXCEPT ![m] = [status |-> "ACTIVE", invitation |-> "INVITED", perms |-> perms]]
    /\ access' = [access EXCEPT ![m] = [v \in OwnVenues |-> IF v \in venues THEN r ELSE None]]
    /\ replaced' = [replaced EXCEPT ![m] = [by |-> r, venues |-> venues]]
    /\ CreateStaffInvite(t, m, "SET_PASSWORD")

\* Answers of the staff handlers.
CreateStaffAnswer == [EmailAlreadyUsed |-> 409, InvalidVenueAccess |-> 400, OK |-> 201]
UpdateStaffAnswer == [StaffNotFound |-> 404, PhoneAlreadyUsed |-> 409, InvalidVenueAccess |-> 400, OK |-> 200]
UpdateStatusAnswer == [StaffNotFound |-> 404, OK |-> 200]
UpdateVenuesAnswer == [StaffNotFound |-> 404, InvalidVenueAccess |-> 400, Other |-> 500, OK |-> 200]
RegenerateInviteAnswer == [StaffNotFound |-> 404, AlreadyActive |-> 400, OK |-> 200]
ResetPasswordAnswer == [StaffNotFound |-> 404, NotActive |-> 400, OK |-> 200]
SetupPasswordAnswer == [InvalidToken |-> 400, OK |-> 200]
LoginAnswer == [InvalidCredential |-> 401, OK |-> 200]

CreateStaff(r) ==
    /\ req[r].kind = "CREATE" /\ req[r].pc = "begin"
    /\ LET m == req[r].of IN
       \/ /\ ~validateVenueOwnership(req[r].want)
          /\ Answer(r, CreateStaffAnswer.InvalidVenueAccess)
          /\ UNCHANGED account
       \/ /\ validateVenueOwnership(req[r].want)
          /\ member[m] # Absent
          /\ Answer(r, CreateStaffAnswer.EmailAlreadyUsed)
          /\ UNCHANGED account
       \/ /\ validateVenueOwnership(req[r].want)
          /\ member[m] = Absent
          /\ \E t \in FreshTokens :
                /\ InsertStaff(r, m, req[r].perms, req[r].want, t)
                /\ req' = [req EXCEPT ![r].pc = "answer", ![r].tok = t, ![r].wrote = TRUE]
          /\ UNCHANGED <<password, session>>
    /\ UNCHANGED <<load, estate>>

\* GetStaff and the status it must have.
RegenerateInvite(r) ==
    /\ req[r].kind = "REGENERATE" /\ req[r].pc = "begin"
    /\ LET s == member[req[r].of] IN
       IF s = Absent THEN Answer(r, RegenerateInviteAnswer.StaffNotFound)
       ELSE IF s.invitation = "ACTIVE" THEN Answer(r, RegenerateInviteAnswer.AlreadyActive)
       ELSE Goes(r, "invalidate")
    /\ UNCHANGED <<load, account, estate>>

ResetPasswordToken(r) ==
    /\ req[r].kind = "RESET" /\ req[r].pc = "begin"
    /\ LET s == member[req[r].of] IN
       IF s = Absent THEN Answer(r, ResetPasswordAnswer.StaffNotFound)
       ELSE IF s.invitation # "ACTIVE" THEN Answer(r, ResetPasswordAnswer.NotActive)
       ELSE Goes(r, "invalidate")
    /\ UNCHANGED <<load, account, estate>>

PurposeOf(k) == IF k = "RESET" THEN "RESET_PASSWORD" ELSE "SET_PASSWORD"

\* used_at IS NULL AND expires_at > now()
Open(t) == invite[t].of # None /\ ~invite[t].used /\ invite[t].ends = "later"

InvalidateStaffInvites(r) ==
    /\ req[r].pc = "invalidate"
    /\ invite' = [t \in Tokens |->
                     IF Open(t) /\ invite[t].of = req[r].of /\ invite[t].purpose = PurposeOf(req[r].kind)
                     THEN [invite[t] EXCEPT !.ends = "cut"] ELSE invite[t]]
    /\ req' = [req EXCEPT ![r].pc = "invite", ![r].wrote = TRUE]
    /\ UNCHANGED <<load, member, access, password, session, replaced, estate>>

\* Altered form: every link is a reset link.
NewInviteReset(r) ==
    /\ req[r].pc = "invite"
    /\ \E t \in FreshTokens :
          /\ CreateStaffInvite(t, req[r].of, "RESET_PASSWORD")
          /\ req' = [req EXCEPT ![r].tok = t, ![r].wrote = TRUE,
                                ![r].pc = IF req[r].kind = "RESET" THEN "answer" ELSE "invited"]
    /\ UNCHANGED <<load, member, access, password, session, replaced, estate>>

NewInvite(r) ==
    /\ req[r].pc = "invite"
    /\ \E t \in FreshTokens :
          /\ CreateStaffInvite(t, req[r].of, PurposeOf(req[r].kind))
          /\ req' = [req EXCEPT ![r].tok = t, ![r].wrote = TRUE,
                                ![r].pc = IF req[r].kind = "RESET" THEN "answer" ELSE "invited"]
    /\ UNCHANGED <<load, member, access, password, session, replaced, estate>>

UpdateStaffInvitationStatus(r, to) ==
    /\ member' = [member EXCEPT ![req[r].of].invitation = to]
    /\ Goes(r, "answer")
    /\ UNCHANGED <<load, access, password, session, invite, replaced, estate>>

MarkInvited(r) == req[r].pc = "invited" /\ UpdateStaffInvitationStatus(r, "INVITED")

\* The link leaves the server: in the response, and by mail where that is enabled.
SendLink(r) ==
    /\ req[r].pc = "answer" /\ req[r].kind \in {"CREATE", "REGENERATE", "RESET"}
    /\ invite' = [invite EXCEPT ![req[r].tok].sent = TRUE]
    /\ Record(r, IF req[r].kind = "CREATE" THEN CreateStaffAnswer.OK
                 ELSE IF req[r].kind = "RESET" THEN ResetPasswordAnswer.OK
                 ELSE RegenerateInviteAnswer.OK)
    /\ UNCHANGED <<load, member, access, password, session, replaced, estate>>

\* 24 hours pass.
LinkExpires(t) ==
    /\ Open(t)
    /\ invite' = [invite EXCEPT ![t].ends = "lapsed"]
    /\ UNCHANGED <<load, member, access, password, session, replaced, estate, req>>

\* FindStaffInviteByTokenHash and the two checks on what it returns.
SetupPassword(r) ==
    /\ req[r].kind = "SETUP" /\ req[r].pc = "begin"
    /\ IF Open(req[r].tok) THEN Goes(r, "password") ELSE Answer(r, SetupPasswordAnswer.InvalidToken)
    /\ UNCHANGED <<load, account, estate>>

UpdateUserPassword(r) ==
    /\ req[r].pc = "password"
    /\ password' = [password EXCEPT ![req[r].of] = r]
    /\ req' = [req EXCEPT ![r].pc = "used", ![r].wrote = TRUE]
    /\ UNCHANGED <<load, member, access, session, invite, replaced, estate>>

MarkStaffInviteUsed(r) ==
    /\ req[r].pc = "used"
    /\ invite' = [invite EXCEPT ![req[r].tok].used = TRUE]
    /\ Goes(r, IF invite[req[r].tok].purpose = "SET_PASSWORD" THEN "activate" ELSE "answer")
    /\ UNCHANGED <<load, member, access, password, session, replaced, estate>>

MarkActive(r) == req[r].pc = "activate" /\ UpdateStaffInvitationStatus(r, "ACTIVE")

PasswordSet(r) ==
    /\ req[r].pc = "answer" /\ req[r].kind = "SETUP"
    /\ Record(r, SetupPasswordAnswer.OK)
    /\ UNCHANGED <<load, account, estate>>

\* FindByEmail: the account and the hash of its password.
Login(r) ==
    /\ req[r].kind = "LOGIN" /\ req[r].pc = "begin"
    /\ IF password[req[r].of] = req[r].tok THEN Goes(r, "memberships")
       ELSE Answer(r, LoginAnswer.InvalidCredential)
    /\ UNCHANGED <<load, account, estate>>

\* GetStaffMemberships: active memberships; one of them must be activated.
GetStaffMemberships(r) ==
    /\ req[r].pc = "memberships"
    /\ IF member[req[r].of].status = "ACTIVE" /\ member[req[r].of].invitation = "ACTIVE"
       THEN Answer(r, LoginAnswer.OK) /\ session' = session \cup {req[r].of}
       ELSE Answer(r, LoginAnswer.InvalidCredential) /\ UNCHANGED session
    /\ UNCHANGED <<load, member, access, password, invite, replaced, estate>>

----------------------------------------------------------------------------
(* Rights of staff.                                                        *)

\* UpdateStaff holds the user's row from its UPDATE users to its end.
UserLocked(m) == \E x \in Requests : req[x].pc = "replace" /\ req[x].kind = "UPDATE" /\ req[x].of = m

\* Both replacements delete the rows their DELETE statement sees.
StartReplacing(r) ==
    req' = [req EXCEPT ![r].pc = "replace", ![r].saw = access[req[r].of]]

UpdateStaff(r) ==
    /\ req[r].kind = "UPDATE" /\ req[r].pc = "begin"
    /\ IF member[req[r].of] = Absent THEN Answer(r, UpdateStaffAnswer.StaffNotFound)
       ELSE IF ~validateVenueOwnership(req[r].want) THEN Answer(r, UpdateStaffAnswer.InvalidVenueAccess)
       ELSE ~UserLocked(req[r].of) /\ StartReplacing(r)
    /\ UNCHANGED <<load, account, estate>>

UpdateVenues(r) ==
    /\ req[r].kind = "VENUES" /\ req[r].pc = "begin"
    /\ IF member[req[r].of] = Absent THEN Answer(r, UpdateVenuesAnswer.StaffNotFound)
       ELSE IF ~validateVenueOwnership(req[r].want) THEN Answer(r, UpdateVenuesAnswer.InvalidVenueAccess)
       ELSE StartReplacing(r)
    /\ UNCHANGED <<load, account, estate>>

\* The rows of w are in, those that stay are as they were, the others are gone.
Replaces(r, w, stay) ==
    LET m == req[r].of IN
    /\ access' = [access EXCEPT ![m] = [v \in OwnVenues |-> IF v \in w THEN r
                                                          ELSE IF v \in stay THEN access[m][v] ELSE None]]
    /\ replaced' = [replaced EXCEPT ![m] = [by |-> r, venues |-> req[r].want]]
    /\ member' = IF req[r].kind = "UPDATE" THEN [member EXCEPT ![m].perms = req[r].perms] ELSE member
    /\ req' = [req EXCEPT ![r].pc = "answer", ![r].wrote = TRUE]

\* Rows of a rival that the DELETE could not see: it skipped a row the rival
\* had deleted, also where the rival inserted the same venue again.
KeptRows(r) == {v \in OwnVenues : access[req[r].of][v] \notin {None, req[r].saw[v]}}

\* Altered form: only the difference to the rows seen is deleted and inserted.
ReplaceVenueAccessDiff(r) ==
    LET seen == {v \in OwnVenues : req[r].saw[v] # None} IN
    /\ req[r].pc = "replace"
    /\ Replaces(r, req[r].want \ seen, KeptRows(r) \cup (seen \cap req[r].want))
    /\ UNCHANGED <<load, password, session, invite, estate>>

\* The INSERTs and the commit.  A row that stays and is inserted again is a
\* duplicate key, which UpdateStaff reports as a phone number in use.
ReplaceVenueAccess(r) ==
    /\ req[r].pc = "replace"
    /\ IF KeptRows(r) \cap req[r].want # {}
       THEN /\ Answer(r, IF req[r].kind = "UPDATE" THEN UpdateStaffAnswer.PhoneAlreadyUsed
                         ELSE UpdateVenuesAnswer.Other)
            /\ UNCHANGED <<member, access, replaced>>
       ELSE Replaces(r, req[r].want, KeptRows(r))
    /\ UNCHANGED <<load, password, session, invite, estate>>

\* GetStaff for the audit entry, then the update.
FindOldStatus(r) ==
    /\ req[r].kind = "STATUS" /\ req[r].pc = "begin"
    /\ IF member[req[r].of] = Absent THEN Answer(r, UpdateStatusAnswer.StaffNotFound) ELSE Goes(r, "status")
    /\ UNCHANGED <<load, account, estate>>

UpdateStatus(r) ==
    /\ req[r].pc = "status"
    /\ member' = [member EXCEPT ![req[r].of].status = req[r].to]
    /\ req' = [req EXCEPT ![r].pc = "answer", ![r].wrote = TRUE]
    /\ UNCHANGED <<load, access, password, session, invite, replaced, estate>>

StaffChanged(r) ==
    /\ req[r].pc = "answer" /\ req[r].kind \in {"UPDATE", "VENUES", "STATUS"}
    /\ Record(r, CASE req[r].kind = "UPDATE" -> UpdateStaffAnswer.OK
                   [] req[r].kind = "VENUES" -> UpdateVenuesAnswer.OK
                   [] req[r].kind = "STATUS" -> UpdateStatusAnswer.OK)
    /\ UNCHANGED <<load, account, estate>>

----------------------------------------------------------------------------
(* Venues, courts and opening hours.                                       *)

respondVenueError == [VenueNotFound |-> 404]
respondCourtError == [VenueNotFound |-> 404, CourtNotFound |-> 404]
respondScheduleError == [CourtNotFound |-> 404]

\* WHERE owner_profile_id = $2 AND status != 'SUSPENDED'
Writable(v) == v \in OwnVenues /\ venue[v] # "SUSPENDED"

Writes(r, part, ans) ==
    /\ content' = [content EXCEPT ![req[r].venue][part] = r]
    /\ req' = [req EXCEPT ![r] = [Over(r, ans, FALSE) EXCEPT !.wrote = TRUE]]

UpdateVenue(r) ==
    /\ req[r].kind = "VENUE" /\ req[r].pc = "begin"
    /\ IF InScope(r) /\ Writable(req[r].venue) THEN Writes(r, "venue", 200)
       ELSE Answer(r, respondVenueError.VenueNotFound) /\ UNCHANGED content
    /\ UNCHANGED <<load, account, owner, venue>>

\* The owner writes DRAFT, ACTIVE or INACTIVE.
UpdateVenueStatus(r) ==
    /\ req[r].kind = "VENUE_STATUS" /\ req[r].pc = "begin"
    /\ IF InScope(r) /\ Writable(req[r].venue) THEN Writes(r, "venue", 200)
       ELSE Answer(r, respondVenueError.VenueNotFound) /\ UNCHANGED content
    /\ UNCHANGED <<load, account, owner, venue>>

\* getOwnedVenue does not look at the status of the venue.
CreateCourt(r) ==
    /\ req[r].kind = "NEW_COURT" /\ req[r].pc = "begin"
    /\ IF InScope(r) /\ req[r].venue \in OwnVenues THEN Goes(r, "court")
       ELSE Answer(r, respondCourtError.VenueNotFound)
    /\ UNCHANGED <<load, account, estate>>

InsertCourt(r) ==
    /\ req[r].pc = "court"
    /\ Writes(r, "court", 201)
    /\ UNCHANGED <<load, account, owner, venue>>

\* The court is updated first; the scope of the caller only decides the answer.
EditCourt(r) ==
    /\ req[r].pc = "begin"
    /\ IF Writable(req[r].venue)
       THEN Writes(r, "court", IF InScope(r) THEN 200 ELSE respondCourtError.CourtNotFound)
       ELSE Answer(r, respondCourtError.CourtNotFound) /\ UNCHANGED content
    /\ UNCHANGED <<load, account, owner, venue>>

UpdateCourt(r) == req[r].kind = "COURT" /\ EditCourt(r)
UpdateCourtStatus(r) == req[r].kind = "COURT_STATUS" /\ EditCourt(r)

\* getOwnedCourt does look at it, one statement before the write.
FindOwnedCourt(r) ==
    /\ req[r].kind = "HOURS" /\ req[r].pc = "begin"
    /\ IF InScope(r) /\ Writable(req[r].venue) THEN Goes(r, "hours")
       ELSE Answer(r, respondScheduleError.CourtNotFound)
    /\ UNCHANGED <<load, account, estate>>

ReplaceOperatingHours(r) ==
    /\ req[r].pc = "hours"
    /\ Writes(r, "hours", 200)
    /\ UNCHANGED <<load, account, owner, venue>>

----------------------------------------------------------------------------
(* The administrator.                                                      *)

\* X-Request-Deadline-Ms: the client has given the request up.
rejectExpiredMutation(r) == req[r].late

DeadlinePasses(r) ==
    /\ InFlight(r) /\ req[r].kind \in AdminRoutes /\ ~req[r].late
    /\ req' = [req EXCEPT ![r].late = TRUE]
    /\ UNCHANGED <<load, account, estate>>

StartAdmin(r) ==
    /\ req[r].kind \in AdminRoutes /\ req[r].pc = "begin"
    /\ IF rejectExpiredMutation(r) THEN Answer(r, 408) ELSE Goes(r, "mutate")
    /\ UNCHANGED <<load, account, estate>>

UpdateOwnerStatus(r) ==
    /\ req[r].kind = "OWNER_STATUS" /\ req[r].pc = "mutate"
    /\ owner' = req[r].to
    /\ req' = [req EXCEPT ![r].pc = "answer", ![r].wrote = TRUE]
    /\ UNCHANGED <<load, account, venue, content>>

SuspendVenue(r) ==
    /\ req[r].kind = "SUSPEND" /\ req[r].pc = "mutate"
    /\ venue' = [venue EXCEPT ![req[r].venue] = IF req[r].to = "SUSPENDED" THEN "SUSPENDED" ELSE "LISTED"]
    /\ req' = [req EXCEPT ![r].pc = "answer", ![r].wrote = TRUE]
    /\ UNCHANGED <<load, account, owner, content>>

AdminAnswers(r) ==
    /\ req[r].pc = "answer" /\ req[r].kind \in AdminRoutes
    /\ Record(r, 200)
    /\ UNCHANGED <<load, account, estate>>

----------------------------------------------------------------------------
(* The specification.                                                      *)

NoInvite == [of |-> None, purpose |-> "none", used |-> FALSE, ends |-> "later", sent |-> FALSE]

\* The link of i still activates m, or would if it had not run out.
Activates(i, m) ==
    i.of = m /\ i.purpose = "SET_PASSWORD" /\ i.sent /\ ~i.used /\ i.ends # "cut"

MemberRow == [status : {"none", "ACTIVE", "INACTIVE"},
              invitation : {"none", "INVITED", "ACTIVE"}, perms : SUBSET Permissions]
InviteRow == [of : Members \cup {None}, purpose : {"none", "SET_PASSWORD", "RESET_PASSWORD"},
              used : BOOLEAN, ends : {"later", "cut", "lapsed"}, sent : BOOLEAN]
Load == [kinds : SUBSET Routes, at : SUBSET Venues]

\* What completed requests leave behind: a membership has a status, links
\* belong to members, and an invited member was sent a link.
ASSUME StartsAssumption ==
    \A s \in Starts :
       /\ s.load \in Load
       /\ s.member \in [Members -> MemberRow]
       /\ s.access \in [Members -> SUBSET OwnVenues]
       /\ s.invite \in [Tokens -> InviteRow]
       /\ \A m \in Members :
             /\ s.member[m].status = "none" => s.member[m] = Absent
             /\ s.member[m].invitation = "INVITED" => \E t \in Tokens : Activates(s.invite[t], m)
       /\ \A t \in Tokens :
             s.invite[t] = NoInvite \/ (s.invite[t].of # None /\ s.member[s.invite[t].of] # Absent)

\* A start is a state of the accounts; activated members have set a password
\* and logged in before.
Init ==
    /\ owner = "ACTIVE"
    /\ venue = [v \in Venues |-> "LISTED"]
    /\ content = [v \in Venues |-> [part \in Parts |-> None]]
    /\ req = [r \in Requests |-> Idle]
    /\ entitled = [r \in Requests |-> {}]
    /\ \E s \in Starts :
          /\ load = s.load
          /\ member = s.member /\ invite = s.invite
          /\ access = [m \in Members |-> [v \in OwnVenues |-> IF v \in s.access[m] THEN "earlier" ELSE None]]
          /\ replaced = [m \in Members |-> [by |-> "earlier", venues |-> s.access[m]]]
          /\ session = {m \in Members : s.member[m].invitation = "ACTIVE"}
          /\ password = [m \in Members |-> IF s.member[m].invitation = "ACTIVE" THEN "earlier" ELSE None]

\* What a request is entitled to now: the rights of its caller; for staff, those
\* rights in a venue assigned to them; and, where the route refuses a suspended
\* venue, the venue.
Rights(q) ==
    CASE q.who = "owner" -> owner = "ACTIVE"
      [] q.who = "admin" -> ~q.late
      [] q.who \in Members ->
            /\ member[q.who].status = "ACTIVE" /\ owner = "ACTIVE"
            /\ q.kind \in PermissionRoutes /\ PermissionOf(q.kind) \in member[q.who].perms
      [] OTHER -> TRUE
Scope(q) == Rights(q) /\ (q.who \in Members => q.venue \in VenuesOf(q.who))
OpenVenue(q) ==
    q.kind \in {"VENUE", "VENUE_STATUS", "COURT", "COURT_STATUS", "HOURS"} => Writable(q.venue)

Facets(q) ==
    {e \in {"rights", "scope", "venue"} : CASE e = "rights" -> Rights(q)
                                            [] e = "scope" -> Scope(q)
                                            [] e = "venue" -> OpenVenue(q)}

Step ==
    \/ \E r \in Requests :
          \/ Arrive(r) \/ RequireActiveUser(r) \/ OwnerWorkspaceAccess(r) \/ Fails(r)
          \/ CreateStaff(r) \/ RegenerateInvite(r) \/ ResetPasswordToken(r) \/ InvalidateStaffInvites(r)
          \/ NewInvite(r) \/ MarkInvited(r) \/ SendLink(r)
          \/ SetupPassword(r) \/ UpdateUserPassword(r) \/ MarkStaffInviteUsed(r) \/ MarkActive(r)
          \/ PasswordSet(r) \/ Login(r) \/ GetStaffMemberships(r)
          \/ UpdateStaff(r) \/ UpdateVenues(r) \/ ReplaceVenueAccess(r)
          \/ FindOldStatus(r) \/ UpdateStatus(r) \/ StaffChanged(r)
          \/ UpdateVenue(r) \/ UpdateVenueStatus(r) \/ CreateCourt(r) \/ InsertCourt(r)
          \/ UpdateCourt(r) \/ UpdateCourtStatus(r) \/ FindOwnedCourt(r) \/ ReplaceOperatingHours(r)
          \/ DeadlinePasses(r) \/ StartAdmin(r) \/ UpdateOwnerStatus(r) \/ SuspendVenue(r) \/ AdminAnswers(r)
    \/ \E t \in Tokens : LinkExpires(t)

\* A request collects what it is entitled to after every step, until it is over.
Entitle ==
    entitled' = [r \in Requests |->
          IF ~InFlight(r)' THEN IF req'[r].wrote THEN entitled[r] ELSE {}
          ELSE entitled[r] \cup Facets(req[r])']

Next == Step /\ Entitle

Spec == Init /\ [][Next]_vars

----------------------------------------------------------------------------
(* Properties.                                                             *)

Pcs == {"idle", "active", "workspace", "begin", "invalidate", "invite", "invited", "answer", "password",
        "used", "activate", "memberships", "replace", "status", "court", "hours", "mutate", "done"}

AccessRows == [OwnVenues -> Requests \cup {"earlier", None}]

RequestRow == [kind : Routes \cup {"none"}, who : Actors, of : Members \cup {None}, pc : Pcs,
               venue : Venues \cup {None}, want : SUBSET Venues, perms : SUBSET Permissions,
               to : {"none", "ACTIVE", "INACTIVE", "SUSPENDED"}, tok : Tokens \cup Requests \cup {None},
               ctx : SUBSET Venues, saw : AccessRows, late : BOOLEAN, wrote : BOOLEAN,
               rivals : SUBSET Requests, logged : BOOLEAN, ans : Nat]

\* The tables hold the values of their enums, and a request never works with a token nobody created.
TypeOK ==
    /\ load \in Load
    /\ owner \in {"ACTIVE", "SUSPENDED"}
    /\ member \in [Members -> MemberRow]
    /\ access \in [Members -> AccessRows]
    /\ replaced \in [Members -> [by : Requests \cup {"earlier"}, venues : SUBSET OwnVenues]]
    /\ password \in [Members -> Requests \cup {None, "earlier"}]
    /\ session \subseteq {m \in Members : member[m] # Absent}
    /\ invite \in [Tokens -> InviteRow]
    /\ venue \in [Venues -> {"LISTED", "SUSPENDED"}]
    /\ content \in [Venues -> [Parts -> Requests \cup {None}]]
    /\ req \in [Requests -> RequestRow]
    /\ \A r \in Requests : req[r].tok \in Tokens => invite[req[r].tok].of = req[r].of
    /\ entitled \in [Requests -> SUBSET {"rights", "scope", "venue"}]

\* A membership is activated only after its account has a password that someone
\* chose (UpdateUserPassword runs before UpdateStaffInvitationStatus), whatever
\* fails in between and whatever runs beside it.
ActiveHasPassword ==
    \A m \in Members : member[m].invitation = "ACTIVE" => password[m] # None

Settled(m) == \A r \in Requests : req[r].of = m => ~InFlight(r)
\* A request ended with an error after one of its writes.
Interrupted(m) == \E r \in Requests : req[r].of = m /\ req[r].kind \in {"CREATE", "REGENERATE", "SETUP"}
                                    /\ req[r].pc = "done" /\ req[r].wrote /\ req[r].ans \notin {200, 201}
Overlapped(m) == \E r \in Requests : req[r].of = m /\ req[r].kind = "REGENERATE" /\ req[r].rivals # {}

\* An invited member can still become active: between requests there is a sent
\* link that is unused and was not cut off (it may have run out), unless a
\* request on the account failed half-way or two regenerations overlapped.
\* RegenerateInvite reads the status, cuts the links off and writes the status
\* in four statements; SetupPassword may run between any two of them.
InvitedCanActivate ==
    \A m \in Members :
       member[m].invitation = "INVITED" /\ Settled(m) /\ ~Interrupted(m) /\ ~Overlapped(m)
       => \E t \in Tokens : Activates(invite[t], m)

CourtEdits == {"COURT", "COURT_STATUS"}

\* Nothing is written for a caller who had no right to it, or in a venue that
\* was suspended, during the whole of the request: what was withdrawn before a
\* request arrived stays withdrawn for it.  (Rights withdrawn while it runs
\* may still be used: the context is read once.)  For staff the venue must be
\* one of theirs as well, with one exception, CourtEdits: UpdateCourt and
\* UpdateCourtStatus (courts/service.go:108, 133) write before they look at the
\* venues of the context, so staff with the permission change courts of venues
\* that were never assigned to them or were taken from them.  The exception
\* contradicts docs/version_1_3_release_readiness.md:10, which limits staff to
\* the venues allowed to them; StaffWriteAssignedVenues states that promise.
WritesWithinRights ==
    \A r \in Requests :
       req[r].wrote /\ req[r].kind \in PermissionRoutes \cup StaffRoutes \cup AdminRoutes
       => /\ {"rights", "venue"} \subseteq entitled[r]
          /\ req[r].kind \notin CourtEdits => "scope" \in entitled[r]

\* Staff write only in venues that were assigned to them, together with the
\* permission, at some moment of the request, as the release notes promise
\* (docs/version_1_3_release_readiness.md:10).  The code breaks it: with the
\* constants of the run workspace_access a court edit does within 5 states
\* (courts/service.go:108 and 133).
StaffWriteAssignedVenues ==
    \A r \in Requests : req[r].wrote /\ req[r].who \in Members => "scope" \in entitled[r]

\* a and b ran at the same time and replace the same rows.
Overlap(a, b) == a \in Requests /\ b \in Requests /\ (a \in req[b].rivals \/ b \in req[a].rivals)

\* Every venue of the last committed replacement is granted, also when a rival
\* deleted or inserted it meanwhile, and a venue outside that set stays only as
\* the row of a request that ran at the same time: a replacement that ran alone
\* leaves exactly its set.  UpdateVenues takes no lock, and a DELETE does not
\* see rows committed after it started.
VenuesReplaced ==
    \A m \in Members :
       LET last == replaced[m] IN
       \A v \in OwnVenues :
          /\ v \in last.venues => access[m][v] # None
          /\ access[m][v] # None /\ v \notin last.venues => Overlap(access[m][v], last.by)
=============================================================================
