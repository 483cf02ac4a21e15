---------------------------- MODULE OpenMatches ----------------------------
(***************************************************************************)
(* Open matches: the holder of a booking offers places, other customers    *)
(* join and leave (package mabar).                                         *)
(*                                                                         *)
(* Every request of the API takes its connections from one pool            *)
(* (database/postgres.go).  Join, leave and cancel run in a transaction    *)
(* that holds one connection and locks the row of the match; join and      *)
(* leave then look the participant up through the pool, on a second        *)
(* connection, while they hold the first and the row.  Requests are split  *)
(* where they wait: for a connection, for the row, for the second one.     *)
(*                                                                         *)
(* What every specification has, MatchInit to MatchSpec, carries a prefix: *)
(* BookingsProofs extends this module and Bookings.                        *)
(***************************************************************************)
EXTENDS Integers, FiniteSets

CONSTANTS
    None,        \* no user, no match
    Matches,     \* open_matches; booking_id is unique, so a match stands for its booking
    Users,       \* customers
    HostOf,      \* the customer of each booking
    Requests,    \* handler goroutines
    Places,      \* what a host may ask for as max_players
    MaxConns     \* the size of the pool

ASSUME MatchesAssumption ==
    /\ IsFiniteSet(Users) /\ IsFiniteSet(Requests)
    /\ HostOf \in [Matches -> Users]
    /\ Places \subseteq Nat \ {0}
    /\ MaxConns \in Nat \ {0}

VARIABLES
    booking,   \* status of each match's booking
    started,   \* whether the time of the match has passed
    state,     \* status of the open match; "none" before it exists
    max,       \* its max_players
    joined,    \* participants with status JOINED
    req,       \* the requests
    blind      \* history: matches with a join whose lookup of the participant failed

matchVars == <<booking, started, state, max, joined, req, blind>>

Live(m) == booking[m] \in {"CONFIRMED", "PAID"}

Idle == [kind |-> "none", pc |-> "idle", user |-> None, match |-> None]

----------------------------------------------------------------------------
(* Connections and row locks.                                              *)

\* The transactions of join, leave and cancel; each holds a connection.
InTransaction == {r \in Requests : req[r].pc \in {"begun", "locked", "seen"}}
FreeConnection == Cardinality(InTransaction) < MaxConns

\* LockOpenMatch is held to the end of the transaction.
Holders(m) == {r \in Requests : req[r].match = m /\ req[r].pc \in {"locked", "seen"}}

\* Altered form: the booking is read without FOR UPDATE.
BookingLockedNever(m) == m \notin Matches

\* GetOpenMatchJoinContextTx locks the row of the booking as well.
BookingLocked(m) == \E r \in Holders(m) : req[r].kind = "join"

\* The statements of the transactions.
CountJoinedParticipants(m) == Cardinality(joined[m])

UpsertParticipant(m, u, to) ==
    joined' = [joined EXCEPT ![m] = IF to = "JOINED" THEN @ \cup {u} ELSE @ \ {u}]

UpdateOpenMatchStatus(m, to) == state' = [state EXCEPT ![m] = to]

Ends(r) == req' = [req EXCEPT ![r] = Idle]
Goes(r, pc) == req' = [req EXCEPT ![r].pc = pc]

----------------------------------------------------------------------------
(* The booking and the time.                                               *)

\* Payment, completion, cancellation and refund of the confirmed booking
\* wait for its row, and none of them touches the match.
BookingMoves(m) ==
    /\ ~BookingLocked(m)
    /\ \E to \in {"PAID", "COMPLETED", "CANCELLED"} :
          /\ <<booking[m], to>> \in {<<"CONFIRMED", "PAID">>, <<"PAID", "COMPLETED">>,
                                     <<"CONFIRMED", "CANCELLED">>, <<"PAID", "CANCELLED">>}
          /\ booking' = [booking EXCEPT ![m] = to]
    /\ UNCHANGED <<started, state, max, joined, req, blind>>

MatchStarts(m) ==
    /\ ~started[m]
    /\ started' = [started EXCEPT ![m] = TRUE]
    /\ UNCHANGED <<booking, state, max, joined, req, blind>>

----------------------------------------------------------------------------
(* CreateOpenMatch: checks and INSERT are separate statements.             *)

CheckOpenMatch(r, m, u) ==
    /\ req[r] = Idle /\ FreeConnection
    /\ HostOf[m] = u /\ Live(m) /\ ~started[m] /\ state[m] = "none"
    /\ req' = [req EXCEPT ![r] = [kind |-> "create", pc |-> "checked", user |-> u, match |-> m]]
    /\ UNCHANGED <<booking, started, state, max, joined, blind>>

\* The unique index on booking_id refuses a second match.
CreateOpenMatch(r) ==
    LET m == req[r].match
    IN  /\ req[r].pc = "checked" /\ FreeConnection
        /\ IF state[m] = "none"
           THEN /\ state' = [state EXCEPT ![m] = "OPEN"]
                /\ \E n \in Places : max' = [max EXCEPT ![m] = n]
           ELSE UNCHANGED <<state, max>>
        /\ Ends(r)
        /\ UNCHANGED <<booking, started, joined, blind>>

----------------------------------------------------------------------------
(* Join, leave and cancel.                                                 *)

\* ExecuteTx takes a connection and begins.
ExecuteTx(r, kind, m, u) ==
    /\ req[r] = Idle /\ FreeConnection
    /\ req' = [req EXCEPT ![r] = [kind |-> kind, pc |-> "begun", user |-> u, match |-> m]]
    /\ UNCHANGED <<booking, started, state, max, joined, blind>>

\* What JoinOpenMatch requires of the match and its booking.
CanJoin(m, u) == u # HostOf[m] /\ state[m] = "OPEN" /\ Live(m) /\ ~started[m]

CanLeave(m) == state[m] \notin {"none", "CANCELLED", "COMPLETED"}

\* Altered form: a refused request tries again inside its transaction.
LockOpenMatchRetried(r) ==
    LET m == req[r].match
        passes == IF req[r].kind = "join" THEN CanJoin(m, req[r].user) ELSE CanLeave(m)
    IN  /\ req[r].pc = "begun" /\ req[r].kind \in {"join", "leave"}
        /\ Holders(m) = {} /\ passes
        /\ Goes(r, "locked")
        /\ UNCHANGED <<booking, started, state, max, joined, blind>>

\* LockOpenMatch and the checks that follow; a refusal rolls back.
LockOpenMatch(r) ==
    LET m == req[r].match
        passes == IF req[r].kind = "join" THEN CanJoin(m, req[r].user) ELSE CanLeave(m)
    IN  /\ req[r].pc = "begun" /\ req[r].kind \in {"join", "leave"}
        /\ Holders(m) = {}
        /\ IF passes THEN Goes(r, "locked") ELSE Ends(r)
        /\ UNCHANGED <<booking, started, state, max, joined, blind>>

\* FindParticipant takes a second connection from the pool.
FindParticipant(r) ==
    LET found == req[r].user \in joined[req[r].match]
    IN  /\ req[r].pc = "locked" /\ FreeConnection
        /\ IF found = (req[r].kind = "leave") THEN Goes(r, "seen") ELSE Ends(r)
        /\ UNCHANGED <<booking, started, state, max, joined, blind>>

\* The lookup fails: join reads the error as "not joined" and goes on.
FindParticipantFails(r) ==
    /\ req[r].pc = "locked"
    /\ IF req[r].kind = "join" THEN Goes(r, "seen") ELSE Ends(r)
    /\ UNCHANGED <<booking, started, state, max, joined, blind>>

\* Altered form: the match is closed one place too late.
JoinOpenMatchLate(r) ==
    LET m == req[r].match
        count == CountJoinedParticipants(m)
    IN  /\ req[r].pc = "seen" /\ req[r].kind = "join"
        /\ UpsertParticipant(m, req[r].user, "JOINED")
        /\ UpdateOpenMatchStatus(m, IF count >= max[m] THEN "FULL" ELSE state[m])
        /\ blind' = blind
        /\ Ends(r)
        /\ UNCHANGED <<booking, started, max>>

\* The count, the upsert and the commit.
JoinOpenMatch(r) ==
    LET m == req[r].match
        count == CountJoinedParticipants(m)
    IN  /\ req[r].pc = "seen" /\ req[r].kind = "join"
        /\ IF count >= max[m]
           THEN UNCHANGED <<joined, state, blind>>
           ELSE /\ UpsertParticipant(m, req[r].user, "JOINED")
                /\ UpdateOpenMatchStatus(m, IF count + 1 >= max[m] THEN "FULL" ELSE state[m])
                /\ blind' = IF req[r].user \in joined[m] THEN blind \cup {m} ELSE blind
        /\ Ends(r)
        /\ UNCHANGED <<booking, started, max>>

LeaveOpenMatch(r) ==
    LET m == req[r].match
    IN  /\ req[r].pc = "seen" /\ req[r].kind = "leave"
        /\ UpsertParticipant(m, req[r].user, "CANCELLED")
        /\ UpdateOpenMatchStatus(m, IF state[m] = "FULL" THEN "OPEN" ELSE state[m])
        /\ Ends(r)
        /\ UNCHANGED <<booking, started, max, blind>>

\* The host cancels in one transaction that needs no second connection.
CancelOpenMatch(r) ==
    LET m == req[r].match
    IN  /\ req[r].pc = "begun" /\ req[r].kind = "cancel"
        /\ Holders(m) = {}
        /\ IF HostOf[m] = req[r].user /\ CanLeave(m)
           THEN UpdateOpenMatchStatus(m, "CANCELLED")
           ELSE UNCHANGED state
        /\ Ends(r)
        /\ UNCHANGED <<booking, started, max, joined, blind>>

\* The client goes away and its context is cancelled, or the process dies:
\* the transaction rolls back.
Abandon(r) ==
    /\ req[r] # Idle
    /\ Ends(r)
    /\ UNCHANGED <<booking, started, state, max, joined, blind>>

----------------------------------------------------------------------------
(* What the public pages show.                                             *)

RemainingSlots(m) == max[m] - CountJoinedParticipants(m)

\* The matches offered to everybody.
ListOpenMatches == {m \in Matches : state[m] = "OPEN" /\ Live(m) /\ ~started[m]}

----------------------------------------------------------------------------

MatchInit ==
    /\ booking = [m \in Matches |-> "CONFIRMED"]
    /\ started = [m \in Matches |-> FALSE]
    /\ state = [m \in Matches |-> "none"]
    /\ max = [m \in Matches |-> 0]
    /\ joined = [m \in Matches |-> {}]
    /\ req = [r \in Requests |-> Idle]
    /\ blind = {}

\* The steps of a request that are under way in the server.
Proceed(r) == \/ CreateOpenMatch(r) \/ LockOpenMatch(r) \/ FindParticipant(r)
              \/ JoinOpenMatch(r) \/ LeaveOpenMatch(r) \/ CancelOpenMatch(r)

Arrive(r) == \E m \in Matches, u \in Users :
                \/ CheckOpenMatch(r, m, u)
                \/ \E kind \in {"join", "leave", "cancel"} : ExecuteTx(r, kind, m, u)

MatchNext ==
    \/ \E r \in Requests : Arrive(r) \/ Proceed(r) \/ FindParticipantFails(r) \/ Abandon(r)
    \/ \E m \in Matches : BookingMoves(m) \/ MatchStarts(m)

MatchSpec == MatchInit /\ [][MatchNext]_matchVars

\* PostgreSQL grants a row lock and the pool a connection in the order of the
\* requests, so a request that can proceed again and again does.
MatchFairSpec == MatchSpec /\ \A r \in Requests : SF_matchVars(Proceed(r))

----------------------------------------------------------------------------
(* Properties.                                                             *)

\* Every variable has its type.
MatchTypeOK ==
    /\ booking \in [Matches -> {"CONFIRMED", "PAID", "COMPLETED", "CANCELLED"}]
    /\ started \in [Matches -> BOOLEAN]
    /\ state \in [Matches -> {"none", "OPEN", "FULL", "CANCELLED"}]
    /\ max \in [Matches -> Places \cup {0}]
    /\ joined \in [Matches -> SUBSET Users]
    /\ req \in [Requests -> [kind : {"create", "join", "leave", "cancel"}, pc : {"checked", "begun", "locked", "seen"},
                             user : Users, match : Matches] \cup {Idle}]
    /\ blind \subseteq Matches

\* Places are neither oversold nor lost: a match never has more players than
\* places, an open one (so every one on the public list) has a place left, and
\* one is FULL with a free place only after a participant whose lookup failed
\* was counted a second time.
SeatsKept ==
    \A m \in Matches :
        /\ RemainingSlots(m) >= 0
        /\ (state[m] = "OPEN" \/ m \in ListOpenMatches) => RemainingSlots(m) > 0
        /\ state[m] = "FULL" /\ m \notin blind => RemainingSlots(m) = 0

\* A customer becomes a participant only while the match is open and its
\* booking is live in that very step: a cancellation of the booking or the
\* match between the checks and the commit is impossible.  Live is what the
\* code accepts, CONFIRMED or PAID (mabar/service.go:220, asserted by
\* service_test.go:217).  README.md:157 says otherwise: "joinable while the
\* source booking status is CONFIRMED", and a booking in "any other status"
\* accepts no participants.  The PAID bookings this property admits are that
\* disagreement; JoinsOnlyConfirmed states what the README promises.
JoinsOnlyLive ==
    [][\A m \in Matches : joined'[m] \ joined[m] # {} => state[m] = "OPEN" /\ Live(m)]_matchVars

\* A customer becomes a participant only while the source booking is CONFIRMED,
\* as README.md:157 says.  The code breaks it: with the constants of the run
\* open_matches a customer joins the match of a PAID booking within 8 states
\* (JoinOpenMatch, mabar/service.go:220).
JoinsOnlyConfirmed ==
    [][\A m \in Matches : joined'[m] \ joined[m] # {} => booking[m] = "CONFIRMED"]_matchVars

\* The pool is exhausted by transactions of which none can go on: each waits
\* for a second connection or for the row of a match whose holder does.
Stalled ==
    /\ ~FreeConnection
    /\ \A r \in InTransaction : req[r].pc = "locked" \/ (req[r].pc = "begun" /\ Holders(req[r].match) # {})

\* Every request is answered, unless as many transactions of join, leave and
\* cancel as the pool has connections come to wait for each other.
RequestsAnswered == \A r \in Requests : (req[r] # Idle) ~> (req[r] = Idle \/ Stalled)

----------------------------------------------------------------------------
(* What the proofs add to make the properties inductive.                   *)

\* The row of a match has one holder, and only joins and leaves wait with it.
RowLockInv ==
    /\ \A m \in Matches : \A r, s \in Holders(m) : r = s
    /\ \A m \in Matches : \A r \in Holders(m) : req[r].kind \in {"join", "leave"}

\* What a holder saw behind its locks stays true while it holds them.
HolderInv ==
    \A m \in Matches : \A r \in Holders(m) :
        /\ req[r].kind = "join" => state[m] = "OPEN" /\ Live(m)
        /\ req[r].kind = "leave" => CanLeave(m)
        /\ req[r].kind = "leave" /\ req[r].pc = "seen" => req[r].user \in joined[m]

\* The places of a match by its status.
SeatInv ==
    \A m \in Matches :
        /\ state[m] = "none" => joined[m] = {} /\ max[m] = 0
        /\ CountJoinedParticipants(m) <= max[m]
        /\ state[m] = "OPEN" => CountJoinedParticipants(m) < max[m]
        /\ state[m] = "FULL" /\ m \notin blind => CountJoinedParticipants(m) = max[m]
=============================================================================
