-------------------------------- MODULE Room --------------------------------
(***************************************************************************)
(* The seating of one game room: scripts/server/clone/rooms/room.lua with  *)
(* the desk half of desk.lua and ddz_desk.lua and the message handlers of  *)
(* scripts/server/daemons/roomd.lua.                                       *)
(*                                                                         *)
(* A room keeps one entity per user that entered it (room_entity) and a    *)
(* fixed array of desks (desk_entity).  A desk keeps who sits where twice: *)
(* users[rid].idx and wheels[idx].rid.  The game played at a desk is seen  *)
(* only through cur_step ~= "none"; module DdzDesk has the game itself and *)
(* shows that it starts and ends as it does here.  (A seated player without *)
(* a record makes win_by_idx fail: such a game ends by clear_all_status     *)
(* only, and DeskOpEndsGame allows more than the code does.)                *)
(*                                                                         *)
(* Every operation is one Lua call made from the single script thread, so  *)
(* each is one action.  Times are abstracted: last_logout_time is set or   *)
(* not, and a tick may find any such time more than 10 seconds old.        *)
(*                                                                         *)
(* An operator marked "slip" is not part of the model: it is a likely      *)
(* mistake in the definition after it, which the properties must notice.   *)
(***************************************************************************)
EXTENDS Naturals, FiniteSets

CONSTANTS
    Users,      \* the rids of the users that may enter the room
    NumDesks,   \* desk_num of the room's configuration
    NoUser      \* a wheel whose rid is nil

ASSUME RoomAssumption ==
    /\ NumDesks \in Nat \ {0}
    /\ NoUser \notin Users

Desks == 1..NumDesks
Seats == 1..3
NoDesk == 0     \* enter_desk_idx = nil
NoSeat == 0     \* users[rid] = nil

VARIABLES
    present,    \* users with a record in room_entity
    loggedOut,  \* those whose last_logout_time is set
    deskOf,     \* enter_desk_idx of each user's record
    wheel,      \* wheels[idx].rid of each desk
    ready,      \* wheels[idx].is_ready == 1
    seatOf,     \* users[rid].idx of each desk
    marked,     \* per desk, users whose users[rid].last_logout_time is set
    playing     \* cur_step ~= DDZ_STEP_NONE

entityVars == <<present, loggedOut, deskOf>>
deskVars == <<wheel, ready, seatOf, marked, playing>>
vars == <<present, loggedOut, deskOf, wheel, ready, seatOf, marked, playing>>

TypeOK ==
    /\ present \subseteq Users
    /\ loggedOut \subseteq present
    /\ deskOf \in [Users -> Desks \cup {NoDesk}]
    /\ wheel \in [Desks -> [Seats -> Users \cup {NoUser}]]
    /\ ready \in [Desks -> [Seats -> BOOLEAN]]
    /\ seatOf \in [Desks -> [Users -> Seats \cup {NoSeat}]]
    /\ marked \in [Desks -> SUBSET Users]
    /\ playing \in [Desks -> BOOLEAN]

Init ==
    /\ present = {}
    /\ loggedOut = {}
    /\ deskOf = [u \in Users |-> NoDesk]
    /\ wheel = [d \in Desks |-> [i \in Seats |-> NoUser]]
    /\ ready = [d \in Desks |-> [i \in Seats |-> FALSE]]
    /\ seatOf = [d \in Desks |-> [u \in Users |-> NoSeat]]
    /\ marked = [d \in Desks |-> {}]
    /\ playing = [d \in Desks |-> FALSE]

-----------------------------------------------------------------------------
(***************************************************************************)
(* Questions the handlers ask of the state.                                *)
(***************************************************************************)
UserCount(d) == Cardinality({u \in Users : seatOf[d][u] # NoSeat})

IsFullUserLate(d) == UserCount(d) > 3     \* slip: one user too many

IsFullUser(d) == UserCount(d) >= 3

\* Slips: the next seat by number; no look at the seat the user has.
CheckUserWheelByCount(d, u) == IF playing[d] THEN NoSeat ELSE UserCount(d) + 1

CheckUserWheelEmptyOnly(d, u) ==
    LET empty == {i \in Seats : wheel[d][i] = NoUser}
    IN  IF playing[d] \/ empty = {} THEN NoSeat
        ELSE CHOOSE i \in empty : \A j \in empty : i <= j

\* The seat check_user_wheel answers: the user's own, else the first empty one
\* of a desk that is not playing.
CheckUserWheel(d, u) ==
    LET own == {i \in Seats : wheel[d][i] = u}
        empty == {i \in Seats : wheel[d][i] = NoUser}
        first(S) == IF S = {} THEN NoSeat ELSE CHOOSE i \in S : \A j \in S : i <= j
    IN  IF own # {} THEN first(own)
        ELSE IF playing[d] THEN NoSeat ELSE first(empty)

\* Slip: who logged out does not play any more.
IsUserPlayingOnline(u) ==
    /\ u \in present \ loggedOut
    /\ deskOf[u] # NoDesk
    /\ playing[deskOf[u]]

IsUserPlaying(u) ==
    /\ u \in present
    /\ deskOf[u] # NoDesk
    /\ playing[deskOf[u]]

\* The desks get_can_enter_desk may answer: the first that is not full, if any.
CanEnterDesk ==
    {d \in Desks : ~IsFullUser(d) /\ \A e \in Desks : e < d => IsFullUser(e)}

-----------------------------------------------------------------------------
(***************************************************************************)
(* Steps on one desk, as relations between its old and new state.          *)
(***************************************************************************)

\* user_enter of desk.lua and ddz_desk.lua: -1 and no change without a seat,
\* otherwise a fresh users record and a wheel that is not ready.
DeskUserEnter(d, u) ==
    LET i == CheckUserWheel(d, u)
    IN  IF i = NoSeat
        THEN UNCHANGED <<wheel, ready, seatOf, marked>>
        ELSE /\ seatOf' = [seatOf EXCEPT ![d][u] = i]
             /\ wheel' = [wheel EXCEPT ![d][i] = u]
             /\ ready' = [ready EXCEPT ![d][i] = FALSE]
             /\ marked' = [marked EXCEPT ![d] = @ \ {u}]

\* Slip: the seat is given up with its ready flag left behind.
DeskUserLeaveHasty(d, u) ==
    /\ IF seatOf[d][u] = NoSeat
       THEN UNCHANGED <<wheel, seatOf>>
       ELSE /\ wheel' = [wheel EXCEPT ![d][seatOf[d][u]] = NoUser]
            /\ seatOf' = [seatOf EXCEPT ![d][u] = NoSeat]
    /\ UNCHANGED <<ready, marked>>

\* user_leave of ddz_desk.lua: nothing for a stranger; a player of a running
\* game keeps the seat and is marked; anybody else gives the seat up.
DeskUserLeave(d, u) ==
    IF seatOf[d][u] = NoSeat
    THEN UNCHANGED <<wheel, ready, seatOf, marked>>
    ELSE IF playing[d]
    THEN /\ marked' = [marked EXCEPT ![d] = @ \cup {u}]
         /\ UNCHANGED <<wheel, ready, seatOf>>
    ELSE /\ marked' = [marked EXCEPT ![d] = @ \ {u}]
         /\ wheel' = [wheel EXCEPT ![d][seatOf[d][u]] = NoUser]
         /\ ready' = [ready EXCEPT ![d][seatOf[d][u]] = FALSE]
         /\ seatOf' = [seatOf EXCEPT ![d][u] = NoSeat]

\* entity_destruct: the record is dropped; no desk is told.
EntityDestruct(S) ==
    /\ present' = present \ S
    /\ deskOf' = [u \in Users |-> IF u \in S THEN NoDesk ELSE deskOf[u]]

-----------------------------------------------------------------------------
(***************************************************************************)
(* The operations.                                                         *)
(***************************************************************************)

\* "enter_room": a new record, or the old one with its logout time untouched.
EntityEnter(u) ==
    /\ present' = present \cup {u}
    /\ UNCHANGED <<loggedOut, deskOf>>
    /\ UNCHANGED deskVars

\* The user entered the world again (EVENT_USER_OBJECT_CONSTRUCT).
UserLogin(u) ==
    /\ u \in present
    /\ loggedOut' = loggedOut \ {u}
    /\ UNCHANGED <<present, deskOf>>
    /\ UNCHANGED deskVars

\* "leave_room", and a lost connection: a user whose desk is playing is only
\* given a logout time; any other leaves its desk and loses its record.
EntityLeave(u) ==
    /\ u \in present
    /\ IF IsUserPlaying(u)
       THEN /\ loggedOut' = loggedOut \cup {u}
            /\ UNCHANGED <<present, deskOf>>
            /\ UNCHANGED deskVars
       ELSE /\ loggedOut' = loggedOut \ {u}
            /\ EntityDestruct({u})
            /\ IF deskOf[u] = NoDesk
               THEN UNCHANGED <<wheel, ready, seatOf, marked>>
               ELSE DeskUserLeave(deskOf[u], u)
            /\ UNCHANGED playing

\* "enter_desk" with info.idx = idx, NoDesk when the message names none.  The
\* answer of user_enter is not looked at.
EnterDesk(u, idx) ==
    /\ u \in present
    /\ \E d \in IF idx # NoDesk THEN {idx}
                ELSE IF deskOf[u] # NoDesk THEN {deskOf[u]}
                ELSE CanEnterDesk :
          /\ deskOf[u] \in {NoDesk, d}
          /\ DeskUserEnter(d, u)
          /\ deskOf' = [deskOf EXCEPT ![u] = d]
    /\ UNCHANGED <<present, loggedOut, playing>>

\* "desk_op" with oper "ready": check_all_ready starts the game with the third.
\* A user without a seat at its desk makes the handler fail before any change.
DeskReady(u) ==
    LET d == deskOf[u]
        i == seatOf[d][u]
    IN  /\ u \in present
        /\ d # NoDesk
        /\ i # NoSeat
        /\ ~playing[d]
        /\ ~ready[d][i]
        /\ ready' = [ready EXCEPT ![d][i] = TRUE]
        /\ playing' = [playing EXCEPT ![d] = \A j \in Seats : ready'[d][j]]
        /\ UNCHANGED <<wheel, seatOf, marked>>
        /\ UNCHANGED entityVars

\* The users win_by_idx passes to entity_leave when the games of E end: those
\* marked at the desk.  Their own desk is still playing, so the call only sets
\* their logout time.
Escaped(E) ==
    {u \in present : \E d \in E : u \in marked[d] /\ seatOf[d][u] # NoSeat}

\* Slip: the ready flags outlive the game.
GameOverStillReady(E) ==
    /\ playing' = [d \in Desks |-> playing[d] /\ d \notin E]
    /\ UNCHANGED <<wheel, ready, seatOf, marked>>

\* The games of E end, by win_by_idx or clear_all_status: change_cur_step(none)
\* clears the ready flags.  clear_all_status frees the seats of users with an
\* offline_time, a field no code sets.
GameOver(E) ==
    /\ ready' = [d \in Desks |-> IF d \in E THEN [i \in Seats |-> FALSE] ELSE ready[d]]
    /\ playing' = [d \in Desks |-> playing[d] /\ d \notin E]
    /\ UNCHANGED <<wheel, seatOf, marked>>

\* A card played by a user's own "desk_op" ends the game of its desk.
DeskOpEndsGame(u) ==
    /\ IsUserPlaying(u)
    /\ seatOf[deskOf[u]][u] # NoSeat
    /\ loggedOut' = loggedOut \cup Escaped({deskOf[u]})
    /\ GameOver({deskOf[u]})
    /\ UNCHANGED <<present, deskOf>>

\* The one-second timer of roomd.lua.  First entity_update of every record: one
\* that logged out long ago (S) and is not playing is destructed.  Then
\* time_update of every desk, which may end the games of some (E).
TimeUpdate(S, E) ==
    LET gone == {u \in S : ~IsUserPlaying(u)}
    IN  /\ S \subseteq loggedOut
        /\ \A d \in E : playing[d]
        /\ EntityDestruct(gone)
        /\ loggedOut' = (loggedOut \ gone) \cup (Escaped(E) \ gone)
        /\ GameOver(E)

Next ==
    \/ \E u \in Users : EntityEnter(u)
    \/ \E u \in Users : UserLogin(u)
    \/ \E u \in Users : EntityLeave(u)
    \/ \E u \in Users, idx \in Desks \cup {NoDesk} : EnterDesk(u, idx)
    \/ \E u \in Users : DeskReady(u)
    \/ \E u \in Users : DeskOpEndsGame(u)
    \/ \E S \in SUBSET Users, E \in SUBSET Desks : TimeUpdate(S, E)

Spec == Init /\ [][Next]_vars

-----------------------------------------------------------------------------
(***************************************************************************)
(* What the seating promises.                                              *)
(***************************************************************************)

\* The two records of who sits where agree at every desk: users[rid].idx names
\* a wheel exactly when that wheel holds the rid.  win_by_idx, pack_desk_info
\* and op_info go from one to the other without a check.
SeatsAgree ==
    \A d \in Desks, u \in Users, i \in Seats :
        seatOf[d][u] = i <=> wheel[d][i] = u

\* A flag left on an empty wheel would let two players start a game of three:
\* a ready wheel is taken, and a playing desk has all three wheels taken.
NobodyMissing ==
    \A d \in Desks, i \in Seats :
        (ready[d][i] \/ playing[d]) => wheel[d][i] # NoUser

\* "Users in a game are not destructed, the game ends first" (entity_update):
\* while a game runs, no step takes a player's record, its desk or its seat,
\* whatever leaves, logins and ticks come in between.
PlayersStay ==
    [][\A d \in Desks : playing[d] /\ playing'[d] =>
          /\ wheel'[d] = wheel[d]
          /\ \A u \in present : deskOf[u] = d => u \in present' /\ deskOf'[u] = d]_vars

\* The desk the room picks for a user never turns the user away: the count of
\* users (is_full_user) and the search of an empty wheel (check_user_wheel) are
\* different tests on different tables, and a desk that is playing refuses.
PickedDeskSeats ==
    [][\A u \in Users : deskOf[u] = NoDesk /\ EnterDesk(u, NoDesk)
            => seatOf'[deskOf'[u]][u] # NoSeat]_vars

Desk(d) == INSTANCE DeskGame WITH ready <- ready[d], playing <- playing[d]

\* Whatever entering, leaving and ticking does to the room, each of its desks
\* starts and ends games as DeskGame says (Desk(d)!Spec for every d).
DesksRunGames ==
    /\ \A d \in Desks : Desk(d)!Init
    /\ [][\A d \in Desks :
            Desk(d)!Next \/ UNCHANGED <<ready[d], playing[d]>>]_vars

-----------------------------------------------------------------------------
(***************************************************************************)
(* What the source says and the code does not do.                          *)
(***************************************************************************)

\* clear_all_status, "when the game ends clear all the state": a desk that is
\* not playing seats only users that are in the room.
IdleDeskHasNoGhost ==
    \A d \in Desks, u \in Users :
        ~playing[d] /\ seatOf[d][u] # NoSeat => u \in present

\* entity_leave and entity_update, "a user in a game waits for its end": every
\* player of a running game has a record, which win_by_idx dereferences.
PlayersHaveRecords ==
    \A d \in Desks, i \in Seats :
        playing[d] => wheel[d][i] \in present

\* entity_enter, "enter_desk_idx: number of the desk entered": a user has a
\* seat at the desk its record names.
RecordedDeskSeats ==
    \A u \in present : deskOf[u] # NoDesk => seatOf[deskOf[u]][u] # NoSeat
=============================================================================
