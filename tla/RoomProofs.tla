----------------------------- MODULE RoomProofs -----------------------------
(***************************************************************************)
(* Proofs about the seating of a room, for any users and number of desks.  *)
(*                                                                         *)
(* SeatInv is inductive: that the two seating tables agree is what makes a *)
(* ready flag imply a user (DeskReady goes from the user to its wheel), and *)
(* that is what makes a starting game find three of them.  It is also why  *)
(* a desk with a user less than three has a wheel for one more.  The end   *)
(* of the module shows that every desk implements DeskGame.                *)
(***************************************************************************)
EXTENDS Room, FiniteSetTheorems, TLAPS

SeatInv ==
    /\ TypeOK
    /\ SeatsAgree
    /\ NobodyMissing

-----------------------------------------------------------------------------
\* The first of some seats is one of them.
LEMMA FirstOfSeats ==
    ASSUME NEW S \in SUBSET Seats, S # {}
    PROVE  (CHOOSE i \in S : \A j \in S : i <= j) \in S
<1>1. \E i \in S : \A j \in S : i <= j
  <2>1. \A j \in S : j = 1 \/ j = 2 \/ j = 3
    BY DEF Seats
  <2>2. CASE 1 \in S
    <3>1. \A j \in S : 1 <= j
      BY <2>1
    <3>2. QED
      BY <3>1, <2>2
  <2>3. CASE 1 \notin S /\ 2 \in S
    <3>1. \A j \in S : 2 <= j
      BY <2>1, <2>3
    <3>2. QED
      BY <3>1, <2>3
  <2>4. CASE 1 \notin S /\ 2 \notin S
    <3>1. \A j \in S : j = 3
      BY <2>1, <2>4
    <3>2. 3 \in S
      BY <3>1
    <3>3. QED
      BY <3>1, <3>2
  <2>5. QED
    BY <2>2, <2>3, <2>4
<1>2. QED
  BY <1>1

\* check_user_wheel answers no seat, the user's own seat, or, to a user without
\* one, an empty seat of a desk that is not playing.
LEMMA CheckUserWheelAnswer ==
    ASSUME NEW d \in Desks, NEW u \in Users, TypeOK
    PROVE  LET i == CheckUserWheel(d, u)
           IN  \/ i = NoSeat /\ \A j \in Seats : wheel[d][j] # u
               \/ i \in Seats /\ wheel[d][i] = u
               \/ /\ i \in Seats /\ wheel[d][i] = NoUser /\ ~playing[d]
                  /\ \A j \in Seats : wheel[d][j] # u
<1> DEFINE own == {i \in Seats : wheel[d][i] = u}
           empty == {i \in Seats : wheel[d][i] = NoUser}
           first(S) == IF S = {} THEN NoSeat
                       ELSE CHOOSE i \in S : \A j \in S : i <= j
<1>1. ASSUME NEW S \in SUBSET Seats, S # {}
      PROVE  first(S) \in S
  BY <1>1, FirstOfSeats
<1>2. first({}) = NoSeat
  OBVIOUS
<1>3. CheckUserWheel(d, u)
        = IF own # {} THEN first(own)
          ELSE IF playing[d] THEN NoSeat ELSE first(empty)
  BY DEF CheckUserWheel
<1>4. own \in SUBSET Seats /\ empty \in SUBSET Seats
  OBVIOUS
<1> HIDE DEF first
<1>5. CASE own # {}
  <2>1. CheckUserWheel(d, u) \in own
    BY <1>1, <1>3, <1>4, <1>5
  <2>2. QED
    BY <2>1
<1>6. CASE own = {}
  <2>1. \A j \in Seats : wheel[d][j] # u
    BY <1>6
  <2>2. CASE playing[d] \/ empty = {}
    BY <2>1, <2>2, <1>2, <1>3, <1>6
  <2>3. CASE ~playing[d] /\ empty # {}
    <3>1. CheckUserWheel(d, u) \in empty
      BY <1>1, <1>3, <1>4, <1>6, <2>3
    <3>2. QED
      BY <3>1, <2>1, <2>3
  <2>4. QED
    BY <2>2, <2>3
<1>7. QED
  BY <1>5, <1>6

\* user_enter keeps the tables of every desk well formed and in agreement, gives
\* a ready flag to nobody, and changes no wheel of a desk that is playing.
LEMMA DeskUserEnterKeeps ==
    ASSUME NEW d \in Desks, NEW u \in Users, SeatInv, DeskUserEnter(d, u),
           playing' = playing
    PROVE  /\ wheel' \in [Desks -> [Seats -> Users \cup {NoUser}]]
           /\ ready' \in [Desks -> [Seats -> BOOLEAN]]
           /\ seatOf' \in [Desks -> [Users -> Seats \cup {NoSeat}]]
           /\ marked' \in [Desks -> SUBSET Users]
           /\ SeatsAgree'
           /\ NobodyMissing'
           /\ \A e \in Desks : playing[e] => wheel'[e] = wheel[e]
<1> DEFINE i == CheckUserWheel(d, u)
<1> USE DEF SeatInv
<1>1. CASE i = NoSeat
  <2>1. UNCHANGED <<wheel, ready, seatOf, marked>>
    BY <1>1 DEF DeskUserEnter
  <2>2. QED
    BY <2>1 DEF TypeOK, SeatsAgree, NobodyMissing
<1>2. CASE i # NoSeat
  <2>1. /\ seatOf' = [seatOf EXCEPT ![d][u] = i]
        /\ wheel' = [wheel EXCEPT ![d][i] = u]
        /\ ready' = [ready EXCEPT ![d][i] = FALSE]
        /\ marked' = [marked EXCEPT ![d] = @ \ {u}]
    BY <1>2 DEF DeskUserEnter
  <2>2. /\ i \in Seats
        /\ \/ wheel[d][i] = u
           \/ /\ wheel[d][i] = NoUser
              /\ ~playing[d]
              /\ \A j \in Seats : wheel[d][j] # u
    BY <1>2, CheckUserWheelAnswer
  <2> HIDE DEF i
  <2>3. /\ wheel' \in [Desks -> [Seats -> Users \cup {NoUser}]]
        /\ ready' \in [Desks -> [Seats -> BOOLEAN]]
        /\ seatOf' \in [Desks -> [Users -> Seats \cup {NoSeat}]]
        /\ marked' \in [Desks -> SUBSET Users]
    BY <2>1, <2>2 DEF TypeOK
  <2>4. SeatsAgree'
    <3>1. SUFFICES ASSUME NEW e \in Desks, NEW v \in Users, NEW j \in Seats
                   PROVE  seatOf'[e][v] = j <=> wheel'[e][j] = v
      BY DEF SeatsAgree
    <3>2. seatOf[e][v] = j <=> wheel[e][j] = v
      BY DEF SeatsAgree
    <3>3. CASE e # d
      BY <2>1, <3>2, <3>3 DEF TypeOK
    <3>4. CASE e = d
      <4>1. seatOf'[d][v] = IF v = u THEN i ELSE seatOf[d][v]
        BY <2>1 DEF TypeOK
      <4>2. wheel'[d][j] = IF j = i THEN u ELSE wheel[d][j]
        BY <2>1 DEF TypeOK
      <4>3. seatOf[d][v] = i <=> wheel[d][i] = v
        BY <2>2 DEF SeatsAgree
      <4>4. seatOf[d][u] = j <=> wheel[d][j] = u
        BY DEF SeatsAgree
      <4>5. seatOf[d][u] = i <=> wheel[d][i] = u
        BY <2>2 DEF SeatsAgree
      <4>6. QED
        BY <2>2, <3>2, <3>4, <4>1, <4>2, <4>3, <4>4, <4>5, RoomAssumption
    <3>5. QED
      BY <3>3, <3>4
  <2>5. NobodyMissing'
    <3>1. SUFFICES ASSUME NEW e \in Desks, NEW j \in Seats,
                          ready'[e][j] \/ playing[e]
                   PROVE  wheel'[e][j] # NoUser
      BY DEF NobodyMissing
    <3>2. wheel'[e][j] = IF e = d /\ j = i THEN u ELSE wheel[e][j]
      BY <2>1, <2>2 DEF TypeOK
    <3>3. ready'[e][j] => ready[e][j]
      BY <2>1, <2>2 DEF TypeOK
    <3>4. QED
      BY <3>1, <3>2, <3>3, RoomAssumption DEF NobodyMissing
  <2>6. ASSUME NEW e \in Desks, playing[e]
        PROVE  wheel'[e] = wheel[e]
    <3>1. CASE e = d
      <4>1. wheel[d][i] = u
        BY <2>2, <2>6, <3>1 DEF NobodyMissing
      <4>2. wheel'[d] = [wheel[d] EXCEPT ![i] = u]
        BY <2>1 DEF TypeOK
      <4>3. wheel[d] \in [Seats -> Users \cup {NoUser}]
        BY DEF TypeOK
      <4>4. QED
        BY <3>1, <4>1, <4>2, <4>3
    <3>2. CASE e # d
      BY <2>1, <3>2 DEF TypeOK
    <3>3. QED
      BY <3>1, <3>2
  <2>7. QED
    BY <2>3, <2>4, <2>5, <2>6
<1>3. QED
  BY <1>1, <1>2

\* user_leave at a desk that is not playing frees the seat in both tables at
\* once; the desk does not play, so no game loses a wheel.
LEMMA DeskUserLeaveKeeps ==
    ASSUME NEW d \in Desks, NEW u \in Users, SeatInv, DeskUserLeave(d, u),
           ~playing[d], playing' = playing
    PROVE  /\ wheel' \in [Desks -> [Seats -> Users \cup {NoUser}]]
           /\ ready' \in [Desks -> [Seats -> BOOLEAN]]
           /\ seatOf' \in [Desks -> [Users -> Seats \cup {NoSeat}]]
           /\ marked' \in [Desks -> SUBSET Users]
           /\ SeatsAgree'
           /\ NobodyMissing'
           /\ \A e \in Desks : playing[e] => wheel'[e] = wheel[e]
<1> USE DEF SeatInv
<1>1. CASE seatOf[d][u] = NoSeat
  <2>1. UNCHANGED <<wheel, ready, seatOf, marked>>
    BY <1>1 DEF DeskUserLeave
  <2>2. QED
    BY <2>1 DEF TypeOK, SeatsAgree, NobodyMissing
<1>2. CASE seatOf[d][u] # NoSeat
  <2> DEFINE i == seatOf[d][u]
  <2>1. /\ marked' = [marked EXCEPT ![d] = @ \ {u}]
        /\ wheel' = [wheel EXCEPT ![d][i] = NoUser]
        /\ ready' = [ready EXCEPT ![d][i] = FALSE]
        /\ seatOf' = [seatOf EXCEPT ![d][u] = NoSeat]
    BY <1>2 DEF DeskUserLeave
  <2>2. i \in Seats /\ wheel[d][i] = u
    BY <1>2 DEF TypeOK, SeatsAgree
  <2>3. seatOf[d][u] = i
    OBVIOUS
  <2> HIDE DEF i
  <2>4. /\ wheel' \in [Desks -> [Seats -> Users \cup {NoUser}]]
        /\ ready' \in [Desks -> [Seats -> BOOLEAN]]
        /\ seatOf' \in [Desks -> [Users -> Seats \cup {NoSeat}]]
        /\ marked' \in [Desks -> SUBSET Users]
    BY <2>1, <2>2 DEF TypeOK
  <2>5. SeatsAgree'
    <3>1. SUFFICES ASSUME NEW e \in Desks, NEW v \in Users, NEW j \in Seats
                   PROVE  seatOf'[e][v] = j <=> wheel'[e][j] = v
      BY DEF SeatsAgree
    <3>2. seatOf[e][v] = j <=> wheel[e][j] = v
      BY DEF SeatsAgree
    <3>3. CASE e # d
      BY <2>1, <3>2, <3>3 DEF TypeOK
    <3>4. CASE e = d
      <4>1. seatOf'[d][v] = IF v = u THEN NoSeat ELSE seatOf[d][v]
        BY <2>1 DEF TypeOK
      <4>2. wheel'[d][j] = IF j = i THEN NoUser ELSE wheel[d][j]
        BY <2>1 DEF TypeOK
      <4>3. NoSeat # j
        BY DEF NoSeat, Seats
      <4>4. QED
        BY <2>2, <2>3, <3>2, <3>4, <4>1, <4>2, <4>3, RoomAssumption
    <3>5. QED
      BY <3>3, <3>4
  <2>6. NobodyMissing'
    <3>1. SUFFICES ASSUME NEW e \in Desks, NEW j \in Seats,
                          ready'[e][j] \/ playing[e]
                   PROVE  wheel'[e][j] # NoUser
      BY DEF NobodyMissing
    <3>2. CASE e = d /\ j = i
      BY <2>1, <2>2, <3>1, <3>2 DEF TypeOK
    <3>3. CASE ~(e = d /\ j = i)
      <4>1. wheel'[e][j] = wheel[e][j] /\ ready'[e][j] = ready[e][j]
        BY <2>1, <2>2, <3>3 DEF TypeOK
      <4>2. QED
        BY <3>1, <4>1 DEF NobodyMissing
    <3>4. QED
      BY <3>2, <3>3
  <2>7. \A e \in Desks : playing[e] => wheel'[e] = wheel[e]
    BY <2>1 DEF TypeOK
  <2>8. QED
    BY <2>4, <2>5, <2>6, <2>7
<1>3. QED
  BY <1>1, <1>2

\* Ending games leaves everybody where they sit and clears flags only.
LEMMA GameOverKeeps ==
    ASSUME NEW E \in SUBSET Desks, SeatInv, GameOver(E)
    PROVE  /\ ready' \in [Desks -> [Seats -> BOOLEAN]]
           /\ playing' \in [Desks -> BOOLEAN]
           /\ UNCHANGED <<wheel, seatOf, marked>>
           /\ SeatsAgree'
           /\ NobodyMissing'
<1>1. /\ ready' \in [Desks -> [Seats -> BOOLEAN]]
      /\ playing' \in [Desks -> BOOLEAN]
      /\ UNCHANGED <<wheel, seatOf, marked>>
  BY DEF GameOver, SeatInv, TypeOK
<1>2. SeatsAgree'
  BY <1>1 DEF SeatsAgree, SeatInv
<1>3. \A d \in Desks, i \in Seats :
        (ready'[d][i] => ready[d][i]) /\ (playing'[d] => playing[d])
  BY DEF GameOver
<1>4. NobodyMissing'
  BY <1>1, <1>3 DEF NobodyMissing, SeatInv
<1>5. QED
  BY <1>1, <1>2, <1>4

-----------------------------------------------------------------------------
LEMMA SeatInvInit == Init => SeatInv
<1> SUFFICES ASSUME Init PROVE SeatInv
  OBVIOUS
<1>1. TypeOK
  BY RoomAssumption DEF Init, TypeOK, NoDesk, NoSeat
<1>2. SeatsAgree
  BY RoomAssumption DEF Init, SeatsAgree, NoSeat, Seats
<1>3. NobodyMissing
  BY DEF Init, NobodyMissing
<1>4. QED
  BY <1>1, <1>2, <1>3 DEF SeatInv

LEMMA SeatInvNext == SeatInv /\ [Next]_vars => SeatInv'
<1> SUFFICES ASSUME SeatInv, [Next]_vars PROVE SeatInv'
  OBVIOUS
<1>0. TypeOK
  BY DEF SeatInv
<1>1. ASSUME NEW u \in Users, EntityEnter(u)
      PROVE  SeatInv'
  BY <1>1 DEF EntityEnter, SeatInv, TypeOK, SeatsAgree, NobodyMissing, deskVars
<1>2. ASSUME NEW u \in Users, UserLogin(u)
      PROVE  SeatInv'
  BY <1>2 DEF UserLogin, SeatInv, TypeOK, SeatsAgree, NobodyMissing, deskVars
<1>3. ASSUME NEW u \in Users, EntityLeave(u)
      PROVE  SeatInv'
  <2>1. CASE IsUserPlaying(u)
    BY <1>3, <2>1
       DEF EntityLeave, SeatInv, TypeOK, SeatsAgree, NobodyMissing, deskVars
  <2>2. CASE ~IsUserPlaying(u)
    <3>1. /\ u \in present
          /\ loggedOut' = loggedOut \ {u}
          /\ present' = present \ {u}
          /\ deskOf' = [v \in Users |-> IF v \in {u} THEN NoDesk ELSE deskOf[v]]
          /\ playing' = playing
      BY <1>3, <2>2 DEF EntityLeave, EntityDestruct
    <3>2. /\ present' \subseteq Users
          /\ loggedOut' \subseteq present'
          /\ deskOf' \in [Users -> Desks \cup {NoDesk}]
          /\ playing' \in [Desks -> BOOLEAN]
      BY <1>0, <3>1 DEF TypeOK
    <3>3. CASE deskOf[u] = NoDesk
      <4>1. UNCHANGED <<wheel, ready, seatOf, marked>>
        BY <1>3, <2>2, <3>3 DEF EntityLeave
      <4>2. QED
        BY <3>1, <3>2, <4>1 DEF SeatInv, TypeOK, SeatsAgree, NobodyMissing
    <3>4. CASE deskOf[u] # NoDesk
      <4>1. deskOf[u] \in Desks /\ ~playing[deskOf[u]]
        BY <1>0, <2>2, <3>1, <3>4 DEF TypeOK, IsUserPlaying
      <4>2. DeskUserLeave(deskOf[u], u)
        BY <1>3, <2>2, <3>4 DEF EntityLeave
      <4>3. QED
        BY <3>1, <3>2, <4>1, <4>2, DeskUserLeaveKeeps DEF SeatInv, TypeOK
    <3>5. QED
      BY <3>3, <3>4
  <2>3. QED
    BY <2>1, <2>2
<1>4. ASSUME NEW u \in Users, NEW idx \in Desks \cup {NoDesk}, EnterDesk(u, idx)
      PROVE  SeatInv'
  <2>1. PICK d \in Desks : /\ DeskUserEnter(d, u)
                           /\ deskOf' = [deskOf EXCEPT ![u] = d]
    BY <1>0, <1>4 DEF EnterDesk, CanEnterDesk, TypeOK
  <2>2. UNCHANGED <<present, loggedOut, playing>>
    BY <1>4 DEF EnterDesk
  <2>3. deskOf' \in [Users -> Desks \cup {NoDesk}]
    BY <1>0, <2>1 DEF TypeOK
  <2>4. QED
    BY <2>1, <2>2, <2>3, DeskUserEnterKeeps DEF SeatInv, TypeOK
<1>5. ASSUME NEW u \in Users, DeskReady(u)
      PROVE  SeatInv'
  <2> DEFINE d == deskOf[u]
             i == seatOf[d][u]
  <2>1. /\ d # NoDesk /\ i # NoSeat
        /\ ready' = [ready EXCEPT ![d][i] = TRUE]
        /\ playing' = [playing EXCEPT ![d] = \A j \in Seats : ready'[d][j]]
        /\ UNCHANGED <<wheel, seatOf, marked, present, loggedOut, deskOf>>
    BY <1>5 DEF DeskReady, entityVars
  <2>2. d \in Desks /\ i \in Seats /\ wheel[d][i] = u
    BY <1>0, <2>1 DEF TypeOK, SeatInv, SeatsAgree
  <2> HIDE DEF d, i
  <2>3. TypeOK'
    BY <1>0, <2>1, <2>2 DEF TypeOK
  <2>4. SeatsAgree'
    BY <2>1 DEF SeatsAgree, SeatInv
  <2>5. \A e \in Desks, j \in Seats :
            ready'[e][j] => ready[e][j] \/ (e = d /\ j = i)
    BY <1>0, <2>1, <2>2 DEF TypeOK
  <2>6. \A e \in Desks : playing'[e] => playing[e] \/ \A j \in Seats : ready'[e][j]
    BY <1>0, <2>1, <2>2 DEF TypeOK
  <2>7. NobodyMissing'
    <3>1. \A e \in Desks, j \in Seats : ready'[e][j] => wheel[e][j] # NoUser
      BY <2>2, <2>5, RoomAssumption DEF NobodyMissing, SeatInv
    <3>2. \A e \in Desks, j \in Seats : playing'[e] => wheel[e][j] # NoUser
      BY <2>6, <3>1 DEF NobodyMissing, SeatInv
    <3>3. QED
      BY <2>1, <3>1, <3>2 DEF NobodyMissing
  <2>8. QED
    BY <2>3, <2>4, <2>7 DEF SeatInv
<1>6. ASSUME NEW u \in Users, DeskOpEndsGame(u)
      PROVE  SeatInv'
  <2>1. deskOf[u] \in Desks
    BY <1>0, <1>6 DEF DeskOpEndsGame, IsUserPlaying, TypeOK
  <2>2. GameOver({deskOf[u]}) /\ UNCHANGED <<present, deskOf>>
    BY <1>6 DEF DeskOpEndsGame
  <2>3. loggedOut' \subseteq present
    BY <1>0, <1>6 DEF DeskOpEndsGame, Escaped, TypeOK
  <2>4. QED
    BY <1>0, <2>1, <2>2, <2>3, GameOverKeeps DEF SeatInv, TypeOK
<1>7. ASSUME NEW S \in SUBSET Users, NEW E \in SUBSET Desks, TimeUpdate(S, E)
      PROVE  SeatInv'
  <2>1. /\ present' \subseteq Users
        /\ loggedOut' \subseteq present'
        /\ deskOf' \in [Users -> Desks \cup {NoDesk}]
    BY <1>0, <1>7 DEF TimeUpdate, EntityDestruct, Escaped, TypeOK
  <2>2. GameOver(E)
    BY <1>7 DEF TimeUpdate
  <2>3. QED
    BY <1>0, <2>1, <2>2, GameOverKeeps DEF SeatInv, TypeOK
<1>8. CASE UNCHANGED vars
  BY <1>8 DEF vars, SeatInv, TypeOK, SeatsAgree, NobodyMissing
<1>9. QED
  BY <1>1, <1>2, <1>3, <1>4, <1>5, <1>6, <1>7, <1>8 DEF Next

LEMMA SeatInvHolds == Spec => []SeatInv
  BY SeatInvInit, SeatInvNext, PTL DEF Spec

\* No step takes a player of a game that goes on away from it.
LEMMA PlayersStayStep ==
    ASSUME SeatInv, [Next]_vars, NEW d \in Desks, playing[d], playing'[d]
    PROVE  /\ wheel'[d] = wheel[d]
           /\ \A u \in present : deskOf[u] = d => u \in present' /\ deskOf'[u] = d
<1>0. TypeOK
  BY DEF SeatInv
<1>1. ASSUME NEW u \in Users, EntityEnter(u) \/ UserLogin(u) \/ DeskReady(u)
      PROVE  UNCHANGED <<wheel, deskOf>> /\ present \subseteq present'
  BY <1>1 DEF EntityEnter, UserLogin, DeskReady, deskVars, entityVars
<1>2. ASSUME NEW u \in Users, EntityLeave(u)
      PROVE  /\ wheel'[d] = wheel[d]
             /\ \A v \in present : deskOf[v] = d => v \in present' /\ deskOf'[v] = d
  <2>1. CASE IsUserPlaying(u)
    BY <1>2, <2>1 DEF EntityLeave, deskVars
  <2>2. CASE ~IsUserPlaying(u)
    <3>1. /\ u \in present
          /\ present' = present \ {u}
          /\ deskOf' = [v \in Users |-> IF v \in {u} THEN NoDesk ELSE deskOf[v]]
          /\ playing' = playing
      BY <1>2, <2>2 DEF EntityLeave, EntityDestruct
    <3>2. deskOf[u] # d
      BY <2>2, <3>1 DEF IsUserPlaying, NoDesk, Desks
    <3>3. wheel'[d] = wheel[d]
      <4>1. CASE deskOf[u] = NoDesk
        BY <1>2, <2>2, <4>1 DEF EntityLeave
      <4>2. CASE deskOf[u] # NoDesk
        <5>1. deskOf[u] \in Desks /\ ~playing[deskOf[u]]
          BY <1>0, <2>2, <3>1, <4>2 DEF TypeOK, IsUserPlaying
        <5>2. DeskUserLeave(deskOf[u], u)
          BY <1>2, <2>2, <4>2 DEF EntityLeave
        <5>3. QED
          BY <3>1, <5>1, <5>2, DeskUserLeaveKeeps
      <4>3. QED
        BY <4>1, <4>2
    <3>4. QED
      BY <1>0, <3>1, <3>2, <3>3 DEF TypeOK
  <2>3. QED
    BY <2>1, <2>2
<1>3. ASSUME NEW u \in Users, NEW idx \in Desks \cup {NoDesk}, EnterDesk(u, idx)
      PROVE  /\ wheel'[d] = wheel[d]
             /\ \A v \in present : deskOf[v] = d => v \in present' /\ deskOf'[v] = d
  <2>1. PICK e \in Desks : /\ deskOf[u] \in {NoDesk, e}
                           /\ DeskUserEnter(e, u)
                           /\ deskOf' = [deskOf EXCEPT ![u] = e]
    BY <1>0, <1>3 DEF EnterDesk, CanEnterDesk, TypeOK
  <2>2. UNCHANGED <<present, playing>>
    BY <1>3 DEF EnterDesk
  <2>3. wheel'[d] = wheel[d]
    BY <2>1, <2>2, DeskUserEnterKeeps
  <2>4. \A v \in present : deskOf[v] = d => deskOf'[v] = d
    BY <1>0, <2>1 DEF TypeOK, NoDesk, Desks
  <2>5. QED
    BY <2>2, <2>3, <2>4
<1>4. ASSUME NEW u \in Users, DeskOpEndsGame(u)
      PROVE  UNCHANGED <<wheel, deskOf, present>>
  BY <1>4 DEF DeskOpEndsGame, GameOver
<1>5. ASSUME NEW S \in SUBSET Users, NEW E \in SUBSET Desks, TimeUpdate(S, E)
      PROVE  /\ wheel'[d] = wheel[d]
             /\ \A v \in present : deskOf[v] = d => v \in present' /\ deskOf'[v] = d
  <2>1. wheel' = wheel
    BY <1>5 DEF TimeUpdate, GameOver
  <2>2. ASSUME NEW v \in present, deskOf[v] = d
        PROVE  v \in present' /\ deskOf'[v] = d
    <3>1. IsUserPlaying(v)
      BY <2>2 DEF IsUserPlaying, NoDesk, Desks
    <3>2. QED
      BY <1>0, <1>5, <2>2, <3>1 DEF TimeUpdate, EntityDestruct, TypeOK
  <2>3. QED
    BY <2>1, <2>2
<1>6. CASE UNCHANGED vars
  BY <1>6 DEF vars
<1>7. QED
  BY <1>1, <1>2, <1>3, <1>4, <1>5, <1>6 DEF Next

-----------------------------------------------------------------------------
\* The records of the room and the tables of its desks are well formed in every
\* reachable state (room_entity, users and wheels of room.lua and desk.lua).
THEOREM TypeCorrect == Spec => []TypeOK
<1>1. SeatInv => TypeOK
  BY DEF SeatInv
<1>2. QED
  BY <1>1, SeatInvHolds, PTL

\* users[rid].idx and wheels[idx].rid agree at every desk, whatever entering,
\* leaving, reconnecting and ticking came before (desk.lua, ddz_desk.lua).
THEOREM SeatTablesAgree == Spec => []SeatsAgree
<1>1. SeatInv => SeatsAgree
  BY DEF SeatInv
<1>2. QED
  BY <1>1, SeatInvHolds, PTL

\* A game runs only at a desk with three users, and only taken seats are ready
\* (check_all_ready looks at the flags alone).
THEOREM GamesHaveThreeUsers == Spec => []NobodyMissing
<1>1. SeatInv => NobodyMissing
  BY DEF SeatInv
<1>2. QED
  BY <1>1, SeatInvHolds, PTL

\* entity_update's promise that users in a game are not destructed, for every
\* step: while the game goes on, players keep record, desk and seat.
THEOREM GamesKeepTheirPlayers == Spec => PlayersStay
<1>1. SeatInv /\ [Next]_vars =>
        [\A d \in Desks : playing[d] /\ playing'[d] =>
            /\ wheel'[d] = wheel[d]
            /\ \A u \in present : deskOf[u] = d => u \in present' /\ deskOf'[u] = d]_vars
  BY PlayersStayStep
<1>2. QED
  BY <1>1, SeatInvHolds, PTL DEF Spec, PlayersStay
-----------------------------------------------------------------------------
(***************************************************************************)
(* A desk of the room is a DeskGame.                                       *)
(***************************************************************************)

\* What a step does to the flags of one desk.
DeskStep(d) == Desk(d)!Next \/ UNCHANGED <<ready[d], playing[d]>>

\* user_enter takes the ready flag of the seat it gives, or changes nothing.
LEMMA DeskUserEnterReseats ==
    ASSUME NEW d \in Desks, NEW u \in Users, SeatInv, DeskUserEnter(d, u),
           playing' = playing, NEW e \in Desks
    PROVE  DeskStep(e)
<1> DEFINE i == CheckUserWheel(d, u)
<1>1. CASE i = NoSeat
  BY <1>1 DEF DeskUserEnter, DeskStep
<1>2. CASE i # NoSeat
  <2>1. i \in Seats
    BY <1>2, CheckUserWheelAnswer DEF SeatInv
  <2>2. ready' = [ready EXCEPT ![d][i] = FALSE]
    BY <1>2 DEF DeskUserEnter
  <2> HIDE DEF i
  <2>3. CASE e = d
    <3>1. ready'[d] = [ready[d] EXCEPT ![i] = FALSE]
      BY <2>2 DEF SeatInv, TypeOK
    <3>2. Desk(d)!Reseat(i)
      BY <3>1 DEF Desk!Reseat
    <3> QED
      BY <2>1, <2>3, <3>2 DEF DeskStep, Desk!Next
  <2>4. CASE e # d
    BY <2>2, <2>4 DEF DeskStep, SeatInv, TypeOK
  <2> QED
    BY <2>3, <2>4
<1> QED
  BY <1>1, <1>2

\* user_leave takes the flag of the seat that is given up.
LEMMA DeskUserLeaveReseats ==
    ASSUME NEW d \in Desks, NEW u \in Users, SeatInv, DeskUserLeave(d, u),
           playing' = playing, NEW e \in Desks
    PROVE  DeskStep(e)
<1> DEFINE i == seatOf[d][u]
<1>1. CASE i = NoSeat \/ playing[d]
  BY <1>1 DEF DeskUserLeave, DeskStep
<1>2. CASE i # NoSeat /\ ~playing[d]
  <2>1. i \in Seats
    BY <1>2 DEF SeatInv, TypeOK
  <2>2. ready' = [ready EXCEPT ![d][i] = FALSE]
    BY <1>2 DEF DeskUserLeave
  <2> HIDE DEF i
  <2>3. CASE e = d
    <3>1. ready'[d] = [ready[d] EXCEPT ![i] = FALSE]
      BY <2>2 DEF SeatInv, TypeOK
    <3>2. Desk(d)!Reseat(i)
      BY <3>1 DEF Desk!Reseat
    <3> QED
      BY <2>1, <2>3, <3>2 DEF DeskStep, Desk!Next
  <2>4. CASE e # d
    BY <2>2, <2>4 DEF DeskStep, SeatInv, TypeOK
  <2> QED
    BY <2>3, <2>4
<1> QED
  BY <1>1, <1>2

\* The games that end end as DeskGame says, the others go on.
LEMMA GameOverStep ==
    ASSUME NEW E \in SUBSET Desks, SeatInv, GameOver(E), \A d \in E : playing[d],
           NEW e \in Desks
    PROVE  DeskStep(e)
<1>1. CASE e \in E
  <2>1. ready'[e] = [i \in Seats |-> FALSE] /\ playing'[e] = FALSE
    BY <1>1 DEF GameOver
  <2>2. Desk(e)!Over
    BY <1>1, <2>1 DEF Desk!Over
  <2> QED
    BY <2>2 DEF DeskStep, Desk!Next
<1>2. CASE e \notin E
  BY <1>2 DEF DeskStep, GameOver, SeatInv, TypeOK
<1> QED
  BY <1>1, <1>2

LEMMA DesksStep ==
    ASSUME SeatInv, [Next]_vars, NEW e \in Desks
    PROVE  DeskStep(e)
<1>0. TypeOK
  BY DEF SeatInv
<1>1. ASSUME NEW u \in Users, EntityEnter(u) \/ UserLogin(u)
      PROVE  DeskStep(e)
  BY <1>1 DEF EntityEnter, UserLogin, deskVars, DeskStep
<1>2. ASSUME NEW u \in Users, EntityLeave(u)
      PROVE  DeskStep(e)
  <2>1. CASE IsUserPlaying(u)
    BY <1>2, <2>1 DEF EntityLeave, deskVars, DeskStep
  <2>2. CASE ~IsUserPlaying(u) /\ deskOf[u] = NoDesk
    BY <1>2, <2>2 DEF EntityLeave, DeskStep
  <2>3. CASE ~IsUserPlaying(u) /\ deskOf[u] # NoDesk
    BY <1>0, <1>2, <2>3, DeskUserLeaveReseats DEF EntityLeave, TypeOK
  <2> QED
    BY <2>1, <2>2, <2>3
<1>3. ASSUME NEW u \in Users, NEW idx \in Desks \cup {NoDesk}, EnterDesk(u, idx)
      PROVE  DeskStep(e)
  <2>1. PICK d \in Desks : DeskUserEnter(d, u)
    BY <1>0, <1>3 DEF EnterDesk, CanEnterDesk, TypeOK
  <2> QED
    BY <1>3, <2>1, DeskUserEnterReseats DEF EnterDesk
<1>4. ASSUME NEW u \in Users, DeskReady(u)
      PROVE  DeskStep(e)
  <2>1. deskOf[u] \in Desks /\ seatOf[deskOf[u]][u] \in Seats
    BY <1>0, <1>4 DEF DeskReady, TypeOK
  <2>2. PICK d \in Desks, i \in Seats :
            /\ ~playing[d] /\ ~ready[d][i]
            /\ ready' = [ready EXCEPT ![d][i] = TRUE]
            /\ playing' = [playing EXCEPT ![d] = \A j \in Seats : ready'[d][j]]
    BY <1>4, <2>1 DEF DeskReady
  <2>3. CASE e = d
    <3>1. ready'[d] = [ready[d] EXCEPT ![i] = TRUE]
      BY <1>0, <2>2 DEF TypeOK
    <3>2. playing'[d] = \A j \in Seats : ready'[d][j]
      BY <1>0, <2>2 DEF TypeOK
    <3>3. Desk(d)!Ready(i)
      BY <2>2, <3>1, <3>2 DEF Desk!Ready
    <3> QED
      BY <2>3, <3>3 DEF DeskStep, Desk!Next
  <2>4. CASE e # d
    BY <1>0, <2>2, <2>4 DEF DeskStep, TypeOK
  <2> QED
    BY <2>3, <2>4
<1>5. ASSUME NEW u \in Users, DeskOpEndsGame(u)
      PROVE  DeskStep(e)
  <2>1. deskOf[u] \in Desks /\ playing[deskOf[u]]
    BY <1>0, <1>5 DEF DeskOpEndsGame, IsUserPlaying, TypeOK
  <2> QED
    BY <1>5, <2>1, GameOverStep DEF DeskOpEndsGame
<1>6. ASSUME NEW S \in SUBSET Users, NEW E \in SUBSET Desks, TimeUpdate(S, E)
      PROVE  DeskStep(e)
  BY <1>6, GameOverStep DEF TimeUpdate
<1>7. CASE UNCHANGED vars
  BY <1>7 DEF vars, DeskStep
<1> QED
  BY <1>1, <1>2, <1>3, <1>4, <1>5, <1>6, <1>7 DEF Next

\* start_game and change_cur_step of every desk, however many there are: a game
\* starts with the third ready seat and only its end clears it.
THEOREM DesksAreGames == Spec => DesksRunGames
<1>1. Init => \A d \in Desks : Desk(d)!Init
  BY DEF Init, Desk!Init
<1>2. SeatInv /\ [Next]_vars =>
        [\A d \in Desks : Desk(d)!Next \/ UNCHANGED <<ready[d], playing[d]>>]_vars
  BY DesksStep DEF DeskStep
<1>3. QED
  BY <1>1, <1>2, SeatInvHolds, PTL DEF Spec, DesksRunGames

-----------------------------------------------------------------------------
(***************************************************************************)
(* The count of users and the search of a wheel.                           *)
(***************************************************************************)

\* Where the tables agree, a desk whose wheels are all taken counts as full.
LEMMA TakenIsFull ==
    ASSUME SeatInv, NEW d \in Desks, \A i \in Seats : wheel[d][i] # NoUser
    PROVE  IsFullUser(d)
<1> DEFINE U == {u \in Users : seatOf[d][u] # NoSeat}
           a == wheel[d][1]
           b == wheel[d][2]
           c == wheel[d][3]
<1>1. 1 \in Seats /\ 2 \in Seats /\ 3 \in Seats
  BY DEF Seats
<1>2. a \in Users /\ b \in Users /\ c \in Users
  BY <1>1 DEF SeatInv, TypeOK
<1>3. seatOf[d][a] = 1 /\ seatOf[d][b] = 2 /\ seatOf[d][c] = 3
  BY <1>1, <1>2 DEF SeatInv, SeatsAgree
<1>4. ASSUME NEW u \in U
      PROVE  u \in {a, b, c}
  <2>1. seatOf[d][u] \in Seats
    BY <1>4 DEF SeatInv, TypeOK
  <2>2. wheel[d][seatOf[d][u]] = u
    BY <2>1, <1>4 DEF SeatInv, SeatsAgree
  <2> QED
    BY <2>1, <2>2 DEF Seats
<1>5. U = {a, b, c}
  BY <1>2, <1>3, <1>4 DEF NoSeat
<1>6. a # b /\ b # c /\ a # c
  BY <1>3
<1> HIDE DEF a, b, c
<1>7. Cardinality({a, b, c}) = 3
  <2>1. IsFiniteSet({a}) /\ Cardinality({a}) = 1
    BY FS_Singleton
  <2>2. IsFiniteSet({a, b}) /\ Cardinality({a, b}) = 2
    <3>1. {a, b} = {a} \cup {b} /\ b \notin {a}
      BY <1>6
    <3> QED
      BY <2>1, <3>1, FS_AddElement
  <2>3. {a, b, c} = {a, b} \cup {c} /\ c \notin {a, b}
    BY <1>6
  <2> QED
    BY <2>2, <2>3, FS_AddElement
<1> QED
  BY <1>5, <1>7 DEF IsFullUser, UserCount

\* A desk that is not full seats whoever enters it.
LEMMA NotFullSeats ==
    ASSUME SeatInv, NEW d \in Desks, NEW u \in Users, ~IsFullUser(d)
    PROVE  CheckUserWheel(d, u) # NoSeat
<1>1. PICK i \in Seats : wheel[d][i] = NoUser
  BY TakenIsFull
<1>2. ~playing[d]
  BY <1>1 DEF SeatInv, NobodyMissing
<1> DEFINE own == {j \in Seats : wheel[d][j] = u}
           empty == {j \in Seats : wheel[d][j] = NoUser}
<1>3. ASSUME NEW S \in SUBSET Seats, S # {}
      PROVE  (CHOOSE j \in S : \A k \in S : j <= k) \in Seats
  BY <1>3, FirstOfSeats
<1>4. empty # {}
  BY <1>1
<1>5. CheckUserWheel(d, u) \in Seats
  BY <1>2, <1>3, <1>4 DEF CheckUserWheel
<1> QED
  BY <1>5 DEF Seats, NoSeat

LEMMA PickedDeskSeatsStep ==
    ASSUME SeatInv, NEW u \in Users, deskOf[u] = NoDesk, EnterDesk(u, NoDesk)
    PROVE  seatOf'[deskOf'[u]][u] # NoSeat
<1>1. PICK d \in CanEnterDesk : /\ DeskUserEnter(d, u)
                                /\ deskOf' = [deskOf EXCEPT ![u] = d]
  BY DEF EnterDesk
<1>2. d \in Desks /\ ~IsFullUser(d)
  BY <1>1 DEF CanEnterDesk
<1>3. CheckUserWheel(d, u) # NoSeat
  BY <1>2, NotFullSeats
<1>4. seatOf' = [seatOf EXCEPT ![d][u] = CheckUserWheel(d, u)]
  BY <1>1, <1>3 DEF DeskUserEnter
<1>5. deskOf'[u] = d
  BY <1>1 DEF SeatInv, TypeOK
<1>6. seatOf'[d][u] = CheckUserWheel(d, u)
  BY <1>2, <1>4 DEF SeatInv, TypeOK
<1> QED
  BY <1>3, <1>5, <1>6

\* get_can_enter_desk counts users, check_user_wheel looks for a wheel: the desk
\* the one picks always has a seat for the other, for rooms of any size.
THEOREM PickedDesksSeat == Spec => PickedDeskSeats
<1>1. SeatInv /\ [Next]_vars =>
        [\A u \in Users : deskOf[u] = NoDesk /\ EnterDesk(u, NoDesk)
            => seatOf'[deskOf'[u]][u] # NoSeat]_vars
  BY PickedDeskSeatsStep
<1>2. QED
  BY <1>1, SeatInvHolds, PTL DEF Spec, PickedDeskSeats
=============================================================================
