------------------------------ MODULE DdzDesk -------------------------------
(***************************************************************************)
(* One game of Dou Dizhu at a desk of three:                               *)
(* scripts/server/clone/rooms/ddz_desk.lua.                                *)
(*                                                                         *)
(* Cards are abstracted to how many each seat holds: whether a play beats  *)
(* the last one, and whether it is a bomb, is left open (ddz_d.lua decides *)
(* it from the faces).  Times are abstracted too: the one-second timer may *)
(* find the current operator's last_op_time within or past its limit, so a *)
(* timeout is possible at every turn.                                      *)
(*                                                                         *)
(* Seats are taken as occupied; who sits where is in module Room.          *)
(*                                                                         *)
(* An operator marked "slip" is not part of the model: it is a likely      *)
(* mistake in the definition after it, which the properties must notice.   *)
(***************************************************************************)
EXTENDS Naturals, Sequences, FiniteSets

CONSTANTS
    HandSize,   \* cards dealt to each seat (17)
    DownSize,   \* bottom cards, given to the lord (3)
    MaxRetry,   \* redeals before the game is given up (2)
    Draws,      \* seats the draw of the first bidder may give (all; the game is
                \* the same seen from any seat, so one stands for the others)
    MaxLate     \* bound: length of lord_list that bids out of turn may reach

ASSUME DdzAssumption ==
    /\ HandSize \in Nat \ {0}
    /\ DownSize \in Nat
    /\ MaxRetry \in Nat
    /\ Draws \subseteq 1..3 /\ Draws # {}
    /\ MaxLate \in Nat

Seats == 1..3
Nobody == 0     \* cur_op_idx, lord_idx = -1

None == "none"
Deal == "deal"
Lord == "lord"
Play == "play"

VARIABLES
    step,       \* cur_step
    ready,      \* wheels[i].is_ready == 1
    op,         \* cur_op_idx
    lord,       \* lord_idx
    doubles,    \* how often multi_num was doubled from 15
    retry,      \* retry_deal_times
    hand,       \* #wheels[i].poker_list
    down,       \* #down_poker
    bids,       \* lord_list
    plays,      \* play_poker_list
    undone      \* history: seats that played their last card in this game and
                \* whose win was not carried out

vars == <<step, ready, op, lord, doubles, retry, hand, down, bids, plays, undone>>

Bid == [idx : Seats, choose : BOOLEAN]
CardPlay == [idx : Seats, is_play : BOOLEAN]

TypeOK ==
    /\ step \in {None, Deal, Lord, Play}
    /\ ready \in [Seats -> BOOLEAN]
    /\ op \in Seats \cup {Nobody}
    /\ lord \in Seats \cup {Nobody}
    /\ doubles \in Nat
    /\ retry \in 0..MaxRetry
    /\ hand \in [Seats -> Nat]
    /\ down \in {0, DownSize}
    /\ bids \in Seq(Bid)
    /\ plays \in Seq(CardPlay)
    /\ undone \subseteq Seats

Init ==
    /\ step = None
    /\ ready = [i \in Seats |-> FALSE]
    /\ op = Nobody
    /\ lord = Nobody
    /\ doubles = 0
    /\ retry = 0
    /\ hand = [i \in Seats |-> 0]
    /\ down = 0
    /\ bids = <<>>
    /\ plays = <<>>
    /\ undone = {}

-----------------------------------------------------------------------------
NextOfUnwrapped(i) == i + 1                           \* slip
NextOf(i) == IF (i + 1) % 3 = 0 THEN 3 ELSE (i + 1) % 3

Callers(b) == {k \in DOMAIN b : b[k].choose}
FirstCaller(b) == b[CHOOSE k \in Callers(b) : \A m \in Callers(b) : k <= m].idx
LastCallerFromStart(b) == FirstCaller(b)              \* slip
LastCaller(b) == b[CHOOSE k \in Callers(b) : \A m \in Callers(b) : k >= m].idx

\* get_last_poker_list found something to beat.
HasLast(p) == \E k \in DOMAIN p : p[k].is_play

\* Slip: one play more before a round can end.
RoundEndsLate(p) ==
    /\ Len(p) >= 4
    /\ ~p[Len(p)].is_play
    /\ ~p[Len(p) - 1].is_play

\* check_round_end: the two last players passed.
RoundEnds(p) ==
    /\ Len(p) >= 3
    /\ ~p[Len(p)].is_play
    /\ ~p[Len(p) - 1].is_play

RoundWinnerOffByOne(p) == p[Len(p) - 1].idx           \* slip
RoundWinner(p) == p[Len(p) - 2].idx

-----------------------------------------------------------------------------
(***************************************************************************)
(* The procedures the handlers share.                                      *)
(***************************************************************************)

ClearTable ==
    /\ op' = Nobody
    /\ lord' = Nobody
    /\ plays' = <<>>
    /\ down' = 0
    /\ bids' = <<>>
    /\ undone' = {}

\* Slips: the stake, or the ready flags, outlive the game.
StopGameKeepsStake ==
    /\ step' = None
    /\ ready' = [i \in Seats |-> FALSE]
    /\ UNCHANGED doubles
    /\ ClearTable

StopGameKeepsReady ==
    /\ step' = None
    /\ doubles' = 0
    /\ UNCHANGED ready
    /\ ClearTable

\* change_cur_step(DDZ_STEP_NONE)
StopGame ==
    /\ step' = None
    /\ ready' = [i \in Seats |-> FALSE]
    /\ doubles' = 0
    /\ ClearTable

\* finish_lord: the bottom cards go to the lord, who plays first.
FinishLord(i) ==
    /\ step' = Play
    /\ lord' = i
    /\ hand' = [hand EXCEPT ![i] = @ + down]
    /\ op' = i
    /\ UNCHANGED <<ready, retry, down, plays, undone>>

\* Slip: the redeals are not counted.
TryRestartGameForever ==
    /\ step' = Deal
    /\ UNCHANGED <<ready, op, lord, retry, hand, down, plays, undone>>

\* try_restart_game: nobody called.  Deal again, or give the game up and clear
\* all.  (is_someone_offline reads offline_time, which no code sets.)
TryRestartGame ==
    IF retry >= MaxRetry
    THEN /\ StopGame
         /\ hand' = [i \in Seats |-> 0]
         /\ retry' = 0
    ELSE /\ step' = Deal
         /\ retry' = retry + 1
         /\ UNCHANGED <<ready, op, lord, hand, down, plays, undone>>

\* cur_lord_choose for the current operator.  change_cur_step(none), when the
\* game is given up, clears bids and doubles after they are written.
CurLordChoose(choose) ==
    LET b == Append(bids, [idx |-> op, choose |-> choose])
        record == /\ bids' = b
                  /\ doubles' = IF choose THEN doubles + 1 ELSE doubles
        turn(i) == /\ op' = i
                   /\ UNCHANGED <<step, ready, lord, retry, hand, down, plays, undone>>
    IN  \/ /\ Len(b) < 3
           /\ record
           /\ turn(NextOf(op))
        \/ /\ Len(b) = 3
           /\ Callers(b) = {}
           /\ retry < MaxRetry => record
           /\ TryRestartGame
        \/ /\ Len(b) = 3
           /\ Cardinality(Callers(b)) = 1
           /\ record
           /\ FinishLord(LastCaller(b))
        \/ /\ Len(b) = 3
           /\ Cardinality(Callers(b)) > 1
           /\ record
           /\ turn(FirstCaller(b))
        \/ /\ Len(b) > 3
           /\ Callers(b) # {}
           /\ record
           /\ FinishLord(LastCaller(b))
        \/ /\ Len(b) > 3
           /\ Callers(b) = {}
           /\ record
           /\ turn(op)

\* deal_poker with n cards the operator holds, which beat the last ones if there
\* are any; bomb: they double the stake (two cards at least).  A hand that gets
\* empty wins (win_by_idx), which ends the game, hands as they are; or raises at
\* once, when the room has no record any more of somebody at the desk
\* (get_all_pea_amount): then the cards are played and the turn stays.
PlayCards(n, bomb) ==
    /\ n \in 1..hand[op]
    /\ bomb => n >= 2
    /\ hand' = [hand EXCEPT ![op] = @ - n]
    /\ UNCHANGED retry
    /\ \/ hand'[op] = 0 /\ StopGame
       \/ /\ plays' = Append(plays, [idx |-> op, is_play |-> TRUE])
          /\ doubles' = IF bomb THEN doubles + 1 ELSE doubles
          /\ IF hand'[op] = 0
             THEN undone' = undone \cup {op} /\ UNCHANGED op
             ELSE op' = NextOf(op) /\ UNCHANGED undone
          /\ UNCHANGED <<step, ready, lord, down, bids>>

\* deal_poker without cards: refused from the one who leads; two passes in a row
\* end the round and its winner leads the next.
PassTurn ==
    /\ HasLast(plays)
    /\ LET p == Append(plays, [idx |-> op, is_play |-> FALSE])
       IN  IF RoundEnds(p)
           THEN /\ plays' = <<>>
                /\ op' = RoundWinner(p)
           ELSE /\ plays' = p
                /\ op' = NextOf(op)
    /\ UNCHANGED <<step, ready, lord, doubles, retry, hand, down, bids, undone>>

-----------------------------------------------------------------------------
(***************************************************************************)
(* The operations of the players.                                          *)
(***************************************************************************)

\* "ready": the third one starts the game (start_game).
UserReady(i) ==
    /\ step = None
    /\ ~ready[i]
    /\ ready' = [ready EXCEPT ![i] = TRUE]
    /\ step' = IF \A j \in Seats : ready'[j] THEN Deal ELSE None
    /\ UNCHANGED <<op, lord, doubles, retry, hand, down, bids, plays, undone>>

\* user_enter of somebody who has the seat, or takes it.
UserEnter(i) ==
    /\ ready' = [ready EXCEPT ![i] = FALSE]
    /\ UNCHANGED <<step, op, lord, doubles, retry, hand, down, bids, plays, undone>>

\* user_leave while no game runs: wheels[i] = {}.
UserLeave(i) ==
    /\ step = None
    /\ ready' = [ready EXCEPT ![i] = FALSE]
    /\ hand' = [hand EXCEPT ![i] = 0]
    /\ UNCHANGED <<step, op, lord, doubles, retry, down, bids, plays, undone>>

\* "choose" from the current operator, whatever the step is.
UserChoose(choose) ==
    /\ op # Nobody
    /\ step # Lord => Len(bids) < MaxLate
    /\ CurLordChoose(choose)

\* "deal_poker" from the current operator.
UserDealPoker ==
    /\ step = Play
    /\ \/ \E n \in 1..hand[op], bomb \in BOOLEAN : PlayCards(n, bomb)
       \/ PassTurn

-----------------------------------------------------------------------------
(***************************************************************************)
(* time_update, called by the timer once a second.                         *)
(***************************************************************************)
DealTime ==
    /\ step = Deal
    /\ hand' = [i \in Seats |-> HandSize]
    /\ down' = DownSize
    /\ op' = Nobody
    /\ bids' = <<>>
    /\ step' = Lord
    /\ UNCHANGED <<ready, lord, doubles, retry, plays, undone>>

FirstBidderTime ==
    /\ step = Lord
    /\ op = Nobody
    /\ op' \in Draws
    /\ UNCHANGED <<step, ready, lord, doubles, retry, hand, down, bids, plays, undone>>

\* More than 10 seconds without a bid: the operator does not call.
BidTimeout ==
    /\ step = Lord
    /\ op # Nobody
    /\ CurLordChoose(FALSE)

\* More than 30 seconds without a play: pass, or lead the smallest card.
PlayTimeout ==
    /\ step = Play
    /\ IF HasLast(plays) THEN PassTurn ELSE PlayCards(1, FALSE)

TimeUpdate == DealTime \/ FirstBidderTime \/ BidTimeout \/ PlayTimeout

Turn ==
    \/ \E choose \in BOOLEAN : UserChoose(choose)
    \/ UserDealPoker
    \/ TimeUpdate

Next ==
    \/ \E i \in Seats : UserReady(i) \/ UserEnter(i) \/ UserLeave(i)
    \/ Turn

Spec == Init /\ [][Next]_vars

\* The timer calls time_update every second and the limits are finite, so a
\* turn that its player does not take is taken by the timer.
FairSpec == Spec /\ WF_vars(Turn)

-----------------------------------------------------------------------------
(***************************************************************************)
(* What the game promises.                                                 *)
(***************************************************************************)

\* No bid outside the bidding: one caller of three, or the first of several
\* callers asked a fourth time.
OrderlyBids ==
    \/ Len(bids) < 3
    \/ Len(bids) = 3 /\ Callers(bids) # {}
    \/ Len(bids) = 4 /\ Cardinality({k \in 1..3 : bids[k].choose}) > 1

\* During play somebody has the turn, and a hand without cards, his or not, is
\* one that won: but for a win that was not carried out the game has ended.
EmptyHandsWon ==
    step = Play =>
        /\ op # Nobody
        /\ \A i \in Seats : hand[i] = 0 => i \in undone

\* Bids go round the table: each bidder follows the one before, the fourth bid
\* is asked of the first caller, and the operator is the one to bid.
BiddingGoesRound ==
    step = Lord /\ op # Nobody =>
        /\ Len(bids) <= 3
        /\ \A k \in 1..Len(bids) :
              IF k < Len(bids) THEN bids[k + 1].idx = (bids[k].idx % 3) + 1
              ELSE k < 3 => op = (bids[k].idx % 3) + 1
        /\ Len(bids) = 3 =>
              \E k \in 1..3 : /\ bids[k].choose /\ bids[k].idx = op
                             /\ \A m \in 1..(k - 1) : ~bids[m].choose

\* The lord called: during play lord_idx is the last one in the list who did,
\* so a first caller that gives in at the fourth bid loses it to a later one.
LordCalledLast ==
    step = Play =>
        \E k \in DOMAIN bids :
            /\ bids[k].choose /\ bids[k].idx = lord
            /\ \A m \in DOMAIN bids : m > k => ~bids[m].choose

\* The last play of the round: all that follow it passed.
LastPlay(p) == CHOOSE k \in DOMAIN p :
    p[k].is_play /\ \A m \in DOMAIN p : m > k => ~p[m].is_play

\* Nobody is asked to beat his own cards: when bids were orderly, the last play
\* of the round is another's, and at most one pass follows it.  The exception is
\* the play of a win that was not carried out, its player's turn still.
OthersToBeat ==
    step = Play /\ OrderlyBids /\ plays # <<>> =>
        /\ HasLast(plays)
        /\ plays[LastPlay(plays)].idx = op =>
              op \in undone /\ LastPlay(plays) = Len(plays)
        /\ Len(plays) - LastPlay(plays) <= 1

\* Bids go round and make the last caller lord.
BiddingInv == BiddingGoesRound /\ LordCalledLast

\* Whoever has the turn has cards, and another's play before him if any, unless
\* he has won without it ending the game.
TurnsInv == EmptyHandsWon /\ OthersToBeat

\* A round that two passes end is led on by the one who played last in it.
RoundGoesToLastPlayer ==
    [][step = Play /\ step' = Play /\ plays # <<>> /\ plays' = <<>>
          => op' = plays[LastPlay(plays)].idx]_vars

\* The stake belongs to one game: it starts undoubled, and when the bidding of a
\* deal is on it has been doubled by the calls of this deal and nothing else.
StakeStartsFresh ==
    /\ step = None => doubles = 0
    /\ step = Lord => doubles = Cardinality(Callers(bids))

Abstract == INSTANCE DeskGame WITH playing <- step # None

\* A desk seen by the room: games start with the third ready seat and end with
\* every seat to declare itself again.
ImplementsDeskGame == Abstract!Spec

\* The turn is with one who has no card to lead a round with, since a win of his
\* was not carried out: deal_poker refuses him, and the timer, for ever.
LeadsWithNoCards ==
    step = Play /\ op \in undone /\ hand[op] = 0 /\ ~HasLast(plays)

\* A game that starts ends, by a win or by being given up, or is stuck with the
\* turn of one whose win failed, if its players bid out of turn only finitely
\* often (MaxLate).  No other hand, pass or bid keeps a game from its end.
GameEnds == step # None ~> (step = None \/ LeadsWithNoCards)

-----------------------------------------------------------------------------
(***************************************************************************)
(* What the source says and the code does not do.                          *)
(***************************************************************************)

\* DDZ_STEP_LORD is the step of calling for the lord and finish_lord "finally"
\* determines him: once play has begun the lord does not change.
LordIsFinal ==
    [][step = Play /\ step' = Play => lord' = lord]_vars

\* win_by_idx, "the position has won the match": an emptied hand ends the game.
\* It does not when the room has dropped a record (Room: PlayersHaveRecords).
NobodyPlaysFromAnEmptyHand ==
    step = Play => \A i \in Seats : hand[i] > 0

\* clear_all_status, "when the game ends clear all the state": the count of
\* redeals of a game that ended does not burden the next.
RetriesStartFresh == step = None => retry = 0
=============================================================================
