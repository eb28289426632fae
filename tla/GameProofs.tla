----------------------------- MODULE GameProofs -----------------------------
(***************************************************************************)
(* Proofs about the two games, which nothing connects.                     *)
(*                                                                         *)
(* Dou Dizhu, for hands, bottom cards, redeals and late bids of any        *)
(* number.  Four invariants, each on top of the first: who has the turn    *)
(* and the cards (TableInv), the bidding (BidInv), the stake (StakeInv)    *)
(* and the plays of a round (RoundInv).  What makes them hard is that      *)
(* "choose" is accepted in every step of the game: each says what a late   *)
(* bid leaves alone.                                                       *)
(*                                                                         *)
(* Mahjong, for hands of any tiles and any number of kings: whatever list  *)
(* check_can_hu shows is the hand.  Which lists its loops have tried does  *)
(* not matter; what each of them uses up of a colour does (Uses), and that *)
(* adds up over the colours and the pairs that are filled in the end.      *)
(***************************************************************************)
EXTENDS DdzDesk, MaJiang, SequenceTheorems, FiniteSetTheorems, WellFoundedInduction, TLAPS

\* Nobody has the turn at an idle table.  Whoever has it, then or while the lord
\* is called for, holds cards like everybody else, but for those who won without
\* it ending the game, of whom there are none before play.  Three bids are in the
\* list before play begins, or when nobody called and the cards are dealt again.
TableInv ==
    /\ TypeOK
    /\ step = None => op = Nobody
    /\ step = Play => op # Nobody
    /\ op # Nobody \/ step = Lord => \A i \in Seats : hand[i] > 0 \/ i \in undone
    /\ step # Play => plays = <<>> /\ undone = {}
    /\ step = Deal /\ op # Nobody => Len(bids) >= 3
    /\ step = Play => Len(bids) >= 3

-----------------------------------------------------------------------------
(***************************************************************************)
(* Positions in a list.                                                    *)
(***************************************************************************)

\* A list that is not empty has a first and a last position of any kind.
LEMMA FirstAndLast ==
    ASSUME NEW n \in Nat, NEW S \in SUBSET (1..n), S # {}
    PROVE  /\ \E k \in S : \A m \in S : k <= m
           /\ \E k \in S : \A m \in S : k >= m
<1> DEFINE R == {ss \in Nat \X Nat : ss[1] < ss[2]}
<1>1. ASSUME NEW T \in SUBSET Nat, T # {}
      PROVE  \E k \in T : \A m \in T : k <= m
  <2>1. IsWellFoundedOn(R, Nat)
    <3>1. R = OpToRel(<, Nat)
      BY Zenon DEF OpToRel
    <3> QED
      BY <3>1, NatLessThanWellFounded, Zenon
  <2>2. \E k \in T : \A m \in T : ~ (<<m, k>> \in R)
    <3> HIDE DEF R
    <3> QED
      BY <1>1, <2>1, WFMin, Zenon
  <2>3. PICK k \in T : \A m \in T : ~ (<<m, k>> \in R)
    BY <2>2
  <2>4. ASSUME NEW m \in T
        PROVE  k <= m
    <3>1. m \in Nat /\ k \in Nat
      OBVIOUS
    <3>2. m < k => <<m, k>> \in R
      BY <3>1
    <3> QED
      BY <2>3, <3>1, <3>2
  <2> QED
    BY <2>4
<1>2. \E k \in S : \A m \in S : k <= m
  BY <1>1
<1>3. \E k \in S : \A m \in S : k >= m
  <2> DEFINE T == {n - k : k \in S}
  <2>1. T \in SUBSET Nat /\ T # {}
    <3>1. \A k \in S : n - k \in Nat
      OBVIOUS
    <3> QED
      BY <3>1
  <2>2. PICK j \in T : \A m \in T : j <= m
    BY <1>1, <2>1
  <2>3. PICK k \in S : j = n - k
    BY <2>2
  <2>4. \A m \in S : n - m \in T
    OBVIOUS
  <2>5. \A m \in S : n - k <= n - m
    BY <2>2, <2>3, <2>4
  <2>6. \A m \in S : k >= m
    BY <2>5
  <2> QED
    BY <2>6
<1> QED
  BY <1>2, <1>3

LEMMA NextOfSeat ==
    ASSUME NEW i \in Seats
    PROVE  NextOf(i) \in Seats /\ NextOf(i) = (i % 3) + 1 /\ NextOf(i) # i
           /\ NextOf(NextOf(i)) # i
<1>1. i = 1 \/ i = 2 \/ i = 3
  BY DEF Seats
<1> QED
  BY <1>1 DEF NextOf, Seats

-----------------------------------------------------------------------------
(***************************************************************************)
(* A bid.                                                                  *)
(***************************************************************************)

\* The list with one bid more, and who called in it.
LEMMA OneMoreBid ==
    ASSUME NEW s \in Seq(Bid), NEW i \in Seats, NEW choose \in BOOLEAN
    PROVE  LET b == Append(s, [idx |-> i, choose |-> choose])
           IN  /\ b \in Seq(Bid)
               /\ Len(b) = Len(s) + 1
               /\ \A k \in 1..Len(s) : b[k] = s[k]
               /\ b[Len(s) + 1] = [idx |-> i, choose |-> choose]
               /\ Callers(b) = Callers(s) \cup (IF choose THEN {Len(s) + 1} ELSE {})
<1> DEFINE b == Append(s, [idx |-> i, choose |-> choose])
<1>1. [idx |-> i, choose |-> choose] \in Bid
  BY DEF Bid
<1>2. /\ b \in Seq(Bid)
      /\ Len(b) = Len(s) + 1
      /\ \A k \in 1..Len(s) : b[k] = s[k]
      /\ b[Len(s) + 1] = [idx |-> i, choose |-> choose]
  BY <1>1, AppendProperties
<1>3. DOMAIN b = 1..(Len(s) + 1) /\ DOMAIN s = 1..Len(s) /\ Len(s) \in Nat
  BY <1>2, LenProperties
<1> HIDE DEF b
<1>4. Callers(b) = Callers(s) \cup (IF choose THEN {Len(s) + 1} ELSE {})
  BY <1>2, <1>3 DEF Callers
<1> QED
  BY <1>2, <1>4 DEF b

\* Who called can be counted, and there is a first and a last one.
LEMMA CallersOfList ==
    ASSUME NEW b \in Seq(Bid)
    PROVE  /\ Callers(b) \subseteq 1..Len(b)
           /\ IsFiniteSet(Callers(b)) /\ Cardinality(Callers(b)) \in Nat
           /\ Callers(b) # {} =>
                 /\ \E k \in Callers(b) :
                       /\ FirstCaller(b) = b[k].idx
                       /\ \A m \in Callers(b) : k <= m
                 /\ \E k \in Callers(b) :
                       /\ LastCaller(b) = b[k].idx
                       /\ \A m \in Callers(b) : k >= m
                 /\ FirstCaller(b) \in Seats /\ LastCaller(b) \in Seats
<1>1. Len(b) \in Nat /\ DOMAIN b = 1..Len(b) /\ \A k \in 1..Len(b) : b[k] \in Bid
  BY LenProperties, ElementOfSeq
<1>2. Callers(b) \subseteq 1..Len(b)
  BY <1>1 DEF Callers
<1>3. IsFiniteSet(Callers(b)) /\ Cardinality(Callers(b)) \in Nat
  <2>1. IsFiniteSet(1..Len(b))
    BY <1>1, FS_Interval
  <2>2. IsFiniteSet(Callers(b))
    BY <1>2, <2>1, FS_Subset
  <2> QED
    BY <2>2, FS_CardinalityType
<1>4. ASSUME Callers(b) # {}
      PROVE  /\ \E k \in Callers(b) :
                   /\ FirstCaller(b) = b[k].idx
                   /\ \A m \in Callers(b) : k <= m
             /\ \E k \in Callers(b) :
                   /\ LastCaller(b) = b[k].idx
                   /\ \A m \in Callers(b) : k >= m
  <2>1. /\ \E k \in Callers(b) : \A m \in Callers(b) : k <= m
        /\ \E k \in Callers(b) : \A m \in Callers(b) : k >= m
    BY <1>1, <1>2, <1>4, FirstAndLast
  <2> QED
    BY <2>1 DEF FirstCaller, LastCaller
<1>5. \A k \in Callers(b) : b[k].idx \in Seats
  BY <1>1, <1>2 DEF Bid
<1> QED
  BY <1>2, <1>3, <1>4, <1>5

-----------------------------------------------------------------------------
(***************************************************************************)
(* The turn and the cards.                                                 *)
(***************************************************************************)

\* What a bid may do: the turn goes on, the lord is found, the cards are dealt
\* again, or the game is given up.
WithBid(choose) == Append(bids, [idx |-> op, choose |-> choose])
Doubled(choose) == IF choose THEN doubles + 1 ELSE doubles

TurnGoesOn(choose) ==
    /\ bids' = WithBid(choose) /\ doubles' = Doubled(choose)
    /\ op' \in Seats
    /\ UNCHANGED <<step, ready, lord, retry, hand, down, plays, undone>>
    /\ \/ Len(bids) < 2 /\ op' = NextOf(op)
       \/ /\ Len(bids) = 2 /\ Callers(WithBid(choose)) # {}
          /\ Cardinality(Callers(WithBid(choose))) > 1
          /\ op' = FirstCaller(WithBid(choose))
       \/ Len(bids) > 2 /\ Callers(WithBid(choose)) = {} /\ op' = op

LordFound(choose) ==
    /\ bids' = WithBid(choose) /\ doubles' = Doubled(choose)
    /\ Callers(WithBid(choose)) # {}
    /\ \/ Len(bids) = 2 /\ Cardinality(Callers(WithBid(choose))) = 1
       \/ Len(bids) > 2
    /\ LastCaller(WithBid(choose)) \in Seats
    /\ FinishLord(LastCaller(WithBid(choose)))

DealtAgain(choose) ==
    /\ Len(bids) = 2 /\ Callers(WithBid(choose)) = {}
    /\ bids' = WithBid(choose) /\ doubles' = Doubled(choose)
    /\ step' = Deal
    /\ retry < MaxRetry /\ retry' = retry + 1
    /\ UNCHANGED <<ready, op, lord, hand, down, plays, undone>>

GivenUp ==
    /\ Len(bids) = 2
    /\ StopGame
    /\ hand' = [i \in Seats |-> 0]
    /\ retry' = 0

LEMMA WithBidFacts ==
    ASSUME TypeOK, op \in Seats, NEW choose \in BOOLEAN
    PROVE  LET b == WithBid(choose)
           IN  /\ b \in Seq(Bid)
               /\ Len(bids) \in Nat
               /\ Len(b) = Len(bids) + 1
               /\ \A k \in 1..Len(bids) : b[k] = bids[k]
               /\ b[Len(bids) + 1] = [idx |-> op, choose |-> choose]
               /\ Callers(b) = Callers(bids) \cup (IF choose THEN {Len(bids) + 1} ELSE {})
               /\ Callers(bids) \subseteq 1..Len(bids)
<1>1. bids \in Seq(Bid)
  BY DEF TypeOK
<1> QED
  BY <1>1, OneMoreBid, CallersOfList, LenProperties DEF WithBid

LEMMA BidOutcomes ==
    ASSUME TypeOK, op \in Seats, NEW choose \in BOOLEAN, CurLordChoose(choose)
    PROVE  TurnGoesOn(choose) \/ LordFound(choose) \/ DealtAgain(choose) \/ GivenUp
<1> DEFINE b == WithBid(choose)
<1>1. b \in Seq(Bid) /\ Len(bids) \in Nat /\ Len(b) = Len(bids) + 1
  BY WithBidFacts
<1>2. /\ Callers(b) # {} => FirstCaller(b) \in Seats /\ LastCaller(b) \in Seats
      /\ Callers(b) = {} => Cardinality(Callers(b)) = 0
  BY <1>1, CallersOfList, FS_EmptySet
<1>3. NextOf(op) \in Seats
  BY NextOfSeat
<1> DEFINE record == bids' = b /\ doubles' = Doubled(choose)
           turn(i) == op' = i /\ UNCHANGED <<step, ready, lord, retry, hand, down, plays, undone>>
<1>4. \/ Len(b) < 3 /\ record /\ turn(NextOf(op))
      \/ Len(b) = 3 /\ Callers(b) = {} /\ (retry < MaxRetry => record) /\ TryRestartGame
      \/ Len(b) = 3 /\ Cardinality(Callers(b)) = 1 /\ record /\ FinishLord(LastCaller(b))
      \/ Len(b) = 3 /\ Cardinality(Callers(b)) > 1 /\ record /\ turn(FirstCaller(b))
      \/ Len(b) > 3 /\ Callers(b) # {} /\ record /\ FinishLord(LastCaller(b))
      \/ Len(b) > 3 /\ Callers(b) = {} /\ record /\ turn(op)
  BY DEF CurLordChoose, WithBid, Doubled
<1> HIDE DEF b
<1>11. /\ Len(b) < 3 => Len(bids) < 2
       /\ Len(b) = 3 => Len(bids) = 2
       /\ Len(b) > 3 => Len(bids) > 2
  <2> DEFINE n == Len(b)
             m == Len(bids)
  <2>1. m \in Nat /\ n = m + 1
    BY <1>1
  <2> HIDE DEF n, m
  <2>2. (n < 3 => m < 2) /\ (n = 3 => m = 2) /\ (n > 3 => m > 2)
    BY <2>1
  <2> QED
    BY <2>2 DEF n, m
<1>5. CASE Len(b) < 3 /\ record /\ turn(NextOf(op))
  BY <1>1, <1>3, <1>5 DEF TurnGoesOn, b
<1>6. CASE Len(b) = 3 /\ Callers(b) = {} /\ (retry < MaxRetry => record) /\ TryRestartGame
  <2>1. CASE retry >= MaxRetry
    BY <1>6, <1>11, <2>1, Zenon DEF TryRestartGame, GivenUp
  <2>2. CASE ~ (retry >= MaxRetry)
    <3>1. retry < MaxRetry
      BY <2>2, DdzAssumption DEF TypeOK
    <3> QED
      BY <1>6, <1>11, <2>2, <3>1, Zenon DEF TryRestartGame, DealtAgain, b
  <2> QED
    BY <2>1, <2>2
<1>7. CASE Len(b) = 3 /\ Cardinality(Callers(b)) = 1 /\ record /\ FinishLord(LastCaller(b))
  <2>1. Callers(b) # {}
    BY <1>2, <1>7
  <2> QED
    BY <1>2, <1>7, <1>11, <2>1, Zenon DEF LordFound, b
<1>8. CASE Len(b) = 3 /\ Cardinality(Callers(b)) > 1 /\ record /\ turn(FirstCaller(b))
  <2>1. Callers(b) # {}
    BY <1>2, <1>8
  <2> QED
    BY <1>2, <1>8, <1>11, <2>1, Zenon DEF TurnGoesOn, b
<1>9. CASE Len(b) > 3 /\ Callers(b) # {} /\ record /\ FinishLord(LastCaller(b))
  BY <1>1, <1>2, <1>9 DEF LordFound, b
<1>10. CASE Len(b) > 3 /\ Callers(b) = {} /\ record /\ turn(op)
  BY <1>1, <1>10 DEF TurnGoesOn, b
<1> QED
  BY <1>4, <1>5, <1>6, <1>7, <1>8, <1>9, <1>10

LEMMA TableInvInit == Init => TableInv
  BY DdzAssumption DEF Init, TableInv, TypeOK, Seats, Nobody, None, Deal, Lord, Play

LEMMA BidKeepsTable ==
    ASSUME TableInv, op \in Seats, step # None, NEW choose \in BOOLEAN, CurLordChoose(choose)
    PROVE  TableInv'
<1>1. /\ WithBid(choose) \in Seq(Bid)
      /\ Len(bids) \in Nat /\ Len(WithBid(choose)) = Len(bids) + 1
  BY WithBidFacts DEF TableInv
<1>2. Doubled(choose) \in Nat
  BY DEF TableInv, TypeOK, Doubled
<1>3. op # Nobody /\ \A i \in Seats : hand[i] \in Nat /\ (hand[i] > 0 \/ i \in undone)
  BY DEF TableInv, TypeOK, Seats, Nobody
<1>4. CASE TurnGoesOn(choose)
  BY <1>1, <1>2, <1>3, <1>4 DEF TurnGoesOn, TableInv, TypeOK, Seats, Nobody
<1>5. CASE LordFound(choose)
  <2> DEFINE i == LastCaller(WithBid(choose))
  <2>1. /\ i \in Seats /\ op' = i /\ lord' = i /\ step' = Play
        /\ hand' = [hand EXCEPT ![i] = @ + down]
        /\ UNCHANGED <<ready, retry, down, plays, undone>>
        /\ bids' = WithBid(choose) /\ doubles' = Doubled(choose)
        /\ Len(bids) >= 2
    BY <1>5 DEF LordFound, FinishLord
  <2>2. down \in Nat
    BY DdzAssumption DEF TableInv, TypeOK
  <2> HIDE DEF i
  <2>3. hand' \in [Seats -> Nat] /\ \A j \in Seats : hand'[j] > 0 \/ j \in undone'
    BY <1>3, <2>1, <2>2 DEF TableInv, TypeOK
  <2>4. step # Play => plays = <<>> /\ undone = {}
    BY DEF TableInv
  <2>5. step = Play => Len(bids) >= 3
    BY DEF TableInv
  <2> QED
    BY <1>1, <1>2, <2>1, <2>3, SMTT(30) DEF TableInv, TypeOK, Seats, Nobody, None, Deal, Lord, Play
<1>6. CASE DealtAgain(choose)
  <2>1. step # Play
    BY <1>6 DEF DealtAgain, TableInv
  <2>2. retry' \in 0..MaxRetry
    BY <1>6, DdzAssumption DEF DealtAgain, TableInv, TypeOK
  <2>3. bids' \in Seq(Bid) /\ Len(bids') = 3
    BY <1>1, <1>6 DEF DealtAgain
  <2> QED
    BY <1>2, <1>3, <1>6, <2>1, <2>2, <2>3
       DEF DealtAgain, TableInv, TypeOK, Seats, Nobody, None, Deal, Lord, Play
<1>7. CASE GivenUp
  BY <1>7, DdzAssumption
     DEF GivenUp, StopGame, ClearTable, TableInv, TypeOK, Seats, Nobody, None, Deal, Lord, Play
<1> QED
  BY <1>4, <1>5, <1>6, <1>7, BidOutcomes DEF TableInv

\* A play takes cards from the hand of the one who has the turn.  With the last
\* of them the game is over, or he is one whose win was not carried out and keeps
\* the turn; else the turn goes on.
LEMMA PlayOutcomes ==
    ASSUME TableInv, step = Play, NEW n \in Nat, n > 0, NEW bomb \in BOOLEAN, PlayCards(n, bomb)
    PROVE  /\ op \in Seats /\ retry' = retry
           /\ hand' \in [Seats -> Nat]
           /\ \/ StopGame
              \/ /\ \A i \in Seats : hand'[i] > 0 \/ i \in undone'
                 /\ plays' = Append(plays, [idx |-> op, is_play |-> TRUE])
                 /\ plays' \in Seq(CardPlay)
                 /\ doubles' \in Nat
                 /\ \/ op' = NextOf(op) /\ undone' = undone
                    \/ op' = op /\ undone' = undone \cup {op}
                 /\ op' \in Seats /\ undone' \subseteq Seats
                 /\ UNCHANGED <<step, ready, lord, down, bids>>
<1>1. op \in Seats /\ \A i \in Seats : hand[i] \in Nat /\ (hand[i] > 0 \/ i \in undone)
  BY DEF TableInv, TypeOK
<1>2. hand' = [hand EXCEPT ![op] = @ - n] /\ retry' = retry /\ n \in 1..hand[op]
  BY DEF PlayCards
<1>3. hand' \in [Seats -> Nat] /\ \A i \in Seats : i # op => hand'[i] > 0 \/ i \in undone
  BY <1>1, <1>2 DEF TableInv, TypeOK
<1>4. CASE StopGame
  BY <1>1, <1>2, <1>3, <1>4
<1>5. CASE ~StopGame
  <2>1. /\ plays' = Append(plays, [idx |-> op, is_play |-> TRUE])
        /\ doubles' = IF bomb THEN doubles + 1 ELSE doubles
        /\ IF hand'[op] = 0 THEN undone' = undone \cup {op} /\ op' = op
           ELSE op' = NextOf(op) /\ undone' = undone
        /\ UNCHANGED <<step, ready, lord, down, bids>>
    BY <1>5, Zenon DEF PlayCards
  <2>2. [idx |-> op, is_play |-> TRUE] \in CardPlay
    BY <1>1 DEF CardPlay
  <2>3. plays' \in Seq(CardPlay)
    BY <2>1, <2>2, AppendProperties DEF TableInv, TypeOK
  <2>4. doubles' \in Nat /\ op' \in Seats /\ undone' \subseteq Seats
    BY <1>1, <2>1, NextOfSeat DEF TableInv, TypeOK
  <2>5. \A i \in Seats : hand'[i] > 0 \/ i \in undone'
    <3>1. hand'[op] \in Nat
      BY <1>1, <1>3
    <3> QED
      BY <1>3, <2>1, <3>1
  <2> QED
    BY <1>1, <1>2, <1>3, <2>1, <2>3, <2>4, <2>5
<1> QED
  BY <1>4, <1>5

\* A pass adds to the round or ends it.
LEMMA PassOutcomes ==
    ASSUME TableInv, step = Play, PassTurn
    PROVE  LET p == Append(plays, [idx |-> op, is_play |-> FALSE])
           IN  /\ op \in Seats /\ plays \in Seq(CardPlay) /\ HasLast(plays)
               /\ p \in Seq(CardPlay) /\ Len(plays) \in Nat /\ Len(p) = Len(plays) + 1
               /\ \A k \in 1..Len(plays) : p[k] = plays[k]
               /\ p[Len(plays) + 1] = [idx |-> op, is_play |-> FALSE]
               /\ UNCHANGED <<step, ready, lord, doubles, retry, hand, down, bids, undone>>
               /\ \/ ~RoundEnds(p) /\ plays' = p /\ op' = NextOf(op)
                  \/ /\ Len(plays) >= 2 /\ ~plays[Len(plays)].is_play
                     /\ plays' = <<>>
                     /\ op' = plays[Len(plays) - 1].idx
               /\ op' \in Seats /\ plays' \in Seq(CardPlay)
<1> DEFINE p == Append(plays, [idx |-> op, is_play |-> FALSE])
<1>1. op \in Seats /\ plays \in Seq(CardPlay)
  BY DEF TableInv, TypeOK
<1>2. [idx |-> op, is_play |-> FALSE] \in CardPlay
  BY <1>1 DEF CardPlay
<1>3. /\ p \in Seq(CardPlay) /\ Len(plays) \in Nat /\ Len(p) = Len(plays) + 1
      /\ \A k \in 1..Len(plays) : p[k] = plays[k]
      /\ p[Len(plays) + 1] = [idx |-> op, is_play |-> FALSE]
  BY <1>1, <1>2, AppendProperties, LenProperties
<1>4. /\ HasLast(plays)
      /\ UNCHANGED <<step, ready, lord, doubles, retry, hand, down, bids, undone>>
      /\ IF RoundEnds(p) THEN plays' = <<>> /\ op' = RoundWinner(p)
         ELSE plays' = p /\ op' = NextOf(op)
  BY Zenon DEF PassTurn
<1> HIDE DEF p
<1>5. CASE RoundEnds(p)
  <2>1. Len(plays) >= 2 /\ ~plays[Len(plays)].is_play /\ RoundWinner(p) = plays[Len(plays) - 1].idx
    <3> DEFINE n == Len(plays)
    <3>1. n \in Nat /\ n + 1 >= 3 /\ Len(p) = n + 1 /\ ~p[(n + 1) - 1].is_play
      BY <1>3, <1>5 DEF RoundEnds
    <3>2. (n + 1) - 1 = n /\ (n + 1) - 2 = n - 1 /\ n >= 2 /\ n \in 1..n /\ n - 1 \in 1..n
      BY <3>1
    <3>3. \A k \in 1..n : p[k] = plays[k]
      BY <1>3
    <3> HIDE DEF n
    <3>4. ~plays[n].is_play /\ RoundWinner(p) = plays[n - 1].idx
      BY <3>1, <3>2, <3>3 DEF RoundWinner
    <3> QED
      BY <3>2, <3>4 DEF n
  <2>2. plays[Len(plays) - 1].idx \in Seats
    <3>1. Len(plays) - 1 \in 1..Len(plays)
      BY <1>3, <2>1
    <3>2. plays[Len(plays) - 1] \in CardPlay
      BY <1>1, <3>1, ElementOfSeq
    <3> QED
      BY <3>2 DEF CardPlay
  <2>3. <<>> \in Seq(CardPlay)
    BY EmptySeq
  <2> QED
    BY <1>1, <1>3, <1>4, <1>5, <2>1, <2>2, <2>3, Zenon DEF p
<1>6. CASE ~RoundEnds(p)
  <2>1. NextOf(op) \in Seats
    BY <1>1, NextOfSeat
  <2> QED
    BY <1>1, <1>3, <1>4, <1>6, <2>1, Zenon DEF p
<1> QED
  BY <1>5, <1>6

LEMMA CardsKeepTable ==
    ASSUME TableInv, step = Play,
           \/ \E n \in Nat \ {0}, bomb \in BOOLEAN : PlayCards(n, bomb)
           \/ PassTurn
    PROVE  TableInv'
<1>1. ASSUME NEW n \in Nat \ {0}, NEW bomb \in BOOLEAN, PlayCards(n, bomb)
      PROVE  TableInv'
  <2>1. retry' = retry /\ hand' \in [Seats -> Nat]
    BY <1>1, PlayOutcomes
  <2>2. CASE StopGame
    BY <2>1, <2>2, DdzAssumption
       DEF StopGame, ClearTable, TableInv, TypeOK, Seats, Nobody, None, Deal, Lord, Play
  <2>3. CASE /\ \A i \in Seats : hand'[i] > 0 \/ i \in undone'
             /\ plays' \in Seq(CardPlay)
             /\ doubles' \in Nat
             /\ op' \in Seats /\ undone' \subseteq Seats
             /\ UNCHANGED <<step, ready, lord, down, bids>>
    BY <2>1, <2>3 DEF TableInv, TypeOK, Seats, Nobody, None, Deal, Lord, Play
  <2> QED
    BY <1>1, <2>2, <2>3, PlayOutcomes
<1>2. ASSUME PassTurn
      PROVE  TableInv'
  <2>1. /\ op \in Seats /\ op' \in Seats /\ plays' \in Seq(CardPlay)
        /\ UNCHANGED <<step, ready, lord, doubles, retry, hand, down, bids, undone>>
    BY <1>2, PassOutcomes
  <2> QED
    BY <2>1 DEF TableInv, TypeOK, Seats, Nobody, None, Deal, Lord, Play
<1> QED
  BY <1>1, <1>2

\* The steps of the bidding and of play, with what they need.
LEMMA StepKinds ==
    ASSUME TableInv, Next
    PROVE  \/ \E i \in Seats : UserReady(i) \/ UserEnter(i) \/ UserLeave(i)
           \/ op \in Seats /\ step # None /\ \E choose \in BOOLEAN : CurLordChoose(choose)
           \/ /\ step = Play
              /\ \/ \E n \in Nat \ {0}, bomb \in BOOLEAN : PlayCards(n, bomb)
                 \/ PassTurn
           \/ DealTime \/ FirstBidderTime
<1>1. CASE \E choose \in BOOLEAN : UserChoose(choose)
  BY <1>1, Zenon DEF UserChoose, TableInv, TypeOK, Nobody
<1>2. CASE UserDealPoker
  <2>1. step = Play
    BY <1>2 DEF UserDealPoker
  <2>2. op \in Seats /\ hand[op] \in Nat
    BY <2>1 DEF TableInv, TypeOK
  <2>3. \A n \in 1..hand[op] : n \in Nat \ {0}
    BY <2>2
  <2> QED
    BY <1>2, <2>1, <2>3, Zenon DEF UserDealPoker
<1>3. CASE BidTimeout
  <2>1. op \in Seats /\ step # None
    BY <1>3 DEF BidTimeout, TableInv, TypeOK, Nobody, Lord, None
  <2> QED
    BY <1>3, <2>1, Zenon DEF BidTimeout
<1>4. CASE PlayTimeout
  <2>1. 1 \in Nat \ {0}
    OBVIOUS
  <2> QED
    BY <1>4, <2>1, Zenon DEF PlayTimeout
<1> QED
  BY <1>1, <1>2, <1>3, <1>4, Zenon DEF Next, Turn, TimeUpdate

LEMMA TableInvStep == TableInv /\ [Next]_vars => TableInv'
<1> SUFFICES ASSUME TableInv, [Next]_vars
             PROVE  TableInv'
  OBVIOUS
<1>1. ASSUME NEW i \in Seats, UserReady(i)
      PROVE  TableInv'
  BY <1>1 DEF UserReady, TableInv, TypeOK, Seats, Nobody, None, Deal, Lord, Play
<1>2. ASSUME NEW i \in Seats, UserEnter(i)
      PROVE  TableInv'
  BY <1>2 DEF UserEnter, TableInv, TypeOK, Seats, Nobody, None, Deal, Lord, Play
<1>3. ASSUME NEW i \in Seats, UserLeave(i)
      PROVE  TableInv'
  BY <1>3 DEF UserLeave, TableInv, TypeOK, Seats, Nobody, None, Deal, Lord, Play
<1>4. CASE DealTime
  BY <1>4, DdzAssumption, EmptySeq
     DEF DealTime, TableInv, TypeOK, Seats, Nobody, None, Deal, Lord, Play
<1>5. CASE FirstBidderTime
  <2>1. op' \in Seats
    BY <1>5, DdzAssumption DEF FirstBidderTime, Seats
  <2> QED
    BY <1>5, <2>1 DEF FirstBidderTime, TableInv, TypeOK, Seats, Nobody, None, Deal, Lord, Play
<1>6. CASE UNCHANGED vars
  BY <1>6 DEF vars, TableInv, TypeOK
<1> QED
  BY <1>1, <1>2, <1>3, <1>4, <1>5, <1>6, StepKinds, BidKeepsTable, CardsKeepTable, Zenon

\* The tables of a game are well typed, however long it is and however often it
\* is played.
THEOREM TypesHold == Spec => []TypeOK
<1>1. TableInv => TypeOK
  BY DEF TableInv
<1> QED
  BY <1>1, TableInvInit, TableInvStep, PTL DEF Spec

-----------------------------------------------------------------------------
(***************************************************************************)
(* The bidding.                                                            *)
(***************************************************************************)

\* Bids go round, and before the first bidder is drawn there are none.
BidInv ==
    /\ BiddingInv
    /\ step = Lord /\ op = Nobody => bids = <<>>

LEMMA TurnKeepsBidding ==
    ASSUME TableInv, BidInv, op \in Seats, NEW choose \in BOOLEAN, TurnGoesOn(choose)
    PROVE  BidInv'
<1> DEFINE n == Len(bids)
           b == WithBid(choose)
<1>1. /\ bids' = b /\ op' \in Seats /\ op' # Nobody
      /\ step' = step /\ lord' = lord
  BY DEF TurnGoesOn, Seats, Nobody
<1>2. /\ n \in Nat /\ b \in Seq(Bid) /\ Len(b) = n + 1
      /\ \A k \in 1..n : b[k] = bids[k]
      /\ b[n + 1].idx = op /\ b[n + 1].choose = choose
      /\ Callers(bids) \subseteq Callers(b)
  <2>1. /\ n \in Nat /\ b \in Seq(Bid) /\ Len(b) = n + 1
        /\ \A k \in 1..n : b[k] = bids[k]
        /\ b[n + 1] = [idx |-> op, choose |-> choose]
        /\ Callers(b) = Callers(bids) \cup (IF choose THEN {n + 1} ELSE {})
    BY WithBidFacts DEF TableInv
  <2> HIDE DEF n, b
  <2> QED
    BY <2>1
<1>3. op # Nobody
  BY DEF Seats, Nobody
<1>4. DOMAIN b = 1..(n + 1) /\ DOMAIN bids = 1..n
  BY <1>2, LenProperties DEF TableInv, TypeOK
<1>5. CASE step = Lord
  <2>1. /\ n <= 3
        /\ \A k \in 1..n : IF k < n THEN bids[k + 1].idx = (bids[k].idx % 3) + 1
                          ELSE k < 3 => op = (bids[k].idx % 3) + 1
        /\ n = 3 => \E k \in 1..3 : bids[k].choose
    BY <1>3, <1>5 DEF BidInv, BiddingInv, BiddingGoesRound
  <2>2. n # 3 \/ Callers(b) # {}
    BY <1>2, <1>4, <2>1 DEF Callers
  <2>3. \/ n < 2 /\ op' = NextOf(op)
        \/ n = 2 /\ Callers(b) # {} /\ op' = FirstCaller(b)
    <3>1. \/ n < 2 /\ op' = NextOf(op)
          \/ n = 2 /\ Callers(b) # {} /\ op' = FirstCaller(b)
          \/ n > 2 /\ Callers(b) = {}
      BY Zenon DEF TurnGoesOn
    <3> HIDE DEF n, b
    <3>2. ~ (n > 2 /\ Callers(b) = {})
      BY <1>2, <2>1, <2>2
    <3> QED
      BY <3>1, <3>2
  <2>4. \A k \in 1..n : b[k + 1].idx = (b[k].idx % 3) + 1
    <3> SUFFICES ASSUME NEW k \in 1..n
                 PROVE  b[k + 1].idx = (b[k].idx % 3) + 1
      OBVIOUS
    <3> HIDE DEF n, b
    <3>1. CASE k < n
      <4>1. k + 1 \in 1..n
        BY <1>2, <3>1
      <4> QED
        BY <1>2, <2>1, <3>1, <4>1
    <3>2. CASE ~ (k < n)
      <4>1. k = n /\ k < 3
        BY <1>2, <2>3, <3>2
      <4> QED
        BY <1>2, <2>1, <4>1
    <3> QED
      BY <3>1, <3>2
  <2>5. n + 1 < 3 => op' = (b[n + 1].idx % 3) + 1
    <3> HIDE DEF n, b
    <3>1. n + 1 < 3 => op' = NextOf(op)
      BY <1>2, <2>3
    <3> QED
      BY <1>2, <3>1, NextOfSeat
  <2>6. n + 1 = 3 => \E k \in 1..3 : /\ b[k].choose /\ b[k].idx = op'
                                     /\ \A m \in 1..(k - 1) : ~b[m].choose
    <3> SUFFICES ASSUME n + 1 = 3
                 PROVE  \E k \in 1..3 : /\ b[k].choose /\ b[k].idx = op'
                                       /\ \A m \in 1..(k - 1) : ~b[m].choose
      OBVIOUS
    <3>1. Callers(b) # {} /\ op' = FirstCaller(b)
      BY <1>2, <2>3
    <3>2. PICK k \in Callers(b) : FirstCaller(b) = b[k].idx /\ \A m \in Callers(b) : k <= m
      BY <1>2, <3>1, CallersOfList
    <3>3. k \in 1..3 /\ b[k].choose
      BY <1>4 DEF Callers
    <3>4. ASSUME NEW m \in 1..(k - 1)
          PROVE  ~b[m].choose
      <4>1. m \in 1..3 /\ ~ (k <= m)
        BY <3>3
      <4> QED
        BY <1>4, <3>2, <4>1 DEF Callers
    <3> QED
      BY <3>1, <3>2, <3>3, <3>4
  <2>7. BiddingGoesRound'
    <3> HIDE DEF n, b
    <3>1. Len(bids') = n + 1 /\ n + 1 <= 3
      BY <1>1, <1>2, <2>3
    <3>2. \A k \in 1..(n + 1) :
              IF k < n + 1 THEN b[k + 1].idx = (b[k].idx % 3) + 1
              ELSE k < 3 => op' = (b[k].idx % 3) + 1
      BY <1>2, <2>4, <2>5
    <3> QED
      BY <1>1, <2>6, <3>1, <3>2 DEF BiddingGoesRound
  <2> QED
    BY <1>1, <1>5, <2>7 DEF BidInv, BiddingInv, LordCalledLast, Lord, Play
<1>6. CASE step = Play
  <2>1. n >= 3
    BY <1>6 DEF TableInv
  <2>2. Callers(b) # {}
    BY <1>2, <1>6 DEF BidInv, BiddingInv, LordCalledLast, Callers
  <2> QED
    BY <1>2, <2>1, <2>2 DEF TurnGoesOn
<1>7. CASE step # Lord /\ step # Play
  BY <1>1, <1>7 DEF BidInv, BiddingInv, BiddingGoesRound, LordCalledLast
<1> QED
  BY <1>5, <1>6, <1>7

LEMMA BidKeepsBidding ==
    ASSUME TableInv, BidInv, op \in Seats, NEW choose \in BOOLEAN, CurLordChoose(choose)
    PROVE  BidInv'
<1>1. CASE TurnGoesOn(choose)
  BY <1>1, TurnKeepsBidding
<1>2. CASE LordFound(choose)
  <2> DEFINE b == WithBid(choose)
  <2>1. b \in Seq(Bid) /\ Callers(b) # {}
    BY <1>2, WithBidFacts DEF TableInv, LordFound
  <2>2. bids' = b /\ step' = Play /\ lord' = LastCaller(b)
    BY <1>2 DEF LordFound, FinishLord
  <2>3. PICK k \in Callers(b) : LastCaller(b) = b[k].idx /\ \A m \in Callers(b) : k >= m
    BY <2>1, CallersOfList
  <2>4. k \in DOMAIN b /\ b[k].choose
    BY DEF Callers
  <2>5. ASSUME NEW m \in DOMAIN b, m > k
        PROVE  ~b[m].choose
    <3>1. m \in Nat /\ k \in Nat
      BY <2>1, <2>4, LenProperties
    <3> QED
      BY <2>3, <2>5, <3>1 DEF Callers
  <2> HIDE DEF b
  <2> QED
    BY <2>2, <2>3, <2>4, <2>5
       DEF BidInv, BiddingInv, BiddingGoesRound, LordCalledLast, Lord, Play
<1>3. CASE DealtAgain(choose)
  BY <1>3 DEF DealtAgain, BidInv, BiddingInv, BiddingGoesRound, LordCalledLast, Deal, Lord, Play
<1>4. CASE GivenUp
  BY <1>4 DEF GivenUp, StopGame, BidInv, BiddingInv, BiddingGoesRound, LordCalledLast,
              None, Lord, Play
<1> QED
  BY <1>1, <1>2, <1>3, <1>4, BidOutcomes DEF TableInv

\* Cards leave the bids and the lord alone.
LEMMA CardsKeepBids ==
    ASSUME TableInv, step = Play,
           \/ \E n \in Nat \ {0}, bomb \in BOOLEAN : PlayCards(n, bomb)
           \/ PassTurn
    PROVE  \/ step' = None /\ plays' = <<>> /\ doubles' = 0
           \/ UNCHANGED <<step, lord, bids>>
<1>1. CASE \E n \in Nat \ {0}, bomb \in BOOLEAN : PlayCards(n, bomb)
  <2>1. StopGame \/ UNCHANGED <<step, lord, bids>>
    BY <1>1, PlayOutcomes
  <2> QED
    BY <2>1 DEF StopGame, ClearTable
<1>2. CASE PassTurn
  BY <1>2, PassOutcomes
<1> QED
  BY <1>1, <1>2

LEMMA BidInvInit == Init => BidInv
  BY DEF Init, BidInv, BiddingInv, BiddingGoesRound, LordCalledLast, None, Lord, Play

LEMMA BidInvStep == TableInv /\ BidInv /\ [Next]_vars => BidInv'
<1> SUFFICES ASSUME TableInv, BidInv, [Next]_vars
             PROVE  BidInv'
  OBVIOUS
<1> USE DEF BidInv, BiddingInv, BiddingGoesRound, LordCalledLast, None, Deal, Lord, Play
<1>1. ASSUME NEW i \in Seats, UserReady(i) \/ UserEnter(i) \/ UserLeave(i)
      PROVE  BidInv'
  BY <1>1 DEF UserReady, UserEnter, UserLeave
<1>2. CASE DealTime
  BY <1>2 DEF DealTime, Nobody
<1>3. CASE FirstBidderTime
  BY <1>3, EmptySeq DEF FirstBidderTime
<1>4. CASE UNCHANGED vars
  BY <1>4 DEF vars
<1>5. ASSUME step = Play,
             \/ \E n \in Nat \ {0}, bomb \in BOOLEAN : PlayCards(n, bomb)
             \/ PassTurn
      PROVE  BidInv'
  <2>1. step' = None \/ UNCHANGED <<step, lord, bids>>
    BY <1>5, CardsKeepBids
  <2> QED
    BY <1>5, <2>1
<1> HIDE DEF BidInv, None, Play
<1> QED
  BY <1>1, <1>2, <1>3, <1>4, <1>5, StepKinds, BidKeepsBidding, Zenon

-----------------------------------------------------------------------------
(***************************************************************************)
(* The stake.                                                              *)
(***************************************************************************)

\* A deal begins with the stake undoubled; when nobody called it still is.
StakeInv ==
    /\ StakeStartsFresh
    /\ step = Deal => doubles = 0

LEMMA BidKeepsStake ==
    ASSUME TableInv, StakeInv, op \in Seats, step # None,
           NEW choose \in BOOLEAN, CurLordChoose(choose)
    PROVE  StakeInv'
<1> DEFINE b == WithBid(choose)
<1>1. /\ Len(bids) \in Nat
      /\ Callers(b) = Callers(bids) \cup (IF choose THEN {Len(bids) + 1} ELSE {})
      /\ Callers(bids) \subseteq 1..Len(bids)
  BY WithBidFacts DEF TableInv
<1>2. IsFiniteSet(Callers(bids)) /\ Len(bids) + 1 \notin Callers(bids)
  <2>1. bids \in Seq(Bid)
    BY DEF TableInv, TypeOK
  <2> QED
    BY <1>1, <2>1, CallersOfList
<1>3. Cardinality(Callers(b)) = IF choose THEN Cardinality(Callers(bids)) + 1
                                ELSE Cardinality(Callers(bids))
  <2>1. CASE choose
    BY <1>1, <1>2, <2>1, FS_AddElement
  <2>2. CASE ~choose
    BY <1>1, <2>2
  <2> QED
    BY <2>1, <2>2
<1>4. Callers(b) = {} => ~choose /\ Cardinality(Callers(bids)) = 0
  BY <1>1, FS_EmptySet
<1> HIDE DEF b
<1>5. CASE TurnGoesOn(choose)
  <2>1. bids' = b /\ doubles' = Doubled(choose) /\ step' = step
    BY <1>5 DEF TurnGoesOn, b
  <2>2. step = Lord => doubles' = Cardinality(Callers(bids'))
    BY <1>3, <2>1 DEF StakeInv, StakeStartsFresh, Doubled
  <2>3. step = Deal => Callers(b) = {}
    <3> SUFFICES ASSUME step = Deal
                 PROVE  Callers(b) = {}
      OBVIOUS
    <3> DEFINE n == Len(bids)
    <3>1. n >= 3 /\ n \in Nat
      BY <1>1 DEF TableInv, Seats, Nobody
    <3>2. n < 2 \/ n = 2 \/ Callers(b) = {}
      BY <1>5, Zenon DEF TurnGoesOn, b
    <3> HIDE DEF n
    <3> QED
      BY <3>1, <3>2
  <2>4. step = Deal => doubles' = 0
    BY <1>4, <2>1, <2>3 DEF StakeInv, Doubled
  <2> QED
    BY <2>1, <2>2, <2>4 DEF StakeInv, StakeStartsFresh
<1>6. CASE LordFound(choose)
  BY <1>6 DEF LordFound, FinishLord, StakeInv, StakeStartsFresh, None, Deal, Lord, Play
<1>7. CASE DealtAgain(choose)
  <2>1. Callers(b) = {} /\ doubles' = Doubled(choose) /\ step' = Deal /\ Len(bids) = 2
    BY <1>7 DEF DealtAgain, b
  <2>2. step = Lord
    BY <2>1 DEF TableInv, TypeOK, Seats, Nobody
  <2>3. doubles' = 0
    BY <1>4, <2>1, <2>2 DEF StakeInv, StakeStartsFresh, Doubled
  <2> QED
    BY <2>1, <2>3 DEF StakeInv, StakeStartsFresh, None, Deal, Lord
<1>8. CASE GivenUp
  BY <1>8 DEF GivenUp, StopGame, StakeInv, StakeStartsFresh, None, Deal, Lord
<1> QED
  BY <1>5, <1>6, <1>7, <1>8, BidOutcomes DEF TableInv

LEMMA StakeInvInit == Init => StakeInv
  BY DEF Init, StakeInv, StakeStartsFresh, None, Deal, Lord

LEMMA StakeInvStep == TableInv /\ StakeInv /\ [Next]_vars => StakeInv'
<1> SUFFICES ASSUME TableInv, StakeInv, [Next]_vars
             PROVE  StakeInv'
  OBVIOUS
<1> USE DEF StakeInv, StakeStartsFresh, None, Deal, Lord, Play
<1>1. ASSUME NEW i \in Seats, UserReady(i) \/ UserEnter(i) \/ UserLeave(i)
      PROVE  StakeInv'
  BY <1>1 DEF UserReady, UserEnter, UserLeave
<1>2. CASE DealTime
  <2>1. Callers(<<>>) = {}
    BY DEF Callers
  <2> QED
    BY <1>2, <2>1, FS_EmptySet DEF DealTime
<1>3. CASE FirstBidderTime
  BY <1>3 DEF FirstBidderTime
<1>4. CASE UNCHANGED vars
  BY <1>4 DEF vars
<1>5. ASSUME step = Play,
             \/ \E n \in Nat \ {0}, bomb \in BOOLEAN : PlayCards(n, bomb)
             \/ PassTurn
      PROVE  StakeInv'
  <2>1. (step' = None /\ doubles' = 0) \/ UNCHANGED step
    BY <1>5, CardsKeepBids
  <2> QED
    BY <1>5, <2>1
<1> HIDE DEF StakeInv, None, Play
<1> QED
  BY <1>1, <1>2, <1>3, <1>4, <1>5, StepKinds, BidKeepsStake, Zenon

-----------------------------------------------------------------------------
(***************************************************************************)
(* The plays of a round.                                                   *)
(***************************************************************************)

\* Where the last play of a round is: at most one pass follows it.
LastAt(p) == IF p[Len(p)].is_play THEN Len(p) ELSE Len(p) - 1

OnePassAtMost(p) ==
    p[Len(p)].is_play \/ (Len(p) >= 2 /\ p[Len(p) - 1].is_play)

\* The turn follows the last play, or the pass after it, unless a late bid has
\* made another the lord; a list of bids that play began with shows that.  After
\* a win that was not carried out it is still his who won, and goes on from him
\* when he passes.
RoundInv ==
    /\ step = Play /\ Len(bids) = 3 => Cardinality(Callers(bids)) = 1
    /\ plays # <<>> => OnePassAtMost(plays)
    /\ step = Play /\ OrderlyBids /\ plays # <<>> =>
          LET last == plays[LastAt(plays)].idx
          IN  IF plays[Len(plays)].is_play
              THEN op = NextOf(last) \/ (op = last /\ op \in undone)
              ELSE op = NextOf(NextOf(last)) \/ op = NextOf(last)

LEMMA LastPlayOfRound ==
    ASSUME NEW p \in Seq(CardPlay), p # <<>>, OnePassAtMost(p)
    PROVE  /\ HasLast(p) /\ LastPlay(p) = LastAt(p)
           /\ LastAt(p) \in 1..Len(p) /\ Len(p) - LastAt(p) <= 1
           /\ p[LastAt(p)] \in CardPlay
<1> DEFINE n == Len(p)
           k == LastAt(p)
<1>1. n \in Nat \ {0} /\ DOMAIN p = 1..n
  BY EmptySeq, LenProperties
<1>2. k \in 1..n /\ p[k].is_play /\ (k = n \/ (k = n - 1 /\ ~p[n].is_play))
  <2>1. /\ p[n].is_play \/ (n >= 2 /\ p[n - 1].is_play)
        /\ k = IF p[n].is_play THEN n ELSE n - 1
    BY DEF OnePassAtMost, LastAt
  <2> HIDE DEF n, k
  <2>2. CASE p[n].is_play
    <3>1. k = n
      BY <2>1, <2>2, Zenon
    <3>2. n \in 1..n
      BY <1>1
    <3>3. p[k].is_play
      BY <2>2, <3>1
    <3> QED
      BY <3>1, <3>2, <3>3, Zenon
  <2>3. CASE ~p[n].is_play
    BY <1>1, <2>1, <2>3
  <2> QED
    BY <2>2, <2>3
<1> HIDE DEF n, k
<1>3. \A m \in 1..n : m > k => ~p[m].is_play
  BY <1>1, <1>2
<1>4. \A j \in 1..n : p[j].is_play /\ (\A m \in 1..n : m > j => ~p[m].is_play) => j = k
  BY <1>1, <1>2
<1>5. LastPlay(p) = k
  BY <1>1, <1>2, <1>3, <1>4 DEF LastPlay
<1>6. HasLast(p) /\ n - k <= 1
  BY <1>1, <1>2 DEF HasLast
<1>7. p[k] \in CardPlay
  BY <1>2, ElementOfSeq DEF n
<1> QED
  BY <1>2, <1>5, <1>6, <1>7 DEF n, k

LEMMA OthersAreAsked == TableInv /\ RoundInv => OthersToBeat
<1> SUFFICES ASSUME TableInv, RoundInv, step = Play, OrderlyBids, plays # <<>>
             PROVE  /\ HasLast(plays)
                    /\ plays[LastPlay(plays)].idx = op =>
                          op \in undone /\ LastPlay(plays) = Len(plays)
                    /\ Len(plays) - LastPlay(plays) <= 1
  BY DEF OthersToBeat
<1>1. plays \in Seq(CardPlay) /\ OnePassAtMost(plays)
  BY DEF TableInv, TypeOK, RoundInv
<1>2. /\ HasLast(plays) /\ LastPlay(plays) = LastAt(plays)
      /\ Len(plays) - LastAt(plays) <= 1
      /\ plays[LastAt(plays)].idx \in Seats
  BY <1>1, LastPlayOfRound DEF CardPlay
<1>3. \/ op = NextOf(plays[LastAt(plays)].idx)
      \/ op = NextOf(NextOf(plays[LastAt(plays)].idx))
      \/ op \in undone /\ LastAt(plays) = Len(plays)
  BY DEF RoundInv, LastAt
<1> QED
  BY <1>2, <1>3, NextOfSeat

\* A bid during play leaves no list that play could have begun with.
LEMMA LateBidIsLate ==
    ASSUME TableInv, RoundInv, step = Play, op \in Seats, NEW choose \in BOOLEAN,
           bids' = WithBid(choose)
    PROVE  ~OrderlyBids' /\ Len(bids') # 3
<1> DEFINE n == Len(bids)
           b == WithBid(choose)
<1>1. /\ n \in Nat /\ n >= 3 /\ Len(b) = n + 1
      /\ \A k \in 1..n : b[k] = bids[k]
      /\ Callers(bids) \subseteq 1..n
      /\ DOMAIN bids = 1..n
  BY WithBidFacts, LenProperties DEF TableInv, TypeOK
<1>2. n = 3 => {k \in 1..3 : b[k].choose} = Callers(bids)
  BY <1>1 DEF Callers
<1>3. n = 3 => Cardinality(Callers(bids)) = 1
  BY DEF RoundInv
<1>4. bids' = b
  OBVIOUS
<1> HIDE DEF n, b
<1>5. n = 3 => ~ (Cardinality({k \in 1..3 : b[k].choose}) > 1)
  BY <1>2, <1>3
<1> DEFINE m == Len(b)
<1>6. m = n + 1
  BY <1>1
<1> HIDE DEF m
<1>7. ~(m < 3) /\ m # 3 /\ (m = 4 => n = 3)
  BY <1>1, <1>6
<1> QED
  BY <1>4, <1>5, <1>7, Zenon DEF OrderlyBids, m

LEMMA BidKeepsRound ==
    ASSUME TableInv, RoundInv, op \in Seats, step # None,
           NEW choose \in BOOLEAN, CurLordChoose(choose)
    PROVE  RoundInv'
<1>1. CASE TurnGoesOn(choose)
  <2>1. bids' = WithBid(choose) /\ step' = step /\ plays' = plays
    BY <1>1 DEF TurnGoesOn
  <2>2. CASE step = Play
    <3>1. ~OrderlyBids' /\ Len(bids') # 3
      BY <2>1, <2>2, LateBidIsLate
    <3> QED
      BY <2>1, <3>1, Zenon DEF RoundInv
  <2>3. CASE step # Play
    BY <2>1, <2>3 DEF RoundInv, TableInv
  <2> QED
    BY <2>2, <2>3
<1>2. CASE LordFound(choose)
  <2>1. /\ bids' = WithBid(choose) /\ plays' = plays
        /\ (Len(bids) = 2 /\ Cardinality(Callers(bids')) = 1) \/ Len(bids) > 2
    BY <1>2 DEF LordFound, FinishLord
  <2>2. CASE step = Play
    <3>1. ~OrderlyBids' /\ Len(bids') # 3
      BY <2>1, <2>2, LateBidIsLate
    <3> QED
      BY <2>1, <3>1, Zenon DEF RoundInv
  <2>3. CASE step # Play
    <3>1. plays = <<>> /\ Len(bids) \in Nat /\ Len(bids') = Len(bids) + 1
      BY <2>1, <2>3, WithBidFacts DEF TableInv
    <3>2. Len(bids') = 3 => Cardinality(Callers(bids')) = 1
      <4> DEFINE n == Len(bids)
                 m == Len(bids')
      <4>1. n \in Nat /\ m = n + 1
        BY <3>1
      <4>2. (n = 2 /\ Cardinality(Callers(bids')) = 1) \/ n > 2
        BY <2>1
      <4> HIDE DEF n, m
      <4>3. m = 3 => ~(n > 2)
        BY <4>1
      <4> QED
        BY <4>2, <4>3, Zenon DEF m
    <3> QED
      BY <2>1, <3>1, <3>2 DEF RoundInv
  <2> QED
    BY <2>2, <2>3
<1>3. CASE DealtAgain(choose)
  <2>1. step' = Deal /\ plays' = plays /\ Len(bids) = 2
    BY <1>3 DEF DealtAgain
  <2>2. plays = <<>>
    BY <2>1 DEF TableInv
  <2> QED
    BY <2>1, <2>2 DEF RoundInv, Deal, Play
<1>4. CASE GivenUp
  BY <1>4 DEF GivenUp, StopGame, ClearTable, RoundInv, None, Play
<1> QED
  BY <1>1, <1>2, <1>3, <1>4, BidOutcomes DEF TableInv

LEMMA PlayKeepsRound ==
    ASSUME TableInv, RoundInv, step = Play, NEW n \in Nat, n > 0, NEW bomb \in BOOLEAN,
           PlayCards(n, bomb)
    PROVE  RoundInv'
<1>1. CASE StopGame
  BY <1>1 DEF StopGame, ClearTable, RoundInv, None, Play
<1>2. CASE /\ plays' = Append(plays, [idx |-> op, is_play |-> TRUE])
           /\ op' = NextOf(op) \/ (op' = op /\ op \in undone')
           /\ UNCHANGED <<step, bids>>
  <2> DEFINE q == plays'
             m == Len(plays)
  <2>1. plays \in Seq(CardPlay) /\ [idx |-> op, is_play |-> TRUE] \in CardPlay
    BY DEF TableInv, TypeOK, CardPlay
  <2>2. Len(q) = m + 1 /\ q[m + 1] = [idx |-> op, is_play |-> TRUE]
    BY <1>2, <2>1, AppendProperties
  <2>3. q[Len(q)].is_play /\ q[Len(q)].idx = op
    BY <2>2
  <2>4. step = Play /\ Len(bids') = 3 => Cardinality(Callers(bids')) = 1
    BY <1>2 DEF RoundInv
  <2> DEFINE last == q[LastAt(q)].idx
  <2>5. /\ q[Len(q)].is_play /\ last = op
        /\ op' = NextOf(last) \/ (op' = last /\ op' \in undone')
    BY <1>2, <2>3 DEF LastAt
  <2>6. OnePassAtMost(q)
    BY <2>5, Zenon DEF OnePassAtMost
  <2> HIDE DEF q
  <2> QED
    BY <1>2, <2>4, <2>5, <2>6, Zenon DEF RoundInv, q
<1>3. \/ StopGame
      \/ /\ plays' = Append(plays, [idx |-> op, is_play |-> TRUE])
         /\ op' = NextOf(op) \/ (op' = op /\ op \in undone')
         /\ UNCHANGED <<step, bids>>
  BY PlayOutcomes
<1> QED
  BY <1>1, <1>2, <1>3

LEMMA PassKeepsRound ==
    ASSUME TableInv, RoundInv, step = Play, PassTurn
    PROVE  RoundInv'
<1> DEFINE m == Len(plays)
           p == Append(plays, [idx |-> op, is_play |-> FALSE])
<1>1. /\ plays \in Seq(CardPlay) /\ HasLast(plays)
      /\ m \in Nat /\ Len(p) = m + 1
      /\ \A k \in 1..m : p[k] = plays[k]
      /\ p[m + 1] = [idx |-> op, is_play |-> FALSE]
      /\ UNCHANGED <<step, bids>>
      /\ (~RoundEnds(p) /\ plays' = p /\ op' = NextOf(op)) \/ plays' = <<>>
  BY PassOutcomes
<1>2. step' = Play /\ Len(bids') = 3 => Cardinality(Callers(bids')) = 1
  BY <1>1 DEF RoundInv
<1>3. CASE plays' = <<>>
  BY <1>2, <1>3 DEF RoundInv
<1>4. CASE ~RoundEnds(p) /\ plays' = p /\ op' = NextOf(op)
  <2>1. m >= 1 /\ plays # <<>>
    <3>1. DOMAIN plays = 1..m
      BY <1>1, LenProperties
    <3>2. PICK k \in DOMAIN plays : plays[k].is_play
      BY <1>1 DEF HasLast
    <3>3. m >= 1
      BY <1>1, <3>1, <3>2
    <3> QED
      BY <3>3, EmptySeq
  <2>2. plays[m].is_play
    <3> SUFFICES ASSUME ~plays[m].is_play
                 PROVE  FALSE
      OBVIOUS
    <3>1. m >= 2
      BY <2>1 DEF RoundInv, OnePassAtMost
    <3>2. ~p[m + 1].is_play /\ ~p[m].is_play
      BY <1>1, <2>1
    <3> HIDE DEF m, p
    <3>3. Len(p) >= 3 /\ Len(p) - 1 = m
      BY <1>1, <3>1
    <3> QED
      BY <1>1, <1>4, <3>2, <3>3 DEF RoundEnds
  <2>3. p[m] = plays[m] /\ ~p[m + 1].is_play
    BY <1>1, <2>1
  <2>4. Len(p) = m + 1 /\ m + 1 >= 2 /\ (m + 1) - 1 = m
    BY <1>1, <2>1
  <2>5. OrderlyBids' => op = NextOf(plays[m].idx) \/ op = plays[m].idx
    BY <1>1, <2>1, <2>2 DEF RoundInv, OrderlyBids, LastAt
  <2> HIDE DEF m, p
  <2>6. OnePassAtMost(p)
    BY <2>2, <2>3, <2>4 DEF OnePassAtMost
  <2> DEFINE last == p[LastAt(p)].idx
  <2>7. /\ ~p[Len(p)].is_play
        /\ OrderlyBids' => op' = NextOf(NextOf(last)) \/ op' = NextOf(last)
    BY <1>4, <2>3, <2>4, <2>5 DEF LastAt
  <2> QED
    BY <1>2, <1>4, <2>6, <2>7, Zenon DEF RoundInv
<1> QED
  BY <1>1, <1>3, <1>4

LEMMA RoundInvInit == Init => RoundInv
  BY DEF Init, RoundInv, None, Play

LEMMA RoundInvStep == TableInv /\ RoundInv /\ [Next]_vars => RoundInv'
<1> SUFFICES ASSUME TableInv, RoundInv, [Next]_vars
             PROVE  RoundInv'
  OBVIOUS
<1>1. ASSUME NEW i \in Seats, UserReady(i)
      PROVE  RoundInv'
  BY <1>1 DEF UserReady, RoundInv, OrderlyBids, None, Deal, Play
<1>2. ASSUME NEW i \in Seats, UserEnter(i) \/ UserLeave(i)
      PROVE  RoundInv'
  BY <1>2 DEF UserEnter, UserLeave, RoundInv, OrderlyBids
<1>3. CASE DealTime
  BY <1>3 DEF DealTime, TableInv, RoundInv, Deal, Lord, Play
<1>4. CASE FirstBidderTime
  BY <1>4 DEF FirstBidderTime, TableInv, RoundInv, Lord, Play
<1>5. CASE UNCHANGED vars
  BY <1>5 DEF vars, RoundInv, OrderlyBids
<1>6. ASSUME step = Play,
             \/ \E n \in Nat \ {0}, bomb \in BOOLEAN : PlayCards(n, bomb)
             \/ PassTurn
      PROVE  RoundInv'
  <2>1. \A n \in Nat \ {0} : n \in Nat /\ n > 0
    OBVIOUS
  <2> QED
    BY <1>6, <2>1, PlayKeepsRound, PassKeepsRound, Zenon
<1> QED
  BY <1>1, <1>2, <1>3, <1>4, <1>5, <1>6, StepKinds, BidKeepsRound, Zenon

-----------------------------------------------------------------------------
(***************************************************************************)
(* What a step may not do.                                                 *)
(***************************************************************************)
LEMMA RoundEndStep ==
    TableInv /\ RoundInv /\ [Next]_vars =>
        [step = Play /\ step' = Play /\ plays # <<>> /\ plays' = <<>>
            => op' = plays[LastPlay(plays)].idx]_vars
<1> SUFFICES ASSUME TableInv, RoundInv, Next,
                    step = Play, step' = Play, plays # <<>>, plays' = <<>>
             PROVE  op' = plays[LastPlay(plays)].idx
  OBVIOUS
<1>1. CASE PassTurn
  <2>1. /\ plays \in Seq(CardPlay) /\ Len(plays) \in Nat
        /\ Append(plays, [idx |-> op, is_play |-> FALSE]) # <<>>
        /\ \/ plays' = Append(plays, [idx |-> op, is_play |-> FALSE])
           \/ ~plays[Len(plays)].is_play /\ op' = plays[Len(plays) - 1].idx
    BY <1>1, PassOutcomes, EmptySeq
  <2>2. LastPlay(plays) = LastAt(plays)
    BY <2>1, LastPlayOfRound DEF RoundInv
  <2> QED
    BY <2>1, <2>2 DEF LastAt
<1>2. ASSUME NEW n \in Nat, n > 0, NEW bomb \in BOOLEAN, PlayCards(n, bomb)
      PROVE  FALSE
  <2>1. StopGame \/ plays' = Append(plays, [idx |-> op, is_play |-> TRUE])
    BY <1>2, PlayOutcomes
  <2>2. plays \in Seq(CardPlay) /\ [idx |-> op, is_play |-> TRUE] \in CardPlay
    BY DEF TableInv, TypeOK, CardPlay
  <2>3. Len(Append(plays, [idx |-> op, is_play |-> TRUE])) # 0
    BY <2>2, AppendProperties, LenProperties
  <2>4. StopGame => step' # Play
    BY DEF StopGame, None, Play
  <2> QED
    BY <2>1, <2>3, <2>4, EmptySeq
<1>3. ASSUME op \in Seats, NEW choose \in BOOLEAN, CurLordChoose(choose)
      PROVE  FALSE
  <2>1. TurnGoesOn(choose) \/ LordFound(choose) \/ DealtAgain(choose) \/ GivenUp
    BY <1>3, BidOutcomes DEF TableInv
  <2>2. plays' = plays \/ step' # Play
    BY <2>1 DEF TurnGoesOn, LordFound, FinishLord, DealtAgain, GivenUp, StopGame, None, Play
  <2> QED
    BY <2>2
<1>4. ASSUME NEW i \in Seats, UserReady(i) \/ UserEnter(i) \/ UserLeave(i)
      PROVE  FALSE
  BY <1>4 DEF UserReady, UserEnter, UserLeave
<1>5. ~DealTime /\ ~FirstBidderTime
  BY DEF DealTime, FirstBidderTime, Deal, Lord, Play
<1>6. \A n \in Nat \ {0} : n \in Nat /\ n > 0
  OBVIOUS
<1> QED
  BY <1>1, <1>2, <1>3, <1>4, <1>5, <1>6, StepKinds, Zenon

\* A step of the game is one of the desk as the room sees it, or none.
LEMMA DeskGameStep ==
    TableInv /\ [Next]_vars => [Abstract!Next]_(Abstract!vars)
<1> SUFFICES ASSUME TableInv, Next
             PROVE  Abstract!Next \/ UNCHANGED <<ready, step # None>>
  BY DEF Abstract!vars, vars
<1>1. ASSUME NEW i \in Seats, UserReady(i)
      PROVE  Abstract!Ready(i)
  BY <1>1 DEF UserReady, Abstract!Ready, None, Deal
<1>2. ASSUME NEW i \in Seats, UserEnter(i) \/ UserLeave(i)
      PROVE  Abstract!Reseat(i)
  BY <1>2 DEF UserEnter, UserLeave, Abstract!Reseat
<1>3. CASE step # None /\ StopGame
  BY <1>3 DEF StopGame, Abstract!Over, Abstract!Next
<1>4. CASE ready' = ready /\ step # None /\ step' # None
  BY <1>4
<1>5. ASSUME op \in Seats, step # None, NEW choose \in BOOLEAN, CurLordChoose(choose)
      PROVE  StopGame \/ (ready' = ready /\ step' # None)
  <2>1. TurnGoesOn(choose) \/ LordFound(choose) \/ DealtAgain(choose) \/ GivenUp
    BY <1>5, BidOutcomes DEF TableInv
  <2> QED
    BY <1>5, <2>1
       DEF TurnGoesOn, LordFound, FinishLord, DealtAgain, GivenUp, None, Deal, Play
<1>6. ASSUME step = Play,
             \/ \E n \in Nat \ {0}, bomb \in BOOLEAN : PlayCards(n, bomb)
             \/ PassTurn
      PROVE  StopGame \/ (ready' = ready /\ step' # None)
  <2>1. \A n \in Nat \ {0} : n \in Nat /\ n > 0
    OBVIOUS
  <2>2. \A n \in Nat \ {0}, bomb \in BOOLEAN :
            PlayCards(n, bomb) => StopGame \/ (ready' = ready /\ step' = step)
    BY <1>6, <2>1, PlayOutcomes
  <2>3. PassTurn => ready' = ready /\ step' = step
    BY DEF PassTurn
  <2> QED
    BY <1>6, <2>2, <2>3 DEF None, Play
<1>7. ASSUME DealTime \/ FirstBidderTime
      PROVE  ready' = ready /\ step # None /\ step' # None
  BY <1>7 DEF DealTime, FirstBidderTime, None, Deal, Lord
<1>8. Play # None
  BY DEF Play, None
<1> QED
  BY <1>1, <1>2, <1>3, <1>4, <1>5, <1>6, <1>7, <1>8, StepKinds, Zenon DEF Abstract!Next

-----------------------------------------------------------------------------
(***************************************************************************)
(* The theorems.                                                           *)
(***************************************************************************)
LEMMA GameInvHolds == Spec => [](TableInv /\ BidInv /\ StakeInv /\ RoundInv)
<1>1. Init => TableInv /\ BidInv /\ StakeInv /\ RoundInv
  BY TableInvInit, BidInvInit, StakeInvInit, RoundInvInit
<1>2. /\ TableInv /\ BidInv /\ StakeInv /\ RoundInv
      /\ [Next]_vars
      => (TableInv /\ BidInv /\ StakeInv /\ RoundInv)'
  BY TableInvStep, BidInvStep, StakeInvStep, RoundInvStep
<1> QED
  BY <1>1, <1>2, PTL DEF Spec

\* Bids go round the table, the fourth is asked of the first caller, and the
\* last caller is the lord (cur_lord_choose, finish_lord), for any number of
\* redeals and of bids out of turn.
THEOREM BiddingIsFair == Spec => []BiddingInv
<1>1. BidInv => BiddingInv
  BY DEF BidInv
<1> QED
  BY <1>1, GameInvHolds, PTL

\* Whoever has the turn during play holds a card and is not asked to beat cards
\* of his own (deal_poker, check_round_end), unless he won and win_by_idx raised.
THEOREM TurnsCanBeTaken == Spec => []TurnsInv
<1>1. TableInv /\ RoundInv => TurnsInv
  <2> SUFFICES ASSUME TableInv, RoundInv
               PROVE  TurnsInv
    OBVIOUS
  <2>1. EmptyHandsWon
    BY DEF TableInv, EmptyHandsWon
  <2>2. OthersToBeat
    BY OthersAreAsked
  <2> QED
    BY <2>1, <2>2 DEF TurnsInv
<1> QED
  BY <1>1, GameInvHolds, PTL

\* multi_num carries nothing from one deal or game to the next
\* (change_cur_step, try_restart_game).
THEOREM StakeIsOfThisDeal == Spec => []StakeStartsFresh
<1>1. StakeInv => StakeStartsFresh
  BY DEF StakeInv
<1> QED
  BY <1>1, GameInvHolds, PTL

\* The one who played last in a round that two passes ended leads the next
\* (check_round_end looks at the last entries of play_poker_list only).
THEOREM RoundsAreWon == Spec => RoundGoesToLastPlayer
  BY RoundEndStep, GameInvHolds, PTL DEF Spec, RoundGoesToLastPlayer

\* The game is a desk as the room sees it: it starts with the third ready seat
\* and its end makes all declare themselves again (start_game, change_cur_step).
THEOREM GameRefinesDesk == Spec => ImplementsDeskGame
<1>1. Init => Abstract!Init
  BY DEF Init, Abstract!Init
<1> QED
  BY <1>1, DeskGameStep, GameInvHolds, PTL DEF Spec, ImplementsDeskGame, Abstract!Spec

-----------------------------------------------------------------------------
(***************************************************************************)
(* Mahjong: loops and sums.                                                *)
(*                                                                         *)
(* check_can_hu is loops in loops.  A loop is a recursive function here,   *)
(* and of each it must be proved that there is one (Loop) and that the one *)
(* that is chosen keeps its values in a set (LoopTyped).                   *)
(***************************************************************************)
\* Induction, for a set.
LEMMA AllNumbers ==
    ASSUME NEW S, 0 \in S, \A n \in Nat : n \in S => n + 1 \in S
    PROVE  \A n \in Nat : n \in S
<1> DEFINE R == {ss \in Nat \X Nat : ss[1] < ss[2]}
<1> DEFINE T == {n \in Nat : n \notin S}
<1> SUFFICES ASSUME T # {} PROVE FALSE
  OBVIOUS
<1>1. IsWellFoundedOn(R, Nat)
  <2>1. R = OpToRel(<, Nat)
    BY Zenon DEF OpToRel
  <2> QED
    BY <2>1, NatLessThanWellFounded, Zenon
<1>2. PICK n \in T : \A k \in T : ~ (<<k, n>> \in R)
  <2>1. T \subseteq Nat
    OBVIOUS
  <2> HIDE DEF R, T
  <2> QED
    BY <1>1, <2>1, WFMin, Zenon
<1>3. n \in Nat /\ n \notin S /\ n # 0
  BY <1>2
<1>4. n - 1 \in Nat /\ n - 1 < n /\ (n - 1) + 1 = n
  BY <1>3
<1>5. n - 1 \in S
  BY <1>2, <1>3, <1>4
<1> QED
  BY <1>3, <1>4, <1>5

\* A loop that counts up to n, and keeps its values in S.
IsLoop(f, n, S, b, g) ==
    /\ f \in [0..n -> S]
    /\ f[0] = b
    /\ \A k \in 1..n : f[k] = g[<<f[k - 1], k>>]

\* There is such a loop whenever each step stays in S.
LEMMA Loop ==
    ASSUME NEW n \in Nat, NEW S, NEW b \in S, NEW g,
           \A s \in S : \A k \in 1..n : g[<<s, k>>] \in S
    PROVE  \E f : IsLoop(f, n, S, b, g)
<1> DEFINE T == {i \in Nat : i <= n => \E f : IsLoop(f, i, S, b, g)}
<1>1. 0 \in T
  <2>1. IsLoop([k \in 0..0 |-> b], 0, S, b, g)
    BY DEF IsLoop
  <2> QED
    BY <2>1
<1>2. ASSUME NEW i \in Nat, i \in T PROVE i + 1 \in T
  <2> SUFFICES ASSUME i + 1 <= n PROVE \E f : IsLoop(f, i + 1, S, b, g)
    BY <1>2
  <2>1. PICK h : IsLoop(h, i, S, b, g)
    BY <1>2
  <2> DEFINE f == [k \in 0..(i + 1) |-> IF k = i + 1 THEN g[<<h[i], i + 1>>] ELSE h[k]]
  <2>2. i + 1 \in 1..n /\ i \in 0..i /\ h[i] \in S
    BY <2>1 DEF IsLoop
  <2>3. g[<<h[i], i + 1>>] \in S
    BY <2>2
  <2>4. f \in [0..(i + 1) -> S]
    BY <2>1, <2>3 DEF IsLoop
  <2>5. f[0] = b
    BY <2>1 DEF IsLoop
  <2>6. ASSUME NEW k \in 1..(i + 1) PROVE f[k] = g[<<f[k - 1], k>>]
    <3>1. k - 1 \in 0..(i + 1) /\ k - 1 # i + 1 /\ f[k - 1] = h[k - 1]
      OBVIOUS
    <3>2. CASE k = i + 1
      <4>1. k - 1 = i
        BY <3>2
      <4> QED
        BY <3>1, <3>2, <4>1
    <3>3. CASE k # i + 1
      <4>1. k \in 1..i /\ f[k] = h[k]
        BY <3>3
      <4> QED
        BY <2>1, <3>1, <4>1 DEF IsLoop
    <3> QED
      BY <3>2, <3>3
  <2> HIDE DEF f
  <2>7. IsLoop(f, i + 1, S, b, g)
    BY <2>4, <2>5, <2>6 DEF IsLoop
  <2> QED
    BY <2>7
<1>3. n \in T
  <2> HIDE DEF T
  <2> QED
    BY <1>1, <1>2, AllNumbers
<1> QED
  BY <1>3

\* There is one such loop only.
LEMMA LoopTyped ==
    ASSUME NEW n \in Nat, NEW S, NEW b \in S, NEW g,
           \A s \in S : \A k \in 1..n : g[<<s, k>>] \in S,
           NEW f, f = [k \in 0..n |-> f[k]], f[0] = b,
           \A k \in 1..n : f[k - 1] \in S => f[k] = g[<<f[k - 1], k>>]
    PROVE  IsLoop(f, n, S, b, g)
<1> DEFINE T == {k \in Nat : k <= n => f[k] \in S}
<1>1. 0 \in T
  OBVIOUS
<1>2. ASSUME NEW k \in Nat, k \in T PROVE k + 1 \in T
  <2> SUFFICES ASSUME k + 1 <= n PROVE f[k + 1] \in S
    OBVIOUS
  <2>1. k + 1 \in 1..n /\ (k + 1) - 1 = k /\ f[k] \in S
    BY <1>2
  <2>2. f[k + 1] = g[<<f[k], k + 1>>]
    BY <2>1
  <2> QED
    BY <2>1, <2>2
<1>3. \A k \in Nat : k \in T
  <2> HIDE DEF T
  <2> QED
    BY <1>1, <1>2, AllNumbers
<1>4. \A k \in 0..n : f[k] \in S
  BY <1>3
<1>5. f \in [0..n -> S]
  BY <1>4
<1>6. \A k \in 1..n : f[k] = g[<<f[k - 1], k>>]
  BY <1>4, SMTT(30)
<1> QED
  BY <1>5, <1>6 DEF IsLoop

\* A function of the numbers up to n is a list of n elements.
LEMMA FunctionIsList ==
    ASSUME NEW n \in Nat, NEW S, NEW f \in [1..n -> S]
    PROVE  f \in Seq(S) /\ Len(f) = n
<1>1. f \in Seq(S)
  BY SeqDef
<1>2. DOMAIN f = 1..Len(f) /\ Len(f) \in Nat
  BY <1>1, LenProperties
<1> QED
  BY <1>1, <1>2

\* What the loop of Total has added up after k numbers.
IsTotal(f, n, s) ==
    /\ f \in [0..n -> Nat]
    /\ f[0] = 0
    /\ \A k \in 1..n : f[k] = f[k - 1] + s[k]

\* Total is what the loop has when it ends.
LEMMA TotalSteps ==
    ASSUME NEW n \in Nat, NEW s \in [1..n -> Nat]
    PROVE  \E f : IsTotal(f, n, s) /\ Total(s) = f[n]
<1>1. Len(s) = n
  BY FunctionIsList
<1> DEFINE g == [p \in Nat \X (1..n) |-> p[1] + s[p[2]]]
<1>2. \A a \in Nat : \A k \in 1..n : g[<<a, k>>] = a + s[k] /\ g[<<a, k>>] \in Nat
  OBVIOUS
<1> HIDE DEF g
<1>3. PICK h : IsLoop(h, n, Nat, 0, g)
  BY <1>2, Loop
<1>4. h = [k \in 0..n |-> IF k = 0 THEN 0 ELSE h[k - 1] + s[k]]
  <2>1. ASSUME NEW k \in 0..n PROVE h[k] = IF k = 0 THEN 0 ELSE h[k - 1] + s[k]
    <3>1. k # 0 => k \in 1..n /\ k - 1 \in 0..n /\ h[k - 1] \in Nat
      BY <1>3 DEF IsLoop
    <3> QED
      BY <1>2, <1>3, <3>1 DEF IsLoop
  <2> QED
    BY <1>3, <2>1 DEF IsLoop
<1> DEFINE f == CHOOSE f : f = [k \in 0..n |-> IF k = 0 THEN 0 ELSE f[k - 1] + s[k]]
<1>5. f = [k \in 0..n |-> IF k = 0 THEN 0 ELSE f[k - 1] + s[k]]
  BY <1>4
<1>6. Total(s) = f[n]
  BY <1>1 DEF Total
<1> HIDE DEF f
<1>7. f[0] = 0 /\ \A k \in 1..n : f[k] = f[k - 1] + s[k]
  BY <1>5
<1>8. \A k \in 1..n : f[k - 1] \in Nat => f[k] = g[<<f[k - 1], k>>]
  BY <1>2, <1>7
<1>9. f = [k \in 0..n |-> f[k]]
  BY <1>5
<1>10. IsLoop(f, n, Nat, 0, g)
  BY <1>2, <1>7, <1>8, <1>9, LoopTyped
<1>11. IsTotal(f, n, s)
  BY <1>7, <1>10 DEF IsLoop, IsTotal
<1> QED
  BY <1>6, <1>11

LEMMA TotalIsNat ==
    ASSUME NEW n \in Nat, NEW s \in [1..n -> Nat]
    PROVE  Total(s) \in Nat
<1>1. PICK f : IsTotal(f, n, s) /\ Total(s) = f[n]
  BY TotalSteps
<1> QED
  BY <1>1 DEF IsTotal

\* Numbers that are sums, one by one, sum up to the sum.
LEMMA TotalOfSums ==
    ASSUME NEW n \in Nat, NEW s \in [1..n -> Nat], NEW t \in [1..n -> Nat],
           NEW u \in [1..n -> Nat], \A k \in 1..n : u[k] = s[k] + t[k]
    PROVE  Total(u) = Total(s) + Total(t)
<1>1. PICK f : IsTotal(f, n, s) /\ Total(s) = f[n]
  BY TotalSteps
<1>2. PICK g : IsTotal(g, n, t) /\ Total(t) = g[n]
  BY TotalSteps
<1>3. PICK h : IsTotal(h, n, u) /\ Total(u) = h[n]
  BY TotalSteps
<1> DEFINE T == {k \in Nat : k <= n => h[k] = f[k] + g[k]}
<1>4. 0 \in T
  BY <1>1, <1>2, <1>3 DEF IsTotal
<1>5. ASSUME NEW k \in Nat, k \in T PROVE k + 1 \in T
  <2> SUFFICES ASSUME k + 1 <= n PROVE h[k + 1] = f[k + 1] + g[k + 1]
    OBVIOUS
  <2>1. k + 1 \in 1..n /\ k \in 0..n /\ (k + 1) - 1 = k
    OBVIOUS
  <2>2. h[k] = f[k] + g[k]
    BY <1>5, <2>1
  <2>3. /\ h[k + 1] = h[k] + u[k + 1] /\ f[k + 1] = f[k] + s[k + 1]
        /\ g[k + 1] = g[k] + t[k + 1]
    BY <1>1, <1>2, <1>3, <2>1 DEF IsTotal
  <2>4. /\ f[k] \in Nat /\ g[k] \in Nat /\ s[k + 1] \in Nat /\ t[k + 1] \in Nat
        /\ u[k + 1] = s[k + 1] + t[k + 1]
    BY <1>1, <1>2, <2>1 DEF IsTotal
  <2> QED
    BY <2>2, <2>3, <2>4, SMTT(30)
<1>6. n \in T
  <2> HIDE DEF T
  <2> QED
    BY <1>4, <1>5, AllNumbers
<1> QED
  BY <1>1, <1>2, <1>3, <1>6

\* One of the numbers and the others.
LEMMA TotalOfOne ==
    ASSUME NEW n \in Nat, NEW s \in [1..n -> Nat], NEW j \in 1..n,
           \A k \in 1..n : k # j => s[k] = 0
    PROVE  Total(s) = s[j]
<1>1. PICK f : IsTotal(f, n, s) /\ Total(s) = f[n]
  BY TotalSteps
<1> DEFINE T == {k \in Nat : k <= n => f[k] = IF k < j THEN 0 ELSE s[j]}
<1>2. 0 \in T
  BY <1>1 DEF IsTotal
<1>3. ASSUME NEW k \in Nat, k \in T PROVE k + 1 \in T
  <2> SUFFICES ASSUME k + 1 <= n PROVE f[k + 1] = IF k + 1 < j THEN 0 ELSE s[j]
    OBVIOUS
  <2>1. k + 1 \in 1..n /\ k \in 0..n /\ (k + 1) - 1 = k
    OBVIOUS
  <2>2. f[k] = IF k < j THEN 0 ELSE s[j]
    BY <1>3, <2>1
  <2>3. f[k + 1] = f[k] + s[k + 1]
    BY <1>1, <2>1 DEF IsTotal
  <2>4. s[k + 1] \in Nat /\ s[j] \in Nat /\ (k + 1 # j => s[k + 1] = 0)
    BY <2>1
  <2> QED
    BY <2>2, <2>3, <2>4
<1>4. n \in T
  <2> HIDE DEF T
  <2> QED
    BY <1>2, <1>3, AllNumbers
<1> QED
  BY <1>1, <1>4

LEMMA TotalOfNothing ==
    ASSUME NEW n \in Nat, NEW s \in [1..n -> Nat], \A k \in 1..n : s[k] = 0
    PROVE  Total(s) = 0
<1>1. PICK f : IsTotal(f, n, s) /\ Total(s) = f[n]
  BY TotalSteps
<1>2. CASE n = 0
  BY <1>1, <1>2 DEF IsTotal
<1>3. CASE n # 0
  <2>1. Total(s) = s[n]
    BY <1>3, TotalOfOne
  <2> QED
    BY <1>3, <2>1
<1> QED
  BY <1>2, <1>3

LEMMA TotalExcept ==
    ASSUME NEW n \in Nat, NEW s \in [1..n -> Nat], NEW j \in 1..n, NEW v \in Nat
    PROVE  Total([s EXCEPT ![j] = v]) + s[j] = Total(s) + v
<1> DEFINE a == [s EXCEPT ![j] = v]
<1> DEFINE b == [k \in 1..n |-> IF k = j THEN s[j] ELSE 0]
<1> DEFINE c == [k \in 1..n |-> IF k = j THEN v ELSE 0]
<1> DEFINE u == [k \in 1..n |-> IF k = j THEN v + s[j] ELSE s[k]]
<1>1. /\ a \in [1..n -> Nat] /\ b \in [1..n -> Nat] /\ c \in [1..n -> Nat]
      /\ u \in [1..n -> Nat]
  OBVIOUS
<1>2. /\ \A k \in 1..n : u[k] = a[k] + b[k]
      /\ \A k \in 1..n : u[k] = s[k] + c[k]
  OBVIOUS
<1>3. /\ b[j] = s[j] /\ \A k \in 1..n : k # j => b[k] = 0
      /\ c[j] = v /\ \A k \in 1..n : k # j => c[k] = 0
  OBVIOUS
<1> HIDE DEF a, b, c, u
<1>4. Total(u) = Total(a) + Total(b)
  BY <1>1, <1>2, TotalOfSums, ZenonT(40)
<1>5. Total(u) = Total(s) + Total(c)
  BY <1>1, <1>2, TotalOfSums, ZenonT(40)
<1>6. Total(b) = s[j] /\ Total(c) = v
  BY <1>1, <1>3, TotalOfOne, ZenonT(40)
<1>7. Total(a) + s[j] = Total(s) + v
  BY <1>4, <1>5, <1>6
<1> QED
  BY <1>7 DEF a

\* A number is not more than all of them; when it is as many, the others are 0.
LEMMA TotalBounds ==
    ASSUME NEW n \in Nat, NEW s \in [1..n -> Nat], NEW j \in 1..n
    PROVE  /\ s[j] <= Total(s)
           /\ s[j] = Total(s) => \A k \in 1..n : k # j => s[k] = 0
<1>1. ASSUME NEW t \in [1..n -> Nat], NEW k \in 1..n
      PROVE  /\ t[k] <= Total(t)
             /\ [t EXCEPT ![k] = 0] \in [1..n -> Nat]
             /\ Total([t EXCEPT ![k] = 0]) = Total(t) - t[k]
  <2>1. [t EXCEPT ![k] = 0] \in [1..n -> Nat] /\ t[k] \in Nat
    OBVIOUS
  <2>2. Total([t EXCEPT ![k] = 0]) \in Nat /\ Total(t) \in Nat
    BY <2>1, TotalIsNat
  <2>3. Total([t EXCEPT ![k] = 0]) + t[k] = Total(t) + 0
    BY TotalExcept, ZenonT(40)
  <2> QED
    BY <2>1, <2>2, <2>3
<1>2. ASSUME s[j] = Total(s), NEW k \in 1..n, k # j PROVE s[k] = 0
  <2> DEFINE t == [s EXCEPT ![j] = 0]
  <2>1. t \in [1..n -> Nat] /\ Total(t) = 0
    <3>1. t \in [1..n -> Nat] /\ Total(t) = Total(s) - s[j]
      BY <1>1
    <3>2. s[j] \in Nat
      OBVIOUS
    <3> HIDE DEF t
    <3> QED
      BY <1>2, <3>1, <3>2
  <2>2. t[k] <= 0
    BY <1>1, <2>1
  <2> QED
    BY <1>2, <2>2
<1> QED
  BY <1>1, <1>2

\* Where the sum is not 0 some number is not.
LEMMA TotalNotZero ==
    ASSUME NEW n \in Nat, NEW s \in [1..n -> Nat], Total(s) # 0
    PROVE  \E j \in 1..n : s[j] > 0
<1>1. ~ \A k \in 1..n : s[k] = 0
  BY TotalOfNothing
<1> QED
  BY <1>1

\* Sums of two lists that are put together.
LEMMA TotalOfConcat ==
    ASSUME NEW s \in Seq(Nat), NEW t \in Seq(Nat)
    PROVE  Total(s \o t) = Total(s) + Total(t)
<1> DEFINE n == Len(s)
<1> DEFINE m == Len(t)
<1> DEFINE u == s \o t
<1>1. n \in Nat /\ m \in Nat /\ s \in [1..n -> Nat] /\ t \in [1..m -> Nat]
  BY LenProperties
<1>2. /\ u \in Seq(Nat) /\ Len(u) = n + m
      /\ \A i \in 1..(n + m) : u[i] = IF i <= n THEN s[i] ELSE t[i - n]
  BY ConcatProperties
<1>3. u \in [1..(n + m) -> Nat] /\ n + m \in Nat
  BY <1>1, <1>2, LenProperties
<1> HIDE DEF n, m, u
<1>4. PICK f : IsTotal(f, n, s) /\ Total(s) = f[n]
  BY <1>1, TotalSteps
<1>5. PICK g : IsTotal(g, m, t) /\ Total(t) = g[m]
  BY <1>1, TotalSteps
<1>6. PICK h : IsTotal(h, n + m, u) /\ Total(u) = h[n + m]
  BY <1>3, TotalSteps
<1> DEFINE T == {k \in Nat : k <= n => h[k] = f[k]}
<1> DEFINE V == {k \in Nat : k <= m => h[n + k] = f[n] + g[k]}
<1>7. n \in T
  <2>1. 0 \in T
    BY <1>4, <1>6 DEF IsTotal
  <2>2. ASSUME NEW k \in Nat, k \in T PROVE k + 1 \in T
    <3> SUFFICES ASSUME k + 1 <= n PROVE h[k + 1] = f[k + 1]
      OBVIOUS
    <3>1. k + 1 \in 1..n /\ k + 1 \in 1..(n + m) /\ (k + 1) - 1 = k
      BY <1>1
    <3>2. h[k + 1] = h[k] + u[k + 1] /\ f[k + 1] = f[k] + s[k + 1]
      BY <1>4, <1>6, <3>1 DEF IsTotal
    <3> QED
      BY <1>1, <1>2, <2>2, <3>1, <3>2
  <2> HIDE DEF T
  <2> QED
    BY <1>1, <2>1, <2>2, AllNumbers
<1>8. m \in V
  <2>1. 0 \in V
    <3>1. g[0] = 0 /\ f[n] \in Nat
      BY <1>1, <1>4, <1>5 DEF IsTotal
    <3> QED
      BY <1>1, <1>7, <3>1
  <2>2. ASSUME NEW k \in Nat, k \in V PROVE k + 1 \in V
    <3> SUFFICES ASSUME k + 1 <= m PROVE h[n + (k + 1)] = f[n] + g[k + 1]
      OBVIOUS
    <3>1. /\ k + 1 \in 1..m /\ n + (k + 1) \in 1..(n + m) /\ (n + (k + 1)) - 1 = n + k
          /\ (k + 1) - 1 = k /\ ~ (n + (k + 1) <= n) /\ (n + (k + 1)) - n = k + 1
          /\ n + k \in 0..(n + m) /\ k \in 0..m
      BY <1>1
    <3>2. h[n + (k + 1)] = h[n + k] + u[n + (k + 1)] /\ g[k + 1] = g[k] + t[k + 1]
      BY <1>5, <1>6, <3>1 DEF IsTotal
    <3>3. u[n + (k + 1)] = t[k + 1] /\ t[k + 1] \in Nat
      BY <1>1, <1>2, <3>1
    <3>4. f[n] \in Nat /\ g[k] \in Nat
      BY <1>1, <1>4, <1>5, <3>1 DEF IsTotal
    <3> QED
      BY <2>2, <3>1, <3>2, <3>3, <3>4
  <2> HIDE DEF V
  <2> QED
    BY <1>1, <2>1, <2>2, AllNumbers
<1> QED
  BY <1>1, <1>4, <1>5, <1>6, <1>8 DEF u

\* Sets of numbers have a least, and a greatest when they are bounded.
LEMMA LowestOf ==
    ASSUME NEW T \in SUBSET Nat, T # {}
    PROVE  Lowest(T) \in T /\ \A m \in T : Lowest(T) <= m
<1> DEFINE S == {n \in Nat : \A m \in 0..n : m \notin T}
<1>1. \E n \in T : \A m \in T : n <= m
  <2> SUFFICES ASSUME \A n \in T : \E m \in T : ~ (n <= m) PROVE FALSE
    OBVIOUS
  <2>1. 0 \in S
    <3> SUFFICES ASSUME 0 \in T PROVE FALSE
      OBVIOUS
    <3>1. PICK m \in T : ~ (0 <= m)
      OBVIOUS
    <3> QED
      BY <3>1
  <2>2. ASSUME NEW n \in Nat, n \in S PROVE n + 1 \in S
    <3>1. n + 1 \notin T
      <4> SUFFICES ASSUME n + 1 \in T PROVE FALSE
        OBVIOUS
      <4>1. PICK m \in T : ~ (n + 1 <= m)
        OBVIOUS
      <4> QED
        BY <2>2, <4>1
    <3>2. \A m \in 0..(n + 1) : m = n + 1 \/ m \in 0..n
      OBVIOUS
    <3> QED
      BY <2>2, <3>1, <3>2
  <2>3. \A n \in Nat : n \in S
    <3> HIDE DEF S
    <3> QED
      BY <2>1, <2>2, AllNumbers
  <2>4. \A n \in Nat : n \notin T
    BY <2>3
  <2> QED
    BY <2>4
<1> QED
  BY <1>1 DEF Lowest

LEMMA HighestOf ==
    ASSUME NEW n \in Nat, NEW T \in SUBSET (0..n), T # {}
    PROVE  Highest(T) \in T /\ \A m \in T : Highest(T) >= m
<1> DEFINE U == {n - m : m \in T}
<1>1. U \in SUBSET Nat /\ U # {}
  <2>1. \A m \in T : n - m \in Nat
    OBVIOUS
  <2> QED
    BY <2>1
<1>2. Lowest(U) \in U /\ \A m \in U : Lowest(U) <= m
  <2> HIDE DEF U
  <2> QED
    BY <1>1, LowestOf
<1>3. PICK h \in T : Lowest(U) = n - h
  BY <1>2
<1>4. \A m \in T : h >= m
  <2>1. ASSUME NEW m \in T PROVE h >= m
    <3>1. n - m \in U /\ m \in Nat /\ h \in Nat
      OBVIOUS
    <3>2. n - h <= n - m
      BY <1>2, <1>3, <3>1
    <3> QED
      BY <3>1, <3>2
  <2> QED
    BY <2>1
<1>5. \E k \in T : \A m \in T : k >= m
  BY <1>4
<1> QED
  BY <1>5 DEF Highest

\* FlattenSeq, whose loop begins with the first list.
LEMMA FlattenTyped ==
    ASSUME NEW S, NEW seqs \in Seq(Seq(S))
    PROVE  FlattenSeq(seqs) \in Seq(S)
<1> DEFINE n == Len(seqs)
<1>1. n \in Nat /\ \A k \in 1..n : seqs[k] \in Seq(S)
  BY LenProperties, ElementOfSeq
<1>2. CASE n = 0
  <2>1. seqs = <<>>
    BY <1>2, EmptySeq
  <2> QED
    BY <1>2, <2>1, EmptySeq DEF FlattenSeq
<1>3. CASE n # 0
  <2> DEFINE g == [p \in Seq(S) \X (1..n) |-> p[1] \o seqs[p[2]]]
  <2>1. \A s \in Seq(S) : \A k \in 1..n : g[<<s, k>>] = s \o seqs[k]
    OBVIOUS
  <2>2. \A s \in Seq(S) : \A k \in 1..n : g[<<s, k>>] \in Seq(S)
    BY <1>1, <2>1, ConcatProperties
  <2>3. <<>> \in Seq(S)
    BY EmptySeq
  <2> HIDE DEF g
  <2>4. PICK h : IsLoop(h, n, Seq(S), <<>>, g)
    BY <1>1, <2>2, <2>3, Loop
  <2> DEFINE d == [k \in 1..n |-> h[k]]
  <2>5. ASSUME NEW k \in 1..n PROVE d[k] = IF k = 1 THEN seqs[k] ELSE d[k - 1] \o seqs[k]
    <3>1. k - 1 \in 0..n /\ d[k] = h[k]
      BY <1>1
    <3>0. h[k - 1] \in Seq(S) /\ h[k] = g[<<h[k - 1], k>>]
      <4> HIDE DEF d, n
      <4> QED
        BY <2>4, <3>1 DEF IsLoop
    <3>2. d[k] = h[k - 1] \o seqs[k]
      BY <2>1, <3>0, <3>1
    <3>3. CASE k = 1
      <4>1. k - 1 = 0 /\ h[k - 1] = <<>> /\ <<>> \o seqs[k] = seqs[k]
        BY <1>1, <2>4, <3>3, ConcatEmptySeq DEF IsLoop
      <4> QED
        BY <3>2, <3>3, <4>1
    <3>4. CASE k # 1
      <4>1. k - 1 \in 1..n /\ d[k - 1] = h[k - 1]
        BY <1>1, <3>4, SMTT(30)
      <4> HIDE DEF d
      <4> QED
        BY <3>2, <3>4, <4>1
    <3> QED
      BY <3>3, <3>4
  <2>6. d = [k \in 1..n |-> IF k = 1 THEN seqs[k] ELSE d[k - 1] \o seqs[k]]
    BY <2>5
  <2> HIDE DEF d
  <2> DEFINE f == CHOOSE f : f = [k \in 1..n |-> IF k = 1 THEN seqs[k] ELSE f[k - 1] \o seqs[k]]
  <2>7. f = [k \in 1..n |-> IF k = 1 THEN seqs[k] ELSE f[k - 1] \o seqs[k]]
    BY <2>6
  <2>8. FlattenSeq(seqs) = f[n]
    BY <1>3 DEF FlattenSeq
  <2> HIDE DEF f
  <2> DEFINE e == [k \in 0..n |-> IF k = 0 THEN <<>> ELSE f[k]]
  <2>9. ASSUME NEW k \in 1..n, e[k - 1] \in Seq(S) PROVE e[k] = g[<<e[k - 1], k>>]
    <3>1. k - 1 \in 0..n /\ e[k] = f[k]
      OBVIOUS
    <3>2. CASE k = 1
      <4>1. e[k - 1] = <<>> /\ f[k] = seqs[k] /\ <<>> \o seqs[k] = seqs[k]
        BY <1>1, <2>7, <3>2, ConcatEmptySeq
      <4> QED
        BY <2>1, <2>3, <3>1, <4>1
    <3>3. CASE k # 1
      <4>1. k - 1 \in 1..n /\ e[k - 1] = f[k - 1]
        BY <1>1, <3>3
      <4>2. f[k] = f[k - 1] \o seqs[k]
        BY <2>7, <3>3
      <4> QED
        BY <2>1, <2>9, <3>1, <4>1, <4>2
    <3> QED
      BY <3>2, <3>3
  <2>10. e = [k \in 0..n |-> e[k]] /\ e[0] = <<>> /\ e[n] = f[n]
    BY <1>1, <1>3
  <2> HIDE DEF e
  <2>11. IsLoop(e, n, Seq(S), <<>>, g)
    BY <1>1, <2>2, <2>3, <2>9, <2>10, LoopTyped
  <2> QED
    BY <1>1, <2>8, <2>10, <2>11 DEF IsLoop
<1> QED
  BY <1>2, <1>3

-----------------------------------------------------------------------------
(***************************************************************************)
(* Mahjong: rows of a colour, and the tiles that are put in and taken out. *)
(***************************************************************************)
\* How many there are of each number of a colour.
Rows == [Places -> Nat]

LEMMA RowFacts ==
    ASSUME NEW r \in Rows
    PROVE  /\ 11 \in Nat /\ r \in [1..11 -> Nat]
           /\ r \in Seq(Nat) /\ r \o <<>> = r
           /\ Total(r) \in Nat
<1>1. 11 \in Nat /\ r \in [1..11 -> Nat]
  BY DEF Rows, Places
<1>2. r \in Seq(Nat)
  BY <1>1, FunctionIsList
<1>3. Total(r) \in Nat
  BY <1>1, TotalIsNat
<1> QED
  BY <1>1, <1>2, <1>3, ConcatEmptySeq

\* What is left of a row and what is missing from it.
LEMMA MinusFacts ==
    ASSUME NEW a \in Rows, NEW b \in Rows
    PROVE  /\ Minus(a, b) \in Rows
           /\ \A j \in Places : Minus(a, b)[j] = IF a[j] > b[j] THEN a[j] - b[j] ELSE 0
           /\ Total(b) + Total(Minus(a, b)) = Total(a) + Total(Minus(b, a))
<1>1. ASSUME NEW c \in Rows, NEW d \in Rows
      PROVE  /\ Minus(c, d) \in Rows
             /\ \A j \in Places : Minus(c, d)[j] = IF c[j] > d[j] THEN c[j] - d[j] ELSE 0
  <2> DEFINE r == [j \in Places |-> IF c[j] > d[j] THEN c[j] - d[j] ELSE 0]
  <2>1. r \in Rows
    BY DEF Rows
  <2>2. Minus(c, d) = r
    <3>1. Minus(c, d) = r \o <<>>
      BY DEF Minus
    <3> HIDE DEF r
    <3> QED
      BY <2>1, <3>1, RowFacts
  <2> QED
    BY <2>1, <2>2
<1> DEFINE m == Minus(a, b)
<1> DEFINE w == Minus(b, a)
<1> DEFINE u == [j \in Places |-> b[j] + m[j]]
<1>2. m \in Rows /\ w \in Rows /\ a \in Rows /\ b \in Rows
  BY <1>1
<1>3. \A j \in Places : m[j] = IF a[j] > b[j] THEN a[j] - b[j] ELSE 0
  BY <1>1
<1>4. \A j \in Places : w[j] = IF b[j] > a[j] THEN b[j] - a[j] ELSE 0
  BY <1>1
<1> HIDE DEF m, w
<1>5. /\ \A j \in Places : u[j] = b[j] + m[j]
      /\ \A j \in Places : u[j] = a[j] + w[j]
      /\ u \in Rows
  <2>1. ASSUME NEW j \in Places
        PROVE  b[j] + m[j] = a[j] + w[j] /\ b[j] + m[j] \in Nat
    <3>1. a[j] \in Nat /\ b[j] \in Nat
      BY DEF Rows
    <3> QED
      BY <1>3, <1>4, <3>1
  <2> QED
    BY <2>1 DEF Rows
<1> HIDE DEF u
<1>6. Total(u) = Total(b) + Total(m)
  BY <1>2, <1>5, TotalOfSums, RowFacts, ZenonT(40) DEF Places
<1>7. Total(u) = Total(a) + Total(w)
  BY <1>2, <1>5, TotalOfSums, RowFacts, ZenonT(40) DEF Places
<1>8. m \in Rows /\ \A j \in Places : m[j] = IF a[j] > b[j] THEN a[j] - b[j] ELSE 0
  BY <1>2, <1>3
<1> QED
  BY <1>6, <1>7, <1>8 DEF m, w

\* The row of a colour.
LEMMA SubPokerIdxFacts ==
    ASSUME NEW T, NEW idx \in [T -> Nat], NEW color \in Colors
    PROVE  /\ SubPokerIdx(idx, color) \in Rows
           /\ \A j \in Places : SubPokerIdx(idx, color)[j] =
                  IF color * 16 + j \in T /\ j \in Numbers(color)
                  THEN idx[color * 16 + j] ELSE 0
<1> DEFINE r == [j \in Places |-> IF color * 16 + j \in DOMAIN idx /\ j \in Numbers(color)
                                  THEN idx[color * 16 + j] ELSE 0]
<1>1. r \in Rows
  BY DEF Rows
<1>2. SubPokerIdx(idx, color) = r
  <2>1. SubPokerIdx(idx, color) = r \o <<>>
    BY DEF SubPokerIdx
  <2> HIDE DEF r
  <2> QED
    BY <1>1, <2>1, RowFacts
<1> QED
  BY <1>1, <1>2

\* More tiles in a row.
LEMMA OneMoreFacts ==
    ASSUME NEW s \in Rows, NEW j \in Places
    PROVE  /\ OneMore(s, j) \in Rows
           /\ Total(OneMore(s, j)) = Total(s) + 1
           /\ \A k \in Places : OneMore(s, j)[k] = s[k] + Same(j, k)
<1> DEFINE t == [s EXCEPT ![j] = s[j] + 1]
<1>1. s[j] \in Nat /\ s[j] + 1 \in Nat
  BY DEF Rows
<1>2. t \in Rows
  BY <1>1 DEF Rows
<1>3. \A k \in Places : t[k] = s[k] + Same(j, k)
  BY <1>1 DEF Rows, Same
<1>4. Total(t) + s[j] = Total(s) + (s[j] + 1)
  <2>1. 11 \in Nat /\ s \in [1..11 -> Nat] /\ j \in 1..11
    BY RowFacts DEF Places
  <2> QED
    BY <1>1, <2>1, TotalExcept
<1>5. t = OneMore(s, j)
  BY DEF OneMore
<1> HIDE DEF t
<1>6. Total(t) \in Nat /\ Total(s) \in Nat
  BY <1>2, RowFacts
<1>7. Total(t) = Total(s) + 1
  BY <1>1, <1>4, <1>6
<1> QED
  BY <1>2, <1>3, <1>5, <1>7

LEMMA ThreeMore ==
    ASSUME NEW r \in Rows, NEW a \in Places, NEW b \in Places, NEW c \in Places
    PROVE  /\ OneMore(OneMore(OneMore(r, a), b), c) \in Rows
           /\ Total(OneMore(OneMore(OneMore(r, a), b), c)) = Total(r) + 3
           /\ \A j \in Places : OneMore(OneMore(OneMore(r, a), b), c)[j] =
                                  r[j] + Same(a, j) + Same(b, j) + Same(c, j)
<1>3. \A x, y \in Places : Same(x, y) \in {0, 1}
  BY DEF Same
<1>4. Total(r) \in Nat /\ \A j \in Places : r[j] \in Nat
  BY RowFacts DEF Rows
<1> DEFINE r1 == OneMore(r, a)
<1> DEFINE r2 == OneMore(r1, b)
<1> DEFINE q == OneMore(r2, c)
<1>5. r1 \in Rows /\ Total(r1) = Total(r) + 1 /\ \A k \in Places : r1[k] = r[k] + Same(a, k)
  BY OneMoreFacts
<1>6. r2 \in Rows /\ Total(r2) = Total(r1) + 1 /\ \A k \in Places : r2[k] = r1[k] + Same(b, k)
  BY <1>5, OneMoreFacts
<1>7. q \in Rows /\ Total(q) = Total(r2) + 1 /\ \A k \in Places : q[k] = r2[k] + Same(c, k)
  BY <1>6, OneMoreFacts
<1> HIDE DEF r1, r2, q
<1>8. Total(q) = Total(r) + 3
  BY <1>4, <1>5, <1>6, <1>7
<1>9. \A k \in Places : q[k] = r[k] + Same(a, k) + Same(b, k) + Same(c, k)
  BY <1>3, <1>4, <1>5, <1>6, <1>7
<1> QED
  BY <1>7, <1>8, <1>9 DEF q, r2, r1

-----------------------------------------------------------------------------
(***************************************************************************)
(* Mahjong: items, and how many copies of a tile a list of them has.       *)
(***************************************************************************)
\* The items of a colour.
Place(v, i, color) == v.cards[i] - color * 16
Triples(color) == {<<color * 16 + p[1], color * 16 + p[2], color * 16 + p[3]>> :
                       p \in Places \X Places \X Places}
SetItems(color) == {Peng(color * 16 + p[1], p[2]) : p \in Places \X (0..3)}
                       \cup {Chi(p[1], p[2]) : p \in (Runs \cap Triples(color)) \X (0..3)}
DuiItems(color) == {Dui(color * 16 + p[1], p[2]) : p \in Places \X (0..1)}

\* The fields of the items.
LEMMA ItemFields ==
    ASSUME NEW c, NEW e, NEW k
    PROVE  /\ Peng(c, k) = [cards |-> <<c, c, c>>, type |-> "peng", kings |-> k]
           /\ Chi(e, k) = [cards |-> e, type |-> "chi", kings |-> k]
           /\ Dui(c, k) = [cards |-> <<c, c>>, type |-> "dui", kings |-> k]
           /\ IsSet(Peng(c, k)) /\ ~ IsDui(Peng(c, k))
           /\ IsDui(Dui(c, k))
           /\ e \in Runs => IsSet(Chi(e, k))
           /\ ~ IsDui(Chi(e, k))
  BY DEF Peng, Chi, Dui, Item, IsSet, IsDui

LEMMA SetItemFacts ==
    ASSUME NEW color \in Colors, NEW v \in SetItems(color)
    PROVE  /\ v.type # "dui" /\ v.kings \in 0..3
           /\ \A i \in 1..3 : v.cards[i] \in Nat /\ Place(v, i, color) \in Places
           /\ IsSet(v) /\ ~ IsDui(v)
<1>1. CASE v \in {Peng(color * 16 + p[1], p[2]) : p \in Places \X (0..3)}
  <2>1. PICK p \in Places \X (0..3) : v = Peng(color * 16 + p[1], p[2])
    BY <1>1
  <2>2. /\ p[1] \in Nat /\ p[1] \in Places /\ p[2] \in 0..3
        /\ color * 16 \in Nat /\ (color * 16 + p[1]) - color * 16 = p[1]
    BY DEF Places, Colors
  <2>3. v.cards = <<color * 16 + p[1], color * 16 + p[1], color * 16 + p[1]>>
    BY <2>1, ItemFields
  <2>4. v.type = "peng" /\ v.kings = p[2]
    BY <2>1, ItemFields
  <2>5. IsSet(v) /\ ~ IsDui(v)
    BY <2>1, ItemFields
  <2>6. \A i \in 1..3 : v.cards[i] = color * 16 + p[1]
    BY <2>3
  <2> QED
    BY <2>2, <2>4, <2>5, <2>6 DEF Place
<1>2. CASE v \in {Chi(p[1], p[2]) : p \in (Runs \cap Triples(color)) \X (0..3)}
  <2>1. PICK p \in (Runs \cap Triples(color)) \X (0..3) : v = Chi(p[1], p[2])
    BY <1>2
  <2>2. p[1] \in Runs /\ p[1] \in Triples(color) /\ p[2] \in 0..3
    OBVIOUS
  <2>3. PICK q \in Places \X Places \X Places :
            p[1] = <<color * 16 + q[1], color * 16 + q[2], color * 16 + q[3]>>
    BY <2>2 DEF Triples
  <2>4. v.cards = p[1] /\ v.type = "chi" /\ v.kings = p[2]
    BY <2>1, ItemFields
  <2>5. IsSet(v) /\ ~ IsDui(v)
    BY <2>1, <2>2, ItemFields
  <2>6. q[1] \in Places /\ q[2] \in Places /\ q[3] \in Places /\ color * 16 \in Nat
    BY DEF Colors
  <2>7. \A x \in Places : x \in Nat /\ (color * 16 + x) - color * 16 = x
    BY <2>6 DEF Places
  <2>8. ASSUME NEW i \in 1..3
        PROVE  v.cards[i] \in Nat /\ Place(v, i, color) \in Places
    <3>1. i = 1 \/ i = 2 \/ i = 3
      OBVIOUS
    <3>2. \E x \in Places : v.cards[i] = color * 16 + x
      BY <2>3, <2>4, <2>6, <3>1
    <3> QED
      BY <2>6, <2>7, <3>2 DEF Place
  <2> QED
    BY <2>2, <2>4, <2>5, <2>8
<1> QED
  BY <1>1, <1>2 DEF SetItems

LEMMA DuiItemFacts ==
    ASSUME NEW color \in Colors, NEW v \in DuiItems(color)
    PROVE  /\ v.type = "dui" /\ v.kings \in 0..1
           /\ v.cards[1] \in Nat /\ v.cards[2] = v.cards[1]
           /\ IsDui(v)
<1>1. PICK p \in Places \X (0..1) : v = Dui(color * 16 + p[1], p[2])
  BY DEF DuiItems
<1>2. p[1] \in Nat /\ p[2] \in 0..1 /\ color * 16 \in Nat
  BY DEF Places, Colors
<1>3. v.cards = <<color * 16 + p[1], color * 16 + p[1]>> /\ v.type = "dui" /\ v.kings = p[2]
  BY <1>1, ItemFields
<1>4. IsDui(v)
  BY <1>1, ItemFields
<1> QED
  BY <1>2, <1>3, <1>4

\* The runs of a colour.
LEMMA EatsTyped ==
    ASSUME NEW color \in Colors, NEW j \in Numbers(color)
    PROVE  CheckCanEat(color, j) \in Seq(Runs \cap Triples(color))
<1> DEFINE c == color * 16 + j
<1> DEFINE eats == CheckCanEat(color, j)
<1>1. j \in 1..9 /\ (color = 3 => j \in 1..4) /\ color \in 0..4
  BY DEF Numbers, PokerNum, Colors
<1>2. ASSUME NEW a \in 1..2, NEW b \in 2..3, b = 2 \/ color = 3
      PROVE  <<c, c + a, c + b>> \in Triples(color)
  <2> DEFINE p == <<j, j + a, j + b>>
  <2>1. p \in Places \X Places \X Places
    <3>1. j \in 1..11 /\ j + a \in 1..11 /\ j + b \in 1..11
      BY <1>1, <1>2
    <3> QED
      BY <3>1 DEF Places
  <2>2. <<c, c + a, c + b>> = <<color * 16 + p[1], color * 16 + p[2], color * 16 + p[3]>>
    BY <1>1
  <2> HIDE DEF p, c
  <2> QED
    BY <2>1, <2>2 DEF Triples
<1>3. eats \in Seq(Triples(color))
  <2> HIDE DEF c
  <2>1. <<c, c + 1, c + 2>> \in Triples(color)
    BY <1>2
  <2>2. color = 3 => <<c, c + 1, c + 3>> \in Triples(color) /\ <<c, c + 2, c + 3>> \in Triples(color)
    BY <1>2
  <2>3. \/ eats = <<>>
        \/ eats = << <<c, c + 1, c + 2>> >>
        \/ color = 3 /\ eats = << <<c, c + 1, c + 2>>, <<c, c + 1, c + 3>>, <<c, c + 2, c + 3>> >>
    BY DEF CheckCanEat, c
  <2> HIDE DEF eats
  <2>4. \A x, y, z \in Triples(color) :
            <<>> \in Seq(Triples(color)) /\ <<x>> \in Seq(Triples(color)) /\ <<x, y, z>> \in Seq(Triples(color))
    OBVIOUS
  <2> QED
    BY <2>1, <2>2, <2>3, <2>4
<1>4. DOMAIN eats = 1..Len(eats) /\ Len(eats) \in Nat
  BY <1>3, LenProperties
<1>5. \A i \in 1..Len(eats) : eats[i] \in Runs /\ eats[i] \in Triples(color)
  <2>1. \A i \in 1..Len(eats) : eats[i] \in ToSet(eats)
    BY <1>4 DEF ToSet
  <2>2. ToSet(eats) \subseteq Runs
    BY <1>1 DEF Runs
  <2> HIDE DEF eats
  <2> QED
    BY <1>3, <2>1, <2>2, ElementOfSeq
<1> HIDE DEF eats
<1>6. eats = [i \in 1..Len(eats) |-> eats[i]]
  BY <1>3, LenProperties
<1>7. eats \in [1..Len(eats) -> Runs \cap Triples(color)]
  BY <1>5, <1>6
<1>8. eats \in Seq(Runs \cap Triples(color))
  BY <1>4, <1>7, FunctionIsList
<1> QED
  BY <1>8 DEF eats

\* Copies of a tile in a list of items.
LEMMA InItemIsNat ==
    ASSUME NEW c, NEW v
    PROVE  InItem(c, v) \in Nat
  BY DEF InItem, Same

CopiesOfEach(c, items) == [k \in DOMAIN items |-> InItem(c, items[k])]

LEMMA CopiesFacts ==
    ASSUME NEW S, NEW items \in Seq(S), NEW c
    PROVE  /\ Len(items) \in Nat
           /\ CopiesOfEach(c, items) \in [1..Len(items) -> Nat]
           /\ Copies(c, items) = Total(CopiesOfEach(c, items))
           /\ Copies(c, items) \in Nat
<1>1. DOMAIN items = 1..Len(items) /\ Len(items) \in Nat
  BY LenProperties
<1>2. CopiesOfEach(c, items) \in [1..Len(items) -> Nat]
  BY <1>1, InItemIsNat DEF CopiesOfEach
<1>3. Copies(c, items) = Total(CopiesOfEach(c, items))
  BY DEF Copies, CopiesOfEach
<1>4. Total(CopiesOfEach(c, items)) \in Nat
  BY <1>1, <1>2, TotalIsNat
<1> QED
  BY <1>1, <1>2, <1>3, <1>4

\* Copies in two lists that are put together.
LEMMA CopiesOfConcat ==
    ASSUME NEW S, NEW a \in Seq(S), NEW b \in Seq(S), NEW c
    PROVE  Copies(c, a \o b) = Copies(c, a) + Copies(c, b)
<1> DEFINE x == CopiesOfEach(c, a)
<1> DEFINE y == CopiesOfEach(c, b)
<1> DEFINE z == CopiesOfEach(c, a \o b)
<1>1. /\ a \o b \in Seq(S) /\ Len(a \o b) = Len(a) + Len(b)
      /\ \A i \in 1..(Len(a) + Len(b)) :
            (a \o b)[i] = IF i <= Len(a) THEN a[i] ELSE b[i - Len(a)]
  BY ConcatProperties
<1>2. /\ Len(a) \in Nat /\ DOMAIN a = 1..Len(a)
      /\ Len(b) \in Nat /\ DOMAIN b = 1..Len(b)
      /\ DOMAIN (a \o b) = 1..(Len(a) + Len(b))
  BY <1>1, LenProperties
<1>3. /\ x \in [1..Len(a) -> Nat] /\ y \in [1..Len(b) -> Nat]
      /\ z \in [1..(Len(a) + Len(b)) -> Nat]
  BY <1>1, CopiesFacts
<1>4. /\ x \in Seq(Nat) /\ Len(x) = Len(a) /\ y \in Seq(Nat) /\ Len(y) = Len(b)
      /\ z \in Seq(Nat) /\ Len(z) = Len(a) + Len(b)
  <2> HIDE DEF x, y, z
  <2>1. Len(a) + Len(b) \in Nat
    BY <1>2
  <2> QED
    BY <1>2, <1>3, <2>1, FunctionIsList
<1>5. ASSUME NEW i \in 1..(Len(a) + Len(b))
      PROVE  z[i] = IF i <= Len(a) THEN x[i] ELSE y[i - Len(a)]
  <2>1. i <= Len(a) => i \in 1..Len(a)
    BY <1>2
  <2>2. ~ (i <= Len(a)) => i - Len(a) \in 1..Len(b)
    BY <1>2
  <2> QED
    BY <1>1, <1>2, <2>1, <2>2 DEF CopiesOfEach
<1> HIDE DEF x, y, z
<1>6. /\ x \o y \in Seq(Nat) /\ Len(x \o y) = Len(x) + Len(y)
      /\ \A i \in 1..(Len(x) + Len(y)) :
            (x \o y)[i] = IF i <= Len(x) THEN x[i] ELSE y[i - Len(x)]
  <2>1. x \in Seq(Nat) /\ y \in Seq(Nat)
    BY <1>4
  <2> QED
    BY <2>1, ConcatProperties
<1>7. z = x \o y
  BY <1>4, <1>5, <1>6, SeqEqual
<1>8. Total(z) = Total(x) + Total(y)
  BY <1>4, <1>7, TotalOfConcat
<1> QED
  BY <1>1, <1>8, CopiesFacts DEF x, y, z

LEMMA CopiesOfOne ==
    ASSUME NEW v, NEW c
    PROVE  Copies(c, <<v>>) = InItem(c, v)
<1> DEFINE x == CopiesOfEach(c, <<v>>)
<1>1. <<v>> \in Seq({v}) /\ Len(<<v>>) = 1
  OBVIOUS
<1>2. x \in [1..1 -> Nat] /\ Copies(c, <<v>>) = Total(x)
  BY <1>1, CopiesFacts
<1>3. x[1] = InItem(c, v)
  BY DEF CopiesOfEach
<1> HIDE DEF x
<1>4. Total(x) = x[1]
  <2>1. 1 \in Nat /\ 1 \in 1..1 /\ \A k \in 1..1 : k # 1 => x[k] = 0
    OBVIOUS
  <2> QED
    BY <1>2, <2>1, TotalOfOne
<1> QED
  BY <1>2, <1>3, <1>4

LEMMA CopiesOfNone == \A c : Copies(c, <<>>) = 0
<1> SUFFICES ASSUME NEW c PROVE Copies(c, <<>>) = 0
  OBVIOUS
<1> DEFINE x == CopiesOfEach(c, <<>>)
<1>1. <<>> \in Seq({}) /\ Len(<<>>) = 0
  BY EmptySeq
<1>2. x \in [1..0 -> Nat] /\ Copies(c, <<>>) = Total(x)
  BY <1>1, CopiesFacts
<1> HIDE DEF x
<1>3. Total(x) = 0
  <2>1. 0 \in Nat /\ \A k \in 1..0 : x[k] = 0
    OBVIOUS
  <2> QED
    BY <1>2, <2>1, TotalOfNothing
<1> QED
  BY <1>2, <1>3

\* The tiles of a list of sets, and how many there are.
LEMMA PokersOfItems ==
    ASSUME NEW color \in Colors, NEW items \in Seq(SetItems(color))
    PROVE  /\ CalcHuPokers(items, color) \in Rows
           /\ Total(CalcHuPokers(items, color)) = 3 * Len(items)
           /\ \A j \in Places : CalcHuPokers(items, color)[j] = Copies(color * 16 + j, items)
<1> DEFINE n == Len(items)
<1> DEFINE zero == [j \in Places |-> 0]
<1> DEFINE Next3(r, k) == OneMore(OneMore(OneMore(r, Place(items[k], 1, color)),
                                          Place(items[k], 2, color)),
                                  Place(items[k], 3, color))
<1> DEFINE g == [p \in Rows \X (1..n) |-> Next3(p[1], p[2])]
<1>1. n \in Nat /\ \A k \in 1..n : items[k] \in SetItems(color)
  BY LenProperties, ElementOfSeq
<1>2. ASSUME NEW k \in 1..n
      PROVE  /\ Place(items[k], 1, color) \in Places /\ Place(items[k], 2, color) \in Places
             /\ Place(items[k], 3, color) \in Places
             /\ items[k].type # "dui"
             /\ \A i \in 1..3 : items[k].cards[i] \in Nat
  BY <1>1, SetItemFacts
<1>3. zero \in Rows
  BY DEF Rows
<1>4. \A r \in Rows : \A k \in 1..n : g[<<r, k>>] = Next3(r, k)
  OBVIOUS
<1>5. \A r \in Rows : \A k \in 1..n :
         /\ Next3(r, k) \in Rows
         /\ Total(Next3(r, k)) = Total(r) + 3
         /\ \A j \in Places : Next3(r, k)[j] = r[j] + Same(Place(items[k], 1, color), j)
                                                  + Same(Place(items[k], 2, color), j)
                                                  + Same(Place(items[k], 3, color), j)
  <2> SUFFICES ASSUME NEW r \in Rows, NEW k \in 1..n
               PROVE  /\ Next3(r, k) \in Rows
                      /\ Total(Next3(r, k)) = Total(r) + 3
                      /\ \A j \in Places : Next3(r, k)[j] = r[j] + Same(Place(items[k], 1, color), j)
                                                  + Same(Place(items[k], 2, color), j)
                                                  + Same(Place(items[k], 3, color), j)
    BY Zenon
  <2> DEFINE q == Next3(r, k)
  <2>1. q = OneMore(OneMore(OneMore(r, Place(items[k], 1, color)), Place(items[k], 2, color)),
                    Place(items[k], 3, color))
    OBVIOUS
  <2> HIDE DEF q
  <2>2. /\ q \in Rows /\ Total(q) = Total(r) + 3
        /\ \A j \in Places : q[j] = r[j] + Same(Place(items[k], 1, color), j)
                                     + Same(Place(items[k], 2, color), j)
                                     + Same(Place(items[k], 3, color), j)
    <3>1. PICK a \in Places, b \in Places, c \in Places :
              /\ a = Place(items[k], 1, color) /\ b = Place(items[k], 2, color)
              /\ c = Place(items[k], 3, color)
      BY <1>2
    <3>2. q = OneMore(OneMore(OneMore(r, a), b), c)
      BY <2>1, <3>1
    <3>3. /\ OneMore(OneMore(OneMore(r, a), b), c) \in Rows
          /\ Total(OneMore(OneMore(OneMore(r, a), b), c)) = Total(r) + 3
          /\ \A j \in Places : OneMore(OneMore(OneMore(r, a), b), c)[j] =
                                 r[j] + Same(a, j) + Same(b, j) + Same(c, j)
      BY ThreeMore
    <3>4. /\ q \in Rows /\ Total(q) = Total(r) + 3
          /\ \A j \in Places : q[j] = r[j] + Same(a, j) + Same(b, j) + Same(c, j)
      BY <3>2, <3>3
    <3> QED
      BY <3>1, <3>4
  <2> QED
    BY <2>2 DEF q
<1> HIDE DEF g, zero
<1>6. \A r \in Rows : \A k \in 1..n : g[<<r, k>>] \in Rows
  BY <1>4, <1>5
<1>7. PICK h : IsLoop(h, n, Rows, zero, g)
  <2> HIDE DEF n, Next3
  <2> QED
    BY <1>1, <1>3, <1>6, Loop
<1>8. h = [k \in 0..n |-> IF k = 0 THEN zero ELSE Next3(h[k - 1], k)]
  <2> HIDE DEF Next3, n
  <2>1. ASSUME NEW k \in 0..n PROVE h[k] = IF k = 0 THEN zero ELSE Next3(h[k - 1], k)
    <3>1. k # 0 => k \in 1..n /\ k - 1 \in 0..n
      BY <1>1
    <3>2. k # 0 => h[k - 1] \in Rows /\ h[k] = g[<<h[k - 1], k>>]
      BY <1>7, <3>1 DEF IsLoop
    <3>3. h[0] = zero
      BY <1>7 DEF IsLoop
    <3> QED
      BY <1>4, <3>1, <3>2, <3>3
  <2> QED
    BY <1>7, <2>1 DEF IsLoop
<1> DEFINE f == CHOOSE f : f = [k \in 0..n |-> IF k = 0 THEN zero ELSE Next3(f[k - 1], k)]
<1>9. f = [k \in 0..n |-> IF k = 0 THEN zero ELSE Next3(f[k - 1], k)]
  <2> HIDE DEF Next3, n
  <2> QED
    BY <1>8
<1>10. CalcHuPokers(items, color) = f[n]
  BY DEF CalcHuPokers, Place, zero
<1> HIDE DEF f
<1>11. IsLoop(f, n, Rows, zero, g)
  <2> HIDE DEF Next3, n
  <2>1. f[0] = zero /\ \A k \in 1..n : f[k] = Next3(f[k - 1], k)
    BY <1>1, <1>9
  <2>2. f = [k \in 0..n |-> f[k]]
    BY <1>9
  <2>3. \A k \in 1..n : f[k - 1] \in Rows => f[k] = g[<<f[k - 1], k>>]
    BY <1>4, <2>1
  <2> QED
    BY <1>1, <1>3, <1>6, <2>1, <2>2, <2>3, LoopTyped
<1>12. /\ f[n] \in Rows /\ f[0] = zero
       /\ \A k \in 1..n : f[k - 1] \in Rows /\ f[k] = Next3(f[k - 1], k)
  <2> HIDE DEF Next3, n
  <2>1. f \in [0..n -> Rows] /\ f[0] = zero /\ \A k \in 1..n : f[k] = g[<<f[k - 1], k>>]
    BY <1>11 DEF IsLoop
  <2>2. n \in 0..n /\ \A k \in 1..n : k - 1 \in 0..n
    BY <1>1
  <2>3. f[n] \in Rows /\ \A k \in 1..n : f[k - 1] \in Rows
    BY <2>1, <2>2
  <2>4. \A k \in 1..n : f[k] = Next3(f[k - 1], k)
    BY <1>4, <2>1, <2>3
  <2> QED
    BY <2>1, <2>3, <2>4
<1>13. Total(f[n]) = 3 * n
  <2> HIDE DEF Next3, n
  <2> DEFINE T == {k \in Nat : k <= n => Total(f[k]) = 3 * k}
  <2>1. 0 \in T
    <3>1. zero \in [1..11 -> Nat] /\ \A j \in 1..11 : zero[j] = 0
      BY <1>3 DEF Rows, Places, zero
    <3>2. Total(zero) = 0
      BY <3>1, TotalOfNothing
    <3> QED
      BY <1>12, <3>2
  <2>2. ASSUME NEW k \in Nat, k \in T PROVE k + 1 \in T
    <3> SUFFICES ASSUME k + 1 <= n PROVE Total(f[k + 1]) = 3 * (k + 1)
      OBVIOUS
    <3>1. k + 1 \in 1..n /\ (k + 1) - 1 = k /\ Total(f[k]) = 3 * k
      BY <1>1, <2>2
    <3>2. f[k] \in Rows /\ f[k + 1] = Next3(f[k], k + 1)
      BY <1>12, <3>1
    <3>3. Total(f[k + 1]) = Total(f[k]) + 3
      BY <1>5, <3>1, <3>2
    <3> QED
      BY <3>1, <3>3
  <2> HIDE DEF T
  <2>3. n \in T
    BY <1>1, <2>1, <2>2, AllNumbers
  <2> QED
    BY <2>3 DEF T
<1>14. ASSUME NEW j \in Places PROVE f[n][j] = Copies(color * 16 + j, items)
  <2> DEFINE x == CopiesOfEach(color * 16 + j, items)
  <2>1. x \in [1..n -> Nat] /\ Copies(color * 16 + j, items) = Total(x)
    BY CopiesFacts
  <2>2. ASSUME NEW k \in 1..n
        PROVE  x[k] = Same(Place(items[k], 1, color), j) + Same(Place(items[k], 2, color), j)
                          + Same(Place(items[k], 3, color), j)
    <3>1. \A i \in 1..3 : Same(items[k].cards[i], color * 16 + j) = Same(Place(items[k], i, color), j)
      <4>1. j \in Nat /\ color * 16 \in Nat
        BY DEF Places, Colors
      <4>2. ASSUME NEW c \in Nat PROVE c = color * 16 + j <=> c - color * 16 = j
        BY <4>1
      <4> QED
        BY <1>2, <4>2 DEF Same, Place
    <3>2. x[k] = InItem(color * 16 + j, items[k])
      BY LenProperties DEF CopiesOfEach
    <3> QED
      BY <1>2, <3>1, <3>2 DEF InItem
  <2> HIDE DEF x, Next3, n
  <2>3. PICK t : IsTotal(t, n, x) /\ Total(x) = t[n]
    BY <1>1, <2>1, TotalSteps
  <2> DEFINE T == {k \in Nat : k <= n => f[k][j] = t[k]}
  <2>4. 0 \in T
    BY <1>12, <2>3 DEF IsTotal, zero
  <2>5. ASSUME NEW k \in Nat, k \in T PROVE k + 1 \in T
    <3> SUFFICES ASSUME k + 1 <= n PROVE f[k + 1][j] = t[k + 1]
      OBVIOUS
    <3>1. k + 1 \in 1..n /\ (k + 1) - 1 = k /\ f[k][j] = t[k] /\ k \in 0..n
      BY <1>1, <2>5
    <3>2. f[k] \in Rows /\ f[k + 1] = Next3(f[k], k + 1)
      BY <1>12, <3>1
    <3>3. t[k + 1] = t[k] + x[k + 1] /\ t[k] \in Nat
      BY <2>3, <3>1 DEF IsTotal
    <3>4. f[k + 1][j] = f[k][j] + Same(Place(items[k + 1], 1, color), j)
                           + Same(Place(items[k + 1], 2, color), j)
                           + Same(Place(items[k + 1], 3, color), j)
      BY <1>5, <3>1, <3>2
    <3>5. \A y, z : Same(y, z) \in Nat
      BY DEF Same
    <3> QED
      BY <2>2, <3>1, <3>3, <3>4, <3>5
  <2> HIDE DEF T
  <2>6. n \in T
    BY <1>1, <2>4, <2>5, AllNumbers
  <2>7. f[n][j] = t[n]
    BY <1>1, <2>6 DEF T
  <2> QED
    BY <2>1, <2>3, <2>7
<1> QED
  BY <1>10, <1>12, <1>13, <1>14

-----------------------------------------------------------------------------
(***************************************************************************)
(* Mahjong: the items that lists are chosen from, and the lists.           *)
(***************************************************************************)
\* The places of a colour.
LEMMA NumbersOfColor ==
    ASSUME NEW color \in Colors
    PROVE  /\ PokerNum(color) - 1 \in Nat /\ Numbers(color) = 1..(PokerNum(color) - 1)
           /\ Numbers(color) \subseteq Places
  BY DEF Colors, PokerNum, Numbers, Places

LEMMA PengInItems ==
    ASSUME NEW color \in Colors, NEW j \in Places, NEW k \in 0..3
    PROVE  Peng(color * 16 + j, k) \in SetItems(color)
<1> DEFINE p == <<j, k>>
<1>1. p \in Places \X (0..3) /\ Peng(color * 16 + j, k) = Peng(color * 16 + p[1], p[2])
  OBVIOUS
<1> QED
  BY <1>1 DEF SetItems

LEMMA ChiInItems ==
    ASSUME NEW color \in Colors, NEW e \in Runs \cap Triples(color), NEW k \in 0..3
    PROVE  Chi(e, k) \in SetItems(color)
<1> DEFINE p == <<e, k>>
<1>1. p \in (Runs \cap Triples(color)) \X (0..3) /\ Chi(e, k) = Chi(p[1], p[2])
  OBVIOUS
<1> QED
  BY <1>1 DEF SetItems

LEMMA EatPlaces ==
    ASSUME NEW color \in Colors, NEW e \in Triples(color), NEW i \in 1..3
    PROVE  e[i] - color * 16 \in Places
<1>1. PICK q \in Places \X Places \X Places :
          e = <<color * 16 + q[1], color * 16 + q[2], color * 16 + q[3]>>
  BY DEF Triples
<1>2. q[1] \in Places /\ q[2] \in Places /\ q[3] \in Places /\ color * 16 \in Nat
  BY DEF Colors
<1>3. \A x \in Places : (color * 16 + x) - color * 16 = x
  BY <1>2 DEF Places
<1>4. i = 1 \/ i = 2 \/ i = 3
  OBVIOUS
<1>5. \E x \in Places : e[i] = color * 16 + x
  BY <1>1, <1>2, <1>4
<1> QED
  BY <1>3, <1>5

\* The items without kings.
LEMMA KindItemsTyped ==
    ASSUME NEW color \in Colors, NEW idx \in Rows
    PROVE  KindItems(idx, color) \in Seq(SetItems(color))
<1> DEFINE S == SetItems(color)
<1>1. ASSUME NEW j \in Numbers(color) PROVE NaturalItems(idx, color, j) \in Seq(S)
  <2> DEFINE c == color * 16 + j
  <2> DEFINE eats == CheckCanEat(color, j)
  <2> DEFINE copies(eat) == Lowest({idx[eat[k] - color * 16] : k \in 1..3})
  <2> DEFINE first == IF idx[j] >= 3 THEN <<Peng(c, 0)>> ELSE <<>>
  <2> DEFINE lists == [e \in DOMAIN eats |-> [n \in 1..copies(eats[e]) |-> Chi(eats[e], 0)]]
  <2>1. eats \in Seq(Runs \cap Triples(color))
    BY EatsTyped
  <2>2. DOMAIN eats = 1..Len(eats) /\ Len(eats) \in Nat
    BY <2>1, LenProperties
  <2>3. ASSUME NEW e \in 1..Len(eats) PROVE lists[e] \in Seq(S)
    <3> DEFINE n == copies(eats[e])
    <3>1. eats[e] \in Runs \cap Triples(color)
      BY <2>1, ElementOfSeq
    <3>2. n \in Nat
      <4> DEFINE T == {idx[eats[e][k] - color * 16] : k \in 1..3}
      <4>1. \A k \in 1..3 : idx[eats[e][k] - color * 16] \in Nat
        BY <3>1, EatPlaces DEF Rows
      <4>2. T \in SUBSET Nat /\ T # {}
        <5>1. idx[eats[e][1] - color * 16] \in T
          OBVIOUS
        <5> QED
          BY <4>1, <5>1
      <4> HIDE DEF T
      <4>3. Lowest(T) \in Nat
        BY <4>2, LowestOf
      <4> QED
        BY <4>3 DEF T
    <3>3. Chi(eats[e], 0) \in S
      BY <3>1, ChiInItems
    <3> HIDE DEF n, S, eats
    <3>4. [k \in 1..n |-> Chi(eats[e], 0)] \in [1..n -> S]
      BY <3>3
    <3>5. [k \in 1..n |-> Chi(eats[e], 0)] \in Seq(S)
      BY <3>2, <3>4, FunctionIsList
    <3>6. lists[e] = [k \in 1..n |-> Chi(eats[e], 0)]
      BY <2>2 DEF n
    <3> QED
      BY <3>5, <3>6
  <2>4. first \in Seq(S)
    <3>1. j \in Places
      BY NumbersOfColor
    <3>2. Peng(c, 0) \in S
      BY <3>1, PengInItems
    <3> HIDE DEF S, c
    <3> QED
      BY <3>2
  <2>5. lists \in Seq(Seq(S))
    <3>1. lists = [e \in 1..Len(eats) |-> lists[e]]
      BY <2>2
    <3> HIDE DEF lists, eats, S
    <3>2. lists \in [1..Len(eats) -> Seq(S)]
      BY <2>3, <3>1
    <3> QED
      BY <2>2, <3>2, FunctionIsList
  <2>6. NaturalItems(idx, color, j) = first \o FlattenSeq(lists)
    BY DEF NaturalItems
  <2> HIDE DEF first, lists, S
  <2>7. FlattenSeq(lists) \in Seq(S)
    BY <2>5, FlattenTyped
  <2> QED
    BY <2>4, <2>6, <2>7, ConcatProperties
<1>2. CASE Total(idx) < 3
  BY <1>2, EmptySeq DEF KindItems
<1>3. CASE ~ (Total(idx) < 3)
  <2> DEFINE lists == [j \in Numbers(color) |-> NaturalItems(idx, color, j)]
  <2>1. lists \in Seq(Seq(S))
    <3> HIDE DEF S
    <3>1. lists \in [1..(PokerNum(color) - 1) -> Seq(S)]
      BY <1>1, NumbersOfColor
    <3> HIDE DEF lists
    <3> QED
      BY <3>1, NumbersOfColor, FunctionIsList
  <2>2. KindItems(idx, color) = FlattenSeq(lists)
    BY <1>3 DEF KindItems
  <2> HIDE DEF lists, S
  <2>3. FlattenSeq(lists) \in Seq(S)
    BY <2>1, FlattenTyped
  <2> QED
    BY <2>2, <2>3 DEF S
<1> QED
  BY <1>2, <1>3

LEMMA AtMostThree ==
    ASSUME NEW T, T \subseteq 1..3
    PROVE  Cardinality(T) \in 0..3
<1>1. PICK z \in Nat : z = 3
  OBVIOUS
<1>2. IsFiniteSet(1..z) /\ Cardinality(1..z) = z
  BY FS_Interval
<1>3. T \subseteq 1..z
  BY <1>1
<1>4. Cardinality(T) \in Nat /\ Cardinality(T) <= z
  BY <1>2, <1>3, FS_Subset, FS_CardinalityType
<1> QED
  BY <1>1, <1>4

LEMMA EatsOfKings ==
    ASSUME NEW color \in Colors, NEW eat \in Runs \cap Triples(color),
           NEW a \in Nat, NEW b \in Nat, NEW c \in Nat, NEW kings \in Nat
    PROVE  Eats(eat, <<a, b, c>>, kings) \in Seq(SetItems(color))
<1> DEFINE counts == <<a, b, c>>
<1> DEFINE missing(n) == Cardinality({k \in 1..3 : counts[k] < n})
<1> DEFINE allowed == {n \in 1..((counts[1] + counts[2] + counts[3] + kings) \div 3) : missing(n) <= 1}
<1> DEFINE m == Cardinality(allowed)
<1>1. m \in Nat
  <2> DEFINE top == (counts[1] + counts[2] + counts[3] + kings) \div 3
  <2>1. top \in Int /\ 1 \in Int
    OBVIOUS
  <2>2. IsFiniteSet(1..top)
    <3> HIDE DEF top
    <3> QED
      BY <2>1, FS_Interval
  <2>3. allowed \subseteq 1..top
    OBVIOUS
  <2> HIDE DEF allowed, top
  <2> QED
    BY <2>2, <2>3, FS_Subset, FS_CardinalityType
<1>2. ASSUME NEW n \in 1..m PROVE missing(n) \in 0..3
  <2> DEFINE T == {k \in 1..3 : counts[k] < n}
  <2>1. T \subseteq 1..3
    OBVIOUS
  <2> HIDE DEF T
  <2>2. Cardinality(T) \in 0..3
    BY <2>1, AtMostThree
  <2> QED
    BY <2>2 DEF T
<1>3. \A n \in 1..m : Chi(eat, missing(n)) \in SetItems(color)
  <2> HIDE DEF missing, m
  <2> QED
    BY <1>2, ChiInItems
<1>4. Eats(eat, <<a, b, c>>, kings) = [n \in 1..m |-> Chi(eat, missing(n))]
  BY DEF Eats
<1> HIDE DEF m, missing
<1>5. [n \in 1..m |-> Chi(eat, missing(n))] \in [1..m -> SetItems(color)]
  BY <1>3
<1> QED
  BY <1>1, <1>4, <1>5, FunctionIsList

\* The items with kings.
LEMMA KingItemsTyped ==
    ASSUME NEW color \in Colors, NEW idx \in Rows, NEW kings \in Nat
    PROVE  KingItemsOf(idx, kings, color) \in Seq(SetItems(color))
<1> DEFINE S == SetItems(color)
<1>1. ASSUME NEW j \in Numbers(color) PROVE KingItems(idx, kings, color, j) \in Seq(S)
  <2> DEFINE c == color * 16 + j
  <2> DEFINE eats == CheckCanEat(color, j)
  <2> DEFINE count(card) == idx[card - color * 16]
  <2> DEFINE first == IF idx[j] \in 1..2 /\ kings >= 3 - idx[j] THEN <<Peng(c, 3 - idx[j])>> ELSE <<>>
  <2> DEFINE lists == [e \in DOMAIN eats |->
                 Eats(eats[e], <<count(eats[e][1]), count(eats[e][2]), count(eats[e][3])>>, kings)]
  <2>1. eats \in Seq(Runs \cap Triples(color))
    BY EatsTyped
  <2>2. DOMAIN eats = 1..Len(eats) /\ Len(eats) \in Nat
    BY <2>1, LenProperties
  <2>3. ASSUME NEW e \in 1..Len(eats) PROVE lists[e] \in Seq(S)
    <3>1. eats[e] \in Runs \cap Triples(color)
      BY <2>1, ElementOfSeq
    <3>2. \A k \in 1..3 : count(eats[e][k]) \in Nat
      BY <3>1, EatPlaces DEF Rows
    <3>3. lists[e] = Eats(eats[e], <<count(eats[e][1]), count(eats[e][2]), count(eats[e][3])>>, kings)
      BY <2>2
    <3> HIDE DEF count, eats, lists
    <3>4. count(eats[e][1]) \in Nat /\ count(eats[e][2]) \in Nat /\ count(eats[e][3]) \in Nat
      BY <3>2
    <3> QED
      BY <3>1, <3>3, <3>4, EatsOfKings, SMTT(30)
  <2>4. first \in Seq(S)
    <3>1. j \in Places
      BY NumbersOfColor
    <3>2. idx[j] \in 1..2 => Peng(c, 3 - idx[j]) \in S
      <4>1. idx[j] \in 1..2 => 3 - idx[j] \in 0..3
        OBVIOUS
      <4> QED
        BY <3>1, <4>1, PengInItems
    <3> HIDE DEF S, c
    <3> QED
      BY <3>2
  <2>5. lists \in Seq(Seq(S))
    <3>1. lists = [e \in 1..Len(eats) |-> lists[e]]
      BY <2>2
    <3> HIDE DEF lists, eats, S
    <3>2. lists \in [1..Len(eats) -> Seq(S)]
      BY <2>3, <3>1
    <3> QED
      BY <2>2, <3>2, FunctionIsList
  <2>6. KingItems(idx, kings, color, j) = first \o FlattenSeq(lists)
    BY DEF KingItems
  <2> HIDE DEF first, lists, S
  <2>7. FlattenSeq(lists) \in Seq(S)
    BY <2>5, FlattenTyped
  <2> QED
    BY <2>4, <2>6, <2>7, ConcatProperties
<1>2. CASE Total(idx) + kings < 3
  BY <1>2, EmptySeq DEF KingItemsOf
<1>3. CASE ~ (Total(idx) + kings < 3)
  <2> DEFINE lists == [j \in Numbers(color) |-> KingItems(idx, kings, color, j)]
  <2>1. lists \in Seq(Seq(S))
    <3> HIDE DEF S
    <3>1. lists \in [1..(PokerNum(color) - 1) -> Seq(S)]
      BY <1>1, NumbersOfColor
    <3> HIDE DEF lists
    <3> QED
      BY <3>1, NumbersOfColor, FunctionIsList
  <2>2. KingItemsOf(idx, kings, color) = FlattenSeq(lists)
    BY <1>3 DEF KingItemsOf
  <2> HIDE DEF lists, S
  <2>3. FlattenSeq(lists) \in Seq(S)
    BY <2>1, FlattenTyped
  <2> QED
    BY <2>2, <2>3 DEF S
<1> QED
  BY <1>2, <1>3

\* The marks of a list: k of 1..n.
Marks(n, k) == [1..k -> 1..n]

LEMMA AdvanceTyped ==
    ASSUME NEW n \in Nat, NEW k \in 0..n, NEW marks \in Marks(n, k), Movable(marks, n) # {}
    PROVE  Advance(marks, n) \in Marks(n, k)
<1> DEFINE M == Movable(marks, n)
<1> DEFINE first == Lowest(M)
<1>1. k \in Nat /\ marks \in Seq(1..n) /\ Len(marks) = k /\ DOMAIN marks = 1..k
  BY FunctionIsList DEF Marks
<1>2. M \in SUBSET Nat /\ M \subseteq 1..k /\ M # {}
  BY <1>1 DEF Movable
<1>3. first \in M
  <2> HIDE DEF M
  <2> QED
    BY <1>2, LowestOf
<1>4. first \in 1..k
  BY <1>2, <1>3
<1>5. marks[first] < n
  <2>1. marks[first] < (IF first < Len(marks) THEN marks[first + 1] - 1 ELSE n)
    <3> HIDE DEF first
    <3> QED
      BY <1>3 DEF Movable
  <2> HIDE DEF first
  <2>2. marks[first] \in 1..n
    BY <1>4 DEF Marks
  <2>3. first < k => marks[first + 1] \in 1..n
    BY <1>1, <1>4 DEF Marks
  <2> QED
    BY <1>1, <2>1, <2>2, <2>3
<1> HIDE DEF first
<1>6. marks[first] + 1 \in 1..n
  <2>1. marks[first] \in 1..n
    BY <1>4 DEF Marks
  <2> QED
    BY <1>5, <2>1
<1> DEFINE a == [i \in 1..(first - 1) |-> i]
<1> DEFINE b == <<marks[first] + 1>>
<1> DEFINE c == SubSeq(marks, first + 1, Len(marks))
<1>7. a \in Seq(1..n) /\ Len(a) = first - 1
  <2>1. first - 1 \in Nat /\ a \in [1..(first - 1) -> 1..n]
    BY <1>1, <1>4
  <2> HIDE DEF a
  <2> QED
    BY <2>1, FunctionIsList
<1>8. b \in Seq(1..n) /\ Len(b) = 1
  BY <1>6
<1>9. c \in Seq(1..n) /\ Len(c) = k - first
  <2>1. first + 1 \in Int /\ Len(marks) \in Int /\ \A i \in (first + 1)..Len(marks) : marks[i] \in 1..n
    BY <1>1, <1>4 DEF Marks
  <2>2. c \in Seq(1..n) /\ Len(c) = IF first + 1 <= Len(marks) THEN Len(marks) - (first + 1) + 1 ELSE 0
    BY <2>1, SubSeqProperties
  <2> HIDE DEF c
  <2> QED
    BY <1>1, <1>4, <2>2
<1>10. Advance(marks, n) = a \o b \o c
  BY DEF Advance, first
<1> HIDE DEF a, b, c
<1>11. a \o b \in Seq(1..n) /\ Len(a \o b) = first
  <2>1. a \o b \in Seq(1..n) /\ Len(a \o b) = Len(a) + Len(b)
    BY <1>7, <1>8, ConcatProperties
  <2> QED
    BY <1>4, <1>7, <1>8, <2>1
<1> DEFINE r == a \o b \o c
<1>12. r \in Seq(1..n) /\ Len(r) = k
  <2>1. r \in Seq(1..n) /\ Len(r) = Len(a \o b) + Len(c)
    BY <1>9, <1>11, ConcatProperties
  <2> HIDE DEF r
  <2> QED
    BY <1>1, <1>4, <1>9, <1>11, <2>1
<1> HIDE DEF r
<1>13. r \in [1..k -> 1..n]
  BY <1>12, LenProperties
<1> QED
  BY <1>10, <1>13 DEF r, Marks

LEMMA WaysIsNat ==
    ASSUME NEW n \in Nat, NEW k \in 0..n
    PROVE  Ways(n, k) \in Nat
<1> DEFINE g == [p \in Nat \X (1..k) |-> (p[1] * (n - p[2] + 1)) \div p[2]]
<1>1. k \in Nat
  OBVIOUS
<1>2. \A s \in Nat : \A j \in 1..k : g[<<s, j>>] = (s * (n - j + 1)) \div j
  OBVIOUS
<1>3. \A s \in Nat : \A j \in 1..k : (s * (n - j + 1)) \div j \in Nat
  <2> SUFFICES ASSUME NEW s \in Nat, NEW j \in 1..k PROVE (s * (n - j + 1)) \div j \in Nat
    OBVIOUS
  <2>1. n - j + 1 \in Nat /\ j \in Nat /\ j > 0
    BY <1>1
  <2>2. PICK t \in Nat : t = n - j + 1
    BY <2>1
  <2>3. PICK u \in Nat : u = s * t
    OBVIOUS
  <2>4. u \div j \in Nat
    BY <2>1
  <2> QED
    BY <2>2, <2>3, <2>4
<1> HIDE DEF g
<1>4. \A s \in Nat : \A j \in 1..k : g[<<s, j>>] \in Nat
  BY <1>2, <1>3
<1>5. PICK h : IsLoop(h, k, Nat, 1, g)
  BY <1>1, <1>4, Loop
<1>6. h = [j \in 0..k |-> IF j = 0 THEN 1 ELSE (h[j - 1] * (n - j + 1)) \div j]
  <2>1. ASSUME NEW j \in 0..k
        PROVE  h[j] = IF j = 0 THEN 1 ELSE (h[j - 1] * (n - j + 1)) \div j
    <3>1. CASE j = 0
      BY <1>5, <3>1 DEF IsLoop
    <3>2. CASE j # 0
      <4>1. j \in 1..k /\ j - 1 \in 0..k
        BY <3>2
      <4>2. h[j - 1] \in Nat /\ h[j] = g[<<h[j - 1], j>>]
        BY <1>5, <4>1 DEF IsLoop
      <4> QED
        BY <1>2, <3>2, <4>1, <4>2
    <3> QED
      BY <3>1, <3>2
  <2> QED
    BY <1>5, <2>1 DEF IsLoop
<1> DEFINE f == CHOOSE f : f = [j \in 0..k |-> IF j = 0 THEN 1 ELSE (f[j - 1] * (n - j + 1)) \div j]
<1>7. f = [j \in 0..k |-> IF j = 0 THEN 1 ELSE (f[j - 1] * (n - j + 1)) \div j]
  BY <1>6
<1>8. Ways(n, k) = f[k]
  BY DEF Ways
<1> HIDE DEF f
<1>9. f[0] = 1 /\ \A j \in 1..k : f[j] = (f[j - 1] * (n - j + 1)) \div j
  BY <1>7
<1>10. f = [j \in 0..k |-> f[j]]
  BY <1>7
<1>11. \A j \in 1..k : f[j - 1] \in Nat => f[j] = g[<<f[j - 1], j>>]
  BY <1>2, <1>9
<1>12. IsLoop(f, k, Nat, 1, g)
  BY <1>1, <1>4, <1>9, <1>10, <1>11, LoopTyped
<1> QED
  BY <1>8, <1>12 DEF IsLoop

\* Every list that CombineList makes has k marks.
LEMMA CombineListTyped ==
    ASSUME NEW n \in Nat, NEW k \in 0..n
    PROVE  CombineList(n, k) \in Seq(Marks(n, k))
<1> DEFINE w == Ways(n, k)
<1> DEFINE S == Seq(Marks(n, k)) \ {<<>>}
<1> DEFINE start == << [i \in 1..k |-> i] >>
<1> DEFINE Body(prev) == IF Movable(prev[Len(prev)], n) = {} THEN prev
                         ELSE Append(prev, Advance(prev[Len(prev)], n))
<1> DEFINE g == [p \in S \X (1..w) |-> Body(p[1])]
<1>1. w \in Nat
  BY WaysIsNat
<1>2. start \in S
  <2>1. [i \in 1..k |-> i] \in Marks(n, k)
    BY DEF Marks
  <2> QED
    BY <2>1
<1>3. \A s \in S : \A m \in 1..w : g[<<s, m>>] = Body(s)
  OBVIOUS
<1>4. \A s \in S : Body(s) \in S
  <2> SUFFICES ASSUME NEW s \in S PROVE Body(s) \in S
    OBVIOUS
  <2>1. s \in Seq(Marks(n, k)) /\ s # <<>>
    OBVIOUS
  <2>2. Len(s) \in 1..Len(s)
    BY <2>1, EmptySeq
  <2>3. s[Len(s)] \in Marks(n, k)
    BY <2>1, <2>2, ElementOfSeq
  <2>4. CASE Movable(s[Len(s)], n) = {}
    BY <2>4
  <2>5. CASE Movable(s[Len(s)], n) # {}
    <3>1. Advance(s[Len(s)], n) \in Marks(n, k)
      BY <2>3, <2>5, AdvanceTyped
    <3>2. /\ Append(s, Advance(s[Len(s)], n)) \in Seq(Marks(n, k))
          /\ Append(s, Advance(s[Len(s)], n)) # <<>>
      BY <2>1, <3>1, AppendProperties
    <3> QED
      BY <2>5, <3>2
  <2> QED
    BY <2>4, <2>5
<1> HIDE DEF g, start, Body, w, S
<1>5. \A s \in S : \A m \in 1..w : g[<<s, m>>] \in S
  BY <1>3, <1>4
<1>6. PICK h : IsLoop(h, w, S, start, g)
  BY <1>1, <1>2, <1>5, Loop
<1>7. h = [m \in 0..w |-> IF m = 0 THEN start ELSE Body(h[m - 1])]
  <2>1. ASSUME NEW m \in 0..w PROVE h[m] = IF m = 0 THEN start ELSE Body(h[m - 1])
    <3>1. CASE m = 0
      BY <1>6, <3>1 DEF IsLoop
    <3>2. CASE m # 0
      <4>1. m \in 1..w /\ m - 1 \in 0..w
        BY <1>1, <3>2
      <4>2. h[m - 1] \in S /\ h[m] = g[<<h[m - 1], m>>]
        BY <1>6, <4>1 DEF IsLoop
      <4> QED
        BY <1>3, <3>2, <4>1, <4>2
    <3> QED
      BY <3>1, <3>2
  <2> QED
    BY <1>6, <2>1 DEF IsLoop
<1> DEFINE f == CHOOSE f : f = [m \in 0..w |-> IF m = 0 THEN start ELSE Body(f[m - 1])]
<1>8. f = [m \in 0..w |-> IF m = 0 THEN start ELSE Body(f[m - 1])]
  BY <1>7
<1>9. CombineList(n, k) = f[w]
  BY DEF CombineList, w, start, Body
<1> HIDE DEF f
<1>10. f[0] = start /\ \A m \in 1..w : f[m] = Body(f[m - 1])
  BY <1>1, <1>8
<1>11. f = [m \in 0..w |-> f[m]]
  BY <1>8
<1>12. \A m \in 1..w : f[m - 1] \in S => f[m] = g[<<f[m - 1], m>>]
  BY <1>3, <1>10
<1>13. IsLoop(f, w, S, start, g)
  BY <1>1, <1>2, <1>5, <1>10, <1>11, <1>12, LoopTyped
<1>14. f[w] \in S
  BY <1>1, <1>13 DEF IsLoop
<1> QED
  BY <1>9, <1>14 DEF S

LEMMA ListsTyped ==
    ASSUME NEW S, NEW items \in Seq(S), NEW k \in 0..Len(items)
    PROVE  /\ Lists(items, k) \in Seq(Seq(S))
           /\ DOMAIN Lists(items, k) = 1..Len(Lists(items, k))
           /\ \A c \in DOMAIN Lists(items, k) : Lists(items, k)[c] \in Seq(S)
           /\ k = 0 => Lists(items, k) = << <<>> >>
<1> DEFINE n == Len(items)
<1> DEFINE combines == CombineList(n, k)
<1> DEFINE lists == Lists(items, k)
<1>1. n \in Nat /\ \A i \in 1..n : items[i] \in S
  BY LenProperties, ElementOfSeq
<1>2. lists \in Seq(Seq(S))
  <2>1. CASE k = 0
    <3>1. lists = << <<>> >> /\ <<>> \in Seq(S)
      BY <2>1 DEF Lists
    <3> HIDE DEF lists
    <3> QED
      BY <3>1
  <2>2. CASE k # 0
    <3>1. combines \in Seq(Marks(n, k))
      BY <1>1, CombineListTyped
    <3>2. DOMAIN combines = 1..Len(combines) /\ Len(combines) \in Nat
      BY <3>1, LenProperties
    <3>3. \A c \in 1..Len(combines) : [i \in 1..k |-> items[combines[c][i]]] \in Seq(S)
      <4> SUFFICES ASSUME NEW c \in 1..Len(combines)
                   PROVE  [i \in 1..k |-> items[combines[c][i]]] \in Seq(S)
        OBVIOUS
      <4>1. combines[c] \in Marks(n, k)
        BY <3>1, ElementOfSeq
      <4> HIDE DEF combines, n
      <4>2. [i \in 1..k |-> items[combines[c][i]]] \in [1..k -> S]
        BY <1>1, <4>1 DEF Marks
      <4>3. k \in Nat
        BY DEF n
      <4> QED
        BY <4>2, <4>3, FunctionIsList
    <3>4. lists = [c \in 1..Len(combines) |-> [i \in 1..k |-> items[combines[c][i]]]]
      BY <2>2, <3>2 DEF Lists
    <3> HIDE DEF lists, combines
    <3>5. lists \in [1..Len(combines) -> Seq(S)]
      BY <3>3, <3>4
    <3> QED
      BY <3>2, <3>5, FunctionIsList
  <2> QED
    BY <2>1, <2>2
<1>3. DOMAIN lists = 1..Len(lists) /\ \A c \in 1..Len(lists) : lists[c] \in Seq(S)
  <2> HIDE DEF lists
  <2> QED
    BY <1>2, LenProperties, ElementOfSeq
<1>4. k = 0 => lists = << <<>> >>
  BY DEF Lists
<1> QED
  BY <1>2, <1>3, <1>4

-----------------------------------------------------------------------------
(***************************************************************************)
(* Mahjong: a colour is used up.                                           *)
(*                                                                         *)
(* Uses is what every step of the search keeps: the sets and the pair of a *)
(* combination have all the tiles of the colour, and tiles and kings are   *)
(* as many as they need.  It does not depend on which list was tried or    *)
(* which one was best.                                                     *)
(***************************************************************************)
\* What a combination uses up of a colour: all its tiles, and as many kings as
\* it says.
IsCombine(r) ==
    r = [ok |-> r.ok, kings |-> r.kings, used |-> r.used, sets |-> r.sets, duis |-> r.duis]

Uses(r, idx, kings, color) ==
    /\ IsCombine(r)
    /\ r.ok => /\ r.sets \in Seq(SetItems(color))
               /\ r.duis \in Seq(DuiItems(color))
               /\ r.kings \in 0..kings
               /\ \A j \in Places :
                     idx[j] <= Copies(color * 16 + j, r.sets) + Copies(color * 16 + j, r.duis)
               /\ 3 * Len(r.sets) + 2 * Len(r.duis) = Total(idx) + r.kings

LEMMA NoCombineUses == \A idx, kings, color : Uses(NoCombine, idx, kings, color)
  BY DEF Uses, IsCombine, NoCombine

\* The pair that is left.
LEMMA LeftDuiFacts ==
    ASSUME NEW color \in Colors, NEW left \in Rows, NEW k \in Int, LeftVaild(left, k)
    PROVE  /\ LeftDui(left, color) \in Seq(DuiItems(color))
           /\ \A j \in Places : left[j] <= Copies(color * 16 + j, LeftDui(left, color))
           /\ 2 * Len(LeftDui(left, color)) = Total(left) + (IF Total(left) = 1 THEN 1 ELSE 0)
           /\ Total(left) = 1 => k > 0
           /\ Total(left) \in 0..2
<1>1. Total(left) = 0 \/ (Total(left) = 1 /\ k > 0) \/ (Total(left) = 2 /\ \E j \in Places : left[j] = 2)
  BY DEF LeftVaild
<1>2. 11 \in Nat /\ left \in [1..11 -> Nat] /\ Places = 1..11
  BY RowFacts DEF Places
<1>3. \A j \in Places : left[j] \in Nat
  BY DEF Rows
<1>4. CASE Total(left) = 0
  <2>1. LeftDui(left, color) = <<>>
    BY <1>4 DEF LeftDui
  <2>2. \A j \in Places : left[j] <= 0
    BY <1>2, <1>4, TotalBounds
  <2>3. <<>> \in Seq(DuiItems(color)) /\ Len(<<>>) = 0
    BY EmptySeq
  <2>4. \A j \in Places : left[j] <= Copies(color * 16 + j, LeftDui(left, color))
    BY <2>1, <2>2, CopiesOfNone
  <2>5. 2 * Len(LeftDui(left, color)) = Total(left) + (IF Total(left) = 1 THEN 1 ELSE 0)
    BY <1>4, <2>1, <2>3
  <2> QED
    BY <1>4, <2>1, <2>3, <2>4, <2>5
<1>5. CASE Total(left) # 0
  <2> DEFINE d == CHOOSE j \in Places : left[j] > 0
  <2>1. d \in Places /\ left[d] > 0
    <3>1. \E j \in Places : left[j] > 0
      BY <1>2, <1>5, TotalNotZero
    <3> QED
      BY <3>1
  <2> HIDE DEF d
  <2>2. left[d] = Total(left)
    <3>1. CASE Total(left) = 1
      <4>1. left[d] <= Total(left)
        BY <1>2, <2>1, TotalBounds
      <4> QED
        BY <1>3, <2>1, <3>1, <4>1
    <3>2. CASE Total(left) = 2 /\ \E j \in Places : left[j] = 2
      <4>1. PICK j \in Places : left[j] = 2
        BY <3>2
      <4>2. \A i \in Places : i # j => left[i] = 0
        BY <1>2, <3>2, <4>1, TotalBounds, ZenonT(40)
      <4> QED
        BY <2>1, <3>2, <4>1, <4>2
    <3> QED
      BY <1>1, <1>5, <3>1, <3>2
  <2>3. \A i \in Places : i # d => left[i] = 0
    BY <1>2, <2>1, <2>2, TotalBounds
  <2> DEFINE k0 == 2 - Total(left)
  <2> DEFINE v == Dui(color * 16 + d, k0)
  <2>4. k0 \in 0..1
    BY <1>1, <1>5
  <2>5. LeftDui(left, color) = <<v>>
    BY <1>5 DEF LeftDui, d
  <2>6. v \in DuiItems(color)
    <3> DEFINE p == <<d, k0>>
    <3> HIDE DEF k0
    <3>1. p \in Places \X (0..1) /\ v = Dui(color * 16 + p[1], p[2])
      BY <2>1, <2>4
    <3> QED
      BY <3>1 DEF DuiItems
  <2>7. ASSUME NEW j \in Places PROVE left[j] <= Copies(color * 16 + j, <<v>>)
    <3>1. Copies(color * 16 + j, <<v>>) = InItem(color * 16 + j, v)
      BY CopiesOfOne
    <3>2. InItem(color * 16 + j, v) \in Nat
      BY InItemIsNat
    <3>3. CASE j = d
      <4>1. InItem(color * 16 + j, v) = 2
        <5>1. v.cards = <<color * 16 + d, color * 16 + d>> /\ v.type = "dui"
          BY ItemFields
        <5> QED
          BY <3>3, <5>1 DEF InItem, Same
      <4>2. left[d] <= 2
        BY <1>1, <2>2
      <4> QED
        BY <3>1, <3>3, <4>1, <4>2
    <3>4. CASE j # d
      <4>1. left[j] = 0
        BY <2>3, <3>4
      <4> HIDE DEF v
      <4> QED
        BY <3>1, <3>2, <4>1
    <3> QED
      BY <3>3, <3>4
  <2> HIDE DEF v, k0
  <2>8. <<v>> \in Seq(DuiItems(color)) /\ Len(<<v>>) = 1
    BY <2>6
  <2>9. 2 * Len(LeftDui(left, color)) = Total(left) + (IF Total(left) = 1 THEN 1 ELSE 0)
    BY <1>1, <1>5, <2>5, <2>8
  <2> QED
    BY <1>1, <2>5, <2>7, <2>8, <2>9
<1> QED
  BY <1>4, <1>5

\* A list and the pair that is left of the colour, when the kings do for both.
LEMMA CombineUses ==
    ASSUME NEW color \in Colors, NEW idx \in Rows, NEW kings \in Nat,
           NEW list \in Seq(SetItems(color))
    PROVE  Uses(Combine(idx, kings, color, list), idx, kings, color)
<1> DEFINE pokers == CalcHuPokers(list, color)
<1> DEFINE cost == Total(Minus(pokers, idx))
<1> DEFINE left == Minus(idx, pokers)
<1> DEFINE r == Combine(idx, kings, color, list)
<1>1. /\ pokers \in Rows /\ Total(pokers) = 3 * Len(list)
      /\ \A j \in Places : pokers[j] = Copies(color * 16 + j, list)
  BY PokersOfItems
<1> HIDE DEF pokers
<1>2. /\ left \in Rows
      /\ \A j \in Places : left[j] = IF idx[j] > pokers[j] THEN idx[j] - pokers[j] ELSE 0
      /\ Total(pokers) + Total(left) = Total(idx) + cost
  BY <1>1, MinusFacts
<1>3. cost \in Nat
  BY <1>1, MinusFacts, RowFacts
<1>4. CASE cost > kings \/ ~ LeftVaild(left, kings - cost)
  <2>1. r = NoCombine
    BY <1>4 DEF Combine, pokers
  <2> HIDE DEF r
  <2>2. Uses(r, idx, kings, color)
    BY <2>1, NoCombineUses
  <2> QED
    BY <2>2 DEF r
<1>5. CASE ~ (cost > kings) /\ LeftVaild(left, kings - cost)
  <2>1. /\ r.ok = TRUE
        /\ r.kings = cost + (IF Total(left) = 1 THEN 1 ELSE 0)
        /\ r.sets = list
        /\ r.duis = LeftDui(left, color)
    BY <1>5 DEF Combine, pokers
  <2>0. IsCombine(r)
    BY <1>5 DEF Combine, pokers, IsCombine
  <2> HIDE DEF r, left, cost
  <2>2. kings - cost \in Int
    BY <1>3
  <2>3. /\ LeftDui(left, color) \in Seq(DuiItems(color))
        /\ \A j \in Places : left[j] <= Copies(color * 16 + j, LeftDui(left, color))
        /\ 2 * Len(LeftDui(left, color)) = Total(left) + (IF Total(left) = 1 THEN 1 ELSE 0)
        /\ Total(left) = 1 => kings - cost > 0
        /\ Total(left) \in 0..2
    BY <1>2, <1>5, <2>2, LeftDuiFacts
  <2>4. r.kings \in 0..kings
    BY <1>3, <1>5, <2>1, <2>3
  <2>5. ASSUME NEW j \in Places
        PROVE  idx[j] <= Copies(color * 16 + j, r.sets) + Copies(color * 16 + j, r.duis)
    <3>1. idx[j] \in Nat /\ pokers[j] \in Nat
      BY <1>1 DEF Rows
    <3>2. left[j] \in Nat /\ idx[j] <= pokers[j] + left[j]
      BY <1>2, <3>1
    <3>3. pokers[j] = Copies(color * 16 + j, r.sets)
      BY <1>1, <2>1
    <3>4. left[j] <= Copies(color * 16 + j, r.duis) /\ Copies(color * 16 + j, r.duis) \in Nat
      BY <2>1, <2>3, CopiesFacts
    <3> QED
      BY <3>1, <3>2, <3>3, <3>4
  <2>6. 3 * Len(r.sets) + 2 * Len(r.duis) = Total(idx) + r.kings
    <3>1. Len(list) \in Nat /\ Total(idx) \in Nat
      BY LenProperties, RowFacts
    <3>2. 3 * Len(list) + Total(left) = Total(idx) + cost
      BY <1>1, <1>2
    <3> QED
      BY <1>3, <2>1, <2>3, <3>1, <3>2
  <2>7. Uses(r, idx, kings, color)
    BY <2>0, <2>1, <2>3, <2>4, <2>5, <2>6 DEF Uses
  <2> QED
    BY <2>7 DEF r
<1> QED
  BY <1>4, <1>5

\* The best of some combinations is one of them.
LEMMA BestOfIn ==
    ASSUME NEW S, NoCombine \in S, NEW combines \in Seq(S)
    PROVE  BestOf(combines) \in S
<1> DEFINE n == Len(combines)
<1> DEFINE g == [p \in S \X (1..n) |-> Better(p[1], combines[p[2]])]
<1>1. n \in Nat /\ \A k \in 1..n : combines[k] \in S
  BY LenProperties, ElementOfSeq
<1>2. \A s \in S : \A k \in 1..n : g[<<s, k>>] = Better(s, combines[k])
  OBVIOUS
<1>3. \A s \in S : \A k \in 1..n : Better(s, combines[k]) \in S
  BY <1>1 DEF Better
<1> HIDE DEF g, n
<1>4. \A s \in S : \A k \in 1..n : g[<<s, k>>] \in S
  BY <1>2, <1>3
<1>5. PICK h : IsLoop(h, n, S, NoCombine, g)
  BY <1>1, <1>4, Loop
<1>6. h = [k \in 0..n |-> IF k = 0 THEN NoCombine ELSE Better(h[k - 1], combines[k])]
  <2>1. ASSUME NEW k \in 0..n
        PROVE  h[k] = IF k = 0 THEN NoCombine ELSE Better(h[k - 1], combines[k])
    <3>1. CASE k = 0
      BY <1>5, <3>1 DEF IsLoop
    <3>2. CASE k # 0
      <4>1. k \in 1..n /\ k - 1 \in 0..n
        BY <1>1, <3>2
      <4>2. h[k - 1] \in S /\ h[k] = g[<<h[k - 1], k>>]
        BY <1>5, <4>1 DEF IsLoop
      <4> QED
        BY <1>2, <3>2, <4>1, <4>2
    <3> QED
      BY <3>1, <3>2
  <2> QED
    BY <1>5, <2>1 DEF IsLoop
<1> DEFINE f == CHOOSE f : f = [k \in 0..n |-> IF k = 0 THEN NoCombine ELSE Better(f[k - 1], combines[k])]
<1>7. f = [k \in 0..n |-> IF k = 0 THEN NoCombine ELSE Better(f[k - 1], combines[k])]
  BY <1>6
<1>8. BestOf(combines) = f[n]
  BY DEF BestOf, n
<1> HIDE DEF f
<1>9. f[0] = NoCombine /\ \A k \in 1..n : f[k] = Better(f[k - 1], combines[k])
  BY <1>1, <1>7
<1>10. f = [k \in 0..n |-> f[k]]
  BY <1>7
<1>11. \A k \in 1..n : f[k - 1] \in S => f[k] = g[<<f[k - 1], k>>]
  BY <1>2, <1>9
<1>12. IsLoop(f, n, S, NoCombine, g)
  BY <1>1, <1>4, <1>9, <1>10, <1>11, LoopTyped
<1> QED
  BY <1>1, <1>8, <1>12 DEF IsLoop

\* The combinations of a colour, from which the best is taken.
Combines(idx, kings, color) ==
    {NoCombine} \cup {Combine(idx, kings, color, list) : list \in Seq(SetItems(color))}

LEMMA FewestIsNat ==
    ASSUME NEW sum \in Nat
    PROVE  MinItemNum(sum) \in Nat
  BY DEF MinItemNum

\* What the search has found at any time is a combination that was tried.
LEMMA SearchUses ==
    ASSUME NEW color \in Colors, NEW idx \in Rows, NEW kings \in Nat,
           NEW items \in Seq(SetItems(color))
    PROVE  Uses(Search(idx, kings, color, items), idx, kings, color)
<1> DEFINE S == Combines(idx, kings, color)
<1> DEFINE fewest == MinItemNum(Total(idx))
<1> DEFINE most == Lowest({(Total(idx) + kings) \div 3, Len(items)})
<1> DEFINE top == Highest({0, most + 1 - fewest})
<1> DEFINE combines(n) == LET lists == Lists(items, n)
                          IN  [c \in DOMAIN lists |-> Combine(idx, kings, color, lists[c])]
<1> DEFINE Body(s, t) == IF s.kings < fewest + t - 1 \/ (s.ok /\ fewest + t - 1 > 1) THEN s
                         ELSE BestOf(<<s>> \o combines(fewest + t - 1))
<1> DEFINE g == [p \in S \X (1..top) |-> Body(p[1], p[2])]
<1>1. Total(idx) \in Nat /\ Len(items) \in Nat
  BY RowFacts, LenProperties
<1>2. fewest \in Nat
  BY <1>1, FewestIsNat
<1>3. most \in Nat /\ most <= Len(items)
  <2> DEFINE T == {(Total(idx) + kings) \div 3, Len(items)}
  <2>1. T \in SUBSET Nat /\ Len(items) \in T
    BY <1>1
  <2> HIDE DEF T
  <2>2. Lowest(T) \in T /\ \A m \in T : Lowest(T) <= m
    BY <2>1, LowestOf
  <2>3. Lowest(T) \in Nat /\ Lowest(T) <= Len(items)
    BY <2>1, <2>2
  <2> QED
    BY <2>3 DEF T
<1> HIDE DEF fewest, most
<1>4. top \in Nat /\ (top > 0 => top <= most + 1 - fewest)
  <2>1. CASE most + 1 - fewest <= 0
    <3> DEFINE T == {0, most + 1 - fewest}
    <3>1. 0 \in T /\ \A m \in T : m <= 0 /\ m \in Int
      BY <1>2, <1>3, <2>1
    <3>2. \A n \in T : (\A m \in T : n >= m) => n = 0
      BY <3>1
    <3>3. \E n \in T : \A m \in T : n >= m
      BY <3>1
    <3> HIDE DEF T
    <3>4. Highest(T) = 0
      BY <3>2, <3>3 DEF Highest
    <3> QED
      BY <3>4 DEF T
  <2>2. CASE ~ (most + 1 - fewest <= 0)
    <3> DEFINE T == {0, most + 1 - fewest}
    <3>1. most + 1 - fewest \in T /\ \A m \in T : m <= most + 1 - fewest /\ m \in Int
      BY <1>2, <1>3, <2>2
    <3>2. \A n \in T : (\A m \in T : n >= m) => n = most + 1 - fewest
      BY <3>1
    <3>3. \E n \in T : \A m \in T : n >= m
      BY <3>1
    <3> HIDE DEF T
    <3>4. Highest(T) = most + 1 - fewest
      BY <3>2, <3>3 DEF Highest
    <3> QED
      BY <1>2, <1>3, <2>2, <3>4 DEF T
  <2> QED
    BY <2>1, <2>2
<1> HIDE DEF top
<1>5. NoCombine \in S
  BY DEF Combines
<1>6. ASSUME NEW n \in 0..Len(items) PROVE combines(n) \in Seq(S)
  <2> DEFINE lists == Lists(items, n)
  <2>1. /\ DOMAIN lists = 1..Len(lists) /\ lists \in Seq(Seq(SetItems(color)))
        /\ \A c \in DOMAIN lists : lists[c] \in Seq(SetItems(color))
    BY ListsTyped
  <2>2. combines(n) = [c \in DOMAIN lists |-> Combine(idx, kings, color, lists[c])]
    OBVIOUS
  <2> HIDE DEF lists, combines
  <2>3. \A c \in DOMAIN lists : Combine(idx, kings, color, lists[c]) \in S
    BY <2>1 DEF Combines
  <2>4. Len(lists) \in Nat
    BY <2>1, LenProperties
  <2>5. combines(n) \in [1..Len(lists) -> S]
    BY <2>1, <2>2, <2>3
  <2> QED
    BY <2>4, <2>5, FunctionIsList
<1>7. \A s \in S : \A t \in 1..top : g[<<s, t>>] = Body(s, t)
  OBVIOUS
<1>8. \A s \in S : \A t \in 1..top : Body(s, t) \in S
  <2> SUFFICES ASSUME NEW s \in S, NEW t \in 1..top PROVE Body(s, t) \in S
    BY Zenon
  <2> DEFINE need == fewest + t - 1
  <2>1. need \in 0..Len(items)
    BY <1>1, <1>2, <1>3, <1>4
  <2> HIDE DEF need, S
  <2>2. combines(need) \in Seq(S)
    BY <1>6, <2>1
  <2>3. Body(s, t) = IF s.kings < need \/ (s.ok /\ need > 1) THEN s
                     ELSE BestOf(<<s>> \o combines(need))
    BY DEF need
  <2> HIDE DEF Body, combines
  <2>4. <<s>> \in Seq(S)
    OBVIOUS
  <2>5. <<s>> \o combines(need) \in Seq(S)
    BY <2>2, <2>4, ConcatProperties
  <2>6. BestOf(<<s>> \o combines(need)) \in S
    BY <1>5, <2>5, BestOfIn
  <2> QED
    BY <2>3, <2>6
<1> HIDE DEF g, Body, S
<1>9. \A s \in S : \A t \in 1..top : g[<<s, t>>] \in S
  BY <1>7, <1>8
<1>10. PICK h : IsLoop(h, top, S, NoCombine, g)
  BY <1>4, <1>5, <1>9, Loop
<1>11. h = [t \in 0..top |-> IF t = 0 THEN NoCombine ELSE Body(h[t - 1], t)]
  <2>1. ASSUME NEW t \in 0..top
        PROVE  h[t] = IF t = 0 THEN NoCombine ELSE Body(h[t - 1], t)
    <3>1. CASE t = 0
      BY <1>10, <3>1 DEF IsLoop
    <3>2. CASE t # 0
      <4>1. t \in 1..top /\ t - 1 \in 0..top
        BY <1>4, <3>2
      <4>2. h[t - 1] \in S /\ h[t] = g[<<h[t - 1], t>>]
        BY <1>10, <4>1 DEF IsLoop
      <4> QED
        BY <1>7, <3>2, <4>1, <4>2
    <3> QED
      BY <3>1, <3>2
  <2> QED
    BY <1>10, <2>1 DEF IsLoop
<1> DEFINE f == CHOOSE f : f = [t \in 0..top |-> IF t = 0 THEN NoCombine ELSE Body(f[t - 1], t)]
<1>12. f = [t \in 0..top |-> IF t = 0 THEN NoCombine ELSE Body(f[t - 1], t)]
  BY <1>11
<1>13. Search(idx, kings, color, items) = f[top]
  BY DEF Search, top, fewest, most, Body
<1> HIDE DEF f
<1>14. f[0] = NoCombine /\ \A t \in 1..top : f[t] = Body(f[t - 1], t)
  BY <1>4, <1>12
<1>15. f = [t \in 0..top |-> f[t]]
  BY <1>12
<1>16. \A t \in 1..top : f[t - 1] \in S => f[t] = g[<<f[t - 1], t>>]
  BY <1>7, <1>14
<1>17. IsLoop(f, top, S, NoCombine, g)
  BY <1>4, <1>5, <1>9, <1>14, <1>15, <1>16, LoopTyped
<1>18. f[top] \in S
  BY <1>4, <1>17 DEF IsLoop
<1>19. \A s \in S : Uses(s, idx, kings, color)
  BY NoCombineUses, CombineUses DEF S, Combines
<1> QED
  BY <1>13, <1>18, <1>19

\* Nothing is left of the colour, or the search takes care of it.
LEMMA CalcTttUses ==
    ASSUME NEW color \in Colors, NEW idx \in Rows, NEW kings \in Nat
    PROVE  Uses(CalcTttCombine(idx, kings, color), idx, kings, color)
<1> DEFINE r == CalcTttCombine(idx, kings, color)
<1>1. CASE Total(idx) = 0
  <2>1. /\ r.ok = TRUE /\ r.kings = 0 /\ r.sets = <<>> /\ r.duis = <<>>
    BY <1>1 DEF CalcTttCombine, NoCombine
  <2>0. IsCombine(r)
    BY <1>1 DEF CalcTttCombine, NoCombine, IsCombine
  <2>2. \A j \in Places : idx[j] = 0
    <3>1. 11 \in Nat /\ idx \in [1..11 -> Nat] /\ Places = 1..11
      BY RowFacts DEF Places
    <3>2. \A j \in Places : idx[j] \in Nat /\ idx[j] <= 0
      BY <1>1, <3>1, TotalBounds
    <3> QED
      BY <3>2
  <2>3. \A j \in Places :
            idx[j] <= Copies(color * 16 + j, <<>>) + Copies(color * 16 + j, <<>>)
    BY <2>2, CopiesOfNone
  <2>4. /\ <<>> \in Seq(SetItems(color)) /\ <<>> \in Seq(DuiItems(color)) /\ Len(<<>>) = 0
    BY EmptySeq
  <2> HIDE DEF r
  <2>5. Uses(r, idx, kings, color)
    BY <1>1, <2>0, <2>1, <2>3, <2>4 DEF Uses
  <2> QED
    BY <2>5 DEF r
<1>2. CASE Total(idx) # 0 /\ kings < MinItemNum(Total(idx))
  <2>1. r = NoCombine
    BY <1>2 DEF CalcTttCombine
  <2> HIDE DEF r
  <2>2. Uses(r, idx, kings, color)
    BY <2>1, NoCombineUses
  <2> QED
    BY <2>2 DEF r
<1>3. CASE Total(idx) # 0 /\ ~ (kings < MinItemNum(Total(idx)))
  <2>1. r = Search(idx, kings, color, KingItemsOf(idx, kings, color))
    BY <1>3 DEF CalcTttCombine
  <2>2. KingItemsOf(idx, kings, color) \in Seq(SetItems(color))
    BY KingItemsTyped
  <2>3. Uses(Search(idx, kings, color, KingItemsOf(idx, kings, color)), idx, kings, color)
    BY <2>2, SearchUses
  <2> QED
    BY <2>1, <2>3
<1> QED
  BY <1>1, <1>2, <1>3

\* Sets of a list and sets of what is left.
LEMMA WithListUses ==
    ASSUME NEW color \in Colors, NEW idx \in Rows, NEW kings \in Nat,
           NEW list \in Seq(SetItems(color))
    PROVE  Uses(WithList(idx, kings, color, list), idx, kings, color)
<1> DEFINE pokers == CalcHuPokers(list, color)
<1> DEFINE left == SubNumPokers(idx, list, color)
<1> DEFINE rest == CalcTttCombine(left, kings, color)
<1> DEFINE r == WithList(idx, kings, color, list)
<1>1. /\ pokers \in Rows /\ Total(pokers) = 3 * Len(list)
      /\ \A j \in Places : pokers[j] = Copies(color * 16 + j, list)
  BY PokersOfItems
<1>2. left = Minus(idx, pokers) /\ CostOneItems(idx, list, color) = Total(Minus(pokers, idx))
  BY DEF SubNumPokers, CostOneItems
<1> HIDE DEF pokers, left
<1>3. /\ left \in Rows
      /\ \A j \in Places : left[j] = IF idx[j] > pokers[j] THEN idx[j] - pokers[j] ELSE 0
      /\ Total(pokers) + Total(left) = Total(idx) + CostOneItems(idx, list, color)
  BY <1>1, <1>2, MinusFacts
<1>4. Uses(rest, left, kings, color)
  BY <1>3, CalcTttUses
<1>5. r = IF ~ Allowed(idx, color, list) THEN NoCombine
          ELSE [rest EXCEPT !.sets = list \o @, !.used = 0]
  BY DEF WithList, left
<1> HIDE DEF rest, r
<1>6. CASE ~ Allowed(idx, color, list)
  <2>1. Uses(r, idx, kings, color)
    BY <1>5, <1>6, NoCombineUses
  <2> QED
    BY <2>1 DEF r
<1>7. CASE Allowed(idx, color, list)
  <2>1. CostOneItems(idx, list, color) = 0
    BY <1>7 DEF Allowed
  <2>2. /\ r = [rest EXCEPT !.sets = list \o @, !.used = 0]
        /\ rest = [ok |-> rest.ok, kings |-> rest.kings, used |-> rest.used,
                   sets |-> rest.sets, duis |-> rest.duis]
    BY <1>4, <1>5, <1>7 DEF Uses, IsCombine
  <2>3. /\ r.ok = rest.ok /\ r.kings = rest.kings /\ r.duis = rest.duis
        /\ r.sets = list \o rest.sets
        /\ IsCombine(r)
    BY <2>2 DEF IsCombine
  <2>4. CASE ~ rest.ok
    <3>1. Uses(r, idx, kings, color)
      BY <2>3, <2>4 DEF Uses
    <3> QED
      BY <3>1 DEF r
  <2>5. CASE rest.ok
    <3>1. /\ rest.sets \in Seq(SetItems(color))
          /\ rest.duis \in Seq(DuiItems(color))
          /\ rest.kings \in 0..kings
          /\ 3 * Len(rest.sets) + 2 * Len(rest.duis) = Total(left) + rest.kings
      BY <1>4, <2>5 DEF Uses
    <3>2. \A j \in Places :
             left[j] <= Copies(color * 16 + j, rest.sets) + Copies(color * 16 + j, rest.duis)
      BY <1>4, <2>5 DEF Uses
    <3>3. list \o rest.sets \in Seq(SetItems(color)) /\ Len(list \o rest.sets) = Len(list) + Len(rest.sets)
      BY <3>1, ConcatProperties
    <3>4. ASSUME NEW j \in Places
          PROVE  idx[j] <= Copies(color * 16 + j, r.sets) + Copies(color * 16 + j, r.duis)
      <4>1. Copies(color * 16 + j, list \o rest.sets) =
               Copies(color * 16 + j, list) + Copies(color * 16 + j, rest.sets)
        BY <3>1, CopiesOfConcat
      <4>2. /\ Copies(color * 16 + j, list) \in Nat /\ Copies(color * 16 + j, rest.sets) \in Nat
            /\ Copies(color * 16 + j, rest.duis) \in Nat
        BY <3>1, CopiesFacts
      <4>3. idx[j] \in Nat /\ pokers[j] \in Nat /\ left[j] \in Nat
        BY <1>1, <1>3 DEF Rows
      <4>4. idx[j] <= pokers[j] + left[j]
        BY <1>3, <4>3
      <4>5. pokers[j] = Copies(color * 16 + j, list)
        BY <1>1
      <4>6. left[j] <= Copies(color * 16 + j, rest.sets) + Copies(color * 16 + j, rest.duis)
        BY <3>2
      <4>7. r.sets = list \o rest.sets /\ r.duis = rest.duis
        BY <2>3
      <4> QED
        BY <4>1, <4>2, <4>3, <4>4, <4>5, <4>6, <4>7
    <3>5. 3 * Len(r.sets) + 2 * Len(r.duis) = Total(idx) + r.kings
      <4>1. /\ Len(list) \in Nat /\ Len(rest.sets) \in Nat /\ Len(rest.duis) \in Nat
            /\ Total(idx) \in Nat /\ Total(left) \in Nat
        BY <1>3, <3>1, LenProperties, RowFacts
      <4>2. 3 * Len(list) + Total(left) = Total(idx)
        BY <1>1, <1>3, <2>1, <4>1
      <4>3. Len(r.sets) = Len(list) + Len(rest.sets) /\ r.duis = rest.duis /\ r.kings = rest.kings
        BY <2>3, <3>3
      <4>4. rest.kings \in Nat
        BY <3>1
      <4>5. 3 * Len(rest.sets) + 2 * Len(rest.duis) = Total(left) + rest.kings
        BY <3>1
      <4>6. 3 * (Len(list) + Len(rest.sets)) + 2 * Len(rest.duis) = Total(idx) + rest.kings
        <5>1. PICK a \in Nat, b \in Nat, d \in Nat, t \in Nat, l \in Nat, k \in Nat :
                  /\ a = Len(list) /\ b = Len(rest.sets) /\ d = Len(rest.duis)
                  /\ t = Total(idx) /\ l = Total(left) /\ k = rest.kings
          BY <4>1, <4>4
        <5>2. 3 * a + l = t
          BY <4>2, <5>1
        <5>3. 3 * b + 2 * d = l + k
          BY <4>5, <5>1
        <5>4. 3 * (a + b) + 2 * d = t + k
          BY <5>2, <5>3
        <5> QED
          BY <5>1, <5>4
      <4> QED
        BY <4>3, <4>6
    <3>6. Uses(r, idx, kings, color)
      BY <2>3, <3>1, <3>3, <3>4, <3>5 DEF Uses
    <3> QED
      BY <3>6 DEF r
  <2> QED
    BY <2>4, <2>5
<1> QED
  BY <1>6, <1>7

\* The empty list uses no tile, so there is always a number of items that is allowed.
LEMMA CurTypeListTyped ==
    ASSUME NEW color \in Colors, NEW idx \in Rows, NEW kings \in Nat
    PROVE  CurTypeList(idx, kings, color) \in Seq(Seq(SetItems(color)))
<1> DEFINE items == KindItems(idx, color)
<1> DEFINE most == MostItems(idx, color, items)
<1>1. items \in Seq(SetItems(color)) /\ Len(items) \in Nat
  BY KindItemsTyped, LenProperties
<1>2. Total(idx) \in Nat
  BY RowFacts
<1> HIDE DEF items
<1>3. most \in 0..Len(items)
  <2> DEFINE low == Lowest({Len(items), Total(idx) \div 3})
  <2> DEFINE T == {i \in 0..low : LET lists == Lists(items, i)
                                  IN  \E c \in DOMAIN lists : Allowed(idx, color, lists[c])}
  <2>1. low \in Nat /\ low <= Len(items)
    <3> DEFINE L == {Len(items), Total(idx) \div 3}
    <3>1. L \in SUBSET Nat /\ Len(items) \in L
      BY <1>1, <1>2
    <3> HIDE DEF L
    <3>2. Lowest(L) \in L /\ \A m \in L : Lowest(L) <= m
      BY <3>1, LowestOf
    <3>3. Lowest(L) \in Nat /\ Lowest(L) <= Len(items)
      BY <3>1, <3>2
    <3> QED
      BY <3>3 DEF L
  <2> HIDE DEF low
  <2>2. 0 \in T
    <3>1. 0 \in 0..Len(items) /\ 0 \in 0..low
      BY <1>1, <2>1
    <3>2. Lists(items, 0) = << <<>> >>
      BY <1>1, <3>1, ListsTyped
    <3>3. Allowed(idx, color, <<>>)
      <4> DEFINE pokers == CalcHuPokers(<<>>, color)
      <4>1. <<>> \in Seq(SetItems(color)) /\ Len(<<>>) = 0
        BY EmptySeq
      <4>2. /\ pokers \in Rows /\ Total(pokers) = 3 * 0
            /\ \A j \in Places : pokers[j] = Copies(color * 16 + j, <<>>)
        BY <4>1, PokersOfItems
      <4> HIDE DEF pokers
      <4>3. /\ Minus(pokers, idx) \in Rows
            /\ \A j \in Places : Minus(pokers, idx)[j] =
                                   IF pokers[j] > idx[j] THEN pokers[j] - idx[j] ELSE 0
        BY <4>2, MinusFacts
      <4>4. \A j \in Places : pokers[j] = 0 /\ idx[j] \in Nat
        BY <4>2, CopiesOfNone DEF Rows
      <4>5. \A j \in Places : Minus(pokers, idx)[j] = 0
        BY <4>3, <4>4
      <4>6. Total(Minus(pokers, idx)) = 0
        <5> DEFINE m == Minus(pokers, idx)
        <5>1. 11 \in Nat /\ m \in [1..11 -> Nat] /\ \A j \in 1..11 : m[j] = 0
          BY <4>3, <4>5, RowFacts DEF Places
        <5> HIDE DEF m
        <5>2. Total(m) = 0
          BY <5>1, TotalOfNothing
        <5> QED
          BY <5>2 DEF m
      <4> QED
        BY <4>6 DEF Allowed, CostOneItems, pokers
    <3>4. 1 \in DOMAIN Lists(items, 0) /\ Lists(items, 0)[1] = <<>>
      BY <3>2
    <3> QED
      BY <3>1, <3>3, <3>4
  <2>3. T \in SUBSET (0..low)
    OBVIOUS
  <2>4. most = Highest(T)
    BY DEF MostItems, low
  <2> HIDE DEF T, most
  <2>5. Highest(T) \in T
    BY <2>1, <2>2, <2>3, HighestOf
  <2>6. most \in 0..low
    BY <2>3, <2>4, <2>5
  <2> QED
    BY <1>1, <2>1, <2>6
<1>4. CurTypeList(idx, kings, color) =
          IF most * 3 + kings * 2 + 2 < Total(idx) THEN <<>> ELSE Lists(items, most)
  BY DEF CurTypeList, items
<1> HIDE DEF most
<1>5. Lists(items, most) \in Seq(Seq(SetItems(color)))
  BY <1>1, <1>3, ListsTyped
<1>6. <<>> \in Seq(Seq(SetItems(color)))
  BY EmptySeq
<1> QED
  BY <1>4, <1>5, <1>6

\* The best combination of a colour uses it up.
LEMMA ColorCombineUses ==
    ASSUME NEW color \in Colors, NEW idx \in Rows, NEW kings \in Nat
    PROVE  Uses(ColorCombine(idx, kings, color), idx, kings, color)
<1> DEFINE S == {NoCombine} \cup {WithList(idx, kings, color, list) : list \in Seq(SetItems(color))}
<1> DEFINE lists == CurTypeList(idx, kings, color)
<1> DEFINE combines == [c \in DOMAIN lists |-> WithList(idx, kings, color, lists[c])]
<1>1. lists \in Seq(Seq(SetItems(color)))
  BY CurTypeListTyped
<1>2. ColorCombine(idx, kings, color) = BestOf(combines)
  BY DEF ColorCombine
<1> HIDE DEF lists
<1>3. combines \in Seq(S)
  <2>1. DOMAIN lists = 1..Len(lists) /\ Len(lists) \in Nat
    BY <1>1, LenProperties
  <2>2. \A c \in 1..Len(lists) : lists[c] \in Seq(SetItems(color))
    BY <1>1, ElementOfSeq
  <2>3. combines \in [1..Len(lists) -> S]
    BY <2>1, <2>2
  <2> HIDE DEF combines, S
  <2> QED
    BY <2>1, <2>3, FunctionIsList
<1>4. NoCombine \in S
  OBVIOUS
<1>5. \A s \in S : Uses(s, idx, kings, color)
  BY NoCombineUses, WithListUses
<1> HIDE DEF S, combines
<1>6. BestOf(combines) \in S
  BY <1>3, <1>4, BestOfIn
<1> QED
  BY <1>2, <1>5, <1>6

-----------------------------------------------------------------------------
(***************************************************************************)
(* Mahjong: the hand is used up, one colour after the other.               *)
(***************************************************************************)
\* The items that can be shown.
ShownSets ==
    (UNION {SetItems(color) : color \in Colors}) \cup {Peng(p[1], p[2]) : p \in Nat \X (0..3)}
LeftDuis == {Dui(p[1], p[2]) : p \in Nat \X (0..1)}

LEMMA SeqOfMore ==
    ASSUME NEW S, NEW T, S \subseteq T, NEW s \in Seq(S)
    PROVE  s \in Seq(T)
<1>1. Len(s) \in Nat /\ s \in [1..Len(s) -> S]
  BY LenProperties
<1>2. s \in [1..Len(s) -> T]
  BY <1>1
<1> QED
  BY <1>1, <1>2, FunctionIsList

LEMMA ShownItems ==
    ASSUME NEW color \in Colors
    PROVE  /\ \A s \in Seq(SetItems(color)) : s \in Seq(ShownSets)
           /\ \A s \in Seq(DuiItems(color)) : s \in Seq(LeftDuis)
<1>1. SetItems(color) \subseteq ShownSets
  BY DEF ShownSets
<1>2. DuiItems(color) \subseteq LeftDuis
  <2> SUFFICES ASSUME NEW v \in DuiItems(color) PROVE v \in LeftDuis
    OBVIOUS
  <2>1. PICK p \in Places \X (0..1) : v = Dui(color * 16 + p[1], p[2])
    BY DEF DuiItems
  <2> DEFINE q == <<color * 16 + p[1], p[2]>>
  <2>2. q \in Nat \X (0..1) /\ q[1] = color * 16 + p[1] /\ q[2] = p[2]
    BY DEF Places, Colors
  <2> HIDE DEF q
  <2> QED
    BY <2>1, <2>2 DEF LeftDuis
<1> QED
  BY <1>1, <1>2, SeqOfMore

\* What the colours have used up after n of them.
AccSpace == [ok : BOOLEAN, kings : Nat, sets : Seq(ShownSets), duis : Seq(LeftDuis)]

Covers(acc, n, idx) ==
    \A color \in Colors : \A j \in Places :
        color < n => SubPokerIdx(idx, color)[j] <=
                         Copies(color * 16 + j, acc.sets) + Copies(color * 16 + j, acc.duis)

\* One more colour is covered, and pays with the kings that it takes.
LEMMA PaidFacts ==
    ASSUME NEW n \in 1..5, NEW acc \in AccSpace, acc.ok,
           NEW idx, \A color \in Colors : SubPokerIdx(idx, color) \in Rows
    PROVE  LET best == ColorCombine(SubPokerIdx(idx, n - 1), acc.kings, n - 1)
               next == Paid(acc, best)
           IN  /\ next \in AccSpace
               /\ next.ok =>
                     /\ 3 * Len(next.sets) + 2 * Len(next.duis) + next.kings =
                           3 * Len(acc.sets) + 2 * Len(acc.duis) + acc.kings
                              + Total(SubPokerIdx(idx, n - 1))
                     /\ Covers(acc, n - 1, idx) => Covers(next, n, idx)
<1> DEFINE color == n - 1
<1> DEFINE row == SubPokerIdx(idx, color)
<1> DEFINE best == ColorCombine(row, acc.kings, color)
<1> DEFINE next == Paid(acc, best)
<1>1. color \in Colors /\ acc.kings \in Nat /\ row \in Rows
  BY DEF Colors, AccSpace
<1> HIDE DEF row, color
<1>2. Uses(best, row, acc.kings, color)
  BY <1>1, ColorCombineUses
<1>3. next = IF ~ best.ok THEN [acc EXCEPT !.ok = FALSE]
             ELSE [acc EXCEPT !.kings = @ - best.kings, !.sets = @ \o best.sets, !.duis = @ \o best.duis]
  BY DEF Paid
<1> HIDE DEF best, next
<1> SUFFICES /\ next \in AccSpace
             /\ next.ok =>
                   /\ 3 * Len(next.sets) + 2 * Len(next.duis) + next.kings =
                         3 * Len(acc.sets) + 2 * Len(acc.duis) + acc.kings + Total(row)
                   /\ Covers(acc, n - 1, idx) => Covers(next, n, idx)
  BY DEF next, best, row, color
<1>4. CASE ~ best.ok
  <2>1. next = [acc EXCEPT !.ok = FALSE]
    BY <1>3, <1>4
  <2>2. next \in AccSpace /\ next.ok = FALSE
    BY <2>1 DEF AccSpace
  <2> QED
    BY <2>2
<1>5. CASE best.ok
  <2>1. /\ best.sets \in Seq(SetItems(color)) /\ best.duis \in Seq(DuiItems(color))
        /\ best.kings \in 0..acc.kings
        /\ 3 * Len(best.sets) + 2 * Len(best.duis) = Total(row) + best.kings
    BY <1>2, <1>5 DEF Uses
  <2>2. \A j \in Places :
            row[j] <= Copies(color * 16 + j, best.sets) + Copies(color * 16 + j, best.duis)
    BY <1>2, <1>5 DEF Uses
  <2>3. best.sets \in Seq(ShownSets) /\ best.duis \in Seq(LeftDuis)
    BY <1>1, <2>1, ShownItems
  <2>4. acc.sets \in Seq(ShownSets) /\ acc.duis \in Seq(LeftDuis)
    BY DEF AccSpace
  <2>5. /\ acc.sets \o best.sets \in Seq(ShownSets)
        /\ Len(acc.sets \o best.sets) = Len(acc.sets) + Len(best.sets)
    BY <2>3, <2>4, ConcatProperties
  <2>6. /\ acc.duis \o best.duis \in Seq(LeftDuis)
        /\ Len(acc.duis \o best.duis) = Len(acc.duis) + Len(best.duis)
    BY <2>3, <2>4, ConcatProperties
  <2>7. next = [acc EXCEPT !.kings = @ - best.kings, !.sets = @ \o best.sets, !.duis = @ \o best.duis]
    BY <1>3, <1>5
  <2>8. /\ next.ok = acc.ok /\ next.kings = acc.kings - best.kings
        /\ next.sets = acc.sets \o best.sets /\ next.duis = acc.duis \o best.duis
    BY <2>7 DEF AccSpace
  <2>9. acc.kings - best.kings \in Nat
    BY <1>1, <2>1
  <2>10. next \in AccSpace
    BY <2>5, <2>6, <2>7, <2>9 DEF AccSpace
  <2>11. 3 * Len(next.sets) + 2 * Len(next.duis) + next.kings =
            3 * Len(acc.sets) + 2 * Len(acc.duis) + acc.kings + Total(row)
    <3>1. PICK a \in Nat, b \in Nat, d \in Nat, e \in Nat, t \in Nat, k \in Nat, q \in Nat :
              /\ a = Len(acc.sets) /\ b = Len(best.sets) /\ d = Len(acc.duis) /\ e = Len(best.duis)
              /\ t = Total(row) /\ k = acc.kings /\ q = best.kings
      <4>1. /\ Len(acc.sets) \in Nat /\ Len(best.sets) \in Nat /\ Len(acc.duis) \in Nat
            /\ Len(best.duis) \in Nat
        BY <2>3, <2>4, LenProperties
      <4>2. Total(row) \in Nat /\ acc.kings \in Nat /\ best.kings \in Nat
        BY <1>1, <2>1, RowFacts
      <4> QED
        BY <4>1, <4>2
    <3>2. 3 * b + 2 * e = t + q
      BY <2>1, <3>1
    <3>3. 3 * (a + b) + 2 * (d + e) + (k - q) = 3 * a + 2 * d + k + t
      BY <3>2
    <3>4. Len(next.sets) = a + b /\ Len(next.duis) = d + e /\ next.kings = k - q
      BY <2>5, <2>6, <2>8, <3>1
    <3> QED
      BY <3>1, <3>3, <3>4
  <2>12. ASSUME Covers(acc, n - 1, idx) PROVE Covers(next, n, idx)
    <3> SUFFICES ASSUME NEW other \in Colors, NEW j \in Places, other < n
                 PROVE  SubPokerIdx(idx, other)[j] <=
                          Copies(other * 16 + j, next.sets) + Copies(other * 16 + j, next.duis)
      BY DEF Covers
    <3> DEFINE c == other * 16 + j
    <3>1. /\ Copies(c, acc.sets \o best.sets) = Copies(c, acc.sets) + Copies(c, best.sets)
          /\ Copies(c, acc.duis \o best.duis) = Copies(c, acc.duis) + Copies(c, best.duis)
      BY <2>3, <2>4, CopiesOfConcat
    <3>2. /\ Copies(c, acc.sets) \in Nat /\ Copies(c, best.sets) \in Nat
          /\ Copies(c, acc.duis) \in Nat /\ Copies(c, best.duis) \in Nat
      BY <2>3, <2>4, CopiesFacts
    <3>3. CASE other < n - 1
      <4>1. SubPokerIdx(idx, other)[j] <= Copies(c, acc.sets) + Copies(c, acc.duis)
        BY <2>12, <3>3 DEF Covers
      <4>2. SubPokerIdx(idx, other)[j] \in Nat
        BY DEF Rows
      <4> HIDE DEF c
      <4> QED
        BY <2>8, <3>1, <3>2, <4>1, <4>2 DEF c
    <3>4. CASE ~ (other < n - 1)
      <4>1. other = color
        BY <3>4 DEF Colors, color
      <4>2. SubPokerIdx(idx, other)[j] <= Copies(c, best.sets) + Copies(c, best.duis)
        BY <2>2, <4>1 DEF row
      <4>3. SubPokerIdx(idx, other)[j] \in Nat
        BY <1>1, <4>1 DEF Rows, row
      <4> HIDE DEF c
      <4> QED
        BY <2>8, <3>1, <3>2, <4>2, <4>3 DEF c
    <3> QED
      BY <3>3, <3>4
  <2> QED
    BY <2>10, <2>11, <2>12
<1> QED
  BY <1>4, <1>5

LEMMA TileOfColor ==
    ASSUME NEW c \in AllTiles
    PROVE  \E color \in Colors : \E j \in Numbers(color) : c = color * 16 + j /\ j \in Places
<1>1. PICK color \in Colors : c \in {color * 16 + j : j \in Numbers(color)}
  BY DEF AllTiles
<1>2. PICK j \in Numbers(color) : c = color * 16 + j
  BY <1>1
<1> QED
  BY <1>2, NumbersOfColor

\* A hand and its rows.
LEMMA HandRows ==
    ASSUME NEW idx \in [Tiles -> 0..4]
    PROVE  /\ \A color \in Colors : SubPokerIdx(idx, color) \in Rows
           /\ [n \in 1..5 |-> Total(SubPokerIdx(idx, n - 1))] \in [1..5 -> Nat]
           /\ HandLen(idx) \in Nat
           /\ \A c \in Tiles : \E color \in Colors : \E j \in Places :
                 c = color * 16 + j /\ SubPokerIdx(idx, color)[j] = idx[c]
<1>0. idx \in [Tiles -> Nat]
  OBVIOUS
<1>1. \A color \in Colors : SubPokerIdx(idx, color) \in Rows
  BY <1>0, SubPokerIdxFacts
<1> DEFINE u == [n \in 1..5 |-> Total(SubPokerIdx(idx, n - 1))]
<1>2. u \in [1..5 -> Nat]
  <2>1. \A n \in 1..5 : n - 1 \in Colors
    BY DEF Colors
  <2>2. \A n \in 1..5 : Total(SubPokerIdx(idx, n - 1)) \in Nat
    BY <1>1, <2>1, RowFacts
  <2> QED
    BY <2>2
<1>3. HandLen(idx) = Total(u)
  BY DEF HandLen
<1> HIDE DEF u
<1>4. Total(u) \in Nat
  <2>1. 5 \in Nat
    OBVIOUS
  <2> QED
    BY <1>2, <2>1, TotalIsNat
<1>5. ASSUME NEW c \in Tiles
      PROVE  \E color \in Colors : \E j \in Places :
                c = color * 16 + j /\ SubPokerIdx(idx, color)[j] = idx[c]
  <2>1. c \in AllTiles
    BY MaJiangAssumption
  <2>2. PICK color \in Colors : \E j \in Numbers(color) : c = color * 16 + j /\ j \in Places
    BY <2>1, TileOfColor
  <2>3. PICK j \in Numbers(color) : c = color * 16 + j /\ j \in Places
    BY <2>2
  <2>4. SubPokerIdx(idx, color)[j] = IF color * 16 + j \in Tiles /\ j \in Numbers(color)
                                     THEN idx[color * 16 + j] ELSE 0
    BY <1>0, <2>3, SubPokerIdxFacts
  <2>5. SubPokerIdx(idx, color)[j] = idx[c]
    BY <2>3, <2>4
  <2> QED
    BY <2>3, <2>5
<1> QED
  BY <1>1, <1>2, <1>3, <1>4, <1>5 DEF u

\* After the five colours all tiles are covered, and tiles and kings add up.
LEMMA ColoursUse ==
    ASSUME NEW idx \in [Tiles -> 0..4], NEW kings \in Nat
    PROVE  /\ Colours(idx, kings) \in AccSpace
           /\ Colours(idx, kings).ok =>
                 /\ 3 * Len(Colours(idx, kings).sets) + 2 * Len(Colours(idx, kings).duis)
                        + Colours(idx, kings).kings = HandLen(idx) + kings
                 /\ \A c \in Tiles : idx[c] <= Copies(c, Colours(idx, kings).sets)
                                                 + Copies(c, Colours(idx, kings).duis)
<1> DEFINE S == AccSpace
<1> DEFINE start == [ok |-> TRUE, kings |-> kings, sets |-> <<>>, duis |-> <<>>]
<1> DEFINE Body(acc, n) == IF ~ acc.ok THEN acc
                           ELSE Paid(acc, ColorCombine(SubPokerIdx(idx, n - 1), acc.kings, n - 1))
<1> DEFINE g == [p \in S \X (1..5) |-> Body(p[1], p[2])]
<1>1. \A color \in Colors : SubPokerIdx(idx, color) \in Rows
  BY HandRows
<1>2. start \in S
  BY EmptySeq DEF AccSpace
<1>3. \A s \in S : \A n \in 1..5 : g[<<s, n>>] = Body(s, n)
  OBVIOUS
<1>4. \A s \in S : \A n \in 1..5 : Body(s, n) \in S
  <2> SUFFICES ASSUME NEW s \in S, NEW n \in 1..5 PROVE Body(s, n) \in S
    BY Zenon
  <2>1. CASE ~ s.ok
    BY <2>1
  <2>2. CASE s.ok
    <3>1. Body(s, n) = Paid(s, ColorCombine(SubPokerIdx(idx, n - 1), s.kings, n - 1))
      BY <2>2
    <3>2. Paid(s, ColorCombine(SubPokerIdx(idx, n - 1), s.kings, n - 1)) \in AccSpace
      BY <1>1, <2>2, PaidFacts
    <3> QED
      BY <3>1, <3>2
  <2> QED
    BY <2>1, <2>2
<1> HIDE DEF g, Body, S, start
<1>5. \A s \in S : \A n \in 1..5 : g[<<s, n>>] \in S
  BY <1>3, <1>4
<1>0. 5 \in Nat
  OBVIOUS
<1>6. PICK h : IsLoop(h, 5, S, start, g)
  BY <1>0, <1>2, <1>5, Loop
<1>7. h = [n \in 0..5 |-> IF n = 0 THEN start ELSE Body(h[n - 1], n)]
  <2>1. ASSUME NEW n \in 0..5 PROVE h[n] = IF n = 0 THEN start ELSE Body(h[n - 1], n)
    <3>1. CASE n = 0
      BY <1>6, <3>1 DEF IsLoop
    <3>2. CASE n # 0
      <4>1. n \in 1..5 /\ n - 1 \in 0..5
        BY <3>2
      <4>2. h[n - 1] \in S /\ h[n] = g[<<h[n - 1], n>>]
        BY <1>6, <4>1 DEF IsLoop
      <4> QED
        BY <1>3, <3>2, <4>1, <4>2
    <3> QED
      BY <3>1, <3>2
  <2> QED
    BY <1>6, <2>1 DEF IsLoop
<1> DEFINE f == CHOOSE f : f = [n \in 0..5 |-> IF n = 0 THEN start ELSE Body(f[n - 1], n)]
<1>8. f = [n \in 0..5 |-> IF n = 0 THEN start ELSE Body(f[n - 1], n)]
  BY <1>7
<1>9. Colours(idx, kings) = f[5]
  BY DEF Colours, start, Body
<1> HIDE DEF f
<1>10. f[0] = start /\ \A n \in 1..5 : f[n] = Body(f[n - 1], n)
  BY <1>8
<1>11. f = [n \in 0..5 |-> f[n]]
  BY <1>8
<1>12. \A n \in 1..5 : f[n - 1] \in S => f[n] = g[<<f[n - 1], n>>]
  BY <1>3, <1>10
<1>13. IsLoop(f, 5, S, start, g)
  BY <1>0, <1>2, <1>5, <1>10, <1>11, <1>12, LoopTyped
<1>14. \A n \in 0..5 : f[n] \in AccSpace
  BY <1>13 DEF IsLoop, S
<1> DEFINE u == [n \in 1..5 |-> Total(SubPokerIdx(idx, n - 1))]
<1>15. u \in [1..5 -> Nat] /\ HandLen(idx) = Total(u)
  BY HandRows DEF HandLen
<1>16. \A n \in 1..5 : u[n] = Total(SubPokerIdx(idx, n - 1))
  OBVIOUS
<1> HIDE DEF u
<1>17. PICK t : IsTotal(t, 5, u) /\ Total(u) = t[5]
  BY <1>0, <1>15, TotalSteps
<1> DEFINE Adds(n) == 3 * Len(f[n].sets) + 2 * Len(f[n].duis) + f[n].kings = kings + t[n]
<1> DEFINE Done(n) == f[n].ok => Adds(n) /\ Covers(f[n], n, idx)
<1> DEFINE T == {n \in Nat : n <= 5 => Done(n)}
<1>18. 0 \in T
  <2>1. f[0].sets = <<>> /\ f[0].duis = <<>> /\ f[0].kings = kings
    BY <1>10 DEF start
  <2>2. t[0] = 0
    BY <1>17 DEF IsTotal
  <2>3. Len(<<>>) = 0
    BY EmptySeq
  <2>4. Covers(f[0], 0, idx)
    BY DEF Covers, Colors
  <2>5. 3 * Len(f[0].sets) + 2 * Len(f[0].duis) + f[0].kings = kings + t[0]
    BY <2>1, <2>2, <2>3
  <2>6. Adds(0)
    BY <2>5
  <2> HIDE DEF Adds
  <2> QED
    BY <2>4, <2>6
<1>19. ASSUME NEW k \in Nat, k \in T PROVE k + 1 \in T
  <2> HIDE DEF Done
  <2> SUFFICES ASSUME k + 1 <= 5 PROVE Done(k + 1)
    OBVIOUS
  <2>0. SUFFICES ASSUME f[k + 1].ok PROVE Adds(k + 1) /\ Covers(f[k + 1], k + 1, idx)
    BY Zenon DEF Done
  <2> HIDE DEF Adds
  <2> DEFINE n == k + 1
  <2>1. n \in 1..5 /\ n - 1 = k /\ k \in 0..5 /\ n \in 0..5
    OBVIOUS
  <2> HIDE DEF n
  <2>2. f[n] = Body(f[k], n) /\ f[k] \in AccSpace /\ f[n].ok
    BY <1>10, <1>14, <2>0, <2>1 DEF n
  <2>3. f[k].ok
    BY <2>2 DEF Body
  <2>4. f[n] = Paid(f[k], ColorCombine(SubPokerIdx(idx, n - 1), f[k].kings, n - 1))
    BY <2>2, <2>3 DEF Body
  <2>5. /\ 3 * Len(f[n].sets) + 2 * Len(f[n].duis) + f[n].kings =
              3 * Len(f[k].sets) + 2 * Len(f[k].duis) + f[k].kings + Total(SubPokerIdx(idx, n - 1))
        /\ Covers(f[k], n - 1, idx) => Covers(f[n], n, idx)
    BY <1>1, <2>1, <2>2, <2>3, <2>4, PaidFacts, ZenonT(40)
  <2>11. Done(k)
    BY <1>19, <2>1
  <2>6. Adds(k) /\ Covers(f[k], k, idx)
    BY <2>3, <2>11 DEF Done
  <2>7. t[n] = t[k] + u[n] /\ t[k] \in Nat /\ u[n] \in Nat
    BY <1>15, <1>17, <2>1 DEF IsTotal
  <2>8. u[n] = Total(SubPokerIdx(idx, n - 1))
    BY <1>16, <2>1
  <2>9. Covers(f[n], n, idx)
    BY <2>1, <2>5, <2>6
  <2>10. Adds(n)
    <3>1. 3 * Len(f[k].sets) + 2 * Len(f[k].duis) + f[k].kings = kings + t[k]
      BY <2>6 DEF Adds
    <3>2. (kings + t[k]) + u[n] = kings + t[n]
      BY <2>7
    <3>3. 3 * Len(f[n].sets) + 2 * Len(f[n].duis) + f[n].kings = kings + t[n]
      BY <2>5, <2>8, <3>1, <3>2
    <3> QED
      BY <3>3 DEF Adds
  <2> QED
    BY <2>9, <2>10 DEF n
<1> HIDE DEF Adds, Done
<1>20. \A k \in Nat : k \in T
  <2> HIDE DEF T
  <2> QED
    BY <1>18, <1>19, AllNumbers
<1>21. ASSUME f[5].ok
       PROVE  /\ 3 * Len(f[5].sets) + 2 * Len(f[5].duis) + f[5].kings = HandLen(idx) + kings
              /\ \A c \in Tiles : idx[c] <= Copies(c, f[5].sets) + Copies(c, f[5].duis)
  <2>5. Done(5)
    BY <1>20
  <2>1. Adds(5) /\ Covers(f[5], 5, idx)
    BY <1>21, <2>5 DEF Done
  <2>2. HandLen(idx) = t[5] /\ HandLen(idx) \in Nat
    BY <1>15, <1>17, HandRows
  <2>3. ASSUME NEW c \in Tiles PROVE idx[c] <= Copies(c, f[5].sets) + Copies(c, f[5].duis)
    <3>1. PICK color \in Colors : \E j \in Places :
              c = color * 16 + j /\ SubPokerIdx(idx, color)[j] = idx[c]
      BY HandRows
    <3>2. PICK j \in Places : c = color * 16 + j /\ SubPokerIdx(idx, color)[j] = idx[c]
      BY <3>1
    <3>3. color < 5
      BY DEF Colors
    <3>4. SubPokerIdx(idx, color)[j] <=
             Copies(color * 16 + j, f[5].sets) + Copies(color * 16 + j, f[5].duis)
      BY <2>1, <3>3 DEF Covers
    <3> QED
      BY <3>2, <3>4
  <2>4. 3 * Len(f[5].sets) + 2 * Len(f[5].duis) + f[5].kings = HandLen(idx) + kings
    <3>1. 3 * Len(f[5].sets) + 2 * Len(f[5].duis) + f[5].kings = kings + t[5]
      BY <2>1 DEF Adds
    <3>2. kings + t[5] = HandLen(idx) + kings
      BY <2>2
    <3> QED
      BY <3>1, <3>2
  <2> QED
    BY <2>3, <2>4
<1>22. f[5] \in AccSpace
  BY <1>14
<1> QED
  BY <1>9, <1>21, <1>22

-----------------------------------------------------------------------------
(***************************************************************************)
(* Mahjong: the list that is shown.                                        *)
(***************************************************************************)
\* Items of the list are what their types say.
LEMMA ShownSetFacts ==
    ASSUME NEW v \in ShownSets
    PROVE  IsSet(v) /\ ~ IsDui(v) /\ v.kings \in 0..3
<1>1. CASE v \in UNION {SetItems(color) : color \in Colors}
  <2>1. PICK color \in Colors : v \in SetItems(color)
    BY <1>1
  <2> QED
    BY <2>1, SetItemFacts
<1>2. CASE v \in {Peng(p[1], p[2]) : p \in Nat \X (0..3)}
  <2>1. PICK p \in Nat \X (0..3) : v = Peng(p[1], p[2])
    BY <1>2
  <2>2. v.kings = p[2] /\ p[2] \in 0..3 /\ IsSet(v) /\ ~ IsDui(v)
    BY <2>1, ItemFields
  <2> QED
    BY <2>2
<1> QED
  BY <1>1, <1>2 DEF ShownSets

LEMMA PengIsShown ==
    ASSUME NEW c \in Nat, NEW k \in 0..3
    PROVE  Peng(c, k) \in ShownSets
<1> DEFINE p == <<c, k>>
<1>1. p \in Nat \X (0..3) /\ Peng(c, k) = Peng(p[1], p[2])
  OBVIOUS
<1> QED
  BY <1>1 DEF ShownSets

LEMMA LeftDuiIs ==
    ASSUME NEW v \in LeftDuis
    PROVE  /\ v.cards[1] \in Nat /\ v.cards[2] = v.cards[1] /\ v.type = "dui"
           /\ v.kings \in 0..1 /\ IsDui(v)
<1>1. PICK p \in Nat \X (0..1) : v = Dui(p[1], p[2])
  BY DEF LeftDuis
<1>2. /\ v.cards = <<p[1], p[1]>> /\ v.type = "dui" /\ v.kings = p[2] /\ IsDui(v)
  BY <1>1, ItemFields
<1> QED
  BY <1>2

\* More of each is more of all.
LEMMA TotalOfMore ==
    ASSUME NEW n \in Nat, NEW s \in [1..n -> Nat], NEW t \in [1..n -> Nat],
           \A k \in 1..n : s[k] <= t[k]
    PROVE  Total(s) <= Total(t)
<1> DEFINE d == [k \in 1..n |-> t[k] - s[k]]
<1>1. d \in [1..n -> Nat]
  OBVIOUS
<1>2. \A k \in 1..n : t[k] = s[k] + d[k]
  OBVIOUS
<1> HIDE DEF d
<1>3. Total(t) = Total(s) + Total(d)
  BY <1>1, <1>2, TotalOfSums
<1>4. Total(s) \in Nat /\ Total(d) \in Nat
  BY <1>1, TotalIsNat
<1> QED
  BY <1>3, <1>4

\* A pair that gets a king is a set, and has the tiles it had.
LEMMA FilledFacts ==
    ASSUME NEW duis \in Seq(LeftDuis)
    PROVE  /\ Filled(duis) \in Seq(ShownSets)
           /\ Len(Filled(duis)) = Len(duis)
           /\ \A c : Copies(c, duis) <= Copies(c, Filled(duis))
<1> DEFINE n == Len(duis)
<1>1. n \in Nat /\ DOMAIN duis = 1..n /\ \A k \in 1..n : duis[k] \in LeftDuis
  BY LenProperties, ElementOfSeq
<1>2. Filled(duis) = [k \in 1..n |-> Fill(duis[k])]
  BY <1>1 DEF Filled
<1>3. \A v \in LeftDuis : Fill(v) \in ShownSets
  <2> SUFFICES ASSUME NEW v \in LeftDuis PROVE Fill(v) \in ShownSets
    OBVIOUS
  <2>1. v.cards[1] \in Nat /\ v.kings + 1 \in 0..3
    BY LeftDuiIs
  <2> QED
    BY <2>1, PengIsShown DEF Fill
<1> HIDE DEF n
<1>4. Filled(duis) \in [1..n -> ShownSets]
  BY <1>1, <1>2, <1>3
<1>5. Filled(duis) \in Seq(ShownSets) /\ Len(Filled(duis)) = n
  BY <1>1, <1>4, FunctionIsList
<1>6. ASSUME NEW c PROVE Copies(c, duis) <= Copies(c, Filled(duis))
  <2> DEFINE x == CopiesOfEach(c, duis)
  <2> DEFINE y == CopiesOfEach(c, Filled(duis))
  <2>1. /\ x \in [1..n -> Nat] /\ Copies(c, duis) = Total(x)
        /\ y \in [1..n -> Nat] /\ Copies(c, Filled(duis)) = Total(y)
    BY <1>5, CopiesFacts DEF n
  <2>2. ASSUME NEW k \in 1..n PROVE x[k] <= y[k]
    <3> DEFINE v == duis[k]
    <3>1. x[k] = InItem(c, v)
      BY <1>1 DEF CopiesOfEach
    <3>2. y[k] = InItem(c, Fill(v))
      BY <1>2 DEF CopiesOfEach
    <3>3. v \in LeftDuis
      BY <1>1
    <3> HIDE DEF v, x, y
    <3>4. v.cards[2] = v.cards[1] /\ v.type = "dui"
      BY <3>3, LeftDuiIs
    <3>5. /\ Fill(v).cards = <<v.cards[1], v.cards[1], v.cards[1]>> /\ Fill(v).type = "peng"
      BY ItemFields DEF Fill
    <3>6. InItem(c, v) = Same(v.cards[1], c) + Same(v.cards[1], c)
      BY <3>4 DEF InItem, Same
    <3>7. InItem(c, Fill(v)) = Same(v.cards[1], c) + Same(v.cards[1], c) + Same(v.cards[1], c)
      BY <3>5 DEF InItem
    <3>8. Same(v.cards[1], c) \in 0..1
      BY DEF Same
    <3> QED
      BY <3>1, <3>2, <3>6, <3>7, <3>8
  <2> HIDE DEF x, y
  <2> QED
    BY <1>1, <2>1, <2>2, TotalOfMore
<1> QED
  BY <1>5, <1>6 DEF n

\* Sets of kings: every third king makes one.
LEMMA KingPengsFacts ==
    ASSUME NEW kings \in Nat
    PROVE  /\ KingPengs(kings) \in Seq(ShownSets)
           /\ Len(KingPengs(kings)) = (kings + 2) \div 3
<1> DEFINE n == (kings + 2) \div 3
<1>1. n \in Nat
  OBVIOUS
<1>2. Peng(KingPoker, 3) \in ShownSets
  BY MaJiangAssumption, PengIsShown
<1>3. KingPengs(kings) = [k \in 1..n |-> Peng(KingPoker, 3)]
  BY DEF KingPengs
<1> HIDE DEF n
<1>4. KingPengs(kings) \in [1..n -> ShownSets]
  BY <1>2, <1>3
<1>5. KingPengs(kings) \in Seq(ShownSets) /\ Len(KingPengs(kings)) = n
  BY <1>1, <1>4, FunctionIsList
<1> QED
  BY <1>5 DEF n

\* How many pairs a list shows.
LEMMA NoDuiShown ==
    ASSUME NEW list \in Seq(ShownSets)
    PROVE  /\ Cardinality({k \in DOMAIN list : IsDui(list[k])}) = 0
           /\ \A k \in DOMAIN list : IsSet(list[k]) /\ list[k].kings \in 0..3
<1>1. DOMAIN list = 1..Len(list) /\ \A k \in 1..Len(list) : list[k] \in ShownSets
  BY LenProperties, ElementOfSeq
<1>2. \A k \in DOMAIN list : IsSet(list[k]) /\ ~ IsDui(list[k]) /\ list[k].kings \in 0..3
  BY <1>1, ShownSetFacts
<1>3. {k \in DOMAIN list : IsDui(list[k])} = {}
  BY <1>2
<1> QED
  BY <1>2, <1>3, FS_EmptySet

OneDui(list, a, v, b) ==
    /\ Cardinality({k \in DOMAIN list : IsDui(list[k])}) = 1
    /\ \A k \in DOMAIN list : (IsSet(list[k]) \/ IsDui(list[k])) /\ list[k].kings \in 0..3
    /\ Len(list) = Len(a) + 1 + Len(b)
    /\ \A d : Copies(d, list) = Copies(d, a) + Copies(d, <<v>>) + Copies(d, b)

\* A list with one pair in it.
LEMMA OneDuiShown ==
    ASSUME NEW a \in Seq(ShownSets), NEW b \in Seq(ShownSets),
           NEW c \in Nat, NEW kings \in 0..3
    PROVE  OneDui(a \o <<Dui(c, kings)>> \o b, a, Dui(c, kings), b)
<1> DEFINE v == Dui(c, kings)
<1> DEFINE W == ShownSets \cup {v}
<1> DEFINE list == a \o <<v>> \o b
<1>1. IsDui(v) /\ v.kings = kings
  BY ItemFields
<1> HIDE DEF v
<1>2. a \in Seq(W) /\ b \in Seq(W) /\ <<v>> \in Seq(W) /\ Len(<<v>>) = 1 /\ <<v>>[1] = v
  <2>1. ShownSets \subseteq W /\ v \in W
    OBVIOUS
  <2>2. a \in Seq(W) /\ b \in Seq(W)
    <3> HIDE DEF W
    <3> QED
      BY <2>1, SeqOfMore
  <2> HIDE DEF W
  <2> QED
    BY <2>1, <2>2
<1> HIDE DEF W
<1>3. Len(a) \in Nat /\ Len(b) \in Nat
  BY LenProperties
<1>4. /\ a \o <<v>> \in Seq(W) /\ Len(a \o <<v>>) = Len(a) + 1
      /\ \A i \in 1..(Len(a) + 1) : (a \o <<v>>)[i] = IF i <= Len(a) THEN a[i] ELSE v
  <2>1. /\ a \o <<v>> \in Seq(W) /\ Len(a \o <<v>>) = Len(a) + Len(<<v>>)
        /\ \A i \in 1..(Len(a) + Len(<<v>>)) :
              (a \o <<v>>)[i] = IF i <= Len(a) THEN a[i] ELSE <<v>>[i - Len(a)]
    BY <1>2, ConcatProperties
  <2>2. \A i \in 1..(Len(a) + 1) : ~ (i <= Len(a)) => i - Len(a) = 1
    BY <1>3
  <2> QED
    BY <1>2, <2>1, <2>2
<1>5. /\ list \in Seq(W) /\ Len(list) = Len(a) + 1 + Len(b)
      /\ \A i \in 1..(Len(a) + 1 + Len(b)) :
            list[i] = IF i <= Len(a) + 1 THEN (a \o <<v>>)[i] ELSE b[i - (Len(a) + 1)]
  BY <1>2, <1>4, ConcatProperties
<1> HIDE DEF list
<1>6. DOMAIN list = 1..(Len(a) + 1 + Len(b))
  BY <1>5, LenProperties
<1>7. \A i \in 1..(Len(a) + 1 + Len(b)) :
         list[i] = IF i <= Len(a) THEN a[i] ELSE IF i = Len(a) + 1 THEN v ELSE b[i - (Len(a) + 1)]
  BY <1>3, <1>4, <1>5
<1>8. /\ \A i \in 1..Len(a) : a[i] \in ShownSets
      /\ \A i \in 1..Len(b) : b[i] \in ShownSets
  BY ElementOfSeq
<1>9. ASSUME NEW i \in 1..(Len(a) + 1 + Len(b))
      PROVE  /\ i = Len(a) + 1 => list[i] = v
             /\ i # Len(a) + 1 => list[i] \in ShownSets
  <2>1. CASE i <= Len(a)
    BY <1>3, <1>7, <1>8, <2>1
  <2>2. CASE i = Len(a) + 1
    BY <1>3, <1>7, <2>2
  <2>3. CASE i > Len(a) + 1
    <3>1. i - (Len(a) + 1) \in 1..Len(b)
      BY <1>3, <2>3
    <3>2. list[i] = b[i - (Len(a) + 1)]
      BY <1>3, <1>7, <2>3
    <3> QED
      BY <1>3, <1>8, <2>3, <3>1, <3>2
  <2> QED
    BY <1>3, <2>1, <2>2, <2>3
<1>10. {k \in DOMAIN list : IsDui(list[k])} = {Len(a) + 1}
  <2>1. \A k \in DOMAIN list : IsDui(list[k]) <=> k = Len(a) + 1
    BY <1>1, <1>6, <1>9, ShownSetFacts
  <2>2. Len(a) + 1 \in DOMAIN list
    BY <1>3, <1>6
  <2> QED
    BY <2>1, <2>2
<1>11. Cardinality({k \in DOMAIN list : IsDui(list[k])}) = 1
  BY <1>10, FS_Singleton
<1>12. \A k \in DOMAIN list : (IsSet(list[k]) \/ IsDui(list[k])) /\ list[k].kings \in 0..3
  BY <1>1, <1>6, <1>9, ShownSetFacts
<1>13. ASSUME NEW d PROVE Copies(d, list) = Copies(d, a) + Copies(d, <<v>>) + Copies(d, b)
  <2>1. Copies(d, list) = Copies(d, a \o <<v>>) + Copies(d, b)
    BY <1>2, <1>4, CopiesOfConcat DEF list
  <2>2. Copies(d, a \o <<v>>) = Copies(d, a) + Copies(d, <<v>>)
    BY <1>2, CopiesOfConcat
  <2> QED
    BY <2>1, <2>2
<1>14. OneDui(list, a, v, b)
  BY <1>5, <1>11, <1>12, <1>13 DEF OneDui
<1> QED
  BY <1>14 DEF list, v

\* An answer that shows a hand of so many tiles.
Shown(a, idx, number) ==
    /\ a.hu \in BOOLEAN
    /\ \A k \in DOMAIN a.list : (IsSet(a.list[k]) \/ IsDui(a.list[k])) /\ a.list[k].kings \in 0..3
    /\ a.hu => /\ \A c \in Tiles : idx[c] <= Copies(c, a.list)
               /\ Cardinality({k \in DOMAIN a.list : IsDui(a.list[k])}) = (number % 3) \div 2
               /\ 3 * Len(a.list) - (number % 3) \div 2 = number

LEMMA NoHuShown == \A idx, number : Shown(NoHu, idx, number)
  BY DEF Shown, NoHu

\* When nothing is over for a pair all pairs become sets, with a king each.
LEMMA FullHuShown ==
    ASSUME NEW idx \in [Tiles -> 0..4], NEW number \in Nat, number % 3 = 0,
           NEW sets \in Seq(ShownSets), NEW duis \in Seq(LeftDuis), NEW kings \in Nat,
           3 * Len(sets) + 2 * Len(duis) + kings = number,
           \A c \in Tiles : idx[c] <= Copies(c, sets) + Copies(c, duis)
    PROVE  Shown(FullHu(sets, duis, kings), idx, number)
<1> DEFINE ans == FullHu(sets, duis, kings)
<1> DEFINE rest == kings - Len(duis)
<1> DEFINE list == sets \o Filled(duis) \o KingPengs(rest)
<1>0. Len(sets) \in Nat /\ Len(duis) \in Nat
  BY LenProperties
<1>1. CASE kings < Len(duis)
  BY <1>1, NoHuShown DEF FullHu
<1>2. CASE ~ (kings < Len(duis))
  <2>1. ans.hu = TRUE /\ ans.list = list
    BY <1>2 DEF FullHu, Hu
  <2>2. rest \in Nat
    BY <1>0, <1>2
  <2>3. PICK m \in Nat : number = 3 * m
    <3>1. number = 3 * (number \div 3) /\ number \div 3 \in Nat
      OBVIOUS
    <3> QED
      BY <3>1
  <2>4. (rest + 2) \div 3 = m - Len(sets) - Len(duis)
    <3>1. rest = 3 * (m - Len(sets) - Len(duis))
      BY <1>0, <2>3
    <3>2. PICK q \in Int : q = m - Len(sets) - Len(duis)
      <4>1. m - Len(sets) - Len(duis) \in Int
        BY <1>0
      <4> QED
        BY <4>1
    <3>3. (3 * q + 2) \div 3 = q
      OBVIOUS
    <3> QED
      BY <3>1, <3>2, <3>3
  <2> HIDE DEF ans, rest
  <2>5. KingPengs(rest) \in Seq(ShownSets) /\ Len(KingPengs(rest)) = m - Len(sets) - Len(duis)
    BY <2>2, <2>4, KingPengsFacts
  <2>6. Filled(duis) \in Seq(ShownSets) /\ Len(Filled(duis)) = Len(duis)
    BY FilledFacts
  <2>7. /\ sets \o Filled(duis) \in Seq(ShownSets)
        /\ Len(sets \o Filled(duis)) = Len(sets) + Len(duis)
    <3>1. /\ sets \o Filled(duis) \in Seq(ShownSets)
          /\ Len(sets \o Filled(duis)) = Len(sets) + Len(Filled(duis))
      BY <2>6, ConcatProperties
    <3> QED
      BY <2>6, <3>1
  <2>8. /\ list \in Seq(ShownSets)
        /\ Len(list) = Len(sets \o Filled(duis)) + Len(KingPengs(rest))
    BY <2>5, <2>7, ConcatProperties
  <2>9. \A c \in Tiles : idx[c] <= Copies(c, list)
    <3> SUFFICES ASSUME NEW c \in Tiles PROVE idx[c] <= Copies(c, list)
      OBVIOUS
    <3>1. Copies(c, list) = Copies(c, sets \o Filled(duis)) + Copies(c, KingPengs(rest))
      BY <2>5, <2>7, CopiesOfConcat
    <3>2. Copies(c, sets \o Filled(duis)) = Copies(c, sets) + Copies(c, Filled(duis))
      BY <2>6, CopiesOfConcat
    <3>3. /\ Copies(c, sets) \in Nat /\ Copies(c, Filled(duis)) \in Nat
          /\ Copies(c, KingPengs(rest)) \in Nat /\ Copies(c, duis) \in Nat
      BY <2>5, <2>6, CopiesFacts
    <3>4. Copies(c, duis) <= Copies(c, Filled(duis))
      BY FilledFacts
    <3>5. idx[c] \in Nat /\ idx[c] <= Copies(c, sets) + Copies(c, duis)
      OBVIOUS
    <3> HIDE DEF list
    <3> QED
      BY <3>1, <3>2, <3>3, <3>4, <3>5
  <2> HIDE DEF list
  <2>10. /\ Cardinality({k \in DOMAIN list : IsDui(list[k])}) = 0
         /\ \A k \in DOMAIN list : IsSet(list[k]) /\ list[k].kings \in 0..3
    BY <2>8, NoDuiShown
  <2>11. Len(list) = m
    BY <1>0, <2>3, <2>5, <2>7, <2>8
  <2>12. (number % 3) \div 2 = 0 /\ 3 * m - 0 = number
    BY <2>3
  <2>13. Shown(ans, idx, number)
    BY <2>1, <2>9, <2>10, <2>11, <2>12 DEF Shown
  <2> QED
    BY <2>13 DEF ans
<1> QED
  BY <1>1, <1>2

\* A list is what is before one of its pairs, the pair, and what is behind it.
LEMMA OthersFacts ==
    ASSUME NEW S, NEW duis \in Seq(S), NEW stays \in 1..Len(duis)
    PROVE  LET a == SubSeq(duis, 1, stays - 1)
               b == SubSeq(duis, stays + 1, Len(duis))
           IN  /\ a \o b \in Seq(S) /\ Len(a \o b) = Len(duis) - 1
               /\ duis[stays] \in S
               /\ \A c : Copies(c, duis) = Copies(c, a \o b) + Copies(c, <<duis[stays]>>)
<1> DEFINE a == SubSeq(duis, 1, stays - 1)
<1> DEFINE b == SubSeq(duis, stays + 1, Len(duis))
<1> DEFINE v == <<duis[stays]>>
<1>1. Len(duis) \in Nat /\ \A k \in 1..Len(duis) : duis[k] \in S
  BY LenProperties, ElementOfSeq
<1>2. /\ a \in Seq(S) /\ Len(a) = stays - 1
      /\ \A i \in 1..(stays - 1) : a[i] = duis[i]
  <2>1. 1 \in Int /\ stays - 1 \in Int /\ \A i \in 1..(stays - 1) : duis[i] \in S
    BY <1>1
  <2>2. /\ a \in Seq(S)
        /\ Len(a) = IF 1 <= stays - 1 THEN (stays - 1) - 1 + 1 ELSE 0
        /\ \A i \in 1..((stays - 1) - 1 + 1) : a[i] = duis[1 + i - 1]
    BY <2>1, SubSeqProperties
  <2> HIDE DEF a
  <2>3. Len(a) = stays - 1
    BY <1>1, <2>2
  <2>4. ASSUME NEW i \in 1..(stays - 1) PROVE a[i] = duis[i]
    <3>1. i \in 1..((stays - 1) - 1 + 1) /\ 1 + i - 1 = i
      BY <1>1
    <3> QED
      BY <2>2, <3>1
  <2> QED
    BY <2>2, <2>3, <2>4
<1>3. /\ b \in Seq(S) /\ Len(b) = Len(duis) - stays
      /\ \A i \in 1..(Len(duis) - stays) : b[i] = duis[stays + i]
  <2>1. stays + 1 \in Int /\ Len(duis) \in Int /\ \A i \in (stays + 1)..Len(duis) : duis[i] \in S
    BY <1>1
  <2>2. /\ b \in Seq(S)
        /\ Len(b) = IF stays + 1 <= Len(duis) THEN Len(duis) - (stays + 1) + 1 ELSE 0
        /\ \A i \in 1..(Len(duis) - (stays + 1) + 1) : b[i] = duis[(stays + 1) + i - 1]
    BY <2>1, SubSeqProperties
  <2> HIDE DEF b
  <2>3. Len(b) = Len(duis) - stays
    BY <1>1, <2>2
  <2>4. ASSUME NEW i \in 1..(Len(duis) - stays) PROVE b[i] = duis[stays + i]
    <3>1. i \in 1..(Len(duis) - (stays + 1) + 1) /\ (stays + 1) + i - 1 = stays + i
      BY <1>1
    <3> QED
      BY <2>2, <3>1
  <2> QED
    BY <2>2, <2>3, <2>4
<1>4. v \in Seq(S) /\ Len(v) = 1 /\ v[1] = duis[stays]
  <2>1. duis[stays] \in S
    BY <1>1
  <2> QED
    BY <2>1
<1> HIDE DEF a, b, v
<1>5. /\ a \o v \in Seq(S) /\ Len(a \o v) = Len(a) + Len(v)
      /\ \A i \in 1..(Len(a) + Len(v)) : (a \o v)[i] = IF i <= Len(a) THEN a[i] ELSE v[i - Len(a)]
  BY <1>2, <1>4, ConcatProperties
<1>6. /\ (a \o v) \o b \in Seq(S) /\ Len((a \o v) \o b) = Len(a \o v) + Len(b)
      /\ \A i \in 1..(Len(a \o v) + Len(b)) :
            ((a \o v) \o b)[i] = IF i <= Len(a \o v) THEN (a \o v)[i] ELSE b[i - Len(a \o v)]
  <2> DEFINE w == a \o v
  <2>1. w \in Seq(S)
    BY <1>5
  <2> HIDE DEF w
  <2>2. /\ w \o b \in Seq(S) /\ Len(w \o b) = Len(w) + Len(b)
        /\ \A i \in 1..(Len(w) + Len(b)) : (w \o b)[i] = IF i <= Len(w) THEN w[i] ELSE b[i - Len(w)]
    BY <1>3, <2>1, ConcatProperties
  <2> QED
    BY <2>2 DEF w
<1>7. duis = (a \o v) \o b
  <2>1. Len(a \o v) = stays /\ Len((a \o v) \o b) = Len(duis)
    BY <1>1, <1>2, <1>3, <1>4, <1>5, <1>6
  <2>2. ASSUME NEW i \in 1..Len(duis) PROVE ((a \o v) \o b)[i] = duis[i]
    <3>1. CASE i < stays
      <4>1. i \in 1..(stays - 1) /\ i <= Len(a) /\ i <= Len(a \o v) /\ i \in 1..(Len(a) + Len(v))
        BY <1>1, <1>2, <1>4, <2>1, <3>1
      <4>2. i \in 1..(Len(a \o v) + Len(b))
        BY <1>3, <2>1, <1>1
      <4> QED
        BY <1>2, <1>5, <1>6, <4>1, <4>2
    <3>2. CASE i = stays
      <4>1. ~ (i <= Len(a)) /\ i - Len(a) = 1 /\ i <= Len(a \o v) /\ i \in 1..(Len(a) + Len(v))
        BY <1>1, <1>2, <1>4, <2>1, <3>2
      <4>2. i \in 1..(Len(a \o v) + Len(b))
        BY <1>3, <2>1, <1>1
      <4> QED
        BY <1>4, <1>5, <1>6, <3>2, <4>1, <4>2
    <3>3. CASE i > stays
      <4>1. ~ (i <= Len(a \o v)) /\ i - Len(a \o v) = i - stays /\ i - stays \in 1..(Len(duis) - stays)
        BY <1>1, <2>1, <3>3
      <4>2. i \in 1..(Len(a \o v) + Len(b)) /\ stays + (i - stays) = i
        BY <1>3, <2>1, <1>1
      <4>3. ((a \o v) \o b)[i] = b[i - stays]
        BY <1>6, <4>1, <4>2
      <4>4. b[i - stays] = duis[stays + (i - stays)]
        BY <1>3, <4>1
      <4> QED
        BY <4>2, <4>3, <4>4
    <3>4. i \in Nat /\ stays \in Nat
      BY <1>1
    <3>5. i < stays \/ i = stays \/ i > stays
      BY <3>4
    <3> QED
      BY <3>1, <3>2, <3>3, <3>5
  <2> QED
    BY <1>6, <2>1, <2>2, SeqEqual
<1>8. a \o b \in Seq(S) /\ Len(a \o b) = Len(a) + Len(b)
  BY <1>2, <1>3, ConcatProperties
<1>9. Len(a \o b) = Len(duis) - 1
  BY <1>1, <1>2, <1>3, <1>8
<1>10. ASSUME NEW c PROVE Copies(c, duis) = Copies(c, a \o b) + Copies(c, v)
  <2>1. Copies(c, duis) = Copies(c, a \o v) + Copies(c, b)
    BY <1>3, <1>5, <1>7, CopiesOfConcat
  <2>2. Copies(c, a \o v) = Copies(c, a) + Copies(c, v)
    BY <1>2, <1>4, CopiesOfConcat
  <2>3. Copies(c, a \o b) = Copies(c, a) + Copies(c, b)
    BY <1>2, <1>3, CopiesOfConcat
  <2>4. Copies(c, a) \in Nat /\ Copies(c, b) \in Nat /\ Copies(c, v) \in Nat
    BY <1>2, <1>3, <1>4, CopiesFacts
  <2> QED
    BY <2>1, <2>2, <2>3, <2>4
<1>11. duis[stays] \in S
  BY <1>1
<1> QED
  BY <1>8, <1>9, <1>10, <1>11 DEF a, b, v

\* With enough kings for every pair, two more are the pair of the hand.
LEMMA PairOfKings ==
    ASSUME NEW idx \in [Tiles -> 0..4], NEW number \in Nat, number % 3 = 2,
           NEW sets \in Seq(ShownSets), NEW duis \in Seq(LeftDuis), NEW kings \in Nat,
           3 * Len(sets) + 2 * Len(duis) + kings = number,
           \A c \in Tiles : idx[c] <= Copies(c, sets) + Copies(c, duis),
           kings >= Len(duis)
    PROVE  Shown(PairHu(sets, duis, kings), idx, number)
<1> DEFINE ans == PairHu(sets, duis, kings)
<1> DEFINE rest == kings - Len(duis) - 2
<1> DEFINE front == sets \o Filled(duis)
<1> DEFINE list == front \o <<Dui(KingPoker, 2)>> \o KingPengs(rest)
<1>0. Len(sets) \in Nat /\ Len(duis) \in Nat
  BY LenProperties
<1>1. ans.hu = TRUE /\ ans.list = list
  <2>1. ~ (kings + 1 < Len(duis))
    BY <1>0
  <2> QED
    BY <2>1 DEF PairHu, Hu
<1>2. PICK m \in Nat : number = 3 * m + 2
  <2>1. number = 3 * (number \div 3) + 2 /\ number \div 3 \in Nat
    OBVIOUS
  <2> QED
    BY <2>1
<1>3. PICK q \in Nat : q = m - Len(sets) - Len(duis) /\ rest = 3 * q
  <2>1. rest = 3 * (m - Len(sets) - Len(duis))
    BY <1>0, <1>2
  <2>2. m - Len(sets) - Len(duis) \in Int /\ rest >= 0 - 2
    BY <1>0
  <2>3. m - Len(sets) - Len(duis) \in Nat
    BY <1>0, <2>1, <2>2
  <2> QED
    BY <2>1, <2>3
<1>4. rest \in Nat /\ (rest + 2) \div 3 = q
  <2>1. (3 * q + 2) \div 3 = q
    OBVIOUS
  <2> QED
    BY <1>3, <2>1, SMTT(30)
<1> HIDE DEF ans, rest
<1>5. KingPengs(rest) \in Seq(ShownSets) /\ Len(KingPengs(rest)) = q
  BY <1>4, KingPengsFacts
<1>6. Filled(duis) \in Seq(ShownSets) /\ Len(Filled(duis)) = Len(duis)
  BY FilledFacts
<1>7. front \in Seq(ShownSets) /\ Len(front) = Len(sets) + Len(duis)
  <2>1. front \in Seq(ShownSets) /\ Len(front) = Len(sets) + Len(Filled(duis))
    BY <1>6, ConcatProperties
  <2> HIDE DEF front
  <2> QED
    BY <1>6, <2>1
<1>8. \A c \in Tiles : idx[c] <= Copies(c, front) /\ Copies(c, front) \in Nat
  <2> SUFFICES ASSUME NEW c \in Tiles PROVE idx[c] <= Copies(c, front) /\ Copies(c, front) \in Nat
    OBVIOUS
  <2>1. Copies(c, front) = Copies(c, sets) + Copies(c, Filled(duis))
    BY <1>6, CopiesOfConcat
  <2>2. Copies(c, sets) \in Nat /\ Copies(c, Filled(duis)) \in Nat /\ Copies(c, duis) \in Nat
    BY <1>6, CopiesFacts
  <2>3. Copies(c, duis) <= Copies(c, Filled(duis))
    BY FilledFacts
  <2>4. idx[c] \in Nat /\ idx[c] <= Copies(c, sets) + Copies(c, duis)
    OBVIOUS
  <2> HIDE DEF front
  <2> QED
    BY <2>1, <2>2, <2>3, <2>4
<1>9. KingPoker \in Nat /\ 2 \in 0..3
  BY MaJiangAssumption
<1> DEFINE back == KingPengs(rest)
<1>10. list = front \o <<Dui(KingPoker, 2)>> \o back
  OBVIOUS
<1>11. back \in Seq(ShownSets) /\ Len(back) = q
  BY <1>5
<1> HIDE DEF list, front, back
<1>12. OneDui(list, front, Dui(KingPoker, 2), back)
  <2>1. OneDui(front \o <<Dui(KingPoker, 2)>> \o back, front, Dui(KingPoker, 2), back)
    BY <1>7, <1>9, <1>11, OneDuiShown
  <2> QED
    BY <1>10, <2>1
<1>13. ASSUME NEW c \in Tiles PROVE idx[c] <= Copies(c, list)
  <2>1. Copies(c, <<Dui(KingPoker, 2)>>) \in Nat
    BY CopiesOfOne, InItemIsNat
  <2>2. Copies(c, back) \in Nat
    BY <1>11, CopiesFacts
  <2>3. Copies(c, list) = Copies(c, front) + Copies(c, <<Dui(KingPoker, 2)>>) + Copies(c, back)
    BY <1>12 DEF OneDui
  <2>4. idx[c] \in Nat /\ idx[c] <= Copies(c, front) /\ Copies(c, front) \in Nat
    BY <1>8, SMTT(30)
  <2> QED
    BY <2>1, <2>2, <2>3, <2>4
<1>14. Len(list) = m + 1
  BY <1>0, <1>3, <1>7, <1>11, <1>12 DEF OneDui
<1>15. (number % 3) \div 2 = 1 /\ 3 * (m + 1) - 1 = number
  BY <1>2
<1>16. Shown(ans, idx, number)
  BY <1>1, <1>12, <1>13, <1>14, <1>15 DEF Shown, OneDui
<1> QED
  BY <1>16 DEF ans

\* With one king too few the best pair stays a pair.
LEMMA PairThatStays ==
    ASSUME NEW idx \in [Tiles -> 0..4], NEW number \in Nat, number % 3 = 2,
           NEW sets \in Seq(ShownSets), NEW duis \in Seq(LeftDuis), NEW kings \in Nat,
           3 * Len(sets) + 2 * Len(duis) + kings = number,
           \A c \in Tiles : idx[c] <= Copies(c, sets) + Copies(c, duis),
           kings + 1 = Len(duis)
    PROVE  Shown(PairHu(sets, duis, kings), idx, number)
<1> DEFINE ans == PairHu(sets, duis, kings)
<1> DEFINE with_king == {k \in DOMAIN duis : duis[k].kings > 0}
<1> DEFINE stays == Highest(IF with_king = {} THEN DOMAIN duis ELSE with_king)
<1> DEFINE others == SubSeq(duis, 1, stays - 1) \o SubSeq(duis, stays + 1, Len(duis))
<1> DEFINE front == sets \o Filled(others)
<1> DEFINE list == front \o <<duis[stays]>>
<1>0. Len(sets) \in Nat /\ Len(duis) \in Nat /\ DOMAIN duis = 1..Len(duis)
  BY LenProperties
<1>1. ans.hu = TRUE /\ ans.list = list
  <2>1. ~ (kings + 1 < Len(duis)) /\ ~ (kings >= Len(duis))
    BY <1>0
  <2> QED
    BY <2>1 DEF PairHu, Hu
<1>2. stays \in 1..Len(duis)
  <2> DEFINE T == IF with_king = {} THEN DOMAIN duis ELSE with_king
  <2>1. T \subseteq 1..Len(duis) /\ T # {}
    <3>1. 1 \in DOMAIN duis
      BY <1>0
    <3> QED
      BY <1>0, <3>1
  <2> HIDE DEF T
  <2>2. T \in SUBSET (0..Len(duis))
    BY <1>0, <2>1
  <2>3. Highest(T) \in T
    BY <1>0, <2>1, <2>2, HighestOf
  <2> QED
    BY <2>1, <2>3 DEF T
<1> HIDE DEF ans, stays
<1>3. /\ others \in Seq(LeftDuis) /\ Len(others) = Len(duis) - 1
      /\ duis[stays] \in LeftDuis
      /\ \A c : Copies(c, duis) = Copies(c, others) + Copies(c, <<duis[stays]>>)
  BY <1>2, OthersFacts
<1> HIDE DEF others
<1>4. /\ Filled(others) \in Seq(ShownSets) /\ Len(Filled(others)) = Len(duis) - 1
      /\ \A c : Copies(c, others) <= Copies(c, Filled(others))
  BY <1>3, FilledFacts
<1>5. front \in Seq(ShownSets) /\ Len(front) = Len(sets) + (Len(duis) - 1)
  <2>1. front \in Seq(ShownSets) /\ Len(front) = Len(sets) + Len(Filled(others))
    BY <1>4, ConcatProperties
  <2> HIDE DEF front
  <2> QED
    BY <1>4, <2>1
<1>6. \A c : Copies(c, front) = Copies(c, sets) + Copies(c, Filled(others))
  BY <1>4, CopiesOfConcat
<1>7. PICK p \in Nat \X (0..1) : duis[stays] = Dui(p[1], p[2])
  BY <1>3 DEF LeftDuis
<1> DEFINE v == Dui(p[1], p[2])
<1>8. p[1] \in Nat /\ p[2] \in 0..3 /\ duis[stays] = v
  BY <1>7
<1> DEFINE none == <<>>
<1> DEFINE whole == front \o <<v>> \o none
<1>9. none \in Seq(ShownSets) /\ Len(none) = 0
  BY EmptySeq
<1> HIDE DEF front, list, none
<1>10. OneDui(whole, front, v, none)
  BY <1>5, <1>8, <1>9, OneDuiShown
<1>11. list = whole
  <2>1. list = front \o <<v>>
    BY <1>8 DEF list
  <2>2. front \o <<v>> \in Seq(ShownSets \cup {v})
    <3> DEFINE W == ShownSets \cup {v}
    <3>1. ShownSets \subseteq W /\ v \in W
      OBVIOUS
    <3> HIDE DEF W, v
    <3>2. front \in Seq(W)
      BY <1>5, <3>1, SeqOfMore
    <3>3. <<v>> \in Seq(W)
      BY <3>1
    <3>4. front \o <<v>> \in Seq(W)
      BY <3>2, <3>3, ConcatProperties
    <3> QED
      BY <3>4 DEF W
  <2> DEFINE w == front \o <<v>>
  <2> HIDE DEF v
  <2>3. w \in Seq(ShownSets \cup {v})
    BY <2>2
  <2> HIDE DEF w
  <2>4. w \o <<>> = w
    BY <2>3, ConcatEmptySeq
  <2> QED
    BY <2>1, <2>4 DEF w, whole, none
<1> HIDE DEF whole
<1>12. ASSUME NEW c \in Tiles PROVE idx[c] <= Copies(c, whole)
  <2>1. Copies(c, whole) = Copies(c, front) + Copies(c, <<v>>) + Copies(c, none)
    BY <1>10 DEF OneDui
  <2>2. Copies(c, none) = 0
    BY CopiesOfNone DEF none
  <2>3. /\ Copies(c, sets) \in Nat /\ Copies(c, Filled(others)) \in Nat
        /\ Copies(c, others) \in Nat /\ Copies(c, duis) \in Nat
    BY <1>3, <1>4, CopiesFacts
  <2>4. Copies(c, <<v>>) \in Nat
    BY CopiesOfOne, InItemIsNat
  <2>5. Copies(c, front) = Copies(c, sets) + Copies(c, Filled(others))
    BY <1>6
  <2>6. Copies(c, duis) = Copies(c, others) + Copies(c, <<v>>)
    BY <1>3, <1>8
  <2>7. Copies(c, others) <= Copies(c, Filled(others))
    BY <1>4
  <2>8. idx[c] \in Nat /\ idx[c] <= Copies(c, sets) + Copies(c, duis)
    OBVIOUS
  <2> HIDE DEF v
  <2> QED
    BY <2>1, <2>2, <2>3, <2>4, <2>5, <2>6, <2>7, <2>8, SMTT(30)
<1>13. Len(whole) = Len(sets) + Len(duis)
  BY <1>0, <1>5, <1>9, <1>10 DEF OneDui
<1>14. (number % 3) \div 2 = 1 /\ 3 * (Len(sets) + Len(duis)) - 1 = number
  <2>1. PICK l \in Nat, d \in Nat : l = Len(sets) /\ d = Len(duis)
    BY <1>0
  <2>2. 3 * l + 2 * d + kings = number /\ kings + 1 = d
    BY <2>1
  <2>3. 3 * (l + d) - 1 = number
    BY <2>2
  <2> QED
    BY <2>1, <2>3
<1>15. Shown(ans, idx, number)
  BY <1>1, <1>10, <1>11, <1>12, <1>13, <1>14 DEF Shown, OneDui
<1> QED
  BY <1>15 DEF ans

\* Whatever check_can_hu says, what it shows is the hand.
LEMMA CheckShown ==
    ASSUME NEW idx \in [Tiles -> 0..4], NEW kings \in Nat
    PROVE  Shown(CheckCanHu(idx, kings), idx, HandLen(idx) + kings)
<1> DEFINE number == HandLen(idx) + kings
<1> DEFINE all == Colours(idx, kings)
<1> DEFINE ans == CheckCanHu(idx, kings)
<1>1. number \in Nat
  BY HandRows
<1>2. all \in AccSpace
  BY ColoursUse
<1>3. all.ok => /\ 3 * Len(all.sets) + 2 * Len(all.duis) + all.kings = number
                /\ \A c \in Tiles : idx[c] <= Copies(c, all.sets) + Copies(c, all.duis)
  BY ColoursUse
<1>4. ans = IF number % 3 = 1 \/ ~ all.ok THEN NoHu
            ELSE IF number % 3 = 0 THEN FullHu(all.sets, all.duis, all.kings)
            ELSE PairHu(all.sets, all.duis, all.kings)
  BY DEF CheckCanHu, Judge
<1> HIDE DEF number, all, ans
<1>5. all.sets \in Seq(ShownSets) /\ all.duis \in Seq(LeftDuis) /\ all.kings \in Nat
  BY <1>2 DEF AccSpace
<1>6. Shown(NoHu, idx, number)
  BY NoHuShown
<1>7. ASSUME number % 3 = 0, all.ok
      PROVE  Shown(FullHu(all.sets, all.duis, all.kings), idx, number)
  BY <1>1, <1>3, <1>5, <1>7, FullHuShown
<1>8. ASSUME number % 3 = 2, all.ok
      PROVE  Shown(PairHu(all.sets, all.duis, all.kings), idx, number)
  <2>1. Len(all.duis) \in Nat
    BY <1>5, LenProperties
  <2>2. CASE all.kings + 1 < Len(all.duis)
    <3>1. PairHu(all.sets, all.duis, all.kings) = NoHu
      BY <2>2 DEF PairHu
    <3> QED
      BY <1>6, <3>1
  <2>3. CASE all.kings + 1 = Len(all.duis)
    BY <1>1, <1>3, <1>5, <1>8, <2>3, PairThatStays
  <2>4. CASE all.kings >= Len(all.duis)
    BY <1>1, <1>3, <1>5, <1>8, <2>4, PairOfKings
  <2> QED
    BY <1>5, <2>1, <2>2, <2>3, <2>4
<1>9. number % 3 \in 0..2
  BY <1>1
<1>10. Shown(ans, idx, number)
  <2>1. CASE number % 3 = 1 \/ ~ all.ok
    BY <1>4, <1>6, <2>1
  <2>2. CASE number % 3 = 0 /\ all.ok
    BY <1>4, <1>7, <2>2
  <2>3. CASE number % 3 = 2 /\ all.ok
    BY <1>4, <1>8, <2>3
  <2> QED
    BY <1>9, <2>1, <2>2, <2>3
<1> QED
  BY <1>10 DEF ans, number

-----------------------------------------------------------------------------
(***************************************************************************)
(* Mahjong: the theorem.                                                   *)
(***************************************************************************)
\* The hand has at most four of a tile, and the answer is that to this hand.
HandIInv ==
    /\ all_card_idx \in [Tiles -> 0..4]
    /\ king_num \in 0..MaxKings
    /\ answer = CheckCanHu(all_card_idx, king_num)

\* This is the invariant that the run checks.
LEMMA HandIInvImplies == HandIInv => HandInv
<1> SUFFICES ASSUME HandIInv PROVE HandInv
  OBVIOUS
<1> DEFINE number == HandLen(all_card_idx) + king_num
<1>1. all_card_idx \in [Tiles -> 0..4] /\ king_num \in 0..MaxKings /\ king_num \in Nat
  BY MaJiangAssumption DEF HandIInv
<1>2. Shown(CheckCanHu(all_card_idx, king_num), all_card_idx, HandLen(all_card_idx) + king_num)
  BY <1>1, CheckShown
<1>3. Shown(answer, all_card_idx, number)
  BY <1>2 DEF HandIInv
<1>4. HandTypes
  BY <1>1, <1>3 DEF HandTypes, Shown
<1>5. ShownListIsTheHand
  <2> HIDE DEF number
  <2>1. ASSUME answer.hu
        PROVE  /\ \A c \in Tiles : all_card_idx[c] <= Copies(c, answer.list)
               /\ Cardinality({k \in DOMAIN answer.list : IsDui(answer.list[k])}) = (number % 3) \div 2
               /\ 3 * Len(answer.list) - Cardinality({k \in DOMAIN answer.list : IsDui(answer.list[k])})
                     = number
    BY <1>3, <2>1 DEF Shown
  <2> QED
    BY <2>1 DEF ShownListIsTheHand, number
<1> QED
  BY <1>4, <1>5 DEF HandInv

\* A hand that is said to be complete is shown as sets of three, with a pair if it
\* has one too many, that have all its tiles and use up its kings and no more
\* (check_can_hu, calc_ttt_combine), for hands of any tiles and kings.
THEOREM HandsShown == Hands => []HandInv
<1>1. EmptyHand => HandIInv
  BY MaJiangAssumption DEF EmptyHand, HandIInv
<1>2. HandIInv /\ [DealNext]_handVars => HandIInv'
  <2> SUFFICES ASSUME HandIInv, [DealNext]_handVars PROVE HandIInv'
    OBVIOUS
  <2>1. CASE DealKing
    <3>1. king_num' \in 0..MaxKings
      BY <2>1, MaJiangAssumption DEF DealKing, HandIInv
    <3> QED
      BY <2>1, <3>1 DEF DealKing, HandIInv
  <2>2. CASE DealTile
    <3>1. PICK c \in Tiles : /\ all_card_idx[c] < 4
                             /\ all_card_idx' = [all_card_idx EXCEPT ![c] = @ + 1]
      BY <2>2 DEF DealTile
    <3>2. all_card_idx[c] + 1 \in 0..4
      BY <3>1 DEF HandIInv
    <3>3. all_card_idx' \in [Tiles -> 0..4]
      BY <3>1, <3>2 DEF HandIInv
    <3> QED
      BY <2>2, <3>3 DEF DealTile, HandIInv
  <2>3. CASE UNCHANGED handVars
    BY <2>3 DEF handVars, HandIInv
  <2> QED
    BY <2>1, <2>2, <2>3 DEF DealNext
<1> QED
  BY <1>1, <1>2, HandIInvImplies, PTL DEF Hands
=============================================================================
