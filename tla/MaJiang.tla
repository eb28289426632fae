------------------------------ MODULE MaJiang ------------------------------
(***************************************************************************)
(* When a hand of mahjong is complete: check_can_hu of                     *)
(* src/game/majiang.rs, which scripts call as native_check_hu.             *)
(*                                                                         *)
(* A tile is color * 16 + number.  Kings stand for any tile; they are kept *)
(* apart from the hand, as a number.  A HashMap<u8, i32> of the tiles of a *)
(* colour is the sequence of how many there are of each number.            *)
(* Every colour is decomposed on its own, first into sets of three without *)
(* kings, as many as can be, then what is left with as few kings as can    *)
(* be; pairs that are left over are dealt with at the end.                 *)
(*                                                                         *)
(* The order of the sets in a list that is shown is not that of the code.  *)
(***************************************************************************)
EXTENDS Integers, Sequences, FiniteSets, SequencesExt

CONSTANTS
    Tiles,      \* the tiles that are dealt
    KingPoker,  \* the tile a king is shown as
    SpecEat,    \* is_spec_eat: winds and dragons make runs too
    MaxHand,    \* bound: tiles in the hand, its kings among them
    MaxKings    \* bound: kings in the hand

Colors == 0..4

PokerNum(color) == CASE color \in 0..2 -> 10 [] color = 3 -> 5 [] color = 4 -> 4
Numbers(color) == 1..(PokerNum(color) - 1)
AllTiles == UNION {{color * 16 + j : j \in Numbers(color)} : color \in Colors}

ASSUME MaJiangAssumption ==
    /\ Tiles \subseteq AllTiles
    /\ KingPoker \in Nat \ AllTiles
    /\ SpecEat \in BOOLEAN
    /\ MaxHand \in Nat /\ MaxKings \in Nat

\* KindItem: its tiles, what it is, and how many of them are kings.
Item(cards, type, kings) == [cards |-> cards, type |-> type, kings |-> kings]
Peng(card, kings) == Item(<<card, card, card>>, "peng", kings)
Chi(eat, kings) == Item(eat, "chi", kings)
Dui(card, kings) == Item(<<card, card>>, "dui", kings)

-----------------------------------------------------------------------------
(***************************************************************************)
(* What items are made from.                                               *)
(***************************************************************************)

\* get_poker_idx_sum, and wherever else numbers are added up.
Total(seq) ==
    LET sum[k \in 0..Len(seq)] == IF k = 0 THEN 0 ELSE sum[k - 1] + seq[k] IN sum[Len(seq)]

\* The numbers of a colour, and those behind the last that a run might name.
\* (A row is put together with <<>> where it is read often: it is the same row,
\* which TLC then works out once.)
Places == 1..11

SubPokerIdx(idx, color) ==
    [j \in Places |-> IF color * 16 + j \in DOMAIN idx /\ j \in Numbers(color)
                      THEN idx[color * 16 + j] ELSE 0] \o <<>>

OneMore(idx, j) == [idx EXCEPT ![j] = @ + 1]

CalcHuPokers(items, color) ==
    LET place(k, i) == items[k].cards[i] - color * 16
        idx[k \in 0..Len(items)] ==
            IF k = 0 THEN [j \in Places |-> 0]
            ELSE OneMore(OneMore(OneMore(idx[k - 1], place(k, 1)), place(k, 2)), place(k, 3))
    IN  idx[Len(items)]

Minus(a, b) == [j \in Places |-> IF a[j] > b[j] THEN a[j] - b[j] ELSE 0] \o <<>>

\* sub_num_pokers: what is left of the tiles.
SubNumPokers(idx, items, color) == Minus(idx, CalcHuPokers(items, color))

\* cost_one_items for all items: kings are taken for the tiles that are missing.
CostOneItems(idx, items, color) == Total(Minus(CalcHuPokers(items, color), idx))

CheckCanEat(color, j) ==
    LET c == color * 16 + j
    IN  IF ~ SpecEat /\ color >= 3 THEN <<>>
        ELSE IF color # 3 THEN <<<<c, c + 1, c + 2>>>>
        ELSE IF j = 1 THEN <<<<c, c + 1, c + 2>>, <<c, c + 1, c + 3>>, <<c, c + 2, c + 3>>>>
        ELSE IF j = 2 THEN <<<<c, c + 1, c + 2>>>>
        ELSE <<>>

-----------------------------------------------------------------------------
(***************************************************************************)
(* get_combine_list: all ways to pick k of 1..n.  Its row of marks is here *)
(* the places of the marks, in ascending order.                            *)
(***************************************************************************)

Lowest(S) == CHOOSE n \in S : \A m \in S : n <= m
Highest(S) == CHOOSE n \in S : \A m \in S : n >= m

\* The marks that can move up.
Movable(marks, n) ==
    {i \in DOMAIN marks : marks[i] < (IF i < Len(marks) THEN marks[i + 1] - 1 ELSE n)}

\* Slip: the marks before it stay where they are.
AdvanceWithoutReset(marks, n) == [marks EXCEPT ![Lowest(Movable(marks, n))] = @ + 1]

\* The first one moves, and those before it go back to the beginning.
Advance(marks, n) ==
    LET first == Lowest(Movable(marks, n))
    IN  [i \in 1..(first - 1) |-> i] \o <<marks[first] + 1>> \o SubSeq(marks, first + 1, Len(marks))

\* How many there are, which is how often the loop turns.
Ways(n, k) ==
    LET ways[j \in 0..k] == IF j = 0 THEN 1 ELSE (ways[j - 1] * (n - j + 1)) \div j IN ways[k]

CombineList(n, k) ==
    LET list[m \in 0..Ways(n, k)] ==
            IF m = 0 THEN << [i \in 1..k |-> i] >>
            ELSE LET prev == list[m - 1]
                     marks == prev[Len(prev)]
                 IN  IF Movable(marks, n) = {} THEN prev ELSE Append(prev, Advance(marks, n))
    IN  list[Ways(n, k)]

\* With nothing to pick the callers take the empty list.
Lists(items, k) ==
    IF k = 0 THEN << <<>> >>
    ELSE LET combines == CombineList(Len(items), k)
         IN  [c \in DOMAIN combines |-> [i \in 1..k |-> items[combines[c][i]]]]

-----------------------------------------------------------------------------
(***************************************************************************)
(* A colour, without kings.                                                *)
(***************************************************************************)

NaturalItems(idx, color, j) ==
    LET c == color * 16 + j
        eats == CheckCanEat(color, j)
        copies(eat) == Lowest({idx[eat[k] - color * 16] : k \in 1..3})
    IN  (IF idx[j] >= 3 THEN <<Peng(c, 0)>> ELSE <<>>) \o
        FlattenSeq([e \in DOMAIN eats |-> [n \in 1..copies(eats[e]) |-> Chi(eats[e], 0)]])

KindItems(idx, color) ==
    IF Total(idx) < 3 THEN <<>>
    ELSE FlattenSeq([j \in Numbers(color) |-> NaturalItems(idx, color, j)])

\* As many items as the tiles allow.
Allowed(idx, color, list) == CostOneItems(idx, list, color) = 0
MostItems(idx, color, items) ==
    Highest({i \in 0..Lowest({Len(items), Total(idx) \div 3}) :
        LET lists == Lists(items, i)
        IN  \E c \in DOMAIN lists : Allowed(idx, color, lists[c])})

\* The lists of so many, unless too many tiles are left over for the kings.
CurTypeList(idx, kings, color) ==
    LET items == KindItems(idx, color)
        most == MostItems(idx, color, items)
    IN  IF most * 3 + kings * 2 + 2 < Total(idx) THEN <<>> ELSE Lists(items, most)

-----------------------------------------------------------------------------
(***************************************************************************)
(* What is left of a colour, with kings: calc_ttt_combine.                 *)
(***************************************************************************)

\* The runs that the tiles and the kings allow, one after the other; at most one
\* tile of the three may be missing.
Eats(eat, counts, kings) ==
    LET missing(n) == Cardinality({k \in 1..3 : counts[k] < n})
        allowed == {n \in 1..((counts[1] + counts[2] + counts[3] + kings) \div 3) : missing(n) <= 1}
    IN  [n \in 1..Cardinality(allowed) |-> Chi(eat, missing(n))]

KingItems(idx, kings, color, j) ==
    LET c == color * 16 + j
        eats == CheckCanEat(color, j)
        count(card) == idx[card - color * 16]
    IN  (IF idx[j] \in 1..2 /\ kings >= 3 - idx[j] THEN <<Peng(c, 3 - idx[j])>> ELSE <<>>) \o
        FlattenSeq([e \in DOMAIN eats |->
            Eats(eats[e], <<count(eats[e][1]), count(eats[e][2]), count(eats[e][3])>>, kings)])

KingItemsOf(idx, kings, color) ==
    IF Total(idx) + kings < 3 THEN <<>>
    ELSE FlattenSeq([j \in Numbers(color) |-> KingItems(idx, kings, color, j)])

\* Slip: any two tiles will do for a pair.
LeftVaildAnyTwo(left, k) == Total(left) \in IF k > 0 THEN 0..2 ELSE {0, 2}

\* check_left_vaild: nothing is left but a pair, which may need a king.
LeftVaild(left, k) ==
    LET sum == Total(left)
    IN  sum = 0 \/ (sum = 1 /\ k > 0) \/ (sum = 2 /\ \E j \in Places : left[j] = 2)

LeftDui(left, color) ==
    IF Total(left) = 0 THEN <<>>
    ELSE <<Dui(color * 16 + (CHOOSE j \in Places : left[j] > 0), 2 - Total(left))>>

\* Sets of three, the pair that is left, how many kings they take and how many
\* of the sets use kings; or nothing, when the kings or what is left do not do.
NoCombine == [ok |-> FALSE, kings |-> 255, used |-> 0, sets |-> <<>>, duis |-> <<>>]

Combine(idx, kings, color, list) ==
    LET pokers == CalcHuPokers(list, color)
        cost == Total(Minus(pokers, idx))
        left == Minus(idx, pokers)
    IN  IF cost > kings \/ ~ LeftVaild(left, kings - cost) THEN NoCombine
        ELSE [ok |-> TRUE,
              kings |-> cost + (IF Total(left) = 1 THEN 1 ELSE 0),
              used |-> Cardinality({k \in DOMAIN list : list[k].kings > 0}),
              sets |-> list,
              duis |-> LeftDui(left, color)]

\* Fewer kings are better, and more items that use them.
Better(a, b) ==
    IF b.ok /\ (b.kings < a.kings \/ (b.kings = a.kings /\ a.used < b.used)) THEN b ELSE a

BestOf(combines) ==
    LET best[k \in 0..Len(combines)] ==
            IF k = 0 THEN NoCombine ELSE Better(best[k - 1], combines[k])
    IN  best[Len(combines)]

MinItemNum(sum) == IF sum < 2 THEN 0 ELSE (sum - 2) \div 2     \* 1.51 / 3 of sum - 2

\* With as few items as will do.
Search(idx, kings, color, items) ==
    LET fewest == MinItemNum(Total(idx))
        turns == Lowest({(Total(idx) + kings) \div 3, Len(items)}) + 1 - fewest
        combines(n) == LET lists == Lists(items, n)
                       IN  [c \in DOMAIN lists |-> Combine(idx, kings, color, lists[c])]
        best[t \in 0..Highest({0, turns})] ==
            IF t = 0 THEN NoCombine
            ELSE LET prev == best[t - 1]
                     need == fewest + t - 1
                 IN  IF prev.kings < need \/ (prev.ok /\ need > 1) THEN prev
                     ELSE BestOf(<<prev>> \o combines(need))
    IN  best[Highest({0, turns})]

CalcTttCombine(idx, kings, color) ==
    IF Total(idx) = 0 THEN [NoCombine EXCEPT !.ok = TRUE, !.kings = 0]
    ELSE IF kings < MinItemNum(Total(idx)) THEN NoCombine
    ELSE Search(idx, kings, color, KingItemsOf(idx, kings, color))

-----------------------------------------------------------------------------
(***************************************************************************)
(* The whole hand: check_can_hu.                                           *)
(***************************************************************************)

\* The best list of a colour.
WithList(idx, kings, color, list) ==
    LET rest == CalcTttCombine(SubNumPokers(idx, list, color), kings, color)
    IN  IF ~ Allowed(idx, color, list) THEN NoCombine
        ELSE [rest EXCEPT !.sets = list \o @, !.used = 0]

ColorCombine(idx, kings, color) ==
    LET lists == CurTypeList(idx, kings, color)
    IN  BestOf([c \in DOMAIN lists |-> WithList(idx, kings, color, lists[c])])

\* The colours one after the other, with the kings that are left.
Paid(acc, best) ==
    IF ~ best.ok THEN [acc EXCEPT !.ok = FALSE]
    ELSE [acc EXCEPT !.kings = @ - best.kings, !.sets = @ \o best.sets, !.duis = @ \o best.duis]

Colours(idx, kings) ==
    LET paid[n \in 0..5] ==
            IF n = 0 THEN [ok |-> TRUE, kings |-> kings, sets |-> <<>>, duis |-> <<>>]
            ELSE LET acc == paid[n - 1]
                 IN  IF ~ acc.ok THEN acc
                     ELSE Paid(acc, ColorCombine(SubPokerIdx(idx, n - 1), acc.kings, n - 1))
    IN  paid[5]

\* A pair gets a king.
Fill(dui) == Peng(dui.cards[1], dui.kings + 1)
Filled(duis) == [k \in DOMAIN duis |-> Fill(duis[k])]

\* Slip: every king makes a set.
KingPengsOneByOne(kings) == [k \in 1..kings |-> Peng(KingPoker, 3)]

\* The kings nobody needs make sets of their own.
KingPengs(kings) == [k \in 1..((kings + 2) \div 3) |-> Peng(KingPoker, 3)]

NoHu == [hu |-> FALSE, list |-> <<>>]
Hu(list) == [hu |-> TRUE, list |-> list]

\* All pairs become sets of three.
FullHu(sets, duis, kings) ==
    IF kings < Len(duis) THEN NoHu
    ELSE Hu(sets \o Filled(duis) \o KingPengs(kings - Len(duis)))

\* All but one, those with a king last; with enough kings the pair is of kings.
PairHu(sets, duis, kings) ==
    LET with_king == {k \in DOMAIN duis : duis[k].kings > 0}
        stays == Highest(IF with_king = {} THEN DOMAIN duis ELSE with_king)
        others == SubSeq(duis, 1, stays - 1) \o SubSeq(duis, stays + 1, Len(duis))
    IN  IF kings + 1 < Len(duis) THEN NoHu
        ELSE IF kings >= Len(duis)
        THEN Hu(sets \o Filled(duis) \o <<Dui(KingPoker, 2)>> \o KingPengs(kings - Len(duis) - 2))
        ELSE Hu(sets \o Filled(others) \o <<duis[stays]>>)

\* poker_list.len().
HandLen(idx) == Total([n \in 1..5 |-> Total(SubPokerIdx(idx, n - 1))])

\* What is made of the colours.
Judge(rest, all) ==
    IF rest = 1 \/ ~ all.ok THEN NoHu
    ELSE IF rest = 0 THEN FullHu(all.sets, all.duis, all.kings)
    ELSE PairHu(all.sets, all.duis, all.kings)

CheckCanHu(idx, kings) == Judge((HandLen(idx) + kings) % 3, Colours(idx, kings))

-----------------------------------------------------------------------------
(***************************************************************************)
(* A hand that is dealt tile by tile, and what the server says of it.      *)
(* Tiles come in ascending order and kings last: another order makes the   *)
(* same hands.                                                             *)
(***************************************************************************)

VARIABLES
    all_card_idx,   \* the hand
    king_num,       \* and its kings
    answer          \* what check_can_hu says of it

handVars == <<all_card_idx, king_num, answer>>

EmptyHand ==
    /\ all_card_idx = [c \in Tiles |-> 0]
    /\ king_num = 0
    /\ answer = CheckCanHu(all_card_idx, king_num)

DealTile ==
    /\ king_num = 0
    /\ HandLen(all_card_idx) < MaxHand
    /\ \E c \in Tiles :
          /\ all_card_idx[c] < 4
          /\ \A d \in Tiles : all_card_idx[d] > 0 => d <= c
          /\ all_card_idx' = [all_card_idx EXCEPT ![c] = @ + 1]
    /\ answer' = CheckCanHu(all_card_idx', king_num)
    /\ UNCHANGED king_num

DealKing ==
    /\ king_num < MaxKings
    /\ HandLen(all_card_idx) + king_num < MaxHand
    /\ king_num' = king_num + 1
    /\ answer' = CheckCanHu(all_card_idx, king_num')
    /\ UNCHANGED all_card_idx

DealNext == DealKing \/ DealTile

Hands == EmptyHand /\ [][DealNext]_handVars

-----------------------------------------------------------------------------
(***************************************************************************)
(* Properties.                                                             *)
(***************************************************************************)

Same(a, b) == IF a = b THEN 1 ELSE 0
InItem(card, v) ==
    Same(v.cards[1], card) + Same(v.cards[2], card) +
    (IF v.type = "dui" THEN 0 ELSE Same(v.cards[3], card))
Copies(card, items) == Total([k \in DOMAIN items |-> InItem(card, items[k])])

Runs == UNION {ToSet(CheckCanEat(color, j)) : color \in Colors, j \in 1..9}

\* An item is what its type says.
IsSet(v) ==
    \/ v = Peng(v.cards[1], v.kings)
    \/ v.cards \in Runs /\ v = Chi(v.cards, v.kings)
IsDui(v) == v = Dui(v.cards[1], v.kings)

HandTypes ==
    /\ all_card_idx \in [Tiles -> 0..4]
    /\ king_num \in 0..MaxKings
    /\ answer.hu \in BOOLEAN
    /\ \A k \in DOMAIN answer.list :
          /\ IsSet(answer.list[k]) \/ IsDui(answer.list[k])
          /\ answer.list[k].kings \in 0..3

\* A hand that is said to be complete is shown as sets of three, with a pair if
\* it has one too many for them, that use up its tiles and its kings and no more.
ShownListIsTheHand ==
    answer.hu =>
        LET list == answer.list
            duis == Cardinality({k \in DOMAIN list : IsDui(list[k])})
            number == HandLen(all_card_idx) + king_num
        IN  /\ \A c \in Tiles : all_card_idx[c] <= Copies(c, list)
            /\ duis = (number % 3) \div 2
            /\ 3 * Len(list) - duis = number

HandInv == HandTypes /\ ShownListIsTheHand
=============================================================================
