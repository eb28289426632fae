--------------------------- MODULE CompleteHands ---------------------------
(***************************************************************************)
(* What a complete hand of mahjong is, apart from how check_can_hu of      *)
(* module MaJiang finds out.                                               *)
(***************************************************************************)
EXTENDS MaJiang

Sets3 == {<<c, c, c>> : c \in AllTiles} \cup {e \in Runs : ToSet(e) \subseteq AllTiles}

Number(c, cards) == Cardinality({i \in DOMAIN cards : cards[i] = c})
Missing(idx, cards) ==
    Cardinality({i \in DOMAIN cards : cards[i] \notin DOMAIN idx})
        + Cardinality({<<c, n>> \in (DOMAIN idx) \X (1..3) : idx[c] < n /\ n <= Number(c, cards)})
Without(idx, cards) ==
    [c \in DOMAIN idx |-> Highest({0, idx[c] - Number(c, cards)})]

\* All tiles and all kings make sets of three and this many pairs.
RECURSIVE Covered(_, _, _)
Covered(idx, k, pairs) ==
    LET left == {c \in DOMAIN idx : idx[c] > 0}
        Rest(cards, p) ==
            /\ Missing(idx, cards) <= k
            /\ Covered(Without(idx, cards), k - Missing(idx, cards), p)
    IN  IF left = {} THEN k >= 2 * pairs /\ (k - 2 * pairs) % 3 = 0
        ELSE \/ \E s \in Sets3 : Lowest(left) \in ToSet(s) /\ Rest(s, pairs)
             \/ pairs > 0 /\ Rest(<<Lowest(left), Lowest(left)>>, pairs - 1)

Complete ==
    LET rest == (HandLen(all_card_idx) + king_num) % 3
    IN  rest # 1 /\ Covered(all_card_idx, king_num, rest \div 2)

\* A hand is said to be complete only if it is, and no tile is shown that there
\* is not: 8 9 and a king are 7 8 9, and not 8 9 10 (check_can_hu, which tries both).
Sound ==
    answer.hu =>
        /\ Complete
        /\ \A k \in DOMAIN answer.list :
              ToSet(answer.list[k].cards) \subseteq AllTiles \cup {KingPoker}

\* A hand that is complete with at most one king is said to be (check_can_hu):
\* taking as many sets without kings as there can be, before any king is used,
\* loses nothing.  With two kings it does: 1 3 4 4 5 7 is complete, and 3 4 5 is
\* taken from it.
NoWinMissed == king_num <= 1 /\ Complete => answer.hu
=============================================================================
