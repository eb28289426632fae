----------------------------- MODULE MCMaJiang -----------------------------
\* Hands of MaJiang for TLC.
EXTENDS CompleteHands

\* The upper half of a suit, three of the winds and two dragons.
DealtTiles == 5..9 \cup {50, 51, 52} \cup {66, 67}
=============================================================================
