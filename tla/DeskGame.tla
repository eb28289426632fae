------------------------------ MODULE DeskGame ------------------------------
(***************************************************************************)
(* What a desk promises about starting and ending a game                   *)
(* (scripts/server/clone/rooms/desk.lua: op_info "ready", check_all_ready, *)
(* start_game, is_playing): a game starts at the moment the third seat     *)
(* gets ready, nothing but its end clears it, and its end makes every seat *)
(* declare itself ready again.  Module Room sees a desk through these two  *)
(* variables; module DdzDesk is the game that lies behind them.            *)
(***************************************************************************)
CONSTANT Seats

VARIABLES
    ready,      \* the seats whose is_ready is 1
    playing     \* is_playing()

vars == <<ready, playing>>

Init ==
    /\ ready = [i \in Seats |-> FALSE]
    /\ playing = FALSE

\* A seat gets ready; with the last one the game starts.
Ready(i) ==
    /\ ~playing
    /\ ~ready[i]
    /\ ready' = [ready EXCEPT ![i] = TRUE]
    /\ playing' = \A j \in Seats : ready'[j]

\* Whoever sits at the seat sits down again, or leaves it.
Reseat(i) ==
    /\ ready' = [ready EXCEPT ![i] = FALSE]
    /\ UNCHANGED playing

Over ==
    /\ playing
    /\ playing' = FALSE
    /\ ready' = [i \in Seats |-> FALSE]

Next ==
    \/ \E i \in Seats : Ready(i) \/ Reseat(i)
    \/ Over

Spec == Init /\ [][Next]_vars
=============================================================================
