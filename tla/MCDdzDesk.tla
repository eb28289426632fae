------------------------------ MODULE MCDdzDesk ------------------------------
(* The game at hand sizes a model checker can exhaust. *)
EXTENDS DdzDesk
=============================================================================
