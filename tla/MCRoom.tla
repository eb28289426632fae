------------------------------- MODULE MCRoom -------------------------------
(* Four users for desks of three seats: one is always turned away somewhere. *)
EXTENDS Room, TLC

UserSymmetry == Permutations(Users)
=============================================================================
