---------------------------- MODULE MCDbRequest -----------------------------
(* Two requests meet every worker, every outcome and each other's          *)
(* connection.  Only a request that nobody waits for differs in callback.  *)
EXTENDS DbRequest

AllShapes == [op : Ops, callback : {TRUE}] \cup {[op |-> "execute", callback |-> FALSE]}
=============================================================================
