----------------------------- MODULE DbPromise ------------------------------
(***************************************************************************)
(* What dbd.lua promises the script that makes a request with a callback:  *)
(* the callback is called once, with the outcome of the statement or with  *)
(* the news that none came in time.  Module DbRequest implements it with a *)
(* cookie table, a thread pool, an event queue and a timer.                *)
(***************************************************************************)
CONSTANT Ids        \* the requests

VARIABLE call       \* what became of the callback of each request

Outcome == {"ok", "error", "timeout"}

Init == call = [i \in Ids |-> "unasked"]

Ask(i) ==
    /\ call[i] = "unasked"
    /\ call' = [call EXCEPT ![i] = "waiting"]

Answer(i, outcome) ==
    /\ call[i] = "waiting"
    /\ call' = [call EXCEPT ![i] = outcome]

\* One tick may give up several requests at once.
GiveUp(S) ==
    /\ \A i \in S : call[i] = "waiting"
    /\ call' = [i \in Ids |-> IF i \in S THEN "timeout" ELSE call[i]]

Next ==
    \/ \E i \in Ids : Ask(i)
    \/ \E i \in Ids, outcome \in {"ok", "error"} : Answer(i, outcome)
    \/ \E S \in SUBSET Ids : GiveUp(S)

Spec == Init /\ [][Next]_call
=============================================================================
