------------------------------ MODULE Session ------------------------------
(***************************************************************************)
(* What the script is promised of the connections: each has at most one    *)
(* agent, once, and the agent is given the messages of its own peer, all   *)
(* of them from the first and in the order they were sent, until it goes.  *)
(***************************************************************************)
EXTENDS Naturals

CONSTANT Conns

VARIABLES
    serving,    \* the connections that have an agent
    gone,       \* those that had one
    seen        \* how many messages of each its agent was given

Init ==
    /\ serving = {}
    /\ gone = {}
    /\ seen = [c \in Conns |-> 0]

\* An agent may end because another takes its place.
Open(c) ==
    /\ c \notin serving \cup gone
    /\ \E D \in SUBSET serving :
          /\ serving' = (serving \ D) \cup {c}
          /\ gone' = gone \cup D
    /\ UNCHANGED seen

Give(c) ==
    /\ c \in serving
    /\ seen' = [seen EXCEPT ![c] = @ + 1]
    /\ UNCHANGED <<serving, gone>>

End(D) ==
    /\ D \subseteq serving
    /\ serving' = serving \ D
    /\ gone' = gone \cup D
    /\ UNCHANGED seen

Next ==
    \/ \E c \in Conns : Open(c) \/ Give(c)
    \/ \E D \in SUBSET Conns : End(D)

Spec == Init /\ [][Next]_<<serving, gone, seen>>
=============================================================================
