------------------------------ MODULE Channel ------------------------------
(***************************************************************************)
(* What two servers are promised of the connection between them: messages  *)
(* arrive whole, once and in the order they were sent, until it breaks; it *)
(* breaks only when one of them ends it or when the next message is one    *)
(* that does not fit.                                                      *)
(***************************************************************************)
EXTENDS Naturals, Sequences

CONSTANTS
    Message,
    Fits(_),    \* whether a message can be received
    Window      \* messages that may be under way

VARIABLES
    sent,
    received,
    ended,      \* one of the two has ended it
    open        \* the receiving end

Init ==
    /\ sent = <<>> /\ received = <<>>
    /\ ended = FALSE /\ open = TRUE

Send ==
    /\ \E m \in Message : sent' = Append(sent, m)
    /\ UNCHANGED <<received, ended, open>>

\* Several may arrive at once.
Receive ==
    /\ open
    /\ \E n \in (Len(received) + 1)..Len(sent) :
          /\ \A k \in (Len(received) + 1)..n : Fits(sent[k])
          /\ received' = SubSeq(sent, 1, n)
          /\ open' \in {TRUE, n = Len(sent) \/ Fits(sent[n + 1])}
    /\ UNCHANGED <<sent, ended>>

End ==
    /\ ended' = TRUE
    /\ open' \in {open, FALSE}
    /\ UNCHANGED <<sent, received>>

Break ==
    /\ open' = FALSE
    /\ \/ ended
       \/ \E k \in (Len(received) + 1)..Len(sent) : ~ Fits(sent[k])
       \/ Len(sent) - Len(received) > Window
    /\ UNCHANGED <<sent, received, ended>>

Next == Send \/ Receive \/ End \/ Break

Spec == Init /\ [][Next]_<<sent, received, ended, open>>
=============================================================================
