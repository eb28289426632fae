------------------------------- MODULE MCLogin ------------------------------
EXTENDS Login

CONSTANTS s1, s2

\* The first client has come to play on any server.
Once == {[s \in Servers |-> IF s = home THEN 1 ELSE None] : home \in Servers}

\* Or, servers being alike, on this one, and perhaps a second one on the other.
OnceOrTwice == {[s \in Servers |-> IF s = s1 THEN 1 ELSE None],
                [s \in Servers |-> IF s = s1 THEN 1 ELSE 2]}
=============================================================================
