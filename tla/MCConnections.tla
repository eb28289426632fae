--------------------------- MODULE MCConnections ---------------------------
\* Instances of Connections for TLC: their configurations give all the constants.
EXTENDS Connections
=============================================================================
