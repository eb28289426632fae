----------------------------- MODULE MCFraming -----------------------------
EXTENDS Framing
=============================================================================
