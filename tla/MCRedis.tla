------------------------------- MODULE MCRedis ------------------------------
EXTENDS Redis
=============================================================================
