------------------------------ MODULE MCSession ------------------------------
EXTENDS SessionActor
=============================================================================
