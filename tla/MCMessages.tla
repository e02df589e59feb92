------------------------------ MODULE MCMessages ----------------------------
EXTENDS Messages
=============================================================================
