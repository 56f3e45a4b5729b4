----------------------------- MODULE MCSession -----------------------------
EXTENDS Session

CONSTANTS u1, u2
=============================================================================
