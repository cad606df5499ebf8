--------------------------- MODULE MCLocalTimers ---------------------------
EXTENDS LocalTimers

CONSTANTS deadline, nightly
=============================================================================
