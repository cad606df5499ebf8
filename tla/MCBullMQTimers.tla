--------------------------- MODULE MCBullMQTimers ---------------------------
EXTENDS BullMQTimers

CONSTANTS deadline, nightly
=============================================================================
