----------------------------- MODULE MCCommands -----------------------------
EXTENDS Commands

CONSTANTS order, cart, first, second, nobody
=============================================================================
