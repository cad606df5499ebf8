--------------------------- MODULE MCViewDelivery ---------------------------
EXTENDS ViewDelivery

CONSTANTS summary, mailer
=============================================================================
