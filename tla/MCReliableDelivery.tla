------------------------- MODULE MCReliableDelivery -------------------------
\* Small instances of ReliableDelivery for TLC.
EXTENDS ReliableDelivery
==============================================================================
