------------------------- MODULE MCClientLifecycle -------------------------
\* A small instance of ClientLifecycle for TLC.
EXTENDS ClientLifecycle
==============================================================================
