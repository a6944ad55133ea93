-------------------------- MODULE MCConnectionQueue --------------------------
\* A small instance of ConnectionQueue for TLC.
EXTENDS ConnectionQueue
==============================================================================
