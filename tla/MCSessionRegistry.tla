-------------------------- MODULE MCSessionRegistry --------------------------
\* Small instances of SessionRegistry for TLC.
EXTENDS SessionRegistry

\* Threads, descriptors and nicknames are interchangeable.
Interchangeable ==
  Permutations(Workers) \cup Permutations(Sockets) \cup Permutations(Names)
==============================================================================
