------------------------------ MODULE MCLab5Chat ------------------------------
\* A small instance of Lab5Chat for TLC: what is said, by whom, to whom.
EXTENDS Lab5Chat

CONSTANTS alice, bob

Msg(nr, from, to, brace) == [nr |-> nr, from |-> from, to |-> to, brace |-> brace]

\* A message each way, and one to all after the first.  The line of bob's cannot be edited.
Conversation == {Msg(1, alice, bob, FALSE), Msg(2, alice, Everyone, FALSE),
                 Msg(1, bob, alice, TRUE)}
==============================================================================
