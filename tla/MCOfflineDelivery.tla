-------------------------- MODULE MCOfflineDelivery --------------------------
\* An instance of OfflineDelivery for TLC: what is said, by whom, to whom.
EXTENDS OfflineDelivery, TLC

CONSTANTS alice, bob, carol

Msg(id, from, to, brace) == [id |-> id, from |-> from, to |-> to, brace |-> brace]

\* Two senders, who chose the same id, to one receiver, a reply, and a public message.  The
\* line of bob's cannot be edited, and the search for 1 finds 10.
Conversation == {Msg(1, alice, carol, FALSE), Msg(1, bob, carol, TRUE),
                 Msg(10, carol, alice, FALSE), Msg(5, bob, Everyone, FALSE)}
==============================================================================
