----------------------------- MODULE HistoryText -----------------------------
\* How the servers of lab5 and lab6 find a line of the history file: they search its text
\* for "msg_id":N, where nothing marks the end of N.
EXTENDS Integers

\* The digits of a begin the digits of b, so that the search for a finds b.  (Ids have at
\* most ten digits, and 0 begins only itself.)
NumeralPrefix(a, b) == \E k \in 0 .. 9 : b \div 10 ^ k = a /\ (a = 0 => k = 0)
==============================================================================
