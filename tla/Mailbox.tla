------------------------------- MODULE Mailbox -------------------------------
(***************************************************************************)
(* What private messages promise, without locks, iterator, history file or *)
(* the stages of a worker: a message that is written is handed over at     *)
(* once to a receiver who is present, or it waits; what waits is delivered *)
(* to its receiver while he is present, oldest first; and each message is  *)
(* handed over or delivered once.                                          *)
(*                                                                         *)
(* A message may wait although its receiver is present: he may arrive      *)
(* after he was looked for, and then gets it when he comes the next time.  *)
(***************************************************************************)
EXTENDS Naturals, Sequences, SequencesExt

CONSTANTS Users,     \* nicknames
          Letters,   \* private messages, with their sender and receiver
          NoLetter   \* none

VARIABLES present,   \* the users who are logged in
          written,   \* the messages written so far
          hands,     \* the message each user has written that is not yet on its way
          waiting,   \* the messages that wait for their receivers, oldest first
          inbox      \* what each user got

vars == <<present, written, hands, waiting, inbox>>

Init ==
  /\ present = {}
  /\ written = {}
  /\ hands = [u \in Users |-> NoLetter]
  /\ waiting = <<>>
  /\ inbox = [u \in Users |-> <<>>]

Arrive(u) ==
  /\ u \notin present
  /\ present' = present \cup {u}
  /\ UNCHANGED <<written, hands, waiting, inbox>>

Leave(u) ==
  /\ u \in present /\ hands[u] = NoLetter
  /\ present' = present \ {u}
  /\ UNCHANGED <<written, hands, waiting, inbox>>

Write(u, m) ==
  /\ u \in present /\ hands[u] = NoLetter
  /\ m.from = u /\ m \notin written
  /\ written' = written \cup {m}
  /\ hands' = [hands EXCEPT ![u] = m]
  /\ UNCHANGED <<present, waiting, inbox>>

HandOver(u) ==
  /\ hands[u] # NoLetter /\ hands[u].to \in present
  /\ inbox' = [inbox EXCEPT ![hands[u].to] = Append(@, hands[u])]
  /\ hands' = [hands EXCEPT ![u] = NoLetter]
  /\ UNCHANGED <<present, written, waiting>>

Keep(u) ==
  /\ hands[u] # NoLetter
  /\ waiting' = Append(waiting, hands[u])
  /\ hands' = [hands EXCEPT ![u] = NoLetter]
  /\ UNCHANGED <<present, written, inbox>>

\* The oldest of the messages for u.
IsNextFor(u, i) == waiting[i].to = u /\ \A j \in 1 .. i - 1 : waiting[j].to # u

Deliver(u) ==
  /\ u \in present /\ hands[u] = NoLetter
  /\ \E i \in DOMAIN waiting :
        /\ IsNextFor(u, i)
        /\ inbox' = [inbox EXCEPT ![u] = Append(@, waiting[i])]
        /\ waiting' = RemoveAt(waiting, i)
  /\ UNCHANGED <<present, written, hands>>

Next == \E u \in Users :
  \/ Arrive(u) \/ Leave(u) \/ HandOver(u) \/ Keep(u) \/ Deliver(u)
  \/ \E m \in Letters : Write(u, m)

Spec == Init /\ [][Next]_vars
==============================================================================
