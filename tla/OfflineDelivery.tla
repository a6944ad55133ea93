--------------------------- MODULE OfflineDelivery ---------------------------
(***************************************************************************)
(* Private messages in lab6/server.cpp.  The thread that serves a user     *)
(* hands a private message to its receiver when the receiver is in the     *)
(* user table, and otherwise puts it into pendingMessages, from where the  *)
(* receiver's own thread takes it at the next login; every message also    *)
(* gets a line in the history file, whose "delivered" flag is set when a   *)
(* stored message is delivered later.  userLock, storageLock and           *)
(* historyLock protect the three pieces of state separately, and no lock   *)
(* is held from the look-up of the receiver to the storing of the message. *)
(*                                                                         *)
(* A user stands for the session of that name, one at a time (the table    *)
(* itself is SessionRegistry's subject), and for the worker serving it.    *)
(* Sends to a client are taken as the code takes them: the result of       *)
(* transmitMessage is not looked at.                                       *)
(***************************************************************************)
EXTENDS Integers, FiniteSets, Sequences, SequencesExt, HistoryText

CONSTANTS Users,     \* nicknames
          Messages,  \* the chat messages of a run, each handled once
          Everyone,  \* the receiver of a public message
          Nobody     \* the holder of a free lock

\* A message: its id in the history (chosen by the sending client when private,
\* by the server when public), sender, receiver, and whether its names or text
\* contain a closing brace.
ASSUME MessagesAssumption ==
  /\ Messages \subseteq [id : Nat, from : Users, to : Users \cup {Everyone}, brace : BOOLEAN]
  /\ Everyone \notin Users /\ Nobody \notin Users

VARIABLES activeUsers,   \* the users in the user table
          pendingMessages,
          history,       \* the lines of DATA_FILE
          storageLock, historyLock,  \* who holds them
          pc,            \* what the worker of each user is doing
          message,       \* the message it is handling
          cursor,        \* the iterator of deliverPendingMessages, 1 outside it
          fileContent    \* what updateDeliveryStatus has read

\* What has happened so far (history, not in the code).
VARIABLES handled,       \* messages received by the server
          inbox          \* private messages sent to each user

vars == <<activeUsers, pendingMessages, history, storageLock, historyLock, pc,
          message, cursor, fileContent, handled, inbox>>

NoMessage == [id |-> 0, from |-> Nobody, to |-> Nobody, brace |-> FALSE]

Stages == {"offline", "login", "scan", "update", "rewrite", "online",
           "send", "store", "saveOffline", "saveOnline"}

\* Faulty variant: stored messages are written down as delivered.
LineDelivered(m, delivered) == [msg |-> m, delivered |-> TRUE]

Line(m, delivered) == [msg |-> m, delivered |-> delivered]

Init ==
  /\ activeUsers = {}
  /\ pendingMessages = <<>>
  /\ history = <<>>
  /\ storageLock = Nobody /\ historyLock = Nobody
  /\ pc = [u \in Users |-> "offline"]
  /\ message = [u \in Users |-> NoMessage]
  /\ cursor = [u \in Users |-> 1]
  /\ fileContent = [u \in Users |-> <<>>]
  /\ handled = {}
  /\ inbox = [u \in Users |-> <<>>]

Goto(u, stage) == pc' = [pc EXCEPT ![u] = stage]

Transmit(u, m) == inbox' = [inbox EXCEPT ![u] = Append(@, m)]

-----------------------------------------------------------------------------
\* registerUser and unregisterUser, under userLock.
Register(u) ==
  /\ pc[u] = "offline"
  /\ activeUsers' = activeUsers \cup {u}
  /\ Goto(u, "login")
  /\ UNCHANGED <<pendingMessages, history, storageLock, historyLock, message,
                 cursor, fileContent, handled, inbox>>

Unregister(u) ==
  /\ pc[u] = "online"
  /\ activeUsers' = activeUsers \ {u}
  /\ Goto(u, "offline")
  /\ UNCHANGED <<pendingMessages, history, storageLock, historyLock, message,
                 cursor, fileContent, handled, inbox>>

-----------------------------------------------------------------------------
\* deliverPendingMessages takes storageLock for the whole scan.
BeginScan(u) ==
  /\ pc[u] = "login"
  /\ storageLock = Nobody
  /\ storageLock' = u
  /\ Goto(u, "scan")
  /\ UNCHANGED <<activeUsers, pendingMessages, history, historyLock, message,
                 cursor, fileContent, handled, inbox>>

\* Faulty variant: the loop ends one message early.
ScanOverEarly(u) == cursor[u] >= Len(pendingMessages)

ScanOver(u) == cursor[u] > Len(pendingMessages)

\* One message of the scan: send it on if it is for u, else step over it.
ScanMessage(u) ==
  /\ pc[u] = "scan"
  /\ ~ScanOver(u)
  /\ IF pendingMessages[cursor[u]].to = u
     THEN /\ Transmit(u, pendingMessages[cursor[u]])
          /\ Goto(u, "update")
          /\ UNCHANGED cursor
     ELSE /\ cursor' = [cursor EXCEPT ![u] = @ + 1]
          /\ UNCHANGED <<inbox, pc>>
  /\ UNCHANGED <<activeUsers, pendingMessages, history, storageLock, historyLock,
                 message, fileContent, handled>>

\* updateDeliveryStatus reads the file, edits the text, and writes it back, all
\* under historyLock.
ReadHistory(u) ==
  /\ pc[u] = "update"
  /\ historyLock = Nobody
  /\ historyLock' = u
  /\ fileContent' = [fileContent EXCEPT ![u] = history]
  /\ Goto(u, "rewrite")
  /\ UNCHANGED <<activeUsers, pendingMessages, history, storageLock, message,
                 cursor, handled, inbox>>

\* Faulty variant: the last line found is edited.
MarkDeliveredLast(lines, id) ==
  LET found == {i \in DOMAIN lines : NumeralPrefix(id, lines[i].msg.id)}
      last  == CHOOSE i \in found : \A j \in found : i >= j
  IN  IF found = {} \/ lines[last].msg.brace THEN lines
      ELSE [lines EXCEPT ![last].delivered = TRUE]

\* The text edit: in the first line that the search finds, and in that line
\* only, the flag is set, unless a closing brace comes before the flag.
MarkDelivered(lines, id) ==
  LET found == {i \in DOMAIN lines : NumeralPrefix(id, lines[i].msg.id)}
      first == CHOOSE i \in found : \A j \in found : i <= j
  IN  IF found = {} \/ lines[first].msg.brace THEN lines
      ELSE [lines EXCEPT ![first].delivered = TRUE]

\* Faulty variant: the iterator is advanced past the erased element.
AfterEraseSkips(c) == c + 1

\* erase returns an iterator to the element behind the erased one.
AfterErase(c) == c

\* Faulty variant: the first message is erased, not the one just sent.
WithoutFirst(c) == Tail(pendingMessages)

WithoutMessage(c) == RemoveAt(pendingMessages, c)

\* The end of updateDeliveryStatus and the erase that follows it, which nobody
\* can see apart: pendingMessages is used under storageLock only.
RewriteHistory(u) ==
  /\ pc[u] = "rewrite"
  /\ history' = MarkDelivered(fileContent[u], pendingMessages[cursor[u]].id)
  /\ fileContent' = [fileContent EXCEPT ![u] = <<>>]
  /\ historyLock' = Nobody
  /\ pendingMessages' = WithoutMessage(cursor[u])
  /\ cursor' = [cursor EXCEPT ![u] = AfterErase(@)]
  /\ Goto(u, "scan")
  /\ UNCHANGED <<activeUsers, storageLock, message, handled, inbox>>

EndScan(u) ==
  /\ pc[u] = "scan"
  /\ ScanOver(u)
  /\ storageLock' = Nobody
  /\ cursor' = [cursor EXCEPT ![u] = 1]
  /\ Goto(u, "online")
  /\ UNCHANGED <<activeUsers, pendingMessages, history, historyLock, message,
                 fileContent, handled, inbox>>

-----------------------------------------------------------------------------
\* The loop of handleClientConnection has received TEXT or PRIVATE.
Receive(u, m) ==
  /\ pc[u] = "online"
  /\ m.from = u /\ m \notin handled
  /\ handled' = handled \cup {m}
  /\ message' = [message EXCEPT ![u] = m]
  /\ Goto(u, IF m.to = Everyone THEN "saveOnline" ELSE "send")
  /\ UNCHANGED <<activeUsers, pendingMessages, history, storageLock, historyLock,
                 cursor, fileContent, inbox>>

\* sendPrivateMessageOnline, under userLock.
SendPrivateMessageOnline(u) ==
  /\ pc[u] = "send"
  /\ IF message[u].to \in activeUsers
     THEN Transmit(message[u].to, message[u]) /\ Goto(u, "saveOnline")
     ELSE Goto(u, "store") /\ UNCHANGED inbox
  /\ UNCHANGED <<activeUsers, pendingMessages, history, storageLock, historyLock,
                 message, cursor, fileContent, handled>>

\* queueOfflineMessage, first under storageLock ...
QueueOfflineMessage(u) ==
  /\ pc[u] = "store"
  /\ storageLock = Nobody
  /\ pendingMessages' = Append(pendingMessages, message[u])
  /\ Goto(u, "saveOffline")
  /\ UNCHANGED <<activeUsers, history, storageLock, historyLock, message, cursor,
                 fileContent, handled, inbox>>

\* Faulty variant: the file is appended to without waiting for historyLock.
HistoryFreeUnchecked == TRUE

HistoryFree == historyLock = Nobody

\* ... then in saveToHistory, which also ends the other two paths.
SaveToHistory(u) ==
  /\ pc[u] \in {"saveOffline", "saveOnline"}
  /\ HistoryFree
  /\ history' = Append(history, Line(message[u], pc[u] = "saveOnline"))
  /\ message' = [message EXCEPT ![u] = NoMessage]
  /\ Goto(u, "online")
  /\ UNCHANGED <<activeUsers, pendingMessages, storageLock, historyLock, cursor,
                 fileContent, handled, inbox>>

Step(u) ==
  \/ BeginScan(u) \/ ScanMessage(u) \/ ReadHistory(u) \/ RewriteHistory(u) \/ EndScan(u)
  \/ SendPrivateMessageOnline(u) \/ QueueOfflineMessage(u) \/ SaveToHistory(u)

Next == \E u \in Users :
  \/ Register(u) \/ Unregister(u)
  \/ \E m \in Messages : Receive(u, m)
  \/ Step(u)

Spec == Init /\ [][Next]_vars

\* A worker that has begun to handle a login or a message goes on, and a lock
\* that is free again and again is granted in the end.  Nothing is assumed of
\* when users come, leave or write.
FairSpec == Spec /\ \A u \in Users : SF_vars(Step(u))

-----------------------------------------------------------------------------
TypeOK ==
  /\ activeUsers \subseteq Users
  /\ pendingMessages \in Seq(Messages)
  /\ history \in Seq([msg : Messages, delivered : BOOLEAN])
  /\ storageLock \in Users \cup {Nobody} /\ historyLock \in Users \cup {Nobody}
  /\ pc \in [Users -> Stages]
  /\ message \in [Users -> Messages \cup {NoMessage}]
  /\ cursor \in [Users -> 1 .. Len(pendingMessages) + 1]
  /\ fileContent \in [Users -> Seq([msg : Messages, delivered : BOOLEAN])]
  /\ handled \subseteq Messages
  /\ inbox \in [Users -> Seq(Messages)]

PrivateHandled == {m \in handled : m.to \in Users}

\* The sender's worker has it and has neither sent nor stored it yet.
InHands(m) == \E u \in Users : message[u] = m /\ pc[u] \in {"send", "store"}

\* Stored, and not being delivered right now.
Stored == {pendingMessages[i] : i \in DOMAIN pendingMessages
             \ {cursor[u] : u \in {v \in Users : pc[v] \in {"update", "rewrite"}}}}

\* No private message is lost or doubled while the server runs: each one that
\* was received is with its sender's worker, or stored, or sent to its receiver,
\* in exactly one of these places and once.
OnePlace ==
  /\ IsInjective(pendingMessages)
  /\ \A u \in Users : IsInjective(inbox[u]) /\ \A i \in DOMAIN inbox[u] : inbox[u][i].to = u
  /\ \A m \in PrivateHandled :
        LET sent == m \in ToSet(inbox[m.to]) IN
        \/ InHands(m) /\ m \notin Stored /\ ~sent
        \/ ~InHands(m) /\ m \in Stored /\ ~sent
        \/ ~InHands(m) /\ m \notin Stored /\ sent

\* Every message whose handling has ended has exactly one line in the history,
\* however the rewriting of the file interleaves with the appending of lines.
OneHistoryLine ==
  \A m \in handled :
     Cardinality({i \in DOMAIN history : history[i].msg = m})
        = IF \E u \in Users : message[u] = m THEN 0 ELSE 1

\* The search for the id of a takes the line of b for it.
Confused(a, b) == a # b /\ NumeralPrefix(a.id, b.id)

\* A line says "delivered":true of a message that was not sent only if another message,
\* whose id's digits begin this one's, was sent: private ids are chosen by the clients.
DeliveredWasSent ==
  \A i \in DOMAIN history : LET m == history[i].msg IN
     history[i].delivered /\ m.to \in Users =>
        \E u \in Users : \E n \in ToSet(inbox[u]) : n = m \/ Confused(n, m)

\* m was sent to its receiver, and the delivery is over, but its line says "delivered":false.
SaidUndelivered(m) ==
  /\ \E i \in DOMAIN history : history[i] = [msg |-> m, delivered |-> FALSE]
  /\ m \in ToSet(inbox[m.to])
  /\ pc[m.to] \in {"update", "rewrite"} => pendingMessages[cursor[m.to]] # m

\* That comes about only by a line that is appended after the delivery, or one that cannot be
\* edited, or because the edit went to an earlier line that the search took for it.
UndeliveredWhy ==
  [][\A m \in PrivateHandled : ~SaidUndelivered(m) /\ SaidUndelivered(m)' =>
        \/ Len(history') > Len(history) /\ Last(history').msg = m
        \/ m.brace
        \/ \E i, j \in DOMAIN history : i < j /\ history[j].msg = m /\ Confused(m, history[i].msg)]_vars

\* Whatever is stored for a user when he logs in is sent to him: the scan that erases from
\* the vector it goes through, and waits for locks between, skips nothing.
StoredIsDelivered ==
  \A m \in {n \in Messages : n.to \in Users} :
     (m \in Stored /\ pc[m.to] = "login") ~> (m \in ToSet(inbox[m.to]))

\* The worker that goes through the vector and has sent the message at its iterator, which is
\* still to be erased.
IsErasing(u) == pc[u] \in {"update", "rewrite"}

\* What the mailbox sees of the workers and the vector: the message between receiving and
\* sending or storing it, and the vector without the message that is sent already.
Hands == [u \in Users |-> IF pc[u] \in {"send", "store"} THEN message[u] ELSE NoMessage]

Waiting == IF \E u \in Users : IsErasing(u)
           THEN RemoveAt(pendingMessages, cursor[CHOOSE u \in Users : IsErasing(u)])
           ELSE pendingMessages

Letters == {m \in Messages : m.to \in Users}

Box == INSTANCE Mailbox WITH
  NoLetter <- NoMessage, present <- activeUsers, written <- PrivateHandled,
  hands <- Hands, waiting <- Waiting

\* The server is a mailbox: stored messages are delivered oldest first, and once, although
\* they are erased from the vector behind the sending, by a scan that steps over those of
\* others, and although workers store and hand over messages all the while.
ImplementsMailbox == Box!Spec

\* The history has a line for each message, and the line is right but for confused ids.
HistoryIsTrue == OneHistoryLine /\ DeliveredWasSent
==============================================================================
