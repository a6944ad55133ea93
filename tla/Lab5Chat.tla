------------------------------- MODULE Lab5Chat -------------------------------
(***************************************************************************)
(* Messages in lab5/server.cpp: ids are given by the server, there are no  *)
(* acknowledgements, and what OfflineDelivery leaves out of lab6 is here:  *)
(* clients that are gone before the server notices, and the end of the     *)
(* server at any point (SIGPIPE is not ignored, so that a send to a client *)
(* that is gone may end it) and its next start.  Only history.json         *)
(* survives, and it is empty between the opening of the file for writing   *)
(* and the writing.                                                        *)
(*                                                                         *)
(* A user stands for the session of that name and the worker serving it.   *)
(* Every packet the server makes up takes an id from one counter; only     *)
(* those of chat messages matter here, so a message may skip some; Ids are *)
(* the ones they can get.                                                  *)
(***************************************************************************)
EXTENDS Integers, FiniteSets, Sequences, SequencesExt, HistoryText

CONSTANTS Users,     \* nicknames
          Messages,  \* what clients send, each once, those of one client by nr
          Everyone,  \* the receiver of a public message
          Nobody,    \* the holder of a free lock, the sender of no message
          Ids,       \* bound: the ids chat messages get, in each run of the server
          MaxCrashes \* bound: how often the server ends

\* brace: a name or the text has a closing brace.
ASSUME ChatAssumption ==
  /\ Messages \subseteq [nr : Nat, from : Users, to : Users \cup {Everyone}, brace : BOOLEAN]
  /\ Everyone \notin Users /\ Nobody \notin Users
  /\ Ids \subseteq Nat \ {0} /\ MaxCrashes \in Nat

VARIABLES
  activeUsers, pendingMessages, nextMessageId,  \* of the server, lost when it ends
  storageLock, historyLock,
  pc, message, cursor,   \* of the worker of each user
  fileContent,           \* the text updateDeliveryStatus is about to write
  history,               \* history.json
  present                \* the users whose client is there

\* What has happened so far (history, not in the code).
VARIABLES
  crashes,
  given,     \* for each message the server received, its id and the run it was in
  inbox,     \* messages that reached each client, and if they were marked [OFFLINE]
  missed,    \* messages sent to a client that was gone
  confirmed, \* messages of which the sender was told that they are stored
  written,   \* messages of which a line was written to history.json
  erased     \* of these, the ones lost in a rewriting that was not finished

server == <<activeUsers, pendingMessages, nextMessageId, storageLock, historyLock,
            pc, message, cursor, fileContent>>
past == <<crashes, given, inbox, missed, confirmed, written, erased>>
vars == <<server, history, present, past>>

NoMessage == [nr |-> 0, from |-> Nobody, to |-> Nobody, brace |-> FALSE]
NotGiven == [id |-> 0, run |-> 0]

\* What a start of the server sets up.
Started ==
  [activeUsers |-> {}, pendingMessages |-> <<>>, nextMessageId |-> 1,
   pc |-> [u \in Users |-> "out"], message |-> [u \in Users |-> NoMessage],
   cursor |-> [u \in Users |-> 1]]

Init ==
  /\ activeUsers = Started.activeUsers /\ pendingMessages = Started.pendingMessages
  /\ nextMessageId = Started.nextMessageId
  /\ storageLock = Nobody /\ historyLock = Nobody
  /\ pc = Started.pc /\ message = Started.message /\ cursor = Started.cursor
  /\ fileContent = <<>> /\ history = <<>> /\ present = {}
  /\ crashes = 0 /\ given = [m \in Messages |-> NotGiven]
  /\ inbox = [u \in Users |-> <<>>]
  /\ missed = {} /\ confirmed = {} /\ written = {} /\ erased = {}

Goto(u, stage) == pc' = [pc EXCEPT ![u] = stage]

\* transmitMessage of m to the sessions of some users; its result is not looked at,
\* and a client that is gone does not get it.
Transmit(m, receivers, offline) ==
  /\ inbox' = [v \in Users |-> IF v \in receivers \cap present
                              THEN Append(inbox[v], [msg |-> m, offline |-> offline])
                              ELSE inbox[v]]
  /\ missed' = IF receivers \subseteq present THEN missed ELSE missed \cup {m}

-----------------------------------------------------------------------------
(* Sessions *)

\* A client connects; HELLO and AUTH go well, or not.
Connect(u) ==
  /\ pc[u] = "out"
  /\ present' = present \cup {u}
  /\ Goto(u, "handshake")
  /\ UNCHANGED <<activeUsers, pendingMessages, nextMessageId, storageLock, historyLock,
                 message, cursor, fileContent, history, past>>

HandshakeFails(u) ==
  /\ pc[u] = "handshake"
  /\ Goto(u, "out") /\ present' = present \ {u}
  /\ UNCHANGED <<activeUsers, pendingMessages, nextMessageId, storageLock, historyLock,
                 message, cursor, fileContent, history, past>>

RegisterUser(u) ==
  /\ pc[u] = "handshake" /\ u \notin activeUsers
  /\ activeUsers' = activeUsers \cup {u}
  /\ Goto(u, "login")
  /\ UNCHANGED <<pendingMessages, nextMessageId, storageLock, historyLock, message,
                 cursor, fileContent, history, present, past>>

\* The client ends; its worker notices when it next receives.
ClientGone(u) ==
  /\ u \in present
  /\ present' = present \ {u}
  /\ UNCHANGED <<server, history, past>>

\* After BYE or a failed receive.
UnregisterUser(u) ==
  /\ pc[u] = "in"
  /\ activeUsers' = activeUsers \ {u} /\ present' = present \ {u}
  /\ Goto(u, "out")
  /\ UNCHANGED <<pendingMessages, nextMessageId, storageLock, historyLock, message,
                 cursor, fileContent, history, past>>

-----------------------------------------------------------------------------
(* deliverPendingMessages, under storageLock *)

BeginScan(u) ==
  /\ pc[u] = "login" /\ storageLock = Nobody
  /\ storageLock' = u
  /\ Goto(u, "scan")
  /\ UNCHANGED <<activeUsers, pendingMessages, nextMessageId, historyLock, message,
                 cursor, fileContent, history, present, past>>

\* Faulty variant: stored messages are sent as they are.
OfflineMarkMissing == FALSE

\* What is sent from the storage begins with "[OFFLINE] ".
OfflineMark == TRUE

\* Send on what is for u, step over the rest.
ScanMessage(u) ==
  /\ pc[u] = "scan" /\ cursor[u] <= Len(pendingMessages)
  /\ LET p == pendingMessages[cursor[u]] IN
     IF p.msg.to = u
     THEN Transmit(p.msg, {u}, OfflineMark) /\ Goto(u, "update") /\ UNCHANGED cursor
     ELSE cursor' = [cursor EXCEPT ![u] = @ + 1] /\ UNCHANGED <<inbox, missed, pc>>
  /\ UNCHANGED <<activeUsers, pendingMessages, nextMessageId, storageLock, historyLock,
                 message, fileContent, history, present, crashes, given, confirmed,
                 written, erased>>

EndScan(u) ==
  /\ pc[u] = "scan" /\ cursor[u] > Len(pendingMessages)
  /\ storageLock' = Nobody
  /\ cursor' = [cursor EXCEPT ![u] = 1]
  /\ Goto(u, "in")
  /\ UNCHANGED <<activeUsers, pendingMessages, nextMessageId, historyLock, message,
                 fileContent, history, present, past>>

\* The first line that the search for the id finds, if its flag says FALSE and no closing
\* brace comes before the flag.
ToMark(id) ==
  LET found == {i \in DOMAIN history : NumeralPrefix(id, history[i].id)}
  IN  {i \in found : /\ ~history[i].delivered /\ ~history[i].msg.brace
                     /\ \A j \in found : i <= j}

\* Faulty variants: the first message is erased, not the one just sent; nothing is.
EraseFirst(u) == Tail(pendingMessages)

EraseNothing(u) == pendingMessages

EraseSent(u) == RemoveAt(pendingMessages, cursor[u])

\* updateDeliveryStatus, under historyLock: the file is read and, if there is a flag
\* to set, opened for writing, which empties it.
OpenForRewrite(u) ==
  /\ pc[u] = "update" /\ historyLock = Nobody
  /\ LET marked == ToMark(pendingMessages[cursor[u]].id) IN
     IF marked = {}
     THEN /\ pendingMessages' = EraseSent(u)
          /\ Goto(u, "scan")
          /\ UNCHANGED <<historyLock, fileContent, history>>
     ELSE /\ historyLock' = u
          /\ fileContent' = [i \in DOMAIN history |->
                               [history[i] EXCEPT !.delivered = @ \/ i \in marked]]
          /\ history' = <<>>
          /\ Goto(u, "rewrite")
          /\ UNCHANGED pendingMessages
  /\ UNCHANGED <<activeUsers, nextMessageId, storageLock, message, cursor, present, past>>

\* The text is written; then the message is erased.
Rewrite(u) ==
  /\ pc[u] = "rewrite"
  /\ history' = fileContent /\ fileContent' = <<>>
  /\ historyLock' = Nobody
  /\ pendingMessages' = EraseSent(u)
  /\ Goto(u, "scan")
  /\ UNCHANGED <<activeUsers, nextMessageId, storageLock, message, cursor, present, past>>

-----------------------------------------------------------------------------
(* TEXT and PRIVATE *)

\* Faulty variants: the counter is not advanced, or twice.
NextIdStays(id) == id

NextIdTwice(id) == id + 2

NextId(id) == id + 1

\* A message is received and gets its id from generateMessageId; its client may be gone
\* by then.
Receive(u, m) ==
  /\ pc[u] = "in"
  /\ m.from = u /\ given[m] = NotGiven
  /\ \A n \in Messages : n.from = u /\ n.nr < m.nr => given[n] # NotGiven
  /\ \E id \in Ids :
        /\ id >= nextMessageId
        /\ nextMessageId' = NextId(id)
        /\ given' = [given EXCEPT ![m] = [id |-> id, run |-> crashes]]
  /\ message' = [message EXCEPT ![u] = m]
  /\ Goto(u, IF m.to = Everyone THEN "save public" ELSE "send")
  /\ UNCHANGED <<activeUsers, pendingMessages, storageLock, historyLock, cursor,
                 fileContent, history, present, crashes, inbox, missed, confirmed,
                 written, erased>>

SendPrivateMessageOnline(u) ==
  /\ pc[u] = "send"
  /\ IF message[u].to \in activeUsers
     THEN Transmit(message[u], {message[u].to}, FALSE) /\ Goto(u, "save online")
     ELSE Goto(u, "store") /\ UNCHANGED <<inbox, missed>>
  /\ UNCHANGED <<activeUsers, pendingMessages, nextMessageId, storageLock, historyLock,
                 message, cursor, fileContent, history, present, crashes, given,
                 confirmed, written, erased>>

QueueOfflineMessage(u) ==
  /\ pc[u] = "store" /\ storageLock = Nobody
  /\ pendingMessages' = Append(pendingMessages, [msg |-> message[u], id |-> given[message[u]].id])
  /\ Goto(u, "save offline")
  /\ UNCHANGED <<activeUsers, nextMessageId, storageLock, historyLock, message, cursor,
                 fileContent, history, present, past>>

\* Faulty variant: the file is appended to without waiting for historyLock.
HistoryFreeUnchecked == TRUE

HistoryFree == historyLock = Nobody

\* saveToHistory; the sender of a stored message is told so, and a public message is
\* broadcast next.
SaveToHistory(u) ==
  /\ pc[u] \in {"save online", "save offline", "save public"} /\ HistoryFree
  /\ history' = Append(history, [id |-> given[message[u]].id, msg |-> message[u],
                                 delivered |-> pc[u] # "save offline"])
  /\ written' = written \cup {message[u]}
  /\ confirmed' = IF pc[u] = "save offline" THEN confirmed \cup {message[u]} ELSE confirmed
  /\ IF pc[u] = "save public"
     THEN Goto(u, "broadcast") /\ UNCHANGED message
     ELSE Goto(u, "in") /\ message' = [message EXCEPT ![u] = NoMessage]
  /\ UNCHANGED <<activeUsers, pendingMessages, nextMessageId, storageLock, historyLock,
                 cursor, fileContent, present, crashes, given, inbox, missed, erased>>

\* broadcastPublicMessage: to everybody in the table, under userLock.
BroadcastPublicMessage(u) ==
  /\ pc[u] = "broadcast"
  /\ Transmit(message[u], activeUsers, FALSE)
  /\ message' = [message EXCEPT ![u] = NoMessage]
  /\ Goto(u, "in")
  /\ UNCHANGED <<activeUsers, pendingMessages, nextMessageId, storageLock, historyLock,
                 cursor, fileContent, history, present, crashes, given, confirmed,
                 written, erased>>

-----------------------------------------------------------------------------
\* The server ends at any moment and is started again; every connection is lost.
Crash ==
  /\ crashes < MaxCrashes
  /\ crashes' = crashes + 1
  /\ activeUsers' = Started.activeUsers /\ pendingMessages' = Started.pendingMessages
  /\ nextMessageId' = Started.nextMessageId
  /\ storageLock' = Nobody /\ historyLock' = Nobody
  /\ pc' = Started.pc /\ message' = Started.message /\ cursor' = Started.cursor
  /\ fileContent' = <<>> /\ present' = {}
  /\ erased' = erased \cup {fileContent[i].msg : i \in DOMAIN fileContent}
  /\ UNCHANGED <<history, given, inbox, missed, confirmed, written>>

Step(u) ==
  \/ BeginScan(u) \/ ScanMessage(u) \/ EndScan(u) \/ OpenForRewrite(u) \/ Rewrite(u)
  \/ SendPrivateMessageOnline(u) \/ QueueOfflineMessage(u) \/ SaveToHistory(u)
  \/ BroadcastPublicMessage(u)

Next ==
  \/ \E u \in Users :
       \/ Connect(u) \/ HandshakeFails(u) \/ RegisterUser(u) \/ ClientGone(u)
       \/ UnregisterUser(u) \/ Step(u)
       \/ \E m \in Messages : Receive(u, m)
  \/ Crash

Spec == Init /\ [][Next]_vars

-----------------------------------------------------------------------------
Private == {m \in Messages : m.to # Everyone}

\* The message was put on a connection to its receiver.
Sent(m) == m \in missed \/ \E i \in DOMAIN inbox[m.to] : inbox[m.to][i].msg = m

Entries == [msg : Messages, id : Ids]
Lines == [msg : Messages, id : Ids, delivered : BOOLEAN]

TypeOK ==
  /\ activeUsers \subseteq Users /\ present \subseteq Users
  /\ pendingMessages \in Seq(Entries) /\ nextMessageId \in {1} \cup {id + 1 : id \in Ids}
  /\ storageLock \in Users \cup {Nobody} /\ historyLock \in Users \cup {Nobody}
  /\ pc \in [Users -> {"out", "handshake", "login", "scan", "update", "rewrite", "in", "send",
                       "store", "save online", "save offline", "save public", "broadcast"}]
  /\ message \in [Users -> Messages \cup {NoMessage}] /\ cursor \in [Users -> Nat \ {0}]
  /\ history \in Seq(Lines) /\ fileContent \in Seq(Lines)
  /\ given \in [Messages -> [id : Ids \cup {0}, run : 0 .. MaxCrashes]]
  /\ inbox \in [Users -> Seq([msg : Messages, offline : BOOLEAN])]
  /\ missed \cup confirmed \cup written \cup erased \subseteq Messages
  /\ crashes \in 0 .. MaxCrashes

\* A message the sender was told is stored stays stored until it is sent, as long as the
\* server runs, whatever scans and storing go on at the same time.  (It is gone with the
\* server, and lost if the receiver's client is gone when it is sent.)
StoredIsKept ==
  \A m \in confirmed :
     given[m].run = crashes =>
       Sent(m) \/ \E i \in DOMAIN pendingMessages : pendingMessages[i].msg = m

\* No private message reaches its receiver twice, across ends of the server too.
AtMostOnce ==
  \A u \in Users : \A i, j \in DOMAIN inbox[u] :
     inbox[u][i].msg = inbox[u][j].msg => i = j

\* Messages of one sender to one receiver arrive in the order they were sent, except that
\* a later one may overtake one that was stored, which then comes with the mark [OFFLINE].
OrderKeptUnlessStored ==
  \A u \in Users : \A i, j \in DOMAIN inbox[u] :
     /\ i < j
     /\ inbox[u][i].msg.from = inbox[u][j].msg.from
     /\ inbox[u][i].msg.nr > inbox[u][j].msg.nr
     => inbox[u][j].offline

\* Except while it is being rewritten, the history has one line for each message written to
\* it, and no others; lines are lost only when the server ends in the middle of a rewriting.
HistoryKept ==
  historyLock = Nobody =>
    /\ Len(history) = Cardinality(written \ erased)
    /\ {history[i].msg : i \in DOMAIN history} = written \ erased

\* A line says "delivered" of a private message that was not sent only if another message
\* was sent, given its id in the same or a later run of the server, and the search for that
\* id finds this line: it begins this line's id or, in a later run, is the same.
DeliveredWasSent ==
  \A i \in DOMAIN history : history[i].delivered /\ history[i].msg \in Private =>
     LET line == given[history[i].msg] IN
     \/ Sent(history[i].msg)
     \/ \E m \in Private : /\ Sent(m) /\ given[m] # line /\ given[m].run >= line.run
                           /\ NumeralPrefix(given[m].id, history[i].id)

\* What reaches a user's client comes once and, but for the marked ones, in order.
MessagesOnceInOrder == AtMostOnce /\ OrderKeptUnlessStored

\* The history file, written and rewritten under historyLock, tells what happened.
HistoryIsTrue == HistoryKept /\ DeliveredWasSent
==============================================================================
