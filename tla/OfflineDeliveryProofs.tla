------------------------ MODULE OfflineDeliveryProofs ------------------------
(***************************************************************************)
(* Proofs about OfflineDelivery, for every set of users and messages.  The *)
(* inductive invariant adds to the checked properties what the two locks   *)
(* protect (who holds one, where its iterator stands, what it has read)    *)
(* and which messages the workers, the vector, the inboxes and the history *)
(* can hold.                                                               *)
(***************************************************************************)
EXTENDS OfflineDelivery, DataLemmas

\* Between sending a stored message and erasing it.
Delivering == {"update", "rewrite"}

\* Inside deliverPendingMessages.
Scanning == {"scan"} \cup Delivering

\* With a message in hand.
Handling == {"send", "store", "saveOffline", "saveOnline"}

\* What the holder of a lock knows: the others keep their hands off.
LockInv ==
  /\ \A u \in Users : pc[u] \in Scanning <=> storageLock = u
  /\ \A u \in Users : pc[u] = "rewrite" <=> historyLock = u
  /\ \A u \in Users : pc[u] \notin Scanning => cursor[u] = 1
  /\ \A u \in Users : pc[u] \in Delivering =>
        /\ cursor[u] \in DOMAIN pendingMessages
        /\ pendingMessages[cursor[u]].to = u
        /\ pendingMessages[cursor[u]] \in ToSet(inbox[u])
  /\ \A u \in Users : pc[u] = "rewrite" => fileContent[u] = history

\* What a worker has in its hands is a message of its own user.
HandsInv ==
  /\ \A u \in Users : IF pc[u] \in Handling
                      THEN message[u] \in handled /\ message[u].from = u
                      ELSE message[u] = NoMessage
  /\ \A u \in Users : pc[u] \in {"send", "store", "saveOffline"} => message[u].to \in Users
  /\ \A u \in Users : pc[u] = "saveOnline" /\ message[u].to \in Users =>
        message[u] \in ToSet(inbox[message[u].to])

\* Only what was received is anywhere.
OriginInv ==
  /\ ToSet(pendingMessages) \subseteq PrivateHandled
  /\ \A u \in Users : ToSet(inbox[u]) \subseteq PrivateHandled
  /\ \A i \in DOMAIN history : history[i].msg \in handled

\* The invariant: the checked properties, and what they rest on.
IInv == TypeOK /\ LockInv /\ HandsInv /\ OriginInv /\ OnePlace /\ HistoryIsTrue
-----------------------------------------------------------------------------
\* A numeral begins itself.
LEMMA PrefixOfItself ==
  ASSUME NEW a \in Nat
  PROVE  NumeralPrefix(a, a)
<1>1. a \div 10 ^ 0 = a
  OBVIOUS
<1> QED
  BY <1>1 DEF NumeralPrefix

\* The lines of the history.
Lines == [msg : Messages, delivered : BOOLEAN]

\* What the text edit of updateDeliveryStatus does to the lines: it sets flags only of
\* lines that the search finds, and leaves a line that it finds as it was only if the
\* line cannot be edited or an earlier one was found.
LEMMA MarkedLines ==
  ASSUME NEW lines \in Seq(Lines), NEW id
  PROVE  LET marked == MarkDelivered(lines, id) IN
         /\ marked \in Seq(Lines) /\ DOMAIN marked = DOMAIN lines /\ Len(marked) = Len(lines)
         /\ \A i \in DOMAIN lines :
               /\ marked[i].msg = lines[i].msg
               /\ lines[i].delivered => marked[i].delivered
               /\ marked[i].delivered =>
                     lines[i].delivered \/ NumeralPrefix(id, lines[i].msg.id)
               /\ ~marked[i].delivered /\ NumeralPrefix(id, lines[i].msg.id) =>
                     \/ lines[i].msg.brace
                     \/ \E j \in DOMAIN lines : j < i /\ NumeralPrefix(id, lines[j].msg.id)
<1> DEFINE found  == {i \in DOMAIN lines : NumeralPrefix(id, lines[i].msg.id)}
           first  == CHOOSE i \in found : \A j \in found : i <= j
           marked == MarkDelivered(lines, id)
<1>1. Len(lines) \in Nat /\ DOMAIN lines = 1 .. Len(lines) /\ \A i \in DOMAIN lines : lines[i] \in Lines
  BY LenProperties
<1>2. marked = IF found = {} \/ lines[first].msg.brace THEN lines
               ELSE [lines EXCEPT ![first] = [lines[first] EXCEPT !.delivered = TRUE]]
  BY DEF MarkDelivered
<1>3. ASSUME found # {} PROVE first \in found /\ \A j \in found : first <= j
  <2>1. found \in SUBSET Nat
    BY <1>1
  <2>2. \E i \in found : \A j \in found : i <= j
    BY <1>3, <2>1, LeastExists
  <2> QED
    BY <2>2
<1> HIDE DEF first, marked
<1>4. CASE found = {}
  BY <1>1, <1>2, <1>4 DEF marked
<1>5. CASE found # {} /\ lines[first].msg.brace
  <2>1. marked = lines
    BY <1>2, <1>5
  <2>2. ASSUME NEW i \in found
        PROVE  \/ lines[i].msg.brace
               \/ \E j \in DOMAIN lines : j < i /\ NumeralPrefix(id, lines[j].msg.id)
    <3>1. first \in DOMAIN lines /\ first <= i /\ NumeralPrefix(id, lines[first].msg.id)
      BY <1>3, <1>5, <2>2
    <3> QED
      BY <1>1, <1>5, <3>1
  <2> QED
    BY <1>1, <2>1, <2>2 DEF marked
<1>6. CASE found # {} /\ ~lines[first].msg.brace
  <2>1. first \in DOMAIN lines /\ NumeralPrefix(id, lines[first].msg.id)
        /\ \A j \in found : first <= j
    BY <1>3, <1>6
  <2> DEFINE edited == [lines[first] EXCEPT !.delivered = TRUE]
  <2>2. edited \in Lines /\ edited.msg = lines[first].msg /\ edited.delivered
    BY <1>1, <2>1 DEF Lines
  <2>3. marked = [lines EXCEPT ![first] = edited]
    BY <1>2, <1>6
  <2> HIDE DEF edited
  <2>4. marked \in Seq(Lines) /\ DOMAIN marked = DOMAIN lines /\ Len(marked) = Len(lines)
    <3>1. marked \in [1 .. Len(lines) -> Lines]
      BY <1>1, <2>1, <2>2, <2>3
    <3> QED
      BY <1>1, <3>1
  <2>5. \A i \in DOMAIN lines : marked[i] = IF i = first THEN edited ELSE lines[i]
    BY <2>1, <2>3
  <2>6. ASSUME NEW i \in found, i # first
        PROVE  \E j \in DOMAIN lines : j < i /\ NumeralPrefix(id, lines[j].msg.id)
    <3>1. first < i
      BY <1>1, <2>1, <2>6
    <3> QED
      BY <2>1, <3>1
  <2>7. \A i \in DOMAIN lines : marked[i].msg = lines[i].msg
    BY <2>2, <2>5
  <2>8. \A i \in DOMAIN lines : lines[i].delivered => marked[i].delivered
    BY <2>2, <2>5
  <2>9. \A i \in DOMAIN lines : marked[i].delivered =>
           lines[i].delivered \/ NumeralPrefix(id, lines[i].msg.id)
    BY <2>1, <2>5
  <2>10. \A i \in DOMAIN lines : ~marked[i].delivered => i # first
    BY <2>2, <2>5
  <2> QED
    BY <2>4, <2>6, <2>7, <2>8, <2>9, <2>10 DEF marked
<1> QED
  BY <1>4, <1>5, <1>6

-----------------------------------------------------------------------------
\* A worker goes on to another stage, the others stay where they are.
LEMMA Moved ==
  ASSUME TypeOK, NEW u \in Users, NEW stage \in Stages, Goto(u, stage)
  PROVE  /\ pc' \in [Users -> Stages] /\ pc'[u] = stage
         /\ \A v \in Users \ {u} : pc'[v] = pc[v]
BY DEF TypeOK, Goto

\* What a message sent to a user does to the inboxes.
LEMMA Delivered ==
  ASSUME TypeOK, NEW u \in Users, NEW m \in Messages, Transmit(u, m)
  PROVE  /\ inbox' \in [Users -> Seq(Messages)]
         /\ ToSet(inbox'[u]) = ToSet(inbox[u]) \cup {m}
         /\ \A v \in Users \ {u} : inbox'[v] = inbox[v]
         /\ IsInjective(inbox[u]) /\ m \notin ToSet(inbox[u]) => IsInjective(inbox'[u])
<1>1. inbox \in [Users -> Seq(Messages)] /\ inbox[u] \in Seq(Messages)
  BY DEF TypeOK
<1>2. inbox' = [inbox EXCEPT ![u] = Append(inbox[u], m)] /\ inbox'[u] = Append(inbox[u], m)
  BY <1>1 DEF Transmit
<1>3. Append(inbox[u], m) \in Seq(Messages) /\ ToSet(Append(inbox[u], m)) = ToSet(inbox[u]) \cup {m}
  BY <1>1, AppendProperties, ToSetAppend
<1>4. IsInjective(inbox[u]) /\ m \notin ToSet(inbox[u]) => IsInjective(Append(inbox[u], m))
  BY <1>1, InjectiveAppend
<1> QED
  BY <1>1, <1>2, <1>3, <1>4

\* One turn of the scan.
LEMMA Scanned ==
  ASSUME TypeOK, NEW u \in Users, ScanMessage(u)
  PROVE  LET m == pendingMessages[cursor[u]] IN
         /\ pc[u] = "scan" /\ cursor[u] \in 1 .. Len(pendingMessages) /\ m \in Messages
         /\ UNCHANGED <<activeUsers, pendingMessages, history, storageLock, historyLock,
                        message, fileContent, handled>>
         /\ \/ m.to = u /\ Transmit(u, m) /\ Goto(u, "update") /\ cursor' = cursor
            \/ cursor' = [cursor EXCEPT ![u] = cursor[u] + 1] /\ UNCHANGED <<inbox, pc>>
<1>1. pendingMessages \in Seq(Messages) /\ cursor[u] \in 1 .. Len(pendingMessages) + 1
  BY DEF TypeOK
<1>2. ~(cursor[u] > Len(pendingMessages))
  BY DEF ScanMessage, ScanOver
<1>3. cursor[u] \in 1 .. Len(pendingMessages) /\ pendingMessages[cursor[u]] \in Messages
  BY <1>1, <1>2, LenProperties
<1> QED
  BY <1>3 DEF ScanMessage

\* The end of a delivery: the line is edited and the message erased.
LEMMA Rewritten ==
  ASSUME TypeOK, LockInv, NEW u \in Users, RewriteHistory(u)
  PROVE  LET m == pendingMessages[cursor[u]] IN
         /\ pc[u] = "rewrite" /\ m \in Messages /\ m \in ToSet(pendingMessages)
         /\ cursor[u] \in 1 .. Len(pendingMessages)
         /\ history' = MarkDelivered(history, m.id)
         /\ pendingMessages' = RemoveAt(pendingMessages, cursor[u])
         /\ pendingMessages' \in Seq(Messages)
         /\ Len(pendingMessages') = Len(pendingMessages) - 1
         /\ IsInjective(pendingMessages) =>
              /\ IsInjective(pendingMessages')
              /\ ToSet(pendingMessages') = ToSet(pendingMessages) \ {m}
         /\ cursor' = cursor /\ Goto(u, "scan")
         /\ fileContent' = [fileContent EXCEPT ![u] = <<>>] /\ historyLock' = Nobody
         /\ UNCHANGED <<activeUsers, storageLock, message, handled, inbox>>
<1>1. pc[u] = "rewrite" /\ pendingMessages \in Seq(Messages) /\ cursor \in [Users -> Int]
  BY DEF TypeOK, RewriteHistory
<1>2. fileContent[u] = history /\ cursor[u] \in DOMAIN pendingMessages
  BY <1>1 DEF LockInv, Delivering
<1>3. /\ DOMAIN pendingMessages = 1 .. Len(pendingMessages)
      /\ pendingMessages[cursor[u]] \in Messages
      /\ pendingMessages[cursor[u]] \in ToSet(pendingMessages)
  BY <1>1, <1>2, LenProperties DEF ToSet
<1>4. pendingMessages' = RemoveAt(pendingMessages, cursor[u])
      /\ cursor' = [cursor EXCEPT ![u] = cursor[u]]
  BY DEF RewriteHistory, WithoutMessage, AfterErase
<1>5. /\ pendingMessages' \in Seq(Messages)
      /\ Len(pendingMessages') = Len(pendingMessages) - 1
      /\ IsInjective(pendingMessages) =>
           /\ IsInjective(pendingMessages')
           /\ ToSet(pendingMessages') = ToSet(pendingMessages) \ {pendingMessages[cursor[u]]}
  BY <1>1, <1>2, <1>3, <1>4, RemoveAtProperties, InjectiveRemoveAt
<1>6. cursor' = cursor
  BY <1>1, <1>4
<1> QED
  BY <1>1, <1>2, <1>3, <1>4, <1>5, <1>6 DEF RewriteHistory

\* A message whose receiver is away is put at the end of the vector.
LEMMA Queued ==
  ASSUME TypeOK, HandsInv, NEW u \in Users, QueueOfflineMessage(u)
  PROVE  LET m == message[u] IN
         /\ pc[u] = "store" /\ storageLock = Nobody /\ m \in Messages /\ m \in handled
         /\ pendingMessages' = Append(pendingMessages, m)
         /\ pendingMessages' \in Seq(Messages)
         /\ Len(pendingMessages) \in Nat /\ Len(pendingMessages') = Len(pendingMessages) + 1
         /\ ToSet(pendingMessages') = ToSet(pendingMessages) \cup {m}
         /\ IsInjective(pendingMessages) /\ m \notin ToSet(pendingMessages) =>
              IsInjective(pendingMessages')
         /\ Goto(u, "saveOffline")
         /\ UNCHANGED <<activeUsers, history, storageLock, historyLock, message, cursor,
                        fileContent, handled, inbox>>
<1>1. pc[u] = "store" /\ pendingMessages \in Seq(Messages) /\ handled \subseteq Messages
  BY DEF TypeOK, QueueOfflineMessage
<1>2. message[u] \in handled /\ message[u] \in Messages
  BY <1>1 DEF HandsInv, Handling
<1>3. pendingMessages' = Append(pendingMessages, message[u])
  BY DEF QueueOfflineMessage
<1> DEFINE m == message[u]
<1> HIDE DEF m
<1>4. /\ Append(pendingMessages, m) \in Seq(Messages)
      /\ Len(Append(pendingMessages, m)) = Len(pendingMessages) + 1
      /\ ToSet(Append(pendingMessages, m)) = ToSet(pendingMessages) \cup {m}
      /\ IsInjective(pendingMessages) /\ m \notin ToSet(pendingMessages) =>
            IsInjective(Append(pendingMessages, m))
      /\ Len(pendingMessages) \in Nat
  BY <1>1, <1>2, AppendProperties, LenProperties, ToSetAppend, InjectiveAppend DEF m
<1> QED
  BY <1>1, <1>2, <1>3, <1>4 DEF QueueOfflineMessage, m

\* The line of a message is put at the end of the file.
LEMMA Saved ==
  ASSUME TypeOK, HandsInv, NEW u \in Users, SaveToHistory(u)
  PROVE  LET m == message[u]
             n == Len(history)
         IN
         /\ pc[u] \in {"saveOffline", "saveOnline"} /\ m \in Messages /\ m \in handled
         /\ historyLock = Nobody
         /\ n \in Nat /\ DOMAIN history = 1 .. n
         /\ history' \in Seq(Lines) /\ Len(history') = n + 1 /\ DOMAIN history' = 1 .. n + 1
         /\ \A i \in 1 .. n : history'[i] = history[i]
         /\ history'[n + 1] = [msg |-> m, delivered |-> pc[u] = "saveOnline"]
         /\ message' = [message EXCEPT ![u] = NoMessage] /\ Goto(u, "online")
         /\ UNCHANGED <<activeUsers, pendingMessages, storageLock, historyLock, cursor,
                        fileContent, handled, inbox>>
<1>1. /\ pc[u] \in {"saveOffline", "saveOnline"} /\ history \in Seq(Lines)
      /\ handled \subseteq Messages
  BY DEF TypeOK, SaveToHistory, Lines
<1>2. message[u] \in handled /\ message[u] \in Messages
  BY <1>1 DEF HandsInv, Handling
<1> DEFINE line == [msg |-> message[u], delivered |-> pc[u] = "saveOnline"]
<1>3. line \in Lines
  BY <1>2 DEF Lines
<1>4. history' = Append(history, line)
  BY DEF SaveToHistory, Line
<1> HIDE DEF line
<1>5. /\ Append(history, line) \in Seq(Lines) /\ Len(Append(history, line)) = Len(history) + 1
      /\ \A i \in 1 .. Len(history) : Append(history, line)[i] = history[i]
      /\ Append(history, line)[Len(history) + 1] = line
  BY <1>1, <1>3, AppendProperties
<1>6. /\ Len(history) \in Nat /\ DOMAIN history = 1 .. Len(history)
      /\ DOMAIN Append(history, line) = 1 .. Len(Append(history, line))
  BY <1>1, <1>5, LenProperties
<1> QED
  BY <1>1, <1>2, <1>4, <1>5, <1>6 DEF SaveToHistory, HistoryFree, line

\* Sending to a user who is in the table, or finding that he is not.
LEMMA SentOnline ==
  ASSUME TypeOK, HandsInv, NEW u \in Users, SendPrivateMessageOnline(u)
  PROVE  LET m == message[u] IN
         /\ pc[u] = "send" /\ m \in Messages /\ m \in handled /\ m.to \in Users
         /\ \/ Transmit(m.to, m) /\ Goto(u, "saveOnline")
            \/ Goto(u, "store") /\ inbox' = inbox
         /\ UNCHANGED <<activeUsers, pendingMessages, history, storageLock, historyLock,
                        message, cursor, fileContent, handled>>
<1>1. pc[u] = "send" /\ handled \subseteq Messages
  BY DEF TypeOK, SendPrivateMessageOnline
<1>2. message[u] \in handled /\ message[u] \in Messages /\ message[u].to \in Users
  BY <1>1 DEF HandsInv, Handling
<1> QED
  BY <1>1, <1>2 DEF SendPrivateMessageOnline

-----------------------------------------------------------------------------
\* The invariant holds before the first login.
LEMMA InitInvariant == Init => IInv
<1> SUFFICES ASSUME Init PROVE IInv
  OBVIOUS
<1>1. /\ ToSet(pendingMessages) = {} /\ DOMAIN pendingMessages = {} /\ Len(pendingMessages) = 0
      /\ DOMAIN history = {}
      /\ \A u \in Users : ToSet(inbox[u]) = {} /\ DOMAIN inbox[u] = {}
  BY ToSetEmpty, EmptySeq DEF Init
<1>2. TypeOK
  <2>1. /\ pendingMessages \in Seq(Messages)
        /\ history \in Seq([msg : Messages, delivered : BOOLEAN])
        /\ fileContent \in [Users -> Seq([msg : Messages, delivered : BOOLEAN])]
        /\ inbox \in [Users -> Seq(Messages)]
    BY EmptySeq DEF Init
  <2>2. cursor \in [Users -> 1 .. Len(pendingMessages) + 1]
    BY <1>1 DEF Init
  <2> QED
    BY <2>1, <2>2 DEF Init, TypeOK, Stages
<1>3. LockInv
  BY MessagesAssumption DEF Init, LockInv, Scanning, Delivering
<1>4. HandsInv
  BY DEF Init, HandsInv, Handling
<1>5. OriginInv
  BY <1>1 DEF OriginInv
<1>6. OnePlace
  BY <1>1 DEF Init, OnePlace, PrivateHandled, IsInjective
<1>7. HistoryIsTrue
  BY <1>1 DEF Init, HistoryIsTrue, OneHistoryLine, DeliveredWasSent
<1> QED
  BY <1>2, <1>3, <1>4, <1>5, <1>6, <1>7 DEF IInv

-----------------------------------------------------------------------------
\* Each step keeps the types.
LEMMA NextTypeOK ==
  ASSUME IInv, [Next]_vars
  PROVE  TypeOK'
<1>0. TypeOK /\ LockInv /\ HandsInv /\ OnePlace
  BY DEF IInv
<1> USE DEF Stages
<1>1. ASSUME NEW u \in Users, Register(u) \/ Unregister(u) PROVE TypeOK'
  <2>1. Goto(u, "login") \/ Goto(u, "offline")
    BY <1>1 DEF Register, Unregister
  <2>2. pc' \in [Users -> Stages]
    BY <1>0, <2>1, Moved
  <2> QED
    BY <1>0, <1>1, <2>2 DEF TypeOK, Register, Unregister
<1>2. ASSUME NEW u \in Users, BeginScan(u) PROVE TypeOK'
  <2>1. pc' \in [Users -> Stages]
    BY <1>0, <1>2, Moved DEF BeginScan
  <2> QED
    BY <1>0, <1>2, <2>1 DEF TypeOK, BeginScan
<1>3. ASSUME NEW u \in Users, ScanMessage(u) PROVE TypeOK'
  <2> DEFINE m == pendingMessages[cursor[u]]
  <2>1. /\ cursor[u] \in 1 .. Len(pendingMessages) /\ m \in Messages
        /\ UNCHANGED <<activeUsers, pendingMessages, history, storageLock, historyLock,
                       message, fileContent, handled>>
        /\ \/ m.to = u /\ Transmit(u, m) /\ Goto(u, "update") /\ cursor' = cursor
           \/ cursor' = [cursor EXCEPT ![u] = cursor[u] + 1] /\ UNCHANGED <<inbox, pc>>
    BY <1>0, <1>3, Scanned
  <2> HIDE DEF m
  <2>2. Len(pendingMessages) \in Nat /\ cursor \in [Users -> 1 .. Len(pendingMessages) + 1]
    BY <1>0, LenProperties DEF TypeOK
  <2>3. cursor' \in [Users -> 1 .. Len(pendingMessages') + 1]
    <3>1. cursor[u] + 1 \in 1 .. Len(pendingMessages) + 1
      BY <2>1, <2>2
    <3> QED
      BY <2>1, <2>2, <3>1
  <2>4. pc' \in [Users -> Stages] /\ inbox' \in [Users -> Seq(Messages)]
    BY <1>0, <2>1, Moved, Delivered DEF TypeOK
  <2> QED
    BY <1>0, <2>1, <2>3, <2>4 DEF TypeOK
<1>4. ASSUME NEW u \in Users, ReadHistory(u) PROVE TypeOK'
  <2>1. pc' \in [Users -> Stages]
    BY <1>0, <1>4, Moved DEF ReadHistory
  <2>2. fileContent' \in [Users -> Seq([msg : Messages, delivered : BOOLEAN])]
    BY <1>0, <1>4 DEF TypeOK, ReadHistory
  <2> QED
    BY <1>0, <1>4, <2>1, <2>2 DEF TypeOK, ReadHistory
<1>5. ASSUME NEW u \in Users, RewriteHistory(u) PROVE TypeOK'
  <2>1. /\ cursor[u] \in 1 .. Len(pendingMessages) /\ cursor' = cursor
        /\ pendingMessages' \in Seq(Messages)
        /\ Len(pendingMessages') = Len(pendingMessages) - 1
        /\ history' = MarkDelivered(history, pendingMessages[cursor[u]].id)
        /\ fileContent' = [fileContent EXCEPT ![u] = <<>>]
        /\ historyLock' = Nobody /\ Goto(u, "scan") /\ pc[u] = "rewrite"
        /\ UNCHANGED <<activeUsers, storageLock, message, handled, inbox>>
    BY <1>0, <1>5, Rewritten
  <2>2. pc' \in [Users -> Stages]
    BY <1>0, <2>1, Moved
  <2>3. history' \in Seq([msg : Messages, delivered : BOOLEAN])
    BY <1>0, <2>1, MarkedLines DEF TypeOK, Lines
  <2>4. fileContent' \in [Users -> Seq([msg : Messages, delivered : BOOLEAN])]
    BY <1>0, <2>1, EmptySeq DEF TypeOK
  <2>5. cursor' \in [Users -> 1 .. Len(pendingMessages') + 1]
    <3>1. Len(pendingMessages) \in Nat /\ cursor \in [Users -> 1 .. Len(pendingMessages) + 1]
      BY <1>0, LenProperties DEF TypeOK
    <3>2. \A v \in Users \ {u} : pc[v] \notin Scanning
      BY <1>0, <2>1 DEF LockInv, Scanning, Delivering
    <3>3. \A v \in Users \ {u} : cursor[v] = 1
      BY <1>0, <3>2 DEF LockInv
    <3>4. \A v \in Users : cursor[v] \in 1 .. Len(pendingMessages') + 1
      BY <2>1, <3>1, <3>3
    <3> QED
      BY <2>1, <3>1, <3>4
  <2> QED
    BY <1>0, <2>1, <2>2, <2>3, <2>4, <2>5 DEF TypeOK
<1>6. ASSUME NEW u \in Users, EndScan(u) PROVE TypeOK'
  <2>1. pc' \in [Users -> Stages]
    BY <1>0, <1>6, Moved DEF EndScan
  <2>2. cursor' \in [Users -> 1 .. Len(pendingMessages) + 1] /\ pendingMessages' = pendingMessages
    <3>1. Len(pendingMessages) \in Nat /\ cursor \in [Users -> 1 .. Len(pendingMessages) + 1]
      BY <1>0, LenProperties DEF TypeOK
    <3>2. cursor' = [cursor EXCEPT ![u] = 1] /\ pendingMessages' = pendingMessages
      BY <1>6 DEF EndScan
    <3> QED
      BY <3>1, <3>2
  <2> QED
    BY <1>0, <1>6, <2>1, <2>2 DEF TypeOK, EndScan
<1>7. ASSUME NEW u \in Users, NEW m \in Messages, Receive(u, m) PROVE TypeOK'
  <2>1. pc' \in [Users -> Stages]
    BY <1>0, <1>7, Moved DEF Receive
  <2>2. message' \in [Users -> Messages \cup {NoMessage}] /\ handled' \subseteq Messages
    BY <1>0, <1>7 DEF TypeOK, Receive
  <2> QED
    BY <1>0, <1>7, <2>1, <2>2 DEF TypeOK, Receive
<1>8. ASSUME NEW u \in Users, SendPrivateMessageOnline(u) PROVE TypeOK'
  <2>1. /\ UNCHANGED <<activeUsers, pendingMessages, history, storageLock, historyLock,
                       message, cursor, fileContent, handled>>
        /\ message[u] \in Messages /\ message[u].to \in Users
        /\ \/ Transmit(message[u].to, message[u]) /\ Goto(u, "saveOnline")
           \/ Goto(u, "store") /\ inbox' = inbox
    BY <1>0, <1>8, SentOnline
  <2>2. pc' \in [Users -> Stages] /\ inbox' \in [Users -> Seq(Messages)]
    BY <1>0, <2>1, Moved, Delivered DEF TypeOK
  <2> QED
    BY <1>0, <2>1, <2>2 DEF TypeOK
<1>9. ASSUME NEW u \in Users, QueueOfflineMessage(u) PROVE TypeOK'
  <2>1. /\ pendingMessages' \in Seq(Messages) /\ Goto(u, "saveOffline") /\ cursor' = cursor
        /\ Len(pendingMessages) \in Nat /\ Len(pendingMessages') = Len(pendingMessages) + 1
        /\ UNCHANGED <<activeUsers, history, storageLock, historyLock, message,
                       fileContent, handled, inbox>>
    BY <1>0, <1>9, Queued
  <2>2. pc' \in [Users -> Stages]
    BY <1>0, <2>1, Moved
  <2>3. cursor' \in [Users -> 1 .. Len(pendingMessages') + 1]
    BY <1>0, <2>1 DEF TypeOK
  <2> QED
    BY <1>0, <2>1, <2>2, <2>3 DEF TypeOK
<1>10. ASSUME NEW u \in Users, SaveToHistory(u) PROVE TypeOK'
  <2>1. /\ history' \in Seq(Lines) /\ Goto(u, "online")
        /\ message' = [message EXCEPT ![u] = NoMessage]
        /\ UNCHANGED <<activeUsers, pendingMessages, storageLock, historyLock, cursor,
                       fileContent, handled, inbox>>
    BY <1>0, <1>10, Saved
  <2>2. pc' \in [Users -> Stages]
    BY <1>0, <2>1, Moved
  <2>3. message' \in [Users -> Messages \cup {NoMessage}]
    BY <1>0, <2>1 DEF TypeOK
  <2> QED
    BY <1>0, <2>1, <2>2, <2>3 DEF TypeOK, Lines
<1>11. CASE UNCHANGED vars
  BY <1>0, <1>11 DEF TypeOK, vars
<1> QED
  BY <1>1, <1>2, <1>3, <1>4, <1>5, <1>6, <1>7, <1>8, <1>9, <1>10, <1>11 DEF Next, Step

\* Each step keeps what the holders of the locks know.
LEMMA NextLockInv ==
  ASSUME IInv, [Next]_vars
  PROVE  LockInv'
<1>0. TypeOK /\ LockInv /\ HandsInv /\ OnePlace /\ Nobody \notin Users
  BY MessagesAssumption DEF IInv
<1> USE DEF Stages, Scanning, Delivering
<1>1. ASSUME NEW u \in Users, NEW stage \in Stages \ Scanning, pc[u] \notin Scanning,
             Goto(u, stage),
             UNCHANGED <<pendingMessages, history, storageLock, historyLock, cursor, fileContent,
                         inbox>>
      PROVE  LockInv'
  <2>1. pc'[u] = stage /\ \A v \in Users \ {u} : pc'[v] = pc[v]
    BY <1>0, <1>1, Moved
  <2> QED
    BY <1>0, <1>1, <2>1 DEF LockInv
<1>2. ASSUME NEW u \in Users, BeginScan(u) PROVE LockInv'
  <2>1. /\ pc[u] = "login" /\ storageLock = Nobody /\ storageLock' = u
        /\ pc'[u] = "scan" /\ \A v \in Users \ {u} : pc'[v] = pc[v]
        /\ UNCHANGED <<pendingMessages, history, historyLock, cursor, fileContent, inbox>>
    BY <1>0, <1>2, Moved DEF BeginScan
  <2> QED
    BY <1>0, <2>1 DEF LockInv
<1>3. ASSUME NEW u \in Users, ScanMessage(u) PROVE LockInv'
  <2> DEFINE m == pendingMessages[cursor[u]]
  <2>1. /\ pc[u] = "scan" /\ cursor[u] \in 1 .. Len(pendingMessages) /\ m \in Messages
        /\ UNCHANGED <<pendingMessages, history, storageLock, historyLock, fileContent>>
        /\ \/ m.to = u /\ Transmit(u, m) /\ Goto(u, "update") /\ cursor' = cursor
           \/ cursor' = [cursor EXCEPT ![u] = cursor[u] + 1] /\ UNCHANGED <<inbox, pc>>
    BY <1>0, <1>3, Scanned
  <2>2. storageLock = u /\ \A v \in Users \ {u} : pc[v] \notin Scanning
    BY <1>0, <2>1 DEF LockInv
  <2>3. CASE m.to = u /\ Transmit(u, m) /\ Goto(u, "update") /\ cursor' = cursor
    <3>1. pc'[u] = "update" /\ \A v \in Users \ {u} : pc'[v] = pc[v]
      BY <1>0, <2>3, Moved
    <3>2. cursor[u] \in DOMAIN pendingMessages
      BY <1>0, <2>1, LenProperties DEF TypeOK
    <3>3. m \in ToSet(inbox'[u])
      <4> HIDE DEF m
      <4>1. ToSet(inbox'[u]) = ToSet(inbox[u]) \cup {m}
        BY <1>0, <2>1, <2>3, Delivered
      <4> QED
        BY <4>1
    <3> QED
      BY <1>0, <2>1, <2>2, <2>3, <3>1, <3>2, <3>3 DEF LockInv
  <2>4. CASE cursor' = [cursor EXCEPT ![u] = cursor[u] + 1] /\ UNCHANGED <<inbox, pc>>
    <3>1. \A v \in Users \ {u} : cursor'[v] = cursor[v]
      BY <1>0, <2>4 DEF TypeOK
    <3> QED
      BY <1>0, <2>1, <2>2, <2>4, <3>1 DEF LockInv
  <2> QED
    BY <2>1, <2>3, <2>4
<1>4. ASSUME NEW u \in Users, ReadHistory(u) PROVE LockInv'
  <2>1. /\ pc[u] = "update" /\ historyLock = Nobody /\ historyLock' = u
        /\ pc'[u] = "rewrite" /\ \A v \in Users \ {u} : pc'[v] = pc[v]
        /\ UNCHANGED <<pendingMessages, history, storageLock, cursor, inbox>>
    BY <1>0, <1>4, Moved DEF ReadHistory
  <2>2. fileContent'[u] = history /\ \A v \in Users \ {u} : fileContent'[v] = fileContent[v]
    BY <1>0, <1>4 DEF TypeOK, ReadHistory
  <2> QED
    BY <1>0, <2>1, <2>2 DEF LockInv
<1>5. ASSUME NEW u \in Users, RewriteHistory(u) PROVE LockInv'
  <2>1. /\ pc[u] = "rewrite" /\ cursor' = cursor /\ historyLock' = Nobody
        /\ pc'[u] = "scan" /\ \A v \in Users \ {u} : pc'[v] = pc[v]
        /\ UNCHANGED <<storageLock, inbox>>
    BY <1>0, <1>5, Rewritten, Moved
  <2>2. storageLock = u /\ historyLock = u /\ \A v \in Users \ {u} : pc[v] \notin Scanning
    BY <1>0, <2>1 DEF LockInv
  <2> QED
    BY <1>0, <2>1, <2>2 DEF LockInv
<1>6. ASSUME NEW u \in Users, EndScan(u) PROVE LockInv'
  <2>1. /\ pc[u] = "scan" /\ storageLock' = Nobody
        /\ pc'[u] = "online" /\ \A v \in Users \ {u} : pc'[v] = pc[v]
        /\ UNCHANGED <<pendingMessages, history, historyLock, fileContent, inbox>>
    BY <1>0, <1>6, Moved DEF EndScan
  <2>2. storageLock = u /\ \A v \in Users \ {u} : pc[v] \notin Scanning
    BY <1>0, <2>1 DEF LockInv
  <2>3. cursor'[u] = 1 /\ \A v \in Users \ {u} : cursor'[v] = cursor[v]
    BY <1>0, <1>6 DEF TypeOK, EndScan
  <2> QED
    BY <1>0, <2>1, <2>2, <2>3 DEF LockInv
<1>7. ASSUME NEW u \in Users, NEW m \in Messages, Receive(u, m) PROVE LockInv'
  BY <1>1, <1>7 DEF Receive
<1>8. ASSUME NEW u \in Users, Register(u) \/ Unregister(u) PROVE LockInv'
  BY <1>1, <1>8 DEF Register, Unregister
<1>9. ASSUME NEW u \in Users, SendPrivateMessageOnline(u) PROVE LockInv'
  <2>1. /\ pc[u] = "send" /\ message[u] \in Messages /\ message[u].to \in Users
        /\ UNCHANGED <<pendingMessages, history, storageLock, historyLock, cursor, fileContent>>
        /\ \/ Transmit(message[u].to, message[u]) /\ Goto(u, "saveOnline")
           \/ Goto(u, "store") /\ inbox' = inbox
    BY <1>0, <1>9, SentOnline
  <2>2. pc'[u] \in {"saveOnline", "store"} /\ \A v \in Users \ {u} : pc'[v] = pc[v]
    BY <1>0, <2>1, Moved
  <2>3. \A v \in Users : ToSet(inbox[v]) \subseteq ToSet(inbox'[v])
    BY <1>0, <2>1, Delivered
  <2> QED
    BY <1>0, <2>1, <2>2, <2>3 DEF LockInv
<1>10. ASSUME NEW u \in Users, QueueOfflineMessage(u) PROVE LockInv'
  <2>1. /\ pc[u] = "store" /\ storageLock = Nobody
        /\ pc'[u] = "saveOffline" /\ \A v \in Users \ {u} : pc'[v] = pc[v]
        /\ UNCHANGED <<history, storageLock, historyLock, cursor, fileContent, inbox>>
    BY <1>0, <1>10, Queued, Moved
  <2>2. \A v \in Users : pc[v] \notin Scanning
    BY <1>0, <2>1 DEF LockInv
  <2> QED
    BY <1>0, <2>1, <2>2 DEF LockInv
<1>11. ASSUME NEW u \in Users, SaveToHistory(u) PROVE LockInv'
  <2>1. /\ pc[u] \in {"saveOffline", "saveOnline"} /\ historyLock = Nobody
        /\ pc'[u] = "online" /\ \A v \in Users \ {u} : pc'[v] = pc[v]
        /\ UNCHANGED <<pendingMessages, storageLock, historyLock, cursor, fileContent, inbox>>
    BY <1>0, <1>11, Saved, Moved
  <2>2. \A v \in Users : pc[v] # "rewrite"
    BY <1>0, <2>1 DEF LockInv
  <2> QED
    BY <1>0, <2>1, <2>2 DEF LockInv
<1>12. CASE UNCHANGED vars
  BY <1>0, <1>12 DEF LockInv, vars
<1> QED
  BY <1>2, <1>3, <1>4, <1>5, <1>6, <1>7, <1>8, <1>9, <1>10, <1>11, <1>12 DEF Next, Step

\* Each step keeps what the workers have in their hands.
LEMMA NextHandsInv ==
  ASSUME IInv, [Next]_vars
  PROVE  HandsInv'
<1>0. TypeOK /\ LockInv /\ HandsInv /\ Nobody \notin Users
  BY MessagesAssumption DEF IInv
<1> USE DEF Stages, Handling
<1>1. ASSUME NEW u \in Users, NEW stage \in Stages \ Handling, pc[u] \notin Handling,
             Goto(u, stage), UNCHANGED <<message, handled>>,
             \A v \in Users : ToSet(inbox[v]) \subseteq ToSet(inbox'[v])
      PROVE  HandsInv'
  <2>1. pc'[u] = stage /\ \A v \in Users \ {u} : pc'[v] = pc[v]
    BY <1>0, <1>1, Moved
  <2> QED
    BY <1>0, <1>1, <2>1 DEF HandsInv
<1>2. ASSUME NEW u \in Users, Register(u) \/ Unregister(u) \/ BeginScan(u) \/ ReadHistory(u)
                                \/ EndScan(u)
      PROVE  HandsInv'
  BY <1>1, <1>2 DEF Register, Unregister, BeginScan, ReadHistory, EndScan
<1>3. ASSUME NEW u \in Users, ScanMessage(u) PROVE HandsInv'
  <2> DEFINE m == pendingMessages[cursor[u]]
  <2>1. /\ pc[u] = "scan" /\ m \in Messages /\ UNCHANGED <<message, handled>>
        /\ (Transmit(u, m) /\ Goto(u, "update")) \/ UNCHANGED <<inbox, pc>>
    BY <1>0, <1>3, Scanned
  <2>2. CASE Transmit(u, m) /\ Goto(u, "update")
    <3>1. \A v \in Users : ToSet(inbox[v]) \subseteq ToSet(inbox'[v])
      BY <1>0, <2>1, <2>2, Delivered
    <3> QED
      BY <1>1, <2>1, <2>2, <3>1
  <2>3. CASE UNCHANGED <<inbox, pc>>
    BY <1>0, <2>1, <2>3 DEF HandsInv
  <2> QED
    BY <2>1, <2>2, <2>3
<1>4. ASSUME NEW u \in Users, RewriteHistory(u) PROVE HandsInv'
  <2>1. /\ pc[u] = "rewrite" /\ Goto(u, "scan") /\ UNCHANGED <<message, handled, inbox>>
    BY <1>0, <1>4, Rewritten
  <2> QED
    BY <1>1, <2>1
<1>5. ASSUME NEW u \in Users, NEW m \in Messages, Receive(u, m) PROVE HandsInv'
  <2>1. /\ pc[u] = "online" /\ m.from = u /\ handled' = handled \cup {m} /\ inbox' = inbox
        /\ pc'[u] = IF m.to = Everyone THEN "saveOnline" ELSE "send"
        /\ \A v \in Users \ {u} : pc'[v] = pc[v]
    BY <1>0, <1>5, Moved DEF Receive
  <2>2. message'[u] = m /\ \A v \in Users \ {u} : message'[v] = message[v]
    BY <1>0, <1>5 DEF TypeOK, Receive
  <2>3. m.to \in Users \cup {Everyone} /\ Everyone \notin Users
    BY MessagesAssumption
  <2> QED
    BY <1>0, <2>1, <2>2, <2>3 DEF HandsInv
<1>6. ASSUME NEW u \in Users, SendPrivateMessageOnline(u) PROVE HandsInv'
  <2> DEFINE m == message[u]
  <2>1. /\ pc[u] = "send" /\ m \in Messages /\ m.to \in Users /\ UNCHANGED <<message, handled>>
        /\ \/ Transmit(m.to, m) /\ Goto(u, "saveOnline")
           \/ Goto(u, "store") /\ inbox' = inbox
    BY <1>0, <1>6, SentOnline
  <2>2. /\ pc'[u] = "saveOnline" => m \in ToSet(inbox'[m.to])
        /\ pc'[u] \in {"saveOnline", "store"} /\ \A v \in Users \ {u} : pc'[v] = pc[v]
        /\ \A v \in Users : ToSet(inbox[v]) \subseteq ToSet(inbox'[v])
    BY <1>0, <2>1, Moved, Delivered
  <2> QED
    BY <1>0, <2>1, <2>2 DEF HandsInv
<1>7. ASSUME NEW u \in Users, QueueOfflineMessage(u) PROVE HandsInv'
  <2>1. /\ pc[u] = "store" /\ UNCHANGED <<message, handled, inbox>>
        /\ pc'[u] = "saveOffline" /\ \A v \in Users \ {u} : pc'[v] = pc[v]
    BY <1>0, <1>7, Queued, Moved
  <2> QED
    BY <1>0, <2>1 DEF HandsInv
<1>8. ASSUME NEW u \in Users, SaveToHistory(u) PROVE HandsInv'
  <2>1. /\ message' = [message EXCEPT ![u] = NoMessage] /\ UNCHANGED <<handled, inbox>>
        /\ pc'[u] = "online" /\ \A v \in Users \ {u} : pc'[v] = pc[v]
    BY <1>0, <1>8, Saved, Moved
  <2>2. message'[u] = NoMessage /\ \A v \in Users \ {u} : message'[v] = message[v]
    BY <1>0, <2>1 DEF TypeOK
  <2> QED
    BY <1>0, <2>1, <2>2 DEF HandsInv
<1>9. CASE UNCHANGED vars
  BY <1>0, <1>9 DEF HandsInv, vars
<1> QED
  BY <1>2, <1>3, <1>4, <1>5, <1>6, <1>7, <1>8, <1>9 DEF Next, Step

\* Each step keeps everything to what was received.
LEMMA NextOriginInv ==
  ASSUME IInv, [Next]_vars
  PROVE  OriginInv'
<1>0. TypeOK /\ LockInv /\ HandsInv /\ OriginInv /\ OnePlace
  BY DEF IInv
<1> USE DEF PrivateHandled
<1>1. CASE /\ ToSet(pendingMessages') \subseteq ToSet(pendingMessages)
           /\ handled \subseteq handled'
           /\ UNCHANGED <<history, inbox>>
  BY <1>0, <1>1 DEF OriginInv
<1>2. ASSUME NEW u \in Users, Register(u) \/ Unregister(u) \/ BeginScan(u) \/ ReadHistory(u)
                                \/ EndScan(u)
      PROVE  OriginInv'
  BY <1>1, <1>2 DEF Register, Unregister, BeginScan, ReadHistory, EndScan
<1>3. ASSUME NEW u \in Users, ScanMessage(u) PROVE OriginInv'
  <2> DEFINE m == pendingMessages[cursor[u]]
  <2>1. /\ m \in Messages /\ cursor[u] \in 1 .. Len(pendingMessages)
        /\ UNCHANGED <<pendingMessages, history, handled>>
        /\ Transmit(u, m) \/ inbox' = inbox
    BY <1>0, <1>3, Scanned
  <2>2. m \in PrivateHandled
    <3>1. cursor[u] \in DOMAIN pendingMessages
      BY <1>0, <2>1, LenProperties DEF TypeOK
    <3>2. m \in ToSet(pendingMessages)
      BY <3>1 DEF ToSet
    <3> QED
      BY <1>0, <3>2 DEF OriginInv
  <2> HIDE DEF m
  <2>3. \A v \in Users : ToSet(inbox'[v]) \subseteq ToSet(inbox[v]) \cup {m}
    BY <1>0, <2>1, Delivered
  <2> QED
    BY <1>0, <2>1, <2>2, <2>3 DEF OriginInv
<1>4. ASSUME NEW u \in Users, RewriteHistory(u) PROVE OriginInv'
  <2> DEFINE m == pendingMessages[cursor[u]]
  <2>1. /\ history' = MarkDelivered(history, m.id) /\ UNCHANGED <<handled, inbox>>
        /\ ToSet(pendingMessages') \subseteq ToSet(pendingMessages)
    BY <1>0, <1>4, Rewritten DEF OnePlace
  <2>2. DOMAIN history' = DOMAIN history
        /\ \A i \in DOMAIN history : history'[i].msg = history[i].msg
    BY <1>0, <2>1, MarkedLines DEF TypeOK, Lines
  <2> QED
    BY <1>0, <2>1, <2>2 DEF OriginInv
<1>5. ASSUME NEW u \in Users, NEW m \in Messages, Receive(u, m) PROVE OriginInv'
  BY <1>1, <1>5 DEF Receive
<1>6. ASSUME NEW u \in Users, SendPrivateMessageOnline(u) PROVE OriginInv'
  <2> DEFINE m == message[u]
  <2>1. /\ m \in Messages /\ m \in handled /\ m.to \in Users
        /\ UNCHANGED <<pendingMessages, history, handled>>
        /\ Transmit(m.to, m) \/ inbox' = inbox
    BY <1>0, <1>6, SentOnline
  <2> HIDE DEF m
  <2>2. \A v \in Users : ToSet(inbox'[v]) \subseteq ToSet(inbox[v]) \cup {m}
    BY <1>0, <2>1, Delivered
  <2> QED
    BY <1>0, <2>1, <2>2 DEF OriginInv
<1>7. ASSUME NEW u \in Users, QueueOfflineMessage(u) PROVE OriginInv'
  <2>1. /\ pc[u] = "store" /\ message[u] \in handled
        /\ ToSet(pendingMessages') = ToSet(pendingMessages) \cup {message[u]}
        /\ UNCHANGED <<history, handled, inbox>>
    BY <1>0, <1>7, Queued
  <2>2. message[u].to \in Users
    BY <1>0, <2>1 DEF HandsInv
  <2> QED
    BY <1>0, <2>1, <2>2 DEF OriginInv
<1>8. ASSUME NEW u \in Users, SaveToHistory(u) PROVE OriginInv'
  <2> DEFINE m == message[u]
             n == Len(history)
  <2>1. /\ m \in handled /\ n \in Nat /\ DOMAIN history = 1 .. n /\ DOMAIN history' = 1 .. n + 1
        /\ \A i \in 1 .. n : history'[i] = history[i]
        /\ history'[n + 1] = [msg |-> m, delivered |-> pc[u] = "saveOnline"]
        /\ UNCHANGED <<pendingMessages, handled, inbox>>
    BY <1>0, <1>8, Saved
  <2> HIDE DEF m, n
  <2>2. \A i \in DOMAIN history' : history'[i].msg \in handled'
    <3>1. history'[n + 1].msg \in handled'
      BY <2>1
    <3>2. \A i \in 1 .. n : history'[i].msg \in handled'
      BY <1>0, <2>1 DEF OriginInv
    <3>3. \A i \in 1 .. n + 1 : i \in 1 .. n \/ i = n + 1
      BY <2>1
    <3> QED
      BY <2>1, <3>1, <3>2, <3>3
  <2> QED
    BY <1>0, <2>1, <2>2 DEF OriginInv
<1>9. CASE UNCHANGED vars
  BY <1>1, <1>9 DEF vars
<1> QED
  BY <1>2, <1>3, <1>4, <1>5, <1>6, <1>7, <1>8, <1>9 DEF Next, Step

-----------------------------------------------------------------------------
\* What the invariant says of the vector, now and after a step.
LEMMA StoredIs ==
  /\ TypeOK /\ LockInv /\ IsInjective(pendingMessages) =>
       \A m : m \in Stored <=> /\ m \in ToSet(pendingMessages)
                               /\ \A u \in Users : pc[u] \in Delivering =>
                                     m # pendingMessages[cursor[u]]
  /\ TypeOK' /\ LockInv' /\ IsInjective(pendingMessages') =>
       \A m : m \in Stored' <=> /\ m \in ToSet(pendingMessages')
                                /\ \A u \in Users : pc'[u] \in Delivering =>
                                      m # pendingMessages'[cursor'[u]]
<1>1. ASSUME TypeOK, LockInv, IsInjective(pendingMessages)
      PROVE  \A m : m \in Stored <=> /\ m \in ToSet(pendingMessages)
                                     /\ \A u \in Users : pc[u] \in Delivering =>
                                           m # pendingMessages[cursor[u]]
  <2> DEFINE D == {v \in Users : pc[v] \in Delivering}
  <2>1. pendingMessages \in Seq(Messages) /\ \A u \in D : cursor[u] \in DOMAIN pendingMessages
    BY <1>1 DEF TypeOK, LockInv
  <2>2. Stored = {pendingMessages[i] : i \in DOMAIN pendingMessages \ {cursor[u] : u \in D}}
    BY DEF Stored, Delivering
  <2> HIDE DEF D
  <2>3. \A m : m \in Stored <=> m \in ToSet(pendingMessages)
                                /\ \A u \in D : m # pendingMessages[cursor[u]]
    BY <1>1, <2>1, <2>2 DEF ToSet, IsInjective
  <2> QED
    BY <2>3 DEF D
<1>2. ASSUME TypeOK', LockInv', IsInjective(pendingMessages')
      PROVE  \A m : m \in Stored' <=> /\ m \in ToSet(pendingMessages')
                                      /\ \A u \in Users : pc'[u] \in Delivering =>
                                            m # pendingMessages'[cursor'[u]]
  <2> DEFINE D == {v \in Users : pc'[v] \in Delivering}
  <2>1. pendingMessages' \in Seq(Messages) /\ \A u \in D : cursor'[u] \in DOMAIN pendingMessages'
    BY <1>2 DEF TypeOK, LockInv
  <2>2. Stored' = {pendingMessages'[i] : i \in DOMAIN pendingMessages' \ {cursor'[u] : u \in D}}
    BY DEF Stored, Delivering
  <2> HIDE DEF D
  <2>3. \A m : m \in Stored' <=> m \in ToSet(pendingMessages')
                                 /\ \A u \in D : m # pendingMessages'[cursor'[u]]
    BY <1>2, <2>1, <2>2 DEF ToSet, IsInjective
  <2> QED
    BY <2>3 DEF D
<1> QED
  BY <1>1, <1>2

\* A message is in nobody's hands but its sender's, now and after a step.
LEMMA InHandsIs ==
  ASSUME NEW m \in Messages
  PROVE  /\ TypeOK /\ HandsInv =>
              (InHands(m) <=> message[m.from] = m /\ pc[m.from] \in {"send", "store"})
         /\ TypeOK' /\ HandsInv' =>
              (InHands(m)' <=> message'[m.from] = m /\ pc'[m.from] \in {"send", "store"})
<1>1. m.from \in Users
  BY MessagesAssumption
<1>2. ASSUME HandsInv
      PROVE  InHands(m) <=> message[m.from] = m /\ pc[m.from] \in {"send", "store"}
  BY <1>1, <1>2 DEF InHands, HandsInv, Handling
<1>3. ASSUME HandsInv'
      PROVE  InHands(m)' <=> message'[m.from] = m /\ pc'[m.from] \in {"send", "store"}
  BY <1>1, <1>3 DEF InHands, HandsInv, Handling
<1> QED
  BY <1>2, <1>3

\* Each step keeps every private message in one place.
LEMMA NextOnePlace ==
  ASSUME IInv, [Next]_vars
  PROVE  OnePlace'
<1>0. /\ TypeOK /\ LockInv /\ HandsInv /\ OriginInv /\ OnePlace
      /\ TypeOK' /\ LockInv' /\ HandsInv' /\ OriginInv'
      /\ Nobody \notin Users /\ Everyone \notin Users /\ PrivateHandled \subseteq Messages
  BY NextTypeOK, NextLockInv, NextHandsInv, NextOriginInv, MessagesAssumption
  DEF IInv, PrivateHandled, TypeOK
<1> USE DEF Stages
<1>1. /\ IsInjective(pendingMessages)
      /\ \A u \in Users : IsInjective(inbox[u]) /\ \A m \in ToSet(inbox[u]) : m.to = u
      /\ \A m \in PrivateHandled :
           \/ InHands(m) /\ m \notin Stored /\ m \notin ToSet(inbox[m.to])
           \/ ~InHands(m) /\ m \in Stored /\ m \notin ToSet(inbox[m.to])
           \/ ~InHands(m) /\ m \notin Stored /\ m \in ToSet(inbox[m.to])
  BY <1>0 DEF OnePlace, ToSet
<1>2. SUFFICES
        /\ IsInjective(pendingMessages')
        /\ \A u \in Users : IsInjective(inbox'[u]) /\ \A m \in ToSet(inbox'[u]) : m.to = u
        /\ \A m \in PrivateHandled' :
             \/ InHands(m)' /\ m \notin Stored' /\ m \notin ToSet(inbox'[m.to])
             \/ ~InHands(m)' /\ m \in Stored' /\ m \notin ToSet(inbox'[m.to])
             \/ ~InHands(m)' /\ m \notin Stored' /\ m \in ToSet(inbox'[m.to])
  BY DEF OnePlace, ToSet
<1>3. \A m \in Messages : m.from \in Users
  BY MessagesAssumption
\* Steps that take no message into the hands of anybody and none out of them.
<1>4. ASSUME NEW u \in Users,
             \A v \in Users \ {u} : pc'[v] = pc[v] /\ message'[v] = message[v],
             pc[u] \notin {"send", "store"}, pc'[u] \notin {"send", "store"}
      PROVE  \A m \in Messages : InHands(m)' <=> InHands(m)
  <2>1. \A m \in Messages : InHands(m)  <=> message[m.from] = m /\ pc[m.from] \in {"send", "store"}
    BY <1>0, InHandsIs
  <2>2. \A m \in Messages : InHands(m)' <=> message'[m.from] = m /\ pc'[m.from] \in {"send", "store"}
    BY <1>0, InHandsIs
  <2> QED
    BY <1>3, <1>4, <2>1, <2>2
\* Steps that begin no delivery and leave the vector alone.
<1>5. ASSUME pendingMessages' = pendingMessages,
             \A v \in Users : /\ pc'[v] \in Delivering <=> pc[v] \in Delivering
                              /\ pc[v] \in Delivering => cursor'[v] = cursor[v]
      PROVE  \A m : m \in Stored' <=> m \in Stored
  <2>1. \A m : m \in Stored  <=> /\ m \in ToSet(pendingMessages)
                                 /\ \A v \in Users : pc[v] \in Delivering =>
                                       m # pendingMessages[cursor[v]]
    BY <1>0, <1>1, StoredIs
  <2>2. \A m : m \in Stored' <=> /\ m \in ToSet(pendingMessages')
                                 /\ \A v \in Users : pc'[v] \in Delivering =>
                                       m # pendingMessages'[cursor'[v]]
    BY <1>0, <1>1, <1>5, StoredIs
  <2> QED
    BY <1>5, <2>1, <2>2
<1> HIDE DEF Stages
<1>6. ASSUME inbox' = inbox, handled' = handled, IsInjective(pendingMessages'),
             \A m \in Messages : InHands(m)' <=> InHands(m),
             \A m : m \in Stored' <=> m \in Stored
      PROVE  <1>2!1
  BY <1>0, <1>1, <1>6 DEF PrivateHandled
<1>7. ASSUME NEW u \in Users, Register(u) \/ Unregister(u) \/ BeginScan(u) \/ ReadHistory(u)
                                \/ EndScan(u)
      PROVE  <1>2!1
  <2>1. /\ UNCHANGED <<pendingMessages, message, handled, inbox>>
        /\ pc[u] \notin {"send", "store"} /\ pc'[u] \notin {"send", "store"}
        /\ \A v \in Users \ {u} : pc'[v] = pc[v]
        /\ pc'[u] \in Delivering <=> pc[u] \in Delivering
        /\ \A v \in Users : pc[v] \in Delivering => cursor'[v] = cursor[v]
    <3>1. /\ pc[u] \in {"offline", "online", "login", "update", "scan"}
          /\ UNCHANGED <<pendingMessages, message, handled, inbox>>
          /\ \/ pc[u] # "update" /\ (Goto(u, "login") \/ Goto(u, "offline")
                                      \/ Goto(u, "scan") \/ Goto(u, "online"))
             \/ pc[u] = "update" /\ Goto(u, "rewrite")
      BY <1>7 DEF Register, Unregister, BeginScan, ReadHistory, EndScan
    <3>2. cursor' = cursor \/ (cursor' = [cursor EXCEPT ![u] = 1] /\ pc[u] = "scan")
      BY <1>7 DEF Register, Unregister, BeginScan, ReadHistory, EndScan
    <3>3. /\ \A v \in Users \ {u} : pc'[v] = pc[v]
          /\ \/ pc[u] # "update" /\ pc'[u] \in {"login", "offline", "scan", "online"}
             \/ pc[u] = "update" /\ pc'[u] = "rewrite"
      BY <1>0, <3>1, Moved DEF Stages
    <3>4. \A v \in Users : pc[v] \in Delivering => cursor'[v] = cursor[v]
      BY <1>0, <3>2 DEF TypeOK, Delivering
    <3> QED
      BY <3>1, <3>3, <3>4 DEF Delivering
  <2>2. \A m \in Messages : InHands(m)' <=> InHands(m)
    BY <1>4, <2>1
  <2>3. \A m : m \in Stored' <=> m \in Stored
    BY <1>5, <2>1
  <2> QED
    BY <1>1, <1>6, <2>1, <2>2, <2>3
<1>8. ASSUME NEW u \in Users, SaveToHistory(u) PROVE <1>2!1
  <2>1. /\ pc[u] \in {"saveOffline", "saveOnline"} /\ pc'[u] = "online"
        /\ message' = [message EXCEPT ![u] = NoMessage]
        /\ \A v \in Users \ {u} : pc'[v] = pc[v]
        /\ UNCHANGED <<pendingMessages, cursor, handled, inbox>>
    BY <1>0, <1>8, Saved, Moved DEF Stages
  <2>2. \A v \in Users \ {u} : message'[v] = message[v]
    BY <1>0, <2>1 DEF TypeOK
  <2>3. \A m \in Messages : InHands(m)' <=> InHands(m)
    BY <1>4, <2>1, <2>2
  <2>4. \A m : m \in Stored' <=> m \in Stored
    BY <1>5, <2>1 DEF Delivering
  <2> QED
    BY <1>1, <1>6, <2>1, <2>3, <2>4
<1>9. ASSUME NEW u \in Users, ScanMessage(u) PROVE <1>2!1
  <2> DEFINE m == pendingMessages[cursor[u]]
  <2>1. /\ pc[u] = "scan" /\ cursor[u] \in 1 .. Len(pendingMessages)
        /\ UNCHANGED <<pendingMessages, message, handled>>
        /\ \/ m.to = u /\ Transmit(u, m) /\ Goto(u, "update") /\ cursor' = cursor
           \/ cursor' = [cursor EXCEPT ![u] = cursor[u] + 1] /\ UNCHANGED <<inbox, pc>>
    BY <1>0, <1>9, Scanned
  <2>2. storageLock = u /\ (\A v \in Users : pc[v] \notin Delivering)
    BY <1>0, <2>1 DEF LockInv, Scanning, Delivering
  <2>3. CASE cursor' = [cursor EXCEPT ![u] = cursor[u] + 1] /\ UNCHANGED <<inbox, pc>>
    <3>1. \A n \in Messages : InHands(n)' <=> InHands(n)
      BY <1>4, <2>1, <2>3
    <3>2. \A n : n \in Stored' <=> n \in Stored
      BY <1>5, <2>1, <2>2, <2>3
    <3> QED
      BY <1>1, <1>6, <2>1, <2>3, <3>1, <3>2
  <2>4. CASE m.to = u /\ Transmit(u, m) /\ Goto(u, "update") /\ cursor' = cursor
    <3>1. pc'[u] = "update" /\ \A v \in Users \ {u} : pc'[v] = pc[v]
      BY <1>0, <2>4, Moved DEF Stages
    <3>2. \A n \in Messages : InHands(n)' <=> InHands(n)
      BY <1>4, <2>1, <3>1
    <3>3. m \in ToSet(pendingMessages) /\ m \in PrivateHandled
      <4>1. cursor[u] \in DOMAIN pendingMessages
        BY <1>0, <2>1, LenProperties DEF TypeOK
      <4> QED
        BY <1>0, <4>1 DEF ToSet, OriginInv
    <3>4. \A n : n \in Stored <=> n \in ToSet(pendingMessages)
      BY <1>0, <1>1, <2>2, StoredIs
    <3>5. \A n : n \in Stored' <=> n \in ToSet(pendingMessages) /\ n # m
      <4>1. \A n : n \in Stored' <=> /\ n \in ToSet(pendingMessages')
                                     /\ \A v \in Users : pc'[v] \in Delivering =>
                                           n # pendingMessages'[cursor'[v]]
        BY <1>0, <1>1, <2>1, StoredIs
      <4>2. \A v \in Users : pc'[v] \in Delivering <=> v = u
        BY <2>2, <3>1 DEF Delivering
      <4> QED
        BY <2>1, <2>4, <4>1, <4>2
    <3> HIDE DEF m
    <3>6. ~InHands(m) /\ m \notin ToSet(inbox[u])
      BY <1>1, <2>4, <3>3, <3>4
    <3>7. /\ ToSet(inbox'[u]) = ToSet(inbox[u]) \cup {m} /\ IsInjective(inbox'[u])
          /\ \A v \in Users \ {u} : inbox'[v] = inbox[v]
      BY <1>0, <1>1, <2>4, <3>3, <3>6, Delivered
    <3>8. \A n \in PrivateHandled : n.to \in Users
      BY DEF PrivateHandled
    <3>9. \A v \in Users : IsInjective(inbox'[v]) /\ \A n \in ToSet(inbox'[v]) : n.to = v
      BY <1>1, <2>4, <3>7
    <3>10. ASSUME NEW n \in PrivateHandled
           PROVE  \/ InHands(n)' /\ n \notin Stored' /\ n \notin ToSet(inbox'[n.to])
                  \/ ~InHands(n)' /\ n \in Stored' /\ n \notin ToSet(inbox'[n.to])
                  \/ ~InHands(n)' /\ n \notin Stored' /\ n \in ToSet(inbox'[n.to])
      <4>1. (InHands(n)' <=> InHands(n)) /\ (n \in Stored' <=> n \in Stored /\ n # m)
        BY <1>0, <3>2, <3>4, <3>5
      <4>2. n \in ToSet(inbox'[n.to]) <=> n \in ToSet(inbox[n.to]) \/ n = m
        <5>1. CASE n.to = u
          BY <3>7, <5>1
        <5>2. CASE n.to # u
          BY <2>4, <3>7, <3>8, <5>2
        <5> QED
          BY <5>1, <5>2
      <4> QED
        BY <1>1, <2>4, <3>6, <4>1, <4>2
    <3> QED
      BY <1>1, <2>1, <3>9, <3>10 DEF PrivateHandled
  <2> QED
    BY <2>1, <2>3, <2>4
<1>10. ASSUME NEW u \in Users, RewriteHistory(u) PROVE <1>2!1
  <2> DEFINE m == pendingMessages[cursor[u]]
  <2>1. /\ pc[u] = "rewrite" /\ cursor' = cursor
        /\ pc'[u] = "scan" /\ \A v \in Users \ {u} : pc'[v] = pc[v]
        /\ IsInjective(pendingMessages')
        /\ ToSet(pendingMessages') = ToSet(pendingMessages) \ {m}
        /\ UNCHANGED <<message, handled, inbox>>
    BY <1>0, <1>1, <1>10, Rewritten, Moved DEF Stages
  <2>2. \A n \in Messages : InHands(n)' <=> InHands(n)
    BY <1>4, <2>1
  <2>3. /\ \A v \in Users : pc[v] \in Delivering <=> v = u
        /\ \A v \in Users : pc'[v] \notin Delivering
    BY <1>0, <2>1 DEF LockInv, Scanning, Delivering
  <2>4. \A n : n \in Stored <=> n \in ToSet(pendingMessages) /\ n # m
    BY <1>0, <1>1, <2>3, StoredIs
  <2>5. \A n : n \in Stored' <=> n \in ToSet(pendingMessages')
    BY <1>0, <2>1, <2>3, StoredIs
  <2> HIDE DEF m
  <2> QED
    BY <1>6, <2>1, <2>2, <2>4, <2>5
<1>11. ASSUME NEW u \in Users, NEW m \in Messages, Receive(u, m) PROVE <1>2!1
  <2>1. /\ pc[u] = "online" /\ m.from = u /\ m \notin handled /\ handled' = handled \cup {m}
        /\ pc'[u] = IF m.to = Everyone THEN "saveOnline" ELSE "send"
        /\ \A v \in Users \ {u} : pc'[v] = pc[v]
        /\ message'[u] = m /\ \A v \in Users \ {u} : message'[v] = message[v]
        /\ UNCHANGED <<pendingMessages, cursor, inbox>>
    <3>1. message'[u] = m /\ \A v \in Users \ {u} : message'[v] = message[v]
      BY <1>0, <1>11 DEF TypeOK, Receive
    <3> QED
      BY <1>0, <1>11, <3>1, Moved DEF Receive, Stages
  <2>2. \A n : n \in Stored' <=> n \in Stored
    BY <1>5, <2>1 DEF Delivering
  <2>3. message[u] = NoMessage /\ NoMessage \notin Messages
    BY <1>0, <2>1, MessagesAssumption DEF HandsInv, Handling, NoMessage
  <2>4. \A n \in Messages \ {m} : InHands(n)' <=> InHands(n)
    <3>1. \A n \in Messages : InHands(n)  <=> message[n.from] = n /\ pc[n.from] \in {"send", "store"}
      BY <1>0, InHandsIs
    <3>2. \A n \in Messages : InHands(n)' <=> message'[n.from] = n /\ pc'[n.from] \in {"send", "store"}
      BY <1>0, InHandsIs
    <3> QED
      BY <1>3, <2>1, <2>3, <3>1, <3>2
  <2>5. m.to \in Users => InHands(m)'
    BY <1>0, <2>1, InHandsIs
  <2>6. m \notin Stored' /\ \A v \in Users : m \notin ToSet(inbox'[v])
    <3>1. m \notin ToSet(pendingMessages) /\ \A v \in Users : m \notin ToSet(inbox[v])
      BY <1>0, <2>1 DEF OriginInv, PrivateHandled
    <3> QED
      BY <1>0, <1>1, <2>1, <2>2, <3>1, StoredIs
  <2>7. \A n \in PrivateHandled' : n \in PrivateHandled \/ (n = m /\ m.to \in Users)
    BY <2>1 DEF PrivateHandled
  <2>8. m \notin PrivateHandled
    BY <2>1 DEF PrivateHandled
  <2> QED
    BY <1>0, <1>1, <2>1, <2>2, <2>4, <2>5, <2>6, <2>7, <2>8
<1>12. ASSUME NEW u \in Users, SendPrivateMessageOnline(u) PROVE <1>2!1
  <2> DEFINE m == message[u]
  <2>1. /\ pc[u] = "send" /\ m \in Messages /\ m \in handled /\ m.to \in Users
        /\ UNCHANGED <<pendingMessages, message, cursor, handled>>
        /\ \/ Transmit(m.to, m) /\ Goto(u, "saveOnline")
           \/ Goto(u, "store") /\ inbox' = inbox
    BY <1>0, <1>12, SentOnline
  <2>2. m.from = u /\ m \in PrivateHandled
    BY <1>0, <2>1 DEF HandsInv, Handling, PrivateHandled
  <2>3. pc'[u] \in {"saveOnline", "store"} /\ \A v \in Users \ {u} : pc'[v] = pc[v]
    BY <1>0, <2>1, Moved DEF Stages
  <2>4. \A n : n \in Stored' <=> n \in Stored
    BY <1>5, <2>1, <2>3 DEF Delivering
  <2>5. \A n \in Messages : InHands(n)  <=> message[n.from] = n /\ pc[n.from] \in {"send", "store"}
    BY <1>0, InHandsIs
  <2>6. \A n \in Messages : InHands(n)' <=> message'[n.from] = n /\ pc'[n.from] \in {"send", "store"}
    BY <1>0, InHandsIs
  <2>7. InHands(m)
    BY <2>1, <2>2, <2>5
  <2>8. \A n \in Messages : n # m => (InHands(n)' <=> InHands(n))
    BY <1>3, <2>1, <2>3, <2>5, <2>6
  <2>9. CASE Goto(u, "store") /\ inbox' = inbox
    <3>1. pc'[u] = "store"
      BY <1>0, <2>9, Moved DEF Stages
    <3>2. \A n \in Messages : InHands(n)' <=> InHands(n)
      BY <1>3, <2>1, <2>3, <2>5, <2>6, <3>1
    <3> QED
      BY <1>1, <1>6, <2>1, <2>4, <2>9, <3>2
  <2>10. CASE Transmit(m.to, m) /\ Goto(u, "saveOnline")
    <3>1. \A n \in Messages : n = m => ~InHands(n)'
      <4>1. pc'[u] = "saveOnline"
        BY <1>0, <2>10, Moved DEF Stages
      <4> QED
        BY <2>1, <2>2, <2>6, <4>1
    <3> HIDE DEF m
    <3>2. m \notin Stored /\ m \notin ToSet(inbox[m.to])
      BY <1>1, <2>2, <2>7
    <3>3. /\ ToSet(inbox'[m.to]) = ToSet(inbox[m.to]) \cup {m} /\ IsInjective(inbox'[m.to])
          /\ \A v \in Users \ {m.to} : inbox'[v] = inbox[v]
      BY <1>0, <1>1, <2>1, <2>10, <3>2, Delivered
    <3>4. \A v \in Users : IsInjective(inbox'[v]) /\ \A n \in ToSet(inbox'[v]) : n.to = v
      BY <1>1, <2>1, <3>3
    <3>5. ASSUME NEW n \in PrivateHandled
          PROVE  \/ InHands(n)' /\ n \notin Stored' /\ n \notin ToSet(inbox'[n.to])
                 \/ ~InHands(n)' /\ n \in Stored' /\ n \notin ToSet(inbox'[n.to])
                 \/ ~InHands(n)' /\ n \notin Stored' /\ n \in ToSet(inbox'[n.to])
      <4>1. n \in Messages /\ n.to \in Users
        BY <1>0 DEF PrivateHandled
      <4>2. n # m => (n \in ToSet(inbox'[n.to]) <=> n \in ToSet(inbox[n.to]))
        BY <3>3, <4>1
      <4>3. CASE n = m
        <5>1. ~InHands(n)' /\ n \notin Stored'
          BY <2>4, <3>1, <3>2, <4>1, <4>3
        <5>2. n \in ToSet(inbox'[n.to])
          BY <3>3, <4>3
        <5> QED
          BY <5>1, <5>2
      <4>4. CASE n # m
        BY <1>1, <2>4, <2>8, <4>1, <4>2, <4>4
      <4> QED
        BY <4>3, <4>4
    <3> QED
      BY <1>1, <2>1, <3>4, <3>5 DEF PrivateHandled
  <2> QED
    BY <2>1, <2>9, <2>10
<1>13. ASSUME NEW u \in Users, QueueOfflineMessage(u) PROVE <1>2!1
  <2> DEFINE m == message[u]
  <2>1. /\ pc[u] = "store" /\ storageLock = Nobody /\ m \in Messages /\ m \in handled
        /\ ToSet(pendingMessages') = ToSet(pendingMessages) \cup {m}
        /\ m \notin ToSet(pendingMessages) => IsInjective(pendingMessages')
        /\ pc'[u] = "saveOffline" /\ \A v \in Users \ {u} : pc'[v] = pc[v]
        /\ UNCHANGED <<message, cursor, handled, inbox>>
    BY <1>0, <1>1, <1>13, Queued, Moved DEF Stages
  <2>2. m.from = u /\ m \in PrivateHandled
    BY <1>0, <2>1 DEF HandsInv, Handling, PrivateHandled
  <2>3. \A v \in Users : pc[v] \notin Delivering /\ pc'[v] \notin Delivering
    BY <1>0, <2>1 DEF LockInv, Scanning, Delivering
  <2>4. \A n \in Messages : InHands(n)  <=> message[n.from] = n /\ pc[n.from] \in {"send", "store"}
    BY <1>0, InHandsIs
  <2>5. \A n \in Messages : InHands(n)' <=> message'[n.from] = n /\ pc'[n.from] \in {"send", "store"}
    BY <1>0, InHandsIs
  <2>6. \A n \in Messages : n = m => InHands(n) /\ ~InHands(n)'
    BY <2>1, <2>2, <2>4, <2>5
  <2>7. \A n \in Messages : n # m => (InHands(n)' <=> InHands(n))
    BY <1>3, <2>1, <2>4, <2>5
  <2>8. \A n : n \in Stored <=> n \in ToSet(pendingMessages)
    BY <1>0, <1>1, <2>3, StoredIs
  <2> HIDE DEF m
  <2>9. m \notin ToSet(pendingMessages) /\ m \notin ToSet(inbox[m.to])
    BY <1>0, <1>1, <2>2, <2>6, <2>8
  <2>10. \A n : n \in Stored' <=> n \in Stored \/ n = m
    <3>1. \A n : n \in Stored' <=> n \in ToSet(pendingMessages')
      BY <1>0, <2>1, <2>3, <2>9, StoredIs
    <3> QED
      BY <2>1, <2>8, <3>1
  <2>11. \A n \in PrivateHandled :
           \/ InHands(n)' /\ n \notin Stored' /\ n \notin ToSet(inbox[n.to])
           \/ ~InHands(n)' /\ n \in Stored' /\ n \notin ToSet(inbox[n.to])
           \/ ~InHands(n)' /\ n \notin Stored' /\ n \in ToSet(inbox[n.to])
    <3>1. ASSUME NEW n \in PrivateHandled
          PROVE  \/ InHands(n)' /\ n \notin Stored' /\ n \notin ToSet(inbox[n.to])
                 \/ ~InHands(n)' /\ n \in Stored' /\ n \notin ToSet(inbox[n.to])
                 \/ ~InHands(n)' /\ n \notin Stored' /\ n \in ToSet(inbox[n.to])
      <4>1. n \in Messages
        BY <1>0
      <4>2. CASE n = m
        BY <2>6, <2>9, <2>10, <4>1, <4>2
      <4>3. CASE n # m
        BY <1>1, <2>7, <2>10, <4>1, <4>3
      <4> QED
        BY <4>2, <4>3
    <3> QED
      BY <3>1
  <2> QED
    BY <1>1, <2>1, <2>9, <2>11 DEF PrivateHandled
<1>14. CASE UNCHANGED vars
  <2>1. OnePlace'
    BY <1>0, <1>14 DEF OnePlace, PrivateHandled, InHands, Stored, vars
  <2> QED
    BY <2>1 DEF OnePlace, ToSet
<1> QED
  BY <1>7, <1>8, <1>9, <1>10, <1>11, <1>12, <1>13, <1>14 DEF Next, Step

-----------------------------------------------------------------------------
\* A message has one line, and no other.
HasOneLine(lines, m) ==
  \E i \in DOMAIN lines : lines[i].msg = m /\ \A j \in DOMAIN lines : lines[j].msg = m => j = i

\* Counting the lines of a message, without Cardinality.
LEMMA LineCount ==
  ASSUME NEW lines \in Seq(Lines), NEW m
  PROVE  LET n == Cardinality({i \in DOMAIN lines : lines[i].msg = m}) IN
         /\ n = 0 <=> \A i \in DOMAIN lines : lines[i].msg # m
         /\ n = 1 <=> HasOneLine(lines, m)
<1> DEFINE S == {i \in DOMAIN lines : lines[i].msg = m}
<1>1. Len(lines) \in Nat /\ DOMAIN lines = 1 .. Len(lines)
  BY LenProperties
<1>2. IsFiniteSet(S)
  <2>1. IsFiniteSet(1 .. Len(lines)) /\ S \subseteq 1 .. Len(lines)
    BY <1>1, FS_Interval
  <2> QED
    BY <2>1, FS_Subset
<1>3. Cardinality(S) = 0 <=> S = {}
  BY <1>2, FS_EmptySet
<1>4. Cardinality(S) = 1 <=> \E i : S = {i}
  BY <1>2, FS_Singleton
<1>5. S = {} <=> \A i \in DOMAIN lines : lines[i].msg # m
  OBVIOUS
<1>6. (\E i : S = {i}) <=> HasOneLine(lines, m)
  <2>1. \A i : S = {i} <=> i \in S /\ \A j \in S : j = i
    <3> HIDE DEF S
    <3> QED
      OBVIOUS
  <2>2. \A i : i \in S <=> i \in DOMAIN lines /\ lines[i].msg = m
    OBVIOUS
  <2> HIDE DEF S
  <2> QED
    BY <2>1, <2>2 DEF HasOneLine
<1> QED
  BY <1>3, <1>4, <1>5, <1>6

\* What one line for each message means, now and after a step.
LEMMA OneLineIs ==
  /\ TypeOK => (OneHistoryLine <=>
       \A m \in handled : IF \E u \in Users : message[u] = m
                          THEN \A i \in DOMAIN history : history[i].msg # m
                          ELSE HasOneLine(history, m))
  /\ TypeOK' => (OneHistoryLine' <=>
       \A m \in handled' : IF \E u \in Users : message'[u] = m
                           THEN \A i \in DOMAIN history' : history'[i].msg # m
                           ELSE HasOneLine(history', m))
<1>1. TypeOK => history \in Seq(Lines)
  BY DEF TypeOK, Lines
<1>2. TypeOK' => history' \in Seq(Lines)
  BY DEF TypeOK, Lines
<1>3. ASSUME TypeOK, NEW m
      PROVE  LET n == Cardinality({i \in DOMAIN history : history[i].msg = m}) IN
             /\ n = 0 <=> \A i \in DOMAIN history : history[i].msg # m
             /\ n = 1 <=> HasOneLine(history, m)
  BY <1>1, <1>3, LineCount
<1>4. ASSUME TypeOK', NEW m
      PROVE  LET n == Cardinality({i \in DOMAIN history' : history'[i].msg = m}) IN
             /\ n = 0 <=> \A i \in DOMAIN history' : history'[i].msg # m
             /\ n = 1 <=> HasOneLine(history', m)
  BY <1>2, <1>4, LineCount
<1>5. ASSUME TypeOK
      PROVE  OneHistoryLine <=>
               \A m \in handled : IF \E u \in Users : message[u] = m
                                  THEN \A i \in DOMAIN history : history[i].msg # m
                                  ELSE HasOneLine(history, m)
  BY <1>3, <1>5 DEF OneHistoryLine
<1>6. ASSUME TypeOK'
      PROVE  OneHistoryLine' <=>
               \A m \in handled' : IF \E u \in Users : message'[u] = m
                                   THEN \A i \in DOMAIN history' : history'[i].msg # m
                                   ELSE HasOneLine(history', m)
  BY <1>4, <1>6 DEF OneHistoryLine
<1> QED
  BY <1>5, <1>6

\* Each step keeps one line for each message whose handling has ended.
LEMMA NextOneHistoryLine ==
  ASSUME IInv, [Next]_vars
  PROVE  OneHistoryLine'
<1>0. /\ TypeOK /\ LockInv /\ HandsInv /\ OriginInv /\ OnePlace /\ TypeOK'
      /\ handled \subseteq Messages /\ NoMessage \notin Messages
  BY NextTypeOK, MessagesAssumption DEF IInv, TypeOK, NoMessage
<1>1. \A m \in handled : IF \E u \in Users : message[u] = m
                         THEN \A i \in DOMAIN history : history[i].msg # m
                         ELSE HasOneLine(history, m)
  BY <1>0, OneLineIs DEF IInv, HistoryIsTrue
<1>2. SUFFICES \A m \in handled' : IF \E u \in Users : message'[u] = m
                                   THEN \A i \in DOMAIN history' : history'[i].msg # m
                                   ELSE HasOneLine(history', m)
  BY <1>0, OneLineIs
<1>3. CASE /\ handled' = handled /\ message' = message /\ DOMAIN history' = DOMAIN history
           /\ \A i \in DOMAIN history : history'[i].msg = history[i].msg
  BY <1>1, <1>3 DEF HasOneLine
<1>4. ASSUME NEW u \in Users, RewriteHistory(u) PROVE <1>2!1
  <2> DEFINE id == pendingMessages[cursor[u]].id
  <2>1. history' = MarkDelivered(history, id) /\ UNCHANGED <<message, handled>>
    BY <1>0, <1>4, Rewritten
  <2> HIDE DEF id
  <2>2. DOMAIN history' = DOMAIN history /\ \A i \in DOMAIN history : history'[i].msg = history[i].msg
    <3>1. history \in Seq(Lines)
      BY <1>0 DEF TypeOK, Lines
    <3> QED
      BY <2>1, <3>1, MarkedLines
  <2> QED
    BY <1>3, <2>1, <2>2
<1>5. ASSUME NEW u \in Users, NEW m \in Messages, Receive(u, m) PROVE <1>2!1
  <2>1. /\ pc[u] = "online" /\ m \notin handled /\ handled' = handled \cup {m}
        /\ history' = history
        /\ message'[u] = m /\ \A v \in Users \ {u} : message'[v] = message[v]
    BY <1>0, <1>5 DEF Receive, TypeOK
  <2>2. message[u] = NoMessage
    BY <1>0, <2>1 DEF HandsInv, Handling
  <2>3. \A i \in DOMAIN history : history[i].msg # m
    BY <1>0, <2>1 DEF OriginInv
  <2>4. ASSUME NEW n \in handled
        PROVE  (\E v \in Users : message'[v] = n) <=> (\E v \in Users : message[v] = n)
    BY <1>0, <2>1, <2>2
  <2>5. \E v \in Users : message'[v] = m
    BY <2>1
  <2> QED
    BY <1>1, <2>1, <2>3, <2>4, <2>5
<1>6. ASSUME NEW u \in Users, SaveToHistory(u) PROVE <1>2!1
  <2> DEFINE m == message[u]
             n == Len(history)
  <2>1. /\ pc[u] \in {"saveOffline", "saveOnline"} /\ m \in Messages /\ m \in handled
        /\ n \in Nat /\ DOMAIN history = 1 .. n /\ DOMAIN history' = 1 .. n + 1
        /\ \A i \in 1 .. n : history'[i] = history[i]
        /\ history'[n + 1] = [msg |-> m, delivered |-> pc[u] = "saveOnline"]
        /\ message' = [message EXCEPT ![u] = NoMessage] /\ handled' = handled
    BY <1>0, <1>6, Saved
  <2>2. message'[u] = NoMessage /\ \A v \in Users \ {u} : message'[v] = message[v]
    BY <1>0, <2>1 DEF TypeOK
  <2>3. \A v \in Users \ {u} : message[v] # m
    BY <1>0, <2>1 DEF HandsInv, Handling
  <2>4. \A i \in 1 .. n : history[i].msg # m
    BY <1>1, <2>1
  <2> DEFINE online == pc[u] = "saveOnline"
  <2>5. history'[n + 1].msg = m /\ n + 1 \in DOMAIN history'
    BY <2>1
  <2> HIDE DEF m, n
  <2>6. HasOneLine(history', m) /\ ~\E v \in Users : message'[v] = m
    <3>1. \A i \in DOMAIN history' : history'[i].msg = m => i = n + 1
      BY <2>1, <2>4
    <3>2. \A v \in Users : message'[v] # m
      BY <1>0, <2>1, <2>2, <2>3
    <3> QED
      BY <2>5, <3>1, <3>2 DEF HasOneLine
  <2>7. ASSUME NEW k \in handled, k # m
        PROVE  IF \E v \in Users : message'[v] = k
               THEN \A i \in DOMAIN history' : history'[i].msg # k
               ELSE HasOneLine(history', k)
    <3>1. (\E v \in Users : message'[v] = k) <=> (\E v \in Users : message[v] = k)
      BY <1>0, <2>2, <2>7 DEF m
    <3>2. \A i \in DOMAIN history' : i \in DOMAIN history \/ i = n + 1
      BY <2>1
    <3>3. \A i \in DOMAIN history : i \in DOMAIN history' /\ history'[i].msg = history[i].msg
      BY <2>1
    <3>4. history'[n + 1].msg # k
      BY <2>5, <2>7
    <3>5. HasOneLine(history, k) => HasOneLine(history', k)
      BY <3>2, <3>3, <3>4 DEF HasOneLine
    <3> QED
      BY <1>1, <3>1, <3>2, <3>3, <3>4, <3>5
  <2> QED
    BY <2>1, <2>6, <2>7
<1>7. ASSUME NEW u \in Users, ScanMessage(u) PROVE <1>2!1
  BY <1>0, <1>3, <1>7, Scanned
<1>8. ASSUME NEW u \in Users, SendPrivateMessageOnline(u) \/ QueueOfflineMessage(u) PROVE <1>2!1
  BY <1>0, <1>3, <1>8, SentOnline, Queued
<1>9. ASSUME NEW u \in Users, Register(u) \/ Unregister(u) \/ BeginScan(u) \/ ReadHistory(u)
                                \/ EndScan(u)
      PROVE  <1>2!1
  BY <1>3, <1>9 DEF Register, Unregister, BeginScan, ReadHistory, EndScan
<1>10. CASE UNCHANGED vars
  BY <1>3, <1>10 DEF vars
<1> QED
  BY <1>4, <1>5, <1>6, <1>7, <1>8, <1>9, <1>10 DEF Next, Step

\* Each step keeps what a line that says "delivered" owes to a message that was sent.
LEMMA NextDeliveredWasSent ==
  ASSUME IInv, [Next]_vars
  PROVE  DeliveredWasSent'
<1>0. /\ TypeOK /\ LockInv /\ HandsInv /\ OriginInv /\ OnePlace
      /\ \A i \in DOMAIN history : history[i].delivered /\ history[i].msg.to \in Users =>
           \E u \in Users : \E n \in ToSet(inbox[u]) :
              n = history[i].msg \/ Confused(n, history[i].msg)
  BY DEF IInv, HistoryIsTrue, DeliveredWasSent
<1>1. SUFFICES \A i \in DOMAIN history' : history'[i].delivered /\ history'[i].msg.to \in Users =>
                 \E u \in Users : \E n \in ToSet(inbox'[u]) :
                    n = history'[i].msg \/ Confused(n, history'[i].msg)
  BY DEF DeliveredWasSent, Confused
<1>2. CASE history' = history /\ \A v \in Users : ToSet(inbox[v]) \subseteq ToSet(inbox'[v])
  BY <1>0, <1>2
<1>3. ASSUME NEW u \in Users, RewriteHistory(u) PROVE <1>1!1
  <2> DEFINE m == pendingMessages[cursor[u]]
  <2>1. pc[u] = "rewrite" /\ history' = MarkDelivered(history, m.id) /\ inbox' = inbox
    BY <1>0, <1>3, Rewritten
  <2>2. m \in ToSet(inbox[u])
    BY <1>0, <2>1 DEF LockInv, Delivering
  <2>3. /\ DOMAIN history' = DOMAIN history
        /\ \A i \in DOMAIN history : /\ history'[i].msg = history[i].msg
                                     /\ history'[i].delivered => history[i].delivered
                                             \/ NumeralPrefix(m.id, history[i].msg.id)
    BY <1>0, <2>1, MarkedLines DEF TypeOK, Lines
  <2> HIDE DEF m
  <2>4. \A i \in DOMAIN history : NumeralPrefix(m.id, history[i].msg.id) =>
           m = history[i].msg \/ Confused(m, history[i].msg)
    BY DEF Confused
  <2> QED
    BY <1>0, <2>1, <2>2, <2>3, <2>4
<1>4. ASSUME NEW u \in Users, SaveToHistory(u) PROVE <1>1!1
  <2> DEFINE m == message[u]
             n == Len(history)
  <2>1. /\ n \in Nat /\ DOMAIN history = 1 .. n /\ DOMAIN history' = 1 .. n + 1
        /\ \A i \in 1 .. n : history'[i] = history[i]
        /\ history'[n + 1] = [msg |-> m, delivered |-> pc[u] = "saveOnline"]
        /\ inbox' = inbox
    BY <1>0, <1>4, Saved
  <2>2. pc[u] = "saveOnline" /\ m.to \in Users => m \in ToSet(inbox[m.to])
    BY <1>0 DEF HandsInv
  <2> HIDE DEF m, n
  <2>3. history'[n + 1].msg = m /\ (history'[n + 1].delivered => pc[u] = "saveOnline")
    <3>1. CASE pc[u] = "saveOnline"
      BY <2>1, <3>1
    <3>2. CASE pc[u] # "saveOnline"
      <4>1. history'[n + 1] = [msg |-> m, delivered |-> FALSE]
        BY <2>1, <3>2
      <4> QED
        BY <4>1
    <3> QED
      BY <3>1, <3>2
  <2>4. \A i \in 1 .. n + 1 : i \in 1 .. n \/ i = n + 1
    BY <2>1
  <2> QED
    BY <1>0, <2>1, <2>2, <2>3, <2>4
<1>5. ASSUME NEW u \in Users, ScanMessage(u) PROVE <1>1!1
  <2> DEFINE m == pendingMessages[cursor[u]]
  <2>1. m \in Messages /\ history' = history /\ (Transmit(u, m) \/ inbox' = inbox)
    BY <1>0, <1>5, Scanned
  <2> HIDE DEF m
  <2>2. \A v \in Users : ToSet(inbox[v]) \subseteq ToSet(inbox'[v])
    BY <1>0, <2>1, Delivered
  <2> QED
    BY <1>2, <2>1, <2>2
<1>6. ASSUME NEW u \in Users, SendPrivateMessageOnline(u) PROVE <1>1!1
  <2> DEFINE m == message[u]
  <2>1. /\ m \in Messages /\ m.to \in Users /\ history' = history
        /\ Transmit(m.to, m) \/ inbox' = inbox
    BY <1>0, <1>6, SentOnline
  <2> HIDE DEF m
  <2>2. \A v \in Users : ToSet(inbox[v]) \subseteq ToSet(inbox'[v])
    BY <1>0, <2>1, Delivered
  <2> QED
    BY <1>2, <2>1, <2>2
<1>7. ASSUME NEW u \in Users, QueueOfflineMessage(u) PROVE <1>1!1
  BY <1>0, <1>2, <1>7, Queued
<1>8. ASSUME NEW u \in Users, \/ Register(u) \/ Unregister(u) \/ BeginScan(u) \/ ReadHistory(u)
                              \/ EndScan(u) \/ \E m \in Messages : Receive(u, m)
      PROVE  <1>1!1
  BY <1>2, <1>8 DEF Register, Unregister, BeginScan, ReadHistory, EndScan, Receive
<1>9. CASE UNCHANGED vars
  BY <1>2, <1>9 DEF vars
<1> QED
  BY <1>3, <1>4, <1>5, <1>6, <1>7, <1>8, <1>9 DEF Next, Step

-----------------------------------------------------------------------------
\* The invariant holds in every reachable state, whatever the workers' interleaving.
THEOREM Invariance == Spec => []IInv
<1>1. IInv /\ [Next]_vars => IInv'
  BY NextTypeOK, NextLockInv, NextHandsInv, NextOriginInv, NextOnePlace, NextOneHistoryLine,
     NextDeliveredWasSent DEF IInv, HistoryIsTrue
<1> QED
  BY InitInvariant, <1>1, PTL DEF Spec

\* The iterator of deliverPendingMessages stays in the vector or at its end, although it
\* erases from the vector it goes through, and everything else keeps its type.
THEOREM TypeCorrect == Spec => []TypeOK
<1>1. IInv => TypeOK
  BY DEF IInv
<1> QED
  BY Invariance, <1>1, PTL

\* No private message is lost or doubled between sendPrivateMessageOnline,
\* queueOfflineMessage and deliverPendingMessages.
THEOREM OnePlaceAlways == Spec => []OnePlace
<1>1. IInv => OnePlace
  BY DEF IInv
<1> QED
  BY Invariance, <1>1, PTL

\* Every message has one line in the history, and "delivered" is said of what was sent, or
\* of what updateDeliveryStatus took for it.
THEOREM HistoryIsTrueAlways == Spec => []HistoryIsTrue
<1>1. IInv => HistoryIsTrue
  BY DEF IInv
<1> QED
  BY Invariance, <1>1, PTL

-----------------------------------------------------------------------------
\* A step that makes the history say "undelivered" of what was sent appends the line, or
\* is an edit that had to go elsewhere.
LEMMA UndeliveredStep ==
  ASSUME IInv, [Next]_vars, NEW m \in PrivateHandled, ~SaidUndelivered(m), SaidUndelivered(m)'
  PROVE  \/ Len(history') > Len(history) /\ Last(history').msg = m
         \/ m.brace
         \/ \E i, j \in DOMAIN history :
               i < j /\ history[j].msg = m /\ Confused(m, history[i].msg)
<1>0. /\ TypeOK /\ LockInv /\ HandsInv /\ OriginInv /\ OnePlace
      /\ m \in handled /\ m \in Messages /\ m.to \in Users /\ history \in Seq(Lines)
      /\ handled \subseteq Messages
  BY DEF IInv, PrivateHandled, TypeOK, Lines
<1>1. IF \E u \in Users : message[u] = m
      THEN \A i \in DOMAIN history : history[i].msg # m
      ELSE HasOneLine(history, m)
  BY <1>0, OneLineIs DEF IInv, HistoryIsTrue
<1>2. /\ \E i \in DOMAIN history' : history'[i] = [msg |-> m, delivered |-> FALSE]
      /\ m \in ToSet(inbox'[m.to])
      /\ pc'[m.to] \in Delivering => pendingMessages'[cursor'[m.to]] # m
  BY DEF SaidUndelivered, Delivering
<1>3. \/ \A i \in DOMAIN history : history[i] # [msg |-> m, delivered |-> FALSE]
      \/ m \notin ToSet(inbox[m.to])
      \/ pc[m.to] \in Delivering /\ pendingMessages[cursor[m.to]] = m
  BY DEF SaidUndelivered, Delivering
<1>4. CASE /\ history' = history /\ inbox' = inbox
           /\ pc[m.to] \in Delivering => /\ pc'[m.to] \in Delivering
                                         /\ pendingMessages' = pendingMessages
                                         /\ cursor'[m.to] = cursor[m.to]
  BY <1>2, <1>3, <1>4
<1> USE DEF Stages
<1>5. ASSUME NEW u \in Users, Goto(u, "rewrite") \/ pc[u] \notin Delivering,
             NEW stage \in Stages, Goto(u, stage),
             UNCHANGED <<history, inbox>>,
             \A v \in Users : pc[v] \in Delivering => pendingMessages' = pendingMessages
                                                    /\ cursor'[v] = cursor[v]
      PROVE  FALSE
  <2>1. /\ \A v \in Users \ {u} : pc'[v] = pc[v]
        /\ pc[u] \in Delivering => pc'[u] = "rewrite"
    BY <1>0, <1>5, Moved
  <2> QED
    BY <1>0, <1>2, <1>3, <1>5, <2>1 DEF Delivering
<1>6. ASSUME NEW u \in Users, \/ Register(u) \/ Unregister(u) \/ BeginScan(u) \/ ReadHistory(u)
                              \/ \E n \in Messages : Receive(u, n)
      PROVE  FALSE
  <2>1. /\ Goto(u, "rewrite") \/ pc[u] \notin Delivering
        /\ \E stage \in Stages : Goto(u, stage)
        /\ UNCHANGED <<history, inbox, pendingMessages, cursor>>
    BY <1>6 DEF Register, Unregister, BeginScan, ReadHistory, Receive, Delivering
  <2> QED
    BY <1>5, <2>1
<1>7. ASSUME NEW u \in Users, EndScan(u) PROVE FALSE
  <2>1. /\ pc[u] = "scan" /\ Goto(u, "online") /\ cursor' = [cursor EXCEPT ![u] = 1]
        /\ UNCHANGED <<history, inbox, pendingMessages>>
    BY <1>7 DEF EndScan
  <2>2. \A v \in Users : pc[v] \in Delivering => cursor'[v] = cursor[v]
    BY <1>0, <2>1 DEF TypeOK, Delivering
  <2> QED
    BY <1>5, <2>1, <2>2 DEF Delivering
<1>8. ASSUME NEW u \in Users, QueueOfflineMessage(u) PROVE FALSE
  <2>1. /\ pc[u] = "store" /\ storageLock = Nobody /\ Goto(u, "saveOffline")
        /\ UNCHANGED <<history, inbox>>
    BY <1>0, <1>8, Queued
  <2>2. \A v \in Users : pc[v] \notin Delivering
    BY <1>0, <2>1, MessagesAssumption DEF LockInv, Scanning
  <2> QED
    BY <1>5, <2>1, <2>2
<1>9. ASSUME NEW u \in Users, ScanMessage(u) PROVE FALSE
  <2> DEFINE n == pendingMessages[cursor[u]]
  <2>1. /\ pc[u] = "scan" /\ n \in Messages /\ UNCHANGED <<pendingMessages, history>>
        /\ \/ n.to = u /\ Transmit(u, n) /\ Goto(u, "update") /\ cursor' = cursor
           \/ cursor' = [cursor EXCEPT ![u] = cursor[u] + 1] /\ UNCHANGED <<inbox, pc>>
    BY <1>0, <1>9, Scanned
  <2>2. \A v \in Users : pc[v] \notin Delivering
    BY <1>0, <2>1 DEF LockInv, Scanning, Delivering
  <2>3. CASE n.to = u /\ Transmit(u, n) /\ Goto(u, "update") /\ cursor' = cursor
    <3>1. pc'[u] \in Delivering
      BY <1>0, <2>3, Moved DEF Delivering
    <3>2. m # n
      BY <1>2, <2>1, <2>3, <3>1
    <3> HIDE DEF n
    <3>3. m \in ToSet(inbox[m.to])
      <4>1. /\ ToSet(inbox'[u]) = ToSet(inbox[u]) \cup {n}
            /\ \A v \in Users \ {u} : inbox'[v] = inbox[v]
        BY <1>0, <2>1, <2>3, Delivered
      <4>2. CASE m.to = u
        BY <1>2, <3>2, <4>1, <4>2
      <4>3. CASE m.to # u
        BY <1>0, <1>2, <4>1, <4>3
      <4> QED
        BY <4>2, <4>3
    <3> QED
      BY <1>0, <1>2, <1>3, <2>1, <2>2, <3>3
  <2>4. CASE UNCHANGED <<inbox, pc>>
    BY <1>0, <1>2, <1>3, <2>1, <2>2, <2>4
  <2> QED
    BY <2>1, <2>3, <2>4
<1>10. ASSUME NEW u \in Users, SendPrivateMessageOnline(u) PROVE FALSE
  <2> DEFINE n == message[u]
  <2>1. /\ pc[u] = "send" /\ n \in Messages /\ n.to \in Users
        /\ UNCHANGED <<pendingMessages, history, cursor>>
        /\ \/ Transmit(n.to, n) /\ Goto(u, "saveOnline")
           \/ Goto(u, "store") /\ inbox' = inbox
    BY <1>0, <1>10, SentOnline
  <2>2. CASE inbox' = inbox /\ Goto(u, "store")
    BY <1>5, <2>1, <2>2 DEF Delivering
  <2>3. CASE Transmit(n.to, n) /\ Goto(u, "saveOnline")
    <3>1. m # n
      BY <1>1, <1>2, <2>1
    <3> HIDE DEF n
    <3>2. m \in ToSet(inbox[m.to])
      <4>1. /\ ToSet(inbox'[n.to]) = ToSet(inbox[n.to]) \cup {n}
            /\ \A v \in Users \ {n.to} : inbox'[v] = inbox[v]
        BY <1>0, <2>1, <2>3, Delivered
      <4>2. CASE m.to = n.to
        BY <1>2, <3>1, <4>1, <4>2
      <4>3. CASE m.to # n.to
        BY <1>0, <1>2, <4>1, <4>3
      <4> QED
        BY <4>2, <4>3
    <3>3. pc'[u] = "saveOnline" /\ \A v \in Users \ {u} : pc'[v] = pc[v]
      BY <1>0, <2>3, Moved
    <3> QED
      BY <1>0, <1>2, <1>3, <2>1, <3>2, <3>3 DEF Delivering
  <2> QED
    BY <2>1, <2>2, <2>3
<1>11. ASSUME NEW u \in Users, SaveToHistory(u)
       PROVE  Len(history') > Len(history) /\ Last(history').msg = m
  <2> DEFINE n == Len(history)
  <2>1. /\ pc[u] \in {"saveOffline", "saveOnline"}
        /\ n \in Nat /\ DOMAIN history = 1 .. n /\ Len(history') = n + 1
        /\ DOMAIN history' = 1 .. n + 1
        /\ \A i \in 1 .. n : history'[i] = history[i]
        /\ Goto(u, "online") /\ UNCHANGED <<pendingMessages, cursor, inbox>>
    BY <1>0, <1>11, Saved
  <2>2. pc'[u] = "online" /\ \A v \in Users \ {u} : pc'[v] = pc[v]
    BY <1>0, <2>1, Moved
  <2>3. \A i \in 1 .. n : history'[i] # [msg |-> m, delivered |-> FALSE]
    BY <1>0, <1>2, <1>3, <2>1, <2>2 DEF Delivering
  <2>4. history'[n + 1].msg = m
    <3>1. \A i \in 1 .. n + 1 : i \in 1 .. n \/ i = n + 1
      BY <2>1
    <3>2. history'[n + 1] = [msg |-> m, delivered |-> FALSE]
      BY <1>2, <2>1, <2>3, <3>1
    <3> QED
      BY <3>2
  <2>5. Last(history') = history'[n + 1]
    BY <2>1 DEF Last
  <2> QED
    BY <2>1, <2>4, <2>5
<1>12. ASSUME NEW u \in Users, RewriteHistory(u)
       PROVE  \/ m.brace
              \/ \E i, j \in DOMAIN history :
                    i < j /\ history[j].msg = m /\ Confused(m, history[i].msg)
  <2> DEFINE n == pendingMessages[cursor[u]]
             id == n.id
  <2>1. /\ pc[u] = "rewrite" /\ history' = MarkDelivered(history, id) /\ cursor' = cursor
        /\ inbox' = inbox /\ Goto(u, "scan")
    BY <1>0, <1>12, Rewritten
  <2>2. n.to = u
    BY <1>0, <2>1 DEF LockInv, Delivering
  <2>3. \A v \in Users : pc[v] \in Delivering => v = u
    BY <1>0, <2>1 DEF LockInv, Scanning, Delivering
  <2> HIDE DEF id
  <2>4. /\ DOMAIN history' = DOMAIN history
        /\ \A i \in DOMAIN history :
              /\ history'[i].msg = history[i].msg
              /\ history[i].delivered => history'[i].delivered
              /\ ~history'[i].delivered /\ NumeralPrefix(id, history[i].msg.id) =>
                    \/ history[i].msg.brace
                    \/ \E j \in DOMAIN history : j < i /\ NumeralPrefix(id, history[j].msg.id)
    BY <1>0, <2>1, MarkedLines
  <2>5. PICK k \in DOMAIN history : history'[k] = [msg |-> m, delivered |-> FALSE]
    BY <1>2, <2>4
  <2>6. /\ history[k].msg = m /\ ~history[k].delivered /\ ~history'[k].delivered
    BY <2>4, <2>5
  <2>7. history[k] = [msg |-> m, delivered |-> FALSE]
    <3>1. history[k] \in Lines
      BY <1>0, LenProperties
    <3> QED
      BY <2>6, <3>1 DEF Lines
  <2>8. m = n
    <3>1. m \in ToSet(inbox[m.to])
      BY <1>2, <2>1
    <3>2. pc[m.to] \in Delivering /\ pendingMessages[cursor[m.to]] = m
      BY <1>3, <2>7, <3>1
    <3>3. m.to = u
      BY <1>0, <2>3, <3>2
    <3> QED
      BY <3>2, <3>3
  <2>9. m.id \in Nat /\ id = m.id
    BY <1>0, <2>8, MessagesAssumption DEF id
  <2>10. NumeralPrefix(id, history[k].msg.id)
    BY <2>6, <2>9, PrefixOfItself
  <2>11. CASE ~m.brace
    <3>1. PICK j \in DOMAIN history : j < k /\ NumeralPrefix(id, history[j].msg.id)
      BY <2>4, <2>6, <2>10, <2>11
    <3>2. history[j].msg # m
      <4>1. HasOneLine(history, m)
        BY <1>1, <2>6
      <4>2. j # k
        <5>1. DOMAIN history \subseteq Int
          BY <1>0, LenProperties
        <5> QED
          BY <3>1, <5>1
      <4> QED
        BY <2>6, <4>1, <4>2 DEF HasOneLine
    <3>3. Confused(m, history[j].msg)
      BY <2>9, <3>1, <3>2 DEF Confused
    <3> QED
      BY <2>6, <3>1, <3>3
  <2> QED
    BY <2>11
<1>13. CASE UNCHANGED vars
  BY <1>4, <1>13 DEF vars
<1> QED
  BY <1>6, <1>7, <1>8, <1>9, <1>10, <1>11, <1>12, <1>13 DEF Next, Step

\* The history comes to say "delivered":false of a message that was sent only for one of
\* the three reasons that updateDeliveryStatus and saveToHistory have.
THEOREM UndeliveredWhyAlways == Spec => UndeliveredWhy
<1>1. IInv /\ [Next]_vars
        => [\A m \in PrivateHandled : ~SaidUndelivered(m) /\ SaidUndelivered(m)' =>
              \/ Len(history') > Len(history) /\ Last(history').msg = m
              \/ m.brace
              \/ \E i, j \in DOMAIN history :
                    i < j /\ history[j].msg = m /\ Confused(m, history[i].msg)]_vars
  BY UndeliveredStep
<1> QED
  BY Invariance, <1>1, PTL DEF Spec, UndeliveredWhy

-----------------------------------------------------------------------------
\* The table holds the users that are served, and the scan leaves nothing behind it for the
\* user it is made for.
ScanInv ==
  /\ activeUsers = {u \in Users : pc[u] # "offline"}
  /\ \A u \in Users : pc[u] \in Scanning =>
        \A i \in 1 .. cursor[u] - 1 : pendingMessages[i].to # u

\* Each step keeps it.
LEMMA NextScanInv ==
  ASSUME IInv, ScanInv, [Next]_vars
  PROVE  ScanInv'
<1>0. /\ TypeOK /\ LockInv /\ HandsInv /\ pendingMessages \in Seq(Messages)
      /\ cursor \in [Users -> Int] /\ pc \in [Users -> Stages]
      /\ activeUsers = {u \in Users : pc[u] # "offline"}
  <2>1. TypeOK /\ LockInv /\ HandsInv /\ activeUsers = {u \in Users : pc[u] # "offline"}
    BY DEF IInv, ScanInv
  <2>2. pendingMessages \in Seq(Messages) /\ pc \in [Users -> Stages]
    BY <2>1 DEF TypeOK
  <2>3. cursor \in [Users -> Int]
    BY <2>1 DEF TypeOK
  <2> QED
    BY <2>1, <2>2, <2>3
<1>1. \A u \in Users : pc[u] \in Scanning =>
         \A i \in 1 .. cursor[u] - 1 : pendingMessages[i].to # u
  BY DEF ScanInv
<1> DEFINE Table == activeUsers' = {u \in Users : pc'[u] # "offline"}
           Left  == \A u \in Users : pc'[u] \in Scanning =>
                       \A i \in 1 .. cursor'[u] - 1 : pendingMessages'[i].to # u
<1> SUFFICES Table /\ Left
  BY DEF ScanInv
<1> USE DEF Stages
<1>2. ASSUME pc' = pc \/ \E u \in Users, stage \in Stages :
                pc[u] # "offline" /\ stage # "offline" /\ Goto(u, stage),
             activeUsers' = activeUsers
      PROVE  Table
  <2>1. \A v \in Users : pc'[v] # "offline" <=> pc[v] # "offline"
    BY <1>0, <1>2, Moved
  <2> QED
    BY <1>0, <1>2, <2>1
<1>3. ASSUME \A v \in Users : pc'[v] \in Scanning => pc[v] \in Scanning /\ cursor'[v] = cursor[v],
             pendingMessages' = pendingMessages
      PROVE  Left
  BY <1>1, <1>3
<1>4. ASSUME NEW u \in Users, NEW stage \in Stages, Goto(u, stage),
             stage \in Scanning => pc[u] \in Scanning,
             UNCHANGED <<pendingMessages, cursor>>
      PROVE  Left
  <2>1. pc'[u] = stage /\ \A v \in Users \ {u} : pc'[v] = pc[v]
    BY <1>0, <1>4, Moved
  <2> QED
    BY <1>3, <1>4, <2>1
<1>5. ASSUME NEW u \in Users, Register(u) PROVE Table /\ Left
  <2>1. activeUsers' = activeUsers \cup {u} /\ Goto(u, "login")
        /\ UNCHANGED <<pendingMessages, cursor>>
    BY <1>5 DEF Register
  <2>2. pc'[u] = "login" /\ \A v \in Users \ {u} : pc'[v] = pc[v]
    BY <1>0, <2>1, Moved
  <2>3. Table
    BY <1>0, <2>1, <2>2
  <2> QED
    BY <1>4, <2>1, <2>3 DEF Scanning, Delivering
<1>6. ASSUME NEW u \in Users, Unregister(u) PROVE Table /\ Left
  <2>1. activeUsers' = activeUsers \ {u} /\ Goto(u, "offline")
        /\ UNCHANGED <<pendingMessages, cursor>>
    BY <1>6 DEF Unregister
  <2>2. pc'[u] = "offline" /\ \A v \in Users \ {u} : pc'[v] = pc[v]
    BY <1>0, <2>1, Moved
  <2>3. Table
    BY <1>0, <2>1, <2>2
  <2> QED
    BY <1>4, <2>1, <2>3 DEF Scanning, Delivering
<1>7. ASSUME NEW u \in Users, BeginScan(u) PROVE Table /\ Left
  <2>1. /\ pc[u] = "login" /\ storageLock = Nobody /\ Goto(u, "scan")
        /\ UNCHANGED <<activeUsers, pendingMessages, cursor>>
    BY <1>7 DEF BeginScan
  <2>2. pc'[u] = "scan" /\ \A v \in Users \ {u} : pc'[v] = pc[v]
    BY <1>0, <2>1, Moved
  <2>3. cursor'[u] = 1
    BY <1>0, <2>1 DEF LockInv, Scanning, Delivering
  <2>4. Left
    BY <1>1, <2>1, <2>2, <2>3
  <2> QED
    BY <1>2, <2>1, <2>4
<1>8. ASSUME NEW u \in Users, ScanMessage(u) PROVE Table /\ Left
  <2> DEFINE c == cursor[u]
  <2>1. /\ pc[u] = "scan" /\ c \in 1 .. Len(pendingMessages)
        /\ UNCHANGED <<activeUsers, pendingMessages>>
        /\ \/ Goto(u, "update") /\ cursor' = cursor
           \/ pendingMessages[c].to # u /\ cursor' = [cursor EXCEPT ![u] = c + 1] /\ pc' = pc
    BY <1>0, <1>8, Scanned DEF ScanMessage
  <2>2. Table
    BY <1>2, <2>1
  <2>3. CASE Goto(u, "update") /\ cursor' = cursor
    BY <1>4, <2>1, <2>2, <2>3 DEF Scanning, Delivering
  <2>4. CASE pendingMessages[c].to # u /\ cursor' = [cursor EXCEPT ![u] = c + 1] /\ pc' = pc
    <3>1. cursor'[u] = c + 1 /\ \A v \in Users \ {u} : cursor'[v] = cursor[v]
      BY <1>0, <2>4
    <3>2. \A i \in 1 .. c - 1 : pendingMessages[i].to # u
      BY <1>1, <2>1 DEF Scanning
    <3>3. \A i \in 1 .. c + 1 - 1 : i \in 1 .. c - 1 \/ i = c
      BY <1>0, <2>1
    <3>4. \A i \in 1 .. cursor'[u] - 1 : pendingMessages'[i].to # u
      BY <2>1, <2>4, <3>1, <3>2, <3>3
    <3>5. Left
      BY <1>1, <2>1, <2>4, <3>1, <3>4
    <3> QED
      BY <2>2, <3>5
  <2> QED
    BY <2>1, <2>3, <2>4
<1>9. ASSUME NEW u \in Users, ReadHistory(u) PROVE Table /\ Left
  <2>1. /\ pc[u] = "update" /\ Goto(u, "rewrite")
        /\ UNCHANGED <<activeUsers, pendingMessages, cursor>>
    BY <1>9 DEF ReadHistory
  <2> QED
    BY <1>2, <1>4, <2>1 DEF Scanning, Delivering
<1>10. ASSUME NEW u \in Users, RewriteHistory(u) PROVE Table /\ Left
  <2> DEFINE c == cursor[u]
  <2>1. /\ pc[u] = "rewrite" /\ c \in 1 .. Len(pendingMessages)
        /\ pendingMessages' = RemoveAt(pendingMessages, c)
        /\ cursor' = cursor /\ Goto(u, "scan") /\ activeUsers' = activeUsers
    BY <1>0, <1>10, Rewritten
  <2>2. pc'[u] = "scan" /\ \A v \in Users \ {u} : pc'[v] = pc[v]
    BY <1>0, <2>1, Moved
  <2>3. \A v \in Users \ {u} : pc'[v] \notin Scanning
    BY <1>0, <2>1, <2>2 DEF LockInv, Scanning, Delivering
  <2>4. \A i \in 1 .. c - 1 : RemoveAt(pendingMessages, c)[i] = pendingMessages[i]
    <3>1. Len(pendingMessages) \in Nat
      BY <1>0, LenProperties
    <3>2. \A i \in 1 .. c - 1 : i \in 1 .. Len(pendingMessages) - 1 /\ i < c
      BY <2>1, <3>1
    <3> QED
      BY <1>0, <2>1, <3>2, RemoveAtProperties
  <2>5. \A i \in 1 .. c - 1 : pendingMessages[i].to # u
    BY <1>1, <2>1 DEF Scanning, Delivering
  <2>6. Left
    BY <2>1, <2>3, <2>4, <2>5
  <2> QED
    BY <1>2, <2>1, <2>6
<1>11. ASSUME NEW u \in Users, EndScan(u) PROVE Table /\ Left
  <2>1. /\ pc[u] = "scan" /\ Goto(u, "online") /\ cursor' = [cursor EXCEPT ![u] = 1]
        /\ UNCHANGED <<activeUsers, pendingMessages>>
    BY <1>11 DEF EndScan
  <2>2. pc'[u] = "online" /\ \A v \in Users \ {u} : pc'[v] = pc[v] /\ cursor'[v] = cursor[v]
    BY <1>0, <2>1, Moved
  <2>3. Left
    BY <1>3, <2>1, <2>2 DEF Scanning, Delivering
  <2> QED
    BY <1>2, <2>1, <2>3
<1>12. ASSUME NEW u \in Users, NEW m \in Messages, Receive(u, m) PROVE Table /\ Left
  <2>1. /\ pc[u] = "online" /\ (Goto(u, "saveOnline") \/ Goto(u, "send"))
        /\ UNCHANGED <<activeUsers, pendingMessages, cursor>>
    BY <1>12 DEF Receive
  <2> QED
    BY <1>2, <1>4, <2>1 DEF Scanning, Delivering
<1>13. ASSUME NEW u \in Users, SendPrivateMessageOnline(u) PROVE Table /\ Left
  <2>1. /\ pc[u] = "send" /\ (Goto(u, "saveOnline") \/ Goto(u, "store"))
        /\ UNCHANGED <<activeUsers, pendingMessages, cursor>>
    BY <1>13 DEF SendPrivateMessageOnline
  <2> QED
    BY <1>2, <1>4, <2>1 DEF Scanning, Delivering
<1>14. ASSUME NEW u \in Users, QueueOfflineMessage(u) PROVE Table /\ Left
  <2>1. /\ pc[u] = "store" /\ storageLock = Nobody /\ Goto(u, "saveOffline")
        /\ UNCHANGED <<activeUsers, cursor>>
    BY <1>0, <1>14, Queued
  <2>2. pc'[u] = "saveOffline" /\ \A v \in Users \ {u} : pc'[v] = pc[v]
    BY <1>0, <2>1, Moved
  <2>3. Left
    BY <1>0, <2>1, <2>2, MessagesAssumption DEF LockInv, Scanning, Delivering
  <2> QED
    BY <1>2, <2>1, <2>3
<1>15. ASSUME NEW u \in Users, SaveToHistory(u) PROVE Table /\ Left
  <2>1. /\ pc[u] # "offline" /\ Goto(u, "online")
        /\ UNCHANGED <<activeUsers, pendingMessages, cursor>>
    BY <1>15 DEF SaveToHistory
  <2> QED
    BY <1>2, <1>4, <2>1 DEF Scanning, Delivering
<1>16. CASE UNCHANGED vars
  BY <1>2, <1>3, <1>16 DEF vars
<1> QED
  BY <1>5, <1>6, <1>7, <1>8, <1>9, <1>10, <1>11, <1>12, <1>13, <1>14, <1>15, <1>16
  DEF Next, Step

-----------------------------------------------------------------------------
\* The mailbox takes an element out of a sequence as the vector does.
LEMMA SameRemoveAt ==
  ASSUME NEW q, NEW i
  PROVE  Box!RemoveAt(q, i) = RemoveAt(q, i)
BY DEF Box!RemoveAt, RemoveAt

\* While no worker is delivering, the whole vector waits; while one is, all but the message at
\* its iterator.
LEMMA WaitingIs ==
  /\ (\A v \in Users : ~IsErasing(v)) => Waiting = pendingMessages
  /\ \A u \in Users : IsErasing(u) /\ (\A v \in Users : IsErasing(v) => v = u) =>
        Waiting = RemoveAt(pendingMessages, cursor[u])
<1>1. ASSUME NEW u \in Users, IsErasing(u), \A v \in Users : IsErasing(v) => v = u
      PROVE  (CHOOSE v \in Users : IsErasing(v)) = u
  BY <1>1
<1> QED
  BY <1>1 DEF Waiting

\* The same after a step.
LEMMA WaitingWillBe ==
  /\ (\A v \in Users : ~IsErasing(v)') => Waiting' = pendingMessages'
  /\ \A u \in Users : IsErasing(u)' /\ (\A v \in Users : IsErasing(v)' => v = u) =>
        Waiting' = RemoveAt(pendingMessages', cursor'[u])
<1>1. ASSUME NEW u \in Users, IsErasing(u)', \A v \in Users : IsErasing(v)' => v = u
      PROVE  (CHOOSE v \in Users : IsErasing(v)') = u
  BY <1>1
<1> QED
  BY <1>1 DEF Waiting

\* A step that leaves the vector alone, and the workers that are erasing from it, does not
\* change what waits.
LEMMA WaitingStays ==
  ASSUME LockInv, pendingMessages' = pendingMessages,
         \A v \in Users : IsErasing(v)' <=> IsErasing(v),
         \A v \in Users : IsErasing(v) => cursor'[v] = cursor[v]
  PROVE  Waiting' = Waiting
<1>1. CASE \A v \in Users : ~IsErasing(v)
  BY <1>1, WaitingIs, WaitingWillBe
<1>2. ASSUME NEW u \in Users, IsErasing(u) PROVE Waiting' = Waiting
  <2>1. \A v \in Users : IsErasing(v) => v = u
    BY <1>2 DEF LockInv, IsErasing, Scanning, Delivering
  <2> QED
    BY <1>2, <2>1, WaitingIs, WaitingWillBe
<1> QED
  BY <1>1, <1>2

\* What the mailbox sees of the workers' hands stays, or a worker's hand changes.
LEMMA HandsAre ==
  ASSUME TypeOK, NEW u \in Users, NEW stage \in Stages, Goto(u, stage),
         \A v \in Users \ {u} : message'[v] = message[v]
  PROVE  Hands' = [Hands EXCEPT ![u] = IF stage \in {"send", "store"} THEN message'[u]
                                                                     ELSE NoMessage]
<1>1. pc'[u] = stage /\ \A v \in Users \ {u} : pc'[v] = pc[v]
  BY Moved
<1> QED
  BY <1>1 DEF Hands

\* Each step of the server is a step of the mailbox, or one that it does not see.
LEMMA MailboxStep ==
  ASSUME IInv, ScanInv, [Next]_vars
  PROVE  [Box!Next]_(Box!vars)
<1>0. /\ TypeOK /\ LockInv /\ HandsInv /\ pendingMessages \in Seq(Messages)
      /\ pc \in [Users -> Stages] /\ inbox \in [Users -> Seq(Messages)]
      /\ message \in [Users -> Messages \cup {NoMessage}] /\ cursor \in [Users -> Int]
      /\ activeUsers = {u \in Users : pc[u] # "offline"}
      /\ NoMessage.to \notin Users
  <2>1. TypeOK /\ LockInv /\ HandsInv /\ activeUsers = {u \in Users : pc[u] # "offline"}
    BY DEF IInv, ScanInv
  <2>2. /\ pendingMessages \in Seq(Messages) /\ pc \in [Users -> Stages]
        /\ inbox \in [Users -> Seq(Messages)]
        /\ message \in [Users -> Messages \cup {NoMessage}]
    BY <2>1 DEF TypeOK
  <2>3. cursor \in [Users -> Int]
    BY <2>1 DEF TypeOK
  <2>4. NoMessage.to \notin Users
    BY MessagesAssumption DEF NoMessage
  <2> QED
    BY <2>1, <2>2, <2>3, <2>4
<1> USE DEF Stages
<1>1. ASSUME NEW u \in Users, NEW stage \in Stages, Goto(u, stage),
             UNCHANGED <<pendingMessages, handled, inbox, activeUsers>>,
             pc[u] \notin {"send", "store"}, stage \notin {"send", "store"},
             IsErasing(u) <=> stage \in Delivering,
             \A v \in Users \ {u} : message'[v] = message[v],
             \A v \in Users : IsErasing(v) => cursor'[v] = cursor[v]
      PROVE  UNCHANGED Box!vars
  <2>1. pc'[u] = stage /\ \A v \in Users \ {u} : pc'[v] = pc[v]
    BY <1>0, <1>1, Moved
  <2>2. Hands' = Hands
    BY <1>1, <2>1 DEF Hands
  <2>3. \A v \in Users : IsErasing(v)' <=> IsErasing(v)
    BY <1>1, <2>1 DEF IsErasing, Delivering
  <2>4. Waiting' = Waiting
    BY <1>0, <1>1, <2>3, WaitingStays
  <2>5. PrivateHandled' = PrivateHandled
    BY <1>1 DEF PrivateHandled
  <2> QED
    BY <1>1, <2>2, <2>4, <2>5 DEF Box!vars
<1>2. ASSUME NEW u \in Users, NEW stage \in Stages, Goto(u, stage),
             UNCHANGED <<pendingMessages, cursor>>,
             pc[u] \notin Delivering, stage \notin Delivering
      PROVE  Waiting' = Waiting
  <2>1. pc'[u] = stage /\ \A v \in Users \ {u} : pc'[v] = pc[v]
    BY <1>0, <1>2, Moved
  <2>2. \A v \in Users : IsErasing(v)' <=> IsErasing(v)
    BY <1>2, <2>1 DEF IsErasing, Delivering
  <2> QED
    BY <1>0, <1>2, <2>2, WaitingStays
<1>3. ASSUME NEW u \in Users, NEW stage \in Stages, Goto(u, stage), message' = message,
             stage \in {"send", "store"} <=> pc[u] \in {"send", "store"}
      PROVE  Hands' = Hands
  <2>1. pc'[u] = stage /\ \A v \in Users \ {u} : pc'[v] = pc[v]
    BY <1>0, <1>3, Moved
  <2> QED
    BY <1>3, <2>1 DEF Hands
<1>4. \A u \in Users : Hands[u] = IF pc[u] \in {"send", "store"} THEN message[u] ELSE NoMessage
  BY DEF Hands
<1> DEFINE MailStep == Box!Next \/ UNCHANGED Box!vars
<1>5. ASSUME NEW u \in Users, Register(u) PROVE Box!Next
  <2>1. /\ pc[u] = "offline" /\ activeUsers' = activeUsers \cup {u} /\ Goto(u, "login")
        /\ UNCHANGED <<pendingMessages, message, cursor, handled, inbox>>
    BY <1>5 DEF Register
  <2>2. UNCHANGED <<PrivateHandled, Hands, Waiting>>
    BY <1>2, <1>3, <2>1 DEF PrivateHandled, Delivering
  <2>3. u \notin activeUsers
    BY <1>0, <2>1
  <2>4. Box!Arrive(u)
    BY <2>1, <2>2, <2>3 DEF Box!Arrive
  <2> QED
    BY <2>4 DEF Box!Next
<1>6. ASSUME NEW u \in Users, Unregister(u) PROVE Box!Next
  <2>1. /\ pc[u] = "online" /\ activeUsers' = activeUsers \ {u} /\ Goto(u, "offline")
        /\ UNCHANGED <<pendingMessages, message, cursor, handled, inbox>>
    BY <1>6 DEF Unregister
  <2>2. UNCHANGED <<PrivateHandled, Hands, Waiting>>
    BY <1>2, <1>3, <2>1 DEF PrivateHandled, Delivering
  <2>3. u \in activeUsers /\ Hands[u] = NoMessage
    BY <1>0, <1>4, <2>1
  <2>4. Box!Leave(u)
    BY <2>1, <2>2, <2>3 DEF Box!Leave
  <2> QED
    BY <2>4 DEF Box!Next
<1>7. ASSUME NEW u \in Users, BeginScan(u) PROVE UNCHANGED Box!vars
  <2>1. /\ pc[u] = "login" /\ Goto(u, "scan")
        /\ UNCHANGED <<activeUsers, pendingMessages, message, cursor, handled, inbox>>
    BY <1>7 DEF BeginScan
  <2> QED
    BY <1>1, <2>1 DEF IsErasing, Delivering
<1>8. ASSUME NEW u \in Users, ScanMessage(u) PROVE MailStep
  <2> DEFINE c == cursor[u]
             m == pendingMessages[c]
  <2>1. /\ pc[u] = "scan" /\ c \in 1 .. Len(pendingMessages) /\ m \in Messages
        /\ UNCHANGED <<activeUsers, pendingMessages, message, handled>>
        /\ \/ m.to = u /\ Transmit(u, m) /\ Goto(u, "update") /\ cursor' = cursor
           \/ cursor' = [cursor EXCEPT ![u] = c + 1] /\ UNCHANGED <<inbox, pc>>
    BY <1>0, <1>8, Scanned
  <2>2. \A v \in Users : ~IsErasing(v)
    BY <1>0, <2>1 DEF LockInv, Scanning, Delivering, IsErasing
  <2>3. CASE m.to = u /\ Transmit(u, m) /\ Goto(u, "update") /\ cursor' = cursor
    <3>1. pc'[u] = "update" /\ \A v \in Users \ {u} : pc'[v] = pc[v]
      BY <1>0, <2>3, Moved
    <3>2. IsErasing(u)' /\ \A v \in Users : IsErasing(v)' => v = u
      BY <2>2, <3>1 DEF IsErasing
    <3>3. Waiting = pendingMessages /\ Waiting' = RemoveAt(pendingMessages, c)
      BY <2>1, <2>2, <2>3, <3>2, WaitingIs, WaitingWillBe
    <3>4. UNCHANGED <<PrivateHandled, Hands>>
      BY <1>3, <2>1, <2>3 DEF PrivateHandled
    <3>5. u \in activeUsers /\ Hands[u] = NoMessage
      BY <1>0, <1>4, <2>1
    <3>6. Box!IsNextFor(u, c)
      BY <2>1, <2>3, <3>3 DEF Box!IsNextFor, ScanInv, Scanning
    <3>7. c \in DOMAIN Waiting
      BY <1>0, <2>1, <3>3, LenProperties
    <3>8. inbox' = [inbox EXCEPT ![u] = Append(inbox[u], Waiting[c])]
      BY <2>3, <3>3 DEF Transmit
    <3>9. Waiting' = Box!RemoveAt(Waiting, c)
      BY <3>3, SameRemoveAt
    <3>10. Box!Deliver(u)
      BY <2>1, <3>4, <3>5, <3>6, <3>7, <3>8, <3>9 DEF Box!Deliver
    <3> QED
      BY <3>10 DEF Box!Next
  <2>4. CASE cursor' = [cursor EXCEPT ![u] = c + 1] /\ UNCHANGED <<inbox, pc>>
    <3>1. \A v \in Users : IsErasing(v)' <=> IsErasing(v)
      BY <2>4 DEF IsErasing
    <3>2. Waiting' = Waiting
      BY <1>0, <2>1, <2>2, <3>1, WaitingStays
    <3>3. UNCHANGED <<PrivateHandled, Hands>>
      BY <2>1, <2>4 DEF PrivateHandled, Hands
    <3> QED
      BY <2>1, <2>4, <3>2, <3>3 DEF Box!vars
  <2> QED
    BY <2>1, <2>3, <2>4
<1>9. ASSUME NEW u \in Users, ReadHistory(u) PROVE UNCHANGED Box!vars
  <2>1. /\ pc[u] = "update" /\ Goto(u, "rewrite")
        /\ UNCHANGED <<activeUsers, pendingMessages, message, cursor, handled, inbox>>
    BY <1>9 DEF ReadHistory
  <2> QED
    BY <1>1, <2>1 DEF IsErasing, Delivering
<1>10. ASSUME NEW u \in Users, RewriteHistory(u) PROVE UNCHANGED Box!vars
  <2>1. /\ pc[u] = "rewrite"
        /\ pendingMessages' = RemoveAt(pendingMessages, cursor[u])
        /\ Goto(u, "scan") /\ UNCHANGED <<activeUsers, message, handled, inbox>>
    BY <1>0, <1>10, Rewritten
  <2>2. pc'[u] = "scan" /\ \A v \in Users \ {u} : pc'[v] = pc[v]
    BY <1>0, <2>1, Moved
  <2>3. IsErasing(u) /\ \A v \in Users : IsErasing(v) => v = u
    BY <1>0, <2>1 DEF LockInv, Scanning, Delivering, IsErasing
  <2>4. \A v \in Users : ~IsErasing(v)'
    BY <2>2, <2>3 DEF IsErasing
  <2>5. Waiting' = Waiting
    BY <2>1, <2>3, <2>4, WaitingIs, WaitingWillBe
  <2>6. UNCHANGED <<PrivateHandled, Hands>>
    BY <1>3, <2>1 DEF PrivateHandled
  <2> QED
    BY <2>1, <2>5, <2>6 DEF Box!vars
<1>11. ASSUME NEW u \in Users, EndScan(u) PROVE UNCHANGED Box!vars
  <2>1. /\ pc[u] = "scan" /\ Goto(u, "online") /\ cursor' = [cursor EXCEPT ![u] = 1]
        /\ UNCHANGED <<activeUsers, pendingMessages, message, handled, inbox>>
    BY <1>11 DEF EndScan
  <2>2. \A v \in Users : IsErasing(v) => cursor'[v] = cursor[v]
    BY <1>0, <2>1 DEF IsErasing
  <2> QED
    BY <1>1, <2>1, <2>2 DEF IsErasing, Delivering
<1>12. ASSUME NEW u \in Users, NEW m \in Messages, Receive(u, m) PROVE MailStep
  <2>1. /\ pc[u] = "online" /\ m.from = u /\ m \notin handled /\ handled' = handled \cup {m}
        /\ message' = [message EXCEPT ![u] = m]
        /\ Goto(u, IF m.to = Everyone THEN "saveOnline" ELSE "send")
        /\ UNCHANGED <<activeUsers, pendingMessages, cursor, inbox>>
    BY <1>12 DEF Receive
  <2>2. message'[u] = m /\ \A v \in Users \ {u} : message'[v] = message[v]
    BY <1>0, <2>1
  <2>3. Waiting' = Waiting
    BY <1>2, <2>1 DEF Delivering
  <2>4. CASE m.to = Everyone
    <3>1. m.to \notin Users
      BY <2>4, MessagesAssumption
    <3>2. PrivateHandled' = PrivateHandled
      BY <2>1, <3>1 DEF PrivateHandled
    <3>3. Goto(u, "saveOnline")
      BY <2>1, <2>4
    <3>4. pc'[u] = "saveOnline" /\ \A v \in Users \ {u} : pc'[v] = pc[v]
      BY <1>0, <3>3, Moved
    <3>5. Hands' = Hands
      BY <2>1, <2>2, <3>4 DEF Hands
    <3> QED
      BY <2>1, <2>3, <3>2, <3>5 DEF Box!vars
  <2>5. CASE m.to # Everyone
    <3>1. m.to \in Users
      BY <2>5, MessagesAssumption
    <3>2. PrivateHandled' = PrivateHandled \cup {m} /\ m \notin PrivateHandled
      BY <2>1, <3>1 DEF PrivateHandled
    <3>3. Goto(u, "send")
      BY <2>1, <2>5
    <3>4. Hands' = [Hands EXCEPT ![u] = m]
      <4>1. Hands' = [Hands EXCEPT ![u] = IF "send" \in {"send", "store"} THEN message'[u]
                                                                           ELSE NoMessage]
        BY <1>0, <2>2, <3>3, HandsAre
      <4> QED
        BY <2>2, <4>1
    <3>5. u \in activeUsers /\ Hands[u] = NoMessage
      BY <1>0, <1>4, <2>1
    <3>6. Box!Write(u, m)
      BY <2>1, <2>3, <3>2, <3>4, <3>5 DEF Box!Write
    <3>7. m \in Letters
      BY <3>1 DEF Letters
    <3> QED
      BY <3>6, <3>7 DEF Box!Next
  <2> QED
    BY <2>4, <2>5
<1>13. ASSUME NEW u \in Users, SendPrivateMessageOnline(u) PROVE MailStep
  <2> DEFINE m == message[u]
  <2>1. /\ pc[u] = "send" /\ m \in Messages /\ m.to \in Users
        /\ UNCHANGED <<activeUsers, pendingMessages, message, cursor, handled>>
        /\ \/ m.to \in activeUsers /\ Transmit(m.to, m) /\ Goto(u, "saveOnline")
           \/ Goto(u, "store") /\ inbox' = inbox
    BY <1>0, <1>13, SentOnline DEF SendPrivateMessageOnline
  <2>2. PrivateHandled' = PrivateHandled /\ Waiting' = Waiting
    BY <1>2, <2>1 DEF PrivateHandled, Delivering
  <2>3. CASE Goto(u, "store") /\ inbox' = inbox
    <3>1. Hands' = Hands
      BY <1>3, <2>1, <2>3
    <3> QED
      BY <2>1, <2>2, <2>3, <3>1 DEF Box!vars
  <2>4. CASE m.to \in activeUsers /\ Transmit(m.to, m) /\ Goto(u, "saveOnline")
    <3>1. Hands[u] = m
      BY <1>4, <2>1
    <3>2. Hands[u] # NoMessage /\ Hands[u].to \in activeUsers
      BY <1>0, <2>1, <2>4, <3>1
    <3>3. Hands' = [Hands EXCEPT ![u] = NoMessage]
      <4>1. Hands' = [Hands EXCEPT ![u] = IF "saveOnline" \in {"send", "store"} THEN message'[u]
                                                                                 ELSE NoMessage]
        BY <1>0, <2>1, <2>4, HandsAre
      <4> QED
        BY <4>1
    <3>4. inbox' = [inbox EXCEPT ![Hands[u].to] = Append(inbox[Hands[u].to], Hands[u])]
      BY <2>4, <3>1 DEF Transmit
    <3>5. Box!HandOver(u)
      BY <2>1, <2>2, <3>2, <3>3, <3>4 DEF Box!HandOver
    <3> QED
      BY <3>5 DEF Box!Next
  <2> QED
    BY <2>1, <2>3, <2>4
<1>14. ASSUME NEW u \in Users, QueueOfflineMessage(u) PROVE Box!Next
  <2> DEFINE m == message[u]
  <2>1. /\ pc[u] = "store" /\ storageLock = Nobody /\ m \in Messages
        /\ pendingMessages' = Append(pendingMessages, m) /\ Goto(u, "saveOffline")
        /\ UNCHANGED <<activeUsers, message, cursor, handled, inbox>>
    BY <1>0, <1>14, Queued
  <2>2. pc'[u] = "saveOffline" /\ \A v \in Users \ {u} : pc'[v] = pc[v]
    BY <1>0, <2>1, Moved
  <2>3. \A v \in Users : ~IsErasing(v) /\ ~IsErasing(v)'
    BY <1>0, <2>1, <2>2, MessagesAssumption DEF LockInv, Scanning, Delivering, IsErasing
  <2>4. Hands[u] = m
    BY <1>4, <2>1
  <2>5. Waiting' = Append(Waiting, Hands[u])
    BY <2>1, <2>3, <2>4, WaitingIs, WaitingWillBe
  <2>6. m # NoMessage
    BY <1>0, <2>1 DEF HandsInv
  <2>7. Hands' = [Hands EXCEPT ![u] = NoMessage]
    <3>1. Hands' = [Hands EXCEPT ![u] = IF "saveOffline" \in {"send", "store"} THEN message'[u]
                                                                                ELSE NoMessage]
      BY <1>0, <2>1, HandsAre
    <3> QED
      BY <3>1
  <2>8. PrivateHandled' = PrivateHandled
    BY <2>1 DEF PrivateHandled
  <2>9. Box!Keep(u)
    BY <2>1, <2>4, <2>5, <2>6, <2>7, <2>8 DEF Box!Keep
  <2> QED
    BY <2>9 DEF Box!Next
<1>15. ASSUME NEW u \in Users, SaveToHistory(u) PROVE UNCHANGED Box!vars
  <2>1. /\ pc[u] \in {"saveOffline", "saveOnline"} /\ Goto(u, "online")
        /\ message' = [message EXCEPT ![u] = NoMessage]
        /\ UNCHANGED <<activeUsers, pendingMessages, cursor, handled, inbox>>
    BY <1>15 DEF SaveToHistory
  <2>2. \A v \in Users \ {u} : message'[v] = message[v]
    BY <1>0, <2>1
  <2> QED
    BY <1>1, <2>1, <2>2 DEF IsErasing, Delivering
<1>16. CASE UNCHANGED vars
  <2>1. UNCHANGED <<activeUsers, PrivateHandled, Hands, inbox>>
    BY <1>16 DEF vars, PrivateHandled, Hands
  <2>2. Waiting' = Waiting
    BY <1>16 DEF vars, Waiting, IsErasing
  <2> QED
    BY <2>1, <2>2 DEF Box!vars
<1> QED
  BY <1>5, <1>6, <1>7, <1>8, <1>9, <1>10, <1>11, <1>12, <1>13, <1>14, <1>15, <1>16
  DEF Next, Step

\* For every set of users and messages: what is stored is delivered once and oldest first, and
\* only to its receiver while he is present, although deliverPendingMessages sends a message,
\* waits for the history file and only then erases it.
THEOREM MailboxRefinement == Spec => ImplementsMailbox
<1>1. Init => ScanInv
  BY DEF Init, ScanInv, Scanning, Delivering
<1>2. Init => Box!Init
  <2>1. ASSUME Init PROVE Box!Init
    <3>1. PrivateHandled = {} /\ Hands = [u \in Users |-> NoMessage]
      BY <2>1 DEF Init, PrivateHandled, Hands
    <3>2. Waiting = <<>>
      BY <2>1 DEF Init, Waiting, IsErasing
    <3> QED
      BY <2>1, <3>1, <3>2 DEF Init, Box!Init
  <2> QED
    BY <2>1
<1>3. IInv /\ ScanInv /\ [Next]_vars => ScanInv'
  BY NextScanInv
<1>4. IInv /\ ScanInv /\ [Next]_vars => [Box!Next]_(Box!vars)
  BY MailboxStep
<1> QED
  BY Invariance, <1>1, <1>2, <1>3, <1>4, PTL DEF Spec, ImplementsMailbox, Box!Spec
==============================================================================
