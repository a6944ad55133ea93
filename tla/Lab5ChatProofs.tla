---------------------------- MODULE Lab5ChatProofs ----------------------------
(***************************************************************************)
(* Proofs about Lab5Chat, for every set of users and messages, every set   *)
(* of ids and every number of ends of the server.  The inductive       *)
(* invariant adds to the checked properties how ids tell messages of one   *)
(* run apart, what the two locks protect, where the message in a worker's  *)
(* hands can already be, and that history.json and the text about to be    *)
(* written over it are never both in use.                                  *)
(***************************************************************************)
EXTENDS Lab5Chat, DataLemmas

\* The stages of a worker.
Stages == {"out", "handshake", "login", "scan", "update", "rewrite", "in", "send", "store",
           "save online", "save offline", "save public", "broadcast"}

\* Between sending a stored message and erasing it.
Delivering == {"update", "rewrite"}

\* Inside deliverPendingMessages.
Scanning == {"scan"} \cup Delivering

\* With no message in hand,
Idle == {"out", "handshake", "login", "scan", "in"}

\* and with one.
Handling == {"send", "store", "save online", "save offline", "save public", "broadcast"}

\* The messages that have an id.
Given == {m \in Messages : given[m] # NotGiven}

\* What arrived at each client.
Arrived == [u \in Users |-> {inbox[u][i].msg : i \in DOMAIN inbox[u]}]

\* The private messages that were sent.
SentOnes == {m \in Private : m \in missed \/ m \in Arrived[m.to]}

\* The messages in the storage.
Stored == {pendingMessages[i].msg : i \in DOMAIN pendingMessages}

\* Ids tell the messages of one run of the server apart, and a client's messages are
\* given theirs in the order of their numbers.
IdsInv ==
  /\ \A m \in Given : given[m].id >= 1 /\ given[m].run <= crashes
  /\ \A m \in Given : given[m].run = crashes => given[m].id < nextMessageId
  /\ \A m, n \in Given : given[m] = given[n] => m = n
  /\ \A m \in Given : \A n \in Messages : n.from = m.from /\ n.nr < m.nr => n \in Given

\* What the holder of a lock knows.
LockInv ==
  /\ \A u \in Users : pc[u] \in Scanning <=> storageLock = u
  /\ \A u \in Users : pc[u] = "rewrite" <=> historyLock = u
  /\ IF historyLock = Nobody THEN fileContent = <<>> ELSE history = <<>>
  /\ \A u \in Users : pc[u] \in Delivering =>
        /\ cursor[u] \in DOMAIN pendingMessages
        /\ pendingMessages[cursor[u]].msg \in SentOnes

\* What a worker has in its hands is the last message of its own user, of this run, and
\* has been only where the worker has put it.
HandsInv ==
  /\ \A u \in Users : pc[u] \notin Handling => message[u] = NoMessage
  /\ \A u \in Users : pc[u] \in Handling =>
        /\ message[u] \in Given /\ message[u].from = u
        /\ given[message[u]].run = crashes
        /\ \A n \in Given : n.from = u => n.nr <= message[u].nr
        /\ message[u].to = Everyone <=> pc[u] \in {"save public", "broadcast"}
        /\ message[u] \in written <=> pc[u] = "broadcast"
        /\ pc[u] \in {"send", "store"} => message[u] \notin Stored
        /\ pc[u] \in {"send", "store", "save public", "broadcast"} =>
              \A v \in Users : message[u] \notin Arrived[v]
        /\ pc[u] = "save online" => message[u] \in SentOnes
        /\ pc[u] = "save offline" => message[u] \in SentOnes \cup Stored

\* Only what was received is anywhere, and a stored message is stored once and in no
\* inbox, but for the one that is being delivered.
PlaceInv ==
  /\ Stored \subseteq Given \cap Private /\ confirmed \subseteq Given \cap Private
  /\ SentOnes \subseteq Given
  /\ \A u \in Users : Arrived[u] \subseteq Given
  /\ \A i \in DOMAIN pendingMessages : pendingMessages[i].id = given[pendingMessages[i].msg].id
  /\ \A m \in Stored : given[m].run = crashes
  /\ \A i, j \in DOMAIN pendingMessages : pendingMessages[i].msg = pendingMessages[j].msg => i = j
  /\ \A i \in DOMAIN pendingMessages : \A v \in Users : pendingMessages[i].msg \in Arrived[v] =>
        \E u \in Users : pc[u] \in Delivering /\ cursor[u] = i

\* What is in the file, or will be once the rewriting is finished.
Record == IF historyLock = Nobody THEN history ELSE fileContent

\* The messages whose line is found, in the same or a later run, by the search for the id
\* of another message, which was sent.
Found(m, n) ==
  NumeralPrefix(given[n].id, given[m].id) /\ given[n] # given[m] /\ given[n].run >= given[m].run

IdTaken == {m \in Given : \E n \in SentOnes : Found(m, n)}

\* The record has one line for each message written and not erased.
RecordInv ==
  /\ IsFiniteSet(written) /\ written \subseteq Given /\ erased \subseteq written
  /\ Len(Record) = Cardinality(written \ erased)
  /\ {Record[i].msg : i \in DOMAIN Record} = written \ erased
  /\ \A i \in DOMAIN Record : /\ Record[i].id = given[Record[i].msg].id
                              /\ Record[i].delivered /\ Record[i].msg \in Private =>
                                    Record[i].msg \in SentOnes \cup IdTaken

\* The invariant: the checked properties, and what they rest on.
IInv ==
  /\ TypeOK /\ IdsInv /\ LockInv /\ HandsInv /\ PlaceInv /\ RecordInv
  /\ StoredIsKept /\ MessagesOnceInOrder

-----------------------------------------------------------------------------
\* What a message is, and that nothing else can be taken for one.
LEMMA AboutMessages ==
  /\ NoMessage \notin Messages
  /\ \A m \in Messages : m.nr \in Nat /\ m.from \in Users /\ m.to \in Users \cup {Everyone}
  /\ \A m \in Private : m \in Messages /\ m.to \in Users
  /\ Everyone \notin Users /\ Nobody \notin Users /\ MaxCrashes \in Nat
BY ChatAssumption DEF NoMessage, Private

\* A worker goes on to another stage, the others stay where they are.
LEMMA Moved ==
  ASSUME TypeOK, NEW u \in Users, NEW stage \in Stages, Goto(u, stage)
  PROVE  /\ pc' \in [Users -> Stages] /\ pc'[u] = stage
         /\ \A v \in Users \ {u} : pc'[v] = pc[v]
BY DEF TypeOK, Goto, Stages

\* The sets the invariant speaks of follow the variables they are defined from.
LEMMA GivenSame == given' = given => Given' = Given
BY DEF Given

\* So do what arrived and was sent,
LEMMA InboxSame == inbox' = inbox /\ missed' = missed => Arrived' = Arrived /\ SentOnes' = SentOnes
BY DEF Arrived, SentOnes

\* what is stored,
LEMMA StoredSame == pendingMessages' = pendingMessages => Stored' = Stored
BY DEF Stored

\* and the record.
LEMMA RecordSame ==
  UNCHANGED <<history, historyLock, fileContent>> => Record' = Record
BY DEF Record

\* Private messages that were sent, in the words of the specification.
LEMMA SentIs ==
  /\ \A m \in Private : m \in SentOnes <=> Sent(m)
  /\ \A m \in Private : m \in SentOnes' <=> Sent(m)'
<1>1. \A m \in Private : m \in SentOnes <=> Sent(m)
  BY AboutMessages DEF SentOnes, Arrived, Sent
<1>2. \A m \in Private : m \in SentOnes' <=> Sent(m)'
  BY AboutMessages DEF SentOnes, Arrived, Sent
<1> QED
  BY <1>1, <1>2

\* What a message put on the connections to some users does to the inboxes.
LEMMA Transmitted ==
  ASSUME TypeOK, NEW m \in Messages, NEW receivers, NEW offline \in BOOLEAN,
         Transmit(m, receivers, offline)
  PROVE  /\ inbox' \in [Users -> Seq([msg : Messages, offline : BOOLEAN])]
         /\ missed' \subseteq Messages
         /\ \A v \in Users : Arrived[v] \subseteq Arrived'[v] /\ Arrived'[v] \subseteq Arrived[v] \cup {m}
         /\ \A v \in Users \ receivers : Arrived'[v] = Arrived[v]
         /\ SentOnes \subseteq SentOnes' /\ SentOnes' \subseteq SentOnes \cup {m}
         /\ m.to \in Users \cap receivers => m \in SentOnes'
<1> DEFINE e == [msg |-> m, offline |-> offline]
           Items == [msg : Messages, offline : BOOLEAN]
<1>1. inbox \in [Users -> Seq(Items)] /\ missed \subseteq Messages
  BY DEF TypeOK
<1>2. /\ inbox' = [v \in Users |-> IF v \in receivers \cap present THEN Append(inbox[v], e) ELSE inbox[v]]
      /\ missed' = IF receivers \subseteq present THEN missed ELSE missed \cup {m}
  BY DEF Transmit
<1>3. e \in Items /\ e.msg = m
  OBVIOUS
<1> HIDE DEF e
<1>4. ASSUME NEW v \in Users
      PROVE  /\ Append(inbox[v], e) \in Seq(Items)
             /\ {Append(inbox[v], e)[i].msg : i \in DOMAIN Append(inbox[v], e)} = Arrived[v] \cup {m}
  <2>1. inbox[v] \in Seq(Items) /\ Len(inbox[v]) \in Nat /\ DOMAIN inbox[v] = 1 .. Len(inbox[v])
    BY <1>1, LenProperties
  <2>2. /\ Append(inbox[v], e) \in Seq(Items) /\ Len(Append(inbox[v], e)) = Len(inbox[v]) + 1
        /\ \A i \in 1 .. Len(inbox[v]) : Append(inbox[v], e)[i] = inbox[v][i]
        /\ Append(inbox[v], e)[Len(inbox[v]) + 1] = e
    BY <1>3, <2>1, AppendProperties
  <2>3. DOMAIN Append(inbox[v], e) = 1 .. Len(inbox[v]) + 1
    BY <2>1, <2>2, LenProperties
  <2>4. Arrived[v] = {inbox[v][i].msg : i \in 1 .. Len(inbox[v])}
    BY <2>1 DEF Arrived
  <2> DEFINE r == Append(inbox[v], e)
  <2> HIDE DEF r
  <2>5. {r[i].msg : i \in 1 .. Len(inbox[v]) + 1} = {inbox[v][i].msg : i \in 1 .. Len(inbox[v])} \cup {m}
    <3>1. \A i \in 1 .. Len(inbox[v]) : i \in 1 .. Len(inbox[v]) + 1 /\ r[i].msg = inbox[v][i].msg
      BY <2>1, <2>2 DEF r
    <3>2. Len(inbox[v]) + 1 \in 1 .. Len(inbox[v]) + 1 /\ r[Len(inbox[v]) + 1].msg = m
      BY <1>3, <2>1, <2>2 DEF r
    <3>3. \A i \in 1 .. Len(inbox[v]) + 1 : i \in 1 .. Len(inbox[v]) \/ i = Len(inbox[v]) + 1
      BY <2>1
    <3> QED
      BY <3>1, <3>2, <3>3
  <2> QED
    BY <2>2, <2>3, <2>4, <2>5 DEF r
<1>5. \A v \in Users : Arrived'[v] = {inbox'[v][i].msg : i \in DOMAIN inbox'[v]}
  BY DEF Arrived
<1>6. \A v \in Users : inbox'[v] = IF v \in receivers \cap present THEN Append(inbox[v], e) ELSE inbox[v]
  BY <1>2
<1>7. ASSUME NEW v \in Users
      PROVE  Arrived'[v] = IF v \in receivers \cap present THEN Arrived[v] \cup {m} ELSE Arrived[v]
  <2>1. CASE v \in receivers \cap present
    <3>1. inbox'[v] = Append(inbox[v], e)
      BY <1>6, <2>1
    <3>2. Arrived'[v] = {Append(inbox[v], e)[i].msg : i \in DOMAIN Append(inbox[v], e)}
      BY <1>5, <3>1
    <3> QED
      BY <1>4, <2>1, <3>2
  <2>2. CASE v \notin receivers \cap present
    BY <1>5, <1>6, <2>2 DEF Arrived
  <2> QED
    BY <2>1, <2>2
<1>8. inbox' \in [Users -> Seq(Items)]
  BY <1>1, <1>2, <1>4
<1>9. missed \subseteq missed' /\ missed' \subseteq missed \cup {m} /\ missed' \subseteq Messages
      /\ (~(receivers \subseteq present) => m \in missed')
  BY <1>1, <1>2
<1>10. SentOnes \subseteq SentOnes' /\ SentOnes' \subseteq SentOnes \cup {m}
  BY <1>7, <1>9, AboutMessages DEF SentOnes
<1>11. m.to \in Users \cap receivers => m \in SentOnes'
  BY <1>7, <1>9, AboutMessages DEF SentOnes, Private
<1> QED
  BY <1>7, <1>8, <1>9, <1>10, <1>11


\* An inbox stays free of repetitions and of overtaking if what is appended is not there
\* yet and, unless it is marked, no message of its sender with a greater number is.
LEMMA TransmittedInOrder ==
  ASSUME TypeOK, MessagesOnceInOrder,
         NEW m \in Messages, NEW receivers, NEW offline \in BOOLEAN,
         Transmit(m, receivers, offline),
         \A v \in Users : m \notin Arrived[v],
         ~offline => \A v \in Users : \A n \in Arrived[v] : n.from = m.from => n.nr <= m.nr
  PROVE  MessagesOnceInOrder'
<1> DEFINE e == [msg |-> m, offline |-> offline]
           Items == [msg : Messages, offline : BOOLEAN]
           Fits(q) == \A i, j \in DOMAIN q :
                         /\ q[i].msg = q[j].msg => i = j
                         /\ (i < j /\ q[i].msg.from = q[j].msg.from /\ q[i].msg.nr > q[j].msg.nr)
                               => q[j].offline
<1>1. inbox \in [Users -> Seq(Items)]
  BY DEF TypeOK
<1>2. inbox' = [v \in Users |-> IF v \in receivers \cap present THEN Append(inbox[v], e) ELSE inbox[v]]
  BY DEF Transmit
<1>3. e \in Items /\ e.msg = m /\ e.offline = offline
  OBVIOUS
<1> HIDE DEF e
<1>4. \A u \in Users : Fits(inbox[u])
  BY DEF MessagesOnceInOrder, AtMostOnce, OrderKeptUnlessStored
<1>5. ASSUME NEW v \in Users
      PROVE  Fits(Append(inbox[v], e))
  <2> DEFINE q == inbox[v]
             r == Append(q, e)
             k == Len(q)
  <2>1. q \in Seq(Items) /\ k \in Nat /\ DOMAIN q = 1 .. k
    BY <1>1, LenProperties
  <2>2. /\ r \in Seq(Items) /\ Len(r) = k + 1
        /\ \A i \in 1 .. k : r[i] = q[i]
        /\ r[k + 1] = e
    BY <1>3, <2>1, AppendProperties
  <2>3. DOMAIN r = 1 .. k + 1
    BY <2>1, <2>2, LenProperties
  <2>4. \A i \in 1 .. k : q[i].msg \in Arrived[v] /\ q[i] \in Items
    <3>1. Arrived[v] = {q[i].msg : i \in 1 .. k}
      BY <2>1 DEF Arrived
    <3>2. \A i \in 1 .. k : q[i] \in Items
      BY <2>1, LenProperties
    <3> QED
      BY <3>1, <3>2
  <2>5. \A i \in 1 .. k : /\ q[i].msg # m
                          /\ ~offline /\ q[i].msg.from = m.from => ~(q[i].msg.nr > m.nr)
    <3> SUFFICES ASSUME NEW i \in 1 .. k
                 PROVE  q[i].msg # m /\ (~offline /\ q[i].msg.from = m.from => ~(q[i].msg.nr > m.nr))
      OBVIOUS
    <3>1. q[i].msg \in Arrived[v] /\ q[i].msg \in Messages
      BY <2>4
    <3>2. q[i].msg.nr \in Nat /\ m.nr \in Nat
      BY <3>1, AboutMessages
    <3>3. q[i].msg # m
      BY <3>1
    <3>4. ~offline /\ q[i].msg.from = m.from => q[i].msg.nr <= m.nr
      BY <3>1
    <3> QED
      BY <3>2, <3>3, <3>4
  <2>6. \A i \in 1 .. k + 1 : i \in 1 .. k \/ i = k + 1
    BY <2>1
  <2>7. \A i, j \in 1 .. k + 1 : i < j => i \in 1 .. k
    BY <2>1
  <2>8. Fits(q)
    BY <1>4
  <2> HIDE DEF q, r, k
  <2>9. \A i, j \in 1 .. k :
            /\ q[i].msg = q[j].msg => i = j
            /\ (i < j /\ q[i].msg.from = q[j].msg.from /\ q[i].msg.nr > q[j].msg.nr) => q[j].offline
    BY <2>1, <2>8
  <2>10. ASSUME NEW i \in 1 .. k + 1, NEW j \in 1 .. k + 1, r[i].msg = r[j].msg
         PROVE  i = j
    BY <1>3, <2>2, <2>5, <2>6, <2>9, <2>10
  <2>11. ASSUME NEW i \in 1 .. k + 1, NEW j \in 1 .. k + 1, i < j,
                r[i].msg.from = r[j].msg.from, r[i].msg.nr > r[j].msg.nr
         PROVE  r[j].offline
    <3>1. i \in 1 .. k /\ r[i] = q[i]
      BY <2>2, <2>7, <2>11
    <3>2. CASE j \in 1 .. k
      BY <2>2, <2>9, <2>11, <3>1, <3>2
    <3>3. CASE j = k + 1
      <4>1. r[j] = e
        BY <2>2, <3>3
      <4>2. q[i].msg.from = m.from /\ q[i].msg.nr > m.nr
        BY <1>3, <2>11, <3>1, <4>1
      <4> QED
        BY <1>3, <2>5, <3>1, <4>1, <4>2
    <3> QED
      BY <2>6, <3>2, <3>3
  <2>12. Fits(r)
    BY <2>3, <2>10, <2>11
  <2> QED
    BY <2>12 DEF r, q
<1> HIDE DEF Fits
<1>6. \A u \in Users : Fits(inbox'[u])
  BY <1>2, <1>4, <1>5
<1> QED
  BY <1>6 DEF Fits, MessagesOnceInOrder, AtMostOnce, OrderKeptUnlessStored

\* What erasing the message just delivered does to the storage.
LEMMA Erased ==
  ASSUME TypeOK, LockInv, NEW u \in Users, pc[u] \in Delivering,
         pendingMessages' = EraseSent(u)
  PROVE  /\ pendingMessages' \in Seq(Entries)
         /\ \A j \in DOMAIN pendingMessages' :
               LET i == IF j < cursor[u] THEN j ELSE j + 1 IN
               i \in DOMAIN pendingMessages /\ i # cursor[u] /\ pendingMessages'[j] = pendingMessages[i]
         /\ Stored' \subseteq Stored
         /\ Stored \subseteq Stored' \cup SentOnes
<1> DEFINE p == pendingMessages
           c == cursor[u]
           r == pendingMessages'
<1>1. p \in Seq(Entries) /\ Len(p) \in Nat /\ DOMAIN p = 1 .. Len(p)
  BY LenProperties DEF TypeOK
<1>2. c \in 1 .. Len(p) /\ p[c].msg \in SentOnes
  BY <1>1 DEF LockInv
<1>3. r = RemoveAt(p, c)
  BY DEF EraseSent
<1>4. /\ r \in Seq(Entries) /\ Len(r) = Len(p) - 1
      /\ \A j \in 1 .. Len(p) - 1 : r[j] = IF j < c THEN p[j] ELSE p[j + 1]
  BY <1>1, <1>2, <1>3, RemoveAtProperties
<1>5. DOMAIN r = 1 .. Len(p) - 1
  BY <1>4, LenProperties
<1>6. Stored = {p[i].msg : i \in DOMAIN p} /\ Stored' = {r[i].msg : i \in DOMAIN r}
  BY DEF Stored
<1> HIDE DEF p, c, r
<1>7. \A j \in DOMAIN r :
         LET i == IF j < c THEN j ELSE j + 1 IN i \in DOMAIN p /\ i # c /\ r[j] = p[i]
  BY <1>1, <1>2, <1>4, <1>5
<1>8. Stored' \subseteq Stored
  BY <1>6, <1>7
<1>9. ASSUME NEW i \in DOMAIN p, i # c
      PROVE  \E j \in DOMAIN r : r[j] = p[i]
  <2>1. CASE i < c
    BY <1>1, <1>2, <1>4, <1>5, <2>1
  <2>2. CASE i > c
    <3>1. i - 1 \in 1 .. Len(p) - 1 /\ ~(i - 1 < c) /\ (i - 1) + 1 = i
      BY <1>1, <1>2, <2>2
    <3> QED
      BY <1>4, <1>5, <3>1
  <2> QED
    BY <1>1, <1>2, <1>9, <2>1, <2>2
<1>10. \A m \in Stored : m \in Stored' \/ m = p[c].msg
  BY <1>6, <1>9
<1> QED
  BY <1>2, <1>4, <1>7, <1>8, <1>10 DEF p, c, r

\* What setting flags does to the lines of the history.
LEMMA MarkedLines ==
  ASSUME TypeOK, NEW marked
  PROVE  LET r == [i \in DOMAIN history |-> [history[i] EXCEPT !.delivered = @ \/ i \in marked]] IN
         /\ r \in Seq(Lines) /\ DOMAIN r = DOMAIN history /\ Len(r) = Len(history)
         /\ \A i \in DOMAIN history :
               /\ r[i].msg = history[i].msg /\ r[i].id = history[i].id
               /\ r[i].delivered => history[i].delivered \/ i \in marked
<1> DEFINE r == [i \in DOMAIN history |-> [history[i] EXCEPT !.delivered = @ \/ i \in marked]]
<1>1. history \in Seq(Lines) /\ Len(history) \in Nat /\ DOMAIN history = 1 .. Len(history)
      /\ \A i \in DOMAIN history : history[i] \in Lines
  <2>1. history \in Seq(Lines)
    BY DEF TypeOK
  <2> QED
    BY <2>1, LenProperties
<1>2. ASSUME NEW i \in DOMAIN history
      PROVE  /\ r[i] \in Lines /\ r[i].msg = history[i].msg /\ r[i].id = history[i].id
             /\ r[i].delivered => history[i].delivered \/ i \in marked
  <2>1. r[i] = [history[i] EXCEPT !.delivered = history[i].delivered \/ i \in marked]
    OBVIOUS
  <2>2. history[i] \in Lines /\ (history[i].delivered \/ i \in marked) \in BOOLEAN
    BY <1>1
  <2> HIDE DEF r
  <2>3. CASE history[i].delivered \/ i \in marked
    <3>1. r[i] = [history[i] EXCEPT !.delivered = TRUE]
      BY <2>1, <2>3
    <3> QED
      BY <2>2, <2>3, <3>1 DEF Lines
  <2>4. CASE ~(history[i].delivered \/ i \in marked)
    <3>1. r[i] = [history[i] EXCEPT !.delivered = FALSE]
      BY <2>1, <2>4
    <3> QED
      BY <2>2, <2>4, <3>1 DEF Lines
  <2> QED
    BY <2>3, <2>4
<1>3. DOMAIN r = 1 .. Len(history)
  BY <1>1
<1> HIDE DEF r
<1>4. r \in [1 .. Len(history) -> Lines]
  <2>1. r = [i \in 1 .. Len(history) |-> r[i]]
    BY <1>1 DEF r
  <2> QED
    BY <1>1, <1>2, <2>1
<1>5. r \in Seq(Lines) /\ Len(r) = Len(history)
  BY <1>1, <1>3, <1>4
<1> QED
  BY <1>1, <1>2, <1>3, <1>5 DEF r


-----------------------------------------------------------------------------
\* The first position of a sequence.
LEMMA OneIsPositive == 1 \in Nat \ {0}
OBVIOUS

\* Types are kept.
LEMMA NextTypeOK ==
  ASSUME IInv, [Next]_vars
  PROVE  TypeOK'
<1>1. TypeOK /\ IdsInv /\ LockInv /\ HandsInv
  BY DEF IInv
<1> USE <1>1
<1>2. ASSUME NEW u \in Users, NEW stage \in Stages, Goto(u, stage)
      PROVE  pc' \in [Users -> Stages]
  BY <1>2, Moved
<1>3. Stages = {"out", "handshake", "login", "scan", "update", "rewrite", "in", "send", "store",
                "save online", "save offline", "save public", "broadcast"}
  BY DEF Stages
<1>4. ASSUME NEW u \in Users, pc[u] \in Handling
      PROVE  message[u] \in Messages /\ given[message[u]].id \in Ids
  <2>1. message[u] \in Given
    BY <1>4 DEF HandsInv
  <2>2. message[u] \in Messages /\ given[message[u]].id >= 1
    BY <2>1 DEF Given, IdsInv
  <2>3. given[message[u]].id \in Ids \cup {0}
    BY <2>2 DEF TypeOK
  <2> QED
    BY <2>2, <2>3
<1>5. CASE UNCHANGED vars
  BY <1>5 DEF vars, server, past, TypeOK
<1>6. ASSUME NEW u \in Users, Connect(u)
      PROVE  TypeOK'
  BY <1>2, <1>3, <1>6 DEF Connect, past, TypeOK
<1>7. ASSUME NEW u \in Users, HandshakeFails(u)
      PROVE  TypeOK'
  BY <1>2, <1>3, <1>7 DEF HandshakeFails, past, TypeOK
<1>8. ASSUME NEW u \in Users, RegisterUser(u)
      PROVE  TypeOK'
  BY <1>2, <1>3, <1>8 DEF RegisterUser, past, TypeOK
<1>9. ASSUME NEW u \in Users, ClientGone(u)
      PROVE  TypeOK'
  BY <1>9 DEF ClientGone, server, past, TypeOK
<1>10. ASSUME NEW u \in Users, UnregisterUser(u)
       PROVE  TypeOK'
  BY <1>2, <1>3, <1>10 DEF UnregisterUser, past, TypeOK
<1>11. ASSUME NEW u \in Users, BeginScan(u)
       PROVE  TypeOK'
  BY <1>2, <1>3, <1>11 DEF BeginScan, past, TypeOK
<1>12. ASSUME NEW u \in Users, ScanMessage(u)
       PROVE  TypeOK'
  <2>1. CASE pendingMessages[cursor[u]].msg.to = u
    <3> DEFINE m == pendingMessages[cursor[u]].msg
    <3>1. pendingMessages \in Seq(Entries) /\ cursor[u] \in 1 .. Len(pendingMessages)
      <4>1. pendingMessages \in Seq(Entries) /\ cursor[u] \in Nat \ {0}
        BY DEF TypeOK
      <4>2. cursor[u] <= Len(pendingMessages)
        BY <1>12 DEF ScanMessage
      <4> QED
        BY <4>1, <4>2, LenProperties
    <3>2. m \in Messages
      <4>1. pendingMessages[cursor[u]] \in Entries
        BY <3>1, LenProperties
      <4> QED
        BY <4>1 DEF Entries
    <3>3. /\ Transmit(m, {u}, OfflineMark) /\ Goto(u, "update") /\ UNCHANGED cursor
          /\ UNCHANGED <<activeUsers, pendingMessages, nextMessageId, storageLock, historyLock,
                         message, fileContent, history, present, crashes, given, confirmed,
                         written, erased>>
      BY <1>12, <2>1 DEF ScanMessage
    <3> HIDE DEF m
    <3>4. OfflineMark \in BOOLEAN
      BY DEF OfflineMark
    <3>5. inbox' \in [Users -> Seq([msg : Messages, offline : BOOLEAN])] /\ missed' \subseteq Messages
      BY <3>2, <3>3, <3>4, Transmitted
    <3>6. pc' \in [Users -> Stages]
      BY <1>2, <1>3, <3>3
    <3> QED
      BY <1>3, <3>3, <3>5, <3>6 DEF TypeOK
  <2>2. CASE pendingMessages[cursor[u]].msg.to # u
    <3>1. /\ cursor' = [cursor EXCEPT ![u] = @ + 1]
          /\ UNCHANGED <<inbox, missed, pc>>
          /\ UNCHANGED <<activeUsers, pendingMessages, nextMessageId, storageLock, historyLock,
                         message, fileContent, history, present, crashes, given, confirmed,
                         written, erased>>
      BY <1>12, <2>2 DEF ScanMessage
    <3>2. cursor' \in [Users -> Nat \ {0}]
      <4>1. cursor \in [Users -> Nat \ {0}]
        BY DEF TypeOK
      <4>2. cursor[u] + 1 \in Nat \ {0}
        BY <4>1
      <4> QED
        BY <3>1, <4>1, <4>2
    <3> QED
      BY <3>1, <3>2 DEF TypeOK
  <2> QED
    BY <2>1, <2>2
<1>13. ASSUME NEW u \in Users, EndScan(u)
       PROVE  TypeOK'
  <2>1. cursor' \in [Users -> Nat \ {0}] /\ storageLock' = Nobody
    <3>1. cursor \in [Users -> Nat \ {0}]
      BY DEF TypeOK
    <3>2. cursor' = [cursor EXCEPT ![u] = 1] /\ storageLock' = Nobody
      BY <1>13 DEF EndScan
    <3> QED
      BY <3>1, <3>2, OneIsPositive, Zenon
  <2>2. pc' \in [Users -> Stages]
    BY <1>2, <1>3, <1>13 DEF EndScan
  <2>3. UNCHANGED <<activeUsers, pendingMessages, nextMessageId, historyLock, message,
                    fileContent, history, present, past>>
    BY <1>13 DEF EndScan
  <2> QED
    BY <1>3, <2>1, <2>2, <2>3 DEF past, TypeOK
<1>14. ASSUME NEW u \in Users, OpenForRewrite(u)
       PROVE  TypeOK'
  <2> DEFINE marked == ToMark(pendingMessages[cursor[u]].id)
  <2>1. pc[u] \in Delivering
    BY <1>14 DEF OpenForRewrite, Delivering
  <2>2. CASE marked = {}
    <3>1. /\ pendingMessages' = EraseSent(u) /\ Goto(u, "scan")
          /\ UNCHANGED <<historyLock, fileContent, history>>
          /\ UNCHANGED <<activeUsers, nextMessageId, storageLock, message, cursor, present, past>>
      BY <1>14, <2>2 DEF OpenForRewrite
    <3>2. pendingMessages' \in Seq(Entries)
      BY <2>1, <3>1, Erased
    <3>3. pc' \in [Users -> Stages]
      BY <1>2, <1>3, <3>1
    <3> QED
      BY <1>3, <3>1, <3>2, <3>3 DEF past, TypeOK
  <2>3. CASE marked # {}
    <3>1. /\ historyLock' = u /\ history' = <<>> /\ Goto(u, "rewrite") /\ UNCHANGED pendingMessages
          /\ fileContent' = [i \in DOMAIN history |->
                               [history[i] EXCEPT !.delivered = @ \/ i \in marked]]
          /\ UNCHANGED <<activeUsers, nextMessageId, storageLock, message, cursor, present, past>>
      BY <1>14, <2>3 DEF OpenForRewrite
    <3> HIDE DEF marked
    <3>2. fileContent' \in Seq(Lines)
      BY <3>1, MarkedLines
    <3>3. pc' \in [Users -> Stages]
      BY <1>2, <1>3, <3>1
    <3> QED
      <4>1. history' \in Seq(Lines) /\ historyLock' \in Users \cup {Nobody}
        BY <3>1, EmptySeq
      <4> QED
        BY <1>3, <3>1, <3>2, <3>3, <4>1 DEF past, TypeOK
  <2> QED
    BY <2>2, <2>3
<1>15. ASSUME NEW u \in Users, Rewrite(u)
       PROVE  TypeOK'
  <2>1. pc[u] \in Delivering /\ pendingMessages' = EraseSent(u) /\ Goto(u, "scan")
    BY <1>15 DEF Rewrite, Delivering
  <2>2. pendingMessages' \in Seq(Entries) /\ pc' \in [Users -> Stages]
    BY <1>2, <1>3, <2>1, Erased
  <2> QED
    <3>1. /\ history' = fileContent /\ fileContent' = <<>> /\ historyLock' = Nobody
          /\ UNCHANGED <<activeUsers, nextMessageId, storageLock, message, cursor, present, past>>
      BY <1>15 DEF Rewrite
    <3>2. fileContent' \in Seq(Lines)
      BY <3>1, EmptySeq
    <3> QED
      BY <1>3, <2>2, <3>1, <3>2 DEF past, TypeOK
<1>16. ASSUME NEW u \in Users, SendPrivateMessageOnline(u)
       PROVE  TypeOK'
  <2> DEFINE m == message[u]
  <2>1. m \in Messages
    BY <1>4, <1>16 DEF SendPrivateMessageOnline, Handling
  <2>2. CASE m.to \in activeUsers
    <3>1. /\ Transmit(m, {m.to}, FALSE) /\ Goto(u, "save online")
          /\ UNCHANGED <<activeUsers, pendingMessages, nextMessageId, storageLock, historyLock,
                         message, cursor, fileContent, history, present, crashes, given,
                         confirmed, written, erased>>
      BY <1>16, <2>2 DEF SendPrivateMessageOnline
    <3> HIDE DEF m
    <3>2. inbox' \in [Users -> Seq([msg : Messages, offline : BOOLEAN])] /\ missed' \subseteq Messages
      BY <2>1, <3>1, Transmitted
    <3>3. pc' \in [Users -> Stages]
      BY <1>2, <1>3, <3>1
    <3> QED
      BY <1>3, <3>1, <3>2, <3>3 DEF TypeOK
  <2>3. CASE m.to \notin activeUsers
    BY <1>2, <1>3, <1>16, <2>3 DEF SendPrivateMessageOnline, TypeOK
  <2> QED
    BY <2>2, <2>3
<1>17. ASSUME NEW u \in Users, QueueOfflineMessage(u)
       PROVE  TypeOK'
  <2> DEFINE e == [msg |-> message[u], id |-> given[message[u]].id]
  <2>1. e \in Entries
    BY <1>4, <1>17 DEF QueueOfflineMessage, Handling, Entries
  <2>2. pendingMessages' = Append(pendingMessages, e) /\ Goto(u, "save offline")
    BY <1>17 DEF QueueOfflineMessage
  <2> HIDE DEF e
  <2>3. pendingMessages' \in Seq(Entries) /\ pc' \in [Users -> Stages]
    BY <1>2, <1>3, <2>1, <2>2, AppendProperties DEF TypeOK
  <2> QED
    BY <1>3, <1>17, <2>3 DEF QueueOfflineMessage, past, TypeOK
<1>18. ASSUME NEW u \in Users, SaveToHistory(u)
       PROVE  TypeOK'
  <2> DEFINE e == [id |-> given[message[u]].id, msg |-> message[u], delivered |-> pc[u] # "save offline"]
  <2>1. message[u] \in Messages /\ given[message[u]].id \in Ids
    BY <1>4, <1>18 DEF SaveToHistory, Handling
  <2>2. e \in Lines
    BY <2>1 DEF Lines
  <2>3. history' = Append(history, e)
    BY <1>18 DEF SaveToHistory
  <2> HIDE DEF e
  <2>4. history' \in Seq(Lines)
    BY <2>2, <2>3, AppendProperties DEF TypeOK
  <2>5. /\ written' \subseteq Messages /\ confirmed' \subseteq Messages
        /\ message' \in [Users -> Messages \cup {NoMessage}]
    BY <1>18, <2>1 DEF SaveToHistory, TypeOK
  <2>6. pc' \in [Users -> Stages]
    BY <1>2, <1>3, <1>18 DEF SaveToHistory
  <2>7. UNCHANGED <<activeUsers, pendingMessages, nextMessageId, storageLock, historyLock, cursor,
                    fileContent, present, crashes, given, inbox, missed, erased>>
    BY <1>18 DEF SaveToHistory
  <2> QED
    BY <1>3, <2>4, <2>5, <2>6, <2>7 DEF TypeOK
<1>19. ASSUME NEW u \in Users, BroadcastPublicMessage(u)
       PROVE  TypeOK'
  <2> DEFINE m == message[u]
  <2>1. m \in Messages
    BY <1>4, <1>19 DEF BroadcastPublicMessage, Handling
  <2>2. /\ Transmit(m, activeUsers, FALSE) /\ Goto(u, "in")
        /\ message' = [message EXCEPT ![u] = NoMessage]
        /\ UNCHANGED <<activeUsers, pendingMessages, nextMessageId, storageLock, historyLock,
                       cursor, fileContent, history, present, crashes, given, confirmed,
                       written, erased>>
    BY <1>19 DEF BroadcastPublicMessage
  <2> HIDE DEF m
  <2>3. inbox' \in [Users -> Seq([msg : Messages, offline : BOOLEAN])] /\ missed' \subseteq Messages
    BY <2>1, <2>2, Transmitted
  <2>4. pc' \in [Users -> Stages]
    BY <1>2, <1>3, <2>2
  <2> QED
    BY <1>3, <2>2, <2>3, <2>4 DEF TypeOK
<1>20. ASSUME NEW u \in Users, NEW m \in Messages, Receive(u, m)
       PROVE  TypeOK'
  <2>1. PICK id \in Ids :
          nextMessageId' = NextId(id) /\ given' = [given EXCEPT ![m] = [id |-> id, run |-> crashes]]
    BY <1>20 DEF Receive
  <2>2. nextMessageId' \in {1} \cup {i + 1 : i \in Ids}
    BY <2>1 DEF NextId
  <2>3. given' \in [Messages -> [id : Ids \cup {0}, run : 0 .. MaxCrashes]]
    BY <2>1 DEF TypeOK
  <2>4. message' = [message EXCEPT ![u] = m]
    BY <1>20 DEF Receive
  <2>5. pc' \in [Users -> Stages]
    BY <1>2, <1>3, <1>20 DEF Receive
  <2>6. UNCHANGED <<activeUsers, pendingMessages, storageLock, historyLock, cursor, fileContent,
                    history, present, crashes, inbox, missed, confirmed, written, erased>>
    BY <1>20 DEF Receive
  <2> QED
    BY <1>3, <2>2, <2>3, <2>4, <2>5, <2>6 DEF TypeOK
<1>21. CASE Crash
  <2>1. \A i \in DOMAIN fileContent : fileContent[i].msg \in Messages
    <3>1. fileContent \in Seq(Lines)
      BY DEF TypeOK
    <3> QED
      <4>1. \A i \in DOMAIN fileContent : fileContent[i] \in Lines
        BY <3>1, LenProperties
      <4> QED
        BY <4>1 DEF Lines
  <2>2. erased' \subseteq Messages
    <3>1. erased' = erased \cup {fileContent[i].msg : i \in DOMAIN fileContent}
      BY <1>21 DEF Crash
    <3>2. erased \subseteq Messages
      BY DEF TypeOK
    <3> QED
      BY <2>1, <3>1, <3>2
  <2>3. <<>> \in Seq(Entries) /\ <<>> \in Seq(Lines)
    BY EmptySeq
  <2>4. crashes' \in 0 .. MaxCrashes
    <3>1. crashes \in 0 .. MaxCrashes /\ MaxCrashes \in Nat
      BY AboutMessages DEF TypeOK
    <3>2. crashes < MaxCrashes /\ crashes' = crashes + 1
      BY <1>21 DEF Crash
    <3> QED
      BY <3>1, <3>2
  <2>5. /\ pc' \in [Users -> Stages] /\ message' \in [Users -> Messages \cup {NoMessage}]
        /\ cursor' \in [Users -> Nat \ {0}]
        /\ activeUsers' = {} /\ pendingMessages' = <<>> /\ nextMessageId' = 1
    <3>1. /\ pc' = [u \in Users |-> "out"] /\ message' = [u \in Users |-> NoMessage]
          /\ cursor' = [u \in Users |-> 1]
          /\ activeUsers' = {} /\ pendingMessages' = <<>> /\ nextMessageId' = 1
      BY <1>21 DEF Crash, Started
    <3>2. "out" \in Stages
      BY <1>3
    <3> QED
      BY <3>1, <3>2, OneIsPositive, Zenon
  <2> QED
    BY <1>3, <1>21, <2>2, <2>3, <2>4, <2>5 DEF Crash, TypeOK
<1> QED
  BY <1>5, <1>6, <1>7, <1>8, <1>9, <1>10, <1>11, <1>12, <1>13, <1>14, <1>15, <1>16, <1>17,
     <1>18, <1>19, <1>20, <1>21 DEF Next, Step


-----------------------------------------------------------------------------
(* What the actions do to the sets the invariant speaks of.  A quiet step  *)
(* moves a worker between stages in which it has no message.               *)

\* A quiet step of the worker of u.
Quiet(u) ==
  /\ UNCHANGED <<pendingMessages, nextMessageId, message, past>>
  /\ \A v \in Users : \/ pc'[v] = pc[v]
                      \/ /\ v = u /\ pc[v] \notin Handling /\ pc'[v] \notin Handling
                         /\ pc[v] \in Delivering <=> pc'[v] \in Delivering
  /\ \A v \in Users : pc[v] \in Delivering => cursor'[v] = cursor[v]

\* The worker of u goes on to a stage.
GoesTo(u, stage) == pc'[u] = stage /\ \A v \in Users \ {u} : pc'[v] = pc[v]

\* ScanMessage, of a message for u.
Deliver(u) ==
  /\ pc[u] = "scan" /\ GoesTo(u, "update")
  /\ cursor[u] \in DOMAIN pendingMessages /\ pendingMessages[cursor[u]].msg.to = u
  /\ Transmit(pendingMessages[cursor[u]].msg, {u}, TRUE)
  /\ UNCHANGED <<pendingMessages, nextMessageId, message, cursor, crashes, given, confirmed,
                 written, erased>>

\* OpenForRewrite, when there is nothing to mark, and Rewrite.
Erase(u) ==
  /\ pc[u] \in Delivering /\ GoesTo(u, "scan")
  /\ pendingMessages' = EraseSent(u)
  /\ UNCHANGED <<nextMessageId, message, cursor, past>>

\* SendPrivateMessageOnline, to a user who is there and to one who is not.
SendOnline(u) ==
  /\ pc[u] = "send" /\ GoesTo(u, "save online")
  /\ Transmit(message[u], {message[u].to}, FALSE)
  /\ UNCHANGED <<pendingMessages, nextMessageId, message, cursor, crashes, given, confirmed,
                 written, erased>>

\* The receiver of the message is not online.
NotOnline(u) ==
  /\ pc[u] = "send" /\ GoesTo(u, "store")
  /\ UNCHANGED <<pendingMessages, nextMessageId, message, cursor, past>>

\* The cases that matter to all parts of the invariant but the one about the locks.
LEMMA NextIs ==
  ASSUME IInv, [Next]_vars
  PROVE  \/ Crash
         \/ \E u \in Users :
              \/ Quiet(u) \/ Deliver(u) \/ Erase(u) \/ SendOnline(u) \/ NotOnline(u)
              \/ QueueOfflineMessage(u) \/ SaveToHistory(u) \/ BroadcastPublicMessage(u)
              \/ \E m \in Messages : Receive(u, m)
         \/ UNCHANGED vars
<1>1. TypeOK
  BY DEF IInv
<1>2. ASSUME NEW u \in Users, NEW stage \in Stages, Goto(u, stage)
      PROVE  GoesTo(u, stage)
  BY <1>1, <1>2, Moved DEF GoesTo
<1>3. Stages = {"out", "handshake", "login", "scan", "update", "rewrite", "in", "send", "store",
                "save online", "save offline", "save public", "broadcast"}
  BY DEF Stages
<1>4. ASSUME NEW u \in Users,
             \/ Connect(u) \/ HandshakeFails(u) \/ RegisterUser(u) \/ UnregisterUser(u)
             \/ BeginScan(u)
      PROVE  Quiet(u)
  <2>1. \E stage \in {"out", "handshake", "login", "scan"} :
           Goto(u, stage) /\ pc[u] \in {"out", "handshake", "login", "in"}
    BY <1>4 DEF Connect, HandshakeFails, RegisterUser, UnregisterUser, BeginScan
  <2>2. PICK stage \in {"out", "handshake", "login", "scan"} :
           GoesTo(u, stage) /\ pc[u] \in {"out", "handshake", "login", "in"}
    BY <1>2, <1>3, <2>1
  <2>3. UNCHANGED <<pendingMessages, nextMessageId, message, past, cursor>>
    BY <1>4 DEF Connect, HandshakeFails, RegisterUser, UnregisterUser, BeginScan
  <2> QED
    BY <2>2, <2>3 DEF Quiet, GoesTo, Handling, Delivering
<1>5. ASSUME NEW u \in Users, EndScan(u)
      PROVE  Quiet(u)
  <2>1. GoesTo(u, "in") /\ pc[u] = "scan"
    BY <1>2, <1>3, <1>5 DEF EndScan
  <2>2. UNCHANGED <<pendingMessages, nextMessageId, message, past>>
        /\ \A v \in Users : v # u => cursor'[v] = cursor[v]
    BY <1>1, <1>5 DEF EndScan, TypeOK
  <2> QED
    BY <2>1, <2>2 DEF Quiet, GoesTo, Handling, Delivering
<1>6. ASSUME NEW u \in Users, ClientGone(u)
      PROVE  Quiet(u)
  BY <1>6 DEF ClientGone, Quiet, server
<1>7. ASSUME NEW u \in Users, ScanMessage(u)
      PROVE  Quiet(u) \/ Deliver(u)
  <2>1. CASE pendingMessages[cursor[u]].msg.to = u
    <3>1. cursor[u] \in DOMAIN pendingMessages
      <4>1. pendingMessages \in Seq(Entries) /\ cursor[u] \in Nat \ {0}
        BY <1>1 DEF TypeOK
      <4>2. cursor[u] <= Len(pendingMessages)
        BY <1>7 DEF ScanMessage
      <4> QED
        BY <4>1, <4>2, LenProperties
    <3>2. Goto(u, "update")
      BY <1>7, <2>1 DEF ScanMessage
    <3>3. GoesTo(u, "update")
      BY <1>2, <1>3, <3>2
    <3> QED
      BY <1>7, <2>1, <3>1, <3>3 DEF ScanMessage, Deliver, OfflineMark
  <2>2. CASE pendingMessages[cursor[u]].msg.to # u
    <3>1. /\ cursor' = [cursor EXCEPT ![u] = @ + 1] /\ pc[u] = "scan"
          /\ UNCHANGED <<inbox, missed, pc>>
          /\ UNCHANGED <<pendingMessages, nextMessageId, message, crashes, given, confirmed,
                         written, erased>>
      BY <1>7, <2>2 DEF ScanMessage
    <3>2. \A v \in Users : v # u => cursor'[v] = cursor[v]
      BY <1>1, <3>1 DEF TypeOK
    <3> QED
      BY <3>1, <3>2 DEF Quiet, past, Delivering
  <2> QED
    BY <2>1, <2>2
<1>8. ASSUME NEW u \in Users, OpenForRewrite(u)
      PROVE  Quiet(u) \/ Erase(u)
  <2> DEFINE marked == ToMark(pendingMessages[cursor[u]].id)
  <2>1. pc[u] = "update" /\ UNCHANGED <<nextMessageId, message, cursor, past>>
    BY <1>8 DEF OpenForRewrite
  <2>2. \/ pendingMessages' = EraseSent(u) /\ Goto(u, "scan")
        \/ pendingMessages' = pendingMessages /\ Goto(u, "rewrite")
    BY <1>8 DEF OpenForRewrite
  <2>3. CASE pendingMessages' = EraseSent(u) /\ Goto(u, "scan")
    <3>1. GoesTo(u, "scan")
      BY <1>2, <1>3, <2>3
    <3> QED
      BY <2>1, <2>3, <3>1 DEF Erase, Delivering
  <2>4. CASE pendingMessages' = pendingMessages /\ Goto(u, "rewrite")
    <3>1. GoesTo(u, "rewrite")
      BY <1>2, <1>3, <2>4
    <3> QED
      BY <2>1, <2>4, <3>1 DEF Quiet, GoesTo, Delivering, Handling
  <2> QED
    BY <2>2, <2>3, <2>4
<1>9. ASSUME NEW u \in Users, Rewrite(u)
      PROVE  Erase(u)
  <2>1. GoesTo(u, "scan")
    BY <1>2, <1>3, <1>9 DEF Rewrite
  <2> QED
    BY <1>9, <2>1 DEF Rewrite, Erase, Delivering
<1>10. ASSUME NEW u \in Users, SendPrivateMessageOnline(u)
       PROVE  SendOnline(u) \/ NotOnline(u)
  <2>1. CASE message[u].to \in activeUsers
    <3>1. Goto(u, "save online")
      BY <1>10, <2>1 DEF SendPrivateMessageOnline
    <3>2. GoesTo(u, "save online")
      BY <1>2, <1>3, <3>1
    <3> QED
      BY <1>10, <2>1, <3>2 DEF SendPrivateMessageOnline, SendOnline
  <2>2. CASE message[u].to \notin activeUsers
    <3>1. Goto(u, "store")
      BY <1>10, <2>2 DEF SendPrivateMessageOnline
    <3>2. GoesTo(u, "store")
      BY <1>2, <1>3, <3>1
    <3> QED
      BY <1>10, <2>2, <3>2 DEF SendPrivateMessageOnline, NotOnline, past
  <2> QED
    BY <2>1, <2>2
<1> QED
  BY <1>4, <1>5, <1>6, <1>7, <1>8, <1>9, <1>10 DEF Next, Step


\* QueueOfflineMessage adds one message at the end of the storage.
LEMMA Queued ==
  ASSUME TypeOK, TypeOK', NEW u \in Users, QueueOfflineMessage(u)
  PROVE  /\ Stored' = Stored \cup {message[u]}
         /\ DOMAIN pendingMessages' = DOMAIN pendingMessages \cup {Len(pendingMessages) + 1}
         /\ Len(pendingMessages) + 1 \notin DOMAIN pendingMessages
         /\ \A i \in DOMAIN pendingMessages : pendingMessages'[i] = pendingMessages[i]
         /\ pendingMessages'[Len(pendingMessages) + 1].msg = message[u]
         /\ pendingMessages'[Len(pendingMessages) + 1].id = given[message[u]].id
<1> DEFINE e == [msg |-> message[u], id |-> given[message[u]].id]
           p == pendingMessages
           r == pendingMessages'
           k == Len(pendingMessages)
<1>1. p \in Seq(Entries) /\ k \in Nat /\ DOMAIN p = 1 .. k
  <2>1. p \in Seq(Entries)
    BY DEF TypeOK
  <2> QED
    BY <2>1, LenProperties
<1>2. r = Append(p, e)
  BY DEF QueueOfflineMessage
<1>3. r \in Seq(Entries)
  BY DEF TypeOK
<1>4. e.msg = message[u] /\ e.id = given[message[u]].id
  OBVIOUS
<1> HIDE DEF e
<1>5. DOMAIN r = 1 .. k + 1 /\ r[k + 1] = e /\ \A i \in 1 .. k : r[i] = p[i]
  <2>1. p \in [1 .. k -> Entries]
    BY <1>1
  <2> QED
    BY <1>1, <1>2, <2>1
<1>6. Stored = {p[i].msg : i \in DOMAIN p} /\ Stored' = {r[i].msg : i \in DOMAIN r}
  BY DEF Stored
<1> HIDE DEF p, r, k
<1>7. 1 .. k + 1 = (1 .. k) \cup {k + 1} /\ k + 1 \notin 1 .. k
  BY <1>1
<1>8. Stored' = Stored \cup {message[u]}
  BY <1>1, <1>4, <1>5, <1>6, <1>7
<1> QED
  BY <1>1, <1>4, <1>5, <1>7, <1>8 DEF p, r, k

\* SaveToHistory adds one message to those written.
LEMMA Saved ==
  ASSUME TypeOK, NEW u \in Users, SaveToHistory(u)
  PROVE  /\ pc[u] \in {"save online", "save offline", "save public"}
         /\ GoesTo(u, IF pc[u] = "save public" THEN "broadcast" ELSE "in")
         /\ written' = written \cup {message[u]}
         /\ confirmed' = IF pc[u] = "save offline" THEN confirmed \cup {message[u]} ELSE confirmed
         /\ message'[u] = IF pc[u] = "save public" THEN message[u] ELSE NoMessage
         /\ \A v \in Users \ {u} : message'[v] = message[v]
         /\ UNCHANGED <<pendingMessages, nextMessageId, cursor, crashes, given, inbox, missed, erased>>
<1>1. pc[u] \in {"save online", "save offline", "save public"}
  BY DEF SaveToHistory
<1>2. Goto(u, IF pc[u] = "save public" THEN "broadcast" ELSE "in")
  BY DEF SaveToHistory
<1>3. GoesTo(u, IF pc[u] = "save public" THEN "broadcast" ELSE "in")
  BY <1>2, Moved DEF GoesTo, Stages
<1> QED
  BY <1>1, <1>3 DEF SaveToHistory, TypeOK

\* A message that is received was not given an id before, and now is the last of its user.
LEMMA Received ==
  ASSUME TypeOK, IdsInv, NEW u \in Users, NEW m \in Messages, Receive(u, m)
  PROVE  /\ pc[u] = "in" /\ GoesTo(u, IF m.to = Everyone THEN "save public" ELSE "send")
         /\ m \notin Given /\ Given' = Given \cup {m} /\ m.from = u
         /\ \A n \in Messages \ {m} : given'[n] = given[n]
         /\ given'[m].id \in Ids /\ given'[m].id >= nextMessageId /\ given'[m].run = crashes
         /\ nextMessageId' = given'[m].id + 1
         /\ \A n \in Given : n.from = u => n.nr <= m.nr
         /\ \A n \in Messages : n.from = u /\ n.nr < m.nr => n \in Given
         /\ message'[u] = m /\ \A v \in Users \ {u} : message'[v] = message[v]
         /\ UNCHANGED <<pendingMessages, cursor, crashes, inbox, missed, confirmed, written, erased>>
<1>1. PICK id \in Ids :
         /\ id >= nextMessageId /\ nextMessageId' = id + 1
         /\ given' = [given EXCEPT ![m] = [id |-> id, run |-> crashes]]
  BY DEF Receive, NextId
<1>2. Goto(u, IF m.to = Everyone THEN "save public" ELSE "send")
  BY DEF Receive
<1>3. GoesTo(u, IF m.to = Everyone THEN "save public" ELSE "send")
  BY <1>2, Moved DEF GoesTo, Stages
<1>4. m \notin Given /\ m.from = u
  BY DEF Receive, Given
<1>5. given \in [Messages -> [id : Ids \cup {0}, run : 0 .. MaxCrashes]]
  BY DEF TypeOK
<1>6. given'[m] = [id |-> id, run |-> crashes] /\ \A n \in Messages \ {m} : given'[n] = given[n]
  BY <1>1, <1>5
<1>7. id # 0
  BY ChatAssumption
<1>8. given'[m] # NotGiven
  BY <1>6, <1>7 DEF NotGiven
<1>9. Given' = Given \cup {m}
  BY <1>6, <1>8 DEF Given
<1>10. \A n \in Given : n.from = u => n.nr <= m.nr
  <2> SUFFICES ASSUME NEW n \in Given, n.from = u, ~(n.nr <= m.nr)
               PROVE  FALSE
    OBVIOUS
  <2>1. n \in Messages
    BY DEF Given
  <2>2. n.nr \in Nat /\ m.nr \in Nat
    BY <2>1, AboutMessages
  <2>3. m.nr < n.nr
    BY <2>2
  <2> QED
    BY <1>4, <2>3 DEF IdsInv
<1>11. \A n \in Messages : n.from = u /\ n.nr < m.nr => n \in Given
  BY DEF Receive, Given
<1>12. message'[u] = m /\ \A v \in Users \ {u} : message'[v] = message[v]
  BY DEF Receive, TypeOK
<1>13. pc[u] = "in" /\ UNCHANGED <<pendingMessages, cursor, crashes, inbox, missed, confirmed,
                                   written, erased>>
  BY DEF Receive
<1>14. given'[m].id = id /\ given'[m].run = crashes
  BY <1>6
<1> QED
  BY <1>1, <1>3, <1>4, <1>6, <1>9, <1>10, <1>11, <1>12, <1>13, <1>14

-----------------------------------------------------------------------------
\* What is counted.
LEMMA Numbers ==
  ASSUME TypeOK
  PROVE  /\ crashes \in Nat /\ nextMessageId \in Nat \ {0}
         /\ \A m \in Messages : given[m].id \in Nat /\ given[m].run \in Nat
<1>1. /\ crashes \in 0 .. MaxCrashes /\ nextMessageId \in {1} \cup {id + 1 : id \in Ids}
      /\ given \in [Messages -> [id : Ids \cup {0}, run : 0 .. MaxCrashes]]
  BY DEF TypeOK
<1>2. MaxCrashes \in Nat /\ \A id \in Ids : id \in Nat /\ id + 1 \in Nat \ {0}
  BY ChatAssumption
<1>3. \A m \in Messages : given[m].id \in Ids \cup {0} /\ given[m].run \in 0 .. MaxCrashes
  BY <1>1
<1>4. nextMessageId \in Nat \ {0}
  BY <1>1, <1>2
<1> QED
  BY <1>1, <1>2, <1>3, <1>4

\* Ids keep telling the messages of one run apart: a new one is greater than those given
\* before, and those of earlier runs have another run.
LEMMA NextIdsInv ==
  ASSUME IInv, [Next]_vars
  PROVE  IdsInv'
<1>1. TypeOK /\ IdsInv
  BY DEF IInv
<1>2. CASE UNCHANGED <<given, crashes, nextMessageId>>
  <2>1. Given' = Given
    BY <1>2, GivenSame
  <2> QED
    BY <1>1, <1>2, <2>1 DEF IdsInv
<1>3. CASE Crash
  <2>1. given' = given /\ crashes' = crashes + 1 /\ nextMessageId' = 1
    BY <1>3 DEF Crash, Started
  <2>2. Given' = Given
    BY <2>1, GivenSame
  <2>3. crashes \in Nat /\ \A m \in Given : given[m].run \in Nat /\ m \in Messages
    BY <1>1, Numbers DEF Given
  <2>4. \A m \in Given : given[m].run <= crashes + 1 /\ given[m].run # crashes + 1
    BY <1>1, <2>3 DEF IdsInv
  <2> QED
    BY <1>1, <2>1, <2>2, <2>4 DEF IdsInv
<1>4. ASSUME NEW u \in Users, NEW m \in Messages, Receive(u, m)
      PROVE  IdsInv'
  <2>1. /\ m \notin Given /\ Given' = Given \cup {m} /\ m.from = u
        /\ \A n \in Messages \ {m} : given'[n] = given[n]
        /\ given'[m].id \in Ids /\ given'[m].id >= nextMessageId /\ given'[m].run = crashes
        /\ nextMessageId' = given'[m].id + 1 /\ crashes' = crashes
        /\ \A n \in Messages : n.from = u /\ n.nr < m.nr => n \in Given
    BY <1>1, <1>4, Received
  <2>2. nextMessageId \in Nat \ {0} /\ crashes \in Nat /\ Ids \subseteq Nat
    BY <1>1, Numbers, ChatAssumption
  <2>3. \A n \in Given : n \in Messages /\ n # m /\ given'[n] = given[n]
                         /\ given[n].id \in Nat /\ given[n].run \in Nat
    BY <1>1, <2>1, Numbers DEF Given
  <2>4. \A n \in Given : given[n].id >= 1 /\ given[n].run <= crashes
                         /\ (given[n].run = crashes => given[n].id < nextMessageId)
    BY <1>1 DEF IdsInv
  <2>5. given'[m].id \in Nat /\ given'[m].id >= nextMessageId /\ given'[m].id >= 1
    <3>1. given'[m].id \in Nat
      BY <2>1, <2>2
    <3> QED
      BY <2>1, <2>2, <3>1
  <2>6. \A n \in Given' : given'[n].id >= 1 /\ given'[n].run <= crashes
    BY <2>1, <2>2, <2>3, <2>4, <2>5
  <2>7. \A n \in Given' : given'[n].run = crashes => given'[n].id < nextMessageId'
    <3>1. \A n \in Given : given[n].run = crashes => given[n].id < given'[m].id + 1
      BY <2>2, <2>3, <2>4, <2>5
    <3>2. given'[m].id < given'[m].id + 1
      BY <2>5
    <3> QED
      BY <2>1, <2>3, <3>1, <3>2
  <2>8. \A n \in Given : given'[m] # given[n]
    <3> SUFFICES ASSUME NEW n \in Given, given'[m] = given[n]
                 PROVE  FALSE
      OBVIOUS
    <3>1. given[n].run = crashes /\ given[n].id = given'[m].id
      BY <2>1
    <3> QED
      BY <2>2, <2>3, <2>4, <2>5, <3>1
  <2>9. \A n, o \in Given' : given'[n] = given'[o] => n = o
    BY <1>1, <2>1, <2>3, <2>8 DEF IdsInv
  <2>10. \A n \in Given' : \A o \in Messages : o.from = n.from /\ o.nr < n.nr => o \in Given'
    BY <1>1, <2>1 DEF IdsInv
  <2> QED
    BY <2>1, <2>6, <2>7, <2>9, <2>10 DEF IdsInv
<1> QED
  BY <1>2, <1>3, <1>4, NextIs DEF Quiet, Deliver, Erase, SendOnline, NotOnline,
     QueueOfflineMessage, SaveToHistory, BroadcastPublicMessage, vars, server, past


-----------------------------------------------------------------------------
\* What the three kinds of sending do to the inboxes: each adds one message, one that is in
\* no inbox yet.
LEMMA Delivers ==
  ASSUME IInv, NEW u \in Users, Deliver(u)
  PROVE  \E m \in Stored :
           /\ m = pendingMessages[cursor[u]].msg /\ m \in Messages /\ m \in SentOnes'
           /\ Transmit(m, {u}, TRUE)
           /\ \A v \in Users : m \notin Arrived[v]
           /\ \A v \in Users : Arrived[v] \subseteq Arrived'[v] /\ Arrived'[v] \subseteq Arrived[v] \cup {m}
           /\ SentOnes \subseteq SentOnes' /\ SentOnes' \subseteq SentOnes \cup {m}
<1> DEFINE m == pendingMessages[cursor[u]].msg
<1>1. TypeOK /\ LockInv /\ PlaceInv
  BY DEF IInv
<1>2. pc[u] = "scan" /\ cursor[u] \in DOMAIN pendingMessages /\ m.to = u /\ Transmit(m, {u}, TRUE)
  BY DEF Deliver
<1>3. m \in Stored /\ m \in Messages
  BY <1>1, <1>2 DEF Stored, PlaceInv, Given
<1>4. \A v \in Users : m \notin Arrived[v]
  <2> SUFFICES ASSUME NEW v \in Users, m \in Arrived[v]
               PROVE  FALSE
    OBVIOUS
  <2>1. PICK w \in Users : pc[w] \in Delivering
    BY <1>1, <1>2 DEF PlaceInv
  <2>2. storageLock = w /\ storageLock = u
    BY <1>1, <1>2, <2>1 DEF LockInv, Scanning
  <2> QED
    BY <1>2, <2>1, <2>2 DEF Delivering
<1> HIDE DEF m
<1>5. /\ \A v \in Users : Arrived[v] \subseteq Arrived'[v] /\ Arrived'[v] \subseteq Arrived[v] \cup {m}
      /\ SentOnes \subseteq SentOnes' /\ SentOnes' \subseteq SentOnes \cup {m}
      /\ m \in SentOnes'
  BY <1>1, <1>2, <1>3, Transmitted
<1> QED
  BY <1>2, <1>3, <1>4, <1>5 DEF m

\* SendOnline sends a message for the first time.
LEMMA SendsOnline ==
  ASSUME IInv, NEW u \in Users, SendOnline(u)
  PROVE  \E m \in Given :
           /\ m = message[u] /\ m \in Messages /\ m.from = u /\ m \in Private
           /\ m \notin Stored /\ m \in SentOnes'
           /\ Transmit(m, {m.to}, FALSE)
           /\ \A n \in Given : n.from = u => n.nr <= m.nr
           /\ \A v \in Users : m \notin Arrived[v]
           /\ \A v \in Users : Arrived[v] \subseteq Arrived'[v] /\ Arrived'[v] \subseteq Arrived[v] \cup {m}
           /\ SentOnes \subseteq SentOnes' /\ SentOnes' \subseteq SentOnes \cup {m}
<1> DEFINE m == message[u]
<1>1. TypeOK /\ HandsInv
  BY DEF IInv
<1>2. pc[u] = "send" /\ Transmit(m, {m.to}, FALSE)
  BY DEF SendOnline
<1>3. /\ m \in Given /\ m.from = u /\ m.to # Everyone /\ m \notin Stored
      /\ \A n \in Given : n.from = u => n.nr <= m.nr
      /\ \A v \in Users : m \notin Arrived[v]
  BY <1>1, <1>2 DEF HandsInv, Handling
<1>4. m \in Messages /\ m \in Private /\ m.to \in Users
  BY <1>3, AboutMessages DEF Given, Private
<1> HIDE DEF m
<1>5. /\ \A v \in Users : Arrived[v] \subseteq Arrived'[v] /\ Arrived'[v] \subseteq Arrived[v] \cup {m}
      /\ SentOnes \subseteq SentOnes' /\ SentOnes' \subseteq SentOnes \cup {m}
      /\ m \in SentOnes'
  BY <1>1, <1>2, <1>4, Transmitted
<1> QED
  BY <1>2, <1>3, <1>4, <1>5 DEF m

\* So does BroadcastPublicMessage.
LEMMA Broadcasts ==
  ASSUME IInv, NEW u \in Users, BroadcastPublicMessage(u)
  PROVE  /\ pc[u] = "broadcast" /\ GoesTo(u, "in")
         /\ message'[u] = NoMessage /\ \A v \in Users \ {u} : message'[v] = message[v]
         /\ \E m \in Given :
              /\ m = message[u] /\ m \in Messages /\ m.from = u /\ m \notin Private
              /\ Transmit(m, activeUsers, FALSE)
              /\ \A n \in Given : n.from = u => n.nr <= m.nr
              /\ \A v \in Users : m \notin Arrived[v]
              /\ \A v \in Users : Arrived[v] \subseteq Arrived'[v] /\ Arrived'[v] \subseteq Arrived[v] \cup {m}
              /\ SentOnes' = SentOnes
<1> DEFINE m == message[u]
<1>1. TypeOK /\ HandsInv
  BY DEF IInv
<1>2. pc[u] = "broadcast" /\ Transmit(m, activeUsers, FALSE) /\ Goto(u, "in")
  BY DEF BroadcastPublicMessage
<1>3. /\ m \in Given /\ m.from = u /\ m.to = Everyone
      /\ \A n \in Given : n.from = u => n.nr <= m.nr
      /\ \A v \in Users : m \notin Arrived[v]
  BY <1>1, <1>2 DEF HandsInv, Handling
<1>4. m \in Messages /\ m \notin Private
  BY <1>3 DEF Given, Private
<1>5. message'[u] = NoMessage /\ \A v \in Users \ {u} : message'[v] = message[v]
  BY <1>1 DEF BroadcastPublicMessage, TypeOK
<1>6. GoesTo(u, "in")
  BY <1>1, <1>2, Moved DEF GoesTo, Stages
<1> HIDE DEF m
<1>7. /\ \A v \in Users : Arrived[v] \subseteq Arrived'[v] /\ Arrived'[v] \subseteq Arrived[v] \cup {m}
      /\ SentOnes \subseteq SentOnes' /\ SentOnes' \subseteq SentOnes \cup {m}
  BY <1>1, <1>2, <1>4, Transmitted
<1>8. SentOnes' = SentOnes
  BY <1>4, <1>7 DEF SentOnes
<1> QED
  BY <1>2, <1>3, <1>4, <1>5, <1>6, <1>7, <1>8 DEF m

\* What was sent stays sent.
LEMMA SentStays ==
  ASSUME IInv, [Next]_vars
  PROVE  SentOnes \subseteq SentOnes'
<1>1. CASE UNCHANGED <<inbox, missed>>
  BY <1>1, InboxSame
<1>2. ASSUME NEW u \in Users, Deliver(u)
      PROVE  SentOnes \subseteq SentOnes'
  BY <1>2, Delivers
<1>3. ASSUME NEW u \in Users, SendOnline(u)
      PROVE  SentOnes \subseteq SentOnes'
  BY <1>3, SendsOnline
<1>4. ASSUME NEW u \in Users, BroadcastPublicMessage(u)
      PROVE  SentOnes \subseteq SentOnes'
  BY <1>4, Broadcasts
<1> QED
  BY <1>1, <1>2, <1>3, <1>4, NextIs DEF Quiet, Erase, NotOnline, QueueOfflineMessage,
     SaveToHistory, Receive, Crash, vars, past

-----------------------------------------------------------------------------
\* Nobody moves the message under an iterator, or touches the history during a rewriting.
LEMMA NextLockInv ==
  ASSUME IInv, [Next]_vars, TypeOK'
  PROVE  LockInv'
<1> DEFINE Kept == /\ \A u \in Users : pc[u] \in Scanning <=> storageLock = u
                   /\ \A u \in Users : pc[u] = "rewrite" <=> historyLock = u
                   /\ IF historyLock = Nobody THEN fileContent = <<>> ELSE history = <<>>
           At(u) == /\ cursor'[u] \in DOMAIN pendingMessages'
                    /\ pendingMessages'[cursor'[u]].msg \in SentOnes'
<1>1. TypeOK /\ LockInv /\ SentOnes \subseteq SentOnes' /\ Kept
  BY SentStays DEF IInv, LockInv
<1>2. \A u \in Users : u # Nobody
  BY AboutMessages
<1>3. ASSUME NEW u \in Users, NEW stage \in Stages, Goto(u, stage)
      PROVE  GoesTo(u, stage)
  BY <1>1, <1>3, Moved DEF GoesTo
<1>4. Kept'
  <2>1. CASE UNCHANGED vars
    BY <1>1, <2>1 DEF vars, server
  <2>2. ASSUME NEW u \in Users,
               \/ Connect(u) \/ HandshakeFails(u) \/ RegisterUser(u) \/ UnregisterUser(u)
               \/ SendPrivateMessageOnline(u) \/ QueueOfflineMessage(u)
               \/ BroadcastPublicMessage(u) \/ \E m \in Messages : Receive(u, m)
        PROVE  Kept'
    <3>1. \E stage \in Stages \ Scanning : Goto(u, stage) /\ pc[u] \notin Scanning
      BY <2>2 DEF Connect, HandshakeFails, RegisterUser, UnregisterUser, SendPrivateMessageOnline,
         QueueOfflineMessage, BroadcastPublicMessage, Receive, Stages, Scanning, Delivering
    <3>2. PICK stage \in Stages \ Scanning : GoesTo(u, stage) /\ pc[u] \notin Scanning
      BY <1>3, <3>1
    <3>3. UNCHANGED <<storageLock, historyLock, history, fileContent>>
      BY <2>2 DEF Connect, HandshakeFails, RegisterUser, UnregisterUser, SendPrivateMessageOnline,
         QueueOfflineMessage, BroadcastPublicMessage, Receive
    <3> QED
      BY <1>1, <3>2, <3>3 DEF GoesTo, Scanning, Delivering
  <2>3. ASSUME NEW u \in Users, ClientGone(u)
        PROVE  Kept'
    BY <1>1, <2>3 DEF ClientGone, server
  <2>4. ASSUME NEW u \in Users, BeginScan(u)
        PROVE  Kept'
    <3>1. GoesTo(u, "scan")
      BY <1>3, <2>4 DEF BeginScan, Stages
    <3> QED
      BY <1>1, <1>2, <2>4, <3>1 DEF BeginScan, GoesTo, Scanning, Delivering
  <2>5. ASSUME NEW u \in Users, ScanMessage(u)
        PROVE  Kept'
    <3>1. pc[u] = "scan" /\ UNCHANGED <<storageLock, historyLock, history, fileContent>>
      BY <2>5 DEF ScanMessage
    <3>2. pc' = pc \/ Goto(u, "update")
      BY <2>5 DEF ScanMessage
    <3>3. pc' = pc \/ GoesTo(u, "update")
      BY <1>3, <3>2 DEF Stages
    <3> QED
      BY <1>1, <3>1, <3>3 DEF GoesTo, Scanning, Delivering
  <2>6. ASSUME NEW u \in Users, EndScan(u)
        PROVE  Kept'
    <3>1. GoesTo(u, "in")
      BY <1>3, <2>6 DEF EndScan, Stages
    <3> QED
      BY <1>1, <1>2, <2>6, <3>1 DEF EndScan, GoesTo, Scanning, Delivering
  <2>7. ASSUME NEW u \in Users, OpenForRewrite(u)
        PROVE  Kept'
    <3>1. pc[u] = "update" /\ historyLock = Nobody /\ storageLock' = storageLock
      BY <2>7 DEF OpenForRewrite
    <3>2. \/ Goto(u, "scan") /\ UNCHANGED <<historyLock, fileContent, history>>
          \/ Goto(u, "rewrite") /\ historyLock' = u /\ history' = <<>>
      BY <2>7 DEF OpenForRewrite
    <3>3. \/ GoesTo(u, "scan") /\ UNCHANGED <<historyLock, fileContent, history>>
          \/ GoesTo(u, "rewrite") /\ historyLock' = u /\ history' = <<>>
      BY <1>3, <3>2 DEF Stages
    <3> QED
      BY <1>1, <1>2, <3>1, <3>3 DEF GoesTo, Scanning, Delivering
  <2>8. ASSUME NEW u \in Users, Rewrite(u)
        PROVE  Kept'
    <3>1. GoesTo(u, "scan")
      BY <1>3, <2>8 DEF Rewrite, Stages
    <3> QED
      BY <1>1, <1>2, <2>8, <3>1 DEF Rewrite, GoesTo, Scanning, Delivering
  <2>9. ASSUME NEW u \in Users, SaveToHistory(u)
        PROVE  Kept'
    <3>1. /\ pc[u] \in {"save online", "save offline", "save public"}
          /\ GoesTo(u, IF pc[u] = "save public" THEN "broadcast" ELSE "in")
      BY <1>1, <2>9, Saved
    <3>2. historyLock = Nobody /\ UNCHANGED <<storageLock, historyLock, fileContent>>
      BY <2>9 DEF SaveToHistory, HistoryFree
    <3> QED
      BY <1>1, <1>2, <3>1, <3>2 DEF GoesTo, Scanning, Delivering
  <2>10. CASE Crash
    BY <1>2, <2>10 DEF Crash, Started, Scanning, Delivering
  <2> QED
    BY <2>1, <2>2, <2>3, <2>4, <2>5, <2>6, <2>7, <2>8, <2>9, <2>10 DEF Next, Step
<1>5. \A u \in Users : pc[u] \in Delivering =>
         /\ cursor[u] \in DOMAIN pendingMessages
         /\ pendingMessages[cursor[u]].msg \in SentOnes
  BY <1>1 DEF LockInv
<1>6. ASSUME NEW u \in Users, pc'[u] \in Delivering
      PROVE  At(u)
  <2>1. CASE UNCHANGED vars
    BY <1>1, <1>5, <1>6, <2>1 DEF vars, server
  <2>2. CASE Crash
    BY <1>6, <2>2 DEF Crash, Started, Delivering
  <2>3. ASSUME pc[u] \in Delivering, cursor'[u] = cursor[u], pendingMessages' = pendingMessages
        PROVE  At(u)
    BY <1>1, <1>5, <2>3
  <2>4. ASSUME NEW w \in Users, Quiet(w)
        PROVE  At(u)
    <3>1. pc[u] \in Delivering
      BY <1>6, <2>4 DEF Quiet
    <3> QED
      BY <2>3, <2>4, <3>1 DEF Quiet
  <2>5. ASSUME NEW w \in Users, Deliver(w)
        PROVE  At(u)
    <3>1. CASE u = w
      <4>1. /\ pendingMessages[cursor[w]].msg \in SentOnes'
            /\ cursor[w] \in DOMAIN pendingMessages /\ UNCHANGED <<pendingMessages, cursor>>
        BY <2>5, Delivers DEF Deliver
      <4> QED
        BY <3>1, <4>1
    <3>2. CASE u # w
      BY <1>6, <2>3, <2>5, <3>2 DEF Deliver, GoesTo
    <3> QED
      BY <3>1, <3>2
  <2>6. ASSUME NEW w \in Users, Erase(w)
        PROVE  At(u)
    <3>1. u # w /\ pc[u] \in Delivering
      BY <1>6, <2>6 DEF Erase, GoesTo, Delivering
    <3>2. storageLock = u /\ storageLock = w
      BY <1>1, <2>6, <3>1 DEF Erase, LockInv, Scanning
    <3> QED
      BY <3>1, <3>2
  <2>7. ASSUME NEW w \in Users, SendOnline(w) \/ NotOnline(w)
        PROVE  At(u)
    <3>1. pc[u] \in Delivering
      BY <1>6, <2>7 DEF SendOnline, NotOnline, GoesTo, Delivering
    <3> QED
      BY <2>3, <2>7, <3>1 DEF SendOnline, NotOnline
  <2>8. ASSUME NEW w \in Users, QueueOfflineMessage(w)
        PROVE  At(u)
    <3>1. pc[w] = "store" /\ GoesTo(w, "save offline") /\ storageLock = Nobody
      BY <1>3, <2>8 DEF QueueOfflineMessage, Stages
    <3>2. pc[u] \in Delivering
      BY <1>6, <3>1 DEF GoesTo, Delivering
    <3>3. storageLock = u
      BY <1>1, <3>2 DEF LockInv, Scanning
    <3> QED
      BY <1>2, <3>1, <3>3
  <2>9. ASSUME NEW w \in Users, SaveToHistory(w)
        PROVE  At(u)
    <3>1. /\ GoesTo(w, IF pc[w] = "save public" THEN "broadcast" ELSE "in")
          /\ UNCHANGED <<cursor, pendingMessages>>
      BY <1>1, <2>9, Saved
    <3>2. pc[u] \in Delivering
      BY <1>6, <3>1 DEF GoesTo, Delivering
    <3> QED
      BY <2>3, <3>1, <3>2
  <2>10. ASSUME NEW w \in Users, BroadcastPublicMessage(w)
         PROVE  At(u)
    <3>1. GoesTo(w, "in") /\ UNCHANGED <<cursor, pendingMessages>>
      BY <2>10, Broadcasts DEF BroadcastPublicMessage
    <3>2. pc[u] \in Delivering
      BY <1>6, <3>1 DEF GoesTo, Delivering
    <3> QED
      BY <2>3, <3>1, <3>2
  <2>11. ASSUME NEW w \in Users, NEW m \in Messages, Receive(w, m)
         PROVE  At(u)
    <3>1. /\ GoesTo(w, IF m.to = Everyone THEN "save public" ELSE "send")
          /\ UNCHANGED <<cursor, pendingMessages>>
      BY <1>1, <2>11, Received DEF IInv
    <3>2. pc[u] \in Delivering
      BY <1>6, <3>1 DEF GoesTo, Delivering
    <3> QED
      BY <2>3, <3>1, <3>2
  <2> QED
    BY <2>1, <2>2, <2>4, <2>5, <2>6, <2>7, <2>8, <2>9, <2>10, <2>11, NextIs
<1> QED
  BY <1>4, <1>6 DEF LockInv


-----------------------------------------------------------------------------
\* A worker's message stays where its worker has put it: the others have other messages in
\* their hands, and what is taken from the storage for delivery is nobody's any more or
\* waits only to be written to the history.
LEMMA NextHandsInv ==
  ASSUME IInv, [Next]_vars, TypeOK'
  PROVE  HandsInv'
<1> DEFINE Has(u) ==
      /\ message[u] \in Given /\ message[u].from = u
      /\ given[message[u]].run = crashes
      /\ \A n \in Given : n.from = u => n.nr <= message[u].nr
      /\ message[u].to = Everyone <=> pc[u] \in {"save public", "broadcast"}
      /\ message[u] \in written <=> pc[u] = "broadcast"
      /\ pc[u] \in {"send", "store"} => message[u] \notin Stored
      /\ pc[u] \in {"send", "store", "save public", "broadcast"} =>
            \A v \in Users : message[u] \notin Arrived[v]
      /\ pc[u] = "save online" => message[u] \in SentOnes
      /\ pc[u] = "save offline" => message[u] \in SentOnes \cup Stored
      HasNext(u) ==
      /\ message'[u] \in Given' /\ message'[u].from = u
      /\ given'[message'[u]].run = crashes'
      /\ \A n \in Given' : n.from = u => n.nr <= message'[u].nr
      /\ message'[u].to = Everyone <=> pc'[u] \in {"save public", "broadcast"}
      /\ message'[u] \in written' <=> pc'[u] = "broadcast"
      /\ pc'[u] \in {"send", "store"} => message'[u] \notin Stored'
      /\ pc'[u] \in {"send", "store", "save public", "broadcast"} =>
            \A v \in Users : message'[u] \notin Arrived'[v]
      /\ pc'[u] = "save online" => message'[u] \in SentOnes'
      /\ pc'[u] = "save offline" => message'[u] \in SentOnes' \cup Stored'
<1>1. TypeOK /\ IdsInv /\ LockInv /\ HandsInv /\ PlaceInv /\ SentOnes \subseteq SentOnes'
  BY SentStays DEF IInv
<1>2. \A u \in Users : IF pc[u] \in Handling THEN Has(u) ELSE message[u] = NoMessage
  BY <1>1 DEF HandsInv
<1>3. /\ Stored \subseteq Given \cap Private /\ \A u \in Users : Arrived[u] \subseteq Given
      /\ written \subseteq Given /\ Given \subseteq Messages
  BY <1>1 DEF PlaceInv, IInv, RecordInv, Given
<1>4. SUFFICES ASSUME NEW u \in Users
               PROVE  IF pc'[u] \in Handling THEN HasNext(u) ELSE message'[u] = NoMessage
  BY DEF HandsInv
<1>5. \A w \in Users \ {u} : pc[w] \in Handling /\ pc[u] \in Handling => message[w] # message[u]
  BY <1>2
<1>6. ASSUME UNCHANGED <<message, given, crashes, written, inbox, missed, pendingMessages>>,
             \/ pc'[u] = pc[u]
             \/ pc[u] \notin Handling /\ pc'[u] \notin Handling
      PROVE  IF pc'[u] \in Handling THEN HasNext(u) ELSE message'[u] = NoMessage
  <2>1. Given' = Given /\ Arrived' = Arrived /\ SentOnes' = SentOnes /\ Stored' = Stored
    BY <1>6, GivenSame, InboxSame, StoredSame
  <2> QED
    BY <1>2, <1>6, <2>1
<1>7. CASE UNCHANGED vars
  BY <1>6, <1>7 DEF vars, server, past
<1>8. CASE Crash
  BY <1>8 DEF Crash, Started, Handling
<1>9. ASSUME NEW w \in Users, Quiet(w)
      PROVE  IF pc'[u] \in Handling THEN HasNext(u) ELSE message'[u] = NoMessage
  <2>1. UNCHANGED <<message, given, crashes, written, inbox, missed, pendingMessages>>
    BY <1>9 DEF Quiet, past
  <2>2. \/ pc'[u] = pc[u]
        \/ pc[u] \notin Handling /\ pc'[u] \notin Handling
    BY <1>9 DEF Quiet
  <2> QED
    BY <1>6, <2>1, <2>2
<1>10. ASSUME NEW w \in Users, Deliver(w)
       PROVE  IF pc'[u] \in Handling THEN HasNext(u) ELSE message'[u] = NoMessage
  <2>1. PICK m \in Stored :
          \A v \in Users : Arrived[v] \subseteq Arrived'[v] /\ Arrived'[v] \subseteq Arrived[v] \cup {m}
    BY <1>10, Delivers
  <2>2. /\ pc[w] = "scan" /\ GoesTo(w, "update")
        /\ UNCHANGED <<pendingMessages, message, crashes, given, written>>
    BY <1>10 DEF Deliver
  <2>3. Given' = Given /\ Stored' = Stored
    BY <2>2, GivenSame, StoredSame
  <2>4. CASE u = w
    BY <1>2, <2>2, <2>4 DEF GoesTo, Handling
  <2>5. CASE u # w
    <3>1. pc'[u] = pc[u]
      BY <2>2, <2>5 DEF GoesTo
    <3>2. CASE pc[u] \notin Handling
      BY <1>2, <2>2, <3>1, <3>2
    <3>3. CASE pc[u] \in Handling
      <4>1. Has(u)
        BY <1>2, <3>3
      <4>2. pc[u] \in {"send", "store", "save public", "broadcast"} => message[u] # m
        <5>1. m \in Stored /\ m.to # Everyone
          BY <1>3, <2>1 DEF Private
        <5> QED
          BY <4>1, <5>1
      <4>3. pc[u] \in {"send", "store", "save public", "broadcast"} =>
               \A v \in Users : message[u] \notin Arrived'[v]
        BY <2>1, <4>1, <4>2
      <4> QED
        BY <1>1, <2>2, <2>3, <3>1, <3>3, <4>1, <4>3
    <3> QED
      BY <3>2, <3>3
  <2> QED
    BY <2>4, <2>5
<1>11. ASSUME NEW w \in Users, Erase(w)
       PROVE  IF pc'[u] \in Handling THEN HasNext(u) ELSE message'[u] = NoMessage
  <2>1. Stored' \subseteq Stored /\ Stored \subseteq Stored' \cup SentOnes
    BY <1>1, <1>11, Erased DEF Erase
  <2>2. /\ pc[w] \in Delivering /\ GoesTo(w, "scan")
        /\ UNCHANGED <<message, given, crashes, written, inbox, missed>>
    BY <1>11 DEF Erase, past
  <2>3. Given' = Given /\ Arrived' = Arrived /\ SentOnes' = SentOnes
    BY <2>2, GivenSame, InboxSame
  <2>4. CASE u = w
    BY <1>2, <2>2, <2>4 DEF GoesTo, Handling, Delivering
  <2>5. CASE u # w
    <3>1. pc'[u] = pc[u]
      BY <2>2, <2>5 DEF GoesTo
    <3> QED
      BY <1>2, <2>1, <2>2, <2>3, <3>1
  <2> QED
    BY <2>4, <2>5
<1>12. ASSUME NEW w \in Users, SendOnline(w)
       PROVE  IF pc'[u] \in Handling THEN HasNext(u) ELSE message'[u] = NoMessage
  <2>1. PICK m \in Given :
          /\ m = message[w] /\ m \in SentOnes'
          /\ \A v \in Users : Arrived[v] \subseteq Arrived'[v] /\ Arrived'[v] \subseteq Arrived[v] \cup {m}
    BY <1>12, SendsOnline
  <2>2. /\ pc[w] = "send" /\ GoesTo(w, "save online")
        /\ UNCHANGED <<pendingMessages, message, crashes, given, written>>
    BY <1>12 DEF SendOnline
  <2>3. Given' = Given /\ Stored' = Stored
    BY <2>2, GivenSame, StoredSame
  <2>4. CASE u = w
    <3>1. pc'[u] = "save online" /\ pc[u] = "send" /\ Has(u) /\ message'[u] \in SentOnes'
      BY <1>2, <2>1, <2>2, <2>4 DEF GoesTo, Handling
    <3>2. HasNext(u)
      BY <2>2, <2>3, <2>4, <3>1
    <3> QED
      BY <3>1, <3>2 DEF Handling
  <2>5. CASE u # w
    <3>1. pc'[u] = pc[u]
      BY <2>2, <2>5 DEF GoesTo
    <3>2. CASE pc[u] \notin Handling
      BY <1>2, <2>2, <3>1, <3>2
    <3>3. CASE pc[u] \in Handling
      <4>1. Has(u) /\ message[u] # m
        BY <1>2, <1>5, <2>1, <2>2, <2>5, <3>3 DEF Handling
      <4>2. pc[u] \in {"send", "store", "save public", "broadcast"} =>
               \A v \in Users : message[u] \notin Arrived'[v]
        BY <2>1, <4>1
      <4> QED
        BY <1>1, <2>2, <2>3, <3>1, <3>3, <4>1, <4>2
    <3> QED
      BY <3>2, <3>3
  <2> QED
    BY <2>4, <2>5
<1>13. ASSUME NEW w \in Users, NotOnline(w)
       PROVE  IF pc'[u] \in Handling THEN HasNext(u) ELSE message'[u] = NoMessage
  <2>1. /\ pc[w] = "send" /\ GoesTo(w, "store")
        /\ UNCHANGED <<message, given, crashes, written, inbox, missed, pendingMessages>>
    BY <1>13 DEF NotOnline, past
  <2>2. Given' = Given /\ Arrived' = Arrived /\ SentOnes' = SentOnes /\ Stored' = Stored
    BY <2>1, GivenSame, InboxSame, StoredSame
  <2>3. CASE u = w
    <3>1. pc'[u] = "store" /\ pc[u] = "send" /\ Has(u)
      BY <1>2, <2>1, <2>3 DEF GoesTo, Handling
    <3>2. HasNext(u)
      BY <2>1, <2>2, <3>1
    <3> QED
      BY <3>1, <3>2 DEF Handling
  <2>4. CASE u # w
    <3>1. pc'[u] = pc[u]
      BY <2>1, <2>4 DEF GoesTo
    <3> QED
      BY <1>6, <2>1, <3>1
  <2> QED
    BY <2>3, <2>4
<1>14. ASSUME NEW w \in Users, QueueOfflineMessage(w)
       PROVE  IF pc'[u] \in Handling THEN HasNext(u) ELSE message'[u] = NoMessage
  <2>1. Stored' = Stored \cup {message[w]}
    BY <1>1, <1>14, Queued
  <2>2. Goto(w, "save offline")
    BY <1>14 DEF QueueOfflineMessage
  <2>3. GoesTo(w, "save offline")
    BY <1>1, <2>2, Moved DEF GoesTo, Stages
  <2>4. pc[w] = "store" /\ UNCHANGED <<message, given, crashes, written, inbox, missed>>
    BY <1>14 DEF QueueOfflineMessage, past
  <2>5. Given' = Given /\ Arrived' = Arrived /\ SentOnes' = SentOnes
    BY <2>4, GivenSame, InboxSame
  <2>6. CASE u = w
    <3>1. pc'[u] = "save offline" /\ pc[u] = "store" /\ Has(u)
      BY <1>2, <2>3, <2>4, <2>6 DEF GoesTo, Handling
    <3>2. HasNext(u)
      BY <2>1, <2>4, <2>5, <2>6, <3>1
    <3> QED
      BY <3>1, <3>2 DEF Handling
  <2>7. CASE u # w
    <3>1. pc'[u] = pc[u] /\ (pc[u] \in Handling => message[u] # message[w])
      BY <1>5, <2>3, <2>4, <2>7 DEF GoesTo, Handling
    <3> QED
      BY <1>2, <2>1, <2>4, <2>5, <3>1
  <2> QED
    BY <2>6, <2>7
<1>15. ASSUME NEW w \in Users, SaveToHistory(w)
       PROVE  IF pc'[u] \in Handling THEN HasNext(u) ELSE message'[u] = NoMessage
  <2>1. /\ pc[w] \in {"save online", "save offline", "save public"}
        /\ GoesTo(w, IF pc[w] = "save public" THEN "broadcast" ELSE "in")
        /\ written' = written \cup {message[w]}
        /\ message'[w] = IF pc[w] = "save public" THEN message[w] ELSE NoMessage
        /\ \A v \in Users \ {w} : message'[v] = message[v]
        /\ UNCHANGED <<pendingMessages, crashes, given, inbox, missed>>
    BY <1>1, <1>15, Saved
  <2>2. Given' = Given /\ Arrived' = Arrived /\ SentOnes' = SentOnes /\ Stored' = Stored
    BY <2>1, GivenSame, InboxSame, StoredSame
  <2>3. CASE u = w /\ pc[w] = "save public"
    <3>1. pc'[u] = "broadcast" /\ pc[u] = "save public" /\ Has(u) /\ message'[u] = message[u]
      BY <1>2, <2>1, <2>3 DEF GoesTo, Handling
    <3>2. HasNext(u)
      BY <2>1, <2>2, <2>3, <3>1
    <3> QED
      BY <3>1, <3>2 DEF Handling
  <2>4. CASE u = w /\ pc[w] # "save public"
    BY <2>1, <2>4 DEF GoesTo, Handling
  <2>5. CASE u # w
    <3>1. /\ pc'[u] = pc[u] /\ message'[u] = message[u]
          /\ pc[u] \in Handling => message[u] # message[w]
      BY <1>5, <2>1, <2>5 DEF GoesTo, Handling
    <3> QED
      BY <1>2, <2>1, <2>2, <3>1
  <2> QED
    BY <2>3, <2>4, <2>5
<1>16. ASSUME NEW w \in Users, BroadcastPublicMessage(w)
       PROVE  IF pc'[u] \in Handling THEN HasNext(u) ELSE message'[u] = NoMessage
  <2>1. /\ pc[w] = "broadcast" /\ GoesTo(w, "in")
        /\ message'[w] = NoMessage /\ \A v \in Users \ {w} : message'[v] = message[v]
    BY <1>16, Broadcasts
  <2>2. PICK m \in Given :
          /\ m = message[w] /\ SentOnes' = SentOnes
          /\ \A v \in Users : Arrived[v] \subseteq Arrived'[v] /\ Arrived'[v] \subseteq Arrived[v] \cup {m}
    BY <1>16, Broadcasts
  <2>3. UNCHANGED <<pendingMessages, crashes, given, written>>
    BY <1>16 DEF BroadcastPublicMessage
  <2>4. Given' = Given /\ Stored' = Stored
    BY <2>3, GivenSame, StoredSame
  <2>5. CASE u = w
    BY <2>1, <2>5 DEF GoesTo, Handling
  <2>6. CASE u # w
    <3>1. pc'[u] = pc[u] /\ message'[u] = message[u]
      BY <2>1, <2>6 DEF GoesTo
    <3>2. CASE pc[u] \notin Handling
      BY <1>2, <3>1, <3>2
    <3>3. CASE pc[u] \in Handling
      <4>1. Has(u) /\ message[u] # m
        BY <1>2, <1>5, <2>1, <2>2, <2>6, <3>3 DEF Handling
      <4>2. pc[u] \in {"send", "store", "save public", "broadcast"} =>
               \A v \in Users : message[u] \notin Arrived'[v]
        BY <2>2, <4>1
      <4> QED
        BY <2>2, <2>3, <2>4, <3>1, <3>3, <4>1, <4>2
    <3> QED
      BY <3>2, <3>3
  <2> QED
    BY <2>5, <2>6
<1>17. ASSUME NEW w \in Users, NEW m \in Messages, Receive(w, m)
       PROVE  IF pc'[u] \in Handling THEN HasNext(u) ELSE message'[u] = NoMessage
  <2>1. /\ pc[w] = "in" /\ GoesTo(w, IF m.to = Everyone THEN "save public" ELSE "send")
        /\ m \notin Given /\ Given' = Given \cup {m} /\ m.from = w
        /\ \A n \in Messages \ {m} : given'[n] = given[n]
        /\ given'[m].run = crashes
        /\ \A n \in Given : n.from = w => n.nr <= m.nr
        /\ message'[w] = m /\ \A v \in Users \ {w} : message'[v] = message[v]
        /\ UNCHANGED <<pendingMessages, crashes, inbox, missed, written>>
    BY <1>1, <1>17, Received
  <2>2. Arrived' = Arrived /\ SentOnes' = SentOnes /\ Stored' = Stored
    BY <2>1, InboxSame, StoredSame
  <2>3. CASE u = w
    <3>1. pc'[u] = IF m.to = Everyone THEN "save public" ELSE "send"
      BY <2>1, <2>3 DEF GoesTo
    <3>2. m \notin written /\ m \notin Stored /\ \A v \in Users : m \notin Arrived[v]
      BY <1>3, <2>1
    <3>3. \A n \in Given' : n.from = u => n.nr <= m.nr
      <4>1. m.nr \in Nat
        BY AboutMessages
      <4>2. m.nr <= m.nr
        BY <4>1
      <4> QED
        BY <2>1, <2>3, <4>2
    <3>4. HasNext(u)
      BY <2>1, <2>2, <2>3, <3>1, <3>2, <3>3
    <3> QED
      BY <3>1, <3>4 DEF Handling
  <2>4. CASE u # w
    <3>1. pc'[u] = pc[u] /\ message'[u] = message[u]
      BY <2>1, <2>4 DEF GoesTo
    <3>2. CASE pc[u] \notin Handling
      BY <1>2, <3>1, <3>2
    <3>3. CASE pc[u] \in Handling
      <4>1. Has(u) /\ given'[message[u]] = given[message[u]]
        BY <1>2, <1>3, <2>1, <3>3
      <4>2. \A n \in Given' : n.from = u => n.nr <= message[u].nr
        BY <2>1, <2>4, <4>1
      <4> QED
        BY <2>1, <2>2, <3>1, <3>3, <4>1, <4>2
    <3> QED
      BY <3>2, <3>3
  <2> QED
    BY <2>3, <2>4
<1> QED
  BY <1>7, <1>8, <1>9, <1>10, <1>11, <1>12, <1>13, <1>14, <1>15, <1>16, <1>17, NextIs


-----------------------------------------------------------------------------
\* Messages of which the given one is where the invariant allows stay there: the storage
\* holds each once, and only the one being delivered is in an inbox already.
LEMMA NextPlaceInv ==
  ASSUME IInv, [Next]_vars, TypeOK'
  PROVE  PlaceInv'
<1> DEFINE p == pendingMessages
           Places ==
             /\ Stored \subseteq Given \cap Private /\ confirmed \subseteq Given \cap Private
             /\ SentOnes \subseteq Given
             /\ \A u \in Users : Arrived[u] \subseteq Given
             /\ \A m \in Stored : given[m].run = crashes
           Entered == \A i \in DOMAIN p : p[i].id = given[p[i].msg].id
           Once == \A i, j \in DOMAIN p : p[i].msg = p[j].msg => i = j
           Taken == \A i \in DOMAIN p : \A v \in Users : p[i].msg \in Arrived[v] =>
                       \E u \in Users : pc[u] \in Delivering /\ cursor[u] = i
<1>1. TypeOK /\ IdsInv /\ LockInv /\ HandsInv /\ PlaceInv
  BY DEF IInv
<1>2. Places /\ Entered /\ Once /\ Taken
  BY <1>1 DEF PlaceInv
<1>3. SUFFICES Places' /\ Entered' /\ Once' /\ Taken'
  BY DEF PlaceInv
<1>4. Stored = {p[i].msg : i \in DOMAIN p} /\ Given \subseteq Messages
  BY DEF Stored, Given
<1>5. \A i \in DOMAIN p : p[i].msg \in Stored
  BY <1>4
<1>6. CASE UNCHANGED vars
  <2>1. UNCHANGED <<given, inbox, missed, pendingMessages, confirmed, crashes, pc, cursor>>
    BY <1>6 DEF vars, server, past
  <2>2. Given' = Given /\ Arrived' = Arrived /\ SentOnes' = SentOnes /\ Stored' = Stored
    BY <2>1, GivenSame, InboxSame, StoredSame
  <2> QED
    BY <1>2, <2>1, <2>2
<1>7. CASE Crash
  <2>1. UNCHANGED <<given, inbox, missed, confirmed>> /\ pendingMessages' = <<>>
    BY <1>7 DEF Crash, Started
  <2>2. Given' = Given /\ Arrived' = Arrived /\ SentOnes' = SentOnes
    BY <2>1, GivenSame, InboxSame
  <2>3. DOMAIN pendingMessages' = {} /\ Stored' = {}
    BY <2>1 DEF Stored
  <2> QED
    BY <1>2, <2>1, <2>2, <2>3
<1>8. ASSUME NEW w \in Users, Quiet(w)
      PROVE  Places' /\ Entered' /\ Once' /\ Taken'
  <2>1. UNCHANGED <<given, inbox, missed, pendingMessages, confirmed, crashes>>
    BY <1>8 DEF Quiet, past
  <2>2. Given' = Given /\ Arrived' = Arrived /\ SentOnes' = SentOnes /\ Stored' = Stored
    BY <2>1, GivenSame, InboxSame, StoredSame
  <2>3. \A u \in Users : pc[u] \in Delivering => pc'[u] \in Delivering /\ cursor'[u] = cursor[u]
    BY <1>8 DEF Quiet
  <2>4. Taken'
    BY <1>2, <2>1, <2>2, <2>3
  <2> QED
    BY <1>2, <2>1, <2>2, <2>4
<1>9. ASSUME NEW w \in Users, Deliver(w)
      PROVE  Places' /\ Entered' /\ Once' /\ Taken'
  <2>1. PICK m \in Stored :
          /\ m = p[cursor[w]].msg
          /\ \A v \in Users : Arrived[v] \subseteq Arrived'[v] /\ Arrived'[v] \subseteq Arrived[v] \cup {m}
          /\ SentOnes \subseteq SentOnes' /\ SentOnes' \subseteq SentOnes \cup {m}
    BY <1>9, Delivers
  <2>2. /\ pc[w] = "scan" /\ GoesTo(w, "update") /\ cursor[w] \in DOMAIN p
        /\ UNCHANGED <<pendingMessages, cursor, crashes, given, confirmed>>
    BY <1>9 DEF Deliver
  <2>3. Given' = Given /\ Stored' = Stored
    BY <2>2, GivenSame, StoredSame
  <2>4. Places'
    BY <1>2, <2>1, <2>2, <2>3
  <2>5. ASSUME NEW i \in DOMAIN p, NEW v \in Users, p[i].msg \in Arrived'[v]
        PROVE  \E u \in Users : pc'[u] \in Delivering /\ cursor'[u] = i
    <3>1. CASE p[i].msg \in Arrived[v]
      <4>1. PICK u \in Users : pc[u] \in Delivering /\ cursor[u] = i
        BY <1>2, <3>1
      <4>2. u # w
        BY <2>2, <4>1 DEF Delivering
      <4> QED
        BY <2>2, <4>1, <4>2 DEF GoesTo
    <3>2. CASE p[i].msg = m
      <4>1. i = cursor[w]
        BY <1>2, <2>1, <2>2, <3>2
      <4> QED
        BY <2>2, <4>1 DEF GoesTo, Delivering
    <3> QED
      BY <2>1, <2>5, <3>1, <3>2
  <2>6. Taken'
    BY <2>2, <2>5
  <2> QED
    BY <1>2, <2>2, <2>4, <2>6
<1>10. ASSUME NEW w \in Users, Erase(w)
       PROVE  Places' /\ Entered' /\ Once' /\ Taken'
  <2> DEFINE c == cursor[w]
             Old(j) == IF j < c THEN j ELSE j + 1
  <2>1. /\ \A j \in DOMAIN p' : Old(j) \in DOMAIN p /\ Old(j) # c /\ p'[j] = p[Old(j)]
        /\ Stored' \subseteq Stored /\ p' \in Seq(Entries)
    BY <1>1, <1>10, Erased DEF Erase
  <2>2. /\ pc[w] \in Delivering /\ GoesTo(w, "scan")
        /\ UNCHANGED <<given, inbox, missed, confirmed, crashes, cursor>>
    BY <1>10 DEF Erase, past
  <2>3. Given' = Given /\ Arrived' = Arrived /\ SentOnes' = SentOnes
    BY <2>2, GivenSame, InboxSame
  <2>4. Places'
    BY <1>2, <2>1, <2>2, <2>3
  <2>5. DOMAIN p' \subseteq Int /\ c \in Int
    <3>1. DOMAIN p' = 1 .. Len(p') /\ Len(p') \in Nat
      BY <2>1, LenProperties
    <3>2. c \in Nat \ {0}
      BY <1>1 DEF TypeOK
    <3> QED
      BY <3>1, <3>2
  <2>6. \A i, j \in DOMAIN p' : Old(i) = Old(j) => i = j
    BY <2>5
  <2>7. \A i \in DOMAIN p : \A v \in Users : i # c => p[i].msg \notin Arrived[v]
    <3> SUFFICES ASSUME NEW i \in DOMAIN p, NEW v \in Users, i # c, p[i].msg \in Arrived[v]
                 PROVE  FALSE
      OBVIOUS
    <3>1. PICK u \in Users : pc[u] \in Delivering /\ cursor[u] = i
      BY <1>2
    <3>2. storageLock = u /\ storageLock = w
      BY <1>1, <2>2, <3>1 DEF LockInv, Scanning
    <3> QED
      BY <3>1, <3>2
  <2> HIDE DEF p, c, Old
  <2>8. Entered'
    BY <1>2, <2>1, <2>2
  <2>9. Once'
    BY <1>2, <2>1, <2>6
  <2>10. Taken'
    BY <2>1, <2>3, <2>7
  <2> QED
    BY <2>4, <2>8, <2>9, <2>10
<1>11. ASSUME NEW w \in Users, SendOnline(w)
       PROVE  Places' /\ Entered' /\ Once' /\ Taken'
  <2>1. PICK m \in Given :
          /\ m \notin Stored
          /\ \A v \in Users : Arrived[v] \subseteq Arrived'[v] /\ Arrived'[v] \subseteq Arrived[v] \cup {m}
          /\ SentOnes \subseteq SentOnes' /\ SentOnes' \subseteq SentOnes \cup {m}
    BY <1>11, SendsOnline
  <2>2. /\ pc[w] = "send" /\ GoesTo(w, "save online")
        /\ UNCHANGED <<pendingMessages, cursor, crashes, given, confirmed>>
    BY <1>11 DEF SendOnline
  <2>3. Given' = Given /\ Stored' = Stored
    BY <2>2, GivenSame, StoredSame
  <2>4. Places'
    BY <1>2, <2>1, <2>2, <2>3
  <2>5. \A i \in DOMAIN p : \A v \in Users : p[i].msg \in Arrived'[v] => p[i].msg \in Arrived[v]
    BY <1>5, <2>1
  <2>6. \A u \in Users : pc[u] \in Delivering => pc'[u] \in Delivering
    BY <2>2 DEF GoesTo, Delivering
  <2>7. Taken'
    BY <1>2, <2>2, <2>5, <2>6
  <2> QED
    BY <1>2, <2>2, <2>4, <2>7
<1>12. ASSUME NEW w \in Users, NotOnline(w)
       PROVE  Places' /\ Entered' /\ Once' /\ Taken'
  <2>1. /\ pc[w] = "send" /\ GoesTo(w, "store")
        /\ UNCHANGED <<given, inbox, missed, pendingMessages, confirmed, crashes, cursor>>
    BY <1>12 DEF NotOnline, past
  <2>2. Given' = Given /\ Arrived' = Arrived /\ SentOnes' = SentOnes /\ Stored' = Stored
    BY <2>1, GivenSame, InboxSame, StoredSame
  <2>3. \A u \in Users : pc[u] \in Delivering => pc'[u] \in Delivering
    BY <2>1 DEF GoesTo, Delivering
  <2>4. Taken'
    BY <1>2, <2>1, <2>2, <2>3
  <2> QED
    BY <1>2, <2>1, <2>2, <2>4
<1>13. ASSUME NEW w \in Users, QueueOfflineMessage(w)
       PROVE  Places' /\ Entered' /\ Once' /\ Taken'
  <2> DEFINE m == message[w]
             k == Len(p) + 1
  <2>1. /\ Stored' = Stored \cup {m}
        /\ DOMAIN p' = DOMAIN p \cup {k} /\ k \notin DOMAIN p
        /\ \A i \in DOMAIN p : p'[i] = p[i]
        /\ p'[k].msg = m /\ p'[k].id = given[m].id
    BY <1>1, <1>13, Queued
  <2>2. Goto(w, "save offline")
    BY <1>13 DEF QueueOfflineMessage
  <2>3. GoesTo(w, "save offline")
    BY <1>1, <2>2, Moved DEF GoesTo, Stages
  <2>4. pc[w] = "store" /\ UNCHANGED <<given, inbox, missed, confirmed, crashes, cursor>>
    BY <1>13 DEF QueueOfflineMessage, past
  <2>5. Given' = Given /\ Arrived' = Arrived /\ SentOnes' = SentOnes
    BY <2>4, GivenSame, InboxSame
  <2>6. /\ m \in Given /\ m.to # Everyone /\ given[m].run = crashes
        /\ m \notin Stored /\ \A v \in Users : m \notin Arrived[v]
    BY <1>1, <2>4 DEF HandsInv, Handling
  <2>7. m \in Private
    BY <1>4, <2>6 DEF Private
  <2> HIDE DEF p, m, k
  <2>8. Places'
    BY <1>2, <2>1, <2>4, <2>5, <2>6, <2>7
  <2>9. Entered'
    BY <1>2, <2>1, <2>4
  <2>10. Once'
    BY <1>2, <1>5, <2>1, <2>6
  <2>11. \A u \in Users : pc[u] \in Delivering => pc'[u] \in Delivering
    BY <2>3, <2>4 DEF GoesTo, Delivering
  <2>12. Taken'
    BY <1>2, <2>1, <2>4, <2>5, <2>6, <2>11
  <2> QED
    BY <2>8, <2>9, <2>10, <2>12
<1>14. ASSUME NEW w \in Users, SaveToHistory(w)
       PROVE  Places' /\ Entered' /\ Once' /\ Taken'
  <2>1. /\ pc[w] \in {"save online", "save offline", "save public"}
        /\ GoesTo(w, IF pc[w] = "save public" THEN "broadcast" ELSE "in")
        /\ confirmed' = IF pc[w] = "save offline" THEN confirmed \cup {message[w]} ELSE confirmed
        /\ UNCHANGED <<given, inbox, missed, pendingMessages, crashes, cursor>>
    BY <1>1, <1>14, Saved
  <2>2. Given' = Given /\ Arrived' = Arrived /\ SentOnes' = SentOnes /\ Stored' = Stored
    BY <2>1, GivenSame, InboxSame, StoredSame
  <2>3. \A u \in Users : pc[u] \in Delivering => pc'[u] \in Delivering
    BY <2>1 DEF GoesTo, Delivering
  <2>4. pc[w] = "save offline" => message[w] \in Given \cap Private
    BY <1>1, <1>4 DEF HandsInv, Handling, Private
  <2>5. Taken'
    BY <1>2, <2>1, <2>2, <2>3
  <2>6. confirmed' \subseteq Given \cap Private
    BY <1>2, <2>1, <2>4
  <2> QED
    BY <1>2, <2>1, <2>2, <2>5, <2>6
<1>15. ASSUME NEW w \in Users, BroadcastPublicMessage(w)
       PROVE  Places' /\ Entered' /\ Once' /\ Taken'
  <2>1. PICK m \in Given :
          /\ m \notin Private /\ SentOnes' = SentOnes
          /\ \A v \in Users : Arrived[v] \subseteq Arrived'[v] /\ Arrived'[v] \subseteq Arrived[v] \cup {m}
    BY <1>15, Broadcasts
  <2>2. pc[w] = "broadcast" /\ GoesTo(w, "in")
    BY <1>15, Broadcasts
  <2>3. UNCHANGED <<pendingMessages, cursor, crashes, given, confirmed>>
    BY <1>15 DEF BroadcastPublicMessage
  <2>4. Given' = Given /\ Stored' = Stored
    BY <2>3, GivenSame, StoredSame
  <2>5. Places'
    BY <1>2, <2>1, <2>3, <2>4
  <2>6. \A i \in DOMAIN p : \A v \in Users : p[i].msg \in Arrived'[v] => p[i].msg \in Arrived[v]
    BY <1>2, <1>5, <2>1
  <2>7. \A u \in Users : pc[u] \in Delivering => pc'[u] \in Delivering
    BY <2>2 DEF GoesTo, Delivering
  <2>8. Taken'
    BY <1>2, <2>3, <2>6, <2>7
  <2> QED
    BY <1>2, <2>3, <2>5, <2>8
<1>16. ASSUME NEW w \in Users, NEW m \in Messages, Receive(w, m)
       PROVE  Places' /\ Entered' /\ Once' /\ Taken'
  <2>1. /\ pc[w] = "in" /\ GoesTo(w, IF m.to = Everyone THEN "save public" ELSE "send")
        /\ m \notin Given /\ Given' = Given \cup {m}
        /\ \A n \in Messages \ {m} : given'[n] = given[n]
        /\ UNCHANGED <<pendingMessages, cursor, crashes, inbox, missed, confirmed>>
    BY <1>1, <1>16, Received
  <2>2. Arrived' = Arrived /\ SentOnes' = SentOnes /\ Stored' = Stored
    BY <2>1, InboxSame, StoredSame
  <2>3. \A n \in Stored : given'[n] = given[n]
    BY <1>2, <1>4, <2>1
  <2>4. \A u \in Users : pc[u] \in Delivering => pc'[u] \in Delivering
    BY <2>1 DEF GoesTo, Delivering
  <2>5. Places'
    BY <1>2, <2>1, <2>2, <2>3
  <2>6. Entered'
    BY <1>2, <1>5, <2>1, <2>3
  <2>7. Taken'
    BY <1>2, <2>1, <2>2, <2>4
  <2> QED
    BY <1>2, <2>1, <2>5, <2>6, <2>7
<1> QED
  BY <1>6, <1>7, <1>8, <1>9, <1>10, <1>11, <1>12, <1>13, <1>14, <1>15, <1>16, NextIs

\* A stored message of this run is kept: it is erased only once it was sent.
LEMMA NextStoredIsKept ==
  ASSUME IInv, [Next]_vars, TypeOK', PlaceInv'
  PROVE  StoredIsKept'
<1> DEFINE Kept == \A m \in confirmed : given[m].run = crashes => m \in SentOnes \cup Stored
<1>1. TypeOK /\ LockInv /\ HandsInv /\ PlaceInv /\ SentOnes \subseteq SentOnes'
  BY SentStays DEF IInv
<1>2. \A m : m \in Stored <=> \E i \in DOMAIN pendingMessages : pendingMessages[i].msg = m
  BY DEF Stored
<1>3. \A m : m \in Stored' <=> \E i \in DOMAIN pendingMessages' : pendingMessages'[i].msg = m
  BY DEF Stored
<1>4. confirmed \subseteq Given \cap Private /\ confirmed' \subseteq Private /\ Given \subseteq Messages
  BY <1>1 DEF PlaceInv, Given
<1>5. Kept
  BY <1>2, <1>4, SentIs DEF IInv, StoredIsKept
<1>6. SUFFICES Kept'
  BY <1>3, <1>4, SentIs DEF StoredIsKept
<1>7. CASE UNCHANGED <<confirmed, given, crashes>> /\ Stored \subseteq Stored' \cup SentOnes
  BY <1>1, <1>5, <1>7
<1>8. CASE UNCHANGED <<confirmed, given, crashes, pendingMessages>>
  BY <1>7, <1>8, StoredSame
<1>9. CASE Crash
  <2>1. crashes' = crashes + 1 /\ UNCHANGED <<confirmed, given>>
    BY <1>9 DEF Crash
  <2>2. \A m \in confirmed : given[m].run <= crashes
    BY <1>4 DEF IInv, IdsInv
  <2>3. crashes \in Nat /\ \A m \in confirmed : given[m].run \in Nat
    BY <1>1, <1>4, Numbers
  <2>4. \A m \in confirmed : given[m].run # crashes + 1
    BY <2>2, <2>3
  <2> QED
    BY <2>1, <2>4
<1>10. ASSUME NEW w \in Users, Erase(w)
       PROVE  Kept'
  BY <1>1, <1>7, <1>10, Erased DEF Erase, past
<1>11. ASSUME NEW w \in Users, QueueOfflineMessage(w)
       PROVE  Kept'
  BY <1>1, <1>7, <1>11, Queued DEF QueueOfflineMessage, past
<1>12. ASSUME NEW w \in Users, SaveToHistory(w)
       PROVE  Kept'
  <2>1. /\ confirmed' = IF pc[w] = "save offline" THEN confirmed \cup {message[w]} ELSE confirmed
        /\ UNCHANGED <<given, pendingMessages, crashes>>
    BY <1>1, <1>12, Saved
  <2>2. pc[w] = "save offline" => message[w] \in SentOnes \cup Stored
    BY <1>1 DEF HandsInv, Handling
  <2>3. Stored' = Stored
    BY <2>1, StoredSame
  <2> QED
    BY <1>1, <1>5, <2>1, <2>2, <2>3
<1>13. ASSUME NEW w \in Users, NEW m \in Messages, Receive(w, m)
       PROVE  Kept'
  <2>1. /\ m \notin Given /\ \A n \in Messages \ {m} : given'[n] = given[n]
        /\ UNCHANGED <<pendingMessages, crashes, confirmed>>
    BY <1>1, <1>13, Received DEF IInv
  <2>2. \A n \in confirmed : given'[n] = given[n]
    BY <1>4, <2>1
  <2>3. Stored' = Stored
    BY <2>1, StoredSame
  <2> QED
    BY <1>1, <1>5, <2>1, <2>2, <2>3
<1> QED
  BY <1>8, <1>9, <1>10, <1>11, <1>12, <1>13, NextIs DEF Quiet, Deliver, SendOnline, NotOnline,
     BroadcastPublicMessage, vars, server, past


\* An unmarked message was in the hands of its sender's worker, so that it is the last of
\* that sender; whatever is sent is in no inbox yet.
LEMMA NextMessagesOnceInOrder ==
  ASSUME IInv, [Next]_vars
  PROVE  MessagesOnceInOrder'
<1>1. TypeOK /\ PlaceInv /\ MessagesOnceInOrder
  BY DEF IInv
<1>2. CASE inbox' = inbox
  BY <1>1, <1>2 DEF MessagesOnceInOrder, AtMostOnce, OrderKeptUnlessStored
<1>3. ASSUME NEW u \in Users, Deliver(u)
      PROVE  MessagesOnceInOrder'
  <2>1. PICK m \in Messages : Transmit(m, {u}, TRUE) /\ \A v \in Users : m \notin Arrived[v]
    BY <1>3, Delivers
  <2> QED
    BY <1>1, <2>1, TransmittedInOrder
<1>4. ASSUME NEW u \in Users, SendOnline(u) \/ BroadcastPublicMessage(u)
      PROVE  MessagesOnceInOrder'
  <2>1. \E m \in Messages : \E receivers :
          /\ Transmit(m, receivers, FALSE) /\ m.from = u
          /\ \A v \in Users : m \notin Arrived[v]
          /\ \A n \in Given : n.from = u => n.nr <= m.nr
    <3>1. CASE SendOnline(u)
      BY <3>1, SendsOnline, Zenon
    <3>2. CASE BroadcastPublicMessage(u)
      BY <3>2, Broadcasts, Zenon
    <3> QED
      BY <1>4, <3>1, <3>2
  <2>2. PICK m \in Messages : \E receivers :
          /\ Transmit(m, receivers, FALSE) /\ m.from = u
          /\ \A v \in Users : m \notin Arrived[v]
          /\ \A n \in Given : n.from = u => n.nr <= m.nr
    BY <2>1
  <2>3. PICK receivers : Transmit(m, receivers, FALSE)
    BY <2>2
  <2>4. \A v \in Users : \A n \in Arrived[v] : n.from = m.from => n.nr <= m.nr
    BY <1>1, <2>2 DEF PlaceInv
  <2>5. \A v \in Users : m \notin Arrived[v]
    BY <2>2
  <2> QED
    BY <1>1, <2>3, <2>4, <2>5, TransmittedInOrder
<1> QED
  BY <1>2, <1>3, <1>4, NextIs DEF Quiet, Erase, NotOnline, QueueOfflineMessage, SaveToHistory,
     Receive, Crash, vars, past

-----------------------------------------------------------------------------
\* The record keeps one line for each message that was written: the message that was just
\* sent and whose id finds a line is the line's own or another one, and of this run.
LEMMA NextRecordInv ==
  ASSUME IInv, [Next]_vars, TypeOK'
  PROVE  RecordInv'
<1> DEFINE R == Record
           Sums ==
             /\ IsFiniteSet(written) /\ written \subseteq Given /\ erased \subseteq written
             /\ Len(R) = Cardinality(written \ erased)
             /\ {R[i].msg : i \in DOMAIN R} = written \ erased
           Tells ==
             \A i \in DOMAIN R : /\ R[i].id = given[R[i].msg].id
                                 /\ R[i].delivered /\ R[i].msg \in Private =>
                                       R[i].msg \in SentOnes \cup IdTaken
<1>1. TypeOK /\ IdsInv /\ LockInv /\ HandsInv /\ PlaceInv /\ SentOnes \subseteq SentOnes'
  BY SentStays DEF IInv
<1>2. Sums /\ Tells
  BY DEF IInv, RecordInv
<1>3. SUFFICES Sums' /\ Tells'
  BY DEF RecordInv
<1>4. R \in Seq(Lines) /\ Len(R) \in Nat /\ DOMAIN R = 1 .. Len(R) /\ \A i \in DOMAIN R : R[i] \in Lines
  <2>1. R \in Seq(Lines)
    BY <1>1 DEF Record, TypeOK
  <2> QED
    BY <2>1, LenProperties
<1>5. SentOnes \subseteq Given /\ Given \subseteq Messages
  BY <1>1 DEF PlaceInv, Given
<1>6. \A i \in DOMAIN R : R[i].msg \in written
  BY <1>2
<1> HIDE DEF R
<1>7. ASSUME UNCHANGED <<given, written, erased>>
      PROVE  Given' = Given /\ IdTaken \subseteq IdTaken'
  BY <1>1, <1>7, GivenSame DEF IdTaken, Found
<1>8. CASE UNCHANGED <<given, written, erased>> /\ R' = R
  BY <1>1, <1>2, <1>7, <1>8
<1>9. CASE UNCHANGED <<given, written, erased, history, historyLock, fileContent>>
  BY <1>8, <1>9, RecordSame DEF R
<1>10. CASE Crash
  <2>1. /\ given' = given /\ written' = written /\ history' = history
        /\ erased' = erased \cup {fileContent[i].msg : i \in DOMAIN fileContent}
        /\ historyLock' = Nobody
    BY <1>10 DEF Crash
  <2>2. R' = history
    BY <2>1 DEF R, Record
  <2>3. CASE historyLock = Nobody
    <3>1. R = history /\ fileContent = <<>>
      BY <1>1, <2>3 DEF R, Record, LockInv
    <3>2. erased' = erased
      BY <2>1, <3>1
    <3> QED
      BY <1>8, <2>1, <2>2, <3>1, <3>2
  <2>4. CASE historyLock # Nobody
    <3>1. R = fileContent /\ history = <<>>
      BY <1>1, <2>4 DEF R, Record, LockInv
    <3>2. erased' = written
      <4>1. {R[i].msg : i \in DOMAIN R} = written \ erased /\ erased \subseteq written
        BY <1>2
      <4>2. erased' = erased \cup {R[i].msg : i \in DOMAIN R}
        BY <2>1, <3>1
      <4> QED
        BY <4>1, <4>2
    <3>3. R' = <<>> /\ Len(R') = 0 /\ DOMAIN R' = {}
      BY <2>2, <3>1
    <3>4. Cardinality(written' \ erased') = 0
      BY <2>1, <3>2, FS_EmptySet
    <3>5. Given' = Given
      BY <2>1, GivenSame
    <3> QED
      BY <1>2, <2>1, <3>2, <3>3, <3>4, <3>5
  <2> QED
    BY <2>3, <2>4
<1>11. ASSUME NEW w \in Users, OpenForRewrite(w)
       PROVE  Sums' /\ Tells'
  <2> DEFINE e == pendingMessages[cursor[w]]
             marked == ToMark(e.id)
  <2>1. pc[w] = "update" /\ historyLock = Nobody /\ UNCHANGED <<given, written, erased, inbox, missed>>
    BY <1>11 DEF OpenForRewrite, past
  <2>2. R = history
    BY <2>1 DEF R, Record
  <2>3. CASE marked = {}
    BY <1>9, <1>11, <2>1, <2>3 DEF OpenForRewrite
  <2>4. CASE marked # {}
    <3>1. /\ historyLock' = w
          /\ fileContent' = [i \in DOMAIN history |->
                               [history[i] EXCEPT !.delivered = @ \/ i \in marked]]
      BY <1>11, <2>4 DEF OpenForRewrite
    <3>2. R' = fileContent'
      BY <3>1, AboutMessages DEF R, Record
    <3>3. marked \subseteq {i \in DOMAIN history : NumeralPrefix(e.id, history[i].id)}
      BY DEF ToMark
    <3>4. /\ cursor[w] \in DOMAIN pendingMessages
          /\ e.msg \in SentOnes /\ e.id = given[e.msg].id /\ given[e.msg].run = crashes
      <4>1. cursor[w] \in DOMAIN pendingMessages /\ e.msg \in SentOnes
        BY <1>1, <2>1 DEF LockInv, Delivering
      <4>2. e.msg \in Stored
        BY <4>1 DEF Stored
      <4> QED
        BY <1>1, <4>1, <4>2 DEF PlaceInv
    <3> HIDE DEF marked, e
    <3>5. /\ DOMAIN R' = DOMAIN R /\ Len(R') = Len(R)
          /\ \A i \in DOMAIN R : /\ R'[i].msg = R[i].msg /\ R'[i].id = R[i].id
                                 /\ R'[i].delivered => R[i].delivered \/ i \in marked
      <4>1. /\ DOMAIN fileContent' = DOMAIN history /\ Len(fileContent') = Len(history)
            /\ \A i \in DOMAIN history :
                  /\ fileContent'[i].msg = history[i].msg /\ fileContent'[i].id = history[i].id
                  /\ fileContent'[i].delivered => history[i].delivered \/ i \in marked
        BY <1>1, <3>1, MarkedLines
      <4> QED
        BY <2>2, <3>2, <4>1
    <3>6. Given' = Given /\ SentOnes' = SentOnes /\ IdTaken \subseteq IdTaken'
      BY <1>7, <2>1, InboxSame
    <3>7. ASSUME NEW i \in DOMAIN R, i \in marked
          PROVE  R[i].msg \in SentOnes \cup IdTaken
      <4> DEFINE x == R[i].msg
                 y == e.msg
      <4>1. x \in Given /\ y \in Given /\ y \in SentOnes
        BY <1>2, <1>5, <1>6, <3>4
      <4>2. NumeralPrefix(given[y].id, given[x].id) /\ given[y].run = crashes
        BY <1>2, <2>2, <3>3, <3>4, <3>7
      <4> HIDE DEF x, y
      <4>3. CASE x = y
        BY <4>1, <4>3 DEF x
      <4>4. CASE x # y
        <5>1. given[x] # given[y]
          BY <1>1, <4>1, <4>4 DEF IdsInv
        <5>2. given[x].run <= crashes /\ given[x].run \in Nat /\ crashes \in Nat
          BY <1>1, <1>5, <4>1, Numbers DEF IdsInv
        <5>3. Found(x, y)
          BY <4>2, <5>1, <5>2 DEF Found
        <5> QED
          BY <4>1, <5>3 DEF IdTaken, x
      <4> QED
        BY <4>3, <4>4
    <3>8. Tells'
      BY <1>2, <2>1, <3>5, <3>6, <3>7
    <3>9. {R'[i].msg : i \in DOMAIN R'} = {R[i].msg : i \in DOMAIN R}
      BY <3>5
    <3> QED
      BY <1>2, <2>1, <3>5, <3>6, <3>8, <3>9
  <2> QED
    BY <2>3, <2>4
<1>12. ASSUME NEW w \in Users, Rewrite(w)
       PROVE  Sums' /\ Tells'
  <2>1. /\ historyLock = w /\ historyLock' = Nobody /\ history' = fileContent
        /\ UNCHANGED <<given, written, erased>>
    BY <1>1, <1>12 DEF Rewrite, LockInv, past
  <2>2. R' = R
    BY <2>1, AboutMessages DEF R, Record
  <2> QED
    BY <1>8, <2>1, <2>2
<1>13. ASSUME NEW w \in Users, SaveToHistory(w)
       PROVE  Sums' /\ Tells'
  <2> DEFINE m == message[w]
             e == [id |-> given[m].id, msg |-> m, delivered |-> pc[w] # "save offline"]
             k == Len(R)
  <2>1. /\ pc[w] \in {"save online", "save offline", "save public"}
        /\ written' = written \cup {m} /\ UNCHANGED <<given, inbox, missed, erased>>
    BY <1>1, <1>13, Saved
  <2>2. historyLock = Nobody /\ historyLock' = Nobody /\ history' = Append(history, e)
    BY <1>13 DEF SaveToHistory, HistoryFree
  <2>3. R' = Append(R, e)
    BY <2>2 DEF R, Record
  <2>4. /\ m \in Given /\ m \notin written
        /\ pc[w] = "save online" => m \in SentOnes
        /\ pc[w] = "save public" => m.to = Everyone
    BY <1>1, <2>1 DEF HandsInv, Handling
  <2>5. R' \in Seq(Lines)
    BY <2>2 DEF R, Record, TypeOK
  <2>6. e.id = given[m].id /\ e.msg = m /\ (e.delivered => pc[w] # "save offline")
    OBVIOUS
  <2>7. e \in Lines
    <3>1. given[m].id \in Ids /\ m \in Messages
      <4>1. given[m].id >= 1 /\ m \in Messages
        BY <1>1, <1>5, <2>4 DEF IdsInv
      <4>2. given \in [Messages -> [id : Ids \cup {0}, run : 0 .. MaxCrashes]]
        BY <1>1 DEF TypeOK
      <4>3. given[m].id \in Ids \cup {0}
        BY <4>1, <4>2
      <4> QED
        BY <4>1, <4>3
    <3> QED
      BY <3>1 DEF Lines
  <2> HIDE DEF e, m
  <2>8. Len(R') = k + 1 /\ R'[k + 1] = e /\ \A i \in 1 .. k : R'[i] = R[i]
    BY <1>4, <2>3, <2>7, AppendProperties
  <2>9. DOMAIN R' = 1 .. k + 1
    BY <2>5, <2>8, LenProperties
  <2> HIDE DEF k
  <2>10. k \in Nat /\ DOMAIN R = 1 .. k /\ k = Cardinality(written \ erased)
    BY <1>2, <1>4 DEF k
  <2>11. 1 .. k + 1 = (1 .. k) \cup {k + 1}
    BY <2>10
  <2>12. {R'[i].msg : i \in DOMAIN R'} = (written \ erased) \cup {m}
    <3>1. {R'[i].msg : i \in DOMAIN R'} = {R[i].msg : i \in DOMAIN R} \cup {m}
      <4>1. \A i \in 1 .. k : i \in 1 .. k + 1 /\ R'[i].msg = R[i].msg
        BY <2>8, <2>11
      <4>2. k + 1 \in 1 .. k + 1 /\ R'[k + 1].msg = m
        BY <2>6, <2>8, <2>11
      <4>3. \A i \in 1 .. k + 1 : i \in 1 .. k \/ i = k + 1
        BY <2>11
      <4> QED
        BY <2>9, <2>10, <4>1, <4>2, <4>3
    <3> QED
      BY <1>2, <3>1
  <2>13. written' \ erased' = (written \ erased) \cup {m} /\ m \notin written \ erased
    BY <1>2, <2>1, <2>4
  <2>14. IsFiniteSet(written') /\ Cardinality(written' \ erased') = k + 1
    <3>1. IsFiniteSet(written \ erased) /\ IsFiniteSet(written')
      BY <1>2, <2>1, FS_Subset, FS_AddElement
    <3> QED
      BY <2>10, <2>13, <3>1, OneMoreOrLess
  <2>15. Given' = Given /\ SentOnes' = SentOnes /\ IdTaken' = IdTaken
    BY <2>1, GivenSame, InboxSame DEF IdTaken, Found
  <2>16. Sums'
    BY <1>2, <2>1, <2>4, <2>8, <2>12, <2>13, <2>14, <2>15
  <2>17. e.delivered /\ m \in Private => m \in SentOnes
    BY <2>1, <2>4, <2>6, AboutMessages
  <2>18. Tells'
    <3> SUFFICES ASSUME NEW i \in DOMAIN R'
                 PROVE  /\ R'[i].id = given[R'[i].msg].id
                        /\ R'[i].delivered /\ R'[i].msg \in Private =>
                              R'[i].msg \in SentOnes \cup IdTaken
      BY <2>1, <2>15
    <3>1. CASE i \in 1 .. k
      BY <1>2, <2>8, <2>10, <3>1
    <3>2. CASE i = k + 1
      BY <2>6, <2>8, <2>17, <3>2
    <3> QED
      BY <2>9, <2>11, <3>1, <3>2
  <2> QED
    BY <2>16, <2>18
<1>14. ASSUME NEW w \in Users, NEW m \in Messages, Receive(w, m)
       PROVE  Sums' /\ Tells'
  <2>1. /\ m \notin Given /\ Given' = Given \cup {m}
        /\ \A n \in Messages \ {m} : given'[n] = given[n]
        /\ UNCHANGED <<inbox, missed, written, erased>>
    BY <1>1, <1>14, Received
  <2>2. R' = R
    BY <1>14, RecordSame DEF Receive, R
  <2>3. \A n \in Given : given'[n] = given[n]
    BY <1>5, <2>1
  <2>4. IdTaken \subseteq IdTaken'
    BY <1>1, <1>5, <2>1, <2>3 DEF IdTaken, Found
  <2>5. \A i \in DOMAIN R : R[i].msg \in Given
    BY <1>2, <1>6
  <2> QED
    BY <1>1, <1>2, <2>1, <2>2, <2>3, <2>4, <2>5
<1>15. Next => \/ Crash
               \/ \E w \in Users : OpenForRewrite(w) \/ Rewrite(w) \/ SaveToHistory(w)
               \/ \E w \in Users : \E m \in Messages : Receive(w, m)
               \/ UNCHANGED <<given, written, erased, history, historyLock, fileContent>>
  BY DEF Next, Step, Connect, HandshakeFails, RegisterUser, ClientGone, UnregisterUser, BeginScan,
     ScanMessage, EndScan, SendPrivateMessageOnline, QueueOfflineMessage, BroadcastPublicMessage,
     server, past
<1>16. CASE UNCHANGED vars
  BY <1>9, <1>16 DEF vars, server, past
<1> QED
  BY <1>9, <1>10, <1>11, <1>12, <1>13, <1>14, <1>15, <1>16


-----------------------------------------------------------------------------
\* The first start of the server.
LEMMA InitIInv ==
  ASSUME Init
  PROVE  IInv
<1>1. /\ pendingMessages = <<>> /\ history = <<>> /\ fileContent = <<>>
      /\ storageLock = Nobody /\ historyLock = Nobody
      /\ pc = [u \in Users |-> "out"] /\ message = [u \in Users |-> NoMessage]
      /\ cursor = [u \in Users |-> 1] /\ activeUsers = {} /\ present = {}
      /\ nextMessageId = 1 /\ crashes = 0
      /\ given = [m \in Messages |-> NotGiven] /\ inbox = [u \in Users |-> <<>>]
      /\ missed = {} /\ confirmed = {} /\ written = {} /\ erased = {}
  BY DEF Init, Started
<1>2. Given = {} /\ Stored = {} /\ DOMAIN pendingMessages = {} /\ DOMAIN history = {}
  BY <1>1 DEF Given, Stored
<1>3. \A u \in Users : DOMAIN inbox[u] = {} /\ Arrived[u] = {}
  BY <1>1 DEF Arrived
<1>4. SentOnes = {}
  BY <1>1, <1>3, AboutMessages DEF SentOnes
<1>5. TypeOK
  <2>1. /\ <<>> \in Seq(Entries) /\ <<>> \in Seq(Lines)
        /\ <<>> \in Seq([msg : Messages, offline : BOOLEAN])
    BY EmptySeq
  <2>2. NotGiven \in [id : Ids \cup {0}, run : 0 .. MaxCrashes] /\ 0 \in 0 .. MaxCrashes
    BY AboutMessages DEF NotGiven
  <2>3. cursor \in [Users -> Nat \ {0}]
    BY <1>1, OneIsPositive, Zenon
  <2> QED
    BY <1>1, <2>1, <2>2, <2>3 DEF TypeOK
<1>6. IdsInv
  BY <1>2 DEF IdsInv
<1>7. LockInv
  BY <1>1, AboutMessages DEF LockInv, Scanning, Delivering
<1>8. HandsInv
  BY <1>1 DEF HandsInv, Handling
<1>9. PlaceInv
  BY <1>1, <1>2, <1>3, <1>4 DEF PlaceInv
<1>10. RecordInv
  <2>1. Record = <<>> /\ Len(Record) = 0 /\ DOMAIN Record = {}
    BY <1>1 DEF Record
  <2>2. IsFiniteSet({}) /\ Cardinality({}) = 0 /\ written \ erased = {}
    BY <1>1, FS_EmptySet
  <2> QED
    BY <1>1, <2>1, <2>2 DEF RecordInv
<1>11. StoredIsKept /\ MessagesOnceInOrder
  BY <1>1, <1>3 DEF StoredIsKept, MessagesOnceInOrder, AtMostOnce, OrderKeptUnlessStored
<1> QED
  BY <1>5, <1>6, <1>7, <1>8, <1>9, <1>10, <1>11 DEF IInv

\* The invariant holds of every execution of the server and its clients.
THEOREM Invariance == Spec => []IInv
<1>1. Init => IInv
  BY InitIInv
<1>2. IInv /\ [Next]_vars => IInv'
  <2> SUFFICES ASSUME IInv, [Next]_vars
               PROVE  IInv'
    OBVIOUS
  <2>1. TypeOK'
    BY NextTypeOK
  <2>2. IdsInv' /\ LockInv' /\ HandsInv' /\ PlaceInv'
    BY <2>1, NextIdsInv, NextLockInv, NextHandsInv, NextPlaceInv
  <2>3. StoredIsKept' /\ MessagesOnceInOrder' /\ RecordInv'
    BY <2>1, <2>2, NextStoredIsKept, NextMessagesOnceInOrder, NextRecordInv
  <2> QED
    BY <2>1, <2>2, <2>3 DEF IInv
<1> QED
  BY <1>1, <1>2, PTL DEF Spec

\* Every variable keeps its type.
THEOREM TypeCorrect == Spec => []TypeOK
<1>1. IInv => TypeOK
  BY DEF IInv
<1> QED
  BY <1>1, Invariance, PTL

\* A message whose sender was told that it is stored is in the storage until it was sent,
\* as long as the server runs, whoever logs in or stores messages at the same time.
THEOREM StoredIsKeptAlways == Spec => []StoredIsKept
<1>1. IInv => StoredIsKept
  BY DEF IInv
<1> QED
  BY <1>1, Invariance, PTL

\* No message reaches a client twice, and only a marked one comes after a later one of the
\* same sender, however often the server ends.
THEOREM OnceInOrderAlways == Spec => []MessagesOnceInOrder
<1>1. IInv => MessagesOnceInOrder
  BY DEF IInv
<1> QED
  BY <1>1, Invariance, PTL

\* history.json has a line for each message written but those lost with the server in the
\* middle of a rewriting, and a line marks as delivered what was not sent only if another
\* message was, in the same or a later run, the search for whose id finds this line.
THEOREM HistoryIsTrueAlways == Spec => []HistoryIsTrue
<1>1. IInv => HistoryIsTrue
  <2> SUFFICES ASSUME IInv
               PROVE  HistoryIsTrue
    OBVIOUS
  <2>1. LockInv /\ PlaceInv /\ RecordInv
    BY DEF IInv
  <2>2. SentOnes \subseteq Private /\ \A m \in SentOnes : Sent(m)
    BY SentIs DEF SentOnes
  <2>3. CASE historyLock = Nobody
    <3>1. Record = history
      BY <2>3 DEF Record
    <3>2. HistoryKept
      <4>1. /\ Len(Record) = Cardinality(written \ erased)
            /\ {Record[i].msg : i \in DOMAIN Record} = written \ erased
        BY <2>1 DEF RecordInv
      <4> QED
        BY <3>1, <4>1 DEF HistoryKept
    <3>3. \A m \in IdTaken : \E n \in Private : Sent(n) /\ Found(m, n)
      BY <2>2 DEF IdTaken
    <3>4. \A i \in DOMAIN history : /\ history[i].id = given[history[i].msg].id
                                    /\ history[i].delivered /\ history[i].msg \in Private =>
                                          history[i].msg \in SentOnes \cup IdTaken
      BY <2>1, <3>1 DEF RecordInv
    <3>5. DeliveredWasSent
      <4> SUFFICES ASSUME NEW i \in DOMAIN history,
                          history[i].delivered, history[i].msg \in Private
                   PROVE  \/ Sent(history[i].msg)
                          \/ \E n \in Private :
                               /\ Sent(n) /\ given[n] # given[history[i].msg]
                               /\ given[n].run >= given[history[i].msg].run
                               /\ NumeralPrefix(given[n].id, history[i].id)
        BY DEF DeliveredWasSent
      <4>1. CASE history[i].msg \in SentOnes
        BY <2>2, <4>1
      <4>2. CASE history[i].msg \in IdTaken
        <5>1. PICK n \in Private : Sent(n) /\ Found(history[i].msg, n)
          BY <3>3, <4>2
        <5> QED
          BY <3>4, <5>1 DEF Found
      <4> QED
        BY <3>4, <4>1, <4>2
    <3> QED
      BY <3>2, <3>5 DEF HistoryIsTrue
  <2>4. CASE historyLock # Nobody
    <3>1. history = <<>> /\ DOMAIN history = {}
      BY <2>1, <2>4 DEF LockInv
    <3> QED
      BY <2>4, <3>1 DEF HistoryIsTrue, HistoryKept, DeliveredWasSent
  <2> QED
    BY <2>3, <2>4
<1> QED
  BY <1>1, Invariance, PTL
==============================================================================
