--------------------------- MODULE EarlierLabsProofs ---------------------------
(***************************************************************************)
(* Proofs about the chats of lab4 (Lab4Chat, in this module's own names),  *)
(* for every number of sockets and nicknames and every size of the         *)
(* clients' buffers, and of lab2 (Lab2Session, as Lab2!...), for every     *)
(* number of users and requests.  They are two programs; a variable has a  *)
(* meaning in both only because no theorem is about both.                  *)
(*                                                                         *)
(* The invariant of Lab4Chat adds to the checked properties what a thread  *)
(* sends at each of its stages, when it holds mutexClients, which          *)
(* nicknames have passed the check, what the first message of a login is,  *)
(* and who sends the rest of a message that is half sent.  That of         *)
(* Lab2Session adds what the two programs and the connection know of each  *)
(* other, that a BYE comes only from a user who quits, and how many        *)
(* answers each client has to expect.                                      *)
(***************************************************************************)
EXTENDS Lab4Chat, DataLemmas

CONSTANTS Users, MaxRequests
VARIABLES main, receiver, running, line, up, server, inbox, closed, reset, owed, owedAtEnd,
          requests, killed

Lab2 == INSTANCE Lab2Session WITH thread <- server

\* The parts of messages in the buffers.
Part == [from : Socks, type : Types, part : 1 .. 2]

\* The entries of the vector clients.
Entry == [sock : Socks, nick : Nicks]

\* What is sent of a message as its part k.
PartOf(s, k) == [from |-> s, type |-> sending[s].type, part |-> k]

-----------------------------------------------------------------------------
\* The number of a buffer's parts.
LEMMA BufferLength ==
  ASSUME TypeOK, NEW s \in Socks
  PROVE  /\ buffer[s] \in Seq(Part) /\ Len(buffer[s]) \in Nat /\ Len(buffer[s]) <= Room
         /\ Room \in Nat /\ Room > 1 /\ DOMAIN buffer[s] = 1 .. Len(buffer[s])
         /\ (buffer[s] = <<>> <=> Len(buffer[s]) = 0)
         /\ \A i \in 1 .. Len(buffer[s]) : buffer[s][i] \in Part
<1>1. buffer[s] \in Seq(Part) /\ Len(buffer[s]) <= Room
  BY DEF TypeOK, Part
<1> QED
  BY <1>1, EmptySeq, LenProperties, ElementOfSeq, ServerAssumption

\* sendAll: parts of the message are added, or the client is gone.
LEMMA SendAllIs ==
  ASSUME TypeOK, NEW s \in Socks, NEW c \in Socks, NEW through \in BOOLEAN, SendAll(s, c, through)
  PROVE  /\ buffer' \in [Socks -> Seq(Part)]
         /\ \A d \in Socks : d # c => buffer'[d] = buffer[d]
         /\ \A i \in 1 .. Len(buffer[c]) : buffer'[c][i] = buffer[c][i]
         /\ Gone(c) => buffer' = buffer /\ through /\ overtaken' = overtaken
         /\ ~Gone(c) =>
              /\ \E n \in 1 .. 2 :
                   /\ Len(buffer'[c]) = Len(buffer[c]) + n /\ Len(buffer'[c]) <= Room
                   /\ n + sending[s].parts <= 2 /\ (through <=> n + sending[s].parts = 2)
                   /\ n = 1 \/ Room - Len(buffer[c]) >= 2
                   /\ n = 2 \/ sending[s].parts = 1 \/ Room - Len(buffer[c]) = 1
                   /\ \A i \in 1 .. n :
                        buffer'[c][Len(buffer[c]) + i] = PartOf(s, sending[s].parts + i)
              /\ overtaken' = IF s # c /\ pc[c] = "welcome" THEN overtaken \cup {c} ELSE overtaken
<1> DEFINE parts == sending[s].parts
           left == 2 - parts
           fit  == IF Gone(c) THEN 0 ELSE Room - Len(buffer[c])
           n    == IF left <= fit THEN left ELSE fit
           more == [i \in 1 .. n |-> PartOf(s, parts + i)]
<1>1. /\ Gone(c) \/ fit > 0
      /\ through = (Gone(c) \/ n = left)
      /\ buffer' = [buffer EXCEPT ![c] = buffer[c] \o more]
      /\ overtaken' = IF s # c /\ n > 0 /\ pc[c] = "welcome" THEN overtaken \cup {c} ELSE overtaken
  BY DEF SendAll, PartOf
<1>2. parts \in 0 .. 1 /\ sending[s].type \in Types /\ left \in 1 .. 2
  BY DEF TypeOK
<1>3. /\ buffer[c] \in Seq(Part) /\ Len(buffer[c]) \in Nat /\ Len(buffer[c]) <= Room
      /\ Room \in Nat /\ Room > 1
  BY BufferLength
<1>4. /\ fit \in Nat /\ n \in 0 .. 2 /\ n <= left /\ n <= fit
      /\ (Gone(c) => n = 0) /\ (~Gone(c) => n \in 1 .. 2)
  BY <1>1, <1>2, <1>3
<1>5. \A i \in 1 .. n : PartOf(s, parts + i) \in Part
  BY <1>2, <1>4 DEF PartOf, Part
<1>6. more \in Seq(Part) /\ Len(more) = n /\ \A i \in 1 .. n : more[i] = PartOf(s, parts + i)
  <2> HIDE DEF n, parts
  <2> QED
    BY <1>4, <1>5
<1>7. /\ buffer[c] \o more \in Seq(Part)
      /\ Len(buffer[c] \o more) = Len(buffer[c]) + n
      /\ \A i \in 1 .. Len(buffer[c]) : (buffer[c] \o more)[i] = buffer[c][i]
      /\ \A i \in 1 .. n : (buffer[c] \o more)[Len(buffer[c]) + i] = more[i]
  <2> HIDE DEF more, n
  <2> QED
    BY <1>3, <1>4, <1>6, ConcatProperties
<1>8. /\ buffer' \in [Socks -> Seq(Part)] /\ buffer'[c] = buffer[c] \o more
      /\ \A d \in Socks : d # c => buffer'[d] = buffer[d]
  <2>1. buffer \in [Socks -> Seq(Part)]
    BY DEF TypeOK, Part
  <2> HIDE DEF more
  <2> QED
    BY <1>1, <1>7, <2>1
<1>9. Gone(c) => buffer' = buffer /\ through /\ overtaken' = overtaken
  <2> SUFFICES ASSUME Gone(c) PROVE buffer' = buffer /\ through /\ overtaken' = overtaken
    OBVIOUS
  <2>1. n = 0
    BY <1>4
  <2>2. more = <<>>
    <3> HIDE DEF more, n
    <3> QED
      BY <1>6, <2>1, EmptySeq
  <2>3. buffer[c] \o more = buffer[c]
    BY <1>3, <2>2, ConcatEmptySeq
  <2>4. buffer' = buffer
    <3>1. buffer \in [Socks -> Seq(Part)]
      BY DEF TypeOK, Part
    <3> HIDE DEF more
    <3> QED
      BY <1>1, <2>3, <3>1
  <2>5. ~(n > 0)
    BY <2>1
  <2>6. through
    BY <1>1
  <2> HIDE DEF n
  <2>7. overtaken' = overtaken
    BY <1>1, <2>5
  <2> QED
    BY <2>4, <2>6, <2>7
<1>10. ASSUME ~Gone(c)
       PROVE  /\ Len(buffer'[c]) = Len(buffer[c]) + n /\ Len(buffer'[c]) <= Room
              /\ n + parts <= 2 /\ (through <=> n + parts = 2)
              /\ n = 1 \/ Room - Len(buffer[c]) >= 2
              /\ n = 2 \/ parts = 1 \/ Room - Len(buffer[c]) = 1
              /\ n > 0 /\ n \in 1 .. 2
  <2>1. Len(buffer'[c]) = Len(buffer[c]) + n
    BY <1>7, <1>8
  <2>2. fit = Room - Len(buffer[c]) /\ through = (n = left)
    BY <1>1, <1>10
  <2>3. fit \in Nat /\ fit > 0 /\ left = 2 - parts /\ n = IF left <= fit THEN left ELSE fit
    BY <1>1, <1>4, <1>10
  <2>4. n \in 1 .. 2 /\ n <= left /\ n <= fit /\ through = (n = left)
    BY <1>4, <1>10, <2>2
  <2> HIDE DEF n, fit, left, parts
  <2>5. parts \in 0 .. 1
    BY <1>2
  <2>6. n + parts <= 2 /\ (through <=> n + parts = 2)
    <3>1. n + parts <= 2 /\ (n = left <=> n + parts = 2)
      BY <2>3, <2>4, <2>5
    <3> QED
      BY <2>4, <3>1, Zenon
  <2>7. Len(buffer'[c]) <= Room
    BY <1>3, <2>1, <2>2, <2>3, <2>4
  <2>8. n = 1 \/ Room - Len(buffer[c]) >= 2
    BY <1>3, <2>2, <2>3, <2>4
  <2>9. n = 2 \/ parts = 1 \/ Room - Len(buffer[c]) = 1
    <3>1. CASE left <= fit
      BY <2>3, <2>4, <2>5, <3>1
    <3>2. CASE ~(left <= fit)
      BY <2>2, <2>3, <2>4, <2>5, <3>2
    <3> QED
      BY <3>1, <3>2
  <2> QED
    BY <2>1, <2>4, <2>6, <2>7, <2>8, <2>9
<1>11. \A i \in 1 .. n : buffer'[c][Len(buffer[c]) + i] = PartOf(s, parts + i)
  BY <1>6, <1>7, <1>8
<1>12. \A i \in 1 .. Len(buffer[c]) : buffer'[c][i] = buffer[c][i]
  BY <1>7, <1>8
<1> HIDE DEF n, more, fit, left
<1>13. ~Gone(c) => overtaken' = IF s # c /\ pc[c] = "welcome" THEN overtaken \cup {c} ELSE overtaken
  BY <1>1, <1>10
<1> QED
  BY <1>8, <1>9, <1>10, <1>11, <1>12, <1>13

\* Where the next is sent: to a position of the vector, or behind it.
LEMMA NextIs ==
  ASSUME TypeOK, NEW s \in Socks, NEW i \in Nat
  PROVE  NextReceiver(s, i) \in Nat
<1>1. Len(clients) \in Nat /\ DOMAIN clients = 1 .. Len(clients)
  BY LenProperties DEF TypeOK
<1>2. Receivers(s) \subseteq Nat
  BY <1>1 DEF Receivers
<1> DEFINE later == {j \in Receivers(s) : j > i}
<1>3. CASE \E j \in Receivers(s) : j > i
  <2>1. later \in SUBSET Nat /\ later # {}
    BY <1>2, <1>3
  <2>2. \E j \in later : \A k \in later : j <= k
    <3> HIDE DEF later
    <3> QED
      BY <2>1, LeastExists
  <2>3. \E j \in Receivers(s) : j > i /\ \A k \in Receivers(s) : k > i => j <= k
    BY <2>2
  <2>4. NextReceiver(s, i) \in Receivers(s)
    BY <1>3, <2>3 DEF NextReceiver
  <2> QED
    BY <1>2, <2>4
<1>4. CASE ~ \E j \in Receivers(s) : j > i
  BY <1>1, <1>4 DEF NextReceiver
<1> QED
  BY <1>3, <1>4

-----------------------------------------------------------------------------
\* Threads whose client is in the vector.
Registered == {"welcome", "announce", "loop", "text", "private", "reply"}

\* What belongs to each stage of a thread.
StageInv ==
  \A s \in Socks :
    /\ pc[s] = "closed" <=> nick[s] = Nobody
    /\ pc[s] \in {"announce", "goodbye"} => sending[s].type = "INFO"
    /\ pc[s] = "text" => sending[s].type = "TEXT"
    /\ pc[s] = "private" => sending[s].type = "PRIVATE"
    /\ pc[s] \in {"welcome", "refuse", "reply"} => sending[s].type \in Direct
    /\ pc[s] \notin Announcing => target[s] = 0
    /\ target[s] # 0 => mutexClients = s
    /\ client[s] = "none" => buffer[s] = <<>>

\* The vector and the threads.
EntryInv ==
  /\ \A i \in DOMAIN clients : /\ pc[clients[i].sock] \in Registered
                               /\ clients[i].nick = nick[clients[i].sock]
  /\ \A i, j \in DOMAIN clients : clients[i].sock = clients[j].sock => i = j
  /\ \A s \in Socks : pc[s] \in Registered => \E i \in DOMAIN clients : clients[i].sock = s

\* Threads whose nicknames passed the check.
NickInv ==
  \A s, t \in Socks :
    pc[s] \in Registered \cup {"checked"} /\ pc[t] \in Registered \cup {"checked"}
    /\ s # t /\ nick[s] = nick[t] => {s, t} \in rivals

\* The first a client gets, if it was not refused and nobody overtook the WELCOME.
LoginInv ==
  \A s \in Socks :
    client[s] = "auth" /\ s \notin refused \cup overtaken =>
      IF pc[s] \in {"auth", "checked", "welcome"}
      THEN /\ buffer[s] = <<>>
           /\ pc[s] = "welcome" => sending[s].type = "WELCOME" /\ sending[s].parts = 0
      ELSE buffer[s] # <<>> /\ buffer[s][1].type = "WELCOME"

\* The last part in a buffer is p, the first of a message that is no reply.
HalfSent(s, p) ==
  buffer[s] # <<>> /\ p = buffer[s][Len(buffer[s])] /\ p.part = 1 /\ p.type \notin Direct

\* The thread of p is at that message.
AtIt(s, p) ==
  /\ mutexClients = p.from /\ pc[p.from] \in Announcing
  /\ target[p.from] \in DOMAIN clients /\ clients[target[p.from]].sock = s
  /\ sending[p.from].type = p.type /\ sending[p.from].parts = 1

\* A message that is half sent is being sent, by a thread that holds the mutex.
HalfInv == \A s \in Socks, p \in Part : HalfSent(s, p) => AtIt(s, p)

\* The invariant: the checked properties, and what they rest on.
Inv ==
  /\ TypeOK /\ StageInv /\ EntryInv /\ NickInv /\ LoginInv /\ HalfInv /\ OnlyRepliesInterleave
  /\ TurnedAwayWhy

\* A step of the thread s or of its client.
Step(s) == ThreadStep(s) \/ Connect(s) \/ Request(s) \/ ClientReads(s) \/ ClientLeaves(s)

\* It changes nothing that the other threads keep.
LEMMA OwnOnly ==
  ASSUME TypeOK, NEW s \in Socks, Step(s), NEW t \in Socks, t # s
  PROVE  /\ pc'[t] = pc[t] /\ nick'[t] = nick[t] /\ target'[t] = target[t]
         /\ sending'[t] = sending[t] /\ client'[t] = client[t]
<1>1. pc'[t] = pc[t]
  BY DEF TypeOK, Step, ThreadStep, CheckNick, PushBack, Reply, Lock, SendToNext, Unlock, Erase,
     Close, Connect, Request, ClientReads, ClientLeaves, Goto, thread
<1>2. nick'[t] = nick[t] /\ target'[t] = target[t]
  BY DEF TypeOK, Step, ThreadStep, CheckNick, PushBack, Reply, Lock, SendToNext, Unlock, Erase,
     Close, Connect, Request, ClientReads, ClientLeaves, thread
<1>3. sending'[t] = sending[t]
  BY DEF TypeOK, Step, ThreadStep, CheckNick, PushBack, Reply, Lock, SendToNext, Unlock, Erase,
     Close, Connect, Request, ClientReads, ClientLeaves, thread, Sends
<1>4. client'[t] = client[t]
  BY SMTT(20) DEF TypeOK, Step, ThreadStep, CheckNick, PushBack, Reply, Lock, SendToNext, Unlock,
     Erase, Close,
     Connect, Request, ClientReads, ClientLeaves, thread
<1> QED
  BY <1>1, <1>2, <1>3, <1>4

-----------------------------------------------------------------------------
(* The types *)

\* The stages of a thread that has nothing to send.
Idle == {"closed", "auth", "checked", "loop", "close"}

\* What a thread that goes on may change of the types.
LEMMA GoesOnTypes ==
  ASSUME TypeOK, NEW s \in Socks, NEW stage \in Stages, Goto(s, stage),
         sending' \in [Socks -> [type : Types, parts : 0 .. 1]],
         \A t \in Socks : t # s => sending'[t] = sending[t],
         sending'[s].type = "none" <=> stage \in Idle
  PROVE  /\ pc' \in [Socks -> Stages] /\ pc'[s] = stage
         /\ \A t \in Socks : sending'[t].type = "none" <=> pc'[t] \in Idle
<1>1. pc' \in [Socks -> Stages] /\ pc'[s] = stage /\ \A t \in Socks : t # s => pc'[t] = pc[t]
  BY DEF TypeOK, Goto
<1> QED
  BY <1>1 DEF TypeOK, Idle

\* The thread of s sends of another type, or other parts.
LEMMA SendsTypes ==
  ASSUME TypeOK, NEW s \in Socks, NEW type \in Types, NEW parts \in 0 .. 1,
         Sends(s, type, parts)
  PROVE  /\ sending' \in [Socks -> [type : Types, parts : 0 .. 1]]
         /\ \A t \in Socks : t # s => sending'[t] = sending[t]
         /\ sending'[s].type = type /\ sending'[s].parts = parts
BY DEF TypeOK, Sends

\* The variables a step may leave alone, and their types.
VectorTypes == clients \in Seq([sock : Socks, nick : Nicks]) /\ mutexClients \in Socks \cup {Nobody}

\* What the threads keep for themselves.
LocalTypes ==
  /\ nick \in [Socks -> Nicks \cup {Nobody}] /\ target \in [Socks -> Nat]
  /\ private \in [Socks -> Nicks \cup {Nobody}]

\* The clients, and what is on the way to them.
BufferTypes ==
  /\ buffer \in [Socks -> Seq(Part)] /\ \A s \in Socks : Len(buffer[s]) <= Room
  /\ client \in [Socks -> {"none", "auth", "in"}]

\* What happened before.
HistoryTypes == refused \cup overtaken \cup turnedAway \subseteq Socks /\ rivals \subseteq SUBSET Socks

\* The stages of the threads, and what they send.
SendingTypes ==
  /\ pc \in [Socks -> Stages] /\ sending \in [Socks -> [type : Types, parts : 0 .. 1]]
  /\ \A s \in Socks : sending[s].type = "none" <=> pc[s] \in Idle

\* The parts make up the whole, now
LEMMA TypesAre == TypeOK <=> VectorTypes /\ LocalTypes /\ BufferTypes /\ HistoryTypes /\ SendingTypes
BY DEF TypeOK, VectorTypes, LocalTypes, BufferTypes, HistoryTypes, SendingTypes, Idle, Part

\* and in the next state.
LEMMA TypesNext ==
  ASSUME VectorTypes', LocalTypes', BufferTypes', HistoryTypes', SendingTypes'
  PROVE  TypeOK'
BY DEF TypeOK, VectorTypes, LocalTypes, BufferTypes, HistoryTypes, SendingTypes, Idle, Part

\* A thread goes on and sets what it sends.
LEMMA GoesOn ==
  ASSUME TypeOK, NEW s \in Socks, NEW stage \in Stages, Goto(s, stage),
         NEW type \in Types, Sends(s, type, 0), type = "none" <=> stage \in Idle
  PROVE  SendingTypes' /\ sending'[s].type = type /\ sending'[s].parts = 0 /\ pc'[s] = stage
<1>1. /\ sending' \in [Socks -> [type : Types, parts : 0 .. 1]]
      /\ \A t \in Socks : t # s => sending'[t] = sending[t]
      /\ sending'[s].type = type /\ sending'[s].parts = 0
  BY SendsTypes
<1> QED
  BY <1>1, GoesOnTypes DEF SendingTypes

\* Stages and types are those named.
LEMMA StagesAre ==
  /\ Idle \subseteq Stages /\ Announcing \subseteq Stages /\ Registered \subseteq Stages
  /\ "checked" \in Stages /\ "refuse" \in Stages /\ "welcome" \in Stages /\ "reply" \in Stages
  /\ "goodbye" \in Stages /\ "auth" \in Stages /\ "closed" \in Stages /\ "close" \in Stages
  /\ {"none", "INFO", "TEXT", "PRIVATE", "WELCOME", "PONG", "ERROR"} = Types
BY DEF Idle, Stages, Announcing, Registered, Types, Locked, Direct

\* The stages that follow those of sending.
LEMMA AfterIs ==
  /\ After("welcome") = "announce" /\ After("refuse") = "close" /\ After("goodbye") = "close"
  /\ After("reply") = "loop" /\ After("announce") = "loop" /\ After("text") = "loop"
  /\ After("private") = "loop"
  /\ TypeAt("announce") = "INFO" /\ TypeAt("close") = "none" /\ TypeAt("loop") = "none"
BY DEF After, TypeAt

\* A client reads, or leaves.
LEMMA ClientTypes ==
  ASSUME TypeOK, NEW s \in Socks, ClientReads(s) \/ ClientLeaves(s)
  PROVE  TypeOK'
<1>1. VectorTypes /\ LocalTypes /\ BufferTypes /\ HistoryTypes /\ SendingTypes
  BY TypesAre
<1>2. UNCHANGED <<clients, mutexClients, thread, refused, overtaken, rivals>>
  BY DEF ClientReads, ClientLeaves, past
<1>3. VectorTypes' /\ LocalTypes' /\ SendingTypes'
  BY <1>1, <1>2 DEF VectorTypes, LocalTypes, SendingTypes, thread
<1>4. HistoryTypes'
  BY <1>1, <1>2 DEF ClientReads, ClientLeaves, past, HistoryTypes
<1>5. client' \in [Socks -> {"none", "auth", "in"}]
  BY <1>1 DEF ClientReads, ClientLeaves, BufferTypes
<1>6. PICK q \in Seq(Part) : buffer' = [buffer EXCEPT ![s] = q] /\ Len(q) <= Room
  <2>1. CASE buffer' = [buffer EXCEPT ![s] = <<>>]
    <3>1. <<>> \in Seq(Part) /\ Len(<<>>) <= Room
      BY ServerAssumption
    <3> QED
      BY <2>1, <3>1
  <2>2. CASE /\ buffer' = [buffer EXCEPT ![s] = SubSeq(@, 3, Len(@))]
             /\ Len(buffer[s]) > 1
    <3> DEFINE q == SubSeq(buffer[s], 3, Len(buffer[s]))
    <3>1. /\ buffer[s] \in Seq(Part) /\ Len(buffer[s]) \in Nat /\ Len(buffer[s]) <= Room
          /\ \A i \in 1 .. Len(buffer[s]) : buffer[s][i] \in Part /\ Room \in Nat
      BY BufferLength
    <3>2. q \in Seq(Part) /\ Len(q) = IF 3 <= Len(buffer[s]) THEN Len(buffer[s]) - 3 + 1 ELSE 0
      BY <3>1, SubSeqProperties
    <3>3. buffer' = [buffer EXCEPT ![s] = q] /\ Len(q) <= Room
      BY <2>2, <3>1, <3>2
    <3> QED
      BY <3>2, <3>3
  <2> QED
    BY <2>1, <2>2 DEF ClientReads, ClientLeaves
<1>7. BufferTypes'
  BY <1>1, <1>5, <1>6 DEF BufferTypes
<1> QED
  BY <1>3, <1>4, <1>7, TypesNext

\* The entries of the vector.
LEMMA EntryIs ==
  ASSUME TypeOK, NEW i \in DOMAIN clients
  PROVE  clients[i] \in Entry /\ clients[i].sock \in Socks /\ clients[i].nick \in Nicks
<1>1. clients \in Seq(Entry) /\ i \in 1 .. Len(clients)
  BY LenProperties DEF TypeOK, Entry
<1>2. clients[i] \in Entry
  BY <1>1, ElementOfSeq
<1> QED
  BY <1>2 DEF Entry

\* One entry is erased.
LEMMA ErasedIs ==
  ASSUME TypeOK, EntryInv, NEW s \in Socks, pc[s] \in Registered
  PROVE  \E m \in 1 .. Len(clients) : clients[m].sock = s /\ Erased(s) = RemoveAt(clients, m)
<1>1. clients \in Seq(Entry) /\ Len(clients) \in Nat /\ DOMAIN clients = 1 .. Len(clients)
  BY LenProperties DEF TypeOK, Entry
<1>2. PICK m \in 1 .. Len(clients) : clients[m].sock = s
  BY <1>1 DEF EntryInv
<1>3. {i \in DOMAIN clients : clients[i].sock # s} = DOMAIN clients \ {m}
  BY <1>1, <1>2 DEF EntryInv
<1>4. Erased(s) = KeptAt(clients, DOMAIN clients \ {m})
  BY <1>3 DEF Erased
<1>5. KeptAt(clients, DOMAIN clients \ {m}) = RemoveAt(clients, m)
  BY <1>1, KeptButOne
<1> QED
  BY <1>2, <1>4, <1>5

\* The types in the steps of a thread.
LEMMA ThreadTypes ==
  ASSUME TypeOK, StageInv, EntryInv, NEW s \in Socks, ThreadStep(s) \/ Connect(s) \/ Request(s)
  PROVE  TypeOK'
<1>1. VectorTypes /\ LocalTypes /\ BufferTypes /\ HistoryTypes /\ SendingTypes
  BY TypesAre
<1>2. CASE Connect(s)
  <2>1. VectorTypes' /\ HistoryTypes'
    BY <1>1, <1>2 DEF Connect, VectorTypes, HistoryTypes
  <2>2. LocalTypes'
    BY <1>1, <1>2 DEF Connect, LocalTypes
  <2>3. BufferTypes'
    <3>1. <<>> \in Seq(Part) /\ Len(<<>>) = 0 /\ Room \in Nat
      BY ServerAssumption
    <3> QED
      BY <1>1, <1>2, <3>1 DEF Connect, BufferTypes
  <2>4. SendingTypes'
    BY <1>1, <1>2, StagesAre DEF Connect, Goto, SendingTypes, Idle
  <2> QED
    BY <2>1, <2>2, <2>3, <2>4, TypesNext
<1>3. CASE CheckNick(s)
  <2>1. VectorTypes' /\ LocalTypes' /\ BufferTypes'
    BY <1>1, <1>3 DEF CheckNick, VectorTypes, LocalTypes, BufferTypes
  <2>2. CASE /\ Goto(s, "checked") /\ UNCHANGED <<sending, refused>>
             /\ rivals' = rivals \cup {{s, t} : t \in {t \in Socks \ {s} : pc[t] = "checked"}}
    <3>1. SendingTypes'
      BY <1>1, <1>3, <2>2, StagesAre DEF CheckNick, Goto, SendingTypes, Idle
    <3>2. HistoryTypes'
      BY <1>1, <1>3, <2>2 DEF CheckNick, HistoryTypes
    <3> QED
      BY <2>1, <3>1, <3>2, TypesNext
  <2>3. CASE /\ Goto(s, "refuse") /\ Sends(s, "ERROR", 0)
             /\ refused' = refused \cup {s} /\ UNCHANGED rivals
    <3>1. SendingTypes'
      BY <2>3, GoesOn, StagesAre DEF Idle
    <3>2. HistoryTypes'
      BY <1>1, <1>3, <2>3 DEF CheckNick, HistoryTypes
    <3> QED
      BY <2>1, <3>1, <3>2, TypesNext
  <2> QED
    BY <1>3, <2>2, <2>3 DEF CheckNick
<1>4. CASE PushBack(s)
  <2>1. LocalTypes' /\ BufferTypes' /\ HistoryTypes'
    BY <1>1, <1>4 DEF PushBack, past, LocalTypes, BufferTypes, HistoryTypes
  <2>2. VectorTypes'
    <3>1. nick[s] \in Nicks
      BY <1>1, <1>4 DEF PushBack, StageInv, LocalTypes
    <3>2. Append(clients, [sock |-> s, nick |-> nick[s]]) \in Seq([sock : Socks, nick : Nicks])
      BY <1>1, <3>1, AppendProperties DEF VectorTypes
    <3> QED
      BY <1>1, <1>4, <3>2 DEF PushBack, VectorTypes
  <2>3. SendingTypes'
    <3>1. Goto(s, "welcome") /\ Sends(s, "WELCOME", 0)
      BY <1>4 DEF PushBack, Greeting
    <3> QED
      BY <3>1, GoesOn, StagesAre DEF Idle
  <2> QED
    BY <2>1, <2>2, <2>3, TypesNext
<1>5. CASE Request(s)
  <2>1. VectorTypes' /\ BufferTypes' /\ HistoryTypes' /\ LocalTypes'
    <3>1. VectorTypes' /\ BufferTypes' /\ HistoryTypes'
      BY <1>1, <1>5 DEF Request, past, VectorTypes, BufferTypes, HistoryTypes
    <3>2. private' \in [Socks -> Nicks \cup {Nobody}] /\ UNCHANGED <<nick, target>>
      BY <1>1, <1>5 DEF Request, LocalTypes
    <3> QED
      BY <1>1, <3>1, <3>2 DEF LocalTypes
  <2>2. SendingTypes'
    BY <1>5, GoesOn, StagesAre DEF Request, Idle, Announcing
  <2> QED
    BY <2>1, <2>2, TypesNext
<1>6. CASE Lock(s)
  <2>1. BufferTypes' /\ HistoryTypes' /\ SendingTypes'
    BY <1>1, <1>6 DEF Lock, past, SendingTypes, BufferTypes, HistoryTypes
  <2>2. VectorTypes' /\ LocalTypes'
    BY <1>1, <1>6, NextIs DEF Lock, VectorTypes, LocalTypes
  <2> QED
    BY <2>1, <2>2, TypesNext
<1>7. CASE Unlock(s)
  <2>1. BufferTypes' /\ HistoryTypes' /\ LocalTypes'
    BY <1>1, <1>7 DEF Unlock, past, LocalTypes, BufferTypes, HistoryTypes
  <2>2. VectorTypes'
    BY <1>1, <1>7 DEF Unlock, HolderAfter, VectorTypes
  <2>3. SendingTypes'
    <3>1. CASE Goto(s, "reply") /\ Sends(s, "ERROR", 0)
      BY <3>1, GoesOn, StagesAre DEF Idle
    <3>2. CASE Goto(s, After(pc[s])) /\ Sends(s, "none", 0)
      <4>1. After(pc[s]) \in {"loop", "close"}
        BY <1>7, AfterIs DEF Unlock, Announcing
      <4> QED
        BY <3>2, <4>1, GoesOn, StagesAre DEF Idle
    <3> QED
      BY <1>7, <3>1, <3>2 DEF Unlock
  <2> QED
    BY <2>1, <2>2, <2>3, TypesNext
<1>8. CASE Close(s)
  <2>1. VectorTypes' /\ HistoryTypes' /\ LocalTypes'
    BY <1>1, <1>8 DEF Close, past, VectorTypes, LocalTypes, HistoryTypes
  <2>2. BufferTypes'
    <3>1. <<>> \in Seq(Part) /\ Len(<<>>) = 0 /\ Room \in Nat
      BY ServerAssumption
    <3> QED
      BY <1>1, <1>8, <3>1 DEF Close, BufferTypes
  <2>3. SendingTypes'
    BY <1>8, GoesOn, StagesAre DEF Close, Idle
  <2> QED
    BY <2>1, <2>2, <2>3, TypesNext

<1>9. CASE Erase(s)
  <2>1. LocalTypes' /\ BufferTypes' /\ HistoryTypes'
    BY <1>1, <1>9 DEF Erase, past, LocalTypes, BufferTypes, HistoryTypes
  <2>2. VectorTypes'
    <3>1. PICK m \in 1 .. Len(clients) : Erased(s) = RemoveAt(clients, m)
      BY <1>9, ErasedIs DEF Erase, Registered
    <3>2. RemoveAt(clients, m) \in Seq([sock : Socks, nick : Nicks])
      BY <1>1, RemoveAtProperties DEF VectorTypes
    <3> QED
      BY <1>1, <1>9, <3>1, <3>2 DEF Erase, VectorTypes
  <2>3. SendingTypes'
    BY <1>9, GoesOn, StagesAre DEF Erase, Idle
  <2> QED
    BY <2>1, <2>2, <2>3, TypesNext
<1>10. ASSUME NEW c \in Socks, NEW through \in BOOLEAN, SendAll(s, c, through),
              UNCHANGED <<client, refused, turnedAway, rivals>>
       PROVE  BufferTypes' /\ HistoryTypes' /\ (~through => sending[s].parts + 1 \in 0 .. 1)
  <2>1. Gone(c) \/ ~Gone(c)
    OBVIOUS
  <2>2. CASE Gone(c)
    <3>1. UNCHANGED <<buffer, overtaken>> /\ through
      BY <1>10, <2>2, SendAllIs
    <3> QED
      BY <1>1, <1>10, <3>1 DEF BufferTypes, HistoryTypes
  <2>3. CASE ~Gone(c)
    <3>1. /\ buffer' \in [Socks -> Seq(Part)] /\ Len(buffer'[c]) <= Room
          /\ \A d \in Socks : d # c => buffer'[d] = buffer[d]
          /\ overtaken' = IF s # c /\ pc[c] = "welcome" THEN overtaken \cup {c} ELSE overtaken
          /\ \E n \in 1 .. 2 : n + sending[s].parts <= 2 /\ (through <=> n + sending[s].parts = 2)
      BY <1>10, <2>3, SendAllIs
    <3>2. sending[s].parts \in 0 .. 1
      BY DEF TypeOK
    <3>3. ~through => sending[s].parts + 1 \in 0 .. 1
      BY <3>1, <3>2
    <3> QED
      BY <1>1, <1>10, <3>1, <3>3 DEF BufferTypes, HistoryTypes
  <2> QED
    BY <2>2, <2>3
<1>11. sending[s].type \in Types
  BY DEF TypeOK
<1>12. CASE Reply(s)
  <2>1. PICK through \in BOOLEAN :
          /\ SendAll(s, s, through)
          /\ IF through
             THEN Goto(s, After(pc[s])) /\ Sends(s, TypeAt(After(pc[s])), 0)
             ELSE Sends(s, sending[s].type, sending[s].parts + 1) /\ UNCHANGED pc
    BY <1>12 DEF Reply
  <2>2. BufferTypes' /\ HistoryTypes' /\ (~through => sending[s].parts + 1 \in 0 .. 1)
    BY <1>10, <1>12, <2>1 DEF Reply
  <2>3. VectorTypes' /\ LocalTypes'
    BY <1>1, <1>12 DEF Reply, VectorTypes, LocalTypes
  <2>4. CASE through
    <3>1. \/ pc[s] = "welcome" /\ Goto(s, "announce") /\ Sends(s, "INFO", 0)
          \/ pc[s] = "refuse" /\ Goto(s, "close") /\ Sends(s, "none", 0)
          \/ pc[s] = "reply" /\ Goto(s, "loop") /\ Sends(s, "none", 0)
      BY <1>12, <2>1, <2>4, AfterIs DEF Reply
    <3>2. SendingTypes'
      BY <3>1, GoesOn, StagesAre DEF Idle, Announcing
    <3> QED
      BY <2>2, <2>3, <3>2, TypesNext
  <2>5. CASE ~through
    <3>1. pc' = pc /\ Sends(s, sending[s].type, sending[s].parts + 1)
      BY <2>1, <2>5
    <3>2. /\ sending' \in [Socks -> [type : Types, parts : 0 .. 1]]
          /\ \A t \in Socks : t # s => sending'[t] = sending[t]
          /\ sending'[s].type = sending[s].type
      BY <1>11, <2>2, <2>5, <3>1, SendsTypes
    <3>3. SendingTypes'
      BY <1>1, <3>1, <3>2 DEF SendingTypes
    <3> QED
      BY <2>2, <2>3, <3>3, TypesNext
  <2> QED
    BY <2>4, <2>5
<1>13. CASE SendToNext(s)
  <2> DEFINE c == clients[target[s]].sock
  <2>1. PICK through \in BOOLEAN :
          /\ SendAll(s, c, through)
          /\ IF through
             THEN target' = [target EXCEPT ![s] = NextReceiver(s, @)] /\ Sends(s, sending[s].type, 0)
             ELSE Sends(s, sending[s].type, sending[s].parts + 1) /\ UNCHANGED target
    BY <1>13 DEF SendToNext
  <2>2. c \in Socks
    BY <1>13, EntryIs DEF SendToNext
  <2>3. BufferTypes' /\ HistoryTypes' /\ (~through => sending[s].parts + 1 \in 0 .. 1)
    BY <1>10, <1>13, <2>1, <2>2 DEF SendToNext
  <2>4. VectorTypes' /\ LocalTypes'
    <3>1. NextReceiver(s, target[s]) \in Nat
      BY <1>1, NextIs DEF LocalTypes
    <3> QED
      BY <1>1, <1>13, <2>1, <3>1 DEF SendToNext, VectorTypes, LocalTypes
  <2>5. SendingTypes'
    <3>1. pc' = pc /\ \E parts \in 0 .. 1 : Sends(s, sending[s].type, parts)
      BY <1>13, <2>1, <2>3 DEF SendToNext
    <3>2. /\ sending' \in [Socks -> [type : Types, parts : 0 .. 1]]
          /\ \A t \in Socks : t # s => sending'[t] = sending[t]
          /\ sending'[s].type = sending[s].type
      BY <1>11, <3>1, SendsTypes
    <3> QED
      BY <1>1, <3>1, <3>2 DEF SendingTypes
  <2> QED
    BY <2>3, <2>4, <2>5, TypesNext
<1> QED
  BY <1>2, <1>3, <1>4, <1>5, <1>6, <1>7, <1>8, <1>9, <1>12, <1>13 DEF ThreadStep

-----------------------------------------------------------------------------
(* The stages *)

\* In the stages of announcing a message is sent with the mutex held.
LEMMA AnnouncingIsLocked ==
  ASSUME StageInv, NEW s \in Socks, pc[s] \in Announcing
  PROVE  sending[s].type \in Locked
BY DEF StageInv, Announcing, Locked

\* The steps that send.
LEMMA Sending ==
  ASSUME TypeOK, NEW s \in Socks, Reply(s) \/ SendToNext(s)
  PROVE  \E c \in Socks, through \in BOOLEAN :
           /\ SendAll(s, c, through) /\ UNCHANGED client
           /\ Reply(s) => c = s
           /\ SendToNext(s) => target[s] \in DOMAIN clients /\ c = clients[target[s]].sock
           /\ Reply(s) => IF through
                THEN Goto(s, After(pc[s])) /\ Sends(s, TypeAt(After(pc[s])), 0)
                ELSE Sends(s, sending[s].type, sending[s].parts + 1) /\ UNCHANGED pc
           /\ SendToNext(s) => IF through
                THEN target' = [target EXCEPT ![s] = NextReceiver(s, @)] /\ Sends(s, sending[s].type, 0)
                ELSE Sends(s, sending[s].type, sending[s].parts + 1) /\ UNCHANGED target
<1>0. ~(Reply(s) /\ SendToNext(s))
  BY DEF Reply, SendToNext, Announcing
<1>1. CASE Reply(s)
  <2>1. PICK through \in BOOLEAN :
          /\ SendAll(s, s, through)
          /\ IF through
             THEN Goto(s, After(pc[s])) /\ Sends(s, TypeAt(After(pc[s])), 0)
             ELSE Sends(s, sending[s].type, sending[s].parts + 1) /\ UNCHANGED pc
    BY <1>1 DEF Reply
  <2>2. UNCHANGED client
    BY <1>1 DEF Reply
  <2> QED
    BY <1>0, <1>1, <2>1, <2>2
<1>2. CASE SendToNext(s)
  <2>1. PICK through \in BOOLEAN :
          /\ SendAll(s, clients[target[s]].sock, through)
          /\ IF through
             THEN target' = [target EXCEPT ![s] = NextReceiver(s, @)] /\ Sends(s, sending[s].type, 0)
             ELSE Sends(s, sending[s].type, sending[s].parts + 1) /\ UNCHANGED target
    BY <1>2 DEF SendToNext
  <2>2. UNCHANGED client /\ target[s] \in DOMAIN clients /\ clients[target[s]].sock \in Socks
    BY <1>2, EntryIs DEF SendToNext
  <2> QED
    BY <1>0, <1>2, <2>1, <2>2
<1> QED
  BY <1>1, <1>2

\* Nothing waits for a client that is gone.
LEMMA GoneEmpty ==
  ASSUME TypeOK, StageInv, NEW s \in Socks, Step(s), NEW t \in Socks, client'[t] = "none"
  PROVE  buffer'[t] = <<>>
<1>1. CASE Reply(s) \/ SendToNext(s)
  <2>1. PICK c \in Socks, through \in BOOLEAN : SendAll(s, c, through) /\ UNCHANGED client
    BY <1>1, Sending
  <2>2. client[t] = "none" /\ buffer[t] = <<>>
    BY <2>1 DEF StageInv
  <2>3. CASE t = c
    <3>1. buffer' = buffer
      BY <2>1, <2>2, <2>3, SendAllIs DEF Gone
    <3> QED
      BY <2>2, <3>1
  <2>4. CASE t # c
    BY <2>1, <2>2, <2>4, SendAllIs
  <2> QED
    BY <2>3, <2>4
<1>2. CASE Connect(s) \/ Close(s) \/ ClientLeaves(s)
  BY <1>2 DEF TypeOK, StageInv, Connect, Close, ClientLeaves
<1>3. CASE ClientReads(s)
  BY <1>3 DEF TypeOK, StageInv, ClientReads
<1>4. CASE CheckNick(s) \/ PushBack(s) \/ Lock(s) \/ Unlock(s) \/ Erase(s) \/ Request(s)
  <2>1. UNCHANGED <<client, buffer>>
    BY <1>4 DEF CheckNick, PushBack, Lock, Unlock, Erase, Request
  <2> QED
    BY <2>1 DEF StageInv
<1> QED
  BY <1>1, <1>2, <1>3, <1>4 DEF Step, ThreadStep

\* Nobody takes the mutex from its holder, but the holder itself.
LEMMA HolderKept ==
  ASSUME StageInv, NEW s \in Socks, Step(s), NEW t \in Socks, t # s, mutexClients = t
  PROVE  mutexClients' = t
<1>0. t # Nobody
  BY ServerAssumption
<1>1. CASE Lock(s)
  BY <1>0, <1>1, AnnouncingIsLocked DEF Lock
<1>2. CASE Unlock(s)
  BY <1>2 DEF Unlock, HolderAfter
<1> QED
  BY <1>1, <1>2 DEF Step, ThreadStep, CheckNick, PushBack, Reply, SendToNext, Erase, Close,
     Connect, Request, ClientReads, ClientLeaves

\* What a thread's own step does to its stage.
LEMMA OwnStage ==
  ASSUME TypeOK, StageInv, NEW s \in Socks, Step(s)
  PROVE  /\ pc'[s] = "closed" <=> nick'[s] = Nobody
         /\ pc'[s] \in {"announce", "goodbye"} => sending'[s].type = "INFO"
         /\ pc'[s] = "text" => sending'[s].type = "TEXT"
         /\ pc'[s] = "private" => sending'[s].type = "PRIVATE"
         /\ pc'[s] \in {"welcome", "refuse", "reply"} => sending'[s].type \in Direct
         /\ pc'[s] \notin Announcing => target'[s] = 0
         /\ target'[s] # 0 => mutexClients' = s
<1> USE DEF Announcing, Direct
<1>0. /\ sending[s].type \in Types /\ Nobody \notin Nicks /\ {"none", "INFO", "TEXT", "PRIVATE", "WELCOME", "PONG", "ERROR"} = Types
      /\ pc \in [Socks -> Stages] /\ nick \in [Socks -> Nicks \cup {Nobody}]
      /\ target \in [Socks -> Nat]
  BY ServerAssumption, StagesAre DEF TypeOK
<1>1. CASE Connect(s)
  BY <1>0, <1>1 DEF StageInv, Connect, Goto
<1>2. CASE CheckNick(s)
  <2>1. UNCHANGED <<nick, target, mutexClients>>
    BY <1>2 DEF CheckNick
  <2>2. CASE Goto(s, "checked")
    BY <1>0, <1>2, <2>1, <2>2 DEF StageInv, CheckNick, Goto
  <2>3. CASE Goto(s, "refuse") /\ Sends(s, "ERROR", 0)
    BY SMTT(20), <1>0, <1>2, <2>1, <2>3, SendsTypes DEF StageInv, CheckNick, Goto
  <2> QED
    BY <1>2, <2>2, <2>3 DEF CheckNick
<1>3. CASE PushBack(s)
  <2>1. /\ pc'[s] = "welcome" /\ sending'[s].type = "WELCOME"
        /\ UNCHANGED <<nick, target, mutexClients>> /\ pc[s] = "checked"
    BY <1>0, <1>3, SendsTypes DEF PushBack, Greeting, Goto
  <2> QED
    BY <2>1 DEF StageInv
<1>4. CASE Request(s)
  <2>1. UNCHANGED <<nick, target, mutexClients>> /\ pc[s] = "loop"
    BY <1>4 DEF Request
  <2>2. \/ pc'[s] = "text" /\ sending'[s].type = "TEXT"
        \/ pc'[s] = "private" /\ sending'[s].type = "PRIVATE"
        \/ pc'[s] = "reply" /\ sending'[s].type = "PONG"
    BY <1>0, <1>4, SendsTypes DEF Request, Goto
  <2> QED
    BY <2>1, <2>2 DEF StageInv
<1>5. CASE Lock(s)
  BY <1>0, <1>5, AnnouncingIsLocked DEF StageInv, Lock
<1>6. CASE Unlock(s)
  <2>1. UNCHANGED nick /\ target'[s] = 0 /\ pc[s] \in Announcing
    BY <1>0, <1>6 DEF Unlock
  <2>2. \/ pc'[s] = "reply" /\ sending'[s].type = "ERROR"
        \/ pc'[s] = After(pc[s]) /\ sending'[s].type = "none"
    BY <1>0, <1>6, SendsTypes DEF Unlock, Goto
  <2> QED
    BY <2>1, <2>2, AfterIs DEF StageInv
<1>7. CASE Erase(s)
  <2>1. UNCHANGED <<nick, target, mutexClients>> /\ pc[s] = "loop"
    BY <1>7 DEF Erase
  <2>2. pc'[s] = "goodbye" /\ sending'[s].type = "INFO"
    BY <1>0, <1>7, SendsTypes DEF Erase, Goto
  <2> QED
    BY <2>1, <2>2 DEF StageInv
<1>8. CASE Close(s)
  <2>1. UNCHANGED <<target, mutexClients>> /\ pc[s] \in {"close", "auth"}
    BY <1>8 DEF Close
  <2>2. pc'[s] = "closed" /\ nick'[s] = Nobody
    BY <1>0, <1>8 DEF Close, Goto
  <2> QED
    BY <2>1, <2>2 DEF StageInv
<1>9. CASE ClientReads(s) \/ ClientLeaves(s)
  <2>1. UNCHANGED <<pc, nick, target, sending, mutexClients>>
    BY <1>9 DEF ClientReads, ClientLeaves, thread
  <2> QED
    BY <2>1 DEF StageInv
<1>10. CASE Reply(s)
  <2>1. UNCHANGED <<nick, target, mutexClients>> /\ pc[s] \in {"welcome", "refuse", "reply"}
    BY <1>10 DEF Reply
  <2>2. PICK through \in BOOLEAN : IF through
          THEN Goto(s, After(pc[s])) /\ Sends(s, TypeAt(After(pc[s])), 0)
          ELSE Sends(s, sending[s].type, sending[s].parts + 1) /\ UNCHANGED pc
    BY <1>10, Sending
  <2>3. CASE through
    <3>1. pc'[s] = After(pc[s]) /\ Sends(s, TypeAt(After(pc[s])), 0)
      BY <1>0, <2>2, <2>3 DEF Goto
    <3>2. sending'[s].type = TypeAt(After(pc[s]))
      BY <3>1 DEF Sends, TypeOK
    <3> QED
      BY <2>1, <3>1, <3>2, AfterIs DEF StageInv
  <2>4. CASE ~through
    <3>1. pc' = pc /\ sending'[s].type = sending[s].type
      BY <2>2, <2>4 DEF Sends, TypeOK
    <3> QED
      BY <2>1, <3>1 DEF StageInv
  <2> QED
    BY <2>3, <2>4
<1>11. CASE SendToNext(s)
  <2>1. UNCHANGED <<pc, nick, mutexClients>> /\ pc[s] \in Announcing /\ target[s] \in DOMAIN clients
    BY <1>11 DEF SendToNext
  <2>2. sending'[s].type = sending[s].type
    <3>1. \E parts : Sends(s, sending[s].type, parts)
      BY <1>11 DEF SendToNext
    <3> QED
      BY <3>1 DEF Sends, TypeOK
  <2>3. target[s] # 0
    <3>1. DOMAIN clients = 1 .. Len(clients) /\ Len(clients) \in Nat
      BY LenProperties DEF TypeOK
    <3> QED
      BY <2>1, <3>1
  <2> QED
    BY <2>1, <2>2, <2>3 DEF StageInv
<1> QED
  BY <1>1, <1>2, <1>3, <1>4, <1>5, <1>6, <1>7, <1>8, <1>9, <1>10, <1>11 DEF Step, ThreadStep

\* Every step keeps what the stages say of what is sent.
LEMMA StageNext ==
  ASSUME TypeOK, StageInv, NEW s \in Socks, Step(s)
  PROVE  StageInv'
<1> SUFFICES ASSUME NEW t \in Socks
             PROVE  (/\ pc[t] = "closed" <=> nick[t] = Nobody
                     /\ pc[t] \in {"announce", "goodbye"} => sending[t].type = "INFO"
                     /\ pc[t] = "text" => sending[t].type = "TEXT"
                     /\ pc[t] = "private" => sending[t].type = "PRIVATE"
                     /\ pc[t] \in {"welcome", "refuse", "reply"} => sending[t].type \in Direct
                     /\ pc[t] \notin Announcing => target[t] = 0
                     /\ target[t] # 0 => mutexClients = t
                     /\ client[t] = "none" => buffer[t] = <<>>)'
  BY DEF StageInv
<1>1. (client[t] = "none" => buffer[t] = <<>>)'
  BY GoneEmpty
<1>2. CASE t = s
  BY <1>1, <1>2, OwnStage
<1>3. CASE t # s
  <2>1. /\ pc'[t] = pc[t] /\ nick'[t] = nick[t] /\ target'[t] = target[t]
        /\ sending'[t] = sending[t]
    BY <1>3, OwnOnly
  <2>2. mutexClients = t => mutexClients' = t
    BY <1>3, HolderKept
  <2> QED
    BY <1>1, <2>1, <2>2 DEF StageInv
<1> QED
  BY <1>2, <1>3

-----------------------------------------------------------------------------
(* The vector *)

\* What the thread's own step does to its place in the vector.
LEMMA OwnPlace ==
  ASSUME TypeOK, NEW s \in Socks, Step(s)
  PROVE  \/ PushBack(s) /\ pc[s] = "checked" /\ pc'[s] = "welcome" /\ nick' = nick
         \/ Erase(s) /\ pc[s] = "loop" /\ pc'[s] = "goodbye" /\ nick' = nick
         \/ /\ UNCHANGED clients /\ (pc'[s] \in Registered <=> pc[s] \in Registered)
            /\ pc[s] \in Registered => nick'[s] = nick[s]
<1> USE DEF Registered
<1>0. pc \in [Socks -> Stages] /\ nick \in [Socks -> Nicks \cup {Nobody}]
  BY DEF TypeOK
<1>1. CASE Connect(s)
  BY <1>0, <1>1 DEF Connect, Goto
<1>2. CASE CheckNick(s)
  BY <1>0, <1>2 DEF CheckNick, Goto
<1>3. CASE PushBack(s)
  BY <1>0, <1>3 DEF PushBack, Greeting, Goto
<1>4. CASE Request(s)
  BY <1>0, <1>4 DEF Request, Goto
<1>5. CASE Lock(s)
  BY <1>5 DEF Lock
<1>6. CASE Unlock(s)
  <2>1. pc[s] \in Announcing /\ UNCHANGED <<nick, clients>>
    BY <1>6 DEF Unlock
  <2>2. (pc[s] = "private" /\ pc'[s] = "reply") \/ pc'[s] = After(pc[s])
    BY <1>0, <1>6 DEF Unlock, Goto
  <2> QED
    BY <2>1, <2>2, AfterIs DEF Announcing
<1>7. CASE Erase(s)
  BY <1>0, <1>7 DEF Erase, Goto
<1>8. CASE Close(s)
  BY <1>0, <1>8 DEF Close, Goto
<1>9. CASE ClientReads(s) \/ ClientLeaves(s)
  BY <1>9 DEF ClientReads, ClientLeaves, thread
<1>10. CASE Reply(s)
  <2>1. pc[s] \in {"welcome", "refuse", "reply"} /\ UNCHANGED <<nick, clients>>
    BY <1>10 DEF Reply
  <2>2. pc' = pc \/ pc'[s] = After(pc[s])
    BY <1>0, <1>10 DEF Reply, Goto
  <2> QED
    BY <2>1, <2>2, AfterIs
<1>11. CASE SendToNext(s)
  BY <1>11 DEF SendToNext
<1> QED
  BY <1>1, <1>2, <1>3, <1>4, <1>5, <1>6, <1>7, <1>8, <1>9, <1>10, <1>11 DEF Step, ThreadStep

\* The entries.
LEMMA EntryNext ==
  ASSUME TypeOK, StageInv, EntryInv, NEW s \in Socks, Step(s)
  PROVE  EntryInv'
<1>0. /\ clients \in Seq(Entry) /\ Len(clients) \in Nat /\ DOMAIN clients = 1 .. Len(clients)
      /\ \A i \in DOMAIN clients : clients[i] \in Entry /\ clients[i].sock \in Socks
  BY LenProperties, EntryIs DEF TypeOK, Entry
<1>1. \A t \in Socks : t # s => pc'[t] = pc[t] /\ nick'[t] = nick[t]
  BY OwnOnly
<1>2. CASE /\ UNCHANGED clients /\ (pc'[s] \in Registered <=> pc[s] \in Registered)
           /\ pc[s] \in Registered => nick'[s] = nick[s]
  <2>1. \A t \in Socks : /\ pc'[t] \in Registered <=> pc[t] \in Registered
                         /\ pc[t] \in Registered => nick'[t] = nick[t]
    BY <1>1, <1>2
  <2> QED
    BY <1>0, <1>2, <2>1 DEF EntryInv
<1>3. CASE PushBack(s) /\ pc[s] = "checked" /\ pc'[s] = "welcome" /\ nick' = nick
  <2> DEFINE new == [sock |-> s, nick |-> nick[s]]
  <2>1. new \in Entry /\ new.sock = s /\ new.nick = nick[s]
    BY <1>3 DEF Entry, TypeOK, StageInv
  <2>2. clients' = Append(clients, new)
    BY <1>3 DEF PushBack
  <2> HIDE DEF new
  <2>3. /\ DOMAIN clients' = 1 .. Len(clients) + 1
        /\ \A i \in 1 .. Len(clients) : clients'[i] = clients[i]
        /\ clients'[Len(clients) + 1] = new
    <3>1. Append(clients, new) \in Seq(Entry) /\ Len(Append(clients, new)) = Len(clients) + 1
      BY <1>0, <2>1, AppendProperties
    <3>2. DOMAIN clients' = 1 .. Len(clients) + 1
      BY <2>2, <3>1, LenProperties
    <3> QED
      BY <1>0, <2>1, <2>2, <3>2, AppendProperties
  <2>4. \A i \in 1 .. Len(clients) : clients[i].sock # s
    BY <1>0, <1>3 DEF EntryInv, Registered
  <2>5. (\A i \in DOMAIN clients : /\ pc[clients[i].sock] \in Registered
                                   /\ clients[i].nick = nick[clients[i].sock])'
    <3>1. ASSUME NEW i \in 1 .. Len(clients) + 1
          PROVE  /\ pc'[clients'[i].sock] \in Registered
                 /\ clients'[i].nick = nick'[clients'[i].sock]
      <4>1. CASE i = Len(clients) + 1
        BY <1>3, <2>1, <2>3, <4>1 DEF Registered
      <4>2. CASE i # Len(clients) + 1
        <5>1. i \in 1 .. Len(clients)
          BY <1>0, <4>2
        <5> QED
          BY <1>0, <1>1, <1>3, <2>3, <2>4, <5>1 DEF EntryInv
      <4> QED
        BY <4>1, <4>2
    <3> QED
      BY <2>3, <3>1
  <2>6. (\A i, j \in DOMAIN clients : clients[i].sock = clients[j].sock => i = j)'
    <3>1. ASSUME NEW i \in 1 .. Len(clients) + 1, NEW j \in 1 .. Len(clients) + 1,
                 clients'[i].sock = clients'[j].sock
          PROVE  i = j
      <4>1. (i = Len(clients) + 1 \/ i \in 1 .. Len(clients)) /\ (j = Len(clients) + 1 \/ j \in 1 .. Len(clients))
        BY <1>0
      <4>2. CASE i \in 1 .. Len(clients) /\ j \in 1 .. Len(clients)
        BY <1>0, <2>3, <3>1, <4>2 DEF EntryInv
      <4> QED
        BY <2>1, <2>3, <2>4, <3>1, <4>1, <4>2
    <3> QED
      BY <2>3, <3>1
  <2>7. (\A t \in Socks : pc[t] \in Registered => \E i \in DOMAIN clients : clients[i].sock = t)'
    <3>1. ASSUME NEW t \in Socks, pc'[t] \in Registered
          PROVE  \E i \in 1 .. Len(clients) + 1 : clients'[i].sock = t
      <4>1. CASE t = s
        <5>1. Len(clients) + 1 \in 1 .. Len(clients) + 1
          BY <1>0
        <5> QED
          BY <2>1, <2>3, <4>1, <5>1
      <4>2. CASE t # s
        <5>1. PICK i \in 1 .. Len(clients) : clients[i].sock = t
          BY <1>0, <1>1, <3>1, <4>2 DEF EntryInv
        <5>2. i \in 1 .. Len(clients) + 1
          BY <1>0
        <5> QED
          BY <2>3, <5>1, <5>2
      <4> QED
        BY <4>1, <4>2
    <3> QED
      BY <2>3, <3>1
  <2> QED
    BY <2>5, <2>6, <2>7 DEF EntryInv
<1>4. CASE Erase(s) /\ pc[s] = "loop" /\ pc'[s] = "goodbye" /\ nick' = nick
  <2>1. PICK m \in 1 .. Len(clients) : clients[m].sock = s /\ Erased(s) = RemoveAt(clients, m)
    BY <1>4, ErasedIs DEF Registered
  <2> DEFINE was(i) == IF i < m THEN i ELSE i + 1
  <2>2. /\ DOMAIN clients' = 1 .. Len(clients) - 1
        /\ \A i \in 1 .. Len(clients) - 1 : clients'[i] = clients[was(i)]
    <3>1. clients' = RemoveAt(clients, m)
      BY <1>4, <2>1 DEF Erase
    <3>2. /\ RemoveAt(clients, m) \in Seq(Entry) /\ Len(RemoveAt(clients, m)) = Len(clients) - 1
          /\ \A j \in 1 .. Len(clients) - 1 :
               RemoveAt(clients, m)[j] = IF j < m THEN clients[j] ELSE clients[j + 1]
      BY <1>0, RemoveAtProperties
    <3>3. DOMAIN clients' = 1 .. Len(clients) - 1
      BY <3>1, <3>2, LenProperties
    <3> QED
      BY <3>1, <3>2, <3>3
  <2>3. \A i \in 1 .. Len(clients) - 1 : was(i) \in 1 .. Len(clients) /\ was(i) # m
    BY <1>0
  <2>4. \A i, j \in 1 .. Len(clients) - 1 : was(i) = was(j) => i = j
    BY <1>0
  <2>5. \A k \in 1 .. Len(clients) : k # m => \E i \in 1 .. Len(clients) - 1 : was(i) = k
    <3> SUFFICES ASSUME NEW k \in 1 .. Len(clients), k # m
                 PROVE  \E i \in 1 .. Len(clients) - 1 : was(i) = k
      OBVIOUS
    <3>1. CASE k < m
      <4>1. k \in 1 .. Len(clients) - 1 /\ was(k) = k
        BY <1>0, <3>1
      <4> QED
        BY <4>1
    <3>2. CASE ~(k < m)
      <4>1. k - 1 \in 1 .. Len(clients) - 1 /\ was(k - 1) = k
        BY <1>0, <3>2
      <4> QED
        BY <4>1
    <3> QED
      BY <3>1, <3>2
  <2> HIDE DEF was
  <2>6. \A k \in 1 .. Len(clients) : k # m => clients[k].sock # s
    BY <1>0, <2>1 DEF EntryInv
  <2>7. (\A i \in DOMAIN clients : /\ pc[clients[i].sock] \in Registered
                                   /\ clients[i].nick = nick[clients[i].sock])'
    <3>1. ASSUME NEW i \in 1 .. Len(clients) - 1
          PROVE  /\ pc'[clients'[i].sock] \in Registered
                 /\ clients'[i].nick = nick'[clients'[i].sock]
      <4>1. clients'[i] = clients[was(i)] /\ was(i) \in 1 .. Len(clients) /\ was(i) # m
        BY <2>2, <2>3
      <4>2. PICK k \in 1 .. Len(clients) : k = was(i)
        BY <4>1
      <4>3. clients'[i] = clients[k] /\ clients[k].sock # s
        BY <2>6, <4>1, <4>2
      <4>4. pc[clients[k].sock] \in Registered /\ clients[k].nick = nick[clients[k].sock]
        BY <1>0 DEF EntryInv
      <4>5. clients[k].sock \in Socks
        BY <1>0
      <4>6. pc'[clients[k].sock] = pc[clients[k].sock]
        BY <1>1, <4>3, <4>5
      <4> QED
        BY <1>4, <4>3, <4>4, <4>6
    <3> QED
      BY <2>2, <3>1
  <2>8. (\A i, j \in DOMAIN clients : clients[i].sock = clients[j].sock => i = j)'
    BY <1>0, <2>2, <2>3, <2>4 DEF EntryInv
  <2>9. (\A t \in Socks : pc[t] \in Registered => \E i \in DOMAIN clients : clients[i].sock = t)'
    <3>1. ASSUME NEW t \in Socks, pc'[t] \in Registered
          PROVE  \E i \in 1 .. Len(clients) - 1 : clients'[i].sock = t
      <4>1. t # s
        BY <1>4, <3>1 DEF Registered
      <4>2. PICK k \in 1 .. Len(clients) : clients[k].sock = t
        BY <1>0, <1>1, <3>1, <4>1 DEF EntryInv
      <4>3. k # m
        BY <2>1, <4>1, <4>2
      <4> QED
        BY <2>2, <2>5, <4>2, <4>3
    <3> QED
      BY <2>2, <3>1
  <2> QED
    BY <2>7, <2>8, <2>9 DEF EntryInv
<1> QED
  BY <1>2, <1>3, <1>4, OwnPlace

-----------------------------------------------------------------------------
(* The nicknames *)

\* The stages a thread reaches only with a nickname that passed the check.
Passed == Registered \cup {"checked"}

\* Only the check lets a nickname pass.
LEMMA PassedBefore ==
  ASSUME TypeOK, NEW s \in Socks, Step(s), ~CheckNick(s), pc'[s] \in Passed
  PROVE  pc[s] \in Passed /\ nick'[s] = nick[s] /\ rivals' = rivals
<1> USE DEF Passed, Registered
<1>0. pc \in [Socks -> Stages] /\ nick \in [Socks -> Nicks \cup {Nobody}]
  BY DEF TypeOK
<1>1. CASE Connect(s) \/ Close(s)
  BY <1>0, <1>1 DEF Connect, Close, Goto
<1>2. CASE PushBack(s) \/ Request(s) \/ Erase(s)
  BY <1>0, <1>2 DEF PushBack, Request, Erase, Greeting, Goto, past
<1>3. CASE Lock(s) \/ ClientReads(s) \/ ClientLeaves(s) \/ SendToNext(s)
  BY <1>3 DEF Lock, ClientReads, ClientLeaves, SendToNext, past, thread
<1>4. CASE Unlock(s)
  <2>1. pc[s] \in Announcing /\ UNCHANGED <<nick, rivals>>
    BY <1>4 DEF Unlock, past
  <2>2. (pc[s] = "private" /\ pc'[s] = "reply") \/ pc'[s] = After(pc[s])
    BY <1>0, <1>4 DEF Unlock, Goto
  <2> QED
    BY <2>1, <2>2, AfterIs DEF Announcing
<1>5. CASE Reply(s)
  <2>1. pc[s] \in {"welcome", "refuse", "reply"} /\ UNCHANGED <<nick, rivals>>
    BY <1>5 DEF Reply
  <2>2. pc' = pc \/ pc'[s] = After(pc[s])
    BY <1>0, <1>5 DEF Reply, Goto
  <2> QED
    BY <2>1, <2>2, AfterIs
<1> QED
  BY <1>1, <1>2, <1>3, <1>4, <1>5 DEF Step, ThreadStep

\* The rivals.
LEMMA NickNext ==
  ASSUME TypeOK, EntryInv, NickInv, NEW s \in Socks, Step(s)
  PROVE  NickInv'
<1>0. /\ \A t \in Socks : t # s => pc'[t] = pc[t] /\ nick'[t] = nick[t]
      /\ NickInv <=> \A t, u \in Socks :
                       pc[t] \in Passed /\ pc[u] \in Passed /\ t # u /\ nick[t] = nick[u] => {t, u} \in rivals
  BY OwnOnly DEF NickInv, Passed
<1>1. SUFFICES ASSUME NEW t \in Socks, NEW u \in Socks, pc'[t] \in Passed, pc'[u] \in Passed, t # u,
                      nick'[t] = nick'[u]
               PROVE  {t, u} \in rivals'
  BY DEF NickInv, Passed
<1>2. CASE s \notin {t, u}
  <2>1. {t, u} \in rivals
    BY <1>0, <1>1, <1>2
  <2>2. CASE Connect(s)
    <3>1. s \notin {t, u} /\ rivals' = {p \in rivals : s \notin p}
      BY <1>2, <2>2 DEF Connect
    <3> QED
      BY <2>1, <3>1
  <2>3. CASE ~Connect(s)
    <3>1. rivals \subseteq rivals'
      BY <2>3 DEF Step, ThreadStep, CheckNick, PushBack, Reply, Lock, SendToNext, Unlock, Erase,
         Close, Request, ClientReads, ClientLeaves, past
    <3> QED
      BY <2>1, <3>1
  <2> QED
    BY <2>2, <2>3
<1>3. ASSUME NEW o \in Socks, o # s, {t, u} = {s, o}, pc'[s] \in Passed, pc'[o] \in Passed, nick'[s] = nick'[o]
      PROVE  {t, u} \in rivals'
  <2>1. pc[o] \in Passed /\ nick'[o] = nick[o]
    BY <1>0, <1>3
  <2>2. CASE ~CheckNick(s)
    <3>1. pc[s] \in Passed /\ nick'[s] = nick[s] /\ rivals' = rivals
      BY <1>3, <2>2, PassedBefore
    <3> QED
      BY <1>0, <1>3, <2>1, <3>1
  <2>3. CASE CheckNick(s)
    <3>1. UNCHANGED nick /\ nick[s] = nick[o]
      BY <1>3, <2>3 DEF CheckNick
    <3>2. /\ IsUnique(nick[s])
          /\ rivals' = rivals \cup {{s, x} : x \in {x \in Socks \ {s} : pc[x] = "checked"}}
      <4>1. pc'[s] # "refuse"
        BY <1>3 DEF Passed, Registered
      <4> QED
        BY <2>3, <4>1 DEF CheckNick, Goto, TypeOK
    <3>3. pc[o] \notin Registered
      <4>1. ASSUME NEW i \in DOMAIN clients, clients[i].sock = o PROVE FALSE
        BY <3>1, <3>2, <4>1 DEF EntryInv, IsUnique
      <4> QED
        BY <4>1 DEF EntryInv
    <3>4. pc[o] = "checked"
      BY <2>1, <3>3 DEF Passed
    <3> QED
      BY <1>3, <3>2, <3>4
  <2> QED
    BY <2>2, <2>3
<1>4. CASE t = s
  <2>1. {t, u} = {s, u} /\ u # s
    BY <1>1, <1>4
  <2> QED
    BY <1>1, <1>3, <1>4, <2>1
<1>5. CASE u = s
  <2>1. {t, u} = {s, t} /\ t # s
    BY <1>1, <1>5
  <2> QED
    BY <1>1, <1>3, <1>5, <2>1
<1> QED
  BY <1>2, <1>4, <1>5

-----------------------------------------------------------------------------
(* The login *)

\* The stages before the first message to a client is sent.
Before == {"auth", "checked", "welcome"}

\* Who logs in has connected before, and what was said of the client stays.
LEMMA LoginBefore ==
  ASSUME TypeOK, NEW s \in Socks, Step(s), NEW t \in Socks, ~(Connect(s) /\ t = s)
  PROVE  /\ client'[t] = "auth" => client[t] = "auth"
         /\ t \in refused => t \in refused'
         /\ t \in overtaken => t \in overtaken'
<1>1. CASE Reply(s) \/ SendToNext(s)
  <2>1. UNCHANGED <<client, refused>>
    BY <1>1 DEF Reply, SendToNext
  <2>2. overtaken \subseteq overtaken'
    BY <1>1 DEF Reply, SendToNext, SendAll
  <2> QED
    BY <2>1, <2>2
<1>2. CASE Connect(s)
  BY <1>2 DEF Connect, TypeOK
<1>3. CASE CheckNick(s) \/ PushBack(s) \/ Lock(s) \/ Unlock(s) \/ Erase(s) \/ Close(s) \/ Request(s)
           \/ ClientReads(s) \/ ClientLeaves(s)
  <2>1. client'[t] = "auth" => client[t] = "auth"
    BY <1>3 DEF CheckNick, PushBack, Lock, Unlock, Erase, Close, Request, ClientReads,
       ClientLeaves, TypeOK
  <2>2. refused \subseteq refused' /\ overtaken' = overtaken
    BY <1>3 DEF CheckNick, PushBack, Lock, Unlock, Erase, Close, Request, ClientReads,
       ClientLeaves, past
  <2> QED
    BY <2>1, <2>2
<1> QED
  BY <1>1, <1>2, <1>3 DEF Step, ThreadStep

\* Stages before and after WELCOME.
LEMMA StageBefore ==
  ASSUME TypeOK, NEW s \in Socks, Step(s), ~Connect(s)
  PROVE  /\ pc'[s] \in Before => pc[s] \in Before
         /\ pc[s] \in Before =>
              \/ pc'[s] \in Before \ {"welcome"} /\ UNCHANGED buffer
              \/ pc'[s] = pc[s] /\ UNCHANGED <<sending, buffer>>
              \/ PushBack(s)
              \/ CheckNick(s) /\ s \in refused'
              \/ Close(s)
              \/ Reply(s) /\ pc[s] = "welcome"
              \/ ClientReads(s) \/ ClientLeaves(s)
<1> USE DEF Before
<1>0. pc \in [Socks -> Stages]
  BY DEF TypeOK
<1>1. CASE CheckNick(s)
  BY <1>0, <1>1 DEF CheckNick, Goto
<1>2. CASE PushBack(s)
  BY <1>0, <1>2 DEF PushBack, Goto
<1>3. CASE Request(s) \/ Erase(s) \/ Close(s)
  BY <1>0, <1>3 DEF Request, Erase, Close, Goto
<1>4. CASE Lock(s) \/ SendToNext(s)
  BY <1>0, <1>4 DEF Lock, SendToNext, Announcing
<1>5. CASE Unlock(s)
  <2>1. pc[s] \in Announcing
    BY <1>5 DEF Unlock
  <2>2. (pc[s] = "private" /\ pc'[s] = "reply") \/ pc'[s] = After(pc[s])
    BY <1>0, <1>5 DEF Unlock, Goto
  <2> QED
    BY <2>1, <2>2, AfterIs DEF Announcing
<1>6. CASE Reply(s)
  <2>1. pc[s] \in {"welcome", "refuse", "reply"}
    BY <1>6 DEF Reply
  <2>2. pc' = pc \/ pc'[s] = After(pc[s])
    BY <1>0, <1>6 DEF Reply, Goto
  <2> QED
    BY <1>6, <2>1, <2>2, AfterIs
<1>7. CASE ClientReads(s) \/ ClientLeaves(s)
  BY <1>7 DEF ClientReads, ClientLeaves, thread
<1> QED
  BY <1>1, <1>2, <1>3, <1>4, <1>5, <1>6, <1>7 DEF Step, ThreadStep

\* A buffer changes by its thread, by its client, or because something is sent to it.
LEMMA BufferOf ==
  ASSUME TypeOK, NEW s \in Socks, Step(s), NEW t \in Socks, buffer'[t] # buffer[t]
  PROVE  \/ t = s /\ (Connect(s) \/ Close(s) \/ ClientReads(s) \/ ClientLeaves(s))
         \/ \E through \in BOOLEAN :
              /\ (Reply(s) /\ t = s) \/ (SendToNext(s) /\ target[s] \in DOMAIN clients /\ t = clients[target[s]].sock)
              /\ SendAll(s, t, through) /\ client[t] # "none"
<1>1. CASE Reply(s) \/ SendToNext(s)
  <2>1. PICK c \in Socks, through \in BOOLEAN :
          /\ SendAll(s, c, through)
          /\ Reply(s) => c = s
          /\ SendToNext(s) => target[s] \in DOMAIN clients /\ c = clients[target[s]].sock
    BY <1>1, Sending
  <2>2. t = c /\ ~Gone(c)
    BY <2>1, SendAllIs
  <2>3. SendAll(s, t, through) /\ client[t] # "none"
    BY <2>1, <2>2, Zenon DEF Gone
  <2>4. (Reply(s) /\ t = s) \/ (SendToNext(s) /\ target[s] \in DOMAIN clients /\ t = clients[target[s]].sock)
    BY <1>1, <2>1, <2>2
  <2> QED
    BY <2>3, <2>4
<1>2. CASE Connect(s) \/ Close(s) \/ ClientReads(s) \/ ClientLeaves(s)
  <2>1. t = s
    BY <1>2 DEF TypeOK, Connect, Close, ClientReads, ClientLeaves
  <2> QED
    BY <1>2, <2>1
<1>3. CASE CheckNick(s) \/ PushBack(s) \/ Lock(s) \/ Unlock(s) \/ Erase(s) \/ Request(s)
  BY <1>3 DEF CheckNick, PushBack, Lock, Unlock, Erase, Request
<1> QED
  BY <1>1, <1>2, <1>3 DEF Step, ThreadStep

\* What is sent to a client does not change the first part that waits for it.
LEMMA FirstStays ==
  ASSUME TypeOK, NEW s \in Socks, NEW c \in Socks, NEW through \in BOOLEAN, SendAll(s, c, through),
         buffer[c] # <<>>
  PROVE  buffer'[c] # <<>> /\ buffer'[c][1] = buffer[c][1]
<1>1. /\ Len(buffer[c]) \in Nat /\ Len(buffer[c]) > 0 /\ buffer' \in [Socks -> Seq(Part)]
  BY BufferLength, SendAllIs
<1>2. CASE Gone(c)
  BY <1>2, SendAllIs
<1>3. CASE ~Gone(c)
  <2>1. buffer'[c][1] = buffer[c][1] /\ \E n \in 1 .. 2 : Len(buffer'[c]) = Len(buffer[c]) + n
    BY <1>1, <1>3, SendAllIs
  <2>2. Len(buffer'[c]) # 0
    BY <1>1, <2>1
  <2> QED
    BY <2>1, <2>2
<1> QED
  BY <1>2, <1>3

\* The greeting fits into an empty buffer.
LEMMA GreetingFits ==
  ASSUME TypeOK, NEW s \in Socks, NEW through \in BOOLEAN, SendAll(s, s, through), ~Gone(s),
         buffer[s] = <<>>, sending[s].parts = 0
  PROVE  through /\ buffer'[s] # <<>> /\ buffer'[s][1].type = sending[s].type
<1>1. Len(buffer[s]) = 0 /\ Room \in Nat /\ Room > 1
  BY BufferLength
<1>2. PICK n \in 1 .. 2 :
        /\ Len(buffer'[s]) = Len(buffer[s]) + n
        /\ (through <=> n + sending[s].parts = 2)
        /\ n = 2 \/ sending[s].parts = 1 \/ Room - Len(buffer[s]) = 1
        /\ \A i \in 1 .. n : buffer'[s][Len(buffer[s]) + i] = PartOf(s, sending[s].parts + i)
  BY SendAllIs
<1>3. n = 2 \/ Room = 1
  BY <1>1, <1>2
<1>4. n = 2
  BY <1>1, <1>3
<1>5. through
  BY <1>2, <1>4
<1>6. buffer'[s][1] = PartOf(s, 1) /\ Len(buffer'[s]) = 2
  BY <1>1, <1>2, <1>4
<1>7. buffer' \in [Socks -> Seq(Part)]
  BY SendAllIs
<1>8. buffer'[s] # <<>>
  BY <1>6
<1> QED
  BY <1>5, <1>6, <1>8 DEF PartOf

\* The first answer.
LEMMA LoginNext ==
  ASSUME TypeOK, StageInv, EntryInv, LoginInv, NEW s \in Socks, Step(s)
  PROVE  LoginInv'
<1> DEFINE Good(t) == IF pc[t] \in Before
                      THEN /\ buffer[t] = <<>>
                           /\ pc[t] = "welcome" => sending[t].type = "WELCOME" /\ sending[t].parts = 0
                      ELSE buffer[t] # <<>> /\ buffer[t][1].type = "WELCOME"
<1>1. SUFFICES ASSUME NEW t \in Socks, client'[t] = "auth", t \notin refused' \cup overtaken'
               PROVE  Good(t)'
  BY DEF LoginInv, Before
<1>2. CASE Connect(s) /\ t = s
  BY <1>2 DEF Connect, Goto, Before, TypeOK
<1>3. CASE ~(Connect(s) /\ t = s)
  <2>1. client[t] = "auth" /\ t \notin refused \cup overtaken
    BY <1>1, <1>3, LoginBefore
  <2>2. Good(t)
    BY <2>1 DEF LoginInv, Before
  <2>3. CASE buffer'[t] = buffer[t]
    <3>1. CASE t # s
      <4>1. pc'[t] = pc[t] /\ sending'[t] = sending[t]
        BY <3>1, OwnOnly
      <4> QED
        BY <2>2, <2>3, <4>1
    <3>2. CASE t = s
      <4>1. CASE pc[s] \notin Before
        <5>1. pc'[s] \notin Before
          BY <1>3, <3>2, <4>1, StageBefore
        <5> QED
          BY <2>2, <2>3, <3>2, <4>1, <5>1
      <4>2. CASE pc[s] \in Before
        <5>1. CASE pc'[s] \in Before \ {"welcome"}
          BY <2>2, <2>3, <3>2, <4>2, <5>1
        <5>2. CASE pc'[s] = pc[s] /\ UNCHANGED <<sending, buffer>>
          BY <2>2, <2>3, <3>2, <4>2, <5>2
        <5>3. CASE PushBack(s)
          <6>1. pc'[s] = "welcome" /\ sending'[s].type = "WELCOME" /\ sending'[s].parts = 0
            BY <5>3 DEF PushBack, Greeting, Goto, Sends, TypeOK
          <6> QED
            BY <2>2, <2>3, <3>2, <4>2, <6>1 DEF Before
        <5>4. CASE CheckNick(s) /\ s \in refused'
          BY <1>1, <3>2, <5>4
        <5>5. CASE Close(s)
          BY <1>1, <3>2, <5>5 DEF Close, TypeOK
        <5>6. CASE Reply(s) /\ pc[s] = "welcome"
          <6>1. PICK through \in BOOLEAN : SendAll(s, s, through)
            BY <5>6 DEF Reply
          <6>2. buffer[s] = <<>> /\ sending[s].parts = 0 /\ ~Gone(s)
            BY <2>1, <2>2, <3>2, <4>2, <5>6 DEF Gone
          <6>3. buffer'[s] # <<>>
            BY <6>1, <6>2, GreetingFits
          <6> QED
            BY <2>3, <3>2, <6>2, <6>3
        <5>7. CASE ClientReads(s) \/ ClientLeaves(s)
          BY <1>1, <3>2, <5>7 DEF ClientReads, ClientLeaves, TypeOK
        <5> QED
          BY <1>3, <3>2, <4>2, <5>1, <5>2, <5>3, <5>4, <5>5, <5>6, <5>7, StageBefore
      <4> QED
        BY <4>1, <4>2
    <3> QED
      BY <3>1, <3>2
  <2>4. CASE t = s /\ (Close(s) \/ ClientReads(s) \/ ClientLeaves(s))
    BY <1>1, <2>4 DEF Close, ClientReads, ClientLeaves, TypeOK
  <2>5. ASSUME NEW through \in BOOLEAN, SendAll(s, t, through), client[t] # "none",
               (Reply(s) /\ t = s) \/ (SendToNext(s) /\ target[s] \in DOMAIN clients /\ t = clients[target[s]].sock)
        PROVE  Good(t)'
    <3>1. CASE pc[t] \notin Before
      <4>1. pc'[t] \notin Before
        BY <1>3, <3>1, OwnOnly, StageBefore
      <4>2. buffer'[t] # <<>> /\ buffer'[t][1].type = "WELCOME"
        BY <2>2, <2>5, <3>1, FirstStays
      <4> QED
        BY <4>1, <4>2
    <3>2. CASE pc[t] \in Before /\ Reply(s) /\ t = s
      <4>1. pc[s] = "welcome"
        BY <3>2 DEF Reply, Before
      <4>2. /\ through /\ buffer'[s] # <<>> /\ buffer'[s][1].type = "WELCOME"
        BY <2>2, <2>5, <3>2, <4>1, GreetingFits DEF Gone
      <4>3. ~(UNCHANGED pc)
        <5>1. pc'[s] # "welcome"
          <6>1. PICK past2 \in BOOLEAN :
                  /\ SendAll(s, s, past2)
                  /\ past2 => Goto(s, After(pc[s]))
            BY <3>2 DEF Reply
          <6>2. past2
            BY <2>2, <2>5, <3>2, <4>1, <6>1, GreetingFits DEF Gone
          <6> QED
            BY <4>1, <6>1, <6>2, AfterIs DEF Goto, TypeOK
        <5> QED
          BY <4>1, <5>1
      <4>4. pc'[s] = "announce"
        <5>1. pc' = pc \/ Goto(s, After(pc[s]))
          BY <3>2 DEF Reply
        <5> QED
          BY <4>1, <4>3, <5>1, AfterIs DEF Goto, TypeOK
      <4> QED
        BY <3>2, <4>2, <4>4 DEF Before
    <3>3. CASE pc[t] \in Before /\ SendToNext(s) /\ target[s] \in DOMAIN clients /\ t = clients[target[s]].sock
      <4>1. pc[t] \in Registered
        BY <3>3 DEF EntryInv
      <4>2. pc[t] = "welcome"
        BY <3>3, <4>1 DEF Registered, Before
      <4>3. t # s
        BY <3>3, <4>2 DEF SendToNext, Announcing
      <4>4. t \in overtaken'
        BY <2>5, <4>2, <4>3, SendAllIs DEF Gone
      <4> QED
        BY <1>1, <4>4
    <3> QED
      BY <2>5, <3>1, <3>2, <3>3
  <2> QED
    BY <1>3, <2>3, <2>4, <2>5, BufferOf
<1> QED
  BY <1>2, <1>3

\* Who is turned away.
LEMMA TurnedAwayNext ==
  ASSUME TypeOK, LoginInv, StageInv, TurnedAwayWhy, NEW s \in Socks, Step(s)
  PROVE  TurnedAwayWhy'
<1>1. CASE Connect(s)
  BY <1>1 DEF Connect, TurnedAwayWhy
<1>2. CASE ClientReads(s)
  <2>1. UNCHANGED <<refused, overtaken>> /\ buffer[s] # <<>>
    <3>1. Len(buffer[s]) # 0
      BY <1>2, BufferLength DEF ClientReads
    <3> QED
      BY <1>2, <3>1, BufferLength DEF ClientReads
  <2>2. CASE turnedAway' = turnedAway
    BY <2>1, <2>2 DEF TurnedAwayWhy
  <2>3. CASE turnedAway' # turnedAway
    <3>1. turnedAway' = turnedAway \cup {s} /\ client[s] = "auth" /\ Head(buffer[s]).type # "WELCOME"
      BY <1>2, <2>3 DEF ClientReads
    <3>2. Head(buffer[s]) = buffer[s][1]
      BY <2>1, BufferLength
    <3>3. s \in refused \cup overtaken
      BY <2>1, <3>1, <3>2 DEF LoginInv
    <3> QED
      BY <2>1, <3>1, <3>3 DEF TurnedAwayWhy
  <2> QED
    BY <2>2, <2>3
<1>3. CASE ~Connect(s) /\ ~ClientReads(s)
  <2>1. turnedAway' = turnedAway
    BY <1>3 DEF Step, ThreadStep, CheckNick, PushBack, Reply, Lock, SendToNext, Unlock, Erase,
       Close, Request, ClientLeaves, past
  <2>2. \A t \in Socks : t \in refused \cup overtaken => t \in refused' \cup overtaken'
    BY <1>3, LoginBefore
  <2> QED
    BY <2>1, <2>2 DEF TurnedAwayWhy, TypeOK
<1> QED
  BY <1>1, <1>2, <1>3

-----------------------------------------------------------------------------
(* Messages in one piece *)

\* Where a client's messages are read, the thread does nothing.
LEMMA ReadsOnly ==
  ASSUME NEW s \in Socks, ClientReads(s) \/ ClientLeaves(s)
  PROVE  UNCHANGED <<clients, mutexClients, pc, target, sending>>
BY DEF ClientReads, ClientLeaves, thread

\* A position in the vector is not 0.
LEMMA InVector ==
  ASSUME TypeOK, NEW i \in DOMAIN clients
  PROVE  i # 0 /\ ~(i > Len(clients)) /\ clients[i].sock \in Socks
<1>1. DOMAIN clients = 1 .. Len(clients) /\ Len(clients) \in Nat
  BY LenProperties DEF TypeOK
<1> QED
  BY <1>1, EntryIs

\* The thread that is at a message stays at it, unless it sends.
LEMMA StaysAtIt ==
  ASSUME TypeOK, StageInv, NEW t \in Socks, NEW p \in Part, AtIt(t, p), NEW s \in Socks, Step(s),
         ~SendToNext(s)
  PROVE  AtIt(t, p)'
<1> DEFINE f == p.from
<1>0. /\ f \in Socks /\ f # Nobody /\ mutexClients = f /\ pc[f] \in Announcing
      /\ target[f] \in DOMAIN clients
  BY ServerAssumption DEF AtIt, Part
<1>1. target[f] # 0 /\ ~(target[f] > Len(clients))
  BY <1>0, InVector
<1>2. CASE s = f
  <2>1. ClientReads(s) \/ ClientLeaves(s)
    BY <1>0, <1>1, <1>2 DEF Step, ThreadStep, CheckNick, PushBack, Reply, Lock, Unlock, Erase,
       Close, Connect, Request, Announcing
  <2> QED
    BY <2>1, ReadsOnly DEF AtIt
<1>3. CASE s # f
  <2>1. pc'[f] = pc[f] /\ target'[f] = target[f] /\ sending'[f] = sending[f] /\ mutexClients' = f
    BY <1>0, <1>3, OwnOnly, HolderKept
  <2>2. clients' = clients
    BY <1>0, OwnPlace DEF PushBack, Erase
  <2> HIDE DEF f
  <2>3. AtIt(t, p) <=> /\ mutexClients = f /\ pc[f] \in Announcing
                       /\ target[f] \in DOMAIN clients /\ clients[target[f]].sock = t
                       /\ sending[f].type = p.type /\ sending[f].parts = 1
    BY DEF AtIt, f
  <2>4. AtIt(t, p)' <=> /\ mutexClients' = f /\ pc'[f] \in Announcing
                        /\ target'[f] \in DOMAIN clients' /\ clients'[target'[f]].sock = t
                        /\ sending'[f].type = p.type /\ sending'[f].parts = 1
    BY DEF AtIt, f
  <2> QED
    BY <2>1, <2>2, <2>3, <2>4
<1> QED
  BY <1>2, <1>3

\* Who sends to the next client holds the mutex.
LEMMA SenderHolds ==
  ASSUME TypeOK, StageInv, NEW s \in Socks, SendToNext(s)
  PROVE  mutexClients = s
<1>1. target[s] # 0
  BY InVector DEF SendToNext
<1> QED
  BY <1>1 DEF StageInv

\* The last part of a buffer.
LEMMA LastPart ==
  ASSUME TypeOK, NEW t \in Socks, buffer[t] # <<>>
  PROVE  Len(buffer[t]) \in 1 .. Len(buffer[t]) /\ buffer[t][Len(buffer[t])] \in Part
BY BufferLength

\* A client reads a message.
LEMMA ReadsIs ==
  ASSUME TypeOK, NEW s \in Socks, ClientReads(s), buffer'[s] # <<>>
  PROVE  /\ buffer' = [buffer EXCEPT ![s] = SubSeq(buffer[s], 3, Len(buffer[s]))]
         /\ Len(buffer'[s]) = Len(buffer[s]) - 2 /\ Len(buffer'[s]) \in Nat \ {0}
         /\ \A i \in 1 .. Len(buffer[s]) - 2 : buffer'[s][i] = buffer[s][i + 2]
<1> DEFINE q == SubSeq(buffer[s], 3, Len(buffer[s]))
<1>1. /\ buffer[s] \in Seq(Part) /\ Len(buffer[s]) \in Nat /\ Len(buffer[s]) > 1
      /\ buffer \in [Socks -> Seq(Part)]
  BY BufferLength DEF ClientReads, TypeOK, Part
<1>2. /\ q \in Seq(Part) /\ Len(q) = (IF 3 <= Len(buffer[s]) THEN Len(buffer[s]) - 3 + 1 ELSE 0)
      /\ \A i \in 1 .. Len(buffer[s]) - 3 + 1 : q[i] = buffer[s][3 + i - 1]
  <2>1. \A i \in 3 .. Len(buffer[s]) : buffer[s][i] \in Part
    BY <1>1, BufferLength
  <2> QED
    BY <1>1, <2>1, SubSeqProperties
<1>3. buffer' = [buffer EXCEPT ![s] = q] \/ buffer' = [buffer EXCEPT ![s] = <<>>]
  BY DEF ClientReads
<1>4. buffer' = [buffer EXCEPT ![s] = q] /\ buffer'[s] = q
  BY <1>1, <1>3
<1> HIDE DEF q
<1>5. Len(q) = Len(buffer[s]) - 2
  <2>1. Len(q) = IF 3 <= Len(buffer[s]) THEN Len(buffer[s]) - 3 + 1 ELSE 0
    BY <1>2
  <2>2. Len(buffer[s]) \in Nat /\ Len(buffer[s]) > 1
    BY <1>1
  <2>3. ASSUME NEW l \in Nat, l > 1 PROVE (IF 3 <= l THEN l - 3 + 1 ELSE 0) = l - 2
    BY <2>3
  <2> QED
    BY <2>1, <2>2, <2>3
<1>6. Len(q) \in Nat \ {0}
  BY <1>2, <1>4, LenProperties, EmptySeq
<1>7. \A i \in 1 .. Len(buffer[s]) - 2 : q[i] = buffer[s][i + 2]
  <2>1. ASSUME NEW i \in 1 .. Len(buffer[s]) - 2 PROVE q[i] = buffer[s][i + 2]
    <3>1. i \in 1 .. Len(buffer[s]) - 3 + 1 /\ 3 + i - 1 = i + 2
      BY <1>1
    <3> QED
      BY <1>2, <3>1
  <2> QED
    BY <2>1
<1> QED
  BY <1>4, <1>5, <1>6, <1>7 DEF q

\* What is left of a message that was sent in part.
LEMMA SentInPart ==
  ASSUME TypeOK, NEW s \in Socks, NEW c \in Socks, NEW through \in BOOLEAN, SendAll(s, c, through),
         ~Gone(c), buffer'[c][Len(buffer'[c])].part = 1
  PROVE  /\ ~through /\ sending[s].parts = 0
         /\ buffer'[c][Len(buffer'[c])] = PartOf(s, 1)
<1>1. Len(buffer[c]) \in Nat /\ sending[s].parts \in 0 .. 1
  BY BufferLength DEF TypeOK
<1>2. PICK n \in 1 .. 2 :
        /\ Len(buffer'[c]) = Len(buffer[c]) + n
        /\ n + sending[s].parts <= 2 /\ (through <=> n + sending[s].parts = 2)
        /\ \A i \in 1 .. n : buffer'[c][Len(buffer[c]) + i] = PartOf(s, sending[s].parts + i)
  BY SendAllIs
<1>3. buffer'[c][Len(buffer'[c])] = PartOf(s, sending[s].parts + n)
  BY <1>1, <1>2
<1>4. sending[s].parts + n = 1
  BY <1>3 DEF PartOf
<1>5. n = 1 /\ sending[s].parts = 0
  BY <1>1, <1>2, <1>4
<1>6. ~through
  BY <1>2, <1>5
<1> QED
  BY <1>3, <1>4, <1>5, <1>6

\* Who is in the middle of a message.
LEMMA HalfNext ==
  ASSUME TypeOK, TypeOK', StageInv, HalfInv, NEW s \in Socks, Step(s)
  PROVE  HalfInv'
<1>1. SUFFICES ASSUME NEW t \in Socks, NEW p \in Part, HalfSent(t, p)'
               PROVE  AtIt(t, p)'
  BY DEF HalfInv
<1>2. /\ buffer'[t] # <<>> /\ p = buffer'[t][Len(buffer'[t])]
      /\ p.part = 1 /\ p.type \notin Direct
  BY <1>1 DEF HalfSent
<1>3. ASSUME buffer[t] # <<>>, buffer[t][Len(buffer[t])] = p
      PROVE  AtIt(t, p)
  BY <1>2, <1>3 DEF HalfInv, HalfSent
<1>4. ASSUME NEW through \in BOOLEAN, SendAll(s, t, through), ~Gone(t),
             (Reply(s) /\ t = s) \/ (SendToNext(s) /\ target[s] \in DOMAIN clients /\ t = clients[target[s]].sock)
      PROVE  AtIt(t, p)'
  <2>1. ~through /\ sending[s].parts = 0 /\ p = PartOf(s, 1)
    BY <1>2, <1>4, SentInPart
  <2>2. p.from = s /\ p.type = sending[s].type
    BY <2>1 DEF PartOf
  <2>3. ~Reply(s)
    BY <1>2, <2>2 DEF Reply, StageInv
  <2>4. SendToNext(s) /\ target[s] \in DOMAIN clients /\ clients[target[s]].sock = t
    BY <1>4, <2>3
  <2>5. mutexClients = s /\ pc[s] \in Announcing /\ UNCHANGED <<clients, mutexClients, pc>>
    BY <2>4, SenderHolds DEF SendToNext
  <2>6. UNCHANGED target /\ Sends(s, sending[s].type, sending[s].parts + 1)
    <3>1. PICK past2 \in BOOLEAN :
            /\ SendAll(s, t, past2)
            /\ ~past2 => Sends(s, sending[s].type, sending[s].parts + 1) /\ UNCHANGED target
      BY <2>4 DEF SendToNext
    <3>2. ~past2
      BY <1>2, <1>4, <3>1, SentInPart
    <3> QED
      BY <3>1, <3>2
  <2>7. sending'[s].type = sending[s].type /\ sending'[s].parts = 1
    BY <2>1, <2>6 DEF Sends, TypeOK
  <2>8. /\ mutexClients' = s /\ pc'[s] \in Announcing /\ target'[s] \in DOMAIN clients'
        /\ clients'[target'[s]].sock = t
    BY <2>4, <2>5, <2>6
  <2> QED
    BY <2>2, <2>7, <2>8 DEF AtIt
<1>5. CASE buffer'[t] = buffer[t]
  <2>1. AtIt(t, p)
    BY <1>2, <1>3, <1>5
  <2>2. CASE ~SendToNext(s)
    BY <2>1, <2>2, StaysAtIt
  <2>3. CASE SendToNext(s)
    <3>1. PICK c \in Socks, through \in BOOLEAN :
            SendAll(s, c, through) /\ target[s] \in DOMAIN clients /\ c = clients[target[s]].sock
      BY <2>3, Sending
    <3>2. p.from = s
      BY <2>1, <2>3, SenderHolds DEF AtIt
    <3>3. c = t
      BY <2>1, <3>1, <3>2 DEF AtIt
    <3>4. ~Gone(t)
      BY <1>2, <1>5 DEF Gone, StageInv
    <3> QED
      BY <1>4, <2>3, <3>1, <3>3, <3>4
  <2> QED
    BY <2>2, <2>3
<1>6. CASE t = s /\ (Connect(s) \/ Close(s) \/ ClientLeaves(s))
  BY <1>2, <1>6 DEF Connect, Close, ClientLeaves, TypeOK
<1>7. CASE t = s /\ ClientReads(s)
  <2>1. /\ Len(buffer'[s]) = Len(buffer[s]) - 2 /\ Len(buffer'[s]) \in Nat \ {0}
        /\ \A i \in 1 .. Len(buffer[s]) - 2 : buffer'[s][i] = buffer[s][i + 2]
    BY <1>2, <1>7, ReadsIs
  <2>2. Len(buffer[s]) \in Nat /\ (buffer[s] = <<>> <=> Len(buffer[s]) = 0)
    BY BufferLength
  <2>3. Len(buffer[s]) - 2 \in 1 .. Len(buffer[s]) - 2 /\ Len(buffer[s]) - 2 + 2 = Len(buffer[s])
        /\ buffer[s] # <<>>
    <3>1. Len(buffer[s]) - 2 \in Nat \ {0}
      BY <2>1
    <3>2. ASSUME NEW l \in Nat, l - 2 \in Nat \ {0}
          PROVE  l - 2 \in 1 .. l - 2 /\ l - 2 + 2 = l /\ l # 0
      BY <3>2
    <3> QED
      BY <2>2, <3>1, <3>2
  <2>4. buffer[s][Len(buffer[s])] = p
    BY <1>2, <1>7, <2>1, <2>3
  <2>5. AtIt(s, p)
    BY <1>3, <1>7, <2>3, <2>4
  <2> QED
    BY <1>7, <2>5, ReadsOnly DEF AtIt
<1> QED
  BY <1>4, <1>5, <1>6, <1>7, BufferOf DEF Gone

\* No message sent with the mutex held is mixed with another one.
LEMMA InterleaveNext ==
  ASSUME TypeOK, TypeOK', StageInv, HalfInv, OnlyRepliesInterleave, NEW s \in Socks, Step(s)
  PROVE  OnlyRepliesInterleave'
<1>1. SUFFICES ASSUME NEW t \in Socks, NEW i \in 1 .. Len(buffer'[t]) - 1,
                      buffer'[t][i].part = 1, buffer'[t][i + 1] # Rest(buffer'[t][i])
               PROVE  {buffer'[t][i].type, buffer'[t][i + 1].type} \cap Direct # {}
  BY DEF OnlyRepliesInterleave, Rest
<1>2. Len(buffer[t]) \in Nat /\ \A k \in 1 .. Len(buffer[t]) : buffer[t][k] \in Part
  BY BufferLength
<1>3. ASSUME NEW k \in 1 .. Len(buffer[t]) - 1, buffer[t][k] = buffer'[t][i],
             buffer[t][k + 1] = buffer'[t][i + 1]
      PROVE  {buffer'[t][i].type, buffer'[t][i + 1].type} \cap Direct # {}
  BY <1>1, <1>3 DEF OnlyRepliesInterleave, Rest
<1>4. CASE buffer'[t] = buffer[t]
  BY <1>1, <1>3, <1>4
<1>5. CASE t = s /\ (Connect(s) \/ Close(s) \/ ClientLeaves(s))
  <2>1. buffer'[t] = <<>>
    BY <1>5 DEF Connect, Close, ClientLeaves, TypeOK
  <2>2. i \in 1 .. 0 - 1
    BY <1>1, <2>1
  <2> QED
    BY <2>2
<1>6. CASE t = s /\ ClientReads(s)
  <2>1. buffer'[t] # <<>>
    <3>1. CASE buffer'[t] = <<>>
      <4>1. i \in 1 .. 0 - 1
        BY <1>1, <3>1
      <4> QED
        BY <4>1
    <3> QED
      BY <3>1
  <2>2. /\ Len(buffer'[s]) = Len(buffer[s]) - 2
        /\ \A k \in 1 .. Len(buffer[s]) - 2 : buffer'[s][k] = buffer[s][k + 2]
    BY <1>6, <2>1, ReadsIs
  <2>3. /\ i + 2 \in 1 .. Len(buffer[t]) - 1 /\ i \in 1 .. Len(buffer[s]) - 2
        /\ i + 1 \in 1 .. Len(buffer[s]) - 2 /\ i + 1 + 2 = i + 2 + 1
    BY <1>1, <1>2, <1>6, <2>2
  <2>4. buffer[t][i + 2] = buffer'[t][i] /\ buffer[t][i + 2 + 1] = buffer'[t][i + 1]
    BY <1>6, <2>2, <2>3
  <2> QED
    BY <1>3, <2>3, <2>4
<1>7. ASSUME NEW through \in BOOLEAN, SendAll(s, t, through), ~Gone(t),
             (Reply(s) /\ t = s) \/ (SendToNext(s) /\ target[s] \in DOMAIN clients /\ t = clients[target[s]].sock)
      PROVE  {buffer'[t][i].type, buffer'[t][i + 1].type} \cap Direct # {}
  <2>1. PICK n \in 1 .. 2 :
          /\ Len(buffer'[t]) = Len(buffer[t]) + n
          /\ n + sending[s].parts <= 2
          /\ \A k \in 1 .. n : buffer'[t][Len(buffer[t]) + k] = PartOf(s, sending[s].parts + k)
    BY <1>7, SendAllIs
  <2>2. \A k \in 1 .. Len(buffer[t]) : buffer'[t][k] = buffer[t][k]
    BY <1>7, SendAllIs
  <2>3. sending[s].parts \in 0 .. 1
    BY DEF TypeOK
  <2>4. CASE i < Len(buffer[t])
    <3>1. i \in 1 .. Len(buffer[t]) - 1 /\ i \in 1 .. Len(buffer[t]) /\ i + 1 \in 1 .. Len(buffer[t])
      BY <1>1, <1>2, <2>4
    <3> QED
      BY <1>3, <2>2, <3>1
  <2>5. CASE i > Len(buffer[t])
    <3>1. n = 2 /\ i = Len(buffer[t]) + 1 /\ sending[s].parts = 0
      BY <1>1, <1>2, <2>1, <2>3, <2>5
    <3>2. buffer'[t][i] = PartOf(s, 1)
      BY <2>1, <3>1
    <3>3. buffer'[t][i + 1] = PartOf(s, 2)
      <4>1. i + 1 = Len(buffer[t]) + 2
        BY <1>2, <3>1
      <4> QED
        BY <2>1, <3>1, <4>1
    <3> QED
      BY <1>1, <3>2, <3>3 DEF Rest, PartOf
  <2>6. CASE i = Len(buffer[t])
    <3> DEFINE p == buffer[t][Len(buffer[t])]
    <3>1. Len(buffer[t]) \in 1 .. Len(buffer[t]) /\ buffer[t] # <<>>
      BY <1>1, <1>2, <2>6, BufferLength
    <3>2. buffer'[t][i] = p /\ p \in Part /\ p.part = 1
      BY <1>1, <1>2, <2>2, <2>6, <3>1
    <3>3. buffer'[t][i + 1] = PartOf(s, sending[s].parts + 1)
      BY <2>1, <2>6
    <3>4. CASE p.type \in Direct
      BY <3>2, <3>4
    <3>5. CASE p.type \notin Direct
      <4>1. AtIt(t, p)
        BY <3>1, <3>2, <3>5 DEF HalfInv, HalfSent
      <4>2. CASE SendToNext(s)
        <5>1. p.from = s /\ sending[s].type = p.type /\ sending[s].parts = 1
          BY <4>1, <4>2, SenderHolds DEF AtIt
        <5>2. buffer'[t][i + 1] = Rest(p)
          BY <3>3, <5>1 DEF PartOf, Rest
        <5> QED
          BY <1>1, <3>2, <5>2
      <4>3. CASE Reply(s)
        <5>1. sending[s].type \in Direct
          BY <4>3 DEF Reply, StageInv
        <5> QED
          BY <3>3, <5>1 DEF PartOf
      <4> QED
        BY <1>7, <4>2, <4>3
    <3> QED
      BY <3>4, <3>5
  <2> QED
    BY <1>1, <1>2, <2>4, <2>5, <2>6
<1> QED
  BY <1>4, <1>5, <1>6, <1>7, BufferOf DEF Gone

-----------------------------------------------------------------------------
(* The invariant and the theorems *)

\* It holds at the start.
LEMMA InvInit == ASSUME Init PROVE Inv
<1>1. TypeOK
  <2>1. VectorTypes /\ LocalTypes /\ HistoryTypes
    BY DEF Init, VectorTypes, LocalTypes, HistoryTypes
  <2>2. BufferTypes
    <3>1. <<>> \in Seq(Part) /\ Len(<<>>) = 0 /\ Room \in Nat
      BY ServerAssumption
    <3> QED
      BY <3>1 DEF Init, BufferTypes
  <2>3. SendingTypes
    <3>1. NotSending \in [type : Types, parts : 0 .. 1] /\ NotSending.type = "none"
      BY StagesAre DEF NotSending
    <3> QED
      BY <3>1, StagesAre DEF Init, SendingTypes, Idle
  <2> QED
    BY <2>1, <2>2, <2>3, TypesAre
<1>2. StageInv
  BY ServerAssumption DEF Init, StageInv, Announcing
<1>3. EntryInv /\ NickInv
  BY DEF Init, EntryInv, NickInv, Registered
<1>4. LoginInv /\ TurnedAwayWhy
  BY DEF Init, LoginInv, TurnedAwayWhy
<1>5. HalfInv
  BY DEF Init, HalfInv, HalfSent
<1>6. OnlyRepliesInterleave
  <2>1. ASSUME NEW s \in Socks, NEW i \in 1 .. Len(buffer[s]) - 1 PROVE FALSE
    <3>1. i \in 1 .. 0 - 1
      BY <2>1 DEF Init
    <3> QED
      BY <3>1
  <2> QED
    BY <2>1 DEF OnlyRepliesInterleave
<1> QED
  BY <1>1, <1>2, <1>3, <1>4, <1>5, <1>6 DEF Inv

\* Every step preserves it.
LEMMA InvNext == ASSUME Inv, [Next]_vars PROVE Inv'
<1>1. CASE UNCHANGED vars
  <2>1. TypeOK'
    <3>1. VectorTypes' /\ LocalTypes' /\ BufferTypes' /\ HistoryTypes' /\ SendingTypes'
      BY <1>1, TypesAre DEF Inv, vars, thread, past, VectorTypes, LocalTypes, BufferTypes,
         HistoryTypes, SendingTypes
    <3> QED
      BY <3>1, TypesNext
  <2>2. StageInv' /\ EntryInv' /\ NickInv' /\ LoginInv'
    BY <1>1 DEF Inv, vars, thread, past, StageInv, EntryInv, NickInv, LoginInv
  <2>3. HalfInv'
    BY <1>1 DEF Inv, vars, thread, past, HalfInv, HalfSent, AtIt
  <2>4. OnlyRepliesInterleave' /\ TurnedAwayWhy'
    BY <1>1 DEF Inv, vars, thread, past, OnlyRepliesInterleave, TurnedAwayWhy, Rest
  <2> QED
    BY <2>1, <2>2, <2>3, <2>4 DEF Inv
<1>2. CASE Next
  <2>1. PICK s \in Socks : Step(s)
    BY <1>2 DEF Next, Step
  <2>2. TypeOK'
    BY <2>1, ThreadTypes, ClientTypes DEF Inv, Step
  <2>3. StageInv' /\ EntryInv' /\ NickInv' /\ LoginInv'
    BY <2>1, StageNext, EntryNext, NickNext, LoginNext DEF Inv
  <2>4. HalfInv' /\ OnlyRepliesInterleave' /\ TurnedAwayWhy'
    BY <2>1, <2>2, HalfNext, InterleaveNext, TurnedAwayNext DEF Inv
  <2> QED
    BY <2>2, <2>3, <2>4 DEF Inv
<1> QED
  BY <1>1, <1>2

\* The invariant holds in every reachable state.
LEMMA InvAlways == Spec => []Inv
<1>1. Init => Inv
  BY InvInit
<1>2. Inv /\ [Next]_vars => Inv'
  BY InvNext
<1> QED
  BY <1>1, <1>2, PTL DEF Spec

\* Every variable has its type.
THEOREM TypeCorrect == Spec => []TypeOK
<1>1. Inv => TypeOK
  BY DEF Inv
<1> QED
  BY <1>1, InvAlways, PTL

\* The vector.
LEMMA VectorFollows == ASSUME Inv PROVE VectorIsRight
<1>0. /\ \A i \in DOMAIN clients : clients[i] \in Entry /\ clients[i].sock \in Socks
      /\ EntryInv /\ NickInv /\ TypeOK
  BY EntryIs DEF Inv
<1>1. VectorMatchesThreads
  <2>1. ASSUME NEW s \in Socks, NEW i \in DOMAIN clients
        PROVE  clients[i].sock = s <=> clients[i] = [sock |-> s, nick |-> nick[s]]
    <3>1. clients[i] = [sock |-> clients[i].sock, nick |-> clients[i].nick]
      BY <1>0 DEF Entry
    <3>2. clients[i].sock = s => clients[i] = [sock |-> s, nick |-> nick[s]]
      BY <1>0, <3>1 DEF EntryInv
    <3>3. clients[i] = [sock |-> s, nick |-> nick[s]] => clients[i].sock = s
      OBVIOUS
    <3> QED
      BY <3>2, <3>3
  <2>2. ASSUME NEW s \in Socks
        PROVE  pc[s] \in Registered <=> \E i \in DOMAIN clients : clients[i].sock = s
    BY <1>0 DEF EntryInv
  <2>3. ASSUME NEW s \in Socks
        PROVE  pc[s] \in Registered <=> \E i \in DOMAIN clients : clients[i] = [sock |-> s, nick |-> nick[s]]
    BY <2>1, <2>2
  <2> QED
    BY <1>0, <2>3 DEF VectorMatchesThreads, EntryInv, Registered
<1>2. SameNickOnlyOfRivals
  BY <1>0 DEF SameNickOnlyOfRivals, EntryInv, NickInv
<1> QED
  BY <1>1, <1>2 DEF VectorIsRight

\* The vector clients has each registered thread once, under its nickname, and nobody else;
\* two have one nickname only if they raced between the check and the push_back.
THEOREM VectorIsRightAlways == Spec => []VectorIsRight
BY InvAlways, VectorFollows, PTL

\* The parts of two messages mix on a connection only if one of them is a reply, which is sent
\* without the mutex; and a client whose login fails was refused, or it got another thread's
\* message before its WELCOME.
THEOREM ArrivesWholeAlways == Spec => []ArrivesWhole
<1>1. Inv => ArrivesWhole
  BY DEF Inv, ArrivesWhole
<1> QED
  BY <1>1, InvAlways, PTL

-----------------------------------------------------------------------------
(* lab2: the session of one client *)

\* What Lab2Session takes from the library is what this module takes from it.
LEMMA SameFinite == \A S : Lab2!IsFiniteSet(S) <=> IsFiniteSet(S)
BY DEF IsFiniteSet, Lab2!IsFiniteSet

\* What the client sends,
Requests == {"HELLO", "TEXT", "PING", "BYE"}

\* and what the server sends.
Answers == {"WELCOME", "PONG", "BYE"}

\* What can be on the way.
InboxType ==
  /\ inbox \in [Users -> [Lab2!Ends -> Seq(Requests \cup Answers)]]
  /\ \A u \in Users : inbox[u]["server"] \in Seq(Requests) /\ inbox[u]["client"] \in Seq(Answers)

\* What the connection and the threads at its ends know of each other.
Link(u) ==
  /\ main[u] = "connect" => /\ inbox[u]["server"] = <<>> /\ inbox[u]["client"] = <<>>
                            /\ reset[u] = {} /\ receiver[u] = "off" /\ running[u]
                            /\ up => server[u] = "none"
  /\ main[u] = "ended" <=> "client" \in closed[u]
  /\ server[u] = "closed" <=> "server" \in closed[u]
  /\ ~up => server[u] = "closed"
  /\ server[u] = "none" => main[u] = "connect"
  /\ \A e \in Lab2!Ends : e \in closed[u] => inbox[u][e] = <<>>
  /\ \A e \in Lab2!Ends : e \in reset[u] => Lab2!Other(e) \in closed[u]
  /\ receiver[u] = "select" => main[u] \in {"getline", "typed", "send", "join"}
  /\ server[u] = "hello" => inbox[u]["server"] # <<>> /\ Head(inbox[u]["server"]) = "HELLO"

\* So for every client.
ConnectionInv == \A u \in Users : Link(u)

\* Sound: what holds of the programs and their connections.
Linked == Lab2!TypeOK /\ ConnectionInv

-----------------------------------------------------------------------------
\* The inboxes have the type that TypeOK gives them.
LEMMA TypedInboxes == ASSUME Lab2!TypeOK PROVE InboxType
<1>1. Requests \cup Answers = {"HELLO", "TEXT", "PING", "BYE", "WELCOME", "PONG"}
  BY DEF Requests, Answers
<1> QED
  BY <1>1 DEF Lab2!TypeOK, InboxType, Requests, Answers

\* A message arrives at the other end, or a reset comes back.
LEMMA Sent ==
  ASSUME Linked, NEW u \in Users, NEW e \in Lab2!Ends, NEW type, Lab2!SendMessage(u, e, type),
         type \in IF e = "client" THEN Requests ELSE Answers
  PROVE  /\ closed' = closed
         /\ InboxType' /\ reset' \in [Users -> SUBSET Lab2!Ends]
         /\ \A v \in Users : v # u => inbox'[v] = inbox[v] /\ reset'[v] = reset[v]
         /\ inbox'[u][e] = inbox[u][e]
         /\ Lab2!Other(e) \in closed[u] => inbox' = inbox /\ reset'[u] = reset[u] \cup {e}
         /\ Lab2!Other(e) \notin closed[u] =>
               inbox'[u][Lab2!Other(e)] = Append(inbox[u][Lab2!Other(e)], type) /\ reset' = reset
<1>1. /\ InboxType /\ reset \in [Users -> SUBSET Lab2!Ends]
      /\ Lab2!Other(e) \in Lab2!Ends /\ Lab2!Other(e) # e /\ type \in Requests \cup Answers
  BY TypedInboxes DEF Linked, Lab2!TypeOK, Lab2!Ends, Lab2!Other
<1>2. CASE Lab2!Other(e) \in closed[u]
  <2>1. reset' = [reset EXCEPT ![u] = @ \cup {e}] /\ UNCHANGED <<inbox, closed>>
    BY <1>2 DEF Lab2!SendMessage
  <2> QED
    BY <1>1, <1>2, <2>1 DEF InboxType
<1>3. CASE Lab2!Other(e) \notin closed[u]
  <2>1. /\ inbox' = [inbox EXCEPT ![u][Lab2!Other(e)] = Append(@, type)]
        /\ closed' = closed /\ reset' = reset
    BY <1>3 DEF Lab2!SendMessage
  <2> DEFINE q == inbox[u][Lab2!Other(e)]
  <2>2. inbox \in [Users -> [Lab2!Ends -> Seq(Requests \cup Answers)]]
    BY <1>1 DEF InboxType
  <2>3. Append(q, type) \in Seq(Requests \cup Answers)
    BY <1>1, <2>2, AppendProperties
  <2>4. inbox' \in [Users -> [Lab2!Ends -> Seq(Requests \cup Answers)]]
    BY <1>1, <2>1, <2>2, <2>3
  <2>5. e = "client" => Append(inbox[u]["server"], type) \in Seq(Requests)
    BY <1>1, AppendProperties DEF InboxType
  <2>6. e = "server" => Append(inbox[u]["client"], type) \in Seq(Answers)
    BY <1>1, AppendProperties DEF InboxType
  <2>7. /\ inbox'[u][Lab2!Other(e)] = Append(q, type)
        /\ inbox'[u][e] = inbox[u][e]
        /\ \A v \in Users : v # u => inbox'[v] = inbox[v]
    BY <1>1, <2>1, <2>2
  <2>8. InboxType'
    BY <1>1, <2>4, <2>5, <2>6, <2>7 DEF InboxType, Lab2!Ends, Lab2!Other
  <2> QED
    BY <1>1, <1>3, <2>1, <2>7, <2>8
<1> QED
  BY <1>2, <1>3

\* The head of an inbox is taken.
LEMMA TakenIs ==
  ASSUME Linked, NEW u \in Users, NEW e \in Lab2!Ends, Lab2!Taken(u, e)
  PROVE  /\ InboxType'
         /\ \A v \in Users : v # u => inbox'[v] = inbox[v]
         /\ inbox'[u][Lab2!Other(e)] = inbox[u][Lab2!Other(e)]
         /\ inbox[u][e] = <<>> => inbox' = inbox
         /\ inbox[u][e] # <<>> =>
               /\ inbox'[u][e] = Tail(inbox[u][e])
               /\ Lab2!Message(u, e) = Head(inbox[u][e])
               /\ Lab2!Message(u, e) \in IF e = "client" THEN Answers ELSE Requests
<1>1. /\ InboxType /\ inbox \in [Users -> [Lab2!Ends -> Seq(Requests \cup Answers)]]
      /\ Lab2!Other(e) \in Lab2!Ends /\ Lab2!Other(e) # e
  BY TypedInboxes DEF Linked, Lab2!TypeOK, Lab2!Ends, Lab2!Other, InboxType
<1>2. CASE inbox[u][e] = <<>>
  <2>1. inbox' = inbox
    BY <1>1, <1>2 DEF Lab2!Taken
  <2> QED
    BY <1>1, <1>2, <2>1 DEF InboxType
<1>3. CASE inbox[u][e] # <<>>
  <2>1. inbox' = [inbox EXCEPT ![u][e] = Tail(@)]
    BY <1>1, <1>3 DEF Lab2!Taken
  <2>2. Tail(inbox[u][e]) \in Seq(Requests \cup Answers)
    BY <1>1, <1>3, HeadTailProperties
  <2>3. inbox' \in [Users -> [Lab2!Ends -> Seq(Requests \cup Answers)]]
    BY <1>1, <2>1, <2>2
  <2>4. /\ inbox'[u][e] = Tail(inbox[u][e])
        /\ inbox'[u][Lab2!Other(e)] = inbox[u][Lab2!Other(e)]
        /\ \A v \in Users : v # u => inbox'[v] = inbox[v]
    BY <1>1, <2>1
  <2>5. e = "server" => /\ Tail(inbox[u]["server"]) \in Seq(Requests)
                        /\ Head(inbox[u]["server"]) \in Requests
    BY <1>1, <1>3, HeadTailProperties DEF InboxType
  <2>6. e = "client" => /\ Tail(inbox[u]["client"]) \in Seq(Answers)
                        /\ Head(inbox[u]["client"]) \in Answers
    BY <1>1, <1>3, HeadTailProperties DEF InboxType
  <2>7. InboxType'
    BY <1>1, <2>3, <2>4, <2>5, <2>6 DEF InboxType, Lab2!Ends, Lab2!Other
  <2> QED
    BY <1>3, <2>4, <2>5, <2>6, <2>7 DEF Lab2!Message, Lab2!Ends
<1> QED
  BY <1>2, <1>3

\* Ends are closed.
LEMMA ClosedIs ==
  ASSUME Linked, NEW gone \in [Users -> SUBSET Lab2!Ends], Lab2!ClosedEnds(gone)
  PROVE  /\ InboxType'
         /\ closed' \in [Users -> SUBSET Lab2!Ends] /\ reset' \in [Users -> SUBSET Lab2!Ends]
         /\ \A v \in Users :
               /\ closed'[v] = closed[v] \cup gone[v]
               /\ \A e \in Lab2!Ends : inbox'[v][e] = IF e \in gone[v] THEN <<>> ELSE inbox[v][e]
               /\ \A e \in Lab2!Ends : e \in reset'[v] <=>
                     e \in reset[v] \/ (Lab2!Other(e) \in gone[v] /\ inbox[v][Lab2!Other(e)] # <<>>)
               /\ gone[v] = {} => inbox'[v] = inbox[v] /\ reset'[v] = reset[v]
<1>1. InboxType /\ closed \in [Users -> SUBSET Lab2!Ends] /\ reset \in [Users -> SUBSET Lab2!Ends]
  BY TypedInboxes DEF Linked, Lab2!TypeOK
<1>2. /\ inbox' = [v \in Users |-> [e \in Lab2!Ends |-> IF e \in gone[v] THEN <<>> ELSE inbox[v][e]]]
      /\ closed' = [v \in Users |-> closed[v] \cup gone[v]]
      /\ reset' = [v \in Users |-> reset[v] \cup
                     {Lab2!Other(e) : e \in {e \in gone[v] : inbox[v][e] # <<>>}}]
  BY DEF Lab2!ClosedEnds
<1>3. <<>> \in Seq(Requests \cup Answers) /\ <<>> \in Seq(Requests) /\ <<>> \in Seq(Answers)
  OBVIOUS
<1>4. \A v \in Users : \A e \in Lab2!Ends :
         inbox'[v][e] = IF e \in gone[v] THEN <<>> ELSE inbox[v][e]
  BY <1>2
<1>5. inbox' \in [Users -> [Lab2!Ends -> Seq(Requests \cup Answers)]]
  BY <1>1, <1>2, <1>3 DEF InboxType
<1>6. InboxType'
  BY <1>1, <1>3, <1>4, <1>5 DEF InboxType, Lab2!Ends
<1>7. ASSUME NEW v \in Users, gone[v] = {} PROVE inbox'[v] = inbox[v]
  <2>1. inbox[v] \in [Lab2!Ends -> Seq(Requests \cup Answers)]
    BY <1>1 DEF InboxType
  <2>2. inbox'[v] = [e \in Lab2!Ends |-> inbox[v][e]]
    BY <1>2, <1>7
  <2> QED
    BY <2>1, <2>2
<1>8. ASSUME NEW v \in Users, NEW e \in Lab2!Ends
      PROVE  e \in reset'[v] <=>
                e \in reset[v] \/ (Lab2!Other(e) \in gone[v] /\ inbox[v][Lab2!Other(e)] # <<>>)
  <2>1. reset'[v] = reset[v] \cup {Lab2!Other(f) : f \in {f \in gone[v] : inbox[v][f] # <<>>}}
    BY <1>2
  <2>2. gone[v] \subseteq Lab2!Ends
    OBVIOUS
  <2>3. \A f \in gone[v] : Lab2!Other(f) = e <=> f = Lab2!Other(e)
    BY <2>2 DEF Lab2!Ends, Lab2!Other
  <2> QED
    BY <2>1, <2>3
<1>9. closed' \in [Users -> SUBSET Lab2!Ends] /\ \A v \in Users : closed'[v] = closed[v] \cup gone[v]
  BY <1>1, <1>2
<1>10. ASSUME NEW v \in Users PROVE reset'[v] \in SUBSET Lab2!Ends
  <2>1. gone[v] \subseteq Lab2!Ends /\ reset[v] \subseteq Lab2!Ends
    BY <1>1
  <2>2. \A f \in gone[v] : Lab2!Other(f) \in Lab2!Ends
    BY <2>1 DEF Lab2!Ends, Lab2!Other
  <2> QED
    BY <1>2, <2>1, <2>2
<1>11. \A v \in Users : gone[v] = {} => reset'[v] = reset[v]
  BY <1>2
<1>12. reset' \in [Users -> SUBSET Lab2!Ends]
  BY <1>2, <1>10
<1> QED
  BY <1>4, <1>6, <1>7, <1>8, <1>9, <1>11, <1>12

\* One end of one connection is closed.
LEMMA EndClosed ==
  ASSUME Linked, NEW u \in Users, NEW e \in Lab2!Ends, Lab2!CloseEnd(u, e)
  PROVE  /\ InboxType'
         /\ closed' \in [Users -> SUBSET Lab2!Ends] /\ reset' \in [Users -> SUBSET Lab2!Ends]
         /\ \A v \in Users : v # u =>
               closed'[v] = closed[v] /\ inbox'[v] = inbox[v] /\ reset'[v] = reset[v]
         /\ closed'[u] = closed[u] \cup {e}
         /\ inbox'[u][e] = <<>> /\ inbox'[u][Lab2!Other(e)] = inbox[u][Lab2!Other(e)]
         /\ e \in reset'[u] <=> e \in reset[u]
         /\ Lab2!Other(e) \in reset'[u] <=> Lab2!Other(e) \in reset[u] \/ inbox[u][e] # <<>>
<1> DEFINE gone == [v \in Users |-> IF v = u THEN {e} ELSE {}]
<1>1. gone \in [Users -> SUBSET Lab2!Ends] /\ gone[u] = {e} /\ \A v \in Users : v # u => gone[v] = {}
  OBVIOUS
<1>2. Lab2!ClosedEnds(gone)
  BY DEF Lab2!CloseEnd
<1>3. Lab2!Other(e) \in Lab2!Ends /\ Lab2!Other(e) # e /\ Lab2!Other(Lab2!Other(e)) = e
  BY DEF Lab2!Ends, Lab2!Other
<1> HIDE DEF gone
<1>4. /\ InboxType'
      /\ closed' \in [Users -> SUBSET Lab2!Ends] /\ reset' \in [Users -> SUBSET Lab2!Ends]
      /\ \A v \in Users :
            /\ closed'[v] = closed[v] \cup gone[v]
            /\ \A f \in Lab2!Ends : inbox'[v][f] = IF f \in gone[v] THEN <<>> ELSE inbox[v][f]
            /\ \A f \in Lab2!Ends : f \in reset'[v] <=>
                  f \in reset[v] \/ (Lab2!Other(f) \in gone[v] /\ inbox[v][Lab2!Other(f)] # <<>>)
            /\ gone[v] = {} => inbox'[v] = inbox[v] /\ reset'[v] = reset[v]
  BY <1>1, <1>2, ClosedIs
<1>5. \A v \in Users : v # u =>
         closed'[v] = closed[v] /\ inbox'[v] = inbox[v] /\ reset'[v] = reset[v]
  <2>1. \A v \in Users : v # u => closed'[v] = closed[v] \cup {}
    BY <1>1, <1>4
  <2> QED
    BY <1>1, <1>4, <2>1
<1>6. closed'[u] = closed[u] \cup {e} /\ inbox'[u][e] = <<>>
  BY <1>1, <1>4
<1>7. Lab2!Other(e) \notin gone[u] /\ e \in gone[u]
  BY <1>1, <1>3
<1>8. inbox'[u][Lab2!Other(e)] = inbox[u][Lab2!Other(e)] /\ (e \in reset'[u] <=> e \in reset[u])
  BY <1>3, <1>4, <1>7
<1>9. Lab2!Other(e) \in reset'[u] <=> Lab2!Other(e) \in reset[u] \/ inbox[u][e] # <<>>
  BY <1>3, <1>4, <1>7
<1> QED
  BY <1>4, <1>5, <1>6, <1>8, <1>9

\* All ends of the server are closed.
LEMMA ServerClosed ==
  ASSUME Linked, Lab2!ServerEnds
  PROVE  /\ InboxType'
         /\ closed' \in [Users -> SUBSET Lab2!Ends] /\ reset' \in [Users -> SUBSET Lab2!Ends]
         /\ \A v \in Users :
               /\ closed'[v] = closed[v] \cup {"server"}
               /\ inbox'[v]["server"] = <<>> /\ inbox'[v]["client"] = inbox[v]["client"]
               /\ "server" \in reset'[v] <=> "server" \in reset[v]
               /\ "client" \in reset'[v] <=> "client" \in reset[v] \/ inbox[v]["server"] # <<>>
<1> DEFINE gone == [v \in Users |-> {"server"}]
<1>1. gone \in [Users -> SUBSET Lab2!Ends] /\ \A v \in Users : gone[v] = {"server"}
  BY DEF Lab2!Ends
<1>2. Lab2!ClosedEnds(gone)
  BY DEF Lab2!ServerEnds
<1>3. "server" \in Lab2!Ends /\ "client" \in Lab2!Ends /\ Lab2!Other("server") = "client"
      /\ Lab2!Other("client") = "server"
  BY DEF Lab2!Ends, Lab2!Other
<1> HIDE DEF gone
<1>4. /\ InboxType'
      /\ closed' \in [Users -> SUBSET Lab2!Ends] /\ reset' \in [Users -> SUBSET Lab2!Ends]
      /\ \A v \in Users :
            /\ closed'[v] = closed[v] \cup gone[v]
            /\ \A f \in Lab2!Ends : inbox'[v][f] = IF f \in gone[v] THEN <<>> ELSE inbox[v][f]
            /\ \A f \in Lab2!Ends : f \in reset'[v] <=>
                  f \in reset[v] \/ (Lab2!Other(f) \in gone[v] /\ inbox[v][Lab2!Other(f)] # <<>>)
  BY <1>1, <1>2, ClosedIs
<1> QED
  BY <1>1, <1>3, <1>4

-----------------------------------------------------------------------------
\* TypeOK but for the number of answers owed, which OwedInv bounds.
ProgramTypes ==
  /\ main \in [Users -> {"connect", "welcome", "getline", "typed", "send", "join", "ended"}]
  /\ receiver \in [Users -> {"off", "select"}] /\ running \in [Users -> BOOLEAN]
  /\ line \in [Users -> {"none", "TEXT", "PING", "BYE"}]
  /\ up \in BOOLEAN /\ killed \in BOOLEAN
  /\ server \in [Users -> {"none", "hello", "loop", "WELCOME", "PONG", "BYE", "close", "closed"}]
  /\ owed \in [Users -> Int] /\ owedAtEnd \in [Users -> 0 .. MaxRequests + 2]
  /\ requests \in [Users -> 0 .. MaxRequests]

\* The types of the connections.
ConnectionTypes ==
  InboxType /\ closed \in [Users -> SUBSET Lab2!Ends] /\ reset \in [Users -> SUBSET Lab2!Ends]

\* The parts make up the whole.
LEMMA AllTypes ==
  ASSUME Lab2!BoundsAssumption
  PROVE  /\ Lab2!TypeOK => ProgramTypes /\ ConnectionTypes
         /\ ProgramTypes /\ ConnectionTypes /\ (\A u \in Users : owed[u] \in 0 .. MaxRequests + 2)
               => Lab2!TypeOK
<1>1. Requests \cup Answers = {"HELLO", "TEXT", "PING", "BYE", "WELCOME", "PONG"}
  BY DEF Requests, Answers
<1>2. MaxRequests \in Nat
  BY DEF Lab2!BoundsAssumption
<1>3. Lab2!TypeOK => ProgramTypes /\ ConnectionTypes
  BY <1>2, TypedInboxes DEF Lab2!TypeOK, ProgramTypes, ConnectionTypes
<1>4. ASSUME ProgramTypes, \A u \in Users : owed[u] \in 0 .. MaxRequests + 2
      PROVE  owed \in [Users -> 0 .. MaxRequests + 2]
  BY <1>4 DEF ProgramTypes
<1> QED
  BY <1>1, <1>3, <1>4 DEF Lab2!TypeOK, ProgramTypes, ConnectionTypes, InboxType, Requests, Answers

\* Every step keeps the connections' types.
LEMMA NextConnectionTypes ==
  ASSUME Lab2!BoundsAssumption, Linked, [Lab2!Next]_(Lab2!vars), \A u \in Users : main[u] \in {"typed", "send"} => line[u] # "none"
  PROVE  ConnectionTypes'
<1> USE DEF ConnectionTypes
<1>1. ConnectionTypes /\ ProgramTypes /\ "client" \in Lab2!Ends /\ "server" \in Lab2!Ends
  BY AllTypes DEF Linked, Lab2!Ends
<1>2. ASSUME UNCHANGED Lab2!connection PROVE ConnectionTypes'
  BY <1>1, <1>2 DEF Lab2!connection, InboxType
<1>3. ASSUME NEW u \in Users, NEW e \in Lab2!Ends, NEW type, Lab2!SendMessage(u, e, type),
             type \in IF e = "client" THEN Requests ELSE Answers
      PROVE  ConnectionTypes'
  BY <1>1, <1>3, Sent
<1>4. ASSUME NEW u \in Users, NEW e \in Lab2!Ends, Lab2!Taken(u, e), UNCHANGED <<closed, reset>>
      PROVE  ConnectionTypes'
  BY <1>1, <1>4, TakenIs
<1>5. ASSUME NEW u \in Users, NEW e \in Lab2!Ends, Lab2!CloseEnd(u, e) PROVE ConnectionTypes'
  BY <1>1, <1>5, EndClosed
<1>6. ASSUME Lab2!ServerEnds PROVE ConnectionTypes'
  BY <1>1, <1>6, ServerClosed
<1>7. ASSUME NEW u \in Users, Lab2!ClientEnds(u) PROVE ConnectionTypes'
  BY <1>1, <1>5, <1>7 DEF Lab2!ClientEnds
<1>8. ASSUME NEW u \in Users, Lab2!ServerStep(u) PROVE ConnectionTypes'
  <2>1. CASE Lab2!HandleClient(u)
    BY <1>1, <1>4, <1>5, <2>1 DEF Lab2!HandleClient
  <2>2. CASE Lab2!SendAnswer(u)
    <3>1. Lab2!SendMessage(u, "server", server[u]) => ConnectionTypes'
      BY <1>1, <1>3, <2>2 DEF Lab2!SendAnswer, Answers
    <3> QED
      BY <1>6, <2>2, <3>1 DEF Lab2!SendAnswer
  <2>3. CASE Lab2!CloseThread(u)
    BY <1>1, <1>5, <2>3 DEF Lab2!CloseThread
  <2> QED
    BY <1>8, <2>1, <2>2, <2>3 DEF Lab2!ServerStep
<1>9. ASSUME NEW u \in Users, Lab2!ClientStep(u) PROVE ConnectionTypes'
  <2>1. CASE Lab2!Connect(u)
    <3>1. Lab2!SendMessage(u, "client", "HELLO") => ConnectionTypes'
      BY <1>1, <1>3 DEF Requests
    <3> QED
      BY <1>7, <2>1, <3>1 DEF Lab2!Connect
  <2>2. CASE Lab2!Welcome(u)
    BY <1>1, <1>4, <1>7, <2>2 DEF Lab2!Welcome
  <2>3. CASE Lab2!LookAtRunning(u)
    BY <1>2, <2>3 DEF Lab2!LookAtRunning
  <2>4. CASE Lab2!SendLine(u)
    <3>1. line[u] \in Requests
      BY <1>1, <2>4 DEF Lab2!SendLine, ProgramTypes, Requests
    <3>2. Lab2!SendMessage(u, "client", line[u]) => ConnectionTypes'
      BY <1>1, <1>3, <3>1
    <3> QED
      BY <1>7, <2>4, <3>2 DEF Lab2!SendLine
  <2>5. CASE Lab2!ReceiveMessages(u)
    <3>1. UNCHANGED inbox => UNCHANGED Lab2!connection
      BY <2>5 DEF Lab2!ReceiveMessages, Lab2!connection
    <3> QED
      BY <1>1, <1>2, <1>4, <2>5, <3>1 DEF Lab2!ReceiveMessages
  <2>6. CASE Lab2!Join(u)
    BY <1>7, <2>6 DEF Lab2!Join
  <2> QED
    BY <1>9, <2>1, <2>2, <2>3, <2>4, <2>5, <2>6 DEF Lab2!ClientStep
<1>10. ASSUME NEW u \in Users, Lab2!Type(u) PROVE ConnectionTypes'
  BY <1>2, <1>10 DEF Lab2!Type
<1>11. ASSUME NEW u \in Users, Lab2!Kill(u) PROVE ConnectionTypes'
  BY <1>7, <1>11 DEF Lab2!Kill
<1>12. CASE Lab2!Stop
  BY <1>6, <1>12 DEF Lab2!Stop
<1>13. CASE UNCHANGED Lab2!vars
  BY <1>2, <1>13 DEF Lab2!vars
<1> QED
  BY <1>8, <1>9, <1>10, <1>11, <1>12, <1>13 DEF Lab2!Next

\* Every step keeps the programs' types.
LEMMA NextProgramTypes ==
  ASSUME Lab2!BoundsAssumption, Linked, [Lab2!Next]_(Lab2!vars)
  PROVE  ProgramTypes'
<1>1. ProgramTypes /\ MaxRequests \in Nat /\ owed \in [Users -> 0 .. MaxRequests + 2]
  BY AllTypes DEF Linked, Lab2!TypeOK, Lab2!BoundsAssumption
<1> USE DEF ProgramTypes
<1>2. ASSUME NEW u \in Users, Lab2!ClientEnds(u)
      PROVE  /\ main' = [main EXCEPT ![u] = "ended"] /\ receiver' = [receiver EXCEPT ![u] = "off"]
             /\ owedAtEnd' \in [Users -> 0 .. MaxRequests + 2]
  BY <1>1, <1>2 DEF Lab2!ClientEnds
<1>3. ASSUME NEW u \in Users, Lab2!HandleClient(u) PROVE ProgramTypes'
  BY <1>1, <1>3 DEF Lab2!HandleClient, Lab2!clients, Lab2!past, Lab2!Answer
<1>4. ASSUME NEW u \in Users, Lab2!SendAnswer(u) PROVE ProgramTypes'
  BY <1>1, <1>4 DEF Lab2!SendAnswer, Lab2!clients, Lab2!AfterAnswer, Lab2!ServerEnds
<1>5. ASSUME NEW u \in Users, Lab2!CloseThread(u) PROVE ProgramTypes'
  BY <1>1, <1>5 DEF Lab2!CloseThread, Lab2!clients, Lab2!past
<1>6. ASSUME NEW u \in Users, Lab2!Connect(u) PROVE ProgramTypes'
  <2>1. CASE up
    BY <1>1, <1>6, <2>1 DEF Lab2!Connect, Lab2!Goto
  <2>2. CASE ~up
    BY <1>1, <1>2, <1>6, <2>2 DEF Lab2!Connect
  <2> QED
    BY <2>1, <2>2
<1>7. ASSUME NEW u \in Users, Lab2!Welcome(u) PROVE ProgramTypes'
  <2>1. CASE Lab2!Message(u, "client") = "WELCOME"
    BY <1>1, <1>7, <2>1 DEF Lab2!Welcome, Lab2!Goto
  <2>2. CASE Lab2!Message(u, "client") # "WELCOME"
    BY <1>1, <1>2, <1>7, <2>2 DEF Lab2!Welcome
  <2> QED
    BY <2>1, <2>2
<1>8. ASSUME NEW u \in Users, Lab2!LookAtRunning(u) PROVE ProgramTypes'
  BY <1>1, <1>8 DEF Lab2!LookAtRunning, Lab2!Goto, Lab2!past
<1>9. ASSUME NEW u \in Users, Lab2!SendLine(u) PROVE ProgramTypes'
  <2>1. CASE Lab2!ClientEnds(u) /\ UNCHANGED <<running, owed>>
    BY <1>1, <1>2, <1>9, <2>1 DEF Lab2!SendLine
  <2>2. CASE ~(Lab2!ClientEnds(u) /\ UNCHANGED <<running, owed>>)
    <3>1. PICK stage \in {"join", "getline"} : main' = [main EXCEPT ![u] = stage]
      BY <1>9, <2>2 DEF Lab2!SendLine, Lab2!Goto
    <3>2. PICK b \in BOOLEAN : running' = [running EXCEPT ![u] = b]
      <4>1. running' = [running EXCEPT ![u] = IF line[u] = "BYE" THEN FALSE ELSE @]
        BY <1>9, <2>2 DEF Lab2!SendLine
      <4>2. CASE line[u] = "BYE"
        <5>1. running' = [running EXCEPT ![u] = FALSE]
          BY <4>1, <4>2, Zenon
        <5> QED
          BY <5>1
      <4>3. CASE line[u] # "BYE"
        <5>1. running[u] \in BOOLEAN /\ running' = [running EXCEPT ![u] = running[u]]
          BY <1>1, <4>1, <4>3
        <5> QED
          BY <5>1
      <4> QED
        BY <4>2, <4>3
    <3>3. PICK n \in Int : owed' = [owed EXCEPT ![u] = n]
      <4>1. owed' = [owed EXCEPT ![u] = IF Lab2!Answer(line[u]) = "none" THEN @ ELSE @ + 1]
        BY <1>9, <2>2 DEF Lab2!SendLine
      <4>2. owed[u] \in Int
        BY <1>1
      <4>3. CASE Lab2!Answer(line[u]) = "none"
        BY <4>1, <4>2, <4>3
      <4>4. CASE Lab2!Answer(line[u]) # "none"
        <5>1. owed[u] + 1 \in Int /\ owed' = [owed EXCEPT ![u] = owed[u] + 1]
          BY <4>1, <4>2, <4>4
        <5> QED
          BY <5>1
      <4> QED
        BY <4>3, <4>4
    <3>4. UNCHANGED <<receiver, owedAtEnd, line, up, server, requests, killed>>
      BY <1>9, <2>2 DEF Lab2!SendLine
    <3> QED
      BY <1>1, <3>1, <3>2, <3>3, <3>4
  <2> QED
    BY <2>1, <2>2
<1>10. ASSUME NEW u \in Users, Lab2!ReceiveMessages(u) PROVE ProgramTypes'
  <2>1. running' \in [Users -> BOOLEAN]
    <3>1. \/ running' = running
          \/ running' = [running EXCEPT ![u] = @ /\ Lab2!Message(u, "client") \notin {"error", "BYE"}]
      BY <1>10 DEF Lab2!ReceiveMessages
    <3>2. (running[u] /\ Lab2!Message(u, "client") \notin {"error", "BYE"}) \in BOOLEAN
      OBVIOUS
    <3> QED
      BY <1>1, <3>1, <3>2, Zenon
  <2>2. owed' \in [Users -> Int]
    <3>1. \/ owed' = owed
          \/ owed' = [owed EXCEPT ![u] = IF Lab2!Message(u, "client") = "error" THEN @ ELSE @ - 1]
      BY <1>10 DEF Lab2!ReceiveMessages
    <3> QED
      BY <1>1, <3>1
  <2>3. receiver' \in [Users -> {"off", "select"}]
    BY <1>1, <1>10 DEF Lab2!ReceiveMessages
  <2> QED
    BY <1>1, <1>10, <2>1, <2>2, <2>3 DEF Lab2!ReceiveMessages
<1>11. ASSUME NEW u \in Users, Lab2!Join(u) \/ Lab2!Kill(u) PROVE ProgramTypes'
  BY <1>1, <1>2, <1>11 DEF Lab2!Join, Lab2!Kill
<1>12. ASSUME NEW u \in Users, Lab2!Type(u) PROVE ProgramTypes'
  BY <1>1, <1>12 DEF Lab2!Type, Lab2!Goto
<1>13. CASE Lab2!Stop
  BY <1>1, <1>13 DEF Lab2!Stop, Lab2!ServerEnds, Lab2!clients, Lab2!past
<1>14. CASE UNCHANGED Lab2!vars
  BY <1>1, <1>14 DEF Lab2!vars, Lab2!clients, Lab2!past
<1> QED
  BY <1>3, <1>4, <1>5, <1>6, <1>7, <1>8, <1>9, <1>10, <1>11, <1>12, <1>13, <1>14
    DEF Lab2!Next, Lab2!ClientStep, Lab2!ServerStep

-----------------------------------------------------------------------------
\* A link whose parts are unchanged.
LEMMA LinkKept ==
  ASSUME Linked, NEW v \in Users, up' = up, main'[v] = main[v], receiver'[v] = receiver[v],
         running'[v] = running[v], server'[v] = server[v],
         inbox'[v] = inbox[v], closed'[v] = closed[v], reset'[v] = reset[v]
  PROVE  Link(v)'
BY DEF Linked, ConnectionInv, Link

\* The server ends, or a client.
LEMMA LinkOfServerEnds ==
  ASSUME Lab2!BoundsAssumption, Linked, Lab2!ServerEnds, UNCHANGED Lab2!clients
  PROVE  ConnectionInv'
<1> SUFFICES ASSUME NEW v \in Users PROVE Link(v)'
  BY DEF ConnectionInv
<1>1. Link(v) /\ ProgramTypes /\ reset[v] \subseteq Lab2!Ends /\ closed[v] \subseteq Lab2!Ends
  BY AllTypes DEF Linked, ConnectionInv, Lab2!TypeOK
<1>2. /\ up' = FALSE /\ server'[v] = "closed"
      /\ main' = main /\ receiver' = receiver /\ running' = running
  BY DEF Lab2!ServerEnds, Lab2!clients
<1>3. /\ closed'[v] = closed[v] \cup {"server"} /\ reset'[v] \subseteq Lab2!Ends
      /\ inbox'[v]["server"] = <<>> /\ inbox'[v]["client"] = inbox[v]["client"]
      /\ "server" \in reset'[v] <=> "server" \in reset[v]
      /\ "client" \in reset'[v] <=> "client" \in reset[v] \/ inbox[v]["server"] # <<>>
  BY ServerClosed
<1>4. main[v] = "connect" => reset'[v] = {}
  BY <1>1, <1>3 DEF Link, Lab2!Ends
<1> QED
  BY <1>1, <1>2, <1>3, <1>4 DEF Link, Lab2!Ends, Lab2!Other

\* A client closes its end.
LEMMA LinkOfClientEnds ==
  ASSUME Lab2!BoundsAssumption, Linked, NEW u \in Users, Lab2!ClientEnds(u), up' = up, running' = running, server' = server,
         main[u] = "connect" => ~up
  PROVE  ConnectionInv'
<1> SUFFICES ASSUME NEW v \in Users PROVE Link(v)'
  BY DEF ConnectionInv
<1>1. /\ Link(v) /\ Link(u) /\ ProgramTypes /\ closed[u] \subseteq Lab2!Ends /\ reset[u] \subseteq Lab2!Ends
  BY AllTypes DEF Linked, ConnectionInv, Lab2!TypeOK
<1>2. /\ main' = [main EXCEPT ![u] = "ended"] /\ receiver' = [receiver EXCEPT ![u] = "off"]
      /\ Lab2!CloseEnd(u, "client")
  BY DEF Lab2!ClientEnds
<1>3. "client" \in Lab2!Ends /\ Lab2!Other("client") = "server" /\ Lab2!Other("server") = "client"
  BY DEF Lab2!Ends, Lab2!Other
<1>4. /\ \A w \in Users : w # u =>
            closed'[w] = closed[w] /\ inbox'[w] = inbox[w] /\ reset'[w] = reset[w]
      /\ closed'[u] = closed[u] \cup {"client"}
      /\ inbox'[u]["client"] = <<>> /\ inbox'[u]["server"] = inbox[u]["server"]
      /\ "client" \in reset'[u] <=> "client" \in reset[u]
      /\ "server" \in reset'[u] <=> "server" \in reset[u] \/ inbox[u]["client"] # <<>>
  BY <1>2, <1>3, EndClosed
<1>5. CASE v # u
  BY <1>1, <1>2, <1>4, <1>5, LinkKept DEF ProgramTypes
<1>6. CASE v = u
  <2>1. main'[u] = "ended" /\ receiver'[u] = "off"
    BY <1>1, <1>2 DEF ProgramTypes
  <2>2. server[u] # "none"
    BY <1>1 DEF Link
  <2> QED
    BY <1>1, <1>3, <1>4, <1>6, <2>1, <2>2 DEF Link, Lab2!Ends, Lab2!Other
<1> QED
  BY <1>5, <1>6

\* The steps of the server's thread of one client.
LEMMA LinkOfServerStep ==
  ASSUME Lab2!BoundsAssumption, Linked, NEW u \in Users, Lab2!ServerStep(u)
  PROVE  ConnectionInv'
<1>1. ProgramTypes /\ closed \in [Users -> SUBSET Lab2!Ends] /\ \A v \in Users : Link(v)
  BY AllTypes DEF Linked, ConnectionInv, Lab2!TypeOK
<1>2. /\ "server" \in Lab2!Ends /\ "client" \in Lab2!Ends
      /\ Lab2!Other("server") = "client" /\ Lab2!Other("client") = "server"
  BY DEF Lab2!Ends, Lab2!Other
<1>3. UNCHANGED Lab2!clients
  BY DEF Lab2!ServerStep, Lab2!HandleClient, Lab2!SendAnswer, Lab2!CloseThread
<1>4. main' = main /\ receiver' = receiver /\ running' = running /\ line' = line
  BY <1>3 DEF Lab2!clients
<1>5. ASSUME Lab2!CloseEnd(u, "server"), server' = [server EXCEPT ![u] = "closed"], up, up' = up,
             server[u] \notin {"none", "closed"}
      PROVE  ConnectionInv'
  <2> SUFFICES ASSUME NEW v \in Users PROVE Link(v)'
    BY DEF ConnectionInv
  <2>1. /\ \A w \in Users : w # u =>
              closed'[w] = closed[w] /\ inbox'[w] = inbox[w] /\ reset'[w] = reset[w]
        /\ closed'[u] = closed[u] \cup {"server"} /\ reset' \in [Users -> SUBSET Lab2!Ends]
        /\ inbox'[u]["server"] = <<>> /\ inbox'[u]["client"] = inbox[u]["client"]
        /\ "server" \in reset'[u] <=> "server" \in reset[u]
        /\ "client" \in reset'[u] <=> "client" \in reset[u] \/ inbox[u]["server"] # <<>>
    BY <1>2, <1>5, EndClosed
  <2>2. CASE v # u
    BY <1>1, <1>4, <1>5, <2>1, <2>2, LinkKept DEF ProgramTypes
  <2>3. CASE v = u
    <3>1. server'[u] = "closed" /\ Link(u)
      BY <1>1, <1>5 DEF ProgramTypes
    <3>2. main[u] # "connect"
      BY <1>5, <3>1 DEF Link
    <3> QED
      BY <1>2, <1>4, <1>5, <2>1, <2>3, <3>1, <3>2 DEF Link, Lab2!Ends, Lab2!Other
  <2> QED
    BY <2>2, <2>3
<1>6. ASSUME NEW next, server' = [server EXCEPT ![u] = next], next \notin {"none", "hello", "closed"},
             server[u] \notin {"none", "closed"}, up, up' = up, UNCHANGED closed,
             \A v \in Users : v # u => inbox'[v] = inbox[v] /\ reset'[v] = reset[v],
             \A e \in Lab2!Ends : e \in closed[u] => inbox'[u][e] = inbox[u][e],
             \A e \in Lab2!Ends : e \in reset'[u] => e \in reset[u] \/ Lab2!Other(e) \in closed[u]
      PROVE  ConnectionInv'
  <2> SUFFICES ASSUME NEW v \in Users PROVE Link(v)'
    BY DEF ConnectionInv
  <2>1. CASE v # u
    BY <1>1, <1>4, <1>6, <2>1, LinkKept DEF ProgramTypes
  <2>2. CASE v = u
    <3>1. server'[u] = next /\ Link(u)
      BY <1>1, <1>6 DEF ProgramTypes
    <3>2. main[u] # "connect"
      BY <1>6, <3>1 DEF Link
    <3> QED
      BY <1>2, <1>4, <1>6, <2>2, <3>1, <3>2 DEF Link
  <2> QED
    BY <2>1, <2>2
<1>7. CASE Lab2!HandleClient(u)
  <2>1. CASE Lab2!CloseEnd(u, "server") /\ server' = [server EXCEPT ![u] = "closed"]
    BY <1>5, <1>7, <2>1 DEF Lab2!HandleClient
  <2>2. CASE ~(Lab2!CloseEnd(u, "server") /\ server' = [server EXCEPT ![u] = "closed"])
    <3>1. PICK next : /\ server' = [server EXCEPT ![u] = next]
                      /\ next \notin {"none", "hello", "closed"}
      <4>1. server' = [server EXCEPT ![u] = IF Lab2!Answer(Lab2!Message(u, "server")) = "none" THEN "loop"
                                            ELSE Lab2!Answer(Lab2!Message(u, "server"))]
        BY <1>7, <2>2 DEF Lab2!HandleClient
      <4>2. Lab2!Answer(Lab2!Message(u, "server")) \in {"WELCOME", "PONG", "BYE", "none"}
        BY DEF Lab2!Answer
      <4>3. ASSUME NEW next, next = IF Lab2!Answer(Lab2!Message(u, "server")) = "none" THEN "loop"
                                    ELSE Lab2!Answer(Lab2!Message(u, "server"))
            PROVE  next \notin {"none", "hello", "closed"}
        BY <4>2, <4>3
      <4> QED
        BY <4>1, <4>3
    <3>2. Lab2!Taken(u, "server") /\ UNCHANGED <<closed, reset, up>> /\ up
      BY <1>7, <2>2 DEF Lab2!HandleClient
    <3>3. /\ \A v \in Users : v # u => inbox'[v] = inbox[v]
          /\ inbox'[u]["client"] = inbox[u]["client"]
      BY <1>2, <3>2, TakenIs
    <3>4. server[u] \in {"hello", "loop"} /\ Link(u)
      BY <1>1, <1>7 DEF Lab2!HandleClient
    <3>5. "server" \notin closed[u]
      BY <3>4 DEF Link
    <3> QED
      BY <1>6, <3>1, <3>2, <3>3, <3>4, <3>5 DEF Lab2!Ends
  <2> QED
    BY <2>1, <2>2
<1>8. CASE Lab2!SendAnswer(u)
  <2>1. CASE Lab2!ServerEnds
    BY <1>3, <2>1, LinkOfServerEnds
  <2>2. CASE ~Lab2!ServerEnds
    <3>1. /\ Lab2!SendMessage(u, "server", server[u]) /\ UNCHANGED up /\ up
          /\ server' = [server EXCEPT ![u] = Lab2!AfterAnswer(u)]
          /\ server[u] \in Answers
      BY <1>8, <2>2 DEF Lab2!SendAnswer, Answers
    <3>2. /\ closed' = closed
          /\ \A v \in Users : v # u => inbox'[v] = inbox[v] /\ reset'[v] = reset[v]
          /\ inbox'[u]["server"] = inbox[u]["server"]
          /\ "client" \in closed[u] => inbox' = inbox /\ reset'[u] = reset[u] \cup {"server"}
          /\ "client" \notin closed[u] => reset' = reset
      BY <1>2, <3>1, Sent
    <3>3. /\ Lab2!AfterAnswer(u) \notin {"none", "hello", "closed"} /\ server[u] \notin {"none", "closed"}
      BY <3>1 DEF Lab2!AfterAnswer, Answers
    <3>4. \A e \in Lab2!Ends : /\ e \in closed[u] => inbox'[u][e] = inbox[u][e]
                               /\ e \in reset'[u] => e \in reset[u] \/ Lab2!Other(e) \in closed[u]
      BY <1>2, <3>2 DEF Lab2!Ends
    <3> QED
      BY <1>6, <3>1, <3>2, <3>3, <3>4
  <2> QED
    BY <2>1, <2>2
<1>9. CASE Lab2!CloseThread(u)
  BY <1>5, <1>9 DEF Lab2!CloseThread
<1> QED
  BY <1>7, <1>8, <1>9 DEF Lab2!ServerStep

\* A step of a connected client that goes on.
LEMMA LinkOfClientGoingOn ==
  ASSUME Lab2!BoundsAssumption, Linked, NEW u \in Users, NEW stage, NEW work,
         up' = up, server' = server, closed' = closed,
         main' = [main EXCEPT ![u] = stage], receiver' = [receiver EXCEPT ![u] = work],
         main[u] \notin {"connect", "ended"}, stage \notin {"connect", "ended"},
         work = "select" => stage \in {"getline", "typed", "send", "join"},
         \A v \in Users : v # u => /\ inbox'[v] = inbox[v] /\ reset'[v] = reset[v]
                                   /\ running'[v] = running[v],
         \A e \in Lab2!Ends : e \in closed[u] => inbox'[u][e] = <<>>,
         \A e \in Lab2!Ends : e \in reset'[u] => Lab2!Other(e) \in closed[u],
         server[u] = "hello" => inbox'[u]["server"] # <<>> /\ Head(inbox'[u]["server"]) = "HELLO"
  PROVE  ConnectionInv'
<1>1. ProgramTypes /\ \A v \in Users : Link(v)
  BY AllTypes DEF Linked, ConnectionInv
<1> SUFFICES ASSUME NEW v \in Users PROVE Link(v)'
  BY DEF ConnectionInv
<1>2. CASE v # u
  BY <1>1, <1>2, LinkKept DEF ProgramTypes
<1>3. CASE v = u
  <2>1. main'[u] = stage /\ receiver'[u] = work /\ Link(u)
    BY <1>1 DEF ProgramTypes
  <2> QED
    BY <1>3, <2>1 DEF Link
<1> QED
  BY <1>2, <1>3

\* The steps of the client's threads.
LEMMA LinkOfClientStep ==
  ASSUME Lab2!BoundsAssumption, Linked, NEW u \in Users, Lab2!ClientStep(u) \/ Lab2!Type(u) \/ Lab2!Kill(u),
         main[u] \in {"typed", "send"} => line[u] # "none"
  PROVE  ConnectionInv'
<1>1. ProgramTypes /\ ConnectionTypes /\ \A v \in Users : Link(v)
  BY AllTypes DEF Linked, ConnectionInv
<1>2. /\ "server" \in Lab2!Ends /\ "client" \in Lab2!Ends
      /\ Lab2!Other("server") = "client" /\ Lab2!Other("client") = "server"
  BY DEF Lab2!Ends, Lab2!Other
<1>3. ASSUME Lab2!ClientEnds(u), up' = up, running' = running, server' = server,
             main[u] = "connect" => ~up
      PROVE  ConnectionInv'
  BY <1>3, LinkOfClientEnds
<1>4. ASSUME UNCHANGED <<up, server, Lab2!connection, receiver, running>>, NEW stage,
             main' = [main EXCEPT ![u] = stage],
             main[u] \in {"getline", "typed", "send"}, stage \in {"typed", "send", "join"}
      PROVE  ConnectionInv'
  <2>1. receiver' = [receiver EXCEPT ![u] = receiver[u]]
    BY <1>1, <1>4 DEF ProgramTypes
  <2>2. \A e \in Lab2!Ends : /\ e \in closed[u] => inbox[u][e] = <<>>
                             /\ e \in reset[u] => Lab2!Other(e) \in closed[u]
    BY <1>1 DEF Link
  <2>3. server[u] = "hello" => inbox[u]["server"] # <<>> /\ Head(inbox[u]["server"]) = "HELLO"
    BY <1>1 DEF Link
  <2> QED
    BY <1>4, <2>1, <2>2, <2>3, LinkOfClientGoingOn DEF Lab2!connection
<1>5. CASE Lab2!Connect(u)
  <2>1. CASE up
    <3>1. /\ main[u] = "connect" /\ server' = [server EXCEPT ![u] = "hello"]
          /\ Lab2!SendMessage(u, "client", "HELLO") /\ up' = up /\ running' = running
          /\ main' = [main EXCEPT ![u] = "welcome"] /\ receiver' = receiver
      BY <1>5, <2>1 DEF Lab2!Connect, Lab2!Goto
    <3>2. "server" \notin closed[u] /\ "client" \notin closed[u] /\ Link(u)
      BY <1>1, <2>1, <3>1 DEF Link
    <3>3. /\ closed' = closed /\ reset' = reset
          /\ \A v \in Users : v # u => inbox'[v] = inbox[v]
          /\ inbox'[u]["client"] = inbox[u]["client"]
          /\ inbox'[u]["server"] = Append(inbox[u]["server"], "HELLO")
      BY <1>2, <3>1, <3>2, Sent DEF Requests
    <3>4. inbox'[u]["server"] # <<>> /\ Head(inbox'[u]["server"]) = "HELLO"
      <4>1. inbox[u]["server"] = <<>>
        BY <3>1, <3>2 DEF Link
      <4> QED
        BY <3>3, <4>1
    <3> SUFFICES ASSUME NEW v \in Users PROVE Link(v)'
      BY DEF ConnectionInv
    <3>5. CASE v # u
      BY <1>1, <3>1, <3>3, <3>5, LinkKept DEF ProgramTypes
    <3>6. CASE v = u
      <4>1. main'[u] = "welcome" /\ server'[u] = "hello"
        BY <1>1, <3>1 DEF ProgramTypes
      <4>2. receiver[u] = "off" /\ reset[u] = {}
        BY <3>1, <3>2 DEF Link
      <4> QED
        BY <1>2, <2>1, <3>1, <3>2, <3>3, <3>4, <3>6, <4>1, <4>2 DEF Link, Lab2!Ends
    <3> QED
      BY <3>5, <3>6
  <2>2. CASE ~up
    BY <1>3, <1>5, <2>2 DEF Lab2!Connect
  <2> QED
    BY <2>1, <2>2
<1>6. CASE Lab2!Welcome(u)
  <2>1. CASE Lab2!Message(u, "client") = "WELCOME"
    <3>1. /\ Lab2!Taken(u, "client") /\ main' = [main EXCEPT ![u] = "getline"] /\ main[u] = "welcome"
          /\ receiver' = [receiver EXCEPT ![u] = "select"]
          /\ UNCHANGED <<closed, reset, up, server, running>>
      BY <1>6, <2>1 DEF Lab2!Welcome, Lab2!Goto
    <3>2. /\ \A v \in Users : v # u => inbox'[v] = inbox[v]
          /\ inbox'[u]["server"] = inbox[u]["server"]
      BY <1>2, <3>1, TakenIs
    <3>3. "client" \notin closed[u] /\ Link(u)
      BY <1>1, <3>1 DEF Link
    <3>4. /\ \A e \in Lab2!Ends : /\ e \in closed[u] => inbox'[u][e] = <<>>
                                  /\ e \in reset[u] => Lab2!Other(e) \in closed[u]
          /\ server[u] = "hello" =>
                inbox'[u]["server"] # <<>> /\ Head(inbox'[u]["server"]) = "HELLO"
      BY <3>2, <3>3 DEF Link, Lab2!Ends
    <3>5. /\ main[u] \notin {"connect", "ended"} /\ "getline" \notin {"connect", "ended"}
          /\ \A v \in Users : v # u => reset'[v] = reset[v] /\ running'[v] = running[v]
          /\ \A e \in Lab2!Ends : e \in reset'[u] => Lab2!Other(e) \in closed[u]
      BY <3>1, <3>4
    <3> QED
      BY <3>1, <3>2, <3>4, <3>5, LinkOfClientGoingOn
  <2>2. CASE Lab2!Message(u, "client") # "WELCOME"
    BY <1>3, <1>6, <2>2 DEF Lab2!Welcome
  <2> QED
    BY <2>1, <2>2
<1>7. CASE Lab2!LookAtRunning(u)
  BY <1>4, <1>7 DEF Lab2!LookAtRunning, Lab2!Goto
<1>8. CASE Lab2!SendLine(u)
  <2>1. CASE Lab2!ClientEnds(u) /\ running' = running
    BY <1>3, <1>8, <2>1 DEF Lab2!SendLine
  <2>2. CASE ~(Lab2!ClientEnds(u) /\ running' = running)
    <3>1. PICK stage \in {"join", "getline"} : main' = [main EXCEPT ![u] = stage]
      BY <1>8, <2>2 DEF Lab2!SendLine, Lab2!Goto
    <3>2. /\ Lab2!SendMessage(u, "client", line[u]) /\ UNCHANGED <<receiver, up, server>>
          /\ running' = [running EXCEPT ![u] = IF line[u] = "BYE" THEN FALSE ELSE @]
          /\ main[u] = "send" /\ line[u] \in Requests
      BY <1>1, <1>8, <2>2 DEF Lab2!SendLine, ProgramTypes, Requests
    <3>3. /\ closed' = closed
          /\ \A v \in Users : v # u => inbox'[v] = inbox[v] /\ reset'[v] = reset[v]
          /\ inbox'[u]["client"] = inbox[u]["client"]
          /\ "server" \in closed[u] => inbox' = inbox /\ reset'[u] = reset[u] \cup {"client"}
          /\ "server" \notin closed[u] =>
                inbox'[u]["server"] = Append(inbox[u]["server"], line[u]) /\ reset' = reset
      BY <1>2, <3>2, Sent
    <3>4. Link(u) /\ inbox[u]["server"] \in Seq(Requests)
      BY <1>1 DEF ConnectionTypes, InboxType
    <3>5. "server" \notin closed[u] /\ inbox[u]["server"] # <<>> =>
             /\ inbox'[u]["server"] # <<>>
             /\ Head(inbox'[u]["server"]) = Head(inbox[u]["server"])
      <4>1. ASSUME inbox[u]["server"] # <<>>
            PROVE  LET q == Append(inbox[u]["server"], line[u]) IN
                   q # <<>> /\ Head(q) = Head(inbox[u]["server"])
        BY <3>2, <3>4, <4>1, AppendProperties
      <4> QED
        BY <3>3, <4>1
    <3>6. /\ \A e \in Lab2!Ends : /\ e \in closed[u] => inbox'[u][e] = <<>>
                                  /\ e \in reset'[u] => Lab2!Other(e) \in closed[u]
          /\ server[u] = "hello" =>
                inbox'[u]["server"] # <<>> /\ Head(inbox'[u]["server"]) = "HELLO"
      BY <1>2, <3>3, <3>4, <3>5 DEF Link, Lab2!Ends
    <3>7. receiver' = [receiver EXCEPT ![u] = receiver[u]]
      BY <1>1, <3>2 DEF ProgramTypes
    <3>8. \A v \in Users : v # u => running'[v] = running[v]
      BY <1>1, <3>2, Zenon DEF ProgramTypes
    <3>9. /\ main[u] \notin {"connect", "ended"} /\ stage \notin {"connect", "ended"}
          /\ stage \in {"getline", "typed", "send", "join"}
      BY <3>2
    <3> QED
      BY ZenonT(30), <3>1, <3>2, <3>3, <3>6, <3>7, <3>8, <3>9, LinkOfClientGoingOn
  <2> QED
    BY <2>1, <2>2
<1>9. CASE Lab2!ReceiveMessages(u)
  <2>1. /\ receiver[u] = "select" /\ Link(u)
        /\ UNCHANGED <<main, up, server, closed, reset>>
    BY <1>1, <1>9 DEF Lab2!ReceiveMessages
  <2>2. main[u] \in {"getline", "typed", "send", "join"} /\ "client" \notin closed[u]
    BY <2>1 DEF Link
  <2>3. /\ \A v \in Users : v # u => inbox'[v] = inbox[v]
        /\ inbox'[u]["server"] = inbox[u]["server"]
    <3>1. Lab2!Taken(u, "client") \/ inbox' = inbox
      BY <1>9 DEF Lab2!ReceiveMessages
    <3> QED
      BY <1>2, <3>1, TakenIs
  <2>4. PICK work : receiver' = [receiver EXCEPT ![u] = work]
    <3>1. \/ receiver' = [receiver EXCEPT ![u] = "off"]
          \/ receiver' = [receiver EXCEPT ![u] = IF Lab2!Message(u, "client") = "error" THEN "off" ELSE @]
      BY <1>9 DEF Lab2!ReceiveMessages
    <3>2. receiver' = [receiver EXCEPT ![u] = "off"] \/ receiver' = [receiver EXCEPT ![u] = receiver[u]]
      BY <3>1
    <3> QED
      BY <3>2
  <2>5. \A v \in Users : v # u => running'[v] = running[v]
    <3>1. \/ running' = running
          \/ running' = [running EXCEPT ![u] = @ /\ Lab2!Message(u, "client") \notin {"error", "BYE"}]
      BY <1>9 DEF Lab2!ReceiveMessages
    <3> QED
      BY <1>1, <3>1, Zenon DEF ProgramTypes
  <2>6. main' = [main EXCEPT ![u] = main[u]]
    BY <1>1, <2>1 DEF ProgramTypes
  <2>7. /\ \A e \in Lab2!Ends : /\ e \in closed[u] => inbox'[u][e] = <<>>
                                /\ e \in reset'[u] => Lab2!Other(e) \in closed[u]
        /\ server[u] = "hello" =>
              inbox'[u]["server"] # <<>> /\ Head(inbox'[u]["server"]) = "HELLO"
    BY <2>1, <2>2, <2>3 DEF Link, Lab2!Ends
  <2> QED
    BY <2>1, <2>2, <2>3, <2>4, <2>5, <2>6, <2>7, LinkOfClientGoingOn
<1>10. CASE Lab2!Join(u) \/ Lab2!Kill(u)
  BY <1>3, <1>10 DEF Lab2!Join, Lab2!Kill
<1>11. CASE Lab2!Type(u)
  BY <1>4, <1>11 DEF Lab2!Type, Lab2!Goto
<1> QED
  BY <1>5, <1>6, <1>7, <1>8, <1>9, <1>10, <1>11 DEF Lab2!ClientStep

\* Every step keeps the links.
LEMMA NextConnectionInv ==
  ASSUME Lab2!BoundsAssumption, Linked, [Lab2!Next]_(Lab2!vars), \A u \in Users : main[u] \in {"typed", "send"} => line[u] # "none"
  PROVE  ConnectionInv'
<1>1. CASE Lab2!Stop
  BY <1>1, LinkOfServerEnds DEF Lab2!Stop
<1>2. ASSUME NEW u \in Users, Lab2!ClientStep(u) \/ Lab2!ServerStep(u) \/ Lab2!Type(u) \/ Lab2!Kill(u)
      PROVE  ConnectionInv'
  BY <1>2, LinkOfServerStep, LinkOfClientStep
<1>3. CASE UNCHANGED Lab2!vars
  <2>1. UNCHANGED <<Lab2!clients, up, server, Lab2!connection>>
    BY <1>3 DEF Lab2!vars
  <2> QED
    BY <2>1, LinkKept DEF Linked, ConnectionInv, Lab2!clients, Lab2!connection
<1> QED
  BY <1>1, <1>2, <1>3 DEF Lab2!Next

-----------------------------------------------------------------------------
\* BYE is among the messages.
HasBye(q) == \E i \in 1 .. Len(q) : q[i] = "BYE"

\* A BYE comes only from a user who quits, and only then the server closes while it runs.
Quitting(u) ==
  /\ line[u] = "BYE" => main[u] \in {"typed", "send", "join", "ended"}
  /\ main[u] \in {"typed", "send"} => line[u] # "none"
  /\ server[u] \in {"BYE", "close"} => line[u] = "BYE"
  /\ HasBye(inbox[u]["server"]) \/ HasBye(inbox[u]["client"]) => line[u] = "BYE"
  /\ up /\ "server" \in closed[u] => line[u] = "BYE" \/ "client" \in closed[u]
  /\ ~running[u] => line[u] = "BYE" \/ ~up

\* So for every client.
ByeInv == \A u \in Users : Quitting(u)

\* BYE in a queue at whose ends something happens.
LEMMA ByeInQueues ==
  ASSUME NEW T, NEW q \in Seq(T)
  PROVE  /\ \A x \in T : HasBye(Append(q, x)) => HasBye(q) \/ x = "BYE"
         /\ q # <<>> /\ HasBye(Tail(q)) => HasBye(q)
         /\ q # <<>> /\ Head(q) = "BYE" => HasBye(q)
         /\ ~HasBye(<<>>)
<1>1. ASSUME NEW x \in T, HasBye(Append(q, x)) PROVE HasBye(q) \/ x = "BYE"
  <2>1. PICK i \in 1 .. Len(q) + 1 : Append(q, x)[i] = "BYE"
    BY <1>1, AppendProperties DEF HasBye
  <2>2. CASE i = Len(q) + 1
    BY <2>1, <2>2, AppendProperties
  <2>3. CASE i # Len(q) + 1
    <3>1. i \in 1 .. Len(q) /\ Append(q, x)[i] = q[i]
      BY <2>3, AppendProperties, LenProperties
    <3> QED
      BY <2>1, <3>1 DEF HasBye
  <2> QED
    BY <2>2, <2>3
<1>2. ASSUME q # <<>>, HasBye(Tail(q)) PROVE HasBye(q)
  <2>1. PICK i \in 1 .. Len(Tail(q)) : Tail(q)[i] = "BYE"
    BY <1>2 DEF HasBye
  <2>2. i + 1 \in 1 .. Len(q) /\ Tail(q)[i] = q[i + 1]
    BY <1>2, HeadTailProperties, LenProperties
  <2> QED
    BY <2>1, <2>2 DEF HasBye
<1>3. ASSUME q # <<>>, Head(q) = "BYE" PROVE HasBye(q)
  <2>1. 1 \in 1 .. Len(q) /\ Head(q) = q[1]
    BY <1>3, LenProperties, HeadTailProperties, EmptySeq
  <2> QED
    BY <1>3, <2>1 DEF HasBye
<1> QED
  BY <1>1, <1>2, <1>3 DEF HasBye

\* Nothing that concerns a user has happened.
LEMMA QuittingKept ==
  ASSUME ByeInv, NEW v \in Users, up' = up, main'[v] = main[v], running'[v] = running[v],
         line'[v] = line[v], server'[v] = server[v], inbox'[v] = inbox[v], closed'[v] = closed[v]
  PROVE  Quitting(v)'
BY DEF ByeInv, Quitting, HasBye

\* The server ends, or a client.
LEMMA QuittingOfServerEnds ==
  ASSUME Linked, ByeInv, Lab2!ServerEnds, UNCHANGED Lab2!clients
  PROVE  ByeInv'
<1> SUFFICES ASSUME NEW v \in Users PROVE Quitting(v)'
  BY DEF ByeInv
<1>1. /\ inbox'[v]["server"] = <<>> /\ inbox'[v]["client"] = inbox[v]["client"]
  BY ServerClosed
<1>2. up' = FALSE /\ server'[v] = "closed" /\ Quitting(v)
  BY DEF Lab2!ServerEnds, ByeInv
<1>3. ~HasBye(<<>>)
  BY DEF HasBye
<1>4. ~HasBye(inbox'[v]["server"]) /\ (HasBye(inbox'[v]["client"]) => line[v] = "BYE")
  BY <1>1, <1>2, <1>3 DEF Quitting
<1> QED
  BY <1>2, <1>4 DEF Quitting, Lab2!clients

\* A client that closes its end asks for nothing more.
LEMMA QuittingOfClientEnds ==
  ASSUME Lab2!BoundsAssumption, Linked, ByeInv, NEW u \in Users, Lab2!ClientEnds(u), UNCHANGED <<up, running, line, server>>
  PROVE  ByeInv'
<1> SUFFICES ASSUME NEW v \in Users PROVE Quitting(v)'
  BY DEF ByeInv
<1>1. ProgramTypes /\ Quitting(v)
  BY AllTypes DEF Linked, ByeInv
<1>2. /\ \A w \in Users : w # u => closed'[w] = closed[w] /\ inbox'[w] = inbox[w]
      /\ closed'[u] = closed[u] \cup {"client"}
      /\ inbox'[u]["client"] = <<>> /\ inbox'[u]["server"] = inbox[u]["server"]
  <2>1. Lab2!CloseEnd(u, "client") /\ "client" \in Lab2!Ends /\ Lab2!Other("client") = "server"
    BY DEF Lab2!ClientEnds, Lab2!Ends, Lab2!Other
  <2> QED
    BY <2>1, EndClosed
<1>3. main' = [main EXCEPT ![u] = "ended"]
  BY DEF Lab2!ClientEnds
<1>4. CASE v # u
  BY <1>1, <1>2, <1>3, <1>4, QuittingKept DEF ProgramTypes
<1>5. CASE v = u
  <2>1. main'[u] = "ended" /\ "client" \in closed'[u]
    BY <1>1, <1>2, <1>3 DEF ProgramTypes
  <2>2. ~HasBye(<<>>)
    BY DEF HasBye
  <2>3. HasBye(inbox'[u]["server"]) \/ HasBye(inbox'[u]["client"]) => line[u] = "BYE"
    BY <1>1, <1>2, <1>5, <2>2 DEF Quitting
  <2> QED
    BY <1>1, <1>5, <2>1, <2>3 DEF Quitting
<1> QED
  BY <1>4, <1>5

\* The steps of the server's thread of one client.
LEMMA QuittingOfServerStep ==
  ASSUME Lab2!BoundsAssumption, Linked, ByeInv, NEW u \in Users, Lab2!ServerStep(u)
  PROVE  ByeInv'
<1>1. /\ ProgramTypes /\ ConnectionTypes /\ Link(u) /\ \A v \in Users : Quitting(v)
      /\ inbox[u]["server"] \in Seq(Requests) /\ inbox[u]["client"] \in Seq(Answers)
  BY AllTypes DEF Linked, ConnectionInv, ByeInv, ConnectionTypes, InboxType
<1>2. /\ "server" \in Lab2!Ends /\ "client" \in Lab2!Ends
      /\ Lab2!Other("server") = "client" /\ Lab2!Other("client") = "server"
  BY DEF Lab2!Ends, Lab2!Other
<1>3. UNCHANGED Lab2!clients
  BY DEF Lab2!ServerStep, Lab2!HandleClient, Lab2!SendAnswer, Lab2!CloseThread
<1>4. main' = main /\ receiver' = receiver /\ running' = running /\ line' = line
  BY <1>3 DEF Lab2!clients
<1>5. ASSUME Lab2!CloseEnd(u, "server"), server' = [server EXCEPT ![u] = "closed"], up' = up,
             line[u] = "BYE" \/ "client" \in closed[u]
      PROVE  ByeInv'
  <2> SUFFICES ASSUME NEW v \in Users PROVE Quitting(v)'
    BY DEF ByeInv
  <2>1. /\ \A w \in Users : w # u => closed'[w] = closed[w] /\ inbox'[w] = inbox[w]
        /\ closed'[u] = closed[u] \cup {"server"}
        /\ inbox'[u]["server"] = <<>> /\ inbox'[u]["client"] = inbox[u]["client"]
    BY <1>2, <1>5, EndClosed
  <2>2. CASE v # u
    BY <1>1, <1>4, <1>5, <2>1, <2>2, QuittingKept DEF ProgramTypes
  <2>3. CASE v = u
    <3>1. server'[u] = "closed" /\ ~HasBye(<<>>) /\ Quitting(u)
      BY <1>1, <1>5 DEF ProgramTypes, HasBye
    <3>2. HasBye(inbox'[u]["server"]) \/ HasBye(inbox'[u]["client"]) => line[u] = "BYE"
      BY <2>1, <3>1 DEF Quitting
    <3> QED
      BY <1>4, <1>5, <2>1, <2>3, <3>1, <3>2 DEF Quitting
  <2> QED
    BY <2>2, <2>3
<1>6. ASSUME NEW next, server' = [server EXCEPT ![u] = next], up' = up, UNCHANGED closed,
             next \in {"BYE", "close"} => line[u] = "BYE",
             \A v \in Users : v # u => inbox'[v] = inbox[v],
             HasBye(inbox'[u]["server"]) \/ HasBye(inbox'[u]["client"]) => line[u] = "BYE"
      PROVE  ByeInv'
  <2> SUFFICES ASSUME NEW v \in Users PROVE Quitting(v)'
    BY DEF ByeInv
  <2>1. CASE v # u
    BY <1>1, <1>4, <1>6, <2>1, QuittingKept DEF ProgramTypes
  <2>2. CASE v = u
    <3>1. server'[u] = next /\ Quitting(u)
      BY <1>1, <1>6 DEF ProgramTypes
    <3> QED
      BY <1>4, <1>6, <2>2, <3>1 DEF Quitting
  <2> QED
    BY <2>1, <2>2
<1>7. CASE Lab2!HandleClient(u)
  <2> DEFINE m == Lab2!Message(u, "server")
  <2>1. Lab2!Readable(u, "server") /\ server[u] \in {"hello", "loop"} /\ up' = up /\ up
    BY <1>7 DEF Lab2!HandleClient
  <2>2. CASE m = "error" \/ (server[u] = "hello" /\ m # "HELLO")
    <3>1. Lab2!CloseEnd(u, "server") /\ server' = [server EXCEPT ![u] = "closed"]
      BY <1>7, <2>2 DEF Lab2!HandleClient
    <3>2. inbox[u]["server"] = <<>>
      <4>1. ASSUME inbox[u]["server"] # <<>> PROVE FALSE
        <5>1. m = Head(inbox[u]["server"]) /\ Head(inbox[u]["server"]) \in Requests
          BY <1>1, <4>1, HeadTailProperties DEF Lab2!Message
        <5> QED
          BY <1>1, <2>2, <5>1 DEF Requests, Link
      <4> QED
        BY <4>1
    <3>3. "client" \in closed[u]
      BY <1>1, <1>2, <2>1, <3>2 DEF Lab2!Readable, Link
    <3> QED
      BY <1>5, <2>1, <3>1, <3>3
  <2>3. CASE ~(m = "error" \/ (server[u] = "hello" /\ m # "HELLO"))
    <3>1. /\ server' = [server EXCEPT ![u] = IF Lab2!Answer(m) = "none" THEN "loop" ELSE Lab2!Answer(m)]
          /\ Lab2!Taken(u, "server") /\ UNCHANGED <<closed, reset>>
      BY <1>7, <2>3 DEF Lab2!HandleClient
    <3>2. inbox[u]["server"] # <<>>
      BY <2>3 DEF Lab2!Message
    <3>3. /\ \A v \in Users : v # u => inbox'[v] = inbox[v]
          /\ inbox'[u]["client"] = inbox[u]["client"]
          /\ inbox'[u]["server"] = Tail(inbox[u]["server"]) /\ m = Head(inbox[u]["server"])
          /\ m \in Requests
      BY <1>2, <3>1, <3>2, TakenIs
    <3>4. /\ HasBye(inbox'[u]["server"]) => HasBye(inbox[u]["server"])
          /\ m = "BYE" => HasBye(inbox[u]["server"])
      BY <1>1, <3>2, <3>3, ByeInQueues
    <3>5. Quitting(u)
      BY <1>1
    <3>6. PICK next : next = IF Lab2!Answer(m) = "none" THEN "loop" ELSE Lab2!Answer(m)
      OBVIOUS
    <3>7. next \in {"BYE", "close"} => m = "BYE"
      BY <3>3, <3>6 DEF Lab2!Answer, Requests
    <3>8. HasBye(inbox'[u]["server"]) \/ HasBye(inbox'[u]["client"]) => line[u] = "BYE"
      BY <3>3, <3>4, <3>5 DEF Quitting
    <3>9. next \in {"BYE", "close"} => line[u] = "BYE"
      BY <3>4, <3>5, <3>7 DEF Quitting
    <3> QED
      BY <1>6, <2>1, <3>1, <3>3, <3>6, <3>8, <3>9
  <2> QED
    BY <2>2, <2>3
<1>8. CASE Lab2!SendAnswer(u)
  <2>1. CASE Lab2!ServerEnds
    BY <1>3, <2>1, QuittingOfServerEnds
  <2>2. CASE ~Lab2!ServerEnds
    <3>1. /\ Lab2!SendMessage(u, "server", server[u]) /\ UNCHANGED up
          /\ server' = [server EXCEPT ![u] = Lab2!AfterAnswer(u)]
          /\ server[u] \in Answers
      BY <1>8, <2>2 DEF Lab2!SendAnswer, Answers
    <3>2. /\ closed' = closed
          /\ \A v \in Users : v # u => inbox'[v] = inbox[v]
          /\ inbox'[u]["server"] = inbox[u]["server"]
          /\ \/ inbox'[u]["client"] = inbox[u]["client"]
             \/ inbox'[u]["client"] = Append(inbox[u]["client"], server[u])
      BY <1>2, <3>1, Sent
    <3>3. Quitting(u)
      BY <1>1
    <3>4. Lab2!AfterAnswer(u) \in {"BYE", "close"} => server[u] = "BYE"
      BY DEF Lab2!AfterAnswer
    <3>5. HasBye(inbox'[u]["client"]) => HasBye(inbox[u]["client"]) \/ server[u] = "BYE"
      <4>1. HasBye(Append(inbox[u]["client"], server[u])) =>
               HasBye(inbox[u]["client"]) \/ server[u] = "BYE"
        BY <1>1, <3>1, ByeInQueues
      <4>2. inbox'[u]["client"] = inbox[u]["client"] =>
               (HasBye(inbox'[u]["client"]) => HasBye(inbox[u]["client"]))
        OBVIOUS
      <4> QED
        BY <3>2, <4>1, <4>2
    <3>6. /\ HasBye(inbox'[u]["server"]) \/ HasBye(inbox'[u]["client"]) => line[u] = "BYE"
          /\ Lab2!AfterAnswer(u) \in {"BYE", "close"} => line[u] = "BYE"
      BY <3>2, <3>3, <3>4, <3>5 DEF Quitting
    <3> QED
      BY <1>6, <3>1, <3>2, <3>6
  <2> QED
    BY <2>1, <2>2
<1>9. CASE Lab2!CloseThread(u)
  <2>1. server[u] = "close" /\ Quitting(u)
    BY <1>1, <1>9 DEF Lab2!CloseThread
  <2> QED
    BY <1>5, <1>9, <2>1 DEF Lab2!CloseThread, Quitting
<1> QED
  BY <1>7, <1>8, <1>9 DEF Lab2!ServerStep

\* A step of a client that goes on.
LEMMA QuittingOfClientGoingOn ==
  ASSUME Lab2!BoundsAssumption, Linked, ByeInv, NEW u \in Users, NEW stage, UNCHANGED <<up, closed>>,
         main' = [main EXCEPT ![u] = stage],
         \A v \in Users : v # u => /\ inbox'[v] = inbox[v] /\ running'[v] = running[v]
                                   /\ line'[v] = line[v] /\ server'[v] = server[v],
         line'[u] = "BYE" => stage \in {"typed", "send", "join", "ended"},
         line[u] = "BYE" => line'[u] = "BYE",
         stage \in {"typed", "send"} => line'[u] # "none",
         server'[u] \notin {"BYE", "close"} \/ server'[u] = server[u],
         HasBye(inbox'[u]["server"]) \/ HasBye(inbox'[u]["client"]) => line'[u] = "BYE",
         ~running'[u] => line'[u] = "BYE" \/ ~up
  PROVE  ByeInv'
<1>1. ProgramTypes /\ \A v \in Users : Quitting(v)
  BY AllTypes DEF Linked, ByeInv
<1> SUFFICES ASSUME NEW v \in Users PROVE Quitting(v)'
  BY DEF ByeInv
<1>2. CASE v # u
  BY <1>1, <1>2, QuittingKept DEF ProgramTypes
<1>3. CASE v = u
  <2>1. main'[u] = stage /\ Quitting(u)
    BY <1>1 DEF ProgramTypes
  <2> QED
    BY <1>3, <2>1 DEF Quitting
<1> QED
  BY <1>2, <1>3

\* The steps of the client's threads.
LEMMA QuittingOfClientStep ==
  ASSUME Lab2!BoundsAssumption, Linked, ByeInv, NEW u \in Users, Lab2!ClientStep(u) \/ Lab2!Type(u) \/ Lab2!Kill(u)
  PROVE  ByeInv'
<1>1. /\ ProgramTypes /\ ConnectionTypes /\ Link(u) /\ Quitting(u)
      /\ inbox[u]["server"] \in Seq(Requests) /\ inbox[u]["client"] \in Seq(Answers)
  BY AllTypes DEF Linked, ConnectionInv, ByeInv, ConnectionTypes, InboxType
<1>2. /\ "server" \in Lab2!Ends /\ "client" \in Lab2!Ends
      /\ Lab2!Other("server") = "client" /\ Lab2!Other("client") = "server"
  BY DEF Lab2!Ends, Lab2!Other
<1>3. HasBye(inbox[u]["server"]) \/ HasBye(inbox[u]["client"]) => line[u] = "BYE"
  BY <1>1 DEF Quitting
<1>4. ASSUME Lab2!Taken(u, "client")
      PROVE  /\ \A v \in Users : v # u => inbox'[v] = inbox[v]
             /\ HasBye(inbox'[u]["server"]) \/ HasBye(inbox'[u]["client"]) => line[u] = "BYE"
  <2>1. /\ \A v \in Users : v # u => inbox'[v] = inbox[v]
        /\ inbox'[u]["server"] = inbox[u]["server"]
        /\ inbox[u]["client"] = <<>> => inbox'[u]["client"] = inbox[u]["client"]
        /\ inbox[u]["client"] # <<>> => inbox'[u]["client"] = Tail(inbox[u]["client"])
    BY <1>2, <1>4, TakenIs
  <2>2. inbox[u]["client"] # <<>> /\ HasBye(Tail(inbox[u]["client"])) => HasBye(inbox[u]["client"])
    BY <1>1, ByeInQueues
  <2> QED
    BY <1>3, <2>1, <2>2
<1>5. CASE Lab2!Connect(u)
  <2>1. CASE up
    <3>1. /\ main[u] = "connect" /\ server' = [server EXCEPT ![u] = "hello"]
          /\ Lab2!SendMessage(u, "client", "HELLO") /\ UNCHANGED <<up, running, line>>
          /\ main' = [main EXCEPT ![u] = "welcome"]
      BY <1>5, <2>1 DEF Lab2!Connect, Lab2!Goto
    <3>2. server'[u] = "hello" /\ \A v \in Users : v # u => server'[v] = server[v]
      BY <1>1, <3>1 DEF ProgramTypes
    <3>3. /\ closed' = closed
          /\ \A v \in Users : v # u => inbox'[v] = inbox[v]
          /\ inbox'[u]["client"] = inbox[u]["client"]
          /\ \/ inbox'[u]["server"] = inbox[u]["server"]
             \/ inbox'[u]["server"] = Append(inbox[u]["server"], "HELLO")
      BY <1>2, <3>1, Sent DEF Requests
    <3>4. HasBye(Append(inbox[u]["server"], "HELLO")) => HasBye(inbox[u]["server"])
      <4>1. "HELLO" \in Requests
        BY DEF Requests
      <4> QED
        BY <1>1, <4>1, ByeInQueues
    <3>5. HasBye(inbox'[u]["server"]) \/ HasBye(inbox'[u]["client"]) => line[u] = "BYE"
      BY <1>3, <3>3, <3>4
    <3>6. line[u] # "BYE" /\ running[u]
      BY <1>1, <3>1 DEF Quitting, Link
    <3> QED
      BY <3>1, <3>2, <3>3, <3>5, <3>6, QuittingOfClientGoingOn
  <2>2. CASE ~up
    BY <1>5, <2>2, QuittingOfClientEnds DEF Lab2!Connect
  <2> QED
    BY <2>1, <2>2
<1>6. CASE Lab2!Welcome(u)
  <2>1. CASE Lab2!Message(u, "client") = "WELCOME"
    <3>1. /\ Lab2!Taken(u, "client") /\ main' = [main EXCEPT ![u] = "getline"] /\ main[u] = "welcome"
          /\ UNCHANGED <<closed, up, server, running, line>>
      BY <1>6, <2>1 DEF Lab2!Welcome, Lab2!Goto
    <3>2. line[u] # "BYE" /\ (~running[u] => ~up)
      BY <1>1, <3>1 DEF Quitting
    <3> QED
      BY <1>4, <3>1, <3>2, QuittingOfClientGoingOn
  <2>2. CASE Lab2!Message(u, "client") # "WELCOME"
    BY <1>6, <2>2, QuittingOfClientEnds DEF Lab2!Welcome
  <2> QED
    BY <2>1, <2>2
<1>7. CASE Lab2!LookAtRunning(u)
  <2>1. /\ main[u] = "typed" /\ UNCHANGED <<closed, up, server, running, line, inbox>>
        /\ main' = [main EXCEPT ![u] = IF running[u] THEN "send" ELSE "join"]
    BY <1>7 DEF Lab2!LookAtRunning, Lab2!Goto, Lab2!connection
  <2>2. line[u] # "none" /\ (~running[u] => line[u] = "BYE" \/ ~up)
    BY <1>1, <2>1 DEF Quitting
  <2>3. PICK stage \in {"send", "join"} : main' = [main EXCEPT ![u] = stage]
    BY <2>1
  <2> QED
    BY <1>3, <2>1, <2>2, <2>3, QuittingOfClientGoingOn
<1>8. CASE Lab2!SendLine(u)
  <2>1. CASE Lab2!ClientEnds(u) /\ running' = running
    BY <1>8, <2>1, QuittingOfClientEnds DEF Lab2!SendLine
  <2>2. CASE ~(Lab2!ClientEnds(u) /\ running' = running)
    <3>1. /\ Lab2!SendMessage(u, "client", line[u]) /\ UNCHANGED <<up, server, line>>
          /\ running' = [running EXCEPT ![u] = IF line[u] = "BYE" THEN FALSE ELSE @]
          /\ main[u] = "send" /\ line[u] \in Requests
          /\ main' = [main EXCEPT ![u] = IF line[u] = "BYE" \/ ~running[u] THEN "join" ELSE "getline"]
      BY <1>1, <1>8, <2>2 DEF Lab2!SendLine, ProgramTypes, Requests, Lab2!Goto, Quitting
    <3>2. PICK stage \in {"join", "getline"} : main' = [main EXCEPT ![u] = stage]
                                             /\ (line[u] = "BYE" => stage = "join")
      BY <3>1
    <3>3. /\ closed' = closed
          /\ \A v \in Users : v # u => inbox'[v] = inbox[v]
          /\ inbox'[u]["client"] = inbox[u]["client"]
          /\ \/ inbox'[u]["server"] = inbox[u]["server"]
             \/ inbox'[u]["server"] = Append(inbox[u]["server"], line[u])
      BY <1>2, <3>1, Sent
    <3>4. HasBye(Append(inbox[u]["server"], line[u])) => HasBye(inbox[u]["server"]) \/ line[u] = "BYE"
      BY <1>1, <3>1, ByeInQueues
    <3>5. HasBye(inbox'[u]["server"]) \/ HasBye(inbox'[u]["client"]) => line[u] = "BYE"
      BY <1>3, <3>3, <3>4
    <3>6. /\ \A v \in Users : v # u => running'[v] = running[v]
          /\ line[u] # "BYE" => running'[u] = running[u]
      BY <1>1, <3>1, Zenon DEF ProgramTypes
    <3>7. ~running'[u] => line[u] = "BYE" \/ ~up
      BY <1>1, <3>6 DEF Quitting
    <3> QED
      BY ZenonT(30), <3>1, <3>2, <3>3, <3>5, <3>6, <3>7, QuittingOfClientGoingOn
  <2> QED
    BY <2>1, <2>2
<1>9. CASE Lab2!ReceiveMessages(u)
  <2> DEFINE m == Lab2!Message(u, "client")
  <2>1. /\ receiver[u] = "select" /\ UNCHANGED <<main, up, server, closed, line>>
    BY <1>9 DEF Lab2!ReceiveMessages
  <2>2. main[u] \in {"getline", "typed", "send", "join"} /\ "client" \notin closed[u]
    BY <1>1, <2>1 DEF Link
  <2>3. /\ \A v \in Users : v # u => inbox'[v] = inbox[v]
        /\ HasBye(inbox'[u]["server"]) \/ HasBye(inbox'[u]["client"]) => line[u] = "BYE"
    <3>1. Lab2!Taken(u, "client") \/ inbox' = inbox
      BY <1>9 DEF Lab2!ReceiveMessages
    <3> QED
      BY <1>3, <1>4, <3>1
  <2>4. \/ running' = running
        \/ /\ running' = [running EXCEPT ![u] = @ /\ m \notin {"error", "BYE"}]
           /\ Lab2!Readable(u, "client")
    BY <1>9 DEF Lab2!ReceiveMessages
  <2>5. /\ \A v \in Users : v # u => running'[v] = running[v]
        /\ running'[u] = running[u] \/ (Lab2!Readable(u, "client") /\ m \in {"error", "BYE"})
    BY <1>1, <2>4, Zenon DEF ProgramTypes
  <2>6. Lab2!Readable(u, "client") /\ m \in {"error", "BYE"} => line[u] = "BYE" \/ ~up
    <3>1. CASE inbox[u]["client"] = <<>>
      BY <1>1, <1>2, <2>2, <3>1 DEF Lab2!Readable, Link, Quitting
    <3>2. CASE inbox[u]["client"] # <<>>
      <4>1. m = Head(inbox[u]["client"]) /\ Head(inbox[u]["client"]) \in Answers
        BY <1>1, <3>2, HeadTailProperties DEF Lab2!Message
      <4>2. m = "BYE" => HasBye(inbox[u]["client"])
        BY <1>1, <3>2, <4>1, ByeInQueues
      <4> QED
        BY <1>3, <4>1, <4>2 DEF Answers
    <3> QED
      BY <3>1, <3>2
  <2>7. ~running'[u] => line[u] = "BYE" \/ ~up
    BY <1>1, <2>5, <2>6 DEF Quitting
  <2>8. main' = [main EXCEPT ![u] = main[u]]
    BY <1>1, <2>1 DEF ProgramTypes
  <2>9. /\ line[u] = "BYE" => main[u] \in {"typed", "send", "join", "ended"}
        /\ main[u] \in {"typed", "send"} => line[u] # "none"
    BY <1>1 DEF Quitting
  <2> QED
    BY <2>1, <2>3, <2>5, <2>7, <2>8, <2>9, QuittingOfClientGoingOn
<1>10. CASE Lab2!Join(u) \/ Lab2!Kill(u)
  BY <1>10, QuittingOfClientEnds DEF Lab2!Join, Lab2!Kill
<1>11. CASE Lab2!Type(u)
  <2>1. /\ main[u] = "getline" /\ UNCHANGED <<closed, up, server, running, inbox>>
        /\ main' = [main EXCEPT ![u] = "typed"]
    BY <1>11 DEF Lab2!Type, Lab2!Goto, Lab2!connection
  <2>2. PICK l \in {"TEXT", "PING", "BYE"} : line' = [line EXCEPT ![u] = l]
    BY <1>11 DEF Lab2!Type
  <2>3. line'[u] = l /\ (\A v \in Users : v # u => line'[v] = line[v]) /\ line[u] # "BYE"
    BY <1>1, <2>1, <2>2 DEF ProgramTypes, Quitting
  <2>4. ~HasBye(inbox[u]["server"]) /\ ~HasBye(inbox[u]["client"]) /\ (~running[u] => ~up)
    BY <1>1, <2>3 DEF Quitting
  <2>5. server[u] \notin {"BYE", "close"}
    BY <1>1, <2>3 DEF Quitting
  <2> QED
    BY <2>1, <2>2, <2>3, <2>4, <2>5, QuittingOfClientGoingOn
<1> QED
  BY <1>5, <1>6, <1>7, <1>8, <1>9, <1>10, <1>11 DEF Lab2!ClientStep

\* Every step keeps it.
LEMMA NextByeInv ==
  ASSUME Lab2!BoundsAssumption, Linked, ByeInv, [Lab2!Next]_(Lab2!vars)
  PROVE  ByeInv'
<1>1. CASE Lab2!Stop
  BY <1>1, QuittingOfServerEnds DEF Lab2!Stop
<1>2. ASSUME NEW u \in Users, Lab2!ClientStep(u) \/ Lab2!ServerStep(u) \/ Lab2!Type(u) \/ Lab2!Kill(u)
      PROVE  ByeInv'
  BY <1>2, QuittingOfServerStep, QuittingOfClientStep
<1>3. CASE UNCHANGED Lab2!vars
  <2>1. UNCHANGED <<Lab2!clients, up, server, Lab2!connection>>
    BY <1>3 DEF Lab2!vars
  <2> QED
    BY <2>1, QuittingKept DEF ByeInv, Lab2!clients, Lab2!connection
<1> QED
  BY <1>1, <1>2, <1>3 DEF Lab2!Next

-----------------------------------------------------------------------------
\* The messages of a queue that are answered.
Calls(q) == {i \in 1 .. Len(q) : q[i] # "TEXT"}

\* Answers due to client u: of the request being handled, of those on the way to the server.
Pending(u) == IF server[u] \in Answers THEN 1 ELSE 0

\* The answers due to what is on the way to the server.
Asked(u) == Cardinality(Calls(inbox[u]["server"]))
\* The server has been refused once by the client that is gone.
Refused(u) == IF "server" \in reset[u] THEN 1 ELSE 0

\* How many answers a client has to expect: those on the way, pending and asked for, and no
\* more than it made requests.
Due(u) ==
  /\ owed[u] >= 0
  /\ "client" \notin closed[u] => owed[u] >= Len(inbox[u]["client"]) + Pending(u) + Asked(u)
  /\ "client" \notin closed[u] => owedAtEnd[u] = 0
  /\ "client" \in closed[u] => owedAtEnd[u] >= Refused(u) + Pending(u) + Asked(u)
  /\ main[u] = "connect" => owed[u] = 0
  /\ owed[u] <= requests[u] + 2
  /\ main[u] \notin {"join", "ended"} \/ line[u] # "BYE" => owed[u] <= requests[u] + 1
  /\ main[u] \in {"typed", "send"} /\ line[u] # "BYE" => owed[u] <= requests[u]

\* So for every client, and a killed server left two answers behind.
OwedInv == (\A u \in Users : Due(u)) /\ Lab2!KilledByTwoAnswers

\* How the number of calls changes.
LEMMA CallsInQueues ==
  ASSUME NEW T, NEW q \in Seq(T)
  PROVE  /\ Cardinality(Calls(q)) \in Nat
         /\ \A x \in T : /\ Cardinality(Calls(Append(q, x))) \in Nat
                         /\ Cardinality(Calls(Append(q, x))) <= Cardinality(Calls(q)) + 1
                         /\ x = "TEXT" =>
                               Cardinality(Calls(Append(q, x))) <= Cardinality(Calls(q))
         /\ q # <<>> => /\ Cardinality(Calls(Tail(q))) \in Nat
                        /\ Cardinality(Calls(Tail(q))) <= Cardinality(Calls(q))
                        /\ Head(q) # "TEXT" =>
                              Cardinality(Calls(Tail(q))) + 1 <= Cardinality(Calls(q))
         /\ Cardinality(Calls(<<>>)) = 0
<1>1. \A r \in Seq(T) : IsFiniteSet(Calls(r)) /\ Cardinality(Calls(r)) \in Nat
  <2> SUFFICES ASSUME NEW r \in Seq(T)
               PROVE  IsFiniteSet(Calls(r)) /\ Cardinality(Calls(r)) \in Nat
    OBVIOUS
  <2>1. IsFiniteSet(1 .. Len(r)) /\ Calls(r) \subseteq 1 .. Len(r)
    BY LenProperties, FS_Interval DEF Calls
  <2> QED
    BY <2>1, FS_Subset, FS_CardinalityType
<1>2. ASSUME NEW x \in T
      PROVE  LET c == Cardinality(Calls(Append(q, x))) IN
             /\ c \in Nat /\ c <= Cardinality(Calls(q)) + 1
             /\ x = "TEXT" => c <= Cardinality(Calls(q))
  <2> DEFINE r == Append(q, x)
             n == Len(q) + 1
  <2>1. /\ r \in Seq(T) /\ Len(r) = n /\ Len(q) \in Nat
        /\ r[n] = x /\ \A i \in 1 .. Len(q) : r[i] = q[i]
    BY AppendProperties, LenProperties
  <2>2. Calls(r) \subseteq Calls(q) \cup {n} /\ (x = "TEXT" => Calls(r) \subseteq Calls(q))
    BY <2>1 DEF Calls
  <2>3. /\ IsFiniteSet(Calls(q) \cup {n})
        /\ Cardinality(Calls(q) \cup {n}) <= Cardinality(Calls(q)) + 1
    <3>1. IsFiniteSet(Calls(q)) /\ Cardinality(Calls(q)) \in Nat
      BY <1>1
    <3>2. Cardinality(Calls(q) \cup {n}) =
             IF n \in Calls(q) THEN Cardinality(Calls(q)) ELSE Cardinality(Calls(q)) + 1
      BY <3>1, FS_AddElement
    <3>3. IsFiniteSet(Calls(q) \cup {n})
      BY <3>1, FS_AddElement
    <3> QED
      BY <3>1, <3>2, <3>3
  <2>4. Cardinality(Calls(r)) <= Cardinality(Calls(q) \cup {n})
    BY <2>2, <2>3, FS_Subset
  <2>5. x = "TEXT" => Cardinality(Calls(r)) <= Cardinality(Calls(q))
    BY <1>1, <2>2, FS_Subset
  <2>6. Cardinality(Calls(q) \cup {n}) \in Nat
    BY <2>3, FS_CardinalityType
  <2>7. Cardinality(Calls(r)) \in Nat /\ Cardinality(Calls(q)) \in Nat
    BY <1>1, <2>1
  <2> QED
    BY <2>3, <2>4, <2>5, <2>6, <2>7
<1>3. ASSUME q # <<>>
      PROVE  LET c == Cardinality(Calls(Tail(q))) IN
             /\ c \in Nat /\ c <= Cardinality(Calls(q))
             /\ Head(q) # "TEXT" => c + 1 <= Cardinality(Calls(q))
  <2> DEFINE r == Tail(q)
             shift == [i \in Calls(r) |-> i + 1]
  <2>1. /\ r \in Seq(T) /\ Len(q) \in Nat \ {0} /\ Len(r) = Len(q) - 1 /\ Head(q) = q[1]
        /\ \A i \in 1 .. Len(r) : r[i] = q[i + 1]
    BY <1>3, HeadTailProperties, LenProperties, EmptySeq
  <2>2. shift \in Injection(Calls(r), Calls(q) \ {1})
    <3>1. \A i \in Calls(r) : i \in Int /\ i + 1 \in Calls(q) \ {1}
      BY <2>1 DEF Calls
    <3> QED
      BY <3>1 DEF Injection, IsInjective
  <2>3. /\ IsFiniteSet(Calls(q)) /\ Cardinality(Calls(q)) \in Nat
        /\ Cardinality(Calls(r)) \in Nat
    BY <1>1, <2>1
  <2>4. /\ IsFiniteSet(Calls(q) \ {1})
        /\ Cardinality(Calls(q) \ {1}) =
              IF 1 \in Calls(q) THEN Cardinality(Calls(q)) - 1 ELSE Cardinality(Calls(q))
    BY <2>3, FS_RemoveElement
  <2>5. Cardinality(Calls(r)) <= Cardinality(Calls(q) \ {1})
    BY <2>2, <2>4, FS_Injection
  <2>6. Head(q) # "TEXT" => 1 \in Calls(q)
    BY <2>1 DEF Calls
  <2> QED
    BY <2>3, <2>4, <2>5, <2>6
<1>4. Cardinality(Calls(<<>>)) = 0
  <2>1. Calls(<<>>) = {}
    BY DEF Calls
  <2> QED
    BY <2>1, FS_EmptySet
<1> QED
  BY <1>1, <1>2, <1>3, <1>4

\* The numbers are natural.
LEMMA Numbers ==
  ASSUME Lab2!BoundsAssumption, Linked, NEW u \in Users
  PROVE  /\ Len(inbox[u]["client"]) \in Nat /\ Pending(u) \in {0, 1} /\ Asked(u) \in Nat
         /\ Refused(u) \in {0, 1} /\ requests[u] \in 0 .. MaxRequests /\ MaxRequests \in Nat
         /\ owed[u] \in Int /\ owedAtEnd[u] \in Int
<1>1. ProgramTypes /\ InboxType /\ MaxRequests \in Nat
  BY AllTypes DEF Linked, ConnectionTypes, Lab2!BoundsAssumption
<1>2. Asked(u) \in Nat
  BY <1>1, CallsInQueues DEF Asked, InboxType
<1>3. Len(inbox[u]["client"]) \in Nat
  BY <1>1, LenProperties DEF InboxType
<1> QED
  BY <1>1, <1>2, <1>3 DEF Pending, Refused, ProgramTypes

\* Nothing that concerns a user has happened.
LEMMA DueKept ==
  ASSUME NEW v \in Users, Due(v), main'[v] = main[v], line'[v] = line[v], server'[v] = server[v],
         inbox'[v] = inbox[v], closed'[v] = closed[v], reset'[v] = reset[v],
         owed'[v] = owed[v], owedAtEnd'[v] = owedAtEnd[v], requests'[v] = requests[v]
  PROVE  Due(v)'
BY DEF Due, Pending, Asked, Refused

\* The server's end of a connection closes.
LEMMA DueOfServerClosed ==
  ASSUME Lab2!BoundsAssumption, Linked, NEW v \in Users, Due(v), UNCHANGED <<main, line, owed, owedAtEnd, requests>>,
         server'[v] = "closed", inbox'[v]["server"] = <<>>,
         inbox'[v]["client"] = inbox[v]["client"],
         "client" \in closed'[v] <=> "client" \in closed[v],
         "server" \in reset'[v] <=> "server" \in reset[v]
  PROVE  Due(v)'
<1>1. Cardinality(Calls(<<>>)) = 0
  <2>1. <<>> \in Seq({})
    OBVIOUS
  <2> QED
    BY <2>1, CallsInQueues
<1>2. Pending(v)' = 0 /\ Asked(v)' = 0 /\ Refused(v)' = Refused(v)
  BY <1>1 DEF Pending, Asked, Refused, Answers
<1> QED
  BY <1>2, Numbers DEF Due

\* The server ends, or a client.
LEMMA OwedOfServerEnds ==
  ASSUME Lab2!BoundsAssumption, Linked, OwedInv, Lab2!ServerEnds,
         UNCHANGED <<Lab2!clients, owed, owedAtEnd, requests>>
  PROVE  \A v \in Users : Due(v)'
<1> SUFFICES ASSUME NEW v \in Users PROVE Due(v)'
  OBVIOUS
<1>1. /\ closed'[v] = closed[v] \cup {"server"}
      /\ inbox'[v]["server"] = <<>> /\ inbox'[v]["client"] = inbox[v]["client"]
      /\ "server" \in reset'[v] <=> "server" \in reset[v]
  BY ServerClosed
<1>2. server'[v] = "closed" /\ Due(v)
  BY DEF Lab2!ServerEnds, OwedInv
<1> QED
  BY <1>1, <1>2, DueOfServerClosed DEF Lab2!clients

\* A client that closes its end leaves behind what it was still owed.
LEMMA OwedOfClientEnds ==
  ASSUME Lab2!BoundsAssumption, Linked, OwedInv, NEW u \in Users, Lab2!ClientEnds(u), main[u] # "ended",
         UNCHANGED <<line, server, owed, requests, killed>>
  PROVE  OwedInv'
<1>1. ProgramTypes /\ Link(u) /\ \A v \in Users : Due(v)
  BY AllTypes DEF Linked, ConnectionInv, OwedInv
<1>2. /\ \A w \in Users : w # u =>
            closed'[w] = closed[w] /\ inbox'[w] = inbox[w] /\ reset'[w] = reset[w]
      /\ closed'[u] = closed[u] \cup {"client"}
      /\ inbox'[u]["client"] = <<>> /\ inbox'[u]["server"] = inbox[u]["server"]
      /\ "server" \in reset'[u] <=> "server" \in reset[u] \/ inbox[u]["client"] # <<>>
  <2>1. Lab2!CloseEnd(u, "client") /\ "client" \in Lab2!Ends /\ Lab2!Other("client") = "server"
    BY DEF Lab2!ClientEnds, Lab2!Ends, Lab2!Other
  <2> QED
    BY <2>1, EndClosed
<1>3. /\ main' = [main EXCEPT ![u] = "ended"]
      /\ owedAtEnd' = [owedAtEnd EXCEPT ![u] = owed[u]]
  BY DEF Lab2!ClientEnds
<1>4. ASSUME NEW v \in Users, v # u PROVE Due(v)' /\ owedAtEnd'[v] = owedAtEnd[v]
  BY <1>1, <1>2, <1>3, <1>4, DueKept DEF ProgramTypes
<1>5. "client" \notin closed[u] /\ "server" \notin reset[u]
  BY <1>1 DEF Link, Lab2!Ends, Lab2!Other
<1>6. Due(u)'
  <2>1. main'[u] = "ended" /\ owedAtEnd'[u] = owed[u]
    BY <1>1, <1>3 DEF ProgramTypes
  <2>2. Pending(u)' = Pending(u) /\ Asked(u)' = Asked(u)
    BY <1>2 DEF Pending, Asked
  <2>3. Refused(u)' <= Len(inbox[u]["client"])
    <3>1. inbox[u]["client"] # <<>> => Len(inbox[u]["client"]) \in Nat \ {0}
      BY AllTypes, EmptySeq, LenProperties DEF Linked, ConnectionTypes, InboxType
    <3>2. Len(inbox[u]["client"]) \in Nat
      BY Numbers
    <3> QED
      BY <1>2, <1>5, <3>1, <3>2 DEF Refused
  <2>4. Refused(u)' \in {0, 1}
    BY DEF Refused
  <2>5. owed[u] >= Refused(u)' + Pending(u) + Asked(u)
    BY <1>1, <1>5, <2>3, <2>4, Numbers DEF Due
  <2>6. "client" \in closed'[u]
    BY <1>2
  <2>7. /\ owed[u] >= 0 /\ owed[u] <= requests[u] + 2
        /\ line[u] # "BYE" => owed[u] <= requests[u] + 1
    BY <1>1 DEF Due
  <2> QED
    BY <2>1, <2>2, <2>5, <2>6, <2>7 DEF Due
<1>7. Lab2!KilledByTwoAnswers'
  <2>1. owedAtEnd[u] = 0
    BY <1>1, <1>5 DEF Due
  <2> QED
    BY <1>4, <2>1 DEF Lab2!KilledByTwoAnswers, OwedInv
<1> QED
  BY <1>4, <1>6, <1>7 DEF OwedInv

\* The steps of the server's thread of one client.
LEMMA OwedOfServerStep ==
  ASSUME Lab2!BoundsAssumption, Linked, OwedInv, NEW u \in Users, Lab2!ServerStep(u)
  PROVE  OwedInv'
<1>1. /\ ProgramTypes /\ Link(u) /\ \A v \in Users : Due(v)
      /\ inbox[u]["server"] \in Seq(Requests) /\ inbox[u]["client"] \in Seq(Answers)
  BY AllTypes DEF Linked, ConnectionInv, OwedInv, ConnectionTypes, InboxType
<1>2. /\ "server" \in Lab2!Ends /\ "client" \in Lab2!Ends
      /\ Lab2!Other("server") = "client" /\ Lab2!Other("client") = "server"
  BY DEF Lab2!Ends, Lab2!Other
<1>3. UNCHANGED <<Lab2!clients, owed, owedAtEnd, requests>>
  BY DEF Lab2!ServerStep, Lab2!HandleClient, Lab2!SendAnswer, Lab2!CloseThread, Lab2!past
<1>4. main' = main /\ line' = line /\ owed' = owed /\ owedAtEnd' = owedAtEnd /\ requests' = requests
  BY <1>3 DEF Lab2!clients
<1>5. ASSUME killed' = killed, Due(u)', NEW next, server' = [server EXCEPT ![u] = next],
             \A v \in Users : v # u =>
                closed'[v] = closed[v] /\ inbox'[v] = inbox[v] /\ reset'[v] = reset[v]
      PROVE  OwedInv'
  <2>1. ASSUME NEW v \in Users, v # u PROVE Due(v)'
    BY <1>1, <1>4, <1>5, <2>1, DueKept DEF ProgramTypes
  <2> QED
    BY <1>4, <1>5, <2>1 DEF OwedInv, Lab2!KilledByTwoAnswers
<1>6. ASSUME Lab2!CloseEnd(u, "server"), server' = [server EXCEPT ![u] = "closed"], killed' = killed
      PROVE  OwedInv'
  <2>1. /\ \A w \in Users : w # u =>
              closed'[w] = closed[w] /\ inbox'[w] = inbox[w] /\ reset'[w] = reset[w]
        /\ closed'[u] = closed[u] \cup {"server"}
        /\ inbox'[u]["server"] = <<>> /\ inbox'[u]["client"] = inbox[u]["client"]
        /\ "server" \in reset'[u] <=> "server" \in reset[u]
    BY <1>2, <1>6, EndClosed
  <2>2. server'[u] = "closed"
    BY <1>1, <1>6 DEF ProgramTypes
  <2>3. Due(u)'
    BY <1>1, <1>4, <2>1, <2>2, DueOfServerClosed
  <2> QED
    BY <1>5, <1>6, <2>1, <2>3
<1>7. CASE Lab2!HandleClient(u)
  <2> DEFINE m == Lab2!Message(u, "server")
             q == inbox[u]["server"]
  <2>1. server[u] \in {"hello", "loop"} /\ killed' = killed
    BY <1>7 DEF Lab2!HandleClient, Lab2!past
  <2>2. CASE Lab2!CloseEnd(u, "server") /\ server' = [server EXCEPT ![u] = "closed"]
    BY <1>6, <2>1, <2>2
  <2>3. CASE ~(Lab2!CloseEnd(u, "server") /\ server' = [server EXCEPT ![u] = "closed"])
    <3>1. /\ server' = [server EXCEPT ![u] = IF Lab2!Answer(m) = "none" THEN "loop" ELSE Lab2!Answer(m)]
          /\ Lab2!Taken(u, "server") /\ UNCHANGED <<closed, reset>> /\ m # "error"
      BY <1>7, <2>3 DEF Lab2!HandleClient
    <3>2. q # <<>>
      BY <3>1 DEF Lab2!Message
    <3>3. /\ \A v \in Users : v # u => inbox'[v] = inbox[v]
          /\ inbox'[u]["client"] = inbox[u]["client"]
          /\ inbox'[u]["server"] = Tail(q) /\ m = Head(q) /\ m \in Requests
      BY <1>2, <3>1, <3>2, TakenIs
    <3>4. PICK next : /\ next = IF Lab2!Answer(m) = "none" THEN "loop" ELSE Lab2!Answer(m)
                      /\ server' = [server EXCEPT ![u] = next]
      BY <3>1
    <3>5. server'[u] = next /\ (next \in Answers => m # "TEXT")
      BY <1>1, <3>3, <3>4 DEF ProgramTypes, Lab2!Answer, Requests, Answers
    <3>6. /\ Cardinality(Calls(Tail(q))) \in Nat
          /\ Cardinality(Calls(Tail(q))) <= Cardinality(Calls(q))
          /\ m # "TEXT" => Cardinality(Calls(Tail(q))) + 1 <= Cardinality(Calls(q))
      BY <1>1, <3>2, <3>3, CallsInQueues
    <3>7. Asked(u)' = Cardinality(Calls(Tail(q))) /\ Asked(u) = Cardinality(Calls(q))
      BY <3>3 DEF Asked
    <3>8. Pending(u) = 0 /\ Pending(u)' = IF next \in Answers THEN 1 ELSE 0
      BY <2>1, <3>5 DEF Pending, Answers
    <3>9. Asked(u)' \in Nat /\ Asked(u)' + Pending(u)' <= Asked(u) + Pending(u)
      BY <3>5, <3>6, <3>7, <3>8, Numbers
    <3>10. Refused(u)' = Refused(u) /\ Pending(u)' \in {0, 1}
      BY <3>1, <3>8 DEF Refused
    <3>12. "client" \notin closed'[u] =>
              owed'[u] >= Len(inbox'[u]["client"]) + Pending(u)' + Asked(u)'
      BY <1>1, <1>4, <3>1, <3>3, <3>9, <3>10, Numbers DEF Due
    <3>13. "client" \in closed'[u] => owedAtEnd'[u] >= Refused(u)' + Pending(u)' + Asked(u)'
      BY <1>1, <1>4, <3>1, <3>9, <3>10, Numbers DEF Due
    <3>11. Due(u)'
      BY <1>1, <1>4, <3>1, <3>12, <3>13 DEF Due
    <3> QED
      BY <1>5, <2>1, <3>1, <3>3, <3>4, <3>11
  <2> QED
    BY <2>2, <2>3
<1>8. CASE Lab2!SendAnswer(u)
  <2>1. CASE Lab2!ServerEnds /\ "server" \in reset[u] /\ killed' = TRUE
    <3>1. \A v \in Users : Due(v)'
      BY <1>3, <2>1, OwedOfServerEnds
    <3>2. "client" \in closed[u] /\ Refused(u) = 1
      BY <1>1, <1>2, <2>1 DEF Link, Refused
    <3>3. Pending(u) = 1
      BY <1>8 DEF Lab2!SendAnswer, Pending, Answers
    <3>4. owedAtEnd'[u] >= 2
      BY <1>1, <1>4, <3>2, <3>3, Numbers DEF Due
    <3> QED
      BY <3>1, <3>4 DEF OwedInv, Lab2!KilledByTwoAnswers
  <2>2. CASE ~(Lab2!ServerEnds /\ "server" \in reset[u] /\ killed' = TRUE)
    <3>1. /\ Lab2!SendMessage(u, "server", server[u]) /\ killed' = killed
          /\ server' = [server EXCEPT ![u] = Lab2!AfterAnswer(u)]
          /\ server[u] \in Answers
      BY <1>8, <2>2 DEF Lab2!SendAnswer, Answers
    <3>2. /\ closed' = closed
          /\ \A v \in Users : v # u => inbox'[v] = inbox[v] /\ reset'[v] = reset[v]
          /\ inbox'[u]["server"] = inbox[u]["server"]
          /\ "client" \in closed[u] => inbox' = inbox /\ reset'[u] = reset[u] \cup {"server"}
          /\ "client" \notin closed[u] =>
                /\ inbox'[u]["client"] = Append(inbox[u]["client"], server[u])
                /\ reset' = reset
      BY <1>2, <3>1, Sent
    <3>3. server'[u] \notin Answers
      BY <1>1, <3>1 DEF ProgramTypes, Lab2!AfterAnswer, Answers
    <3>4. Pending(u) = 1 /\ Pending(u)' = 0 /\ Asked(u)' = Asked(u)
      BY <3>1, <3>2, <3>3 DEF Pending, Asked
    <3>5. Refused(u)' \in {0, 1}
      BY DEF Refused
    <3>6. "client" \notin closed[u] => Len(inbox'[u]["client"]) = Len(inbox[u]["client"]) + 1
      <4>1. Len(Append(inbox[u]["client"], server[u])) = Len(inbox[u]["client"]) + 1
        BY <1>1, <3>1, AppendProperties
      <4> QED
        BY <3>2, <4>1
    <3>7. "client" \in closed[u] => "server" \notin reset[u] \/ Refused(u) = 1
      BY DEF Refused
    <3>8. "client" \notin closed'[u] =>
             owed'[u] >= Len(inbox'[u]["client"]) + Pending(u)' + Asked(u)'
      BY <1>1, <1>4, <3>2, <3>4, <3>6, Numbers DEF Due
    <3>9. "client" \in closed'[u] => owedAtEnd'[u] >= Refused(u)' + Pending(u)' + Asked(u)'
      BY <1>1, <1>4, <3>2, <3>4, <3>5, Numbers DEF Due
    <3>10. Due(u)'
      BY <1>1, <1>4, <3>2, <3>8, <3>9 DEF Due
    <3> QED
      BY <1>5, <3>1, <3>2, <3>10
  <2> QED
    BY <2>1, <2>2
<1>9. CASE Lab2!CloseThread(u)
  BY <1>6, <1>9 DEF Lab2!CloseThread, Lab2!past
<1> QED
  BY <1>7, <1>8, <1>9 DEF Lab2!ServerStep

\* A step of a client that goes on.
LEMMA OwedOfClientGoingOn ==
  ASSUME Lab2!BoundsAssumption, Linked, OwedInv, NEW u \in Users, NEW stage,
         UNCHANGED <<closed, owedAtEnd, killed>>,
         main' = [main EXCEPT ![u] = stage], stage # "connect",
         "client" \notin closed[u],
         \A v \in Users : v # u => /\ inbox'[v] = inbox[v] /\ reset'[v] = reset[v]
                                   /\ line'[v] = line[v] /\ server'[v] = server[v]
                                   /\ owed'[v] = owed[v] /\ requests'[v] = requests[v],
         owed'[u] >= Len(inbox'[u]["client"]) + Pending(u)' + Asked(u)', owed'[u] >= 0,
         owed'[u] <= requests'[u] + 2,
         stage # "join" \/ line'[u] # "BYE" => owed'[u] <= requests'[u] + 1,
         stage \in {"typed", "send"} /\ line'[u] # "BYE" => owed'[u] <= requests'[u]
  PROVE  OwedInv'
<1>1. ProgramTypes /\ \A v \in Users : Due(v)
  BY AllTypes DEF Linked, OwedInv
<1>2. ASSUME NEW v \in Users, v # u PROVE Due(v)'
  BY <1>1, <1>2, DueKept DEF ProgramTypes
<1>3. Due(u)'
  <2>1. main'[u] = stage /\ owedAtEnd'[u] = 0
    BY <1>1 DEF ProgramTypes, Due
  <2> QED
    BY <2>1 DEF Due
<1> QED
  BY <1>2, <1>3 DEF OwedInv, Lab2!KilledByTwoAnswers

\* The steps of the client's threads.
LEMMA OwedOfClientStep ==
  ASSUME Lab2!BoundsAssumption, Linked, ByeInv, OwedInv, NEW u \in Users, Lab2!ClientStep(u) \/ Lab2!Type(u) \/ Lab2!Kill(u)
  PROVE  OwedInv'
<1>1. /\ ProgramTypes /\ Link(u) /\ Due(u) /\ Quitting(u)
      /\ inbox[u]["server"] \in Seq(Requests) /\ inbox[u]["client"] \in Seq(Answers)
  BY AllTypes DEF Linked, ConnectionInv, OwedInv, ByeInv, ConnectionTypes, InboxType
<1>2. /\ "server" \in Lab2!Ends /\ "client" \in Lab2!Ends
      /\ Lab2!Other("server") = "client" /\ Lab2!Other("client") = "server"
  BY DEF Lab2!Ends, Lab2!Other
<1>3. ASSUME main[u] # "ended"
      PROVE  /\ "client" \notin closed[u]
             /\ owed[u] >= Len(inbox[u]["client"]) + Pending(u) + Asked(u) /\ owed[u] >= 0
             /\ owed[u] <= requests[u] + 2
             /\ main[u] # "join" \/ line[u] # "BYE" => owed[u] <= requests[u] + 1
             /\ main[u] \in {"typed", "send"} /\ line[u] # "BYE" => owed[u] <= requests[u]
  BY <1>1, <1>3 DEF Link, Due
<1>4. ASSUME Lab2!Taken(u, "client"), inbox[u]["client"] # <<>>, server' = server
      PROVE  /\ \A v \in Users : v # u => inbox'[v] = inbox[v]
             /\ Len(inbox'[u]["client"]) = Len(inbox[u]["client"]) - 1
             /\ Len(inbox[u]["client"]) \in Nat \ {0}
             /\ Asked(u)' = Asked(u) /\ Pending(u)' = Pending(u)
  <2>1. /\ \A v \in Users : v # u => inbox'[v] = inbox[v]
        /\ inbox'[u]["server"] = inbox[u]["server"]
        /\ inbox'[u]["client"] = Tail(inbox[u]["client"])
    BY <1>2, <1>4, TakenIs
  <2>2. /\ Len(inbox[u]["client"]) \in Nat \ {0}
        /\ Len(Tail(inbox[u]["client"])) = Len(inbox[u]["client"]) - 1
    BY <1>1, <1>4, HeadTailProperties, LenProperties, EmptySeq
  <2> QED
    BY <1>4, <2>1, <2>2 DEF Asked, Pending
<1>5. ASSUME UNCHANGED <<server, inbox>>
      PROVE  /\ Len(inbox'[u]["client"]) = Len(inbox[u]["client"])
             /\ Asked(u)' = Asked(u) /\ Pending(u)' = Pending(u)
  BY <1>5 DEF Asked, Pending
<1>6. CASE Lab2!Connect(u)
  <2>1. CASE up
    <3>1. /\ main[u] = "connect" /\ server' = [server EXCEPT ![u] = "hello"]
          /\ Lab2!SendMessage(u, "client", "HELLO") /\ UNCHANGED <<line, requests, killed, owedAtEnd>>
          /\ main' = [main EXCEPT ![u] = "welcome"] /\ owed' = [owed EXCEPT ![u] = 1]
      BY <1>6, <2>1 DEF Lab2!Connect, Lab2!Goto
    <3>2. /\ inbox[u]["server"] = <<>> /\ inbox[u]["client"] = <<>>
          /\ "server" \notin closed[u]
      BY <1>1, <2>1, <3>1 DEF Link
    <3>3. /\ closed' = closed /\ reset' = reset
          /\ \A v \in Users : v # u => inbox'[v] = inbox[v]
          /\ inbox'[u]["client"] = <<>>
          /\ inbox'[u]["server"] = Append(inbox[u]["server"], "HELLO")
      BY <1>2, <3>1, <3>2, Sent DEF Requests
    <3>4. Cardinality(Calls(Append(inbox[u]["server"], "HELLO"))) <= 1
      <4>1. "HELLO" \in Requests
        BY DEF Requests
      <4>2. Cardinality(Calls(Append(inbox[u]["server"], "HELLO")))
               <= Cardinality(Calls(inbox[u]["server"])) + 1
        BY <1>1, <4>1, CallsInQueues
      <4>3. Cardinality(Calls(inbox[u]["server"])) = 0
        <5>1. Cardinality(Calls(<<>>)) = 0
          BY <1>1, CallsInQueues
        <5> QED
          BY <3>2, <5>1
      <4> QED
        BY <4>2, <4>3
    <3>5. /\ server'[u] = "hello" /\ \A v \in Users : v # u => server'[v] = server[v]
          /\ owed'[u] = 1 /\ \A v \in Users : v # u => owed'[v] = owed[v]
      BY <1>1, <3>1 DEF ProgramTypes
    <3>6. Asked(u)' <= 1 /\ Pending(u)' = 0 /\ Len(inbox'[u]["client"]) = 0
      BY <3>3, <3>4, <3>5 DEF Asked, Pending, Answers
    <3>7. Asked(u)' \in Nat
      <4>1. Append(inbox[u]["server"], "HELLO") \in Seq(Requests)
        BY <1>1, AppendProperties DEF Requests
      <4> QED
        BY <3>3, <4>1, CallsInQueues DEF Asked
    <3>8. requests[u] \in Nat /\ "client" \notin closed[u]
      BY <1>3, <3>1, Numbers
    <3>9. owed'[u] >= Len(inbox'[u]["client"]) + Pending(u)' + Asked(u)'
      BY <3>5, <3>6, <3>7
    <3>10. owed'[u] <= requests'[u] + 2 /\ owed'[u] <= requests'[u] + 1 /\ owed'[u] >= 0
      BY <3>1, <3>5, <3>8
    <3> QED
      BY <3>1, <3>3, <3>5, <3>8, <3>9, <3>10, OwedOfClientGoingOn
  <2>2. CASE ~up
    BY <1>6, <2>2, OwedOfClientEnds DEF Lab2!Connect
  <2> QED
    BY <2>1, <2>2
<1>7. CASE Lab2!Welcome(u)
  <2>1. CASE Lab2!Message(u, "client") = "WELCOME"
    <3>1. /\ Lab2!Taken(u, "client") /\ main' = [main EXCEPT ![u] = "getline"] /\ main[u] = "welcome"
          /\ UNCHANGED <<closed, reset, server, line, requests, killed, owedAtEnd>>
          /\ owed' = [owed EXCEPT ![u] = @ - 1]
      BY <1>7, <2>1 DEF Lab2!Welcome, Lab2!Goto
    <3>2. inbox[u]["client"] # <<>>
      BY <2>1 DEF Lab2!Message
    <3>3. owed'[u] = owed[u] - 1 /\ \A v \in Users : v # u => owed'[v] = owed[v]
      BY <1>1, <3>1 DEF ProgramTypes
    <3>4. /\ owed'[u] >= Len(inbox'[u]["client"]) + Pending(u)' + Asked(u)'
          /\ owed'[u] >= 0 /\ owed'[u] <= requests[u] + 2 /\ owed'[u] <= requests[u] + 1
      <4>1. /\ Len(inbox'[u]["client"]) = Len(inbox[u]["client"]) - 1
            /\ Len(inbox[u]["client"]) \in Nat \ {0}
            /\ Asked(u)' = Asked(u) /\ Pending(u)' = Pending(u)
        BY <1>4, <3>1, <3>2
      <4>2. /\ owed[u] >= Len(inbox[u]["client"]) + Pending(u) + Asked(u)
            /\ owed[u] <= requests[u] + 1
        BY <1>3, <3>1
      <4>3. /\ owed[u] \in Int /\ Pending(u) \in {0, 1} /\ Asked(u) \in Nat
            /\ requests[u] \in Int
        BY Numbers
      <4>4. owed'[u] = owed[u] - 1
        BY <3>3
      <4>5. owed'[u] >= Len(inbox'[u]["client"]) + Pending(u)' + Asked(u)'
        BY SMTT(20), <4>1, <4>2, <4>3, <4>4
      <4>6. owed'[u] >= 0
        BY <4>1, <4>2, <4>3, <4>4
      <4>7. owed'[u] <= requests[u] + 2 /\ owed'[u] <= requests[u] + 1
        BY <4>2, <4>3, <4>4
      <4> QED
        BY <4>5, <4>6, <4>7
    <3> QED
      BY <1>3, <1>4, <3>1, <3>2, <3>3, <3>4, OwedOfClientGoingOn
  <2>2. CASE Lab2!Message(u, "client") # "WELCOME"
    BY <1>7, <2>2, OwedOfClientEnds DEF Lab2!Welcome
  <2> QED
    BY <2>1, <2>2
<1>8. CASE Lab2!LookAtRunning(u)
  <2>1. /\ main[u] = "typed" /\ main' = [main EXCEPT ![u] = IF running[u] THEN "send" ELSE "join"]
        /\ UNCHANGED <<closed, server, line, inbox, reset, owed, owedAtEnd, requests, killed>>
    BY <1>8 DEF Lab2!LookAtRunning, Lab2!Goto, Lab2!connection, Lab2!past
  <2>2. PICK stage \in {"send", "join"} : main' = [main EXCEPT ![u] = stage]
    BY <2>1
  <2>3. /\ stage # "join" \/ line[u] # "BYE" => owed[u] <= requests[u] + 1
        /\ stage \in {"typed", "send"} /\ line[u] # "BYE" => owed[u] <= requests[u]
    BY <1>3, <2>1
  <2> QED
    BY <1>3, <1>5, <2>1, <2>2, <2>3, OwedOfClientGoingOn
<1>9. CASE Lab2!SendLine(u)
  <2>1. CASE Lab2!ClientEnds(u) /\ owed' = owed
    BY <1>9, <2>1, OwedOfClientEnds DEF Lab2!SendLine
  <2>2. CASE ~(Lab2!ClientEnds(u) /\ owed' = owed)
    <3>1. /\ Lab2!SendMessage(u, "client", line[u]) /\ main[u] = "send" /\ line[u] \in Requests \ {"HELLO"}
          /\ UNCHANGED <<server, line, requests, killed, owedAtEnd>>
          /\ owed' = [owed EXCEPT ![u] = IF Lab2!Answer(line[u]) = "none" THEN @ ELSE @ + 1]
          /\ main' = [main EXCEPT ![u] = IF line[u] = "BYE" \/ ~running[u] THEN "join" ELSE "getline"]
      <4>1. Lab2!SendLine(u) /\ ~(Lab2!ClientEnds(u) /\ owed' = owed)
        BY <1>9, <2>2
      <4>2. main[u] = "send" => line[u] \in Requests \ {"HELLO"}
        BY <1>1 DEF ProgramTypes, Quitting, Requests
      <4> QED
        BY <4>1, <4>2 DEF Lab2!SendLine, Lab2!Goto
    <3>2. PICK stage \in {"join", "getline"} : main' = [main EXCEPT ![u] = stage]
                                             /\ (line[u] = "BYE" => stage = "join")
      BY <3>1
    <3>3. /\ closed' = closed
          /\ \A v \in Users : v # u => inbox'[v] = inbox[v] /\ reset'[v] = reset[v]
          /\ inbox'[u]["client"] = inbox[u]["client"]
          /\ \/ inbox'[u]["server"] = inbox[u]["server"]
             \/ inbox'[u]["server"] = Append(inbox[u]["server"], line[u])
      BY <1>2, <3>1, Sent
    <3>4. /\ owed'[u] = IF line[u] = "TEXT" THEN owed[u] ELSE owed[u] + 1
          /\ \A v \in Users : v # u => owed'[v] = owed[v]
      <4>1. Lab2!Answer(line[u]) = "none" <=> line[u] = "TEXT"
        BY <3>1 DEF Lab2!Answer, Requests
      <4>2. owed \in [Users -> Int]
        BY <1>1 DEF ProgramTypes
      <4>3. CASE line[u] = "TEXT"
        BY <3>1, <4>1, <4>2, <4>3
      <4>4. CASE line[u] # "TEXT"
        BY <3>1, <4>1, <4>2, <4>4
      <4> QED
        BY <4>3, <4>4
    <3>5. LET c == Cardinality(Calls(Append(inbox[u]["server"], line[u]))) IN
          c \in Nat /\ c <= Asked(u) + 1 /\ (line[u] = "TEXT" => c <= Asked(u))
      BY <1>1, <3>1, CallsInQueues DEF Asked
    <3>6. /\ Asked(u)' \in Nat /\ Asked(u)' <= Asked(u) + 1
          /\ line[u] = "TEXT" => Asked(u)' <= Asked(u)
      <4>1. CASE inbox'[u]["server"] = inbox[u]["server"]
        <5>1. Asked(u)' = Asked(u)
          BY <4>1 DEF Asked
        <5> QED
          BY <5>1, Numbers
      <4>2. CASE inbox'[u]["server"] = Append(inbox[u]["server"], line[u])
        <5>1. Asked(u)' = Cardinality(Calls(Append(inbox[u]["server"], line[u])))
          BY <4>2 DEF Asked
        <5> QED
          BY <3>5, <5>1
      <4> QED
        BY <3>3, <4>1, <4>2
    <3>7. Pending(u)' = Pending(u) /\ Len(inbox'[u]["client"]) = Len(inbox[u]["client"])
      BY <3>1, <3>3 DEF Pending
    <3>8. /\ "client" \notin closed[u]
          /\ owed[u] >= Len(inbox[u]["client"]) + Pending(u) + Asked(u) /\ owed[u] >= 0
          /\ owed[u] <= requests[u] + 1
          /\ line[u] # "BYE" => owed[u] <= requests[u]
      BY <1>3, <3>1
    <3>9. owed'[u] >= Len(inbox'[u]["client"]) + Pending(u)' + Asked(u)' /\ owed'[u] >= 0
      <4>1. /\ owed[u] \in Int /\ Pending(u) \in {0, 1} /\ Asked(u) \in Nat
            /\ Len(inbox[u]["client"]) \in Nat
        BY Numbers
      <4>2. CASE line[u] = "TEXT"
        <5>1. owed'[u] = owed[u] /\ Asked(u)' <= Asked(u) /\ Asked(u)' \in Nat
          BY <3>4, <3>6, <4>2
        <5>2. owed[u] >= Len(inbox[u]["client"]) + Pending(u) + Asked(u)
          BY <3>8
        <5>3. owed'[u] >= Len(inbox'[u]["client"]) + Pending(u)' + Asked(u)'
          BY <3>7, <4>1, <5>1, <5>2
        <5> QED
          BY <3>8, <5>1, <5>3
      <4>3. CASE line[u] # "TEXT"
        <5>1. owed'[u] = owed[u] + 1 /\ Asked(u)' <= Asked(u) + 1 /\ Asked(u)' \in Nat
          BY <3>4, <3>6, <4>3
        <5>2. owed[u] >= Len(inbox[u]["client"]) + Pending(u) + Asked(u) /\ owed[u] >= 0
          BY <3>8
        <5>3. owed'[u] >= Len(inbox'[u]["client"]) + Pending(u)' + Asked(u)'
          BY <3>7, <4>1, <5>1, <5>2
        <5>4. owed'[u] >= 0
          BY <4>1, <5>1, <5>2
        <5> QED
          BY <5>3, <5>4
      <4> QED
        BY <4>2, <4>3
    <3>10. /\ owed'[u] <= requests'[u] + 2
           /\ stage # "join" \/ line'[u] # "BYE" => owed'[u] <= requests'[u] + 1
      BY <3>1, <3>2, <3>4, <3>8, Numbers
    <3>11. /\ \A v \in Users : v # u => /\ line'[v] = line[v] /\ server'[v] = server[v]
                                        /\ requests'[v] = requests[v]
           /\ owedAtEnd' = owedAtEnd /\ killed' = killed
      BY <3>1
    <3>12. stage \notin {"connect", "typed", "send"}
      BY <3>2
    <3> QED
      BY <3>2, <3>3, <3>4, <3>8, <3>9, <3>10, <3>11, <3>12, OwedOfClientGoingOn
  <2> QED
    BY <2>1, <2>2
<1>10. CASE Lab2!ReceiveMessages(u)
  <2> DEFINE m == Lab2!Message(u, "client")
  <2>1. /\ receiver[u] = "select"
        /\ UNCHANGED <<main, server, closed, reset, line, requests, killed, owedAtEnd>>
    BY <1>10 DEF Lab2!ReceiveMessages
  <2>2. main[u] \in {"getline", "typed", "send", "join"}
    BY <1>1, <2>1 DEF Link
  <2>3. main' = [main EXCEPT ![u] = main[u]]
    BY <1>1, <2>1 DEF ProgramTypes
  <2>4. CASE UNCHANGED <<inbox, owed>>
    BY <1>3, <1>5, <2>1, <2>2, <2>3, <2>4, OwedOfClientGoingOn
  <2>5. CASE ~UNCHANGED <<inbox, owed>>
    <3>1. /\ Lab2!Taken(u, "client")
          /\ owed' = [owed EXCEPT ![u] = IF m = "error" THEN @ ELSE @ - 1]
      BY <1>10, <2>5 DEF Lab2!ReceiveMessages
    <3>2. CASE inbox[u]["client"] = <<>>
      <4>1. m = "error" /\ inbox' = inbox
        BY <1>2, <3>1, <3>2, TakenIs DEF Lab2!Message
      <4>2. owed' = owed
        BY <1>1, <3>1, <4>1 DEF ProgramTypes
      <4> QED
        BY <2>5, <4>1, <4>2
    <3>3. CASE inbox[u]["client"] # <<>>
      <4>1. m # "error"
        BY <1>1, <3>3, HeadTailProperties DEF Lab2!Message, Answers
      <4>2. owed' = [owed EXCEPT ![u] = @ - 1]
        BY <3>1, <4>1
      <4>3. owed'[u] = owed[u] - 1 /\ \A v \in Users : v # u => owed'[v] = owed[v]
        BY <1>1, <4>2 DEF ProgramTypes
      <4>4. /\ owed'[u] >= Len(inbox'[u]["client"]) + Pending(u)' + Asked(u)'
            /\ owed'[u] >= 0 /\ owed'[u] <= requests[u] + 2
            /\ main[u] # "join" \/ line[u] # "BYE" => owed'[u] <= requests[u] + 1
            /\ main[u] \in {"typed", "send"} /\ line[u] # "BYE" => owed'[u] <= requests[u]
        <5>1. /\ Len(inbox'[u]["client"]) = Len(inbox[u]["client"]) - 1
              /\ Len(inbox[u]["client"]) \in Nat \ {0}
              /\ Asked(u)' = Asked(u) /\ Pending(u)' = Pending(u)
          BY <1>4, <2>1, <3>1, <3>3
        <5>2. /\ owed[u] >= Len(inbox[u]["client"]) + Pending(u) + Asked(u)
              /\ owed[u] <= requests[u] + 2
              /\ main[u] # "join" \/ line[u] # "BYE" => owed[u] <= requests[u] + 1
              /\ main[u] \in {"typed", "send"} /\ line[u] # "BYE" => owed[u] <= requests[u]
          BY <1>3, <2>2
        <5>3. /\ owed[u] \in Int /\ Pending(u) \in {0, 1} /\ Asked(u) \in Nat
              /\ requests[u] \in Int
          BY Numbers
        <5>4. owed'[u] = owed[u] - 1
          BY <4>3
        <5>5. owed'[u] >= Len(inbox'[u]["client"]) + Pending(u)' + Asked(u)'
          BY SMTT(20), <5>1, <5>2, <5>3, <5>4
        <5>6. owed'[u] >= 0
          BY <5>1, <5>2, <5>3, <5>4
        <5> QED
          BY <5>2, <5>3, <5>4, <5>5, <5>6
      <4> QED
        BY ZenonT(30), <1>3, <1>4, <2>1, <2>2, <2>3, <3>1, <3>3, <4>3, <4>4, OwedOfClientGoingOn
    <3> QED
      BY <3>2, <3>3
  <2> QED
    BY <2>4, <2>5
<1>11. CASE Lab2!Join(u) \/ Lab2!Kill(u)
  BY <1>11, OwedOfClientEnds DEF Lab2!Join, Lab2!Kill
<1>12. CASE Lab2!Type(u)
  <2>1. /\ main[u] = "getline" /\ main' = [main EXCEPT ![u] = "typed"]
        /\ UNCHANGED <<closed, server, inbox, reset, owed, owedAtEnd, killed>>
    BY <1>12 DEF Lab2!Type, Lab2!Goto, Lab2!connection
  <2>2. PICK l \in {"TEXT", "PING", "BYE"} :
           /\ line' = [line EXCEPT ![u] = l]
           /\ requests' = [requests EXCEPT ![u] = IF l = "BYE" THEN @ ELSE @ + 1]
    BY <1>12 DEF Lab2!Type
  <2>3. /\ line'[u] = l /\ requests'[u] = IF l = "BYE" THEN requests[u] ELSE requests[u] + 1
        /\ \A v \in Users : v # u => line'[v] = line[v] /\ requests'[v] = requests[v]
    BY <1>1, <2>2 DEF ProgramTypes
  <2>4. /\ owed[u] <= requests'[u] + 2 /\ owed[u] <= requests'[u] + 1
        /\ line'[u] # "BYE" => owed[u] <= requests'[u]
    BY <1>3, <2>1, <2>3, Numbers
  <2> QED
    BY <1>3, <1>5, <2>1, <2>3, <2>4, OwedOfClientGoingOn
<1> QED
  BY <1>6, <1>7, <1>8, <1>9, <1>10, <1>11, <1>12 DEF Lab2!ClientStep

\* Every step keeps it.
LEMMA NextOwedInv ==
  ASSUME Lab2!BoundsAssumption, Linked, ByeInv, OwedInv, [Lab2!Next]_(Lab2!vars)
  PROVE  OwedInv'
<1>1. CASE Lab2!Stop
  <2>1. Lab2!ServerEnds /\ UNCHANGED <<Lab2!clients, owed, owedAtEnd, requests, killed>>
    BY <1>1 DEF Lab2!Stop, Lab2!past
  <2> QED
    BY <2>1, OwedOfServerEnds DEF OwedInv, Lab2!KilledByTwoAnswers
<1>2. ASSUME NEW u \in Users, Lab2!ClientStep(u) \/ Lab2!ServerStep(u) \/ Lab2!Type(u) \/ Lab2!Kill(u)
      PROVE  OwedInv'
  BY <1>2, OwedOfServerStep, OwedOfClientStep
<1>3. CASE UNCHANGED Lab2!vars
  <2>1. UNCHANGED <<Lab2!clients, up, server, Lab2!connection, Lab2!past>>
    BY <1>3 DEF Lab2!vars
  <2> QED
    BY <2>1, DueKept
      DEF OwedInv, Lab2!KilledByTwoAnswers, Lab2!clients, Lab2!connection, Lab2!past
<1> QED
  BY <1>1, <1>2, <1>3 DEF Lab2!Next

-----------------------------------------------------------------------------
\* The invariant: types and connections, who says BYE, and who is owed an answer.
Lab2Inv == Linked /\ ByeInv /\ OwedInv

\* The invariant holds in every reachable state.
LEMMA Lab2Invariance ==
  ASSUME Lab2!BoundsAssumption
  PROVE  Lab2!Spec => []Lab2Inv
<1>1. ASSUME Lab2!Init PROVE Lab2Inv
  <2>1. ProgramTypes /\ ConnectionTypes /\ \A u \in Users : owed[u] \in 0 .. MaxRequests + 2
    <3>1. MaxRequests \in Nat
      BY DEF Lab2!BoundsAssumption
    <3>2. \A T : <<>> \in Seq(T)
      OBVIOUS
    <3>3. InboxType
      BY <1>1, <3>2 DEF Lab2!Init, InboxType, Lab2!Ends
    <3>4. closed \in [Users -> SUBSET Lab2!Ends] /\ reset \in [Users -> SUBSET Lab2!Ends]
      BY <1>1 DEF Lab2!Init
    <3>5. ProgramTypes /\ \A u \in Users : owed[u] \in 0 .. MaxRequests + 2
      <4>1. ProgramTypes
        <5>1. /\ owed \in [Users -> Int] /\ owedAtEnd \in [Users -> 0 .. MaxRequests + 2]
              /\ requests \in [Users -> 0 .. MaxRequests]
          BY <1>1, <3>1 DEF Lab2!Init
        <5>2. /\ running \in [Users -> BOOLEAN] /\ up \in BOOLEAN /\ killed \in BOOLEAN
          BY <1>1 DEF Lab2!Init
        <5> QED
          BY <1>1, <5>1, <5>2 DEF Lab2!Init, ProgramTypes
      <4> QED
        BY <1>1, <3>1, <4>1 DEF Lab2!Init
    <3> QED
      BY <3>3, <3>4, <3>5 DEF ConnectionTypes
  <2>2. Lab2!TypeOK
    BY <2>1, AllTypes
  <2>3. ConnectionInv
    BY <1>1 DEF Lab2!Init, ConnectionInv, Link, Lab2!Ends
  <2>4. ByeInv
    BY <1>1 DEF Lab2!Init, ByeInv, Quitting, HasBye, Lab2!Ends
  <2>5. OwedInv
    <3> SUFFICES ASSUME NEW u \in Users PROVE Due(u)
      BY <1>1 DEF Lab2!Init, OwedInv, Lab2!KilledByTwoAnswers
    <3>1. Cardinality(Calls(<<>>)) = 0
      <4>1. <<>> \in Seq({})
        OBVIOUS
      <4> QED
        BY <4>1, CallsInQueues
    <3>2. inbox[u]["server"] = <<>> /\ inbox[u]["client"] = <<>> /\ closed[u] = {} /\ server[u] = "none"
      BY <1>1 DEF Lab2!Init, Lab2!Ends
    <3>3. Asked(u) = 0 /\ Pending(u) = 0
      BY <3>1, <3>2 DEF Asked, Pending, Answers
    <3> QED
      BY <1>1, <3>2, <3>3 DEF Lab2!Init, Due
  <2> QED
    BY <2>2, <2>3, <2>4, <2>5 DEF Lab2Inv, Linked
<1>2. ASSUME Lab2Inv, [Lab2!Next]_(Lab2!vars) PROVE Lab2Inv'
  <2>1. \A u \in Users : main[u] \in {"typed", "send"} => line[u] # "none"
    BY <1>2 DEF Lab2Inv, ByeInv, Quitting
  <2>2. ConnectionTypes' /\ ProgramTypes' /\ ConnectionInv' /\ ByeInv' /\ OwedInv'
    BY <1>2, <2>1, NextConnectionTypes, NextProgramTypes, NextConnectionInv, NextByeInv,
         NextOwedInv
      DEF Lab2Inv
  <2>3. ASSUME NEW u \in Users PROVE owed'[u] \in 0 .. MaxRequests + 2
    <3>1. /\ owed'[u] \in Int /\ requests'[u] \in 0 .. MaxRequests /\ MaxRequests \in Nat
      BY <2>2 DEF ProgramTypes, Lab2!BoundsAssumption
    <3>2. owed'[u] >= 0 /\ owed'[u] <= requests'[u] + 2
      BY <2>2 DEF OwedInv, Due
    <3> QED
      BY <3>1, <3>2
  <2>4. Lab2!TypeOK'
    <3>1. ProgramTypes /\ ConnectionTypes /\ (\A u \in Users : owed[u] \in 0 .. MaxRequests + 2)
             => Lab2!TypeOK
      BY AllTypes
    <3>2. (ProgramTypes /\ ConnectionTypes /\ (\A u \in Users : owed[u] \in 0 .. MaxRequests + 2)
             => Lab2!TypeOK)'
      BY AllTypes, PTL
    <3> QED
      BY <2>2, <2>3, <3>2
  <2> QED
    BY <2>2, <2>4 DEF Lab2Inv, Linked
<1> QED
  BY <1>1, <1>2, PTL DEF Lab2!Spec

\* The state of the two programs and their connections has the types of TypeOK.
THEOREM Lab2TypeCorrect ==
  ASSUME Lab2!BoundsAssumption
  PROVE  Lab2!Spec => []Lab2!TypeOK
BY Lab2Invariance, PTL DEF Lab2Inv, Linked

\* A client ends the server only when it leaves two answers behind, and a session ends only
\* because its user quit or the server is gone.
THEOREM SessionEndsWhyAlways ==
  ASSUME Lab2!BoundsAssumption
  PROVE  Lab2!Spec => []Lab2!SessionEndsWhy
<1>1. Lab2Inv => Lab2!SessionEndsWhy
  BY DEF Lab2Inv, ByeInv, Quitting, OwedInv, Lab2!SessionEndsWhy, Lab2!EndedWhy
<1> QED
  BY <1>1, Lab2Invariance, PTL
=============================================================================
