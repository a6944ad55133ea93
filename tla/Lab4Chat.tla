------------------------------- MODULE Lab4Chat -------------------------------
(***************************************************************************)
(* lab4: a thread for each connection, a vector of the clients that are    *)
(* authenticated, and mutexClients, held while a thread sends to the       *)
(* members of the vector.  A thread's replies to its own client (WELCOME,  *)
(* PONG, errors) are sent without the mutex.                               *)
(*                                                                         *)
(* A message is two parts, header and text; send may put only the first    *)
(* into the buffer of a connection, and blocks while the buffer is full.   *)
(* A thread is named by the descriptor it serves; descriptors are used     *)
(* again after close, the smallest first.                                  *)
(***************************************************************************)
EXTENDS Integers, FiniteSets, Sequences, SequencesExt, VectorOps

CONSTANTS Socks,    \* descriptors
          Nicks,    \* nicknames
          Nobody,   \* the holder of a free mutex, the nickname of no client
          Room      \* parts that the buffer of a connection holds

ASSUME ServerAssumption ==
  /\ Socks \subseteq Nat /\ IsFiniteSet(Socks) /\ Nobody \notin Socks \cup Nicks
  /\ Room \in Nat \ {0, 1}

VARIABLES
  clients,       \* the vector of [sock, nick]
  mutexClients,  \* who holds it
  pc, nick,      \* what the thread of each descriptor does, for whom
  target,        \* the position in clients (or 0: its own client) it sends to next
  sending,       \* the type it is sending, and the number of parts sent of it
  private,       \* the receiver of a private message
  buffer,        \* parts on the way to each client
  client         \* what the client of each descriptor does

\* What has happened so far (history, not in the code).
VARIABLES
  refused,   \* clients to whom an error was the answer to AUTH
  overtaken, \* clients in the vector to whom others sent before WELCOME
  turnedAway, \* clients whose first message was not WELCOME
  rivals     \* pairs of threads whose checks of one nickname both came before the
             \* registration of the other

thread == <<pc, nick, target, sending, private>>
past == <<refused, overtaken, turnedAway, rivals>>
vars == <<clients, mutexClients, thread, buffer, client, past>>

\* Faulty variant: texts are broadcast without the mutex.
LockedSystemOnly == {"INFO", "PRIVATE"}

\* What is sent with mutexClients held.
Locked == {"INFO", "TEXT", "PRIVATE"}
Direct == {"WELCOME", "PONG", "ERROR"}
NotSending == [type |-> "none", parts |-> 0]

Init ==
  /\ clients = <<>> /\ mutexClients = Nobody
  /\ pc = [s \in Socks |-> "closed"] /\ nick = [s \in Socks |-> Nobody]
  /\ target = [s \in Socks |-> 0] /\ sending = [s \in Socks |-> NotSending]
  /\ private = [s \in Socks |-> Nobody]
  /\ buffer = [s \in Socks |-> <<>>] /\ client = [s \in Socks |-> "none"]
  /\ refused = {} /\ overtaken = {} /\ turnedAway = {} /\ rivals = {}

Goto(s, stage) == pc' = [pc EXCEPT ![s] = stage]
Sends(s, type, parts) == sending' = [sending EXCEPT ![s] = [type |-> type, parts |-> parts]]

-----------------------------------------------------------------------------
(* handleClient up to the registration *)

\* A client connects and sends AUTH; it is given the smallest free descriptor.
Connect(s) ==
  /\ pc[s] = "closed" /\ \A t \in Socks : pc[t] = "closed" => s <= t
  /\ \E n \in Nicks : nick' = [nick EXCEPT ![s] = n]
  /\ Goto(s, "auth") /\ client' = [client EXCEPT ![s] = "auth"]
  /\ buffer' = [buffer EXCEPT ![s] = <<>>]
  /\ refused' = refused \ {s} /\ overtaken' = overtaken \ {s} /\ turnedAway' = turnedAway \ {s}
  /\ rivals' = {p \in rivals : s \notin p}
  /\ UNCHANGED <<clients, mutexClients, target, sending, private>>

\* Faulty variant: the newest client is not looked at.
IsUniqueButLast(n) == \A i \in 1 .. Len(clients) - 1 : clients[i].nick # n

IsUnique(n) == \A i \in DOMAIN clients : clients[i].nick # n

\* The nickname is looked up under the mutex ...
CheckNick(s) ==
  /\ pc[s] = "auth" /\ mutexClients = Nobody
  /\ IF IsUnique(nick[s])
     THEN /\ Goto(s, "checked")
          /\ rivals' = rivals \cup {{s, t} : t \in {t \in Socks \ {s} : pc[t] = "checked"}}
          /\ UNCHANGED <<sending, refused>>
     ELSE /\ Goto(s, "refuse")
          /\ Sends(s, "ERROR", 0)
          /\ refused' = refused \cup {s} /\ UNCHANGED rivals
  /\ UNCHANGED <<clients, mutexClients, nick, target, private, buffer, client, overtaken, turnedAway>>

\* Faulty variant: the newcomer is announced before it is greeted.
GreetingAnnouncedFirst == [stage |-> "announce", type |-> "INFO"]

\* What follows the registration.
Greeting == [stage |-> "welcome", type |-> "WELCOME"]

\* ... and the client entered under it again.
PushBack(s) ==
  /\ pc[s] = "checked" /\ mutexClients = Nobody
  /\ clients' = Append(clients, [sock |-> s, nick |-> nick[s]])
  /\ Goto(s, Greeting.stage)
  /\ Sends(s, Greeting.type, 0)
  /\ UNCHANGED <<mutexClients, nick, target, private, buffer, client, past>>

-----------------------------------------------------------------------------
(* Sending *)

\* Clients that will not read again: sends to them fail at once (SIGPIPE is ignored).
Gone(c) == client[c] = "none"

\* sendAll to the client of c by thread s: as many parts as there is room for, at least
\* one, or an error.  It is through when both are sent.
SendAll(s, c, through) ==
  LET left == 2 - sending[s].parts
      fit  == IF Gone(c) THEN 0 ELSE Room - Len(buffer[c])
      n    == IF left <= fit THEN left ELSE fit
  IN  /\ Gone(c) \/ fit > 0
      /\ through = (Gone(c) \/ n = left)
      /\ buffer' = [buffer EXCEPT ![c] = @ \o
                     [i \in 1 .. n |-> [from |-> s, type |-> sending[s].type,
                                        part |-> sending[s].parts + i]]]
      /\ overtaken' = IF s # c /\ n > 0 /\ pc[c] = "welcome" THEN overtaken \cup {c} ELSE overtaken

\* Faulty variant: after the others were told, the thread goes on with its loop.
AfterForgetsClose(stage) ==
  CASE stage = "welcome" -> "announce"
    [] stage = "refuse"  -> "close"
    [] OTHER             -> "loop"

\* The stage that follows a stage of sending.
After(stage) ==
  CASE stage = "welcome" -> "announce"
    [] stage = "refuse"  -> "close"
    [] stage = "goodbye" -> "close"
    [] OTHER             -> "loop"

\* Faulty variant: the type is not set.
TypeAtMissing(stage) == "none"

\* What is sent first in a stage.
TypeAt(stage) == IF stage \in {"announce", "goodbye"} THEN "INFO" ELSE "none"

\* A reply to the thread's own client: WELCOME, PONG, or an error.
Reply(s) ==
  /\ pc[s] \in {"welcome", "refuse", "reply"}
  /\ \E through \in BOOLEAN :
        /\ SendAll(s, s, through)
        /\ IF through
           THEN /\ Goto(s, After(pc[s]))
                /\ Sends(s, TypeAt(After(pc[s])), 0)
           ELSE /\ Sends(s, sending[s].type, sending[s].parts + 1)
                /\ UNCHANGED pc
  /\ UNCHANGED <<clients, mutexClients, nick, target, private, client, refused, turnedAway, rivals>>

\* The positions a message goes to: all for sendSystem; all but the sender for broadcast;
\* the first with the nickname for a private message.
Receivers(s) ==
  CASE sending[s].type = "TEXT" -> {i \in DOMAIN clients : clients[i].sock # s}
    [] sending[s].type = "PRIVATE" ->
         {i \in DOMAIN clients : /\ clients[i].nick = private[s]
                                 /\ \A j \in 1 .. i - 1 : clients[j].nick # private[s]}
    [] OTHER -> DOMAIN clients

\* The next position to send to, one behind the vector if there is none.
NextReceiver(s, i) == IF \E j \in Receivers(s) : j > i
                      THEN CHOOSE j \in Receivers(s) : j > i /\ \A k \in Receivers(s) : k > i => j <= k
                      ELSE Len(clients) + 1

Announcing == {"announce", "text", "private", "goodbye"}

\* sendSystem, broadcast or the search for a private receiver takes the mutex ...
Lock(s) ==
  /\ pc[s] \in Announcing /\ target[s] = 0
  /\ sending[s].type \in Locked => mutexClients = Nobody
  /\ mutexClients' = IF sending[s].type \in Locked THEN s ELSE mutexClients
  /\ target' = [target EXCEPT ![s] = NextReceiver(s, 0)]
  /\ UNCHANGED <<clients, pc, nick, sending, private, buffer, client, past>>

\* ... sends to one after the other ...
SendToNext(s) ==
  /\ pc[s] \in Announcing /\ target[s] \in DOMAIN clients
  /\ \E through \in BOOLEAN :
        /\ SendAll(s, clients[target[s]].sock, through)
        /\ IF through
           THEN /\ target' = [target EXCEPT ![s] = NextReceiver(s, @)]
                /\ Sends(s, sending[s].type, 0)
           ELSE Sends(s, sending[s].type, sending[s].parts + 1) /\ UNCHANGED target
  /\ UNCHANGED <<clients, mutexClients, pc, nick, private, client, refused, turnedAway, rivals>>

\* Faulty variant: the early way out of the search keeps the mutex.
HolderIfNotFound(s) == IF Receivers(s) = {} THEN mutexClients ELSE Nobody

HolderAfter(s) == IF mutexClients = s THEN Nobody ELSE mutexClients

\* ... and releases it.  A private message that found nobody is answered with an error.
Unlock(s) ==
  /\ pc[s] \in Announcing /\ target[s] > Len(clients)
  /\ mutexClients' = HolderAfter(s)
  /\ target' = [target EXCEPT ![s] = 0] /\ private' = [private EXCEPT ![s] = Nobody]
  /\ IF pc[s] = "private" /\ Receivers(s) = {}
     THEN Goto(s, "reply") /\ Sends(s, "ERROR", 0)
     ELSE Goto(s, After(pc[s])) /\ Sends(s, "none", 0)
  /\ UNCHANGED <<clients, nick, buffer, client, past>>

-----------------------------------------------------------------------------
(* The loop of handleClient and its end *)

\* TEXT, PRIVATE, or PING from the client.
Request(s) ==
  /\ pc[s] = "loop" /\ client[s] = "in"
  /\ \/ Goto(s, "text") /\ Sends(s, "TEXT", 0) /\ UNCHANGED private
     \/ /\ Goto(s, "private") /\ Sends(s, "PRIVATE", 0)
        /\ \E n \in Nicks : private' = [private EXCEPT ![s] = n]
     \/ Goto(s, "reply") /\ Sends(s, "PONG", 0) /\ UNCHANGED private
  /\ UNCHANGED <<clients, mutexClients, nick, target, buffer, client, past>>

\* Faulty variant: clients with the nickname are erased.
ErasedByNick(s) == KeptAt(clients, {i \in DOMAIN clients : clients[i].nick # nick[s]})

Erased(s) == KeptAt(clients, {i \in DOMAIN clients : clients[i].sock # s})

\* BYE, or the client is gone: the entry is erased under the mutex.
Erase(s) ==
  /\ pc[s] = "loop" /\ mutexClients = Nobody
  /\ client[s] = "none"
  /\ clients' = Erased(s)
  /\ Goto(s, "goodbye") /\ Sends(s, "INFO", 0)
  /\ UNCHANGED <<mutexClients, nick, target, private, buffer, client, past>>

\* The descriptor is closed after the others were told.
Close(s) ==
  /\ pc[s] = "close" \/ (pc[s] = "auth" /\ client[s] = "none")
  /\ Goto(s, "closed")
  /\ nick' = [nick EXCEPT ![s] = Nobody] /\ client' = [client EXCEPT ![s] = "none"]
  /\ buffer' = [buffer EXCEPT ![s] = <<>>]
  /\ Sends(s, "none", 0)
  /\ UNCHANGED <<clients, mutexClients, target, private, past>>

-----------------------------------------------------------------------------
(* The client *)

\* The second part of the message that p is a part of.
Rest(p) == [from |-> p.from, type |-> p.type, part |-> 2]

\* Its receiver gets the messages in order.  The first must be WELCOME, or the client says
\* "Connection failed" and ends; a header followed by another than its text ends it, too.
ClientReads(s) ==
  /\ client[s] # "none" /\ Len(buffer[s]) > 1
  /\ LET p == Head(buffer[s])
         whole == p.part = 1 /\ buffer[s][2] = Rest(p)
         away == client[s] = "auth" /\ p.type # "WELCOME"
     IN  /\ turnedAway' = IF whole /\ away THEN turnedAway \cup {s} ELSE turnedAway
         /\ client' = [client EXCEPT ![s] = IF whole /\ ~away THEN "in" ELSE "none"]
         /\ buffer' = [buffer EXCEPT ![s] = IF whole /\ ~away THEN SubSeq(@, 3, Len(@)) ELSE <<>>]
  /\ UNCHANGED <<clients, mutexClients, thread, refused, overtaken, rivals>>

\* /quit (BYE), or the end of the program: the descriptor is closed.
ClientLeaves(s) ==
  /\ client[s] # "none"
  /\ client' = [client EXCEPT ![s] = "none"] /\ buffer' = [buffer EXCEPT ![s] = <<>>]
  /\ UNCHANGED <<clients, mutexClients, thread, past>>

ThreadStep(s) ==
  \/ CheckNick(s) \/ PushBack(s) \/ Reply(s) \/ Lock(s) \/ SendToNext(s) \/ Unlock(s)
  \/ Erase(s) \/ Close(s)

Next == \E s \in Socks :
  ThreadStep(s) \/ Connect(s) \/ Request(s) \/ ClientReads(s) \/ ClientLeaves(s)

Spec == Init /\ [][Next]_vars

\* Threads that can run do (strongly: they compete for a mutex), and clients read what was
\* sent to them.
FairSpec == Spec /\ \A s \in Socks : SF_vars(ThreadStep(s)) /\ WF_vars(ClientReads(s))

-----------------------------------------------------------------------------
Stages == {"closed", "auth", "checked", "welcome", "refuse", "announce", "loop", "text",
           "private", "reply", "goodbye", "close"}

Types == Locked \cup Direct \cup {"none"}

TypeOK ==
  /\ clients \in Seq([sock : Socks, nick : Nicks])
  /\ mutexClients \in Socks \cup {Nobody}
  /\ pc \in [Socks -> Stages] /\ nick \in [Socks -> Nicks \cup {Nobody}]
  /\ target \in [Socks -> Nat] /\ private \in [Socks -> Nicks \cup {Nobody}]
  /\ sending \in [Socks -> [type : Types, parts : 0 .. 1]]
  /\ buffer \in [Socks -> Seq([from : Socks, type : Types, part : 1 .. 2])]
  /\ \A s \in Socks :
        /\ sending[s].type = "none" <=> pc[s] \in {"closed", "auth", "checked", "loop", "close"}
        /\ Len(buffer[s]) <= Room
  /\ client \in [Socks -> {"none", "auth", "in"}]
  /\ refused \cup overtaken \cup turnedAway \subseteq Socks /\ rivals \subseteq SUBSET Socks

\* The vector has exactly the descriptors of the threads between push_back and erase, each
\* once and with its client's nickname: whoever holds the mutex sends to open descriptors
\* and never to another client that was given the same number.
VectorMatchesThreads ==
  /\ \A s \in Socks :
        (pc[s] \in {"welcome", "announce", "loop", "text", "private", "reply"}) <=>
        (\E i \in DOMAIN clients : clients[i] = [sock |-> s, nick |-> nick[s]])
  /\ \A i, j \in DOMAIN clients : clients[i].sock = clients[j].sock => i = j

\* Two clients have one nickname only if both checks came before either registration.
SameNickOnlyOfRivals ==
  \A i, j \in DOMAIN clients :
     i # j /\ clients[i].nick = clients[j].nick => {clients[i].sock, clients[j].sock} \in rivals

\* The parts of messages mix on a connection only if one of the messages is a reply, sent
\* without the mutex: all that is sent with mutexClients held stays in one piece.
OnlyRepliesInterleave ==
  \A s \in Socks : \A i \in 1 .. Len(buffer[s]) - 1 :
     /\ buffer[s][i].part = 1
     /\ buffer[s][i + 1] # Rest(buffer[s][i])
     => {buffer[s][i].type, buffer[s][i + 1].type} \cap Direct # {}

\* A client whose login fails was refused, or it was in the vector before WELCOME was sent,
\* and another thread sent to it in between: the client takes that for the answer to AUTH.
TurnedAwayWhy == turnedAway \subseteq refused \cup overtaken

\* mutexClients is free again and again, although it is held while sending to clients one by
\* one, as long as those clients read.
MutexIsReleased == []<>(mutexClients = Nobody)

\* A client that is gone is forgotten: its thread ends and the descriptor is closed.
GoneIsClosed == \A s \in Socks : (pc[s] # "closed" /\ client[s] = "none") ~> (pc[s] = "closed")

\* The vector clients, changed in three places, is a table of the clients there are.
VectorIsRight == VectorMatchesThreads /\ SameNickOnlyOfRivals

\* What a client gets is as it was sent, and in a login first things come first, but for
\* the two races named.
ArrivesWhole == OnlyRepliesInterleave /\ TurnedAwayWhy

\* No thread waits for ever for the mutex, nor in a send to a client that is gone.
NobodyBlocksForEver == MutexIsReleased /\ GoneIsClosed
==============================================================================
