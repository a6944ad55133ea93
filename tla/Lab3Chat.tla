-------------------------------- MODULE Lab3Chat --------------------------------
(***************************************************************************)
(* lab3: a pool of workers, each of which serves one connection until it   *)
(* ends; an unbounded queue of accepted connections; a vector of the       *)
(* clients that were welcomed; and clients that connect again when their   *)
(* connection fails.                                                       *)
(*                                                                         *)
(* The server broadcasts a whole Message, of which a receiver takes no     *)
(* more than its length says: the zeros behind it are the next thing that  *)
(* is read.  To a client, a message is a header and a body, taken by two   *)
(* calls of recv, and Surplus stands for such zeros.                       *)
(*                                                                         *)
(* In the client, main and receiveLoop use one variable sockfd.  A client  *)
(* whose first attempt failed starts two receivers: one in reconnect and   *)
(* one in start.  socket and connect are one step here, and buffers are    *)
(* never full (Lab4Chat has that).                                         *)
(***************************************************************************)
EXTENDS Integers, FiniteSets, Sequences, SequencesExt, VectorOps

CONSTANTS Users,      \* clients
          Workers,    \* the threads of the pool
          NoConn,     \* the connection of an idle thread
          MaxConns,   \* bound: how many connections there are
          MaxCrashes  \* bound: how often the server stops before the last connection is
                      \* made; or, in a behaviour where it never does, one line is typed

ASSUME BoundsAssumption ==
  /\ IsFiniteSet(Users) /\ IsFiniteSet(Workers)
  /\ MaxConns \in Nat /\ MaxCrashes \in Nat /\ NoConn \notin Nat

\* Connections are numbered as they are made.
Conns == 1 .. MaxConns
Threads == {"main", "first", "second"}

VARIABLES
  \* the server
  up,           \* it is running
  clientQueue,  \* accepted connections
  clients,      \* the vector
  pc, serving,  \* what each worker does, on which connection
  open,         \* connections that the server has not closed
  \* the connections
  madeBy,       \* who made each
  toServer, toClient,
  \* the clients
  fds,          \* connections whose descriptor is open
  sockfd,       \* the current one
  thread,       \* what each thread does
  reading,      \* the connection a thread's recv waits on
  crashes

\* What has happened so far (history, not in the code).
VARIABLES
  retried,      \* clients whose first attempt failed
  flooded,      \* connections on which zeros were left behind a message
  cutOff,       \* connections a receiver gave up although the server had not closed them
  robbed        \* connections closed by a thread whose own recv had failed on another

server == <<up, clientQueue, clients, pc, serving, open>>
client == <<fds, sockfd, thread, reading>>
made == Len(madeBy)
past == <<retried, flooded, cutOff, robbed>>
vars == <<server, client, madeBy, toServer, toClient, crashes, past>>

Init ==
  /\ up = TRUE /\ clientQueue = <<>> /\ clients = <<>>
  /\ pc = [w \in Workers |-> "check"] /\ serving = [w \in Workers |-> NoConn]
  /\ open = {} /\ madeBy = <<>>
  /\ toServer = [c \in Conns |-> <<>>] /\ toClient = [c \in Conns |-> <<>>]
  /\ fds = [u \in Users |-> {}] /\ sockfd = [u \in Users |-> NoConn]
  /\ thread = [u \in Users |-> [t \in Threads |-> IF t = "main" THEN "start" ELSE "off"]]
  /\ reading = [u \in Users |-> [t \in Threads |-> NoConn]]
  /\ crashes = 0
  /\ retried = {} /\ flooded = {} /\ cutOff = {} /\ robbed = {}

\* The client's end of a connection is there as long as a descriptor or a recv holds it.
ClientHolds(c) == \E u \in Users : c \in fds[u] \/ \E t \in Threads : reading[u][t] = c

-----------------------------------------------------------------------------
(* The pool *)

Goto(w, stage) == pc' = [pc EXCEPT ![w] = stage]

Waiting == {w \in Workers : pc[w] = "wait"}

\* Faulty variant: a push onto a queue that is not empty signals nobody.
SignalIfEmpty == clientQueue = <<>>

\* pthread_cond_signal at every push.
Signal == TRUE

\* run: the connection is queued and one waiting worker, if there is one, is woken.
Push(c) ==
  /\ clientQueue' = Append(clientQueue, c)
  /\ IF Signal /\ Waiting # {}
     THEN \E w \in Waiting : Goto(w, "check")
     ELSE UNCHANGED pc

\* worker: wait while the queue is empty, or take the first.
Take(w) ==
  /\ up /\ pc[w] = "check"
  /\ \/ /\ clientQueue = <<>>
        /\ Goto(w, "wait") /\ UNCHANGED <<clientQueue, serving>>
     \/ /\ clientQueue # <<>>
        /\ serving' = [serving EXCEPT ![w] = Head(clientQueue)]
        /\ clientQueue' = Tail(clientQueue)
        /\ Goto(w, "hello")
  /\ UNCHANGED <<up, clients, open, client, madeBy, toServer, toClient, crashes, past>>

-----------------------------------------------------------------------------
(* handleClient *)

\* recvMessage by the server: a message, or an error once the client is gone.
NextFrom(c) == IF toServer[c] # <<>> THEN Head(toServer[c])
               ELSE IF ClientHolds(c) THEN "none" ELSE "error"

Received(c) == toServer' = [toServer EXCEPT ![c] = IF @ = <<>> THEN @ ELSE Tail(@)]

\* Faulty variant: sendMessage, too, sends the whole structure.
SendMessageWhole(c, type) ==
  toClient' = IF ClientHolds(c) THEN [toClient EXCEPT ![c] = @ \o <<type, "body", "zeros">>]
              ELSE toClient

\* sendMessage puts no more on the connection than its length says.
SendMessage(c, type) ==
  toClient' = IF ClientHolds(c) THEN [toClient EXCEPT ![c] = @ \o <<type, "body">>] ELSE toClient

\* What broadcastText puts on the connection: the text cut to its length, and the rest of
\* the structure, unless the text fills it.
Broadcasted(fills) == IF fills THEN <<"TEXT", "body">> ELSE <<"TEXT", "body", "zeros">>

\* broadcastText to all but the sender, in one critical section of clientsMutex.
BroadcastText(sender, fills) ==
  LET receivers == {c \in ToSet(clients) \ {sender} : ClientHolds(c)}
  IN  /\ toClient' = [c \in Conns |-> toClient[c] \o
                        IF c \in receivers THEN Broadcasted(fills) ELSE <<>>]
      /\ flooded' = IF fills THEN flooded ELSE flooded \cup receivers

\* HELLO is answered with WELCOME; anything else, or nothing, ends the connection.
Hello(w) ==
  /\ pc[w] = "hello" /\ NextFrom(serving[w]) # "none"
  /\ Received(serving[w])
  /\ IF NextFrom(serving[w]) = "HELLO"
     THEN SendMessage(serving[w], "WELCOME") /\ Goto(w, "add")
     ELSE Goto(w, "close") /\ UNCHANGED toClient
  /\ UNCHANGED <<up, clientQueue, clients, serving, open, client, madeBy, crashes, past>>

AddClient(w) ==
  /\ pc[w] = "add"
  /\ clients' = Append(clients, serving[w])
  /\ Goto(w, "joined")
  /\ UNCHANGED <<up, clientQueue, serving, open, client, madeBy, toServer, toClient, crashes, past>>

\* The others are told that the client joined.
Joined(w) ==
  /\ pc[w] = "joined"
  /\ BroadcastText(serving[w], FALSE)
  /\ Goto(w, "loop")
  /\ UNCHANGED <<up, clientQueue, clients, serving, open, client, madeBy, toServer, crashes,
                 retried, cutOff, robbed>>

\* One message of the loop: a text, long or short, and the end are told to the others.
Serve(w) ==
  LET m == NextFrom(serving[w]) IN
  /\ pc[w] = "loop" /\ m # "none"
  /\ Received(serving[w])
  /\ Goto(w, IF m \in {"BYE", "error"} THEN "remove" ELSE "loop")
  /\ \/ m = "TEXT" /\ \E fills \in BOOLEAN : BroadcastText(serving[w], fills)
     \/ m \in {"BYE", "error"} /\ BroadcastText(serving[w], FALSE)
     \/ m = "PING" /\ SendMessage(serving[w], "PONG") /\ UNCHANGED flooded
     \/ m = "HELLO" /\ UNCHANGED <<toClient, flooded>>
  /\ UNCHANGED <<up, clientQueue, clients, serving, open, client, madeBy, crashes,
                 retried, cutOff, robbed>>

\* Faulty variant: remove_if without erase.
RemovedNot(c) == clients

Removed(c) == KeptAt(clients, {i \in DOMAIN clients : clients[i] # c})

RemoveClient(w) ==
  /\ pc[w] = "remove"
  /\ clients' = Removed(serving[w])
  /\ Goto(w, "close")
  /\ UNCHANGED <<up, clientQueue, serving, open, client, madeBy, toServer, toClient, crashes, past>>

Close(w) ==
  /\ pc[w] = "close"
  /\ open' = open \ {serving[w]}
  /\ toServer' = [toServer EXCEPT ![serving[w]] = <<>>]
  /\ Goto(w, "check") /\ serving' = [serving EXCEPT ![w] = NoConn]
  /\ UNCHANGED <<up, clientQueue, clients, client, madeBy, toClient, crashes, past>>

\* The server process ends, and is started again.
Crash ==
  /\ up /\ crashes < MaxCrashes /\ made < MaxConns
  /\ up' = FALSE /\ crashes' = crashes + 1
  /\ clientQueue' = <<>> /\ clients' = <<>> /\ open' = {}
  /\ pc' = [w \in Workers |-> "check"] /\ serving' = [w \in Workers |-> NoConn]
  /\ toServer' = [c \in Conns |-> <<>>]
  /\ UNCHANGED <<client, madeBy, toClient, past>>

Start ==
  /\ ~up /\ up' = TRUE
  /\ UNCHANGED <<clientQueue, clients, pc, serving, open, client, madeBy, toServer, toClient,
                 crashes, past>>

-----------------------------------------------------------------------------
(* The client *)

Stage(u, t, stage) == thread' = [thread EXCEPT ![u][t] = stage]

\* main is in start, not in reconnect.
First(u, t) == t = "main" /\ u \notin retried

\* An attempt or a recvMessage has failed.  receiveLoop and start go on to reconnect, which
\* closes sockfd; a handshake inside reconnect is followed by the next attempt.
Fail(u, t) ==
  /\ Stage(u, t, IF thread[u][t] \in {"loop", "text"} \/ First(u, t) THEN "drop" ELSE "open")
  /\ retried' = IF First(u, t) THEN retried \cup {u} ELSE retried
  /\ reading' = [reading EXCEPT ![u][t] = NoConn]

\* connectToServer: a new connection becomes sockfd.  What sockfd was is not closed here.
ConnectToServer(u, t) ==
  /\ thread[u][t] \in {"start", "open"}
  /\ \/ /\ up /\ made < MaxConns
        /\ madeBy' = Append(madeBy, u)
        /\ sockfd' = [sockfd EXCEPT ![u] = made + 1]
        /\ fds' = [fds EXCEPT ![u] = @ \cup {made + 1}]
        /\ open' = open \cup {made + 1}
        /\ Push(made + 1)
        /\ Stage(u, t, "hello")
        /\ UNCHANGED <<retried, reading>>
     \/ /\ ~up
        /\ Fail(u, t)
        /\ UNCHANGED <<madeBy, sockfd, fds, open, clientQueue, pc>>
  /\ UNCHANGED <<up, clients, serving, toServer, toClient, crashes, flooded, cutOff, robbed>>

\* sendMessage on sockfd: arrives if both ends are open.
SendToServer(u, type) ==
  LET c == sockfd[u] IN
  toServer' = IF c \in fds[u] \cap open THEN [toServer EXCEPT ![c] = Append(@, type)] ELSE toServer

SendHello(u, t) ==
  /\ thread[u][t] = "hello"
  /\ SendToServer(u, "HELLO")
  /\ Stage(u, t, "answer")
  /\ UNCHANGED <<server, madeBy, fds, sockfd, reading, toClient, crashes, past>>

\* recvMessage is called with the sockfd of that moment ...
Recv(u, t) ==
  /\ thread[u][t] \in {"loop", "answer"} /\ reading[u][t] = NoConn
  /\ IF sockfd[u] \in fds[u]
     THEN reading' = [reading EXCEPT ![u][t] = sockfd[u]] /\ UNCHANGED <<thread, retried>>
     ELSE Fail(u, t)
  /\ UNCHANGED <<server, madeBy, fds, sockfd, toServer, toClient, crashes, flooded, cutOff, robbed>>

IsHeader(block) == block \notin {"body", "zeros"}

\* ... and takes a header.  Anything else there (zeros, or a body whose header another thread
\* took) gives a length beyond MAX_PAYLOAD, and it fails, as at the end of the connection.
RecvHeader(u, t) ==
  LET c == reading[u][t]
      got == toClient[c] # <<>>
  IN
  /\ thread[u][t] \in {"loop", "answer"} /\ c # NoConn
  /\ got \/ c \notin open
  /\ IF got /\ IsHeader(Head(toClient[c]))
     THEN /\ Stage(u, t, IF thread[u][t] = "loop" THEN "text"
                         ELSE IF Head(toClient[c]) = "WELCOME" THEN "welcome" ELSE "other")
          /\ UNCHANGED <<reading, retried, cutOff>>
     ELSE /\ Fail(u, t)
          /\ cutOff' = IF c \in open THEN cutOff \cup {c} ELSE cutOff
  /\ toClient' = [toClient EXCEPT ![c] = IF got THEN Tail(@) ELSE @]
  /\ UNCHANGED <<server, madeBy, fds, sockfd, toServer, crashes, flooded, robbed>>

\* Faulty variant: main starts two receivers in any case.
ConnectedTwice(u, t) ==
  IF t # "main" THEN [thread[u] EXCEPT ![t] = "loop"]
  ELSE [r \in Threads |-> IF r = "main" THEN "input" ELSE "loop"]

\* The threads of u that run once the handshake of t has succeeded: t itself in receiveLoop
\* or, when it is main, those that main starts.
Connected(u, t) ==
  IF t # "main" THEN [thread[u] EXCEPT ![t] = "loop"]
  ELSE [r \in Threads |-> CASE r = "main" -> "input"
                            [] r = "second" /\ u \notin retried -> "off"
                            [] OTHER -> "loop"]

\* Then it takes the body.
RecvBody(u, t) ==
  LET c == reading[u][t]
      got == toClient[c] # <<>>
  IN
  /\ thread[u][t] \in {"text", "welcome", "other"}
  /\ got \/ c \notin open
  /\ IF ~got \/ thread[u][t] = "other"
     THEN Fail(u, t)
     ELSE /\ thread' = [thread EXCEPT ![u] = IF thread[u][t] = "welcome" THEN Connected(u, t)
                                             ELSE [@ EXCEPT ![t] = "loop"]]
          /\ reading' = [reading EXCEPT ![u][t] = NoConn]
          /\ UNCHANGED retried
  /\ toClient' = [toClient EXCEPT ![c] = IF got THEN Tail(@) ELSE @]
  /\ UNCHANGED <<server, madeBy, fds, sockfd, toServer, crashes, flooded, cutOff, robbed>>

\* reconnect closes sockfd, whatever it is by now.
Drop(u, t) ==
  /\ thread[u][t] = "drop"
  /\ fds' = [fds EXCEPT ![u] = @ \ {sockfd[u]}]
  /\ Stage(u, t, "open")
  /\ toClient' = [c \in Conns |-> IF c = sockfd[u] /\ \A r \in Threads : reading[u][r] # c
                                  THEN <<>> ELSE toClient[c]]
  /\ robbed' = IF sockfd[u] \in fds[u] \cap open /\ sockfd[u] \notin cutOff
               THEN robbed \cup {sockfd[u]} ELSE robbed
  /\ UNCHANGED <<server, madeBy, sockfd, reading, toServer, crashes, retried, flooded, cutOff>>

\* A line or /ping.
Input(u) ==
  /\ thread[u]["main"] = "input" /\ crashes = 0 /\ made < MaxConns
  /\ crashes' = MaxCrashes
  /\ \E type \in {"TEXT", "PING"} : SendToServer(u, type)
  /\ UNCHANGED <<server, client, madeBy, toClient, past>>

\* /quit, or main is killed by SIGPIPE when it sends on a connection the server has closed:
\* the program ends with all its threads.
Quit(u) ==
  /\ thread[u]["main"] = "input"
  /\ SendToServer(u, "BYE")
  /\ toClient' = [c \in Conns |-> IF c \in fds[u] THEN <<>> ELSE toClient[c]]
  /\ fds' = [fds EXCEPT ![u] = {}] /\ sockfd' = [sockfd EXCEPT ![u] = NoConn]
  /\ thread' = [thread EXCEPT ![u] = [t \in Threads |-> "off"]]
  /\ reading' = [reading EXCEPT ![u] = [t \in Threads |-> NoConn]]
  /\ UNCHANGED <<server, madeBy, crashes, past>>

WorkerStep(w) ==
  \/ Take(w) \/ Hello(w) \/ AddClient(w) \/ Joined(w) \/ Serve(w)
  \/ RemoveClient(w) \/ Close(w)

ThreadStep(u, t) ==
  \/ ConnectToServer(u, t) \/ SendHello(u, t) \/ Recv(u, t) \/ RecvHeader(u, t)
  \/ RecvBody(u, t) \/ Drop(u, t)

Next ==
  \/ \E w \in Workers : WorkerStep(w)
  \/ \E u \in Users : Input(u) \/ Quit(u) \/ \E t \in Threads : ThreadStep(u, t)
  \/ Crash \/ Start

Spec == Init /\ [][Next]_vars

-----------------------------------------------------------------------------
TypeOK ==
  /\ up \in BOOLEAN /\ clientQueue \in Seq(Conns)
  /\ clients \in Seq(Conns) /\ Len(clients) <= Cardinality(Workers)
  /\ pc \in [Workers -> {"check", "wait", "hello", "add", "joined", "loop", "remove", "close"}]
  /\ serving \in [Workers -> Conns \cup {NoConn}]
  /\ open \subseteq 1 .. made /\ madeBy \in Seq(Users) /\ made <= MaxConns
  /\ fds \in [Users -> SUBSET (1 .. made)] /\ sockfd \in [Users -> Conns \cup {NoConn}]
  /\ toServer \in [Conns -> Seq({"HELLO", "TEXT", "PING", "BYE"})]
  /\ toClient \in [Conns -> Seq({"WELCOME", "PONG", "TEXT", "body", "zeros"})]
  /\ thread \in [Users -> [Threads -> {"off", "start", "open", "hello", "answer", "welcome",
                                       "other", "loop", "text", "drop", "input"}]]
  /\ reading \in [Users -> [Threads -> Conns \cup {NoConn}]]
  /\ retried \subseteq Users /\ flooded \cup cutOff \cup robbed \subseteq 1 .. made

\* Every connection the server has not closed is in the queue or with one worker, once, and
\* the vector has each welcomed one once: no text goes to a closed descriptor, or twice.
OneOwner ==
  /\ open = (ToSet(clientQueue) \cup {serving[w] : w \in Workers}) \ {NoConn}
  /\ IsInjective(clientQueue) /\ IsInjective(clients)
  /\ \A w \in Workers : serving[w] \notin ToSet(clientQueue)
  /\ \A v, w \in Workers : serving[v] = serving[w] /\ v # w => serving[v] = NoConn
  /\ ToSet(clients) = {serving[w] : w \in {w \in Workers :
                                            pc[w] \in {"joined", "loop", "remove"}}}

\* No worker sleeps beside a connection for which no other is awake, although a worker that
\* never slept may take the connection another was woken for.
NoLostWakeup ==
  Waiting # {} => Len(clientQueue) <= Cardinality({w \in Workers : pc[w] = "check"})

\* "Disconnected from server" although the server is there has one of two causes: a broadcast
\* left zeros behind its text, or two receivers shared the connection.
CutOffWhy ==
  \A c \in cutOff : c \in flooded \/ madeBy[c] \in retried

\* A client closes a connection that works, or loses track of one that the server still
\* serves (and so keeps a worker for ever), only if its first attempt failed: it has two
\* receivers from then on.
OnlyRetriedLoseConnections ==
  \A c \in Conns : \A u \in Users \ retried :
     /\ c \in robbed => madeBy[c] # u
     /\ c \in fds[u] \cap open => c = sockfd[u]

\* The queue, the condition variable, the vector and the workers fit together.
PoolIsSound == OneOwner /\ NoLostWakeup

\* What can cost a client its connection, while the server is there.
ConnectionLossWhy == CutOffWhy /\ OnlyRetriedLoseConnections
==============================================================================
