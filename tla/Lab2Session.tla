------------------------------ MODULE Lab2Session ------------------------------
(***************************************************************************)
(* lab2: a server with a thread for each client, and clients with two      *)
(* threads: main reads lines and sends, the receiver waits in select for   *)
(* at most 100 ms at a time and looks at running in between.  Both sides   *)
(* send and receive whole Message structures.                              *)
(*                                                                         *)
(* Neither program ignores SIGPIPE.  A message to an end that was closed   *)
(* is answered with a reset, as is a close that leaves data unread; the    *)
(* next send on a connection whose reset has arrived kills the program.    *)
(***************************************************************************)
EXTENDS Integers, FiniteSets, Sequences, SequencesExt

CONSTANTS Users,      \* clients
          MaxRequests \* bound: texts and pings per client

ASSUME BoundsAssumption == IsFiniteSet(Users) /\ MaxRequests \in Nat

Ends == {"client", "server"}
Other(e) == IF e = "client" THEN "server" ELSE "client"

VARIABLES
  \* the clients
  main, receiver, \* what the threads do
  running,
  line,           \* what was typed
  \* the server
  up,             \* it runs
  thread,         \* what the thread of each client does
  \* the connections
  inbox,          \* messages on the way to each end
  closed, reset   \* ends that are closed; ends that a reset is on the way to

\* What has happened so far (history, not in the code).
VARIABLES
  owed,           \* answers each client still has to receive
  owedAtEnd,      \* how many those were when it closed
  requests,       \* texts and pings of each client
  killed          \* the server was killed by SIGPIPE

clients == <<main, receiver, running, line>>
connection == <<inbox, closed, reset>>
past == <<owed, owedAtEnd, requests, killed>>
vars == <<clients, up, thread, connection, past>>

Init ==
  /\ main = [u \in Users |-> "connect"] /\ receiver = [u \in Users |-> "off"]
  /\ running = [u \in Users |-> TRUE] /\ line = [u \in Users |-> "none"]
  /\ up = TRUE /\ thread = [u \in Users |-> "none"]
  /\ inbox = [u \in Users |-> [e \in Ends |-> <<>>]]
  /\ closed = [u \in Users |-> {}] /\ reset = [u \in Users |-> {}]
  /\ owed = [u \in Users |-> 0] /\ owedAtEnd = [u \in Users |-> 0]
  /\ requests = [u \in Users |-> 0] /\ killed = FALSE

-----------------------------------------------------------------------------
(* Connections *)

\* sendMessage by end e: the message arrives, or, if the other end is closed, a reset comes back.
SendMessage(u, e, type) ==
  IF Other(e) \in closed[u]
  THEN reset' = [reset EXCEPT ![u] = @ \cup {e}] /\ UNCHANGED <<inbox, closed>>
  ELSE inbox' = [inbox EXCEPT ![u][Other(e)] = Append(@, type)] /\ UNCHANGED <<closed, reset>>

\* End e has something for recvMessage: a message, or the end of the connection.
Readable(u, e) == inbox[u][e] # <<>> \/ Other(e) \in closed[u] \/ e \in reset[u]

\* What recvMessage of end e returns.
Message(u, e) == IF inbox[u][e] = <<>> THEN "error" ELSE Head(inbox[u][e])

Taken(u, e) == inbox' = [inbox EXCEPT ![u][e] = IF @ = <<>> THEN @ ELSE Tail(@)]

\* The ends in the set are closed; unread data make the kernel send a reset.
ClosedEnds(gone) ==
  /\ closed' = [u \in Users |-> closed[u] \cup gone[u]]
  /\ reset' = [u \in Users |-> reset[u] \cup {Other(e) : e \in {e \in gone[u] : inbox[u][e] # <<>>}}]
  /\ inbox' = [u \in Users |-> [e \in Ends |-> IF e \in gone[u] THEN <<>> ELSE inbox[u][e]]]

CloseEnd(u, e) == ClosedEnds([v \in Users |-> IF v = u THEN {e} ELSE {}])

-----------------------------------------------------------------------------
(* The server *)

\* The process ends with all its threads.
ServerEnds ==
  /\ up' = FALSE
  /\ thread' = [u \in Users |-> "closed"]
  /\ ClosedEnds([u \in Users |-> {"server"}])

\* What the thread does with HELLO, and in the loop: a request is answered, BYE ends it.
Answer(type) == CASE type = "HELLO" -> "WELCOME" [] type = "PING" -> "PONG"
                  [] type = "BYE" -> "BYE" [] OTHER -> "none"

\* One message of handleClient.  An answer to a client that is known to be gone kills the
\* server.
HandleClient(u) ==
  LET m == Message(u, "server")
      bad == m = "error" \/ (thread[u] = "hello" /\ m # "HELLO")
      answer == Answer(m)
  IN
  /\ up /\ thread[u] \in {"hello", "loop"} /\ Readable(u, "server")
  /\ \/ /\ bad
        /\ thread' = [thread EXCEPT ![u] = "closed"]
        /\ CloseEnd(u, "server")
     \/ /\ ~bad /\ (thread[u] = "loop" => m # "HELLO")
        /\ thread' = [thread EXCEPT ![u] = IF answer = "none" THEN "loop" ELSE answer]
        /\ Taken(u, "server") /\ UNCHANGED <<closed, reset>>
  /\ UNCHANGED <<clients, up, past>>

\* Faulty variant: case MSG_PING without break.
AfterAnswerFallsThrough(u) == IF thread[u] = "PONG" THEN "BYE"
                              ELSE IF thread[u] = "BYE" THEN "close" ELSE "loop"

\* Faulty variant: the server sends a PONG of its own after WELCOME.
AfterAnswerUnasked(u) == IF thread[u] = "WELCOME" THEN "PONG"
                         ELSE IF thread[u] = "BYE" THEN "close" ELSE "loop"

\* The stage after an answer was sent.
AfterAnswer(u) == IF thread[u] = "BYE" THEN "close" ELSE "loop"

SendAnswer(u) ==
  /\ up /\ thread[u] \in {"WELCOME", "PONG", "BYE"}
  /\ \/ /\ SendMessage(u, "server", thread[u])
        /\ thread' = [thread EXCEPT ![u] = AfterAnswer(u)]
        /\ UNCHANGED <<up, killed>>
     \/ /\ "server" \in reset[u]
        /\ ServerEnds /\ killed' = TRUE
  /\ UNCHANGED <<clients, owed, owedAtEnd, requests>>

CloseThread(u) ==
  /\ up /\ thread[u] = "close"
  /\ thread' = [thread EXCEPT ![u] = "closed"]
  /\ CloseEnd(u, "server")
  /\ UNCHANGED <<clients, up, past>>

\* The server is stopped from outside.
Stop == up /\ ServerEnds /\ UNCHANGED <<clients, past>>

-----------------------------------------------------------------------------
(* The client *)

\* The process ends, by return from main or by a signal.
ClientEnds(u) ==
  /\ main' = [main EXCEPT ![u] = "ended"] /\ receiver' = [receiver EXCEPT ![u] = "off"]
  /\ CloseEnd(u, "client")
  /\ owedAtEnd' = [owedAtEnd EXCEPT ![u] = owed[u]]

Goto(u, stage) == main' = [main EXCEPT ![u] = stage]

\* connectToServer and HELLO; without a server the program ends.
Connect(u) ==
  /\ main[u] = "connect"
  /\ IF up
     THEN /\ thread' = [thread EXCEPT ![u] = "hello"]
          /\ SendMessage(u, "client", "HELLO") /\ owed' = [owed EXCEPT ![u] = 1]
          /\ Goto(u, "welcome") /\ UNCHANGED <<receiver, owedAtEnd>>
     ELSE ClientEnds(u) /\ UNCHANGED <<thread, owed>>
  /\ UNCHANGED <<running, line, up, requests, killed>>

\* handshake and start.
Welcome(u) ==
  /\ main[u] = "welcome" /\ Readable(u, "client")
  /\ IF Message(u, "client") = "WELCOME"
     THEN /\ Taken(u, "client") /\ owed' = [owed EXCEPT ![u] = @ - 1]
          /\ Goto(u, "getline") /\ receiver' = [receiver EXCEPT ![u] = "select"]
          /\ UNCHANGED <<closed, reset, owedAtEnd>>
     ELSE ClientEnds(u) /\ UNCHANGED owed
  /\ UNCHANGED <<running, line, up, thread, requests, killed>>

\* The user types a line.
Type(u) ==
  /\ main[u] = "getline" /\ Goto(u, "typed")
  /\ \E l \in {"TEXT", "PING", "BYE"} :
        /\ l # "BYE" => requests[u] < MaxRequests
        /\ line' = [line EXCEPT ![u] = l]
        /\ requests' = [requests EXCEPT ![u] = IF l = "BYE" THEN @ ELSE @ + 1]
  /\ UNCHANGED <<receiver, running, up, thread, connection, owed, owedAtEnd, killed>>

\* running is looked at after getline ...
LookAtRunning(u) ==
  /\ main[u] = "typed"
  /\ Goto(u, IF running[u] THEN "send" ELSE "join")
  /\ UNCHANGED <<receiver, running, line, up, thread, connection, past>>

\* ... before the line is sent, which may kill the client; /quit, sent as BYE, ends the loop.
SendLine(u) ==
  /\ main[u] = "send"
  /\ \/ /\ SendMessage(u, "client", line[u])
        /\ Goto(u, IF line[u] = "BYE" \/ ~running[u] THEN "join" ELSE "getline")
        /\ running' = [running EXCEPT ![u] = IF line[u] = "BYE" THEN FALSE ELSE @]
        /\ owed' = [owed EXCEPT ![u] = IF Answer(line[u]) = "none" THEN @ ELSE @ + 1]
        /\ UNCHANGED <<receiver, owedAtEnd>>
     \/ /\ "client" \in reset[u]
        /\ ClientEnds(u) /\ UNCHANGED <<running, owed>>
  /\ UNCHANGED <<line, up, thread, requests, killed>>

\* Faulty variant: recv without select, so that running is seen only after a message.
ReceiverEndsLate(u) == ~running[u] /\ Readable(u, "client")

\* select has timed out, and running is looked at.
ReceiverEnds(u) == ~running[u]

\* receiveMessages: one round of the loop.  A message may be taken after running became
\* false, if the receiver was in select by then.
ReceiveMessages(u) ==
  LET m == Message(u, "client") IN
  /\ receiver[u] = "select"
  /\ \/ /\ ReceiverEnds(u)
        /\ receiver' = [receiver EXCEPT ![u] = "off"]
        /\ UNCHANGED <<running, inbox, owed>>
     \/ /\ Readable(u, "client")
        /\ Taken(u, "client")
        /\ running' = [running EXCEPT ![u] = @ /\ m \notin {"error", "BYE"}]
        /\ owed' = [owed EXCEPT ![u] = IF m = "error" THEN @ ELSE @ - 1]
        /\ receiver' = [receiver EXCEPT ![u] = IF m = "error" THEN "off" ELSE @]
  /\ UNCHANGED <<main, line, up, thread, closed, reset, owedAtEnd, requests, killed>>

\* main joins the receiver and the descriptor is closed.
Join(u) ==
  /\ main[u] = "join" /\ receiver[u] = "off"
  /\ ClientEnds(u)
  /\ UNCHANGED <<running, line, up, thread, owed, requests, killed>>

\* The client is killed from outside.
Kill(u) ==
  /\ main[u] \notin {"connect", "ended"} /\ ClientEnds(u)
  /\ UNCHANGED <<running, line, up, thread, owed, requests, killed>>

ClientStep(u) ==
  \/ Connect(u) \/ Welcome(u) \/ LookAtRunning(u) \/ SendLine(u) \/ ReceiveMessages(u) \/ Join(u)

ServerStep(u) == HandleClient(u) \/ SendAnswer(u) \/ CloseThread(u)

Next == Stop \/ \E u \in Users : ClientStep(u) \/ ServerStep(u) \/ Type(u) \/ Kill(u)

Spec == Init /\ [][Next]_vars

\* The threads of the clients run.  Nothing is assumed of the users or the server.
FairSpec ==
  /\ Spec
  /\ \A u \in Users : /\ WF_vars(Connect(u) \/ Welcome(u) \/ LookAtRunning(u) \/ SendLine(u) \/ Join(u))
                      /\ WF_vars(ReceiveMessages(u))

-----------------------------------------------------------------------------
TypeOK ==
  /\ main \in [Users -> {"connect", "welcome", "getline", "typed", "send", "join", "ended"}]
  /\ receiver \in [Users -> {"off", "select"}] /\ running \in [Users -> BOOLEAN]
  /\ line \in [Users -> {"none", "TEXT", "PING", "BYE"}]
  /\ up \in BOOLEAN /\ killed \in BOOLEAN
  /\ thread \in [Users -> {"none", "hello", "loop", "WELCOME", "PONG", "BYE", "close", "closed"}]
  /\ inbox \in [Users -> [Ends -> Seq({"HELLO", "TEXT", "PING", "BYE", "WELCOME", "PONG"})]]
  /\ \A u \in Users : /\ inbox[u].server \in Seq({"HELLO", "TEXT", "PING", "BYE"})
                      /\ inbox[u].client \in Seq({"WELCOME", "PONG", "BYE"})
  /\ closed \in [Users -> SUBSET Ends] /\ reset \in [Users -> SUBSET Ends]
  /\ owed \in [Users -> 0 .. MaxRequests + 2] /\ owedAtEnd \in [Users -> 0 .. MaxRequests + 2]
  /\ requests \in [Users -> 0 .. MaxRequests]

\* A client can kill the server, and so end the sessions of all, only by closing while two
\* answers are due: the first is refused with a reset (or was left unread), the second is
\* the send that kills.  A client that has its answers, or misses but one, is harmless.
KilledByTwoAnswers == killed => \E u \in Users : owedAtEnd[u] >= 2

\* A session ends only because its user quit or the server is gone: no client's leaving
\* disconnects another as long as the server runs.
EndedWhy ==
  \A u \in Users : ~running[u] => line[u] = "BYE" \/ ~up

\* /quit ends the program even if the server never answers: the receiver, which main joins,
\* does not wait in recv.
QuitEnds ==
  \A u \in Users : (main[u] = "send" /\ line[u] = "BYE") ~> (main[u] = "ended")

\* What can end a session, or all of them, against the will of the user.
SessionEndsWhy == KilledByTwoAnswers /\ EndedWhy
==============================================================================
