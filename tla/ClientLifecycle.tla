---------------------------- MODULE ClientLifecycle ----------------------------
(***************************************************************************)
(* From the start to the end of lab6/client.cpp (lab5's client is the same *)
(* without timeoutChecker): the connection and its loss, reconnection,     *)
(* /quit and end of input.  main, the receiver and timeoutChecker share    *)
(* networkSocket (under socketLock), isConnected (under connectionLock)    *)
(* and, without a lock, isRunning and authFailed.                          *)
(*                                                                         *)
(* A descriptor is a number that the kernel gives out again after close,   *)
(* the smallest first; a connection is what it stands for.  A thread that  *)
(* is blocked in recv keeps the connection open although another closes    *)
(* its descriptor.  Packets are represented by their types; "OK" is the    *)
(* notice "authentication success", "TEXT" a request of this client or a   *)
(* message of another.                                                     *)
(***************************************************************************)
EXTENDS Integers, FiniteSets, Sequences, SequencesExt

CONSTANTS Fds,        \* descriptors; the client is never refused one
          Conns,      \* connections, reused when both ends are closed
          MaxPackets, \* bound: packets in flight on a connection, one way, but for the handshake
          MaxFaults   \* bound: crashes of the server and packets it drops

ASSUME LifecycleAssumption ==
  /\ Fds \subseteq Nat \ {0} /\ Conns \subseteq Nat \ {0}
  /\ IsFiniteSet(Fds) /\ IsFiniteSet(Conns) /\ Cardinality(Fds) > 1
  /\ MaxPackets \in Nat \ {0} /\ MaxFaults \in Nat

\* No descriptor (-1 in the code), no connection.
None == 0

VARIABLES
  main, wish, mainSocket,  \* main: where it is, what was typed last (at the end of input,
                           \* "eof"), the descriptor it sends on
  receiver, newSocket,     \* the receiver, and the descriptor it is connecting
  reading,                 \* the connection its recv is blocked on
  resendSocket,            \* the descriptor timeoutChecker is about to use
  networkSocket, isConnected, isRunning, authFailed,
  file,                    \* the kernel: the connection of each open descriptor
  stage, toServer, toClient,  \* the server's end of each connection; packets in flight
  serverUp, faults

\* What has happened so far (history, not in the code).
VARIABLES
  accepted,  \* connections on which the server has registered this client
  refused,   \* the server has refused the nickname
  stale,     \* another thread has sent on the connection being established
  lastConns  \* connections there were when isRunning was cleared by /quit

mainVars == <<main, wish, mainSocket>>
receiverVars == <<receiver, newSocket, reading>>
shared == <<networkSocket, isConnected, isRunning, authFailed>>
network == <<stage, toServer, toClient, serverUp, faults, accepted, refused>>
vars == <<mainVars, receiverVars, resendSocket, shared, file, network, stale, lastConns>>

Connecting == {"send hello", "await welcome", "send auth", "await answer", "publish socket"}
Ending == {"close", "disconnect", "join", "exited"}

\* The first attempt is main's, before there are threads; the receiver stands for it.
Init ==
  /\ main = "starting" /\ wish = "TEXT" /\ mainSocket = None
  /\ receiver = "open" /\ newSocket = None /\ reading = None
  /\ resendSocket = None
  /\ networkSocket = None /\ isConnected = FALSE /\ isRunning = TRUE /\ authFailed = FALSE
  /\ file = [fd \in Fds |-> None]
  /\ stage = [c \in Conns |-> "closed"]
  /\ toServer = [c \in Conns |-> <<>>] /\ toClient = [c \in Conns |-> <<>>]
  /\ serverUp = TRUE /\ faults = 0
  /\ accepted = {} /\ refused = FALSE /\ stale = FALSE /\ lastConns = {}

Released(c) == reading # c /\ \A fd \in Fds : file[fd] # c

-----------------------------------------------------------------------------
(* Sending and receiving *)

\* send on descriptor fd puts p on its connection, unless the server has closed it.
Deliver(fd, p) ==
  LET c == file[fd] IN
  IF stage[c] = "closed" THEN UNCHANGED toServer
  ELSE toServer' = [toServer EXCEPT ![c] = Append(@, p)]

\* The descriptor was closed since the caller got it, and given to a new connection.
UsedBeforePublished(fd) == fd = newSocket /\ file[fd] # None

\* sendPacket of main and resendMessage of timeoutChecker; on a closed descriptor
\* send fails.
SendOn(fd, p) ==
  /\ IF file[fd] = None THEN UNCHANGED toServer
     ELSE /\ Deliver(fd, p)
          /\ stage[file[fd]] = "closed" \/ Len(toServer[file[fd]]) < MaxPackets
  /\ stale' = (stale \/ UsedBeforePublished(fd))

\* The packet the receiver gets on the connection of fd, or the end of it.
Gets(c, p) ==
  /\ toClient[c] # <<>> /\ Head(toClient[c]) = p
  /\ toClient' = [toClient EXCEPT ![c] = Tail(@)]
AtEnd(c) == toClient[c] = <<>> /\ stage[c] = "closed"

-----------------------------------------------------------------------------
(* establishConnection *)

\* Faulty variant: the receiver ends when an attempt of its own fails.
ReturnEnds(failedAuth) ==
  IF main = "starting" /\ failedAuth
  THEN main' = "exited" /\ receiver' = "done"
  ELSE /\ main' = (IF main = "starting" THEN "top" ELSE main)
       /\ receiver' = (IF main # "starting" /\ newSocket # None THEN "done" ELSE "top")

\* Back to the caller: at the start main goes on, or ends if the name was refused.
Return(failedAuth) ==
  IF main = "starting" /\ failedAuth
  THEN main' = "exited" /\ receiver' = "done"
  ELSE main' = (IF main = "starting" THEN "top" ELSE main) /\ receiver' = "top"

\* Faulty variant: the descriptor of a failed attempt stays open.
FilesWithNew == file

FilesWithoutNew == [file EXCEPT ![newSocket] = None]

\* Faulty variant: the number of the closed descriptor is kept.
GiveUpKeepsNumber(failedAuth) ==
  /\ file' = FilesWithoutNew
  /\ newSocket' = newSocket
  /\ Return(failedAuth)

\* An attempt fails: its descriptor is closed.
GiveUp(failedAuth) ==
  /\ file' = FilesWithoutNew
  /\ newSocket' = None
  /\ Return(failedAuth)

\* socket and connect; without a server connect fails.
Open ==
  /\ receiver = "open"
  /\ \/ /\ ~serverUp
        /\ Return(FALSE)
        /\ UNCHANGED <<newSocket, file, stage, toServer, toClient, accepted>>
     \/ /\ serverUp
        /\ newSocket' = CHOOSE fd \in Fds :
              file[fd] = None /\ \A g \in Fds : file[g] = None => fd <= g
        /\ \E c \in Conns :
              /\ stage[c] = "closed" /\ Released(c)
              /\ \A d \in Conns : stage[d] = "closed" /\ Released(d) => c <= d
              /\ file' = [file EXCEPT ![newSocket'] = c]
              /\ stage' = [stage EXCEPT ![c] = "hello"]
              /\ toServer' = [toServer EXCEPT ![c] = <<>>]
              /\ toClient' = [toClient EXCEPT ![c] = <<>>]
              /\ accepted' = accepted \ {c}
        /\ receiver' = "send hello" /\ UNCHANGED main
  /\ stale' = FALSE
  /\ UNCHANGED <<wish, mainSocket, reading, resendSocket, shared, serverUp, faults,
                 refused, lastConns>>

SendHandshake ==
  /\ \/ /\ receiver = "send hello" /\ Deliver(newSocket, "HELLO")
        /\ receiver' = "await welcome"
     \/ /\ receiver = "send auth" /\ Deliver(newSocket, "AUTH")
        /\ receiver' = "await answer"
  /\ UNCHANGED <<mainVars, newSocket, reading, resendSocket, shared, file, stage, toClient,
                 serverUp, faults, accepted, refused, stale, lastConns>>

AwaitWelcome ==
  /\ receiver = "await welcome"
  /\ LET c == file[newSocket] IN
     \/ /\ Gets(c, "WELCOME")
        /\ receiver' = "send auth"
        /\ UNCHANGED <<main, newSocket, file>>
     \/ /\ \/ AtEnd(c) /\ UNCHANGED toClient
           \/ \E p \in {"ERROR", "TEXT"} : Gets(c, p)
        /\ GiveUp(FALSE)
  /\ UNCHANGED <<wish, mainSocket, reading, resendSocket, shared, stage, toServer, serverUp,
                 faults, accepted, refused, stale, lastConns>>

\* Faulty variant: whatever is not the notice of success is taken for a refusal.
IsRefusalUnlessOk(p) == p # "OK"

IsRefusal(p) == p = "ERROR"

\* Faulty variant: the result of receivePacket is not looked at.
AnswerMissingIgnored(c) == FALSE

AnswerMissing(c) == AtEnd(c)

AwaitAnswer ==
  /\ receiver = "await answer"
  /\ LET c == file[newSocket] IN
     \/ /\ AtEnd(c) /\ UNCHANGED <<toClient, authFailed>>
        /\ IF AnswerMissing(c) THEN GiveUp(FALSE)
           ELSE receiver' = "publish socket" /\ UNCHANGED <<main, newSocket, file>>
     \/ \E p \in {"OK", "TEXT", "ERROR"} :
          /\ Gets(c, p)
          /\ \/ /\ IsRefusal(p)
                /\ authFailed' = TRUE
                /\ GiveUp(TRUE)
             \/ /\ ~IsRefusal(p)
                /\ receiver' = "publish socket"
                /\ UNCHANGED <<main, newSocket, file, authFailed>>
  /\ UNCHANGED <<wish, mainSocket, reading, resendSocket, networkSocket, isConnected,
                 isRunning, stage, toServer, serverUp, faults, accepted, refused, stale,
                 lastConns>>

\* networkSocket under one lock, then isConnected under the other.
Publish ==
  /\ \/ /\ receiver = "publish socket"
        /\ networkSocket' = newSocket /\ newSocket' = None
        /\ receiver' = "publish connected"
        /\ UNCHANGED <<main, isConnected>>
     \/ /\ receiver = "publish connected"
        /\ isConnected' = TRUE
        /\ Return(FALSE)
        /\ UNCHANGED <<networkSocket, newSocket>>
  /\ UNCHANGED <<wish, mainSocket, reading, resendSocket, isRunning, authFailed, file,
                 network, stale, lastConns>>

-----------------------------------------------------------------------------
(* messageReceiver *)

KeepsRunning == isRunning

\* Top of the loop: isRunning, authFailed, then isConnected under its lock.
ReceiverTop ==
  /\ \/ /\ receiver = "top"
        /\ receiver' = IF KeepsRunning /\ ~authFailed THEN "connected?" ELSE "done"
        /\ isRunning' = (isRunning /\ ~authFailed)
     \/ /\ receiver = "connected?"
        /\ receiver' = IF isConnected THEN "recv" ELSE "sleep"
        /\ UNCHANGED isRunning
     \/ /\ receiver = "sleep"
        /\ receiver' = IF KeepsRunning /\ ~authFailed THEN "open" ELSE "done"
        /\ UNCHANGED isRunning
  /\ UNCHANGED <<mainVars, newSocket, reading, resendSocket, networkSocket, isConnected,
                 authFailed, file, network, stale, lastConns>>

\* networkSocket is read and recv entered; on a closed descriptor recv fails.
EnterRecv ==
  /\ receiver = "recv" /\ reading = None
  /\ IF networkSocket # None /\ file[networkSocket] # None
     THEN reading' = file[networkSocket] /\ UNCHANGED receiver
     ELSE receiver' = "close" /\ UNCHANGED reading
  /\ UNCHANGED <<mainVars, newSocket, resendSocket, shared, file, network, stale, lastConns>>

\* A packet is displayed; at the end of the connection it is closed.
Receive ==
  /\ receiver = "recv" /\ reading # None
  /\ \/ /\ \E p \in {"OK", "TEXT", "ERROR", "BYE"} : Gets(reading, p)
        /\ receiver' = "top"
     \/ /\ AtEnd(reading) /\ UNCHANGED toClient
        /\ receiver' = "close"
  /\ reading' = None
  /\ UNCHANGED <<mainVars, newSocket, resendSocket, shared, file, stage, toServer, serverUp,
                 faults, accepted, refused, stale, lastConns>>

\* closeCurrentConnection, in two critical sections.
CloseSocket ==
  /\ file' = [fd \in Fds |-> IF fd = networkSocket THEN None ELSE file[fd]]
  /\ networkSocket' = None

ReceiverCloses ==
  /\ \/ receiver = "close" /\ CloseSocket /\ receiver' = "disconnect" /\ UNCHANGED isConnected
     \/ /\ receiver = "disconnect" /\ isConnected' = FALSE /\ receiver' = "top"
        /\ UNCHANGED <<file, networkSocket>>
  /\ UNCHANGED <<mainVars, newSocket, reading, resendSocket, isRunning, authFailed, network,
                 stale, lastConns>>

-----------------------------------------------------------------------------
(* timeoutChecker, as far as descriptors go: resendMessage copies networkSocket
   under the lock and sends after it *)

TakeSocket ==
  /\ main \notin {"starting", "exited"} /\ isRunning
  /\ resendSocket = None /\ networkSocket # None
  /\ resendSocket' = networkSocket
  /\ UNCHANGED <<mainVars, receiverVars, shared, file, network, stale, lastConns>>

Resend ==
  /\ main # "exited" /\ resendSocket # None
  /\ SendOn(resendSocket, "TEXT")
  /\ resendSocket' = None
  /\ UNCHANGED <<mainVars, receiverVars, shared, file, stage, toClient, serverUp, faults,
                 accepted, refused, lastConns>>

-----------------------------------------------------------------------------
(* main *)

\* A request, /quit ("BYE"), or the end of input.
Input ==
  /\ main = "input"
  /\ \/ main' = "get connected" /\ wish' \in {"TEXT", "BYE"}
     \/ main' = "close" /\ wish' = "eof"
  /\ UNCHANGED <<mainSocket, receiverVars, resendSocket, shared, file, network, stale, lastConns>>

AfterCommand == IF wish = "BYE" THEN "stop" ELSE "top"

\* getActiveSocket, in two critical sections.
GetActiveSocket ==
  /\ \/ /\ main = "get connected"
        /\ main' = IF isConnected THEN "get socket" ELSE AfterCommand
        /\ UNCHANGED mainSocket
     \/ /\ main = "get socket"
        /\ main' = IF networkSocket # None THEN "send" ELSE AfterCommand
        /\ mainSocket' = networkSocket
  /\ UNCHANGED <<wish, receiverVars, resendSocket, shared, file, network, stale, lastConns>>

MainSends ==
  /\ main = "send"
  /\ SendOn(mainSocket, wish)
  /\ mainSocket' = None
  /\ main' = AfterCommand
  /\ UNCHANGED <<wish, receiverVars, resendSocket, shared, file, stage, toClient, serverUp,
                 faults, accepted, refused, lastConns>>

\* Faulty variant: /quit leaves isRunning alone, as the end of input does.
StoppedLikeEof == isRunning

Stopped == FALSE

MainLoop ==
  /\ \/ /\ main = "top"
        /\ main' = IF isRunning THEN "input" ELSE "close"
        /\ UNCHANGED <<isRunning, lastConns>>
     \/ /\ main = "stop"
        /\ isRunning' = Stopped
        /\ lastConns' = {c \in Conns : ~Released(c)}
        /\ main' = "close"
  /\ UNCHANGED <<wish, mainSocket, receiverVars, resendSocket, networkSocket, isConnected,
                 authFailed, file, network, stale>>

\* closeCurrentConnection, then the receiver is joined and timeoutChecker cancelled.
MainEnds ==
  /\ \/ /\ main = "close" /\ CloseSocket /\ main' = "disconnect" /\ UNCHANGED isConnected
     \/ /\ main = "disconnect" /\ isConnected' = FALSE /\ main' = "join"
        /\ UNCHANGED <<file, networkSocket>>
     \/ /\ main = "join" /\ receiver = "done"
        /\ main' = "exited"
        /\ file' = [fd \in Fds |-> None]
        /\ UNCHANGED <<networkSocket, isConnected>>
  /\ UNCHANGED <<wish, mainSocket, receiverVars, resendSocket, isRunning, authFailed, network,
                 stale, lastConns>>

\* SIGPIPE is not ignored: a send on a connection the server has closed may end the
\* whole program.
Killed ==
  /\ \E fd \in (IF main = "send" THEN {mainSocket} ELSE {}) \cup {resendSocket}
              \cup (IF receiver \in {"send hello", "send auth"} THEN {newSocket} ELSE {}) :
        fd # None /\ file[fd] # None /\ stage[file[fd]] = "closed"
  /\ main' = "exited" /\ receiver' = "done"
  /\ newSocket' = None /\ reading' = None
  /\ file' = [fd \in Fds |-> None]
  /\ UNCHANGED <<wish, mainSocket, resendSocket, shared, network, stale, lastConns>>

-----------------------------------------------------------------------------
(* The server's worker on connection c *)

Answer(c, answer, next) ==
  /\ toClient' = [toClient EXCEPT ![c] = @ \o answer]
  /\ stage' = [stage EXCEPT ![c] = next]

ServerReceives(c) ==
  /\ stage[c] \in {"hello", "auth", "session"} /\ toServer[c] # <<>>
  /\ toServer' = [toServer EXCEPT ![c] = Tail(@)]
  /\ LET p == Head(toServer[c]) IN
     \/ /\ stage[c] = "hello" /\ UNCHANGED <<accepted, refused>>
        /\ IF p = "HELLO" THEN Answer(c, <<"WELCOME">>, "auth") ELSE Answer(c, <<"ERROR">>, "closed")
     \/ /\ stage[c] = "auth" /\ p = "AUTH"
        /\ \/ /\ \A d \in Conns : stage[d] \notin {"registered", "session"}
              /\ Answer(c, <<>>, "registered")
              /\ accepted' = accepted \cup {c} /\ UNCHANGED refused
           \/ /\ Answer(c, <<"ERROR">>, "closed")   \* somebody has the nickname
              /\ refused' = TRUE /\ UNCHANGED accepted
     \/ /\ stage[c] = "auth" /\ p # "AUTH"
        /\ Answer(c, <<"ERROR">>, "closed") /\ UNCHANGED <<accepted, refused>>
     \/ /\ stage[c] = "session" /\ UNCHANGED <<accepted, refused>>
        /\ CASE p = "BYE" -> Answer(c, <<"BYE">>, "closed")
             [] p \in {"HELLO", "AUTH"} -> Answer(c, <<"ERROR">>, "session")
             [] OTHER -> Answer(c, <<>>, "session")
  /\ UNCHANGED <<mainVars, receiverVars, resendSocket, shared, file, serverUp, faults, stale,
                 lastConns>>

\* "authentication success" is sent after the registration.
ServerAnswersAuth(c) ==
  /\ stage[c] = "registered" /\ Answer(c, <<"OK">>, "session")
  /\ UNCHANGED <<mainVars, receiverVars, resendSocket, shared, file, toServer, serverUp, faults,
                 accepted, refused, stale, lastConns>>

\* The simulation drops a packet; a dropped HELLO or AUTH ends the connection.
ServerDrops(c) ==
  /\ stage[c] \in {"hello", "auth", "session"} /\ toServer[c] # <<>>
  /\ faults < MaxFaults /\ faults' = faults + 1
  /\ toServer' = [toServer EXCEPT ![c] = Tail(@)]
  /\ Answer(c, <<>>, IF stage[c] = "session" THEN "session" ELSE "closed")
  /\ UNCHANGED <<mainVars, receiverVars, resendSocket, shared, file, serverUp, accepted,
                 refused, stale, lastConns>>

\* Whoever is in the user table gets the messages of others.
Broadcast(c) ==
  /\ stage[c] \in {"registered", "session"} /\ Len(toClient[c]) < MaxPackets
  /\ Answer(c, <<"TEXT">>, stage[c])
  /\ UNCHANGED <<mainVars, receiverVars, resendSocket, shared, file, toServer, serverUp, faults,
                 accepted, refused, stale, lastConns>>

ServerSeesEnd(c) ==
  /\ stage[c] \in {"hello", "auth", "session"} /\ toServer[c] = <<>> /\ Released(c)
  /\ Answer(c, <<>>, "closed")
  /\ UNCHANGED <<mainVars, receiverVars, resendSocket, shared, file, toServer, serverUp, faults,
                 accepted, refused, stale, lastConns>>

ServerCrashes ==
  /\ serverUp /\ faults < MaxFaults
  /\ serverUp' = FALSE /\ faults' = faults + 1
  /\ stage' = [c \in Conns |-> "closed"] /\ toServer' = [c \in Conns |-> <<>>]
  /\ UNCHANGED <<mainVars, receiverVars, resendSocket, shared, file, toClient, accepted, refused,
                 stale, lastConns>>

ServerStarts ==
  /\ ~serverUp /\ serverUp' = TRUE
  /\ UNCHANGED <<mainVars, receiverVars, resendSocket, shared, file, stage, toServer, toClient,
                 faults, accepted, refused, stale, lastConns>>

ReceiverStep ==
  \/ Open \/ SendHandshake \/ AwaitWelcome \/ AwaitAnswer \/ Publish
  \/ ReceiverTop \/ EnterRecv \/ Receive \/ ReceiverCloses
MainStep == GetActiveSocket \/ MainSends \/ MainLoop \/ MainEnds
ServerStep(c) == ServerReceives(c) \/ ServerAnswersAuth(c) \/ ServerSeesEnd(c)

Next ==
  \/ ReceiverStep \/ MainStep \/ Input \/ TakeSocket \/ Resend \/ Killed
  \/ \E c \in Conns : ServerStep(c) \/ ServerDrops(c) \/ Broadcast(c)
  \/ ServerCrashes \/ ServerStarts

Spec == Init /\ [][Next]_vars

\* Threads that can run do, and so does a worker of the server that has taken a connection
\* (as long as the clients it sends to read).  But each worker stays with one client for a
\* whole session, so a connection may wait for one for ever, in the server's queue or in
\* the backlog of listen.  Nothing is assumed of the user.
FairSpec ==
  /\ Spec
  /\ WF_vars(ReceiverStep) /\ WF_vars(MainStep) /\ WF_vars(Resend) /\ WF_vars(ServerStarts)
  /\ \A c \in Conns : WF_vars(stage[c] # "hello" /\ ServerStep(c))

-----------------------------------------------------------------------------
Packets == {"HELLO", "AUTH", "WELCOME", "OK", "ERROR", "TEXT", "BYE"}

TypeOK ==
  /\ main \in {"starting", "top", "input", "get connected", "get socket", "send", "stop"} \cup Ending
  /\ receiver \in Connecting \cup {"open", "publish connected", "top", "connected?", "sleep",
                                  "recv", "close", "disconnect", "done"}
  /\ wish \in {"TEXT", "BYE", "eof"} /\ (wish = "eof" => main \in Ending)
  /\ mainSocket \in Fds \cup {None} /\ newSocket \in Fds \cup {None}
  /\ resendSocket \in Fds \cup {None} /\ networkSocket \in Fds \cup {None}
  /\ (newSocket # None => receiver \in Connecting) /\ (reading # None => receiver = "recv")
  /\ reading \in Conns \cup {None}
  /\ isConnected \in BOOLEAN /\ isRunning \in BOOLEAN /\ authFailed \in BOOLEAN
  /\ serverUp \in BOOLEAN /\ refused \in BOOLEAN /\ stale \in BOOLEAN
  /\ file \in [Fds -> Conns \cup {None}]
  /\ stage \in [Conns -> {"hello", "auth", "registered", "session", "closed"}]
  /\ toServer \in [Conns -> Seq(Packets)] /\ toClient \in [Conns -> Seq(Packets)]
  /\ faults \in 0 .. MaxFaults
  /\ accepted \cup lastConns \subseteq Conns

\* Descriptors that are open although no thread will use or close them.
Leaked == {fd \in Fds : file[fd] # None} \ {networkSocket, newSocket}

\* No path through establishConnection and closeCurrentConnection, in whichever thread,
\* loses a descriptor: what is open is networkSocket or being connected.  The exception is
\* the end of input, which leaves isRunning set: when main's two-step close overlaps a
\* reconnection, the receiver finds isConnected false and connects once more.  That costs
\* one descriptor, and never a second.
NoneLeaked == \A f, g \in Leaked : f = g /\ main \in Ending /\ wish = "eof"

\* A published connection is one on which the server has registered this client:
\* however the packets of other threads, of broadcasts and of the handshake mix, no
\* other packet passes for the answer to AUTH.
ConnectedWasAccepted ==
  networkSocket # None /\ file[networkSocket] # None => file[networkSocket] \in accepted

\* The client gives up for good only if the server has refused its nickname, or if a
\* thread that still held the number of the connection lost before has sent on the new
\* one between HELLO and AUTH.
RefusedOrStale == authFailed => refused \/ stale

\* A receiver that is waiting on connection c, with nothing under way that would wake it.
WaitsOn(c) ==
  receiver = "recv" /\ reading = c /\ stage[c] = "session"
  /\ "BYE" \notin ToSet(toServer[c]) /\ toClient[c] = <<>>

\* The receiver waits for WELCOME on a connection of which no worker has read HELLO.
WaitsForWorker ==
  receiver = "await welcome" /\ stage[file[newSocket]] = "hello" /\ toClient[file[newSocket]] = <<>>

\* After /quit the program ends, unless the receiver stays blocked: on a connection from
\* before whose BYE was dropped or never sent, as closing the descriptor does not wake it;
\* or in an attempt to connect again, as long as no worker of the server is free for it.
QuitEnds ==
  (main = "join" /\ wish = "BYE") ~>
    (main = "exited" \/ [](WaitsForWorker \/ \E c \in lastConns : WaitsOn(c)))

\* A lost connection is made again, as long as the user does not leave, the server does not
\* refuse the nickname and one of its workers is free at last.
ReconnectsOrEnds ==
  (receiver # "done" /\ ~isConnected) ~>
    (isConnected \/ authFailed \/ main \in Ending \cup {"stop"} \/ []WaitsForWorker)

\* The answer to AUTH that establishConnection reads, be it OK or ERROR, is the server's.
HandshakeIsRead == ConnectedWasAccepted /\ RefusedOrStale
==============================================================================
