------------------------ MODULE ClientLifecycleProofs ------------------------
(***************************************************************************)
(* Proofs about ClientLifecycle, for every set of descriptors (two are     *)
(* enough) and connections and every number of packets and faults.  The    *)
(* inductive invariant says where networkSocket may be set while the       *)
(* receiver connects, what the descriptors of the threads stand for, and   *)
(* how far the handshake has come on both ends of a connection.            *)
(***************************************************************************)
EXTENDS ClientLifecycle, DataLemmas

\* networkSocket, when it is set, is known to be: the receiver will not connect again
\* before it is closed.
Settled == networkSocket # None =>
  \/ receiver \in {"publish connected", "close", "done"}
  \/ receiver \in {"top", "connected?", "recv"} /\ isConnected

\* What the descriptors that the threads hold stand for.
FilesInv ==
  /\ main # "exited" /\ networkSocket # None => file[networkSocket] # None
  /\ receiver \in Connecting =>
        newSocket # None /\ file[newSocket] # None /\ newSocket # networkSocket
  /\ main = "exited" => receiver = "done" /\ \A fd \in Fds : file[fd] = None
  /\ \A f, g \in Fds : file[f] = file[g] /\ file[f] # None => f = g
  /\ main = "send" => mainSocket # None

\* main's two-step close unsettles networkSocket once, at its end; then either the receiver
\* is about to see that isRunning is cleared, or it was the end of input.
SocketInv ==
  main # "exited" =>
    /\ \/ Settled
       \/ main = "join" /\ Leaked = {} /\ (wish = "eof" \/ receiver \in {"top", "done"})
    /\ \A f, g \in Leaked : f = g /\ main = "join" /\ wish = "eof"
    /\ main \in Ending /\ wish # "eof" => ~isRunning
    /\ main \in {"disconnect", "join"} /\ wish # "eof" /\ networkSocket # None =>
          receiver \in {"publish connected", "top", "done"}

\* Only who is registered is sent a message of others or the notice of success.
AcceptInv ==
  /\ \A c \in Conns :
        \/ stage[c] \in {"registered", "session"}
        \/ "OK" \in ToSet(toClient[c]) \/ "TEXT" \in ToSet(toClient[c])
        => c \in accepted
  /\ receiver = "publish socket" => file[newSocket] \in accepted

\* A handshake that nobody disturbs: the two ends agree on how far it has come.
InStep(c) ==
  /\ "ERROR" \notin ToSet(toClient[c])
  /\ stage[c] = "hello" =>
       /\ toClient[c] = <<>>
       /\ \/ receiver = "send hello" /\ toServer[c] = <<>>
          \/ receiver = "await welcome" /\ toServer[c] = <<"HELLO">>
  /\ stage[c] = "auth" =>
       /\ "OK" \notin ToSet(toClient[c]) /\ "TEXT" \notin ToSet(toClient[c])
       /\ \/ receiver \in {"await welcome", "send auth"} /\ toServer[c] = <<>>
          \/ receiver = "await answer" /\ toServer[c] = <<"AUTH">>
  /\ stage[c] \in {"registered", "session"} =>
       receiver \in {"await answer", "publish socket"} /\ toServer[c] = <<>>

\* As long as nobody else has sent on it, both ends of a new connection are in step.
HandshakeInv ==
  /\ receiver \in Connecting /\ ~stale /\ ~refused => InStep(file[newSocket])
  /\ authFailed => receiver \in {"top", "done"}

\* The two inductive invariants; the second rests on the first.
Sound == TypeOK /\ FilesInv /\ SocketInv

\* What the client knows of the handshake is true.
Agreed == AcceptInv /\ HandshakeInv /\ HandshakeIsRead

-----------------------------------------------------------------------------
(* What the helpers do *)

\* None is not a descriptor and not a connection.
LEMMA NoneIsNone == None \notin Fds /\ None \notin Conns
BY LifecycleAssumption DEF None

\* Taking a packet from a connection.
LEMMA GetsTakes ==
  ASSUME TypeOK, NEW c \in Conns, NEW p, Gets(c, p)
  PROVE  /\ toClient' \in [Conns -> Seq(Packets)]
         /\ toClient[c] # <<>> /\ p \in ToSet(toClient[c])
         /\ \A d \in Conns : ToSet(toClient'[d]) \subseteq ToSet(toClient[d])
         /\ \A d \in Conns \ {c} : toClient'[d] = toClient[d]
<1>1. toClient \in [Conns -> Seq(Packets)]
  BY DEF TypeOK
<1> DEFINE q == toClient[c]
<1>2. q \in Seq(Packets) /\ q # <<>> /\ Head(q) = p
  BY <1>1 DEF Gets
<1>3. Tail(q) \in Seq(Packets) /\ ToSet(q) = ToSet(Tail(q)) \cup {Head(q)}
  BY <1>2, ToSetTail
<1>4. toClient' = [toClient EXCEPT ![c] = Tail(q)]
  BY DEF Gets
<1>5. toClient'[c] = Tail(q) /\ \A d \in Conns \ {c} : toClient'[d] = toClient[d]
  BY <1>1, <1>4
<1>6. toClient' \in [Conns -> Seq(Packets)]
  BY <1>1, <1>3, <1>4
<1> HIDE DEF q
<1> QED
  BY <1>2, <1>3, <1>5, <1>6 DEF q

\* Sending on a descriptor that is open.
LEMMA DeliverPuts ==
  ASSUME TypeOK, NEW fd \in Fds, file[fd] # None, NEW p \in Packets, Deliver(fd, p)
  PROVE  /\ toServer' \in [Conns -> Seq(Packets)]
         /\ \A d \in Conns \ {file[fd]} : toServer'[d] = toServer[d]
         /\ toServer'[file[fd]] = IF stage[file[fd]] = "closed" THEN toServer[file[fd]]
                                  ELSE Append(toServer[file[fd]], p)
<1>1. toServer \in [Conns -> Seq(Packets)] /\ file[fd] \in Conns
  BY DEF TypeOK
<1>2. CASE stage[file[fd]] = "closed"
  BY <1>1, <1>2 DEF Deliver
<1>3. CASE stage[file[fd]] # "closed"
  <2>1. toServer' = [toServer EXCEPT ![file[fd]] = Append(toServer[file[fd]], p)]
    BY <1>3 DEF Deliver
  <2>2. Append(toServer[file[fd]], p) \in Seq(Packets)
    BY <1>1
  <2> QED
    BY <1>1, <1>3, <2>1, <2>2
<1> QED
  BY <1>2, <1>3

\* What a thread sends outside a handshake does not reach a connection that is being
\* established, or is noted as stale.
LEMMA SendOnPuts ==
  ASSUME TypeOK, NEW fd \in Fds, NEW p \in Packets, SendOn(fd, p)
  PROVE  /\ toServer' \in [Conns -> Seq(Packets)] /\ stale' \in BOOLEAN
         /\ stale => stale'
         /\ fd = newSocket /\ file[fd] # None => stale'
         /\ \A d \in Conns : d # file[fd] => toServer'[d] = toServer[d]
<1>1. CASE file[fd] = None
  BY <1>1 DEF SendOn, TypeOK, UsedBeforePublished
<1>2. CASE file[fd] # None
  <2>1. Deliver(fd, p)
    BY <1>2 DEF SendOn
  <2>2. /\ toServer' \in [Conns -> Seq(Packets)]
        /\ \A d \in Conns \ {file[fd]} : toServer'[d] = toServer[d]
    BY <1>2, <2>1, DeliverPuts
  <2>3. stale' = (stale \/ UsedBeforePublished(fd)) /\ stale \in BOOLEAN
    BY DEF SendOn, TypeOK
  <2> QED
    BY <1>2, <2>2, <2>3 DEF UsedBeforePublished
<1> QED
  BY <1>1, <1>2

\* The stages of the server's end of a connection.
Stages == {"hello", "auth", "registered", "session", "closed"}

\* What the server answers.
LEMMA AnswerPuts ==
  ASSUME TypeOK, NEW c \in Conns, NEW answer \in Seq(Packets), NEW next \in Stages,
         Answer(c, answer, next)
  PROVE  /\ toClient' \in [Conns -> Seq(Packets)] /\ stage' \in [Conns -> Stages]
         /\ stage'[c] = next /\ ToSet(toClient'[c]) = ToSet(toClient[c]) \cup ToSet(answer)
         /\ answer = <<>> => toClient'[c] = toClient[c]
         /\ \A d \in Conns \ {c} : toClient'[d] = toClient[d] /\ stage'[d] = stage[d]
<1>1. toClient \in [Conns -> Seq(Packets)] /\ stage \in [Conns -> Stages]
  BY DEF TypeOK, Stages
<1> DEFINE q == toClient[c] \o answer
<1>2. toClient' = [toClient EXCEPT ![c] = q] /\ stage' = [stage EXCEPT ![c] = next]
  BY DEF Answer
<1>3. q \in Seq(Packets) /\ ToSet(q) = ToSet(toClient[c]) \cup ToSet(answer)
  BY <1>1, ToSetJoined
<1>4. answer = <<>> => q = toClient[c]
  BY <1>1, ConcatEmptySeq
<1> HIDE DEF q
<1> QED
  BY <1>1, <1>2, <1>3, <1>4

\* The packets there are.
LEMMA PacketTypes ==
  /\ <<>> \in Seq(Packets)
  /\ \A p \in Packets : <<p>> \in Seq(Packets) /\ ToSet(<<p>>) = {p}
  /\ {"HELLO", "AUTH", "WELCOME", "OK", "ERROR", "TEXT", "BYE"} \subseteq Packets
<1>1. <<>> \in Seq(Packets)
  OBVIOUS
<1>2. ASSUME NEW p \in Packets PROVE <<p>> \in Seq(Packets) /\ ToSet(<<p>>) = {p}
  BY ToSetSingle, Zenon
<1>3. {"HELLO", "AUTH", "WELCOME", "OK", "ERROR", "TEXT", "BYE"} \subseteq Packets
  BY DEF Packets
<1> QED
  BY <1>1, <1>2, <1>3

\* TypeOK, in three parts.
ThreadTypes ==
  /\ main \in {"starting", "top", "input", "get connected", "get socket", "send", "stop"} \cup Ending
  /\ receiver \in Connecting \cup {"open", "publish connected", "top", "connected?", "sleep",
                                  "recv", "close", "disconnect", "done"}
  /\ wish \in {"TEXT", "BYE", "eof"} /\ (wish = "eof" => main \in Ending)
  /\ mainSocket \in Fds \cup {None} /\ newSocket \in Fds \cup {None}
  /\ resendSocket \in Fds \cup {None} /\ networkSocket \in Fds \cup {None}
  /\ (newSocket # None => receiver \in Connecting) /\ (reading # None => receiver = "recv")
  /\ reading \in Conns \cup {None}

\* The types of the flags,
FlagTypes ==
  /\ isConnected \in BOOLEAN /\ isRunning \in BOOLEAN /\ authFailed \in BOOLEAN
  /\ serverUp \in BOOLEAN /\ refused \in BOOLEAN /\ stale \in BOOLEAN

\* and of the kernel, the server and the network.
NetworkTypes ==
  /\ file \in [Fds -> Conns \cup {None}]
  /\ stage \in [Conns -> Stages]
  /\ toServer \in [Conns -> Seq(Packets)] /\ toClient \in [Conns -> Seq(Packets)]
  /\ faults \in 0 .. MaxFaults
  /\ accepted \cup lastConns \subseteq Conns

\* The parts make up the whole, now
LEMMA TypeParts == TypeOK <=> ThreadTypes /\ FlagTypes /\ NetworkTypes
BY Zenon DEF TypeOK, ThreadTypes, FlagTypes, NetworkTypes, Stages

\* and in the next state.
LEMMA TypePartsNext == (TypeOK <=> ThreadTypes /\ FlagTypes /\ NetworkTypes)'
BY TypeParts, PTL

-----------------------------------------------------------------------------
(* Types, descriptors and networkSocket *)

\* At "open" at most one descriptor is open, so there is a free one, and a least.
LEMMA SomeFree ==
  ASSUME Sound, receiver = "open"
  PROVE  LET fd == CHOOSE fd \in Fds :
                      file[fd] = None /\ \A g \in Fds : file[g] = None => fd <= g
         IN  fd \in Fds /\ file[fd] = None
<1> DEFINE free == {fd \in Fds : file[fd] = None}
<1>1. main # "exited" /\ newSocket = None
  BY DEF Sound, FilesInv, TypeOK, Connecting
<1>2. PICK f \in Fds, g \in Fds : f # g
  <2>1. SUFFICES ASSUME \A f, g \in Fds : f = g PROVE FALSE
    OBVIOUS
  <2>2. Cardinality(Fds) > 1
    BY LifecycleAssumption
  <2>3. CASE Fds = {}
    BY <2>2, <2>3, FS_EmptySet
  <2>4. CASE Fds # {}
    <3>1. PICK f \in Fds : Fds = {f}
      BY <2>1, <2>4
    <3> QED
      BY <2>2, <3>1, FS_Singleton
  <2> QED
    BY <2>3, <2>4
<1>3. free # {}
  <2>1. SUFFICES ASSUME file[f] # None, file[g] # None PROVE FALSE
    BY <1>2
  <2>2. {f, g} \ {networkSocket} \subseteq Leaked
    BY <1>1, <1>2, <2>1, NoneIsNone DEF Leaked
  <2>3. networkSocket = None \/ Leaked = {}
    BY <1>1 DEF Sound, SocketInv, Settled
  <2> QED
    BY <1>1, <1>2, <2>2, <2>3, NoneIsNone DEF Sound, SocketInv
<1>4. free \in SUBSET Nat
  BY LifecycleAssumption
<1>5. \E fd \in free : \A h \in free : fd <= h
  BY <1>3, <1>4, LeastExists
<1> QED
  BY <1>5

\* A successful connect: the least free descriptor stands for a connection that was closed.
LEMMA OpenConnects ==
  ASSUME Sound, Open, receiver' = "send hello"
  PROVE  \E new \in Fds, c \in Conns :
            /\ file[new] = None /\ stage[c] = "closed" /\ Released(c)
            /\ file' = [file EXCEPT ![new] = c]
            /\ stage' = [stage EXCEPT ![c] = "hello"]
            /\ toServer' = [toServer EXCEPT ![c] = <<>>]
            /\ toClient' = [toClient EXCEPT ![c] = <<>>]
            /\ accepted' = accepted \ {c}
            /\ newSocket' = new
<1> DEFINE new == CHOOSE fd \in Fds :
                     file[fd] = None /\ \A g \in Fds : file[g] = None => fd <= g
<1>1. receiver = "open"
  BY DEF Open
<1>2. new \in Fds /\ file[new] = None
  BY <1>1, SomeFree
<1> HIDE DEF new
<1>3. \E c \in Conns :
        /\ stage[c] = "closed" /\ Released(c)
        /\ file' = [file EXCEPT ![new] = c]
        /\ stage' = [stage EXCEPT ![c] = "hello"]
        /\ toServer' = [toServer EXCEPT ![c] = <<>>]
        /\ toClient' = [toClient EXCEPT ![c] = <<>>]
        /\ accepted' = accepted \ {c}
        /\ newSocket' = new
  BY DEF Open, Return, new
<1> QED
  BY <1>2, <1>3

\* socket() of establishConnection keeps Sound.
LEMMA OpenKeepsSound ==
  ASSUME Sound, Open
  PROVE  Sound'
<1> USE DEF Sound
<1>1. receiver = "open" /\ main # "exited" /\ newSocket = None
  BY DEF Open, FilesInv, TypeOK, Connecting
<1>2. CASE /\ ~serverUp /\ Return(FALSE)
           /\ UNCHANGED <<newSocket, file, stage, toServer, toClient, accepted>>
  <2>1. TypeOK'
    <3>1. ThreadTypes'
      BY <1>2, TypeParts DEF ThreadTypes, Open, Return, shared, Ending, Connecting
    <3>2. FlagTypes'
      BY <1>2, TypeParts DEF FlagTypes, Open, Return, shared, Ending, Connecting
    <3>3. NetworkTypes'
      BY <1>2, TypeParts DEF NetworkTypes, Open, Return, shared, Ending, Connecting
    <3> QED
      BY <3>1, <3>2, <3>3, TypePartsNext
  <2>2. FilesInv'
    BY <1>1, <1>2 DEF Open, Return, FilesInv, shared, Ending, Connecting
  <2>3. SocketInv'
    BY <1>1, <1>2 DEF Open, Return, SocketInv, Settled, Leaked, shared, Ending, Connecting
  <2> QED
    BY <2>1, <2>2, <2>3
<1>3. CASE serverUp /\ receiver' = "send hello" /\ UNCHANGED main
  <2>1. PICK new \in Fds, c \in Conns :
          /\ file[new] = None /\ stage[c] = "closed" /\ Released(c)
          /\ file' = [file EXCEPT ![new] = c]
          /\ stage' = [stage EXCEPT ![c] = "hello"]
          /\ toServer' = [toServer EXCEPT ![c] = <<>>]
          /\ toClient' = [toClient EXCEPT ![c] = <<>>]
          /\ accepted' = accepted \ {c}
          /\ newSocket' = new
    BY <1>3, OpenConnects
  <2>2. /\ UNCHANGED <<wish, mainSocket, reading, resendSocket, shared, serverUp, faults,
                       refused, lastConns>>
        /\ stale' = FALSE
    BY DEF Open
  <2>3. TypeOK'
    <3>1. /\ toServer' \in [Conns -> Seq(Packets)] /\ toClient' \in [Conns -> Seq(Packets)]
          /\ file' \in [Fds -> Conns \cup {None}]
          /\ stage' \in [Conns -> {"hello", "auth", "registered", "session", "closed"}]
      BY <2>1, PacketTypes DEF TypeOK
    <3> QED
      BY <1>1, <1>3, <2>1, <2>2, <3>1 DEF TypeOK, shared, Connecting
  <2>4. FilesInv'
    BY <1>1, <1>3, <2>1, <2>2, NoneIsNone DEF FilesInv, TypeOK, Released, shared, Connecting
  <2>5. Leaked' = Leaked
    BY <1>1, <2>1, <2>2, NoneIsNone DEF Leaked, TypeOK, shared
  <2>6. SocketInv'
    BY <1>1, <1>3, <2>2, <2>5 DEF SocketInv, Settled, shared
  <2> QED
    BY <2>3, <2>4, <2>6
<1> QED
  BY <1>2, <1>3 DEF Open

\* A send of the handshake keeps Sound.
LEMMA SendHandshakeKeepsSound ==
  ASSUME Sound, SendHandshake
  PROVE  Sound'
<1> USE DEF Sound
<1>1. /\ receiver \in {"send hello", "send auth"} /\ receiver' \in {"await welcome", "await answer"}
      /\ newSocket \in Fds /\ file[newSocket] # None
      /\ Deliver(newSocket, "HELLO") \/ Deliver(newSocket, "AUTH")
  BY DEF SendHandshake, TypeOK, FilesInv, Connecting
<1>2. toServer' \in [Conns -> Seq(Packets)]
  BY <1>1, DeliverPuts, PacketTypes
<1>3. UNCHANGED <<mainVars, newSocket, reading, resendSocket, shared, file, stage, toClient,
                 serverUp, faults, accepted, refused, stale, lastConns>>
  BY DEF SendHandshake
<1>4. TypeOK'
  <2>1. ThreadTypes'
    BY <1>1, <1>2, <1>3, TypeParts DEF ThreadTypes, shared, mainVars, Connecting
  <2>2. FlagTypes'
    BY <1>1, <1>2, <1>3, TypeParts DEF FlagTypes, shared, mainVars, Connecting
  <2>3. NetworkTypes'
    BY <1>1, <1>2, <1>3, TypeParts DEF NetworkTypes, shared, mainVars, Connecting
  <2> QED
    BY <2>1, <2>2, <2>3, TypePartsNext
<1>5. FilesInv'
  BY <1>1, <1>3 DEF FilesInv, shared, mainVars, Connecting
<1>6. SocketInv'
  BY <1>1, <1>3 DEF SocketInv, Settled, Leaked, shared, mainVars
<1> QED
  BY <1>4, <1>5, <1>6

\* While main starts, the receiver's attempt is the only one.
LEMMA GiveUpKeepsSound ==
  ASSUME Sound, receiver \in {"await welcome", "await answer"}, NEW b \in BOOLEAN, GiveUp(b),
         toClient' \in [Conns -> Seq(Packets)], authFailed' \in BOOLEAN,
         UNCHANGED <<wish, mainSocket, reading, resendSocket, networkSocket, isConnected,
                     isRunning, stage, toServer, serverUp, faults, accepted, refused, stale,
                     lastConns>>
  PROVE  Sound'
<1> USE DEF Sound
<1>1. /\ newSocket \in Fds /\ file[newSocket] # None /\ newSocket # networkSocket
      /\ main # "exited" /\ receiver \in Connecting
  BY DEF TypeOK, FilesInv, Connecting
<1>2. /\ file' = [file EXCEPT ![newSocket] = None] /\ newSocket' = None
      /\ \/ main = "starting" /\ main' = "exited" /\ receiver' = "done"
         \/ main = "starting" /\ main' = "top" /\ receiver' = "top"
         \/ main # "starting" /\ main' = main /\ receiver' = "top"
  BY DEF GiveUp, FilesWithoutNew, Return
<1>3. /\ file' \in [Fds -> Conns \cup {None}] /\ file'[newSocket] = None
      /\ \A fd \in Fds \ {newSocket} : file'[fd] = file[fd]
  BY <1>1, <1>2 DEF TypeOK
<1>4. TypeOK'
  <2>1. ThreadTypes'
    BY <1>2, <1>3, TypeParts DEF ThreadTypes, Connecting, Ending
  <2>2. FlagTypes'
    BY <1>2, <1>3, TypeParts DEF FlagTypes, Connecting, Ending
  <2>3. NetworkTypes'
    BY <1>2, <1>3, TypeParts DEF NetworkTypes, Connecting, Ending
  <2> QED
    BY <2>1, <2>2, <2>3, TypePartsNext
<1>5. Leaked' = Leaked
  BY <1>1, <1>2, <1>3, NoneIsNone DEF Leaked
<1>6. ASSUME main = "starting" PROVE networkSocket = None /\ Leaked = {}
  BY <1>1, <1>6 DEF SocketInv, Settled, Connecting
<1>7. ASSUME main' = "exited" PROVE \A fd \in Fds : file'[fd] = None
  <2>1. networkSocket = None /\ Leaked = {}
    BY <1>1, <1>2, <1>6, <1>7
  <2>2. \A fd \in Fds : fd # newSocket => file[fd] = None
    BY <2>1, NoneIsNone DEF Leaked
  <2>3. \A fd \in Fds : file'[fd] = IF fd = newSocket THEN None ELSE file[fd]
    BY <1>3
  <2> QED
    BY <2>2, <2>3
<1>9. FilesInv'
  <2>1. (main # "exited" /\ networkSocket # None => file[networkSocket] # None)'
    BY <1>1, <1>3 DEF FilesInv, TypeOK
  <2>2. (main = "send" => mainSocket # None)'
    BY <1>2 DEF FilesInv
  <2>3. (\A f, g \in Fds : file[f] = file[g] /\ file[f] # None => f = g)'
    BY <1>1, <1>3 DEF FilesInv
  <2>4. (main = "exited" => receiver = "done")' /\ receiver' \notin Connecting
    BY <1>1, <1>2 DEF Connecting
  <2> QED
    BY <1>7, <2>1, <2>2, <2>3, <2>4 DEF FilesInv
<1>10. SocketInv'
  <2>1. CASE main = "starting"
    BY <1>1, <1>2, <1>5, <1>6, <2>1 DEF SocketInv, Settled, Ending
  <2>2. CASE main # "starting"
    BY <1>1, <1>2, <1>5, <2>2 DEF SocketInv, Settled, Connecting
  <2> QED
    BY <2>1, <2>2
<1> QED
  BY <1>4, <1>9, <1>10

\* Waiting for WELCOME keeps Sound.
LEMMA AwaitWelcomeKeepsSound ==
  ASSUME Sound, AwaitWelcome
  PROVE  Sound'
<1> USE DEF Sound
<1> DEFINE c == file[newSocket]
<1>1. receiver = "await welcome" /\ newSocket \in Fds /\ c \in Conns
  BY DEF AwaitWelcome, TypeOK, FilesInv, Connecting
<1>2. UNCHANGED <<wish, mainSocket, reading, resendSocket, shared, stage, toServer, serverUp,
                 faults, accepted, refused, stale, lastConns>>
  BY DEF AwaitWelcome
<1>3. toClient' \in [Conns -> Seq(Packets)]
  <2>1. CASE UNCHANGED toClient
    BY <2>1 DEF TypeOK
  <2>2. CASE \E p \in {"WELCOME", "ERROR", "TEXT"} : Gets(c, p)
    BY <1>1, <2>2, GetsTakes
  <2> QED
    BY <2>1, <2>2 DEF AwaitWelcome
<1>4. CASE receiver' = "send auth" /\ UNCHANGED <<main, newSocket, file>>
  <2>1. TypeOK'
    <3>1. ThreadTypes'
      BY <1>1, <1>2, <1>3, <1>4, TypeParts DEF ThreadTypes, shared, Connecting
    <3>2. FlagTypes'
      BY <1>2, <1>3, <1>4, TypeParts DEF FlagTypes, shared, Connecting
    <3>3. NetworkTypes'
      BY <1>2, <1>3, <1>4, TypeParts DEF NetworkTypes, shared, Connecting
    <3> QED
      BY <3>1, <3>2, <3>3, TypePartsNext
  <2>2. FilesInv'
    BY <1>1, <1>2, <1>4 DEF FilesInv, shared, Connecting
  <2>3. SocketInv'
    BY <1>1, <1>2, <1>4 DEF SocketInv, Settled, Leaked, shared
  <2> QED
    BY <2>1, <2>2, <2>3
<1>5. CASE GiveUp(FALSE)
  <2>1. authFailed' \in BOOLEAN
    BY <1>2 DEF shared, TypeOK
  <2> QED
    BY <1>1, <1>2, <1>3, <1>5, <2>1, GiveUpKeepsSound DEF shared
<1> QED
  BY <1>4, <1>5 DEF AwaitWelcome

\* Waiting for the answer to AUTH keeps Sound.
LEMMA AwaitAnswerKeepsSound ==
  ASSUME Sound, AwaitAnswer
  PROVE  Sound'
<1> USE DEF Sound
<1> DEFINE c == file[newSocket]
<1>1. receiver = "await answer" /\ newSocket \in Fds /\ c \in Conns
  BY DEF AwaitAnswer, TypeOK, FilesInv, Connecting
<1>2. UNCHANGED <<wish, mainSocket, reading, resendSocket, networkSocket, isConnected,
                 isRunning, stage, toServer, serverUp, faults, accepted, refused, stale,
                 lastConns>>
  BY DEF AwaitAnswer
<1>3. toClient' \in [Conns -> Seq(Packets)]
  <2>1. CASE UNCHANGED toClient
    BY <2>1 DEF TypeOK
  <2>2. CASE \E p \in {"OK", "ERROR", "TEXT"} : Gets(c, p)
    BY <1>1, <2>2, GetsTakes
  <2> QED
    BY <2>1, <2>2 DEF AwaitAnswer
<1>4. authFailed' \in BOOLEAN
  BY DEF AwaitAnswer, TypeOK
<1>5. CASE receiver' = "publish socket" /\ UNCHANGED <<main, newSocket, file>>
  <2>1. TypeOK'
    <3>1. ThreadTypes'
      BY <1>1, <1>2, <1>3, <1>4, <1>5, TypeParts DEF ThreadTypes, Connecting
    <3>2. FlagTypes'
      BY <1>2, <1>3, <1>4, <1>5, TypeParts DEF FlagTypes, Connecting
    <3>3. NetworkTypes'
      BY <1>2, <1>3, <1>4, <1>5, TypeParts DEF NetworkTypes, Connecting
    <3> QED
      BY <3>1, <3>2, <3>3, TypePartsNext
  <2>2. FilesInv'
    BY <1>1, <1>2, <1>5 DEF FilesInv, Connecting
  <2>3. SocketInv'
    BY <1>1, <1>2, <1>5 DEF SocketInv, Settled, Leaked
  <2> QED
    BY <2>1, <2>2, <2>3
<1>6. CASE GiveUp(FALSE) \/ GiveUp(TRUE)
  BY <1>1, <1>2, <1>3, <1>4, <1>6, GiveUpKeepsSound
<1> QED
  BY <1>5, <1>6 DEF AwaitAnswer, AnswerMissing

\* Publishing the new socket keeps Sound.
LEMMA PublishKeepsSound ==
  ASSUME Sound, Publish
  PROVE  Sound'
<1> USE DEF Sound
<1>1. UNCHANGED <<wish, mainSocket, reading, resendSocket, isRunning, authFailed, file,
                 network, stale, lastConns>>
  BY DEF Publish
<1>2. CASE /\ receiver = "publish socket"
           /\ networkSocket' = newSocket /\ newSocket' = None
           /\ receiver' = "publish connected"
           /\ UNCHANGED <<main, isConnected>>
  <2>1. main # "exited" /\ newSocket \in Fds /\ file[newSocket] # None
    BY <1>2 DEF FilesInv, TypeOK, Connecting
  <2>2. TypeOK'
    <3>1. ThreadTypes'
      BY <1>1, <1>2, <2>1, TypeParts DEF ThreadTypes, network, Connecting
    <3>2. FlagTypes'
      BY <1>1, <1>2, TypeParts DEF FlagTypes, network
    <3>3. NetworkTypes'
      BY <1>1, <1>2, TypeParts DEF NetworkTypes, network
    <3> QED
      BY <3>1, <3>2, <3>3, TypePartsNext
  <2>3. FilesInv'
    BY <1>1, <1>2, <2>1 DEF FilesInv, Connecting
  <2>4. SocketInv'
    <3>1. Settled'
      BY <1>2 DEF Settled
    <3>2. CASE networkSocket = None
      <4>1. Leaked' = Leaked
        BY <1>1, <1>2, <3>2, NoneIsNone DEF Leaked
      <4> QED
        BY <1>1, <1>2, <2>1, <3>1, <4>1 DEF SocketInv
    <3>3. CASE networkSocket # None
      <4>1. main = "join" /\ wish = "eof" /\ Leaked = {}
        BY <1>2, <2>1, <3>3 DEF SocketInv, Settled
      <4>2. Leaked' \subseteq {networkSocket}
        BY <1>1, <1>2, <4>1 DEF Leaked
      <4> QED
        BY <1>1, <1>2, <2>1, <3>1, <4>1, <4>2 DEF SocketInv
    <3> QED
      BY <3>2, <3>3
  <2> QED
    BY <2>2, <2>3, <2>4
<1>3. CASE /\ receiver = "publish connected"
           /\ isConnected' = TRUE
           /\ Return(FALSE)
           /\ UNCHANGED <<networkSocket, newSocket>>
  <2>1. receiver' = "top" /\ main' = IF main = "starting" THEN "top" ELSE main
    BY <1>3 DEF Return
  <2>2. TypeOK'
    <3>1. ThreadTypes'
      BY <1>1, <1>3, <2>1, TypeParts DEF ThreadTypes, network, Connecting, Ending
    <3>2. FlagTypes'
      BY <1>1, <1>3, TypeParts DEF FlagTypes, network
    <3>3. NetworkTypes'
      BY <1>1, <1>3, TypeParts DEF NetworkTypes, network
    <3> QED
      BY <3>1, <3>2, <3>3, TypePartsNext
  <2>3. FilesInv'
    BY <1>1, <1>3, <2>1 DEF FilesInv, Connecting
  <2>4. Leaked' = Leaked /\ Settled'
    BY <1>1, <1>3, <2>1 DEF Leaked, Settled
  <2>5. main # "exited"
    BY <1>3 DEF FilesInv
  <2>6. SocketInv'
    BY <1>1, <1>3, <2>1, <2>4, <2>5 DEF SocketInv, Ending
  <2> QED
    BY <2>2, <2>3, <2>6
<1> QED
  BY <1>2, <1>3 DEF Publish

\* The head of the receiver's loop keeps Sound.
LEMMA ReceiverTopKeepsSound ==
  ASSUME Sound, ReceiverTop
  PROVE  Sound'
<1> USE DEF Sound
<1>1. UNCHANGED <<mainVars, newSocket, reading, resendSocket, networkSocket, isConnected,
                 authFailed, file, network, stale, lastConns>>
  BY DEF ReceiverTop
<1>2. /\ main # "exited"
      /\ \/ /\ receiver = "top" /\ receiver' \in {"connected?", "done"}
            /\ receiver' = "connected?" => isRunning
            /\ isRunning' \in BOOLEAN /\ (isRunning' => isRunning)
         \/ /\ receiver = "connected?" /\ receiver' = IF isConnected THEN "recv" ELSE "sleep"
            /\ isRunning' = isRunning
         \/ /\ receiver = "sleep" /\ receiver' \in {"open", "done"}
            /\ isRunning' = isRunning
  BY DEF ReceiverTop, KeepsRunning, FilesInv, TypeOK
<1>3. TypeOK'
  <2>1. ThreadTypes'
    BY <1>1, <1>2, TypeParts DEF ThreadTypes, mainVars, Connecting
  <2>2. FlagTypes'
    BY <1>1, <1>2, TypeParts DEF FlagTypes, network
  <2>3. NetworkTypes'
    BY <1>1, <1>2, TypeParts DEF NetworkTypes, network
  <2> QED
    BY <2>1, <2>2, <2>3, TypePartsNext
<1>4. FilesInv'
  BY <1>1, <1>2 DEF FilesInv, mainVars, Connecting
<1>5. SocketInv'
  <2>1. Leaked' = Leaked
    BY <1>1 DEF Leaked
  <2>2. CASE receiver = "top"
    <3>1. /\ receiver' = "connected?" /\ main \in Ending => wish = "eof"
          /\ Settled => Settled'
      BY <1>1, <1>2, <2>2 DEF SocketInv, Settled
    <3> QED
      BY <1>1, <1>2, <2>1, <2>2, <3>1 DEF SocketInv, mainVars, Ending
  <2>3. CASE receiver \in {"connected?", "sleep"}
    <3>1. Settled => Settled'
      BY <1>1, <1>2, <2>3 DEF Settled
    <3> QED
      BY <1>1, <1>2, <2>1, <2>3, <3>1 DEF SocketInv, mainVars
  <2> QED
    BY <1>2, <2>2, <2>3
<1> QED
  BY <1>3, <1>4, <1>5

\* Entering recv keeps Sound.
LEMMA EnterRecvKeepsSound ==
  ASSUME Sound, EnterRecv
  PROVE  Sound'
<1> USE DEF Sound
<1>1. UNCHANGED <<mainVars, newSocket, resendSocket, shared, file, network, stale, lastConns>>
  BY DEF EnterRecv
<1>2. /\ main # "exited" /\ receiver = "recv"
      /\ \/ receiver' = "recv" /\ reading' \in Conns
         \/ receiver' = "close" /\ reading' = None
  BY DEF EnterRecv, FilesInv, TypeOK
<1>3. TypeOK'
  <2>1. ThreadTypes'
    BY <1>1, <1>2, TypeParts DEF ThreadTypes, mainVars, shared, Connecting
  <2>2. FlagTypes'
    BY <1>1, TypeParts DEF FlagTypes, network, shared
  <2>3. NetworkTypes'
    BY <1>1, TypeParts DEF NetworkTypes, network
  <2> QED
    BY <2>1, <2>2, <2>3, TypePartsNext
<1>4. FilesInv'
  BY <1>1, <1>2 DEF FilesInv, mainVars, shared, Connecting
<1>5. Leaked' = Leaked /\ (Settled => Settled')
  BY <1>1, <1>2 DEF Leaked, Settled, shared
<1>6. SocketInv'
  BY <1>1, <1>2, <1>5 DEF SocketInv, mainVars, shared, Ending
<1> QED
  BY <1>3, <1>4, <1>6

\* Receiving a packet keeps Sound.
LEMMA ReceiveKeepsSound ==
  ASSUME Sound, Receive
  PROVE  Sound'
<1> USE DEF Sound
<1>1. UNCHANGED <<mainVars, newSocket, resendSocket, shared, file, stage, toServer, serverUp,
                 faults, accepted, refused, stale, lastConns>>
  BY DEF Receive
<1>2. /\ main # "exited" /\ receiver = "recv" /\ reading \in Conns /\ reading' = None
      /\ receiver' \in {"top", "close"}
  BY DEF Receive, FilesInv, TypeOK
<1>3. toClient' \in [Conns -> Seq(Packets)]
  BY <1>2, GetsTakes DEF Receive, TypeOK
<1>4. TypeOK'
  <2>1. ThreadTypes'
    BY <1>1, <1>2, TypeParts DEF ThreadTypes, mainVars, shared, Connecting
  <2>2. FlagTypes'
    BY <1>1, TypeParts DEF FlagTypes, shared
  <2>3. NetworkTypes'
    BY <1>1, <1>3, TypeParts DEF NetworkTypes
  <2> QED
    BY <2>1, <2>2, <2>3, TypePartsNext
<1>5. FilesInv'
  BY <1>1, <1>2 DEF FilesInv, mainVars, shared, Connecting
<1>6. Leaked' = Leaked /\ (Settled => Settled')
  BY <1>1, <1>2 DEF Leaked, Settled, shared
<1>7. SocketInv'
  BY <1>1, <1>2, <1>6 DEF SocketInv, mainVars, shared, Ending
<1> QED
  BY <1>4, <1>5, <1>7

\* Closing networkSocket, in whichever thread.
LEMMA CloseSocketCloses ==
  ASSUME Sound, CloseSocket, newSocket' = newSocket, main # "exited"
  PROVE  /\ file' \in [Fds -> Conns \cup {None}] /\ networkSocket' = None
         /\ \A fd \in Fds : file'[fd] = IF fd = networkSocket THEN None ELSE file[fd]
         /\ Leaked' = Leaked
<1>1. /\ file' = [fd \in Fds |-> IF fd = networkSocket THEN None ELSE file[fd]]
      /\ networkSocket' = None /\ file \in [Fds -> Conns \cup {None}]
  BY DEF CloseSocket, Sound, TypeOK
<1>2. file' \in [Fds -> Conns \cup {None}]
  BY <1>1
<1>3. \A fd \in Fds : file'[fd] = IF fd = networkSocket THEN None ELSE file[fd]
  BY <1>1
<1>4. Leaked' = Leaked
  BY <1>1, <1>3, NoneIsNone DEF Leaked
<1> QED
  BY <1>1, <1>2, <1>3, <1>4

\* The receiver's closing keeps Sound.
LEMMA ReceiverClosesKeepsSound ==
  ASSUME Sound, ReceiverCloses
  PROVE  Sound'
<1> USE DEF Sound
<1>1. UNCHANGED <<mainVars, newSocket, reading, resendSocket, isRunning, authFailed, network,
                 stale, lastConns>>
  BY DEF ReceiverCloses
<1>2. main # "exited" /\ main' = main /\ wish' = wish
  BY <1>1 DEF ReceiverCloses, FilesInv, mainVars
<1>3. CASE receiver = "close" /\ CloseSocket /\ receiver' = "disconnect" /\ UNCHANGED isConnected
  <2>1. /\ file' \in [Fds -> Conns \cup {None}] /\ networkSocket' = None
        /\ \A fd \in Fds : file'[fd] = IF fd = networkSocket THEN None ELSE file[fd]
        /\ Leaked' = Leaked
    BY <1>1, <1>2, <1>3, CloseSocketCloses
  <2>2. TypeOK'
    <3>1. ThreadTypes'
      BY <1>1, <1>3, <2>1, TypeParts DEF ThreadTypes, mainVars, Connecting
    <3>2. FlagTypes'
      BY <1>1, <1>3, TypeParts DEF FlagTypes, network
    <3>3. NetworkTypes'
      BY <1>1, <2>1, TypeParts DEF NetworkTypes, network
    <3> QED
      BY <3>1, <3>2, <3>3, TypePartsNext
  <2>3. FilesInv'
    BY <1>1, <1>2, <1>3, <2>1 DEF FilesInv, mainVars, Connecting
  <2>4. Settled'
    BY <2>1 DEF Settled
  <2>5. SocketInv'
    BY <1>1, <1>2, <1>3, <2>1, <2>4 DEF SocketInv
  <2> QED
    BY <2>2, <2>3, <2>5
<1>4. CASE /\ receiver = "disconnect" /\ isConnected' = FALSE /\ receiver' = "top"
           /\ UNCHANGED <<file, networkSocket>>
  <2>1. TypeOK'
    <3>1. ThreadTypes'
      BY <1>1, <1>4, TypeParts DEF ThreadTypes, mainVars, Connecting
    <3>2. FlagTypes'
      BY <1>1, <1>4, TypeParts DEF FlagTypes, network
    <3>3. NetworkTypes'
      BY <1>1, <1>4, TypeParts DEF NetworkTypes, network
    <3> QED
      BY <3>1, <3>2, <3>3, TypePartsNext
  <2>2. FilesInv'
    BY <1>1, <1>2, <1>4 DEF FilesInv, mainVars, Connecting
  <2>3. Leaked' = Leaked /\ (Settled => Settled')
    BY <1>1, <1>4 DEF Leaked, Settled
  <2>4. SocketInv'
    BY <1>1, <1>2, <1>4, <2>3 DEF SocketInv
  <2> QED
    BY <2>1, <2>2, <2>4
<1> QED
  BY <1>3, <1>4 DEF ReceiverCloses

-----------------------------------------------------------------------------
\* The user's input keeps Sound.
LEMMA InputKeepsSound ==
  ASSUME Sound, Input
  PROVE  Sound'
<1> USE DEF Sound
<1>1. /\ main = "input" /\ main' \in {"get connected", "close"} /\ wish' \in {"TEXT", "BYE", "eof"}
      /\ main' = "get connected" => wish' # "eof"
      /\ main' = "close" => wish' = "eof"
      /\ UNCHANGED <<mainSocket, receiverVars, resendSocket, shared, file, network, stale, lastConns>>
  BY DEF Input
<1>2. TypeOK'
  <2>1. ThreadTypes'
    BY <1>1, TypeParts DEF ThreadTypes, receiverVars, shared, Ending
  <2>2. FlagTypes'
    BY <1>1, TypeParts DEF FlagTypes, shared, network
  <2>3. NetworkTypes'
    BY <1>1, TypeParts DEF NetworkTypes, network
  <2> QED
    BY <2>1, <2>2, <2>3, TypePartsNext
<1>3. FilesInv'
  BY <1>1 DEF FilesInv, receiverVars, shared
<1>4. Leaked' = Leaked /\ (Settled => Settled')
  BY <1>1 DEF Leaked, Settled, receiverVars, shared
<1>5. SocketInv'
  BY <1>1, <1>4 DEF SocketInv, Ending
<1> QED
  BY <1>2, <1>3, <1>5

\* getActiveSocket keeps Sound.
LEMMA GetActiveSocketKeepsSound ==
  ASSUME Sound, GetActiveSocket
  PROVE  Sound'
<1> USE DEF Sound
<1>1. /\ main \in {"get connected", "get socket"} /\ main' \in {"get socket", "send", "stop", "top"}
      /\ mainSocket' \in {mainSocket, networkSocket}
      /\ main' = "send" => mainSocket' # None
      /\ UNCHANGED <<wish, receiverVars, resendSocket, shared, file, network, stale, lastConns>>
  BY DEF GetActiveSocket, AfterCommand
<1>2. TypeOK'
  <2>1. ThreadTypes'
    BY <1>1, TypeParts DEF ThreadTypes, receiverVars, shared, Ending
  <2>2. FlagTypes'
    BY <1>1, TypeParts DEF FlagTypes, shared, network
  <2>3. NetworkTypes'
    BY <1>1, TypeParts DEF NetworkTypes, network
  <2> QED
    BY <2>1, <2>2, <2>3, TypePartsNext
<1>3. FilesInv'
  BY <1>1 DEF FilesInv, receiverVars, shared
<1>4. Leaked' = Leaked /\ (Settled => Settled')
  BY <1>1 DEF Leaked, Settled, receiverVars, shared
<1>5. SocketInv'
  BY <1>1, <1>4 DEF SocketInv, Ending
<1> QED
  BY <1>2, <1>3, <1>5

\* main's send keeps Sound.
LEMMA MainSendsKeepsSound ==
  ASSUME Sound, MainSends
  PROVE  Sound'
<1> USE DEF Sound
<1>1. /\ main = "send" /\ main' \in {"stop", "top"} /\ mainSocket' = None
      /\ SendOn(mainSocket, wish)
      /\ UNCHANGED <<wish, receiverVars, resendSocket, shared, file, stage, toClient, serverUp,
                     faults, accepted, refused, lastConns>>
  BY DEF MainSends, AfterCommand
<1>2. mainSocket \in Fds /\ wish \in {"TEXT", "BYE"}
  BY <1>1 DEF FilesInv, TypeOK, Ending
<1>3. toServer' \in [Conns -> Seq(Packets)] /\ stale' \in BOOLEAN
  BY <1>1, <1>2, SendOnPuts, PacketTypes
<1>4. TypeOK'
  <2>1. ThreadTypes'
    BY <1>1, <1>2, TypeParts DEF ThreadTypes, receiverVars, shared, Ending
  <2>2. FlagTypes'
    BY <1>1, <1>3, TypeParts DEF FlagTypes, shared
  <2>3. NetworkTypes'
    BY <1>1, <1>3, TypeParts DEF NetworkTypes
  <2> QED
    BY <2>1, <2>2, <2>3, TypePartsNext
<1>5. FilesInv'
  BY <1>1 DEF FilesInv, receiverVars, shared
<1>6. Leaked' = Leaked /\ (Settled => Settled')
  BY <1>1 DEF Leaked, Settled, receiverVars, shared
<1>7. SocketInv'
  BY <1>1, <1>6 DEF SocketInv, Ending
<1> QED
  BY <1>4, <1>5, <1>7

\* The head of main's loop keeps Sound.
LEMMA MainLoopKeepsSound ==
  ASSUME Sound, MainLoop
  PROVE  Sound'
<1> USE DEF Sound
<1>1. UNCHANGED <<wish, mainSocket, receiverVars, resendSocket, networkSocket, isConnected,
                 authFailed, file, network, stale>>
  BY DEF MainLoop
<1>2. /\ \/ main = "top" /\ main' \in {"input", "close"} /\ (main' = "close" => ~isRunning)
            /\ isRunning' = isRunning /\ lastConns' = lastConns
         \/ main = "stop" /\ main' = "close" /\ isRunning' = FALSE /\ lastConns' \subseteq Conns
      /\ wish # "eof"
  BY DEF MainLoop, Stopped, TypeOK, Ending
<1>3. TypeOK'
  <2>1. ThreadTypes'
    BY <1>1, <1>2, TypeParts DEF ThreadTypes, receiverVars, Ending
  <2>2. FlagTypes'
    BY <1>1, <1>2, TypeParts DEF FlagTypes, network
  <2>3. NetworkTypes'
    BY <1>1, <1>2, TypeParts DEF NetworkTypes, network
  <2> QED
    BY <2>1, <2>2, <2>3, TypePartsNext
<1>4. FilesInv'
  BY <1>1, <1>2 DEF FilesInv, receiverVars
<1>5. Leaked' = Leaked /\ (Settled => Settled')
  BY <1>1 DEF Leaked, Settled, receiverVars
<1>6. SocketInv'
  BY <1>1, <1>2, <1>5 DEF SocketInv, Ending
<1> QED
  BY <1>3, <1>4, <1>6

\* The end of main keeps Sound.
LEMMA MainEndsKeepsSound ==
  ASSUME Sound, MainEnds
  PROVE  Sound'
<1> USE DEF Sound
<1>1. UNCHANGED <<wish, mainSocket, receiverVars, resendSocket, isRunning, authFailed, network,
                 stale, lastConns>>
  BY DEF MainEnds
<1>2. newSocket' = newSocket /\ receiver' = receiver
  BY <1>1 DEF receiverVars
<1>3. CASE main = "close" /\ CloseSocket /\ main' = "disconnect" /\ UNCHANGED isConnected
  <2>1. /\ file' \in [Fds -> Conns \cup {None}] /\ networkSocket' = None
        /\ \A fd \in Fds : file'[fd] = IF fd = networkSocket THEN None ELSE file[fd]
        /\ Leaked' = Leaked
    BY <1>2, <1>3, CloseSocketCloses
  <2>2. TypeOK'
    <3>1. ThreadTypes'
      BY <1>1, <1>3, <2>1, TypeParts DEF ThreadTypes, receiverVars, Ending
    <3>2. FlagTypes'
      BY <1>1, <1>3, TypeParts DEF FlagTypes, network
    <3>3. NetworkTypes'
      BY <1>1, <2>1, TypeParts DEF NetworkTypes, network
    <3> QED
      BY <3>1, <3>2, <3>3, TypePartsNext
  <2>3. FilesInv'
    <3>1. receiver \in Connecting => newSocket \in Fds /\ newSocket # networkSocket
      BY DEF FilesInv, TypeOK
    <3> QED
      BY <1>1, <1>2, <1>3, <2>1, <3>1, NoneIsNone DEF FilesInv
  <2>4. Settled'
    BY <2>1 DEF Settled
  <2>5. SocketInv'
    BY <1>1, <1>2, <1>3, <2>1, <2>4 DEF SocketInv, Ending
  <2> QED
    BY <2>2, <2>3, <2>5
<1>4. CASE /\ main = "disconnect" /\ isConnected' = FALSE /\ main' = "join"
           /\ UNCHANGED <<file, networkSocket>>
  <2>1. TypeOK'
    <3>1. ThreadTypes'
      BY <1>1, <1>4, TypeParts DEF ThreadTypes, receiverVars, Ending
    <3>2. FlagTypes'
      BY <1>1, <1>4, TypeParts DEF FlagTypes, network
    <3>3. NetworkTypes'
      BY <1>1, <1>4, TypeParts DEF NetworkTypes, network
    <3> QED
      BY <3>1, <3>2, <3>3, TypePartsNext
  <2>2. FilesInv'
    BY <1>1, <1>2, <1>4 DEF FilesInv
  <2>3. Leaked' = Leaked /\ Leaked = {}
    BY <1>1, <1>2, <1>4 DEF Leaked, SocketInv
  <2>4. Settled' \/ wish = "eof" \/ receiver \in {"top", "done"}
    BY <1>1, <1>2, <1>4 DEF SocketInv, Settled, Ending
  <2>5. SocketInv'
    BY <1>1, <1>2, <1>4, <2>3, <2>4 DEF SocketInv, Ending
  <2> QED
    BY <2>1, <2>2, <2>5
<1>5. CASE /\ main = "join" /\ receiver = "done"
           /\ main' = "exited"
           /\ file' = [fd \in Fds |-> None]
           /\ UNCHANGED <<networkSocket, isConnected>>
  <2>1. TypeOK'
    <3>1. ThreadTypes'
      BY <1>1, <1>5, TypeParts DEF ThreadTypes, receiverVars, Ending
    <3>2. FlagTypes'
      BY <1>1, <1>5, TypeParts DEF FlagTypes, network
    <3>3. NetworkTypes'
      BY <1>1, <1>5, TypeParts DEF NetworkTypes, network
    <3> QED
      BY <3>1, <3>2, <3>3, TypePartsNext
  <2>2. FilesInv'
    BY <1>1, <1>2, <1>5 DEF FilesInv, Connecting
  <2>3. SocketInv'
    BY <1>5 DEF SocketInv
  <2> QED
    BY <2>1, <2>2, <2>3
<1> QED
  BY <1>3, <1>4, <1>5 DEF MainEnds

\* SIGPIPE keeps Sound.
LEMMA KilledKeepsSound ==
  ASSUME Sound, Killed
  PROVE  Sound'
<1> USE DEF Sound
<1>1. /\ main' = "exited" /\ receiver' = "done"
      /\ newSocket' = None /\ reading' = None
      /\ file' = [fd \in Fds |-> None]
      /\ UNCHANGED <<wish, mainSocket, resendSocket, shared, network, stale, lastConns>>
  BY DEF Killed
<1>2. TypeOK'
  <2>1. ThreadTypes'
    BY <1>1, TypeParts DEF ThreadTypes, shared, Connecting, Ending
  <2>2. FlagTypes'
    BY <1>1, TypeParts DEF FlagTypes, network, shared
  <2>3. NetworkTypes'
    BY <1>1, TypeParts DEF NetworkTypes, network
  <2> QED
    BY <2>1, <2>2, <2>3, TypePartsNext
<1>3. FilesInv'
  BY <1>1 DEF FilesInv, Connecting
<1>4. SocketInv'
  BY <1>1 DEF SocketInv
<1> QED
  BY <1>2, <1>3, <1>4

-----------------------------------------------------------------------------
\* Steps that leave the threads where they are: the descriptors are not concerned.
LEMMA StillKeepsSound ==
  ASSUME Sound, UNCHANGED <<mainVars, receiverVars, shared, file>>,
         resendSocket' \in Fds \cup {None}, FlagTypes', NetworkTypes'
  PROVE  Sound'
<1> USE DEF Sound
<1>1. TypeOK'
  <2>1. ThreadTypes'
    BY TypeParts DEF ThreadTypes, mainVars, receiverVars, shared
  <2> QED
    BY <2>1, TypePartsNext
<1>2. FilesInv'
  BY DEF FilesInv, mainVars, receiverVars, shared
<1>3. Leaked' = Leaked /\ (Settled => Settled')
  BY DEF Leaked, Settled, receiverVars, shared
<1>4. SocketInv'
  BY <1>3 DEF SocketInv, mainVars, receiverVars, shared
<1> QED
  BY <1>1, <1>2, <1>4

\* timeoutChecker's look at the socket keeps Sound.
LEMMA TakeSocketKeepsSound ==
  ASSUME Sound, TakeSocket
  PROVE  Sound'
<1>1. UNCHANGED <<mainVars, receiverVars, shared, file, network, stale, lastConns>>
      /\ resendSocket' \in Fds \cup {None}
  BY DEF TakeSocket, Sound, TypeOK
<1>2. FlagTypes'
  BY <1>1, TypeParts DEF FlagTypes, shared, network, Sound
<1>3. NetworkTypes'
  BY <1>1, TypeParts DEF NetworkTypes, network, Sound
<1> QED
  BY <1>1, <1>2, <1>3, StillKeepsSound

\* A retransmission keeps Sound.
LEMMA ResendKeepsSound ==
  ASSUME Sound, Resend
  PROVE  Sound'
<1>1. /\ UNCHANGED <<mainVars, receiverVars, shared, file, stage, toClient, serverUp, faults,
                     accepted, refused, lastConns>>
      /\ resendSocket \in Fds /\ resendSocket' = None /\ SendOn(resendSocket, "TEXT")
  BY DEF Resend, Sound, TypeOK
<1>2. toServer' \in [Conns -> Seq(Packets)] /\ stale' \in BOOLEAN
  BY <1>1, SendOnPuts, PacketTypes DEF Sound
<1>3. FlagTypes'
  BY <1>1, <1>2, TypeParts DEF FlagTypes, shared, Sound
<1>4. NetworkTypes'
  BY <1>1, <1>2, TypeParts DEF NetworkTypes, Sound
<1> QED
  BY <1>1, <1>3, <1>4, StillKeepsSound

-----------------------------------------------------------------------------
(* The server *)

\* A step of the server on c leaves the other connections alone.
OnlyAt(c) ==
  \A d \in Conns \ {c} :
     toServer'[d] = toServer[d] /\ toClient'[d] = toClient[d] /\ stage'[d] = stage[d]

\* The server adds packets of the set added, and is in one of the stages.
Added(c, added, stages) ==
  ToSet(toClient'[c]) = ToSet(toClient[c]) \cup added /\ stage'[c] \in stages

\* How the server takes the packet p.
Takes(c, p) ==
  \/ stage[c] = "hello" /\ p = "HELLO" /\ Added(c, {"WELCOME"}, {"auth"})
  \/ stage[c] = "auth" /\ p = "AUTH" /\ Added(c, {}, {"registered"}) /\ c \in accepted'
  \/ stage[c] = "hello" /\ p # "HELLO" /\ Added(c, {"ERROR"}, {"closed"})
  \/ stage[c] = "auth" /\ (p = "AUTH" => refused') /\ Added(c, {"ERROR"}, {"closed"})
  \/ stage[c] = "session" /\ p \in {"HELLO", "AUTH"} /\ Added(c, {"ERROR"}, {"session"})
  \/ stage[c] = "session" /\ \E added \in {{}, {"BYE"}} : Added(c, added, {"session", "closed"})

\* Nothing changes on the other connections.
Elsewhere(c) == \A d \in Conns \ {c} : toClient'[d] = toClient[d] /\ stage'[d] = stage[d]

\* An answer adds one packet,
LEMMA AnswerAdds ==
  ASSUME TypeOK, NEW c \in Conns, NEW p \in Packets, NEW next \in Stages,
         Answer(c, <<p>>, next)
  PROVE  /\ toClient' \in [Conns -> Seq(Packets)] /\ stage' \in [Conns -> Stages]
         /\ Added(c, {p}, {next}) /\ Elsewhere(c)
<1>1. <<p>> \in Seq(Packets) /\ ToSet(<<p>>) = {p}
  BY PacketTypes
<1>2. /\ toClient' \in [Conns -> Seq(Packets)] /\ stage' \in [Conns -> Stages]
      /\ stage'[c] = next /\ ToSet(toClient'[c]) = ToSet(toClient[c]) \cup ToSet(<<p>>)
      /\ \A d \in Conns \ {c} : toClient'[d] = toClient[d] /\ stage'[d] = stage[d]
  BY <1>1, AnswerPuts
<1> QED
  BY <1>1, <1>2 DEF Added, Elsewhere

\* and none adds nothing.
LEMMA NoAnswerAdds ==
  ASSUME TypeOK, NEW c \in Conns, NEW next \in Stages, Answer(c, <<>>, next)
  PROVE  /\ toClient' \in [Conns -> Seq(Packets)] /\ stage' \in [Conns -> Stages]
         /\ Added(c, {}, {next}) /\ toClient'[c] = toClient[c] /\ Elsewhere(c)
<1>1. <<>> \in Seq(Packets)
  BY PacketTypes
<1>2. /\ toClient' \in [Conns -> Seq(Packets)] /\ stage' \in [Conns -> Stages]
      /\ stage'[c] = next /\ toClient'[c] = toClient[c]
      /\ \A d \in Conns \ {c} : toClient'[d] = toClient[d] /\ stage'[d] = stage[d]
  BY <1>1, AnswerPuts
<1> QED
  BY <1>2 DEF Added, Elsewhere

\* The packet at the head is taken.
LEMMA HeadTaken ==
  ASSUME TypeOK, NEW c \in Conns, toServer[c] # <<>>,
         toServer' = [toServer EXCEPT ![c] = Tail(@)]
  PROVE  /\ toServer' \in [Conns -> Seq(Packets)] /\ Head(toServer[c]) \in Packets
         /\ toServer'[c] = Tail(toServer[c])
         /\ \A d \in Conns \ {c} : toServer'[d] = toServer[d]
<1>1. toServer \in [Conns -> Seq(Packets)]
  BY DEF TypeOK
<1>2. Tail(toServer[c]) \in Seq(Packets) /\ Head(toServer[c]) \in Packets
  BY <1>1, ToSetTail
<1> QED
  BY <1>1, <1>2

\* What the server does with a packet.
LEMMA ServerReceivesIs ==
  ASSUME TypeOK, NEW c \in Conns, ServerReceives(c)
  PROVE  /\ NetworkTypes' /\ refused' \in BOOLEAN /\ (refused => refused')
         /\ accepted \subseteq accepted'
         /\ toServer[c] # <<>> /\ toServer'[c] = Tail(toServer[c])
         /\ OnlyAt(c) /\ Takes(c, Head(toServer[c]))
<1> DEFINE p == Head(toServer[c])
<1>1. /\ toServer' \in [Conns -> Seq(Packets)] /\ p \in Packets
      /\ toServer[c] # <<>> /\ toServer'[c] = Tail(toServer[c])
      /\ \A d \in Conns \ {c} : toServer'[d] = toServer[d]
  BY HeadTaken DEF ServerReceives
<1> HIDE DEF p
<1> DEFINE Rest == /\ toClient' \in [Conns -> Seq(Packets)] /\ stage' \in [Conns -> Stages]
                   /\ Elsewhere(c)
           Keeps == refused' \in BOOLEAN /\ (refused => refused') /\ accepted \subseteq accepted'
                    /\ accepted' \subseteq Conns
<1>2. ASSUME NEW a \in Packets, NEW next \in Stages, Answer(c, <<a>>, next)
      PROVE  Rest /\ Added(c, {a}, {next})
  BY <1>2, AnswerAdds
<1>3. ASSUME NEW next \in Stages, Answer(c, <<>>, next)
      PROVE  Rest /\ Added(c, {}, {next})
  BY <1>3, NoAnswerAdds
<1>4. {"hello", "auth", "registered", "session", "closed"} \subseteq Stages
      /\ accepted \subseteq Conns /\ refused \in BOOLEAN
  BY DEF Stages, TypeOK
<1> DEFINE Goal == Rest /\ Takes(c, p) /\ Keeps
<1> HIDE DEF Rest
<1>5. ASSUME /\ stage[c] = "hello" /\ UNCHANGED <<accepted, refused>>
             /\ IF p = "HELLO" THEN Answer(c, <<"WELCOME">>, "auth")
                ELSE Answer(c, <<"ERROR">>, "closed")
      PROVE  Goal
  <2>1. CASE p = "HELLO"
    <3>1. Rest /\ Added(c, {"WELCOME"}, {"auth"})
      BY <1>2, <1>4, <1>5, <2>1, PacketTypes
    <3> QED
      BY <1>4, <1>5, <2>1, <3>1 DEF Takes
  <2>2. CASE p # "HELLO"
    <3>1. Rest /\ Added(c, {"ERROR"}, {"closed"})
      BY <1>2, <1>4, <1>5, <2>2, PacketTypes
    <3>2. Takes(c, p)
      BY <1>5, <2>2, <3>1 DEF Takes
    <3> QED
      BY <1>4, <1>5, <3>1, <3>2
  <2> QED
    BY <1>5, <2>1, <2>2
<1>6. ASSUME /\ stage[c] = "auth" /\ p = "AUTH" /\ Answer(c, <<>>, "registered")
             /\ accepted' = accepted \cup {c} /\ UNCHANGED refused
      PROVE  Goal
  <2>1. Rest /\ Added(c, {}, {"registered"})
    BY <1>3, <1>4, <1>6
  <2> QED
    BY <1>4, <1>6, <2>1 DEF Takes
<1>7. ASSUME /\ stage[c] = "auth" /\ Answer(c, <<"ERROR">>, "closed") /\ UNCHANGED accepted
             /\ IF p = "AUTH" THEN refused' = TRUE ELSE refused' = refused
      PROVE  Goal
  <2>1. Rest /\ Added(c, {"ERROR"}, {"closed"})
    BY <1>2, <1>4, <1>7, PacketTypes
  <2> QED
    BY <1>4, <1>7, <2>1 DEF Takes
<1>8. ASSUME /\ stage[c] = "session" /\ UNCHANGED <<accepted, refused>>
             /\ \/ Answer(c, <<"BYE">>, "closed") \/ Answer(c, <<>>, "session")
                \/ p \in {"HELLO", "AUTH"} /\ Answer(c, <<"ERROR">>, "session")
      PROVE  Goal
  <2>1. CASE Answer(c, <<"BYE">>, "closed")
    <3>1. Rest /\ Added(c, {"BYE"}, {"closed"})
      BY <1>2, <1>4, <2>1, PacketTypes
    <3>2. Added(c, {"BYE"}, {"session", "closed"})
      BY <3>1 DEF Added
    <3> QED
      BY <1>4, <1>8, <3>1, <3>2 DEF Takes
  <2>2. CASE Answer(c, <<>>, "session")
    <3>1. Rest /\ Added(c, {}, {"session"})
      BY <1>3, <1>4, <2>2
    <3>2. Added(c, {}, {"session", "closed"})
      BY <3>1 DEF Added
    <3> QED
      BY <1>4, <1>8, <3>1, <3>2 DEF Takes
  <2>3. CASE p \in {"HELLO", "AUTH"} /\ Answer(c, <<"ERROR">>, "session")
    <3>1. Rest /\ Added(c, {"ERROR"}, {"session"})
      BY <1>2, <1>4, <2>3, PacketTypes
    <3> QED
      BY <1>4, <1>8, <2>3, <3>1 DEF Takes
  <2> QED
    BY <1>8, <2>1, <2>2, <2>3
<1>9. Goal
  <2>1. ServerReceives(c) =>
          \/ /\ stage[c] = "hello" /\ UNCHANGED <<accepted, refused>>
             /\ IF p = "HELLO" THEN Answer(c, <<"WELCOME">>, "auth")
                ELSE Answer(c, <<"ERROR">>, "closed")
          \/ /\ stage[c] = "auth" /\ p = "AUTH" /\ Answer(c, <<>>, "registered")
             /\ accepted' = accepted \cup {c} /\ UNCHANGED refused
          \/ /\ stage[c] = "auth" /\ Answer(c, <<"ERROR">>, "closed") /\ UNCHANGED accepted
             /\ IF p = "AUTH" THEN refused' = TRUE ELSE refused' = refused
          \/ /\ stage[c] = "session" /\ UNCHANGED <<accepted, refused>>
             /\ \/ Answer(c, <<"BYE">>, "closed") \/ Answer(c, <<>>, "session")
                \/ p \in {"HELLO", "AUTH"} /\ Answer(c, <<"ERROR">>, "session")
    BY DEF ServerReceives, p
  <2> QED
    BY <1>5, <1>6, <1>7, <1>8, <2>1
<1>10. NetworkTypes'
  <2>1. file' = file /\ faults' = faults /\ lastConns' = lastConns
    BY DEF ServerReceives
  <2> QED
    BY <1>1, <1>9, <2>1, TypeParts DEF NetworkTypes, Rest
<1> QED
  BY <1>1, <1>9, <1>10 DEF OnlyAt, Elsewhere, Rest, p

\* What else the server does on c.
Goes(c) ==
  \/ Added(c, {}, {"closed"})
  \/ stage[c] = "session" /\ toServer[c] # <<>> /\ Added(c, {}, {"session"})
  \/ /\ stage[c] \in {"registered", "session"} /\ toServer'[c] = toServer[c]
     /\ \E p \in {"OK", "TEXT"} : Added(c, {p}, {"registered", "session"})

\* What it does with a connection by itself.
LEMMA ServerGoesIs ==
  ASSUME TypeOK, NEW c \in Conns,
         ServerAnswersAuth(c) \/ ServerDrops(c) \/ Broadcast(c) \/ ServerSeesEnd(c)
  PROVE  /\ NetworkTypes' /\ UNCHANGED <<accepted, refused>> /\ OnlyAt(c) /\ Goes(c)
<1>1. {"session", "closed"} \subseteq Stages /\ stage[c] \in Stages
      /\ toServer \in [Conns -> Seq(Packets)] /\ faults \in 0 .. MaxFaults /\ MaxFaults \in Nat
  BY LifecycleAssumption DEF Stages, TypeOK
<1> DEFINE Goal == /\ toClient' \in [Conns -> Seq(Packets)] /\ stage' \in [Conns -> Stages]
                   /\ toServer' \in [Conns -> Seq(Packets)] /\ faults' \in 0 .. MaxFaults
                   /\ OnlyAt(c) /\ Goes(c)
<1>2. ASSUME ServerAnswersAuth(c) PROVE Goal
  <2>1. stage[c] = "registered" /\ Answer(c, <<"OK">>, "session") /\ UNCHANGED <<toServer, faults>>
    BY <1>2 DEF ServerAnswersAuth
  <2>2. /\ toClient' \in [Conns -> Seq(Packets)] /\ stage' \in [Conns -> Stages]
        /\ Added(c, {"OK"}, {"session"}) /\ Elsewhere(c)
    BY <1>1, <2>1, AnswerAdds, PacketTypes
  <2>3. Added(c, {"OK"}, {"registered", "session"})
    BY <2>2 DEF Added
  <2> QED
    BY <1>1, <2>1, <2>2, <2>3 DEF Goes, OnlyAt, Elsewhere
<1>3. ASSUME ServerDrops(c) PROVE Goal
  <2> DEFINE next == IF stage[c] = "session" THEN "session" ELSE "closed"
  <2>1. /\ stage[c] \in {"hello", "auth", "session"} /\ toServer[c] # <<>>
        /\ faults < MaxFaults /\ faults' = faults + 1
        /\ toServer' = [toServer EXCEPT ![c] = Tail(@)]
        /\ Answer(c, <<>>, next)
    BY <1>3 DEF ServerDrops
  <2>2. next \in Stages
    BY <1>1
  <2>3. /\ toClient' \in [Conns -> Seq(Packets)] /\ stage' \in [Conns -> Stages]
        /\ Added(c, {}, {next}) /\ Elsewhere(c)
    BY <2>1, <2>2, NoAnswerAdds
  <2>4. toServer' \in [Conns -> Seq(Packets)] /\ \A d \in Conns \ {c} : toServer'[d] = toServer[d]
    BY <2>1, HeadTaken
  <2>5. Goes(c)
    BY <2>1, <2>3 DEF Goes
  <2> QED
    BY <1>1, <2>1, <2>3, <2>4, <2>5 DEF OnlyAt, Elsewhere
<1>4. ASSUME Broadcast(c) PROVE Goal
  <2>1. /\ stage[c] \in {"registered", "session"} /\ Answer(c, <<"TEXT">>, stage[c])
        /\ UNCHANGED <<toServer, faults>>
    BY <1>4 DEF Broadcast
  <2>2. /\ toClient' \in [Conns -> Seq(Packets)] /\ stage' \in [Conns -> Stages]
        /\ Added(c, {"TEXT"}, {stage[c]}) /\ Elsewhere(c)
    BY <1>1, <2>1, AnswerAdds, PacketTypes
  <2>3. Added(c, {"TEXT"}, {"registered", "session"})
    BY <2>1, <2>2 DEF Added
  <2> QED
    BY <1>1, <2>1, <2>2, <2>3 DEF Goes, OnlyAt, Elsewhere
<1>5. ASSUME ServerSeesEnd(c) PROVE Goal
  <2>1. Answer(c, <<>>, "closed") /\ UNCHANGED <<toServer, faults>>
    BY <1>5 DEF ServerSeesEnd
  <2>2. /\ toClient' \in [Conns -> Seq(Packets)] /\ stage' \in [Conns -> Stages]
        /\ Added(c, {}, {"closed"}) /\ Elsewhere(c)
    BY <1>1, <2>1, NoAnswerAdds
  <2> QED
    BY <1>1, <2>1, <2>2 DEF Goes, OnlyAt, Elsewhere
<1>6. Goal
  BY <1>2, <1>3, <1>4, <1>5
<1>7. UNCHANGED <<accepted, refused, file, lastConns>>
  BY DEF ServerAnswersAuth, ServerDrops, Broadcast, ServerSeesEnd
<1>8. NetworkTypes'
  BY <1>6, <1>7, TypeParts DEF NetworkTypes
<1> QED
  BY <1>6, <1>7, <1>8

\* Any step of the server on c: the client's threads and descriptors are not concerned.
ServerAt(c) ==
  ServerReceives(c) \/ ServerAnswersAuth(c) \/ ServerSeesEnd(c) \/ ServerDrops(c) \/ Broadcast(c)

\* A step of the server keeps Sound.
LEMMA ServerAtKeepsSound ==
  ASSUME Sound, NEW c \in Conns, ServerAt(c)
  PROVE  Sound'
<1>1. UNCHANGED <<mainVars, receiverVars, shared, file, resendSocket, serverUp, stale>>
  BY DEF ServerAt, ServerReceives, ServerAnswersAuth, ServerSeesEnd, ServerDrops, Broadcast
<1>2. NetworkTypes' /\ refused' \in BOOLEAN
  <2>1. CASE ServerReceives(c)
    BY <2>1, ServerReceivesIs DEF Sound
  <2>2. CASE ServerAnswersAuth(c) \/ ServerDrops(c) \/ Broadcast(c) \/ ServerSeesEnd(c)
    <3>1. NetworkTypes' /\ refused' = refused
      BY <2>2, ServerGoesIs DEF Sound
    <3> QED
      BY <3>1 DEF Sound, TypeOK
  <2> QED
    BY <2>1, <2>2 DEF ServerAt
<1>3. FlagTypes'
  BY <1>1, <1>2, TypeParts DEF FlagTypes, shared, Sound
<1>4. resendSocket' \in Fds \cup {None}
  BY <1>1 DEF Sound, TypeOK
<1> QED
  BY <1>1, <1>2, <1>3, <1>4, StillKeepsSound

\* What a crash or a restart changes.
LEMMA ServerStopsOrStartsIs ==
  ASSUME TypeOK, ServerCrashes \/ ServerStarts
  PROVE  /\ NetworkTypes' /\ FlagTypes'
         /\ UNCHANGED <<mainVars, receiverVars, resendSocket, shared, file, toClient, accepted,
                        refused, stale, lastConns>>
         /\ \A c \in Conns : \/ stage'[c] = "closed"
                             \/ stage'[c] = stage[c] /\ toServer'[c] = toServer[c]
<1>1. UNCHANGED <<mainVars, receiverVars, resendSocket, shared, file, toClient, accepted,
                  refused, stale, lastConns>>
  BY DEF ServerCrashes, ServerStarts
<1>2. CASE ServerCrashes
  <2>1. /\ stage' = [c \in Conns |-> "closed"] /\ toServer' = [c \in Conns |-> <<>>]
        /\ serverUp' = FALSE /\ faults' = faults + 1 /\ faults < MaxFaults
    BY <1>2 DEF ServerCrashes
  <2>2. toServer' \in [Conns -> Seq(Packets)] /\ stage' \in [Conns -> Stages]
    BY <2>1, PacketTypes DEF Stages
  <2>3. faults' \in 0 .. MaxFaults
    <3>1. faults \in 0 .. MaxFaults /\ MaxFaults \in Nat
      BY LifecycleAssumption DEF TypeOK
    <3> QED
      BY <2>1, <3>1
  <2>4. NetworkTypes'
    BY <1>1, <2>2, <2>3, TypeParts DEF NetworkTypes
  <2>5. FlagTypes'
    BY <1>1, <2>1, TypeParts DEF FlagTypes, shared
  <2> QED
    BY <1>1, <2>1, <2>4, <2>5
<1>3. CASE ServerStarts
  <2>1. serverUp' = TRUE /\ UNCHANGED <<stage, toServer, faults>>
    BY <1>3 DEF ServerStarts
  <2>2. NetworkTypes'
    BY <1>1, <2>1, TypeParts DEF NetworkTypes
  <2>3. FlagTypes'
    BY <1>1, <2>1, TypeParts DEF FlagTypes, shared
  <2> QED
    BY <1>1, <2>1, <2>2, <2>3
<1> QED
  BY <1>2, <1>3

\* A crash or a restart of the server keeps Sound.
LEMMA ServerStopsOrStartsKeepsSound ==
  ASSUME Sound, ServerCrashes \/ ServerStarts
  PROVE  Sound'
<1>1. /\ NetworkTypes' /\ FlagTypes'
      /\ UNCHANGED <<mainVars, receiverVars, resendSocket, shared, file>>
  BY ServerStopsOrStartsIs DEF Sound
<1>2. resendSocket' \in Fds \cup {None}
  BY <1>1 DEF Sound, TypeOK
<1> QED
  BY <1>1, <1>2, StillKeepsSound

\* Doing nothing keeps Sound.
LEMMA StutterKeepsSound ==
  ASSUME Sound, UNCHANGED vars
  PROVE  Sound'
<1>1. UNCHANGED <<mainVars, receiverVars, shared, file, network, resendSocket, stale, lastConns>>
  BY DEF vars
<1>2. FlagTypes'
  BY <1>1, TypeParts DEF FlagTypes, shared, network, Sound
<1>3. NetworkTypes'
  BY <1>1, TypeParts DEF NetworkTypes, network, Sound
<1>4. resendSocket' \in Fds \cup {None}
  BY <1>1 DEF Sound, TypeOK
<1> QED
  BY <1>1, <1>2, <1>3, <1>4, StillKeepsSound

\* The steps there are.
LEMMA NextIs ==
  ASSUME [Next]_vars
  PROVE  \/ Open \/ SendHandshake \/ AwaitWelcome \/ AwaitAnswer \/ Publish
         \/ ReceiverTop \/ EnterRecv \/ Receive \/ ReceiverCloses
         \/ GetActiveSocket \/ MainSends \/ MainLoop \/ MainEnds \/ Input
         \/ TakeSocket \/ Resend \/ Killed
         \/ \E c \in Conns : ServerAt(c)
         \/ ServerCrashes \/ ServerStarts
         \/ UNCHANGED vars
BY Zenon DEF Next, ReceiverStep, MainStep, ServerStep, ServerAt

\* Every step keeps Sound.
LEMMA NextKeepsSound ==
  ASSUME Sound, [Next]_vars
  PROVE  Sound'
BY Zenon, NextIs, OpenKeepsSound, SendHandshakeKeepsSound, AwaitWelcomeKeepsSound,
   AwaitAnswerKeepsSound, PublishKeepsSound, ReceiverTopKeepsSound, EnterRecvKeepsSound,
   ReceiveKeepsSound, ReceiverClosesKeepsSound, GetActiveSocketKeepsSound,
   MainSendsKeepsSound, MainLoopKeepsSound, MainEndsKeepsSound, InputKeepsSound,
   TakeSocketKeepsSound, ResendKeepsSound, KilledKeepsSound, ServerAtKeepsSound,
   ServerStopsOrStartsKeepsSound, StutterKeepsSound

\* Sound holds at the start.
LEMMA InitSound == Init => Sound
<1> SUFFICES ASSUME Init PROVE Sound
  OBVIOUS
<1>1. ThreadTypes
  BY DEF Init, ThreadTypes, Connecting, Ending
<1>2. FlagTypes
  BY DEF Init, FlagTypes
<1>3. NetworkTypes
  BY LifecycleAssumption, PacketTypes DEF Init, NetworkTypes, Stages
<1>4. FilesInv
  BY DEF Init, FilesInv, Connecting
<1>5. SocketInv
  BY DEF Init, SocketInv, Settled, Leaked, Ending
<1> QED
  BY <1>1, <1>2, <1>3, <1>4, <1>5, TypeParts DEF Sound

\* Every state of the program has its type.
THEOREM TypeCorrect == Spec => []TypeOK
<1>1. Sound /\ [Next]_vars => Sound'
  BY NextKeepsSound
<1>2. Sound => TypeOK
  BY DEF Sound
<1> QED
  BY <1>1, <1>2, InitSound, PTL DEF Spec

\* No descriptor is lost, but for one at the end of input: neither thread's
\* closeCurrentConnection, nor an attempt that fails, nor one that overtakes another.
THEOREM NoneLeakedAlways == Spec => []NoneLeaked
<1>1. Sound /\ [Next]_vars => Sound'
  BY NextKeepsSound
<1>2. Sound => NoneLeaked
  <2> SUFFICES ASSUME Sound PROVE NoneLeaked
    OBVIOUS
  <2>1. CASE main = "exited"
    <3>1. Leaked = {}
      BY <2>1 DEF Sound, FilesInv, Leaked
    <3> QED
      BY <3>1 DEF NoneLeaked
  <2>2. CASE main # "exited"
    BY <2>2 DEF Sound, SocketInv, NoneLeaked, Ending
  <2> QED
    BY <2>1, <2>2
<1> QED
  BY <1>1, <1>2, InitSound, PTL DEF Spec

-----------------------------------------------------------------------------
(* The handshake *)

\* A connection on which the client is registered, or was when it was opened last.
Registered(c) ==
  \/ stage[c] \in {"registered", "session"}
  \/ "OK" \in ToSet(toClient[c]) \/ "TEXT" \in ToSet(toClient[c])

\* Taking the only element of a sequence.
LEMMA OnlyOne == \A x : Head(<<x>>) = x /\ Tail(<<x>>) = <<>> /\ <<x>> # <<>>
<1> SUFFICES ASSUME NEW x PROVE Head(<<x>>) = x /\ Tail(<<x>>) = <<>> /\ <<x>> # <<>>
  OBVIOUS
<1>1. <<x>> \in Seq({x}) /\ <<x>> # <<>> /\ Len(<<x>>) = 1
  OBVIOUS
<1>2. Tail(<<x>>) \in Seq({x}) /\ Len(Tail(<<x>>)) = 0
  BY <1>1, HeadTailProperties
<1>3. Tail(<<x>>) = <<>>
  BY <1>2, EmptySeq
<1> QED
  BY <1>1, <1>3

\* The first element of a sequence.
LEMMA AppendToNone == \A x : Append(<<>>, x) = <<x>>
OBVIOUS

\* A step of the server keeps Agreed.
LEMMA ServerAtKeepsAgreed ==
  ASSUME Sound, Agreed, NEW c \in Conns, ServerAt(c)
  PROVE  Agreed'
<1>1. UNCHANGED <<mainVars, receiverVars, shared, file, resendSocket, serverUp, stale>>
  BY DEF ServerAt, ServerReceives, ServerAnswersAuth, ServerSeesEnd, ServerDrops, Broadcast
<1>2. /\ (refused => refused') /\ refused' \in BOOLEAN /\ accepted \subseteq accepted' /\ OnlyAt(c)
      /\ \/ toServer[c] # <<>> /\ toServer'[c] = Tail(toServer[c]) /\ Takes(c, Head(toServer[c]))
         \/ Goes(c) /\ accepted' = accepted
  <2>1. CASE ServerReceives(c)
    BY <2>1, ServerReceivesIs DEF Sound
  <2>2. CASE ServerAnswersAuth(c) \/ ServerDrops(c) \/ Broadcast(c) \/ ServerSeesEnd(c)
    <3>1. refused' = refused /\ accepted' = accepted /\ OnlyAt(c) /\ Goes(c)
      BY <2>2, ServerGoesIs DEF Sound
    <3> QED
      BY <3>1 DEF Sound, TypeOK
  <2> QED
    BY <2>1, <2>2 DEF ServerAt
<1>3. AcceptInv'
  <2>1. ASSUME NEW d \in Conns, Registered(d)' PROVE d \in accepted'
    <3>1. CASE d # c
      BY <1>2, <2>1, <3>1 DEF OnlyAt, Registered, Agreed, AcceptInv
    <3>2. CASE d = c /\ Takes(c, Head(toServer[c]))
      BY <1>2, <2>1, <3>2 DEF Takes, Added, Registered, Agreed, AcceptInv
    <3>3. CASE d = c /\ Goes(c)
      BY <1>2, <2>1, <3>3 DEF Goes, Added, Registered, Agreed, AcceptInv
    <3> QED
      BY <1>2, <3>1, <3>2, <3>3
  <2>2. (receiver = "publish socket" => file[newSocket] \in accepted)'
    BY <1>1, <1>2 DEF receiverVars, Agreed, AcceptInv
  <2> QED
    BY <2>1, <2>2 DEF AcceptInv, Registered
<1>4. HandshakeInv'
  <2>1. (authFailed => receiver \in {"top", "done"})'
    BY <1>1 DEF shared, receiverVars, Agreed, HandshakeInv
  <2>2. ASSUME receiver' \in Connecting, ~stale', ~refused'
        PROVE  InStep(file[newSocket])'
    <3>1. PICK d \in Conns : d = file[newSocket] /\ d = file'[newSocket'] /\ InStep(d)
      BY <1>1, <1>2, <2>2 DEF receiverVars, Sound, TypeOK, FilesInv, Agreed, HandshakeInv
    <3>2. receiver' = receiver
      BY <1>1 DEF receiverVars
    <3>3. ASSUME d # c PROVE InStep(d)'
      BY <1>2, <3>1, <3>2, <3>3 DEF OnlyAt, InStep
    <3>4. ASSUME d = c, Goes(c) PROVE InStep(d)'
      <4>1. CASE Added(c, {}, {"closed"})
        BY <3>1, <3>4, <4>1 DEF Added, InStep
      <4>2. CASE stage[c] = "session" /\ toServer[c] # <<>> /\ Added(c, {}, {"session"})
        BY <3>1, <3>4, <4>2 DEF InStep
      <4>3. CASE /\ stage[c] \in {"registered", "session"} /\ toServer'[c] = toServer[c]
                 /\ \E p \in {"OK", "TEXT"} : Added(c, {p}, {"registered", "session"})
        <5>1. PICK p \in {"OK", "TEXT"} : Added(c, {p}, {"registered", "session"})
          BY <4>3
        <5>2. /\ receiver \in {"await answer", "publish socket"} /\ toServer[c] = <<>>
              /\ "ERROR" \notin ToSet(toClient[c])
          BY <3>1, <3>4, <4>3 DEF InStep
        <5>3. stage'[c] \in {"registered", "session"} /\ "ERROR" \notin ToSet(toClient'[c])
          BY <5>1, <5>2 DEF Added
        <5> QED
          BY <3>1, <3>2, <3>4, <4>3, <5>2, <5>3 DEF InStep
      <4> QED
        BY <3>4, <4>1, <4>2, <4>3 DEF Goes
    <3>5. ASSUME d = c, toServer[c] # <<>>, toServer'[c] = Tail(toServer[c]), Takes(c, Head(toServer[c]))
          PROVE  InStep(d)'
      <4> DEFINE p == Head(toServer[c])
      <4>1. CASE stage[c] = "hello"
        <5>1. receiver = "await welcome" /\ toServer[c] = <<"HELLO">>
          BY <3>1, <3>5, <4>1 DEF InStep
        <5>2. p = "HELLO" /\ toServer'[c] = <<>>
          BY <3>5, <5>1, OnlyOne
        <5>3. Added(c, {"WELCOME"}, {"auth"})
          BY <3>5, <4>1, <5>2 DEF Takes
        <5> QED
          <6>1. toClient[c] = <<>>
            BY <3>1, <3>5, <4>1 DEF InStep
          <6>2. stage'[c] = "auth" /\ ToSet(toClient'[c]) = {"WELCOME"}
            BY <5>3, <6>1, ToSetEmpty DEF Added
          <6>3. /\ "ERROR" \notin ToSet(toClient'[c]) /\ "OK" \notin ToSet(toClient'[c])
                /\ "TEXT" \notin ToSet(toClient'[c])
            BY <6>2
          <6> QED
            BY <3>1, <3>2, <3>5, <5>1, <5>2, <6>2, <6>3 DEF InStep
      <4>2. CASE stage[c] = "auth"
        <5>1. receiver = "await answer" /\ toServer[c] = <<"AUTH">>
          BY <3>1, <3>5, <4>2 DEF InStep
        <5>2. p = "AUTH" /\ toServer'[c] = <<>>
          BY <3>5, <5>1, OnlyOne
        <5>3. Added(c, {}, {"registered"})
          BY <2>2, <3>5, <4>2, <5>2 DEF Takes
        <5> QED
          BY <3>1, <3>2, <3>5, <5>1, <5>2, <5>3 DEF Added, InStep
      <4>3. CASE stage[c] = "session"
        BY <3>1, <3>5, <4>3 DEF InStep
      <4> QED
        BY <3>5, <4>1, <4>2, <4>3 DEF Takes
    <3>6. InStep(d)'
      BY <1>2, <3>3, <3>4, <3>5
    <3> QED
      BY <3>1, <3>6 DEF InStep
  <2> QED
    BY <2>1, <2>2 DEF HandshakeInv
<1>5. HandshakeIsRead'
  BY <1>1, <1>2 DEF shared, Agreed, HandshakeIsRead, ConnectedWasAccepted, RefusedOrStale
<1> QED
  BY <1>3, <1>4, <1>5 DEF Agreed

\* Steps that are not on the network and not in a handshake.
LEMMA QuietKeepsAgreed ==
  ASSUME Sound, Agreed,
         UNCHANGED <<stage, toServer, toClient, accepted, refused, stale, authFailed>>,
         \/ receiver' \notin Connecting
         \/ receiver' = receiver /\ newSocket' = newSocket /\ file'[newSocket] = file[newSocket],
         authFailed => receiver' \in {"top", "done"},
         networkSocket' # None /\ file'[networkSocket'] # None =>
            file'[networkSocket'] \in accepted
  PROVE  Agreed'
<1>1. AcceptInv'
  BY DEF Agreed, AcceptInv, Connecting
<1>2. HandshakeInv'
  <2>1. CASE receiver' \notin Connecting
    BY <2>1 DEF HandshakeInv
  <2>2. CASE receiver' = receiver /\ newSocket' = newSocket /\ file'[newSocket] = file[newSocket]
    BY <2>2 DEF Agreed, HandshakeInv, InStep
  <2> QED
    BY <2>1, <2>2
<1>3. HandshakeIsRead'
  BY DEF Agreed, HandshakeIsRead, ConnectedWasAccepted, RefusedOrStale
<1> QED
  BY <1>1, <1>2, <1>3 DEF Agreed

\* Publishing the new socket keeps Agreed.
LEMMA PublishKeepsAgreed ==
  ASSUME Sound, Agreed, Publish
  PROVE  Agreed'
<1>1. UNCHANGED <<stage, toServer, toClient, accepted, refused, stale, authFailed, file>>
  BY DEF Publish, network
<1>2. receiver \in {"publish socket", "publish connected"} /\ receiver' \in {"publish connected", "top"}
      /\ receiver' \notin Connecting
  BY DEF Publish, Return, Connecting
<1>3. ~authFailed
  BY <1>2 DEF Agreed, HandshakeInv
<1>4. networkSocket' # None /\ file'[networkSocket'] # None => file'[networkSocket'] \in accepted
  BY <1>1 DEF Publish, Agreed, AcceptInv, HandshakeIsRead, ConnectedWasAccepted
<1> QED
  BY <1>1, <1>2, <1>3, <1>4, QuietKeepsAgreed

\* The receiver's loop keeps Agreed.
LEMMA ReceiverLoopKeepsAgreed ==
  ASSUME Sound, Agreed, ReceiverTop \/ EnterRecv \/ ReceiverCloses
  PROVE  Agreed'
<1>1. UNCHANGED <<stage, toServer, toClient, accepted, refused, stale, authFailed, newSocket>>
  BY DEF ReceiverTop, EnterRecv, ReceiverCloses, network, shared
<1>2. receiver' \notin Connecting
  BY DEF ReceiverTop, EnterRecv, ReceiverCloses, Connecting
<1>3. authFailed => receiver' \in {"top", "done"}
  BY DEF ReceiverTop, EnterRecv, ReceiverCloses, Agreed, HandshakeInv
<1>4. networkSocket' = None \/ (networkSocket' = networkSocket /\ file' = file)
  BY DEF ReceiverTop, EnterRecv, ReceiverCloses, CloseSocket, shared
<1> QED
  BY <1>1, <1>2, <1>3, <1>4, QuietKeepsAgreed DEF Agreed, HandshakeIsRead, ConnectedWasAccepted

\* A step of main keeps Agreed.
LEMMA MainKeepsAgreed ==
  ASSUME Sound, Agreed, Input \/ GetActiveSocket \/ MainLoop \/ TakeSocket \/ UNCHANGED vars
  PROVE  Agreed'
<1>1. UNCHANGED <<stage, toServer, toClient, accepted, refused, stale, authFailed, file,
                  networkSocket, receiver, newSocket>>
  BY DEF Input, GetActiveSocket, MainLoop, TakeSocket, network, shared, receiverVars, vars
<1> QED
  BY <1>1, QuietKeepsAgreed DEF Agreed, HandshakeInv, HandshakeIsRead, ConnectedWasAccepted

\* The end of main keeps Agreed.
LEMMA MainEndsKeepsAgreed ==
  ASSUME Sound, Agreed, MainEnds
  PROVE  Agreed'
<1>1. UNCHANGED <<stage, toServer, toClient, accepted, refused, stale, authFailed, receiver, newSocket>>
  BY DEF MainEnds, network, receiverVars
<1>2. receiver \in Connecting => newSocket \in Fds /\ newSocket # networkSocket
  BY DEF Sound, FilesInv, TypeOK
<1>3. CASE main = "close" /\ CloseSocket
  <2>1. networkSocket' = None
    BY <1>3 DEF CloseSocket
  <2>2. receiver \in Connecting => file'[newSocket] = file[newSocket]
    BY <1>2, <1>3 DEF CloseSocket
  <2> QED
    BY <1>1, <2>1, <2>2, QuietKeepsAgreed DEF Agreed, HandshakeInv
<1>4. CASE main = "disconnect" /\ UNCHANGED <<file, networkSocket>>
  BY <1>1, <1>4, QuietKeepsAgreed
     DEF Agreed, HandshakeInv, HandshakeIsRead, ConnectedWasAccepted
<1>5. CASE receiver = "done" /\ file' = [fd \in Fds |-> None] /\ UNCHANGED networkSocket
  <2>1. networkSocket' # None => file'[networkSocket'] = None
    BY <1>5 DEF Sound, TypeOK
  <2> QED
    BY <1>1, <1>5, <2>1, QuietKeepsAgreed DEF Connecting
<1> QED
  BY <1>3, <1>4, <1>5 DEF MainEnds

\* SIGPIPE keeps Agreed.
LEMMA KilledKeepsAgreed ==
  ASSUME Sound, Agreed, Killed
  PROVE  Agreed'
<1>1. UNCHANGED <<stage, toServer, toClient, accepted, refused, stale, authFailed, networkSocket>>
      /\ receiver' = "done" /\ file' = [fd \in Fds |-> None]
  BY DEF Killed, network, shared
<1>2. networkSocket' # None => file'[networkSocket'] = None
  BY <1>1 DEF Sound, TypeOK
<1> QED
  BY <1>1, <1>2, QuietKeepsAgreed DEF Connecting

\* What a thread sends does not reach a connection in the handshake unnoticed.
LEMMA SendingKeepsAgreed ==
  ASSUME Sound, Agreed, MainSends \/ Resend
  PROVE  Agreed'
<1>1. /\ UNCHANGED <<stage, toClient, accepted, refused, authFailed, file, networkSocket,
                     receiver, newSocket>>
      /\ \E fd \in Fds, p \in Packets : SendOn(fd, p)
  <2>1. CASE MainSends
    <3>1. mainSocket \in Fds /\ wish \in {"TEXT", "BYE"}
      BY <2>1 DEF MainSends, Sound, FilesInv, TypeOK, Ending
    <3>2. SendOn(mainSocket, wish) /\ wish \in Packets
      BY <2>1, <3>1, PacketTypes DEF MainSends
    <3> QED
      BY <2>1, <3>1, <3>2 DEF MainSends, shared, receiverVars
  <2>2. CASE Resend
    <3>1. resendSocket \in Fds
      BY <2>2 DEF Resend, Sound, TypeOK
    <3>2. SendOn(resendSocket, "TEXT") /\ "TEXT" \in Packets
      BY <2>2, PacketTypes DEF Resend
    <3> QED
      BY <2>2, <3>1, <3>2 DEF Resend, shared, receiverVars
  <2> QED
    BY <2>1, <2>2
<1>2. PICK fd \in Fds, p \in Packets : SendOn(fd, p)
  BY <1>1
<1>3. /\ stale => stale'
      /\ fd = newSocket /\ file[fd] # None => stale'
      /\ \A d \in Conns : d # file[fd] => toServer'[d] = toServer[d]
  BY <1>2, SendOnPuts DEF Sound
<1>4. AcceptInv'
  BY <1>1 DEF Agreed, AcceptInv
<1>5. HandshakeInv'
  <2>1. (authFailed => receiver \in {"top", "done"})'
    BY <1>1 DEF Agreed, HandshakeInv
  <2>2. ASSUME receiver \in Connecting, ~stale', ~refused PROVE InStep(file[newSocket])'
    <3>1. newSocket \in Fds /\ file[newSocket] \in Conns /\ file[newSocket] # None
      BY <2>2 DEF Sound, FilesInv, TypeOK
    <3>2. file[newSocket] # file[fd]
      BY <1>3, <2>2, <3>1 DEF Sound, FilesInv
    <3>3. InStep(file[newSocket]) /\ toServer'[file[newSocket]] = toServer[file[newSocket]]
      BY <1>3, <2>2, <3>1, <3>2 DEF Agreed, HandshakeInv
    <3> QED
      BY <1>1, <3>3 DEF InStep
  <2> QED
    BY <1>1, <2>1, <2>2 DEF HandshakeInv
<1>6. HandshakeIsRead'
  BY <1>1, <1>3 DEF Agreed, HandshakeIsRead, ConnectedWasAccepted, RefusedOrStale
<1> QED
  BY <1>4, <1>5, <1>6 DEF Agreed

\* The receiver takes a packet, and is not in a handshake afterwards.
LEMMA TakingKeepsAgreed ==
  ASSUME Sound, Agreed,
         UNCHANGED <<stage, toServer, accepted, refused, stale, networkSocket>>,
         \A c \in Conns : ToSet(toClient'[c]) \subseteq ToSet(toClient[c]),
         receiver' \notin Connecting,
         authFailed' => receiver' \in {"top", "done"} /\ (refused \/ stale),
         networkSocket # None /\ file'[networkSocket] # None =>
            file'[networkSocket] = file[networkSocket]
  PROVE  Agreed'
<1>1. AcceptInv'
  BY DEF Agreed, AcceptInv, Connecting
<1>2. HandshakeInv'
  BY DEF HandshakeInv
<1>3. HandshakeIsRead'
  BY DEF Agreed, HandshakeIsRead, ConnectedWasAccepted, RefusedOrStale
<1> QED
  BY <1>1, <1>2, <1>3 DEF Agreed

\* Receiving a packet keeps Agreed.
LEMMA ReceiveKeepsAgreed ==
  ASSUME Sound, Agreed, Receive
  PROVE  Agreed'
<1>1. /\ UNCHANGED <<stage, toServer, accepted, refused, stale, networkSocket, authFailed, file>>
      /\ receiver' \notin Connecting /\ ~authFailed
  BY DEF Receive, shared, Connecting, Agreed, HandshakeInv
<1>2. \A c \in Conns : ToSet(toClient'[c]) \subseteq ToSet(toClient[c])
  <2>1. reading \in Conns
    BY DEF Receive, Sound, TypeOK
  <2>2. CASE UNCHANGED toClient
    BY <2>2
  <2>3. CASE \E p : Gets(reading, p)
    BY <2>1, <2>3, GetsTakes DEF Sound
  <2> QED
    BY <2>2, <2>3 DEF Receive
<1> QED
  BY <1>1, <1>2, TakingKeepsAgreed

\* socket() of establishConnection keeps Agreed.
LEMMA OpenKeepsAgreed ==
  ASSUME Sound, Agreed, Open
  PROVE  Agreed'
<1>1. /\ receiver = "open" /\ ~authFailed /\ main # "exited"
      /\ UNCHANGED <<authFailed, refused, networkSocket>>
  BY DEF Open, shared, Agreed, HandshakeInv, Sound, FilesInv
<1>2. CASE /\ receiver' = "top" /\ UNCHANGED <<file, stage, toClient, accepted>>
  <2>1. AcceptInv'
    BY <1>2 DEF Agreed, AcceptInv
  <2>2. HandshakeInv'
    BY <1>2 DEF HandshakeInv, Connecting
  <2>3. HandshakeIsRead'
    BY <1>1, <1>2 DEF Agreed, HandshakeIsRead, ConnectedWasAccepted, RefusedOrStale
  <2> QED
    BY <2>1, <2>2, <2>3 DEF Agreed
<1>3. CASE receiver' = "send hello"
  <2>1. PICK new \in Fds, c \in Conns :
          /\ file[new] = None /\ stage[c] = "closed" /\ Released(c)
          /\ file' = [file EXCEPT ![new] = c]
          /\ stage' = [stage EXCEPT ![c] = "hello"]
          /\ toServer' = [toServer EXCEPT ![c] = <<>>]
          /\ toClient' = [toClient EXCEPT ![c] = <<>>]
          /\ accepted' = accepted \ {c}
          /\ newSocket' = new
    BY <1>3, OpenConnects
  <2>2. /\ file'[new] = c /\ \A fd \in Fds \ {new} : file'[fd] = file[fd]
        /\ stage'[c] = "hello" /\ toServer'[c] = <<>> /\ toClient'[c] = <<>>
        /\ \A d \in Conns \ {c} : stage'[d] = stage[d] /\ toClient'[d] = toClient[d]
    BY <2>1 DEF Sound, TypeOK
  <2>3. AcceptInv'
    <3>1. ASSUME NEW d \in Conns, Registered(d)' PROVE d # c
      BY <2>2, <3>1, ToSetEmpty DEF Registered
    <3>2. ASSUME NEW d \in Conns, Registered(d)' PROVE d \in accepted'
      BY <2>1, <2>2, <3>1, <3>2 DEF Registered, Agreed, AcceptInv
    <3> QED
      BY <1>3, <3>2 DEF AcceptInv, Registered
  <2>4. HandshakeInv'
    <3>1. InStep(c)'
      BY <1>3, <2>2, ToSetEmpty DEF InStep
    <3> QED
      BY <1>1, <2>1, <2>2, <3>1 DEF HandshakeInv, InStep
  <2>5. networkSocket # None /\ file'[networkSocket] # None => file'[networkSocket] \in accepted'
    <3>1. networkSocket # None => networkSocket \in Fds \ {new}
      BY <1>1, <2>1 DEF Sound, TypeOK, FilesInv
    <3>2. networkSocket # None => file[networkSocket] # c
      BY <2>1, <3>1 DEF Released
    <3> QED
      BY <2>1, <2>2, <3>1, <3>2 DEF Agreed, HandshakeIsRead, ConnectedWasAccepted
  <2>6. HandshakeIsRead'
    BY <1>1, <2>5 DEF HandshakeIsRead, ConnectedWasAccepted, RefusedOrStale
  <2> QED
    BY <2>3, <2>4, <2>6 DEF Agreed
<1> QED
  BY <1>2, <1>3 DEF Open, Return

\* A send of the handshake keeps Agreed.
LEMMA SendHandshakeKeepsAgreed ==
  ASSUME Sound, Agreed, SendHandshake
  PROVE  Agreed'
<1>1. UNCHANGED <<newSocket, shared, file, stage, toClient, accepted, refused, stale>>
      /\ receiver \in Connecting /\ receiver' # "publish socket"
  BY DEF SendHandshake, Connecting
<1>2. PICK c \in Conns : c = file[newSocket] /\ newSocket \in Fds /\ file[newSocket] # None
  BY <1>1 DEF Sound, FilesInv, TypeOK
<1>3. AcceptInv'
  BY <1>1 DEF Agreed, AcceptInv
<1>4. HandshakeInv'
  <2>1. ~authFailed'
    BY <1>1 DEF shared, Agreed, HandshakeInv, Connecting
  <2>2. ASSUME ~stale, ~refused PROVE InStep(c)'
    <3>1. InStep(c)
      BY <1>1, <1>2, <2>2 DEF Agreed, HandshakeInv
    <3>2. CASE receiver = "send hello" /\ Deliver(newSocket, "HELLO") /\ receiver' = "await welcome"
      <4>1. toServer'[c] = IF stage[c] = "closed" THEN toServer[c] ELSE Append(toServer[c], "HELLO")
        BY <1>2, <3>2, DeliverPuts, PacketTypes DEF Sound
      <4>2. CASE stage[c] = "hello"
        <5>1. toServer[c] = <<>>
          BY <3>1, <3>2, <4>2 DEF InStep
        <5>2. toServer'[c] = <<"HELLO">>
          BY <4>1, <4>2, <5>1, AppendToNone
        <5> QED
          BY <1>1, <3>1, <3>2, <4>2, <5>2 DEF InStep
      <4>3. CASE stage[c] # "hello"
        BY <1>1, <3>1, <3>2, <4>3 DEF InStep
      <4> QED
        BY <4>2, <4>3
    <3>3. CASE receiver = "send auth" /\ Deliver(newSocket, "AUTH") /\ receiver' = "await answer"
      <4>1. toServer'[c] = IF stage[c] = "closed" THEN toServer[c] ELSE Append(toServer[c], "AUTH")
        BY <1>2, <3>3, DeliverPuts, PacketTypes DEF Sound
      <4>2. CASE stage[c] = "auth"
        <5>1. toServer[c] = <<>>
          BY <3>1, <3>3, <4>2 DEF InStep
        <5>2. toServer'[c] = <<"AUTH">>
          BY <4>1, <4>2, <5>1, AppendToNone
        <5> QED
          BY <1>1, <3>1, <3>3, <4>2, <5>2 DEF InStep
      <4>3. CASE stage[c] # "auth"
        BY <1>1, <3>1, <3>3, <4>3 DEF InStep
      <4> QED
        BY <4>2, <4>3
    <3> QED
      BY <3>2, <3>3 DEF SendHandshake
  <2> QED
    BY <1>1, <1>2, <2>1, <2>2 DEF HandshakeInv, InStep
<1>5. HandshakeIsRead'
  BY <1>1 DEF shared, Agreed, HandshakeIsRead, ConnectedWasAccepted, RefusedOrStale
<1> QED
  BY <1>3, <1>4, <1>5 DEF Agreed

\* An attempt that fails does not touch networkSocket.
LEMMA GiveUpLeaves ==
  ASSUME Sound, receiver \in Connecting, NEW b \in BOOLEAN, GiveUp(b)
  PROVE  /\ receiver' \in {"top", "done"} /\ receiver' \notin Connecting
         /\ networkSocket # None => file'[networkSocket] = file[networkSocket]
<1>1. newSocket # networkSocket /\ networkSocket \in Fds \cup {None}
      /\ file \in [Fds -> Conns \cup {None}]
  BY DEF Sound, FilesInv, TypeOK
<1>2. file' = [file EXCEPT ![newSocket] = None] /\ receiver' \in {"top", "done"}
  BY DEF GiveUp, FilesWithoutNew, Return
<1> QED
  BY <1>1, <1>2 DEF Connecting

\* Waiting for WELCOME keeps Agreed.
LEMMA AwaitWelcomeKeepsAgreed ==
  ASSUME Sound, Agreed, AwaitWelcome
  PROVE  Agreed'
<1>1. /\ UNCHANGED <<stage, toServer, accepted, refused, stale, networkSocket, authFailed>>
      /\ receiver = "await welcome" /\ receiver \in Connecting
  BY DEF AwaitWelcome, shared, Connecting
<1>2. ~authFailed /\ ~authFailed'
  BY <1>1 DEF Agreed, HandshakeInv
<1>3. PICK c \in Conns : c = file[newSocket]
  BY <1>1 DEF Sound, FilesInv, TypeOK
<1>4. \A d \in Conns : ToSet(toClient'[d]) \subseteq ToSet(toClient[d])
  <2>1. CASE UNCHANGED toClient
    BY <2>1
  <2>2. CASE \E p : Gets(c, p)
    BY <2>2, GetsTakes DEF Sound
  <2> QED
    BY <1>3, <2>1, <2>2 DEF AwaitWelcome
<1>5. CASE GiveUp(FALSE)
  BY <1>1, <1>2, <1>4, <1>5, GiveUpLeaves, TakingKeepsAgreed
<1>6. CASE Gets(c, "WELCOME") /\ receiver' = "send auth" /\ UNCHANGED <<newSocket, file>>
  <2>1. toClient[c] # <<>>
    BY <1>6, GetsTakes DEF Sound
  <2>2. AcceptInv'
    BY <1>1, <1>4, <1>6 DEF Agreed, AcceptInv
  <2>3. ASSUME ~stale, ~refused PROVE InStep(c)'
    <3>1. InStep(c)
      BY <1>1, <1>3, <2>3 DEF Agreed, HandshakeInv
    <3>2. stage[c] # "hello"
      BY <2>1, <3>1 DEF InStep
    <3>3. stage[c] \notin {"registered", "session"}
      BY <1>1, <3>1 DEF InStep
    <3>4. stage[c] = "auth" => toServer[c] = <<>>
      BY <1>1, <3>1 DEF InStep
    <3> QED
      BY <1>1, <1>4, <1>6, <3>1, <3>2, <3>3, <3>4 DEF InStep
  <2>4. HandshakeInv'
    BY <1>1, <1>2, <1>3, <1>6, <2>3 DEF HandshakeInv, InStep
  <2>5. HandshakeIsRead'
    BY <1>1, <1>6 DEF Agreed, HandshakeIsRead, ConnectedWasAccepted, RefusedOrStale
  <2> QED
    BY <2>2, <2>4, <2>5 DEF Agreed
<1> QED
  BY <1>3, <1>5, <1>6 DEF AwaitWelcome

\* Waiting for the answer to AUTH keeps Agreed.
LEMMA AwaitAnswerKeepsAgreed ==
  ASSUME Sound, Agreed, AwaitAnswer
  PROVE  Agreed'
<1>1. /\ UNCHANGED <<stage, toServer, accepted, refused, stale, networkSocket>>
      /\ receiver = "await answer" /\ receiver \in Connecting
  BY DEF AwaitAnswer, Connecting
<1>2. ~authFailed
  BY <1>1 DEF Agreed, HandshakeInv
<1>3. PICK c \in Conns : c = file[newSocket]
  BY <1>1 DEF Sound, FilesInv, TypeOK
<1>4. ~stale /\ ~refused => InStep(c)
  BY <1>1, <1>3 DEF Agreed, HandshakeInv
<1>5. \A d \in Conns : ToSet(toClient'[d]) \subseteq ToSet(toClient[d])
  <2>1. CASE UNCHANGED toClient
    BY <2>1
  <2>2. CASE \E p : Gets(c, p)
    BY <2>2, GetsTakes DEF Sound
  <2> QED
    BY <1>3, <2>1, <2>2 DEF AwaitAnswer
<1>6. CASE GiveUp(FALSE) /\ UNCHANGED authFailed
  BY <1>1, <1>2, <1>5, <1>6, GiveUpLeaves, TakingKeepsAgreed
<1>7. CASE Gets(c, "ERROR") /\ authFailed' = TRUE /\ GiveUp(TRUE)
  <2>1. "ERROR" \in ToSet(toClient[c])
    BY <1>7, GetsTakes DEF Sound
  <2>2. refused \/ stale
    BY <1>4, <2>1 DEF InStep
  <2> QED
    BY <1>1, <1>5, <1>7, <2>2, GiveUpLeaves, TakingKeepsAgreed
<1>8. CASE /\ Gets(c, "OK") \/ Gets(c, "TEXT")
           /\ receiver' = "publish socket" /\ UNCHANGED <<newSocket, file, authFailed>>
  <2>1. "OK" \in ToSet(toClient[c]) \/ "TEXT" \in ToSet(toClient[c])
    BY <1>8, GetsTakes DEF Sound
  <2>2. c \in accepted
    BY <2>1 DEF Agreed, AcceptInv
  <2>3. AcceptInv'
    BY <1>1, <1>3, <1>5, <1>8, <2>2 DEF Agreed, AcceptInv
  <2>4. ASSUME ~stale, ~refused PROVE InStep(c)'
    <3>1. /\ stage[c] # "hello" /\ stage[c] # "auth" /\ "ERROR" \notin ToSet(toClient[c])
          /\ stage[c] \in {"registered", "session"} => toServer[c] = <<>>
      BY <1>1, <1>4, <2>1, <2>4, ToSetEmpty DEF InStep
    <3> QED
      BY <1>1, <1>5, <1>8, <3>1 DEF InStep
  <2>5. HandshakeInv'
    BY <1>1, <1>2, <1>3, <1>8, <2>4 DEF HandshakeInv, InStep
  <2>6. HandshakeIsRead'
    BY <1>1, <1>8 DEF Agreed, HandshakeIsRead, ConnectedWasAccepted, RefusedOrStale
  <2> QED
    BY <2>3, <2>5, <2>6 DEF Agreed
<1> QED
  BY <1>3, <1>6, <1>7, <1>8 DEF AwaitAnswer, IsRefusal, AnswerMissing

\* A crash or a restart of the server keeps Agreed.
LEMMA ServerStopsOrStartsKeepsAgreed ==
  ASSUME Sound, Agreed, ServerCrashes \/ ServerStarts
  PROVE  Agreed'
<1>1. /\ UNCHANGED <<receiverVars, shared, file, toClient, accepted, refused, stale>>
      /\ \A c \in Conns : \/ stage'[c] = "closed"
                          \/ stage'[c] = stage[c] /\ toServer'[c] = toServer[c]
  BY ServerStopsOrStartsIs DEF Sound
<1>2. AcceptInv'
  BY <1>1 DEF receiverVars, Agreed, AcceptInv
<1>3. HandshakeInv'
  <2>1. (authFailed => receiver \in {"top", "done"})'
    BY <1>1 DEF receiverVars, shared, Agreed, HandshakeInv
  <2>2. ASSUME receiver \in Connecting, ~stale, ~refused PROVE InStep(file[newSocket])'
    <3>1. PICK c \in Conns : c = file[newSocket] /\ InStep(c)
      BY <2>2 DEF Sound, FilesInv, TypeOK, Agreed, HandshakeInv
    <3>2. InStep(c)'
      BY <1>1, <3>1 DEF receiverVars, InStep
    <3> QED
      BY <1>1, <3>1, <3>2 DEF receiverVars, InStep
  <2> QED
    BY <1>1, <2>1, <2>2 DEF receiverVars, HandshakeInv
<1>4. HandshakeIsRead'
  BY <1>1 DEF shared, Agreed, HandshakeIsRead, ConnectedWasAccepted, RefusedOrStale
<1> QED
  BY <1>2, <1>3, <1>4 DEF Agreed

\* Every step keeps Agreed.
LEMMA NextKeepsAgreed ==
  ASSUME Sound, Agreed, [Next]_vars
  PROVE  Agreed'
BY Zenon, NextIs, OpenKeepsAgreed, SendHandshakeKeepsAgreed, AwaitWelcomeKeepsAgreed,
   AwaitAnswerKeepsAgreed, PublishKeepsAgreed, ReceiverLoopKeepsAgreed, ReceiveKeepsAgreed,
   MainKeepsAgreed, SendingKeepsAgreed, MainEndsKeepsAgreed, KilledKeepsAgreed,
   ServerAtKeepsAgreed, ServerStopsOrStartsKeepsAgreed

\* Agreed holds at the start.
LEMMA InitAgreed == Init => Agreed
<1> SUFFICES ASSUME Init PROVE Agreed
  OBVIOUS
<1>1. AcceptInv
  BY ToSetEmpty DEF Init, AcceptInv
<1>2. HandshakeInv
  BY DEF Init, HandshakeInv, Connecting
<1>3. HandshakeIsRead
  BY DEF Init, HandshakeIsRead, ConnectedWasAccepted, RefusedOrStale
<1> QED
  BY <1>1, <1>2, <1>3 DEF Agreed

\* What establishConnection takes for the answer to AUTH is the server's answer: a
\* connection is published only when the client is registered on it, and the client gives
\* up only when it was refused or another thread had sent on the new connection.
THEOREM HandshakeIsReadAlways == Spec => []HandshakeIsRead
<1>1. Sound /\ Agreed /\ [Next]_vars => Sound' /\ Agreed'
  BY NextKeepsSound, NextKeepsAgreed
<1>2. Agreed => HandshakeIsRead
  BY DEF Agreed
<1> QED
  BY <1>1, <1>2, InitSound, InitAgreed, PTL DEF Spec
==============================================================================
