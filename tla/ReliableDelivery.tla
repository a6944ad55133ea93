--------------------------- MODULE ReliableDelivery ---------------------------
(***************************************************************************)
(* Acknowledgement and retransmission between lab6/client.cpp and one      *)
(* session of lab6/server.cpp.  Three threads of the client share          *)
(* pendingQueue under pendingMutex: main tests the connection, sends a     *)
(* request and enters it if the sending did not fail, the receiver removes *)
(* what is acknowledged, timeoutChecker sends again what has waited too    *)
(* long and gives up after MaxRetries retransmissions.  The server may drop an incoming packet (its network   *)
(* simulation), ignores ids it finds among the last MaxLastIds it          *)
(* processed in this session, and acknowledges the others.                 *)
(*                                                                         *)
(* A connection keeps packets in order; when it breaks, what is in flight  *)
(* is lost.  The client goes on to use it until the receiver notices and   *)
(* closes it; then it connects again, and the server starts a session with *)
(* a cleared slot (SessionRegistry says when the slot is the session's     *)
(* own; here it is).  Requests are the packets that want an ACK; a packet  *)
(* is represented by its message_id.                                       *)
(***************************************************************************)
EXTENDS Integers, FiniteSets, Sequences, SequencesExt

CONSTANTS MaxRetries,  \* MAX_RETRIES
          MaxLastIds,  \* MAX_LAST_IDS
          MaxId,       \* bound: how many requests the user makes
          MaxSessions  \* bound: how many connections there are

ASSUME DeliveryAssumption ==
  /\ MaxRetries \in Nat
  /\ MaxLastIds \in Nat \ {0}
  /\ MaxId \in Nat
  /\ MaxSessions \in Nat \ {0}

Ids == 1 .. MaxId

\* Stands for a packet read from freed memory: no type the server knows.
Garbage == 0

VARIABLES
  \* the client
  nextMsgId,     \* the id of the next request
  sock,          \* the connection main found and is about to send on, 0 if none
  unrecorded,    \* the request main has sent and not yet entered, 0 if none
  pendingQueue,  \* retries and overdue (ACK_TIMEOUT_SEC have passed) of each entered id
  timedOut,      \* the ids timeoutChecker found overdue and has yet to look at
  resending,     \* the id it is about to send again, 0 if none
  \* the connection and the server's session
  link,          \* "up", "broken" and not yet noticed, or "closed"
  toServer, toClient,  \* packets in flight
  lastIds,       \* the slot of dedup_table: the ring and its index
  session        \* how many connections there have been

\* What has happened so far (history, not in the code).
VARIABLES
  processed,     \* the ids acted on, in order, session by session
  attempts,      \* how often sending each id was tried
  unsent,        \* ids whose first sending failed
  acknowledged,  \* ids whose ACK the client has received
  ackedBefore,   \* the ids acknowledged when the current session began
  early,         \* ids whose ACK came before they were entered into pendingQueue
  crossed,       \* ids whose ACK came while they were being sent again
  abandoned,     \* ids given up after the last retransmission
  wrong          \* ids of which a retransmission carried something else

client == <<nextMsgId, sock, unrecorded, pendingQueue, timedOut, resending>>
server == <<lastIds, session, processed>>
acks == <<acknowledged, ackedBefore, early, crossed>>
history == <<attempts, unsent, acks, abandoned, wrong>>
vars == <<client, link, toServer, toClient, server, history>>

EmptyRing == [last |-> [i \in 0 .. MaxLastIds - 1 |-> 0], index |-> 0]

Init ==
  /\ nextMsgId = 1
  /\ sock = 0 /\ unrecorded = 0
  /\ pendingQueue = <<>>
  /\ timedOut = {}
  /\ resending = 0
  /\ link = "up"
  /\ toServer = <<>> /\ toClient = <<>>
  /\ lastIds = EmptyRing
  /\ session = 1
  /\ processed = [s \in 1 .. MaxSessions |-> <<>>]
  /\ attempts = [id \in Ids |-> 0]
  /\ acknowledged = {} /\ ackedBefore = {} /\ early = {} /\ crossed = {}
  /\ unsent = {} /\ abandoned = {} /\ wrong = {}

\* Faulty variant: an ACK is looked up and nothing is erased.
WithoutNothing(q, id) == q

\* pendingQueue without an id.
Without(q, id) == [i \in DOMAIN q \ {id} |-> q[i]]

\* What a packet put on the current connection becomes: lost, unless it is up.
Transmit(p) == toServer' = IF link = "up" THEN Append(toServer, p) ELSE toServer

-----------------------------------------------------------------------------
\* main has read a request and tests isConnected; without a connection the user is told
\* and nothing else happens.
GetActiveSocket ==
  /\ sock = 0 /\ unrecorded = 0
  /\ nextMsgId <= MaxId
  /\ link # "closed"
  /\ sock' = session
  /\ UNCHANGED <<nextMsgId, unrecorded, pendingQueue, timedOut, resending, link, toServer,
                 toClient, server, history>>

\* sendPacket: the request gets its id and is sent on the connection that was tested (or
\* on a newer one, if the descriptor was given out again) ...
SendPacket ==
  /\ sock # 0
  /\ sock' = 0
  /\ nextMsgId' = nextMsgId + 1
  /\ unrecorded' = nextMsgId
  /\ Transmit(nextMsgId)
  /\ attempts' = [attempts EXCEPT ![nextMsgId] = 1]
  /\ UNCHANGED <<pendingQueue, timedOut, resending, link, toClient, server, unsent, acks,
                 abandoned, wrong>>

\* ... or sending fails, as that connection has broken or was closed, and perhaps replaced.
\* The id is used, nothing is entered, and main looks at no result.
SendPacketFails ==
  /\ sock # 0
  /\ link # "up" \/ sock # session
  /\ sock' = 0
  /\ nextMsgId' = nextMsgId + 1
  /\ attempts' = [attempts EXCEPT ![nextMsgId] = 1]
  /\ unsent' = unsent \cup {nextMsgId}
  /\ UNCHANGED <<unrecorded, pendingQueue, timedOut, resending, link, toServer, toClient,
                 server, acks, abandoned, wrong>>

\* What was sent is entered by addToPendingQueue afterwards.
AddToPendingQueue ==
  /\ unrecorded # 0
  /\ pendingQueue' =
       [id \in DOMAIN pendingQueue \cup {unrecorded} |->
          IF id = unrecorded THEN [retries |-> 0, overdue |-> FALSE] ELSE pendingQueue[id]]
  /\ unrecorded' = 0
  /\ UNCHANGED <<nextMsgId, sock, timedOut, resending, link, toServer, toClient,
                 server, history>>

\* Two seconds pass after the request was sent or sent again.
BecomeOverdue(id) ==
  /\ id \in DOMAIN pendingQueue /\ ~pendingQueue[id].overdue
  /\ pendingQueue' = [pendingQueue EXCEPT ![id].overdue = TRUE]
  /\ UNCHANGED <<nextMsgId, sock, unrecorded, timedOut, resending, link, toServer,
                 toClient, server, history>>

\* timeoutChecker, first pass: which ids are overdue?
CollectTimedOut ==
  /\ timedOut = {} /\ resending = 0
  /\ timedOut' = {id \in DOMAIN pendingQueue : pendingQueue[id].overdue}
  /\ timedOut' # {}
  /\ UNCHANGED <<nextMsgId, sock, unrecorded, pendingQueue, resending, link,
                 toServer, toClient, server, history>>

\* Faulty variant: one retransmission too many.
MayRetryOnceMore(id) == pendingQueue[id].retries <= MaxRetries

MayRetry(id) == pendingQueue[id].retries < MaxRetries

\* Faulty variant: entries are dropped as soon as their retries are used up.
CountedAndDropped(id) ==
  IF pendingQueue[id].retries + 1 = MaxRetries THEN Without(pendingQueue, id)
  ELSE [pendingQueue EXCEPT ![id] = [retries |-> @.retries + 1, overdue |-> FALSE]]

Counted(id) ==
  [pendingQueue EXCEPT ![id] = [retries |-> @.retries + 1, overdue |-> FALSE]]

\* Faulty variant: a message that is given up stays in the queue.
GivenUpKept(id) == pendingQueue

GivenUp(id) == Without(pendingQueue, id)

\* Second pass, one id at a time in the order of the map: count a retry and go on
\* to resend, or give up, or find it gone.
CheckTimedOut ==
  /\ timedOut # {} /\ resending = 0
  /\ LET id == Min(timedOut) IN
     /\ timedOut' = timedOut \ {id}
     /\ \/ /\ id \in DOMAIN pendingQueue /\ MayRetry(id)
           /\ pendingQueue' = Counted(id)
           /\ resending' = id
           /\ UNCHANGED abandoned
        \/ /\ id \in DOMAIN pendingQueue /\ ~MayRetry(id)
           /\ pendingQueue' = GivenUp(id)
           /\ abandoned' = abandoned \cup {id}
           /\ UNCHANGED resending
        \/ /\ id \notin DOMAIN pendingQueue
           /\ UNCHANGED <<pendingQueue, resending, abandoned>>
  /\ UNCHANGED <<nextMsgId, sock, unrecorded, link, toServer, toClient, server,
                 attempts, unsent, acks, wrong>>

\* resendMessage(it->second), after pendingMutex was released.  If the entry was
\* erased in between, freed memory is read: its old content, a newer entry that
\* was put there, or garbage.
ResendMessage ==
  /\ resending # 0
  /\ \E p \in {resending} \cup (IF resending \in DOMAIN pendingQueue THEN {}
                               ELSE DOMAIN pendingQueue \cup {Garbage}) :
        /\ Transmit(p)
        /\ wrong' = IF p = resending THEN wrong ELSE wrong \cup {resending}
  /\ attempts' = [attempts EXCEPT ![resending] = @ + 1]
  /\ resending' = 0
  /\ UNCHANGED <<nextMsgId, sock, unrecorded, pendingQueue, timedOut, link, toClient,
                 server, unsent, acks, abandoned>>

\* The receiver thread gets an ACK.
RemoveFromPendingQueue ==
  /\ toClient # <<>>
  /\ toClient' = Tail(toClient)
  /\ pendingQueue' = Without(pendingQueue, Head(toClient))
  /\ acknowledged' = acknowledged \cup {Head(toClient)}
  /\ early' = early \cup ({Head(toClient)} \cap {unrecorded})
  /\ crossed' = crossed \cup ({Head(toClient)} \cap {resending})
  /\ UNCHANGED <<nextMsgId, sock, unrecorded, timedOut, resending, link, toServer, server,
                 attempts, unsent, ackedBefore, abandoned, wrong>>

-----------------------------------------------------------------------------
IsDuplicate(id) == \E i \in 0 .. MaxLastIds - 1 : lastIds.last[i] = id

\* Faulty variant: the index is never advanced.
MarkedInPlace(id) == [lastIds EXCEPT !.last[lastIds.index] = id]

\* mark_as_processed; the index is kept modulo the size of the ring.
Marked(id) ==
  [last |-> [lastIds.last EXCEPT ![lastIds.index] = id],
   index |-> (lastIds.index + 1) % MaxLastIds]

\* The session gets a request it acts on; nobody else sees it between
\* processing, marking and acknowledging.
ProcessRequest ==
  /\ toServer # <<>>
  /\ Head(toServer) # Garbage /\ ~IsDuplicate(Head(toServer))
  /\ toServer' = Tail(toServer)
  /\ processed' = [processed EXCEPT ![session] = Append(@, Head(toServer))]
  /\ lastIds' = Marked(Head(toServer))
  /\ toClient' = Append(toClient, Head(toServer))
  /\ UNCHANGED <<client, link, session, history>>

\* Faulty variant: the ACK is sent before the packet is looked at.
IgnoredIsAcked ==
  /\ toServer # <<>>
  /\ toServer' = Tail(toServer)
  /\ toClient' = Append(toClient, Head(toServer))
  /\ UNCHANGED <<client, link, server, history>>

\* A packet without effect: dropped by the simulation, a duplicate, of no known
\* type, or a private message without a receiver.  A duplicate is not acknowledged again.
IgnorePacket ==
  /\ toServer # <<>>
  /\ toServer' = Tail(toServer)
  /\ UNCHANGED <<client, link, toClient, server, history>>

-----------------------------------------------------------------------------
\* The connection breaks: the server's end is closed, and what it has not read is lost.
Disconnect ==
  /\ link = "up"
  /\ session < MaxSessions
  /\ link' = "broken"
  /\ toServer' = <<>>
  /\ UNCHANGED <<client, toClient, server, history>>

\* The receiver thread notices and closes the descriptor.
CloseCurrentConnection ==
  /\ link = "broken"
  /\ link' = "closed"
  /\ toClient' = <<>>
  /\ UNCHANGED <<client, toServer, server, history>>

\* The receiver thread connects again; registerUser clears the slot.
Reconnect ==
  /\ link = "closed"
  /\ link' = "up"
  /\ session' = session + 1
  /\ lastIds' = EmptyRing
  /\ ackedBefore' = acknowledged
  /\ UNCHANGED <<client, toServer, toClient, processed, attempts, unsent, acknowledged,
                 early, crossed, abandoned, wrong>>

Next ==
  \/ GetActiveSocket \/ SendPacket \/ SendPacketFails
  \/ AddToPendingQueue \/ RemoveFromPendingQueue
  \/ \E id \in Ids : BecomeOverdue(id)
  \/ CollectTimedOut \/ CheckTimedOut \/ ResendMessage
  \/ ProcessRequest \/ IgnorePacket
  \/ Disconnect \/ CloseCurrentConnection \/ Reconnect

Spec == Init /\ [][Next]_vars

\* The three threads of the client go on and time passes.  Nothing is assumed of
\* the user, the connection, or the server, which may drop every packet.
FairSpec ==
  /\ Spec
  /\ WF_vars(AddToPendingQueue) /\ WF_vars(CollectTimedOut)
  /\ WF_vars(CheckTimedOut) /\ WF_vars(ResendMessage)
  /\ \A id \in Ids : WF_vars(BecomeOverdue(id))

-----------------------------------------------------------------------------
TypeOK ==
  /\ nextMsgId \in 1 .. MaxId + 1 /\ sock \in 0 .. MaxSessions
  /\ unrecorded \in Ids \cup {0} /\ resending \in Ids \cup {0}
  /\ DOMAIN pendingQueue \subseteq Ids
  /\ \A id \in DOMAIN pendingQueue :
        pendingQueue[id] \in [retries : 0 .. MaxRetries, overdue : BOOLEAN]
  /\ timedOut \subseteq Ids
  /\ link \in {"up", "broken", "closed"}
  /\ toServer \in Seq(Ids \cup {Garbage}) /\ toClient \in Seq(Ids)
  /\ lastIds \in [last : [0 .. MaxLastIds - 1 -> Ids \cup {0}], index : 0 .. MaxLastIds - 1]
  /\ session \in 1 .. MaxSessions
  /\ processed \in [1 .. MaxSessions -> Seq(Ids)]
  /\ attempts \in [Ids -> 0 .. MaxRetries + 1]
  /\ acknowledged \subseteq Ids /\ ackedBefore \subseteq Ids
  /\ early \subseteq Ids /\ crossed \subseteq Ids
  /\ unsent \subseteq Ids /\ abandoned \subseteq Ids /\ wrong \subseteq Ids

\* An ACK, received or in flight, is for a request that was acted on.
AckedWasProcessed ==
  \A id \in acknowledged \cup ToSet(toClient) :
     \E s \in 1 .. MaxSessions : id \in ToSet(processed[s])

\* Within one session a request is acted on again only after MaxLastIds others:
\* any MaxLastIds + 1 consecutive entries of the session's log are different.
OncePerWindow ==
  \A s \in 1 .. MaxSessions : \A i, j \in DOMAIN processed[s] :
     i < j /\ processed[s][i] = processed[s][j] => j - i > MaxLastIds

\* The client gives up a request only after it tried to send it 1 + MaxRetries
\* times (a try without a connection counts), however often the receiver thread
\* and main changed pendingQueue between the two passes.
AbandonedAfterAllRetries == \A id \in abandoned : attempts[id] = MaxRetries + 1

\* Every request that got an id is remembered until its ACK comes or it is given up,
\* whatever the receiver and timeoutChecker do at the same time, but for one case: sending
\* it failed, because the connection main had tested was gone.
NoneForgotten ==
  \A id \in 1 .. nextMsgId - 1 :
     id \in DOMAIN pendingQueue \cup {unrecorded} \cup acknowledged \cup abandoned \cup unsent

\* No request waits forever: once the user asks no more, pendingQueue becomes empty and
\* stays so, also if nothing is ever acknowledged.
PendingEnds == <>[](DOMAIN pendingQueue = {} /\ unrecorded = 0)

\* "max retries exceeded, giving up" is said of a request whose ACK was received only if the
\* ACK overtook the entering of the request into pendingQueue.
GivenUpWasNotAcked ==
  [][\A id \in abandoned' \ abandoned : id \in acknowledged => id \in early]_vars

\* A retransmission carries something else than the copy that was kept, because the entry
\* was erased after the unlock, only for a request that was acknowledged: no request that
\* still waits for its ACK is deprived of a try.
WrongCopyOnlyOfAcked == wrong \subseteq acknowledged

\* In a session with an empty ring, a request that was acknowledged before the session began
\* is acted on again only if its ACK overtook its entering, or came while it was being sent
\* again: a reconnection repeats, otherwise, only what the client has no answer to.
RepeatedWhy == ToSet(processed[session]) \cap ackedBefore \subseteq early \cup crossed

\* handleClientConnection acts once per window on what it acknowledges, acknowledges nothing
\* else, and after a reconnection is asked only for what the client cannot know to be done.
AnsweredOnce == AckedWasProcessed /\ OncePerWindow /\ RepeatedWhy

\* timeoutChecker, working on ids collected before the unlock, neither forgets a request
\* that was sent nor gives one up early nor spends its tries on another.
RequestsAreTried == NoneForgotten /\ AbandonedAfterAllRetries /\ WrongCopyOnlyOfAcked
==============================================================================
