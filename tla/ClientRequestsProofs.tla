------------------------- MODULE ClientRequestsProofs -------------------------
(***************************************************************************)
(* Proofs about the requests of the lab6 client: their acknowledgement and *)
(* retransmission (ReliableDelivery, in this module's own names), for      *)
(* every number of requests, connections and retries and every size of     *)
(* the window; and the pings (PingDiagnostics, as Ping!...), for series    *)
(* of any length and any number of them.                                   *)
(*                                                                         *)
(* The invariant of ReliableDelivery adds to the checked properties which  *)
(* ids are in use, how the retry counter of an entry and the tries made    *)
(* are related at each point of timeoutChecker's two passes, and where in  *)
(* the ring the ids are that the session has processed last; and that what *)
(* is sent in a session and was acknowledged before it is one of the two   *)
(* exceptions.  That of PingDiagnostics adds that ids in use are below     *)
(* nextMsgId, that the ping being recorded is not on record, what the      *)
(* counters are between the two clearings, and where the answered pings    *)
(* are.                                                                    *)
(***************************************************************************)
EXTENDS ReliableDelivery, DataLemmas

CONSTANTS MaxCount, MaxPings
VARIABLES pc, left, pingRecords, stats, report, answered, strays

\* nextMsgId and the packets in flight go by the names of ReliableDelivery; the others do not.
VARIABLES unrecordedPing, earlyPongs, timedOutPings, connected

Ping == INSTANCE PingDiagnostics
          WITH unrecorded <- unrecordedPing, early <- earlyPongs, timedOut <- timedOutPings

\* The ids given to requests so far.
UsedIds == 1 .. nextMsgId - 1

\* Only ids that were given to requests are anywhere, and the one that is being
\* entered is the last of them and not yet in the queue.
IdsInv ==
  /\ unrecorded # 0 => unrecorded = nextMsgId - 1
  /\ sock # 0 => unrecorded = 0 /\ nextMsgId \in Ids
  /\ unrecorded \notin DOMAIN pendingQueue
  /\ DOMAIN pendingQueue \cup acknowledged \cup abandoned \subseteq UsedIds
  /\ resending \in UsedIds \cup {0}
  /\ ToSet(toServer) \subseteq UsedIds \cup {Garbage}
  /\ ToSet(toClient) \subseteq UsedIds

\* Each entry has been tried once more often than it has been counted, but for the
\* one that is counted and not yet sent again; that one may be gone by then, if it
\* was acknowledged.
TriesInv ==
  /\ unrecorded # 0 => attempts[unrecorded] = 1 /\ unrecorded # resending
  /\ \A id \in DOMAIN pendingQueue :
        attempts[id] = pendingQueue[id].retries + IF id = resending THEN 0 ELSE 1
  /\ resending # 0 => attempts[resending] <= MaxRetries
  /\ resending \in DOMAIN pendingQueue \cup acknowledged \cup {0}
  /\ abandoned \cap (DOMAIN pendingQueue \cup {unrecorded, resending}) = {}

\* What is acknowledged and still to be tried was acknowledged too early.
EarlyInv == acknowledged \cap (DOMAIN pendingQueue \cup {unrecorded}) \subseteq early

\* Where a ring whose index is i has the id that was marked d requests before the last.
Place(i, d) == IF i > d THEN i - 1 - d ELSE i - 1 - d + MaxLastIds

\* The ring has the last MaxLastIds requests of the session; later sessions have none.
WindowInv ==
  /\ link # "up" => session < MaxSessions
  /\ \A s \in session + 1 .. MaxSessions : processed[s] = <<>>
  /\ \A k \in DOMAIN processed[session] :
        LET d == Len(processed[session]) - k IN
        d < MaxLastIds => lastIds.last[Place(lastIds.index, d)] = processed[session][k]

\* What was acknowledged before the session began comes to it only for one of the two
\* reasons, and nothing is on a connection that is not up.
RepeatInv ==
  /\ ackedBefore \subseteq acknowledged
  /\ {resending} \cap acknowledged \subseteq early \cup crossed
  /\ ToSet(toServer) \cap ackedBefore \subseteq early \cup crossed
  /\ link # "up" => toServer = <<>>

\* The invariant: the checked properties, and what they rest on.
IInv ==
  /\ TypeOK /\ IdsInv /\ TriesInv /\ EarlyInv /\ WindowInv /\ RepeatInv
  /\ AnsweredOnce /\ RequestsAreTried
-----------------------------------------------------------------------------
\* What erasing an entry leaves.
LEMMA WithoutIs ==
  ASSUME NEW q, NEW id
  PROVE  /\ DOMAIN Without(q, id) = DOMAIN q \ {id}
         /\ \A i \in DOMAIN q \ {id} : Without(q, id)[i] = q[i]
BY DEF Without

\* The invariant holds before the first request.
LEMMA InitInvariant == Init => IInv
<1> SUFFICES ASSUME Init PROVE IInv
  OBVIOUS
<1> USE DeliveryAssumption
<1>1. DOMAIN pendingQueue = {} /\ ToSet(toServer) = {} /\ ToSet(toClient) = {}
  BY ToSetEmpty DEF Init
<1>2. TypeOK
  <2>1. toServer \in Seq(Ids \cup {Garbage}) /\ toClient \in Seq(Ids)
    BY EmptySeq DEF Init
  <2>2. lastIds \in [last : [0 .. MaxLastIds - 1 -> Ids \cup {0}], index : 0 .. MaxLastIds - 1]
    BY DEF Init, EmptyRing
  <2>3. processed \in [1 .. MaxSessions -> Seq(Ids)]
    BY EmptySeq DEF Init
  <2>4. attempts \in [Ids -> 0 .. MaxRetries + 1]
    BY DEF Init
  <2> QED
    BY <1>1, <2>1, <2>2, <2>3, <2>4 DEF Init, TypeOK
<1>3. IdsInv
  BY <1>1 DEF Init, IdsInv
<1>4. TriesInv /\ EarlyInv
  BY <1>1 DEF Init, TriesInv, EarlyInv
<1>5. \A s \in 1 .. MaxSessions : processed[s] = <<>> /\ Len(processed[s]) = 0
                                  /\ DOMAIN processed[s] = {}
  BY EmptySeq DEF Init
<1>6. WindowInv
  BY <1>5 DEF Init, WindowInv
<1>7. AnsweredOnce
  <2>1. RepeatedWhy
    BY DEF Init, RepeatedWhy
  <2> QED
    BY <1>1, <1>5, <2>1 DEF Init, AnsweredOnce, AckedWasProcessed, OncePerWindow
<1>8. RequestsAreTried
  BY DEF Init, RequestsAreTried, NoneForgotten, AbandonedAfterAllRetries, WrongCopyOnlyOfAcked
<1>9. RepeatInv
  BY DEF Init, RepeatInv
<1> QED
  BY <1>2, <1>3, <1>4, <1>6, <1>7, <1>8, <1>9 DEF IInv

-----------------------------------------------------------------------------
\* What timeoutChecker's second pass does to the queue: it counts a retry of an
\* entry, erases one whose retries are used up, or leaves the queue alone.
LEMMA CheckCases ==
  ASSUME CheckTimedOut
  PROVE  LET id == Min(timedOut) IN
         /\ resending = 0
         /\ timedOut' \subseteq timedOut
         /\ UNCHANGED <<nextMsgId, sock, unrecorded, link, toServer, toClient, lastIds,
                        session, processed, attempts, unsent, acknowledged, ackedBefore,
                        early, crossed, wrong>>
         /\ \/ /\ id \in DOMAIN pendingQueue /\ pendingQueue[id].retries < MaxRetries
               /\ DOMAIN pendingQueue' = DOMAIN pendingQueue
               /\ pendingQueue'[id] = [retries |-> pendingQueue[id].retries + 1, overdue |-> FALSE]
               /\ \A i \in DOMAIN pendingQueue \ {id} : pendingQueue'[i] = pendingQueue[i]
               /\ resending' = id /\ abandoned' = abandoned
            \/ /\ id \in DOMAIN pendingQueue /\ ~(pendingQueue[id].retries < MaxRetries)
               /\ DOMAIN pendingQueue' = DOMAIN pendingQueue \ {id}
               /\ \A i \in DOMAIN pendingQueue \ {id} : pendingQueue'[i] = pendingQueue[i]
               /\ resending' = resending /\ abandoned' = abandoned \cup {id}
            \/ UNCHANGED <<pendingQueue, resending, abandoned>>
<1> DEFINE id == Min(timedOut)
<1> HIDE DEF id
<1>1. /\ resending = 0 /\ timedOut' = timedOut \ {id}
      /\ UNCHANGED <<nextMsgId, sock, unrecorded, link, toServer, toClient, lastIds, session,
                     processed, attempts, unsent, acknowledged, ackedBefore, early, crossed,
                     wrong>>
      /\ \/ /\ id \in DOMAIN pendingQueue /\ MayRetry(id)
            /\ pendingQueue' = Counted(id)
            /\ resending' = id /\ abandoned' = abandoned
         \/ /\ id \in DOMAIN pendingQueue /\ ~MayRetry(id)
            /\ pendingQueue' = GivenUp(id)
            /\ resending' = resending /\ abandoned' = abandoned \cup {id}
         \/ UNCHANGED <<pendingQueue, resending, abandoned>>
  BY DEF CheckTimedOut, server, acks, id
<1>2. /\ DOMAIN Counted(id) = DOMAIN pendingQueue
      /\ id \in DOMAIN pendingQueue =>
           Counted(id)[id] = [retries |-> pendingQueue[id].retries + 1, overdue |-> FALSE]
      /\ \A i \in DOMAIN pendingQueue \ {id} : Counted(id)[i] = pendingQueue[i]
  BY DEF Counted
<1>3. /\ DOMAIN GivenUp(id) = DOMAIN pendingQueue \ {id}
      /\ \A i \in DOMAIN pendingQueue \ {id} : GivenUp(id)[i] = pendingQueue[i]
  BY WithoutIs DEF GivenUp
<1>4. MayRetry(id) <=> pendingQueue[id].retries < MaxRetries
  BY DEF MayRetry
<1> QED
  BY <1>1, <1>2, <1>3, <1>4 DEF id

\* What the receiver's erasing does, with the ACK it takes from the connection.
LEMMA AckIsTaken ==
  ASSUME TypeOK, RemoveFromPendingQueue
  PROVE  LET id == Head(toClient) IN
         /\ id \in Ids /\ toClient' \in Seq(Ids)
         /\ ToSet(toClient) = ToSet(toClient') \cup {id}
         /\ DOMAIN pendingQueue' = DOMAIN pendingQueue \ {id}
         /\ \A i \in DOMAIN pendingQueue \ {id} : pendingQueue'[i] = pendingQueue[i]
         /\ acknowledged' = acknowledged \cup {id}
         /\ early' = early \cup ({id} \cap {unrecorded})
         /\ crossed' = crossed \cup ({id} \cap {resending})
         /\ UNCHANGED <<nextMsgId, sock, unrecorded, timedOut, resending, link, toServer,
                        lastIds, session, processed, attempts, unsent, ackedBefore, abandoned,
                        wrong>>
<1>1. toClient \in Seq(Ids) /\ toClient # <<>> /\ toClient' = Tail(toClient)
  BY DEF TypeOK, RemoveFromPendingQueue
<1>2. /\ Head(toClient) \in Ids /\ toClient' \in Seq(Ids)
      /\ ToSet(toClient) = ToSet(toClient') \cup {Head(toClient)}
  BY <1>1, ToSetTail
<1> QED
  BY <1>2, WithoutIs DEF RemoveFromPendingQueue, server, acks

\* What entering a request does.
LEMMA EntryIsMade ==
  ASSUME AddToPendingQueue
  PROVE  /\ unrecorded # 0 /\ unrecorded' = 0
         /\ DOMAIN pendingQueue' = DOMAIN pendingQueue \cup {unrecorded}
         /\ pendingQueue'[unrecorded] = [retries |-> 0, overdue |-> FALSE]
         /\ \A i \in DOMAIN pendingQueue \ {unrecorded} : pendingQueue'[i] = pendingQueue[i]
         /\ UNCHANGED <<nextMsgId, sock, timedOut, resending, link, toServer, toClient, lastIds,
                        session, processed, attempts, unsent, acknowledged, ackedBefore,
                        early, crossed, abandoned, wrong>>
BY DEF AddToPendingQueue, server, history, acks

\* What is put on the connection.
LEMMA Transmitted ==
  ASSUME TypeOK, NEW p \in Ids \cup {Garbage}, Transmit(p)
  PROVE  /\ toServer' \in Seq(Ids \cup {Garbage})
         /\ ToSet(toServer') \subseteq ToSet(toServer) \cup {p}
<1>1. toServer \in Seq(Ids \cup {Garbage})
  BY DEF TypeOK
<1>2. /\ Append(toServer, p) \in Seq(Ids \cup {Garbage})
      /\ ToSet(Append(toServer, p)) = ToSet(toServer) \cup {p}
  BY <1>1, AppendProperties, ToSetAppend
<1> QED
  BY <1>1, <1>2 DEF Transmit

\* The server's step over the first packet.
LEMMA PacketIsTaken ==
  ASSUME TypeOK, toServer # <<>>
  PROVE  /\ Head(toServer) \in Ids \cup {Garbage} /\ Tail(toServer) \in Seq(Ids \cup {Garbage})
         /\ ToSet(toServer) = ToSet(Tail(toServer)) \cup {Head(toServer)}
BY ToSetTail DEF TypeOK

\* What acting on a request does to the session's log and its ring.
LEMMA RequestIsProcessed ==
  ASSUME TypeOK, ProcessRequest
  PROVE  LET id  == Head(toServer)
             log == processed[session]
         IN
         /\ id \in Ids /\ ~IsDuplicate(id)
         /\ toServer' = Tail(toServer)
         /\ toClient' \in Seq(Ids) /\ ToSet(toClient') = ToSet(toClient) \cup {id}
         /\ processed' = [processed EXCEPT ![session] = Append(log, id)]
         /\ Len(log) \in Nat /\ Len(Append(log, id)) = Len(log) + 1
         /\ Append(log, id) \in Seq(Ids) /\ log \in Seq(Ids)
         /\ \A k \in 1 .. Len(log) : Append(log, id)[k] = log[k]
         /\ Append(log, id)[Len(log) + 1] = id
         /\ DOMAIN Append(log, id) = 1 .. Len(log) + 1 /\ DOMAIN log = 1 .. Len(log)
         /\ ToSet(Append(log, id)) = ToSet(log) \cup {id}
         /\ lastIds' = Marked(id)
         /\ UNCHANGED <<nextMsgId, sock, unrecorded, pendingQueue, timedOut, resending, link,
                        session, attempts, unsent, acknowledged, ackedBefore, early, crossed,
                        abandoned, wrong>>
<1> DEFINE id  == Head(toServer)
           log == processed[session]
<1>1. id \in Ids /\ ~IsDuplicate(id) /\ toServer' = Tail(toServer)
  BY PacketIsTaken DEF ProcessRequest
<1>2. log \in Seq(Ids) /\ toClient \in Seq(Ids)
  BY DEF TypeOK
<1> HIDE DEF id
<1>3. /\ toClient' = Append(toClient, id)
      /\ processed' = [processed EXCEPT ![session] = Append(log, id)]
      /\ lastIds' = Marked(id)
      /\ UNCHANGED <<nextMsgId, sock, unrecorded, pendingQueue, timedOut, resending, link,
                     session, attempts, unsent, acknowledged, ackedBefore, early, crossed,
                     abandoned, wrong>>
  BY DEF ProcessRequest, client, history, acks, id
<1> HIDE DEF log
<1>4. /\ toClient' \in Seq(Ids) /\ ToSet(toClient') = ToSet(toClient) \cup {id}
  BY <1>1, <1>2, <1>3, AppendProperties, ToSetAppend
<1>5. /\ Append(log, id) \in Seq(Ids) /\ Len(Append(log, id)) = Len(log) + 1
      /\ \A k \in 1 .. Len(log) : Append(log, id)[k] = log[k]
      /\ Append(log, id)[Len(log) + 1] = id
      /\ ToSet(Append(log, id)) = ToSet(log) \cup {id}
  BY <1>1, <1>2, AppendProperties, ToSetAppend
<1>6. /\ Len(log) \in Nat /\ DOMAIN log = 1 .. Len(log)
      /\ DOMAIN Append(log, id) = 1 .. Len(Append(log, id))
  BY <1>2, <1>5, LenProperties
<1> QED
  BY <1>1, <1>2, <1>3, <1>4, <1>5, <1>6 DEF id, log

\* Time only sets the flag of one entry.
LEMMA OverdueIsSet ==
  ASSUME TypeOK, NEW i \in Ids, BecomeOverdue(i)
  PROVE  /\ DOMAIN pendingQueue' = DOMAIN pendingQueue
         /\ \A j \in DOMAIN pendingQueue :
               /\ pendingQueue'[j].retries = pendingQueue[j].retries
               /\ pendingQueue'[j] \in [retries : 0 .. MaxRetries, overdue : BOOLEAN]
         /\ UNCHANGED <<nextMsgId, sock, unrecorded, timedOut, resending, link, toServer,
                        toClient, lastIds, session, processed, attempts, unsent, acknowledged,
                        ackedBefore, early, crossed, abandoned, wrong>>
<1>1. \A j \in DOMAIN pendingQueue :
        pendingQueue[j] \in [retries : 0 .. MaxRetries, overdue : BOOLEAN]
  BY DEF TypeOK
<1>2. i \in DOMAIN pendingQueue
      /\ pendingQueue' = [pendingQueue EXCEPT ![i] = [pendingQueue[i] EXCEPT !.overdue = TRUE]]
  BY DEF BecomeOverdue
<1>3. \A j \in DOMAIN pendingQueue :
        pendingQueue'[j] = IF j = i THEN [pendingQueue[i] EXCEPT !.overdue = TRUE]
                           ELSE pendingQueue[j]
  BY <1>2
<1> QED
  BY <1>1, <1>2, <1>3 DEF BecomeOverdue, server, history, acks

\* Sending a request uses the next id, whether it fails or not.
LEMMA RequestIsSent ==
  ASSUME IInv, SendPacket \/ SendPacketFails
  PROVE  /\ nextMsgId \in Ids /\ nextMsgId' = nextMsgId + 1
         /\ unrecorded = 0 /\ sock' = 0
         /\ \/ unrecorded' = nextMsgId /\ unsent' = unsent
            \/ unrecorded' = 0 /\ unsent' = unsent \cup {nextMsgId}
         /\ toServer' \in Seq(Ids \cup {Garbage})
         /\ ToSet(toServer') \subseteq ToSet(toServer) \cup {nextMsgId}
         /\ link # "up" => toServer' = toServer
         /\ attempts' \in [Ids -> 0 .. MaxRetries + 1] /\ attempts'[nextMsgId] = 1
         /\ \A i \in Ids \ {nextMsgId} : attempts'[i] = attempts[i]
         /\ UNCHANGED <<pendingQueue, timedOut, resending, link, toClient, lastIds, session,
                        processed, acknowledged, ackedBefore, early, crossed, abandoned,
                        wrong>>
<1>0. TypeOK /\ (sock # 0 => unrecorded = 0 /\ nextMsgId \in Ids)
  BY DEF IInv, IdsInv
<1>1. nextMsgId \in Ids /\ attempts \in [Ids -> 0 .. MaxRetries + 1] /\ unrecorded = 0
  BY <1>0 DEF TypeOK, SendPacket, SendPacketFails
<1>2. attempts' = [attempts EXCEPT ![nextMsgId] = 1] /\ 1 \in 0 .. MaxRetries + 1
  BY DeliveryAssumption DEF SendPacket, SendPacketFails
<1>3. Transmit(nextMsgId) \/ toServer' = toServer
  BY DEF SendPacket, SendPacketFails
<1>4. /\ toServer' \in Seq(Ids \cup {Garbage})
      /\ ToSet(toServer') \subseteq ToSet(toServer) \cup {nextMsgId}
  BY <1>0, <1>1, <1>3, Transmitted DEF TypeOK
<1>5. link # "up" => toServer' = toServer
  BY <1>3 DEF Transmit
<1>6. \/ unrecorded' = nextMsgId /\ unsent' = unsent
      \/ unrecorded' = 0 /\ unsent' = unsent \cup {nextMsgId}
  BY <1>1 DEF SendPacket, SendPacketFails
<1> QED
  BY <1>1, <1>2, <1>4, <1>5, <1>6 DEF SendPacket, SendPacketFails, server, acks

\* Sending again, of what is left of the entry.
LEMMA CopyIsResent ==
  ASSUME TypeOK, resending # 0 => attempts[resending] <= MaxRetries, ResendMessage
  PROVE  /\ resending \in Ids /\ resending' = 0
         /\ toServer' \in Seq(Ids \cup {Garbage})
         /\ ToSet(toServer') \subseteq ToSet(toServer) \cup {resending, Garbage}
                                                    \cup DOMAIN pendingQueue
         /\ link # "up" => toServer' = toServer
         /\ attempts' \in [Ids -> 0 .. MaxRetries + 1]
         /\ attempts'[resending] = attempts[resending] + 1
         /\ \A i \in Ids \ {resending} : attempts'[i] = attempts[i]
         /\ \/ wrong' = wrong
            \/ wrong' = wrong \cup {resending} /\ resending \notin DOMAIN pendingQueue
         /\ UNCHANGED <<nextMsgId, sock, unrecorded, pendingQueue, timedOut, link, toClient,
                        lastIds, session, processed, unsent, acknowledged, ackedBefore, early,
                        crossed, abandoned>>
<1>1. resending \in Ids /\ resending # 0 /\ DOMAIN pendingQueue \subseteq Ids
  BY DEF TypeOK, ResendMessage
<1>2. PICK p \in {resending} \cup (IF resending \in DOMAIN pendingQueue THEN {}
                               ELSE DOMAIN pendingQueue \cup {Garbage}) :
        /\ Transmit(p)
        /\ wrong' = IF p = resending THEN wrong ELSE wrong \cup {resending}
  BY DEF ResendMessage
<1>3. p \in Ids \cup {Garbage} /\ p \in {resending, Garbage} \cup DOMAIN pendingQueue
  BY <1>1, <1>2
<1>4. /\ toServer' \in Seq(Ids \cup {Garbage})
      /\ ToSet(toServer') \subseteq ToSet(toServer) \cup {resending, Garbage}
                                                 \cup DOMAIN pendingQueue
  BY <1>2, <1>3, Transmitted
<1>5. attempts \in [Ids -> 0 .. MaxRetries + 1] /\ attempts[resending] + 1 \in 0 .. MaxRetries + 1
  BY <1>1, DeliveryAssumption DEF TypeOK
<1>6. attempts' = [attempts EXCEPT ![resending] = attempts[resending] + 1]
  BY DEF ResendMessage
<1>7. /\ attempts' \in [Ids -> 0 .. MaxRetries + 1]
      /\ attempts'[resending] = attempts[resending] + 1
      /\ \A i \in Ids \ {resending} : attempts'[i] = attempts[i]
  BY <1>1, <1>5, <1>6
<1>8. \/ wrong' = wrong
      \/ wrong' = wrong \cup {resending} /\ resending \notin DOMAIN pendingQueue
  BY <1>2
<1>9. link # "up" => toServer' = toServer
  BY <1>2 DEF Transmit
<1> QED
  BY <1>1, <1>4, <1>7, <1>8, <1>9 DEF ResendMessage, server, acks

\* The other steps of the client and of the connection.
LEMMA PlainSteps ==
  /\ GetActiveSocket \/ CollectTimedOut \/ UNCHANGED vars
       => UNCHANGED <<nextMsgId, unrecorded, pendingQueue, resending, link, toServer, toClient,
                      lastIds, session, processed, attempts, unsent, acknowledged,
                      ackedBefore, early, crossed, abandoned, wrong>>
  /\ CollectTimedOut \/ UNCHANGED vars => sock' = sock
  /\ GetActiveSocket => /\ sock' = session /\ unrecorded = 0 /\ nextMsgId <= MaxId
                        /\ timedOut' = timedOut
  /\ IgnorePacket
       => /\ toServer # <<>> /\ toServer' = Tail(toServer)
          /\ UNCHANGED <<nextMsgId, sock, unrecorded, pendingQueue, timedOut, resending, link,
                         toClient, lastIds, session, processed, attempts, unsent,
                         acknowledged, ackedBefore, early, crossed, abandoned, wrong>>
  /\ Disconnect \/ CloseCurrentConnection
       => /\ Disconnect => session < MaxSessions /\ toServer' = <<>> /\ toClient' = toClient
          /\ CloseCurrentConnection => link = "broken" /\ toServer' = toServer /\ toClient' = <<>>
          /\ link' \in {"broken", "closed"}
          /\ UNCHANGED <<nextMsgId, sock, unrecorded, pendingQueue, timedOut, resending,
                         lastIds, session, processed, attempts, unsent, acknowledged,
                         ackedBefore, early, crossed, abandoned, wrong>>
  /\ Reconnect
       => /\ link = "closed" /\ link' = "up"
          /\ session' = session + 1 /\ lastIds' = EmptyRing /\ ackedBefore' = acknowledged
          /\ UNCHANGED <<nextMsgId, sock, unrecorded, pendingQueue, timedOut, resending,
                         toServer, toClient, processed, attempts, unsent, acknowledged, early,
                         crossed, abandoned, wrong>>
BY DEF GetActiveSocket, CollectTimedOut, IgnorePacket, Disconnect, CloseCurrentConnection,
       Reconnect, vars, client, server, history, acks

-----------------------------------------------------------------------------
\* Each step keeps the types.
LEMMA NextTypeOK ==
  ASSUME IInv, [Next]_vars
  PROVE  TypeOK'
<1> USE DeliveryAssumption
<1>0. TypeOK /\ (resending # 0 => attempts[resending] <= MaxRetries)
      /\ (link # "up" => session < MaxSessions)
  BY DEF IInv, TriesInv, WindowInv
<1>1. CASE SendPacket \/ SendPacketFails
  <2>1. nextMsgId' \in 1 .. MaxId + 1 /\ unrecorded' \in Ids \cup {0}
    BY <1>0, <1>1, RequestIsSent DEF Ids
  <2>2. unsent' \subseteq Ids /\ sock' \in 0 .. MaxSessions
    BY <1>0, <1>1, RequestIsSent DEF TypeOK
  <2> QED
    BY <1>0, <1>1, <2>1, <2>2, RequestIsSent DEF TypeOK
<1>2. CASE AddToPendingQueue
  <2>1. [retries |-> 0, overdue |-> FALSE] \in [retries : 0 .. MaxRetries, overdue : BOOLEAN]
    <3>1. 0 \in 0 .. MaxRetries
      OBVIOUS
    <3> QED
      BY <3>1
  <2>2. /\ DOMAIN pendingQueue' \subseteq Ids
        /\ \A i \in DOMAIN pendingQueue' :
              pendingQueue'[i] \in [retries : 0 .. MaxRetries, overdue : BOOLEAN]
    <3>1. /\ unrecorded \in Ids /\ DOMAIN pendingQueue \subseteq Ids
          /\ \A i \in DOMAIN pendingQueue :
                pendingQueue[i] \in [retries : 0 .. MaxRetries, overdue : BOOLEAN]
      BY <1>0, <1>2, EntryIsMade DEF TypeOK
    <3>2. /\ DOMAIN pendingQueue' = DOMAIN pendingQueue \cup {unrecorded}
          /\ pendingQueue'[unrecorded] = [retries |-> 0, overdue |-> FALSE]
          /\ \A i \in DOMAIN pendingQueue \ {unrecorded} : pendingQueue'[i] = pendingQueue[i]
      BY <1>2, EntryIsMade
    <3> QED
      BY <2>1, <3>1, <3>2, Zenon
  <2> QED
    BY <1>0, <1>2, <2>2, EntryIsMade DEF TypeOK
<1>3. CASE RemoveFromPendingQueue
  <2>1. /\ DOMAIN pendingQueue' \subseteq Ids
        /\ \A i \in DOMAIN pendingQueue' :
              pendingQueue'[i] \in [retries : 0 .. MaxRetries, overdue : BOOLEAN]
    BY <1>0, <1>3, AckIsTaken DEF TypeOK
  <2>2. acknowledged' \subseteq Ids /\ early' \subseteq Ids /\ crossed' \subseteq Ids
    BY <1>0, <1>3, AckIsTaken DEF TypeOK
  <2> QED
    BY <1>0, <1>3, <2>1, <2>2, AckIsTaken DEF TypeOK
<1>4. ASSUME NEW i \in Ids, BecomeOverdue(i) PROVE TypeOK'
  BY <1>0, <1>4, OverdueIsSet DEF TypeOK
<1>5. CASE CollectTimedOut
  <2>1. timedOut' \subseteq Ids
    BY <1>0, <1>5 DEF TypeOK, CollectTimedOut
  <2> QED
    BY <1>0, <1>5, <2>1, PlainSteps DEF TypeOK
<1>6. CASE CheckTimedOut
  <2> DEFINE i == Min(timedOut)
  <2>1. /\ timedOut' \subseteq timedOut
        /\ DOMAIN pendingQueue' \subseteq DOMAIN pendingQueue
        /\ resending' \in {resending, i} /\ (resending' = resending \/ i \in DOMAIN pendingQueue)
        /\ abandoned' \subseteq abandoned \cup DOMAIN pendingQueue
    BY <1>6, CheckCases
  <2>2. \A j \in DOMAIN pendingQueue' : j # i => pendingQueue'[j] = pendingQueue[j]
    BY <1>6, CheckCases
  <2>3. ASSUME i \in DOMAIN pendingQueue'
        PROVE  pendingQueue'[i] \in [retries : 0 .. MaxRetries, overdue : BOOLEAN]
    <3>1. i \in DOMAIN pendingQueue
          /\ (\/ pendingQueue'[i] = pendingQueue[i]
              \/ /\ pendingQueue[i].retries < MaxRetries
                 /\ pendingQueue'[i] = [retries |-> pendingQueue[i].retries + 1, overdue |-> FALSE])
      BY <1>6, <2>3, CheckCases
    <3>2. pendingQueue[i] \in [retries : 0 .. MaxRetries, overdue : BOOLEAN]
      BY <1>0, <3>1 DEF TypeOK
    <3>3. pendingQueue[i].retries < MaxRetries => pendingQueue[i].retries + 1 \in 0 .. MaxRetries
      BY <3>2
    <3>4. FALSE \in BOOLEAN
      OBVIOUS
    <3>5. CASE pendingQueue[i].retries < MaxRetries
      <4>1. [retries |-> pendingQueue[i].retries + 1, overdue |-> FALSE]
               \in [retries : 0 .. MaxRetries, overdue : BOOLEAN]
        BY <3>3, <3>4, <3>5
      <4> QED
        BY <3>1, <3>2, <4>1, Zenon
    <3> QED
      BY <3>1, <3>2, <3>5, Zenon
  <2>4. UNCHANGED <<nextMsgId, sock, unrecorded, link, toServer, toClient, lastIds, session,
                    processed, attempts, unsent, acknowledged, ackedBefore, early, crossed,
                    wrong>>
    BY <1>6, CheckCases
  <2> HIDE DEF i
  <2>5. /\ DOMAIN pendingQueue' \subseteq Ids
        /\ \A j \in DOMAIN pendingQueue' :
              pendingQueue'[j] \in [retries : 0 .. MaxRetries, overdue : BOOLEAN]
    BY <1>0, <2>1, <2>2, <2>3 DEF TypeOK
  <2>6. resending' \in Ids \cup {0} /\ timedOut' \subseteq Ids /\ abandoned' \subseteq Ids
    BY <1>0, <2>1 DEF TypeOK
  <2> QED
    BY <1>0, <2>4, <2>5, <2>6 DEF TypeOK
<1>7. CASE ResendMessage
  <2>1. wrong' \subseteq Ids /\ resending' \in Ids \cup {0}
    BY <1>0, <1>7, CopyIsResent DEF TypeOK
  <2> QED
    BY <1>0, <1>7, <2>1, CopyIsResent DEF TypeOK
<1>8. CASE ProcessRequest
  <2>1. toServer # <<>>
    BY <1>8 DEF ProcessRequest
  <2>2. lastIds' \in [last : [0 .. MaxLastIds - 1 -> Ids \cup {0}], index : 0 .. MaxLastIds - 1]
    <3>1. /\ lastIds.index \in 0 .. MaxLastIds - 1
          /\ lastIds.last \in [0 .. MaxLastIds - 1 -> Ids \cup {0}]
      BY <1>0 DEF TypeOK
    <3>2. (lastIds.index + 1) % MaxLastIds \in 0 .. MaxLastIds - 1
      BY <3>1
    <3>3. lastIds' = Marked(Head(toServer)) /\ Head(toServer) \in Ids
      BY <1>0, <1>8, RequestIsProcessed
    <3> QED
      BY <3>1, <3>2, <3>3 DEF Marked
  <2>3. processed' \in [1 .. MaxSessions -> Seq(Ids)]
    BY <1>0, <1>8, RequestIsProcessed DEF TypeOK
  <2>4. toServer' \in Seq(Ids \cup {Garbage}) /\ toClient' \in Seq(Ids)
    BY <1>0, <1>8, <2>1, RequestIsProcessed, PacketIsTaken
  <2>5. UNCHANGED <<nextMsgId, sock, unrecorded, pendingQueue, timedOut, resending, link,
                    session, attempts, unsent, acknowledged, ackedBefore, early, crossed,
                    abandoned, wrong>>
    BY <1>0, <1>8, RequestIsProcessed
  <2> QED
    BY <1>0, <2>2, <2>3, <2>4, <2>5 DEF TypeOK
<1>9. CASE IgnorePacket
  <2>1. toServer' \in Seq(Ids \cup {Garbage})
    BY <1>0, <1>9, PlainSteps, PacketIsTaken
  <2> QED
    BY <1>0, <1>9, <2>1, PlainSteps DEF TypeOK
<1>10. CASE Disconnect \/ CloseCurrentConnection
  <2>1. toServer' \in Seq(Ids \cup {Garbage}) /\ toClient' \in Seq(Ids)
    <3>1. <<>> \in Seq(Ids \cup {Garbage}) /\ <<>> \in Seq(Ids)
      BY EmptySeq
    <3>2. toServer' \in {toServer, <<>>} /\ toClient' \in {toClient, <<>>}
      BY <1>10, PlainSteps
    <3> QED
      BY <1>0, <3>1, <3>2 DEF TypeOK
  <2> QED
    BY <1>0, <1>10, <2>1, PlainSteps DEF TypeOK
<1>11. CASE Reconnect
  <2>1. session' \in 1 .. MaxSessions /\ ackedBefore' \subseteq Ids
    BY <1>0, <1>11, PlainSteps DEF TypeOK
  <2>2. lastIds' \in [last : [0 .. MaxLastIds - 1 -> Ids \cup {0}], index : 0 .. MaxLastIds - 1]
    BY <1>11, PlainSteps DEF EmptyRing
  <2> QED
    BY <1>0, <1>11, <2>1, <2>2, PlainSteps DEF TypeOK
<1>12. CASE UNCHANGED vars
  BY <1>0, <1>12 DEF TypeOK, vars, client, server, history, acks
<1>13. CASE GetActiveSocket
  <2>1. sock' \in 0 .. MaxSessions
    BY <1>0, <1>13, PlainSteps DEF TypeOK
  <2> QED
    BY <1>0, <1>13, <2>1, PlainSteps DEF TypeOK
<1> QED
  BY <1>1, <1>2, <1>3, <1>4, <1>5, <1>6, <1>7, <1>8, <1>9, <1>10, <1>11, <1>12,
     <1>13 DEF Next

\* Each step keeps the ids in use in their places.
LEMMA NextIdsInv ==
  ASSUME IInv, [Next]_vars
  PROVE  IdsInv'
<1>0. /\ TypeOK /\ IdsInv /\ (resending # 0 => attempts[resending] <= MaxRetries)
      /\ nextMsgId \in Nat \ {0}
  BY DEF IInv, TriesInv, TypeOK
<1> USE DEF IdsInv, UsedIds
<1>1. CASE SendPacket \/ SendPacketFails
  <2>1. nextMsgId' = nextMsgId + 1 /\ UsedIds' = UsedIds \cup {nextMsgId}
    BY <1>0, <1>1, RequestIsSent
  <2>2. nextMsgId \notin DOMAIN pendingQueue /\ 0 \notin DOMAIN pendingQueue
    BY <1>0
  <2>3. /\ unrecorded' \in {nextMsgId, 0} /\ sock' = 0
        /\ ToSet(toServer') \subseteq ToSet(toServer) \cup {nextMsgId}
        /\ UNCHANGED <<pendingQueue, resending, toClient, acknowledged, abandoned>>
    BY <1>1, RequestIsSent
  <2> QED
    BY <1>0, <2>1, <2>2, <2>3
<1>2. CASE AddToPendingQueue
  <2>1. unrecorded \in UsedIds
    BY <1>0, <1>2, EntryIsMade DEF TypeOK, Ids
  <2>2. 0 \notin DOMAIN pendingQueue'
    BY <1>0, <1>2, EntryIsMade
  <2> QED
    BY <1>0, <1>2, <2>1, <2>2, EntryIsMade
<1>3. CASE RemoveFromPendingQueue
  BY <1>0, <1>3, AckIsTaken
<1>4. ASSUME NEW i \in Ids, BecomeOverdue(i) PROVE IdsInv'
  BY <1>0, <1>4, OverdueIsSet
<1>5. CASE GetActiveSocket \/ CollectTimedOut \/ UNCHANGED vars
  <2>1. /\ UNCHANGED <<nextMsgId, unrecorded, pendingQueue, resending, toServer, toClient,
                       acknowledged, abandoned>>
        /\ sock' = sock \/ (unrecorded = 0 /\ nextMsgId <= MaxId)
    BY <1>5, PlainSteps
  <2>2. nextMsgId <= MaxId => nextMsgId \in Ids
    BY <1>0, DeliveryAssumption DEF Ids
  <2> QED
    BY <1>0, <2>1, <2>2
<1>6. CASE CheckTimedOut
  <2>1. /\ UNCHANGED <<nextMsgId, sock, unrecorded, link, toServer, toClient, unsent,
                       acknowledged>>
        /\ DOMAIN pendingQueue' \subseteq DOMAIN pendingQueue
        /\ abandoned' \subseteq abandoned \cup DOMAIN pendingQueue
        /\ resending' \in {resending} \cup DOMAIN pendingQueue
    BY <1>6, CheckCases
  <2> QED
    BY <1>0, <2>1
<1>7. CASE ResendMessage
  <2>1. /\ UNCHANGED <<nextMsgId, sock, unrecorded, pendingQueue, toClient, unsent,
                       acknowledged, abandoned>>
        /\ resending \in Ids /\ resending' = 0
        /\ ToSet(toServer') \subseteq ToSet(toServer) \cup {resending, Garbage}
                                                   \cup DOMAIN pendingQueue
    BY <1>0, <1>7, CopyIsResent
  <2>2. resending \in UsedIds
    BY <1>0, <2>1 DEF Ids
  <2> QED
    BY <1>0, <2>1, <2>2
<1>8. CASE ProcessRequest
  <2>1. toServer # <<>>
    BY <1>8 DEF ProcessRequest
  <2>2. Head(toServer) \in UsedIds /\ ToSet(toServer') \subseteq UsedIds \cup {Garbage}
    <3>1. Head(toServer) \in Ids /\ toServer' = Tail(toServer)
      BY <1>0, <1>8, RequestIsProcessed
    <3>2. ToSet(toServer) = ToSet(toServer') \cup {Head(toServer)}
      BY <1>0, <2>1, <3>1, PacketIsTaken
    <3> QED
      BY <1>0, <3>1, <3>2 DEF Ids, Garbage
  <2>3. ToSet(toClient') = ToSet(toClient) \cup {Head(toServer)}
    BY <1>0, <1>8, RequestIsProcessed
  <2>4. UNCHANGED <<nextMsgId, sock, unrecorded, pendingQueue, resending, unsent,
                    acknowledged, abandoned>>
    BY <1>0, <1>8, RequestIsProcessed
  <2> QED
    BY <1>0, <2>2, <2>3, <2>4
<1>9. CASE IgnorePacket
  <2>1. ToSet(toServer') \subseteq ToSet(toServer)
    BY <1>0, <1>9, PlainSteps, PacketIsTaken
  <2> QED
    BY <1>0, <1>9, <2>1, PlainSteps
<1>10. CASE Disconnect \/ CloseCurrentConnection
  BY <1>0, <1>10, PlainSteps, ToSetEmpty
<1>11. CASE Reconnect
  BY <1>0, <1>11, PlainSteps
<1> QED
  BY <1>1, <1>2, <1>3, <1>4, <1>5, <1>6, <1>7, <1>8, <1>9, <1>10, <1>11 DEF Next

\* Each step keeps the counters and the tries together.
LEMMA NextTriesInv ==
  ASSUME IInv, [Next]_vars
  PROVE  TriesInv'
<1>0. /\ TypeOK /\ IdsInv /\ TriesInv /\ (resending # 0 => attempts[resending] <= MaxRetries)
      /\ nextMsgId \in Nat \ {0} /\ DOMAIN pendingQueue \subseteq Ids
      /\ unrecorded \in Ids \cup {0} /\ 0 \notin Ids
  BY SMTT(20) DEF IInv, TriesInv, TypeOK, Ids
<1> USE DEF TriesInv
<1>1. CASE SendPacket \/ SendPacketFails
  <2>1. /\ nextMsgId \notin DOMAIN pendingQueue /\ nextMsgId # resending
        /\ nextMsgId \notin abandoned
    BY <1>0 DEF IdsInv, UsedIds
  <2>2. /\ nextMsgId \in Ids /\ unrecorded' \in {nextMsgId, 0} /\ attempts'[nextMsgId] = 1
        /\ \A j \in Ids \ {nextMsgId} : attempts'[j] = attempts[j]
        /\ UNCHANGED <<pendingQueue, resending, acknowledged, abandoned>>
    BY <1>0, <1>1, RequestIsSent
  <2>3. \A j \in DOMAIN pendingQueue : attempts'[j] = attempts[j]
    BY <1>0, <2>1, <2>2
  <2>4. resending # 0 => attempts'[resending] = attempts[resending]
    BY <1>0, <2>1, <2>2 DEF TypeOK
  <2>5. 0 \notin abandoned /\ 0 \notin DOMAIN pendingQueue
    BY <1>0 DEF TypeOK
  <2> QED
    BY <1>0, <2>1, <2>2, <2>3, <2>4, <2>5
<1>2. CASE AddToPendingQueue
  <2>1. attempts[unrecorded] = 1 /\ unrecorded # resending /\ unrecorded \notin abandoned
    BY <1>0, <1>2, EntryIsMade
  <2>2. /\ unrecorded' = 0
        /\ DOMAIN pendingQueue' = DOMAIN pendingQueue \cup {unrecorded}
        /\ pendingQueue'[unrecorded].retries = 0
        /\ \A j \in DOMAIN pendingQueue \ {unrecorded} : pendingQueue'[j] = pendingQueue[j]
        /\ UNCHANGED <<resending, attempts, unsent, acknowledged, abandoned>>
    BY <1>2, EntryIsMade
  <2>3. ASSUME NEW j \in DOMAIN pendingQueue'
        PROVE  attempts[j] = pendingQueue'[j].retries + IF j = resending THEN 0 ELSE 1
    <3>1. CASE j = unrecorded
      BY <2>1, <2>2, <3>1
    <3>2. CASE j # unrecorded
      BY <1>0, <2>2, <3>2
    <3> QED
      BY <3>1, <3>2
  <2>4. 0 \notin abandoned
    BY <1>0 DEF TypeOK
  <2> QED
    BY <1>0, <2>1, <2>2, <2>3, <2>4
<1>3. CASE RemoveFromPendingQueue
  BY <1>0, <1>3, AckIsTaken
<1>4. ASSUME NEW i \in Ids, BecomeOverdue(i) PROVE TriesInv'
  BY <1>0, <1>4, OverdueIsSet
<1>5. CASE GetActiveSocket \/ CollectTimedOut \/ UNCHANGED vars
  BY <1>0, <1>5, PlainSteps
<1>6. CASE CheckTimedOut
  <2> DEFINE i == Min(timedOut)
  <2>0. resending = 0 /\ UNCHANGED <<unrecorded, attempts, unsent, acknowledged>>
    BY <1>6, CheckCases
  <2>1. CASE /\ i \in DOMAIN pendingQueue /\ pendingQueue[i].retries < MaxRetries
             /\ DOMAIN pendingQueue' = DOMAIN pendingQueue
             /\ pendingQueue'[i] = [retries |-> pendingQueue[i].retries + 1, overdue |-> FALSE]
             /\ \A j \in DOMAIN pendingQueue \ {i} : pendingQueue'[j] = pendingQueue[j]
             /\ resending' = i /\ abandoned' = abandoned
    <3> HIDE DEF i
    <3>1. i # 0 /\ attempts[i] = pendingQueue[i].retries + 1 /\ i # unrecorded
          /\ pendingQueue[i].retries \in Nat
      BY <1>0, <2>0, <2>1 DEF TypeOK, IdsInv
    <3>2. attempts[i] <= MaxRetries /\ attempts[i] = pendingQueue'[i].retries + 0
      BY <2>1, <3>1, DeliveryAssumption
    <3> QED
      BY <1>0, <2>0, <2>1, <3>1, <3>2
  <2>2. CASE /\ i \in DOMAIN pendingQueue /\ ~(pendingQueue[i].retries < MaxRetries)
             /\ DOMAIN pendingQueue' = DOMAIN pendingQueue \ {i}
             /\ \A j \in DOMAIN pendingQueue \ {i} : pendingQueue'[j] = pendingQueue[j]
             /\ resending' = resending /\ abandoned' = abandoned \cup {i}
    <3> HIDE DEF i
    <3>1. i # unrecorded /\ i # resending
      BY <1>0, <2>0, <2>2 DEF IdsInv
    <3> QED
      BY <1>0, <2>0, <2>2, <3>1
  <2>3. CASE UNCHANGED <<pendingQueue, resending, abandoned>>
    BY <1>0, <2>0, <2>3
  <2> QED
    BY <1>6, <2>1, <2>2, <2>3, CheckCases
<1>7. CASE ResendMessage
  <2>1. \A j \in DOMAIN pendingQueue \ {resending} : attempts'[j] = attempts[j]
    BY <1>0, <1>7, CopyIsResent
  <2>2. resending \in DOMAIN pendingQueue =>
          /\ attempts'[resending] = pendingQueue[resending].retries + 1
          /\ pendingQueue[resending].retries \in Nat
    <3>1. resending \in DOMAIN pendingQueue => pendingQueue[resending].retries \in Nat
      BY <1>0 DEF TypeOK
    <3> QED
      BY <1>0, <1>7, <3>1, CopyIsResent
  <2>3. /\ resending' = 0
        /\ UNCHANGED <<unrecorded, pendingQueue, unsent, acknowledged, abandoned>>
        /\ unrecorded # 0 => attempts'[unrecorded] = attempts[unrecorded]
    BY <1>0, <1>7, CopyIsResent
  <2>4. \A j \in DOMAIN pendingQueue : attempts'[j] = pendingQueue[j].retries + 1
    BY <1>0, <2>1, <2>2
  <2>5. 0 \notin DOMAIN pendingQueue /\ abandoned \subseteq Ids
    BY <1>0 DEF TypeOK
  <2> QED
    BY <1>0, <2>3, <2>4, <2>5
<1>8. CASE ProcessRequest
  BY <1>0, <1>8, RequestIsProcessed
<1>9. CASE IgnorePacket \/ Disconnect \/ CloseCurrentConnection \/ Reconnect
  BY <1>0, <1>9, PlainSteps
<1> QED
  BY <1>1, <1>2, <1>3, <1>4, <1>5, <1>6, <1>7, <1>8, <1>9 DEF Next

\* Each step keeps what is acknowledged and in the queue among the early ones.
LEMMA NextEarlyInv ==
  ASSUME IInv, [Next]_vars
  PROVE  EarlyInv'
<1>0. /\ TypeOK /\ IdsInv /\ EarlyInv /\ (resending # 0 => attempts[resending] <= MaxRetries)
      /\ 0 \notin acknowledged /\ nextMsgId \notin acknowledged
  <2>1. /\ TypeOK /\ IdsInv /\ EarlyInv /\ (resending # 0 => attempts[resending] <= MaxRetries)
    BY DEF IInv, TriesInv
  <2>2. acknowledged \subseteq 1 .. nextMsgId - 1 /\ nextMsgId \in Nat
    BY <2>1 DEF IdsInv, UsedIds, TypeOK
  <2> QED
    BY <2>1, <2>2
<1> USE DEF EarlyInv
<1>1. CASE SendPacket \/ SendPacketFails
  BY <1>0, <1>1, RequestIsSent
<1>2. CASE AddToPendingQueue
  BY <1>0, <1>2, EntryIsMade
<1>3. CASE RemoveFromPendingQueue
  BY <1>0, <1>3, AckIsTaken
<1>4. ASSUME NEW i \in Ids, BecomeOverdue(i) PROVE EarlyInv'
  BY <1>0, <1>4, OverdueIsSet
<1>5. CASE GetActiveSocket \/ CollectTimedOut \/ UNCHANGED vars
  BY <1>0, <1>5, PlainSteps
<1>6. CASE CheckTimedOut
  <2>1. /\ UNCHANGED <<unrecorded, unsent, acknowledged, ackedBefore, early, crossed>>
        /\ DOMAIN pendingQueue' \subseteq DOMAIN pendingQueue
    BY <1>6, CheckCases
  <2> QED
    BY <1>0, <2>1
<1>7. CASE ResendMessage
  BY <1>0, <1>7, CopyIsResent
<1>8. CASE ProcessRequest
  BY <1>0, <1>8, RequestIsProcessed
<1>9. CASE IgnorePacket \/ Disconnect \/ CloseCurrentConnection \/ Reconnect
  BY <1>0, <1>9, PlainSteps
<1> QED
  BY <1>1, <1>2, <1>3, <1>4, <1>5, <1>6, <1>7, <1>8, <1>9 DEF Next

\* Each step keeps the promises of timeoutChecker.
LEMMA NextRequestsAreTried ==
  ASSUME IInv, [Next]_vars
  PROVE  RequestsAreTried'
<1>0. /\ TypeOK /\ IdsInv /\ TriesInv /\ (resending # 0 => attempts[resending] <= MaxRetries)
      /\ nextMsgId \in Nat \ {0} /\ DOMAIN pendingQueue \subseteq Ids /\ abandoned \subseteq Ids
      /\ NoneForgotten /\ AbandonedAfterAllRetries /\ WrongCopyOnlyOfAcked
  BY DEF IInv, TriesInv, TypeOK, RequestsAreTried
<1> USE DEF RequestsAreTried, NoneForgotten, AbandonedAfterAllRetries, WrongCopyOnlyOfAcked
<1>1. CASE SendPacket \/ SendPacketFails
  <2>1. /\ 1 .. nextMsgId' - 1 = (1 .. nextMsgId - 1) \cup {nextMsgId}
        /\ 0 \notin 1 .. nextMsgId - 1
        /\ unrecorded = 0
        /\ nextMsgId \in {unrecorded'} \cup unsent' /\ unsent \subseteq unsent'
        /\ UNCHANGED <<pendingQueue, acknowledged, abandoned, wrong>>
    BY <1>0, <1>1, RequestIsSent
  <2>2. nextMsgId \notin abandoned
    BY <1>0 DEF IdsInv, UsedIds
  <2>3. \A i \in Ids \ {nextMsgId} : attempts'[i] = attempts[i]
    BY <1>0, <1>1, RequestIsSent
  <2> QED
    BY <1>0, <2>1, <2>2, <2>3
<1>2. CASE AddToPendingQueue
  BY <1>0, <1>2, EntryIsMade
<1>3. CASE RemoveFromPendingQueue
  BY <1>0, <1>3, AckIsTaken
<1>4. ASSUME NEW i \in Ids, BecomeOverdue(i) PROVE RequestsAreTried'
  BY <1>0, <1>4, OverdueIsSet
<1>5. CASE GetActiveSocket \/ CollectTimedOut \/ UNCHANGED vars
  BY <1>0, <1>5, PlainSteps
<1>6. CASE CheckTimedOut
  <2> DEFINE i == Min(timedOut)
  <2>0. resending = 0 /\ UNCHANGED <<nextMsgId, sock, unrecorded, attempts, unsent,
                                     acknowledged, wrong>>
    BY <1>6, CheckCases
  <2>1. CASE DOMAIN pendingQueue' = DOMAIN pendingQueue /\ abandoned' = abandoned
    BY <1>0, <2>0, <2>1
  <2>2. CASE /\ i \in DOMAIN pendingQueue /\ ~(pendingQueue[i].retries < MaxRetries)
             /\ DOMAIN pendingQueue' = DOMAIN pendingQueue \ {i}
             /\ abandoned' = abandoned \cup {i}
    <3> HIDE DEF i
    <3>1. pendingQueue[i].retries \in 0 .. MaxRetries /\ i # 0
      BY <1>0, <2>2 DEF TypeOK, Ids
    <3>2. attempts[i] = pendingQueue[i].retries + 1
      BY <1>0, <2>0, <2>2, <3>1 DEF TriesInv
    <3>3. attempts[i] = MaxRetries + 1
      BY <2>2, <3>1, <3>2, DeliveryAssumption
    <3> QED
      BY <1>0, <2>0, <2>2, <3>3
  <2> QED
    BY <1>6, <2>1, <2>2, CheckCases
<1>7. CASE ResendMessage
  <2>1. /\ UNCHANGED <<nextMsgId, sock, unrecorded, pendingQueue, unsent, acknowledged,
                       abandoned>>
        /\ \A i \in Ids \ {resending} : attempts'[i] = attempts[i]
        /\ resending \in Ids
        /\ \/ wrong' = wrong
           \/ wrong' = wrong \cup {resending} /\ resending \notin DOMAIN pendingQueue
    BY <1>0, <1>7, CopyIsResent
  <2>2. /\ resending \notin abandoned /\ resending # 0
        /\ resending \in DOMAIN pendingQueue \cup acknowledged
    BY <1>0, <2>1 DEF TriesInv, Ids
  <2> QED
    BY <1>0, <2>1, <2>2
<1>8. CASE ProcessRequest
  BY <1>0, <1>8, RequestIsProcessed
<1>9. CASE IgnorePacket \/ Disconnect \/ CloseCurrentConnection \/ Reconnect
  BY <1>0, <1>9, PlainSteps
<1> QED
  BY <1>1, <1>2, <1>3, <1>4, <1>5, <1>6, <1>7, <1>8, <1>9 DEF Next

-----------------------------------------------------------------------------
\* How the places move when one more id is marked: what is not overwritten stays
\* where it was.
LEMMA RingPlaces ==
  ASSUME NEW i \in 0 .. MaxLastIds - 1, NEW d \in Nat, d < MaxLastIds
  PROVE  /\ Place(i, d) \in 0 .. MaxLastIds - 1
         /\ Place((i + 1) % MaxLastIds, 0) = i
         /\ d + 1 < MaxLastIds => /\ Place(i, d) # i
                                  /\ Place((i + 1) % MaxLastIds, d + 1) = Place(i, d)
<1> USE DeliveryAssumption
<1>1. (i + 1) % MaxLastIds = IF i + 1 = MaxLastIds THEN 0 ELSE i + 1
  <2>1. CASE i + 1 = MaxLastIds
    BY <2>1
  <2>2. CASE i + 1 < MaxLastIds
    BY <2>2
  <2> QED
    BY <2>1, <2>2
<1>2. Place(i, d) \in 0 .. MaxLastIds - 1
  BY DEF Place
<1> DEFINE n == (i + 1) % MaxLastIds
<1>3. n \in Int /\ n = IF i + 1 = MaxLastIds THEN 0 ELSE i + 1
  BY <1>1
<1> HIDE DEF n
<1>4. Place(n, 0) = i
  BY <1>3 DEF Place
<1>5. d + 1 < MaxLastIds => Place(i, d) # i /\ Place(n, d + 1) = Place(i, d)
  BY <1>3 DEF Place
<1> QED
  BY <1>2, <1>4, <1>5 DEF n

\* A session that begins has no log.
LEMMA ReconnectIsFresh ==
  ASSUME IInv, Reconnect
  PROVE  /\ session' \in 1 .. MaxSessions /\ processed'[session'] = <<>>
         /\ \A s \in session' + 1 .. MaxSessions : processed'[s] = <<>>
<1>1. /\ session \in 1 .. MaxSessions /\ session < MaxSessions /\ session' = session + 1
      /\ processed' = processed
  BY PlainSteps DEF IInv, TypeOK, WindowInv
<1>2. \A s \in session + 1 .. MaxSessions : processed[s] = <<>>
  BY DEF IInv, WindowInv
<1>3. /\ session' \in session + 1 .. MaxSessions /\ session' \in 1 .. MaxSessions
      /\ \A s \in session' + 1 .. MaxSessions : s \in session + 1 .. MaxSessions
  BY <1>1, DeliveryAssumption
<1> QED
  BY <1>1, <1>2, <1>3

\* Each step keeps the ring and the log of the session together.
LEMMA NextWindowInv ==
  ASSUME IInv, [Next]_vars
  PROVE  WindowInv'
<1>0. TypeOK /\ WindowInv /\ (resending # 0 => attempts[resending] <= MaxRetries)
  BY DEF IInv, TriesInv
<1>1. CASE UNCHANGED <<link, session, processed, lastIds>>
  BY <1>0, <1>1 DEF WindowInv, Place
<1>2. CASE ProcessRequest
  <2> DEFINE id == Head(toServer)
             log == processed[session]
             new == Append(log, id)
             len == Len(log)
  <2>1. /\ len \in Nat /\ DOMAIN log = 1 .. len
        /\ DOMAIN new = 1 .. len + 1 /\ Len(new) = len + 1
        /\ \A k \in 1 .. len : new[k] = log[k]
        /\ new[len + 1] = id
        /\ processed' = [processed EXCEPT ![session] = new]
        /\ lastIds' = Marked(id) /\ session' = session /\ link' = link
    BY <1>0, <1>2, RequestIsProcessed
  <2>2. /\ lastIds.index \in 0 .. MaxLastIds - 1
        /\ lastIds.last \in [0 .. MaxLastIds - 1 -> Ids \cup {0}]
        /\ session \in 1 .. MaxSessions /\ DOMAIN processed = 1 .. MaxSessions
    BY <1>0 DEF TypeOK
  <2> HIDE DEF new
  <2>3. processed'[session'] = new /\ \A s \in session + 1 .. MaxSessions : processed'[s] = processed[s]
    BY <2>1, <2>2
  <2>4. \A k \in 1 .. len : len - k < MaxLastIds =>
           lastIds.last[Place(lastIds.index, len - k)] = log[k]
    BY <1>0, <2>1 DEF WindowInv
  <2> HIDE DEF log, id, len
  <2>5. /\ lastIds'.index = (lastIds.index + 1) % MaxLastIds
        /\ lastIds'.last = [lastIds.last EXCEPT ![lastIds.index] = id]
    BY <2>1 DEF Marked
  <2>6. ASSUME NEW k \in 1 .. len + 1, len + 1 - k < MaxLastIds
        PROVE  lastIds'.last[Place(lastIds'.index, len + 1 - k)] = new[k]
    <3>1. CASE k = len + 1
      <4>1. len + 1 - k = 0 /\ 0 < MaxLastIds
        BY <2>1, <3>1, DeliveryAssumption
      <4>2. Place(lastIds'.index, 0) = lastIds.index
        BY <2>2, <2>5, <4>1, RingPlaces
      <4>3. lastIds'.last[lastIds.index] = id
        BY <2>2, <2>5
      <4>4. new[k] = id
        BY <2>1, <3>1
      <4> QED
        BY <4>1, <4>2, <4>3, <4>4
    <3>2. CASE k \in 1 .. len
      <4>1. /\ len - k \in Nat /\ len - k < MaxLastIds /\ (len - k) + 1 < MaxLastIds
            /\ len + 1 - k = (len - k) + 1
        BY <2>1, <2>6, <3>2, DeliveryAssumption
      <4>2. /\ Place(lastIds.index, len - k) \in 0 .. MaxLastIds - 1
            /\ Place(lastIds.index, len - k) # lastIds.index
            /\ Place(lastIds'.index, len + 1 - k) = Place(lastIds.index, len - k)
        BY <2>2, <2>5, <4>1, RingPlaces
      <4>3. lastIds'.last[Place(lastIds.index, len - k)] = lastIds.last[Place(lastIds.index, len - k)]
        BY <2>2, <2>5, <4>2
      <4>4. lastIds.last[Place(lastIds.index, len - k)] = log[k]
        BY <2>4, <3>2, <4>1
      <4>5. new[k] = log[k]
        BY <2>1, <3>2
      <4> QED
        BY <4>2, <4>3, <4>4, <4>5
    <3> QED
      BY <2>1, <3>1, <3>2
  <2>7. \A k \in DOMAIN processed'[session'] :
          LET d == Len(processed'[session']) - k IN
          d < MaxLastIds => lastIds'.last[Place(lastIds'.index, d)] = processed'[session'][k]
    BY <2>1, <2>3, <2>6
  <2>8. \A s \in session' + 1 .. MaxSessions : processed'[s] = <<>>
    BY <1>0, <2>1, <2>3 DEF WindowInv
  <2>9. link' # "up" => session' < MaxSessions
    BY <1>0, <2>1 DEF WindowInv
  <2> QED
    BY <2>7, <2>8, <2>9 DEF WindowInv, Place
<1>3. CASE Disconnect \/ CloseCurrentConnection
  BY <1>0, <1>3, PlainSteps DEF WindowInv, Place
<1>4. CASE Reconnect
  <2>1. link' = "up" /\ processed'[session'] = <<>>
        /\ \A s \in session' + 1 .. MaxSessions : processed'[s] = <<>>
    BY <1>4, PlainSteps, ReconnectIsFresh
  <2>2. DOMAIN processed'[session'] = {}
    BY <2>1
  <2> QED
    BY <2>1, <2>2 DEF WindowInv
<1> QED
  <2>1. ASSUME NEW i \in Ids, BecomeOverdue(i) PROVE WindowInv'
    BY <1>0, <1>1, <2>1, OverdueIsSet
  <2>2. CASE SendPacket \/ SendPacketFails \/ AddToPendingQueue \/ RemoveFromPendingQueue
    BY <1>0, <1>1, <2>2, RequestIsSent, EntryIsMade, AckIsTaken
  <2>3. CASE CheckTimedOut
    BY <1>1, <2>3, CheckCases
  <2>4. CASE ResendMessage
    BY <1>0, <1>1, <2>4, CopyIsResent
  <2>5. CASE GetActiveSocket \/ CollectTimedOut \/ IgnorePacket \/ UNCHANGED vars
    BY <1>1, <2>5, PlainSteps
  <2> QED
    BY <1>2, <1>3, <1>4, <2>1, <2>2, <2>3, <2>4, <2>5 DEF Next

\* An id among the last MaxLastIds of the session is found in the ring.
LEMMA RecentIsDuplicate ==
  ASSUME TypeOK, WindowInv, NEW k \in DOMAIN processed[session],
         Len(processed[session]) - k < MaxLastIds
  PROVE  IsDuplicate(processed[session][k])
<1> DEFINE d == Len(processed[session]) - k
<1>1. processed[session] \in Seq(Ids) /\ lastIds.index \in 0 .. MaxLastIds - 1
  BY DEF TypeOK
<1>2. d \in Nat /\ d < MaxLastIds
  BY <1>1, LenProperties
<1>3. lastIds.last[Place(lastIds.index, d)] = processed[session][k]
  BY DEF WindowInv
<1> HIDE DEF d
<1>4. Place(lastIds.index, d) \in 0 .. MaxLastIds - 1
  BY <1>1, <1>2, RingPlaces
<1> QED
  BY <1>3, <1>4 DEF IsDuplicate

\* Each step keeps the promises of one session.
LEMMA NextOncePerWindow ==
  ASSUME IInv, [Next]_vars
  PROVE  AckedWasProcessed' /\ OncePerWindow'
<1>0. /\ TypeOK /\ WindowInv /\ AckedWasProcessed /\ OncePerWindow
      /\ (resending # 0 => attempts[resending] <= MaxRetries)
  BY DEF IInv, TriesInv, AnsweredOnce
<1>1. CASE /\ processed' = processed
           /\ acknowledged' \cup ToSet(toClient') \subseteq acknowledged \cup ToSet(toClient)
  BY <1>0, <1>1 DEF AckedWasProcessed, OncePerWindow
<1>2. CASE ProcessRequest
  <2> DEFINE id == Head(toServer)
             log == processed[session]
             new == Append(log, id)
             len == Len(log)
  <2>1. /\ len \in Nat /\ DOMAIN log = 1 .. len
        /\ DOMAIN new = 1 .. len + 1
        /\ \A k \in 1 .. len : new[k] = log[k]
        /\ new[len + 1] = id /\ ~IsDuplicate(id)
        /\ ToSet(new) = ToSet(log) \cup {id}
        /\ processed' = [processed EXCEPT ![session] = new]
    BY <1>0, <1>2, RequestIsProcessed
  <2>2. acknowledged' = acknowledged /\ ToSet(toClient') = ToSet(toClient) \cup {id}
    BY <1>0, <1>2, RequestIsProcessed
  <2>3. session \in 1 .. MaxSessions /\ DOMAIN processed = 1 .. MaxSessions
    BY <1>0 DEF TypeOK
  <2> HIDE DEF new
  <2>4. processed'[session] = new /\ \A s \in 1 .. MaxSessions \ {session} : processed'[s] = processed[s]
    BY <2>1, <2>3
  <2>5. \A k \in 1 .. len : len - k < MaxLastIds => log[k] # id
    BY <1>0, <2>1, RecentIsDuplicate
  <2>6. \A i, j \in 1 .. len : i < j /\ log[i] = log[j] => j - i > MaxLastIds
    BY <1>0, <2>1, <2>3 DEF OncePerWindow
  <2> HIDE DEF id, log, len
  <2>7. ASSUME NEW i \in 1 .. len + 1, NEW j \in 1 .. len + 1, i < j, new[i] = new[j]
        PROVE  j - i > MaxLastIds
    <3>1. i \in 1 .. len /\ new[i] = log[i]
      BY <2>1, <2>7
    <3>2. CASE j \in 1 .. len
      BY <2>1, <2>6, <2>7, <3>1, <3>2
    <3>3. CASE j = len + 1
      <4>1. log[i] = id
        BY <2>1, <2>7, <3>1, <3>3
      <4>2. ~(len - i < MaxLastIds)
        BY <2>5, <3>1, <4>1
      <4> QED
        BY <2>1, <3>1, <3>3, <4>2, DeliveryAssumption
    <3> QED
      BY <2>1, <3>2, <3>3
  <2>8. OncePerWindow'
    <3>1. ASSUME NEW s \in 1 .. MaxSessions, NEW i \in DOMAIN processed'[s],
                 NEW j \in DOMAIN processed'[s], i < j, processed'[s][i] = processed'[s][j]
          PROVE  j - i > MaxLastIds
      <4>1. CASE s = session
        BY <2>1, <2>4, <2>7, <3>1, <4>1
      <4>2. CASE s # session
        BY <1>0, <2>4, <3>1, <4>2 DEF OncePerWindow
      <4> QED
        BY <4>1, <4>2
    <3> QED
      BY <3>1 DEF OncePerWindow
  <2>9. AckedWasProcessed'
    <3>1. \A s \in 1 .. MaxSessions : ToSet(processed[s]) \subseteq ToSet(processed'[s])
      BY <2>1, <2>4 DEF log
    <3>2. id \in ToSet(processed'[session])
      BY <2>1, <2>4
    <3>3. \A a \in acknowledged \cup ToSet(toClient) :
             \E s \in 1 .. MaxSessions : a \in ToSet(processed[s])
      BY <1>0 DEF AckedWasProcessed
    <3>4. \A a \in acknowledged' \cup ToSet(toClient') :
             \E s \in 1 .. MaxSessions : a \in ToSet(processed'[s])
      BY <2>2, <2>3, <3>1, <3>2, <3>3
    <3> QED
      BY <3>4 DEF AckedWasProcessed
  <2> QED
    BY <2>8, <2>9
<1> QED
  <2>1. ASSUME NEW i \in Ids, BecomeOverdue(i) PROVE AckedWasProcessed' /\ OncePerWindow'
    BY <1>0, <1>1, <2>1, OverdueIsSet
  <2>2. CASE SendPacket \/ SendPacketFails \/ AddToPendingQueue \/ RemoveFromPendingQueue
    BY <1>0, <1>1, <2>2, RequestIsSent, EntryIsMade, AckIsTaken
  <2>3. CASE CheckTimedOut
    BY <1>1, <2>3, CheckCases
  <2>4. CASE ResendMessage
    BY <1>0, <1>1, <2>4, CopyIsResent
  <2>5. CASE GetActiveSocket \/ CollectTimedOut \/ IgnorePacket \/ Disconnect \/ CloseCurrentConnection \/ Reconnect \/ UNCHANGED vars
    BY <1>1, <2>5, PlainSteps, ToSetEmpty
  <2> QED
    BY <1>2, <2>1, <2>2, <2>3, <2>4, <2>5 DEF Next

\* Each step keeps what is asked again after a reconnection among the two exceptions.
LEMMA NextRepeated ==
  ASSUME IInv, [Next]_vars
  PROVE  RepeatInv' /\ RepeatedWhy'
<1>0. /\ TypeOK /\ IdsInv /\ RepeatInv /\ RepeatedWhy
      /\ acknowledged \cap DOMAIN pendingQueue \subseteq early
      /\ (resending # 0 => attempts[resending] <= MaxRetries)
  BY DEF IInv, AnsweredOnce, EarlyInv, TriesInv
<1>a. /\ 0 \notin acknowledged /\ nextMsgId \notin acknowledged
       /\ session \in 1 .. MaxSessions /\ DOMAIN processed = 1 .. MaxSessions
  BY <1>0 DEF IdsInv, UsedIds, TypeOK
<1> USE DEF RepeatInv, RepeatedWhy
\* Steps that put nothing on the connection and have nothing acted on.
<1>1. CASE /\ UNCHANGED <<session, processed, ackedBefore, acknowledged, early, crossed>>
           /\ toServer' = toServer \/ toServer' = <<>>
           /\ resending' \in {resending, 0} \cup DOMAIN pendingQueue
           /\ link' = link \/ link = "broken" \/ toServer' = <<>>
  <2>1. ToSet(toServer') \subseteq ToSet(toServer)
    BY <1>1, ToSetEmpty
  <2>2. link' # "up" => toServer' = <<>>
    BY <1>0, <1>1
  <2> QED
    BY <1>0, <1>a, <1>1, <2>1, <2>2
<1>2. CASE SendPacket \/ SendPacketFails
  <2>1. /\ ToSet(toServer') \subseteq ToSet(toServer) \cup {nextMsgId}
        /\ link # "up" => toServer' = toServer
        /\ UNCHANGED <<link, session, processed, resending, acknowledged, ackedBefore, early,
                       crossed>>
    BY <1>2, RequestIsSent
  <2> QED
    BY <1>0, <1>a, <2>1
<1>3. CASE RemoveFromPendingQueue
  <2>1. /\ acknowledged' = acknowledged \cup {Head(toClient)} /\ early \subseteq early'
        /\ crossed' = crossed \cup ({Head(toClient)} \cap {resending})
        /\ UNCHANGED <<link, session, processed, resending, toServer, ackedBefore>>
    BY <1>0, <1>3, AckIsTaken
  <2> QED
    BY <1>0, <2>1
<1>4. CASE ResendMessage
  <2>1. /\ ToSet(toServer') \subseteq ToSet(toServer) \cup {resending, Garbage}
                                                   \cup DOMAIN pendingQueue
        /\ link # "up" => toServer' = toServer
        /\ resending' = 0
        /\ UNCHANGED <<link, session, processed, acknowledged, ackedBefore, early, crossed>>
    BY <1>0, <1>4, CopyIsResent
  <2> QED
    BY <1>0, <1>a, <2>1 DEF Garbage
<1>5. CASE ProcessRequest
  <2> DEFINE id == Head(toServer)
             log == processed[session]
  <2>1. toServer # <<>> /\ toServer' = Tail(toServer)
    BY <1>5 DEF ProcessRequest
  <2>2. ToSet(toServer) = ToSet(toServer') \cup {id}
    BY <1>0, <2>1, PacketIsTaken
  <2>3. /\ processed' = [processed EXCEPT ![session] = Append(log, id)]
        /\ ToSet(Append(log, id)) = ToSet(log) \cup {id}
        /\ UNCHANGED <<link, session, resending, acknowledged, ackedBefore, early, crossed>>
    BY <1>0, <1>5, RequestIsProcessed
  <2>4. ToSet(processed'[session']) = ToSet(processed[session]) \cup {id}
    BY <1>a, <2>3
  <2>5. link' = "up"
    BY <1>0, <2>1, <2>3
  <2> HIDE DEF id
  <2> QED
    BY <1>0, <2>2, <2>3, <2>4, <2>5
<1>6. CASE IgnorePacket
  <2>1. /\ toServer # <<>> /\ ToSet(toServer') \subseteq ToSet(toServer)
        /\ UNCHANGED <<link, session, processed, resending, acknowledged, ackedBefore, early,
                       crossed>>
    BY <1>0, <1>6, PlainSteps, PacketIsTaken
  <2> QED
    BY <1>0, <2>1
<1>7. CASE Reconnect
  <2>1. /\ link = "closed" /\ link' = "up" /\ session' = session + 1
        /\ ackedBefore' = acknowledged
        /\ UNCHANGED <<processed, resending, toServer, acknowledged, early, crossed>>
    BY <1>7, PlainSteps
  <2>2. toServer' = <<>> /\ ToSet(toServer') = {}
    BY <1>0, <2>1, ToSetEmpty
  <2>3. processed'[session'] = <<>> /\ ToSet(processed'[session']) = {}
    BY <2>1, ToSetEmpty, ReconnectIsFresh, <1>7
  <2> QED
    BY <1>0, <2>1, <2>2, <2>3
<1> QED
  <2>1. ASSUME NEW i \in Ids, BecomeOverdue(i) PROVE RepeatInv' /\ RepeatedWhy'
    BY <1>0, <1>1, <2>1, OverdueIsSet
  <2>2. CASE AddToPendingQueue \/ GetActiveSocket \/ CollectTimedOut \/ UNCHANGED vars
    BY <1>1, <2>2, EntryIsMade, PlainSteps
  <2>3. CASE CheckTimedOut
    BY <1>1, <2>3, CheckCases
  <2>4. CASE Disconnect \/ CloseCurrentConnection
    BY <1>1, <2>4, PlainSteps
  <2> QED
    BY <1>2, <1>3, <1>4, <1>5, <1>6, <1>7, <2>1, <2>2, <2>3, <2>4 DEF Next

-----------------------------------------------------------------------------
\* The invariant holds in every reachable state, whatever the threads, the
\* connection and the network simulation do.
THEOREM Invariance == Spec => []IInv
<1>1. IInv /\ [Next]_vars => IInv'
  BY NextTypeOK, NextIdsInv, NextTriesInv, NextEarlyInv, NextWindowInv, NextOncePerWindow,
     NextRepeated, NextRequestsAreTried DEF IInv, AnsweredOnce
<1> QED
  BY InitInvariant, <1>1, PTL DEF Spec

\* Ids, counters, the ring and the logs keep their types: the ring's index stays in the
\* ring and no request is tried more than 1 + MaxRetries times.
THEOREM TypeCorrect == Spec => []TypeOK
<1>1. IInv => TypeOK
  BY DEF IInv
<1> QED
  BY Invariance, <1>1, PTL

\* handleClientConnection acknowledges only what it acted on, and acts on a request again
\* only when MaxLastIds others came in between or a session began; then on one whose ACK the
\* client had received only if that overtook the entering or crossed with a retransmission.
THEOREM AnsweredOnceAlways == Spec => []AnsweredOnce
<1>1. IInv => AnsweredOnce
  BY DEF IInv
<1> QED
  BY Invariance, <1>1, PTL

\* timeoutChecker, working on ids collected before the unlock, forgets no request that was
\* sent, gives none up before its last try and deprives none that waits of a try; main forgets
\* a request only when sending it fails on a connection that is gone.
THEOREM RequestsTriedAlways == Spec => []RequestsAreTried
<1>1. IInv => RequestsAreTried
  BY DEF IInv
<1> QED
  BY Invariance, <1>1, PTL

\* A request whose ACK was received is given up only if the ACK overtook its entering.
THEOREM GivenUpAlways == Spec => GivenUpWasNotAcked
<1>1. ASSUME IInv, [Next]_vars
      PROVE  \A id \in abandoned' \ abandoned : id \in acknowledged => id \in early
  <2>0. /\ TypeOK /\ (resending # 0 => attempts[resending] <= MaxRetries)
        /\ acknowledged \cap DOMAIN pendingQueue \subseteq early
    BY <1>1 DEF IInv, TriesInv, EarlyInv
  <2>1. CASE abandoned' \subseteq abandoned \cup DOMAIN pendingQueue
    BY <2>0, <2>1
  <2>2. ASSUME NEW i \in Ids, BecomeOverdue(i) PROVE abandoned' = abandoned
    BY <2>0, <2>2, OverdueIsSet
  <2>3. SendPacket \/ SendPacketFails \/ AddToPendingQueue \/ RemoveFromPendingQueue => abandoned' = abandoned
    BY <1>1, <2>0, RequestIsSent, EntryIsMade, AckIsTaken
  <2>4. CheckTimedOut => abandoned' \subseteq abandoned \cup DOMAIN pendingQueue
    BY CheckCases
  <2>5. ResendMessage => abandoned' = abandoned
    BY <2>0, CopyIsResent
  <2>6. ProcessRequest => abandoned' = abandoned
    BY <2>0, RequestIsProcessed
  <2>7. GetActiveSocket \/ CollectTimedOut \/ IgnorePacket \/ Disconnect \/ CloseCurrentConnection \/ Reconnect \/ UNCHANGED vars
          => abandoned' = abandoned
    BY PlainSteps
  <2> QED
    BY <1>1, <2>1, <2>2, <2>3, <2>4, <2>5, <2>6, <2>7 DEF Next
<1>2. IInv /\ [Next]_vars
        => [\A id \in abandoned' \ abandoned : id \in acknowledged => id \in early]_vars
  BY <1>1
<1> QED
  BY Invariance, <1>2, PTL DEF Spec, GivenUpWasNotAcked

-----------------------------------------------------------------------------
(* PingDiagnostics *)

\* What PingDiagnostics takes from the library is what this module takes from it.
LEMMA SameCardinality == \A S : Ping!Cardinality(S) = Cardinality(S)
BY DEF Cardinality, Ping!Cardinality

LEMMA SameLast == \A q : Ping!Last(q) = Last(q)
BY DEF Last, Ping!Last

\* The counters: never more pings than asked for, and what is counted between the clearings.
StatsInv ==
  /\ stats \in [sent : Nat, received : Nat, rtts : Seq(Ping!Pings), jitters : Seq(Ping!Pings \X Ping!Pings)]
  /\ pc # "ready" => stats.sent + left <= MaxCount
  /\ pc = "record" => left > 0
  /\ pc = "clear records" => stats.sent = 0 /\ stats.received = strays

\* The ids given to pings so far.
PingUsedIds == 1 .. nextMsgId - 1

\* Only those are anywhere, and the one that is being recorded is the last.
PingIdsInv ==
  /\ DOMAIN pingRecords \cup answered \subseteq PingUsedIds
  /\ toServer \in Seq(PingUsedIds) /\ toClient \in Seq(PingUsedIds)
  /\ pc = "record" => unrecordedPing = nextMsgId - 1 /\ unrecordedPing \notin DOMAIN pingRecords

\* A ping whose PONG did not come too early is on record as answered, if it is on record.
AnsweredInv ==
  \A id \in answered \ earlyPongs :
     id # unrecordedPing /\ (id \in DOMAIN pingRecords => pingRecords[id])

\* The invariant: the checked properties, and what they rest on.
PingIInv ==
  Ping!TypeOK /\ StatsInv /\ PingIdsInv /\ AnsweredInv /\ Ping!StatisticsAgree /\ Ping!CountersMatchRecords
-----------------------------------------------------------------------------
\* An empty sequence has no neighbours.
LEMMA NoPairs == Ping!Neighbours(<<>>) = <<>>
<1>1. 1 .. Len(<<>>) - 1 = 1 .. 0
  OBVIOUS
<1>2. Ping!Neighbours(<<>>) \in [1 .. 0 -> {}]
  BY <1>1 DEF Ping!Neighbours
<1>3. Ping!Neighbours(<<>>) \in Seq({}) /\ Len(Ping!Neighbours(<<>>)) = 0
  BY <1>2
<1> QED
  BY <1>3, EmptySeq

\* The invariant holds before the first ping.
LEMMA PingInitInvariant ==
  ASSUME Ping!PingAssumption
  PROVE  Ping!Init => PingIInv
<1> SUFFICES ASSUME Ping!Init PROVE PingIInv
  OBVIOUS
<1>1. pingRecords \in [{} -> BOOLEAN] /\ DOMAIN pingRecords = {}
  BY DEF Ping!Init
<1>2. Ping!TypeOK
  <2>1. pingRecords \in UNION {[S -> BOOLEAN] : S \in SUBSET Ping!Pings}
    <3>1. {} \in SUBSET Ping!Pings
      OBVIOUS
    <3> QED
      BY <1>1, <3>1
  <2>2. /\ stats.sent \in 0 .. MaxCount /\ stats.received \in Nat
        /\ stats.rtts \in Seq(Ping!Pings) /\ stats.jitters \in Seq(Ping!Pings \X Ping!Pings)
        /\ report.lost \in Int
    BY DEF Ping!Init, Ping!NoStats, Ping!NoReport, Ping!PingAssumption
  <2>3. left \in 0 .. MaxCount /\ nextMsgId \in 1 .. MaxPings + 1
    BY DEF Ping!Init, Ping!PingAssumption
  <2>4. toServer \in Seq(Ping!Pings) /\ toClient \in Seq(Ping!Pings)
    BY DEF Ping!Init
  <2>5. pc = "ready" /\ unrecordedPing = 0 /\ connected \in BOOLEAN /\ earlyPongs \subseteq answered
        /\ answered \cup timedOutPings \subseteq Ping!Pings /\ strays \in Nat
    BY DEF Ping!Init
  <2> QED
    BY <2>1, <2>2, <2>3, <2>4, <2>5 DEF Ping!TypeOK
<1>3. StatsInv
  BY DEF Ping!Init, StatsInv, Ping!NoStats
<1>4. PingIdsInv
  BY <1>1 DEF Ping!Init, PingIdsInv, PingUsedIds
<1>5. AnsweredInv
  BY DEF Ping!Init, AnsweredInv
<1>6. Ping!StatisticsAgree
  BY NoPairs DEF Ping!Init, Ping!StatisticsAgree, Ping!NoStats
<1>7. Ping!CountersMatchRecords
  <2>1. {id \in DOMAIN pingRecords : pingRecords[id]} = {} /\ Cardinality({}) = 0
    BY <1>1, FS_EmptySet
  <2> QED
    BY <1>1, <2>1, SameCardinality DEF Ping!Init, Ping!CountersMatchRecords, Ping!NoStats
<1> QED
  BY <1>2, <1>3, <1>4, <1>5, <1>6, <1>7 DEF PingIInv

-----------------------------------------------------------------------------
\* The ids in use are pings, and one ping more uses one id more.
LEMMA UsedIdsGrow ==
  ASSUME Ping!PingAssumption, Ping!TypeOK
  PROVE  /\ PingUsedIds \subseteq Ping!Pings
         /\ nextMsgId \in Ping!Pings /\ nextMsgId' = nextMsgId + 1 =>
              PingUsedIds' = PingUsedIds \cup {nextMsgId} /\ nextMsgId \notin PingUsedIds
         /\ nextMsgId' = nextMsgId => PingUsedIds' = PingUsedIds
<1>1. nextMsgId \in 1 .. MaxPings + 1 /\ MaxPings \in Nat
  BY DEF Ping!TypeOK, Ping!PingAssumption
<1>2. PingUsedIds \subseteq Ping!Pings
  BY <1>1 DEF PingUsedIds, Ping!Pings
<1>3. ASSUME nextMsgId' = nextMsgId + 1
      PROVE  PingUsedIds' = PingUsedIds \cup {nextMsgId} /\ nextMsgId \notin PingUsedIds
  <2>1. PingUsedIds' = 1 .. nextMsgId
    BY <1>1, <1>3 DEF PingUsedIds
  <2>2. nextMsgId \in Nat \ {0}
    BY <1>1
  <2>3. 1 .. nextMsgId = (1 .. nextMsgId - 1) \cup {nextMsgId}
    BY <2>2
  <2>4. nextMsgId \notin 1 .. nextMsgId - 1
    BY <2>2
  <2> QED
    BY <2>1, <2>3, <2>4 DEF PingUsedIds
<1> QED
  BY <1>2, <1>3 DEF PingUsedIds

\* Records are a function on finitely many pings.
LEMMA RecordsAre ==
  ASSUME Ping!PingAssumption, Ping!TypeOK
  PROVE  /\ pingRecords \in [DOMAIN pingRecords -> BOOLEAN]
         /\ DOMAIN pingRecords \subseteq Ping!Pings
         /\ IsFiniteSet(DOMAIN pingRecords)
         /\ IsFiniteSet({id \in DOMAIN pingRecords : pingRecords[id]})
<1>1. PICK S \in SUBSET Ping!Pings : pingRecords \in [S -> BOOLEAN]
  BY DEF Ping!TypeOK
<1>2. IsFiniteSet(Ping!Pings)
  BY FS_Interval DEF Ping!Pings, Ping!PingAssumption
<1> QED
  BY <1>1, <1>2, FS_Subset

\* One element more at the end of a sequence is one pair of neighbours more, unless it is
\* the first element.
LEMMA NeighboursOfAppend ==
  ASSUME NEW S, NEW q \in Seq(S), NEW x \in S
  PROVE  /\ q = <<>> => Ping!Neighbours(Append(q, x)) = Ping!Neighbours(q)
         /\ q # <<>> => Ping!Neighbours(Append(q, x)) = Append(Ping!Neighbours(q), <<Last(q), x>>)
<1> DEFINE r == Append(q, x)
<1>1. Len(q) \in Nat /\ \A i \in 1 .. Len(q) : q[i] \in S
  BY LenProperties
<1>2. /\ Len(r) = Len(q) + 1 /\ r[Len(q) + 1] = x
      /\ \A i \in 1 .. Len(q) : r[i] = q[i]
  BY AppendProperties
<1> HIDE DEF r
<1>3. ASSUME q = <<>> PROVE Ping!Neighbours(r) = Ping!Neighbours(q)
  <2>1. Len(q) = 0
    BY <1>3
  <2>2. 1 .. Len(r) - 1 = {} /\ 1 .. Len(q) - 1 = {}
    BY <1>2, <2>1
  <2> QED
    BY <2>2 DEF Ping!Neighbours
<1>4. ASSUME q # <<>> PROVE Ping!Neighbours(r) = Append(Ping!Neighbours(q), <<Last(q), x>>)
  <2> DEFINE n == Ping!Neighbours(q)
             f == Ping!Neighbours(r)
  <2>1. Len(q) \in Nat \ {0}
    BY <1>1, <1>4, EmptySeq
  <2>2. Last(q) = q[Len(q)] /\ Last(q) \in S
    BY <1>1, <2>1 DEF Last
  <2>3. n \in Seq(S \X S) /\ Len(n) = Len(q) - 1
    BY <1>1, <2>1 DEF Ping!Neighbours
  <2>4. <<Last(q), x>> \in S \X S
    BY <2>2
  <2>5. f = [i \in 1 .. Len(q) |-> <<r[i], r[i + 1]>>]
    BY <1>2, <2>1 DEF Ping!Neighbours
  <2>6. ASSUME NEW i \in 1 .. Len(q) - 1
        PROVE  f[i] = n[i]
    <3>1. i \in 1 .. Len(q) /\ i + 1 \in 1 .. Len(q)
      BY <2>1
    <3>2. r[i] = q[i] /\ r[i + 1] = q[i + 1]
      BY <1>2, <3>1
    <3>3. f[i] = <<r[i], r[i + 1]>>
      BY <2>5, <3>1
    <3>4. n[i] = <<q[i], q[i + 1]>>
      BY DEF Ping!Neighbours
    <3> QED
      BY <3>2, <3>3, <3>4
  <2>7. f[Len(q)] = <<Last(q), x>>
    <3>1. Len(q) \in 1 .. Len(q) /\ f[Len(q)] = <<r[Len(q)], r[Len(q) + 1]>>
      BY <2>1, <2>5
    <3>2. r[Len(q)] = q[Len(q)] /\ r[Len(q) + 1] = x
      BY <1>2, <2>1
    <3> QED
      BY <2>2, <3>1, <3>2
  <2> HIDE DEF n, f
  <2>8. \A i \in 1 .. Len(n) : f[i] = n[i]
    BY <2>3, <2>6
  <2>9. f[Len(n) + 1] = <<Last(q), x>>
    BY <2>1, <2>3, <2>7
  <2>10. [i \in 1 .. Len(n) + 1 |-> f[i]] = Append(n, <<Last(q), x>>)
    BY <2>3, <2>4, <2>8, <2>9, AppendIs
  <2>11. Len(n) + 1 = Len(q)
    BY <2>1, <2>3
  <2>12. [i \in 1 .. Len(n) + 1 |-> f[i]] = f
    BY <2>5, <2>11
  <2> QED
    BY <2>10, <2>12 DEF n, f
<1> QED
  BY <1>3, <1>4 DEF r

\* What the receiver does to the statistics when it counts an answer.
LEMMA SampleAdded ==
  ASSUME PingIInv, NEW id \in Ping!Pings
  PROVE  /\ Ping!WithSample(id) \in [sent : Nat, received : Nat, rtts : Seq(Ping!Pings),
                                 jitters : Seq(Ping!Pings \X Ping!Pings)]
         /\ Ping!WithSample(id).sent = stats.sent
         /\ Ping!WithSample(id).received = stats.received + 1
         /\ Len(Ping!WithSample(id).rtts) = Len(stats.rtts) + 1
         /\ Ping!WithSample(id).jitters = Ping!Neighbours(Ping!WithSample(id).rtts)
<1> DEFINE old == stats.rtts
           new == Append(old, id)
           jits == IF old = <<>> THEN stats.jitters
                   ELSE Append(stats.jitters, <<Last(old), id>>)
<1>1. stats \in [sent : Nat, received : Nat, rtts : Seq(Ping!Pings), jitters : Seq(Ping!Pings \X Ping!Pings)]
  BY DEF PingIInv, StatsInv
<1>2. old \in Seq(Ping!Pings) /\ Len(old) \in Nat /\ \A i \in 1 .. Len(old) : old[i] \in Ping!Pings
  BY <1>1, LenProperties
<1>3. new \in Seq(Ping!Pings) /\ Len(new) = Len(old) + 1
  BY <1>2, AppendProperties
<1>4. jits = Ping!Neighbours(new)
  <2>1. stats.jitters = Ping!Neighbours(old)
    BY DEF PingIInv, Ping!StatisticsAgree
  <2> QED
    BY <1>2, <2>1, NeighboursOfAppend
<1>5. jits \in Seq(Ping!Pings \X Ping!Pings)
  <2>1. ASSUME old # <<>> PROVE <<Last(old), id>> \in Ping!Pings \X Ping!Pings
    BY <1>2, <2>1, EmptySeq DEF Last
  <2> QED
    BY <1>1, <2>1, AppendProperties
<1>6. Ping!WithSample(id) = [stats EXCEPT !.received = @ + 1, !.rtts = new, !.jitters = jits]
  BY <1>1, SameLast DEF Ping!WithSample
<1> HIDE DEF new, jits
<1>7. Ping!WithSample(id) = [sent |-> stats.sent, received |-> stats.received + 1,
                        rtts |-> new, jitters |-> jits]
  BY <1>1, <1>6
<1>8. Ping!WithSample(id) \in [sent : Nat, received : Nat, rtts : Seq(Ping!Pings),
                          jitters : Seq(Ping!Pings \X Ping!Pings)]
  BY <1>1, <1>3, <1>5, <1>7
<1> QED
  BY <1>3, <1>4, <1>7, <1>8

-----------------------------------------------------------------------------
\* Recording a ping, counting an answer, and clearing keep the records a function on pings.
LEMMA RecordsChange ==
  ASSUME Ping!PingAssumption, PingIInv
  PROVE  /\ Ping!RecordPingSent =>
              /\ pingRecords' \in [DOMAIN pingRecords \cup {unrecordedPing} -> BOOLEAN]
              /\ unrecordedPing \in Ping!Pings \ DOMAIN pingRecords
              /\ {id \in DOMAIN pingRecords' : pingRecords'[id]} =
                   {id \in DOMAIN pingRecords : pingRecords[id]}
         /\ \A id \in Ping!Pings : Ping!Counts(id) /\ pingRecords' = Ping!MarkedReceived(id) =>
              /\ pingRecords' \in [DOMAIN pingRecords -> BOOLEAN]
              /\ {i \in DOMAIN pingRecords' : pingRecords'[i]} =
                   {i \in DOMAIN pingRecords : pingRecords[i]} \cup {id}
         /\ Ping!ClearRecords => pingRecords' \in [{} -> BOOLEAN]
<1>1. pingRecords \in [DOMAIN pingRecords -> BOOLEAN]
  BY RecordsAre DEF PingIInv
<1>2. ASSUME Ping!RecordPingSent
      PROVE  /\ pingRecords' \in [DOMAIN pingRecords \cup {unrecordedPing} -> BOOLEAN]
             /\ unrecordedPing \in Ping!Pings \ DOMAIN pingRecords
             /\ {id \in DOMAIN pingRecords' : pingRecords'[id]} =
                  {id \in DOMAIN pingRecords : pingRecords[id]}
  <2>1. unrecordedPing \in Ping!Pings \ DOMAIN pingRecords
    BY <1>2 DEF Ping!RecordPingSent, PingIInv, Ping!TypeOK, PingIdsInv
  <2> QED
    BY <1>1, <1>2, <2>1 DEF Ping!RecordPingSent
<1>3. ASSUME NEW id \in Ping!Pings, Ping!Counts(id), pingRecords' = Ping!MarkedReceived(id)
      PROVE  /\ pingRecords' \in [DOMAIN pingRecords -> BOOLEAN]
             /\ {i \in DOMAIN pingRecords' : pingRecords'[i]} =
                  {i \in DOMAIN pingRecords : pingRecords[i]} \cup {id}
  BY <1>1, <1>3 DEF Ping!Counts, Ping!MarkedReceived
<1>4. ASSUME Ping!ClearRecords PROVE pingRecords' \in [{} -> BOOLEAN]
  <2>1. pingRecords' = <<>>
    BY <1>4 DEF Ping!ClearRecords, Ping!ClearedRecords
  <2>2. <<>> \in [{} -> BOOLEAN]
    OBVIOUS
  <2> QED
    BY <2>1, <2>2
<1> QED
  BY <1>2, <1>3, <1>4

\* The id at the head of a stream is a ping in use.
LEMMA HeadIsUsed ==
  ASSUME NEW T, NEW q \in Seq(T), q # <<>>
  PROVE  Head(q) \in T /\ Tail(q) \in Seq(T)
  BY HeadTailProperties

\* Every step keeps the types.
LEMMA PingNextTypeOK ==
  ASSUME Ping!PingAssumption
  PROVE  PingIInv /\ [Ping!Next]_(Ping!vars) => Ping!TypeOK'
<1> SUFFICES ASSUME PingIInv, [Ping!Next]_(Ping!vars) PROVE Ping!TypeOK'
  OBVIOUS
<1> USE DEF Ping!network, Ping!history
<1>1. Ping!TypeOK /\ StatsInv
  BY DEF PingIInv
<1>2. MaxCount \in Nat \ {0} /\ MaxPings \in Nat
  BY DEF Ping!PingAssumption
<1>numbers. left \in 0 .. MaxCount /\ nextMsgId \in 1 .. MaxPings + 1 /\ stats.sent \in 0 .. MaxCount
  BY <1>1 DEF Ping!TypeOK
<1>3. CASE Ping!ClearStats
  <2>1. stats' = Ping!NoStats /\ left' \in 0 .. MaxCount
    <3>1. stats' = Ping!NoStats /\ left' \in 1 .. MaxCount
      BY <1>3, Zenon DEF Ping!ClearStats, Ping!ClearedStats, Ping!SeriesLengths
    <3> QED
      BY <1>2, <3>1
  <2>2. /\ stats'.sent \in 0 .. MaxCount /\ stats'.received \in Nat
        /\ stats'.rtts \in Seq(Ping!Pings) /\ stats'.jitters \in Seq(Ping!Pings \X Ping!Pings)
    BY <1>2, <2>1 DEF Ping!NoStats
  <2> QED
    BY <1>1, <1>3, <2>1, <2>2 DEF Ping!ClearStats, Ping!TypeOK
<1>4. CASE Ping!ClearRecords
  <2>1. pingRecords' \in UNION {[S -> BOOLEAN] : S \in SUBSET Ping!Pings}
    <3>1. {} \in SUBSET Ping!Pings
      OBVIOUS
    <3> QED
      BY <1>4, <3>1, RecordsChange
  <2> QED
    BY <1>1, <1>4, <2>1 DEF Ping!ClearRecords, Ping!TypeOK
<1>5. CASE Ping!SendPing
  <2>1. nextMsgId \in Ping!Pings /\ nextMsgId' \in 1 .. MaxPings + 1
    <3>1. nextMsgId \in Ping!Pings /\ nextMsgId' = nextMsgId + 1
      BY <1>5 DEF Ping!SendPing
    <3> QED
      BY <1>2, <3>1 DEF Ping!Pings
  <2>2. toServer' \in Seq(Ping!Pings)
    <3>1. toServer \in Seq(Ping!Pings) /\ Append(toServer, nextMsgId) \in Seq(Ping!Pings)
      BY <1>1, <2>1, AppendProperties DEF Ping!TypeOK
    <3>2. toServer' \in {toServer, Append(toServer, nextMsgId)}
      BY <1>5 DEF Ping!SendPing
    <3> QED
      BY <3>1, <3>2
  <2>3. left' \in 0 .. MaxCount
    <3>1. left' = left \/ (left > 0 /\ left' = left - 1)
      BY <1>5 DEF Ping!SendPing
    <3> QED
      BY <1>2, <1>numbers, <3>1
  <2>4. /\ pc' \in {"send", "record"} /\ unrecordedPing' \in Ping!Pings \cup {0}
        /\ unrecordedPing' # 0 <=> pc' = "record"
    <3>1. \/ unrecordedPing' = nextMsgId /\ pc' = "record"
          \/ unrecordedPing' = unrecordedPing /\ pc' = pc /\ pc = "send"
      BY <1>5 DEF Ping!SendPing
    <3>2. unrecordedPing \in Ping!Pings \cup {0} /\ (unrecordedPing # 0 <=> pc = "record")
      BY <1>1 DEF Ping!TypeOK
    <3>3. nextMsgId # 0
      BY <2>1 DEF Ping!Pings
    <3> QED
      BY <2>1, <3>1, <3>2, <3>3
  <2>5. UNCHANGED <<pingRecords, stats, report, connected, toClient, answered, earlyPongs, strays,
                    timedOutPings>>
    BY <1>5 DEF Ping!SendPing
  <2> QED
    BY <1>1, <2>1, <2>2, <2>3, <2>4, <2>5 DEF Ping!TypeOK
<1>6. CASE Ping!RecordPingSent
  <2>1. pingRecords' \in UNION {[S -> BOOLEAN] : S \in SUBSET Ping!Pings}
    <3>1. DOMAIN pingRecords \cup {unrecordedPing} \in SUBSET Ping!Pings
      BY <1>1, <1>6, RecordsAre, RecordsChange
    <3> QED
      BY <1>6, <3>1, RecordsChange
  <2>2. left' \in 0 .. MaxCount
    <3>1. left > 0 /\ left' = left - 1
      BY <1>1, <1>6 DEF Ping!RecordPingSent, StatsInv
    <3> QED
      BY <1>2, <1>numbers, <3>1
  <2>3. stats'.sent \in 0 .. MaxCount /\ stats'.received = stats.received
        /\ stats'.rtts = stats.rtts /\ stats'.jitters = stats.jitters
    <3>1. stats' = [stats EXCEPT !.sent = stats.sent + 1]
      BY <1>6 DEF Ping!RecordPingSent
    <3>2. stats \in [sent : Nat, received : Nat, rtts : Seq(Ping!Pings), jitters : Seq(Ping!Pings \X Ping!Pings)]
          /\ stats.sent + left <= MaxCount /\ left > 0
      BY <1>1, <1>6 DEF Ping!RecordPingSent, StatsInv
    <3>3. stats'.sent = stats.sent + 1 /\ stats'.received = stats.received
          /\ stats'.rtts = stats.rtts /\ stats'.jitters = stats.jitters
      BY <3>1, <3>2
    <3>4. stats.sent + 1 \in 0 .. MaxCount
      BY <1>2, <1>numbers, <3>2
    <3> QED
      BY <3>3, <3>4
  <2> QED
    BY <1>1, <1>6, <2>1, <2>2, <2>3 DEF Ping!RecordPingSent, Ping!TypeOK
<1>7. CASE Ping!ReportTimeouts
  <2>1. DOMAIN pingRecords \subseteq Ping!Pings
    BY <1>1, RecordsAre
  <2> QED
    BY <1>1, <1>2, <1>7, <2>1 DEF Ping!ReportTimeouts, Ping!TypeOK
<1>8. CASE Ping!NetDiag
  <2>1. report'.lost \in Int
    BY <1>1, <1>8 DEF Ping!NetDiag, Ping!Lost, Ping!TypeOK
  <2> QED
    BY <1>1, <1>8, <2>1 DEF Ping!NetDiag, Ping!TypeOK
<1>9. CASE Ping!RecordPongReceived
  <2> DEFINE id == Head(toClient)
  <2>1. id \in Ping!Pings /\ toClient' \in Seq(Ping!Pings)
    BY <1>1, <1>9, HeadIsUsed DEF Ping!RecordPongReceived, Ping!TypeOK
  <2>2. answered' \subseteq Ping!Pings /\ earlyPongs' \subseteq answered' /\ strays' \in Nat
    <3>1. answered' = answered \cup {id} /\ earlyPongs' \in {earlyPongs, earlyPongs \cup {id}}
          /\ strays' \in {strays, strays + 1}
      BY <1>9 DEF Ping!RecordPongReceived
    <3> HIDE DEF id
    <3> QED
      <4>1. answered \subseteq Ping!Pings /\ earlyPongs \subseteq answered /\ strays \in Nat
        BY <1>1 DEF Ping!TypeOK
      <4>2. answered' \subseteq Ping!Pings
        BY <2>1, <3>1, <4>1
      <4>3. earlyPongs' \subseteq answered'
        BY <3>1, <4>1
      <4>4. strays' \in Nat
        BY <3>1, <4>1
      <4> QED
        BY <4>2, <4>3, <4>4
  <2>3. CASE Ping!Counts(id)
    <3>1. pingRecords' = Ping!MarkedReceived(id) /\ stats' = Ping!WithSample(id)
      BY <1>9, <2>3 DEF Ping!RecordPongReceived
    <3> HIDE DEF id
    <3>2. pingRecords' \in UNION {[S -> BOOLEAN] : S \in SUBSET Ping!Pings}
      <4>1. DOMAIN pingRecords \in SUBSET Ping!Pings
        BY <1>1, RecordsAre
      <4> QED
        BY <2>1, <2>3, <3>1, <4>1, RecordsChange
    <3>3. /\ stats'.sent \in 0 .. MaxCount /\ stats'.received \in Nat
          /\ stats'.rtts \in Seq(Ping!Pings) /\ stats'.jitters \in Seq(Ping!Pings \X Ping!Pings)
      BY <1>1, <2>1, <3>1, SampleAdded DEF Ping!TypeOK
    <3> QED
      BY <1>1, <1>9, <2>1, <2>2, <3>2, <3>3 DEF Ping!RecordPongReceived, Ping!TypeOK
  <2>4. CASE ~Ping!Counts(id)
    BY <1>1, <1>9, <2>1, <2>2, <2>4 DEF Ping!RecordPongReceived, Ping!TypeOK
  <2> QED
    BY <2>3, <2>4
<1>10. CASE Ping!AnswerPing
  <2>1. toServer' \in Seq(Ping!Pings) /\ toClient' \in Seq(Ping!Pings)
    BY <1>1, <1>10, HeadIsUsed, AppendProperties DEF Ping!AnswerPing, Ping!TypeOK
  <2> QED
    BY <1>1, <1>10, <2>1 DEF Ping!AnswerPing, Ping!TypeOK
<1>11. CASE Ping!DropPing
  <2>1. toServer' \in Seq(Ping!Pings)
    BY <1>1, <1>11, HeadIsUsed DEF Ping!DropPing, Ping!TypeOK
  <2> QED
    BY <1>1, <1>11, <2>1 DEF Ping!DropPing, Ping!TypeOK
<1>12. CASE Ping!Disconnect
  <2>1. toServer' \in Seq(Ping!Pings) /\ toClient' \in Seq(Ping!Pings) /\ connected' \in BOOLEAN
    <3>1. toServer' = <<>> /\ toClient' = <<>> /\ connected' = FALSE
      BY <1>12 DEF Ping!Disconnect
    <3>2. toServer' \in Seq(Ping!Pings) /\ toClient' \in Seq(Ping!Pings)
      BY <3>1
    <3>3. connected' \in BOOLEAN
      BY <3>1
    <3> QED
      BY <3>2, <3>3
  <2> QED
    BY <1>1, <1>12, <2>1 DEF Ping!Disconnect, Ping!TypeOK
<1>13. CASE Ping!Reconnect
  BY <1>1, <1>13 DEF Ping!Reconnect, Ping!TypeOK
<1>14. CASE UNCHANGED Ping!vars
  BY <1>1, <1>14 DEF Ping!vars, Ping!TypeOK
<1> QED
  BY <1>3, <1>4, <1>5, <1>6, <1>7, <1>8, <1>9, <1>10, <1>11, <1>12, <1>13, <1>14 DEF Ping!Next

\* Every step keeps what is known of the counters and of where main is.
LEMMA NextStatsInv ==
  ASSUME Ping!PingAssumption
  PROVE  PingIInv /\ [Ping!Next]_(Ping!vars) => StatsInv'
<1> SUFFICES ASSUME PingIInv, [Ping!Next]_(Ping!vars) PROVE StatsInv'
  OBVIOUS
<1> USE DEF Ping!network, Ping!history
<1>1. Ping!TypeOK /\ StatsInv
  BY DEF PingIInv
<1>2. MaxCount \in Nat \ {0} /\ left \in 0 .. MaxCount
  BY <1>1 DEF Ping!TypeOK, Ping!PingAssumption
<1> DEFINE Stats == [sent : Nat, received : Nat, rtts : Seq(Ping!Pings), jitters : Seq(Ping!Pings \X Ping!Pings)]
<1>3. CASE Ping!ClearStats
  <2>1. pc' = "clear records" /\ stats' = Ping!NoStats /\ left' \in 1 .. MaxCount /\ strays' = 0
    BY <1>3, Zenon DEF Ping!ClearStats, Ping!ClearedStats, Ping!SeriesLengths
  <2>2. Ping!NoStats \in Stats /\ Ping!NoStats.sent = 0 /\ Ping!NoStats.received = 0
    BY DEF Ping!NoStats
  <2>3. stats'.sent + left' <= MaxCount
    <3>1. stats'.sent = 0
      BY <2>1, <2>2
    <3>2. left' \in 1 .. MaxCount
      BY <2>1
    <3>3. left' \in Nat /\ left' <= MaxCount
      BY <1>2, <3>2
    <3>4. stats'.sent + left' = 0 + left'
      BY <3>1
    <3>5. \A l \in Nat : 0 + l = l
      OBVIOUS
    <3> QED
      BY <3>3, <3>4, <3>5
  <2> QED
    BY <2>1, <2>2, <2>3 DEF StatsInv
<1>4. CASE Ping!ClearRecords
  <2>1. pc' \in {"send", "ready"} /\ UNCHANGED <<stats, left>> /\ pc = "clear records"
    BY <1>4 DEF Ping!ClearRecords
  <2> QED
    BY <1>1, <2>1 DEF StatsInv
<1>5. CASE Ping!SendPing
  <2>1. /\ pc = "send" /\ left > 0 /\ UNCHANGED stats
        /\ pc' \in {"send", "record"}
        /\ left' = left \/ (pc' = "send" /\ left' = left - 1)
    BY <1>5 DEF Ping!SendPing
  <2>2. stats \in Stats /\ stats.sent \in Nat /\ stats.sent + left <= MaxCount
    BY <1>1, <2>1 DEF StatsInv
  <2>3. stats.sent + left' <= MaxCount /\ (pc' = "record" => left' > 0)
    BY <1>2, <2>1, <2>2
  <2> QED
    BY <2>1, <2>2, <2>3 DEF StatsInv
<1>6. CASE Ping!RecordPingSent
  <2>1. /\ pc = "record" /\ pc' = "send" /\ left' = left - 1
        /\ stats' = [stats EXCEPT !.sent = @ + 1]
    BY <1>6 DEF Ping!RecordPingSent
  <2>2. stats' \in Stats /\ stats'.sent = stats.sent + 1
    BY <1>1, <2>1 DEF StatsInv
  <2> QED
    BY <1>1, <1>2, <2>1, <2>2 DEF StatsInv
<1>7. CASE Ping!ReportTimeouts
  <2>1. pc' = "ready" /\ UNCHANGED stats
    BY <1>7 DEF Ping!ReportTimeouts
  <2> QED
    BY <1>1, <2>1 DEF StatsInv
<1>8. CASE Ping!NetDiag
  BY <1>1, <1>8 DEF Ping!NetDiag, StatsInv
<1>9. CASE Ping!RecordPongReceived
  <2> DEFINE id == Head(toClient)
  <2>1. id \in Ping!Pings
    BY <1>1, <1>9, HeadIsUsed DEF Ping!RecordPongReceived, Ping!TypeOK
  <2>2. CASE Ping!Counts(id)
    <3>1. /\ stats' = Ping!WithSample(id) /\ UNCHANGED <<pc, left>>
          /\ strays' = IF pc = "clear records" THEN strays + 1 ELSE strays
      BY <1>9, <2>2 DEF Ping!RecordPongReceived
    <3> HIDE DEF id
    <3>2. stats' \in Stats /\ stats'.sent = stats.sent /\ stats'.received = stats.received + 1
      BY <2>1, <3>1, SampleAdded
    <3> QED
      BY <1>1, <3>1, <3>2 DEF StatsInv
  <2>3. CASE ~Ping!Counts(id)
    <3>1. UNCHANGED <<pc, left, stats, strays>>
      BY <1>9, <2>3 DEF Ping!RecordPongReceived
    <3> QED
      BY <1>1, <3>1 DEF StatsInv
  <2> QED
    BY <2>2, <2>3
<1>10. CASE Ping!AnswerPing \/ Ping!DropPing \/ Ping!Disconnect \/ Ping!Reconnect
  <2>1. UNCHANGED <<pc, left, stats, strays>>
    BY <1>10 DEF Ping!AnswerPing, Ping!DropPing, Ping!Disconnect, Ping!Reconnect
  <2> QED
    BY <1>1, <2>1 DEF StatsInv
<1>11. CASE UNCHANGED Ping!vars
  BY <1>1, <1>11 DEF Ping!vars, StatsInv
<1> QED
  BY <1>3, <1>4, <1>5, <1>6, <1>7, <1>8, <1>9, <1>10, <1>11 DEF Ping!Next

\* No step uses an id that main has not given out.
LEMMA PingNextIdsInv ==
  ASSUME Ping!PingAssumption
  PROVE  PingIInv /\ [Ping!Next]_(Ping!vars) => PingIdsInv'
<1> SUFFICES ASSUME PingIInv, [Ping!Next]_(Ping!vars) PROVE PingIdsInv'
  OBVIOUS
<1> USE DEF Ping!network, Ping!history
<1>1. Ping!TypeOK /\ PingIdsInv
  BY DEF PingIInv
<1>2. CASE Ping!ClearStats \/ Ping!NetDiag \/ Ping!Reconnect \/ Ping!ReportTimeouts \/ UNCHANGED Ping!vars
  <2>1. /\ UNCHANGED <<nextMsgId, unrecordedPing, pingRecords, toServer, toClient, answered>>
        /\ pc' = "record" => pc = "record"
    BY <1>2 DEF Ping!ClearStats, Ping!NetDiag, Ping!Reconnect, Ping!ReportTimeouts, Ping!vars
  <2>2. PingUsedIds' = PingUsedIds
    BY <2>1 DEF PingUsedIds
  <2> QED
    BY <1>1, <2>1, <2>2 DEF PingIdsInv
<1>3. CASE Ping!ClearRecords
  <2>1. /\ UNCHANGED <<nextMsgId, toServer, toClient, answered>>
        /\ pc' # "record"
    BY <1>3 DEF Ping!ClearRecords
  <2>2. PingUsedIds' = PingUsedIds /\ DOMAIN pingRecords' = {}
    BY <1>3, <2>1, RecordsChange DEF PingUsedIds
  <2> QED
    BY <1>1, <2>1, <2>2 DEF PingIdsInv
<1>4. CASE Ping!SendPing
  <2>1. nextMsgId \in Ping!Pings /\ PingUsedIds' = PingUsedIds \cup {nextMsgId} /\ nextMsgId \notin PingUsedIds
    BY <1>1, <1>4, UsedIdsGrow DEF Ping!SendPing
  <2>2. /\ UNCHANGED <<pingRecords, answered, toClient>>
        /\ toServer' \in {toServer, Append(toServer, nextMsgId)}
        /\ pc' = "record" => unrecordedPing' = nextMsgId
        /\ nextMsgId' = nextMsgId + 1
    BY <1>4 DEF Ping!SendPing
  <2>3. toServer \in Seq(PingUsedIds') /\ toClient \in Seq(PingUsedIds')
    BY <1>1, <2>1 DEF PingIdsInv
  <2>4. toServer' \in Seq(PingUsedIds')
    BY <2>1, <2>2, <2>3, AppendProperties
  <2>5. DOMAIN pingRecords' \cup answered' \subseteq PingUsedIds'
    BY <1>1, <2>1, <2>2 DEF PingIdsInv
  <2>6. pc' = "record" => unrecordedPing' = nextMsgId' - 1 /\ unrecordedPing' \notin DOMAIN pingRecords'
    BY <1>1, <2>1, <2>2 DEF PingIdsInv, Ping!Pings
  <2> QED
    BY <2>2, <2>3, <2>4, <2>5, <2>6 DEF PingIdsInv
<1>5. CASE Ping!RecordPingSent
  <2>1. /\ pc = "record" /\ pc' = "send"
        /\ UNCHANGED <<nextMsgId, toServer, toClient, answered>>
        /\ DOMAIN pingRecords' = DOMAIN pingRecords \cup {unrecordedPing}
    BY <1>5 DEF Ping!RecordPingSent
  <2>2. PingUsedIds' = PingUsedIds
    BY <2>1 DEF PingUsedIds
  <2>3. unrecordedPing \in PingUsedIds
    BY <1>1, <1>5, <2>1, RecordsChange DEF PingIdsInv, PingUsedIds, Ping!Pings, Ping!TypeOK
  <2> QED
    BY <1>1, <2>1, <2>2, <2>3 DEF PingIdsInv
<1>6. CASE Ping!RecordPongReceived
  <2> DEFINE id == Head(toClient)
  <2>1. id \in PingUsedIds /\ toClient' \in Seq(PingUsedIds)
    BY <1>1, <1>6, HeadIsUsed DEF Ping!RecordPongReceived, PingIdsInv
  <2>2. /\ UNCHANGED <<pc, nextMsgId, toServer, unrecordedPing>>
        /\ answered' = answered \cup {id}
        /\ DOMAIN pingRecords' = DOMAIN pingRecords
    BY <1>6 DEF Ping!RecordPongReceived, Ping!MarkedReceived
  <2>3. PingUsedIds' = PingUsedIds
    BY <2>2 DEF PingUsedIds
  <2> HIDE DEF id
  <2> QED
    BY <1>1, <2>1, <2>2, <2>3 DEF PingIdsInv
<1>7. CASE Ping!AnswerPing \/ Ping!DropPing
  <2>1. /\ UNCHANGED <<pc, nextMsgId, unrecordedPing, answered, pingRecords>>
        /\ toServer # <<>> /\ toServer' = Tail(toServer)
        /\ toClient' \in {toClient, Append(toClient, Head(toServer))}
    BY <1>7 DEF Ping!AnswerPing, Ping!DropPing
  <2>2. PingUsedIds' = PingUsedIds
    BY <2>1 DEF PingUsedIds
  <2>3. toServer' \in Seq(PingUsedIds) /\ Head(toServer) \in PingUsedIds
    BY <1>1, <2>1, HeadIsUsed DEF PingIdsInv
  <2>4. toClient' \in Seq(PingUsedIds)
    <3>1. toClient \in Seq(PingUsedIds)
      BY <1>1 DEF PingIdsInv
    <3>2. Append(toClient, Head(toServer)) \in Seq(PingUsedIds)
      BY <2>3, <3>1, AppendProperties
    <3> QED
      BY <2>1, <3>1, <3>2
  <2> QED
    BY <1>1, <2>1, <2>2, <2>3, <2>4 DEF PingIdsInv
<1>8. CASE Ping!Disconnect
  <2>1. /\ UNCHANGED <<pc, nextMsgId, unrecordedPing, answered, pingRecords>>
        /\ toServer' = <<>> /\ toClient' = <<>>
    BY <1>8 DEF Ping!Disconnect
  <2>2. PingUsedIds' = PingUsedIds
    BY <2>1 DEF PingUsedIds
  <2>3. toServer' \in Seq(PingUsedIds) /\ toClient' \in Seq(PingUsedIds)
    BY <2>1
  <2> QED
    BY <1>1, <2>1, <2>2, <2>3 DEF PingIdsInv
<1> QED
  BY <1>2, <1>3, <1>4, <1>5, <1>6, <1>7, <1>8 DEF Ping!Next

\* An answer is counted, or came too early, or is of a series before: the ping being
\* recorded was answered only if it came too early.
LEMMA NextAnsweredInv ==
  ASSUME Ping!PingAssumption
  PROVE  PingIInv /\ [Ping!Next]_(Ping!vars) => AnsweredInv'
<1> SUFFICES ASSUME PingIInv, [Ping!Next]_(Ping!vars) PROVE AnsweredInv'
  OBVIOUS
<1> USE DEF Ping!network, Ping!history
<1>1. Ping!TypeOK /\ PingIdsInv /\ AnsweredInv
  BY DEF PingIInv
<1>2. CASE Ping!ClearStats \/ Ping!NetDiag \/ Ping!Reconnect \/ Ping!ReportTimeouts \/ UNCHANGED Ping!vars
           \/ Ping!AnswerPing \/ Ping!DropPing \/ Ping!Disconnect
  <2>1. UNCHANGED <<answered, earlyPongs, unrecordedPing, pingRecords>>
    BY <1>2
      DEF Ping!ClearStats, Ping!NetDiag, Ping!Reconnect, Ping!ReportTimeouts, Ping!vars,
          Ping!AnswerPing, Ping!DropPing, Ping!Disconnect
  <2> QED
    BY <1>1, <2>1 DEF AnsweredInv
<1>3. CASE Ping!ClearRecords
  <2>1. UNCHANGED <<answered, earlyPongs, unrecordedPing>>
    BY <1>3 DEF Ping!ClearRecords
  <2>2. DOMAIN pingRecords' = {}
    BY <1>3, RecordsChange
  <2> QED
    BY <1>1, <2>1, <2>2 DEF AnsweredInv
<1>4. CASE Ping!SendPing
  <2>1. /\ UNCHANGED <<answered, earlyPongs, pingRecords>>
        /\ unrecordedPing' \in {unrecordedPing, nextMsgId}
    BY <1>4 DEF Ping!SendPing
  <2>2. nextMsgId \notin answered
    <3>1. nextMsgId \notin PingUsedIds
      BY <1>1, <1>4, UsedIdsGrow DEF Ping!SendPing
    <3> QED
      BY <1>1, <3>1 DEF PingIdsInv
  <2> QED
    BY <1>1, <2>1, <2>2 DEF AnsweredInv
<1>5. CASE Ping!RecordPingSent
  <2>1. /\ UNCHANGED <<answered, earlyPongs>> /\ unrecordedPing' = 0
        /\ pingRecords' = [id \in DOMAIN pingRecords \cup {unrecordedPing} |->
                             IF id = unrecordedPing THEN FALSE ELSE pingRecords[id]]
    BY <1>5 DEF Ping!RecordPingSent
  <2>2. 0 \notin answered
    <3>1. answered \subseteq Ping!Pings /\ MaxPings \in Nat
      BY <1>1 DEF Ping!TypeOK, Ping!PingAssumption
    <3> QED
      BY <3>1 DEF Ping!Pings
  <2> QED
    BY <1>1, <2>1, <2>2 DEF AnsweredInv
<1>6. CASE Ping!RecordPongReceived
  <2> DEFINE id == Head(toClient)
  <2>1. UNCHANGED unrecordedPing /\ answered' = answered \cup {id}
    BY <1>6 DEF Ping!RecordPongReceived
  <2>2. CASE Ping!Counts(id)
    <3>1. pingRecords' = Ping!MarkedReceived(id) /\ UNCHANGED earlyPongs
      BY <1>6, <2>2 DEF Ping!RecordPongReceived
    <3>2. id \in DOMAIN pingRecords
      BY <2>2 DEF Ping!Counts
    <3>3. id # unrecordedPing
      <4>1. id \in Ping!Pings /\ 0 \notin Ping!Pings
        BY <1>1, <3>2, RecordsAre DEF Ping!Pings, Ping!PingAssumption
      <4>2. unrecordedPing = 0 \/ unrecordedPing \notin DOMAIN pingRecords
        BY <1>1 DEF PingIdsInv, Ping!TypeOK
      <4> QED
        BY <3>2, <4>1, <4>2
    <3> HIDE DEF id
    <3> QED
      BY <1>1, <2>1, <3>1, <3>2, <3>3 DEF AnsweredInv, Ping!MarkedReceived
  <2>3. CASE ~Ping!Counts(id)
    <3>1. UNCHANGED pingRecords /\ earlyPongs' = earlyPongs \cup {id}
      BY <1>6, <2>3 DEF Ping!RecordPongReceived
    <3> HIDE DEF id
    <3> QED
      BY <1>1, <2>1, <3>1 DEF AnsweredInv
  <2> QED
    BY <2>2, <2>3
<1> QED
  BY <1>2, <1>3, <1>4, <1>5, <1>6 DEF Ping!Next

\* Counting an answer keeps the samples together; everything else leaves them alone or
\* clears them.
LEMMA NextStatisticsAgree == PingIInv /\ [Ping!Next]_(Ping!vars) => Ping!StatisticsAgree'
<1> SUFFICES ASSUME PingIInv, [Ping!Next]_(Ping!vars) PROVE Ping!StatisticsAgree'
  OBVIOUS
<1> USE DEF Ping!network, Ping!history
<1>1. Ping!TypeOK /\ StatsInv /\ Ping!StatisticsAgree
  BY DEF PingIInv
<1>2. CASE Ping!ClearStats
  <2>1. stats' = Ping!NoStats
    BY <1>2, Zenon DEF Ping!ClearStats, Ping!ClearedStats
  <2> QED
    BY <2>1, NoPairs DEF Ping!StatisticsAgree, Ping!NoStats
<1>3. CASE Ping!RecordPingSent
  <2>1. stats' = [stats EXCEPT !.sent = @ + 1]
    BY <1>3 DEF Ping!RecordPingSent
  <2>2. stats'.received = stats.received /\ stats'.rtts = stats.rtts
        /\ stats'.jitters = stats.jitters
    BY <1>1, <2>1 DEF StatsInv
  <2> QED
    BY <1>1, <2>2 DEF Ping!StatisticsAgree
<1>4. CASE Ping!RecordPongReceived
  <2> DEFINE id == Head(toClient)
  <2>1. id \in Ping!Pings
    BY <1>1, <1>4, HeadIsUsed DEF Ping!RecordPongReceived, Ping!TypeOK
  <2>2. CASE Ping!Counts(id)
    <3>1. stats' = Ping!WithSample(id)
      BY <1>4, <2>2 DEF Ping!RecordPongReceived
    <3> HIDE DEF id
    <3>2. /\ stats'.received = stats.received + 1
          /\ Len(stats'.rtts) = Len(stats.rtts) + 1
          /\ stats'.jitters = Ping!Neighbours(stats'.rtts)
      BY <2>1, <3>1, SampleAdded
    <3> QED
      BY <1>1, <3>2 DEF Ping!StatisticsAgree
  <2>3. CASE ~Ping!Counts(id)
    <3>1. UNCHANGED stats
      BY <1>4, <2>3 DEF Ping!RecordPongReceived
    <3> QED
      BY <1>1, <3>1 DEF Ping!StatisticsAgree
  <2> QED
    BY <2>2, <2>3
<1>5. CASE Ping!ClearRecords \/ Ping!SendPing \/ Ping!ReportTimeouts \/ Ping!NetDiag \/ Ping!AnswerPing \/ Ping!DropPing
           \/ Ping!Disconnect \/ Ping!Reconnect \/ UNCHANGED Ping!vars
  <2>1. UNCHANGED stats
    BY <1>5
      DEF Ping!ClearRecords, Ping!SendPing, Ping!ReportTimeouts, Ping!NetDiag, Ping!AnswerPing,
          Ping!DropPing, Ping!Disconnect, Ping!Reconnect, Ping!vars
  <2> QED
    BY <1>1, <2>1 DEF Ping!StatisticsAgree
<1> QED
  BY <1>2, <1>3, <1>4, <1>5 DEF Ping!Next

\* Counters and records are changed in pairs.
LEMMA NextCountersMatchRecords ==
  ASSUME Ping!PingAssumption
  PROVE  PingIInv /\ [Ping!Next]_(Ping!vars) => Ping!CountersMatchRecords'
<1> SUFFICES ASSUME PingIInv, [Ping!Next]_(Ping!vars) PROVE Ping!CountersMatchRecords'
  OBVIOUS
<1> USE DEF Ping!network, Ping!history
<1> DEFINE Received == {id \in DOMAIN pingRecords : pingRecords[id]}
<1>1. Ping!TypeOK /\ StatsInv /\ Ping!CountersMatchRecords
  BY DEF PingIInv
<1>2. IsFiniteSet(DOMAIN pingRecords) /\ IsFiniteSet(Received)
  BY <1>1, RecordsAre
<1>3. strays \in Nat /\ stats.sent \in Nat /\ stats.received \in Nat
  BY <1>1 DEF Ping!TypeOK, StatsInv
<1>4. CASE Ping!ClearStats
  <2>1. pc' = "clear records"
    BY <1>4 DEF Ping!ClearStats
  <2> QED
    BY <2>1, SameCardinality DEF Ping!CountersMatchRecords
<1>5. CASE Ping!ClearRecords
  <2>1. UNCHANGED <<stats, strays>> /\ pc = "clear records"
    BY <1>5 DEF Ping!ClearRecords
  <2>2. stats.sent = 0 /\ stats.received = strays
    BY <1>1, <2>1 DEF StatsInv
  <2>3. DOMAIN pingRecords' = {} /\ Received' = {}
    BY <1>5, RecordsChange
  <2>4. Cardinality({}) = 0
    BY FS_EmptySet
  <2>5. stats'.sent = Cardinality(DOMAIN pingRecords')
    BY <2>1, <2>2, <2>3, <2>4
  <2>6. stats'.received = strays' + Cardinality(Received')
    <3>1. Cardinality(Received') = 0
      BY <2>3, <2>4
    <3>2. stats'.received = strays /\ strays' = strays
      BY <2>1, <2>2
    <3> HIDE DEF Received
    <3> QED
      BY <1>3, <3>1, <3>2
  <2> QED
    BY <2>5, <2>6, SameCardinality DEF Ping!CountersMatchRecords
<1>6. CASE Ping!RecordPingSent
  <2>1. /\ pc = "record" /\ UNCHANGED strays
        /\ stats' = [stats EXCEPT !.sent = @ + 1]
    BY <1>6 DEF Ping!RecordPingSent
  <2>2. stats'.sent = stats.sent + 1 /\ stats'.received = stats.received
    BY <1>1, <2>1 DEF StatsInv
  <2>3. /\ DOMAIN pingRecords' = DOMAIN pingRecords \cup {unrecordedPing}
        /\ unrecordedPing \notin DOMAIN pingRecords
        /\ Received' = Received
    BY <1>6, RecordsChange
  <2>4. Cardinality(DOMAIN pingRecords') = Cardinality(DOMAIN pingRecords) + 1
    BY <1>2, <2>3, OneMoreOrLess
  <2> QED
    BY <1>1, <2>1, <2>2, <2>3, <2>4, SameCardinality DEF Ping!CountersMatchRecords
<1>7. CASE Ping!RecordPongReceived
  <2> DEFINE id == Head(toClient)
  <2>1. id \in Ping!Pings /\ UNCHANGED pc
    BY <1>1, <1>7, HeadIsUsed DEF Ping!RecordPongReceived, Ping!TypeOK
  <2>2. CASE Ping!Counts(id)
    <3>1. /\ pingRecords' = Ping!MarkedReceived(id) /\ stats' = Ping!WithSample(id)
          /\ pc # "clear records" => UNCHANGED strays
      BY <1>7, <2>2 DEF Ping!RecordPongReceived
    <3>2. id \notin Received
      BY <2>2 DEF Ping!Counts
    <3> HIDE DEF id
    <3>3. DOMAIN pingRecords' = DOMAIN pingRecords /\ Received' = Received \cup {id}
      BY <2>1, <2>2, <3>1, RecordsChange
    <3>4. stats'.sent = stats.sent /\ stats'.received = stats.received + 1
      BY <2>1, <3>1, SampleAdded
    <3> HIDE DEF Received
    <3>5. Cardinality(Received') = Cardinality(Received) + 1 /\ Cardinality(Received) \in Nat
      BY <1>2, <3>2, <3>3, OneMoreOrLess
    <3>6. ASSUME pc # "clear records"
          PROVE  /\ stats'.sent = Cardinality(DOMAIN pingRecords')
                 /\ stats'.received = strays' + Cardinality(Received')
      <4>1. /\ stats.sent = Cardinality(DOMAIN pingRecords)
            /\ stats.received = strays + Cardinality(Received)
        BY <1>1, <3>6, SameCardinality DEF Ping!CountersMatchRecords, Received
      <4>2. strays' = strays
        BY <3>1, <3>6
      <4> QED
        BY <1>3, <3>3, <3>4, <3>5, <4>1, <4>2
    <3> QED
      BY <2>1, <3>6, SameCardinality DEF Ping!CountersMatchRecords, Received
  <2>3. CASE ~Ping!Counts(id)
    <3>1. UNCHANGED <<stats, strays, pingRecords>>
      BY <1>7, <2>3 DEF Ping!RecordPongReceived
    <3> QED
      BY <1>1, <2>1, <3>1, SameCardinality DEF Ping!CountersMatchRecords
  <2> QED
    BY <2>2, <2>3
<1>8. CASE Ping!SendPing \/ Ping!ReportTimeouts \/ Ping!NetDiag \/ Ping!AnswerPing \/ Ping!DropPing \/ Ping!Disconnect
           \/ Ping!Reconnect \/ UNCHANGED Ping!vars
  <2>1. /\ UNCHANGED <<stats, strays, pingRecords>>
        /\ pc' # "clear records" => pc # "clear records"
    BY <1>8
      DEF Ping!SendPing, Ping!ReportTimeouts, Ping!NetDiag, Ping!AnswerPing, Ping!DropPing,
          Ping!Disconnect, Ping!Reconnect, Ping!vars
  <2> QED
    BY <1>1, <2>1, SameCardinality DEF Ping!CountersMatchRecords
<1> QED
  BY <1>4, <1>5, <1>6, <1>7, <1>8 DEF Ping!Next

-----------------------------------------------------------------------------
\* The inductive invariant holds in every reachable state.
THEOREM PingInvariance ==
  ASSUME Ping!PingAssumption
  PROVE  Ping!Spec => []PingIInv
<1>1. Ping!Init => PingIInv
  BY PingInitInvariant
<1>2. PingIInv /\ [Ping!Next]_(Ping!vars) => PingIInv'
  BY PingNextTypeOK, NextStatsInv, PingNextIdsInv, NextAnsweredInv, NextStatisticsAgree,
       NextCountersMatchRecords
    DEF PingIInv
<1> QED
  BY <1>1, <1>2, PTL DEF Ping!Spec

\* Main, the receiver and the network keep their types; no series is longer than MaxCount.
THEOREM PingTypeCorrect ==
  ASSUME Ping!PingAssumption
  PROVE  Ping!Spec => []Ping!TypeOK
<1>1. PingIInv => Ping!TypeOK
  BY DEF PingIInv
<1> QED
  BY <1>1, PingInvariance, PTL

\* The four statistics describe one set of samples, whatever the receiver does while main
\* clears, sends and prints.
THEOREM SamplesAgree ==
  ASSUME Ping!PingAssumption
  PROVE  Ping!Spec => []Ping!StatisticsAgree
<1>1. PingIInv => Ping!StatisticsAgree
  BY DEF PingIInv
<1> QED
  BY <1>1, PingInvariance, PTL

\* Counters and records agree once both are cleared, but for the answers in between.
THEOREM CountersMatch ==
  ASSUME Ping!PingAssumption
  PROVE  Ping!Spec => []Ping!CountersMatchRecords
<1>1. PingIInv => Ping!CountersMatchRecords
  BY DEF PingIInv
<1> QED
  BY <1>1, PingInvariance, PTL

\* Counters, samples and records agree, for series of any length.
THEOREM StatisticsTrue ==
  ASSUME Ping!PingAssumption
  PROVE  Ping!Spec => []Ping!StatisticsMatchPings
<1>1. Ping!StatisticsAgree /\ Ping!CountersMatchRecords <=> Ping!StatisticsMatchPings
  BY DEF Ping!StatisticsMatchPings
<1> QED
  BY <1>1, SamplesAgree, CountersMatch, PTL

\* /netdiag prints a loss between none and all, unless an answer was counted between the
\* two clearings.
THEOREM LossBounded ==
  ASSUME Ping!PingAssumption
  PROVE  Ping!Spec => Ping!LossInRange
<1>1. ASSUME PingIInv, Ping!NetDiag, strays = 0
      PROVE  report'.lost \in 0 .. report'.sent
  <2> DEFINE Received == {id \in DOMAIN pingRecords : pingRecords[id]}
  <2>1. /\ stats.sent \in Nat /\ stats.received \in Nat
        /\ stats.sent = Cardinality(DOMAIN pingRecords)
        /\ stats.received = 0 + Cardinality(Received)
    BY <1>1, SameCardinality DEF PingIInv, StatsInv, Ping!NetDiag, Ping!CountersMatchRecords
  <2>2. Cardinality(Received) <= Cardinality(DOMAIN pingRecords) /\ Cardinality(Received) \in Nat
    <3>1. Received \subseteq DOMAIN pingRecords /\ IsFiniteSet(DOMAIN pingRecords)
      BY <1>1, RecordsAre DEF PingIInv
    <3> QED
      BY <3>1, FS_Subset, FS_CardinalityType
  <2>3. stats.received <= stats.sent
    BY <2>1, <2>2
  <2>4. report'.sent = stats.sent /\ report'.lost = Ping!Lost
    BY <1>1 DEF Ping!NetDiag
  <2> QED
    BY <2>1, <2>3, <2>4 DEF Ping!Lost
<1>2. PingIInv /\ [Ping!Next]_(Ping!vars) => [Ping!NetDiag /\ strays = 0 => report'.lost \in 0 .. report'.sent]_(Ping!vars)
  BY <1>1
<1> QED
  BY <1>2, PingInvariance, PTL DEF Ping!Spec, Ping!LossInRange

\* A ping is reported as timed out although its PONG came only if the PONG was handled
\* before the ping was recorded.
THEOREM TimeoutsJustified ==
  ASSUME Ping!PingAssumption
  PROVE  Ping!Spec => Ping!TimeoutsAreUnanswered
<1>1. ASSUME PingIInv, Ping!ReportTimeouts
      PROVE  (timedOutPings' \ timedOutPings) \cap answered \subseteq earlyPongs
  BY <1>1 DEF PingIInv, AnsweredInv, Ping!ReportTimeouts
<1>2. PingIInv /\ [Ping!Next]_(Ping!vars) =>
        [Ping!ReportTimeouts => (timedOutPings' \ timedOutPings) \cap answered \subseteq earlyPongs]_(Ping!vars)
  BY <1>1
<1> QED
  BY <1>2, PingInvariance, PTL DEF Ping!Spec, Ping!TimeoutsAreUnanswered

\* What is printed is wrong for no other reason than the two races named.
THEOREM ReportsJustified ==
  ASSUME Ping!PingAssumption
  PROVE  Ping!Spec => Ping!ReportsWhy
  BY LossBounded, TimeoutsJustified DEF Ping!ReportsWhy
==============================================================================
