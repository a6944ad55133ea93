---------------------------- MODULE PingDiagnostics ----------------------------
(***************************************************************************)
(* The commands /ping and /netdiag of lab6/client.cpp.  Main sends a       *)
(* series of pings and enters each after it was sent; the receiver thread  *)
(* counts the PONGs.  The records are guarded by pingMutex, the statistics *)
(* by statsMutex.  A function that takes statsMutex inside pingMutex is    *)
(* one action: no other thread sees the moment between the two, except     *)
(* that main may then clear the statistics, which has the same effect as   *)
(* clearing them before.  Clearing both takes two critical sections.       *)
(*                                                                         *)
(* A ping is its message_id.  A RTT sample is the ping it belongs to, a    *)
(* jitter sample the two pings whose RTTs are compared.                    *)
(***************************************************************************)
EXTENDS Integers, FiniteSets, Sequences, SequencesExt

CONSTANTS MaxCount,  \* the largest number of pings in a series, 100 in the code
          MaxPings   \* bound: how many pings are sent altogether

ASSUME PingAssumption == MaxCount \in Nat \ {0} /\ MaxPings \in Nat

Pings == 1 .. MaxPings

VARIABLES
  pc,          \* where main is
  left,        \* pings of the series still to be sent
  unrecorded,  \* the ping that was sent and is not entered yet, 0 if none
  nextMsgId,
  pingRecords, \* received flag of each ping entered
  stats,       \* totalPingsSent, totalPingsReceived, rttHistory, jitterHistory
  report,      \* what /netdiag last printed and saved
  connected,
  toServer, toClient  \* pings and PONGs in flight

\* What has happened so far (history, not in the code).
VARIABLES
  answered,    \* pings whose PONG the receiver has handled
  early,       \* of these, the ones whose PONG found no record
  strays,      \* PONGs of the last series counted since the counters were cleared
  timedOut     \* pings reported as timed out

network == <<connected, toServer, toClient>>
history == <<answered, early, strays, timedOut>>
vars == <<pc, left, unrecorded, nextMsgId, pingRecords, stats, report, network, history>>

NoStats == [sent |-> 0, received |-> 0, rtts |-> <<>>, jitters |-> <<>>]
NoReport == [sent |-> 0, received |-> 0, lost |-> 0]

Init ==
  /\ pc = "ready" /\ left = 0 /\ unrecorded = 0 /\ nextMsgId = 1
  /\ pingRecords = <<>>
  /\ stats = NoStats /\ report = NoReport
  /\ connected = TRUE /\ toServer = <<>> /\ toClient = <<>>
  /\ answered = {} /\ early = {} /\ strays = 0 /\ timedOut = {}

-----------------------------------------------------------------------------
\* Faulty variant: one ping too many is let through.
SeriesLengthsOffByOne == 1 .. MaxCount + 1

\* The number of pings asked for: what is below 1 or too large is replaced.
SeriesLengths == 1 .. MaxCount

\* Faulty variant: the jitter samples are not cleared.
ClearedStatsButJitter == [NoStats EXCEPT !.jitters = stats.jitters]

ClearedStats == NoStats

\* /ping: the statistics of the previous series are cleared under statsMutex ...
ClearStats ==
  /\ pc = "ready"
  /\ pc' = "clear records"
  /\ left' \in SeriesLengths
  /\ stats' = ClearedStats
  /\ strays' = 0
  /\ UNCHANGED <<unrecorded, nextMsgId, pingRecords, report, network, answered, early, timedOut>>

\* Faulty variant: the answered records stay.
ClearedRecordsAnswered == [id \in {i \in DOMAIN pingRecords : pingRecords[i]} |-> TRUE]

ClearedRecords == <<>>

\* ... and the records under pingMutex; without a connection that is all.
ClearRecords ==
  /\ pc = "clear records"
  /\ pingRecords' = ClearedRecords
  /\ pc' = IF connected THEN "send" ELSE "ready"
  /\ UNCHANGED <<left, unrecorded, nextMsgId, stats, report, network, history>>

\* sendPacket: the ping is put on the connection there is (after a reconnection the
\* old descriptor may be the new connection), or the send fails and main goes on.
SendPing ==
  /\ pc = "send" /\ left > 0
  /\ nextMsgId \in Pings
  /\ nextMsgId' = nextMsgId + 1
  /\ \/ /\ toServer' = IF connected THEN Append(toServer, nextMsgId) ELSE toServer
        /\ unrecorded' = nextMsgId
        /\ pc' = "record"
        /\ UNCHANGED left
     \/ /\ left' = left - 1
        /\ UNCHANGED <<unrecorded, pc, toServer>>
  /\ UNCHANGED <<pingRecords, stats, report, connected, toClient, history>>

RecordPingSent ==
  /\ pc = "record"
  /\ pingRecords' = [id \in DOMAIN pingRecords \cup {unrecorded} |->
                       IF id = unrecorded THEN FALSE ELSE pingRecords[id]]
  /\ stats' = [stats EXCEPT !.sent = @ + 1]
  /\ unrecorded' = 0
  /\ left' = left - 1 /\ pc' = "send"
  /\ UNCHANGED <<nextMsgId, report, network, history>>

\* After the three seconds of waiting: whoever has no answer yet is reported.
ReportTimeouts ==
  /\ pc = "send" /\ (left = 0 \/ nextMsgId > MaxPings)
  /\ timedOut' = timedOut \cup {id \in DOMAIN pingRecords : ~pingRecords[id]}
  /\ pc' = "ready" /\ left' = 0
  /\ UNCHANGED <<unrecorded, nextMsgId, pingRecords, stats, report, network,
                 answered, early, strays>>

\* loss_percent, as a number of pings.
Lost == IF stats.sent > 0 THEN stats.sent - stats.received ELSE 0

\* /netdiag: printAndSaveStats, under statsMutex.
NetDiag ==
  /\ pc = "ready"
  /\ report' = [sent |-> stats.sent, received |-> stats.received, lost |-> Lost]
  /\ UNCHANGED <<pc, left, unrecorded, nextMsgId, pingRecords, stats, network, history>>

-----------------------------------------------------------------------------
\* Faulty variant: a PONG is counted whether or not its ping is on record.
CountsAnyway(id) == TRUE

Counts(id) == id \in DOMAIN pingRecords /\ ~pingRecords[id]

\* Faulty variant: the flag is set in a copy of the record.
CopyMarkedReceived(id) == pingRecords

MarkedReceived(id) ==
  [i \in DOMAIN pingRecords |-> pingRecords[i] \/ i = id]

\* One more RTT, and from the second on a jitter.
WithSample(id) ==
  [stats EXCEPT !.received = @ + 1, !.rtts = Append(@, id),
     !.jitters = IF stats.rtts = <<>> THEN @ ELSE Append(@, <<Last(stats.rtts), id>>)]

\* The receiver thread gets a PONG.
RecordPongReceived ==
  /\ toClient # <<>>
  /\ toClient' = Tail(toClient)
  /\ LET id == Head(toClient) IN
     /\ answered' = answered \cup {id}
     /\ \/ /\ Counts(id)
           /\ pingRecords' = MarkedReceived(id)
           /\ stats' = WithSample(id)
           /\ strays' = IF pc = "clear records" THEN strays + 1 ELSE strays
           /\ UNCHANGED early
        \/ /\ ~Counts(id)
           /\ early' = early \cup {id}
           /\ UNCHANGED <<pingRecords, stats, strays>>
  /\ UNCHANGED <<pc, left, unrecorded, nextMsgId, report, connected, toServer, timedOut>>

\* The session answers a ping with a PONG of the same id ...
AnswerPing ==
  /\ toServer # <<>>
  /\ toServer' = Tail(toServer)
  /\ toClient' = Append(toClient, Head(toServer))
  /\ UNCHANGED <<pc, left, unrecorded, nextMsgId, pingRecords, stats, report, connected, history>>

\* ... unless the simulation drops it, or its id is among those of the slot.
DropPing ==
  /\ toServer # <<>>
  /\ toServer' = Tail(toServer)
  /\ UNCHANGED <<pc, left, unrecorded, nextMsgId, pingRecords, stats, report, connected,
                 toClient, history>>

\* The connection is lost with what is in flight, and made again.
Disconnect ==
  /\ connected
  /\ connected' = FALSE /\ toServer' = <<>> /\ toClient' = <<>>
  /\ UNCHANGED <<pc, left, unrecorded, nextMsgId, pingRecords, stats, report, history>>

Reconnect ==
  /\ ~connected
  /\ connected' = TRUE
  /\ UNCHANGED <<pc, left, unrecorded, nextMsgId, pingRecords, stats, report, toServer,
                 toClient, history>>

Next ==
  \/ ClearStats \/ ClearRecords \/ SendPing \/ RecordPingSent \/ ReportTimeouts \/ NetDiag
  \/ RecordPongReceived \/ AnswerPing \/ DropPing \/ Disconnect \/ Reconnect

Spec == Init /\ [][Next]_vars

-----------------------------------------------------------------------------
TypeOK ==
  /\ pc \in {"ready", "clear records", "send", "record"}
  /\ left \in 0 .. MaxCount
  /\ unrecorded \in Pings \cup {0} /\ (unrecorded # 0 <=> pc = "record")
  /\ nextMsgId \in 1 .. MaxPings + 1
  /\ pingRecords \in UNION {[S -> BOOLEAN] : S \in SUBSET Pings}
  /\ stats.sent \in 0 .. MaxCount /\ stats.received \in Nat
  /\ stats.rtts \in Seq(Pings) /\ stats.jitters \in Seq(Pings \X Pings)
  /\ report.lost \in Int
  /\ connected \in BOOLEAN
  /\ toServer \in Seq(Pings) /\ toClient \in Seq(Pings)
  /\ early \subseteq answered /\ answered \cup timedOut \subseteq Pings
  /\ strays \in Nat

\* The pairs of neighbours in a sequence.
Neighbours(s) == [i \in 1 .. Len(s) - 1 |-> <<s[i], s[i + 1]>>]

\* Whatever PONGs come while main clears and sends, the four statistics describe
\* one set of samples: as many RTTs as answers counted, and one jitter for each
\* two neighbours among them.
StatisticsAgree ==
  /\ stats.received = Len(stats.rtts)
  /\ stats.jitters = Neighbours(stats.rtts)

\* The counters and the records, cleared one after the other and guarded by two
\* mutexes, tell the same story again as soon as both are cleared: each ping counted
\* as sent is on record, and each answer counted is one of a ping on record, except
\* for the answers that came between the two clearings.
CountersMatchRecords ==
  pc # "clear records" =>
    /\ stats.sent = Cardinality(DOMAIN pingRecords)
    /\ stats.received = strays + Cardinality({id \in DOMAIN pingRecords : pingRecords[id]})

\* A negative loss is printed only if an answer to the series before was counted
\* between the two clearings; otherwise the loss is between none and all.
LossInRange ==
  [][NetDiag /\ strays = 0 => report'.lost \in 0 .. report'.sent]_vars

\* A ping whose PONG had come is reported as timed out only if the PONG was
\* handled before recordPingSent.
TimeoutsAreUnanswered ==
  [][ReportTimeouts => (timedOut' \ timedOut) \cap answered \subseteq early]_vars

\* What recordPingSent and recordPongReceived enter under three mutexes agrees.
StatisticsMatchPings == StatisticsAgree /\ CountersMatchRecords

\* What /ping and /netdiag print is wrong for one reason each.
ReportsWhy == LossInRange /\ TimeoutsAreUnanswered
==============================================================================
