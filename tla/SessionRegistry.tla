--------------------------- MODULE SessionRegistry ---------------------------
(***************************************************************************)
(* The sessions of lab6/server.cpp.  Each thread of the pool runs          *)
(* handleClientConnection: it takes a descriptor from the connection       *)
(* queue, goes through HELLO and AUTH, enters the user into the table      *)
(* activeUsers, serves requests until BYE or a failed recv, takes the user *)
(* out of the table and closes the descriptor.  The threads share the user *)
(* table (under userLock) and the table of recent message ids, one slot    *)
(* per user (each slot under its own mutex).  An action is what a thread   *)
(* does between two points at which another thread can interfere: one      *)
(* critical section, one unlocked access to shared data, or one blocking   *)
(* recv.                                                                   *)
(*                                                                         *)
(* Left to other modules: how descriptors reach the workers                *)
(* (ConnectionQueue) and what PRIVATE does (OfflineDelivery).              *)
(***************************************************************************)
EXTENDS Integers, FiniteSets, Sequences, SequencesExt

CONSTANTS Workers,     \* the threads of the pool
          Sockets,     \* connection descriptors
          Names,       \* nicknames
          Ids,         \* ids a client gives to the requests of one session
          MaxClients,  \* MAX_CLIENTS, the size of activeUsers and of dedup_table
          MaxLastIds,  \* MAX_LAST_IDS, the ids a slot of dedup_table holds
          NoSocket, NoName

\* The pool is smaller than the user table (10 threads, 100 users); a slot is
\* cleared with zeros, which are not ids (the clients count from 1).
ASSUME RegistryAssumption ==
  /\ IsFiniteSet(Workers)
  /\ MaxClients \in Nat /\ Cardinality(Workers) <= MaxClients
  /\ MaxLastIds \in Nat \ {0}
  /\ 0 \notin Ids
  /\ NoSocket \notin Sockets /\ NoName \notin Names

VARIABLES activeUsers, \* the first totalUsers entries of activeUsers
          dedup,       \* dedup_table; the index of a slot is kept modulo MaxLastIds
          pc,          \* where each worker is in handleClientConnection
          sock,        \* clientSocket of each worker
          nick,        \* newUser.userName
          slot,        \* newUser.dedup_index, the worker's copy
          request      \* the id of the request being processed, 0 if none

\* What the session of each worker has done so far (history, not in the code).
VARIABLES processed,   \* requests acted on
          ignored      \* requests dropped as duplicates

shared == <<activeUsers, dedup>>
history == <<processed, ignored>>
vars == <<shared, pc, sock, nick, slot, request, history>>

Stages == {"idle", "hello", "auth", "checked", "counted", "online", "processing", "marking", "closing"}

\* The stages in which the session is in the user table.
Online == {w \in Workers : pc[w] \in {"online", "processing", "marking"}}

Slots == 0 .. MaxClients - 1
EmptySlot == [last |-> [i \in 0 .. MaxLastIds - 1 |-> 0], index |-> 0]

Entry(w) == [socket |-> sock[w], name |-> nick[w]]

Init ==
  /\ activeUsers = <<>>
  /\ dedup = [k \in Slots |-> EmptySlot]
  /\ pc = [w \in Workers |-> "idle"]
  /\ sock = [w \in Workers |-> NoSocket]
  /\ nick = [w \in Workers |-> NoName]
  /\ slot = [w \in Workers |-> -1]
  /\ request = [w \in Workers |-> 0]
  /\ processed = [w \in Workers |-> {}]
  /\ ignored = [w \in Workers |-> {}]

Goto(w, stage) == pc' = [pc EXCEPT ![w] = stage]

-----------------------------------------------------------------------------
\* removeFromQueue returns a descriptor that no other worker holds.
TakeConnection(w, s) ==
  /\ pc[w] = "idle"
  /\ \A v \in Workers : sock[v] # s
  /\ sock' = [sock EXCEPT ![w] = s]
  /\ Goto(w, "hello")
  /\ UNCHANGED <<shared, nick, slot, request, history>>

\* close(clientSocket) and the locals of the iteration go out of scope.
Leave(w) ==
  /\ Goto(w, "idle")
  /\ sock' = [sock EXCEPT ![w] = NoSocket]
  /\ nick' = [nick EXCEPT ![w] = NoName]
  /\ slot' = [slot EXCEPT ![w] = -1]
  /\ request' = [request EXCEPT ![w] = 0]
  /\ processed' = [processed EXCEPT ![w] = {}]
  /\ ignored' = [ignored EXCEPT ![w] = {}]
  /\ UNCHANGED shared

Hello(w) ==
  /\ pc[w] = "hello"
  /\ Goto(w, "auth")
  /\ UNCHANGED <<shared, sock, nick, slot, request, history>>

\* The peer is gone, or its packet is dropped by the simulation, of the wrong
\* type, or without a usable nickname.
HandshakeFails(w) == pc[w] \in {"hello", "auth"} /\ Leave(w)

IsNicknameTaken(n) == \E i \in DOMAIN activeUsers : activeUsers[i].name = n

\* AUTH arrived; the nickname is looked up under userLock, which is released.
CheckNickname(w, n) ==
  /\ pc[w] = "auth"
  /\ IF IsNicknameTaken(n) THEN Leave(w)
     ELSE /\ nick' = [nick EXCEPT ![w] = n]
          /\ Goto(w, "checked")
          /\ UNCHANGED <<shared, sock, slot, request, history>>

\* Faulty variant: slots counted from one.
DedupIndexFromOne == Len(activeUsers) + 1

DedupIndex == Len(activeUsers)

\* newUser.dedup_index = totalUsers, without the lock.  The read races with the
\* writers of totalUsers; what it can return is the value before or after each
\* of them, which is what interleaving it with their actions gives.
ReadTotalUsers(w) ==
  /\ pc[w] = "checked"
  /\ slot' = [slot EXCEPT ![w] = DedupIndex]
  /\ Goto(w, "counted")
  /\ UNCHANGED <<shared, sock, nick, request, history>>

\* registerUser: a full table would silently leave the user out.
RegisterUser(w) ==
  /\ pc[w] = "counted"
  /\ IF Len(activeUsers) < MaxClients
     THEN /\ activeUsers' = Append(activeUsers, Entry(w))
          /\ dedup' = [dedup EXCEPT ![Len(activeUsers)] = EmptySlot]
     ELSE UNCHANGED shared
  /\ Goto(w, "online")
  /\ UNCHANGED <<sock, nick, slot, request, history>>

-----------------------------------------------------------------------------
IsDuplicate(w, id) == \E i \in 0 .. MaxLastIds - 1 : dedup[slot[w]].last[i] = id

\* The loop received a request that the simulation did not drop.  Requests that
\* are never marked (PING, ACK, PRIVATE without a receiver, unknown types) change
\* nothing here and are left out.
ReceiveRequest(w, id) ==
  /\ pc[w] = "online"
  /\ IF IsDuplicate(w, id)
     THEN /\ ignored' = [ignored EXCEPT ![w] = @ \cup {id}]
          /\ UNCHANGED <<shared, pc, sock, nick, slot, request, processed>>
     ELSE /\ Goto(w, "processing")
          /\ request' = [request EXCEPT ![w] = id]
          /\ UNCHANGED <<shared, sock, nick, slot, history>>

\* TEXT, PRIVATE, LIST or HISTORY is carried out.
ProcessRequest(w) ==
  /\ pc[w] = "processing"
  /\ processed' = [processed EXCEPT ![w] = @ \cup {request[w]}]
  /\ Goto(w, "marking")
  /\ UNCHANGED <<shared, sock, nick, slot, request, ignored>>

\* mark_as_processed and send_ack.
MarkAsProcessed(w) ==
  /\ pc[w] = "marking"
  /\ dedup' = [dedup EXCEPT ![slot[w]] =
                 [last |-> [@.last EXCEPT ![@.index] = request[w]],
                  index |-> (@.index + 1) % MaxLastIds]]
  /\ request' = [request EXCEPT ![w] = 0]
  /\ Goto(w, "online")
  /\ UNCHANGED <<activeUsers, sock, nick, slot, history>>

\* Faulty variant: the shift starts one entry too late.
WithoutUserShiftLate(i) == RemoveAt(activeUsers, IF i < Len(activeUsers) THEN i + 1 ELSE i)

\* Faulty variant: totalUsers is not decreased.
WithoutUserNotCounted(i) == activeUsers

\* The entries behind the i-th move up; their slots of dedup_table do not.
WithoutUser(i) == RemoveAt(activeUsers, i)

\* BYE, or recv failed: unregisterUser removes the first entry with this descriptor.
UnregisterUser(w) ==
  /\ pc[w] = "online"
  /\ \/ \E i \in DOMAIN activeUsers :
          /\ activeUsers[i].socket = sock[w]
          /\ \A j \in 1 .. i - 1 : activeUsers[j].socket # sock[w]
          /\ activeUsers' = WithoutUser(i)
     \/ /\ \A i \in DOMAIN activeUsers : activeUsers[i].socket # sock[w]
        /\ UNCHANGED activeUsers
  /\ Goto(w, "closing")
  /\ UNCHANGED <<dedup, sock, nick, slot, request, history>>

CloseConnection(w) == pc[w] = "closing" /\ Leave(w)

Next == \E w \in Workers :
  \/ \E s \in Sockets : TakeConnection(w, s)
  \/ Hello(w) \/ HandshakeFails(w)
  \/ \E n \in Names : CheckNickname(w, n)
  \/ ReadTotalUsers(w) \/ RegisterUser(w)
  \/ \E id \in Ids : ReceiveRequest(w, id)
  \/ ProcessRequest(w) \/ MarkAsProcessed(w)
  \/ UnregisterUser(w) \/ CloseConnection(w)

Spec == Init /\ [][Next]_vars

-----------------------------------------------------------------------------
TypeOK ==
  /\ activeUsers \in Seq([socket : Sockets, name : Names])
  /\ dedup \in [Slots -> [last : [0 .. MaxLastIds - 1 -> Ids \cup {0}], index : 0 .. MaxLastIds - 1]]
  /\ pc \in [Workers -> Stages]
  /\ sock \in [Workers -> Sockets \cup {NoSocket}]
  /\ nick \in [Workers -> Names \cup {NoName}]
  /\ slot \in [Workers -> Slots \cup {-1}]
  /\ request \in [Workers -> Ids \cup {0}]
  /\ processed \in [Workers -> SUBSET Ids]
  /\ ignored \in [Workers -> SUBSET Ids]

\* The user table holds exactly the sessions in progress, each once: every
\* session has its entry (registerUser never finds the table full), and every
\* entry is of a descriptor whose worker is still serving it.  So a broadcast or
\* a private message is never sent on a descriptor that is closed or has been
\* given to somebody else, and no departed user keeps a nickname taken.
TableMatchesSessions ==
  /\ Len(activeUsers) = Cardinality(Online)
  /\ \A w \in Online : \E i \in DOMAIN activeUsers : activeUsers[i] = Entry(w)
  /\ \A i \in DOMAIN activeUsers : \E w \in Online : activeUsers[i] = Entry(w)
  /\ \A i, j \in DOMAIN activeUsers :
        activeUsers[i].socket = activeUsers[j].socket => i = j

\* A worker that is going to use its slot has one of the first |Workers| slots,
\* although totalUsers was read outside the lock.
SlotsInBounds ==
  \A w \in Workers : pc[w] \in Stages \ {"idle", "hello", "auth", "checked"} =>
     slot[w] \in 0 .. Cardinality(Workers) - 1

\* The table and the slot numbers taken from its length fit the sessions in progress.
RegistryIsRight == TableMatchesSessions /\ SlotsInBounds

\* No two sessions have the same nickname ("Nickname already in use").  The check
\* and the registration are separate critical sections.
UniqueNicknames ==
  \A i, j \in DOMAIN activeUsers : activeUsers[i].name = activeUsers[j].name => i = j

\* "duplicate ignored": what is ignored is a duplicate, that is, a request this
\* session has already acted on.
IgnoredIsDuplicate == \A w \in Workers : ignored[w] \subseteq processed[w]
==============================================================================
