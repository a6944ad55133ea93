# A verification project for the chats of `lab2` to `lab6`

The repository holds six laboratory works on network programming in C++. `lab1`
is a UDP echo; `lab2` to `lab6` are one chat over TCP that grows from lab to lab:
a thread per client and a client with a receiver (`lab2`), a pool of workers and
broadcasts (`lab3`), nicknames and private messages (`lab4`), offline messages and
a history file (`lab5`), acknowledgements, retransmission and a simulation of a
bad network (`lab6`). Each lab is a server, a client and `messages.h`; they share
no code, and what one lab does, the next does differently. There are no tests and
no documentation beyond comments and the texts the programs print.

`lab6` is the core of the project and has most modules. The earlier labs have one
module each, which models what is their own: what `lab6` does as well is modelled
there.

## The system: components, state, operations

`lab6`:

| component | state | operations | shared with |
|---|---|---|---|
| **connection queue** (lab6/server.cpp 49-58, 444-474, 925-948) | ring `items`, `head`, `tail`, `itemCount`; `hasItems`, `hasSpace` | `addToQueue` (main), `removeFromQueue` (10 workers) | main and workers, under `queueMutex` |
| **sessions** (647-863) | locals of each worker: `clientSocket`, `newUser` with its own `dedup_index` | HELLO, AUTH, the request loop, BYE or failed `recv` | |
| **user table** (476-522) | `activeUsers`, `totalUsers` | look-up, `registerUser`, `unregisterUser` | all workers, under `userLock` (one read without) |
| **duplicate slots** (22-30, 193-226) | `dedup_table`: per table position a ring of 32 ids | `init_dedup_for_user`, `is_duplicate`, `mark_as_processed` | all workers, one mutex per slot |
| **offline storage** (539-604) | `pendingMessages` | `queueOfflineMessage`, `deliverPendingMessages` | all workers, under `storageLock` |
| **history** (354-442) | the lines of `history.json` | `saveToHistory`, `updateDeliveryStatus`, `getRecentHistory` | all workers, under `historyLock` |
| **network simulation** (150-191) | three rates | drop, delay, corrupt an incoming packet | |
| **client: retransmission** (client.cpp 97-193, 329-370) | `pendingQueue`: per id a copy, a time and a retry counter | `addToPendingQueue` (main), `removeFromPendingQueue` (receiver), `timeoutChecker` | three threads, under `pendingMutex` |
| **client: ping statistics** (196-297, 493-553) | `pingRecords`, counters, RTT and jitter lists | `/ping`, PONG, `/netdiag` | main and receiver, `pingMutex` and `statsMutex` |
| **client: life cycle** (378-477, 618-773) | `networkSocket`, `isConnected`, `authFailed`, `isRunning` | connect, reconnect, commands, `/quit` | three threads, two locks, two unlocked flags |

`lab2` to `lab5`:

| component | state | operations | shared with |
|---|---|---|---|
| **lab5 server** | as in `lab6`, without acknowledgements and duplicate slots; ids from one counter `nextMessageId` | the same functions; ids of private messages are given by the server | workers; `history.json` outlives the server |
| **lab4 server** | `clients` (vector), `mutexClients` | AUTH, TEXT, PRIVATE, PING, BYE; `sendSystem`, `broadcast` | a thread per connection |
| **lab3 server** | `clientQueue`, `clients` | `run`, `worker`, `handleClient`, `broadcastText` | main and 10 workers |
| **lab3 client** | `sockfd` | `start`, `reconnect`, `receiveLoop` | main and one or two receivers |
| **lab2 server, client** | `running`; a thread per client | handshake, loop, end | main and the receiver of a client |

The accept loop hands descriptors to the workers through the queue; a worker
serves one connection to its end. Workers meet in the user table, the slots, the
storage and the history, each under a lock of its own: no lock spans two of them
except `storageLock`, held while `deliverPendingMessages` sends and updates the
history. Client and server exchange packets of one fixed size; the client sends a
request again until an ACK with its id comes.

What is hard here: the gaps between critical sections (check and registration of
a nickname, look-up and storing of a message, sending and recording of a
request); what is sent outside the lock that others send under; a slot number that
is a table position, while positions change; a descriptor that is used after its
lock was released, and by then is another connection; condition variables with one
signal per item; the rewriting of a file others append to, by a server that may
end at any point; retransmission across reconnections; threads that are to end
while they wait. The complete list, with lines, is `hazards` in `PROJECT.json`;
every property below is there for one or more of them.

What makes each part correct:

- queue: first in first out, nothing lost or doubled, no thread asleep beside
  work, everything accepted served in the end;
- table: exactly the sessions in progress; one session per nickname; slots within
  bounds and used by one session; only real duplicates ignored;
- storage and history: each message in one place; a login gets all that was
  stored; one line per message whose flag is true exactly if it was sent; what a
  restart loses is no more than what was in memory;
- retransmission: acknowledged means acted on; acted on once while the window
  remembers, and not again once acknowledged; nothing forgotten; given up only after
  all tries; never an endless wait;
- ping: the numbers printed belong to one series of pings;
- life cycle: no descriptor lost; connected means registered; connect again as long
  as the user stays; end when he goes;
- sending: messages arrive whole, to those in the table and to nobody else.

Where the code falls short of such a property, the module states what it does keep:
the wrong outcome happens *only* for a cause that the property names. A reader finds
the known deviations by reading these causes. Where a question has several such
parts, each part is defined and commented by itself, and the run checks their
conjunction (named in bold below).

## Modules

| module | what it is |
|---|---|
| `FifoQueue` | abstract: what the connection queue promises |
| `ConnectionQueue` | lab6: the ring with its condition variables; implements `FifoQueue` |
| `SessionRegistry` | lab6: the sessions with the user table and the duplicate slots |
| `Mailbox` | abstract: what private messages and their storage promise |
| `OfflineDelivery` | lab6: private messages, storage and history; implements `Mailbox` |
| `HistoryText` | lab5 and lab6: how the line of an id is found in the history |
| `ReliableDelivery` | lab6: a client and its sessions, ACKs and retransmissions |
| `PingDiagnostics` | lab6: /ping, PONG and /netdiag |
| `ClientLifecycle` | lab6 (and lab5) client: connection, reconnection, end |
| `Lab5Chat` | lab5: messages with vanishing clients and restarts of the server |
| `Lab4Chat` | lab4: nicknames, one mutex, partial sends |
| `Lab3Chat` | lab3: pool, broadcasts, clients with two receivers, restarts |
| `Lab2Session` | lab2: the threads of server and clients, resets and SIGPIPE |
| `VectorOps` | erase and remove_if on the vectors of lab3 and lab4 |
| `DataLemmas` | facts on sequences and cardinalities the proofs share |
| `ServerPoolProofs` | theorems about `ConnectionQueue` and `SessionRegistry` |
| `ClientRequestsProofs` | theorems about `ReliableDelivery` and `PingDiagnostics` |
| `EarlierLabsProofs` | theorems about `Lab4Chat` and `Lab2Session` |
| `OfflineDeliveryProofs`, `ClientLifecycleProofs`, `Lab5ChatProofs`, `Lab3ChatProofs` | theorems about one module each |
| `MC...` | instances for TLC |

An action is everything one thread does between two points where another can
interfere: a critical section, an unlocked access, a blocking call. `pc` values
of a worker name the place it has reached. Definitions called "Faulty variant"
are plausible bugs in the code; nothing uses them. Each was put in the place of
the definition after it, to see that the property it is meant for fails.

### ConnectionQueue

One pass through `addToQueue` or `removeFromQueue` that does not wait is one
action, for it runs under `queueMutex` from end to end; a pass that waits ends
inside `pthread_cond_wait` (`AddToQueueWaits`, `RemoveFromQueueWaits`), and the
thread makes another one after waking, which tests the condition again.
`hasItems` is the set of sleeping workers; a signal removes one of them, if any
(a worker that never slept may still take its item), and wakeups may be spurious.
`accept` returns a descriptor that is not open. The abstract `FifoQueue` has a
sequence and no indices, no condition variables; the refinement maps its `queue`
to the ring's cells from `head` on (`Queued`).

- `OneOwner`: an open descriptor is in one cell, or main's, or one worker's.
- `NoLostWakeup`: while a worker sleeps, at least as many free workers are awake
  as descriptors wait; main sleeps only at a full queue. This is why one signal
  per item is enough.
- `ImplementsFifo`: the refinement.
- **`ConnectionsProgress`** (liveness): `TakenUnlessAllBusy`, a waiting descriptor is
  taken unless all workers are busy; `AcceptedIsServed`, it is served if workers
  keep finishing their sessions.

### SessionRegistry

Each worker goes through HELLO, AUTH, nickname check (under `userLock`), the
unlocked `newUser.dedup_index = totalUsers`, `registerUser` (under `userLock`,
with the clearing of the slot), requests, `unregisterUser`, `close`. The worker's
`slot` is its copy; the table's own `dedup_index` is written and never read, and
is left out. The unlocked read races with the writers of `totalUsers`: its value
is the one before or after each of them. `processed` and `ignored` record what
the session did.

- **`RegistryIsRight`**: `TableMatchesSessions`, the table and the sessions agree, entry
  by entry, which holds because the pool (10) is smaller than the table (100) and because
  `unregisterUser` comes before `close`; `SlotsInBounds`, the unlocked read gives one of
  the first |Workers| slots.
- `UniqueNicknames`, `IgnoredIsDuplicate`: violated, see below.

### OfflineDelivery

One worker per user; `Register` and `Unregister` put the user into and out of the
table (that the table is right is `SessionRegistry`'s subject). A message is
received, its receiver looked up under `userLock`, then sent or stored, then
written to the history. A login takes `storageLock`, scans the vector with the
iterator `cursor`, sends and erases; between these `updateDeliveryStatus` reads
the file and writes it back under `historyLock`. The text search of that function
is modelled by what it does: it finds the first line whose id begins with the
digits of the one looked for (`NumeralPrefix` of `HistoryText`), and gives up if a
brace comes before the flag. Results of sends are not looked at, as in the code.

- `OnePlace`: a private message is with its sender's worker, or stored, or sent,
  exactly one of them and once.
- **`HistoryIsTrue`**: `OneHistoryLine`, one line per message, however rewriting and
  appending mix; `DeliveredWasSent`, a line marked delivered was sent, unless the
  search for another message's id found it (ids are chosen by the clients: they
  coincide, and 1 is found in 10).
- `UndeliveredWhy`: a line of a message that was sent says "false" for one of three
  causes: it was appended after the delivery, it cannot be edited, or the edit went
  to an earlier line.
- `ImplementsMailbox`: the server is a `Mailbox`, which has no locks, stages, iterator or
  file: a message that was written is handed over to a receiver who is present, or
  waits; what waits is delivered in one step, the oldest first, to its receiver while he
  is present. The mapping: a message is in its sender's hands while his worker is at
  "send" or "store"; what waits is the vector, without the message at the iterator while
  a worker is between sending it and erasing it. So the delivery happens at the sending
  (in `ScanMessage`), and waiting for the history file, rewriting it and erasing are
  invisible; so are public messages.
- `StoredIsDelivered`: liveness: what is stored for a user when he logs in is sent to
  him. A message may also be stored for somebody who has just logged in, and then
  waits for his next login.

### ReliableDelivery

The client's three threads on `pendingQueue`, two packet streams that keep order
and are lost with the connection, and the client's sessions with the server, one
after the other, each with its window of ids. `main` tests the connection
(`GetActiveSocket`) and sends afterwards, on the descriptor it got (`sock` is the
session it stood for): if that connection has broken by then, or the receiver has
closed it and perhaps made another, the send may fail (`SendPacketFails`), and then
the id is used, nothing is entered and nobody looks at the result; or it goes
through, on the new connection if the kernel gave the number out again. `link` is
"up", "broken" (the server's end is gone; what it sent can still be read) or
"closed" (by the receiver, `isConnected` is false).

`timeoutChecker` is modelled in its two passes: it collects what is
overdue, then treats one id per critical section; `resendMessage(it->second)`
comes after the lock is released, so when the entry was erased meanwhile, what is
sent is the old content, another entry's, or garbage. Time is `BecomeOverdue`,
which may come at any moment; so `ACK_TIMEOUT_SEC` has no value in the model.
PING, HELLO, AUTH and BYE are never entered into the queue and are left out.
After a reconnection the server's slot is empty and the client's queue is not.
SIGPIPE is not ignored, so a send on a broken connection may also end the program:
then nothing more happens, which takes no action (`PendingEnds` speaks of a program
that goes on).

- **`AnsweredOnce`**: `AckedWasProcessed`, an ACK is only for what was acted on;
  `OncePerWindow`, any MaxLastIds + 1 consecutive requests of a session differ;
  `RepeatedWhy`, a session acts on a request acknowledged before it began only if the
  ACK came before the entry into the queue (`early`) or while the request was being
  sent again (`crossed`). What was acted on but not acknowledged is acted on again
  after a reconnection; that is what the code does.
- **`RequestsAreTried`**: `NoneForgotten`, a request is kept until acknowledged or given
  up, unless its first send failed (`unsent`); `AbandonedAfterAllRetries`, given up only
  after all tries; `WrongCopyOnlyOfAcked`, freed memory is sent only in place of what
  needed no retransmission any more.
- `GivenUpWasNotAcked`: an acknowledged request is given up only if its ACK overtook
  its entry into the queue.
- `PendingEnds`: liveness: every request leaves the queue for good.

### PingDiagnostics

`/ping` clears the statistics under `statsMutex` and the records under `pingMutex`
(two actions), then sends and records each ping (two actions); the receiver handles
PONGs at any point between. A function that takes `statsMutex` inside `pingMutex`
is one action. Times are represented by the samples: a RTT by its ping, a jitter by
the two pings compared.

- **`StatisticsMatchPings`**: `StatisticsAgree`, the four statistics describe one set of
  samples; `CountersMatchRecords`, counters and records agree again after both
  clearings, but for the PONGs between them (`strays`).
- **`ReportsWhy`**: `LossInRange`, a negative loss is printed only after such a PONG;
  `TimeoutsAreUnanswered`, a ping is reported as timed out although its PONG came
  only if the PONG was handled before the ping was recorded.

### ClientLifecycle

`main`, the receiver and `timeoutChecker`, as far as they use `networkSocket`,
`isConnected`, `isRunning` and `authFailed`. The kernel is modelled: `file` says
which connection a descriptor stands for, the smallest free one is given out next,
and a thread blocked in `recv` keeps its connection open (`reading`) although another
closes the descriptor. The server's end is a state machine per connection that may
drop packets, refuse the nickname, broadcast as soon as the client is registered,
crash and start again; at "hello" it waits for one of the ten workers, each of which
stays with one client for a whole session. Killing the client by SIGPIPE is `Killed`.

- `NoneLeaked`: open descriptors are `networkSocket` or being connected; the
  exception is the end of input (`wish` is then "eof"), which leaves `isRunning` set:
  it may cost one descriptor, and never a second.
- **`HandshakeIsRead`**: `ConnectedWasAccepted`, connected means registered by the
  server; `RefusedOrStale`, the client gives up only if refused, or if a thread sent
  with the number of the previous connection between HELLO and AUTH of the new one.
- `QuitEnds`: liveness; the exceptions are a receiver that stays blocked on a connection
  from before whose BYE was dropped or never sent (`WaitsOn`), or in a new attempt for
  which no worker is ever free (`WaitsForWorker`; client.cpp 417 waits without limit,
  and `main` joins the receiver at 768).
- `ReconnectsOrEnds`: liveness; the exception is `WaitsForWorker`.

### Lab5Chat

The message handling of `OfflineDelivery` in its `lab5` form, with what that
module leaves out: `present` is the set of users whose client is there, which the
server notices only when it receives; `Crash` ends the server at any point
(SIGPIPE is not ignored) and starts it again with what `Started` sets up, and
`history.json` is empty between the opening and the writing in `updateDeliveryStatus`.
The search for a line is the one of `OfflineDelivery` (`ToMark`), but ids are counted
by the server and begin at 1 in each run: an id finds the lines of ids it begins, of
this run or an earlier one, and its own in an earlier one.

- `StoredIsKept`: what a sender was told is stored stays so until it is sent.
- **`MessagesOnceInOrder`**: `AtMostOnce`, across restarts too; `OrderKeptUnlessStored`,
  in order, or marked `[OFFLINE]`.
- **`HistoryIsTrue`**: `HistoryKept`, lines are lost only by an end in the middle of a
  rewriting; `DeliveredWasSent`, a line is marked for a message not sent only if another
  one was, in the same or a later run, the search for whose id finds this line.

### Lab4Chat

A thread per descriptor. A message is two parts; a send puts one or both into a
buffer of `Room` parts and blocks while there is no room. `sendSystem`, `broadcast`
and the search for a private receiver hold `mutexClients` while they go through the
vector; replies to the own client are sent without it. Clients are readers: the
first message has to be WELCOME, and parts that do not fit end them.

- **`VectorIsRight`**: `VectorMatchesThreads`, the vector has the threads between
  `push_back` and `erase`, so nothing is sent on a descriptor that was closed or given
  out again; `SameNickOnlyOfRivals`, equal nicknames only if both checks came before
  either entry.
- **`ArrivesWhole`**: `OnlyRepliesInterleave`, parts mix only where one message is a
  reply; `TurnedAwayWhy`, a login fails only if refused, or because another thread sent
  to the newcomer before WELCOME.
- **`NobodyBlocksForEver`** (liveness, as long as clients read): `MutexIsReleased`, and
  `GoneIsClosed`, the thread of a client that is gone ends.

### Lab3Chat

Pool and queue of connections; `clients` under `clientsMutex`; messages as a header
and a body, read by two `recv` calls. `broadcastText` sends `sizeof(msg)` bytes, of
which a receiver takes what `length` says: `zeros` stand for the rest, which the
client reads as the next header, of an impossible length. In the client, all threads
use one `sockfd`; `reconnect` closes whatever it is by then. A client whose first
attempt fails has two receivers, started by `reconnect` and by `start`.

- **`PoolIsSound`**: `OneOwner`, connections in the queue or with one worker, the
  vector without duplicates or closed descriptors; `NoLostWakeup`, no worker asleep
  beside work.
- **`ConnectionLossWhy`**: `CutOffWhy`, a client drops a working connection only because
  of the zeros, or with two receivers; `OnlyRetriedLoseConnections`, a connection is
  closed by the wrong thread, or lost while the server still serves it, only with two
  receivers.

### Lab2Session

Server threads and clients with `main` and a receiver that waits in `select` for
100 ms at a time. A connection has two inboxes; a message to a closed end, or a close
with unread data, puts a reset on the way, and a send after it kills the program.

- **`SessionEndsWhy`**: `KilledByTwoAnswers`, a client kills the server only by closing
  with two answers due; `EndedWhy`, a session ends by its user's /quit or with the server.
- `QuitEnds`: liveness.

## Runs and bounds

| run | instance | distinct states | result |
|---|---|---|---|
| `ConnectionQueue` | 3 workers, 5 descriptors, ring of 2: full and empty ring, wrap-around, all workers busy or asleep | 69 thousand | holds |
| `SessionRegistry` | 3 workers, 3 descriptors, 2 nicknames: departures from the front, the middle and the end of the table, with reuse of descriptors | 256 thousand | holds |
| `SessionRegistryNicknames` | 2 workers | until found | `UniqueNicknames` violated |
| `SessionRegistryIgnored` | 2 workers, 2 ids | until found | `IgnoredIsDuplicate` violated |
| `OfflineDelivery` | 3 users; two messages to one receiver, a reply, a public one; two messages with one id, an id found in another, a line that cannot be edited | 172 thousand | holds |
| `ReliableDelivery` | window of 2, 3 requests, 1 retry, 2 connections: the window overflows, a request is sent on a connection that is broken, closed or replaced | 1.5 million | holds |
| `PingDiagnostics` | series of 1 or 2, 4 pings: a late PONG of one series in the next | 187 thousand | holds |
| `ClientLifecycle` | 2 descriptors, 2 connections, 2 packets in flight each way, 2 faults (crash or drop): the connection made after the end of input is lost as well; either exception of `QuitEnds` comes about | 206 thousand | holds |
| `Lab5Chat` | 2 users, a message each way and one to all, one end of the server; the ids 1, 2 and 10 in each run, a line that cannot be edited | 3.1 million | holds |
| `Lab4Chat` | 2 descriptors, 2 nicknames, buffers of 3 parts: a message and a half | 217 thousand | holds |
| `Lab3Chat` | 2 users, 2 workers, 3 connections, 2 restarts or a line typed | 2.9 million (symmetric) | holds |
| `Lab2Session` | 2 users, 2 texts or pings each | 167 thousand | holds |

Symmetry is used only in the runs without liveness whose threads, descriptors
and names are interchangeable. `CHECK_DEADLOCK FALSE` stands only where the system
may stop: `ReliableDelivery` (a user who has made his last request), and
`ClientLifecycle`, `Lab2Session`, `Lab3Chat` (programs that have ended).

The bounds `MaxId`, `MaxSessions`, `MaxPings`, `MaxRequests`, `MaxConns`, `MaxFaults`,
`MaxCrashes` and the sets `Messages` limit how long users, faults and restarts go on,
`MaxPackets` what is in flight (in `ClientLifecycle`, besides HELLO and AUTH), `Ids` the
ids of chat messages in `Lab5Chat` (the packets between them take the others). Why they
are enough: a fault needs a second actor to meet it and a second round to show (the next
login, the next series, the next connection), and every instance has both.

Three of them are tight. In `Lab5Chat`, wrong lines of an earlier run are marked, found
by the same id or by one that begins theirs. For a wrong line of the same run, a message
must be delivered before its own line is written, while one of a third user waits for
somebody absent: three users are too many states, and the theorem covers the case. In
`Lab3Chat` lines are typed only in behaviours without a restart, since both together are
too many states; the two receivers and the zeros come about in either. In `Lab4Chat`, three
descriptors are too many for the liveness check.

## What the checks found

Two properties the code does not have are runs of their own and listed under
`findings`: two sessions can have one nickname (`UniqueNicknames`), and two sessions
can share a slot, so that requests are ignored that were never made
(`IgnoredIsDuplicate`).

The other deviations are the causes named in passing properties, and the runs show
that there are no more than these:

| property | what the code can do |
|---|---|
| `OfflineDelivery!DeliveredWasSent`, `UndeliveredWhy` | a flag in the history is wrong in either direction |
| `NoneForgotten` | a request whose send fails is forgotten, and the user is not told |
| `GivenUpWasNotAcked`, `WrongCopyOnlyOfAcked` | an acknowledged request is sent again and given up; a retransmission reads freed memory |
| `RepeatedWhy` | an acknowledged request is acted on once more after a reconnection |
| `LossInRange`, `TimeoutsAreUnanswered` | a negative loss; an answered ping reported as timed out |
| `NoneLeaked`, `RefusedOrStale`, `ClientLifecycle!QuitEnds` | one more connection after the end of input; a packet sent into the handshake of another connection; a program that does not end after /quit, because it waits for a BYE that was lost or for a worker |
| `Lab5Chat!DeliveredWasSent`, `HistoryKept` | the line of an old message, or of one whose id only begins with the same digits, marked for another; a history lost by a crash |
| `SameNickOnlyOfRivals`, `TurnedAwayWhy`, `OnlyRepliesInterleave` | equal nicknames; a login that fails for a message of another; messages torn apart |
| `CutOffWhy`, `OnlyRetriedLoseConnections` | every short broadcast disconnects its receivers; connections closed by the wrong thread or left behind |
| `KilledByTwoAnswers` | one client ends the server for all |

## Fairness

- `ConnectionQueue`: weak fairness of `AddToQueue` and `RemoveFromQueue(w)`: a
  runnable thread gets the mutex and runs. None for clients, for the end of
  sessions or for spurious wakeups; the end of sessions is an assumption in
  `AcceptedIsServed` itself.
- `OfflineDelivery`, `Lab4Chat`: strong fairness of a thread's next step: the mutexes
  are held for finite time, and a thread that asks again and again gets one. In
  `Lab4Chat` also weak fairness of clients' reading, without which a sender blocks
  for ever: that is the condition under which the properties are claimed. None for
  logins, departures or messages.
- `ReliableDelivery`: weak fairness of the client's threads and of time. None for
  the server, which may drop everything, nor for the connection.
- `ClientLifecycle`: weak fairness of the client's threads, and of a worker of the
  server that has taken the connection and read HELLO (its sends do not block for
  ever as long as the other clients read). None for the taking: the workers may all be
  in sessions, and the connection stays in the queue or the backlog. A server that is
  down is started again. None for the user, for faults or for broadcasts.
- `Lab2Session`: weak fairness of the client's threads (`select` returns after
  100 ms). None for the user or the server.

The other modules state no liveness: what must happen in them is what
`ConnectionQueue` and `OfflineDelivery` show of the same mechanisms.

## Proofs

All for every value of the constants, under the assumptions named in the modules. Every
invariant and every action property that a run checks is a theorem here; what is left to
TLC is liveness.

Three modules prove about two components: they extend one and have the other as an
instance (`Sessions`, `Ping`, `Lab2`), since both use the same short names. A theorem about
the instance speaks of its definitions (`Ping!Spec => []Ping!TypeOK`) and has the instance's
assumption on its constants as a hypothesis, where a theorem about the extended module may
use the assumption as a fact. A variable that both name stands for two things, of which no
theorem mentions more than one.

- `ServerPoolProofs`, about `ConnectionQueue`: the inductive invariant is `TypeOK`, `OneOwner`,
  `NoLostWakeup` and `RingInv` (tail is `itemCount` cells behind head; only a
  worker without a connection sleeps). `OneOwner` alone is not inductive: that a new
  descriptor does not overwrite a waiting one needs the place of `tail`; nor is
  `NoLostWakeup`, which counts free workers and needs that sleepers are free.
  From it: `TypeCorrect`, `OwnershipIsExclusive`, `WakeupsSuffice`, and
  `Refinement` (`Spec => Fifo!Spec`: `RingSteps` says what each pass does to the
  sequence of waiting descriptors). Assumed: a finite pool, at least one cell.
  `HandsOutFree` joins the two modules: what `removeFromQueue` gives to a worker no other
  worker has, which is what `TakeConnection` of `SessionRegistry` takes for granted.
- `ServerPoolProofs`, about `SessionRegistry`: the invariant is `TypeOK`,
  `TableMatchesSessions`, `SlotsInBounds` and `SessionInv` (a worker that is not idle holds a descriptor of
  its own, a nickname after the check, an id while it carries out a request). The
  key step is `RoomForOneMore`: a worker outside a session leaves room, since the
  table is as long as the number of sessions. Assumed: the pool is finite and not
  larger than the table, the window is not empty, 0 is not an id.
- `ClientRequestsProofs`, about `PingDiagnostics`: for series of any length. The invariant is `TypeOK`,
  `StatisticsAgree`, `CountersMatchRecords`, and three parts that make them inductive:
  `StatsInv` (between the clearings the only answers are strays; what was sent and is
  left is at most MaxCount), `PingIdsInv` (ids on record or in flight are below
  `nextMsgId`; the ping being recorded is not on record, so counter and records grow
  together) and `AnsweredInv` (an answered ping came too early, or is marked, or is of
  a series before). `SampleAdded` is the step that matters: one RTT more is one
  neighbour more. From it: `PingTypeCorrect`, `StatisticsTrue` (of `SamplesAgree` and
  `CountersMatch`) and `ReportsJustified` (of `LossBounded` and `TimeoutsJustified`). Assumed: `MaxCount` is not 0.
- `ClientRequestsProofs`, about `ReliableDelivery`: for any window and number of requests, tries and
  connections. The invariant is `TypeOK`, `AnsweredOnce`, `RequestsAreTried` and five
  parts. `WindowInv` gives the cell of the ring in which each of the last `MaxLastIds`
  ids of the session is, across the wrap-around: without it nothing says that an id the
  ring does not have is not among them, and `OncePerWindow` is not inductive. `TriesInv`
  relates an entry's counter to the tries made at every point of `timeoutChecker`'s two
  passes, between which the entry may go; `IdsInv` says that only ids that were used are
  anywhere, so that the next one is new; `EarlyInv`, that an acknowledged request is in
  the queue only if its ACK overtook its entry; `RepeatInv`, that what is acknowledged is
  neither being sent again nor on the way to a later session, but for the two causes.
  From it: `TypeCorrect`, `AnsweredOnceAlways`, `RequestsTriedAlways`, and the action
  property `GivenUpAlways`. Assumed: a window and a session.
- `OfflineDeliveryProofs`: the invariant is `TypeOK`, `OnePlace`, `HistoryIsTrue` and
  three parts. `LockInv`: the holder of `storageLock` is at an entry of the vector that is
  for its user and was sent, and the holder of `historyLock` has read the file as it still
  is; this is why erasing under the iterator removes the message just sent and why no line
  is overwritten. `HandsInv`: a worker has a message of its own user in its hands exactly
  while it handles it. `OriginInv`: only what was received is anywhere. `MarkedLines` is
  the lemma on the text edit: it changes a flag only in a line the search finds, and
  leaves one it finds only for an earlier one or a brace. From it: `TypeCorrect`,
  `OnePlaceAlways`, `HistoryIsTrueAlways`, and the action property `UndeliveredWhyAlways`.
  `MailboxRefinement` (`Spec => Box!Spec`) needs one invariant more, `ScanInv`: the table
  holds the users that are served, and the scan has left no message of its user behind its
  iterator, which is why the one at the iterator is the oldest. `WaitingStays` says which
  steps the mailbox does not see, `MailboxStep` what each of the others is. Assumed: what
  messages are.
- `Lab5ChatProofs`: for any set of ids and any number of restarts, at any point. The
  invariant is `TypeOK`, `StoredIsKept`, `MessagesOnceInOrder` and five parts. `IdsInv`: ids tell the messages of
  one run apart, and each client's messages get theirs in order. `LockInv` and `HandsInv`
  as before, the latter with the places in which a worker's message cannot be yet;
  from `IdsInv` and `HandsInv` follows that what is sent unmarked is the sender's last.
  `PlaceInv`: of the stored messages, only the one being delivered is in an inbox, so
  that none comes twice. `RecordInv`: `HistoryKept` and `DeliveredWasSent` of the *record*,
  which is the file, or during a rewriting the text about to be written; the file itself
  is empty then, and the two properties alone are not inductive. A line is
  marked for a message just sent, whose id the search found there: its own, or another
  one, of this run, which by `IdsInv` is not earlier than the line's. From it: `TypeCorrect`, `StoredIsKeptAlways`, `OnceInOrderAlways`,
  `HistoryIsTrueAlways`. Assumed: what messages are.
- `ClientLifecycleProofs`: for any number of faults and connections. Two invariants, the
  second resting on the first. `Sound` is `TypeOK`, `FilesInv` (a number a thread holds
  stands for an open descriptor exactly when it should, and no two descriptors for one
  connection) and `SocketInv`: `networkSocket` is `Settled`, that is, the receiver connects
  again only after it was closed. Only main's two-step close unsettles it, at its last
  step, and then either the receiver is about to see `isRunning` cleared, or it was the end
  of input; the next `Publish` loses one descriptor and settles it for good.
  `SomeFree` says that two descriptors are all the client ever needs. `Agreed` is
  `HandshakeIsRead`, `AcceptInv` (what only the registered get, in flight on a connection,
  proves the registration) and `HandshakeInv`: as long as no other thread has sent on it,
  both ends of the new connection agree on how far the handshake has come, so that no
  ERROR but a refusal is on the way. From them: `TypeCorrect`, `NoneLeakedAlways`,
  `HandshakeIsReadAlways`. Assumed: two descriptors.
- `EarlierLabsProofs`, about `Lab4Chat`: for any number of connections, any nicknames and
  buffers of any size. The invariant is `TypeOK`, the four properties and five parts.
  `StageInv`: what a thread sends at each stage, and that it has a receiver only with the
  mutex. `EntryInv`: an entry of the vector is of one thread between `push_back` and
  `erase`, with its nickname, so that erasing by descriptor removes that entry and no
  other. `NickInv`: the rivals are known as soon as both have passed the check, long
  before both are in the vector. `LoginInv`: what is first in the buffer of a client that
  waits for its WELCOME. `HalfInv`: behind the first part of a message that is no reply, its
  sender holds the mutex and is at that very message, so nobody but a reply can follow; the
  property about finished buffers says nothing of the part not yet sent. From it:
  `TypeCorrect`, `VectorIsRightAlways`, `ArrivesWholeAlways`. Assumed: descriptors are
  finitely many numbers, a buffer has room for a message.
- `EarlierLabsProofs`, about `Lab2Session`: for any number of users, texts and pings. The
  invariant is `Linked` (types, and what the programs and the resets on the way know of each
  other: a descriptor is closed exactly when its thread is through, a client that connects
  finds empty inboxes), `ByeInv` (a BYE on the way, or a server that closes while it runs,
  comes from a user who quits) and `OwedInv`, which counts: the answers on the way to a
  client, the one being sent and those asked for are no more than `owed`, and once the client
  has closed, a server's send that was refused counts with them. A second refused send, the
  one that kills, then needs two. From it: `Lab2TypeCorrect`, `SessionEndsWhyAlways`.
  Assumed: finitely many users.
- `Lab3ChatProofs`: for any number of users, workers and connections. Two invariants, the
  second resting on the first. `SoundPool` is the types, `PoolIsSound` and `ServingInv` (a
  worker has a connection unless it looks or waits for one); that the vector is no longer
  than the pool is counted from it. `LossInv` follows a client that never got a second
  receiver: exactly one thread, `Lead`, uses its connection (`OnlyThread`), and may rely on
  certain facts at each of its stages (`StageInv`); on the way to it are whole messages, the
  WELCOME first, unless zeros got between (`StreamInv`). Since `reconnect` and `start` change
  the lead, the parts hold of the two threads in turn. From them: `TypeCorrect`,
  `PoolIsSoundAlways`, `LossHasACause`. Assumed: finite sets of users and workers.
- `DataLemmas`: what `Append`, `\o`, `Tail` and `RemoveAt` do to a sequence, to the set of its
  elements and to its being free of repetitions; how cardinality changes by one element;
  that a set of numbers has a least one; what erasing does to a vector (`KeptAt`).

Every inductive invariant was checked with TLC on the instance of the run before it was
proved.

Only model-checked: liveness (`ConnectionsProgress`, `StoredIsDelivered`, `PendingEnds`,
`QuitEnds`, `ReconnectsOrEnds`, `NobodyBlocksForEver`), which is out of the prover's reach,
and, of course, that the two properties of the violation runs fail.

What the proofs changed in the models:

- In `Lab3Chat`, the stage after a header was a CASE whose first two arms overlap: a receiver
  in the loop that reads WELCOME could, as the standard reading of CASE has it, have gone
  either way, although TLC takes the first arm. The source looks at the type only during the
  handshake; the choice is an IF now, and the runs are as before.
- The type invariants of `Lab2Session`, `Lab3Chat` and `Lab4Chat` left out the domain of
  several variables (TLC finds them anyway) and what is in the buffers; they have both now.
- `Lab3Chat` and `Lab4Chat` erase from their vectors with `KeptAt`, which says where each
  element comes from; `SelectSeq` is defined by recursion, of which nothing can be proved.

The proof of `NoneLeaked` corrected the model: the exception used to be "main is ending and
`isRunning` is set", and did not carry through the induction. TLC then found, with one
fault more, how it fails: after the end of input the receiver connects twice, loses the
second connection and is refused the third time, which clears `isRunning` while the
descriptor of the first is still open. The property now names the end of input and bounds
what it costs, and the run has the second fault.

## Not modelled

- `lab1` (one request and its echo, no state) and the build files.
- The replies to LIST and HISTORY: `getRecentHistory` and `sendUserListResponse` read
  and format text and change nothing but the socket; the text format of history lines
  beyond the search.
- The corruption of payloads by the simulation of `lab6`: it changes no control decision
  except through the nickname of AUTH and the argument of HISTORY. Delays are the
  arbitrary time between steps.
- Partial transfers and blocking sends in `lab5` and `lab6`: `Lab4Chat` has them, for
  the same loop; restarts in `lab6`: `Lab5Chat` has them, for the same storage and file.
- `pthread_mutex_init` on a mutex in use (undefined), and the wrap-around of 32-bit
  counters, which no session reaches.
- In `Lab3Chat`, `zeros` stand for what is left of a structure, whatever its size
  (the client reads at least the length of a header from it, or waits for more); buffers are
  never full there.

## Plan

1. Done: all of the above.
2. Done: a proof of every safety property the runs check.
3. Done for `OfflineDelivery`: the abstract `Mailbox`. Left: a mailbox that forgets when the
   server ends, which `Lab5Chat` would implement.
