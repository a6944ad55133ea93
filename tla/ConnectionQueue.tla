--------------------------- MODULE ConnectionQueue ---------------------------
(***************************************************************************)
(* The connection queue of lab6/server.cpp: the accept loop of main puts   *)
(* client descriptors into a ring buffer, the threads of the worker pool   *)
(* take them out.  addToQueue and removeFromQueue run under queueMutex     *)
(* from their first line to their last, except while they are inside       *)
(* pthread_cond_wait; so one pass through either function that does not    *)
(* wait is one action, and one that waits is two: entering the wait, and   *)
(* the pass made after waking up, which tests the condition again.         *)
(***************************************************************************)
EXTENDS Integers, FiniteSets, Sequences

CONSTANTS Workers,     \* the threads of the pool (THREAD_POOL_SIZE of them)
          Sockets,     \* the descriptors accept() can return
          QueueSize,   \* QUEUE_SIZE
          NoSocket     \* "no descriptor", and the content of an unused cell

ASSUME QueueAssumption ==
  /\ IsFiniteSet(Workers)
  /\ QueueSize \in Nat \ {0}
  /\ NoSocket \notin Sockets

VARIABLES items,       \* TaskQueue.items
          head,        \* TaskQueue.head
          tail,        \* TaskQueue.tail
          itemCount,   \* TaskQueue.itemCount
          hasItems,    \* the workers blocked on the condition hasItems
          hasSpace,    \* is main blocked on the condition hasSpace?
          accepted,    \* clientSocket of main, between accept() and the end of addToQueue
          serving      \* clientSocket of each worker, NoSocket while it has none

ring == <<items, head, tail, itemCount>>
vars == <<items, head, tail, itemCount, hasItems, hasSpace, accepted, serving>>

Cells == 0 .. QueueSize - 1

\* Faulty variant: the indices wrap one cell early.
CellWrapsEarly(c, k) == IF c + k < QueueSize - 1 THEN c + k ELSE 0

\* The cell k places after cell c.
Cell(c, k) == (c + k) % QueueSize

\* The waiting descriptors.
InRing == {items[Cell(head, k)] : k \in 0 .. itemCount - 1}

\* The descriptors that accept() cannot return because they are still open.
OpenSockets == InRing \cup {accepted} \cup {serving[w] : w \in Workers}

Idle == {w \in Workers : serving[w] = NoSocket}

Init ==
  /\ items = [c \in Cells |-> NoSocket]
  /\ head = 0
  /\ tail = 0
  /\ itemCount = 0
  /\ hasItems = {}
  /\ hasSpace = FALSE
  /\ accepted = NoSocket
  /\ serving = [w \in Workers |-> NoSocket]

-----------------------------------------------------------------------------
\* accept() in the loop of main.
Accept(s) ==
  /\ accepted = NoSocket
  /\ s \notin OpenSockets
  /\ accepted' = s
  /\ UNCHANGED <<ring, hasItems, hasSpace, serving>>

\* Faulty variant: the test lets one descriptor too many in.
QueueFullOffByOne == itemCount = QueueSize + 1

QueueFull == itemCount = QueueSize

\* Faulty variant: main is not signalled.
HasSpaceNotSignalled == UNCHANGED hasSpace

\* pthread_cond_signal(&hasSpace): only main ever waits for it.
SignalHasSpace == hasSpace' = FALSE

\* Faulty variant: signal only when the queue was empty.
SignalHasItemsIfEmpty ==
  IF hasItems = {} \/ itemCount > 0 THEN UNCHANGED hasItems
  ELSE \E w \in hasItems : hasItems' = hasItems \ {w}

\* pthread_cond_signal(&hasItems): one blocked worker becomes runnable, if any is.
SignalHasItems ==
  IF hasItems = {} THEN UNCHANGED hasItems
  ELSE \E w \in hasItems : hasItems' = hasItems \ {w}

AddToQueueWaits ==
  /\ accepted # NoSocket
  /\ ~hasSpace
  /\ QueueFull
  /\ hasSpace' = TRUE
  /\ UNCHANGED <<ring, hasItems, accepted, serving>>

AddToQueue ==
  /\ accepted # NoSocket
  /\ ~hasSpace
  /\ ~QueueFull
  /\ items' = [items EXCEPT ![tail] = accepted]
  /\ tail' = Cell(tail, 1)
  /\ itemCount' = itemCount + 1
  /\ SignalHasItems
  /\ accepted' = NoSocket
  /\ UNCHANGED <<head, hasSpace, serving>>

RemoveFromQueueWaits(w) ==
  /\ w \in Idle \ hasItems
  /\ itemCount = 0
  /\ hasItems' = hasItems \cup {w}
  /\ UNCHANGED <<ring, hasSpace, accepted, serving>>

RemoveFromQueue(w) ==
  /\ w \in Idle \ hasItems
  /\ itemCount > 0
  /\ serving' = [serving EXCEPT ![w] = items[head]]
  /\ head' = Cell(head, 1)
  /\ itemCount' = itemCount - 1
  /\ SignalHasSpace
  /\ UNCHANGED <<items, tail, hasItems, accepted>>

\* pthread_cond_wait may return without a signal; the loops test again.
SpuriousWakeup ==
  \/ /\ hasSpace' = FALSE
     /\ hasSpace
     /\ UNCHANGED <<ring, hasItems, accepted, serving>>
  \/ /\ \E w \in hasItems : hasItems' = hasItems \ {w}
     /\ UNCHANGED <<ring, hasSpace, accepted, serving>>

\* The worker leaves its session, by whichever path of handleClientConnection,
\* closes the descriptor and goes back to removeFromQueue.
Close(w) ==
  /\ serving[w] # NoSocket
  /\ serving' = [serving EXCEPT ![w] = NoSocket]
  /\ UNCHANGED <<ring, hasItems, hasSpace, accepted>>

Next ==
  \/ \E s \in Sockets : Accept(s)
  \/ AddToQueueWaits \/ AddToQueue
  \/ \E w \in Workers : RemoveFromQueueWaits(w) \/ RemoveFromQueue(w) \/ Close(w)
  \/ SpuriousWakeup

Spec == Init /\ [][Next]_vars

\* A thread that can take its pass through the queue function eventually does.
\* Nothing is assumed of clients (Accept), of sessions (Close), nor of wakeups
\* that nobody signals.
FairSpec ==
  /\ Spec
  /\ WF_vars(AddToQueue)
  /\ \A w \in Workers : WF_vars(RemoveFromQueue(w))

-----------------------------------------------------------------------------
\* The waiting descriptors in the order in which they will be taken.
Queued == [i \in 1 .. itemCount |-> items[Cell(head, i - 1)]]

Fifo == INSTANCE FifoQueue WITH queue <- Queued

TypeOK ==
  /\ items \in [Cells -> Sockets \cup {NoSocket}]
  /\ head \in Cells
  /\ tail \in Cells
  /\ itemCount \in 0 .. QueueSize
  /\ hasItems \subseteq Workers
  /\ hasSpace \in BOOLEAN
  /\ accepted \in Sockets \cup {NoSocket}
  /\ serving \in [Workers -> Sockets \cup {NoSocket}]

\* Every open descriptor is in one place: one cell of the ring, or main's
\* clientSocket, or the clientSocket of one worker.  So no connection is
\* served by two workers, and none is overwritten in the ring while it waits.
OneOwner ==
  /\ \A j, k \in 0 .. itemCount - 1 :
        items[Cell(head, j)] = items[Cell(head, k)] => j = k
  /\ NoSocket \notin InRing
  /\ accepted \notin InRing
  /\ \A w \in Workers \ Idle :
        /\ serving[w] \notin InRing \cup {accepted}
        /\ \A v \in Workers : serving[v] = serving[w] => v = w

\* No wakeup is lost, although addToQueue and removeFromQueue signal one thread
\* and a thread on its way to the mutex may take the item of a signalled one:
\* while any worker sleeps, enough others are awake to take all that waits, and
\* main sleeps only while the queue is full.
NoLostWakeup ==
  /\ hasItems # {} => itemCount <= Cardinality(Idle \ hasItems)
  /\ hasSpace => QueueFull

\* addToQueue and removeFromQueue implement a bounded queue: connections are
\* handed to the workers in the order in which they were accepted, each once.
ImplementsFifo == Fifo!Spec

\* A connection in the queue is taken out, unless all the workers become busy
\* with sessions: it never waits beside a worker that sleeps.
TakenUnlessAllBusy ==
  \A s \in Sockets : (s \in InRing) ~> (s \notin InRing \/ Idle = {})

\* If every worker keeps finishing its sessions, every connection that was
\* accepted is served, however full the queue was when it came.
AcceptedIsServed ==
  (\A w \in Workers : []<>(serving[w] = NoSocket)) =>
     \A s \in Sockets : (accepted = s) ~> (\E w \in Workers : serving[w] = s)

\* Both hold under weak fairness of addToQueue and removeFromQueue alone, which is all that
\* a mutex and condition variables with one signal per item promise.
ConnectionsProgress == TakenUnlessAllBusy /\ AcceptedIsServed
==============================================================================
