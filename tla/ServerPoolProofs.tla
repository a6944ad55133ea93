---------------------------- MODULE ServerPoolProofs ----------------------------
(***************************************************************************)
(* Proofs about the pool of the lab6 server: the connection queue          *)
(* (ConnectionQueue, in this module's own names) and the sessions          *)
(* (SessionRegistry, as Sessions!...), for every size of the pool, of the  *)
(* ring and of the tables.  sock of SessionRegistry and serving of         *)
(* ConnectionQueue are one array, the clientSocket of each worker.         *)
(*                                                                         *)
(* The invariant of the queue adds to the properties that the runs check   *)
(* what ties them together: tail is the cell after the last occupied one,  *)
(* and only a worker without a connection sleeps.  That of the sessions    *)
(* adds what each worker knows locally: it holds a descriptor unless it is *)
(* idle, no two workers hold the same one, it has a nickname from the      *)
(* check on, and a request id while it carries one out.                    *)
(***************************************************************************)
EXTENDS ConnectionQueue, DataLemmas

CONSTANTS Names, Ids, MaxClients, MaxLastIds, NoName
VARIABLES activeUsers, dedup, pc, nick, slot, request, processed, ignored

\* A worker serves the descriptor the queue gave it.
Sessions == INSTANCE SessionRegistry WITH sock <- serving

\* The ring is the cells from head on, and only a worker without a connection sleeps.
RingInv ==
  /\ tail = Cell(head, itemCount)
  /\ hasItems \subseteq Idle

\* The invariant of ConnectionQueue: the checked properties, and that.
IInv == TypeOK /\ RingInv /\ OneOwner /\ NoLostWakeup

-----------------------------------------------------------------------------
\* Arithmetic of the ring indices: an index and its wrapped value.
LEMMA CellCases ==
  ASSUME NEW c \in Cells, NEW k \in 0 .. QueueSize
  PROVE  /\ c + k < QueueSize => Cell(c, k) = c + k
         /\ c + k >= QueueSize => Cell(c, k) = c + k - QueueSize
         /\ Cell(c, k) \in Cells
BY QueueAssumption DEF Cell, Cells

\* Two offsets below the size of the ring lead to different cells.
LEMMA CellInjective ==
  ASSUME NEW c \in Cells, NEW j \in 0 .. QueueSize - 1, NEW k \in 0 .. QueueSize - 1,
         Cell(c, j) = Cell(c, k)
  PROVE  j = k
BY QueueAssumption DEF Cell, Cells

\* Stepping an index by one is the same before and after adding an offset.
LEMMA CellNext ==
  ASSUME NEW c \in Cells, NEW k \in 0 .. QueueSize - 1
  PROVE  /\ Cell(Cell(c, k), 1) = Cell(c, k + 1)
         /\ Cell(Cell(c, 1), k) = Cell(c, k + 1)
BY QueueAssumption DEF Cell, Cells

-----------------------------------------------------------------------------
\* What AddToQueue does to the occupied cells: the old ones keep their place
\* and content, the descriptor goes to the place after the last.
LEMMA AddToQueueRing ==
  ASSUME IInv, AddToQueue
  PROVE  /\ itemCount \in 0 .. QueueSize - 1
         /\ itemCount' = itemCount + 1
         /\ \A k \in 0 .. itemCount - 1 : items'[Cell(head, k)] = items[Cell(head, k)]
         /\ items'[Cell(head, itemCount)] = accepted
         /\ tail' = Cell(head, itemCount + 1)
         /\ InRing' = InRing \cup {accepted}
<1> USE DEF IInv, TypeOK, RingInv
<1>1. itemCount \in 0 .. QueueSize - 1 /\ itemCount' = itemCount + 1 /\ head' = head
  BY QueueAssumption DEF AddToQueue, QueueFull
<1>2. items' = [items EXCEPT ![tail] = accepted] /\ tail' = Cell(tail, 1)
  BY DEF AddToQueue
<1>3. head \in Cells /\ itemCount \in 0 .. QueueSize /\ items \in [Cells -> Sockets \cup {NoSocket}]
  BY DEF Cells
<1>4. ASSUME NEW k \in 0 .. itemCount - 1
      PROVE  items'[Cell(head, k)] = items[Cell(head, k)]
  <2>1. k \in 0 .. QueueSize - 1 /\ k \in 0 .. QueueSize /\ k # itemCount
    BY <1>1, QueueAssumption
  <2>2. Cell(head, k) # tail
    BY <1>1, <1>3, <2>1, CellInjective
  <2>3. Cell(head, k) \in Cells
    BY <1>3, <2>1, CellCases
  <2> QED
    BY <1>2, <1>3, <2>2, <2>3
<1>5. items'[Cell(head, itemCount)] = accepted
  BY <1>2
<1>6. tail' = Cell(head, itemCount + 1)
  BY <1>1, <1>2, CellNext
<1>7. InRing' = InRing \cup {accepted}
  <2>1. InRing' = {items'[Cell(head, k)] : k \in 0 .. itemCount}
    BY <1>1 DEF InRing, Cell
  <2>2. 0 .. itemCount = (0 .. itemCount - 1) \cup {itemCount}
    BY <1>1, QueueAssumption
  <2> QED
    BY SMTT(20), <1>4, <1>5, <2>1, <2>2 DEF InRing
<1> QED
  BY <1>1, <1>4, <1>5, <1>6, <1>7

\* What RemoveFromQueue does to them: the first is given up, the others keep
\* their order, each one place nearer to head.
LEMMA RemoveFromQueueRing ==
  ASSUME IInv, NEW w \in Workers, RemoveFromQueue(w)
  PROVE  /\ itemCount \in 1 .. QueueSize
         /\ itemCount' = itemCount - 1
         /\ \A k \in 0 .. itemCount - 2 : Cell(head', k) = Cell(head, k + 1)
         /\ tail' = Cell(head', itemCount - 1)
         /\ head = Cell(head, 0)
         /\ InRing = InRing' \cup {items[head]}
         /\ items[head] \notin InRing'
<1> USE DEF IInv, TypeOK, RingInv
<1>1. /\ itemCount \in 1 .. QueueSize
      /\ itemCount' = itemCount - 1
      /\ head' = Cell(head, 1)
      /\ items' = items
      /\ tail' = tail
  BY QueueAssumption DEF RemoveFromQueue
<1>2. \A k \in 0 .. itemCount - 1 : Cell(head', k) = Cell(head, k + 1)
  BY <1>1, QueueAssumption, CellNext
<1>3. tail' = Cell(head', itemCount - 1)
  <2>1. Cell(head', itemCount - 1) = Cell(head, (itemCount - 1) + 1)
    BY <1>1, <1>2
  <2> QED
    BY <1>1, <2>1
<1>4. head = Cell(head, 0)
  BY QueueAssumption DEF Cell, Cells
<1>5. InRing' = {items[Cell(head, k + 1)] : k \in 0 .. itemCount - 2}
  <2>1. InRing' = {items[Cell(head', k)] : k \in 0 .. itemCount - 2}
    BY <1>1 DEF InRing, Cell
  <2> QED
    BY <1>1, <1>2, <2>1
<1>6. \A x : x \in InRing <=> x \in InRing' \/ x = items[head]
  <2>1. ASSUME NEW k \in 0 .. itemCount - 1, k # 0
        PROVE  items[Cell(head, k)] \in InRing'
    <3>1. k - 1 \in 0 .. itemCount - 2 /\ (k - 1) + 1 = k
      BY <1>1, <2>1
    <3> QED
      BY <1>5, <3>1
  <2>2. \A k \in 0 .. itemCount - 2 : k + 1 \in 0 .. itemCount - 1
    BY <1>1
  <2>3. 0 \in 0 .. itemCount - 1
    BY <1>1
  <2> QED
    BY <1>4, <1>5, <2>1, <2>2, <2>3 DEF InRing
<1>7. items[head] \notin InRing'
  <2>1. ASSUME NEW k \in 0 .. itemCount - 2, items[Cell(head, k + 1)] = items[head]
        PROVE  FALSE
    <3>1. k + 1 \in 0 .. itemCount - 1 /\ 0 \in 0 .. itemCount - 1 /\ k + 1 # 0
      BY <1>1
    <3> QED
      BY <1>4, <2>1, <3>1 DEF OneOwner
  <2> QED
    BY <1>5, <2>1
<1> QED
  BY <1>1, <1>2, <1>3, <1>4, <1>6, <1>7

-----------------------------------------------------------------------------
\* The invariant holds of the empty queue.
LEMMA InitInvariant == Init => IInv
<1> SUFFICES ASSUME Init PROVE IInv
  OBVIOUS
<1>1. TypeOK
  <2>1. 0 \in Cells /\ 0 \in 0 .. QueueSize
    BY QueueAssumption DEF Cells
  <2> QED
    BY <2>1 DEF Init, TypeOK
<1>2. RingInv
  BY QueueAssumption DEF Init, RingInv, Cell
<1>3. OneOwner
  BY DEF Init, OneOwner, InRing, Idle
<1>4. NoLostWakeup
  BY DEF Init, NoLostWakeup
<1> QED
  BY <1>1, <1>2, <1>3, <1>4 DEF IInv

\* Variables keep their types.
LEMMA NextTypeOK == IInv /\ [Next]_vars => TypeOK'
<1> SUFFICES ASSUME IInv, [Next]_vars PROVE TypeOK'
  OBVIOUS
<1> USE QueueAssumption DEF IInv, TypeOK
<1>1. ASSUME NEW s \in Sockets, Accept(s) PROVE TypeOK'
  BY <1>1 DEF Accept, ring
<1>2. CASE AddToQueueWaits
  BY <1>2 DEF AddToQueueWaits, ring
<1>3. CASE AddToQueue
  <2>1. itemCount' \in 0 .. QueueSize
    BY <1>3, AddToQueueRing
  <2>2. tail' \in Cells
    BY <1>3, CellCases DEF AddToQueue
  <2>3. hasItems' \subseteq Workers
    BY <1>3 DEF AddToQueue, SignalHasItems
  <2> QED
    BY <1>3, <2>1, <2>2, <2>3 DEF AddToQueue
<1>4. ASSUME NEW w \in Workers, RemoveFromQueueWaits(w) PROVE TypeOK'
  BY <1>4 DEF RemoveFromQueueWaits, ring, Idle
<1>5. ASSUME NEW w \in Workers, RemoveFromQueue(w) PROVE TypeOK'
  <2>1. itemCount' \in 0 .. QueueSize
    BY <1>5, RemoveFromQueueRing
  <2>2. head' \in Cells
    BY <1>5, CellCases DEF RemoveFromQueue
  <2>3. items[head] \in Sockets \cup {NoSocket}
    OBVIOUS
  <2> QED
    BY <1>5, <2>1, <2>2, <2>3 DEF RemoveFromQueue, SignalHasSpace
<1>6. ASSUME NEW w \in Workers, Close(w) PROVE TypeOK'
  BY <1>6 DEF Close, ring
<1>7. CASE SpuriousWakeup
  BY <1>7 DEF SpuriousWakeup, ring
<1>8. CASE UNCHANGED vars
  BY <1>8 DEF vars
<1> QED
  BY <1>1, <1>2, <1>3, <1>4, <1>5, <1>6, <1>7, <1>8 DEF Next

\* tail stays one place behind the last occupied cell, and sleepers are idle.
LEMMA NextRingInv == IInv /\ [Next]_vars => RingInv'
<1> SUFFICES ASSUME IInv, [Next]_vars PROVE RingInv'
  OBVIOUS
<1> USE DEF IInv, TypeOK, RingInv
<1>1. ASSUME UNCHANGED ring, UNCHANGED serving, hasItems' \subseteq hasItems PROVE RingInv'
  BY <1>1 DEF ring, Cell, Idle
<1>2. ASSUME NEW s \in Sockets, Accept(s) PROVE RingInv'
  BY <1>1, <1>2 DEF Accept
<1>3. CASE AddToQueueWaits
  BY <1>1, <1>3 DEF AddToQueueWaits
<1>4. CASE AddToQueue
  <2>1. tail' = Cell(head, itemCount + 1) /\ itemCount' = itemCount + 1 /\ head' = head
    BY <1>4, AddToQueueRing DEF AddToQueue
  <2>2. tail' = Cell(head, itemCount)'
    BY <2>1 DEF Cell
  <2>3. hasItems' \subseteq Idle'
    BY <1>4 DEF AddToQueue, SignalHasItems, Idle
  <2> QED
    BY <2>2, <2>3
<1>5. ASSUME NEW w \in Workers, RemoveFromQueueWaits(w) PROVE RingInv'
  BY <1>5 DEF RemoveFromQueueWaits, ring, Cell, Idle
<1>6. ASSUME NEW w \in Workers, RemoveFromQueue(w) PROVE RingInv'
  <2>1. tail' = Cell(head', itemCount - 1) /\ itemCount' = itemCount - 1
    BY <1>6, RemoveFromQueueRing
  <2>2. tail' = Cell(head, itemCount)'
    BY <2>1 DEF Cell
  <2>3. hasItems' \subseteq Idle'
    BY <1>6 DEF RemoveFromQueue, Idle
  <2> QED
    BY <2>2, <2>3
<1>7. ASSUME NEW w \in Workers, Close(w) PROVE RingInv'
  BY <1>7 DEF Close, ring, Cell, Idle
<1>8. CASE SpuriousWakeup
  BY <1>1, <1>8 DEF SpuriousWakeup
<1>9. CASE UNCHANGED vars
  BY <1>1, <1>9 DEF vars, ring
<1> QED
  BY <1>2, <1>3, <1>4, <1>5, <1>6, <1>7, <1>8, <1>9 DEF Next

\* No step gives an open descriptor a second place.
LEMMA NextOneOwner == IInv /\ [Next]_vars => OneOwner'
<1> SUFFICES ASSUME IInv, [Next]_vars PROVE OneOwner'
  OBVIOUS
<1> USE DEF IInv, TypeOK, RingInv
<1>1. ASSUME UNCHANGED ring PROVE InRing' = InRing
  BY <1>1 DEF ring, InRing, Cell
<1>2. ASSUME UNCHANGED ring
      PROVE  \A j, k \in 0 .. itemCount' - 1 :
                (items[Cell(head, j)] = items[Cell(head, k)])' => j = k
  BY <1>2 DEF ring, OneOwner, Cell
<1>3. ASSUME UNCHANGED <<ring, accepted, serving>> PROVE OneOwner'
  BY <1>1, <1>2, <1>3 DEF OneOwner, Idle
<1>4. ASSUME NEW s \in Sockets, Accept(s) PROVE OneOwner'
  <2>1. UNCHANGED ring /\ UNCHANGED serving /\ accepted' = s /\ s \notin OpenSockets
    BY <1>4 DEF Accept
  <2> QED
    BY <1>1, <1>2, <2>1 DEF OneOwner, Idle, OpenSockets
<1>5. CASE AddToQueueWaits
  BY <1>3, <1>5 DEF AddToQueueWaits
<1>6. CASE AddToQueue
  <2>1. /\ itemCount' = itemCount + 1
        /\ head' = head
        /\ serving' = serving
        /\ accepted \in Sockets
        /\ accepted # NoSocket
        /\ accepted' = NoSocket
    BY <1>6, AddToQueueRing DEF AddToQueue
  <2>2. InRing' = InRing \cup {accepted}
    BY <1>6, AddToQueueRing
  <2>3. \A k \in 0 .. itemCount' - 1 :
           items'[Cell(head, k)] = IF k = itemCount THEN accepted ELSE items[Cell(head, k)]
    BY <1>6, <2>1, AddToQueueRing
  <2>4. \A k \in 0 .. itemCount - 1 : items[Cell(head, k)] # accepted
    BY DEF OneOwner, InRing
  <2>5. \A j, k \in 0 .. itemCount' - 1 : items'[Cell(head, j)] = items'[Cell(head, k)] => j = k
    BY <2>1, <2>3, <2>4 DEF OneOwner
  <2>6. \A j, k \in 0 .. itemCount' - 1 : (items[Cell(head, j)] = items[Cell(head, k)])' => j = k
    BY <2>1, <2>5 DEF Cell
  <2> QED
    BY <2>1, <2>2, <2>6 DEF OneOwner, Idle
<1>7. ASSUME NEW w \in Workers, RemoveFromQueueWaits(w) PROVE OneOwner'
  BY <1>3, <1>7 DEF RemoveFromQueueWaits
<1>8. ASSUME NEW w \in Workers, RemoveFromQueue(w) PROVE OneOwner'
  <2>1. /\ itemCount \in 1 .. QueueSize
        /\ itemCount' = itemCount - 1
        /\ items' = items
        /\ accepted' = accepted
        /\ serving' = [serving EXCEPT ![w] = items[head]]
    BY <1>8, RemoveFromQueueRing DEF RemoveFromQueue
  <2>2. InRing = InRing' \cup {items[head]} /\ items[head] \notin InRing'
    BY <1>8, RemoveFromQueueRing
  <2>3. \A k \in 0 .. itemCount - 2 : Cell(head', k) = Cell(head, k + 1)
    BY <1>8, RemoveFromQueueRing
  <2>4. \A j, k \in 0 .. itemCount - 2 : items[Cell(head', j)] = items[Cell(head', k)] => j = k
    <3>1. SUFFICES ASSUME NEW j \in 0 .. itemCount - 2, NEW k \in 0 .. itemCount - 2,
                          items[Cell(head, j + 1)] = items[Cell(head, k + 1)]
                   PROVE  j = k
      BY <2>3
    <3>2. j + 1 \in 0 .. itemCount - 1 /\ k + 1 \in 0 .. itemCount - 1
      BY <2>1
    <3>3. j + 1 = k + 1
      BY <3>1, <3>2 DEF OneOwner
    <3> QED
      BY <2>1, <3>3
  <2>5. \A j, k \in 0 .. itemCount' - 1 : (items[Cell(head, j)] = items[Cell(head, k)])' => j = k
    BY <2>1, <2>4 DEF Cell
  <2>6. \A v \in Workers : v # w => serving'[v] = serving[v] /\ serving[v] # items[head]
    <3>1. \A v \in Workers : serving[v] # NoSocket => serving[v] \notin InRing
      BY DEF OneOwner, Idle
    <3>2. items[head] # NoSocket
      BY <2>2 DEF OneOwner
    <3> QED
      BY <2>1, <2>2, <3>1, <3>2
  <2>7. serving'[w] = items[head] /\ items[head] # accepted
    BY <2>1, <2>2 DEF OneOwner
  <2> QED
    BY <2>1, <2>2, <2>5, <2>6, <2>7 DEF OneOwner, Idle
<1>9. ASSUME NEW w \in Workers, Close(w) PROVE OneOwner'
  <2>1. UNCHANGED <<ring, accepted>> /\ serving' = [serving EXCEPT ![w] = NoSocket]
    BY <1>9 DEF Close
  <2>2. InRing' = InRing
    BY <1>1, <2>1
  <2>3. \A j, k \in 0 .. itemCount' - 1 : (items[Cell(head, j)] = items[Cell(head, k)])' => j = k
    BY <1>2, <2>1
  <2>4. \A v \in Workers : serving'[v] # NoSocket => v # w /\ serving'[v] = serving[v]
    BY <2>1
  <2> QED
    BY <2>1, <2>2, <2>3, <2>4 DEF OneOwner, Idle
<1>10. CASE SpuriousWakeup
  BY <1>3, <1>10 DEF SpuriousWakeup
<1>11. CASE UNCHANGED vars
  BY <1>3, <1>11 DEF vars, ring
<1> QED
  BY <1>4, <1>5, <1>6, <1>7, <1>8, <1>9, <1>10, <1>11 DEF Next

\* No step leaves a worker asleep beside items that nobody awake can take, nor
\* main asleep beside a free cell.
LEMMA NextNoLostWakeup == IInv /\ [Next]_vars => NoLostWakeup'
<1> SUFFICES ASSUME IInv, [Next]_vars PROVE NoLostWakeup'
  OBVIOUS
<1> DEFINE Awake == Idle \ hasItems
<1> USE DEF IInv, TypeOK, RingInv
<1>1. IsFiniteSet(Idle) /\ IsFiniteSet(Awake) /\ Cardinality(Awake) \in Nat
  <2>1. IsFiniteSet(Idle)
    BY QueueAssumption, FS_Subset DEF Idle
  <2> QED
    BY <2>1, FS_Subset, FS_CardinalityType
<1>2. ASSUME UNCHANGED <<ring, serving, hasItems>>, hasSpace' => hasSpace \/ QueueFull
      PROVE  NoLostWakeup'
  BY <1>2 DEF ring, Idle, NoLostWakeup, QueueFull
<1>3. ASSUME NEW s \in Sockets, Accept(s) PROVE NoLostWakeup'
  BY <1>2, <1>3 DEF Accept
<1>4. CASE AddToQueueWaits
  BY <1>2, <1>4 DEF AddToQueueWaits
<1>5. CASE AddToQueue
  <2>1. itemCount' = itemCount + 1 /\ Idle' = Idle /\ hasSpace' = FALSE
    BY <1>5, AddToQueueRing DEF AddToQueue, Idle
  <2>2. CASE hasItems = {}
    BY <1>5, <2>1, <2>2 DEF AddToQueue, SignalHasItems, NoLostWakeup
  <2>3. CASE hasItems # {}
    <3>1. PICK w \in hasItems : hasItems' = hasItems \ {w}
      BY <1>5, <2>3 DEF AddToQueue, SignalHasItems
    <3>2. Awake' = Awake \cup {w} /\ w \notin Awake
      BY <2>1, <3>1
    <3>3. Cardinality(Awake') = Cardinality(Awake) + 1
      BY <1>1, <3>2, OneMoreOrLess
    <3> QED
      BY <1>1, <2>1, <2>3, <3>3 DEF NoLostWakeup
  <2> QED
    BY <2>2, <2>3
<1>6. ASSUME NEW w \in Workers, RemoveFromQueueWaits(w) PROVE NoLostWakeup'
  <2>1. itemCount' = 0 /\ hasSpace' = hasSpace /\ itemCount = 0
    BY <1>6 DEF RemoveFromQueueWaits, ring
  <2>2. IsFiniteSet(Awake')
    <3>1. Awake' \subseteq Awake
      BY <1>6 DEF RemoveFromQueueWaits, Idle
    <3> QED
      BY <1>1, <3>1, FS_Subset
  <2>3. Cardinality(Awake') \in Nat
    BY <2>2, FS_CardinalityType
  <2> QED
    BY <2>1, <2>3 DEF NoLostWakeup, QueueFull
<1>7. ASSUME NEW w \in Workers, RemoveFromQueue(w) PROVE NoLostWakeup'
  <2>1. itemCount' = itemCount - 1 /\ hasSpace' = FALSE /\ hasItems' = hasItems
    BY <1>7, RemoveFromQueueRing DEF RemoveFromQueue, SignalHasSpace
  <2>2. items[head] # NoSocket
    BY <1>7, RemoveFromQueueRing DEF OneOwner
  <2>3. Awake' = Awake \ {w} /\ w \in Awake
    BY <1>7, <2>1, <2>2 DEF RemoveFromQueue, Idle
  <2>4. Cardinality(Awake') = Cardinality(Awake) - 1
    BY <1>1, <2>3, OneMoreOrLess
  <2> QED
    BY <1>1, <2>1, <2>4 DEF NoLostWakeup
<1>8. ASSUME NEW w \in Workers, Close(w) PROVE NoLostWakeup'
  <2>1. UNCHANGED <<ring, hasItems, hasSpace>>
    BY <1>8 DEF Close
  <2>2. Awake' = Awake \cup {w}
    BY <1>8 DEF Close, Idle
  <2>3. Cardinality(Awake') >= Cardinality(Awake)
    BY <1>1, <2>2, OneMoreOrLess
  <2>4. Cardinality(Awake') \in Nat
    BY <1>1, <2>2, OneMoreOrLess
  <2> QED
    BY <1>1, <2>1, <2>3, <2>4 DEF NoLostWakeup, QueueFull, ring
<1>9. CASE SpuriousWakeup
  <2>1. CASE hasSpace' = FALSE /\ UNCHANGED <<ring, hasItems, serving>>
    BY <1>2, <2>1
  <2>2. ASSUME NEW w \in hasItems, hasItems' = hasItems \ {w}, UNCHANGED <<ring, hasSpace, serving>>
        PROVE  NoLostWakeup'
    <3>1. Awake' = Awake \cup {w}
      BY <2>2 DEF Idle
    <3>2. Cardinality(Awake') >= Cardinality(Awake) /\ Cardinality(Awake') \in Nat
      BY <1>1, <3>1, OneMoreOrLess
    <3> QED
      BY <1>1, <2>2, <3>2 DEF NoLostWakeup, QueueFull, ring
  <2> QED
    BY <1>9, <2>1, <2>2 DEF SpuriousWakeup
<1>10. CASE UNCHANGED vars
  BY <1>2, <1>10 DEF vars, ring
<1> QED
  BY <1>3, <1>4, <1>5, <1>6, <1>7, <1>8, <1>9, <1>10 DEF Next

-----------------------------------------------------------------------------
\* The inductive invariant holds in every reachable state.
THEOREM Invariance == Spec => []IInv
<1>1. Init => IInv
  BY InitInvariant
<1>2. IInv /\ [Next]_vars => IInv'
  BY NextTypeOK, NextRingInv, NextOneOwner, NextNoLostWakeup DEF IInv
<1> QED
  BY <1>1, <1>2, PTL DEF Spec

\* The ring indices stay inside the array and the item count within its size.
THEOREM TypeCorrect == Spec => []TypeOK
<1>1. IInv => TypeOK
  BY DEF IInv
<1> QED
  BY <1>1, Invariance, PTL

\* Every open connection has exactly one holder, for any pool and any ring.
THEOREM OwnershipIsExclusive == Spec => []OneOwner
<1>1. IInv => OneOwner
  BY DEF IInv
<1> QED
  BY <1>1, Invariance, PTL

\* One pthread_cond_signal per item is enough: no wakeup is ever lost.
THEOREM WakeupsSuffice == Spec => []NoLostWakeup
<1>1. IInv => NoLostWakeup
  BY DEF IInv
<1> QED
  BY <1>1, Invariance, PTL

-----------------------------------------------------------------------------
\* The queue that the ring stands for: a sequence of length itemCount with the
\* descriptors of InRing as its elements.
LEMMA QueuedIsSequence ==
  ASSUME TypeOK
  PROVE  /\ Queued \in Seq(Sockets \cup {NoSocket})
         /\ Len(Queued) = itemCount
         /\ DOMAIN Queued = 1 .. itemCount
         /\ \A i \in 1 .. itemCount : Queued[i] = items[Cell(head, i - 1)]
         /\ {Queued[i] : i \in DOMAIN Queued} = InRing
<1>1. \A k \in 0 .. itemCount - 1 : Cell(head, k) \in Cells
  BY CellCases, QueueAssumption DEF TypeOK
<1>2. \A i \in 1 .. itemCount : i - 1 \in 0 .. itemCount - 1
  BY DEF TypeOK
<1>3. \A i \in 1 .. itemCount : items[Cell(head, i - 1)] \in Sockets \cup {NoSocket}
  BY <1>1, <1>2 DEF TypeOK
<1>4. Queued \in Seq(Sockets \cup {NoSocket}) /\ Len(Queued) = itemCount
  BY <1>3 DEF Queued, TypeOK
<1>5. \A k \in 0 .. itemCount - 1 : k + 1 \in 1 .. itemCount /\ (k + 1) - 1 = k
  BY DEF TypeOK
<1>6. {Queued[i] : i \in DOMAIN Queued} = InRing
  BY <1>2, <1>5 DEF Queued, InRing
<1> QED
  BY <1>4, <1>6 DEF Queued

\* AddToQueue appends to that sequence, RemoveFromQueue takes its head, and a
\* step that leaves the ring alone leaves the sequence alone.
LEMMA RingSteps ==
  ASSUME IInv, IInv'
  PROVE  /\ AddToQueue => Queued' = Append(Queued, accepted)
         /\ \A w \in Workers : RemoveFromQueue(w) =>
               Queued # <<>> /\ Head(Queued) = items[head] /\ Queued' = Tail(Queued)
         /\ UNCHANGED ring => Queued' = Queued
<1>0. TypeOK
  BY DEF IInv
<1>1. ASSUME AddToQueue PROVE Queued' = Append(Queued, accepted)
  <2>1. itemCount' = itemCount + 1 /\ head' = head /\ itemCount \in Nat
    BY <1>0, <1>1, AddToQueueRing, QueueAssumption DEF AddToQueue, TypeOK
  <2>2. Queued' = [i \in 1 .. itemCount + 1 |-> items'[Cell(head, i - 1)]]
    BY <2>1 DEF Queued, Cell
  <2>3. \A i \in 1 .. itemCount : i - 1 \in 0 .. itemCount - 1
    BY <2>1
  <2>4. \A i \in 1 .. itemCount : items'[Cell(head, i - 1)] = Queued[i]
    BY <1>0, <1>1, <2>3, AddToQueueRing, QueuedIsSequence
  <2>5. (itemCount + 1) - 1 = itemCount
    BY <2>1
  <2>6. items'[Cell(head, (itemCount + 1) - 1)] = accepted
    BY <1>1, <2>5, AddToQueueRing
  <2>7. Queued \in Seq(Sockets \cup {NoSocket}) /\ Len(Queued) = itemCount
    BY <1>0, QueuedIsSequence
  <2>8. accepted \in Sockets \cup {NoSocket}
    BY <1>0 DEF TypeOK
  <2> DEFINE f == [i \in 1 .. itemCount + 1 |-> items'[Cell(head, i - 1)]]
  <2>9. \A i \in 1 .. itemCount : f[i] = Queued[i]
    BY <2>1, <2>4
  <2>10. f[itemCount + 1] = accepted
    BY <2>1, <2>6
  <2>11. [i \in 1 .. itemCount + 1 |-> f[i]] = Append(Queued, accepted)
    <3> HIDE DEF f
    <3> QED
      BY <2>7, <2>8, <2>9, <2>10, AppendIs
  <2> QED
    BY <2>2, <2>11
<1>2. ASSUME NEW w \in Workers, RemoveFromQueue(w)
      PROVE  Queued # <<>> /\ Head(Queued) = items[head] /\ Queued' = Tail(Queued)
  <2>0. itemCount \in 1 .. QueueSize /\ itemCount' = itemCount - 1
    BY <1>2, RemoveFromQueueRing
  <2>1. itemCount' = itemCount - 1 /\ itemCount \in Nat \ {0} /\ items' = items
    BY <1>2, <2>0, QueueAssumption DEF RemoveFromQueue
  <2>2. Queued # <<>> /\ Head(Queued) = items[head]
    BY <1>0, <1>2, <2>1, RemoveFromQueueRing, QueuedIsSequence
  <2>3. Queued' = [i \in 1 .. itemCount - 1 |-> items[Cell(head', i - 1)]]
    BY <2>1 DEF Queued, Cell
  <2>4. ASSUME NEW i \in 1 .. itemCount - 1 PROVE items[Cell(head', i - 1)] = Queued[i + 1]
    <3>1. i - 1 \in 0 .. itemCount - 2 /\ (i - 1) + 1 = i /\ (i + 1) - 1 = i /\ i + 1 \in 1 .. itemCount
      BY <2>1
    <3> QED
      BY <1>0, <1>2, <3>1, RemoveFromQueueRing, QueuedIsSequence
  <2>5. Queued \in Seq(Sockets \cup {NoSocket}) /\ Len(Queued) = itemCount
    BY <1>0, QueuedIsSequence
  <2> DEFINE f == [i \in 1 .. itemCount - 1 |-> items[Cell(head', i - 1)]]
  <2>6. \A i \in 1 .. itemCount - 1 : f[i] = Queued[i + 1]
    BY <2>4
  <2>7. [i \in 1 .. itemCount - 1 |-> f[i]] = Tail(Queued)
    <3> HIDE DEF f
    <3> QED
      BY <2>2, <2>5, <2>6, TailIs
  <2> QED
    BY <2>2, <2>3, <2>7
<1>3. ASSUME UNCHANGED ring PROVE Queued' = Queued
  BY <1>3 DEF ring, Queued, Cell
<1> QED
  BY <1>1, <1>2, <1>3

\* addToQueue and removeFromQueue implement the bounded FIFO queue.
THEOREM Refinement == Spec => ImplementsFifo
<1>1. Init => Fifo!Init
  <2> SUFFICES ASSUME Init PROVE Fifo!Init
    OBVIOUS
  <2>1. Queued = <<>>
    BY DEF Init, Queued
  <2> QED
    BY <2>1 DEF Init, Fifo!Init
<1>2. IInv /\ IInv' /\ [Next]_vars => [Fifo!Next]_(Fifo!vars)
  <2> SUFFICES ASSUME IInv, IInv', [Next]_vars PROVE [Fifo!Next]_(Fifo!vars)
    OBVIOUS
  <2> USE DEF Fifo!vars
  <2>1. ASSUME UNCHANGED <<ring, accepted, serving>> PROVE UNCHANGED Fifo!vars
    BY <2>1, RingSteps DEF Fifo!vars
  <2>2. ASSUME NEW s \in Sockets, Accept(s) PROVE Fifo!Next
    <3>1. Queued' = Queued
      BY <2>2, RingSteps DEF Accept
    <3>2. s \notin Fifo!Open
      BY <2>2, QueuedIsSequence DEF Accept, OpenSockets, Fifo!Open, Fifo!Waiting, IInv
    <3>3. Fifo!Accept(s)
      BY <2>2, <3>1, <3>2 DEF Accept, Fifo!Accept
    <3> QED
      BY <3>3 DEF Fifo!Next
  <2>3. CASE AddToQueueWaits
    BY <2>1, <2>3 DEF AddToQueueWaits
  <2>4. CASE AddToQueue
    <3>1. Len(Queued) < QueueSize
      BY <2>4, AddToQueueRing, QueuedIsSequence, QueueAssumption DEF IInv
    <3>2. Fifo!Enqueue
      BY <2>4, <3>1, RingSteps DEF AddToQueue, Fifo!Enqueue
    <3> QED
      BY <3>2 DEF Fifo!Next
  <2>5. ASSUME NEW w \in Workers, RemoveFromQueueWaits(w) PROVE UNCHANGED Fifo!vars
    BY <2>1, <2>5 DEF RemoveFromQueueWaits
  <2>6. ASSUME NEW w \in Workers, RemoveFromQueue(w) PROVE Fifo!Next
    <3>1. Fifo!Dequeue(w)
      BY <2>6, RingSteps DEF RemoveFromQueue, Fifo!Dequeue, Idle
    <3> QED
      BY <3>1 DEF Fifo!Next
  <2>7. ASSUME NEW w \in Workers, Close(w) PROVE Fifo!Next
    <3>1. Fifo!Close(w)
      BY <2>7, RingSteps DEF Close, Fifo!Close
    <3> QED
      BY <3>1 DEF Fifo!Next
  <2>8. CASE SpuriousWakeup
    BY <2>1, <2>8 DEF SpuriousWakeup
  <2>9. CASE UNCHANGED vars
    BY <2>1, <2>9 DEF vars, ring
  <2> QED
    BY <2>2, <2>3, <2>4, <2>5, <2>6, <2>7, <2>8, <2>9 DEF Next
<1> QED
  BY <1>1, <1>2, Invariance, PTL DEF Spec, ImplementsFifo, Fifo!Spec

\* A worker takes a descriptor that no worker has: the queue keeps the promise on which
\* TakeConnection of SessionRegistry relies.
TakesFreeDescriptor ==
  \A w \in Workers : RemoveFromQueue(w) =>
     \E s \in Sockets : /\ serving' = [serving EXCEPT ![w] = s]
                        /\ \A v \in Workers : serving[v] # s

\* What removeFromQueue hands out is free, for every pool and ring.
THEOREM HandsOutFree == Spec => [][TakesFreeDescriptor]_vars
<1>1. ASSUME IInv, NEW w \in Workers, RemoveFromQueue(w)
      PROVE  \E s \in Sockets : /\ serving' = [serving EXCEPT ![w] = s]
                                /\ \A v \in Workers : serving[v] # s
  <2> DEFINE s == items[head]
  <2>1. s \in InRing
    BY <1>1, RemoveFromQueueRing
  <2>2. s \in Sockets
    BY <1>1, <2>1 DEF IInv, TypeOK, OneOwner
  <2>3. \A v \in Workers : serving[v] # s
    <3>1. ASSUME NEW v \in Workers, serving[v] = s PROVE FALSE
      <4>1. serving[v] # NoSocket
        BY <2>2, <3>1, QueueAssumption
      <4> QED
        BY <1>1, <2>1, <3>1, <4>1 DEF IInv, OneOwner, Idle
    <3> QED
      BY <3>1
  <2>4. serving' = [serving EXCEPT ![w] = s]
    BY <1>1 DEF RemoveFromQueue
  <2> QED
    BY <2>2, <2>3, <2>4
<1>2. IInv /\ [Next]_vars => [TakesFreeDescriptor]_vars
  BY <1>1 DEF TakesFreeDescriptor
<1> QED
  BY <1>2, Invariance, PTL DEF Spec

-----------------------------------------------------------------------------
\* The library operators that SessionRegistry uses are those of this module.
LEMMA SameNotions ==
  /\ \A S : Sessions!IsFiniteSet(S) <=> IsFiniteSet(S)
  /\ \A S : Sessions!Cardinality(S) = Cardinality(S)
  /\ \A q, i : Sessions!RemoveAt(q, i) = RemoveAt(q, i)
<1>1. ASSUME NEW S PROVE Sessions!IsFiniteSet(S) <=> IsFiniteSet(S)
  BY DEF IsFiniteSet, Sessions!IsFiniteSet
<1>2. ASSUME NEW S PROVE Sessions!Cardinality(S) = Cardinality(S)
  BY DEF Cardinality, Sessions!Cardinality
<1>3. ASSUME NEW q, NEW i PROVE Sessions!RemoveAt(q, i) = RemoveAt(q, i)
  BY DEF RemoveAt, Sessions!RemoveAt
<1> QED
  BY <1>1, <1>2, <1>3

\* A worker that is not idle has a descriptor of its own, after the check a nickname, and an id
\* while it handles a request.
SessionInv ==
  /\ \A w \in Workers : pc[w] # "idle" => serving[w] \in Sockets
  /\ \A w \in Workers : pc[w] = "idle" => serving[w] = NoSocket
  /\ \A v, w \in Workers : pc[v] # "idle" /\ serving[v] = serving[w] => v = w
  /\ \A w \in Workers : pc[w] \in Sessions!Stages \ {"idle", "hello", "auth"} => nick[w] \in Names
  /\ \A w \in Workers : pc[w] \in {"processing", "marking"} => request[w] \in Ids

\* The invariant of SessionRegistry: the checked properties, and that.
RegistryInv == Sessions!TypeOK /\ SessionInv /\ Sessions!TableMatchesSessions /\ Sessions!SlotsInBounds

-----------------------------------------------------------------------------
\* While a worker is not in a session the table has room for one more entry,
\* and the slot it would get is one of the first |Workers|.
LEMMA RoomForOneMore ==
  ASSUME Sessions!RegistryAssumption, RegistryInv, NEW w \in Workers \ Sessions!Online
  PROVE  /\ IsFiniteSet(Sessions!Online)
         /\ Len(activeUsers) \in 0 .. Cardinality(Workers) - 1
         /\ Len(activeUsers) < MaxClients
<1>1. Sessions!Online \subseteq Workers \ {w} /\ IsFiniteSet(Workers)
  BY SameNotions DEF Sessions!RegistryAssumption, Sessions!Online
<1>2. IsFiniteSet(Workers \ {w}) /\ Cardinality(Workers \ {w}) = Cardinality(Workers) - 1
  <2>1. w \in Workers
    OBVIOUS
  <2> QED
    BY <1>1, <2>1, FS_RemoveElement
<1>3. IsFiniteSet(Sessions!Online) /\ Cardinality(Sessions!Online) <= Cardinality(Workers \ {w})
  BY <1>1, <1>2, FS_Subset
<1>4. Cardinality(Sessions!Online) \in Nat /\ Cardinality(Workers) \in Nat
  BY <1>1, <1>3, FS_CardinalityType
<1>5. Len(activeUsers) = Cardinality(Sessions!Online)
  BY SameNotions DEF RegistryInv, Sessions!TableMatchesSessions
<1> QED
  BY SameNotions, <1>2, <1>3, <1>4, <1>5 DEF Sessions!RegistryAssumption

-----------------------------------------------------------------------------
\* The invariant holds before the first connection.
LEMMA InitRegistryInv ==
  ASSUME Sessions!RegistryAssumption
  PROVE  Sessions!Init => RegistryInv
<1> SUFFICES ASSUME Sessions!Init PROVE RegistryInv
  OBVIOUS
<1>1. Sessions!TypeOK
  <2>1. 0 \in 0 .. MaxLastIds - 1
    BY DEF Sessions!RegistryAssumption
  <2> QED
    BY <2>1 DEF Sessions!Init, Sessions!TypeOK, Sessions!EmptySlot, Sessions!Stages
<1>2. SessionInv
  BY DEF Sessions!Init, SessionInv
<1>3. Sessions!Online = {}
  BY DEF Sessions!Init, Sessions!Online
<1>4. Sessions!TableMatchesSessions
  BY SameNotions, <1>3, FS_EmptySet DEF Sessions!Init, Sessions!TableMatchesSessions
<1>5. Sessions!SlotsInBounds
  BY DEF Sessions!Init, Sessions!SlotsInBounds
<1> QED
  BY <1>1, <1>2, <1>4, <1>5 DEF RegistryInv

\* Leave keeps the types; so does every step.
LEMMA NextRegistryTypes ==
  ASSUME Sessions!RegistryAssumption
  PROVE  RegistryInv /\ [Sessions!Next]_(Sessions!vars) => Sessions!TypeOK'
<1> SUFFICES ASSUME RegistryInv, [Sessions!Next]_(Sessions!vars) PROVE Sessions!TypeOK'
  OBVIOUS
<1> USE DEF RegistryInv, Sessions!TypeOK
<1>1. ASSUME NEW w \in Workers, Sessions!Leave(w) PROVE Sessions!TypeOK'
  BY <1>1 DEF Sessions!Leave, Sessions!Goto, Sessions!Stages, Sessions!shared
<1>2. ASSUME NEW w \in Workers, NEW s \in Sockets, Sessions!TakeConnection(w, s) PROVE Sessions!TypeOK'
  BY <1>2
    DEF Sessions!TakeConnection, Sessions!Goto, Sessions!Stages, Sessions!shared, Sessions!history
<1>3. ASSUME NEW w \in Workers, Sessions!Hello(w) PROVE Sessions!TypeOK'
  BY <1>3 DEF Sessions!Hello, Sessions!Goto, Sessions!Stages, Sessions!shared, Sessions!history
<1>4. ASSUME NEW w \in Workers, Sessions!HandshakeFails(w) PROVE Sessions!TypeOK'
  BY <1>1, <1>4 DEF Sessions!HandshakeFails
<1>5. ASSUME NEW w \in Workers, NEW n \in Names, Sessions!CheckNickname(w, n) PROVE Sessions!TypeOK'
  <2>1. CASE Sessions!IsNicknameTaken(n)
    BY <1>1, <1>5, <2>1 DEF Sessions!CheckNickname
  <2>2. CASE ~Sessions!IsNicknameTaken(n)
    <3>1. /\ nick' = [nick EXCEPT ![w] = n]
          /\ pc' = [pc EXCEPT ![w] = "checked"]
          /\ UNCHANGED <<activeUsers, dedup, serving, slot, request, processed, ignored>>
      BY <1>5, <2>2 DEF Sessions!CheckNickname, Sessions!Goto, Sessions!shared, Sessions!history
    <3>2. nick' \in [Workers -> Names \cup {NoName}] /\ pc' \in [Workers -> Sessions!Stages]
      BY <3>1 DEF Sessions!Stages
    <3> QED
      BY <3>1, <3>2
  <2> QED
    BY <2>1, <2>2
<1>6. ASSUME NEW w \in Workers, Sessions!ReadTotalUsers(w) PROVE Sessions!TypeOK'
  <2>1. Len(activeUsers) \in Sessions!Slots
    <3>1. w \in Workers \ Sessions!Online
      BY <1>6 DEF Sessions!ReadTotalUsers, Sessions!Online
    <3>2. Len(activeUsers) \in 0 .. Cardinality(Workers) - 1 /\ Len(activeUsers) < MaxClients
      BY <3>1, RoomForOneMore
    <3> QED
      BY <3>2 DEF Sessions!RegistryAssumption, Sessions!Slots
  <2> QED
    BY <1>6, <2>1
      DEF Sessions!ReadTotalUsers, Sessions!DedupIndex, Sessions!Goto, Sessions!Stages,
          Sessions!shared, Sessions!history
<1>7. ASSUME NEW w \in Workers, Sessions!RegisterUser(w) PROVE Sessions!TypeOK'
  <2>1. Sessions!Entry(w) \in [socket : Sockets, name : Names]
    BY <1>7 DEF Sessions!RegisterUser, SessionInv, Sessions!Entry, Sessions!Stages
  <2>2. activeUsers' \in Seq([socket : Sockets, name : Names])
    <3>1. Append(activeUsers, Sessions!Entry(w)) \in Seq([socket : Sockets, name : Names])
      BY <2>1, AppendProperties
    <3> QED
      BY <1>7, <3>1 DEF Sessions!RegisterUser, Sessions!shared
  <2>3. Sessions!EmptySlot \in [last : [0 .. MaxLastIds - 1 -> Ids \cup {0}], index : 0 .. MaxLastIds - 1]
    BY DEF Sessions!RegistryAssumption, Sessions!EmptySlot
  <2>4. dedup' \in [Sessions!Slots -> [last : [0 .. MaxLastIds - 1 -> Ids \cup {0}], index : 0 .. MaxLastIds - 1]]
    BY <1>7, <2>3 DEF Sessions!RegisterUser, Sessions!shared
  <2> QED
    BY <1>7, <2>2, <2>4
      DEF Sessions!RegisterUser, Sessions!Goto, Sessions!Stages, Sessions!history
<1>8. ASSUME NEW w \in Workers, NEW id \in Ids, Sessions!ReceiveRequest(w, id) PROVE Sessions!TypeOK'
  <2>1. CASE Sessions!IsDuplicate(w, id)
    BY <1>8, <2>1 DEF Sessions!ReceiveRequest, Sessions!shared
  <2>2. CASE ~Sessions!IsDuplicate(w, id)
    <3>1. /\ request' = [request EXCEPT ![w] = id]
          /\ pc' = [pc EXCEPT ![w] = "processing"]
          /\ UNCHANGED <<activeUsers, dedup, serving, nick, slot, processed, ignored>>
      BY <1>8, <2>2
        DEF Sessions!ReceiveRequest, Sessions!Goto, Sessions!shared, Sessions!history
    <3>2. request' \in [Workers -> Ids \cup {0}] /\ pc' \in [Workers -> Sessions!Stages]
      BY <3>1 DEF Sessions!Stages
    <3> QED
      BY <3>1, <3>2
  <2> QED
    BY <2>1, <2>2
<1>9. ASSUME NEW w \in Workers, Sessions!ProcessRequest(w) PROVE Sessions!TypeOK'
  <2>1. request[w] \in Ids
    BY <1>9 DEF Sessions!ProcessRequest, SessionInv
  <2> QED
    BY <1>9, <2>1 DEF Sessions!ProcessRequest, Sessions!Goto, Sessions!Stages, Sessions!shared
<1>10. ASSUME NEW w \in Workers, Sessions!MarkAsProcessed(w) PROVE Sessions!TypeOK'
  <2>1. slot[w] \in Sessions!Slots /\ request[w] \in Ids
    <3>1. slot[w] \in 0 .. Cardinality(Workers) - 1
      BY SameNotions, <1>10 DEF Sessions!MarkAsProcessed, Sessions!SlotsInBounds, Sessions!Stages
    <3>2. slot[w] \in Sessions!Slots
      BY <3>1 DEF Sessions!Slots
    <3> QED
      BY <1>10, <3>2 DEF Sessions!MarkAsProcessed, SessionInv
  <2> DEFINE d == dedup[slot[w]]
             e == [last |-> [d.last EXCEPT ![d.index] = request[w]],
                   index |-> (d.index + 1) % MaxLastIds]
  <2>2. d \in [last : [0 .. MaxLastIds - 1 -> Ids \cup {0}], index : 0 .. MaxLastIds - 1]
    BY <2>1
  <2>3. (d.index + 1) % MaxLastIds \in 0 .. MaxLastIds - 1
    BY <2>2 DEF Sessions!RegistryAssumption
  <2>4. e \in [last : [0 .. MaxLastIds - 1 -> Ids \cup {0}], index : 0 .. MaxLastIds - 1]
    BY <2>1, <2>2, <2>3
  <2>5. dedup' = [dedup EXCEPT ![slot[w]] = e]
    BY <1>10 DEF Sessions!MarkAsProcessed
  <2> HIDE DEF e
  <2>6. dedup' \in [Sessions!Slots -> [last : [0 .. MaxLastIds - 1 -> Ids \cup {0}], index : 0 .. MaxLastIds - 1]]
    BY <2>4, <2>5
  <2> QED
    BY <1>10, <2>6
      DEF Sessions!MarkAsProcessed, Sessions!Goto, Sessions!Stages, Sessions!history
<1>11. ASSUME NEW w \in Workers, Sessions!UnregisterUser(w) PROVE Sessions!TypeOK'
  <2>1. activeUsers' \in Seq([socket : Sockets, name : Names])
    BY SameNotions, <1>11, RemoveAtProperties DEF Sessions!UnregisterUser, Sessions!WithoutUser
  <2> QED
    BY <1>11, <2>1 DEF Sessions!UnregisterUser, Sessions!Goto, Sessions!Stages, Sessions!history
<1>12. ASSUME NEW w \in Workers, Sessions!CloseConnection(w) PROVE Sessions!TypeOK'
  BY <1>1, <1>12 DEF Sessions!CloseConnection
<1>13. CASE UNCHANGED Sessions!vars
  BY <1>13 DEF Sessions!vars, Sessions!shared, Sessions!history
<1> QED
  BY <1>2, <1>3, <1>4, <1>5, <1>6, <1>7, <1>8, <1>9, <1>10, <1>11, <1>12, <1>13
    DEF Sessions!Next

\* What each worker knows locally stays true.
LEMMA NextSessionInv ==
  ASSUME Sessions!RegistryAssumption
  PROVE  RegistryInv /\ [Sessions!Next]_(Sessions!vars) => SessionInv'
<1> SUFFICES ASSUME RegistryInv, [Sessions!Next]_(Sessions!vars) PROVE SessionInv'
  OBVIOUS
<1> USE DEF RegistryInv, Sessions!TypeOK, SessionInv
<1>1. ASSUME NEW w \in Workers, Sessions!Leave(w) PROVE SessionInv'
  BY <1>1 DEF Sessions!RegistryAssumption, Sessions!Leave, Sessions!Goto, Sessions!Stages
<1>2. ASSUME NEW w \in Workers, NEW s \in Sockets, Sessions!TakeConnection(w, s) PROVE SessionInv'
  BY <1>2 DEF Sessions!TakeConnection, Sessions!Goto, Sessions!Stages
<1>3. ASSUME NEW w \in Workers, UNCHANGED <<serving, nick, request>>, NEW stage \in Sessions!Stages,
             stage # "idle", stage \notin {"processing"}, Sessions!Goto(w, stage),
             pc[w] # "idle", nick[w] \in Names \/ stage = "auth",
             stage = "marking" => request[w] \in Ids
      PROVE  SessionInv'
  BY <1>3 DEF Sessions!Goto, Sessions!Stages
<1>4. ASSUME NEW w \in Workers, Sessions!Hello(w) PROVE SessionInv'
  BY <1>3, <1>4 DEF Sessions!Hello, Sessions!Stages
<1>5. ASSUME NEW w \in Workers, Sessions!HandshakeFails(w) PROVE SessionInv'
  BY <1>1, <1>5 DEF Sessions!HandshakeFails
<1>6. ASSUME NEW w \in Workers, NEW n \in Names, Sessions!CheckNickname(w, n) PROVE SessionInv'
  <2>1. CASE Sessions!IsNicknameTaken(n)
    BY <1>1, <1>6, <2>1 DEF Sessions!CheckNickname
  <2>2. CASE ~Sessions!IsNicknameTaken(n)
    BY <1>6, <2>2 DEF Sessions!CheckNickname, Sessions!Goto, Sessions!Stages
  <2> QED
    BY <2>1, <2>2
<1>7. ASSUME NEW w \in Workers, Sessions!ReadTotalUsers(w) PROVE SessionInv'
  BY <1>3, <1>7 DEF Sessions!ReadTotalUsers, Sessions!Stages
<1>8. ASSUME NEW w \in Workers, Sessions!RegisterUser(w) PROVE SessionInv'
  BY <1>3, <1>8 DEF Sessions!RegisterUser, Sessions!Stages
<1>9. ASSUME NEW w \in Workers, NEW id \in Ids, Sessions!ReceiveRequest(w, id) PROVE SessionInv'
  <2>1. CASE Sessions!IsDuplicate(w, id)
    BY <1>9, <2>1 DEF Sessions!ReceiveRequest
  <2>2. CASE ~Sessions!IsDuplicate(w, id)
    <3>1. /\ pc' = [pc EXCEPT ![w] = "processing"] /\ request' = [request EXCEPT ![w] = id]
          /\ UNCHANGED <<serving, nick>> /\ pc[w] = "online"
      BY <1>9, <2>2 DEF Sessions!ReceiveRequest, Sessions!Goto
    <3>2. \A v \in Workers : (pc[v] # "idle" <=> pc'[v] # "idle")
                            /\ (pc'[v] \in Sessions!Stages \ {"idle", "hello", "auth"} <=>
                                pc[v] \in Sessions!Stages \ {"idle", "hello", "auth"})
      BY <3>1 DEF Sessions!Stages
    <3>3. \A v \in Workers : pc'[v] \in {"processing", "marking"} => request'[v] \in Ids
      BY <1>9, <3>1
    <3> QED
      BY <3>1, <3>2, <3>3
  <2> QED
    BY <2>1, <2>2
<1>10. ASSUME NEW w \in Workers, Sessions!ProcessRequest(w) PROVE SessionInv'
  BY <1>3, <1>10 DEF Sessions!ProcessRequest, Sessions!Stages
<1>11. ASSUME NEW w \in Workers, Sessions!MarkAsProcessed(w) PROVE SessionInv'
  BY <1>11 DEF Sessions!MarkAsProcessed, Sessions!Goto, Sessions!Stages
<1>12. ASSUME NEW w \in Workers, Sessions!UnregisterUser(w) PROVE SessionInv'
  BY <1>3, <1>12 DEF Sessions!UnregisterUser, Sessions!Stages
<1>13. ASSUME NEW w \in Workers, Sessions!CloseConnection(w) PROVE SessionInv'
  BY <1>1, <1>13 DEF Sessions!CloseConnection
<1>14. CASE UNCHANGED Sessions!vars
  BY <1>14 DEF Sessions!vars
<1> QED
  BY <1>2, <1>4, <1>5, <1>6, <1>7, <1>8, <1>9, <1>10, <1>11, <1>12, <1>13, <1>14
    DEF Sessions!Next

\* Slots are read from totalUsers while their reader is not in the table yet.
LEMMA NextSlotsInBounds ==
  ASSUME Sessions!RegistryAssumption
  PROVE  RegistryInv /\ [Sessions!Next]_(Sessions!vars) => Sessions!SlotsInBounds'
<1> SUFFICES ASSUME RegistryInv, [Sessions!Next]_(Sessions!vars) PROVE Sessions!SlotsInBounds'
  OBVIOUS
<1> USE DEF RegistryInv, Sessions!TypeOK, Sessions!SlotsInBounds, Sessions!Stages
<1>1. ASSUME NEW w \in Workers, Sessions!Leave(w) PROVE Sessions!SlotsInBounds'
  BY <1>1 DEF Sessions!Leave, Sessions!Goto
<1>2. ASSUME NEW w \in Workers, Sessions!ReadTotalUsers(w) PROVE Sessions!SlotsInBounds'
  <2>1. w \in Workers \ Sessions!Online
    BY <1>2 DEF Sessions!ReadTotalUsers, Sessions!Online
  <2>2. Len(activeUsers) \in 0 .. Cardinality(Workers) - 1
    BY <2>1, RoomForOneMore
  <2> QED
    BY SameNotions, <1>2, <2>2 DEF Sessions!ReadTotalUsers, Sessions!DedupIndex, Sessions!Goto
<1>3. ASSUME NEW w \in Workers, UNCHANGED slot, NEW stage \in Sessions!Stages, Sessions!Goto(w, stage),
             stage \in {"hello", "auth", "checked"}
                \/ pc[w] \notin {"idle", "hello", "auth", "checked"}
      PROVE  Sessions!SlotsInBounds'
  BY <1>3 DEF Sessions!Goto
<1>4. ASSUME NEW w \in Workers, NEW s \in Sockets, Sessions!TakeConnection(w, s) PROVE Sessions!SlotsInBounds'
  BY <1>3, <1>4 DEF Sessions!TakeConnection
<1>5. ASSUME NEW w \in Workers, Sessions!Hello(w) PROVE Sessions!SlotsInBounds'
  BY <1>3, <1>5 DEF Sessions!Hello
<1>6. ASSUME NEW w \in Workers, NEW n \in Names, Sessions!CheckNickname(w, n) PROVE Sessions!SlotsInBounds'
  BY <1>1, <1>3, <1>6 DEF Sessions!CheckNickname
<1>7. ASSUME NEW w \in Workers, Sessions!RegisterUser(w) PROVE Sessions!SlotsInBounds'
  BY <1>3, <1>7 DEF Sessions!RegisterUser
<1>8. ASSUME NEW w \in Workers, NEW id \in Ids, Sessions!ReceiveRequest(w, id) PROVE Sessions!SlotsInBounds'
  <2>1. CASE UNCHANGED <<slot, pc>>
    BY <2>1
  <2> QED
    BY <1>3, <1>8, <2>1 DEF Sessions!ReceiveRequest
<1>9. ASSUME NEW w \in Workers, Sessions!ProcessRequest(w) PROVE Sessions!SlotsInBounds'
  BY <1>3, <1>9 DEF Sessions!ProcessRequest
<1>10. ASSUME NEW w \in Workers, Sessions!MarkAsProcessed(w) PROVE Sessions!SlotsInBounds'
  BY <1>3, <1>10 DEF Sessions!MarkAsProcessed
<1>11. ASSUME NEW w \in Workers, Sessions!UnregisterUser(w) PROVE Sessions!SlotsInBounds'
  BY <1>3, <1>11 DEF Sessions!UnregisterUser
<1>12. ASSUME NEW w \in Workers, Sessions!HandshakeFails(w) \/ Sessions!CloseConnection(w) PROVE Sessions!SlotsInBounds'
  BY <1>1, <1>12 DEF Sessions!HandshakeFails, Sessions!CloseConnection
<1>13. CASE UNCHANGED Sessions!vars
  BY <1>13 DEF Sessions!vars
<1> QED
  BY <1>2, <1>4, <1>5, <1>6, <1>7, <1>8, <1>9, <1>10, <1>11, <1>12, <1>13 DEF Sessions!Next

\* The table follows the sessions: only registerUser and unregisterUser change
\* it, and they change it with the set of sessions in progress.
LEMMA NextTableMatchesSessions ==
  ASSUME Sessions!RegistryAssumption
  PROVE  RegistryInv /\ [Sessions!Next]_(Sessions!vars) => Sessions!TableMatchesSessions'
<1> SUFFICES ASSUME RegistryInv, [Sessions!Next]_(Sessions!vars) PROVE Sessions!TableMatchesSessions'
  OBVIOUS
<1> USE DEF RegistryInv, Sessions!TypeOK
<1>1. ASSUME UNCHANGED activeUsers, Sessions!Online' = Sessions!Online,
             \A w \in Sessions!Online : serving'[w] = serving[w] /\ nick'[w] = nick[w]
      PROVE  Sessions!TableMatchesSessions'
  <2>1. \A w \in Sessions!Online : Sessions!Entry(w)' = Sessions!Entry(w)
    BY <1>1 DEF Sessions!Entry
  <2> QED
    BY <1>1, <2>1 DEF Sessions!TableMatchesSessions
<1>2. ASSUME NEW w \in Workers, NEW stage \in Sessions!Stages, Sessions!Goto(w, stage), UNCHANGED activeUsers,
             stage \in {"online", "processing", "marking"} <=> w \in Sessions!Online,
             \A v \in Workers : v # w \/ w \in Sessions!Online => serving'[v] = serving[v] /\ nick'[v] = nick[v]
      PROVE  Sessions!TableMatchesSessions'
  <2>1. Sessions!Online' = Sessions!Online
    BY <1>2 DEF Sessions!Goto, Sessions!Online
  <2>2. \A v \in Sessions!Online : serving'[v] = serving[v] /\ nick'[v] = nick[v]
    BY <1>2 DEF Sessions!Online
  <2> QED
    BY <1>1, <1>2, <2>1, <2>2
<1>3. ASSUME NEW w \in Workers \ Sessions!Online, Sessions!Leave(w) PROVE Sessions!TableMatchesSessions'
  BY <1>2, <1>3 DEF Sessions!Leave, Sessions!Stages, Sessions!shared
<1>4. ASSUME NEW w \in Workers, NEW s \in Sockets, Sessions!TakeConnection(w, s) PROVE Sessions!TableMatchesSessions'
  <2>1. w \notin Sessions!Online
    BY <1>4 DEF Sessions!TakeConnection, Sessions!Online
  <2> QED
    BY <1>2, <1>4, <2>1 DEF Sessions!TakeConnection, Sessions!Stages, Sessions!shared
<1>5. ASSUME NEW w \in Workers, Sessions!Hello(w) PROVE Sessions!TableMatchesSessions'
  <2>1. w \notin Sessions!Online
    BY <1>5 DEF Sessions!Hello, Sessions!Online
  <2> QED
    BY <1>2, <1>5, <2>1 DEF Sessions!Hello, Sessions!Stages, Sessions!shared
<1>6. ASSUME NEW w \in Workers, Sessions!HandshakeFails(w) \/ Sessions!CloseConnection(w) PROVE Sessions!TableMatchesSessions'
  BY <1>3, <1>6 DEF Sessions!HandshakeFails, Sessions!CloseConnection, Sessions!Online
<1>7. ASSUME NEW w \in Workers, NEW n \in Names, Sessions!CheckNickname(w, n) PROVE Sessions!TableMatchesSessions'
  <2>1. w \in Workers \ Sessions!Online
    BY <1>7 DEF Sessions!CheckNickname, Sessions!Online
  <2>2. CASE Sessions!IsNicknameTaken(n)
    BY <1>3, <1>7, <2>1, <2>2 DEF Sessions!CheckNickname
  <2>3. CASE ~Sessions!IsNicknameTaken(n)
    BY <1>2, <1>7, <2>1, <2>3 DEF Sessions!CheckNickname, Sessions!Stages, Sessions!shared
  <2> QED
    BY <2>2, <2>3
<1>8. ASSUME NEW w \in Workers, Sessions!ReadTotalUsers(w) PROVE Sessions!TableMatchesSessions'
  <2>1. w \notin Sessions!Online
    BY <1>8 DEF Sessions!ReadTotalUsers, Sessions!Online
  <2> QED
    BY <1>2, <1>8, <2>1 DEF Sessions!ReadTotalUsers, Sessions!Stages, Sessions!shared
<1>9. ASSUME NEW w \in Workers, Sessions!RegisterUser(w) PROVE Sessions!TableMatchesSessions'
  <2>1. w \in Workers \ Sessions!Online
    BY <1>9 DEF Sessions!RegisterUser, Sessions!Online
  <2>2. IsFiniteSet(Sessions!Online) /\ Len(activeUsers) < MaxClients
    BY <2>1, RoomForOneMore
  <2>3. activeUsers' = Append(activeUsers, Sessions!Entry(w))
    BY <1>9, <2>2 DEF Sessions!RegisterUser
  <2>4. Sessions!Entry(w) \in [socket : Sockets, name : Names]
    BY <1>9 DEF Sessions!RegisterUser, SessionInv, Sessions!Entry, Sessions!Stages
  <2>5. /\ Len(activeUsers') = Len(activeUsers) + 1
        /\ \A i \in 1 .. Len(activeUsers) : activeUsers'[i] = activeUsers[i]
        /\ activeUsers'[Len(activeUsers) + 1] = Sessions!Entry(w)
        /\ DOMAIN activeUsers' = 1 .. Len(activeUsers) + 1
        /\ DOMAIN activeUsers = 1 .. Len(activeUsers)
        /\ Len(activeUsers) \in Nat
    BY <2>3, <2>4, AppendProperties, LenProperties
  <2>6. Sessions!Online' = Sessions!Online \cup {w} /\ \A v \in Workers : Sessions!Entry(v)' = Sessions!Entry(v)
    BY <1>9 DEF Sessions!RegisterUser, Sessions!Goto, Sessions!Online, Sessions!Entry
  <2>7. Cardinality(Sessions!Online') = Cardinality(Sessions!Online) + 1
    BY <2>1, <2>2, <2>6, OneMoreOrLess
  <2>8. \A i \in DOMAIN activeUsers : activeUsers[i].socket # serving[w]
    <3>1. \A v \in Sessions!Online : Sessions!Entry(v).socket # serving[w]
      BY <1>9, <2>1 DEF Sessions!Entry, SessionInv, Sessions!Online, Sessions!RegisterUser
    <3> QED
      BY <3>1 DEF Sessions!TableMatchesSessions
  <2>9. Sessions!Entry(w).socket = serving[w]
    BY DEF Sessions!Entry
  <2>10. (Len(activeUsers) = Cardinality(Sessions!Online))'
    BY SameNotions, <2>5, <2>7 DEF Sessions!TableMatchesSessions
  <2>11. \A v \in Sessions!Online' : \E i \in DOMAIN activeUsers' : activeUsers'[i] = Sessions!Entry(v)
    BY <2>5, <2>6 DEF Sessions!TableMatchesSessions
  <2>12. \A i \in DOMAIN activeUsers' : \E v \in Sessions!Online' : activeUsers'[i] = Sessions!Entry(v)
    BY <2>5, <2>6 DEF Sessions!TableMatchesSessions
  <2>13. ASSUME NEW i \in DOMAIN activeUsers', NEW j \in DOMAIN activeUsers',
                activeUsers'[i].socket = activeUsers'[j].socket
         PROVE  i = j
    <3>1. i \in DOMAIN activeUsers \/ i = Len(activeUsers) + 1
      BY SameNotions, <2>5
    <3>2. j \in DOMAIN activeUsers \/ j = Len(activeUsers) + 1
      BY <2>5
    <3>3. \A k \in DOMAIN activeUsers : activeUsers'[k].socket # serving[w]
      BY <2>5, <2>8
    <3>4. activeUsers'[Len(activeUsers) + 1].socket = serving[w]
      BY <2>5, <2>9
    <3>5. CASE i \in DOMAIN activeUsers /\ j \in DOMAIN activeUsers
      <4>1. activeUsers[i].socket = activeUsers[j].socket
        BY <2>5, <2>13, <3>5
      <4> QED
        BY <3>5, <4>1 DEF Sessions!TableMatchesSessions
    <3> QED
      BY <2>13, <3>1, <3>2, <3>3, <3>4, <3>5
  <2> QED
    <3>1. Sessions!Online' \subseteq Workers
      BY DEF Sessions!Online
    <3>2. (\A v \in Sessions!Online : \E i \in DOMAIN activeUsers : activeUsers[i] = Sessions!Entry(v))'
      BY <2>6, <2>11, <3>1
    <3>3. (\A i \in DOMAIN activeUsers : \E v \in Sessions!Online : activeUsers[i] = Sessions!Entry(v))'
      BY <2>6, <2>12, <3>1
    <3> QED
      BY SameNotions, <2>10, <2>13, <3>2, <3>3 DEF Sessions!TableMatchesSessions
<1>10. ASSUME NEW w \in Workers, NEW id \in Ids, Sessions!ReceiveRequest(w, id) PROVE Sessions!TableMatchesSessions'
  <2>1. w \in Sessions!Online
    BY <1>10 DEF Sessions!ReceiveRequest, Sessions!Online
  <2>2. CASE Sessions!IsDuplicate(w, id)
    BY <1>1, <1>10, <2>2 DEF Sessions!ReceiveRequest, Sessions!shared, Sessions!Online
  <2>3. CASE ~Sessions!IsDuplicate(w, id)
    BY <1>2, <1>10, <2>1, <2>3 DEF Sessions!ReceiveRequest, Sessions!Stages, Sessions!shared
  <2> QED
    BY <2>2, <2>3
<1>11. ASSUME NEW w \in Workers, Sessions!ProcessRequest(w) PROVE Sessions!TableMatchesSessions'
  <2>1. w \in Sessions!Online
    BY <1>11 DEF Sessions!ProcessRequest, Sessions!Online
  <2> QED
    BY <1>2, <1>11, <2>1 DEF Sessions!ProcessRequest, Sessions!Stages, Sessions!shared
<1>12. ASSUME NEW w \in Workers, Sessions!MarkAsProcessed(w) PROVE Sessions!TableMatchesSessions'
  <2>1. w \in Sessions!Online
    BY <1>12 DEF Sessions!MarkAsProcessed, Sessions!Online
  <2> QED
    BY <1>2, <1>12, <2>1 DEF Sessions!MarkAsProcessed, Sessions!Stages
<1>13. ASSUME NEW w \in Workers, Sessions!UnregisterUser(w) PROVE Sessions!TableMatchesSessions'
  <2>1. w \in Sessions!Online
    BY <1>13 DEF Sessions!UnregisterUser, Sessions!Online
  <2>2. PICK i \in DOMAIN activeUsers :
           activeUsers[i].socket = serving[w] /\ activeUsers' = RemoveAt(activeUsers, i)
    <3>1. \E i \in DOMAIN activeUsers : activeUsers[i].socket = serving[w]
      BY <2>1 DEF Sessions!TableMatchesSessions, Sessions!Entry
    <3> QED
      BY SameNotions, <1>13, <3>1 DEF Sessions!UnregisterUser, Sessions!WithoutUser
  <2>3. DOMAIN activeUsers = 1 .. Len(activeUsers) /\ Len(activeUsers) \in Nat
    BY LenProperties
  <2>4. /\ activeUsers' \in Seq([socket : Sockets, name : Names])
        /\ Len(activeUsers') = Len(activeUsers) - 1
        /\ \A j \in 1 .. Len(activeUsers) - 1 :
              activeUsers'[j] = IF j < i THEN activeUsers[j] ELSE activeUsers[j + 1]
    <3>1. i \in 1 .. Len(activeUsers)
      BY <2>3
    <3>2. activeUsers \in Seq([socket : Sockets, name : Names])
      OBVIOUS
    <3> HIDE DEF RegistryInv, Sessions!TypeOK
    <3> QED
      BY <2>2, <3>1, <3>2, RemoveAtProperties
  <2>5. DOMAIN activeUsers' = 1 .. Len(activeUsers) - 1
    BY <2>4, LenProperties
  <2>6. Sessions!Online' = Sessions!Online \ {w} /\ \A v \in Workers : Sessions!Entry(v)' = Sessions!Entry(v)
    BY <1>13 DEF Sessions!UnregisterUser, Sessions!Goto, Sessions!Online, Sessions!Entry
  <2>7. Cardinality(Sessions!Online') = Cardinality(Sessions!Online) - 1
    <3>1. IsFiniteSet(Sessions!Online)
      BY SameNotions, FS_Subset DEF Sessions!RegistryAssumption, Sessions!Online
    <3> QED
      BY <2>1, <2>6, <3>1, OneMoreOrLess
  <2>8. ASSUME NEW v \in Sessions!Online'
        PROVE  \E j \in DOMAIN activeUsers' : activeUsers'[j] = Sessions!Entry(v)
    <3>1. PICK k \in DOMAIN activeUsers : activeUsers[k] = Sessions!Entry(v)
      BY <2>6 DEF Sessions!TableMatchesSessions
    <3>2. k # i
      <4>1. v # w /\ pc[v] # "idle" /\ v \in Workers
        BY <2>6 DEF Sessions!Online
      <4>2. serving[v] # serving[w]
        BY <4>1 DEF SessionInv
      <4> QED
        BY <2>2, <3>1, <4>2 DEF Sessions!Entry
    <3>3. CASE k < i
      <4>1. k \in 1 .. Len(activeUsers) - 1
        BY <2>3, <3>3
      <4>2. activeUsers'[k] = Sessions!Entry(v)
        BY <2>4, <3>1, <3>3, <4>1
      <4> QED
        BY <2>5, <4>1, <4>2
    <3>4. CASE k > i
      <4>1. k - 1 \in 1 .. Len(activeUsers) - 1 /\ (k - 1) + 1 = k /\ ~(k - 1 < i)
        BY <2>3, <3>4
      <4>2. activeUsers'[k - 1] = Sessions!Entry(v)
        BY <2>4, <3>1, <4>1
      <4> QED
        BY <2>5, <4>1, <4>2
    <3> QED
      BY <2>3, <3>2, <3>3, <3>4
  <2>9. ASSUME NEW j \in DOMAIN activeUsers'
        PROVE  \E k \in DOMAIN activeUsers :
                  k # i /\ k = (IF j < i THEN j ELSE j + 1) /\ activeUsers'[j] = activeUsers[k]
    BY <2>3, <2>4, <2>5, <2>9
  <2>10. ASSUME NEW j \in DOMAIN activeUsers'
         PROVE  \E v \in Sessions!Online' : activeUsers'[j] = Sessions!Entry(v)
    <3>1. PICK k \in DOMAIN activeUsers : k # i /\ activeUsers'[j] = activeUsers[k]
      BY <2>9
    <3>2. PICK v \in Sessions!Online : activeUsers[k] = Sessions!Entry(v)
      BY DEF Sessions!TableMatchesSessions
    <3>3. activeUsers[k].socket # serving[w]
      BY <2>2, <3>1 DEF Sessions!TableMatchesSessions
    <3>4. v # w
      BY <3>2, <3>3 DEF Sessions!Entry
    <3> QED
      BY <2>6, <3>1, <3>2, <3>4
  <2>11. ASSUME NEW j \in DOMAIN activeUsers', NEW k \in DOMAIN activeUsers',
                activeUsers'[j].socket = activeUsers'[k].socket
         PROVE  j = k
    <3>1. PICK m \in DOMAIN activeUsers :
             m # i /\ m = (IF j < i THEN j ELSE j + 1) /\ activeUsers'[j] = activeUsers[m]
      BY <2>9
    <3>2. PICK n \in DOMAIN activeUsers :
             n # i /\ n = (IF k < i THEN k ELSE k + 1) /\ activeUsers'[k] = activeUsers[n]
      BY <2>9
    <3>3. m = n
      BY <2>11, <3>1, <3>2 DEF Sessions!TableMatchesSessions
    <3> QED
      BY <2>3, <2>5, <3>1, <3>2, <3>3
  <2>12. (Len(activeUsers) = Cardinality(Sessions!Online))'
    BY SameNotions, <2>4, <2>7 DEF Sessions!TableMatchesSessions
  <2>13. \A v \in Sessions!Online' : \E j \in DOMAIN activeUsers' : activeUsers'[j] = Sessions!Entry(v)
    BY <2>8
  <2>14. serving' = serving /\ nick' = nick
    BY <1>13 DEF Sessions!UnregisterUser
  <2> HIDE DEF RegistryInv, Sessions!TypeOK
  <2> QED
    BY SameNotions, <2>10, <2>11, <2>12, <2>13, <2>14 DEF Sessions!TableMatchesSessions, Sessions!Entry
<1>14. CASE UNCHANGED Sessions!vars
  BY <1>1, <1>14 DEF Sessions!vars, Sessions!shared, Sessions!Online
<1> QED
  BY <1>4, <1>5, <1>6, <1>7, <1>8, <1>9, <1>10, <1>11, <1>12, <1>13, <1>14 DEF Sessions!Next

-----------------------------------------------------------------------------
\* The inductive invariant holds in every reachable state.
THEOREM RegistryInvariance ==
  ASSUME Sessions!RegistryAssumption
  PROVE  Sessions!Spec => []RegistryInv
<1>1. Sessions!Init => RegistryInv
  BY InitRegistryInv
<1>2. RegistryInv /\ [Sessions!Next]_(Sessions!vars) => RegistryInv'
  BY NextRegistryTypes, NextSessionInv, NextSlotsInBounds, NextTableMatchesSessions
    DEF RegistryInv
<1> QED
  BY <1>1, <1>2, PTL DEF Sessions!Spec

\* The shared tables and the locals of the workers keep their types; no slot
\* outside dedup_table is ever written.
THEOREM RegistryTypeCorrect ==
  ASSUME Sessions!RegistryAssumption
  PROVE  Sessions!Spec => []Sessions!TypeOK
<1>1. RegistryInv => Sessions!TypeOK
  BY DEF RegistryInv
<1> QED
  BY <1>1, RegistryInvariance, PTL

\* The user table is the set of sessions in progress, for any number of threads, and the
\* unlocked read of totalUsers never yields a slot beyond the pool's size.
THEOREM RegistryIsRightAlways ==
  ASSUME Sessions!RegistryAssumption
  PROVE  Sessions!Spec => []Sessions!RegistryIsRight
<1>1. RegistryInv => Sessions!RegistryIsRight
  BY DEF RegistryInv, Sessions!RegistryIsRight
<1> QED
  BY <1>1, RegistryInvariance, PTL
==============================================================================
