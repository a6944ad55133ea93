---------------------------- MODULE Lab3ChatProofs ----------------------------
(***************************************************************************)
(* Proofs about the chat of lab3 (Lab3Chat), for every number of users,    *)
(* workers and connections.                                                *)
(*                                                                         *)
(* The invariant about the pool adds to the checked properties which       *)
(* workers have a connection.  That about lost connections adds, for every *)
(* client that never got a second receiver, that one thread alone uses its *)
(* connection, what that thread may rely on at each of its stages, and     *)
(* that what the server sent comes in whole messages, the WELCOME first.   *)
(***************************************************************************)
EXTENDS Lab3Chat, DataLemmas

\* A worker has a connection unless it waits for one.
ServingInv == \A w \in Workers : serving[w] = NoConn <=> pc[w] \in {"check", "wait"}

\* The checked properties of the pool, and that.
PoolInv == ServingInv /\ OneOwner /\ NoLostWakeup

\* The types of the server's variables,
PoolTypes ==
  /\ up \in BOOLEAN /\ clientQueue \in Seq(Conns) /\ clients \in Seq(Conns)
  /\ pc \in [Workers -> {"check", "wait", "hello", "add", "joined", "loop", "remove", "close"}]
  /\ serving \in [Workers -> Conns \cup {NoConn}]
  /\ open \subseteq 1 .. made /\ madeBy \in Seq(Users) /\ made <= MaxConns

\* Sound: the types and the pool.
Pool == PoolTypes /\ PoolInv

\* The stages at which a worker has its connection in the vector clients.
Welcomed == {"joined", "loop", "remove"}

-----------------------------------------------------------------------------
\* Numbers of connections.
LEMMA ConnNumbers ==
  ASSUME PoolTypes
  PROVE  /\ made \in Nat /\ MaxConns \in Nat /\ Conns \subseteq Nat /\ NoConn \notin Conns
         /\ 1 .. made \subseteq Conns /\ (made < MaxConns => made + 1 \in Conns \ open)
BY BoundsAssumption, LenProperties DEF PoolTypes, Conns, made

\* The sets of workers are finite.
LEMMA WorkerSets ==
  ASSUME NEW W \in SUBSET Workers
  PROVE  IsFiniteSet(W) /\ Cardinality(W) \in Nat
BY BoundsAssumption, FS_Subset, FS_CardinalityType

\* A worker goes on with its connection.
LEMMA WorkerGoesOn ==
  ASSUME Pool, NEW w \in Workers, NEW stage, pc' = [pc EXCEPT ![w] = stage],
         UNCHANGED <<clientQueue, clients, serving, open>>,
         pc[w] \notin {"check", "wait"}, stage \notin {"check", "wait"},
         pc[w] \in Welcomed <=> stage \in Welcomed
  PROVE  PoolInv'
<1>1. /\ \A v \in Workers : v # w => pc'[v] = pc[v]
      /\ pc'[w] = stage
  BY DEF Pool, PoolTypes
<1>2. ServingInv'
  BY <1>1 DEF Pool, PoolInv, ServingInv
<1>3. {v \in Workers : pc'[v] \in Welcomed} = {v \in Workers : pc[v] \in Welcomed}
  BY <1>1
<1>4. OneOwner'
  BY <1>3 DEF Pool, PoolInv, OneOwner, Welcomed
<1>5. /\ {v \in Workers : pc'[v] = "wait"} = {v \in Workers : pc[v] = "wait"}
      /\ {v \in Workers : pc'[v] = "check"} = {v \in Workers : pc[v] = "check"}
  BY <1>1
<1>6. NoLostWakeup'
  BY <1>5 DEF Pool, PoolInv, NoLostWakeup, Waiting
<1> QED
  BY <1>2, <1>4, <1>6 DEF PoolInv

\* A worker takes the first connection, or goes to sleep.
LEMMA WorkerTakes ==
  ASSUME Pool, NEW w \in Workers, Take(w)
  PROVE  PoolInv'
<1>1. /\ pc[w] = "check" /\ UNCHANGED <<clients, open>> /\ serving[w] = NoConn
      /\ PoolTypes /\ ServingInv /\ OneOwner /\ NoLostWakeup
  BY DEF Pool, PoolInv, Take, ServingInv
<1> DEFINE idle == {v \in Workers : pc[v] = "check"}
<1>2. CASE clientQueue = <<>>
  <2>1. UNCHANGED <<clientQueue, serving>> /\ pc' = [pc EXCEPT ![w] = "wait"]
    BY <1>2 DEF Take, Goto
  <2>2. pc'[w] = "wait" /\ \A v \in Workers : v # w => pc'[v] = pc[v]
    BY <1>1, <2>1 DEF PoolTypes
  <2>3. ServingInv'
    BY <1>1, <2>1, <2>2 DEF ServingInv
  <2>4. {v \in Workers : pc'[v] \in Welcomed} = {v \in Workers : pc[v] \in Welcomed}
    BY <1>1, <2>2 DEF Welcomed
  <2>5. OneOwner'
    BY <1>1, <2>1, <2>4 DEF OneOwner, Welcomed
  <2>6. NoLostWakeup'
    <3>1. Cardinality({v \in Workers : pc'[v] = "check"}) \in Nat
      BY WorkerSets
    <3>2. Len(clientQueue') = 0
      BY <1>2, <2>1
    <3> QED
      BY <3>1, <3>2 DEF NoLostWakeup
  <2> QED
    BY <2>3, <2>5, <2>6 DEF PoolInv
<1>3. CASE clientQueue # <<>>
  <2> DEFINE c == Head(clientQueue)
  <2>1. /\ serving' = [serving EXCEPT ![w] = c] /\ clientQueue' = Tail(clientQueue)
        /\ pc' = [pc EXCEPT ![w] = "hello"]
    BY <1>3 DEF Take, Goto
  <2>2. /\ pc'[w] = "hello" /\ \A v \in Workers : v # w => pc'[v] = pc[v]
        /\ serving'[w] = c /\ \A v \in Workers : v # w => serving'[v] = serving[v]
    BY <1>1, <2>1 DEF PoolTypes
  <2>3. /\ c \in Conns /\ c # NoConn /\ Tail(clientQueue) \in Seq(Conns)
        /\ ToSet(clientQueue) = ToSet(Tail(clientQueue)) \cup {c}
        /\ Len(Tail(clientQueue)) = Len(clientQueue) - 1 /\ Len(clientQueue) \in Nat \ {0}
    <3>1. clientQueue \in Seq(Conns) /\ NoConn \notin Conns
      BY <1>1, ConnNumbers DEF PoolTypes
    <3>2. Len(Tail(clientQueue)) = Len(clientQueue) - 1 /\ Len(clientQueue) \in Nat \ {0}
      BY <1>3, <3>1, HeadTailProperties, EmptySeq, LenProperties
    <3>3. /\ c \in Conns /\ Tail(clientQueue) \in Seq(Conns)
          /\ ToSet(clientQueue) = ToSet(Tail(clientQueue)) \cup {c}
      BY <1>3, <3>1, ToSetTail
    <3> QED
      BY <3>1, <3>2, <3>3
  <2>4. IsInjective(Tail(clientQueue)) /\ c \notin ToSet(Tail(clientQueue))
    <3> DEFINE n == Len(clientQueue)
    <3>1. /\ clientQueue \in Seq(Conns) /\ n \in Nat \ {0} /\ Tail(clientQueue) \in Seq(Conns)
          /\ Len(Tail(clientQueue)) = n - 1 /\ c = clientQueue[1]
          /\ \A i \in 1 .. n - 1 : Tail(clientQueue)[i] = clientQueue[i + 1]
      BY <1>1, <1>3, <2>3, HeadTailProperties DEF PoolTypes
    <3>2. DOMAIN Tail(clientQueue) = 1 .. n - 1 /\ DOMAIN clientQueue = 1 .. n
      BY <3>1, LenProperties
    <3>3. \A i, j \in 1 .. n : clientQueue[i] = clientQueue[j] => i = j
      BY <1>1, <3>2 DEF OneOwner, IsInjective
    <3>4. \A i, j \in 1 .. n - 1 : Tail(clientQueue)[i] = Tail(clientQueue)[j] => i = j
      <4> SUFFICES ASSUME NEW i \in 1 .. n - 1, NEW j \in 1 .. n - 1,
                          Tail(clientQueue)[i] = Tail(clientQueue)[j]
                   PROVE  i = j
        OBVIOUS
      <4>1. i + 1 \in 1 .. n /\ j + 1 \in 1 .. n /\ clientQueue[i + 1] = clientQueue[j + 1]
        BY <3>1
      <4> QED
        BY <3>3, <4>1
    <3>5. \A i \in 1 .. n - 1 : Tail(clientQueue)[i] # c
      <4> SUFFICES ASSUME NEW i \in 1 .. n - 1, Tail(clientQueue)[i] = c PROVE FALSE
        OBVIOUS
      <4>1. i + 1 \in 1 .. n /\ 1 \in 1 .. n /\ clientQueue[i + 1] = clientQueue[1] /\ i + 1 # 1
        BY <3>1
      <4> QED
        BY <3>3, <4>1
    <3> QED
      BY <3>2, <3>4, <3>5 DEF IsInjective, ToSet
  <2>5. ServingInv'
    BY <1>1, <2>2, <2>3 DEF ServingInv
  <2>6. OneOwner'
    <3>1. {v \in Workers : pc'[v] \in Welcomed} = {v \in Workers : pc[v] \in Welcomed}
      BY <1>1, <2>2 DEF Welcomed
    <3>2. \A v \in Workers : pc[v] \in Welcomed => serving'[v] = serving[v]
      BY <1>1, <2>2 DEF Welcomed
    <3>3. ToSet(clients') = {serving'[v] : v \in {v \in Workers : pc'[v] \in Welcomed}}
      BY <1>1, <3>1, <3>2 DEF OneOwner, Welcomed
    <3>4. /\ \A v \in Workers : serving[v] \notin ToSet(clientQueue)
          /\ \A v, x \in Workers : serving[v] = serving[x] /\ v # x => serving[v] = NoConn
          /\ open = (ToSet(clientQueue) \cup {serving[v] : v \in Workers}) \ {NoConn}
      BY <1>1 DEF OneOwner
    <3>5. \A v \in Workers : serving'[v] \notin ToSet(clientQueue')
      BY <2>1, <2>2, <2>3, <2>4, <3>4
    <3>6. \A v, x \in Workers : serving'[v] = serving'[x] /\ v # x => serving'[v] = NoConn
      BY <2>2, <2>3, <3>4
    <3>7. open' = (ToSet(clientQueue') \cup {serving'[v] : v \in Workers}) \ {NoConn}
      <4>1. {serving'[v] : v \in Workers} \ {NoConn} =
               ({serving[v] : v \in Workers} \ {NoConn}) \cup {c}
        BY <1>1, <2>2, <2>3
      <4> QED
        BY <1>1, <2>1, <2>3, <3>4, <4>1
    <3> QED
      BY <1>1, <2>1, <2>4, <3>3, <3>5, <3>6, <3>7 DEF OneOwner, Welcomed
  <2>7. NoLostWakeup'
    <3>1. {v \in Workers : pc'[v] = "check"} = idle \ {w} /\ w \in idle
      BY <1>1, <2>2
    <3>2. Cardinality(idle \ {w}) = Cardinality(idle) - 1 /\ Cardinality(idle) \in Nat
      BY <3>1, WorkerSets, OneMoreOrLess
    <3>3. {v \in Workers : pc'[v] = "wait"} = {v \in Workers : pc[v] = "wait"}
      BY <1>1, <2>2
    <3>4. {v \in Workers : pc[v] = "wait"} # {} => Len(clientQueue) <= Cardinality(idle)
      BY <1>1 DEF NoLostWakeup, Waiting
    <3>5. {v \in Workers : pc'[v] = "wait"} # {} =>
             Len(clientQueue') <= Cardinality({v \in Workers : pc'[v] = "check"})
      <4> SUFFICES ASSUME {v \in Workers : pc'[v] = "wait"} # {}
                   PROVE  Len(clientQueue') <= Cardinality({v \in Workers : pc'[v] = "check"})
        OBVIOUS
      <4>1. Len(clientQueue) <= Cardinality(idle)
        BY <3>3, <3>4
      <4>2. Cardinality({v \in Workers : pc'[v] = "check"}) = Cardinality(idle) - 1
        BY <3>1, <3>2
      <4>3. Len(clientQueue') = Len(clientQueue) - 1
        BY <2>1, <2>3
      <4> HIDE DEF idle
      <4> QED
        BY <2>3, <3>2, <4>1, <4>2, <4>3
    <3> QED
      BY <3>5 DEF NoLostWakeup, Waiting
  <2> QED
    BY <2>5, <2>6, <2>7 DEF PoolInv
<1> QED
  BY <1>2, <1>3

\* A client is entered in the vector.
LEMMA WorkerAdds ==
  ASSUME Pool, NEW w \in Workers, AddClient(w)
  PROVE  PoolInv' /\ clients' \in Seq(Conns)
<1>1. /\ pc[w] = "add" /\ UNCHANGED <<clientQueue, serving, open>>
      /\ clients' = Append(clients, serving[w]) /\ pc' = [pc EXCEPT ![w] = "joined"]
      /\ PoolTypes /\ ServingInv /\ OneOwner /\ NoLostWakeup /\ clients \in Seq(Conns)
  BY DEF Pool, PoolInv, PoolTypes, AddClient, Goto
<1>2. pc'[w] = "joined" /\ \A v \in Workers : v # w => pc'[v] = pc[v]
  BY <1>1 DEF PoolTypes
<1>3. serving[w] \in Conns /\ serving[w] # NoConn
  BY <1>1 DEF ServingInv, PoolTypes
<1>4. serving[w] \notin ToSet(clients)
  BY <1>1, <1>3 DEF OneOwner
<1>5. /\ ToSet(clients') = ToSet(clients) \cup {serving[w]} /\ IsInjective(clients')
      /\ clients' \in Seq(Conns)
  BY <1>1, <1>3, <1>4, ToSetAppend, InjectiveAppend, AppendProperties DEF OneOwner
<1>6. ServingInv'
  BY <1>1, <1>2 DEF ServingInv
<1>7. {v \in Workers : pc'[v] \in Welcomed} = {v \in Workers : pc[v] \in Welcomed} \cup {w}
  BY <1>1, <1>2 DEF Welcomed
<1>8. ToSet(clients') = {serving'[v] : v \in {v \in Workers : pc'[v] \in Welcomed}}
  BY <1>1, <1>5, <1>7 DEF OneOwner, Welcomed
<1>9. OneOwner'
  BY <1>1, <1>5, <1>8 DEF OneOwner, Welcomed
<1>10. /\ {v \in Workers : pc'[v] = "wait"} = {v \in Workers : pc[v] = "wait"}
       /\ {v \in Workers : pc'[v] = "check"} = {v \in Workers : pc[v] = "check"}
  BY <1>1, <1>2
<1>11. NoLostWakeup'
  BY <1>1, <1>10 DEF NoLostWakeup, Waiting
<1> QED
  BY <1>5, <1>6, <1>9, <1>11 DEF PoolInv

\* What erase(remove_if) leaves of the vector.
LEMMA RemovedIs ==
  ASSUME PoolTypes, IsInjective(clients), NEW c \in ToSet(clients)
  PROVE  /\ Removed(c) \in Seq(Conns) /\ IsInjective(Removed(c))
         /\ ToSet(Removed(c)) = ToSet(clients) \ {c}
<1>1. clients \in Seq(Conns) /\ DOMAIN clients = 1 .. Len(clients)
  BY LenProperties DEF PoolTypes
<1>2. PICK m \in 1 .. Len(clients) : clients[m] = c
  BY <1>1 DEF ToSet
<1>3. {i \in DOMAIN clients : clients[i] # c} = DOMAIN clients \ {m}
  BY <1>1, <1>2 DEF IsInjective
<1>4. Removed(c) = RemoveAt(clients, m)
  BY <1>1, <1>3, KeptButOne DEF Removed
<1> QED
  BY <1>1, <1>2, <1>4, RemoveAtProperties, InjectiveRemoveAt

\* A client is removed from it.
LEMMA WorkerRemoves ==
  ASSUME Pool, NEW w \in Workers, RemoveClient(w)
  PROVE  PoolInv' /\ clients' \in Seq(Conns)
<1>1. /\ pc[w] = "remove" /\ UNCHANGED <<clientQueue, serving, open>>
      /\ clients' = Removed(serving[w]) /\ pc' = [pc EXCEPT ![w] = "close"]
      /\ PoolTypes /\ ServingInv /\ OneOwner /\ NoLostWakeup
  BY DEF Pool, PoolInv, RemoveClient, Goto
<1>2. pc'[w] = "close" /\ \A v \in Workers : v # w => pc'[v] = pc[v]
  BY <1>1 DEF PoolTypes
<1>3. serving[w] # NoConn /\ serving[w] \in ToSet(clients)
  BY <1>1 DEF ServingInv, OneOwner
<1>4. /\ ToSet(clients') = ToSet(clients) \ {serving[w]} /\ IsInjective(clients')
      /\ clients' \in Seq(Conns)
  BY <1>1, <1>3, RemovedIs DEF OneOwner
<1>5. ServingInv'
  BY <1>1, <1>2 DEF ServingInv
<1>6. {v \in Workers : pc'[v] \in Welcomed} = {v \in Workers : pc[v] \in Welcomed} \ {w}
  BY <1>1, <1>2 DEF Welcomed
<1>7. \A v \in Workers : v # w => serving[v] # serving[w]
  BY <1>1, <1>3 DEF OneOwner
<1>8. ToSet(clients') = {serving'[v] : v \in {v \in Workers : pc'[v] \in Welcomed}}
  BY <1>1, <1>4, <1>6, <1>7 DEF OneOwner, Welcomed
<1>9. OneOwner'
  BY <1>1, <1>4, <1>8 DEF OneOwner, Welcomed
<1>10. /\ {v \in Workers : pc'[v] = "wait"} = {v \in Workers : pc[v] = "wait"}
       /\ {v \in Workers : pc'[v] = "check"} = {v \in Workers : pc[v] = "check"}
  BY <1>1, <1>2
<1>11. NoLostWakeup'
  BY <1>1, <1>10 DEF NoLostWakeup, Waiting
<1> QED
  BY <1>4, <1>5, <1>9, <1>11 DEF PoolInv

\* A worker closes its connection.
LEMMA WorkerCloses ==
  ASSUME Pool, NEW w \in Workers, Close(w)
  PROVE  PoolInv'
<1> DEFINE c == serving[w]
           idle == {v \in Workers : pc[v] = "check"}
<1>1. /\ pc[w] = "close" /\ UNCHANGED <<clientQueue, clients>> /\ open' = open \ {c}
      /\ serving' = [serving EXCEPT ![w] = NoConn] /\ pc' = [pc EXCEPT ![w] = "check"]
      /\ PoolTypes /\ ServingInv /\ OneOwner /\ NoLostWakeup
  BY DEF Pool, PoolInv, Close, Goto
<1>2. /\ pc'[w] = "check" /\ \A v \in Workers : v # w => pc'[v] = pc[v]
      /\ serving'[w] = NoConn /\ \A v \in Workers : v # w => serving'[v] = serving[v]
  BY <1>1 DEF PoolTypes
<1>3. c # NoConn /\ c \notin ToSet(clientQueue) /\ \A v \in Workers : v # w => serving[v] # c
  BY <1>1 DEF ServingInv, OneOwner
<1>4. ServingInv'
  BY <1>1, <1>2 DEF ServingInv
<1>5. {v \in Workers : pc'[v] \in Welcomed} = {v \in Workers : pc[v] \in Welcomed}
  BY <1>1, <1>2 DEF Welcomed
<1>6. ToSet(clients') = {serving'[v] : v \in {v \in Workers : pc'[v] \in Welcomed}}
  <2>1. \A v \in Workers : pc[v] \in Welcomed => serving'[v] = serving[v]
    BY <1>1, <1>2 DEF Welcomed
  <2> QED
    BY <1>1, <1>5, <2>1 DEF OneOwner, Welcomed
<1>7. open' = (ToSet(clientQueue') \cup {serving'[v] : v \in Workers}) \ {NoConn}
  <2>1. {serving'[v] : v \in Workers} \ {NoConn} =
           ({serving[v] : v \in Workers} \ {NoConn}) \ {c}
    BY <1>2, <1>3
  <2>2. open = (ToSet(clientQueue) \cup {serving[v] : v \in Workers}) \ {NoConn}
    BY <1>1 DEF OneOwner
  <2> QED
    BY <1>1, <1>3, <2>1, <2>2
<1>8. \A v \in Workers : serving'[v] \notin ToSet(clientQueue')
  <2>1. NoConn \notin ToSet(clientQueue)
    BY <1>1, ConnNumbers, ToSetType DEF PoolTypes
  <2> QED
    BY <1>1, <1>2, <2>1 DEF OneOwner
<1>9. \A v, x \in Workers : serving'[v] = serving'[x] /\ v # x => serving'[v] = NoConn
  BY <1>1, <1>2 DEF OneOwner
<1>10. OneOwner'
  BY <1>1, <1>6, <1>7, <1>8, <1>9 DEF OneOwner, Welcomed
<1>11. NoLostWakeup'
  <2>1. {v \in Workers : pc'[v] = "check"} = idle \cup {w}
    BY <1>1, <1>2
  <2>2. /\ Cardinality(idle \cup {w}) >= Cardinality(idle)
        /\ Cardinality(idle) \in Nat /\ Cardinality(idle \cup {w}) \in Nat
    BY WorkerSets, OneMoreOrLess
  <2>3. {v \in Workers : pc'[v] = "wait"} = {v \in Workers : pc[v] = "wait"}
    BY <1>1, <1>2
  <2>4. {v \in Workers : pc[v] = "wait"} # {} => Len(clientQueue) <= Cardinality(idle)
    BY <1>1 DEF NoLostWakeup, Waiting
  <2>5. Len(clientQueue) \in Nat /\ clientQueue' = clientQueue
    BY <1>1, LenProperties DEF PoolTypes
  <2>6. ASSUME {v \in Workers : pc'[v] = "wait"} # {}
        PROVE  Len(clientQueue') <= Cardinality({v \in Workers : pc'[v] = "check"})
    <3>1. Len(clientQueue) <= Cardinality(idle)
      BY <2>3, <2>4, <2>6
    <3>2. Cardinality({v \in Workers : pc'[v] = "check"}) = Cardinality(idle \cup {w})
      BY <2>1
    <3> HIDE DEF idle
    <3> QED
      BY <2>2, <2>5, <3>1, <3>2
  <2> QED
    BY <2>6 DEF NoLostWakeup, Waiting
<1> QED
  BY <1>4, <1>10, <1>11 DEF PoolInv

\* A connection is accepted.
LEMMA ConnectionPushed ==
  ASSUME Pool, made < MaxConns, Push(made + 1), open' = open \cup {made + 1},
         UNCHANGED <<clients, serving>>
  PROVE  /\ PoolInv' /\ clientQueue' \in Seq(Conns)
         /\ pc' \in [Workers -> {"check", "wait", "hello", "add", "joined", "loop", "remove", "close"}]
         /\ \A w \in Workers : pc'[w] = pc[w] \/ (pc[w] = "wait" /\ pc'[w] = "check")
<1> DEFINE c == made + 1
           idle == {v \in Workers : pc[v] = "check"}
<1>1. /\ clientQueue' = Append(clientQueue, c) /\ clientQueue \in Seq(Conns)
      /\ PoolTypes /\ ServingInv /\ OneOwner /\ NoLostWakeup
  BY DEF Pool, PoolInv, PoolTypes, Push
<1>2. c \in Conns /\ c \notin open /\ c # NoConn
  BY <1>1, ConnNumbers
<1>3. c \notin ToSet(clientQueue) /\ \A v \in Workers : serving[v] # c
  BY <1>1, <1>2 DEF OneOwner
<1>4. /\ ToSet(clientQueue') = ToSet(clientQueue) \cup {c} /\ IsInjective(clientQueue')
      /\ clientQueue' \in Seq(Conns)
      /\ Len(clientQueue') = Len(clientQueue) + 1 /\ Len(clientQueue) \in Nat
  BY <1>1, <1>2, <1>3, ToSetAppend, InjectiveAppend, AppendProperties, LenProperties DEF OneOwner
<1>5. \/ Waiting = {} /\ pc' = pc
      \/ \E w \in Waiting : pc' = [pc EXCEPT ![w] = "check"]
  BY DEF Push, Signal, Goto
<1>6. \A w \in Workers : pc'[w] = pc[w] \/ (pc[w] = "wait" /\ pc'[w] = "check")
  BY <1>1, <1>5 DEF PoolTypes, Waiting
<1>7. pc' \in [Workers -> {"check", "wait", "hello", "add", "joined", "loop", "remove", "close"}]
  BY <1>1, <1>5 DEF PoolTypes, Waiting
<1>8. ServingInv'
  BY <1>1, <1>6 DEF ServingInv
<1>9. {v \in Workers : pc'[v] \in Welcomed} = {v \in Workers : pc[v] \in Welcomed}
  BY <1>6 DEF Welcomed
<1>10. OneOwner'
  <2>1. ToSet(clients') = {serving'[v] : v \in {v \in Workers : pc'[v] \in Welcomed}}
    BY <1>1, <1>9 DEF OneOwner, Welcomed
  <2>2. open' = (ToSet(clientQueue') \cup {serving'[v] : v \in Workers}) \ {NoConn}
    BY <1>1, <1>2, <1>4 DEF OneOwner
  <2> QED
    BY <1>1, <1>3, <1>4, <2>1, <2>2 DEF OneOwner, Welcomed
<1>11. NoLostWakeup'
  <2>1. CASE Waiting = {} /\ pc' = pc
    BY <2>1 DEF NoLostWakeup, Waiting
  <2>2. CASE \E w \in Waiting : pc' = [pc EXCEPT ![w] = "check"]
    <3>1. PICK w \in Waiting : pc' = [pc EXCEPT ![w] = "check"]
      BY <2>2
    <3>2. {v \in Workers : pc'[v] = "check"} = idle \cup {w} /\ w \notin idle
      BY <1>1, <3>1 DEF Waiting, PoolTypes
    <3>3. Cardinality(idle \cup {w}) = Cardinality(idle) + 1 /\ Cardinality(idle) \in Nat
      BY <3>2, WorkerSets, OneMoreOrLess
    <3>4. Len(clientQueue) <= Cardinality(idle)
      BY <1>1, <3>1 DEF NoLostWakeup
    <3>5. Cardinality({v \in Workers : pc'[v] = "check"}) = Cardinality(idle) + 1
      BY <3>2, <3>3
    <3> HIDE DEF idle
    <3>6. Len(clientQueue') <= Cardinality({v \in Workers : pc'[v] = "check"})
      BY <1>4, <3>3, <3>4, <3>5
    <3> QED
      BY <3>6 DEF NoLostWakeup
  <2> QED
    BY <1>5, <2>1, <2>2
<1> QED
  BY <1>4, <1>6, <1>7, <1>8, <1>10, <1>11 DEF PoolInv

\* The server ends.
LEMMA PoolAfterCrash ==
  ASSUME Crash PROVE PoolInv'
<1>1. /\ clientQueue' = <<>> /\ clients' = <<>> /\ open' = {}
      /\ pc' = [w \in Workers |-> "check"] /\ serving' = [w \in Workers |-> NoConn]
  BY DEF Crash
<1>2. ToSet(<<>>) = {} /\ IsInjective(<<>>)
  BY ToSetEmpty DEF IsInjective
<1> QED
  BY <1>1, <1>2 DEF PoolInv, ServingInv, OneOwner, NoLostWakeup, Waiting

-----------------------------------------------------------------------------
\* What the client sends,
FromClient == {"HELLO", "TEXT", "PING", "BYE"}

\* what it gets,
FromServer == {"WELCOME", "PONG", "TEXT", "body", "zeros"}

\* and the stages of its threads.
ThreadStages == {"off", "start", "open", "hello", "answer", "welcome", "other", "loop", "text",
                 "drop", "input"}

\* The types of the streams,
StreamTypes == toServer \in [Conns -> Seq(FromClient)] /\ toClient \in [Conns -> Seq(FromServer)]

\* of the clients,
ClientTypes ==
  /\ fds \in [Users -> SUBSET (1 .. made)] /\ sockfd \in [Users -> Conns \cup {NoConn}]
  /\ thread \in [Users -> [Threads -> ThreadStages]]
  /\ reading \in [Users -> [Threads -> Conns \cup {NoConn}]]

\* of what happened before,
PastTypes == retried \subseteq Users /\ flooded \cup cutOff \cup robbed \subseteq 1 .. made

\* and of everything.
AllTypes == PoolTypes /\ StreamTypes /\ ClientTypes /\ PastTypes

\* A vector without duplicates of what workers serve is no longer than their number.
LEMMA VectorFits ==
  ASSUME PoolTypes, OneOwner
  PROVE  Len(clients) <= Cardinality(Workers)
<1> DEFINE n == Len(clients)
           by == [i \in 1 .. n |-> CHOOSE w \in Workers : serving[w] = clients[i]]
<1>1. n \in Nat /\ DOMAIN clients = 1 .. n
  BY LenProperties DEF PoolTypes
<1>2. ASSUME NEW i \in 1 .. n PROVE by[i] \in Workers /\ serving[by[i]] = clients[i]
  <2>1. \E w \in Workers : serving[w] = clients[i]
    <3>1. clients[i] \in ToSet(clients)
      BY <1>1, <1>2 DEF ToSet
    <3>2. ToSet(clients) = {serving[w] : w \in {w \in Workers : pc[w] \in Welcomed}}
      BY DEF OneOwner, Welcomed
    <3> QED
      BY <3>1, <3>2
  <2> QED
    BY <1>2, <2>1
<1>3. \A i, j \in 1 .. n : clients[i] = clients[j] => i = j
  BY <1>1 DEF OneOwner, IsInjective
<1>4. by \in [1 .. n -> Workers]
  BY <1>2
<1>5. \A i, j \in 1 .. n : by[i] = by[j] => i = j
  <2> HIDE DEF by
  <2> QED
    BY <1>2, <1>3
<1>6. by \in Injection(1 .. n, Workers)
  <2> HIDE DEF by
  <2> QED
    BY <1>4, <1>5 DEF Injection, IsInjective
<1>7. IsFiniteSet(Workers) /\ Cardinality(1 .. n) = n
  BY <1>1, FirstNumbers, BoundsAssumption
<1>8. Cardinality(1 .. n) <= Cardinality(Workers)
  BY <1>6, <1>7, FS_Injection
<1> QED
  BY <1>7, <1>8

\* The parts make up the whole.
LEMMA TypesAre ==
  /\ TypeOK => AllTypes
  /\ AllTypes /\ OneOwner => TypeOK
<1>1. TypeOK => AllTypes
  BY DEF TypeOK, AllTypes, PoolTypes, StreamTypes, ClientTypes, PastTypes, FromClient, FromServer,
     ThreadStages
<1>2. AllTypes /\ OneOwner => TypeOK
  BY VectorFits DEF TypeOK, AllTypes, PoolTypes, StreamTypes, ClientTypes, PastTypes, FromClient,
     FromServer, ThreadStages
<1> QED
  BY <1>1, <1>2

\* The vector's connections are some that were made.
LEMMA VectorOfMade ==
  ASSUME PoolTypes, OneOwner, ServingInv
  PROVE  ToSet(clients) \subseteq open
<1>1. \A w \in Workers : pc[w] \in Welcomed => serving[w] # NoConn
  BY DEF ServingInv, Welcomed
<1> QED
  BY <1>1 DEF OneOwner, Welcomed

-----------------------------------------------------------------------------
(* What the server sends *)

\* sendMessage by the server.
LEMMA Sent ==
  ASSUME StreamTypes, NEW c \in Conns, NEW type \in {"WELCOME", "PONG"}, SendMessage(c, type)
  PROVE  /\ toClient' \in [Conns -> Seq(FromServer)]
         /\ \A d \in Conns : d # c => toClient'[d] = toClient[d]
         /\ ClientHolds(c) => toClient'[c] = toClient[c] \o <<type, "body">>
         /\ ~ClientHolds(c) => toClient'[c] = toClient[c]
<1>1. <<type, "body">> \in Seq(FromServer)
  BY DEF FromServer
<1>2. toClient[c] \o <<type, "body">> \in Seq(FromServer)
  BY <1>1, ConcatProperties DEF StreamTypes
<1> QED
  BY <1>2 DEF SendMessage, StreamTypes

\* A broadcast.
LEMMA BroadcastIs ==
  ASSUME StreamTypes, NEW sender, NEW fills \in BOOLEAN, BroadcastText(sender, fills)
  PROVE  /\ toClient' \in [Conns -> Seq(FromServer)]
         /\ \A c \in Conns :
               \/ toClient'[c] = toClient[c]
               \/ /\ c \in ToSet(clients)
                  /\ \/ toClient'[c] = toClient[c] \o <<"TEXT", "body">>
                     \/ toClient'[c] = toClient[c] \o <<"TEXT", "body", "zeros">> /\ c \in flooded'
         /\ flooded \subseteq flooded' /\ flooded' \subseteq flooded \cup ToSet(clients)
<1> DEFINE receivers == {c \in ToSet(clients) \ {sender} : ClientHolds(c)}
           more == IF fills THEN <<"TEXT", "body">> ELSE <<"TEXT", "body", "zeros">>
<1>1. /\ toClient' = [c \in Conns |-> toClient[c] \o IF c \in receivers THEN more ELSE <<>>]
      /\ flooded' = IF fills THEN flooded ELSE flooded \cup receivers
  BY DEF BroadcastText, Broadcasted
<1>2. more \in Seq(FromServer) /\ <<>> \in Seq(FromServer)
  <2>1. <<"TEXT", "body">> \in Seq(FromServer)
    BY DEF FromServer
  <2>2. <<"TEXT", "body", "zeros">> \in Seq(FromServer)
    BY DEF FromServer
  <2>3. <<>> \in Seq(FromServer)
    OBVIOUS
  <2> QED
    BY <2>1, <2>2, <2>3
<1>3. ASSUME NEW c \in Conns
      PROVE  /\ toClient'[c] \in Seq(FromServer)
             /\ c \notin receivers => toClient'[c] = toClient[c]
             /\ c \in receivers => toClient'[c] = toClient[c] \o more
  <2>1. toClient[c] \in Seq(FromServer)
    BY DEF StreamTypes
  <2>2. CASE c \in receivers
    <3>1. toClient'[c] = toClient[c] \o more
      BY <1>1, <2>2
    <3>2. more \in Seq(FromServer)
      BY <1>2
    <3> HIDE DEF more
    <3>3. toClient[c] \o more \in Seq(FromServer)
      BY <2>1, <3>2, ConcatProperties
    <3> QED
      BY <2>2, <3>1, <3>3
  <2>3. CASE c \notin receivers
    <3>1. toClient'[c] = toClient[c] \o <<>>
      BY <1>1, <2>3
    <3>2. toClient[c] \o <<>> = toClient[c]
      BY <2>1, ConcatEmptySeq
    <3> QED
      BY <2>1, <2>3, <3>1, <3>2
  <2> QED
    BY <2>2, <2>3
<1>4. toClient' \in [Conns -> Seq(FromServer)]
  BY <1>1, <1>3
<1>5. flooded \subseteq flooded' /\ flooded' \subseteq flooded \cup ToSet(clients)
  BY <1>1
<1>6. ASSUME NEW c \in receivers
      PROVE  c \in ToSet(clients) /\ (~fills => c \in flooded')
  BY <1>1
<1> HIDE DEF receivers
<1> QED
  BY <1>3, <1>4, <1>5, <1>6

\* The client takes what is first.
LEMMA ClientTook ==
  ASSUME StreamTypes, NEW c \in Conns,
         toClient' = [toClient EXCEPT ![c] = IF toClient[c] # <<>> THEN Tail(@) ELSE @]
  PROVE  /\ toClient' \in [Conns -> Seq(FromServer)]
         /\ \A d \in Conns : d # c => toClient'[d] = toClient[d]
         /\ toClient[c] # <<>> => toClient'[c] = Tail(toClient[c])
<1>1. toClient[c] # <<>> => Tail(toClient[c]) \in Seq(FromServer)
  BY HeadTailProperties DEF StreamTypes
<1> QED
  BY <1>1 DEF StreamTypes

-----------------------------------------------------------------------------
(* The types *)

\* Steps of the server.
LEMMA WorkerTypes ==
  ASSUME AllTypes, PoolInv, NEW w \in Workers, WorkerStep(w)
  PROVE  AllTypes'
<1>1. PoolTypes /\ StreamTypes /\ ClientTypes /\ PastTypes /\ Pool
  BY DEF AllTypes, Pool
<1>2. made' = made /\ UNCHANGED <<client, madeBy, up, crashes, retried, cutOff, robbed>>
  BY DEF WorkerStep, Take, Hello, AddClient, Joined, Serve, RemoveClient, Close, made, past
<1>3. ClientTypes'
  BY <1>1, <1>2 DEF ClientTypes, client
<1>4. open' \subseteq open
  BY DEF WorkerStep, Take, Hello, AddClient, Joined, Serve, RemoveClient, Close
<1>5. ToSet(clients) \subseteq 1 .. made
  BY <1>1, VectorOfMade DEF PoolInv, PoolTypes
<1>6. pc[w] \notin {"check", "wait"} => serving[w] \in Conns /\ serving[w] # NoConn
  BY <1>1 DEF PoolInv, ServingInv, PoolTypes
<1>7. \A c \in Conns : Received(c) => toServer' \in [Conns -> Seq(FromClient)]
  <2> SUFFICES ASSUME NEW c \in Conns, Received(c) PROVE toServer' \in [Conns -> Seq(FromClient)]
    OBVIOUS
  <2>1. toServer[c] # <<>> => Tail(toServer[c]) \in Seq(FromClient)
    BY <1>1, HeadTailProperties DEF StreamTypes
  <2> QED
    BY <1>1, <2>1 DEF Received, StreamTypes
<1>8. ASSUME PoolTypes', toServer' \in [Conns -> Seq(FromClient)],
             toClient' \in [Conns -> Seq(FromServer)], flooded' \subseteq 1 .. made
      PROVE  AllTypes'
  BY <1>1, <1>2, <1>3, <1>8 DEF AllTypes, StreamTypes, PastTypes
<1>9. CASE Take(w)
  <2>1. clientQueue' \in Seq(Conns) /\ serving' \in [Workers -> Conns \cup {NoConn}]
    <3>1. clientQueue # <<>> => Tail(clientQueue) \in Seq(Conns) /\ Head(clientQueue) \in Conns
      BY <1>1, HeadTailProperties DEF PoolTypes
    <3> QED
      BY <1>1, <1>9, <3>1 DEF Take, PoolTypes
  <2>2. PoolTypes'
    BY <1>1, <1>2, <1>9, <2>1 DEF Take, Goto, PoolTypes
  <2> QED
    BY <1>1, <1>8, <1>9, <2>2 DEF Take, past, StreamTypes, PastTypes
<1>10. CASE Hello(w)
  <2>1. PoolTypes'
    BY <1>1, <1>2, <1>10 DEF Hello, Goto, PoolTypes
  <2>2. serving[w] \in Conns
    BY <1>6, <1>10 DEF Hello
  <2>3. toClient' \in [Conns -> Seq(FromServer)]
    BY <1>1, <1>10, <2>2, Sent DEF Hello, StreamTypes
  <2> QED
    BY <1>1, <1>7, <1>8, <1>10, <2>1, <2>2, <2>3 DEF Hello, past, PastTypes
<1>11. CASE AddClient(w)
  <2>1. PoolTypes'
    BY <1>1, <1>2, <1>11, WorkerAdds DEF AddClient, Goto, PoolTypes
  <2> QED
    BY <1>1, <1>8, <1>11, <2>1 DEF AddClient, past, StreamTypes, PastTypes
<1>12. CASE Joined(w)
  <2>1. PoolTypes'
    BY <1>1, <1>2, <1>12 DEF Joined, Goto, PoolTypes
  <2>2. toClient' \in [Conns -> Seq(FromServer)] /\ flooded' \subseteq 1 .. made
    BY <1>1, <1>5, <1>12, BroadcastIs DEF Joined, PastTypes
  <2> QED
    BY <1>1, <1>8, <1>12, <2>1, <2>2 DEF Joined, StreamTypes
<1>13. CASE Serve(w)
  <2>1. PoolTypes'
    BY <1>1, <1>2, <1>13 DEF Serve, Goto, PoolTypes
  <2>2. serving[w] \in Conns /\ Received(serving[w])
    BY <1>6, <1>13 DEF Serve
  <2>3. \/ \E fills \in BOOLEAN : BroadcastText(serving[w], fills)
        \/ SendMessage(serving[w], "PONG") /\ UNCHANGED flooded
        \/ UNCHANGED <<toClient, flooded>>
    BY <1>13 DEF Serve
  <2>4. toClient' \in [Conns -> Seq(FromServer)] /\ flooded' \subseteq 1 .. made
    BY <1>1, <1>5, <2>2, <2>3, BroadcastIs, Sent DEF StreamTypes, PastTypes
  <2> QED
    BY <1>7, <1>8, <2>1, <2>2, <2>4
<1>14. CASE RemoveClient(w)
  <2>1. PoolTypes'
    BY <1>1, <1>2, <1>14, WorkerRemoves DEF RemoveClient, Goto, PoolTypes
  <2> QED
    BY <1>1, <1>8, <1>14, <2>1 DEF RemoveClient, past, StreamTypes, PastTypes
<1>15. CASE Close(w)
  <2>1. PoolTypes'
    BY <1>1, <1>2, <1>4, <1>15 DEF Close, Goto, PoolTypes
  <2>2. toServer' \in [Conns -> Seq(FromClient)]
    BY <1>1, <1>6, <1>15 DEF Close, StreamTypes
  <2> QED
    BY <1>1, <1>8, <1>15, <2>1, <2>2 DEF Close, past, StreamTypes, PastTypes
<1> QED
  BY <1>9, <1>10, <1>11, <1>12, <1>13, <1>14, <1>15 DEF WorkerStep

\* The server ends, or starts.
LEMMA ServerTypes ==
  ASSUME AllTypes, Crash \/ Start
  PROVE  AllTypes'
<1>1. PoolTypes /\ StreamTypes /\ ClientTypes /\ PastTypes
  BY DEF AllTypes
<1>2. made' = made /\ UNCHANGED <<client, madeBy, toClient, past>>
  BY DEF Crash, Start, made
<1>3. ClientTypes' /\ PastTypes'
  BY <1>1, <1>2 DEF ClientTypes, PastTypes, client, past
<1>4. CASE Crash
  <2>1. PoolTypes'
    <3>1. /\ up' \in BOOLEAN /\ clientQueue' \in Seq(Conns) /\ clients' \in Seq(Conns)
      <4>1. up' = FALSE /\ clientQueue' = <<>> /\ clients' = <<>>
        BY <1>4 DEF Crash
      <4>2. <<>> \in Seq(Conns)
        OBVIOUS
      <4> QED
        BY <4>1, <4>2
    <3>2. /\ pc' \in [Workers -> {"check", "wait", "hello", "add", "joined", "loop", "remove", "close"}]
          /\ serving' \in [Workers -> Conns \cup {NoConn}]
      BY <1>4 DEF Crash
    <3>3. open' \subseteq 1 .. made' /\ madeBy' \in Seq(Users) /\ made' <= MaxConns
      BY <1>1, <1>2, <1>4 DEF Crash, PoolTypes
    <3> QED
      BY <3>1, <3>2, <3>3 DEF PoolTypes
  <2>2. StreamTypes'
    BY <1>1, <1>2, <1>4 DEF Crash, StreamTypes
  <2> QED
    BY <1>3, <2>1, <2>2 DEF AllTypes
<1>5. CASE Start
  <2>1. PoolTypes' /\ StreamTypes'
    BY <1>1, <1>2, <1>5 DEF Start, PoolTypes, StreamTypes
  <2> QED
    BY <1>3, <2>1 DEF AllTypes
<1> QED
  BY <1>4, <1>5

\* A thread goes on.
LEMMA StageTypes ==
  ASSUME ClientTypes, NEW u \in Users, NEW t \in Threads, NEW stage \in ThreadStages,
         Stage(u, t, stage)
  PROVE  /\ thread' \in [Users -> [Threads -> ThreadStages]]
         /\ thread'[u][t] = stage
         /\ \A r \in Threads : r # t => thread'[u][r] = thread[u][r]
         /\ \A v \in Users : v # u => thread'[v] = thread[v]
BY DEF ClientTypes, Stage

\* An attempt of a thread fails.
LEMMA FailTypes ==
  ASSUME ClientTypes, PastTypes, NEW u \in Users, NEW t \in Threads, Fail(u, t)
  PROVE  /\ thread' \in [Users -> [Threads -> ThreadStages]]
         /\ reading' \in [Users -> [Threads -> Conns \cup {NoConn}]]
         /\ retried' \subseteq Users
<1>1. PICK stage \in ThreadStages : Stage(u, t, stage)
  BY DEF Fail, ThreadStages
<1>2. thread' \in [Users -> [Threads -> ThreadStages]]
  BY <1>1, StageTypes
<1>3. reading' \in [Users -> [Threads -> Conns \cup {NoConn}]]
  BY DEF Fail, ClientTypes
<1> QED
  BY <1>2, <1>3 DEF Fail, PastTypes

\* What a client sends.
LEMMA SentToServer ==
  ASSUME StreamTypes, NEW u \in Users, NEW type \in FromClient, SendToServer(u, type),
         PoolTypes
  PROVE  /\ toServer' \in [Conns -> Seq(FromClient)]
         /\ \A c \in Conns : toServer'[c] # toServer[c] => c = sockfd[u]
         /\ \A c \in Conns : c \notin open => toServer'[c] = toServer[c]
<1> DEFINE c == sockfd[u]
<1>1. CASE c \in fds[u] \cap open
  <2>1. c \in Conns
    BY <1>1, ConnNumbers DEF PoolTypes
  <2>2. Append(toServer[c], type) \in Seq(FromClient)
    BY <2>1, AppendProperties DEF StreamTypes
  <2>3. toServer' = [toServer EXCEPT ![c] = Append(toServer[c], type)]
    BY <1>1 DEF SendToServer
  <2> HIDE DEF c
  <2>4. toServer' \in [Conns -> Seq(FromClient)] /\ \A d \in Conns : d # c => toServer'[d] = toServer[d]
    BY <2>1, <2>2, <2>3 DEF StreamTypes
  <2>5. c \in open /\ c = sockfd[u]
    BY <1>1 DEF c
  <2> QED
    BY <2>4, <2>5
<1>2. CASE c \notin fds[u] \cap open
  BY <1>2 DEF SendToServer, StreamTypes
<1> QED
  BY <1>1, <1>2

\* Steps that make no connection.
LEMMA ClientStepTypes ==
  ASSUME AllTypes, UNCHANGED <<server, madeBy>>, StreamTypes', ClientTypes',
         retried' \subseteq Users, flooded' \cup cutOff' \cup robbed' \subseteq 1 .. made
  PROVE  AllTypes'
<1>1. made' = made
  BY DEF made
<1>2. PoolTypes'
  BY <1>1 DEF AllTypes, PoolTypes, server
<1>3. PastTypes'
  BY <1>1 DEF PastTypes
<1> QED
  BY <1>2, <1>3 DEF AllTypes

\* Steps of a thread.
LEMMA ThreadTypes ==
  ASSUME AllTypes, NEW u \in Users, NEW t \in Threads, ThreadStep(u, t), PoolTypes'
  PROVE  AllTypes'
<1>1. PoolTypes /\ StreamTypes /\ ClientTypes /\ PastTypes /\ 1 .. made \subseteq Conns
  BY ConnNumbers DEF AllTypes
<1>2. CASE ConnectToServer(u, t)
  <2>1. CASE /\ up /\ made < MaxConns
             /\ madeBy' = Append(madeBy, u)
             /\ sockfd' = [sockfd EXCEPT ![u] = made + 1]
             /\ fds' = [fds EXCEPT ![u] = @ \cup {made + 1}]
             /\ Stage(u, t, "hello")
             /\ UNCHANGED <<retried, reading>>
    <3>1. made' = made + 1 /\ made \in Nat /\ made + 1 \in Conns
      BY <1>1, <2>1, ConnNumbers, AppendProperties DEF PoolTypes, made
    <3>2. 1 .. made' = (1 .. made) \cup {made + 1}
      BY <3>1
    <3>3. fds' \in [Users -> SUBSET (1 .. made')] /\ sockfd' \in [Users -> Conns \cup {NoConn}]
      <4> DEFINE was == 1 .. made
      <4>1. fds \in [Users -> SUBSET was] /\ 1 .. made' = was \cup {made + 1}
        BY <1>1, <3>2 DEF ClientTypes
      <4> HIDE DEF was
      <4>2. fds' \in [Users -> SUBSET (was \cup {made + 1})]
        BY <2>1, <4>1
      <4>3. sockfd' \in [Users -> Conns \cup {NoConn}]
        BY <1>1, <2>1, <3>1 DEF ClientTypes
      <4> QED
        BY <4>1, <4>2, <4>3
    <3>4. thread' \in [Users -> [Threads -> ThreadStages]]
      BY <1>1, <2>1, StageTypes DEF ThreadStages
    <3>5. ClientTypes'
      BY <1>1, <2>1, <3>3, <3>4 DEF ClientTypes
    <3>6. UNCHANGED <<toServer, toClient, flooded, cutOff, robbed, retried>>
      BY <1>2, <2>1 DEF ConnectToServer
    <3>7. StreamTypes' /\ PastTypes'
      BY <1>1, <3>2, <3>6 DEF StreamTypes, PastTypes
    <3> QED
      BY <3>5, <3>7 DEF AllTypes
  <2>2. CASE Fail(u, t) /\ UNCHANGED <<madeBy, sockfd, fds, open, clientQueue, pc>>
    <3>1. made' = made /\ UNCHANGED <<toServer, toClient, flooded, cutOff, robbed>>
      BY <1>2, <2>2 DEF ConnectToServer, made
    <3>2. ClientTypes' /\ retried' \subseteq Users
      BY <1>1, <2>2, <3>1, FailTypes DEF ClientTypes
    <3>3. StreamTypes' /\ PastTypes'
      BY <1>1, <3>1, <3>2 DEF StreamTypes, PastTypes
    <3> QED
      BY <3>2, <3>3 DEF AllTypes
  <2> QED
    BY <1>2, <2>1, <2>2 DEF ConnectToServer
<1>3. CASE SendHello(u, t)
  <2>1. toServer' \in [Conns -> Seq(FromClient)]
    BY <1>1, <1>3, SentToServer DEF SendHello, FromClient
  <2>2. thread' \in [Users -> [Threads -> ThreadStages]]
    BY <1>1, <1>3, StageTypes DEF SendHello, ThreadStages
  <2>3. ClientTypes' /\ StreamTypes'
    BY <1>1, <1>3, <2>1, <2>2 DEF SendHello, ClientTypes, StreamTypes, made
  <2> QED
    BY <1>1, <1>3, <2>3, ClientStepTypes DEF SendHello, past, PastTypes
<1>4. CASE Recv(u, t)
  <2>1. CASE reading' = [reading EXCEPT ![u][t] = sockfd[u]] /\ UNCHANGED <<thread, retried>>
    <3>1. reading' \in [Users -> [Threads -> Conns \cup {NoConn}]]
      BY <1>1, <2>1 DEF ClientTypes
    <3>2. ClientTypes' /\ StreamTypes'
      BY <1>1, <1>4, <2>1, <3>1 DEF Recv, ClientTypes, StreamTypes, made
    <3> QED
      BY <1>1, <1>4, <2>1, <3>2, ClientStepTypes DEF Recv, PastTypes
  <2>2. CASE Fail(u, t)
    <3>1. ClientTypes' /\ StreamTypes' /\ retried' \subseteq Users
      BY <1>1, <1>4, <2>2, FailTypes DEF Recv, ClientTypes, StreamTypes, made
    <3> QED
      BY <1>1, <1>4, <3>1, ClientStepTypes DEF Recv, PastTypes
  <2> QED
    BY <1>4, <2>1, <2>2 DEF Recv

<1>5. CASE RecvHeader(u, t)
  <2> DEFINE c == reading[u][t]
  <2>1. c \in Conns
    BY <1>1, <1>5 DEF RecvHeader, ClientTypes
  <2>2. toClient' = [toClient EXCEPT ![c] = IF toClient[c] # <<>> THEN Tail(@) ELSE @]
    BY <1>5 DEF RecvHeader
  <2>3. toClient' \in [Conns -> Seq(FromServer)]
    <3> HIDE DEF c
    <3> QED
      BY <1>1, <2>1, <2>2, ClientTook
  <2>4. StreamTypes' /\ fds' = fds /\ sockfd' = sockfd /\ made' = made
    BY <1>1, <1>5, <2>3 DEF RecvHeader, StreamTypes, made
  <2>5. CASE /\ \E stage \in ThreadStages : Stage(u, t, stage)
             /\ UNCHANGED <<reading, retried, cutOff>>
    <3>1. thread' \in [Users -> [Threads -> ThreadStages]]
      BY <1>1, <2>5, StageTypes
    <3>2. ClientTypes'
      BY <1>1, <2>4, <2>5, <3>1 DEF ClientTypes
    <3> QED
      BY <1>1, <1>5, <2>4, <2>5, <3>2, ClientStepTypes DEF RecvHeader, PastTypes
  <2>6. CASE Fail(u, t) /\ cutOff' = IF c \in open THEN cutOff \cup {c} ELSE cutOff
    <3>1. ClientTypes' /\ retried' \subseteq Users
      BY <1>1, <2>4, <2>6, FailTypes DEF ClientTypes
    <3>2. cutOff' \subseteq 1 .. made
      BY <1>1, <2>6 DEF PoolTypes, PastTypes
    <3> QED
      BY <1>1, <1>5, <2>4, <3>1, <3>2, ClientStepTypes DEF RecvHeader, PastTypes
  <2>7. \/ Fail(u, t) /\ cutOff' = IF c \in open THEN cutOff \cup {c} ELSE cutOff
        \/ /\ Stage(u, t, IF thread[u][t] = "loop" THEN "text"
                          ELSE IF Head(toClient[c]) = "WELCOME" THEN "welcome" ELSE "other")
           /\ UNCHANGED <<reading, retried, cutOff>>
    BY <1>5 DEF RecvHeader
  <2> HIDE DEF c
  <2>8. (IF thread[u][t] = "loop" THEN "text"
         ELSE IF Head(toClient[c]) = "WELCOME" THEN "welcome" ELSE "other") \in ThreadStages
    BY DEF ThreadStages
  <2> QED
    BY <2>5, <2>6, <2>7, <2>8
<1>6. CASE RecvBody(u, t)
  <2> DEFINE c == reading[u][t]
  <2>1. c \in Conns \cup {NoConn}
    BY <1>1 DEF ClientTypes
  <2>2. toClient' = [toClient EXCEPT ![c] = IF toClient[c] # <<>> THEN Tail(@) ELSE @]
    BY <1>6 DEF RecvBody
  <2>3. toClient' \in [Conns -> Seq(FromServer)]
    <3> HIDE DEF c
    <3>1. CASE c \in Conns
      BY <1>1, <2>2, <3>1, ClientTook
    <3>2. CASE c \notin Conns
      BY <1>1, <2>2, <3>2 DEF StreamTypes
    <3> QED
      BY <3>1, <3>2
  <2>4. StreamTypes' /\ fds' = fds /\ sockfd' = sockfd /\ made' = made
    BY <1>1, <1>6, <2>3 DEF RecvBody, StreamTypes, made
  <2>5. CASE Fail(u, t)
    <3>1. ClientTypes' /\ retried' \subseteq Users
      BY <1>1, <2>4, <2>5, FailTypes DEF ClientTypes
    <3> QED
      BY <1>1, <1>6, <2>4, <3>1, ClientStepTypes DEF RecvBody, PastTypes
  <2>6. CASE /\ thread' = [thread EXCEPT ![u] = IF thread[u][t] = "welcome" THEN Connected(u, t)
                                                ELSE [@ EXCEPT ![t] = "loop"]]
             /\ reading' = [reading EXCEPT ![u][t] = NoConn]
             /\ UNCHANGED retried
    <3>1. Connected(u, t) \in [Threads -> ThreadStages]
      <4>1. thread[u] \in [Threads -> ThreadStages]
        BY <1>1 DEF ClientTypes
      <4>2. CASE t # "main"
        <5>1. Connected(u, t) = [thread[u] EXCEPT ![t] = "loop"]
          BY <4>2 DEF Connected
        <5>2. "loop" \in ThreadStages
          BY DEF ThreadStages
        <5> QED
          BY <4>1, <5>1, <5>2
      <4>3. CASE t = "main"
        <5>1. Connected(u, t) = [r \in Threads |-> CASE r = "main" -> "input"
                                                     [] r = "second" /\ u \notin retried -> "off"
                                                     [] OTHER -> "loop"]
          BY <4>3 DEF Connected
        <5>2. \A r \in Threads : (CASE r = "main" -> "input"
                                    [] r = "second" /\ u \notin retried -> "off"
                                    [] OTHER -> "loop") \in ThreadStages
          BY DEF ThreadStages
        <5> QED
          BY <5>1, <5>2
      <4> QED
        BY <4>2, <4>3
    <3>2. [thread[u] EXCEPT ![t] = "loop"] \in [Threads -> ThreadStages]
      BY <1>1 DEF ClientTypes, ThreadStages
    <3>3. thread' \in [Users -> [Threads -> ThreadStages]]
      <4>1. CASE thread[u][t] = "welcome"
        <5>1. thread' = [thread EXCEPT ![u] = Connected(u, t)]
          BY <2>6, <4>1
        <5> QED
          BY <1>1, <3>1, <5>1 DEF ClientTypes
      <4>2. CASE thread[u][t] # "welcome"
        <5>1. thread' = [thread EXCEPT ![u] = [thread[u] EXCEPT ![t] = "loop"]]
          BY <2>6, <4>2
        <5> QED
          BY <1>1, <3>2, <5>1 DEF ClientTypes
      <4> QED
        BY <4>1, <4>2
    <3>4. reading' \in [Users -> [Threads -> Conns \cup {NoConn}]]
      BY <1>1, <2>6 DEF ClientTypes
    <3>5. ClientTypes'
      BY <1>1, <2>4, <3>3, <3>4 DEF ClientTypes
    <3> QED
      BY <1>1, <1>6, <2>4, <2>6, <3>5, ClientStepTypes DEF RecvBody, PastTypes
  <2> QED
    BY <1>6, <2>5, <2>6 DEF RecvBody
<1>7. CASE Drop(u, t)
  <2>1. fds' \in [Users -> SUBSET (1 .. made)] /\ made' = made
    BY <1>1, <1>7 DEF Drop, ClientTypes, made
  <2>2. thread' \in [Users -> [Threads -> ThreadStages]]
    BY <1>1, <1>7, StageTypes DEF Drop, ThreadStages
  <2>3. toClient' \in [Conns -> Seq(FromServer)]
    BY <1>1, <1>7 DEF Drop, StreamTypes
  <2>4. ClientTypes' /\ StreamTypes'
    BY <1>1, <1>7, <2>1, <2>2, <2>3 DEF Drop, ClientTypes, StreamTypes
  <2>5. robbed' \subseteq 1 .. made
    BY <1>1, <1>7 DEF Drop, PoolTypes, PastTypes
  <2> QED
    BY <1>1, <1>7, <2>4, <2>5, ClientStepTypes DEF Drop, PastTypes
<1> QED
  BY <1>2, <1>3, <1>4, <1>5, <1>6, <1>7 DEF ThreadStep

\* What main does with a line.
LEMMA MainTypes ==
  ASSUME AllTypes, NEW u \in Users, Input(u) \/ Quit(u)
  PROVE  AllTypes'
<1>1. PoolTypes /\ StreamTypes /\ ClientTypes /\ PastTypes /\ 1 .. made \subseteq Conns
  BY ConnNumbers DEF AllTypes
<1>2. CASE Input(u)
  <2>1. toServer' \in [Conns -> Seq(FromClient)]
    BY <1>1, <1>2, SentToServer DEF Input, FromClient
  <2>2. ClientTypes' /\ StreamTypes'
    BY <1>1, <1>2, <2>1 DEF Input, ClientTypes, StreamTypes, client, made
  <2> QED
    BY <1>1, <1>2, <2>2, ClientStepTypes DEF Input, past, PastTypes
<1>3. CASE Quit(u)
  <2>1. toServer' \in [Conns -> Seq(FromClient)]
    BY <1>1, <1>3, SentToServer DEF Quit, FromClient
  <2>2. toClient' \in [Conns -> Seq(FromServer)]
    BY <1>1, <1>3 DEF Quit, StreamTypes
  <2>3. fds' \in [Users -> SUBSET (1 .. made)] /\ sockfd' \in [Users -> Conns \cup {NoConn}]
    BY <1>1, <1>3 DEF Quit, ClientTypes
  <2>4. thread' \in [Users -> [Threads -> ThreadStages]]
    BY <1>1, <1>3 DEF Quit, ClientTypes, ThreadStages
  <2>5. reading' \in [Users -> [Threads -> Conns \cup {NoConn}]]
    BY <1>1, <1>3 DEF Quit, ClientTypes
  <2>6. ClientTypes' /\ StreamTypes'
    BY <1>3, <2>1, <2>2, <2>3, <2>4, <2>5 DEF Quit, ClientTypes, StreamTypes, made
  <2> QED
    BY <1>1, <1>3, <2>6, ClientStepTypes DEF Quit, past, PastTypes
<1> QED
  BY <1>2, <1>3

-----------------------------------------------------------------------------
(* The pool, in every step *)

\* The invariant about the pool.
SoundPool == AllTypes /\ PoolInv

\* The server's steps.
LEMMA ServerKeepsPool ==
  ASSUME SoundPool, NEW w \in Workers, WorkerStep(w)
  PROVE  PoolInv'
<1>1. Pool
  BY DEF SoundPool, AllTypes, Pool
<1>2. CASE Take(w)
  BY <1>1, <1>2, WorkerTakes
<1>3. CASE Hello(w)
  <2>1. CASE pc' = [pc EXCEPT ![w] = "add"]
    BY <1>1, <1>3, <2>1, WorkerGoesOn DEF Hello, Welcomed
  <2>2. CASE pc' = [pc EXCEPT ![w] = "close"]
    BY <1>1, <1>3, <2>2, WorkerGoesOn DEF Hello, Welcomed
  <2> QED
    BY <1>3, <2>1, <2>2 DEF Hello, Goto
<1>4. CASE AddClient(w)
  BY <1>1, <1>4, WorkerAdds
<1>5. CASE Joined(w)
  BY <1>1, <1>5, WorkerGoesOn DEF Joined, Goto, Welcomed
<1>6. CASE Serve(w)
  <2>1. \/ pc' = [pc EXCEPT ![w] = "loop"]
        \/ pc' = [pc EXCEPT ![w] = "remove"]
    BY <1>6 DEF Serve, Goto
  <2>2. pc[w] = "loop" /\ UNCHANGED <<clientQueue, clients, serving, open>>
    BY <1>6 DEF Serve
  <2> QED
    BY <1>1, <2>1, <2>2, WorkerGoesOn DEF Welcomed
<1>7. CASE RemoveClient(w)
  BY <1>1, <1>7, WorkerRemoves
<1>8. CASE Close(w)
  BY <1>1, <1>8, WorkerCloses
<1> QED
  BY <1>2, <1>3, <1>4, <1>5, <1>6, <1>7, <1>8 DEF WorkerStep

\* Steps that leave the pool alone.
LEMMA PoolUntouched ==
  ASSUME PoolInv, UNCHANGED <<clientQueue, clients, pc, serving, open>>
  PROVE  PoolInv'
BY DEF PoolInv, ServingInv, OneOwner, NoLostWakeup, Waiting

\* The clients' steps.
LEMMA ClientKeepsPool ==
  ASSUME SoundPool, NEW u \in Users, Input(u) \/ Quit(u) \/ \E t \in Threads : ThreadStep(u, t)
  PROVE  PoolInv' /\ PoolTypes'
<1>1. Pool /\ PoolInv /\ PoolTypes
  BY DEF SoundPool, AllTypes, Pool
<1>2. CASE UNCHANGED <<server, madeBy>>
  BY <1>1, <1>2, PoolUntouched DEF server, PoolTypes, made
<1>3. CASE \E t \in Threads : ConnectToServer(u, t)
  <2>1. PICK t \in Threads : ConnectToServer(u, t)
    BY <1>3
  <2>2. CASE /\ made < MaxConns /\ madeBy' = Append(madeBy, u)
             /\ open' = open \cup {made + 1} /\ Push(made + 1)
    <3>1. UNCHANGED <<up, clients, serving>>
      BY <2>1 DEF ConnectToServer
    <3>2. /\ PoolInv' /\ clientQueue' \in Seq(Conns)
          /\ pc' \in [Workers -> {"check", "wait", "hello", "add", "joined", "loop", "remove", "close"}]
      BY <1>1, <2>2, <3>1, ConnectionPushed
    <3>3. made' = made + 1 /\ made \in Nat /\ madeBy' \in Seq(Users)
      BY <1>1, <2>2, ConnNumbers, AppendProperties DEF PoolTypes, made
    <3>4. open' \subseteq 1 .. made'
      BY <1>1, <2>2, <3>3 DEF PoolTypes
    <3>5. made' <= MaxConns
      BY <2>2, <3>3, BoundsAssumption
    <3> QED
      BY <1>1, <3>1, <3>2, <3>3, <3>4, <3>5 DEF PoolTypes
  <2>3. CASE UNCHANGED <<madeBy, open, clientQueue, pc>>
    BY <1>1, <2>1, <2>3, PoolUntouched DEF ConnectToServer, PoolTypes, made
  <2> QED
    BY <2>1, <2>2, <2>3 DEF ConnectToServer
<1> QED
  BY <1>2, <1>3 DEF ThreadStep, SendHello, Recv, RecvHeader, RecvBody, Drop, Input, Quit

\* All of it holds at the start and in every step.
LEMMA PoolInitially == Init => SoundPool
<1> SUFFICES ASSUME Init PROVE SoundPool
  OBVIOUS
<1>1. <<>> \in Seq(Conns) /\ <<>> \in Seq(Users) /\ <<>> \in Seq(FromClient) /\ <<>> \in Seq(FromServer)
  OBVIOUS
<1>2. made = 0 /\ MaxConns \in Nat
  BY BoundsAssumption DEF Init, made
<1>3. PoolTypes
  BY <1>1, <1>2 DEF Init, PoolTypes
<1>4. StreamTypes
  BY <1>1 DEF Init, StreamTypes
<1>5. thread \in [Users -> [Threads -> ThreadStages]]
  <2>1. "start" \in ThreadStages /\ "off" \in ThreadStages
    BY DEF ThreadStages
  <2> QED
    BY <2>1 DEF Init
<1>6. ClientTypes /\ PastTypes
  BY <1>2, <1>5 DEF Init, ClientTypes, PastTypes
<1>7. PoolInv
  <2>1. ToSet(<<>>) = {} /\ IsInjective(<<>>)
    BY ToSetEmpty DEF IsInjective
  <2> QED
    BY <2>1 DEF Init, PoolInv, ServingInv, OneOwner, NoLostWakeup, Waiting
<1> QED
  BY <1>3, <1>4, <1>6, <1>7 DEF SoundPool, AllTypes

\* Every step keeps it.
LEMMA PoolKept == SoundPool /\ [Next]_vars => SoundPool'
<1> SUFFICES ASSUME SoundPool, [Next]_vars PROVE SoundPool'
  OBVIOUS
<1>1. AllTypes /\ PoolInv
  BY DEF SoundPool
<1>2. CASE \E w \in Workers : WorkerStep(w)
  BY <1>1, <1>2, ServerKeepsPool, WorkerTypes DEF SoundPool
<1>3. CASE \E u \in Users : Input(u) \/ Quit(u) \/ \E t \in Threads : ThreadStep(u, t)
  <2>1. PICK u \in Users : Input(u) \/ Quit(u) \/ \E t \in Threads : ThreadStep(u, t)
    BY <1>3
  <2>2. PoolInv' /\ PoolTypes'
    BY <2>1, ClientKeepsPool
  <2>3. AllTypes'
    BY <1>1, <2>1, <2>2, MainTypes, ThreadTypes
  <2> QED
    BY <2>2, <2>3 DEF SoundPool
<1>4. CASE Crash
  BY <1>1, <1>4, PoolAfterCrash, ServerTypes DEF SoundPool
<1>5. CASE Start
  <2>1. PoolInv'
    BY <1>1, <1>5, PoolUntouched DEF Start
  <2> QED
    BY <1>1, <1>5, <2>1, ServerTypes DEF SoundPool
<1>6. CASE UNCHANGED vars
  <2>1. /\ UNCHANGED <<up, clientQueue, clients, pc, serving, open>>
        /\ UNCHANGED <<fds, sockfd, thread, reading, madeBy, toServer, toClient>>
        /\ UNCHANGED <<retried, flooded, cutOff, robbed>> /\ made' = made
    BY <1>6 DEF vars, server, client, past, made
  <2>2. PoolInv' /\ PoolTypes'
    BY <1>1, <2>1, PoolUntouched DEF AllTypes, PoolTypes
  <2>3. StreamTypes' /\ ClientTypes' /\ PastTypes'
    BY <1>1, <2>1 DEF AllTypes, StreamTypes, ClientTypes, PastTypes
  <2> QED
    BY <2>2, <2>3 DEF SoundPool, AllTypes
<1> QED
  BY <1>2, <1>3, <1>4, <1>5, <1>6 DEF Next

\* Type correctness.
THEOREM TypeCorrect == Spec => []TypeOK
<1>1. SoundPool => TypeOK
  BY TypesAre DEF SoundPool, PoolInv
<1> QED
  BY <1>1, PoolInitially, PoolKept, PTL DEF Spec

\* The pool is sound: each open connection is queued or served by one worker, once; the vector
\* clients has each welcomed one once; and while a worker sleeps, the connections in the queue
\* are no more than the workers that are awake to take one.
THEOREM PoolIsSoundAlways == Spec => []PoolIsSound
<1>1. SoundPool => PoolIsSound
  BY DEF SoundPool, PoolInv, PoolIsSound
<1> QED
  BY <1>1, PoolInitially, PoolKept, PTL DEF Spec

-----------------------------------------------------------------------------
(* What can cost a client its connection *)

\* A connection is only with the client that made it.
OwnerInv ==
  \A u \in Users :
    /\ \A c \in fds[u] : madeBy[c] = u
    /\ sockfd[u] # NoConn => sockfd[u] \in 1 .. made /\ madeBy[sockfd[u]] = u
    /\ \A t \in Threads : reading[u][t] # NoConn =>
                            reading[u][t] \in 1 .. made /\ madeBy[reading[u][t]] = u

\* Nothing is on a connection that was not made.
FreshInv == \A c \in Conns : c \notin 1 .. made => toClient[c] = <<>>

\* q holds whole messages, behind k blocks of one that was begun.
Whole(q, k) == \E n \in Nat : /\ Len(q) = 2 * n + k
                              /\ \A j \in 0 .. n - 1 : IsHeader(q[2 * j + k + 1])

\* The thread that uses the connection: main until it is connected, then its one receiver.
Lead(u) == IF thread[u]["main"] = "input" THEN "first" ELSE "main"

\* Only t uses the connections of u, and of them only sockfd can be open at the server.
OnlyThread(u, t) ==
  /\ thread[u]["second"] = "off"
  /\ t = "main" => /\ thread[u]["first"] = "off"
                   /\ thread[u]["main"] \in {"start", "hello", "answer", "welcome", "off"}
  /\ t = "first" => /\ thread[u]["main"] = "input"
                    /\ thread[u]["first"] \in {"open", "hello", "answer", "welcome", "loop",
                                               "text", "drop"}
  /\ \A r \in Threads : r # t => reading[u][r] = NoConn
  /\ reading[u][t] = NoConn \/ reading[u][t] = sockfd[u]
  /\ fds[u] \cap open \subseteq {sockfd[u]}

\* What t may rely on at its stage.
StageInv(u, t) ==
  /\ thread[u][t] \in {"start", "open", "drop", "hello", "off"} => reading[u][t] = NoConn
  /\ thread[u][t] \in {"text", "welcome"} => reading[u][t] = sockfd[u]
  /\ thread[u][t] \in {"start", "off"} => fds[u] = {}
  /\ thread[u][t] \in {"hello", "answer", "welcome", "loop", "text"} => sockfd[u] \in fds[u]
  /\ thread[u][t] = "open" => fds[u] \cap open = {}
  /\ thread[u][t] = "drop" => sockfd[u] \notin open \/ sockfd[u] \in cutOff

\* What is on its connection: first the WELCOME, and whole messages unless zeros got between.
StreamInv(u, t) ==
  /\ thread[u][t] \in {"hello", "answer"} /\ toClient[sockfd[u]] # <<>> =>
       Head(toClient[sockfd[u]]) = "WELCOME"
  /\ thread[u][t] \in {"hello", "answer"} /\ toClient[sockfd[u]] = <<>> =>
       \A w \in Workers : serving[w] = sockfd[u] => pc[w] \in {"hello", "close"}
  /\ thread[u][t] \in {"hello", "answer", "loop"} /\ sockfd[u] \notin flooded =>
       Whole(toClient[sockfd[u]], 0)
  /\ thread[u][t] \in {"welcome", "text"} /\ sockfd[u] \notin flooded =>
       Whole(toClient[sockfd[u]], 1)

\* All three,
One(u, t) == OnlyThread(u, t) /\ StageInv(u, t) /\ StreamInv(u, t)

\* for every client that never got a second receiver.
ClientInv == \A u \in Users \ retried : One(u, Lead(u))

\* A message is taken by the wrong thread only at a client that got a second receiver.
RobbedInv == \A c \in robbed : madeBy[c] \in retried

\* The invariant about lost connections.
LossInv == SoundPool /\ OwnerInv /\ FreshInv /\ ClientInv /\ CutOffWhy /\ RobbedInv

\* An empty stream is whole.
LEMMA WholeEmpty == Whole(<<>>, 0)
<1>1. 0 \in Nat /\ Len(<<>>) = 2 * 0 + 0 /\ \A j \in 0 .. 0 - 1 : IsHeader(<<>>[2 * j + 0 + 1])
  OBVIOUS
<1> QED
  BY <1>1 DEF Whole

\* A message more.
LEMMA WholeMore ==
  ASSUME NEW q \in Seq(FromServer), NEW k \in {0, 1}, Whole(q, k), NEW h, IsHeader(h),
         NEW r, r = q \o <<h, "body">>
  PROVE  Whole(r, k)
<1>1. PICK n \in Nat : Len(q) = 2 * n + k /\ \A j \in 0 .. n - 1 : IsHeader(q[2 * j + k + 1])
  BY DEF Whole
<1>2. Len(r) = Len(q) + 2 /\ r[Len(q) + 1] = h /\ \A i \in 1 .. Len(q) : r[i] = q[i]
  <2>1. Len(q) \in Nat
    BY LenProperties
  <2>2. q \in Seq(FromServer \cup {h}) /\ <<h, "body">> \in Seq(FromServer \cup {h})
    BY DEF FromServer
  <2> DEFINE more == <<h, "body">>
  <2>3. Len(more) = 2 /\ more[1] = h
    OBVIOUS
  <2> HIDE DEF more
  <2> QED
    BY <2>1, <2>2, <2>3, ConcatProperties DEF more
<1>3. Len(r) = 2 * (n + 1) + k /\ n + 1 \in Nat
  BY <1>1, <1>2
<1>4. ASSUME NEW j \in 0 .. n PROVE IsHeader(r[2 * j + k + 1])
  <2>1. CASE j = n
    <3>1. 2 * j + k + 1 = Len(q) + 1
      BY <1>1, <2>1
    <3> QED
      BY <1>2, <3>1
  <2>2. CASE j # n
    <3>1. j \in 0 .. n - 1 /\ 2 * j + k + 1 \in 1 .. Len(q)
      BY <1>1, <2>2
    <3> QED
      BY <1>1, <1>2, <3>1
  <2> QED
    BY <2>1, <2>2
<1> QED
  <2>1. \A j \in 0 .. (n + 1) - 1 : IsHeader(r[2 * j + k + 1])
    <3>1. 0 .. (n + 1) - 1 = 0 .. n
      OBVIOUS
    <3> QED
      BY <1>4, <3>1
  <2> QED
    BY <1>3, <2>1 DEF Whole

\* A whole stream starts with a header, and then there is its body.
LEMMA WholeHeader ==
  ASSUME NEW q \in Seq(FromServer), Whole(q, 0), q # <<>>
  PROVE  IsHeader(Head(q)) /\ Whole(Tail(q), 1)
<1>1. PICK n \in Nat : Len(q) = 2 * n + 0 /\ \A j \in 0 .. n - 1 : IsHeader(q[2 * j + 0 + 1])
  BY DEF Whole
<1>2. Len(q) \in Nat /\ Len(q) # 0 /\ Head(q) = q[1]
  BY EmptySeq, LenProperties, HeadTailProperties
<1>3. n - 1 \in Nat /\ 0 \in 0 .. n - 1
  BY <1>1, <1>2
<1>4. IsHeader(q[1])
  <2>1. IsHeader(q[2 * 0 + 0 + 1])
    BY <1>1, <1>3
  <2> QED
    BY <2>1
<1>5. Len(Tail(q)) = Len(q) - 1 /\ \A i \in 1 .. Len(q) - 1 : Tail(q)[i] = q[i + 1]
  BY HeadTailProperties
<1>6. Len(Tail(q)) = 2 * (n - 1) + 1
  BY <1>1, <1>5
<1>7. ASSUME NEW j \in 0 .. (n - 1) - 1 PROVE IsHeader(Tail(q)[2 * j + 1 + 1])
  <2>1. j + 1 \in 0 .. n - 1 /\ 2 * j + 1 + 1 \in 1 .. Len(q) - 1 /\ 2 * (j + 1) + 0 + 1 = (2 * j + 1 + 1) + 1
    BY <1>1, <1>3
  <2>2. IsHeader(q[2 * (j + 1) + 0 + 1])
    BY <1>1, <2>1
  <2> QED
    BY <1>5, <2>1, <2>2
<1> QED
  BY <1>2, <1>3, <1>4, <1>6, <1>7 DEF Whole

\* Behind the body are whole messages.
LEMMA WholeBody ==
  ASSUME NEW q \in Seq(FromServer), Whole(q, 1)
  PROVE  q # <<>> /\ Whole(Tail(q), 0)
<1>1. PICK n \in Nat : Len(q) = 2 * n + 1 /\ \A j \in 0 .. n - 1 : IsHeader(q[2 * j + 1 + 1])
  BY DEF Whole
<1>2. Len(q) \in Nat /\ Len(q) # 0 /\ q # <<>>
  BY <1>1, EmptySeq, LenProperties
<1>3. Len(Tail(q)) = Len(q) - 1 /\ \A i \in 1 .. Len(q) - 1 : Tail(q)[i] = q[i + 1]
  BY <1>2, HeadTailProperties
<1>4. Len(Tail(q)) = 2 * n + 0
  BY <1>1, <1>3
<1>5. ASSUME NEW j \in 0 .. n - 1 PROVE IsHeader(Tail(q)[2 * j + 0 + 1])
  <2>1. 2 * j + 0 + 1 \in 1 .. Len(q) - 1 /\ (2 * j + 0 + 1) + 1 = 2 * j + 1 + 1
    BY <1>1
  <2> QED
    BY <1>1, <1>3, <2>1
<1> QED
  BY <1>2, <1>4, <1>5 DEF Whole

\* What a step of the server may do to the stream of c.
Grown(c) ==
  \/ toClient'[c] = toClient[c]
  \/ \E h \in {"WELCOME", "PONG", "TEXT"} : toClient'[c] = toClient[c] \o <<h, "body">>
  \/ toClient'[c] = toClient[c] \o <<"TEXT", "body", "zeros">> /\ c \in flooded'

\* It sends on open connections; the first it sends on one is the answer to HELLO.
LEMMA ServerSends ==
  ASSUME SoundPool, NEW w \in Workers, WorkerStep(w), NEW c \in Conns
  PROVE  /\ Grown(c) /\ flooded \subseteq flooded'
         /\ toClient'[c] # toClient[c] =>
              /\ c \in open
              /\ \/ c \in ToSet(clients)
                 \/ toClient'[c] = toClient[c] \o <<"WELCOME", "body">>
         /\ serving[w] = c /\ pc[w] = "hello" /\ ClientHolds(c) =>
              \/ toClient'[c] = toClient[c] \o <<"WELCOME", "body">>
              \/ pc'[w] = "close"
<1>1. PoolTypes /\ StreamTypes /\ PastTypes /\ OneOwner /\ ServingInv
  BY DEF SoundPool, AllTypes, PoolInv
<1>2. ToSet(clients) \subseteq open
  BY <1>1, VectorOfMade
<1>3. pc[w] \notin {"check", "wait"} => serving[w] \in Conns /\ serving[w] \in open
  BY <1>1 DEF ServingInv, PoolTypes, OneOwner
<1>4. pc[w] = "loop" => serving[w] \in ToSet(clients)
  BY <1>1 DEF OneOwner
<1>5. CASE UNCHANGED <<toClient, flooded>>
  <2>1. pc[w] = "hello" => Hello(w)
    BY DEF WorkerStep, Take, AddClient, Joined, Serve, RemoveClient, Close
  <2>2. CASE Hello(w) /\ serving[w] = c /\ ClientHolds(c) /\ pc'[w] # "close"
    <3>1. SendMessage(c, "WELCOME")
      BY <1>1, <2>2 DEF Hello, Goto, PoolTypes
    <3> QED
      BY <1>1, <1>5, <2>2, <3>1, Sent DEF Grown
  <2> QED
    BY <1>5, <2>1, <2>2 DEF Grown
<1>6. CASE Hello(w)
  <2>1. UNCHANGED flooded
    BY <1>6 DEF Hello, past
  <2>2. CASE SendMessage(serving[w], "WELCOME")
    <3>1. serving[w] \in Conns /\ serving[w] \in open
      BY <1>3, <1>6 DEF Hello
    <3>2. /\ \A d \in Conns : d # serving[w] => toClient'[d] = toClient[d]
          /\ ClientHolds(serving[w]) => toClient'[serving[w]] = toClient[serving[w]] \o <<"WELCOME", "body">>
          /\ ~ClientHolds(serving[w]) => toClient'[serving[w]] = toClient[serving[w]]
      BY <1>1, <2>2, <3>1, Sent
    <3> QED
      BY <2>1, <3>1, <3>2 DEF Grown
  <2>3. CASE Goto(w, "close") /\ UNCHANGED toClient
    BY <1>5, <2>1, <2>3
  <2> QED
    BY <1>6, <2>2, <2>3 DEF Hello
<1>7. CASE Joined(w) \/ (Serve(w) /\ \E fills \in BOOLEAN : BroadcastText(serving[w], fills))
  <2>1. PICK fills \in BOOLEAN : BroadcastText(serving[w], fills)
    BY <1>7 DEF Joined
  <2>2. /\ \/ toClient'[c] = toClient[c]
           \/ /\ c \in ToSet(clients)
              /\ \/ toClient'[c] = toClient[c] \o <<"TEXT", "body">>
                 \/ toClient'[c] = toClient[c] \o <<"TEXT", "body", "zeros">> /\ c \in flooded'
        /\ flooded \subseteq flooded'
    BY <1>1, <2>1, BroadcastIs
  <2>3. pc[w] # "hello"
    BY <1>7 DEF Joined, Serve
  <2> QED
    BY <1>2, <2>2, <2>3 DEF Grown
<1>8. CASE Serve(w) /\ SendMessage(serving[w], "PONG") /\ UNCHANGED flooded
  <2>1. serving[w] \in Conns /\ serving[w] \in ToSet(clients) /\ pc[w] # "hello"
    BY <1>3, <1>4, <1>8 DEF Serve
  <2>2. \A d \in Conns : toClient'[d] = toClient[d] \/ (d = serving[w] /\ toClient'[d] = toClient[d] \o <<"PONG", "body">>)
    BY <1>1, <1>8, <2>1, Sent
  <2> QED
    BY <1>2, <1>8, <2>1, <2>2 DEF Grown
<1>9. \/ UNCHANGED <<toClient, flooded>> \/ Hello(w) \/ Joined(w)
      \/ Serve(w) /\ \E fills \in BOOLEAN : BroadcastText(serving[w], fills)
      \/ Serve(w) /\ SendMessage(serving[w], "PONG") /\ UNCHANGED flooded
  BY DEF WorkerStep, Take, AddClient, Serve, RemoveClient, Close, past
<1> QED
  BY <1>5, <1>6, <1>7, <1>8, <1>9

\* What grows keeps its first block, and stays whole where no zeros are left.
LEMMA GrownIs ==
  ASSUME StreamTypes, NEW c \in Conns, Grown(c)
  PROVE  /\ toClient[c] # <<>> => toClient'[c] # <<>> /\ Head(toClient'[c]) = Head(toClient[c])
         /\ \A k \in {0, 1} : c \notin flooded' /\ Whole(toClient[c], k) => Whole(toClient'[c], k)
<1> DEFINE q == toClient[c]
           r == toClient'[c]
<1>1. q \in Seq(FromServer)
  BY DEF StreamTypes
<1>2. ASSUME NEW more \in Seq(FromServer), r = q \o more, q # <<>>
      PROVE  r # <<>> /\ Head(r) = Head(q)
  <2>1. Len(q) \in Nat /\ Len(q) # 0 /\ Head(q) = q[1] /\ Len(more) \in Nat
    BY <1>1, <1>2, EmptySeq, LenProperties, HeadTailProperties
  <2> HIDE DEF q, r
  <2>2. r \in Seq(FromServer) /\ Len(r) = Len(q) + Len(more) /\ r[1] = q[1]
    BY <1>1, <1>2, <2>1, ConcatProperties
  <2>3. r # <<>>
    BY <2>1, <2>2, EmptySeq
  <2>4. Head(r) = r[1]
    BY <2>2, <2>3, HeadTailProperties
  <2> QED
    BY <2>1, <2>2, <2>3, <2>4
<1>3. CASE r = q
  BY <1>3
<1>4. CASE \E h \in {"WELCOME", "PONG", "TEXT"} : r = q \o <<h, "body">>
  <2>1. PICK h \in {"WELCOME", "PONG", "TEXT"} : r = q \o <<h, "body">>
    BY <1>4
  <2>2. <<h, "body">> \in Seq(FromServer) /\ IsHeader(h)
    BY DEF FromServer, IsHeader
  <2>3. q # <<>> => r # <<>> /\ Head(r) = Head(q)
    BY <1>2, <2>1, <2>2
  <2> HIDE DEF q, r
  <2>4. \A k \in {0, 1} : Whole(q, k) => Whole(r, k)
    BY <1>1, <2>1, <2>2, WholeMore
  <2> QED
    BY <2>3, <2>4 DEF q, r
<1>5. CASE r = q \o <<"TEXT", "body", "zeros">> /\ c \in flooded'
  <2>1. <<"TEXT", "body", "zeros">> \in Seq(FromServer)
    BY DEF FromServer
  <2> QED
    BY <1>2, <1>5, <2>1
<1> QED
  BY <1>3, <1>4, <1>5 DEF Grown

\* The workers with c have not answered its HELLO.
Unanswered(c) == \A w \in Workers : serving[w] = c => pc[w] \in {"hello", "close"}

\* What the stream of c must keep while its client does nothing.
Follows(c) ==
  /\ toClient[c] # <<>> => toClient'[c] # <<>> /\ Head(toClient'[c]) = Head(toClient[c])
  /\ \A k \in {0, 1} : c \notin flooded' /\ Whole(toClient[c], k) => Whole(toClient'[c], k)
  /\ toClient[c] = <<>> /\ Unanswered(c) =>
       IF toClient'[c] = <<>> THEN Unanswered(c)' ELSE Head(toClient'[c]) = "WELCOME"

\* Steps of others.
LEMMA OneKept ==
  ASSUME NEW u \in Users, NEW t \in {"main", "first"}, One(u, t),
         thread'[u] = thread[u], reading'[u] = reading[u], sockfd'[u] = sockfd[u],
         fds'[u] = fds[u], open' \cap (fds[u] \cup {sockfd[u]}) \subseteq open,
         cutOff \subseteq cutOff', flooded \subseteq flooded',
         sockfd[u] \in fds[u] => Follows(sockfd[u])
  PROVE  One(u, t)'
<1>1. OnlyThread(u, t)'
  BY DEF One, OnlyThread
<1>2. StageInv(u, t)'
  BY DEF One, StageInv
<1>3. StreamInv(u, t)'
  <2>1. CASE thread[u][t] \in {"hello", "answer"}
    <3>1. sockfd[u] \in fds[u] /\ Follows(sockfd[u])
      BY <2>1 DEF One, StageInv
    <3>2. thread'[u][t] \notin {"welcome", "text"}
      BY <2>1
    <3>3. toClient'[sockfd[u]] # <<>> => Head(toClient'[sockfd[u]]) = "WELCOME"
      BY <2>1, <3>1 DEF One, StreamInv, Follows, Unanswered
    <3>4. toClient'[sockfd[u]] = <<>> => Unanswered(sockfd[u])'
      BY <2>1, <3>1 DEF One, StreamInv, Follows, Unanswered
    <3>5. sockfd[u] \notin flooded' => Whole(toClient'[sockfd[u]], 0)
      BY <2>1, <3>1 DEF One, StreamInv, Follows
    <3> QED
      BY <3>2, <3>3, <3>4, <3>5 DEF StreamInv, Unanswered
  <2>2. CASE thread[u][t] = "loop"
    <3>1. sockfd[u] \in fds[u] /\ Follows(sockfd[u])
      BY <2>2 DEF One, StageInv
    <3>2. sockfd[u] \notin flooded' => Whole(toClient'[sockfd[u]], 0)
      BY <2>2, <3>1 DEF One, StreamInv, Follows
    <3> QED
      BY <2>2, <3>2 DEF StreamInv
  <2>3. CASE thread[u][t] \in {"welcome", "text"}
    <3>1. sockfd[u] \in fds[u] /\ Follows(sockfd[u])
      BY <2>3 DEF One, StageInv
    <3>2. sockfd[u] \notin flooded' => Whole(toClient'[sockfd[u]], 1)
      BY <2>3, <3>1 DEF One, StreamInv, Follows
    <3> QED
      BY <2>3, <3>2 DEF StreamInv
  <2> QED
    BY <2>1, <2>2, <2>3 DEF StreamInv
<1> QED
  BY <1>1, <1>2, <1>3 DEF One

\* A connection that its client holds, in a step of the server.
LEMMA ServerFollows ==
  ASSUME SoundPool, NEW w \in Workers, WorkerStep(w), NEW c \in Conns, ClientHolds(c)
  PROVE  Follows(c)
<1>1. PoolTypes /\ StreamTypes /\ OneOwner /\ ServingInv /\ NoConn \notin Conns
  BY ConnNumbers DEF SoundPool, AllTypes, PoolInv
<1>2. /\ Grown(c)
      /\ toClient'[c] # toClient[c] =>
           c \in ToSet(clients) \/ toClient'[c] = toClient[c] \o <<"WELCOME", "body">>
      /\ serving[w] = c /\ pc[w] = "hello" =>
           \/ toClient'[c] = toClient[c] \o <<"WELCOME", "body">>
           \/ pc'[w] = "close"
  BY ServerSends
<1>3. ASSUME toClient[c] = <<>>, toClient'[c] = toClient[c] \o <<"WELCOME", "body">>
      PROVE  toClient'[c] # <<>> /\ Head(toClient'[c]) = "WELCOME"
  <2>1. toClient'[c] = <<"WELCOME", "body">>
    BY <1>3
  <2> QED
    BY <2>1
<1>4. ASSUME toClient[c] = <<>>, Unanswered(c), toClient'[c] # <<>>
      PROVE  Head(toClient'[c]) = "WELCOME"
  <2>1. c \notin ToSet(clients)
    BY <1>1, <1>4 DEF OneOwner, Unanswered
  <2> QED
    BY <1>2, <1>3, <1>4, <2>1
<1>5. ASSUME toClient[c] = <<>>, Unanswered(c), toClient'[c] = <<>>
      PROVE  Unanswered(c)'
  <2>1. ASSUME NEW v \in Workers, v # w PROVE serving'[v] = serving[v] /\ pc'[v] = pc[v]
    BY <1>1, <2>1 DEF WorkerStep, Take, Hello, AddClient, Joined, Serve, RemoveClient, Close,
       Goto,
       PoolTypes
  <2>2. ASSUME serving'[w] = c PROVE pc'[w] \in {"hello", "close"}
    <3>1. CASE Take(w)
      <4>1. serving[w] = NoConn
        BY <1>1, <3>1 DEF Take, ServingInv
      <4> QED
        BY <1>1, <2>2, <3>1, <4>1 DEF Take, Goto, PoolTypes
    <3>2. CASE Close(w)
      BY <1>1, <2>2, <3>2 DEF Close, PoolTypes
    <3>3. CASE ~Take(w) /\ ~Close(w)
      <4>1. serving[w] = c
        BY <2>2, <3>3 DEF WorkerStep, Hello, AddClient, Joined, Serve, RemoveClient
      <4>2. pc[w] = "hello"
        BY <1>5, <3>3, <4>1 DEF Unanswered, WorkerStep, Hello, AddClient, Joined, Serve,
           RemoveClient
      <4> QED
        BY <1>2, <1>3, <1>5, <4>1, <4>2
    <3> QED
      BY <3>1, <3>2, <3>3
  <2> QED
    BY <1>5, <2>1, <2>2 DEF Unanswered
<1> QED
  BY <1>1, <1>2, <1>4, <1>5, GrownIs DEF Follows

\* The server's steps.
LEMMA ServerKeepsLoss ==
  ASSUME LossInv, NEW w \in Workers, WorkerStep(w)
  PROVE  OwnerInv' /\ FreshInv' /\ ClientInv' /\ CutOffWhy' /\ RobbedInv'
<1>1. /\ SoundPool /\ OwnerInv /\ FreshInv /\ ClientInv /\ CutOffWhy /\ RobbedInv
      /\ PoolTypes /\ ClientTypes /\ 1 .. made \subseteq Conns
  BY ConnNumbers DEF LossInv, SoundPool, AllTypes
<1>2. /\ UNCHANGED <<fds, sockfd, thread, reading, madeBy, retried, cutOff, robbed>>
      /\ made' = made /\ open' \subseteq open
  BY DEF WorkerStep, Take, Hello, AddClient, Joined, Serve, RemoveClient, Close, made, client,
     past
<1>3. OwnerInv' /\ RobbedInv'
  BY <1>1, <1>2 DEF OwnerInv, RobbedInv
<1>4. \A c \in Conns : flooded \subseteq flooded' /\ (toClient'[c] # toClient[c] => c \in open)
  BY <1>1, ServerSends
<1>5. FreshInv'
  BY <1>1, <1>2, <1>4 DEF FreshInv, PoolTypes
<1>6. CutOffWhy'
  <2>1. \A c \in cutOff : c \in Conns
    BY <1>1 DEF LossInv, SoundPool, AllTypes, PastTypes
  <2> QED
    BY <1>1, <1>2, <1>4, <2>1 DEF CutOffWhy
<1>7. ASSUME NEW u \in Users \ retried PROVE One(u, Lead(u))'
  <2>1. PICK t \in {"main", "first"} : t = Lead(u)
    BY DEF Lead
  <2>2. t = Lead(u)'
    BY <1>2, <2>1 DEF Lead
  <2>3. sockfd[u] \in fds[u] => Follows(sockfd[u])
    <3> SUFFICES ASSUME sockfd[u] \in fds[u] PROVE Follows(sockfd[u])
      OBVIOUS
    <3>1. sockfd[u] \in Conns /\ ClientHolds(sockfd[u])
      BY <1>1 DEF ClientTypes, ClientHolds
    <3> QED
      BY <1>1, <3>1, ServerFollows
  <2>4. flooded \subseteq flooded'
    BY DEF WorkerStep, Take, Hello, AddClient, Joined, Serve, RemoveClient, Close, past,
       BroadcastText
  <2>5. One(u, t)
    BY <1>1, <2>1 DEF ClientInv
  <2>6. One(u, t)'
    BY <1>2, <2>3, <2>4, <2>5, OneKept
  <2> QED
    BY <2>2, <2>6
<1> QED
  BY <1>2, <1>3, <1>5, <1>6, <1>7 DEF ClientInv

\* A step of client u.
ClientStep(u) == Input(u) \/ Quit(u) \/ \E t \in Threads : ThreadStep(u, t)

\* It changes what is of u, and takes nothing from the connections of others.
LEMMA ClientChanges ==
  ASSUME LossInv, NEW u \in Users, ClientStep(u)
  PROVE  /\ \A v \in Users \ {u} : /\ thread'[v] = thread[v] /\ reading'[v] = reading[v]
                                   /\ sockfd'[v] = sockfd[v] /\ fds'[v] = fds[v]
         /\ flooded' = flooded /\ cutOff \subseteq cutOff' /\ serving' = serving
         /\ retried \subseteq retried' /\ retried' \subseteq retried \cup {u}
         /\ \A w \in Workers : pc'[w] = pc[w] \/ (pc[w] = "wait" /\ pc'[w] = "check")
<1>1. SoundPool /\ ClientTypes /\ PoolTypes /\ Pool
  BY DEF LossInv, SoundPool, AllTypes, Pool
<1>2. CASE UNCHANGED server
  <2>1. /\ flooded' = flooded /\ cutOff \subseteq cutOff' /\ serving' = serving /\ pc' = pc
        /\ retried \subseteq retried' /\ retried' \subseteq retried \cup {u}
    BY <1>2 DEF ClientStep, ThreadStep, ConnectToServer, SendHello, Recv, RecvHeader, RecvBody,
       Drop,
       Input, Quit, Fail, past, server
  <2>2. \A v \in Users \ {u} : thread'[v] = thread[v]
    BY <1>1 DEF ClientStep, ThreadStep, ConnectToServer, SendHello, Recv, RecvHeader, RecvBody,
       Drop,
       Input, Quit, Fail, Stage, client, ClientTypes
  <2>3. \A v \in Users \ {u} : reading'[v] = reading[v]
    BY <1>1 DEF ClientStep, ThreadStep, ConnectToServer, SendHello, Recv, RecvHeader, RecvBody,
       Drop,
       Input, Quit, Fail, client, ClientTypes
  <2>4. \A v \in Users \ {u} : sockfd'[v] = sockfd[v] /\ fds'[v] = fds[v]
    BY <1>1 DEF ClientStep, ThreadStep, ConnectToServer, SendHello, Recv, RecvHeader, RecvBody,
       Drop,
       Input, Quit, client, ClientTypes
  <2> QED
    BY <2>1, <2>2, <2>3, <2>4
<1>3. CASE \E t \in Threads : ConnectToServer(u, t)
  <2>1. PICK t \in Threads : ConnectToServer(u, t)
    BY <1>3
  <2>2. /\ flooded' = flooded /\ cutOff' = cutOff /\ serving' = serving
        /\ retried \subseteq retried' /\ retried' \subseteq retried \cup {u}
    BY <2>1 DEF ConnectToServer, Fail
  <2>3. \A v \in Users \ {u} : thread'[v] = thread[v] /\ reading'[v] = reading[v]
    BY <1>1, <2>1 DEF ConnectToServer, Fail, Stage, ClientTypes
  <2>4. \A v \in Users \ {u} : sockfd'[v] = sockfd[v] /\ fds'[v] = fds[v]
    BY <1>1, <2>1 DEF ConnectToServer, ClientTypes
  <2>5. \A w \in Workers : pc'[w] = pc[w] \/ (pc[w] = "wait" /\ pc'[w] = "check")
    <3>1. CASE /\ made < MaxConns /\ Push(made + 1) /\ open' = open \cup {made + 1}
      BY <1>1, <2>1, <3>1, ConnectionPushed DEF ConnectToServer
    <3>2. CASE pc' = pc
      BY <3>2
    <3> QED
      BY <2>1, <3>1, <3>2 DEF ConnectToServer
  <2> QED
    BY <2>2, <2>3, <2>4, <2>5
<1>4. UNCHANGED server \/ \E t \in Threads : ConnectToServer(u, t)
  BY DEF ClientStep, ThreadStep, SendHello, Recv, RecvHeader, RecvBody, Drop, Input, Quit
<1> QED
  BY <1>2, <1>3, <1>4

\* What it takes is on its own connections.
LEMMA ClientTakesOwn ==
  ASSUME LossInv, NEW u \in Users, ClientStep(u), NEW c \in Conns
  PROVE  /\ toClient'[c] # toClient[c] => c \in 1 .. made /\ madeBy[c] = u
         /\ toClient[c] = <<>> => toClient'[c] = <<>>
<1>1. /\ ClientTypes /\ StreamTypes /\ OwnerInv /\ NoConn \notin Conns /\ 1 .. made \subseteq Conns
      /\ FreshInv
  BY ConnNumbers DEF LossInv, SoundPool, AllTypes
<1>2. CASE toClient' = toClient
  BY <1>2
<1>3. ASSUME NEW t \in Threads, RecvHeader(u, t) \/ RecvBody(u, t)
      PROVE  /\ toClient'[c] # toClient[c] => c \in 1 .. made /\ madeBy[c] = u
             /\ toClient[c] = <<>> => toClient'[c] = <<>>
  <2> DEFINE d == reading[u][t]
  <2>1. toClient' = [toClient EXCEPT ![d] = IF toClient[d] # <<>> THEN Tail(@) ELSE @]
    BY <1>3 DEF RecvHeader, RecvBody
  <2>2. d \in Conns \cup {NoConn} /\ (d # NoConn => d \in 1 .. made /\ madeBy[d] = u)
    BY <1>1 DEF ClientTypes, OwnerInv
  <2> HIDE DEF d
  <2>3. CASE c = d
    <3>1. toClient[c] = <<>> => toClient'[c] = <<>>
      BY <1>1, <2>1, <2>3 DEF StreamTypes
    <3> QED
      BY <1>1, <2>2, <2>3, <3>1
  <2>4. CASE c # d
    BY <1>1, <2>1, <2>4 DEF StreamTypes
  <2> QED
    BY <2>3, <2>4
<1>4. ASSUME NEW t \in Threads, Drop(u, t)
      PROVE  /\ toClient'[c] # toClient[c] => c \in 1 .. made /\ madeBy[c] = u
             /\ toClient[c] = <<>> => toClient'[c] = <<>>
  BY <1>1, <1>4 DEF Drop, OwnerInv
<1>5. ASSUME Quit(u)
      PROVE  /\ toClient'[c] # toClient[c] => c \in 1 .. made /\ madeBy[c] = u
             /\ toClient[c] = <<>> => toClient'[c] = <<>>
  BY <1>1, <1>5 DEF Quit, OwnerInv, ClientTypes
<1> QED
  BY <1>2, <1>3, <1>4, <1>5 DEF ClientStep, ThreadStep, ConnectToServer, SendHello, Recv, Input

\* The connections and who made them.
LEMMA MadeGrows ==
  ASSUME LossInv, NEW u \in Users, ClientStep(u)
  PROVE  /\ 1 .. made \subseteq 1 .. made' /\ made \in Nat
         /\ \A c \in 1 .. made : madeBy'[c] = madeBy[c]
         /\ open' \subseteq open \cup {made + 1}
         /\ \/ UNCHANGED <<madeBy, fds, sockfd, open>> /\ made' = made
            \/ UNCHANGED <<madeBy, open>> /\ made' = made /\ (Quit(u) \/ \E t \in Threads : Drop(u, t))
            \/ /\ \E t \in Threads : ConnectToServer(u, t) /\ Stage(u, t, "hello")
               /\ made' = made + 1 /\ madeBy'[made + 1] = u /\ up /\ made + 1 \in Conns
               /\ sockfd' = [sockfd EXCEPT ![u] = made + 1]
               /\ fds' = [fds EXCEPT ![u] = fds[u] \cup {made + 1}]
               /\ open' = open \cup {made + 1}
               /\ UNCHANGED <<retried, reading, toClient, cutOff, robbed, flooded>>
<1>1. PoolTypes
  BY DEF LossInv, SoundPool, AllTypes
<1>2. made \in Nat /\ Len(madeBy) = made /\ madeBy \in Seq(Users)
  BY <1>1, ConnNumbers DEF PoolTypes, made
<1>3. CASE madeBy' = madeBy
  <2>1. made' = made
    BY <1>3 DEF made
  <2>2. open' = open
    <3>1. CASE \E t \in Threads : ConnectToServer(u, t)
      <4>1. PICK t \in Threads : ConnectToServer(u, t)
        BY <3>1
      <4>2. madeBy # Append(madeBy, u)
        <5>1. Len(Append(madeBy, u)) = Len(madeBy) + 1
          BY <1>2, AppendProperties
        <5> QED
          BY <1>2, <5>1
      <4> QED
        BY <1>3, <4>1, <4>2 DEF ConnectToServer
    <3>2. CASE ~ \E t \in Threads : ConnectToServer(u, t)
      BY <3>2 DEF ClientStep, ThreadStep, SendHello, Recv, RecvHeader, RecvBody, Drop, Input,
         Quit, server
    <3> QED
      BY <3>1, <3>2
  <2>3. \/ UNCHANGED <<fds, sockfd>>
        \/ Quit(u) \/ \E t \in Threads : Drop(u, t)
        \/ \E t \in Threads : ConnectToServer(u, t)
    BY DEF ClientStep, ThreadStep, SendHello, Recv, RecvHeader, RecvBody, Input, client
  <2>4. CASE \E t \in Threads : ConnectToServer(u, t)
    <3>1. PICK t \in Threads : ConnectToServer(u, t)
      BY <2>4
    <3>2. madeBy # Append(madeBy, u)
      <4>1. Len(Append(madeBy, u)) = Len(madeBy) + 1
        BY <1>2, AppendProperties
      <4> QED
        BY <1>2, <4>1
    <3>3. UNCHANGED <<fds, sockfd>>
      BY <1>3, <3>1, <3>2 DEF ConnectToServer
    <3> QED
      BY <1>2, <1>3, <2>1, <2>2, <3>3
  <2> QED
    BY <1>2, <1>3, <2>1, <2>2, <2>3, <2>4
<1>4. CASE madeBy' # madeBy
  <2>1. PICK t \in Threads : ConnectToServer(u, t)
    BY <1>4 DEF ClientStep, ThreadStep, SendHello, Recv, RecvHeader, RecvBody, Drop, Input, Quit
  <2>2. /\ up /\ made < MaxConns /\ madeBy' = Append(madeBy, u)
        /\ sockfd' = [sockfd EXCEPT ![u] = made + 1]
        /\ fds' = [fds EXCEPT ![u] = fds[u] \cup {made + 1}]
        /\ open' = open \cup {made + 1}
        /\ Stage(u, t, "hello")
        /\ UNCHANGED <<retried, reading, toClient, cutOff, robbed, flooded>>
    BY <1>4, <2>1 DEF ConnectToServer
  <2>3. /\ made' = made + 1 /\ madeBy'[made + 1] = u
        /\ \A c \in 1 .. made : madeBy'[c] = madeBy[c]
    BY <1>2, <2>2, AppendProperties DEF made
  <2>4. 1 .. made \subseteq 1 .. made'
    BY <1>2, <2>3
  <2>5. made + 1 \in Conns
    BY <1>1, <2>2, ConnNumbers
  <2> QED
    BY <1>2, <2>1, <2>2, <2>3, <2>4, <2>5
<1> QED
  BY <1>3, <1>4

\* Every connection stays with the client that made it.
LEMMA ClientKeepsOwner ==
  ASSUME LossInv, NEW u \in Users, ClientStep(u)
  PROVE  OwnerInv' /\ FreshInv'
<1>1. OwnerInv /\ FreshInv /\ ClientTypes /\ PoolTypes
  BY DEF LossInv, SoundPool, AllTypes
<1>2. /\ 1 .. made \subseteq 1 .. made' /\ made \in Nat
      /\ \A c \in 1 .. made : madeBy'[c] = madeBy[c]
  BY MadeGrows
<1>3. FreshInv'
  BY <1>1, <1>2, ClientTakesOwn DEF FreshInv
<1>4. ASSUME NEW v \in Users, v # u
      PROVE  /\ \A c \in fds'[v] : madeBy'[c] = v
             /\ sockfd'[v] # NoConn => sockfd'[v] \in 1 .. made' /\ madeBy'[sockfd'[v]] = v
             /\ \A t \in Threads : reading'[v][t] # NoConn =>
                                    reading'[v][t] \in 1 .. made' /\ madeBy'[reading'[v][t]] = v
  <2>1. reading'[v] = reading[v] /\ sockfd'[v] = sockfd[v] /\ fds'[v] = fds[v]
    BY <1>4, ClientChanges
  <2>2. fds[v] \subseteq 1 .. made
    BY <1>1 DEF ClientTypes
  <2> QED
    BY <1>1, <1>2, <2>1, <2>2 DEF OwnerInv
<1>5. /\ \A c \in fds'[u] : madeBy'[c] = u
      /\ sockfd'[u] # NoConn => sockfd'[u] \in 1 .. made' /\ madeBy'[sockfd'[u]] = u
  <2>1. fds[u] \subseteq 1 .. made
    BY <1>1 DEF ClientTypes
  <2>2. CASE UNCHANGED <<madeBy, fds, sockfd, open>> /\ made' = made
    BY <1>1, <1>2, <2>1, <2>2 DEF OwnerInv
  <2>3. CASE UNCHANGED <<madeBy, open>> /\ made' = made /\ (Quit(u) \/ \E t \in Threads : Drop(u, t))
    <3>1. /\ fds'[u] \subseteq fds[u]
          /\ sockfd'[u] = sockfd[u] \/ sockfd'[u] = NoConn
      BY <1>1, <2>3 DEF Quit, Drop, ClientTypes
    <3> QED
      BY <1>1, <1>2, <2>1, <2>3, <3>1 DEF OwnerInv
  <2>4. CASE /\ made' = made + 1 /\ madeBy'[made + 1] = u
             /\ sockfd' = [sockfd EXCEPT ![u] = made + 1]
             /\ fds' = [fds EXCEPT ![u] = fds[u] \cup {made + 1}]
    <3>1. fds'[u] = fds[u] \cup {made + 1} /\ sockfd'[u] = made + 1 /\ made + 1 \in 1 .. made'
      BY <1>1, <1>2, <2>4 DEF ClientTypes
    <3> QED
      BY <1>1, <1>2, <2>1, <2>4, <3>1 DEF OwnerInv
  <2> QED
    BY <2>2, <2>3, <2>4, MadeGrows
<1>6. ASSUME NEW t \in Threads, reading'[u][t] # NoConn
      PROVE  reading'[u][t] \in 1 .. made' /\ madeBy'[reading'[u][t]] = u
  <2>1. reading'[u][t] = reading[u][t] \/ reading'[u][t] = sockfd[u]
    BY <1>1, <1>6 DEF ClientStep, ThreadStep, ConnectToServer, SendHello, Recv, RecvHeader,
       RecvBody,
       Drop, Input, Quit, Fail, client, ClientTypes
  <2> QED
    BY <1>1, <1>2, <1>6, <2>1 DEF OwnerInv
<1>7. OwnerInv'
  BY <1>4, <1>5, <1>6 DEF OwnerInv
<1> QED
  BY <1>3, <1>7

\* What the others may rely on stays.
LEMMA OthersKept ==
  ASSUME LossInv, NEW u \in Users, ClientStep(u), NEW v \in Users \ retried, v # u
  PROVE  One(v, Lead(v))'
<1>1. /\ ClientTypes /\ PoolTypes /\ ServingInv /\ OwnerInv /\ ClientInv
      /\ 1 .. made \subseteq Conns /\ NoConn \notin Conns /\ Conns \subseteq Nat /\ made \in Nat
  BY ConnNumbers DEF LossInv, SoundPool, AllTypes, PoolInv
<1>2. PICK t \in {"main", "first"} : t = Lead(v)
  BY DEF Lead
<1>3. /\ thread'[v] = thread[v] /\ reading'[v] = reading[v]
      /\ sockfd'[v] = sockfd[v] /\ fds'[v] = fds[v]
      /\ flooded' = flooded /\ cutOff \subseteq cutOff' /\ serving' = serving
      /\ \A w \in Workers : pc'[w] = pc[w] \/ (pc[w] = "wait" /\ pc'[w] = "check")
  BY ClientChanges
<1>4. t = Lead(v)' /\ One(v, t)
  BY <1>1, <1>2, <1>3 DEF Lead, ClientInv
<1>5. made + 1 \notin 1 .. made
  BY <1>1
<1>6. open' \cap (fds[v] \cup {sockfd[v]}) \subseteq open
  <2>1. fds[v] \subseteq 1 .. made /\ (sockfd[v] # NoConn => sockfd[v] \in 1 .. made)
    BY <1>1 DEF ClientTypes, OwnerInv
  <2>2. open' \subseteq open \cup {made + 1}
    BY MadeGrows
  <2>3. NoConn # made + 1
    BY <1>1, BoundsAssumption
  <2> QED
    BY <1>5, <2>1, <2>2, <2>3
<1>7. sockfd[v] \in fds[v] => Follows(sockfd[v])
  <2> SUFFICES ASSUME sockfd[v] \in fds[v] PROVE Follows(sockfd[v])
    OBVIOUS
  <2>1. sockfd[v] \in Conns /\ madeBy[sockfd[v]] = v
    BY <1>1 DEF ClientTypes, OwnerInv
  <2>2. toClient'[sockfd[v]] = toClient[sockfd[v]]
    BY <2>1, ClientTakesOwn
  <2>3. Unanswered(sockfd[v]) => Unanswered(sockfd[v])'
    <3>1. \A w \in Workers : serving[w] = sockfd[v] => pc[w] # "wait"
      BY <1>1, <2>1 DEF ServingInv
    <3> QED
      BY <1>3, <3>1 DEF Unanswered
  <2> QED
    BY <1>3, <2>2, <2>3 DEF Follows
<1>8. One(v, t)'
  BY <1>3, <1>4, <1>6, <1>7, OneKept
<1> QED
  BY <1>4, <1>8

\* The server ends, or starts.
LEMMA CrashKeepsLoss ==
  ASSUME LossInv, Crash \/ Start
  PROVE  OwnerInv' /\ FreshInv' /\ ClientInv' /\ CutOffWhy' /\ RobbedInv'
<1>1. OwnerInv /\ FreshInv /\ ClientInv /\ CutOffWhy /\ RobbedInv /\ ClientTypes /\ NoConn \notin Conns
      /\ 1 .. made \subseteq Conns
  BY ConnNumbers DEF LossInv, SoundPool, AllTypes
<1>2. /\ UNCHANGED <<fds, sockfd, thread, reading, madeBy, toClient, retried, flooded, cutOff, robbed>>
      /\ made' = made /\ open' \subseteq open
  BY DEF Crash, Start, made, client, past
<1>3. OwnerInv' /\ FreshInv' /\ CutOffWhy' /\ RobbedInv'
  BY <1>1, <1>2 DEF OwnerInv, FreshInv, CutOffWhy, RobbedInv
<1>4. \A w \in Workers : serving'[w] = NoConn \/ (serving'[w] = serving[w] /\ pc'[w] = pc[w])
  BY DEF Crash, Start
<1>5. ASSUME NEW u \in Users \ retried PROVE One(u, Lead(u))'
  <2>1. PICK t \in {"main", "first"} : t = Lead(u)
    BY DEF Lead
  <2>2. t = Lead(u)' /\ One(u, t)
    BY <1>1, <1>2, <2>1 DEF Lead, ClientInv
  <2>3. sockfd[u] \in fds[u] => Follows(sockfd[u])
    <3>1. sockfd[u] \in fds[u] => sockfd[u] # NoConn
      BY <1>1 DEF ClientTypes
    <3> QED
      BY <1>2, <1>4, <3>1 DEF Follows, Unanswered
  <2>4. One(u, t)'
    BY <1>2, <2>2, <2>3, OneKept
  <2> QED
    BY <2>2, <2>4
<1> QED
  BY <1>2, <1>3, <1>5 DEF ClientInv

-----------------------------------------------------------------------------
(* The steps of a client that never failed *)

\* It is its lead that acts.
LEMMA LeadActs ==
  ASSUME LossInv, NEW u \in Users \ retried, NEW t \in Threads, ThreadStep(u, t)
  PROVE  t = Lead(u) /\ t \in {"main", "first"} /\ One(u, t)
<1>1. One(u, Lead(u)) /\ Lead(u) \in {"main", "first"}
  BY DEF LossInv, ClientInv, Lead
<1>2. thread[u][t] \notin {"off", "input"}
  BY DEF ThreadStep, ConnectToServer, SendHello, Recv, RecvHeader, RecvBody, Drop
<1> QED
  BY <1>1, <1>2 DEF One, OnlyThread, Lead, Threads

\* How a step changes its stages.
LEMMA LeadStages ==
  ASSUME ClientTypes, NEW u \in Users, NEW t \in {"main", "first"}, t = Lead(u), OnlyThread(u, t),
         NEW stage, Stage(u, t, stage), stage # "input"
  PROVE  /\ Lead(u)' = t /\ thread'[u][t] = stage
         /\ \A r \in Threads : r # t => thread'[u][r] = thread[u][r]
<1>1. thread'[u][t] = stage /\ \A r \in Threads : r # t => thread'[u][r] = thread[u][r]
  BY DEF Stage, ClientTypes, Threads
<1> QED
  BY <1>1 DEF Lead, Threads, OnlyThread

\* A new connection.
LEMMA OneConnects ==
  ASSUME LossInv, NEW u \in Users \ retried', NEW t \in Threads, ThreadStep(u, t), ConnectToServer(u, t)
  PROVE  One(u, Lead(u))'
<1>1. u \in Users \ retried
  BY ClientChanges DEF ClientStep
<1>2. t = Lead(u) /\ t \in {"main", "first"} /\ OnlyThread(u, t) /\ StageInv(u, t)
  BY <1>1, LeadActs DEF One
<1>3. /\ ClientTypes /\ PoolTypes /\ ServingInv /\ OneOwner /\ OwnerInv /\ FreshInv
      /\ 1 .. made \subseteq Conns /\ NoConn \notin Conns /\ Conns \subseteq Nat /\ made \in Nat
  BY ConnNumbers DEF LossInv, SoundPool, AllTypes, PoolInv
<1>4. thread[u][t] \in {"start", "open"}
  BY DEF ConnectToServer
<1>5. fds[u] \cap open = {} /\ reading[u][t] = NoConn
  BY <1>2, <1>4 DEF StageInv
<1>6. CASE /\ made + 1 \in Conns
           /\ sockfd' = [sockfd EXCEPT ![u] = made + 1]
           /\ fds' = [fds EXCEPT ![u] = fds[u] \cup {made + 1}]
           /\ open' = open \cup {made + 1} /\ Stage(u, t, "hello")
           /\ UNCHANGED <<reading, toClient, flooded, cutOff, serving>>
  <2>1. /\ Lead(u)' = t /\ thread'[u][t] = "hello"
        /\ \A r \in Threads : r # t => thread'[u][r] = thread[u][r]
    BY <1>2, <1>3, <1>6, LeadStages
  <2>2. sockfd'[u] = made + 1 /\ fds'[u] = fds[u] \cup {made + 1} /\ made + 1 \notin 1 .. made
    BY <1>3, <1>6 DEF ClientTypes
  <2>3. OnlyThread(u, t)'
    BY <1>2, <1>3, <1>5, <1>6, <2>1, <2>2 DEF OnlyThread, ClientTypes, PoolTypes, Threads
  <2>4. StageInv(u, t)'
    BY <1>5, <1>6, <2>1, <2>2 DEF StageInv
  <2>5. toClient'[made + 1] = <<>> /\ \A w \in Workers : serving'[w] # made + 1
    <3>1. \A w \in Workers : serving[w] \in open \/ serving[w] = NoConn
      BY <1>3 DEF OneOwner
    <3> QED
      BY <1>3, <1>6, <2>2, <3>1 DEF FreshInv, PoolTypes
  <2>6. StreamInv(u, t)'
    BY <2>1, <2>2, <2>5, WholeEmpty DEF StreamInv
  <2> QED
    BY <2>1, <2>3, <2>4, <2>6 DEF One
<1>7. CASE Fail(u, t) /\ UNCHANGED <<madeBy, sockfd, fds, open, clientQueue, pc>>
  <2>1. ~First(u, t)
    BY <1>7 DEF Fail
  <2>2. t = "first"
    BY <1>1, <1>2, <2>1 DEF First
  <2>3. thread[u][t] = "open" /\ Stage(u, t, "open")
    BY <1>2, <1>4, <1>7, <2>1, <2>2 DEF Fail, OnlyThread
  <2>4. /\ Lead(u)' = t /\ thread'[u][t] = "open"
        /\ \A r \in Threads : r # t => thread'[u][r] = thread[u][r]
    BY <1>2, <1>3, <2>3, LeadStages
  <2>5. reading'[u] = reading[u] /\ UNCHANGED <<sockfd, fds, open>>
    BY <1>5, <1>3, <1>7, <2>2 DEF Fail, ClientTypes, Threads
  <2>6. OnlyThread(u, t)'
    BY <1>2, <2>2, <2>4, <2>5 DEF OnlyThread, Threads
  <2>7. StageInv(u, t)'
    BY <1>5, <2>4, <2>5 DEF StageInv
  <2>8. StreamInv(u, t)'
    BY <2>4 DEF StreamInv
  <2> QED
    BY <2>4, <2>6, <2>7, <2>8 DEF One
<1>8. serving' = serving
  BY DEF ConnectToServer
<1> QED
  <2>1. CASE made < MaxConns /\ up /\ Stage(u, t, "hello") /\ ~(Fail(u, t) /\ UNCHANGED <<madeBy, sockfd, fds, open, clientQueue, pc>>)
    <3>1. made + 1 \in Conns
      BY <1>3, <2>1, ConnNumbers
    <3> QED
      BY <1>6, <2>1, <3>1, <1>8 DEF ConnectToServer
  <2> QED
    BY <1>7, <2>1 DEF ConnectToServer

\* HELLO is sent.
LEMMA OneSends ==
  ASSUME LossInv, NEW u \in Users \ retried, NEW t \in Threads, SendHello(u, t)
  PROVE  One(u, Lead(u))'
<1>1. ClientTypes /\ t = Lead(u) /\ t \in {"main", "first"} /\ One(u, t)
  BY LeadActs DEF ThreadStep, LossInv, SoundPool, AllTypes
<1>2. /\ thread[u][t] = "hello" /\ Stage(u, t, "answer")
      /\ UNCHANGED <<fds, sockfd, reading, toClient, open, pc, serving, flooded, cutOff>>
  BY DEF SendHello, server, past
<1>3. /\ Lead(u)' = t /\ thread'[u][t] = "answer"
      /\ \A r \in Threads : r # t => thread'[u][r] = thread[u][r]
  BY <1>1, <1>2, LeadStages DEF One
<1>4. OnlyThread(u, t)'
  BY <1>1, <1>2, <1>3 DEF One, OnlyThread, Threads
<1>5. StageInv(u, t)'
  BY <1>1, <1>2, <1>3 DEF One, StageInv
<1>6. StreamInv(u, t)'
  BY <1>1, <1>2, <1>3 DEF One, StreamInv
<1> QED
  BY <1>3, <1>4, <1>5, <1>6 DEF One

\* recv is called.
LEMMA OneReads ==
  ASSUME LossInv, NEW u \in Users \ retried, NEW t \in Threads, Recv(u, t)
  PROVE  One(u, Lead(u))'
<1>1. ClientTypes /\ t = Lead(u) /\ t \in {"main", "first"} /\ One(u, t)
  BY LeadActs DEF ThreadStep, LossInv, SoundPool, AllTypes
<1>2. thread[u][t] \in {"loop", "answer"} /\ sockfd[u] \in fds[u]
  BY <1>1 DEF Recv, One, StageInv
<1>3. /\ reading' = [reading EXCEPT ![u][t] = sockfd[u]]
      /\ UNCHANGED <<thread, fds, sockfd, toClient, open, pc, serving, flooded, cutOff>>
  BY <1>2 DEF Recv, server
<1>4. reading'[u][t] = sockfd[u] /\ \A r \in Threads : r # t => reading'[u][r] = reading[u][r]
  BY <1>1, <1>3 DEF ClientTypes, Threads
<1>5. Lead(u)' = t
  BY <1>1, <1>3 DEF Lead
<1>6. OnlyThread(u, t)'
  BY <1>1, <1>3, <1>4 DEF One, OnlyThread, Threads
<1>7. StageInv(u, t)'
  BY <1>1, <1>2, <1>3, <1>4 DEF One, StageInv
<1>8. StreamInv(u, t)'
  BY <1>1, <1>3 DEF One, StreamInv
<1> QED
  BY <1>5, <1>6, <1>7, <1>8 DEF One

\* A receiver that fails, and why.
LEMMA OneFails ==
  ASSUME LossInv, NEW u \in Users \ retried', NEW t \in Threads, ThreadStep(u, t), Fail(u, t),
         UNCHANGED <<fds, sockfd, open>>, cutOff \subseteq cutOff',
         thread[u][t] \in {"loop", "text"} => sockfd[u] \notin open \/ sockfd[u] \in cutOff',
         thread[u][t] \in {"answer", "welcome"} => sockfd[u] \notin open,
         thread[u][t] \in {"loop", "text", "answer", "welcome"}
  PROVE  One(u, Lead(u))'
<1>1. u \in Users \ retried
  BY ClientChanges DEF ClientStep
<1>2. ClientTypes /\ t = Lead(u) /\ t \in {"main", "first"} /\ One(u, t)
  BY <1>1, LeadActs DEF LossInv, SoundPool, AllTypes
<1>3. ~First(u, t) /\ t = "first"
  BY <1>1, <1>2 DEF Fail, First
<1>4. reading'[u][t] = NoConn /\ \A r \in Threads : r # t => reading'[u][r] = reading[u][r]
  BY <1>2 DEF Fail, ClientTypes, Threads
<1>5. CASE thread[u][t] \in {"loop", "text"}
  <2>1. Stage(u, t, "drop")
    BY <1>5 DEF Fail
  <2>2. /\ Lead(u)' = t /\ thread'[u][t] = "drop"
        /\ \A r \in Threads : r # t => thread'[u][r] = thread[u][r]
    BY <1>2, <2>1, LeadStages DEF One
  <2>3. OnlyThread(u, t)'
    BY <1>2, <1>3, <1>4, <2>2 DEF One, OnlyThread, Threads
  <2>4. StageInv(u, t)'
    BY <1>4, <1>5, <2>2 DEF StageInv
  <2>5. StreamInv(u, t)'
    BY <2>2 DEF StreamInv
  <2> QED
    BY <2>2, <2>3, <2>4, <2>5 DEF One
<1>6. CASE thread[u][t] \in {"answer", "welcome"}
  <2>1. Stage(u, t, "open")
    BY <1>3, <1>6 DEF Fail
  <2>2. /\ Lead(u)' = t /\ thread'[u][t] = "open"
        /\ \A r \in Threads : r # t => thread'[u][r] = thread[u][r]
    BY <1>2, <2>1, LeadStages DEF One
  <2>3. OnlyThread(u, t)'
    BY <1>2, <1>3, <1>4, <2>2 DEF One, OnlyThread, Threads
  <2>4. fds[u] \cap open = {}
    BY <1>2, <1>6 DEF One, OnlyThread
  <2>5. StageInv(u, t)'
    BY <1>4, <2>2, <2>4 DEF StageInv
  <2>6. StreamInv(u, t)'
    BY <2>2 DEF StreamInv
  <2> QED
    BY <2>2, <2>3, <2>5, <2>6 DEF One
<1> QED
  BY <1>5, <1>6

\* A header is taken, or none.  A receiver that gives up a connection the server has not closed
\* met zeros that a broadcast left.
LEMMA OneTakesHeader ==
  ASSUME LossInv, NEW u \in Users \ retried', NEW t \in Threads, RecvHeader(u, t)
  PROVE  /\ One(u, Lead(u))'
         /\ \A c \in cutOff' \ cutOff : c \in flooded
<1>1. ThreadStep(u, t)
  BY DEF ThreadStep
<1>2. u \in Users \ retried
  BY <1>1, ClientChanges DEF ClientStep
<1>3. /\ ClientTypes /\ StreamTypes /\ t = Lead(u) /\ t \in {"main", "first"} /\ One(u, t)
      /\ NoConn \notin Conns
  BY <1>1, <1>2, LeadActs, ConnNumbers DEF LossInv, SoundPool, AllTypes
<1> DEFINE c == sockfd[u]
           q == toClient[c]
<1>4. reading[u][t] = c /\ c \in Conns /\ thread[u][t] \in {"loop", "answer"}
  BY <1>3 DEF RecvHeader, One, OnlyThread, ClientTypes
<1>5. q \in Seq(FromServer) /\ (q # <<>> \/ c \notin open)
  BY <1>3, <1>4 DEF RecvHeader, StreamTypes
<1>6. /\ UNCHANGED <<fds, sockfd, open, pc, serving, flooded>>
      /\ toClient' = [toClient EXCEPT ![c] = IF toClient[c] # <<>> THEN Tail(@) ELSE @]
  BY <1>4 DEF RecvHeader, server
<1>7. thread[u][t] = "answer" /\ q # <<>> => Head(q) = "WELCOME" /\ IsHeader(Head(q))
  BY <1>3 DEF One, StreamInv, IsHeader
<1>8. CASE q # <<>> /\ IsHeader(Head(q))
  <2>1. PICK stage \in {"text", "welcome"} :
           /\ Stage(u, t, stage) /\ stage = IF thread[u][t] = "loop" THEN "text" ELSE "welcome"
           /\ UNCHANGED <<reading, retried, cutOff>>
    <3>1. /\ Stage(u, t, IF thread[u][t] = "loop" THEN "text"
                         ELSE IF Head(q) = "WELCOME" THEN "welcome" ELSE "other")
          /\ UNCHANGED <<reading, retried, cutOff>>
      BY <1>4, <1>8 DEF RecvHeader
    <3>2. CASE thread[u][t] = "loop"
      <4>1. Stage(u, t, "text")
        BY <3>1, <3>2
      <4> QED
        BY <3>1, <3>2, <4>1
    <3>3. CASE thread[u][t] = "answer"
      <4>1. Head(q) = "WELCOME"
        BY <1>7, <1>8, <3>3
      <4>2. Stage(u, t, "welcome")
        BY <3>1, <3>3, <4>1
      <4> QED
        BY <3>1, <3>3, <4>2
    <3> QED
      BY <1>4, <3>2, <3>3
  <2>2. /\ Lead(u)' = t /\ thread'[u][t] = stage
        /\ \A r \in Threads : r # t => thread'[u][r] = thread[u][r]
    BY <1>3, <2>1, LeadStages DEF One
  <2>3. toClient'[c] = Tail(q)
    <3> HIDE DEF c
    <3>1. toClient'[c] = Tail(toClient[c])
      BY <1>3, <1>4, <1>6, <1>8, ClientTook
    <3> QED
      BY <3>1
  <2>4. OnlyThread(u, t)'
    <3>1. t = "main" => stage = "welcome"
      BY <1>3, <1>4, <2>1 DEF One, OnlyThread
    <3> QED
      BY <1>3, <1>6, <2>1, <2>2, <3>1 DEF One, OnlyThread, Threads
  <2>5. StageInv(u, t)'
    BY <1>3, <1>4, <1>6, <2>1, <2>2 DEF One, StageInv
  <2>6. StreamInv(u, t)'
    <3>1. c \notin flooded => Whole(q, 0)
      BY <1>3, <1>4 DEF One, StreamInv
    <3>2. c \notin flooded => Whole(Tail(q), 1)
      BY <1>5, <1>8, <3>1, WholeHeader
    <3>3. thread'[u][t] \in {"text", "welcome"} /\ sockfd'[u] = c /\ flooded' = flooded
      BY <1>6, <2>1, <2>2
    <3> QED
      BY <2>3, <3>2, <3>3 DEF StreamInv
  <2> QED
    BY <2>1, <2>2, <2>4, <2>5, <2>6 DEF One
<1>9. CASE ~(q # <<>> /\ IsHeader(Head(q)))
  <2>1. Fail(u, t) /\ cutOff' = IF c \in open THEN cutOff \cup {c} ELSE cutOff
    BY <1>4, <1>9 DEF RecvHeader
  <2>2. thread[u][t] = "answer" => c \notin open
    BY <1>5, <1>7, <1>9
  <2>3. c \in open => c \in flooded
    <3> SUFFICES ASSUME c \in open, c \notin flooded PROVE FALSE
      OBVIOUS
    <3>1. Whole(q, 0) /\ q # <<>>
      BY <1>3, <1>4, <1>5 DEF One, StreamInv
    <3> QED
      BY <1>5, <1>9, <3>1, WholeHeader
  <2>4. One(u, Lead(u))'
    <3>1. thread[u][t] \in {"loop", "text"} => c \notin open \/ c \in cutOff'
      BY <2>1
    <3>2. cutOff \subseteq cutOff'
      BY <2>1
    <3> QED
      BY <1>1, <1>4, <1>6, <2>1, <2>2, <3>1, <3>2, OneFails
  <2> QED
    BY <2>1, <2>3, <2>4
<1> QED
  BY <1>8, <1>9

\* A body is taken, or none.
LEMMA OneTakesBody ==
  ASSUME LossInv, NEW u \in Users \ retried', NEW t \in Threads, RecvBody(u, t)
  PROVE  One(u, Lead(u))'
<1>1. ThreadStep(u, t)
  BY DEF ThreadStep
<1>2. u \in Users \ retried
  BY <1>1, ClientChanges DEF ClientStep
<1>3. /\ ClientTypes /\ StreamTypes /\ t = Lead(u) /\ t \in {"main", "first"} /\ One(u, t)
      /\ NoConn \notin Conns
  BY <1>1, <1>2, LeadActs, ConnNumbers DEF LossInv, SoundPool, AllTypes
<1> DEFINE c == sockfd[u]
           q == toClient[c]
<1>4. thread[u][t] \in {"text", "welcome"}
  BY <1>3 DEF RecvBody, One, OnlyThread
<1>5. reading[u][t] = c /\ c \in fds[u] /\ c \in Conns
  <2>1. reading[u][t] = c /\ c \in fds[u]
    BY <1>3, <1>4 DEF One, StageInv
  <2>2. 1 .. made \subseteq Conns
    BY ConnNumbers DEF LossInv, SoundPool, AllTypes
  <2>3. fds[u] \subseteq 1 .. made
    BY <1>3 DEF ClientTypes
  <2> QED
    BY <2>1, <2>2, <2>3
<1>6. q \in Seq(FromServer) /\ (q # <<>> \/ c \notin open)
  BY <1>3, <1>5 DEF RecvBody, StreamTypes
<1>7. /\ UNCHANGED <<fds, sockfd, open, pc, serving, flooded, cutOff>>
      /\ toClient' = [toClient EXCEPT ![c] = IF toClient[c] # <<>> THEN Tail(@) ELSE @]
  BY <1>5 DEF RecvBody, server
<1>8. CASE q = <<>>
  <2>1. Fail(u, t)
    BY <1>5, <1>8 DEF RecvBody
  <2> QED
    BY <1>1, <1>4, <1>6, <1>7, <1>8, <2>1, OneFails
<1>9. CASE q # <<>>
  <2>1. /\ thread' = [thread EXCEPT ![u] = IF thread[u][t] = "welcome" THEN Connected(u, t)
                                           ELSE [@ EXCEPT ![t] = "loop"]]
        /\ reading' = [reading EXCEPT ![u][t] = NoConn]
    BY <1>4, <1>5, <1>9 DEF RecvBody
  <2>2. toClient'[c] = Tail(q)
    <3> HIDE DEF c
    <3>1. toClient'[c] = Tail(toClient[c])
      BY <1>3, <1>5, <1>7, <1>9, ClientTook
    <3> QED
      BY <3>1
  <2>3. c \notin flooded => Whole(Tail(q), 0)
    <3>1. c \notin flooded => Whole(q, 1)
      BY <1>3, <1>4 DEF One, StreamInv
    <3> QED
      BY <1>6, <3>1, WholeBody
  <2>4. \A r \in Threads : reading'[u][r] = NoConn
    BY <1>3, <2>1 DEF One, OnlyThread, ClientTypes, Threads
  <2>5. thread'[u]["main"] = "input" /\ thread'[u]["first"] = "loop" /\ thread'[u]["second"] = "off"
    <3>1. /\ thread[u] \in [Threads -> ThreadStages] /\ thread[u]["second"] = "off"
          /\ t = "first" => thread[u]["main"] = "input"
      BY <1>3 DEF One, OnlyThread, ClientTypes
    <3>2. CASE t = "first"
      <4>1. Connected(u, t) = [thread[u] EXCEPT ![t] = "loop"]
        BY <3>2 DEF Connected
      <4>2. thread' = [thread EXCEPT ![u] = [thread[u] EXCEPT ![t] = "loop"]]
        <5>1. CASE thread[u][t] = "welcome"
          BY <2>1, <4>1, <5>1
        <5>2. CASE thread[u][t] # "welcome"
          BY <2>1, <5>2
        <5> QED
          BY <5>1, <5>2
      <4>3. thread'[u] = [thread[u] EXCEPT ![t] = "loop"]
        BY <1>3, <4>2 DEF ClientTypes
      <4> QED
        BY <3>1, <3>2, <4>3 DEF Threads
    <3>3. CASE t = "main"
      <4>1. thread[u][t] = "welcome"
        BY <1>3, <1>4, <3>3 DEF One, OnlyThread
      <4>2. thread'[u] = Connected(u, t)
        BY <1>3, <2>1, <4>1 DEF ClientTypes
      <4>3. Connected(u, t) = [r \in Threads |-> CASE r = "main" -> "input"
                                                   [] r = "second" /\ u \notin retried -> "off"
                                                   [] OTHER -> "loop"]
        BY <3>3 DEF Connected
      <4> QED
        BY <1>2, <4>2, <4>3 DEF Threads
    <3> QED
      BY <1>3, <3>2, <3>3
  <2>6. Lead(u)' = "first"
    BY <2>5 DEF Lead
  <2>7. OnlyThread(u, "first")'
    BY <1>3, <1>7, <2>4, <2>5 DEF One, OnlyThread, Threads
  <2>8. StageInv(u, "first")'
    BY <1>5, <1>7, <2>4, <2>5 DEF StageInv, Threads
  <2>9. StreamInv(u, "first")'
    <3>1. sockfd'[u] = c /\ flooded' = flooded
      BY <1>7
    <3> QED
      BY <2>2, <2>3, <2>5, <3>1 DEF StreamInv
  <2> QED
    BY <2>6, <2>7, <2>8, <2>9 DEF One
<1> QED
  BY <1>8, <1>9

\* The descriptor is closed: that of a connection the server has closed, or that gave zeros.
LEMMA OneDrops ==
  ASSUME LossInv, NEW u \in Users \ retried, NEW t \in Threads, Drop(u, t)
  PROVE  One(u, Lead(u))' /\ robbed' = robbed
<1>1. ClientTypes /\ t = Lead(u) /\ t \in {"main", "first"} /\ One(u, t)
  BY LeadActs DEF ThreadStep, LossInv, SoundPool, AllTypes
<1>2. /\ thread[u][t] = "drop" /\ Stage(u, t, "open") /\ fds' = [fds EXCEPT ![u] = @ \ {sockfd[u]}]
      /\ UNCHANGED <<sockfd, reading, open, cutOff>>
  BY DEF Drop, server
<1>3. sockfd[u] \notin open \/ sockfd[u] \in cutOff
  BY <1>1, <1>2 DEF One, StageInv
<1>4. robbed' = robbed
  BY <1>3 DEF Drop
<1>5. /\ Lead(u)' = t /\ thread'[u][t] = "open"
      /\ \A r \in Threads : r # t => thread'[u][r] = thread[u][r]
  BY <1>1, <1>2, LeadStages DEF One
<1>6. t = "first"
  BY <1>1, <1>2 DEF One, OnlyThread
<1>7. fds'[u] = fds[u] \ {sockfd[u]}
  BY <1>1, <1>2 DEF ClientTypes
<1>8. OnlyThread(u, t)' /\ fds'[u] \cap open' = {}
  BY <1>1, <1>2, <1>5, <1>6, <1>7 DEF One, OnlyThread, Threads
<1>9. StageInv(u, t)'
  BY <1>1, <1>2, <1>5, <1>8 DEF One, StageInv
<1>10. StreamInv(u, t)'
  BY <1>5 DEF StreamInv
<1> QED
  BY <1>4, <1>5, <1>8, <1>9, <1>10 DEF One

\* A line is sent, or the program ends.
LEMMA OneTypes ==
  ASSUME LossInv, NEW u \in Users \ retried, Input(u) \/ Quit(u)
  PROVE  One(u, Lead(u))'
<1>1. ClientTypes /\ One(u, Lead(u)) /\ Lead(u) \in {"main", "first"}
  BY DEF LossInv, SoundPool, AllTypes, ClientInv, Lead
<1>2. CASE Input(u)
  <2>1. UNCHANGED <<thread, reading, fds, sockfd, toClient, open, pc, serving, flooded, cutOff>>
    BY <1>2 DEF Input, server, client, past
  <2>2. PICK t \in {"main", "first"} : t = Lead(u)
    BY <1>1
  <2>3. Lead(u)' = t
    BY <2>1, <2>2 DEF Lead
  <2>4. One(u, t)'
    BY <1>1, <2>1, <2>2 DEF One, OnlyThread, StageInv, StreamInv
  <2> QED
    BY <2>3, <2>4
<1>3. CASE Quit(u)
  <2>1. /\ fds'[u] = {} /\ sockfd'[u] = NoConn
        /\ \A r \in Threads : thread'[u][r] = "off" /\ reading'[u][r] = NoConn
    BY <1>1, <1>3 DEF Quit, ClientTypes
  <2>2. Lead(u)' = "main"
    BY <2>1 DEF Lead, Threads
  <2>3. One(u, "main")'
    BY <2>1 DEF One, OnlyThread, StageInv, StreamInv, Threads
  <2> QED
    BY <2>2, <2>3
<1> QED
  BY <1>2, <1>3

-----------------------------------------------------------------------------
\* It holds at the start.
LEMMA LossInitially == Init => LossInv
<1> SUFFICES ASSUME Init PROVE LossInv
  OBVIOUS
<1>1. SoundPool /\ made = 0
  BY PoolInitially DEF Init, made
<1>2. OwnerInv /\ FreshInv
  BY DEF Init, OwnerInv, FreshInv
<1>3. ASSUME NEW u \in Users PROVE One(u, Lead(u))
  <2>1. /\ thread[u] = [t \in Threads |-> IF t = "main" THEN "start" ELSE "off"]
        /\ fds[u] = {} /\ sockfd[u] = NoConn /\ \A t \in Threads : reading[u][t] = NoConn
    BY DEF Init
  <2>2. /\ thread[u]["main"] = "start" /\ thread[u]["first"] = "off" /\ thread[u]["second"] = "off"
    BY <2>1 DEF Threads
  <2>3. Lead(u) = "main"
    BY <2>2 DEF Lead
  <2>4. One(u, "main")
    BY <2>1, <2>2 DEF One, OnlyThread, StageInv, StreamInv, Threads
  <2> QED
    BY <2>3, <2>4
<1>4. ClientInv /\ CutOffWhy /\ RobbedInv
  BY <1>3 DEF Init, ClientInv, CutOffWhy, RobbedInv
<1> QED
  BY <1>1, <1>2, <1>4 DEF LossInv

\* Why a client gives up a connection, in a step of that client.
LEMMA ClientKeepsCauses ==
  ASSUME LossInv, NEW u \in Users, ClientStep(u)
  PROVE  CutOffWhy' /\ RobbedInv'
<1>1. OwnerInv /\ CutOffWhy /\ RobbedInv /\ PoolTypes /\ PastTypes /\ ClientTypes /\ NoConn \notin Conns
  BY ConnNumbers DEF LossInv, SoundPool, AllTypes
<1>2. /\ flooded' = flooded /\ retried \subseteq retried' /\ retried' \subseteq retried \cup {u}
      /\ \A c \in 1 .. made : madeBy'[c] = madeBy[c]
  BY ClientChanges, MadeGrows
<1>3. \A c \in cutOff' \ cutOff : c \in 1 .. made /\ madeBy[c] = u /\ (u \notin retried' => c \in flooded)
  <2> SUFFICES ASSUME NEW c \in cutOff' \ cutOff
               PROVE  c \in 1 .. made /\ madeBy[c] = u /\ (u \notin retried' => c \in flooded)
    OBVIOUS
  <2>1. PICK t \in Threads : RecvHeader(u, t)
    BY DEF ClientStep, ThreadStep, ConnectToServer, SendHello, Recv, RecvBody, Drop, Input, Quit,
       past
  <2>2. c = reading[u][t] /\ c # NoConn
    BY <2>1 DEF RecvHeader
  <2>3. c \in 1 .. made /\ madeBy[c] = u
    BY <1>1, <2>2 DEF OwnerInv
  <2>4. u \notin retried' => c \in flooded
    BY <2>1, OneTakesHeader
  <2> QED
    BY <2>3, <2>4
<1>4. \A c \in robbed' \ robbed : c \in 1 .. made /\ madeBy[c] = u /\ u \in retried'
  <2> SUFFICES ASSUME NEW c \in robbed' \ robbed
               PROVE  c \in 1 .. made /\ madeBy[c] = u /\ u \in retried'
    OBVIOUS
  <2>1. PICK t \in Threads : Drop(u, t)
    BY DEF ClientStep, ThreadStep, ConnectToServer, SendHello, Recv, RecvHeader, RecvBody, Input,
       Quit, past
  <2>2. c = sockfd[u] /\ c \in fds[u]
    BY <2>1 DEF Drop
  <2>3. c \in 1 .. made /\ madeBy[c] = u
    BY <1>1, <2>2 DEF OwnerInv, ClientTypes
  <2>4. u \in retried
    BY <2>1, OneDrops
  <2> QED
    BY <1>2, <2>3, <2>4
<1>5. cutOff \subseteq 1 .. made /\ robbed \subseteq 1 .. made
  BY <1>1 DEF PastTypes
<1>6. CutOffWhy'
  BY <1>1, <1>2, <1>3, <1>5 DEF CutOffWhy
<1>7. RobbedInv'
  BY <1>1, <1>2, <1>4, <1>5 DEF RobbedInv
<1> QED
  BY <1>6, <1>7

\* Every step keeps it.
LEMMA LossKept == LossInv /\ [Next]_vars => LossInv'
<1> SUFFICES ASSUME LossInv, [Next]_vars PROVE LossInv'
  OBVIOUS
<1>1. SoundPool'
  BY PoolKept DEF LossInv
<1>2. CASE \E w \in Workers : WorkerStep(w)
  BY <1>1, <1>2, ServerKeepsLoss DEF LossInv
<1>3. CASE Crash \/ Start
  BY <1>1, <1>3, CrashKeepsLoss DEF LossInv
<1>4. CASE \E u \in Users : ClientStep(u)
  <2>1. PICK u \in Users : ClientStep(u)
    BY <1>4
  <2>2. OwnerInv' /\ FreshInv' /\ CutOffWhy' /\ RobbedInv'
    BY <2>1, ClientKeepsOwner, ClientKeepsCauses
  <2>3. ASSUME NEW v \in Users \ retried' PROVE One(v, Lead(v))'
    <3>1. v \in Users \ retried
      BY <2>1, <2>3, ClientChanges
    <3>2. CASE v # u
      BY <2>1, <3>1, <3>2, OthersKept
    <3>3. CASE v = u /\ (Input(u) \/ Quit(u))
      BY <3>1, <3>3, OneTypes
    <3>4. ASSUME v = u, NEW t \in Threads, ThreadStep(u, t) PROVE One(v, Lead(v))'
      BY <2>3, <3>1, <3>4, OneConnects, OneSends, OneReads, OneTakesHeader, OneTakesBody, OneDrops
         DEF ThreadStep
    <3> QED
      BY <2>1, <3>2, <3>3, <3>4 DEF ClientStep
  <2> QED
    BY <1>1, <2>2, <2>3 DEF LossInv, ClientInv
<1>5. CASE UNCHANGED vars
  <2>1. /\ UNCHANGED <<open, pc, serving, toClient, fds, sockfd, thread, reading, madeBy>>
        /\ UNCHANGED <<retried, flooded, cutOff, robbed>> /\ made' = made
    BY <1>5 DEF vars, server, client, past, made
  <2>2. OwnerInv' /\ FreshInv' /\ CutOffWhy' /\ RobbedInv'
    BY <2>1 DEF LossInv, OwnerInv, FreshInv, CutOffWhy, RobbedInv
  <2>3. ASSUME NEW v \in Users \ retried PROVE One(v, Lead(v))'
    <3>1. PICK t \in {"main", "first"} : t = Lead(v)
      BY DEF Lead
    <3>2. t = Lead(v)' /\ One(v, t)
      BY <2>1, <3>1 DEF Lead, LossInv, ClientInv
    <3>3. One(v, t)'
      BY <2>1, <3>2 DEF One, OnlyThread, StageInv, StreamInv
    <3> QED
      BY <3>2, <3>3
  <2> QED
    BY <1>1, <2>1, <2>2, <2>3 DEF LossInv, ClientInv
<1> QED
  BY <1>2, <1>3, <1>4, <1>5 DEF Next, ClientStep

\* A client is cut off, the server being there, only if zeros of a broadcast got into its stream
\* or it has a second receiver; and only a client with a second receiver closes a connection that
\* works, loses track of one, or has a message taken by the wrong thread.
THEOREM LossHasACause == Spec => []ConnectionLossWhy
<1>1. LossInv => ConnectionLossWhy
  <2> SUFFICES ASSUME LossInv PROVE OnlyRetriedLoseConnections
    BY DEF LossInv, ConnectionLossWhy
  <2>1. OwnerInv /\ ClientInv /\ RobbedInv
    BY DEF LossInv
  <2>2. ASSUME NEW c \in Conns, NEW u \in Users \ retried, c \in robbed PROVE madeBy[c] # u
    BY <2>1, <2>2 DEF RobbedInv
  <2>3. ASSUME NEW c \in Conns, NEW u \in Users \ retried, c \in fds[u] \cap open PROVE c = sockfd[u]
    <3>1. PICK t \in {"main", "first"} : OnlyThread(u, t)
      BY <2>1 DEF ClientInv, One, Lead
    <3> QED
      BY <2>3, <3>1 DEF OnlyThread
  <2> QED
    BY <2>2, <2>3 DEF OnlyRetriedLoseConnections
<1> QED
  BY <1>1, LossInitially, LossKept, PTL DEF Spec
=============================================================================
