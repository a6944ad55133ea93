------------------------------ MODULE FifoQueue ------------------------------
(***************************************************************************)
(* What the server's connection queue promises, without ring buffer,       *)
(* mutex or condition variables: the accepting thread hands over one       *)
(* descriptor at a time, the workers take them in the order in which they  *)
(* were handed over, each descriptor goes to exactly one worker, and no    *)
(* more than QueueSize of them wait.                                       *)
(***************************************************************************)
EXTENDS Naturals, Sequences

CONSTANTS Workers,     \* the threads of the pool
          Sockets,     \* connection descriptors
          QueueSize,   \* how many connections may wait
          NoSocket     \* "no descriptor"

VARIABLES queue,       \* waiting descriptors, oldest first
          accepted,    \* the descriptor the accepting thread is handing over
          serving      \* what each worker is serving

vars == <<queue, accepted, serving>>

Waiting == {queue[i] : i \in DOMAIN queue}

\* The descriptors the kernel cannot hand out again.
Open == Waiting \cup {accepted} \cup {serving[w] : w \in Workers}

Init ==
  /\ queue = <<>>
  /\ accepted = NoSocket
  /\ serving = [w \in Workers |-> NoSocket]

Accept(s) ==
  /\ accepted = NoSocket
  /\ s \notin Open
  /\ accepted' = s
  /\ UNCHANGED <<queue, serving>>

Enqueue ==
  /\ accepted # NoSocket
  /\ Len(queue) < QueueSize
  /\ queue' = Append(queue, accepted)
  /\ accepted' = NoSocket
  /\ UNCHANGED serving

Dequeue(w) ==
  /\ serving[w] = NoSocket
  /\ queue # <<>>
  /\ serving' = [serving EXCEPT ![w] = Head(queue)]
  /\ queue' = Tail(queue)
  /\ UNCHANGED accepted

Close(w) ==
  /\ serving[w] # NoSocket
  /\ serving' = [serving EXCEPT ![w] = NoSocket]
  /\ UNCHANGED <<queue, accepted>>

Next ==
  \/ \E s \in Sockets : Accept(s)
  \/ Enqueue
  \/ \E w \in Workers : Dequeue(w) \/ Close(w)

Spec == Init /\ [][Next]_vars
==============================================================================
