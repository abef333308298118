------------------------------ MODULE SpiQueue ------------------------------
(***************************************************************************)
(* The queue manager of the SPI driver (drv_spi_static_sys_queue.c): one   *)
(* pool of job elements shared by the queues, a linked list of the free    *)
(* ones, a linked list per queue, and the counts by which each queue keeps *)
(* some elements in reserve.  The operators take the manager's data and    *)
(* return it as the call leaves it; elements are named by their index in   *)
(* the element area.  The locks do nothing here (no queue has a            *)
(* fptrIntChange) and refuse only the NULL handle nobody passes.           *)
(***************************************************************************)
EXTENDS Integers, Sequences

CONSTANTS
  Queues,           \* the queue handles
  PoolSize,         \* elements that fit in the buffer of the manager
  maxElements,      \* elements a queue may have out at a time
  reserveElements,  \* elements kept for each queue
  SizeWord          \* modulus of the counts, size_t's 2^32

ASSUME QueueAssumption ==
  /\ PoolSize \in Nat \ {0} /\ maxElements \in Nat \ {0}
  /\ reserveElements \in 0..maxElements
  /\ SizeWord \in Nat /\ SizeWord > PoolSize + 1

NULL == 0
Element == 1..PoolSize
Pointer == Element \union {NULL}

\* The data of a queue and of the manager.
QueueData ==
  [pHead : Pointer, pTail : Pointer, numAlloc : Nat, numReserved : Nat]
ManagerData ==
  [pNext : [Element -> Pointer],      \* the link in the head of each element
   pFreeElementHead : Pointer, pFreeElementTail : Pointer,
   numFreeElements : Nat, numReserveElements : Nat,
   queue : [Queues -> QueueData]]

\* The elements from a head on, at most PoolSize of them.
Walk(m, head) ==
  LET from[n \in 1..PoolSize] ==
        IF n = 1 THEN head
        ELSE IF from[n - 1] = NULL THEN NULL ELSE m.pNext[from[n - 1]]
  IN from
Chain(m, head) ==
  LET walk == Walk(m, head)
      length == CHOOSE k \in 0..PoolSize :
                  \A n \in 1..PoolSize : walk[n] # NULL <=> n <= k
  IN [n \in 1..length |-> walk[n]]
-----------------------------------------------------------------------------
NoQueue == [pHead |-> NULL, pTail |-> NULL, numAlloc |-> 0, numReserved |-> 0]

\* DRV_SPI_SYS_QUEUE_Initialize: the free list takes the elements in order.
Initialize ==
  [pNext |-> [e \in Element |-> IF e = PoolSize THEN NULL ELSE e + 1],
   pFreeElementHead |-> 1, pFreeElementTail |-> PoolSize,
   numFreeElements |-> PoolSize, numReserveElements |-> 0,
   queue |-> [q \in Queues |-> NoQueue]]

CreateQueueRefused(m) ==
  m.numReserveElements + reserveElements > m.numFreeElements
CreateQueue(m, q) ==
  [m EXCEPT !.queue[q] = [NoQueue EXCEPT !.numReserved = reserveElements],
            !.numReserveElements = @ + reserveElements]

IsEmpty(m, q) == m.queue[q].pHead = NULL

\* No element is left, the queue has its share, or the rest is reserved.
AllocElementRefused(m, q) ==
  \/ m.pFreeElementHead = NULL
  \/ m.queue[q].numAlloc = maxElements
  \/ /\ m.queue[q].numAlloc >= m.queue[q].numReserved
     /\ m.numFreeElements = m.numReserveElements

\* The counts wrap around: nothing stops one at 0.
CountUp(n) == (n + 1) % SizeWord
CountDown(n) == (n - 1) % SizeWord

\* The element a call gets when it is not refused.
ElementOf(m) == m.pFreeElementHead

\* Mutant: the reserve is not drawn on.
AllocElementFreely(m, q) ==
  LET entry == ElementOf(m) IN
  [m EXCEPT !.pFreeElementHead = m.pNext[entry],
            !.pFreeElementTail = IF m.pNext[entry] = NULL THEN NULL ELSE @,
            !.pNext[entry] = NULL,
            !.numFreeElements = CountDown(@),
            !.queue[q].numAlloc = CountUp(@)]

AllocElement(m, q) ==
  LET entry == ElementOf(m) IN
  [m EXCEPT !.pFreeElementHead = m.pNext[entry],
            !.pFreeElementTail = IF m.pNext[entry] = NULL THEN NULL ELSE @,
            !.pNext[entry] = NULL,
            !.numFreeElements = CountDown(@),
            !.numReserveElements =
               IF m.queue[q].numAlloc < m.queue[q].numReserved
               THEN CountDown(@) ELSE @,
            !.queue[q].numAlloc = CountUp(@)]

\* The element goes to the tail of the free list, whatever list it is in; its
\* own link is left alone.
FreeElement(m, q, e) ==
  LET left == CountDown(m.queue[q].numAlloc) IN
  [m EXCEPT !.pFreeElementHead = IF @ = NULL THEN e ELSE @,
            !.pNext = IF m.pFreeElementHead = NULL THEN @
                      ELSE [@ EXCEPT ![m.pFreeElementTail] = e],
            !.pFreeElementTail = e,
            !.numFreeElements = CountUp(@),
            !.numReserveElements =
               IF left < m.queue[q].numReserved THEN CountUp(@) ELSE @,
            !.queue[q].numAlloc = left]

\* Mutant: the job goes to the head of the queue.
EnqueueFirst(m, q, e) ==
  [m EXCEPT !.pNext[e] = m.queue[q].pHead,
            !.queue[q].pHead = e,
            !.queue[q].pTail = IF @ = NULL THEN e ELSE @]

Enqueue(m, q, e) ==
  [m EXCEPT !.pNext = IF IsEmpty(m, q) THEN @
                      ELSE [@ EXCEPT ![m.queue[q].pTail] = e],
            !.queue[q].pHead = IF @ = NULL THEN e ELSE @,
            !.queue[q].pTail = e]

\* Of a queue that is not empty, whose first element it takes.
Dequeue(m, q) ==
  LET entry == m.queue[q].pHead IN
  [m EXCEPT !.queue[q].pHead = m.pNext[entry],
            !.queue[q].pTail = IF m.pNext[entry] = NULL THEN NULL ELSE @,
            !.pNext[entry] = NULL]

\* What the driver calls: each takes and gives back a lock that locks nothing.
AllocElementLock(m, q) == AllocElement(m, q)
FreeElementLock(m, q, e) == FreeElement(m, q, e)
EnqueueLock(m, q, e) == Enqueue(m, q, e)
DequeueLock(m, q) == Dequeue(m, q)
=============================================================================
