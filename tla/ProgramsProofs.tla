--------------------------- MODULE ProgramsProofs ---------------------------
(***************************************************************************)
(* Proofs about single programs and calls: the circular queue of           *)
(* prodcons.c, the file system of hello_fuse.c, prctl with PR_SET_MM and   *)
(* with the attributes of a task, the simulator vmsim.java, sysinfo, and   *)
(* the graphics library with its two programs.                             *)
(***************************************************************************)
EXTENDS CarQueueClient, CarQueueProofs, HelloFuse, PrctlMm, Prctl, Vmsim, Sysinfo, Graphics,
        FiniteSetTheorems, SequenceTheorems, WellFoundedInduction, TLAPS

-----------------------------------------------------------------------------
(***************************************************************************)
(* The inductive invariant of car_queue: front and rear are both slots or  *)
(* both -1, and size is right as long as there is a car.                   *)
(***************************************************************************)
QueueInv ==
  /\ queue \in [car : [Slot -> CarNumber], front : Slot \cup {-1}, rear : Slot \cup {-1}, size : Int]
  /\ queue.front = -1 <=> queue.rear = -1
  /\ SizeOfQueue

\* What enqueue() does to a queue that is not full.
LEMMA EnqueueStep ==
  ASSUME QueueInv, NEW element \in CarNumber, ~is_full(queue), enqueue(element)
  PROVE  /\ queue'.rear = IF queue.rear = MAX_QUEUE_SIZE - 1 THEN 0 ELSE queue.rear + 1
         /\ queue'.front = IF queue.front = -1 THEN 0 ELSE queue.front
         /\ queue'.car = [queue.car EXCEPT ![queue'.rear] = element]
         /\ queue'.size = Size(queue'.front, queue'.rear)
         /\ queue'.rear \in Slot /\ queue'.front \in Slot
         /\ queue' \in [car : [Slot -> CarNumber], front : Slot, rear : Slot, size : Int]
<1>1. queue.rear \in Slot \cup {-1}
  BY DEF QueueInv
<1>2. (queue.rear + 1) % MAX_QUEUE_SIZE = IF queue.rear = MAX_QUEUE_SIZE - 1 THEN 0 ELSE queue.rear + 1
  BY <1>1, NextSlot
<1> DEFINE front == IF queue.front = -1 THEN 0 ELSE queue.front
           rear == IF queue.rear = MAX_QUEUE_SIZE - 1 THEN 0 ELSE queue.rear + 1
<1>3. queue' = [car |-> [queue.car EXCEPT ![rear] = element],
                front |-> front, rear |-> rear, size |-> Size(front, rear)]
  BY <1>2 DEF enqueue, Enqueued
<1>4. rear \in Slot /\ front \in Slot
  BY CarQueueAssumption DEF QueueInv, Slot
<1>5. Size(front, rear) \in Int
  BY <1>4, CarQueueAssumption DEF Size, Slot
<1>6. [queue.car EXCEPT ![rear] = element] \in [Slot -> CarNumber]
  BY DEF QueueInv
<1> HIDE DEF front, rear
<1>7. QED
  BY <1>3, <1>4, <1>5, <1>6 DEF front, rear

\* What dequeue() does to a queue that is not empty.
LEMMA DequeueStep ==
  ASSUME QueueInv, ~is_empty(queue), dequeue
  PROVE  /\ left' = queue.car[queue.front]
         /\ queue'.car = queue.car
         /\ IF queue.front = queue.rear THEN queue'.front = -1 /\ queue'.rear = -1
            ELSE /\ queue'.front = IF queue.front = MAX_QUEUE_SIZE - 1 THEN 0 ELSE queue.front + 1
                 /\ queue'.front \in Slot
                 /\ queue'.rear = queue.rear
                 /\ queue'.size = Size(queue'.front, queue'.rear)
         /\ queue' \in [car : [Slot -> CarNumber], front : Slot \cup {-1}, rear : Slot \cup {-1}, size : Int]
<1>0. queue.front \in Slot /\ queue.rear \in Slot
  BY DEF QueueInv, is_empty
<1>1. (queue.front + 1) % MAX_QUEUE_SIZE = IF queue.front = MAX_QUEUE_SIZE - 1 THEN 0 ELSE queue.front + 1
  BY <1>0, NextSlot
<1> DEFINE last == queue.front = queue.rear
           front == IF last THEN -1
                    ELSE IF queue.front = MAX_QUEUE_SIZE - 1 THEN 0 ELSE queue.front + 1
           rear == IF last THEN -1 ELSE queue.rear
<1>2. left' = queue.car[queue.front]
  BY DEF dequeue, Element
<1>3. queue' = [queue EXCEPT !.front = front, !.rear = rear, !.size = Size(front, rear)]
  BY <1>1 DEF dequeue, Dequeued
<1>4. front \in Slot \cup {-1} /\ rear \in Slot \cup {-1} /\ (~last => front \in Slot)
  BY <1>0, CarQueueAssumption DEF Slot
<1>5. Size(front, rear) \in Int
  BY <1>4, CarQueueAssumption DEF Size, Slot
<1>6. last => front = -1 /\ rear = -1
  OBVIOUS
<1>7. ~last => /\ front = IF queue.front = MAX_QUEUE_SIZE - 1 THEN 0 ELSE queue.front + 1
               /\ rear = queue.rear
  OBVIOUS
<1> HIDE DEF front, rear
<1>8. /\ queue'.front = front /\ queue'.rear = rear /\ queue'.car = queue.car
      /\ queue'.size = Size(front, rear)
      /\ queue' \in [car : [Slot -> CarNumber], front : Slot \cup {-1}, rear : Slot \cup {-1}, size : Int]
  BY <1>3, <1>4, <1>5 DEF QueueInv
<1>9. QED
  BY <1>2, <1>4, <1>6, <1>7, <1>8

\* enqueue() and dequeue(), also on a full or an empty queue, keep the
\* invariant.
LEMMA QueueStep == QueueInv /\ [QueueNext]_queueVars => QueueInv'
<1> SUFFICES ASSUME QueueInv, [QueueNext]_queueVars PROVE QueueInv'
  OBVIOUS
<1>1. ASSUME NEW element \in CarNumber, enqueue(element), ~is_full(queue) PROVE QueueInv'
  <2>1. /\ queue' \in [car : [Slot -> CarNumber], front : Slot, rear : Slot, size : Int]
        /\ queue'.size = Size(queue'.front, queue'.rear)
    BY <1>1, EnqueueStep
  <2>2. queue'.front # -1 /\ queue'.rear # -1
    BY <2>1, CarQueueAssumption DEF Slot
  <2>3. queue'.size = Length(queue')
    BY <2>1, LengthOfQueue
  <2>4. QED
    BY <2>1, <2>2, <2>3 DEF QueueInv, SizeOfQueue
<1>2. ASSUME dequeue, ~is_empty(queue) PROVE QueueInv'
  <2>1. queue' \in [car : [Slot -> CarNumber], front : Slot \cup {-1}, rear : Slot \cup {-1}, size : Int]
    BY <1>2, DequeueStep
  <2>2. CASE queue.front = queue.rear
    <3>1. queue'.front = -1 /\ queue'.rear = -1
      BY <1>2, <2>2, DequeueStep
    <3>2. QED
      BY <2>1, <3>1 DEF QueueInv, SizeOfQueue, is_empty
  <2>3. CASE queue.front # queue.rear
    <3>1. queue'.front \in Slot /\ queue'.rear = queue.rear /\ queue'.size = Size(queue'.front, queue'.rear)
      BY <1>2, <2>3, DequeueStep
    <3>2. queue'.rear \in Slot
      BY <1>2, <3>1 DEF QueueInv, is_empty
    <3>3. queue'.size = Length(queue')
      BY <3>1, <3>2, LengthOfQueue
    <3>4. queue'.front # -1 /\ queue'.rear # -1
      BY <3>1, <3>2, CarQueueAssumption DEF Slot
    <3>5. QED
      BY <2>1, <3>3, <3>4 DEF QueueInv, SizeOfQueue
  <2>4. QED
    BY <2>2, <2>3
<1>3. CASE UNCHANGED queue
  BY <1>3 DEF QueueInv, SizeOfQueue, is_empty, Length
<1>4. QED
  BY <1>1, <1>2, <1>3 DEF QueueNext, queueVars, enqueue, Enqueued, dequeue, Dequeued

\* Every sequence of calls keeps the invariant.
LEMMA QueueInvHolds == QueueSpec => []QueueInv
<1>1. QueueInit => QueueInv
  BY CarQueueAssumption DEF QueueInit, NewQueue, QueueInv, SizeOfQueue, is_empty, Slot
<1>2. QED
  BY <1>1, QueueStep, PTL DEF QueueSpec

(***************************************************************************)
(* For any size of the array and any calls of enqueue() and dequeue(): the *)
(* size field is the number of cars as long as there is one.               *)
(***************************************************************************)
THEOREM SizeIsRight == QueueSpec => []SizeOfQueue
<1>1. QueueInv => SizeOfQueue
  BY DEF QueueInv
<1>2. QED
  BY <1>1, QueueInvHolds, PTL

-----------------------------------------------------------------------------
\* The slot of the i-th car of a line that begins at slot f.
LEMMA SlotOfCar ==
  ASSUME NEW f \in Slot, NEW i \in 1..MAX_QUEUE_SIZE
  PROVE  /\ (f + i - 1) % MAX_QUEUE_SIZE =
              IF f + i - 1 < MAX_QUEUE_SIZE THEN f + i - 1 ELSE f + i - 1 - MAX_QUEUE_SIZE
         /\ (f + i - 1) % MAX_QUEUE_SIZE \in Slot
<1>1. MAX_QUEUE_SIZE \in Nat \ {0} /\ f \in 0..MAX_QUEUE_SIZE - 1
  BY CarQueueAssumption DEF Slot
<1>2. ASSUME NEW x \in 0..MAX_QUEUE_SIZE - 1
      PROVE  x % MAX_QUEUE_SIZE = x /\ (x + MAX_QUEUE_SIZE) % MAX_QUEUE_SIZE = x
  BY <1>1, <1>2
<1>3. CASE f + i - 1 < MAX_QUEUE_SIZE
  <2>1. f + i - 1 \in 0..MAX_QUEUE_SIZE - 1
    BY <1>1, <1>3
  <2>2. QED
    BY <1>2, <1>3, <2>1 DEF Slot
<1>4. CASE f + i - 1 >= MAX_QUEUE_SIZE
  <2> DEFINE x == f + i - 1 - MAX_QUEUE_SIZE
  <2>1. x \in 0..MAX_QUEUE_SIZE - 1 /\ f + i - 1 = x + MAX_QUEUE_SIZE
    BY <1>1, <1>4
  <2>2. (x + MAX_QUEUE_SIZE) % MAX_QUEUE_SIZE = x
    BY <1>2, <2>1
  <2>3. ~(f + i - 1 < MAX_QUEUE_SIZE)
    BY <1>1, <1>4
  <2>4. QED
    BY <2>1, <2>2, <2>3 DEF Slot
<1>5. QED
  BY <1>1, <1>3, <1>4

\* The cars of a queue are a sequence; an empty queue is the empty one.
LEMMA LineOfQueue ==
  ASSUME NEW q, q.car \in [Slot -> CarNumber],
         q.front = -1 \/ (q.front \in Slot /\ q.rear \in Slot)
  PROVE  /\ Line(q) \in Seq(CarNumber)
         /\ Len(Line(q)) = Length(q)
         /\ \A i \in 1..Length(q) : Line(q)[i] = q.car[(q.front + i - 1) % MAX_QUEUE_SIZE]
         /\ q.front = -1 => Line(q) = <<>>
         /\ q.front # -1 => Line(q) # <<>>
<1>1. Length(q) \in 0..MAX_QUEUE_SIZE /\ (Length(q) = 0 <=> q.front = -1)
  <2>1. CASE q.front = -1
    BY <2>1, CarQueueAssumption DEF Length, is_empty
  <2>2. CASE q.front \in Slot /\ q.rear \in Slot
    BY <2>2, LengthOfQueue, CarQueueAssumption DEF Slot
  <2>3. QED
    BY <2>1, <2>2
<1>2. \A i \in 1..Length(q) : q.car[(q.front + i - 1) % MAX_QUEUE_SIZE] \in CarNumber
  <2> TAKE i \in 1..Length(q)
  <2>1. q.front \in Slot /\ i \in 1..MAX_QUEUE_SIZE
    BY <1>1, CarQueueAssumption
  <2>2. (q.front + i - 1) % MAX_QUEUE_SIZE \in Slot
    BY <2>1, SlotOfCar
  <2>3. QED
    BY <2>2
<1>3. Line(q) \in [1..Length(q) -> CarNumber]
  BY <1>2 DEF Line
<1>4. Line(q) \in Seq(CarNumber)
  BY <1>1, <1>3, SeqDef
<1>5. Len(Line(q)) = Length(q)
  BY <1>1, <1>3, <1>4, LenProperties
<1>6. \A i \in 1..Length(q) : Line(q)[i] = q.car[(q.front + i - 1) % MAX_QUEUE_SIZE]
  BY DEF Line
<1>7. /\ q.front = -1 => Line(q) = <<>>
      /\ q.front # -1 => Line(q) # <<>>
  BY <1>1, <1>4, <1>5, EmptySeq
<1>8. QED
  BY <1>4, <1>5, <1>6, <1>7

\* The line of a queue that keeps the invariant.
LEMMA LineNow ==
  ASSUME QueueInv
  PROVE  /\ Line(queue) \in Seq(CarNumber)
         /\ Len(Line(queue)) = Length(queue)
         /\ \A i \in 1..Length(queue) :
              Line(queue)[i] = queue.car[(queue.front + i - 1) % MAX_QUEUE_SIZE]
         /\ queue.front = -1 => Line(queue) = <<>>
         /\ queue.front # -1 => Line(queue) # <<>>
<1>1. /\ queue.car \in [Slot -> CarNumber]
      /\ queue.front = -1 \/ (queue.front \in Slot /\ queue.rear \in Slot)
  BY DEF QueueInv
<1>2. QED
  BY <1>1, LineOfQueue

\* The number of cars from slot f to slot r of an array of n slots.
Between(n, f, r) == IF f <= r THEN r - f + 1 ELSE r - f + 1 + n

\* It grows by one when enqueue() moves rear on.
LEMMA RearMovesOn ==
  ASSUME NEW n \in Nat \ {0}, NEW f \in 0..n - 1, NEW r \in 0..n - 1,
         NEW last, last = IF r = n - 1 THEN 0 ELSE r + 1,
         Between(n, f, r) # n
  PROVE  /\ Between(n, f, last) = Between(n, f, r) + 1
         /\ last = IF f + Between(n, f, r) < n THEN f + Between(n, f, r)
                   ELSE f + Between(n, f, r) - n
BY DEF Between

\* It shrinks by one when dequeue() moves front on.
LEMMA FrontMovesOn ==
  ASSUME NEW n \in Nat \ {0}, NEW f \in 0..n - 1, NEW r \in 0..n - 1, f # r,
         NEW first, first = IF f = n - 1 THEN 0 ELSE f + 1
  PROVE  Between(n, first, r) = Between(n, f, r) - 1
BY DEF Between

\* enqueue() into a queue with room puts the car at the end of the line.
LEMMA EnqueueJoins ==
  ASSUME QueueInv, QueueInv', NEW element \in CarNumber, ~is_full(queue), enqueue(element)
  PROVE  Len(Line(queue)) < MAX_QUEUE_SIZE /\ Line(queue)' = Append(Line(queue), element)
<1> DEFINE before == Line(queue)
           new == Line(queue')
           n == Length(queue)
<1>1. /\ before \in Seq(CarNumber) /\ Len(before) = n
      /\ \A i \in 1..n : before[i] = queue.car[(queue.front + i - 1) % MAX_QUEUE_SIZE]
  BY LineNow
<1>2. /\ new \in Seq(CarNumber) /\ Len(new) = Length(queue')
      /\ \A i \in 1..Length(queue') :
           new[i] = queue'.car[(queue'.front + i - 1) % MAX_QUEUE_SIZE]
  <2>1. /\ queue'.car \in [Slot -> CarNumber]
        /\ queue'.front \in Slot /\ queue'.rear \in Slot
    BY EnqueueStep
  <2>2. QED
    BY <2>1, LineOfQueue
<1>3. /\ queue'.rear = IF queue.rear = MAX_QUEUE_SIZE - 1 THEN 0 ELSE queue.rear + 1
      /\ queue'.front = IF queue.front = -1 THEN 0 ELSE queue.front
      /\ queue'.car = [queue.car EXCEPT ![queue'.rear] = element]
      /\ queue'.rear \in Slot /\ queue'.front \in Slot
      /\ queue.car \in [Slot -> CarNumber]
  BY EnqueueStep DEF QueueInv
<1>4. /\ n \in Nat /\ n < MAX_QUEUE_SIZE /\ Length(queue') = n + 1
      /\ n = 0 => queue'.rear = queue'.front
      /\ n # 0 => queue'.front = queue.front
      /\ queue'.rear = IF queue'.front + n < MAX_QUEUE_SIZE THEN queue'.front + n
                       ELSE queue'.front + n - MAX_QUEUE_SIZE
  <2>1. Length(queue') = IF queue'.front <= queue'.rear THEN queue'.rear - queue'.front + 1
                         ELSE queue'.rear - queue'.front + 1 + MAX_QUEUE_SIZE
    BY <1>3, LengthOfQueue
  <2>2. CASE queue.front = -1
    <3>1. queue.rear = -1 /\ n = 0
      BY <2>2 DEF QueueInv, Length, is_empty
    <3>2. QED
      BY <1>3, <2>1, <2>2, <3>1, CarQueueAssumption DEF Slot
  <2>3. CASE queue.front # -1
    <3>1. queue.front \in Slot /\ queue.rear \in Slot
      BY <2>3 DEF QueueInv
    <3>2. /\ n = IF queue.front <= queue.rear THEN queue.rear - queue.front + 1
                 ELSE queue.rear - queue.front + 1 + MAX_QUEUE_SIZE
          /\ n \in 1..MAX_QUEUE_SIZE /\ n # MAX_QUEUE_SIZE
      BY <3>1, LengthOfQueue
    <3>3. /\ MAX_QUEUE_SIZE \in Nat \ {0}
          /\ queue.front \in 0..MAX_QUEUE_SIZE - 1 /\ queue.rear \in 0..MAX_QUEUE_SIZE - 1
          /\ queue'.front = queue.front
      BY <1>3, <2>3, <3>1, CarQueueAssumption DEF Slot
    <3>4. /\ n = Between(MAX_QUEUE_SIZE, queue.front, queue.rear)
          /\ Length(queue') = Between(MAX_QUEUE_SIZE, queue.front, queue'.rear)
      BY <2>1, <3>2, <3>3 DEF Between
    <3> HIDE DEF n
    <3>5. /\ Between(MAX_QUEUE_SIZE, queue.front, queue'.rear) = n + 1
          /\ queue'.rear = IF queue.front + n < MAX_QUEUE_SIZE THEN queue.front + n
                           ELSE queue.front + n - MAX_QUEUE_SIZE
      <4>1. queue'.rear = IF queue.rear = MAX_QUEUE_SIZE - 1 THEN 0 ELSE queue.rear + 1
        BY <1>3
      <4>2. Between(MAX_QUEUE_SIZE, queue.front, queue.rear) # MAX_QUEUE_SIZE
        BY <3>2, <3>4
      <4>3. QED
        BY <3>3, <3>4, <4>1, <4>2, RearMovesOn
    <3>6. QED
      BY <3>2, <3>3, <3>4, <3>5
  <2>4. QED
    BY <2>2, <2>3
<1> HIDE DEF before, new, n
<1>5. /\ Append(before, element) \in Seq(CarNumber)
      /\ Len(Append(before, element)) = n + 1
      /\ \A i \in 1..n : Append(before, element)[i] = before[i]
      /\ Append(before, element)[n + 1] = element
  BY <1>1, AppendProperties
<1>6. ASSUME NEW i \in 1..n + 1 PROVE new[i] = Append(before, element)[i]
  <2>1. /\ i \in 1..MAX_QUEUE_SIZE
        /\ new[i] = queue'.car[(queue'.front + i - 1) % MAX_QUEUE_SIZE]
    BY <1>2, <1>4, CarQueueAssumption
  <2>2. (queue'.front + i - 1) % MAX_QUEUE_SIZE =
          IF queue'.front + i - 1 < MAX_QUEUE_SIZE THEN queue'.front + i - 1
          ELSE queue'.front + i - 1 - MAX_QUEUE_SIZE
    BY <1>3, <2>1, SlotOfCar
  <2>3. (queue'.front + i - 1) % MAX_QUEUE_SIZE \in Slot
    BY <1>3, <2>1, SlotOfCar
  <2>4. CASE i = n + 1
    <3>1. (queue'.front + i - 1) % MAX_QUEUE_SIZE = queue'.rear
      BY <1>3, <1>4, <2>2, <2>4, CarQueueAssumption DEF Slot
    <3>2. QED
      BY <1>3, <1>5, <2>1, <2>4, <3>1
  <2>5. CASE i # n + 1
    <3>1. i \in 1..n /\ n # 0
      BY <1>4, <2>5
    <3>2. (queue'.front + i - 1) % MAX_QUEUE_SIZE # queue'.rear
      BY <1>3, <1>4, <2>2, <3>1, CarQueueAssumption DEF Slot
    <3>3. new[i] = queue.car[(queue.front + i - 1) % MAX_QUEUE_SIZE]
      BY <1>3, <1>4, <2>1, <2>3, <3>1, <3>2
    <3>4. QED
      BY <1>1, <1>5, <3>1, <3>3
  <2>6. QED
    BY <2>4, <2>5
<1>7. new = Append(before, element)
  BY <1>2, <1>4, <1>5, <1>6, SeqEqual
<1>8. QED
  BY <1>1, <1>4, <1>7 DEF before, new

\* dequeue() from a queue with a car takes the first one of the line.
LEMMA DequeueLeaves ==
  ASSUME QueueInv, QueueInv', ~is_empty(queue), dequeue
  PROVE  /\ Line(queue) # <<>>
         /\ left' = Head(Line(queue))
         /\ Line(queue)' = Tail(Line(queue))
<1> DEFINE before == Line(queue)
           new == Line(queue')
           n == Length(queue)
<1>0. queue.front \in Slot /\ queue.rear \in Slot /\ queue.front # -1
  BY DEF QueueInv, is_empty
<1>1. /\ before \in Seq(CarNumber) /\ Len(before) = n /\ before # <<>>
      /\ \A i \in 1..n : before[i] = queue.car[(queue.front + i - 1) % MAX_QUEUE_SIZE]
  BY <1>0, LineNow
<1>2. /\ new \in Seq(CarNumber) /\ Len(new) = Length(queue')
      /\ \A i \in 1..Length(queue') :
           new[i] = queue'.car[(queue'.front + i - 1) % MAX_QUEUE_SIZE]
  <2>1. /\ queue'.car \in [Slot -> CarNumber]
        /\ queue'.front = -1 \/ (queue'.front \in Slot /\ queue'.rear \in Slot)
    BY DEF QueueInv
  <2>2. QED
    BY <2>1, LineOfQueue
<1>3. /\ n = IF queue.front <= queue.rear THEN queue.rear - queue.front + 1
             ELSE queue.rear - queue.front + 1 + MAX_QUEUE_SIZE
      /\ n \in 1..MAX_QUEUE_SIZE
  BY <1>0, LengthOfQueue
<1>4. queue'.car = queue.car /\ left' = queue.car[queue.front]
  BY DequeueStep
<1>5. /\ Length(queue') = n - 1
      /\ n > 1 => queue'.front = IF queue.front = MAX_QUEUE_SIZE - 1 THEN 0 ELSE queue.front + 1
      /\ n > 1 => queue'.front \in Slot
  <2>1. CASE queue.front = queue.rear
    <3>1. queue'.front = -1
      BY <2>1, DequeueStep
    <3>2. Length(queue') = 0 /\ n = 1
      BY <1>0, <1>3, <2>1, <3>1, CarQueueAssumption DEF Length, is_empty, Slot
    <3>3. QED
      BY <3>2
  <2>2. CASE queue.front # queue.rear
    <3>1. /\ queue'.front = IF queue.front = MAX_QUEUE_SIZE - 1 THEN 0 ELSE queue.front + 1
          /\ queue'.front \in Slot /\ queue'.rear = queue.rear
      BY <2>2, DequeueStep
    <3>2. Length(queue') = IF queue'.front <= queue'.rear THEN queue'.rear - queue'.front + 1
                           ELSE queue'.rear - queue'.front + 1 + MAX_QUEUE_SIZE
      BY <1>0, <3>1, LengthOfQueue
    <3>3. /\ MAX_QUEUE_SIZE \in Nat \ {0}
          /\ queue.front \in 0..MAX_QUEUE_SIZE - 1 /\ queue.rear \in 0..MAX_QUEUE_SIZE - 1
      BY <1>0, CarQueueAssumption DEF Slot
    <3>4. /\ n = Between(MAX_QUEUE_SIZE, queue.front, queue.rear)
          /\ Length(queue') = Between(MAX_QUEUE_SIZE, queue'.front, queue.rear)
      BY <1>3, <3>1, <3>2 DEF Between
    <3> HIDE DEF n
    <3>5. Between(MAX_QUEUE_SIZE, queue'.front, queue.rear) = n - 1
      BY <2>2, <3>1, <3>3, <3>4, FrontMovesOn
    <3>6. QED
      BY <3>1, <3>4, <3>5
  <2>3. QED
    BY <2>1, <2>2
<1> HIDE DEF before, new, n
<1>6. /\ Tail(before) \in Seq(CarNumber) /\ Len(Tail(before)) = n - 1
      /\ \A i \in 1..n - 1 : Tail(before)[i] = before[i + 1]
  BY <1>1, HeadTailProperties
<1>7. ASSUME NEW i \in 1..n - 1 PROVE new[i] = Tail(before)[i]
  <2>1. /\ i \in 1..MAX_QUEUE_SIZE /\ i + 1 \in 1..MAX_QUEUE_SIZE /\ i + 1 \in 1..n
        /\ queue'.front = IF queue.front = MAX_QUEUE_SIZE - 1 THEN 0 ELSE queue.front + 1
        /\ queue'.front \in Slot
    BY <1>3, <1>5, CarQueueAssumption
  <2>2. (queue'.front + i - 1) % MAX_QUEUE_SIZE =
          IF queue'.front + i - 1 < MAX_QUEUE_SIZE THEN queue'.front + i - 1
          ELSE queue'.front + i - 1 - MAX_QUEUE_SIZE
    BY <2>1, SlotOfCar
  <2>3. (queue.front + (i + 1) - 1) % MAX_QUEUE_SIZE =
          IF queue.front + (i + 1) - 1 < MAX_QUEUE_SIZE THEN queue.front + (i + 1) - 1
          ELSE queue.front + (i + 1) - 1 - MAX_QUEUE_SIZE
    BY <1>0, <2>1, SlotOfCar
  <2>4. (queue'.front + i - 1) % MAX_QUEUE_SIZE = (queue.front + (i + 1) - 1) % MAX_QUEUE_SIZE
    BY <1>0, <1>3, <2>1, <2>2, <2>3, CarQueueAssumption DEF Slot
  <2>5. new[i] = queue.car[(queue.front + (i + 1) - 1) % MAX_QUEUE_SIZE]
    BY <1>2, <1>4, <1>5, <2>4
  <2>6. QED
    BY <1>1, <1>6, <2>1, <2>5
<1>8. new = Tail(before)
  BY <1>2, <1>3, <1>5, <1>6, <1>7, SeqEqual
<1>9. left' = Head(before)
  <2>1. Head(before) = before[1]
    BY <1>1
  <2>2. before[1] = queue.car[(queue.front + 1 - 1) % MAX_QUEUE_SIZE]
    BY <1>1, <1>3
  <2>3. (queue.front + 1 - 1) % MAX_QUEUE_SIZE = queue.front
    BY <1>0, SlotOfCar, CarQueueAssumption DEF Slot
  <2>4. QED
    BY <1>4, <2>1, <2>2, <2>3
<1>10. QED
  BY <1>1, <1>8, <1>9 DEF before, new

(***************************************************************************)
(* For any size of the array: enqueue() and dequeue() of prodcons.c        *)
(* implement the bounded first-come-first-out line of CarLine.             *)
(***************************************************************************)
THEOREM QueueIsFifo == QueueSpec => ImplementsLine
<1>1. QueueInit => Fifo!Init
  <2>1. SUFFICES ASSUME QueueInit PROVE Line(queue) = <<>> /\ left = -1
    BY DEF Fifo!Init
  <2>2. queue.car \in [Slot -> CarNumber] /\ queue.front = -1 /\ left = -1
    BY <2>1, CarQueueAssumption DEF QueueInit, NewQueue
  <2>3. QED
    BY <2>2, LineOfQueue
<1>2. QueueInv /\ [QueueNext]_queueVars => [Fifo!Next]_<<Line(queue), left>>
  <2> SUFFICES ASSUME QueueInv, [QueueNext]_queueVars
               PROVE  Fifo!Next \/ UNCHANGED <<Line(queue), left>>
    OBVIOUS
  <2>0. QueueInv'
    BY QueueStep
  <2>1. ASSUME NEW element \in CarNumber, enqueue(element), ~is_full(queue) PROVE Fifo!Next
    <3>1. Len(Line(queue)) < MAX_QUEUE_SIZE /\ Line(queue)' = Append(Line(queue), element)
      BY <2>0, <2>1, EnqueueJoins
    <3>2. left' = left
      BY <2>1 DEF enqueue
    <3>3. QED
      BY <3>1, <3>2 DEF Fifo!Next, Fifo!Join
  <2>2. ASSUME dequeue, ~is_empty(queue) PROVE Fifo!Next
    <3>1. Line(queue) # <<>> /\ left' = Head(Line(queue)) /\ Line(queue)' = Tail(Line(queue))
      BY <2>0, <2>2, DequeueLeaves
    <3>2. QED
      BY <3>1 DEF Fifo!Next, Fifo!Leave
  <2>3. ASSUME dequeue, is_empty(queue) PROVE Fifo!Next
    <3>1. queue' = queue /\ left' = -1
      BY <2>3 DEF dequeue, Dequeued, Element
    <3>2. Line(queue) = <<>>
      BY <2>3, LineNow DEF is_empty
    <3>3. QED
      BY <3>1, <3>2 DEF Fifo!Next, Fifo!NobodyLeaves
  <2>4. ASSUME NEW element \in CarNumber, enqueue(element), is_full(queue)
        PROVE  UNCHANGED <<Line(queue), left>>
    BY <2>4 DEF enqueue, Enqueued
  <2>5. CASE UNCHANGED queueVars
    BY <2>5 DEF queueVars
  <2>6. QED
    BY <2>1, <2>2, <2>3, <2>4, <2>5 DEF QueueNext
<1>3. QED
  BY <1>1, <1>2, QueueInvHolds, PTL DEF QueueSpec, ImplementsLine, Fifo!Spec

-----------------------------------------------------------------------------
(***************************************************************************)
(* The inductive invariant of hello_fuse.c: what ReadsWhole says, and that *)
(* the position only moves forward from where the reading began.           *)
(***************************************************************************)
HelloInv ==
  /\ handle \in BOOLEAN
  /\ offset \in 0 .. Len(hello_str) + 1
  /\ from \in 0 .. Len(hello_str) + 1
  /\ from <= offset
  /\ offset = Len(hello_str) + 1 => from = offset
  /\ got = SubSeq(hello_str, from + 1, offset)
  /\ ended => offset >= Len(hello_str)

\* The length of the contents is a number.
LEMMA HelloLength == Len(hello_str) \in Nat
BY HelloAssumption

\* hello_read copies at least one byte unless the position is at the end, and
\* never goes past the end.
LEMMA CountBounds ==
  ASSUME HelloInv, NEW size \in Sizes
  PROVE  /\ Count(size) \in Nat
         /\ offset < Len(hello_str) => offset + Count(size) <= Len(hello_str)
         /\ offset < Len(hello_str) => Count(size) > 0
         /\ offset >= Len(hello_str) => Count(size) = 0
BY HelloAssumption, HelloLength DEF HelloInv, Count

\* A client of hello_fuse.c that opens, seeks and reads keeps the invariant.
LEMMA HelloStep == HelloInv /\ [HelloNext]_helloVars => HelloInv'
<1> SUFFICES ASSUME HelloInv, [HelloNext]_helloVars PROVE HelloInv'
  OBVIOUS
<1> USE HelloLength
<1>1. ASSUME NEW to \in 0 .. Len(hello_str) + 1, Seek(to) PROVE HelloInv'
  <2>1. SubSeq(hello_str, to + 1, to) = <<>>
    BY SubSeqEmpty
  <2>2. QED
    BY <1>1, <2>1 DEF Seek, HelloInv
<1>2. ASSUME NEW path \in Paths, NEW flags, hello_open(path, flags) PROVE HelloInv'
  <2>1. SubSeq(hello_str, 1, 0) = <<>>
    BY SubSeqEmpty
  <2>2. CASE ReturnHello("ENOENT") \/ ReturnHello("EACCES")
    BY <2>2 DEF ReturnHello, HelloInv
  <2>3. CASE handle' = TRUE /\ ended' = FALSE /\ offset' = 0 /\ from' = 0 /\ got' = <<>>
    BY <2>1, <2>3 DEF HelloInv
  <2>4. QED
    BY <1>2, <2>2, <2>3 DEF hello_open
<1>3. ASSUME NEW size \in Sizes, hello_read(size) PROVE HelloInv'
  <2> DEFINE n == Count(size)
             end == offset + n
  <2>0. /\ n \in Nat
        /\ offset < Len(hello_str) => end <= Len(hello_str)
        /\ offset < Len(hello_str) => n > 0
        /\ offset >= Len(hello_str) => n = 0
    BY CountBounds
  <2> HIDE DEF n
  <2>1. /\ offset' = end /\ from' = from /\ handle' = handle
        /\ ended' = (n = 0)
        /\ got' = got \o SubSeq(hello_str, offset + 1, end)
    BY <1>3 DEF hello_read, Copied, n
  <2>2. got' = SubSeq(hello_str, from + 1, end)
    <3>1. CASE offset <= Len(hello_str)
      <4>1. /\ from + 1 \in 1 .. Len(hello_str) + 1
            /\ offset \in (from + 1) - 1 .. Len(hello_str)
            /\ end \in offset .. Len(hello_str)
        BY <2>0, <3>1 DEF HelloInv
      <4>2. SubSeq(hello_str, from + 1, offset) \o SubSeq(hello_str, offset + 1, end)
              = SubSeq(hello_str, from + 1, end)
        BY <4>1, HelloAssumption, ConcatAdjacentSubSeq
      <4>3. QED
        BY <2>1, <4>2 DEF HelloInv
    <3>2. CASE offset = Len(hello_str) + 1
      <4>1. end = offset /\ from = offset
        BY <2>0, <3>2 DEF HelloInv
      <4>2. SubSeq(hello_str, offset + 1, offset) = <<>>
        BY <3>2, SubSeqEmpty
      <4>3. QED
        BY <2>1, <4>1, <4>2 DEF HelloInv
    <3>3. QED
      BY <3>1, <3>2 DEF HelloInv
  <2>3. ended' => n = 0
    BY <2>1
  <2>4. n = 0 => end >= Len(hello_str)
    BY <2>0 DEF HelloInv
  <2>5. /\ end \in 0 .. Len(hello_str) + 1 /\ from \in 0 .. Len(hello_str) + 1
        /\ from <= end /\ (end = Len(hello_str) + 1 => from = end)
    BY <2>0 DEF HelloInv
  <2> HIDE DEF end
  <2>6. QED
    BY <2>1, <2>2, <2>3, <2>4, <2>5, Zenon DEF HelloInv
<1>4. ASSUME NEW path \in Paths, hello_getattr(path) \/ hello_readdir(path) PROVE HelloInv'
  BY <1>4 DEF hello_getattr, hello_readdir, ReturnHello, HelloInv
<1>5. CASE UNCHANGED helloVars
  BY <1>5 DEF helloVars, HelloInv
<1>6. QED
  BY <1>1, <1>2, <1>3, <1>4, <1>5 DEF HelloNext

(***************************************************************************)
(* For any contents and any sizes of the pieces, a client of hello_fuse.c  *)
(* that reads until it gets nothing has read every byte once.              *)
(***************************************************************************)
THEOREM HelloReadsWhole == HelloSpec => []ReadsWhole
<1>1. HelloInit => HelloInv
  <2>1. SubSeq(hello_str, 1, 0) = <<>>
    BY SubSeqEmpty
  <2>2. 0 \in 0 .. Len(hello_str) + 1 /\ 0 <= 0 /\ 0 + 1 = 1
    BY HelloLength
  <2>3. QED
    BY <2>1, <2>2, Zenon DEF HelloInit, HelloInv
<1>2. HelloInv => ReadsWhole
  BY HelloLength DEF HelloInv, ReadsWhole, St_size
<1>3. QED
  BY <1>1, <1>2, HelloStep, PTL DEF HelloSpec

-----------------------------------------------------------------------------
(***************************************************************************)
(* The inductive invariant of PR_SET_MM.  A thread between the two parts   *)
(* of prctl_set_mm holds arg_lock, and its copy of the map is the map that *)
(* is there but for its own field; two threads are never there at once.    *)
(***************************************************************************)
MmInv ==
  /\ mm \in [Fields -> Nat]
  /\ validate_prctl_map_addr(mm)
  /\ auxv \in [1..AuxSize -> Nat]
  /\ auxv[AuxSize] = 0 /\ auxv[AuxSize - 1] = 0
  /\ mmCall = [t \in MmThreads |-> mmCall[t]]
  /\ \A t \in MmThreads : mmCall[t].pc = "store" =>
       /\ argLock = t
       /\ mmCall[t].field \in Fields
       /\ mmCall[t].map \in [Fields -> Nat]
       /\ \A f \in Fields \ {mmCall[t].field} : mmCall[t].map[f] = mm[f]

\* brk, which checks only its own bounds and the data limit, keeps the map in
\* order: the heap began behind the data before.
LEMMA BrkKeepsOrder ==
  ASSUME MmInv, NEW addr \in Addrs, SysBrk(addr)
  PROVE  mm' \in [Fields -> Nat] /\ validate_prctl_map_addr(mm')
<1> DEFINE new == [mm EXCEPT !["brk"] = addr]
<1> USE PrctlMmAssumption
<1>1. /\ mm' = new
      /\ addr \in Nat /\ addr >= mm["start_brk"] /\ addr < TaskSize
      /\ ~check_data_rlimit(new)
  BY DEF SysBrk
<1>2. new \in [Fields -> Nat]
  BY <1>1 DEF MmInv
<1>3. new["brk"] = addr /\ \A f \in Fields \ {"brk"} : new[f] = mm[f]
  BY DEF MmInv, Fields
<1> HIDE DEF new
<1>4. validate_prctl_map_addr(new)
  <2>1. mm \in [Fields -> Nat] /\ validate_prctl_map_addr(mm)
    BY DEF MmInv
  <2>2. QED
    BY <1>1, <1>2, <1>3, <2>1 DEF validate_prctl_map_addr, Fields
<1>5. QED
  BY <1>1, <1>2, <1>4

\* Every step of the threads, of mmap and of brk keeps the invariant.
LEMMA MmStep == MmInv /\ [MmNext]_mmVars => MmInv'
<1> SUFFICES ASSUME MmInv, [MmNext]_mmVars PROVE MmInv'
  OBVIOUS
<1> USE PrctlMmAssumption
<1>1. ASSUME NEW t \in MmThreads, NEW f \in Tried, NEW addr \in Addrs, SetField(t, f, addr)
      PROVE  MmInv'
  <2> DEFINE new == [mm EXCEPT ![f] = addr]
             next == [pc |-> "store", field |-> f, map |-> new]
  <2>1. new \in [Fields -> Nat] /\ \A g \in Fields \ {f} : new[g] = mm[g]
    BY DEF MmInv
  <2>2. next.pc = "store" /\ next.field = f /\ next.map = new
    OBVIOUS
  <2>3. /\ mmCall' = [mmCall EXCEPT ![t] = next]
        /\ argLock = Unheld /\ argLock' = t
        /\ UNCHANGED <<mm, auxv>>
    BY <1>1 DEF SetField, LockArgs
  <2> HIDE DEF new, next
  <2>4. /\ mmCall'[t] = next
        /\ \A u \in MmThreads \ {t} : mmCall'[u] = mmCall[u]
        /\ mmCall' = [u \in MmThreads |-> mmCall'[u]]
    BY <2>3 DEF MmInv
  <2>5. \A u \in MmThreads : mmCall[u].pc # "store"
    BY <2>3 DEF MmInv
  <2>6. QED
    BY <2>1, <2>2, <2>3, <2>4, <2>5 DEF MmInv
<1>2. ASSUME NEW t \in MmThreads, NEW hasVma \in BOOLEAN, prctl_set_mm(t, hasVma)
      PROVE  MmInv'
  <2>0. mm' = mm \/ (mm' = mmCall[t].map /\ validate_prctl_map_addr(mmCall[t].map))
    <3> DEFINE ok == /\ validate_prctl_map_addr(mmCall[t].map)
                     /\ mmCall[t].field \in NeedsVma => hasVma
    <3>1. mm' = IF ok THEN mmCall[t].map ELSE mm
      BY <1>2 DEF prctl_set_mm
    <3>2. ok => validate_prctl_map_addr(mmCall[t].map)
      OBVIOUS
    <3> HIDE DEF ok
    <3>3. CASE ok
      BY <3>1, <3>2, <3>3
    <3>4. CASE ~ok
      BY <3>1, <3>4
    <3>5. QED
      BY <3>3, <3>4
  <2>1. /\ mmCall[t].pc = "store"
        /\ mmCall' = [mmCall EXCEPT ![t] = MmIdle] /\ UNCHANGED auxv
    BY <1>2 DEF prctl_set_mm
  <2>2. mm' \in [Fields -> Nat] /\ validate_prctl_map_addr(mm')
    BY <2>0, <2>1 DEF MmInv
  <2>3. MmIdle.pc # "store"
    BY DEF MmIdle
  <2>4. /\ mmCall'[t] = MmIdle
        /\ \A u \in MmThreads \ {t} : mmCall'[u] = mmCall[u]
        /\ mmCall' = [u \in MmThreads |-> mmCall'[u]]
    BY <2>1 DEF MmInv
  <2>5. \A u \in MmThreads \ {t} : mmCall[u].pc # "store"
    BY <2>1 DEF MmInv
  <2>6. QED
    BY <2>1, <2>2, <2>3, <2>4, <2>5 DEF MmInv
<1>3. ASSUME NEW t \in MmThreads, NEW m \in UserMaps, NEW n \in 0..AuxSize, NEW word \in 0..1,
             prctl_set_mm_map(t, m, n, word)
      PROVE  MmInv'
  <2>1. \A u \in MmThreads : mmCall[u].pc # "store"
    BY <1>3 DEF prctl_set_mm_map, MmInv
  <2>2. /\ auxv' \in [1..AuxSize -> Nat]
        /\ auxv'[AuxSize] = 0 /\ auxv'[AuxSize - 1] = 0
    BY <1>3 DEF prctl_set_mm_map, UserAux, MmInv
  <2>3. mm' = m /\ validate_prctl_map_addr(m) /\ UNCHANGED mmCall
    BY <1>3 DEF prctl_set_mm_map
  <2>4. QED
    BY <2>1, <2>2, <2>3 DEF MmInv
<1>4. ASSUME NEW t \in MmThreads, NEW len \in 0..AuxSize, NEW word \in 0..1,
             prctl_set_auxv(t, word, len)
      PROVE  MmInv'
  <2>1. /\ auxv' \in [1..AuxSize -> Nat]
        /\ auxv'[AuxSize] = 0 /\ auxv'[AuxSize - 1] = 0
    BY <1>4 DEF prctl_set_auxv, UserAux, MmInv
  <2>2. QED
    BY <1>4, <2>1 DEF prctl_set_auxv, MmInv
<1>5. ASSUME NEW t \in MmThreads,
             \/ ExeSwap(t)
             \/ \E file \in Files : ExeUnmapped(t, file)
      PROVE  MmInv'
  <2>1. PICK next : mmCall' = [mmCall EXCEPT ![t] = next] /\ next.pc # "store"
    <3>1. CASE ExeSwap(t)
      <4> WITNESS MmIdle
      <4> QED
        BY <3>1 DEF ExeSwap, MmIdle
    <3>2. ASSUME NEW file \in Files, ExeUnmapped(t, file)
          PROVE  \E next : mmCall' = [mmCall EXCEPT ![t] = next] /\ next.pc # "store"
      <4> WITNESS [pc |-> "swap", file |-> file]
      <4> QED
        BY <3>2 DEF ExeUnmapped
    <3>3. QED
      BY <1>5, <3>1, <3>2
  <2>2. UNCHANGED <<mm, auxv, argLock>>
    BY <1>5 DEF ExeSwap, ExeUnmapped
  <2>3. /\ mmCall'[t] = next
        /\ \A u \in MmThreads \ {t} : mmCall'[u] = mmCall[u]
        /\ mmCall' = [u \in MmThreads |-> mmCall'[u]]
    BY <2>1 DEF MmInv
  <2>4. QED
    BY <2>1, <2>2, <2>3 DEF MmInv
<1>6. ASSUME NEW addr \in Addrs, SysBrk(addr) PROVE MmInv'
  <2>1. mm' \in [Fields -> Nat] /\ validate_prctl_map_addr(mm')
    BY <1>6, BrkKeepsOrder
  <2>2. \A u \in MmThreads : mmCall[u].pc # "store"
    BY <1>6 DEF SysBrk, MmInv
  <2>3. UNCHANGED <<auxv, mmCall>>
    BY <1>6 DEF SysBrk
  <2>4. QED
    BY <2>1, <2>2, <2>3 DEF MmInv
<1>7. CASE UNCHANGED <<mm, auxv, argLock, mmCall>>
  BY <1>7 DEF MmInv
<1>8. QED
  BY <1>1, <1>2, <1>3, <1>4, <1>5, <1>6, <1>7 DEF MmNext, MapFile, mmVars

\* Every behaviour of the threads that change the map keeps the invariant.
LEMMA MmInvHolds == MmSpec => []MmInv
<1>1. MmInit => MmInv
  BY PrctlMmAssumption DEF MmInit, MmInv, MmIdle
<1>2. QED
  BY <1>1, MmStep, PTL DEF MmSpec

(***************************************************************************)
(* For any threads, addresses and limits: the map of a process stays in    *)
(* order and its auxiliary vector terminated, whichever of the calls of    *)
(* prctl_set_mm and brk follow or overlap each other.                      *)
(***************************************************************************)
THEOREM MapAlwaysValid == MmSpec => []MapStaysValid
<1>1. MmInv => MapStaysValid
  BY DEF MmInv, MapStaysValid
<1>2. QED
  BY <1>1, MmInvHolds, PTL

(***************************************************************************)
(* For any threads: prctl_set_mm of one field never writes back an old     *)
(* value of another.                                                       *)
(***************************************************************************)
THEOREM NoFieldIsLost == MmSpec => OneFieldAtATime
<1> DEFINE Kept(t) == mmCall[t].pc = "store" /\ mmCall'[t] = MmIdle =>
                        \A f \in Fields \ {mmCall[t].field} : mm'[f] = mm[f]
<1>1. ASSUME MmInv, [MmNext]_mmVars, NEW t \in MmThreads PROVE Kept(t)
  <2> SUFFICES ASSUME mmCall[t].pc = "store", mmCall'[t] = MmIdle
               PROVE  \A f \in Fields \ {mmCall[t].field} : mm'[f] = mm[f]
    OBVIOUS
  <2>0. argLock = t /\ argLock # Unheld
    BY <1>1, PrctlMmAssumption DEF MmInv
  <2>1. ASSUME NEW u \in MmThreads, NEW hasVma \in BOOLEAN, prctl_set_mm(u, hasVma)
        PROVE  \A f \in Fields \ {mmCall[t].field} : mm'[f] = mm[f]
    <3>1. u = t
      BY <1>1, <2>0, <2>1 DEF prctl_set_mm, MmInv
    <3>2. mm' = mm \/ mm' = mmCall[t].map
      BY <2>1, <3>1, Zenon DEF prctl_set_mm
    <3>3. QED
      BY <1>1, <3>2 DEF MmInv
  <2>2. CASE UNCHANGED mm
    BY <2>2
  <2>3. QED
    BY <1>1, <2>0, <2>1, <2>2
       DEF MmNext, mmVars, SetField, LockArgs, prctl_set_mm_map, prctl_set_auxv,
           ExeUnmapped, ExeSwap, MapFile, SysBrk
<1>2. MmInv /\ [MmNext]_mmVars => [\A t \in MmThreads : Kept(t)]_mmVars
  BY <1>1
<1>3. QED
  BY <1>2, MmInvHolds, PTL DEF MmSpec, OneFieldAtATime

-----------------------------------------------------------------------------
(***************************************************************************)
(* For any arguments: a call of prctl that fails has changed no attribute, *)
(* except for PR_MCE_KILL_SET with a policy that is none.                  *)
(***************************************************************************)
THEOREM FailureLeavesAttributes == PrctlSpec => FailedCallsAreClean
<1> DEFINE Clean == prctlRet'.err # "OK" =>
              \/ attr' = attr
              \/ prctlRet'.err = "EINVAL" /\ attr' = [attr EXCEPT !.mce = @ \cup {"PROCESS"}]
<1>1. ASSUME NEW ok, NEW err, NEW new, Change(ok, err, new) PROVE Clean
  <2>1. CASE ok
    BY <1>1, <2>1 DEF Change
  <2>2. CASE ~ok
    BY <1>1, <2>2 DEF Change
  <2>3. QED
    BY <2>1, <2>2
<1>2. ASSUME NEW ok, NEW err, NEW value, Answer(ok, err, value) PROVE Clean
  BY <1>2 DEF Answer
<1>3. ASSUME NEW clear \in BOOLEAN, NEW extra \in BOOLEAN, NEW policy \in Policies,
             SetMceKill(clear, policy, extra)
      PROVE  Clean
  <2>1. CASE extra \/ (clear /\ policy # "ZERO")
    BY <1>2, <1>3, <2>1 DEF SetMceKill
  <2>2. CASE ~(extra \/ (clear /\ policy # "ZERO"))
    <3> DEFINE known == clear \/ policy \in {"EARLY", "LATE", "DEFAULT"}
    <3>1. /\ attr' = [attr EXCEPT !.mce = IF clear THEN @ \ {"PROCESS"} ELSE McePolicy(policy)]
          /\ prctlRet' = [err |-> IF known THEN "OK" ELSE "EINVAL", value |-> 0]
      BY <1>3, <2>2 DEF SetMceKill
    <3>2. CASE known
      BY <3>1, <3>2
    <3>3. CASE ~known
      <4>1. McePolicy(policy) = attr.mce \cup {"PROCESS"}
        BY <3>3 DEF McePolicy
      <4>2. attr' = [attr EXCEPT !.mce = @ \cup {"PROCESS"}] /\ prctlRet'.err = "EINVAL"
        BY <3>1, <3>3, <4>1
      <4>3. QED
        BY <4>2
    <3>4. QED
      BY <3>2, <3>3
  <2>3. QED
    BY <2>1, <2>2
<1>4. [PrctlNext]_prctlVars => [Clean]_prctlVars
  <2> HIDE DEF Clean
  <2>1. ASSUME PrctlNext PROVE Clean
    BY <1>1, <1>2, <1>3, <2>1
       DEF PrctlNext, SetPdeathsig, SetDumpable, SetNoNewPrivs, SetIoFlusher, SetThpDisable,
           SetTimerslack, SetName16, SetTiming, GetPdeathsig, GetDumpable, GetTiming, GetName16,
           GetTimerslack, ArchOption, SpeculationCtrl, LsmAnswers, GetTidAddress, GetMceKill,
           GetNoNewPrivs, GetThpDisable, GetIoFlusher
  <2>2. QED
    BY <2>1
<1>5. QED
  BY <1>4, PTL DEF PrctlSpec, FailedCallsAreClean

-----------------------------------------------------------------------------
\* A non-empty set of numbers has a least one.
LEMMA Least ==
  ASSUME NEW T \in SUBSET Nat, T # {}
  PROVE  \E x \in T : \A y \in T : x <= y
<1>1. IsWellFoundedOn(OpToRel(<, Nat), Nat)
  BY NatLessThanWellFounded
<1>2. PICK x \in T : \A y \in T : ~(<<y, x>> \in OpToRel(<, Nat))
  BY <1>1, WFMin
<1>3. ASSUME NEW y \in T PROVE ~(y < x)
  <2>1. <<y, x>> \in Nat \X Nat /\ <<y, x>>[1] = y /\ <<y, x>>[2] = x
    OBVIOUS
  <2>2. y < x => <<y, x>> \in OpToRel(<, Nat)
    BY <2>1, Zenon DEF OpToRel
  <2>3. QED
    BY <1>2, <2>2
<1>4. \A y \in T : x <= y
  BY <1>3
<1>5. QED
  BY <1>4

\* Min is it.
LEMMA LeastNumber ==
  ASSUME NEW T \in SUBSET Nat, T # {}
  PROVE  Min(T) \in T /\ \A y \in T : Min(T) <= y
<1>1. PICK x \in T : \A y \in T : x <= y
  BY Least
<1>2. QED
  BY <1>1 DEF Min

-----------------------------------------------------------------------------
\* The entries of the page table.
VmEntry == [dirty : BOOLEAN, valid : BOOLEAN, ref : BOOLEAN, frame : {-1} \cup 0..numFrames-1]

(***************************************************************************)
(* The inductive invariant of vmsim.java: no page is in two frames, the    *)
(* valid pages are those in ram, and the table and the frames agree.       *)
(***************************************************************************)
RamInv ==
  /\ ram \in Seq(VPages) /\ Len(ram) = pageSoFar
  /\ \A i, j \in 1..Len(ram) : ram[i] = ram[j] => i = j
  /\ \A p \in VPages : pageTable[p].valid <=> \E i \in 1..Len(ram) : ram[i] = p

VmInv ==
  /\ trace \in [1..TraceLength -> VPages] /\ commandNum \in 1..TraceLength + 1
  /\ pageTable \in [VPages -> VmEntry]
  /\ pageSoFar \in 0..numFrames /\ oldestIndex \in 0..numFrames - 1
  /\ pageMap \in [VPages -> SUBSET (1..TraceLength)]
  /\ RamInv
  /\ IsFiniteSet(Resident) /\ TableMatchesRam

\* An operation changes the dirty bit at most.
LEMMA Processed ==
  ASSUME NEW e \in VmEntry, NEW operation
  PROVE  /\ processOperation(e, operation) \in VmEntry
         /\ processOperation(e, operation).valid = e.valid
         /\ processOperation(e, operation).frame = e.frame
BY DEF processOperation, VmEntry

\* The access that is next.
LEMMA NextAccess ==
  ASSUME VmInv, More
  PROVE  Page \in VPages /\ commandNum + 1 \in 1..TraceLength + 1
<1>1. DOMAIN trace = 1..TraceLength /\ TraceLength \in Nat /\ commandNum \in 1..TraceLength + 1
  BY VmsimAssumption DEF VmInv
<1>2. Len(trace) = TraceLength
  BY <1>1
<1>3. QED
  BY <1>1, <1>2 DEF VmInv, More, Page

\* A fault that fills a frame for the first time.
LEMMA FillKeeps ==
  ASSUME VmInv, NEW operation, NoEviction(operation)
  PROVE  VmInv'
<1> DEFINE p == Page
           n == pageSoFar
           x == [pageTable[p] EXCEPT !.valid = TRUE, !.frame = n]
           y == processOperation(x, operation)
<1>0. /\ numFrames \in Nat /\ n \in Nat /\ n < numFrames /\ n + 1 \in 0..numFrames
      /\ ram \in Seq(VPages) /\ Len(ram) = n /\ pageTable \in [VPages -> VmEntry]
  BY VmsimAssumption DEF VmInv, RamInv, NoEviction, RamFull
<1>1. p \in VPages /\ commandNum + 1 \in 1..TraceLength + 1
  BY NextAccess DEF NoEviction, Fault
<1>2. /\ pageTable' = [pageTable EXCEPT ![p] = y] /\ ram' = Append(ram, p)
      /\ pageSoFar' = n + 1 /\ commandNum' = commandNum + 1
      /\ UNCHANGED <<algorithm, trace, oldestIndex, pageMap>> /\ ~pageTable[p].valid
  BY DEF NoEviction, Fault
<1>3. x \in VmEntry /\ x.valid = TRUE /\ x.frame = n
  <2>1. pageTable[p] \in VmEntry /\ n \in {-1} \cup 0..numFrames-1
    BY <1>0, <1>1
  <2> HIDE DEF p, n
  <2>2. QED
    BY <2>1 DEF VmEntry
<1> HIDE DEF p, n, x
<1>4. y \in VmEntry /\ y.valid = TRUE /\ y.frame = n
  BY <1>3, Processed
<1> HIDE DEF y
<1>5. /\ pageTable' \in [VPages -> VmEntry] /\ pageTable'[p] = y
      /\ \A q \in VPages \ {p} : pageTable'[q] = pageTable[q]
  BY <1>0, <1>1, <1>2, <1>4
<1>6. /\ ram' \in Seq(VPages) /\ Len(ram') = n + 1
      /\ \A i \in 1..n : ram'[i] = ram[i]
      /\ ram'[n + 1] = p
  BY <1>0, <1>1, <1>2, AppendProperties
<1>7. \A i \in 1..n + 1 : i \in 1..n \/ i = n + 1
  BY <1>0
<1>8. \A i \in 1..n : ram[i] # p
  BY <1>0, <1>1, <1>2 DEF VmInv, RamInv
<1>9. RamInv'
  <2>1. \A i, j \in 1..n + 1 : ram'[i] = ram'[j] => i = j
    BY <1>0, <1>6, <1>7, <1>8 DEF VmInv, RamInv
  <2>2. ASSUME NEW q \in VPages PROVE pageTable'[q].valid <=> (\E i \in 1..n + 1 : ram'[i] = q)
    <3>1. CASE q = p
      BY <1>0, <1>4, <1>5, <1>6, <3>1
    <3>2. CASE q # p
      <4>1. (\E i \in 1..n + 1 : ram'[i] = q) <=> \E i \in 1..n : ram[i] = q
        BY <1>0, <1>6, <1>7, <3>2
      <4>2. pageTable'[q].valid = pageTable[q].valid
        BY <1>5, <3>2
      <4>3. pageTable[q].valid <=> \E i \in 1..n : ram[i] = q
        BY <1>0 DEF VmInv, RamInv
      <4>4. QED
        BY <4>1, <4>2, <4>3
    <3>3. QED
      BY <3>1, <3>2
  <2>3. QED
    BY <1>2, <1>6, <2>1, <2>2 DEF RamInv
<1>10. Resident' = Resident \cup {p} /\ p \notin Resident
  BY <1>1, <1>2, <1>4, <1>5 DEF Resident
<1>11. IsFiniteSet(Resident') /\ Cardinality(Resident') = n + 1
  <2>1. IsFiniteSet(Resident) /\ Cardinality(Resident) = n
    BY <1>0 DEF VmInv, TableMatchesRam
  <2>2. IsFiniteSet(Resident \cup {p}) /\ Cardinality(Resident \cup {p}) = Cardinality(Resident) + 1
    BY <1>10, <2>1, FS_AddElement
  <2>3. QED
    BY <1>0, <1>10, <2>1, <2>2
<1>12. TableMatchesRam'
  <2>1. {ram'[i] : i \in DOMAIN ram'} = Resident'
    <3>1. {ram[i] : i \in 1..n} = Resident
      BY <1>0 DEF VmInv, TableMatchesRam
    <3>2. DOMAIN ram' = 1..n + 1
      BY <1>0, <1>6
    <3>3. QED
      BY <1>0, <1>6, <1>7, <1>10, <3>1, <3>2
  <2>2. {pageTable'[q].frame : q \in Resident'} = 0..pageSoFar' - 1
    <3>1. {pageTable[q].frame : q \in Resident} = 0..n - 1
      BY DEF VmInv, TableMatchesRam, n
    <3>2. {pageTable'[q].frame : q \in Resident'} = {pageTable[q].frame : q \in Resident} \cup {n}
      BY <1>4, <1>5, <1>10 DEF Resident
    <3>3. (0..n - 1) \cup {n} = 0..(n + 1) - 1
      BY <1>0
    <3>4. QED
      BY <1>2, <3>1, <3>2, <3>3
  <2>3. \A q \in VPages \ Resident' : pageTable'[q] = PageTableEntry
    BY <1>5, <1>10 DEF VmInv, TableMatchesRam
  <2>4. ASSUME algorithm' # "fifo", NEW q \in Resident' PROVE ram'[pageTable'[q].frame + 1] = q
    <3>1. CASE q = p
      BY <1>4, <1>5, <1>6, <3>1
    <3>2. CASE q # p
      <4>1. q \in Resident /\ q \in VPages
        BY <1>10, <2>4, <3>2 DEF Resident
      <4>2. pageTable[q].frame \in 0..n - 1 /\ ram[pageTable[q].frame + 1] = q
        BY <1>2, <2>4, <4>1 DEF VmInv, TableMatchesRam, n
      <4>3. QED
        BY <1>0, <1>5, <1>6, <3>2, <4>1, <4>2
    <3>3. QED
      BY <3>1, <3>2
  <2>5. QED
    BY <1>6, <1>11, <2>1, <2>2, <2>3, <2>4 DEF TableMatchesRam
<1>13. QED
  BY <1>0, <1>1, <1>2, <1>5, <1>9, <1>11, <1>12 DEF VmInv

\* A hit, and a turn of the hand of the clock, change bits of one entry only.
LEMMA BitsKeep ==
  ASSUME VmInv, NEW p \in VPages, NEW y \in VmEntry, pageTable[p].valid,
         pageTable' = [pageTable EXCEPT ![p] = y],
         y.valid = pageTable[p].valid, y.frame = pageTable[p].frame,
         commandNum' \in 1..TraceLength + 1, oldestIndex' \in 0..numFrames - 1,
         UNCHANGED <<algorithm, trace, ram, pageSoFar, pageMap>>
  PROVE  VmInv'
<1>1. /\ pageTable' \in [VPages -> VmEntry]
      /\ \A q \in VPages : /\ pageTable'[q].valid = pageTable[q].valid
                           /\ pageTable'[q].frame = pageTable[q].frame
                           /\ q # p => pageTable'[q] = pageTable[q]
  BY DEF VmInv
<1>2. Resident' = Resident
  BY <1>1 DEF Resident
<1>3. RamInv'
  BY <1>1 DEF VmInv, RamInv
<1>4. p \in Resident
  BY DEF Resident
<1>5. TableMatchesRam'
  <2>1. {pageTable'[q].frame : q \in Resident'} = 0..pageSoFar' - 1
    <3>1. {pageTable'[q].frame : q \in Resident'} = {pageTable[q].frame : q \in Resident}
      BY <1>1, <1>2 DEF Resident
    <3>2. QED
      BY <3>1 DEF VmInv, TableMatchesRam
  <2>2. \A q \in VPages \ Resident' : pageTable'[q] = PageTableEntry
    BY <1>1, <1>2, <1>4 DEF VmInv, TableMatchesRam
  <2>3. algorithm' # "fifo" => \A q \in Resident' : ram'[pageTable'[q].frame + 1] = q
    <3>1. Resident' \subseteq VPages
      BY <1>2 DEF Resident
    <3>2. QED
      BY <1>1, <1>2, <3>1 DEF VmInv, TableMatchesRam
  <2>4. QED
    BY <1>2, <2>1, <2>2, <2>3 DEF VmInv, TableMatchesRam
<1>6. QED
  BY <1>1, <1>2, <1>3, <1>5 DEF VmInv

\* The page of frame i goes; the pages that stay and the new one fill ram.
LEMMA EvictKeeps ==
  ASSUME VmInv, Fault, RamFull, NEW i \in 1..Len(ram), NEW newRam \in Seq(VPages), NEW operation,
         Evict(ram[i], newRam, operation), Len(newRam) = Len(ram),
         \A j, k \in 1..Len(ram) : newRam[j] = newRam[k] => j = k,
         \A q \in VPages : (\E j \in 1..Len(ram) : newRam[j] = q)
                             <=> (q = Page \/ (q # ram[i] /\ \E j \in 1..Len(ram) : ram[j] = q)),
         algorithm # "fifo" => newRam = [ram EXCEPT ![i] = Page],
         oldestIndex' \in 0..numFrames - 1, pageMap' \in [VPages -> SUBSET (1..TraceLength)]
  PROVE  VmInv'
<1> DEFINE p == Page
           v == ram[i]
           x == [pageTable[p] EXCEPT !.valid = TRUE, !.frame = pageTable[v].frame]
           y == processOperation(x, operation)
<1>0. /\ ram \in Seq(VPages) /\ Len(ram) \in Nat /\ pageTable \in [VPages -> VmEntry]
  BY DEF VmInv, RamInv
<1>1. p \in VPages /\ commandNum + 1 \in 1..TraceLength + 1 /\ ~pageTable[p].valid
  BY NextAccess DEF Fault
<1>2. v \in VPages /\ pageTable[v].valid /\ v # p /\ \A j \in 1..Len(ram) : ram[j] # p
  <2>1. v \in VPages
    BY <1>0, ElementOfSeq
  <2>2. QED
    BY <1>1, <2>1 DEF VmInv, RamInv
<1>3. /\ pageTable' = [pageTable EXCEPT ![p] = y, ![v] = PageTableEntry] /\ ram' = newRam
      /\ commandNum' = commandNum + 1 /\ UNCHANGED <<algorithm, trace, pageSoFar>>
  BY DEF Evict, Evicted
<1>4. x \in VmEntry /\ x.valid = TRUE /\ x.frame = pageTable[v].frame
  <2>1. pageTable[p] \in VmEntry /\ pageTable[v] \in VmEntry
    BY <1>0, <1>1, <1>2
  <2>2. pageTable[v].frame \in {-1} \cup 0..numFrames-1
    BY <2>1 DEF VmEntry
  <2> HIDE DEF p, v
  <2>3. QED
    BY <2>1, <2>2 DEF VmEntry
<1>5. PageTableEntry \in VmEntry /\ PageTableEntry.valid = FALSE
  BY DEF PageTableEntry, VmEntry
<1> HIDE DEF p, v, x
<1>6. y \in VmEntry /\ y.valid = TRUE /\ y.frame = pageTable[v].frame
  BY <1>4, Processed
<1> HIDE DEF y
<1>7. /\ pageTable' \in [VPages -> VmEntry] /\ pageTable'[p] = y /\ pageTable'[v] = PageTableEntry
      /\ \A q \in VPages \ {p, v} : pageTable'[q] = pageTable[q]
  BY <1>0, <1>1, <1>2, <1>3, <1>5, <1>6
<1>8. Resident' = (Resident \ {v}) \cup {p} /\ p \notin Resident /\ v \in Resident
  BY <1>1, <1>2, <1>5, <1>6, <1>7 DEF Resident
<1>9. RamInv'
  <2>1. ASSUME NEW q \in VPages PROVE pageTable'[q].valid <=> \E j \in 1..Len(ram) : newRam[j] = q
    <3>1. (\E j \in 1..Len(ram) : newRam[j] = q)
            <=> (q = p \/ (q # v /\ \E j \in 1..Len(ram) : ram[j] = q))
      BY DEF p, v
    <3>2. CASE q \in {p, v}
      BY <1>2, <1>5, <1>6, <1>7, <3>1, <3>2
    <3>3. CASE q \notin {p, v}
      <4>1. pageTable'[q].valid = pageTable[q].valid
        BY <1>7, <3>3
      <4>2. pageTable[q].valid <=> \E j \in 1..Len(ram) : ram[j] = q
        BY DEF VmInv, RamInv
      <4>3. QED
        BY <3>1, <3>3, <4>1, <4>2
    <3>4. QED
      BY <3>2, <3>3
  <2>2. \A j, k \in 1..Len(ram') : ram'[j] = ram'[k] => j = k
    BY <1>3
  <2>3. Len(ram') = pageSoFar' /\ ram' \in Seq(VPages)
    BY <1>3 DEF VmInv, RamInv
  <2>4. QED
    BY <1>3, <2>1, <2>2, <2>3 DEF RamInv
<1>10. IsFiniteSet(Resident') /\ Cardinality(Resident') = Len(ram)
  <2>1. /\ IsFiniteSet(Resident \ {v}) /\ Cardinality(Resident \ {v}) = Cardinality(Resident) - 1
        /\ Cardinality(Resident) = Len(ram)
    BY <1>8, FS_RemoveElement DEF VmInv, TableMatchesRam
  <2>2. p \notin Resident \ {v}
    BY <1>8
  <2> DEFINE R == Resident \ {v}
  <2>3. IsFiniteSet(R \cup {p}) /\ Cardinality(R \cup {p}) = Cardinality(R) + 1
    <3> HIDE DEF R
    <3>1. p \notin R /\ IsFiniteSet(R)
      BY <2>1, <2>2 DEF R
    <3>2. QED
      BY <3>1, FS_AddElement
  <2>4. Cardinality(R) = Len(ram) - 1
    BY <2>1
  <2>5. Resident' = R \cup {p}
    BY <1>8
  <2> HIDE DEF R
  <2>6. QED
    BY <1>0, <2>3, <2>4, <2>5
<1>11. {ram'[j] : j \in DOMAIN ram'} = Resident'
  <2>1. DOMAIN ram' = 1..Len(ram)
    BY <1>0, <1>3
  <2>2. \A q : (\E j \in 1..Len(ram) : newRam[j] = q) <=> q \in Resident'
    <3>1. \A j \in 1..Len(ram) : newRam[j] \in VPages
      BY ElementOfSeq
    <3>2. \A q \in Resident' : q \in VPages
      BY DEF Resident
    <3>3. \A q \in VPages : (\E j \in 1..Len(ram) : newRam[j] = q) <=> pageTable'[q].valid
      BY <1>3, <1>9 DEF RamInv
    <3>4. \A q \in VPages : q \in Resident' <=> pageTable'[q].valid
      BY DEF Resident
    <3>5. QED
      BY <3>1, <3>2, <3>3, <3>4
  <2>3. QED
    BY <1>3, <2>1, <2>2
<1>12. {pageTable'[q].frame : q \in Resident'} = 0..pageSoFar' - 1
  <2>1. {pageTable[q].frame : q \in Resident} = 0..pageSoFar - 1
    BY DEF VmInv, TableMatchesRam
  <2>2. \A q \in Resident \ {v} : pageTable'[q].frame = pageTable[q].frame
    BY <1>7, <1>8 DEF Resident
  <2>3. pageTable'[p].frame = pageTable[v].frame
    BY <1>6, <1>7
  <2>4. {pageTable'[q].frame : q \in Resident'} = {pageTable[q].frame : q \in Resident}
    <3>1. \A q \in Resident' : \E r \in Resident : pageTable'[q].frame = pageTable[r].frame
      BY <1>8, <2>2, <2>3
    <3>2. \A r \in Resident : \E q \in Resident' : pageTable'[q].frame = pageTable[r].frame
      BY <1>8, <2>2, <2>3
    <3>3. QED
      BY <3>1, <3>2
  <2>5. QED
    BY <1>3, <2>1, <2>4
<1>13. \A q \in VPages \ Resident' : pageTable'[q] = PageTableEntry
  BY <1>7, <1>8 DEF VmInv, TableMatchesRam
<1>14. ASSUME algorithm' # "fifo", NEW q \in Resident' PROVE ram'[pageTable'[q].frame + 1] = q
  <2>1. newRam = [ram EXCEPT ![i] = p]
    BY <1>3, <1>14 DEF p
  <2>2. \A j \in 1..Len(ram) : newRam[j] = IF j = i THEN p ELSE ram[j]
    BY <1>0, <2>1
  <2>3. {pageTable[r].frame : r \in Resident} = 0..Len(ram) - 1
    BY DEF VmInv, RamInv, TableMatchesRam
  <2>4. \A r \in Resident : pageTable[r].frame + 1 \in 1..Len(ram) /\ ram[pageTable[r].frame + 1] = r
    <3>1. \A r \in Resident : pageTable[r].frame \in 0..Len(ram) - 1
      BY <2>3
    <3>2. \A r \in Resident : pageTable[r].frame + 1 \in 1..Len(ram)
      BY <1>0, <3>1
    <3>3. \A r \in Resident : ram[pageTable[r].frame + 1] = r
      BY <1>3, <1>14 DEF VmInv, TableMatchesRam
    <3>4. QED
      BY <3>2, <3>3
  <2>5. CASE q = p
    <3>1. ram[pageTable[v].frame + 1] = ram[i] /\ pageTable[v].frame + 1 \in 1..Len(ram)
      BY <1>8, <2>4 DEF v
    <3>2. pageTable[v].frame + 1 = i
      BY <3>1 DEF VmInv, RamInv
    <3>3. QED
      BY <1>3, <1>6, <1>7, <2>2, <2>5, <3>2
  <2>6. CASE q # p
    <3>1. q \in Resident /\ q # v /\ q \in VPages
      BY <1>8, <2>6, <1>14 DEF Resident
    <3>2. pageTable[q].frame + 1 # i
      BY <2>4, <3>1 DEF v
    <3>3. QED
      BY <1>3, <1>7, <2>2, <2>4, <2>6, <3>1, <3>2
  <2>7. QED
    BY <2>5, <2>6
<1>15. TableMatchesRam'
  BY <1>3, <1>10, <1>11, <1>12, <1>13, <1>14 DEF TableMatchesRam
<1>16. QED
  BY <1>1, <1>3, <1>7, <1>9, <1>10, <1>15 DEF VmInv

\* When every frame is filled, ram has that many pages and the new one is not there.
LEMMA RamWhenFull ==
  ASSUME VmInv, Fault, RamFull
  PROVE  /\ ram \in Seq(VPages) /\ Len(ram) = numFrames /\ numFrames \in Nat \ {0}
         /\ DOMAIN ram = 1..numFrames
         /\ Page \in VPages /\ \A i \in 1..numFrames : ram[i] # Page
         /\ \A i, j \in 1..numFrames : ram[i] = ram[j] => i = j
<1>1. /\ ram \in Seq(VPages) /\ Len(ram) = pageSoFar /\ pageSoFar \in 0..numFrames
      /\ numFrames \in Nat \ {0}
  BY VmsimAssumption DEF VmInv, RamInv
<1>2. pageSoFar = numFrames
  BY <1>1 DEF RamFull
<1>3. Page \in VPages /\ ~pageTable[Page].valid
  BY NextAccess DEF Fault
<1>4. QED
  BY <1>1, <1>2, <1>3 DEF VmInv, RamInv

\* The new page takes the frame of the page at i.
LEMMA InPlaceKeeps ==
  ASSUME VmInv, Fault, RamFull, NEW i \in 1..numFrames, NEW operation,
         Evict(ram[i], [ram EXCEPT ![i] = Page], operation),
         oldestIndex' \in 0..numFrames - 1, pageMap' \in [VPages -> SUBSET (1..TraceLength)]
  PROVE  VmInv'
<1> DEFINE n == [ram EXCEPT ![i] = Page]
<1>1. /\ ram \in Seq(VPages) /\ Len(ram) = numFrames /\ DOMAIN ram = 1..numFrames
      /\ Page \in VPages /\ \A j \in 1..numFrames : ram[j] # Page
      /\ \A j, k \in 1..numFrames : ram[j] = ram[k] => j = k
  BY RamWhenFull
<1>2. /\ n \in Seq(VPages) /\ Len(n) = Len(ram)
      /\ \A j \in 1..Len(ram) : n[j] = IF j = i THEN Page ELSE ram[j]
  BY <1>1, ExceptSeq
<1>0. Evict(ram[i], n, operation) /\ (algorithm # "fifo" => n = [ram EXCEPT ![i] = Page])
  OBVIOUS
<1> HIDE DEF n
<1>3. \A j, k \in 1..Len(ram) : n[j] = n[k] => j = k
  BY <1>1, <1>2
<1>4. \A q \in VPages : (\E j \in 1..Len(ram) : n[j] = q)
                          <=> (q = Page \/ (q # ram[i] /\ \E j \in 1..Len(ram) : ram[j] = q))
  BY <1>1, <1>2
<1>5. i \in 1..Len(ram)
  BY <1>1
<1>6. QED
  BY <1>0, <1>2, <1>3, <1>4, <1>5, EvictKeeps

\* fifo: the page at the head of the queue goes.
LEMMA FifoKeeps ==
  ASSUME VmInv, NEW operation, fifo(operation)
  PROVE  VmInv'
<1> DEFINE n == Append(Tail(ram), Page)
<1>0. /\ Fault /\ RamFull /\ algorithm = "fifo" /\ Evict(Head(ram), n, operation)
      /\ oldestIndex' \in 0..numFrames - 1 /\ pageMap' \in [VPages -> SUBSET (1..TraceLength)]
  BY DEF fifo, VmInv
<1>1. /\ ram \in Seq(VPages) /\ Len(ram) = numFrames /\ numFrames \in Nat \ {0}
      /\ Page \in VPages /\ \A j \in 1..numFrames : ram[j] # Page
      /\ \A j, k \in 1..numFrames : ram[j] = ram[k] => j = k
  BY <1>0, RamWhenFull
<1>2. ram # <<>> /\ Head(ram) = ram[1] /\ 1 \in 1..Len(ram)
  BY <1>1
<1>3. /\ Tail(ram) \in Seq(VPages) /\ Len(Tail(ram)) = numFrames - 1
      /\ \A j \in 1..numFrames - 1 : Tail(ram)[j] = ram[j + 1]
  BY <1>1, <1>2, HeadTailProperties
<1>4. /\ n \in Seq(VPages) /\ Len(n) = Len(ram)
      /\ \A j \in 1..numFrames - 1 : n[j] = ram[j + 1]
      /\ n[numFrames] = Page
  <2> DEFINE u == Tail(ram)
  <2>1. u \in Seq(VPages) /\ Len(u) = numFrames - 1 /\ \A j \in 1..numFrames - 1 : u[j] = ram[j + 1]
    BY <1>3
  <2> HIDE DEF u
  <2>2. /\ Append(u, Page) \in Seq(VPages) /\ Len(Append(u, Page)) = Len(u) + 1
        /\ \A j \in 1..Len(u) : Append(u, Page)[j] = u[j]
        /\ Append(u, Page)[Len(u) + 1] = Page
    BY <1>1, <2>1, AppendProperties
  <2>3. Len(u) + 1 = numFrames
    BY <1>1, <2>1
  <2>4. QED
    BY <1>1, <2>1, <2>2, <2>3 DEF u
<1> HIDE DEF n
<1>5. \A j \in 1..numFrames : j = numFrames \/ (j \in 1..numFrames - 1 /\ j + 1 \in 1..numFrames)
  BY <1>1
<1>6. \A j, k \in 1..Len(ram) : n[j] = n[k] => j = k
  <2>1. ASSUME NEW j \in 1..numFrames, NEW k \in 1..numFrames, n[j] = n[k] PROVE j = k
    <3>1. CASE j = numFrames /\ k = numFrames
      BY <3>1
    <3>2. CASE j # numFrames /\ k # numFrames
      <4>1. ram[j + 1] = ram[k + 1] /\ j + 1 \in 1..numFrames /\ k + 1 \in 1..numFrames
        BY <1>4, <1>5, <2>1, <3>2
      <4>2. j + 1 = k + 1
        BY <1>1, <4>1
      <4>3. QED
        BY <4>2
    <3>3. CASE j # numFrames /\ k = numFrames
      BY <1>1, <1>4, <1>5, <2>1, <3>3
    <3>4. CASE j = numFrames /\ k # numFrames
      BY <1>1, <1>4, <1>5, <2>1, <3>4
    <3>5. QED
      BY <3>1, <3>2, <3>3, <3>4
  <2>2. QED
    BY <1>1, <2>1
<1>7. ASSUME NEW q \in VPages
      PROVE  (\E j \in 1..Len(ram) : n[j] = q)
               <=> (q = Page \/ (q # ram[1] /\ \E j \in 1..Len(ram) : ram[j] = q))
  <2>1. ASSUME NEW j \in 1..numFrames, n[j] = q
        PROVE  q = Page \/ (q # ram[1] /\ \E k \in 1..numFrames : ram[k] = q)
    <3>1. CASE j = numFrames
      BY <1>4, <2>1, <3>1
    <3>2. CASE j # numFrames
      <4>1. j \in 1..numFrames - 1 /\ j + 1 \in 1..numFrames /\ j + 1 # 1
        BY <1>5, <3>2
      <4>2. ram[j + 1] = q
        BY <1>4, <2>1, <4>1
      <4>3. ram[j + 1] # ram[1]
        BY <1>1, <1>2, <4>1
      <4>4. QED
        BY <4>1, <4>2, <4>3
    <3>3. QED
      BY <3>1, <3>2
  <2>2. q = Page => \E j \in 1..numFrames : n[j] = q
    BY <1>1, <1>4
  <2>3. ASSUME q # ram[1], NEW k \in 1..numFrames, ram[k] = q PROVE \E j \in 1..numFrames : n[j] = q
    <3>1. k # 1
      BY <2>3
    <3>2. k - 1 \in 1..numFrames - 1 /\ (k - 1) + 1 = k /\ k - 1 \in 1..numFrames
      BY <1>1, <3>1
    <3>3. n[k - 1] = q
      BY <1>4, <2>3, <3>2
    <3>4. QED
      BY <3>2, <3>3
  <2>4. QED
    BY <1>1, <2>1, <2>2, <2>3
<1>8. /\ Evict(ram[1], n, operation)
      /\ algorithm # "fifo" => n = [ram EXCEPT ![1] = Page]
  <2>1. Evict(ram[1], n, operation)
    BY <1>0, <1>2
  <2>2. algorithm = "fifo"
    BY <1>0
  <2>3. QED
    BY <2>1, <2>2
<1>9. /\ Fault /\ RamFull /\ 1 \in 1..Len(ram) /\ n \in Seq(VPages) /\ Len(n) = Len(ram)
      /\ oldestIndex' \in 0..numFrames - 1 /\ pageMap' \in [VPages -> SUBSET (1..TraceLength)]
  BY <1>0, <1>2, <1>4
<1>10. ASSUME NEW i, NEW m, i = 1, m = n PROVE VmInv'
  <2>1. i \in 1..Len(ram) /\ m \in Seq(VPages) /\ Len(m) = Len(ram)
    BY <1>9, <1>10
  <2>2. Evict(ram[i], m, operation)
    BY <1>8, <1>10
  <2>3. algorithm # "fifo" => m = [ram EXCEPT ![i] = Page]
    BY <1>8, <1>10
  <2>4. \A j, k \in 1..Len(ram) : m[j] = m[k] => j = k
    BY <1>6, <1>10
  <2>5. \A q \in VPages : (\E j \in 1..Len(ram) : m[j] = q)
                           <=> (q = Page \/ (q # ram[i] /\ \E j \in 1..Len(ram) : ram[j] = q))
    BY <1>7, <1>10
  <2>6. Fault /\ RamFull /\ oldestIndex' \in 0..numFrames - 1 /\ pageMap' \in [VPages -> SUBSET (1..TraceLength)]
    BY <1>9
  <2>7. QED
    BY <2>1, <2>2, <2>3, <2>4, <2>5, <2>6, EvictKeeps
<1>11. QED
  BY <1>10

\* Some frame among the first ones has the page that is used again last.
LEMMA FarthestExists ==
  ASSUME VmInv, NEW k \in 1..numFrames, k \in 1..Len(ram),
         \A i \in 1..k : Future(ram[i]) # {}
  PROVE  /\ Farthest(1..k) \in 1..k
         /\ \E i \in 1..k : \A j \in 1..k : Min(Future(ram[i])) >= Min(Future(ram[j]))
<1> DEFINE g(i) == Min(Future(ram[i]))
           T == {TraceLength - g(i) : i \in 1..k}
<1>0. /\ TraceLength \in Nat /\ pageMap \in [VPages -> SUBSET (1..TraceLength)]
      /\ ram \in Seq(VPages) /\ Len(ram) \in Nat
  BY VmsimAssumption DEF VmInv, RamInv
<1>1. \A i \in 1..k : g(i) \in 1..TraceLength
  <2>1. ASSUME NEW i \in 1..k PROVE Min(Future(ram[i])) \in 1..TraceLength
    <3>1. i \in 1..Len(ram)
      BY <1>0
    <3>2. ram[i] \in VPages
      BY <1>0, <3>1, ElementOfSeq
    <3>3. Future(ram[i]) \subseteq 1..TraceLength
      BY <1>0, <3>2 DEF Future
    <3>4. Future(ram[i]) \in SUBSET Nat
      BY <1>0, <3>3
    <3>5. Min(Future(ram[i])) \in Future(ram[i])
      BY <3>4, LeastNumber
    <3>6. QED
      BY <3>3, <3>5
  <2>2. QED
    BY <2>1
<1> HIDE DEF g
<1>2. T \in SUBSET Nat /\ T # {}
  <2>1. \A i \in 1..k : TraceLength - g(i) \in Nat
    BY <1>0, <1>1
  <2>2. 1 \in 1..k
    BY VmsimAssumption
  <2>3. QED
    BY <2>1, <2>2
<1>3. Min(T) \in T /\ \A y \in T : Min(T) <= y
  <2> HIDE DEF T
  <2>1. QED
    BY <1>2, LeastNumber
<1>4. PICK i \in 1..k : Min(T) = TraceLength - g(i)
  BY <1>3
<1>5. \A j \in 1..k : g(i) >= g(j)
  <2>1. ASSUME NEW j \in 1..k PROVE g(i) >= g(j)
    <3>1. TraceLength - g(i) <= TraceLength - g(j)
      BY <1>3, <1>4
    <3>2. g(i) \in 1..TraceLength /\ g(j) \in 1..TraceLength
      BY <1>1
    <3>3. QED
      BY <1>0, <3>1, <3>2
  <2>2. QED
    BY <2>1
<1>6. \A j \in 1..k : Min(Future(ram[i])) >= Min(Future(ram[j]))
  BY <1>5 DEF g
<1>7. QED
  BY <1>6 DEF Farthest

\* rand: the page of any frame goes.
LEMMA RandKeeps ==
  ASSUME VmInv, NEW operation, rand(operation)
  PROVE  VmInv'
<1>1. /\ Fault /\ RamFull /\ UNCHANGED <<oldestIndex, pageMap>>
      /\ \E i \in DOMAIN ram : Evict(ram[i], [ram EXCEPT ![i] = Page], operation)
  BY DEF rand
<1>2. PICK i \in DOMAIN ram : Evict(ram[i], [ram EXCEPT ![i] = Page], operation)
  BY <1>1
<1>3. i \in 1..numFrames
  BY <1>1, RamWhenFull
<1>4. oldestIndex' \in 0..numFrames - 1 /\ pageMap' \in [VPages -> SUBSET (1..TraceLength)]
  BY <1>1 DEF VmInv
<1>5. QED
  BY <1>1, <1>2, <1>3, <1>4, InPlaceKeeps

\* The hand of the clock stays on the frames.
LEMMA HandOnFrame ==
  ASSUME VmInv
  PROVE  NextIndex \in 0..numFrames - 1 /\ oldestIndex + 1 \in 1..numFrames
BY VmsimAssumption DEF VmInv, NextIndex

\* clock: the page under the hand goes.
LEMMA ClockKeeps ==
  ASSUME VmInv, NEW operation, clock(operation)
  PROVE  VmInv'
<1> DEFINE i == oldestIndex + 1
<1>1. /\ Fault /\ RamFull /\ Evict(ram[i], [ram EXCEPT ![i] = Page], operation)
      /\ oldestIndex' = NextIndex /\ UNCHANGED pageMap
  BY DEF clock, Hand
<1>2. i \in 1..numFrames /\ oldestIndex' \in 0..numFrames - 1
  BY <1>1, HandOnFrame
<1>3. pageMap' \in [VPages -> SUBSET (1..TraceLength)]
  BY <1>1 DEF VmInv
<1> HIDE DEF i
<1>4. QED
  BY <1>1, <1>2, <1>3, InPlaceKeeps

\* The hand passes a frame and takes the second chance of its page away.
LEMMA HandKeeps ==
  ASSUME VmInv, ClockHand
  PROVE  VmInv'
<1> DEFINE p == Hand
           y == [pageTable[p] EXCEPT !.ref = FALSE]
<1>1. /\ Fault /\ RamFull /\ pageTable' = [pageTable EXCEPT ![p] = y] /\ oldestIndex' = NextIndex
      /\ UNCHANGED <<algorithm, trace, commandNum, ram, pageSoFar, pageMap>>
  BY DEF ClockHand
<1>2. p \in VPages /\ pageTable[p].valid
  <2>1. ram \in Seq(VPages) /\ Len(ram) = numFrames
    BY <1>1, RamWhenFull
  <2>2. oldestIndex + 1 \in 1..Len(ram)
    BY <2>1, HandOnFrame
  <2>3. ram[oldestIndex + 1] \in VPages
    BY <2>1, <2>2, ElementOfSeq
  <2>4. QED
    BY <2>2, <2>3 DEF VmInv, RamInv, Hand
<1>3. pageTable[p] \in VmEntry
  BY <1>2 DEF VmInv
<1> HIDE DEF p
<1>4. y \in VmEntry /\ y.valid = pageTable[p].valid /\ y.frame = pageTable[p].frame
  BY <1>3 DEF VmEntry
<1> HIDE DEF y
<1>5. commandNum' \in 1..TraceLength + 1 /\ oldestIndex' \in 0..numFrames - 1
  BY <1>1, HandOnFrame DEF VmInv
<1>6. QED
  BY <1>1, <1>2, <1>4, <1>5, BitsKeep

\* A hit.
LEMMA HitKeeps ==
  ASSUME VmInv, NEW operation, Hit(operation)
  PROVE  VmInv'
<1> DEFINE p == Page
           x == IF algorithm \in {"opt", "clock"} THEN [pageTable[p] EXCEPT !.ref = TRUE] ELSE pageTable[p]
           y == processOperation(x, operation)
<1>1. p \in VPages /\ commandNum + 1 \in 1..TraceLength + 1 /\ pageTable[p].valid
  BY NextAccess DEF Hit
<1>2. /\ pageTable' = [pageTable EXCEPT ![p] = y] /\ commandNum' = commandNum + 1
      /\ UNCHANGED <<algorithm, trace, ram, pageSoFar, oldestIndex, pageMap>>
  BY DEF Hit
<1>3. pageTable[p] \in VmEntry
  BY <1>1 DEF VmInv
<1> HIDE DEF p
<1>4. x \in VmEntry /\ x.valid = pageTable[p].valid /\ x.frame = pageTable[p].frame
  BY <1>3 DEF VmEntry
<1> HIDE DEF x
<1>5. y \in VmEntry /\ y.valid = pageTable[p].valid /\ y.frame = pageTable[p].frame
  BY <1>4, Processed
<1> HIDE DEF y
<1>6. commandNum' \in 1..TraceLength + 1 /\ oldestIndex' \in 0..numFrames - 1
  BY <1>1, <1>2 DEF VmInv
<1>7. QED
  BY <1>1, <1>2, <1>5, <1>6, BitsKeep

\* The victim of opt is a frame.
LEMMA VictimInRam ==
  ASSUME VmInv, Fault, RamFull
  PROVE  Victim \in 1..numFrames
<1> DEFINE T == {numFrames + 1} \cup {i \in DOMAIN ram : Future(ram[i]) = {}}
<1>1. numFrames \in Nat \ {0} /\ DOMAIN ram = 1..numFrames /\ Len(ram) = numFrames
  BY RamWhenFull
<1>2. T \in SUBSET Nat /\ T # {}
  BY <1>1
<1>3. Min(T) \in T /\ \A y \in T : Min(T) <= y
  <2> HIDE DEF T
  <2>1. QED
    BY <1>2, LeastNumber
<1>4. Stop \in 1..numFrames + 1 /\ \A y \in T : Stop <= y
  <2>1. Stop = Min(T)
    BY DEF Stop
  <2>2. T \subseteq 1..numFrames + 1
    BY <1>1
  <2> HIDE DEF T
  <2>3. QED
    BY <1>3, <2>1, <2>2
<1>5. CASE Stop <= numFrames /\ pageMap[ram[Stop]] # {}
  BY <1>1, <1>4, <1>5 DEF Victim
<1>6. CASE ~(Stop <= numFrames /\ pageMap[ram[Stop]] # {}) /\ Stop = 1
  BY <1>1, <1>6 DEF Victim
<1>7. CASE ~(Stop <= numFrames /\ pageMap[ram[Stop]] # {}) /\ Stop # 1
  <2> DEFINE k == Stop - 1
  <2>1. k \in 1..numFrames
    BY <1>1, <1>4, <1>7
  <2>2. \A i \in 1..k : Future(ram[i]) # {}
    <3>1. ASSUME NEW i \in 1..k, Future(ram[i]) = {} PROVE FALSE
      <4>1. i \in DOMAIN ram
        BY <1>1, <2>1
      <4>2. i \in T
        BY <3>1, <4>1
      <4>3. Stop <= i
        BY <1>4, <4>2
      <4>4. QED
        BY <1>1, <1>4, <2>1, <4>3
    <3>2. QED
      BY <3>1
  <2>3. Victim = Farthest(1..k)
    BY <1>7 DEF Victim
  <2> HIDE DEF k
  <2>4. k \in 1..Len(ram)
    BY <1>1, <2>1
  <2>5. Farthest(1..k) \in 1..k
    BY <2>1, <2>2, <2>4, FarthestExists
  <2>6. QED
    BY <1>1, <2>1, <2>3, <2>5
<1>8. QED
  BY <1>5, <1>6, <1>7

\* opt: the page of the victim goes, and accesses are crossed out.
LEMMA OptKeeps ==
  ASSUME VmInv, NEW operation, opt(operation)
  PROVE  VmInv'
<1> DEFINE i == Victim
<1>1. /\ Fault /\ RamFull /\ Evict(ram[i], [ram EXCEPT ![i] = Page], operation)
      /\ UNCHANGED oldestIndex
      /\ pageMap' = [p \in VPages |-> IF \E j \in 1..Min({Stop, numFrames}) : ram[j] = p
                                       THEN Future(p) ELSE pageMap[p]]
  BY DEF opt
<1>2. i \in 1..numFrames
  BY <1>1, VictimInRam
<1>3. pageMap' \in [VPages -> SUBSET (1..TraceLength)]
  <2>1. \A p \in VPages : pageMap[p] \in SUBSET (1..TraceLength) /\ Future(p) \subseteq pageMap[p]
    BY DEF VmInv, Future
  <2>2. \A p \in VPages : (IF \E j \in 1..Min({Stop, numFrames}) : ram[j] = p
                            THEN Future(p) ELSE pageMap[p]) \in SUBSET (1..TraceLength)
    BY <2>1
  <2>3. QED
    BY <1>1, <2>2
<1>4. oldestIndex' \in 0..numFrames - 1
  BY <1>1 DEF VmInv
<1> HIDE DEF i
<1>5. QED
  BY <1>1, <1>2, <1>3, <1>4, InPlaceKeeps

\* At the start every frame is free.
LEMMA VmInitInv == VmInit => VmInv
<1> SUFFICES ASSUME VmInit PROVE VmInv
  OBVIOUS
<1>1. PICK name \in {"fifo", "opt", "clock", "rand"}, s \in Traces : VmStart(name, s)
  BY DEF VmInit
<1>2. numFrames \in Nat \ {0} /\ TraceLength \in Nat
  BY VmsimAssumption
<1>3. trace \in [1..TraceLength -> VPages] /\ commandNum = 1 /\ ram = <<>> /\ pageSoFar = 0 /\ oldestIndex = 0
  BY <1>1 DEF VmStart, Traces
<1>4. PageTableEntry \in VmEntry /\ PageTableEntry.valid = FALSE
  BY DEF PageTableEntry, VmEntry
<1>5. \A p \in VPages : pageTable[p] = PageTableEntry
  BY <1>1 DEF VmStart
<1>6. pageTable \in [VPages -> VmEntry]
  BY <1>1, <1>4 DEF VmStart
<1>7. pageMap \in [VPages -> SUBSET (1..TraceLength)]
  <2>1. \A p \in VPages : Occurrences(trace, p) \in SUBSET (1..TraceLength)
    BY <1>3 DEF Occurrences
  <2>2. QED
    BY <1>1, <2>1 DEF VmStart
<1>8. Resident = {}
  BY <1>4, <1>5 DEF Resident
<1>9. IsFiniteSet(Resident) /\ Cardinality(Resident) = 0
  BY <1>8, FS_EmptySet
<1>10. ram \in Seq(VPages) /\ Len(ram) = 0 /\ DOMAIN ram = {} /\ 1..Len(ram) = {}
  BY <1>3
<1>11. RamInv
  BY <1>3, <1>4, <1>5, <1>10 DEF RamInv
<1>12. TableMatchesRam
  <2>1. {ram[i] : i \in DOMAIN ram} = Resident
    BY <1>8, <1>10
  <2>2. {pageTable[p].frame : p \in Resident} = {} /\ 0..pageSoFar - 1 = {}
    BY <1>3, <1>8
  <2>3. QED
    BY <1>5, <1>8, <1>9, <1>10, <2>1, <2>2 DEF TableMatchesRam
<1>13. commandNum \in 1..TraceLength + 1 /\ pageSoFar \in 0..numFrames /\ oldestIndex \in 0..numFrames - 1
  BY <1>2, <1>3
<1>14. QED
  BY <1>3, <1>6, <1>7, <1>9, <1>11, <1>12, <1>13 DEF VmInv

\* Every step of the simulator keeps the table and the frames in agreement.
LEMMA VmStep ==
  ASSUME VmInv, [VmNext]_vmVars
  PROVE  VmInv'
<1>1. CASE VmNext
  <2>1. ASSUME NEW operation \in Operations, Hit(operation) PROVE VmInv'
    BY <2>1, HitKeeps
  <2>2. ASSUME NEW operation \in Operations, NoEviction(operation) PROVE VmInv'
    BY <2>2, FillKeeps
  <2>3. ASSUME NEW operation \in Operations, fifo(operation) PROVE VmInv'
    BY <2>3, FifoKeeps
  <2>4. ASSUME NEW operation \in Operations, rand(operation) PROVE VmInv'
    BY <2>4, RandKeeps
  <2>5. ASSUME NEW operation \in Operations, clock(operation) PROVE VmInv'
    BY <2>5, ClockKeeps
  <2>6. ASSUME NEW operation \in Operations, opt(operation) PROVE VmInv'
    BY <2>6, OptKeeps
  <2>7. CASE ClockHand
    BY <2>7, HandKeeps
  <2>8. QED
    BY <1>1, <2>1, <2>2, <2>3, <2>4, <2>5, <2>6, <2>7 DEF VmNext
<1>2. CASE UNCHANGED vmVars
  <2>1. /\ trace' = trace /\ commandNum' = commandNum /\ pageTable' = pageTable /\ ram' = ram
        /\ pageSoFar' = pageSoFar /\ oldestIndex' = oldestIndex /\ pageMap' = pageMap
        /\ algorithm' = algorithm
    BY <1>2 DEF vmVars
  <2>2. RamInv' /\ Resident' = Resident
    BY <2>1 DEF VmInv, RamInv, Resident
  <2>3. TableMatchesRam'
    BY <2>1, <2>2 DEF VmInv, TableMatchesRam
  <2>4. QED
    BY <2>1, <2>2, <2>3 DEF VmInv
<1>3. QED
  BY <1>1, <1>2

\* vmsim.java, for every trace, every number of pages and frames, and each of
\* the four algorithms: after every access, and while the hand of the clock
\* moves, the page table and the frames say the same.
THEOREM FramesAgree == VmSpec => []TableMatchesRam
<1>1. VmInv /\ [VmNext]_vmVars => VmInv'
  BY VmStep
<1>2. VmInv => TableMatchesRam
  BY DEF VmInv
<1>3. QED
  BY VmInitInv, <1>1, <1>2, PTL DEF VmSpec

-----------------------------------------------------------------------------
\* The sets of pages that fit into the frames.
Memories == {S \in SUBSET VPages : Cardinality(S) <= numFrames}

\* The memories from which a fault on page c can lead to S.
Before(c, S) == {U \in Memories : c \notin U /\ S \ {c} \subseteq U}

\* What LeastFaults computes for an access to c: b has the fewest faults before
\* it, for every memory, and more than TraceLength for what cannot be.
AfterAccess(c, b) ==
  [S \in Memories |-> IF c \notin S THEN TraceLength + 1
                      ELSE Min({b[S]} \cup {b[U] + 1 : U \in Before(c, S)})]

\* B has the fewest faults of s after each of the first k accesses.
Fewest(s, B, k) ==
  /\ B \in [0..k -> [Memories -> Nat]]
  /\ B[0] = [S \in Memories |-> IF S = {} THEN 0 ELSE TraceLength + 1]
  /\ \A n \in 1..k : B[n] = AfterAccess(s[n], B[n - 1])

\* The pages that s uses from access n to access m, and how many of X are.
Used(s, n, m) == {s[i] : i \in n..m}
InUse(X, W) == Cardinality(X \cap W)

\* Before access n, with f faults so far and P in memory, no other memory is
\* ahead of P: to have in memory more of the pages that are used up to some
\* later access takes as many more faults.
Ahead(s, B, n, f, P) ==
  \A S \in Memories, m \in n-1..TraceLength :
    \/ B[n - 1][S] > TraceLength
    \/ f + InUse(S, Used(s, n, m)) <= B[n - 1][S] + InUse(P, Used(s, n, m))

\* The map of opt has all the accesses of a page that are to come, and no page
\* is in memory whose accesses have all been crossed out.
MapsInv ==
  algorithm = "opt" =>
    /\ \A p \in VPages : /\ pageMap[p] \subseteq Occurrences(trace, p)
                         /\ \A i \in Occurrences(trace, p) : i >= commandNum => i \in pageMap[p]
    /\ \A p \in Resident : pageMap[p] # {}

\* The faults so far, compared with the fewest that any choice of victims has.
FaultsInv ==
  /\ pageFault \in 0..commandNum - 1 /\ least = LeastFaults(trace)
  /\ \A B : Fewest(trace, B, TraceLength) =>
       /\ B[commandNum - 1][Resident] <= pageFault
       /\ algorithm = "opt" => Ahead(trace, B, commandNum, pageFault, Resident)

OptInv == VmInv /\ MapsInv /\ FaultsInv

-----------------------------------------------------------------------------
\* A memory is a finite set.
LEMMA MemoryIsFinite ==
  ASSUME NEW S \in Memories
  PROVE  IsFiniteSet(S) /\ Cardinality(S) \in Nat /\ Cardinality(S) <= numFrames
<1>1. S \subseteq VPages /\ IsFiniteSet(VPages) /\ Cardinality(S) <= numFrames
  BY VmsimAssumption DEF Memories
<1>2. QED
  BY <1>1, FS_Subset, FS_CardinalityType

\* One more page in use.
LEMMA OneMoreInUse ==
  ASSUME NEW X, IsFiniteSet(X), NEW W, NEW c
  PROVE  /\ InUse(X, W) \in Nat
         /\ c \in X /\ c \notin W => InUse(X, W \cup {c}) = InUse(X, W) + 1
         /\ c \notin X \/ c \in W => InUse(X, W \cup {c}) = InUse(X, W)
<1>1. IsFiniteSet(X \cap W)
  BY FS_Intersection
<1>2. Cardinality(X \cap W) \in Nat
  BY <1>1, FS_CardinalityType
<1>3. ASSUME c \in X, c \notin W PROVE InUse(X, W \cup {c}) = InUse(X, W) + 1
  <2>1. X \cap (W \cup {c}) = (X \cap W) \cup {c} /\ c \notin X \cap W
    BY <1>3
  <2>2. Cardinality((X \cap W) \cup {c}) = Cardinality(X \cap W) + 1
    BY <1>1, <2>1, FS_AddElement
  <2>3. QED
    BY <2>1, <2>2 DEF InUse
<1>4. ASSUME c \notin X \/ c \in W PROVE InUse(X, W \cup {c}) = InUse(X, W)
  <2>1. X \cap (W \cup {c}) = X \cap W
    BY <1>4
  <2>2. QED
    BY <2>1 DEF InUse
<1>5. QED
  BY <1>2, <1>3, <1>4 DEF InUse

\* A page comes, and others may go.
LEMMA InUseAfter ==
  ASSUME NEW U, IsFiniteSet(U), NEW S, NEW c, c \notin U, S \ {c} \subseteq U, NEW W
  PROVE  /\ InUse(S, W) \in Nat /\ InUse(U, W) \in Nat
         /\ c \notin W => InUse(S, W) <= InUse(U, W)
         /\ c \in W => InUse(S, W) <= InUse(U, W) + 1
<1>1. IsFiniteSet(U \cap W) /\ c \notin U \cap W
  BY FS_Intersection
<1>2. /\ IsFiniteSet((U \cap W) \cup {c}) /\ Cardinality(U \cap W) \in Nat
      /\ Cardinality((U \cap W) \cup {c}) = Cardinality(U \cap W) + 1
  BY <1>1, FS_AddElement, FS_CardinalityType
<1>3. S \cap W \subseteq (U \cap W) \cup {c}
  OBVIOUS
<1>4. IsFiniteSet(S \cap W)
  BY <1>2, <1>3, FS_Subset
<1>5. Cardinality(S \cap W) \in Nat
  BY <1>4, FS_CardinalityType
<1>6. Cardinality(S \cap W) <= Cardinality((U \cap W) \cup {c})
  BY <1>2, <1>3, FS_Subset
<1>7. ASSUME c \notin W PROVE Cardinality(S \cap W) <= Cardinality(U \cap W)
  <2>1. S \cap W \subseteq U \cap W
    BY <1>7
  <2>2. QED
    BY <1>1, <2>1, FS_Subset
<1>8. QED
  BY <1>2, <1>5, <1>6, <1>7 DEF InUse

\* The page that goes is not used: the others count as before.
LEMMA InUseKept ==
  ASSUME NEW P, IsFiniteSet(P), NEW Q, NEW c, NEW v, c \notin P, Q = (P \ {v}) \cup {c}, NEW W, v \notin W
  PROVE  /\ InUse(Q, W) \in Nat /\ InUse(P, W) \in Nat
         /\ c \notin W => InUse(Q, W) = InUse(P, W)
         /\ c \in W => InUse(Q, W) = InUse(P, W) + 1
<1>1. IsFiniteSet(P \cap W) /\ c \notin P \cap W
  BY FS_Intersection
<1>2. /\ Cardinality(P \cap W) \in Nat
      /\ Cardinality((P \cap W) \cup {c}) = Cardinality(P \cap W) + 1
  BY <1>1, FS_AddElement, FS_CardinalityType
<1>3. CASE c \notin W
  <2>1. Q \cap W = P \cap W
    BY <1>3
  <2>2. QED
    BY <1>2, <1>3, <2>1 DEF InUse
<1>4. CASE c \in W
  <2>1. Q \cap W = (P \cap W) \cup {c}
    BY <1>4
  <2>2. QED
    BY <1>2, <1>4, <2>1 DEF InUse
<1>5. QED
  BY <1>3, <1>4

\* The memory was full of pages that are used: then no memory with c, the page
\* of the fault, has more pages in use.
LEMMA InUseFull ==
  ASSUME NEW P, IsFiniteSet(P), NEW k \in Nat, Cardinality(P) = k, NEW Q, NEW c, NEW v \in P, c \notin P,
         Q = (P \ {v}) \cup {c}, NEW W, P \subseteq W,
         NEW S, IsFiniteSet(S), Cardinality(S) <= k, c \in S
  PROVE  InUse(Q, W) \in Nat /\ InUse(S, W) \in Nat /\ InUse(S, W) <= InUse(Q, W)
<1>1. IsFiniteSet(P \ {v}) /\ Cardinality(P \ {v}) = k - 1
  BY FS_RemoveElement
<1>2. Cardinality(Q) = k /\ IsFiniteSet(Q)
  <2>1. c \notin P \ {v}
    OBVIOUS
  <2>2. Cardinality((P \ {v}) \cup {c}) = Cardinality(P \ {v}) + 1 /\ IsFiniteSet((P \ {v}) \cup {c})
    BY <1>1, <2>1, FS_AddElement
  <2>3. QED
    BY <1>1, <2>2
<1>3. Cardinality(S) \in Nat /\ IsFiniteSet(S \cap W) /\ Cardinality(S \cap W) \in Nat
  BY FS_CardinalityType, FS_Intersection
<1>4. CASE c \in W
  <2>1. Q \cap W = Q /\ S \cap W \subseteq S
    BY <1>4
  <2>2. Cardinality(S \cap W) <= Cardinality(S)
    BY <2>1, FS_Subset
  <2>3. QED
    BY <1>2, <1>3, <2>1, <2>2 DEF InUse
<1>5. CASE c \notin W
  <2>1. Q \cap W = P \ {v} /\ S \cap W \subseteq S \ {c}
    BY <1>5
  <2>2. IsFiniteSet(S \ {c}) /\ Cardinality(S \ {c}) = Cardinality(S) - 1
    BY FS_RemoveElement
  <2>3. Cardinality(S \cap W) <= Cardinality(S \ {c})
    BY <2>1, <2>2, FS_Subset
  <2>4. k - 1 \in Nat
    BY <1>1, FS_CardinalityType
  <2>5. QED
    BY <1>1, <1>3, <2>1, <2>2, <2>3, <2>4 DEF InUse
<1>6. QED
  BY <1>4, <1>5

\* AfterAccess says what it should.
LEMMA AccessCounts ==
  ASSUME NEW c, NEW b \in [Memories -> Nat]
  PROVE  /\ AfterAccess(c, b) \in [Memories -> Nat]
         /\ \A S \in Memories :
              /\ c \notin S => AfterAccess(c, b)[S] > TraceLength
              /\ c \in S =>
                   /\ AfterAccess(c, b)[S] <= b[S]
                   /\ \A U \in Before(c, S) : AfterAccess(c, b)[S] <= b[U] + 1
                   /\ \/ AfterAccess(c, b)[S] = b[S]
                      \/ \E U \in Before(c, S) : AfterAccess(c, b)[S] = b[U] + 1
<1>0. TraceLength \in Nat /\ TraceLength + 1 \in Nat /\ TraceLength + 1 > TraceLength
  BY VmsimAssumption
<1> DEFINE all(S) == {b[S]} \cup {b[U] + 1 : U \in Before(c, S)}
<1>1. ASSUME NEW S \in Memories
      PROVE  /\ Min(all(S)) \in Nat /\ Min(all(S)) <= b[S]
             /\ \A U \in Before(c, S) : Min(all(S)) <= b[U] + 1
             /\ \/ Min(all(S)) = b[S]
                \/ \E U \in Before(c, S) : Min(all(S)) = b[U] + 1
  <2>1. all(S) \in SUBSET Nat /\ all(S) # {} /\ b[S] \in all(S)
    BY DEF Before
  <2>2. Min(all(S)) \in all(S) /\ \A y \in all(S) : Min(all(S)) <= y
    <3> HIDE DEF all
    <3>1. QED
      BY <2>1, LeastNumber
  <2>3. \A U \in Before(c, S) : b[U] + 1 \in all(S)
    OBVIOUS
  <2> DEFINE m == Min(all(S))
  <2>4. m \in all(S) /\ m \in Nat /\ \A y \in all(S) : m <= y
    BY <2>1, <2>2
  <2> HIDE DEF m
  <2>5. m = b[S] \/ \E U \in Before(c, S) : m = b[U] + 1
    BY <2>4
  <2>6. m <= b[S] /\ \A U \in Before(c, S) : m <= b[U] + 1
    BY <2>1, <2>3, <2>4
  <2>7. QED
    BY <2>4, <2>5, <2>6 DEF m
<1>2. AfterAccess(c, b) = [S \in Memories |-> IF c \notin S THEN TraceLength + 1 ELSE Min(all(S))]
  BY DEF AfterAccess
<1> HIDE DEF all
<1>3. QED
  BY <1>0, <1>1, <1>2

\* Before the first access nothing is in memory.
LEMMA FirstCounts ==
  /\ [S \in Memories |-> IF S = {} THEN 0 ELSE TraceLength + 1] \in [Memories -> Nat]
  /\ {} \in Memories
<1>1. Cardinality({}) = 0
  BY FS_EmptySet
<1>2. QED
  BY <1>1, VmsimAssumption DEF Memories

\* The recursion of LeastFaults goes through.
LEMMA FewestExists ==
  ASSUME NEW s, NEW n \in Nat
  PROVE  \E B : Fewest(s, B, n)
<1> DEFINE bad == {k \in Nat : ~\E B : Fewest(s, B, k)}
<1> SUFFICES ASSUME bad # {} PROVE FALSE
  OBVIOUS
<1>1. PICK k \in bad : \A y \in bad : k <= y
  <2>1. bad \in SUBSET Nat
    OBVIOUS
  <2> HIDE DEF bad
  <2>2. QED
    BY <2>1, Least
<1> DEFINE first == [S \in Memories |-> IF S = {} THEN 0 ELSE TraceLength + 1]
<1>2. k # 0
  <2>1. first \in [Memories -> Nat]
    BY FirstCounts
  <2> HIDE DEF first
  <2>2. PICK B : B = [i \in 0..0 |-> first]
    OBVIOUS
  <2>3. B \in [0..0 -> [Memories -> Nat]] /\ B[0] = first /\ 1..0 = {}
    BY <2>1, <2>2
  <2>4. Fewest(s, B, 0)
    BY <2>3 DEF Fewest, first
  <2>5. QED
    BY <1>1, <2>4
<1>3. k \in Nat /\ k - 1 \in Nat /\ k - 1 \notin bad
  BY <1>1, <1>2
<1>4. PICK B : Fewest(s, B, k - 1)
  BY <1>3
<1>5. PICK g : g = AfterAccess(s[k], B[k - 1])
  OBVIOUS
<1>6. B \in [0..k - 1 -> [Memories -> Nat]] /\ k - 1 \in 0..k - 1 /\ B[k - 1] \in [Memories -> Nat]
  <2>1. B \in [0..k - 1 -> [Memories -> Nat]]
    BY <1>4 DEF Fewest
  <2>2. k - 1 \in 0..k - 1
    BY <1>3
  <2>3. QED
    BY <2>1, <2>2
<1>7. g \in [Memories -> Nat]
  BY <1>5, <1>6, AccessCounts
<1>8. PICK h : h = [i \in 0..k |-> IF i = k THEN g ELSE B[i]]
  OBVIOUS
<1>9. h[k] = g /\ \A i \in 0..k - 1 : h[i] = B[i]
  BY <1>3, <1>8
<1>10. h \in [0..k -> [Memories -> Nat]]
  <2>1. \A i \in 0..k : i # k => i \in 0..k - 1
    BY <1>3
  <2>2. QED
    BY <1>6, <1>7, <1>8, <2>1
<1>11. \A i \in 1..k : h[i] = AfterAccess(s[i], h[i - 1])
  <2>1. ASSUME NEW i \in 1..k, i # k PROVE h[i] = AfterAccess(s[i], h[i - 1])
    <3>1. i \in 1..k - 1 /\ i \in 0..k - 1 /\ i - 1 \in 0..k - 1
      BY <1>3, <2>1
    <3>2. QED
      BY <1>4, <1>9, <3>1 DEF Fewest
  <2>2. h[k] = AfterAccess(s[k], h[k - 1])
    BY <1>5, <1>6, <1>9
  <2>3. QED
    BY <2>1, <2>2
<1>12. h[0] = first
  <2>1. 0 \in 0..k - 1
    BY <1>3
  <2>2. QED
    BY <1>4, <1>9, <2>1 DEF Fewest
<1>13. Fewest(s, h, k)
  BY <1>10, <1>11, <1>12 DEF Fewest
<1>14. QED
  BY <1>1, <1>13

\* LeastFaults is the least over all memories at the end.
LEMMA LeastFaultsIs ==
  ASSUME NEW s
  PROVE  \E B : Fewest(s, B, TraceLength) /\ LeastFaults(s) = Min({B[TraceLength][S] : S \in Memories})
<1> DEFINE T == TraceLength
           first == [S \in Memories |-> IF S = {} THEN 0 ELSE T + 1]
           Def(h) == [n \in 0..T |-> IF n = 0 THEN first ELSE AfterAccess(s[n], h[n - 1])]
           best == CHOOSE h : h = Def(h)
<1>0. T \in Nat
  BY VmsimAssumption
<1>1. PICK g : Fewest(s, g, T)
  BY <1>0, FewestExists
<1>2. g = Def(g)
  <2>1. \A n \in 0..T : n # 0 => n \in 1..T
    BY <1>0
  <2>2. \A n \in 0..T : g[n] = Def(g)[n]
    BY <1>1, <2>1 DEF Fewest
  <2>3. DOMAIN g = 0..T /\ g = [n \in 0..T |-> g[n]]
    BY <1>1 DEF Fewest
  <2>4. QED
    BY <2>2, <2>3
<1>3. best = Def(best)
  <2> HIDE DEF Def
  <2>1. QED
    BY <1>2
<1>4. LeastFaults(s) = Min({best[T][S] : S \in Memories})
  BY DEF LeastFaults, AfterAccess, Before, Memories
<1> HIDE DEF best
<1>5. best[0] = first /\ \A n \in 1..T : best[n] = AfterAccess(s[n], best[n - 1])
  <2>1. 0 \in 0..T /\ \A n \in 1..T : n \in 0..T /\ n # 0
    BY <1>0
  <2> HIDE DEF first
  <2>2. QED
    BY <1>3, <2>1
<1>6. \A n \in 0..T : best[n] \in [Memories -> Nat]
  <2> DEFINE bad == {n \in 0..T : best[n] \notin [Memories -> Nat]}
  <2> SUFFICES ASSUME bad # {} PROVE FALSE
    OBVIOUS
  <2>1. PICK k \in bad : \A y \in bad : k <= y
    <3>1. bad \in SUBSET Nat
      OBVIOUS
    <3> HIDE DEF bad
    <3>2. QED
      BY <3>1, Least
  <2>2. k # 0
    BY <1>5, <2>1, FirstCounts
  <2>3. k \in 1..T /\ k - 1 \in 0..T /\ k - 1 \notin bad
    BY <1>0, <2>1, <2>2
  <2>4. best[k - 1] \in [Memories -> Nat]
    BY <2>3
  <2>5. best[k] \in [Memories -> Nat]
    BY <1>5, <2>3, <2>4, AccessCounts
  <2>6. QED
    BY <2>1, <2>5
<1>7. best = [n \in 0..T |-> best[n]]
  <2> HIDE DEF first
  <2>1. QED
    BY <1>3
<1>8. best \in [0..T -> [Memories -> Nat]]
  BY <1>6, <1>7
<1>9. Fewest(s, best, T)
  BY <1>5, <1>8 DEF Fewest
<1>10. QED
  BY <1>4, <1>9

-----------------------------------------------------------------------------
\* Access n of the trace, for a table of fewest faults.
LEMMA AccessInTable ==
  ASSUME NEW s, NEW B, Fewest(s, B, TraceLength), NEW n \in 1..TraceLength
  PROVE  /\ TraceLength \in Nat /\ n \in Nat /\ n - 1 \in Nat
         /\ B[n - 1] \in [Memories -> Nat] /\ B[n] \in [Memories -> Nat]
         /\ B[n] = AfterAccess(s[n], B[n - 1])
         /\ \A m \in n..TraceLength : /\ m \in n-1..TraceLength /\ m \in n+1-1..TraceLength
                                      /\ Used(s, n, m) = Used(s, n + 1, m) \cup {s[n]}
         /\ n \in n-1..TraceLength /\ Used(s, n, n) = {s[n]}
         /\ n + 1 - 1 = n
<1>1. TraceLength \in Nat /\ n \in Nat /\ n - 1 \in Nat /\ n - 1 \in 0..TraceLength /\ n \in 0..TraceLength
  BY VmsimAssumption
<1>2. /\ B \in [0..TraceLength -> [Memories -> Nat]]
      /\ B[n] = AfterAccess(s[n], B[n - 1])
  BY DEF Fewest
<1>3. \A m \in n..TraceLength : n..m = (n+1..m) \cup {n}
  BY <1>1
<1>4. \A m \in n..TraceLength : Used(s, n, m) = Used(s, n + 1, m) \cup {s[n]}
  BY <1>3 DEF Used
<1>5. n..n = {n}
  BY <1>1
<1>6. Used(s, n, n) = {s[n]}
  BY <1>5 DEF Used
<1>7. /\ n \in n-1..TraceLength /\ n + 1 - 1 = n
      /\ \A m \in n..TraceLength : m \in n-1..TraceLength /\ m \in n+1-1..TraceLength
  BY <1>1
<1>8. QED
  BY <1>1, <1>2, <1>4, <1>6, <1>7

\* After a hit no memory is ahead.
LEMMA HitStaysAhead ==
  ASSUME NEW s, NEW B, Fewest(s, B, TraceLength), NEW n \in 1..TraceLength, NEW f \in Nat,
         NEW P \in Memories, s[n] \in P, Ahead(s, B, n, f, P)
  PROVE  Ahead(s, B, n + 1, f, P)
<1> DEFINE c == s[n]
<1>1. /\ TraceLength \in Nat /\ B[n - 1] \in [Memories -> Nat] /\ B[n] \in [Memories -> Nat]
      /\ B[n] = AfterAccess(c, B[n - 1]) /\ n + 1 - 1 = n
  BY AccessInTable
<1>2. SUFFICES ASSUME NEW S \in Memories, NEW m \in n..TraceLength, B[n][S] <= TraceLength
               PROVE  f + InUse(S, Used(s, n + 1, m)) <= B[n][S] + InUse(P, Used(s, n + 1, m))
  BY <1>1 DEF Ahead
<1>3. m \in n-1..TraceLength /\ Used(s, n, m) = Used(s, n + 1, m) \cup {c}
  BY AccessInTable
<1> DEFINE W == Used(s, n + 1, m)
<1>4. /\ InUse(P, W) \in Nat
      /\ c \notin W => InUse(P, W \cup {c}) = InUse(P, W) + 1
      /\ c \in W => InUse(P, W \cup {c}) = InUse(P, W)
  BY MemoryIsFinite, OneMoreInUse
<1>5. c \in S
  BY <1>1, <1>2, AccessCounts
<1>6. B[n][S] = B[n - 1][S] \/ \E U \in Before(c, S) : B[n][S] = B[n - 1][U] + 1
  BY <1>1, <1>5, AccessCounts
<1>7. \A U \in Memories : B[n - 1][U] <= TraceLength =>
        f + InUse(U, W \cup {c}) <= B[n - 1][U] + InUse(P, W \cup {c})
  <2>1. ASSUME NEW U \in Memories, B[n - 1][U] <= TraceLength
        PROVE  f + InUse(U, Used(s, n, m)) <= B[n - 1][U] + InUse(P, Used(s, n, m))
    <3>1. B[n - 1][U] \in Nat /\ ~(B[n - 1][U] > TraceLength)
      BY <1>1, <2>1
    <3>2. QED
      BY <1>3, <3>1 DEF Ahead
  <2>2. QED
    BY <1>3, <2>1
<1> HIDE DEF W
<1>8. CASE B[n][S] = B[n - 1][S]
  <2>1. /\ InUse(S, W) \in Nat
        /\ c \notin W => InUse(S, W \cup {c}) = InUse(S, W) + 1
        /\ c \in W => InUse(S, W \cup {c}) = InUse(S, W)
    BY <1>5, MemoryIsFinite, OneMoreInUse
  <2>2. f + InUse(S, W \cup {c}) <= B[n][S] + InUse(P, W \cup {c})
    BY <1>2, <1>7, <1>8
  <2>3. B[n][S] \in Nat
    BY <1>1
  <2>4. QED
    BY <1>4, <2>1, <2>2, <2>3 DEF W
<1>9. CASE \E U \in Before(c, S) : B[n][S] = B[n - 1][U] + 1
  <2>1. PICK U \in Before(c, S) : B[n][S] = B[n - 1][U] + 1
    BY <1>9
  <2>2. U \in Memories /\ c \notin U /\ S \ {c} \subseteq U
    BY DEF Before
  <2>3. B[n - 1][U] \in Nat
    BY <1>1, <2>2
  <2>4. f + InUse(U, W \cup {c}) <= B[n - 1][U] + InUse(P, W \cup {c})
    <3>1. B[n - 1][U] <= TraceLength
      BY <1>1, <1>2, <2>1, <2>3
    <3>2. QED
      BY <1>7, <2>2, <3>1
  <2>5. InUse(U, W) \in Nat /\ InUse(U, W \cup {c}) = InUse(U, W)
    BY <2>2, MemoryIsFinite, OneMoreInUse
  <2>6. /\ InUse(S, W) \in Nat
        /\ c \notin W => InUse(S, W) <= InUse(U, W)
        /\ c \in W => InUse(S, W) <= InUse(U, W) + 1
    BY <2>2, MemoryIsFinite, InUseAfter
  <2>7. f + InUse(S, W) <= B[n - 1][U] + 1 + InUse(P, W)
    BY <1>4, <2>3, <2>4, <2>5, <2>6
  <2>8. QED
    BY <2>1, <2>7 DEF W
<1>10. QED
  BY <1>6, <1>8, <1>9

\* What the choice of the victim has to do with the accesses to come: the
\* pages of the new memory Q are used as those of P and the new page c are; or
\* all of P are used, and no memory with c has more pages in use than Q.
Chosen(c, P, Q, W) ==
  \/ /\ InUse(Q, W) \in Nat
     /\ c \notin W => InUse(Q, W) = InUse(P, W)
     /\ c \in W => InUse(Q, W) = InUse(P, W) + 1
  \/ \A S \in Memories : c \in S => /\ InUse(Q, W) \in Nat /\ InUse(S, W) \in Nat
                                    /\ InUse(S, W) <= InUse(Q, W)

\* After a fault no memory is ahead.
LEMMA FaultStaysAhead ==
  ASSUME NEW s, NEW B, Fewest(s, B, TraceLength), NEW n \in 1..TraceLength, NEW f \in Nat,
         NEW P \in Memories, s[n] \notin P, Ahead(s, B, n, f, P), NEW Q \in Memories,
         \A m \in n..TraceLength : Chosen(s[n], P, Q, Used(s, n + 1, m))
  PROVE  Ahead(s, B, n + 1, f + 1, Q)
<1> DEFINE c == s[n]
<1>1. /\ TraceLength \in Nat /\ B[n - 1] \in [Memories -> Nat] /\ B[n] \in [Memories -> Nat]
      /\ B[n] = AfterAccess(c, B[n - 1]) /\ n + 1 - 1 = n
      /\ n \in n-1..TraceLength /\ Used(s, n, n) = {c}
  BY AccessInTable
<1>2. SUFFICES ASSUME NEW S \in Memories, NEW m \in n..TraceLength, B[n][S] <= TraceLength
               PROVE  f + 1 + InUse(S, Used(s, n + 1, m)) <= B[n][S] + InUse(Q, Used(s, n + 1, m))
  BY <1>1 DEF Ahead
<1>3. m \in n-1..TraceLength /\ Used(s, n, m) = Used(s, n + 1, m) \cup {c}
  BY AccessInTable
<1> DEFINE W == Used(s, n + 1, m)
<1>4. InUse(P, W) \in Nat /\ InUse(P, W \cup {c}) = InUse(P, W)
  BY MemoryIsFinite, OneMoreInUse
<1>5. c \in S
  BY <1>1, <1>2, AccessCounts
<1>6. B[n][S] = B[n - 1][S] \/ \E U \in Before(c, S) : B[n][S] = B[n - 1][U] + 1
  BY <1>1, <1>5, AccessCounts
<1>7. \A U \in Memories : B[n - 1][U] <= TraceLength =>
        /\ f + InUse(U, W \cup {c}) <= B[n - 1][U] + InUse(P, W \cup {c})
        /\ f + InUse(U, {c}) <= B[n - 1][U] + InUse(P, {c})
  <2>1. ASSUME NEW U \in Memories, B[n - 1][U] <= TraceLength
        PROVE  /\ f + InUse(U, Used(s, n, m)) <= B[n - 1][U] + InUse(P, Used(s, n, m))
               /\ f + InUse(U, Used(s, n, n)) <= B[n - 1][U] + InUse(P, Used(s, n, n))
    <3>1. B[n - 1][U] \in Nat /\ ~(B[n - 1][U] > TraceLength)
      BY <1>1, <2>1
    <3>2. n \in n-1..TraceLength
      BY <1>1
    <3>3. QED
      BY <1>3, <3>1, <3>2 DEF Ahead
  <2>2. QED
    BY <1>1, <1>3, <2>1
<1>8. Chosen(c, P, Q, W)
  OBVIOUS
<1>9. InUse(P, {c}) = 0
  <2>1. P \cap {c} = {}
    OBVIOUS
  <2>2. QED
    BY <2>1, FS_EmptySet DEF InUse
<1> HIDE DEF W
<1>10. CASE B[n][S] = B[n - 1][S]
  <2>1. /\ InUse(S, W) \in Nat
        /\ c \notin W => InUse(S, W \cup {c}) = InUse(S, W) + 1
        /\ c \in W => InUse(S, W \cup {c}) = InUse(S, W)
    BY <1>5, MemoryIsFinite, OneMoreInUse
  <2>2. InUse(S, {c}) = 1
    <3>1. S \cap {c} = {c}
      BY <1>5
    <3>2. QED
      BY <3>1, FS_Singleton DEF InUse
  <2>3. /\ f + InUse(S, W \cup {c}) <= B[n][S] + InUse(P, W \cup {c})
        /\ f + InUse(S, {c}) <= B[n][S] + InUse(P, {c})
    BY <1>2, <1>7, <1>10
  <2>4. B[n][S] \in Nat
    BY <1>1
  <2>5. f + 1 <= B[n][S]
    BY <1>9, <2>2, <2>3, <2>4
  <2>6. f + 1 + InUse(S, W) <= B[n][S] + InUse(Q, W)
    <3>1. CASE \A X \in Memories : c \in X => /\ InUse(Q, W) \in Nat /\ InUse(X, W) \in Nat
                                              /\ InUse(X, W) <= InUse(Q, W)
      <4>1. InUse(Q, W) \in Nat /\ InUse(S, W) <= InUse(Q, W)
        BY <1>5, <3>1
      <4>2. QED
        BY <2>1, <2>4, <2>5, <4>1
    <3>2. CASE /\ InUse(Q, W) \in Nat
               /\ c \notin W => InUse(Q, W) = InUse(P, W)
               /\ c \in W => InUse(Q, W) = InUse(P, W) + 1
      BY <1>4, <2>1, <2>3, <2>4, <3>2
    <3>3. QED
      BY <1>8, <3>1, <3>2 DEF Chosen
  <2>7. QED
    BY <2>6 DEF W
<1>11. CASE \E U \in Before(c, S) : B[n][S] = B[n - 1][U] + 1
  <2>1. PICK U \in Before(c, S) : B[n][S] = B[n - 1][U] + 1
    BY <1>11
  <2>2. U \in Memories /\ c \notin U /\ S \ {c} \subseteq U
    BY DEF Before
  <2>3. B[n - 1][U] \in Nat
    BY <1>1, <2>2
  <2>4. /\ f + InUse(U, W \cup {c}) <= B[n - 1][U] + InUse(P, W \cup {c})
        /\ f + InUse(U, {c}) <= B[n - 1][U] + InUse(P, {c})
    <3>1. B[n - 1][U] <= TraceLength
      BY <1>1, <1>2, <2>1, <2>3
    <3>2. QED
      BY <1>7, <2>2, <3>1
  <2>5. InUse(U, W) \in Nat /\ InUse(U, W \cup {c}) = InUse(U, W)
    BY <2>2, MemoryIsFinite, OneMoreInUse
  <2>6. /\ InUse(S, W) \in Nat
        /\ c \notin W => InUse(S, W) <= InUse(U, W)
        /\ c \in W => InUse(S, W) <= InUse(U, W) + 1
    BY <2>2, MemoryIsFinite, InUseAfter
  <2>7. InUse(U, {c}) = 0
    <3>1. U \cap {c} = {}
      BY <2>2
    <3>2. QED
      BY <3>1, FS_EmptySet DEF InUse
  <2>8. f <= B[n - 1][U]
    BY <1>9, <2>3, <2>4, <2>7
  <2>9. f + 1 + InUse(S, W) <= B[n - 1][U] + 1 + InUse(Q, W)
    <3>1. CASE \A X \in Memories : c \in X => /\ InUse(Q, W) \in Nat /\ InUse(X, W) \in Nat
                                              /\ InUse(X, W) <= InUse(Q, W)
      <4>1. InUse(Q, W) \in Nat /\ InUse(S, W) <= InUse(Q, W)
        BY <1>5, <3>1
      <4>2. QED
        BY <2>3, <2>6, <2>8, <4>1
    <3>2. CASE /\ InUse(Q, W) \in Nat
               /\ c \notin W => InUse(Q, W) = InUse(P, W)
               /\ c \in W => InUse(Q, W) = InUse(P, W) + 1
      BY <1>4, <2>3, <2>4, <2>5, <2>6, <3>2
    <3>3. QED
      BY <1>8, <3>1, <3>2 DEF Chosen
  <2>10. QED
    BY <2>1, <2>9 DEF W
<1>12. QED
  BY <1>6, <1>10, <1>11

\* The fewest faults grow as those of the simulator do, or less.
LEMMA FewestGrows ==
  ASSUME NEW s, NEW B, Fewest(s, B, TraceLength), NEW n \in 1..TraceLength, NEW f \in Nat,
         NEW P \in Memories, B[n - 1][P] <= f
  PROVE  /\ s[n] \in P => B[n][P] <= f
         /\ \A Q \in Memories : s[n] \notin P /\ s[n] \in Q /\ Q \ {s[n]} \subseteq P => B[n][Q] <= f + 1
<1>1. /\ B[n - 1] \in [Memories -> Nat] /\ B[n] \in [Memories -> Nat]
      /\ B[n] = AfterAccess(s[n], B[n - 1])
  BY AccessInTable
<1>2. B[n - 1][P] \in Nat
  BY <1>1
<1>3. ASSUME s[n] \in P PROVE B[n][P] <= f
  <2>1. B[n][P] <= B[n - 1][P] /\ B[n][P] \in Nat
    BY <1>1, <1>3, AccessCounts
  <2>2. QED
    BY <1>2, <2>1
<1>4. ASSUME NEW Q \in Memories, s[n] \notin P, s[n] \in Q, Q \ {s[n]} \subseteq P PROVE B[n][Q] <= f + 1
  <2>1. P \in Before(s[n], Q)
    BY <1>4 DEF Before
  <2>2. B[n][Q] <= B[n - 1][P] + 1 /\ B[n][Q] \in Nat
    BY <1>1, <1>4, <2>1, AccessCounts
  <2>3. QED
    BY <1>2, <2>2
<1>5. QED
  BY <1>3, <1>4

-----------------------------------------------------------------------------
\* What is in memory fits.
LEMMA ResidentFits ==
  ASSUME VmInv
  PROVE  /\ Resident \in Memories /\ Cardinality(Resident) = pageSoFar
         /\ \A p \in Resident : \E i \in 1..Len(ram) : ram[i] = p
         /\ \A i \in 1..Len(ram) : ram[i] \in Resident
<1>1. Cardinality(Resident) = Len(ram) /\ Len(ram) = pageSoFar /\ pageSoFar \in 0..numFrames
  BY DEF VmInv, RamInv, TableMatchesRam
<1>2. Resident \subseteq VPages /\ numFrames \in Nat
  BY VmsimAssumption DEF Resident
<1>3. Resident \in Memories
  BY <1>1, <1>2 DEF Memories
<1>4. {ram[i] : i \in DOMAIN ram} = Resident /\ DOMAIN ram = 1..Len(ram)
  BY DEF VmInv, RamInv, TableMatchesRam
<1>5. QED
  BY <1>1, <1>3, <1>4

\* An access that finds its page, one that fills a free frame, one for which the
\* page v goes, and a turn of the hand of the clock.
NextOne == commandNum' = commandNum + 1 /\ UNCHANGED <<algorithm, trace, least>>
FindsPage == More /\ NextOne /\ Page \in Resident /\ Resident' = Resident /\ UNCHANGED <<pageFault, pageMap>>
FillsFrame ==
  /\ Fault /\ NextOne /\ Page \notin Resident /\ Resident' = Resident \cup {Page}
  /\ pageFault' = pageFault + 1 /\ UNCHANGED pageMap
TakesFrame(v) ==
  /\ Fault /\ RamFull /\ NextOne /\ Page \notin Resident /\ v \in Resident
  /\ Resident' = (Resident \ {v}) \cup {Page} /\ pageFault' = pageFault + 1
HandTurns ==
  Resident' = Resident /\ UNCHANGED <<algorithm, trace, least, commandNum, pageFault, pageMap>>

\* The bits of an entry but the valid one make no difference to what is in memory.
LEMMA SameResident ==
  ASSUME VmInv, NEW p \in VPages, NEW y, y.valid = pageTable[p].valid,
         pageTable' = [pageTable EXCEPT ![p] = y]
  PROVE  Resident' = Resident
<1>1. \A q \in VPages : pageTable'[q].valid = pageTable[q].valid
  BY DEF VmInv
<1>2. QED
  BY <1>1 DEF Resident

LEMMA HitFinds ==
  ASSUME VmInv, NEW operation, Hit(operation)
  PROVE  FindsPage
<1> DEFINE p == Page
           x == IF algorithm \in {"opt", "clock"} THEN [pageTable[p] EXCEPT !.ref = TRUE] ELSE pageTable[p]
           y == processOperation(x, operation)
<1>1. p \in VPages /\ pageTable[p].valid /\ More
  BY NextAccess DEF Hit
<1>2. /\ pageTable' = [pageTable EXCEPT ![p] = y] /\ commandNum' = commandNum + 1
      /\ UNCHANGED <<algorithm, trace, least, pageFault, pageMap>>
  BY DEF Hit
<1>3. pageTable[p] \in VmEntry
  BY <1>1 DEF VmInv
<1> HIDE DEF p
<1>4. x \in VmEntry /\ x.valid = pageTable[p].valid
  BY <1>3 DEF VmEntry
<1> HIDE DEF x
<1>5. y.valid = pageTable[p].valid
  BY <1>4, Processed
<1> HIDE DEF y
<1>6. Resident' = Resident
  BY <1>1, <1>2, <1>5, SameResident
<1>7. p \in Resident
  BY <1>1 DEF Resident
<1>8. QED
  BY <1>1, <1>2, <1>6, <1>7 DEF FindsPage, NextOne, p

LEMMA NoEvictionFills ==
  ASSUME VmInv, NEW operation, NoEviction(operation)
  PROVE  FillsFrame
<1> DEFINE p == Page
           x == [pageTable[p] EXCEPT !.valid = TRUE, !.frame = pageSoFar]
           y == processOperation(x, operation)
<1>1. p \in VPages /\ ~pageTable[p].valid /\ Fault
  BY NextAccess DEF NoEviction, Fault
<1>2. /\ pageTable' = [pageTable EXCEPT ![p] = y] /\ commandNum' = commandNum + 1
      /\ pageFault' = pageFault + 1 /\ UNCHANGED <<algorithm, trace, least, pageMap>>
  BY DEF NoEviction
<1>3. pageTable[p] \in VmEntry /\ ~RamFull
  BY <1>1 DEF VmInv, NoEviction
<1>4. pageSoFar \in {-1} \cup 0..numFrames-1
  BY <1>3, VmsimAssumption DEF VmInv, RamFull
<1> HIDE DEF p
<1>5. x \in VmEntry /\ x.valid = TRUE
  BY <1>3, <1>4 DEF VmEntry
<1> HIDE DEF x
<1>6. y.valid = TRUE
  BY <1>5, Processed
<1> HIDE DEF y
<1>7. Resident' = Resident \cup {p}
  <2>1. pageTable'[p].valid = TRUE /\ \A q \in VPages \ {p} : pageTable'[q] = pageTable[q]
    BY <1>1, <1>2, <1>6 DEF VmInv
  <2>2. QED
    BY <1>1, <2>1 DEF Resident
<1>8. p \notin Resident
  BY <1>1 DEF Resident
<1>9. QED
  BY <1>1, <1>2, <1>7, <1>8 DEF FillsFrame, NextOne, p

LEMMA EvictTakes ==
  ASSUME VmInv, Fault, RamFull, NEW i \in 1..numFrames, NEW newRam, NEW operation,
         Evict(ram[i], newRam, operation)
  PROVE  TakesFrame(ram[i])
<1> DEFINE p == Page
           v == ram[i]
           x == [pageTable[p] EXCEPT !.valid = TRUE, !.frame = pageTable[v].frame]
           y == processOperation(x, operation)
<1>1. p \in VPages /\ ~pageTable[p].valid /\ i \in 1..Len(ram)
  BY RamWhenFull DEF Fault
<1>2. v \in Resident /\ v \in VPages /\ pageTable[v].valid /\ v # p
  BY <1>1, ResidentFits DEF Resident
<1>3. /\ pageTable' = [pageTable EXCEPT ![p] = y, ![v] = PageTableEntry]
      /\ commandNum' = commandNum + 1 /\ pageFault' = pageFault + 1
      /\ UNCHANGED <<algorithm, trace, least>>
  BY DEF Evict, Evicted
<1>4. pageTable[p] \in VmEntry /\ pageTable[v] \in VmEntry
  BY <1>1, <1>2 DEF VmInv
<1> HIDE DEF p, v
<1>5. x \in VmEntry /\ x.valid = TRUE
  BY <1>4 DEF VmEntry
<1> HIDE DEF x
<1>6. y.valid = TRUE
  BY <1>5, Processed
<1> HIDE DEF y
<1>7. /\ pageTable'[p].valid = TRUE /\ pageTable'[v].valid = FALSE
      /\ \A q \in VPages \ {p, v} : pageTable'[q] = pageTable[q]
  BY <1>1, <1>2, <1>3, <1>6 DEF VmInv, PageTableEntry
<1>8. Resident' = (Resident \ {v}) \cup {p}
  BY <1>1, <1>2, <1>7 DEF Resident
<1>9. p \notin Resident
  BY <1>1 DEF Resident
<1>10. QED
  BY <1>2, <1>3, <1>8, <1>9 DEF TakesFrame, NextOne, p, v

LEMMA HandOnlyTurns ==
  ASSUME VmInv, ClockHand
  PROVE  HandTurns
<1> DEFINE p == Hand
           y == [pageTable[p] EXCEPT !.ref = FALSE]
<1>1. /\ Fault /\ RamFull /\ pageTable' = [pageTable EXCEPT ![p] = y]
      /\ UNCHANGED <<algorithm, trace, least, commandNum, pageFault, pageMap>>
  BY DEF ClockHand
<1>2. oldestIndex + 1 \in 1..Len(ram)
  BY <1>1, RamWhenFull, HandOnFrame
<1>3. p \in VPages
  BY <1>2, ResidentFits DEF Hand, Resident
<1>4. pageTable[p] \in VmEntry
  BY <1>3 DEF VmInv
<1> HIDE DEF p
<1>5. y.valid = pageTable[p].valid
  BY <1>4 DEF VmEntry
<1> HIDE DEF y
<1>6. QED
  BY <1>1, <1>3, <1>5, SameResident DEF HandTurns

\* Every step is one of these; the page that goes is the one its algorithm takes.
LEMMA VmSteps ==
  ASSUME VmInv, VmNext
  PROVE  \/ FindsPage \/ FillsFrame \/ HandTurns
         \/ \E v : TakesFrame(v) /\ algorithm # "opt"
         \/ TakesFrame(ram[Victim]) /\ \E operation : opt(operation)
<1>1. ASSUME NEW operation, fifo(operation) PROVE \E v : TakesFrame(v) /\ algorithm # "opt"
  <2>1. /\ algorithm = "fifo" /\ Fault /\ RamFull
        /\ Evict(Head(ram), Append(Tail(ram), Page), operation)
    BY <1>1 DEF fifo
  <2>2. ram \in Seq(VPages) /\ Len(ram) = numFrames /\ numFrames \in Nat \ {0}
    BY <2>1, RamWhenFull
  <2>3. Head(ram) = ram[1] /\ 1 \in 1..numFrames
    BY <2>2
  <2>4. TakesFrame(ram[1])
    BY <2>1, <2>3, EvictTakes
  <2>5. QED
    BY <2>1, <2>4
<1>2. ASSUME NEW operation, rand(operation) PROVE \E v : TakesFrame(v) /\ algorithm # "opt"
  <2>1. /\ algorithm = "rand" /\ Fault /\ RamFull
        /\ \E i \in DOMAIN ram : Evict(ram[i], [ram EXCEPT ![i] = Page], operation)
    BY <1>2 DEF rand
  <2>2. PICK i \in DOMAIN ram : Evict(ram[i], [ram EXCEPT ![i] = Page], operation)
    BY <2>1
  <2>3. i \in 1..numFrames
    BY <2>1, RamWhenFull
  <2>4. TakesFrame(ram[i])
    BY <2>1, <2>2, <2>3, EvictTakes
  <2>5. QED
    BY <2>1, <2>4
<1>3. ASSUME NEW operation, clock(operation) PROVE \E v : TakesFrame(v) /\ algorithm # "opt"
  <2>1. /\ algorithm = "clock" /\ Fault /\ RamFull
        /\ Evict(ram[oldestIndex + 1], [ram EXCEPT ![oldestIndex + 1] = Page], operation)
    BY <1>3 DEF clock, Hand
  <2>2. oldestIndex + 1 \in 1..numFrames
    BY HandOnFrame
  <2>3. TakesFrame(ram[oldestIndex + 1])
    BY <2>1, <2>2, EvictTakes
  <2>4. QED
    BY <2>1, <2>3
<1>4. ASSUME NEW operation, opt(operation) PROVE TakesFrame(ram[Victim])
  <2>1. Fault /\ RamFull /\ Evict(ram[Victim], [ram EXCEPT ![Victim] = Page], operation)
    BY <1>4 DEF opt
  <2>2. Victim \in 1..numFrames
    BY <2>1, VictimInRam
  <2>3. QED
    BY <2>1, <2>2, EvictTakes
<1>5. QED
  BY <1>1, <1>2, <1>3, <1>4, HitFinds, NoEvictionFills, HandOnlyTurns DEF VmNext

-----------------------------------------------------------------------------
\* Where the loop of opt stops.
LEMMA StopIs ==
  ASSUME VmInv, Fault, RamFull
  PROVE  /\ Stop \in 1..numFrames + 1
         /\ Stop <= numFrames => Future(ram[Stop]) = {}
         /\ \A i \in 1..numFrames : Future(ram[i]) = {} => Stop <= i
<1> DEFINE T == {numFrames + 1} \cup {i \in DOMAIN ram : Future(ram[i]) = {}}
<1>1. numFrames \in Nat \ {0} /\ DOMAIN ram = 1..numFrames
  BY RamWhenFull
<1>2. T \in SUBSET Nat /\ T # {}
  BY <1>1
<1>3. Min(T) \in T /\ \A y \in T : Min(T) <= y
  <2> HIDE DEF T
  <2>1. QED
    BY <1>2, LeastNumber
<1>4. Stop \in T /\ \A y \in T : Stop <= y
  <2>1. Stop = Min(T)
    BY DEF Stop
  <2> HIDE DEF T
  <2>2. QED
    BY <1>3, <2>1
<1>5. \A i \in 1..numFrames : Future(ram[i]) = {} => i \in T
  BY <1>1
<1>6. T \subseteq 1..numFrames + 1
  BY <1>1
<1>7. Stop \in 1..numFrames + 1
  BY <1>4, <1>6
<1>8. ASSUME Stop <= numFrames PROVE Future(ram[Stop]) = {}
  <2>1. Stop # numFrames + 1
    BY <1>1, <1>8
  <2>2. QED
    BY <1>4, <2>1
<1> HIDE DEF T
<1>9. QED
  BY <1>4, <1>5, <1>7, <1>8

\* With no page in memory whose accesses are all crossed out, the victim is the
\* page at which the loop stops, or the farthest of all.
LEMMA VictimIs ==
  ASSUME VmInv, MapsInv, algorithm = "opt", Fault, RamFull
  PROVE  /\ Victim \in 1..numFrames
         /\ Stop <= numFrames => Victim = Stop
         /\ Stop = numFrames + 1 =>
              /\ \A i \in 1..numFrames : Future(ram[i]) # {}
              /\ Victim = Farthest(1..numFrames)
<1>1. numFrames \in Nat \ {0} /\ Len(ram) = numFrames /\ Stop \in 1..numFrames + 1
  BY RamWhenFull, StopIs
<1>2. ASSUME Stop <= numFrames PROVE Victim = Stop
  <2>1. ram[Stop] \in Resident
    BY <1>1, <1>2, ResidentFits
  <2>2. pageMap[ram[Stop]] # {}
    BY <2>1 DEF MapsInv
  <2>3. QED
    BY <1>2, <2>2 DEF Victim
<1>3. ASSUME Stop = numFrames + 1
      PROVE  /\ \A i \in 1..numFrames : Future(ram[i]) # {}
             /\ Victim = Farthest(1..numFrames)
  <2>1. Stop # 1 /\ ~(Stop <= numFrames) /\ Stop - 1 = numFrames
    BY <1>1, <1>3
  <2>2. \A i \in 1..numFrames : ~(Stop <= i)
    BY <1>1, <1>3
  <2>3. QED
    BY <2>1, <2>2, StopIs DEF Victim
<1>4. QED
  BY <1>2, <1>3, VictimInRam

\* The map has exactly the accesses of a page that are to come.
LEMMA FutureIs ==
  ASSUME VmInv, MapsInv, algorithm = "opt", NEW p \in VPages
  PROVE  /\ \A i \in Future(p) : i \in commandNum+1..TraceLength /\ trace[i] = p
         /\ \A i \in commandNum+1..TraceLength : trace[i] = p => i \in Future(p)
         /\ Future(p) \in SUBSET Nat
<1>1. /\ trace \in [1..TraceLength -> VPages] /\ TraceLength \in Nat
      /\ commandNum \in 1..TraceLength + 1
  BY VmsimAssumption DEF VmInv
<1>2. /\ pageMap[p] \subseteq Occurrences(trace, p)
      /\ \A i \in Occurrences(trace, p) : i >= commandNum => i \in pageMap[p]
  BY DEF MapsInv
<1>3. \A i \in Future(p) : i \in pageMap[p] /\ i > commandNum
  BY DEF Future
<1>4. \A i \in Occurrences(trace, p) : i \in 1..TraceLength /\ trace[i] = p
  BY <1>1 DEF Occurrences
<1>5. \A i \in Future(p) : i \in commandNum+1..TraceLength /\ trace[i] = p
  BY <1>1, <1>2, <1>3, <1>4
<1>6. \A i \in commandNum+1..TraceLength : i \in 1..TraceLength /\ i >= commandNum /\ i > commandNum
  BY <1>1
<1>7. ASSUME NEW i \in commandNum+1..TraceLength, trace[i] = p PROVE i \in Future(p)
  <2>1. i \in Occurrences(trace, p)
    BY <1>1, <1>6, <1>7 DEF Occurrences
  <2>2. QED
    BY <1>2, <1>6, <2>1 DEF Future
<1>8. Future(p) \in SUBSET Nat
  BY <1>1, <1>5
<1>9. QED
  BY <1>5, <1>7, <1>8

\* opt: if the page that goes is used up to some access, all pages in memory are.
LEMMA FarthestGoes ==
  ASSUME VmInv, MapsInv, algorithm = "opt", Fault, RamFull, NEW m \in commandNum..TraceLength,
         ram[Victim] \in Used(trace, commandNum + 1, m)
  PROVE  Resident \subseteq Used(trace, commandNum + 1, m)
<1> DEFINE n == commandNum
           g(i) == Min(Future(ram[i]))
<1>1. /\ TraceLength \in Nat /\ n \in Nat /\ numFrames \in Nat \ {0} /\ Len(ram) = numFrames
      /\ m \in Nat /\ m <= TraceLength
  BY RamWhenFull, VmsimAssumption DEF VmInv
<1>2. \A i \in 1..numFrames : ram[i] \in VPages
  BY <1>1, ResidentFits DEF Resident
<1>3. Victim \in 1..numFrames
  BY VictimInRam
<1>4. PICK k \in n+1..m : trace[k] = ram[Victim]
  BY DEF Used
<1>5. k \in n+1..TraceLength
  BY <1>1, <1>4
<1>6. k \in Future(ram[Victim])
  BY <1>2, <1>3, <1>4, <1>5, FutureIs
<1>7. Stop = numFrames + 1
  <2>1. ~(Stop <= numFrames)
    BY <1>6, VictimIs, StopIs
  <2>2. Stop \in 1..numFrames + 1
    BY StopIs
  <2>3. QED
    BY <1>1, <2>1, <2>2
<1>8. /\ \A i \in 1..numFrames : Future(ram[i]) # {}
      /\ Victim = Farthest(1..numFrames)
  BY <1>7, VictimIs
<1>9. \A i \in 1..numFrames : g(i) \in Future(ram[i]) /\ \A y \in Future(ram[i]) : g(i) <= y
  <2>1. ASSUME NEW i \in 1..numFrames
        PROVE  g(i) \in Future(ram[i]) /\ \A y \in Future(ram[i]) : g(i) <= y
    <3>1. Future(ram[i]) \in SUBSET Nat /\ Future(ram[i]) # {}
      BY <1>2, <1>8, FutureIs
    <3>2. QED
      BY <3>1, LeastNumber
  <2>2. QED
    BY <2>1
<1>10. \A j \in 1..numFrames : g(Victim) >= g(j)
  <2>1. \E i \in 1..numFrames : \A j \in 1..numFrames : g(i) >= g(j)
    <3>1. numFrames \in 1..numFrames /\ numFrames \in 1..Len(ram)
      BY <1>1
    <3>2. QED
      BY <1>8, <3>1, FarthestExists
  <2>2. Victim = CHOOSE i \in 1..numFrames : \A j \in 1..numFrames : g(i) >= g(j)
    BY <1>8 DEF Farthest
  <2> HIDE DEF g
  <2>3. QED
    BY <2>1, <2>2
<1>11. ASSUME NEW p \in Resident PROVE p \in Used(trace, n + 1, m)
  <2>1. PICK j \in 1..numFrames : ram[j] = p
    BY <1>1, ResidentFits
  <2>2. g(j) \in Future(p) /\ g(Victim) <= k /\ g(j) <= g(Victim)
    <3>1. g(Victim) \in Nat /\ g(j) \in Nat
      <4>1. /\ Future(ram[Victim]) \in SUBSET Nat /\ Future(ram[j]) \in SUBSET Nat
        BY <1>2, <1>3, FutureIs
      <4>2. QED
        BY <1>3, <1>9, <4>1
    <3>2. g(Victim) <= k /\ g(Victim) >= g(j)
      BY <1>3, <1>6, <1>9, <1>10
    <3>3. QED
      BY <1>9, <2>1, <3>1, <3>2
  <2> DEFINE x == g(j)
  <2>3. x \in n+1..TraceLength /\ trace[x] = p
    BY <1>2, <2>1, <2>2, FutureIs
  <2> HIDE DEF x
  <2>4. x <= k
    <3>1. g(Victim) \in Int
      BY <1>2, <1>3, <1>9, FutureIs
    <3>2. x <= g(Victim) /\ g(Victim) <= k
      BY <2>2 DEF x
    <3> DEFINE y == g(Victim)
    <3> HIDE DEF y
    <3>3. y \in Int /\ x <= y /\ y <= k
      BY <3>1, <3>2 DEF y
    <3>4. QED
      BY <1>1, <1>4, <2>3, <3>3
  <2>5. x \in n+1..m
    BY <1>1, <1>4, <2>3, <2>4
  <2>6. QED
    BY <2>3, <2>5 DEF Used
<1>12. QED
  BY <1>11

\* opt chooses so that no memory gets ahead.
LEMMA OptChooses ==
  ASSUME VmInv, MapsInv, algorithm = "opt", TakesFrame(ram[Victim]), NEW m \in commandNum..TraceLength
  PROVE  \A Q : Q = (Resident \ {ram[Victim]}) \cup {Page} =>
           Chosen(Page, Resident, Q, Used(trace, commandNum + 1, m))
<1> DEFINE W == Used(trace, commandNum + 1, m)
           v == ram[Victim]
<1> SUFFICES ASSUME NEW Q, Q = (Resident \ {v}) \cup {Page} PROVE Chosen(Page, Resident, Q, W)
  OBVIOUS
<1>1. Fault /\ RamFull /\ Page \notin Resident /\ v \in Resident
  BY DEF TakesFrame
<1>2. /\ numFrames \in Nat /\ Cardinality(Resident) = numFrames /\ Resident \in Memories
      /\ IsFiniteSet(Resident)
  BY <1>1, RamWhenFull, ResidentFits, MemoryIsFinite DEF VmInv, RamInv
<1>3. v \in W => Resident \subseteq W
  BY <1>1, FarthestGoes
<1> HIDE DEF W, v
<1>4. CASE v \notin W
  BY <1>1, <1>2, <1>4, InUseKept DEF Chosen
<1>5. CASE v \in W
  <2>1. ASSUME NEW S \in Memories, Page \in S
        PROVE  InUse(Q, W) \in Nat /\ InUse(S, W) \in Nat /\ InUse(S, W) <= InUse(Q, W)
    <3>1. IsFiniteSet(S) /\ Cardinality(S) <= numFrames
      BY MemoryIsFinite
    <3>2. Resident \subseteq W
      BY <1>3, <1>5
    <3>3. QED
      BY <1>1, <1>2, <2>1, <3>1, <3>2, InUseFull
  <2>2. QED
    BY <2>1 DEF Chosen
<1>6. QED
  BY <1>4, <1>5

\* Every step keeps the map of opt in order.
LEMMA MapsStep ==
  ASSUME VmInv, MapsInv, VmNext
  PROVE  MapsInv'
<1> SUFFICES ASSUME algorithm' = "opt"
             PROVE  /\ \A p \in VPages : /\ pageMap'[p] \subseteq Occurrences(trace', p)
                                         /\ \A i \in Occurrences(trace', p) : i >= commandNum' => i \in pageMap'[p]
                    /\ \A p \in Resident' : pageMap'[p] # {}
  BY DEF MapsInv
<1>1. algorithm' = algorithm /\ trace' = trace
  BY VmSteps DEF FindsPage, FillsFrame, HandTurns, TakesFrame, NextOne
<1>2. /\ \A p \in VPages : /\ pageMap[p] \subseteq Occurrences(trace, p)
                           /\ \A i \in Occurrences(trace, p) : i >= commandNum => i \in pageMap[p]
      /\ \A p \in Resident : pageMap[p] # {} /\ p \in VPages
  BY <1>1 DEF MapsInv, Resident
<1>3. /\ trace \in [1..TraceLength -> VPages] /\ TraceLength \in Nat
      /\ commandNum \in Nat
      /\ \A p \in VPages : Occurrences(trace, p) \subseteq Nat
  BY VmsimAssumption DEF VmInv, Occurrences
<1>4. ASSUME More PROVE Page \in VPages /\ commandNum \in pageMap[Page]
  <2>1. Page \in VPages /\ commandNum \in 1..TraceLength
    <3>1. Len(trace) = TraceLength
      BY <1>3
    <3>2. commandNum \in 1..TraceLength
      BY <1>4, <3>1, VmsimAssumption DEF VmInv, More
    <3>3. QED
      BY <1>4, <3>2, NextAccess
  <2>2. commandNum \in Occurrences(trace, Page)
    BY <1>3, <2>1 DEF Occurrences, Page
  <2>3. QED
    BY <1>2, <1>3, <2>1, <2>2
<1>5. CASE FindsPage \/ HandTurns
  <2>1. /\ pageMap' = pageMap /\ Resident' = Resident
        /\ commandNum' = commandNum \/ commandNum' = commandNum + 1
    BY <1>5 DEF FindsPage, HandTurns, NextOne
  <2>2. \A p \in VPages : \A i \in Occurrences(trace, p) : i >= commandNum' => i \in pageMap[p]
    BY <1>2, <1>3, <2>1
  <2>3. QED
    BY <1>1, <1>2, <2>1, <2>2
<1>6. CASE FillsFrame
  <2>1. /\ pageMap' = pageMap /\ Resident' = Resident \cup {Page} /\ commandNum' = commandNum + 1 /\ More
    BY <1>6 DEF FillsFrame, NextOne, Fault
  <2>2. \A p \in VPages : \A i \in Occurrences(trace, p) : i >= commandNum' => i \in pageMap[p]
    BY <1>2, <1>3, <2>1
  <2>3. pageMap[Page] # {}
    BY <1>4, <2>1
  <2>4. QED
    BY <1>1, <1>2, <2>1, <2>2, <2>3
<1>7. CASE TakesFrame(ram[Victim]) /\ \E operation : opt(operation)
  <2>1. /\ Resident' = (Resident \ {ram[Victim]}) \cup {Page} /\ commandNum' = commandNum + 1
        /\ Page \notin Resident /\ More /\ Fault /\ RamFull
    BY <1>7 DEF TakesFrame, NextOne, Fault
  <2> DEFINE k == Min({Stop, numFrames})
             seen(p) == \E i \in 1..k : ram[i] = p
  <2>2. pageMap' = [p \in VPages |-> IF seen(p) THEN Future(p) ELSE pageMap[p]]
    BY <1>7 DEF opt
  <2>3. \A p \in VPages : Future(p) = {i \in pageMap[p] : i > commandNum}
    BY DEF Future
  <2>4. /\ numFrames \in Nat \ {0} /\ Len(ram) = numFrames /\ Stop \in 1..numFrames + 1
        /\ k \in 1..numFrames /\ k <= Stop
    <3>1. numFrames \in Nat \ {0} /\ Len(ram) = numFrames /\ Stop \in 1..numFrames + 1
      BY <2>1, RamWhenFull, StopIs
    <3>2. {Stop, numFrames} \in SUBSET Nat /\ {Stop, numFrames} # {}
      BY <3>1
    <3>3. k \in {Stop, numFrames} /\ \A y \in {Stop, numFrames} : k <= y
      BY <3>2, LeastNumber
    <3> HIDE DEF k
    <3>4. QED
      BY <3>1, <3>3
  <2> HIDE DEF k
  <2>5. \A p \in VPages : pageMap'[p] \subseteq pageMap[p]
    <3> HIDE DEF seen
    <3>1. QED
      BY <2>2, <2>3
  <2>6. \A p \in VPages : \A i \in Occurrences(trace, p) : i >= commandNum' => i \in pageMap'[p]
    <3>1. ASSUME NEW p \in VPages, NEW i \in Occurrences(trace, p), i >= commandNum'
          PROVE  i \in pageMap'[p]
      <4>1. i \in Nat /\ i > commandNum /\ i >= commandNum
        BY <1>3, <2>1, <3>1
      <4>2. i \in pageMap[p] /\ i \in Future(p)
        BY <1>2, <2>3, <4>1
      <4> HIDE DEF seen
      <4>3. QED
        BY <2>2, <4>2
    <3>2. QED
      BY <3>1
  <2>7. ASSUME NEW p \in Resident' PROVE pageMap'[p] # {}
    <3>1. CASE p = Page
      <4>1. ~seen(p)
        BY <2>1, <2>4, <3>1, ResidentFits
      <4>2. pageMap'[p] = pageMap[p]
        <5> HIDE DEF seen
        <5>1. QED
          BY <1>4, <2>1, <2>2, <3>1, <4>1
      <4>3. QED
        BY <1>4, <2>1, <3>1, <4>2
    <3>2. CASE p # Page
      <4>1. p \in Resident /\ p # ram[Victim] /\ p \in VPages /\ pageMap[p] # {}
        BY <1>2, <2>1, <2>7, <3>2
      <4>2. CASE ~seen(p)
        <5> HIDE DEF seen
        <5>1. QED
          BY <2>2, <4>1, <4>2
      <4>3. CASE seen(p)
        <5>1. PICK i \in 1..k : ram[i] = p
          BY <4>3
        <5>2. Stop # i
          <6>1. ASSUME Stop = i PROVE FALSE
            <7>1. Stop <= numFrames
              BY <2>4, <5>1, <6>1
            <7>2. Victim = Stop
              BY <1>1, <2>1, <7>1, VictimIs
            <7>3. QED
              BY <4>1, <5>1, <6>1, <7>2
          <6>2. QED
            BY <6>1
        <5>3. i \in 1..numFrames /\ ~(Stop <= i)
          BY <2>4, <5>1, <5>2
        <5>4. Future(p) # {}
          BY <2>1, <5>1, <5>3, StopIs
        <5> HIDE DEF seen
        <5>5. QED
          BY <2>2, <4>1, <4>3, <5>4
      <4>4. QED
        BY <4>2, <4>3
    <3>3. QED
      BY <3>1, <3>2
  <2>8. QED
    BY <1>1, <1>2, <2>5, <2>6, <2>7
<1>8. QED
  BY <1>1, <1>5, <1>6, <1>7, VmSteps

\* Every step keeps the count of the faults between its bounds.
LEMMA FaultsStep ==
  ASSUME VmInv, MapsInv, FaultsInv, VmNext
  PROVE  FaultsInv'
<1> DEFINE n == commandNum
           f == pageFault
           P == Resident
<1>1. /\ algorithm' = algorithm /\ trace' = trace /\ least' = least /\ least = LeastFaults(trace)
  BY VmSteps DEF FindsPage, FillsFrame, HandTurns, TakesFrame, NextOne, FaultsInv
<1>2. f \in 0..n - 1 /\ n \in Nat /\ f \in Nat
  <2>1. n \in 1..TraceLength + 1 /\ TraceLength \in Nat
    BY VmsimAssumption DEF VmInv
  <2>2. f \in 0..n - 1
    BY DEF FaultsInv
  <2>3. QED
    BY <2>1, <2>2
<1>3. VmInv' /\ P \in Memories /\ P' \in Memories
  <2>1. VmInv'
    BY VmStep
  <2>2. P \in Memories
    BY ResidentFits
  <2>3. P' \in Memories
    <3>1. Cardinality(Resident') = Len(ram') /\ Len(ram') = pageSoFar' /\ pageSoFar' \in 0..numFrames
      BY <2>1 DEF VmInv, RamInv, TableMatchesRam
    <3>2. Resident' \subseteq VPages /\ numFrames \in Nat
      BY VmsimAssumption DEF Resident
    <3>3. QED
      BY <3>1, <3>2 DEF Memories
  <2>4. QED
    BY <2>1, <2>2, <2>3
<1>4. ASSUME More PROVE n \in 1..TraceLength
  <2>1. trace \in [1..TraceLength -> VPages] /\ TraceLength \in Nat /\ n \in 1..TraceLength + 1
    BY VmsimAssumption DEF VmInv
  <2>2. Len(trace) = TraceLength
    BY <2>1
  <2>3. QED
    BY <1>4, <2>1, <2>2 DEF More
<1>5. ASSUME NEW B, Fewest(trace, B, TraceLength)
      PROVE  B[n - 1][P] <= f /\ (algorithm = "opt" => Ahead(trace, B, n, f, P))
  BY <1>5 DEF FaultsInv
<1>6. CASE HandTurns
  <2>1. n' = n /\ f' = f /\ P' = P
    BY <1>6 DEF HandTurns
  <2>2. QED
    BY <1>1, <2>1 DEF FaultsInv
<1>7. CASE FindsPage
  <2>1. n' = n + 1 /\ f' = f /\ P' = P /\ Page \in P /\ n \in 1..TraceLength /\ n + 1 - 1 = n
    BY <1>2, <1>4, <1>7 DEF FindsPage, NextOne
  <2>2. ASSUME NEW B, Fewest(trace, B, TraceLength)
        PROVE  /\ B[n][P] <= f
               /\ algorithm = "opt" => Ahead(trace, B, n + 1, f, P)
    <3>1. trace[n] \in P
      BY <2>1 DEF Page
    <3>2. B[n][P] <= f
      BY <1>2, <1>3, <1>5, <2>1, <2>2, <3>1, FewestGrows
    <3>3. ASSUME algorithm = "opt" PROVE Ahead(trace, B, n + 1, f, P)
      BY <1>2, <1>3, <1>5, <2>1, <2>2, <3>1, <3>3, HitStaysAhead
    <3>4. QED
      BY <3>2, <3>3
  <2>3. f' \in 0..n' - 1
    BY <1>2, <2>1
  <2>4. QED
    BY <1>1, <2>1, <2>2, <2>3 DEF FaultsInv
<1>8. ASSUME More, n' = n + 1, f' = f + 1, Page \notin P, P' \ {Page} \subseteq P, Page \in P',
             algorithm = "opt" => \A m \in n..TraceLength : Chosen(Page, P, P', Used(trace, n + 1, m))
      PROVE  FaultsInv'
  <2>1. n \in 1..TraceLength /\ n + 1 - 1 = n
    BY <1>2, <1>4, <1>8
  <2>2. PICK Q : Q = P'
    OBVIOUS
  <2>3. ASSUME NEW B, Fewest(trace, B, TraceLength)
        PROVE  /\ B[n][Q] <= f + 1
               /\ algorithm = "opt" => Ahead(trace, B, n + 1, f + 1, Q)
    <3>1. /\ trace[n] \notin P /\ trace[n] \in Q /\ Q \ {trace[n]} \subseteq P /\ Q \in Memories
          /\ algorithm = "opt" => \A m \in n..TraceLength : Chosen(trace[n], P, Q, Used(trace, n + 1, m))
      BY <1>3, <1>8, <2>2 DEF Page
    <3>2. B[n][Q] <= f + 1
      BY <1>2, <1>3, <1>5, <2>1, <2>3, <3>1, FewestGrows
    <3>3. ASSUME algorithm = "opt" PROVE Ahead(trace, B, n + 1, f + 1, Q)
      BY <1>2, <1>3, <1>5, <2>1, <2>3, <3>1, <3>3, FaultStaysAhead
    <3>4. QED
      BY <3>2, <3>3
  <2>4. f' \in 0..n' - 1
    BY <1>2, <1>8
  <2>5. QED
    BY <1>1, <1>8, <2>1, <2>2, <2>3, <2>4 DEF FaultsInv
<1>9. CASE FillsFrame
  <2>1. /\ More /\ n' = n + 1 /\ f' = f + 1 /\ Page \notin P /\ P' = P \cup {Page}
    BY <1>9 DEF FillsFrame, NextOne, Fault
  <2>2. ASSUME NEW m \in n..TraceLength PROVE Chosen(Page, P, P \cup {Page}, Used(trace, n + 1, m))
    <3> DEFINE W == Used(trace, n + 1, m)
    <3>1. PICK v : v \notin W \cup P
      BY NoSetContainsEverything
    <3>2. v \notin W /\ v \notin P
      BY <3>1
    <3>3. P \cup {Page} = (P \ {v}) \cup {Page} /\ IsFiniteSet(P)
      BY <1>3, <3>2, MemoryIsFinite
    <3> HIDE DEF W
    <3>4. QED
      BY <2>1, <3>2, <3>3, InUseKept DEF Chosen, W
  <2>3. QED
    BY <1>8, <2>1, <2>2
<1>10. ASSUME NEW v, TakesFrame(v), algorithm = "opt" => v = ram[Victim] PROVE FaultsInv'
  <2>1. /\ More /\ n' = n + 1 /\ f' = f + 1 /\ Page \notin P /\ P' = (P \ {v}) \cup {Page}
    BY <1>10 DEF TakesFrame, NextOne, Fault
  <2>2. algorithm = "opt" => \A m \in n..TraceLength : Chosen(Page, P, (P \ {v}) \cup {Page}, Used(trace, n + 1, m))
    BY <1>10, OptChooses
  <2>3. QED
    BY <1>8, <2>1, <2>2
<1>11. QED
  BY <1>6, <1>7, <1>9, <1>10, VmSteps

\* At the start nothing is in memory, and a memory that is not empty cannot be.
LEMMA OptInitInv == VmInit => OptInv
<1> SUFFICES ASSUME VmInit PROVE OptInv
  OBVIOUS
<1>1. VmInv
  BY VmInitInv
<1>2. PICK name, s : VmStart(name, s)
  BY DEF VmInit
<1>3. /\ commandNum = 1 /\ pageFault = 0 /\ least = LeastFaults(trace)
      /\ \A p \in VPages : pageTable[p] = PageTableEntry
      /\ algorithm = "opt" => pageMap = [p \in VPages |-> Occurrences(trace, p)]
  BY <1>2 DEF VmStart
<1>4. Resident = {}
  BY <1>3 DEF Resident, PageTableEntry
<1>5. MapsInv
  BY <1>3, <1>4 DEF MapsInv
<1>6. ASSUME NEW B, Fewest(trace, B, TraceLength)
      PROVE  B[0][{}] <= 0 /\ Ahead(trace, B, 1, 0, {})
  <2>1. B[0] = [S \in Memories |-> IF S = {} THEN 0 ELSE TraceLength + 1]
    BY <1>6 DEF Fewest
  <2>2. B[0][{}] = 0 /\ \A S \in Memories : S # {} => B[0][S] = TraceLength + 1
    BY <2>1, FirstCounts
  <2>3. ASSUME NEW S \in Memories, NEW W
        PROVE  B[0][S] > TraceLength \/ 0 + InUse(S, W) <= B[0][S] + InUse({}, W)
    <3>1. CASE S = {}
      <4>1. {} \cap W = {}
        OBVIOUS
      <4>2. InUse({}, W) = 0
        BY <4>1, FS_EmptySet DEF InUse
      <4>3. QED
        BY <2>2, <3>1, <4>2
    <3>2. CASE S # {}
      BY <2>2, <3>2, VmsimAssumption
    <3>3. QED
      BY <3>1, <3>2
  <2>4. QED
    BY <2>2, <2>3 DEF Ahead
<1>7. FaultsInv
  BY <1>3, <1>4, <1>6 DEF FaultsInv
<1>8. QED
  BY <1>1, <1>5, <1>7 DEF OptInv

LEMMA OptStep == OptInv /\ [VmNext]_vmVars => OptInv'
<1> SUFFICES ASSUME OptInv, [VmNext]_vmVars PROVE OptInv'
  OBVIOUS
<1>1. VmInv /\ MapsInv /\ FaultsInv /\ VmInv'
  BY VmStep DEF OptInv
<1>2. CASE VmNext
  BY <1>1, <1>2, MapsStep, FaultsStep DEF OptInv
<1>3. CASE UNCHANGED vmVars
  <2>1. /\ trace' = trace /\ commandNum' = commandNum /\ Resident' = Resident /\ pageMap' = pageMap
        /\ algorithm' = algorithm /\ pageFault' = pageFault /\ least' = least
    BY <1>3 DEF vmVars, Resident
  <2>2. MapsInv' /\ FaultsInv'
    BY <1>1, <2>1 DEF MapsInv, FaultsInv
  <2>3. QED
    BY <1>1, <2>2 DEF OptInv
<1>4. QED
  BY <1>2, <1>3

\* What Ahead says of one memory and one access.
LEMMA AheadOf ==
  ASSUME NEW s, NEW B, NEW n, NEW f, NEW P, Ahead(s, B, n, f, P),
         NEW S \in Memories, NEW m \in n-1..TraceLength
  PROVE  \/ B[n - 1][S] > TraceLength
         \/ f + InUse(S, Used(s, n, m)) <= B[n - 1][S] + InUse(P, Used(s, n, m))
BY DEF Ahead

\* At the end of the trace no page will be used, so to be ahead is to have had
\* fewer faults.
LEMMA EndOfTrace == OptInv => OptIsOptimal
<1> SUFFICES ASSUME OptInv, ~More
             PROVE  IF algorithm = "opt" THEN pageFault = least ELSE pageFault >= least
  BY DEF OptIsOptimal
<1> DEFINE T == TraceLength
           P == Resident
<1>1. VmInv /\ FaultsInv /\ P \in Memories
  BY ResidentFits DEF OptInv
<1>2. T \in Nat /\ commandNum = T + 1 /\ commandNum - 1 = T
  <2>1. trace \in [1..T -> VPages] /\ T \in Nat /\ commandNum \in 1..T + 1
    BY <1>1, VmsimAssumption DEF VmInv
  <2>2. Len(trace) = T
    BY <2>1
  <2>3. QED
    BY <2>1, <2>2 DEF More
<1>3. PICK B : Fewest(trace, B, T) /\ LeastFaults(trace) = Min({B[T][S] : S \in Memories})
  BY LeastFaultsIs
<1>4. B[T] \in [Memories -> Nat]
  <2>1. T \in 0..T
    BY <1>2
  <2>2. QED
    BY <1>3, <2>1 DEF Fewest
<1>5. /\ pageFault \in 0..T /\ least = Min({B[T][S] : S \in Memories})
      /\ B[T][P] <= pageFault
      /\ algorithm = "opt" => Ahead(trace, B, T + 1, pageFault, P)
  BY <1>1, <1>2, <1>3 DEF FaultsInv
<1> DEFINE all == {B[T][S] : S \in Memories}
<1>6. least \in all /\ \A y \in all : least <= y
  <2>1. all \in SUBSET Nat /\ all # {}
    BY <1>1, <1>4
  <2>2. least = Min(all)
    BY <1>5
  <2> HIDE DEF all
  <2>3. QED
    BY <2>1, <2>2, LeastNumber
<1>7. least <= pageFault /\ least \in Nat
  <2>1. B[T][P] \in all /\ B[T][P] \in Nat /\ all \subseteq Nat
    BY <1>1, <1>4
  <2> HIDE DEF all
  <2>2. QED
    BY <1>5, <1>6, <2>1
<1>8. ASSUME algorithm = "opt" PROVE pageFault <= least
  <2>1. PICK S \in Memories : least = B[T][S]
    BY <1>6
  <2>2. Used(trace, T + 1, T) = {}
    <3>1. (T + 1)..T = {}
      BY <1>2
    <3>2. QED
      BY <3>1 DEF Used
  <2>3. \A X : InUse(X, {}) = 0
    <3>1. \A X : X \cap {} = {}
      OBVIOUS
    <3>2. QED
      BY <3>1, FS_EmptySet DEF InUse
  <2>4. T + 1 - 1 = T /\ T \in T + 1 - 1..T
    BY <1>2
  <2>5. B[T][S] > T \/ pageFault + InUse(S, {}) <= B[T][S] + InUse(P, {})
    <3> DEFINE W == Used(trace, T + 1, T)
               b == B[T + 1 - 1][S]
    <3>1. b > T \/ pageFault + InUse(S, W) <= b + InUse(P, W)
      BY <1>5, <1>8, <2>4, AheadOf
    <3>2. b = B[T][S] /\ W = {}
      BY <2>2, <2>4
    <3> HIDE DEF b, W
    <3>3. QED
      BY <3>1, <3>2
  <2>6. QED
    BY <1>2, <1>5, <1>7, <2>1, <2>3, <2>5
<1>9. QED
  BY <1>5, <1>7, <1>8

\* vmsim.java, for every trace, every number of pages and frames: opt, which
\* finds the farthest page with a map that it crosses accesses out of, ends
\* with the fewest faults that any choice of victims has, and fifo, clock and
\* rand end with no fewer.
THEOREM OptHasFewestFaults == VmSpec => []OptIsOptimal
<1>1. QED
  BY OptInitInv, OptStep, EndOfTrace, PTL DEF VmSpec

-----------------------------------------------------------------------------
\* The powers of two, as the numbers of subsets.
LEMMA PowerCounts ==
  ASSUME NEW n \in Nat
  PROVE  IsFiniteSet(SUBSET (1..n)) /\ Cardinality(SUBSET (1..n)) = 2^n /\ 2^n \in Nat
<1>1. 1 \in Int /\ n \in Int
  OBVIOUS
<1>2. IsFiniteSet(1..n) /\ Cardinality(1..n) = n
  <2>1. Cardinality(1..n) = IF 1 > n THEN 0 ELSE n - 1 + 1
    BY <1>1, FS_Interval
  <2>2. QED
    BY <1>1, <2>1, FS_Interval
<1>3. Cardinality(SUBSET (1..n)) = 2^Cardinality(1..n) /\ IsFiniteSet(SUBSET (1..n))
  BY <1>2, FS_SUBSET
<1>4. Cardinality(SUBSET (1..n)) \in Nat
  BY <1>3, FS_CardinalityType
<1>5. QED
  BY <1>2, <1>3, <1>4

LEMMA PowerDoubles ==
  ASSUME NEW n \in Nat
  PROVE  2^(n + 1) = 2^n + 2^n
<1> DEFINE P == SUBSET (1..n)
           Q == {s \cup {n + 1} : s \in P}
           f == [s \in P |-> s \cup {n + 1}]
<1>1. IsFiniteSet(P) /\ Cardinality(P) = 2^n /\ 2^n \in Nat
  BY PowerCounts
<1>2. n + 1 \in Nat /\ n + 1 \notin 1..n /\ 1..n + 1 = (1..n) \cup {n + 1}
  OBVIOUS
<1>3. SUBSET (1..n + 1) = P \cup Q
  <2>1. ASSUME NEW s \in SUBSET (1..n + 1) PROVE s \in P \cup Q
    <3>1. CASE n + 1 \in s
      <4>1. s \ {n + 1} \in P /\ s = (s \ {n + 1}) \cup {n + 1}
        BY <1>2, <3>1
      <4>2. QED
        BY <4>1
    <3>2. CASE n + 1 \notin s
      BY <1>2, <3>2
    <3>3. QED
      BY <3>1, <3>2
  <2>2. ASSUME NEW s \in P \cup Q PROVE s \in SUBSET (1..n + 1)
    BY <1>2
  <2>3. QED
    BY <2>1, <2>2
<1>4. P \cap Q = {}
  BY <1>2
<1>5. f \in Bijection(P, Q)
  <2>1. f \in [P -> Q] /\ \A q \in Q : \E s \in P : f[s] = q
    OBVIOUS
  <2>2. ASSUME NEW s \in P, NEW r \in P, f[s] = f[r] PROVE s = r
    <3>1. s \cup {n + 1} = r \cup {n + 1} /\ n + 1 \notin s /\ n + 1 \notin r
      BY <1>2, <2>2
    <3>2. QED
      BY <3>1
  <2>3. \A s, r \in P : f[s] = f[r] => s = r
    BY <2>2
  <2> HIDE DEF f, P, Q
  <2>4. QED
    BY <2>1, <2>3 DEF Bijection, Injection, IsInjective, Surjection
<1> HIDE DEF f, P, Q
<1>6. IsFiniteSet(Q) /\ Cardinality(Q) = 2^n
  <2>1. ExistsBijection(P, Q)
    BY <1>5 DEF ExistsBijection
  <2>2. QED
    BY <1>1, <2>1, FS_Bijection
<1>7. Cardinality(P \cup Q) = 2^n + 2^n
  <2>1. Cardinality(P \cup Q) = Cardinality(P) + Cardinality(Q) - Cardinality(P \cap Q)
    BY <1>1, <1>6, FS_Union
  <2>2. Cardinality(P \cap Q) = 0
    BY <1>4, FS_EmptySet
  <2>3. QED
    BY <1>1, <1>6, <2>1, <2>2
<1>8. Cardinality(SUBSET (1..n + 1)) = 2^(n + 1)
  BY <1>2, PowerCounts
<1>9. QED
  BY <1>3, <1>7, <1>8

\* They grow.
LEMMA PowerGrows ==
  ASSUME NEW m \in Nat, NEW n \in Nat, m < n
  PROVE  2^m >= 1 /\ 2^m < 2^n
<1>1. \A k \in Nat : 2^k \in Nat /\ 2^(k + 1) = 2^k + 2^k
  BY PowerCounts, PowerDoubles
<1>2. \A k \in Nat : 2^k >= 1
  <2> DEFINE bad == {k \in Nat : ~(2^k >= 1)}
  <2> SUFFICES ASSUME bad # {} PROVE FALSE
    OBVIOUS
  <2>1. PICK k \in bad : \A y \in bad : k <= y
    <3>1. bad \in SUBSET Nat
      OBVIOUS
    <3> HIDE DEF bad
    <3>2. QED
      BY <3>1, Least
  <2>2. k # 0
    <3>1. 2^0 >= 1
      OBVIOUS
    <3>2. ~(2^k >= 1)
      BY <2>1
    <3>3. QED
      BY <3>1, <3>2
  <2>3. k - 1 \in Nat /\ 2^(k - 1) >= 1 /\ (k - 1) + 1 = k
    BY <2>1, <2>2
  <2>4. 2^k = 2^(k - 1) + 2^(k - 1) /\ 2^(k - 1) \in Nat
    BY <1>1, <2>3
  <2>5. QED
    BY <2>1, <2>3, <2>4
<1>3. 2^m < 2^n
  <2> DEFINE bad == {k \in Nat : m < k /\ ~(2^m < 2^k)}
  <2> SUFFICES ASSUME bad # {} PROVE FALSE
    OBVIOUS
  <2>1. PICK k \in bad : \A y \in bad : k <= y
    <3>1. bad \in SUBSET Nat
      OBVIOUS
    <3> HIDE DEF bad
    <3>2. QED
      BY <3>1, Least
  <2>2. k - 1 \in Nat /\ (k - 1) + 1 = k /\ (k - 1 = m \/ m < k - 1) /\ k - 1 \notin bad
    BY <2>1
  <2>3. 2^k = 2^(k - 1) + 2^(k - 1) /\ 2^(k - 1) \in Nat /\ 2^(k - 1) >= 1 /\ 2^m \in Nat
    BY <1>1, <1>2, <2>2
  <2>4. 2^m <= 2^(k - 1)
    BY <2>2, <2>3
  <2>5. QED
    BY <2>1, <2>3, <2>4
<1>4. QED
  BY <1>2, <1>3

-----------------------------------------------------------------------------
\* The sizes of the machine, as numbers.
LEMMA SizesArePositive ==
  /\ LONG \in Nat \ {0} /\ INT \in Nat \ {0} /\ PAGE_SIZE \in Nat \ {0}
  /\ INT < LONG
BY PowerGrows, PowerCounts, SysinfoAssumption DEF LONG, INT, PAGE_SIZE

\* What % and \div do to numbers that fit.
LEMMA Fits ==
  ASSUME NEW n \in Nat \ {0}, NEW x \in Nat
  PROVE  x < n => x % n = x /\ (x + x) % n = IF x + x < n THEN x + x ELSE x + x - n
OBVIOUS

LEMMA DivBack ==
  ASSUME NEW k \in Nat \ {0}, NEW x \in Nat
  PROVE  (x * k) \div k = x
OBVIOUS

\* No doubling wraps if none comes out smaller than before.
LEMMA NoDoublingWraps ==
  ASSUME NEW x \in 0..LONG - 1, \A n \in 1..PAGE_BITS : ~(Shl(x, n) < Shl(x, n - 1))
  PROVE  x * PAGE_SIZE < LONG
<1>1. LONG \in Nat \ {0} /\ x \in Nat /\ x < LONG /\ PAGE_BITS \in Nat
  BY SizesArePositive, SysinfoAssumption
<1> DEFINE bad == {n \in Nat : n <= PAGE_BITS /\ ~(x * 2^n < LONG)}
<1>2. bad = {}
  <2> SUFFICES ASSUME bad # {} PROVE FALSE
    OBVIOUS
  <2>1. PICK k \in bad : \A y \in bad : k <= y
    <3>1. bad \in SUBSET Nat
      OBVIOUS
    <3> HIDE DEF bad
    <3>2. QED
      BY <3>1, Least
  <2>2. k # 0
    <3>1. x * 2^0 = x /\ ~(x * 2^k < LONG)
      BY <1>1, <2>1
    <3>2. QED
      BY <1>1, <3>1
  <2>3. k \in 1..PAGE_BITS /\ k - 1 \in Nat /\ (k - 1) + 1 = k /\ k - 1 \notin bad
    BY <1>1, <2>1, <2>2
  <2>4. PICK a \in Nat : a = 2^(k - 1)
    BY <2>3, PowerCounts
  <2>5. 2^k = a + a
    BY <2>3, <2>4, PowerDoubles
  <2>6. PICK z \in Nat : z = x * a
    BY <1>1
  <2>7. x * 2^k = z + z /\ z < LONG
    <3>1. x * (a + a) = z + z
      BY <1>1, <2>6
    <3>2. QED
      BY <1>1, <2>1, <2>3, <2>4, <2>5, <2>6, <3>1
  <2>8. Shl(x, k - 1) = z /\ Shl(x, k) = z + z - LONG
    <3>1. Shl(x, k - 1) = z % LONG /\ Shl(x, k) = (z + z) % LONG
      BY <2>4, <2>6, <2>7 DEF Shl
    <3>2. ~(z + z < LONG)
      BY <2>1, <2>7
    <3>3. QED
      BY <1>1, <2>7, <3>1, <3>2, Fits
  <2>9. QED
    BY <1>1, <2>3, <2>7, <2>8
<1>3. QED
  BY <1>1, <1>2 DEF PAGE_SIZE

\* What si_meminfo and si_swapinfo can find.
MemInfo(p) ==
  /\ p = [totalram |-> p.totalram, freeram |-> p.freeram, totalswap |-> p.totalswap, freeswap |-> p.freeswap]
  /\ {p.totalram, p.freeram, p.totalswap, p.freeswap} \subseteq 0..LONG - 1
  /\ p.freeram <= p.totalram /\ p.freeswap <= p.totalswap

\* Without an overflow all the bytes fit, in every one of the counts.
LEMMA BytesFit ==
  ASSUME NEW p, MemInfo(p), ~Overflows(p), NEW f \in Counts
  PROVE  p[f] * PAGE_SIZE < LONG /\ p[f] \in Nat
<1>1. LONG \in Nat \ {0} /\ PAGE_SIZE \in Nat \ {0}
  BY SizesArePositive
<1>2. PICK r \in 0..LONG - 1, w \in 0..LONG - 1 : r = p.totalram /\ w = p.totalswap
  BY DEF MemInfo
<1>3. PICK t : t = Shl(r + w, 0)
  OBVIOUS
<1>4. t = (r + w) % LONG /\ ~(t < r) /\ ~(t < w) /\ \A n \in 1..PAGE_BITS : ~(Shl(t, n) < Shl(t, n - 1))
  <2>1. (r + w) * 2^0 = r + w
    BY <1>1, <1>2
  <2>2. QED
    BY <1>2, <1>3, <2>1 DEF Overflows, Shl
<1>5. t = r + w /\ t \in 0..LONG - 1
  BY <1>1, <1>2, <1>4
<1>6. t * PAGE_SIZE < LONG
  BY <1>4, <1>5, NoDoublingWraps
<1>7. p[f] \in Nat /\ p[f] <= t
  BY <1>1, <1>2, <1>5 DEF MemInfo, Counts
<1>8. p[f] * PAGE_SIZE <= t * PAGE_SIZE
  <2>1. PICK x \in Nat, y \in Nat, k \in Nat : x = p[f] /\ y = t /\ k = PAGE_SIZE
    BY <1>1, <1>5, <1>7
  <2>2. x <= y => x * k <= y * k
    OBVIOUS
  <2>3. QED
    BY <1>7, <2>1, <2>2
<1>9. QED
  BY <1>1, <1>5, <1>6, <1>7, <1>8

-----------------------------------------------------------------------------
\* The count of pages p, in bytes or, with pages = TRUE, in pages.
\* What do_sysinfo says: everything in bytes, exactly, or everything in pages.
LEMMA SaysExactly ==
  ASSUME NEW p, MemInfo(p)
  PROVE  /\ Overflows(p) => do_sysinfo(p) = [unit |-> PAGE_SIZE, count |-> p]
         /\ ~Overflows(p) =>
              do_sysinfo(p) = [unit |-> 1, count |-> [f \in Counts |-> p[f] * PAGE_SIZE]]
<1>1. ASSUME ~Overflows(p), NEW f \in Counts PROVE Shl(p[f], PAGE_BITS) = p[f] * PAGE_SIZE
  <2>1. PICK n \in Nat : n = p[f] * PAGE_SIZE /\ n < LONG
    <3>1. p[f] \in Nat /\ PAGE_SIZE \in Nat
      BY <1>1, BytesFit, SizesArePositive
    <3>2. p[f] * PAGE_SIZE \in Nat
      BY <3>1
    <3>3. QED
      BY <1>1, <3>2, BytesFit
  <2>2. n % LONG = n
    BY <2>1, SizesArePositive, Fits
  <2>3. Shl(p[f], PAGE_BITS) = n % LONG
    BY <2>1 DEF Shl, PAGE_SIZE
  <2>4. QED
    BY <2>1, <2>2, <2>3
<1>2. ASSUME ~Overflows(p)
      PROVE  [f \in Counts |-> Shl(p[f], PAGE_BITS)] = [f \in Counts |-> p[f] * PAGE_SIZE]
  BY <1>1, <1>2, Zenon
<1>3. ~Overflows(p) =>
        do_sysinfo(p) = [unit |-> 1, count |-> [f \in Counts |-> Shl(p[f], PAGE_BITS)]]
  BY Zenon DEF do_sysinfo
<1>4. Overflows(p) => do_sysinfo(p) = [unit |-> PAGE_SIZE, count |-> p]
  BY Zenon DEF do_sysinfo
<1>5. QED
  BY <1>2, <1>3, <1>4, Zenon

\* A unit of a page is doubled never, a unit of a byte as often as a page has bits.
LEMMA DoublingsIs ==
  /\ Doublings(PAGE_SIZE) = 0
  /\ Doublings(1) = PAGE_BITS
<1>1. PAGE_BITS \in Nat /\ PAGE_SIZE \in Nat \ {0} /\ 2^0 = 1
  BY SizesArePositive, SysinfoAssumption
<1>2. \A n \in 0..PAGE_BITS : PAGE_SIZE * 2^n = PAGE_SIZE <=> n = 0
  <2>1. PAGE_SIZE * 2^0 = PAGE_SIZE
    BY <1>1
  <2>2. ASSUME NEW n \in 0..PAGE_BITS, n # 0 PROVE PAGE_SIZE * 2^n # PAGE_SIZE
    <3>1. PICK a \in Nat : a = 2^n /\ a > 1
      <4>1. 0 \in Nat /\ n \in Nat /\ 0 < n
        BY <1>1, <2>2
      <4>2. 2^n \in Nat /\ 2^0 < 2^n
        BY <4>1, PowerGrows, PowerCounts
      <4>3. QED
        BY <1>1, <4>2
    <3>2. PICK k \in Nat \ {0} : k = PAGE_SIZE
      BY <1>1
    <3>3. k * a # k
      BY <3>1
    <3>4. QED
      BY <3>1, <3>2, <3>3
  <2>3. QED
    BY <2>1, <2>2
<1>3. \A n \in 0..PAGE_BITS : 1 * 2^n = PAGE_SIZE <=> n = PAGE_BITS
  <2>1. 1 * 2^PAGE_BITS = PAGE_SIZE
    BY <1>1 DEF PAGE_SIZE
  <2>2. ASSUME NEW n \in 0..PAGE_BITS, n # PAGE_BITS PROVE 1 * 2^n # PAGE_SIZE
    <3>1. n \in Nat /\ n < PAGE_BITS
      BY <1>1, <2>2
    <3>2. 2^n \in Nat /\ 2^n < PAGE_SIZE
      BY <1>1, <3>1, PowerGrows, PowerCounts DEF PAGE_SIZE
    <3>3. QED
      BY <1>1, <3>2
  <2>3. QED
    BY <2>1, <2>2
<1>4. 0 \in 0..PAGE_BITS /\ PAGE_BITS \in 0..PAGE_BITS
  BY <1>1
<1>5. QED
  BY <1>2, <1>3, <1>4 DEF Doublings

\* One step of the sizes a caller is told: they are exact.
Exact(s, p) == \A f \in Counts : s.count[f] * s.unit = p[f] * PAGE_SIZE

\* What a 32-bit caller is told if the pages fit in 32 bits: all of it fits.
LEMMA TruncatedIs ==
  ASSUME NEW p, MemInfo(p), p.totalram < INT, p.totalswap < INT
  PROVE  Exact(Truncated(ScaledDown(do_sysinfo(p))), p)
<1> DEFINE s == do_sysinfo(p)
           t == ScaledDown(s)
           inPages == [unit |-> PAGE_SIZE, count |-> [f \in Counts |-> p[f]]]
           inBytes == [unit |-> 1, count |-> [f \in Counts |-> p[f] * PAGE_SIZE]]
<1>1. INT \in Nat \ {0} /\ PAGE_SIZE \in Nat \ {0} /\ LONG \in Nat \ {0}
  BY SizesArePositive
<1>2. \A f \in Counts : p[f] \in Nat /\ p[f] < INT
  BY <1>1 DEF MemInfo, Counts
<1>3. p = [f \in Counts |-> p[f]]
  <2>1. DOMAIN p = Counts /\ p = [f \in DOMAIN p |-> p[f]]
    BY DEF MemInfo, Counts
  <2>2. QED
    BY <2>1, Zenon
<1>4. CASE Overflows(p)
  <2>1. s = inPages
    BY <1>3, <1>4, SaysExactly, Zenon
  <2>2. \A f \in Counts : Shr(p[f], 0) = p[f]
    <3>1. 2^0 = 1
      OBVIOUS
    <3>2. \A x \in Nat : x \div 1 = x
      OBVIOUS
    <3>3. QED
      BY <1>2, <3>1, <3>2 DEF Shr
  <2>3. t = inPages
    <3>1. s.unit = PAGE_SIZE /\ s.count = [f \in Counts |-> p[f]]
      BY <2>1
    <3>2. [f \in Counts |-> Shr(s.count[f], Doublings(s.unit))] = [f \in Counts |-> p[f]]
      BY <2>2, <3>1, DoublingsIs
    <3>3. QED
      BY <2>1, <3>2, Zenon DEF ScaledDown
  <2>4. Truncated(t).unit = PAGE_SIZE /\ \A f \in Counts : Truncated(t).count[f] = p[f] % INT
    BY <2>3 DEF Truncated
  <2>5. QED
    BY <1>1, <1>2, <2>4, Fits DEF Exact
<1>5. CASE ~Overflows(p) /\ NeedsScaling(inBytes)
  <2>1. s = inBytes
    BY <1>5, SaysExactly, Zenon
  <2>2. \A f \in Counts : Shr(p[f] * PAGE_SIZE, PAGE_BITS) = p[f]
    BY <1>1, <1>2, DivBack DEF Shr, PAGE_SIZE
  <2>3. t = inPages
    <3>1. s.unit = 1 /\ s.count = [f \in Counts |-> p[f] * PAGE_SIZE]
      BY <2>1
    <3>2. [f \in Counts |-> Shr(s.count[f], Doublings(s.unit))] = [f \in Counts |-> p[f]]
      BY <2>2, <3>1, DoublingsIs
    <3>3. QED
      BY <1>5, <2>1, <3>2, Zenon DEF ScaledDown
  <2>4. Truncated(t).unit = PAGE_SIZE /\ \A f \in Counts : Truncated(t).count[f] = p[f] % INT
    BY <2>3 DEF Truncated
  <2>5. QED
    BY <1>1, <1>2, <2>4, Fits DEF Exact
<1>6. CASE ~Overflows(p) /\ ~NeedsScaling(inBytes)
  <2>1. s = inBytes
    BY <1>6, SaysExactly, Zenon
  <2>2. t = inBytes
    BY <1>6, <2>1, Zenon DEF ScaledDown
  <2>3. Truncated(t).unit = 1 /\ \A f \in Counts : Truncated(t).count[f] = (p[f] * PAGE_SIZE) % INT
    BY <2>2 DEF Truncated
  <2>4. ASSUME NEW f \in Counts PROVE (p[f] * PAGE_SIZE) % INT = p[f] * PAGE_SIZE /\ p[f] * PAGE_SIZE \in Nat
    <3>1. \A g \in Counts : p[g] * PAGE_SIZE \in Nat
      BY <1>1, <1>2
    <3>2. p.totalram * PAGE_SIZE < INT /\ p.totalswap * PAGE_SIZE < INT
      <4>1. inBytes.count.totalram = p.totalram * PAGE_SIZE /\ inBytes.count.totalswap = p.totalswap * PAGE_SIZE
        BY DEF Counts
      <4>2. "totalram" \in Counts /\ "totalswap" \in Counts
        BY DEF Counts
      <4>3. QED
        BY <1>1, <1>6, <3>1, <4>1, <4>2 DEF NeedsScaling
    <3>3. PICK g \in {"totalram", "totalswap"} : p[f] <= p[g] /\ p[g] \in Nat
      BY <1>2 DEF MemInfo, Counts
    <3>4. \A x, y, k \in Nat : x <= y => x * k <= y * k
      OBVIOUS
    <3>5. p[f] * PAGE_SIZE <= p[g] * PAGE_SIZE
      BY <1>1, <1>2, <3>3, <3>4
    <3>6. p[g] * PAGE_SIZE < INT
      BY <3>2, <3>3
    <3>7. PICK x \in Nat, y \in Nat : x = p[f] * PAGE_SIZE /\ y = p[g] * PAGE_SIZE
      BY <3>1, <3>3 DEF Counts
    <3>8. x < INT
      BY <1>1, <3>5, <3>6, <3>7
    <3>9. QED
      BY <1>1, <3>7, <3>8, Fits
  <2>5. QED
    BY <2>3, <2>4 DEF Exact
<1>7. QED
  BY <1>4, <1>5, <1>6

\* The memory does not change; the last answer is do_sysinfo's or what is left of it in 32 bits.
SysinfoInv ==
  /\ MemInfo(pages)
  /\ info \in {[call |-> "none"],
               [call |-> "sysinfo", val |-> do_sysinfo(pages)],
               [call |-> "compat", val |-> Truncated(ScaledDown(do_sysinfo(pages)))]}

LEMMA SysinfoInvIsExact == SysinfoInv => BytesExact
<1> SUFFICES ASSUME SysinfoInv PROVE BytesExact
  OBVIOUS
<1>1. MemInfo(pages)
  BY DEF SysinfoInv
<1>2. CASE info = [call |-> "none"]
  BY <1>2 DEF BytesExact
<1>3. CASE info = [call |-> "sysinfo", val |-> do_sysinfo(pages)]
  <2>1. Exact(do_sysinfo(pages), pages)
    <3>1. CASE Overflows(pages)
      BY <1>1, <3>1, SaysExactly DEF Exact
    <3>2. CASE ~Overflows(pages)
      <4>1. \A f \in Counts : pages[f] * PAGE_SIZE \in Nat
        BY <1>1, SizesArePositive DEF MemInfo, Counts
      <4>2. do_sysinfo(pages) = [unit |-> 1, count |-> [f \in Counts |-> pages[f] * PAGE_SIZE]]
        BY <1>1, <3>2, SaysExactly, Zenon
      <4>3. QED
        BY <4>1, <4>2 DEF Exact
    <3>3. QED
      BY <3>1, <3>2
  <2>2. info.val = do_sysinfo(pages)
    BY <1>3, Zenon
  <2>3. QED
    BY <2>1, <2>2, Zenon DEF BytesExact, Exact
<1>4. CASE info = [call |-> "compat", val |-> Truncated(ScaledDown(do_sysinfo(pages)))]
  <2>1. info.val = Truncated(ScaledDown(do_sysinfo(pages))) /\ info.call = "compat"
    BY <1>4, Zenon
  <2>2. pages.totalram < INT /\ pages.totalswap < INT => Exact(info.val, pages)
    BY <1>1, <2>1, TruncatedIs, Zenon
  <2>3. QED
    BY <2>1, <2>2, Zenon DEF BytesExact, Exact
<1>5. QED
  BY <1>2, <1>3, <1>4, Zenon DEF SysinfoInv

\* "If mem_total did not overflow, multiply all memory values": whatever the
\* sizes of a page, of a long and of the memory, what sysinfo tells a caller
\* is the exact number of bytes, and so is what a 32-bit caller is told
\* unless there are more pages than 32 bits count.
THEOREM SizesAreExact == SysinfoSpec => []BytesExact
<1>1. SysinfoInit => SysinfoInv
  <2> SUFFICES ASSUME SysinfoInit PROVE SysinfoInv
    OBVIOUS
  <2>1. MemInfo(pages)
    BY SizesArePositive DEF SysinfoInit, MemInfo
  <2>2. QED
    BY <2>1 DEF SysinfoInit, SysinfoInv
<1>2. SysinfoInv /\ [SysinfoNext]_sysinfoVars => SysinfoInv'
  <2> SUFFICES ASSUME SysinfoInv, [SysinfoNext]_sysinfoVars PROVE SysinfoInv'
    OBVIOUS
  <2>1. pages' = pages
    BY DEF SysinfoNext, sysinfo, compat_sysinfo, getcpu, sysinfoVars
  <2>2. \/ info' = info
        \/ info' = [call |-> "sysinfo", val |-> do_sysinfo(pages)]
        \/ info' = [call |-> "compat", val |-> Truncated(ScaledDown(do_sysinfo(pages)))]
    BY Zenon DEF SysinfoNext, sysinfo, compat_sysinfo, getcpu, sysinfoVars
  <2>3. MemInfo(pages)'
    BY <2>1 DEF SysinfoInv, MemInfo
  <2>4. do_sysinfo(pages)' = do_sysinfo(pages)
    BY <2>1 DEF do_sysinfo, Overflows, Shl, PAGE_SIZE, LONG, Counts
  <2>5. Truncated(ScaledDown(do_sysinfo(pages)))' = Truncated(ScaledDown(do_sysinfo(pages)))
    BY <2>1 DEF do_sysinfo, Overflows, Shl, Shr, PAGE_SIZE, LONG, INT, Counts, Truncated, ScaledDown, NeedsScaling, Doublings
  <2>6. QED
    BY <2>2, <2>3, <2>4, <2>5, Zenon DEF SysinfoInv
<1>3. QED
  BY <1>1, <1>2, SysinfoInvIsExact, PTL DEF SysinfoSpec

-----------------------------------------------------------------------------
\* g is the N rounds of F, from s on.
Rounds(g, N, s, F) == g \in [0..N -> DOMAIN F] /\ g[0] = s /\ \A k \in 1..N : g[k] = F[g[k - 1]]

LEMMA RoundsExist ==
  ASSUME NEW S, NEW F \in [S -> S], NEW s \in S, NEW N \in Nat
  PROVE  \E g : Rounds(g, N, s, F)
<1> DEFINE bad == {k \in Nat : ~\E g : Rounds(g, k, s, F)}
<1> SUFFICES ASSUME bad # {} PROVE FALSE
  OBVIOUS
<1>1. PICK k \in bad : \A y \in bad : k <= y
  <2>1. bad \in SUBSET Nat
    OBVIOUS
  <2> HIDE DEF bad
  <2>2. QED
    BY <2>1, Least
<1>2. k # 0
  <2>1. Rounds([i \in 0..0 |-> s], 0, s, F)
    BY DEF Rounds
  <2>2. QED
    BY <1>1, <2>1
<1>3. k \in Nat /\ k - 1 \in Nat /\ k - 1 \notin bad
  BY <1>1, <1>2
<1>4. PICK g : Rounds(g, k - 1, s, F)
  BY <1>3
<1>5. PICK h : h = [i \in 0..k |-> IF i = k THEN F[g[k - 1]] ELSE g[i]]
  OBVIOUS
<1>6. Rounds(h, k, s, F)
  <2>1. h[k] = F[g[k - 1]] /\ \A i \in 0..k - 1 : h[i] = g[i]
    BY <1>3, <1>5
  <2>2. h \in [0..k -> DOMAIN F] /\ h[0] = s /\ k - 1 \in 0..k - 1
    <3>1. k - 1 \in 0..k - 1 /\ g \in [0..k - 1 -> S] /\ F[g[k - 1]] \in S
      BY <1>3, <1>4 DEF Rounds
    <3>2. QED
      BY <1>2, <1>3, <1>4, <1>5, <2>1, <3>1 DEF Rounds
  <2>3. ASSUME NEW i \in 1..k PROVE h[i] = F[h[i - 1]]
    <3>1. CASE i = k
      BY <2>1, <2>2, <3>1
    <3>2. CASE i # k
      <4>1. i \in 1..k - 1 /\ i \in 0..k - 1 /\ i - 1 \in 0..k - 1
        BY <1>3, <3>2
      <4>2. QED
        BY <1>4, <2>1, <4>1 DEF Rounds
    <3>3. QED
      BY <3>1, <3>2
  <2>4. QED
    BY <2>2, <2>3 DEF Rounds
<1>7. QED
  BY <1>1, <1>6

-----------------------------------------------------------------------------
\* How far the point b below and a to the right is off a line that falls by D in W: v.
\* One round of draw_line where the line is flat: a step to the right, and one down if
\* that brings it nearer.
LEMMA FlatStep ==
  ASSUME NEW W \in Nat, NEW D \in Nat, D <= W,
         NEW a \in Nat, a < W, NEW b \in Nat, b <= D,
         NEW v \in Int, v = W * b - D * a, 2 * v <= W, -W <= 2 * v
  PROVE  /\ 2 * (v + W - D) >= -D
         /\ 2 * (v + W - D) <= W =>
              /\ b + 1 <= D /\ v - D + W = W * (b + 1) - D * (a + 1)
              /\ 2 * (v - D + W) <= W /\ -W <= 2 * (v - D + W)
         /\ ~(2 * (v + W - D) <= W) =>
              /\ v - D = W * b - D * (a + 1)
              /\ 2 * (v - D) <= W /\ -W <= 2 * (v - D)
<1>1. D * (a + 1) = D * a + D /\ W * (b + 1) = W * b + W
  OBVIOUS
<1>2. PICK p \in Nat, q \in Nat : p = W * b /\ q = D * a
  OBVIOUS
<1>3. ASSUME 2 * (v + W - D) <= W PROVE b + 1 <= D
  <2>1. CASE b = D
    <3>1. W * b = D * W
      BY <2>1
    <3>2. D * (a + 1) <= D * W
      <4>1. \A x, y, z \in Nat : x <= y => z * x <= z * y
        OBVIOUS
      <4>2. QED
        BY <4>1
    <3>3. PICK z \in Nat : z = D * W
      OBVIOUS
    <3>4. QED
      BY <1>1, <1>2, <1>3, <3>1, <3>2, <3>3
  <2>2. QED
    BY <2>1
<1>4. v = p - q
  BY <1>2
<1>5. QED
  BY <1>1, <1>2, <1>3, <1>4

\* And where it is steep: a step down, and one to the right if that brings it nearer.
LEMMA SteepStep ==
  ASSUME NEW W \in Nat, NEW D \in Nat, W < D,
         NEW a \in Nat, a <= W, NEW b \in Nat, b < D,
         NEW v \in Int, v = W * b - D * a, 2 * v <= D, -D <= 2 * v
  PROVE  /\ 2 * (v + W - D) <= W
         /\ 2 * (v + W - D) >= -D =>
              /\ a + 1 <= W /\ v - D + W = W * (b + 1) - D * (a + 1)
              /\ 2 * (v - D + W) <= D /\ -D <= 2 * (v - D + W)
         /\ ~(2 * (v + W - D) >= -D) =>
              /\ v + W = W * (b + 1) - D * a
              /\ 2 * (v + W) <= D /\ -D <= 2 * (v + W)
<1>1. D * (a + 1) = D * a + D /\ W * (b + 1) = W * b + W
  OBVIOUS
<1>2. PICK p \in Nat, q \in Nat : p = W * b /\ q = D * a
  OBVIOUS
<1>3. ASSUME 2 * (v + W - D) >= -D PROVE a + 1 <= W
  <2>1. CASE a = W
    <3>1. D * a = W * D
      BY <2>1
    <3>2. W * (b + 1) <= W * D
      <4>1. \A x, y, z \in Nat : x <= y => z * x <= z * y
        OBVIOUS
      <4>2. QED
        BY <4>1
    <3>3. PICK z \in Nat : z = W * D
      OBVIOUS
    <3>4. QED
      BY <1>1, <1>2, <1>3, <3>1, <3>2, <3>3
  <2>2. QED
    BY <2>1
<1>4. v = p - q
  BY <1>2
<1>5. QED
  BY <1>1, <1>2, <1>3, <1>4

\* a steps from one number towards another one.
Toward(begin, to, a) == IF begin < to THEN begin + a ELSE begin - a

Longer(W, D) == IF W > D THEN W ELSE D

\* After a steps to the side and b down the loop is at s, half a pixel off the line
\* at most, and err knows how far.
OnLine(s, x1, y1, x2, y2, W, D, a, b) ==
  /\ a \in 0..W /\ b \in 0..D
  /\ s = [x |-> Toward(x1, x2, a), y |-> Toward(y1, y2, b), err |-> W * b - D * a + W - D]
  /\ 2 * (W * b - D * a) <= Longer(W, D) /\ -Longer(W, D) <= 2 * (W * b - D * a)

Sign(begin, to) == IF begin < to THEN 1 ELSE -1

\* One round of the loop.
LEMMA OneRound ==
  ASSUME NEW x1 \in Int, NEW y1 \in Int, NEW x2 \in Int, NEW y2 \in Int, NEW W \in Nat, NEW D \in Nat,
         NEW a, NEW b, NEW s, OnLine(s, x1, y1, x2, y2, W, D, a, b),
         IF D <= W THEN a < W ELSE b < D
  PROVE  \E a2 \in {a, a + 1}, b2 \in {b, b + 1} :
           /\ OnLine(Advance(s, W, -D, Sign(x1, x2), Sign(y1, y2)), x1, y1, x2, y2, W, D, a2, b2)
           /\ IF D <= W THEN a2 = a + 1 ELSE b2 = b + 1
<1> DEFINE t == Advance(s, W, -D, Sign(x1, x2), Sign(y1, y2))
<1>1. a \in Nat /\ b \in Nat /\ a <= W /\ b <= D
  BY DEF OnLine
<1>2. PICK v \in Int : v = W * b - D * a
  BY <1>1
<1>3. PICK e \in Int : e = v + W - D
  OBVIOUS
<1>4. s.x = Toward(x1, x2, a) /\ s.y = Toward(y1, y2, b) /\ s.err = e
  BY <1>2, <1>3 DEF OnLine
<1>5. t = [x |-> IF 2 * e >= -D THEN s.x + Sign(x1, x2) ELSE s.x,
           y |-> IF 2 * e <= W THEN s.y + Sign(y1, y2) ELSE s.y,
           err |-> e + (IF 2 * e >= -D THEN -D ELSE 0) + (IF 2 * e <= W THEN W ELSE 0)]
  BY <1>4 DEF Advance
<1>6. /\ s.x + Sign(x1, x2) = Toward(x1, x2, a + 1)
      /\ s.y + Sign(y1, y2) = Toward(y1, y2, b + 1)
  BY <1>1, <1>4 DEF Toward, Sign
<1>7. 2 * v <= Longer(W, D) /\ -Longer(W, D) <= 2 * v
  BY <1>2 DEF OnLine
<1>8. CASE D <= W
  <2>1. 2 * v <= W /\ -W <= 2 * v
    BY <1>7, <1>8 DEF Longer
  <2>2. 2 * e >= -D
    BY <1>1, <1>2, <1>3, <1>8, <2>1, FlatStep
  <2>3. CASE 2 * e <= W
    <3>1. /\ b + 1 <= D /\ v - D + W = W * (b + 1) - D * (a + 1)
          /\ 2 * (v - D + W) <= W /\ -W <= 2 * (v - D + W)
      BY <1>1, <1>2, <1>3, <1>8, <2>1, <2>3, FlatStep
    <3>2. t = [x |-> Toward(x1, x2, a + 1), y |-> Toward(y1, y2, b + 1), err |-> e - D + W]
      BY <1>3, <1>5, <1>6, <2>2, <2>3
    <3>3. e - D + W = (v - D + W) + W - D
      BY <1>3
    <3>4. OnLine(t, x1, y1, x2, y2, W, D, a + 1, b + 1)
      <4>1. Longer(W, D) = W
        BY <1>8 DEF Longer
      <4>2. a + 1 \in 0..W /\ b + 1 \in 0..D
        BY <1>1, <1>8, <3>1
      <4> HIDE DEF t
      <4>3. QED
        BY <3>1, <3>2, <3>3, <4>1, <4>2 DEF OnLine
    <3>5. QED
      BY <1>8, <3>4
  <2>4. CASE ~(2 * e <= W)
    <3>1. /\ v - D = W * b - D * (a + 1)
          /\ 2 * (v - D) <= W /\ -W <= 2 * (v - D)
      BY <1>1, <1>2, <1>3, <1>8, <2>1, <2>4, FlatStep
    <3>2. t = [x |-> Toward(x1, x2, a + 1), y |-> Toward(y1, y2, b), err |-> e - D]
      BY <1>3, <1>4, <1>5, <1>6, <2>2, <2>4
    <3>3. e - D = (v - D) + W - D
      BY <1>3
    <3>4. OnLine(t, x1, y1, x2, y2, W, D, a + 1, b)
      <4>1. Longer(W, D) = W
        BY <1>8 DEF Longer
      <4>2. a + 1 \in 0..W /\ b \in 0..D
        BY <1>1, <1>8
      <4> HIDE DEF t
      <4>3. QED
        BY <3>1, <3>2, <3>3, <4>1, <4>2 DEF OnLine
    <3>5. QED
      BY <1>8, <3>4
  <2>5. QED
    BY <2>3, <2>4
<1>9. CASE ~(D <= W)
  <2>1. 2 * v <= D /\ -D <= 2 * v
    BY <1>7, <1>9 DEF Longer
  <2>2. 2 * e <= W
    BY <1>1, <1>2, <1>3, <1>9, <2>1, SteepStep
  <2>3. CASE 2 * e >= -D
    <3>1. /\ a + 1 <= W /\ v - D + W = W * (b + 1) - D * (a + 1)
          /\ 2 * (v - D + W) <= D /\ -D <= 2 * (v - D + W)
      BY <1>1, <1>2, <1>3, <1>9, <2>1, <2>3, SteepStep
    <3>2. t = [x |-> Toward(x1, x2, a + 1), y |-> Toward(y1, y2, b + 1), err |-> e - D + W]
      BY <1>3, <1>5, <1>6, <2>2, <2>3
    <3>3. e - D + W = (v - D + W) + W - D
      BY <1>3
    <3>4. OnLine(t, x1, y1, x2, y2, W, D, a + 1, b + 1)
      <4>1. Longer(W, D) = D
        BY <1>9 DEF Longer
      <4>2. a + 1 \in 0..W /\ b + 1 \in 0..D
        BY <1>1, <1>9, <3>1
      <4> HIDE DEF t
      <4>3. QED
        BY <3>1, <3>2, <3>3, <4>1, <4>2 DEF OnLine
    <3>5. QED
      BY <1>9, <3>4
  <2>4. CASE ~(2 * e >= -D)
    <3>1. /\ v + W = W * (b + 1) - D * a
          /\ 2 * (v + W) <= D /\ -D <= 2 * (v + W)
      BY <1>1, <1>2, <1>3, <1>9, <2>1, <2>4, SteepStep
    <3>2. t = [x |-> Toward(x1, x2, a), y |-> Toward(y1, y2, b + 1), err |-> e + W]
      BY <1>3, <1>4, <1>5, <1>6, <2>2, <2>4
    <3>3. e + W = (v + W) + W - D
      BY <1>3
    <3>4. OnLine(t, x1, y1, x2, y2, W, D, a, b + 1)
      <4>1. Longer(W, D) = D
        BY <1>9 DEF Longer
      <4>2. a \in 0..W /\ b + 1 \in 0..D
        BY <1>1, <1>9
      <4> HIDE DEF t
      <4>3. QED
        BY <3>1, <3>2, <3>3, <4>1, <4>2 DEF OnLine
    <3>5. QED
      BY <1>9, <3>4
  <2>5. QED
    BY <2>3, <2>4
<1>10. QED
  BY <1>8, <1>9

-----------------------------------------------------------------------------
\* Half a pixel off the end is no pixel off it.
LEMMA NearTheEnd ==
  ASSUME NEW W \in Nat, NEW D \in Nat, D <= W, NEW b \in Nat, b <= D, -W <= 2 * (W * b - D * W)
  PROVE  b = D
<1> SUFFICES ASSUME b < D PROVE FALSE
  OBVIOUS
<1>1. W * (b + 1) <= W * D
  <2>1. \A x, y, z \in Nat : x <= y => z * x <= z * y
    OBVIOUS
  <2>2. QED
    BY <2>1
<1>2. W * (b + 1) = W * b + W /\ D * W = W * D
  OBVIOUS
<1>3. PICK p \in Nat, q \in Nat : p = W * b /\ q = W * D
  OBVIOUS
<1>4. QED
  BY <1>1, <1>2, <1>3

LEMMA TowardIs ==
  ASSUME NEW begin \in Int, NEW to \in Int
  PROVE  /\ absoluteVal(to - begin) \in Nat
         /\ Toward(begin, to, 0) = begin
         /\ \A i \in 0..absoluteVal(to - begin) :
              /\ Toward(begin, to, i) \in Int
              /\ Toward(begin, to, i) = to <=> i = absoluteVal(to - begin)
BY DEF Toward, absoluteVal

\* A round moves the point by a pixel at most.
LEMMA Neighbours ==
  ASSUME NEW s \in [x : Int, y : Int, err : Int], NEW dx \in Int, NEW dy \in Int,
         NEW x1 \in Int, NEW x2 \in Int, NEW y1 \in Int, NEW y2 \in Int
  PROVE  LET t == Advance(s, dx, dy, Sign(x1, x2), Sign(y1, y2))
         IN /\ t \in [x : Int, y : Int, err : Int]
            /\ absoluteVal(t.x - s.x) <= 1 /\ absoluteVal(t.y - s.y) <= 1
<1> DEFINE t == Advance(s, dx, dy, Sign(x1, x2), Sign(y1, y2))
<1>1. s.x \in Int /\ s.y \in Int /\ s.err \in Int
  OBVIOUS
<1>2. PICK sx \in {1, -1}, sy \in {1, -1} : sx = Sign(x1, x2) /\ sy = Sign(y1, y2)
  BY DEF Sign
<1>3. /\ t = [x |-> t.x, y |-> t.y, err |-> t.err]
      /\ t.x \in {s.x, s.x + sx} /\ t.y \in {s.y, s.y + sy}
      /\ t.err \in {s.err, s.err + dx, s.err + dy, s.err + dy + dx}
  BY <1>1, <1>2 DEF Advance
<1> HIDE DEF t
<1>4. t.x \in Int /\ t.y \in Int /\ t.err \in Int
  BY <1>1, <1>2, <1>3
<1>5. t \in [x : Int, y : Int, err : Int]
  BY <1>3, <1>4
<1>6. absoluteVal(t.x - s.x) <= 1 /\ absoluteVal(t.y - s.y) <= 1
  BY <1>1, <1>2, <1>3 DEF absoluteVal
<1>7. QED
  BY <1>5, <1>6 DEF t

\* The rounds of draw_line.
LineRounds(g, x1, y1, x2, y2) ==
  LET W == absoluteVal(x2 - x1)
      D == absoluteVal(y2 - y1)
      S == [x : Int, y : Int, err : Int]
  IN /\ g \in [0..W - (-D) -> S]
     /\ g[0] = [x |-> x1, y |-> y1, err |-> W + (-D)]
     /\ \A k \in 1..W - (-D) : g[k] = Advance(g[k - 1], W, -D, Sign(x1, x2), Sign(y1, y2))

LEMMA LineRoundsExist ==
  ASSUME NEW x1 \in Int, NEW y1 \in Int, NEW x2 \in Int, NEW y2 \in Int
  PROVE  \E g : LineRounds(g, x1, y1, x2, y2)
<1>1. PICK W \in Nat, D \in Nat : W = absoluteVal(x2 - x1) /\ D = absoluteVal(y2 - y1)
  BY TowardIs
<1> DEFINE S == [x : Int, y : Int, err : Int]
           F == [s \in S |-> Advance(s, W, -D, Sign(x1, x2), Sign(y1, y2))]
           s0 == [x |-> x1, y |-> y1, err |-> W + (-D)]
<1>2. F \in [S -> S]
  <2>1. \A s \in S : Advance(s, W, -D, Sign(x1, x2), Sign(y1, y2)) \in S
    BY Neighbours
  <2> HIDE DEF S
  <2>2. QED
    BY <2>1, Zenon
<1>3. s0 \in S /\ W - (-D) \in Nat
  OBVIOUS
<1>4. PICK g : Rounds(g, W - (-D), s0, F)
  <2> HIDE DEF S, F, s0
  <2>1. QED
    BY <1>2, <1>3, RoundsExist
<1>5. g \in [0..W - (-D) -> S] /\ g[0] = s0 /\ \A k \in 1..W - (-D) : g[k] = F[g[k - 1]]
  BY <1>2, <1>4 DEF Rounds
<1>6. \A k \in 1..W - (-D) : F[g[k - 1]] = Advance(g[k - 1], W, -D, Sign(x1, x2), Sign(y1, y2))
  <2>1. \A k \in 1..W - (-D) : g[k - 1] \in S
    BY <1>5
  <2> HIDE DEF S
  <2>2. QED
    BY <2>1
<1>7. \A k \in 1..W - (-D) : g[k] = Advance(g[k - 1], W, -D, Sign(x1, x2), Sign(y1, y2))
  BY <1>5, <1>6
<1> HIDE DEF F
<1>8. QED
  BY <1>1, <1>5, <1>7, Zenon DEF LineRounds

\* One pixel of the longer side is passed in every round.
LEMMA RoundsOnLine ==
  ASSUME NEW x1 \in Int, NEW y1 \in Int, NEW x2 \in Int, NEW y2 \in Int, NEW g, LineRounds(g, x1, y1, x2, y2),
         NEW W \in Nat, NEW D \in Nat, W = absoluteVal(x2 - x1), D = absoluteVal(y2 - y1)
  PROVE  \A k \in 0..Longer(W, D) : \E a, b :
           OnLine(g[k], x1, y1, x2, y2, W, D, a, b) /\ IF D <= W THEN a = k ELSE b = k
<1> DEFINE good(k) == \E a, b : OnLine(g[k], x1, y1, x2, y2, W, D, a, b) /\ IF D <= W THEN a = k ELSE b = k
           bad == {k \in 0..Longer(W, D) : ~good(k)}
<1> SUFFICES ASSUME bad # {} PROVE FALSE
  OBVIOUS
<1>1. Longer(W, D) \in Nat /\ Longer(W, D) <= W - (-D) /\ Longer(W, D) = (IF D <= W THEN W ELSE D)
  BY DEF Longer
<1>2. PICK k \in bad : \A y \in bad : k <= y
  <2>1. bad \in SUBSET Nat
    BY <1>1
  <2> HIDE DEF bad
  <2>2. QED
    BY <2>1, Least
<1>3. k # 0
  <2>1. g[0] = [x |-> x1, y |-> y1, err |-> W + (-D)]
    BY DEF LineRounds
  <2>2. W * 0 - D * 0 = 0 /\ W * 0 - D * 0 + W - D = W + (-D)
    OBVIOUS
  <2>3. OnLine(g[0], x1, y1, x2, y2, W, D, 0, 0)
    <3>1. Toward(x1, x2, 0) = x1 /\ Toward(y1, y2, 0) = y1
      BY TowardIs
    <3>2. 0 \in 0..W /\ 0 \in 0..D /\ 2 * (W * 0 - D * 0) = 0 /\ 0 <= Longer(W, D) /\ -Longer(W, D) <= 0
      BY <1>1
    <3>3. QED
      BY <2>1, <2>2, <3>1, <3>2 DEF OnLine
  <2>4. good(0)
    BY <2>3
  <2>5. QED
    BY <1>2, <2>4
<1>4. k \in 1..Longer(W, D) /\ k - 1 \in 0..Longer(W, D) /\ k - 1 \notin bad /\ k \in 1..W - (-D)
  BY <1>1, <1>2, <1>3
<1>5. PICK a, b : OnLine(g[k - 1], x1, y1, x2, y2, W, D, a, b) /\ IF D <= W THEN a = k - 1 ELSE b = k - 1
  BY <1>4
<1>6. g[k] = Advance(g[k - 1], W, -D, Sign(x1, x2), Sign(y1, y2))
  BY <1>4 DEF LineRounds
<1>7. IF D <= W THEN a < W ELSE b < D
  BY <1>1, <1>4, <1>5
<1>8. PICK a2 \in {a, a + 1}, b2 \in {b, b + 1} :
        /\ OnLine(Advance(g[k - 1], W, -D, Sign(x1, x2), Sign(y1, y2)), x1, y1, x2, y2, W, D, a2, b2)
        /\ IF D <= W THEN a2 = a + 1 ELSE b2 = b + 1
  BY <1>5, <1>7, OneRound
<1>9. IF D <= W THEN a2 = k ELSE b2 = k
  BY <1>4, <1>5, <1>8
<1>10. good(k)
  BY <1>6, <1>8, <1>9
<1>11. QED
  BY <1>2, <1>10

\* The points of draw_line are those of as many rounds as the longer side has pixels.
LEMMA DrawLineIs ==
  ASSUME NEW x1 \in Int, NEW y1 \in Int, NEW x2 \in Int, NEW y2 \in Int,
         NEW W \in Nat, NEW D \in Nat, W = absoluteVal(x2 - x1), D = absoluteVal(y2 - y1)
  PROVE  \E g : /\ LineRounds(g, x1, y1, x2, y2)
                /\ g[Longer(W, D)].x = x2 /\ g[Longer(W, D)].y = y2
                /\ draw_line(x1, y1, x2, y2) = [k \in 1..Longer(W, D) + 1 |-> <<g[k - 1].x, g[k - 1].y>>]
<1> DEFINE L == Longer(W, D)
           s0 == [x |-> x1, y |-> y1, err |-> W + (-D)]
           B(h) == [k \in 0..W - (-D) |->
                      IF k = 0 THEN s0 ELSE Advance(h[k - 1], W, -D, Sign(x1, x2), Sign(y1, y2))]
           round == CHOOSE h : h = B(h)
           ends == {k \in 0..W - (-D) : round[k].x = x2 /\ round[k].y = y2}
           last == IF ends = {} THEN W - (-D) ELSE CHOOSE k \in ends : \A j \in ends : k <= j
<1>1. L \in Nat /\ L <= W - (-D) /\ L = (IF D <= W THEN W ELSE D)
  BY DEF Longer
<1>2. draw_line(x1, y1, x2, y2) = [k \in 1..last + 1 |-> <<round[k - 1].x, round[k - 1].y>>]
  BY DEF draw_line, Sign
<1>3. LineRounds(round, x1, y1, x2, y2)
  <2>1. PICK g : LineRounds(g, x1, y1, x2, y2)
    BY LineRoundsExist
  <2>2. \A h : LineRounds(h, x1, y1, x2, y2) => h = B(h)
    <3> SUFFICES ASSUME NEW h, LineRounds(h, x1, y1, x2, y2) PROVE h = B(h)
      OBVIOUS
    <3>1. DOMAIN h = 0..W - (-D) /\ h = [k \in 0..W - (-D) |-> h[k]]
      BY DEF LineRounds
    <3>2. ASSUME NEW k \in 0..W - (-D) PROVE h[k] = B(h)[k]
      <4>1. k = 0 \/ k \in 1..W - (-D)
        OBVIOUS
      <4>2. QED
        BY <4>1 DEF LineRounds
    <3>3. QED
      BY <3>1, <3>2
  <2>3. round = B(round)
    <3>1. g = B(g)
      BY <2>1, <2>2
    <3> HIDE DEF B
    <3>2. QED
      BY <3>1
  <2> HIDE DEF round
  <2>4. round[0] = s0 /\ \A k \in 1..W - (-D) : round[k] = Advance(round[k - 1], W, -D, Sign(x1, x2), Sign(y1, y2))
    <3>1. 0 \in 0..W - (-D) /\ \A k \in 1..W - (-D) : k \in 0..W - (-D) /\ k # 0
      OBVIOUS
    <3>2. QED
      BY <2>3, <3>1
  <2>5. \A k \in 0..W - (-D) : round[k] = g[k]
    <3> DEFINE bad == {k \in 0..W - (-D) : round[k] # g[k]}
    <3> SUFFICES ASSUME bad # {} PROVE FALSE
      OBVIOUS
    <3>1. PICK k \in bad : \A y \in bad : k <= y
      <4>1. bad \in SUBSET Nat
        OBVIOUS
      <4> HIDE DEF bad
      <4>2. QED
        BY <4>1, Least
    <3>2. k # 0
      BY <2>1, <2>4, <3>1 DEF LineRounds
    <3>3. k \in 1..W - (-D) /\ k - 1 \in 0..W - (-D) /\ k - 1 \notin bad
      BY <3>1, <3>2
    <3>4. g[k] = Advance(g[k - 1], W, -D, Sign(x1, x2), Sign(y1, y2))
      BY <2>1, <3>3 DEF LineRounds
    <3>5. round[k] = Advance(round[k - 1], W, -D, Sign(x1, x2), Sign(y1, y2)) /\ round[k - 1] = g[k - 1]
      BY <2>4, <3>3
    <3>6. QED
      BY <3>1, <3>4, <3>5
  <2>6. DOMAIN round = 0..W - (-D) /\ round = [k \in 0..W - (-D) |-> round[k]]
    BY <2>3
  <2>7. round = g
    <3>1. g = [k \in 0..W - (-D) |-> g[k]]
      BY <2>1 DEF LineRounds
    <3>2. QED
      BY <2>5, <2>6, <3>1
  <2>8. QED
    BY <2>1, <2>7
<1> HIDE DEF round
<1>4. \A k \in 0..L : \E a, b : /\ OnLine(round[k], x1, y1, x2, y2, W, D, a, b)
                                /\ IF D <= W THEN a = k ELSE b = k
  BY <1>3, RoundsOnLine
<1>5. \A k \in 0..L : round[k].x = x2 /\ round[k].y = y2 <=> k = L
  <2> SUFFICES ASSUME NEW k \in 0..L PROVE round[k].x = x2 /\ round[k].y = y2 <=> k = L
    OBVIOUS
  <2>1. PICK a, b : OnLine(round[k], x1, y1, x2, y2, W, D, a, b) /\ IF D <= W THEN a = k ELSE b = k
    BY <1>4
  <2>2. /\ a \in 0..W /\ b \in 0..D
        /\ round[k].x = Toward(x1, x2, a) /\ round[k].y = Toward(y1, y2, b)
        /\ 2 * (W * b - D * a) <= L /\ -L <= 2 * (W * b - D * a)
    BY <2>1 DEF OnLine
  <2>3. (round[k].x = x2 <=> a = W) /\ (round[k].y = y2 <=> b = D)
    <3>1. \A i \in 0..absoluteVal(x2 - x1) : Toward(x1, x2, i) = x2 <=> i = absoluteVal(x2 - x1)
      BY TowardIs
    <3>2. \A i \in 0..absoluteVal(y2 - y1) : Toward(y1, y2, i) = y2 <=> i = absoluteVal(y2 - y1)
      BY TowardIs
    <3>3. QED
      <4>1. Toward(x1, x2, a) = x2 <=> a = W
        BY <2>2, <3>1, Zenon
      <4>2. Toward(y1, y2, b) = y2 <=> b = D
        BY <2>2, <3>2, Zenon
      <4>3. QED
        BY <2>2, <4>1, <4>2
  <2>4. CASE D <= W
    <3>1. L = W /\ a = k
      BY <1>1, <2>1, <2>4
    <3>2. a = W => b = D
      <4> SUFFICES ASSUME a = W PROVE b = D
        OBVIOUS
      <4>1. -W <= 2 * (W * b - D * W) /\ b \in Nat /\ b <= D
        BY <2>2, <3>1
      <4>2. QED
        BY <2>4, <4>1, NearTheEnd
    <3>3. QED
      BY <2>3, <3>1, <3>2
  <2>5. CASE ~(D <= W)
    <3>1. L = D /\ b = k
      BY <1>1, <2>1, <2>5
    <3>2. b = D => a = W
      <4> SUFFICES ASSUME b = D PROVE a = W
        OBVIOUS
      <4>1. 2 * (W * D - D * a) <= D /\ a \in Nat /\ a <= W
        BY <2>2, <3>1
      <4>2. -D <= 2 * (D * a - W * D)
        <5>1. PICK p \in Nat, q \in Nat : p = W * D /\ q = D * a
          BY <4>1
        <5>2. QED
          BY <4>1, <5>1
      <4>3. QED
        BY <2>5, <4>1, <4>2, NearTheEnd
    <3>3. QED
      BY <2>3, <3>1, <3>2
  <2>6. QED
    BY <2>4, <2>5
<1>6. last = L
  <2>1. L \in ends /\ \A j \in ends : j \in Nat /\ L <= j
    <3>1. L \in ends
      BY <1>1, <1>5
    <3>2. ASSUME NEW j \in ends PROVE j \in Nat /\ L <= j
      <4>1. j \in 0..W - (-D) /\ round[j].x = x2 /\ round[j].y = y2
        OBVIOUS
      <4>2. j < L => j \in 0..L
        BY <1>1, <4>1
      <4>3. QED
        BY <1>1, <1>5, <4>1, <4>2
    <3>3. QED
      BY <3>1, <3>2
  <2>2. \A k \in ends : (\A j \in ends : k <= j) => k = L
    <3> HIDE DEF ends, L
    <3>1. QED
      BY <1>1, <2>1
  <2> HIDE DEF ends, L
  <2>3. QED
    BY <2>1, <2>2
<1>7. round[L].x = x2 /\ round[L].y = y2
  BY <1>1, <1>5
<1> HIDE DEF last, B
<1>8. draw_line(x1, y1, x2, y2) = [k \in 1..L + 1 |-> <<round[k - 1].x, round[k - 1].y>>]
  BY <1>2, <1>6
<1>9. QED
  BY <1>3, <1>7, <1>8

-----------------------------------------------------------------------------
\* p runs from end to end, neighbours touch, and no point is off by more than half a pixel.
IsLine(p, x1, y1, x2, y2, W, D, L) ==
  /\ L \in Nat /\ p \in [1..L + 1 -> Int \X Int]
  /\ p[1] = <<x1, y1>> /\ p[L + 1] = <<x2, y2>>
  /\ \A k \in 1..L, c \in 1..2 : absoluteVal(p[k + 1][c] - p[k][c]) <= 1
  /\ \A k \in 1..L + 1 : \E a \in 0..W, b \in 0..D :
       /\ p[k] = <<Toward(x1, x2, a), Toward(y1, y2, b)>>
       /\ 2 * (W * b - D * a) <= L /\ -L <= 2 * (W * b - D * a)

\* The line that draw_line draws.
LEMMA LineFacts ==
  ASSUME NEW x1 \in Int, NEW y1 \in Int, NEW x2 \in Int, NEW y2 \in Int,
         NEW W \in Nat, NEW D \in Nat, W = absoluteVal(x2 - x1), D = absoluteVal(y2 - y1),
         NEW L, L = Longer(W, D), NEW p, p = draw_line(x1, y1, x2, y2)
  PROVE  IsLine(p, x1, y1, x2, y2, W, D, L)
<1>1. L \in Nat /\ L <= W - (-D)
  BY DEF Longer
<1>2. PICK g : /\ LineRounds(g, x1, y1, x2, y2)
               /\ g[L].x = x2 /\ g[L].y = y2
               /\ p = [k \in 1..L + 1 |-> <<g[k - 1].x, g[k - 1].y>>]
  BY DrawLineIs
<1>3. \A k \in 0..L : g[k] \in [x : Int, y : Int, err : Int]
  <2>1. g \in [0..W - (-D) -> [x : Int, y : Int, err : Int]]
    BY <1>2 DEF LineRounds
  <2>2. 0..L \subseteq 0..W - (-D)
    BY <1>1
  <2>3. QED
    BY <2>1, <2>2
<1>4. \A k \in 1..L + 1 : k - 1 \in 0..L /\ p[k] = <<g[k - 1].x, g[k - 1].y>>
  BY <1>1, <1>2
<1>5. p \in [1..L + 1 -> Int \X Int]
  <2>1. \A k \in 1..L + 1 : p[k] \in Int \X Int
    <3> SUFFICES ASSUME NEW k \in 1..L + 1 PROVE p[k] \in Int \X Int
      OBVIOUS
    <3>1. g[k - 1] \in [x : Int, y : Int, err : Int]
      BY <1>3, <1>4
    <3>2. g[k - 1].x \in Int /\ g[k - 1].y \in Int
      BY <3>1
    <3>3. p[k] = <<g[k - 1].x, g[k - 1].y>>
      BY <1>4
    <3>4. <<g[k - 1].x, g[k - 1].y>> \in Int \X Int
      BY <3>2
    <3>5. QED
      BY <3>3, <3>4, Zenon
  <2>2. QED
    BY <1>2, <2>1
<1>6. p[1] = <<x1, y1>> /\ p[L + 1] = <<x2, y2>>
  <2>1. 1 \in 1..L + 1 /\ L + 1 \in 1..L + 1 /\ 1 - 1 = 0 /\ (L + 1) - 1 = L
    BY <1>1
  <2>2. g[0].x = x1 /\ g[0].y = y1
    BY <1>2 DEF LineRounds
  <2>3. QED
    BY <1>2, <1>4, <2>1, <2>2
<1>7. ASSUME NEW k \in 1..L, NEW c \in 1..2 PROVE absoluteVal(p[k + 1][c] - p[k][c]) <= 1
  <2>1. k \in 1..W - (-D) /\ k \in 1..L + 1 /\ k + 1 \in 1..L + 1 /\ (k + 1) - 1 = k /\ k - 1 \in 0..L /\ k \in 0..L
    BY <1>1
  <2>2. g[k] = Advance(g[k - 1], W, -D, Sign(x1, x2), Sign(y1, y2))
    BY <1>2, <2>1 DEF LineRounds
  <2>3. g[k - 1] \in [x : Int, y : Int, err : Int]
    BY <1>3, <2>1
  <2>4. absoluteVal(g[k].x - g[k - 1].x) <= 1 /\ absoluteVal(g[k].y - g[k - 1].y) <= 1
    BY <2>2, <2>3, Neighbours
  <2>5. p[k + 1] = <<g[k].x, g[k].y>> /\ p[k] = <<g[k - 1].x, g[k - 1].y>>
    BY <1>4, <2>1
  <2>6. CASE c = 1
    BY <2>4, <2>5, <2>6
  <2>7. CASE c = 2
    BY <2>4, <2>5, <2>7
  <2>8. QED
    BY <2>6, <2>7
<1>8. ASSUME NEW k \in 1..L + 1
      PROVE  \E a \in 0..W, b \in 0..D :
               /\ p[k] = <<Toward(x1, x2, a), Toward(y1, y2, b)>>
               /\ 2 * (W * b - D * a) <= L /\ -L <= 2 * (W * b - D * a)
  <2>1. \E a, b : OnLine(g[k - 1], x1, y1, x2, y2, W, D, a, b)
    BY <1>2, <1>4, RoundsOnLine
  <2>2. PICK a, b : OnLine(g[k - 1], x1, y1, x2, y2, W, D, a, b)
    BY <2>1
  <2>3. /\ a \in 0..W /\ b \in 0..D
        /\ g[k - 1].x = Toward(x1, x2, a) /\ g[k - 1].y = Toward(y1, y2, b)
        /\ 2 * (W * b - D * a) <= L /\ -L <= 2 * (W * b - D * a)
    BY <2>2 DEF OnLine
  <2>4. p[k] = <<Toward(x1, x2, a), Toward(y1, y2, b)>>
    BY <1>4, <2>3
  <2>5. QED
    BY <2>3, <2>4
<1>9. QED
  BY <1>1, <1>5, <1>6, <1>7, <1>8, Zenon DEF IsLine

\* The line was drawn from end to end.
IsDrawn(d) ==
  \E x1, y1, x2, y2 \in Int :
    d = [from |-> <<x1, y1>>, to |-> <<x2, y2>>, points |-> draw_line(x1, y1, x2, y2)]

\* A step to the side counts the same for both ends of a line.
LEMMA OffLine ==
  ASSUME NEW W \in Nat, NEW D \in Nat, NEW a \in Nat, NEW b \in Nat, NEW L \in Nat,
         2 * (W * b - D * a) <= L, -L <= 2 * (W * b - D * a),
         NEW dx, NEW ex, (dx = W /\ ex = a) \/ (dx = -W /\ ex = -a),
         NEW dy, NEW ey, (dy = D /\ ey = b) \/ (dy = -D /\ ey = -b)
  PROVE  2 * absoluteVal(dx * ey - dy * ex) <= L
<1>1. PICK p \in Nat, q \in Nat : p = W * b /\ q = D * a
  OBVIOUS
<1>2. W * (-b) = -p /\ (-W) * b = -p /\ (-W) * (-b) = p
  BY <1>1
<1>3. D * (-a) = -q /\ (-D) * a = -q /\ (-D) * (-a) = q
  BY <1>1
<1>4. dx * ey - dy * ex \in {p - q, q - p}
  <2>1. CASE dx = W /\ ex = a /\ dy = D /\ ey = b
    BY <1>1, <2>1
  <2>2. CASE dx = W /\ ex = a /\ dy = -D /\ ey = -b
    BY <1>1, <1>2, <1>3, <2>2
  <2>3. CASE dx = -W /\ ex = -a /\ dy = D /\ ey = b
    BY <1>1, <1>2, <1>3, <2>3
  <2>4. CASE dx = -W /\ ex = -a /\ dy = -D /\ ey = -b
    BY <1>1, <1>2, <1>3, <2>4
  <2>5. QED
    BY <2>1, <2>2, <2>3, <2>4
<1>5. 2 * (p - q) <= L /\ -L <= 2 * (p - q)
  BY <1>1
<1>6. QED
  BY <1>4, <1>5 DEF absoluteVal

LEMMA LinesAreStraight == IsDrawn(drawn) => LineIsStraight
<1> SUFFICES ASSUME IsDrawn(drawn) PROVE LineIsStraight
  OBVIOUS
<1>1. PICK x1 \in Int, y1 \in Int, x2 \in Int, y2 \in Int :
        drawn = [from |-> <<x1, y1>>, to |-> <<x2, y2>>, points |-> draw_line(x1, y1, x2, y2)]
  BY DEF IsDrawn
<1>2. PICK W \in Nat, D \in Nat : W = absoluteVal(x2 - x1) /\ D = absoluteVal(y2 - y1)
  BY TowardIs
<1>3. PICK L, p : L = Longer(W, D) /\ p = draw_line(x1, y1, x2, y2)
  OBVIOUS
<1>4. IsLine(p, x1, y1, x2, y2, W, D, L)
  BY <1>2, <1>3, LineFacts, Zenon
<1>5. Len(p) = L + 1 /\ DOMAIN p = 1..L + 1
  BY <1>4 DEF IsLine
<1>6. ASSUME NEW k \in 1..L + 1
      PROVE  2 * absoluteVal((x2 - x1) * (p[k][2] - p[1][2]) - (y2 - y1) * (p[k][1] - p[1][1])) <= L
  <2>1. PICK a \in 0..W, b \in 0..D :
           /\ p[k] = <<Toward(x1, x2, a), Toward(y1, y2, b)>>
           /\ 2 * (W * b - D * a) <= L /\ -L <= 2 * (W * b - D * a)
    BY <1>4, <1>6 DEF IsLine
  <2>2. PICK dx \in Int, dy \in Int, ex \in Int, ey \in Int :
           dx = x2 - x1 /\ dy = y2 - y1 /\ ex = p[k][1] - p[1][1] /\ ey = p[k][2] - p[1][2]
    <3>1. p[k][1] - p[1][1] \in Int /\ p[k][2] - p[1][2] \in Int
      BY <1>4, <1>6 DEF IsLine
    <3>2. QED
      BY <3>1
  <2>3. /\ p[k][1] = Toward(x1, x2, a) /\ p[k][2] = Toward(y1, y2, b)
        /\ p[1][1] = x1 /\ p[1][2] = y1
    BY <1>4, <2>1 DEF IsLine
  <2>4. /\ (dx = W /\ ex = a) \/ (dx = -W /\ ex = -a)
        /\ (dy = D /\ ey = b) \/ (dy = -D /\ ey = -b)
    <3>1. \A i \in 0..W : (x2 - x1 = W /\ Toward(x1, x2, i) - x1 = i) \/ (x2 - x1 = -W /\ Toward(x1, x2, i) - x1 = -i)
      BY <1>2 DEF Toward, absoluteVal
    <3>2. \A i \in 0..D : (y2 - y1 = D /\ Toward(y1, y2, i) - y1 = i) \/ (y2 - y1 = -D /\ Toward(y1, y2, i) - y1 = -i)
      BY <1>2 DEF Toward, absoluteVal
    <3>3. QED
      BY <2>2, <2>3, <3>1, <3>2
  <2>5. 2 * absoluteVal(dx * ey - dy * ex) <= L
    <3>1. a \in Nat /\ b \in Nat /\ L \in Nat
      BY <1>4 DEF IsLine
    <3>2. QED
      BY <2>1, <2>4, <3>1, OffLine
  <2>6. QED
    BY <2>2, <2>5
<1>7. (IF absoluteVal(x2 - x1) > absoluteVal(y2 - y1) THEN absoluteVal(x2 - x1) ELSE absoluteVal(y2 - y1)) = L
  BY <1>2, <1>3 DEF Longer
<1>8. /\ drawn.points = p /\ drawn.from = <<x1, y1>> /\ drawn.to = <<x2, y2>>
      /\ drawn.to[1] - drawn.from[1] = x2 - x1 /\ drawn.to[2] - drawn.from[2] = y2 - y1
  BY <1>1, <1>3
<1>9. Len(p) - 1 = L
  BY <1>4, <1>5 DEF IsLine
<1>10. QED
  BY <1>4, <1>5, <1>6, <1>7, <1>8, <1>9, Zenon DEF LineIsStraight, IsLine

\* A line stays between its ends.
LEMMA LineInBox ==
  ASSUME NEW x1 \in Int, NEW y1 \in Int, NEW x2 \in Int, NEW y2 \in Int,
         NEW k \in DOMAIN draw_line(x1, y1, x2, y2), NEW c, c = draw_line(x1, y1, x2, y2)[k]
  PROVE  /\ c[1] \in Int /\ c[2] \in Int
         /\ (x1 <= c[1] /\ c[1] <= x2) \/ (x2 <= c[1] /\ c[1] <= x1)
         /\ (y1 <= c[2] /\ c[2] <= y2) \/ (y2 <= c[2] /\ c[2] <= y1)
<1>1. PICK W \in Nat, D \in Nat : W = absoluteVal(x2 - x1) /\ D = absoluteVal(y2 - y1)
  BY TowardIs
<1>2. PICK L, p : L = Longer(W, D) /\ p = draw_line(x1, y1, x2, y2)
  OBVIOUS
<1>3. IsLine(p, x1, y1, x2, y2, W, D, L)
  BY <1>1, <1>2, LineFacts, Zenon
<1>4. k \in 1..L + 1 /\ c = p[k]
  BY <1>2, <1>3 DEF IsLine
<1>5. PICK a \in 0..W, b \in 0..D : p[k] = <<Toward(x1, x2, a), Toward(y1, y2, b)>>
  BY <1>3, <1>4 DEF IsLine
<1>6. c[1] = Toward(x1, x2, a) /\ c[2] = Toward(y1, y2, b)
  BY <1>4, <1>5
<1>7. \A i \in 0..W : /\ Toward(x1, x2, i) \in Int
                      /\ \/ x1 <= Toward(x1, x2, i) /\ Toward(x1, x2, i) <= x2
                         \/ x2 <= Toward(x1, x2, i) /\ Toward(x1, x2, i) <= x1
  BY <1>1 DEF Toward, absoluteVal
<1>8. \A i \in 0..D : /\ Toward(y1, y2, i) \in Int
                      /\ \/ y1 <= Toward(y1, y2, i) /\ Toward(y1, y2, i) <= y2
                         \/ y2 <= Toward(y1, y2, i) /\ Toward(y1, y2, i) <= y1
  BY <1>1 DEF Toward, absoluteVal
<1>9. QED
  BY <1>6, <1>7, <1>8

\* What is plotted of it.
LEMMA PlotIs ==
  ASSUME NEW points
  PROVE  \A i : i \in Plot(points) <=>
           \E k \in DOMAIN points :
             /\ ~(points[k][1] < 0) /\ ~(points[k][2] < 0)
             /\ ~(points[k][1] > WIDTH) /\ ~(points[k][2] > HEIGHT)
             /\ i = points[k][2] * WIDTH + points[k][1]
BY DEF Plot, draw_pixel

LEMMA PlottedInPlace == IsDrawn(drawn) => PixelsInPlace
<1> SUFFICES ASSUME IsDrawn(drawn), drawn.from[1] < WIDTH, drawn.to[1] < WIDTH,
                    drawn.from[2] < HEIGHT, drawn.to[2] < HEIGHT
             PROVE  Plot(drawn.points) = {drawn.points[k][2] * WIDTH + drawn.points[k][1] :
                      k \in {j \in DOMAIN drawn.points : drawn.points[j][1] >= 0 /\ drawn.points[j][2] >= 0}}
  BY DEF PixelsInPlace
<1>1. PICK x1 \in Int, y1 \in Int, x2 \in Int, y2 \in Int :
        drawn = [from |-> <<x1, y1>>, to |-> <<x2, y2>>, points |-> draw_line(x1, y1, x2, y2)]
  BY DEF IsDrawn
<1>2. x1 < WIDTH /\ x2 < WIDTH /\ y1 < HEIGHT /\ y2 < HEIGHT
  BY <1>1
<1>3. PICK p : p = draw_line(x1, y1, x2, y2) /\ drawn.points = p
  BY <1>1
<1>4. \A k \in DOMAIN p : /\ p[k][1] \in Int /\ p[k][2] \in Int
                          /\ ~(p[k][1] > WIDTH) /\ ~(p[k][2] > HEIGHT)
  <2> SUFFICES ASSUME NEW k \in DOMAIN p
               PROVE  /\ p[k][1] \in Int /\ p[k][2] \in Int
                      /\ ~(p[k][1] > WIDTH) /\ ~(p[k][2] > HEIGHT)
    OBVIOUS
  <2>1. PICK c : c = p[k]
    OBVIOUS
  <2>2. /\ c[1] \in Int /\ c[2] \in Int
        /\ (x1 <= c[1] /\ c[1] <= x2) \/ (x2 <= c[1] /\ c[1] <= x1)
        /\ (y1 <= c[2] /\ c[2] <= y2) \/ (y2 <= c[2] /\ c[2] <= y1)
    BY <1>3, <2>1, LineInBox
  <2>3. QED
    BY <1>2, <2>1, <2>2, GraphicsAssumption
<1>5. \A k \in DOMAIN p : (p[k][1] >= 0 <=> ~(p[k][1] < 0)) /\ (p[k][2] >= 0 <=> ~(p[k][2] < 0))
  BY <1>4
<1>6. \A i : i \in Plot(p) <=>
        \E k \in DOMAIN p : p[k][1] >= 0 /\ p[k][2] >= 0 /\ i = p[k][2] * WIDTH + p[k][1]
  <2>1. ASSUME NEW i
        PROVE  i \in Plot(p) <=>
                 \E k \in DOMAIN p : /\ ~(p[k][1] < 0) /\ ~(p[k][2] < 0)
                                     /\ ~(p[k][1] > WIDTH) /\ ~(p[k][2] > HEIGHT)
                                     /\ i = p[k][2] * WIDTH + p[k][1]
    BY PlotIs
  <2>2. QED
    BY <1>4, <1>5, <2>1, Zenon
<1>7. QED
  BY <1>3, <1>6, Zenon

\* A line within the picture leaves nothing behind it.
LEMMA PlotInScreen ==
  ASSUME NEW x1 \in 0..SIDE, NEW y1 \in 0..SIDE, NEW x2 \in 0..SIDE, NEW y2 \in 0..SIDE
  PROVE  Plot(draw_line(x1, y1, x2, y2)) \subseteq 0..Cells - 1
<1>1. PICK p : p = draw_line(x1, y1, x2, y2)
  OBVIOUS
<1>2. ASSUME NEW i \in Plot(p) PROVE i \in 0..Cells - 1
  <2>1. PICK k \in DOMAIN p : i = p[k][2] * WIDTH + p[k][1]
    BY PlotIs
  <2>2. PICK c : c = p[k]
    OBVIOUS
  <2>3. /\ c[1] \in Int /\ c[2] \in Int
        /\ (x1 <= c[1] /\ c[1] <= x2) \/ (x2 <= c[1] /\ c[1] <= x1)
        /\ (y1 <= c[2] /\ c[2] <= y2) \/ (y2 <= c[2] /\ c[2] <= y1)
    <3>1. x1 \in Int /\ y1 \in Int /\ x2 \in Int /\ y2 \in Int
      BY GraphicsAssumption
    <3>2. QED
      BY <1>1, <2>2, <3>1, LineInBox
  <2>4. PICK a \in Nat, b \in Nat : a = c[1] /\ b = c[2] /\ a < WIDTH /\ b < HEIGHT
    BY <2>3, GraphicsAssumption
  <2>5. i = b * WIDTH + a
    BY <2>1, <2>2, <2>4
  <2>6. PICK w \in Nat, h \in Nat : w = WIDTH /\ h = HEIGHT
    BY GraphicsAssumption
  <2>7. b * w + a \in Nat /\ b * w + a < w * h
    <3>1. (b + 1) * w <= h * w
      <4>1. \A x, y, z \in Nat : x <= y => x * z <= y * z
        OBVIOUS
      <4>2. QED
        BY <2>4, <2>6, <4>1
    <3>2. (b + 1) * w = b * w + w /\ h * w = w * h
      OBVIOUS
    <3>3. PICK u \in Nat, v \in Nat : u = b * w /\ v = w * h
      OBVIOUS
    <3>4. QED
      BY <2>4, <2>6, <3>1, <3>2, <3>3
  <2>8. QED
    BY <2>5, <2>6, <2>7 DEF Cells
<1>3. QED
  BY <1>1, <1>2

-----------------------------------------------------------------------------
Call(t, n, parity, dist) == [t |-> t, n |-> n, parity |-> parity, dist |-> dist]

\* What hilbert_recurse does, with h for the calls in it.
Recurse(h, c) ==
  LET again(t, parity) == h[[t |-> t, n |-> c.n - 1, parity |-> parity, dist |-> c.dist]]
      first == again(turn_left(c.t, c.parity * 90), -c.parity)
      second == again(turn_left(go_forward(first, c.dist), -c.parity * 90), c.parity)
      third == again(go_forward(second, c.dist), c.parity)
      fourth == again(go_forward(turn_left(third, -c.parity * 90), c.dist), -c.parity)
  IN IF c.n = 0 THEN c.t ELSE turn_left(fourth, c.parity * 90)

LEMMA RecurseIs == hilbert_recurse = CHOOSE h : h = [c \in Calls |-> Recurse(h, c)]
BY DEF hilbert_recurse, Recurse

LEMMA CallsOfCalls ==
  ASSUME NEW c \in Calls, c.n # 0, NEW t \in Turtles, NEW parity \in {c.parity, -c.parity}
  PROVE  Call(t, c.n - 1, parity, c.dist) \in Calls
<1>1. c.n \in 0..MaxCurve /\ c.parity \in {1, -1} /\ c.dist \in Nat /\ MaxCurve \in Nat
  BY GraphicsAssumption DEF Calls
<1>2. c.n - 1 \in 0..MaxCurve /\ parity \in {1, -1}
  BY <1>1
<1>3. QED
  BY <1>1, <1>2 DEF Call, Calls

LEMMA TurtleMoves ==
  ASSUME NEW t \in Turtles, NEW dist \in Nat
  PROVE  go_forward(t, dist) \in Turtles
<1>1. t.x \in Int /\ t.y \in Int /\ t.direction \in Int /\ t.corners \in Seq(Int \X Int)
  BY DEF Turtles
<1>2. PICK x \in Int, y \in Int :
        /\ x = t.x + (CASE t.direction = 0 -> dist [] t.direction = 180 -> -dist [] OTHER -> 0)
        /\ y = t.y + (CASE t.direction = 90 -> dist [] t.direction = 270 -> -dist [] OTHER -> 0)
  BY <1>1
<1>3. go_forward(t, dist) = [t EXCEPT !.x = x, !.y = y, !.corners = Append(@, <<x, y>>)]
  BY <1>2 DEF go_forward
<1>4. Append(t.corners, <<x, y>>) \in Seq(Int \X Int)
  BY <1>1
<1>5. QED
  BY <1>3, <1>4 DEF Turtles

LEMMA TurtleTurns ==
  ASSUME NEW t \in Turtles, NEW degrees \in Int
  PROVE  turn_left(t, degrees) \in Turtles
<1>1. t.direction \in Int
  BY DEF Turtles
<1>2. PICK d \in Int : d = (t.direction + degrees + 360) % 360
  <2>1. \A z \in Int : z % 360 \in Int
    OBVIOUS
  <2>2. QED
    BY <1>1, <2>1
<1>3. turn_left(t, degrees) = [t EXCEPT !.direction = d]
  BY <1>2 DEF turn_left
<1>4. QED
  BY <1>3 DEF Turtles

\* Only what h says of the calls of the order below counts.
LEMMA RecurseUses ==
  ASSUME NEW c \in Calls, c.n # 0, NEW g \in [Calls -> Turtles], NEW h \in [Calls -> Turtles],
         \A b \in Calls : b.n = c.n - 1 => g[b] = h[b]
  PROVE  Recurse(g, c) = Recurse(h, c) /\ Recurse(g, c) \in Turtles
<1> DEFINE again(k, t, parity) == k[Call(t, c.n - 1, parity, c.dist)]
<1>1. c.t \in Turtles /\ c.dist \in Nat /\ c.parity * 90 \in Int /\ -c.parity * 90 \in Int
  BY DEF Calls
<1>2. ASSUME NEW t \in Turtles, NEW parity \in {c.parity, -c.parity}
      PROVE  again(g, t, parity) = again(h, t, parity) /\ again(g, t, parity) \in Turtles
  <2>1. Call(t, c.n - 1, parity, c.dist) \in Calls /\ Call(t, c.n - 1, parity, c.dist).n = c.n - 1
    BY CallsOfCalls DEF Call
  <2>2. QED
    BY <2>1
<1> DEFINE first(k) == again(k, turn_left(c.t, c.parity * 90), -c.parity)
           second(k) == again(k, turn_left(go_forward(first(k), c.dist), -c.parity * 90), c.parity)
           third(k) == again(k, go_forward(second(k), c.dist), c.parity)
           fourth(k) == again(k, go_forward(turn_left(third(k), -c.parity * 90), c.dist), -c.parity)
<1>3. \A k : Recurse(k, c) = turn_left(fourth(k), c.parity * 90)
  BY DEF Recurse, Call
<1> HIDE DEF again
<1>4. first(g) = first(h) /\ first(g) \in Turtles
  <2>1. turn_left(c.t, c.parity * 90) \in Turtles
    BY <1>1, TurtleTurns
  <2>2. QED
    BY <1>2, <2>1
<1> HIDE DEF first
<1>5. second(g) = second(h) /\ second(g) \in Turtles
  <2>1. turn_left(go_forward(first(g), c.dist), -c.parity * 90) \in Turtles
    BY <1>1, <1>4, TurtleMoves, TurtleTurns
  <2>2. QED
    BY <1>2, <1>4, <2>1
<1> HIDE DEF second
<1>6. third(g) = third(h) /\ third(g) \in Turtles
  <2>1. go_forward(second(g), c.dist) \in Turtles
    BY <1>1, <1>5, TurtleMoves
  <2>2. QED
    BY <1>2, <1>5, <2>1
<1> HIDE DEF third
<1>7. fourth(g) = fourth(h) /\ fourth(g) \in Turtles
  <2>1. go_forward(turn_left(third(g), -c.parity * 90), c.dist) \in Turtles
    BY <1>1, <1>6, TurtleMoves, TurtleTurns
  <2>2. QED
    BY <1>2, <1>6, <2>1
<1> HIDE DEF fourth
<1>8. QED
  BY <1>1, <1>3, <1>7, TurtleTurns

\* The recursion ends, so that there is such a function.
LEMMA RecursionEnds == \E g \in [Calls -> Turtles] : g = [c \in Calls |-> Recurse(g, c)]
<1> DEFINE good(g, k) == g \in [Calls -> Turtles] /\ \A c \in Calls : c.n <= k => g[c] = Recurse(g, c)
           bad == {k \in Nat : ~\E g : good(g, k)}
<1>1. \A c \in Calls : c.n \in Nat /\ c.n <= MaxCurve /\ c.t \in Turtles
  BY GraphicsAssumption DEF Calls
<1>2. \A g, c : c.n = 0 => Recurse(g, c) = c.t
  BY DEF Recurse
<1>3. bad = {}
  <2> SUFFICES ASSUME bad # {} PROVE FALSE
    OBVIOUS
  <2>1. PICK k \in bad : \A y \in bad : k <= y
    <3>1. bad \in SUBSET Nat
      OBVIOUS
    <3> HIDE DEF bad
    <3>2. QED
      BY <3>1, Least
  <2>2. k # 0
    <3>1. PICK g : g = [c \in Calls |-> c.t]
      OBVIOUS
    <3>2. g \in [Calls -> Turtles] /\ \A c \in Calls : g[c] = c.t
      BY <1>1, <3>1
    <3>3. good(g, 0)
      BY <1>1, <1>2, <3>2
    <3>4. QED
      BY <2>1, <3>3
  <2>3. k \in Nat /\ k - 1 \in Nat /\ k - 1 \notin bad
    BY <2>1, <2>2
  <2>4. PICK g : good(g, k - 1)
    BY <2>3
  <2>5. PICK h : h = [c \in Calls |-> Recurse(g, c)]
    OBVIOUS
  <2>6. ASSUME NEW c \in Calls PROVE Recurse(g, c) \in Turtles /\ h[c] = Recurse(g, c)
    <3>1. CASE c.n = 0
      BY <1>1, <1>2, <2>5, <3>1
    <3>2. CASE c.n # 0
      BY <2>4, <2>5, <3>2, RecurseUses
    <3>3. QED
      BY <3>1, <3>2
  <2>7. h \in [Calls -> Turtles]
    BY <2>5, <2>6
  <2>8. ASSUME NEW c \in Calls, c.n <= k PROVE h[c] = Recurse(h, c)
    <3>1. CASE c.n = 0
      BY <1>2, <2>6, <3>1
    <3>2. CASE c.n # 0
      <4>1. ASSUME NEW b \in Calls, b.n = c.n - 1 PROVE g[b] = h[b]
        <5>1. b.n <= k - 1
          BY <1>1, <2>3, <2>8, <4>1
        <5>2. QED
          BY <2>4, <2>6, <5>1
      <4>2. Recurse(g, c) = Recurse(h, c)
        BY <2>4, <2>7, <3>2, <4>1, RecurseUses
      <4>3. QED
        BY <2>6, <4>2
    <3>3. QED
      BY <3>1, <3>2
  <2>9. good(h, k)
    BY <2>7, <2>8
  <2>10. QED
    BY <2>1, <2>9
<1>4. PICK g : good(g, MaxCurve)
  BY <1>3, GraphicsAssumption
<1>5. g = [c \in Calls |-> g[c]] /\ \A c \in Calls : g[c] = Recurse(g, c)
  BY <1>1, <1>4
<1>6. QED
  BY <1>4, <1>5

LEMMA RecurseUnfolds == \A c \in Calls : hilbert_recurse[c] = Recurse(hilbert_recurse, c)
<1> DEFINE B(h) == [c \in Calls |-> Recurse(h, c)]
<1>1. PICK g : g = B(g)
  BY RecursionEnds
<1>2. hilbert_recurse = CHOOSE h : h = B(h)
  BY RecurseIs
<1>3. hilbert_recurse = B(hilbert_recurse)
  <2> HIDE DEF B
  <2>1. QED
    BY <1>1, <1>2
<1>4. QED
  BY <1>3

-----------------------------------------------------------------------------
\* The points of a grid of m by m, from (x, y) on, with (e1, e2) from one point to the
\* next along one side and (f1, f2) along the other.
Pt(x, y, e1, e2, f1, f2, i, j) == <<x + i * e1 + j * f1, y + i * e2 + j * f2>>
Block(x, y, e1, e2, f1, f2, m, a, b) ==
  {Pt(x, y, e1, e2, f1, f2, i, j) : i \in a..a + m - 1, j \in b..b + m - 1}
Grid(x, y, e1, e2, f1, f2, m) == Block(x, y, e1, e2, f1, f2, m, 0, 0)

LEMMA Spread ==
  ASSUME NEW a \in Int, NEW b \in Int, NEW c \in Int
  PROVE  /\ (a + b) * c = a * c + b * c /\ (a - b) * c = a * c - b * c
         /\ a * (-c) = -(a * c) /\ 1 * c = c /\ 0 * c = 0
         /\ a * c \in Int
OBVIOUS

\* One coordinate of a point of each of the four blocks of the grid of twice the size.
LEMMA Corners ==
  ASSUME NEW x \in Int, NEW e \in Int, NEW f \in Int, NEW m \in Int, NEW i \in Int, NEW j \in Int
  PROVE  /\ x + i * f + j * e = x + j * e + i * f
         /\ (x + m * f) + i * e + j * f = x + i * e + (m + j) * f
         /\ (x + m * f + m * e) + i * e + j * f = x + (m + i) * e + (m + j) * f
         /\ (x + (m - 1) * f + (m + m - 1) * e) + i * (-f) + j * (-e)
              = x + (m + m - 1 - j) * e + (m - 1 - i) * f
<1>1. PICK ie \in Int, je \in Int, me \in Int : ie = i * e /\ je = j * e /\ me = m * e
  BY Spread
<1>2. PICK if \in Int, jf \in Int, mf \in Int : if = i * f /\ jf = j * f /\ mf = m * f
  BY Spread
<1>3. (m + j) * f = mf + jf /\ (m + i) * e = me + ie
  BY <1>1, <1>2, Spread
<1>4. (m - 1) * f = mf - f /\ (m + m - 1) * e = me + me - e
  BY <1>1, <1>2
<1>5. i * (-f) = -if /\ j * (-e) = -je
  BY <1>1, <1>2, Spread
<1>6. (m + m - 1 - j) * e = me + me - e - je /\ (m - 1 - i) * f = mf - f - if
  <2>1. (m + m - 1 - j) * e = (m + m - 1) * e - j * e /\ (m - 1 - i) * f = (m - 1) * f - i * f
    BY Spread
  <2>2. QED
    BY <1>1, <1>2, <1>4, <2>1
<1>7. QED
  BY <1>1, <1>2, <1>3, <1>4, <1>5, <1>6

LEMMA InBlock ==
  ASSUME NEW x, NEW y, NEW e1, NEW e2, NEW f1, NEW f2, NEW m, NEW a, NEW b
  PROVE  \A p : p \in Block(x, y, e1, e2, f1, f2, m, a, b) <=>
                 \E i \in a..a + m - 1, j \in b..b + m - 1 : p = Pt(x, y, e1, e2, f1, f2, i, j)
BY DEF Block

\* The four blocks.
FourBlocksOf(x, y, e1, e2, f1, f2, m) ==
  /\ Grid(x, y, f1, f2, e1, e2, m) = Block(x, y, e1, e2, f1, f2, m, 0, 0)
  /\ Grid(x + m * f1, y + m * f2, e1, e2, f1, f2, m) = Block(x, y, e1, e2, f1, f2, m, 0, m)
  /\ Grid(x + m * f1 + m * e1, y + m * f2 + m * e2, e1, e2, f1, f2, m) = Block(x, y, e1, e2, f1, f2, m, m, m)
  /\ Grid(x + (m - 1) * f1 + (m + m - 1) * e1, y + (m - 1) * f2 + (m + m - 1) * e2, -f1, -f2, -e1, -e2, m)
       = Block(x, y, e1, e2, f1, f2, m, m, 0)

LEMMA FourBlocks ==
  ASSUME NEW x \in Int, NEW y \in Int, NEW e1 \in Int, NEW e2 \in Int, NEW f1 \in Int, NEW f2 \in Int,
         NEW m \in Nat \ {0}
  PROVE  FourBlocksOf(x, y, e1, e2, f1, f2, m)
<1> DEFINE N == 0..0 + m - 1
           P(i, j) == Pt(x, y, e1, e2, f1, f2, i, j)
<1>0. m \in Int /\ m - 1 \in Int /\ \A i \in N : i \in Int
  OBVIOUS
<1>1. Grid(x, y, f1, f2, e1, e2, m) = Block(x, y, e1, e2, f1, f2, m, 0, 0)
  <2>1. \A i, j \in N : Pt(x, y, f1, f2, e1, e2, i, j) = P(j, i)
    BY <1>0, Corners DEF Pt
  <2>2. {Pt(x, y, f1, f2, e1, e2, i, j) : i \in N, j \in N} = {P(i, j) : i \in N, j \in N}
    BY <2>1
  <2>3. QED
    BY <2>2 DEF Grid, Block
<1>2. Grid(x + m * f1, y + m * f2, e1, e2, f1, f2, m) = Block(x, y, e1, e2, f1, f2, m, 0, m)
  <2>1. \A i, j \in N : Pt(x + m * f1, y + m * f2, e1, e2, f1, f2, i, j) = P(i, m + j)
    BY <1>0, Corners DEF Pt
  <2> DEFINE Q == Grid(x + m * f1, y + m * f2, e1, e2, f1, f2, m)
             R == Block(x, y, e1, e2, f1, f2, m, 0, m)
  <2>2. \A p : p \in Q <=> \E i, j \in N : p = Pt(x + m * f1, y + m * f2, e1, e2, f1, f2, i, j)
    BY InBlock DEF Grid
  <2>3. \A p : p \in R <=> \E i \in N, j \in m..m + m - 1 : p = P(i, j)
    BY InBlock
  <2>4. \A j \in N : m + j \in m..m + m - 1
    BY <1>0
  <2>5. \A j \in m..m + m - 1 : j - m \in N /\ m + (j - m) = j
    BY <1>0
  <2> HIDE DEF N, P
  <2> HIDE DEF Q, R
  <2>6. ASSUME NEW p \in Q PROVE p \in R
    <3>1. PICK i \in N, j \in N : p = Pt(x + m * f1, y + m * f2, e1, e2, f1, f2, i, j)
      BY <2>2
    <3>2. p = P(i, m + j) /\ m + j \in m..m + m - 1
      BY <2>1, <2>4, <3>1
    <3>3. QED
      BY <2>3, <3>2
  <2>7. ASSUME NEW p \in R PROVE p \in Q
    <3>1. PICK i \in N, k \in m..m + m - 1 : p = P(i, k)
      BY <2>3
    <3>2. k - m \in N /\ m + (k - m) = k
      BY <2>5
    <3>3. p = Pt(x + m * f1, y + m * f2, e1, e2, f1, f2, i, k - m)
      BY <2>1, <3>1, <3>2
    <3>4. QED
      BY <2>2, <3>2, <3>3
  <2>8. Q = R
    BY <2>6, <2>7
  <2>9. QED
    BY <2>8 DEF Q, R
<1>3. Grid(x + m * f1 + m * e1, y + m * f2 + m * e2, e1, e2, f1, f2, m) = Block(x, y, e1, e2, f1, f2, m, m, m)
  <2>1. \A i, j \in N : Pt(x + m * f1 + m * e1, y + m * f2 + m * e2, e1, e2, f1, f2, i, j) = P(m + i, m + j)
    BY <1>0, Corners DEF Pt
  <2>2. {Pt(x + m * f1 + m * e1, y + m * f2 + m * e2, e1, e2, f1, f2, i, j) : i \in N, j \in N}
          = {P(i, j) : i \in m..m + m - 1, j \in m..m + m - 1}
    <3>1. \A i \in N : m + i \in m..m + m - 1
      BY <1>0
    <3>2. \A i \in m..m + m - 1 : i - m \in N /\ m + (i - m) = i
      BY <1>0
    <3>3. QED
      BY <1>0, <2>1, <3>1, <3>2
  <2>3. QED
    BY <2>2 DEF Grid, Block
<1>4. Grid(x + (m - 1) * f1 + (m + m - 1) * e1, y + (m - 1) * f2 + (m + m - 1) * e2, -f1, -f2, -e1, -e2, m)
              = Block(x, y, e1, e2, f1, f2, m, m, 0)
  <2> DEFINE X == x + (m - 1) * f1 + (m + m - 1) * e1
             Y == y + (m - 1) * f2 + (m + m - 1) * e2
  <2>1. \A i, j \in N : Pt(X, Y, -f1, -f2, -e1, -e2, i, j) = P(m + m - 1 - j, m - 1 - i)
    BY <1>0, Corners DEF Pt
  <2>2. {Pt(X, Y, -f1, -f2, -e1, -e2, i, j) : i \in N, j \in N}
          = {P(i, j) : i \in m..m + m - 1, j \in 0..0 + m - 1}
    <3>1. \A i \in N : m + m - 1 - i \in m..m + m - 1 /\ m - 1 - i \in N
      BY <1>0
    <3>2. \A i \in m..m + m - 1 : m + m - 1 - i \in N /\ m + m - 1 - (m + m - 1 - i) = i
      BY <1>0
    <3>3. \A i \in N : m - 1 - i \in N /\ m - 1 - (m - 1 - i) = i
      BY <1>0
    <3>4. ASSUME NEW p, p \in {Pt(X, Y, -f1, -f2, -e1, -e2, i, j) : i \in N, j \in N}
          PROVE  p \in {P(i, j) : i \in m..m + m - 1, j \in 0..0 + m - 1}
      <4>1. PICK i \in N, j \in N : p = Pt(X, Y, -f1, -f2, -e1, -e2, i, j)
        BY <3>4
      <4>2. p = P(m + m - 1 - j, m - 1 - i)
        BY <2>1, <4>1
      <4>3. QED
        BY <3>1, <3>3, <4>2
    <3>5. ASSUME NEW p, p \in {P(i, j) : i \in m..m + m - 1, j \in 0..0 + m - 1}
          PROVE  p \in {Pt(X, Y, -f1, -f2, -e1, -e2, i, j) : i \in N, j \in N}
      <4>1. PICK k \in m..m + m - 1, l \in 0..0 + m - 1 : p = P(k, l)
        BY <3>5
      <4>2. m - 1 - l \in N /\ m + m - 1 - k \in N
        BY <3>2, <3>3
      <4>3. P(k, l) = Pt(X, Y, -f1, -f2, -e1, -e2, m - 1 - l, m + m - 1 - k)
        BY <2>1, <3>2, <3>3, <4>2
      <4>4. QED
        BY <4>1, <4>2, <4>3
    <3> DEFINE Q == {Pt(X, Y, -f1, -f2, -e1, -e2, i, j) : i \in N, j \in N}
               R == {P(i, j) : i \in m..m + m - 1, j \in 0..0 + m - 1}
    <3>6. (\A p : p \in Q => p \in R) /\ (\A p : p \in R => p \in Q)
      BY <3>4, <3>5
    <3> HIDE DEF Q, R
    <3>7. Q = R
      BY <3>6
    <3>8. QED
      BY <3>7 DEF Q, R
  <2>3. QED
    BY <2>2 DEF Grid, Block
<1>5. QED
  BY <1>1, <1>2, <1>3, <1>4, Zenon DEF FourBlocksOf

LEMMA BlocksMakeGrid ==
  ASSUME NEW x, NEW y, NEW e1, NEW e2, NEW f1, NEW f2, NEW m \in Nat \ {0}
  PROVE  Grid(x, y, e1, e2, f1, f2, m + m)
           = Block(x, y, e1, e2, f1, f2, m, 0, 0) \cup Block(x, y, e1, e2, f1, f2, m, 0, m)
               \cup Block(x, y, e1, e2, f1, f2, m, m, m) \cup Block(x, y, e1, e2, f1, f2, m, m, 0)
<1> DEFINE P(i, j) == Pt(x, y, e1, e2, f1, f2, i, j)
           low == 0..0 + m - 1
           high == m..m + m - 1
<1>1. 0..0 + (m + m) - 1 = low \cup high
  OBVIOUS
<1> HIDE DEF low, high
<1>2. {P(i, j) : i \in low \cup high, j \in low \cup high}
        = {P(i, j) : i \in low, j \in low} \cup {P(i, j) : i \in low, j \in high}
            \cup {P(i, j) : i \in high, j \in high} \cup {P(i, j) : i \in high, j \in low}
  OBVIOUS
<1>3. Grid(x, y, e1, e2, f1, f2, m + m) = {P(i, j) : i \in low \cup high, j \in low \cup high}
  <2> DEFINE both == 0..0 + (m + m) - 1
  <2>1. Grid(x, y, e1, e2, f1, f2, m + m) = {P(i, j) : i \in both, j \in both}
    BY DEF Grid, Block
  <2>2. both = low \cup high
    BY <1>1
  <2> HIDE DEF both
  <2>3. QED
    BY <2>1, <2>2
<1>4. /\ Block(x, y, e1, e2, f1, f2, m, 0, 0) = {P(i, j) : i \in low, j \in low}
      /\ Block(x, y, e1, e2, f1, f2, m, 0, m) = {P(i, j) : i \in low, j \in high}
      /\ Block(x, y, e1, e2, f1, f2, m, m, m) = {P(i, j) : i \in high, j \in high}
      /\ Block(x, y, e1, e2, f1, f2, m, m, 0) = {P(i, j) : i \in high, j \in low}
  BY DEF Block, low, high
<1>5. QED
  BY <1>2, <1>3, <1>4

-----------------------------------------------------------------------------
\* c is s with n points more: those in G.
Adds(s, c, n, G) ==
  /\ c \in Seq(Int \X Int) /\ Len(c) = Len(s) + n
  /\ \A k \in 1..Len(s) : c[k] = s[k]
  /\ {c[k] : k \in Len(s) + 1..Len(c)} = G

LEMMA AddsOne ==
  ASSUME NEW s \in Seq(Int \X Int), NEW p \in Int \X Int
  PROVE  Adds(s, Append(s, p), 1, {p})
<1>1. PICK c : c = Append(s, p)
  OBVIOUS
<1> DEFINE N == Len(s)
<1>2. N \in Nat /\ c \in Seq(Int \X Int) /\ Len(c) = N + 1 /\ c[N + 1] = p /\ \A k \in 1..N : c[k] = s[k]
  BY <1>1
<1>3. {c[k] : k \in N + 1..Len(c)} = {p}
  <2>1. N + 1..Len(c) = {N + 1}
    BY <1>2
  <2>2. QED
    BY <1>2, <2>1
<1>4. QED
  BY <1>1, <1>2, <1>3 DEF Adds

LEMMA AddsMore ==
  ASSUME NEW s \in Seq(Int \X Int), NEW c, NEW d, NEW n \in Nat, NEW m \in Nat, NEW G, NEW H,
         Adds(s, c, n, G), Adds(c, d, m, H)
  PROVE  Adds(s, d, n + m, G \cup H)
<1>1. PICK N \in Nat, A \in Nat, B \in Nat : N = Len(s) /\ A = Len(c) /\ B = Len(d)
  BY DEF Adds
<1>2. A = N + n /\ B = A + m /\ d \in Seq(Int \X Int)
  BY <1>1 DEF Adds
<1>3. \A k \in 1..A : d[k] = c[k]
  BY <1>1 DEF Adds
<1>4. \A k \in 1..N : d[k] = s[k]
  BY <1>1, <1>2, <1>3 DEF Adds
<1>5. {c[k] : k \in N + 1..A} = G /\ {d[k] : k \in A + 1..B} = H
  BY <1>1 DEF Adds
<1>6. {d[k] : k \in N + 1..B} = G \cup H
  <2>1. {d[k] : k \in N + 1..A} = G
    <3>1. \A k \in N + 1..A : d[k] = c[k]
      BY <1>1, <1>3
    <3>2. QED
      BY <1>5, <3>1
  <2>2. N + 1..B = (N + 1..A) \cup (A + 1..B)
    BY <1>1, <1>2
  <2> DEFINE I == N + 1..A
             J == A + 1..B
  <2> HIDE DEF I, J
  <2>3. {d[k] : k \in I \cup J} = {d[k] : k \in I} \cup {d[k] : k \in J}
    OBVIOUS
  <2>4. QED
    BY <1>5, <2>1, <2>2, <2>3 DEF I, J
<1>7. QED
  BY <1>1, <1>2, <1>4, <1>6 DEF Adds

At(x, y, d, cs) == [x |-> x, y |-> y, direction |-> d, corners |-> cs]
Face(t, d) == At(t.x, t.y, d, t.corners)
Go(t, e1, e2) == At(t.x + e1, t.y + e2, t.direction, Append(t.corners, <<t.x + e1, t.y + e2>>))

\* From (x, y) to r the turtle visits a grid, once every point, and ends at its far end.
WalkFrom(x, y, d, cs, r, e1, e2, f1, f2, m) ==
  \E c, G : /\ r = At(x + (m - 1) * e1, y + (m - 1) * e2, d, c)
            /\ Adds(cs, c, m * m - 1, G)
            /\ G \cup {<<x, y>>} = Grid(x, y, e1, e2, f1, f2, m)
Walk(t, r, e1, e2, f1, f2, m) == WalkFrom(t.x, t.y, t.direction, t.corners, r, e1, e2, f1, f2, m)

LEMMA WalkIs ==
  ASSUME NEW x, NEW y, NEW d, NEW cs, NEW r, NEW e1, NEW e2, NEW f1, NEW f2, NEW m,
         NEW t, t = At(x, y, d, cs)
  PROVE  Walk(t, r, e1, e2, f1, f2, m) <=> WalkFrom(x, y, d, cs, r, e1, e2, f1, f2, m)
<1>1. t.x = x /\ t.y = y /\ t.direction = d /\ t.corners = cs
  BY DEF At
<1>2. QED
  BY <1>1, Zenon DEF Walk

\* The four walks of an order and the three steps between them are a walk of the next.
LEMMA FourWalks ==
  ASSUME NEW x \in Int, NEW y \in Int, NEW e1 \in Int, NEW e2 \in Int, NEW f1 \in Int, NEW f2 \in Int,
         NEW m \in Nat \ {0}, NEW d, NEW dl, NEW dr, NEW cs \in Seq(Int \X Int),
         NEW first, Walk(At(x, y, dl, cs), first, f1, f2, e1, e2, m),
         NEW second, Walk(Face(Go(first, f1, f2), d), second, e1, e2, f1, f2, m),
         NEW third, Walk(Go(second, e1, e2), third, e1, e2, f1, f2, m),
         NEW fourth, Walk(Go(Face(third, dr), -f1, -f2), fourth, -f1, -f2, -e1, -e2, m)
  PROVE  Walk(At(x, y, d, cs), Face(fourth, d), e1, e2, f1, f2, m + m)
<1> DEFINE x2 == x + m * f1
           y2 == y + m * f2
           x3 == x + m * f1 + m * e1
           y3 == y + m * f2 + m * e2
           x4 == x + (m - 1) * f1 + (m + m - 1) * e1
           y4 == y + (m - 1) * f2 + (m + m - 1) * e2
<1>1. /\ x2 \in Int /\ y2 \in Int /\ x3 \in Int /\ y3 \in Int /\ x4 \in Int /\ y4 \in Int
      /\ x + (m - 1) * f1 + f1 = x2 /\ y + (m - 1) * f2 + f2 = y2
      /\ x2 + (m - 1) * e1 + e1 = x3 /\ y2 + (m - 1) * e2 + e2 = y3
      /\ x3 + (m - 1) * e1 + (-f1) = x4 /\ y3 + (m - 1) * e2 + (-f2) = y4
      /\ x4 + (m - 1) * (-f1) = x + (m + m - 1) * e1 /\ y4 + (m - 1) * (-f2) = y + (m + m - 1) * e2
  <2>1. /\ m * e1 \in Int /\ m * e2 \in Int /\ m * f1 \in Int /\ m * f2 \in Int
        /\ (m - 1) * e1 = m * e1 - e1 /\ (m - 1) * e2 = m * e2 - e2
        /\ (m - 1) * f1 = m * f1 - f1 /\ (m - 1) * f2 = m * f2 - f2
        /\ (m - 1) * (-f1) = -(m * f1 - f1) /\ (m - 1) * (-f2) = -(m * f2 - f2)
        /\ (m + m - 1) * e1 = m * e1 + m * e1 - e1 /\ (m + m - 1) * e2 = m * e2 + m * e2 - e2
    OBVIOUS
  <2>2. QED
    BY <2>1
<1> HIDE DEF x2, y2, x3, y3, x4, y4
<1>2. PICK n \in Nat : n = m * m - 1
  <2>1. 1 * m <= m * m
    <3>1. \A a, b, c \in Nat : a <= b => a * c <= b * c
      OBVIOUS
    <3>2. QED
      BY <3>1
  <2>2. PICK q \in Nat : q = m * m
    OBVIOUS
  <2>3. q >= 1
    <3>1. 1 * m = m /\ m >= 1
      OBVIOUS
    <3>2. m <= q
      BY <2>1, <2>2, <3>1, Zenon
    <3>3. QED
      BY <3>1, <3>2
  <2>4. q - 1 \in Nat
    BY <2>3
  <2>5. QED
    BY <2>2, <2>4
<1>3. PICK c1, G1 : /\ first = At(x + (m - 1) * f1, y + (m - 1) * f2, dl, c1)
                    /\ Adds(cs, c1, n, G1)
                    /\ G1 \cup {<<x, y>>} = Grid(x, y, f1, f2, e1, e2, m)
  <2>1. \E c, G : /\ first = At(x + (m - 1) * f1, y + (m - 1) * f2, dl, c)
                  /\ Adds(cs, c, m * m - 1, G)
                  /\ G \cup {<<x, y>>} = Grid(x, y, f1, f2, e1, e2, m)
    <3>1. WalkFrom(x, y, dl, cs, first, f1, f2, e1, e2, m)
      BY WalkIs
    <3>2. QED
      BY <3>1, Zenon DEF WalkFrom
  <2>2. QED
    BY <1>2, <2>1, Zenon
<1>4. Face(Go(first, f1, f2), d) = At(x2, y2, d, Append(c1, <<x2, y2>>))
  BY <1>1, <1>3 DEF At, Face, Go
<1>5. PICK c2, G2 : /\ second = At(x2 + (m - 1) * e1, y2 + (m - 1) * e2, d, c2)
                    /\ Adds(Append(c1, <<x2, y2>>), c2, n, G2)
                    /\ G2 \cup {<<x2, y2>>} = Grid(x2, y2, e1, e2, f1, f2, m)
  <2>1. WalkFrom(x2, y2, d, Append(c1, <<x2, y2>>), second, e1, e2, f1, f2, m)
    BY <1>4, WalkIs
  <2>2. \E c, G : /\ second = At(x2 + (m - 1) * e1, y2 + (m - 1) * e2, d, c)
                  /\ Adds(Append(c1, <<x2, y2>>), c, m * m - 1, G)
                  /\ G \cup {<<x2, y2>>} = Grid(x2, y2, e1, e2, f1, f2, m)
    BY <2>1, Zenon DEF WalkFrom
  <2>3. QED
    BY <1>2, <2>2, Zenon
<1>6. Go(second, e1, e2) = At(x3, y3, d, Append(c2, <<x3, y3>>))
  BY <1>1, <1>5 DEF At, Go
<1>7. PICK c3, G3 : /\ third = At(x3 + (m - 1) * e1, y3 + (m - 1) * e2, d, c3)
                    /\ Adds(Append(c2, <<x3, y3>>), c3, n, G3)
                    /\ G3 \cup {<<x3, y3>>} = Grid(x3, y3, e1, e2, f1, f2, m)
  <2>1. WalkFrom(x3, y3, d, Append(c2, <<x3, y3>>), third, e1, e2, f1, f2, m)
    BY <1>6, WalkIs
  <2>2. \E c, G : /\ third = At(x3 + (m - 1) * e1, y3 + (m - 1) * e2, d, c)
                  /\ Adds(Append(c2, <<x3, y3>>), c, m * m - 1, G)
                  /\ G \cup {<<x3, y3>>} = Grid(x3, y3, e1, e2, f1, f2, m)
    BY <2>1, Zenon DEF WalkFrom
  <2>3. QED
    BY <1>2, <2>2, Zenon
<1>8. Go(Face(third, dr), -f1, -f2) = At(x4, y4, dr, Append(c3, <<x4, y4>>))
  BY <1>1, <1>7 DEF At, Go, Face
<1>9. PICK c4, G4 : /\ fourth = At(x4 + (m - 1) * (-f1), y4 + (m - 1) * (-f2), dr, c4)
                    /\ Adds(Append(c3, <<x4, y4>>), c4, n, G4)
                    /\ G4 \cup {<<x4, y4>>} = Grid(x4, y4, -f1, -f2, -e1, -e2, m)
  <2>1. WalkFrom(x4, y4, dr, Append(c3, <<x4, y4>>), fourth, -f1, -f2, -e1, -e2, m)
    BY <1>8, WalkIs
  <2>2. \E c, G : /\ fourth = At(x4 + (m - 1) * (-f1), y4 + (m - 1) * (-f2), dr, c)
                  /\ Adds(Append(c3, <<x4, y4>>), c, m * m - 1, G)
                  /\ G \cup {<<x4, y4>>} = Grid(x4, y4, -f1, -f2, -e1, -e2, m)
    BY <2>1, Zenon DEF WalkFrom
  <2>3. QED
    BY <1>2, <2>2, Zenon
<1>10. Face(fourth, d) = At(x + (m + m - 1) * e1, y + (m + m - 1) * e2, d, c4)
  BY <1>1, <1>9 DEF At, Face
<1> DEFINE n2 == n + 1
           n3 == n + 1 + n + 1
           n4 == n + 1 + n + 1 + n + 1
           H2 == G1 \cup {<<x2, y2>>}
           H3 == H2 \cup G2 \cup {<<x3, y3>>}
           H4 == H3 \cup G3 \cup {<<x4, y4>>}
<1>11. n2 \in Nat /\ n2 + n \in Nat /\ n3 \in Nat /\ n3 + n \in Nat /\ n4 \in Nat /\ n3 = n2 + n + 1 /\ n4 = n3 + n + 1
  OBVIOUS
<1>12. H3 = (H2 \cup G2) \cup {<<x3, y3>>} /\ H4 = (H3 \cup G3) \cup {<<x4, y4>>}
  OBVIOUS
<1>13. <<x2, y2>> \in Int \X Int /\ <<x3, y3>> \in Int \X Int /\ <<x4, y4>> \in Int \X Int /\ 1 \in Nat
  BY <1>1
<1> HIDE DEF n2, n3, n4, H3, H4
<1>14. Adds(cs, Append(c1, <<x2, y2>>), n2, H2)
  <2>1. c1 \in Seq(Int \X Int)
    BY <1>3 DEF Adds
  <2>2. Adds(c1, Append(c1, <<x2, y2>>), 1, {<<x2, y2>>})
    BY <1>13, <2>1, AddsOne
  <2>3. QED
    BY <1>3, <1>13, <2>2, AddsMore, Zenon DEF n2
<1> HIDE DEF H2
<1>15. Adds(cs, Append(c2, <<x3, y3>>), n3, H3)
  <2>1. c2 \in Seq(Int \X Int)
    BY <1>5 DEF Adds
  <2>2. Adds(c2, Append(c2, <<x3, y3>>), 1, {<<x3, y3>>})
    BY <1>13, <2>1, AddsOne
  <2>3. Adds(cs, c2, n2 + n, H2 \cup G2)
    BY <1>5, <1>11, <1>14, AddsMore, Zenon
  <2>4. QED
    BY <1>11, <1>12, <1>13, <2>2, <2>3, AddsMore, Zenon
<1>16. Adds(cs, Append(c3, <<x4, y4>>), n4, H4)
  <2>1. c3 \in Seq(Int \X Int)
    BY <1>7 DEF Adds
  <2>2. Adds(c3, Append(c3, <<x4, y4>>), 1, {<<x4, y4>>})
    BY <1>13, <2>1, AddsOne
  <2>3. Adds(cs, c3, n3 + n, H3 \cup G3)
    BY <1>7, <1>11, <1>15, AddsMore, Zenon
  <2>4. QED
    BY <1>11, <1>12, <1>13, <2>2, <2>3, AddsMore, Zenon
<1>17. Adds(cs, c4, n4 + n, H4 \cup G4)
  BY <1>9, <1>11, <1>16, AddsMore, Zenon
<1>18. n4 + n = (m + m) * (m + m) - 1
  <2>1. (m + m) * (m + m) = m * m + m * m + m * m + m * m
    OBVIOUS
  <2>2. m * m = n + 1
    BY <1>2
  <2>3. QED
    BY <2>1, <2>2 DEF n4
<1>19. (H4 \cup G4) \cup {<<x, y>>} = Grid(x, y, e1, e2, f1, f2, m + m)
  <2>1. (H4 \cup G4) \cup {<<x, y>>}
          = (G1 \cup {<<x, y>>}) \cup (G2 \cup {<<x2, y2>>}) \cup (G3 \cup {<<x3, y3>>}) \cup (G4 \cup {<<x4, y4>>})
    BY DEF H4, H3, H2
  <2>2. /\ Grid(x, y, f1, f2, e1, e2, m) = Block(x, y, e1, e2, f1, f2, m, 0, 0)
        /\ Grid(x2, y2, e1, e2, f1, f2, m) = Block(x, y, e1, e2, f1, f2, m, 0, m)
        /\ Grid(x3, y3, e1, e2, f1, f2, m) = Block(x, y, e1, e2, f1, f2, m, m, m)
        /\ Grid(x4, y4, -f1, -f2, -e1, -e2, m) = Block(x, y, e1, e2, f1, f2, m, m, 0)
    <3>1. FourBlocksOf(x, y, e1, e2, f1, f2, m)
      BY FourBlocks
    <3>2. QED
      BY <3>1, Zenon DEF FourBlocksOf, x2, y2, x3, y3, x4, y4
  <2>3. Grid(x, y, e1, e2, f1, f2, m + m)
          = Block(x, y, e1, e2, f1, f2, m, 0, 0) \cup Block(x, y, e1, e2, f1, f2, m, 0, m)
               \cup Block(x, y, e1, e2, f1, f2, m, m, m) \cup Block(x, y, e1, e2, f1, f2, m, m, 0)
    BY BlocksMakeGrid
  <2>4. /\ G1 \cup {<<x, y>>} = Block(x, y, e1, e2, f1, f2, m, 0, 0)
        /\ G2 \cup {<<x2, y2>>} = Block(x, y, e1, e2, f1, f2, m, 0, m)
        /\ G3 \cup {<<x3, y3>>} = Block(x, y, e1, e2, f1, f2, m, m, m)
        /\ G4 \cup {<<x4, y4>>} = Block(x, y, e1, e2, f1, f2, m, m, 0)
    BY <1>3, <1>5, <1>7, <1>9, <2>2, Zenon
  <2>5. PICK A, B, C, D : /\ A = Block(x, y, e1, e2, f1, f2, m, 0, 0) /\ B = Block(x, y, e1, e2, f1, f2, m, 0, m)
                         /\ C = Block(x, y, e1, e2, f1, f2, m, m, m) /\ D = Block(x, y, e1, e2, f1, f2, m, m, 0)
    OBVIOUS
  <2>6. (H4 \cup G4) \cup {<<x, y>>} = A \cup B \cup C \cup D
    BY <2>1, <2>4, <2>5, Zenon
  <2>7. Grid(x, y, e1, e2, f1, f2, m + m) = A \cup B \cup C \cup D
    BY <2>3, <2>5, Zenon
  <2>8. QED
    BY <2>6, <2>7, Zenon
<1>20. QED
  <2>1. PICK M : M = m + m
    OBVIOUS
  <2>2. /\ Face(fourth, d) = At(x + (M - 1) * e1, y + (M - 1) * e2, d, c4)
        /\ Adds(cs, c4, M * M - 1, H4 \cup G4)
        /\ (H4 \cup G4) \cup {<<x, y>>} = Grid(x, y, e1, e2, f1, f2, M)
    BY <1>10, <1>17, <1>18, <1>19, <2>1
  <2>3. WalkFrom(x, y, d, cs, Face(fourth, d), e1, e2, f1, f2, M)
    BY <2>2, Zenon DEF WalkFrom
  <2>4. QED
    BY <2>1, <2>3, WalkIs

-----------------------------------------------------------------------------
Directions == {0, 90, 180, 270}
Turned(d, parity) == (d + parity * 90 + 360) % 360
StepX(d, dist) == CASE d = 0 -> dist [] d = 180 -> -dist [] OTHER -> 0
StepY(d, dist) == CASE d = 90 -> dist [] d = 270 -> -dist [] OTHER -> 0

\* A turn to one side and one to the other cancel, and two to the same turn round.
LEMMA Turning ==
  ASSUME NEW d \in Directions, NEW p \in {1, -1}, NEW dist \in Nat
  PROVE  /\ Turned(d, p) \in Directions /\ Turned(d, -p) \in Directions
         /\ Turned(Turned(d, p), -p) = d /\ Turned(Turned(d, -p), p) = d
         /\ StepX(d, dist) \in Int /\ StepY(d, dist) \in Int
         /\ StepX(Turned(d, -p), dist) = -StepX(Turned(d, p), dist)
         /\ StepY(Turned(d, -p), dist) = -StepY(Turned(d, p), dist)
         /\ StepX(Turned(Turned(d, -p), -p), dist) = -StepX(d, dist)
         /\ StepY(Turned(Turned(d, -p), -p), dist) = -StepY(d, dist)
<1>1. /\ Turned(0, 1) = 90 /\ Turned(90, 1) = 180 /\ Turned(180, 1) = 270 /\ Turned(270, 1) = 0
      /\ Turned(0, -1) = 270 /\ Turned(90, -1) = 0 /\ Turned(180, -1) = 90 /\ Turned(270, -1) = 180
  BY DEF Turned
<1>2. /\ StepX(0, dist) = dist /\ StepX(90, dist) = 0 /\ StepX(180, dist) = -dist /\ StepX(270, dist) = 0
      /\ StepY(0, dist) = 0 /\ StepY(90, dist) = dist /\ StepY(180, dist) = 0 /\ StepY(270, dist) = -dist
  BY DEF StepX, StepY
<1>3. (p = 1 /\ -p = -1) \/ (p = -1 /\ -p = 1)
  OBVIOUS
<1>4. d = 0 \/ d = 90 \/ d = 180 \/ d = 270
  BY DEF Directions
<1>5. CASE p = 1 /\ -p = -1
  BY <1>1, <1>2, <1>4, <1>5 DEF Directions
<1>6. CASE p = -1 /\ -p = 1
  <2>1. CASE d = 0
    BY <1>1, <1>2, <1>6, <2>1 DEF Directions
  <2>2. CASE d = 90
    BY <1>1, <1>2, <1>6, <2>2 DEF Directions
  <2>3. CASE d = 180
    BY <1>1, <1>2, <1>6, <2>3 DEF Directions
  <2>4. CASE d = 270
    BY <1>1, <1>2, <1>6, <2>4 DEF Directions
  <2>5. QED
    BY <1>4, <2>1, <2>2, <2>3, <2>4
<1>7. QED
  BY <1>3, <1>5, <1>6

LEMMA TurnAndGo ==
  ASSUME NEW t \in Turtles, NEW p \in {1, -1}, NEW dist \in Nat
  PROVE  /\ t = At(t.x, t.y, t.direction, t.corners)
         /\ turn_left(t, p * 90) = Face(t, Turned(t.direction, p))
         /\ turn_left(t, -p * 90) = Face(t, Turned(t.direction, -p))
         /\ go_forward(t, dist) = Go(t, StepX(t.direction, dist), StepY(t.direction, dist))
<1>1. t = [x |-> t.x, y |-> t.y, direction |-> t.direction, corners |-> t.corners]
  BY DEF Turtles
<1>2. \A d : [t EXCEPT !.direction = d] = At(t.x, t.y, d, t.corners)
  BY <1>1 DEF At
<1>3. -p * 90 = (-p) * 90
  OBVIOUS
<1>4. turn_left(t, p * 90) = Face(t, Turned(t.direction, p))
  BY <1>2 DEF turn_left, Face, Turned
<1>5. turn_left(t, -p * 90) = Face(t, Turned(t.direction, -p))
  BY <1>2, <1>3 DEF turn_left, Face, Turned
<1>7. go_forward(t, dist) = Go(t, StepX(t.direction, dist), StepY(t.direction, dist))
  <2> DEFINE x == t.x + (CASE t.direction = 0 -> dist [] t.direction = 180 -> -dist [] OTHER -> 0)
             y == t.y + (CASE t.direction = 90 -> dist [] t.direction = 270 -> -dist [] OTHER -> 0)
  <2>1. go_forward(t, dist) = [t EXCEPT !.x = x, !.y = y, !.corners = Append(@, <<x, y>>)]
    BY Zenon DEF go_forward
  <2>2. x = t.x + StepX(t.direction, dist) /\ y = t.y + StepY(t.direction, dist)
    BY DEF StepX, StepY
  <2> HIDE DEF x, y
  <2>3. go_forward(t, dist) = At(x, y, t.direction, Append(t.corners, <<x, y>>))
    BY <1>1, <2>1 DEF At
  <2>4. QED
    BY <2>2, <2>3, Zenon DEF Go
<1>8. t = At(t.x, t.y, t.direction, t.corners)
  BY <1>1, Zenon DEF At
<1>9. QED
  BY <1>4, <1>5, <1>7, <1>8, Zenon

\* A walk ends as a turtle that looks where it looked before.
LEMMA WalkEnds ==
  ASSUME NEW t \in Turtles, NEW r, NEW e1 \in Int, NEW e2 \in Int, NEW f1, NEW f2, NEW m \in Nat,
         Walk(t, r, e1, e2, f1, f2, m)
  PROVE  r \in Turtles /\ r.direction = t.direction
<1>1. PICK cs, G : /\ r = At(t.x + (m - 1) * e1, t.y + (m - 1) * e2, t.direction, cs)
                   /\ Adds(t.corners, cs, m * m - 1, G)
  BY Zenon DEF Walk, WalkFrom
<1>2. t.x \in Int /\ t.y \in Int /\ t.direction \in Int
  BY DEF Turtles
<1>3. PICK a \in Int, b \in Int : a = t.x + (m - 1) * e1 /\ b = t.y + (m - 1) * e2
  <2>1. PICK u \in Int, v \in Int : u = (m - 1) * e1 /\ v = (m - 1) * e2
    OBVIOUS
  <2>2. t.x + u \in Int /\ t.y + v \in Int
    BY <1>2
  <2>3. QED
    BY <2>1, <2>2
<1>4. cs \in Seq(Int \X Int)
  BY <1>1 DEF Adds
<1>5. r = At(a, b, t.direction, cs)
  BY <1>1, <1>3, Zenon
<1>6. QED
  BY <1>2, <1>4, <1>5 DEF At, Turtles

\* The order 0: a point.
LEMMA NoWalk ==
  ASSUME NEW t \in Turtles, NEW e1 \in Int, NEW e2 \in Int, NEW f1 \in Int, NEW f2 \in Int
  PROVE  Walk(t, t, e1, e2, f1, f2, 1)
<1>1. PICK x \in Int, y \in Int, cs \in Seq(Int \X Int) : x = t.x /\ y = t.y /\ cs = t.corners
  BY DEF Turtles
<1>2. t = At(x, y, t.direction, cs)
  BY <1>1 DEF At, Turtles
<1>3. x + (1 - 1) * e1 = x /\ y + (1 - 1) * e2 = y /\ 1 * 1 - 1 = 0
  OBVIOUS
<1>4. Adds(cs, cs, 0, {})
  <2>1. PICK N \in Nat : N = Len(cs)
    OBVIOUS
  <2>2. {cs[k] : k \in N + 1..N} = {}
    OBVIOUS
  <2>3. QED
    BY <2>1, <2>2 DEF Adds
<1>5. {} \cup {<<x, y>>} = Grid(x, y, e1, e2, f1, f2, 1)
  <2>1. 0..0 + 1 - 1 = {0}
    OBVIOUS
  <2>2. Pt(x, y, e1, e2, f1, f2, 0, 0) = <<x, y>>
    BY DEF Pt
  <2>3. \A p : p \in Block(x, y, e1, e2, f1, f2, 1, 0, 0) <=> p = <<x, y>>
    BY <2>1, <2>2, InBlock
  <2>4. QED
    BY <2>3 DEF Grid
<1>6. t = At(x + (1 - 1) * e1, y + (1 - 1) * e2, t.direction, cs) /\ Adds(cs, cs, 1 * 1 - 1, {})
  BY <1>2, <1>3, <1>4
<1>7. WalkFrom(x, y, t.direction, cs, t, e1, e2, f1, f2, 1)
  BY <1>5, <1>6, Zenon DEF WalkFrom
<1>8. QED
  BY <1>2, <1>7, WalkIs, Zenon

-----------------------------------------------------------------------------
Walks(t, r, p, dist, m) ==
  Walk(t, r, StepX(t.direction, dist), StepY(t.direction, dist),
             StepX(Turned(t.direction, p), dist), StepY(Turned(t.direction, p), dist), m)
IsWalked(b) == b.t.direction \in Directions => Walks(b.t, hilbert_recurse[b], b.parity, b.dist, 2^b.n)

\* One order of the curve, when the order below is drawn.
LEMMA OneOrder ==
  ASSUME NEW c \in Calls, c.n # 0, c.t.direction \in Directions,
         \A b \in Calls : b.n = c.n - 1 => IsWalked(b)
  PROVE  Walks(c.t, hilbert_recurse[c], c.parity, c.dist, 2^c.n)
<1>1. PICK p \in {1, -1}, dist \in Nat, d \in Directions :
        p = c.parity /\ dist = c.dist /\ d = c.t.direction
  BY DEF Calls
<1>2. PICK t \in Turtles : t = c.t
  BY DEF Calls
<1>3. c.n \in Nat /\ c.n - 1 \in Nat /\ (c.n - 1) + 1 = c.n
  BY GraphicsAssumption DEF Calls
<1>4. PICK m \in Nat \ {0} : m = 2^(c.n - 1)
  <2>1. 2^(c.n - 1) \in Nat /\ 2^(c.n - 1) >= 1
    BY <1>3, PowerCounts, PowerGrows
  <2>2. QED
    BY <2>1
<1>5. 2^c.n = m + m
  <2>1. 2^(c.n - 1 + 1) = 2^(c.n - 1) + 2^(c.n - 1)
    BY <1>3, PowerDoubles
  <2>2. QED
    BY <1>3, <1>4, <2>1
<1>6. PICK x \in Int, y \in Int, cs \in Seq(Int \X Int) : t = At(x, y, d, cs)
  BY <1>1, <1>2 DEF Turtles, At
<1>7. PICK l, r : l = Turned(d, p) /\ r = Turned(d, -p)
  OBVIOUS
<1>8. /\ l \in Directions /\ r \in Directions
      /\ Turned(l, -p) = d /\ Turned(r, p) = d
      /\ -p \in {1, -1} /\ -(-p) = p
  BY <1>7, Turning
<1>9. PICK e1 \in Int, e2 \in Int, f1 \in Int, f2 \in Int :
        /\ e1 = StepX(d, dist) /\ e2 = StepY(d, dist)
        /\ f1 = StepX(l, dist) /\ f2 = StepY(l, dist)
  <2>1. /\ StepX(d, dist) \in Int /\ StepY(d, dist) \in Int
        /\ StepX(l, dist) \in Int /\ StepY(l, dist) \in Int
    BY <1>8, Turning
  <2>2. QED
    BY <2>1
<1>10. /\ StepX(r, dist) = -f1 /\ StepY(r, dist) = -f2
       /\ StepX(Turned(r, -p), dist) = -e1 /\ StepY(Turned(r, -p), dist) = -e2
  BY <1>7, <1>9, Turning
<1> DEFINE again(b, q) == hilbert_recurse[Call(b, c.n - 1, q, dist)]
<1>11. ASSUME NEW b \in Turtles, b.direction \in Directions, NEW q \in {p, -p}
       PROVE  Walks(b, again(b, q), q, dist, m)
  <2>1. PICK a \in Calls : a = Call(b, c.n - 1, q, dist)
    BY <1>1, CallsOfCalls
  <2>2. a.t = b /\ a.n = c.n - 1 /\ a.parity = q /\ a.dist = dist
    BY <2>1 DEF Call
  <2>3. Walks(a.t, hilbert_recurse[a], a.parity, a.dist, 2^a.n)
    BY <1>11, <2>2, Zenon DEF IsWalked
  <2>4. QED
    BY <1>4, <2>1, <2>2, <2>3, Zenon
<1> DEFINE first == again(turn_left(t, p * 90), -p)
           second == again(turn_left(go_forward(first, dist), -p * 90), p)
           third == again(go_forward(second, dist), p)
           fourth == again(go_forward(turn_left(third, -p * 90), dist), -p)
<1>12. hilbert_recurse[c] = turn_left(fourth, p * 90)
  <2>1. hilbert_recurse[c] = Recurse(hilbert_recurse, c)
    BY RecurseUnfolds
  <2>2. Recurse(hilbert_recurse, c) = turn_left(fourth, p * 90)
    BY <1>1, <1>2 DEF Recurse, Call
  <2>3. QED
    BY <2>1, <2>2
<1> HIDE DEF again
<1>13. ASSUME NEW b \in Turtles, b.direction \in Directions, NEW q \in {p, -p}
       PROVE  /\ turn_left(b, q * 90) = Face(b, Turned(b.direction, q))
              /\ turn_left(b, q * 90) \in Turtles
              /\ turn_left(b, q * 90).direction = Turned(b.direction, q)
              /\ turn_left(b, q * 90).direction \in Directions
              /\ go_forward(b, dist) = Go(b, StepX(b.direction, dist), StepY(b.direction, dist))
              /\ go_forward(b, dist) \in Turtles
              /\ go_forward(b, dist).direction = b.direction
  <2>1. q \in {1, -1} /\ q * 90 \in Int
    BY <1>8
  <2>2. turn_left(b, q * 90) = Face(b, Turned(b.direction, q))
    BY <2>1, TurnAndGo
  <2>3. go_forward(b, dist) = Go(b, StepX(b.direction, dist), StepY(b.direction, dist))
    BY <2>1, TurnAndGo
  <2>4. turn_left(b, q * 90) \in Turtles /\ go_forward(b, dist) \in Turtles
    BY <2>1, TurtleTurns, TurtleMoves
  <2>5. turn_left(b, q * 90).direction = Turned(b.direction, q) /\ go_forward(b, dist).direction = b.direction
    BY <2>2, <2>3 DEF Face, Go, At
  <2>6. Turned(b.direction, q) \in Directions
    BY <1>13, <2>1, Turning
  <2>7. QED
    BY <2>2, <2>3, <2>4, <2>5, <2>6
<1>14. -p * 90 = (-p) * 90 /\ t.direction = d
  BY <1>6 DEF At
\* The first quarter, along the other side.
<1>15. /\ Walk(At(x, y, l, cs), first, f1, f2, e1, e2, m)
       /\ first \in Turtles /\ first.direction = l
  <2>1. PICK b \in Turtles : b = turn_left(t, p * 90)
    BY <1>13, <1>14
  <2>2. b = At(x, y, l, cs) /\ b.direction = l
    BY <1>6, <1>7, <1>13, <1>14, <2>1 DEF Face, At
  <2>3. Walks(b, first, -p, dist, m)
    BY <1>8, <1>11, <2>1, <2>2
  <2>4. Walk(b, first, f1, f2, e1, e2, m)
    BY <1>8, <1>9, <2>2, <2>3, Zenon DEF Walks
  <2>5. QED
    BY <1>4, <2>2, <2>4, WalkEnds
<1> HIDE DEF first
\* The second, along the side.
<1>16. /\ Walk(Face(Go(first, f1, f2), d), second, e1, e2, f1, f2, m)
       /\ second \in Turtles /\ second.direction = d
  <2>1. PICK a \in Turtles : a = go_forward(first, dist) /\ a = Go(first, f1, f2) /\ a.direction = l
    BY <1>8, <1>9, <1>13, <1>15
  <2>2. PICK b \in Turtles : b = turn_left(a, (-p) * 90) /\ b = Face(a, d) /\ b.direction = d
    BY <1>8, <1>13, <2>1
  <2>3. Walks(b, second, p, dist, m)
    BY <1>11, <1>14, <2>1, <2>2
  <2>4. Walk(b, second, e1, e2, f1, f2, m)
    BY <1>7, <1>9, <2>2, <2>3, Zenon DEF Walks
  <2>5. QED
    BY <1>4, <2>1, <2>2, <2>4, WalkEnds
<1> HIDE DEF second
\* The third, further along it.
<1>17. /\ Walk(Go(second, e1, e2), third, e1, e2, f1, f2, m)
       /\ third \in Turtles /\ third.direction = d
  <2>1. PICK b \in Turtles : b = go_forward(second, dist) /\ b = Go(second, e1, e2) /\ b.direction = d
    BY <1>9, <1>13, <1>16
  <2>2. Walks(b, third, p, dist, m)
    BY <1>11, <2>1
  <2>3. Walk(b, third, e1, e2, f1, f2, m)
    BY <1>7, <1>9, <2>1, <2>2, Zenon DEF Walks
  <2>4. QED
    BY <1>4, <2>1, <2>3, WalkEnds
<1> HIDE DEF third
\* The last, back along the other side.
<1>18. /\ Walk(Go(Face(third, r), -f1, -f2), fourth, -f1, -f2, -e1, -e2, m)
       /\ fourth \in Turtles /\ fourth.direction = r
  <2>1. PICK a \in Turtles : a = turn_left(third, (-p) * 90) /\ a = Face(third, r) /\ a.direction = r
    BY <1>7, <1>13, <1>17
  <2>2. PICK b \in Turtles : b = go_forward(a, dist) /\ b = Go(a, -f1, -f2) /\ b.direction = r
    BY <1>8, <1>10, <1>13, <2>1
  <2>3. Walks(b, fourth, -p, dist, m)
    BY <1>8, <1>11, <1>14, <2>1, <2>2
  <2>4. Walk(b, fourth, -f1, -f2, -e1, -e2, m)
    BY <1>10, <2>2, <2>3, Zenon DEF Walks
  <2>5. -f1 \in Int /\ -f2 \in Int
    OBVIOUS
  <2>6. QED
    BY <1>4, <2>1, <2>2, <2>4, <2>5, WalkEnds
<1> HIDE DEF fourth
<1>19. hilbert_recurse[c] = Face(fourth, d)
  BY <1>8, <1>12, <1>13, <1>18
<1>20. Walk(t, Face(fourth, d), e1, e2, f1, f2, m + m)
  BY <1>6, <1>15, <1>16, <1>17, <1>18, FourWalks
<1>21. Walks(t, hilbert_recurse[c], p, dist, 2^c.n)
  BY <1>5, <1>7, <1>9, <1>14, <1>19, <1>20, Zenon DEF Walks
<1>22. QED
  BY <1>1, <1>2, <1>21

\* Every call draws its grid.
LEMMA HilbertWalks ==
  ASSUME NEW c \in Calls
  PROVE  IsWalked(c)
<1> DEFINE bad == {k \in Nat : \E b \in Calls : b.n = k /\ ~IsWalked(b)}
<1>1. \A b \in Calls : b.n \in Nat /\ b.t \in Turtles /\ b.dist \in Nat /\ b.parity \in {1, -1}
  BY GraphicsAssumption DEF Calls
<1>2. bad = {}
  <2> SUFFICES ASSUME bad # {} PROVE FALSE
    OBVIOUS
  <2>1. PICK k \in bad : \A y \in bad : k <= y
    <3>1. bad \in SUBSET Nat
      OBVIOUS
    <3> HIDE DEF bad
    <3>2. QED
      BY <3>1, Least
  <2>2. PICK b \in Calls : b.n = k /\ ~IsWalked(b)
    BY <2>1
  <2>3. b.t.direction \in Directions
    BY <2>2, Zenon DEF IsWalked
  <2>4. Walks(b.t, hilbert_recurse[b], b.parity, b.dist, 2^b.n)
    <3>1. CASE k = 0
      <4>1. hilbert_recurse[b] = b.t
        <5>1. Recurse(hilbert_recurse, b) = b.t
          BY <2>2, <3>1 DEF Recurse
        <5>2. QED
          BY <5>1, RecurseUnfolds
      <4>2. 2^0 = 1
        OBVIOUS
      <4>3. 2^b.n = 1
        BY <2>2, <3>1, <4>2
      <4>4. PICK e1 \in Int, e2 \in Int, f1 \in Int, f2 \in Int :
              /\ e1 = StepX(b.t.direction, b.dist) /\ e2 = StepY(b.t.direction, b.dist)
              /\ f1 = StepX(Turned(b.t.direction, b.parity), b.dist)
              /\ f2 = StepY(Turned(b.t.direction, b.parity), b.dist)
        <5>1. Turned(b.t.direction, b.parity) \in Directions
          BY <1>1, <2>3, Turning
        <5>2. \A d \in Directions : StepX(d, b.dist) \in Int /\ StepY(d, b.dist) \in Int
          BY <1>1, Turning
        <5>3. QED
          BY <2>3, <5>1, <5>2
      <4>5. Walk(b.t, b.t, e1, e2, f1, f2, 1)
        BY <1>1, NoWalk
      <4>6. QED
        BY <4>1, <4>3, <4>4, <4>5, Zenon DEF Walks
    <3>2. CASE k # 0
      <4>1. ASSUME NEW a \in Calls, a.n = b.n - 1 PROVE IsWalked(a)
        <5>1. a.n \in Nat /\ a.n < k
          BY <1>1, <2>1, <2>2, <4>1
        <5>2. a.n \notin bad
          BY <2>1, <5>1
        <5>3. QED
          BY <5>1, <5>2
      <4>2. QED
        BY <2>2, <2>3, <3>2, <4>1, OneOrder
    <3>3. QED
      BY <3>1, <3>2
  <2>5. QED
    BY <2>2, <2>4, Zenon DEF IsWalked
<1>3. QED
  BY <1>1, <1>2

\* A curve drawn by the program: it starts at (0, 0) in the direction 0.
Curve(n) == hilbert(Turtle, n)
Points(d, m) == {<<d * i, d * j>> : i, j \in 0..m - 1}
Filled(t, d, m) ==
  /\ t.direction = 0 /\ t.corners \in Seq(Int \X Int)
  /\ Len(t.corners) = m * m
  /\ {t.corners[k] : k \in DOMAIN t.corners} = Points(d, m)

LEMMA DistanceFits ==
  ASSUME NEW n \in 0..MaxCurve
  PROVE  /\ 2^n \in Nat /\ 2^n >= 1 /\ Distance(n) \in Nat
         /\ \A i \in 0..2^n - 1 : Distance(n) * i \in 0..SIDE
<1>1. n \in Nat /\ SIDE \in Nat
  BY GraphicsAssumption
<1>2. PICK b \in Nat : b = 2^n /\ b >= 1
  BY <1>1, PowerCounts, PowerGrows
<1>3. PICK d : d = SIDE \div b
  OBVIOUS
<1>4. d \in Nat /\ b * d <= SIDE
  BY <1>1, <1>2, <1>3
<1>5. ASSUME NEW i \in 0..b - 1 PROVE d * i \in 0..SIDE
  <2>1. i \in Nat /\ i <= b
    BY <1>2
  <2>2. d * i <= d * b
    <3>1. \A x, y, z \in Nat : x <= y => z * x <= z * y
      OBVIOUS
    <3>2. QED
      BY <1>2, <1>4, <2>1, <3>1
  <2>3. d * b = b * d /\ d * i \in Nat /\ d * b \in Nat
    BY <1>2, <1>4, <2>1
  <2>4. QED
    BY <1>1, <1>4, <2>2, <2>3
<1>6. Distance(n) = d
  BY <1>2, <1>3 DEF Distance
<1>7. QED
  BY <1>2, <1>4, <1>5, <1>6

LEMMA CurveIs ==
  ASSUME NEW n \in 0..MaxCurve, NEW d \in Nat, d = Distance(n), NEW m \in Nat \ {0}, m = 2^n
  PROVE  Filled(Curve(n), d, m)
<1>2. <<0, 0>> \in Int \X Int
  OBVIOUS
<1>3. PICK cs \in Seq(Int \X Int) : cs = <<<<0, 0>>>> /\ Len(cs) = 1 /\ cs[1] = <<0, 0>>
  <2>1. \A z \in Int \X Int : <<z>> \in Seq(Int \X Int) /\ Len(<<z>>) = 1 /\ <<z>>[1] = z
    OBVIOUS
  <2>2. PICK z \in Int \X Int : z = <<0, 0>>
    BY <1>2
  <2>3. QED
    BY <2>1, <2>2
<1>4. Turtle = At(0, 0, 0, cs) /\ Turtle \in Turtles
  <2>1. Turtle = At(0, 0, 0, cs)
    BY <1>3, Zenon DEF Turtle, At
  <2>2. At(0, 0, 0, cs) \in Turtles
    BY DEF At, Turtles
  <2>3. QED
    BY <2>1, <2>2
<1>5. PICK c \in Calls : c = Call(Turtle, n, 1, d)
  BY <1>4 DEF Calls, Call
<1>6. Curve(n) = hilbert_recurse[c]
  BY <1>5 DEF Curve, hilbert, Call
<1>7. c.t = Turtle /\ c.n = n /\ c.parity = 1 /\ c.dist = d /\ Turtle.direction = 0
  BY <1>5 DEF Call, Turtle
<1>8. Walks(Turtle, Curve(n), 1, d, m)
  <2>1. 0 \in Directions
    BY DEF Directions
  <2>2. Walks(c.t, hilbert_recurse[c], c.parity, c.dist, 2^c.n)
    BY <1>7, <2>1, HilbertWalks, Zenon DEF IsWalked
  <2>3. QED
    BY <1>6, <1>7, <2>2, Zenon
<1>9. Walk(Turtle, Curve(n), d, 0, 0, d, m)
  <2>1. Turned(0, 1) = 90
    BY DEF Turned
  <2>2. StepX(0, d) = d /\ StepY(0, d) = 0 /\ StepX(90, d) = 0 /\ StepY(90, d) = d
    BY DEF StepX, StepY
  <2>3. Walk(Turtle, Curve(n), StepX(0, d), StepY(0, d), StepX(90, d), StepY(90, d), m)
    BY <1>7, <1>8, <2>1 DEF Walks
  <2>4. QED
    BY <2>2, <2>3
<1>10. WalkFrom(0, 0, 0, cs, Curve(n), d, 0, 0, d, m)
  BY <1>4, <1>9, WalkIs
<1>11. PICK r, G : /\ Curve(n) = At(0 + (m - 1) * d, 0 + (m - 1) * 0, 0, r)
                   /\ Adds(cs, r, m * m - 1, G)
                   /\ G \cup {<<0, 0>>} = Grid(0, 0, d, 0, 0, d, m)
  BY <1>10, Zenon DEF WalkFrom
<1>12. Curve(n).direction = 0 /\ Curve(n).corners = r
  BY <1>11 DEF At
<1>13. PICK M \in Nat : M = m * m
  OBVIOUS
<1>14. r \in Seq(Int \X Int) /\ Len(r) = M
  BY <1>3, <1>11, <1>13 DEF Adds
<1>15. {r[k] : k \in DOMAIN r} = G \cup {<<0, 0>>}
  <2>1. r[1] = <<0, 0>>
    BY <1>3, <1>11 DEF Adds
  <2>2. {r[k] : k \in 2..M} = G
    <3>1. {r[k] : k \in Len(cs) + 1..Len(r)} = G
      BY <1>11 DEF Adds
    <3>2. Len(cs) + 1..Len(r) = 2..M
      BY <1>3, <1>14
    <3>3. QED
      BY <3>1, <3>2
  <2>3. M >= 1
    BY <1>3, <1>11, <1>13, <1>14 DEF Adds
  <2>4. DOMAIN r = {1} \cup (2..M)
    BY <1>14, <2>3
  <2> DEFINE I == 2..M
  <2> HIDE DEF I
  <2>5. {r[k] : k \in {1} \cup I} = {r[1]} \cup {r[k] : k \in I}
    OBVIOUS
  <2>6. QED
    BY <2>1, <2>2, <2>4, <2>5 DEF I
<1>16. Grid(0, 0, d, 0, 0, d, m) = Points(d, m)
  <2> DEFINE Q == Points(d, m)
  <2>1. \A q : q \in Q <=> \E i, j \in 0..m - 1 : q = <<d * i, d * j>>
    BY DEF Points
  <2> HIDE DEF Q
  <2>2. ASSUME NEW i \in 0..m - 1, NEW j \in 0..m - 1 PROVE Pt(0, 0, d, 0, 0, d, i, j) = <<d * i, d * j>>
    <3>1. \A a, b \in Int : a * b \in Int /\ a * b = b * a /\ a * 0 = 0
      OBVIOUS
    <3>2. i \in Int /\ j \in Int /\ i * d \in Int /\ j * d \in Int
      BY <3>1
    <3>3. 0 + i * d + j * 0 = d * i /\ 0 + i * 0 + j * d = d * j
      BY <3>1, <3>2
    <3>4. QED
      BY <3>3 DEF Pt
  <2>3. 0..0 + m - 1 = 0..m - 1
    OBVIOUS
  <2> DEFINE R == Block(0, 0, d, 0, 0, d, m, 0, 0)
  <2>4. ASSUME NEW q \in R PROVE q \in Q
    <3>1. PICK i \in 0..m - 1, j \in 0..m - 1 : q = Pt(0, 0, d, 0, 0, d, i, j)
      BY <2>3, <2>4, InBlock
    <3>2. QED
      BY <2>1, <2>2, <3>1
  <2>5. ASSUME NEW q \in Q PROVE q \in R
    <3>1. PICK i \in 0..m - 1, j \in 0..m - 1 : q = <<d * i, d * j>>
      BY <2>1, <2>5
    <3>2. q = Pt(0, 0, d, 0, 0, d, i, j)
      BY <2>2, <3>1
    <3>3. QED
      BY <2>3, <3>2, InBlock
  <2> HIDE DEF R
  <2>6. R = Q
    <3>1. \A q : q \in R <=> q \in Q
      BY <2>4, <2>5
    <3>2. QED
      BY <3>1, SetExtensionality
  <2>7. QED
    BY <2>6, Zenon DEF Grid, Q, R
<1>17. QED
  <2>1. {r[k] : k \in DOMAIN r} = Points(d, m)
    BY <1>11, <1>15, <1>16, Zenon
  <2>2. Len(r) = m * m
    BY <1>13, <1>14, Zenon
  <2>3. QED
    BY <1>12, <1>14, <2>1, <2>2, Zenon DEF Filled

\* The curve stays on the screen.
LEMMA CurveInScreen ==
  ASSUME NEW n \in 0..MaxCurve, NEW t, Filled(t, Distance(n), 2^n)
  PROVE  CurveCells(t) \subseteq 0..Cells - 1
<1>1. PICK m \in Nat, d \in Nat : m = 2^n /\ d = Distance(n)
  BY DistanceFits
<1>2. PICK cs \in Seq(Int \X Int) : cs = t.corners
  BY DEF Filled
<1>3. \A i \in 0..m - 1 : d * i \in 0..SIDE
  BY <1>1, DistanceFits
<1>4. ASSUME NEW k \in DOMAIN cs PROVE cs[k][1] \in 0..SIDE /\ cs[k][2] \in 0..SIDE
  <2>1. {cs[j] : j \in DOMAIN cs} = Points(d, m)
    BY <1>1, <1>2, Zenon DEF Filled
  <2>2. cs[k] \in Points(d, m)
    <3>1. cs[k] \in {cs[j] : j \in DOMAIN cs}
      OBVIOUS
    <3>2. QED
      BY <2>1, <3>1, Zenon
  <2>3. PICK i, j \in 0..m - 1 : cs[k] = <<d * i, d * j>>
    BY <2>2 DEF Points
  <2>4. PICK a, b \in 0..SIDE : cs[k] = <<a, b>>
    BY <1>3, <2>3
  <2>5. QED
    BY <2>4
<1>5. ASSUME NEW k \in 1..Len(cs) - 1
      PROVE  Plot(draw_line(cs[k][1], cs[k][2], cs[k + 1][1], cs[k + 1][2])) \subseteq 0..Cells - 1
  <2>1. k \in DOMAIN cs /\ k + 1 \in DOMAIN cs
    OBVIOUS
  <2>2. PICK x1 \in 0..SIDE, y1 \in 0..SIDE, x2 \in 0..SIDE, y2 \in 0..SIDE :
          x1 = cs[k][1] /\ y1 = cs[k][2] /\ x2 = cs[k + 1][1] /\ y2 = cs[k + 1][2]
    BY <1>4, <2>1
  <2>3. Plot(draw_line(x1, y1, x2, y2)) \subseteq 0..Cells - 1
    BY PlotInScreen
  <2>4. QED
    BY <2>2, <2>3, Zenon
<1> DEFINE Cell(k) == Plot(draw_line(cs[k][1], cs[k][2], cs[k + 1][1], cs[k + 1][2]))
<1>6. CurveCells(t) = UNION {Cell(k) : k \in 1..Len(cs) - 1}
  BY <1>2, Zenon DEF CurveCells
<1>7. \A k \in 1..Len(cs) - 1 : Cell(k) \subseteq 0..Cells - 1
  BY <1>5
<1> HIDE DEF Cell
<1>8. QED
  BY <1>6, <1>7

LEMMA CellsAre == Cells \in Nat
<1>1. WIDTH \in Nat /\ HEIGHT \in Nat
  BY GraphicsAssumption
<1>2. \A x, y \in Nat : x * y \in Nat
  OBVIOUS
<1>3. QED
  BY <1>1, <1>2 DEF Cells

\* What blit and clear_screen leave of the cells that can be seen.
LEMMA Seen ==
  ASSUME NEW P, NEW S, NEW buffer
  PROVE  /\ screen' = blit(clear_screen(buffer) \cup P) => screen' \cap (0..Cells - 1) = P \cap (0..Cells - 1)
         /\ screen' = blit(create_buffer \cup P) => screen' \cap (0..Cells - 1) = P \cap (0..Cells - 1)
         /\ clear_screen(S) \cap (0..Cells - 1) = {}
<1>1. \A i \in 0..Cells - 1 : i < Cells /\ ~(i >= Cells)
  BY CellsAre
<1> HIDE DEF Cells
<1>2. QED
  BY <1>1 DEF blit, clear_screen, create_buffer

LEMMA NoLineIsDrawn == IsDrawn(NoLine)
<1>1. PICK p : p = draw_line(0, 0, 0, 0)
  OBVIOUS
<1>2. absoluteVal(0 - 0) = 0 /\ Longer(0, 0) = 0
  BY DEF absoluteVal, Longer
<1>3. IsLine(p, 0, 0, 0, 0, 0, 0, 0)
  BY <1>1, <1>2, LineFacts
<1>4. p = << <<0, 0>> >>
  <2>1. p \in [1..0 + 1 -> Int \X Int] /\ p[1] = <<0, 0>>
    BY <1>3 DEF IsLine
  <2>2. 1..0 + 1 = {1}
    OBVIOUS
  <2>3. QED
    BY <2>1, <2>2
<1>5. NoLine = [from |-> <<0, 0>>, to |-> <<0, 0>>, points |-> draw_line(0, 0, 0, 0)]
  BY <1>1, <1>4 DEF NoLine
<1>6. 0 \in Int
  OBVIOUS
<1>7. QED
  BY <1>5, <1>6, Zenon DEF IsDrawn

\* While hilbert.c waits, its turtle has drawn the curve of the order and looks ahead;
\* the screen shows what was drawn; the mode of the terminal is kept.
GfxInv ==
  /\ program \in {"driver", "hilbert"} /\ gpc \in {"start", "key", "done"}
  /\ IsDrawn(drawn)
  /\ IF gpc = "start" THEN tty = "cooked" /\ turtle = Turtle ELSE old = "cooked"
  /\ program = "driver" => strokes \in 0..3
  /\ program = "hilbert" /\ gpc = "key" =>
       strokes \in 1..MaxCurve /\ Filled(turtle, Distance(strokes), 2^strokes)
  /\ ScreenIsClean

\* The next curve, from where the program leaves its turtle.
LEMMA NextCurve ==
  ASSUME NEW n \in 1..MaxCurve
  PROVE  Filled(hilbert(Turtle, n), Distance(n), 2^n) /\ CurveCells(hilbert(Turtle, n)) \subseteq 0..Cells - 1
<1>1. n \in 0..MaxCurve
  BY GraphicsAssumption
<1>2. Filled(hilbert(Turtle, n), Distance(n), 2^n)
  <2>1. PICK d \in Nat, m \in Nat \ {0} : d = Distance(n) /\ m = 2^n
    BY <1>1, DistanceFits
  <2>2. Filled(Curve(n), d, m)
    BY <1>1, <2>1, CurveIs
  <2>3. QED
    BY <2>1, <2>2, Zenon DEF Curve
<1>3. QED
  BY <1>1, <1>2, CurveInScreen

\* The invariant holds from the start and every action keeps it.
LEMMA GfxInvHolds == GfxSpec => []GfxInv
<1>1. GfxInit => GfxInv
  BY NoLineIsDrawn DEF GfxInit, GfxInv, ScreenIsClean
<1>2. GfxInv /\ [GfxNext]_gfxVars => GfxInv'
  <2> SUFFICES ASSUME GfxInv, [GfxNext]_gfxVars PROVE GfxInv'
    OBVIOUS
  <2>1. CASE Start
    <3>1. /\ gpc = "start" /\ gpc' = "key" /\ old' = tty /\ tty = "cooked" /\ turtle = Turtle
          /\ program' = program /\ drawn' = drawn
      BY <2>1 DEF Start, init_graphics, GfxInv
    <3>2. IsDrawn(drawn)'
      BY <3>1 DEF GfxInv, IsDrawn
    <3>3. CASE program = "driver"
      <4>1. strokes' = 0
        BY <2>1, <3>3 DEF Start
      <4>2. QED
        BY <3>1, <3>2, <3>3, <4>1 DEF GfxInv, ScreenIsClean
    <3>4. CASE program = "hilbert"
      <4>1. /\ strokes' = 1 /\ turtle' = hilbert(Turtle, 1)
            /\ screen' = blit(create_buffer \cup CurveCells(turtle'))
        BY <2>1, <3>1, <3>4 DEF Start
      <4>2. 1 \in 1..MaxCurve
        BY GraphicsAssumption
      <4>3. Filled(turtle', Distance(strokes'), 2^strokes') /\ CurveCells(turtle') \subseteq 0..Cells - 1
        BY <4>1, <4>2, NextCurve, Zenon
      <4>4. screen' \cap (0..Cells - 1) = CurveCells(turtle')
        BY <4>1, <4>3, Seen
      <4>5. ScreenIsClean'
        <5>1. CurveCells(turtle)' = CurveCells(turtle')
          BY DEF CurveCells
        <5>2. QED
          BY <3>1, <3>4, <4>4, <5>1 DEF ScreenIsClean
      <4>6. (Filled(turtle, Distance(strokes), 2^strokes))'
        BY <4>3 DEF Filled, Distance
      <4>7. QED
        BY <3>1, <3>2, <3>4, <4>1, <4>2, <4>5, <4>6 DEF GfxInv
    <3>5. QED
      BY <3>3, <3>4 DEF GfxInv
  <2>2. CASE DriverStroke
    <3>1. /\ program = "driver" /\ gpc = "key" /\ strokes < 3 /\ strokes' = strokes + 1
          /\ program' = program /\ gpc' = gpc /\ old' = old
      BY <2>2 DEF DriverStroke, getkey
    <3>2. strokes + 1 \in 1..3
      BY <3>1 DEF GfxInv
    <3>3. PICK line \in Strokes[strokes + 1] :
            /\ drawn' = [from |-> <<line[1], line[2]>>, to |-> <<line[3], line[4]>>,
                         points |-> draw_line(line[1], line[2], line[3], line[4])]
            /\ img' = clear_screen(img) \cup Plot(drawn'.points)
      BY <2>2 DEF DriverStroke
    <3>4. line \in Int \X Int \X Int \X Int
      BY <3>2, GraphicsAssumption
    <3>5. IsDrawn(drawn)'
      <4>1. line[1] \in Int /\ line[2] \in Int /\ line[3] \in Int /\ line[4] \in Int
        BY <3>4
      <4>2. QED
        BY <3>3, <4>1 DEF IsDrawn
    <3>6. screen' \cap (0..Cells - 1) = Plot(drawn'.points) \cap (0..Cells - 1)
      <4>1. screen' = blit(img')
        BY <2>2 DEF DriverStroke
      <4>2. QED
        BY <3>3, <4>1, Seen
    <3>7. ScreenIsClean'
      <4>1. Plot(drawn.points)' = Plot(drawn'.points)
        BY DEF Plot
      <4>2. QED
        BY <3>1, <3>6, <4>1 DEF ScreenIsClean
    <3>8. QED
      BY <3>1, <3>2, <3>5, <3>7 DEF GfxInv
  <2>3. CASE HilbertStroke
    <3>1. /\ program = "hilbert" /\ gpc = "key" /\ strokes < MaxCurve /\ strokes' = strokes + 1
          /\ turtle' = hilbert([Turtle EXCEPT !.direction = turtle.direction], strokes + 1)
          /\ screen' = blit(clear_screen(img) \cup CurveCells(turtle'))
          /\ program' = program /\ gpc' = gpc /\ old' = old /\ drawn' = drawn
      BY <2>3 DEF HilbertStroke, getkey
    <3>2. strokes' \in 1..MaxCurve
      BY <3>1, GraphicsAssumption DEF GfxInv
    <3>3. [Turtle EXCEPT !.direction = turtle.direction] = Turtle
      BY <3>1 DEF GfxInv, Filled, Turtle
    <3>4. turtle' = hilbert(Turtle, strokes')
      BY <3>1, <3>3, Zenon
    <3>5. Filled(turtle', Distance(strokes'), 2^strokes') /\ CurveCells(turtle') \subseteq 0..Cells - 1
      BY <3>2, <3>4, NextCurve, Zenon
    <3>6. screen' \cap (0..Cells - 1) = CurveCells(turtle')
      BY <3>1, <3>5, Seen
    <3>7. ScreenIsClean'
      <4>1. CurveCells(turtle)' = CurveCells(turtle')
        BY DEF CurveCells
      <4>2. QED
        BY <3>1, <3>6, <4>1 DEF ScreenIsClean
    <3>8. (Filled(turtle, Distance(strokes), 2^strokes))'
      BY <3>5 DEF Filled, Distance
    <3>9. IsDrawn(drawn)'
      BY <3>1 DEF GfxInv, IsDrawn
    <3>10. QED
      BY <3>1, <3>2, <3>7, <3>8, <3>9 DEF GfxInv
  <2>4. CASE exit_graphics
    <3>1. /\ gpc = "key" /\ gpc' = "done" /\ screen' = clear_screen(screen) /\ tty' = old
          /\ program' = program /\ old' = old /\ strokes' = strokes /\ drawn' = drawn
      BY <2>4 DEF exit_graphics, getkey
    <3>2. screen' \cap (0..Cells - 1) = {}
      BY <3>1, Seen
    <3>3. IsDrawn(drawn)'
      BY <3>1 DEF GfxInv, IsDrawn
    <3>4. QED
      BY <3>1, <3>2, <3>3 DEF GfxInv, ScreenIsClean
  <2>5. CASE UNCHANGED gfxVars
    <3>1. /\ program' = program /\ gpc' = gpc /\ screen' = screen /\ tty' = tty /\ old' = old
          /\ strokes' = strokes /\ drawn' = drawn /\ turtle' = turtle
      BY <2>5 DEF gfxVars
    <3>2. IsDrawn(drawn)'
      BY <3>1 DEF GfxInv, IsDrawn
    <3>3. ScreenIsClean'
      <4>1. Plot(drawn.points)' = Plot(drawn'.points) /\ CurveCells(turtle)' = CurveCells(turtle')
        BY DEF Plot, CurveCells
      <4>2. QED
        BY <3>1, <4>1 DEF GfxInv, ScreenIsClean
    <3>4. (Filled(turtle, Distance(strokes), 2^strokes))' = Filled(turtle', Distance(strokes'), 2^strokes')
      BY DEF Filled, Distance
    <3>5. QED
      BY <3>1, <3>2, <3>3, <3>4 DEF GfxInv
  <2>6. QED
    BY <2>1, <2>2, <2>3, <2>4, <2>5 DEF GfxNext
<1>3. QED
  BY <1>1, <1>2, PTL DEF GfxSpec

\* In the two programs of the graphics library every line that draw_line draws runs
\* straight from end to end, whatever the lines the driver asks for.
THEOREM LinesStayStraight == GfxSpec => []LineIsStraight
<1>1. GfxInv => LineIsStraight
  BY LinesAreStraight DEF GfxInv
<1>2. QED
  BY <1>1, GfxInvHolds, PTL

\* hilbert.c: the curve of every order up to MaxCurve passes every point of its grid,
\* none twice, and comes out in the direction it began with.
THEOREM CurvesFillTheirGrid == GfxSpec => []CurveFillsGrid
<1>1. GfxInv => CurveFillsGrid
  <2> SUFFICES ASSUME GfxInv, program = "hilbert", gpc = "key" PROVE CurveFillsGrid
    BY DEF CurveFillsGrid
  <2>1. Filled(turtle, Distance(strokes), 2^strokes)
    BY DEF GfxInv
  <2>2. /\ turtle.direction = 0
        /\ Len(turtle.corners) = 2^strokes * 2^strokes
        /\ {turtle.corners[k] : k \in DOMAIN turtle.corners} = Points(Distance(strokes), 2^strokes)
    BY <2>1, Zenon DEF Filled
  <2>3. QED
    BY <2>2 DEF Points, CurveFillsGrid
<1>2. QED
  BY <1>1, GfxInvHolds, PTL

\* What is plotted of a line is where it belongs, and the screen shows the last picture,
\* nothing of the ones before, and nothing after the exit, which gives the terminal back.
THEOREM PictureStaysRight == GfxSpec => []PictureIsRight
<1>1. GfxInv => PictureIsRight
  BY PlottedInPlace DEF GfxInv, PictureIsRight
<1>2. QED
  BY <1>1, GfxInvHolds, PTL
=============================================================================
