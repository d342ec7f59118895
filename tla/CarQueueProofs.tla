--------------------------- MODULE CarQueueProofs ---------------------------
(***************************************************************************)
(* Lemmas about the operations of car_queue in prodcons.c, for an array of *)
(* any size.                                                               *)
(***************************************************************************)
EXTENDS CarQueue, TLAPS

\* % by the size of the array, for the numbers enqueue() and dequeue() form.
LEMMA WrapAround ==
  ASSUME NEW n \in Nat \ {0}, NEW x \in Int, -n <= x, x < 2 * n
  PROVE  x % n = IF x < 0 THEN x + n ELSE IF x < n THEN x ELSE x - n
OBVIOUS

\* The slot behind a slot, and behind -1.
LEMMA NextSlot ==
  ASSUME NEW i \in Slot \cup {-1}
  PROVE  (i + 1) % MAX_QUEUE_SIZE = IF i = MAX_QUEUE_SIZE - 1 THEN 0 ELSE i + 1
<1>1. MAX_QUEUE_SIZE \in Nat \ {0} /\ i \in Int /\ i >= -1 /\ i < MAX_QUEUE_SIZE
  BY CarQueueAssumption DEF Slot
<1>2. ASSUME NEW x \in 0..MAX_QUEUE_SIZE - 1 PROVE x % MAX_QUEUE_SIZE = x
  BY <1>1, <1>2
<1>3. MAX_QUEUE_SIZE % MAX_QUEUE_SIZE = 0
  BY <1>1
<1>4. CASE i = MAX_QUEUE_SIZE - 1
  BY <1>1, <1>3, <1>4
<1>5. CASE i # MAX_QUEUE_SIZE - 1
  <2>1. i + 1 \in 0..MAX_QUEUE_SIZE - 1
    BY <1>1, <1>5
  <2>2. QED
    BY <1>2, <1>5, <2>1
<1>6. QED
  BY <1>4, <1>5

\* The number of cars between two slots, without %.
LEMMA LengthOfQueue ==
  ASSUME NEW q, q.front \in Slot, q.rear \in Slot
  PROVE  /\ Length(q) = IF q.front <= q.rear THEN q.rear - q.front + 1
                        ELSE q.rear - q.front + 1 + MAX_QUEUE_SIZE
         /\ Length(q) = Size(q.front, q.rear)
         /\ Length(q) \in 1..MAX_QUEUE_SIZE
         /\ is_full(q) <=> Length(q) = MAX_QUEUE_SIZE
<1>1. /\ q.rear - q.front \in Int /\ ~is_empty(q)
      /\ -MAX_QUEUE_SIZE <= q.rear - q.front /\ q.rear - q.front < 2 * MAX_QUEUE_SIZE
  BY CarQueueAssumption DEF Slot, is_empty
<1>2. (q.rear - q.front) % MAX_QUEUE_SIZE =
        IF q.front <= q.rear THEN q.rear - q.front ELSE q.rear - q.front + MAX_QUEUE_SIZE
  BY <1>1, WrapAround, CarQueueAssumption DEF Slot
<1>3. Length(q) = IF q.front <= q.rear THEN q.rear - q.front + 1
                  ELSE q.rear - q.front + 1 + MAX_QUEUE_SIZE
  <2>1. Length(q) = ((q.rear - q.front) % MAX_QUEUE_SIZE) + 1
    BY <1>1 DEF Length
  <2>2. QED
    BY <1>2, <2>1, CarQueueAssumption DEF Slot
<1>4. QED
  BY <1>3, CarQueueAssumption DEF Slot, Size, is_full

\* A queue as enqueue() and dequeue() leave it: front and rear are both slots
\* or both -1.
WellFormed(q) ==
  /\ q \in [car : [Slot -> Int], front : Slot \cup {-1}, rear : Slot \cup {-1}, size : Int]
  /\ q.front = -1 <=> q.rear = -1

\* The queue is empty when it has no car, and full when it has a car in every
\* slot.
LEMMA QueueBounds ==
  ASSUME NEW q, WellFormed(q)
  PROVE  /\ Length(q) \in 0..MAX_QUEUE_SIZE
         /\ is_empty(q) <=> Length(q) = 0
         /\ is_full(q) <=> Length(q) = MAX_QUEUE_SIZE
<1>0. MAX_QUEUE_SIZE \in Nat \ {0}
  BY CarQueueAssumption
<1>1. CASE is_empty(q)
  <2>1. q.front = -1 /\ q.rear = -1 /\ Length(q) = 0
    BY <1>1 DEF WellFormed, is_empty, Length
  <2>2. QED
    BY <1>0, <1>1, <2>1 DEF is_full
<1>2. CASE ~is_empty(q)
  <2>1. q.front \in Slot /\ q.rear \in Slot
    BY <1>2 DEF WellFormed, is_empty
  <2>2. Length(q) \in 1..MAX_QUEUE_SIZE /\ (is_full(q) <=> Length(q) = MAX_QUEUE_SIZE)
    BY <2>1, LengthOfQueue
  <2>3. QED
    BY <1>0, <1>2, <2>2
<1>3. QED
  BY <1>1, <1>2

\* enqueue() adds a car to a queue that is not full, and nothing to a full one.
LEMMA EnqueueLength ==
  ASSUME NEW q, WellFormed(q), NEW element \in Int
  PROVE  /\ WellFormed(Enqueued(q, element))
         /\ Length(Enqueued(q, element)) = IF is_full(q) THEN Length(q) ELSE Length(q) + 1
<1>0. MAX_QUEUE_SIZE \in Nat \ {0}
  BY CarQueueAssumption
<1>1. CASE is_full(q)
  BY <1>1 DEF Enqueued
<1>2. CASE ~is_full(q)
  <2> DEFINE front == IF q.front = -1 THEN 0 ELSE q.front
             rear == IF q.rear = MAX_QUEUE_SIZE - 1 THEN 0 ELSE q.rear + 1
             p == [car |-> [q.car EXCEPT ![rear] = element],
                   front |-> front, rear |-> rear, size |-> Size(front, rear)]
  <2>1. q.rear \in Slot \cup {-1}
    BY DEF WellFormed
  <2>2. (q.rear + 1) % MAX_QUEUE_SIZE = IF q.rear = MAX_QUEUE_SIZE - 1 THEN 0 ELSE q.rear + 1
    BY <2>1, NextSlot
  <2>3. Enqueued(q, element) = p
    BY <1>2, <2>2 DEF Enqueued
  <2>4. rear \in Slot /\ front \in Slot
    BY <1>0, <2>1 DEF WellFormed, Slot
  <2>5. Size(front, rear) \in Int
    BY <1>0, <2>4 DEF Size, Slot
  <2>6. [q.car EXCEPT ![rear] = element] \in [Slot -> Int]
    BY <2>4 DEF WellFormed
  <2>7. front # -1 /\ rear # -1
    BY <1>0, <2>4 DEF Slot
  <2>8. WellFormed(p)
    BY <2>4, <2>5, <2>6, <2>7 DEF WellFormed
  <2>9. p.front = front /\ p.rear = rear
    OBVIOUS
  <2>10. Length(p) = Length(q) + 1
    <3>1. Length(p) = IF front <= rear THEN rear - front + 1
                      ELSE rear - front + 1 + MAX_QUEUE_SIZE
      <4> HIDE DEF p, front, rear
      <4>1. QED
        BY <2>4, <2>9, LengthOfQueue
    <3>2. CASE q.front = -1
      <4>1. q.rear = -1 /\ Length(q) = 0
        BY <3>2 DEF WellFormed, Length, is_empty
      <4>2. front = 0 /\ rear = 0
        BY <1>0, <3>2, <4>1
      <4>3. QED
        BY <1>0, <3>1, <4>1, <4>2
    <3>3. CASE q.front # -1
      <4>1. q.front \in Slot /\ q.rear \in Slot
        BY <3>3 DEF WellFormed
      <4>2. Length(q) = IF q.front <= q.rear THEN q.rear - q.front + 1
                        ELSE q.rear - q.front + 1 + MAX_QUEUE_SIZE
        BY <4>1, LengthOfQueue
      <4>3. QED
        BY <1>0, <1>2, <3>1, <3>3, <4>1, <4>2 DEF Slot, is_full
    <3>4. QED
      BY <3>2, <3>3
  <2>11. QED
    BY <1>2, <2>3, <2>8, <2>10
<1>3. QED
  BY <1>1, <1>2

\* dequeue() takes a car from a queue that is not empty.
LEMMA DequeueLength ==
  ASSUME NEW q, WellFormed(q)
  PROVE  /\ WellFormed(Dequeued(q))
         /\ Length(Dequeued(q)) = IF is_empty(q) THEN 0 ELSE Length(q) - 1
<1>0. MAX_QUEUE_SIZE \in Nat \ {0}
  BY CarQueueAssumption
<1>1. CASE is_empty(q)
  BY <1>1 DEF Dequeued, Length
<1>2. CASE ~is_empty(q)
  <2>1. q.front \in Slot /\ q.rear \in Slot
    BY <1>2 DEF WellFormed, is_empty
  <2>2. Length(q) = IF q.front <= q.rear THEN q.rear - q.front + 1
                    ELSE q.rear - q.front + 1 + MAX_QUEUE_SIZE
    BY <2>1, LengthOfQueue
  <2>3. CASE q.front = q.rear
    <3>1. Dequeued(q) = [q EXCEPT !.front = -1, !.rear = -1, !.size = Size(-1, -1)]
      BY <1>2, <2>3 DEF Dequeued
    <3>2. Size(-1, -1) \in Int
      BY <1>0 DEF Size
    <3>3. WellFormed(Dequeued(q)) /\ Dequeued(q).front = -1
      BY <3>1, <3>2 DEF WellFormed
    <3>4. Length(Dequeued(q)) = 0
      BY <3>3 DEF Length, is_empty
    <3>5. QED
      BY <1>0, <1>2, <2>1, <2>2, <2>3, <3>3, <3>4 DEF Slot
  <2>4. CASE q.front # q.rear
    <3> DEFINE front == IF q.front = MAX_QUEUE_SIZE - 1 THEN 0 ELSE q.front + 1
               p == [q EXCEPT !.front = front, !.rear = q.rear, !.size = Size(front, q.rear)]
    <3>1. (q.front + 1) % MAX_QUEUE_SIZE = front
      BY <2>1, NextSlot
    <3>2. Dequeued(q) = p
      BY <1>2, <2>4, <3>1 DEF Dequeued
    <3>3. front \in Slot /\ front # -1 /\ q.rear # -1
      BY <1>0, <2>1 DEF Slot
    <3>4. Size(front, q.rear) \in Int
      BY <1>0, <2>1, <3>3 DEF Size, Slot
    <3>5. WellFormed(p) /\ p.front = front /\ p.rear = q.rear
      <4> HIDE DEF front
      <4>1. QED
        BY <2>1, <3>3, <3>4 DEF WellFormed
    <3>6. Length(p) = IF front <= q.rear THEN q.rear - front + 1
                      ELSE q.rear - front + 1 + MAX_QUEUE_SIZE
      <4> HIDE DEF p, front
      <4>1. QED
        BY <2>1, <3>3, <3>5, LengthOfQueue
    <3>7. Length(p) = Length(q) - 1
      <4> HIDE DEF p
      <4>1. QED
        BY <1>0, <2>1, <2>2, <2>4, <3>6 DEF Slot
    <3>8. QED
      BY <1>2, <3>2, <3>5, <3>7
  <2>5. QED
    BY <2>3, <2>4
<1>3. QED
  BY <1>1, <1>2
=============================================================================
