------------------------------ MODULE CarQueue ------------------------------
(***************************************************************************)
(* The circular car_queue of prodcons.c, and the line of cars it stands    *)
(* for.  A queue is the structure's record; its users serialise enqueue    *)
(* and dequeue with a mutex, so each is one step.                          *)
(***************************************************************************)
EXTENDS Integers, Sequences

CONSTANTS
  MAX_QUEUE_SIZE,  \* slots of the array, 30 in the code
  CarNumber        \* the ints a client enqueues

ASSUME CarQueueAssumption ==
  /\ MAX_QUEUE_SIZE \in Nat \ {0}
  /\ CarNumber \subseteq Nat
  /\ 0 \in CarNumber

Slot == 0..MAX_QUEUE_SIZE-1

Queue == [car : [Slot -> CarNumber], front : Slot \cup {-1},
          rear : Slot \cup {-1}, size : 0..MAX_QUEUE_SIZE]

\* A zeroed mapping in which main() has set front and rear.
NewQueue == [car |-> [i \in Slot |-> 0], front |-> -1, rear |-> -1, size |-> 0]

is_full(q) == \/ q.front = q.rear + 1
              \/ q.front = 0 /\ q.rear = MAX_QUEUE_SIZE - 1

is_empty(q) == q.front = -1

\* Mutant: the wrapped case forgets the car at front.
Size_OffByOne(front, rear) ==
  IF front > rear THEN MAX_QUEUE_SIZE - front + rear ELSE rear - front + 1

\* The expression enqueue() and dequeue() store in size.
Size(front, rear) ==
  IF front > rear THEN MAX_QUEUE_SIZE - front + rear + 1 ELSE rear - front + 1

\* The queue after enqueue(my_queue, element)
Enqueued(q, element) ==
  LET front == IF q.front = -1 THEN 0 ELSE q.front
      rear == (q.rear + 1) % MAX_QUEUE_SIZE
  IN  IF is_full(q)
        THEN q
        ELSE [car |-> [q.car EXCEPT ![rear] = element],
              front |-> front, rear |-> rear, size |-> Size(front, rear)]

\* The queue after dequeue(my_queue), and the element that returns
Dequeued(q) ==
  LET last == q.front = q.rear
      front == IF last THEN -1 ELSE (q.front + 1) % MAX_QUEUE_SIZE
      rear == IF last THEN -1 ELSE q.rear
  IN  IF is_empty(q)
        THEN q
        ELSE [q EXCEPT !.front = front, !.rear = rear, !.size = Size(front, rear)]

\* Mutant: the car at the wrong end leaves.
Element_Last(q) == IF is_empty(q) THEN -1 ELSE q.car[q.rear]

Element(q) == IF is_empty(q) THEN -1 ELSE q.car[q.front]

------------------------------------------------------------------------------
\* The number of cars in q, and the line they form, the first one first.
Length(q) == IF is_empty(q) THEN 0 ELSE ((q.rear - q.front) % MAX_QUEUE_SIZE) + 1

Line(q) == [i \in 1..Length(q) |-> q.car[(q.front + i - 1) % MAX_QUEUE_SIZE]]
==============================================================================
