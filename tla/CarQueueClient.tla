--------------------------- MODULE CarQueueClient ---------------------------
(***************************************************************************)
(* One car_queue of prodcons.c and a client that calls enqueue() and       *)
(* dequeue() in any order, also on a full or an empty queue.               *)
(***************************************************************************)
EXTENDS CarQueue

VARIABLES
  queue,   \* the car_queue
  left     \* what the last dequeue() returned

queueVars == <<queue, left>>

QueueInit == queue = NewQueue /\ left = -1

enqueue(element) == queue' = Enqueued(queue, element) /\ UNCHANGED left

dequeue == left' = Element(queue) /\ queue' = Dequeued(queue)

QueueNext == dequeue \/ \E element \in CarNumber : enqueue(element)

QueueSpec == QueueInit /\ [][QueueNext]_queueVars

------------------------------------------------------------------------------
(***************************************************************************)
(* However often front and rear go round the array, dequeue() hands out    *)
(* the cars in the order in which enqueue() took them.                     *)
(***************************************************************************)
Fifo == INSTANCE CarLine WITH line <- Line(queue), Capacity <- MAX_QUEUE_SIZE
ImplementsLine == Fifo!Spec

(***************************************************************************)
(* The size field is the number of cars as long as there is one; once the  *)
(* queue has been emptied it stays at 1, the value that the expression     *)
(* has for front = rear = -1.                                              *)
(***************************************************************************)
SizeOfQueue == ~is_empty(queue) => queue.size = Length(queue)
==============================================================================
