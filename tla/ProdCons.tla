------------------------------ MODULE ProdCons ------------------------------
(***************************************************************************)
(* prodcons.c: the second version of the construction zone.  The lines are *)
(* circular queues (CarQueue), and the flagperson decides by the size      *)
(* fields of the queues, not by the semaphores.                            *)
(*                                                                         *)
(* As in TrafficSim, pc[t] is the statement t executes once the system     *)
(* call it is in has returned.                                             *)
(***************************************************************************)
EXTENDS CarQueue, Semaphore

CONSTANTS
  N,               \* the initial value of the empty semaphores, 10 in the code
  LINE_LIMIT       \* the literal 10 the flagperson compares a size with

Side == {"north", "south"}
Other(d) == IF d = "north" THEN "south" ELSE "north"
Process == Side \cup {"flag"}

full == [north |-> "n_full", south |-> "s_full"]
empty == [north |-> "n_empty", south |-> "s_empty"]
Semaphores == {"n_full", "n_empty", "s_full", "s_empty", "mutex"}

InitialValues ==
  [s \in Semaphores |-> CASE s = "mutex" -> 1
                           [] s \in {"n_empty", "s_empty"} -> N
                           [] OTHER -> 0]

ASSUME ProdConsAssumption ==
  /\ N \in Nat \ {0}
  /\ LINE_LIMIT \in Nat \ {0}
  /\ Task = Process /\ Sem = Semaphores /\ InitValue = InitialValues

VARIABLES
  pc,         \* pc[t]: the next statement of t
  queue,      \* queue[d]: north_queue, south_queue
  total_car,  \* total_car[d]: the int the pointer total_car of d points to
  is_sleep,   \* is_sleep[t]: after fork() every process has its own copy
  serving     \* the side whose loop the flagperson is in

carVars == <<queue, total_car, is_sleep, serving>>
vars == <<kernelVars, pc, carVars>>

ProducerPC == {"down_empty", "down_mutex", "enqueue", "up_mutex", "up_full"}
FlagPC == {"nap_north", "nap_south", "north_size", "south_size", "down_full",
           "down_mutex", "dequeue", "up_mutex", "up_empty"}

ProdConsTypeOK ==
  /\ TypeOK
  /\ pc \in [Task -> ProducerPC \cup FlagPC]
  /\ \A d \in Side : pc[d] \in ProducerPC
  /\ pc["flag"] \in FlagPC
  /\ queue \in [Side -> Queue]
  /\ total_car \in [Side -> CarNumber]
  /\ is_sleep \in [Task -> {0, 1}]
  /\ serving \in Side

ProdConsInit ==
  /\ KernelInit
  /\ pc = [t \in Task |-> IF t = "flag" THEN "nap_north" ELSE "down_empty"]
  /\ queue = [d \in Side |-> NewQueue]
  /\ total_car = [d \in Side |-> 1]
  /\ is_sleep = [t \in Task |-> 1]
  /\ serving = "north"

------------------------------------------------------------------------------
\* Statement `from' of t is a call down(s) or up(s), and `to' comes after it.
Call(t, from, op, s, to) ==
  /\ pc[t] = from
  /\ Syscall(t, op, s)
  /\ pc' = [pc EXCEPT ![t] = to]
  /\ UNCHANGED carVars

\* Statement `from' of t runs in user mode and goes on at `to'.
Local(t, from, to) ==
  /\ pc[t] = from
  /\ at[t] = "user"
  /\ pc' = [pc EXCEPT ![t] = to]
  /\ UNCHANGED kernelVars

(***************************************************************************)
(* `*total_car++' in the south producer moves its pointer, so what it then *)
(* increments is the next int of the zeroed page, not the number it used.  *)
(***************************************************************************)
NextCell == 0
NextNumber(d) == IF d = "south" THEN NextCell + 1 ELSE total_car[d]

\* The statements of a producer between down(mutex) and up(mutex).
Arrive(d) ==
  /\ Local(d, "enqueue", "up_mutex")
  /\ is_sleep' = [is_sleep EXCEPT ![d] = 0]
  /\ queue' = [queue EXCEPT ![d] = Enqueued(@, total_car[d])]
  /\ total_car' = [total_car EXCEPT ![d] = NextNumber(d)]
  /\ UNCHANGED serving

\* Mutants: the producer does not wait for a free place; it announces the car
\* before the car is in the queue.
Producer_NoEmpty(d) ==
  \/ Call(d, "down_empty", "down", "mutex", "enqueue")
  \/ Arrive(d)
  \/ Call(d, "up_mutex", "up", "mutex", "up_full")
  \/ Call(d, "up_full", "up", full[d], "down_empty")

Producer_FullFirst(d) ==
  \/ Call(d, "down_empty", "down", empty[d], "up_full")
  \/ Call(d, "up_full", "up", full[d], "down_mutex")
  \/ Call(d, "down_mutex", "down", "mutex", "enqueue")
  \/ Arrive(d)
  \/ Call(d, "up_mutex", "up", "mutex", "down_empty")

Producer(d) ==
  \/ Call(d, "down_empty", "down", empty[d], "down_mutex")
  \/ Call(d, "down_mutex", "down", "mutex", "enqueue")
  \/ Arrive(d)
  \/ Call(d, "up_mutex", "up", "mutex", "up_full")
  \/ Call(d, "up_full", "up", full[d], "down_empty")

------------------------------------------------------------------------------
\* The flagperson falls asleep if it reads 0 for both sizes, one by one.
NapNorth ==
  /\ Local("flag", "nap_north",
           IF queue["north"].size = 0 THEN "nap_south" ELSE "north_size")
  /\ UNCHANGED carVars

NapSouth ==
  /\ Local("flag", "nap_south", "north_size")
  /\ is_sleep' = [is_sleep EXCEPT !["flag"] =
                    IF queue["south"].size = 0 THEN 1 ELSE @]
  /\ UNCHANGED <<queue, total_car, serving>>

\* The size of queue d lets the loop of the side that is served go on.
GoesOn(d) == IF d = serving THEN queue[d].size > 0 ELSE queue[d].size < LINE_LIMIT

(***************************************************************************)
(* Both loops read the size of the north queue first, then that of the     *)
(* south queue, without the mutex.  After the loop of the south side the   *)
(* flagperson looks whether to sleep.                                      *)
(***************************************************************************)
LoopTest(from, d, to) ==
  /\ Local("flag", from,
           IF GoesOn(d) THEN to
           ELSE IF serving = "north" THEN "north_size" ELSE "nap_north")
  /\ serving' = IF GoesOn(d) THEN serving ELSE Other(serving)
  /\ UNCHANGED <<queue, total_car, is_sleep>>

\* The first car of the line passes.
Leave ==
  /\ Local("flag", "dequeue", "up_mutex")
  /\ queue' = [queue EXCEPT ![serving] = Dequeued(@)]
  /\ UNCHANGED <<total_car, is_sleep, serving>>

\* Mutant: the flagperson does not take the mutex.
Flagperson_NoMutex ==
  \/ NapNorth
  \/ NapSouth
  \/ LoopTest("north_size", "north", "south_size")
  \/ LoopTest("south_size", "south", "down_full")
  \/ Call("flag", "down_full", "down", full[serving], "dequeue")
  \/ Leave
  \/ Call("flag", "up_mutex", "up", empty[serving], "north_size")

Flagperson ==
  \/ NapNorth
  \/ NapSouth
  \/ LoopTest("north_size", "north", "south_size")
  \/ LoopTest("south_size", "south", "down_full")
  \/ Call("flag", "down_full", "down", full[serving], "down_mutex")
  \/ Call("flag", "down_mutex", "down", "mutex", "dequeue")
  \/ Leave
  \/ Call("flag", "up_mutex", "up", "mutex", "up_empty")
  \/ Call("flag", "up_empty", "up", empty[serving], "north_size")

InKernel(t) == KernelStep(t) /\ UNCHANGED <<pc, carVars>>

Interrupted(t) == Signal(t) /\ UNCHANGED <<pc, carVars>>

ProdConsNext ==
  \/ \E d \in Side : Producer(d)
  \/ Flagperson
  \/ \E t \in Task : InKernel(t) \/ Interrupted(t)

ProdConsSpec == ProdConsInit /\ [][ProdConsNext]_vars

(***************************************************************************)
(* Every process keeps running: the scheduler does not forget a runnable   *)
(* task, a sleep() ends, and the mutex sem_lock is handed over in turn.    *)
(***************************************************************************)
ProdConsFairness ==
  /\ \A d \in Side : WF_vars(Producer(d))
  /\ WF_vars(Flagperson)
  /\ \A t \in Task :
       /\ SF_vars(MutexLock(t) /\ UNCHANGED <<pc, carVars>>)
       /\ WF_vars(InKernel(t))

ProdConsFairSpec == ProdConsSpec /\ ProdConsFairness

------------------------------------------------------------------------------
\* t is between the return of down(mutex) and the call of up(mutex).
InRegion == {t \in Task : pc[t] \in {"enqueue", "dequeue", "up_mutex"} /\ at[t] = "user"}

(***************************************************************************)
(* enqueue() and dequeue() run one at a time, up to one more for every     *)
(* signal that ended a sleep in down(mutex).                               *)
(***************************************************************************)
MutualExclusion == Cardinality(InRegion) <= 1 + signals

(***************************************************************************)
(* The semaphores keep the queue within its array, which the code does not *)
(* say anywhere: as long as the array has room for the N cars the          *)
(* semaphore empty lets in, and one for every signal, enqueue() never      *)
(* silently drops a car; without signals dequeue() never returns -1.       *)
(***************************************************************************)
QueueFits ==
  N + signals <= MAX_QUEUE_SIZE =>
    /\ \A d \in Side : pc[d] = "enqueue" /\ at[d] = "user" => ~is_full(queue[d])
    /\ signals = 0 /\ pc["flag"] = "dequeue" /\ at["flag"] = "user"
         => ~is_empty(queue[serving])

(***************************************************************************)
(* The cars of a line are never more than its semaphores account for, and  *)
(* every car that down(full) can still take is in the queue, although the  *)
(* flagperson acts on sizes it read without the mutex: as long as the      *)
(* queue has room for N cars, and one for every signal.                    *)
(***************************************************************************)
Accounted ==
  N + signals <= MAX_QUEUE_SIZE => \A d \in Side :
    /\ Length(queue[d]) <= N - Permits(empty[d]) + signals
    /\ Permits(full[d]) <= Length(queue[d])

(***************************************************************************)
(* What the head of the file says: the cars of both sides go on, one side  *)
(* until the other has 10 or more.  So two full lines do not stay full.    *)
(***************************************************************************)
TrafficGoesOn ==
  (\A d \in Side : queue[d].size >= LINE_LIMIT)
     ~> (\E d \in Side : queue[d].size < LINE_LIMIT)
==============================================================================
