------------------------------ MODULE TrafficSim ------------------------------
(***************************************************************************)
(* trafficsim.c: two producers put cars into the lines north and south of  *)
(* a construction zone, and a flagperson lets them through, one line at a  *)
(* time.  The processes share the lines and five semaphores, and run on    *)
(* the system calls of Semaphore, whose tasks and semaphores they are.     *)
(*                                                                         *)
(* pc[t] is the statement t executes next, once the system call it is in   *)
(* has returned.  A sleep() is time passing between two statements.        *)
(***************************************************************************)
EXTENDS Semaphore

CONSTANTS
  BUFF_SIZE,       \* slots in a line, 10 in the code
  LINE_LIMIT,      \* the literal 10 the flagperson compares a line with
  MaxCar           \* bound: car numbers run over 0..MaxCar-1 and start again

Side == {"north", "south"}
Other(d) == IF d = "north" THEN "south" ELSE "north"
Process == Side \cup {"flag"}

\* A producer is named after its side.
full == [north |-> "n_full", south |-> "s_full"]
empty == [north |-> "n_empty", south |-> "s_empty"]
Semaphores == {"n_full", "n_empty", "s_full", "s_empty", "mutex"}

\* Mutant: an empty semaphore counts one slot more than the line has.
InitialValues_OneSlotMore ==
  [s \in Semaphores |-> CASE s = "mutex" -> 1
                           [] s \in {"n_empty", "s_empty"} -> BUFF_SIZE + 1
                           [] OTHER -> 0]

InitialValues ==
  [s \in Semaphores |-> CASE s = "mutex" -> 1
                           [] s \in {"n_empty", "s_empty"} -> BUFF_SIZE
                           [] OTHER -> 0]

\* The bound on the numbers of the cars keeps the slots in turn.
SlotsInTurn == MaxCar % BUFF_SIZE = 0

ASSUME TrafficSimAssumption ==
  /\ BUFF_SIZE \in Nat \ {0}
  /\ LINE_LIMIT \in Nat \ {0}
  /\ MaxCar \in Nat \ {0}
  /\ SlotsInTurn
  /\ Task = Process /\ Sem = Semaphores /\ InitValue = InitialValues

VARIABLES
  pc,         \* pc[t]: the next statement of t
  prod,       \* prod[d]: *n_prod, *s_prod, the number of the next car
  con,        \* con[d]: *n_con, *s_con, the number of the next car to pass
  buf,        \* buf[d]: north_buf, south_buf
  serving,    \* the side whose loop the flagperson is in
  car,        \* the flagperson's variable car
  con_sleep   \* 1 while the flagperson is asleep

lineVars == <<prod, con, buf>>
flagVars == <<serving, car, con_sleep>>
vars == <<kernelVars, pc, lineVars, flagVars>>

ProducerPC == {"down_empty", "down_mutex", "arrive", "up_mutex", "up_full"}
FlagPC == {"limit", "line", "down_full", "down_mutex", "enter", "up_mutex",
           "up_empty", "nap_north", "nap_south"}

TrafficTypeOK ==
  /\ TypeOK
  /\ pc \in [Task -> ProducerPC \cup FlagPC]
  /\ \A d \in Side : pc[d] \in ProducerPC
  /\ pc["flag"] \in FlagPC
  /\ prod \in [Side -> 0..MaxCar-1]
  /\ con \in [Side -> 0..MaxCar-1]
  /\ buf \in [Side -> [0..BUFF_SIZE-1 -> 0..MaxCar-1]]
  /\ serving \in Side
  /\ car \in 0..MaxCar-1
  /\ con_sleep \in {0, 1}

TrafficInit ==
  /\ KernelInit
  /\ pc = [t \in Task |-> IF t = "flag" THEN "limit" ELSE "down_empty"]
  /\ prod = [d \in Side |-> 0]
  /\ con = [d \in Side |-> 0]
  /\ buf = [d \in Side |-> [i \in 0..BUFF_SIZE-1 |-> 0]]
  /\ serving = "north"
  /\ car = 0
  /\ con_sleep = 1

------------------------------------------------------------------------------
\* Statement `from' of t is a call down(s) or up(s), and `to' comes after it.
Call(t, from, op, s, to) ==
  /\ pc[t] = from
  /\ Syscall(t, op, s)
  /\ pc' = [pc EXCEPT ![t] = to]
  /\ UNCHANGED <<lineVars, flagVars>>

\* Statement `from' of t runs in user mode and goes on at `to'.
Local(t, from, to) ==
  /\ pc[t] = from
  /\ at[t] = "user"
  /\ pc' = [pc EXCEPT ![t] = to]
  /\ UNCHANGED kernelVars

\* The statements of a producer between down(mutex) and up(mutex).
Arrive(d) ==
  /\ Local(d, "arrive", "up_mutex")
  /\ buf' = [buf EXCEPT ![d][prod[d] % BUFF_SIZE] = prod[d]]
  /\ prod' = [prod EXCEPT ![d] = (@ + 1) % MaxCar]
  /\ UNCHANGED <<con, flagVars>>

\* Mutant: the producer does not take the mutex.
Producer_NoMutex(d) ==
  \/ Call(d, "down_empty", "down", empty[d], "arrive")
  \/ Arrive(d)
  \/ Call(d, "up_mutex", "up", full[d], "down_empty")

Producer(d) ==
  \/ Call(d, "down_empty", "down", empty[d], "down_mutex")
  \/ Call(d, "down_mutex", "down", "mutex", "arrive")
  \/ Arrive(d)
  \/ Call(d, "up_mutex", "up", "mutex", "up_full")
  \/ Call(d, "up_full", "up", full[d], "down_empty")

------------------------------------------------------------------------------
\* Mutant: the loop does not look at the other line.
CheckLimit_Dropped ==
  Local("flag", "limit", "line") /\ UNCHANGED <<lineVars, flagVars>>

(***************************************************************************)
(* The flagperson reads the two counters of a loop condition one after the *)
(* other, without the mutex.                                               *)
(***************************************************************************)
CheckLimit ==
  /\ Local("flag", "limit",
           IF value[full[Other(serving)]] < LINE_LIMIT THEN "line" ELSE "nap_north")
  /\ UNCHANGED <<lineVars, flagVars>>

\* Mutant: the test is value >= 0.
CheckLine_EmptyLine ==
  /\ Local("flag", "line",
           IF value[full[serving]] >= 0 THEN "down_full" ELSE "nap_north")
  /\ UNCHANGED <<lineVars, flagVars>>

CheckLine ==
  /\ Local("flag", "line",
           IF value[full[serving]] > 0 THEN "down_full" ELSE "nap_north")
  /\ UNCHANGED <<lineVars, flagVars>>

\* The first car of the line enters the zone; it wakes the flagperson.
Enter ==
  /\ Local("flag", "enter", "up_mutex")
  /\ car' = con[serving]
  /\ con' = [con EXCEPT ![serving] = (@ + 1) % MaxCar]
  /\ con_sleep' = 0
  /\ UNCHANGED <<prod, buf, serving>>

\* After a loop: if both counters read 0 the flagperson goes to sleep, and
\* the loop of the other side is next.
NapNorth ==
  /\ IF value["n_full"] = 0
       THEN Local("flag", "nap_north", "nap_south") /\ UNCHANGED serving
       ELSE Local("flag", "nap_north", "limit") /\ serving' = Other(serving)
  /\ UNCHANGED <<lineVars, car, con_sleep>>

NapSouth ==
  /\ Local("flag", "nap_south", "limit")
  /\ serving' = Other(serving)
  /\ con_sleep' = IF value["s_full"] = 0 THEN 1 ELSE con_sleep
  /\ UNCHANGED <<lineVars, car>>

Flagperson ==
  \/ CheckLimit
  \/ CheckLine
  \/ Call("flag", "down_full", "down", full[serving], "down_mutex")
  \/ Call("flag", "down_mutex", "down", "mutex", "enter")
  \/ Enter
  \/ Call("flag", "up_mutex", "up", "mutex", "up_empty")
  \/ Call("flag", "up_empty", "up", empty[serving], "limit")
  \/ NapNorth
  \/ NapSouth

InKernel(t) == /\ KernelStep(t)
                 /\ UNCHANGED <<pc, lineVars, flagVars>>

Interrupted(t) == Signal(t) /\ UNCHANGED <<pc, lineVars, flagVars>>

TrafficNext ==
  \/ \E d \in Side : Producer(d)
  \/ Flagperson
  \/ \E t \in Task : InKernel(t) \/ Interrupted(t)

TrafficSpec == TrafficInit /\ [][TrafficNext]_vars

(***************************************************************************)
(* Every process keeps running: the scheduler does not forget a runnable   *)
(* task, the mutex sem_lock is handed over in turn, and rand() % 10 does   *)
(* not exceed 8 for ever, so that a producer goes on producing.            *)
(***************************************************************************)
TrafficFairness ==
  /\ \A d \in Side : WF_vars(Producer(d))
  /\ WF_vars(Flagperson)
  /\ \A t \in Task :
       /\ SF_vars(MutexLock(t) /\ UNCHANGED <<pc, lineVars, flagVars>>)
       /\ WF_vars(InKernel(t))

TrafficFairSpec == TrafficSpec /\ TrafficFairness

------------------------------------------------------------------------------
\* The tasks between the return of down(mutex) and the call of up(mutex).
InRegion == {t \in Task : pc[t] \in {"arrive", "enter", "up_mutex"} /\ at[t] = "user"}

(***************************************************************************)
(* A car passes the zone (sleep() with the mutex held) or a car joins a    *)
(* line, never both and never two: down(mutex) and up(mutex) exclude the   *)
(* others, up to one for every signal that reached a sleeper.              *)
(***************************************************************************)
MutualExclusion == Cardinality(InRegion) <= 1 + signals

\* The car numbers in line on side d, the one in the zone included.
InLine(d) ==
  LET first == IF serving = d /\ pc["flag"] = "up_mutex" THEN car ELSE con[d]
  IN  {n \in 0..MaxCar-1 : (n - first) % MaxCar < (prod[d] - first) % MaxCar}

(***************************************************************************)
(* A producer never overwrites the slot of a car that has not left: the    *)
(* counters n_empty and s_empty keep the circular buffer from wrapping.    *)
(* (To tell a full line from an empty one takes MaxCar > BUFF_SIZE.)       *)
(***************************************************************************)
LineIntact == signals = 0 =>
  \A d \in Side : \A n \in InLine(d) : buf[d][n % BUFF_SIZE] = n

(***************************************************************************)
(* The flagperson looks at n_full->value before down(n_full), unprotected; *)
(* still it never goes to sleep in that down, because nobody else takes    *)
(* cars out of a line: what it saw is still there when it acts on it.      *)
(***************************************************************************)
FlagNeverWaitsForCar ==
  ~(at["flag"] = "schedule" /\ call["flag"].sem \in {"n_full", "s_full"})

\* Why the line of side d may wait for ever: the flagperson sleeps in down; the
\* producer of d sleeps in down, and the line does not grow to the limit any more;
\* a task died holding sem_lock; or both lines are at the limit.
Stopped(d) == \/ at["flag"] = "schedule"
              \/ at[d] = "schedule" /\ value[full[d]] < LINE_LIMIT
              \/ \E t \in Task : at[t] = "oops"
              \/ \A e \in Side : value[full[e]] >= LINE_LIMIT

(***************************************************************************)
(* No line starves while the other is kept supplied: the flagperson comes  *)
(* to every line with a car, unless a sleep that nobody ends, or two full  *)
(* lines, have stopped the traffic.                                        *)
(***************************************************************************)
SideServed ==
  \A d \in Side :
    value[full[d]] > 0 ~> (serving = d /\ pc["flag"] = "enter") \/ Stopped(d)
==============================================================================
