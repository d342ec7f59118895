------------------------------ MODULE Semaphore ------------------------------
(***************************************************************************)
(* The semaphore system calls csc452_down and csc452_up that               *)
(* "Semaphore and Synchronization/sys.c" adds to the kernel.               *)
(*                                                                         *)
(* A task is in user mode, or somewhere inside one of the two calls.  All  *)
(* a call does to the semaphore it does between mutex_lock(&sem_lock) and  *)
(* mutex_unlock(&sem_lock), so that stretch is one action; schedule(), the *)
(* wakeup and a signal are actions of their own.  The list sem->process is *)
(* the sequence of the tasks its nodes name.                               *)
(***************************************************************************)
EXTENDS Integers, Sequences, FiniteSets

CONSTANTS
  Task,            \* the tasks that make the calls
  Sem,             \* the semaphores (structures in memory the tasks share)
  InitValue,       \* InitValue[s]: the value the program stores before fork()
  NoTask,          \* "nobody": sem_lock is free
  KmallocMayFail,  \* whether kmalloc(..., GFP_ATOMIC) can return NULL
  MaxSignals,      \* bound: signals that reach a task asleep in csc452_down
  MaxValue         \* bound: an open client calls up only below this value

ASSUME SemaphoreAssumption ==
  /\ IsFiniteSet(Task)
  /\ NoTask \notin Task
  /\ Sem # {}
  /\ InitValue \in [Sem -> Nat]
  /\ KmallocMayFail \in BOOLEAN
  /\ MaxSignals \in Nat
  /\ MaxValue \in Int

VARIABLES
  value,      \* value[s]: the int sem->value
  process,    \* process[s]: the list sem->process
  sem_lock,   \* the holder of the kernel mutex sem_lock
  at,         \* at[t]: where task t is
  call,       \* call[t]: the last system call of t and its argument
  state,      \* state[t]: the task state the scheduler looks at
  signals     \* signals delivered to sleeping tasks so far

kernelVars == <<value, process, sem_lock, at, call, state, signals>>

(***************************************************************************)
(* The places of a task: user mode; waiting for sem_lock; holding it; in   *)
(* or just before schedule(); killed by the fault at newNode->task.        *)
(***************************************************************************)
Place == {"user", "mutex_lock", "critical", "schedule", "oops"}

TypeOK ==
  /\ value \in [Sem -> Int]
  /\ process \in [Sem -> Seq(Task)]
  /\ sem_lock \in Task \cup {NoTask}
  /\ at \in [Task -> Place]
  /\ call \in [Task -> [op : {"down", "up"}, sem : Sem]]
  /\ state \in [Task -> {"RUNNING", "INTERRUPTIBLE"}]
  /\ signals \in 0..MaxSignals

KernelInit ==
  /\ value = InitValue
  /\ process = [s \in Sem |-> <<>>]
  /\ sem_lock = NoTask
  /\ at = [t \in Task |-> "user"]
  /\ call = [t \in Task |-> [op |-> "down", sem |-> CHOOSE s \in Sem : TRUE]]
  /\ state = [t \in Task |-> "RUNNING"]
  /\ signals = 0

------------------------------------------------------------------------------
\* syscall(443, sem) or syscall(444, sem): t enters the kernel.
Syscall(t, op, s) ==
  /\ at[t] = "user"
  /\ at' = [at EXCEPT ![t] = "mutex_lock"]
  /\ call' = [call EXCEPT ![t] = [op |-> op, sem |-> s]]
  /\ UNCHANGED <<value, process, sem_lock, state, signals>>

\* mutex_lock(&sem_lock)
MutexLock(t) ==
  /\ at[t] = "mutex_lock"
  /\ sem_lock = NoTask
  /\ sem_lock' = t
  /\ at' = [at EXCEPT ![t] = "critical"]
  /\ UNCHANGED <<value, process, call, state, signals>>

\* mutex_unlock(&sem_lock), after which t goes on at place p
MutexUnlock(t, p) == /\ sem_lock' = NoTask
                     /\ at' = [at EXCEPT ![t] = p]

\* Mutant: the node is linked, but its task is never set.
Enqueue_NobodyNamed(list, t) == Append(list, NoTask)

(***************************************************************************)
(* What csc452_down does to the list when it has to wait.  The new node is *)
(* linked behind the last one; for an empty list only the local variable   *)
(* head is assigned, and sem->process keeps its NULL.                      *)
(***************************************************************************)
Enqueue(list, t) == IF list = <<>> THEN list ELSE Append(list, t)

\* Mutant: csc452_down waits only if the value was already negative.
DownTake_OffByOne(t) ==
  LET s == call[t].sem IN
  /\ at[t] = "critical" /\ call[t].op = "down"
  /\ value[s] >= 0
  /\ value' = [value EXCEPT ![s] = @ - 1]
  /\ MutexUnlock(t, "user")
  /\ UNCHANGED <<process, call, state, signals>>

\* csc452_down finds a permit and returns.
DownTake(t) ==
  LET s == call[t].sem IN
  /\ at[t] = "critical" /\ call[t].op = "down"
  /\ value[s] - 1 >= 0
  /\ value' = [value EXCEPT ![s] = @ - 1]
  /\ MutexUnlock(t, "user")
  /\ UNCHANGED <<process, call, state, signals>>

\* Mutant: schedule() comes before mutex_unlock(&sem_lock).
DownWait_KeepsLock(t) ==
  LET s == call[t].sem IN
  /\ at[t] = "critical" /\ call[t].op = "down"
  /\ value[s] - 1 < 0
  /\ value' = [value EXCEPT ![s] = @ - 1]
  /\ process' = [process EXCEPT ![s] = Enqueue(@, t)]
  /\ state' = [state EXCEPT ![t] = "INTERRUPTIBLE"]
  /\ at' = [at EXCEPT ![t] = "schedule"]
  /\ UNCHANGED <<sem_lock, call, signals>>

\* csc452_down finds none: it records the task, marks it and will schedule().
DownWait(t) ==
  LET s == call[t].sem IN
  /\ at[t] = "critical" /\ call[t].op = "down"
  /\ value[s] - 1 < 0
  /\ value' = [value EXCEPT ![s] = @ - 1]
  /\ process' = [process EXCEPT ![s] = Enqueue(@, t)]
  /\ state' = [state EXCEPT ![t] = "INTERRUPTIBLE"]
  /\ MutexUnlock(t, "schedule")
  /\ UNCHANGED <<call, signals>>

(***************************************************************************)
(* kmalloc returned NULL: newNode->task is assigned before newNode is      *)
(* compared with NULL, so the task dies there, with sem_lock held.         *)
(***************************************************************************)
DownOops(t) ==
  LET s == call[t].sem IN
  /\ KmallocMayFail
  /\ at[t] = "critical" /\ call[t].op = "down"
  /\ value[s] - 1 < 0
  /\ value' = [value EXCEPT ![s] = @ - 1]
  /\ at' = [at EXCEPT ![t] = "oops"]
  /\ UNCHANGED <<process, sem_lock, call, state, signals>>

\* schedule() comes back once the task is runnable, and csc452_down returns.
Schedule(t) ==
  /\ at[t] = "schedule"
  /\ state[t] = "RUNNING"
  /\ at' = [at EXCEPT ![t] = "user"]
  /\ UNCHANGED <<value, process, sem_lock, call, state, signals>>

\* csc452_up: add a permit; wake the first task of the list, if it has one.
Up(t) ==
  LET s == call[t].sem
      wakes == value[s] + 1 <= 0 /\ process[s] # <<>>
  IN
  /\ at[t] = "critical" /\ call[t].op = "up"
  /\ value' = [value EXCEPT ![s] = @ + 1]
  /\ IF wakes
       THEN /\ state' = [state EXCEPT ![Head(process[s])] = "RUNNING"]
            /\ process' = [process EXCEPT ![s] = Tail(@)]
       ELSE UNCHANGED <<state, process>>
  /\ MutexUnlock(t, "user")
  /\ UNCHANGED <<call, signals>>

(***************************************************************************)
(* A signal (SIGTSTP and SIGCONT, say) ends a TASK_INTERRUPTIBLE sleep;    *)
(* csc452_down does not look for one and returns 0 as if it had a permit.  *)
(***************************************************************************)
Signal(t) ==
  /\ signals < MaxSignals
  /\ at[t] = "schedule"
  /\ state[t] = "INTERRUPTIBLE"
  /\ state' = [state EXCEPT ![t] = "RUNNING"]
  /\ signals' = signals + 1
  /\ UNCHANGED <<value, process, sem_lock, at, call>>

\* One step of task t inside csc452_down.
Down(t) == DownTake(t) \/ DownWait(t) \/ DownOops(t)

\* One step of task t inside the kernel.
KernelStep(t) == MutexLock(t) \/ Down(t) \/ Up(t) \/ Schedule(t)

------------------------------------------------------------------------------
\* An open client: any task calls either operation of any semaphore.
Client(t) ==
  \E s \in Sem : \/ Syscall(t, "down", s)
                 \/ value[s] < MaxValue /\ Syscall(t, "up", s)

Init == KernelInit

Next == \E t \in Task : KernelStep(t) \/ Signal(t) \/ Client(t)

Spec == Init /\ [][Next]_kernelVars

(***************************************************************************)
(* A task inside the kernel is not held up for ever by the scheduler.      *)
(* Several tasks can want sem_lock; the kernel's mutex hands the lock over *)
(* to a waiter that has been passed by, hence strong fairness there.       *)
(***************************************************************************)
KernelFairness ==
  \A t \in Task : /\ SF_kernelVars(MutexLock(t))
                  /\ WF_kernelVars(Down(t) \/ Up(t) \/ Schedule(t))

FairSpec == Spec /\ KernelFairness

------------------------------------------------------------------------------
\* The tasks whose down of s has counted itself in and still waits: asleep in
\* schedule(), or dead.
Asleep(s) == {t \in Task : /\ call[t].sem = s
                          /\ \/ at[t] = "oops"
                             \/ at[t] = "schedule" /\ state[t] = "INTERRUPTIBLE"}

\* The permits of s that are left, seen from its callers.
Permits(s) == value[s] + Cardinality(Asleep(s))

(***************************************************************************)
(* No more downs of a semaphore have got past it than its initial value    *)
(* and the ups allow, apart from one for every signal: the balance         *)
(* csc452_down and csc452_up keep in sem->value over any interleaving of   *)
(* callers.                                                                *)
(***************************************************************************)
PermitBound == \A s \in Sem : Permits(s) + signals >= 0

(***************************************************************************)
(* The inductive invariant behind PermitBound.  It needs to know that no   *)
(* list ever gets a node: csc452_up would take a sleeper off a list        *)
(* without looking whether it still waits.                                 *)
(***************************************************************************)
QueuesEmpty == \A s \in Sem : process[s] = <<>>

\* Only csc452_down sleeps, and only it can die.
OnlyDownsSleep == \A t \in Task : at[t] \in {"schedule", "oops"} => call[t].op = "down"

IInv == TypeOK /\ QueuesEmpty /\ PermitBound /\ OnlyDownsSleep

(***************************************************************************)
(* A call of csc452_up always comes back, whatever the other tasks do,     *)
(* unless a task died in csc452_down with sem_lock held.                   *)
(***************************************************************************)
UpReturns ==
  \A t \in Task : (at[t] # "user" /\ call[t].op = "up")
                    ~> (at[t] = "user" \/ \E u \in Task : at[u] = "oops")

(***************************************************************************)
(* The two calls implement the counting semaphore their callers rely on:   *)
(* no interleaving hands out a permit twice, and a signal is the only way  *)
(* past a semaphore that has none.                                         *)
(***************************************************************************)
Abstract == INSTANCE CountingSemaphore
              WITH avail <- [s \in Sem |-> Permits(s)], debt <- signals
ImplementsSemaphore == Abstract!Spec

(***************************************************************************)
(* What the comment above csc452_up says: if tasks were sleeping on the    *)
(* semaphore (its value is still not positive), one of them is woken.      *)
(***************************************************************************)
UpWakesSleeper ==
  [][\A t \in Task :
       Up(t) /\ value'[call[t].sem] <= 0
         => \E u \in Asleep(call[t].sem) : state'[u] = "RUNNING"]_kernelVars
==============================================================================
