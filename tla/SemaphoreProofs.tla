--------------------------- MODULE SemaphoreProofs ---------------------------
(***************************************************************************)
(* Proofs about Semaphore for any finite set of tasks and any semaphores:  *)
(* type correctness, the balance of permits, and that csc452_down and      *)
(* csc452_up implement CountingSemaphore.                                  *)
(***************************************************************************)
EXTENDS Semaphore, FiniteSetTheorems, TLAPS

\* A set of tasks is finite, so its cardinality is a number.
LEMMA TaskSets ==
  ASSUME NEW S \in SUBSET Task
  PROVE  IsFiniteSet(S) /\ Cardinality(S) \in Nat
BY FS_Subset, FS_CardinalityType, SemaphoreAssumption

(***************************************************************************)
(* A step of a program that uses the two system calls: the open client of  *)
(* Semaphore is one, the programs that run on it are others.  A step       *)
(* outside the kernel leaves kernelVars alone.                             *)
(***************************************************************************)
AnyCall(t) == \E op \in {"down", "up"}, s \in Sem : Syscall(t, op, s)
OpenNext == \E t \in Task : KernelStep(t) \/ Signal(t) \/ AnyCall(t)

\* The open client makes such steps.
LEMMA ClientIsOpen == [Next]_kernelVars => [OpenNext]_kernelVars
BY DEF Next, OpenNext, Client, AnyCall

\* Every step of the two system calls, a caller or a signal keeps the types.
LEMMA TypeStep == TypeOK /\ [OpenNext]_kernelVars => TypeOK'
<1> SUFFICES ASSUME TypeOK, [OpenNext]_kernelVars PROVE TypeOK'
  OBVIOUS
<1> USE SemaphoreAssumption DEF TypeOK, Place
<1>1. ASSUME NEW t \in Task, NEW op \in {"down", "up"}, NEW s \in Sem,
             Syscall(t, op, s)
      PROVE  TypeOK'
  BY <1>1 DEF Syscall
<1>2. ASSUME NEW t \in Task, MutexLock(t) PROVE TypeOK'
  BY <1>2 DEF MutexLock
<1>3. ASSUME NEW t \in Task, DownTake(t) PROVE TypeOK'
  BY <1>3 DEF DownTake, MutexUnlock
<1>4. ASSUME NEW t \in Task, DownWait(t) PROVE TypeOK'
  <2>1. process' \in [Sem -> Seq(Task)]
    BY <1>4 DEF DownWait, Enqueue
  <2>2. QED
    BY <1>4, <2>1 DEF DownWait, MutexUnlock
<1>5. ASSUME NEW t \in Task, DownOops(t) PROVE TypeOK'
  BY <1>5 DEF DownOops
<1>6. ASSUME NEW t \in Task, Schedule(t) PROVE TypeOK'
  BY <1>6 DEF Schedule
<1>7. ASSUME NEW t \in Task, Up(t) PROVE TypeOK'
  <2> DEFINE s == call[t].sem
  <2>1. s \in Sem
    OBVIOUS
  <2>2. /\ value' = [value EXCEPT ![s] = @ + 1]
        /\ sem_lock' = NoTask /\ at' = [at EXCEPT ![t] = "user"]
        /\ UNCHANGED <<call, signals>>
    BY <1>7 DEF Up, MutexUnlock
  <2>3. CASE value[s] + 1 <= 0 /\ process[s] # <<>>
    <3>1. Head(process[s]) \in Task /\ Tail(process[s]) \in Seq(Task)
      BY <2>1, <2>3
    <3>2. /\ state' = [state EXCEPT ![Head(process[s])] = "RUNNING"]
          /\ process' = [process EXCEPT ![s] = Tail(process[s])]
      BY <1>7, <2>3 DEF Up
    <3>3. QED
      BY <2>1, <2>2, <3>1, <3>2
  <2>4. CASE ~(value[s] + 1 <= 0 /\ process[s] # <<>>)
    <3>1. UNCHANGED <<state, process>>
      BY <1>7, <2>4 DEF Up
    <3>2. QED
      BY <2>1, <2>2, <3>1
  <2>5. QED
    BY <2>3, <2>4
<1>8. ASSUME NEW t \in Task, Signal(t) PROVE TypeOK'
  BY <1>8 DEF Signal
<1>9. CASE UNCHANGED kernelVars
  BY <1>9 DEF kernelVars
<1>10. QED
  BY <1>1, <1>2, <1>3, <1>4, <1>5, <1>6, <1>7, <1>8, <1>9
     DEF OpenNext, KernelStep, Down, AnyCall

(***************************************************************************)
(* The type invariant holds in every reachable state of csc452_down and    *)
(* csc452_up.                                                              *)
(***************************************************************************)
THEOREM TypeCorrect == Spec => []TypeOK
<1>1. Init => TypeOK
  BY SemaphoreAssumption DEF Init, KernelInit, TypeOK, Place
<1>2. QED
  BY <1>1, TypeStep, ClientIsOpen, PTL DEF Spec

------------------------------------------------------------------------------
\* A csc452_down that waits, or dies, adds its caller to the sleepers.
LEMMA AsleepAdd ==
  ASSUME TypeOK, NEW t \in Task, DownWait(t) \/ DownOops(t), NEW s \in Sem
  PROVE  IF s = call[t].sem
           THEN t \notin Asleep(s) /\ Asleep(s)' = Asleep(s) \cup {t}
           ELSE Asleep(s)' = Asleep(s)
BY DEF TypeOK, DownWait, DownOops, MutexUnlock, Asleep

\* A signal takes the task it reaches away from the sleepers.
LEMMA AsleepRemove ==
  ASSUME TypeOK, NEW t \in Task, Signal(t), NEW s \in Sem
  PROVE  IF s = call[t].sem
           THEN t \in Asleep(s) /\ Asleep(s)' = Asleep(s) \ {t}
           ELSE Asleep(s)' = Asleep(s)
BY DEF TypeOK, Signal, Asleep

\* An empty list stays empty, and csc452_up finds nobody in it to wake.
LEMMA UpWakesNobody ==
  ASSUME IInv, NEW t \in Task, Up(t)
  PROVE  /\ at[t] = "critical"
         /\ value' = [value EXCEPT ![call[t].sem] = @ + 1]
         /\ at' = [at EXCEPT ![t] = "user"]
         /\ UNCHANGED <<state, process, call, signals>>
BY DEF IInv, TypeOK, QueuesEmpty, Up, MutexUnlock

\* No other step changes the sleepers of a semaphore.
LEMMA AsleepSame ==
  ASSUME IInv, NEW t \in Task,
         \/ \E op \in {"down", "up"}, s \in Sem : Syscall(t, op, s)
         \/ MutexLock(t) \/ DownTake(t) \/ Schedule(t) \/ Up(t)
  PROVE  \A s \in Sem : Asleep(s)' = Asleep(s)
<1>1. CASE \E op \in {"down", "up"}, s \in Sem : Syscall(t, op, s)
  BY <1>1 DEF IInv, TypeOK, Syscall, Asleep
<1>2. CASE MutexLock(t)
  BY <1>2 DEF IInv, TypeOK, MutexLock, Asleep
<1>3. CASE DownTake(t)
  BY <1>3 DEF IInv, TypeOK, DownTake, MutexUnlock, Asleep
<1>4. CASE Schedule(t)
  BY <1>4 DEF IInv, TypeOK, Schedule, Asleep
<1>5. CASE Up(t)
  BY <1>5, UpWakesNobody DEF IInv, TypeOK, Asleep
<1>6. QED
  BY <1>1, <1>2, <1>3, <1>4, <1>5

------------------------------------------------------------------------------
\* The semaphores start with the permits of InitValue and without sleepers.
LEMMA IInvInit == Init => IInv
<1> SUFFICES ASSUME Init PROVE IInv
  OBVIOUS
<1>1. TypeOK
  BY SemaphoreAssumption DEF Init, KernelInit, TypeOK, Place
<1>2. ASSUME NEW s \in Sem
      PROVE  value[s] + Cardinality(Asleep(s)) + signals >= 0
  <2>1. Asleep(s) \in SUBSET Task
    BY DEF Asleep
  <2>2. value[s] \in Nat /\ signals = 0
    BY SemaphoreAssumption DEF Init, KernelInit
  <2>3. QED
    BY <2>1, <2>2, TaskSets
<1>3. QED
  BY <1>1, <1>2
     DEF IInv, Init, KernelInit, QueuesEmpty, PermitBound, Permits, OnlyDownsSleep

\* No step of csc452_down, csc452_up, a caller or a signal breaks the balance.
LEMMA IInvStep == IInv /\ [OpenNext]_kernelVars => IInv'
<1> SUFFICES ASSUME IInv, [OpenNext]_kernelVars PROVE IInv'
  OBVIOUS
<1> USE SemaphoreAssumption
<1>t. TypeOK /\ TypeOK'
  BY TypeStep DEF IInv
<1>c. \A s \in Sem : /\ IsFiniteSet(Asleep(s))
                     /\ Cardinality(Asleep(s)) \in Nat
                     /\ Cardinality(Asleep(s)') \in Nat
  BY TaskSets DEF Asleep
<1>q. QueuesEmpty'
  <2>1. ASSUME NEW t \in Task, Up(t) PROVE QueuesEmpty'
    BY <2>1, UpWakesNobody DEF IInv, QueuesEmpty
  <2>2. ASSUME NEW t \in Task, DownWait(t) PROVE QueuesEmpty'
    BY <2>2, <1>t DEF IInv, QueuesEmpty, DownWait, Enqueue, TypeOK
  <2>3. QED
    BY <2>1, <2>2 DEF IInv, QueuesEmpty, OpenNext, KernelStep, Down, AnyCall, Syscall,
       MutexLock, DownTake, DownOops, Schedule, Signal, kernelVars
<1>b. PermitBound'
  <2> SUFFICES ASSUME NEW s \in Sem
               PROVE  value'[s] + Cardinality(Asleep(s)') + signals' >= 0
    BY DEF PermitBound, Permits
  <2>0. /\ value[s] + Cardinality(Asleep(s)) + signals >= 0
        /\ value[s] \in Int /\ signals \in Nat
        /\ Cardinality(Asleep(s)) \in Nat
    BY <1>t, <1>c DEF IInv, PermitBound, Permits, TypeOK
  <2>1. ASSUME NEW t \in Task,
               \/ \E op \in {"down", "up"}, r \in Sem : Syscall(t, op, r)
               \/ MutexLock(t) \/ Schedule(t)
        PROVE  value'[s] + Cardinality(Asleep(s)') + signals' >= 0
    <3>1. Asleep(s)' = Asleep(s)
      BY <2>1, AsleepSame
    <3>2. UNCHANGED <<value, signals>>
      BY <2>1 DEF Syscall, MutexLock, Schedule
    <3>3. QED
      BY <2>0, <3>1, <3>2
  <2>2. ASSUME NEW t \in Task, DownTake(t)
        PROVE  value'[s] + Cardinality(Asleep(s)') + signals' >= 0
    <3>1. Asleep(s)' = Asleep(s)
      BY <2>2, AsleepSame
    <3>2. signals' = signals /\ (value'[s] = value[s] \/ value'[s] >= 0)
      BY <2>2, <1>t DEF DownTake, TypeOK
    <3>3. value'[s] \in Int
      BY <1>t DEF TypeOK
    <3>4. QED
      BY <2>0, <3>1, <3>2, <3>3
  <2>3. ASSUME NEW t \in Task, DownWait(t) \/ DownOops(t)
        PROVE  value'[s] + Cardinality(Asleep(s)') + signals' >= 0
    <3>1. CASE s = call[t].sem
      <4>1. Cardinality(Asleep(s)') = Cardinality(Asleep(s)) + 1
        BY <2>3, <3>1, <1>t, <1>c, AsleepAdd, FS_AddElement
      <4>2. value'[s] = value[s] - 1 /\ signals' = signals
        BY <2>3, <3>1, <1>t DEF DownWait, DownOops, TypeOK
      <4>3. QED
        BY <2>0, <4>1, <4>2
    <3>2. CASE s # call[t].sem
      <4>1. Asleep(s)' = Asleep(s)
        BY <2>3, <3>2, <1>t, AsleepAdd
      <4>2. value'[s] = value[s] /\ signals' = signals
        BY <2>3, <3>2, <1>t DEF DownWait, DownOops, TypeOK
      <4>3. QED
        BY <2>0, <4>1, <4>2
    <3>3. QED
      BY <3>1, <3>2
  <2>4. ASSUME NEW t \in Task, Up(t)
        PROVE  value'[s] + Cardinality(Asleep(s)') + signals' >= 0
    <3>1. Asleep(s)' = Asleep(s)
      BY <2>4, AsleepSame
    <3>2. /\ value' = [value EXCEPT ![call[t].sem] = @ + 1]
          /\ signals' = signals /\ call[t].sem \in Sem
      BY <2>4, <1>t, UpWakesNobody DEF TypeOK
    <3>3. value'[s] = value[s] \/ value'[s] = value[s] + 1
      BY <3>2, <1>t DEF TypeOK
    <3>4. QED
      BY <2>0, <3>1, <3>2, <3>3
  <2>5. ASSUME NEW t \in Task, Signal(t)
        PROVE  value'[s] + Cardinality(Asleep(s)') + signals' >= 0
    <3>1. Cardinality(Asleep(s)') >= Cardinality(Asleep(s)) - 1
      <4>1. CASE s = call[t].sem
        <5>1. t \in Asleep(s) /\ Asleep(s)' = Asleep(s) \ {t}
          BY <2>5, <4>1, <1>t, AsleepRemove
        <5>2. Cardinality(Asleep(s)') = Cardinality(Asleep(s)) - 1
          BY <5>1, <1>c, FS_RemoveElement
        <5>3. QED
          BY <5>2, <2>0
      <4>2. CASE s # call[t].sem
        BY <2>0, <2>5, <4>2, <1>t, AsleepRemove
      <4>3. QED
        BY <4>1, <4>2
    <3>2. value'[s] = value[s] /\ signals' = signals + 1
      BY <2>5 DEF Signal
    <3>3. QED
      BY <2>0, <1>c, <3>1, <3>2
  <2>6. CASE UNCHANGED kernelVars
    BY <2>0, <2>6 DEF kernelVars, Asleep
  <2>7. QED
    BY <2>1, <2>2, <2>3, <2>4, <2>5, <2>6 DEF OpenNext, KernelStep, Down, AnyCall
<1>o. OnlyDownsSleep'
  <2>0. OnlyDownsSleep /\ at \in [Task -> Place]
    BY <1>t DEF IInv, TypeOK
  <2>1. ASSUME NEW t \in Task, AnyCall(t) PROVE OnlyDownsSleep'
    BY <2>0, <2>1 DEF AnyCall, Syscall, OnlyDownsSleep
  <2>2. ASSUME NEW t \in Task, MutexLock(t) \/ Schedule(t) \/ Signal(t)
        PROVE  OnlyDownsSleep'
    BY <2>0, <2>2 DEF MutexLock, Schedule, Signal, OnlyDownsSleep
  <2>3. ASSUME NEW t \in Task, Down(t) PROVE OnlyDownsSleep'
    BY <2>0, <2>3 DEF Down, DownTake, DownWait, DownOops, MutexUnlock, OnlyDownsSleep
  <2>4. ASSUME NEW t \in Task, Up(t) PROVE OnlyDownsSleep'
    BY <2>0, <2>4, UpWakesNobody DEF OnlyDownsSleep
  <2>5. CASE UNCHANGED kernelVars
    BY <2>0, <2>5 DEF kernelVars, OnlyDownsSleep
  <2>6. QED
    BY <2>1, <2>2, <2>3, <2>4, <2>5 DEF OpenNext, KernelStep
<1>1. QED
  BY <1>t, <1>q, <1>b, <1>o DEF IInv

\* The inductive invariant holds throughout every behaviour of the two calls.
LEMMA Invariance == Spec => []IInv
BY IInvInit, IInvStep, ClientIsOpen, PTL DEF Spec

(***************************************************************************)
(* For any tasks and semaphores: the downs that csc452_down has let past a *)
(* semaphore never exceed the initial value, the ups, and the signals.     *)
(***************************************************************************)
THEOREM PermitBoundHolds == Spec => []PermitBound
BY Invariance, PTL DEF IInv

------------------------------------------------------------------------------
(***************************************************************************)
(* csc452_down and csc452_up implement a counting semaphore: every step    *)
(* either hands out a permit that is there, or adds one, or is a signal    *)
(* that takes one on credit, or leaves the permits as they are.            *)
(***************************************************************************)
THEOREM Refinement == Spec => ImplementsSemaphore
<1> DEFINE avail == [s \in Sem |-> Permits(s)]
<1>1. Init => Abstract!Init
  <2> SUFFICES ASSUME Init PROVE avail = InitValue /\ signals = 0
    BY DEF Abstract!Init
  <2>1. ASSUME NEW s \in Sem PROVE Permits(s) = InitValue[s]
    <3>1. Asleep(s) = {}
      BY DEF Init, KernelInit, Asleep
    <3>2. QED
      BY <3>1, FS_EmptySet, SemaphoreAssumption DEF Permits, Init, KernelInit
  <2>2. QED
    BY <2>1, SemaphoreAssumption DEF Init, KernelInit
<1>2. IInv /\ [Next]_kernelVars => [Abstract!Next]_<<avail, signals>>
  <2> SUFFICES ASSUME IInv, [Next]_kernelVars
               PROVE  Abstract!Next \/ UNCHANGED <<avail, signals>>
    OBVIOUS
  <2>0. /\ TypeOK /\ TypeOK'
        /\ \A s \in Sem : /\ IsFiniteSet(Asleep(s))
                          /\ Cardinality(Asleep(s)) \in Nat
    BY TypeStep, ClientIsOpen, TaskSets DEF IInv, Asleep
  <2>1. ASSUME NEW t \in Task,
               \/ \E op \in {"down", "up"}, r \in Sem : Syscall(t, op, r)
               \/ MutexLock(t) \/ Schedule(t)
        PROVE  UNCHANGED <<avail, signals>>
    <3>1. \A s \in Sem : Asleep(s)' = Asleep(s)
      BY <2>1, AsleepSame
    <3>2. value' = value /\ signals' = signals
      BY <2>1 DEF Syscall, MutexLock, Schedule
    <3>3. QED
      BY <3>1, <3>2 DEF Permits
  <2>2. ASSUME NEW t \in Task, DownTake(t)
        PROVE  Abstract!Next
    <3> DEFINE r == call[t].sem
    <3>1. r \in Sem /\ \A s \in Sem : Asleep(s)' = Asleep(s)
      BY <2>0, <2>2, AsleepSame DEF TypeOK
    <3>2. /\ value[r] >= 1
          /\ \A s \in Sem : value'[s] = IF s = r THEN value[s] - 1 ELSE value[s]
          /\ signals' = signals
      BY <2>0, <2>2 DEF DownTake, TypeOK
    <3>3. avail[r] > 0
      BY <2>0, <3>1, <3>2 DEF Permits, TypeOK
    <3>4. \A s \in Sem : Permits(s)' = IF s = r THEN Permits(s) - 1 ELSE Permits(s)
      <4> TAKE s \in Sem
      <4>1. /\ value[s] \in Int /\ Cardinality(Asleep(s)) \in Nat
            /\ value'[s] = IF s = r THEN value[s] - 1 ELSE value[s]
            /\ Cardinality(Asleep(s)') = Cardinality(Asleep(s))
        BY <2>0, <3>1, <3>2 DEF TypeOK
      <4>2. QED
        BY <4>1 DEF Permits
    <3>5. avail' = [avail EXCEPT ![r] = @ - 1]
      BY <3>1, <3>4
    <3>6. QED
      BY <3>1, <3>2, <3>3, <3>5 DEF Abstract!Next, Abstract!Acquire
  <2>3. ASSUME NEW t \in Task, DownWait(t) \/ DownOops(t)
        PROVE  UNCHANGED <<avail, signals>>
    <3> SUFFICES ASSUME NEW s \in Sem PROVE Permits(s)' = Permits(s)
      BY <2>3 DEF DownWait, DownOops
    <3>1. CASE s = call[t].sem
      <4>1. t \notin Asleep(s) /\ Asleep(s)' = Asleep(s) \cup {t}
        BY <2>0, <2>3, <3>1, AsleepAdd
      <4>2. Cardinality(Asleep(s)') = Cardinality(Asleep(s)) + 1
        BY <2>0, <4>1, FS_AddElement
      <4>3. value'[s] = value[s] - 1
        BY <2>0, <2>3, <3>1 DEF DownWait, DownOops, TypeOK
      <4>4. QED
        BY <2>0, <4>2, <4>3 DEF Permits, TypeOK
    <3>2. CASE s # call[t].sem
      <4>1. Asleep(s)' = Asleep(s)
        BY <2>0, <2>3, <3>2, AsleepAdd
      <4>2. value'[s] = value[s]
        BY <2>0, <2>3, <3>2 DEF DownWait, DownOops, TypeOK
      <4>3. QED
        BY <4>1, <4>2 DEF Permits
    <3>3. QED
      BY <3>1, <3>2
  <2>4. ASSUME NEW t \in Task, Up(t)
        PROVE  Abstract!Next
    <3> DEFINE r == call[t].sem
    <3>1. r \in Sem /\ \A s \in Sem : Asleep(s)' = Asleep(s)
      BY <2>0, <2>4, AsleepSame DEF TypeOK
    <3>2. /\ \A s \in Sem : value'[s] = IF s = r THEN value[s] + 1 ELSE value[s]
          /\ signals' = signals
      BY <2>0, <2>4, UpWakesNobody DEF TypeOK
    <3>3. \A s \in Sem : Permits(s)' = IF s = r THEN Permits(s) + 1 ELSE Permits(s)
      <4> TAKE s \in Sem
      <4>1. /\ value[s] \in Int /\ Cardinality(Asleep(s)) \in Nat
            /\ value'[s] = IF s = r THEN value[s] + 1 ELSE value[s]
            /\ Cardinality(Asleep(s)') = Cardinality(Asleep(s))
        BY <2>0, <3>1, <3>2 DEF TypeOK
      <4>2. QED
        BY <4>1 DEF Permits
    <3>4. avail' = [avail EXCEPT ![r] = @ + 1]
      BY <3>1, <3>3
    <3>5. QED
      BY <3>1, <3>2, <3>4 DEF Abstract!Next, Abstract!Release
  <2>5. ASSUME NEW t \in Task, Signal(t)
        PROVE  Abstract!Next
    <3>0. PICK r \in Sem : r = call[t].sem
      BY <2>0 DEF TypeOK
    <3>1. value' = value /\ signals' = signals + 1
      BY <2>5 DEF Signal
    <3>2. t \in Asleep(r) /\ Asleep(r)' = Asleep(r) \ {t}
      BY <2>0, <2>5, <3>0, AsleepRemove
    <3>3. \A s \in Sem : s # r => Asleep(s)' = Asleep(s)
      BY <2>0, <2>5, <3>0, AsleepRemove
    <3>4. Cardinality(Asleep(r)') = Cardinality(Asleep(r)) - 1
      BY <2>0, <3>2, FS_RemoveElement
    <3>5. \A s \in Sem : Permits(s)' = IF s = r THEN Permits(s) - 1 ELSE Permits(s)
      <4> TAKE s \in Sem
      <4>1. value[s] \in Int /\ Cardinality(Asleep(s)) \in Nat
        BY <2>0 DEF TypeOK
      <4>2. QED
        BY <3>1, <3>3, <3>4, <4>1 DEF Permits
    <3>6. avail' = [avail EXCEPT ![r] = @ - 1]
      BY <3>5
    <3>7. QED
      BY <3>1, <3>6 DEF Abstract!Next, Abstract!Interrupt
  <2>6. CASE UNCHANGED kernelVars
    BY <2>6 DEF kernelVars, Permits, Asleep
  <2>7. QED
    BY <2>1, <2>2, <2>3, <2>4, <2>5, <2>6 DEF Next, KernelStep, Down, Client
<1>3. QED
  BY <1>1, <1>2, Invariance, PTL
     DEF Spec, ImplementsSemaphore, Abstract!Spec

------------------------------------------------------------------------------
(***************************************************************************)
(* What the programs need to know of the kernel: a call is pending until   *)
(* it has changed the value, which happens in one step.                    *)
(***************************************************************************)
Pending == {t \in Task : at[t] \in {"mutex_lock", "critical"}}

\* A step of the kernel completes the pending call of its task, or changes no
\* value and completes none; it never puts a task into the kernel.
LEMMA KernelSummary ==
  ASSUME IInv, NEW t \in Task, KernelStep(t) \/ Signal(t)
  PROVE  /\ call' = call
         /\ \A u \in Task : at[u] = "user" \/ u # t => at'[u] = at[u]
         /\ \/ /\ value' = value /\ Pending' = Pending
               /\ at'[t] = "schedule" => at[t] = "schedule"
            \/ /\ t \in Pending /\ Pending' = Pending \ {t}
               /\ call[t].op = "down"
               /\ value' = [value EXCEPT ![call[t].sem] = @ - 1]
               /\ value[call[t].sem] > 0 => at'[t] = "user"
            \/ /\ t \in Pending /\ Pending' = Pending \ {t}
               /\ call[t].op = "up"
               /\ value' = [value EXCEPT ![call[t].sem] = @ + 1]
<1>0. at \in [Task -> Place] /\ call[t].op \in {"down", "up"}
  BY DEF IInv, TypeOK
<1>1. CASE MutexLock(t) \/ Schedule(t) \/ Signal(t)
  <2>1. call' = call /\ value' = value
    BY <1>1 DEF MutexLock, Schedule, Signal
  <2>2. /\ \A u \in Task : at[u] = "user" \/ u # t => at'[u] = at[u]
        /\ at'[t] = "schedule" => at[t] = "schedule"
    BY <1>0, <1>1 DEF MutexLock, Schedule, Signal
  <2>3. Pending' = Pending
    BY <1>0, <1>1 DEF MutexLock, Schedule, Signal, Pending
  <2>4. QED
    BY <2>1, <2>2, <2>3
<1>2. CASE Down(t)
  <2>1. /\ call' = call /\ at[t] = "critical" /\ call[t].op = "down"
        /\ value' = [value EXCEPT ![call[t].sem] = @ - 1]
        /\ \E p \in {"user", "schedule", "oops"} :
             at' = [at EXCEPT ![t] = p] /\ (value[call[t].sem] - 1 >= 0 => p = "user")
        /\ value[call[t].sem] \in Int
    <3>1. value[call[t].sem] \in Int
      BY DEF IInv, TypeOK
    <3>2. QED
      BY <1>2, <3>1 DEF Down, DownTake, DownWait, DownOops, MutexUnlock
  <2>2. Pending' = Pending \ {t} /\ t \in Pending
    BY <1>0, <2>1 DEF Pending
  <2>3. QED
    BY <1>0, <2>1, <2>2
<1>3. CASE Up(t)
  <2>1. /\ call' = call /\ at[t] = "critical" /\ call[t].op = "up"
        /\ value' = [value EXCEPT ![call[t].sem] = @ + 1]
        /\ at' = [at EXCEPT ![t] = "user"]
    BY <1>3, UpWakesNobody DEF Up
  <2>2. Pending' = Pending \ {t} /\ t \in Pending
    BY <1>0, <2>1 DEF Pending
  <2>3. QED
    BY <1>0, <2>1, <2>2
<1>4. QED
  BY <1>1, <1>2, <1>3 DEF KernelStep

\* Signals are counted up, one at a time.
LEMMA SignalsGrow ==
  ASSUME IInv, NEW t \in Task, KernelStep(t) \/ Signal(t)
  PROVE  signals \in Nat /\ signals' \in Nat /\ signals' >= signals
<1>1. signals \in Nat
  BY DEF IInv, TypeOK
<1>2. CASE Signal(t)
  BY <1>1, <1>2 DEF Signal
<1>3. CASE MutexLock(t) \/ Schedule(t)
  BY <1>1, <1>3 DEF MutexLock, Schedule
<1>4. CASE Down(t)
  BY <1>1, <1>4 DEF Down, DownTake, DownWait, DownOops
<1>5. CASE Up(t)
  BY <1>1, <1>5 DEF Up
<1>6. QED
  BY <1>2, <1>3, <1>4, <1>5 DEF KernelStep

\* A semaphore on which nobody sleeps has its permits in its counter.
LEMMA NobodyAsleep ==
  ASSUME IInv, NEW s \in Sem,
         \A t \in Task : at[t] # "user" /\ call[t].op = "down" => call[t].sem # s
  PROVE  value[s] + signals >= 0 /\ Permits(s) = value[s]
<1>1. Asleep(s) = {}
  BY DEF Asleep, IInv, OnlyDownsSleep
<1>2. Cardinality(Asleep(s)) = 0
  BY <1>1, FS_EmptySet
<1>3. value[s] \in Int /\ Permits(s) + signals >= 0
  BY DEF IInv, TypeOK, PermitBound
<1>4. QED
  BY <1>2, <1>3 DEF Permits

\* An up adds a permit; no other step of the kernel costs one that is not there
\* or paid for by a signal.
LEMMA PermitsSummary ==
  ASSUME IInv, NEW t \in Task, KernelStep(t) \/ Signal(t), NEW s \in Sem
  PROVE  /\ Permits(s) \in Int /\ Permits(s)' \in Int
         /\ IF t \in Pending /\ t \notin Pending' /\ call[t].op = "up" /\ call[t].sem = s
              THEN Permits(s)' = Permits(s) + 1 /\ signals' = signals
              ELSE Permits(s)' >= 0 \/ Permits(s)' + signals' >= Permits(s) + signals
<1>t. TypeOK /\ TypeOK'
  <2>1. [OpenNext]_kernelVars
    BY DEF OpenNext
  <2>2. QED
    BY <2>1, TypeStep DEF IInv
<1>f. /\ IsFiniteSet(Asleep(s)) /\ Cardinality(Asleep(s)) \in Nat
      /\ Cardinality(Asleep(s)') \in Nat
  BY TaskSets DEF Asleep
<1>v. value[s] \in Int /\ signals \in Nat
  BY <1>t DEF TypeOK
<1>u. value \in [Sem -> Int] /\ call[t].sem \in Sem /\ at \in [Task -> Place]
  BY <1>t DEF TypeOK
<1>w. value'[s] \in Int /\ signals' \in Nat
  BY <1>t DEF TypeOK
<1>0. /\ IsFiniteSet(Asleep(s)) /\ Cardinality(Asleep(s)) \in Nat
      /\ Cardinality(Asleep(s)') \in Nat
      /\ value[s] \in Int /\ value'[s] \in Int /\ signals \in Nat /\ signals' \in Nat
      /\ value \in [Sem -> Int] /\ call[t].sem \in Sem /\ at \in [Task -> Place]
  BY <1>f, <1>u, <1>v, <1>w
<1>p. Permits(s) \in Int /\ Permits(s)' \in Int
  BY <1>0 DEF Permits
<1>1. CASE Up(t)
  <2>1. /\ Asleep(s)' = Asleep(s) /\ signals' = signals
        /\ value' = [value EXCEPT ![call[t].sem] = @ + 1]
    BY <1>1, AsleepSame, UpWakesNobody
  <2>2. t \in Pending /\ t \notin Pending' /\ call[t].op = "up"
    BY <1>0, <1>1, UpWakesNobody DEF Pending, Up
  <2>3. QED
    BY <1>0, <1>p, <2>1, <2>2 DEF Permits
<1>2. CASE MutexLock(t) \/ Schedule(t) \/ Signal(t)
  <2>1. ~(t \in Pending /\ t \notin Pending')
    BY <1>0, <1>2 DEF MutexLock, Schedule, Signal, Pending
  <2>2. CASE MutexLock(t) \/ Schedule(t)
    BY <1>0, <1>p, <2>1, <2>2, AsleepSame DEF MutexLock, Schedule, Permits
  <2>3. CASE Signal(t)
    <3>1. value' = value /\ signals' = signals + 1
      BY <2>3 DEF Signal
    <3>2. Cardinality(Asleep(s)') >= Cardinality(Asleep(s)) - 1
      <4>1. CASE s = call[t].sem
        <5>1. t \in Asleep(s) /\ Asleep(s)' = Asleep(s) \ {t}
          BY <1>t, <2>3, <4>1, AsleepRemove
        <5>2. Cardinality(Asleep(s)') = Cardinality(Asleep(s)) - 1
          BY <1>f, <5>1, FS_RemoveElement
        <5>3. QED
          BY <1>f, <5>2
      <4>2. CASE s # call[t].sem
        BY <1>0, <1>t, <2>3, <4>2, AsleepRemove
      <4>3. QED
        BY <4>1, <4>2
    <3>3. QED
      BY <1>0, <1>p, <2>1, <3>1, <3>2 DEF Permits
  <2>4. QED
    BY <1>2, <2>2, <2>3
<1>3. CASE DownTake(t)
  <2>1. Asleep(s)' = Asleep(s)
    BY <1>3, AsleepSame
  <2>2. call[t].op # "up" /\ signals' = signals /\ (value'[s] = value[s] \/ value'[s] >= 0)
    BY <1>0, <1>3 DEF DownTake
  <2>3. QED
    BY <1>0, <1>p, <2>1, <2>2 DEF Permits
<1>4. CASE DownWait(t) \/ DownOops(t)
  <2>1. call[t].op # "up" /\ signals' = signals
    BY <1>4 DEF DownWait, DownOops
  <2>2. CASE s = call[t].sem
    <3>1. Cardinality(Asleep(s)') = Cardinality(Asleep(s)) + 1
      BY <1>0, <1>4, <1>t, <2>2, AsleepAdd, FS_AddElement
    <3>2. value'[s] = value[s] - 1
      BY <1>0, <1>4, <2>2 DEF DownWait, DownOops
    <3>3. QED
      BY <1>0, <1>p, <2>1, <3>1, <3>2 DEF Permits
  <2>3. CASE s # call[t].sem
    <3>1. Asleep(s)' = Asleep(s) /\ value'[s] = value[s]
      BY <1>0, <1>4, <1>t, <2>3, AsleepAdd DEF DownWait, DownOops
    <3>2. QED
      BY <1>0, <1>p, <2>1, <3>1 DEF Permits
  <2>4. QED
    BY <2>2, <2>3
<1>5. QED
  BY <1>1, <1>2, <1>3, <1>4 DEF KernelStep, Down

\* A semaphore that starts at 1 and is taken by the tasks in H lets one task
\* of them run, and one more for every signal; the others are asleep in down.
LEMMA Exclusion ==
  ASSUME IInv, NEW s \in Sem, NEW H \in SUBSET Task, NEW R \in SUBSET Task,
         value[s] = 1 - Cardinality(H),
         R \cup Asleep(s) \subseteq H, R \cap Asleep(s) = {}
  PROVE  Cardinality(R) <= 1 + signals
<1>1. /\ IsFiniteSet(R) /\ IsFiniteSet(Asleep(s)) /\ IsFiniteSet(H)
      /\ Cardinality(R) \in Nat /\ Cardinality(Asleep(s)) \in Nat
      /\ Cardinality(H) \in Nat /\ Cardinality(R \cup Asleep(s)) \in Nat
  BY TaskSets DEF Asleep
<1>2. Cardinality(R \cup Asleep(s)) = Cardinality(R) + Cardinality(Asleep(s))
  <2>1. Cardinality(R \cup Asleep(s))
          = Cardinality(R) + Cardinality(Asleep(s)) - Cardinality(R \cap Asleep(s))
    BY <1>1, FS_Union
  <2>2. Cardinality(R \cap Asleep(s)) = 0
    BY FS_EmptySet
  <2>3. QED
    BY <1>1, <2>1, <2>2
<1>3. Cardinality(R \cup Asleep(s)) <= Cardinality(H)
  BY <1>1, FS_Subset
<1>4. value[s] + Cardinality(Asleep(s)) + signals >= 0 /\ signals \in Nat
  BY SemaphoreAssumption DEF IInv, TypeOK, PermitBound, Permits
<1>5. QED
  BY <1>1, <1>2, <1>3, <1>4
==============================================================================
