-------------------------- MODULE TrafficSimProofs --------------------------
(***************************************************************************)
(* Proofs about trafficsim.c, on top of what SemaphoreProofs shows of the  *)
(* system calls: for any size of the lines and any number of signals.      *)
(***************************************************************************)
EXTENDS TrafficSim, SemaphoreProofs

\* The semaphores of the two lines and the mutex are five different ones.
LEMMA Names ==
  /\ "mutex" \in Sem
  /\ \A d \in Side : /\ full[d] \in Sem \ {"mutex"} /\ empty[d] \in Sem \ {"mutex"}
                     /\ \A e \in Side : /\ full[d] # empty[e]
                                        /\ full[d] = full[e] => d = e
                                        /\ empty[d] = empty[e] => d = e
  /\ Task = Side \cup {"flag"} /\ "flag" \notin Side
BY TrafficSimAssumption DEF Side, Process, Semaphores, full, empty

-----------------------------------------------------------------------------
\* The call a process is in follows from the statement it comes back to.
ProducerCalls(d) == at[d] # "user" =>
  \/ pc[d] = "down_mutex" /\ call[d] = [op |-> "down", sem |-> empty[d]]
  \/ pc[d] = "arrive" /\ call[d] = [op |-> "down", sem |-> "mutex"]
  \/ pc[d] = "up_full" /\ call[d] = [op |-> "up", sem |-> "mutex"]
  \/ pc[d] = "down_empty" /\ call[d] = [op |-> "up", sem |-> full[d]]

FlagCalls == at["flag"] # "user" =>
  \/ pc["flag"] = "down_mutex" /\ call["flag"] = [op |-> "down", sem |-> full[serving]]
  \/ pc["flag"] = "enter" /\ call["flag"] = [op |-> "down", sem |-> "mutex"]
  \/ pc["flag"] = "up_empty" /\ call["flag"] = [op |-> "up", sem |-> "mutex"]
  \/ pc["flag"] = "limit" /\ call["flag"] = [op |-> "up", sem |-> empty[serving]]

\* The processes that have counted themselves into the mutex and not out again.
HasMutex == {t \in Task : \/ pc[t] \in {"arrive", "enter"} /\ t \notin Pending
                          \/ pc[t] = "up_mutex"
                          \/ pc[t] \in {"up_full", "up_empty"} /\ t \in Pending}

MutexLedger == value["mutex"] = 1 - Cardinality(HasMutex)

\* What the flagperson has seen in a line stays until it takes it.
CarInSight == \/ pc["flag"] = "down_full"
              \/ pc["flag"] = "down_mutex" /\ "flag" \in Pending

FlagAwake ==
  /\ \A d \in Side : value[full[d]] >= 0
  /\ CarInSight => value[full[serving]] > 0
  /\ at["flag"] = "schedule" => pc["flag"] # "down_mutex"

Base ==
  /\ IInv
  /\ pc \in [Task -> ProducerPC \cup FlagPC]
  /\ \A d \in Side : pc[d] \in ProducerPC
  /\ pc["flag"] \in FlagPC
  /\ serving \in Side
  /\ \A d \in Side : ProducerCalls(d)
  /\ FlagCalls

-----------------------------------------------------------------------------
One(b) == IF b THEN 1 ELSE 0

\* A slot of line d is promised to a car that has not arrived; a car has
\* arrived and is not announced; it is counted off and still in line or in
\* the zone; it has gone and its slot is not announced.
Promised(d) == (pc[d] = "down_mutex" /\ d \notin Pending) \/ pc[d] = "arrive"
Arrived(d) == pc[d] \in {"up_mutex", "up_full"} \/ (pc[d] = "down_empty" /\ d \in Pending)
Leaving(d) ==
  /\ serving = d
  /\ \/ pc["flag"] \in {"enter", "up_mutex"}
     \/ pc["flag"] = "down_mutex" /\ "flag" \notin Pending
Gone(d) ==
  /\ serving = d
  /\ \/ pc["flag"] = "up_empty"
     \/ pc["flag"] = "limit" /\ "flag" \in Pending

\* The cars in line d, its other slots, and the number of the first car.
Cars(d) == value[full[d]] + One(Arrived(d)) + One(Leaving(d))
Free(d) == value[empty[d]] + One(Promised(d)) + One(Gone(d))
First(d) == IF serving = d /\ pc["flag"] = "up_mutex" THEN car ELSE con[d]

\* The semaphores account for every slot of the line, the counters for every
\* car, and, as long as no signal came, every car is where its number says.
SlotLedger(d) == Free(d) + Cars(d) = BUFF_SIZE
CarLedger(d) == (prod[d] - First(d) - Cars(d)) % MaxCar = 0
Kept(d) == \A i \in 0..Cars(d) - 1 :
  LET n == (First(d) + i) % MaxCar IN buf[d][n % BUFF_SIZE] = n

LineOK(d) == SlotLedger(d) /\ CarLedger(d) /\ (signals = 0 => Kept(d))

LineInv ==
  /\ prod \in [Side -> 0..MaxCar-1]
  /\ con \in [Side -> 0..MaxCar-1]
  /\ car \in 0..MaxCar-1
  /\ buf \in [Side -> [0..BUFF_SIZE-1 -> 0..MaxCar-1]]
  /\ pc["flag"] = "up_mutex" => con[serving] = (car + 1) % MaxCar
  /\ \A d \in Side : LineOK(d)

Inv == Base /\ MutexLedger /\ FlagAwake /\ LineInv

-----------------------------------------------------------------------------
\* A step of a process into the kernel: its call is pending now.
LEMMA CallKind ==
  ASSUME Base, NEW t \in Task, NEW from, NEW op \in {"down", "up"}, NEW s \in Sem, NEW to,
         Call(t, from, op, s, to)
  PROVE  /\ pc[t] = from /\ pc' = [pc EXCEPT ![t] = to]
         /\ at[t] = "user" /\ at' = [at EXCEPT ![t] = "mutex_lock"]
         /\ call' = [call EXCEPT ![t] = [op |-> op, sem |-> s]]
         /\ t \notin Pending /\ Pending' = Pending \cup {t}
         /\ UNCHANGED <<value, signals, lineVars, flagVars>>
         /\ AnyCall(t)
<1>1. at \in [Task -> Place]
  BY DEF Base, IInv, TypeOK
<1>2. /\ pc[t] = from /\ pc' = [pc EXCEPT ![t] = to]
      /\ at[t] = "user" /\ at' = [at EXCEPT ![t] = "mutex_lock"]
      /\ call' = [call EXCEPT ![t] = [op |-> op, sem |-> s]]
      /\ UNCHANGED <<value, process, sem_lock, state, signals, lineVars, flagVars>>
  BY DEF Call, Syscall
<1>3. t \notin Pending /\ Pending' = Pending \cup {t}
  BY <1>1, <1>2 DEF Pending
<1>4. AnyCall(t)
  BY <1>2 DEF AnyCall, Syscall
<1>5. QED
  BY <1>2, <1>3, <1>4

\* A step of a process in user mode: the kernel does not move.
LEMMA LocalKind ==
  ASSUME NEW t \in Task, NEW from, NEW to, Local(t, from, to)
  PROVE  /\ pc[t] = from /\ pc' = [pc EXCEPT ![t] = to]
         /\ at[t] = "user" /\ t \notin Pending
         /\ UNCHANGED kernelVars /\ Pending' = Pending
BY DEF Local, kernelVars, Pending

\* The calls of the programs, and their steps outside the kernel.
SomeCall ==
  \/ \E d \in Side : \/ Call(d, "down_empty", "down", empty[d], "down_mutex")
                     \/ Call(d, "down_mutex", "down", "mutex", "arrive")
                     \/ Call(d, "up_mutex", "up", "mutex", "up_full")
                     \/ Call(d, "up_full", "up", full[d], "down_empty")
  \/ Call("flag", "down_full", "down", full[serving], "down_mutex")
  \/ Call("flag", "down_mutex", "down", "mutex", "enter")
  \/ Call("flag", "up_mutex", "up", "mutex", "up_empty")
  \/ Call("flag", "up_empty", "up", empty[serving], "limit")

SomeLocal ==
  \/ \E d \in Side : Arrive(d)
  \/ CheckLimit \/ CheckLine \/ Enter \/ NapNorth \/ NapSouth

\* Every step is of one of these kinds, or of the kernel.
LEMMA Kinds ==
  ASSUME [TrafficNext]_vars
  PROVE  \/ SomeCall \/ SomeLocal \/ UNCHANGED vars
         \/ \E t \in Task : InKernel(t) \/ Interrupted(t)
BY DEF TrafficNext, Producer, Flagperson, SomeCall, SomeLocal

\* The flagperson's steps outside the kernel, except Enter, change no line.
LEMMA Looks ==
  ASSUME CheckLimit \/ CheckLine \/ NapNorth \/ NapSouth, Base
  PROVE  /\ at["flag"] = "user" /\ "flag" \notin Pending
         /\ UNCHANGED <<kernelVars, prod, con, buf, car>> /\ Pending' = Pending
         /\ pc["flag"] \in {"limit", "line", "nap_north", "nap_south"}
         /\ serving' \in Side
         /\ \E to \in {"limit", "line", "down_full", "nap_north", "nap_south"} :
              /\ pc' = [pc EXCEPT !["flag"] = to]
              /\ to = "down_full" => serving' = serving /\ value[full[serving]] > 0
<1>0. "flag" \in Task
  BY Names
<1>1. CASE CheckLimit
  <2>1. PICK to \in {"line", "nap_north"} : Local("flag", "limit", to)
    BY <1>1 DEF CheckLimit
  <2>2. UNCHANGED <<prod, con, buf, car, serving>>
    BY <1>1 DEF CheckLimit, lineVars, flagVars
  <2>3. QED
    BY <1>0, <2>1, <2>2, LocalKind DEF Base
<1>2. CASE CheckLine
  <2>1. PICK to \in {"down_full", "nap_north"} :
          Local("flag", "line", to) /\ (to = "down_full" => value[full[serving]] > 0)
    BY <1>2 DEF CheckLine
  <2>2. UNCHANGED <<prod, con, buf, car, serving>>
    BY <1>2 DEF CheckLine, lineVars, flagVars
  <2>3. QED
    BY <1>0, <2>1, <2>2, LocalKind DEF Base
<1>3. CASE NapNorth \/ NapSouth
  <2>1. PICK from \in {"nap_north", "nap_south"}, to \in {"nap_south", "limit"} :
          Local("flag", from, to)
    BY <1>3 DEF NapNorth, NapSouth
  <2>2. UNCHANGED <<prod, con, buf, car>> /\ serving' \in Side
    BY <1>3 DEF NapNorth, NapSouth, lineVars, Other, Side, Base
  <2>3. QED
    BY <1>0, <2>1, <2>2, LocalKind
<1>4. QED
  BY <1>1, <1>2, <1>3

\* The steps of the programs keep what the kernel promises.
LEMMA KernelInv ==
  ASSUME Base, [TrafficNext]_vars
  PROVE  IInv'
<1>1. [OpenNext]_kernelVars
  <2>1. CASE SomeCall
    <3>0. serving \in Side /\ "flag" \in Task /\ Side \subseteq Task
      BY Names DEF Base
    <3>1. \E t \in Task : AnyCall(t)
      BY <2>1, <3>0, CallKind, Names DEF SomeCall
    <3>2. QED
      BY <3>1 DEF OpenNext
  <2>2. CASE SomeLocal
    <3>1. UNCHANGED kernelVars
      <4>1. ASSUME NEW d \in Side, Arrive(d) PROVE UNCHANGED kernelVars
        BY <4>1, LocalKind, Names DEF Arrive
      <4>2. CASE Enter
        BY <4>2, LocalKind, Names DEF Enter
      <4>3. QED
        BY <2>2, <4>1, <4>2, Looks DEF SomeLocal
    <3>2. QED
      BY <3>1 DEF kernelVars
  <2>3. CASE UNCHANGED vars
    BY <2>3 DEF vars, kernelVars
  <2>4. CASE \E t \in Task : InKernel(t) \/ Interrupted(t)
    BY <2>4 DEF OpenNext, InKernel, Interrupted
  <2>5. QED
    BY <2>1, <2>2, <2>3, <2>4, Kinds
<1>2. QED
  BY <1>1, IInvStep DEF Base

\* Where the processes are, and in which calls, is as the programs say.
LEMMA BaseStep ==
  ASSUME Base, [TrafficNext]_vars
  PROVE  Base'
<1>i. IInv'
  BY KernelInv
<1>t. /\ "flag" \in Task /\ Side \subseteq Task /\ "flag" \notin Side
      /\ at \in [Task -> Place] /\ call \in [Task -> [op : {"down", "up"}, sem : Sem]]
      /\ pc \in [Task -> ProducerPC \cup FlagPC] /\ serving \in Side
      /\ \A d \in Side : pc[d] \in ProducerPC /\ ProducerCalls(d)
      /\ pc["flag"] \in FlagPC /\ FlagCalls
  BY Names DEF Base, IInv, TypeOK
\* A new call of a producer, and of the flagperson.
<1>p. ASSUME NEW d \in Side, NEW from, NEW op \in {"down", "up"}, NEW s \in Sem,
             NEW to \in ProducerPC, Call(d, from, op, s, to),
             \/ to = "down_mutex" /\ op = "down" /\ s = empty[d]
             \/ to = "arrive" /\ op = "down" /\ s = "mutex"
             \/ to = "up_full" /\ op = "up" /\ s = "mutex"
             \/ to = "down_empty" /\ op = "up" /\ s = full[d]
      PROVE  Base'
  <2>1. /\ pc' = [pc EXCEPT ![d] = to] /\ at' = [at EXCEPT ![d] = "mutex_lock"]
        /\ call' = [call EXCEPT ![d] = [op |-> op, sem |-> s]] /\ serving' = serving
    BY <1>p DEF Call, Syscall, flagVars
  <2>2. \A e \in Side : pc'[e] \in ProducerPC /\ ProducerCalls(e)'
    BY <1>p, <1>t, <2>1 DEF ProducerCalls
  <2>3. pc'["flag"] \in FlagPC /\ FlagCalls'
    BY <1>t, <2>1 DEF FlagCalls
  <2>4. QED
    BY <1>i, <1>t, <2>1, <2>2, <2>3 DEF Base
<1>f. ASSUME NEW from, NEW op \in {"down", "up"}, NEW s \in Sem,
             NEW to \in FlagPC, Call("flag", from, op, s, to),
             \/ to = "down_mutex" /\ op = "down" /\ s = full[serving]
             \/ to = "enter" /\ op = "down" /\ s = "mutex"
             \/ to = "up_empty" /\ op = "up" /\ s = "mutex"
             \/ to = "limit" /\ op = "up" /\ s = empty[serving]
      PROVE  Base'
  <2>1. /\ pc' = [pc EXCEPT !["flag"] = to] /\ at' = [at EXCEPT !["flag"] = "mutex_lock"]
        /\ call' = [call EXCEPT !["flag"] = [op |-> op, sem |-> s]] /\ serving' = serving
    BY <1>f DEF Call, Syscall, flagVars
  <2>2. \A e \in Side : pc'[e] \in ProducerPC /\ ProducerCalls(e)'
    BY <1>t, <2>1 DEF ProducerCalls
  <2>3. pc'["flag"] \in FlagPC /\ FlagCalls'
    BY <1>f, <1>t, <2>1 DEF FlagCalls
  <2>4. QED
    BY <1>i, <1>t, <2>1, <2>2, <2>3 DEF Base
<1>1. CASE SomeCall
  <2>1. /\ \A d \in Side : empty[d] \in Sem /\ full[d] \in Sem
        /\ "mutex" \in Sem
    BY Names
  <2>2. /\ {"down_mutex", "arrive", "up_full", "down_empty"} \subseteq ProducerPC
        /\ {"down_mutex", "enter", "up_empty", "limit"} \subseteq FlagPC
    BY DEF ProducerPC, FlagPC
  <2>3. QED
    BY <1>1, <1>t, <1>p, <1>f, <2>1, <2>2 DEF SomeCall
\* A step in user mode, of a process that is not in a call afterwards either.
<1>u. ASSUME NEW t \in Task, at[t] = "user", UNCHANGED <<at, call>>,
             NEW to, pc' = [pc EXCEPT ![t] = to], serving' \in Side,
             t \in Side => to \in ProducerPC /\ serving' = serving,
             t = "flag" => to \in FlagPC
      PROVE  Base'
  <2>1. \A e \in Side : pc'[e] \in ProducerPC /\ ProducerCalls(e)'
    BY <1>t, <1>u DEF ProducerCalls
  <2>2. pc'["flag"] \in FlagPC /\ FlagCalls'
    BY <1>t, <1>u, Names DEF FlagCalls
  <2>3. pc' \in [Task -> ProducerPC \cup FlagPC]
    BY <1>t, <1>u, Names
  <2>4. QED
    BY <1>i, <1>u, <2>1, <2>2, <2>3 DEF Base
<1>2. CASE SomeLocal
  <2>1. ASSUME NEW d \in Side, Arrive(d) PROVE Base'
    <3>1. /\ at[d] = "user" /\ pc' = [pc EXCEPT ![d] = "up_mutex"]
          /\ UNCHANGED <<at, call, serving>>
      BY <2>1, <1>t, LocalKind DEF Arrive, flagVars, kernelVars
    <3>2. QED
      BY <3>1, <1>t, <1>u DEF ProducerPC
  <2>2. CASE Enter
    <3>1. /\ at["flag"] = "user" /\ pc' = [pc EXCEPT !["flag"] = "up_mutex"]
          /\ UNCHANGED <<at, call, serving>>
      BY <2>2, <1>t, LocalKind DEF Enter, kernelVars
    <3>2. QED
      BY <3>1, <1>t, <1>u DEF FlagPC
  <2>3. CASE CheckLimit \/ CheckLine \/ NapNorth \/ NapSouth
    <3>1. /\ at["flag"] = "user" /\ serving' \in Side /\ UNCHANGED <<at, call>>
          /\ \E to \in FlagPC : pc' = [pc EXCEPT !["flag"] = to]
      BY <2>3, Looks DEF kernelVars, FlagPC
    <3>2. QED
      BY <3>1, <1>t, <1>u
  <2>4. QED
    BY <1>2, <2>1, <2>2, <2>3 DEF SomeLocal
<1>3. CASE UNCHANGED vars
  BY <1>3, <1>i DEF vars, kernelVars, flagVars, Base, ProducerCalls, FlagCalls
<1>4. ASSUME NEW t \in Task, InKernel(t) \/ Interrupted(t) PROVE Base'
  <2>1. /\ call' = call /\ \A u \in Task : at[u] = "user" => at'[u] = "user"
        /\ UNCHANGED <<pc, serving>>
    BY <1>4, KernelSummary DEF Base, InKernel, Interrupted, flagVars
  <2>2. QED
    BY <1>i, <1>t, <2>1 DEF Base, ProducerCalls, FlagCalls
<1>5. QED
  BY <1>1, <1>2, <1>3, <1>4, Kinds

-----------------------------------------------------------------------------
\* Making a call, or a step in user mode, gives no process the mutex and takes
\* it from none.
LEMMA HoldersSame ==
  ASSUME Base, SomeCall \/ SomeLocal
  PROVE  HasMutex' = HasMutex /\ value' = value
<1>t. /\ "flag" \in Task /\ Side \subseteq Task /\ "flag" \notin Side
      /\ pc \in [Task -> ProducerPC \cup FlagPC] /\ serving \in Side
      /\ "mutex" \in Sem /\ \A d \in Side : empty[d] \in Sem /\ full[d] \in Sem
  BY Names DEF Base
<1>1. ASSUME NEW t \in Task, NEW from, NEW op \in {"down", "up"}, NEW s \in Sem, NEW to,
             Call(t, from, op, s, to),
             <<from, to>> \in {<<"down_empty", "down_mutex">>, <<"down_mutex", "arrive">>,
                               <<"up_mutex", "up_full">>, <<"up_full", "down_empty">>,
                               <<"down_full", "down_mutex">>, <<"down_mutex", "enter">>,
                               <<"up_mutex", "up_empty">>, <<"up_empty", "limit">>}
      PROVE  HasMutex' = HasMutex /\ value' = value
  <2>1. /\ pc[t] = from /\ pc' = [pc EXCEPT ![t] = to] /\ value' = value
        /\ t \notin Pending /\ Pending' = Pending \cup {t}
    <3>1. /\ pc[t] = from /\ pc' = [pc EXCEPT ![t] = to] /\ value' = value
          /\ at[t] = "user" /\ at' = [at EXCEPT ![t] = "mutex_lock"]
      BY <1>1 DEF Call, Syscall
    <3>2. QED
      BY <3>1 DEF Pending, Base, IInv, TypeOK
  <2>2. QED
    BY <1>1, <1>t, <2>1 DEF HasMutex
<1>2. CASE SomeCall
  BY <1>1, <1>2, <1>t DEF SomeCall
<1>3. ASSUME NEW d \in Side, Arrive(d) PROVE HasMutex' = HasMutex /\ value' = value
  <2>1. /\ pc[d] = "arrive" /\ pc' = [pc EXCEPT ![d] = "up_mutex"]
        /\ d \notin Pending /\ Pending' = Pending /\ value' = value
    BY <1>3, <1>t, LocalKind DEF Arrive, kernelVars
  <2>2. QED
    BY <1>t, <2>1 DEF HasMutex
<1>4. CASE Enter
  <2>1. /\ pc["flag"] = "enter" /\ pc' = [pc EXCEPT !["flag"] = "up_mutex"]
        /\ "flag" \notin Pending /\ Pending' = Pending /\ value' = value
    BY <1>4, <1>t, LocalKind DEF Enter, kernelVars
  <2>2. QED
    BY <1>t, <2>1 DEF HasMutex
<1>5. CASE CheckLimit \/ CheckLine \/ NapNorth \/ NapSouth
  <2>1. /\ pc["flag"] \in {"limit", "line", "nap_north", "nap_south"}
        /\ \E to \in {"limit", "line", "down_full", "nap_north", "nap_south"} :
             pc' = [pc EXCEPT !["flag"] = to]
        /\ "flag" \notin Pending /\ Pending' = Pending /\ value' = value
    BY <1>5, Looks DEF kernelVars
  <2>2. QED
    BY <1>t, <2>1 DEF HasMutex
<1>6. QED
  BY <1>2, <1>3, <1>4, <1>5 DEF SomeLocal

\* Which call of the mutex a process is in.
LEMMA MutexCalls ==
  ASSUME Base, NEW t \in Task, at[t] # "user"
  PROVE  /\ call[t].sem = "mutex" /\ call[t].op = "down" => pc[t] \in {"arrive", "enter"}
         /\ call[t].sem = "mutex" /\ call[t].op = "up" => pc[t] \in {"up_full", "up_empty"}
         /\ call[t].sem # "mutex" => pc[t] \in {"down_mutex", "down_empty", "limit"}
<1>1. CASE t \in Side
  <2>1. ProducerCalls(t) /\ empty[t] # "mutex" /\ full[t] # "mutex"
    BY <1>1, Names DEF Base
  <2>2. QED
    BY <2>1 DEF ProducerCalls
<1>2. CASE t = "flag"
  <2>1. FlagCalls /\ empty[serving] # "mutex" /\ full[serving] # "mutex"
    BY Names DEF Base
  <2>2. QED
    BY <1>2, <2>1 DEF FlagCalls
<1>3. QED
  BY <1>1, <1>2, Names

\* The value of the mutex counts the processes that have it.
LEMMA MutexStep ==
  ASSUME Base, MutexLedger, [TrafficNext]_vars
  PROVE  MutexLedger'
<1>t. /\ "flag" \in Task /\ Task = Side \cup {"flag"} /\ "flag" \notin Side
      /\ \A d \in Side : empty[d] # "mutex" /\ full[d] # "mutex"
      /\ serving \in Side /\ "mutex" \in Sem
      /\ value \in [Sem -> Int]
  BY Names DEF Base, IInv, TypeOK
<1>c. IsFiniteSet(HasMutex) /\ Cardinality(HasMutex) \in Nat
  BY TaskSets DEF HasMutex
<1>1. CASE SomeCall \/ SomeLocal
  BY <1>1, HoldersSame DEF MutexLedger
<1>2. CASE UNCHANGED vars
  BY <1>2 DEF vars, kernelVars, MutexLedger, HasMutex, Pending
<1>3. ASSUME NEW t \in Task, InKernel(t) \/ Interrupted(t) PROVE MutexLedger'
  <2>0. IInv /\ (KernelStep(t) \/ Signal(t)) /\ pc' = pc
    BY <1>3 DEF Base, InKernel, Interrupted
  <2>1. CASE value' = value /\ Pending' = Pending
    BY <2>0, <2>1 DEF MutexLedger, HasMutex
  <2>2. CASE /\ t \in Pending /\ Pending' = Pending \ {t}
             /\ call[t].op = "down"
             /\ value' = [value EXCEPT ![call[t].sem] = @ - 1]
    <3>1. at[t] # "user"
      BY <2>2 DEF Pending
    <3>2. CASE call[t].sem = "mutex"
      <4>1. pc[t] \in {"arrive", "enter"}
        BY <2>2, <3>1, <3>2, MutexCalls
      <4>2. t \notin HasMutex /\ HasMutex' = HasMutex \cup {t}
        BY <2>0, <2>2, <4>1 DEF HasMutex
      <4>3. Cardinality(HasMutex') = Cardinality(HasMutex) + 1
        BY <1>c, <4>2, FS_AddElement
      <4>4. value'["mutex"] = value["mutex"] - 1
        BY <1>t, <2>2, <3>2
      <4>5. QED
        BY <1>c, <4>3, <4>4 DEF MutexLedger
    <3>3. CASE call[t].sem # "mutex"
      <4>1. pc[t] \in {"down_mutex", "down_empty", "limit"}
        BY <2>2, <3>1, <3>3, MutexCalls
      <4>2. HasMutex' = HasMutex /\ value'["mutex"] = value["mutex"]
        BY <1>t, <2>0, <2>2, <3>3, <4>1 DEF HasMutex
      <4>3. QED
        BY <4>2 DEF MutexLedger
    <3>4. QED
      BY <3>2, <3>3
  <2>3. CASE /\ t \in Pending /\ Pending' = Pending \ {t}
             /\ call[t].op = "up"
             /\ value' = [value EXCEPT ![call[t].sem] = @ + 1]
    <3>1. at[t] # "user"
      BY <2>3 DEF Pending
    <3>2. CASE call[t].sem = "mutex"
      <4>1. pc[t] \in {"up_full", "up_empty"}
        BY <2>3, <3>1, <3>2, MutexCalls
      <4>2. t \in HasMutex /\ HasMutex' = HasMutex \ {t}
        BY <2>0, <2>3, <4>1 DEF HasMutex
      <4>3. Cardinality(HasMutex') = Cardinality(HasMutex) - 1
        BY <1>c, <4>2, FS_RemoveElement
      <4>4. value'["mutex"] = value["mutex"] + 1
        BY <1>t, <2>3, <3>2
      <4>5. QED
        BY <1>c, <4>3, <4>4 DEF MutexLedger
    <3>3. CASE call[t].sem # "mutex"
      <4>1. pc[t] \in {"down_mutex", "down_empty", "limit"}
        BY <2>3, <3>1, <3>3, MutexCalls
      <4>2. HasMutex' = HasMutex /\ value'["mutex"] = value["mutex"]
        BY <1>t, <2>0, <2>3, <3>3, <4>1 DEF HasMutex
      <4>3. QED
        BY <4>2 DEF MutexLedger
    <3>4. QED
      BY <3>2, <3>3
  <2>4. QED
    BY <2>0, <2>1, <2>2, <2>3, KernelSummary
<1>4. QED
  BY <1>1, <1>2, <1>3, Kinds

\* The programs start with the mutex free.
LEMMA BaseInit == TrafficInit => Base /\ MutexLedger
<1> SUFFICES ASSUME TrafficInit PROVE Base /\ MutexLedger
  OBVIOUS
<1>1. IInv
  BY IInvInit DEF TrafficInit, Init
<1>2. /\ \A t \in Task : at[t] = "user" /\ pc[t] \in {"limit", "down_empty"}
      /\ pc["flag"] = "limit" /\ \A d \in Side : pc[d] = "down_empty"
      /\ pc \in [Task -> {"limit", "down_empty"}] /\ serving \in Side
  BY Names DEF TrafficInit, KernelInit, Side
<1>3. Base
  BY <1>1, <1>2, Names DEF Base, ProducerPC, FlagPC, ProducerCalls, FlagCalls
<1>4. HasMutex = {} /\ value["mutex"] = 1
  BY <1>2, Names, TrafficSimAssumption DEF HasMutex, TrafficInit, KernelInit, InitialValues
<1>5. QED
  BY <1>3, <1>4, FS_EmptySet DEF MutexLedger

(***************************************************************************)
(* For any lines, any number of signals and any failures of kmalloc: a car *)
(* passes the zone or one joins a line of trafficsim.c, never both, but    *)
(* for one process for every signal that reached a sleeper.                *)
(***************************************************************************)
THEOREM ZoneIsExclusive == TrafficSpec => []MutualExclusion
<1>1. Base /\ MutexLedger /\ [TrafficNext]_vars => (Base /\ MutexLedger)'
  BY BaseStep, MutexStep
<1>2. ASSUME Base, MutexLedger PROVE MutualExclusion
  <2>1. InRegion \cup Asleep("mutex") \subseteq HasMutex
    <3>1. InRegion \subseteq HasMutex
      BY DEF InRegion, HasMutex, Pending
    <3>2. ASSUME NEW t \in Asleep("mutex") PROVE t \in HasMutex
      <4>1. /\ t \in Task /\ at[t] \in {"oops", "schedule"} /\ call[t].sem = "mutex"
            /\ call[t].op = "down"
        BY <1>2 DEF Asleep, Base, IInv, OnlyDownsSleep
      <4>2. pc[t] \in {"arrive", "enter"}
        BY <1>2, <4>1, MutexCalls
      <4>3. QED
        BY <4>1, <4>2 DEF HasMutex, Pending
    <3>3. QED
      BY <3>1, <3>2
  <2>2. InRegion \cap Asleep("mutex") = {}
    BY DEF InRegion, Asleep
  <2>3. InRegion \in SUBSET Task /\ HasMutex \in SUBSET Task /\ "mutex" \in Sem
    BY Names DEF InRegion, HasMutex
  <2>4. QED
    BY <1>2, <2>1, <2>2, <2>3, Exclusion DEF Base, MutexLedger, MutualExclusion
<1>3. QED
  BY <1>1, <1>2, BaseInit, PTL DEF TrafficSpec

-----------------------------------------------------------------------------
\* Which calls of the counters of the lines there are.
LEMMA LineCalls ==
  ASSUME Base, NEW t \in Task, at[t] # "user", NEW d \in Side
  PROVE  /\ call[t].sem = full[d] /\ call[t].op = "down"
              => t = "flag" /\ pc[t] = "down_mutex" /\ d = serving
         /\ call[t].sem = full[d] /\ call[t].op = "up" => t = d /\ pc[t] = "down_empty"
         /\ call[t].sem = empty[d] /\ call[t].op = "down" => t = d /\ pc[t] = "down_mutex"
         /\ call[t].sem = empty[d] /\ call[t].op = "up"
              => t = "flag" /\ pc[t] = "limit" /\ d = serving
<1>0. /\ full[d] # "mutex" /\ empty[d] # "mutex"
      /\ \A e \in Side : /\ full[d] # empty[e] /\ full[e] # empty[d]
                         /\ full[e] = full[d] => e = d
                         /\ empty[e] = empty[d] => e = d
  BY Names
<1>1. CASE t \in Side
  <2>1. ProducerCalls(t)
    BY <1>1 DEF Base
  <2>2. QED
    BY <1>0, <1>1, <2>1 DEF ProducerCalls
<1>2. CASE t = "flag"
  <2>1. FlagCalls /\ serving \in Side
    BY DEF Base
  <2>2. QED
    BY <1>0, <1>2, <2>1 DEF FlagCalls
<1>3. QED
  BY <1>1, <1>2, Names

\* And what the flagperson's call is when it comes back to down(mutex).
LEMMA FlagTakes ==
  ASSUME Base, at["flag"] # "user"
  PROVE  pc["flag"] = "down_mutex" <=> call["flag"] = [op |-> "down", sem |-> full[serving]]
<1>1. FlagCalls /\ full[serving] # "mutex"
  BY Names DEF Base
<1>2. QED
  BY <1>1 DEF FlagCalls

\* No step takes away the car that the flagperson has seen.
LEMMA AwakeStep ==
  ASSUME Base, FlagAwake, [TrafficNext]_vars
  PROVE  FlagAwake'
<1>t. /\ "flag" \in Task /\ Side \subseteq Task /\ "flag" \notin Side
      /\ pc \in [Task -> ProducerPC \cup FlagPC] /\ serving \in Side
      /\ at \in [Task -> Place] /\ value \in [Sem -> Int]
      /\ \A d \in Side : full[d] \in Sem
  BY Names DEF Base, IInv, TypeOK
<1>1. CASE SomeCall
  <2>1. ASSUME NEW d \in Side, NEW from, NEW op, NEW s, NEW to, Call(d, from, op, s, to)
        PROVE  FlagAwake'
    <3>1. /\ value' = value /\ serving' = serving
          /\ pc' = [pc EXCEPT ![d] = to] /\ at' = [at EXCEPT ![d] = "mutex_lock"]
      BY <2>1 DEF Call, Syscall, flagVars
    <3>2. pc'["flag"] = pc["flag"] /\ at'["flag"] = at["flag"]
      BY <1>t, <3>1
    <3>3. QED
      BY <3>1, <3>2, <1>t DEF FlagAwake, CarInSight, Pending
  <2>2. ASSUME NEW from, NEW op, NEW s, NEW to, Call("flag", from, op, s, to),
               to = "down_mutex" => from = "down_full", to # "down_full"
        PROVE  FlagAwake'
    <3>1. /\ value' = value /\ serving' = serving /\ pc["flag"] = from
          /\ pc' = [pc EXCEPT !["flag"] = to] /\ at' = [at EXCEPT !["flag"] = "mutex_lock"]
      BY <2>2 DEF Call, Syscall, flagVars
    <3>2. pc'["flag"] = to /\ at'["flag"] # "schedule"
      BY <1>t, <3>1
    <3>3. QED
      BY <2>2, <3>1, <3>2 DEF FlagAwake, CarInSight
  <2>3. QED
    BY <1>1, <2>1, <2>2 DEF SomeCall
<1>2. ASSUME NEW d \in Side, Arrive(d) PROVE FlagAwake'
  <2>1. /\ pc' = [pc EXCEPT ![d] = "up_mutex"] /\ UNCHANGED <<at, value, serving>>
    BY <1>2 DEF Arrive, Local, kernelVars, flagVars
  <2>2. pc'["flag"] = pc["flag"]
    BY <1>t, <2>1
  <2>3. QED
    BY <2>1, <2>2 DEF FlagAwake, CarInSight, Pending
<1>3. CASE Enter
  <2>1. /\ pc' = [pc EXCEPT !["flag"] = "up_mutex"] /\ UNCHANGED <<at, value, serving>>
    BY <1>3 DEF Enter, Local, kernelVars
  <2>2. pc'["flag"] = "up_mutex"
    BY <1>t, <2>1
  <2>3. QED
    BY <2>1, <2>2 DEF FlagAwake, CarInSight
<1>4. CASE CheckLimit \/ CheckLine \/ NapNorth \/ NapSouth
  <2>1. PICK to \in {"limit", "line", "down_full", "nap_north", "nap_south"} :
          /\ pc' = [pc EXCEPT !["flag"] = to]
          /\ to = "down_full" => serving' = serving /\ value[full[serving]] > 0
    BY <1>4, Looks
  <2>2. UNCHANGED <<at, value>>
    BY <1>4, Looks DEF kernelVars
  <2>3. pc'["flag"] = to
    BY <1>t, <2>1
  <2>4. QED
    BY <2>1, <2>2, <2>3 DEF FlagAwake, CarInSight
<1>5. CASE UNCHANGED vars
  BY <1>5 DEF vars, kernelVars, flagVars, FlagAwake, CarInSight, Pending
<1>6. ASSUME NEW t \in Task, InKernel(t) \/ Interrupted(t) PROVE FlagAwake'
  <2>0. /\ IInv /\ (KernelStep(t) \/ Signal(t)) /\ UNCHANGED <<pc, serving>>
        /\ IInv' /\ Base'
    BY <1>6, BaseStep DEF Base, InKernel, Interrupted, flagVars
  <2>s. /\ call' = call /\ \A u \in Task : u # t => at'[u] = at[u]
    BY <2>0, KernelSummary
  <2>1. CASE /\ value' = value /\ Pending' = Pending
             /\ at'[t] = "schedule" => at[t] = "schedule"
    BY <1>t, <2>0, <2>1, <2>s DEF FlagAwake, CarInSight
  <2>2. CASE /\ t \in Pending /\ Pending' = Pending \ {t}
             /\ call[t].op = "down"
             /\ value' = [value EXCEPT ![call[t].sem] = @ - 1]
             /\ value[call[t].sem] > 0 => at'[t] = "user"
    <3>1. at[t] # "user"
      BY <2>2 DEF Pending
    <3>2. CASE t = "flag" /\ pc["flag"] = "down_mutex"
      <4>1. call[t].sem = full[serving]
        BY <3>1, <3>2, FlagTakes
      <4>2. value[full[serving]] > 0
        BY <2>2, <3>2 DEF FlagAwake, CarInSight
      <4>3. at'["flag"] = "user" /\ "flag" \notin Pending'
        BY <2>2, <3>2, <4>1, <4>2
      <4>4. \A d \in Side : value'[full[d]] >= 0
        BY <1>t, <2>2, <4>1, <4>2 DEF FlagAwake
      <4>5. QED
        BY <2>0, <3>2, <4>3, <4>4 DEF FlagAwake, CarInSight
    <3>3. CASE ~(t = "flag" /\ pc["flag"] = "down_mutex")
      <4>1. \A d \in Side : call[t].sem # full[d]
        BY <2>2, <3>1, <3>3, LineCalls
      <4>2. \A d \in Side : value'[full[d]] = value[full[d]]
        BY <1>t, <2>2, <4>1
      <4>3. CarInSight' => CarInSight
        BY <2>0, <2>2 DEF CarInSight
      <4>4. at'["flag"] = "schedule" => pc["flag"] # "down_mutex"
        BY <1>t, <2>s, <3>3 DEF FlagAwake
      <4>5. QED
        BY <1>t, <2>0, <4>2, <4>3, <4>4 DEF FlagAwake
    <3>4. QED
      BY <3>2, <3>3
  <2>3. CASE /\ t \in Pending /\ Pending' = Pending \ {t}
             /\ call[t].op = "up"
             /\ value' = [value EXCEPT ![call[t].sem] = @ + 1]
    <3>1. call[t].sem \in Sem /\ \A s \in Sem : value'[s] >= value[s] /\ value'[s] \in Int
      BY <1>t, <2>3 DEF Base, IInv, TypeOK
    <3>2. CarInSight' => CarInSight
      BY <2>0, <2>3 DEF CarInSight
    <3>3. at'["flag"] = "schedule" => pc["flag"] # "down_mutex"
      <4>1. CASE t = "flag"
        BY <1>t, <2>0, <2>3, <2>s, <4>1 DEF IInv, OnlyDownsSleep
      <4>2. CASE t # "flag"
        BY <1>t, <2>s, <4>2 DEF FlagAwake
      <4>3. QED
        BY <4>1, <4>2
    <3>4. QED
      BY <1>t, <2>0, <3>1, <3>2, <3>3 DEF FlagAwake
  <2>4. QED
    BY <2>0, <2>1, <2>2, <2>3, KernelSummary
<1>7. QED
  BY <1>1, <1>2, <1>3, <1>4, <1>5, <1>6, Kinds DEF SomeLocal

\* The lines are empty when the programs start.
LEMMA AwakeInit == TrafficInit => FlagAwake
<1> SUFFICES ASSUME TrafficInit PROVE FlagAwake
  OBVIOUS
<1>1. at["flag"] = "user" /\ pc["flag"] = "limit"
  BY Names DEF TrafficInit, KernelInit
<1>2. \A d \in Side : value[full[d]] = 0
  BY TrafficSimAssumption DEF TrafficInit, KernelInit, InitialValues, Semaphores, full, Side
<1>3. QED
  BY <1>1, <1>2 DEF FlagAwake, CarInSight

(***************************************************************************)
(* For any lines, limits and signals: the flagperson of trafficsim.c never *)
(* sleeps in the down of a line's cars, although it looked at the counter  *)
(* without the mutex some time before.                                     *)
(***************************************************************************)
THEOREM FlagStaysAwake == TrafficSpec => []FlagNeverWaitsForCar
<1>1. ASSUME Base, FlagAwake PROVE FlagNeverWaitsForCar
  <2> SUFFICES ASSUME at["flag"] = "schedule", NEW d \in Side, call["flag"].sem = full[d]
               PROVE  FALSE
    BY DEF FlagNeverWaitsForCar, full, Side
  <2>1. call["flag"].op = "down" /\ "flag" \in Task
    BY <1>1, Names DEF Base, IInv, OnlyDownsSleep
  <2>2. pc["flag"] = "down_mutex"
    BY <1>1, <2>1, LineCalls
  <2>3. QED
    BY <1>1, <2>2 DEF FlagAwake
<1>2. Base /\ FlagAwake /\ [TrafficNext]_vars => (Base /\ FlagAwake)'
  BY BaseStep, AwakeStep
<1>3. QED
  BY <1>1, <1>2, BaseInit, AwakeInit, PTL DEF TrafficSpec

-----------------------------------------------------------------------------
\* Every count of a line is a number.
LEMMA CountTypes ==
  ASSUME Base, NEW d \in Side
  PROVE  /\ Cars(d) \in Int /\ Free(d) \in Int
         /\ value[full[d]] \in Int /\ value[empty[d]] \in Int
<1>1. value[full[d]] \in Int /\ value[empty[d]] \in Int
  BY Names DEF Base, IInv, TypeOK
<1>2. /\ One(Arrived(d)) \in Int /\ One(Leaving(d)) \in Int
      /\ One(Promised(d)) \in Int /\ One(Gone(d)) \in Int
  BY DEF One
<1>3. QED
  BY <1>1, <1>2 DEF Cars, Free

\* A step of the kernel moves a car, or a slot, from one count to another.
LEMMA KernelLines ==
  ASSUME Base, NEW t \in Task, InKernel(t) \/ Interrupted(t), NEW d \in Side
  PROVE  Cars(d)' = Cars(d) /\ Free(d)' = Free(d) /\ First(d)' = First(d)
<1>0. /\ IInv /\ (KernelStep(t) \/ Signal(t)) /\ UNCHANGED <<pc, serving, car, con>>
  BY DEF Base, InKernel, Interrupted, flagVars, lineVars
<1>s. call' = call
  BY <1>0, KernelSummary
<1>f. First(d)' = First(d)
  BY <1>0 DEF First
<1>v. /\ value \in [Sem -> Int] /\ full[d] \in Sem /\ empty[d] \in Sem /\ full[d] # empty[d]
      /\ value[full[d]] \in Int /\ value[empty[d]] \in Int
      /\ "flag" \in Task /\ d \in Task /\ d # "flag"
  BY Names DEF Base, IInv, TypeOK
<1>1. CASE value' = value /\ Pending' = Pending
  BY <1>0, <1>1, <1>f DEF Cars, Free, Promised, Arrived, Leaving, Gone
<1>2. CASE /\ t \in Pending /\ Pending' = Pending \ {t}
           /\ \/ call[t].op = "down" /\ value' = [value EXCEPT ![call[t].sem] = @ - 1]
              \/ call[t].op = "up" /\ value' = [value EXCEPT ![call[t].sem] = @ + 1]
  <2>1. at[t] # "user"
    BY <1>2 DEF Pending
  <2>2. CASE call[t].sem = full[d] /\ call[t].op = "down"
    <3>1. t = "flag" /\ pc[t] = "down_mutex" /\ d = serving
      BY <2>1, <2>2, LineCalls
    <3>2. /\ value'[full[d]] = value[full[d]] - 1 /\ value'[empty[d]] = value[empty[d]]
      BY <1>v, <1>2, <2>2
    <3>3. /\ ~Leaving(d) /\ Leaving(d)' /\ ~Gone(d) /\ ~Gone(d)'
          /\ Arrived(d)' = Arrived(d) /\ Promised(d)' = Promised(d)
      BY <1>0, <1>v, <1>2, <3>1 DEF Leaving, Gone, Arrived, Promised
    <3>4. QED
      BY <1>f, <1>v, <3>2, <3>3 DEF Cars, Free, One
  <2>3. CASE call[t].sem = full[d] /\ call[t].op = "up"
    <3>1. t = d /\ pc[t] = "down_empty"
      BY <2>1, <2>3, LineCalls
    <3>2. /\ value'[full[d]] = value[full[d]] + 1 /\ value'[empty[d]] = value[empty[d]]
      BY <1>v, <1>2, <2>3
    <3>3. /\ Arrived(d) /\ ~Arrived(d)' /\ ~Promised(d) /\ ~Promised(d)'
          /\ Leaving(d)' = Leaving(d) /\ Gone(d)' = Gone(d)
      BY <1>0, <1>v, <1>2, <3>1 DEF Leaving, Gone, Arrived, Promised
    <3>4. QED
      BY <1>f, <1>v, <3>2, <3>3 DEF Cars, Free, One
  <2>4. CASE call[t].sem = empty[d] /\ call[t].op = "down"
    <3>1. t = d /\ pc[t] = "down_mutex"
      BY <2>1, <2>4, LineCalls
    <3>2. /\ value'[full[d]] = value[full[d]] /\ value'[empty[d]] = value[empty[d]] - 1
      BY <1>v, <1>2, <2>4
    <3>3. /\ ~Promised(d) /\ Promised(d)' /\ ~Arrived(d) /\ ~Arrived(d)'
          /\ Leaving(d)' = Leaving(d) /\ Gone(d)' = Gone(d)
      BY <1>0, <1>v, <1>2, <3>1 DEF Leaving, Gone, Arrived, Promised
    <3>4. QED
      BY <1>f, <1>v, <3>2, <3>3 DEF Cars, Free, One
  <2>5. CASE call[t].sem = empty[d] /\ call[t].op = "up"
    <3>1. t = "flag" /\ pc[t] = "limit" /\ d = serving
      BY <2>1, <2>5, LineCalls
    <3>2. /\ value'[full[d]] = value[full[d]] /\ value'[empty[d]] = value[empty[d]] + 1
      BY <1>v, <1>2, <2>5
    <3>3. /\ Gone(d) /\ ~Gone(d)' /\ ~Leaving(d) /\ ~Leaving(d)'
          /\ Arrived(d)' = Arrived(d) /\ Promised(d)' = Promised(d)
      BY <1>0, <1>v, <1>2, <3>1 DEF Leaving, Gone, Arrived, Promised
    <3>4. QED
      BY <1>f, <1>v, <3>2, <3>3 DEF Cars, Free, One
  <2>6. CASE call[t].sem \notin {full[d], empty[d]}
    <3>1. value'[full[d]] = value[full[d]] /\ value'[empty[d]] = value[empty[d]]
      BY <1>v, <1>2, <2>6
    <3>2. t = d => pc[d] \in {"arrive", "up_full"}
      <4>1. t = d => ProducerCalls(d)
        BY DEF Base
      <4>2. QED
        BY <2>1, <2>6, <4>1 DEF ProducerCalls
    <3>3. t = "flag" /\ serving = d => pc["flag"] \in {"enter", "up_empty"}
      <4>1. FlagCalls
        BY DEF Base
      <4>2. QED
        BY <2>1, <2>6, <4>1 DEF FlagCalls
    <3>4. Arrived(d)' = Arrived(d) /\ Promised(d)' = Promised(d)
      BY <1>0, <1>v, <1>2, <3>2 DEF Arrived, Promised
    <3>5. Leaving(d)' = Leaving(d) /\ Gone(d)' = Gone(d)
      BY <1>0, <1>v, <1>2, <3>3 DEF Leaving, Gone
    <3>6. QED
      BY <1>f, <3>1, <3>4, <3>5 DEF Cars, Free
  <2>7. QED
    <3>1. call[t].op \in {"down", "up"}
      BY DEF Base, IInv, TypeOK
    <3>2. QED
      BY <3>1, <2>2, <2>3, <2>4, <2>5, <2>6
<1>3. QED
  BY <1>0, <1>1, <1>2, KernelSummary
-----------------------------------------------------------------------------
(***************************************************************************)
(* Remainders: the numbers of the cars start again at MaxCar, and a number *)
(* selects a slot by its remainder.                                        *)
(***************************************************************************)

\* Quotient and remainder make up the number.
LEMMA DivMod ==
  ASSUME NEW m \in Nat \ {0}, NEW x \in Int, NEW q \in Int, q = x \div m,
         NEW r \in Int, r = x % m
  PROVE  x = m * q + r
OBVIOUS

\* A number has a quotient for its remainder.
LEMMA Quotient ==
  ASSUME NEW m \in Nat \ {0}, NEW x \in Int, NEW r, r = x % m
  PROVE  r \in 0..m-1 /\ \E q \in Int : x = m * q + r
<1>0. r \in 0..m-1
  OBVIOUS
<1>1. PICK q \in Int : q = x \div m
  OBVIOUS
<1>2. x = m * q + r
  BY <1>0, <1>1, DivMod
<1>3. QED
  BY <1>0, <1>2

\* No other remainder has one.
LEMMA Remainder ==
  ASSUME NEW m \in Nat \ {0}, NEW q \in Int, NEW r \in 0..m-1, NEW x \in Int, x = m * q + r
  PROVE  x % m = r
OBVIOUS

\* Going once around changes no remainder.
LEMMA Wrap ==
  ASSUME NEW m \in Nat \ {0}, NEW x \in Int
  PROVE  (x + m) % m = x % m /\ (x - m) % m = x % m
<1>0. PICK r : r = x % m
  OBVIOUS
<1>1. PICK q \in Int : r \in 0..m-1 /\ x = m * q + r
  BY <1>0, Quotient
<1>2. x + m = m * (q + 1) + r /\ x - m = m * (q - 1) + r
  BY <1>1
<1>3. q + 1 \in Int /\ q - 1 \in Int /\ x + m \in Int /\ x - m \in Int
  OBVIOUS
<1>4. (x + m) % m = r /\ (x - m) % m = r
  BY <1>1, <1>2, <1>3, Remainder
<1>5. QED
  BY <1>0, <1>4

\* The next number, as the programs count.
LEMMA NextUp ==
  ASSUME NEW m \in Nat \ {0}, NEW x \in 0..m-1
  PROVE  /\ (x + 1) % m \in 0..m-1
         /\ (x + 1) % m = x + 1 \/ (x + 1) % m = x + 1 - m
OBVIOUS

\* Congruent numbers have the same remainder, and conversely.
LEMMA SameMod ==
  ASSUME NEW m \in Nat \ {0}, NEW p \in 0..m-1, NEW y \in Int, (p - y) % m = 0
  PROVE  y % m = p
<1>0. PICK z \in Int : z = p - y /\ 0 = z % m
  OBVIOUS
<1>1. PICK q \in Int : z = m * q + 0
  BY <1>0, Quotient
<1>2. y = m * (0 - q) + p
  BY <1>0, <1>1
<1>3. QED
  BY <1>2, Remainder

\* Numbers with the same remainder are a multiple of m apart.
LEMMA SameRemainder ==
  ASSUME NEW m \in Nat \ {0}, NEW x \in Int, NEW y \in Int, x % m = y % m
  PROVE  \E k \in Int : y - x = m * k
<1>1. PICK r : r = x % m /\ r = y % m
  OBVIOUS
<1>2. PICK a \in Int : r \in 0..m-1 /\ x = m * a + r
  BY <1>1, Quotient
<1>3. PICK b \in Int : y = m * b + r
  BY <1>1, Quotient
<1>4. y - x = m * (b - a)
  BY <1>2, <1>3
<1>5. QED
  BY <1>4

\* So is a number with remainder 0 from 0.
LEMMA Multiple ==
  ASSUME NEW m \in Nat \ {0}, NEW x \in Int, x % m = 0
  PROVE  \E k \in Int : x = m * k
<1>1. PICK z \in Int : z = 0 /\ z % m = x % m
  OBVIOUS
<1>2. PICK k \in Int : x - z = m * k
  BY <1>1, SameRemainder
<1>3. QED
  BY <1>1, <1>2

\* Numbers less than m apart have different remainders.
LEMMA SlotsDiffer ==
  ASSUME NEW m \in Nat \ {0}, NEW x \in Int, NEW g \in 1..m-1
  PROVE  x % m # (x + g) % m
<1> SUFFICES ASSUME x % m = (x + g) % m PROVE FALSE
  OBVIOUS
<1>0. PICK y \in Int : y = x + g /\ x % m = y % m
  OBVIOUS
<1>1. PICK k \in Int : y - x = m * k
  BY <1>0, SameRemainder
<1>2. m * k = g
  BY <1>0, <1>1
<1>3. k >= 1
  BY <1>2
<1>4. m * k >= m
  BY <1>3
<1>5. QED
  BY <1>2, <1>4

\* A multiple of m is a multiple of each divisor b of m.
LEMMA Nested ==
  ASSUME NEW b \in Nat \ {0}, NEW m \in Nat \ {0}, NEW k \in Int, m = b * k,
         NEW q \in Int, NEW a \in Int, NEW s \in 0..b-1,
         NEW r \in Int, r = b * a + s, NEW x \in Int, x = m * q + r
  PROVE  \E j \in Int : x = b * j + s
<1>1. PICK j \in Int : j = k * q + a
  OBVIOUS
<1>2. m * q = b * (k * q)
  OBVIOUS
<1>3. b * j = b * (k * q) + b * a
  BY <1>1
<1>4. x = b * j + s
  BY <1>2, <1>3
<1>5. QED
  BY <1>4

\* Going back from n to f, and forward again.
LEMMA Forward ==
  ASSUME NEW m \in Nat \ {0}, NEW n \in 0..m-1, NEW f \in Int,
         NEW x \in Int, x = n - f
  PROVE  \E i \in 0..m-1 : i = x % m /\ (f + i) % m = n
<1>0. PICK i : i = x % m
  OBVIOUS
<1>1. PICK q \in Int : i \in 0..m-1 /\ x = m * q + i
  BY <1>0, Quotient
<1>2. PICK y \in Int, j \in Int : y = f + i /\ j = 0 - q
  BY <1>1
<1>3. y = m * j + n
  <2>1. PICK w \in Int : w = m * q /\ m * j = 0 - w
    BY <1>2
  <2>2. x = w + i /\ i \in Int
    BY <1>1, <2>1
  <2>3. y = 0 - w + n
    BY <1>2, <2>2
  <2>4. QED
    BY <2>1, <2>3
<1>4. y % m = n
  BY <1>3, Remainder
<1>5. QED
  BY <1>0, <1>1, <1>2, <1>4

\* The slot of a car does not change when the numbers start again.
LEMMA ModMod ==
  ASSUME NEW b \in Nat \ {0}, NEW m \in Nat \ {0}, NEW x \in Int
  PROVE  m % b = 0 => (x % m) % b = x % b
<1>1. PICK r : r = x % m
  OBVIOUS
<1>2. PICK q \in Int : r \in 0..m-1 /\ x = m * q + r
  BY <1>1, Quotient
<1>3. PICK s : s = r % b
  OBVIOUS
<1>4. r \in Int /\ m \in Int
  BY <1>2
<1>a. \A y \in Int : \A z : z = y % b => z \in 0..b-1 /\ \E a \in Int : y = b * a + z
  BY Quotient
<1>5. PICK a \in Int : s \in 0..b-1 /\ r = b * a + s
  BY <1>a, <1>3, <1>4
<1>6. m % b = 0 => \E k \in Int : m = b * k
  BY <1>4, Multiple
<1>7. ASSUME NEW k \in Int, m = b * k PROVE \E j \in Int : x = b * j + s
  BY <1>2, <1>4, <1>5, <1>7, Nested
<1>8. ASSUME NEW j \in Int, x = b * j + s PROVE x % b = s
  BY <1>5, <1>8, Remainder
<1>9. QED
  BY <1>1, <1>3, <1>6, <1>7, <1>8

-----------------------------------------------------------------------------
\* A line that does not change stays as it should be.
LEMMA LineSame ==
  ASSUME NEW d \in Side, LineOK(d),
         Cars(d)' = Cars(d), Free(d)' = Free(d), First(d)' = First(d),
         prod'[d] = prod[d], buf'[d] = buf[d], signals' = 0 => signals = 0
  PROVE  LineOK(d)'
BY DEF LineOK, SlotLedger, CarLedger, Kept

\* Making a call changes no count, but for the flagperson's call of up(mutex):
\* there the car leaves the zone.
LEMMA CallLines ==
  ASSUME Base, SomeCall, NEW d \in Side
  PROVE  \/ Cars(d)' = Cars(d) /\ Free(d)' = Free(d) /\ First(d)' = First(d)
         \/ /\ serving = d /\ pc["flag"] = "up_mutex"
            /\ Cars(d)' = Cars(d) - 1 /\ Free(d)' = Free(d) + 1
            /\ First(d) = car /\ First(d)' = con[d]
<1>t. /\ "flag" \in Task /\ Side \subseteq Task /\ "flag" \notin Side
      /\ pc \in [Task -> ProducerPC \cup FlagPC] /\ serving \in Side
      /\ "mutex" \in Sem /\ \A e \in Side : empty[e] \in Sem /\ full[e] \in Sem
      /\ value[full[d]] \in Int /\ value[empty[d]] \in Int
      /\ at \in [Task -> Place]
  BY Names, CountTypes DEF Base, IInv, TypeOK
<1>1. ASSUME NEW e \in Side, NEW from, NEW op \in {"down", "up"}, NEW s \in Sem, NEW to,
             Call(e, from, op, s, to),
             <<from, to>> \in {<<"down_empty", "down_mutex">>, <<"down_mutex", "arrive">>,
                               <<"up_mutex", "up_full">>, <<"up_full", "down_empty">>}
      PROVE  Cars(d)' = Cars(d) /\ Free(d)' = Free(d) /\ First(d)' = First(d)
  <2>1. /\ pc[e] = from /\ pc' = [pc EXCEPT ![e] = to]
        /\ e \notin Pending /\ Pending' = Pending \cup {e}
        /\ value' = value /\ serving' = serving /\ car' = car /\ con' = con
    BY <1>1, <1>t DEF Call, Syscall, Pending, flagVars, lineVars
  <2>2. Leaving(d)' = Leaving(d) /\ Gone(d)' = Gone(d) /\ First(d)' = First(d)
    BY <1>t, <2>1 DEF Leaving, Gone, First
  <2>3. Promised(d)' = Promised(d) /\ Arrived(d)' = Arrived(d)
    <3>1. CASE e = d
      BY <1>1, <1>t, <2>1, <3>1 DEF Promised, Arrived
    <3>2. CASE e # d
      BY <1>t, <2>1, <3>2 DEF Promised, Arrived
    <3>3. QED
      BY <3>1, <3>2
  <2>4. QED
    BY <2>1, <2>2, <2>3 DEF Cars, Free
<1>2. ASSUME NEW from, NEW op \in {"down", "up"}, NEW s \in Sem, NEW to,
             Call("flag", from, op, s, to)
      PROVE  /\ pc["flag"] = from /\ pc'["flag"] = to
             /\ "flag" \notin Pending /\ "flag" \in Pending'
             /\ value' = value /\ serving' = serving /\ car' = car /\ con' = con
             /\ Promised(d)' = Promised(d) /\ Arrived(d)' = Arrived(d)
  <2>1. /\ pc["flag"] = from /\ pc' = [pc EXCEPT !["flag"] = to]
        /\ "flag" \notin Pending /\ Pending' = Pending \cup {"flag"}
        /\ value' = value /\ serving' = serving /\ car' = car /\ con' = con
    BY <1>2, <1>t DEF Call, Syscall, Pending, flagVars, lineVars
  <2>2. Promised(d)' = Promised(d) /\ Arrived(d)' = Arrived(d)
    BY <1>t, <2>1 DEF Promised, Arrived
  <2>3. QED
    BY <1>t, <2>1, <2>2
<1>3. ASSUME NEW from, NEW op \in {"down", "up"}, NEW s \in Sem, NEW to,
             Call("flag", from, op, s, to),
             <<from, to>> \in {<<"down_full", "down_mutex">>, <<"down_mutex", "enter">>,
                               <<"up_empty", "limit">>}
      PROVE  Cars(d)' = Cars(d) /\ Free(d)' = Free(d) /\ First(d)' = First(d)
  <2>1. /\ pc["flag"] = from /\ pc'["flag"] = to
        /\ "flag" \notin Pending /\ "flag" \in Pending'
        /\ value' = value /\ serving' = serving /\ car' = car /\ con' = con
        /\ Promised(d)' = Promised(d) /\ Arrived(d)' = Arrived(d)
    BY <1>2, <1>3
  <2>2. Leaving(d)' = Leaving(d) /\ Gone(d)' = Gone(d) /\ First(d)' = First(d)
    BY <1>3, <2>1 DEF Leaving, Gone, First
  <2>3. QED
    BY <2>1, <2>2 DEF Cars, Free
<1>4. ASSUME Call("flag", "up_mutex", "up", "mutex", "up_empty"), serving = d
      PROVE  /\ pc["flag"] = "up_mutex"
             /\ Cars(d)' = Cars(d) - 1 /\ Free(d)' = Free(d) + 1
             /\ First(d) = car /\ First(d)' = con[d]
  <2>1. /\ pc["flag"] = "up_mutex" /\ pc'["flag"] = "up_empty"
        /\ value' = value /\ serving' = serving /\ car' = car /\ con' = con
        /\ Promised(d)' = Promised(d) /\ Arrived(d)' = Arrived(d)
    BY <1>2, <1>4, <1>t
  <2>2. Leaving(d) /\ ~Leaving(d)' /\ ~Gone(d) /\ Gone(d)'
    BY <1>4, <2>1 DEF Leaving, Gone
  <2>3. First(d) = car /\ First(d)' = con[d]
    BY <1>4, <2>1 DEF First
  <2>4. QED
    BY <1>t, <2>1, <2>2, <2>3 DEF Cars, Free, One
<1>5. ASSUME Call("flag", "up_mutex", "up", "mutex", "up_empty"), serving # d
      PROVE  Cars(d)' = Cars(d) /\ Free(d)' = Free(d) /\ First(d)' = First(d)
  <2>1. /\ value' = value /\ serving' = serving /\ car' = car /\ con' = con
        /\ Promised(d)' = Promised(d) /\ Arrived(d)' = Arrived(d)
    BY <1>2, <1>5, <1>t
  <2>2. Leaving(d)' = Leaving(d) /\ Gone(d)' = Gone(d) /\ First(d)' = First(d)
    BY <1>5, <2>1 DEF Leaving, Gone, First
  <2>3. QED
    BY <2>1, <2>2 DEF Cars, Free
<1>6. QED
  BY <1>t, <1>1, <1>3, <1>4, <1>5 DEF SomeCall

\* Counting a car by its number: a step of the counter and a step of the count
\* cancel, also where the numbers start again.
LEMMA CountOn ==
  ASSUME NEW m \in Nat \ {0}, NEW a \in 0..m-1, NEW x \in Int
  PROVE  /\ (((a + 1) % m) + x) % m = (a + 1 + x) % m
         /\ (x - ((a + 1) % m)) % m = (x - a - 1) % m
<1>0. /\ (a + 1) % m \in 0..m-1
      /\ (a + 1) % m = a + 1 \/ (a + 1) % m = a + 1 - m
  BY NextUp
<1>1. PICK n \in Int : n = (a + 1) % m /\ (n = a + 1 \/ n = a + 1 - m)
  BY <1>0
<1>2. PICK y \in Int, z \in Int : y = a + 1 + x /\ z = x - a - 1
  OBVIOUS
<1>3. /\ (y + m) % m = y % m /\ (y - m) % m = y % m
      /\ (z + m) % m = z % m /\ (z - m) % m = z % m
  BY Wrap
<1>4. (n + x = y \/ n + x = y - m) /\ (x - n = z \/ x - n = z + m)
  BY <1>1, <1>2
<1>5. (n + x) % m = y % m /\ (x - n) % m = z % m
  BY <1>3, <1>4
<1>6. QED
  BY <1>1, <1>2, <1>5

\* The car in the zone leaves, and the next one is the first.
LEMMA LeaveLine ==
  ASSUME Base, LineInv, NEW d \in Side, serving = d, pc["flag"] = "up_mutex",
         Cars(d)' = Cars(d) - 1, Free(d)' = Free(d) + 1,
         First(d) = car, First(d)' = con[d], UNCHANGED <<prod, buf, signals>>
  PROVE  LineOK(d)'
<1>i. Cars(d) \in Int /\ Free(d) \in Int /\ prod[d] \in Int /\ car \in Int
  BY CountTypes, TrafficSimAssumption DEF LineInv
<1>1. /\ Cars(d) \in Int /\ Free(d) \in Int /\ prod[d] \in Int
      /\ MaxCar \in Nat \ {0} /\ car \in 0..MaxCar-1
      /\ con[d] = (car + 1) % MaxCar
      /\ SlotLedger(d) /\ CarLedger(d) /\ (signals = 0 => Kept(d))
      /\ BUFF_SIZE \in Nat
  BY CountTypes, TrafficSimAssumption DEF LineInv, LineOK
<1>2. SlotLedger(d)'
  BY <1>1 DEF SlotLedger
<1>3. CarLedger(d)'
  <2>1. PICK x \in Int : x = prod[d] - Cars(d) + 1
    BY <1>1
  <2>2. (x - ((car + 1) % MaxCar)) % MaxCar = (x - car - 1) % MaxCar
    BY <1>1, CountOn
  <2>3. PICK n \in Int : n = con[d] /\ (x - n) % MaxCar = (x - car - 1) % MaxCar
    BY <1>1, <2>2, NextUp
  <2>4. /\ x - n = prod[d] - n - (Cars(d) - 1)
        /\ x - car - 1 = prod[d] - car - Cars(d)
    <3>1. PICK p \in Int, c \in Int : p = prod[d] /\ c = Cars(d) /\ x = p - c + 1
      BY <1>i, <2>1
    <3>2. x - n = p - n - (c - 1) /\ x - car - 1 = p - car - c
      BY <1>i, <3>1
    <3>3. QED
      BY <3>1, <3>2
  <2>5. (prod[d] - car - Cars(d)) % MaxCar = 0
    BY <1>1 DEF CarLedger
  <2>6. (prod[d] - n - (Cars(d) - 1)) % MaxCar = 0
    BY <2>3, <2>4, <2>5
  <2>7. QED
    BY <2>3, <2>6 DEF CarLedger
<1>4. ASSUME signals' = 0 PROVE Kept(d)'
  <2>1. Kept(d)
    BY <1>1, <1>4
  <2>2. ASSUME NEW i \in 0..(Cars(d) - 1) - 1
        PROVE  LET n == (con[d] + i) % MaxCar IN buf[d][n % BUFF_SIZE] = n
    <3>1. i \in Int /\ i + 1 \in 0..Cars(d) - 1
      BY <1>1
    <3>2. (con[d] + i) % MaxCar = (car + 1 + i) % MaxCar
      BY <1>1, <3>1, CountOn
    <3>3. car + 1 + i = car + (i + 1)
      BY <1>1, <3>1
    <3>4. (con[d] + i) % MaxCar = (First(d) + (i + 1)) % MaxCar
      BY <3>2, <3>3
    <3>5. QED
      BY <2>1, <3>1, <3>4 DEF Kept
  <2>3. QED
    BY <2>2 DEF Kept
<1>5. QED
  BY <1>2, <1>3, <1>4 DEF LineOK

\* A car joins the line: there is a slot for it, and none is overwritten.
LEMMA JoinLine ==
  ASSUME Base, LineInv, NEW d \in Side, at[d] = "user", Promised(d),
         Cars(d)' = Cars(d) + 1, Free(d)' = Free(d) - 1, First(d)' = First(d),
         First(d) \in 0..MaxCar-1,
         UNCHANGED signals,
         prod'[d] = (prod[d] + 1) % MaxCar,
         buf'[d] = [buf[d] EXCEPT ![prod[d] % BUFF_SIZE] = prod[d]]
  PROVE  LineOK(d)'
<1>c. MaxCar \in Nat \ {0} /\ BUFF_SIZE \in Nat \ {0}
  BY TrafficSimAssumption
<1>i. /\ Cars(d) \in Int /\ Free(d) \in Int /\ value[empty[d]] \in Int
      /\ prod[d] \in Int /\ First(d) \in Int
  BY <1>c, CountTypes DEF LineInv
<1>1. /\ prod[d] \in 0..MaxCar-1 /\ buf[d] \in [0..BUFF_SIZE-1 -> 0..MaxCar-1]
      /\ SlotLedger(d) /\ CarLedger(d) /\ (signals = 0 => Kept(d))
  BY DEF LineInv, LineOK
<1>2. SlotLedger(d)'
  BY <1>c, <1>i, <1>1 DEF SlotLedger
<1>3. CarLedger(d)'
  <2>1. PICK x \in Int : x = 0 - First(d) - (Cars(d) + 1)
    BY <1>i
  <2>2. (((prod[d] + 1) % MaxCar) + x) % MaxCar = (prod[d] + 1 + x) % MaxCar
    BY <1>c, <1>1, CountOn
  <2>n. (prod[d] + 1) % MaxCar \in 0..MaxCar-1
    BY <1>c, <1>1, NextUp
  <2>3. PICK n \in Int : n = prod'[d] /\ (n + x) % MaxCar = (prod[d] + 1 + x) % MaxCar
    BY <1>c, <2>2, <2>n
  <2>4. n + x = n - First(d) - (Cars(d) + 1) /\ prod[d] + 1 + x = prod[d] - First(d) - Cars(d)
    BY <1>i, <2>1
  <2>5. (prod[d] - First(d) - Cars(d)) % MaxCar = 0
    BY <1>1 DEF CarLedger
  <2>6. (n - First(d) - (Cars(d) + 1)) % MaxCar = 0
    BY <2>3, <2>4, <2>5
  <2>7. QED
    BY <2>3, <2>6 DEF CarLedger
<1>4. ASSUME signals' = 0 PROVE Kept(d)'
  <2>1. Kept(d) /\ signals = 0
    BY <1>1, <1>4
  \* A slot is free, because the producer is not asleep in down(empty).
  <2>2. Cars(d) <= BUFF_SIZE - 1
    <3>1. \A t \in Task : at[t] # "user" /\ call[t].op = "down" => call[t].sem # empty[d]
      BY LineCalls
    <3>2. value[empty[d]] >= 0
      BY <1>i, <2>1, <3>1, NobodyAsleep, Names DEF Base
    <3>3. Free(d) >= 1
      BY <1>i, <3>2 DEF Free, One
    <3>4. QED
      BY <1>c, <1>i, <1>1, <3>3 DEF SlotLedger
  \* The new car's number is the one after those in line.
  <2>3. (First(d) + Cars(d)) % MaxCar = prod[d]
    <3>1. PICK y \in Int : y = First(d) + Cars(d)
      BY <1>i
    <3>2. prod[d] - y = prod[d] - First(d) - Cars(d)
      BY <1>i, <3>1
    <3>3. (prod[d] - y) % MaxCar = 0
      BY <1>1, <3>2 DEF CarLedger
    <3>4. QED
      BY <1>c, <1>1, <3>1, <3>3, SameMod
  <2>4. ASSUME NEW i \in 0..(Cars(d) + 1) - 1
        PROVE  LET n == (First(d) + i) % MaxCar IN buf'[d][n % BUFF_SIZE] = n
    <3>1. prod[d] % BUFF_SIZE \in 0..BUFF_SIZE-1
      BY <1>c, <1>i
    <3>2. CASE i = Cars(d)
      BY <1>i, <1>1, <2>3, <3>1, <3>2
    <3>3. CASE i \in 0..Cars(d) - 1
      <4>1. PICK x \in Int, y \in Int, g \in Int :
              x = First(d) + i /\ y = First(d) + Cars(d) /\ g = Cars(d) - i
        BY <1>i, <3>3
      <4>2. g \in 1..BUFF_SIZE-1 /\ y = x + g
        BY <1>c, <1>i, <2>2, <3>3, <4>1
      <4>3. x % BUFF_SIZE # y % BUFF_SIZE
        BY <1>c, <4>2, SlotsDiffer
      <4>4. /\ (x % MaxCar) % BUFF_SIZE = x % BUFF_SIZE
            /\ (y % MaxCar) % BUFF_SIZE = y % BUFF_SIZE
        BY <1>c, <4>1, ModMod, TrafficSimAssumption DEF SlotsInTurn
      <4>5. (x % MaxCar) % BUFF_SIZE # prod[d] % BUFF_SIZE
        BY <2>3, <4>1, <4>3, <4>4
      <4>6. buf[d][(x % MaxCar) % BUFF_SIZE] = x % MaxCar
        BY <2>1, <3>3, <4>1 DEF Kept
      <4>7. (x % MaxCar) % BUFF_SIZE \in 0..BUFF_SIZE-1
        BY <1>c, <4>1, <4>4
      <4>8. buf'[d][(x % MaxCar) % BUFF_SIZE] = x % MaxCar
        BY <1>1, <4>5, <4>6, <4>7
      <4>9. QED
        BY <4>1, <4>8
    <3>4. QED
      BY <1>i, <3>2, <3>3
  <2>5. QED
    BY <2>4 DEF Kept
<1>5. QED
  BY <1>2, <1>3, <1>4 DEF LineOK

\* What a call leaves alone.
LEMMA CallFrame ==
  ASSUME Base, SomeCall
  PROVE  /\ UNCHANGED <<prod, con, buf, serving, car, signals>>
         /\ pc'["flag"] = "up_mutex" => pc["flag"] = "up_mutex"
<1>t. "flag" \in Task /\ "flag" \notin Side /\ pc \in [Task -> ProducerPC \cup FlagPC]
  BY Names DEF Base
<1>1. ASSUME NEW t \in Task, NEW from, NEW op, NEW s, NEW to, Call(t, from, op, s, to),
             t = "flag" => to # "up_mutex"
      PROVE  /\ UNCHANGED <<prod, con, buf, serving, car, signals>>
             /\ pc'["flag"] = "up_mutex" => pc["flag"] = "up_mutex"
  BY <1>1, <1>t DEF Call, Syscall, lineVars, flagVars
<1>2. QED
  BY <1>1, <1>t, Names DEF SomeCall

\* No step disturbs the lines.
LEMMA LineStep ==
  ASSUME Base, LineInv, [TrafficNext]_vars
  PROVE  LineInv'
<1>t. /\ "flag" \in Task /\ Side \subseteq Task /\ "flag" \notin Side
      /\ pc \in [Task -> ProducerPC \cup FlagPC] /\ serving \in Side
      /\ MaxCar \in Nat \ {0} /\ BUFF_SIZE \in Nat \ {0}
      /\ \A d \in Side : value[full[d]] \in Int /\ value[empty[d]] \in Int
  BY Names, CountTypes, TrafficSimAssumption DEF Base
<1>l. /\ \A d \in Side : LineOK(d) /\ First(d) \in 0..MaxCar-1
      /\ prod \in [Side -> 0..MaxCar-1] /\ con \in [Side -> 0..MaxCar-1]
      /\ car \in 0..MaxCar-1 /\ buf \in [Side -> [0..BUFF_SIZE-1 -> 0..MaxCar-1]]
      /\ pc["flag"] = "up_mutex" => con[serving] = (car + 1) % MaxCar
  BY DEF LineInv, First
<1>1. CASE SomeCall
  <2>1. /\ UNCHANGED <<prod, con, buf, serving, car, signals>>
        /\ pc'["flag"] = "up_mutex" => pc["flag"] = "up_mutex"
    BY <1>1, CallFrame
  <2>2. ASSUME NEW d \in Side PROVE LineOK(d)'
    <3>1. CASE Cars(d)' = Cars(d) /\ Free(d)' = Free(d) /\ First(d)' = First(d)
      BY <1>l, <2>1, <3>1, LineSame
    <3>2. CASE /\ serving = d /\ pc["flag"] = "up_mutex"
               /\ Cars(d)' = Cars(d) - 1 /\ Free(d)' = Free(d) + 1
               /\ First(d) = car /\ First(d)' = con[d]
      BY <2>1, <3>2, LeaveLine
    <3>3. QED
      BY <1>1, <3>1, <3>2, CallLines
  <2>3. QED
    BY <1>l, <2>1, <2>2 DEF LineInv
<1>2. ASSUME NEW d \in Side, Arrive(d) PROVE LineInv'
  <2>1. /\ pc[d] = "arrive" /\ pc' = [pc EXCEPT ![d] = "up_mutex"] /\ at[d] = "user"
        /\ d \notin Pending /\ Pending' = Pending
        /\ UNCHANGED <<value, signals, con, serving, car>>
        /\ buf' = [buf EXCEPT ![d][prod[d] % BUFF_SIZE] = prod[d]]
        /\ prod' = [prod EXCEPT ![d] = (@ + 1) % MaxCar]
    BY <1>2, <1>t, LocalKind DEF Arrive, kernelVars, flagVars
  <2>2. /\ pc'["flag"] = pc["flag"] /\ pc'[d] = "up_mutex"
        /\ \A e \in Side : e # d => pc'[e] = pc[e]
    BY <1>t, <2>1
  <2>3. /\ prod'[d] = (prod[d] + 1) % MaxCar
        /\ \A e \in Side : e # d => prod'[e] = prod[e] /\ buf'[e] = buf[e]
        /\ buf'[d] = [buf[d] EXCEPT ![prod[d] % BUFF_SIZE] = prod[d]]
    BY <1>l, <2>1
  <2>4. \A e \in Side : /\ Leaving(e)' = Leaving(e) /\ Gone(e)' = Gone(e)
                        /\ First(e)' = First(e)
    BY <2>1, <2>2 DEF Leaving, Gone, First
  <2>5. LineOK(d)'
    <3>1. Promised(d) /\ ~Promised(d)' /\ ~Arrived(d) /\ Arrived(d)'
      BY <2>1, <2>2 DEF Promised, Arrived
    <3>2. Cars(d)' = Cars(d) + 1 /\ Free(d)' = Free(d) - 1
      BY <1>t, <2>1, <2>4, <3>1 DEF Cars, Free, One
    <3>3. QED
      BY <1>l, <2>1, <2>3, <2>4, <3>1, <3>2, JoinLine
  <2>6. ASSUME NEW e \in Side, e # d PROVE LineOK(e)'
    <3>1. Promised(e)' = Promised(e) /\ Arrived(e)' = Arrived(e)
      BY <2>1, <2>2, <2>6 DEF Promised, Arrived
    <3>2. Cars(e)' = Cars(e) /\ Free(e)' = Free(e)
      BY <2>1, <2>4, <3>1 DEF Cars, Free
    <3>3. QED
      BY <1>l, <2>1, <2>3, <2>4, <2>6, <3>2, LineSame
  <2>p. prod[d] \in 0..MaxCar-1 /\ prod[d] \in Int
    BY <1>t, <1>l
  <2>7. (prod[d] + 1) % MaxCar \in 0..MaxCar-1 /\ prod[d] % BUFF_SIZE \in 0..BUFF_SIZE-1
    BY <1>t, <2>p
  <2>8. /\ prod' \in [Side -> 0..MaxCar-1]
        /\ buf' \in [Side -> [0..BUFF_SIZE-1 -> 0..MaxCar-1]]
    BY <1>l, <2>1, <2>p, <2>7
  <2>9. QED
    BY <1>l, <2>1, <2>2, <2>5, <2>6, <2>8 DEF LineInv
<1>3. CASE Enter
  <2>1. /\ pc["flag"] = "enter" /\ pc' = [pc EXCEPT !["flag"] = "up_mutex"]
        /\ "flag" \notin Pending /\ Pending' = Pending
        /\ UNCHANGED <<value, signals, prod, buf, serving>>
        /\ car' = con[serving]
        /\ con' = [con EXCEPT ![serving] = (@ + 1) % MaxCar]
    BY <1>3, <1>t, LocalKind DEF Enter, kernelVars
  <2>2. pc'["flag"] = "up_mutex" /\ \A e \in Side : pc'[e] = pc[e]
    BY <1>t, <2>1
  <2>3. ASSUME NEW d \in Side PROVE LineOK(d)'
    <3>1. /\ Leaving(d)' = Leaving(d) /\ Gone(d)' = Gone(d)
          /\ Promised(d)' = Promised(d) /\ Arrived(d)' = Arrived(d)
      BY <2>1, <2>2 DEF Leaving, Gone, Promised, Arrived
    <3>2. Cars(d)' = Cars(d) /\ Free(d)' = Free(d)
      BY <2>1, <3>1 DEF Cars, Free
    <3>3. First(d)' = First(d)
      BY <1>l, <2>1, <2>2 DEF First
    <3>4. QED
      BY <1>l, <2>1, <3>2, <3>3, LineSame
  <2>4. (con[serving] + 1) % MaxCar \in 0..MaxCar-1
    BY <1>t, <1>l
  <2>5. /\ con' \in [Side -> 0..MaxCar-1] /\ car' \in 0..MaxCar-1
        /\ con'[serving'] = (car' + 1) % MaxCar
    BY <1>t, <1>l, <2>1, <2>4
  <2>6. QED
    BY <1>l, <2>1, <2>3, <2>5 DEF LineInv
<1>4. CASE CheckLimit \/ CheckLine \/ NapNorth \/ NapSouth
  <2>1. PICK to \in {"limit", "line", "down_full", "nap_north", "nap_south"} :
          pc' = [pc EXCEPT !["flag"] = to]
    BY <1>4, Looks
  <2>2. /\ "flag" \notin Pending /\ Pending' = Pending
        /\ UNCHANGED <<value, signals, prod, con, buf, car>>
        /\ pc["flag"] \in {"limit", "line", "nap_north", "nap_south"}
    BY <1>4, Looks DEF kernelVars
  <2>3. pc'["flag"] = to /\ \A e \in Side : pc'[e] = pc[e]
    BY <1>t, <2>1
  <2>4. ASSUME NEW d \in Side PROVE LineOK(d)'
    <3>1. /\ ~Leaving(d)' /\ ~Leaving(d) /\ ~Gone(d)' /\ ~Gone(d)
          /\ Promised(d)' = Promised(d) /\ Arrived(d)' = Arrived(d)
      BY <2>1, <2>2, <2>3 DEF Leaving, Gone, Promised, Arrived
    <3>2. Cars(d)' = Cars(d) /\ Free(d)' = Free(d)
      BY <2>2, <3>1 DEF Cars, Free, One
    <3>3. First(d)' = First(d)
      BY <2>1, <2>2, <2>3 DEF First
    <3>4. QED
      BY <1>l, <2>2, <3>2, <3>3, LineSame
  <2>5. QED
    BY <1>l, <2>1, <2>2, <2>3, <2>4 DEF LineInv
<1>5. CASE UNCHANGED vars
  <2>1. UNCHANGED <<value, at, signals, pc, prod, con, buf, serving, car>>
    BY <1>5 DEF vars, kernelVars, lineVars, flagVars
  <2>2. ASSUME NEW d \in Side PROVE LineOK(d)'
    <3>1. Cars(d)' = Cars(d) /\ Free(d)' = Free(d) /\ First(d)' = First(d)
      BY <2>1 DEF Cars, Free, First, Leaving, Gone, Promised, Arrived, Pending
    <3>2. QED
      BY <1>l, <2>1, <3>1, LineSame
  <2>3. QED
    BY <1>l, <2>1, <2>2 DEF LineInv
<1>6. ASSUME NEW t \in Task, InKernel(t) \/ Interrupted(t) PROVE LineInv'
  <2>1. UNCHANGED <<pc, prod, con, buf, serving, car>>
    BY <1>6 DEF InKernel, Interrupted, lineVars, flagVars
  <2>2. signals \in Nat /\ signals' \in Nat /\ signals' >= signals
    BY <1>6, SignalsGrow DEF InKernel, Interrupted, Base
  <2>3. ASSUME NEW d \in Side PROVE LineOK(d)'
    <3>1. Cars(d)' = Cars(d) /\ Free(d)' = Free(d) /\ First(d)' = First(d)
      BY <1>6, KernelLines
    <3>2. signals' = 0 => signals = 0
      BY <2>2
    <3>3. QED
      BY <1>l, <2>1, <3>1, <3>2, LineSame
  <2>4. QED
    BY <1>l, <2>1, <2>3 DEF LineInv
<1>7. QED
  BY <1>1, <1>2, <1>3, <1>4, <1>5, <1>6, Kinds DEF SomeLocal

\* The lines are in order when the programs start.
LEMMA LineInit == TrafficInit => LineInv
<1> SUFFICES ASSUME TrafficInit PROVE LineInv
  OBVIOUS
<1>c. MaxCar \in Nat \ {0} /\ BUFF_SIZE \in Nat \ {0}
  BY TrafficSimAssumption
<1>t. "flag" \in Task /\ Side \subseteq Task /\ "flag" \notin Side
  BY Names
<1>1. /\ pc["flag"] = "limit" /\ \A d \in Side : pc[d] = "down_empty"
      /\ Pending = {} /\ car = 0 /\ \A d \in Side : con[d] = 0 /\ prod[d] = 0
  BY <1>t DEF TrafficInit, KernelInit, Pending
<1>2. \A d \in Side : value[full[d]] = 0 /\ value[empty[d]] = BUFF_SIZE
  BY TrafficSimAssumption DEF TrafficInit, KernelInit, InitialValues, Semaphores, full,
     empty, Side
<1>3. ASSUME NEW d \in Side PROVE LineOK(d)
  <2>1. ~Leaving(d) /\ ~Gone(d) /\ ~Promised(d) /\ ~Arrived(d)
    BY <1>1 DEF Leaving, Gone, Promised, Arrived
  <2>2. Cars(d) = 0 /\ Free(d) = BUFF_SIZE /\ First(d) = 0
    BY <1>c, <1>1, <1>2, <2>1 DEF Cars, Free, First, One
  <2>3. prod[d] = 0 /\ 0 % MaxCar = 0
    BY <1>c, <1>1
  <2>4. QED
    BY <1>c, <2>2, <2>3 DEF LineOK, SlotLedger, CarLedger, Kept
<1>4. QED
  BY <1>c, <1>1, <1>3 DEF LineInv, TrafficInit

(***************************************************************************)
(* For any size of the lines and any number of cars: no producer of        *)
(* trafficsim.c overwrites the slot of a car that has not left, as long as *)
(* no signal has ended a sleep.                                            *)
(***************************************************************************)
THEOREM CarsAreKept == TrafficSpec => []LineIntact
<1>c. MaxCar \in Nat \ {0}
  BY TrafficSimAssumption
<1>f. ASSUME NEW n \in 0..MaxCar-1
      PROVE  \A f \in Int : \A x \in Int : x = n - f =>
               \E i \in 0..MaxCar-1 : i = x % MaxCar /\ (f + i) % MaxCar = n
  BY <1>c, Forward
<1>1. ASSUME Base, FlagAwake, LineInv PROVE LineIntact
  <2> SUFFICES ASSUME signals = 0, NEW d \in Side, NEW n \in 0..MaxCar-1, n \in InLine(d)
               PROVE  buf[d][n % BUFF_SIZE] = n
    BY DEF LineIntact, InLine
  <2>1. /\ First(d) \in 0..MaxCar-1 /\ prod[d] \in 0..MaxCar-1
        /\ CarLedger(d) /\ Kept(d)
    BY <1>1 DEF LineInv, LineOK, First
  <2>2. Cars(d) \in Int /\ Cars(d) >= 0
    <3>1. Cars(d) \in Int /\ value[full[d]] \in Int /\ value[full[d]] >= 0
      BY <1>1, CountTypes DEF FlagAwake
    <3>2. QED
      BY <3>1 DEF Cars, One
  <2>3. /\ n \in 0..MaxCar-1
        /\ (n - First(d)) % MaxCar < (prod[d] - First(d)) % MaxCar
    BY DEF InLine, First
  <2>i. PICK f \in Int, c \in Int, p \in Int : f = First(d) /\ c = Cars(d) /\ p = prod[d]
    BY <1>c, <2>1, <2>2
  <2>4. PICK x \in Int, y \in Int, z \in Int : x = n - f /\ y = p - f /\ z = p - f - c
    BY <2>3
  <2>5. z % MaxCar = 0 /\ x % MaxCar < y % MaxCar
    BY <2>1, <2>3, <2>i, <2>4 DEF CarLedger
  \* The car is the i-th in line.
  <2>6. PICK i \in 0..MaxCar-1 : i = x % MaxCar /\ (f + i) % MaxCar = n
    BY <2>4, <1>f
  <2>7. i \in 0..c - 1
    <3>1. PICK k \in Int : z = MaxCar * k
      BY <1>c, <2>5, Multiple
    <3>2. y = MaxCar * k + c
      BY <1>c, <2>4, <3>1
    <3>3. CASE c \in 0..MaxCar-1
      <4>1. y % MaxCar = c
        BY <1>c, <3>2, <3>3, Remainder
      <4>2. QED
        BY <2>5, <2>6, <4>1, <1>c
    <3>4. CASE c \notin 0..MaxCar-1
      BY <1>c, <2>2, <2>i, <3>4
    <3>5. QED
      BY <3>3, <3>4
  <2>8. QED
    BY <2>1, <2>i, <2>6, <2>7 DEF Kept
<1>2. Base /\ FlagAwake /\ LineInv /\ [TrafficNext]_vars => (Base /\ FlagAwake /\ LineInv)'
  BY BaseStep, AwakeStep, LineStep
<1>3. QED
  BY <1>1, <1>2, BaseInit, AwakeInit, LineInit, PTL DEF TrafficSpec
=============================================================================
