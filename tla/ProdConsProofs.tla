--------------------------- MODULE ProdConsProofs ---------------------------
(***************************************************************************)
(* Proofs about prodcons.c, on top of what SemaphoreProofs shows of the    *)
(* system calls and CarQueueProofs of the queues: for any size of the      *)
(* queues, any number of permits and any number of signals.                *)
(***************************************************************************)
EXTENDS ProdCons, SemaphoreProofs, CarQueueProofs

\* The semaphores of the two lines and the mutex are five different ones.
LEMMA Names ==
  /\ "mutex" \in Sem
  /\ \A d \in Side : /\ full[d] \in Sem \ {"mutex"} /\ empty[d] \in Sem \ {"mutex"}
                     /\ \A e \in Side : /\ full[d] # empty[e]
                                        /\ full[d] = full[e] => d = e
                                        /\ empty[d] = empty[e] => d = e
  /\ Task = Side \cup {"flag"} /\ "flag" \notin Side
BY ProdConsAssumption DEF Side, Process, Semaphores, full, empty

-----------------------------------------------------------------------------
\* The call a process is in follows from the statement it comes back to.
ProducerCalls(d) == at[d] # "user" =>
  \/ pc[d] = "down_mutex" /\ call[d] = [op |-> "down", sem |-> empty[d]]
  \/ pc[d] = "enqueue" /\ call[d] = [op |-> "down", sem |-> "mutex"]
  \/ pc[d] = "up_full" /\ call[d] = [op |-> "up", sem |-> "mutex"]
  \/ pc[d] = "down_empty" /\ call[d] = [op |-> "up", sem |-> full[d]]

FlagCalls == at["flag"] # "user" =>
  \/ pc["flag"] = "down_mutex" /\ call["flag"] = [op |-> "down", sem |-> full[serving]]
  \/ pc["flag"] = "dequeue" /\ call["flag"] = [op |-> "down", sem |-> "mutex"]
  \/ pc["flag"] = "up_empty" /\ call["flag"] = [op |-> "up", sem |-> "mutex"]
  \/ pc["flag"] = "north_size" /\ call["flag"] = [op |-> "up", sem |-> empty[serving]]

\* The processes that have counted themselves into the mutex and not out again.
HasMutex == {t \in Task : \/ pc[t] \in {"enqueue", "dequeue"} /\ t \notin Pending
                          \/ pc[t] = "up_mutex"
                          \/ pc[t] \in {"up_full", "up_empty"} /\ t \in Pending}

MutexLedger == value["mutex"] = 1 - Cardinality(HasMutex)

Base ==
  /\ IInv
  /\ pc \in [Task -> ProducerPC \cup FlagPC]
  /\ \A d \in Side : pc[d] \in ProducerPC
  /\ pc["flag"] \in FlagPC
  /\ serving \in Side
  /\ \A d \in Side : ProducerCalls(d)
  /\ FlagCalls

-----------------------------------------------------------------------------
\* A step of a process into the kernel: its call is pending now.
LEMMA CallKind ==
  ASSUME Base, NEW t \in Task, NEW from, NEW op \in {"down", "up"}, NEW s \in Sem, NEW to,
         Call(t, from, op, s, to)
  PROVE  /\ pc[t] = from /\ pc' = [pc EXCEPT ![t] = to]
         /\ at[t] = "user" /\ at' = [at EXCEPT ![t] = "mutex_lock"]
         /\ call' = [call EXCEPT ![t] = [op |-> op, sem |-> s]]
         /\ t \notin Pending /\ Pending' = Pending \cup {t}
         /\ UNCHANGED <<value, signals, carVars>>
         /\ AnyCall(t)
<1>1. at \in [Task -> Place]
  BY DEF Base, IInv, TypeOK
<1>2. /\ pc[t] = from /\ pc' = [pc EXCEPT ![t] = to]
      /\ at[t] = "user" /\ at' = [at EXCEPT ![t] = "mutex_lock"]
      /\ call' = [call EXCEPT ![t] = [op |-> op, sem |-> s]]
      /\ UNCHANGED <<value, process, sem_lock, state, signals, carVars>>
  BY DEF Call, Syscall
<1>3. t \notin Pending /\ Pending' = Pending \cup {t}
  BY <1>1, <1>2 DEF Pending
<1>4. AnyCall(t)
  BY <1>2 DEF AnyCall, Syscall
<1>5. QED
  BY <1>2, <1>3, <1>4

\* A step of a process in user mode: the kernel does not move.
LEMMA LocalKind ==
  ASSUME NEW t \in Task, NEW from, NEW to, Local(t, from, to)
  PROVE  /\ pc[t] = from /\ pc' = [pc EXCEPT ![t] = to]
         /\ at[t] = "user" /\ t \notin Pending
         /\ UNCHANGED kernelVars /\ Pending' = Pending
BY DEF Local, kernelVars, Pending

\* The calls of the programs, and their steps outside the kernel.
SomeCall ==
  \/ \E d \in Side : \/ Call(d, "down_empty", "down", empty[d], "down_mutex")
                     \/ Call(d, "down_mutex", "down", "mutex", "enqueue")
                     \/ Call(d, "up_mutex", "up", "mutex", "up_full")
                     \/ Call(d, "up_full", "up", full[d], "down_empty")
  \/ Call("flag", "down_full", "down", full[serving], "down_mutex")
  \/ Call("flag", "down_mutex", "down", "mutex", "dequeue")
  \/ Call("flag", "up_mutex", "up", "mutex", "up_empty")
  \/ Call("flag", "up_empty", "up", empty[serving], "north_size")

\* The flagperson reads the sizes.
Look ==
  \/ NapNorth \/ NapSouth
  \/ LoopTest("north_size", "north", "south_size")
  \/ LoopTest("south_size", "south", "down_full")

SomeLocal ==
  \/ \E d \in Side : Arrive(d)
  \/ Look \/ Leave

\* Every step is of one of these kinds, or of the kernel.
LEMMA Kinds ==
  ASSUME [ProdConsNext]_vars
  PROVE  \/ SomeCall \/ SomeLocal \/ UNCHANGED vars
         \/ \E t \in Task : InKernel(t) \/ Interrupted(t)
BY DEF ProdConsNext, Producer, Flagperson, SomeCall, SomeLocal, Look

\* The flagperson's steps outside the kernel, except Leave, change no queue.
LEMMA Looks ==
  ASSUME Look, Base
  PROVE  /\ at["flag"] = "user" /\ "flag" \notin Pending
         /\ UNCHANGED <<kernelVars, queue, total_car>> /\ Pending' = Pending
         /\ pc["flag"] \in {"nap_north", "nap_south", "north_size", "south_size"}
         /\ serving' \in Side
         /\ \E to \in {"nap_north", "nap_south", "north_size", "south_size", "down_full"} :
              pc' = [pc EXCEPT !["flag"] = to]
<1>0. "flag" \in Task /\ serving \in Side
  BY Names DEF Base
<1>1. CASE NapNorth \/ NapSouth
  <2>1. PICK from \in {"nap_north", "nap_south"}, to \in {"nap_south", "north_size"} :
          Local("flag", from, to)
    BY <1>1 DEF NapNorth, NapSouth
  <2>2. UNCHANGED <<queue, total_car, serving>>
    BY <1>1 DEF NapNorth, NapSouth, carVars
  <2>3. QED
    BY <1>0, <2>1, <2>2, LocalKind
<1>2. ASSUME NEW from \in {"north_size", "south_size"}, NEW d \in Side,
             NEW goal \in {"south_size", "down_full"}, LoopTest(from, d, goal)
      PROVE  /\ UNCHANGED <<queue, total_car>> /\ serving' \in Side
             /\ \E to \in {"nap_north", "nap_south", "north_size", "south_size", "down_full"} :
                  Local("flag", from, to)
  <2>1. UNCHANGED <<queue, total_car>> /\ serving' \in Side
    BY <1>0, <1>2 DEF LoopTest, Other, Side
  <2>2. QED
    BY <1>2, <2>1 DEF LoopTest
<1>3. CASE \/ LoopTest("north_size", "north", "south_size")
           \/ LoopTest("south_size", "south", "down_full")
  <2>1. PICK from \in {"north_size", "south_size"},
             to \in {"nap_north", "nap_south", "north_size", "south_size", "down_full"} :
          Local("flag", from, to) /\ UNCHANGED <<queue, total_car>> /\ serving' \in Side
    BY <1>2, <1>3 DEF Side
  <2>2. QED
    BY <1>0, <2>1, LocalKind
<1>4. QED
  BY <1>1, <1>3 DEF Look

\* The steps of the programs keep what the kernel promises.
LEMMA KernelInv ==
  ASSUME Base, [ProdConsNext]_vars
  PROVE  IInv'
<1>1. [OpenNext]_kernelVars
  <2>1. CASE SomeCall
    <3>0. serving \in Side /\ "flag" \in Task /\ Side \subseteq Task
      BY Names DEF Base
    <3>1. \E t \in Task : AnyCall(t)
      BY <2>1, <3>0, CallKind, Names DEF SomeCall
    <3>2. QED
      BY <3>1 DEF OpenNext
  <2>2. CASE SomeLocal
    <3>1. UNCHANGED kernelVars
      <4>1. ASSUME NEW d \in Side, Arrive(d) PROVE UNCHANGED kernelVars
        BY <4>1, LocalKind, Names DEF Arrive
      <4>2. CASE Leave
        BY <4>2, LocalKind, Names DEF Leave
      <4>3. QED
        BY <2>2, <4>1, <4>2, Looks DEF SomeLocal
    <3>2. QED
      BY <3>1 DEF kernelVars
  <2>3. CASE UNCHANGED vars
    BY <2>3 DEF vars, kernelVars
  <2>4. CASE \E t \in Task : InKernel(t) \/ Interrupted(t)
    BY <2>4 DEF OpenNext, InKernel, Interrupted
  <2>5. QED
    BY <2>1, <2>2, <2>3, <2>4, Kinds
<1>2. QED
  BY <1>1, IInvStep DEF Base

\* Where the processes are, and in which calls, is as the programs say.
LEMMA BaseStep ==
  ASSUME Base, [ProdConsNext]_vars
  PROVE  Base'
<1>i. IInv'
  BY KernelInv
<1>t. /\ "flag" \in Task /\ Side \subseteq Task /\ "flag" \notin Side
      /\ at \in [Task -> Place] /\ call \in [Task -> [op : {"down", "up"}, sem : Sem]]
      /\ pc \in [Task -> ProducerPC \cup FlagPC] /\ serving \in Side
      /\ \A d \in Side : pc[d] \in ProducerPC /\ ProducerCalls(d)
      /\ pc["flag"] \in FlagPC /\ FlagCalls
  BY Names DEF Base, IInv, TypeOK
\* A new call of a producer, and of the flagperson.
<1>p. ASSUME NEW d \in Side, NEW from, NEW op \in {"down", "up"}, NEW s \in Sem,
             NEW to \in ProducerPC, Call(d, from, op, s, to),
             \/ to = "down_mutex" /\ op = "down" /\ s = empty[d]
             \/ to = "enqueue" /\ op = "down" /\ s = "mutex"
             \/ to = "up_full" /\ op = "up" /\ s = "mutex"
             \/ to = "down_empty" /\ op = "up" /\ s = full[d]
      PROVE  Base'
  <2>1. /\ pc' = [pc EXCEPT ![d] = to] /\ at' = [at EXCEPT ![d] = "mutex_lock"]
        /\ call' = [call EXCEPT ![d] = [op |-> op, sem |-> s]] /\ serving' = serving
    BY <1>p DEF Call, Syscall, carVars
  <2>2. \A e \in Side : pc'[e] \in ProducerPC /\ ProducerCalls(e)'
    BY <1>p, <1>t, <2>1 DEF ProducerCalls
  <2>3. pc'["flag"] \in FlagPC /\ FlagCalls'
    BY <1>t, <2>1 DEF FlagCalls
  <2>4. QED
    BY <1>i, <1>t, <2>1, <2>2, <2>3 DEF Base
<1>f. ASSUME NEW from, NEW op \in {"down", "up"}, NEW s \in Sem,
             NEW to \in FlagPC, Call("flag", from, op, s, to),
             \/ to = "down_mutex" /\ op = "down" /\ s = full[serving]
             \/ to = "dequeue" /\ op = "down" /\ s = "mutex"
             \/ to = "up_empty" /\ op = "up" /\ s = "mutex"
             \/ to = "north_size" /\ op = "up" /\ s = empty[serving]
      PROVE  Base'
  <2>1. /\ pc' = [pc EXCEPT !["flag"] = to] /\ at' = [at EXCEPT !["flag"] = "mutex_lock"]
        /\ call' = [call EXCEPT !["flag"] = [op |-> op, sem |-> s]] /\ serving' = serving
    BY <1>f DEF Call, Syscall, carVars
  <2>2. \A e \in Side : pc'[e] \in ProducerPC /\ ProducerCalls(e)'
    BY <1>t, <2>1 DEF ProducerCalls
  <2>3. pc'["flag"] \in FlagPC /\ FlagCalls'
    BY <1>f, <1>t, <2>1 DEF FlagCalls
  <2>4. QED
    BY <1>i, <1>t, <2>1, <2>2, <2>3 DEF Base
<1>1. CASE SomeCall
  <2>1. /\ \A d \in Side : empty[d] \in Sem /\ full[d] \in Sem
        /\ "mutex" \in Sem
    BY Names
  <2>2. /\ {"down_mutex", "enqueue", "up_full", "down_empty"} \subseteq ProducerPC
        /\ {"down_mutex", "dequeue", "up_empty", "north_size"} \subseteq FlagPC
    BY DEF ProducerPC, FlagPC
  <2>3. QED
    BY <1>1, <1>t, <1>p, <1>f, <2>1, <2>2 DEF SomeCall
\* A step in user mode, of a process that is not in a call afterwards either.
<1>u. ASSUME NEW t \in Task, at[t] = "user", UNCHANGED <<at, call>>,
             NEW to, pc' = [pc EXCEPT ![t] = to], serving' \in Side,
             t \in Side => to \in ProducerPC /\ serving' = serving,
             t = "flag" => to \in FlagPC
      PROVE  Base'
  <2>1. \A e \in Side : pc'[e] \in ProducerPC /\ ProducerCalls(e)'
    BY <1>t, <1>u DEF ProducerCalls
  <2>2. pc'["flag"] \in FlagPC /\ FlagCalls'
    BY <1>t, <1>u, Names DEF FlagCalls
  <2>3. pc' \in [Task -> ProducerPC \cup FlagPC]
    BY <1>t, <1>u, Names
  <2>4. QED
    BY <1>i, <1>u, <2>1, <2>2, <2>3 DEF Base
<1>2. CASE SomeLocal
  <2>1. ASSUME NEW d \in Side, Arrive(d) PROVE Base'
    <3>1. /\ at[d] = "user" /\ pc' = [pc EXCEPT ![d] = "up_mutex"]
          /\ UNCHANGED <<at, call, serving>>
      BY <2>1, <1>t, LocalKind DEF Arrive, carVars, kernelVars
    <3>2. QED
      BY <3>1, <1>t, <1>u DEF ProducerPC
  <2>2. CASE Leave
    <3>1. /\ at["flag"] = "user" /\ pc' = [pc EXCEPT !["flag"] = "up_mutex"]
          /\ UNCHANGED <<at, call, serving>>
      BY <2>2, <1>t, LocalKind DEF Leave, kernelVars
    <3>2. QED
      BY <3>1, <1>t, <1>u DEF FlagPC
  <2>3. CASE Look
    <3>1. /\ at["flag"] = "user" /\ serving' \in Side /\ UNCHANGED <<at, call>>
          /\ \E to \in FlagPC : pc' = [pc EXCEPT !["flag"] = to]
      BY <2>3, Looks DEF kernelVars, FlagPC
    <3>2. QED
      BY <3>1, <1>t, <1>u
  <2>4. QED
    BY <1>2, <2>1, <2>2, <2>3 DEF SomeLocal
<1>3. CASE UNCHANGED vars
  BY <1>3, <1>i DEF vars, kernelVars, carVars, Base, ProducerCalls, FlagCalls
<1>4. ASSUME NEW t \in Task, InKernel(t) \/ Interrupted(t) PROVE Base'
  <2>1. /\ call' = call /\ \A u \in Task : at[u] = "user" => at'[u] = "user"
        /\ UNCHANGED <<pc, serving>>
    BY <1>4, KernelSummary DEF Base, InKernel, Interrupted, carVars
  <2>2. QED
    BY <1>i, <1>t, <2>1 DEF Base, ProducerCalls, FlagCalls
<1>5. QED
  BY <1>1, <1>2, <1>3, <1>4, Kinds

-----------------------------------------------------------------------------
\* Making a call, or a step in user mode, gives no process the mutex and takes
\* it from none.
LEMMA HoldersSame ==
  ASSUME Base, SomeCall \/ SomeLocal
  PROVE  HasMutex' = HasMutex /\ value' = value
<1>t. /\ "flag" \in Task /\ Side \subseteq Task /\ "flag" \notin Side
      /\ pc \in [Task -> ProducerPC \cup FlagPC] /\ serving \in Side
      /\ "mutex" \in Sem /\ \A d \in Side : empty[d] \in Sem /\ full[d] \in Sem
  BY Names DEF Base
<1>1. ASSUME NEW t \in Task, NEW from, NEW op \in {"down", "up"}, NEW s \in Sem, NEW to,
             Call(t, from, op, s, to),
             <<from, to>> \in {<<"down_empty", "down_mutex">>, <<"down_mutex", "enqueue">>,
                               <<"up_mutex", "up_full">>, <<"up_full", "down_empty">>,
                               <<"down_full", "down_mutex">>, <<"down_mutex", "dequeue">>,
                               <<"up_mutex", "up_empty">>, <<"up_empty", "north_size">>}
      PROVE  HasMutex' = HasMutex /\ value' = value
  <2>1. /\ pc[t] = from /\ pc' = [pc EXCEPT ![t] = to] /\ value' = value
        /\ t \notin Pending /\ Pending' = Pending \cup {t}
    <3>1. /\ pc[t] = from /\ pc' = [pc EXCEPT ![t] = to] /\ value' = value
          /\ at[t] = "user" /\ at' = [at EXCEPT ![t] = "mutex_lock"]
      BY <1>1 DEF Call, Syscall
    <3>2. QED
      BY <3>1 DEF Pending, Base, IInv, TypeOK
  <2>2. QED
    BY <1>1, <1>t, <2>1 DEF HasMutex
<1>2. CASE SomeCall
  BY <1>1, <1>2, <1>t DEF SomeCall
<1>3. ASSUME NEW d \in Side, Arrive(d) PROVE HasMutex' = HasMutex /\ value' = value
  <2>1. /\ pc[d] = "enqueue" /\ pc' = [pc EXCEPT ![d] = "up_mutex"]
        /\ d \notin Pending /\ Pending' = Pending /\ value' = value
    BY <1>3, <1>t, LocalKind DEF Arrive, kernelVars
  <2>2. QED
    BY <1>t, <2>1 DEF HasMutex
<1>4. CASE Leave
  <2>1. /\ pc["flag"] = "dequeue" /\ pc' = [pc EXCEPT !["flag"] = "up_mutex"]
        /\ "flag" \notin Pending /\ Pending' = Pending /\ value' = value
    BY <1>4, <1>t, LocalKind DEF Leave, kernelVars
  <2>2. QED
    BY <1>t, <2>1 DEF HasMutex
<1>5. CASE Look
  <2>1. /\ pc["flag"] \in {"nap_north", "nap_south", "north_size", "south_size"}
        /\ \E to \in {"nap_north", "nap_south", "north_size", "south_size", "down_full"} :
             pc' = [pc EXCEPT !["flag"] = to]
        /\ "flag" \notin Pending /\ Pending' = Pending /\ value' = value
    BY <1>5, Looks DEF kernelVars
  <2>2. QED
    BY <1>t, <2>1 DEF HasMutex
<1>6. QED
  BY <1>2, <1>3, <1>4, <1>5 DEF SomeLocal

\* Which call of the mutex a process is in.
LEMMA MutexCalls ==
  ASSUME Base, NEW t \in Task, at[t] # "user"
  PROVE  /\ call[t].sem = "mutex" /\ call[t].op = "down" => pc[t] \in {"enqueue", "dequeue"}
         /\ call[t].sem = "mutex" /\ call[t].op = "up" => pc[t] \in {"up_full", "up_empty"}
         /\ call[t].sem # "mutex" => pc[t] \in {"down_mutex", "down_empty", "north_size"}
<1>1. CASE t \in Side
  <2>1. ProducerCalls(t) /\ empty[t] # "mutex" /\ full[t] # "mutex"
    BY <1>1, Names DEF Base
  <2>2. QED
    BY <2>1 DEF ProducerCalls
<1>2. CASE t = "flag"
  <2>1. FlagCalls /\ empty[serving] # "mutex" /\ full[serving] # "mutex"
    BY Names DEF Base
  <2>2. QED
    BY <1>2, <2>1 DEF FlagCalls
<1>3. QED
  BY <1>1, <1>2, Names

\* The value of the mutex counts the processes that have it.
LEMMA MutexStep ==
  ASSUME Base, MutexLedger, [ProdConsNext]_vars
  PROVE  MutexLedger'
<1>t. /\ "flag" \in Task /\ Task = Side \cup {"flag"} /\ "flag" \notin Side
      /\ \A d \in Side : empty[d] # "mutex" /\ full[d] # "mutex"
      /\ serving \in Side /\ "mutex" \in Sem
      /\ value \in [Sem -> Int]
  BY Names DEF Base, IInv, TypeOK
<1>c. IsFiniteSet(HasMutex) /\ Cardinality(HasMutex) \in Nat
  BY TaskSets DEF HasMutex
<1>1. CASE SomeCall \/ SomeLocal
  BY <1>1, HoldersSame DEF MutexLedger
<1>2. CASE UNCHANGED vars
  BY <1>2 DEF vars, kernelVars, MutexLedger, HasMutex, Pending
<1>3. ASSUME NEW t \in Task, InKernel(t) \/ Interrupted(t) PROVE MutexLedger'
  <2>0. IInv /\ (KernelStep(t) \/ Signal(t)) /\ pc' = pc
    BY <1>3 DEF Base, InKernel, Interrupted
  <2>1. CASE value' = value /\ Pending' = Pending
    BY <2>0, <2>1 DEF MutexLedger, HasMutex
  <2>2. CASE /\ t \in Pending /\ Pending' = Pending \ {t}
             /\ call[t].op = "down"
             /\ value' = [value EXCEPT ![call[t].sem] = @ - 1]
    <3>1. at[t] # "user"
      BY <2>2 DEF Pending
    <3>2. CASE call[t].sem = "mutex"
      <4>1. pc[t] \in {"enqueue", "dequeue"}
        BY <2>2, <3>1, <3>2, MutexCalls
      <4>2. t \notin HasMutex /\ HasMutex' = HasMutex \cup {t}
        BY <2>0, <2>2, <4>1 DEF HasMutex
      <4>3. Cardinality(HasMutex') = Cardinality(HasMutex) + 1
        BY <1>c, <4>2, FS_AddElement
      <4>4. value'["mutex"] = value["mutex"] - 1
        BY <1>t, <2>2, <3>2
      <4>5. QED
        BY <1>c, <4>3, <4>4 DEF MutexLedger
    <3>3. CASE call[t].sem # "mutex"
      <4>1. pc[t] \in {"down_mutex", "down_empty", "north_size"}
        BY <2>2, <3>1, <3>3, MutexCalls
      <4>2. HasMutex' = HasMutex /\ value'["mutex"] = value["mutex"]
        BY <1>t, <2>0, <2>2, <3>3, <4>1 DEF HasMutex
      <4>3. QED
        BY <4>2 DEF MutexLedger
    <3>4. QED
      BY <3>2, <3>3
  <2>3. CASE /\ t \in Pending /\ Pending' = Pending \ {t}
             /\ call[t].op = "up"
             /\ value' = [value EXCEPT ![call[t].sem] = @ + 1]
    <3>1. at[t] # "user"
      BY <2>3 DEF Pending
    <3>2. CASE call[t].sem = "mutex"
      <4>1. pc[t] \in {"up_full", "up_empty"}
        BY <2>3, <3>1, <3>2, MutexCalls
      <4>2. t \in HasMutex /\ HasMutex' = HasMutex \ {t}
        BY <2>0, <2>3, <4>1 DEF HasMutex
      <4>3. Cardinality(HasMutex') = Cardinality(HasMutex) - 1
        BY <1>c, <4>2, FS_RemoveElement
      <4>4. value'["mutex"] = value["mutex"] + 1
        BY <1>t, <2>3, <3>2
      <4>5. QED
        BY <1>c, <4>3, <4>4 DEF MutexLedger
    <3>3. CASE call[t].sem # "mutex"
      <4>1. pc[t] \in {"down_mutex", "down_empty", "north_size"}
        BY <2>3, <3>1, <3>3, MutexCalls
      <4>2. HasMutex' = HasMutex /\ value'["mutex"] = value["mutex"]
        BY <1>t, <2>0, <2>3, <3>3, <4>1 DEF HasMutex
      <4>3. QED
        BY <4>2 DEF MutexLedger
    <3>4. QED
      BY <3>2, <3>3
  <2>4. QED
    BY <2>0, <2>1, <2>2, <2>3, KernelSummary
<1>4. QED
  BY <1>1, <1>2, <1>3, Kinds

\* The programs start with the mutex free.
LEMMA BaseInit == ProdConsInit => Base /\ MutexLedger
<1> SUFFICES ASSUME ProdConsInit PROVE Base /\ MutexLedger
  OBVIOUS
<1>1. IInv
  BY IInvInit DEF ProdConsInit, Init
<1>2. /\ \A t \in Task : at[t] = "user" /\ pc[t] \in {"nap_north", "down_empty"}
      /\ pc["flag"] = "nap_north" /\ \A d \in Side : pc[d] = "down_empty"
      /\ pc \in [Task -> {"nap_north", "down_empty"}] /\ serving \in Side
  BY Names DEF ProdConsInit, KernelInit, Side
<1>3. Base
  BY <1>1, <1>2, Names DEF Base, ProducerPC, FlagPC, ProducerCalls, FlagCalls
<1>4. HasMutex = {} /\ value["mutex"] = 1
  BY <1>2, Names, ProdConsAssumption DEF HasMutex, ProdConsInit, KernelInit, InitialValues
<1>5. QED
  BY <1>3, <1>4, FS_EmptySet DEF MutexLedger

(***************************************************************************)
(* For any queues, any number of signals and any failures of kmalloc:      *)
(* enqueue() and dequeue() of prodcons.c run one at a time, but for one    *)
(* process for every signal that reached a sleeper.                        *)
(***************************************************************************)
THEOREM QueuesAreExclusive == ProdConsSpec => []MutualExclusion
<1>1. Base /\ MutexLedger /\ [ProdConsNext]_vars => (Base /\ MutexLedger)'
  BY BaseStep, MutexStep
<1>2. ASSUME Base, MutexLedger PROVE MutualExclusion
  <2>1. InRegion \cup Asleep("mutex") \subseteq HasMutex
    <3>1. InRegion \subseteq HasMutex
      BY DEF InRegion, HasMutex, Pending
    <3>2. ASSUME NEW t \in Asleep("mutex") PROVE t \in HasMutex
      <4>1. /\ t \in Task /\ at[t] \in {"oops", "schedule"} /\ call[t].sem = "mutex"
            /\ call[t].op = "down"
        BY <1>2 DEF Asleep, Base, IInv, OnlyDownsSleep
      <4>2. pc[t] \in {"enqueue", "dequeue"}
        BY <1>2, <4>1, MutexCalls
      <4>3. QED
        BY <4>1, <4>2 DEF HasMutex, Pending
    <3>3. QED
      BY <3>1, <3>2
  <2>2. InRegion \cap Asleep("mutex") = {}
    BY DEF InRegion, Asleep
  <2>3. InRegion \in SUBSET Task /\ HasMutex \in SUBSET Task /\ "mutex" \in Sem
    BY Names DEF InRegion, HasMutex
  <2>4. QED
    BY <1>2, <2>1, <2>2, <2>3, Exclusion DEF Base, MutexLedger, MutualExclusion
<1>3. QED
  BY <1>1, <1>2, BaseInit, PTL DEF ProdConsSpec

-----------------------------------------------------------------------------
One(b) == IF b THEN 1 ELSE 0

\* A place of line d is promised to a car that has not arrived; a car has
\* arrived and is not announced; it is counted off and still in the queue; it
\* has left the queue and its place is not announced.
Promised(d) == (pc[d] = "down_mutex" /\ d \notin Pending) \/ pc[d] = "enqueue"
Arrived(d) == pc[d] \in {"up_mutex", "up_full"} \/ (pc[d] = "down_empty" /\ d \in Pending)
Leaving(d) ==
  /\ serving = d
  /\ \/ pc["flag"] = "dequeue"
     \/ pc["flag"] = "down_mutex" /\ "flag" \notin Pending
Gone(d) ==
  /\ serving = d
  /\ \/ pc["flag"] \in {"up_mutex", "up_empty"}
     \/ pc["flag"] = "north_size" /\ "flag" \in Pending

\* The cars and the free places of line d as the semaphores count them.
Cars(d) == value[full[d]] + One(Arrived(d)) + One(Leaving(d))
Free(d) == value[empty[d]] + One(Promised(d)) + One(Gone(d))

\* The cars in the queue that the semaphores have lost: a signal let the
\* flagperson past down(full), and dequeue() found the queue empty.
Lost(d) == Length(queue[d]) - Cars(d)

PlaceLedger(d) == Free(d) + Cars(d) = N

QueueLedger(d) == N + signals <= MAX_QUEUE_SIZE =>
  /\ Lost(d) \in 0..signals
  /\ Permits(empty[d]) + One(Gone(d)) + signals >= Lost(d)

QueueInv ==
  /\ \A d \in Side : WellFormed(queue[d]) /\ PlaceLedger(d) /\ QueueLedger(d)
  /\ queue \in [Side -> [car : [Slot -> Int], front : Slot \cup {-1},
                         rear : Slot \cup {-1}, size : Int]]
  /\ total_car \in [Side -> Int]

\* Which calls of the counters of the lines there are.
LEMMA LineCalls ==
  ASSUME Base, NEW t \in Task, at[t] # "user", NEW d \in Side
  PROVE  /\ call[t].sem = full[d] /\ call[t].op = "down"
              => t = "flag" /\ pc[t] = "down_mutex" /\ d = serving
         /\ call[t].sem = full[d] /\ call[t].op = "up" => t = d /\ pc[t] = "down_empty"
         /\ call[t].sem = empty[d] /\ call[t].op = "down" => t = d /\ pc[t] = "down_mutex"
         /\ call[t].sem = empty[d] /\ call[t].op = "up"
              => t = "flag" /\ pc[t] = "north_size" /\ d = serving
<1>0. /\ full[d] # "mutex" /\ empty[d] # "mutex"
      /\ \A e \in Side : /\ full[d] # empty[e] /\ full[e] # empty[d]
                         /\ full[e] = full[d] => e = d
                         /\ empty[e] = empty[d] => e = d
  BY Names
<1>1. CASE t \in Side
  <2>1. ProducerCalls(t)
    BY <1>1 DEF Base
  <2>2. QED
    BY <1>0, <1>1, <2>1 DEF ProducerCalls
<1>2. CASE t = "flag"
  <2>1. FlagCalls /\ serving \in Side
    BY DEF Base
  <2>2. QED
    BY <1>0, <1>2, <2>1 DEF FlagCalls
<1>3. QED
  BY <1>1, <1>2, Names

\* Every count of a line is a number.
LEMMA CountTypes ==
  ASSUME Base, NEW d \in Side
  PROVE  /\ Cars(d) \in Int /\ Free(d) \in Int
         /\ value[full[d]] \in Int /\ value[empty[d]] \in Int
<1>1. value[full[d]] \in Int /\ value[empty[d]] \in Int
  BY Names DEF Base, IInv, TypeOK
<1>2. /\ One(Arrived(d)) \in Int /\ One(Leaving(d)) \in Int
      /\ One(Promised(d)) \in Int /\ One(Gone(d)) \in Int
  BY DEF One
<1>3. QED
  BY <1>1, <1>2 DEF Cars, Free

\* A step of the kernel moves a car, or a slot, from one count to another.
LEMMA KernelLines ==
  ASSUME Base, NEW t \in Task, InKernel(t) \/ Interrupted(t), NEW d \in Side
  PROVE  Cars(d)' = Cars(d) /\ Free(d)' = Free(d)
<1>0. /\ IInv /\ (KernelStep(t) \/ Signal(t)) /\ UNCHANGED <<pc, serving>>
  BY DEF Base, InKernel, Interrupted, carVars
<1>s. call' = call
  BY <1>0, KernelSummary
<1>v. /\ value \in [Sem -> Int] /\ full[d] \in Sem /\ empty[d] \in Sem /\ full[d] # empty[d]
      /\ value[full[d]] \in Int /\ value[empty[d]] \in Int
      /\ "flag" \in Task /\ d \in Task /\ d # "flag"
  BY Names DEF Base, IInv, TypeOK
<1>1. CASE value' = value /\ Pending' = Pending
  BY <1>0, <1>1 DEF Cars, Free, Promised, Arrived, Leaving, Gone
<1>2. CASE /\ t \in Pending /\ Pending' = Pending \ {t}
           /\ \/ call[t].op = "down" /\ value' = [value EXCEPT ![call[t].sem] = @ - 1]
              \/ call[t].op = "up" /\ value' = [value EXCEPT ![call[t].sem] = @ + 1]
  <2>1. at[t] # "user"
    BY <1>2 DEF Pending
  <2>2. CASE call[t].sem = full[d] /\ call[t].op = "down"
    <3>1. t = "flag" /\ pc[t] = "down_mutex" /\ d = serving
      BY <2>1, <2>2, LineCalls
    <3>2. /\ value'[full[d]] = value[full[d]] - 1 /\ value'[empty[d]] = value[empty[d]]
      BY <1>v, <1>2, <2>2
    <3>3. /\ ~Leaving(d) /\ Leaving(d)' /\ ~Gone(d) /\ ~Gone(d)'
          /\ Arrived(d)' = Arrived(d) /\ Promised(d)' = Promised(d)
      BY <1>0, <1>v, <1>2, <3>1 DEF Leaving, Gone, Arrived, Promised
    <3>4. QED
      BY <1>v, <3>2, <3>3 DEF Cars, Free, One
  <2>3. CASE call[t].sem = full[d] /\ call[t].op = "up"
    <3>1. t = d /\ pc[t] = "down_empty"
      BY <2>1, <2>3, LineCalls
    <3>2. /\ value'[full[d]] = value[full[d]] + 1 /\ value'[empty[d]] = value[empty[d]]
      BY <1>v, <1>2, <2>3
    <3>3. /\ Arrived(d) /\ ~Arrived(d)' /\ ~Promised(d) /\ ~Promised(d)'
          /\ Leaving(d)' = Leaving(d) /\ Gone(d)' = Gone(d)
      BY <1>0, <1>v, <1>2, <3>1 DEF Leaving, Gone, Arrived, Promised
    <3>4. QED
      BY <1>v, <3>2, <3>3 DEF Cars, Free, One
  <2>4. CASE call[t].sem = empty[d] /\ call[t].op = "down"
    <3>1. t = d /\ pc[t] = "down_mutex"
      BY <2>1, <2>4, LineCalls
    <3>2. /\ value'[full[d]] = value[full[d]] /\ value'[empty[d]] = value[empty[d]] - 1
      BY <1>v, <1>2, <2>4
    <3>3. /\ ~Promised(d) /\ Promised(d)' /\ ~Arrived(d) /\ ~Arrived(d)'
          /\ Leaving(d)' = Leaving(d) /\ Gone(d)' = Gone(d)
      BY <1>0, <1>v, <1>2, <3>1 DEF Leaving, Gone, Arrived, Promised
    <3>4. QED
      BY <1>v, <3>2, <3>3 DEF Cars, Free, One
  <2>5. CASE call[t].sem = empty[d] /\ call[t].op = "up"
    <3>1. t = "flag" /\ pc[t] = "north_size" /\ d = serving
      BY <2>1, <2>5, LineCalls
    <3>2. /\ value'[full[d]] = value[full[d]] /\ value'[empty[d]] = value[empty[d]] + 1
      BY <1>v, <1>2, <2>5
    <3>3. /\ Gone(d) /\ ~Gone(d)' /\ ~Leaving(d) /\ ~Leaving(d)'
          /\ Arrived(d)' = Arrived(d) /\ Promised(d)' = Promised(d)
      BY <1>0, <1>v, <1>2, <3>1 DEF Leaving, Gone, Arrived, Promised
    <3>4. QED
      BY <1>v, <3>2, <3>3 DEF Cars, Free, One
  <2>6. CASE call[t].sem \notin {full[d], empty[d]}
    <3>1. value'[full[d]] = value[full[d]] /\ value'[empty[d]] = value[empty[d]]
      BY <1>v, <1>2, <2>6
    <3>2. t = d => pc[d] \in {"enqueue", "up_full"}
      <4>1. t = d => ProducerCalls(d)
        BY DEF Base
      <4>2. QED
        BY <2>1, <2>6, <4>1 DEF ProducerCalls
    <3>3. t = "flag" /\ serving = d => pc["flag"] \in {"dequeue", "up_empty"}
      <4>1. FlagCalls
        BY DEF Base
      <4>2. QED
        BY <2>1, <2>6, <4>1 DEF FlagCalls
    <3>4. Arrived(d)' = Arrived(d) /\ Promised(d)' = Promised(d)
      BY <1>0, <1>v, <1>2, <3>2 DEF Arrived, Promised
    <3>5. Leaving(d)' = Leaving(d) /\ Gone(d)' = Gone(d)
      BY <1>0, <1>v, <1>2, <3>3 DEF Leaving, Gone
    <3>6. QED
      BY <3>1, <3>4, <3>5 DEF Cars, Free
  <2>7. QED
    <3>1. call[t].op \in {"down", "up"}
      BY DEF Base, IInv, TypeOK
    <3>2. QED
      BY <3>1, <2>2, <2>3, <2>4, <2>5, <2>6
<1>3. QED
  BY <1>0, <1>1, <1>2, KernelSummary

\* When the flagperson's up(empty) is done, the free place is announced.
LEMMA KernelGone ==
  ASSUME Base, NEW t \in Task, InKernel(t) \/ Interrupted(t), NEW d \in Side
  PROVE  IF t \in Pending /\ t \notin Pending' /\ call[t].op = "up" /\ call[t].sem = empty[d]
           THEN Gone(d) /\ ~Gone(d)'
           ELSE Gone(d)' = Gone(d)
<1>0. IInv /\ (KernelStep(t) \/ Signal(t)) /\ UNCHANGED <<pc, serving>>
  BY DEF Base, InKernel, Interrupted, carVars
<1>1. Pending' = Pending \/ (t \in Pending /\ Pending' = Pending \ {t})
  BY <1>0, KernelSummary
<1>2. "flag" \in Task /\ FlagCalls /\ call[t].op \in {"down", "up"}
  BY Names DEF Base, IInv, TypeOK
<1>3. CASE t \in Pending /\ t \notin Pending' /\ call[t].op = "up" /\ call[t].sem = empty[d]
  <2>1. at[t] # "user"
    BY <1>3 DEF Pending
  <2>2. t = "flag" /\ pc[t] = "north_size" /\ d = serving
    BY <1>3, <2>1, LineCalls
  <2>3. QED
    BY <1>0, <1>3, <2>2 DEF Gone
<1>4. CASE ~(t \in Pending /\ t \notin Pending' /\ call[t].op = "up" /\ call[t].sem = empty[d])
  <2>1. CASE Pending' = Pending
    BY <1>0, <1>4, <2>1 DEF Gone
  <2>2. CASE t \in Pending /\ Pending' = Pending \ {t}
    <3>1. at[t] # "user" /\ ~(call[t].op = "up" /\ call[t].sem = empty[d])
      BY <1>4, <2>2 DEF Pending
    <3>2. t = "flag" /\ serving = d => pc["flag"] # "north_size"
      BY <1>2, <3>1 DEF FlagCalls
    <3>3. QED
      BY <1>0, <1>4, <2>2, <3>2 DEF Gone
  <2>3. QED
    BY <1>1, <2>1, <2>2
<1>5. QED
  BY <1>3, <1>4

\* Making a call changes no count.
LEMMA CallQueues ==
  ASSUME Base, SomeCall, NEW d \in Side
  PROVE  /\ Cars(d)' = Cars(d) /\ Free(d)' = Free(d) /\ Gone(d)' = Gone(d)
         /\ Permits(empty[d])' = Permits(empty[d])
         /\ UNCHANGED <<signals, queue, total_car>>
<1>t. /\ "flag" \in Task /\ Side \subseteq Task /\ "flag" \notin Side
      /\ pc \in [Task -> ProducerPC \cup FlagPC] /\ serving \in Side
      /\ "mutex" \in Sem /\ \A e \in Side : empty[e] \in Sem /\ full[e] \in Sem
      /\ at \in [Task -> Place]
  BY Names DEF Base, IInv, TypeOK
<1>1. ASSUME NEW t \in Task, NEW from, NEW op \in {"down", "up"}, NEW s \in Sem, NEW to,
             Call(t, from, op, s, to)
      PROVE  /\ pc[t] = from /\ pc' = [pc EXCEPT ![t] = to]
             /\ t \notin Pending /\ Pending' = Pending \cup {t}
             /\ value' = value /\ serving' = serving
             /\ UNCHANGED <<signals, queue, total_car>>
             /\ Permits(empty[d])' = Permits(empty[d])
  <2>1. /\ pc[t] = from /\ pc' = [pc EXCEPT ![t] = to]
        /\ t \notin Pending /\ Pending' = Pending \cup {t}
        /\ value' = value /\ serving' = serving
        /\ UNCHANGED <<signals, queue, total_car>>
    BY <1>1, <1>t DEF Call, Syscall, Pending, carVars
  <2>2. \E o \in {"down", "up"}, r \in Sem : Syscall(t, o, r)
    BY <1>1 DEF Call
  <2>3. Asleep(empty[d])' = Asleep(empty[d])
    BY <1>t, <2>2, AsleepSame DEF Base
  <2>4. QED
    BY <2>1, <2>3 DEF Permits
<1>2. ASSUME NEW e \in Side, NEW from, NEW op \in {"down", "up"}, NEW s \in Sem, NEW to,
             Call(e, from, op, s, to),
             <<from, to>> \in {<<"down_empty", "down_mutex">>, <<"down_mutex", "enqueue">>,
                               <<"up_mutex", "up_full">>, <<"up_full", "down_empty">>}
      PROVE  /\ Cars(d)' = Cars(d) /\ Free(d)' = Free(d) /\ Gone(d)' = Gone(d)
             /\ Permits(empty[d])' = Permits(empty[d])
             /\ UNCHANGED <<signals, queue, total_car>>
  <2>1. /\ pc[e] = from /\ pc' = [pc EXCEPT ![e] = to]
        /\ e \notin Pending /\ Pending' = Pending \cup {e}
        /\ value' = value /\ serving' = serving
        /\ UNCHANGED <<signals, queue, total_car>>
        /\ Permits(empty[d])' = Permits(empty[d])
    BY <1>1, <1>2, <1>t
  <2>2. Leaving(d)' = Leaving(d) /\ Gone(d)' = Gone(d)
    BY <1>t, <2>1 DEF Leaving, Gone
  <2>3. Promised(d)' = Promised(d) /\ Arrived(d)' = Arrived(d)
    <3>1. CASE e = d
      BY <1>2, <1>t, <2>1, <3>1 DEF Promised, Arrived
    <3>2. CASE e # d
      BY <1>t, <2>1, <3>2 DEF Promised, Arrived
    <3>3. QED
      BY <3>1, <3>2
  <2>4. QED
    BY <2>1, <2>2, <2>3 DEF Cars, Free
<1>3. ASSUME NEW from, NEW op \in {"down", "up"}, NEW s \in Sem, NEW to,
             Call("flag", from, op, s, to),
             <<from, to>> \in {<<"down_full", "down_mutex">>, <<"down_mutex", "dequeue">>,
                               <<"up_mutex", "up_empty">>, <<"up_empty", "north_size">>}
      PROVE  /\ Cars(d)' = Cars(d) /\ Free(d)' = Free(d) /\ Gone(d)' = Gone(d)
             /\ Permits(empty[d])' = Permits(empty[d])
             /\ UNCHANGED <<signals, queue, total_car>>
  <2>1. /\ pc["flag"] = from /\ pc' = [pc EXCEPT !["flag"] = to]
        /\ "flag" \notin Pending /\ Pending' = Pending \cup {"flag"}
        /\ value' = value /\ serving' = serving
        /\ UNCHANGED <<signals, queue, total_car>>
        /\ Permits(empty[d])' = Permits(empty[d])
    BY <1>1, <1>3, <1>t
  <2>2. Leaving(d)' = Leaving(d) /\ Gone(d)' = Gone(d)
    BY <1>3, <1>t, <2>1 DEF Leaving, Gone
  <2>3. Promised(d)' = Promised(d) /\ Arrived(d)' = Arrived(d)
    BY <1>t, <2>1 DEF Promised, Arrived
  <2>4. QED
    BY <2>1, <2>2, <2>3 DEF Cars, Free
<1>4. QED
  BY <1>t, <1>2, <1>3 DEF SomeCall

\* A line that does not change stays as it should be.
LEMMA LedgerSame ==
  ASSUME NEW d \in Side, PlaceLedger(d), QueueLedger(d),
         Cars(d)' = Cars(d), Free(d)' = Free(d), Gone(d)' = Gone(d),
         Permits(empty[d])' = Permits(empty[d]), signals' = signals, queue'[d] = queue[d]
  PROVE  PlaceLedger(d)' /\ QueueLedger(d)'
BY DEF PlaceLedger, QueueLedger, Lost

\* The producer that is about to enqueue() finds a free place.
LEMMA RoomForCar ==
  ASSUME Base, QueueInv, NEW d \in Side, pc[d] = "enqueue", at[d] = "user",
         N + signals <= MAX_QUEUE_SIZE
  PROVE  ~is_full(queue[d])
<1>0. /\ Cars(d) \in Int /\ value[empty[d]] \in Int /\ signals \in Nat
      /\ N \in Nat /\ MAX_QUEUE_SIZE \in Nat
  BY CountTypes, ProdConsAssumption, CarQueueAssumption DEF Base, IInv, TypeOK
<1>1. Permits(empty[d]) = value[empty[d]]
  <2>1. \A t \in Task : at[t] # "user" /\ call[t].op = "down" => call[t].sem # empty[d]
    BY LineCalls
  <2>2. QED
    BY <2>1, NobodyAsleep, Names DEF Base
<1>2. Promised(d)
  BY DEF Promised
<1>3. value[empty[d]] + One(Gone(d)) + 1 + Cars(d) = N
  BY <1>0, <1>2 DEF QueueInv, PlaceLedger, Free, One
<1>4. /\ Length(queue[d]) \in 0..MAX_QUEUE_SIZE
      /\ is_full(queue[d]) <=> Length(queue[d]) = MAX_QUEUE_SIZE
  BY QueueBounds DEF QueueInv
<1>5. value[empty[d]] + One(Gone(d)) + signals >= Length(queue[d]) - Cars(d)
  BY <1>1 DEF QueueInv, QueueLedger, Lost
<1>6. One(Gone(d)) \in Int
  BY DEF One
<1>7. Length(queue[d]) <= N - 1 + signals
  BY <1>0, <1>3, <1>4, <1>5, <1>6
<1>8. QED
  BY <1>0, <1>4, <1>7

\* enqueue() puts the car into the queue that the semaphores have promised it.
LEMMA ArriveStep ==
  ASSUME Base, QueueInv, NEW d \in Side, Arrive(d)
  PROVE  QueueInv'
<1>t. /\ "flag" \in Task /\ Side \subseteq Task /\ "flag" \notin Side
      /\ pc \in [Task -> ProducerPC \cup FlagPC] /\ serving \in Side
      /\ \A e \in Side : value[full[e]] \in Int /\ value[empty[e]] \in Int
      /\ N \in Nat /\ signals \in Nat
  BY Names, CountTypes, ProdConsAssumption DEF Base, IInv, TypeOK
<1>q. /\ \A e \in Side : WellFormed(queue[e]) /\ PlaceLedger(e) /\ QueueLedger(e)
      /\ DOMAIN queue = Side
      /\ queue \in [Side -> [car : [Slot -> Int], front : Slot \cup {-1},
                             rear : Slot \cup {-1}, size : Int]]
      /\ total_car \in [Side -> Int]
  BY DEF QueueInv
<1>1. /\ pc[d] = "enqueue" /\ pc' = [pc EXCEPT ![d] = "up_mutex"] /\ at[d] = "user"
      /\ d \notin Pending /\ Pending' = Pending
      /\ UNCHANGED <<value, signals, at, call, state, serving>>
      /\ queue' = [queue EXCEPT ![d] = Enqueued(@, total_car[d])]
      /\ total_car' = [total_car EXCEPT ![d] = NextNumber(d)]
  BY <1>t, LocalKind DEF Arrive, kernelVars
<1>2. /\ pc'["flag"] = pc["flag"] /\ pc'[d] = "up_mutex"
      /\ \A e \in Side : e # d => pc'[e] = pc[e] /\ queue'[e] = queue[e]
      /\ queue'[d] = Enqueued(queue[d], total_car[d])
  BY <1>t, <1>q, <1>1
<1>3. \A e \in Side : /\ Leaving(e)' = Leaving(e) /\ Gone(e)' = Gone(e)
                      /\ Permits(empty[e])' = Permits(empty[e])
  BY <1>1, <1>2 DEF Leaving, Gone, Permits, Asleep
<1>4. /\ WellFormed(queue'[d])
      /\ Length(queue'[d]) = IF is_full(queue[d]) THEN Length(queue[d]) ELSE Length(queue[d]) + 1
  <2>1. total_car[d] \in Int /\ WellFormed(queue[d])
    BY <1>q
  <2>2. QED
    BY <1>2, <2>1, EnqueueLength
<1>5. PlaceLedger(d)' /\ QueueLedger(d)'
  <2>1. Promised(d) /\ ~Promised(d)' /\ ~Arrived(d) /\ Arrived(d)'
    BY <1>1, <1>2 DEF Promised, Arrived
  <2>2. Cars(d) \in Int /\ Free(d) \in Int
    BY CountTypes
  <2>3. Cars(d)' = Cars(d) + 1 /\ Free(d)' = Free(d) - 1
    BY <1>t, <1>1, <1>3, <2>1 DEF Cars, Free, One
  <2>4. PlaceLedger(d)'
    BY <1>q, <1>t, <2>2, <2>3 DEF PlaceLedger
  <2>5. ASSUME N + signals <= MAX_QUEUE_SIZE PROVE Lost(d)' = Lost(d)
    <3>1. ~is_full(queue[d])
      BY <1>1, <2>5, RoomForCar
    <3>2. Length(queue[d]) \in Int
      BY <1>q, QueueBounds, CarQueueAssumption
    <3>3. QED
      BY <1>4, <2>2, <2>3, <3>1, <3>2 DEF Lost
  <2>6. QED
    BY <1>q, <1>1, <1>3, <2>4, <2>5 DEF QueueLedger
<1>6. ASSUME NEW e \in Side, e # d PROVE PlaceLedger(e)' /\ QueueLedger(e)' /\ WellFormed(queue'[e])
  <2>1. Promised(e)' = Promised(e) /\ Arrived(e)' = Arrived(e)
    BY <1>1, <1>2, <1>6 DEF Promised, Arrived
  <2>2. Cars(e)' = Cars(e) /\ Free(e)' = Free(e)
    BY <1>1, <1>3, <2>1 DEF Cars, Free
  <2>3. QED
    BY <1>q, <1>1, <1>2, <1>3, <1>6, <2>2, LedgerSame
<1>7. /\ queue' \in [Side -> [car : [Slot -> Int], front : Slot \cup {-1},
                              rear : Slot \cup {-1}, size : Int]]
      /\ total_car' \in [Side -> Int]
  <2>1. NextNumber(d) \in Int
    BY <1>q DEF NextNumber, NextCell
  <2>2. Enqueued(queue[d], total_car[d])
          \in [car : [Slot -> Int], front : Slot \cup {-1}, rear : Slot \cup {-1}, size : Int]
    BY <1>2, <1>4 DEF WellFormed
  <2>3. QED
    BY <1>q, <1>1, <2>1, <2>2
<1>8. QED
  BY <1>4, <1>5, <1>6, <1>7 DEF QueueInv

\* dequeue() takes the car that down(full) has counted off, or, after a signal,
\* may find none: then a car is lost to the semaphores.
LEMMA LeaveStep ==
  ASSUME Base, QueueInv, Leave
  PROVE  QueueInv'
<1>t. /\ "flag" \in Task /\ Side \subseteq Task /\ "flag" \notin Side
      /\ pc \in [Task -> ProducerPC \cup FlagPC] /\ serving \in Side
      /\ \A e \in Side : value[full[e]] \in Int /\ value[empty[e]] \in Int
      /\ N \in Nat /\ signals \in Nat
  BY Names, CountTypes, ProdConsAssumption DEF Base, IInv, TypeOK
<1>q. /\ \A e \in Side : WellFormed(queue[e]) /\ PlaceLedger(e) /\ QueueLedger(e)
      /\ queue \in [Side -> [car : [Slot -> Int], front : Slot \cup {-1},
                             rear : Slot \cup {-1}, size : Int]]
      /\ total_car \in [Side -> Int]
  BY DEF QueueInv
<1>d. PICK d \in Side : d = serving
  BY <1>t
<1>1. /\ pc["flag"] = "dequeue" /\ pc' = [pc EXCEPT !["flag"] = "up_mutex"]
      /\ at["flag"] = "user" /\ "flag" \notin Pending /\ Pending' = Pending
      /\ UNCHANGED <<value, signals, at, call, state, serving, total_car>>
      /\ queue' = [queue EXCEPT ![d] = Dequeued(@)]
  BY <1>d, <1>t, LocalKind DEF Leave, kernelVars
<1>2. /\ pc'["flag"] = "up_mutex" /\ queue'[d] = Dequeued(queue[d])
      /\ \A e \in Side : pc'[e] = pc[e] /\ (e # d => queue'[e] = queue[e])
  BY <1>t, <1>q, <1>1
<1>3. \A e \in Side : /\ Promised(e)' = Promised(e) /\ Arrived(e)' = Arrived(e)
                      /\ Permits(empty[e])' = Permits(empty[e])
  BY <1>1, <1>2 DEF Promised, Arrived, Permits, Asleep
<1>4. /\ WellFormed(queue'[d])
      /\ Length(queue'[d]) = IF is_empty(queue[d]) THEN 0 ELSE Length(queue[d]) - 1
  BY <1>q, <1>2, DequeueLength
<1>5. PlaceLedger(d)' /\ QueueLedger(d)'
  <2>1. Leaving(d) /\ ~Leaving(d)' /\ ~Gone(d) /\ Gone(d)'
    BY <1>d, <1>1, <1>2 DEF Leaving, Gone
  <2>2. Cars(d) \in Int /\ Free(d) \in Int
    BY CountTypes
  <2>3. Cars(d)' = Cars(d) - 1 /\ Free(d)' = Free(d) + 1
    BY <1>t, <1>1, <1>3, <2>1 DEF Cars, Free, One
  <2>4. PlaceLedger(d)'
    BY <1>q, <1>t, <2>2, <2>3 DEF PlaceLedger
  <2>5. ASSUME N + signals <= MAX_QUEUE_SIZE
        PROVE  /\ Lost(d)' \in 0..signals
               /\ Permits(empty[d])' + One(Gone(d)') + signals >= Lost(d)'
    <3>1. /\ Lost(d) \in 0..signals
          /\ Permits(empty[d]) + One(Gone(d)) + signals >= Lost(d)
      BY <1>q, <2>5 DEF QueueLedger
    <3>2. One(Gone(d)) = 0 /\ One(Gone(d)') = 1
      BY <2>1 DEF One
    <3>3. Length(queue[d]) \in Int /\ (is_empty(queue[d]) => Length(queue[d]) = 0)
      BY <1>q, QueueBounds, CarQueueAssumption
    <3>4. Permits(empty[d]) \in Int
      BY <1>t, TaskSets DEF Permits, Asleep
    <3>5. CASE ~is_empty(queue[d])
      <4>1. Lost(d)' = Lost(d)
        BY <1>4, <2>2, <2>3, <3>3, <3>5 DEF Lost
      <4>2. QED
        BY <1>t, <1>3, <3>1, <3>2, <3>4, <4>1
    <3>6. CASE is_empty(queue[d])
      <4>1. Lost(d) = 0 - Cars(d) /\ Lost(d)' = 0 - (Cars(d) - 1)
        BY <1>4, <2>3, <3>3, <3>6 DEF Lost
      <4>2. \A t \in Task : at[t] # "user" /\ call[t].op = "down" => call[t].sem # full[d]
        BY <1>1, LineCalls
      <4>3. value[full[d]] + signals >= 0
        BY <4>2, NobodyAsleep, Names DEF Base
      <4>4. Cars(d) >= value[full[d]] + 1
        BY <1>t, <2>1 DEF Cars, One
      <4>5. QED
        BY <1>t, <1>3, <2>2, <3>1, <3>2, <3>4, <4>1, <4>3, <4>4
    <3>7. QED
      BY <3>5, <3>6
  <2>6. QED
    BY <1>1, <2>4, <2>5 DEF QueueLedger
<1>6. ASSUME NEW e \in Side, e # d PROVE PlaceLedger(e)' /\ QueueLedger(e)' /\ WellFormed(queue'[e])
  <2>1. Leaving(e)' = Leaving(e) /\ Gone(e)' = Gone(e)
    BY <1>d, <1>1, <1>6 DEF Leaving, Gone
  <2>2. Cars(e)' = Cars(e) /\ Free(e)' = Free(e)
    BY <1>1, <1>3, <2>1 DEF Cars, Free
  <2>3. QED
    BY <1>q, <1>1, <1>2, <1>3, <1>6, <2>1, <2>2, LedgerSame
<1>7. queue' \in [Side -> [car : [Slot -> Int], front : Slot \cup {-1},
                           rear : Slot \cup {-1}, size : Int]]
  <2>1. Dequeued(queue[d])
          \in [car : [Slot -> Int], front : Slot \cup {-1}, rear : Slot \cup {-1}, size : Int]
    BY <1>2, <1>4 DEF WellFormed
  <2>2. QED
    BY <1>q, <1>1, <2>1
<1>8. QED
  BY <1>q, <1>1, <1>4, <1>5, <1>6, <1>7 DEF QueueInv

\* What fits after a signal fitted before it.
LEMMA FewerSignals ==
  ASSUME NEW n \in Nat, NEW m \in Nat, NEW a \in Nat, NEW b \in Nat, b >= a, n + b <= m
  PROVE  n + a <= m
OBVIOUS

\* No step breaks the ledgers.
LEMMA QueueStep ==
  ASSUME Base, QueueInv, [ProdConsNext]_vars
  PROVE  QueueInv'
<1>q. /\ \A e \in Side : WellFormed(queue[e]) /\ PlaceLedger(e) /\ QueueLedger(e)
      /\ queue \in [Side -> [car : [Slot -> Int], front : Slot \cup {-1},
                             rear : Slot \cup {-1}, size : Int]]
      /\ total_car \in [Side -> Int]
  BY DEF QueueInv
<1>1. CASE SomeCall
  <2>1. ASSUME NEW d \in Side PROVE PlaceLedger(d)' /\ QueueLedger(d)'
    BY <1>q, <1>1, CallQueues, LedgerSame
  <2>2. UNCHANGED <<queue, total_car>>
    BY <1>1, CallQueues DEF Side
  <2>3. QED
    BY <1>q, <2>1, <2>2 DEF QueueInv
<1>2. CASE Look
  <2>1. PICK to \in {"nap_north", "nap_south", "north_size", "south_size", "down_full"} :
          pc' = [pc EXCEPT !["flag"] = to]
    BY <1>2, Looks
  <2>2. /\ "flag" \notin Pending /\ Pending' = Pending
        /\ UNCHANGED <<value, signals, at, call, state, queue, total_car>>
        /\ pc["flag"] \in {"nap_north", "nap_south", "north_size", "south_size"}
    BY <1>2, Looks DEF kernelVars
  <2>3. pc'["flag"] = to /\ \A e \in Side : pc'[e] = pc[e]
    BY <2>1, Names DEF Base
  <2>4. ASSUME NEW d \in Side PROVE PlaceLedger(d)' /\ QueueLedger(d)'
    <3>1. /\ ~Leaving(d)' /\ ~Leaving(d) /\ ~Gone(d)' /\ ~Gone(d)
          /\ Promised(d)' = Promised(d) /\ Arrived(d)' = Arrived(d)
      BY <2>1, <2>2, <2>3 DEF Leaving, Gone, Promised, Arrived
    <3>2. Cars(d)' = Cars(d) /\ Free(d)' = Free(d)
      BY <2>2, <3>1 DEF Cars, Free, One
    <3>3. Gone(d)' = Gone(d)
      BY <3>1 DEF Gone
    <3>4. Permits(empty[d])' = Permits(empty[d])
      BY <2>2 DEF Permits, Asleep
    <3>5. QED
      BY <1>q, <2>2, <3>2, <3>3, <3>4, LedgerSame
  <2>5. QED
    BY <1>q, <2>2, <2>4 DEF QueueInv
<1>3. CASE UNCHANGED vars
  <2>1. UNCHANGED <<value, at, call, state, signals, pc, queue, total_car, serving>>
    BY <1>3 DEF vars, kernelVars, carVars
  <2>2. ASSUME NEW d \in Side PROVE PlaceLedger(d)' /\ QueueLedger(d)'
    <3>1. /\ Cars(d)' = Cars(d) /\ Free(d)' = Free(d) /\ Gone(d)' = Gone(d)
          /\ Permits(empty[d])' = Permits(empty[d])
      BY <2>1 DEF Cars, Free, Leaving, Gone, Promised, Arrived, Pending, Permits, Asleep
    <3>2. QED
      BY <1>q, <2>1, <3>1, LedgerSame
  <2>3. QED
    BY <1>q, <2>1, <2>2 DEF QueueInv
<1>4. ASSUME NEW t \in Task, InKernel(t) \/ Interrupted(t) PROVE QueueInv'
  <2>0. IInv /\ (KernelStep(t) \/ Signal(t)) /\ UNCHANGED <<queue, total_car>>
    BY <1>4 DEF Base, InKernel, Interrupted, carVars
  <2>1. signals \in Nat /\ signals' \in Nat /\ signals' >= signals
    BY <2>0, SignalsGrow
  <2>2. ASSUME NEW d \in Side PROVE PlaceLedger(d)' /\ QueueLedger(d)'
    <3>1. Cars(d)' = Cars(d) /\ Free(d)' = Free(d)
      BY <1>4, KernelLines
    <3>2. PlaceLedger(d)'
      BY <1>q, <3>1 DEF PlaceLedger
    <3>3. Lost(d)' = Lost(d)
      BY <2>0, <3>1 DEF Lost
    <3>4. ASSUME N + signals' <= MAX_QUEUE_SIZE
          PROVE  /\ Lost(d) \in 0..signals'
                 /\ Permits(empty[d])' + One(Gone(d)') + signals' >= Lost(d)
      <4>0. N \in Nat /\ MAX_QUEUE_SIZE \in Nat
        BY ProdConsAssumption, CarQueueAssumption
      <4>1. N + signals <= MAX_QUEUE_SIZE
        BY <2>1, <3>4, <4>0, FewerSignals
      <4>2. /\ Lost(d) \in 0..signals
            /\ Permits(empty[d]) + One(Gone(d)) + signals >= Lost(d)
        BY <1>q, <4>1 DEF QueueLedger
      <4>3. /\ Permits(empty[d]) \in Int /\ Permits(empty[d])' \in Int
            /\ IF t \in Pending /\ t \notin Pending' /\ call[t].op = "up" /\ call[t].sem = empty[d]
                 THEN Permits(empty[d])' = Permits(empty[d]) + 1 /\ signals' = signals
                 ELSE \/ Permits(empty[d])' >= 0
                      \/ Permits(empty[d])' + signals' >= Permits(empty[d]) + signals
        BY <2>0, PermitsSummary, Names
      <4>4. CASE t \in Pending /\ t \notin Pending' /\ call[t].op = "up" /\ call[t].sem = empty[d]
        <5>1. One(Gone(d)) = 1 /\ One(Gone(d)') = 0
          BY <1>4, <4>4, KernelGone DEF One
        <5>2. QED
          BY <2>1, <4>2, <4>3, <4>4, <5>1
      <4>5. CASE ~(t \in Pending /\ t \notin Pending' /\ call[t].op = "up" /\ call[t].sem = empty[d])
        <5>1. Gone(d)' = Gone(d)
          BY <1>4, <4>5, KernelGone
        <5>2. One(Gone(d)') = One(Gone(d)) /\ One(Gone(d)) \in {0, 1}
          BY <5>1 DEF One
        <5>3. QED
          BY <2>1, <4>2, <4>3, <4>5, <5>2
      <4>6. QED
        BY <4>4, <4>5
    <3>5. QED
      BY <3>2, <3>3, <3>4 DEF QueueLedger
  <2>3. QED
    BY <1>q, <2>0, <2>2 DEF QueueInv
<1>5. QED
  BY <1>1, <1>2, <1>3, <1>4, Kinds, ArriveStep, LeaveStep DEF SomeLocal

\* main() starts with two empty queues, N free places in each and no car.
LEMMA QueueInit == ProdConsInit => QueueInv
<1> SUFFICES ASSUME ProdConsInit PROVE QueueInv
  OBVIOUS
<1>0. /\ N \in Nat /\ MAX_QUEUE_SIZE \in Nat /\ N > 0 /\ MAX_QUEUE_SIZE > 0
      /\ Side \subseteq Task /\ "flag" \in Task /\ "flag" \notin Side
  BY ProdConsAssumption, CarQueueAssumption, Names
<1>1. /\ NewQueue \in [car : [Slot -> Int], front : Slot \cup {-1},
                       rear : Slot \cup {-1}, size : Int]
      /\ NewQueue.front = -1 /\ NewQueue.rear = -1
  BY DEF NewQueue
<1>2. WellFormed(NewQueue) /\ Length(NewQueue) = 0
  BY <1>1 DEF WellFormed, Length, is_empty
<1>3. queue = [d \in Side |-> NewQueue] /\ total_car = [d \in Side |-> 1]
  BY DEF ProdConsInit
<1>4. /\ pc = [t \in Task |-> IF t = "flag" THEN "nap_north" ELSE "down_empty"]
      /\ at = [t \in Task |-> "user"] /\ signals = 0 /\ value = InitialValues
  BY ProdConsAssumption DEF ProdConsInit, KernelInit
<1>5. Pending = {} /\ \A s \in Sem : Asleep(s) = {}
  BY <1>4 DEF Pending, Asleep
<1>6. ASSUME NEW d \in Side PROVE WellFormed(queue[d]) /\ PlaceLedger(d) /\ QueueLedger(d)
  <2>1. ~Promised(d) /\ ~Arrived(d) /\ ~Leaving(d) /\ ~Gone(d)
    BY <1>0, <1>4, <1>5 DEF Promised, Arrived, Leaving, Gone
  <2>2. value[full[d]] = 0 /\ value[empty[d]] = N
    BY <1>4 DEF InitialValues, Semaphores, full, empty, Side
  <2>3. Cars(d) = 0 /\ Free(d) = N
    BY <1>0, <2>1, <2>2 DEF Cars, Free, One
  <2>4. queue[d] = NewQueue
    BY <1>3
  <2>5. Lost(d) = 0
    BY <1>2, <2>3, <2>4 DEF Lost
  <2>6. Asleep(empty[d]) = {}
    BY <1>5, Names
  <2>7. Permits(empty[d]) = N
    BY <1>0, <2>2, <2>6, FS_EmptySet DEF Permits
  <2>8. One(Gone(d)) = 0
    BY <2>1 DEF One
  <2>9. PlaceLedger(d)
    BY <1>0, <2>3 DEF PlaceLedger
  <2>10. QueueLedger(d)
    BY <1>0, <1>4, <2>5, <2>7, <2>8 DEF QueueLedger
  <2>11. QED
    BY <1>2, <2>4, <2>9, <2>10
<1>7. /\ queue \in [Side -> [car : [Slot -> Int], front : Slot \cup {-1},
                             rear : Slot \cup {-1}, size : Int]]
      /\ total_car \in [Side -> Int]
  BY <1>1, <1>3
<1>8. QED
  BY <1>6, <1>7 DEF QueueInv

\* The ledgers hold all the time.
LEMMA QueueInvariance == ProdConsSpec => [](Base /\ QueueInv)
<1>1. Base /\ QueueInv /\ [ProdConsNext]_vars => (Base /\ QueueInv)'
  BY BaseStep, QueueStep
<1>2. QED
  BY <1>1, BaseInit, QueueInit, PTL DEF ProdConsSpec

(***************************************************************************)
(* For any N and any size of the array with room for N cars and one more   *)
(* for every signal: enqueue() of prodcons.c never drops a car, and        *)
(* without signals dequeue() never finds the queue empty.                  *)
(***************************************************************************)
THEOREM QueuesFit == ProdConsSpec => []QueueFits
<1>1. ASSUME Base, QueueInv PROVE QueueFits
  <2>1. ASSUME N + signals <= MAX_QUEUE_SIZE, NEW d \in Side,
               pc[d] = "enqueue", at[d] = "user"
        PROVE  ~is_full(queue[d])
    BY <1>1, <2>1, RoomForCar
  <2>2. ASSUME N + signals <= MAX_QUEUE_SIZE, signals = 0,
               pc["flag"] = "dequeue", at["flag"] = "user"
        PROVE  ~is_empty(queue[serving])
    <3>d. PICK d \in Side : d = serving
      BY <1>1 DEF Base
    <3>1. \A t \in Task : at[t] # "user" /\ call[t].op = "down" => call[t].sem # full[d]
      BY <1>1, <2>2, LineCalls
    <3>2. value[full[d]] + signals >= 0
      BY <1>1, <3>1, NobodyAsleep, Names DEF Base
    <3>3. value[full[d]] \in Int /\ Cars(d) \in Int
      BY <1>1, CountTypes
    <3>4. Leaving(d)
      BY <2>2, <3>d DEF Leaving
    <3>5. Cars(d) >= value[full[d]] + 1
      BY <3>3, <3>4 DEF Cars, One
    <3>6. Lost(d) \in 0..signals /\ WellFormed(queue[d])
      BY <1>1, <2>2 DEF QueueInv, QueueLedger
    <3>7. Length(queue[d]) \in 0..MAX_QUEUE_SIZE /\ (is_empty(queue[d]) <=> Length(queue[d]) = 0)
      BY <3>6, QueueBounds
    <3>8. Length(queue[d]) # 0
      BY <2>2, <3>2, <3>3, <3>5, <3>6, <3>7 DEF Lost
    <3>9. QED
      BY <3>d, <3>7, <3>8
  <2>3. QED
    BY <2>1, <2>2 DEF QueueFits
<1>2. QED
  BY <1>1, QueueInvariance, PTL

\* A set with at most one possible member.
LEMMA AtMostOne ==
  ASSUME NEW S, NEW x, NEW b \in BOOLEAN, \A y \in S : y = x /\ b
  PROVE  Cardinality(S) \in 0..One(b)
<1>1. S = {} \/ (S = {x} /\ b)
  OBVIOUS
<1>2. CASE S = {}
  BY <1>2, FS_EmptySet DEF One
<1>3. CASE S = {x} /\ b
  BY <1>3, FS_Singleton DEF One
<1>4. QED
  BY <1>1, <1>2, <1>3

(***************************************************************************)
(* For any N and any size of the array with room for N cars and one more   *)
(* for every signal: the semaphores and the queues of prodcons.c agree on  *)
(* the cars that wait, whatever the flagperson read without the mutex.     *)
(***************************************************************************)
THEOREM CarsAreAccounted == ProdConsSpec => []Accounted
<1>1. ASSUME Base, QueueInv, N + signals <= MAX_QUEUE_SIZE, NEW d \in Side
      PROVE  /\ Length(queue[d]) <= N - Permits(empty[d]) + signals
             /\ Permits(full[d]) <= Length(queue[d])
  <2>0. /\ value[full[d]] \in Int /\ value[empty[d]] \in Int /\ Cars(d) \in Int
        /\ N \in Nat /\ signals \in Nat /\ MAX_QUEUE_SIZE \in Nat
    BY <1>1, CountTypes, ProdConsAssumption, CarQueueAssumption DEF Base, IInv, TypeOK
  <2>1. Length(queue[d]) \in Int
    <3>1. WellFormed(queue[d])
      BY <1>1 DEF QueueInv
    <3>2. QED
      BY <2>0, <3>1, QueueBounds
  <2>2. Lost(d) \in 0..signals /\ PlaceLedger(d)
    BY <1>1 DEF QueueInv, QueueLedger
  <2>3. ASSUME NEW s \in Sem, NEW t \in Asleep(s)
        PROVE  t \in Task /\ at[t] # "user" /\ t \notin Pending
               /\ call[t].op = "down" /\ call[t].sem = s
    BY <1>1, <2>3 DEF Asleep, Pending, Base, IInv, OnlyDownsSleep
  <2>4. Cardinality(Asleep(empty[d])) \in 0..One(Promised(d))
    <3>1. \A y \in Asleep(empty[d]) : y = d /\ Promised(d)
      <4>1. ASSUME NEW y \in Asleep(empty[d]) PROVE y = d /\ Promised(d)
        <5>1. /\ y \in Task /\ at[y] # "user" /\ y \notin Pending
              /\ call[y].op = "down" /\ call[y].sem = empty[d]
          BY <2>3, <4>1, Names
        <5>2. y = d /\ pc[y] = "down_mutex"
          BY <1>1, <5>1, LineCalls
        <5>3. QED
          BY <5>1, <5>2 DEF Promised
      <4>2. QED
        BY <4>1
    <3>2. Promised(d) \in BOOLEAN
      BY DEF Promised
    <3>3. QED
      BY <3>1, <3>2, AtMostOne
  <2>5. Cardinality(Asleep(full[d])) \in 0..One(Leaving(d))
    <3>1. \A y \in Asleep(full[d]) : y = "flag" /\ Leaving(d)
      <4>1. ASSUME NEW y \in Asleep(full[d]) PROVE y = "flag" /\ Leaving(d)
        <5>1. /\ y \in Task /\ at[y] # "user" /\ y \notin Pending
              /\ call[y].op = "down" /\ call[y].sem = full[d]
          BY <2>3, <4>1, Names
        <5>2. y = "flag" /\ pc[y] = "down_mutex" /\ d = serving
          BY <1>1, <5>1, LineCalls
        <5>3. QED
          BY <5>1, <5>2 DEF Leaving
      <4>2. QED
        BY <4>1
    <3>2. Leaving(d) \in BOOLEAN
      BY DEF Leaving
    <3>3. QED
      BY <3>1, <3>2, AtMostOne
  <2>6. /\ One(Promised(d)) \in {0, 1} /\ One(Gone(d)) \in {0, 1}
        /\ One(Arrived(d)) \in {0, 1} /\ One(Leaving(d)) \in {0, 1}
    BY DEF One
  <2>7. Length(queue[d]) <= N - Permits(empty[d]) + signals
    BY <2>0, <2>1, <2>2, <2>4, <2>6 DEF Lost, PlaceLedger, Free, Permits
  <2>8. Permits(full[d]) <= Length(queue[d])
    BY <2>0, <2>1, <2>2, <2>5, <2>6 DEF Lost, Cars, Permits
  <2>9. QED
    BY <2>7, <2>8
<1>2. Base /\ QueueInv => Accounted
  BY <1>1 DEF Accounted
<1>3. QED
  BY <1>2, QueueInvariance, PTL
=============================================================================
