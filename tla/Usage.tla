-------------------------------- MODULE Usage --------------------------------
(***************************************************************************)
(* The resource usage of one process: getrusage, times and umask of        *)
(* kernel/sys.c.  The threads count without a lock; a thread that exits    *)
(* folds its count into the process, and a reaped child adds to the two    *)
(* times of the children, both under the siglock (kernel/exit.c).  One     *)
(* counter stands for all counters that accumulate_thread_rusage adds up.  *)
(***************************************************************************)
EXTENDS Naturals, FiniteSets, FiniteSetsExt

CONSTANTS
  UsageThreads,
  MaxTicks,        \* bound on what the process and its children use
  CLOCK,           \* how many units of time are one clock_t
  UMASK_SIZE       \* S_IRWXUGO + 1

ASSUME UsageAssumption == IsFiniteSet(UsageThreads) /\ "unlock" \notin UsageThreads

VARIABLES
  live,            \* the threads there are
  used,            \* the counter of each thread
  folded,          \* the counter of the threads that are gone
  cutime, cstime,  \* user and system time of reaped children
  siglock,         \* its holder: "free", "reap" or "sample"
  sample,          \* the getrusage call in progress, or the last one
  tms,             \* the last times call: what it read of the children
  umask

usageVars == <<live, used, folded, cutime, cstime, siglock, sample, tms, umask>>

\* What the process has really used.
UsedBy(S) == MapThenSumSet(LAMBDA t : used[t], S)
Total == folded + UsedBy(live)

NoSample == [who |-> "none", todo |-> {}, sum |-> 0, cu |-> 0, cs |-> 0, from |-> 0]

UsageInit ==
  /\ live = UsageThreads
  /\ used = [t \in UsageThreads |-> 0]
  /\ folded = 0
  /\ cutime = 0 /\ cstime = 0
  /\ siglock = "free"
  /\ sample = NoSample
  /\ tms = [cu |-> 0, cs |-> 0]
  /\ umask = 0

Tick(t) ==
  /\ t \in live /\ Total < MaxTicks
  /\ used' = [used EXCEPT ![t] = @ + 1]
  /\ UNCHANGED <<live, folded, cutime, cstime, siglock, sample, tms, umask>>

\* __exit_signal: not the last thread, which would end the process.
ThreadExit(t) ==
  /\ t \in live /\ live # {t} /\ siglock = "free"
  /\ live' = live \ {t}
  /\ folded' = folded + used[t]
  /\ used' = [used EXCEPT ![t] = 0]
  /\ UNCHANGED <<cutime, cstime, siglock, sample, tms, umask>>

\* A reaped child has used one tick of each.
ReapUser ==
  /\ siglock = "free" /\ cutime < MaxTicks
  /\ cutime' = cutime + 1
  /\ siglock' = "reap"
  /\ UNCHANGED <<live, used, folded, cstime, sample, tms, umask>>

ReapSystem ==
  /\ siglock = "reap"
  /\ cstime' = cstime + 1
  /\ siglock' = "free"
  /\ UNCHANGED <<live, used, folded, cutime, sample, tms, umask>>

\* Mutant: the siglock is not taken.
lock_task_sighand_Skipped == siglock' = siglock

lock_task_sighand == siglock = "free" /\ siglock' = "sample"

\* getrusage of the process and of its children: the counters of the
\* children first, then, except for RUSAGE_CHILDREN, the folded counter and
\* one thread after the other.
getrusage(who) ==
  /\ who \in {"RUSAGE_SELF", "RUSAGE_CHILDREN", "RUSAGE_BOTH"}
  /\ sample.todo = {}
  /\ lock_task_sighand
  /\ sample' = [who |-> who, from |-> Total,
                cu |-> IF who = "RUSAGE_SELF" THEN 0 ELSE cutime,
                cs |-> IF who = "RUSAGE_SELF" THEN 0 ELSE cstime,
                sum |-> IF who = "RUSAGE_CHILDREN" THEN 0 ELSE folded,
                todo |-> IF who = "RUSAGE_CHILDREN" THEN {"unlock"} ELSE live \cup {"unlock"}]
  /\ UNCHANGED <<live, used, folded, cutime, cstime, tms, umask>>

accumulate_thread_rusage(t) ==
  /\ t \in sample.todo \cap live
  /\ sample' = [sample EXCEPT !.sum = @ + used[t], !.todo = @ \ {t}]
  /\ UNCHANGED <<live, used, folded, cutime, cstime, siglock, tms, umask>>

unlock_task_sighand ==
  /\ "unlock" \in sample.todo /\ sample.todo \cap live = {}
  /\ sample' = [sample EXCEPT !.todo = {}]
  /\ siglock' = IF siglock = "sample" THEN "free" ELSE siglock
  /\ UNCHANGED <<live, used, folded, cutime, cstime, tms, umask>>

\* RUSAGE_THREAD reads the caller's own counter and needs no lock.
getrusage_thread(t) ==
  /\ t \in live /\ sample.todo = {}
  /\ sample' = [NoSample EXCEPT !.who = "RUSAGE_THREAD", !.sum = used[t]]
  /\ UNCHANGED <<live, used, folded, cutime, cstime, siglock, tms, umask>>

\* do_sys_times reads the two times of the children one after the other and
\* without the lock.
TimesUser ==
  /\ tms' = [tms EXCEPT !.cu = cutime \div CLOCK]
  /\ UNCHANGED <<live, used, folded, cutime, cstime, siglock, sample, umask>>

TimesSystem ==
  /\ tms' = [tms EXCEPT !.cs = cstime \div CLOCK]
  /\ UNCHANGED <<live, used, folded, cutime, cstime, siglock, sample, umask>>

\* xchg: the new mask without the bits that are none, the old one returned.
Umask(mask) ==
  /\ umask' = mask % UMASK_SIZE
  /\ UNCHANGED <<live, used, folded, cutime, cstime, siglock, sample, tms>>

UsageNext ==
  \/ \E t \in UsageThreads :
       Tick(t) \/ ThreadExit(t) \/ accumulate_thread_rusage(t) \/ getrusage_thread(t)
  \/ ReapUser \/ ReapSystem
  \/ \E who \in {"RUSAGE_SELF", "RUSAGE_CHILDREN", "RUSAGE_BOTH"} : getrusage(who)
  \/ unlock_task_sighand
  \/ TimesUser \/ TimesSystem
  \/ \E mask \in 0..2 * UMASK_SIZE : Umask(mask)

UsageSpec == UsageInit /\ [][UsageNext]_usageVars

-----------------------------------------------------------------------------
\* Counting while threads count on and exit: the sum of a finished sample
\* lies between what the process had used when the call began and what it
\* has used now, so no thread is counted twice or lost on its way out; and
\* "a sample either gets all the additions of a given child after it's
\* reaped, or none so this sample is before reaping".
SampleIsBracketed ==
  /\ sample.todo = {} /\ sample.who \in {"RUSAGE_SELF", "RUSAGE_BOTH"} =>
       sample.from <= sample.sum /\ sample.sum <= Total
  /\ sample.cu = sample.cs
=============================================================================
