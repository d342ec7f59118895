------------------------------- MODULE Rlimits -------------------------------
(***************************************************************************)
(* The resource limits of one process and the calls of kernel/sys.c that   *)
(* read and change them: from its own threads, natively, in the 32-bit ABI *)
(* or in the ABI before that, and from other processes with prlimit64.     *)
(* do_prlimit changes a limit under task_lock but arms the CPU timer after *)
(* it has let go of the lock.                                              *)
(***************************************************************************)
EXTENDS Naturals

CONSTANTS
  Callers,            \* threads that make calls on the limits of the process
  Own,                \* those of them that belong to the process
  IdMatch,            \* those whose ids equal all ids of the process
  ResourceCapable,    \* those with CAP_SYS_RESOURCE
  Resources,          \* RLIMIT_NOFILE, RLIMIT_CPU, ...; below RLIM_NLIMITS
  NrOpen,             \* sysctl_nr_open
  OLD_MAX,            \* 0x7FFFFFFF
  COMPAT_RLIM_INFINITY,
  RLIM_INFINITY,      \* ULONG_MAX
  RLIM64_INFINITY     \* equal to RLIM_INFINITY when a long has 64 bits

ASSUME RlimAssumption ==
  /\ {OLD_MAX, COMPAT_RLIM_INFINITY, RLIM_INFINITY, RLIM64_INFINITY, NrOpen} \subseteq Nat
  /\ OLD_MAX <= COMPAT_RLIM_INFINITY /\ COMPAT_RLIM_INFINITY <= RLIM_INFINITY
  /\ RLIM_INFINITY <= RLIM64_INFINITY
  /\ NrOpen <= RLIM_INFINITY
  /\ "RLIMIT_CPU" \in Resources

VARIABLES
  rlim,       \* signal->rlim
  cpuTimer,   \* when the CPU timer of the process will look at its limit
  alive,      \* tsk->sighand is still there
  rlimCall,   \* where each caller is
  rlimRet     \* what the last call returned or wrote

rlimVars == <<rlim, cpuTimer, alive, rlimCall, rlimRet>>

Limits == 0 .. RLIM_INFINITY
Pairs == [cur : Limits, max : Limits]
NoPair == [cur |-> 0, max |-> 0]
NoCall == [pc |-> "idle", res |-> "none", change |-> FALSE, new |-> NoPair]

\* Few open files, no limit on anything else.
FirstLimit(r) ==
  IF r = "RLIMIT_NOFILE" THEN [cur |-> 0, max |-> NrOpen]
  ELSE [cur |-> RLIM_INFINITY, max |-> RLIM_INFINITY]

RlimInit ==
  /\ rlim = [r \in Resources |-> FirstLimit(r)]
  /\ cpuTimer = RLIM_INFINITY
  /\ alive = TRUE
  /\ rlimCall = [c \in Callers |-> NoCall]
  /\ rlimRet = 0

-----------------------------------------------------------------------------
\* The forms a limit takes on its way in and out, for one value x and for
\* a pair p.
Least(x, y) == IF x < y THEN x ELSE y
CompatIn(x) == IF x = COMPAT_RLIM_INFINITY THEN RLIM_INFINITY ELSE x

FromCompat(p) == [cur |-> CompatIn(p.cur), max |-> CompatIn(p.max)]

\* Mutant: only the soft limit is cut to 32 bits.
ToCompat_SoftOnly(p) == [p EXCEPT !.max = p.max % COMPAT_RLIM_INFINITY]

ToCompat(p) ==
  [cur |-> Least(p.cur, COMPAT_RLIM_INFINITY), max |-> Least(p.max, COMPAT_RLIM_INFINITY)]

ToOld(p) == [cur |-> Least(p.cur, OLD_MAX), max |-> Least(p.max, OLD_MAX)]

rlim64_is_infinity(x) ==
  IF RLIM_INFINITY < RLIM64_INFINITY THEN x >= RLIM_INFINITY ELSE x = RLIM64_INFINITY

Rlim64Out(x) == IF x = RLIM_INFINITY THEN RLIM64_INFINITY ELSE x
Rlim64In(x) == IF rlim64_is_infinity(x) THEN RLIM_INFINITY ELSE x

rlim_to_rlim64(p) == [cur |-> Rlim64Out(p.cur), max |-> Rlim64Out(p.max)]

rlim64_to_rlim(p) == [cur |-> Rlim64In(p.cur), max |-> Rlim64In(p.max)]

-----------------------------------------------------------------------------
\* A call up to the point where do_prlimit starts.
Start(c, res, change, new) ==
  /\ rlimCall[c] = NoCall
  /\ rlimCall' = [rlimCall EXCEPT ![c] = [pc |-> "do", res |-> res, change |-> change, new |-> new]]
  /\ UNCHANGED <<rlim, cpuTimer, alive, rlimRet>>

setrlimit(c, res, new) == c \in Own /\ Start(c, res, TRUE, new)

compat_setrlimit(c, res, new32) ==
  /\ c \in Own
  /\ Start(c, res, TRUE, FromCompat(new32))

check_prlimit_permission(c) == c \in Own \/ c \in IdMatch \/ c \in ResourceCapable

\* The permission is checked under the RCU lock and kept for the whole call;
\* a caller without it, or a process that is gone, gets an error here.
prlimit64(c, res, change, new64) ==
  /\ check_prlimit_permission(c)
  /\ Start(c, res, change, rlim64_to_rlim(new64))

\* Mutant: the new hard limit is compared with the old one only.
DoError_HardOnly(c, res, new) ==
  IF new.max > rlim[res].max /\ c \notin ResourceCapable THEN "EPERM" ELSE "OK"

\* The checks of do_prlimit, in its order.
DoError(c, res, new) ==
  CASE new.cur > new.max -> "EINVAL"
    [] res = "RLIMIT_NOFILE" /\ new.max > NrOpen -> "EPERM"
    [] ~alive -> "ESRCH"
    [] new.max > rlim[res].max /\ c \notin ResourceCapable -> "EPERM"
    [] OTHER -> "OK"

\* Mutant: the hard limit is looked at instead of the soft limit.
NeedsTimer_HardLimit(res, new) == res = "RLIMIT_CPU" /\ new.max # RLIM_INFINITY

NeedsTimer(res, new) == res = "RLIMIT_CPU" /\ new.cur # RLIM_INFINITY

Finish(c, ret) ==
  /\ rlimCall' = [rlimCall EXCEPT ![c] = NoCall]
  /\ rlimRet' = ret

\* do_prlimit: the pair is read, or a new one written, in one step under
\* task_lock; a security module may refuse a change.
do_prlimit(c) ==
  /\ rlimCall[c].pc = "do"
  /\ LET res == rlimCall[c].res
         new == rlimCall[c].new
     IN \/ /\ ~rlimCall[c].change /\ alive
           /\ Finish(c, rlim_to_rlim64(rlim[res]))
           /\ UNCHANGED <<rlim, cpuTimer, alive>>
        \/ /\ rlimCall[c].change \/ ~alive
           /\ Finish(c, CASE rlimCall[c].change /\ DoError(c, res, new) # "OK" -> DoError(c, res, new)
                       [] ~rlimCall[c].change -> "ESRCH"
                       [] OTHER -> "EACCES")
           /\ UNCHANGED <<rlim, cpuTimer, alive>>
        \/ /\ rlimCall[c].change /\ DoError(c, res, new) = "OK"
           /\ rlim' = [rlim EXCEPT ![res] = new]
           /\ IF NeedsTimer(res, new)
              THEN /\ rlimCall' = [rlimCall EXCEPT ![c].pc = "arm"]
                   /\ UNCHANGED rlimRet
              ELSE Finish(c, "OK")
           /\ UNCHANGED <<cpuTimer, alive>>

\* update_rlimit_cpu only ever brings the next look forward.
Armed(timer, cur) == Least(timer, cur)

update_rlimit_cpu(c) ==
  /\ rlimCall[c].pc = "arm"
  /\ cpuTimer' = Armed(cpuTimer, rlimCall[c].new.cur)
  /\ Finish(c, "OK")
  /\ UNCHANGED <<rlim, alive>>

\* The timer fires: it looks at the limit and is set for the next look.
TimerFires ==
  /\ alive
  /\ cpuTimer' = rlim["RLIMIT_CPU"].cur
  /\ UNCHANGED <<rlim, alive, rlimCall, rlimRet>>

\* The reads that do not go through a pending call.
Read(c, res, form) ==
  /\ c \in Own /\ rlimCall[c] = NoCall /\ alive
  /\ rlimRet' = form
  /\ UNCHANGED <<rlim, cpuTimer, alive, rlimCall>>

getrlimit(c, res) == Read(c, res, rlim[res])
compat_getrlimit(c, res) == Read(c, res, ToCompat(rlim[res]))
old_getrlimit(c, res) == Read(c, res, ToOld(rlim[res]))
compat_old_getrlimit(c, res) == Read(c, res, ToCompat(ToOld(rlim[res])))

\* The process is released with tasklist_lock held for writing; do_prlimit
\* holds it for reading until the timer is armed.
Die ==
  /\ alive
  /\ \A c \in Callers : rlimCall[c].pc # "arm"
  /\ alive' = FALSE
  /\ UNCHANGED <<rlim, cpuTimer, rlimCall, rlimRet>>

Pairs32 == [cur : 0..COMPAT_RLIM_INFINITY, max : 0..COMPAT_RLIM_INFINITY]
Pairs64 == [cur : 0..RLIM64_INFINITY, max : 0..RLIM64_INFINITY]

RlimNext ==
  \/ \E c \in Callers :
       \/ \E res \in Resources :
            \/ \E new \in Pairs : setrlimit(c, res, new)
            \/ \E new32 \in Pairs32 : compat_setrlimit(c, res, new32)
            \/ \E new64 \in Pairs64 : prlimit64(c, res, TRUE, new64)
            \/ prlimit64(c, res, FALSE, NoPair)
            \/ getrlimit(c, res) \/ compat_getrlimit(c, res)
            \/ old_getrlimit(c, res) \/ compat_old_getrlimit(c, res)
       \/ do_prlimit(c) \/ update_rlimit_cpu(c)
  \/ TimerFires \/ Die

RlimSpec == RlimInit /\ [][RlimNext]_rlimVars

-----------------------------------------------------------------------------
Call == [pc : {"idle", "do", "arm"}, res : Resources \cup {"none"}, change : BOOLEAN, new : Pairs]

\* Limits are pairs of longs and a call that is under way names a resource;
\* only calls on the CPU limit go on to arm the timer.
RlimTypeOK ==
  /\ rlim \in [Resources -> Pairs]
  /\ cpuTimer \in Limits
  /\ alive \in BOOLEAN
  /\ rlimCall \in [Callers -> Call]
  /\ \A c \in Callers :
       /\ rlimCall[c].pc # "idle" => rlimCall[c].res \in Resources
       /\ rlimCall[c].pc = "arm" => rlimCall[c].res = "RLIMIT_CPU"

\* In every interleaving of callers and ABIs the soft limit stays within the
\* hard limit, and the files a process may open within sysctl_nr_open.
SoftWithinHard ==
  \A r \in Resources :
    /\ rlim[r].cur <= rlim[r].max
    /\ r = "RLIMIT_NOFILE" => rlim[r].max <= NrOpen

\* "Arm the posix CPU timer if the limit is not infite": although the timer
\* is armed after task_lock is gone, and in any order by racing callers, it
\* never looks later than the soft limit in force, unless a caller is just
\* about to bring it forward.
CpuTimerArmed ==
  LET cur == rlim["RLIMIT_CPU"].cur
  IN cur # RLIM_INFINITY =>
       \/ cpuTimer <= cur
       \/ \E c \in Callers : rlimCall[c].pc = "arm" /\ rlimCall[c].new.cur <= cur

\* Every ABI shows an ordered pair; what prlimit64 shows can be handed back
\* without changing the limit, and so can what the 32-bit ABI shows, as long
\* as the limit is infinite or has 32 bits.
AbisAgree ==
  \A r \in Resources :
    /\ ToCompat(rlim[r]).cur <= ToCompat(rlim[r]).max
    /\ ToOld(rlim[r]).cur <= ToOld(rlim[r]).max
    /\ rlim64_to_rlim(rlim_to_rlim64(rlim[r])) = rlim[r]
    /\ \A x \in {rlim[r].cur, rlim[r].max} :
         x < COMPAT_RLIM_INFINITY \/ x = RLIM_INFINITY => CompatIn(Least(x, COMPAT_RLIM_INFINITY)) = x
=============================================================================
