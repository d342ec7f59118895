------------------------------ MODULE Priority ------------------------------
(***************************************************************************)
(* setpriority and getpriority of kernel/sys.c.  Both walk over a set of   *)
(* tasks under the read side of tasklist_lock, so two walks interleave     *)
(* task by task, and the check of one task and the change of its nice      *)
(* value are two steps.                                                    *)
(***************************************************************************)
EXTENDS Integers, FiniteSetsExt

CONSTANTS
  PrioTasks,          \* the tasks, all of them in the caller's pid namespace
  PrioPgrp,           \* PrioPgrp[t]: process group
  PrioUid, PrioEuid,  \* real and effective uid
  NiceCapable,        \* the tasks with CAP_SYS_NICE
  NiceLimit,          \* NiceLimit[t]: the lowest nice value RLIMIT_NICE lets t have
  Who,                \* the arguments who: "self" for 0, pids, groups and uids
  MIN_NICE, MAX_NICE,
  NiceArgs            \* the nice values asked for, some out of range

\* 0, the value a task starts with, is in the range: -20 to 19 in the code.
ASSUME PriorityAssumption ==
  /\ MIN_NICE \in Int /\ MAX_NICE \in Nat /\ MIN_NICE <= 0
  /\ NiceArgs \subseteq Int
  /\ NiceLimit \in [PrioTasks -> Int]

VARIABLES
  nice,       \* static_prio of each task
  granted,    \* history: the lowest value each task was ever lowered to by right
  walk        \* the call each task is in

prioVars == <<nice, granted, walk>>

NiceRange == MIN_NICE .. MAX_NICE
NoWalk == [op |-> "none"]

PrioInit ==
  /\ nice = [t \in PrioTasks |-> 0]
  /\ granted = nice
  /\ walk = [t \in PrioTasks |-> NoWalk]

\* The tasks a call is about; who = 0, here "self", means the caller's own.
Selected(c, which, who) ==
  CASE which = "PRIO_PROCESS" -> {t \in PrioTasks : t = IF who = "self" THEN c ELSE who}
    [] which = "PRIO_PGRP" -> {t \in PrioTasks : PrioPgrp[t] = IF who = "self" THEN PrioPgrp[c] ELSE who}
    [] which = "PRIO_USER" -> {t \in PrioTasks : PrioUid[t] = IF who = "self" THEN PrioUid[c] ELSE who}

Clamp(n) == Max({MIN_NICE, Min({MAX_NICE, n})})

\* An unknown which returns -EINVAL before anything else.
setpriority(c, which, who, n) ==
  /\ walk[c] = NoWalk
  /\ walk' = [walk EXCEPT ![c] =
       [op |-> "set", nice |-> Clamp(n), error |-> "ESRCH", sel |-> Selected(c, which, who),
        todo |-> Selected(c, which, who), done |-> {}, checked |-> {}]]
  /\ UNCHANGED <<nice, granted>>

set_one_prio_perm(c, p) ==
  \/ PrioEuid[c] \in {PrioUid[p], PrioEuid[p]}
  \/ c \in NiceCapable

can_nice(c, p, n) == n >= NiceLimit[p] \/ c \in NiceCapable

\* Mutant: lowering a nice value needs no right.
Refused_FreeLowering(c, p) == ~set_one_prio_perm(c, p)

\* Why set_one_prio leaves p alone.
Refused(c, p) ==
  \/ ~set_one_prio_perm(c, p)
  \/ walk[c].nice < nice[p] /\ ~can_nice(c, p, walk[c].nice)

\* A task that is refused, by these checks or by a security module, goes
\* into the result and the walk goes on.
Refuse(c, p) ==
  /\ walk' = [walk EXCEPT ![c].todo = @ \ {p},
       ![c].error = CASE ~set_one_prio_perm(c, p) -> "EPERM"
                      [] set_one_prio_perm(c, p) /\ Refused(c, p) -> "EACCES"
                      [] ~Refused(c, p) -> "ELSM"]
  /\ UNCHANGED <<nice, granted>>

\* The first part of set_one_prio: all checks of p are passed.
Check(c, p) ==
  /\ ~Refused(c, p)
  /\ walk' = [walk EXCEPT ![c].todo = @ \ {p}, ![c].checked = {p}]
  /\ UNCHANGED nice
  /\ granted' = IF can_nice(c, p, walk[c].nice)
                THEN [granted EXCEPT ![p] = Min({@, walk[c].nice})] ELSE granted

\* Mutant: a success hides an earlier failure.
NewError_Forgets(error) == "OK"

NewError(error) == IF error = "ESRCH" THEN "OK" ELSE error

\* The second part: only the first success turns -ESRCH into 0.
SetUserNice(c, p) ==
  /\ nice' = [nice EXCEPT ![p] = walk[c].nice]
  /\ walk' = [walk EXCEPT ![c].checked = {}, ![c].done = @ \cup {p},
                          ![c].error = NewError(@)]
  /\ UNCHANGED granted

set_one_prio(c) ==
  /\ walk[c].op = "set"
  /\ \/ \E p \in walk[c].todo : walk[c].checked = {} /\ (Refuse(c, p) \/ Check(c, p))
     \/ \E p \in walk[c].checked : SetUserNice(c, p)

\* getpriority answers with the best priority, 1 for the nicest task, and
\* keeps -ESRCH (here 0, below every answer) while it has seen no task.
nice_to_rlimit(n) == MAX_NICE - n + 1

getpriority(c, which, who) ==
  /\ walk[c] = NoWalk
  /\ walk' = [walk EXCEPT ![c] =
       [op |-> "get", best |-> 0, sel |-> Selected(c, which, who), todo |-> Selected(c, which, who)]]
  /\ UNCHANGED <<nice, granted>>

Look(c) ==
  /\ walk[c].op = "get"
  /\ \E p \in walk[c].todo :
       walk' = [walk EXCEPT ![c].todo = @ \ {p}, ![c].best = Max({@, nice_to_rlimit(nice[p])})]
  /\ UNCHANGED <<nice, granted>>

Finished(c) == walk[c].op # "none" /\ walk[c].todo = {} /\ (walk[c].op = "set" => walk[c].checked = {})

Return(c) ==
  /\ Finished(c)
  /\ walk' = [walk EXCEPT ![c] = NoWalk]
  /\ UNCHANGED <<nice, granted>>

Whiches == {"PRIO_PROCESS", "PRIO_PGRP", "PRIO_USER"}

PrioNext ==
  \E c \in PrioTasks :
    \/ \E which \in Whiches, who \in Who :
         getpriority(c, which, who) \/ \E n \in NiceArgs : setpriority(c, which, who, n)
    \/ set_one_prio(c) \/ Look(c) \/ Return(c)

PrioSpec == PrioInit /\ [][PrioNext]_prioVars

-----------------------------------------------------------------------------
\* A setpriority that returns 0 has changed every task it was asked about,
\* and one that returns -ESRCH had none: a failure in the middle of the walk
\* is never covered up by a success before or after it.
ReturnTellsAll ==
  \A c \in PrioTasks : Finished(c) /\ walk[c].op = "set" =>
    /\ walk[c].error = "OK" => walk[c].done = walk[c].sel /\ walk[c].sel # {}
    /\ walk[c].error = "ESRCH" <=> walk[c].sel = {}

\* No interleaving of walks brings a task below the lowest nice value it was
\* ever given by right (or started with): a check that is stale when the
\* value is set can only repeat a priority the task already had.
NoPriorityFromNowhere == \A t \in PrioTasks : nice[t] >= granted[t] /\ nice[t] \in NiceRange
=============================================================================
