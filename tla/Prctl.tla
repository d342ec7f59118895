-------------------------------- MODULE Prctl --------------------------------
(***************************************************************************)
(* The attributes that prctl sets for the calling task.  A call checks its *)
(* arguments and changes the attribute in one step: only the task itself   *)
(* writes them.  PR_SET_MM and PR_SET_CHILD_SUBREAPER have modules of      *)
(* their own.                                                              *)
(***************************************************************************)
EXTENDS Naturals

CONSTANTS
  Signals,        \* 0 .. _NSIG
  DefaultSlack,   \* default_timer_slack_ns
  SlackArgs, Names16,
  PrctlCapable    \* whether the task has CAP_SYS_RESOURCE

VARIABLES attr, prctlRet

prctlVars == <<attr, prctlRet>>

PrctlInit ==
  /\ attr = [pdeath |-> 0, dumpable |-> 1, comm |-> CHOOSE n \in Names16 : TRUE,
             slack |-> DefaultSlack, mce |-> {}, nnp |-> FALSE, thp |-> FALSE, flusher |-> FALSE]
  /\ prctlRet = [err |-> "OK", value |-> 0]

\* The arguments a call has no use for must be zero.
Change(ok, err, new) ==
  /\ attr' = IF ok THEN new ELSE attr
  /\ prctlRet' = [err |-> IF ok THEN "OK" ELSE err, value |-> 0]

Answer(ok, err, value) ==
  /\ prctlRet' = [err |-> IF ok THEN "OK" ELSE err, value |-> value]
  /\ UNCHANGED attr

SetPdeathsig(sig) == Change(sig \in Signals, "EINVAL", [attr EXCEPT !.pdeath = sig])
GetPdeathsig == Answer(TRUE, "OK", attr.pdeath)

\* SUID_DUMP_DISABLE and SUID_DUMP_USER, not SUID_DUMP_ROOT.
SetDumpable(v) == Change(v \in {0, 1}, "EINVAL", [attr EXCEPT !.dumpable = v])
GetDumpable == Answer(TRUE, "OK", attr.dumpable)

\* Not implemented by the architecture, or by any: -EINVAL.
ArchOption == Answer(FALSE, "EINVAL", 0)
\* The defaults for an architecture without speculation control.
SpeculationCtrl == Answer(FALSE, "EINVAL", 0)

\* A security module may answer the call itself.
LsmAnswers == Answer(FALSE, "EPERM", 0)

GetTidAddress == Answer(TRUE, "OK", "clear_child_tid")
GetTiming == Answer(TRUE, "OK", "PR_TIMING_STATISTICAL")
SetTiming(v) == Answer(v = "PR_TIMING_STATISTICAL", "EINVAL", 0)

\* The name is cut to its buffer when it is copied in; a fault is -EFAULT.
SetName16(name, fault) == Change(~fault, "EFAULT", [attr EXCEPT !.comm = name])
GetName16 == Answer(TRUE, "OK", attr.comm)

\* Any value counts; 0, the only one that is not positive, is the default.
SetTimerslack(v) ==
  Change(TRUE, "OK", [attr EXCEPT !.slack = IF v = 0 THEN DefaultSlack ELSE v])
GetTimerslack == Answer(TRUE, "OK", attr.slack)

\* The flag PF_MCE_PROCESS is set before the policy is looked at, and a
\* policy that is none leaves it set.  extra stands for arguments that
\* should be zero, here also for an operation that is none.
McePolicy(policy) ==
  CASE policy = "EARLY" -> {"PROCESS", "EARLY"}
    [] policy = "LATE" -> {"PROCESS"}
    [] policy = "DEFAULT" -> {}
    [] OTHER -> attr.mce \cup {"PROCESS"}

SetMceKill(clear, policy, extra) ==
  IF extra \/ (clear /\ policy # "ZERO") THEN Answer(FALSE, "EINVAL", 0)
  ELSE /\ attr' = [attr EXCEPT !.mce = IF clear THEN @ \ {"PROCESS"} ELSE McePolicy(policy)]
       /\ prctlRet' = [err |-> IF clear \/ policy \in {"EARLY", "LATE", "DEFAULT"} THEN "OK" ELSE "EINVAL",
                        value |-> 0]

GetMceKill(extra) ==
  Answer(~extra, "EINVAL", IF "PROCESS" \notin attr.mce THEN "DEFAULT"
                           ELSE IF "EARLY" \in attr.mce THEN "EARLY" ELSE "LATE")

SetNoNewPrivs(v, extra) == Change(v = 1 /\ ~extra, "EINVAL", [attr EXCEPT !.nnp = TRUE])
GetNoNewPrivs(extra) == Answer(~extra, "EINVAL", attr.nnp)

\* A fatal signal may end the wait for mmap_lock.
SetThpDisable(v, extra, killed) ==
  Change(~extra /\ ~killed, IF extra THEN "EINVAL" ELSE "EINTR", [attr EXCEPT !.thp = v # 0])
GetThpDisable(extra) == Answer(~extra, "EINVAL", attr.thp)

\* Mutant: the flags change before the arguments are checked.
SetIoFlusher_Early(v, extra) ==
  /\ attr' = [attr EXCEPT !.flusher = v = 1]
  /\ prctlRet' = [err |-> IF extra THEN "EINVAL" ELSE "OK", value |-> 0]

\* The two flags of PR_IO_FLUSHER change together.
SetIoFlusher(v, extra) ==
  Change(PrctlCapable /\ ~extra /\ v \in {0, 1}, IF PrctlCapable THEN "EINVAL" ELSE "EPERM",
         [attr EXCEPT !.flusher = v = 1])
GetIoFlusher(extra) ==
  Answer(PrctlCapable /\ ~extra, IF PrctlCapable THEN "EINVAL" ELSE "EPERM", attr.flusher)

Policies == {"EARLY", "LATE", "DEFAULT", "ZERO", "BAD"}

PrctlNext ==
  \/ \E v \in 0..2 :
       \/ SetPdeathsig(v) \/ SetDumpable(v)
       \/ \E extra \in BOOLEAN : SetNoNewPrivs(v, extra) \/ SetIoFlusher(v, extra)
       \/ \E extra, killed \in BOOLEAN : SetThpDisable(v, extra, killed)
  \/ \E v \in SlackArgs : SetTimerslack(v)
  \/ \E name \in Names16, fault \in BOOLEAN : SetName16(name, fault)
  \/ \E clear, extra \in BOOLEAN, policy \in Policies : SetMceKill(clear, policy, extra)
  \/ \E v \in {"PR_TIMING_STATISTICAL", "PR_TIMING_TIMESTAMP"} : SetTiming(v)
  \/ GetPdeathsig \/ GetDumpable \/ GetTiming \/ GetName16 \/ GetTimerslack \/ ArchOption
  \/ SpeculationCtrl \/ LsmAnswers \/ GetTidAddress
  \/ \E extra \in BOOLEAN :
       GetMceKill(extra) \/ GetNoNewPrivs(extra) \/ GetThpDisable(extra) \/ GetIoFlusher(extra)

PrctlSpec == PrctlInit /\ [][PrctlNext]_prctlVars

-----------------------------------------------------------------------------
\* A call that fails leaves every attribute as it was, with the one
\* exception the code has: PR_MCE_KILL_SET with a policy that is none has
\* already put the task under a policy of its own.
FailedCallsAreClean ==
  [][prctlRet'.err # "OK" =>
       \/ attr' = attr
       \/ prctlRet'.err = "EINVAL" /\ attr' = [attr EXCEPT !.mce = @ \cup {"PROCESS"}]]_prctlVars
=============================================================================
