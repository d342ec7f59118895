------------------------------ MODULE MCKernel ------------------------------
(***************************************************************************)
(* The system calls of kernel/sys.c side by side.  Their states are        *)
(* disjoint, so one behaviour exercises one family of calls (active) and   *)
(* the run takes the behaviours of all of them.                            *)
(***************************************************************************)
EXTENDS Credentials, Priority, Rlimits, Sessions, Uts, Usage, Subreaper

VARIABLE active

Families == {"credentials", "priority", "rlimits", "sessions", "uts", "usage", "subreaper"}

KernelInit ==
  /\ active \in Families
  /\ CredInit /\ (active # "credentials" => Held(uid) \cup Held(gid) = {Root})
  /\ PrioInit /\ RlimInit /\ SessInit /\ UtsInit /\ UsageInit /\ SubInit


KernelNext ==
  /\ UNCHANGED active
  /\ \/ active = "credentials" /\ CredNext
     \/ active # "credentials" /\ UNCHANGED credVars
  /\ \/ active = "priority" /\ PrioNext
     \/ active # "priority" /\ UNCHANGED prioVars
  /\ \/ active = "rlimits" /\ RlimNext
     \/ active # "rlimits" /\ UNCHANGED rlimVars
  /\ \/ active = "sessions" /\ SessNext
     \/ active # "sessions" /\ UNCHANGED sessVars
  /\ \/ active = "uts" /\ UtsNext
     \/ active # "uts" /\ UNCHANGED utsVars
  /\ \/ active = "usage" /\ UsageNext
     \/ active # "usage" /\ UNCHANGED usageVars
  /\ \/ active = "subreaper" /\ SubNext
     \/ active # "subreaper" /\ UNCHANGED subVars

KernelSpec ==
  KernelInit /\ [][KernelNext]_<<active, credVars, prioVars, rlimVars, sessVars, utsVars, usageVars, subVars>>

\* Everything but what calls returned, which no step reads.
KernelView ==
  <<active, uid, gid, user, exceeded, permitted, effective, prioVars, rlim, cpuTimer, alive, rlimCall,
    procs, parent, pgrp, sid, leader, forked, utsVars, usageVars, subVars>>

-----------------------------------------------------------------------------
MCPgrp == [t \in PrioTasks |-> "g"]
MCUid == [t \in PrioTasks |-> "a"]
MCEuid == [t \in PrioTasks |-> IF t = "t1" THEN "a" ELSE "b"]
MCNiceLimit == [t \in PrioTasks |-> 0]
MCMinNice == -1
MCNiceArgs == {-2, 0, 1}

MCNames == {<<>>, <<"a">>, <<"b", "c">>, <<"d", "e", "f">>, <<"g", "h", "i", "j">>}
MCRelease == <<"5", ".", "1", "1", ".", "0", "-", "r">>
MCVersion == <<"7", "1">>
=============================================================================
