------------------------------ MODULE Sessions ------------------------------
(***************************************************************************)
(* Processes, process groups and sessions: setpgid, setsid and the calls   *)
(* that read them.  Both writers hold tasklist_lock for writing, so each   *)
(* is one step; fork, exec and exit are outside this file.                 *)
(***************************************************************************)
EXTENDS Naturals, FiniteSets

CONSTANTS
  Pids,        \* process ids
  InitPid,     \* the first process, parent of orphans
  Tids,        \* ids of threads that lead no thread group
  NoPid        \* the argument 0

ASSUME SessAssumption ==
  /\ InitPid \in Pids
  /\ NoPid \notin Pids
  /\ Tids \cap Pids = {}

VARIABLES
  procs,       \* the processes there are
  parent,      \* real_parent
  pgrp, sid,   \* process group and session, named by a pid
  leader,      \* signal->leader
  forked,      \* PF_FORKNOEXEC: no exec since the fork
  sessRet      \* what the last call returned

sessVars == <<procs, parent, pgrp, sid, leader, forked, sessRet>>

SessInit ==
  /\ procs = {InitPid}
  /\ parent = [p \in Pids |-> InitPid]
  /\ pgrp = [p \in Pids |-> InitPid]
  /\ sid = [p \in Pids |-> InitPid]
  /\ leader = {InitPid}
  /\ forked = {}
  /\ sessRet = NoPid

Member(p, g) == p \in procs /\ pgrp[p] = g

SessFail(err) ==
  /\ sessRet' = err
  /\ UNCHANGED <<procs, parent, pgrp, sid, leader, forked>>

\* The process that setpgid is asked to move is the caller or a child of it
\* that has not called exec and is still in the caller's session.
Movable(c, p) ==
  IF parent[p] = c THEN sid[p] = sid[c] /\ p \in forked
  ELSE p = c

\* What setpgid returns when it leaves p alone; a leader, a group elsewhere
\* and a security module that refuses all come to -EPERM.
Refusal(c, p) ==
  CASE parent[p] = c /\ sid[p] = sid[c] /\ p \notin forked -> "EACCES"
    [] parent[p] # c /\ p # c -> "ESRCH"
    [] OTHER -> "EPERM"

\* Mutant: the group may be anywhere.
GroupInSession_Anywhere(c, p, g) == g = p \/ \E q \in procs : Member(q, g)

\* It starts a group of its own or joins one of the caller's session.
GroupInSession(c, p, g) == g = p \/ \E q \in procs : Member(q, g) /\ sid[q] = sid[c]

\* A thread id, an unknown pid and every failed check end in an error.
setpgid(c, pid, pgid) ==
  LET p == IF pid = NoPid THEN c ELSE pid
      g == IF pgid = NoPid THEN p ELSE pgid
  IN \/ p \notin procs /\ SessFail(IF p \in Tids THEN "EINVAL" ELSE "ESRCH")
     \/ p \in procs /\ SessFail(Refusal(c, p))
     \/ /\ p \in procs
        /\ Movable(c, p)
        /\ p \notin leader
        /\ GroupInSession(c, p, g)
        /\ pgrp' = [pgrp EXCEPT ![p] = g]
        /\ sessRet' = "OK"
        /\ UNCHANGED <<procs, parent, sid, leader, forked>>

MayLead(c) == c \notin leader /\ ~\E q \in procs : Member(q, c)

\* setsid: the caller leads a new session and a new group in it.
setsid(c) ==
  \/ ~MayLead(c) /\ SessFail("EPERM")
  \/ /\ MayLead(c)
     /\ leader' = leader \cup {c}
     /\ sid' = [sid EXCEPT ![c] = c]
     /\ pgrp' = [pgrp EXCEPT ![c] = c]
     /\ sessRet' = c
     /\ UNCHANGED <<procs, parent, forked>>

\* The readers hold only the RCU lock: each takes one value.
SessRead(value) ==
  /\ sessRet' = value
  /\ UNCHANGED <<procs, parent, pgrp, sid, leader, forked>>

getpgid(c, pid) ==
  LET p == IF pid = NoPid THEN c ELSE pid
  IN SessRead(IF p \in procs THEN pgrp[p] ELSE "ESRCH")

getsid(c, pid) ==
  LET p == IF pid = NoPid THEN c ELSE pid
  IN SessRead(IF p \in procs THEN sid[p] ELSE "ESRCH")

getpid(c) == SessRead(c)
getppid(c) == SessRead(parent[c])

\* A pid is free again when no process, group or session uses it.
Free(n) == n \notin procs /\ \A q \in procs : pgrp[q] # n /\ sid[q] # n

Fork(c, n) ==
  /\ Free(n)
  /\ procs' = procs \cup {n}
  /\ parent' = [parent EXCEPT ![n] = c]
  /\ pgrp' = [pgrp EXCEPT ![n] = pgrp[c]]
  /\ sid' = [sid EXCEPT ![n] = sid[c]]
  /\ leader' = leader \ {n}
  /\ forked' = forked \cup {n}
  /\ UNCHANGED sessRet

Exec(c) ==
  /\ forked' = forked \ {c}
  /\ UNCHANGED <<procs, parent, pgrp, sid, leader, sessRet>>

Exit(c) ==
  /\ c # InitPid
  /\ procs' = procs \ {c}
  /\ parent' = [p \in Pids |-> IF parent[p] = c THEN InitPid ELSE parent[p]]
  /\ pgrp' = [pgrp EXCEPT ![c] = InitPid]
  /\ sid' = [sid EXCEPT ![c] = InitPid]
  /\ leader' = leader \ {c}
  /\ forked' = forked \ {c}
  /\ UNCHANGED sessRet

SessNext ==
  \E c \in procs :
    \/ \E pid \in Pids \cup Tids \cup {NoPid}, pgid \in Pids \cup {NoPid} : setpgid(c, pid, pgid)
    \/ setsid(c)
    \/ \E pid \in Pids \cup {NoPid} : getpgid(c, pid) \/ getsid(c, pid)
    \/ getpid(c) \/ getppid(c)
    \/ \E n \in Pids : Fork(c, n)
    \/ Exec(c) \/ Exit(c)

SessSpec == SessInit /\ [][SessNext]_sessVars

-----------------------------------------------------------------------------
\* Groups, sessions and parents are named by pids, and leaders are processes.
SessTypeOK ==
  /\ procs \subseteq Pids /\ InitPid \in procs
  /\ parent \in [Pids -> Pids]
  /\ pgrp \in [Pids -> Pids] /\ sid \in [Pids -> Pids]
  /\ leader \subseteq procs /\ forked \subseteq procs

\* All members of a process group are in one session, however groups are
\* left, joined and outlive the process that gave them their number: a
\* signal to a group, or a terminal given to one, never crosses a session.
GroupInOneSession ==
  \A p, q \in procs : pgrp[p] = pgrp[q] => sid[p] = sid[q]

\* Who leads a session is in the session and the group of its own number,
\* and a session whose number is the pid of a process is led by that
\* process; so setsid, which looks only for a group, never runs into an old
\* session.
LeaderLeads ==
  /\ \A p \in leader : sid[p] = p /\ pgrp[p] = p
  /\ \A p, q \in procs : sid[q] = p => p \in leader

\* A group that carries the number of a living process is in the session of
\* that process.
GroupNearName ==
  \A p, q \in procs : pgrp[q] = p => sid[q] = sid[p]

\* Sessions are made of whole groups, and every session and group fits the
\* living process whose number it carries, whatever setpgid, setsid, fork,
\* exec, exit and reused process ids have done.
SessionShape == GroupInOneSession /\ LeaderLeads /\ GroupNearName
=============================================================================
