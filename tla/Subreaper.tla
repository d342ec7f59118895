------------------------------ MODULE Subreaper ------------------------------
(***************************************************************************)
(* prctl(PR_SET_CHILD_SUBREAPER): a process asks to become the parent of   *)
(* its orphaned descendants.  It sets its flag and then walks down its     *)
(* tree, under the read side of tasklist_lock, to tell every descendant to *)
(* look for a subreaper when it dies; the walk skips subtrees that have    *)
(* been told before.  Walks of several processes interleave; fork and exit *)
(* (outside this file) hold the lock for writing.                          *)
(***************************************************************************)
EXTENDS Naturals, FiniteSets

CONSTANTS
  Family,        \* processes
  FirstProc,     \* the first of them
  NsReapers      \* FirstProc and the first processes of inner pid namespaces

ASSUME FamilyAssumption == IsFiniteSet(Family) /\ FirstProc \in NsReapers /\ NsReapers \subseteq Family

VARIABLES
  running,       \* the processes there are
  father,        \* real_parent
  isSub,         \* is_child_subreaper
  hasSub,        \* has_child_subreaper
  call,          \* "idle", "called": flag set, lock not yet held, "walk"
  visit          \* visit[p]: the processes p's walk has still to look at

subVars == <<running, father, isSub, hasSub, call, visit>>

Children(p) == {c \in running \ {p} : father[c] = p}

SubInit ==
  /\ running = {FirstProc}
  /\ father = [p \in Family |-> FirstProc]
  /\ isSub = {} /\ hasSub = {}
  /\ call = [p \in Family |-> "idle"]
  /\ visit = [p \in Family |-> {}]

ClearSubreaper(p) ==
  /\ p \in running /\ call[p] = "idle"
  /\ isSub' = isSub \ {p}
  /\ UNCHANGED <<running, father, hasSub, call, visit>>

SetSubreaper(p) ==
  /\ p \in running /\ call[p] = "idle"
  /\ isSub' = isSub \cup {p}
  /\ call' = [call EXCEPT ![p] = "called"]
  /\ UNCHANGED <<running, father, hasSub, visit>>

\* walk_process_tree starts below the caller.
StartWalk(p) ==
  /\ call[p] = "called"
  /\ call' = [call EXCEPT ![p] = "walk"]
  /\ visit' = [visit EXCEPT ![p] = Children(p)]
  /\ UNCHANGED <<running, father, isSub, hasSub>>

is_child_reaper(c) == c \in NsReapers

Skipped(c) == c \in hasSub \/ is_child_reaper(c)

\* Mutant: the children of a process that has just been told are skipped.
Below_Skipped(c) == {}

Below(c) == Children(c)

propagate_has_child_subreaper(p, c) ==
  /\ call[p] = "walk" /\ c \in visit[p]
  /\ IF Skipped(c)
     THEN /\ visit' = [visit EXCEPT ![p] = @ \ {c}]
          /\ UNCHANGED hasSub
     ELSE /\ visit' = [visit EXCEPT ![p] = (@ \ {c}) \cup Below(c)]
          /\ hasSub' = hasSub \cup {c}
  /\ UNCHANGED <<running, father, isSub, call>>

EndWalk(p) ==
  /\ call[p] = "walk" /\ visit[p] = {}
  /\ call' = [call EXCEPT ![p] = "idle"]
  /\ UNCHANGED <<running, father, isSub, hasSub, visit>>

WriteLockFree == \A p \in Family : call[p] # "walk"

\* fork: the child inherits the news under the write lock.
ForkChild(p, c) ==
  /\ WriteLockFree
  /\ p \in running /\ call[p] = "idle" /\ c \in Family \ running
  /\ running' = running \cup {c}
  /\ father' = [father EXCEPT ![c] = p]
  /\ hasSub' = IF p \in hasSub \cup isSub THEN hasSub \cup {c} ELSE hasSub \ {c}
  /\ isSub' = isSub \ {c}
  /\ UNCHANGED <<call, visit>>

\* The n-th ancestor of a process, and the nearest one in a set.
Up(p) == LET up[n \in 0..Cardinality(Family)] == IF n = 0 THEN p ELSE father[up[n - 1]] IN up

Nearest(p, S) ==
  LET near == {n \in 1..Cardinality(Family) : Up(p)[n] \in S}
  IN Up(p)[CHOOSE n \in near : \A m \in near : n <= m]

\* find_new_reaper: the nearest subreaper below the first process of the
\* namespace, if the dying process knows that it has to look for one.
NewFather(p) == Nearest(p, IF p \in hasSub THEN isSub \cup NsReapers ELSE NsReapers)

ExitProc(p) ==
  /\ WriteLockFree
  /\ p \in running \ NsReapers /\ call[p] = "idle"
  /\ running' = running \ {p}
  /\ father' = [c \in Family |-> IF c = p THEN FirstProc
                                 ELSE IF father[c] = p THEN NewFather(p) ELSE father[c]]
  /\ isSub' = isSub \ {p}
  /\ hasSub' = hasSub \ {p}
  /\ UNCHANGED <<call, visit>>

SubNext ==
  \E p \in Family :
    \/ ClearSubreaper(p) \/ SetSubreaper(p) \/ StartWalk(p) \/ EndWalk(p)
    \/ \E c \in Family : propagate_has_child_subreaper(p, c) \/ ForkChild(p, c)
    \/ ExitProc(p)

SubSpec == SubInit /\ [][SubNext]_subVars

-----------------------------------------------------------------------------
\* "If task has has_child_subreaper - all its decendants already have these
\* flag too": what the walk relies on when it skips a subtree.  Another walk
\* may be on its way through the subtree, so it holds once that walk has
\* been there.
ToldOnceToldBelow ==
  \A p \in hasSub : \A c \in Children(p) :
    Skipped(c) \/ \E w \in Family : c \in visit[w]

\* When no walk is going on, every descendant of a subreaper whose call has
\* returned, within its pid namespace, knows that it has to look for one,
\* whatever forks, exits and other subreapers happened in between; and during
\* the walks nobody is skipped who has descendants still to be told.
DescendantsKnow ==
  /\ ToldOnceToldBelow
  /\ WriteLockFree =>
       \A s \in isSub, p \in running \ NsReapers :
         (call[s] = "idle" /\ \E n \in 1..Cardinality(Family) :
             Up(p)[n] = s /\ \A m \in 0..n - 1 : Up(p)[m] \notin NsReapers)
           => p \in hasSub
=============================================================================
