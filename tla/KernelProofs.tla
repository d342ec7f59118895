---------------------------- MODULE KernelProofs ----------------------------
(***************************************************************************)
(* Proofs about the system calls of kernel/sys.c: setpriority and          *)
(* getpriority, sethostname and its readers, the groups and sessions, the  *)
(* resource limits, the user and group ids, getrusage, and the subreapers  *)
(* of prctl.                                                               *)
(***************************************************************************)
EXTENDS Priority, Uts, Sessions, Rlimits, Credentials, Usage, Subreaper,
        FiniteSetTheorems, SequenceTheorems, WellFoundedInduction, TLAPS

-----------------------------------------------------------------------------
\* The smaller of two numbers: min_val of sys.c.
LEMMA MinOfTwo ==
  ASSUME NEW a \in Int, NEW b \in Int
  PROVE  Min({a, b}) = IF a <= b THEN a ELSE b
<1> DEFINE m == IF a <= b THEN a ELSE b
<1>1. m \in {a, b} /\ \A y \in {a, b} : m <= y
  OBVIOUS
<1>2. \A x \in {a, b} : (\A y \in {a, b} : x <= y) => x = m
  OBVIOUS
<1> HIDE DEF m
<1>3. QED
  BY <1>1, <1>2 DEF Min, m

\* The larger of two numbers.
LEMMA MaxOfTwo ==
  ASSUME NEW a \in Int, NEW b \in Int
  PROVE  Max({a, b}) = IF a >= b THEN a ELSE b
<1> DEFINE m == IF a >= b THEN a ELSE b
<1>1. m \in {a, b} /\ \A y \in {a, b} : m >= y
  OBVIOUS
<1>2. \A x \in {a, b} : (\A y \in {a, b} : x >= y) => x = m
  OBVIOUS
<1> HIDE DEF m
<1>3. QED
  BY <1>1, <1>2 DEF Max, m

\* setpriority forces the value it is asked for into the range.
LEMMA ClampInRange ==
  ASSUME NEW n \in Int
  PROVE  Clamp(n) \in NiceRange
<1> DEFINE m == Min({MAX_NICE, n})
<1>0. MIN_NICE \in Int /\ MAX_NICE \in Int /\ MIN_NICE <= MAX_NICE
  BY PriorityAssumption
<1>1. m = IF MAX_NICE <= n THEN MAX_NICE ELSE n
  BY <1>0, MinOfTwo
<1>2. m \in Int /\ m <= MAX_NICE
  BY <1>0, <1>1
<1> HIDE DEF m
<1>3. Max({MIN_NICE, m}) = IF MIN_NICE >= m THEN MIN_NICE ELSE m
  BY <1>0, <1>2, MaxOfTwo
<1>4. QED
  BY <1>0, <1>2, <1>3 DEF Clamp, NiceRange, m

-----------------------------------------------------------------------------
Errors == {"OK", "ESRCH", "EPERM", "EACCES", "ELSM"}

\* A walk of setpriority, and one of getpriority.
SetWalk == [op : {"set"}, nice : NiceRange, error : Errors, sel : SUBSET PrioTasks,
            todo : SUBSET PrioTasks, done : SUBSET PrioTasks, checked : SUBSET PrioTasks]
GetWalk == [op : {"get"}, best : Int, sel : SUBSET PrioTasks, todo : SUBSET PrioTasks]

\* What a walk of setpriority remembers of its way: every task it was asked
\* about is still to come, between its two parts, changed, or has left its
\* mark in the error; at most one is between the two parts.
WalkAccounts(w) ==
  /\ w.todo \cup w.checked \cup w.done \subseteq w.sel
  /\ w.error \in {"OK", "ESRCH"} => w.sel \subseteq w.todo \cup w.checked \cup w.done
  /\ w.error = "ESRCH" => w.done = {}
  /\ w.error # "ESRCH" => w.sel # {}
  /\ w.error = "OK" => w.done # {}
  /\ \A p, q \in w.checked : p = q

(***************************************************************************)
(* The inductive invariant of the priorities.  The value that passed the   *)
(* check of set_one_prio is covered by what its task was granted until     *)
(* set_user_nice stores it, whatever other walks do in between.            *)
(***************************************************************************)
PrioInv ==
  /\ nice \in [PrioTasks -> NiceRange]
  /\ granted \in [PrioTasks -> Int]
  /\ walk \in [PrioTasks -> {NoWalk} \cup SetWalk \cup GetWalk]
  /\ \A t \in PrioTasks : nice[t] >= granted[t]
  /\ \A c \in PrioTasks : walk[c] \in SetWalk =>
       /\ WalkAccounts(walk[c])
       /\ \A p \in walk[c].checked : walk[c].nice >= granted[p]

\* The three kinds of calls are told apart by op.
LEMMA Kinds ==
  ASSUME NEW w \in {NoWalk} \cup SetWalk \cup GetWalk
  PROVE  /\ w \in SetWalk <=> w.op = "set"
         /\ w \in GetWalk <=> w.op = "get"
         /\ w = NoWalk <=> w.op = "none"
BY DEF SetWalk, GetWalk, NoWalk

\* A step that puts a walk w in place of the walk of c, and leaves the nice
\* values and what was granted as they are.
LEMMA WalkStep ==
  ASSUME PrioInv, NEW c \in PrioTasks,
         NEW w \in {NoWalk} \cup SetWalk \cup GetWalk,
         walk' = [walk EXCEPT ![c] = w], UNCHANGED <<nice, granted>>,
         w \in SetWalk => WalkAccounts(w) /\ \A p \in w.checked : w.nice >= granted[p]
  PROVE  PrioInv'
<1>1. walk'[c] = w /\ \A d \in PrioTasks \ {c} : walk'[d] = walk[d]
  BY DEF PrioInv
<1>2. walk' \in [PrioTasks -> {NoWalk} \cup SetWalk \cup GetWalk]
  BY DEF PrioInv
<1>3. ASSUME NEW d \in PrioTasks, walk'[d] \in SetWalk
      PROVE  WalkAccounts(walk'[d]) /\ \A p \in walk'[d].checked : walk'[d].nice >= granted[p]
  BY <1>1, <1>3 DEF PrioInv
<1>4. QED
  BY <1>2, <1>3 DEF PrioInv

\* The tasks a call is about are tasks.
LEMMA SelectedTasks ==
  ASSUME NEW c, NEW which \in Whiches, NEW who
  PROVE  Selected(c, which, who) \in SUBSET PrioTasks
BY DEF Selected, Whiches

\* The beginning of a walk.
LEMMA BeginKeeps ==
  ASSUME PrioInv, NEW c \in PrioTasks, NEW which \in Whiches, NEW who,
         \/ getpriority(c, which, who)
         \/ \E n \in NiceArgs : setpriority(c, which, who, n)
  PROVE  PrioInv'
<1> DEFINE sel == Selected(c, which, who)
<1>0. sel \in SUBSET PrioTasks
  BY SelectedTasks
<1>1. CASE getpriority(c, which, who)
  <2> DEFINE w == [op |-> "get", best |-> 0, sel |-> sel, todo |-> sel]
  <2>1. w \in GetWalk /\ w \notin SetWalk
    BY <1>0 DEF GetWalk, SetWalk
  <2>2. walk' = [walk EXCEPT ![c] = w] /\ UNCHANGED <<nice, granted>>
    BY <1>1 DEF getpriority
  <2> HIDE DEF w
  <2>3. QED
    BY <2>1, <2>2, WalkStep
<1>2. ASSUME NEW n \in NiceArgs, setpriority(c, which, who, n) PROVE PrioInv'
  <2> DEFINE w == [op |-> "set", nice |-> Clamp(n), error |-> "ESRCH", sel |-> sel,
                   todo |-> sel, done |-> {}, checked |-> {}]
  <2>0. Clamp(n) \in NiceRange
    BY ClampInRange, PriorityAssumption
  <2>1. w \in SetWalk
    BY <1>0, <2>0 DEF SetWalk, Errors
  <2>2. WalkAccounts(w) /\ w.checked = {}
    BY DEF WalkAccounts
  <2>3. walk' = [walk EXCEPT ![c] = w] /\ UNCHANGED <<nice, granted>>
    BY <1>2 DEF setpriority
  <2> HIDE DEF w
  <2>4. QED
    BY <2>1, <2>2, <2>3, WalkStep
<1>3. QED
  BY <1>1, <1>2

\* A refused task leaves an error that no later success takes back.
LEMMA RefuseKeeps ==
  ASSUME PrioInv, NEW c \in PrioTasks, walk[c].op = "set",
         NEW p \in walk[c].todo, walk[c].checked = {}, Refuse(c, p)
  PROVE  PrioInv'
<1> DEFINE old == walk[c]
<1>1. old \in SetWalk /\ WalkAccounts(old)
  BY Kinds DEF PrioInv
<1>2. PICK e \in {"EPERM", "EACCES", "ELSM"} :
        /\ walk' = [walk EXCEPT ![c] = [old EXCEPT !.todo = @ \ {p}, !.error = e]]
        /\ UNCHANGED <<nice, granted>>
  <2>1. CASE ~set_one_prio_perm(c, p)
    <3>1. Refused(c, p)
      BY <2>1 DEF Refused
    <3>2. QED
      BY <2>1, <3>1 DEF Refuse, PrioInv
  <2>2. CASE set_one_prio_perm(c, p) /\ Refused(c, p)
    BY <2>2 DEF Refuse, PrioInv
  <2>3. CASE ~Refused(c, p)
    <3>1. set_one_prio_perm(c, p)
      BY <2>3 DEF Refused
    <3>2. QED
      BY <2>3, <3>1 DEF Refuse, PrioInv
  <2>4. QED
    BY <2>1, <2>2, <2>3
<1> DEFINE w == [old EXCEPT !.todo = @ \ {p}, !.error = e]
<1>3. /\ w \in SetWalk
      /\ w.todo = old.todo \ {p} /\ w.error = e /\ w.sel = old.sel /\ w.done = old.done
      /\ w.checked = old.checked
  BY <1>1 DEF SetWalk, Errors
<1> HIDE DEF w
<1>4. WalkAccounts(w)
  BY <1>1, <1>3 DEF WalkAccounts, SetWalk
<1>5. QED
  BY <1>2, <1>3, <1>4, WalkStep DEF w

\* A task that passes the checks of set_one_prio: either the caller may give
\* it the value, and then it counts as granted, or the value is no lower than
\* the one the task has.
LEMMA CheckKeeps ==
  ASSUME PrioInv, NEW c \in PrioTasks, walk[c].op = "set",
         NEW p \in walk[c].todo, walk[c].checked = {}, Check(c, p)
  PROVE  PrioInv'
<1> DEFINE old == walk[c]
           w == [old EXCEPT !.todo = @ \ {p}, !.checked = {p}]
<1>1. old \in SetWalk /\ WalkAccounts(old) /\ p \in PrioTasks /\ old.nice \in Int
  BY Kinds, PriorityAssumption DEF PrioInv, SetWalk, NiceRange
<1>2. walk' = [walk EXCEPT ![c] = w] /\ UNCHANGED nice
  BY DEF Check, PrioInv
<1>3. /\ w \in SetWalk
      /\ w.todo = old.todo \ {p} /\ w.error = old.error /\ w.sel = old.sel
      /\ w.done = old.done /\ w.checked = {p} /\ w.nice = old.nice
  BY <1>1 DEF SetWalk
<1> HIDE DEF w
<1>4. WalkAccounts(w)
  BY <1>1, <1>3 DEF WalkAccounts, SetWalk
<1>5. /\ granted' \in [PrioTasks -> Int]
      /\ \A t \in PrioTasks : granted'[t] <= granted[t]
      /\ granted'[p] <= w.nice
  <2>0. /\ granted[p] \in Int /\ nice[p] \in Int /\ nice[p] >= granted[p]
        /\ \A t \in PrioTasks : granted[t] \in Int
    BY <1>1, PriorityAssumption DEF PrioInv, NiceRange
  <2>1. CASE can_nice(c, p, old.nice)
    <3> DEFINE m == Min({granted[p], old.nice})
    <3>1. m = IF granted[p] <= old.nice THEN granted[p] ELSE old.nice
      BY <1>1, <2>0, MinOfTwo
    <3>2. granted' = [granted EXCEPT ![p] = m]
      BY <2>1 DEF Check
    <3> HIDE DEF m
    <3>3. QED
      BY <1>1, <1>3, <2>0, <3>1, <3>2 DEF PrioInv
  <2>2. CASE ~can_nice(c, p, old.nice)
    <3>1. granted' = granted
      BY <2>2 DEF Check
    <3>2. ~(old.nice < nice[p])
      BY <2>2 DEF Check, Refused
    <3>3. QED
      BY <1>1, <1>3, <2>0, <3>1, <3>2 DEF PrioInv
  <2>3. QED
    BY <2>1, <2>2
<1>6. walk'[c] = w /\ \A d \in PrioTasks \ {c} : walk'[d] = walk[d]
  BY <1>2 DEF PrioInv
<1>7. walk' \in [PrioTasks -> {NoWalk} \cup SetWalk \cup GetWalk]
  BY <1>2, <1>3 DEF PrioInv
<1>8. ASSUME NEW d \in PrioTasks, walk'[d] \in SetWalk
      PROVE  WalkAccounts(walk'[d]) /\ \A q \in walk'[d].checked : walk'[d].nice >= granted'[q]
  <2>1. CASE d = c
    BY <1>1, <1>3, <1>4, <1>5, <1>6, <2>1 DEF SetWalk
  <2>2. CASE d # c
    <3>1. /\ walk'[d] = walk[d] /\ WalkAccounts(walk[d])
          /\ \A q \in walk[d].checked : walk[d].nice >= granted[q]
          /\ walk[d].checked \subseteq PrioTasks /\ walk[d].nice \in Int
      BY <1>6, <1>8, <2>2, PriorityAssumption DEF PrioInv, SetWalk, NiceRange
    <3>2. \A t \in PrioTasks : granted[t] \in Int /\ granted'[t] \in Int
      BY <1>5 DEF PrioInv
    <3>3. QED
      BY <1>5, <3>1, <3>2
  <2>3. QED
    BY <2>1, <2>2
<1>9. \A t \in PrioTasks : nice[t] >= granted'[t]
  <2> TAKE t \in PrioTasks
  <2>1. nice[t] \in Int /\ granted[t] \in Int /\ granted'[t] \in Int /\ nice[t] >= granted[t]
    BY <1>5, PriorityAssumption DEF PrioInv, NiceRange
  <2>2. QED
    BY <1>5, <2>1
<1>10. QED
  BY <1>2, <1>5, <1>7, <1>8, <1>9 DEF PrioInv

\* set_user_nice stores a value that was checked before, perhaps long ago.
LEMMA SetUserNiceKeeps ==
  ASSUME PrioInv, NEW c \in PrioTasks, walk[c].op = "set",
         NEW p \in walk[c].checked, SetUserNice(c, p)
  PROVE  PrioInv'
<1> DEFINE old == walk[c]
           w == [old EXCEPT !.checked = {}, !.done = @ \cup {p}, !.error = NewError(@)]
<1>1. /\ old \in SetWalk /\ WalkAccounts(old) /\ p \in PrioTasks
      /\ old.nice >= granted[p]
  BY Kinds DEF PrioInv, SetWalk
<1>2. /\ walk' = [walk EXCEPT ![c] = w]
      /\ nice' = [nice EXCEPT ![p] = old.nice] /\ UNCHANGED granted
  BY DEF SetUserNice, PrioInv
<1>3. NewError(old.error) \in Errors /\ NewError(old.error) # "ESRCH"
  BY <1>1 DEF SetWalk, Errors, NewError
<1>4. /\ w \in SetWalk
      /\ w.todo = old.todo /\ w.error = NewError(old.error) /\ w.sel = old.sel
      /\ w.done = old.done \cup {p} /\ w.checked = {}
  BY <1>1, <1>3 DEF SetWalk
<1> HIDE DEF w
<1>5. old.checked = {p}
  BY <1>1 DEF WalkAccounts
<1>6. w.error \in {"OK", "ESRCH"} => old.error \in {"OK", "ESRCH"}
  BY <1>1, <1>4 DEF NewError
<1>7. WalkAccounts(w)
  BY <1>1, <1>3, <1>4, <1>5, <1>6 DEF WalkAccounts, SetWalk
<1>8. walk'[c] = w /\ \A d \in PrioTasks \ {c} : walk'[d] = walk[d]
  BY <1>2 DEF PrioInv
<1>9. walk' \in [PrioTasks -> {NoWalk} \cup SetWalk \cup GetWalk]
  BY <1>2, <1>4 DEF PrioInv
<1>10. ASSUME NEW d \in PrioTasks, walk'[d] \in SetWalk
       PROVE  WalkAccounts(walk'[d]) /\ \A q \in walk'[d].checked : walk'[d].nice >= granted[q]
  BY <1>4, <1>7, <1>8, <1>10 DEF PrioInv
<1>11. /\ nice' \in [PrioTasks -> NiceRange]
       /\ \A t \in PrioTasks : nice'[t] >= granted[t]
  BY <1>1, <1>2 DEF PrioInv, SetWalk
<1>12. QED
  BY <1>2, <1>9, <1>10, <1>11 DEF PrioInv

\* getpriority only looks.
LEMMA LookKeeps ==
  ASSUME PrioInv, NEW c \in PrioTasks, Look(c)
  PROVE  PrioInv'
<1> DEFINE old == walk[c]
<1>1. PICK p \in old.todo :
        walk' = [walk EXCEPT ![c].todo = @ \ {p}, ![c].best = Max({@, nice_to_rlimit(nice[p])})]
  BY DEF Look
<1> DEFINE best == Max({old.best, nice_to_rlimit(nice[p])})
           w == [old EXCEPT !.todo = @ \ {p}, !.best = best]
<1>2. old \in GetWalk /\ old.best \in Int /\ nice_to_rlimit(nice[p]) \in Int
  BY Kinds, PriorityAssumption DEF PrioInv, GetWalk, Look, nice_to_rlimit, NiceRange
<1>3. best \in Int
  BY <1>2, MaxOfTwo
<1>4. walk' = [walk EXCEPT ![c] = w] /\ UNCHANGED <<nice, granted>>
  BY <1>1 DEF PrioInv, Look
<1> HIDE DEF best
<1>5. w \in GetWalk /\ w.op = "get"
  BY <1>2, <1>3 DEF GetWalk
<1> HIDE DEF w
<1>6. w \notin SetWalk
  BY <1>5 DEF SetWalk
<1>7. QED
  BY <1>4, <1>5, <1>6, WalkStep

\* Every step of every walk keeps the invariant.
LEMMA PrioStep == PrioInv /\ [PrioNext]_prioVars => PrioInv'
<1> SUFFICES ASSUME PrioInv, [PrioNext]_prioVars PROVE PrioInv'
  OBVIOUS
<1>1. ASSUME NEW c \in PrioTasks, set_one_prio(c) PROVE PrioInv'
  BY <1>1, RefuseKeeps, CheckKeeps, SetUserNiceKeeps DEF set_one_prio
<1>2. ASSUME NEW c \in PrioTasks, Return(c) PROVE PrioInv'
  <2>1. NoWalk \notin SetWalk
    BY DEF NoWalk, SetWalk
  <2>2. QED
    BY <1>2, <2>1, WalkStep DEF Return
<1>3. CASE UNCHANGED prioVars
  BY <1>3 DEF prioVars, PrioInv
<1>4. QED
  BY <1>1, <1>2, <1>3, BeginKeeps, LookKeeps DEF PrioNext

\* Every behaviour of setpriority and getpriority keeps the invariant.
LEMMA PrioInvHolds == PrioSpec => []PrioInv
<1>1. PrioInit => PrioInv
  BY PriorityAssumption DEF PrioInit, PrioInv, NoWalk, SetWalk, NiceRange
<1>2. QED
  BY <1>1, PrioStep, PTL DEF PrioSpec

(***************************************************************************)
(* For any tasks, users and limits: no interleaving of setpriority walks,  *)
(* with checks that are stale when the value is set, brings a task below   *)
(* what it was given by right.                                             *)
(***************************************************************************)
THEOREM PriorityIsGranted == PrioSpec => []NoPriorityFromNowhere
<1>1. PrioInv => NoPriorityFromNowhere
  BY DEF PrioInv, NoPriorityFromNowhere
<1>2. QED
  BY <1>1, PrioInvHolds, PTL

(***************************************************************************)
(* For any tasks: setpriority returns 0 only if it has changed every task  *)
(* it was asked about, and -ESRCH only if there was none.                  *)
(***************************************************************************)
THEOREM ReturnIsHonest == PrioSpec => []ReturnTellsAll
<1>1. ASSUME PrioInv PROVE ReturnTellsAll
  <2> SUFFICES ASSUME NEW c \in PrioTasks, Finished(c), walk[c].op = "set"
               PROVE  /\ walk[c].error = "OK" => walk[c].done = walk[c].sel /\ walk[c].sel # {}
                      /\ walk[c].error = "ESRCH" <=> walk[c].sel = {}
    BY DEF ReturnTellsAll
  <2>1. WalkAccounts(walk[c]) /\ walk[c].todo = {} /\ walk[c].checked = {}
    BY <1>1, Kinds DEF PrioInv, Finished
  <2>2. QED
    BY <2>1 DEF WalkAccounts
<1>2. QED
  BY <1>1, PrioInvHolds, PTL

-----------------------------------------------------------------------------
\* A non-empty set of numbers has a least one, and Min finds it.
LEMMA LeastOf ==
  ASSUME NEW T \in SUBSET Nat, T # {}
  PROVE  Min(T) \in T /\ \A y \in T : Min(T) <= y
<1>1. IsWellFoundedOn(OpToRel(<, Nat), Nat)
  BY NatLessThanWellFounded
<1>2. PICK x \in T : \A y \in T : ~(<<y, x>> \in OpToRel(<, Nat))
  BY <1>1, WFMin
<1>3. ASSUME NEW y \in T PROVE ~(y < x)
  <2>1. <<y, x>> \in Nat \X Nat /\ <<y, x>>[1] = y /\ <<y, x>>[2] = x
    OBVIOUS
  <2>2. y < x => <<y, x>> \in OpToRel(<, Nat)
    BY <2>1, Zenon DEF OpToRel
  <2>3. QED
    BY <1>2, <2>2
<1>4. \A y \in T : x <= y
  BY <1>3
<1>5. \A u \in T : (\A y \in T : u <= y) => u = x
  BY <1>4
<1>6. QED
  BY <1>4, <1>5 DEF Min

\* A run of NUL characters.
LEMMA ZerosShape ==
  ASSUME NEW n \in Nat
  PROVE  /\ Zeros(n) \in Seq(Chars) /\ Len(Zeros(n)) = n
         /\ \A i \in 1..n : Zeros(n)[i] = NUL
<1>1. NUL \in Chars
  BY DEF Chars
<1>2. Zeros(n) \in [1..n -> Chars] /\ \A i \in 1..n : Zeros(n)[i] = NUL
  BY <1>1 DEF Zeros
<1> HIDE DEF Zeros
<1>3. Zeros(n) \in Seq(Chars)
  BY <1>2, SeqDef
<1>4. Len(Zeros(n)) = n
  BY <1>2, <1>3, LenProperties
<1>5. QED
  BY <1>2, <1>3, <1>4

\* The buffer of a name that fits: the name, and then at least one NUL.
LEMMA BufferShape ==
  ASSUME NEW n \in Legal
  PROVE  /\ n \in Seq(Chars) /\ Len(n) \in 0..UTS_LEN
         /\ Buffer(n) \in Seq(Chars) /\ Len(Buffer(n)) = UTS_LEN + 1
         /\ \A i \in 1..Len(n) : Buffer(n)[i] = n[i]
         /\ \A i \in Len(n) + 1..UTS_LEN + 1 : Buffer(n)[i] = NUL
<1>1. n \in Seq(Chars) /\ Len(n) \in 0..UTS_LEN /\ UTS_LEN \in Nat
  <2>1. CASE n \in UtsNames /\ Len(n) <= UTS_LEN
    BY <2>1, UtsAssumption
  <2>2. CASE n = <<>>
    BY <2>2, UtsAssumption
  <2>3. QED
    BY <2>1, <2>2 DEF Legal
<1> DEFINE z == Zeros(UTS_LEN + 1 - Len(n))
<1>2. UTS_LEN + 1 - Len(n) \in Nat
  BY <1>1
<1>3. z \in Seq(Chars) /\ Len(z) = UTS_LEN + 1 - Len(n) /\ \A i \in 1..Len(z) : z[i] = NUL
  BY <1>2, ZerosShape
<1> HIDE DEF z
<1>4. QED
  BY <1>1, <1>3 DEF Buffer, z

\* memcpy puts the whole name at the start of the buffer.
LEMMA MemcpyPrefix ==
  ASSUME NEW b \in Seq(Chars), Len(b) = UTS_LEN + 1, NEW n \in Legal
  PROVE  /\ Memcpy(b, n) \in Seq(Chars)
         /\ Len(Memcpy(b, n)) = UTS_LEN + 1
         /\ SubSeq(Memcpy(b, n), 1, Len(n)) = n
<1>1. n \in Seq(Chars) /\ Len(n) \in 0..UTS_LEN /\ UTS_LEN \in Nat
  BY UtsAssumption, BufferShape
<1> DEFINE rest == SubSeq(b, Len(n) + 1, UTS_LEN + 1)
<1>2. rest \in Seq(Chars) /\ Len(rest) = UTS_LEN + 1 - Len(n)
  BY <1>1
<1> HIDE DEF rest
<1>3. SubSeq(n \o rest, 1, Len(n)) = n
  <2>1. CASE Len(n) = 0
    BY <1>1, <2>1, SubSeqEmpty
  <2>2. CASE Len(n) # 0
    <3>1. 1 \in 1..Len(n) /\ Len(n) \in 1..Len(n)
      BY <1>1, <2>2
    <3>2. SubSeq(n \o rest, 1, Len(n)) = SubSeq(n, 1, Len(n))
      BY <1>1, <1>2, <3>1, SubSeqOfConcat1
    <3>3. QED
      BY <1>1, <3>2, SubSeqFull
  <2>3. QED
    BY <2>1, <2>2
<1>4. QED
  BY <1>1, <1>2, <1>3 DEF Memcpy, rest

\* memset after memcpy: nothing is left of the name that was there before.
LEMMA MemsetIsBuffer ==
  ASSUME NEW b, NEW n \in Legal, SubSeq(b, 1, Len(n)) = n
  PROVE  Memset(b, Len(n)) = Buffer(n)
BY DEF Memset, Buffer

\* gethostname copies no more than the name and the NUL behind it.
LEMMA GetsWholeName ==
  ASSUME NEW n \in Legal, NEW room \in 0..UTS_LEN + 1
  PROVE  \E len \in 0..Len(n) + 1 :
           SubSeq(Buffer(n), 1, Min({Strlen(Buffer(n)) + 1, room})) = SubSeq(n \o <<NUL>>, 1, len)
<1> DEFINE b == Buffer(n)
           T == {i \in 1..Len(b) : b[i] = NUL}
<1>1. /\ n \in Seq(Chars) /\ Len(n) \in 0..UTS_LEN /\ UTS_LEN \in Nat
      /\ b \in Seq(Chars) /\ Len(b) = UTS_LEN + 1
      /\ \A i \in 1..Len(n) : b[i] = n[i]
      /\ b[Len(n) + 1] = NUL
  <2> HIDE DEF T
  <2>1. UTS_LEN \in Nat
    BY UtsAssumption
  <2>2. /\ n \in Seq(Chars) /\ Len(n) \in 0..UTS_LEN
        /\ b \in Seq(Chars) /\ Len(b) = UTS_LEN + 1
        /\ \A i \in 1..Len(n) : b[i] = n[i]
        /\ \A i \in Len(n) + 1..UTS_LEN + 1 : b[i] = NUL
    BY ONLY n \in Legal, BufferShape
  <2> HIDE DEF b
  <2>3. Len(n) + 1 \in Len(n) + 1..UTS_LEN + 1
    BY <2>1, <2>2
  <2>4. QED
    BY <2>1, <2>2, <2>3
<1> HIDE DEF b
<1>2. T \in SUBSET Nat /\ Len(n) + 1 \in T
  BY <1>1
<1>3. Min(T) \in T /\ Min(T) <= Len(n) + 1
  BY <1>2, LeastOf
<1>4. Strlen(b) + 1 = Min(T) /\ Min(T) \in 1..Len(n) + 1
  BY <1>1, <1>3 DEF Strlen
<1> HIDE DEF T
<1> DEFINE len == Min({Strlen(b) + 1, room})
<1>5. len \in 0..Len(n) + 1
  <2>1. len = IF Min(T) <= room THEN Min(T) ELSE room
    BY <1>1, <1>4, MinOfTwo
  <2>2. QED
    BY <1>1, <1>4, <2>1
<1> HIDE DEF len
<1>6. NUL \in Chars
  BY DEF Chars
<1>7. /\ n \o <<NUL>> \in Seq(Chars) /\ Len(n \o <<NUL>>) = Len(n) + 1
      /\ \A i \in 1..Len(n) + 1 : (n \o <<NUL>>)[i] = b[i]
  BY <1>1, <1>6
<1>8. SubSeq(b, 1, len) = SubSeq(n \o <<NUL>>, 1, len)
  BY <1>1, <1>5, <1>7
<1>9. QED
  BY <1>5, <1>8 DEF len, b

-----------------------------------------------------------------------------
Wholes == {Buffer(n) : n \in Legal}

\* A buffer between memcpy and memset: the new name, and the rest of the old.
HalfWritten(b, len) ==
  /\ b \in Seq(Chars) /\ Len(b) = UTS_LEN + 1
  /\ \E n \in Legal : len = Len(n) /\ SubSeq(b, 1, len) = n

\* What a reader was given comes from one whole name.
SeenWhole(r) ==
  /\ r.call \in {"newuname", "uname"} => r.node \in Wholes
  /\ r.call = "newuname" => r.domain \in Wholes
  /\ r.call = "olduname" =>
       \E n \in Legal : r.node = SubSeq(Buffer(n), 1, OLD_UTS_LEN) \o <<NUL>>
  /\ r.call = "gethostname" =>
       \E n \in Legal : \E len \in 0..Len(n) + 1 : r.node = SubSeq(n \o <<NUL>>, 1, len)

(***************************************************************************)
(* The inductive invariant of the names: only the buffer whose writer      *)
(* holds uts_sem may be in pieces, and it starts with the name that the    *)
(* writer is going to leave there.                                         *)
(***************************************************************************)
UtsInv ==
  /\ \/ writer = NoWriter
     \/ \E f \in {"node", "domain"}, len \in Nat : writer = [field |-> f, len |-> len]
  /\ IF writer.field = "node" THEN HalfWritten(node, writer.len) ELSE node \in Wholes
  /\ IF writer.field = "domain" THEN HalfWritten(domain, writer.len) ELSE domain \in Wholes
  /\ SeenWhole(seen)

\* The four readers hand out whole names.
LEMMA ReadersSeeWholes ==
  ASSUME UtsInv,
         \/ \E uname26 \in BOOLEAN : newuname(uname26) \/ uname(uname26) \/ olduname(uname26)
         \/ \E len \in 0..UTS_LEN + 1 : gethostname(len)
  PROVE  SeenWhole(seen') /\ writer = NoWriter /\ UNCHANGED <<node, domain, writer>>
<1>1. writer = NoWriter /\ UNCHANGED <<node, domain, writer>>
  BY DEF newuname, uname, olduname, gethostname, See, down_read
<1>2. PICK n \in Legal : node = Buffer(n)
  BY <1>1 DEF UtsInv, NoWriter, Wholes
<1>3. domain \in Wholes /\ node \in Wholes
  BY <1>1 DEF UtsInv, NoWriter
<1>4. ASSUME NEW uname26 \in BOOLEAN, newuname(uname26) PROVE SeenWhole(seen')
  <2>1. seen'.call = "newuname" /\ seen'.node = node /\ seen'.domain = domain
    BY <1>4 DEF newuname, See
  <2>2. QED
    BY <1>3, <2>1 DEF SeenWhole
<1>5. ASSUME NEW uname26 \in BOOLEAN, uname(uname26) PROVE SeenWhole(seen')
  <2>1. seen'.call = "uname" /\ seen'.node = node
    BY <1>5 DEF uname, See
  <2>2. QED
    BY <1>3, <2>1 DEF SeenWhole
<1>6. ASSUME NEW uname26 \in BOOLEAN, olduname(uname26) PROVE SeenWhole(seen')
  <2>1. seen'.call = "olduname" /\ seen'.node = SubSeq(node, 1, OLD_UTS_LEN) \o <<NUL>>
    BY <1>6 DEF olduname, See
  <2>2. QED
    BY <1>2, <2>1 DEF SeenWhole
<1>7. ASSUME NEW room \in 0..UTS_LEN + 1, gethostname(room) PROVE SeenWhole(seen')
  <2>1. /\ seen'.call = "gethostname"
        /\ seen'.node = SubSeq(Buffer(n), 1, Min({Strlen(Buffer(n)) + 1, room}))
    BY <1>2, <1>7 DEF gethostname, See
  <2>2. \E len \in 0..Len(n) + 1 : seen'.node = SubSeq(n \o <<NUL>>, 1, len)
    BY <2>1, GetsWholeName
  <2>3. QED
    BY <2>1, <2>2 DEF SeenWhole
<1>8. QED
  BY <1>1, <1>4, <1>5, <1>6, <1>7

\* The first step of a writer, for the buffer it writes to.
LEMMA WriteStep ==
  ASSUME NEW b, NEW n \in Legal, b \in Wholes
  PROVE  HalfWritten(Memcpy(b, n), Len(n))
<1>1. b \in Seq(Chars) /\ Len(b) = UTS_LEN + 1
  BY BufferShape DEF Wholes
<1>2. QED
  BY <1>1, MemcpyPrefix DEF HalfWritten

\* Its second step leaves a whole name there.
LEMMA ClearStep ==
  ASSUME NEW b, NEW len, HalfWritten(b, len)
  PROVE  Memset(b, len) \in Wholes
BY MemsetIsBuffer DEF HalfWritten, Wholes

\* No step of a writer or a reader breaks the invariant.
LEMMA UtsStep == UtsInv /\ [UtsNext]_utsVars => UtsInv'
<1> SUFFICES ASSUME UtsInv, [UtsNext]_utsVars PROVE UtsInv'
  OBVIOUS
<1>1. ASSUME NEW name \in UtsNames, sethostname(name) PROVE UtsInv'
  <2>1. name \in Legal /\ Len(name) \in Nat
    BY <1>1, UtsAssumption DEF sethostname, SetName, Legal
  <2>2. node \in Wholes /\ domain \in Wholes
    BY <1>1 DEF UtsInv, sethostname, SetName, NoWriter
  <2>3. HalfWritten(node', Len(name))
    BY <1>1, <2>1, <2>2, WriteStep DEF sethostname
  <2>4. writer' = [field |-> "node", len |-> Len(name)] /\ UNCHANGED <<domain, seen>>
    BY <1>1 DEF sethostname, SetName
  <2>5. writer'.field = "node" /\ writer'.len = Len(name)
    BY <2>4
  <2>6. QED
    BY <2>1, <2>2, <2>3, <2>4, <2>5 DEF UtsInv
<1>2. ASSUME NEW name \in UtsNames, setdomainname(name) PROVE UtsInv'
  <2>1. name \in Legal /\ Len(name) \in Nat
    BY <1>2, UtsAssumption DEF setdomainname, SetName, Legal
  <2>2. node \in Wholes /\ domain \in Wholes
    BY <1>2 DEF UtsInv, setdomainname, SetName, NoWriter
  <2>3. HalfWritten(domain', Len(name))
    BY <1>2, <2>1, <2>2, WriteStep DEF setdomainname
  <2>4. writer' = [field |-> "domain", len |-> Len(name)] /\ UNCHANGED <<node, seen>>
    BY <1>2 DEF setdomainname, SetName
  <2>5. writer'.field = "domain" /\ writer'.len = Len(name)
    BY <2>4
  <2>6. QED
    BY <2>1, <2>2, <2>3, <2>4, <2>5 DEF UtsInv
<1>3. CASE EndWrite
  <2>1. node' \in Wholes /\ domain' \in Wholes
    BY <1>3, ClearStep DEF EndWrite, UtsInv
  <2>2. writer' = NoWriter /\ writer'.field = "none" /\ seen' = seen
    BY <1>3 DEF EndWrite, NoWriter
  <2>3. QED
    BY <2>1, <2>2 DEF UtsInv
<1>4. CASE \/ \E uname26 \in BOOLEAN : newuname(uname26) \/ uname(uname26) \/ olduname(uname26)
           \/ \E len \in 0..UTS_LEN + 1 : gethostname(len)
  BY <1>4, ReadersSeeWholes DEF UtsInv
<1>5. CASE UNCHANGED utsVars
  BY <1>5 DEF utsVars, UtsInv
<1>6. QED
  BY <1>1, <1>2, <1>3, <1>4, <1>5 DEF UtsNext

(***************************************************************************)
(* For any names and any lengths of the two formats: no reader of the host *)
(* or domain name is given a mixture of two names, and strlen always finds *)
(* an end in the buffer it looks at.                                       *)
(***************************************************************************)
THEOREM NamesStayWhole == UtsSpec => []NamesAreWhole
<1>1. UtsInit => UtsInv
  <2> SUFFICES ASSUME UtsInit PROVE UtsInv
    OBVIOUS
  <2>1. <<>> \in Legal
    BY DEF Legal
  <2>2. node \in Wholes /\ domain \in Wholes
    BY <2>1 DEF UtsInit, Wholes
  <2>3. writer = NoWriter /\ writer.field = "none" /\ seen.call = "none"
    BY DEF UtsInit, NoWriter, NothingSeen
  <2>4. QED
    BY <2>2, <2>3 DEF UtsInv, SeenWhole
<1>2. ASSUME UtsInv PROVE NamesAreWhole
  <2>1. ASSUME NEW b \in Wholes PROVE Len(b) = UTS_LEN + 1 /\ b[UTS_LEN + 1] = NUL
    <3>1. PICK n \in Legal : b = Buffer(n)
      BY DEF Wholes
    <3>2. UTS_LEN + 1 \in Len(n) + 1..UTS_LEN + 1
      BY UtsAssumption, BufferShape
    <3>3. QED
      BY <3>1, <3>2, BufferShape
  <2>2. BuffersTerminated
    BY <1>2, <2>1 DEF BuffersTerminated, UtsInv, NoWriter
  <2>3. QED
    BY <1>2, <2>2 DEF UtsInv, SeenWhole, NamesAreWhole, Wholes
<1>3. QED
  BY <1>1, <1>2, UtsStep, PTL DEF UtsSpec

-----------------------------------------------------------------------------
(***************************************************************************)
(* Groups and sessions keep their shape, for any number of processes and   *)
(* any sequence of setpgid, setsid, fork, exec and exit.  No conjunct is   *)
(* inductive alone: that a group stays in one session needs to know where  *)
(* the process that gave the group its number is (GroupNearName), and that *)
(* a new leader runs into no old session needs all of them.                *)
(***************************************************************************)
\* The inductive invariant.
SessInv == SessTypeOK /\ GroupInOneSession /\ LeaderLeads /\ GroupNearName

\* The calls that change nothing but their return value.
LEMMA QuietStep ==
  ASSUME SessInv, UNCHANGED <<procs, parent, pgrp, sid, leader, forked>>
  PROVE  SessInv'
BY DEF SessInv, SessTypeOK, GroupInOneSession, LeaderLeads, GroupNearName

\* setpgid moves a process within the session of the caller.
LEMMA SetpgidKeeps ==
  ASSUME SessInv, NEW c \in procs, NEW p \in procs, NEW g,
         Movable(c, p), p \notin leader, GroupInSession(c, p, g),
         pgrp' = [pgrp EXCEPT ![p] = g],
         UNCHANGED <<procs, parent, sid, leader, forked>>
  PROVE  SessInv'
<1> USE DEF SessInv
<1>1. sid[p] = sid[c]
  BY DEF Movable
<1>2. g \in Pids
  BY DEF GroupInSession, Member, SessTypeOK
<1>3. SessTypeOK'
  BY <1>2 DEF SessTypeOK
<1>4. /\ pgrp'[p] = g
      /\ \A q \in procs : q # p => pgrp'[q] = pgrp[q]
  BY DEF SessTypeOK
<1>5. \A q \in procs : pgrp[q] = g => sid[q] = sid[p]
  <2>1. CASE g = p
    BY <2>1 DEF GroupNearName
  <2>2. CASE g # p
    BY <2>2, <1>1 DEF GroupInSession, Member, GroupInOneSession
  <2> QED BY <2>1, <2>2
<1>6. GroupInOneSession'
  BY <1>4, <1>5 DEF GroupInOneSession
<1>7. GroupNearName'
  <2>1. g \in procs => sid[g] = sid[p]
    BY <1>1 DEF GroupInSession, Member, GroupNearName
  <2> QED BY <2>1, <1>4 DEF GroupNearName
<1>8. LeaderLeads'
  BY <1>4 DEF LeaderLeads, SessTypeOK
<1> QED BY <1>3, <1>6, <1>7, <1>8

\* A new session starts with a group that nobody else is in.
LEMMA SetsidKeeps ==
  ASSUME SessInv, NEW c \in procs, MayLead(c),
         leader' = leader \cup {c}, sid' = [sid EXCEPT ![c] = c], pgrp' = [pgrp EXCEPT ![c] = c],
         UNCHANGED <<procs, parent, forked>>
  PROVE  SessInv'
<1> USE DEF SessInv
<1>1. SessTypeOK'
  BY DEF SessTypeOK
<1>2. /\ pgrp'[c] = c /\ sid'[c] = c
      /\ \A q \in procs : q # c => pgrp'[q] = pgrp[q] /\ sid'[q] = sid[q]
  BY DEF SessTypeOK
<1>3. \A q \in procs : pgrp[q] # c
  BY DEF MayLead, Member
<1>4. GroupInOneSession'
  BY <1>2, <1>3 DEF GroupInOneSession
<1>5. GroupNearName'
  BY <1>2, <1>3 DEF GroupNearName
<1>6. LeaderLeads'
  BY <1>2 DEF LeaderLeads, SessTypeOK
<1> QED BY <1>1, <1>4, <1>5, <1>6

\* A child takes group and session of its father and a number that neither
\* a process nor a group nor a session has.
LEMMA ForkKeeps ==
  ASSUME SessInv, NEW c \in procs, NEW n \in Pids, Fork(c, n)
  PROVE  SessInv'
<1> USE DEF SessInv, Fork
<1>1. SessTypeOK'
  BY DEF SessTypeOK
<1>2. /\ n \notin procs
      /\ \A q \in procs : pgrp[q] # n /\ sid[q] # n
  BY DEF Free
<1>3. /\ pgrp'[n] = pgrp[c] /\ sid'[n] = sid[c]
      /\ \A q \in procs : pgrp'[q] = pgrp[q] /\ sid'[q] = sid[q]
  BY <1>2 DEF SessTypeOK
<1>4. leader' = leader
  BY <1>2 DEF SessTypeOK
<1>5. GroupInOneSession'
  BY <1>2, <1>3 DEF GroupInOneSession
<1>6. GroupNearName'
  BY <1>2, <1>3 DEF GroupNearName
<1>7. LeaderLeads'
  BY <1>2, <1>3, <1>4 DEF LeaderLeads, SessTypeOK
<1> QED BY <1>1, <1>5, <1>6, <1>7

\* The last of a group or session may go; the others are not touched.
LEMMA ExitKeeps ==
  ASSUME SessInv, SessAssumption, NEW c \in procs, Exit(c)
  PROVE  SessInv'
<1> USE DEF SessInv, Exit
<1>1. SessTypeOK'
  BY DEF SessTypeOK, SessAssumption
<1>2. \A q \in procs' : q \in procs /\ q # c /\ pgrp'[q] = pgrp[q] /\ sid'[q] = sid[q]
  BY DEF SessTypeOK
<1>3. GroupInOneSession'
  BY <1>2 DEF GroupInOneSession
<1>4. GroupNearName'
  BY <1>2 DEF GroupNearName
<1>5. LeaderLeads'
  BY <1>2 DEF LeaderLeads, SessTypeOK
<1> QED BY <1>1, <1>3, <1>4, <1>5

\* The first process leads its own group and session.
LEMMA SessInitInv == ASSUME SessAssumption, SessInit PROVE SessInv
BY DEF SessAssumption, SessInit, SessInv, SessTypeOK, GroupInOneSession, LeaderLeads, GroupNearName

\* Every step keeps the four parts of the invariant.
LEMMA SessStep ==
  ASSUME SessAssumption, SessInv, [SessNext]_sessVars
  PROVE  SessInv'
<1>1. CASE UNCHANGED sessVars
  BY <1>1, QuietStep DEF sessVars
<1>2. ASSUME NEW c \in procs, NEW pid \in Pids \cup Tids \cup {NoPid}, NEW pgid \in Pids \cup {NoPid}, setpgid(c, pid, pgid)
      PROVE  SessInv'
  <2> DEFINE p == IF pid = NoPid THEN c ELSE pid
             g == IF pgid = NoPid THEN p ELSE pgid
  <2>1. CASE UNCHANGED <<procs, parent, pgrp, sid, leader, forked>>
    BY <2>1, QuietStep
  <2>2. CASE /\ p \in procs /\ Movable(c, p) /\ p \notin leader /\ GroupInSession(c, p, g)
             /\ pgrp' = [pgrp EXCEPT ![p] = g]
             /\ UNCHANGED <<procs, parent, sid, leader, forked>>
    <3> HIDE DEF p, g
    <3> QED BY <2>2, SetpgidKeeps
  <2> QED BY <1>2, <2>1, <2>2 DEF setpgid, SessFail
<1>3. ASSUME NEW c \in procs, setsid(c) PROVE SessInv'
  <2>1. CASE UNCHANGED <<procs, parent, pgrp, sid, leader, forked>>
    BY <2>1, QuietStep
  <2>2. CASE /\ MayLead(c) /\ leader' = leader \cup {c}
             /\ sid' = [sid EXCEPT ![c] = c] /\ pgrp' = [pgrp EXCEPT ![c] = c]
             /\ UNCHANGED <<procs, parent, forked>>
    BY <2>2, SetsidKeeps
  <2> QED BY <1>3, <2>1, <2>2 DEF setsid, SessFail
<1>4. ASSUME NEW c \in procs,
             (\E pid \in Pids \cup {NoPid} : getpgid(c, pid) \/ getsid(c, pid)) \/ getpid(c) \/ getppid(c)
      PROVE  SessInv'
  <2>1. UNCHANGED <<procs, parent, pgrp, sid, leader, forked>>
    BY <1>4 DEF getpgid, getsid, getpid, getppid, SessRead
  <2> QED BY <2>1, QuietStep
<1>5. ASSUME NEW c \in procs, NEW n \in Pids, Fork(c, n) PROVE SessInv'
  BY <1>5, ForkKeeps
<1>6. ASSUME NEW c \in procs, Exec(c) PROVE SessInv'
  BY <1>6 DEF Exec, SessInv, SessTypeOK, GroupInOneSession, LeaderLeads, GroupNearName
<1>7. ASSUME NEW c \in procs, Exit(c) PROVE SessInv'
  BY <1>7, ExitKeeps
<1> QED BY <1>1, <1>2, <1>3, <1>4, <1>5, <1>6, <1>7 DEF SessNext

\* The four parts together are an invariant of setpgid, setsid, fork, exec
\* and exit, for every set of process ids.
THEOREM SessInvHolds == SessSpec => []SessInv
<1>1. SessInit => SessInv
  BY SessAssumption, SessInitInv
<1>2. SessInv /\ [SessNext]_sessVars => SessInv'
  BY SessAssumption, SessStep
<1> QED BY <1>1, <1>2, PTL DEF SessSpec

\* Processes, groups, sessions and leaders keep their types.
THEOREM SessTypeCorrect == SessSpec => []SessTypeOK
BY SessInvHolds, PTL DEF SessInv

\* No process group ever spans two sessions, whoever joins, leaves or exits;
\* a group that carries the number of a living process is in its session; and
\* whoever leads a session is in the session and group of its own number, so
\* that setsid, which only looks for a group, meets no old session.
THEOREM ShapeIsKept == SessSpec => []SessionShape
<1>1. SessInv => SessionShape
  BY DEF SessInv, SessionShape
<1> QED
  BY <1>1, SessInvHolds, PTL

-----------------------------------------------------------------------------
(***************************************************************************)
(* Theorems about the resource limits, for any callers, resources and      *)
(* sizes of the integers that satisfy RlimAssumption.                      *)
(***************************************************************************)
\* SoftWithinHard and CpuTimerArmed are inductive once the types are known,
\* among them that only a call on the CPU limit is on its way to the timer.
RlimInv == RlimTypeOK /\ SoftWithinHard /\ CpuTimerArmed

-----------------------------------------------------------------------------
\* A caller that is idle is in a state of a caller.
LEMMA NoCallIsCall == NoCall \in Call
  BY RlimAssumption DEF NoCall, Call, NoPair, Pairs, Limits

\* What the arguments of setrlimit become in either ABI is a pair of longs.
LEMMA FromCompatIsPair == \A p \in Pairs32 : FromCompat(p) \in Pairs
  BY RlimAssumption DEF Pairs32, Pairs, Limits, FromCompat, CompatIn

\* So is what the arguments of prlimit64 become, whatever the size of a long.
LEMMA FromRlim64IsPair == \A p \in Pairs64 : rlim64_to_rlim(p) \in Pairs
  BY RlimAssumption
  DEF Pairs64, Pairs, Limits, rlim64_to_rlim, Rlim64In, rlim64_is_infinity

\* The limits a process starts with satisfy the invariant.
LEMMA RlimInitInv == RlimInit => RlimInv
<1> SUFFICES ASSUME RlimInit PROVE RlimInv
  OBVIOUS
<1>1. RlimTypeOK
  BY RlimAssumption, NoCallIsCall
  DEF RlimInit, RlimTypeOK, FirstLimit, Pairs, Limits, NoCall
<1>2. SoftWithinHard
  BY RlimAssumption DEF RlimInit, SoftWithinHard, FirstLimit
<1>3. CpuTimerArmed
  BY RlimAssumption DEF RlimInit, CpuTimerArmed, FirstLimit
<1> QED
  BY <1>1, <1>2, <1>3 DEF RlimInv

\* A call that starts brings a pair of longs with it and touches no limit.
LEMMA StartKeepsInv ==
  ASSUME NEW c \in Callers, NEW res \in Resources, NEW change \in BOOLEAN, NEW new \in Pairs,
         RlimInv, Start(c, res, change, new)
  PROVE  RlimInv'
<1>1. RlimTypeOK'
  BY DEF RlimInv, RlimTypeOK, Start, Call
<1>2. SoftWithinHard'
  BY DEF RlimInv, SoftWithinHard, Start
<1>3. CpuTimerArmed'
  <2>1. ASSUME NEW d \in Callers, rlimCall[d].pc = "arm"
        PROVE  rlimCall'[d] = rlimCall[d]
    BY <2>1 DEF RlimInv, RlimTypeOK, Start, NoCall
  <2> QED
    BY <2>1 DEF RlimInv, RlimTypeOK, CpuTimerArmed, Start
<1> QED
  BY <1>1, <1>2, <1>3 DEF RlimInv

\* A call that ends without having changed a limit was not about to arm the
\* timer, so the timer is still early enough.
LEMMA RefusalKeepsInv ==
  ASSUME NEW c \in Callers, RlimInv, rlimCall[c].pc = "do",
         rlimCall' = [rlimCall EXCEPT ![c] = NoCall],
         UNCHANGED <<rlim, cpuTimer, alive>>
  PROVE  RlimInv'
<1>1. RlimTypeOK'
  BY NoCallIsCall DEF RlimInv, RlimTypeOK, NoCall
<1>2. SoftWithinHard'
  BY DEF RlimInv, SoftWithinHard
<1>3. CpuTimerArmed'
  BY DEF RlimInv, RlimTypeOK, CpuTimerArmed
<1> QED
  BY <1>1, <1>2, <1>3 DEF RlimInv

\* A limit that is changed was checked first, and the caller goes on to the
\* timer exactly when the new limit needs it.
LEMMA ChangeKeepsInv ==
  ASSUME NEW c \in Callers, RlimInv, rlimCall[c].pc = "do",
         DoError(c, rlimCall[c].res, rlimCall[c].new) = "OK",
         rlim' = [rlim EXCEPT ![rlimCall[c].res] = rlimCall[c].new],
         IF NeedsTimer(rlimCall[c].res, rlimCall[c].new)
         THEN rlimCall' = [rlimCall EXCEPT ![c].pc = "arm"]
         ELSE rlimCall' = [rlimCall EXCEPT ![c] = NoCall],
         UNCHANGED <<cpuTimer, alive>>
  PROVE  RlimInv'
<1> DEFINE res == rlimCall[c].res
           new == rlimCall[c].new
<1>1. res \in Resources /\ new \in Pairs /\ rlim \in [Resources -> Pairs]
  BY DEF RlimInv, RlimTypeOK, Call
<1>2. rlim' = [rlim EXCEPT ![res] = new]
  OBVIOUS
<1>3. /\ ~(new.cur > new.max)
      /\ ~(res = "RLIMIT_NOFILE" /\ new.max > NrOpen)
  BY DEF DoError
<1>4. new.cur <= new.max /\ (res = "RLIMIT_NOFILE" => new.max <= NrOpen)
  BY <1>1, <1>3, RlimAssumption DEF Pairs, Limits
<1>5. RlimTypeOK'
  <2>1. rlim' \in [Resources -> Pairs]
    BY <1>1, <1>2
  <2>2. rlimCall[c] \in Call /\ rlimCall \in [Callers -> Call]
    BY DEF RlimInv, RlimTypeOK
  <2>3. CASE NeedsTimer(res, new)
    <3> DEFINE armed == [rlimCall[c] EXCEPT !.pc = "arm"]
    <3>1. rlimCall' = [rlimCall EXCEPT ![c] = armed]
      BY <2>3, Zenon
    <3>2. armed \in Call /\ armed.pc = "arm" /\ armed.res = res /\ armed.res = "RLIMIT_CPU"
      BY <2>2, <2>3 DEF Call, NeedsTimer
    <3> HIDE DEF armed
    <3> QED
      BY <2>1, <2>2, <3>1, <3>2, RlimAssumption DEF RlimInv, RlimTypeOK
  <2>4. CASE ~NeedsTimer(res, new)
    <3>1. rlimCall' = [rlimCall EXCEPT ![c] = NoCall]
      BY <2>4, Zenon
    <3>2. NoCall \in Call /\ NoCall.pc = "idle"
      BY NoCallIsCall DEF NoCall
    <3> QED
      BY <2>1, <2>2, <3>1, <3>2 DEF RlimInv, RlimTypeOK
  <2> QED
    BY <2>3, <2>4
<1>6. SoftWithinHard'
  BY <1>1, <1>2, <1>4 DEF RlimInv, SoftWithinHard
<1>7. CpuTimerArmed'
  <2>1. CASE res = "RLIMIT_CPU" /\ new.cur # RLIM_INFINITY
    <3>1. rlimCall'[c].pc = "arm" /\ rlimCall'[c].new.cur = rlim'["RLIMIT_CPU"].cur
      BY <2>1, <1>1, <1>2 DEF RlimInv, RlimTypeOK, NeedsTimer, Call
    <3>2. rlim'["RLIMIT_CPU"].cur <= rlim'["RLIMIT_CPU"].cur
      BY <2>1, <1>1, <1>2 DEF Pairs, Limits
    <3> QED
      BY <3>1, <3>2 DEF CpuTimerArmed
  <2>2. CASE res = "RLIMIT_CPU" /\ new.cur = RLIM_INFINITY
    BY <2>2, <1>1, <1>2 DEF CpuTimerArmed
  <2>3. CASE res # "RLIMIT_CPU"
    <3>1. rlim'["RLIMIT_CPU"] = rlim["RLIMIT_CPU"]
      BY <2>3, <1>1, <1>2, RlimAssumption
    <3>2. ASSUME NEW d \in Callers, rlimCall[d].pc = "arm"
          PROVE  rlimCall'[d] = rlimCall[d]
      BY <3>2 DEF RlimInv, RlimTypeOK
    <3> QED
      BY <3>1, <3>2 DEF RlimInv, CpuTimerArmed
  <2> QED
    BY <2>1, <2>2, <2>3
<1> QED
  BY <1>5, <1>6, <1>7 DEF RlimInv

\* update_rlimit_cpu brings the timer forward to the limit its caller wrote,
\* never back past what another caller asked for.
LEMMA ArmKeepsInv ==
  ASSUME NEW c \in Callers, RlimInv, update_rlimit_cpu(c)
  PROVE  RlimInv'
<1>1. /\ rlimCall[c].pc = "arm"
      /\ cpuTimer' = Armed(cpuTimer, rlimCall[c].new.cur)
      /\ rlimCall' = [rlimCall EXCEPT ![c] = NoCall]
      /\ rlim' = rlim /\ alive' = alive
  BY DEF update_rlimit_cpu, Finish
<1>2. /\ cpuTimer \in Nat /\ rlimCall[c].new.cur \in Nat
      /\ cpuTimer <= RLIM_INFINITY /\ rlimCall[c].new.cur <= RLIM_INFINITY
      /\ rlim["RLIMIT_CPU"].cur \in Nat
  BY RlimAssumption DEF RlimInv, RlimTypeOK, Call, Pairs, Limits
<1>3. /\ cpuTimer' \in Limits
      /\ cpuTimer' <= cpuTimer /\ cpuTimer' <= rlimCall[c].new.cur
  BY <1>1, <1>2, RlimAssumption DEF Armed, Least, Limits
<1>4. RlimTypeOK'
  BY <1>1, <1>3, NoCallIsCall DEF RlimInv, RlimTypeOK, NoCall
<1>5. SoftWithinHard'
  BY <1>1 DEF RlimInv, SoftWithinHard
<1>6. CpuTimerArmed'
  <2>1. SUFFICES ASSUME rlim["RLIMIT_CPU"].cur # RLIM_INFINITY,
                        ~(cpuTimer' <= rlim["RLIMIT_CPU"].cur)
                 PROVE  \E d \in Callers :
                          rlimCall'[d].pc = "arm" /\ rlimCall'[d].new.cur <= rlim["RLIMIT_CPU"].cur
    BY <1>1 DEF CpuTimerArmed
  <2>2. ~(cpuTimer <= rlim["RLIMIT_CPU"].cur) /\ ~(rlimCall[c].new.cur <= rlim["RLIMIT_CPU"].cur)
    BY <2>1, <1>2, <1>3 DEF Limits
  <2>3. PICK d \in Callers : rlimCall[d].pc = "arm" /\ rlimCall[d].new.cur <= rlim["RLIMIT_CPU"].cur
    BY <2>1, <2>2 DEF RlimInv, CpuTimerArmed
  <2>4. d # c
    BY <2>2, <2>3
  <2>5. rlimCall'[d] = rlimCall[d]
    BY <2>4, <1>1 DEF RlimInv, RlimTypeOK
  <2> QED
    BY <2>3, <2>5
<1> QED
  BY <1>4, <1>5, <1>6 DEF RlimInv

\* Every step keeps the invariant.
LEMMA RlimStep == RlimInv /\ [RlimNext]_rlimVars => RlimInv'
<1> SUFFICES ASSUME RlimInv, [RlimNext]_rlimVars PROVE RlimInv'
  OBVIOUS
<1>1. ASSUME UNCHANGED <<rlim, cpuTimer, alive, rlimCall>> PROVE RlimInv'
  BY <1>1 DEF RlimInv, RlimTypeOK, SoftWithinHard, CpuTimerArmed
<1>2. ASSUME NEW c \in Callers, NEW res \in Resources, NEW new \in Pairs, setrlimit(c, res, new)
      PROVE  RlimInv'
  BY <1>2, StartKeepsInv DEF setrlimit
<1>3. ASSUME NEW c \in Callers, NEW res \in Resources, NEW new32 \in Pairs32,
             compat_setrlimit(c, res, new32)
      PROVE  RlimInv'
  BY <1>3, StartKeepsInv, FromCompatIsPair DEF compat_setrlimit
<1>4. ASSUME NEW c \in Callers, NEW res \in Resources, NEW change \in BOOLEAN,
             NEW new64 \in Pairs64, prlimit64(c, res, change, new64)
      PROVE  RlimInv'
  BY <1>4, StartKeepsInv, FromRlim64IsPair DEF prlimit64
<1>5. NoPair \in Pairs64
  BY RlimAssumption DEF NoPair, Pairs64
<1>6. ASSUME NEW c \in Callers, NEW res \in Resources,
             \/ getrlimit(c, res) \/ compat_getrlimit(c, res)
             \/ old_getrlimit(c, res) \/ compat_old_getrlimit(c, res)
      PROVE  RlimInv'
  BY <1>1, <1>6 DEF getrlimit, compat_getrlimit, old_getrlimit, compat_old_getrlimit, Read
<1>7. ASSUME NEW c \in Callers, do_prlimit(c) PROVE RlimInv'
  <2>1. rlimCall[c].pc = "do"
    BY <1>7 DEF do_prlimit
  <2>2. CASE rlimCall' = [rlimCall EXCEPT ![c] = NoCall] /\ UNCHANGED <<rlim, cpuTimer, alive>>
    BY <2>1, <2>2, RefusalKeepsInv
  <2>3. CASE /\ DoError(c, rlimCall[c].res, rlimCall[c].new) = "OK"
             /\ rlim' = [rlim EXCEPT ![rlimCall[c].res] = rlimCall[c].new]
             /\ IF NeedsTimer(rlimCall[c].res, rlimCall[c].new)
                THEN rlimCall' = [rlimCall EXCEPT ![c].pc = "arm"]
                ELSE rlimCall' = [rlimCall EXCEPT ![c] = NoCall]
             /\ UNCHANGED <<cpuTimer, alive>>
    BY <2>1, <2>3, ChangeKeepsInv
  <2> QED
    BY <1>7, <2>2, <2>3 DEF do_prlimit, Finish
<1>8. ASSUME NEW c \in Callers, update_rlimit_cpu(c) PROVE RlimInv'
  BY <1>8, ArmKeepsInv
<1>9. CASE TimerFires
  <2>1. cpuTimer' = rlim["RLIMIT_CPU"].cur /\ rlim["RLIMIT_CPU"].cur \in Limits
    BY <1>9, RlimAssumption DEF TimerFires, RlimInv, RlimTypeOK, Pairs
  <2>2. RlimTypeOK' /\ SoftWithinHard'
    BY <1>9, <2>1 DEF TimerFires, RlimInv, RlimTypeOK, SoftWithinHard
  <2>3. CpuTimerArmed'
    BY <1>9, <2>1, RlimAssumption DEF TimerFires, CpuTimerArmed, Limits
  <2> QED
    BY <2>2, <2>3 DEF RlimInv
<1>10. CASE Die
  BY <1>10 DEF Die, RlimInv, RlimTypeOK, SoftWithinHard, CpuTimerArmed
<1>11. CASE UNCHANGED rlimVars
  BY <1>1, <1>11 DEF rlimVars
<1> QED
  BY <1>2, <1>3, <1>4, <1>5, <1>6, <1>7, <1>8, <1>9, <1>10, <1>11 DEF RlimNext

-----------------------------------------------------------------------------
\* The invariant of do_prlimit and the CPU timer holds in every state.
THEOREM RlimInvHolds == RlimSpec => []RlimInv
<1> QED
  BY RlimInitInv, RlimStep, PTL DEF RlimSpec

\* The limits, the timer and the calls under way always have their types.
THEOREM RlimTypeCorrect == RlimSpec => []RlimTypeOK
<1>1. RlimInv => RlimTypeOK
  BY DEF RlimInv
<1> QED
  BY <1>1, RlimInvHolds, PTL

\* However setrlimit, compat setrlimit and prlimit64 calls race, no soft limit
\* exceeds its hard limit and no process may open more than sysctl_nr_open
\* files.
THEOREM SoftStaysWithinHard == RlimSpec => []SoftWithinHard
<1>1. RlimInv => SoftWithinHard
  BY DEF RlimInv
<1> QED
  BY <1>1, RlimInvHolds, PTL

\* Although do_prlimit arms the CPU timer after dropping task_lock, the timer
\* is never later than the soft limit in force once the calls have returned.
THEOREM TimerNeverLate == RlimSpec => []CpuTimerArmed
<1>1. RlimInv => CpuTimerArmed
  BY DEF RlimInv
<1> QED
  BY <1>1, RlimInvHolds, PTL

\* Every ABI shows an ordered pair, and what a program reads with prlimit64,
\* or with the 32-bit call where 32 bits suffice, it can write back unchanged.
THEOREM AbisAlwaysAgree == RlimSpec => []AbisAgree
<1>1. ASSUME RlimInv PROVE AbisAgree
  <2> SUFFICES ASSUME NEW r \in Resources
               PROVE  /\ ToCompat(rlim[r]).cur <= ToCompat(rlim[r]).max
                      /\ ToOld(rlim[r]).cur <= ToOld(rlim[r]).max
                      /\ rlim64_to_rlim(rlim_to_rlim64(rlim[r])) = rlim[r]
                      /\ \A x \in {rlim[r].cur, rlim[r].max} :
                           x < COMPAT_RLIM_INFINITY \/ x = RLIM_INFINITY =>
                             CompatIn(Least(x, COMPAT_RLIM_INFINITY)) = x
    BY DEF AbisAgree
  <2>1. rlim[r] \in Pairs /\ rlim[r].cur <= rlim[r].max
    BY <1>1 DEF RlimInv, RlimTypeOK, SoftWithinHard
  <2>2. rlim[r].cur \in Limits /\ rlim[r].max \in Limits
    BY <2>1 DEF Pairs
  <2>3. ToCompat(rlim[r]).cur <= ToCompat(rlim[r]).max /\ ToOld(rlim[r]).cur <= ToOld(rlim[r]).max
    BY <2>1, <2>2, RlimAssumption DEF Limits, ToCompat, ToOld, Least
  <2>4. \A x \in Limits : Rlim64In(Rlim64Out(x)) = x
    BY RlimAssumption DEF Limits, Rlim64In, Rlim64Out, rlim64_is_infinity
  <2>5. rlim64_to_rlim(rlim_to_rlim64(rlim[r])) = rlim[r]
    BY <2>1, <2>2, <2>4 DEF Pairs, rlim64_to_rlim, rlim_to_rlim64
  <2>6. \A x \in Limits : x < COMPAT_RLIM_INFINITY \/ x = RLIM_INFINITY =>
                            CompatIn(Least(x, COMPAT_RLIM_INFINITY)) = x
    BY RlimAssumption DEF Limits, CompatIn, Least
  <2> QED
    BY <2>2, <2>3, <2>5, <2>6
<1> QED
  BY <1>1, RlimInvHolds, PTL

-----------------------------------------------------------------------------
(***************************************************************************)
(* The ids: the argument is that a caller without the capability can only  *)
(* name ids it holds already (StepsOfUids, StepsOfGids), and that a        *)
(* capability that is effective is permitted, so that one that is not      *)
(* permitted cannot be used.                                               *)
(***************************************************************************)

\* The inductive invariant.
CredInv == CredTypeOK /\ UserIsRealUid

\* What every step does.
GoodStep == CredInv' /\ NothingRegained

\* A call that fails, or only reports, changes no id and no capability.
LEMMA FailIsGood ==
  ASSUME CredInv, UNCHANGED <<uid, gid, user, exceeded, permitted, effective>>
  PROVE  GoodStep
BY DEF CredInv, CredTypeOK, UserIsRealUid, GoodStep, NothingRegained

\* A new set of uids, from ids the task holds or with the capability.
LEMMA CommitUidIsGood ==
  ASSUME CredInv, NEW new \in IdSet, CommitUid(new),
         Held(new) \subseteq Held(uid) \/ Capable("CAP_SETUID")
  PROVE  GoodStep
<1>1. CASE UNCHANGED <<uid, gid, user, exceeded, permitted, effective>>
  BY <1>1, FailIsGood
<1>2. CASE \E over \in BOOLEAN :
             /\ set_user(new, over)
             /\ \/ /\ uid' = new
                   /\ user' = IF new.r = uid.r THEN user ELSE new.r
                   /\ FixSetuid(uid, new)
                   /\ idRet' = 0
                \/ idRet' = "EPERM" /\ UNCHANGED <<uid, user, permitted, effective>>
             /\ UNCHANGED gid
  <2>1. exceeded' \in BOOLEAN
    BY <1>2, Zenon DEF set_user, CredInv, CredTypeOK
  <2>2. CASE uid' = uid /\ UNCHANGED <<gid, user, permitted, effective>>
    BY <2>1, <2>2 DEF CredInv, CredTypeOK, UserIsRealUid, GoodStep, NothingRegained
  <2>3. CASE /\ uid' = new
             /\ user' = IF new.r = uid.r THEN user ELSE new.r
             /\ FixSetuid(uid, new)
             /\ UNCHANGED gid
    <3>1. permitted' \subseteq permitted /\ effective' \subseteq permitted'
      <4>1. CASE LosesRoot(uid, new)
        <5>1. new.e # Root
          BY <4>1 DEF LosesRoot, Triple
        <5> QED BY <2>3, <4>1, <5>1 DEF FixSetuid
      <4>2. CASE ~LosesRoot(uid, new)
        <5>1. permitted' = permitted /\ effective' \in {{}, permitted, effective}
          BY <2>3, <4>2 DEF FixSetuid
        <5> QED BY <5>1 DEF CredInv, CredTypeOK
      <4> QED BY <4>1, <4>2
    <3>2. user' = new.r
      BY <2>3 DEF CredInv, UserIsRealUid
    <3>3. CredInv'
      BY <2>1, <2>3, <3>1, <3>2 DEF CredInv, CredTypeOK, UserIsRealUid, IdSet
    <3>4. NothingRegained
      BY <2>3, <3>1 DEF NothingRegained, Capable, CredInv, CredTypeOK
    <3> QED BY <3>3, <3>4 DEF GoodStep
  <2> QED BY <1>2, <2>2, <2>3
<1> QED BY <1>1, <1>2 DEF CommitUid, Fail

\* The same for a new set of gids.
LEMMA CommitGidIsGood ==
  ASSUME CredInv, NEW new \in IdSet, CommitGid(new),
         Held(new) \subseteq Held(gid) \/ Capable("CAP_SETGID")
  PROVE  GoodStep
<1>1. CASE UNCHANGED <<uid, gid, user, exceeded, permitted, effective>>
  BY <1>1, FailIsGood
<1>2. CASE gid' = new /\ UNCHANGED <<uid, user, exceeded, permitted, effective>>
  BY <1>2 DEF CredInv, CredTypeOK, UserIsRealUid, GoodStep, NothingRegained, Capable
<1> QED BY <1>1, <1>2 DEF CommitGid, Fail

\* The ids that setre*id, set*id and setres*id compute: legal, and held
\* before unless the caller has the capability.
LEMMA ReIdsLegal ==
  ASSUME CredAssumption, NEW old \in IdSet, NEW r \in IdArgs, NEW e \in IdArgs, NEW cap,
         Given({r, e}) \subseteq Mapped, ReAllowed(old, r, e, cap)
  PROVE  ReIds(old, r, e) \in IdSet /\ (Held(ReIds(old, r, e)) \subseteq Held(old) \/ Capable(cap))
<1>1. Or(r, old.r) \in Ids /\ Or(e, old.e) \in Ids
  BY DEF Or, IdArgs, IdSet
<1>2. ReIds(old, r, e) \in IdSet
  BY <1>1 DEF ReIds, IdSet
<1>3. ASSUME ~Capable(cap) PROVE Held(ReIds(old, r, e)) \subseteq Held(old)
  <2>1. Or(r, old.r) \in Held(old) /\ Or(e, old.e) \in Held(old)
    BY <1>3 DEF ReAllowed, Or, Held
  <2> QED BY <2>1 DEF ReIds, Held
<1> QED BY <1>2, <1>3

\* setuid and setgid with the capability set all four ids to a legal one.
LEMMA ExecIdsLegal ==
  ASSUME NEW id \in Ids
  PROVE  ExecIds(id, id) \in IdSet
BY DEF ExecIds, IdSet

\* Without the capability they switch to an id the task holds.
LEMMA SwitchLegal ==
  ASSUME NEW old \in IdSet, NEW id \in {old.r, old.s}
  PROVE  /\ [old EXCEPT !.e = id, !.fs = id] \in IdSet
         /\ Held([old EXCEPT !.e = id, !.fs = id]) \subseteq Held(old)
BY DEF IdSet, Held

\* setresuid and setresgid without the capability rearrange the three ids.
LEMMA ResIdsLegal ==
  ASSUME CredAssumption, NEW old \in IdSet, NEW r \in IdArgs, NEW e \in IdArgs, NEW s \in IdArgs, NEW cap,
         Capable(cap) \/ Given({r, e, s}) \subseteq Triple(old)
  PROVE  ResIds(old, r, e, s) \in IdSet /\ (Held(ResIds(old, r, e, s)) \subseteq Held(old) \/ Capable(cap))
<1>1. Or(r, old.r) \in Ids /\ Or(e, old.e) \in Ids /\ Or(s, old.s) \in Ids
  BY DEF Or, IdArgs, IdSet
<1>2. ResIds(old, r, e, s) \in IdSet
  BY <1>1 DEF ResIds, IdSet
<1>3. ASSUME ~Capable(cap) PROVE Held(ResIds(old, r, e, s)) \subseteq Held(old)
  <2>1. Or(r, old.r) \in Held(old) /\ Or(e, old.e) \in Held(old) /\ Or(s, old.s) \in Held(old)
    BY <1>3 DEF Given, Triple, Or, Held
  <2> QED BY <2>1 DEF ResIds, Held
<1> QED BY <1>2, <1>3

-----------------------------------------------------------------------------
\* Every call on uids keeps the invariant and regains nothing.
LEMMA StepsOfUids ==
  ASSUME CredAssumption, CredInv, NEW r \in IdArgs, NEW e \in IdArgs, NEW s \in IdArgs,
         setreuid(r, e) \/ setuid(r) \/ setresuid(r, e, s) \/ setfsuid(r)
  PROVE  GoodStep
<1>0. uid \in IdSet
  BY DEF CredInv, CredTypeOK
<1>1. CASE setreuid(r, e)
  <2>1. CASE UNCHANGED <<uid, gid, user, exceeded, permitted, effective>>
    BY <2>1, FailIsGood
  <2>2. CASE /\ Given({r, e}) \subseteq Mapped /\ ReAllowed(uid, r, e, "CAP_SETUID")
             /\ CommitUid(ReIds(uid, r, e))
    BY <1>0, <2>2, ReIdsLegal, CommitUidIsGood
  <2> QED BY <1>1, <2>1, <2>2 DEF setreuid, Attempt, Fail
<1>2. CASE setuid(r)
  <2> DEFINE new == IF Capable("CAP_SETUID") THEN ExecIds(r, r) ELSE [uid EXCEPT !.e = r, !.fs = r]
  <2>1. CASE UNCHANGED <<uid, gid, user, exceeded, permitted, effective>>
    BY <2>1, FailIsGood
  <2>2. CASE /\ {r} \subseteq Mapped /\ (Capable("CAP_SETUID") \/ r \in {uid.r, uid.s})
             /\ CommitUid(new)
    <3>1. r \in Ids
      BY <2>2 DEF CredAssumption
    <3>2. new \in IdSet /\ (Held(new) \subseteq Held(uid) \/ Capable("CAP_SETUID"))
      BY <1>0, <2>2, <3>1, ExecIdsLegal, SwitchLegal
    <3> HIDE DEF new
    <3> QED BY <2>2, <3>2, CommitUidIsGood
  <2> QED BY <1>2, <2>1, <2>2 DEF setuid, Attempt, Fail
<1>3. CASE setresuid(r, e, s)
  <2>1. CASE UNCHANGED <<uid, gid, user, exceeded, permitted, effective>>
    BY <2>1, FailIsGood
  <2>2. CASE /\ Capable("CAP_SETUID") \/ Given({r, e, s}) \subseteq Triple(uid)
             /\ CommitUid(ResIds(uid, r, e, s))
    BY <1>0, <2>2, ResIdsLegal, CommitUidIsGood
  <2> QED BY <1>3, <2>1, <2>2 DEF setresuid, Attempt, Fail
<1>4. CASE setfsuid(r)
  <2>1. CASE UNCHANGED uid
    BY <1>4, <2>1, FailIsGood DEF setfsuid
  <2>2. CASE r \in Mapped /\ (Capable("CAP_SETUID") \/ r \in Held(uid)) /\ uid' = [uid EXCEPT !.fs = r]
    <3>1. uid' \in IdSet /\ uid'.r = uid.r
      BY <1>0, <2>2 DEF CredAssumption, IdSet
    <3>2. Held(uid') \subseteq Held(uid) \/ Capable("CAP_SETUID")
      BY <1>0, <2>2 DEF Held, IdSet
    <3> QED BY <1>4, <3>1, <3>2 DEF setfsuid, GoodStep, CredInv, CredTypeOK, UserIsRealUid, NothingRegained, Capable
  <2> QED BY <1>4, <2>1, <2>2 DEF setfsuid
<1> QED BY <1>1, <1>2, <1>3, <1>4

\* So does every call on gids.
LEMMA StepsOfGids ==
  ASSUME CredAssumption, CredInv, NEW r \in IdArgs, NEW e \in IdArgs, NEW s \in IdArgs,
         setregid(r, e) \/ setgid(r) \/ setresgid(r, e, s) \/ setfsgid(r)
  PROVE  GoodStep
<1>0. gid \in IdSet
  BY DEF CredInv, CredTypeOK
<1>1. CASE setregid(r, e)
  <2>1. CASE UNCHANGED <<uid, gid, user, exceeded, permitted, effective>>
    BY <2>1, FailIsGood
  <2>2. CASE /\ Given({r, e}) \subseteq Mapped /\ ReAllowed(gid, r, e, "CAP_SETGID")
             /\ CommitGid(ReIds(gid, r, e))
    BY <1>0, <2>2, ReIdsLegal, CommitGidIsGood
  <2> QED BY <1>1, <2>1, <2>2 DEF setregid, Attempt, Fail
<1>2. CASE setgid(r)
  <2> DEFINE new == IF Capable("CAP_SETGID") THEN ExecIds(r, r) ELSE [gid EXCEPT !.e = r, !.fs = r]
  <2>1. CASE UNCHANGED <<uid, gid, user, exceeded, permitted, effective>>
    BY <2>1, FailIsGood
  <2>2. CASE /\ {r} \subseteq Mapped /\ (Capable("CAP_SETGID") \/ r \in {gid.r, gid.s})
             /\ CommitGid(new)
    <3>1. r \in Ids
      BY <2>2 DEF CredAssumption
    <3>2. new \in IdSet /\ (Held(new) \subseteq Held(gid) \/ Capable("CAP_SETGID"))
      BY <1>0, <2>2, <3>1, ExecIdsLegal, SwitchLegal
    <3> HIDE DEF new
    <3> QED BY <2>2, <3>2, CommitGidIsGood
  <2> QED BY <1>2, <2>1, <2>2 DEF setgid, Attempt, Fail
<1>3. CASE setresgid(r, e, s)
  <2>1. CASE UNCHANGED <<uid, gid, user, exceeded, permitted, effective>>
    BY <2>1, FailIsGood
  <2>2. CASE /\ Capable("CAP_SETGID") \/ Given({r, e, s}) \subseteq Triple(gid)
             /\ CommitGid(ResIds(gid, r, e, s))
    BY <1>0, <2>2, ResIdsLegal, CommitGidIsGood
  <2> QED BY <1>3, <2>1, <2>2 DEF setresgid, Attempt, Fail
<1>4. CASE setfsgid(r)
  <2>1. CASE UNCHANGED gid
    BY <1>4, <2>1, FailIsGood DEF setfsgid
  <2>2. CASE r \in Mapped /\ (Capable("CAP_SETGID") \/ r \in Held(gid)) /\ gid' = [gid EXCEPT !.fs = r]
    <3>1. gid' \in IdSet
      BY <1>0, <2>2 DEF CredAssumption, IdSet
    <3>2. Held(gid') \subseteq Held(gid) \/ Capable("CAP_SETGID")
      BY <1>0, <2>2 DEF Held, IdSet
    <3> QED BY <1>4, <3>1, <3>2 DEF setfsgid, GoodStep, CredInv, CredTypeOK, UserIsRealUid, NothingRegained, Capable
  <2> QED BY <1>4, <2>1, <2>2 DEF setfsgid
<1> QED BY <1>1, <1>2, <1>3, <1>4

\* So does every step.
LEMMA CredStep ==
  ASSUME CredAssumption, CredInv, CredNext
  PROVE  GoodStep
<1>1. ASSUME NEW r \in IdArgs, NEW e \in IdArgs, setregid(r, e) \/ setreuid(r, e) PROVE GoodStep
  BY <1>1, StepsOfUids, StepsOfGids
<1>2. ASSUME NEW id \in IdArgs, setgid(id) \/ setuid(id) \/ setfsuid(id) \/ setfsgid(id) PROVE GoodStep
  BY <1>2, StepsOfUids, StepsOfGids
<1>3. ASSUME NEW r \in IdArgs, NEW e \in IdArgs, NEW s \in IdArgs, setresuid(r, e, s) \/ setresgid(r, e, s)
      PROVE  GoodStep
  BY <1>3, StepsOfUids, StepsOfGids
<1>4. ASSUME \/ \E n \in 0..3 : getresuid(n) \/ getresgid(n)
             \/ getuid \/ geteuid \/ getgid \/ getegid
      PROVE  GoodStep
  <2>1. UNCHANGED <<uid, gid, user, exceeded, permitted, effective>>
    BY <1>4 DEF getresuid, getresgid, getuid, geteuid, getgid, getegid, Report
  <2> QED BY <2>1, FailIsGood
<1>5. ASSUME NEW keep \in SUBSET Capabilities, Capset(keep) PROVE GoodStep
  BY <1>5 DEF Capset, GoodStep, CredInv, CredTypeOK, UserIsRealUid, NothingRegained
<1> QED BY <1>1, <1>2, <1>3, <1>4, <1>5 DEF CredNext

\* A task starts with the user structure of its real uid.
LEMMA CredInitInv == ASSUME CredAssumption, CredInit PROVE CredInv
<1>1. uid \in IdSet /\ gid \in IdSet
  BY DEF CredInit, ExecIds, IdSet
<1>2. user \in Ids /\ user = uid.r /\ exceeded \in BOOLEAN
  BY <1>1 DEF CredInit, IdSet
<1>3. permitted \subseteq Capabilities /\ effective \subseteq permitted
  BY DEF CredInit
<1> QED BY <1>1, <1>2, <1>3 DEF CredInv, CredTypeOK, UserIsRealUid

-----------------------------------------------------------------------------
\* Types and the user structure together are an invariant of all set*id calls.
THEOREM CredInvHolds == CredSpec => []CredInv
<1>1. CredInit => CredInv
  BY CredAssumption, CredInitInv
<1>2. CredInv /\ [CredNext]_credVars => CredInv'
  <2> SUFFICES ASSUME CredInv, [CredNext]_credVars PROVE CredInv'
    OBVIOUS
  <2>1. CASE UNCHANGED credVars
    BY <2>1, FailIsGood DEF credVars, GoodStep
  <2>2. CASE CredNext
    BY <2>2, CredAssumption, CredStep DEF GoodStep
  <2> QED BY <2>1, <2>2
<1> QED BY <1>1, <1>2, PTL DEF CredSpec

\* Ids, flag and capabilities keep their types.
THEOREM CredTypeCorrect == CredSpec => []CredTypeOK
BY CredInvHolds, PTL DEF CredInv

\* Every change of the real uid goes along with its user structure.
THEOREM UserFollowsRealUid == CredSpec => []UserIsRealUid
BY CredInvHolds, PTL DEF CredInv

\* A task that is not permitted CAP_SETUID never gets back a uid it has let
\* go of, nor the capability, by any sequence of set*id calls; and the same
\* for groups.
THEOREM DroppedForGood == CredSpec => DropIsForGood
<1>1. CredInv /\ [CredNext]_credVars => [NothingRegained]_credVars
  BY CredAssumption, CredStep DEF GoodStep
<1> QED BY <1>1, CredInvHolds, PTL DEF CredSpec, DropIsForGood

-----------------------------------------------------------------------------
\* What threads have used, as a set of one pair for each tick.
Ticks(f, S) == UNION {{t} \X (1..f[t]) : t \in S}

LEMMA TicksFinite ==
  ASSUME NEW S, IsFiniteSet(S), NEW f, \A t \in S : f[t] \in Nat
  PROVE  IsFiniteSet(Ticks(f, S)) /\ Cardinality(Ticks(f, S)) \in Nat
<1> DEFINE row(t) == {t} \X (1..f[t])
           R == {row(t) : t \in S}
           g == [t \in S |-> row(t)]
<1>1. ASSUME NEW t \in S PROVE IsFiniteSet(row(t))
  <2>1. 1 \in Int /\ f[t] \in Int
    OBVIOUS
  <2>2. IsFiniteSet(1..f[t]) /\ IsFiniteSet({t})
    BY <2>1, FS_Interval, FS_Singleton
  <2>3. QED
    BY <2>2, FS_Product
<1>2. IsFiniteSet(R)
  <2>1. g \in Surjection(S, R)
    <3> HIDE DEF row
    <3>1. g \in [S -> R] /\ \A r \in R : \E t \in S : g[t] = r
      OBVIOUS
    <3> HIDE DEF g, R
    <3>2. QED
      BY <3>1 DEF Surjection
  <2> HIDE DEF g, R
  <2>2. QED
    BY <2>1, FS_Surjection
<1>3. \A r \in R : IsFiniteSet(r)
  BY <1>1
<1>4. IsFiniteSet(UNION R)
  <2> HIDE DEF R
  <2>1. QED
    BY <1>2, <1>3, FS_UNION
<1>5. QED
  BY <1>4, FS_CardinalityType DEF Ticks

\* One more thread.
LEMMA TicksOfOneMore ==
  ASSUME NEW S, IsFiniteSet(S), NEW f, \A t \in S : f[t] \in Nat, NEW x, x \notin S, f[x] \in Nat
  PROVE  Cardinality(Ticks(f, S \cup {x})) = Cardinality(Ticks(f, S)) + f[x]
<1>1. PICK n \in Nat : n = f[x]
  OBVIOUS
<1> DEFINE row == {x} \X (1..n)
<1>2. IsFiniteSet(row) /\ Cardinality(row) = n
  <2>1. 1 \in Int /\ n \in Int
    OBVIOUS
  <2>2. IsFiniteSet(1..n) /\ Cardinality(1..n) = IF 1 > n THEN 0 ELSE n - 1 + 1
    BY <2>1, FS_Interval
  <2>3. Cardinality(1..n) = n
    BY <2>2
  <2>4. IsFiniteSet({x}) /\ Cardinality({x}) = 1
    BY FS_Singleton
  <2>5. IsFiniteSet(row) /\ Cardinality(row) = Cardinality({x}) * Cardinality(1..n)
    BY <2>2, <2>4, FS_Product
  <2>6. QED
    BY <2>3, <2>4, <2>5
<1>3. Ticks(f, S \cup {x}) = Ticks(f, S) \cup row
  BY <1>1 DEF Ticks
<1>4. Ticks(f, S) \cap row = {}
  BY DEF Ticks
<1>5. IsFiniteSet(Ticks(f, S)) /\ Cardinality(Ticks(f, S)) \in Nat
  BY TicksFinite
<1> HIDE DEF row
<1>6. PICK k \in Nat : k = Cardinality(Ticks(f, S))
  BY <1>5
<1>7. Cardinality(Ticks(f, S) \cup row) = k + n - 0
  <2>1. /\ Cardinality(Ticks(f, S) \cup row)
           = Cardinality(Ticks(f, S)) + Cardinality(row) - Cardinality(Ticks(f, S) \cap row)
    BY <1>2, <1>5, FS_Union
  <2>2. Cardinality(Ticks(f, S) \cap row) = 0
    BY <1>4, FS_EmptySet
  <2>3. QED
    BY <1>2, <1>6, <2>1, <2>2
<1>8. Cardinality(Ticks(f, S \cup {x})) = k + n
  <2>1. Cardinality(Ticks(f, S \cup {x})) = Cardinality(Ticks(f, S) \cup row)
    BY <1>3, Zenon
  <2>2. k + n - 0 = k + n
    OBVIOUS
  <2>3. QED
    BY <1>7, <2>1, <2>2
<1>9. QED
  BY <1>1, <1>6, <1>8

\* UsedBy, of any counters: the sum counts these pairs.
Sum(f, S) == MapThenSumSet(LAMBDA t : f[t], S)

LEMMA SumCountsTicks ==
  ASSUME NEW S, IsFiniteSet(S), NEW f, \A t \in S : f[t] \in Nat
  PROVE  Sum(f, S) = Cardinality(Ticks(f, S))
<1> DEFINE one(s) == CHOOSE x \in s : TRUE
           B(h) == [s \in SUBSET S |-> IF s = {} THEN 0 ELSE f[one(s)] + h[s \ {one(s)}]]
           iter == CHOOSE h : h = B(h)
           g == [s \in SUBSET S |-> Cardinality(Ticks(f, s))]
<1>1. \A s \in SUBSET S : s # {} => one(s) \in s
  OBVIOUS
<1>2. Sum(f, S) = iter[S]
  BY DEF Sum, MapThenSumSet, MapThenFoldSet
<1>3. \A s \in SUBSET S : g[s] = IF s = {} THEN 0 ELSE f[one(s)] + g[s \ {one(s)}]
  <2> SUFFICES ASSUME NEW s \in SUBSET S
               PROVE  g[s] = IF s = {} THEN 0 ELSE f[one(s)] + g[s \ {one(s)}]
    OBVIOUS
  <2>1. CASE s = {}
    BY <2>1, FS_EmptySet DEF Ticks
  <2>2. CASE s # {}
    <3>1. PICK x \in s : x = one(s)
      BY <1>1, <2>2
    <3>2. PICK r : r = s \ {x}
      OBVIOUS
    <3>3. r \in SUBSET S /\ s = r \cup {x} /\ x \notin r /\ IsFiniteSet(r) /\ f[x] \in Nat
      BY <3>2, FS_Subset
    <3>4. Cardinality(Ticks(f, r \cup {x})) = Cardinality(Ticks(f, r)) + f[x] /\ Cardinality(Ticks(f, r)) \in Nat
      BY <3>3, TicksOfOneMore, TicksFinite
    <3>5. PICK n \in Nat, k \in Nat : n = f[x] /\ k = Cardinality(Ticks(f, r))
      BY <3>3, <3>4
    <3>6. g[s] = k + n /\ g[r] = k
      BY <3>3, <3>4, <3>5
    <3> HIDE DEF g, one
    <3>7. g[s] = f[x] + g[r]
      BY <3>5, <3>6
    <3>8. QED
      BY <2>2, <3>1, <3>2, <3>7
  <2>3. QED
    BY <2>1, <2>2
<1>4. iter = B(iter)
  <2>1. g = B(g)
    BY <1>3
  <2> HIDE DEF g, B
  <2>2. QED
    BY <2>1
<1>5. \A s \in SUBSET S : iter[s] = IF s = {} THEN 0 ELSE f[one(s)] + iter[s \ {one(s)}]
  <2> HIDE DEF iter
  <2>1. QED
    BY <1>4
<1> HIDE DEF iter, g
<1>6. \A s \in SUBSET S : iter[s] = g[s]
  <2> DEFINE bad == {s \in SUBSET S : iter[s] # g[s]}
  <2> SUFFICES ASSUME bad # {} PROVE FALSE
    OBVIOUS
  <2>1. bad \subseteq FiniteSubsetsOf(S)
    BY FS_Subset DEF FiniteSubsetsOf
  <2>2. PICK s \in bad : \A u \in bad : ~(<<u, s>> \in StrictSubsetOrdering(S))
    <3> HIDE DEF bad
    <3>1. QED
      BY <2>1, FS_StrictSubsetOrderingWellFounded, WFMin
  <2>3. s # {} /\ one(s) \in s /\ s \in SUBSET S
    BY <1>1, <1>3, <1>5
  <2>4. PICK r : r = s \ {one(s)}
    OBVIOUS
  <2> HIDE DEF one
  <2>5. r \in SUBSET S /\ r \subseteq s /\ r # s
    BY <2>3, <2>4
  <2>6. <<r, s>> \in StrictSubsetOrdering(S)
    BY <2>3, <2>5 DEF StrictSubsetOrdering
  <2>7. iter[r] = g[r]
    BY <2>2, <2>5, <2>6
  <2>8. QED
    BY <1>3, <1>5, <2>2, <2>3, <2>4, <2>7
<1>7. QED
  BY <1>2, <1>6 DEF g

LEMMA SumFacts ==
  ASSUME NEW S, IsFiniteSet(S), NEW f, \A t \in S : f[t] \in Nat
  PROVE  /\ Sum(f, S) \in Nat
         /\ S = {} => Sum(f, S) = 0
         /\ \A x \in S : Sum(f, S) = Sum(f, S \ {x}) + f[x] /\ Sum(f, S \ {x}) \in Nat
         /\ \A g : (\A t \in S : g[t] = f[t]) => Sum(g, S) = Sum(f, S)
<1>1. Sum(f, S) \in Nat
  BY SumCountsTicks, TicksFinite
<1>2. ASSUME S = {} PROVE Sum(f, S) = 0
  <2>1. Ticks(f, S) = {}
    BY <1>2 DEF Ticks
  <2>2. QED
    BY <2>1, SumCountsTicks, FS_EmptySet
<1>3. ASSUME NEW x \in S PROVE Sum(f, S) = Sum(f, S \ {x}) + f[x] /\ Sum(f, S \ {x}) \in Nat
  <2>1. PICK r : r = S \ {x}
    OBVIOUS
  <2>2. IsFiniteSet(r) /\ S = r \cup {x} /\ x \notin r /\ (\A t \in r : f[t] \in Nat) /\ f[x] \in Nat
    BY <2>1, FS_Subset
  <2>3. /\ Sum(f, S) = Cardinality(Ticks(f, r \cup {x})) /\ Sum(f, r) = Cardinality(Ticks(f, r))
        /\ Cardinality(Ticks(f, r)) \in Nat
    BY <2>2, SumCountsTicks, TicksFinite
  <2>4. Cardinality(Ticks(f, r \cup {x})) = Cardinality(Ticks(f, r)) + f[x]
    BY <2>2, TicksOfOneMore
  <2>5. QED
    BY <2>1, <2>3, <2>4
<1>4. ASSUME NEW g, \A t \in S : g[t] = f[t] PROVE Sum(g, S) = Sum(f, S)
  <2>1. Ticks(g, S) = Ticks(f, S)
    BY <1>4 DEF Ticks
  <2>2. QED
    BY <1>4, <2>1, SumCountsTicks
<1>5. QED
  BY <1>1, <1>2, <1>3, <1>4

\* One tick of one thread.
LEMMA SumTick ==
  ASSUME NEW S, IsFiniteSet(S), NEW f, \A t \in S : f[t] \in Nat, NEW x, NEW g,
         \A t \in S : g[t] = IF t = x THEN f[t] + 1 ELSE f[t]
  PROVE  Sum(g, S) = IF x \in S THEN Sum(f, S) + 1 ELSE Sum(f, S)
<1>1. CASE x \notin S
  BY <1>1, SumFacts
<1>2. CASE x \in S
  <2>1. PICK r : r = S \ {x}
    OBVIOUS
  <2>2. IsFiniteSet(r) /\ (\A t \in r : f[t] \in Nat /\ g[t] = f[t]) /\ (\A t \in S : g[t] \in Nat)
    BY <2>1, FS_Subset
  <2>3. Sum(g, S) = Sum(g, r) + g[x] /\ Sum(f, S) = Sum(f, r) + f[x] /\ Sum(f, r) \in Nat
    BY <1>2, <2>1, <2>2, SumFacts
  <2>4. Sum(g, r) = Sum(f, r) /\ g[x] = f[x] + 1
    BY <1>2, <2>2, SumFacts
  <2>5. QED
    BY <1>2, <2>3, <2>4
<1>3. QED
  BY <1>1, <1>2

-----------------------------------------------------------------------------
\* What the sample has still to add.
ToAdd == sample.todo \cap live

(***************************************************************************)
(* The inductive invariant: a sample in progress holds the siglock, so no  *)
(* thread folds its counter and no child is reaped meanwhile, and what it  *)
(* has added so far and has still to add is between the count at its start *)
(* and the count now.                                                      *)
(***************************************************************************)
UsageInv ==
  /\ live \in SUBSET UsageThreads
  /\ used \in [UsageThreads -> Nat] /\ folded \in Nat
  /\ cutime \in Nat /\ cstime \in Nat
  /\ cutime = IF siglock = "reap" THEN cstime + 1 ELSE cstime
  /\ sample = [who |-> sample.who, todo |-> sample.todo, sum |-> sample.sum,
               cu |-> sample.cu, cs |-> sample.cs, from |-> sample.from]
  /\ sample.sum \in Nat /\ sample.from \in Nat /\ sample.cu = sample.cs
  /\ sample.todo # {} => /\ siglock = "sample"
                         /\ "unlock" \in sample.todo
                         /\ sample.todo \subseteq live \cup {"unlock"}
  /\ sample.who \in {"RUSAGE_SELF", "RUSAGE_BOTH"} =>
       /\ sample.from <= sample.sum + Sum(used, ToAdd)
       /\ sample.sum + Sum(used, ToAdd) <= folded + Sum(used, live)

\* The sums the invariant speaks of are numbers.
LEMMA UsageSums ==
  ASSUME UsageInv, NEW S, S \subseteq live
  PROVE  IsFiniteSet(S) /\ Sum(used, S) \in Nat /\ (\A t \in S : used[t] \in Nat)
BY SumFacts, UsageAssumption, FS_Subset DEF UsageInv

LEMMA TotalIs == Total = folded + Sum(used, live)
BY DEF Total, UsedBy, Sum, MapThenSumSet, MapThenFoldSet

LEMMA TotalThen == Total' = folded' + Sum(used', live')
BY DEF Total, UsedBy, Sum, MapThenSumSet, MapThenFoldSet

LEMMA UsageStart ==
  ASSUME UsageInit
  PROVE  UsageInv
<1>1. /\ live \in SUBSET UsageThreads /\ used \in [UsageThreads -> Nat]
      /\ folded = 0 /\ cutime = 0 /\ cstime = 0 /\ siglock = "free"
      /\ sample = [who |-> "none", todo |-> {}, sum |-> 0, cu |-> 0, cs |-> 0, from |-> 0]
  BY DEF UsageInit, NoSample
<1>2. QED
  BY <1>1 DEF UsageInv

\* A step that leaves the counters and the sample alone.
LEMMA UsageAside ==
  ASSUME UsageInv, UNCHANGED <<live, used, folded, sample>>, siglock' # "sample" => siglock # "sample",
         cutime' \in Nat, cstime' \in Nat, cutime' = IF siglock' = "reap" THEN cstime' + 1 ELSE cstime'
  PROVE  UsageInv'
<1>1. ToAdd' = ToAdd
  BY DEF ToAdd
<1>2. QED
  BY <1>1 DEF UsageInv

\* A tick adds as much to what is to be added as to the count, or less.
LEMMA TickKeeps ==
  ASSUME UsageInv, NEW t, Tick(t)
  PROVE  UsageInv'
<1>1. /\ t \in live /\ used' = [used EXCEPT ![t] = @ + 1]
      /\ UNCHANGED <<live, folded, cutime, cstime, siglock, sample>>
  BY DEF Tick
<1>2. PICK S, u : S = ToAdd /\ u = used'
  OBVIOUS
<1>3. S \subseteq live /\ ToAdd' = S
  BY <1>1, <1>2 DEF ToAdd
<1>4. used' \in [UsageThreads -> Nat] /\ \A x \in live : used'[x] = IF x = t THEN used[x] + 1 ELSE used[x]
  BY <1>1 DEF UsageInv
<1>5. Sum(u, live) = Sum(used, live) + 1
  BY <1>1, <1>2, <1>4, UsageSums, SumTick
<1>6. Sum(u, S) \in {Sum(used, S), Sum(used, S) + 1}
  BY <1>2, <1>3, <1>4, UsageSums, SumTick
<1>7. Sum(used, S) \in Nat /\ Sum(used, live) \in Nat
  BY <1>3, UsageSums
<1>8. ASSUME sample.who \in {"RUSAGE_SELF", "RUSAGE_BOTH"}
      PROVE  /\ sample.from <= sample.sum + Sum(u, S)
             /\ sample.sum + Sum(u, S) <= folded + Sum(u, live)
  <2>1. sample.from <= sample.sum + Sum(used, S) /\ sample.sum + Sum(used, S) <= folded + Sum(used, live)
    BY <1>2, <1>8 DEF UsageInv
  <2>2. sample.from \in Nat /\ sample.sum \in Nat /\ folded \in Nat
    BY DEF UsageInv
  <2>3. QED
    BY <1>5, <1>6, <1>7, <2>1, <2>2
<1>9. QED
  BY <1>1, <1>2, <1>3, <1>4, <1>8 DEF UsageInv

\* A thread exits only while no sample is in progress.
LEMMA ThreadExitKeeps ==
  ASSUME UsageInv, NEW t, ThreadExit(t)
  PROVE  UsageInv'
<1>1. /\ t \in live /\ siglock = "free" /\ live' = live \ {t} /\ folded' = folded + used[t]
      /\ used' = [used EXCEPT ![t] = 0] /\ UNCHANGED <<cutime, cstime, siglock, sample>>
  BY DEF ThreadExit
<1>2. sample.todo = {} /\ ToAdd = {} /\ ToAdd' = {}
  BY <1>1 DEF UsageInv, ToAdd
<1>3. PICK r, u : r = live \ {t} /\ u = used'
  OBVIOUS
<1>4. \A x \in r : u[x] = used[x]
  BY <1>1, <1>3 DEF UsageInv
<1>5. Sum(used, live) = Sum(used, r) + used[t] /\ Sum(used, r) \in Nat /\ used[t] \in Nat
  BY <1>1, <1>3, UsageSums, SumFacts DEF UsageInv
<1>6. Sum(u, r) = Sum(used, r)
  BY <1>3, <1>4, UsageSums, SumFacts
<1>7. Sum(used, {}) = 0 /\ Sum(u, {}) = 0
  BY SumFacts, FS_EmptySet
<1>8. folded' + Sum(u, r) = folded + Sum(used, live) /\ folded' \in Nat
  BY <1>1, <1>5, <1>6 DEF UsageInv
<1>9. used' \in [UsageThreads -> Nat] /\ live' \in SUBSET UsageThreads
  BY <1>1 DEF UsageInv
<1>10. sample.who \in {"RUSAGE_SELF", "RUSAGE_BOTH"} =>
        sample.from <= sample.sum + 0 /\ sample.sum + 0 <= folded' + Sum(u, r)
  BY <1>2, <1>7, <1>8 DEF UsageInv
<1>11. QED
  BY <1>1, <1>2, <1>3, <1>7, <1>8, <1>9, <1>10 DEF UsageInv

\* A sample begins with what the threads that are gone have left, and has to
\* add all threads.
LEMMA GetrusageKeeps ==
  ASSUME UsageInv, NEW who, getrusage(who)
  PROVE  UsageInv'
<1> DEFINE r == [who |-> who, from |-> Total,
                 cu |-> IF who = "RUSAGE_SELF" THEN 0 ELSE cutime,
                 cs |-> IF who = "RUSAGE_SELF" THEN 0 ELSE cstime,
                 sum |-> IF who = "RUSAGE_CHILDREN" THEN 0 ELSE folded,
                 todo |-> IF who = "RUSAGE_CHILDREN" THEN {"unlock"} ELSE live \cup {"unlock"}]
<1>1. /\ who \in {"RUSAGE_SELF", "RUSAGE_CHILDREN", "RUSAGE_BOTH"} /\ siglock = "free" /\ siglock' = "sample"
      /\ sample' = r /\ UNCHANGED <<live, used, folded, cutime, cstime>>
  BY DEF getrusage, lock_task_sighand
<1>2. PICK n \in Nat : n = Sum(used, live)
  BY UsageSums
<1>3. Total = folded + n /\ folded \in Nat
  BY <1>2, TotalIs DEF UsageInv
<1>4. /\ r.who = who /\ r.from = folded + n /\ r.cu = r.cs /\ r.sum \in {0, folded}
      /\ who # "RUSAGE_CHILDREN" => r.sum = folded /\ r.todo = live \cup {"unlock"}
      /\ "unlock" \in r.todo /\ r.todo \subseteq live \cup {"unlock"}
      /\ r = [who |-> r.who, todo |-> r.todo, sum |-> r.sum, cu |-> r.cu, cs |-> r.cs, from |-> r.from]
  BY <1>1, <1>3 DEF UsageInv
<1> HIDE DEF r
<1>5. who # "RUSAGE_CHILDREN" => ToAdd' = live
  BY <1>1, <1>4, UsageAssumption DEF ToAdd, UsageInv
<1>6. who # "RUSAGE_CHILDREN" => Sum(used', ToAdd') = n /\ Sum(used', live') = n
  BY <1>1, <1>2, <1>5
<1>7. sample'.who \in {"RUSAGE_SELF", "RUSAGE_BOTH"} =>
        /\ sample'.from <= sample'.sum + Sum(used', ToAdd')
        /\ sample'.sum + Sum(used', ToAdd') <= folded' + Sum(used', live')
  BY <1>1, <1>3, <1>4, <1>6
<1>8. sample'.sum \in Nat /\ sample'.from \in Nat
  BY <1>1, <1>3, <1>4
<1>9. QED
  BY <1>1, <1>4, <1>7, <1>8 DEF UsageInv

\* One thread is added.
LEMMA AccumulateKeeps ==
  ASSUME UsageInv, NEW t, accumulate_thread_rusage(t)
  PROVE  UsageInv'
<1>1. /\ t \in sample.todo /\ t \in live /\ UNCHANGED <<live, used, folded, cutime, cstime, siglock>>
      /\ sample' = [sample EXCEPT !.sum = @ + used[t], !.todo = @ \ {t}]
  BY DEF accumulate_thread_rusage
<1>2. sample' = [who |-> sample.who, todo |-> sample.todo \ {t}, sum |-> sample.sum + used[t],
                 cu |-> sample.cu, cs |-> sample.cs, from |-> sample.from]
  <2>1. PICK z, x, y : z = sample /\ x = sample.sum + used[t] /\ y = sample.todo \ {t}
    OBVIOUS
  <2>2. z = [who |-> z.who, todo |-> z.todo, sum |-> z.sum, cu |-> z.cu, cs |-> z.cs, from |-> z.from]
    BY <2>1 DEF UsageInv
  <2>3. PICK w : w = [z EXCEPT !.sum = x]
    OBVIOUS
  <2>4. w = [who |-> z.who, todo |-> z.todo, sum |-> x, cu |-> z.cu, cs |-> z.cs, from |-> z.from]
    BY <2>2, <2>3
  <2>5. sample' = [w EXCEPT !.todo = y]
    BY <1>1, <2>1, <2>2, <2>3
  <2>6. QED
    BY <2>1, <2>4, <2>5
<1>3. PICK S : S = ToAdd
  OBVIOUS
<1>4. S \subseteq live /\ t \in S /\ ToAdd' = S \ {t}
  BY <1>1, <1>2, <1>3 DEF ToAdd
<1>5. Sum(used, S) = Sum(used, S \ {t}) + used[t] /\ Sum(used, S \ {t}) \in Nat /\ used[t] \in Nat
  BY <1>4, UsageSums, SumFacts
<1>6. sample'.sum + Sum(used', ToAdd') = sample.sum + Sum(used, ToAdd) /\ sample'.sum \in Nat
  <2>1. sample'.sum = sample.sum + used[t] /\ sample.sum \in Nat
    BY <1>2 DEF UsageInv
  <2>2. Sum(used', ToAdd') = Sum(used, S \ {t})
    BY <1>1, <1>4
  <2>3. QED
    BY <1>3, <1>5, <2>1, <2>2
<1>7. t # "unlock"
  BY <1>1, UsageAssumption DEF UsageInv
<1>8. QED
  BY <1>1, <1>2, <1>6, <1>7 DEF UsageInv

\* The sample is complete.
LEMMA UnlockKeeps ==
  ASSUME UsageInv, unlock_task_sighand
  PROVE  UsageInv'
<1>1. /\ "unlock" \in sample.todo /\ ToAdd = {} /\ sample' = [sample EXCEPT !.todo = {}]
      /\ siglock' = (IF siglock = "sample" THEN "free" ELSE siglock)
      /\ UNCHANGED <<live, used, folded, cutime, cstime>>
  BY DEF unlock_task_sighand, ToAdd
<1>2. siglock = "sample" /\ siglock' = "free"
  BY <1>1 DEF UsageInv
<1>3. sample' = [who |-> sample.who, todo |-> {}, sum |-> sample.sum,
                 cu |-> sample.cu, cs |-> sample.cs, from |-> sample.from]
  BY <1>1 DEF UsageInv
<1>4. ToAdd' = {}
  BY <1>3 DEF ToAdd
<1>5. QED
  BY <1>1, <1>2, <1>3, <1>4 DEF UsageInv

\* The counter of the calling thread alone.
LEMMA ThreadSampleKeeps ==
  ASSUME UsageInv, NEW t, getrusage_thread(t)
  PROVE  UsageInv'
<1>1. /\ t \in live /\ UNCHANGED <<live, used, folded, cutime, cstime, siglock>>
      /\ sample' = [NoSample EXCEPT !.who = "RUSAGE_THREAD", !.sum = used[t]]
  BY DEF getrusage_thread
<1>2. sample' = [who |-> "RUSAGE_THREAD", todo |-> {}, sum |-> used[t], cu |-> 0, cs |-> 0, from |-> 0]
  BY <1>1 DEF NoSample
<1>3. used[t] \in Nat
  BY <1>1 DEF UsageInv
<1>4. /\ sample'.who = "RUSAGE_THREAD" /\ sample'.todo = {} /\ sample'.sum = used[t]
      /\ sample'.cu = 0 /\ sample'.cs = 0 /\ sample'.from = 0
  BY <1>2
<1>5. sample' = [who |-> sample'.who, todo |-> sample'.todo, sum |-> sample'.sum,
                 cu |-> sample'.cu, cs |-> sample'.cs, from |-> sample'.from]
  BY <1>2, <1>4
<1>6. QED
  BY <1>1, <1>3, <1>4, <1>5 DEF UsageInv

LEMMA UsageStep ==
  ASSUME UsageInv, [UsageNext]_usageVars
  PROVE  UsageInv'
<1>1. /\ cutime \in Nat /\ cstime \in Nat
      /\ cutime = IF siglock = "reap" THEN cstime + 1 ELSE cstime
  BY DEF UsageInv
<1>2. CASE ReapUser \/ ReapSystem
  <2>1. CASE ReapUser
    BY <1>1, <2>1, UsageAside DEF ReapUser
  <2>2. CASE ReapSystem
    BY <1>1, <2>2, UsageAside DEF ReapSystem
  <2>3. QED
    BY <1>2, <2>1, <2>2
<1>3. CASE TimesUser \/ TimesSystem \/ (\E mask \in 0..2 * UMASK_SIZE : Umask(mask)) \/ UNCHANGED usageVars
  <2>1. UNCHANGED <<live, used, folded, sample, siglock, cutime, cstime>>
    BY <1>3 DEF TimesUser, TimesSystem, Umask, usageVars
  <2>2. QED
    BY <1>1, <2>1, UsageAside
<1>4. QED
  BY <1>2, <1>3, TickKeeps, ThreadExitKeeps, GetrusageKeeps, AccumulateKeeps, UnlockKeeps, ThreadSampleKeeps
     DEF UsageNext

(***************************************************************************)
(* For any number of threads, of ticks and of reaped children: whatever    *)
(* the threads count and however they exit during getrusage, the sum of a  *)
(* finished call is between what the process had used when the call began  *)
(* and what it has used now, and a reaped child is in both times of the    *)
(* children or in none.                                                    *)
(***************************************************************************)
THEOREM SamplesAreTrue == UsageSpec => []SampleIsBracketed
<1>1. UsageInit => UsageInv
  BY UsageStart
<1>2. UsageInv /\ [UsageNext]_usageVars => UsageInv'
  BY UsageStep
<1>3. ASSUME UsageInv PROVE SampleIsBracketed
  <2>1. sample.cu = sample.cs
    BY <1>3 DEF UsageInv
  <2>2. ASSUME sample.todo = {}, sample.who \in {"RUSAGE_SELF", "RUSAGE_BOTH"}
        PROVE  sample.from <= sample.sum /\ sample.sum <= Total
    <3>1. ToAdd = {}
      BY <2>2 DEF ToAdd
    <3>2. Sum(used, ToAdd) = 0
      BY <3>1, SumFacts, FS_EmptySet
    <3>3. QED
      BY <1>3, <2>2, <3>2, TotalIs DEF UsageInv
  <2>3. QED
    BY <2>1, <2>2 DEF SampleIsBracketed
<1>4. QED
  BY <1>1, <1>2, <1>3, PTL DEF UsageSpec

-----------------------------------------------------------------------------
\* The first n ancestors of a process, as a function.
Line(g, n, p) ==
  /\ g \in [0..n -> Family]
  /\ g[0] = p
  /\ \A i \in 1..n : g[i] = father[g[i - 1]]

LEMMA LineExists ==
  ASSUME father \in [Family -> Family], NEW p \in Family, NEW n \in Nat
  PROVE  \E g : Line(g, n, p)
<1> DEFINE bad == {k \in Nat : ~\E g : Line(g, k, p)}
<1> SUFFICES ASSUME bad # {} PROVE FALSE
  OBVIOUS
<1>1. PICK k \in bad : \A y \in bad : k <= y
  <2>1. bad \in SUBSET Nat
    OBVIOUS
  <2> HIDE DEF bad
  <2>2. QED
    BY <2>1, LeastOf
<1>2. k # 0
  <2>1. Line([i \in 0..0 |-> p], 0, p)
    BY DEF Line
  <2>2. QED
    BY <1>1, <2>1
<1>3. k \in Nat /\ k - 1 \in Nat /\ k - 1 \notin bad
  BY <1>1, <1>2
<1>4. PICK g : Line(g, k - 1, p)
  BY <1>3
<1>5. PICK h : h = [i \in 0..k |-> IF i = k THEN father[g[k - 1]] ELSE g[i]]
  OBVIOUS
<1>6. Line(h, k, p)
  <2>1. /\ h[k] = father[g[k - 1]] /\ h[k - 1] = g[k - 1] /\ g[k - 1] \in Family
        /\ \A i \in 0..k - 1 : h[i] = g[i] /\ g[i] \in Family
    BY <1>2, <1>3, <1>4, <1>5 DEF Line
  <2>2. h \in [0..k -> Family] /\ h[0] = p
    BY <1>3, <1>4, <1>5, <2>1 DEF Line
  <2>3. \A i \in 1..k : h[i] = father[h[i - 1]]
    <3>1. ASSUME NEW i \in 1..k, i # k PROVE h[i] = father[h[i - 1]]
      <4>1. i \in 1..k - 1 /\ i \in 0..k - 1 /\ i - 1 \in 0..k - 1
        BY <1>3, <3>1
      <4>2. QED
        BY <1>4, <2>1, <4>1 DEF Line
    <3>2. QED
      BY <2>1, <3>1
  <2>4. QED
    BY <2>2, <2>3 DEF Line
<1>7. QED
  BY <1>1, <1>6

\* Up is what its recursion says.
LEMMA UpIs ==
  ASSUME father \in [Family -> Family], NEW p \in Family
  PROVE  Cardinality(Family) \in Nat /\ Line(Up(p), Cardinality(Family), p)
<1>1. PICK N \in Nat : N = Cardinality(Family)
  BY FamilyAssumption, FS_CardinalityType
<1> DEFINE B(h) == [n \in 0..N |-> IF n = 0 THEN p ELSE father[h[n - 1]]]
           up == CHOOSE h : h = B(h)
<1>2. PICK g : Line(g, N, p)
  BY <1>1, LineExists
<1>3. g = B(g)
  <2>1. \A n \in 0..N : n # 0 => n \in 1..N
    BY <1>1
  <2>2. \A n \in 0..N : g[n] = B(g)[n]
    BY <1>2, <2>1 DEF Line
  <2>3. DOMAIN g = 0..N /\ g = [n \in 0..N |-> g[n]]
    BY <1>2 DEF Line
  <2>4. QED
    BY <2>2, <2>3
<1>4. up = B(up)
  <2> HIDE DEF B
  <2>1. QED
    BY <1>3
<1>5. Up(p) = up
  BY <1>1 DEF Up
<1> HIDE DEF up
<1>6. up[0] = p /\ \A n \in 1..N : up[n] = father[up[n - 1]]
  <2>1. 0 \in 0..N /\ \A n \in 1..N : n \in 0..N /\ n # 0
    BY <1>1
  <2>2. QED
    BY <1>4, <2>1
<1>7. \A n \in 0..N : up[n] \in Family
  <2> DEFINE bad == {n \in 0..N : up[n] \notin Family}
  <2> SUFFICES ASSUME bad # {} PROVE FALSE
    OBVIOUS
  <2>1. PICK k \in bad : \A y \in bad : k <= y
    <3>1. bad \in SUBSET Nat
      OBVIOUS
    <3> HIDE DEF bad
    <3>2. QED
      BY <3>1, LeastOf
  <2>2. k # 0 /\ k \in 1..N /\ k - 1 \in 0..N /\ k - 1 \notin bad
    BY <1>1, <1>6, <2>1
  <2>3. QED
    BY <1>6, <2>1, <2>2
<1>8. up = [n \in 0..N |-> up[n]]
  BY <1>4
<1>9. QED
  BY <1>1, <1>5, <1>6, <1>7, <1>8 DEF Line

-----------------------------------------------------------------------------
(***************************************************************************)
(* The processes form a tree: every set of them that lacks the first is    *)
(* left by a father.                                                       *)
(***************************************************************************)
TreeInv ==
  /\ running \subseteq Family /\ FirstProc \in running
  /\ father \in [Family -> Family]
  /\ \A p \in running : father[p] \in running
  /\ father[FirstProc] = FirstProc
  /\ \A S \in SUBSET (running \ {FirstProc}) : S # {} => \E q \in S : father[q] \notin S

\* The ancestors of a process are running, and the first process is one.
LEMMA Ancestors ==
  ASSUME TreeInv, NEW p \in running, NEW N, N = Cardinality(Family)
  PROVE  /\ N \in Nat
         /\ \A n \in 0..N : Up(p)[n] \in running
         /\ Up(p)[0] = p
         /\ \A n \in 1..N : Up(p)[n] = father[Up(p)[n - 1]]
         /\ \E n \in 0..N : Up(p)[n] = FirstProc
<1> DEFINE u == Up(p)
<1>1. N \in Nat /\ Line(u, N, p) /\ father \in [Family -> Family] /\ running \subseteq Family
  BY UpIs DEF TreeInv
<1> HIDE DEF u
<1>2. u[0] = p /\ \A n \in 1..N : u[n] = father[u[n - 1]]
  BY <1>1 DEF Line
<1>3. \A n \in 0..N : u[n] \in running
  <2> DEFINE bad == {n \in 0..N : u[n] \notin running}
  <2> SUFFICES ASSUME bad # {} PROVE FALSE
    OBVIOUS
  <2>1. PICK k \in bad : \A y \in bad : k <= y
    <3>1. bad \in SUBSET Nat
      OBVIOUS
    <3> HIDE DEF bad
    <3>2. QED
      BY <3>1, LeastOf
  <2>2. k # 0 /\ k \in 1..N /\ k - 1 \in 0..N /\ k - 1 \notin bad
    BY <1>1, <1>2, <2>1
  <2>3. QED
    BY <1>2, <2>1, <2>2 DEF TreeInv
<1>4. \E n \in 0..N : u[n] = FirstProc
  <2> SUFFICES ASSUME \A n \in 0..N : u[n] # FirstProc PROVE FALSE
    OBVIOUS
  <2>1. PICK i, j \in 0..N : i # j /\ u[i] = u[j]
    <3>1. IsFiniteSet(0..N) /\ Cardinality(0..N) = N + 1
      <4>1. 0 \in Int /\ N \in Int
        BY <1>1
      <4>2. Cardinality(0..N) = IF 0 > N THEN 0 ELSE N - 0 + 1
        BY <4>1, FS_Interval
      <4>3. QED
        BY <1>1, <4>1, <4>2, FS_Interval
    <3>2. IsFiniteSet(Family) /\ Cardinality(Family) < Cardinality(0..N) /\ u \in [0..N -> Family]
      BY <1>1, <3>1, FamilyAssumption DEF Line
    <3>3. \E i, j \in 0..N : i # j /\ u[i] = u[j]
      <4> DEFINE D == 0..N
      <4>1. IsFiniteSet(D) /\ Cardinality(Family) < Cardinality(D) /\ u \in [D -> Family]
        BY <3>1, <3>2
      <4> HIDE DEF D
      <4>2. \E x, y \in D : x # y /\ u[x] = u[y]
        BY <3>2, <4>1, FS_PigeonHole, Zenon
      <4>3. QED
        BY <4>2 DEF D
    <3>4. QED
      BY <3>3
  <2>2. ASSUME NEW a \in 0..N, NEW b \in 0..N, a < b, u[a] = u[b] PROVE FALSE
    <3> DEFINE S == {u[m] : m \in a..b - 1}
    <3>1. \A m \in a..b - 1 : m \in 0..N /\ m + 1 \in 1..N /\ (m + 1) - 1 = m
      BY <1>1, <2>2
    <3>2. S \in SUBSET (running \ {FirstProc})
      BY <1>3, <3>1
    <3>3. u[a] \in S
      BY <2>2
    <3>4. ASSUME NEW m \in a..b - 1 PROVE father[u[m]] \in S
      <4>1. father[u[m]] = u[m + 1]
        BY <1>2, <3>1
      <4>2. m + 1 \in a..b - 1 \/ m + 1 = b
        BY <2>2
      <4>3. QED
        BY <2>2, <3>3, <4>1, <4>2
    <3>5. QED
      BY <3>2, <3>3, <3>4 DEF TreeInv
  <2>3. i < j \/ j < i
    BY <2>1
  <2>4. QED
    BY <2>1, <2>2, <2>3
<1>5. QED
  BY <1>1, <1>2, <1>3, <1>4 DEF u

\* find_new_reaper finds one, and it is the nearest.
LEMMA NearestIs ==
  ASSUME TreeInv, NEW p \in running \ NsReapers, NEW S, NsReapers \subseteq S
  PROVE  \E n \in 1..Cardinality(Family) :
           /\ Nearest(p, S) = Up(p)[n] /\ Up(p)[n] \in S
           /\ \A m \in 1..n - 1 : Up(p)[m] \notin S
<1>1. PICK N : N = Cardinality(Family)
  OBVIOUS
<1> DEFINE u == Up(p)
           near == {n \in 1..N : u[n] \in S}
<1>2. N \in Nat /\ u[0] = p /\ \E n \in 0..N : u[n] = FirstProc
  BY <1>1, Ancestors
<1>3. near # {}
  <2>1. PICK n \in 0..N : u[n] = FirstProc
    BY <1>2
  <2>2. n # 0 /\ n \in 1..N /\ FirstProc \in S
    BY <1>2, <2>1, FamilyAssumption
  <2>3. QED
    BY <2>1, <2>2
<1>4. PICK k : k = CHOOSE n \in near : \A m \in near : n <= m
  OBVIOUS
<1>5. k \in near /\ \A m \in near : k <= m
  <2>1. near \in SUBSET Nat
    BY <1>2
  <2> HIDE DEF near
  <2>2. \E n \in near : \A m \in near : n <= m
    BY <1>3, <2>1, LeastOf
  <2>3. QED
    BY <1>4, <2>2
<1>6. Nearest(p, S) = u[k]
  BY <1>1, <1>4 DEF Nearest
<1>7. \A m \in 1..k - 1 : u[m] \notin S
  <2>1. ASSUME NEW m \in 1..k - 1, u[m] \in S PROVE FALSE
    <3>1. m \in near /\ m < k
      BY <1>2, <1>5, <2>1
    <3>2. QED
      BY <1>5, <3>1
  <2>2. QED
    BY <2>1
<1>8. QED
  BY <1>1, <1>5, <1>6, <1>7

-----------------------------------------------------------------------------
\* A child that knows, need not know, or will be looked at by some walk.
Covered(c) == Skipped(c) \/ \E w \in Family : c \in visit[w]

\* The processes whose children have to know: those that know themselves, and
\* the subreapers whose walk has begun.
Informed == hasSub \cup {s \in isSub : call[s] # "called"}

(***************************************************************************)
(* The inductive invariant: what DescendantsKnow says of all descendants   *)
(* is said of the children alone.                                          *)
(***************************************************************************)
SubInv ==
  /\ TreeInv
  /\ isSub \subseteq running /\ hasSub \subseteq running
  /\ call \in [Family -> {"idle", "called", "walk"}]
  /\ visit \in [Family -> SUBSET running]
  /\ \A p \in Family : visit[p] # {} => call[p] = "walk"
  /\ \A p \in Family : call[p] # "idle" => p \in isSub
  /\ \A p \in Informed : \A c \in Children(p) : Covered(c)

\* While no walk is going on, all children of an informed process know.
LEMMA QuietChildren ==
  ASSUME SubInv, WriteLockFree, NEW p \in Informed, NEW c \in Children(p)
  PROVE  Skipped(c)
BY DEF SubInv, WriteLockFree, Covered

\* And so do all descendants, down to the next pid namespace.
LEMMA QuietDescendants ==
  ASSUME SubInv, WriteLockFree, NEW p \in running, NEW n \in 1..Cardinality(Family),
         Up(p)[n] \in Informed, \A m \in 0..n - 1 : Up(p)[m] \notin NsReapers
  PROVE  \A m \in 0..n - 1 : Up(p)[m] \in hasSub
<1> DEFINE u == Up(p)
           N == Cardinality(Family)
           bad == {k \in Nat : k < n /\ u[n - 1 - k] \notin hasSub}
<1>1. /\ N \in Nat /\ (\A m \in 0..N : u[m] \in running)
      /\ u[0] = p /\ (\A m \in 1..N : u[m] = father[u[m - 1]])
  <2>1. TreeInv
    BY DEF SubInv
  <2>2. QED
    BY <2>1, Ancestors
<1> HIDE DEF u, N
<1>2. n \in 1..N /\ u[n] \in Informed /\ \A m \in 0..n - 1 : u[m] \notin NsReapers
  BY DEF u, N
<1>3. bad = {}
  <2> SUFFICES ASSUME bad # {} PROVE FALSE
    OBVIOUS
  <2>1. PICK k \in bad : \A y \in bad : k <= y
    <3>1. bad \in SUBSET Nat
      OBVIOUS
    <3> HIDE DEF bad
    <3>2. QED
      BY <3>1, LeastOf
  <2>2. k \in Nat /\ k < n /\ u[n - 1 - k] \notin hasSub
    BY <2>1
  <2>3. PICK m \in 0..n - 1 : m = n - 1 - k
    BY <1>1, <1>2, <2>2
  <2>4. m + 1 \in 1..N /\ m \in 0..N /\ (m + 1) - 1 = m
    BY <1>1, <1>2
  <2>5. u[m + 1] \in Informed
    <3>1. CASE k = 0
      BY <1>2, <2>3, <3>1
    <3>2. CASE k # 0
      <4>1. k - 1 \in Nat /\ k - 1 < n /\ k - 1 \notin bad /\ n - 1 - (k - 1) = m + 1
        BY <1>2, <2>1, <2>2, <2>3, <3>2
      <4>2. u[m + 1] \in hasSub
        BY <4>1
      <4>3. QED
        BY <4>2 DEF Informed
    <3>3. QED
      BY <3>1, <3>2
  <2>6. u[m] \in running /\ father[u[m]] = u[m + 1] /\ u[m] \notin NsReapers
    BY <1>1, <1>2, <2>3, <2>4
  <2>7. u[m] # u[m + 1]
    <3>1. ASSUME u[m] = u[m + 1] PROVE FALSE
      <4>1. {u[m]} \in SUBSET (running \ {FirstProc})
        BY <2>6, FamilyAssumption
      <4>2. QED
        BY <2>6, <3>1, <4>1 DEF SubInv, TreeInv
    <3>2. QED
      BY <3>1
  <2>8. u[m] \in Children(u[m + 1])
    BY <2>6, <2>7 DEF Children
  <2>9. Skipped(u[m])
    BY <2>5, <2>8, QuietChildren
  <2>10. QED
    BY <2>2, <2>3, <2>6, <2>9 DEF Skipped, is_child_reaper
<1>4. ASSUME NEW m \in 0..n - 1 PROVE u[m] \in hasSub
  <2>1. n - 1 - m \in Nat /\ n - 1 - m < n /\ n - 1 - (n - 1 - m) = m
    BY <1>1, <1>2
  <2>2. QED
    BY <1>3, <2>1
<1>5. QED
  BY <1>4 DEF u

-----------------------------------------------------------------------------
LEMMA SubStart ==
  ASSUME SubInit
  PROVE  SubInv
<1>1. /\ running = {FirstProc} /\ father = [p \in Family |-> FirstProc] /\ isSub = {} /\ hasSub = {}
      /\ call = [p \in Family |-> "idle"] /\ visit = [p \in Family |-> {}] /\ FirstProc \in Family
  BY FamilyAssumption DEF SubInit
<1>2. TreeInv
  BY <1>1 DEF TreeInv
<1>3. Informed = {}
  BY <1>1 DEF Informed
<1>4. QED
  BY <1>1, <1>2, <1>3 DEF SubInv

\* The prctl call itself.
LEMMA PrctlKeeps ==
  ASSUME SubInv, NEW p \in Family, ClearSubreaper(p) \/ SetSubreaper(p) \/ StartWalk(p) \/ EndWalk(p)
  PROVE  SubInv'
<1>1. UNCHANGED <<running, father, hasSub>> /\ TreeInv' /\ \A q : Children(q)' = Children(q)
  BY DEF ClearSubreaper, SetSubreaper, StartWalk, EndWalk, SubInv, TreeInv, Children
<1>2. \A c : Skipped(c)' = Skipped(c)
  BY <1>1 DEF Skipped, is_child_reaper
<1>3. CASE ClearSubreaper(p)
  <2>1. isSub' = isSub \ {p} /\ UNCHANGED <<call, visit>> /\ call[p] = "idle"
    BY <1>3 DEF ClearSubreaper
  <2>2. Informed' \subseteq Informed /\ \A c : Covered(c)' = Covered(c)
    BY <1>1, <1>2, <2>1 DEF Informed, Covered
  <2>3. QED
    BY <1>1, <2>1, <2>2 DEF SubInv
<1>4. CASE SetSubreaper(p)
  <2>1. isSub' = isSub \cup {p} /\ call' = [call EXCEPT ![p] = "called"] /\ visit' = visit /\ p \in running
        /\ call[p] = "idle"
    BY <1>4 DEF SetSubreaper
  <2>2. Informed' \subseteq Informed /\ \A c : Covered(c)' = Covered(c)
    BY <1>1, <1>2, <2>1 DEF Informed, Covered, SubInv
  <2>3. QED
    BY <1>1, <2>1, <2>2 DEF SubInv
<1>5. CASE StartWalk(p)
  <2>1. /\ call[p] = "called" /\ call' = [call EXCEPT ![p] = "walk"]
        /\ visit' = [visit EXCEPT ![p] = Children(p)] /\ isSub' = isSub
    BY <1>5 DEF StartWalk
  <2>2. visit[p] = {} /\ Children(p) \subseteq running
    BY <2>1 DEF SubInv, Children
  <2>3. Informed' \subseteq Informed \cup {p}
    BY <1>1, <2>1 DEF Informed, SubInv
  <2>4. \A c : Covered(c) => Covered(c)'
    BY <1>2, <2>1, <2>2 DEF Covered, SubInv
  <2>5. \A c \in Children(p) : Covered(c)'
    BY <2>1 DEF Covered, SubInv
  <2>6. \A q \in Informed' : \A c \in Children(q)' : Covered(c)'
    BY <1>1, <2>3, <2>4, <2>5 DEF SubInv
  <2>7. QED
    BY <1>1, <2>1, <2>2, <2>6 DEF SubInv
<1>6. CASE EndWalk(p)
  <2>1. call[p] = "walk" /\ visit[p] = {} /\ call' = [call EXCEPT ![p] = "idle"] /\ UNCHANGED <<isSub, visit>>
    BY <1>6 DEF EndWalk
  <2>2. Informed' \subseteq Informed /\ \A c : Covered(c)' = Covered(c)
    BY <1>1, <1>2, <2>1 DEF Informed, Covered, SubInv
  <2>3. QED
    BY <1>1, <2>1, <2>2 DEF SubInv
<1>7. QED
  BY <1>3, <1>4, <1>5, <1>6

\* One process looked at: it knows now, and its children are to be looked at.
LEMMA PropagateKeeps ==
  ASSUME SubInv, NEW p \in Family, NEW c \in Family, propagate_has_child_subreaper(p, c)
  PROVE  SubInv'
<1>1. /\ call[p] = "walk" /\ c \in visit[p] /\ UNCHANGED <<running, father, isSub, call>>
      /\ TreeInv' /\ (\A q : Children(q)' = Children(q)) /\ c \in running
  BY DEF propagate_has_child_subreaper, SubInv, TreeInv, Children
<1>2. CASE Skipped(c)
  <2>1. visit' = [visit EXCEPT ![p] = @ \ {c}] /\ hasSub' = hasSub
    BY <1>2 DEF propagate_has_child_subreaper
  <2>2. Informed' = Informed /\ \A d : Skipped(d)' = Skipped(d)
    BY <1>1, <2>1 DEF Informed, Skipped, is_child_reaper
  <2>3. \A d : Covered(d) => Covered(d)'
    BY <1>1, <1>2, <2>1, <2>2 DEF Covered, SubInv
  <2>4. visit' \in [Family -> SUBSET running] /\ \A q \in Family : visit'[q] # {} => call[q] = "walk"
    BY <1>1, <2>1 DEF SubInv
  <2>5. QED
    BY <1>1, <2>1, <2>2, <2>3, <2>4 DEF SubInv
<1>3. CASE ~Skipped(c)
  <2>1. visit' = [visit EXCEPT ![p] = (@ \ {c}) \cup Children(c)] /\ hasSub' = hasSub \cup {c}
    BY <1>3 DEF propagate_has_child_subreaper, Below
  <2>2. Informed' = Informed \cup {c} /\ (\A d : Skipped(d) => Skipped(d)') /\ Skipped(c)'
    BY <1>1, <2>1 DEF Informed, Skipped, is_child_reaper
  <2>3. \A d : Covered(d) => Covered(d)'
    BY <1>1, <2>1, <2>2 DEF Covered, SubInv
  <2>4. \A d \in Children(c) : Covered(d)'
    BY <2>1 DEF Covered, SubInv
  <2>5. visit' \in [Family -> SUBSET running] /\ \A q \in Family : visit'[q] # {} => call[q] = "walk"
    BY <1>1, <2>1 DEF SubInv, Children
  <2>6. \A q \in Informed' : \A d \in Children(q)' : Covered(d)'
    BY <1>1, <2>2, <2>3, <2>4 DEF SubInv
  <2>7. QED
    BY <1>1, <2>1, <2>5, <2>6 DEF SubInv
<1>4. QED
  BY <1>2, <1>3

\* fork and exit wait for the walks.
LEMMA NoWalks ==
  ASSUME SubInv, WriteLockFree
  PROVE  \A w \in Family : visit[w] = {}
BY DEF SubInv, WriteLockFree

LEMMA ForkTree ==
  ASSUME TreeInv, NEW p \in running, NEW c \in Family \ running,
         running' = running \cup {c}, father' = [father EXCEPT ![c] = p]
  PROVE  TreeInv'
<1>1. /\ father' \in [Family -> Family] /\ father'[c] = p /\ p # c /\ c # FirstProc
      /\ \A q \in running : father'[q] = father[q] /\ father[q] \in running /\ father[q] # c
  BY DEF TreeInv
<1>2. ASSUME NEW S \in SUBSET (running' \ {FirstProc}), S # {} PROVE \E q \in S : father'[q] \notin S
  <2>1. CASE S \ {c} = {}
    BY <1>1, <1>2, <2>1
  <2>2. CASE S \ {c} # {}
    <3>1. S \ {c} \in SUBSET (running \ {FirstProc})
      BY <1>2
    <3>2. PICK q \in S \ {c} : father[q] \notin S \ {c}
      BY <2>2, <3>1 DEF TreeInv
    <3>3. QED
      BY <1>1, <3>1, <3>2
  <2>3. QED
    BY <2>1, <2>2
<1>3. QED
  BY <1>1, <1>2 DEF TreeInv

LEMMA ForkChildKeeps ==
  ASSUME SubInv, NEW p \in Family, NEW c \in Family, ForkChild(p, c)
  PROVE  SubInv'
<1>1. /\ WriteLockFree /\ p \in running /\ call[p] = "idle" /\ c \in Family \ running
      /\ running' = running \cup {c} /\ father' = [father EXCEPT ![c] = p]
      /\ hasSub' = (IF p \in hasSub \cup isSub THEN hasSub \cup {c} ELSE hasSub \ {c})
      /\ isSub' = isSub \ {c} /\ UNCHANGED <<call, visit>>
  BY DEF ForkChild
<1>2. TreeInv /\ TreeInv'
  BY <1>1, ForkTree DEF SubInv
<1>3. /\ c \notin isSub /\ c \notin hasSub /\ isSub' = isSub
      /\ hasSub' = IF p \in hasSub \cup isSub THEN hasSub \cup {c} ELSE hasSub
  BY <1>1 DEF SubInv
<1>4. Informed' \subseteq Informed \cup {c} /\ (c \in Informed' => c \in hasSub') /\ Informed \subseteq hasSub \cup isSub
  BY <1>1, <1>3 DEF Informed
<1>5. (\A q \in running : Children(q)' \subseteq Children(q) \cup (IF q = p THEN {c} ELSE {})) /\ Children(c)' = {}
  BY <1>1, <1>2 DEF Children, TreeInv
<1>6. \A d \in running : Skipped(d) => Skipped(d)'
  BY <1>3 DEF Skipped, is_child_reaper
<1>7. ASSUME NEW q \in Informed', NEW d \in Children(q)' PROVE Covered(d)'
  <2>1. CASE q = c
    BY <1>5, <1>7, <2>1
  <2>2. CASE q # c
    <3>1. q \in Informed /\ q \in running
      BY <1>4, <1>7, <2>2 DEF SubInv
    <3>2. CASE d \in Children(q)
      <4>1. Skipped(d) /\ d \in running
        BY <1>1, <3>1, <3>2, QuietChildren DEF Children
      <4>2. QED
        BY <1>6, <4>1 DEF Covered
    <3>3. CASE d = c /\ q = p
      <4>1. d \in hasSub'
        BY <1>3, <1>4, <3>1, <3>3
      <4>2. QED
        BY <4>1 DEF Covered, Skipped
    <3>4. QED
      BY <1>5, <1>7, <3>1, <3>2, <3>3
  <2>3. QED
    BY <2>1, <2>2
<1>8. visit' \in [Family -> SUBSET running']
  BY <1>1 DEF SubInv
<1>9. QED
  BY <1>1, <1>2, <1>3, <1>7, <1>8 DEF SubInv

\* Who becomes the father: a running ancestor of the dying process, nearer
\* than any other that is asked.
LEMMA NewFatherIs ==
  ASSUME TreeInv, NEW p \in running \ NsReapers
  PROVE  \E n \in 1..Cardinality(Family) :
           /\ NewFather(p) = Up(p)[n] /\ NewFather(p) \in running
           /\ p \in hasSub \/ NewFather(p) \in NsReapers
           /\ \A m \in 0..n - 1 : Up(p)[m] \in running \ NsReapers /\ Up(p)[m] # NewFather(p)
<1> DEFINE S == IF p \in hasSub THEN isSub \cup NsReapers ELSE NsReapers
           u == Up(p)
<1>1. PICK N : N = Cardinality(Family)
  OBVIOUS
<1>2. /\ N \in Nat /\ (\A m \in 0..N : u[m] \in running)
      /\ u[0] = p /\ (\A m \in 1..N : u[m] = father[u[m - 1]])
  BY <1>1, Ancestors
<1>3. NewFather(p) = Nearest(p, S) /\ NsReapers \subseteq S
  BY DEF NewFather
<1> HIDE DEF S
<1>4. PICK n \in 1..N : Nearest(p, S) = u[n] /\ u[n] \in S /\ \A m \in 1..n - 1 : u[m] \notin S
  BY <1>1, <1>3, NearestIs
<1> HIDE DEF u
<1>5. \A m \in 0..n - 1 : m \in 0..N /\ (m = 0 \/ m \in 1..n - 1)
  BY <1>2
<1>6. u[n] \in running
  BY <1>2, <1>4
<1>7. u[n] # p
  <2>1. ASSUME u[n] = p PROVE FALSE
    <3> DEFINE T == {u[m] : m \in 0..n - 1}
    <3>1. T \in SUBSET (running \ {FirstProc})
      BY <1>2, <1>3, <1>4, <1>5, FamilyAssumption
    <3>2. ASSUME NEW m \in 0..n - 1 PROVE father[u[m]] \in T
      <4>1. m + 1 \in 1..N /\ (m + 1) - 1 = m /\ (m + 1 = n \/ m + 1 \in 0..n - 1)
        BY <1>2
      <4>2. father[u[m]] = u[m + 1]
        BY <1>2, <4>1
      <4>3. u[0] \in T /\ u[0] = u[n]
        BY <1>2, <2>1
      <4>4. QED
        BY <4>1, <4>2, <4>3
    <3>3. u[0] \in T
      OBVIOUS
    <3>4. QED
      BY <3>1, <3>2, <3>3 DEF TreeInv
  <2>2. QED
    BY <2>1
<1>8. \A m \in 0..n - 1 : u[m] \in running \ NsReapers /\ u[m] # u[n]
  BY <1>2, <1>3, <1>4, <1>5, <1>7
<1>9. p \in hasSub \/ u[n] \in NsReapers
  BY <1>4 DEF S
<1>10. QED
  BY <1>1, <1>3, <1>4, <1>6, <1>8, <1>9 DEF u

\* A process that dies leaves a tree.
LEMMA ExitTree ==
  ASSUME TreeInv, NEW p \in running \ NsReapers, running' = running \ {p},
         father' = [c \in Family |-> IF c = p THEN FirstProc ELSE IF father[c] = p THEN NewFather(p) ELSE father[c]]
  PROVE  TreeInv'
<1> DEFINE u == Up(p)
<1>1. PICK N : N = Cardinality(Family)
  OBVIOUS
<1>2. PICK n \in 1..N :
        /\ NewFather(p) = u[n] /\ u[n] \in running
        /\ \A m \in 0..n - 1 : u[m] \in running \ NsReapers /\ u[m] # u[n]
  BY <1>1, NewFatherIs
<1>3. /\ N \in Nat /\ u[0] = p /\ (\A m \in 1..N : u[m] = father[u[m - 1]])
  BY <1>1, Ancestors
<1> HIDE DEF u
<1>4. PICK a \in running : a = u[n] /\ a # p
  BY <1>2, <1>3
<1>5. /\ p # FirstProc /\ FirstProc \in running /\ running \subseteq Family /\ father \in [Family -> Family]
      /\ \A q \in running : father[q] \in running
      /\ father[FirstProc] = FirstProc
  BY FamilyAssumption DEF TreeInv
<1>6. father' = [c \in Family |-> IF c = p THEN FirstProc ELSE IF father[c] = p THEN a ELSE father[c]]
  BY <1>2, <1>4
<1>7. /\ \A q \in running \ {p} : father'[q] = IF father[q] = p THEN a ELSE father[q]
      /\ father' \in [Family -> Family]
  BY <1>5, <1>6
<1>8. ASSUME NEW S \in SUBSET (running' \ {FirstProc}), S # {}, \A q \in S : father'[q] \in S PROVE FALSE
  <2>1. S \in SUBSET (running \ {FirstProc}) /\ p \notin S
    BY <1>8
  <2>2. CASE a \notin S
    <3>1. PICK q \in S : father[q] \notin S
      BY <1>8, <2>1 DEF TreeInv
    <3>2. father'[q] \notin S
      BY <1>7, <2>1, <2>2, <3>1
    <3>3. QED
      BY <1>8, <3>2
  <2>3. CASE a \in S
    <3> DEFINE B == {u[m] : m \in 0..n - 1}
               T == S \cup B
    <3>1. B \in SUBSET (running \ {FirstProc})
      BY <1>2, FamilyAssumption
    <3>2. p \in B
      BY <1>3
    <3>3. ASSUME NEW q \in S PROVE father[q] \in T
      <4>1. father'[q] = (IF father[q] = p THEN a ELSE father[q]) /\ father'[q] \in S
        BY <1>7, <1>8, <2>1
      <4>2. QED
        BY <3>2, <4>1
    <3>4. ASSUME NEW m \in 0..n - 1 PROVE father[u[m]] \in T
      <4>1. m + 1 \in 1..N /\ (m + 1) - 1 = m /\ (m + 1 = n \/ m + 1 \in 0..n - 1)
        BY <1>3
      <4>2. father[u[m]] = u[m + 1]
        BY <1>3, <4>1
      <4>3. QED
        BY <1>4, <2>3, <4>1, <4>2
    <3>5. \A q \in T : father[q] \in T
      BY <3>3, <3>4
    <3>6. T \in SUBSET (running \ {FirstProc}) /\ T # {}
      BY <2>1, <3>1, <3>2
    <3> HIDE DEF T
    <3>7. QED
      BY <3>5, <3>6 DEF TreeInv
  <2>4. QED
    BY <2>2, <2>3
<1>9. father'[FirstProc] = FirstProc
  BY <1>5, <1>7
<1>10. \A q \in running' : father'[q] \in running'
  BY <1>4, <1>5, <1>7
<1>11. QED
  BY <1>5, <1>7, <1>8, <1>9, <1>10 DEF TreeInv

\* The orphans of a process that knows are told already; if it does not know,
\* the new father, the first process of the namespace, is not informed.
LEMMA ExitProcKeeps ==
  ASSUME SubInv, NEW p \in Family, ExitProc(p)
  PROVE  SubInv'
<1>1. /\ WriteLockFree /\ p \in running \ NsReapers /\ call[p] = "idle" /\ running' = running \ {p}
      /\ father' = [c \in Family |-> IF c = p THEN FirstProc ELSE IF father[c] = p THEN NewFather(p) ELSE father[c]]
      /\ isSub' = isSub \ {p} /\ hasSub' = hasSub \ {p} /\ UNCHANGED <<call, visit>>
  BY DEF ExitProc
<1>2. TreeInv /\ TreeInv'
  BY <1>1, ExitTree DEF SubInv
<1>3. PICK a : a = NewFather(p)
  OBVIOUS
<1>4. a \in running /\ a # p /\ (p \in hasSub \/ a \notin Informed)
  <2>1. PICK n \in 1..Cardinality(Family) :
          /\ NewFather(p) = Up(p)[n] /\ NewFather(p) \in running
          /\ p \in hasSub \/ NewFather(p) \in NsReapers
          /\ \A m \in 0..n - 1 : Up(p)[m] \in running \ NsReapers /\ Up(p)[m] # NewFather(p)
    BY <1>1, <1>2, NewFatherIs
  <2>2. Up(p)[0] = p
    BY <1>1, <1>2, Ancestors
  <2>3. 0 \in 0..n - 1
    OBVIOUS
  <2>4. a \in Informed => p \in hasSub
    BY <1>1, <1>3, <2>1, <2>2, <2>3, QuietDescendants
  <2>5. QED
    BY <1>3, <2>1, <2>2, <2>3, <2>4
<1>5. Informed' = Informed \ {p}
  BY <1>1 DEF Informed
<1>6. \A c \in running \ {p} : father'[c] = IF father[c] = p THEN a ELSE father[c]
  BY <1>1, <1>2, <1>3 DEF TreeInv
<1>7. \A c \in running \ {p} : Skipped(c) => Skipped(c)'
  BY <1>1 DEF Skipped, is_child_reaper
<1>8. ASSUME NEW q \in Informed', NEW d \in Children(q)' PROVE Covered(d)'
  <2>1. q \in Informed /\ q # p
    BY <1>5
  <2>2. d \in running /\ d # p /\ d # q /\ father'[d] = q
    BY <1>1 DEF Children
  <2>3. CASE father[d] = q
    <3>1. d \in Children(q)
      BY <2>2, <2>3 DEF Children
    <3>2. QED
      BY <1>1, <1>7, <2>1, <2>2, <3>1, QuietChildren DEF Covered
  <2>4. CASE father[d] # q
    <3>1. father[d] = p /\ q = a
      BY <1>6, <2>2, <2>4
    <3>2. p \in Informed /\ d \in Children(p)
      BY <1>4, <2>1, <2>2, <3>1 DEF Informed, Children
    <3>3. QED
      BY <1>1, <1>7, <2>2, <3>2, QuietChildren DEF Covered
  <2>5. QED
    BY <2>3, <2>4
<1>9. visit' \in [Family -> SUBSET running']
  <2>1. \A w \in Family : visit[w] = {}
    BY <1>1, NoWalks
  <2>2. QED
    BY <1>1, <2>1 DEF SubInv
<1>10. \A q \in Family : call'[q] # "idle" => q \in isSub'
  BY <1>1 DEF SubInv
<1>11. isSub' \subseteq running' /\ hasSub' \subseteq running'
  BY <1>1 DEF SubInv
<1>12. QED
  BY <1>1, <1>2, <1>8, <1>9, <1>10, <1>11 DEF SubInv

LEMMA SubStep ==
  ASSUME SubInv, [SubNext]_subVars
  PROVE  SubInv'
<1>1. CASE UNCHANGED subVars
  <2>1. UNCHANGED <<running, father, isSub, hasSub, call, visit>>
    BY <1>1 DEF subVars
  <2>2. TreeInv' /\ Informed' = Informed /\ (\A q : Children(q)' = Children(q)) /\ \A c : Covered(c)' = Covered(c)
    BY <2>1 DEF SubInv, TreeInv, Informed, Children, Covered, Skipped, is_child_reaper
  <2>3. QED
    BY <2>1, <2>2 DEF SubInv
<1>2. CASE SubNext
  BY <1>2, PrctlKeeps, PropagateKeeps, ForkChildKeeps, ExitProcKeeps DEF SubNext
<1>3. QED
  BY <1>1, <1>2

(***************************************************************************)
(* For any finite set of processes, any nesting of pid namespaces and any  *)
(* interleaving of walks, forks and exits: a walk skips nobody who has     *)
(* descendants still to be told, and when no walk is going on every        *)
(* descendant of a subreaper knows that it has to look for one.            *)
(***************************************************************************)
THEOREM SubreapersAreKnown == SubSpec => []DescendantsKnow
<1>1. SubInit => SubInv
  BY SubStart
<1>2. SubInv /\ [SubNext]_subVars => SubInv'
  BY SubStep
<1>3. ASSUME SubInv PROVE DescendantsKnow
  <2>1. ToldOnceToldBelow
    BY <1>3 DEF SubInv, ToldOnceToldBelow, Covered, Informed
  <2>2. ASSUME WriteLockFree, NEW s \in isSub, NEW p \in running \ NsReapers, call[s] = "idle",
               NEW n \in 1..Cardinality(Family), Up(p)[n] = s, \A m \in 0..n - 1 : Up(p)[m] \notin NsReapers
        PROVE  p \in hasSub
    <3>1. TreeInv /\ s \in Informed
      BY <1>3, <2>2 DEF SubInv, Informed
    <3>2. Up(p)[0] = p /\ Cardinality(Family) \in Nat
      BY <3>1, Ancestors
    <3>3. 0 \in 0..n - 1
      BY <3>2
    <3>4. QED
      BY <1>3, <2>2, <3>1, <3>2, <3>3, QuietDescendants
  <2>3. QED
    BY <2>1, <2>2 DEF DescendantsKnow
<1>4. QED
  BY <1>1, <1>2, <1>3, PTL DEF SubSpec
=============================================================================
