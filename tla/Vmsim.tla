-------------------------------- MODULE Vmsim --------------------------------
(***************************************************************************)
(* vmsim.java: a trace of memory accesses run through one of four page     *)
(* replacement algorithms.  A line of the trace is a page and an           *)
(* operation; lines of other kinds are skipped, and addresses matter only  *)
(* through their page.                                                     *)
(***************************************************************************)
EXTENDS Integers, Sequences, FiniteSetsExt

CONSTANTS
  VPages,       \* 1..n, the pages of the table that the trace uses
  numFrames,
  TraceLength   \* bound on the accesses of a trace

ASSUME VmsimAssumption == IsFiniteSet(VPages) /\ numFrames \in Nat \ {0} /\ TraceLength \in Nat

VARIABLES
  algorithm,    \* "fifo", "opt", "clock" or "rand"
  trace,        \* the pages, in the order of the accesses
  commandNum,   \* the access that is next
  pageTable,    \* a PageTableEntry for every page
  ram,          \* the page in each frame; for fifo the queue of pages
  pageSoFar,    \* frames filled for the first time
  oldestIndex,  \* the hand of the clock
  pageMap,      \* opt: the accesses of each page that are not crossed out
  pageFault, writeToDisk,
  least         \* reference: the fewest faults the trace can have

vmVars == <<algorithm, trace, commandNum, pageTable, ram, pageSoFar, oldestIndex, pageMap,
            pageFault, writeToDisk, least>>

PageTableEntry == [dirty |-> FALSE, valid |-> FALSE, ref |-> TRUE, frame |-> -1]

\* Traces in which the pages turn up in the order of their numbers: the
\* names of the pages make no difference to any algorithm.
Traces ==
  {s \in [1..TraceLength -> VPages] :
     \A i \in 1..TraceLength : \A p \in 1..s[i] - 1 : \E j \in 1..i - 1 : s[j] = p}

Occurrences(s, p) == {i \in DOMAIN s : s[i] = p}

\* The least number of faults with which the accesses up to n can be served
\* so that S is in memory afterwards, over all ways to choose victims; more
\* than Len(s) if that cannot be.
LeastFaults(s) ==
  LET Sets == {S \in SUBSET VPages : Cardinality(S) <= numFrames}
      Best[n \in 0..TraceLength] ==
        IF n = 0 THEN [S \in Sets |-> IF S = {} THEN 0 ELSE TraceLength + 1]
        ELSE [S \in Sets |->
               IF s[n] \notin S THEN TraceLength + 1
               ELSE Min({Best[n - 1][S]} \cup
                        {Best[n - 1][T] + 1 : T \in {U \in Sets : s[n] \notin U /\ S \ {s[n]} \subseteq U}})]
  IN Min({Best[TraceLength][S] : S \in Sets})

VmStart(name, s) ==
  /\ algorithm = name
  /\ trace = s
  /\ commandNum = 1
  /\ pageTable = [p \in VPages |-> PageTableEntry]
  /\ ram = <<>>
  /\ pageSoFar = 0
  /\ oldestIndex = 0
  /\ pageMap = [p \in VPages |-> IF algorithm = "opt" THEN Occurrences(trace, p) ELSE {}]
  /\ pageFault = 0 /\ writeToDisk = 0
  /\ least = LeastFaults(trace)

VmInit == \E name \in {"fifo", "opt", "clock", "rand"}, s \in Traces : VmStart(name, s)

Page == trace[commandNum]
More == commandNum <= Len(trace)
Fault == More /\ ~pageTable[Page].valid
RamFull == pageSoFar >= numFrames

\* The entry after the operation: S and M write.
processOperation(entry, operation) ==
  IF operation \in {"M", "S"} THEN [entry EXCEPT !.dirty = TRUE] ELSE entry

Operations == {"I", "L", "S", "M"}

\* A hit gives the page a second chance, where the algorithm has one.
Hit(operation) ==
  /\ More /\ pageTable[Page].valid
  /\ pageTable' = [pageTable EXCEPT ![Page] =
       processOperation(IF algorithm \in {"opt", "clock"} THEN [@ EXCEPT !.ref = TRUE] ELSE @, operation)]
  /\ commandNum' = commandNum + 1
  /\ UNCHANGED <<algorithm, trace, ram, pageSoFar, oldestIndex, pageMap, pageFault, writeToDisk, least>>

\* A fault while there are free frames.
NoEviction(operation) ==
  /\ Fault /\ ~RamFull
  /\ pageTable' = [pageTable EXCEPT ![Page] =
       processOperation([@ EXCEPT !.valid = TRUE, !.frame = pageSoFar], operation)]
  /\ ram' = Append(ram, Page)
  /\ pageSoFar' = pageSoFar + 1
  /\ pageFault' = pageFault + 1
  /\ commandNum' = commandNum + 1
  /\ UNCHANGED <<algorithm, trace, oldestIndex, pageMap, writeToDisk, least>>

\* Mutant: the entry keeps its dirty bit.
Evicted_StaysDirty(entry) == [PageTableEntry EXCEPT !.dirty = entry.dirty]

Evicted(entry) == PageTableEntry

\* A fault that takes the frame of victim; newRam has the page in it.
Evict(victim, newRam, operation) ==
  /\ pageTable' = [pageTable EXCEPT
       ![Page] = processOperation([@ EXCEPT !.valid = TRUE, !.frame = pageTable[victim].frame], operation),
       ![victim] = Evicted(@)]
  /\ ram' = newRam
  /\ writeToDisk' = writeToDisk + (IF pageTable[victim].dirty THEN 1 ELSE 0)
  /\ pageFault' = pageFault + 1
  /\ commandNum' = commandNum + 1
  /\ UNCHANGED <<algorithm, trace, pageSoFar, least>>

fifo(operation) ==
  /\ algorithm = "fifo" /\ Fault /\ RamFull
  /\ Evict(Head(ram), Append(Tail(ram), Page), operation)
  /\ UNCHANGED <<oldestIndex, pageMap>>

rand(operation) ==
  /\ algorithm = "rand" /\ Fault /\ RamFull
  /\ \E i \in DOMAIN ram : Evict(ram[i], [ram EXCEPT ![i] = Page], operation)
  /\ UNCHANGED <<oldestIndex, pageMap>>

\* The clock: the hand passes frames with the ref bit set and clears it ...
NextIndex == IF oldestIndex + 1 >= numFrames THEN 0 ELSE oldestIndex + 1
Hand == ram[oldestIndex + 1]

ClockHand ==
  /\ algorithm = "clock" /\ Fault /\ RamFull
  /\ pageTable[Hand].ref
  /\ pageTable' = [pageTable EXCEPT ![Hand].ref = FALSE]
  /\ oldestIndex' = NextIndex
  /\ UNCHANGED <<algorithm, trace, commandNum, ram, pageSoFar, pageMap, pageFault, writeToDisk, least>>

\* ... and takes the first frame without it.
clock(operation) ==
  /\ algorithm = "clock" /\ Fault /\ RamFull
  /\ ~pageTable[Hand].ref
  /\ Evict(Hand, [ram EXCEPT ![oldestIndex + 1] = Page], operation)
  /\ oldestIndex' = NextIndex
  /\ UNCHANGED pageMap

\* opt looks at the frames in order.  For the pages up to the first one that
\* is never used again it crosses out the accesses that are over.
Future(p) == {i \in pageMap[p] : i > commandNum}

\* The frame at which the loop is left, one more than the last if it is not.
Stop == Min({numFrames + 1} \cup {i \in DOMAIN ram : Future(ram[i]) = {}})

\* Mutant: the page that is used again soonest.
Farthest_Nearest(S) == CHOOSE i \in S : \A j \in S : Min(Future(ram[i])) <= Min(Future(ram[j]))

Farthest(S) == CHOOSE i \in S : \A j \in S : Min(Future(ram[i])) >= Min(Future(ram[j]))

\* A page whose accesses were crossed out before ends the loop without
\* becoming the victim; then the farthest page so far is taken, or frame 0.
Victim ==
  IF Stop <= numFrames /\ pageMap[ram[Stop]] # {} THEN Stop
  ELSE IF Stop = 1 THEN 1 ELSE Farthest(1..Stop - 1)

opt(operation) ==
  /\ algorithm = "opt" /\ Fault /\ RamFull
  /\ pageMap' = [p \in VPages |-> IF \E i \in 1..Min({Stop, numFrames}) : ram[i] = p THEN Future(p) ELSE pageMap[p]]
  /\ Evict(ram[Victim], [ram EXCEPT ![Victim] = Page], operation)
  /\ UNCHANGED <<oldestIndex>>

VmNext ==
  \/ \E operation \in Operations :
       \/ Hit(operation) \/ NoEviction(operation)
       \/ fifo(operation) \/ rand(operation) \/ clock(operation) \/ opt(operation)
  \/ ClockHand

VmSpec == VmInit /\ [][VmNext]_vmVars

-----------------------------------------------------------------------------
Resident == {p \in VPages : pageTable[p].valid}

\* The page table and the frames say the same after every access: each
\* resident page has a frame of its own, ram lists exactly those pages, and
\* a page that is out has a fresh entry, so that it is not written to disk
\* again for an old store.
TableMatchesRam ==
  /\ {ram[i] : i \in DOMAIN ram} = Resident
  /\ Len(ram) = Cardinality(Resident)
  /\ {pageTable[p].frame : p \in Resident} = 0..pageSoFar - 1
  /\ \A p \in VPages \ Resident : pageTable[p] = PageTableEntry
  /\ algorithm # "fifo" => \A p \in Resident : ram[pageTable[p].frame + 1] = p

\* opt, which finds the farthest page with a map of accesses that it crosses
\* out as it goes, has no more faults than the best choice of victims that
\* knows the whole trace, and no algorithm has fewer.
OptIsOptimal ==
  ~More => IF algorithm = "opt" THEN pageFault = least ELSE pageFault >= least
=============================================================================
