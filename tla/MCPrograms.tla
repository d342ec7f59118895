----------------------------- MODULE MCPrograms -----------------------------
(***************************************************************************)
(* What a single program does, one program at a time: the queue of         *)
(* prodcons.c, osmsg with the message system calls, vmsim, the graphics    *)
(* programs, the example of FUSE, and the calls by which a process         *)
(* describes itself (prctl) or asks about the machine (sysinfo).  Their    *)
(* states are disjoint, so one behaviour exercises one of them (active).   *)
(***************************************************************************)
EXTENDS CarQueueClient, Messages, Vmsim, Graphics, Sysinfo, PrctlMm, Prctl, HelloFuse

VARIABLE active

Programs == {"queue", "messages", "vmsim", "graphics", "sysinfo", "mm", "prctl", "hello"}

\* A program that is not run stays in one of its initial states.
ProgramsInit ==
  /\ active \in Programs
  /\ QueueInit /\ MsgInit /\ MmInit /\ PrctlInit /\ HelloInit
  /\ IF active = "vmsim" THEN VmInit ELSE VmStart("fifo", [i \in 1..TraceLength |-> 1])
  /\ GfxInit /\ (active # "graphics" => program = "driver")
  /\ SysinfoInit /\ (active # "sysinfo" => \A f \in Counts : pages[f] = 0)

ProgramsNext ==
  /\ UNCHANGED active
  /\ \/ active = "queue" /\ QueueNext
     \/ active # "queue" /\ UNCHANGED queueVars
  /\ \/ active = "messages" /\ MsgNext
     \/ active # "messages" /\ UNCHANGED msgVars
  /\ \/ active = "vmsim" /\ VmNext
     \/ active # "vmsim" /\ UNCHANGED vmVars
  /\ \/ active = "graphics" /\ GfxNext
     \/ active # "graphics" /\ UNCHANGED gfxVars
  /\ \/ active = "sysinfo" /\ SysinfoNext
     \/ active # "sysinfo" /\ UNCHANGED sysinfoVars
  /\ \/ active = "mm" /\ MmNext
     \/ active # "mm" /\ UNCHANGED mmVars
  /\ \/ active = "prctl" /\ PrctlNext
     \/ active # "prctl" /\ UNCHANGED prctlVars
  /\ \/ active = "hello" /\ HelloNext
     \/ active # "hello" /\ UNCHANGED helloVars

ProgramsSpec ==
  ProgramsInit /\ [][ProgramsNext]_<<active, queueVars, msgVars, vmVars, gfxVars, sysinfoVars, mmVars, prctlVars, helloVars>>

-----------------------------------------------------------------------------
MCLetters == {[to |-> "ann", msg |-> "x"], [to |-> "ann", msg |-> "y"], [to |-> "bob", msg |-> "x"]}

MCEnds == {-1, 0, 1, 5, 15, 16, 17}
MCStrokes ==
  [k \in 1..3 |-> CASE k = 1 -> MCEnds \X MCEnds \X MCEnds \X MCEnds
                    [] k = 2 -> {<<3, 1, 9, 14>>}
                    [] k = 3 -> {<<1, 2, 15, 8>>}]

MCNodeOf == [cpu \in Cpus |-> "node0"]

MCHello == <<"h", "e", "l", "o">>

MCMap(sc, ec, sd, ed, sb, b) ==
  [f \in Fields |-> CASE f = "start_code" -> sc [] f = "end_code" -> ec
                      [] f = "start_data" -> sd [] f = "end_data" -> ed
                      [] f = "start_brk" -> sb [] f = "brk" -> b [] OTHER -> 1]
MCFirstMap == MCMap(1, 2, 1, 1, 2, 2)
MCMaps == {MCMap(1, 3, 1, 2, 3, 3), MCMap(2, 2, 1, 1, 2, 2)}
=============================================================================
