------------------------------- MODULE PrctlMm -------------------------------
(***************************************************************************)
(* prctl(PR_SET_MM): the addresses of code, data, heap, stack, arguments   *)
(* and environment that a memory descriptor records, its auxiliary vector  *)
(* and its executable.  Threads of one process call it at the same time;   *)
(* reading the addresses and writing them back is one step of each thread  *)
(* at a time only because arg_lock is held in between.                     *)
(***************************************************************************)
EXTENDS Naturals, FiniteSets

CONSTANTS
  MmThreads,
  Addrs,          \* the addresses tried
  MinAddr, TaskSize,
  DataLimit,      \* RLIMIT_DATA
  Tried,          \* the fields set one by one
  UserMaps,       \* the complete maps passed with PR_SET_MM_MAP
  FirstMap,       \* the map that exec left
  AuxSize,        \* AT_VECTOR_SIZE
  Files, FirstExe

Fields == {"start_code", "end_code", "start_data", "end_data", "start_brk", "brk",
           "start_stack", "arg_start", "arg_end", "env_start", "env_end"}

Unheld == "free"

check_data_rlimit(m) == (m.brk - m.start_brk) + (m.end_data - m.start_data) > DataLimit

validate_prctl_map_addr(m) ==
  /\ \A f \in Fields : m[f] >= MinAddr /\ m[f] < TaskSize
  /\ m.start_code < m.end_code
  /\ m.start_data <= m.end_data
  /\ m.start_brk <= m.brk
  /\ m.arg_start <= m.arg_end
  /\ m.env_start <= m.env_end
  /\ m.start_brk > m.end_data /\ m.brk > m.end_data
  /\ ~check_data_rlimit(m)

\* The map that exec leaves passes the checks, and the vector has room for
\* the two words at its end.
ASSUME PrctlMmAssumption ==
  /\ Addrs \subseteq Nat /\ {MinAddr, TaskSize, DataLimit} \subseteq Nat
  /\ FirstMap \in [Fields -> Nat] /\ UserMaps \subseteq [Fields -> Nat]
  /\ validate_prctl_map_addr(FirstMap)
  /\ Tried \subseteq Fields
  /\ AuxSize \in Nat \ {0, 1}
  /\ Unheld \notin MmThreads

VARIABLES
  mm,         \* the addresses
  auxv,       \* saved_auxv: word by word, 0 is AT_NULL
  exe,        \* mm->exe_file
  mapped,     \* the files that are mapped into the address space
  argLock,    \* holder of arg_lock (and of mmap_lock, for reading)
  mmCall      \* where each thread is

mmVars == <<mm, auxv, exe, mapped, argLock, mmCall>>

MmIdle == [pc |-> "idle"]

MmInit ==
  /\ mm = FirstMap
  /\ auxv = [i \in 1..AuxSize |-> 0]
  /\ exe = FirstExe
  /\ mapped = {FirstExe}
  /\ argLock = Unheld
  /\ mmCall = [t \in MmThreads |-> MmIdle]

\* Mutant: the snapshot is taken without arg_lock.
LockArgs_Skipped(t) == UNCHANGED argLock

LockArgs(t) == argLock = Unheld /\ argLock' = t

\* prctl_set_mm of one field, first part: everything is read under the lock.
SetField(t, f, addr) ==
  /\ mmCall[t] = MmIdle
  /\ addr >= MinAddr /\ addr < TaskSize
  /\ LockArgs(t)
  /\ mmCall' = [mmCall EXCEPT ![t] = [pc |-> "store", field |-> f, map |-> [mm EXCEPT ![f] = addr]]]
  /\ UNCHANGED <<mm, auxv, exe, mapped>>

NeedsVma == {"start_stack", "arg_start", "arg_end", "env_start", "env_end"}

\* Mutant: the map with the new address is stored unchecked.
prctl_set_mm_Unchecked(t, hasVma) ==
  /\ mmCall[t].pc = "store"
  /\ mm' = mmCall[t].map
  /\ argLock' = Unheld
  /\ mmCall' = [mmCall EXCEPT ![t] = MmIdle]
  /\ UNCHANGED <<auxv, exe, mapped>>

\* Second part: the map with the new address is checked and stored whole.
\* Without a mapping above the address (hasVma) five fields are refused.
prctl_set_mm(t, hasVma) ==
  /\ mmCall[t].pc = "store"
  /\ LET m == mmCall[t].map
     IN mm' = IF validate_prctl_map_addr(m) /\ (mmCall[t].field \in NeedsVma => hasVma) THEN m ELSE mm
  /\ argLock' = Unheld
  /\ mmCall' = [mmCall EXCEPT ![t] = MmIdle]
  /\ UNCHANGED <<auxv, exe, mapped>>

\* The vector a caller passes: len words, the last two forced to AT_NULL.
UserAux(word, len) == [i \in 1..AuxSize |-> IF i <= len /\ i <= AuxSize - 2 THEN word ELSE 0]

\* PR_SET_MM_MAP: the map is checked before the locks are taken and stored
\* under both, with the whole vector if there is one.  A call that also names
\* an executable exchanges that first (ExeUnmapped, ExeSwap).
prctl_set_mm_map(t, m, auxSize, word) ==
  /\ mmCall[t] = MmIdle
  /\ argLock = Unheld
  /\ validate_prctl_map_addr(m)
  /\ auxSize <= AuxSize
  /\ mm' = m
  /\ auxv' = IF auxSize = 0 THEN auxv ELSE UserAux(word, auxSize)
  /\ UNCHANGED <<exe, mapped, argLock, mmCall>>

\* PR_SET_MM_AUXV copies only the words it was given.
prctl_set_auxv(t, word, len) ==
  /\ mmCall[t] = MmIdle
  /\ len <= AuxSize
  /\ auxv' = [i \in 1..AuxSize |-> IF i <= len THEN UserAux(word, len)[i] ELSE auxv[i]]
  /\ UNCHANGED <<mm, exe, mapped, argLock, mmCall>>

\* prctl_set_mm_exe_file, first part: the walk over the mappings, under
\* mmap_lock, finds none of the old executable.
ExeUnmapped(t, file) ==
  /\ mmCall[t] = MmIdle
  /\ exe \notin mapped
  /\ mmCall' = [mmCall EXCEPT ![t] = [pc |-> "swap", file |-> file]]
  /\ UNCHANGED <<mm, auxv, exe, mapped, argLock>>

\* Second part: the exchange, with no lock.
ExeSwap(t) ==
  /\ mmCall[t].pc = "swap"
  /\ exe' = mmCall[t].file
  /\ mmCall' = [mmCall EXCEPT ![t] = MmIdle]
  /\ UNCHANGED <<mm, auxv, mapped, argLock>>

\* mmap and munmap of a file, and brk, which need mmap_lock for writing.
MapFile(file) ==
  /\ argLock = Unheld
  /\ mapped' = IF file \in mapped THEN mapped \ {file} ELSE mapped \cup {file}
  /\ UNCHANGED <<mm, auxv, exe, argLock, mmCall>>

SysBrk(addr) ==
  /\ argLock = Unheld
  /\ addr >= mm.start_brk /\ addr < TaskSize
  /\ ~check_data_rlimit([mm EXCEPT !.brk = addr])
  /\ mm' = [mm EXCEPT !.brk = addr]
  /\ UNCHANGED <<auxv, exe, mapped, argLock, mmCall>>

MmNext ==
  \/ \E t \in MmThreads :
       \/ \E f \in Tried, addr \in Addrs : SetField(t, f, addr)
       \/ \E hasVma \in BOOLEAN : prctl_set_mm(t, hasVma)
       \/ \E m \in UserMaps, n \in 0..AuxSize, word \in 0..1 : prctl_set_mm_map(t, m, n, word)
       \/ \E len \in 0..AuxSize, word \in 0..1 : prctl_set_auxv(t, word, len)
       \/ \E file \in Files : ExeUnmapped(t, file)
       \/ ExeSwap(t)
  \/ \E file \in Files : MapFile(file)
  \/ \E addr \in Addrs : SysBrk(addr)

MmSpec == MmInit /\ [][MmNext]_mmVars

-----------------------------------------------------------------------------
\* No sequence of changes, field by field or whole, by several threads and
\* with brk in between, leaves the areas out of order: code before its end,
\* data before the heap, the data limit kept; and "Make sure the last entry
\* is always AT_NULL", also after partial updates of different lengths.
MapStaysValid ==
  /\ validate_prctl_map_addr(mm)
  /\ auxv[AuxSize] = 0 /\ auxv[AuxSize - 1] = 0

\* A thread that sets one field changes no other: what another thread or brk
\* has stored meanwhile is not overwritten by a stale copy.
OneFieldAtATime ==
  [][\A t \in MmThreads : mmCall[t].pc = "store" /\ mmCall'[t] = MmIdle =>
       \A f \in Fields \ {mmCall[t].field} : mm'[f] = mm[f]]_mmVars
=============================================================================
