------------------------------- MODULE Sysinfo -------------------------------
(***************************************************************************)
(* sysinfo of kernel/sys.c, natively and for 32-bit callers, and getcpu.   *)
(* The kernel counts memory in pages.  do_sysinfo turns the counts into    *)
(* bytes if nothing overflows; a 32-bit caller gets them in pages again if *)
(* the bytes need more than 32 bits.  totalram, freeram, totalswap and     *)
(* freeswap stand for all eight counts: the others (shared, buffer and     *)
(* high memory) are parts of totalram, as freeram is.                      *)
(***************************************************************************)
EXTENDS Naturals

CONSTANTS
  LONG_BITS,     \* bits of an unsigned long
  INT_BITS,      \* 32
  PAGE_BITS,     \* a page has 2^PAGE_BITS bytes
  Cpus, NodeOf   \* NodeOf[cpu]: cpu_to_node

ASSUME SysinfoAssumption ==
  /\ {LONG_BITS, INT_BITS, PAGE_BITS} \subseteq Nat
  /\ PAGE_BITS < INT_BITS /\ INT_BITS < LONG_BITS

VARIABLES
  pages,      \* what si_meminfo and si_swapinfo find
  info,       \* what the last call wrote
  cpuAnswer   \* what getcpu wrote

sysinfoVars == <<pages, info, cpuAnswer>>

LONG == 2^LONG_BITS
INT == 2^INT_BITS
PAGE_SIZE == 2^PAGE_BITS
Counts == {"totalram", "freeram", "totalswap", "freeswap"}

\* All sizes of memory and swap, each of them used up or free.
SysinfoInit ==
  /\ \E ram, swap \in 0..LONG - 1 : \E freeram \in {0, ram}, freeswap \in {0, swap} :
       pages = [totalram |-> ram, freeram |-> freeram, totalswap |-> swap, freeswap |-> freeswap]
  /\ info = [call |-> "none"]
  /\ cpuAnswer = [err |-> "OK", cpu |-> "none", node |-> "none"]

Shl(x, n) == (x * 2^n) % LONG
Shr(x, n) == x \div 2^n

\* Mutant: only the sum is looked at, as if it were not shifted after that.
Overflows_SumOnly(p) == Shl(p.totalram + p.totalswap, 0) < p.totalram

\* The sum of ram and swap wraps, or one of the doublings of it does.
Overflows(p) ==
  LET total == Shl(p.totalram + p.totalswap, 0)
  IN \/ total < p.totalram \/ total < p.totalswap
     \/ \E n \in 1..PAGE_BITS : Shl(total, n) < Shl(total, n - 1)

do_sysinfo(p) ==
  IF Overflows(p) THEN [unit |-> PAGE_SIZE, count |-> p]
  ELSE [unit |-> 1, count |-> [f \in Counts |-> Shl(p[f], PAGE_BITS)]]

sysinfo ==
  /\ info' = [call |-> "sysinfo", val |-> do_sysinfo(pages)]
  /\ UNCHANGED <<pages, cpuAnswer>>

\* upper_32_bits of one of the totals.
NeedsScaling(s) == s.count.totalram >= INT \/ s.count.totalswap >= INT

\* How often the unit is doubled until it is a page.
Doublings(unit) == CHOOSE n \in 0..PAGE_BITS : unit * 2^n = PAGE_SIZE

ScaledDown(s) ==
  IF NeedsScaling(s)
  THEN [unit |-> PAGE_SIZE, count |-> [f \in Counts |-> Shr(s.count[f], Doublings(s.unit))]]
  ELSE s

\* The fields of struct compat_sysinfo have 32 bits.
Truncated(s) == [s EXCEPT !.count = [f \in Counts |-> s.count[f] % INT]]

compat_sysinfo ==
  /\ info' = [call |-> "compat", val |-> Truncated(ScaledDown(do_sysinfo(pages)))]
  /\ UNCHANGED <<pages, cpuAnswer>>

\* Both answers are tried, whatever happens to the first.
getcpu(cpu, cpuOk, nodeOk) ==
  /\ cpuAnswer' = [err |-> IF cpuOk /\ nodeOk THEN "OK" ELSE "EFAULT",
                   cpu |-> IF cpuOk THEN cpu ELSE cpuAnswer.cpu,
                   node |-> IF nodeOk THEN NodeOf[cpu] ELSE cpuAnswer.node]
  /\ UNCHANGED <<pages, info>>

SysinfoNext ==
  \/ sysinfo \/ compat_sysinfo
  \/ \E cpu \in Cpus, cpuOk, nodeOk \in BOOLEAN : getcpu(cpu, cpuOk, nodeOk)

SysinfoSpec == SysinfoInit /\ [][SysinfoNext]_sysinfoVars

-----------------------------------------------------------------------------
\* "If mem_total did not overflow, multiply all memory values": for every
\* size of memory, every value times the unit is the number of bytes, with
\* nothing lost to a wrap in a sum or a shift.  "Check to see if any memory
\* value is too large for 32-bit and scale down if needed": a 32-bit caller is
\* told the exact sizes, too, unless there are more pages than 32 bits count.
BytesExact ==
  info.call = "sysinfo" \/ (info.call = "compat" /\ pages.totalram < INT /\ pages.totalswap < INT) =>
    \A f \in Counts : info.val.count[f] * info.val.unit = pages[f] * PAGE_SIZE
=============================================================================
