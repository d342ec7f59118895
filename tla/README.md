# Verification of the operating-system projects

This directory is a TLA+ development for the code of the repository. Each module
models some of the functions under `src/` as they are written, TLC explores small
instances of it, and TLAPS proves most of the invariants for every value of the
constants: of the semaphores and the two programs on top of them, the file system, the
page replacement algorithms and the larger part of the calls of the kernel.
`PROJECT.json` lists the runs, the source lines behind each definition, the findings,
the hazards and the theorems.

## The system: inventory

The repository is five independent projects of an operating-systems course. Two of
them patch `kernel/sys.c`; the rest of that file is the kernel's, and it is modelled too,
because the added calls are compiled into it and its families of calls are the larger
part of the code.

| Component | State | Operations | What makes it hard | What makes it correct |
|---|---|---|---|---|
| Semaphore system calls (`Semaphore and Synchronization/sys.c`, lines 195-278) | value and wait list of every semaphore, the kernel mutex `sem_lock`, task states | `csc452_down`, `csc452_up` | callers interleave; sleeping, waking and signals; a failing `kmalloc` | no permit is handed out twice; an up returns; an up wakes a sleeper |
| `trafficsim.c` | two circular buffers indexed by growing counters, five semaphores, `con_sleep` | two producers, the flagperson | three processes; counters read without the mutex; starvation | mutual exclusion; no car is overwritten in line; no line starves |
| `prodcons.c` | two circular queues with a `size` field, five semaphores, per-process copies of `is_sleep` and `total_car` | `enqueue`, `dequeue`, two producers, the flagperson | the same, and a redundant size that decides the loops | the queue is a bounded FIFO; the semaphores and the queues agree |
| File system (`File Systems Implementation/csc452fuse.c`) | `.disk`: root block, directory blocks, data blocks, the free-block tracker; stdio buffers | `getattr`, `readdir`, `mkdir`, `mknod`, `read`, `write` | FUSE threads; death between two disk writes; a disk that fills up | blocks have one owner; what was written is read; names are unique |
| Message system calls (`Syscall Implementation/sys.c` lines 195-277, `osmsg.c`) | one global linked list, kernel memory | `csc452_send_msg`, `csc452_get_msg` | no lock at all, an uninitialised link | messages arrive once, at their addressee, in order |
| Virtual memory simulator (`vmsim.java`) | page table, frames, counters | `fifo`, `opt`, `clock`, `rand` | choice of the victim, dirty and reference bits | table and frames agree; `opt` is optimal |
| Graphics library (`library.c`, `driver.c`, `hilbert.c`) | frame buffer, off-screen buffer, terminal mode | `init_graphics`, `draw_pixel`, `draw_line`, `blit`, the curve, ... | integer lines in eight octants, bounds of the buffer, state kept from one curve to the next | lines are straight; the curve fills its grid; the screen is left clean |
| FUSE example (`hello_fuse.c`) | the position of a client | `getattr`, `readdir`, `open`, `read` | pieces that end at or cross the end | reading in pieces gives the file |
| User and group ids (`sys.c` 413-974, 1014-1036) | uid, gid, user structure, capabilities | `setreuid`, `setuid`, `setresuid`, `setfsuid`, the same for groups, `get*id` | calls that combine; -1; failures half-way | dropped ids stay dropped; the user structure follows the real uid |
| Priorities (`sys.c` 150-411) | nice values | `setpriority`, `getpriority` | walks over tasks interleave | a return value of 0 means all; no priority from nowhere |
| Processes, groups, sessions (`sys.c` 977-1289) | parent, group, session, leaders | `setpgid`, `setsid`, `getpgid`, `getsid`, `getpid`, `getppid` | fork, exec, exit and reused ids in between | a group lies in one session |
| Host and domain name (`sys.c` 1290-1480) | two buffers, `uts_sem` | `sethostname`, `setdomainname`, `gethostname`, three `uname` | a name is written in two steps | names are read whole |
| Resource limits (`sys.c` 1480-1760) | limits, CPU timer | `setrlimit`, `getrlimit`, `prlimit64`, 32-bit and old forms | racing callers, four encodings of infinity | soft within hard; the timer is never late |
| Resource usage (`sys.c` 1030-1080, 1760-1920) | counters of threads and children, umask | `getrusage`, `times`, `umask` | threads exit and children are reaped meanwhile | a sample is bracketed; a child counts wholly or not |
| `prctl` (`sys.c` 1920-2610) | memory map, auxiliary vector, executable, subreaper flags, attributes | `PR_SET_MM`, `PR_SET_CHILD_SUBREAPER`, the attribute options | threads that copy and write back the map; walks down one tree | the map stays valid; descendants know their subreaper |
| `sysinfo`, `getcpu` (`sys.c` 2610-2782) | none | `sysinfo`, `compat_sysinfo`, `getcpu` | sums and shifts that wrap | sizes are exact |
| Headers and scripts, the second copy of `sys.c` | none of their own | system call numbers | - | - |

Line numbers of `sys.c` without a directory are those of `Syscall Implementation/sys.c`.

The two traffic programs call the semaphore system calls (`down()` and `up()` are
`syscall(443, sem)` and `syscall(444, sem)`) on structures in shared memory; they use
nothing else of each other. The file system is called back by FUSE, in several
threads unless it is started with `-s`, and shares only the file `.disk` between calls.
`osmsg` runs the two message calls (`syscall(443, ...)`, `syscall(444, ...)` of the other
kernel). The families of `sys.c` share no state with each other, except that the permission
checks of one read ids and capabilities of another; these are parameters there
(`NiceCapable`, `ResourceCapable`, `PrctlCapable`).

## The modules

| Module | Models | Uses |
|---|---|---|
| `CountingSemaphore` | abstract: permits, and permits on credit | - |
| `Semaphore` | `csc452_down`, `csc452_up` | implements `CountingSemaphore` |
| `MCSemaphore` | constants for TLC: a mutex and an initially empty counter | `Semaphore` |
| `SemaphoreProofs` | theorems | `Semaphore` |
| `TrafficSim`, `TrafficSimProofs` | the three processes of `trafficsim.c`; theorems | `Semaphore`, `SemaphoreProofs` |
| `CarQueue` | the `car_queue` functions of `prodcons.c` as operators | - |
| `CarLine` | abstract: a bounded FIFO line | - |
| `CarQueueProofs` | lemmas about the operators of `CarQueue` | `CarQueue` |
| `CarQueueClient` | a queue and an arbitrary client | `CarQueue`, implements `CarLine` |
| `ProdCons`, `ProdConsProofs` | the three processes of `prodcons.c`; theorems | `CarQueue`, `Semaphore`, `SemaphoreProofs`, `CarQueueProofs` |
| `FileSystem`, `FileSystemProofs` | `csc452fuse.c`; theorems | - |
| `MCFileSystem` | symmetry for TLC | `FileSystem` |
| `Mailbox` | abstract: messages kept in order until asked for | - |
| `Messages` | `csc452_send_msg`, `csc452_get_msg`, `osmsg.c` | implements `Mailbox` |
| `MCMessages` | constants for two tasks | `Messages` |
| `Vmsim` | the four algorithms of `vmsim.java` | - |
| `Graphics` | `library.c`, `driver.c`, `hilbert.c` | - |
| `HelloFuse` | `hello_fuse.c` and a client | - |
| `Credentials` | user and group ids | - |
| `Priority` | `setpriority`, `getpriority` | - |
| `Sessions` | processes, groups, sessions | - |
| `Uts` | host and domain name | - |
| `Rlimits` | resource limits | - |
| `Usage` | `getrusage`, `times`, `umask` | - |
| `PrctlMm`, `Subreaper`, `Prctl` | the options of `prctl` | - |
| `Sysinfo` | `sysinfo`, `getcpu` | - |
| `KernelProofs` | theorems about the families of calls | `Credentials`, `Priority`, `Uts`, `Sessions`, `Rlimits`, `Usage`, `Subreaper` |
| `MessagesProofs` | theorems about the message calls | `Messages` |
| `ProgramsProofs` | theorems about single programs and calls | `CarQueueClient`, `CarQueueProofs`, `HelloFuse`, `PrctlMm`, `Prctl`, `Vmsim`, `Sysinfo`, `Graphics` |
| `MCPrograms` | composes `CarQueueClient`, `Messages`, `Vmsim`, `Graphics`, `HelloFuse`, `Sysinfo`, `PrctlMm`, `Prctl` | all of these |
| `MCKernel` | composes `Credentials`, `Priority`, `Rlimits`, `Sessions`, `Uts`, `Usage`, `Subreaper` | all of these |

`MCPrograms` and `MCKernel` put components side by side whose states are disjoint. Their
variable `active` is chosen at the start and says which component moves; the others stay
in one of their initial states. A property of a component therefore holds in the composed
run exactly if it holds of the component alone, and one run explores the sum of the state
spaces instead of their product.

A definition whose comment begins with "Mutant" is a wrong variant of the definition
after it. No specification uses it; replacing the original by it breaks the
property it is listed with in `PROJECT.json`.

### Semaphore

A task is in user mode or at one of four places inside a call (`at[t]`). Everything a
call does to the semaphore it does between `mutex_lock` and `mutex_unlock`, so that
stretch is one action: `DownTake` (a permit is there), `DownWait` (the task is put to
sleep), `DownOops` (`kmalloc` returned NULL and `newNode->task` is assigned before the
test, so the task dies with `sem_lock` held), `Up`. `Syscall`, `MutexLock`, `Schedule`
(the return of `schedule()`) and `Signal` are actions of their own, so a wakeup or a
signal can come between marking the task `TASK_INTERRUPTIBLE` and `schedule()`.

`Enqueue` is the list operation as written: an empty list gets its first node only in
the local variable `head`, so `sem->process` stays NULL. `QueuesEmpty` states the
consequence, and `sem_wakeup` shows what it means for `csc452_up`. A signal makes
`csc452_down` return 0 without a permit and leaves its decrement behind.

`Permits(s)` is `value[s]` plus the tasks that have been counted in and still wait. It
is what a caller experiences, and it is the refinement mapping: the abstract `avail`
is `Permits`, the abstract `debt` is the number of signals.

### TrafficSim and ProdCons

Both extend `Semaphore`: its tasks are the three processes and its semaphores the five of
the program (`TrafficSimAssumption`, `ProdConsAssumption`), so a step of a program and a step
of the kernel speak of the same variables.

`pc[t]` is the statement a process executes once the system call it is in has
returned. A statement that calls `down` or `up` is `Call`; the statements between
`down(mutex)` and `up(mutex)` that touch shared state are one action (`Arrive`, `Enter`,
`Leave`), since other processes see only that they happened, and the loop conditions
are one action per shared variable they read, because they are read without the mutex.
`sleep()` is time passing. Car numbers of `trafficsim.c` run modulo `MaxCar`, a multiple
of the buffer size (`SlotsInTurn`), which keeps the slot of a car as it is for an unbounded
counter.

`is_sleep` of `prodcons.c` is one variable per process, since `fork()` copies it, and
`*total_car++` moves the south producer's pointer (`NextNumber`).

`LineIntact` is about runs without signals; a signal lets a producer past `down(empty)`, and it
may overwrite a car. `QueueFits` and `Accounted` of `ProdCons` allow signals as long as the array
has a slot for each: it has 30 slots and the semaphores start at 10.

### CarQueue

`is_full`, `is_empty`, `Enqueued`, `Dequeued`, `Element` and `Size` are `enqueue` and
`dequeue` as functions of the structure. `Size(-1, -1) = 1` is what the code stores
when the last car leaves.

### FileSystem

Blocks are numbered 0 to `BLOCKS-1`. `root`, `dir[b]` and `data[b]` are block 0, block b
read as a directory and block b read as data; `tracker` is the last block. A step is
one access to the disk, with the reads at the start of an operation taken together:

| Action | Code |
|---|---|
| `Mkdir`, `Mknod` | the checks up to the call of `next_free_block()` |
| `GetTracker`, `PutTracker` | the read and the write in `next_free_block()` |
| `CreateFails` | `-EDQUOT` |
| `LinkDir`, `LinkFile` | the final write of the root or of the copied directory block |
| `WriteBegin` | `csc452_write` up to the walk; the new size is in the stream's buffer |
| `WriteWalk` | one turn of the walk to the block of the offset |
| `WriteFill` | the inner loop until the block is full or the bytes are used up |
| `WriteFails` | `-EFBIG`, without `fclose()`: the buffer stays in `leaked` |
| `WriteSeek`, `WriteSave` | `fseek()` (flushes the directory block), `fwrite()` of the block, and `fread()` of the next |
| `Crash`, `Unmount` | the process dies, or exits and flushes what is left in its streams |

`csc452_getattr`, `csc452_readdir` and `csc452_read` change nothing and are operators on
the disk. `rmdir`, `unlink`, `truncate`, `open` and `flush` return 0 and do nothing.
Operations refused before their first disk write are no steps. The stdio buffering
(a buffered write reaches the disk at the next `fseek()`, at `fclose()` or at `exit()`) and
the kernel's inode locks (`MayStart`: one `mkdir` at a time, one `mknod` per directory, one
`write` per file) are external and modelled from how the code relies on them. A write to
block 0 destroys the root directory; the model stops there (`RootLost`).

`Chain(b)`, the blocks a reader meets from block b on and 0 if the chain ends, is stated without
recursion: the blocks that are in every set which contains b and is closed under the links.
`BlocksDisjoint` says that every chain ends, that the directories and the chains of different files
have no block but the end mark in common, and that all lie among the blocks handed out.

`written` is a history variable: the bytes a reader is entitled to see. A write that is
cut off by a crash or a full disk makes the contents of that file `Unknown`, nothing else.

### Messages

`node` is the kernel memory: a freed node keeps its fields and may be handed out again,
zeroed or not (`INIT_ON_ALLOC`). An action is one access to the list: `FirstNode` sees
`head == NULL` and stores the new node there, `FillFirst` fills it (and never sets `next`),
`NewNode`, `CopyIn`, `Walk`, `Link` and `EndList` are the path for a list that is not empty,
`Scan`, `Unlink`, `Kfree` and `NoMessage` are `csc452_get_msg` with the loop of `osmsg -r`.
`Linked` is the set of nodes that can be reached from `head`, `Chain` the same as a sequence.
The refinement mapping of `ImplementsMailbox` reads the mail off the list between calls. It
holds for one task at a time; with two tasks a message is lost (`messages_race`).

With `INIT_ON_ALLOC = FALSE` and a single task TLC finds `NoStaleNode` violated: the first
node of a list keeps the `next` of its previous life. Whether the kernel clears the memory
is a matter of its configuration, so the passing run fixes `TRUE` and the hazard says so.

### Vmsim

A trace is a sequence of pages, the operation of each access is chosen as the run goes
along. `Hit`, `NoEviction` and one action per algorithm are one line of the trace;
`ClockHand` is one step of the hand. `opt` keeps, as the code does, a map from pages to the
positions of their accesses and crosses positions out. `LeastFaults` is the reference: the
least number of faults of any choice of victims.

### Graphics

A buffer is the set of its cells that are not black. `draw_line` is the list of points its
loop passes (`Advance` is one turn), `draw_pixel` has the bounds of the code. These let
`x = bitDepth/2` and `y = yLength` through; `PixelsInPlace`, a part of `PictureIsRight`, is about lines that keep off
these edges, as those of both programs do, and the model stores beyond them as the code does.

### The families of kernel/sys.c

What a call does under a lock that excludes all other access is one step; where the code
lets go of a lock, or takes only its read side, the parts are steps of their own.

| Module | Steps |
|---|---|
| `Credentials` | a call is one step, as only the task itself changes its ids (`prepare_creds` ... `commit_creds`). `CommitUid` is `set_user`, the security module's `task_fix_setuid` and the commit, any of which may refuse. `Capset` is external. |
| `Priority` | a walk under the read side of `tasklist_lock`: check of a task, change of a task, next task. `walk[c].error` is the variable `error` of the code. |
| `Sessions` | `setpgid` and `setsid` with all their checks in order, under the write side of the lock. `Fork`, `Exec`, `Exit` are external; a process id is used again only when no process, group or session has it. |
| `Uts` | copying the name and clearing the rest are two steps of the writer; readers wait for `uts_sem`. The release that `override_release` makes up is a sequence of characters. |
| `Rlimits` | entry of the call with its conversions, `do_prlimit` under `task_lock`, `update_rlimit_cpu` after it. The process cannot go between the last two (`tasklist_lock`). |
| `Usage` | `getrusage` under the siglock adds up one thread per step; threads count on without the lock. Reaping a child adds its two times in two steps under the siglock. `times` takes no lock. |
| `PrctlMm` | the copy of the map with `arg_lock` taken, the check and the write; the exchange of the executable in two steps. `SysBrk` and `MapFile` are external. |
| `Subreaper` | the flag is set before the lock is taken; the walk is one process per step and two walks interleave. `ForkChild` and `ExitProc` are external. |
| `Prctl` | one step per option, every early return included. |
| `Sysinfo` | one step; numbers wrap at `LONG_BITS` and `INT_BITS`. |

## Runs

| Run | Instance | Checks |
|---|---|---|
| `semaphore` | 3 tasks, 2 semaphores, failing `kmalloc`, 1 signal, fair | `TypeOK`; `PermitBound`; `ImplementsSemaphore`; `UpReturns`: an up comes back unless a task died holding `sem_lock` |
| `sem_wakeup` (violated) | 2 tasks | `UpWakesSleeper`: the comment above `csc452_up` |
| `traffic_safety` | 2 slots, 4 car numbers, 1 signal, failing `kmalloc` | `MutualExclusion`; `LineIntact`; `FlagNeverWaitsForCar` |
| `traffic_liveness` | 2 slots, fair | `SideServed`: no line starves |
| `prodcons_safety` | 3 slots, empty semaphores at 2, 1 signal, failing `kmalloc` | `MutualExclusion`; `QueueFits`; `Accounted` |
| `prodcons_jam` (violated) | 2 slots, limit 1, fair | `TrafficGoesOn`: the head of the file |
| `fs_crash` | 6 blocks of 2 bytes, 1 directory, 2 files, 4 writes, 2 crashes or unmounts | `TypeOK`; `BlocksDisjoint`; `ReadBack`; `NamesOnce` |
| `fs_full` (violated) | 5 blocks, no crash | `WritesIntoFile`: the comments of `csc452_write` and `get_root` |
| `fs_threads` (violated) | 2 threads, 2 directories | `FreshBlock`: the comment of `next_free_block` |
| `programs` | 4 slots, 3 numbers; 3 nodes, 3 letters; every trace of 6 accesses to 4 pages in 2 frames; a buffer of 16 x 16, 2401 lines, curves to order 4; longs of 4 and ints of 3 bits; 2 threads, 4 addresses; a file of 4 bytes | the queue: `SizeOfQueue`, `ImplementsLine`; messages: `NoStaleNode`, `ImplementsMailbox`; vmsim: `TableMatchesRam`, `OptIsOptimal`; graphics: `LineIsStraight`, `CurveFillsGrid`, `PictureIsRight`; `sysinfo`: `BytesExact`; `prctl`: `MapStaysValid`, `OneFieldAtATime`, `FailedCallsAreClean`; hello: `ReadsWhole` |
| `kernel` | 3 ids, one without a name in the namespace; 2 tasks with nice -1..1; 2 callers, limits 0..3; 4 process ids; names to 4 characters for buffers of 3; 3 threads, 2 ticks; a family of 4 | ids: `UserIsRealUid`, `DropIsForGood`; priorities: `ReturnTellsAll`, `NoPriorityFromNowhere`; limits: `SoftWithinHard`, `CpuTimerArmed`, `AbisAgree`; sessions: `SessionShape`; names: `NamesAreWhole`; usage: `SampleIsBracketed`; subreapers: `DescendantsKnow` |
| `messages_race` (violated) | 2 tasks | `MailConserved`: what `osmsg` reports as sent is kept |

What the violated properties show:

- `sem_wakeup`: the first sleeper of a semaphore is never on its list, so no `up` can
  wake it; only a signal ends the sleep.
- `prodcons_jam`: with the limit reached on both sides neither loop runs.
- `fs_full`: the size is stored before the blocks are there; after `-EFBIG` the next
  append walks past the end of the chain, to block 0.
- `fs_threads`: two operations read the same tracker value and get the same block.
- `messages_race`: two senders both see `head == NULL`; the node of the first is replaced
  after its `osmsg` printed "Send successful".

Two peculiarities are part of the models and not findings, since nothing in the repository
says otherwise: `dequeue` of the last car stores size 1 (`SizeOfQueue`), so the flagperson
may go to sleep on an emptied queue; and a write that ends before the end of a file cuts
the file off there, because the unsigned `file_size_increase` wraps (`ReadBack` keeps what the file
must hold then).

### Bounds

The behaviours of the semaphore calls depend on which tasks wait and on the sign of
the value; three tasks on two semaphores give a holder, a waiter and a third that
passes, on a mutex and on a counter. The traffic programs have exactly three
processes; two slots and a limit of two let a line be empty, partly filled, full and
at the limit, and the car numbers go round so that slots are reused. In the queue of
`programs` four slots reach every position of `front` and `rear`, wrapped or not. In `fs_crash` a
block holds 2 bytes and a file up to 4, so offsets lie inside a block, at its end
and in the next one; 4 usable blocks hold the directory, two files and one
extension, so the disk fills up in the middle of writes; four writes are enough for
write, overwrite, append and a failing one. `MaxSignals`, `MaxValue`, `MaxCar`, `MaxSize`,
`MaxWrites`, `MaxCrashes`, `TraceLength`, `MaxCurve` and `MaxTicks` are the only bounds; each limits
the environment, never the code.

Three nodes of kernel memory give a first, a middle and a last message and make the
fourth send reuse memory. Six accesses to four pages in two frames are enough for a page
to leave, come back and leave again, and for ties in `opt`. The lines of the driver have end
points in all octants, on both near edges, at and beyond the far ones. In the kernel run
an id without a name in the namespace, tasks that may and tasks that may not be changed
by the same walk, an infinite, a 32-bit and a larger limit, a group that outlives the
process it is named after, a name that fits exactly and one that does not, and two
subreapers one below the other all occur.

`KernelView` leaves out `idRet`, `rlimRet` and `sessRet`, what the last call returned: no
guard, no invariant and no action property reads them, so two states that differ only there
have the same future.

Deadlock is not checked where tasks may really sleep for ever (the semaphore runs and the
programs), where the bounded environment ends (the file system) or where the program stops
(a trace at its end, a program that exits).

### Fairness

`KernelFairness`: a task that can run inside the kernel eventually does (weak fairness:
the scheduler does not forget runnable tasks), and a waiter gets `sem_lock` if the lock
becomes free again and again (strong fairness: kernel mutexes hand over to a waiter that
has been passed by). A sleeping task has no fairness: it runs only after a wakeup or a
signal, and signals are not fair. For the programs, every process keeps executing
statements; a producer goes on producing since `rand() % 10 > 8` does not hold for
ever. `SideServed` names its exceptions (`Stopped`): a sleep nobody ends, a dead
task, both lines at the limit. They are real, see `sem_wakeup` and `prodcons_jam`.

## Proofs

Every result below is checked by TLAPS for all values of the constants that satisfy the named
assumptions; TLC evaluates those assumptions in the runs that extend the module. A proof follows
one pattern: the property is not inductive, a stronger invariant is, and each action has a
lemma that it keeps the invariant. The theorems about the families of `kernel/sys.c` whose callers share state
are in `KernelProofs`, those about the message calls in `MessagesProofs`, those about single programs
and calls in `ProgramsProofs`.

Recursive functions of the models (`Up`, `draw_line`, `hilbert_recurse`, `Hop`, `LeastFaults`, sums over sets) are used in proofs
through a lemma that such a function exists and one that unfolds it once; inductions on numbers are done
with the least counterexample, which exists because `<` on the naturals is well-founded.

### Semaphores

`SemaphoreProofs` (`SemaphoreAssumption`: finitely many tasks, natural numbers as initial values):

- `TypeCorrect`: `Spec => []TypeOK`.
- `PermitBoundHolds`: `Spec => []PermitBound`.
- `Refinement`: `Spec => ImplementsSemaphore`.

`PermitBound` is not inductive. If a list could hold a task, `Up` would wake the task at
its head without looking whether it still waits, and the count of sleepers could fall by
more than the signals explain. The inductive invariant `IInv` adds `TypeOK`,
`QueuesEmpty`: no list ever receives a node (the defect behind `sem_wakeup`), and
`OnlyDownsSleep`. With it each step has one of three effects on `Asleep(s)`: `DownWait` and
`DownOops` add the caller (`AsleepAdd`), `Signal` removes one task (`AsleepRemove`), and everything
else leaves it as it is (`AsleepSame`, with `UpWakesNobody` for `Up`). `DownWait` lowers the value and
raises the number of sleepers, so the permits are the same and the abstract semaphore
stutters; `DownTake` is `Acquire`, `Up` is `Release`, `Signal` is `Interrupt`.

The invariant is proved for `OpenNext`, in which tasks may make any call at any time, so it
holds for every program on top of the calls. Four more lemmas are what such a program needs:
`KernelSummary` (a kernel step completes the pending call of its task or changes no value),
`SignalsGrow`, `PermitsSummary`, and `Exclusion`: tasks that a counter accounts for are no
more than the counter and the signals allow.

### The traffic programs

`TrafficSimProofs` (`TrafficSimAssumption`: positive sizes, car numbers that keep the slots in turn):

- `ZoneIsExclusive`: `TrafficSpec => []MutualExclusion`.
- `FlagStaysAwake`: `TrafficSpec => []FlagNeverWaitsForCar`.
- `CarsAreKept`: `TrafficSpec => []LineIntact`.

`ProdConsProofs` (`ProdConsAssumption`, `CarQueueAssumption`):

- `QueuesAreExclusive`: `ProdConsSpec => []MutualExclusion`.
- `QueuesFit`: `ProdConsSpec => []QueueFits`.
- `CarsAreAccounted`: `ProdConsSpec => []Accounted`.

Both start from `Base` (`IInv`, and the call a process is in fits the statement it is at) and
`MutexLedger`: the value of the mutex is 1 less the processes that have counted themselves in
and not yet out. These include the sleepers, so `Exclusion` of the semaphores turns it into mutual
exclusion up to signals.

For the lines of `trafficsim.c`, `LineInv` keeps two accounts for each side. `SlotLedger`: the
slots are those of `empty`, those promised to a car that has not arrived and those a car has just
left (`Free`), and those of `full`, of a car not yet announced and of the car in the zone (`Cars`);
together `BUFF_SIZE`. `CarLedger`: the producer's counter is ahead of the flagperson's by `Cars`. From
these a producer at `arrive` meets a line with a free slot, and `Kept` (every car is in its slot)
is inductive as long as no signal came. `FlagAwake` carries what the flagperson saw without the
mutex: only it takes from `full`, so what was above 0 stays above 0 until it acts.

`QueueInv` of `prodcons.c` has the same account (`PlaceLedger`), the shape of the queues
(`WellFormed`, from `CarQueueProofs`) and `Lost`, the cars in a queue that the semaphores no longer
count because a signal let the flagperson past `down(full)` to an empty queue: they are at most
one for every signal. With room for `N` cars and one for every signal no car is dropped. The code
has 30 slots and `N` = 10, so 20 signals are covered; without that room the statement
is false.

`ProgramsProofs`, the queue alone (`CarQueueAssumption`): `SizeIsRight` (`[]SizeOfQueue`) and `QueueIsFifo`
(`QueueSpec => ImplementsLine`). The inductive invariant says in addition that `front` and `rear` are -1
together; the refinement is in `EnqueueJoins` and `DequeueLeaves`, which compare the line before and
after element by element, wrapped or not.

### File system

`FileSystemProofs` (`FileSystemAssumption`: at least three blocks, a byte of zeros is not text).

For any number of threads:

- `FileSystemTypes`: `Spec => []TypeOK`.
- `NamesAreUnique`: `Spec => []NamesOnce`.

`FsInv` adds the types of the local variables of each operation, with copies of directory blocks
that have every name once, and what an operation has checked before it was interrupted:
`csc452_mknod` holds a copy which lacks the name it is going to add, so what it writes back has no
name twice however old the copy is; `csc452_mkdir` works on the root itself and needs the
kernel's lock of the directory.

With `OneThread` (FUSE started with `-s`) as hypothesis:

- `BlocksStayDisjoint`: `Spec => []BlocksDisjoint`, with crashes between any two
  disk accesses, full disks and leaked streams.
- `SingleThreadIsFresh`: under the same hypothesis `[]FreshBlock`, which two threads violate in `fs_threads`.

`OwnInv` is about links instead of chains: every link leads to a block that was handed out, along
a file to a later one (`LinksForward`), and no two links lead to the same block (`LinksDiffer`).
An operation that has called `next_free_block` holds a number no link has (`Unused`); a copy of a
directory block, in an operation or in a stream that `-EFBIG` left open, has the files of the block
or the first of them (`CopyOf`), so writing it back at any later time brings back no other link.
`NoSharedBlock` goes from links to chains: the first block that two owners share would
have two links to it. It is an induction on block numbers, done with the least
counterexample (`Least`).

- `FilesReadBack`: `Spec => []ReadBack`. At rest, what `csc452_getattr` and `csc452_read` return is
  what the completed writes say, byte for byte, after any number of writes, crashes, unmounts and
  full disks.

`ReadInv` says what `ReadBack` needs of every state, also in the middle of a write. `FileInv`, for a file
that no operation is writing: its entry is in its directory block, with the size of what was written,
and from its start block on there is a chain (`Trail`) whose blocks hold those bytes (`Stored`). `WriteInv`,
for the file that `csc452_write` is at: `SizeInv`, its copy of the directory block differs from the disk in the
new size at most, and not at all once the stream has been flushed; `MemoryInv`, the block in memory is the
one at `address`; `PlaceInv`, that block is the k-th of the file's chain and every byte before `Done`
is the one the file is to hold (`Progress`), counting the block in memory in place of its old
version on the disk. The rest is what keeps operations off each other: `mknod`'s copy of the directory block
is still the block, a directory block that no entry of the root leads to is empty, and block 0 has no next
link. The steps `walk`, `fill`, `seek` and `save` keep `WriteInv` by `Positions`, the arithmetic of bytes and
blocks; that a step of one file changes no block of another is `BlocksStayDisjoint`'s invariant. At the end
`csc452_read` is shown to return byte by byte what lies on the trail.

The theorems end where the model ends, with `RootLost`: after a failed append has walked to block
0 (`fs_full`) nothing is claimed.

### Kernel calls

Ids (`CredAssumption`): `CredTypeCorrect`, `UserFollowsRealUid` and `DroppedForGood`
(`CredSpec => DropIsForGood`). The inductive invariant `CredInv` is the type invariant with "only
permitted capabilities are effective" and `UserIsRealUid`. Without that part `DropIsForGood` could not
be shown: the code asks for the effective capability, the property is about the permitted one.
Each call either names ids the task holds (`ReIdsLegal`, `SwitchLegal`, `ResIdsLegal`) or has the
capability, and publishing such ids is a `GoodStep` (`CommitUidIsGood`, `CommitGidIsGood`).

Priorities (`PriorityAssumption`): `PriorityIsGranted` (`[]NoPriorityFromNowhere`) and `ReturnIsHonest`
(`[]ReturnTellsAll`). The check of a task and the change of its nice value are two steps, and between
them another walk may change the task. `PrioInv` says that a task that was checked was granted the
value of the walk, and `WalkAccounts` ties the variable `error` to the tasks done, refused and
still to come.

Names (`UtsAssumption`): `NamesStayWhole` (`[]NamesAreWhole`). A buffer is whole or half written
(`HalfWritten`) by the writer that holds `uts_sem`; a reader waits for that semaphore. The release
that `override_release` makes up is of the right length too.

Sessions (`SessAssumption`): `SessTypeCorrect` and `ShapeIsKept` (`[]SessionShape`). None of the three parts of
`SessionShape` is inductive alone: `setsid` keeps groups in one session only because no other
process is in a group with the caller's number, `setpgid` to the caller's own number needs
`GroupNearName`, and that needs `LeaderLeads`. `SessInv` is their conjunction with the types.

Limits (`RlimAssumption`): `RlimTypeCorrect`, `SoftStaysWithinHard`, `TimerNeverLate` and `AbisAlwaysAgree`.
The heart is `CpuTimerArmed`: a caller between `task_unlock` and `update_rlimit_cpu` carries the limit
it wrote, `ChangeKeepsInv` makes it the witness, and `ArmKeepsInv` shows that arming only ever
brings the timer forward. `AbisAgree` follows from `SoftWithinHard` and arithmetic.

`prctl`, in `ProgramsProofs`: `MapAlwaysValid` (`[]MapStaysValid`) and `NoFieldIsLost` (`OneFieldAtATime`),
with `PrctlMmAssumption`: the process starts with a map that passes the checks. `MmInv` says that a
thread about to store holds `arg_lock`, so the copy it checked still agrees with the map but for its
own field; `BrkKeepsOrder` is what `brk`, which takes no notice of those checks, preserves.
`FailureLeavesAttributes` (`FailedCallsAreClean`) needs no invariant: it goes through the options.

Usage (`UsageAssumption`: finitely many threads): `SamplesAreTrue` (`[]SampleIsBracketed`). Threads count on
while `getrusage` adds them up, so the sum says nothing by itself. `UsageInv` brackets what has been added
together with what is still to be added: no less than was used at the start, and what has been added no
more than is used now; a thread cannot fold its counter while the call holds `siglock`.

Subreapers (`FamilyAssumption`: finitely many processes): `SubreapersAreKnown` (`[]DescendantsKnow`). The
property is about all descendants, a step about one process and its children. `SubInv` says it of
children: each child of a process that knows knows itself or lies on the way of a walk (`Covered`).
`TreeInv`, no ring of fathers, leads from there to the descendants, one generation at a time.

Memory sizes, in `ProgramsProofs` (`SysinfoAssumption`): `SizesAreExact` (`[]BytesExact`). The code looks for an
overflow of a sum that may itself wrap, and scales with shifts. Powers of two are taken as numbers of
subsets (`PowerCounts`, `PowerDoubles`, `PowerGrows`); `NoDoublingWraps` says that the loop of the code stops
before a bit is lost, and `SysinfoInv` that the last answer is the one for the memory there is.

### Other programs

`HelloReadsWhole` (`HelloAssumption`, `[]ReadsWhole`): `HelloInv` says that the pieces read so far are the
text from where the client started to its offset.

`FramesAgree` (`VmsimAssumption`, `[]TableMatchesRam`), for `fifo`, `opt`, `clock` and `rand`. `RamInv` adds
that no page is in two frames. All evictions are one lemma (`EvictKeeps`): whatever the
algorithm, one page of `ram` goes and the new one comes. What is left for each algorithm is that
its victim is in a frame; for `opt` that is `VictimInRam`: a page that ended the loop, or the
farthest of the pages before it, which exists because those are all used again.

`OptHasFewestFaults` (`[]OptIsOptimal`), for every trace and any finite number of pages: `opt` ends with
the fewest faults that any choice of victims has, the other algorithms with no fewer. The reference, `LeastFaults`,
is a table over the accesses and the sets of pages that can be in memory; `LeastFaultsIs` shows that its recursion is
well-founded. What is in memory during a run is one way through that table, so no algorithm has fewer
faults (`FewestGrows`, in `FaultsInv`). That `opt` has no more cannot be seen from its number of faults alone: in the middle
of a trace another choice can have the same number and better pages. `Ahead` is the strengthening: for every
other memory and every later access, having more of the pages that are used up to that access takes as many
more faults. It is Belady's exchange argument as an invariant. `FarthestGoes` is what the code has to provide for it: if the
victim is used up to some access, so are all pages in memory. It rests on `MapsInv`, that the map that is
crossed out as it goes has exactly the accesses to come, for the pages `opt` looks at, and that no resident
page has run out of entries, so that the loop never ends at a page without making it the victim.

The graphics library (`GraphicsAssumption`: positive sizes, whole coordinates): `LinesStayStraight`
(`[]LineIsStraight`), `PictureStaysRight` (`[]PictureIsRight`) and `CurvesFillTheirGrid` (`[]CurveFillsGrid`), whatever the
lines, the screen and the order.

- The variable `err` of `draw_line` is the deviation from the true line. `RoundsOnLine` follows it round by round:
  after as many rounds as the longer side has steps, the point is off by at most half a pixel
  (`FlatStep`, `SteepStep`), and at the end of the longer side half a pixel is none (`NearTheEnd`), so that the
  loop ends where it should.
- A walk (`Walk`) takes the turtle from one corner of a grid to the next one and passes every point
  once. `FourWalks` puts the four walks of an order and the three steps between them together to a walk
  of the next order; `OneOrder` finds these in `hilbert_recurse`, with `Turning` for the directions, and
  `HilbertWalks` is the induction on the order. That no point is met twice follows from the
  number of corners, which is that of the grid.
- `GfxInv` has the programs around it: the turtle looks ahead again when a curve is drawn, the corners
  lie within `SIDE`, so nothing is plotted behind the buffer, and the screen shows what was drawn last.

### Messages

`MessagesProofs` (`MessagesAssumption`), with one task and `INIT_ON_ALLOC` as hypotheses (`OneTask`): with
two tasks messages are lost (`messages_race`), and without cleared memory `NoStaleNode` is false.

- `NodesStayFresh`: `MsgSpec => []NoStaleNode`.
- `MailIsDelivered`: `MsgSpec => ImplementsMailbox`.
- `MailIsConserved`: `MsgSpec => []MailConserved`.

That the nodes reached from `head` are in use is not
inductive: a node may be freed only because nothing else leads to it. `Shape` says that no two
`next` fields lead to one node, none to the first, and that there is no ring (every set of nodes
is left by some field). `MailInv` is `Shape` for the nodes in use, without the one that is unlinked
and about to be freed, with what a send knows of its new node (`SendInv`) and a receive of the node
before the one it looks at (`GetInv`). Four lemmas say what a new node, a link and the two
kinds of unlinking do to `Shape`, for any sets and functions.

For the refinement the list is a sequence: `ChainInv` says that the nodes from `head` on are the one path
(`Path`) through the nodes in use, and lemmas about paths say what `Append` and the removal of a node (`Without`) do
to it. `SendOrder` and `GetOrder` say where in it a call is: a send at the last node, a receive behind
nodes for other receivers, which is why it hands out the oldest message. `OrderInv` is their conjunction
with `MailInv`. `OwedInv` adds that the letters in the list are those owed, but for the one a call is
just linking.

### Only model-checked

- Liveness (`UpReturns`, `SideServed`): the prover has no support for fairness or `ENABLED`.
- The violated properties, as a counterexample is all they need.

## Not modelled

- The tables of system calls (`syscalls.h`, `unistd.h`, `.tbl`): declarations and numbers.
- The semaphore project's copy of `kernel/sys.c` outside its own calls: the same text as the
  copy that is modelled.
- Options of `prctl` that hand their arguments to another part of the kernel (seccomp, perf
  events, TSC, pointer authentication, SVE), and the 32-bit `times`, whose body is that of
  the native one.
- `rmdir`, `unlink`, `truncate`, `open` and `flush` of `csc452fuse.c`: they return 0 and change
  nothing.
- Overflow of counters that takes 2^31 cars, and the south producer's pointer leaving
  its page after 1024 cars.
- Path parsing and its fixed-size buffers, modes, times and link counts of the file system;
  byte addresses (blocks are counted); reads beyond the end of a file.
- What happens after block 0 has been overwritten.
- `sleep_ms`, colours, output, delays and the text of messages; the counter `memoryAccess` and
  the parsing of the trace in `vmsim.java`.

## Plan

`FileSystem` with threads and `next_free_block` taken as one step, for the lost update of
a copied directory block.
