----------------------------- MODULE FileSystem -----------------------------
(***************************************************************************)
(* csc452fuse.c: a two-level file system in the file .disk.  Block 0 is    *)
(* the root directory, the last block holds the number of the block handed *)
(* out last; every other block is a directory or a piece of a file.        *)
(*                                                                         *)
(* FUSE calls the operations from several threads.  A step is one access   *)
(* to .disk, with the reads at the start of an operation taken together:   *)
(* the process can die, and another thread can run, between any two.  An   *)
(* operation that returns an error before its first write changes nothing  *)
(* and is not a step.  Blocks are counted, not addressed by bytes.         *)
(***************************************************************************)
EXTENDS Integers, Sequences, FiniteSets

CONSTANTS
  Thread,             \* the threads of FUSE
  Dir, File,          \* names of directories and of files
  Byte,               \* what a program writes, 0 left out
  BLOCKS,             \* blocks of .disk
  MAX_DIRS_IN_ROOT, MAX_FILES_IN_DIR,
  MAX_DATA_IN_BLOCK,  \* bytes of a file in one block, 504 in the code
  MaxSize,            \* bound: writes go up to this offset
  MaxWrites,          \* bound: how many writes are begun
  MaxCrashes          \* bound: how often the process dies or is unmounted

ASSUME FileSystemAssumption ==
  /\ BLOCKS \in Nat /\ BLOCKS > 2
  /\ MAX_DIRS_IN_ROOT \in Nat /\ MAX_FILES_IN_DIR \in Nat
  /\ MAX_DATA_IN_BLOCK \in Nat \ {0}
  /\ 0 \notin Byte
  /\ MaxSize \in Nat /\ MaxWrites \in Nat /\ MaxCrashes \in Nat

VARIABLES
  root,      \* block 0: the sequence of the directories
  dir,       \* dir[b]: block b as a directory, the sequence of its files
  data,      \* data[b]: block b as a piece of a file
  tracker,   \* the last block: the block handed out most recently
  th,        \* th[t]: the operation thread t is in, with its local variables
  leaked,    \* writes in the buffers of the streams csc452_write left open
  writes,    \* writes begun so far
  crashes,   \* crashes and unmounts so far
  written    \* history: what a reader of a file is entitled to see

diskVars == <<root, dir, data, tracker>>
vars == <<diskVars, th, leaked, writes, crashes, written>>

Block == 0..BLOCKS-1
Index == 0..MAX_DATA_IN_BLOCK-1
DiskBlock == [bytes : [Index -> Byte \cup {0}], nNextBlock : Block]
Entry == [fname : File, fsize : 0..MaxSize, nStartBlock : Block]
Directory == [dname : Dir, nStartBlock : Block]

\* Values of written: there is no such file; a crash or a full disk interrupted a
\* write, and nothing is promised of the contents; the file holds these bytes.
Absent == [is |-> "absent", bytes |-> <<>>]
Unknown == [is |-> "unknown", bytes |-> <<>>]
Known(bytes) == [is |-> "known", bytes |-> bytes]

Idle == [pc |-> "idle"]
PC == {"idle", "get_tracker", "put_tracker", "link", "walk", "seek", "save"}

TypeOK ==
  /\ root \in Seq(Directory) /\ Len(root) <= MAX_DIRS_IN_ROOT
  /\ dir \in [Block -> Seq(Entry)]
  /\ \A b \in Block : Len(dir[b]) <= MAX_FILES_IN_DIR
  /\ data \in [Block -> DiskBlock]
  /\ tracker \in 0..BLOCKS-2
  /\ DOMAIN th = Thread /\ \A t \in Thread : th[t].pc \in PC
  /\ writes \in 0..MaxWrites /\ crashes \in 0..MaxCrashes
  /\ DOMAIN written = Dir \X File

\* formatDisk fills .disk with zeros.
Init ==
  /\ root = <<>>
  /\ dir = [b \in Block |-> <<>>]
  /\ data = [b \in Block |-> [bytes |-> [i \in Index |-> 0], nNextBlock |-> 0]]
  /\ tracker = 0
  /\ th = [t \in Thread |-> Idle]
  /\ leaked = {}
  /\ writes = 0
  /\ crashes = 0
  /\ written = [p \in Dir \X File |-> Absent]

------------------------------------------------------------------------------
\* dir_exists: the index of directory d in the root, 0 if there is none
dir_exists(d) ==
  IF \E i \in DOMAIN root : root[i].dname = d
    THEN CHOOSE i \in DOMAIN root : root[i].dname = d
    ELSE 0

DirBlock(d) == root[dir_exists(d)].nStartBlock

\* get_dir: the directory block of d
get_dir(d) == IF dir_exists(d) = 0 THEN <<>> ELSE dir[DirBlock(d)]

\* The loop over files[]: the index of f in a directory block, 0 if not there
Find(entry, f) ==
  IF \E i \in DOMAIN entry : entry[i].fname = f
    THEN CHOOSE i \in DOMAIN entry :
           entry[i].fname = f /\ \A j \in 1..i-1 : entry[j].fname # f
    ELSE 0

\* file_exist: the size of d/f, -1 if there is none
file_exist(d, f) ==
  LET i == Find(get_dir(d), f) IN IF i = 0 THEN -1 ELSE get_dir(d)[i].fsize

\* csc452_getattr: the st_size of d/f; ENOENT if there is none
ENOENT == -1
csc452_getattr(d, f) == LET fsize == file_exist(d, f)
                        IN  IF fsize = -1 THEN ENOENT ELSE fsize

\* csc452_readdir: the names it fills in for directory d
csc452_readdir(d) == LET entry == get_dir(d) IN [i \in DOMAIN entry |-> entry[i].fname]

\* Hop(b)[k]: the block k links behind block b
Hop(b) ==
  LET hop[k \in 0..BLOCKS] == IF k = 0 THEN b ELSE data[hop[k-1]].nNextBlock
  IN  hop

(***************************************************************************)
(* csc452_read: it goes to the block of offset, with `begin_index >        *)
(* MAX_DATA_IN_BLOCK' as the condition to go on, and copies from there.    *)
(* The number of bytes is limited by the size of the file, offset or not.  *)
(***************************************************************************)
csc452_read(d, f, offset, size) ==
  LET entry == get_dir(d)[Find(get_dir(d), f)]
      count == IF size > entry.fsize THEN entry.fsize ELSE size
      hops == IF offset = 0 THEN 0 ELSE (offset - 1) \div MAX_DATA_IN_BLOCK
      begin_index == offset - hops * MAX_DATA_IN_BLOCK
      at(i) == begin_index + i - 1
  IN  [i \in 1..count |->
         data[Hop(entry.nStartBlock)[hops + (at(i) \div MAX_DATA_IN_BLOCK)]]
           .bytes[at(i) % MAX_DATA_IN_BLOCK]]

------------------------------------------------------------------------------
(***************************************************************************)
(* What the kernel lets run side by side: it holds the lock of the parent  *)
(* directory during mkdir and mknod, and of the file during write.         *)
(***************************************************************************)
Inode(op, d, f) == CASE op = "mkdir" -> <<"root">>
                     [] op = "mknod" -> <<"dir", d>>
                     [] op = "write" -> <<"file", d, f>>

MayStart(t, op, d, f) ==
  /\ th[t] = Idle
  /\ \A u \in Thread : th[u] # Idle =>
       Inode(th[u].op, th[u].dir, th[u].file) # Inode(op, d, f)

\* Thread t goes on at pc with the local variables in r changed.
Goto(t, pc, r) == th' = [th EXCEPT ![t] = [r EXCEPT !.pc = pc]]

Return(t) == th' = [th EXCEPT ![t] = Idle]

\* Saving a block of a file begins with an fseek(), which matters only if the
\* stream has something in its buffer.
ToSave(t) == IF th[t].unsaved THEN "seek" ELSE "save"

\* csc452_mkdir up to next_free_block()
Mkdir(t, d) ==
  /\ MayStart(t, "mkdir", d, d)
  /\ dir_exists(d) = 0
  /\ Len(root) < MAX_DIRS_IN_ROOT
  /\ th' = [th EXCEPT ![t] = [pc |-> "get_tracker", op |-> "mkdir", dir |-> d,
                              file |-> d, entry |-> <<>>, next_free |-> 0]]
  /\ UNCHANGED <<diskVars, leaked, writes, crashes, written>>

\* Mutant of Mknod: file_exist is not asked.
Mknod_NoCheck(t, d, f) ==
  /\ MayStart(t, "mknod", d, f)
  /\ dir_exists(d) # 0
  /\ Len(get_dir(d)) < MAX_FILES_IN_DIR
  /\ th' = [th EXCEPT ![t] = [pc |-> "get_tracker", op |-> "mknod", dir |-> d,
                              file |-> f, entry |-> get_dir(d), next_free |-> 0]]
  /\ UNCHANGED <<diskVars, leaked, writes, crashes, written>>

\* csc452_mknod up to next_free_block(); the directory block is copied here.
Mknod(t, d, f) ==
  /\ MayStart(t, "mknod", d, f)
  /\ dir_exists(d) # 0
  /\ file_exist(d, f) = -1
  /\ Len(get_dir(d)) < MAX_FILES_IN_DIR
  /\ th' = [th EXCEPT ![t] = [pc |-> "get_tracker", op |-> "mknod", dir |-> d,
                              file |-> f, entry |-> get_dir(d), next_free |-> 0]]
  /\ UNCHANGED <<diskVars, leaked, writes, crashes, written>>

(***************************************************************************)
(* next_free_block: reads the tracker; gives up if the next block would be *)
(* the tracker itself; writes the tracker.                                 *)
(***************************************************************************)
\* Mutant of DiskFull: the tracker's own block counts as free.
DiskFull_OffByOne == tracker + 1 > BLOCKS - 1

DiskFull == tracker + 1 >= BLOCKS - 1

GetTracker(t) ==
  /\ th[t].pc = "get_tracker"
  /\ ~DiskFull
  /\ Goto(t, "put_tracker", [th[t] EXCEPT !.next_free = tracker + 1])
  /\ UNCHANGED <<diskVars, leaked, writes, crashes, written>>

\* Mutant of PutTracker: a block for a file's data is not recorded as taken.
PutTracker_NotForData(t) ==
  /\ th[t].pc = "put_tracker"
  /\ IF th[t].op = "write"
       THEN /\ Goto(t, ToSave(t), [th[t] EXCEPT !.block.nNextBlock = th[t].next_free])
            /\ UNCHANGED tracker
       ELSE Goto(t, "link", th[t]) /\ tracker' = th[t].next_free
  /\ UNCHANGED <<root, dir, data, leaked, writes, crashes, written>>

PutTracker(t) ==
  /\ th[t].pc = "put_tracker"
  /\ tracker' = th[t].next_free
  /\ IF th[t].op = "write"
       THEN Goto(t, ToSave(t), [th[t] EXCEPT !.block.nNextBlock = th[t].next_free])
       ELSE Goto(t, "link", th[t])
  /\ UNCHANGED <<root, dir, data, leaked, writes, crashes, written>>

\* mkdir and mknod return -EDQUOT.
CreateFails(t) ==
  /\ th[t].pc = "get_tracker" /\ th[t].op # "write"
  /\ DiskFull
  /\ Return(t)
  /\ UNCHANGED <<diskVars, leaked, writes, crashes, written>>

\* The end of csc452_mkdir: the root block is written.
LinkDir(t) ==
  /\ th[t].pc = "link" /\ th[t].op = "mkdir"
  /\ root' = Append(root, [dname |-> th[t].dir, nStartBlock |-> th[t].next_free])
  /\ Return(t)
  /\ UNCHANGED <<dir, data, tracker, leaked, writes, crashes, written>>

\* The end of csc452_mknod: the copy of the directory block is written.
LinkFile(t) ==
  /\ th[t].pc = "link" /\ th[t].op = "mknod"
  /\ dir' = [dir EXCEPT ![DirBlock(th[t].dir)] =
               Append(th[t].entry, [fname |-> th[t].file, fsize |-> 0,
                                    nStartBlock |-> th[t].next_free])]
  /\ written' = [written EXCEPT ![<<th[t].dir, th[t].file>>] = Known(<<>>)]
  /\ Return(t)
  /\ UNCHANGED <<root, data, tracker, leaked, writes, crashes>>

------------------------------------------------------------------------------
(***************************************************************************)
(* csc452_write of `size' bytes b up to the walk along the blocks.         *)
(* file_size_increase is unsigned and `fsize += file_size_increase' wraps, *)
(* so fsize becomes offset + size, also where that makes the file shorter. *)
(* The directory block goes into the buffer of the stream, and to the disk *)
(* at its next fseek().                                                    *)
(***************************************************************************)
WriteBegin(t, d, f, offset, size, b) ==
  LET entry == get_dir(d)
      i == Find(entry, f)
      start == entry[i].nStartBlock
  IN
  /\ MayStart(t, "write", d, f)
  /\ writes < MaxWrites /\ writes' = writes + 1
  /\ i # 0
  /\ size > 0 /\ offset <= entry[i].fsize
  /\ th' = [th EXCEPT ![t] =
       [pc |-> "walk", op |-> "write", dir |-> d, file |-> f, next_free |-> 0,
        entry |-> [entry EXCEPT ![i].fsize = offset + size],
        unsaved |-> offset + size # entry[i].fsize,
        address |-> start, block |-> data[start],
        offset |-> offset, size |-> size, begin_index |-> offset,
        left |-> size, byte |-> b]]
  /\ UNCHANGED <<diskVars, leaked, crashes, written>>

\* fseek() of the stream of t: the directory block in its buffer is written.
Flush(t) ==
  dir' = IF th[t].unsaved THEN [dir EXCEPT ![DirBlock(th[t].dir)] = th[t].entry]
                          ELSE dir

\* One turn of the walk to the block of the offset
WriteWalk(t) ==
  /\ th[t].pc = "walk"
  /\ th[t].begin_index > MAX_DATA_IN_BLOCK
  /\ Flush(t)
  /\ Goto(t, "walk", [th[t] EXCEPT !.address = th[t].block.nNextBlock,
                                   !.block = data[th[t].block.nNextBlock],
                                   !.begin_index = @ - MAX_DATA_IN_BLOCK,
                                   !.unsaved = FALSE])
  /\ UNCHANGED <<root, data, tracker, leaked, writes, crashes, written>>

\* The bytes that fit into the block in memory; then a new block is needed if
\* bytes are left and the chain ends here.
WriteFill(t) ==
  LET r == th[t]
      room == MAX_DATA_IN_BLOCK - r.begin_index
      n == IF r.left < room THEN r.left ELSE room
  IN
  /\ r.pc = "walk"
  /\ r.begin_index <= MAX_DATA_IN_BLOCK
  /\ Goto(t, IF r.left > n /\ r.block.nNextBlock = 0 THEN "get_tracker" ELSE ToSave(t),
          [r EXCEPT !.left = @ - n,
                    !.block.bytes = [i \in Index |->
                       IF i >= r.begin_index /\ i < r.begin_index + n THEN r.byte ELSE @[i]]])
  /\ UNCHANGED <<diskVars, leaked, writes, crashes, written>>

\* -EFBIG without fclose(): what is in the buffer of the stream stays there.
WriteFails(t) ==
  /\ th[t].pc = "get_tracker" /\ th[t].op = "write"
  /\ DiskFull
  /\ leaked' = IF th[t].unsaved
                 THEN leaked \cup {[block |-> DirBlock(th[t].dir), entry |-> th[t].entry]}
                 ELSE leaked
  /\ written' = [written EXCEPT ![<<th[t].dir, th[t].file>>] = Unknown]
  /\ Return(t)
  /\ UNCHANGED <<diskVars, writes, crashes>>

\* fseek() to the block in memory
WriteSeek(t) ==
  /\ th[t].pc = "seek"
  /\ Flush(t)
  /\ Goto(t, "save", [th[t] EXCEPT !.unsaved = FALSE])
  /\ UNCHANGED <<root, data, tracker, leaked, writes, crashes, written>>

\* The contents of the file once the write is complete
Overwritten(old, r) ==
  IF old = Unknown THEN Unknown
  ELSE Known(SubSeq(old.bytes, 1, r.offset) \o [i \in 1..r.size |-> r.byte])

\* Mutant of WriteSave: begin_index is not set back to 0.
WriteSave_KeepsIndex(t) ==
  LET r == th[t]
      p == <<r.dir, r.file>>
  IN
  /\ r.pc = "save"
  /\ data' = [data EXCEPT ![r.address] = r.block]
  /\ IF r.left > 0
       THEN /\ Goto(t, "walk", [r EXCEPT !.address = r.block.nNextBlock,
                                         !.block = data[r.block.nNextBlock],
                                         !.next_free = 0])
            /\ UNCHANGED written
       ELSE /\ Return(t)
            /\ written' = [written EXCEPT ![p] = Overwritten(@, r)]
  /\ UNCHANGED <<root, dir, tracker, leaked, writes, crashes>>

\* The block is written, and the next one read unless the write is complete.
WriteSave(t) ==
  LET r == th[t]
      p == <<r.dir, r.file>>
  IN
  /\ r.pc = "save"
  /\ data' = [data EXCEPT ![r.address] = r.block]
  /\ IF r.left > 0
       THEN /\ Goto(t, "walk", [r EXCEPT !.address = r.block.nNextBlock,
                                         !.block = data[r.block.nNextBlock],
                                         !.begin_index = 0, !.next_free = 0])
            /\ UNCHANGED written
       ELSE /\ Return(t)
            /\ written' = [written EXCEPT ![p] = Overwritten(@, r)]
  /\ UNCHANGED <<root, dir, tracker, leaked, writes, crashes>>

------------------------------------------------------------------------------
\* The process dies: memory is lost, the disk stays.
Crash ==
  /\ crashes < MaxCrashes
  /\ crashes' = crashes + 1
  /\ th' = [t \in Thread |-> Idle]
  /\ leaked' = {}
  /\ written' = [p \in Dir \X File |->
       IF \E t \in Thread : th[t] # Idle /\ th[t].op = "write"
                              /\ p = <<th[t].dir, th[t].file>>
         THEN Unknown ELSE written[p]]
  /\ UNCHANGED <<diskVars, writes>>

\* Unmount: exit() flushes the streams that are still open, in some order; of
\* the writes to one directory block, the last one stays.
Unmount ==
  /\ crashes < MaxCrashes
  /\ \A t \in Thread : th[t] = Idle
  /\ crashes' = crashes + 1
  /\ leaked # {}
  /\ leaked' = {}
  /\ \E last \in [{w.block : w \in leaked} -> leaked] :
       /\ \A b \in DOMAIN last : last[b].block = b
       /\ dir' = [b \in Block |-> IF b \in DOMAIN last THEN last[b].entry ELSE dir[b]]
       /\ written' = [p \in Dir \X File |->
            IF dir_exists(p[1]) # 0 /\ DirBlock(p[1]) \in DOMAIN last
              THEN IF Find(dir'[DirBlock(p[1])], p[2]) = 0 THEN Absent ELSE Unknown
              ELSE written[p]]
  /\ UNCHANGED <<root, data, tracker, th, writes>>

\* A write to block 0 destroys the root; what happens then is not modelled.
RootLost == \E t \in Thread : th[t].pc = "save" /\ th[t].address = 0

Next ==
  /\ ~RootLost
  /\ \/ \E t \in Thread :
          \/ \E d \in Dir : Mkdir(t, d) \/ \E f \in File : Mknod(t, d, f)
          \/ \E d \in Dir, f \in File, b \in Byte, offset \in 0..MaxSize :
               \E size \in 1..(MaxSize - offset) : WriteBegin(t, d, f, offset, size, b)
          \/ GetTracker(t) \/ PutTracker(t) \/ CreateFails(t)
          \/ LinkDir(t) \/ LinkFile(t)
          \/ WriteWalk(t) \/ WriteFill(t) \/ WriteFails(t) \/ WriteSeek(t) \/ WriteSave(t)
     \/ Crash \/ Unmount

Spec == Init /\ [][Next]_vars

------------------------------------------------------------------------------
\* The blocks on the chain that starts at b, with 0 if it ends: every set with b
\* and without such a block is left by a link.
Chain(b) ==
  {c \in Block : \A S \in SUBSET (Block \ {c}) :
     b \in S => \E x \in S \ {0} : data[x].nNextBlock \notin S}

\* Who owns blocks: every directory, and every file of every directory.
Owners == [kind : {"dir"}, d : DOMAIN root, f : {0}]
            \cup UNION {[kind : {"file"}, d : {i}, f : DOMAIN dir[root[i].nStartBlock]]
                         : i \in DOMAIN root}

Blocks(o) ==
  LET b == root[o.d].nStartBlock
  IN  IF o.kind = "dir" THEN {b, 0} ELSE Chain(dir[b][o.f].nStartBlock)

(***************************************************************************)
(* Whenever the process dies, and after a full disk: no block belongs to   *)
(* two files or directories, the chains of blocks end, and none reaches    *)
(* blocks that next_free_block has yet to hand out.                        *)
(***************************************************************************)
BlocksDisjoint ==
  LET owned == {<<o, Blocks(o)>> : o \in Owners}
  IN  /\ \A x \in owned : x[2] \subseteq 0..tracker /\ 0 \in x[2]
      /\ \A x, y \in owned : x # y => x[2] \cap y[2] = {0}

\* No operation is in progress.
AtRest == \A t \in Thread : th[t] = Idle

(***************************************************************************)
(* csc452_getattr and csc452_read agree with the writes that were          *)
(* completed, over block boundaries, rewrites, crashes of other writes and *)
(* a full disk: a file keeps its size, and every piece of it reads back.   *)
(* A write in the middle ends the file where it ends itself: the size is   *)
(* offset + size, because file_size_increase is unsigned.                  *)
(***************************************************************************)
ReadBack ==
  AtRest => \A d \in Dir, f \in File :
    LET w == written[<<d, f>>]
        length == Len(w.bytes)
    IN  /\ w = Absent <=> csc452_getattr(d, f) = ENOENT
        /\ w.is = "known" =>
             /\ csc452_getattr(d, f) = length
             /\ \A offset \in 0..length : \A size \in 0..(length - offset) :
                  csc452_read(d, f, offset, size) = SubSeq(w.bytes, offset + 1, offset + size)

(***************************************************************************)
(* csc452_readdir lists no name twice, in no directory, the root included, *)
(* and at no time.                                                         *)
(***************************************************************************)
NamesOnce ==
  /\ \A i, j \in DOMAIN root : root[i].dname = root[j].dname => i = j
  /\ \A d \in Dir :
       LET names == csc452_readdir(d) IN \A i, j \in DOMAIN names : names[i] = names[j] => i = j

(***************************************************************************)
(* What the comment of next_free_block says: it returns a free block, one  *)
(* that nobody uses and that nobody else has just been given.              *)
(***************************************************************************)
Fresh(t) == IF th[t].pc \in {"link", "seek", "save"} /\ th[t].next_free # 0
              THEN {th[t].next_free} ELSE {}
FreshBlock ==
  /\ \A t, u \in Thread : t # u => Fresh(t) \cap Fresh(u) = {}
  /\ \A t \in Thread, o \in Owners : Fresh(t) \cap Blocks(o) = {}

(***************************************************************************)
(* What the comment of csc452_write says: it writes into the file.  The    *)
(* block it is about to save is one of the file, not the root directory.   *)
(***************************************************************************)
WritesIntoFile ==
  \A t \in Thread : th[t].pc = "save" =>
    LET entry == get_dir(th[t].dir)
    IN  th[t].address \in Chain(entry[Find(entry, th[t].file)].nStartBlock) \ {0}
==============================================================================
