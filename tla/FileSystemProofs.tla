-------------------------- MODULE FileSystemProofs --------------------------
(***************************************************************************)
(* Proofs about csc452fuse.c: for any disk, any names and any number of    *)
(* threads the types and the uniqueness of names, and for the file system  *)
(* run with a single thread the ownership of blocks, and that what was     *)
(* written can be read.                                                    *)
(***************************************************************************)
EXTENDS FileSystem, SequenceTheorems, WellFoundedInduction, TLAPS

-----------------------------------------------------------------------------
\* A directory block as csc452_mknod and csc452_write leave it.
Listing == {e \in Seq(Entry) :
              /\ Len(e) <= MAX_FILES_IN_DIR
              /\ \A i, j \in 1..Len(e) : e[i].fname = e[j].fname => i = j}

\* The local variables of the three operations that change the disk.
CreatePC == {"get_tracker", "put_tracker", "link"}
MkdirOp == [pc : CreatePC, op : {"mkdir"}, dir : Dir, file : Dir, entry : {<<>>},
            next_free : 0..BLOCKS-2]
MknodOp == [pc : CreatePC, op : {"mknod"}, dir : Dir, file : File, entry : Listing,
            next_free : 0..BLOCKS-2]
WriteOp == [pc : {"walk", "get_tracker", "put_tracker", "seek", "save"}, op : {"write"},
            dir : Dir, file : File, next_free : 0..BLOCKS-2, entry : Listing,
            unsaved : BOOLEAN, address : Block, block : DiskBlock,
            offset : 0..MaxSize, size : 1..MaxSize, begin_index : Nat, left : Nat,
            byte : Byte]
Op == {Idle} \cup MkdirOp \cup MknodOp \cup WriteOp

RootInv ==
  /\ root \in Seq(Directory) /\ Len(root) <= MAX_DIRS_IN_ROOT
  /\ \A i, j \in 1..Len(root) : root[i].dname = root[j].dname => i = j

DiskInv ==
  /\ dir \in [Block -> Listing]
  /\ data \in [Block -> DiskBlock]
  /\ tracker \in 0..BLOCKS-2
  /\ \A w \in leaked : w.entry \in Listing

\* The lock of the root directory keeps what csc452_mkdir has checked.
MkdirInv ==
  /\ \A t \in Thread : th[t] \in MkdirOp =>
       /\ Len(root) < MAX_DIRS_IN_ROOT
       /\ \A i \in 1..Len(root) : root[i].dname # th[t].dir
  /\ \A t, u \in Thread : th[t] \in MkdirOp /\ th[u] \in MkdirOp => t = u

\* What csc452_mknod has checked of its copy of the directory block.
MknodInv == \A t \in Thread : th[t] \in MknodOp =>
  /\ Len(th[t].entry) < MAX_FILES_IN_DIR
  /\ \A i \in 1..Len(th[t].entry) : th[t].entry[i].fname # th[t].file

FsInv ==
  /\ RootInv /\ DiskInv /\ MkdirInv /\ MknodInv
  /\ th \in [Thread -> Op]
  /\ writes \in 0..MaxWrites /\ crashes \in 0..MaxCrashes
  /\ DOMAIN written = Dir \X File

\* An operation is of one kind only.
LEMMA Kinds ==
  /\ \A r \in MkdirOp : r.op = "mkdir" /\ r.pc \in CreatePC /\ r \notin MknodOp \cup WriteOp
  /\ \A r \in MknodOp : r.op = "mknod" /\ r.pc \in CreatePC /\ r \notin MkdirOp \cup WriteOp
  /\ \A r \in WriteOp : r.op = "write" /\ r.pc \in {"walk", "get_tracker", "put_tracker", "seek", "save"}
                        /\ r \notin MkdirOp \cup MknodOp
  /\ Idle.pc = "idle" /\ Idle \notin MkdirOp \cup MknodOp \cup WriteOp
<1>1. \A r \in MkdirOp : r.op = "mkdir" /\ r.pc \in CreatePC
  BY DEF MkdirOp
<1>2. \A r \in MknodOp : r.op = "mknod" /\ r.pc \in CreatePC
  BY DEF MknodOp
<1>3. \A r \in WriteOp : r.op = "write" /\ r.pc \in {"walk", "get_tracker", "put_tracker", "seek", "save"}
  BY DEF WriteOp
<1>4. Idle.pc = "idle"
  BY DEF Idle
<1>5. QED
  BY <1>1, <1>2, <1>3, <1>4 DEF CreatePC

\* What an operation is that has reached a statement.
LEMMA KindOf ==
  ASSUME FsInv, NEW t \in Thread
  PROVE  /\ th[t] \in Op
         /\ th[t].pc \in {"link"} => th[t] \in MkdirOp \cup MknodOp
         /\ th[t].pc \in {"walk", "seek", "save"} => th[t] \in WriteOp
         /\ th[t].pc \in {"get_tracker", "put_tracker"} => th[t] \in MkdirOp \cup MknodOp \cup WriteOp
<1>1. th[t] \in Op
  BY DEF FsInv
<1>2. QED
  BY <1>1, Kinds DEF Op, CreatePC

\* An entry gets a new size: the names stay.
LEMMA Resized ==
  ASSUME NEW e \in Listing, NEW i \in 1..Len(e), NEW n \in 0..MaxSize
  PROVE  /\ [e EXCEPT ![i].fsize = n] \in Listing
         /\ Len([e EXCEPT ![i].fsize = n]) = Len(e)
         /\ \A j \in 1..Len(e) : /\ [e EXCEPT ![i].fsize = n][j].fname = e[j].fname
                                 /\ [e EXCEPT ![i].fsize = n][j].nStartBlock = e[j].nStartBlock
<1> DEFINE x == [e[i] EXCEPT !.fsize = n]
<1>1. e \in Seq(Entry) /\ e[i] \in Entry
  BY ElementOfSeq DEF Listing
<1>2. x \in Entry /\ x.fname = e[i].fname /\ x.nStartBlock = e[i].nStartBlock
  BY <1>1 DEF Entry
<1>3. [e EXCEPT ![i].fsize = n] = [e EXCEPT ![i] = x]
  OBVIOUS
<1> HIDE DEF x
<1>4. /\ [e EXCEPT ![i] = x] \in Seq(Entry)
      /\ Len([e EXCEPT ![i] = x]) = Len(e)
      /\ \A j \in 1..Len(e) : [e EXCEPT ![i] = x][j] = IF j = i THEN x ELSE e[j]
  BY <1>1, <1>2, ExceptSeq
<1>5. \A j \in 1..Len(e) : /\ [e EXCEPT ![i] = x][j].fname = e[j].fname
                           /\ [e EXCEPT ![i] = x][j].nStartBlock = e[j].nStartBlock
  BY <1>2, <1>4
<1>6. [e EXCEPT ![i] = x] \in Listing
  BY <1>4, <1>5 DEF Listing
<1>7. QED
  BY <1>3, <1>4, <1>5, <1>6

\* A file with a new name joins a directory that is not full.
LEMMA Joined ==
  ASSUME NEW e \in Listing, Len(e) < MAX_FILES_IN_DIR, NEW x \in Entry,
         \A i \in 1..Len(e) : e[i].fname # x.fname
  PROVE  /\ Append(e, x) \in Listing
         /\ Len(Append(e, x)) = Len(e) + 1
         /\ \A i \in 1..Len(e) : Append(e, x)[i] = e[i]
         /\ Append(e, x)[Len(e) + 1] = x
<1>1. e \in Seq(Entry) /\ Len(e) \in Nat /\ MAX_FILES_IN_DIR \in Nat
  BY FileSystemAssumption DEF Listing
<1>2. /\ Append(e, x) \in Seq(Entry)
      /\ Len(Append(e, x)) = Len(e) + 1
      /\ \A i \in 1..Len(e) : Append(e, x)[i] = e[i]
      /\ Append(e, x)[Len(e) + 1] = x
  BY <1>1, AppendProperties
<1>3. \A i \in 1..Len(e) + 1 : i \in 1..Len(e) \/ i = Len(e) + 1
  BY <1>1
<1>4. Append(e, x) \in Listing
  <2> DEFINE a == Append(e, x)
  <2>1. /\ \A i, j \in 1..Len(e) : e[i].fname = e[j].fname => i = j
        /\ \A i \in 1..Len(e) : a[i] = e[i]
        /\ a[Len(e) + 1] = x /\ Len(a) = Len(e) + 1
    BY <1>2 DEF Listing
  <2>2. a \in Seq(Entry) /\ Len(a) <= MAX_FILES_IN_DIR
    BY <1>1, <1>2
  <2> HIDE DEF a
  <2>3. ASSUME NEW i \in 1..Len(a), NEW j \in 1..Len(a), a[i].fname = a[j].fname PROVE i = j
    <3>1. i \in 1..Len(e) \/ i = Len(e) + 1
      BY <1>3, <2>1
    <3>2. j \in 1..Len(e) \/ j = Len(e) + 1
      BY <1>3, <2>1
    <3>3. QED
      BY <2>1, <2>3, <3>1, <3>2
  <2>4. a \in Listing
    BY <2>2, <2>3 DEF Listing
  <2>5. QED
    BY <2>4 DEF a
<1>5. QED
  BY <1>2, <1>4

\* The directory block that get_dir reads.
LEMMA GetDir ==
  ASSUME FsInv, NEW d
  PROVE  /\ get_dir(d) \in Listing
         /\ dir_exists(d) # 0 => /\ dir_exists(d) \in 1..Len(root)
                                 /\ root[dir_exists(d)].dname = d
                                 /\ DirBlock(d) \in Block
                                 /\ get_dir(d) = dir[DirBlock(d)]
         /\ dir_exists(d) = 0 => \A i \in 1..Len(root) : root[i].dname # d
<1>1. root \in Seq(Directory) /\ Len(root) \in Nat /\ DOMAIN root = 1..Len(root)
      /\ dir \in [Block -> Listing]
  BY DEF FsInv, RootInv, DiskInv
<1>2. CASE \E i \in DOMAIN root : root[i].dname = d
  <2>1. dir_exists(d) \in DOMAIN root /\ root[dir_exists(d)].dname = d
    BY <1>2 DEF dir_exists
  <2>2. root[dir_exists(d)] \in Directory
    BY <1>1, <2>1, ElementOfSeq
  <2>3. DirBlock(d) \in Block
    BY <2>2 DEF DirBlock, Directory
  <2>4. dir_exists(d) # 0
    BY <1>1, <2>1
  <2>5. QED
    BY <1>1, <2>1, <2>3, <2>4 DEF get_dir
<1>3. CASE ~\E i \in DOMAIN root : root[i].dname = d
  <2>1. dir_exists(d) = 0
    BY <1>3 DEF dir_exists
  <2>2. <<>> \in Listing
    BY FileSystemAssumption, EmptySeq DEF Listing
  <2>3. QED
    BY <1>1, <1>3, <2>1, <2>2 DEF get_dir
<1>4. QED
  BY <1>2, <1>3

\* The loop over files[] finds an entry of the name, if there is one.
LEMMA Found ==
  ASSUME NEW e \in Listing, NEW f
  PROVE  IF Find(e, f) = 0 THEN \A i \in 1..Len(e) : e[i].fname # f
         ELSE Find(e, f) \in 1..Len(e) /\ e[Find(e, f)].fname = f
<1>1. DOMAIN e = 1..Len(e) /\ Len(e) \in Nat
  BY DEF Listing
<1>2. \A i, j \in 1..Len(e) : e[i].fname = e[j].fname => i = j
  BY DEF Listing
<1>3. CASE \E i \in DOMAIN e : e[i].fname = f
  <2>1. PICK i \in DOMAIN e : e[i].fname = f
    BY <1>3
  <2>2. \A j \in 1..i-1 : e[j].fname # f
    BY <1>1, <1>2, <2>1
  <2>3. Find(e, f) \in DOMAIN e /\ e[Find(e, f)].fname = f
    BY <1>3, <2>1, <2>2 DEF Find
  <2>4. QED
    BY <1>1, <2>3
<1>4. CASE ~\E i \in DOMAIN e : e[i].fname = f
  BY <1>1, <1>4 DEF Find
<1>5. QED
  BY <1>3, <1>4

\* file_exist says -1 only if the directory has no such file.
LEMMA NoFile ==
  ASSUME FsInv, NEW d, NEW f, file_exist(d, f) = -1
  PROVE  \A i \in 1..Len(get_dir(d)) : get_dir(d)[i].fname # f
<1>1. get_dir(d) \in Listing
  BY GetDir
<1>2. CASE Find(get_dir(d), f) = 0
  BY <1>1, <1>2, Found
<1>3. CASE Find(get_dir(d), f) # 0
  <2>1. Find(get_dir(d), f) \in 1..Len(get_dir(d))
    BY <1>1, <1>3, Found
  <2>2. get_dir(d)[Find(get_dir(d), f)] \in Entry
    BY <1>1, <2>1, ElementOfSeq DEF Listing
  <2>3. get_dir(d)[Find(get_dir(d), f)].fsize \in 0..MaxSize
    BY <2>2 DEF Entry
  <2>4. QED
    BY <1>3, <2>3, FileSystemAssumption DEF file_exist
<1>4. QED
  BY <1>2, <1>3

\* A thread goes on; the other threads and the root stay.
LEMMA ThreadKeeps ==
  ASSUME FsInv, NEW t \in Thread, NEW r \in Op, th' = [th EXCEPT ![t] = r],
         root' = root, DiskInv',
         writes' \in 0..MaxWrites, crashes' \in 0..MaxCrashes, DOMAIN written' = Dir \X File,
         r \in MkdirOp => /\ Len(root) < MAX_DIRS_IN_ROOT
                          /\ \A i \in 1..Len(root) : root[i].dname # r.dir
                          /\ \A u \in Thread : th[u] \in MkdirOp => u = t,
         r \in MknodOp => /\ Len(r.entry) < MAX_FILES_IN_DIR
                          /\ \A i \in 1..Len(r.entry) : r.entry[i].fname # r.file
  PROVE  FsInv'
<1>1. th \in [Thread -> Op] /\ RootInv /\ MkdirInv /\ MknodInv
  BY DEF FsInv
<1>2. th' \in [Thread -> Op] /\ th'[t] = r /\ \A u \in Thread : u # t => th'[u] = th[u]
  BY <1>1
<1>3. RootInv'
  BY <1>1 DEF RootInv
<1>4. MkdirInv'
  BY <1>1, <1>2 DEF MkdirInv
<1>5. MknodInv'
  BY <1>1, <1>2 DEF MknodInv
<1>6. QED
  BY <1>2, <1>3, <1>4, <1>5 DEF FsInv

\* What the steps up to next_free_block() keep.
LEMMA StartKeeps ==
  ASSUME FsInv, NEW t \in Thread, NEW d \in Dir
  PROVE  /\ Mkdir(t, d) => FsInv'
         /\ \A f \in File : Mknod(t, d, f) => FsInv'
<1>0. /\ 0 \in 0..BLOCKS-2
      /\ writes \in 0..MaxWrites /\ crashes \in 0..MaxCrashes /\ DOMAIN written = Dir \X File
  BY FileSystemAssumption DEF FsInv
<1>1. ASSUME Mkdir(t, d) PROVE FsInv'
  <2> DEFINE r == [pc |-> "get_tracker", op |-> "mkdir", dir |-> d,
                   file |-> d, entry |-> <<>>, next_free |-> 0]
  <2>1. /\ th' = [th EXCEPT ![t] = r] /\ root' = root
        /\ UNCHANGED <<dir, data, tracker, leaked, writes, crashes, written>>
        /\ dir_exists(d) = 0 /\ Len(root) < MAX_DIRS_IN_ROOT
        /\ MayStart(t, "mkdir", d, d)
    BY <1>1 DEF Mkdir, diskVars
  <2>2. r \in MkdirOp /\ r.dir = d
    BY <1>0 DEF MkdirOp, CreatePC
  <2>3. ASSUME NEW u \in Thread, th[u] \in MkdirOp PROVE u = t
    <3>1. th[u] # Idle /\ th[u].op = "mkdir"
      BY <2>3, Kinds
    <3>2. Inode(th[u].op, th[u].dir, th[u].file) = Inode("mkdir", d, d)
      BY <3>1 DEF Inode
    <3>3. QED
      BY <2>1, <3>1, <3>2 DEF MayStart
  <2>4. DiskInv'
    BY <2>1 DEF FsInv, DiskInv
  <2>5. \A i \in 1..Len(root) : root[i].dname # d
    BY <2>1, GetDir
  <2>6. r \in Op /\ r \notin MknodOp
    BY <2>2, Kinds DEF Op
  <2> HIDE DEF r
  <2>7. QED
    BY <1>0, <2>1, <2>2, <2>3, <2>4, <2>5, <2>6, ThreadKeeps
<1>2. ASSUME NEW f \in File, Mknod(t, d, f) PROVE FsInv'
  <2> DEFINE r == [pc |-> "get_tracker", op |-> "mknod", dir |-> d,
                   file |-> f, entry |-> get_dir(d), next_free |-> 0]
  <2>1. /\ th' = [th EXCEPT ![t] = r] /\ root' = root
        /\ UNCHANGED <<dir, data, tracker, leaked, writes, crashes, written>>
        /\ file_exist(d, f) = -1 /\ Len(get_dir(d)) < MAX_FILES_IN_DIR
    BY <1>2 DEF Mknod, diskVars
  <2>2. get_dir(d) \in Listing
    BY GetDir
  <2>3. r \in MknodOp /\ r.entry = get_dir(d) /\ r.file = f
    BY <1>0, <2>2 DEF MknodOp, CreatePC
  <2>4. \A i \in 1..Len(get_dir(d)) : get_dir(d)[i].fname # f
    BY <2>1, <2>2, NoFile
  <2>5. DiskInv'
    BY <2>1 DEF FsInv, DiskInv
  <2>6. r \in Op /\ r \notin MkdirOp
    BY <2>3, Kinds DEF Op
  <2> HIDE DEF r
  <2>7. QED
    BY <1>0, <2>1, <2>3, <2>4, <2>5, <2>6, ThreadKeeps
<1>3. QED
  BY <1>1, <1>2

\* next_free_block() gives a thread a number and goes on; mkdir and mknod give up.
LEMMA TrackerKeeps ==
  ASSUME FsInv, NEW t \in Thread, GetTracker(t) \/ PutTracker(t) \/ CreateFails(t)
  PROVE  FsInv'
<1>0. /\ th[t] \in Op /\ BLOCKS \in Nat /\ tracker \in 0..BLOCKS-2
      /\ writes \in 0..MaxWrites /\ crashes \in 0..MaxCrashes /\ DOMAIN written = Dir \X File
      /\ DiskInv /\ MkdirInv /\ MknodInv
  BY FileSystemAssumption DEF FsInv, DiskInv
<1>1. ASSUME NEW r \in Op, th' = [th EXCEPT ![t] = r], root' = root, DiskInv',
             writes' = writes, crashes' = crashes, written' = written,
             \/ r \in WriteOp \cup {Idle}
             \/ r \in MkdirOp /\ th[t] \in MkdirOp /\ r.dir = th[t].dir
             \/ r \in MknodOp /\ th[t] \in MknodOp /\ r.entry = th[t].entry /\ r.file = th[t].file
      PROVE  FsInv'
  <2>1. r \in MkdirOp => /\ Len(root) < MAX_DIRS_IN_ROOT
                         /\ \A i \in 1..Len(root) : root[i].dname # r.dir
                         /\ \A u \in Thread : th[u] \in MkdirOp => u = t
    BY <1>0, <1>1, Kinds DEF MkdirInv
  <2>2. r \in MknodOp => /\ Len(r.entry) < MAX_FILES_IN_DIR
                         /\ \A i \in 1..Len(r.entry) : r.entry[i].fname # r.file
    BY <1>0, <1>1, Kinds DEF MknodInv
  <2>3. QED
    BY <1>0, <1>1, <2>1, <2>2, ThreadKeeps
<1>2. CASE GetTracker(t)
  <2> DEFINE r == [[th[t] EXCEPT !.next_free = tracker + 1] EXCEPT !.pc = "put_tracker"]
  <2>1. /\ th' = [th EXCEPT ![t] = r] /\ th[t].pc = "get_tracker"
        /\ tracker + 1 \in 0..BLOCKS-2
        /\ UNCHANGED <<root, dir, data, tracker, leaked, writes, crashes, written>>
    BY <1>0, <1>2 DEF GetTracker, Goto, DiskFull, diskVars
  <2>2. DiskInv'
    BY <1>0, <2>1 DEF DiskInv
  <2>3. CASE th[t] \in MkdirOp
    <3>1. r \in MkdirOp /\ r.dir = th[t].dir
      BY <2>1, <2>3 DEF MkdirOp, CreatePC
    <3> HIDE DEF r
    <3>2. QED
      BY <1>1, <2>1, <2>2, <2>3, <3>1 DEF Op
  <2>4. CASE th[t] \in MknodOp
    <3>1. r \in MknodOp /\ r.entry = th[t].entry /\ r.file = th[t].file
      BY <2>1, <2>4 DEF MknodOp, CreatePC
    <3> HIDE DEF r
    <3>2. QED
      BY <1>1, <2>1, <2>2, <2>4, <3>1 DEF Op
  <2>5. CASE th[t] \in WriteOp
    <3>1. r \in WriteOp
      BY <2>1, <2>5 DEF WriteOp
    <3> HIDE DEF r
    <3>2. QED
      BY <1>1, <2>1, <2>2, <3>1 DEF Op
  <2>6. QED
    BY <2>1, <2>3, <2>4, <2>5, KindOf
<1>3. CASE PutTracker(t)
  <2>0. /\ th[t].pc = "put_tracker" /\ tracker' = th[t].next_free
        /\ UNCHANGED <<root, dir, data, leaked, writes, crashes, written>>
        /\ IF th[t].op = "write"
             THEN Goto(t, ToSave(t), [th[t] EXCEPT !.block.nNextBlock = th[t].next_free])
             ELSE Goto(t, "link", th[t])
    BY <1>3 DEF PutTracker
  <2>1. th[t] \in MkdirOp \cup MknodOp \cup WriteOp
    BY <2>0, KindOf
  <2>2. th[t].next_free \in 0..BLOCKS-2
    BY <2>1 DEF MkdirOp, MknodOp, WriteOp
  <2>3. DiskInv'
    BY <1>0, <2>0, <2>2 DEF DiskInv
  <2>4. CASE th[t] \in MkdirOp
    <3> DEFINE r == [th[t] EXCEPT !.pc = "link"]
    <3>1. th' = [th EXCEPT ![t] = r]
      BY <2>0, <2>4, Kinds DEF Goto
    <3>2. r \in MkdirOp /\ r.dir = th[t].dir
      BY <2>4 DEF MkdirOp, CreatePC
    <3> HIDE DEF r
    <3>3. QED
      BY <1>1, <2>0, <2>3, <2>4, <3>1, <3>2 DEF Op
  <2>5. CASE th[t] \in MknodOp
    <3> DEFINE r == [th[t] EXCEPT !.pc = "link"]
    <3>1. th' = [th EXCEPT ![t] = r]
      BY <2>0, <2>5, Kinds DEF Goto
    <3>2. r \in MknodOp /\ r.entry = th[t].entry /\ r.file = th[t].file
      BY <2>5 DEF MknodOp, CreatePC
    <3> HIDE DEF r
    <3>3. QED
      BY <1>1, <2>0, <2>3, <2>5, <3>1, <3>2 DEF Op
  <2>6. CASE th[t] \in WriteOp
    <3> DEFINE q == [th[t] EXCEPT !.block.nNextBlock = th[t].next_free]
               r == [q EXCEPT !.pc = ToSave(t)]
    <3>1. th' = [th EXCEPT ![t] = r]
      BY <2>0, <2>6, Kinds DEF Goto
    <3>2. ToSave(t) \in {"seek", "save"}
      BY DEF ToSave
    <3>3. [th[t].block EXCEPT !.nNextBlock = th[t].next_free] \in DiskBlock
      BY <1>0, <2>2, <2>6 DEF WriteOp, DiskBlock, Block
    <3>4. q \in WriteOp
      BY <2>6, <3>3 DEF WriteOp
    <3>5. r \in WriteOp
      <4> HIDE DEF q
      <4>1. QED
        BY <3>2, <3>4 DEF WriteOp
    <3> HIDE DEF r
    <3>6. QED
      BY <1>1, <2>0, <2>3, <3>1, <3>5 DEF Op
  <2>7. QED
    BY <2>1, <2>4, <2>5, <2>6
<1>4. CASE CreateFails(t)
  <2>1. /\ th' = [th EXCEPT ![t] = Idle]
        /\ UNCHANGED <<root, dir, data, tracker, leaked, writes, crashes, written>>
    BY <1>4 DEF CreateFails, Return, diskVars
  <2>2. DiskInv'
    BY <1>0, <2>1 DEF DiskInv
  <2>3. QED
    BY <1>1, <2>1, <2>2 DEF Op
<1>5. QED
  BY <1>2, <1>3, <1>4

\* A new directory or a new file is entered.
LEMMA LinkKeeps ==
  ASSUME FsInv, NEW t \in Thread, LinkDir(t) \/ LinkFile(t)
  PROVE  FsInv'
<1>0. /\ th[t] \in MkdirOp \cup MknodOp /\ th \in [Thread -> Op] /\ BLOCKS \in Nat
      /\ writes \in 0..MaxWrites /\ crashes \in 0..MaxCrashes /\ DOMAIN written = Dir \X File
      /\ DiskInv /\ RootInv /\ MkdirInv /\ MknodInv /\ MAX_DIRS_IN_ROOT \in Nat
  BY FileSystemAssumption, KindOf DEF FsInv, LinkDir, LinkFile
<1>1. CASE LinkDir(t)
  <2> DEFINE x == [dname |-> th[t].dir, nStartBlock |-> th[t].next_free]
  <2>1. /\ th[t] \in MkdirOp /\ th' = [th EXCEPT ![t] = Idle]
        /\ root' = Append(root, x)
        /\ UNCHANGED <<dir, data, tracker, leaked, writes, crashes, written>>
    BY <1>0, <1>1, Kinds DEF LinkDir, Return
  <2>2. x \in Directory /\ x.dname = th[t].dir
    BY <1>0, <2>1 DEF MkdirOp, Directory, Block
  <2>3. root \in Seq(Directory) /\ Len(root) \in Nat /\ Len(root) < MAX_DIRS_IN_ROOT
        /\ \A i \in 1..Len(root) : root[i].dname # x.dname
    BY <1>0, <2>1, <2>2 DEF RootInv, MkdirInv
  <2> HIDE DEF x
  <2>4. /\ root' \in Seq(Directory) /\ Len(root') = Len(root) + 1
        /\ \A i \in 1..Len(root) : root'[i] = root[i]
        /\ root'[Len(root) + 1] = x
    BY <2>1, <2>2, <2>3, AppendProperties
  <2>5. RootInv'
    <3>1. ASSUME NEW i \in 1..Len(root'), NEW j \in 1..Len(root'), root'[i].dname = root'[j].dname
          PROVE  i = j
      <4>1. i \in 1..Len(root) \/ i = Len(root) + 1
        BY <2>3, <2>4
      <4>2. j \in 1..Len(root) \/ j = Len(root) + 1
        BY <2>3, <2>4
      <4>3. \A a, b \in 1..Len(root) : root[a].dname = root[b].dname => a = b
        BY <1>0 DEF RootInv
      <4>4. QED
        BY <2>3, <2>4, <3>1, <4>1, <4>2, <4>3
    <3>2. Len(root') <= MAX_DIRS_IN_ROOT
      BY <1>0, <2>3, <2>4
    <3>3. QED
      BY <2>4, <3>1, <3>2 DEF RootInv
  <2>6. \A u \in Thread : th'[u] = IF u = t THEN Idle ELSE th[u]
    BY <1>0, <2>1
  <2>7. \A u \in Thread : th'[u] \notin MkdirOp
    BY <1>0, <2>1, <2>6, Kinds DEF MkdirInv
  <2>8. MkdirInv'
    BY <2>7 DEF MkdirInv
  <2>9. MknodInv'
    BY <1>0, <2>6, Kinds DEF MknodInv
  <2>10. DiskInv'
    BY <1>0, <2>1 DEF DiskInv
  <2>11. th' \in [Thread -> Op]
    BY <1>0, <2>1 DEF Op
  <2>12. QED
    BY <1>0, <2>1, <2>5, <2>8, <2>9, <2>10, <2>11 DEF FsInv
<1>2. CASE LinkFile(t)
  <2> DEFINE x == [fname |-> th[t].file, fsize |-> 0, nStartBlock |-> th[t].next_free]
  <2>1. /\ th[t] \in MknodOp /\ th' = [th EXCEPT ![t] = Idle]
        /\ dir' = [dir EXCEPT ![DirBlock(th[t].dir)] = Append(th[t].entry, x)]
        /\ DOMAIN written' = DOMAIN written
        /\ UNCHANGED <<root, data, tracker, leaked, writes, crashes>>
    BY <1>0, <1>2, Kinds DEF LinkFile, Return
  <2>2. x \in Entry /\ x.fname = th[t].file /\ th[t].entry \in Listing
    BY <1>0, <2>1, FileSystemAssumption DEF MknodOp, Entry, Block
  <2>3. /\ Len(th[t].entry) < MAX_FILES_IN_DIR
        /\ \A i \in 1..Len(th[t].entry) : th[t].entry[i].fname # x.fname
    BY <1>0, <2>1, <2>2 DEF MknodInv
  <2> HIDE DEF x
  <2>4. Append(th[t].entry, x) \in Listing
    BY <2>2, <2>3, Joined
  <2>5. DiskInv'
    BY <1>0, <2>1, <2>4 DEF DiskInv
  <2>6. Idle \in Op /\ Idle \notin MkdirOp /\ Idle \notin MknodOp
    BY Kinds DEF Op
  <2>7. QED
    BY <1>0, <2>1, <2>5, <2>6, ThreadKeeps
<1>3. QED
  BY <1>1, <1>2

\* csc452_write reads its file's entry and first block.
LEMMA WriteBeginKeeps ==
  ASSUME FsInv, NEW t \in Thread, NEW d \in Dir, NEW f \in File, NEW b \in Byte,
         NEW offset \in 0..MaxSize, NEW size \in 1..(MaxSize - offset),
         WriteBegin(t, d, f, offset, size, b)
  PROVE  FsInv'
<1> DEFINE e == get_dir(d)
           i == Find(e, f)
           start == e[i].nStartBlock
           r == [pc |-> "walk", op |-> "write", dir |-> d, file |-> f, next_free |-> 0,
                 entry |-> [e EXCEPT ![i].fsize = offset + size],
                 unsaved |-> offset + size # e[i].fsize,
                 address |-> start, block |-> data[start],
                 offset |-> offset, size |-> size, begin_index |-> offset,
                 left |-> size, byte |-> b]
<1>0. /\ BLOCKS \in Nat /\ BLOCKS > 2 /\ MaxSize \in Nat /\ MaxWrites \in Nat /\ DiskInv
      /\ writes \in 0..MaxWrites /\ crashes \in 0..MaxCrashes /\ DOMAIN written = Dir \X File
  BY FileSystemAssumption DEF FsInv
<1>1. /\ i # 0 /\ writes < MaxWrites /\ writes' = writes + 1
      /\ th' = [th EXCEPT ![t] = r]
      /\ UNCHANGED <<root, dir, data, tracker, leaked, crashes, written>>
  BY DEF WriteBegin, diskVars
<1>2. e \in Listing
  BY GetDir
<1>3. i \in 1..Len(e)
  BY <1>1, <1>2, Found
<1>4. start \in Block /\ data[start] \in DiskBlock
  <2>1. e[i] \in Entry
    BY <1>2, <1>3, ElementOfSeq DEF Listing
  <2>2. QED
    BY <1>0, <2>1 DEF Entry, DiskInv
<1>5. offset + size \in 0..MaxSize /\ size \in 1..MaxSize /\ size \in Nat /\ offset \in Nat
  BY <1>0
<1>6. [e EXCEPT ![i].fsize = offset + size] \in Listing
  <2> HIDE DEF e, i
  <2>1. QED
    BY <1>2, <1>3, <1>5, Resized
<1>7. r \in WriteOp
  <2> HIDE DEF e, i, start
  <2>1. 0 \in 0..BLOCKS-2 /\ (offset + size # e[i].fsize) \in BOOLEAN
    BY <1>0
  <2>2. QED
    BY <1>4, <1>5, <1>6, <2>1 DEF WriteOp
<1>8. DiskInv'
  BY <1>0, <1>1 DEF DiskInv
<1>9. writes' \in 0..MaxWrites
  BY <1>0, <1>1
<1> HIDE DEF r
<1>10. r \in Op /\ r \notin MkdirOp /\ r \notin MknodOp
  BY <1>7, Kinds DEF Op
<1>11. QED
  BY <1>0, <1>1, <1>8, <1>9, <1>10, ThreadKeeps

\* A directory block flushed from the buffer of a stream is one again.
LEMMA FlushKeeps ==
  ASSUME DiskInv, NEW t \in Thread, th[t] \in WriteOp, Flush(t)
  PROVE  dir' \in [Block -> Listing]
<1>1. th[t].entry \in Listing /\ dir \in [Block -> Listing]
  BY DEF WriteOp, DiskInv
<1>2. QED
  BY <1>1 DEF Flush

\* The steps of csc452_write after its first.
LEMMA WriteKeeps ==
  ASSUME FsInv, NEW t \in Thread,
         WriteWalk(t) \/ WriteFill(t) \/ WriteFails(t) \/ WriteSeek(t) \/ WriteSave(t)
  PROVE  FsInv'
<1>0. /\ BLOCKS \in Nat /\ BLOCKS > 2 /\ DiskInv /\ MAX_DATA_IN_BLOCK \in Nat
      /\ writes \in 0..MaxWrites /\ crashes \in 0..MaxCrashes /\ DOMAIN written = Dir \X File
      /\ data \in [Block -> DiskBlock]
  BY FileSystemAssumption DEF FsInv, DiskInv
<1>1. th[t] \in WriteOp
  <2>1. CASE WriteFails(t)
    BY <2>1, KindOf, Kinds DEF WriteFails
  <2>2. CASE ~WriteFails(t)
    BY <2>2, KindOf DEF WriteWalk, WriteFill, WriteSeek, WriteSave
  <2>3. QED
    BY <2>1, <2>2
<1>2. /\ th[t].block \in DiskBlock /\ th[t].block.nNextBlock \in Block
      /\ th[t].begin_index \in Nat /\ th[t].left \in Nat /\ th[t].byte \in Byte
      /\ th[t].address \in Block /\ th[t].entry \in Listing
  BY <1>1 DEF WriteOp, DiskBlock
<1>3. data[th[t].block.nNextBlock] \in DiskBlock
  BY <1>0, <1>2
<1>4. ASSUME NEW r \in WriteOp \cup {Idle}, th' = [th EXCEPT ![t] = r], root' = root, DiskInv',
             writes' = writes, crashes' = crashes, DOMAIN written' = DOMAIN written
      PROVE  FsInv'
  <2>1. r \in Op /\ r \notin MkdirOp /\ r \notin MknodOp
    BY Kinds DEF Op
  <2>2. QED
    BY <1>0, <1>4, <2>1, ThreadKeeps
<1>5. CASE WriteWalk(t)
  <2> DEFINE r == [[th[t] EXCEPT !.address = th[t].block.nNextBlock,
                                 !.block = data[th[t].block.nNextBlock],
                                 !.begin_index = @ - MAX_DATA_IN_BLOCK,
                                 !.unsaved = FALSE] EXCEPT !.pc = "walk"]
  <2>1. /\ Flush(t) /\ th' = [th EXCEPT ![t] = r] /\ th[t].begin_index > MAX_DATA_IN_BLOCK
        /\ UNCHANGED <<root, data, tracker, leaked, writes, crashes, written>>
    BY <1>5 DEF WriteWalk, Goto
  <2>2. th[t].begin_index - MAX_DATA_IN_BLOCK \in Nat
    BY <1>0, <1>2, <2>1
  <2>3. r \in WriteOp
    BY <1>1, <1>2, <1>3, <2>2 DEF WriteOp
  <2>4. DiskInv'
    BY <1>0, <1>1, <2>1, FlushKeeps DEF DiskInv
  <2> HIDE DEF r
  <2>5. QED
    BY <1>4, <2>1, <2>3, <2>4
<1>6. CASE WriteFill(t)
  <2> DEFINE room == MAX_DATA_IN_BLOCK - th[t].begin_index
             n == IF th[t].left < room THEN th[t].left ELSE room
             bytes == [i \in Index |-> IF i >= th[t].begin_index /\ i < th[t].begin_index + n
                                         THEN th[t].byte ELSE th[t].block.bytes[i]]
             q == [th[t] EXCEPT !.left = @ - n, !.block.bytes = bytes]
             pc == IF th[t].left > n /\ th[t].block.nNextBlock = 0 THEN "get_tracker" ELSE ToSave(t)
             r == [q EXCEPT !.pc = pc]
  <2>1. /\ th' = [th EXCEPT ![t] = r] /\ th[t].begin_index <= MAX_DATA_IN_BLOCK
        /\ UNCHANGED <<root, dir, data, tracker, leaked, writes, crashes, written>>
    BY <1>6 DEF WriteFill, Goto, diskVars
  <2>2. th[t].left - n \in Nat
    BY <1>0, <1>2, <2>1
  <2>3. pc \in {"get_tracker", "seek", "save"}
    BY DEF ToSave
  <2>4. bytes \in [Index -> Byte \cup {0}]
    <3> HIDE DEF n
    <3>1. QED
      BY <1>2 DEF DiskBlock
  <2>5. [th[t].block EXCEPT !.bytes = bytes] \in DiskBlock
    <3> HIDE DEF bytes
    <3>1. QED
      BY <1>2, <2>4 DEF DiskBlock
  <2>6. q \in WriteOp
    <3> HIDE DEF n, bytes
    <3>1. QED
      BY <1>1, <2>2, <2>5 DEF WriteOp
  <2>7. r \in WriteOp
    <3> HIDE DEF q, pc
    <3>1. QED
      BY <2>3, <2>6 DEF WriteOp
  <2>8. DiskInv'
    BY <1>0, <2>1 DEF DiskInv
  <2> HIDE DEF r
  <2>9. QED
    BY <1>4, <2>1, <2>7, <2>8
<1>7. CASE WriteFails(t)
  <2>1. /\ th' = [th EXCEPT ![t] = Idle]
        /\ UNCHANGED <<root, dir, data, tracker, writes, crashes>>
        /\ DOMAIN written' = DOMAIN written
        /\ leaked' \subseteq leaked \cup {[block |-> DirBlock(th[t].dir), entry |-> th[t].entry]}
    BY <1>7 DEF WriteFails, Return, diskVars
  <2>2. DiskInv'
    BY <1>0, <1>2, <2>1 DEF DiskInv
  <2>3. QED
    BY <1>4, <2>1, <2>2
<1>8. CASE WriteSeek(t)
  <2> DEFINE r == [[th[t] EXCEPT !.unsaved = FALSE] EXCEPT !.pc = "save"]
  <2>1. /\ Flush(t) /\ th' = [th EXCEPT ![t] = r]
        /\ UNCHANGED <<root, data, tracker, leaked, writes, crashes, written>>
    BY <1>8 DEF WriteSeek, Goto
  <2>2. r \in WriteOp
    BY <1>1 DEF WriteOp
  <2>3. DiskInv'
    BY <1>0, <1>1, <2>1, FlushKeeps DEF DiskInv
  <2> HIDE DEF r
  <2>4. QED
    BY <1>4, <2>1, <2>2, <2>3
<1>9. CASE WriteSave(t)
  <2>1. /\ data' = [data EXCEPT ![th[t].address] = th[t].block]
        /\ UNCHANGED <<root, dir, tracker, leaked, writes, crashes>>
        /\ DOMAIN written' = DOMAIN written
    BY <1>9 DEF WriteSave
  <2>2. DiskInv'
    BY <1>0, <1>2, <2>1 DEF DiskInv
  <2>3. CASE th[t].left > 0
    <3> DEFINE r == [[th[t] EXCEPT !.address = th[t].block.nNextBlock,
                                   !.block = data[th[t].block.nNextBlock],
                                   !.begin_index = 0, !.next_free = 0] EXCEPT !.pc = "walk"]
    <3>1. th' = [th EXCEPT ![t] = r]
      BY <1>9, <2>3 DEF WriteSave, Goto
    <3>2. r \in WriteOp
      <4>1. 0 \in 0..BLOCKS-2 /\ 0 \in Nat
        BY <1>0
      <4>2. QED
        BY <1>1, <1>2, <1>3, <4>1 DEF WriteOp
    <3> HIDE DEF r
    <3>3. QED
      BY <1>4, <2>1, <2>2, <3>1, <3>2
  <2>4. CASE ~(th[t].left > 0)
    <3>1. th' = [th EXCEPT ![t] = Idle]
      BY <1>9, <2>4 DEF WriteSave, Return
    <3>2. QED
      BY <1>4, <2>1, <2>2, <3>1
  <2>5. QED
    BY <2>3, <2>4
<1>10. QED
  BY <1>5, <1>6, <1>7, <1>8, <1>9

\* The process dies, or is unmounted.
LEMMA EndKeeps ==
  ASSUME FsInv, Crash \/ Unmount
  PROVE  FsInv'
<1>0. /\ RootInv /\ DiskInv /\ MkdirInv /\ MknodInv /\ th \in [Thread -> Op]
      /\ writes \in 0..MaxWrites /\ crashes \in 0..MaxCrashes /\ MaxCrashes \in Nat
  BY FileSystemAssumption DEF FsInv
<1>1. /\ crashes' \in 0..MaxCrashes /\ UNCHANGED <<root, data, tracker, writes>> /\ leaked' = {}
  BY <1>0 DEF Crash, Unmount, diskVars
<1>2. DOMAIN written' = Dir \X File
  BY DEF Crash, Unmount
<1>3. RootInv'
  BY <1>0, <1>1 DEF RootInv
<1>4. \A t \in Thread : th'[t] = Idle
  BY DEF Crash, Unmount
<1>5. th' \in [Thread -> Op]
  BY <1>0 DEF Crash, Unmount, Op
<1>6. MkdirInv' /\ MknodInv'
  BY <1>4, Kinds DEF MkdirInv, MknodInv
<1>7. dir' \in [Block -> Listing]
  <2>1. CASE Crash
    BY <1>0, <2>1 DEF Crash, DiskInv, diskVars
  <2>2. CASE Unmount
    <3>1. PICK last \in [{w.block : w \in leaked} -> leaked] :
            dir' = [b \in Block |-> IF b \in DOMAIN last THEN last[b].entry ELSE dir[b]]
      BY <2>2 DEF Unmount
    <3>2. \A b \in DOMAIN last : last[b].entry \in Listing
      BY <1>0, <3>1 DEF DiskInv
    <3>3. dir \in [Block -> Listing]
      BY <1>0 DEF DiskInv
    <3>4. \A b \in Block : (IF b \in DOMAIN last THEN last[b].entry ELSE dir[b]) \in Listing
      BY <3>2, <3>3
    <3>5. QED
      BY <3>1, <3>4
  <2>3. QED
    BY <2>1, <2>2
<1>8. DiskInv'
  BY <1>0, <1>1, <1>7 DEF DiskInv
<1>9. QED
  BY <1>0, <1>1, <1>2, <1>3, <1>5, <1>6, <1>8 DEF FsInv

\* formatDisk makes an empty root and empty blocks.
LEMMA FsInitInv == Init => FsInv
<1> SUFFICES ASSUME Init PROVE FsInv
  OBVIOUS
<1>0. /\ BLOCKS \in Nat /\ BLOCKS > 2 /\ MAX_DIRS_IN_ROOT \in Nat /\ MAX_FILES_IN_DIR \in Nat
      /\ MaxWrites \in Nat /\ MaxCrashes \in Nat
  BY FileSystemAssumption
<1>1. <<>> \in Seq(Directory) /\ Len(<<>>) = 0 /\ <<>> \in Listing
  BY <1>0, EmptySeq DEF Listing
<1>2. RootInv
  BY <1>0, <1>1 DEF Init, RootInv
<1>3. [bytes |-> [i \in Index |-> 0], nNextBlock |-> 0] \in DiskBlock
  BY <1>0 DEF DiskBlock, Block
<1>4. DiskInv
  BY <1>0, <1>1, <1>3 DEF Init, DiskInv
<1>5. \A t \in Thread : th[t] = Idle
  BY DEF Init
<1>6. th \in [Thread -> Op]
  BY DEF Init, Op
<1>7. MkdirInv /\ MknodInv
  BY <1>5, Kinds DEF MkdirInv, MknodInv
<1>8. writes \in 0..MaxWrites /\ crashes \in 0..MaxCrashes
  BY <1>0 DEF Init
<1>9. DOMAIN written = Dir \X File
  BY DEF Init
<1>10. QED
  BY <1>2, <1>4, <1>6, <1>7, <1>8, <1>9 DEF FsInv

\* No step of any thread breaks the invariant.
LEMMA FsStep == FsInv /\ [Next]_vars => FsInv'
<1> SUFFICES ASSUME FsInv, [Next]_vars PROVE FsInv'
  OBVIOUS
<1>1. CASE UNCHANGED vars
  <2>1. UNCHANGED <<root, dir, data, tracker, th, leaked, writes, crashes, written>>
    BY <1>1 DEF vars, diskVars
  <2>2. QED
    BY <2>1 DEF FsInv, RootInv, DiskInv, MkdirInv, MknodInv
<1>2. CASE Crash \/ Unmount
  BY <1>2, EndKeeps
<1>3. CASE \E t \in Thread : \E d \in Dir : Mkdir(t, d) \/ \E f \in File : Mknod(t, d, f)
  BY <1>3, StartKeeps
<1>4. CASE \E t \in Thread : \E d \in Dir, f \in File, b \in Byte, offset \in 0..MaxSize :
             \E size \in 1..(MaxSize - offset) : WriteBegin(t, d, f, offset, size, b)
  BY <1>4, WriteBeginKeeps
<1>5. CASE \E t \in Thread : GetTracker(t) \/ PutTracker(t) \/ CreateFails(t)
  BY <1>5, TrackerKeeps
<1>6. CASE \E t \in Thread : LinkDir(t) \/ LinkFile(t)
  BY <1>6, LinkKeeps
<1>7. CASE \E t \in Thread : \/ WriteWalk(t) \/ WriteFill(t) \/ WriteFails(t)
                             \/ WriteSeek(t) \/ WriteSave(t)
  BY <1>7, WriteKeeps
<1>8. QED
  BY <1>1, <1>2, <1>3, <1>4, <1>5, <1>6, <1>7 DEF Next

\* FsInv holds throughout, with any number of threads.
LEMMA FsInvariance == Spec => []FsInv
BY FsInitInv, FsStep, PTL DEF Spec

(***************************************************************************)
(* For any disk, any names and any number of threads, crashes and writes:  *)
(* the variables keep their types; no directory grows beyond its block,    *)
(* and next_free_block never hands out the block of the tracker.           *)
(***************************************************************************)
THEOREM FileSystemTypes == Spec => []TypeOK
<1>1. ASSUME FsInv PROVE TypeOK
  <2>1. \A e \in Listing : e \in Seq(Entry) /\ Len(e) <= MAX_FILES_IN_DIR
    BY DEF Listing
  <2>2. dir \in [Block -> Seq(Entry)] /\ \A b \in Block : Len(dir[b]) <= MAX_FILES_IN_DIR
    BY <1>1, <2>1 DEF FsInv, DiskInv
  <2>3. \A t \in Thread : th[t].pc \in PC
    BY <1>1, Kinds DEF FsInv, Op, PC, CreatePC
  <2>4. QED
    BY <1>1, <2>2, <2>3 DEF FsInv, RootInv, DiskInv, TypeOK
<1>2. QED
  BY <1>1, FsInvariance, PTL

(***************************************************************************)
(* For any disk, any names and any number of threads: csc452_readdir never *)
(* lists a name twice, although csc452_mknod and csc452_write write back   *)
(* copies of the directory block that may be old.                          *)
(***************************************************************************)
THEOREM NamesAreUnique == Spec => []NamesOnce
<1>1. ASSUME FsInv PROVE NamesOnce
  <2>1. \A i, j \in DOMAIN root : root[i].dname = root[j].dname => i = j
    BY <1>1 DEF FsInv, RootInv
  <2>2. ASSUME NEW d \in Dir, NEW i \in DOMAIN csc452_readdir(d), NEW j \in DOMAIN csc452_readdir(d),
               csc452_readdir(d)[i] = csc452_readdir(d)[j]
        PROVE  i = j
    <3>1. get_dir(d) \in Listing
      BY <1>1, GetDir
    <3>2. /\ DOMAIN get_dir(d) = 1..Len(get_dir(d))
          /\ \A a, b \in 1..Len(get_dir(d)) : get_dir(d)[a].fname = get_dir(d)[b].fname => a = b
      BY <3>1 DEF Listing
    <3>3. QED
      BY <2>2, <3>2 DEF csc452_readdir
  <2>3. QED
    BY <2>1, <2>2 DEF NamesOnce
<1>2. QED
  BY <1>1, FsInvariance, PTL

-----------------------------------------------------------------------------
\* FUSE started with -s: one operation at a time.
OneThread == \A t, u \in Thread : t = u

\* Some link on the disk leads to block n: from the root, from a directory, or
\* from a block of a file.
Linked(n) ==
  \/ \E i \in 1..Len(root) : root[i].nStartBlock = n
  \/ \E b \in Block : \E i \in 1..Len(dir[b]) : dir[b][i].nStartBlock = n
  \/ \E b \in Block : data[b].nNextBlock = n

\* Links lead to blocks that were handed out, and along a chain to later ones.
LinksForward ==
  /\ \A i \in 1..Len(root) : root[i].nStartBlock \in 1..tracker
  /\ \A b \in Block : \A i \in 1..Len(dir[b]) : dir[b][i].nStartBlock \in 1..tracker
  /\ \A b \in Block : data[b].nNextBlock # 0 => data[b].nNextBlock \in b+1..tracker

\* No two links lead to the same block.
LinksDiffer ==
  /\ \A i, j \in 1..Len(root) : root[i].nStartBlock = root[j].nStartBlock => i = j
  /\ \A b, c \in Block : \A i \in 1..Len(dir[b]), j \in 1..Len(dir[c]) :
       dir[b][i].nStartBlock = dir[c][j].nStartBlock => b = c /\ i = j
  /\ \A b, c \in Block : data[b].nNextBlock = data[c].nNextBlock => b = c \/ data[b].nNextBlock = 0
  /\ \A i \in 1..Len(root), b \in Block : \A j \in 1..Len(dir[b]) :
       root[i].nStartBlock # dir[b][j].nStartBlock
  /\ \A i \in 1..Len(root), b \in Block : root[i].nStartBlock # data[b].nNextBlock
  /\ \A b, c \in Block : \A i \in 1..Len(dir[b]) : dir[b][i].nStartBlock # data[c].nNextBlock

\* A copy of a directory block has the files of the block, or the first of them.
CopyOf(e, b) ==
  /\ Len(e) <= Len(dir[b])
  /\ \A i \in 1..Len(e) : e[i].nStartBlock = dir[b][i].nStartBlock

\* The number next_free_block() has given out is in no link yet.
Unused(t) == th[t].next_free = tracker /\ tracker # 0 /\ ~Linked(tracker)

\* The block of a file in memory: as on the disk, or with the new link at its end.
BlockInv(t) ==
  /\ th[t].address \in 0..tracker
  /\ \/ /\ th[t].block.nNextBlock = data[th[t].address].nNextBlock
        /\ th[t].pc \in {"get_tracker", "put_tracker"} => th[t].block.nNextBlock = 0
        /\ th[t].pc \in {"walk", "seek", "save"} => th[t].next_free = 0
     \/ /\ th[t].pc \in {"seek", "save"} /\ Unused(t)
        /\ th[t].block.nNextBlock = tracker /\ data[th[t].address].nNextBlock = 0
        /\ th[t].address < tracker

ThreadInv(t) ==
  /\ th[t].pc = "put_tracker" => th[t].next_free = tracker + 1
  /\ th[t].pc = "link" => Unused(t)
  /\ th[t] # Idle /\ th[t].op # "mkdir" =>
       /\ dir_exists(th[t].dir) # 0
       /\ CopyOf(th[t].entry, DirBlock(th[t].dir)) /\ Len(th[t].entry) = Len(dir[DirBlock(th[t].dir)])
  /\ th[t] # Idle /\ th[t].op = "write" => BlockInv(t)

OwnInv ==
  /\ LinksForward /\ LinksDiffer
  /\ \A w \in leaked : w.block \in Block /\ CopyOf(w.entry, w.block)
  /\ \A t \in Thread : ThreadInv(t)

-----------------------------------------------------------------------------
\* A non-empty set of numbers has a least one.
LEMMA Least ==
  ASSUME NEW T \in SUBSET Nat, T # {}
  PROVE  \E x \in T : \A y \in T : x <= y
<1>1. IsWellFoundedOn(OpToRel(<, Nat), Nat)
  BY NatLessThanWellFounded
<1>2. PICK x \in T : \A y \in T : ~(<<y, x>> \in OpToRel(<, Nat))
  BY <1>1, WFMin
<1>3. ASSUME NEW y \in T PROVE ~(y < x)
  <2>1. <<y, x>> \in Nat \X Nat /\ <<y, x>>[1] = y /\ <<y, x>>[2] = x
    OBVIOUS
  <2>2. y < x => <<y, x>> \in OpToRel(<, Nat)
    BY <2>1, Zenon DEF OpToRel
  <2>3. QED
    BY <1>2, <2>2
<1>4. QED
  BY <1>3

\* A non-empty set of blocks has a last one.
LEMMA Last ==
  ASSUME NEW S \in SUBSET Block, S # {}
  PROVE  \E x \in S : \A y \in S : y <= x
<1> DEFINE T == {BLOCKS - x : x \in S}
<1>0. BLOCKS \in Nat /\ \A x \in S : x \in Nat /\ x < BLOCKS
  BY FileSystemAssumption DEF Block
<1>1. T \in SUBSET Nat /\ T # {}
  BY <1>0
<1>2. PICK z \in T : \A y \in T : z <= y
  <2> HIDE DEF T
  <2>1. QED
    BY <1>1, Least
<1>3. PICK x \in S : z = BLOCKS - x
  BY <1>2
<1>4. ASSUME NEW y \in S PROVE y <= x
  <2>1. z <= BLOCKS - y
    BY <1>2
  <2>2. QED
    BY <1>0, <1>3, <2>1
<1>5. QED
  BY <1>4

\* The block behind a block of a chain is on the chain.
LEMMA ChainClosed ==
  ASSUME NEW b \in Block, NEW x \in Chain(b), x # 0, data[x].nNextBlock \in Block
  PROVE  data[x].nNextBlock \in Chain(b)
<1>1. x \in Block /\ \A S \in SUBSET (Block \ {x}) :
        b \in S => \E y \in S \ {0} : data[y].nNextBlock \notin S
  BY DEF Chain
<1>2. ASSUME NEW S \in SUBSET (Block \ {data[x].nNextBlock}), b \in S
      PROVE  \E y \in S \ {0} : data[y].nNextBlock \notin S
  <2>1. CASE x \in S
    BY <1>2, <2>1
  <2>2. CASE x \notin S
    BY <1>1, <1>2, <2>2
  <2>3. QED
    BY <2>1, <2>2
<1>3. QED
  BY <1>2 DEF Chain

\* A chain stays in a set that no link leaves.
LEMMA ChainWithin ==
  ASSUME NEW S \in SUBSET Block, NEW b \in S, \A x \in S \ {0} : data[x].nNextBlock \in S
  PROVE  Chain(b) \subseteq S
<1>1. ASSUME NEW c \in Chain(b), c \notin S PROVE FALSE
  <2>1. S \in SUBSET (Block \ {c})
    BY <1>1
  <2>2. QED
    BY <1>1, <2>1 DEF Chain
<1>2. QED
  BY <1>1

\* A block of a chain is the first or there is one of the chain before it.
LEMMA ChainBefore ==
  ASSUME NEW b \in Block, NEW c \in Chain(b), c # b,
         \A x \in Block : data[x].nNextBlock \in Block
  PROVE  \E x \in Chain(b) \ {0} : data[x].nNextBlock = c
<1>1. Chain(b) \subseteq Block /\ b \in Chain(b)
  BY DEF Chain
<1>2. Chain(b) \ {c} \in SUBSET (Block \ {c}) /\ b \in Chain(b) \ {c}
  BY <1>1
<1>3. PICK x \in (Chain(b) \ {c}) \ {0} : data[x].nNextBlock \notin Chain(b) \ {c}
  BY <1>2 DEF Chain
<1>4. data[x].nNextBlock \in Chain(b)
  BY <1>1, <1>3, ChainClosed
<1>5. QED
  BY <1>3, <1>4

\* As links lead forward, a chain ends.
LEMMA ChainEnds ==
  ASSUME LinksForward, NEW b \in Block
  PROVE  0 \in Chain(b)
<1>0. 0 \in Block /\ BLOCKS \in Nat
  BY FileSystemAssumption DEF Block
<1>1. ASSUME NEW S \in SUBSET (Block \ {0}), b \in S
      PROVE  \E x \in S \ {0} : data[x].nNextBlock \notin S
  <2>1. PICK x \in S : \A y \in S : y <= x
    BY <1>1, Last
  <2>2. ASSUME data[x].nNextBlock \in S PROVE FALSE
    <3>1. data[x].nNextBlock # 0 /\ data[x].nNextBlock <= x /\ x \in Block
      BY <2>1, <2>2
    <3>2. data[x].nNextBlock \in x+1..tracker
      BY <3>1 DEF LinksForward
    <3>3. QED
      BY <3>1, <3>2 DEF Block
  <2>3. QED
    BY <2>2
<1>2. QED
  BY <1>0, <1>1 DEF Chain

\* Two chains whose first blocks no chain leads to have only their end in common.
LEMMA ChainsDiffer ==
  ASSUME FsInv, LinksForward, LinksDiffer, NEW a \in Block, NEW b \in Block, a # b,
         \A x \in Block : data[x].nNextBlock # a /\ data[x].nNextBlock # b
  PROVE  Chain(a) \cap Chain(b) = {0}
<1>0. /\ BLOCKS \in Nat /\ Block \subseteq Nat
      /\ \A x \in Block : data[x].nNextBlock \in Block
  <2>1. data \in [Block -> DiskBlock]
    BY DEF FsInv, DiskInv
  <2>2. QED
    BY <2>1, FileSystemAssumption DEF DiskBlock, Block
<1>1. 0 \in Chain(a) \cap Chain(b)
  BY ChainEnds
<1>2. Chain(a) \subseteq Block /\ Chain(b) \subseteq Block
  BY DEF Chain
<1>3. ASSUME (Chain(a) \cap Chain(b)) \ {0} # {} PROVE FALSE
  <2>1. PICK c \in (Chain(a) \cap Chain(b)) \ {0} :
          \A y \in (Chain(a) \cap Chain(b)) \ {0} : c <= y
    <3>1. (Chain(a) \cap Chain(b)) \ {0} \in SUBSET Nat
      BY <1>0, <1>2
    <3>2. QED
      BY <1>3, <3>1, Least
  <2>2. c # a => \E x \in Chain(a) \ {0} : data[x].nNextBlock = c
    BY <1>0, <2>1, ChainBefore
  <2>3. c # b => \E x \in Chain(b) \ {0} : data[x].nNextBlock = c
    BY <1>0, <2>1, ChainBefore
  <2>4. c # a /\ c # b
    BY <1>2, <2>2, <2>3
  <2>5. PICK x \in Chain(a) \ {0} : data[x].nNextBlock = c
    BY <2>2, <2>4
  <2>6. PICK y \in Chain(b) \ {0} : data[y].nNextBlock = c
    BY <2>3, <2>4
  <2>7. x \in Block /\ y \in Block /\ c # 0
    BY <1>2, <2>1
  <2>8. x = y
    BY <2>5, <2>6, <2>7 DEF LinksDiffer
  <2>9. x \in (Chain(a) \cap Chain(b)) \ {0}
    BY <2>8
  <2>10. c <= x
    BY <2>1, <2>9
  <2>11. c \in x+1..tracker
    BY <2>5, <2>7 DEF LinksForward
  <2>12. QED
    BY <1>0, <2>7, <2>10, <2>11
<1>4. QED
  BY <1>1, <1>3

\* The owners of blocks, one by one.
LEMMA OwnerKinds ==
  ASSUME FsInv, NEW o \in Owners
  PROVE  /\ o.d \in 1..Len(root) /\ root[o.d].nStartBlock \in Block
         /\ \/ o.kind = "dir" /\ o = [kind |-> "dir", d |-> o.d, f |-> 0]
            \/ /\ o.kind = "file" /\ o = [kind |-> "file", d |-> o.d, f |-> o.f]
               /\ o.f \in 1..Len(dir[root[o.d].nStartBlock])
<1>1. DOMAIN root = 1..Len(root) /\ root \in Seq(Directory)
  BY DEF FsInv, RootInv
<1>2. ASSUME NEW d \in 1..Len(root)
      PROVE  /\ root[d].nStartBlock \in Block
             /\ DOMAIN dir[root[d].nStartBlock] = 1..Len(dir[root[d].nStartBlock])
  <2>0. root[d] \in Directory
    BY <1>1, <1>2, ElementOfSeq
  <2>1. root[d].nStartBlock \in Block
    BY <2>0 DEF Directory
  <2>2. dir[root[d].nStartBlock] \in Listing
    BY <2>1 DEF FsInv, DiskInv
  <2>3. QED
    BY <2>1, <2>2 DEF Listing
<1>3. CASE o \in [kind : {"dir"}, d : DOMAIN root, f : {0}]
  BY <1>1, <1>2, <1>3
<1>4. CASE \E d \in DOMAIN root : o \in [kind : {"file"}, d : {d}, f : DOMAIN dir[root[d].nStartBlock]]
  BY <1>1, <1>2, <1>4
<1>5. QED
  BY <1>3, <1>4 DEF Owners

\* When links differ and lead forward, no block has two owners.
LEMMA NoSharedBlock ==
  ASSUME FsInv, LinksForward, LinksDiffer
  PROVE  BlocksDisjoint
<1>0. /\ BLOCKS \in Nat /\ tracker \in 0..BLOCKS-2 /\ 0 \in Block /\ Block \subseteq Nat
      /\ 0..tracker \subseteq Block
      /\ \A x \in Block : data[x].nNextBlock \in Block
  <2>1. data \in [Block -> DiskBlock] /\ tracker \in 0..BLOCKS-2 /\ BLOCKS \in Nat
    BY FileSystemAssumption DEF FsInv, DiskInv
  <2>2. QED
    BY <2>1, FileSystemAssumption DEF DiskBlock, Block
<1>1. ASSUME NEW o \in Owners
      PROVE  /\ root[o.d].nStartBlock \in Block \ {0} /\ root[o.d].nStartBlock \in 1..tracker
             /\ o.kind = "file" => dir[root[o.d].nStartBlock][o.f].nStartBlock \in 1..tracker
  BY <1>0, OwnerKinds DEF LinksForward
<1>2. ASSUME NEW o \in Owners PROVE Blocks(o) \subseteq 0..tracker /\ 0 \in Blocks(o)
  <2>1. CASE o.kind = "dir"
    BY <1>0, <1>1, <2>1 DEF Blocks
  <2>2. CASE o.kind = "file"
    <3> DEFINE b == dir[root[o.d].nStartBlock][o.f].nStartBlock
    <3>1. Blocks(o) = Chain(b) /\ b \in 0..tracker /\ b \in Block
      BY <1>0, <1>1, <2>2 DEF Blocks
    <3>2. \A x \in (0..tracker) \ {0} : data[x].nNextBlock \in 0..tracker
      BY <1>0 DEF LinksForward
    <3> HIDE DEF b
    <3>3. Chain(b) \subseteq 0..tracker
      BY <1>0, <3>1, <3>2, ChainWithin
    <3>4. QED
      BY <3>1, <3>3, ChainEnds
  <2>3. QED
    BY <2>1, <2>2, OwnerKinds
<1>3. ASSUME NEW o \in Owners, NEW p \in Owners, o.kind = "dir", p.kind = "file"
      PROVE  Blocks(o) \cap Blocks(p) = {0}
  <2> DEFINE b == root[o.d].nStartBlock
             c == dir[root[p.d].nStartBlock][p.f].nStartBlock
  <2>1. /\ o.d \in 1..Len(root) /\ root[p.d].nStartBlock \in Block
        /\ p.f \in 1..Len(dir[root[p.d].nStartBlock])
    BY <1>3, OwnerKinds
  <2>2. b # c /\ \A x \in Block : data[x].nNextBlock # b
    BY <2>1 DEF LinksDiffer
  <2>3. Blocks(o) = {b, 0} /\ Blocks(p) = Chain(c)
    BY <1>3 DEF Blocks
  <2>4. c \in Block
    BY <1>0, <1>1, <1>3
  <2> HIDE DEF b, c
  <2>5. b \notin Chain(c)
    BY <1>0, <2>2, <2>4, ChainBefore DEF Chain
  <2>6. QED
    BY <2>3, <2>4, <2>5, ChainEnds
<1>4. ASSUME NEW o \in Owners, NEW p \in Owners, o # p, o.kind = "dir", p.kind = "dir"
      PROVE  Blocks(o) \cap Blocks(p) = {0}
  <2>1. o.d # p.d /\ o.d \in 1..Len(root) /\ p.d \in 1..Len(root)
    BY <1>4, OwnerKinds
  <2>2. root[o.d].nStartBlock # root[p.d].nStartBlock
    BY <2>1 DEF LinksDiffer
  <2>3. QED
    BY <1>1, <1>4, <2>2 DEF Blocks
<1>5. ASSUME NEW o \in Owners, NEW p \in Owners, o # p, o.kind = "file", p.kind = "file"
      PROVE  Blocks(o) \cap Blocks(p) = {0}
  <2> DEFINE b == dir[root[o.d].nStartBlock][o.f].nStartBlock
             c == dir[root[p.d].nStartBlock][p.f].nStartBlock
  <2>1. /\ o.d # p.d \/ o.f # p.f
        /\ o.d \in 1..Len(root) /\ p.d \in 1..Len(root)
        /\ root[o.d].nStartBlock \in Block /\ root[p.d].nStartBlock \in Block
        /\ o.f \in 1..Len(dir[root[o.d].nStartBlock]) /\ p.f \in 1..Len(dir[root[p.d].nStartBlock])
    BY <1>5, OwnerKinds
  <2>2. o.d # p.d => root[o.d].nStartBlock # root[p.d].nStartBlock
    BY <2>1 DEF LinksDiffer
  <2>3. b # c
    <3>1. \A x, y \in Block : \A i \in 1..Len(dir[x]), j \in 1..Len(dir[y]) :
            dir[x][i].nStartBlock = dir[y][j].nStartBlock => x = y /\ i = j
      BY DEF LinksDiffer
    <3> DEFINE x == root[o.d].nStartBlock
               y == root[p.d].nStartBlock
    <3>2. x \in Block /\ y \in Block /\ o.f \in 1..Len(dir[x]) /\ p.f \in 1..Len(dir[y])
      BY <2>1
    <3>3. x # y \/ o.f # p.f
      BY <2>1, <2>2
    <3>4. b = dir[x][o.f].nStartBlock /\ c = dir[y][p.f].nStartBlock
      OBVIOUS
    <3> HIDE DEF b, c, x, y
    <3>5. QED
      BY <3>1, <3>2, <3>3, <3>4
  <2>4. \A x \in Block : data[x].nNextBlock # b /\ data[x].nNextBlock # c
    <3>1. \A y, x \in Block : \A i \in 1..Len(dir[y]) : dir[y][i].nStartBlock # data[x].nNextBlock
      BY DEF LinksDiffer
    <3>2. QED
      BY <2>1, <3>1
  <2>5. Blocks(o) = Chain(b) /\ Blocks(p) = Chain(c)
    BY <1>5 DEF Blocks
  <2>6. b \in Block /\ c \in Block
    BY <1>0, <1>1, <1>5
  <2> HIDE DEF b, c
  <2>7. QED
    BY <2>3, <2>4, <2>5, <2>6, ChainsDiffer
<1>6. ASSUME NEW o \in Owners, NEW p \in Owners, o # p PROVE Blocks(o) \cap Blocks(p) = {0}
  <2>1. o.kind \in {"dir", "file"} /\ p.kind \in {"dir", "file"}
    BY OwnerKinds
  <2>2. CASE o.kind = "file" /\ p.kind = "dir"
    BY <1>3, <2>2
  <2>3. QED
    BY <1>3, <1>4, <1>5, <1>6, <2>1, <2>2
<1>7. QED
  BY <1>2, <1>6 DEF BlocksDisjoint

\* A block that no link leads to has no owner.
LEMMA UnusedIsFree ==
  ASSUME FsInv, LinksForward, NEW n \in Block, n # 0, ~Linked(n), NEW o \in Owners
  PROVE  n \notin Blocks(o)
<1>0. \A x \in Block : data[x].nNextBlock \in Block
  <2>1. data \in [Block -> DiskBlock]
    BY DEF FsInv, DiskInv
  <2>2. QED
    BY <2>1 DEF DiskBlock
<1>1. CASE o.kind = "dir"
  BY <1>1, OwnerKinds DEF Blocks, Linked
<1>2. CASE o.kind = "file"
  <2> DEFINE b == dir[root[o.d].nStartBlock][o.f].nStartBlock
  <2>1. root[o.d].nStartBlock \in Block /\ o.f \in 1..Len(dir[root[o.d].nStartBlock])
    BY <1>2, OwnerKinds
  <2>2. Blocks(o) = Chain(b) /\ n # b
    BY <1>2, <2>1 DEF Blocks, Linked
  <2>3. b \in Block
    <3>1. dir[root[o.d].nStartBlock] \in Seq(Entry)
      BY <2>1 DEF FsInv, DiskInv, Listing
    <3>2. dir[root[o.d].nStartBlock][o.f] \in Entry
      BY <2>1, <3>1, ElementOfSeq
    <3>3. QED
      BY <3>2 DEF Entry
  <2>4. \A x \in Block : data[x].nNextBlock # n
    BY DEF Linked
  <2> HIDE DEF b
  <2>5. QED
    BY <1>0, <2>2, <2>3, <2>4, ChainBefore DEF Chain
<1>3. QED
  BY <1>1, <1>2, OwnerKinds
-----------------------------------------------------------------------------
\* What the links need of the types.
LEMMA LinkTypes ==
  ASSUME FsInv
  PROVE  /\ BLOCKS \in Nat /\ tracker \in Nat /\ tracker \in Block /\ Block \subseteq Nat
         /\ 0..tracker \subseteq Block
         /\ Len(root) \in Nat /\ \A b \in Block : Len(dir[b]) \in Nat
         /\ \A b \in Block : data[b].nNextBlock \in Block
<1>1. /\ root \in Seq(Directory) /\ dir \in [Block -> Listing]
      /\ data \in [Block -> DiskBlock] /\ tracker \in 0..BLOCKS-2
  BY DEF FsInv, RootInv, DiskInv
<1>2. \A e \in Listing : Len(e) \in Nat
  BY DEF Listing
<1>3. \A b \in Block : data[b].nNextBlock \in Block
  BY <1>1 DEF DiskBlock
<1>4. /\ BLOCKS \in Nat /\ tracker \in Nat /\ tracker \in Block /\ Block \subseteq Nat
      /\ 0..tracker \subseteq Block
  BY <1>1, FileSystemAssumption DEF Block
<1>5. QED
  BY <1>1, <1>2, <1>3, <1>4

\* A step that makes no link: directory blocks keep their files or the first of
\* them, and the tracker may go on.
LEMMA NoLink ==
  ASSUME FsInv, FsInv', LinksForward, LinksDiffer, root' = root, tracker <= tracker',
         \A b \in Block : CopyOf(dir'[b], b),
         \A b \in Block : data'[b].nNextBlock = data[b].nNextBlock
  PROVE  /\ LinksForward' /\ LinksDiffer'
         /\ \A n : Linked(n)' => Linked(n)
<1>1. /\ tracker \in Nat /\ tracker' \in Nat /\ Block \subseteq Nat
      /\ \A b \in Block : Len(dir[b]) \in Nat /\ Len(dir'[b]) \in Nat
      /\ \A b \in Block : data[b].nNextBlock \in Nat
  <2>1. FsInv' => (tracker \in Nat)' /\ (\A b \in Block : Len(dir[b]) \in Nat)'
    BY LinkTypes, PTL
  <2>2. QED
    BY <2>1, LinkTypes
<1>2. \A b \in Block : \A i \in 1..Len(dir'[b]) :
        i \in 1..Len(dir[b]) /\ dir'[b][i].nStartBlock = dir[b][i].nStartBlock
  BY <1>1 DEF CopyOf
<1>3. LinksForward'
  <2>1. \A i \in 1..Len(root') : root'[i].nStartBlock \in 1..tracker'
    BY <1>1 DEF LinksForward
  <2>2. ASSUME NEW b \in Block, NEW i \in 1..Len(dir'[b]) PROVE dir'[b][i].nStartBlock \in 1..tracker'
    <3>1. i \in 1..Len(dir[b]) /\ dir'[b][i].nStartBlock = dir[b][i].nStartBlock
      BY <1>2
    <3>2. dir[b][i].nStartBlock \in 1..tracker
      BY <3>1 DEF LinksForward
    <3>3. QED
      BY <1>1, <3>1, <3>2
  <2>3. \A b \in Block : data'[b].nNextBlock # 0 => data'[b].nNextBlock \in b+1..tracker'
    BY <1>1 DEF LinksForward
  <2>4. QED
    BY <2>1, <2>2, <2>3 DEF LinksForward
<1>4. LinksDiffer'
  <2>1. \A i, j \in 1..Len(root') : root'[i].nStartBlock = root'[j].nStartBlock => i = j
    BY DEF LinksDiffer
  <2>2. \A b, c \in Block : \A i \in 1..Len(dir'[b]), j \in 1..Len(dir'[c]) :
          dir'[b][i].nStartBlock = dir'[c][j].nStartBlock => b = c /\ i = j
    BY <1>2 DEF LinksDiffer
  <2>3. \A b, c \in Block : data'[b].nNextBlock = data'[c].nNextBlock
                              => b = c \/ data'[b].nNextBlock = 0
    BY DEF LinksDiffer
  <2>4. \A i \in 1..Len(root'), b \in Block : \A j \in 1..Len(dir'[b]) :
          root'[i].nStartBlock # dir'[b][j].nStartBlock
    BY <1>2 DEF LinksDiffer
  <2>5. \A i \in 1..Len(root'), b \in Block : root'[i].nStartBlock # data'[b].nNextBlock
    BY DEF LinksDiffer
  <2>6. \A b, c \in Block : \A i \in 1..Len(dir'[b]) : dir'[b][i].nStartBlock # data'[c].nNextBlock
    BY <1>2 DEF LinksDiffer
  <2>7. QED
    BY <2>1, <2>2, <2>3, <2>4, <2>5, <2>6 DEF LinksDiffer
<1>5. ASSUME NEW n, Linked(n)' PROVE Linked(n)
  BY <1>2, <1>5 DEF Linked
<1>6. QED
  BY <1>3, <1>4, <1>5

\* csc452_mkdir links the block that next_free_block handed out.
LEMMA LinkToDir ==
  ASSUME FsInv, LinksForward, LinksDiffer, UNCHANGED <<dir, data, tracker>>,
         tracker # 0, ~Linked(tracker),
         Len(root') = Len(root) + 1, \A i \in 1..Len(root) : root'[i] = root[i],
         root'[Len(root) + 1].nStartBlock = tracker
  PROVE  LinksForward' /\ LinksDiffer'
<1>1. tracker \in 1..tracker /\ Len(root) \in Nat
  BY LinkTypes
<1>2. \A i \in 1..Len(root') : i \in 1..Len(root) \/ i = Len(root) + 1
  BY <1>1
<1>3. /\ \A i \in 1..Len(root) : root[i].nStartBlock # tracker
      /\ \A b \in Block : \A i \in 1..Len(dir[b]) : dir[b][i].nStartBlock # tracker
      /\ \A b \in Block : data[b].nNextBlock # tracker
  BY DEF Linked
<1>4. LinksForward'
  <2>1. \A i \in 1..Len(root') : root'[i].nStartBlock \in 1..tracker
    BY <1>1, <1>2 DEF LinksForward
  <2>2. QED
    BY <2>1 DEF LinksForward
<1>5. LinksDiffer'
  <2>1. \A i, j \in 1..Len(root') : root'[i].nStartBlock = root'[j].nStartBlock => i = j
    BY <1>2, <1>3 DEF LinksDiffer
  <2>2. \A i \in 1..Len(root'), b \in Block : \A j \in 1..Len(dir[b]) :
          root'[i].nStartBlock # dir[b][j].nStartBlock
    BY <1>2, <1>3 DEF LinksDiffer
  <2>3. \A i \in 1..Len(root'), b \in Block : root'[i].nStartBlock # data[b].nNextBlock
    BY <1>2, <1>3 DEF LinksDiffer
  <2>4. QED
    BY <2>1, <2>2, <2>3 DEF LinksDiffer
<1>6. QED
  BY <1>4, <1>5

\* csc452_mknod links the block that next_free_block handed out.
LEMMA LinkToFile ==
  ASSUME FsInv, LinksForward, LinksDiffer, UNCHANGED <<root, data, tracker>>,
         tracker # 0, ~Linked(tracker), NEW B \in Block,
         \A b \in Block \ {B} : dir'[b] = dir[b],
         Len(dir'[B]) = Len(dir[B]) + 1,
         \A i \in 1..Len(dir[B]) : dir'[B][i].nStartBlock = dir[B][i].nStartBlock,
         dir'[B][Len(dir[B]) + 1].nStartBlock = tracker
  PROVE  LinksForward' /\ LinksDiffer'
<1>1. tracker \in 1..tracker /\ \A b \in Block : Len(dir[b]) \in Nat
  BY LinkTypes
<1>2. \A b \in Block : \A i \in 1..Len(dir'[b]) :
        \/ i \in 1..Len(dir[b]) /\ dir'[b][i].nStartBlock = dir[b][i].nStartBlock
        \/ b = B /\ i = Len(dir[B]) + 1 /\ dir'[b][i].nStartBlock = tracker
  BY <1>1
<1>3. /\ \A i \in 1..Len(root) : root[i].nStartBlock # tracker
      /\ \A b \in Block : \A i \in 1..Len(dir[b]) : dir[b][i].nStartBlock # tracker
      /\ \A b \in Block : data[b].nNextBlock # tracker
  BY DEF Linked
<1>4. LinksForward'
  <2>1. \A b \in Block : \A i \in 1..Len(dir'[b]) : dir'[b][i].nStartBlock \in 1..tracker
    BY <1>1, <1>2 DEF LinksForward
  <2>2. QED
    BY <2>1 DEF LinksForward
<1>5. LinksDiffer'
  <2>1. ASSUME NEW b \in Block, NEW c \in Block, NEW i \in 1..Len(dir'[b]), NEW j \in 1..Len(dir'[c]),
               dir'[b][i].nStartBlock = dir'[c][j].nStartBlock
        PROVE  b = c /\ i = j
    <3>1. \/ i \in 1..Len(dir[b]) /\ dir'[b][i].nStartBlock = dir[b][i].nStartBlock
          \/ b = B /\ i = Len(dir[B]) + 1 /\ dir'[b][i].nStartBlock = tracker
      BY <1>2
    <3>2. \/ j \in 1..Len(dir[c]) /\ dir'[c][j].nStartBlock = dir[c][j].nStartBlock
          \/ c = B /\ j = Len(dir[B]) + 1 /\ dir'[c][j].nStartBlock = tracker
      BY <1>2
    <3>3. CASE i \in 1..Len(dir[b]) /\ j \in 1..Len(dir[c])
      <4>1. \A x, y \in Block : \A k \in 1..Len(dir[x]), l \in 1..Len(dir[y]) :
              dir[x][k].nStartBlock = dir[y][l].nStartBlock => x = y /\ k = l
        BY DEF LinksDiffer
      <4>2. dir[b][i].nStartBlock = dir[c][j].nStartBlock
        BY <1>1, <2>1, <3>1, <3>2, <3>3
      <4>3. QED
        BY <3>3, <4>1, <4>2
    <3>4. QED
      BY <1>3, <2>1, <3>1, <3>2, <3>3
  <2>2. \A i \in 1..Len(root), b \in Block : \A j \in 1..Len(dir'[b]) :
          root[i].nStartBlock # dir'[b][j].nStartBlock
    BY <1>2, <1>3 DEF LinksDiffer
  <2>3. \A b, c \in Block : \A i \in 1..Len(dir'[b]) : dir'[b][i].nStartBlock # data[c].nNextBlock
    BY <1>2, <1>3 DEF LinksDiffer
  <2>4. QED
    BY <2>1, <2>2, <2>3 DEF LinksDiffer
<1>6. QED
  BY <1>4, <1>5

\* csc452_write links the block that next_free_block handed out behind block a.
LEMMA LinkToPiece ==
  ASSUME FsInv, LinksForward, LinksDiffer, UNCHANGED <<root, dir, tracker>>,
         tracker # 0, ~Linked(tracker), NEW a \in Block, a < tracker,
         \A b \in Block \ {a} : data'[b].nNextBlock = data[b].nNextBlock,
         data'[a].nNextBlock = tracker
  PROVE  LinksForward' /\ LinksDiffer'
<1>1. tracker \in a+1..tracker
  BY LinkTypes
<1>2. \A b \in Block : \/ data'[b].nNextBlock = data[b].nNextBlock
                       \/ b = a /\ data'[b].nNextBlock = tracker
  OBVIOUS
<1>3. /\ \A i \in 1..Len(root) : root[i].nStartBlock # tracker
      /\ \A b \in Block : \A i \in 1..Len(dir[b]) : dir[b][i].nStartBlock # tracker
      /\ \A b \in Block : data[b].nNextBlock # tracker
  BY DEF Linked
<1>4. LinksForward'
  <2>1. \A b \in Block : data'[b].nNextBlock # 0 => data'[b].nNextBlock \in b+1..tracker
    BY <1>1, <1>2 DEF LinksForward
  <2>2. QED
    BY <2>1 DEF LinksForward
<1>5. LinksDiffer'
  <2>1. \A b, c \in Block : data'[b].nNextBlock = data'[c].nNextBlock
                              => b = c \/ data'[b].nNextBlock = 0
    BY <1>2, <1>3 DEF LinksDiffer
  <2>2. \A i \in 1..Len(root), b \in Block : root[i].nStartBlock # data'[b].nNextBlock
    BY <1>2, <1>3 DEF LinksDiffer
  <2>3. \A b, c \in Block : \A i \in 1..Len(dir[b]) : dir[b][i].nStartBlock # data'[c].nNextBlock
    BY <1>2, <1>3 DEF LinksDiffer
  <2>4. QED
    BY <2>1, <2>2, <2>3 DEF LinksDiffer
<1>6. QED
  BY <1>4, <1>5
\* The directory of a name depends on the root only.
LEMMA SameDir ==
  ASSUME root' = root, NEW d
  PROVE  dir_exists(d)' = dir_exists(d) /\ DirBlock(d)' = DirBlock(d)
<1>1. dir_exists(d)' = dir_exists(d)
  BY DEF dir_exists
<1>2. QED
  BY <1>1 DEF DirBlock

\* At rest a thread holds nothing.
LEMMA RestKeeps ==
  ASSUME NEW t \in Thread, th'[t] = Idle
  PROVE  ThreadInv(t)'
BY DEF ThreadInv, Idle

\* What a thread holds when it goes on with local variables r.
LEMMA GoesOn ==
  ASSUME root' = root, NEW t \in Thread, NEW r, th'[t] = r,
         r.pc = "put_tracker" => r.next_free = tracker' + 1,
         r.pc = "link" => Unused(t)',
         r.op # "mkdir" =>
           /\ dir_exists(r.dir) # 0
           /\ Len(r.entry) \in Nat /\ Len(r.entry) = Len(dir'[DirBlock(r.dir)])
           /\ \A i \in 1..Len(r.entry) :
                r.entry[i].nStartBlock = dir'[DirBlock(r.dir)][i].nStartBlock,
         r.op = "write" => BlockInv(t)'
  PROVE  ThreadInv(t)'
<1>1. dir_exists(r.dir)' = dir_exists(r.dir) /\ DirBlock(r.dir)' = DirBlock(r.dir)
  BY SameDir
<1>2. ASSUME r.op # "mkdir"
      PROVE  /\ dir_exists(th[t].dir)' # 0
             /\ CopyOf(th[t].entry, DirBlock(th[t].dir))'
             /\ Len(th'[t].entry) = Len(dir'[DirBlock(th[t].dir)'])
  <2>1. dir_exists(th[t].dir)' = dir_exists(r.dir) /\ DirBlock(th[t].dir)' = DirBlock(r.dir)
    BY <1>1 DEF dir_exists, DirBlock
  <2>2. Len(r.entry) <= Len(dir'[DirBlock(r.dir)])
    BY <1>2
  <2>3. QED
    BY <1>2, <2>1, <2>2 DEF CopyOf
<1>3. QED
  BY <1>2 DEF ThreadInv

\* A step of the only thread that makes no link.
LEMMA Calm ==
  ASSUME OneThread, FsInv, FsInv', OwnInv, NEW t \in Thread,
         root' = root, tracker <= tracker',
         \A b \in Block : data'[b].nNextBlock = data[b].nNextBlock,
         \A b \in Block : /\ Len(dir'[b]) = Len(dir[b])
                          /\ \A i \in 1..Len(dir[b]) : dir'[b][i].nStartBlock = dir[b][i].nStartBlock,
         \A w \in leaked' : w \in leaked \/ (w.block \in Block /\ CopyOf(w.entry, w.block))
  PROVE  /\ LinksForward' /\ LinksDiffer'
         /\ \A n : Linked(n)' => Linked(n)
         /\ ThreadInv(t)' => OwnInv'
<1>1. \A b \in Block : CopyOf(dir'[b], b)
  <2>1. \A b \in Block : Len(dir[b]) \in Nat
    BY LinkTypes
  <2>2. QED
    BY <2>1 DEF CopyOf
<1>2. LinksForward' /\ LinksDiffer' /\ \A n : Linked(n)' => Linked(n)
  BY <1>1, NoLink DEF OwnInv
<1>3. ASSUME NEW w \in leaked' PROVE w.block \in Block /\ CopyOf(w.entry, w.block)'
  <2>1. w.block \in Block /\ CopyOf(w.entry, w.block)
    BY <1>3 DEF OwnInv
  <2>2. Len(dir[w.block]) \in Nat /\ w.entry \in Listing
    BY <1>3, <2>1, LinkTypes DEF FsInv, DiskInv
  <2>3. Len(w.entry) \in Nat
    BY <2>2 DEF Listing
  <2>4. \A i \in 1..Len(w.entry) : i \in 1..Len(dir[w.block])
    BY <2>1, <2>2, <2>3 DEF CopyOf
  <2>5. QED
    BY <2>1, <2>4 DEF CopyOf
<1>4. \A u \in Thread : u = t
  BY DEF OneThread
<1>5. QED
  BY <1>2, <1>3, <1>4 DEF OwnInv
\* A step of the only thread that changes nothing but its local variables.
LEMMA Quiet ==
  ASSUME OneThread, FsInv, FsInv', OwnInv, NEW t \in Thread,
         UNCHANGED <<root, dir, data, tracker, leaked>>
  PROVE  /\ ThreadInv(t)' => OwnInv'
         /\ \A n : Linked(n)' => Linked(n)
<1>1. root' = root /\ tracker <= tracker'
  BY LinkTypes
<1>2. \A b \in Block : data'[b].nNextBlock = data[b].nNextBlock
  OBVIOUS
<1>3. \A b \in Block : /\ Len(dir'[b]) = Len(dir[b])
                       /\ \A i \in 1..Len(dir[b]) : dir'[b][i].nStartBlock = dir[b][i].nStartBlock
  OBVIOUS
<1>4. \A w \in leaked' : w \in leaked \/ (w.block \in Block /\ CopyOf(w.entry, w.block))
  <2>1. leaked' = leaked
    OBVIOUS
  <2>2. QED
    BY <2>1
<1>5. QED
  BY <1>1, <1>2, <1>3, <1>4, Calm

\* csc452_mkdir and csc452_mknod begin: the copy is as the block.
LEMMA StartOwns ==
  ASSUME OneThread, FsInv, FsInv', OwnInv, NEW t \in Thread, NEW d \in Dir
  PROVE  /\ Mkdir(t, d) => OwnInv'
         /\ \A f \in File : Mknod(t, d, f) => OwnInv'
<1>0. th \in [Thread -> Op] /\ \A b \in Block : Len(dir[b]) \in Nat
  BY LinkTypes DEF FsInv
<1>1. ASSUME Mkdir(t, d) PROVE OwnInv'
  <2>1. /\ UNCHANGED <<root, dir, data, tracker, leaked>>
        /\ th'[t] = [pc |-> "get_tracker", op |-> "mkdir", dir |-> d,
                     file |-> d, entry |-> <<>>, next_free |-> 0]
    BY <1>0, <1>1, LinkTypes DEF Mkdir, diskVars
  <2>2. ThreadInv(t)'
    BY <2>1 DEF ThreadInv
  <2>3. QED
    BY <2>1, <2>2, Quiet
<1>2. ASSUME NEW f \in File, Mknod(t, d, f) PROVE OwnInv'
  <2> DEFINE r == [pc |-> "get_tracker", op |-> "mknod", dir |-> d,
                   file |-> f, entry |-> get_dir(d), next_free |-> 0]
  <2>1. /\ UNCHANGED <<root, dir, data, tracker, leaked>>
        /\ th'[t] = r /\ dir_exists(d) # 0
    BY <1>0, <1>2, LinkTypes DEF Mknod, diskVars
  <2>2. get_dir(d) = dir[DirBlock(d)] /\ DirBlock(d) \in Block
    BY <2>1, GetDir
  <2>3. r.pc = "get_tracker" /\ r.op = "mknod" /\ r.dir = d /\ r.entry = dir[DirBlock(d)]
    BY <2>2
  <2>4. Len(r.entry) \in Nat
    BY <1>0, <2>2, <2>3
  <2> HIDE DEF r
  <2>5. ThreadInv(t)'
    BY <2>1, <2>3, <2>4, GoesOn
  <2>6. QED
    BY <2>1, <2>5, Quiet
<1>3. QED
  BY <1>1, <1>2

\* csc452_write begins: its copy differs from the block in a size only, and the
\* first block of the file is in memory as it is on the disk.
LEMMA WriteBeginOwns ==
  ASSUME OneThread, FsInv, FsInv', OwnInv, NEW t \in Thread, NEW d \in Dir, NEW f \in File,
         NEW b \in Byte, NEW offset \in 0..MaxSize, NEW size \in 1..(MaxSize - offset),
         WriteBegin(t, d, f, offset, size, b)
  PROVE  OwnInv'
<1> DEFINE e == get_dir(d)
           i == Find(e, f)
           start == e[i].nStartBlock
           r == [pc |-> "walk", op |-> "write", dir |-> d, file |-> f, next_free |-> 0,
                 entry |-> [e EXCEPT ![i].fsize = offset + size],
                 unsaved |-> offset + size # e[i].fsize,
                 address |-> start, block |-> data[start],
                 offset |-> offset, size |-> size, begin_index |-> offset,
                 left |-> size, byte |-> b]
<1>0. /\ MaxSize \in Nat /\ th \in [Thread -> Op] /\ tracker \in Nat
      /\ \A c \in Block : Len(dir[c]) \in Nat
  BY FileSystemAssumption, LinkTypes DEF FsInv
<1>1. /\ i # 0 /\ th'[t] = r /\ UNCHANGED <<root, dir, data, tracker, leaked>>
  BY <1>0 DEF WriteBegin, diskVars
<1>2. e \in Listing /\ i \in 1..Len(e)
  BY <1>1, GetDir, Found
<1>3. dir_exists(d) # 0
  <2>1. dir_exists(d) = 0 => Len(e) = 0
    BY DEF get_dir
  <2>2. QED
    BY <1>2, <2>1
<1>4. e = dir[DirBlock(d)] /\ DirBlock(d) \in Block
  BY <1>3, GetDir
<1>5. start \in 0..tracker
  <2>1. dir[DirBlock(d)][i].nStartBlock \in 1..tracker
    BY <1>2, <1>4 DEF OwnInv, LinksForward
  <2>2. QED
    BY <1>0, <1>4, <2>1
<1>6. offset + size \in 0..MaxSize
  BY <1>0
<1>7. /\ r.pc = "walk" /\ r.op = "write" /\ r.dir = d /\ r.next_free = 0
      /\ r.entry = [e EXCEPT ![i].fsize = offset + size]
      /\ r.address = start /\ r.block = data[start]
  OBVIOUS
<1>8. /\ Len(r.entry) = Len(e)
      /\ \A j \in 1..Len(e) : r.entry[j].nStartBlock = e[j].nStartBlock
  <2> HIDE DEF e, i, r
  <2>1. QED
    BY <1>2, <1>6, <1>7, Resized
<1> HIDE DEF e, i, start, r
<1>9. BlockInv(t)'
  BY <1>1, <1>5, <1>7 DEF BlockInv
<1>10. ThreadInv(t)'
  BY <1>0, <1>1, <1>3, <1>4, <1>7, <1>8, <1>9, GoesOn
<1>11. QED
  BY <1>1, <1>10, Quiet
\* What an operation holds of its directory and of its file's blocks.
LEMMA Held ==
  ASSUME FsInv, OwnInv, NEW t \in Thread, th[t] \in MknodOp \cup WriteOp
  PROVE  /\ dir_exists(th[t].dir) # 0 /\ DirBlock(th[t].dir) \in Block
         /\ Len(th[t].entry) \in Nat /\ Len(th[t].entry) = Len(dir[DirBlock(th[t].dir)])
         /\ \A i \in 1..Len(th[t].entry) :
              th[t].entry[i].nStartBlock = dir[DirBlock(th[t].dir)][i].nStartBlock
         /\ CopyOf(th[t].entry, DirBlock(th[t].dir))
         /\ th[t] \in WriteOp => BlockInv(t)
<1>1. th[t] # Idle /\ th[t].op # "mkdir" /\ (th[t] \in WriteOp => th[t].op = "write")
  BY Kinds
<1>2. th[t].entry \in Listing
  BY DEF MknodOp, WriteOp
<1>3. Len(th[t].entry) \in Nat
  BY <1>2 DEF Listing
<1>4. /\ dir_exists(th[t].dir) # 0 /\ CopyOf(th[t].entry, DirBlock(th[t].dir))
      /\ Len(th[t].entry) = Len(dir[DirBlock(th[t].dir)])
      /\ th[t] \in WriteOp => BlockInv(t)
  BY <1>1 DEF OwnInv, ThreadInv
<1>5. QED
  BY <1>3, <1>4, GetDir DEF CopyOf

\* An operation goes on with the copy it has.
LEMMA Carries ==
  ASSUME FsInv, OwnInv, root' = root,
         \A b \in Block : /\ Len(dir'[b]) = Len(dir[b])
                          /\ \A i \in 1..Len(dir[b]) : dir'[b][i].nStartBlock = dir[b][i].nStartBlock,
         NEW t \in Thread, NEW r, th'[t] = r, th[t] \in MkdirOp \cup MknodOp \cup WriteOp,
         r.op = th[t].op, r.dir = th[t].dir, r.entry = th[t].entry,
         r.pc = "put_tracker" => r.next_free = tracker' + 1,
         r.pc = "link" => Unused(t)',
         r.op = "write" => BlockInv(t)'
  PROVE  ThreadInv(t)'
<1>1. ASSUME r.op # "mkdir"
      PROVE  /\ dir_exists(r.dir) # 0
             /\ Len(r.entry) \in Nat /\ Len(r.entry) = Len(dir'[DirBlock(r.dir)])
             /\ \A i \in 1..Len(r.entry) :
                  r.entry[i].nStartBlock = dir'[DirBlock(r.dir)][i].nStartBlock
  <2>1. th[t] \in MknodOp \cup WriteOp
    BY <1>1, Kinds
  <2>2. QED
    BY <2>1, Held
<1>2. QED
  BY <1>1, GoesOn

\* next_free_block() gives a number that is in no link.
LEMMA TrackerOwns ==
  ASSUME OneThread, FsInv, FsInv', OwnInv, NEW t \in Thread,
         GetTracker(t) \/ PutTracker(t) \/ CreateFails(t)
  PROVE  OwnInv'
<1>0. /\ th \in [Thread -> Op] /\ tracker \in Nat
      /\ \A b \in Block : data[b].nNextBlock \in Nat
  BY LinkTypes DEF FsInv
<1>1. th[t] \in MkdirOp \cup MknodOp \cup WriteOp
  BY KindOf DEF GetTracker, PutTracker, CreateFails
<1>2. CASE GetTracker(t)
  <2> DEFINE r == [[th[t] EXCEPT !.next_free = tracker + 1] EXCEPT !.pc = "put_tracker"]
  <2>1. /\ th'[t] = r /\ th[t].pc = "get_tracker"
        /\ UNCHANGED <<root, dir, data, tracker, leaked>>
    BY <1>0, <1>2 DEF GetTracker, Goto, diskVars
  <2>2. /\ r.pc = "put_tracker" /\ r.next_free = tracker + 1
        /\ r.op = th[t].op /\ r.dir = th[t].dir /\ r.entry = th[t].entry
        /\ th[t] \in WriteOp => r.address = th[t].address /\ r.block = th[t].block
    BY <1>1 DEF MkdirOp, MknodOp, WriteOp
  <2> HIDE DEF r
  <2>3. ASSUME r.op = "write" PROVE BlockInv(t)'
    <3>1. th[t] \in WriteOp
      BY <1>1, <2>2, <2>3, Kinds
    <3>2. /\ th[t].address \in 0..tracker
          /\ th[t].block.nNextBlock = data[th[t].address].nNextBlock
          /\ th[t].block.nNextBlock = 0
      BY <2>1, <3>1, Held DEF BlockInv
    <3>3. QED
      BY <2>1, <2>2, <3>1, <3>2 DEF BlockInv
  <2>4. ThreadInv(t)'
    <3>1. /\ r.pc = "put_tracker" => r.next_free = tracker' + 1
          /\ r.pc = "link" => Unused(t)'
      BY <2>1, <2>2
    <3>2. QED
      BY <1>1, <2>1, <2>2, <2>3, <3>1, Carries
  <2>5. QED
    BY <2>1, <2>4, Quiet
<1>3. CASE PutTracker(t)
  <2>1. /\ th[t].pc = "put_tracker" /\ tracker' = th[t].next_free
        /\ UNCHANGED <<root, dir, data, leaked>>
        /\ IF th[t].op = "write"
             THEN Goto(t, ToSave(t), [th[t] EXCEPT !.block.nNextBlock = th[t].next_free])
             ELSE Goto(t, "link", th[t])
    BY <1>3 DEF PutTracker
  <2>2. tracker' = tracker + 1 /\ th[t].next_free = tracker + 1
    BY <2>1 DEF OwnInv, ThreadInv
  <2>3. ~Linked(tracker + 1)
    BY <1>0 DEF OwnInv, LinksForward, Linked
  <2>4. /\ \A b \in Block : data'[b].nNextBlock = data[b].nNextBlock
        /\ \A b \in Block : /\ Len(dir'[b]) = Len(dir[b])
                            /\ \A i \in 1..Len(dir[b]) : dir'[b][i].nStartBlock = dir[b][i].nStartBlock
        /\ \A w \in leaked' : w \in leaked \/ (w.block \in Block /\ CopyOf(w.entry, w.block))
        /\ root' = root /\ tracker <= tracker'
    BY <1>0, <2>1, <2>2
  <2>5. /\ \A n : Linked(n)' => Linked(n)
        /\ ThreadInv(t)' => OwnInv'
    BY <2>4, Calm
  <2>6. ASSUME th'[t].next_free = tracker + 1 PROVE Unused(t)'
    <3>1. ~Linked(tracker)'
      BY <2>1, <2>2, <2>3 DEF Linked
    <3>2. QED
      BY <1>0, <2>2, <2>6, <3>1 DEF Unused
  <2>7. CASE th[t] \in WriteOp
    <3> DEFINE b == [th[t].block EXCEPT !.nNextBlock = th[t].next_free]
               r == [[th[t] EXCEPT !.block = b] EXCEPT !.pc = ToSave(t)]
    <3>1. th'[t] = r
      BY <1>0, <2>1, <2>7, Kinds DEF Goto
    <3>2. ToSave(t) \in {"seek", "save"}
      BY DEF ToSave
    <3>3. b.nNextBlock = tracker + 1
      BY <2>2, <2>7 DEF WriteOp, DiskBlock
    <3> HIDE DEF b
    <3>4. /\ r.pc \in {"seek", "save"} /\ r.next_free = tracker + 1
          /\ r.op = th[t].op /\ r.dir = th[t].dir /\ r.entry = th[t].entry
          /\ r.address = th[t].address /\ r.block = b
      BY <2>2, <2>7, <3>2 DEF WriteOp
    <3> HIDE DEF r
    <3>5. /\ th[t].address \in 0..tracker
          /\ data[th[t].address].nNextBlock = 0
      BY <2>1, <2>7, Held DEF BlockInv
    <3>6. BlockInv(t)'
      <4>1. Unused(t)'
        BY <2>6, <3>1, <3>4
      <4>2. th'[t].address \in 0..tracker' /\ th'[t].address < tracker'
        BY <1>0, <2>2, <3>1, <3>4, <3>5
      <4>3. th'[t].block.nNextBlock = tracker' /\ data'[th'[t].address].nNextBlock = 0
        BY <2>1, <2>2, <3>1, <3>3, <3>4, <3>5
      <4>4. QED
        BY <3>1, <3>4, <4>1, <4>2, <4>3 DEF BlockInv
    <3>7. ThreadInv(t)'
      <4>1. r.pc # "put_tracker" /\ r.pc # "link"
        BY <3>4
      <4>2. QED
        BY <1>1, <2>4, <3>1, <3>4, <3>6, <4>1, Carries
    <3>8. QED
      BY <2>5, <3>7
  <2>8. CASE th[t] \in MkdirOp \cup MknodOp
    <3> DEFINE r == [th[t] EXCEPT !.pc = "link"]
    <3>1. th'[t] = r
      BY <1>0, <2>1, <2>8, Kinds DEF Goto
    <3>2. /\ r.pc = "link" /\ r.next_free = tracker + 1
          /\ r.op = th[t].op /\ r.dir = th[t].dir /\ r.entry = th[t].entry
      BY <2>2, <2>8 DEF MkdirOp, MknodOp
    <3> HIDE DEF r
    <3>3. Unused(t)' /\ r.op # "write" /\ r.pc # "put_tracker"
      BY <2>6, <2>8, <3>1, <3>2, Kinds
    <3>4. ThreadInv(t)'
      BY <1>1, <2>4, <3>1, <3>2, <3>3, Carries
    <3>5. QED
      BY <2>5, <3>4
  <2>9. QED
    BY <1>1, <2>7, <2>8
<1>4. CASE CreateFails(t)
  <2>1. th'[t] = Idle /\ UNCHANGED <<root, dir, data, tracker, leaked>>
    BY <1>0, <1>4 DEF CreateFails, Return, diskVars
  <2>2. QED
    BY <2>1, RestKeeps, Quiet
<1>5. QED
  BY <1>2, <1>3, <1>4
\* A new directory or file gets the block that no link leads to.
LEMMA LinkOwns ==
  ASSUME OneThread, FsInv, FsInv', OwnInv, NEW t \in Thread, LinkDir(t) \/ LinkFile(t)
  PROVE  OwnInv'
<1>0. /\ th \in [Thread -> Op] /\ root \in Seq(Directory) /\ tracker \in Nat
      /\ \A b \in Block : Len(dir[b]) \in Nat
      /\ LinksForward /\ LinksDiffer
  BY LinkTypes DEF FsInv, RootInv, OwnInv
<1>1. th'[t] = Idle /\ th[t].next_free = tracker /\ tracker # 0 /\ ~Linked(tracker)
  BY <1>0 DEF LinkDir, LinkFile, Return, OwnInv, ThreadInv, Unused
<1>2. \A u \in Thread : ThreadInv(u)'
  BY <1>1, RestKeeps DEF OneThread
<1>3. CASE LinkDir(t)
  <2> DEFINE x == [dname |-> th[t].dir, nStartBlock |-> th[t].next_free]
  <2>1. root' = Append(root, x) /\ UNCHANGED <<dir, data, tracker, leaked>>
    BY <1>3 DEF LinkDir
  <2>2. x \in Directory /\ x.nStartBlock = tracker
    <3>1. th[t] \in MkdirOp
      BY <1>3, KindOf, Kinds DEF LinkDir
    <3>2. th[t].dir \in Dir
      BY <3>1 DEF MkdirOp
    <3>3. tracker \in Block
      BY LinkTypes
    <3>4. QED
      BY <1>1, <3>2, <3>3 DEF Directory
  <2> HIDE DEF x
  <2>3. /\ Len(root') = Len(root) + 1 /\ \A i \in 1..Len(root) : root'[i] = root[i]
        /\ root'[Len(root) + 1] = x
    BY <1>0, <2>1, <2>2, AppendProperties
  <2>4. LinksForward' /\ LinksDiffer'
    BY <1>0, <1>1, <2>1, <2>2, <2>3, LinkToDir
  <2>5. \A w \in leaked' : w.block \in Block /\ CopyOf(w.entry, w.block)'
    BY <2>1 DEF OwnInv, CopyOf
  <2>6. QED
    BY <1>2, <2>4, <2>5 DEF OwnInv
<1>4. CASE LinkFile(t)
  <2> DEFINE x == [fname |-> th[t].file, fsize |-> 0, nStartBlock |-> th[t].next_free]
             B == DirBlock(th[t].dir)
             e == th[t].entry
  <2>1. /\ dir' = [dir EXCEPT ![B] = Append(e, x)]
        /\ UNCHANGED <<root, data, tracker, leaked>>
    BY <1>4 DEF LinkFile
  <2>2. th[t] \in MknodOp
    BY <1>4, KindOf, Kinds DEF LinkFile
  <2>3. /\ B \in Block /\ Len(e) \in Nat /\ Len(e) = Len(dir[B])
        /\ \A i \in 1..Len(e) : e[i].nStartBlock = dir[B][i].nStartBlock
    BY <2>2, Held
  <2>4. e \in Seq(Entry) /\ x \in Entry /\ x.nStartBlock = tracker
    <3>1. th[t].file \in File /\ e \in Listing
      BY <2>2 DEF MknodOp
    <3>2. tracker \in Block /\ 0 \in 0..MaxSize
      BY LinkTypes, FileSystemAssumption
    <3>3. QED
      BY <1>1, <3>1, <3>2 DEF Entry, Listing
  <2>5. dir \in [Block -> Listing]
    BY DEF FsInv, DiskInv
  <2> HIDE DEF x, B, e
  <2>6. /\ Len(Append(e, x)) = Len(e) + 1 /\ \A i \in 1..Len(e) : Append(e, x)[i] = e[i]
        /\ Append(e, x)[Len(e) + 1] = x
    BY <2>4, AppendProperties
  <2>7. dir'[B] = Append(e, x) /\ \A b \in Block \ {B} : dir'[b] = dir[b]
    BY <2>1, <2>3, <2>5
  <2>8. /\ Len(dir'[B]) = Len(dir[B]) + 1
        /\ \A i \in 1..Len(dir[B]) : dir'[B][i].nStartBlock = dir[B][i].nStartBlock
        /\ dir'[B][Len(dir[B]) + 1].nStartBlock = tracker
    BY <2>3, <2>4, <2>6, <2>7
  <2>9. LinksForward' /\ LinksDiffer'
    BY <1>0, <1>1, <2>1, <2>3, <2>7, <2>8, LinkToFile
  <2>10. ASSUME NEW w \in leaked' PROVE w.block \in Block /\ CopyOf(w.entry, w.block)'
    <3>1. w.block \in Block /\ CopyOf(w.entry, w.block) /\ w.entry \in Listing
      BY <2>1, <2>10 DEF OwnInv, FsInv, DiskInv
    <3>2. Len(w.entry) \in Nat /\ Len(dir[w.block]) \in Nat
      BY <1>0, <3>1 DEF Listing
    <3>3. \A i \in 1..Len(w.entry) : i \in 1..Len(dir[w.block])
      BY <3>1, <3>2 DEF CopyOf
    <3>4. Len(dir[w.block]) <= Len(dir'[w.block])
      BY <2>7, <2>8, <3>1, <3>2
    <3>5. \A i \in 1..Len(dir[w.block]) : dir'[w.block][i].nStartBlock = dir[w.block][i].nStartBlock
      BY <2>7, <2>8, <3>1
    <3>6. Len(w.entry) <= Len(dir'[w.block])
      <4>1. Len(w.entry) <= Len(dir[w.block]) /\ Len(dir'[w.block]) \in Nat
        BY <1>0, <2>7, <2>8, <3>1 DEF CopyOf
      <4>2. QED
        BY <3>2, <3>4, <4>1
    <3>7. QED
      BY <3>1, <3>3, <3>5, <3>6 DEF CopyOf
  <2>11. QED
    BY <1>2, <2>9, <2>10 DEF OwnInv
<1>5. QED
  BY <1>3, <1>4

\* The process dies, or is unmounted: what the open streams held is of old copies.
LEMMA EndOwns ==
  ASSUME OneThread, FsInv, FsInv', OwnInv, Crash \/ Unmount
  PROVE  OwnInv'
<1>1. root' = root /\ data' = data /\ tracker <= tracker' /\ leaked' = {}
  BY LinkTypes DEF Crash, Unmount, diskVars
<1>2. \A t \in Thread : th'[t] = Idle
  BY DEF Crash, Unmount
<1>3. \A b \in Block : CopyOf(dir'[b], b)
  <2>1. \A b \in Block : CopyOf(dir[b], b)
    BY LinkTypes DEF CopyOf
  <2>2. CASE Crash
    BY <2>1, <2>2 DEF Crash, diskVars
  <2>3. CASE Unmount
    <3>1. PICK last \in [{w.block : w \in leaked} -> leaked] :
            /\ \A b \in DOMAIN last : last[b].block = b
            /\ dir' = [b \in Block |-> IF b \in DOMAIN last THEN last[b].entry ELSE dir[b]]
      BY <2>3 DEF Unmount
    <3>2. \A b \in DOMAIN last : CopyOf(last[b].entry, b)
      BY <3>1 DEF OwnInv
    <3>3. ASSUME NEW b \in Block PROVE CopyOf(dir'[b], b)
      BY <2>1, <3>1, <3>2
    <3>4. QED
      BY <3>3
  <2>4. QED
    BY <2>2, <2>3
<1>4. LinksForward' /\ LinksDiffer'
  BY <1>1, <1>3, NoLink DEF OwnInv
<1>5. \A t \in Thread : ThreadInv(t)'
  BY <1>2, RestKeeps
<1>6. QED
  BY <1>1, <1>4, <1>5 DEF OwnInv
\* A directory block flushed from a stream has the files it had.
LEMMA FlushOwns ==
  ASSUME FsInv, OwnInv, NEW t \in Thread, th[t] \in WriteOp, Flush(t)
  PROVE  \A b \in Block : /\ Len(dir'[b]) = Len(dir[b])
                          /\ \A i \in 1..Len(dir[b]) : dir'[b][i].nStartBlock = dir[b][i].nStartBlock
<1> DEFINE B == DirBlock(th[t].dir)
<1>1. /\ B \in Block /\ Len(th[t].entry) = Len(dir[B])
      /\ \A i \in 1..Len(th[t].entry) : th[t].entry[i].nStartBlock = dir[B][i].nStartBlock
  BY Held
<1>2. dir \in [Block -> Listing]
  BY DEF FsInv, DiskInv
<1>3. dir' = [dir EXCEPT ![B] = th[t].entry] \/ dir' = dir
  BY DEF Flush
<1> HIDE DEF B
<1>4. QED
  BY <1>1, <1>2, <1>3

\* csc452_write on its way to the block of the offset, and filling it.
LEMMA WalkOwns ==
  ASSUME OneThread, FsInv, FsInv', OwnInv, NEW t \in Thread,
         WriteWalk(t) \/ WriteFill(t) \/ WriteSeek(t)
  PROVE  OwnInv'
<1>0. /\ th \in [Thread -> Op] /\ tracker \in Nat /\ tracker <= tracker
      /\ data \in [Block -> DiskBlock] /\ 0..tracker \subseteq Block
  BY LinkTypes DEF FsInv, DiskInv
<1>1. th[t] \in WriteOp
  BY KindOf DEF WriteWalk, WriteFill, WriteSeek
<1>2. /\ BlockInv(t) /\ th[t].op = "write"
      /\ th[t].address \in 0..tracker /\ th[t].address \in Block
      /\ data[th[t].address].nNextBlock \in 0..tracker
  <2>1. BlockInv(t) /\ th[t].op = "write" /\ th[t].address \in 0..tracker /\ th[t].address \in Block
    BY <1>0, <1>1, Held, Kinds DEF BlockInv
  <2>2. data[th[t].address].nNextBlock \in 0..tracker
    BY <1>0, <2>1, LinkTypes DEF OwnInv, LinksForward
  <2>3. QED
    BY <2>1, <2>2
<1>3. ASSUME root' = root, data' = data, tracker' = tracker, leaked' = leaked,
             \A b \in Block : /\ Len(dir'[b]) = Len(dir[b])
                              /\ \A i \in 1..Len(dir[b]) : dir'[b][i].nStartBlock = dir[b][i].nStartBlock
      PROVE  /\ \A n : Linked(n)' => Linked(n)
             /\ ThreadInv(t)' => OwnInv'
  <2>1. /\ \A b \in Block : data'[b].nNextBlock = data[b].nNextBlock
        /\ tracker <= tracker'
    BY <1>0, <1>3
  <2>2. \A w \in leaked' : w \in leaked \/ (w.block \in Block /\ CopyOf(w.entry, w.block))
    BY <1>3
  <2>3. QED
    BY <1>3, <2>1, <2>2, Calm
<1>4. CASE WriteWalk(t)
  <2> DEFINE r == [[th[t] EXCEPT !.address = th[t].block.nNextBlock,
                                 !.block = data[th[t].block.nNextBlock],
                                 !.begin_index = @ - MAX_DATA_IN_BLOCK,
                                 !.unsaved = FALSE] EXCEPT !.pc = "walk"]
  <2>1. /\ Flush(t) /\ th'[t] = r /\ th[t].pc = "walk"
        /\ UNCHANGED <<root, data, tracker, leaked>>
    BY <1>0, <1>4 DEF WriteWalk, Goto
  <2>2. /\ th[t].block.nNextBlock \in 0..tracker /\ th[t].next_free = 0
    BY <1>2, <2>1 DEF BlockInv
  <2>3. /\ r.pc = "walk" /\ r.op = th[t].op /\ r.dir = th[t].dir /\ r.entry = th[t].entry
        /\ r.next_free = 0 /\ r.address = th[t].block.nNextBlock /\ r.block = data[r.address]
    BY <1>1, <2>2 DEF WriteOp
  <2> HIDE DEF r
  <2>4. \A b \in Block : /\ Len(dir'[b]) = Len(dir[b])
                         /\ \A i \in 1..Len(dir[b]) : dir'[b][i].nStartBlock = dir[b][i].nStartBlock
    BY <1>1, <2>1, FlushOwns
  <2>5. BlockInv(t)'
    BY <2>1, <2>2, <2>3 DEF BlockInv
  <2>6. ThreadInv(t)'
    <3>1. r.pc # "put_tracker" /\ r.pc # "link"
      BY <2>3
    <3>2. QED
      BY <1>1, <2>1, <2>3, <2>4, <2>5, <3>1, Carries
  <2>7. QED
    BY <1>3, <2>1, <2>4, <2>6
<1>5. CASE WriteFill(t)
  <2> DEFINE room == MAX_DATA_IN_BLOCK - th[t].begin_index
             n == IF th[t].left < room THEN th[t].left ELSE room
             bytes == [i \in Index |-> IF i >= th[t].begin_index /\ i < th[t].begin_index + n
                                         THEN th[t].byte ELSE th[t].block.bytes[i]]
             q == [th[t] EXCEPT !.left = @ - n, !.block.bytes = bytes]
             pc == IF th[t].left > n /\ th[t].block.nNextBlock = 0 THEN "get_tracker" ELSE ToSave(t)
             r == [q EXCEPT !.pc = pc]
  <2>1. /\ th'[t] = r /\ th[t].pc = "walk"
        /\ UNCHANGED <<root, dir, data, tracker, leaked>>
    BY <1>0, <1>5 DEF WriteFill, Goto, diskVars
  <2>2. pc \in {"seek", "save"} \/ (pc = "get_tracker" /\ th[t].block.nNextBlock = 0)
    BY DEF ToSave
  <2>3. th[t].block \in DiskBlock
    BY <1>1 DEF WriteOp
  <2>4. /\ q.op = th[t].op /\ q.dir = th[t].dir /\ q.entry = th[t].entry
        /\ q.next_free = th[t].next_free /\ q.address = th[t].address
        /\ q.block.nNextBlock = th[t].block.nNextBlock /\ DOMAIN q = DOMAIN th[t]
    <3> HIDE DEF bytes, n
    <3>1. QED
      BY <1>1, <2>3 DEF WriteOp, DiskBlock
  <2>5. /\ r.op = th[t].op /\ r.dir = th[t].dir /\ r.entry = th[t].entry
        /\ r.next_free = th[t].next_free /\ r.address = th[t].address
        /\ r.block.nNextBlock = th[t].block.nNextBlock /\ r.pc = pc
    <3> HIDE DEF q, pc
    <3>1. "pc" \in DOMAIN q
      BY <1>1, <2>4 DEF WriteOp
    <3>2. QED
      BY <2>4, <3>1
  <2> HIDE DEF r, pc
  <2>6. /\ th[t].block.nNextBlock = data[th[t].address].nNextBlock /\ th[t].next_free = 0
    BY <1>2, <2>1 DEF BlockInv
  <2>7. BlockInv(t)'
    BY <1>2, <2>1, <2>2, <2>5, <2>6 DEF BlockInv
  <2>8. ThreadInv(t)'
    <3>1. r.pc # "put_tracker" /\ r.pc # "link"
      BY <2>2, <2>5
    <3>2. QED
      BY <1>1, <2>1, <2>5, <2>7, <3>1, Carries
  <2>9. QED
    BY <2>1, <2>8, Quiet
<1>6. CASE WriteSeek(t)
  <2> DEFINE r == [[th[t] EXCEPT !.unsaved = FALSE] EXCEPT !.pc = "save"]
  <2>1. /\ Flush(t) /\ th'[t] = r /\ th[t].pc = "seek"
        /\ UNCHANGED <<root, data, tracker, leaked>>
    BY <1>0, <1>6 DEF WriteSeek, Goto
  <2>2. /\ r.pc = "save" /\ r.op = th[t].op /\ r.dir = th[t].dir /\ r.entry = th[t].entry
        /\ r.next_free = th[t].next_free /\ r.address = th[t].address /\ r.block = th[t].block
    BY <1>1 DEF WriteOp
  <2> HIDE DEF r
  <2>3. \A b \in Block : /\ Len(dir'[b]) = Len(dir[b])
                         /\ \A i \in 1..Len(dir[b]) : dir'[b][i].nStartBlock = dir[b][i].nStartBlock
    BY <1>1, <2>1, FlushOwns
  <2>4. \A n : Linked(n)' => Linked(n)
    BY <1>3, <2>1, <2>3
  <2>5. BlockInv(t)'
    <3>1. CASE /\ th[t].block.nNextBlock = data[th[t].address].nNextBlock
               /\ th[t].next_free = 0
      BY <1>2, <2>1, <2>2, <3>1 DEF BlockInv
    <3>2. CASE /\ Unused(t)
               /\ th[t].block.nNextBlock = tracker /\ data[th[t].address].nNextBlock = 0
               /\ th[t].address < tracker
      <4>1. ~Linked(tracker)' /\ th'[t].next_free = tracker' /\ tracker' # 0
        BY <2>1, <2>2, <2>4, <3>2 DEF Unused
      <4>2. Unused(t)'
        BY <4>1 DEF Unused
      <4>3. QED
        BY <1>2, <2>1, <2>2, <3>2, <4>2 DEF BlockInv
    <3>3. QED
      BY <1>2, <2>1, <3>1, <3>2 DEF BlockInv
  <2>6. ThreadInv(t)'
    <3>1. r.pc # "put_tracker" /\ r.pc # "link"
      BY <2>2
    <3>2. QED
      BY <1>1, <2>1, <2>2, <2>3, <2>5, <3>1, Carries
  <2>7. QED
    BY <1>3, <2>1, <2>3, <2>6
<1>7. QED
  BY <1>4, <1>5, <1>6
\* csc452_write gives up: its copy stays in the buffer of the stream.
LEMMA FailsOwns ==
  ASSUME OneThread, FsInv, FsInv', OwnInv, NEW t \in Thread, WriteFails(t)
  PROVE  OwnInv'
<1>1. th[t] \in WriteOp
  BY KindOf, Kinds DEF WriteFails
<1>2. /\ th'[t] = Idle /\ UNCHANGED <<root, dir, data, tracker>>
      /\ leaked' \subseteq leaked \cup {[block |-> DirBlock(th[t].dir), entry |-> th[t].entry]}
  BY DEF WriteFails, Return, diskVars, FsInv
<1>3. DirBlock(th[t].dir) \in Block /\ CopyOf(th[t].entry, DirBlock(th[t].dir))
  BY <1>1, Held
<1>4. \A w \in leaked' : w \in leaked \/ (w.block \in Block /\ CopyOf(w.entry, w.block))
  BY <1>2, <1>3
<1>5. /\ root' = root /\ tracker <= tracker'
      /\ \A b \in Block : data'[b].nNextBlock = data[b].nNextBlock
      /\ \A b \in Block : /\ Len(dir'[b]) = Len(dir[b])
                          /\ \A i \in 1..Len(dir[b]) : dir'[b][i].nStartBlock = dir[b][i].nStartBlock
  BY <1>2, LinkTypes
<1>6. QED
  BY <1>2, <1>4, <1>5, RestKeeps, Calm

\* csc452_write saves a block: with the link it had, or with one to the new block.
LEMMA SaveOwns ==
  ASSUME OneThread, FsInv, FsInv', OwnInv, ~RootLost, NEW t \in Thread, WriteSave(t)
  PROVE  OwnInv'
<1> DEFINE a == th[t].address
           next == th[t].block.nNextBlock
<1>0. /\ th \in [Thread -> Op] /\ tracker \in Nat /\ data \in [Block -> DiskBlock]
      /\ 0..tracker \subseteq Block /\ Block \subseteq Nat
      /\ LinksForward /\ LinksDiffer
  BY LinkTypes DEF FsInv, DiskInv, OwnInv
<1>1. th[t] \in WriteOp /\ th[t].pc = "save" /\ a # 0
  BY KindOf DEF WriteSave, RootLost
<1>2. BlockInv(t) /\ a \in 0..tracker /\ a \in Block
  BY <1>0, <1>1, Held DEF BlockInv
<1>3. /\ data' = [data EXCEPT ![a] = th[t].block]
      /\ UNCHANGED <<root, dir, tracker, leaked>>
  BY DEF WriteSave
<1>4. /\ data'[a].nNextBlock = next
      /\ \A b \in Block \ {a} : data'[b] = data[b]
  BY <1>0, <1>2, <1>3
<1>5. \/ next = data[a].nNextBlock
      \/ /\ Unused(t) /\ next = tracker /\ data[a].nNextBlock = 0 /\ a < tracker
  BY <1>2 DEF BlockInv
<1>6. next \in 0..tracker /\ next # a
  <2>1. CASE next = data[a].nNextBlock
    <3>1. next = 0 \/ next \in a+1..tracker
      BY <1>0, <1>2, <2>1 DEF LinksForward
    <3> HIDE DEF next, a
    <3>2. QED
      BY <1>0, <1>1, <1>2, <3>1
  <2>2. CASE next = tracker /\ a < tracker
    <3> HIDE DEF next, a
    <3>1. QED
      BY <1>0, <1>2, <2>2
  <2>3. QED
    BY <1>5, <2>1, <2>2
<1>7. LinksForward' /\ LinksDiffer'
  <2>1. CASE next = data[a].nNextBlock
    <3>1. \A b \in Block : data'[b].nNextBlock = data[b].nNextBlock
      BY <1>4, <2>1
    <3>2. \A b \in Block : CopyOf(dir'[b], b)
      BY <1>3, LinkTypes DEF CopyOf
    <3>3. root' = root /\ tracker <= tracker'
      BY <1>0, <1>3
    <3>4. QED
      BY <1>0, <3>1, <3>2, <3>3, NoLink
  <2>2. CASE Unused(t) /\ next = tracker /\ a < tracker
    <3>1. /\ tracker # 0 /\ ~Linked(tracker)
          /\ \A b \in Block \ {a} : data'[b].nNextBlock = data[b].nNextBlock
          /\ data'[a].nNextBlock = tracker
      BY <1>4, <2>2 DEF Unused
    <3> HIDE DEF a, next
    <3>2. QED
      BY <1>0, <1>2, <1>3, <2>2, <3>1, LinkToPiece
  <2>3. QED
    BY <1>5, <2>1, <2>2
<1>8. \A w \in leaked' : w.block \in Block /\ CopyOf(w.entry, w.block)'
  BY <1>3 DEF OwnInv, CopyOf
<1>9. ThreadInv(t)'
  <2>1. CASE th[t].left > 0
    <3> DEFINE r == [[th[t] EXCEPT !.address = th[t].block.nNextBlock,
                                   !.block = data[th[t].block.nNextBlock],
                                   !.begin_index = 0, !.next_free = 0] EXCEPT !.pc = "walk"]
    <3>1. th'[t] = r
      BY <1>0, <2>1 DEF WriteSave, Goto
    <3>2. /\ r.pc = "walk" /\ r.op = th[t].op /\ r.dir = th[t].dir /\ r.entry = th[t].entry
          /\ r.next_free = 0 /\ r.address = next /\ r.block = data[next]
      BY <1>1 DEF WriteOp
    <3> HIDE DEF r
    <3>3. data'[next] = data[next]
      BY <1>0, <1>4, <1>6
    <3>4. BlockInv(t)'
      BY <1>3, <1>6, <3>1, <3>2, <3>3 DEF BlockInv
    <3>5. r.pc # "put_tracker" /\ r.pc # "link"
      BY <3>2
    <3>6. \A b \in Block : /\ Len(dir'[b]) = Len(dir[b])
                           /\ \A i \in 1..Len(dir[b]) : dir'[b][i].nStartBlock = dir[b][i].nStartBlock
      BY <1>3
    <3>7. QED
      BY <1>1, <1>3, <3>1, <3>2, <3>4, <3>5, <3>6, Carries
  <2>2. CASE ~(th[t].left > 0)
    <3>1. th'[t] = Idle
      BY <1>0, <2>2 DEF WriteSave, Return
    <3>2. QED
      BY <3>1, RestKeeps
  <2>3. QED
    BY <2>1, <2>2
<1>10. QED
  BY <1>7, <1>8, <1>9 DEF OwnInv, OneThread

\* A formatted disk has no links.
LEMMA OwnInit == Init => OwnInv
<1> SUFFICES ASSUME Init PROVE OwnInv
  OBVIOUS
<1>1. root = <<>> /\ Len(root) = 0 /\ leaked = {}
  BY DEF Init
<1>2. \A b \in Block : dir[b] = <<>> /\ Len(dir[b]) = 0
  BY DEF Init
<1>3. \A b \in Block : data[b].nNextBlock = 0
  BY DEF Init
<1>4. LinksForward
  BY <1>1, <1>2, <1>3 DEF LinksForward
<1>5. LinksDiffer
  BY <1>1, <1>2, <1>3 DEF LinksDiffer
<1>6. \A t \in Thread : th[t] = Idle
  BY DEF Init
<1>7. \A t \in Thread : ThreadInv(t)
  BY <1>6 DEF ThreadInv, Idle
<1>8. QED
  BY <1>1, <1>4, <1>5, <1>7 DEF OwnInv

\* No step of a single thread makes a second link to a block.
LEMMA OwnStep ==
  ASSUME OneThread
  PROVE  FsInv /\ FsInv' /\ OwnInv /\ [Next]_vars => OwnInv'
<1> SUFFICES ASSUME FsInv, FsInv', OwnInv, [Next]_vars PROVE OwnInv'
  OBVIOUS
<1>1. CASE UNCHANGED vars
  <2>1. UNCHANGED <<root, dir, data, tracker, th, leaked>>
    BY <1>1 DEF vars, diskVars
  <2>2. LinksForward' /\ LinksDiffer' /\ \A w \in leaked' : w.block \in Block /\ CopyOf(w.entry, w.block)'
    BY <2>1 DEF OwnInv, LinksForward, LinksDiffer, CopyOf
  <2>3. ASSUME NEW t \in Thread PROVE ThreadInv(t)'
    BY <2>1 DEF OwnInv, ThreadInv, BlockInv, Unused, Linked, CopyOf, DirBlock, dir_exists
  <2>4. QED
    BY <2>2, <2>3 DEF OwnInv
<1>2. CASE Crash \/ Unmount
  BY <1>2, EndOwns
<1>3. CASE \E t \in Thread : \E d \in Dir : Mkdir(t, d) \/ \E f \in File : Mknod(t, d, f)
  BY <1>3, StartOwns
<1>4. CASE \E t \in Thread : \E d \in Dir, f \in File, b \in Byte, offset \in 0..MaxSize :
             \E size \in 1..(MaxSize - offset) : WriteBegin(t, d, f, offset, size, b)
  BY <1>4, WriteBeginOwns
<1>5. CASE \E t \in Thread : GetTracker(t) \/ PutTracker(t) \/ CreateFails(t)
  BY <1>5, TrackerOwns
<1>6. CASE \E t \in Thread : LinkDir(t) \/ LinkFile(t)
  BY <1>6, LinkOwns
<1>7. CASE \E t \in Thread : WriteWalk(t) \/ WriteFill(t) \/ WriteSeek(t)
  BY <1>7, WalkOwns
<1>8. CASE \E t \in Thread : WriteFails(t)
  BY <1>8, FailsOwns
<1>9. CASE ~RootLost /\ \E t \in Thread : WriteSave(t)
  BY <1>9, SaveOwns
<1>10. QED
  BY <1>1, <1>2, <1>3, <1>4, <1>5, <1>6, <1>7, <1>8, <1>9 DEF Next

\* With one thread the chains of the files stay their own.
LEMMA OwnInvariance ==
  ASSUME OneThread
  PROVE  Spec => []OwnInv
<1>1. FsInv /\ FsInv' /\ OwnInv /\ [Next]_vars => OwnInv'
  BY OwnStep
<1>2. QED
  BY <1>1, OwnInit, FsInvariance, PTL DEF Spec

(***************************************************************************)
(* With one operation at a time, for any disk and any names, with crashes  *)
(* between any two accesses to the disk and with full disks: no block      *)
(* belongs to two files or directories, the chains of csc452_write end,    *)
(* and none reaches blocks that next_free_block has yet to hand out.       *)
(* Like the model, the theorem ends where csc452_write saves a piece of a  *)
(* file over block 0 (RootLost).                                           *)
(***************************************************************************)
THEOREM BlocksStayDisjoint ==
  ASSUME OneThread
  PROVE  Spec => []BlocksDisjoint
<1>1. FsInv /\ OwnInv => BlocksDisjoint
  BY NoSharedBlock DEF OwnInv
<1>2. QED
  BY <1>1, FsInvariance, OwnInvariance, PTL

(***************************************************************************)
(* With one operation at a time, next_free_block returns what its comment  *)
(* says: a block that no file and no directory uses (up to RootLost).      *)
(***************************************************************************)
THEOREM SingleThreadIsFresh ==
  ASSUME OneThread
  PROVE  Spec => []FreshBlock
<1>1. ASSUME FsInv, OwnInv PROVE FreshBlock
  <2>1. \A t, u \in Thread : t # u => Fresh(t) \cap Fresh(u) = {}
    BY DEF OneThread
  <2>2. ASSUME NEW t \in Thread, NEW o \in Owners, NEW n \in Fresh(t), n \in Blocks(o) PROVE FALSE
    <3>1. n = th[t].next_free /\ n # 0 /\ th[t].pc \in {"link", "seek", "save"}
      BY <2>2 DEF Fresh
    <3>2. Unused(t)
      <4>1. CASE th[t].pc = "link"
        BY <1>1, <4>1 DEF OwnInv, ThreadInv
      <4>2. CASE th[t].pc # "link"
        <5>1. th[t] \in WriteOp
          BY <1>1, <3>1, <4>2, KindOf
        <5>2. BlockInv(t)
          BY <1>1, <5>1, Held
        <5>3. QED
          BY <3>1, <4>2, <5>2 DEF BlockInv
      <4>3. QED
        BY <4>1, <4>2
    <3>3. n = tracker /\ ~Linked(n) /\ n \in Block
      BY <1>1, <3>1, <3>2, LinkTypes DEF Unused
    <3>4. QED
      BY <1>1, <2>2, <3>1, <3>3, UnusedIsFree DEF OwnInv
  <2>3. QED
    BY <2>1, <2>2 DEF FreshBlock
<1>2. QED
  BY <1>1, FsInvariance, OwnInvariance, PTL
-----------------------------------------------------------------------------
\* The blocks of a file from its start b on, in their order, all or the first of
\* them; D is what the blocks hold.
Trail(D, c, b) ==
  /\ c \in Seq(Block \ {0}) /\ c # <<>> /\ c[1] = b
  /\ \A i \in 1..Len(c)-1 : D[c[i]].nNextBlock = c[i+1]

\* Byte x of the j-th block of a file is this one of the file, from 0 on.
Pos(j, x) == (j - 1) * MAX_DATA_IN_BLOCK + x

\* The entry of d/f in its directory block; whether there is one.
Exists(d, f) == Find(get_dir(d), f) # 0
EntryOf(d, f) == get_dir(d)[Find(get_dir(d), f)]

\* The bytes on the disk are those that were written.
Stored(D, c, bytes) ==
  /\ Len(bytes) <= Pos(Len(c), MAX_DATA_IN_BLOCK)
  /\ \A j \in 1..Len(c), x \in Index : Pos(j, x) < Len(bytes) =>
       D[c[j]].bytes[x] = bytes[Pos(j, x) + 1]

Writing(d, f) == \E t \in Thread : th[t] \in WriteOp /\ th[t].dir = d /\ th[t].file = f

FileInv(d, f) ==
  LET w == written[<<d, f>>]
  IN  /\ w \in {Absent, Unknown} \cup {Known(s) : s \in Seq(Byte)}
      /\ w = Absent <=> ~Exists(d, f)
      /\ w.is = "known" /\ ~Writing(d, f) =>
           /\ EntryOf(d, f).fsize = Len(w.bytes)
           /\ \E c : Trail(data, c, EntryOf(d, f).nStartBlock) /\ Stored(data, c, w.bytes)

\* A piece of a file as the disk has it, or the memory of csc452_write.
Piece(t, n) == IF n = th[t].address THEN th[t].block.bytes ELSE data[n].bytes

\* What a file of bytes old is to hold after the write of t, and how much of it
\* has been put in place.
Target(t, old) == SubSeq(old, 1, th[t].offset) \o [i \in 1..th[t].size |-> th[t].byte]
Done(t) == th[t].offset + th[t].size - th[t].left

\* csc452_write of bytes to a file that held old: it is at the k-th block of c.
Progress(t, c, k, old) ==
  /\ th[t].offset <= Len(old)
  /\ Done(t) <= Pos(Len(c), MAX_DATA_IN_BLOCK)
  /\ IF th[t].pc = "walk" THEN Done(t) = Pos(k, th[t].begin_index)
     ELSE /\ Pos(k, 0) <= Done(t) /\ Done(t) <= Pos(k, MAX_DATA_IN_BLOCK)
          /\ th[t].left > 0 => Done(t) = Pos(k, MAX_DATA_IN_BLOCK)
  /\ \A j \in 1..Len(c), x \in Index : Pos(j, x) < Done(t) =>
       Piece(t, c[j])[x] = Target(t, old)[Pos(j, x) + 1]

\* Where csc452_write is: at a block of the file, or beyond the end of the chain
\* of a file whose contents nothing is promised of.
Place(t, c, w) ==
  \/ th[t].address = 0 /\ w.is # "known"
  \/ \E k \in 1..Len(c) : th[t].address = c[k] /\ (w.is = "known" => Progress(t, c, k, w.bytes))

\* Its copy of the directory block has the new size, and so has the directory
\* block once the stream has written it.
SizeInv(t) ==
  LET r == th[t]
      e == get_dir(r.dir)
  IN  /\ r.entry = [e EXCEPT ![Find(e, r.file)].fsize = r.offset + r.size]
      /\ ~r.unsaved => r.entry = e
      /\ r.pc = "save" => ~r.unsaved

\* The block in memory has just been read, or leads on where bytes are left.
MemoryInv(t) ==
  LET r == th[t]
  IN  /\ r.pc = "walk" => r.block = data[r.address]
      /\ r.left <= r.size
      /\ r.pc \in {"seek", "save"} /\ r.left > 0 => r.block.nNextBlock # 0

PlaceInv(t) ==
  \E c : /\ Trail(data, c, EntryOf(th[t].dir, th[t].file).nStartBlock)
         /\ Place(t, c, written[<<th[t].dir, th[t].file>>])

WriteInv(t) == Exists(th[t].dir, th[t].file) /\ SizeInv(t) /\ MemoryInv(t) /\ PlaceInv(t)

ReadInv ==
  /\ data[0].nNextBlock = 0
  /\ \A b \in Block : dir[b] # <<>> => \E i \in 1..Len(root) : root[i].nStartBlock = b
  /\ \A t \in Thread : th[t] \in MknodOp => th[t].entry = get_dir(th[t].dir)
  /\ \A t \in Thread : th[t] \in WriteOp => WriteInv(t)
  /\ \A d \in Dir, f \in File : FileInv(d, f)

-----------------------------------------------------------------------------
\* Where the bytes of a file are.
LEMMA Positions ==
  /\ MAX_DATA_IN_BLOCK \in Nat \ {0}
  /\ \A j \in Nat \ {0}, x \in Nat : Pos(j, x) \in Nat /\ Pos(j, x) = Pos(j, 0) + x
  /\ \A j \in Nat \ {0} : Pos(j, MAX_DATA_IN_BLOCK) = Pos(j + 1, 0)
  /\ \A i, j \in Nat \ {0} : i < j => Pos(i, MAX_DATA_IN_BLOCK) <= Pos(j, 0)
  /\ Pos(1, 0) = 0
<1> DEFINE M == MAX_DATA_IN_BLOCK
<1>0. M \in Nat \ {0}
  BY FileSystemAssumption
<1>1. ASSUME NEW j \in Nat \ {0}, NEW x \in Nat PROVE Pos(j, x) \in Nat /\ Pos(j, x) = Pos(j, 0) + x
  <2>1. (j - 1) * M \in Nat
    BY <1>0
  <2> DEFINE p == (j - 1) * M
  <2>2. Pos(j, x) = p + x /\ Pos(j, 0) = p + 0
    BY DEF Pos
  <2> HIDE DEF p
  <2>3. p \in Nat
    BY <2>1 DEF p
  <2>4. QED
    BY <2>2, <2>3
<1>2. ASSUME NEW j \in Nat \ {0} PROVE Pos(j, M) = Pos(j + 1, 0)
  <2>1. (j - 1) * M + M = (j + 1 - 1) * M + 0
    BY <1>0
  <2>2. QED
    BY <2>1 DEF Pos
<1>3. ASSUME NEW i \in Nat \ {0}, NEW j \in Nat \ {0}, i < j PROVE Pos(i, M) <= Pos(j, 0)
  <2>1. PICK d \in Nat : j = i + 1 + d
    <3>1. j - i - 1 \in Nat /\ j = i + 1 + (j - i - 1)
      BY <1>3
    <3>2. QED
      BY <3>1
  <2>2. (j - 1) * M = (i - 1) * M + M + d * M
    BY <1>0, <2>1
  <2>3. d * M \in Nat /\ (i - 1) * M \in Nat
    BY <1>0
  <2> DEFINE p == (i - 1) * M
             q == d * M
             s == (j - 1) * M
  <2>4. Pos(i, M) = p + M /\ Pos(j, 0) = s + 0 /\ s = p + M + q /\ p \in Nat /\ q \in Nat
    BY <2>2, <2>3 DEF Pos
  <2> HIDE DEF p, q, s
  <2>5. QED
    BY <1>0, <2>4
<1>4. Pos(1, 0) = 0
  BY <1>0 DEF Pos
<1>5. QED
  BY <1>0, <1>1, <1>2, <1>3, <1>4

\* Quotient and remainder make up the number.
LEMMA Divided ==
  ASSUME NEW m \in Nat \ {0}, NEW g \in Nat, NEW q, q = g \div m, NEW r, r = g % m
  PROVE  q \in Int /\ r \in 0..m-1 /\ g = m * q + r
OBVIOUS

\* Every byte of a file is in one place.
LEMMA PlaceOf ==
  ASSUME NEW g \in Nat, NEW q, q = g \div MAX_DATA_IN_BLOCK, NEW r, r = g % MAX_DATA_IN_BLOCK
  PROVE  q \in Nat /\ r \in Index /\ g = Pos(q + 1, r)
<1> DEFINE M == MAX_DATA_IN_BLOCK
<1>0. M \in Nat \ {0}
  BY FileSystemAssumption
<1>1. q \in Int /\ r \in 0..M-1 /\ g = M * q + r
  BY <1>0, Divided
<1> HIDE DEF M
<1>2. q \in Nat
  <2>1. CASE q < 0
    <3>1. PICK d \in Nat : q = -1 - d
      <4>1. -1 - q \in Nat /\ q = -1 - (-1 - q)
        BY <1>1, <2>1
      <4>2. QED
        BY <4>1
    <3>2. M * q = -M - M * d /\ M * d \in Nat
      BY <1>0, <3>1
    <3>3. QED
      BY <1>0, <1>1, <3>2
  <2>2. QED
    BY <1>1, <2>1
<1>3. g = (q + 1 - 1) * M + r
  BY <1>0, <1>1
<1>4. QED
  BY <1>1, <1>2, <1>3 DEF Pos, Index, M

\* The loop over files[] stops at the entry of the name.
LEMMA FindIs ==
  ASSUME NEW e \in Listing, NEW i \in 1..Len(e), NEW f, e[i].fname = f
  PROVE  Find(e, f) = i
<1>1. Find(e, f) # 0
  BY Found
<1>2. Find(e, f) \in 1..Len(e) /\ e[Find(e, f)].fname = f
  BY <1>1, Found
<1>3. QED
  BY <1>2 DEF Listing

\* It stops at the same index of a directory block with the same names.
LEMMA FindSame ==
  ASSUME NEW e \in Listing, NEW x \in Listing, NEW f, Len(x) = Len(e),
         \A i \in 1..Len(e) : x[i].fname = e[i].fname
  PROVE  Find(x, f) = Find(e, f)
<1>1. CASE Find(e, f) = 0
  <2>1. \A i \in 1..Len(x) : x[i].fname # f
    BY <1>1, Found
  <2>2. QED
    BY <1>1, <2>1, Found
<1>2. CASE Find(e, f) # 0
  <2>1. Find(e, f) \in 1..Len(e) /\ e[Find(e, f)].fname = f
    BY <1>2, Found
  <2>2. QED
    BY <2>1, FindIs
<1>3. QED
  BY <1>1, <1>2

\* What is known of the file d/f from its entry.
LEMMA EntryIs ==
  ASSUME FsInv, NEW d, NEW f, Exists(d, f)
  PROVE  /\ dir_exists(d) # 0 /\ DirBlock(d) \in Block /\ get_dir(d) = dir[DirBlock(d)]
         /\ get_dir(d) \in Listing
         /\ Find(get_dir(d), f) \in 1..Len(get_dir(d))
         /\ EntryOf(d, f) = get_dir(d)[Find(get_dir(d), f)]
         /\ EntryOf(d, f) \in Entry /\ EntryOf(d, f).fname = f
<1>1. get_dir(d) \in Listing
  BY GetDir
<1>2. Find(get_dir(d), f) \in 1..Len(get_dir(d)) /\ get_dir(d)[Find(get_dir(d), f)].fname = f
  BY <1>1, Found DEF Exists
<1>3. dir_exists(d) # 0
  <2>1. dir_exists(d) = 0 => Len(get_dir(d)) = 0
    BY DEF get_dir
  <2>2. QED
    BY <1>2, <2>1
<1>4. get_dir(d)[Find(get_dir(d), f)] \in Entry
  BY <1>1, <1>2, ElementOfSeq DEF Listing
<1>5. QED
  BY <1>1, <1>2, <1>3, <1>4, GetDir DEF EntryOf

\* The first blocks of two files are different, and no block of a file leads to one.
LEMMA StartsDiffer ==
  ASSUME FsInv, LinksForward, LinksDiffer, NEW d, NEW f, Exists(d, f)
  PROVE  /\ EntryOf(d, f).nStartBlock \in 1..tracker
         /\ EntryOf(d, f).nStartBlock \in Block \ {0}
         /\ \A b \in Block : data[b].nNextBlock # EntryOf(d, f).nStartBlock
         /\ \A e, g : Exists(e, g) /\ <<e, g>> # <<d, f>> =>
              EntryOf(e, g).nStartBlock # EntryOf(d, f).nStartBlock
<1> DEFINE i == Find(get_dir(d), f)
           B == DirBlock(d)
<1>1. B \in Block /\ i \in 1..Len(dir[B]) /\ EntryOf(d, f) = dir[B][i] /\ dir_exists(d) # 0
      /\ dir[B][i].fname = f
  BY EntryIs
<1>2. dir[B][i].nStartBlock \in 1..tracker
  BY <1>1 DEF LinksForward
<1>3. \A b \in Block : data[b].nNextBlock # dir[B][i].nStartBlock
  BY <1>1 DEF LinksDiffer
<1>4. ASSUME NEW e, NEW g, Exists(e, g), EntryOf(e, g).nStartBlock = EntryOf(d, f).nStartBlock
      PROVE  e = d /\ g = f
  <2> DEFINE j == Find(get_dir(e), g)
             C == DirBlock(e)
  <2>1. C \in Block /\ j \in 1..Len(dir[C]) /\ EntryOf(e, g) = dir[C][j] /\ dir_exists(e) # 0
        /\ dir[C][j].fname = g
    BY <1>4, EntryIs
  <2> HIDE DEF i, j
  <2>2. C = B /\ i = j
    <3> HIDE DEF B, C
    <3>1. QED
      BY <1>1, <1>4, <2>1 DEF LinksDiffer
  <2>3. dir_exists(e) = dir_exists(d)
    <3>1. dir_exists(d) \in 1..Len(root) /\ dir_exists(e) \in 1..Len(root)
      BY <1>1, <2>1, GetDir
    <3>2. QED
      BY <2>2, <3>1 DEF LinksDiffer, DirBlock
  <2>4. d = e
    BY <1>1, <2>1, <2>3, GetDir
  <2>5. QED
    BY <1>1, <2>1, <2>2, <2>4
<1>5. dir[B][i].nStartBlock \in Block \ {0}
  BY <1>2, LinkTypes
<1>6. QED
  BY <1>1, <1>2, <1>3, <1>4, <1>5

\* The blocks of a trail are later and later ones.
LEMMA TrailRises ==
  ASSUME FsInv, LinksForward, NEW b, NEW c, Trail(data, c, b)
  PROVE  /\ c \in Seq(Block \ {0}) /\ Len(c) \in Nat \ {0} /\ c[1] = b
         /\ \A i \in 1..Len(c) : c[i] \in Block /\ c[i] # 0 /\ c[i] \in Nat
         /\ \A i, j \in 1..Len(c) : i < j => c[i] < c[j]
         /\ \A i \in 1..Len(c) : i <= c[i]
         /\ Len(c) < BLOCKS
<1>1. c \in Seq(Block \ {0}) /\ Len(c) \in Nat \ {0} /\ c[1] = b
  BY EmptySeq DEF Trail
<1>2. \A i \in 1..Len(c) : c[i] \in Block /\ c[i] # 0 /\ c[i] \in Nat
  <2>1. \A i \in 1..Len(c) : c[i] \in Block \ {0}
    BY <1>1, ElementOfSeq
  <2>2. QED
    BY <2>1, LinkTypes
<1>3. ASSUME NEW i \in 1..Len(c), i + 1 \in 1..Len(c) PROVE c[i] < c[i+1]
  <2>1. data[c[i]].nNextBlock = c[i+1]
    BY <1>1, <1>3 DEF Trail
  <2>2. c[i+1] \in c[i]+1..tracker
    BY <1>2, <1>3, <2>1 DEF LinksForward
  <2>3. QED
    BY <1>2, <1>3, <2>2, LinkTypes
<1>4. ASSUME NEW i \in 1..Len(c), NEW j \in 1..Len(c), i < j PROVE c[i] < c[j]
  <2> DEFINE bad == {m \in 1..Len(c) : i < m /\ ~(c[i] < c[m])}
  <2>1. ASSUME bad # {} PROVE FALSE
    <3>1. bad \in SUBSET Nat
      BY <1>1
    <3>2. PICK m \in bad : \A n \in bad : m <= n
      <4> HIDE DEF bad
      <4>1. QED
        BY <2>1, <3>1, Least
    <3>3. m \in 1..Len(c) /\ i < m /\ ~(c[i] < c[m])
      BY <3>2
    <3>4. m - 1 \in 1..Len(c) /\ m = (m - 1) + 1
      BY <1>1, <3>3
    <3>5. c[m-1] < c[m]
      BY <1>3, <3>3, <3>4
    <3>6. m - 1 = i \/ c[i] < c[m-1]
      BY <1>1, <3>2, <3>3, <3>4
    <3>7. c[i] \in Nat /\ c[m-1] \in Nat /\ c[m] \in Nat
      BY <1>2, <3>3, <3>4
    <3>8. QED
      BY <3>3, <3>5, <3>6, <3>7
  <2>2. QED
    BY <1>4, <2>1
<1>5. ASSUME NEW i \in 1..Len(c) PROVE i <= c[i]
  <2> DEFINE bad == {m \in 1..Len(c) : ~(m <= c[m])}
  <2>1. ASSUME bad # {} PROVE FALSE
    <3>1. bad \in SUBSET Nat
      BY <1>1
    <3>2. PICK m \in bad : \A n \in bad : m <= n
      <4> HIDE DEF bad
      <4>1. QED
        BY <2>1, <3>1, Least
    <3>3. m \in 1..Len(c) /\ ~(m <= c[m]) /\ c[m] \in Nat /\ c[m] # 0
      BY <1>2, <3>2
    <3>4. m - 1 \in 1..Len(c) /\ m - 1 < m
      BY <1>1, <3>3
    <3>5. m - 1 <= c[m-1] /\ c[m-1] \in Nat /\ c[m-1] < c[m]
      BY <1>1, <1>2, <1>4, <3>2, <3>3, <3>4
    <3>6. QED
      BY <3>3, <3>4, <3>5
  <2>2. QED
    BY <2>1
<1>6. Len(c) < BLOCKS
  <2>1. Len(c) \in 1..Len(c)
    BY <1>1
  <2>2. Len(c) <= c[Len(c)] /\ c[Len(c)] \in Block
    BY <1>2, <1>5, <2>1
  <2>3. QED
    BY <1>1, <2>2, FileSystemAssumption DEF Block
<1>7. QED
  BY <1>1, <1>2, <1>4, <1>5, <1>6

\* Trails from two blocks that no block leads to have no block in common.
LEMMA TrailsDiffer ==
  ASSUME FsInv, LinksForward, LinksDiffer, NEW a, NEW b, a # b,
         \A x \in Block : data[x].nNextBlock # a /\ data[x].nNextBlock # b,
         NEW c, Trail(data, c, a), NEW e, Trail(data, e, b)
  PROVE  \A i \in 1..Len(c), j \in 1..Len(e) : c[i] # e[j]
<1>1. /\ Len(c) \in Nat \ {0} /\ c[1] = a /\ \A i \in 1..Len(c) : c[i] \in Block /\ c[i] # 0
      /\ Len(e) \in Nat \ {0} /\ e[1] = b /\ \A i \in 1..Len(e) : e[i] \in Block /\ e[i] # 0
  BY TrailRises
<1> DEFINE bad == {i \in 1..Len(c) : \E j \in 1..Len(e) : c[i] = e[j]}
<1>2. ASSUME bad # {} PROVE FALSE
  <2>1. bad \in SUBSET Nat
    BY <1>1
  <2>2. PICK i \in bad : \A n \in bad : i <= n
    <3> HIDE DEF bad
    <3>1. QED
      BY <1>2, <2>1, Least
  <2>3. PICK j \in 1..Len(e) : c[i] = e[j] /\ i \in 1..Len(c)
    BY <2>2
  <2>4. ASSUME i # 1 PROVE i - 1 \in 1..Len(c)-1 /\ i - 1 \in 1..Len(c) /\ data[c[i-1]].nNextBlock = c[i] /\ c[i-1] \in Block
    <3>1. i - 1 \in 1..Len(c)-1 /\ i - 1 \in 1..Len(c) /\ (i - 1) + 1 = i
      BY <1>1, <2>3, <2>4
    <3>2. QED
      BY <1>1, <3>1 DEF Trail
  <2>5. ASSUME j # 1 PROVE j - 1 \in 1..Len(e) /\ data[e[j-1]].nNextBlock = e[j] /\ e[j-1] \in Block
    <3>1. j - 1 \in 1..Len(e)-1 /\ j - 1 \in 1..Len(e) /\ (j - 1) + 1 = j
      BY <1>1, <2>3, <2>5
    <3>2. QED
      BY <1>1, <3>1 DEF Trail
  <2>6. i # 1
    BY <1>1, <2>3, <2>5
  <2>7. j # 1
    BY <1>1, <2>3, <2>4
  <2>8. c[i-1] = e[j-1]
    BY <1>1, <2>3, <2>4, <2>5, <2>6, <2>7 DEF LinksDiffer
  <2>9. i - 1 \in bad
    BY <2>4, <2>5, <2>6, <2>7, <2>8
  <2>10. QED
    BY <1>1, <2>2, <2>3, <2>9
<1>3. QED
  BY <1>2

\* The trail e is c, with one more block where the k-th was the last.
Onward(D, c, k, e) ==
  /\ (e = c /\ k < Len(c)) \/ (k = Len(c) /\ Len(e) = k + 1)
  /\ k + 1 \in 1..Len(e) /\ e[k+1] = D[c[k]].nNextBlock
  /\ \A j \in 1..Len(c) : e[j] = c[j]

\* A trail goes on along the link of one of its blocks.
LEMMA TrailOn ==
  ASSUME FsInv, NEW D, NEW c, NEW b, Trail(D, c, b), NEW k \in 1..Len(c),
         D[c[k]].nNextBlock # 0, D[c[k]].nNextBlock \in Block
  PROVE  \E e : Trail(D, e, b) /\ Onward(D, c, k, e)
<1>1. c \in Seq(Block \ {0}) /\ Len(c) \in Nat \ {0} /\ c[1] = b
  BY EmptySeq DEF Trail
<1>2. CASE k < Len(c)
  <2>1. k \in 1..Len(c)-1 /\ k + 1 \in 1..Len(c)
    BY <1>1, <1>2
  <2>2. c[k+1] = D[c[k]].nNextBlock
    BY <2>1 DEF Trail
  <2>3. Onward(D, c, k, c)
    BY <1>2, <2>1, <2>2 DEF Onward
  <2>4. QED
    BY <2>3
<1>3. CASE k = Len(c)
  <2> DEFINE next == D[c[k]].nNextBlock
             e == Append(c, next)
  <2>1. next \in Block \ {0}
    OBVIOUS
  <2> HIDE DEF next
  <2>2. /\ e \in Seq(Block \ {0}) /\ Len(e) = Len(c) + 1 /\ e[Len(c) + 1] = next
        /\ \A j \in 1..Len(c) : e[j] = c[j]
    BY <1>1, <2>1, AppendProperties
  <2> HIDE DEF e
  <2>3. e # <<>> /\ e[1] = b
    <3>1. 1 \in 1..Len(c) /\ Len(e) # 0 /\ Len(<<>>) = 0
      BY <1>1, <2>2
    <3>2. e[1] = b
      BY <1>1, <2>2, <3>1
    <3>3. e # <<>>
      BY <3>1
    <3>4. QED
      BY <3>2, <3>3
  <2>4. ASSUME NEW i \in 1..Len(e)-1 PROVE D[e[i]].nNextBlock = e[i+1]
    <3>1. i \in 1..Len(c) /\ e[i] = c[i]
      BY <1>1, <2>2
    <3>2. CASE i = k
      BY <1>3, <2>2, <3>1, <3>2 DEF next
    <3>3. CASE i # k
      <4>1. i \in 1..Len(c)-1 /\ i + 1 \in 1..Len(c)
        BY <1>1, <1>3, <3>1, <3>3
      <4>2. D[c[i]].nNextBlock = c[i+1]
        BY <4>1 DEF Trail
      <4>3. QED
        BY <2>2, <3>1, <4>1, <4>2
    <3>4. QED
      BY <3>2, <3>3
  <2>5. Trail(D, e, b)
    BY <2>2, <2>3, <2>4 DEF Trail
  <2>6. k + 1 \in 1..Len(e) /\ e[k+1] = next /\ Len(e) = k + 1
    BY <1>1, <1>3, <2>2
  <2>7. Onward(D, c, k, e)
    BY <1>3, <2>2, <2>6 DEF next, Onward
  <2>8. QED
    BY <2>5, <2>7
<1>4. QED
  BY <1>1, <1>2, <1>3

\* Blocks that stay as they are keep a trail and what is stored in it.
LEMMA TrailStays ==
  ASSUME NEW D, NEW E, NEW c, NEW b, Trail(D, c, b), \A i \in 1..Len(c) : E[c[i]] = D[c[i]]
  PROVE  /\ Trail(E, c, b)
         /\ \A s : Stored(D, c, s) => Stored(E, c, s)
<1>1. Len(c) \in Nat
  BY DEF Trail
<1>2. \A i \in 1..Len(c)-1 : i \in 1..Len(c)
  BY <1>1
<1>3. Trail(E, c, b)
  BY <1>2 DEF Trail
<1>4. \A s : Stored(D, c, s) => Stored(E, c, s)
  BY DEF Stored
<1>5. QED
  BY <1>3, <1>4

\* A file that nobody writes keeps what it promises.
LEMMA FileStays ==
  ASSUME NEW d, NEW f, FileInv(d, f), written'[<<d, f>>] = written[<<d, f>>],
         Exists(d, f)' <=> Exists(d, f),
         Writing(d, f) => Writing(d, f)',
         Exists(d, f) /\ ~Writing(d, f)' => EntryOf(d, f)' = EntryOf(d, f),
         Exists(d, f) => \A c : Trail(data, c, EntryOf(d, f).nStartBlock) =>
                           \A i \in 1..Len(c) : data'[c[i]] = data[c[i]]
  PROVE  FileInv(d, f)'
<1> DEFINE w == written[<<d, f>>]
<1>1. w \in {Absent, Unknown} \cup {Known(s) : s \in Seq(Byte)} /\ (w = Absent <=> ~Exists(d, f))
  BY DEF FileInv
<1>2. ASSUME w.is = "known", ~Writing(d, f)'
      PROVE  /\ EntryOf(d, f)'.fsize = Len(w.bytes)
             /\ \E c : Trail(data', c, EntryOf(d, f)'.nStartBlock) /\ Stored(data', c, w.bytes)
  <2>1. Exists(d, f) /\ EntryOf(d, f)' = EntryOf(d, f)
    BY <1>1, <1>2 DEF Absent
  <2>2. /\ EntryOf(d, f).fsize = Len(w.bytes)
        /\ \E c : Trail(data, c, EntryOf(d, f).nStartBlock) /\ Stored(data, c, w.bytes)
    BY <1>2 DEF FileInv
  <2>3. PICK c : Trail(data, c, EntryOf(d, f).nStartBlock) /\ Stored(data, c, w.bytes)
    BY <2>2
  <2>4. \A i \in 1..Len(c) : data'[c[i]] = data[c[i]]
    BY <2>1, <2>3
  <2>5. Trail(data', c, EntryOf(d, f).nStartBlock) /\ Stored(data', c, w.bytes)
    BY <2>3, <2>4, TrailStays
  <2>6. QED
    BY <2>1, <2>2, <2>5
<1>3. QED
  BY <1>1, <1>2 DEF FileInv

\* The files are where they were as long as the directory blocks are.
LEMMA SameEntries ==
  ASSUME NEW d, NEW f, get_dir(d)' = get_dir(d)
  PROVE  Exists(d, f)' = Exists(d, f) /\ EntryOf(d, f)' = EntryOf(d, f)
BY DEF Exists, EntryOf

LEMMA SameDirs ==
  ASSUME UNCHANGED <<root, dir>>, NEW d
  PROVE  get_dir(d)' = get_dir(d)
<1>1. dir_exists(d)' = dir_exists(d) /\ DirBlock(d)' = DirBlock(d)
  BY SameDir
<1>2. QED
  BY <1>1 DEF get_dir

\* What a thread is doing, for the invariant.
LEMMA AloneWriting ==
  ASSUME OneThread, NEW t \in Thread, NEW d, NEW f
  PROVE  Writing(d, f) <=> th[t] \in WriteOp /\ th[t].dir = d /\ th[t].file = f
BY DEF Writing, OneThread

\* A step that changes neither the directories and the pieces of files on the
\* disk nor what readers are entitled to.
LEMMA LocalReads ==
  ASSUME OneThread, ReadInv, NEW t \in Thread, UNCHANGED <<root, dir, data, written>>,
         th'[t] \in MknodOp => th'[t].entry = get_dir(th'[t].dir),
         th'[t] \in WriteOp => WriteInv(t)',
         th[t] \in WriteOp =>
           th'[t] \in WriteOp /\ th'[t].dir = th[t].dir /\ th'[t].file = th[t].file
  PROVE  ReadInv'
<1>1. \A d : get_dir(d)' = get_dir(d)
  BY SameDirs
<1>2. \A u \in Thread : u = t
  BY DEF OneThread
<1>3. ASSUME NEW u \in Thread, th'[u] \in MknodOp PROVE th'[u].entry = get_dir(th[u].dir)'
  <2>1. get_dir(th[u].dir)' = get_dir(th'[u].dir)
    BY <1>1 DEF get_dir, DirBlock, dir_exists
  <2>2. QED
    BY <1>2, <1>3, <2>1
<1>4. ASSUME NEW d \in Dir, NEW f \in File PROVE FileInv(d, f)'
  <2>1. Exists(d, f)' = Exists(d, f) /\ EntryOf(d, f)' = EntryOf(d, f)
    BY <1>1, SameEntries
  <2>2. Writing(d, f) => Writing(d, f)'
    BY <1>2 DEF Writing
  <2>3. FileInv(d, f)
    BY DEF ReadInv
  <2>4. QED
    BY <2>1, <2>2, <2>3, FileStays
<1>5. /\ data'[0].nNextBlock = 0
      /\ \A b \in Block : dir'[b] # <<>> => \E i \in 1..Len(root') : root'[i].nStartBlock = b
  BY DEF ReadInv
<1>6. \A u \in Thread : th'[u] \in WriteOp => WriteInv(u)'
  BY <1>2
<1>7. QED
  BY <1>3, <1>4, <1>5, <1>6 DEF ReadInv

\* A formatted disk has no files.
LEMMA ReadInit == Init => ReadInv
<1> SUFFICES ASSUME Init PROVE ReadInv
  OBVIOUS
<1>0. 0 \in Block /\ <<>> \in Listing
  <2>1. BLOCKS \in Nat /\ BLOCKS > 2 /\ MAX_FILES_IN_DIR \in Nat
    BY FileSystemAssumption
  <2>2. QED
    BY <2>1, EmptySeq DEF Block, Listing
<1>1. data[0].nNextBlock = 0
  BY <1>0 DEF Init
<1>2. \A b \in Block : dir[b] = <<>>
  BY DEF Init
<1>3. \A t \in Thread : th[t] = Idle
  BY DEF Init
<1>4. ASSUME NEW d \in Dir, NEW f \in File PROVE FileInv(d, f)
  <2>1. dir_exists(d) = 0
    BY DEF Init, dir_exists
  <2>2. get_dir(d) = <<>>
    BY <2>1 DEF get_dir
  <2>3. Find(<<>>, f) = 0
    BY DEF Find
  <2>4. ~Exists(d, f)
    BY <2>2, <2>3 DEF Exists
  <2>5. written[<<d, f>>] = Absent
    BY DEF Init
  <2>6. QED
    BY <2>4, <2>5 DEF FileInv, Absent
<1>5. QED
  BY <1>1, <1>2, <1>3, <1>4, Kinds DEF ReadInv

\* csc452_mkdir and csc452_mknod begin.
LEMMA StartReads ==
  ASSUME OneThread, FsInv, ReadInv, NEW t \in Thread, NEW d \in Dir
  PROVE  /\ Mkdir(t, d) => ReadInv'
         /\ \A f \in File : Mknod(t, d, f) => ReadInv'
<1>0. th \in [Thread -> Op] /\ 0 \in 0..BLOCKS-2
  BY FileSystemAssumption DEF FsInv
<1>1. ASSUME Mkdir(t, d) PROVE ReadInv'
  <2> DEFINE r == [pc |-> "get_tracker", op |-> "mkdir", dir |-> d,
                   file |-> d, entry |-> <<>>, next_free |-> 0]
  <2>1. /\ th'[t] = r /\ UNCHANGED <<root, dir, data, written>> /\ th[t] = Idle
    BY <1>0, <1>1 DEF Mkdir, MayStart, diskVars
  <2>2. r \in MkdirOp
    BY <1>0 DEF MkdirOp, CreatePC
  <2> HIDE DEF r
  <2>3. th'[t] \notin MknodOp /\ th'[t] \notin WriteOp /\ th[t] \notin WriteOp
    BY <2>1, <2>2, Kinds
  <2>4. QED
    BY <2>1, <2>3, LocalReads
<1>2. ASSUME NEW f \in File, Mknod(t, d, f) PROVE ReadInv'
  <2> DEFINE r == [pc |-> "get_tracker", op |-> "mknod", dir |-> d,
                   file |-> f, entry |-> get_dir(d), next_free |-> 0]
  <2>1. /\ th'[t] = r /\ UNCHANGED <<root, dir, data, written>> /\ th[t] = Idle
    BY <1>0, <1>2 DEF Mknod, MayStart, diskVars
  <2>2. get_dir(d) \in Listing
    BY GetDir
  <2>3. r \in MknodOp /\ r.entry = get_dir(d) /\ r.dir = d
    BY <1>0, <2>2 DEF MknodOp, CreatePC
  <2> HIDE DEF r
  <2>4. th'[t] \notin WriteOp /\ th[t] \notin WriteOp /\ th'[t].entry = get_dir(th'[t].dir)
    BY <2>1, <2>3, Kinds
  <2>5. QED
    BY <2>1, <2>4, LocalReads
<1>3. QED
  BY <1>1, <1>2

\* csc452_write keeps its place while it takes a block or seeks.
LEMMA PlaceStays ==
  ASSUME NEW t \in Thread, th[t].pc # "walk", th'[t].pc # "walk",
         th'[t].dir = th[t].dir, th'[t].file = th[t].file,
         th'[t].offset = th[t].offset, th'[t].size = th[t].size, th'[t].left = th[t].left,
         th'[t].byte = th[t].byte, th'[t].address = th[t].address,
         th'[t].block.bytes = th[t].block.bytes,
         UNCHANGED <<data, written>>,
         EntryOf(th[t].dir, th[t].file)'.nStartBlock = EntryOf(th[t].dir, th[t].file).nStartBlock,
         PlaceInv(t)
  PROVE  PlaceInv(t)'
<1>1. ASSUME NEW c, NEW k, NEW old, Progress(t, c, k, old) PROVE Progress(t, c, k, old)'
  <2>1. Done(t)' = Done(t) /\ Target(t, old)' = Target(t, old)
    BY DEF Done, Target
  <2>2. \A n : Piece(t, n)' = Piece(t, n)
    BY DEF Piece
  <2>3. QED
    BY <1>1, <2>1, <2>2 DEF Progress
<1>2. ASSUME NEW c, NEW w, Place(t, c, w) PROVE Place(t, c, w)'
  BY <1>1, <1>2 DEF Place
<1>3. PICK c : /\ Trail(data, c, EntryOf(th[t].dir, th[t].file).nStartBlock)
               /\ Place(t, c, written[<<th[t].dir, th[t].file>>])
  BY DEF PlaceInv
<1> DEFINE w == written[<<th[t].dir, th[t].file>>]
<1>4. Place(t, c, w)'
  <2> DEFINE v == written[<<th[t].dir, th[t].file>>]
  <2>1. ASSUME NEW v0, v0 = v PROVE Place(t, c, v0)'
    BY <1>2, <1>3, <2>1
  <2>2. QED
    BY <2>1
<1>5. QED
  BY <1>3, <1>4 DEF PlaceInv

\* An operation that has not returned is still the same.
LEMMA OpStays ==
  ASSUME FsInv', NEW t \in Thread, th[t] \in MkdirOp \cup MknodOp \cup WriteOp,
         th'[t].pc # "idle", th'[t].op = th[t].op
  PROVE  /\ th'[t] \in WriteOp <=> th[t] \in WriteOp
         /\ th'[t] \in MknodOp <=> th[t] \in MknodOp
<1>1. th'[t] \in Op
  BY DEF FsInv
<1>2. th'[t] \in MkdirOp \cup MknodOp \cup WriteOp
  BY <1>1, Kinds DEF Op
<1>3. QED
  BY <1>2, Kinds

\* csc452_write takes a block: nothing changes that the reader of a file sees.
LEMMA WriteStays ==
  ASSUME UNCHANGED <<root, dir, data, written>>, NEW t \in Thread, WriteInv(t),
         th[t].pc # "walk", th'[t].pc # "walk",
         th'[t].dir = th[t].dir, th'[t].file = th[t].file, th'[t].entry = th[t].entry,
         th'[t].unsaved = th[t].unsaved,
         th'[t].offset = th[t].offset, th'[t].size = th[t].size, th'[t].left = th[t].left,
         th'[t].byte = th[t].byte, th'[t].address = th[t].address,
         th'[t].block.bytes = th[t].block.bytes,
         th'[t].pc = "save" => ~th[t].unsaved,
         th'[t].pc \in {"seek", "save"} => th'[t].block.nNextBlock # 0
  PROVE  WriteInv(t)'
<1> DEFINE d == th[t].dir
           f == th[t].file
<1>1. get_dir(th[t].dir)' = get_dir(th[t].dir)
  <2>1. \A d0 : get_dir(d0)' = get_dir(d0)
    BY SameDirs
  <2>2. get_dir(th[t].dir)' = get_dir(th'[t].dir)
    BY <2>1 DEF get_dir, DirBlock, dir_exists
  <2>3. QED
    BY <2>2
<1>2. Exists(th[t].dir, th[t].file)' /\ EntryOf(th[t].dir, th[t].file)' = EntryOf(th[t].dir, th[t].file)
  BY <1>1 DEF WriteInv, Exists, EntryOf
<1>3. SizeInv(t)'
  BY <1>1 DEF WriteInv, SizeInv
<1>4. MemoryInv(t)'
  BY DEF WriteInv, MemoryInv
<1>5. PlaceInv(t)'
  BY <1>2, PlaceStays DEF WriteInv
<1>6. QED
  BY <1>2, <1>3, <1>4, <1>5 DEF WriteInv

\* next_free_block(), between its two accesses and after them.
LEMMA TrackerReads ==
  ASSUME OneThread, FsInv, FsInv', OwnInv, ReadInv, NEW t \in Thread,
         GetTracker(t) \/ PutTracker(t) \/ CreateFails(t)
  PROVE  ReadInv'
<1>0. th \in [Thread -> Op] /\ tracker \in Nat
  BY LinkTypes DEF FsInv
<1>1. th[t] \in MkdirOp \cup MknodOp \cup WriteOp
  BY KindOf DEF GetTracker, PutTracker, CreateFails
<1>2. /\ th[t] \in MknodOp => th[t].entry = get_dir(th[t].dir)
      /\ th[t] \in WriteOp => WriteInv(t)
  BY DEF ReadInv
<1>3. CASE GetTracker(t)
  <2> DEFINE r == [[th[t] EXCEPT !.next_free = tracker + 1] EXCEPT !.pc = "put_tracker"]
  <2>1. th'[t] = r /\ th[t].pc = "get_tracker" /\ UNCHANGED <<root, dir, data, written>>
    BY <1>0, <1>3 DEF GetTracker, Goto, diskVars
  <2>2. /\ r.pc = "put_tracker" /\ r.op = th[t].op /\ r.dir = th[t].dir /\ r.file = th[t].file
        /\ r.entry = th[t].entry
    BY <1>1 DEF MkdirOp, MknodOp, WriteOp
  <2>3. ASSUME th[t] \in WriteOp
        PROVE  /\ r.unsaved = th[t].unsaved
               /\ r.offset = th[t].offset /\ r.size = th[t].size /\ r.left = th[t].left
               /\ r.byte = th[t].byte /\ r.address = th[t].address /\ r.block = th[t].block
    BY <2>3 DEF WriteOp
  <2> HIDE DEF r
  <2>4. /\ th'[t] \in WriteOp <=> th[t] \in WriteOp
        /\ th'[t] \in MknodOp <=> th[t] \in MknodOp
    BY <1>1, <2>1, <2>2, OpStays
  <2>5. ASSUME th'[t] \in WriteOp PROVE WriteInv(t)'
    BY <1>2, <2>1, <2>2, <2>3, <2>4, <2>5, WriteStays
  <2>6. QED
    BY <1>2, <2>1, <2>2, <2>4, <2>5, LocalReads
<1>4. CASE PutTracker(t)
  <2>1. /\ th[t].pc = "put_tracker" /\ UNCHANGED <<root, dir, data, written>>
        /\ IF th[t].op = "write"
             THEN Goto(t, ToSave(t), [th[t] EXCEPT !.block.nNextBlock = th[t].next_free])
             ELSE Goto(t, "link", th[t])
    BY <1>4 DEF PutTracker
  <2>2. th[t].next_free = tracker + 1
    BY <2>1 DEF OwnInv, ThreadInv
  <2>3. CASE th[t] \in WriteOp
    <3> DEFINE b == [th[t].block EXCEPT !.nNextBlock = th[t].next_free]
               r == [[th[t] EXCEPT !.block = b] EXCEPT !.pc = ToSave(t)]
    <3>1. th'[t] = r
      BY <1>0, <2>1, <2>3, Kinds DEF Goto
    <3>2. ToSave(t) \in {"seek", "save"} /\ (ToSave(t) = "save" => ~th[t].unsaved)
      BY DEF ToSave
    <3>3. b.nNextBlock # 0 /\ b.bytes = th[t].block.bytes
      BY <1>0, <2>2, <2>3 DEF WriteOp, DiskBlock
    <3> HIDE DEF b
    <3>4. /\ r.pc = ToSave(t) /\ r.op = th[t].op /\ r.dir = th[t].dir /\ r.file = th[t].file
          /\ r.entry = th[t].entry /\ r.unsaved = th[t].unsaved
          /\ r.offset = th[t].offset /\ r.size = th[t].size /\ r.left = th[t].left
          /\ r.byte = th[t].byte /\ r.address = th[t].address /\ r.block = b
      BY <2>3 DEF WriteOp
    <3> HIDE DEF r
    <3>5. th'[t] \in WriteOp /\ th'[t] \notin MknodOp
      BY <2>3, <3>1, <3>2, <3>4, OpStays, Kinds
    <3>6. WriteInv(t)'
      BY <1>2, <2>1, <2>3, <3>1, <3>2, <3>3, <3>4, WriteStays
    <3>7. QED
      BY <2>1, <3>1, <3>4, <3>5, <3>6, LocalReads
  <2>4. CASE th[t] \in MkdirOp \cup MknodOp
    <3> DEFINE r == [th[t] EXCEPT !.pc = "link"]
    <3>1. th'[t] = r
      BY <1>0, <2>1, <2>4, Kinds DEF Goto
    <3>2. /\ r.pc = "link" /\ r.op = th[t].op /\ r.dir = th[t].dir /\ r.entry = th[t].entry
      BY <2>4 DEF MkdirOp, MknodOp
    <3> HIDE DEF r
    <3>3. /\ th'[t] \notin WriteOp /\ th[t] \notin WriteOp
          /\ th'[t] \in MknodOp => th[t] \in MknodOp
      BY <1>1, <2>4, <3>1, <3>2, OpStays, Kinds
    <3>4. QED
      BY <1>2, <2>1, <3>1, <3>2, <3>3, LocalReads
  <2>5. QED
    BY <1>1, <2>3, <2>4
<1>5. CASE CreateFails(t)
  <2>1. th'[t] = Idle /\ UNCHANGED <<root, dir, data, written>> /\ th[t].op # "write"
    BY <1>0, <1>5 DEF CreateFails, Return, diskVars
  <2>2. th'[t] \notin WriteOp /\ th'[t] \notin MknodOp /\ th[t] \notin WriteOp
    BY <2>1, Kinds
  <2>3. QED
    BY <2>1, <2>2, LocalReads
<1>6. QED
  BY <1>3, <1>4, <1>5

\* What a file holds after a write: the bytes before the offset, then the new ones.
LEMMA TargetIs ==
  ASSUME NEW old \in Seq(Byte), NEW o \in 0..Len(old), NEW s \in Nat, NEW b \in Byte,
         NEW T, T = SubSeq(old, 1, o) \o [i \in 1..s |-> b]
  PROVE  /\ T \in Seq(Byte) /\ Len(T) = o + s
         /\ \A g \in Nat : g < o => T[g+1] = old[g+1]
         /\ \A g \in Nat : o <= g /\ g < o + s => T[g+1] = b
<1>1. Len(old) \in Nat
  OBVIOUS
<1>2. /\ SubSeq(old, 1, o) \in Seq(Byte) /\ Len(SubSeq(old, 1, o)) = o
      /\ \A i \in 1..o : SubSeq(old, 1, o)[i] = old[i]
  <2>1. 1 \in 1..Len(old)+1 /\ o \in 1-1..Len(old)
    BY <1>1
  <2>2. \A i \in 1..o : i \in 1..Len(old)
    BY <1>1
  <2>3. QED
    BY <1>1, <2>1, <2>2, SubSeqProperties
<1> DEFINE p == SubSeq(old, 1, o)
           q == [i \in 1..s |-> b]
<1>3. q \in Seq(Byte) /\ Len(q) = s /\ \A i \in 1..s : q[i] = b
  OBVIOUS
<1>4. p \in Seq(Byte) /\ Len(p) = o /\ \A i \in 1..o : p[i] = old[i]
  BY <1>2
<1> HIDE DEF p, q
<1>5. /\ p \o q \in Seq(Byte) /\ Len(p \o q) = Len(p) + Len(q)
      /\ \A i \in 1..Len(p) + Len(q) : (p \o q)[i] = IF i <= Len(p) THEN p[i] ELSE q[i - Len(p)]
  BY <1>3, <1>4, ConcatProperties
<1>6. T = p \o q
  BY DEF p, q
<1>7. ASSUME NEW g \in Nat, g < o PROVE T[g+1] = old[g+1]
  <2>1. g + 1 \in 1..o /\ g + 1 \in 1..o + s /\ g + 1 <= o
    BY <1>7
  <2>2. QED
    BY <1>3, <1>4, <1>5, <1>6, <2>1
<1>8. ASSUME NEW g \in Nat, o <= g, g < o + s PROVE T[g+1] = b
  <2>1. g + 1 \in 1..o + s /\ ~(g + 1 <= o) /\ g + 1 - o \in 1..s
    BY <1>8
  <2>2. QED
    BY <1>3, <1>4, <1>5, <1>6, <2>1
<1>9. QED
  BY <1>3, <1>4, <1>5, <1>6, <1>7, <1>8

\* A file of which something is promised.
LEMMA KnownIs ==
  ASSUME NEW w, w \in {Absent, Unknown} \cup {Known(s) : s \in Seq(Byte)}, w.is = "known"
  PROVE  w.bytes \in Seq(Byte) /\ w = Known(w.bytes) /\ w # Unknown /\ w # Absent
BY DEF Absent, Unknown, Known

\* The bytes of a block have positions.
LEMMA PosTypes ==
  ASSUME NEW n \in Nat
  PROVE  \A j \in 1..n, x \in Index : Pos(j, x) \in Nat /\ Pos(j, x) = Pos(j, 0) + x /\ Pos(j, 0) \in Nat
                                      /\ x \in Nat /\ x < MAX_DATA_IN_BLOCK
<1> TAKE j \in 1..n, x \in Index
<1>1. j \in Nat \ {0} /\ x \in Nat /\ 0 \in Nat /\ x < MAX_DATA_IN_BLOCK
  BY FileSystemAssumption DEF Index
<1>2. QED
  BY <1>1, Positions

\* csc452_write begins: it is at the first block of the file, and everything
\* before the offset is in place.
LEMMA WriteBeginReads ==
  ASSUME OneThread, FsInv, FsInv', OwnInv, ReadInv, NEW t \in Thread, NEW d \in Dir, NEW f \in File,
         NEW b \in Byte, NEW offset \in 0..MaxSize, NEW size \in 1..(MaxSize - offset),
         WriteBegin(t, d, f, offset, size, b)
  PROVE  ReadInv'
<1> DEFINE e == get_dir(d)
           i == Find(e, f)
           start == e[i].nStartBlock
           r == [pc |-> "walk", op |-> "write", dir |-> d, file |-> f, next_free |-> 0,
                 entry |-> [e EXCEPT ![i].fsize = offset + size],
                 unsaved |-> offset + size # e[i].fsize,
                 address |-> start, block |-> data[start],
                 offset |-> offset, size |-> size, begin_index |-> offset,
                 left |-> size, byte |-> b]
           w == written[<<d, f>>]
<1>0. MaxSize \in Nat /\ th \in [Thread -> Op]
  BY FileSystemAssumption DEF FsInv
<1>1. /\ i # 0 /\ th'[t] = r /\ UNCHANGED <<root, dir, data, written>>
      /\ offset <= e[i].fsize /\ th[t] = Idle
  BY <1>0 DEF WriteBegin, MayStart, diskVars
<1>2. /\ Exists(d, f) /\ EntryOf(d, f) = e[i] /\ e \in Listing /\ i \in 1..Len(e)
      /\ EntryOf(d, f) \in Entry
  <2>1. Exists(d, f)
    BY <1>1 DEF Exists
  <2>2. QED
    BY <2>1, EntryIs
<1>3. /\ r.pc = "walk" /\ r.op = "write" /\ r.dir = d /\ r.file = f
      /\ r.entry = [e EXCEPT ![i].fsize = offset + size]
      /\ r.unsaved = (offset + size # e[i].fsize)
      /\ r.address = start /\ r.block = data[start]
      /\ r.offset = offset /\ r.size = size /\ r.begin_index = offset /\ r.left = size
      /\ r.byte = b
  OBVIOUS
<1> HIDE DEF r
<1>4. get_dir(d)' = e /\ Exists(d, f)' /\ EntryOf(d, f)' = EntryOf(d, f)
  <2>1. get_dir(d)' = get_dir(d)
    BY <1>1, SameDirs
  <2>2. QED
    BY <1>2, <2>1, SameEntries
<1>5. /\ get_dir(th[t].dir)' = e /\ Find(get_dir(th[t].dir)', th'[t].file) = i
      /\ Exists(th[t].dir, th[t].file)' /\ EntryOf(th[t].dir, th[t].file)' = EntryOf(d, f)
  <2>1. get_dir(th[t].dir)' = get_dir(th'[t].dir)
    BY <1>1 DEF get_dir, DirBlock, dir_exists
  <2>2. QED
    BY <1>1, <1>2, <1>3, <1>4, <2>1 DEF Exists, EntryOf
<1>6. SizeInv(t)'
  <2>1. offset + size = e[i].fsize => r.entry = e
    <3>1. ASSUME offset + size = e[i].fsize PROVE [e EXCEPT ![i].fsize = offset + size] = e
      <4> HIDE DEF e, i
      <4>1. e \in Seq(Entry) /\ e[i] \in Entry
        BY <1>2, ElementOfSeq DEF Listing
      <4>2. [e[i] EXCEPT !.fsize = offset + size] = e[i]
        BY <3>1, <4>1 DEF Entry
      <4>3. [e EXCEPT ![i].fsize = offset + size] = [e EXCEPT ![i] = [e[i] EXCEPT !.fsize = offset + size]]
        OBVIOUS
      <4>4. [e EXCEPT ![i] = e[i]] = e
        BY <4>1
      <4>5. QED
        BY <4>2, <4>3, <4>4
    <3>2. QED
      BY <1>3, <3>1
  <2>2. QED
    BY <1>1, <1>3, <1>5, <2>1 DEF SizeInv
<1>7. MemoryInv(t)'
  BY <1>1, <1>3 DEF MemoryInv
<1>8. start \in Block \ {0} /\ start = EntryOf(d, f).nStartBlock
  BY <1>2, StartsDiffer DEF OwnInv
<1>9. \A n : Piece(t, n)' = data[n].bytes
  BY <1>1, <1>3 DEF Piece
<1>10. Done(t)' = offset
  <2>1. offset + size - size = offset
    BY <1>0
  <2>2. QED
    BY <1>1, <1>3, <2>1 DEF Done
<1>11. FileInv(d, f) /\ ~Writing(d, f)
  BY <1>1, Kinds, AloneWriting DEF ReadInv
<1>12. PlaceInv(t)'
  <2>1. \E c : Trail(data', c, start) /\ Place(t, c, w)'
    <3>1. CASE w.is = "known"
      <4>1. PICK c : Trail(data, c, start) /\ Stored(data, c, w.bytes)
        BY <1>8, <1>11, <3>1 DEF FileInv
      <4>2. Len(w.bytes) = e[i].fsize /\ w.bytes \in Seq(Byte)
        <5>1. /\ w \in {Absent, Unknown} \cup {Known(s) : s \in Seq(Byte)}
              /\ EntryOf(d, f).fsize = Len(w.bytes)
          BY <1>11, <3>1 DEF FileInv
        <5>2. w.bytes \in Seq(Byte)
          <6> HIDE DEF w
          <6>1. QED
            BY <3>1, <5>1, KnownIs
        <5>3. QED
          BY <1>2, <5>1, <5>2
      <4>0. PICK old : old = w.bytes
        OBVIOUS
      <4> DEFINE T == SubSeq(old, 1, offset) \o [n \in 1..size |-> b]
      <4>3. offset <= Len(old) /\ offset \in 0..Len(old) /\ old \in Seq(Byte) /\ Len(old) \in Nat
        BY <1>0, <1>1, <4>0, <4>2
      <4>4. \A g \in Nat : g < offset => T[g+1] = old[g+1]
        <5>1. size \in Nat
          BY <1>0
        <5>2. QED
          BY <4>3, <5>1, TargetIs
      <4>5. /\ Len(c) \in Nat \ {0} /\ c[1] = start
            /\ \A j \in 1..Len(c) : c[j] \in Block
        BY <4>1, TrailRises DEF OwnInv
      <4>6. Len(old) <= Pos(Len(c), MAX_DATA_IN_BLOCK)
            /\ \A j \in 1..Len(c), x \in Index : Pos(j, x) < Len(old) =>
                 data[c[j]].bytes[x] = old[Pos(j, x) + 1]
        BY <4>0, <4>1 DEF Stored
      <4>7. \A j \in 1..Len(c), x \in Index : Pos(j, x) \in Nat
        BY <4>5, PosTypes
      <4>8. Pos(1, offset) = offset /\ Pos(Len(c), MAX_DATA_IN_BLOCK) \in Nat
        BY <4>5, Positions
      <4>9. Progress(t, c, 1, old)'
        <5>1. Target(t, old)' = T
          BY <1>1, <1>3 DEF Target
        <5> HIDE DEF T
        <5>2. \A j \in 1..Len(c), x \in Index : Pos(j, x) < offset =>
                data[c[j]].bytes[x] = T[Pos(j, x) + 1]
          BY <1>0, <4>3, <4>4, <4>6, <4>7
        <5>3. offset <= Pos(Len(c), MAX_DATA_IN_BLOCK)
          BY <4>3, <4>6, <4>8
        <5>4. \A j \in 1..Len(c), x \in Index : Pos(j, x) < Done(t)' =>
                Piece(t, c[j])' [x] = Target(t, old)'[Pos(j, x) + 1]
          BY <1>9, <1>10, <5>1, <5>2
        <5>5. /\ th'[t].offset <= Len(old)
              /\ Done(t)' <= Pos(Len(c), MAX_DATA_IN_BLOCK)
              /\ th'[t].pc = "walk" /\ Done(t)' = Pos(1, th'[t].begin_index)
          BY <1>1, <1>3, <1>10, <4>3, <4>8, <5>3
        <5>6. QED
          BY <5>4, <5>5 DEF Progress
      <4>10. th'[t].address = c[1] /\ 1 \in 1..Len(c)
        BY <1>1, <1>3, <4>5
      <4>11. \A v : v.bytes = old => Place(t, c, v)'
        BY <4>9, <4>10 DEF Place
      <4>12. Place(t, c, w)'
        BY <1>1, <4>0, <4>11
      <4>13. QED
        BY <1>1, <4>1, <4>12
    <3>2. CASE w.is # "known"
      <4>0. PICK c : c = <<start>>
        OBVIOUS
      <4>1. c \in Seq(Block \ {0}) /\ c # <<>> /\ c[1] = start /\ Len(c) = 1
        <5> HIDE DEF start
        <5>1. QED
          BY <1>8, <4>0
      <4>2. Trail(data', c, start)
        BY <4>1 DEF Trail
      <4>3. \A v : v.is # "known" => Place(t, c, v)'
        BY <1>1, <1>3, <4>1 DEF Place
      <4>4. Place(t, c, w)'
        BY <1>1, <3>2, <4>3
      <4>5. QED
        BY <4>2, <4>4
    <3>3. QED
      BY <3>1, <3>2
  <2>2. PICK c : Trail(data', c, start) /\ Place(t, c, w)'
    BY <2>1
  <2>3. \A v : v = w => Place(t, c, v)'
    BY <1>1, <2>2
  <2>4. written'[<<th'[t].dir, th'[t].file>>] = w
    BY <1>1, <1>3
  <2>5. Place(t, c, written[<<th[t].dir, th[t].file>>])'
    BY <2>3, <2>4
  <2>6. QED
    BY <1>5, <1>8, <2>2, <2>5 DEF PlaceInv
<1>13. th'[t] \notin MknodOp /\ th[t] \notin WriteOp
  BY <1>1, <1>3, Kinds
<1>14. WriteInv(t)'
  BY <1>5, <1>6, <1>7, <1>12 DEF WriteInv
<1>15. QED
  BY <1>1, <1>13, <1>14, LocalReads

\* How far csc452_write gets in a file of m blocks: begin bytes of the k-th are in
\* place, n more go into it, and left are left.
Filling(o, s, left, begin, n, m, k, L) ==
  /\ o \in Nat /\ s \in Nat /\ left \in Nat /\ left <= s /\ begin \in Nat /\ n \in Nat
  /\ m \in Nat /\ k \in 1..m /\ L \in Nat /\ L = o + s - left /\ L = Pos(k, begin)
  /\ n <= left /\ begin + n <= MAX_DATA_IN_BLOCK
  /\ n = left \/ begin + n = MAX_DATA_IN_BLOCK

Filled(o, s, left, begin, n, m, k, L) ==
  /\ Pos(k, 0) <= L + n /\ L + n <= Pos(k, MAX_DATA_IN_BLOCK)
  /\ L + n <= Pos(m, MAX_DATA_IN_BLOCK)
  /\ left - n > 0 => L + n = Pos(k, MAX_DATA_IN_BLOCK)
  /\ \A j \in 1..m, x \in Index : Pos(j, x) < L + n =>
       \/ j # k /\ Pos(j, x) < L
       \/ j = k /\ x < begin /\ Pos(j, x) < L
       \/ j = k /\ x >= begin /\ x < begin + n /\ o <= Pos(j, x) /\ Pos(j, x) < o + s

LEMMA FillPositions ==
  ASSUME NEW o, NEW s, NEW left, NEW begin, NEW n, NEW m, NEW k, NEW L,
         Filling(o, s, left, begin, n, m, k, L)
  PROVE  Filled(o, s, left, begin, n, m, k, L)
<1>f. PICK M : M = MAX_DATA_IN_BLOCK
  OBVIOUS
<1>0. /\ o \in Nat /\ s \in Nat /\ left \in Nat /\ left <= s /\ begin \in Nat /\ n \in Nat
      /\ m \in Nat /\ k \in 1..m /\ L \in Nat /\ L = o + s - left /\ L = Pos(k, begin)
      /\ n <= left /\ begin + n <= M
      /\ n = left \/ begin + n = M
  BY <1>f DEF Filling
<1>1. k \in Nat \ {0} /\ k <= m /\ M \in Nat /\ 0 \in Nat
  BY <1>0, <1>f, FileSystemAssumption
<1>2. Pos(k, begin) = Pos(k, 0) + begin /\ Pos(k, M) = Pos(k, 0) + M /\ Pos(k, 0) \in Nat
  BY <1>0, <1>f, <1>1, Positions
<1>3. L = Pos(k, 0) + begin
  BY <1>0, <1>2
<1>4. Pos(k, 0) <= L + n /\ L + n <= Pos(k, M) /\ (left - n > 0 => L + n = Pos(k, M))
  BY <1>0, <1>1, <1>2, <1>3
<1>5. L + n <= Pos(m, M)
  <2>1. CASE k = m
    BY <1>4, <2>1
  <2>2. CASE k < m
    <3>1. m \in Nat \ {0}
      BY <1>0, <1>1
    <3>2. Pos(k, M) <= Pos(m, 0) /\ Pos(m, M) = Pos(m, 0) + M /\ Pos(m, 0) \in Nat
      BY <1>1, <2>2, <3>1, <1>f, Positions
    <3>3. QED
      BY <1>0, <1>1, <1>2, <1>4, <3>2
  <2>3. QED
    BY <1>0, <1>1, <2>1, <2>2
<1>6. ASSUME NEW j \in 1..m, NEW x \in Index, Pos(j, x) < L + n
      PROVE  \/ j # k /\ Pos(j, x) < L
             \/ j = k /\ x < begin /\ Pos(j, x) < L
             \/ j = k /\ x >= begin /\ x < begin + n /\ o <= Pos(j, x) /\ Pos(j, x) < o + s
  <2>1. /\ Pos(j, x) = Pos(j, 0) + x /\ Pos(j, 0) \in Nat /\ Pos(j, M) = Pos(j, 0) + M
        /\ x \in Nat /\ x < M /\ j \in Nat \ {0}
    <3>1. j \in Nat \ {0} /\ x \in Nat /\ x < M
      BY <1>0, <1>f, FileSystemAssumption DEF Index
    <3>2. QED
      BY <1>1, <1>f, <3>1, Positions
  <2>2. CASE j = k
    <3>1. Pos(j, x) = Pos(k, 0) + x
      BY <2>1, <2>2
    <3>2. x < begin + n
      BY <1>0, <1>2, <1>3, <1>6, <2>1, <3>1
    <3>3. x >= begin => o <= Pos(j, x) /\ Pos(j, x) < o + s
      BY <1>0, <1>2, <1>3, <2>1, <3>1, <3>2
    <3>4. x < begin => Pos(j, x) < L
      BY <1>0, <1>2, <1>3, <2>1, <3>1
    <3>5. QED
      BY <1>0, <2>1, <2>2, <3>2, <3>3, <3>4
  <2>3. CASE j < k
    <3>1. Pos(j, M) <= Pos(k, 0)
      BY <1>1, <1>f, <2>1, <2>3, Positions
    <3>2. Pos(j, x) < L
      BY <1>0, <1>1, <1>2, <1>3, <2>1, <3>1
    <3>3. QED
      BY <2>3, <3>2
  <2>4. CASE k < j
    <3>1. Pos(k, M) <= Pos(j, 0)
      BY <1>1, <1>f, <2>1, <2>4, Positions
    <3>2. FALSE
      BY <1>0, <1>1, <1>2, <1>4, <1>6, <2>1, <3>1
    <3>3. QED
      BY <3>2
  <2>5. QED
    BY <1>1, <2>1, <2>2, <2>3, <2>4
<1>7. QED
  BY <1>f, <1>4, <1>5, <1>6 DEF Filled

\* The bytes that csc452_write puts into the block in memory are the next ones of
\* the file.
LEMMA FillProgress ==
  ASSUME FsInv, LinksForward, NEW t \in Thread, th[t] \in WriteOp, th[t].left <= th[t].size,
         NEW b, NEW c, Trail(data, c, b), NEW k \in 1..Len(c), th[t].address = c[k],
         NEW old \in Seq(Byte), Progress(t, c, k, old),
         th[t].pc = "walk", th[t].begin_index <= MAX_DATA_IN_BLOCK,
         NEW n \in Nat, n <= th[t].left, th[t].begin_index + n <= MAX_DATA_IN_BLOCK,
         n = th[t].left \/ th[t].begin_index + n = MAX_DATA_IN_BLOCK,
         data' = data, th'[t].pc # "walk",
         th'[t].offset = th[t].offset, th'[t].size = th[t].size, th'[t].byte = th[t].byte,
         th'[t].address = th[t].address, th'[t].left = th[t].left - n,
         \A x \in Index : th'[t].block.bytes[x] =
           IF x >= th[t].begin_index /\ x < th[t].begin_index + n THEN th[t].byte
                                                                  ELSE th[t].block.bytes[x]
  PROVE  Progress(t, c, k, old)'
<1>a. PICK o : o = th[t].offset
  OBVIOUS
<1>b. PICK s : s = th[t].size
  OBVIOUS
<1>c. PICK left : left = th[t].left
  OBVIOUS
<1>d. PICK begin : begin = th[t].begin_index
  OBVIOUS
<1>e. PICK byte : byte = th[t].byte
  OBVIOUS
<1>f. PICK M : M = MAX_DATA_IN_BLOCK
  OBVIOUS
<1>g. PICK T : T = Target(t, old)
  OBVIOUS
<1>h. PICK L : L = Done(t)
  OBVIOUS
<1>0. /\ o = th[t].offset /\ s = th[t].size /\ left = th[t].left /\ begin = th[t].begin_index
      /\ M = MAX_DATA_IN_BLOCK /\ byte = th[t].byte /\ T = Target(t, old)
      /\ L = Done(t) /\ L = o + s - left /\ left <= s
      /\ o \in Nat /\ s \in Nat /\ left \in Nat /\ begin \in Nat /\ M \in Nat
      /\ byte \in Byte /\ L \in Nat
  <2>1. /\ th[t].offset \in Nat /\ th[t].size \in Nat /\ th[t].left \in Nat
        /\ th[t].begin_index \in Nat /\ MAX_DATA_IN_BLOCK \in Nat /\ th[t].byte \in Byte
    BY FileSystemAssumption DEF WriteOp
  <2>2. o \in Nat /\ s \in Nat /\ left \in Nat /\ left <= s
    BY <1>a, <1>b, <1>c, <2>1
  <2>3. L = o + s - left
    BY <1>a, <1>b, <1>c, <1>h DEF Done
  <2>4. L \in Nat
    BY <2>2, <2>3
  <2>5. QED
    BY <1>a, <1>b, <1>c, <1>d, <1>e, <1>f, <1>g, <1>h, <2>1, <2>2, <2>3, <2>4
<1>n. /\ o \in Nat /\ s \in Nat /\ left \in Nat /\ begin \in Nat /\ M \in Nat /\ L \in Nat
      /\ byte \in Byte /\ L = o + s - left /\ left <= s
  BY <1>0
<1>1. /\ o <= Len(old) /\ L = Pos(k, begin)
      /\ \A j \in 1..Len(c), x \in Index : Pos(j, x) < L => Piece(t, c[j])[x] = T[Pos(j, x) + 1]
  BY <1>0 DEF Progress
<1>2. /\ Len(c) \in Nat \ {0} /\ \A i, j \in 1..Len(c) : i < j => c[i] < c[j]
      /\ \A i \in 1..Len(c) : c[i] \in Nat
  BY TrailRises
<1>k. k \in 1..Len(c) /\ Len(c) \in Nat
  BY <1>2
<1>3. /\ Done(t)' = L + n /\ Target(t, old)' = T
      /\ n <= left /\ begin + n <= M /\ (n = left \/ begin + n = M)
  <2>1. Done(t)' = o + s - (left - n)
    BY <1>0 DEF Done
  <2>2. Target(t, old)' = T
    BY <1>0 DEF Target
  <2>3. n <= left /\ begin + n <= M /\ (n = left \/ begin + n = M)
    BY <1>c, <1>d, <1>f
  <2>4. o + s - (left - n) = L + n
    BY <1>n
  <2>5. QED
    BY <2>1, <2>2, <2>3, <2>4
<1>4. L = Pos(k, begin)
  BY <1>1
<1>5. \A g \in Nat : o <= g /\ g < o + s => T[g+1] = byte
  <2>1. T = SubSeq(old, 1, o) \o [i \in 1..s |-> byte] /\ o \in 0..Len(old)
    BY <1>0, <1>1 DEF Target
  <2>2. QED
    BY <1>n, <2>1, TargetIs
<1>6. /\ Pos(k, 0) <= L + n /\ L + n <= Pos(k, M) /\ L + n <= Pos(Len(c), M)
      /\ left - n > 0 => L + n = Pos(k, M)
      /\ \A j \in 1..Len(c), x \in Index : Pos(j, x) < L + n =>
           \/ j # k /\ Pos(j, x) < L
           \/ j = k /\ x < begin /\ Pos(j, x) < L
           \/ j = k /\ x >= begin /\ x < begin + n /\ o <= Pos(j, x) /\ Pos(j, x) < o + s
  <2>1. n \in Nat /\ n <= left /\ begin + n <= M /\ (n = left \/ begin + n = M)
    BY <1>3
  <2>2. Filling(o, s, left, begin, n, Len(c), k, L)
    BY <1>n, <1>f, <1>k, <1>4, <2>1 DEF Filling
  <2>3. Filled(o, s, left, begin, n, Len(c), k, L)
    BY <2>2, FillPositions
  <2>4. QED
    BY <2>3, <1>f DEF Filled
<1>9. ASSUME NEW j \in 1..Len(c), NEW x \in Index, Pos(j, x) < L + n
      PROVE  Piece(t, c[j])'[x] = T[Pos(j, x) + 1]
  <2>1. CASE j # k /\ Pos(j, x) < L
    <3>1. c[j] # c[k]
      <4>1. j < k \/ k < j
        BY <1>k, <2>1
      <4>2. c[j] \in Nat /\ c[k] \in Nat /\ (c[j] < c[k] \/ c[k] < c[j])
        BY <1>2, <4>1
      <4>3. QED
        BY <4>2
    <3>2. Piece(t, c[j])' = data[c[j]].bytes /\ Piece(t, c[j]) = data[c[j]].bytes
      BY <3>1 DEF Piece
    <3>3. QED
      BY <1>1, <2>1, <3>2
  <2>2. CASE j = k /\ x < begin /\ Pos(j, x) < L
    <3>1. Piece(t, c[j])' = th'[t].block.bytes /\ Piece(t, c[j]) = th[t].block.bytes
      BY <2>2 DEF Piece
    <3>2. th[t].block.bytes[x] = T[Pos(j, x) + 1]
      BY <1>1, <2>2, <3>1
    <3>3. th'[t].block.bytes[x] = th[t].block.bytes[x]
      <4>1. ~(x >= begin)
        <5>1. x \in Nat
          BY FileSystemAssumption DEF Index
        <5>2. QED
          BY <1>n, <2>2, <5>1
      <4>2. QED
        BY <1>d, <4>1
    <3>4. QED
      BY <3>1, <3>2, <3>3
  <2>3. CASE j = k /\ x >= begin /\ x < begin + n /\ o <= Pos(j, x) /\ Pos(j, x) < o + s
    <3>1. Piece(t, c[j])' = th'[t].block.bytes
      BY <2>3 DEF Piece
    <3>2. th'[t].block.bytes[x] = byte
      BY <1>d, <1>e, <2>3
    <3>3. T[Pos(j, x) + 1] = byte
      <4>1. Pos(j, x) \in Nat
        BY <1>k, PosTypes
      <4>2. QED
        BY <1>5, <2>3, <4>1
    <3>4. QED
      BY <3>1, <3>2, <3>3
  <2>4. QED
    BY <1>6, <1>9, <2>1, <2>2, <2>3
<1>10. \A j \in 1..Len(c), x \in Index : Pos(j, x) < Done(t)' =>
          Piece(t, c[j])'[x] = Target(t, old)'[Pos(j, x) + 1]
  BY <1>3, <1>9
<1>11. /\ th'[t].offset <= Len(old) /\ Done(t)' <= Pos(Len(c), MAX_DATA_IN_BLOCK)
       /\ Pos(k, 0) <= Done(t)' /\ Done(t)' <= Pos(k, MAX_DATA_IN_BLOCK)
       /\ th'[t].left > 0 => Done(t)' = Pos(k, MAX_DATA_IN_BLOCK)
  BY <1>c, <1>f, <1>a, <1>1, <1>3, <1>6
<1>12. QED
  BY <1>10, <1>11 DEF Progress

\* csc452_write fills the block in memory.
LEMMA FillReads ==
  ASSUME OneThread, FsInv, FsInv', OwnInv, ReadInv, NEW t \in Thread, WriteFill(t)
  PROVE  ReadInv'
<1>0. th \in [Thread -> Op]
  BY DEF FsInv
<1>1. th[t] \in WriteOp
  BY KindOf DEF WriteFill
<1>2. WriteInv(t)
  BY <1>1 DEF ReadInv
<1> DEFINE room == MAX_DATA_IN_BLOCK - th[t].begin_index
           n == IF th[t].left < room THEN th[t].left ELSE room
           bytes == [i \in Index |-> IF i >= th[t].begin_index /\ i < th[t].begin_index + n
                                       THEN th[t].byte ELSE th[t].block.bytes[i]]
           q == [th[t] EXCEPT !.left = @ - n, !.block.bytes = bytes]
           pc == IF th[t].left > n /\ th[t].block.nNextBlock = 0 THEN "get_tracker" ELSE ToSave(t)
           r == [q EXCEPT !.pc = pc]
<1>3. /\ th'[t] = r /\ th[t].pc = "walk" /\ th[t].begin_index <= MAX_DATA_IN_BLOCK
      /\ UNCHANGED <<root, dir, data, written>>
  BY <1>0 DEF WriteFill, Goto, diskVars
<1>4. /\ pc \in {"get_tracker", "seek", "save"} /\ (pc = "save" => ~th[t].unsaved)
      /\ pc \in {"seek", "save"} => ~(th[t].left > n) \/ th[t].block.nNextBlock # 0
  BY DEF ToSave
<1>5. /\ n \in Nat /\ n <= th[t].left /\ th[t].begin_index + n <= MAX_DATA_IN_BLOCK
      /\ n = th[t].left \/ th[t].begin_index + n = MAX_DATA_IN_BLOCK
      /\ th[t].left \in Nat /\ th[t].size \in Nat
  <2>1. th[t].left \in Nat /\ th[t].begin_index \in Nat /\ MAX_DATA_IN_BLOCK \in Nat /\ th[t].size \in Nat
    BY <1>1, FileSystemAssumption DEF WriteOp
  <2>2. QED
    BY <1>3, <2>1
<1>6. /\ q.op = th[t].op /\ q.dir = th[t].dir /\ q.file = th[t].file /\ q.entry = th[t].entry
      /\ q.unsaved = th[t].unsaved
      /\ q.offset = th[t].offset /\ q.size = th[t].size /\ q.byte = th[t].byte
      /\ q.address = th[t].address /\ q.left = th[t].left - n /\ q.block.bytes = bytes
      /\ q.block.nNextBlock = th[t].block.nNextBlock /\ DOMAIN q = DOMAIN th[t]
  <2>1. th[t].block \in DiskBlock
    BY <1>1 DEF WriteOp
  <2> HIDE DEF bytes, n
  <2>2. QED
    BY <1>1, <2>1 DEF WriteOp, DiskBlock
<1>7. /\ r.op = th[t].op /\ r.dir = th[t].dir /\ r.file = th[t].file /\ r.entry = th[t].entry
      /\ r.unsaved = th[t].unsaved
      /\ r.offset = th[t].offset /\ r.size = th[t].size /\ r.byte = th[t].byte
      /\ r.address = th[t].address /\ r.left = th[t].left - n /\ r.block.bytes = bytes
      /\ r.block.nNextBlock = th[t].block.nNextBlock /\ r.pc = pc
  <2> HIDE DEF q, pc, bytes, n
  <2>1. "pc" \in DOMAIN q
    BY <1>1, <1>6 DEF WriteOp
  <2>2. QED
    BY <1>6, <2>1
<1>8. \A x \in Index : r.block.bytes[x] =
        IF x >= th[t].begin_index /\ x < th[t].begin_index + n THEN th[t].byte
                                                               ELSE th[t].block.bytes[x]
  <2> HIDE DEF r, n
  <2>1. QED
    BY <1>7
<1> HIDE DEF r, pc, q, bytes, n
<1>9. get_dir(th[t].dir)' = get_dir(th[t].dir)
  <2>1. \A d0 : get_dir(d0)' = get_dir(d0)
    BY <1>3, SameDirs
  <2>2. get_dir(th[t].dir)' = get_dir(th'[t].dir)
    BY <1>3 DEF get_dir, DirBlock, dir_exists
  <2>3. QED
    BY <1>3, <1>7, <2>1, <2>2
<1>10. Exists(th[t].dir, th[t].file)' /\ EntryOf(th[t].dir, th[t].file)' = EntryOf(th[t].dir, th[t].file)
  BY <1>2, <1>3, <1>7, <1>9 DEF WriteInv, Exists, EntryOf
<1>11. SizeInv(t)'
  BY <1>2, <1>3, <1>4, <1>7, <1>9 DEF WriteInv, SizeInv
<1>12. MemoryInv(t)'
  <2>1. th[t].left <= th[t].size
    BY <1>2 DEF WriteInv, MemoryInv
  <2>2. r.left <= r.size /\ (r.left > 0 => th[t].left > n)
    BY <1>5, <1>7, <2>1
  <2>3. QED
    BY <1>3, <1>4, <1>7, <2>2 DEF MemoryInv
<1>13. PlaceInv(t)'
  <2>1. PICK c : /\ Trail(data, c, EntryOf(th[t].dir, th[t].file).nStartBlock)
                 /\ Place(t, c, written[<<th[t].dir, th[t].file>>])
    BY <1>2 DEF WriteInv, PlaceInv
  <2>2. PICK w : w = written[<<th[t].dir, th[t].file>>]
    OBVIOUS
  <2>3. Place(t, c, w)'
    <3>1. CASE th[t].address = 0 /\ w.is # "known"
      BY <1>3, <1>7, <3>1 DEF Place
    <3>2. ASSUME NEW k \in 1..Len(c), th[t].address = c[k], w.is = "known" => Progress(t, c, k, w.bytes)
          PROVE  Place(t, c, w)'
      <4>1. ASSUME w.is = "known" PROVE Progress(t, c, k, w.bytes)'
        <5>1. w.bytes \in Seq(Byte)
          <6>1. th[t].dir \in Dir /\ th[t].file \in File
            BY <1>1 DEF WriteOp
          <6>2. w \in {Absent, Unknown} \cup {Known(s) : s \in Seq(Byte)}
            BY <2>2, <6>1 DEF ReadInv, FileInv
          <6>3. QED
            BY <4>1, <6>2, KnownIs
        <5>2. th[t].left <= th[t].size
          BY <1>2 DEF WriteInv, MemoryInv
        <5>3. th'[t].pc # "walk"
          BY <1>3, <1>4, <1>7
        <5>4. QED
          BY <1>1, <1>3, <1>5, <1>7, <1>8, <2>1, <3>2, <4>1, <5>1, <5>2, <5>3, FillProgress DEF OwnInv
      <4>2. QED
        BY <1>3, <1>7, <3>2, <4>1 DEF Place
    <3>3. QED
      BY <2>1, <2>2, <3>1, <3>2 DEF Place
  <2>4. written'[<<th'[t].dir, th'[t].file>>] = w
    BY <1>3, <1>7, <2>2
  <2>5. Place(t, c, written[<<th[t].dir, th[t].file>>])'
    BY <2>3, <2>4
  <2>6. QED
    BY <1>3, <1>10, <2>1, <2>5 DEF PlaceInv
<1>14. th'[t] \in WriteOp /\ th'[t] \notin MknodOp
  BY <1>1, <1>3, <1>4, <1>7, OpStays, Kinds
<1>15. WriteInv(t)'
  BY <1>10, <1>11, <1>12, <1>13 DEF WriteInv
<1>16. QED
  BY <1>1, <1>3, <1>7, <1>14, <1>15, LocalReads

\* The copy of a directory block that csc452_write has made: one file has a new
\* size.
Sized(g, i, n) == [g EXCEPT ![i].fsize = n]

LEMMA SizedEntry ==
  ASSUME NEW g \in Listing, NEW i \in 1..Len(g), NEW n, NEW e \in Listing,
         e = Sized(g, i, n)
  PROVE  /\ Len(e) = Len(g) /\ e # <<>> /\ g # <<>>
         /\ \A j \in 1..Len(g) : j # i => e[j] = g[j]
         /\ e[i].fsize = n
         /\ \A j \in 1..Len(g) : e[j].nStartBlock = g[j].nStartBlock
         /\ Sized(e, i, n) = e
         /\ \A f : Find(e, f) = Find(g, f)
<1> DEFINE x == [g[i] EXCEPT !.fsize = n]
<1>1. /\ g \in Seq(Entry) /\ g[i] \in Entry /\ Len(g) \in Nat /\ DOMAIN g = 1..Len(g)
      /\ e \in Seq(Entry) /\ Len(e) \in Nat /\ DOMAIN e = 1..Len(e)
  BY ElementOfSeq DEF Listing
<1>2. x.fname = g[i].fname /\ x.nStartBlock = g[i].nStartBlock /\ x.fsize = n
      /\ [x EXCEPT !.fsize = n] = x
  BY <1>1 DEF Entry
<1>3. e = [g EXCEPT ![i] = x]
  BY DEF Sized
<1> HIDE DEF x
<1>4. /\ DOMAIN e = DOMAIN g
      /\ \A j \in 1..Len(g) : e[j] = IF j = i THEN x ELSE g[j]
  BY <1>1, <1>3
<1>5. Len(e) = Len(g)
  <2>1. 1..Len(e) = 1..Len(g) /\ Len(g) \in Nat /\ Len(e) \in Nat
    BY <1>1, <1>4
  <2>2. Len(g) \in 1..Len(e)
    BY <2>1
  <2>3. Len(e) \in 1..Len(g)
    BY <2>1, <2>2
  <2>4. QED
    BY <2>1, <2>2, <2>3
<1>6. e # <<>> /\ g # <<>>
  <2>1. Len(<<>>) = 0 /\ Len(g) # 0
    BY <1>1
  <2>2. QED
    BY <1>5, <2>1
<1>7. Sized(e, i, n) = e
  <2>1. Sized(e, i, n) = [e EXCEPT ![i] = [e[i] EXCEPT !.fsize = n]]
    BY DEF Sized
  <2>2. [e[i] EXCEPT !.fsize = n] = e[i]
    BY <1>2, <1>4
  <2>3. [e EXCEPT ![i] = e[i]] = e
    BY <1>1
  <2>4. QED
    BY <2>1, <2>2, <2>3
<1>8. ASSUME NEW f PROVE Find(e, f) = Find(g, f)
  <2>1. \A j \in 1..Len(g) : e[j].fname = g[j].fname
    BY <1>2, <1>4
  <2>2. QED
    BY <1>5, <2>1, FindSame
<1>9. QED
  BY <1>2, <1>4, <1>5, <1>6, <1>7, <1>8

\* The seek of csc452_write: of all entries the one of its file gets its new size.
LEMMA Flushed ==
  ASSUME FsInv, LinksDiffer, NEW t \in Thread, th[t] \in WriteOp, WriteInv(t),
         Flush(t), root' = root,
         NEW d, d = th[t].dir, NEW f, f = th[t].file, NEW e, e = th[t].entry
  PROVE  /\ get_dir(d)' = e /\ Find(e, f) = Find(get_dir(d), f)
         /\ [e EXCEPT ![Find(e, f)].fsize = th[t].offset + th[t].size] = e
         /\ Exists(d, f)' /\ EntryOf(d, f)'.nStartBlock = EntryOf(d, f).nStartBlock
         /\ \A d0, f0 : Exists(d0, f0)' = Exists(d0, f0)
         /\ \A d0, f0 : Exists(d0, f0) /\ <<d0, f0>> # <<d, f>> => EntryOf(d0, f0)' = EntryOf(d0, f0)
         /\ \A b \in Block : dir'[b] # <<>> => dir[b] # <<>>
<1> DEFINE B == DirBlock(d)
           g == get_dir(d)
           i == Find(g, f)
           n == th[t].offset + th[t].size
<1>1. /\ dir_exists(d) # 0 /\ B \in Block /\ g = dir[B] /\ g \in Listing /\ i \in 1..Len(g)
      /\ Exists(d, f) /\ dir \in [Block -> Listing]
  BY EntryIs DEF WriteInv, FsInv, DiskInv
<1>2. e \in Listing /\ e = [g EXCEPT ![i].fsize = n] /\ (~th[t].unsaved => e = g)
  BY DEF WriteInv, SizeInv, WriteOp
<1>3. /\ Len(e) = Len(g) /\ e # <<>> /\ g # <<>>
      /\ \A j \in 1..Len(g) : j # i => e[j] = g[j]
      /\ \A j \in 1..Len(g) : e[j].nStartBlock = g[j].nStartBlock
      /\ Sized(e, i, n) = e
      /\ \A f0 : Find(e, f0) = Find(g, f0)
  <2> HIDE DEF g, i, n
  <2>1. g \in Listing /\ i \in 1..Len(g) /\ e \in Listing /\ e = Sized(g, i, n)
    BY <1>1, <1>2 DEF Sized
  <2>2. QED
    BY <2>1, SizedEntry
<1>4. \A b \in Block : dir'[b] = IF b = B THEN e ELSE dir[b]
  BY <1>1, <1>2 DEF Flush
<1>5. \A d0 : dir_exists(d0)' = dir_exists(d0) /\ DirBlock(d0)' = DirBlock(d0)
  BY DEF dir_exists, DirBlock
<1>6. get_dir(d)' = e
  BY <1>1, <1>4, <1>5 DEF get_dir
<1>7. ASSUME NEW d0, d0 # d PROVE get_dir(d0)' = get_dir(d0)
  <2>1. CASE dir_exists(d0) = 0
    BY <1>5, <2>1 DEF get_dir
  <2>2. CASE dir_exists(d0) # 0
    <3>1. DirBlock(d0) \in Block /\ dir_exists(d0) \in 1..Len(root) /\ root[dir_exists(d0)].dname = d0
          /\ dir_exists(d) \in 1..Len(root) /\ root[dir_exists(d)].dname = d
      BY <1>1, <2>2, GetDir
    <3>2. DirBlock(d0) # B
      BY <1>7, <3>1 DEF DirBlock, LinksDiffer
    <3>3. QED
      BY <1>4, <1>5, <2>2, <3>1, <3>2 DEF get_dir
  <2>3. QED
    BY <2>1, <2>2
<1>8. \A f0 : Exists(d, f0)' = Exists(d, f0)
  BY <1>3, <1>6 DEF Exists
<1>9. \A d0, f0 : d0 # d => Exists(d0, f0)' = Exists(d0, f0) /\ EntryOf(d0, f0)' = EntryOf(d0, f0)
  BY <1>7 DEF Exists, EntryOf
<1>10. EntryOf(d, f)'.nStartBlock = EntryOf(d, f).nStartBlock
  BY <1>1, <1>3, <1>6 DEF EntryOf
<1>11. ASSUME NEW f0, Exists(d, f0), f0 # f PROVE EntryOf(d, f0)' = EntryOf(d, f0)
  <2>1. Find(g, f0) \in 1..Len(g) /\ g[Find(g, f0)].fname = f0 /\ g[i].fname = f
    BY <1>1, <1>11, EntryIs DEF EntryOf
  <2>2. Find(g, f0) # i
    BY <1>11, <2>1
  <2>3. QED
    BY <1>3, <1>6, <2>1, <2>2 DEF EntryOf
<1>12. \A b \in Block : dir'[b] # <<>> => dir[b] # <<>>
  BY <1>1, <1>3, <1>4
<1>13. QED
  BY <1>1, <1>3, <1>6, <1>8, <1>9, <1>10, <1>11, <1>12 DEF Sized

\* csc452_write has sought: the directory block is on the disk.
LEMMA FlushReads ==
  ASSUME OneThread, FsInv, LinksDiffer, ReadInv, NEW t \in Thread, th[t] \in WriteOp,
         Flush(t), UNCHANGED <<root, data, written>>, th'[t] \in WriteOp,
         th'[t].dir = th[t].dir, th'[t].file = th[t].file, th'[t].entry = th[t].entry,
         th'[t].offset = th[t].offset, th'[t].size = th[t].size, th'[t].unsaved = FALSE,
         MemoryInv(t)', PlaceInv(t)'
  PROVE  ReadInv'
<1>1. PICK d : d = th[t].dir
  OBVIOUS
<1>2. PICK f : f = th[t].file
  OBVIOUS
<1>3. PICK e : e = th[t].entry
  OBVIOUS
<1>4. WriteInv(t) /\ \A u \in Thread : u = t
  BY DEF ReadInv, OneThread
<1>5. /\ get_dir(d)' = e /\ Find(e, f) = Find(get_dir(d), f)
      /\ [e EXCEPT ![Find(e, f)].fsize = th[t].offset + th[t].size] = e
      /\ Exists(d, f)' /\ EntryOf(d, f)'.nStartBlock = EntryOf(d, f).nStartBlock
      /\ \A d0, f0 : Exists(d0, f0)' = Exists(d0, f0)
      /\ \A d0, f0 : Exists(d0, f0) /\ <<d0, f0>> # <<d, f>> => EntryOf(d0, f0)' = EntryOf(d0, f0)
      /\ \A b \in Block : dir'[b] # <<>> => dir[b] # <<>>
  BY <1>1, <1>2, <1>3, <1>4, Flushed
<1>6. get_dir(th[t].dir)' = e /\ Exists(th[t].dir, th[t].file)'
  <2>1. get_dir(th[t].dir)' = get_dir(d)'
    BY <1>1 DEF get_dir, DirBlock, dir_exists
  <2>2. QED
    BY <1>2, <1>5, <2>1 DEF Exists
<1>7. SizeInv(t)'
  BY <1>2, <1>3, <1>5, <1>6 DEF SizeInv
<1>8. WriteInv(t)'
  BY <1>6, <1>7 DEF WriteInv
<1>9. ASSUME NEW d0 \in Dir, NEW f0 \in File PROVE FileInv(d0, f0)'
  <2>1. Writing(d0, f0)' <=> <<d0, f0>> = <<d, f>>
    BY <1>1, <1>2, <1>4 DEF Writing
  <2>2. Writing(d0, f0) => Writing(d0, f0)'
    BY <1>4 DEF Writing
  <2>3. FileInv(d0, f0)
    BY DEF ReadInv
  <2>4. QED
    BY <1>5, <2>1, <2>2, <2>3, FileStays
<1>10. th'[t] \notin MknodOp
  BY Kinds
<1>11. /\ data'[0].nNextBlock = 0
       /\ \A b \in Block : dir'[b] # <<>> => \E i \in 1..Len(root') : root'[i].nStartBlock = b
  BY <1>5 DEF ReadInv
<1>12. QED
  BY <1>4, <1>8, <1>9, <1>10, <1>11 DEF ReadInv

\* In a directory block with the new size the files begin where they did.
LEMMA StartStays ==
  ASSUME FsInv, LinksDiffer, NEW t \in Thread, th[t] \in WriteOp, WriteInv(t),
         Flush(t), root' = root, th'[t].dir = th[t].dir, th'[t].file = th[t].file
  PROVE  EntryOf(th[t].dir, th[t].file)'.nStartBlock = EntryOf(th[t].dir, th[t].file).nStartBlock
<1>1. PICK d : d = th[t].dir
  OBVIOUS
<1>2. PICK f : f = th[t].file
  OBVIOUS
<1>3. PICK e : e = th[t].entry
  OBVIOUS
<1>4. EntryOf(d, f)'.nStartBlock = EntryOf(d, f).nStartBlock
  BY <1>1, <1>2, <1>3, Flushed
<1>5. get_dir(th[t].dir)' = get_dir(d)'
  BY <1>1 DEF get_dir, DirBlock, dir_exists
<1>6. EntryOf(th[t].dir, th[t].file)' = EntryOf(d, f)'
  BY <1>2, <1>5 DEF EntryOf
<1>7. QED
  BY <1>1, <1>2, <1>4, <1>6

\* csc452_write seeks the block in memory.
LEMMA SeekReads ==
  ASSUME OneThread, FsInv, FsInv', OwnInv, ReadInv, NEW t \in Thread, WriteSeek(t)
  PROVE  ReadInv'
<1>0. th \in [Thread -> Op]
  BY DEF FsInv
<1>1. th[t] \in WriteOp
  BY KindOf DEF WriteSeek
<1>2. WriteInv(t) /\ LinksDiffer
  BY <1>1 DEF ReadInv, OwnInv
<1> DEFINE r == [[th[t] EXCEPT !.unsaved = FALSE] EXCEPT !.pc = "save"]
<1>3. /\ Flush(t) /\ th'[t] = r /\ th[t].pc = "seek" /\ UNCHANGED <<root, data, written>>
  BY <1>0 DEF WriteSeek, Goto
<1>4. /\ r.pc = "save" /\ r.op = th[t].op /\ r.dir = th[t].dir /\ r.file = th[t].file
      /\ r.entry = th[t].entry /\ r.unsaved = FALSE
      /\ r.offset = th[t].offset /\ r.size = th[t].size /\ r.left = th[t].left
      /\ r.byte = th[t].byte /\ r.address = th[t].address /\ r.block = th[t].block
  BY <1>1 DEF WriteOp
<1> HIDE DEF r
<1>5. EntryOf(th[t].dir, th[t].file)'.nStartBlock = EntryOf(th[t].dir, th[t].file).nStartBlock
  BY <1>1, <1>2, <1>3, <1>4, StartStays
<1>6. PlaceInv(t)'
  <2>1. PlaceInv(t)
    BY <1>2 DEF WriteInv
  <2>2. QED
    BY <1>3, <1>4, <1>5, <2>1, PlaceStays
<1>7. MemoryInv(t)'
  BY <1>2, <1>3, <1>4 DEF WriteInv, MemoryInv
<1>8. th'[t] \in WriteOp
  BY <1>1, <1>3, <1>4, OpStays
<1>9. QED
  BY <1>1, <1>2, <1>3, <1>4, <1>6, <1>7, <1>8, FlushReads

\* Where the offset lies beyond a block, the file has another one.
LEMMA NotTheLast ==
  ASSUME NEW m \in Nat, NEW k \in 1..m, NEW begin \in Nat, begin > MAX_DATA_IN_BLOCK,
         Pos(k, begin) <= Pos(m, MAX_DATA_IN_BLOCK)
  PROVE  /\ k < m /\ begin - MAX_DATA_IN_BLOCK \in Nat
         /\ Pos(k, begin) = Pos(k + 1, begin - MAX_DATA_IN_BLOCK)
<1>f. PICK M : M = MAX_DATA_IN_BLOCK
  OBVIOUS
<1>0. k \in Nat \ {0} /\ k + 1 \in Nat \ {0} /\ M \in Nat /\ begin \in Nat /\ begin - M \in Nat /\ begin > M
  BY <1>f, FileSystemAssumption
<1>1. /\ Pos(k, begin) = Pos(k, 0) + begin /\ Pos(k, M) = Pos(k, 0) + M /\ Pos(k, 0) \in Nat
      /\ Pos(k, M) = Pos(k + 1, 0) /\ Pos(k + 1, begin - M) = Pos(k + 1, 0) + (begin - M)
  BY <1>0, <1>f, Positions
<1>2. k # m
  BY <1>0, <1>f, <1>1
<1>3. Pos(k, 0) + begin = Pos(k, 0) + M + (begin - M)
  BY <1>0, <1>1
<1>4. QED
  BY <1>0, <1>f, <1>1, <1>2, <1>3

\* One turn of the walk to the block of the offset.
LEMMA WalkReads ==
  ASSUME OneThread, FsInv, FsInv', OwnInv, ReadInv, NEW t \in Thread, WriteWalk(t)
  PROVE  ReadInv'
<1>0. th \in [Thread -> Op]
  BY DEF FsInv
<1>1. th[t] \in WriteOp /\ th[t].begin_index \in Nat /\ th[t].begin_index > MAX_DATA_IN_BLOCK
  BY KindOf DEF WriteWalk, WriteOp
<1>2. WriteInv(t) /\ LinksDiffer
  BY <1>1 DEF ReadInv, OwnInv
<1>a. PICK next : next = th[t].block.nNextBlock
  OBVIOUS
<1> DEFINE r == [[th[t] EXCEPT !.address = th[t].block.nNextBlock,
                               !.block = data[th[t].block.nNextBlock],
                               !.begin_index = @ - MAX_DATA_IN_BLOCK,
                               !.unsaved = FALSE] EXCEPT !.pc = "walk"]
<1>3. /\ Flush(t) /\ th'[t] = r /\ th[t].pc = "walk" /\ UNCHANGED <<root, data, written>>
  BY <1>0 DEF WriteWalk, Goto
<1>4. /\ r.pc = "walk" /\ r.op = th[t].op /\ r.dir = th[t].dir /\ r.file = th[t].file
      /\ r.entry = th[t].entry /\ r.unsaved = FALSE
      /\ r.offset = th[t].offset /\ r.size = th[t].size /\ r.left = th[t].left
      /\ r.byte = th[t].byte /\ r.address = next /\ r.block = data[next]
      /\ r.begin_index = th[t].begin_index - MAX_DATA_IN_BLOCK
  BY <1>1, <1>a DEF WriteOp
<1> HIDE DEF r
<1>5. PICK start : start = EntryOf(th[t].dir, th[t].file).nStartBlock
  OBVIOUS
<1>6. EntryOf(th[t].dir, th[t].file)'.nStartBlock = start
  BY <1>1, <1>2, <1>3, <1>4, <1>5, StartStays
<1>7. PICK w : w = written[<<th[t].dir, th[t].file>>]
  OBVIOUS
<1>8. PICK c : Trail(data, c, start) /\ Place(t, c, w)
  BY <1>2, <1>5, <1>7 DEF WriteInv, PlaceInv
<1>9. /\ th[t].block = data[th[t].address] /\ next = data[th[t].address].nNextBlock
      /\ th[t].left <= th[t].size
  BY <1>2, <1>3, <1>a DEF WriteInv, MemoryInv
<1>10. \A n : Piece(t, n) = data[n].bytes /\ Piece(t, n)' = data[n].bytes
  BY <1>3, <1>4, <1>9 DEF Piece
<1>11. Len(c) \in Nat /\ \A i \in 1..Len(c) : c[i] \in Block /\ c[i] # 0
  BY <1>8, TrailRises DEF OwnInv
<1>12. ASSUME NEW k \in 1..Len(c), NEW old, Progress(t, c, k, old)
       PROVE  k < Len(c) /\ Progress(t, c, k + 1, old)'
  <2>1. PICK begin : begin = th[t].begin_index
    OBVIOUS
  <2>2. PICK L : L = Done(t)
    OBVIOUS
  <2>3. PICK T : T = Target(t, old)
    OBVIOUS
  <2>4. /\ L = Pos(k, begin) /\ L <= Pos(Len(c), MAX_DATA_IN_BLOCK) /\ th[t].offset <= Len(old)
        /\ \A j \in 1..Len(c), x \in Index : Pos(j, x) < L => data[c[j]].bytes[x] = T[Pos(j, x) + 1]
    BY <1>3, <1>10, <1>12, <2>1, <2>2, <2>3 DEF Progress
  <2>5. k < Len(c) /\ L = Pos(k + 1, begin - MAX_DATA_IN_BLOCK)
    BY <1>1, <1>11, <2>1, <2>4, NotTheLast
  <2>6. Done(t)' = L /\ Target(t, old)' = T
    BY <1>3, <1>4, <2>2, <2>3 DEF Done, Target
  <2>7. QED
    BY <1>3, <1>4, <1>10, <2>1, <2>4, <2>5, <2>6 DEF Progress
<1>13. \E e : Trail(data', e, start) /\ Place(t, e, w)'
  <2>1. CASE w.is = "known"
    <3>1. PICK k \in 1..Len(c) : th[t].address = c[k] /\ Progress(t, c, k, w.bytes)
      BY <1>8, <2>1 DEF Place
    <3>2. k < Len(c) /\ Progress(t, c, k + 1, w.bytes)'
      <4>1. ASSUME NEW old, old = w.bytes PROVE k < Len(c) /\ Progress(t, c, k + 1, old)'
        BY <1>12, <3>1, <4>1
      <4>2. QED
        BY <4>1
    <3>3. k \in 1..Len(c)-1 /\ k + 1 \in 1..Len(c)
      BY <1>11, <3>2
    <3>4. next = c[k+1]
      BY <1>8, <1>9, <3>1, <3>3 DEF Trail
    <3>5. Place(t, c, w)'
      BY <1>3, <1>4, <3>2, <3>3, <3>4 DEF Place
    <3>6. QED
      BY <1>3, <1>8, <3>5
  <2>2. CASE w.is # "known" /\ next = 0
    <3>1. Place(t, c, w)'
      BY <1>3, <1>4, <2>2 DEF Place
    <3>2. QED
      BY <1>3, <1>8, <3>1
  <2>3. CASE w.is # "known" /\ next # 0
    <3>1. th[t].address # 0
      BY <1>9, <2>3 DEF ReadInv
    <3>2. PICK k \in 1..Len(c) : th[t].address = c[k]
      BY <1>8, <3>1 DEF Place
    <3>3. data[c[k]].nNextBlock = next /\ next \in Block
      BY <1>9, <1>11, <3>2, LinkTypes
    <3>4. PICK e : Trail(data, e, start) /\ Onward(data, c, k, e)
      BY <1>8, <2>3, <3>3, TrailOn
    <3>5. k + 1 \in 1..Len(e) /\ next = e[k+1]
      BY <3>3, <3>4 DEF Onward
    <3>6. Place(t, e, w)'
      BY <1>3, <1>4, <2>3, <3>5 DEF Place
    <3>7. QED
      BY <1>3, <3>4, <3>6
  <2>4. QED
    BY <2>1, <2>2, <2>3
<1>14. PlaceInv(t)'
  <2>1. PICK e : Trail(data', e, start) /\ Place(t, e, w)'
    BY <1>13
  <2>2. written'[<<th'[t].dir, th'[t].file>>] = w
    BY <1>3, <1>4, <1>7
  <2>3. Place(t, e, written[<<th[t].dir, th[t].file>>])'
    BY <2>1, <2>2
  <2>4. QED
    BY <1>6, <2>1, <2>3 DEF PlaceInv
<1>15. MemoryInv(t)'
  BY <1>3, <1>4, <1>9 DEF MemoryInv
<1>16. th'[t] \in WriteOp
  BY <1>1, <1>3, <1>4, OpStays
<1>17. QED
  BY <1>1, <1>2, <1>3, <1>4, <1>14, <1>15, <1>16, FlushReads

\* An operation has returned.
LEMMA ReturnReads ==
  ASSUME OneThread, NEW t \in Thread, th'[t] = Idle,
         data'[0].nNextBlock = 0,
         \A b \in Block : dir'[b] # <<>> => \E i \in 1..Len(root') : root'[i].nStartBlock = b,
         \A d \in Dir, f \in File : FileInv(d, f)'
  PROVE  ReadInv'
<1>1. \A u \in Thread : th'[u] \notin MknodOp /\ th'[u] \notin WriteOp
  BY Kinds DEF OneThread
<1>2. QED
  BY <1>1 DEF ReadInv

\* csc452_write gives up: nothing is promised of the contents of the file.
LEMMA FailsReads ==
  ASSUME OneThread, FsInv, ReadInv, NEW t \in Thread, WriteFails(t)
  PROVE  ReadInv'
<1>1. th[t] \in WriteOp /\ th \in [Thread -> Op] /\ DOMAIN written = Dir \X File
  BY KindOf, Kinds DEF WriteFails, FsInv
<1>2. /\ UNCHANGED <<root, dir, data>> /\ th'[t] = Idle
      /\ written' = [written EXCEPT ![<<th[t].dir, th[t].file>>] = Unknown]
  BY <1>1 DEF WriteFails, Return, diskVars
<1>3. Exists(th[t].dir, th[t].file) /\ th[t].dir \in Dir /\ th[t].file \in File
  BY <1>1 DEF ReadInv, WriteInv, WriteOp
<1>4. ASSUME NEW d \in Dir, NEW f \in File PROVE FileInv(d, f)'
  <2>1. get_dir(d)' = get_dir(d)
    BY <1>2, SameDirs
  <2>2. Exists(d, f)' = Exists(d, f) /\ EntryOf(d, f)' = EntryOf(d, f)
    BY <2>1, SameEntries
  <2>3. CASE d = th[t].dir /\ f = th[t].file
    <3>1. written'[<<d, f>>] = Unknown
      BY <1>1, <1>2, <2>3
    <3>2. Exists(d, f)'
      BY <1>3, <2>2, <2>3
    <3>3. Unknown # Absent /\ Unknown.is # "known"
      BY DEF Unknown, Absent
    <3>4. QED
      BY <3>1, <3>2, <3>3 DEF FileInv
  <2>4. CASE ~(d = th[t].dir /\ f = th[t].file)
    <3>1. written'[<<d, f>>] = written[<<d, f>>]
      BY <1>1, <1>2, <2>4
    <3>2. ~Writing(d, f)
      BY <2>4, AloneWriting
    <3>3. FileInv(d, f)
      BY DEF ReadInv
    <3>4. QED
      BY <1>2, <2>2, <3>1, <3>2, <3>3, FileStays
  <2>5. QED
    BY <2>3, <2>4
<1>5. QED
  BY <1>2, <1>4, ReturnReads DEF ReadInv

\* The process dies: of a file under a write nothing is promised.
LEMMA CrashReads ==
  ASSUME OneThread, FsInv, ReadInv, Crash
  PROVE  ReadInv'
<1>1. /\ UNCHANGED <<root, dir, data>> /\ \A t \in Thread : th'[t] = Idle
      /\ \A p \in Dir \X File : written'[p] =
           IF \E t \in Thread : th[t] # Idle /\ th[t].op = "write" /\ p = <<th[t].dir, th[t].file>>
             THEN Unknown ELSE written[p]
  BY DEF Crash, diskVars
<1>2. ASSUME NEW d \in Dir, NEW f \in File PROVE FileInv(d, f)'
  <2>1. get_dir(d)' = get_dir(d)
    BY <1>1, SameDirs
  <2>2. Exists(d, f)' = Exists(d, f) /\ EntryOf(d, f)' = EntryOf(d, f)
    BY <2>1, SameEntries
  <2>3. \A t \in Thread : (th[t] # Idle /\ th[t].op = "write") <=> th[t] \in WriteOp
    <3>1. \A t \in Thread : th[t] \in Op
      BY DEF FsInv
    <3>2. QED
      BY <3>1, Kinds DEF Op
  <2>4. written'[<<d, f>>] = IF Writing(d, f) THEN Unknown ELSE written[<<d, f>>]
    <3>1. <<d, f>> \in Dir \X File
      OBVIOUS
    <3>2. \A t \in Thread : <<d, f>> = <<th[t].dir, th[t].file>> <=> (th[t].dir = d /\ th[t].file = f)
      OBVIOUS
    <3>3. QED
      BY <1>1, <2>3, <3>1, <3>2 DEF Writing
  <2>5. CASE Writing(d, f)
    <3>1. PICK t \in Thread : th[t] \in WriteOp /\ th[t].dir = d /\ th[t].file = f
      BY <2>5 DEF Writing
    <3>2. Exists(d, f)
      BY <3>1 DEF ReadInv, WriteInv
    <3>3. Unknown # Absent /\ Unknown.is # "known"
      BY DEF Unknown, Absent
    <3>4. QED
      BY <2>2, <2>4, <2>5, <3>2, <3>3 DEF FileInv
  <2>6. CASE ~Writing(d, f)
    <3>1. FileInv(d, f)
      BY DEF ReadInv
    <3>2. QED
      BY <1>1, <2>2, <2>4, <2>6, <3>1, FileStays
  <2>7. QED
    BY <2>5, <2>6
<1>3. /\ data'[0].nNextBlock = 0
      /\ \A b \in Block : dir'[b] # <<>> => \E i \in 1..Len(root') : root'[i].nStartBlock = b
  BY <1>1 DEF ReadInv
<1>4. \A t \in Thread : th'[t] \notin MknodOp /\ th'[t] \notin WriteOp
  BY <1>1, Kinds
<1>5. QED
  BY <1>2, <1>3, <1>4 DEF ReadInv

\* exit() writes what is in the buffers of the streams: nothing is promised of the
\* files of a directory block that is written.
LEMMA UnmountReads ==
  ASSUME OneThread, FsInv, OwnInv, ReadInv, Unmount
  PROVE  ReadInv'
<1>1. PICK last \in [{w.block : w \in leaked} -> leaked] :
        /\ \A b \in DOMAIN last : last[b].block = b
        /\ dir' = [b \in Block |-> IF b \in DOMAIN last THEN last[b].entry ELSE dir[b]]
        /\ written' = [p \in Dir \X File |->
             IF dir_exists(p[1]) # 0 /\ DirBlock(p[1]) \in DOMAIN last
               THEN IF Find(dir'[DirBlock(p[1])], p[2]) = 0 THEN Absent ELSE Unknown
               ELSE written[p]]
  BY DEF Unmount
<1>2. UNCHANGED <<root, data, th>> /\ \A t \in Thread : th[t] = Idle
  BY DEF Unmount
<1>3. \A b \in Block : dir'[b] = IF b \in DOMAIN last THEN last[b].entry ELSE dir[b]
  BY <1>1
<1>4. ASSUME NEW b \in Block, dir'[b] # <<>> PROVE dir[b] # <<>>
  <2>1. CASE b \in DOMAIN last
    <3>1. last[b] \in leaked /\ last[b].block = b
      BY <1>1, <2>1
    <3>2. CopyOf(last[b].entry, b) /\ last[b].entry \in Listing
      BY <3>1 DEF OwnInv, FsInv, DiskInv
    <3>3. Len(last[b].entry) \in Nat /\ Len(last[b].entry) # 0
      <4>1. last[b].entry # <<>> /\ last[b].entry \in Seq(Entry)
        BY <1>3, <1>4, <2>1, <3>2 DEF Listing
      <4>2. QED
        BY <4>1, EmptySeq
    <3>4. Len(<<>>) = 0
      OBVIOUS
    <3>5. QED
      BY <3>2, <3>3, <3>4 DEF CopyOf
  <2>2. CASE b \notin DOMAIN last
    BY <1>3, <1>4, <2>2
  <2>3. QED
    BY <2>1, <2>2
<1>5. ASSUME NEW d \in Dir, NEW f \in File PROVE FileInv(d, f)'
  <2>1. dir_exists(d)' = dir_exists(d) /\ DirBlock(d)' = DirBlock(d)
    BY <1>2 DEF dir_exists, DirBlock
  <2>2. CASE dir_exists(d) # 0 /\ DirBlock(d) \in DOMAIN last
    <3>1. get_dir(d)' = dir'[DirBlock(d)]
      BY <2>1, <2>2 DEF get_dir
    <3>2. written'[<<d, f>>] = IF Find(dir'[DirBlock(d)], f) = 0 THEN Absent ELSE Unknown
      BY <1>1, <2>2
    <3>3. Exists(d, f)' <=> Find(dir'[DirBlock(d)], f) # 0
      BY <3>1 DEF Exists
    <3>4. Unknown # Absent /\ Unknown.is # "known" /\ Absent.is # "known"
      BY DEF Unknown, Absent
    <3>5. QED
      BY <3>2, <3>3, <3>4 DEF FileInv
  <2>3. CASE ~(dir_exists(d) # 0 /\ DirBlock(d) \in DOMAIN last)
    <3>1. get_dir(d)' = get_dir(d)
      <4>1. dir_exists(d) # 0 => DirBlock(d) \in Block
        BY GetDir
      <4>2. QED
        BY <1>3, <2>1, <2>3, <4>1 DEF get_dir
    <3>2. written'[<<d, f>>] = written[<<d, f>>]
      BY <1>1, <2>3
    <3>3. ~Writing(d, f)
      BY <1>2, Kinds DEF Writing
    <3>4. Exists(d, f)' = Exists(d, f) /\ EntryOf(d, f)' = EntryOf(d, f)
      BY <3>1, SameEntries
    <3>5. FileInv(d, f)
      BY DEF ReadInv
    <3>6. QED
      BY <1>2, <3>2, <3>3, <3>4, <3>5, FileStays
  <2>4. QED
    BY <2>2, <2>3
<1>6. /\ data'[0].nNextBlock = 0
      /\ \A b \in Block : dir'[b] # <<>> => \E i \in 1..Len(root') : root'[i].nStartBlock = b
  BY <1>2, <1>4 DEF ReadInv
<1>7. \A t \in Thread : th'[t] \notin MknodOp /\ th'[t] \notin WriteOp
  BY <1>2, Kinds
<1>8. QED
  BY <1>5, <1>6, <1>7 DEF ReadInv

\* A directory with a new name and no files joins the root.
LEMMA DirJoins ==
  ASSUME FsInv, NEW B \in Block, dir[B] = <<>>, NEW d, dir' = dir,
         \A i \in 1..Len(root) : root[i].dname # d,
         DOMAIN root' = 1..Len(root) + 1, \A i \in 1..Len(root) : root'[i] = root[i],
         root'[Len(root) + 1].dname = d, root'[Len(root) + 1].nStartBlock = B,
         NEW d0
  PROVE  get_dir(d0)' = get_dir(d0)
<1>1. /\ Len(root) \in Nat /\ DOMAIN root = 1..Len(root)
      /\ \A i, j \in 1..Len(root) : root[i].dname = root[j].dname => i = j
  BY DEF FsInv, RootInv
<1>2. \A i \in DOMAIN root' : i \in 1..Len(root) \/ i = Len(root) + 1
  BY <1>1
<1>3. Len(root) + 1 \in DOMAIN root' /\ \A i \in 1..Len(root) : i \in DOMAIN root' /\ i # Len(root) + 1
  BY <1>1
<1>4. Len(root) + 1 # 0 /\ 0 \notin 1..Len(root)
  BY <1>1
<1>5. CASE d0 = d
  <2>1. dir_exists(d) = 0
    BY <1>1 DEF dir_exists
  <2>2. dir_exists(d)' = Len(root) + 1
    BY <1>2, <1>3 DEF dir_exists
  <2>3. DirBlock(d)' = B
    BY <2>2 DEF DirBlock
  <2>4. get_dir(d)' = <<>> /\ get_dir(d) = <<>>
    BY <1>4, <2>1, <2>2, <2>3 DEF get_dir
  <2>5. QED
    BY <1>5, <2>4
<1>6. CASE d0 # d /\ dir_exists(d0) = 0
  <2>1. \A i \in 1..Len(root) : root[i].dname # d0
    BY <1>6, GetDir
  <2>2. \A i \in DOMAIN root' : root'[i].dname # d0
    BY <1>2, <1>6, <2>1
  <2>3. dir_exists(d0)' = 0
    BY <2>2 DEF dir_exists
  <2>4. QED
    BY <1>6, <2>3 DEF get_dir
<1>7. CASE d0 # d /\ dir_exists(d0) # 0
  <2>1. PICK j : j = dir_exists(d0)
    OBVIOUS
  <2>2. j \in 1..Len(root) /\ root[j].dname = d0
    BY <1>7, <2>1, GetDir
  <2>3. j \in DOMAIN root' /\ root'[j].dname = d0 /\ root'[j] = root[j]
    BY <1>3, <2>2
  <2>4. \A i \in DOMAIN root' : root'[i].dname = d0 => i = j
    BY <1>1, <1>2, <1>7, <2>2
  <2>5. dir_exists(d0)' = j
    BY <2>3, <2>4 DEF dir_exists
  <2>6. DirBlock(d0)' = DirBlock(d0)
    BY <2>1, <2>3, <2>5 DEF DirBlock
  <2>7. QED
    BY <1>7, <2>1, <2>5, <2>6 DEF get_dir
<1>8. QED
  BY <1>5, <1>6, <1>7

\* csc452_mkdir ends: the new directory has no files, and the others keep theirs.
LEMMA LinkDirReads ==
  ASSUME OneThread, FsInv, OwnInv, ReadInv, NEW t \in Thread, LinkDir(t)
  PROVE  ReadInv'
<1>0. th \in [Thread -> Op] /\ root \in Seq(Directory)
  BY DEF FsInv, RootInv
<1>1. th[t] \in MkdirOp
  BY KindOf, Kinds DEF LinkDir
<1> DEFINE x == [dname |-> th[t].dir, nStartBlock |-> th[t].next_free]
<1>2. /\ root' = Append(root, x) /\ th'[t] = Idle /\ UNCHANGED <<dir, data, written>>
      /\ th[t].pc = "link"
  BY <1>0 DEF LinkDir, Return
<1>3. PICK d : d = th[t].dir
  OBVIOUS
<1>4. PICK B : B = th[t].next_free
  OBVIOUS
<1>5. B = tracker /\ tracker # 0 /\ ~Linked(tracker) /\ B \in Block
  BY <1>2, <1>4, LinkTypes DEF OwnInv, ThreadInv, Unused
<1>6. dir[B] = <<>>
  BY <1>5 DEF ReadInv, Linked
<1>7. x \in Directory /\ x.dname = d /\ x.nStartBlock = B
  BY <1>1, <1>3, <1>4, <1>5 DEF MkdirOp, Directory
<1> HIDE DEF x
<1>8. /\ root' \in Seq(Directory) /\ Len(root') = Len(root) + 1
      /\ \A i \in 1..Len(root) : root'[i] = root[i]
      /\ root'[Len(root) + 1] = x
  BY <1>0, <1>2, <1>7, AppendProperties
<1>9. DOMAIN root' = 1..Len(root) + 1 /\ Len(root) \in Nat
  BY <1>0, <1>8
<1>10. \A i \in 1..Len(root) : root[i].dname # d
  BY <1>1, <1>3 DEF FsInv, MkdirInv
<1>11. \A d0 : get_dir(d0)' = get_dir(d0)
  BY <1>2, <1>5, <1>6, <1>7, <1>8, <1>9, <1>10, DirJoins
<1>12. ASSUME NEW d0 \in Dir, NEW f0 \in File PROVE FileInv(d0, f0)'
  <2>1. Exists(d0, f0)' = Exists(d0, f0) /\ EntryOf(d0, f0)' = EntryOf(d0, f0)
    BY <1>11, SameEntries
  <2>2. ~Writing(d0, f0)
    BY <1>1, AloneWriting, Kinds
  <2>3. FileInv(d0, f0)
    BY DEF ReadInv
  <2>4. QED
    BY <1>2, <2>1, <2>2, <2>3, FileStays
<1>13. ASSUME NEW b \in Block, dir'[b] # <<>>
       PROVE  \E i \in 1..Len(root') : root'[i].nStartBlock = b
  <2>1. PICK i \in 1..Len(root) : root[i].nStartBlock = b
    BY <1>2, <1>13 DEF ReadInv
  <2>2. i \in 1..Len(root') /\ root'[i].nStartBlock = b
    BY <1>8, <1>9, <2>1
  <2>3. QED
    BY <2>2
<1>14. QED
  BY <1>2, <1>12, <1>13, ReturnReads DEF ReadInv

\* A file with a new name joins a directory: the loop over files[] finds it at the
\* end, and the others where they were.
LEMMA FileJoins ==
  ASSUME NEW e \in Listing, NEW f, \A i \in 1..Len(e) : e[i].fname # f,
         NEW x, x.fname = f, NEW a \in Listing, Len(a) = Len(e) + 1,
         \A i \in 1..Len(e) : a[i] = e[i], a[Len(e) + 1] = x
  PROVE  /\ Find(a, f) = Len(e) + 1 /\ Find(a, f) # 0
         /\ \A g : g # f => Find(a, g) = Find(e, g)
         /\ \A g : g # f /\ Find(e, g) # 0 => a[Find(a, g)] = e[Find(e, g)]
<1>1. Len(e) \in Nat
  BY DEF Listing
<1>2. Len(e) + 1 \in 1..Len(a) /\ a[Len(e) + 1].fname = f /\ Len(e) + 1 # 0
  BY <1>1
<1>3. Find(a, f) = Len(e) + 1
  BY <1>2, FindIs
<1>4. ASSUME NEW g, g # f PROVE Find(a, g) = Find(e, g)
  <2>1. CASE Find(e, g) # 0
    <3>1. Find(e, g) \in 1..Len(e) /\ e[Find(e, g)].fname = g
      BY <2>1, Found
    <3>2. Find(e, g) \in 1..Len(a) /\ a[Find(e, g)].fname = g
      BY <1>1, <3>1
    <3>3. QED
      BY <3>2, FindIs
  <2>2. CASE Find(e, g) = 0
    <3>1. \A i \in 1..Len(e) : e[i].fname # g
      BY <2>2, Found
    <3>2. \A i \in 1..Len(a) : i \in 1..Len(e) \/ i = Len(e) + 1
      BY <1>1
    <3>3. \A i \in 1..Len(a) : a[i].fname # g
      BY <1>4, <3>1, <3>2
    <3>4. Find(a, g) = 0
      BY <3>3, Found
    <3>5. QED
      BY <2>2, <3>4
  <2>3. QED
    BY <2>1, <2>2
<1>5. ASSUME NEW g, g # f, Find(e, g) # 0 PROVE a[Find(a, g)] = e[Find(e, g)]
  <2>1. Find(e, g) \in 1..Len(e)
    BY <1>5, Found
  <2>2. QED
    BY <1>4, <1>5, <2>1
<1>6. QED
  BY <1>2, <1>3, <1>4, <1>5

\* csc452_mknod ends: the new file has no bytes, and the others keep theirs.
LEMMA LinkFileReads ==
  ASSUME OneThread, FsInv, FsInv', OwnInv, ReadInv, NEW t \in Thread, LinkFile(t)
  PROVE  ReadInv'
<1>0. /\ th \in [Thread -> Op] /\ dir \in [Block -> Listing] /\ dir' \in [Block -> Listing]
      /\ DOMAIN written = Dir \X File
  BY DEF FsInv, DiskInv
<1>1. th[t] \in MknodOp
  BY KindOf, Kinds DEF LinkFile
<1>2. PICK d : d = th[t].dir
  OBVIOUS
<1>3. PICK f : f = th[t].file
  OBVIOUS
<1>4. PICK e : e = th[t].entry
  OBVIOUS
<1>5. PICK B : B = DirBlock(d)
  OBVIOUS
<1>6. PICK b : b = th[t].next_free
  OBVIOUS
<1> DEFINE x == [fname |-> f, fsize |-> 0, nStartBlock |-> b]
<1>7. /\ dir' = [dir EXCEPT ![B] = Append(e, x)] /\ th'[t] = Idle /\ UNCHANGED <<root, data>>
      /\ written' = [written EXCEPT ![<<d, f>>] = Known(<<>>)] /\ th[t].pc = "link"
  BY <1>0, <1>2, <1>3, <1>4, <1>5, <1>6 DEF LinkFile, Return
<1>8. b = tracker /\ tracker # 0 /\ b \in Block /\ b # 0
  BY <1>6, <1>7, LinkTypes DEF OwnInv, ThreadInv, Unused
<1>9. /\ dir_exists(d) # 0 /\ B \in Block /\ get_dir(d) = dir[B]
      /\ dir_exists(d) \in 1..Len(root) /\ root[dir_exists(d)].dname = d
  <2>1. dir_exists(d) # 0
    BY <1>1, <1>2, Kinds DEF OwnInv, ThreadInv
  <2>2. QED
    BY <1>5, <2>1, GetDir
<1>10. /\ e \in Listing /\ e = get_dir(d) /\ d \in Dir /\ f \in File
       /\ \A i \in 1..Len(e) : e[i].fname # f
  BY <1>1, <1>2, <1>3, <1>4 DEF ReadInv, FsInv, MknodInv, MknodOp
<1>11. x \in Entry /\ x.fname = f /\ x.fsize = 0 /\ x.nStartBlock = b
  BY <1>8, <1>10, FileSystemAssumption DEF Entry
<1> HIDE DEF x
<1>a. PICK a : a = Append(e, x)
  OBVIOUS
<1>12. /\ a \in Listing /\ Len(a) = Len(e) + 1
       /\ \A i \in 1..Len(e) : a[i] = e[i]
       /\ a[Len(e) + 1] = x
  <2>1. a = dir'[B]
    BY <1>0, <1>7, <1>9, <1>a
  <2>2. e \in Seq(Entry)
    BY <1>10 DEF Listing
  <2>3. a \in Listing
    BY <1>0, <1>9, <2>1
  <2>4. QED
    BY <1>11, <1>a, <2>2, <2>3, AppendProperties
<1>13. /\ Find(a, f) = Len(e) + 1 /\ Find(a, f) # 0
       /\ \A g : g # f => Find(a, g) = Find(e, g)
       /\ \A g : g # f /\ Find(e, g) # 0 => a[Find(a, g)] = e[Find(e, g)]
  <2>1. /\ e \in Listing /\ \A i \in 1..Len(e) : e[i].fname # f
        /\ x.fname = f /\ a \in Listing /\ Len(a) = Len(e) + 1
        /\ \A i \in 1..Len(e) : a[i] = e[i]
        /\ a[Len(e) + 1] = x
    BY <1>10, <1>11, <1>12
  <2>2. QED
    BY <2>1, FileJoins
<1>14. \A n \in Block : dir'[n] = IF n = B THEN a ELSE dir[n]
  BY <1>0, <1>7, <1>9, <1>a
<1>15. \A d0 : dir_exists(d0)' = dir_exists(d0) /\ DirBlock(d0)' = DirBlock(d0)
  BY <1>7 DEF dir_exists, DirBlock
<1>16. get_dir(d)' = a
  BY <1>5, <1>9, <1>14, <1>15 DEF get_dir
<1>17. ASSUME NEW d0, d0 # d PROVE get_dir(d0)' = get_dir(d0)
  <2>1. CASE dir_exists(d0) = 0
    BY <1>15, <2>1 DEF get_dir
  <2>2. CASE dir_exists(d0) # 0
    <3>1. DirBlock(d0) \in Block /\ dir_exists(d0) \in 1..Len(root) /\ root[dir_exists(d0)].dname = d0
      BY <2>2, GetDir
    <3>2. DirBlock(d0) # B
      BY <1>5, <1>9, <1>17, <3>1 DEF DirBlock, OwnInv, LinksDiffer
    <3>3. QED
      BY <1>14, <1>15, <2>2, <3>1, <3>2 DEF get_dir
  <2>3. QED
    BY <2>1, <2>2
<1>18. ASSUME NEW d0 \in Dir, NEW f0 \in File, ~(d0 = d /\ f0 = f) PROVE FileInv(d0, f0)'
  <2>1. Exists(d0, f0)' = Exists(d0, f0)
    <3>1. CASE d0 = d
      BY <1>10, <1>13, <1>16, <1>18, <3>1 DEF Exists
    <3>2. CASE d0 # d
      BY <1>17, <3>2, SameEntries
    <3>3. QED
      BY <3>1, <3>2
  <2>2. Exists(d0, f0) => EntryOf(d0, f0)' = EntryOf(d0, f0)
    <3>1. CASE d0 = d
      BY <1>10, <1>13, <1>16, <1>18, <3>1 DEF Exists, EntryOf
    <3>2. CASE d0 # d
      BY <1>17, <3>2, SameEntries
    <3>3. QED
      BY <3>1, <3>2
  <2>3. written'[<<d0, f0>>] = written[<<d0, f0>>]
    BY <1>0, <1>7, <1>18
  <2>4. ~Writing(d0, f0)
    BY <1>1, AloneWriting, Kinds
  <2>5. FileInv(d0, f0)
    BY DEF ReadInv
  <2>6. QED
    BY <1>7, <2>1, <2>2, <2>3, <2>4, <2>5, FileStays
<1>19. FileInv(d, f)'
  <2>1. Exists(d, f)' /\ EntryOf(d, f)' = x
    BY <1>12, <1>13, <1>16 DEF Exists, EntryOf
  <2>2. PICK w : w = Known(<<>>)
    OBVIOUS
  <2>3. written'[<<d, f>>] = w
    BY <1>0, <1>7, <1>10, <2>2
  <2>4. w \in {Known(s) : s \in Seq(Byte)} /\ w # Absent /\ w.bytes = <<>> /\ Len(w.bytes) = 0
    <3>1. <<>> \in Seq(Byte) /\ Len(<<>>) = 0
      OBVIOUS
    <3>2. w \in {Known(s) : s \in Seq(Byte)}
      BY <2>2, <3>1
    <3>3. w.bytes = <<>> /\ w.is = "known" /\ Absent.is = "absent"
      BY <2>2 DEF Known, Absent
    <3>4. QED
      BY <3>1, <3>2, <3>3
  <2>5. PICK c : c = <<b>>
    OBVIOUS
  <2>6. c \in Seq(Block \ {0}) /\ c # <<>> /\ c[1] = b /\ Len(c) = 1
    BY <1>8, <2>5
  <2>7. Trail(data', c, b)
    BY <2>6 DEF Trail
  <2>8. Stored(data', c, w.bytes)
    <3>1. 1 \in Nat \ {0} /\ MAX_DATA_IN_BLOCK \in Nat
      BY FileSystemAssumption
    <3>2. Pos(1, MAX_DATA_IN_BLOCK) \in Nat
      BY <3>1, Positions
    <3>3. \A j \in 1..Len(c), y \in Index : Pos(j, y) \in Nat
      BY <2>6, PosTypes
    <3>4. QED
      BY <2>4, <2>6, <3>2, <3>3 DEF Stored
  <2>9. QED
    BY <1>11, <2>1, <2>3, <2>4, <2>7, <2>8 DEF FileInv
<1>20. ASSUME NEW n \in Block, dir'[n] # <<>>
       PROVE  \E i \in 1..Len(root') : root'[i].nStartBlock = n
  <2>1. CASE n = B
    BY <1>5, <1>7, <1>9, <2>1 DEF DirBlock
  <2>2. CASE n # B
    BY <1>7, <1>14, <1>20, <2>2 DEF ReadInv
  <2>3. QED
    BY <2>1, <2>2
<1>21. QED
  BY <1>7, <1>18, <1>19, <1>20, ReturnReads DEF ReadInv

\* A block of a file is saved: the file keeps its trail, and no other has the block.
LEMMA SavedTrail ==
  ASSUME FsInv, LinksForward, NEW t \in Thread, BlockInv(t), NEW a, a = th[t].address, a \in Block,
         data' = [data EXCEPT ![a] = th[t].block],
         NEW b, NEW c, Trail(data, c, b), NEW k \in 1..Len(c), a = c[k]
  PROVE  Trail(data', c, b)
<1>1. /\ c \in Seq(Block \ {0}) /\ Len(c) \in Nat \ {0} /\ c[1] = b
      /\ \A i \in 1..Len(c) : c[i] \in Block /\ c[i] # 0 /\ c[i] \in Nat
      /\ \A i, j \in 1..Len(c) : i < j => c[i] < c[j]
  BY TrailRises
<1>2. \A n \in Block : data'[n] = IF n = a THEN th[t].block ELSE data[n]
  BY DEF FsInv, DiskInv
<1>3. ASSUME NEW i \in 1..Len(c)-1 PROVE data'[c[i]].nNextBlock = c[i+1]
  <2>1. i \in 1..Len(c) /\ i + 1 \in 1..Len(c) /\ data[c[i]].nNextBlock = c[i+1]
    BY <1>1 DEF Trail
  <2>2. CASE i = k
    <3>1. data[a].nNextBlock # 0
      BY <1>1, <2>1, <2>2
    <3>2. th[t].block.nNextBlock = data[a].nNextBlock
      BY <3>1 DEF BlockInv
    <3>3. QED
      BY <1>2, <2>1, <2>2, <3>2
  <2>3. CASE i # k
    <3>1. i < k \/ k < i
      BY <2>1, <2>3, <1>1
    <3>2. c[i] # c[k]
      <4>1. (c[i] < c[k] \/ c[k] < c[i]) /\ c[i] \in Nat /\ c[k] \in Nat
        BY <1>1, <2>1, <3>1
      <4>2. QED
        BY <4>1
    <3>3. QED
      BY <1>1, <1>2, <2>1, <3>2
  <2>4. QED
    BY <2>2, <2>3
<1>4. c # <<>>
  BY DEF Trail
<1>5. QED
  BY <1>1, <1>3, <1>4 DEF Trail

\* Where bytes are left, csc452_write is at the beginning of the next block.
LEMMA NextBegins ==
  ASSUME NEW m \in Nat, NEW k \in Nat \ {0}, k + 1 \in 1..m
  PROVE  /\ Pos(k, MAX_DATA_IN_BLOCK) = Pos(k + 1, 0)
         /\ Pos(k, MAX_DATA_IN_BLOCK) <= Pos(m, MAX_DATA_IN_BLOCK)
         /\ \A j \in 1..m, x \in Index : Pos(j, x) < Pos(k, MAX_DATA_IN_BLOCK) => j <= k
<1>f. PICK M : M = MAX_DATA_IN_BLOCK
  OBVIOUS
<1>0. M \in Nat /\ k + 1 \in Nat \ {0} /\ m \in Nat \ {0} /\ k < m
  BY <1>f, FileSystemAssumption
<1>1. /\ Pos(k, M) = Pos(k + 1, 0) /\ Pos(k, M) \in Nat
      /\ Pos(m, M) = Pos(m, 0) + M /\ Pos(m, 0) \in Nat /\ Pos(k, M) <= Pos(m, 0)
  BY <1>0, <1>f, Positions
<1>2. Pos(k, M) <= Pos(m, M)
  BY <1>0, <1>1
<1>3. ASSUME NEW j \in 1..m, NEW x \in Index, Pos(j, x) < Pos(k, M) PROVE j <= k
  <2>1. j \in Nat \ {0} /\ Pos(j, x) = Pos(j, 0) + x /\ Pos(j, 0) \in Nat /\ x \in Nat
    BY <1>0, PosTypes
  <2>2. k < j => Pos(k, M) <= Pos(j, 0)
    BY <1>f, <2>1, Positions
  <2>3. QED
    BY <1>1, <1>3, <2>1, <2>2
<1>4. QED
  BY <1>f, <1>1, <1>2, <1>3

\* What csc452_write has put in place before it goes on to the next block.
LEMMA SaveProgress ==
  ASSUME FsInv, NEW t \in Thread, th[t].pc = "save", th[t].left > 0,
         NEW c, NEW k \in 1..Len(c), Len(c) \in Nat, NEW old, Progress(t, c, k, old),
         NEW e, Onward(data', c, k, e), Len(e) \in Nat,
         th'[t].pc = "walk", th'[t].begin_index = 0,
         th'[t].offset = th[t].offset, th'[t].size = th[t].size, th'[t].byte = th[t].byte,
         th'[t].left = th[t].left,
         \A j \in 1..Len(c) : Piece(t, c[j])' = Piece(t, c[j])
  PROVE  Progress(t, e, k + 1, old)'
<1>1. PICK L : L = Done(t)
  OBVIOUS
<1>2. PICK T : T = Target(t, old)
  OBVIOUS
<1>3. /\ th[t].offset <= Len(old) /\ L = Pos(k, MAX_DATA_IN_BLOCK)
      /\ \A j \in 1..Len(c), x \in Index : Pos(j, x) < L => Piece(t, c[j])[x] = T[Pos(j, x) + 1]
  BY <1>1, <1>2 DEF Progress
<1>4. k \in Nat \ {0} /\ k + 1 \in 1..Len(e) /\ \A j \in 1..Len(c) : e[j] = c[j]
  BY DEF Onward
<1>5. /\ L = Pos(k + 1, 0) /\ L <= Pos(Len(e), MAX_DATA_IN_BLOCK)
      /\ \A j \in 1..Len(e), x \in Index : Pos(j, x) < L => j <= k
  BY <1>3, <1>4, NextBegins
<1>6. Done(t)' = L /\ Target(t, old)' = T
  BY <1>1, <1>2 DEF Done, Target
<1>7. ASSUME NEW j \in 1..Len(e), NEW x \in Index, Pos(j, x) < L
      PROVE  Piece(t, e[j])'[x] = T[Pos(j, x) + 1]
  <2>1. j <= k
    BY <1>5, <1>7
  <2>2. j \in 1..Len(c)
    BY <2>1
  <2>3. e[j] = c[j] /\ Piece(t, c[j])' = Piece(t, c[j])
    BY <1>4, <2>2
  <2>4. Piece(t, e[j])' = Piece(t, c[j])'
    BY <2>3 DEF Piece
  <2>5. QED
    BY <1>3, <1>7, <2>2, <2>3, <2>4
<1>8. \A j \in 1..Len(e), x \in Index : Pos(j, x) < Done(t)' =>
        Piece(t, e[j])'[x] = Target(t, old)'[Pos(j, x) + 1]
  BY <1>6, <1>7
<1>9. /\ th'[t].offset <= Len(old) /\ Done(t)' <= Pos(Len(e), MAX_DATA_IN_BLOCK)
      /\ Done(t)' = Pos(k + 1, th'[t].begin_index)
  BY <1>3, <1>5, <1>6
<1>10. QED
  BY <1>8, <1>9 DEF Progress

\* All bytes of csc452_write are in place: the file is as long as it is to be, and
\* holds what it is to hold.
LEMMA WholeStored ==
  ASSUME FsInv, NEW t \in Thread, th[t] \in WriteOp, th[t].pc = "save", th[t].left = 0,
         NEW c, NEW k \in 1..Len(c), NEW old \in Seq(Byte), Progress(t, c, k, old),
         NEW D, \A j \in 1..Len(c) : D[c[j]].bytes = Piece(t, c[j])
  PROVE  /\ Target(t, old) \in Seq(Byte) /\ Len(Target(t, old)) = th[t].offset + th[t].size
         /\ Stored(D, c, Target(t, old))
<1>1. PICK o : o = th[t].offset
  OBVIOUS
<1>2. PICK s : s = th[t].size
  OBVIOUS
<1>3. PICK byte : byte = th[t].byte
  OBVIOUS
<1>4. PICK T : T = Target(t, old)
  OBVIOUS
<1>5. o \in Nat /\ s \in Nat /\ byte \in Byte
  BY <1>1, <1>2, <1>3, FileSystemAssumption DEF WriteOp
<1>6. Done(t) = o + s
  BY <1>1, <1>2, <1>5 DEF Done
<1>7. o <= Len(old) /\ o + s <= Pos(Len(c), MAX_DATA_IN_BLOCK)
      /\ \A j \in 1..Len(c), x \in Index : Pos(j, x) < o + s => Piece(t, c[j])[x] = T[Pos(j, x) + 1]
  BY <1>1, <1>4, <1>6 DEF Progress
<1>8. T \in Seq(Byte) /\ Len(T) = o + s
  <2>1. T = SubSeq(old, 1, o) \o [i \in 1..s |-> byte] /\ o \in 0..Len(old)
    BY <1>1, <1>2, <1>3, <1>4, <1>5, <1>7 DEF Target
  <2>2. QED
    BY <1>5, <2>1, TargetIs
<1>9. Stored(D, c, T)
  BY <1>7, <1>8 DEF Stored
<1>10. QED
  BY <1>1, <1>2, <1>4, <1>8, <1>9

\* A file that csc452_write does not write has none of its blocks.
LEMMA OthersKeep ==
  ASSUME FsInv, LinksForward, LinksDiffer, NEW d, NEW f, Exists(d, f),
         NEW c, Trail(data, c, EntryOf(d, f).nStartBlock), NEW k \in 1..Len(c),
         \A b \in Block : b # c[k] => data'[b] = data[b],
         NEW d0, NEW f0, Exists(d0, f0), <<d0, f0>> # <<d, f>>,
         NEW e, Trail(data, e, EntryOf(d0, f0).nStartBlock)
  PROVE  \A i \in 1..Len(e) : data'[e[i]] = data[e[i]]
<1>1. PICK a : a = EntryOf(d, f).nStartBlock
  OBVIOUS
<1>2. PICK b : b = EntryOf(d0, f0).nStartBlock
  OBVIOUS
<1>3. a # b /\ \A n \in Block : data[n].nNextBlock # a /\ data[n].nNextBlock # b
  BY <1>1, <1>2, StartsDiffer
<1>4. Trail(data, c, a) /\ Trail(data, e, b)
  BY <1>1, <1>2
<1>5. \A i \in 1..Len(c), j \in 1..Len(e) : c[i] # e[j]
  BY <1>3, <1>4, TrailsDiffer
<1>6. \A i \in 1..Len(e) : e[i] \in Block
  BY <1>4, TrailRises
<1>7. QED
  BY <1>5, <1>6

\* csc452_write saves a block, and goes on to the next one or returns.
LEMMA SaveReads ==
  ASSUME OneThread, FsInv, FsInv', OwnInv, ReadInv, ~RootLost, NEW t \in Thread, WriteSave(t)
  PROVE  ReadInv'
<1>0. /\ th \in [Thread -> Op] /\ data \in [Block -> DiskBlock] /\ DOMAIN written = Dir \X File
      /\ LinksForward /\ LinksDiffer
  BY DEF FsInv, DiskInv, OwnInv
<1>a. PICK a : a = th[t].address
  OBVIOUS
<1>d. PICK d : d = th[t].dir
  OBVIOUS
<1>f. PICK f : f = th[t].file
  OBVIOUS
<1>n. PICK next : next = th[t].block.nNextBlock
  OBVIOUS
<1>w. PICK w : w = written[<<d, f>>]
  OBVIOUS
<1>s. PICK start : start = EntryOf(d, f).nStartBlock
  OBVIOUS
<1>1. /\ th[t] \in WriteOp /\ th[t].pc = "save" /\ a # 0 /\ a \in Block /\ th[t].left \in Nat
      /\ d \in Dir /\ f \in File /\ next \in Block
  <2>1. th[t] \in WriteOp /\ th[t].pc = "save"
    BY KindOf DEF WriteSave
  <2>2. th[t].address # 0
    BY <2>1 DEF RootLost
  <2>3. th[t].block \in DiskBlock
    BY <2>1 DEF WriteOp
  <2>4. QED
    BY <1>a, <1>d, <1>f, <1>n, <2>1, <2>2, <2>3 DEF WriteOp, DiskBlock
<1>2. WriteInv(t) /\ BlockInv(t)
  BY <1>1, Held DEF ReadInv
<1>3. /\ data' = [data EXCEPT ![a] = th[t].block] /\ UNCHANGED <<root, dir>>
  BY <1>a DEF WriteSave
<1>4. \A b \in Block : data'[b] = IF b = a THEN th[t].block ELSE data[b]
  BY <1>0, <1>3
<1>5. \A n \in Block : data'[n].bytes = Piece(t, n)
  BY <1>4, <1>a DEF Piece
<1>6. PICK c : Trail(data, c, start) /\ Place(t, c, w)
  BY <1>2, <1>d, <1>f, <1>w, <1>s DEF WriteInv, PlaceInv
<1>7. PICK k \in 1..Len(c) : a = c[k] /\ (w.is = "known" => Progress(t, c, k, w.bytes))
  BY <1>1, <1>6, <1>a DEF Place
<1>8. Trail(data', c, start)
  BY <1>0, <1>1, <1>2, <1>3, <1>6, <1>7, <1>a, SavedTrail
<1>9. Len(c) \in Nat /\ \A i \in 1..Len(c) : c[i] \in Block
  BY <1>0, <1>6, TrailRises
<1>10. \A d0 : get_dir(d0)' = get_dir(d0)
  BY <1>3, SameDirs
<1>11. \A d0, f0 : Exists(d0, f0)' = Exists(d0, f0) /\ EntryOf(d0, f0)' = EntryOf(d0, f0)
  BY <1>10, SameEntries
<1>12. Exists(d, f)
  BY <1>2, <1>d, <1>f DEF WriteInv
<1>13. w \in {Unknown} \cup {Known(s) : s \in Seq(Byte)}
  <2>1. FileInv(d, f)
    BY <1>1 DEF ReadInv
  <2>2. QED
    BY <1>12, <1>w, <2>1 DEF FileInv
<1>14. ASSUME NEW d0 \in Dir, NEW f0 \in File, <<d0, f0>> # <<d, f>>, written'[<<d0, f0>>] = written[<<d0, f0>>]
       PROVE  FileInv(d0, f0)'
  <2>1. ASSUME Exists(d0, f0) PROVE \A e : Trail(data, e, EntryOf(d0, f0).nStartBlock) =>
                                      \A i \in 1..Len(e) : data'[e[i]] = data[e[i]]
    <3>1. \A b \in Block : b # c[k] => data'[b] = data[b]
      BY <1>4, <1>7
    <3>2. QED
      BY <1>0, <1>6, <1>12, <1>14, <1>s, <2>1, <3>1, OthersKeep
  <2>2. ~Writing(d0, f0)
    BY <1>14, <1>d, <1>f, AloneWriting
  <2>3. FileInv(d0, f0)
    BY DEF ReadInv
  <2>4. QED
    BY <1>11, <1>14, <2>1, <2>2, <2>3, FileStays
<1>15. /\ data'[0].nNextBlock = 0
       /\ \A b \in Block : dir'[b] # <<>> => \E i \in 1..Len(root') : root'[i].nStartBlock = b
  <2>1. 0 \in Block
    BY LinkTypes
  <2>2. QED
    BY <1>1, <1>3, <1>4, <2>1 DEF ReadInv
<1>16. CASE th[t].left > 0
  <2> DEFINE r == [[th[t] EXCEPT !.address = th[t].block.nNextBlock,
                                 !.block = data[th[t].block.nNextBlock],
                                 !.begin_index = 0, !.next_free = 0] EXCEPT !.pc = "walk"]
  <2>1. th'[t] = r /\ written' = written
    BY <1>0, <1>16 DEF WriteSave, Goto
  <2>2. /\ r.pc = "walk" /\ r.op = th[t].op /\ r.dir = d /\ r.file = f
        /\ r.entry = th[t].entry /\ r.unsaved = th[t].unsaved
        /\ r.offset = th[t].offset /\ r.size = th[t].size /\ r.left = th[t].left
        /\ r.byte = th[t].byte /\ r.address = next /\ r.block = data[next]
        /\ r.begin_index = 0
    BY <1>1, <1>d, <1>f, <1>n DEF WriteOp
  <2> HIDE DEF r
  <2>3. next # 0 /\ th[t].left <= th[t].size
    BY <1>1, <1>2, <1>16, <1>n DEF WriteInv, MemoryInv
  <2>4. next # a
    <3>1. CASE next = data[a].nNextBlock
      <4>1. next \in a+1..tracker
        BY <1>0, <1>1, <2>3, <3>1 DEF LinksForward
      <4>2. QED
        BY <1>1, <4>1, LinkTypes
    <3>2. CASE next = tracker /\ a < tracker
      BY <1>1, <3>2, LinkTypes
    <3>3. QED
      BY <1>2, <1>a, <1>n, <3>1, <3>2 DEF BlockInv
  <2>5. data'[next] = data[next]
    BY <1>1, <1>4, <2>4
  <2>6. data'[c[k]].nNextBlock = next
    BY <1>1, <1>4, <1>7, <1>n
  <2>7. PICK e : Trail(data', e, start) /\ Onward(data', c, k, e)
    BY <1>1, <1>8, <2>3, <2>6, TrailOn
  <2>8. e \in Seq(Block \ {0}) /\ Len(e) \in Nat /\ k + 1 \in 1..Len(e) /\ e[k+1] = next
    BY <2>6, <2>7 DEF Onward, Trail
  <2>9. \A n \in Block : Piece(t, n)' = Piece(t, n)
    <3>1. \A n : Piece(t, n)' = IF n = next THEN data[next].bytes ELSE data'[n].bytes
      BY <2>1, <2>2 DEF Piece
    <3>2. QED
      BY <1>5, <2>5, <3>1
  <2>10. ASSUME w.is = "known" PROVE Progress(t, e, k + 1, w.bytes)'
    <3>1. ASSUME NEW old, Progress(t, c, k, old) PROVE Progress(t, e, k + 1, old)'
      <4>1. \A j \in 1..Len(c) : Piece(t, c[j])' = Piece(t, c[j])
        <5>1. ASSUME NEW j \in 1..Len(c), NEW n, n = c[j] PROVE Piece(t, n)' = Piece(t, n)
          BY <1>9, <2>9, <5>1
        <5>2. QED
          BY <5>1
      <4>2. QED
        BY <1>1, <1>9, <1>16, <2>1, <2>2, <2>7, <2>8, <3>1, <4>1, SaveProgress
    <3>2. QED
      BY <1>7, <2>10, <3>1
  <2>11. Place(t, e, w)'
    BY <2>1, <2>2, <2>8, <2>10 DEF Place
  <2>12. get_dir(th[t].dir)' = get_dir(th[t].dir)
    <3>1. get_dir(th[t].dir)' = get_dir(d)'
      BY <1>3, <2>1, <2>2 DEF get_dir, DirBlock, dir_exists
    <3>2. QED
      BY <1>10, <1>d, <3>1
  <2>13. Exists(th[t].dir, th[t].file)' /\ EntryOf(th[t].dir, th[t].file)'.nStartBlock = start
    BY <1>12, <1>d, <1>f, <1>s, <2>1, <2>2, <2>12 DEF Exists, EntryOf
  <2>14. PlaceInv(t)'
    <3>1. written'[<<th'[t].dir, th'[t].file>>] = w
      BY <1>w, <2>1, <2>2
    <3>2. Place(t, e, written[<<th[t].dir, th[t].file>>])'
      BY <2>11, <3>1
    <3>3. QED
      BY <2>7, <2>13, <3>2 DEF PlaceInv
  <2>15. SizeInv(t)'
    BY <1>2, <1>d, <1>f, <2>1, <2>2, <2>12 DEF WriteInv, SizeInv
  <2>16. MemoryInv(t)'
    BY <2>1, <2>2, <2>3, <2>5 DEF MemoryInv
  <2>17. WriteInv(t)'
    BY <2>13, <2>14, <2>15, <2>16 DEF WriteInv
  <2>18. th'[t] \in WriteOp /\ th'[t] \notin MknodOp
    BY <1>1, <2>1, <2>2, OpStays, Kinds
  <2>19. FileInv(d, f)'
    <3>1. Writing(d, f)'
      BY <2>1, <2>2, <2>18 DEF Writing
    <3>2. FileInv(d, f)
      BY <1>1 DEF ReadInv
    <3>3. QED
      BY <1>11, <2>1, <3>1, <3>2 DEF FileInv
  <2>20. \A d0 \in Dir, f0 \in File : FileInv(d0, f0)'
    BY <1>14, <2>1, <2>19
  <2>21. QED
    BY <1>15, <2>17, <2>18, <2>20 DEF ReadInv, OneThread
<1>17. CASE ~(th[t].left > 0)
  <2>1. th'[t] = Idle /\ written' = [written EXCEPT ![<<d, f>>] = Overwritten(@, th[t])]
    BY <1>0, <1>17, <1>d, <1>f DEF WriteSave, Return
  <2>2. th[t].left = 0
    BY <1>1, <1>17
  <2>3. written'[<<d, f>>] = Overwritten(w, th[t])
    BY <1>0, <1>1, <1>w, <2>1
  <2>4. FileInv(d, f)'
    <3>1. CASE w = Unknown
      <4>1. written'[<<d, f>>] = Unknown
        BY <2>3, <3>1 DEF Overwritten
      <4>2. Unknown # Absent /\ Unknown.is # "known"
        BY DEF Unknown, Absent
      <4>3. QED
        BY <1>11, <1>12, <4>1, <4>2 DEF FileInv
    <3>2. CASE w \in {Known(s) : s \in Seq(Byte)}
      <4>1. PICK old : old \in Seq(Byte) /\ w = Known(old)
        BY <3>2
      <4>2. w.is = "known" /\ w.bytes = old /\ w # Unknown
        BY <4>1 DEF Known, Unknown
      <4>3. PICK T : T = Target(t, old)
        OBVIOUS
      <4>4. written'[<<d, f>>] = Known(T)
        BY <2>3, <4>2, <4>3 DEF Overwritten, Target
      <4>5. Progress(t, c, k, old)
        BY <1>7, <4>2
      <4>6. T \in Seq(Byte) /\ Len(T) = th[t].offset + th[t].size /\ Stored(data', c, T)
        <5>1. ASSUME NEW D, \A j \in 1..Len(c) : D[c[j]].bytes = Piece(t, c[j])
              PROVE  T \in Seq(Byte) /\ Len(T) = th[t].offset + th[t].size /\ Stored(D, c, T)
          BY <1>1, <2>2, <4>1, <4>3, <4>5, <5>1, WholeStored
        <5>2. \A j \in 1..Len(c) : data'[c[j]].bytes = Piece(t, c[j])
          BY <1>5, <1>9
        <5>3. QED
          BY <5>1, <5>2
      <4>7. EntryOf(d, f).fsize = Len(T)
        <5>1. th[t].entry = get_dir(d) /\ th[t].entry = Sized(get_dir(d), Find(get_dir(d), f), Len(T))
          BY <1>1, <1>2, <1>d, <1>f, <4>6 DEF WriteInv, SizeInv, Sized
        <5>2. get_dir(d) \in Listing /\ Find(get_dir(d), f) \in 1..Len(get_dir(d))
          BY <1>12, EntryIs
        <5>3. get_dir(d)[Find(get_dir(d), f)].fsize = Len(T)
          <6> DEFINE g == get_dir(d)
                     i == Find(g, f)
          <6>1. g \in Listing /\ i \in 1..Len(g) /\ g = Sized(g, i, Len(T))
            BY <5>1, <5>2
          <6> HIDE DEF g, i
          <6>2. g[i].fsize = Len(T)
            BY <6>1, SizedEntry
          <6>3. QED
            BY <6>2 DEF g, i
        <5>4. QED
          BY <5>3 DEF EntryOf
      <4>8. PICK v : v = Known(T)
        OBVIOUS
      <4>9. /\ v \in {Known(s) : s \in Seq(Byte)} /\ v # Absent /\ v.bytes = T
        <5>1. v \in {Known(s) : s \in Seq(Byte)}
          BY <4>6, <4>8
        <5>2. QED
          BY <4>8, <5>1 DEF Known, Absent
      <4>10. written'[<<d, f>>] = v
        BY <4>4, <4>8
      <4>11. EntryOf(d, f)'.fsize = Len(T) /\ EntryOf(d, f)'.nStartBlock = start /\ Exists(d, f)'
        BY <1>11, <1>12, <1>s, <4>7
      <4>12. QED
        BY <1>8, <4>6, <4>9, <4>10, <4>11 DEF FileInv
    <3>3. QED
      BY <1>13, <3>1, <3>2
  <2>5. ASSUME NEW d0 \in Dir, NEW f0 \in File PROVE FileInv(d0, f0)'
    <3>1. CASE <<d0, f0>> = <<d, f>>
      <4>1. d0 = d /\ f0 = f
        BY <3>1
      <4>2. QED
        BY <2>4, <4>1
    <3>2. CASE <<d0, f0>> # <<d, f>>
      <4>1. written'[<<d0, f0>>] = written[<<d0, f0>>]
        BY <1>0, <2>1, <3>2
      <4>2. QED
        BY <1>14, <3>2, <4>1
    <3>3. QED
      BY <3>1, <3>2
  <2>6. QED
    BY <1>15, <2>1, <2>5, ReturnReads
<1>18. QED
  BY <1>16, <1>17

\* No step of a single thread breaks what a reader is entitled to.
LEMMA ReadStep ==
  ASSUME OneThread
  PROVE  FsInv /\ FsInv' /\ OwnInv /\ ReadInv /\ [Next]_vars => ReadInv'
<1> SUFFICES ASSUME FsInv, FsInv', OwnInv, ReadInv, [Next]_vars PROVE ReadInv'
  OBVIOUS
<1>1. CASE UNCHANGED vars
  <2>1. UNCHANGED <<root, dir, data, th, written>>
    BY <1>1 DEF vars, diskVars
  <2>2. \A d : get_dir(d)' = get_dir(d)
    BY <2>1, SameDirs
  <2>3. ASSUME NEW t \in Thread, th[t] \in WriteOp, WriteInv(t) PROVE WriteInv(t)'
    <3>0. get_dir(th[t].dir)' = get_dir(th[t].dir)
      BY <2>1 DEF get_dir, DirBlock, dir_exists
    <3>1. SizeInv(t)'
      <4>1. th'[t] = th[t] /\ SizeInv(t)
        BY <2>1, <2>3 DEF WriteInv
      <4>2. QED
        BY <3>0, <4>1 DEF SizeInv
    <3>2. MemoryInv(t)'
      BY <2>1, <2>3 DEF WriteInv, MemoryInv
    <3>3. Exists(th[t].dir, th[t].file)' /\ EntryOf(th[t].dir, th[t].file)' = EntryOf(th[t].dir, th[t].file)
      BY <2>1, <2>3 DEF WriteInv, Exists, EntryOf, get_dir, DirBlock, dir_exists
    <3>4. ASSUME NEW c, NEW k, NEW old, Progress(t, c, k, old) PROVE Progress(t, c, k, old)'
      BY <2>1, <3>4 DEF Progress, Done, Piece, Target
    <3>5. PICK c : /\ Trail(data, c, EntryOf(th[t].dir, th[t].file).nStartBlock)
                   /\ Place(t, c, written[<<th[t].dir, th[t].file>>])
      BY <2>3 DEF WriteInv, PlaceInv
    <3>6. PICK w : w = written[<<th[t].dir, th[t].file>>]
      OBVIOUS
    <3>7. Place(t, c, w)'
      BY <2>1, <3>4, <3>5, <3>6 DEF Place
    <3>8. written'[<<th'[t].dir, th'[t].file>>] = w
      BY <2>1, <3>6
    <3>9. Place(t, c, written[<<th[t].dir, th[t].file>>])'
      BY <3>7, <3>8
    <3>10. PlaceInv(t)'
      BY <2>1, <3>3, <3>5, <3>9 DEF PlaceInv
    <3>11. QED
      BY <3>1, <3>2, <3>3, <3>10 DEF WriteInv
  <2>4. ASSUME NEW d \in Dir, NEW f \in File PROVE FileInv(d, f)'
    <3>1. Exists(d, f)' = Exists(d, f) /\ EntryOf(d, f)' = EntryOf(d, f)
      BY <2>2, SameEntries
    <3>2. Writing(d, f) => Writing(d, f)'
      BY <2>1 DEF Writing
    <3>3. FileInv(d, f)
      BY DEF ReadInv
    <3>4. QED
      BY <2>1, <3>1, <3>2, <3>3, FileStays
  <2>5. ASSUME NEW t \in Thread, th'[t] \in MknodOp PROVE th'[t].entry = get_dir(th[t].dir)'
    <3>1. th[t].entry = get_dir(th[t].dir)
      BY <2>1, <2>5 DEF ReadInv
    <3>2. get_dir(th[t].dir)' = get_dir(th[t].dir)
      BY <2>1 DEF get_dir, DirBlock, dir_exists
    <3>3. QED
      BY <2>1, <3>1, <3>2
  <2>6. QED
    BY <2>1, <2>3, <2>4, <2>5 DEF ReadInv
<1>2. CASE Crash \/ Unmount
  BY <1>2, CrashReads, UnmountReads
<1>3. CASE \E t \in Thread : \E d \in Dir : Mkdir(t, d) \/ \E f \in File : Mknod(t, d, f)
  BY <1>3, StartReads
<1>4. CASE \E t \in Thread : \E d \in Dir, f \in File, b \in Byte, offset \in 0..MaxSize :
             \E size \in 1..(MaxSize - offset) : WriteBegin(t, d, f, offset, size, b)
  BY <1>4, WriteBeginReads
<1>5. CASE \E t \in Thread : GetTracker(t) \/ PutTracker(t) \/ CreateFails(t)
  BY <1>5, TrackerReads
<1>6. CASE \E t \in Thread : LinkDir(t) \/ LinkFile(t)
  BY <1>6, LinkDirReads, LinkFileReads
<1>7. CASE \E t \in Thread : WriteWalk(t) \/ WriteFill(t) \/ WriteSeek(t)
  BY <1>7, WalkReads, FillReads, SeekReads
<1>8. CASE \E t \in Thread : WriteFails(t)
  BY <1>8, FailsReads
<1>9. CASE ~RootLost /\ \E t \in Thread : WriteSave(t)
  BY <1>9, SaveReads
<1>10. QED
  BY <1>1, <1>2, <1>3, <1>4, <1>5, <1>6, <1>7, <1>8, <1>9 DEF Next

LEMMA ReadInvariance ==
  ASSUME OneThread
  PROVE  Spec => []ReadInv
<1>1. FsInv /\ FsInv' /\ OwnInv /\ ReadInv /\ [Next]_vars => ReadInv'
  BY ReadStep
<1>2. QED
  BY <1>1, ReadInit, FsInvariance, OwnInvariance, PTL DEF Spec

\* A trail is part of one that ends where the chain does.
LEMMA TrailEnds ==
  ASSUME FsInv, LinksForward, NEW b, NEW c, Trail(data, c, b)
  PROVE  \E e : /\ Trail(data, e, b) /\ Len(c) <= Len(e) /\ \A j \in 1..Len(c) : e[j] = c[j]
                /\ data[e[Len(e)]].nNextBlock = 0
<1> DEFINE Longer(e) == Trail(data, e, b) /\ Len(c) <= Len(e) /\ \A j \in 1..Len(c) : e[j] = c[j]
           T == {n \in 0..BLOCKS : \E e : Longer(e) /\ n = BLOCKS - Len(e)}
<1>0. BLOCKS \in Nat
  BY FileSystemAssumption
<1>1. \A e : Trail(data, e, b) => Len(e) \in Nat \ {0} /\ Len(e) < BLOCKS
  BY TrailRises
<1>2. BLOCKS - Len(c) \in T
  <2>1. Longer(c) /\ BLOCKS - Len(c) \in 0..BLOCKS
    BY <1>0, <1>1
  <2>2. QED
    BY <2>1
<1>3. T \in SUBSET Nat
  BY <1>0
<1>4. PICK n \in T : \A m \in T : n <= m
  <2> HIDE DEF T
  <2>1. QED
    BY <1>2, <1>3, Least
<1>5. PICK e : Longer(e) /\ n = BLOCKS - Len(e)
  BY <1>4
<1>6. ASSUME data[e[Len(e)]].nNextBlock # 0 PROVE FALSE
  <2>1. Len(e) \in Nat /\ Len(c) \in Nat /\ Len(e) \in 1..Len(e) /\ e[Len(e)] \in Block
    <3>1. Len(e) \in 1..Len(e) /\ Len(e) \in Nat /\ Len(c) \in Nat
      BY <1>1, <1>5
    <3>2. QED
      BY <1>5, <3>1, TrailRises
  <2>2. data[e[Len(e)]].nNextBlock \in Block
    BY <2>1, LinkTypes
  <2>3. PICK x : Trail(data, x, b) /\ Onward(data, e, Len(e), x)
    BY <1>5, <1>6, <2>1, <2>2, TrailOn
  <2>4. Len(x) = Len(e) + 1 /\ \A j \in 1..Len(e) : x[j] = e[j]
    BY <2>1, <2>3 DEF Onward
  <2>5. Len(x) < BLOCKS /\ Len(x) \in Nat
    BY <1>1, <2>3
  <2>6. Longer(x)
    BY <1>5, <2>1, <2>3, <2>4
  <2>7. BLOCKS - Len(x) \in T
    BY <1>0, <2>5, <2>6
  <2>8. n <= BLOCKS - Len(x)
    <3> HIDE DEF T
    <3>1. QED
      BY <1>4, <2>7
  <2>9. QED
    BY <1>0, <1>5, <2>1, <2>4, <2>8
<1>7. QED
  BY <1>5, <1>6

\* Following the links of a file, csc452_read comes to the blocks of its trail.
LEMMA HopIs ==
  ASSUME FsInv, LinksForward, data[0].nNextBlock = 0, NEW b, NEW c, Trail(data, c, b)
  PROVE  \A j \in 1..Len(c) : Hop(b)[j - 1] = c[j]
<1>0. BLOCKS \in Nat /\ Len(c) \in Nat /\ Len(c) < BLOCKS
  BY TrailRises, FileSystemAssumption
<1> DEFINE B(h) == [k \in 0..BLOCKS |-> IF k = 0 THEN b ELSE data[h[k-1]].nNextBlock]
           hop == CHOOSE h : h = B(h)
<1>1. PICK e : Trail(data, e, b) /\ data[e[Len(e)]].nNextBlock = 0
  BY TrailEnds
<1>2. PICK n : n = Len(e)
  OBVIOUS
<1>3. n \in Nat \ {0} /\ n < BLOCKS /\ e[1] = b /\ data[e[n]].nNextBlock = 0
      /\ \A i \in 1..n-1 : data[e[i]].nNextBlock = e[i+1]
  BY <1>1, <1>2, TrailRises DEF Trail
<1> DEFINE g == [k \in 0..BLOCKS |-> IF k < n THEN e[k+1] ELSE 0]
<1>4. g = B(g)
  <2>1. ASSUME NEW k \in 0..BLOCKS PROVE g[k] = IF k = 0 THEN b ELSE data[g[k-1]].nNextBlock
    <3>1. CASE k = 0
      BY <1>3, <3>1
    <3>2. CASE k # 0 /\ k < n
      <4>1. k \in 1..n-1 /\ k - 1 \in 0..BLOCKS /\ k - 1 < n /\ (k - 1) + 1 = k
        BY <1>0, <1>3, <3>2
      <4>2. g[k] = e[k+1] /\ g[k-1] = e[k]
        BY <3>2, <4>1
      <4>3. QED
        BY <1>3, <3>2, <4>1, <4>2
    <3>3. CASE k = n
      <4>1. n - 1 \in 0..BLOCKS /\ n - 1 < n /\ (n - 1) + 1 = n /\ ~(n < n)
        BY <1>0, <1>3
      <4>2. g[n] = 0 /\ g[n-1] = e[n]
        BY <3>3, <4>1
      <4>3. QED
        BY <1>3, <3>3, <4>2
    <3>4. CASE k > n
      <4>1. k - 1 \in 0..BLOCKS /\ ~(k - 1 < n) /\ ~(k < n) /\ k # 0
        BY <1>0, <1>3, <3>4
      <4>2. g[k] = 0 /\ g[k-1] = 0
        BY <4>1
      <4>3. QED
        BY <4>1, <4>2
    <3>5. QED
      BY <1>3, <3>1, <3>2, <3>3, <3>4
  <2>2. g = [k \in 0..BLOCKS |-> g[k]]
    OBVIOUS
  <2> HIDE DEF g
  <2>3. QED
    BY <2>1, <2>2
<1>5. hop = B(hop)
  <2> HIDE DEF B, g
  <2>1. QED
    BY <1>4
<1>6. Hop(b) = hop
  BY DEF Hop
<1> HIDE DEF hop
<1>7. hop[0] = b /\ \A k \in 1..BLOCKS : hop[k] = data[hop[k-1]].nNextBlock
  <2>1. 0 \in 0..BLOCKS /\ \A k \in 1..BLOCKS : k \in 0..BLOCKS /\ k # 0
    BY <1>0
  <2>2. QED
    BY <1>5, <2>1
<1>8. \A j \in 1..Len(c) : hop[j - 1] = c[j]
  <2> DEFINE bad == {j \in 1..Len(c) : hop[j - 1] # c[j]}
  <2> SUFFICES ASSUME bad # {} PROVE FALSE
    OBVIOUS
  <2>1. PICK j \in bad : \A y \in bad : j <= y
    <3>1. bad \in SUBSET Nat
      OBVIOUS
    <3> HIDE DEF bad
    <3>2. QED
      BY <3>1, Least
  <2>2. j \in 1..Len(c) /\ hop[j - 1] # c[j]
    BY <2>1
  <2>3. j # 1
    BY <1>7, <2>2 DEF Trail
  <2>4. /\ j - 1 \in 1..Len(c) /\ j - 1 \in 1..Len(c)-1 /\ j - 1 < j /\ (j - 1) + 1 = j
        /\ j - 1 \in 1..BLOCKS /\ (j - 1) - 1 = j - 2
    BY <1>0, <2>2, <2>3
  <2>5. hop[j - 2] = c[j - 1]
    BY <2>1, <2>4
  <2>6. hop[j - 1] = data[hop[j - 2]].nNextBlock
    BY <1>7, <2>4
  <2>7. data[c[j - 1]].nNextBlock = c[j]
    BY <2>4 DEF Trail
  <2>8. QED
    BY <2>2, <2>5, <2>6, <2>7
<1>9. QED
  BY <1>6, <1>8

\* Quotient and remainder, as the operators give them and as they are meant.
Quotient(m, g, q, r) == q = g \div m /\ r = g % m
Multiple(m, g, q, r) == q \in Int /\ r \in 0..m-1 /\ g = m * q + r

LEMMA QuotientIs ==
  ASSUME NEW m \in Nat \ {0}, NEW g \in Nat, NEW q, NEW r, Quotient(m, g, q, r)
  PROVE  Multiple(m, g, q, r)
BY Divided DEF Quotient, Multiple

\* There is one quotient and one remainder.
LEMMA DivisionIs ==
  ASSUME NEW m \in Nat \ {0}, NEW g, NEW q, NEW r, Multiple(m, g, q, r)
  PROVE  Quotient(m, g, q, r)
<1>a. q \in Int /\ r \in 0..m-1 /\ g = m * q + r
  BY DEF Multiple
<1>0. m * q \in Int /\ g \in Int
  BY <1>a
<1>1. PICK p : p = g \div m
  OBVIOUS
<1>2. PICK s : s = g % m
  OBVIOUS
<1>3. p \in Int /\ s \in 0..m-1 /\ g = m * p + s
  BY <1>0, <1>1, <1>2
<1>4. ASSUME NEW x \in Int, NEW y \in Int, x < y, NEW u \in 0..m-1, NEW v \in 0..m-1,
             m * x + u = m * y + v
      PROVE  FALSE
  <2>1. PICK k \in Nat : y = x + 1 + k
    <3>1. y - x - 1 \in Nat /\ y = x + 1 + (y - x - 1)
      BY <1>4
    <3>2. QED
      BY <3>1
  <2>2. m * y = m * x + m + m * k
    BY <2>1
  <2>3. m * x \in Int /\ m * k \in Nat /\ m * y \in Int
    OBVIOUS
  <2> DEFINE a == m * x
             b == m * y
             c == m * k
  <2>4. a \in Int /\ c \in Nat /\ b = a + m + c /\ a + u = b + v
    BY <1>4, <2>2, <2>3
  <2> HIDE DEF a, b, c
  <2>5. QED
    BY <2>4
<1>5. p = q
  <2>1. ~(p < q)
    BY <1>a, <1>3, <1>4
  <2>2. ~(q < p)
    BY <1>a, <1>3, <1>4
  <2>3. QED
    BY <1>a, <1>3, <2>1, <2>2
<1>6. s = r
  <2>1. m * p = m * q
    BY <1>5
  <2> DEFINE a == m * q
  <2>2. a \in Int /\ g = a + s /\ g = a + r
    BY <1>a, <1>0, <1>3, <2>1
  <2> HIDE DEF a
  <2>3. QED
    BY <1>a, <1>3, <2>2
<1>7. QED
  BY <1>1, <1>2, <1>5, <1>6 DEF Quotient

\* Behind as many blocks as csc452_read has gone, byte g of a file is as many
\* blocks before.
LEMMA BehindHops ==
  ASSUME NEW g \in Nat, NEW hops \in Int, NEW q, q = g \div MAX_DATA_IN_BLOCK,
         NEW r, r = g % MAX_DATA_IN_BLOCK, NEW x, x = g - hops * MAX_DATA_IN_BLOCK
  PROVE  hops + (x \div MAX_DATA_IN_BLOCK) = q /\ x % MAX_DATA_IN_BLOCK = r
<1>m. PICK M : M = MAX_DATA_IN_BLOCK
  OBVIOUS
<1>0. M \in Nat \ {0} /\ q = g \div M /\ r = g % M
  BY <1>m, FileSystemAssumption
<1>a. M \in Nat \ {0} /\ g \in Nat
  BY <1>0
<1>1. q \in Int /\ r \in 0..M-1 /\ g = M * q + r
  <2>1. Quotient(M, g, q, r)
    BY <1>0 DEF Quotient
  <2>2. Multiple(M, g, q, r)
    BY <1>a, <2>1, QuotientIs
  <2>3. QED
    BY <2>2 DEF Multiple
<1>b. q \in Int /\ r \in Int /\ M \in Int
  BY <1>0, <1>1
<1>y. PICK y \in Int : y = q - hops
  BY <1>b
<1>2. x = M * y + r
  <2>1. M * y = M * q - hops * M
    BY <1>b, <1>y
  <2> DEFINE a == M * q
             b == hops * M
             c == M * y
  <2>2. a \in Int /\ b \in Int /\ c = a - b /\ g = a + r /\ x = g - b
    BY <1>m, <1>b, <1>1, <2>1
  <2> HIDE DEF a, b, c
  <2>3. x = c + r
    BY <1>b, <2>2
  <2>4. QED
    BY <2>3 DEF c
<1>4. x \div M = y /\ x % M = r
  <2>1. Multiple(M, x, y, r)
    BY <1>1, <1>2 DEF Multiple
  <2>2. Quotient(M, x, y, r)
    BY <1>a, <2>1, DivisionIs
  <2>3. QED
    BY <2>2 DEF Quotient
<1>5. hops + y = q
  BY <1>b, <1>y
<1>6. QED
  BY <1>m, <1>4, <1>5

\* A byte of a file is where the links of its entry lead.
LEMMA ByteIs ==
  ASSUME FsInv, LinksForward, data[0].nNextBlock = 0, NEW b, NEW c, Trail(data, c, b),
         NEW s \in Seq(Byte), Stored(data, c, s), NEW g \in Nat, g < Len(s)
  PROVE  data[Hop(b)[g \div MAX_DATA_IN_BLOCK]].bytes[g % MAX_DATA_IN_BLOCK] = s[g + 1]
<1>m. PICK M : M = MAX_DATA_IN_BLOCK
  OBVIOUS
<1>q. PICK q : q = g \div M
  OBVIOUS
<1>r. PICK r : r = g % M
  OBVIOUS
<1>1. q \in Nat /\ r \in Index /\ g = Pos(q + 1, r)
  BY <1>m, <1>q, <1>r, PlaceOf
<1>2. /\ Len(s) <= Pos(Len(c), M)
      /\ \A j \in 1..Len(c), x \in Index : Pos(j, x) < Len(s) =>
           data[c[j]].bytes[x] = s[Pos(j, x) + 1]
  BY <1>m DEF Stored
<1>3. Len(c) \in Nat \ {0}
  BY TrailRises
<1>4. q + 1 \in 1..Len(c)
  <2>0. M \in Nat /\ r \in Nat /\ q + 1 \in Nat \ {0} /\ Len(s) \in Nat
    BY <1>m, <1>1, FileSystemAssumption DEF Index
  <2>1. g = Pos(q + 1, 0) + r /\ Pos(q + 1, 0) \in Nat /\ Pos(Len(c), M) \in Nat
    BY <1>1, <1>3, <2>0, Positions
  <2>2. Len(c) < q + 1 => Pos(Len(c), M) <= Pos(q + 1, 0)
    BY <1>m, <1>3, <2>0, Positions
  <2>3. QED
    BY <1>1, <1>2, <1>3, <2>0, <2>1, <2>2
<1>5. data[c[q + 1]].bytes[r] = s[g + 1]
  BY <1>1, <1>2, <1>4
<1>6. Hop(b)[q] = c[q + 1]
  <2>1. \A j \in 1..Len(c) : Hop(b)[j - 1] = c[j]
    BY HopIs
  <2>2. (q + 1) - 1 = q
    BY <1>1
  <2>3. QED
    BY <1>4, <2>1, <2>2
<1>7. QED
  BY <1>m, <1>q, <1>r, <1>5, <1>6

\* csc452_read returns the piece of a file that it is asked for.
LEMMA PieceReads ==
  ASSUME FsInv, LinksForward, data[0].nNextBlock = 0, NEW d, NEW f, NEW s \in Seq(Byte),
         EntryOf(d, f).fsize = Len(s),
         NEW c, Trail(data, c, EntryOf(d, f).nStartBlock), Stored(data, c, s),
         NEW offset \in 0..Len(s), NEW size \in 0..(Len(s) - offset)
  PROVE  csc452_read(d, f, offset, size) = SubSeq(s, offset + 1, offset + size)
<1> DEFINE entry == get_dir(d)[Find(get_dir(d), f)]
           count == IF size > entry.fsize THEN entry.fsize ELSE size
           hops == IF offset = 0 THEN 0 ELSE (offset - 1) \div MAX_DATA_IN_BLOCK
           begin_index == offset - hops * MAX_DATA_IN_BLOCK
           at(i) == begin_index + i - 1
           byte(i) == data[Hop(entry.nStartBlock)[hops + (at(i) \div MAX_DATA_IN_BLOCK)]]
                        .bytes[at(i) % MAX_DATA_IN_BLOCK]
<1>1. csc452_read(d, f, offset, size) = [i \in 1..count |-> byte(i)]
  BY DEF csc452_read
<1>2. entry = EntryOf(d, f)
  BY DEF EntryOf
<1>3. Len(s) \in Nat /\ offset \in Nat /\ size \in Nat /\ offset + size <= Len(s)
  OBVIOUS
<1>4. count = size
  BY <1>2, <1>3
<1>5. hops \in Int
  BY <1>3, FileSystemAssumption
<1>6. ASSUME NEW i \in 1..size PROVE byte(i) = s[offset + i]
  <2>1. PICK g \in Nat : g = offset + i - 1
    BY <1>3
  <2>2. g < Len(s) /\ g + 1 = offset + i
    BY <1>3, <2>1
  <2>3. at(i) = g - hops * MAX_DATA_IN_BLOCK
    <3> DEFINE h == hops * MAX_DATA_IN_BLOCK
    <3>1. h \in Int /\ at(i) = offset - h + i - 1
      BY <1>5, FileSystemAssumption
    <3> HIDE DEF h, at
    <3>2. at(i) = g - h
      BY <1>3, <2>1, <3>1
    <3>3. QED
      BY <3>2 DEF h
  <2> HIDE DEF hops, begin_index, at
  <2>4. /\ hops + (at(i) \div MAX_DATA_IN_BLOCK) = g \div MAX_DATA_IN_BLOCK
        /\ at(i) % MAX_DATA_IN_BLOCK = g % MAX_DATA_IN_BLOCK
    BY <1>5, <2>3, BehindHops
  <2>5. data[Hop(entry.nStartBlock)[g \div MAX_DATA_IN_BLOCK]].bytes[g % MAX_DATA_IN_BLOCK] = s[g + 1]
    <3> HIDE DEF entry
    <3>1. QED
      BY <1>2, <2>2, ByteIs
  <2> HIDE DEF entry
  <2>6. QED
    BY <2>2, <2>4, <2>5
<1> HIDE DEF byte, entry
<1>7. [i \in 1..count |-> byte(i)] = [i \in 1..size |-> s[offset + i]]
  BY <1>4, <1>6
<1>8. SubSeq(s, offset + 1, offset + size) = [i \in 1..size |-> s[offset + i]]
  <2> DEFINE p == SubSeq(s, offset + 1, offset + size)
  <2>1. \A i \in offset + 1..offset + size : s[i] \in Byte
    BY <1>3
  <2>2. /\ p \in Seq(Byte)
        /\ Len(p) = IF offset + 1 <= offset + size THEN offset + size - (offset + 1) + 1 ELSE 0
        /\ \A i \in 1..offset + size - (offset + 1) + 1 : p[i] = s[offset + 1 + i - 1]
    BY <1>3, <2>1, SubSeqProperties
  <2> HIDE DEF p
  <2>3. Len(p) = size
    BY <1>3, <2>2
  <2>4. ASSUME NEW i \in 1..size PROVE p[i] = s[offset + i]
    <3>1. i \in 1..offset + size - (offset + 1) + 1 /\ offset + 1 + i - 1 = offset + i
      BY <1>3
    <3>2. QED
      BY <2>2, <3>1
  <2>5. p = [i \in 1..Len(p) |-> p[i]]
    BY <2>2
  <2>6. p = [i \in 1..size |-> s[offset + i]]
    BY <2>3, <2>4, <2>5
  <2>7. QED
    BY <2>6 DEF p
<1>9. QED
  BY <1>1, <1>7, <1>8

(***************************************************************************)
(* With one operation at a time, for any disk, any files and any writes:   *)
(* csc452_getattr and csc452_read agree with the writes that were          *)
(* completed, whatever crashes, full disks and unmounts come between them. *)
(* Like the model, the theorem ends at RootLost.                           *)
(***************************************************************************)
THEOREM FilesReadBack ==
  ASSUME OneThread
  PROVE  Spec => []ReadBack
<1>1. ASSUME FsInv, OwnInv, ReadInv PROVE ReadBack
  <2> SUFFICES ASSUME AtRest, NEW d \in Dir, NEW f \in File
               PROVE  LET w == written[<<d, f>>]
                          length == Len(w.bytes)
                      IN  /\ w = Absent <=> csc452_getattr(d, f) = ENOENT
                          /\ w.is = "known" =>
                               /\ csc452_getattr(d, f) = length
                               /\ \A offset \in 0..length : \A size \in 0..(length - offset) :
                                    csc452_read(d, f, offset, size) = SubSeq(w.bytes, offset + 1, offset + size)
    BY DEF ReadBack
  <2>w. PICK w : w = written[<<d, f>>]
    OBVIOUS
  <2>1. FileInv(d, f) /\ data[0].nNextBlock = 0 /\ LinksForward
    BY <1>1 DEF ReadInv, OwnInv
  <2>2. ~Writing(d, f)
    BY Kinds DEF AtRest, Writing
  <2>3. w = Absent <=> ~Exists(d, f)
    BY <2>1, <2>w DEF FileInv
  <2>4. IF Exists(d, f) THEN /\ csc452_getattr(d, f) = EntryOf(d, f).fsize
                             /\ csc452_getattr(d, f) # ENOENT
                        ELSE csc452_getattr(d, f) = ENOENT
    <3>1. CASE Exists(d, f)
      <4>1. EntryOf(d, f).fsize \in 0..MaxSize
        BY <1>1, <3>1, EntryIs DEF Entry
      <4>2. EntryOf(d, f).fsize # -1
        BY <4>1, FileSystemAssumption
      <4>3. file_exist(d, f) = EntryOf(d, f).fsize
        BY <3>1 DEF file_exist, EntryOf, Exists
      <4>4. QED
        BY <3>1, <4>2, <4>3 DEF csc452_getattr, ENOENT
    <3>2. CASE ~Exists(d, f)
      BY <3>2 DEF Exists, file_exist, csc452_getattr, ENOENT
    <3>3. QED
      BY <3>1, <3>2
  <2>5. ASSUME w.is = "known"
        PROVE  /\ csc452_getattr(d, f) = Len(w.bytes)
               /\ \A offset \in 0..Len(w.bytes) : \A size \in 0..(Len(w.bytes) - offset) :
                    csc452_read(d, f, offset, size) = SubSeq(w.bytes, offset + 1, offset + size)
    <3>1. w \in {Absent, Unknown} \cup {Known(s) : s \in Seq(Byte)}
      BY <2>1, <2>w DEF FileInv
    <3>2. w.bytes \in Seq(Byte) /\ w # Absent
      BY <2>5, <3>1, KnownIs
    <3>3. PICK c : Trail(data, c, EntryOf(d, f).nStartBlock) /\ Stored(data, c, w.bytes)
      BY <2>1, <2>2, <2>5, <2>w DEF FileInv
    <3>4. EntryOf(d, f).fsize = Len(w.bytes)
      BY <2>1, <2>2, <2>5, <2>w DEF FileInv
    <3>5. csc452_getattr(d, f) = Len(w.bytes)
      BY <2>3, <2>4, <3>2, <3>4
    <3>6. QED
      BY <1>1, <2>1, <3>2, <3>3, <3>4, <3>5, PieceReads
  <2>6. QED
    BY <2>w, <2>3, <2>4, <2>5
<1>2. QED
  BY <1>1, FsInvariance, OwnInvariance, ReadInvariance, PTL
=============================================================================
