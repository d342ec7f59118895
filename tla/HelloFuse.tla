------------------------------ MODULE HelloFuse ------------------------------
(***************************************************************************)
(* hello_fuse.c: a file system with one read-only file, and a client that  *)
(* looks around, opens the file and reads it in pieces from any position.  *)
(***************************************************************************)
EXTENDS Naturals, Sequences

CONSTANTS
  hello_str,     \* the contents, a sequence of characters
  Sizes,         \* how much a client asks for at once
  Paths          \* the paths tried, "/" and "/hello" among them

\* The contents are a string, and a client asks for one byte at least: a
\* read of none returns 0 wherever it is.
ASSUME HelloAssumption ==
  /\ hello_str \in Seq({hello_str[i] : i \in DOMAIN hello_str})
  /\ Sizes \subseteq Nat \ {0}

VARIABLES
  handle,        \* whether the client has the file open
  offset,        \* its position in the file
  from,          \* history: where it started to read
  got,           \* history: what it has read since then
  ended,         \* whether the last read returned 0 bytes
  helloRet       \* what the last other call returned

helloVars == <<handle, offset, from, got, ended, helloRet>>

HelloInit ==
  /\ handle = FALSE /\ ended = FALSE
  /\ offset = 0 /\ from = 0
  /\ got = <<>>
  /\ helloRet = "none"

ReturnHello(value) ==
  /\ helloRet' = value
  /\ UNCHANGED <<handle, offset, from, got, ended>>

St_size(path) == IF path = "/hello" THEN Len(hello_str) ELSE 0

hello_getattr(path) ==
  ReturnHello(IF path \in {"/", "/hello"} THEN [dir |-> path = "/", size |-> St_size(path)] ELSE "ENOENT")

hello_readdir(path) == ReturnHello(IF path = "/" THEN <<".", "..", "hello">> ELSE "ENOENT")

hello_open(path, flags) ==
  \/ path # "/hello" /\ ReturnHello("ENOENT")
  \/ path = "/hello" /\ flags # "O_RDONLY" /\ ReturnHello("EACCES")
  \/ /\ path = "/hello" /\ flags = "O_RDONLY"
     /\ handle' = TRUE /\ helloRet' = 0 /\ ended' = FALSE
     /\ offset' = 0 /\ from' = 0 /\ got' = <<>>

\* The number of bytes copied.
Count(size) ==
  IF offset >= Len(hello_str) THEN 0
  ELSE IF offset + size > Len(hello_str) THEN Len(hello_str) - offset
  ELSE size

\* Mutant: every piece is taken from the beginning.
Copied_FromStart(n) == SubSeq(hello_str, 1, n)

Copied(n) == SubSeq(hello_str, offset + 1, offset + n)

hello_read(size) ==
  /\ handle
  /\ got' = got \o Copied(Count(size))
  /\ offset' = offset + Count(size)
  /\ ended' = (Count(size) = 0)
  /\ UNCHANGED <<handle, from, helloRet>>

\* lseek, which the kernel does by itself.
Seek(to) ==
  /\ handle
  /\ offset' = to /\ from' = to
  /\ got' = <<>> /\ ended' = FALSE
  /\ UNCHANGED <<handle, helloRet>>

HelloNext ==
  \/ \E path \in Paths : hello_getattr(path) \/ hello_readdir(path)
  \/ \E path \in Paths, flags \in {"O_RDONLY", "O_WRONLY", "O_RDWR"} : hello_open(path, flags)
  \/ \E size \in Sizes : hello_read(size)
  \/ \E to \in 0 .. Len(hello_str) + 1 : Seek(to)

HelloSpec == HelloInit /\ [][HelloNext]_helloVars

-----------------------------------------------------------------------------
\* Whatever the sizes of the pieces, a client that reads until it gets
\* nothing has read the file from where it started up to the size that
\* getattr shows: no byte twice, none left out, none behind the end.
ReadsWhole ==
  /\ got = SubSeq(hello_str, from + 1, IF offset > from THEN offset ELSE from)
  /\ ended => offset >= St_size("/hello")
=============================================================================
