--------------------------------- MODULE Uts ---------------------------------
(***************************************************************************)
(* The host and domain name of kernel/sys.c under uts_sem.  A writer       *)
(* copies the new name over the old one and then clears the rest of the    *)
(* buffer, two steps under the write lock; readers copy under the read     *)
(* lock.                                                                   *)
(***************************************************************************)
EXTENDS Naturals, Sequences, FiniteSetsExt

CONSTANTS
  UtsNames,      \* the names asked for: sequences of characters
  UTS_LEN,       \* __NEW_UTS_LEN; a buffer holds one character more
  OLD_UTS_LEN,   \* __OLD_UTS_LEN
  UTS_RELEASE,   \* the release, a sequence of characters
  VersionChars,  \* LINUX_VERSION_PATCHLEVEL + 60, as characters
  NUL

\* The characters of all names, and the one that ends a name.
Chars == {NUL} \cup UNION {{name[i] : i \in DOMAIN name} : name \in UtsNames}

ASSUME UtsAssumption ==
  /\ \A name \in UtsNames : name \in Seq(Chars)
  /\ UTS_LEN \in Nat /\ OLD_UTS_LEN \in Nat

VARIABLES
  node, domain,  \* the two buffers of utsname()
  writer,        \* the holder of the write lock
  seen           \* what the last reader copied to its caller

utsVars == <<node, domain, writer, seen>>

Zeros(n) == [i \in 1..n |-> NUL]
Buffer(name) == name \o Zeros(UTS_LEN + 1 - Len(name))
NoWriter == [field |-> "none"]
NothingSeen == [call |-> "none"]

UtsInit ==
  /\ node = Buffer(<<>>)
  /\ domain = Buffer(<<>>)
  /\ writer = NoWriter
  /\ seen = NothingSeen

\* memcpy of a name over the start of a buffer, memset of what follows it.
Memcpy(buf, name) == name \o SubSeq(buf, Len(name) + 1, UTS_LEN + 1)

\* Mutant: the end of the old name stays.
Memset_Forgotten(buf, len) == buf

Memset(buf, len) == SubSeq(buf, 1, len) \o Zeros(UTS_LEN + 1 - len)

\* A caller without CAP_SYS_ADMIN, a length out of range and a fault end the
\* call before the lock is taken.
SetName(field, name) ==
  /\ Len(name) <= UTS_LEN
  /\ writer = NoWriter
  /\ writer' = [field |-> field, len |-> Len(name)]
  /\ UNCHANGED seen

sethostname(name) ==
  /\ SetName("node", name)
  /\ node' = Memcpy(node, name)
  /\ UNCHANGED domain

setdomainname(name) ==
  /\ SetName("domain", name)
  /\ domain' = Memcpy(domain, name)
  /\ UNCHANGED node

EndWrite ==
  /\ writer # NoWriter
  /\ node' = IF writer.field = "node" THEN Memset(node, writer.len) ELSE node
  /\ domain' = IF writer.field = "domain" THEN Memset(domain, writer.len) ELSE domain
  /\ writer' = NoWriter
  /\ UNCHANGED seen

down_read == writer = NoWriter

See(record) ==
  /\ down_read
  /\ seen' = record
  /\ UNCHANGED <<node, domain, writer>>

\* What follows the numbers of the release: from the third dot or from the
\* first character that is neither a digit nor a dot.
Digits == {"0", "1", "2", "3", "4", "5", "6", "7", "8", "9"}
Dots(n) == Cardinality({i \in 1..n : UTS_RELEASE[i] = "."})

RestStart ==
  Min({Len(UTS_RELEASE) + 1} \cup
      {i \in 1..Len(UTS_RELEASE) :
         UTS_RELEASE[i] \notin Digits /\ (UTS_RELEASE[i] = "." => Dots(i) >= 3)})

\* The release shown to a task with the UNAME26 personality, cut to its
\* buffer of len characters.
override_release(len) ==
  LET full == <<"2", ".", "6", ".">> \o VersionChars \o SubSeq(UTS_RELEASE, RestStart, Len(UTS_RELEASE))
  IN SubSeq(full, 1, Min({len - 1, Len(full)}))

Release(uname26, len) ==
  IF uname26 THEN override_release(len) ELSE SubSeq(UTS_RELEASE, 1, Min({len - 1, Len(UTS_RELEASE)}))

newuname(uname26) ==
  See([call |-> "newuname", node |-> node, domain |-> domain,
       release |-> Release(uname26, UTS_LEN + 1)])

\* The same without the domain name, which old_utsname has no room for.
uname(uname26) ==
  See([call |-> "uname", node |-> node, release |-> Release(uname26, UTS_LEN + 1)])

\* Short fields: a copy of the first characters into cleared memory.
olduname(uname26) ==
  See([call |-> "olduname", node |-> SubSeq(node, 1, OLD_UTS_LEN) \o <<NUL>>,
       release |-> Release(uname26, OLD_UTS_LEN + 1)])

Strlen(buf) == Min({i \in 1..Len(buf) : buf[i] = NUL}) - 1

\* The name with its NUL, or as much of it as the caller has room for.
gethostname(len) ==
  See([call |-> "gethostname", node |-> SubSeq(node, 1, Min({Strlen(node) + 1, len}))])

UtsNext ==
  \/ \E name \in UtsNames : sethostname(name) \/ setdomainname(name)
  \/ EndWrite
  \/ \E uname26 \in BOOLEAN : newuname(uname26) \/ uname(uname26) \/ olduname(uname26)
  \/ \E len \in 0..UTS_LEN + 1 : gethostname(len)

UtsSpec == UtsInit /\ [][UtsNext]_utsVars

-----------------------------------------------------------------------------
\* Legal names: short enough, and the name of the start.
Legal == {name \in UtsNames : Len(name) <= UTS_LEN} \cup {<<>>}

\* Outside a write the buffers hold a terminated name, so that strlen in
\* gethostname stays within them.
BuffersTerminated ==
  writer = NoWriter => \A buf \in {node, domain} : Len(buf) = UTS_LEN + 1 /\ buf[UTS_LEN + 1] = NUL

\* No reader ever sees a mixture of two names, in any of the four formats,
\* however calls that set names of different lengths follow each other; and
\* no buffer is ever left without its end.
NamesAreWhole ==
  /\ BuffersTerminated
  /\ seen.call \in {"newuname", "uname"} => seen.node \in {Buffer(n) : n \in Legal}
  /\ seen.call = "newuname" => seen.domain \in {Buffer(n) : n \in Legal}
  /\ seen.call = "olduname" =>
       \E n \in Legal : seen.node = SubSeq(Buffer(n), 1, OLD_UTS_LEN) \o <<NUL>>
  /\ seen.call = "gethostname" =>
       \E n \in Legal : \E len \in 0..Len(n) + 1 : seen.node = SubSeq(n \o <<NUL>>, 1, len)
=============================================================================
