----------------------------- MODULE Credentials -----------------------------
(***************************************************************************)
(* The user and group ids of one task: the set*id and get*id system calls  *)
(* of kernel/sys.c.  Only the task itself changes them, so a call is one   *)
(* step: it fills a copy (prepare_creds) and publishes it whole            *)
(* (commit_creds) or drops it (abort_creds).                               *)
(***************************************************************************)
EXTENDS Naturals, Sequences

CONSTANTS
  Ids,         \* kernel ids
  Mapped,      \* the ids that the caller's user namespace can name
  Root,        \* GLOBAL_ROOT_UID, the id the capability rules look at
  Keep,        \* the argument -1
  Overflow     \* overflowuid, overflowgid: shown for an id without a name

ASSUME CredAssumption ==
  /\ Mapped \subseteq Ids
  /\ Root \in Ids
  /\ Keep \notin Ids

VARIABLES
  uid, gid,    \* the real, effective, saved and file system id
  user,        \* cred->user: whose process count and limits apply
  exceeded,    \* PF_NPROC_EXCEEDED
  permitted,   \* the capabilities the task may use ...
  effective,   \* ... and those it uses
  idRet        \* what the last call returned or wrote

credVars == <<uid, gid, user, exceeded, permitted, effective, idRet>>

IdSet == [r : Ids, e : Ids, s : Ids, fs : Ids]
Capabilities == {"CAP_SETUID", "CAP_SETGID"}

\* The ids a task can act under.
Held(id) == {id.r, id.e, id.s, id.fs}
Triple(id) == {id.r, id.e, id.s}

\* exec of a program with the set-user-id or the set-group-id bit.
ExecIds(r, owner) == [r |-> r, e |-> owner, s |-> owner, fs |-> owner]

CredInit ==
  /\ \E r, owner \in Ids : uid = ExecIds(r, owner)
  /\ \E r, owner \in Ids : gid = ExecIds(r, owner)
  /\ user = uid.r
  /\ exceeded = FALSE
  /\ permitted = IF uid.e = Root THEN Capabilities ELSE {}
  /\ effective = permitted
  /\ idRet = 0

Capable(cap) == cap \in effective

\* An argument -1 leaves an id alone.
Or(arg, id) == IF arg = Keep THEN id ELSE arg
Given(args) == args \ {Keep}

Fail(err) ==
  /\ idRet' = err
  /\ UNCHANGED <<uid, gid, user, exceeded, permitted, effective>>

\* The frame of every set*id call: unnamed ids, a failed prepare_creds and
\* a refused request change nothing.
Attempt(args, allowed, commit) ==
  \/ ~(args \subseteq Mapped) /\ Fail("EINVAL")
  \/ args \subseteq Mapped /\ Fail("ENOMEM")
  \/ args \subseteq Mapped /\ ~allowed /\ Fail("EPERM")
  \/ args \subseteq Mapped /\ allowed /\ commit

\* security_task_fix_setuid: the capabilities follow the root id.
LosesRoot(old, new) == Root \in Triple(old) /\ Root \notin Triple(new)

FixSetuid(old, new) ==
  /\ permitted' = IF LosesRoot(old, new) THEN {} ELSE permitted
  /\ effective' = CASE LosesRoot(old, new) \/ (old.e = Root /\ new.e # Root) -> {}
                    [] old.e # Root /\ new.e = Root -> permitted
                    [] OTHER -> effective

\* The user structure changes with the real uid.  A user over its
\* RLIMIT_NPROC is flagged here and refused at the next exec; the flag is
\* written before a security module can still refuse the call.
set_user(new, over) ==
  exceeded' = IF new.r = uid.r THEN exceeded ELSE over /\ new.r # Root

\* Mutant: the real uid changes without set_user.
CommitUid_SameUser(new) ==
  /\ uid' = new
  /\ FixSetuid(uid, new)
  /\ idRet' = 0
  /\ UNCHANGED <<gid, user, exceeded>>

CommitUid(new) ==
  \/ new.r # uid.r /\ Fail("EAGAIN")
  \/ \E over \in BOOLEAN :
       /\ set_user(new, over)
       /\ \/ /\ uid' = new
             /\ user' = IF new.r = uid.r THEN user ELSE new.r
             /\ FixSetuid(uid, new)
             /\ idRet' = 0
          \/ idRet' = "EPERM" /\ UNCHANGED <<uid, user, permitted, effective>>
       /\ UNCHANGED gid

\* A security module may refuse here, too.
CommitGid(new) ==
  \/ Fail("EPERM")
  \/ /\ gid' = new
     /\ idRet' = 0
     /\ UNCHANGED <<uid, user, exceeded, permitted, effective>>

\* What setreuid and setregid make of the ids.
SavedFollows(old, r, e) == r # Keep \/ (e # Keep /\ e # old.r)

ReIds(old, r, e) ==
  [r |-> Or(r, old.r), e |-> Or(e, old.e), fs |-> Or(e, old.e),
   s |-> IF SavedFollows(old, r, e) THEN Or(e, old.e) ELSE old.s]

ReAllowed(old, r, e, cap) ==
  \/ Capable(cap)
  \/ r \in {Keep, old.r, old.e} /\ e \in {Keep, old.r, old.e, old.s}

setregid(r, e) ==
  Attempt(Given({r, e}), ReAllowed(gid, r, e, "CAP_SETGID"), CommitGid(ReIds(gid, r, e)))

setreuid(r, e) ==
  Attempt(Given({r, e}), ReAllowed(uid, r, e, "CAP_SETUID"), CommitUid(ReIds(uid, r, e)))

\* A privileged caller sets all ids, another one switches between its real
\* and its saved id.
setgid(g) ==
  Attempt({g}, Capable("CAP_SETGID") \/ g \in {gid.r, gid.s},
          CommitGid(IF Capable("CAP_SETGID") THEN ExecIds(g, g)
                    ELSE [gid EXCEPT !.e = g, !.fs = g]))

setuid(u) ==
  Attempt({u}, Capable("CAP_SETUID") \/ u \in {uid.r, uid.s},
          CommitUid(IF Capable("CAP_SETUID") THEN ExecIds(u, u)
                    ELSE [uid EXCEPT !.e = u, !.fs = u]))

ResIds(old, r, e, s) ==
  [r |-> Or(r, old.r), e |-> Or(e, old.e), s |-> Or(s, old.s), fs |-> Or(e, old.e)]

\* Mutant: the saved uid is not checked.
setresuid_SavedUnchecked(r, e, s) ==
  Attempt(Given({r, e, s}), Capable("CAP_SETUID") \/ Given({r, e}) \subseteq Triple(uid),
          CommitUid(ResIds(uid, r, e, s)))

setresuid(r, e, s) ==
  Attempt(Given({r, e, s}), Capable("CAP_SETUID") \/ Given({r, e, s}) \subseteq Triple(uid),
          CommitUid(ResIds(uid, r, e, s)))

setresgid(r, e, s) ==
  Attempt(Given({r, e, s}), Capable("CAP_SETGID") \/ Given({r, e, s}) \subseteq Triple(gid),
          CommitGid(ResIds(gid, r, e, s)))

\* setfsuid and setfsgid return the old id, whatever happens.
Munged(id) == IF id \in Mapped THEN id ELSE Overflow

setfsuid(u) ==
  /\ \/ /\ u \in Mapped
        /\ Capable("CAP_SETUID") \/ u \in Held(uid)
        /\ uid' = [uid EXCEPT !.fs = u]
     \/ UNCHANGED uid
  /\ idRet' = Munged(uid.fs)
  /\ UNCHANGED <<gid, user, exceeded, permitted, effective>>

setfsgid(g) ==
  /\ \/ /\ g \in Mapped
        /\ Capable("CAP_SETGID") \/ g \in Held(gid)
        /\ gid' = [gid EXCEPT !.fs = g]
     \/ UNCHANGED gid
  /\ idRet' = Munged(gid.fs)
  /\ UNCHANGED <<uid, user, exceeded, permitted, effective>>

Report(value) ==
  /\ idRet' = value
  /\ UNCHANGED <<uid, gid, user, exceeded, permitted, effective>>

\* A fault at one of the three user addresses leaves a prefix written.
getresuid(n) == Report(SubSeq(<<Munged(uid.r), Munged(uid.e), Munged(uid.s)>>, 1, n))
getresgid(n) == Report(SubSeq(<<Munged(gid.r), Munged(gid.e), Munged(gid.s)>>, 1, n))

getuid == Report(Munged(uid.r))
geteuid == Report(Munged(uid.e))
getgid == Report(Munged(gid.r))
getegid == Report(Munged(gid.e))

\* capset, outside this file, gives capabilities up.
Capset(keep) ==
  /\ permitted' = permitted \cap keep
  /\ effective' = effective \cap keep
  /\ UNCHANGED <<uid, gid, user, exceeded, idRet>>

IdArgs == Ids \cup {Keep}

CredNext ==
  \/ \E r, e \in IdArgs : setregid(r, e) \/ setreuid(r, e)
  \/ \E id \in IdArgs : setgid(id) \/ setuid(id) \/ setfsuid(id) \/ setfsgid(id)
  \/ \E r, e, s \in IdArgs : setresuid(r, e, s) \/ setresgid(r, e, s)
  \/ \E n \in 0..3 : getresuid(n) \/ getresgid(n)
  \/ getuid \/ geteuid \/ getgid \/ getegid
  \/ \E keep \in SUBSET Capabilities : Capset(keep)

CredSpec == CredInit /\ [][CredNext]_credVars

-----------------------------------------------------------------------------
\* Ids, flag and capabilities are in range, and only permitted capabilities
\* are effective.
CredTypeOK ==
  /\ uid \in IdSet /\ gid \in IdSet
  /\ user \in Ids
  /\ exceeded \in BOOLEAN
  /\ permitted \subseteq Capabilities
  /\ effective \subseteq permitted

\* The user structure whose process count is charged is always the one of
\* the real uid: every call that changes the real uid goes through set_user
\* and no failed call leaves half of the change behind.
UserIsRealUid == user = uid.r

\* What one step may not undo: without the capability, even a permitted one,
\* no new id and no capability appears.
NothingRegained ==
  /\ "CAP_SETUID" \notin permitted =>
       Held(uid') \subseteq Held(uid) /\ "CAP_SETUID" \notin permitted'
  /\ "CAP_SETGID" \notin permitted =>
       Held(gid') \subseteq Held(gid) /\ "CAP_SETGID" \notin permitted'

\* "This makes it possible for a setuid program to completely drop its
\* privileges": once the task may not use CAP_SETUID any more and has let go
\* of an id in all four places, no sequence of set*id calls brings the id or
\* the capability back; the same for groups and CAP_SETGID.
DropIsForGood == [][NothingRegained]_credVars
=============================================================================
