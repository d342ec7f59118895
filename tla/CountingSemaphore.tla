-------------------------- MODULE CountingSemaphore --------------------------
(***************************************************************************)
(* What the callers of csc452_down and csc452_up rely on: a semaphore is a *)
(* number of available permits; a down uses one up, an up adds one, and    *)
(* there is never a permit that nobody put there.  A signal that ends a    *)
(* down too early takes a permit on credit.                                *)
(* "Semaphore" is shown to implement this specification.                   *)
(***************************************************************************)
EXTENDS Integers

CONSTANTS Sem,        \* the semaphores
          InitValue   \* InitValue[s]: the value the program stores in s

VARIABLES avail,      \* avail[s]: permits of s that are not in use
          debt        \* permits that were taken on credit

Init == avail = InitValue /\ debt = 0

\* A csc452_down of s has its permit.
Acquire(s) == /\ avail[s] > 0
              /\ avail' = [avail EXCEPT ![s] = @ - 1]
              /\ UNCHANGED debt

\* A csc452_up of s has taken effect.
Release(s) == avail' = [avail EXCEPT ![s] = @ + 1] /\ UNCHANGED debt

\* A signal has ended a csc452_down of s that was waiting for a permit.
Interrupt(s) == /\ avail' = [avail EXCEPT ![s] = @ - 1]
                /\ debt' = debt + 1

Next == \E s \in Sem : Acquire(s) \/ Release(s) \/ Interrupt(s)

Spec == Init /\ [][Next]_<<avail, debt>>
==============================================================================
