----------------------------- MODULE MCSemaphore -----------------------------
(***************************************************************************)
(* Instances of Semaphore for TLC: a mutex and an initially empty counter, *)
(* the two shapes of semaphore the programs create.                        *)
(***************************************************************************)
EXTENDS Semaphore

MCSem == {"mutex", "full"}
MCInitValue == [s \in MCSem |-> IF s = "mutex" THEN 1 ELSE 0]
==============================================================================
