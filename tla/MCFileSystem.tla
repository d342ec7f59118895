---------------------------- MODULE MCFileSystem ----------------------------
(***************************************************************************)
(* Instances of FileSystem for TLC: names, bytes and threads are model     *)
(* values, and interchangeable.                                            *)
(***************************************************************************)
EXTENDS FileSystem, TLC

Symmetry == Permutations(File) \cup Permutations(Byte) \cup Permutations(Thread)
==============================================================================
