----------------------------- MODULE MCMessages -----------------------------
(***************************************************************************)
(* The message system calls with two tasks in them at the same time.       *)
(***************************************************************************)
EXTENDS Messages

MCLetters == {[to |-> "ann", msg |-> "x"], [to |-> "ann", msg |-> "y"]}
=============================================================================
