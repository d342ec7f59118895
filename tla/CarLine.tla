------------------------------- MODULE CarLine -------------------------------
(***************************************************************************)
(* What a bounded line of cars promises: first come, first out; a car that *)
(* finds Capacity cars in line is turned away; from an empty line nothing  *)
(* (-1) comes out.                                                         *)
(***************************************************************************)
EXTENDS Integers, Sequences

CONSTANTS Capacity, CarNumber

VARIABLES line, left

Init == line = <<>> /\ left = -1

Join(c) == /\ Len(line) < Capacity
           /\ line' = Append(line, c)
           /\ UNCHANGED left

Leave == /\ line # <<>>
         /\ left' = Head(line)
         /\ line' = Tail(line)

NobodyLeaves == line = <<>> /\ left' = -1 /\ UNCHANGED line

Next == Leave \/ NobodyLeaves \/ \E c \in CarNumber : Join(c)

Spec == Init /\ [][Next]_<<line, left>>
==============================================================================
