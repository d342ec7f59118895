------------------------------- MODULE Mailbox -------------------------------
(***************************************************************************)
(* What the message system calls promise: a message is kept until its      *)
(* addressee asks for it, and every user gets their messages one by one in *)
(* the order in which they were sent.                                      *)
(***************************************************************************)
EXTENDS Naturals, Sequences

CONSTANTS Users, Letters

VARIABLES
  mail,       \* the messages that wait, the oldest first
  handed      \* the message handed out last

NoMail == [to |-> "nobody", msg |-> "none"]

Init == mail = <<>> /\ handed = NoMail

Send(l) ==
  /\ mail' = Append(mail, l)
  /\ UNCHANGED handed

\* The oldest message for u.
Receive(u) ==
  \E i \in DOMAIN mail :
    /\ mail[i].to = u
    /\ \A j \in 1..i - 1 : mail[j].to # u
    /\ handed' = mail[i]
    /\ mail' = SubSeq(mail, 1, i - 1) \o SubSeq(mail, i + 1, Len(mail))

Next == (\E l \in Letters : Send(l)) \/ (\E u \in Users : Receive(u))

Spec == Init /\ [][Next]_<<mail, handed>>
=============================================================================
