------------------------------ MODULE Messages ------------------------------
(***************************************************************************)
(* The message system calls csc452_send_msg and csc452_get_msg of          *)
(* kernel/sys.c and the program osmsg that uses them.  The messages form a *)
(* linked list that starts at the global head; no lock protects it, so the *)
(* calls of two tasks interleave between any two accesses to the list.     *)
(* kfree leaves the fields of a node as they are, and kmalloc hands it out *)
(* again, zeroed only where the kernel initialises memory on allocation.   *)
(***************************************************************************)
EXTENDS Integers, Sequences, FiniteSets

CONSTANTS
  MsgTasks,         \* tasks that run osmsg, one command after the other
  Users,
  Letters,          \* records [to, msg]: the messages sent
  Nodes,            \* the memory that kmalloc hands out
  INIT_ON_ALLOC     \* whether kmalloc clears it

NULL == "NULL"

ASSUME MessagesAssumption ==
  /\ IsFiniteSet(Nodes) /\ NULL \notin Nodes
  /\ \A l \in Letters : l = [to |-> l.to, msg |-> l.msg]
  /\ INIT_ON_ALLOC \in BOOLEAN

VARIABLES
  head,      \* the global of the same name
  node,      \* the struct Node in each piece of memory
  allocated, \* the nodes that are in use
  mcall,     \* where each task is
  owed,      \* history: messages sent successfully and not yet handed out
  handed     \* history: the message handed out last

msgVars == <<head, node, allocated, mcall, owed, handed>>

Cleared == [to |-> "nobody", msg |-> "none", next |-> NULL]
MsgIdle == [pc |-> "idle"]

MsgInit ==
  /\ head = NULL
  /\ node = [n \in Nodes |-> Cleared]
  /\ allocated = {}
  /\ mcall = [t \in MsgTasks |-> MsgIdle]
  /\ owed = [l \in Letters |-> 0]
  /\ handed = [to |-> "nobody", msg |-> "none"]

Goto(t, record) == mcall' = [mcall EXCEPT ![t] = record]

\* Going on at pc, with all that the call knows.
At(t, pc) == [mcall[t] EXCEPT !.pc = pc]

Letter(t) == [to |-> mcall[t].to, msg |-> mcall[t].msg]

\* A call follows NULL: the kernel ends the task.
Oops(t) == Goto(t, [pc |-> "oops"]) /\ UNCHANGED <<head, node, allocated, owed, handed>>

\* kmalloc: a free node, or none.
Kmalloc(n) ==
  /\ n \in Nodes \ allocated
  /\ allocated' = allocated \cup {n}
  /\ node' = IF INIT_ON_ALLOC THEN [node EXCEPT ![n] = Cleared] ELSE node

\* A send whose return value is 0.
SendDone(t) ==
  /\ owed' = [owed EXCEPT ![Letter(t)] = @ + 1]
  /\ Goto(t, MsgIdle)

-----------------------------------------------------------------------------
\* osmsg -s: the test of head decides between the two halves of the call.
csc452_send_msg(t, l) ==
  /\ mcall[t] = MsgIdle
  /\ Goto(t, [pc |-> IF head = NULL THEN "first" ELSE "new", to |-> l.to, msg |-> l.msg, temp |-> NULL, mine |-> NULL])
  /\ UNCHANGED <<head, node, allocated, owed, handed>>

\* The list gets its first node; a failed kmalloc stores NULL in head.
FirstNode(t) ==
  /\ mcall[t].pc = "first"
  /\ \/ \E n \in Nodes : Kmalloc(n) /\ head' = n /\ Goto(t, At(t, "fill"))
     \/ head' = NULL /\ Goto(t, MsgIdle) /\ UNCHANGED <<node, allocated>>
  /\ UNCHANGED <<owed, handed>>

\* The copy goes to wherever head points now, and the next field is not
\* written.
FillFirst(t) ==
  /\ mcall[t].pc = "fill"
  /\ IF head = NULL THEN Oops(t)
     ELSE /\ node' = [node EXCEPT ![head].to = mcall[t].to, ![head].msg = mcall[t].msg]
          /\ SendDone(t)
          /\ UNCHANGED <<head, allocated, handed>>

\* Every later node is filled before anyone can see it.
NewNode(t) ==
  /\ mcall[t].pc = "new"
  /\ \/ \E n \in Nodes : Kmalloc(n) /\ Goto(t, [At(t, "copy") EXCEPT !.mine = n])
     \/ Goto(t, MsgIdle) /\ UNCHANGED <<node, allocated>>
  /\ UNCHANGED <<head, owed, handed>>

CopyIn(t) ==
  /\ mcall[t].pc = "copy"
  /\ node' = [node EXCEPT ![mcall[t].mine].to = mcall[t].to, ![mcall[t].mine].msg = mcall[t].msg]
  /\ Goto(t, [At(t, "walk") EXCEPT !.temp = head])
  /\ UNCHANGED <<head, allocated, owed, handed>>

\* Mutant: the walk stops in front of the last node.
IsLast_Early(temp) == node[temp].next = NULL \/ node[node[temp].next].next = NULL

IsLast(temp) == node[temp].next = NULL

Walk(t) ==
  /\ mcall[t].pc = "walk"
  /\ LET temp == mcall[t].temp
     IN IF temp = NULL THEN Oops(t)
        ELSE /\ Goto(t, IF IsLast(temp) THEN At(t, "link") ELSE [At(t, "walk") EXCEPT !.temp = node[temp].next])
             /\ UNCHANGED <<head, node, allocated, owed, handed>>

Link(t) ==
  /\ mcall[t].pc = "link"
  /\ node' = [node EXCEPT ![mcall[t].temp].next = mcall[t].mine]
  /\ Goto(t, At(t, "end"))
  /\ UNCHANGED <<head, allocated, owed, handed>>

EndList(t) ==
  /\ mcall[t].pc = "end"
  /\ node' = [node EXCEPT ![mcall[t].mine].next = NULL]
  /\ SendDone(t)
  /\ UNCHANGED <<head, allocated, handed>>

-----------------------------------------------------------------------------
\* osmsg -r: get_msg until it returns 0.
csc452_get_msg(t, u) ==
  /\ mcall[t] = MsgIdle
  /\ Goto(t, [pc |-> IF head = NULL THEN "none" ELSE "scan", to |-> u, msg |-> "none", temp |-> head, before |-> head])
  /\ UNCHANGED <<head, node, allocated, owed, handed>>

\* One node: not for the user, or copied out.
Scan(t) ==
  /\ mcall[t].pc = "scan"
  /\ LET temp == mcall[t].temp
     IN Goto(t, IF temp = NULL THEN At(t, "none")
                ELSE IF node[temp].to = mcall[t].to THEN [At(t, "unlink") EXCEPT !.msg = node[temp].msg]
                ELSE [At(t, "scan") EXCEPT !.before = temp, !.temp = node[temp].next])
  /\ UNCHANGED <<head, node, allocated, owed, handed>>

\* Mutant: the node is freed and stays on the list.
Detach_Skipped(t) == UNCHANGED <<head, node>>

\* The end of the list and a node in the middle come to the same: the node
\* before is followed by what follows the node.
Detach(t) ==
  LET temp == mcall[t].temp
  IN IF temp = head
     THEN head' = node[temp].next /\ UNCHANGED node
     ELSE node' = [node EXCEPT ![mcall[t].before].next = node[temp].next] /\ UNCHANGED head

Unlink(t) ==
  /\ mcall[t].pc = "unlink"
  /\ Detach(t)
  /\ Goto(t, At(t, "free"))
  /\ handed' = Letter(t)
  /\ owed' = [owed EXCEPT ![Letter(t)] = @ - 1]
  /\ UNCHANGED allocated

\* kfree, the return value 1, and the next get_msg of osmsg.
Kfree(t) ==
  /\ mcall[t].pc = "free"
  /\ allocated' = allocated \ {mcall[t].temp}
  /\ Goto(t, [At(t, IF head = NULL THEN "none" ELSE "scan") EXCEPT !.temp = head, !.before = head])
  /\ UNCHANGED <<head, node, owed, handed>>

\* The return value 0 ends osmsg.
NoMessage(t) ==
  /\ mcall[t].pc = "none"
  /\ Goto(t, MsgIdle)
  /\ UNCHANGED <<head, node, allocated, owed, handed>>

MsgNext ==
  \E t \in MsgTasks :
    \/ \E l \in Letters : csc452_send_msg(t, l)
    \/ \E u \in Users : csc452_get_msg(t, u)
    \/ FirstNode(t) \/ FillFirst(t)
    \/ NewNode(t) \/ CopyIn(t) \/ Walk(t) \/ Link(t) \/ EndList(t)
    \/ Scan(t) \/ Unlink(t) \/ Kfree(t) \/ NoMessage(t)

MsgSpec == MsgInit /\ [][MsgNext]_msgVars

-----------------------------------------------------------------------------
\* The list as head and the next fields make it, and what it says.
Chain ==
  LET f[i \in 0..Cardinality(Nodes)] ==
        IF i = 0 THEN head ELSE IF f[i - 1] = NULL THEN NULL ELSE node[f[i - 1]].next
      length == Cardinality({i \in DOMAIN f : f[i] # NULL})
  IN [i \in 1..length |-> f[i - 1]]

OnList == LET c == Chain IN [i \in DOMAIN c |-> [to |-> node[c[i]].to, msg |-> node[c[i]].msg]]

MsgQuiet == \A t \in MsgTasks : mcall[t] = MsgIdle

\* Between the calls the list holds exactly the messages that osmsg has
\* reported as sent ("Send successful") and that nobody has received yet:
\* none is lost, none comes twice, none goes to somebody else.
MailConserved ==
  MsgQuiet =>
    LET list == OnList
    IN \A l \in Letters : owed[l] = Cardinality({i \in DOMAIN list : list[i] = l})

\* The nodes on the list: every set of nodes that has the first and lacks
\* such a node is left by a next field.
Linked ==
  {n \in Nodes : \A S \in SUBSET (Nodes \ {n}) :
     head \in S \cup {NULL} => \E m \in S : node[m].next \notin S \cup {NULL}}

\* No call follows a pointer that is NULL or leads to a node that has been
\* freed, whatever stale next fields the memory holds.
NoStaleNode ==
  /\ Linked \subseteq allocated
  /\ \A t \in MsgTasks :
       /\ mcall[t].pc # "oops"
       /\ mcall[t].pc \in {"walk", "link", "scan", "unlink"} => mcall[t].temp \in allocated \cup {NULL}

\* The list implements a mailbox: each send appears at one point between its
\* call and its return, and so does each receive.  A first node that is not
\* filled yet does not count.
Waiting == IF \E t \in MsgTasks : mcall[t].pc = "fill" THEN <<>> ELSE OnList
Post == INSTANCE Mailbox WITH mail <- Waiting
ImplementsMailbox == Post!Spec
=============================================================================
