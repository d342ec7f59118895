--------------------------- MODULE MessagesProofs ---------------------------
(***************************************************************************)
(* Proofs about the message system calls of kernel/sys.c, run by one task  *)
(* with memory that kmalloc clears, for any messages and any finite        *)
(* memory: the list stays a list of nodes in use, its messages form a      *)
(* mailbox in the order of the sends, and none is lost or comes twice.     *)
(***************************************************************************)
EXTENDS Messages, FiniteSetTheorems, SequenceTheorems, WellFoundedInduction, TLAPS

-----------------------------------------------------------------------------
\* A list in the nodes L with the first node h and the next fields f: nothing
\* leads out of L, no two fields lead to one node and none to the first, and
\* there is no ring.
Shape(L, h, f) ==
  /\ h \in L \cup {NULL}
  /\ \A m \in L : f[m] \in L \cup {NULL}
  /\ \A m \in L : f[m] = h => h = NULL
  /\ \A m, k \in L : f[m] = f[k] => m = k \/ f[m] = NULL
  /\ \A S \in SUBSET L : S # {} => \E m \in S : f[m] \notin S

\* A new node at first belongs to no list, or is the first of an empty one.
LEMMA ShapeNew ==
  ASSUME NEW L, NEW h, NEW f, Shape(L, h, f), NULL \notin L, NEW n, n \notin L, n # NULL, NEW g,
         \A m \in L : g[m] = f[m], g[n] = NULL
  PROVE  Shape(L \cup {n}, h, g) /\ (h = NULL => Shape(L \cup {n}, n, g))
<1>1. ASSUME NEW S \in SUBSET (L \cup {n}), S # {} PROVE \E m \in S : g[m] \notin S
  <2>1. NULL \notin S
    OBVIOUS
  <2>2. CASE n \in S
    BY <2>1, <2>2
  <2>3. CASE n \notin S
    <3>1. S \in SUBSET L
      BY <2>3
    <3>2. PICK m \in S : f[m] \notin S
      BY <1>1, <3>1 DEF Shape
    <3>3. QED
      BY <3>1, <3>2
  <2>4. QED
    BY <2>2, <2>3
<1>2. \A m \in L \cup {n} : g[m] \in L \cup {NULL} /\ (m \in L => g[m] = f[m])
  BY DEF Shape
<1>3. \A m \in L \cup {n} : g[m] = h => h = NULL
  BY DEF Shape
<1>4. \A m, k \in L \cup {n} : g[m] = g[k] => m = k \/ g[m] = NULL
  BY DEF Shape
<1>5. Shape(L \cup {n}, h, g)
  BY <1>1, <1>2, <1>3, <1>4 DEF Shape
<1>6. ASSUME h = NULL PROVE Shape(L \cup {n}, n, g)
  <2>1. \A m \in L \cup {n} : g[m] # n
    BY <1>2
  <2>2. QED
    BY <1>1, <1>2, <1>4, <2>1 DEF Shape
<1>7. QED
  BY <1>5, <1>6

\* The last node m gets the successor n, to which nothing leads.
LEMMA ShapeLink ==
  ASSUME NEW L, NEW h, NEW f, Shape(L, h, f), NULL \notin L, NEW m \in L, NEW n \in L, m # n, n # h,
         f[n] = NULL, \A k \in L : f[k] # n, NEW g, g[m] = n, \A k \in L \ {m} : g[k] = f[k]
  PROVE  Shape(L, h, g)
<1>1. ASSUME NEW S \in SUBSET L, S # {} PROVE \E k \in S : g[k] \notin S
  <2>1. NULL \notin S
    OBVIOUS
  <2>2. CASE n \in S
    BY <2>1, <2>2
  <2>3. CASE n \notin S /\ m \in S
    BY <2>3
  <2>4. CASE n \notin S /\ m \notin S
    <3>1. PICK k \in S : f[k] \notin S
      BY <1>1 DEF Shape
    <3>2. QED
      BY <2>4, <3>1
  <2>5. QED
    BY <2>2, <2>3, <2>4
<1>2. \A k \in L : g[k] \in L \cup {NULL} /\ (g[k] = h => h = NULL)
  BY DEF Shape
<1>3. ASSUME NEW j \in L, NEW k \in L, g[j] = g[k], g[j] # NULL PROVE j = k
  <2>1. CASE j = m
    BY <1>3, <2>1
  <2>2. CASE k = m
    BY <1>3, <2>2
  <2>3. CASE j # m /\ k # m
    BY <1>3, <2>3 DEF Shape
  <2>4. QED
    BY <2>1, <2>2, <2>3
<1>4. h \in L \cup {NULL}
  BY DEF Shape
<1>5. QED
  BY <1>1, <1>2, <1>3, <1>4 DEF Shape

\* The first node leaves the list.
LEMMA ShapeFirst ==
  ASSUME NEW L, NEW f, NULL \notin L, NEW h \in L, Shape(L, h, f)
  PROVE  Shape(L \ {h}, f[h], f)
<1>1. f[h] # h
  BY DEF Shape
<1>2. f[h] \in (L \ {h}) \cup {NULL}
  BY <1>1 DEF Shape
<1>3. \A m \in L \ {h} : f[m] \in (L \ {h}) \cup {NULL} /\ (f[m] = f[h] => f[h] = NULL)
  BY DEF Shape
<1>4. \A m, k \in L \ {h} : f[m] = f[k] => m = k \/ f[m] = NULL
  BY DEF Shape
<1>5. \A S \in SUBSET (L \ {h}) : S # {} => \E m \in S : f[m] \notin S
  BY DEF Shape
<1>6. QED
  BY <1>2, <1>3, <1>4, <1>5 DEF Shape

\* A later node v leaves the list: the node b before it is followed by what
\* follows v.
LEMMA ShapeMiddle ==
  ASSUME NEW L, NEW h, NEW f, Shape(L, h, f), NULL \notin L, NEW v \in L, NEW b \in L, f[b] = v, v # h,
         NEW g, g[b] = f[v], \A k \in L \ {b} : g[k] = f[k]
  PROVE  Shape(L \ {v}, h, g)
<1>1. ASSUME NEW k \in L PROVE f[k] # k
  <2>1. {k} \in SUBSET L /\ {k} # {}
    OBVIOUS
  <2>2. \E m \in {k} : f[m] \notin {k}
    BY <2>1 DEF Shape
  <2>3. QED
    BY <2>2
<1>2. \A k \in L : f[k] # k
  BY <1>1
<1>3. b # v
  BY <1>2
<1>4. \A k \in L \ {b} : f[k] # v
  BY DEF Shape
<1>5. \A k \in L \ {v} : g[k] \in (L \ {v}) \cup {NULL}
  BY <1>2, <1>4 DEF Shape
<1>6. \A k \in L \ {v} : g[k] = h => h = NULL
  BY DEF Shape
<1>7. ASSUME NEW j \in L \ {v}, NEW k \in L \ {v}, g[j] = g[k], g[j] # NULL PROVE j = k
  <2>1. CASE j = b /\ k # b
    BY <1>7, <2>1 DEF Shape
  <2>2. CASE k = b /\ j # b
    BY <1>7, <2>2 DEF Shape
  <2>3. CASE j # b /\ k # b
    BY <1>7, <2>3 DEF Shape
  <2>4. QED
    BY <2>1, <2>2, <2>3
<1>8. ASSUME NEW S \in SUBSET (L \ {v}), S # {} PROVE \E k \in S : g[k] \notin S
  <2>1. CASE b \notin S
    <3>1. PICK k \in S : f[k] \notin S
      BY <1>8 DEF Shape
    <3>2. QED
      BY <2>1, <3>1
  <2>2. CASE b \in S
    <3>1. S \cup {v} \in SUBSET L /\ S \cup {v} # {}
      OBVIOUS
    <3>2. PICK k \in S \cup {v} : f[k] \notin S \cup {v}
      BY <3>1 DEF Shape
    <3>3. k # b
      BY <3>2
    <3>4. CASE k = v
      BY <2>2, <3>2, <3>4
    <3>5. CASE k # v
      BY <3>2, <3>3, <3>5
    <3>6. QED
      BY <3>4, <3>5
  <2>3. QED
    BY <2>1, <2>2
<1>9. h \in (L \ {v}) \cup {NULL}
  BY DEF Shape
<1>10. QED
  BY <1>5, <1>6, <1>7, <1>8, <1>9 DEF Shape

-----------------------------------------------------------------------------
\* The next fields of the memory, and the nodes that count: one that is about
\* to be freed is off the list already.
Nexts == [n \in Nodes |-> node[n].next]
Live(t) == IF mcall[t].pc = "free" THEN allocated \ {mcall[t].temp} ELSE allocated

\* What a send knows of the list when nobody else moves it.
SendInv(t) ==
  /\ mcall[t].pc \in {"first", "fill", "new", "copy", "walk", "link", "end"}
  /\ mcall[t] = [pc |-> mcall[t].pc, to |-> mcall[t].to, msg |-> mcall[t].msg,
                 temp |-> mcall[t].temp, mine |-> mcall[t].mine]
  /\ mcall[t].pc = "first" <=> head = NULL
  /\ mcall[t].pc \in {"copy", "walk", "link", "end"} =>
       mcall[t].mine \in allocated /\ Nexts[mcall[t].mine] = NULL
  /\ mcall[t].pc \in {"copy", "walk", "link"} =>
       mcall[t].mine # head /\ \A n \in allocated : Nexts[n] # mcall[t].mine
  /\ mcall[t].pc \in {"walk", "link"} => mcall[t].temp \in allocated \ {mcall[t].mine}

\* What a receive knows: before is the node before temp, unless temp is the
\* first.
GetInv(t) ==
  /\ mcall[t].pc \in {"none", "scan", "unlink", "free"}
  /\ mcall[t] = [pc |-> mcall[t].pc, to |-> mcall[t].to, msg |-> mcall[t].msg,
                 temp |-> mcall[t].temp, before |-> mcall[t].before]
  /\ mcall[t].pc \in {"scan", "unlink"} /\ mcall[t].temp # NULL =>
       /\ mcall[t].temp \in allocated
       /\ \/ mcall[t].temp = head
          \/ mcall[t].before \in allocated /\ Nexts[mcall[t].before] = mcall[t].temp
  /\ mcall[t].pc = "unlink" => mcall[t].temp # NULL

\* A node has its three fields, whoever has used the memory before.
MemInv == node = [n \in Nodes |-> [to |-> node[n].to, msg |-> node[n].msg, next |-> node[n].next]]

\* The inductive invariant of the message calls for a single task.
MailInv(t) ==
  /\ MemInv
  /\ allocated \subseteq Nodes
  /\ mcall = [u \in {t} |-> mcall[u]]
  /\ Shape(Live(t), head, Nexts)
  /\ mcall[t] = MsgIdle \/ SendInv(t) \/ GetInv(t)

\* One task, and memory that is cleared.
OneTask(t) == MsgTasks = {t} /\ INIT_ON_ALLOC = TRUE

\* The fields of a node.
LEMMA NodeFields ==
  ASSUME NEW z, NEW a, NEW b, NEW c, z = [to |-> a, msg |-> b, next |-> c]
  PROVE  z = [to |-> z.to, msg |-> z.msg, next |-> z.next] /\ z.next = c
OBVIOUS

\* A receive that goes on to another node.
LEMMA GetMoved ==
  ASSUME NEW p, NEW a, NEW b, NEW c, NEW d, NEW e, NEW f, NEW z, NEW r,
         z = [pc |-> p, to |-> a, msg |-> b, temp |-> c, before |-> d],
         r = [z EXCEPT !.temp = e, !.before = f] \/ r = [z EXCEPT !.before = f, !.temp = e]
  PROVE  r = [pc |-> p, to |-> a, msg |-> b, temp |-> e, before |-> f]
<1>1. ASSUME NEW u, u = [z EXCEPT !.temp = e]
      PROVE  [u EXCEPT !.before = f] = [pc |-> p, to |-> a, msg |-> b, temp |-> e, before |-> f]
  <2>1. u = [pc |-> p, to |-> a, msg |-> b, temp |-> e, before |-> d]
    BY <1>1
  <2>2. QED
    BY <2>1
<1>2. ASSUME NEW u, u = [z EXCEPT !.before = f]
      PROVE  [u EXCEPT !.temp = e] = [pc |-> p, to |-> a, msg |-> b, temp |-> e, before |-> f]
  <2>1. u = [pc |-> p, to |-> a, msg |-> b, temp |-> c, before |-> f]
    BY <1>2
  <2>2. QED
    BY <2>1
<1>3. [z EXCEPT !.temp = e, !.before = f] = [[z EXCEPT !.temp = e] EXCEPT !.before = f]
  OBVIOUS
<1>4. [z EXCEPT !.before = f, !.temp = e] = [[z EXCEPT !.before = f] EXCEPT !.temp = e]
  OBVIOUS
<1>5. QED
  BY <1>1, <1>2, <1>3, <1>4, Zenon

\* A node is filled: its next field stays.
LEMMA FieldsKeep ==
  ASSUME MemInv, NEW x \in Nodes, NEW a, NEW b, node' = [node EXCEPT ![x].to = a, ![x].msg = b]
  PROVE  MemInv' /\ Nexts' = Nexts
<1>1. node[x] = [to |-> node[x].to, msg |-> node[x].msg, next |-> node[x].next] /\ DOMAIN node = Nodes
  BY DEF MemInv
<1>2. \A n \in Nodes : node[n] = [to |-> node[n].to, msg |-> node[n].msg, next |-> node[n].next]
  BY DEF MemInv
<1> DEFINE y == [node[x] EXCEPT !.to = a]
<1>3. node'[x] = [to |-> a, msg |-> b, next |-> node[x].next]
  <2>1. y = [to |-> a, msg |-> node[x].msg, next |-> node[x].next]
    BY <1>1
  <2>2. node'[x] = [y EXCEPT !.msg = b]
    BY <1>1
  <2> HIDE DEF y
  <2>3. QED
    BY <2>1, <2>2
<1>4. \A n \in Nodes \ {x} : node'[n] = node[n]
  BY <1>1
<1>5. \A n \in Nodes : /\ node'[n] = [to |-> node'[n].to, msg |-> node'[n].msg, next |-> node'[n].next]
                       /\ node'[n].next = node[n].next
  <2>1. ASSUME NEW n \in Nodes, n # x
        PROVE  /\ node'[n] = [to |-> node'[n].to, msg |-> node'[n].msg, next |-> node'[n].next]
               /\ node'[n].next = node[n].next
    BY <1>2, <1>4, <2>1
  <2>2. /\ node'[x] = [to |-> node'[x].to, msg |-> node'[x].msg, next |-> node'[x].next]
        /\ node'[x].next = node[x].next
    BY <1>3, NodeFields
  <2>3. QED
    BY <2>1, <2>2
<1>6. node' = [n \in Nodes |-> node'[n]]
  BY <1>1
<1>7. QED
  BY <1>5, <1>6 DEF MemInv, Nexts

\* The next field of a node is set.
LEMMA NextSet ==
  ASSUME MemInv, NEW x \in Nodes, NEW y, node' = [node EXCEPT ![x].next = y]
  PROVE  MemInv' /\ Nexts' = [Nexts EXCEPT ![x] = y]
<1>1. node[x] = [to |-> node[x].to, msg |-> node[x].msg, next |-> node[x].next] /\ DOMAIN node = Nodes
  BY DEF MemInv
<1>2. \A n \in Nodes : node[n] = [to |-> node[n].to, msg |-> node[n].msg, next |-> node[n].next]
  BY DEF MemInv
<1>3. node'[x] = [to |-> node[x].to, msg |-> node[x].msg, next |-> y]
  BY <1>1
<1>4. \A n \in Nodes \ {x} : node'[n] = node[n]
  BY <1>1
<1>5. \A n \in Nodes : /\ node'[n] = [to |-> node'[n].to, msg |-> node'[n].msg, next |-> node'[n].next]
                       /\ node'[n].next = IF n = x THEN y ELSE node[n].next
  BY <1>2, <1>3, <1>4
<1>6. node' = [n \in Nodes |-> node'[n]]
  BY <1>1
<1>7. QED
  BY <1>5, <1>6 DEF MemInv, Nexts

\* A node is cleared.
LEMMA NodeCleared ==
  ASSUME MemInv, NEW x \in Nodes, node' = [node EXCEPT ![x] = Cleared]
  PROVE  MemInv' /\ Nexts' = [Nexts EXCEPT ![x] = NULL]
<1>1. DOMAIN node = Nodes
  BY DEF MemInv
<1>2. \A n \in Nodes : node[n] = [to |-> node[n].to, msg |-> node[n].msg, next |-> node[n].next]
  BY DEF MemInv
<1>3. node'[x] = [to |-> "nobody", msg |-> "none", next |-> NULL]
  BY <1>1 DEF Cleared
<1>4. \A n \in Nodes \ {x} : node'[n] = node[n]
  BY <1>1
<1>5. \A n \in Nodes : /\ node'[n] = [to |-> node'[n].to, msg |-> node'[n].msg, next |-> node'[n].next]
                       /\ node'[n].next = IF n = x THEN NULL ELSE node[n].next
  BY <1>2, <1>3, <1>4
<1>6. node' = [n \in Nodes |-> node'[n]]
  BY <1>1
<1>7. QED
  BY <1>5, <1>6 DEF MemInv, Nexts

\* Where the task is after a step.
LEMMA Went ==
  ASSUME NEW t, mcall = [u \in {t} |-> mcall[u]], NEW r, Goto(t, r)
  PROVE  mcall'[t] = r /\ mcall' = [u \in {t} |-> mcall'[u]]
BY DEF Goto

\* What a send knows goes on with it.
LEMMA SendGoesOn ==
  ASSUME NEW t, SendInv(t), NEW pc
  PROVE  At(t, pc) = [pc |-> pc, to |-> mcall[t].to, msg |-> mcall[t].msg,
                      temp |-> mcall[t].temp, mine |-> mcall[t].mine]
BY DEF At, SendInv

\* The same for a receive.
LEMMA GetGoesOn ==
  ASSUME NEW t, GetInv(t), NEW pc
  PROVE  At(t, pc) = [pc |-> pc, to |-> mcall[t].to, msg |-> mcall[t].msg,
                      temp |-> mcall[t].temp, before |-> mcall[t].before]
BY DEF At, GetInv

\* Which kind of call the task is in.
LEMMA CallOf ==
  ASSUME NEW t, MailInv(t)
  PROVE  /\ mcall[t].pc \in {"first", "fill", "new", "copy", "walk", "link", "end"} => SendInv(t)
         /\ mcall[t].pc \in {"none", "scan", "unlink", "free"} => GetInv(t)
         /\ mcall[t].pc # "free" => Shape(allocated, head, Nexts)
         /\ mcall[t].pc # "oops"
BY DEF MailInv, SendInv, GetInv, MsgIdle, Live

-----------------------------------------------------------------------------
\* A send begins.
LEMMA SendBegins ==
  ASSUME NEW t, OneTask(t), MailInv(t), NEW l, csc452_send_msg(t, l)
  PROVE  MailInv(t)'
<1> DEFINE r == [pc |-> IF head = NULL THEN "first" ELSE "new", to |-> l.to, msg |-> l.msg, temp |-> NULL, mine |-> NULL]
<1>1. /\ mcall[t] = MsgIdle /\ Goto(t, r) /\ UNCHANGED <<head, node, allocated>>
  BY DEF csc452_send_msg
<1>2. mcall'[t] = r /\ mcall' = [u \in {t} |-> mcall'[u]]
  BY <1>1, Went DEF MailInv
<1>3. mcall[t].pc = "idle" /\ Shape(allocated, head, Nexts)
  BY <1>1, CallOf DEF MsgIdle
<1>4. MemInv' /\ Nexts' = Nexts /\ allocated' \subseteq Nodes
  BY <1>1 DEF MailInv, MemInv, Nexts
<1>5. r.pc \in {"first", "new"} /\ (r.pc = "first" <=> head = NULL)
      /\ r = [pc |-> r.pc, to |-> r.to, msg |-> r.msg, temp |-> r.temp, mine |-> r.mine]
  OBVIOUS
<1> HIDE DEF r
<1>6. SendInv(t)'
  BY <1>1, <1>2, <1>5 DEF SendInv
<1>7. Live(t)' = allocated
  BY <1>1, <1>2, <1>5 DEF Live
<1>8. Shape(Live(t)', head', Nexts')
  BY <1>1, <1>3, <1>4, <1>7
<1>9. QED
  BY <1>2, <1>4, <1>6, <1>8 DEF MailInv

\* kmalloc hands out a cleared node that nothing leads to.
LEMMA Allocated ==
  ASSUME NEW t, OneTask(t), MailInv(t), mcall[t].pc # "free", NEW n \in Nodes, Kmalloc(n)
  PROVE  /\ MemInv' /\ allocated' = allocated \cup {n} /\ n # NULL /\ n \notin allocated
         /\ Nexts'[n] = NULL /\ \A m \in allocated : Nexts'[m] = Nexts[m]
         /\ \A m \in allocated' : Nexts'[m] # n
         /\ Shape(allocated', head, Nexts') /\ (head = NULL => Shape(allocated', n, Nexts'))
<1>1. /\ n \notin allocated /\ allocated' = allocated \cup {n} /\ node' = [node EXCEPT ![n] = Cleared]
  BY DEF Kmalloc, OneTask
<1>2. MemInv' /\ Nexts' = [Nexts EXCEPT ![n] = NULL]
  BY <1>1, NodeCleared DEF MailInv
<1>3. allocated \subseteq Nodes /\ NULL \notin allocated /\ n # NULL
  BY MessagesAssumption DEF MailInv
<1>4. Nexts'[n] = NULL /\ \A m \in allocated : Nexts'[m] = Nexts[m]
  BY <1>1, <1>2, <1>3 DEF Nexts
<1>5. Shape(allocated, head, Nexts)
  BY CallOf
<1>6. Shape(allocated \cup {n}, head, Nexts') /\ (head = NULL => Shape(allocated \cup {n}, n, Nexts'))
  BY <1>1, <1>3, <1>4, <1>5, ShapeNew
<1>7. \A m \in allocated' : Nexts'[m] # n
  BY <1>1, <1>3, <1>4, <1>5 DEF Shape
<1>8. QED
  BY <1>1, <1>2, <1>3, <1>4, <1>6, <1>7

\* The first node of an empty list.
LEMMA FirstNodeKeeps ==
  ASSUME NEW t, OneTask(t), MailInv(t), FirstNode(t)
  PROVE  MailInv(t)'
<1>1. mcall[t].pc = "first" /\ SendInv(t) /\ head = NULL /\ Shape(allocated, head, Nexts)
  BY CallOf DEF FirstNode, SendInv
<1>2. CASE \E n \in Nodes : Kmalloc(n) /\ head' = n /\ Goto(t, At(t, "fill"))
  <2>1. PICK n \in Nodes : Kmalloc(n) /\ head' = n /\ Goto(t, At(t, "fill"))
    BY <1>2
  <2>2. /\ MemInv' /\ allocated' = allocated \cup {n} /\ n # NULL /\ Shape(allocated', n, Nexts')
    BY <1>1, <2>1, Allocated
  <2>3. mcall'[t] = At(t, "fill") /\ mcall' = [u \in {t} |-> mcall'[u]]
    BY <2>1, Went DEF MailInv
  <2>4. mcall'[t] = [pc |-> "fill", to |-> mcall[t].to, msg |-> mcall[t].msg,
                     temp |-> mcall[t].temp, mine |-> mcall[t].mine]
    BY <1>1, <2>3, SendGoesOn
  <2>5. SendInv(t)'
    BY <2>1, <2>2, <2>4 DEF SendInv
  <2>6. Shape(Live(t)', head', Nexts')
    BY <2>1, <2>2, <2>4 DEF Live
  <2>7. allocated' \subseteq Nodes
    BY <2>2 DEF MailInv
  <2>8. QED
    BY <2>2, <2>3, <2>5, <2>6, <2>7 DEF MailInv
<1>3. CASE head' = NULL /\ Goto(t, MsgIdle) /\ UNCHANGED <<node, allocated>>
  <2>1. mcall'[t] = MsgIdle /\ mcall' = [u \in {t} |-> mcall'[u]]
    BY <1>3, Went DEF MailInv
  <2>2. MemInv' /\ Nexts' = Nexts /\ allocated' \subseteq Nodes
    BY <1>3 DEF MailInv, MemInv, Nexts
  <2>3. Live(t)' = allocated
    BY <1>3, <2>1 DEF Live, MsgIdle
  <2>4. Shape(Live(t)', head', Nexts')
    BY <1>1, <1>3, <2>2, <2>3
  <2>5. QED
    BY <2>1, <2>2, <2>4 DEF MailInv
<1>4. QED
  BY <1>2, <1>3 DEF FirstNode

\* Steps that only move the call on.
LEMMA Onward ==
  ASSUME NEW t, MailInv(t), mcall[t].pc # "free", NEW r, Goto(t, r), r.pc # "free",
         UNCHANGED <<head, node, allocated>>,
         r = MsgIdle \/ SendInv(t)' \/ GetInv(t)'
  PROVE  MailInv(t)'
<1>1. mcall'[t] = r /\ mcall' = [u \in {t} |-> mcall'[u]]
  BY Went DEF MailInv
<1>2. MemInv' /\ Nexts' = Nexts /\ allocated' \subseteq Nodes
  BY DEF MailInv, MemInv, Nexts
<1>3. Live(t)' = allocated
  BY <1>1 DEF Live
<1>4. Shape(Live(t)', head', Nexts')
  BY <1>2, <1>3, CallOf
<1>5. QED
  BY <1>1, <1>2, <1>4 DEF MailInv

\* The first node is filled.
LEMMA FillFirstKeeps ==
  ASSUME NEW t, OneTask(t), MailInv(t), FillFirst(t)
  PROVE  MailInv(t)'
<1>1. mcall[t].pc = "fill" /\ head # NULL /\ Shape(allocated, head, Nexts)
  BY CallOf DEF FillFirst, SendInv
<1>2. head \in Nodes
  BY <1>1 DEF Shape, MailInv
<1>3. /\ node' = [node EXCEPT ![head].to = mcall[t].to, ![head].msg = mcall[t].msg]
      /\ Goto(t, MsgIdle) /\ UNCHANGED <<head, allocated>>
  BY <1>1 DEF FillFirst, SendDone
<1>4. MemInv' /\ Nexts' = Nexts
  BY <1>2, <1>3, FieldsKeep DEF MailInv
<1>5. mcall'[t] = MsgIdle /\ mcall' = [u \in {t} |-> mcall'[u]]
  BY <1>3, Went DEF MailInv
<1>6. Live(t)' = allocated
  BY <1>3, <1>5 DEF Live, MsgIdle
<1>7. Shape(Live(t)', head', Nexts')
  BY <1>1, <1>3, <1>4, <1>6
<1>8. allocated' \subseteq Nodes
  BY <1>3 DEF MailInv
<1>9. QED
  BY <1>4, <1>5, <1>7, <1>8 DEF MailInv

\* A later node is allocated.
LEMMA NewNodeKeeps ==
  ASSUME NEW t, OneTask(t), MailInv(t), NewNode(t)
  PROVE  MailInv(t)'
<1>1. mcall[t].pc = "new" /\ SendInv(t) /\ head # NULL /\ Shape(allocated, head, Nexts)
  BY CallOf DEF NewNode, SendInv
<1>2. CASE \E n \in Nodes : Kmalloc(n) /\ Goto(t, [At(t, "copy") EXCEPT !.mine = n])
  <2>1. PICK n \in Nodes : Kmalloc(n) /\ Goto(t, [At(t, "copy") EXCEPT !.mine = n])
    BY <1>2
  <2>2. /\ MemInv' /\ allocated' = allocated \cup {n} /\ n # NULL /\ n \notin allocated
        /\ Nexts'[n] = NULL /\ \A m \in allocated' : Nexts'[m] # n
        /\ Shape(allocated', head, Nexts')
    BY <1>1, <2>1, Allocated
  <2>3. mcall'[t] = [At(t, "copy") EXCEPT !.mine = n] /\ mcall' = [u \in {t} |-> mcall'[u]]
    BY <2>1, Went DEF MailInv
  <2>4. mcall'[t] = [pc |-> "copy", to |-> mcall[t].to, msg |-> mcall[t].msg,
                     temp |-> mcall[t].temp, mine |-> n]
    BY <1>1, <2>3, SendGoesOn
  <2>5. head' = head /\ n # head
    BY <1>1, <2>2 DEF NewNode, Shape
  <2>6. SendInv(t)'
    BY <1>1, <2>2, <2>4, <2>5 DEF SendInv
  <2>7. Shape(Live(t)', head', Nexts')
    BY <2>2, <2>4, <2>5 DEF Live
  <2>8. allocated' \subseteq Nodes
    BY <2>2 DEF MailInv
  <2>9. QED
    BY <2>2, <2>3, <2>6, <2>7, <2>8 DEF MailInv
<1>3. CASE Goto(t, MsgIdle) /\ UNCHANGED <<node, allocated>>
  BY <1>1, <1>3, Onward DEF NewNode, MsgIdle
<1>4. QED
  BY <1>2, <1>3 DEF NewNode

\* The new node is filled, and the walk starts at head.
LEMMA CopyInKeeps ==
  ASSUME NEW t, OneTask(t), MailInv(t), CopyIn(t)
  PROVE  MailInv(t)'
<1> DEFINE mine == mcall[t].mine
<1>1. /\ mcall[t].pc = "copy" /\ SendInv(t) /\ Shape(allocated, head, Nexts)
      /\ mine \in allocated /\ Nexts[mine] = NULL /\ mine # head /\ head # NULL
      /\ \A n \in allocated : Nexts[n] # mine
  BY CallOf DEF CopyIn, SendInv
<1>2. /\ node' = [node EXCEPT ![mine].to = mcall[t].to, ![mine].msg = mcall[t].msg]
      /\ Goto(t, [At(t, "walk") EXCEPT !.temp = head]) /\ UNCHANGED <<head, allocated>>
  BY DEF CopyIn
<1>3. mine \in Nodes
  BY <1>1 DEF MailInv
<1>4. MemInv' /\ Nexts' = Nexts
  BY <1>2, <1>3, FieldsKeep DEF MailInv
<1>5. mcall'[t] = [At(t, "walk") EXCEPT !.temp = head] /\ mcall' = [u \in {t} |-> mcall'[u]]
  BY <1>2, Went DEF MailInv
<1>6. mcall'[t] = [pc |-> "walk", to |-> mcall[t].to, msg |-> mcall[t].msg,
                   temp |-> head, mine |-> mine]
  BY <1>1, <1>5, SendGoesOn
<1>7. head \in allocated
  BY <1>1 DEF Shape
<1> HIDE DEF mine
<1>8. SendInv(t)'
  BY <1>1, <1>2, <1>4, <1>6, <1>7 DEF SendInv
<1>9. Shape(Live(t)', head', Nexts')
  BY <1>1, <1>2, <1>4, <1>6 DEF Live
<1>10. allocated' \subseteq Nodes
  BY <1>2 DEF MailInv
<1>11. QED
  BY <1>4, <1>5, <1>8, <1>9, <1>10 DEF MailInv

\* The walk goes to the next node, or ends.
LEMMA WalkKeeps ==
  ASSUME NEW t, OneTask(t), MailInv(t), Walk(t)
  PROVE  MailInv(t)'
<1> DEFINE temp == mcall[t].temp
           r == IF IsLast(temp) THEN At(t, "link") ELSE [At(t, "walk") EXCEPT !.temp = node[temp].next]
           there == IF IsLast(temp) THEN temp ELSE node[temp].next
<1>1. /\ mcall[t].pc = "walk" /\ SendInv(t) /\ Shape(allocated, head, Nexts)
      /\ temp \in allocated \ {mcall[t].mine}
      /\ \A n \in allocated : Nexts[n] # mcall[t].mine
  BY CallOf DEF Walk, SendInv
<1>2. temp \in Nodes /\ temp # NULL /\ Nexts[temp] = node[temp].next
  BY <1>1, MessagesAssumption DEF MailInv, Nexts
<1>3. Goto(t, r) /\ UNCHANGED <<head, node, allocated>>
  BY <1>2 DEF Walk
<1>4. Nexts[temp] \in allocated \cup {NULL} /\ Nexts[temp] # mcall[t].mine
  BY <1>1 DEF Shape
<1>5. there \in allocated \ {mcall[t].mine}
  BY <1>1, <1>2, <1>4 DEF IsLast
<1>6. r.pc \in {"walk", "link"} /\ r = [pc |-> r.pc, to |-> mcall[t].to, msg |-> mcall[t].msg,
                                       temp |-> there, mine |-> mcall[t].mine]
  BY <1>1, SendGoesOn
<1>7. mcall'[t] = r
  BY <1>3, Went DEF MailInv
<1>8. Nexts' = Nexts
  BY <1>3 DEF Nexts
<1> HIDE DEF r, there
<1>9. SendInv(t)'
  BY <1>1, <1>3, <1>5, <1>6, <1>7, <1>8 DEF SendInv
<1>10. QED
  BY <1>1, <1>3, <1>6, <1>9, Onward

\* The new node is hung behind the last.
LEMMA LinkKeeps ==
  ASSUME NEW t, OneTask(t), MailInv(t), Link(t)
  PROVE  MailInv(t)'
<1> DEFINE temp == mcall[t].temp
           mine == mcall[t].mine
<1>1. /\ mcall[t].pc = "link" /\ SendInv(t) /\ Shape(allocated, head, Nexts)
      /\ temp \in allocated /\ mine \in allocated /\ temp # mine
      /\ Nexts[mine] = NULL /\ mine # head /\ head # NULL /\ \A n \in allocated : Nexts[n] # mine
  BY CallOf DEF Link, SendInv
<1>2. /\ node' = [node EXCEPT ![temp].next = mine] /\ Goto(t, At(t, "end"))
      /\ UNCHANGED <<head, allocated>>
  BY DEF Link
<1>3. allocated \subseteq Nodes /\ NULL \notin allocated
  BY MessagesAssumption DEF MailInv
<1>4. mcall'[t] = At(t, "end") /\ mcall' = [u \in {t} |-> mcall'[u]]
  BY <1>2, Went DEF MailInv
<1>5. mcall'[t] = [pc |-> "end", to |-> mcall[t].to, msg |-> mcall[t].msg, temp |-> temp, mine |-> mine]
  BY <1>1, <1>4, SendGoesOn
<1> HIDE DEF temp, mine
<1>6. MemInv' /\ Nexts' = [Nexts EXCEPT ![temp] = mine]
  BY <1>1, <1>2, <1>3, NextSet DEF MailInv
<1>7. Nexts'[temp] = mine /\ \A k \in allocated \ {temp} : Nexts'[k] = Nexts[k]
  BY <1>1, <1>3, <1>6 DEF Nexts
<1>8. Shape(allocated, head, Nexts')
  BY <1>1, <1>3, <1>7, ShapeLink
<1>9. SendInv(t)'
  BY <1>1, <1>2, <1>5, <1>7 DEF SendInv
<1>10. Shape(Live(t)', head', Nexts')
  BY <1>2, <1>5, <1>8 DEF Live
<1>11. allocated' \subseteq Nodes
  BY <1>2, <1>3
<1>12. QED
  BY <1>4, <1>6, <1>9, <1>10, <1>11 DEF MailInv

\* The end mark, which cleared memory has already.
LEMMA EndListKeeps ==
  ASSUME NEW t, OneTask(t), MailInv(t), EndList(t)
  PROVE  MailInv(t)'
<1> DEFINE mine == mcall[t].mine
<1>1. /\ mcall[t].pc = "end" /\ Shape(allocated, head, Nexts) /\ mine \in allocated /\ Nexts[mine] = NULL
  BY CallOf DEF EndList, SendInv
<1>2. /\ node' = [node EXCEPT ![mine].next = NULL] /\ Goto(t, MsgIdle) /\ UNCHANGED <<head, allocated>>
  BY DEF EndList, SendDone
<1> HIDE DEF mine
<1>3. allocated \subseteq Nodes
  BY DEF MailInv
<1>4. MemInv' /\ Nexts' = [Nexts EXCEPT ![mine] = NULL]
  BY <1>1, <1>2, <1>3, NextSet DEF MailInv
<1>5. Nexts' = Nexts
  BY <1>1, <1>3, <1>4 DEF Nexts
<1>6. mcall'[t] = MsgIdle /\ mcall' = [u \in {t} |-> mcall'[u]]
  BY <1>2, Went DEF MailInv
<1>7. Live(t)' = allocated
  BY <1>2, <1>6 DEF Live, MsgIdle
<1>8. Shape(Live(t)', head', Nexts')
  BY <1>1, <1>2, <1>5, <1>7
<1>9. QED
  BY <1>2, <1>3, <1>4, <1>6, <1>8 DEF MailInv

-----------------------------------------------------------------------------
\* A receive begins.
LEMMA GetBegins ==
  ASSUME NEW t, OneTask(t), MailInv(t), NEW w, csc452_get_msg(t, w)
  PROVE  MailInv(t)'
<1> DEFINE r == [pc |-> IF head = NULL THEN "none" ELSE "scan", to |-> w, msg |-> "none", temp |-> head, before |-> head]
<1>1. /\ mcall[t] = MsgIdle /\ Goto(t, r) /\ UNCHANGED <<head, node, allocated>>
  BY DEF csc452_get_msg
<1>2. mcall'[t] = r
  BY <1>1, Went DEF MailInv
<1>3. mcall[t].pc = "idle" /\ head \in allocated \cup {NULL}
  BY <1>1, CallOf DEF MsgIdle, Shape
<1>4. /\ r.pc \in {"none", "scan"} /\ r.temp = head
      /\ r = [pc |-> r.pc, to |-> r.to, msg |-> r.msg, temp |-> r.temp, before |-> r.before]
  OBVIOUS
<1> HIDE DEF r
<1>5. GetInv(t)'
  BY <1>1, <1>2, <1>3, <1>4 DEF GetInv
<1>6. QED
  BY <1>1, <1>3, <1>4, <1>5, Onward

\* A node is passed, or found.
LEMMA ScanKeeps ==
  ASSUME NEW t, OneTask(t), MailInv(t), Scan(t)
  PROVE  MailInv(t)'
<1> DEFINE temp == mcall[t].temp
           r == IF temp = NULL THEN At(t, "none")
                ELSE IF node[temp].to = mcall[t].to THEN [At(t, "unlink") EXCEPT !.msg = node[temp].msg]
                ELSE [At(t, "scan") EXCEPT !.before = temp, !.temp = node[temp].next]
<1>1. /\ mcall[t].pc = "scan" /\ GetInv(t) /\ Shape(allocated, head, Nexts)
      /\ temp # NULL => /\ temp \in allocated
                        /\ \/ temp = head
                           \/ mcall[t].before \in allocated /\ Nexts[mcall[t].before] = temp
  BY CallOf DEF Scan, GetInv
<1>2. Goto(t, r) /\ UNCHANGED <<head, node, allocated>>
  BY DEF Scan
<1>3. mcall'[t] = r
  BY <1>2, Went DEF MailInv
<1>4. Nexts' = Nexts
  BY <1>2 DEF Nexts
<1>5. \A pc : At(t, pc) = [pc |-> pc, to |-> mcall[t].to, msg |-> mcall[t].msg,
                           temp |-> temp, before |-> mcall[t].before]
  BY <1>1, GetGoesOn
<1>6. CASE temp = NULL
  <2>1. mcall'[t] = [pc |-> "none", to |-> mcall[t].to, msg |-> mcall[t].msg,
                     temp |-> temp, before |-> mcall[t].before] /\ r = mcall'[t]
    BY <1>3, <1>5, <1>6
  <2> HIDE DEF r, temp
  <2>2. GetInv(t)'
    BY <2>1 DEF GetInv
  <2>3. r.pc # "free"
    BY <2>1
  <2>4. QED
    BY <1>1, <1>2, <2>2, <2>3, Onward
<1>7. CASE temp # NULL /\ node[temp].to = mcall[t].to
  <2>1. mcall'[t] = [pc |-> "unlink", to |-> mcall[t].to, msg |-> node[temp].msg,
                     temp |-> temp, before |-> mcall[t].before] /\ r = mcall'[t]
    BY <1>3, <1>5, <1>7
  <2> HIDE DEF r, temp
  <2>2. GetInv(t)'
    BY <1>1, <1>2, <1>4, <1>7, <2>1 DEF GetInv
  <2>3. r.pc # "free"
    BY <2>1
  <2>4. QED
    BY <1>1, <1>2, <2>2, <2>3, Onward
<1>8. CASE temp # NULL /\ node[temp].to # mcall[t].to
  <2>1. mcall'[t] = [pc |-> "scan", to |-> mcall[t].to, msg |-> mcall[t].msg,
                     temp |-> node[temp].next, before |-> temp] /\ r = mcall'[t]
    <3>1. r = [At(t, "scan") EXCEPT !.before = temp, !.temp = node[temp].next]
      BY <1>8
    <3>2. At(t, "scan") = [pc |-> "scan", to |-> mcall[t].to, msg |-> mcall[t].msg,
                           temp |-> temp, before |-> mcall[t].before]
      BY <1>5
    <3> DEFINE z == At(t, "scan")
               n == node[temp].next
    <3>3. r = [z EXCEPT !.before = temp, !.temp = n]
      BY <3>1
    <3> HIDE DEF r, temp, z, n
    <3>4. r = [pc |-> "scan", to |-> mcall[t].to, msg |-> mcall[t].msg, temp |-> n, before |-> temp]
      <4>1. z = [pc |-> "scan", to |-> mcall[t].to, msg |-> mcall[t].msg,
                 temp |-> temp, before |-> mcall[t].before]
        BY <3>2 DEF z
      <4>2. QED
        BY <3>3, <4>1, GetMoved
    <3>5. QED
      BY <1>3, <3>3, <3>4 DEF n
  <2>2. /\ temp \in allocated /\ temp \in Nodes /\ Nexts[temp] = node[temp].next
        /\ Nexts[temp] \in allocated \cup {NULL}
    BY <1>1, <1>8 DEF MailInv, Nexts, Shape
  <2> HIDE DEF r, temp
  <2>3. GetInv(t)'
    BY <1>2, <1>4, <2>1, <2>2 DEF GetInv
  <2>4. r.pc # "free"
    BY <2>1
  <2>5. QED
    BY <1>1, <1>2, <2>3, <2>4, Onward
<1>9. QED
  BY <1>6, <1>7, <1>8

\* The node leaves the list; it is not freed yet.
LEMMA UnlinkKeeps ==
  ASSUME NEW t, OneTask(t), MailInv(t), Unlink(t)
  PROVE  MailInv(t)'
<1> DEFINE temp == mcall[t].temp
           before == mcall[t].before
<1>1. /\ mcall[t].pc = "unlink" /\ GetInv(t) /\ Shape(allocated, head, Nexts)
      /\ temp # NULL /\ temp \in allocated
      /\ temp = head \/ (before \in allocated /\ Nexts[before] = temp)
  BY CallOf DEF Unlink, GetInv
<1>2. Detach(t) /\ Goto(t, At(t, "free")) /\ allocated' = allocated
  BY DEF Unlink
<1>3. allocated \subseteq Nodes /\ NULL \notin allocated
  BY MessagesAssumption DEF MailInv
<1>4. mcall'[t] = At(t, "free") /\ mcall' = [u \in {t} |-> mcall'[u]]
  BY <1>2, Went DEF MailInv
<1>5. mcall'[t] = [pc |-> "free", to |-> mcall[t].to, msg |-> mcall[t].msg, temp |-> temp, before |-> before]
  BY <1>1, <1>4, GetGoesOn
<1>6. GetInv(t)'
  BY <1>5 DEF GetInv
<1>7. Live(t)' = allocated \ {temp}
  BY <1>2, <1>5 DEF Live
<1>8. MemInv' /\ Shape(allocated \ {temp}, head', Nexts')
  <2>1. CASE temp = head
    <3>1. head' = node[temp].next /\ node' = node
      BY <1>2, <2>1 DEF Detach
    <3>2. MemInv' /\ Nexts' = Nexts /\ head' = Nexts[temp]
      BY <1>1, <1>3, <3>1 DEF MailInv, MemInv, Nexts
    <3> HIDE DEF temp
    <3>3. Shape(allocated \ {temp}, Nexts[temp], Nexts)
      BY <1>1, <1>3, <2>1, ShapeFirst
    <3>4. QED
      BY <3>2, <3>3
  <2>2. CASE temp # head
    <3>1. head' = head /\ node' = [node EXCEPT ![before].next = node[temp].next]
      BY <1>2, <2>2 DEF Detach
    <3>2. before \in allocated /\ Nexts[before] = temp
      BY <1>1, <2>2
    <3>3. Nexts[temp] = node[temp].next
      BY <1>1, <1>3 DEF Nexts
    <3> HIDE DEF temp, before
    <3>4. MemInv' /\ Nexts' = [Nexts EXCEPT ![before] = node[temp].next]
      BY <1>3, <3>1, <3>2, NextSet DEF MailInv
    <3>5. Nexts'[before] = Nexts[temp] /\ \A k \in allocated \ {before} : Nexts'[k] = Nexts[k]
      BY <1>3, <3>2, <3>3, <3>4 DEF Nexts
    <3>6. Shape(allocated \ {temp}, head, Nexts')
      BY <1>1, <1>3, <2>2, <3>2, <3>5, ShapeMiddle
    <3>7. QED
      BY <3>1, <3>4, <3>6
  <2>3. QED
    BY <2>1, <2>2
<1>9. Shape(Live(t)', head', Nexts')
  BY <1>7, <1>8
<1>10. allocated' \subseteq Nodes
  BY <1>2, <1>3
<1>11. QED
  BY <1>4, <1>6, <1>8, <1>9, <1>10 DEF MailInv

\* The node is freed, and the next receive begins.
LEMMA KfreeKeeps ==
  ASSUME NEW t, OneTask(t), MailInv(t), Kfree(t)
  PROVE  MailInv(t)'
<1> DEFINE r == [At(t, IF head = NULL THEN "none" ELSE "scan") EXCEPT !.temp = head, !.before = head]
<1>1. mcall[t].pc = "free" /\ GetInv(t) /\ Shape(allocated \ {mcall[t].temp}, head, Nexts)
  BY CallOf DEF Kfree, MailInv, Live
<1>2. allocated' = allocated \ {mcall[t].temp} /\ Goto(t, r) /\ UNCHANGED <<head, node>>
  BY DEF Kfree
<1>3. mcall'[t] = r /\ mcall' = [u \in {t} |-> mcall'[u]]
  BY <1>2, Went DEF MailInv
<1>4. r = [pc |-> IF head = NULL THEN "none" ELSE "scan", to |-> mcall[t].to, msg |-> mcall[t].msg,
           temp |-> head, before |-> head]
  <2> DEFINE pc == IF head = NULL THEN "none" ELSE "scan"
             z == At(t, pc)
  <2>1. z = [pc |-> pc, to |-> mcall[t].to, msg |-> mcall[t].msg,
             temp |-> mcall[t].temp, before |-> mcall[t].before]
    BY <1>1, GetGoesOn
  <2>2. r = [z EXCEPT !.temp = head, !.before = head]
    OBVIOUS
  <2> HIDE DEF z, r, pc
  <2>3. r = [pc |-> pc, to |-> mcall[t].to, msg |-> mcall[t].msg, temp |-> head, before |-> head]
    BY <2>1, <2>2, GetMoved
  <2>4. QED
    BY <2>3 DEF pc
<1>5. MemInv' /\ Nexts' = Nexts /\ allocated' \subseteq Nodes
  BY <1>2 DEF MailInv, MemInv, Nexts
<1> HIDE DEF r
<1>6. r.pc \in {"none", "scan"} /\ r.temp = head
      /\ r = [pc |-> r.pc, to |-> r.to, msg |-> r.msg, temp |-> r.temp, before |-> r.before]
  BY <1>4
<1>7. head \in allocated' \cup {NULL}
  BY <1>1, <1>2 DEF Shape
<1>8. GetInv(t)'
  BY <1>2, <1>3, <1>6, <1>7 DEF GetInv
<1>9. Live(t)' = allocated \ {mcall[t].temp}
  BY <1>2, <1>3, <1>6 DEF Live
<1>10. Shape(Live(t)', head', Nexts')
  BY <1>1, <1>2, <1>5, <1>9
<1>11. QED
  BY <1>3, <1>5, <1>8, <1>10 DEF MailInv

-----------------------------------------------------------------------------
\* With one task the list is in order after every access to it.
LEMMA MailStep ==
  ASSUME NEW t, OneTask(t), MailInv(t), [MsgNext]_msgVars
  PROVE  MailInv(t)'
<1>1. CASE MsgNext
  <2>1. PICK u \in MsgTasks :
          \/ \E l \in Letters : csc452_send_msg(u, l)
          \/ \E w \in Users : csc452_get_msg(u, w)
          \/ FirstNode(u) \/ FillFirst(u)
          \/ NewNode(u) \/ CopyIn(u) \/ Walk(u) \/ Link(u) \/ EndList(u)
          \/ Scan(u) \/ Unlink(u) \/ Kfree(u) \/ NoMessage(u)
    BY <1>1 DEF MsgNext
  <2>2. u = t
    BY DEF OneTask
  <2>3. CASE NoMessage(t)
    <3>1. mcall[t].pc = "none" /\ Goto(t, MsgIdle) /\ UNCHANGED <<head, node, allocated>>
      BY <2>3 DEF NoMessage
    <3>2. MsgIdle.pc # "free"
      BY DEF MsgIdle
    <3>3. QED
      BY <3>1, <3>2, Onward
  <2>4. QED
    BY <2>1, <2>2, <2>3, SendBegins, GetBegins, FirstNodeKeeps, FillFirstKeeps, NewNodeKeeps, CopyInKeeps,
       WalkKeeps, LinkKeeps, EndListKeeps, ScanKeeps, UnlinkKeeps, KfreeKeeps
<1>2. CASE UNCHANGED msgVars
  BY <1>2 DEF msgVars, MailInv, MemInv, Live, Nexts, SendInv, GetInv
<1>3. QED
  BY <1>1, <1>2

\* The list is empty at first.
LEMMA MailStart ==
  ASSUME NEW t, OneTask(t), MsgInit
  PROVE  MailInv(t)
<1>1. /\ head = NULL /\ node = [n \in Nodes |-> Cleared] /\ allocated = {}
      /\ mcall = [u \in {t} |-> MsgIdle]
  BY DEF MsgInit, OneTask
<1>2. mcall[t] = MsgIdle /\ mcall = [u \in {t} |-> mcall[u]]
  BY <1>1
<1>3. MemInv
  <2>1. \A n \in Nodes : node[n] = Cleared
    BY <1>1
  <2>2. Cleared = [to |-> Cleared.to, msg |-> Cleared.msg, next |-> Cleared.next]
    BY DEF Cleared
  <2>3. node = [n \in Nodes |-> node[n]]
    BY <1>1
  <2>4. \A n \in Nodes : node[n] = [to |-> node[n].to, msg |-> node[n].msg, next |-> node[n].next]
    BY <2>1, <2>2
  <2>5. QED
    BY <2>3, <2>4 DEF MemInv
<1>4. Live(t) = {}
  BY <1>1, <1>2 DEF Live, MsgIdle
<1>5. Shape({}, NULL, Nexts)
  BY DEF Shape
<1>6. QED
  BY <1>1, <1>2, <1>3, <1>4, <1>5 DEF MailInv

(***************************************************************************)
(* One task, memory that kmalloc clears, any messages and any amount of    *)
(* memory: csc452_send_msg and csc452_get_msg follow no pointer to a node  *)
(* that has been freed, and none that is NULL, and the list that starts at *)
(* head consists of nodes in use.                                          *)
(***************************************************************************)
THEOREM NodesStayFresh ==
  ASSUME NEW t, OneTask(t)
  PROVE  MsgSpec => []NoStaleNode
<1>1. MsgInit => MailInv(t)
  BY MailStart
<1>2. MailInv(t) /\ [MsgNext]_msgVars => MailInv(t)'
  BY MailStep
<1>3. ASSUME MailInv(t) PROVE NoStaleNode
  <2>1. /\ Live(t) \subseteq allocated /\ allocated \subseteq Nodes /\ Shape(Live(t), head, Nexts)
    BY <1>3 DEF MailInv, Live
  <2>2. ASSUME NEW n \in Linked, n \notin allocated PROVE FALSE
    <3>1. Live(t) \in SUBSET (Nodes \ {n}) /\ head \in Live(t) \cup {NULL}
      BY <2>1, <2>2 DEF Shape
    <3>2. \A S \in SUBSET (Nodes \ {n}) :
            head \in S \cup {NULL} => \E m \in S : node[m].next \notin S \cup {NULL}
      BY <2>2 DEF Linked
    <3>3. PICK m \in Live(t) : node[m].next \notin Live(t) \cup {NULL}
      BY <3>1, <3>2
    <3>4. m \in Nodes /\ Nexts[m] \in Live(t) \cup {NULL}
      BY <2>1 DEF Shape
    <3>5. QED
      BY <3>3, <3>4 DEF Nexts
  <2>3. ASSUME NEW u \in MsgTasks
        PROVE  /\ mcall[u].pc # "oops"
               /\ mcall[u].pc \in {"walk", "link", "scan", "unlink"} => mcall[u].temp \in allocated \cup {NULL}
    <3>1. u = t
      BY DEF OneTask
    <3>2. mcall[t].pc # "oops"
      BY <1>3, CallOf
    <3>3. mcall[t].pc \in {"walk", "link"} => mcall[t].temp \in allocated
      BY <1>3, CallOf DEF SendInv
    <3>4. mcall[t].pc \in {"scan", "unlink"} => mcall[t].temp \in allocated \cup {NULL}
      BY <1>3, CallOf DEF GetInv
    <3>5. QED
      BY <3>1, <3>2, <3>3, <3>4
  <2>4. QED
    BY <2>2, <2>3 DEF NoStaleNode
<1>4. QED
  BY <1>1, <1>2, <1>3, PTL DEF MsgSpec

-----------------------------------------------------------------------------
\* A non-empty set of numbers has a least one.
LEMMA LeastIndex ==
  ASSUME NEW T \in SUBSET Nat, T # {}
  PROVE  \E x \in T : \A y \in T : x <= y
<1>1. IsWellFoundedOn(OpToRel(<, Nat), Nat)
  BY NatLessThanWellFounded
<1>2. PICK x \in T : \A y \in T : ~(<<y, x>> \in OpToRel(<, Nat))
  BY <1>1, WFMin
<1>3. ASSUME NEW y \in T PROVE ~(y < x)
  <2>1. <<y, x>> \in Nat \X Nat /\ <<y, x>>[1] = y /\ <<y, x>>[2] = x
    OBVIOUS
  <2>2. y < x => <<y, x>> \in OpToRel(<, Nat)
    BY <2>1, Zenon DEF OpToRel
  <2>3. QED
    BY <1>2, <2>2
<1>4. \A y \in T : x <= y
  BY <1>3
<1>5. QED
  BY <1>4

\* The nodes of a list in their order: from h along the fields f to NULL.
Path(c, h, f) ==
  /\ c \in Seq(Nodes)
  /\ \A i, j \in 1..Len(c) : c[i] = c[j] => i = j
  /\ h = IF Len(c) = 0 THEN NULL ELSE c[1]
  /\ \A i \in 1..Len(c) : f[c[i]] = IF i = Len(c) THEN NULL ELSE c[i + 1]

\* The list is no longer than the memory.
LEMMA PathFits ==
  ASSUME NEW c, NEW h, NEW f, Path(c, h, f)
  PROVE  Len(c) \in 0..Cardinality(Nodes) /\ Cardinality(Nodes) \in Nat
<1>1. IsFiniteSet(Nodes) /\ c \in Seq(Nodes) /\ Len(c) \in Nat
  BY MessagesAssumption DEF Path
<1>2. c \in [1..Len(c) -> Nodes] /\ \A i, j \in 1..Len(c) : c[i] = c[j] => i = j
  BY <1>1 DEF Path
<1>3. c \in Injection(1..Len(c), Nodes)
  BY <1>2 DEF Injection, IsInjective
<1>4. Cardinality(1..Len(c)) = Len(c) /\ Cardinality(Nodes) \in Nat
  <2>1. 1 \in Int /\ Len(c) \in Int
    BY <1>1
  <2>2. Cardinality(1..Len(c)) = IF 1 > Len(c) THEN 0 ELSE Len(c) - 1 + 1
    BY <2>1, FS_Interval
  <2>3. QED
    BY <1>1, <2>2, FS_CardinalityType
<1>5. Cardinality(1..Len(c)) <= Cardinality(Nodes)
  BY <1>1, <1>3, FS_Injection
<1>6. QED
  BY <1>1, <1>4, <1>5

\* Chain follows the fields as the path does.
LEMMA ChainIs ==
  ASSUME NEW c, Path(c, head, Nexts)
  PROVE  Chain = c
<1> DEFINE N == Cardinality(Nodes)
           B(f) == [i \in 0..N |->
                      IF i = 0 THEN head ELSE IF f[i - 1] = NULL THEN NULL ELSE node[f[i - 1]].next]
           g == [i \in 0..N |-> IF i < Len(c) THEN c[i + 1] ELSE NULL]
           a == CHOOSE f : f = B(f)
<1>1. c \in Seq(Nodes) /\ Len(c) \in 0..N /\ N \in Nat /\ NULL \notin Nodes
  BY PathFits, MessagesAssumption DEF Path
<1>2. \A n \in Nodes : Nexts[n] = node[n].next
  BY DEF Nexts
<1>3. \A i \in 0..N : g[i] = IF i = 0 THEN head ELSE IF g[i - 1] = NULL THEN NULL ELSE node[g[i - 1]].next
  <2>1. g[0] = head
    BY <1>1 DEF Path
  <2>2. ASSUME NEW i \in 1..N PROVE g[i] = IF g[i - 1] = NULL THEN NULL ELSE node[g[i - 1]].next
    <3>1. CASE i <= Len(c)
      <4>1. g[i - 1] = c[i] /\ c[i] \in Nodes /\ i \in 1..Len(c)
        BY <1>1, <3>1
      <4>2. Nexts[c[i]] = IF i = Len(c) THEN NULL ELSE c[i + 1]
        BY <4>1 DEF Path
      <4>3. g[i] = IF i = Len(c) THEN NULL ELSE c[i + 1]
        BY <1>1, <3>1
      <4> HIDE DEF g
      <4>4. QED
        BY <1>1, <1>2, <4>1, <4>2, <4>3
    <3>2. CASE i > Len(c)
      BY <1>1, <3>2
    <3>3. QED
      BY <1>1, <3>1, <3>2
  <2> HIDE DEF g
  <2>3. QED
    BY <1>1, <2>1, <2>2
<1>4. g = B(g)
  <2>1. \A i \in 0..N : g[i] = B(g)[i]
    BY <1>3
  <2>2. QED
    BY <2>1
<1>5. a = B(a)
  BY <1>4
<1>6. Chain = [i \in 1..Cardinality({i \in DOMAIN a : a[i] # NULL}) |-> a[i - 1]]
  BY DEF Chain
<1>7. DOMAIN a = 0..N /\ \A i \in 0..N :
        a[i] = IF i = 0 THEN head ELSE IF a[i - 1] = NULL THEN NULL ELSE node[a[i - 1]].next
  BY <1>5
<1> HIDE DEF a, B
<1>8. \A i \in 0..N : a[i] = g[i]
  <2> DEFINE bad == {i \in 0..N : a[i] # g[i]}
  <2>1. SUFFICES ASSUME bad # {} PROVE FALSE
    OBVIOUS
  <2>2. PICK i \in bad : \A j \in bad : i <= j
    <3>1. bad \in SUBSET Nat
      BY <1>1
    <3> HIDE DEF bad
    <3>2. QED
      BY <2>1, <3>1, LeastIndex
  <2>3. i # 0
    BY <1>1, <1>3, <1>7
  <2>4. i - 1 \in 0..N /\ i - 1 \notin bad
    BY <1>1, <2>2, <2>3
  <2>5. a[i - 1] = g[i - 1]
    BY <2>4
  <2> HIDE DEF g
  <2>6. QED
    BY <1>3, <1>7, <2>2, <2>3, <2>5
<1>9. {i \in DOMAIN a : a[i] # NULL} = 0..Len(c) - 1
  <2>1. \A i \in 0..N : a[i] # NULL <=> i < Len(c)
    BY <1>1, <1>8
  <2>2. QED
    BY <1>1, <1>7, <2>1
<1>10. Cardinality(0..Len(c) - 1) = Len(c)
  <2>1. 0 \in Int /\ Len(c) - 1 \in Int
    BY <1>1
  <2>2. Cardinality(0..Len(c) - 1) = IF 0 > Len(c) - 1 THEN 0 ELSE Len(c) - 1 - 0 + 1
    BY <2>1, FS_Interval
  <2>3. QED
    BY <1>1, <2>2
<1>11. Chain = [i \in 1..Len(c) |-> a[i - 1]]
  BY <1>6, <1>9, <1>10
<1>12. \A i \in 1..Len(c) : a[i - 1] = c[i]
  BY <1>1, <1>8
<1>13. QED
  BY <1>1, <1>11, <1>12

\* The same before and after a step.
LEMMA ChainIsNow == \A c : Path(c, head, Nexts) => Chain = c
BY ChainIs

LEMMA ChainIsThen == \A c : Path(c, head', Nexts') => Chain' = c
<1>1. (\A c : Path(c, head, Nexts) => Chain = c)'
  BY ChainIsNow, PTL
<1>2. QED
  BY <1>1

-----------------------------------------------------------------------------
\* A sequence without its i-th element, written as the mailbox writes it.
Without(c, i) == SubSeq(c, 1, i - 1) \o SubSeq(c, i + 1, Len(c))

LEMMA WithoutIs ==
  ASSUME NEW T, NEW c \in Seq(T), NEW i \in 1..Len(c)
  PROVE  /\ Without(c, i) \in Seq(T) /\ Len(Without(c, i)) = Len(c) - 1
         /\ \A k \in 1..Len(c) - 1 : Without(c, i)[k] = c[IF k < i THEN k ELSE k + 1]
<1>1. /\ SubSeq(c, 1, i - 1) \in Seq(T) /\ Len(SubSeq(c, 1, i - 1)) = i - 1
      /\ \A k \in 1..i - 1 : SubSeq(c, 1, i - 1)[k] = c[k]
  OBVIOUS
<1>2. /\ SubSeq(c, i + 1, Len(c)) \in Seq(T) /\ Len(SubSeq(c, i + 1, Len(c))) = Len(c) - i
      /\ \A k \in 1..Len(c) - i : SubSeq(c, i + 1, Len(c))[k] = c[i + k]
  OBVIOUS
<1> DEFINE a == SubSeq(c, 1, i - 1)
           b == SubSeq(c, i + 1, Len(c))
<1>3. Len(c) \in Nat /\ i \in Nat
  OBVIOUS
<1> HIDE DEF a, b
<1>4. /\ a \in Seq(T) /\ Len(a) = i - 1 /\ \A k \in 1..i - 1 : a[k] = c[k]
      /\ b \in Seq(T) /\ Len(b) = Len(c) - i /\ \A k \in 1..Len(c) - i : b[k] = c[i + k]
  BY <1>1, <1>2 DEF a, b
<1>5. /\ a \o b \in Seq(T) /\ Len(a \o b) = Len(c) - 1
      /\ \A k \in 1..Len(c) - 1 : (a \o b)[k] = IF k < i THEN a[k] ELSE b[k - (i - 1)]
  <2>1. /\ a \o b \in Seq(T) /\ Len(a \o b) = Len(a) + Len(b)
        /\ \A k \in 1..Len(a) + Len(b) : (a \o b)[k] = IF k <= Len(a) THEN a[k] ELSE b[k - Len(a)]
    BY <1>4, ConcatProperties
  <2>2. QED
    BY <1>3, <1>4, <2>1
<1>6. \A k \in 1..Len(c) - 1 : ~(k < i) => b[k - (i - 1)] = c[k + 1]
  BY <1>3, <1>4
<1>7. Without(c, i) = a \o b
  BY DEF Without, a, b
<1>8. \A k \in 1..Len(c) - 1 : (a \o b)[k] = c[IF k < i THEN k ELSE k + 1]
  BY <1>3, <1>4, <1>5, <1>6
<1>9. QED
  BY <1>5, <1>7, <1>8

\* A list of one node.
LEMMA PathOne ==
  ASSUME NEW n \in Nodes, NEW f, f[n] = NULL
  PROVE  Path(<<n>>, n, f)
BY DEF Path

\* Nothing but the fields on the path matters.
LEMMA PathSame ==
  ASSUME NEW c, NEW h, NEW f, Path(c, h, f), NEW g, \A i \in 1..Len(c) : g[c[i]] = f[c[i]]
  PROVE  Path(c, h, g)
BY DEF Path

\* A node is hung behind the last.
LEMMA PathAppend ==
  ASSUME NEW c, NEW h, NEW f, Path(c, h, f), Len(c) # 0, NEW n \in Nodes, \A i \in 1..Len(c) : c[i] # n,
         NEW g, g[c[Len(c)]] = n, g[n] = NULL, \A i \in 1..Len(c) - 1 : g[c[i]] = f[c[i]]
  PROVE  Path(Append(c, n), h, g)
<1> DEFINE d == Append(c, n)
<1>1. c \in Seq(Nodes) /\ Len(c) \in Nat
  BY DEF Path
<1>2. /\ d \in Seq(Nodes) /\ Len(d) = Len(c) + 1
      /\ \A i \in 1..Len(c) : d[i] = c[i]
      /\ d[Len(c) + 1] = n
  BY <1>1
<1> HIDE DEF d
<1>3. \A i, j \in 1..Len(d) : d[i] = d[j] => i = j
  <2>1. \A i \in 1..Len(d) : i = Len(c) + 1 \/ i \in 1..Len(c)
    BY <1>1, <1>2
  <2>2. QED
    BY <1>2, <2>1 DEF Path
<1>4. h = d[1]
  BY <1>1, <1>2 DEF Path
<1>5. ASSUME NEW i \in 1..Len(d) PROVE g[d[i]] = IF i = Len(d) THEN NULL ELSE d[i + 1]
  <2>1. CASE i = Len(c) + 1
    BY <1>2, <2>1
  <2>2. CASE i = Len(c)
    BY <1>1, <1>2, <2>2
  <2>3. CASE i \in 1..Len(c) - 1
    <3>1. g[d[i]] = f[c[i]] /\ f[c[i]] = c[i + 1] /\ d[i + 1] = c[i + 1]
      BY <1>1, <1>2, <2>3 DEF Path
    <3>2. i # Len(d)
      BY <1>1, <1>2, <2>3
    <3>3. QED
      BY <3>1, <3>2
  <2>4. QED
    BY <1>1, <1>2, <2>1, <2>2, <2>3
<1>6. QED
  BY <1>1, <1>2, <1>3, <1>4, <1>5 DEF Path, d

\* The i-th node leaves: the one before it, or h, leads to the one after it.
LEMMA PathRemove ==
  ASSUME NEW c, NEW h, NEW f, Path(c, h, f), NEW i \in 1..Len(c), NEW k, NEW g,
         k = IF i = 1 THEN f[c[1]] ELSE h,
         \A j \in 1..Len(c) : g[c[j]] = IF j = i - 1 THEN f[c[i]] ELSE f[c[j]]
  PROVE  Path(Without(c, i), k, g)
<1> DEFINE d == Without(c, i)
<1>1. c \in Seq(Nodes) /\ Len(c) \in Nat
  BY DEF Path
<1>2. /\ d \in Seq(Nodes) /\ Len(d) = Len(c) - 1
      /\ \A j \in 1..Len(c) - 1 : d[j] = c[IF j < i THEN j ELSE j + 1]
  BY <1>1, WithoutIs
<1> HIDE DEF d
<1>3. \A j, l \in 1..Len(d) : d[j] = d[l] => j = l
  <2> SUFFICES ASSUME NEW j \in 1..Len(d), NEW l \in 1..Len(d), d[j] = d[l] PROVE j = l
    OBVIOUS
  <2> DEFINE x == IF j < i THEN j ELSE j + 1
             y == IF l < i THEN l ELSE l + 1
  <2>1. x \in 1..Len(c) /\ y \in 1..Len(c) /\ c[x] = c[y]
    BY <1>1, <1>2
  <2>2. x = y
    BY <2>1 DEF Path
  <2>3. QED
    BY <2>2
<1>4. \A j \in 1..Len(c) : f[c[j]] = IF j = Len(c) THEN NULL ELSE c[j + 1]
  BY DEF Path
<1>5. k = IF Len(d) = 0 THEN NULL ELSE d[1]
  <2>1. CASE i = 1
    <3>1. k = IF 1 = Len(c) THEN NULL ELSE c[2]
      <4>1. k = f[c[1]] /\ 1 \in 1..Len(c)
        BY <2>1
      <4>2. f[c[1]] = IF 1 = Len(c) THEN NULL ELSE c[1 + 1]
        BY <1>4, <4>1
      <4>3. QED
        BY <4>1, <4>2
    <3>2. QED
      BY <1>1, <1>2, <2>1, <3>1
  <2>2. CASE i # 1
    BY <1>1, <1>2, <2>2 DEF Path
  <2>3. QED
    BY <2>1, <2>2
<1>6. ASSUME NEW j \in 1..Len(d) PROVE g[d[j]] = IF j = Len(d) THEN NULL ELSE d[j + 1]
  <2>1. CASE j < i - 1
    <3>1. d[j] = c[j] /\ j \in 1..Len(c) /\ j # Len(c) /\ j # Len(d) /\ d[j + 1] = c[j + 1]
      BY <1>1, <1>2, <2>1
    <3>2. QED
      BY <1>4, <2>1, <3>1
  <2>2. CASE j = i - 1
    <3>1. d[j] = c[j] /\ j \in 1..Len(c) /\ g[d[j]] = f[c[i]]
      BY <1>1, <1>2, <2>2
    <3>2. f[c[i]] = IF i = Len(c) THEN NULL ELSE c[i + 1]
      BY <1>4
    <3>3. CASE i = Len(c)
      BY <1>1, <1>2, <2>2, <3>1, <3>2, <3>3
    <3>4. CASE i # Len(c)
      <4>1. j + 1 \in 1..Len(c) - 1 /\ j + 1 = i /\ j # Len(d)
        BY <1>1, <1>2, <2>2, <3>4
      <4>2. d[j + 1] = c[i + 1]
        BY <1>2, <4>1
      <4>3. g[d[j]] = d[j + 1]
        BY <3>1, <3>2, <3>4, <4>2
      <4>4. QED
        BY <4>1, <4>3
    <3>5. QED
      BY <3>3, <3>4
  <2>3. CASE j >= i
    <3>1. d[j] = c[j + 1] /\ j + 1 \in 1..Len(c) /\ j + 1 # i - 1
      BY <1>1, <1>2, <2>3
    <3>2. g[d[j]] = IF j + 1 = Len(c) THEN NULL ELSE c[j + 2]
      BY <1>4, <3>1
    <3>3. CASE j = Len(d)
      BY <1>1, <1>2, <3>2, <3>3
    <3>4. CASE j # Len(d)
      <4>1. j + 1 \in 1..Len(c) - 1 /\ ~(j + 1 < i) /\ j + 1 # Len(c)
        BY <1>1, <1>2, <2>3, <3>4
      <4>2. d[j + 1] = c[j + 2]
        BY <1>1, <1>2, <4>1
      <4>3. QED
        BY <3>2, <3>4, <4>1, <4>2
    <3>5. QED
      BY <3>3, <3>4
  <2>4. QED
    BY <1>1, <1>2, <2>1, <2>2, <2>3
<1>7. QED
  BY <1>2, <1>3, <1>5, <1>6 DEF Path, d

-----------------------------------------------------------------------------
\* The message in a node.
Msg(n) == [to |-> node[n].to, msg |-> node[n].msg]

(***************************************************************************)
(* What is said of the list in addition to MailInv: its nodes in order are *)
(* Chain, a send looks for the last of them, and a receive has passed only *)
(* nodes that are for others.                                              *)
(***************************************************************************)
SendOrder(t) ==
  /\ mcall[t].pc \in {"first", "fill", "new", "copy", "walk", "link", "end"} => Letter(t) \in Letters
  /\ mcall[t].pc = "fill" => Len(Chain) = 1
  /\ mcall[t].pc \in {"walk", "link"} =>
       Msg(mcall[t].mine) = Letter(t) /\ \E i \in 1..Len(Chain) : mcall[t].temp = Chain[i]
  /\ mcall[t].pc = "link" => Nexts[mcall[t].temp] = NULL

GetOrder(t) ==
  /\ mcall[t].pc \in {"none", "scan", "unlink", "free"} => mcall[t].to \in Users
  /\ mcall[t].pc \in {"scan", "unlink"} /\ mcall[t].temp # NULL =>
       \E i \in 1..Len(Chain) : /\ mcall[t].temp = Chain[i]
                                /\ \A j \in 1..i - 1 : node[Chain[j]].to # mcall[t].to
  /\ mcall[t].pc = "unlink" => Msg(mcall[t].temp) = Letter(t)

ChainInv(t) ==
  /\ Path(Chain, head, Nexts)
  /\ \A i \in 1..Len(Chain) : Chain[i] \in Live(t)

OrderInv(t) == MailInv(t) /\ ChainInv(t) /\ SendOrder(t) /\ GetOrder(t)

\* Waiting is the text of the chain, unless its only node is not filled.
LEMMA WaitingIs ==
  ASSUME NEW t, OneTask(t), Path(Chain, head, Nexts)
  PROVE  Waiting = IF mcall[t].pc = "fill" THEN <<>> ELSE [i \in 1..Len(Chain) |-> Msg(Chain[i])]
<1>1. DOMAIN Chain = 1..Len(Chain)
  BY DEF Path
<1>2. OnList = [i \in 1..Len(Chain) |-> Msg(Chain[i])]
  BY <1>1, Zenon DEF OnList, Msg
<1>3. QED
  BY <1>2 DEF Waiting, OneTask

LEMMA WaitingThen ==
  ASSUME NEW t, OneTask(t), Path(Chain', head', Nexts')
  PROVE  Waiting' = IF mcall'[t].pc = "fill" THEN <<>> ELSE [i \in 1..Len(Chain') |-> Msg(Chain[i])']
<1>1. DOMAIN Chain' = 1..Len(Chain')
  BY DEF Path
<1>2. OnList' = [i \in 1..Len(Chain') |-> Msg(Chain[i])']
  BY <1>1, Zenon DEF OnList, Msg
<1>3. QED
  BY <1>2 DEF Waiting, OneTask

\* A step that leaves the chain alone.
LEMMA ChainStays ==
  ASSUME NEW t, OneTask(t), OrderInv(t), head' = head,
         \A i \in 1..Len(Chain) : Nexts'[Chain[i]] = Nexts[Chain[i]],
         \A i \in 1..Len(Chain) : Chain[i] \in Live(t)'
  PROVE  Chain' = Chain /\ ChainInv(t)'
<1>1. Path(Chain, head', Nexts')
  BY PathSame DEF OrderInv, ChainInv
<1>2. Chain' = Chain
  BY <1>1, ChainIsThen
<1>3. QED
  BY <1>1, <1>2 DEF ChainInv

LEMMA WaitingStays ==
  ASSUME NEW t, OneTask(t), OrderInv(t), Chain' = Chain, ChainInv(t)',
         mcall[t].pc = "fill" <=> mcall'[t].pc = "fill",
         mcall[t].pc # "fill" => \A i \in 1..Len(Chain) : Msg(Chain[i])' = Msg(Chain[i])
  PROVE  Waiting' = Waiting
<1>1. Waiting = IF mcall[t].pc = "fill" THEN <<>> ELSE [i \in 1..Len(Chain) |-> Msg(Chain[i])]
  BY WaitingIs DEF OrderInv, ChainInv
<1>2. Waiting' = IF mcall'[t].pc = "fill" THEN <<>> ELSE [i \in 1..Len(Chain) |-> Msg(Chain[i])']
  BY WaitingThen DEF ChainInv
<1>3. QED
  BY <1>1, <1>2

\* A step that does not touch the memory at all.
LEMMA MemoryStays ==
  ASSUME NEW t, OneTask(t), OrderInv(t), mcall[t].pc # "free", UNCHANGED <<head, node, allocated>>,
         mcall'[t].pc # "free", mcall[t].pc # "fill", mcall'[t].pc # "fill"
  PROVE  Chain' = Chain /\ ChainInv(t)' /\ Nexts' = Nexts /\ Waiting' = Waiting
<1>1. Nexts' = Nexts /\ Live(t)' = Live(t)
  BY DEF Nexts, Live
<1>2. Chain' = Chain /\ ChainInv(t)'
  BY <1>1, ChainStays DEF OrderInv, ChainInv
<1>3. \A i \in 1..Len(Chain) : Msg(Chain[i])' = Msg(Chain[i])
  BY <1>2 DEF Msg
<1>4. QED
  BY <1>1, <1>2, <1>3, WaitingStays

-----------------------------------------------------------------------------
LEMMA SendBeginsOrdered ==
  ASSUME NEW t, OneTask(t), OrderInv(t), MailInv(t)', NEW l \in Letters, csc452_send_msg(t, l)
  PROVE  OrderInv(t)' /\ UNCHANGED <<Waiting, handed>>
<1> DEFINE r == [pc |-> IF head = NULL THEN "first" ELSE "new", to |-> l.to, msg |-> l.msg, temp |-> NULL, mine |-> NULL]
<1>1. mcall[t] = MsgIdle /\ Goto(t, r) /\ UNCHANGED <<head, node, allocated, handed>>
  BY DEF csc452_send_msg
<1>2. mcall'[t] = r
  BY <1>1, Went DEF OrderInv, MailInv
<1>3. r.pc \in {"first", "new"} /\ r.to = l.to /\ r.msg = l.msg /\ mcall[t].pc = "idle"
  BY <1>1 DEF MsgIdle
<1> HIDE DEF r
<1>4. Chain' = Chain /\ ChainInv(t)' /\ Waiting' = Waiting
  BY <1>1, <1>2, <1>3, MemoryStays
<1>5. Letter(t)' \in Letters
  BY <1>2, <1>3, MessagesAssumption DEF Letter
<1>6. SendOrder(t)' /\ GetOrder(t)'
  BY <1>2, <1>3, <1>5 DEF SendOrder, GetOrder
<1>7. QED
  BY <1>1, <1>4, <1>6 DEF OrderInv

LEMMA GetBeginsOrdered ==
  ASSUME NEW t, OneTask(t), OrderInv(t), MailInv(t)', NEW u \in Users, csc452_get_msg(t, u)
  PROVE  OrderInv(t)' /\ UNCHANGED <<Waiting, handed>>
<1> DEFINE r == [pc |-> IF head = NULL THEN "none" ELSE "scan", to |-> u, msg |-> "none", temp |-> head, before |-> head]
<1>1. mcall[t] = MsgIdle /\ Goto(t, r) /\ UNCHANGED <<head, node, allocated, handed>>
  BY DEF csc452_get_msg
<1>2. mcall'[t] = r
  BY <1>1, Went DEF OrderInv, MailInv
<1>3. r.pc \in {"none", "scan"} /\ r.to = u /\ r.temp = head /\ mcall[t].pc = "idle"
  BY <1>1 DEF MsgIdle
<1> HIDE DEF r
<1>4. Chain' = Chain /\ ChainInv(t)' /\ Waiting' = Waiting
  BY <1>1, <1>2, <1>3, MemoryStays
<1>5. head # NULL => 1 \in 1..Len(Chain) /\ head = Chain[1]
  BY DEF OrderInv, ChainInv, Path
<1>6. GetOrder(t)'
  BY <1>1, <1>2, <1>3, <1>4, <1>5 DEF GetOrder
<1>7. SendOrder(t)'
  BY <1>2, <1>3 DEF SendOrder
<1>8. QED
  BY <1>1, <1>4, <1>6, <1>7 DEF OrderInv

\* What kmalloc and the stores leave of the messages.
LEMMA StoresKeepMessages ==
  ASSUME MemInv, NEW x \in Nodes
  PROVE  /\ node' = [node EXCEPT ![x] = Cleared] => \A n \in Nodes \ {x} : Msg(n)' = Msg(n)
         /\ \A y : node' = [node EXCEPT ![x].next = y] => \A n \in Nodes : Msg(n)' = Msg(n)
         /\ \A a, b : node' = [node EXCEPT ![x].to = a, ![x].msg = b] =>
              Msg(x)' = [to |-> a, msg |-> b] /\ \A n \in Nodes \ {x} : Msg(n)' = Msg(n)
<1>1. /\ node[x] = [to |-> node[x].to, msg |-> node[x].msg, next |-> node[x].next]
      /\ DOMAIN node = Nodes
  BY DEF MemInv
<1>2. ASSUME node' = [node EXCEPT ![x] = Cleared] PROVE \A n \in Nodes \ {x} : Msg(n)' = Msg(n)
  BY <1>1, <1>2 DEF Msg
<1>3. ASSUME NEW y, node' = [node EXCEPT ![x].next = y] PROVE \A n \in Nodes : Msg(n)' = Msg(n)
  <2>1. node'[x].to = node[x].to /\ node'[x].msg = node[x].msg
    BY <1>1, <1>3
  <2>2. \A n \in Nodes \ {x} : node'[n] = node[n]
    BY <1>1, <1>3
  <2>3. QED
    BY <2>1, <2>2 DEF Msg
<1>4. ASSUME NEW a, NEW b, node' = [node EXCEPT ![x].to = a, ![x].msg = b]
      PROVE  Msg(x)' = [to |-> a, msg |-> b] /\ \A n \in Nodes \ {x} : Msg(n)' = Msg(n)
  <2> DEFINE y == [node[x] EXCEPT !.to = a]
  <2>1. y = [to |-> a, msg |-> node[x].msg, next |-> node[x].next] /\ node'[x] = [y EXCEPT !.msg = b]
    BY <1>1, <1>4
  <2>2. \A n \in Nodes \ {x} : node'[n] = node[n]
    BY <1>1, <1>4
  <2> HIDE DEF y
  <2>3. node'[x] = [to |-> a, msg |-> b, next |-> node[x].next]
    BY <2>1
  <2>4. QED
    BY <2>2, <2>3 DEF Msg
<1>5. QED
  BY <1>2, <1>3, <1>4

\* The nodes of the chain are in use, unless one is about to be freed.
LEMMA ChainNodes ==
  ASSUME NEW t, OrderInv(t)
  PROVE  /\ Len(Chain) \in Nat /\ Chain \in Seq(Nodes)
         /\ \A i \in 1..Len(Chain) : Chain[i] \in Nodes /\ Chain[i] \in allocated /\ Chain[i] # NULL
         /\ Len(Chain) = 0 <=> head = NULL
<1>1. \A i \in 1..Len(Chain) : Chain[i] \in Nodes /\ Chain[i] \in allocated
  BY DEF OrderInv, ChainInv, Live, MailInv
<1>2. Len(Chain) \in Nat /\ Chain \in Seq(Nodes) /\ head = IF Len(Chain) = 0 THEN NULL ELSE Chain[1]
  BY DEF OrderInv, ChainInv, Path
<1>3. Len(Chain) # 0 => 1 \in 1..Len(Chain)
  BY <1>2
<1>4. QED
  BY <1>1, <1>2, <1>3, MessagesAssumption

LEMMA FirstNodeOrdered ==
  ASSUME NEW t, OneTask(t), OrderInv(t), MailInv(t)', FirstNode(t)
  PROVE  OrderInv(t)' /\ UNCHANGED <<Waiting, handed>>
<1>1. mcall[t].pc = "first" /\ SendInv(t) /\ head = NULL /\ MailInv(t) /\ handed' = handed
  BY CallOf DEF FirstNode, OrderInv, SendInv
<1>2. Len(Chain) = 0 /\ Chain = <<>>
  BY <1>1, ChainNodes
<1>3. Waiting = <<>>
  <2>1. Waiting = [i \in 1..Len(Chain) |-> Msg(Chain[i])]
    BY <1>1, WaitingIs DEF OrderInv, ChainInv
  <2>2. QED
    BY <1>2, <2>1
<1>4. CASE \E n \in Nodes : Kmalloc(n) /\ head' = n /\ Goto(t, At(t, "fill"))
  <2>1. PICK n \in Nodes : Kmalloc(n) /\ head' = n /\ Goto(t, At(t, "fill"))
    BY <1>4
  <2>2. allocated' = allocated \cup {n} /\ Nexts'[n] = NULL
    BY <1>1, <2>1, Allocated
  <2>3. mcall'[t] = At(t, "fill")
    BY <1>1, <2>1, Went DEF MailInv
  <2>4. mcall'[t].pc = "fill" /\ mcall'[t].to = mcall[t].to /\ mcall'[t].msg = mcall[t].msg
    BY <1>1, <2>3, SendGoesOn
  <2>5. Path(<<n>>, head', Nexts')
    BY <2>1, <2>2, PathOne
  <2>6. Chain' = <<n>>
    BY <2>5, ChainIsThen
  <2>7. ChainInv(t)' /\ Len(Chain') = 1
    BY <2>2, <2>4, <2>5, <2>6 DEF ChainInv, Live
  <2>8. SendOrder(t)' /\ GetOrder(t)'
    BY <1>1, <2>4, <2>7 DEF SendOrder, GetOrder, OrderInv, Letter
  <2>9. Waiting' = <<>>
    BY <2>4, <2>7, WaitingThen DEF ChainInv
  <2>10. QED
    BY <1>1, <1>3, <2>7, <2>8, <2>9 DEF OrderInv
<1>5. CASE head' = NULL /\ Goto(t, MsgIdle) /\ UNCHANGED <<node, allocated>>
  <2>1. mcall'[t] = MsgIdle
    BY <1>1, <1>5, Went DEF MailInv
  <2>2. mcall'[t].pc = "idle" /\ UNCHANGED <<head, node, allocated>>
    BY <1>1, <1>5, <2>1 DEF MsgIdle
  <2>3. ChainInv(t)' /\ Waiting' = Waiting
    BY <1>1, <2>2, MemoryStays
  <2>4. SendOrder(t)' /\ GetOrder(t)'
    BY <2>2 DEF SendOrder, GetOrder
  <2>5. QED
    BY <1>1, <2>3, <2>4 DEF OrderInv
<1>6. QED
  BY <1>4, <1>5 DEF FirstNode

\* The first message appears when its node is filled.
LEMMA FillFirstOrdered ==
  ASSUME NEW t, OneTask(t), OrderInv(t), MailInv(t)', FillFirst(t)
  PROVE  OrderInv(t)' /\ Post!Send(Letter(t)) /\ Letter(t) \in Letters
<1>1. /\ mcall[t].pc = "fill" /\ MailInv(t) /\ head # NULL /\ handed' = handed
      /\ Letter(t) \in Letters /\ Len(Chain) = 1
  BY CallOf DEF FillFirst, OrderInv, SendOrder, SendInv
<1>2. /\ node' = [node EXCEPT ![head].to = mcall[t].to, ![head].msg = mcall[t].msg]
      /\ Goto(t, MsgIdle) /\ UNCHANGED <<head, allocated>>
  BY <1>1 DEF FillFirst, SendDone
<1>3. PICK h \in Nodes : h = head /\ Chain[1] = h
  BY <1>1, ChainNodes DEF OrderInv, ChainInv, Path
<1>4. Nexts' = Nexts /\ Msg(h)' = Letter(t)
  <2>1. node' = [node EXCEPT ![h].to = mcall[t].to, ![h].msg = mcall[t].msg] /\ MemInv
    BY <1>1, <1>2, <1>3 DEF MailInv
  <2>2. Nexts' = Nexts
    BY <2>1, FieldsKeep
  <2>3. Msg(h)' = [to |-> mcall[t].to, msg |-> mcall[t].msg]
    BY <2>1, StoresKeepMessages
  <2>4. QED
    BY <2>2, <2>3 DEF Letter
<1>5. mcall'[t].pc = "idle"
  BY <1>1, <1>2, Went DEF MailInv, MsgIdle
<1>6. Live(t)' = Live(t)
  BY <1>1, <1>2, <1>5 DEF Live
<1>7. Chain' = Chain /\ ChainInv(t)'
  BY <1>2, <1>4, <1>6, ChainStays DEF OrderInv, ChainInv
<1>8. Waiting = <<>>
  BY <1>1, WaitingIs DEF OrderInv, ChainInv
<1>9. Waiting' = <<Letter(t)>>
  <2>1. Waiting' = [i \in 1..Len(Chain') |-> Msg(Chain[i])']
    BY <1>5, <1>7, WaitingThen DEF ChainInv
  <2>2. \A i \in 1..1 : Msg(Chain[i])' = Letter(t)
    <3>1. Chain'[1] = h
      BY <1>3, <1>7
    <3>2. Msg(Chain[1])' = Msg(h)'
      BY <3>1 DEF Msg
    <3>3. QED
      BY <1>4, <3>2
  <2>3. Waiting' = [i \in 1..1 |-> Msg(Chain[i])']
    BY <1>1, <1>7, <2>1
  <2>4. QED
    BY <2>2, <2>3
<1>10. SendOrder(t)' /\ GetOrder(t)'
  BY <1>5 DEF SendOrder, GetOrder
<1>11. QED
  BY <1>1, <1>7, <1>8, <1>9, <1>10 DEF OrderInv, Post!Send

LEMMA NewNodeOrdered ==
  ASSUME NEW t, OneTask(t), OrderInv(t), MailInv(t)', NewNode(t)
  PROVE  OrderInv(t)' /\ UNCHANGED <<Waiting, handed>>
<1>1. mcall[t].pc = "new" /\ SendInv(t) /\ MailInv(t) /\ UNCHANGED <<head, handed>>
  BY CallOf DEF NewNode, OrderInv
<1>2. CASE \E n \in Nodes : Kmalloc(n) /\ Goto(t, [At(t, "copy") EXCEPT !.mine = n])
  <2>1. PICK n \in Nodes : Kmalloc(n) /\ Goto(t, [At(t, "copy") EXCEPT !.mine = n])
    BY <1>2
  <2>2. /\ allocated' = allocated \cup {n} /\ n \notin allocated
        /\ \A m \in allocated : Nexts'[m] = Nexts[m]
    BY <1>1, <2>1, Allocated
  <2>3. mcall'[t] = [At(t, "copy") EXCEPT !.mine = n]
    BY <1>1, <2>1, Went DEF MailInv
  <2>4. mcall'[t].pc = "copy" /\ mcall'[t].to = mcall[t].to /\ mcall'[t].msg = mcall[t].msg
    BY <1>1, <2>3, SendGoesOn
  <2>5. \A i \in 1..Len(Chain) : Chain[i] \in allocated /\ Chain[i] \in Nodes \ {n}
    BY <2>2, ChainNodes
  <2>6. Live(t)' = allocated \cup {n}
    BY <2>2, <2>4 DEF Live
  <2>7. Chain' = Chain /\ ChainInv(t)'
    BY <1>1, <2>2, <2>5, <2>6, ChainStays
  <2>8. \A m \in Nodes \ {n} : Msg(m)' = Msg(m)
    BY <1>1, <2>1, StoresKeepMessages DEF Kmalloc, OneTask, MailInv
  <2>9. \A i \in 1..Len(Chain) : Msg(Chain[i])' = Msg(Chain[i])
    BY <2>5, <2>7, <2>8 DEF Msg
  <2>10. Waiting' = Waiting
    BY <1>1, <2>4, <2>7, <2>9, WaitingStays
  <2>11. SendOrder(t)' /\ GetOrder(t)'
    BY <1>1, <2>4 DEF SendOrder, GetOrder, OrderInv, Letter
  <2>12. QED
    BY <1>1, <2>7, <2>10, <2>11 DEF OrderInv
<1>3. CASE Goto(t, MsgIdle) /\ UNCHANGED <<node, allocated>>
  <2>1. mcall'[t].pc = "idle"
    BY <1>1, <1>3, Went DEF MailInv, MsgIdle
  <2>2. ChainInv(t)' /\ Waiting' = Waiting
    BY <1>1, <1>3, <2>1, MemoryStays
  <2>3. SendOrder(t)' /\ GetOrder(t)'
    BY <2>1 DEF SendOrder, GetOrder
  <2>4. QED
    BY <1>1, <2>2, <2>3 DEF OrderInv
<1>4. QED
  BY <1>2, <1>3 DEF NewNode

\* The new node of a send is not on the list before it is linked.
LEMMA NewNodeApart ==
  ASSUME NEW t, OrderInv(t), mcall[t].pc \in {"copy", "walk", "link"}
  PROVE  \A i \in 1..Len(Chain) : Chain[i] # mcall[t].mine
<1>1. mcall[t].mine # head /\ \A n \in allocated : Nexts[n] # mcall[t].mine
  BY CallOf DEF OrderInv, SendInv
<1>2. Path(Chain, head, Nexts) /\ Len(Chain) \in Nat
  BY ChainNodes DEF OrderInv, ChainInv
<1>3. ASSUME NEW i \in 1..Len(Chain) PROVE Chain[i] # mcall[t].mine
  <2>1. CASE i = 1
    BY <1>1, <1>2, <2>1 DEF Path
  <2>2. CASE i # 1
    <3>1. i - 1 \in 1..Len(Chain) /\ i - 1 # Len(Chain) /\ i - 1 + 1 = i
      BY <1>2, <2>2
    <3>2. Nexts[Chain[i - 1]] = Chain[i] /\ Chain[i - 1] \in allocated
      BY <1>2, <3>1, ChainNodes DEF Path
    <3>3. QED
      BY <1>1, <3>2
  <2>3. QED
    BY <2>1, <2>2
<1>4. QED
  BY <1>3

LEMMA CopyInOrdered ==
  ASSUME NEW t, OneTask(t), OrderInv(t), MailInv(t)', CopyIn(t)
  PROVE  OrderInv(t)' /\ UNCHANGED <<Waiting, handed>>
<1>1. /\ mcall[t].pc = "copy" /\ SendInv(t) /\ MailInv(t) /\ head # NULL /\ handed' = handed
      /\ mcall[t].mine \in Nodes
  BY CallOf DEF CopyIn, OrderInv, SendInv, MailInv
<1>2. PICK m \in Nodes : m = mcall[t].mine
  BY <1>1
<1>3. /\ node' = [node EXCEPT ![m].to = mcall[t].to, ![m].msg = mcall[t].msg]
      /\ Goto(t, [At(t, "walk") EXCEPT !.temp = head]) /\ UNCHANGED <<head, allocated>>
  BY <1>2 DEF CopyIn
<1>4. mcall'[t] = [At(t, "walk") EXCEPT !.temp = head]
  BY <1>1, <1>3, Went DEF MailInv
<1>5. mcall'[t] = [pc |-> "walk", to |-> mcall[t].to, msg |-> mcall[t].msg, temp |-> head, mine |-> m]
  BY <1>1, <1>2, <1>4, SendGoesOn
<1>6. Nexts' = Nexts /\ Live(t)' = Live(t)
  <2>1. MemInv
    BY <1>1 DEF MailInv
  <2>2. Nexts' = Nexts
    BY <1>3, <2>1, FieldsKeep
  <2>3. Live(t)' = Live(t)
    BY <1>1, <1>3, <1>5 DEF Live
  <2>4. QED
    BY <2>2, <2>3
<1>7. Chain' = Chain /\ ChainInv(t)'
  BY <1>3, <1>6, ChainStays DEF OrderInv, ChainInv
<1>8. Msg(m)' = Letter(t) /\ \A n \in Nodes \ {m} : Msg(n)' = Msg(n)
  BY <1>1, <1>3, StoresKeepMessages DEF MailInv, Letter
<1>9. \A i \in 1..Len(Chain) : Chain[i] \in Nodes \ {m}
  BY <1>1, <1>2, NewNodeApart, ChainNodes
<1>10. \A i \in 1..Len(Chain) : Msg(Chain[i])' = Msg(Chain[i])
  BY <1>7, <1>8, <1>9 DEF Msg
<1>11. Waiting' = Waiting
  BY <1>1, <1>5, <1>7, <1>10, WaitingStays
<1>12. Msg(mcall[t].mine)' = Letter(t) /\ Letter(t)' = Letter(t)
  BY <1>5, <1>8 DEF Msg, Letter
<1>13. 1 \in 1..Len(Chain) /\ head = Chain[1]
  BY <1>1, ChainNodes DEF OrderInv, ChainInv, Path
<1>14. SendOrder(t)'
  BY <1>1, <1>5, <1>7, <1>12, <1>13 DEF SendOrder, OrderInv
<1>15. GetOrder(t)'
  BY <1>5 DEF GetOrder
<1>16. QED
  BY <1>1, <1>7, <1>11, <1>14, <1>15 DEF OrderInv

LEMMA WalkOrdered ==
  ASSUME NEW t, OneTask(t), OrderInv(t), MailInv(t)', Walk(t)
  PROVE  OrderInv(t)' /\ UNCHANGED <<Waiting, handed>>
<1> DEFINE temp == mcall[t].temp
           r == IF IsLast(temp) THEN At(t, "link") ELSE [At(t, "walk") EXCEPT !.temp = node[temp].next]
           there == IF IsLast(temp) THEN temp ELSE node[temp].next
<1>1. /\ mcall[t].pc = "walk" /\ SendInv(t) /\ MailInv(t)
      /\ Msg(mcall[t].mine) = Letter(t) /\ Letter(t) \in Letters
  BY CallOf DEF Walk, OrderInv, SendOrder
<1>2. PICK i \in 1..Len(Chain) : temp = Chain[i]
  BY <1>1 DEF OrderInv, SendOrder
<1>3. temp \in Nodes /\ temp # NULL /\ Nexts[temp] = node[temp].next /\ Len(Chain) \in Nat
  BY <1>2, ChainNodes DEF Nexts
<1>4. Goto(t, r) /\ UNCHANGED <<head, node, allocated, handed>>
  BY <1>3 DEF Walk
<1>5. mcall'[t] = r
  BY <1>1, <1>4, Went DEF MailInv
<1>6. /\ r.pc = (IF IsLast(temp) THEN "link" ELSE "walk")
      /\ r = [pc |-> r.pc, to |-> mcall[t].to, msg |-> mcall[t].msg, temp |-> there, mine |-> mcall[t].mine]
  BY <1>1, SendGoesOn
<1>7. \E j \in 1..Len(Chain) : there = Chain[j]
  <2>1. CASE IsLast(temp)
    BY <1>2, <2>1
  <2>2. CASE ~IsLast(temp)
    <3>1. there = Nexts[temp] /\ Nexts[temp] # NULL
      BY <1>3, <2>2 DEF IsLast
    <3>2. i # Len(Chain) /\ Nexts[temp] = Chain[i + 1]
      BY <1>2, <3>1 DEF OrderInv, ChainInv, Path
    <3>3. i + 1 \in 1..Len(Chain)
      BY <1>3, <3>2
    <3>4. QED
      BY <3>1, <3>2, <3>3
  <2>3. QED
    BY <2>1, <2>2
<1>8. IsLast(temp) => Nexts[there] = NULL
  BY <1>3 DEF IsLast
<1> HIDE DEF r, there
<1>9. mcall'[t].pc \in {"link", "walk"}
  BY <1>5, <1>6
<1>10. Chain' = Chain /\ ChainInv(t)' /\ Nexts' = Nexts /\ Waiting' = Waiting
  BY <1>1, <1>4, <1>9, MemoryStays
<1>11. /\ mcall'[t].mine = mcall[t].mine /\ mcall'[t].temp = there /\ Letter(t)' = Letter(t)
       /\ mcall'[t].pc = "link" => IsLast(temp)
  BY <1>5, <1>6 DEF Letter
<1>12. Msg(mcall[t].mine)' = Letter(t)'
  BY <1>1, <1>4, <1>11 DEF Msg
<1>13. SendOrder(t)'
  BY <1>1, <1>7, <1>8, <1>9, <1>10, <1>11, <1>12 DEF SendOrder
<1>14. GetOrder(t)'
  BY <1>9 DEF GetOrder
<1>15. QED
  BY <1>4, <1>10, <1>13, <1>14 DEF OrderInv

\* A later message appears when its node is linked.
LEMMA LinkOrdered ==
  ASSUME NEW t, OneTask(t), OrderInv(t), MailInv(t)', Link(t)
  PROVE  OrderInv(t)' /\ Post!Send(Letter(t)) /\ Letter(t) \in Letters
<1> DEFINE temp == mcall[t].temp
<1>0. PICK L \in Nat : L = Len(Chain)
  BY ChainNodes
<1>1. /\ mcall[t].pc = "link" /\ SendInv(t) /\ MailInv(t) /\ handed' = handed
      /\ Msg(mcall[t].mine) = Letter(t) /\ Letter(t) \in Letters
      /\ Nexts[temp] = NULL /\ mcall[t].mine \in allocated /\ Nexts[mcall[t].mine] = NULL
  BY CallOf DEF Link, OrderInv, SendOrder, SendInv
<1>2. PICK m \in Nodes : m = mcall[t].mine
  BY <1>1 DEF MailInv
<1>3. PICK i \in 1..Len(Chain) : temp = Chain[i]
  BY <1>1 DEF OrderInv, SendOrder
<1>4. /\ L \in Nat /\ L # 0 /\ Chain \in Seq(Nodes) /\ Path(Chain, head, Nexts)
      /\ \A j \in 1..L : Chain[j] \in Nodes /\ Chain[j] # NULL /\ Chain[j] # m
  BY <1>0, <1>1, <1>2, <1>3, ChainNodes, NewNodeApart DEF OrderInv, ChainInv
<1>5. i = L
  <2>1. Nexts[Chain[i]] = IF i = L THEN NULL ELSE Chain[i + 1]
    BY <1>0, <1>3, <1>4 DEF Path
  <2>2. i # L => i + 1 \in 1..L
    BY <1>0, <1>4
  <2>3. QED
    BY <1>1, <1>3, <1>4, <2>1, <2>2
<1>6. PICK e \in Nodes : e = temp /\ e = Chain[L]
  BY <1>3, <1>4, <1>5
<1>7. /\ node' = [node EXCEPT ![e].next = m] /\ Goto(t, At(t, "end"))
      /\ UNCHANGED <<head, allocated>>
  BY <1>2, <1>6 DEF Link
<1>8. mcall'[t] = At(t, "end")
  BY <1>1, <1>7, Went DEF MailInv
<1>9. mcall'[t].pc = "end" /\ mcall'[t].to = mcall[t].to /\ mcall'[t].msg = mcall[t].msg
  BY <1>1, <1>8, SendGoesOn
<1>10. Nexts' = [Nexts EXCEPT ![e] = m]
  BY <1>1, <1>7, NextSet DEF MailInv
<1>11. Nexts'[e] = m /\ \A n \in Nodes \ {e} : Nexts'[n] = Nexts[n]
  BY <1>10 DEF Nexts
<1>12. m # e /\ \A j \in 1..L - 1 : Chain[j] \in Nodes \ {e}
  BY <1>0, <1>4, <1>6 DEF Path
<1>13. Path(Append(Chain, m), head', Nexts')
  <2>1. Nexts'[Chain[L]] = m /\ Nexts'[m] = NULL /\ \A j \in 1..L - 1 : Nexts'[Chain[j]] = Nexts[Chain[j]]
    BY <1>1, <1>2, <1>6, <1>11, <1>12
  <2>2. QED
    BY <1>0, <1>4, <1>7, <2>1, PathAppend
<1>14. Chain' = Append(Chain, m)
  BY <1>13, ChainIsThen
<1>15. Len(Chain') = L + 1 /\ Chain'[L + 1] = m /\ \A j \in 1..L : Chain'[j] = Chain[j]
  BY <1>0, <1>4, <1>14
<1>16. ChainInv(t)'
  <2>1. Live(t)' = allocated
    BY <1>7, <1>9 DEF Live
  <2>2. \A j \in 1..L : Chain[j] \in allocated
    BY <1>0, ChainNodes
  <2>3. \A j \in 1..L + 1 : j = L + 1 \/ j \in 1..L
    BY <1>4
  <2>4. \A j \in 1..Len(Chain') : Chain'[j] \in allocated
    BY <1>1, <1>2, <1>15, <2>2, <2>3
  <2>5. QED
    BY <1>13, <1>14, <2>1, <2>4 DEF ChainInv
<1>17. \A n \in Nodes : Msg(n)' = Msg(n)
  BY <1>1, <1>7, StoresKeepMessages DEF MailInv
<1>18. Waiting = [j \in 1..L |-> Msg(Chain[j])]
  BY <1>0, <1>1, <1>4, WaitingIs
<1>19. Waiting' = [j \in 1..L + 1 |-> Msg(Chain[j])']
  BY <1>9, <1>15, <1>16, WaitingThen DEF ChainInv
<1>20. Waiting' = Append(Waiting, Letter(t))
  <2>1. \A j \in 1..L : Msg(Chain[j])' = Msg(Chain[j])
    BY <1>4, <1>15, <1>17 DEF Msg
  <2>2. Msg(Chain[L + 1])' = Letter(t)
    <3>1. Msg(Chain[L + 1])' = Msg(m)'
      BY <1>15 DEF Msg
    <3>2. Msg(m) = Letter(t)
      BY <1>1, <1>2
    <3>3. QED
      BY <1>17, <3>1, <3>2
  <2>3. Append(Waiting, Letter(t)) = [j \in 1..L + 1 |-> IF j = L + 1 THEN Letter(t) ELSE Msg(Chain[j])]
    BY <1>4, <1>18
  <2>4. \A j \in 1..L + 1 : j = L + 1 \/ j \in 1..L
    BY <1>4
  <2>5. \A j \in 1..L + 1 : Msg(Chain[j])' = IF j = L + 1 THEN Letter(t) ELSE Msg(Chain[j])
    BY <2>1, <2>2, <2>4
  <2>6. QED
    BY <1>19, <2>3, <2>5, Zenon
<1>21. SendOrder(t)' /\ GetOrder(t)'
  BY <1>1, <1>9 DEF SendOrder, GetOrder, Letter
<1>22. QED
  BY <1>1, <1>16, <1>20, <1>21 DEF OrderInv, Post!Send

LEMMA EndListOrdered ==
  ASSUME NEW t, OneTask(t), OrderInv(t), MailInv(t)', EndList(t)
  PROVE  OrderInv(t)' /\ UNCHANGED <<Waiting, handed>>
<1>1. /\ mcall[t].pc = "end" /\ MailInv(t) /\ handed' = handed
      /\ mcall[t].mine \in Nodes /\ Nexts[mcall[t].mine] = NULL
  BY CallOf DEF EndList, OrderInv, SendInv, MailInv
<1>2. PICK m \in Nodes : m = mcall[t].mine
  BY <1>1
<1>3. /\ node' = [node EXCEPT ![m].next = NULL] /\ Goto(t, MsgIdle) /\ UNCHANGED <<head, allocated>>
  BY <1>2 DEF EndList, SendDone
<1>4. mcall'[t].pc = "idle"
  BY <1>1, <1>3, Went DEF MailInv, MsgIdle
<1>5. Nexts' = Nexts /\ Live(t)' = Live(t)
  <2>1. Nexts' = [Nexts EXCEPT ![m] = NULL]
    BY <1>1, <1>3, NextSet DEF MailInv
  <2>2. Nexts' = Nexts
    BY <1>1, <1>2, <2>1 DEF Nexts
  <2>3. Live(t)' = Live(t)
    BY <1>1, <1>3, <1>4 DEF Live
  <2>4. QED
    BY <2>2, <2>3
<1>6. Chain' = Chain /\ ChainInv(t)'
  BY <1>3, <1>5, ChainStays DEF OrderInv, ChainInv
<1>7. \A n \in Nodes : Msg(n)' = Msg(n)
  BY <1>1, <1>3, StoresKeepMessages DEF MailInv
<1>8. \A i \in 1..Len(Chain) : Msg(Chain[i])' = Msg(Chain[i])
  BY <1>6, <1>7, ChainNodes DEF Msg
<1>9. Waiting' = Waiting
  BY <1>1, <1>4, <1>6, <1>8, WaitingStays
<1>10. SendOrder(t)' /\ GetOrder(t)'
  BY <1>4 DEF SendOrder, GetOrder
<1>11. QED
  BY <1>1, <1>6, <1>9, <1>10 DEF OrderInv

LEMMA ScanOrdered ==
  ASSUME NEW t, OneTask(t), OrderInv(t), MailInv(t)', Scan(t)
  PROVE  OrderInv(t)' /\ UNCHANGED <<Waiting, handed>>
<1> DEFINE temp == mcall[t].temp
           r == IF temp = NULL THEN At(t, "none")
                ELSE IF node[temp].to = mcall[t].to THEN [At(t, "unlink") EXCEPT !.msg = node[temp].msg]
                ELSE [At(t, "scan") EXCEPT !.before = temp, !.temp = node[temp].next]
<1>1. mcall[t].pc = "scan" /\ GetInv(t) /\ MailInv(t) /\ mcall[t].to \in Users
  BY CallOf DEF Scan, OrderInv, GetOrder
<1>2. Goto(t, r) /\ UNCHANGED <<head, node, allocated, handed>>
  BY DEF Scan
<1>3. mcall'[t] = r
  BY <1>1, <1>2, Went DEF MailInv
<1>4. \A pc : At(t, pc) = [pc |-> pc, to |-> mcall[t].to, msg |-> mcall[t].msg,
                           temp |-> temp, before |-> mcall[t].before]
  BY <1>1, GetGoesOn
<1>5. mcall'[t].pc \in {"none", "unlink", "scan"} /\ mcall'[t].to = mcall[t].to
  <2> DEFINE u == At(t, "unlink")
             z == At(t, "scan")
             n == node[temp].next
             q == [z EXCEPT !.before = temp, !.temp = n]
  <2>1. /\ At(t, "none").pc = "none" /\ At(t, "none").to = mcall[t].to
        /\ u = [pc |-> "unlink", to |-> mcall[t].to, msg |-> mcall[t].msg,
                temp |-> temp, before |-> mcall[t].before]
        /\ z = [pc |-> "scan", to |-> mcall[t].to, msg |-> mcall[t].msg,
                temp |-> temp, before |-> mcall[t].before]
    BY <1>4
  <2>2. r \in {At(t, "none"), [u EXCEPT !.msg = node[temp].msg], q}
    OBVIOUS
  <2>3. q = [z EXCEPT !.before = temp, !.temp = n]
    OBVIOUS
  <2> HIDE DEF u, z, n, r, q, temp
  <2>4. [u EXCEPT !.msg = node[temp].msg].pc = "unlink" /\ [u EXCEPT !.msg = node[temp].msg].to = mcall[t].to
    BY <2>1
  <2>5. q = [pc |-> "scan", to |-> mcall[t].to, msg |-> mcall[t].msg, temp |-> n, before |-> temp]
    BY <2>1, <2>3, GetMoved
  <2>6. QED
    BY <1>3, <2>1, <2>2, <2>4, <2>5
<1>6. Chain' = Chain /\ ChainInv(t)' /\ Nexts' = Nexts /\ Waiting' = Waiting
  BY <1>1, <1>2, <1>5, MemoryStays
<1>7. SendOrder(t)'
  BY <1>5 DEF SendOrder
<1>8. GetOrder(t)'
  <2>1. CASE temp = NULL
    <3>1. mcall'[t].pc = "none"
      BY <1>3, <1>4, <2>1
    <3>2. QED
      BY <1>1, <1>5, <3>1 DEF GetOrder
  <2>2. CASE temp # NULL /\ node[temp].to = mcall[t].to
    <3>1. mcall'[t] = [pc |-> "unlink", to |-> mcall[t].to, msg |-> node[temp].msg,
                       temp |-> temp, before |-> mcall[t].before]
      BY <1>3, <1>4, <2>2
    <3>3. \E i \in 1..Len(Chain) : temp = Chain[i] /\ \A j \in 1..i - 1 : node[Chain[j]].to # mcall[t].to
      BY <1>1, <2>2 DEF OrderInv, GetOrder
    <3>4. Msg(mcall[t].temp)' = Letter(t)'
      BY <1>2, <2>2, <3>1 DEF Msg, Letter
    <3> HIDE DEF r, temp
    <3>5. QED
      BY <1>1, <1>2, <1>6, <3>1, <3>3, <3>4 DEF GetOrder
  <2>3. CASE temp # NULL /\ node[temp].to # mcall[t].to
    <3>1. mcall'[t] = [pc |-> "scan", to |-> mcall[t].to, msg |-> mcall[t].msg,
                       temp |-> node[temp].next, before |-> temp]
      <4> DEFINE z == At(t, "scan")
                 n == node[temp].next
      <4>1. r = [z EXCEPT !.before = temp, !.temp = n]
        BY <2>3
      <4>2. z = [pc |-> "scan", to |-> mcall[t].to, msg |-> mcall[t].msg,
                 temp |-> temp, before |-> mcall[t].before]
        BY <1>4
      <4> HIDE DEF r, temp, z, n
      <4>3. r = [pc |-> "scan", to |-> mcall[t].to, msg |-> mcall[t].msg, temp |-> n, before |-> temp]
        BY <4>1, <4>2, GetMoved
      <4>4. QED
        BY <1>3, <4>3 DEF n
    <3>2. PICK i \in 1..Len(Chain) : temp = Chain[i] /\ \A j \in 1..i - 1 : node[Chain[j]].to # mcall[t].to
      BY <1>1, <2>3 DEF OrderInv, GetOrder
    <3>3. Nexts[Chain[i]] = node[temp].next /\ Len(Chain) \in Nat
      BY <3>2, ChainNodes DEF Nexts
    <3>4. node[temp].next = IF i = Len(Chain) THEN NULL ELSE Chain[i + 1]
      BY <3>3 DEF OrderInv, ChainInv, Path
    <3>5. node[temp].next # NULL => i + 1 \in 1..Len(Chain) /\ node[temp].next = Chain[i + 1]
      BY <3>3, <3>4
    <3>6. \A j \in 1..(i + 1) - 1 : node[Chain[j]].to # mcall[t].to
      <4>1. \A j \in 1..(i + 1) - 1 : j = i \/ j \in 1..i - 1
        OBVIOUS
      <4>2. QED
        BY <2>3, <3>2, <4>1
    <3> HIDE DEF r, temp
    <3>7. mcall'[t].pc = "scan" /\ mcall'[t].temp = node[temp].next
      BY <3>1
    <3>8. mcall'[t].temp # NULL =>
            \E k \in 1..Len(Chain') : /\ mcall'[t].temp = Chain'[k]
                                      /\ \A j \in 1..k - 1 : node'[Chain'[j]].to # mcall'[t].to
      <4>1. \A j \in 1..(i + 1) - 1 : node'[Chain'[j]].to # mcall'[t].to
        BY <1>2, <1>5, <1>6, <3>6
      <4>2. QED
        BY <1>6, <3>5, <3>7, <4>1
    <3>9. QED
      BY <1>1, <1>5, <3>7, <3>8 DEF GetOrder
  <2>4. QED
    BY <2>1, <2>2, <2>3
<1>9. QED
  BY <1>2, <1>6, <1>7, <1>8 DEF OrderInv

LEMMA NoMessageOrdered ==
  ASSUME NEW t, OneTask(t), OrderInv(t), MailInv(t)', NoMessage(t)
  PROVE  OrderInv(t)' /\ UNCHANGED <<Waiting, handed>>
<1>1. mcall[t].pc = "none" /\ Goto(t, MsgIdle) /\ UNCHANGED <<head, node, allocated, handed>>
  BY DEF NoMessage
<1>2. mcall'[t].pc = "idle"
  BY <1>1, Went DEF OrderInv, MailInv, MsgIdle
<1>3. ChainInv(t)' /\ Waiting' = Waiting
  BY <1>1, <1>2, MemoryStays
<1>4. SendOrder(t)' /\ GetOrder(t)'
  BY <1>2 DEF SendOrder, GetOrder
<1>5. QED
  BY <1>1, <1>3, <1>4 DEF OrderInv

LEMMA KfreeOrdered ==
  ASSUME NEW t, OneTask(t), OrderInv(t), MailInv(t)', Kfree(t)
  PROVE  OrderInv(t)' /\ UNCHANGED <<Waiting, handed>>
<1> DEFINE pc == IF head = NULL THEN "none" ELSE "scan"
           z == At(t, pc)
<1>1. mcall[t].pc = "free" /\ GetInv(t) /\ MailInv(t) /\ mcall[t].to \in Users
  BY CallOf DEF Kfree, OrderInv, GetOrder
<1>2. /\ allocated' = allocated \ {mcall[t].temp} /\ UNCHANGED <<head, node, handed>>
      /\ Goto(t, [z EXCEPT !.temp = head, !.before = head])
  BY DEF Kfree
<1>3. mcall'[t] = [z EXCEPT !.temp = head, !.before = head]
  BY <1>1, <1>2, Went DEF MailInv
<1>4. z = [pc |-> pc, to |-> mcall[t].to, msg |-> mcall[t].msg,
           temp |-> mcall[t].temp, before |-> mcall[t].before]
  BY <1>1, GetGoesOn
<1>5. pc \in {"none", "scan"}
  OBVIOUS
<1> HIDE DEF z, pc
<1>6. mcall'[t] = [pc |-> pc, to |-> mcall[t].to, msg |-> mcall[t].msg, temp |-> head, before |-> head]
  BY <1>3, <1>4, GetMoved
<1>7. Nexts' = Nexts /\ Live(t)' = Live(t)
  BY <1>1, <1>2, <1>5, <1>6 DEF Nexts, Live
<1>8. Chain' = Chain /\ ChainInv(t)'
  BY <1>2, <1>7, ChainStays DEF OrderInv, ChainInv
<1>9. \A i \in 1..Len(Chain) : Msg(Chain[i])' = Msg(Chain[i])
  BY <1>2, <1>8 DEF Msg
<1>10. Waiting' = Waiting
  BY <1>1, <1>5, <1>6, <1>8, <1>9, WaitingStays
<1>11. head # NULL => 1 \in 1..Len(Chain) /\ head = Chain[1]
  BY DEF OrderInv, ChainInv, Path
<1>12. GetOrder(t)'
  BY <1>1, <1>2, <1>5, <1>6, <1>8, <1>11 DEF GetOrder
<1>13. SendOrder(t)'
  BY <1>5, <1>6 DEF SendOrder
<1>14. QED
  BY <1>2, <1>8, <1>10, <1>12, <1>13 DEF OrderInv

\* A receive takes the i-th node off the chain.
LEMMA DetachRemoves ==
  ASSUME NEW t, OneTask(t), OrderInv(t), mcall[t].pc = "unlink", Detach(t),
         NEW i \in 1..Len(Chain), mcall[t].temp = Chain[i]
  PROVE  Path(Without(Chain, i), head', Nexts') /\ \A n \in Nodes : Msg(n)' = Msg(n)
<1> DEFINE temp == mcall[t].temp
           before == mcall[t].before
<1>1. /\ GetInv(t) /\ MailInv(t) /\ MemInv /\ Shape(allocated, head, Nexts)
      /\ temp = head \/ (before \in allocated /\ Nexts[before] = temp)
  BY CallOf DEF OrderInv, GetInv, MailInv
<1>2. /\ Path(Chain, head, Nexts) /\ Len(Chain) \in Nat
      /\ \A j \in 1..Len(Chain) : Chain[j] \in Nodes /\ Chain[j] \in allocated /\ Chain[j] # NULL
  BY ChainNodes DEF OrderInv, ChainInv
<1>3. head = Chain[1] /\ 1 \in 1..Len(Chain) /\ \A j, k \in 1..Len(Chain) : Chain[j] = Chain[k] => j = k
  BY <1>2 DEF Path
<1>4. Nexts[temp] = node[temp].next
  BY <1>2 DEF Nexts
<1>5. CASE i = 1
  <2>1. head' = node[temp].next /\ node' = node
    BY <1>3, <1>5 DEF Detach
  <2>2. head' = Nexts[Chain[1]] /\ Nexts' = Nexts
    BY <1>4, <1>5, <2>1 DEF Nexts
  <2>3. \A j \in 1..Len(Chain) : Nexts'[Chain[j]] = IF j = i - 1 THEN Nexts[Chain[i]] ELSE Nexts[Chain[j]]
    BY <1>5, <2>2
  <2>4. Path(Without(Chain, i), head', Nexts')
    BY <1>2, <1>5, <2>2, <2>3, PathRemove
  <2>5. QED
    BY <2>1, <2>4 DEF Msg
<1>6. CASE i # 1
  <2>1. temp # head
    BY <1>3, <1>6
  <2>2. head' = head /\ node' = [node EXCEPT ![before].next = node[temp].next]
    BY <2>1 DEF Detach
  <2>3. i - 1 \in 1..Len(Chain) /\ i - 1 # Len(Chain) /\ i - 1 + 1 = i
    BY <1>2, <1>6
  <2>4. Nexts[Chain[i - 1]] = temp
    BY <1>2, <2>3 DEF Path
  <2>5. before = Chain[i - 1]
    BY <1>1, <1>2, <2>1, <2>3, <2>4 DEF Shape
  <2>6. PICK b \in Nodes : b = before
    BY <1>2, <2>3, <2>5
  <2>7. PICK y : y = node[temp].next
    OBVIOUS
  <2>8. node' = [node EXCEPT ![b].next = y]
    BY <2>2, <2>6, <2>7
  <2>9. Nexts' = [Nexts EXCEPT ![b] = y] /\ \A n \in Nodes : Msg(n)' = Msg(n)
    BY <1>1, <2>8, NextSet, StoresKeepMessages
  <2>10. \A n \in Nodes : Nexts'[n] = IF n = b THEN y ELSE Nexts[n]
    BY <2>9 DEF Nexts
  <2>11. \A j \in 1..Len(Chain) : Chain[j] = b <=> j = i - 1
    BY <1>3, <2>3, <2>5, <2>6
  <2>12. \A j \in 1..Len(Chain) : Nexts'[Chain[j]] = IF j = i - 1 THEN Nexts[Chain[i]] ELSE Nexts[Chain[j]]
    BY <1>2, <1>4, <2>7, <2>10, <2>11
  <2>13. Path(Without(Chain, i), head', Nexts')
    BY <1>2, <1>6, <2>2, <2>12, PathRemove
  <2>14. QED
    BY <2>9, <2>13
<1>7. QED
  BY <1>5, <1>6

\* A message disappears when its node is unlinked.
LEMMA UnlinkOrdered ==
  ASSUME NEW t, OneTask(t), OrderInv(t), MailInv(t)', Unlink(t)
  PROVE  OrderInv(t)' /\ mcall[t].to \in Users /\ Post!Receive(mcall[t].to)
<1> DEFINE temp == mcall[t].temp
<1>1. /\ mcall[t].pc = "unlink" /\ GetInv(t) /\ MailInv(t) /\ mcall[t].to \in Users
      /\ Msg(temp) = Letter(t) /\ temp # NULL
  BY CallOf DEF Unlink, OrderInv, GetOrder, GetInv
<1>2. /\ Detach(t) /\ Goto(t, At(t, "free")) /\ handed' = Letter(t) /\ allocated' = allocated
  BY DEF Unlink
<1>3. PICK i \in 1..Len(Chain) : temp = Chain[i] /\ \A j \in 1..i - 1 : node[Chain[j]].to # mcall[t].to
  BY <1>1 DEF OrderInv, GetOrder
<1>4. PICK L \in Nat : L = Len(Chain)
  BY ChainNodes
<1>5. PICK c \in Seq(Nodes) : c = Chain
  BY ChainNodes
<1>6. Path(Without(c, i), head', Nexts') /\ \A n \in Nodes : Msg(n)' = Msg(n)
  BY <1>1, <1>2, <1>3, <1>5, DetachRemoves
<1>7. Chain' = Without(c, i)
  BY <1>6, ChainIsThen
<1>8. /\ Len(Chain') = L - 1
      /\ \A k \in 1..L - 1 : Chain'[k] = c[IF k < i THEN k ELSE k + 1]
  BY <1>3, <1>4, <1>5, <1>7, WithoutIs
<1>9. mcall'[t] = At(t, "free")
  BY <1>1, <1>2, Went DEF MailInv
<1>10. mcall'[t].pc = "free" /\ mcall'[t].to = mcall[t].to /\ mcall'[t].temp = temp
  BY <1>1, <1>9, GetGoesOn
<1>11. \A k \in 1..L - 1 : (IF k < i THEN k ELSE k + 1) \in 1..L
  BY <1>3, <1>4
<1>12. ChainInv(t)'
  <2>1. Live(t)' = allocated \ {temp}
    BY <1>2, <1>10 DEF Live
  <2>2. \A j \in 1..L : c[j] \in allocated /\ (c[j] = temp => j = i)
    BY <1>3, <1>4, <1>5, ChainNodes DEF OrderInv, ChainInv, Path
  <2>3. \A k \in 1..L - 1 : Chain'[k] \in allocated \ {temp}
    BY <1>3, <1>4, <1>8, <1>11, <2>2
  <2>4. QED
    BY <1>6, <1>7, <1>8, <2>1, <2>3 DEF ChainInv
<1>13. SendOrder(t)' /\ GetOrder(t)'
  BY <1>1, <1>10 DEF SendOrder, GetOrder
<1>14. Waiting = [j \in 1..L |-> Msg(c[j])]
  BY <1>1, <1>4, <1>5, WaitingIs DEF OrderInv, ChainInv
<1>15. Waiting' = [k \in 1..L - 1 |-> Msg(Chain[k])']
  BY <1>8, <1>10, <1>12, WaitingThen DEF ChainInv
<1>16. \A k \in 1..L - 1 : Msg(Chain[k])' = Msg(c[IF k < i THEN k ELSE k + 1])
  <2>1. ASSUME NEW k \in 1..L - 1 PROVE Msg(Chain[k])' = Msg(c[IF k < i THEN k ELSE k + 1])
    <3>1. PICK n \in Nodes : n = c[IF k < i THEN k ELSE k + 1]
      BY <1>4, <1>5, <1>11
    <3>2. Msg(Chain[k])' = Msg(n)'
      BY <1>8, <3>1 DEF Msg
    <3>3. QED
      BY <1>6, <3>1, <3>2
  <2>2. QED
    BY <2>1
<1>17. Waiting' = Without(Waiting, i)
  <2> DEFINE w == Waiting
             T == {Msg(n) : n \in Nodes}
  <2>1. \A j \in 1..L : c[j] \in Nodes
    BY <1>4, <1>5
  <2>2. w \in Seq(T) /\ Len(w) = L /\ \A j \in 1..L : w[j] = Msg(c[j])
    BY <1>14, <2>1
  <2> HIDE DEF w, T
  <2>3. /\ Without(w, i) \in Seq(T) /\ Len(Without(w, i)) = L - 1
        /\ \A k \in 1..L - 1 : Without(w, i)[k] = w[IF k < i THEN k ELSE k + 1]
    BY <1>3, <1>4, <2>2, WithoutIs
  <2>4. \A k \in 1..L - 1 : Without(w, i)[k] = Msg(c[IF k < i THEN k ELSE k + 1])
    BY <1>11, <2>2, <2>3
  <2>5. Without(w, i) = [k \in 1..L - 1 |-> Without(w, i)[k]]
    BY <1>4, <2>3
  <2>6. \A k \in 1..L - 1 : Msg(Chain[k])' = Without(w, i)[k]
    BY <1>16, <2>4
  <2>7. Waiting' = Without(w, i)
    BY <1>15, <2>5, <2>6, Zenon
  <2>8. QED
    BY <2>7 DEF w
<1>18. /\ i \in DOMAIN Waiting /\ Waiting[i] = Letter(t) /\ Waiting[i].to = mcall[t].to
       /\ \A j \in 1..i - 1 : Waiting[j].to # mcall[t].to
  <2>1. \A j \in 1..i : j \in 1..L
    BY <1>3, <1>4
  <2>2. Waiting[i] = Msg(temp) /\ \A j \in 1..i - 1 : Waiting[j] = Msg(Chain[j])
    BY <1>3, <1>4, <1>5, <1>14, <2>1
  <2>3. \A j \in 1..i - 1 : Msg(Chain[j]).to # mcall[t].to
    BY <1>3 DEF Msg
  <2>4. i \in DOMAIN Waiting
    BY <1>14, <2>1
  <2>5. Letter(t).to = mcall[t].to
    BY DEF Letter
  <2>6. Waiting[i] = Letter(t)
    BY <1>1, <2>2
  <2>7. \A j \in 1..i - 1 : Waiting[j].to # mcall[t].to
    BY <2>2, <2>3
  <2>8. QED
    BY <2>4, <2>5, <2>6, <2>7
<1>19. Post!Receive(mcall[t].to)
  BY <1>2, <1>17, <1>18 DEF Post!Receive, Without
<1>20. QED
  BY <1>1, <1>12, <1>13, <1>19 DEF OrderInv

-----------------------------------------------------------------------------
\* Every step is one of the mailbox or invisible.
LEMMA OrderStep ==
  ASSUME NEW t, OneTask(t), OrderInv(t), [MsgNext]_msgVars
  PROVE  OrderInv(t)' /\ [Post!Next]_<<Waiting, handed>>
<1>1. MailInv(t)'
  BY MailStep DEF OrderInv
<1>2. CASE MsgNext
  <2>1. PICK u \in MsgTasks :
          \/ \E l \in Letters : csc452_send_msg(u, l)
          \/ \E w \in Users : csc452_get_msg(u, w)
          \/ FirstNode(u) \/ FillFirst(u)
          \/ NewNode(u) \/ CopyIn(u) \/ Walk(u) \/ Link(u) \/ EndList(u)
          \/ Scan(u) \/ Unlink(u) \/ Kfree(u) \/ NoMessage(u)
    BY <1>2 DEF MsgNext
  <2>2. u = t
    BY DEF OneTask
  <2>3. CASE FillFirst(t) \/ Link(t)
    BY <1>1, <2>3, FillFirstOrdered, LinkOrdered DEF Post!Next
  <2>4. CASE Unlink(t)
    BY <1>1, <2>4, UnlinkOrdered DEF Post!Next
  <2>5. CASE \/ \E l \in Letters : csc452_send_msg(t, l)
             \/ \E w \in Users : csc452_get_msg(t, w)
    BY <1>1, <2>5, SendBeginsOrdered, GetBeginsOrdered
  <2>6. CASE FirstNode(t) \/ NewNode(t) \/ CopyIn(t) \/ Walk(t) \/ EndList(t)
    BY <1>1, <2>6, FirstNodeOrdered, NewNodeOrdered, CopyInOrdered, WalkOrdered, EndListOrdered
  <2>7. CASE Scan(t) \/ Kfree(t) \/ NoMessage(t)
    BY <1>1, <2>7, ScanOrdered, KfreeOrdered, NoMessageOrdered
  <2>8. QED
    BY <2>1, <2>2, <2>3, <2>4, <2>5, <2>6, <2>7
<1>3. CASE UNCHANGED msgVars
  <2>1. UNCHANGED <<head, node, allocated, mcall, handed>>
    BY <1>3 DEF msgVars
  <2>2. Nexts' = Nexts /\ Live(t)' = Live(t) /\ Letter(t)' = Letter(t)
    BY <2>1 DEF Nexts, Live, Letter
  <2>3. Chain' = Chain /\ ChainInv(t)'
    BY <2>1, <2>2, ChainStays DEF OrderInv, ChainInv
  <2>4. \A i \in 1..Len(Chain) : Msg(Chain[i])' = Msg(Chain[i])
    BY <2>1, <2>3 DEF Msg
  <2>5. Waiting' = Waiting
    BY <2>1, <2>3, <2>4, WaitingStays
  <2>6. SendOrder(t)' /\ GetOrder(t)'
    BY <2>1, <2>2, <2>3 DEF SendOrder, GetOrder, OrderInv, Msg
  <2>7. QED
    BY <1>1, <2>1, <2>3, <2>5, <2>6 DEF OrderInv
<1>4. QED
  BY <1>2, <1>3

LEMMA OrderStart ==
  ASSUME NEW t, OneTask(t), MsgInit
  PROVE  OrderInv(t) /\ Post!Init
<1>1. head = NULL /\ mcall[t].pc = "idle" /\ handed = Post!NoMail
  BY DEF MsgInit, OneTask, MsgIdle, Post!NoMail
<1>2. Path(<<>>, head, Nexts)
  BY <1>1 DEF Path
<1>3. Chain = <<>>
  BY <1>2, ChainIsNow
<1>4. ChainInv(t)
  BY <1>2, <1>3 DEF ChainInv
<1>5. Waiting = <<>>
  <2>1. Waiting = [i \in 1..Len(Chain) |-> Msg(Chain[i])]
    BY <1>1, <1>4, WaitingIs DEF ChainInv
  <2>2. Len(Chain) = 0
    BY <1>3
  <2>3. QED
    BY <2>1, <2>2
<1>6. SendOrder(t) /\ GetOrder(t)
  BY <1>1 DEF SendOrder, GetOrder
<1>7. QED
  BY <1>1, <1>4, <1>5, <1>6, MailStart DEF OrderInv, Post!Init

(***************************************************************************)
(* One task, memory that kmalloc clears, any messages and any amount of    *)
(* memory: csc452_send_msg and csc452_get_msg implement the mailbox, so a  *)
(* message is handed out once, to its addressee, in the order of sending.  *)
(***************************************************************************)
THEOREM MailIsDelivered ==
  ASSUME NEW t, OneTask(t)
  PROVE  MsgSpec => ImplementsMailbox
<1>1. MsgInit => OrderInv(t) /\ Post!Init
  BY OrderStart
<1>2. OrderInv(t) /\ [MsgNext]_msgVars => OrderInv(t)' /\ [Post!Next]_<<Waiting, handed>>
  BY OrderStep
<1>3. QED
  BY <1>1, <1>2, PTL DEF MsgSpec, ImplementsMailbox, Post!Spec

-----------------------------------------------------------------------------
\* How often a message is in a sequence.
Count(w, l) == Cardinality({i \in DOMAIN w : w[i] = l})

LEMMA CountFits ==
  ASSUME NEW T, NEW w \in Seq(T), NEW l
  PROVE  Count(w, l) \in Nat /\ IsFiniteSet({i \in 1..Len(w) : w[i] = l}) /\ DOMAIN w = 1..Len(w)
<1>1. 1 \in Int /\ Len(w) \in Int /\ DOMAIN w = 1..Len(w)
  OBVIOUS
<1>2. IsFiniteSet(1..Len(w))
  BY <1>1, FS_Interval
<1>3. {i \in 1..Len(w) : w[i] = l} \in SUBSET (1..Len(w))
  OBVIOUS
<1>4. IsFiniteSet({i \in 1..Len(w) : w[i] = l})
  BY <1>2, <1>3, FS_Subset
<1>5. QED
  BY <1>1, <1>4, FS_CardinalityType DEF Count

LEMMA CountAppend ==
  ASSUME NEW T, NEW w \in Seq(T), NEW x \in T, NEW l
  PROVE  Count(Append(w, x), l) = IF x = l THEN Count(w, l) + 1 ELSE Count(w, l)
<1> DEFINE L == Len(w)
           v == Append(w, x)
           S == {i \in 1..L : w[i] = l}
<1>1. /\ L \in Nat /\ DOMAIN w = 1..L /\ DOMAIN v = 1..L + 1 /\ v[L + 1] = x
      /\ \A i \in 1..L : v[i] = w[i]
  OBVIOUS
<1>2. IsFiniteSet(S) /\ Count(w, l) = Cardinality(S)
  BY <1>1, CountFits DEF Count
<1>3. \A i \in 1..L + 1 : i = L + 1 \/ i \in 1..L
  BY <1>1
<1>4. Count(v, l) = Cardinality({i \in 1..L + 1 : v[i] = l})
  BY <1>1 DEF Count
<1>5. {i \in 1..L + 1 : v[i] = l} = IF x = l THEN S \cup {L + 1} ELSE S
  <2> HIDE DEF v, L
  <2>1. L + 1 \in 1..L + 1 /\ \A i \in 1..L : i \in 1..L + 1
    BY <1>1
  <2>2. QED
    BY <1>1, <1>3, <2>1
<1>6. L + 1 \notin S
  BY <1>1
<1> HIDE DEF S, v, L
<1>7. Cardinality(S \cup {L + 1}) = Cardinality(S) + 1
  BY <1>2, <1>6, FS_AddElement
<1>8. QED
  BY <1>2, <1>4, <1>5, <1>7 DEF v

LEMMA CountWithout ==
  ASSUME NEW T, NEW w \in Seq(T), NEW i \in 1..Len(w), NEW l
  PROVE  Count(Without(w, i), l) = IF w[i] = l THEN Count(w, l) - 1 ELSE Count(w, l)
<1> DEFINE L == Len(w)
           v == Without(w, i)
           S == {k \in 1..L : w[k] = l}
           R == {k \in 1..L - 1 : v[k] = l}
           up(k) == IF k < i THEN k ELSE k + 1
           f == [k \in R |-> up(k)]
<1>1. L \in Nat /\ i \in 1..L /\ DOMAIN w = 1..L
  OBVIOUS
<1>2. v \in Seq(T) /\ Len(v) = L - 1 /\ \A k \in 1..L - 1 : v[k] = w[up(k)]
  BY WithoutIs
<1>3. IsFiniteSet(S) /\ Count(w, l) = Cardinality(S)
  BY <1>1, CountFits DEF Count
<1>4. IsFiniteSet(R) /\ Count(v, l) = Cardinality(R)
  <2> HIDE DEF v
  <2>1. DOMAIN v = 1..L - 1 /\ IsFiniteSet({k \in 1..Len(v) : v[k] = l})
    BY <1>2, CountFits
  <2>2. QED
    BY <1>2, <2>1 DEF Count
<1>5. \A k \in 1..L - 1 : up(k) \in 1..L /\ up(k) # i
  BY <1>1
<1>6. \A j, k \in R : up(j) = up(k) => j = k
  BY <1>1
<1>7. \A k \in S \ {i} : \E j \in R : up(j) = k
  <2> SUFFICES ASSUME NEW k \in S \ {i} PROVE \E j \in R : up(j) = k
    OBVIOUS
  <2>1. CASE k < i
    <3>1. k \in 1..L - 1 /\ up(k) = k
      BY <1>1, <2>1
    <3>2. QED
      BY <1>2, <3>1
  <2>2. CASE ~(k < i)
    <3>1. k - 1 \in 1..L - 1 /\ up(k - 1) = k
      BY <1>1, <2>2
    <3>2. QED
      BY <1>2, <3>1
  <2>3. QED
    BY <2>1, <2>2
<1>8. \A k \in R : up(k) \in S \ {i}
  BY <1>2, <1>5
<1> HIDE DEF up, R, S, L, v
<1>9. f \in Bijection(R, S \ {i})
  <2>1. f \in [R -> S \ {i}]
    BY <1>8
  <2>2. \A j, k \in R : f[j] = f[k] => j = k
    BY <1>6
  <2>3. \A k \in S \ {i} : \E j \in R : f[j] = k
    BY <1>7
  <2> HIDE DEF f
  <2>4. QED
    BY <2>1, <2>2, <2>3 DEF Bijection, Injection, IsInjective, Surjection
<1>10. Cardinality(S \ {i}) = Cardinality(R)
  <2> HIDE DEF f
  <2>1. ExistsBijection(R, S \ {i})
    BY <1>9 DEF ExistsBijection
  <2>2. QED
    BY <1>4, <2>1, FS_Bijection
<1>11. Cardinality(S \ {i}) = IF i \in S THEN Cardinality(S) - 1 ELSE Cardinality(S)
  BY <1>3, FS_RemoveElement
<1>12. i \in S <=> w[i] = l
  BY <1>1 DEF S
<1>13. QED
  BY <1>3, <1>4, <1>10, <1>11, <1>12 DEF v

-----------------------------------------------------------------------------
(***************************************************************************)
(* The account of the messages: those owed are those that wait, but for    *)
(* the one of a send that has linked it and not yet returned.              *)
(***************************************************************************)
Ahead(t, l) == IF mcall[t].pc = "end" /\ Letter(t) = l THEN 1 ELSE 0

OwedInv(t) ==
  /\ OrderInv(t)
  /\ owed \in [Letters -> Int]
  /\ \A l \in Letters : owed[l] = Count(Waiting, l) - Ahead(t, l)

LEMMA WaitingIsSeq ==
  ASSUME NEW t, OneTask(t), OrderInv(t)
  PROVE  Waiting \in Seq({Msg(n) : n \in Nodes})
<1>1. Waiting = IF mcall[t].pc = "fill" THEN <<>> ELSE [i \in 1..Len(Chain) |-> Msg(Chain[i])]
  BY WaitingIs DEF OrderInv, ChainInv
<1>2. Len(Chain) \in Nat /\ \A i \in 1..Len(Chain) : Msg(Chain[i]) \in {Msg(n) : n \in Nodes}
  BY ChainNodes
<1>3. QED
  BY <1>1, <1>2

\* Where the other steps lead, and that they leave the account alone.
LEMMA OtherSteps ==
  ASSUME NEW t, OneTask(t), OrderInv(t),
         \/ \E l \in Letters : csc452_send_msg(t, l)
         \/ \E u \in Users : csc452_get_msg(t, u)
         \/ FirstNode(t) \/ NewNode(t) \/ CopyIn(t) \/ Walk(t)
         \/ Scan(t) \/ Kfree(t) \/ NoMessage(t)
  PROVE  owed' = owed /\ mcall[t].pc # "end" /\ mcall'[t].pc # "end"
<1>1. MailInv(t) /\ \A r : Goto(t, r) => mcall'[t] = r
  BY Went DEF OrderInv, MailInv
<1>2. MsgIdle.pc # "end"
  BY DEF MsgIdle
<1>3. CASE \/ \E l \in Letters : csc452_send_msg(t, l)
           \/ \E u \in Users : csc452_get_msg(t, u)
           \/ NoMessage(t)
  <2>1. CASE \E l \in Letters : csc452_send_msg(t, l)
    BY <1>1, <1>2, <2>1 DEF csc452_send_msg
  <2>2. CASE \E u \in Users : csc452_get_msg(t, u)
    BY <1>1, <1>2, <2>2 DEF csc452_get_msg
  <2>3. CASE NoMessage(t)
    BY <1>1, <1>2, <2>3 DEF NoMessage
  <2>4. QED
    BY <1>3, <2>1, <2>2, <2>3
<1>4. CASE FirstNode(t) \/ NewNode(t) \/ CopyIn(t) \/ Walk(t)
  <2>1. owed' = owed /\ mcall[t].pc \in {"first", "new", "copy", "walk"} /\ SendInv(t)
    BY <1>1, <1>4, CallOf DEF FirstNode, NewNode, CopyIn, Walk, Oops
  <2>2. \A pc : At(t, pc) = [pc |-> pc, to |-> mcall[t].to, msg |-> mcall[t].msg,
                             temp |-> mcall[t].temp, mine |-> mcall[t].mine]
    BY <2>1, SendGoesOn
  <2>3. At(t, "fill").pc # "end" /\ At(t, "link").pc # "end"
    BY <2>2
  <2>4. CASE FirstNode(t)
    <3>1. Goto(t, At(t, "fill")) \/ Goto(t, MsgIdle)
      BY <2>4 DEF FirstNode
    <3>2. mcall'[t] = At(t, "fill") \/ mcall'[t] = MsgIdle
      BY <1>1, <3>1
    <3>3. QED
      BY <1>2, <2>1, <2>3, <3>2
  <2>5. CASE NewNode(t)
    <3>1. (\E n \in Nodes : Goto(t, [At(t, "copy") EXCEPT !.mine = n])) \/ Goto(t, MsgIdle)
      BY <2>5, Zenon DEF NewNode
    <3>2. (\E n \in Nodes : mcall'[t] = [At(t, "copy") EXCEPT !.mine = n]) \/ mcall'[t] = MsgIdle
      BY <1>1, <3>1
    <3>3. ASSUME NEW n, mcall'[t] = [At(t, "copy") EXCEPT !.mine = n] PROVE mcall'[t].pc = "copy"
      BY <2>1, <3>3, SendGoesOn
    <3>4. QED
      BY <1>2, <2>1, <3>2, <3>3
  <2>6. CASE CopyIn(t)
    <3>1. mcall'[t] = [At(t, "walk") EXCEPT !.temp = head]
      BY <1>1, <2>6 DEF CopyIn
    <3>2. mcall'[t].pc = "walk"
      BY <2>1, <3>1, SendGoesOn
    <3>3. QED
      BY <2>1, <3>2
  <2>7. CASE Walk(t)
    <3>1. mcall[t].temp # NULL
      <4>1. mcall[t].pc = "walk" /\ \E i \in 1..Len(Chain) : mcall[t].temp = Chain[i]
        BY <2>7 DEF Walk, OrderInv, SendOrder
      <4>2. QED
        BY <4>1, ChainNodes
    <3>2. \/ Goto(t, At(t, "link"))
          \/ Goto(t, [At(t, "walk") EXCEPT !.temp = node[mcall[t].temp].next])
      BY <2>7, <3>1, Zenon DEF Walk
    <3>3. \/ mcall'[t] = At(t, "link")
          \/ mcall'[t] = [At(t, "walk") EXCEPT !.temp = node[mcall[t].temp].next]
      BY <1>1, <3>2
    <3>4. mcall'[t].pc \in {"link", "walk"}
      BY <2>1, <3>3, SendGoesOn
    <3>5. QED
      BY <2>1, <3>4
  <2>8. QED
    BY <1>4, <2>4, <2>5, <2>6, <2>7
<1>5. CASE Scan(t) \/ Kfree(t)
  <2>1. owed' = owed /\ mcall[t].pc \in {"scan", "free"} /\ GetInv(t)
    BY <1>1, <1>5, CallOf DEF Scan, Kfree
  <2>2. \A pc : At(t, pc) = [pc |-> pc, to |-> mcall[t].to, msg |-> mcall[t].msg,
                             temp |-> mcall[t].temp, before |-> mcall[t].before]
    BY <2>1, GetGoesOn
  <2>4. CASE Scan(t)
    <3> DEFINE temp == mcall[t].temp
               z == At(t, "scan")
               q == [z EXCEPT !.before = temp, !.temp = node[temp].next]
    <3>1. Goto(t, At(t, "none")) \/ Goto(t, [At(t, "unlink") EXCEPT !.msg = node[temp].msg]) \/ Goto(t, q)
      BY <2>4, Zenon DEF Scan
    <3>2. mcall'[t] = At(t, "none") \/ mcall'[t] = [At(t, "unlink") EXCEPT !.msg = node[temp].msg] \/ mcall'[t] = q
      BY <1>1, <3>1
    <3>3. /\ z = [pc |-> "scan", to |-> mcall[t].to, msg |-> mcall[t].msg,
                  temp |-> mcall[t].temp, before |-> mcall[t].before]
          /\ q = [z EXCEPT !.before = temp, !.temp = node[temp].next]
      BY <2>2
    <3>4. At(t, "none").pc = "none" /\ [At(t, "unlink") EXCEPT !.msg = node[temp].msg].pc = "unlink"
      BY <2>2
    <3> HIDE DEF z, q
    <3>5. q.pc = "scan"
      <4> HIDE DEF temp
      <4>1. q = [pc |-> "scan", to |-> mcall[t].to, msg |-> mcall[t].msg, temp |-> node[temp].next, before |-> temp]
        BY <3>3, GetMoved
      <4>2. QED
        BY <4>1
    <3>6. QED
      BY <2>1, <3>2, <3>4, <3>5
  <2>5. CASE Kfree(t)
    <3> DEFINE pc == IF head = NULL THEN "none" ELSE "scan"
               z == At(t, pc)
    <3>1. mcall'[t] = [z EXCEPT !.temp = head, !.before = head]
      BY <1>1, <2>5 DEF Kfree
    <3>2. z = [pc |-> pc, to |-> mcall[t].to, msg |-> mcall[t].msg,
               temp |-> mcall[t].temp, before |-> mcall[t].before]
      BY <2>2
    <3>3. pc # "end"
      OBVIOUS
    <3> HIDE DEF z, pc
    <3>4. mcall'[t] = [pc |-> pc, to |-> mcall[t].to, msg |-> mcall[t].msg, temp |-> head, before |-> head]
      BY <3>1, <3>2, GetMoved
    <3>5. QED
      BY <2>1, <3>3, <3>4
  <2>6. QED
    BY <1>5, <2>4, <2>5
<1>6. QED
  BY <1>3, <1>4, <1>5

\* What a step does to the account.
LEMMA OwedMoves ==
  ASSUME owed \in [Letters -> Int], NEW x,
         owed' = [owed EXCEPT ![x] = @ + 1] \/ owed' = [owed EXCEPT ![x] = @ - 1]
  PROVE  /\ owed' \in [Letters -> Int]
         /\ owed' = [owed EXCEPT ![x] = @ + 1] =>
              \A l \in Letters : owed'[l] = IF x = l THEN owed[l] + 1 ELSE owed[l]
         /\ owed' = [owed EXCEPT ![x] = @ - 1] =>
              \A l \in Letters : owed'[l] = IF x = l THEN owed[l] - 1 ELSE owed[l]
<1>1. CASE x \in Letters
  BY <1>1
<1>2. CASE x \notin Letters
  BY <1>2
<1>3. QED
  BY <1>1, <1>2

\* The account after a step that makes the mailbox v.
LEMMA OwedThen ==
  ASSUME NEW t, NEW v, OrderInv(t)', Waiting' = v, owed' \in [Letters -> Int],
         \A l \in Letters : owed'[l] = Count(v, l) - Ahead(t, l)'
  PROVE  OwedInv(t)'
<1>1. \A l : Count(Waiting, l)' = Count(v, l)
  BY DEF Count
<1>2. \A l \in Letters : owed'[l] = Count(Waiting, l)' - Ahead(t, l)'
  BY <1>1
<1>3. QED
  BY <1>2 DEF OwedInv

\* The account is kept.
LEMMA OwedStep ==
  ASSUME NEW t, OneTask(t), OwedInv(t), [MsgNext]_msgVars
  PROVE  OwedInv(t)'
<1>1. OrderInv(t) /\ OrderInv(t)' /\ MailInv(t)'
  BY OrderStep DEF OwedInv, OrderInv
<1>2. PICK w : w = Waiting
  OBVIOUS
<1>3. w \in Seq({Msg(n) : n \in Nodes})
  BY <1>1, <1>2, WaitingIsSeq
<1>4. PICK T : w \in Seq(T) /\ Letters \subseteq T
  <2>1. w \in Seq({Msg(n) : n \in Nodes} \cup Letters)
    BY <1>3
  <2>2. QED
    BY <2>1
<1>5. \A l \in Letters : Count(w, l) \in Nat /\ owed[l] = Count(w, l) - Ahead(t, l)
  BY <1>2, <1>4, CountFits DEF OwedInv
<1>6. owed \in [Letters -> Int]
  BY DEF OwedInv
<1>7. MailInv(t) /\ \A r : Goto(t, r) => mcall'[t] = r
  BY <1>1, Went DEF OrderInv, MailInv
<1>8. MsgIdle.pc # "end"
  BY DEF MsgIdle
<1>9. CASE FillFirst(t)
  <2>1. Post!Send(Letter(t)) /\ Letter(t) \in Letters
    BY <1>1, <1>9, FillFirstOrdered
  <2>2. PICK x \in Letters : x = Letter(t)
    BY <2>1
  <2>3. Waiting' = Append(w, x)
    BY <1>2, <2>1, <2>2 DEF Post!Send
  <2>4. mcall[t].pc = "fill" /\ owed' = [owed EXCEPT ![x] = @ + 1] /\ mcall'[t].pc # "end"
    BY <1>7, <1>8, <1>9, <2>2, CallOf DEF FillFirst, SendDone, SendInv
  <2>5. \A l \in Letters : Count(Append(w, x), l) = IF x = l THEN Count(w, l) + 1 ELSE Count(w, l)
    BY <1>4, CountAppend
  <2>6. \A l \in Letters : Ahead(t, l) = 0 /\ Ahead(t, l)' = 0
    BY <2>4 DEF Ahead
  <2>7. owed' \in [Letters -> Int] /\ \A l \in Letters : owed'[l] = IF x = l THEN owed[l] + 1 ELSE owed[l]
    BY <1>6, <2>4, OwedMoves
  <2>8. \A l \in Letters : owed'[l] = Count(Append(w, x), l) - Ahead(t, l)'
    BY <1>5, <2>5, <2>6, <2>7
  <2>9. QED
    BY <1>1, <2>3, <2>7, <2>8, OwedThen
<1>10. CASE Link(t)
  <2>1. Post!Send(Letter(t)) /\ Letter(t) \in Letters
    BY <1>1, <1>10, LinkOrdered
  <2>2. PICK x \in Letters : x = Letter(t)
    BY <2>1
  <2>3. Waiting' = Append(w, x)
    BY <1>2, <2>1, <2>2 DEF Post!Send
  <2>4. mcall[t].pc = "link" /\ owed' = owed /\ mcall'[t] = At(t, "end") /\ SendInv(t)
    BY <1>7, <1>10, CallOf DEF Link
  <2>5. mcall'[t].pc = "end" /\ Letter(t)' = Letter(t)
    BY <2>4, SendGoesOn DEF Letter
  <2>6. \A l \in Letters : Count(Append(w, x), l) = IF x = l THEN Count(w, l) + 1 ELSE Count(w, l)
    BY <1>4, CountAppend
  <2>7. \A l \in Letters : Ahead(t, l) = 0 /\ Ahead(t, l)' = IF x = l THEN 1 ELSE 0
    BY <2>2, <2>4, <2>5 DEF Ahead
  <2>8. \A l \in Letters : owed'[l] = Count(Append(w, x), l) - Ahead(t, l)'
    BY <1>5, <2>4, <2>6, <2>7
  <2>9. QED
    BY <1>1, <1>6, <2>3, <2>4, <2>8, OwedThen
<1>11. CASE EndList(t)
  <2>1. Waiting' = w
    BY <1>1, <1>2, <1>11, EndListOrdered
  <2>2. PICK x : x = Letter(t)
    OBVIOUS
  <2>3. mcall[t].pc = "end" /\ owed' = [owed EXCEPT ![x] = @ + 1] /\ mcall'[t].pc # "end"
    BY <1>7, <1>8, <1>11, <2>2 DEF EndList, SendDone
  <2>4. \A l \in Letters : Ahead(t, l)' = 0 /\ Ahead(t, l) = IF x = l THEN 1 ELSE 0
    BY <2>2, <2>3 DEF Ahead
  <2>5. owed' \in [Letters -> Int] /\ \A l \in Letters : owed'[l] = IF x = l THEN owed[l] + 1 ELSE owed[l]
    BY <1>6, <2>3, OwedMoves
  <2>6. \A l \in Letters : owed'[l] = Count(w, l) - Ahead(t, l)'
    BY <1>5, <2>4, <2>5
  <2>7. QED
    BY <1>1, <2>1, <2>5, <2>6, OwedThen
<1>12. CASE Unlink(t)
  <2>1. Post!Receive(mcall[t].to) /\ handed' = Letter(t)
    BY <1>1, <1>12, UnlinkOrdered DEF Unlink
  <2>2. PICK i \in DOMAIN w : w[i] = Letter(t) /\ Waiting' = Without(w, i)
    BY <1>2, <2>1 DEF Post!Receive, Without
  <2>3. PICK x : x = Letter(t)
    OBVIOUS
  <2>4. mcall[t].pc = "unlink" /\ GetInv(t) /\ mcall'[t] = At(t, "free") /\ owed' = [owed EXCEPT ![x] = @ - 1]
    BY <1>7, <1>12, <2>3, CallOf DEF Unlink
  <2>5. mcall'[t].pc = "free"
    BY <2>4, GetGoesOn
  <2>6. \A l \in Letters : Ahead(t, l)' = 0 /\ Ahead(t, l) = 0
    BY <2>4, <2>5 DEF Ahead
  <2>7. i \in 1..Len(w) /\ w[i] = x
    BY <1>4, <2>2, <2>3, CountFits
  <2>8. \A l \in Letters : Count(Without(w, i), l) = IF x = l THEN Count(w, l) - 1 ELSE Count(w, l)
    BY <1>4, <2>7, CountWithout
  <2>9. owed' \in [Letters -> Int] /\ \A l \in Letters : owed'[l] = IF x = l THEN owed[l] - 1 ELSE owed[l]
    BY <1>6, <2>4, OwedMoves
  <2>10. \A l \in Letters : owed'[l] = Count(Without(w, i), l) - Ahead(t, l)'
    BY <1>5, <2>6, <2>8, <2>9
  <2>11. PICK v : v = Without(w, i)
    OBVIOUS
  <2>12. QED
    BY <1>1, <2>2, <2>9, <2>10, <2>11, OwedThen
<1>13. CASE \/ \E l \in Letters : csc452_send_msg(t, l)
            \/ \E u \in Users : csc452_get_msg(t, u)
            \/ FirstNode(t) \/ NewNode(t) \/ CopyIn(t) \/ Walk(t)
            \/ Scan(t) \/ Kfree(t) \/ NoMessage(t)
  <2>1. Waiting' = w
    BY <1>1, <1>2, <1>13, SendBeginsOrdered, GetBeginsOrdered, FirstNodeOrdered, NewNodeOrdered,
       CopyInOrdered, WalkOrdered, ScanOrdered, KfreeOrdered, NoMessageOrdered
  <2>2. owed' = owed /\ mcall[t].pc # "end" /\ mcall'[t].pc # "end"
    BY <1>1, <1>13, OtherSteps
  <2>3. \A l \in Letters : Ahead(t, l)' = 0 /\ Ahead(t, l) = 0
    BY <2>2 DEF Ahead
  <2>4. QED
    BY <1>1, <1>5, <1>6, <2>1, <2>2, <2>3, OwedThen
<1>14. CASE UNCHANGED msgVars
  <2>1. UNCHANGED <<head, node, allocated, mcall, handed, owed>>
    BY <1>14 DEF msgVars
  <2>2. Waiting' = w
    <3>1. Nexts' = Nexts /\ Live(t)' = Live(t)
      BY <2>1 DEF Nexts, Live
    <3>2. Chain' = Chain /\ ChainInv(t)'
      BY <1>1, <2>1, <3>1, ChainStays DEF OrderInv, ChainInv
    <3>3. \A i \in 1..Len(Chain) : Msg(Chain[i])' = Msg(Chain[i])
      BY <2>1, <3>2 DEF Msg
    <3>4. QED
      BY <1>1, <1>2, <2>1, <3>2, <3>3, WaitingStays
  <2>3. \A l \in Letters : Ahead(t, l)' = Ahead(t, l)
    BY <2>1 DEF Ahead, Letter
  <2>4. QED
    BY <1>1, <1>5, <1>6, <2>1, <2>2, <2>3, OwedThen
<1>15. QED
  <2>1. CASE MsgNext
    <3>1. PICK u \in MsgTasks :
            \/ \E l \in Letters : csc452_send_msg(u, l)
            \/ \E w1 \in Users : csc452_get_msg(u, w1)
            \/ FirstNode(u) \/ FillFirst(u)
            \/ NewNode(u) \/ CopyIn(u) \/ Walk(u) \/ Link(u) \/ EndList(u)
            \/ Scan(u) \/ Unlink(u) \/ Kfree(u) \/ NoMessage(u)
      BY <2>1 DEF MsgNext
    <3>2. u = t
      BY DEF OneTask
    <3>3. QED
      BY <1>9, <1>10, <1>11, <1>12, <1>13, <3>1, <3>2
  <2>2. QED
    BY <1>14, <2>1

(***************************************************************************)
(* One task, memory that kmalloc clears: between the calls of osmsg the    *)
(* list holds exactly the messages reported as sent and not yet received.  *)
(* With two tasks the statement is false (messages_race).                  *)
(***************************************************************************)
THEOREM MailIsConserved ==
  ASSUME NEW t, OneTask(t)
  PROVE  MsgSpec => []MailConserved
<1>1. ASSUME MsgInit PROVE OwedInv(t)
  <2>1. OrderInv(t) /\ Waiting = <<>>
    BY <1>1, OrderStart DEF Post!Init
  <2>2. mcall[t].pc = "idle" /\ owed = [l \in Letters |-> 0]
    BY <1>1 DEF MsgInit, OneTask, MsgIdle
  <2>3. \A l \in Letters : Count(Waiting, l) = 0
    <3>1. \A l : {i \in DOMAIN <<>> : (<<>>)[i] = l} = {}
      OBVIOUS
    <3>2. QED
      BY <2>1, <3>1, FS_EmptySet DEF Count
  <2>4. QED
    BY <2>1, <2>2, <2>3 DEF OwedInv, Ahead
<1>2. OwedInv(t) /\ [MsgNext]_msgVars => OwedInv(t)'
  BY OwedStep
<1>3. ASSUME OwedInv(t) PROVE MailConserved
  <2> SUFFICES ASSUME MsgQuiet
               PROVE  \A l \in Letters : owed[l] = Count(OnList, l)
    BY Zenon DEF MailConserved, Count
  <2>1. mcall[t].pc = "idle"
    BY DEF MsgQuiet, OneTask, MsgIdle
  <2>2. Waiting = OnList
    BY <2>1 DEF Waiting, OneTask
  <2>3. Waiting \in Seq({Msg(n) : n \in Nodes})
    BY <1>3, WaitingIsSeq DEF OwedInv
  <2>4. \A l \in Letters : Count(Waiting, l) \in Nat /\ Ahead(t, l) = 0
    BY <2>1, <2>3, CountFits DEF Ahead
  <2>5. QED
    BY <1>3, <2>2, <2>4 DEF OwedInv
<1>4. QED
  BY <1>1, <1>2, <1>3, PTL DEF MsgSpec
=============================================================================
