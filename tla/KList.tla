------------------------------- MODULE KList -------------------------------
(***************************************************************************)
(* The pointers of kernel/tools/klist.c: one list, one action per          *)
(* assignment to it.  Two contexts use the list: task code, and an         *)
(* interrupt handler that runs to completion on top of it.  With           *)
(* Protected = TRUE                                                        *)
(* the task brackets its operation with irq_enter_protection and           *)
(* irq_leave_protection, so the handler waits for its end; with FALSE it   *)
(* does not, as in task_init (core/task.c:43-44).                          *)
(***************************************************************************)
EXTENDS Integers, FiniteSets, FiniteSetsExt, Sequences

CONSTANTS
    Nodes,      \* list nodes that are not sentinels
    HeadNode,   \* &list->head
    TailNode,   \* &list->tail
    Null,       \* NULL
    Contexts,   \* the contexts that use the list
    Handler,    \* the one of them that is the interrupt handler
    Protected   \* operations of the task are bracketed

\* The nodes and the sentinels of a list are distinct, there are finitely many,
\* and two contexts use it.
ListNodes ==
    /\ Null \notin Nodes \cup {HeadNode, TailNode}
    /\ HeadNode \notin Nodes /\ TailNode \notin Nodes /\ HeadNode # TailNode
    /\ IsFiniteSet(Nodes)
    /\ \E task \in Contexts : task # Handler /\ Contexts = {task, Handler}
    /\ Protected \in BOOLEAN

VARIABLES
    next,   \* klist_node_t.next of every node
    prev,   \* klist_node_t.prev of every node
    len,    \* kdouble_list_t.len
    pc,     \* the next assignment of a context's operation, "idle" outside
    node,   \* the argument of the operation
    temp,   \* the variable temp of klist_remove
    pre     \* the variable pre of klist_remove

vars == <<next, prev, len, pc, node, temp, pre>>

Sentinels == {HeadNode, TailNode}
Linkable == Nodes \cup Sentinels

-----------------------------------------------------------------------------
\* klist_init of the list and klist_node_init of the nodes.
Init ==
    /\ next = [n \in Linkable |-> IF n = HeadNode THEN TailNode ELSE Null]
    /\ prev = [n \in Linkable |-> IF n = TailNode THEN HeadNode ELSE Null]
    /\ len = 0
    /\ pc = [c \in Contexts |-> "idle"]
    /\ node = [c \in Contexts |-> Null]
    /\ temp = [c \in Contexts |-> Null]
    /\ pre = [c \in Contexts |-> Null]

\* The k-th node from the head sentinel along next, up to the number of nodes.
Along[k \in 0..(Cardinality(Nodes) + 1)] ==
    IF k = 0 THEN HeadNode
    ELSE IF Along[k - 1] \in Linkable THEN next[Along[k - 1]] ELSE Null

TailAt == {k \in DOMAIN Along : Along[k] = TailNode}

\* The nodes a walk from the head meets before the tail sentinel.
Chain == IF TailAt = {} THEN <<TailNode>>
         ELSE [k \in 1..(Min(TailAt) - 1) |-> Along[k]]

Linked == {Chain[k] : k \in DOMAIN Chain}

-----------------------------------------------------------------------------
\* Context c can start an operation: it is in none, the handler has not
\* interrupted it, and the handler finds interrupts enabled.
MayStart(c) ==
    /\ pc[c] = "idle"
    /\ IF c = Handler
       THEN Protected => \A d \in Contexts : pc[d] = "idle"
       ELSE pc[Handler] = "idle"

\* The task's next assignment runs only when the handler is done.
At(c, label) == pc[c] = label /\ (c # Handler => pc[Handler] = "idle")

\* A node that no context is working on.
Idle(n) == \A c \in Contexts : node[c] # n

\* A context calls klist_append or klist_push with a node that is on no list,
\* or klist_remove with any node.
Call(c, n, label) ==
    /\ MayStart(c) /\ Idle(n)
    /\ label # "find" => n \notin Linked
    /\ pc' = [pc EXCEPT ![c] = label]
    /\ node' = [node EXCEPT ![c] = n]
    /\ temp' = [temp EXCEPT ![c] = IF label = "find" THEN next[HeadNode] ELSE Null]
    /\ UNCHANGED <<next, prev, len, pre>>

\* Continue at another label.
Goto(c, label) == pc' = [pc EXCEPT ![c] = label]

\* Return from the operation: its local variables are gone.
Return(c) ==
    /\ Goto(c, "idle")
    /\ node' = [node EXCEPT ![c] = Null]
    /\ temp' = [temp EXCEPT ![c] = Null]
    /\ pre' = [pre EXCEPT ![c] = Null]

\* klist_append: node->next = &list->tail; node->prev = list->tail.prev;
AppendLink(c) ==
    /\ At(c, "append1") /\ Goto(c, "append2")
    /\ next' = [next EXCEPT ![node[c]] = TailNode]
    /\ prev' = [prev EXCEPT ![node[c]] = prev[TailNode]]
    /\ UNCHANGED <<len, node, temp, pre>>

\* list->tail.prev->next = node;
AppendForward(c) ==
    /\ At(c, "append2") /\ Goto(c, "append3")
    /\ next' = [next EXCEPT ![prev[TailNode]] = node[c]]
    /\ UNCHANGED <<prev, len, node, temp, pre>>

\* list->tail.prev = node;
AppendBackward(c) ==
    /\ At(c, "append3") /\ Goto(c, "count")
    /\ prev' = [prev EXCEPT ![TailNode] = node[c]]
    /\ UNCHANGED <<next, len, node, temp, pre>>

\* klist_push: node->prev = &list->head; node->next = list->head.next;
PushLink(c) ==
    /\ At(c, "push1") /\ Goto(c, "push2")
    /\ prev' = [prev EXCEPT ![node[c]] = HeadNode]
    /\ next' = [next EXCEPT ![node[c]] = next[HeadNode]]
    /\ UNCHANGED <<len, node, temp, pre>>

\* list->head.next->prev = node;
PushBackward(c) ==
    /\ At(c, "push2") /\ Goto(c, "push3")
    /\ prev' = [prev EXCEPT ![next[HeadNode]] = node[c]]
    /\ UNCHANGED <<next, len, node, temp, pre>>

\* list->head.next = node;
PushForward(c) ==
    /\ At(c, "push3") /\ Goto(c, "count")
    /\ next' = [next EXCEPT ![HeadNode] = node[c]]
    /\ UNCHANGED <<prev, len, node, temp, pre>>

\* list->len++; and the return.
CountUp(c) ==
    /\ At(c, "count") /\ Return(c)
    /\ len' = len + 1
    /\ UNCHANGED <<next, prev>>

\* klist_remove: the search loop.  NULL lies behind the tail sentinel.
RemoveFind(c) ==
    /\ At(c, "find") /\ temp[c] \notin {node[c], Null}
    /\ temp' = [temp EXCEPT ![c] = next[temp[c]]]
    /\ UNCHANGED <<next, prev, len, pc, node, pre>>

\* The search ends at NULL and klist_remove returns it.
RemoveNotFound(c) ==
    /\ At(c, "find") /\ temp[c] = Null
    /\ Return(c)
    /\ UNCHANGED <<next, prev, len>>

\* The node is found: pre = temp->prev; pre->next = temp->next;
RemoveForward(c) ==
    /\ At(c, "find") /\ temp[c] = node[c]
    /\ Goto(c, "unlink")
    /\ pre' = [pre EXCEPT ![c] = prev[temp[c]]]
    /\ next' = [next EXCEPT ![prev[temp[c]]] = next[temp[c]]]
    /\ UNCHANGED <<prev, len, node, temp>>

\* temp->next->prev = pre;
RemoveBackward(c) ==
    /\ At(c, "unlink") /\ Goto(c, "uncount")
    /\ prev' = [prev EXCEPT ![next[temp[c]]] = pre[c]]
    /\ UNCHANGED <<next, len, node, temp, pre>>

\* list->len--; and the return, in klist_remove and klist_pop.
CountDown(c) ==
    /\ At(c, "uncount") /\ Return(c)
    /\ len' = len - 1
    /\ UNCHANGED <<next, prev>>

\* klist_pop of a list that is not empty: node = list->head.next;
\* list->head.next->next->prev = &list->head;
PopBackward(c) ==
    /\ MayStart(c) /\ next[HeadNode] # TailNode /\ Idle(next[HeadNode])
    /\ Goto(c, "pop2")
    /\ node' = [node EXCEPT ![c] = next[HeadNode]]
    /\ prev' = [prev EXCEPT ![next[next[HeadNode]]] = HeadNode]
    /\ UNCHANGED <<next, len, temp, pre>>

\* list->head.next = list->head.next->next;
PopForward(c) ==
    /\ At(c, "pop2") /\ Goto(c, "uncount")
    /\ next' = [next EXCEPT ![HeadNode] = next[next[HeadNode]]]
    /\ UNCHANGED <<prev, len, node, temp, pre>>

Step(c) ==
    \/ AppendLink(c) \/ AppendForward(c) \/ AppendBackward(c)
    \/ PushLink(c) \/ PushBackward(c) \/ PushForward(c) \/ CountUp(c)
    \/ RemoveFind(c) \/ RemoveNotFound(c) \/ RemoveForward(c) \/ RemoveBackward(c) \/ CountDown(c)
    \/ PopBackward(c) \/ PopForward(c)

Next ==
    \E c \in Contexts :
        \/ \E n \in Nodes, label \in {"append1", "push1", "find"} : Call(c, n, label)
        \/ Step(c)

Spec == Init /\ [][Next]_vars

-----------------------------------------------------------------------------
Quiescent == \A c \in Contexts : pc[c] = "idle"

Labels == {"idle", "append1", "append2", "append3", "push1", "push2", "push3",
           "count", "find", "unlink", "uncount", "pop2"}

\* Every pointer of list.next, list.prev and of an operation's locals is a node,
\* a sentinel or NULL, and len never drops below 0.
TypeOK ==
    /\ next \in [Linkable -> Linkable \cup {Null}]
    /\ prev \in [Linkable -> Linkable \cup {Null}]
    /\ len \in Nat
    /\ pc \in [Contexts -> Labels]
    /\ node \in [Contexts -> Nodes \cup {Null}]
    /\ temp \in [Contexts -> Linkable \cup {Null}]
    /\ pre \in [Contexts -> Linkable \cup {Null}]

\* Outside an operation the list reads the same in both directions, every
\* node's successor points back at it from the head to the tail sentinel, so
\* that a removal relinks the right neighbours; and len is the number of nodes
\* a walk meets, whichever operations the task and the handler took turns in.
ListWellFormed ==
    /\ TypeOK
    /\ Quiescent =>
        /\ \A n \in Linked \cup {HeadNode} : prev[next[n]] = n
        /\ len = Cardinality(Linked)

\* The refinement mapping: the list is the nodes a walk from its head meets.
Abstract == INSTANCE KListSpec WITH list <- Chain

\* The linked list of klist.c behaves as a sequence: of the assignments of an
\* operation one changes the walk from the head, as the operation on sequences
\* does, and the others leave it as it is.
ListIsASequence == Abstract!Spec
=============================================================================
