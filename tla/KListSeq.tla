------------------------------ MODULE KListSeq ------------------------------
(***************************************************************************)
(* The intrusive doubly linked list of kernel/tools/klist.c, seen as the   *)
(* sequence of the nodes linked between its two sentinels head and tail.   *)
(* This is the view the scheduler works with; module KList models the      *)
(* pointers themselves and shows that each operation below is what the     *)
(* pointer assignments do when nothing interrupts them.                    *)
(*                                                                         *)
(* A node is on at most one list at a time, so a list has no repetition.   *)
(***************************************************************************)
EXTENDS Integers, Sequences, SequencesExt

\* klist_append: link the node in front of the tail sentinel.
klist_append(list, node) == Append(list, node)

\* klist_push: link the node behind the head sentinel.
klist_push(list, node) == <<node>> \o list

\* klist_remove: search from the head and unlink the node; a node that is
\* not found leaves the list as it was.
klist_remove(list, node) == RemoveFirst(list, node)

\* klist_len and klist_count.
klist_len(list) == Len(list)

\* klist_get_first_node: head.next, which on an empty list is the address of
\* the tail sentinel and never NULL.
klist_get_first_node(list, tail) == IF list = << >> THEN tail ELSE Head(list)

\* klist_get_next_node: the successor, which for the last node is the tail
\* sentinel.
klist_get_next_node(list, node, tail) ==
    LET i == CHOOSE j \in DOMAIN list : list[j] = node
    IN  IF i = Len(list) THEN tail ELSE list[i + 1]
=============================================================================
