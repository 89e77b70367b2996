----------------------------- MODULE KListSpec -----------------------------
(***************************************************************************)
(* What a kdouble_list_t promises its users: it is a sequence of nodes, an *)
(* operation changes it in one step, and no node is on it twice.           *)
(***************************************************************************)
EXTENDS KListSeq

CONSTANT Nodes

VARIABLE list

SpecInit == list = << >>

SpecNext ==
    \E n \in Nodes :
        \/ n \notin ToSet(list) /\ list' = klist_append(list, n)
        \/ n \notin ToSet(list) /\ list' = klist_push(list, n)
        \/ list' = klist_remove(list, n)
        \/ list # << >> /\ list' = Tail(list)

Spec == SpecInit /\ [][SpecNext]_list
=============================================================================
