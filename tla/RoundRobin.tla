---------------------------- MODULE RoundRobin ----------------------------
(***************************************************************************)
(* What a round-robin scheduler promises of its ready queue, whoever       *)
(* preempts whom: the first in line has the turn, it may pass the turn and *)
(* go to the back or leave the line, and newcomers join at the back.       *)
(* Nobody is overtaken, nobody is in line twice, nobody drops out of the   *)
(* middle.  The schedulers of core/task.c and tss_old/tss_old.c are shown  *)
(* to implement it.                                                        *)
(***************************************************************************)
EXTENDS KListSeq

CONSTANTS
    Members,  \* who may be in line
    Starter   \* who is in line at first

VARIABLE queue

RRInit == queue = <<Starter>>

\* The first one passes the turn.
Turn == queue # << >> /\ queue' = Append(Tail(queue), Head(queue))

\* The first one leaves.
Leave == queue # << >> /\ queue' = Tail(queue)

\* A newcomer joins.
Join(m) == m \notin ToSet(queue) /\ queue' = Append(queue, m)

RRNext == Turn \/ Leave \/ \E m \in Members : Join(m)

RRSpec == RRInit /\ [][RRNext]_queue
=============================================================================
