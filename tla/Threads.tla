------------------------------ MODULE Threads ------------------------------
(***************************************************************************)
(* The kernel threads of kernel/task_old/task_old.c and the semaphore of   *)
(* kernel/sync/sync.c.  One processor; a switch is simple_switch, which    *)
(* changes the stack and leaves the interrupt flag alone.  Everything      *)
(* between two switches runs with interrupts disabled and is one action.   *)
(*                                                                         *)
(* A thread that is switched to goes on where it left: at its first        *)
(* instruction, in the timer handler (whose iret enables interrupts) or in *)
(* the loop of thread_sem_wait.                                            *)
(*                                                                         *)
(* thread_time_ticks stands before pic_send_eoi in irq_handler_timer, so a *)
(* tick that switches is acknowledged when some thread is switched to that *)
(* stands in the handler itself; until then no tick arrives.               *)
(***************************************************************************)
EXTENDS KListSeq, FiniteSets

CONSTANTS
    Workers,      \* threads made by thread_start
    Main,         \* thread_manager.main_thread
    Ticks,        \* TASK_TICKS_DEFAULT
    InitValue,    \* the value given to sem_init
    ValueWrap,    \* the semaphore's value wraps here (2^8 in the code)
    Waiters,      \* threads that call thread_sem_wait
    Signallers,   \* threads that post without having waited
    MaxSignals    \* bound: how often they do

ASSUME ThreadsAssumption ==
    /\ IsFiniteSet(Workers) /\ Main \notin Workers
    /\ Ticks \in Nat \ {0}
    /\ ValueWrap \in Nat \ {0}
    /\ InitValue \in 0..(ValueWrap - 1)
    /\ Waiters \subseteq Workers \cup {Main}
    /\ Signallers \subseteq Workers \cup {Main}
    /\ MaxSignals \in Nat

VARIABLES
    cur,       \* thread_manager.cur_thread
    readyList, \* thread_manager.ready_list
    waitList,  \* sem.wait_list
    value,     \* sem.value
    status,    \* thread_pcb_t.status
    ticks,     \* thread_pcb_t.ticks
    point,     \* where a thread goes on when it is switched to
    saved,     \* the variable status of its thread_sem_wait
    holds,     \* the thread's permits: waits that returned less its posts
    signals,   \* posts of threads that held no permit
    intr,      \* the interrupt flag of the processor
    inService, \* the interrupt controller waits for the end of a tick
    pageZero,  \* a thread's PCB stands at address 0
    mode       \* "ok", or "corrupt": a switch to the list's sentinel, or two
               \* threads in one page

vars == <<cur, readyList, waitList, value, status, ticks, point, saved, holds, signals,
          intr, inService, pageZero, mode>>

AllThreads == Workers \cup {Main}

\* "none": not created; "start": at kthread; "tick": in the timer handler;
\* "loop": behind thread_set_block in thread_sem_wait; "run": in its own code.
Points == {"none", "start", "tick", "loop", "run"}

Statuses == {"CREATED", "READY", "RUNNING", "BLOCKED"}

-----------------------------------------------------------------------------
\* main_thread_init and sem_init.
Init ==
    /\ cur = Main
    /\ readyList = <<Main>>
    /\ waitList = << >>
    /\ value = InitValue
    /\ status = [t \in AllThreads |-> IF t = Main THEN "RUNNING" ELSE "CREATED"]
    /\ ticks = [t \in AllThreads |-> Ticks]
    /\ point = [t \in AllThreads |-> IF t = Main THEN "run" ELSE "none"]
    /\ saved = [t \in AllThreads |-> FALSE]
    /\ holds = [t \in AllThreads |-> 0]
    /\ signals = 0
    /\ intr = TRUE
    /\ inService = FALSE
    /\ pageZero = FALSE
    /\ mode = "ok"

\* Mutant: to the front, where the thread is chosen again.
thread_set_ready_front(rl, t) == klist_push(klist_remove(rl, t), t)

\* thread_set_ready: to the back of the ready list.
thread_set_ready(rl, t) == klist_append(klist_remove(rl, t), t)

\* thread_push_ready: to the front of the ready list.
thread_push_ready(rl, t) == klist_push(klist_remove(rl, t), t)

\* The interrupt flag with which a thread that stands at p goes on.  The iret
\* of the handler sets it.  Behind simple_switch, a thread in the loop and a
\* thread that starts find it as it was before the switch: cleared.
ResumeFlag(p) == p = "tick"

\* Mutant: the handler that goes on does not reach pic_send_eoi.
NeverEnded(from, to) == inService \/ from = "tick"

\* The tick behind a switch away from a thread at point from and to one at
\* point to: the handler of the second one, if it stands there, ends it.
TickHeld(from, to) == to # "tick" /\ (inService \/ from = "tick")

\* thread_dispatch, called by the current thread at point p with the ready
\* list and the statuses as its caller left them.  On an empty list
\* thread_FIFO returns an address in front of the sentinel.
thread_dispatch(rl, st, p) ==
    /\ readyList' = rl
    /\ \/ /\ rl = << >>
          /\ mode' = "corrupt"
          /\ status' = st
          /\ UNCHANGED <<cur, point, intr, inService>>
       \/ /\ rl # << >> /\ Head(rl) # cur /\ st[Head(rl)] = "READY"
          /\ cur' = Head(rl)
          /\ status' = [st EXCEPT ![Head(rl)] = "RUNNING"]
          /\ intr' = ResumeFlag(point[Head(rl)])
          /\ inService' = TickHeld(p, point[Head(rl)])
          /\ point' = [point EXCEPT ![cur] = p,
                                    ![Head(rl)] = IF @ = "loop" THEN "loop" ELSE "run"]
          /\ UNCHANGED mode
       \/ /\ rl # << >> /\ ~(Head(rl) # cur /\ st[Head(rl)] = "READY")
          /\ status' = st
          /\ intr' = ResumeFlag(p)
          /\ inService' = TickHeld(p, p)
          /\ point' = [point EXCEPT ![cur] = IF p = "loop" THEN "loop" ELSE "run"]
          /\ UNCHANGED <<cur, mode>>

-----------------------------------------------------------------------------
\* thread_start: kthread_init, kthread_create, thread_set_general and
\* thread_set_ready.  When kalloc_pages finds no page its 0 is used as the
\* address: the first such thread has page 0 to itself, the next one is built
\* over it.
thread_start(t) ==
    /\ mode = "ok" /\ point[cur] = "run" /\ point[t] = "none"
    /\ \/ /\ \/ UNCHANGED pageZero
             \/ ~pageZero /\ pageZero' = TRUE
          /\ readyList' = thread_set_ready(readyList, t)
          /\ status' = [status EXCEPT ![t] = "READY"]
          /\ point' = [point EXCEPT ![t] = "start"]
          /\ UNCHANGED mode
       \/ /\ pageZero
          /\ mode' = "corrupt"
          /\ UNCHANGED <<pageZero, readyList, status, point>>
    /\ UNCHANGED <<cur, waitList, value, ticks, saved, holds, signals, intr, inService>>

\* Mutant: the waiter is left on the ready list.
BlockLinkedTwice ==
    /\ value = 0
    /\ waitList' = klist_append(waitList, cur)
    /\ thread_dispatch(readyList, [status EXCEPT ![cur] = "BLOCKED"], "loop")
    /\ UNCHANGED <<value, ticks, holds, signals, pageZero>>

\* The body of the loop of thread_sem_wait: the thread leaves the ready list
\* and joins the semaphore's, and another thread runs.
Block ==
    /\ value = 0
    /\ waitList' = klist_append(waitList, cur)
    /\ thread_dispatch(klist_remove(readyList, cur), [status EXCEPT ![cur] = "BLOCKED"], "loop")
    /\ UNCHANGED <<value, ticks, holds, signals, pageZero>>

\* Mutant: the value is not tested again behind the block.
TakeUntested ==
    /\ value > 0 \/ point[cur] = "loop"
    /\ value' = IF value = 0 THEN 0 ELSE value - 1
    /\ holds' = [holds EXCEPT ![cur] = @ + 1]
    /\ point' = [point EXCEPT ![cur] = "run"]

\* Behind the loop of thread_sem_wait.
Take ==
    /\ value > 0
    /\ value' = value - 1
    /\ holds' = [holds EXCEPT ![cur] = @ + 1]
    /\ point' = [point EXCEPT ![cur] = "run"]

\* thread_sem_wait: it returns at once or blocks.
thread_sem_wait ==
    /\ mode = "ok" /\ point[cur] = "run" /\ cur \in Waiters /\ holds[cur] = 0
    /\ saved' = [saved EXCEPT ![cur] = intr]
    /\ \/ Block
       \/ Take /\ UNCHANGED <<cur, readyList, waitList, status, ticks, signals, intr,
                               inService, pageZero, mode>>

\* A thread switched to in the loop tests the value again; the interrupt flag
\* is restored when it leaves the loop.
RetryWait ==
    /\ mode = "ok" /\ point[cur] = "loop"
    /\ UNCHANGED saved
    /\ \/ Block
       \/ Take /\ intr' = saved[cur]
               /\ UNCHANGED <<cur, readyList, waitList, status, ticks, signals,
                               inService, pageZero, mode>>

\* A thread posts what it took; a signaller posts what nobody took.
MayPost == holds[cur] > 0 \/ (cur \in Signallers /\ signals < MaxSignals)

\* Mutant: a waiter is woken only when no permit was left.
WakeAtZero ==
    \/ (waitList = << >> \/ value > 0) /\ UNCHANGED <<waitList, readyList, status>>
    \/ /\ waitList # << >> /\ value = 0
       /\ waitList' = klist_remove(waitList, Head(waitList))
       /\ readyList' = thread_push_ready(readyList, Head(waitList))
       /\ status' = [status EXCEPT ![Head(waitList)] = "READY"]

\* thread_sem_post: the first waiter moves to the front of the ready list.
Wake ==
    \/ waitList = << >> /\ UNCHANGED <<waitList, readyList, status>>
    \/ /\ waitList # << >>
       /\ waitList' = klist_remove(waitList, Head(waitList))
       /\ readyList' = thread_push_ready(readyList, Head(waitList))
       /\ status' = [status EXCEPT ![Head(waitList)] = "READY"]

thread_sem_post ==
    /\ mode = "ok" /\ point[cur] = "run" /\ MayPost
    /\ Wake
    /\ value' = (value + 1) % ValueWrap
    /\ holds' = [holds EXCEPT ![cur] = IF @ > 0 THEN @ - 1 ELSE @]
    /\ signals' = IF holds[cur] > 0 THEN signals ELSE signals + 1
    /\ UNCHANGED <<cur, ticks, point, saved, intr, inService, pageZero, mode>>

\* The timer interrupt: thread_time_ticks, then pic_send_eoi.
thread_time_ticks ==
    /\ mode = "ok" /\ intr /\ ~inService
    /\ UNCHANGED <<waitList, value, saved, holds, signals, pageZero>>
    /\ \/ /\ ticks[cur] > 1
          /\ ticks' = [ticks EXCEPT ![cur] = @ - 1]
          /\ UNCHANGED <<cur, readyList, status, point, intr, inService, mode>>
       \/ /\ ticks[cur] <= 1
          /\ ticks' = [ticks EXCEPT ![cur] = Ticks]
          /\ thread_dispatch(thread_set_ready(readyList, cur),
                             [status EXCEPT ![cur] = "READY"], "tick")

Next ==
    \/ \E t \in Workers : thread_start(t)
    \/ thread_sem_wait
    \/ RetryWait
    \/ thread_sem_post
    \/ thread_time_ticks

Spec == Init /\ [][Next]_vars

\* A timer request is kept until interrupts are enabled and the tick before it
\* is acknowledged, and kernel code that a thread is inside goes on.  A thread owes nothing: it may compute forever.
FairSpec == Spec /\ SF_vars(thread_time_ticks) /\ WF_vars(RetryWait)

-----------------------------------------------------------------------------
Started == {t \in AllThreads : point[t] # "none"}

\* The lists hold threads, the value fits its type, and a thread's ticks are
\* restored before they reach 0.
TypeOK ==
    /\ cur \in AllThreads
    /\ readyList \in Seq(AllThreads)
    /\ waitList \in Seq(AllThreads)
    /\ value \in 0..(ValueWrap - 1)
    /\ status \in [AllThreads -> Statuses]
    /\ ticks \in [AllThreads -> 1..Ticks]
    /\ point \in [AllThreads -> Points]
    /\ saved \in [AllThreads -> BOOLEAN]
    /\ holds \in [AllThreads -> Nat]
    /\ signals \in 0..MaxSignals
    /\ intr \in BOOLEAN
    /\ inService \in BOOLEAN
    /\ pageZero \in BOOLEAN
    /\ mode \in {"ok", "corrupt"}

\* A thread that exists is linked by its state_node into exactly one of the
\* ready list and the semaphore's list, once, and the running one is never
\* among the waiters.  When the last ready thread blocks there is none to
\* switch to, and the claim ends; so it does when a second PCB is built at
\* address 0.
OneListPerThread ==
    mode = "ok" =>
        /\ ToSet(readyList) \cap ToSet(waitList) = {}
        /\ ToSet(readyList) \cup ToSet(waitList) = Started
        /\ IsInjective(readyList) /\ IsInjective(waitList)
        /\ cur \in ToSet(readyList)

\* Threads that were woken and have not tested the value yet.
Woken == {t \in ToSet(readyList) : point[t] = "loop"}

\* No wakeup is lost: while threads wait, every permit that is available has
\* a woken thread on the ready list that is going to test for it.
NoLostWakeup ==
    waitList # << >> => Cardinality(Woken) >= value

\* The semaphore admits no more threads than its initial value and the signals
\* allow, whichever of the woken threads and the newcomers gets there first.
PermitsRespected ==
    Cardinality({t \in AllThreads : holds[t] > 0}) + value <= InitValue + signals

\* A tick that is not acknowledged is never forgotten: while the controller
\* holds the timer back, a thread on the ready list stands in the handler and
\* will send the end of the interrupt when it is switched to.
HeldTickAnswered ==
    mode = "ok" /\ inService => \E t \in ToSet(readyList) : t # cur /\ point[t] = "tick"

\* A thread that can run gets the processor, if the timer can interrupt again
\* and again.  (A thread whose first switch comes out of the timer handler
\* starts with interrupts disabled, a woken one may go on with the tick not
\* acknowledged, and until they block nobody else runs.)
ReadyThreadRuns ==
    []<>(intr /\ ~inService) =>
        \A t \in AllThreads : t \in ToSet(readyList) ~> cur = t \/ mode = "corrupt"
=============================================================================
