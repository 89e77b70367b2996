------------------------------ MODULE Scheduler ------------------------------
(***************************************************************************)
(* The task scheduler of kernel/core/task.c, driven by the timer interrupt *)
(* of kernel/Timer/Timer.c and by the calls the running task makes.        *)
(*                                                                         *)
(* One processor runs one context at a time.  A switch is a far jump to    *)
(* the other task's TSS: it happens in the middle of task_dispatch, and    *)
(* the task that is left resumes exactly there, with the interrupt flag it *)
(* had there.  Each task therefore has a resume point: ctx says where its  *)
(* own code stands, irq where the timer handler stands that interrupted it.*)
(*                                                                         *)
(* The code between two switches with interrupts disabled is one action.   *)
(* task_init runs with interrupts enabled: it is cut between the search    *)
(* for a descriptor and its use, and between the assignments to the lists  *)
(* it shares with everyone else.                                           *)
(***************************************************************************)
EXTENDS KListSeq

CONSTANTS
    Tasks,          \* every task_t of the system except the idle task
    First,          \* task_manager.first_task
    Idle,           \* task_manager.idle_task
    SleepTail,      \* &task_manager.sleep_list.tail
    NoTask,         \* no task
    TimeSlice,      \* TASK_TIME_SLICE_DEFAULT
    SleepMs,        \* the arguments sys_sleep is called with
    GdtSlots,       \* unused descriptors left in the GDT by gdt_init
    TickWrap,       \* the counter ticks wraps here (2^32 in the code)
    WalkVisitsTail, \* TRUE: the sleep-list walk of line 173 as it is written
    SleepByAddress  \* TRUE: the argument &task_manager.curr_task as written

ASSUME TasksAssumption ==
    /\ First \in Tasks
    /\ Idle \notin Tasks
    /\ SleepTail \notin Tasks \cup {Idle}
    /\ NoTask \notin Tasks \cup {Idle}

ASSUME NumbersAssumption ==
    /\ TimeSlice \in Nat \ {0}
    /\ SleepMs \subseteq Nat
    /\ GdtSlots \in Nat \ {0, 1}
    /\ TickWrap \in Nat \ {0}

ASSUME ReadingAssumption ==
    /\ WalkVisitsTail \in BOOLEAN
    /\ SleepByAddress \in BOOLEAN

VARIABLES
    curr,       \* task_manager.curr_task
    readyList,  \* task_manager.ready_list
    sleepList,  \* task_manager.sleep_list
    taskList,   \* task_manager.task_list
    taskLen,    \* task_manager.task_list.len
    state,      \* task_t.state
    slice,      \* task_t.slice_ticks
    sleepTicks, \* task_t.sleep_ticks
    sel,        \* task_t.tss_sel, the number of its descriptor; 0: none
    gdt,        \* for each descriptor the task whose TSS it describes
    found,      \* tss_sel of tss_init, the descriptor a creator has found
    ctx,        \* where a task's own code stands
    irq,        \* where the timer handler stands that interrupted a task
    child,      \* the task a task is creating in task_init
    cursor,     \* the variable curr of the sleep-list walk
    inService,  \* bit 0 of the interrupt controller's in-service register
    ticks,      \* the counter of Timer.c
    mode        \* "ok", or why the system no longer follows the code

descVars == <<sel, gdt, found>>

vars == <<curr, readyList, sleepList, taskList, taskLen, state, slice,
          sleepTicks, descVars, ctx, irq, child, cursor, inService, ticks, mode>>

AllTasks == Tasks \cup {Idle}
Descriptors == 1..GdtSlots

States == {"CREATED", "RUNNING", "SLEEP", "READY", "WAITTING"}

\* The point of task_init behind which a creator stands, interrupts enabled:
\* "found": gdt_alloc_desc; "made": the TSS, the fields and the node's own
\* pointers; "linked", "tailed", "counted": the three assignments of
\* klist_append to the ready list; "ready": the state; "listLinked",
\* "listTailed": the first two assignments of the append to task_list.
InitPoints == {"found", "made", "linked", "tailed", "counted", "ready",
               "listLinked", "listTailed"}

\* "none": not created; "new": a creator works on it, nobody else can see it;
\* "run": in its own code with interrupts enabled; "yield", "sleep", "sleep0":
\* switched away from inside sys_sched_yield, sys_sleep, and a sys_sleep whose
\* argument was 0.
Contexts == InitPoints \cup {"none", "new", "run", "yield", "sleep", "sleep0"}

\* "no": not interrupted; "walk": before the sleep-list walk; "visit": inside
\* it; "eoi": the end-of-interrupt command is the next thing to do.
IrqPoints == {"no", "walk", "visit", "eoi"}

\* "fault": a far jump to a selector that does not describe the task's own TSS
\* raises an exception, whose handler halts, or resumes another task.
\* "torn": a list was changed between the assignments of another's append.
\* "corrupt": the sentinel linked into a list, or a list node inside
\* task_manager itself.  What happens behind such a step is not followed.
Modes == {"ok", "fault", "torn", "corrupt"}

-----------------------------------------------------------------------------
(* Initial state: task_manager_init and task_first_init have run.          *)

Init ==
    /\ curr = First
    /\ readyList = <<First>>
    /\ sleepList = << >>
    /\ taskList = <<Idle, First>>
    /\ taskLen = 2
    /\ state = [t \in AllTasks |-> IF t = First THEN "READY" ELSE "CREATED"]
    /\ slice = [t \in AllTasks |-> TimeSlice]
    /\ sleepTicks = [t \in AllTasks |-> 0]
    /\ sel = [t \in AllTasks |-> IF t = Idle THEN 1 ELSE IF t = First THEN 2 ELSE 0]
    /\ gdt = [d \in Descriptors |-> IF d = 1 THEN Idle ELSE IF d = 2 THEN First ELSE NoTask]
    /\ found = [t \in AllTasks |-> 0]
    /\ ctx = [t \in AllTasks |-> IF t \in {Idle, First} THEN "run" ELSE "none"]
    /\ irq = [t \in AllTasks |-> "no"]
    /\ child = [t \in AllTasks |-> NoTask]
    /\ cursor = SleepTail
    /\ inService = FALSE
    /\ ticks = 0
    /\ mode = "ok"

-----------------------------------------------------------------------------
(* The functions of task.c that the operations are built from.             *)

\* Mutant: the node is pushed at the head.
task_set_ready_front(rl, t) == IF t = Idle THEN rl ELSE klist_push(rl, t)

\* task_set_ready, its effect on the ready list.
task_set_ready(rl, t) == IF t = Idle THEN rl ELSE klist_append(rl, t)

\* task_set_ready, its effect on the state field.
ReadyState(st, t) == IF t = Idle THEN st ELSE [st EXCEPT ![t] = "READY"]

\* task_set_block.
task_set_block(rl, t) == IF t = Idle THEN rl ELSE klist_remove(rl, t)

\* Mutant: the task is appended without being unlinked first.
RequeueLinkedTwice(rl, t) == task_set_ready(rl, t)

\* Mutant: the task is unlinked and not appended again.
RequeueDropped(rl, t) == task_set_block(rl, t)

\* task_set_block followed by task_set_ready: to the back of the queue.
Requeue(rl, t) == task_set_ready(task_set_block(rl, t), t)

\* Mutant: off by one in the test for an empty list.
task_next_run_one(rl) == IF klist_len(rl) <= 1 THEN Idle ELSE Head(rl)

\* Mutant: the last node instead of the first.
task_next_run_last(rl) == IF klist_len(rl) = 0 THEN Idle ELSE Last(rl)

\* task_next_run.
task_next_run(rl) == IF klist_len(rl) = 0 THEN Idle ELSE Head(rl)

\* The far jump to a task's selector reaches that task.
Reaches(t) == sel[t] \in Descriptors /\ gdt[sel[t]] = t

\* task_dispatch with task_switch_from_to and switch_to_tss, called when the
\* ready list is rl and the state fields are st.
task_dispatch(rl, st) ==
    LET to == task_next_run(rl)
    IN  /\ curr' = to
        /\ state' = IF to = curr THEN st ELSE [st EXCEPT ![to] = "RUNNING"]
        /\ mode' = IF to = curr \/ Reaches(to) THEN mode ELSE "fault"

\* The interrupt flag of the running task.
InterruptsOn == irq[curr] = "no" /\ ctx[curr] \in InitPoints \cup {"run"}

\* The running task stands between the assignments of its append to the ready
\* list.  While its own tick handler leaves the list alone that does no harm:
\* len is one short, but never 0, since the running task is on the list.
CutAppend == ctx[curr] \in {"linked", "tailed"}

\* klist_append of t to a list whose last node is linked from its predecessor
\* and not yet from tail.prev: the node takes that node's place.
OverwriteLast(list, t) == klist_append(Front(list), t)

\* klist_append of t to the ready list while the running task stands at p.
AppendCut(rl, p, t) == IF p = "linked" THEN OverwriteLast(rl, t) ELSE klist_append(rl, t)

\* task_set_block and task_set_ready of the running task t, standing at p.  If
\* it is the predecessor of the node it appends, tail.prev is t itself, which
\* is then linked to itself and off the list.
RequeueCut(rl, p, t) ==
    IF p = "linked" /\ Len(rl) = 2 THEN Tail(rl) ELSE AppendCut(klist_remove(rl, t), p, t)

-----------------------------------------------------------------------------
(* The timer interrupt: irq_handler_timer and task_time_tick.              *)

\* The slice of the running task is used up: it goes to the back of the ready
\* list and the first task there is dispatched, from inside the handler.
SliceEnds ==
    IF CutAppend
    THEN LET rl == RequeueCut(readyList, ctx[curr], curr)
         IN  /\ readyList' = rl
             /\ curr' = task_next_run(rl)
             /\ state' = [ReadyState(state, curr) EXCEPT ![task_next_run(rl)] = "RUNNING"]
             /\ mode' = "torn"
    ELSE /\ readyList' = Requeue(readyList, curr)
         /\ task_dispatch(Requeue(readyList, curr), ReadyState(state, curr))

\* The interrupt is taken, ticks is incremented and the slice of the running
\* task is charged.
TickSlice ==
    /\ mode = "ok" /\ InterruptsOn /\ ~inService
    /\ inService' = TRUE
    /\ ticks' = (ticks + 1) % TickWrap
    /\ irq' = [irq EXCEPT ![curr] = "walk"]
    /\ IF slice[curr] - 1 = 0
       THEN slice' = [slice EXCEPT ![curr] = TimeSlice] /\ SliceEnds
       ELSE /\ slice' = [slice EXCEPT ![curr] = @ - 1]
            /\ UNCHANGED <<readyList, curr, state, mode>>
    /\ UNCHANGED <<sleepList, taskList, taskLen, sleepTicks, descVars, ctx,
                   child, cursor>>

\* Mutant: the interrupt is acknowledged before the walk.
WalkStartAcknowledged ==
    /\ mode = "ok" /\ irq[curr] = "walk"
    /\ irq' = [irq EXCEPT ![curr] = "visit"]
    /\ cursor' = klist_get_first_node(sleepList, SleepTail)
    /\ inService' = FALSE
    /\ UNCHANGED <<curr, readyList, sleepList, taskList, taskLen, state, slice,
                   sleepTicks, descVars, ctx, child, ticks, mode>>

\* The walk over the sleep list starts at its first node.
WalkStart ==
    /\ mode = "ok" /\ irq[curr] = "walk"
    /\ irq' = [irq EXCEPT ![curr] = "visit"]
    /\ cursor' = klist_get_first_node(sleepList, SleepTail)
    /\ UNCHANGED <<curr, readyList, sleepList, taskList, taskLen, state, slice,
                   sleepTicks, descVars, ctx, child, inService, ticks,
                   mode>>

\* task_set_wakeup and task_set_ready of the task t, from the walk.
WakeUp(t) ==
    /\ sleepList' = klist_remove(sleepList, t)
    /\ readyList' = IF CutAppend THEN AppendCut(readyList, ctx[curr], t)
                                 ELSE task_set_ready(readyList, t)
    /\ state' = ReadyState(state, t)
    /\ mode' = IF CutAppend THEN "torn" ELSE mode

\* Mutant: the counter is tested and not decremented.
WalkTaskUncounted ==
    /\ mode = "ok" /\ irq[curr] = "visit" /\ cursor # SleepTail
    /\ cursor' = klist_get_next_node(sleepList, cursor, SleepTail)
    /\ IF sleepTicks[cursor] - 1 = 0
       THEN WakeUp(cursor)
       ELSE UNCHANGED <<sleepList, readyList, state, mode>>
    /\ UNCHANGED <<curr, taskList, taskLen, slice, sleepTicks, descVars, ctx,
                   irq, child, inService, ticks>>

\* One round of the walk at a sleeping task: its counter is decremented, and
\* at zero it moves to the ready list.
WalkTask ==
    /\ mode = "ok" /\ irq[curr] = "visit" /\ cursor # SleepTail
    /\ cursor' = klist_get_next_node(sleepList, cursor, SleepTail)
    /\ sleepTicks' = [sleepTicks EXCEPT ![cursor] = @ - 1]
    /\ IF sleepTicks[cursor] - 1 = 0
       THEN WakeUp(cursor)
       ELSE UNCHANGED <<sleepList, readyList, state, mode>>
    /\ UNCHANGED <<curr, taskList, taskLen, slice, descVars, ctx, irq, child,
                   inService, ticks>>

\* The last round of the walk, and the task_dispatch after it.  The end of the
\* list is the tail sentinel, which is not NULL, so the loop also treats the
\* sentinel as the run_node of a task.  In task_manager_t the sleep_ticks of
\* that task is the word task_list.len; when it reaches 0 the sentinel is
\* unlinked from the sleep list and appended to the ready list.
WalkEnd ==
    /\ mode = "ok" /\ irq[curr] = "visit" /\ cursor = SleepTail
    /\ irq' = [irq EXCEPT ![curr] = "eoi"]
    /\ taskLen' = IF WalkVisitsTail THEN taskLen - 1 ELSE taskLen
    /\ IF WalkVisitsTail /\ taskLen - 1 = 0
       THEN mode' = "corrupt" /\ UNCHANGED <<curr, state>>
       ELSE task_dispatch(readyList, state)
    /\ UNCHANGED <<readyList, sleepList, taskList, slice, sleepTicks, descVars, ctx, child, cursor, inService, ticks>>

\* pic_send_eoi and the return from the interrupt.
TickEoi ==
    /\ mode = "ok" /\ irq[curr] = "eoi"
    /\ irq' = [irq EXCEPT ![curr] = "no"]
    /\ inService' = FALSE
    /\ UNCHANGED <<curr, readyList, sleepList, taskList, taskLen, state, slice,
                   sleepTicks, descVars, ctx, child, cursor, ticks, mode>>

-----------------------------------------------------------------------------
(* The calls of the running task.  The idle task only executes hlt.        *)

TaskRuns == mode = "ok" /\ curr # Idle /\ irq[curr] = "no" /\ ctx[curr] = "run"

\* sys_sched_yield; with a single ready task it does nothing.
sys_sched_yield ==
    /\ TaskRuns
    /\ klist_len(readyList) > 1
    /\ readyList' = Requeue(readyList, curr)
    /\ task_dispatch(Requeue(readyList, curr), ReadyState(state, curr))
    /\ ctx' = [ctx EXCEPT ![curr] = "yield"]
    /\ UNCHANGED <<sleepList, taskList, taskLen, slice, sleepTicks, descVars, irq, child, cursor, inService, ticks>>

\* Mutant: task_set_sleep does not test for 0.
SleepCurrentZero(ms) ==
    /\ TaskRuns /\ ~SleepByAddress
    /\ readyList' = task_set_block(readyList, curr)
    /\ sleepTicks' = [sleepTicks EXCEPT ![curr] = ms]
    /\ sleepList' = klist_append(sleepList, curr)
    /\ task_dispatch(task_set_block(readyList, curr),
                     [state EXCEPT ![curr] = "SLEEP"])
    /\ ctx' = [ctx EXCEPT ![curr] = "sleep"]
    /\ UNCHANGED <<taskList, taskLen, slice, descVars, irq, child,
                   cursor, inService, ticks>>

\* sys_sleep, reading its argument as the current task: task_set_block,
\* task_set_sleep (which returns at once when the argument is 0) and
\* task_dispatch.  The argument is used as a number of ticks.
SleepCurrent(ms) ==
    /\ TaskRuns /\ ~SleepByAddress
    /\ readyList' = task_set_block(readyList, curr)
    /\ IF ms = 0
       THEN /\ task_dispatch(task_set_block(readyList, curr), state)
            /\ ctx' = [ctx EXCEPT ![curr] = "sleep0"]
            /\ UNCHANGED <<sleepTicks, sleepList>>
       ELSE /\ sleepTicks' = [sleepTicks EXCEPT ![curr] = ms]
            /\ sleepList' = klist_append(sleepList, curr)
            /\ task_dispatch(task_set_block(readyList, curr),
                             [state EXCEPT ![curr] = "SLEEP"])
            /\ ctx' = [ctx EXCEPT ![curr] = "sleep"]
    /\ UNCHANGED <<taskList, taskLen, slice, descVars, irq, child,
                   cursor, inService, ticks>>

\* sys_sleep as it is written: the "task" is the address of the field
\* curr_task.  It is on no list, so task_set_block does nothing; task_set_sleep
\* returns at once for 0 and otherwise writes the state 2 over the pointer
\* curr_task and links a node that overlaps the sleep list; task_dispatch then
\* finds a first ready task different from that pointer, the caller itself,
\* and jumps to the TSS the processor is already in, which faults.
SleepAddress(ms) ==
    /\ TaskRuns /\ SleepByAddress
    /\ IF ms = 0
       THEN UNCHANGED <<ctx, mode>>
       ELSE ctx' = [ctx EXCEPT ![curr] = "sleep"] /\ mode' = "corrupt"
    /\ UNCHANGED <<curr, readyList, sleepList, taskList, taskLen, state, slice,
                   sleepTicks, descVars, irq, child, cursor, inService,
                   ticks>>

sys_sleep(ms) == IF SleepByAddress THEN SleepAddress(ms) ELSE SleepCurrent(ms)

\* A task dispatched inside sys_sched_yield or sys_sleep resumes after the
\* jump: irq_leave_protection enables interrupts again and the call returns.
SyscallReturn ==
    /\ mode = "ok" /\ irq[curr] = "no" /\ ctx[curr] \in {"yield", "sleep", "sleep0"}
    /\ ctx' = [ctx EXCEPT ![curr] = "run"]
    /\ UNCHANGED <<curr, readyList, sleepList, taskList, taskLen, state, slice,
                   sleepTicks, descVars, irq, child, cursor, inService,
                   ticks, mode>>

-----------------------------------------------------------------------------
(* task_init, called by the running task with interrupts enabled.         *)

\* The running task goes on from one point of task_init to another.
Stands(p) == mode = "ok" /\ irq[curr] = "no" /\ ctx[curr] = p
Advances(from, to) == Stands(from) /\ ctx' = [ctx EXCEPT ![curr] = to]

\* gdt_alloc_desc: the first descriptor without attributes; it is not marked.
FirstFree ==
    LET free == {d \in Descriptors : gdt[d] = NoTask}
    IN  IF free = {} THEN 0 ELSE CHOOSE d \in free : \A e \in free : d <= e

\* task_init of t is called, and tss_init searches a descriptor.
TaskInitFind(t) ==
    /\ TaskRuns /\ ctx[t] = "none"
    /\ found' = [found EXCEPT ![curr] = FirstFree]
    /\ child' = [child EXCEPT ![curr] = t]
    /\ ctx' = [ctx EXCEPT ![curr] = "found", ![t] = "new"]
    /\ UNCHANGED <<curr, readyList, sleepList, taskList, taskLen, state, slice,
                   sleepTicks, sel, gdt, irq, cursor, inService, ticks, mode>>

\* The rest of tss_init, which describes and stores nothing if none was found
\* (task_init ignores that), the fields of the task, and the two pointers of
\* its node, which nobody else sees yet.
TaskInitMake ==
    /\ Advances("found", "made")
    /\ gdt' = [d \in Descriptors |-> IF d = found[curr] THEN child[curr] ELSE gdt[d]]
    /\ sel' = [sel EXCEPT ![child[curr]] = found[curr]]
    /\ state' = [state EXCEPT ![child[curr]] = "CREATED"]
    /\ slice' = [slice EXCEPT ![child[curr]] = TimeSlice]
    /\ UNCHANGED <<curr, readyList, sleepList, taskList, taskLen, sleepTicks,
                   found, irq, child, cursor, inService, ticks, mode>>

\* klist_append to the ready list, tail.prev->next = node: from here on the
\* task can be dispatched.
ReadyLink ==
    /\ Stands("made")
    /\ ctx' = [ctx EXCEPT ![curr] = "linked", ![child[curr]] = "run"]
    /\ readyList' = task_set_ready(readyList, child[curr])
    /\ UNCHANGED <<curr, sleepList, taskList, taskLen, state, slice, sleepTicks,
                   descVars, irq, child, cursor, inService, ticks, mode>>

\* tail.prev = node and len++.
ReadyFinish ==
    /\ Advances("linked", "tailed") \/ Advances("tailed", "counted")
    /\ UNCHANGED <<curr, readyList, sleepList, taskList, taskLen, state, slice,
                   sleepTicks, descVars, irq, child, cursor, inService, ticks,
                   mode>>

\* The assignment to state at the end of task_set_ready.
TaskInitState ==
    /\ Advances("counted", "ready")
    /\ state' = ReadyState(state, child[curr])
    /\ UNCHANGED <<curr, readyList, sleepList, taskList, taskLen, slice,
                   sleepTicks, descVars, irq, child, cursor, inService, ticks,
                   mode>>

\* Another creator stands between the first two assignments of its append to
\* task_list.
ListCut == \E u \in Tasks : ctx[u] = "listLinked"

\* Mutant: the task is not linked into task_list.
ListLinkForgotten ==
    /\ Advances("ready", "listLinked")
    /\ UNCHANGED <<curr, readyList, sleepList, taskList, taskLen, state, slice,
                   sleepTicks, descVars, irq, child, cursor, inService, ticks,
                   mode>>

\* klist_append to task_list, tail.prev->next = node.
ListLink ==
    /\ Advances("ready", "listLinked")
    /\ taskList' = IF ListCut THEN OverwriteLast(taskList, child[curr])
                              ELSE klist_append(taskList, child[curr])
    /\ mode' = IF ListCut THEN "torn" ELSE mode
    /\ UNCHANGED <<curr, readyList, sleepList, taskLen, state, slice, sleepTicks,
                   descVars, irq, child, cursor, inService, ticks>>

\* tail.prev = node.
ListTail ==
    /\ Advances("listLinked", "listTailed")
    /\ UNCHANGED <<curr, readyList, sleepList, taskList, taskLen, state, slice,
                   sleepTicks, descVars, irq, child, cursor, inService, ticks,
                   mode>>

\* len++, and the return from task_init.
ListCount ==
    /\ Advances("listTailed", "run")
    /\ taskLen' = taskLen + 1
    /\ child' = [child EXCEPT ![curr] = NoTask]
    /\ UNCHANGED <<curr, readyList, sleepList, taskList, state, slice, sleepTicks,
                   descVars, irq, cursor, inService, ticks, mode>>

-----------------------------------------------------------------------------
Next ==
    \/ TickSlice \/ WalkStart \/ WalkTask \/ WalkEnd \/ TickEoi
    \/ sys_sched_yield
    \/ \E ms \in SleepMs : sys_sleep(ms)
    \/ SyscallReturn
    \/ \E t \in Tasks : TaskInitFind(t)
    \/ TaskInitMake \/ ReadyLink \/ ReadyFinish \/ TaskInitState
    \/ ListLink \/ ListTail \/ ListCount

Spec == Init /\ [][Next]_vars

\* Steps of kernel code that is already running; the processor executes them.
KernelStep ==
    \/ WalkStart \/ WalkTask \/ WalkEnd \/ TickEoi
    \/ SyscallReturn
    \/ TaskInitMake \/ ReadyLink \/ ReadyFinish \/ TaskInitState
    \/ ListLink \/ ListTail \/ ListCount

\* The processor keeps executing kernel code, and the interrupt controller
\* latches a timer request until it can be delivered.
KernelFairness == WF_vars(KernelStep) /\ SF_vars(TickSlice)

\* Nothing is assumed of the tasks: they may compute forever.
PreemptiveSpec == Spec /\ KernelFairness

-----------------------------------------------------------------------------
(* Safety.                                                                  *)

\* The ready and the sleep list hold tasks and never the idle task or a
\* sentinel, and a slice is restored before it reaches 0.
TypeOK ==
    /\ curr \in AllTasks
    /\ readyList \in Seq(Tasks)
    /\ sleepList \in Seq(Tasks)
    /\ taskList \in Seq(AllTasks)
    /\ taskLen \in Int
    /\ state \in [AllTasks -> States]
    /\ slice \in [AllTasks -> 1..TimeSlice]
    /\ sleepTicks \in [AllTasks -> Int]
    /\ sel \in [AllTasks -> 0..GdtSlots]
    /\ gdt \in [Descriptors -> AllTasks \cup {NoTask}]
    /\ found \in [AllTasks -> 0..GdtSlots]
    /\ ctx \in [AllTasks -> Contexts]
    /\ irq \in [AllTasks -> IrqPoints]
    /\ child \in [AllTasks -> Tasks \cup {NoTask}]
    /\ cursor \in Tasks \cup {SleepTail}
    /\ inService \in BOOLEAN
    /\ ticks \in 0..(TickWrap - 1)
    /\ mode \in Modes

Ready == ToSet(readyList)
Sleeping == ToSet(sleepList)
Created == {t \in Tasks : ctx[t] \notin {"none", "new"}}

\* curr_task and the ready list agree at every point where another context
\* can look: the running task is the first of the ready list, and the idle
\* task runs only when that list is empty (or while its own tick handler is
\* still putting woken tasks on it).  Every use of task_set_block(curr) and
\* the "len > 1" test of sys_sched_yield rest on this.
RunningIsHead ==
    mode = "ok" =>
        IF curr = Idle
        THEN readyList = << >> \/ irq[Idle] = "visit"
        ELSE readyList # << >> /\ Head(readyList) = curr

\* run_node links a task into one list at a time, and once: a second link
\* would overwrite the first one's pointers and cut both lists.  It holds of
\* what a torn append leaves behind, too.
QueuesExclusive ==
    /\ IsInjective(readyList)
    /\ IsInjective(sleepList)
    /\ Ready \cap Sleeping = {}

\* The scheduler can find a created task again: it is on the ready or on the
\* sleep list, unless it called sys_sleep(0), which takes the task off the
\* ready list and puts it nowhere.  The code violates it: a tick between the
\* assignments of task_init's append drops a task.
TaskQueued(t) == t \in Ready \cup Sleeping \/ ctx[t] = "sleep0"
TasksQueued == \A t \in Created : TaskQueued(t)

\* A torn append is the only way a task is lost, and then only the interrupted
\* creator or the task it creates is, never a third one.
NoTaskLost ==
    \A t \in Created :
        \/ TaskQueued(t)
        \/ /\ mode = "torn"
           /\ \E u \in Tasks : ctx[u] = "linked" /\ t \in {u, child[u]}

\* A task on the sleep list stands inside sys_sleep, holds no half-finished
\* tick, and still has ticks to wait for: the walk takes it off in the round
\* in which its counter becomes 0, so the counter never passes 0.
SleepersParked ==
    \A t \in Sleeping : ctx[t] = "sleep" /\ irq[t] = "no" /\ sleepTicks[t] > 0

\* A task that enters its sleep is on the sleep list, off the ready list.  The
\* code violates it: sys_sleep passes the address of the field curr_task.
SleepSuspends ==
    [][\A t \in Tasks : ctx[t] # "sleep" /\ ctx'[t] = "sleep"
            => t \in Sleeping' /\ t \notin Ready']_vars

\* The timer interrupt is acknowledged only when the handler that took it
\* ends, so at most one task is ever inside the handler, and exactly while the
\* controller holds further ticks back.
OneTickPending ==
    /\ inService <=> \E t \in AllTasks : irq[t] # "no"
    /\ \A t, u \in AllTasks : irq[t] # "no" /\ irq[u] # "no" => t = u

\* The idle task halts the processor until an interrupt: it must never do so
\* while an unacknowledged tick in another task keeps the timer blocked.
IdleCanBeWoken ==
    mode = "ok" /\ curr = Idle /\ irq[Idle] = "no" => ~inService

\* A created task is on task_list, or its creator has not come that far: a
\* preempted task_init neither forgets nor repeats its second append, until two
\* of them meet in it.
TaskListComplete ==
    /\ IsInjective(taskList)
    /\ mode = "ok" =>
        \A t \in Created :
            t \in ToSet(taskList) <=>
                \A u \in Tasks : child[u] = t => ctx[u] \in {"listLinked", "listTailed"}

\* task_list.len is the number of nodes, those that are not yet counted by
\* their creators apart.  The code violates it: the sleep-list walk takes one
\* from it at every tick.
LenIsLength ==
    mode = "ok" =>
        taskLen = Len(taskList)
                    - Cardinality({u \in Tasks : ctx[u] \in {"listLinked", "listTailed"}})

\* A far jump misses its task only if there was no descriptor left for it, or
\* if two creators were given the same one.
FaultExplained ==
    mode = "fault" =>
        \/ \A d \in Descriptors : gdt[d] # NoTask
        \/ \E t, u \in AllTasks : t # u /\ sel[t] = sel[u] /\ sel[t] # 0

\* The ready list is a round-robin queue as long as no append is torn: only the
\* running task gives up its place, when it yields, sleeps or its slice ends;
\* new and woken tasks join at the end; nobody is overtaken, queued twice or
\* dropped from the middle.
RR == INSTANCE RoundRobin WITH Members <- Tasks, Starter <- First, queue <- readyList
ReadyIsRoundRobin ==
    RR!RRInit /\ [][mode' # "torn" => [RR!RRNext]_readyList]_vars

-----------------------------------------------------------------------------
(* The inductive invariant behind the safety properties.                    *)

\* A task on the ready list was created and is not lost.
ReadyCreated == \A t \in Ready : ctx[t] \notin {"none", "new", "sleep0"}

\* Exactly the tasks inside task_init are creating another one, which is new
\* until it is linked and created from then on, and has one creator.
ChildKnown ==
    /\ child[Idle] = NoTask
    /\ \A t \in AllTasks : child[t] # NoTask <=> ctx[t] \in InitPoints
    /\ \A t \in AllTasks :
        child[t] # NoTask =>
            /\ ctx[child[t]] # "none"
            /\ ctx[child[t]] = "new" <=> ctx[t] \in {"found", "made"}
    /\ \A t, u \in AllTasks : child[t] # NoTask /\ child[t] = child[u] => t = u

\* Only the running task can stand between the assignments of an append to the
\* ready list, whose last node is then the one it appends.
CutByRunning ==
    mode = "ok" =>
        /\ \A t \in Tasks : ctx[t] \in {"linked", "tailed"} => t = curr
        /\ CutAppend => Len(readyList) > 1 /\ Last(readyList) = child[curr]

\* The walk is never left for another task, and its cursor is a node of the
\* sleep list or the tail sentinel.
WalkAtomic ==
    mode = "ok" =>
        /\ \A t \in AllTasks : irq[t] = "visit" => t = curr
        /\ irq[curr] = "visit" => cursor \in Sleeping \cup {SleepTail}

\* A task with an unfinished tick handler will run again: it is ready.
HolderReady == mode = "ok" => \A t \in Tasks : irq[t] # "no" => t \in Ready

IndInv ==
    /\ TypeOK
    /\ RunningIsHead
    /\ QueuesExclusive
    /\ ReadyCreated
    /\ NoTaskLost
    /\ SleepersParked
    /\ OneTickPending
    /\ HolderReady
    /\ WalkAtomic
    /\ ChildKnown
    /\ CutByRunning

-----------------------------------------------------------------------------
(* Liveness.                                                                *)

\* Whoever has the processor again and again yields, or sleeps, again and again.
TasksYield == \A t \in Tasks : SF_vars(curr = t /\ sys_sched_yield)
TasksSleep == \A t \in Tasks : SF_vars(curr = t /\ \E ms \in SleepMs : sys_sleep(ms))

\* A ready task gets the processor, if tasks yield and no append is torn.
ReadyTaskRuns ==
    TasksYield => \A t \in Tasks : t \in Ready ~> (curr = t \/ mode # "ok")

\* A sleeping task is woken, if tasks sleep in their turn and no append is torn.
\* Yielding is not enough: a tick that wakes a task while the idle task runs is
\* acknowledged only when the idle task runs again, so until the woken task
\* blocks, no further tick is counted for the others.
SleeperWakes ==
    TasksSleep => \A t \in Tasks : t \in Sleeping ~> (t \in Ready \/ mode # "ok")
=============================================================================
