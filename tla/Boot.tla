------------------------------- MODULE Boot -------------------------------
(***************************************************************************)
(* The start of the kernel: _start of init/start.S, kernel_init and main   *)
(* of init/init.c, the functions they call, and the timer interrupts that  *)
(* arrive meanwhile, followed by the scheduler of core/task.c.             *)
(*                                                                         *)
(* timer_init enables interrupts, and the task manager is made after it,   *)
(* with interrupts enabled: until curr_task points to a task, the tick     *)
(* handler works on the task_t at address 0.  kernel_init never sets       *)
(* curr_task; task_first_init, which nothing calls, would.  What these     *)
(* steps build is the state that the Scheduler module starts from.         *)
(***************************************************************************)
EXTENDS Scheduler

CONSTANT CallsFirstInit  \* main calls task_first_init; FALSE as it is written

VARIABLES
    step,   \* what is executed next; "tasks": the scheduler's own steps
    idt,    \* for each class of vectors the handler of its gates: "none", the
            \* "unknown" one, or its "own"
    masked, \* the interrupt controller withholds the timer's line
    iflag   \* the interrupt flag before there are tasks

bootVars == <<step, idt, masked, iflag>>
allVars == <<vars, bootVars>>

\* The order of the calls; task_manager_init and task_first_init are cut where
\* a tick finds something else.
Order == <<"log_init", "gdt_init", "memory_init", "irq_init", "pagetable_init",
           "timer_init", "klist_init", "idle_tss", "idle_list", "syscall_init",
           "main", "first_ready", "first_list", "first_curr", "tasks">>

Vectors == {"exception", "syscall", "timer"}

\* The static data of the kernel is zero, and the loader jumps to it with
\* interrupts disabled and the mask that the BIOS has left.
BootInit ==
    /\ curr = NoTask
    /\ readyList = << >> /\ sleepList = << >> /\ taskList = << >>
    /\ taskLen = 0
    /\ state = [t \in AllTasks |-> "CREATED"]
    /\ slice = [t \in AllTasks |-> TimeSlice]
    /\ sleepTicks = [t \in AllTasks |-> 0]
    /\ sel = [t \in AllTasks |-> 0]
    /\ gdt = [d \in Descriptors |-> NoTask]
    /\ found = [t \in AllTasks |-> 0]
    /\ ctx = [t \in AllTasks |-> "none"]
    /\ irq = [t \in AllTasks |-> "no"]
    /\ child = [t \in AllTasks |-> NoTask]
    /\ cursor = SleepTail
    /\ inService = FALSE
    /\ ticks = 0
    /\ mode = "ok"
    /\ step = Order[1]
    /\ idt = [v \in Vectors |-> "none"]
    /\ masked \in BOOLEAN
    /\ iflag = FALSE

\* The call s is executed and the next one follows.
Does(s) ==
    /\ mode = "ok" /\ curr = NoTask /\ step = s
    /\ \E i \in DOMAIN Order : Order[i] = s /\ step' = Order[i + 1]

-----------------------------------------------------------------------------
(* kernel_init.                                                             *)

\* log_init programs the serial port; memory_init and pagetable_init make the
\* state of the page allocator and of the page tables, syscall_init the table
\* of the system calls.  None of it is used by the scheduler.
OtherInit ==
    /\ \E s \in {"log_init", "memory_init", "pagetable_init", "syscall_init"} : Does(s)
    /\ UNCHANGED <<vars, idt, masked, iflag>>

\* Every descriptor is cleared; four others describe the kernel's and the
\* users' segments.
gdt_init ==
    /\ Does("gdt_init")
    /\ gdt' = [d \in Descriptors |-> NoTask]
    /\ UNCHANGED <<curr, readyList, sleepList, taskList, taskLen, state, slice,
                   sleepTicks, sel, found, ctx, irq, child, cursor, inService,
                   ticks, mode, idt, masked, iflag>>

\* irq_install and irq_segment_set, whose refusals, of a vector behind the table
\* and of a handler above 1 MB, no call of the kernel meets.
irq_install(table, vectors, handler) ==
    [v \in DOMAIN table |-> IF v \in vectors THEN handler ELSE table[v]]

\* pic_init: its first command word also clears the mask of every line.
pic_init == masked' = FALSE

\* pic_enable, for the timer's line.
pic_enable == masked' = FALSE

\* irq_enable: the flag behind it, for any flag before it.
irq_enable(flag) == TRUE

\* Every gate gets the unknown handler, then the exceptions and int 0x80 theirs.
irq_init ==
    /\ Does("irq_init")
    /\ pic_init
    /\ idt' = irq_install(irq_install(idt, Vectors, "unknown"), {"exception", "syscall"}, "own")
    /\ UNCHANGED <<vars, iflag>>

\* The rate of the timer, its gate, its mask, and the interrupt flag.
timer_init ==
    /\ Does("timer_init")
    /\ ticks' = 0
    /\ idt' = irq_install(idt, {"timer"}, "own")
    /\ pic_enable
    /\ iflag' = irq_enable(iflag)
    /\ UNCHANGED <<curr, readyList, sleepList, taskList, taskLen, state, slice,
                   sleepTicks, descVars, ctx, irq, child, cursor,
                   inService, mode>>

\* task_manager_init: klist_init of the three lists, and curr_task = NULL.
ManagerLists ==
    /\ Does("klist_init")
    /\ readyList' = << >> /\ sleepList' = << >> /\ taskList' = << >>
    /\ taskLen' = 0
    /\ curr' = NoTask
    /\ UNCHANGED <<state, slice, sleepTicks, descVars, ctx, irq, child,
                   cursor, inService, ticks, mode, idt, masked, iflag>>

\* task_init up to the fields of the task t.
MakeTask(t) ==
    /\ sel' = [sel EXCEPT ![t] = FirstFree]
    /\ gdt' = [d \in Descriptors |-> IF d = FirstFree THEN t ELSE gdt[d]]
    /\ ctx' = [ctx EXCEPT ![t] = "run"]
    /\ slice' = [slice EXCEPT ![t] = TimeSlice]
    /\ UNCHANGED found

\* task_init of the idle task, which task_set_ready leaves off the ready list.
IdleTss ==
    /\ Does("idle_tss")
    /\ MakeTask(Idle)
    /\ readyList' = task_set_ready(readyList, Idle)
    /\ state' = ReadyState([state EXCEPT ![Idle] = "CREATED"], Idle)
    /\ UNCHANGED <<curr, sleepList, taskList, taskLen, sleepTicks, irq, child,
                   cursor, inService, ticks, mode, idt, masked, iflag>>

\* The klist_append of task_init to task_list.
IdleList ==
    /\ Does("idle_list")
    /\ taskList' = klist_append(taskList, Idle)
    /\ taskLen' = taskLen + 1
    /\ UNCHANGED <<curr, readyList, sleepList, state, slice, sleepTicks, descVars, ctx, irq, child, cursor, inService, ticks, mode,
                   idt, masked, iflag>>

-----------------------------------------------------------------------------
(* _start goes on to main, which loops; task_first_init, if it is called.   *)

main == Does("main") /\ CallsFirstInit /\ UNCHANGED <<vars, idt, masked, iflag>>

\* task_init of the first task up to the klist_append of task_set_ready.
FirstReady ==
    /\ Does("first_ready")
    /\ MakeTask(First)
    /\ state' = [state EXCEPT ![First] = "CREATED"]
    /\ readyList' = task_set_ready(readyList, First)
    /\ UNCHANGED <<curr, sleepList, taskList, taskLen, sleepTicks, irq, child,
                   cursor, inService, ticks, mode, idt, masked, iflag>>

\* The rest of task_init.
FirstList ==
    /\ Does("first_list")
    /\ state' = ReadyState(state, First)
    /\ taskList' = klist_append(taskList, First)
    /\ taskLen' = taskLen + 1
    /\ UNCHANGED <<curr, readyList, sleepList, slice, sleepTicks, descVars,
                   ctx, irq, child, cursor, inService, ticks, mode, idt, masked, iflag>>

\* ltr, and curr_task = &first_task.
FirstCurr ==
    /\ Does("first_curr")
    /\ curr' = First
    /\ UNCHANGED <<readyList, sleepList, taskList, taskLen, state, slice,
                   sleepTicks, descVars, ctx, irq, child, cursor,
                   inService, ticks, mode, idt, masked, iflag>>

-----------------------------------------------------------------------------
(* The tick while curr_task is NULL.                                        *)

\* klist_init has been executed: the first node of the sleep list is its
\* sentinel, where it was NULL before.
ListsMade == \E i, j \in DOMAIN Order : i < j /\ Order[i] = "klist_init" /\ Order[j] = step

\* The walk of the sleep list finds the sentinel and takes one from
\* task_list.len.
LenBehindWalk == IF ListsMade /\ WalkVisitsTail THEN taskLen - 1 ELSE taskLen

\* irq_handler_timer with the task at address 0.  If its slice_ticks happens
\* to become 0, that "task" is appended to the ready list; if task_list.len
\* becomes 0, the sentinel is.  Otherwise task_dispatch leaves what runs, for
\* good, since no task stands for it: to the idle task, or into an exception,
\* whose handler halts, when the idle task has no TSS yet or when the first
\* ready task is the one whose TSS has no entry yet or is in use.
EarlyTick ==
    /\ mode = "ok" /\ iflag /\ curr = NoTask /\ ~inService /\ ~masked
    /\ idt["timer"] = "own"
    /\ ticks' = (ticks + 1) % TickWrap
    /\ inService' = TRUE
    /\ \/ /\ mode' = "corrupt"
          /\ UNCHANGED <<curr, taskLen, state>>
       \/ /\ taskLen' = LenBehindWalk
          /\ LET sentinel == taskLen # LenBehindWalk /\ LenBehindWalk = 0
                 to == task_next_run(readyList)
             IN  IF ~sentinel /\ to = Idle /\ Reaches(Idle)
                 THEN curr' = Idle /\ state' = [state EXCEPT ![Idle] = "RUNNING"] /\ UNCHANGED mode
                 ELSE /\ mode' = IF sentinel THEN "corrupt" ELSE "fault"
                      /\ UNCHANGED <<curr, state>>
    /\ UNCHANGED <<readyList, sleepList, taskList, slice, sleepTicks, descVars, ctx, irq, child, cursor, bootVars>>

-----------------------------------------------------------------------------
BootStep ==
    \/ OtherInit \/ gdt_init \/ irq_init \/ timer_init
    \/ ManagerLists \/ IdleTss \/ IdleList
    \/ main \/ FirstReady \/ FirstList \/ FirstCurr

\* The scheduler's steps, once it has been given the processor.
TaskStep == step = "tasks" /\ Next /\ UNCHANGED bootVars

BootNext == BootStep \/ EarlyTick \/ TaskStep

BootSpec == BootInit /\ [][BootNext]_allVars

\* The processor executes the kernel, and the timer goes on interrupting.
FairBoot ==
    /\ BootSpec
    /\ WF_allVars(BootStep)
    /\ WF_allVars(EarlyTick)
    /\ WF_allVars(step = "tasks" /\ KernelStep /\ UNCHANGED bootVars)
    /\ SF_allVars(step = "tasks" /\ TickSlice /\ UNCHANGED bootVars)

-----------------------------------------------------------------------------
\* What kernel_init and task_first_init have built when curr_task is set is
\* the initial state of the scheduler, whichever ticks arrived: none that was
\* taken before lets the boot go on.
HandsOver == [][step # "tasks" /\ step' = "tasks" => Init']_allVars

\* A tick that was taken is acknowledged, so that the timer goes on
\* interrupting.
TickAcknowledged == inService ~> (~inService \/ mode = "corrupt")
=============================================================================
