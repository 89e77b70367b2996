----------------------------- MODULE TssTasks -----------------------------
(***************************************************************************)
(* The tasks of kernel/tss_old/tss_old.c, their system call fork of        *)
(* kernel/syscall/syscall.c, alloc_pid of task_old.c, the descriptors of   *)
(* gdt/gdt.c and the interrupt protection of irq/irq.c.                    *)
(*                                                                         *)
(* A task is made ready before its TSS is filled, by init_task for a new   *)
(* program and once more by sys_fork, which calls init_task and then puts  *)
(* the caller's registers over what init_task wrote.  What keeps a tick    *)
(* from dispatching the unfinished task is the interrupt flag alone, so    *)
(* the flag is a variable here: the gates clear it, irq_enter_protection   *)
(* clears it, irq_leave_protection puts back what was found, and iret      *)
(* restores it.  The making of a task is cut wherever a tick would find    *)
(* something unfinished.                                                   *)
(*                                                                         *)
(* The tick sends the end of interrupt and then calls task_time_ticks, as  *)
(* the lines kept in Timer.c for these tasks do.  A switch is a jump to a  *)
(* TSS; the task that is left resumes inside its own tick.                 *)
(***************************************************************************)
EXTENDS KListSeq, FiniteSetsExt

CONSTANTS
    Tasks,   \* the pages that kalloc_pages can give for a task_t
    Main,    \* the task that tss_task_init makes of the running context
    NoTask,  \* NULL
    Slots,   \* indices of unused descriptors in the GDT
    Slice    \* TASK_TICKS_DEFAULT

ASSUME TssAssumption ==
    /\ Main \in Tasks /\ NoTask \notin Tasks
    /\ Slots \subseteq Nat \ {0} /\ Slots # {} /\ IsFiniteSet(Slots)
    /\ Slice \in Nat \ {0}

VARIABLES
    cur,        \* task_manager.cur_task
    ready,      \* task_manager.ready_list
    general,    \* task_manager.general_list
    status,     \* task_t.status
    ticks,      \* task_t.ticks
    pid,        \* task_t.pid, 0 before it is assigned
    global_pid, \* the counter of alloc_pid
    tss,        \* what task_t.tss holds: nothing yet, what init_tss writes
                \* ("entry"), or the registers of the parent ("frame")
    sel,        \* task_t.tss_sel as an index, 0 before it is assigned
    gdt,        \* for each descriptor the task whose TSS it describes
    at,         \* where a task stands in the making of another
    child,      \* the task it is making
    forking,    \* it does so inside sys_fork
    found,      \* the flag that init_task found when it entered its protection
    slot,       \* the index that gdt_alloc_seg gave it
    inTick,     \* it was switched away from inside task_time_ticks
    iflag,      \* the interrupt flag of the processor
    mode        \* "ok", or why the system no longer follows the code

taskVars == <<status, ticks, pid, tss, sel>>
makeVars == <<at, child, forking, found, slot>>
vars == <<cur, ready, general, taskVars, global_pid, gdt, makeVars, inTick,
          iflag, mode>>

\* "run": its own code; "pid", "queue", "sel", "tss": in init_task, before the
\* use of the new pid, the lists, gdt_alloc_seg and gdt_segment_set; "fill":
\* in sys_fork behind init_task.
Points == {"run", "pid", "queue", "sel", "tss", "fill"}

\* "halted": hlt with interrupts disabled; "oom": the page at address 0 was
\* used as a task; "corrupt": a descriptor was written outside the table.
Modes == {"ok", "halted", "oom", "corrupt"}

\* gdt_alloc_seg: the first descriptor without attributes.
gdt_alloc_seg == Min({s \in Slots : gdt[s] = NoTask})

\* Behind tss_task_init, and with the interrupts that timer_init enables.
Init ==
    /\ cur = Main
    /\ ready = <<Main>> /\ general = <<Main>>
    /\ status = [t \in Tasks |-> IF t = Main THEN "RUNNING" ELSE "none"]
    /\ ticks = [t \in Tasks |-> Slice]
    /\ pid = [t \in Tasks |-> IF t = Main THEN 1 ELSE 0]
    /\ global_pid = 1
    /\ tss = [t \in Tasks |-> IF t = Main THEN "entry" ELSE "none"]
    /\ sel = [t \in Tasks |-> IF t = Main THEN Min(Slots) ELSE 0]
    /\ gdt = [s \in Slots |-> IF s = Min(Slots) THEN Main ELSE NoTask]
    /\ at = [t \in Tasks |-> "run"]
    /\ child = [t \in Tasks |-> NoTask]
    /\ forking = [t \in Tasks |-> FALSE]
    /\ found = [t \in Tasks |-> TRUE]
    /\ slot = [t \in Tasks |-> 0]
    /\ inTick = [t \in Tasks |-> FALSE]
    /\ iflag = TRUE
    /\ mode = "ok"

-----------------------------------------------------------------------------
(* Interrupt protection.                                                   *)

\* Mutant: the test of irq_disable is the wrong way round.
irq_enter_protection_inverted(flag) == flag

\* irq_enter_protection: the flag behind it, for any flag before it.
irq_enter_protection(flag) == FALSE

\* irq_leave_protection: what irq_enter_protection found is put back.
irq_leave_protection(status_found) == status_found

\* Mutant: the gate of int 0x80 is a trap gate.
TrapGate(flag) == flag

\* The gates of irq_init are interrupt gates: the processor clears the flag.
InterruptGate(flag) == FALSE

-----------------------------------------------------------------------------
(* The functions that the operations are built from.                       *)

\* Mutant: an expired task keeps its place.
task_set_ready_kept(list, t) == IF Contains(list, t) THEN list ELSE klist_append(list, t)

\* Mutant: the node is appended without being looked for.
task_set_ready_twice(list, t) == klist_append(list, t)

\* task_set_ready, its effect on the list.
task_set_ready(list, t) == klist_append(klist_remove(list, t), t)

\* task_schedule and task_FIFO.
task_schedule(list) == Head(list)

Runs(c) == mode = "ok" /\ cur = c /\ ~inTick[c]

\* The running task goes on at a point in the making of another.
Go(c, point) == at' = [at EXCEPT ![c] = point]

-----------------------------------------------------------------------------
(* init_task, called by the kernel's own task through first_proc_init with *)
(* interrupts enabled, or by sys_fork behind the gate.                     *)

\* The protection, kalloc_pages for the task_t, and the increment of alloc_pid.
BeginMaking(c, t, fork) ==
    /\ Runs(c) /\ at[c] = "run"
    /\ status[t] = "none"
    /\ LET flag == IF fork THEN InterruptGate(iflag) ELSE iflag
       IN  /\ found' = [found EXCEPT ![c] = flag]
           /\ iflag' = irq_enter_protection(flag)
    /\ status' = [status EXCEPT ![t] = "CREATED"]
    /\ global_pid' = global_pid + 1
    /\ child' = [child EXCEPT ![c] = t]
    /\ forking' = [forking EXCEPT ![c] = fork]
    /\ Go(c, "pid")
    /\ UNCHANGED <<cur, ready, general, ticks, pid, tss, sel, gdt, slot, inTick, mode>>

init_task(c, t) == c = Main /\ BeginMaking(c, t, FALSE)

sys_fork(c, t) == BeginMaking(c, t, TRUE)

\* kalloc_pages returns 0, which nothing tests: the page at address 0 is used.
\* The pages of stacks and page tables are not counted here, so memory may be
\* used up however many tasks there are.
NoPage(c) ==
    /\ Runs(c) /\ at[c] = "run"
    /\ mode' = "oom"
    /\ UNCHANGED <<cur, ready, general, taskVars, global_pid, gdt, makeVars, inTick, iflag>>

\* alloc_pid returns the counter.
AssignPid(c) ==
    /\ Runs(c) /\ at[c] = "pid"
    /\ pid' = [pid EXCEPT ![child[c]] = global_pid]
    /\ ticks' = [ticks EXCEPT ![child[c]] = Slice]
    /\ Go(c, "queue")
    /\ UNCHANGED <<cur, ready, general, status, tss, sel, global_pid, gdt, child,
                   forking, found, slot, inTick, iflag, mode>>

\* task_set_general and task_set_ready: the task can be dispatched from here.
Enqueue(c) ==
    /\ Runs(c) /\ at[c] = "queue"
    /\ general' = klist_append(general, child[c])
    /\ ready' = task_set_ready(ready, child[c])
    /\ status' = [status EXCEPT ![child[c]] = "READY"]
    /\ Go(c, "sel")
    /\ UNCHANGED <<cur, ticks, pid, tss, sel, global_pid, gdt, child, forking,
                   found, slot, inTick, iflag, mode>>

\* init_tss: gdt_alloc_seg, whose failure is only asserted against.
AllocSelector(c) ==
    /\ Runs(c) /\ at[c] = "sel"
    /\ IF \E s \in Slots : gdt[s] = NoTask
       THEN slot' = [slot EXCEPT ![c] = gdt_alloc_seg] /\ Go(c, "tss") /\ UNCHANGED mode
       ELSE mode' = "corrupt" /\ UNCHANGED <<slot, at>>
    /\ UNCHANGED <<cur, ready, general, taskVars, global_pid, gdt, child, forking,
                   found, inTick, iflag>>

\* Mutant: the descriptor is not filled.
SetTssUnmarked(c) ==
    /\ Runs(c) /\ at[c] = "tss"
    /\ tss' = [tss EXCEPT ![child[c]] = "entry"]
    /\ sel' = [sel EXCEPT ![child[c]] = slot[c]]
    /\ iflag' = irq_leave_protection(found[c])
    /\ Go(c, IF forking[c] THEN "fill" ELSE "run")
    /\ child' = IF forking[c] THEN child ELSE [child EXCEPT ![c] = NoTask]
    /\ UNCHANGED <<cur, ready, general, status, ticks, pid, global_pid, gdt,
                   forking, found, slot, inTick, mode>>

\* The rest of init_tss, gdt_segment_set and the stacks, entry and page table
\* of the TSS, and the end of init_task's protection.
SetTss(c) ==
    /\ Runs(c) /\ at[c] = "tss"
    /\ gdt' = [gdt EXCEPT ![slot[c]] = child[c]]
    /\ tss' = [tss EXCEPT ![child[c]] = "entry"]
    /\ sel' = [sel EXCEPT ![child[c]] = slot[c]]
    /\ iflag' = irq_leave_protection(found[c])
    /\ Go(c, IF forking[c] THEN "fill" ELSE "run")
    /\ child' = IF forking[c] THEN child ELSE [child EXCEPT ![c] = NoTask]
    /\ UNCHANGED <<cur, ready, general, status, ticks, pid, global_pid,
                   forking, found, slot, inTick, mode>>

\* The rest of sys_fork: inside a protection of its own, whose flag it keeps in
\* proc_manager.irq_state, the caller's registers are put in the child's TSS,
\* with 0 as its result; the pid is the caller's, and iret enables interrupts.
FillChild(c) ==
    /\ Runs(c) /\ at[c] = "fill"
    /\ tss' = [tss EXCEPT ![child[c]] = "frame"]
    /\ iflag' = TRUE
    /\ Go(c, "run")
    /\ child' = [child EXCEPT ![c] = NoTask]
    /\ forking' = [forking EXCEPT ![c] = FALSE]
    /\ UNCHANGED <<cur, ready, general, status, ticks, pid, sel, global_pid, gdt,
                   found, slot, inTick, mode>>

\* sys_write, sys_read, sys_malloc and sys_putchar execute hlt behind the
\* interrupt gate: no interrupt can end it.
SysHalt(c) ==
    /\ Runs(c) /\ at[c] = "run"
    /\ ~InterruptGate(iflag)
    /\ mode' = "halted"
    /\ iflag' = FALSE
    /\ UNCHANGED <<cur, ready, general, taskVars, global_pid, gdt, makeVars, inTick>>

-----------------------------------------------------------------------------
(* The tick.                                                               *)

\* task_dispatch, called with the given list and status, and the interrupt
\* flag of the task that runs behind it: enabled in a TSS that was never
\* loaded, disabled in the tick of a task that was switched away.  When no
\* switch takes place the handler returns.
task_dispatch(list, st) ==
    LET next == task_schedule(list)
    IN  IF next # cur /\ st[next] = "READY"
        THEN /\ cur' = next
             /\ status' = [st EXCEPT ![next] = "RUNNING"]
             /\ inTick' = [inTick EXCEPT ![cur] = TRUE]
             /\ iflag' = ~inTick[next]
        ELSE status' = st /\ UNCHANGED <<cur, inTick, iflag>>

\* task_time_ticks, behind the end of interrupt.
task_time_ticks ==
    /\ mode = "ok" /\ iflag
    /\ IF ticks[cur] - 1 <= 0
       THEN /\ ready' = task_set_ready(ready, cur)
            /\ ticks' = [ticks EXCEPT ![cur] = Slice]
            /\ task_dispatch(task_set_ready(ready, cur), [status EXCEPT ![cur] = "READY"])
       ELSE /\ ticks' = [ticks EXCEPT ![cur] = @ - 1]
            /\ UNCHANGED <<cur, ready, status, inTick, iflag>>
    /\ UNCHANGED <<general, pid, tss, sel, global_pid, gdt, makeVars, mode>>

\* A task that is dispatched inside its tick leaves the protection, which found
\* the flag cleared, and returns with iret.
TickReturn ==
    /\ mode = "ok" /\ inTick[cur]
    /\ inTick' = [inTick EXCEPT ![cur] = FALSE]
    /\ iflag' = TRUE
    /\ UNCHANGED <<cur, ready, general, taskVars, global_pid, gdt, makeVars, mode>>

-----------------------------------------------------------------------------
\* The steps of kernel code that is running.
KernelStep ==
    \/ TickReturn
    \/ \E c \in Tasks : AssignPid(c) \/ Enqueue(c) \/ AllocSelector(c) \/ SetTss(c) \/ FillChild(c)

Next ==
    \/ task_time_ticks \/ KernelStep
    \/ \E c \in Tasks : NoPage(c) \/ SysHalt(c)
    \/ \E c, t \in Tasks : init_task(c, t) \/ sys_fork(c, t)

Spec == Init /\ [][Next]_vars

\* The processor executes the kernel, and the controller latches a tick until
\* interrupts are enabled; nothing is assumed of the tasks.
FairSpec == Spec /\ WF_vars(KernelStep) /\ SF_vars(task_time_ticks)

-----------------------------------------------------------------------------
Made == {t \in Tasks : pid[t] > 0}
BeingMade == {child[c] : c \in Tasks}

\* The type of the state; a slice is restored before it reaches 0.
TypeOK ==
    /\ cur \in Tasks
    /\ ready \in Seq(Tasks) /\ general \in Seq(Tasks)
    /\ status \in [Tasks -> {"none", "CREATED", "READY", "RUNNING"}]
    /\ ticks \in [Tasks -> 1..Slice]
    /\ pid \in [Tasks -> Nat] /\ global_pid \in Nat
    /\ tss \in [Tasks -> {"none", "entry", "frame"}]
    /\ sel \in [Tasks -> Slots \cup {0}]
    /\ gdt \in [Slots -> Tasks \cup {NoTask}]
    /\ at \in [Tasks -> Points]
    /\ child \in [Tasks -> Tasks \cup {NoTask}]
    /\ forking \in [Tasks -> BOOLEAN] /\ found \in [Tasks -> BOOLEAN]
    /\ slot \in [Tasks -> Slots \cup {0}]
    /\ inTick \in [Tasks -> BOOLEAN] /\ iflag \in BOOLEAN
    /\ mode \in Modes

\* A task is on the ready list while its TSS is empty, and then again while it
\* holds an entry in place of the parent's registers; it never runs then.  No
\* single protection spans init_task and the rest of sys_fork: that the flag is
\* not enabled between them rests on the gate of int 0x80 and on
\* irq_leave_protection putting back what it found.
NeverRunsHalfMade == tss[cur] # "none" /\ cur \notin BeingMade

\* alloc_pid gives every task its own pid, although it increments and reads a
\* counter that all tasks share, without a lock of its own.
PidsDistinct == \A t, u \in Made : pid[t] = pid[u] => t = u

\* A task that can be switched to has a descriptor that describes its own TSS:
\* gdt_alloc_seg only finds a free one, and it is taken later, by
\* gdt_segment_set.
DescriptorOwned == \A t \in Tasks : tss[t] # "none" => sel[t] \in Slots /\ gdt[sel[t]] = t

\* The ready list is a round-robin queue.
RR == INSTANCE RoundRobin WITH Members <- Tasks, Starter <- Main, queue <- ready
ReadyIsRoundRobin == RR!RRSpec

\* A task that was made gets the processor, and again and again, whatever the
\* others do except halting the processor or using up a resource.
EveryTaskRuns == \A t \in Tasks : t \in ToSet(general) ~> cur = t \/ mode # "ok"
=============================================================================
