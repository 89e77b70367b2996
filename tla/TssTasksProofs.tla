-------------------------- MODULE TssTasksProofs --------------------------
(***************************************************************************)
(* The safety properties of the TSS tasks, for any set of tasks, any       *)
(* number of descriptors and any time slice.                               *)
(*                                                                         *)
(* The argument rests on one fact that no line of the code states: only    *)
(* the running task can be inside init_task or sys_fork, because it has    *)
(* interrupts disabled from their first line to their last.                *)
(***************************************************************************)
EXTENDS TssTasks, KListSeqProofs, WellFoundedInduction

-----------------------------------------------------------------------------
(* The inductive invariant.                                                *)

\* Only the running task is making another, with interrupts disabled; inside
\* sys_fork init_task found them disabled too.
MakerRuns ==
    \A c \in Tasks :
        /\ at[c] = "run" <=> child[c] = NoTask
        /\ at[c] # "run" =>
              /\ c = cur /\ ~iflag /\ ~inTick[c]
              /\ child[c] # c
              /\ forking[c] => ~found[c]
              /\ at[c] = "fill" => forking[c]

\* The ready list holds the tasks that were made ready, each once, and the
\* running task is its first.
ReadyListed ==
    /\ IsInjective(ready) /\ ready # << >> /\ Head(ready) = cur
    /\ \A t \in Tasks : t \in ToSet(ready) <=> status[t] \in {"READY", "RUNNING"}
    /\ \A t \in Tasks : status[t] = "RUNNING" => t = cur

\* How far a task is made: nothing of an unused one, no TSS before it is ready,
\* and no ready task without a TSS other than the one being made.
MadeSoFar ==
    \A t \in Tasks :
        /\ status[t] = "none" => pid[t] = 0
        /\ status[t] \in {"none", "CREATED"} => tss[t] = "none"
        /\ status[t] = "CREATED" => at[cur] \in {"pid", "queue"} /\ t = child[cur]
        /\ status[t] \in {"READY", "RUNNING"} /\ tss[t] = "none" =>
              at[cur] \in {"sel", "tss"} /\ t = child[cur]

\* What the maker relies on at each point.
ChildSoFar ==
    /\ at[cur] \in {"pid", "queue"} => status[child[cur]] = "CREATED"
    /\ at[cur] \in {"sel", "tss"} => tss[child[cur]] = "none"
    /\ at[cur] \in {"sel", "tss", "fill"} => status[child[cur]] = "READY"
    /\ at[cur] = "fill" => tss[child[cur]] = "entry"
    /\ at[cur] = "tss" => slot[cur] \in Slots /\ gdt[slot[cur]] = NoTask

\* No pid is above the counter, and between its increment and its use the
\* counter is above them all.
CounterAhead ==
    /\ \A t \in Tasks : pid[t] <= global_pid
    /\ at[cur] = "pid" => \A t \in Tasks : pid[t] < global_pid

TssInv ==
    /\ TypeOK /\ MakerRuns /\ ReadyListed /\ MadeSoFar /\ ChildSoFar
    /\ CounterAhead /\ PidsDistinct /\ DescriptorOwned

-----------------------------------------------------------------------------
(* Facts about the functions that the operations are built from.           *)

\* The first of a nonempty set of indices exists, and is in the set.
LEMMA FirstIndex ==
    ASSUME NEW S \in SUBSET Nat, S # {}
    PROVE  Min(S) \in S /\ \A s \in S : Min(S) <= s
<1>1. PICK x \in S : \A y \in S : ~ (<<y, x>> \in OpToRel(<, Nat))
  BY NatLessThanWellFounded, WFMin, Zenon
<1>2. ASSUME NEW y \in S
      PROVE  x <= y
  <2>1. x \in Nat /\ y \in Nat
    OBVIOUS
  <2>2. ~ (y < x)
    BY <1>1, <2>1 DEF OpToRel
  <2> QED
    BY <2>1, <2>2
<1> QED
  BY <1>2 DEF Min

\* gdt_alloc_seg gives a descriptor that is free.
LEMMA AllocSegFree ==
    ASSUME TypeOK, \E s \in Slots : gdt[s] = NoTask
    PROVE  gdt_alloc_seg \in Slots /\ gdt[gdt_alloc_seg] = NoTask
<1> DEFINE F == {s \in Slots : gdt[s] = NoTask}
<1>1. F \in SUBSET Nat /\ F # {}
  BY TssAssumption
<1>2. Min(F) \in F
  BY <1>1, FirstIndex
<1> QED
  BY <1>2 DEF gdt_alloc_seg

\* task_set_ready of the running task, the first of the list: it passes the
\* turn.
LEMMA RequeueCur ==
    ASSUME TypeOK, ReadyListed
    PROVE  /\ task_set_ready(ready, cur) = Append(Tail(ready), cur)
           /\ task_set_ready(ready, cur) \in Seq(Tasks)
           /\ task_set_ready(ready, cur) # << >>
           /\ IsInjective(task_set_ready(ready, cur))
           /\ ToSet(task_set_ready(ready, cur)) = ToSet(ready)
BY FirstToBack DEF TypeOK, ReadyListed, task_set_ready

\* task_set_ready of a task that is not on the list: it joins at the back.
LEMMA ReadyNew ==
    ASSUME TypeOK, ReadyListed, NEW t \in Tasks, t \notin ToSet(ready)
    PROVE  /\ task_set_ready(ready, t) = Append(ready, t)
           /\ task_set_ready(ready, t) \in Seq(Tasks)
           /\ task_set_ready(ready, t) # << >>
           /\ IsInjective(task_set_ready(ready, t))
           /\ ToSet(task_set_ready(ready, t)) = ToSet(ready) \cup {t}
           /\ Head(task_set_ready(ready, t)) = cur
<1>1. ready \in Seq(Tasks) /\ IsInjective(ready) /\ ready # << >> /\ Head(ready) = cur
  BY DEF TypeOK, ReadyListed
<1>2. klist_remove(ready, t) = ready
  BY <1>1, RemoveAbsent
<1>3. task_set_ready(ready, t) = klist_append(ready, t)
  BY <1>2 DEF task_set_ready
<1>4. task_set_ready(ready, t) = Append(ready, t)
  BY <1>3 DEF klist_append
<1>5. /\ klist_append(ready, t) \in Seq(Tasks)
      /\ IsInjective(klist_append(ready, t))
      /\ ToSet(klist_append(ready, t)) = ToSet(ready) \cup {t}
      /\ klist_append(ready, t) # << >>
      /\ Head(klist_append(ready, t)) = cur
  BY <1>1, AppendLinks
<1> QED
  BY <1>3, <1>4, <1>5

\* The running task is on the ready list.
LEMMA CurListed ==
    ASSUME TypeOK, ReadyListed
    PROVE  cur \in ToSet(ready) /\ status[cur] \in {"READY", "RUNNING"}
<1>1. ready \in Seq(Tasks) /\ ready # << >> /\ Head(ready) = cur /\ cur \in Tasks
  BY DEF TypeOK, ReadyListed
<1>2. 1 \in DOMAIN ready /\ ready[1] = cur
  BY <1>1
<1>3. cur \in ToSet(ready)
  BY <1>2 DEF ToSet
<1> QED
  BY <1>1, <1>3 DEF ReadyListed

-----------------------------------------------------------------------------
(* The invariant holds initially.                                          *)

\* The state behind tss_task_init satisfies TssInv.
LEMMA TssInit == Init => TssInv
<1> SUFFICES ASSUME Init PROVE TssInv
  OBVIOUS
<1> USE TssAssumption
<1>1. Min(Slots) \in Slots /\ Slots \subseteq Nat
  BY FirstIndex
<1>2. TypeOK
  BY <1>1 DEF Init, TypeOK, Points, Modes
<1>3. ToSet(ready) = {Main} /\ IsInjective(ready)
  BY DEF Init, ToSet, IsInjective
<1>4. MakerRuns /\ ReadyListed /\ MadeSoFar /\ ChildSoFar
  BY <1>3 DEF Init, MakerRuns, ReadyListed, MadeSoFar, ChildSoFar
<1>5. CounterAhead /\ PidsDistinct
  BY DEF Init, CounterAhead, PidsDistinct, Made
<1>6. DescriptorOwned
  BY <1>1 DEF Init, DescriptorOwned
<1> QED
  BY <1>2, <1>4, <1>5, <1>6 DEF TssInv

-----------------------------------------------------------------------------
(* Every operation keeps the invariant.                                    *)

\* Entering init_task or sys_fork keeps TssInv: interrupts are off from here.
LEMMA BeginMakingInv ==
    ASSUME TssInv, NEW c \in Tasks, NEW t \in Tasks, NEW fork \in BOOLEAN,
           BeginMaking(c, t, fork)
    PROVE  TssInv'
<1> USE TssAssumption DEF BeginMaking, Runs, Go
<1>1. TypeOK /\ MakerRuns /\ ReadyListed /\ MadeSoFar /\ ChildSoFar
      /\ CounterAhead /\ PidsDistinct /\ DescriptorOwned
  BY DEF TssInv
<1>2. cur = c /\ cur' = cur /\ status[cur] \in {"READY", "RUNNING"} /\ t # cur
  BY <1>1, CurListed
<1>3. TypeOK'
  <2>1. found' \in [Tasks -> BOOLEAN] /\ iflag' = FALSE
    BY <1>1 DEF TypeOK, InterruptGate, irq_enter_protection
  <2>2. forking' \in [Tasks -> BOOLEAN] /\ iflag' \in BOOLEAN
    BY <1>1, <2>1 DEF TypeOK
  <2>3. status' \in [Tasks -> {"none", "CREATED", "READY", "RUNNING"}]
        /\ global_pid' \in Nat /\ child' \in [Tasks -> Tasks \cup {NoTask}]
        /\ at' \in [Tasks -> Points]
    BY <1>1 DEF TypeOK, Points
  <2> QED
    BY <1>1, <2>1, <2>2, <2>3 DEF TypeOK
<1>4. MakerRuns'
  <2>1. fork => found'[c] = FALSE
    BY <1>1 DEF TypeOK, InterruptGate
  <2>2. iflag' = FALSE
    BY DEF irq_enter_protection
  <2> QED
    BY <1>1, <1>2, <2>1, <2>2 DEF MakerRuns, TypeOK
<1>5. ReadyListed'
  BY <1>1, <1>2 DEF ReadyListed, TypeOK
<1>6. MadeSoFar'
  BY <1>1, <1>2 DEF MadeSoFar, MakerRuns, TypeOK
<1>7. ChildSoFar'
  BY <1>1, <1>2 DEF ChildSoFar, MadeSoFar, TypeOK
<1>8. CounterAhead' /\ PidsDistinct'
  BY <1>1, <1>2 DEF CounterAhead, PidsDistinct, Made, TypeOK
<1>9. DescriptorOwned'
  BY <1>1 DEF DescriptorOwned
<1> QED
  BY <1>3, <1>4, <1>5, <1>6, <1>7, <1>8, <1>9 DEF TssInv

\* The pid that is assigned is above all that were.
LEMMA AssignPidInv ==
    ASSUME TssInv, NEW c \in Tasks, AssignPid(c)
    PROVE  TssInv'
<1> USE TssAssumption DEF AssignPid, Runs, Go
<1>1. TypeOK /\ MakerRuns /\ ReadyListed /\ MadeSoFar /\ ChildSoFar
      /\ CounterAhead /\ PidsDistinct /\ DescriptorOwned
  BY DEF TssInv
<1>2. cur = c /\ cur' = cur /\ child[c] \in Tasks /\ child[c] # c
  BY <1>1 DEF MakerRuns, TypeOK
<1>3. TypeOK'
  <2>1. pid' \in [Tasks -> Nat]
    BY <1>1 DEF TypeOK
  <2>2. ticks' \in [Tasks -> 1..Slice]
    <3>1. Slice \in 1..Slice
      BY TssAssumption
    <3>2. ticks \in [Tasks -> 1..Slice] /\ ticks' = [ticks EXCEPT ![child[c]] = Slice]
      BY <1>1 DEF TypeOK
    <3> QED
      BY <3>1, <3>2
  <2>3. at' \in [Tasks -> Points]
    BY <1>1 DEF TypeOK, Points
  <2> QED
    BY <1>1, <2>1, <2>2, <2>3 DEF TypeOK
<1>4. MakerRuns'
  BY <1>1, <1>2 DEF MakerRuns, TypeOK
<1>5. ReadyListed'
  BY <1>1, <1>2 DEF ReadyListed
<1>6. MadeSoFar'
  BY <1>1, <1>2 DEF MadeSoFar, ChildSoFar, TypeOK
<1>7. ChildSoFar'
  BY <1>1, <1>2 DEF ChildSoFar, TypeOK
<1>8. CounterAhead'
  BY <1>1, <1>2 DEF CounterAhead, TypeOK
<1>9. PidsDistinct'
  BY <1>1, <1>2 DEF CounterAhead, PidsDistinct, Made, TypeOK
<1>10. DescriptorOwned'
  BY <1>1 DEF DescriptorOwned
<1> QED
  BY <1>3, <1>4, <1>5, <1>6, <1>7, <1>8, <1>9, <1>10 DEF TssInv

\* The task joins the ready list while it has no TSS.
LEMMA EnqueueInv ==
    ASSUME TssInv, NEW c \in Tasks, Enqueue(c)
    PROVE  TssInv'
<1> USE TssAssumption DEF Enqueue, Runs, Go
<1>1. TypeOK /\ MakerRuns /\ ReadyListed /\ MadeSoFar /\ ChildSoFar
      /\ CounterAhead /\ PidsDistinct /\ DescriptorOwned
  BY DEF TssInv
<1>2. cur = c /\ cur' = cur /\ child[c] \in Tasks /\ child[c] # c
      /\ status[child[c]] = "CREATED"
  BY <1>1 DEF MakerRuns, ChildSoFar, TypeOK
<1>3. child[c] \notin ToSet(ready)
  BY <1>1, <1>2 DEF ReadyListed
<1>4. /\ ready' \in Seq(Tasks) /\ ready' # << >> /\ IsInjective(ready')
      /\ ToSet(ready') = ToSet(ready) \cup {child[c]} /\ Head(ready') = cur
  BY <1>1, <1>2, <1>3, ReadyNew
<1>5. TypeOK'
  <2>1. general' \in Seq(Tasks)
    BY <1>1, <1>2 DEF TypeOK, klist_append
  <2>2. status' \in [Tasks -> {"none", "CREATED", "READY", "RUNNING"}]
        /\ at' \in [Tasks -> Points]
    BY <1>1 DEF TypeOK, Points
  <2> QED
    BY <1>1, <1>4, <2>1, <2>2 DEF TypeOK
<1>6. MakerRuns'
  BY <1>1, <1>2 DEF MakerRuns, TypeOK
<1>7. ReadyListed'
  <2>1. \A t \in Tasks : t \in ToSet(ready)' <=> status'[t] \in {"READY", "RUNNING"}
    BY <1>1, <1>2, <1>4 DEF ReadyListed, TypeOK
  <2>2. \A t \in Tasks : status'[t] = "RUNNING" => t = cur'
    BY <1>1, <1>2 DEF ReadyListed, TypeOK
  <2> QED
    BY <1>2, <1>4, <2>1, <2>2 DEF ReadyListed
<1>8. MadeSoFar'
  BY <1>1, <1>2 DEF MadeSoFar, TypeOK
<1>9. ChildSoFar'
  BY <1>1, <1>2 DEF ChildSoFar, MadeSoFar, TypeOK
<1>10. CounterAhead' /\ PidsDistinct'
  BY <1>1, <1>2 DEF CounterAhead, PidsDistinct, Made, TypeOK
<1>11. DescriptorOwned'
  BY <1>1 DEF DescriptorOwned
<1> QED
  BY <1>5, <1>6, <1>7, <1>8, <1>9, <1>10, <1>11 DEF TssInv
\* The descriptor that is chosen is free; when there is none nothing is claimed.
LEMMA AllocSelectorInv ==
    ASSUME TssInv, NEW c \in Tasks, AllocSelector(c)
    PROVE  TssInv'
<1> USE TssAssumption DEF AllocSelector, Runs, Go
<1>1. TypeOK /\ MakerRuns /\ ReadyListed /\ MadeSoFar /\ ChildSoFar
      /\ CounterAhead /\ PidsDistinct /\ DescriptorOwned
  BY DEF TssInv
<1>2. cur = c /\ UNCHANGED <<cur, ready, general, taskVars, global_pid, gdt,
                             child, forking, found, inTick, iflag>>
  OBVIOUS
<1>3. CASE \E s \in Slots : gdt[s] = NoTask
  <2>1. gdt_alloc_seg \in Slots /\ gdt[gdt_alloc_seg] = NoTask
    BY <1>1, <1>3, AllocSegFree
  <2>2. slot' = [slot EXCEPT ![c] = gdt_alloc_seg] /\ at' = [at EXCEPT ![c] = "tss"]
        /\ mode' = mode /\ at[c] = "sel"
    BY <1>3
  <2> HIDE DEF AllocSelector
  <2>3. TypeOK'
    BY <1>1, <1>2, <2>1, <2>2 DEF TypeOK, Points, taskVars
  <2>4. MakerRuns' /\ ReadyListed'
    BY <1>1, <1>2, <2>2 DEF MakerRuns, ReadyListed, TypeOK, taskVars
  <2>5. MadeSoFar'
    BY <1>1, <1>2, <2>2 DEF MadeSoFar, TypeOK, taskVars
  <2>6. ChildSoFar'
    BY <1>1, <1>2, <2>1, <2>2 DEF ChildSoFar, TypeOK, taskVars
  <2>7. CounterAhead' /\ PidsDistinct' /\ DescriptorOwned'
    BY <1>1, <1>2, <2>2 DEF CounterAhead, PidsDistinct, Made, DescriptorOwned, TypeOK, taskVars
  <2> QED
    BY <2>3, <2>4, <2>5, <2>6, <2>7 DEF TssInv
<1>4. CASE ~ \E s \in Slots : gdt[s] = NoTask
  <2>1. UNCHANGED <<slot, at>> /\ mode' \in Modes
    BY <1>4 DEF Modes
  <2> HIDE DEF AllocSelector
  <2>2. TypeOK'
    BY <1>1, <1>2, <2>1 DEF TypeOK, taskVars
  <2>3. MakerRuns' /\ ReadyListed'
    BY <1>1, <1>2, <2>1 DEF MakerRuns, ReadyListed, taskVars
  <2>4. MadeSoFar'
    BY <1>1, <1>2, <2>1 DEF MadeSoFar, taskVars
  <2>5. ChildSoFar'
    BY <1>1, <1>2, <2>1 DEF ChildSoFar, taskVars
  <2>6. CounterAhead' /\ PidsDistinct' /\ DescriptorOwned'
    BY <1>1, <1>2, <2>1 DEF CounterAhead, PidsDistinct, Made, DescriptorOwned, taskVars
  <2> QED
    BY <2>2, <2>3, <2>4, <2>5, <2>6 DEF TssInv
<1> QED
  BY <1>3, <1>4

\* Taking the descriptor leaves the other tasks theirs, and the end of the
\* protection enables interrupts only when no fork is going on.
LEMMA SetTssInv ==
    ASSUME TssInv, NEW c \in Tasks, SetTss(c)
    PROVE  TssInv'
<1> USE TssAssumption DEF SetTss, Runs, Go, irq_leave_protection
<1>1. TypeOK /\ MakerRuns /\ ReadyListed /\ MadeSoFar /\ ChildSoFar
      /\ CounterAhead /\ PidsDistinct /\ DescriptorOwned
  BY DEF TssInv
<1>2. cur = c /\ cur' = cur /\ child[c] \in Tasks /\ child[c] # c
      /\ slot[c] \in Slots /\ gdt[slot[c]] = NoTask /\ tss[child[c]] = "none"
      /\ status[child[c]] = "READY"
  BY <1>1 DEF MakerRuns, ChildSoFar, TypeOK
<1>3. TypeOK'
  <2>1. gdt' \in [Slots -> Tasks \cup {NoTask}] /\ sel' \in [Tasks -> Slots \cup {0}]
        /\ tss' \in [Tasks -> {"none", "entry", "frame"}]
    BY <1>1, <1>2 DEF TypeOK
  <2>2. at' \in [Tasks -> Points] /\ child' \in [Tasks -> Tasks \cup {NoTask}]
    BY <1>1, <1>2 DEF TypeOK, Points
  <2>3. iflag' \in BOOLEAN
    BY <1>1 DEF TypeOK
  <2> QED
    BY <1>1, <2>1, <2>2, <2>3 DEF TypeOK
<1>4. MakerRuns'
  <2>1. CASE forking[c]
    <3>1. found[c] = FALSE
      BY <1>1, <2>1 DEF MakerRuns, TypeOK
    <3> QED
      BY <1>1, <1>2, <2>1, <3>1 DEF MakerRuns, TypeOK
  <2>2. CASE ~forking[c]
    BY <1>1, <1>2, <2>2 DEF MakerRuns, TypeOK
  <2> QED
    BY <2>1, <2>2
<1>5. ReadyListed'
  BY <1>1, <1>2 DEF ReadyListed
<1>6. MadeSoFar'
  BY <1>1, <1>2 DEF MadeSoFar, TypeOK
<1>7. ChildSoFar'
  BY <1>1, <1>2 DEF ChildSoFar, TypeOK
<1>8. CounterAhead' /\ PidsDistinct'
  BY <1>1, <1>2 DEF CounterAhead, PidsDistinct, Made, TypeOK
<1>9. DescriptorOwned'
  <2> SUFFICES ASSUME NEW t \in Tasks, tss'[t] # "none"
               PROVE  sel'[t] \in Slots /\ gdt'[sel'[t]] = t
    BY DEF DescriptorOwned
  <2>1. CASE t = child[c]
    BY <1>1, <1>2, <2>1 DEF TypeOK
  <2>2. CASE t # child[c]
    <3>1. sel'[t] = sel[t] /\ sel[t] \in Slots /\ gdt[sel[t]] = t
      BY <1>1, <1>2, <2>2 DEF DescriptorOwned, TypeOK
    <3>2. sel[t] # slot[c]
      BY <1>2, <3>1
    <3> QED
      BY <1>1, <3>1, <3>2 DEF TypeOK
  <2> QED
    BY <2>1, <2>2
<1> QED
  BY <1>3, <1>4, <1>5, <1>6, <1>7, <1>8, <1>9 DEF TssInv

\* The rest of sys_fork completes the child and enables interrupts.
LEMMA FillChildInv ==
    ASSUME TssInv, NEW c \in Tasks, FillChild(c)
    PROVE  TssInv'
<1> USE TssAssumption DEF FillChild, Runs, Go
<1>1. TypeOK /\ MakerRuns /\ ReadyListed /\ MadeSoFar /\ ChildSoFar
      /\ CounterAhead /\ PidsDistinct /\ DescriptorOwned
  BY DEF TssInv
<1>2. cur = c /\ cur' = cur /\ child[c] \in Tasks /\ child[c] # c
      /\ tss[child[c]] = "entry" /\ status[child[c]] = "READY"
  BY <1>1 DEF MakerRuns, ChildSoFar, TypeOK
<1>3. TypeOK'
  <2>1. forking' \in [Tasks -> BOOLEAN] /\ iflag' \in BOOLEAN
    BY <1>1 DEF TypeOK
  <2>2. tss' \in [Tasks -> {"none", "entry", "frame"}] /\ at' \in [Tasks -> Points]
        /\ child' \in [Tasks -> Tasks \cup {NoTask}]
    BY <1>1 DEF TypeOK, Points
  <2> QED
    BY <1>1, <2>1, <2>2 DEF TypeOK
<1>4. MakerRuns'
  BY <1>1, <1>2 DEF MakerRuns, TypeOK
<1>5. ReadyListed'
  BY <1>1, <1>2 DEF ReadyListed
<1>6. MadeSoFar'
  BY <1>1, <1>2 DEF MadeSoFar, TypeOK
<1>7. ChildSoFar'
  BY <1>1, <1>2 DEF ChildSoFar, TypeOK
<1>8. CounterAhead' /\ PidsDistinct'
  BY <1>1, <1>2 DEF CounterAhead, PidsDistinct, Made, TypeOK
<1>9. DescriptorOwned'
  BY <1>1, <1>2 DEF DescriptorOwned, TypeOK
<1> QED
  BY <1>3, <1>4, <1>5, <1>6, <1>7, <1>8, <1>9 DEF TssInv

\* The tick finds no task half made, because interrupts are enabled; the task
\* it switches to is the first of the list.
LEMMA TickInv ==
    ASSUME TssInv, task_time_ticks
    PROVE  TssInv'
<1> USE TssAssumption
<1>1. TypeOK /\ MakerRuns /\ ReadyListed /\ MadeSoFar /\ ChildSoFar
      /\ CounterAhead /\ PidsDistinct /\ DescriptorOwned
  BY DEF TssInv
<1>2. iflag /\ UNCHANGED <<general, pid, tss, sel, global_pid, gdt, makeVars, mode>>
  BY DEF task_time_ticks
<1>3. /\ cur \in Tasks /\ Slice \in Nat
      /\ \A c \in Tasks : at[c] = "run" /\ child[c] = NoTask
  BY <1>1, <1>2 DEF MakerRuns, TypeOK
<1>4. CASE ticks[cur] - 1 <= 0
  <2> DEFINE rl == task_set_ready(ready, cur)
             st == [status EXCEPT ![cur] = "READY"]
             next == Head(rl)
  <2>1. /\ rl \in Seq(Tasks) /\ rl # << >> /\ IsInjective(rl)
        /\ ToSet(rl) = ToSet(ready)
    BY <1>1, RequeueCur
  <2>2. /\ ready' = rl /\ ticks' = [ticks EXCEPT ![cur] = Slice]
        /\ task_dispatch(rl, st)
    BY <1>4 DEF task_time_ticks
  <2>3. st \in [Tasks -> {"none", "CREATED", "READY", "RUNNING"}]
    BY <1>1 DEF TypeOK
  <2> HIDE DEF rl
  <2>4. next \in Tasks /\ next \in ToSet(rl)
    <3>1. 1 \in DOMAIN rl /\ rl[1] = next /\ next \in Tasks
      BY <2>1
    <3> QED
      BY <3>1 DEF ToSet
  <2> HIDE DEF next
  <2>5. st[next] = "READY"
    BY <1>1, <2>1, <2>4, CurListed DEF ReadyListed, TypeOK
  <2>6. /\ \A t \in Tasks : st[t] # "RUNNING"
        /\ \A t \in Tasks : t \in ToSet(ready) <=> st[t] = "READY"
        /\ \A t \in Tasks : st[t] \in {"none", "CREATED"} <=> status[t] \in {"none", "CREATED"}
        /\ \A t \in Tasks : st[t] \in {"none", "CREATED"} => st[t] = status[t]
    BY <1>1, CurListed DEF ReadyListed, TypeOK
  <2> HIDE DEF st
  <2>7. /\ cur' = next /\ inTick' \in [Tasks -> BOOLEAN] /\ iflag' \in BOOLEAN
        /\ status' = st \/ status' = [st EXCEPT ![next] = "RUNNING"]
    <3>1. CASE next # cur
      <4>1. /\ cur' = next /\ status' = [st EXCEPT ![next] = "RUNNING"]
            /\ inTick' = [inTick EXCEPT ![cur] = TRUE] /\ iflag' = ~inTick[next]
        BY <2>2, <2>5, <3>1 DEF task_dispatch, task_schedule, next
      <4>2. iflag' \in BOOLEAN
        BY <4>1
      <4>3. inTick' \in [Tasks -> BOOLEAN]
        BY <1>1, <4>1 DEF TypeOK
      <4> QED
        BY <4>1, <4>2, <4>3
    <3>2. CASE next = cur
      BY <1>1, <2>2, <3>2 DEF task_dispatch, task_schedule, next, TypeOK
    <3> QED
      BY <3>1, <3>2
  <2>8. TypeOK'
    <3>1. status' \in [Tasks -> {"none", "CREATED", "READY", "RUNNING"}]
      BY <2>3, <2>4, <2>7
    <3>2. ticks' \in [Tasks -> 1..Slice]
      BY <1>1, <1>3, <2>2 DEF TypeOK
    <3> QED
      BY <1>1, <1>2, <2>1, <2>2, <2>4, <2>7, <3>1, <3>2 DEF TypeOK, makeVars
  <2>9. MakerRuns'
    BY <1>1, <1>2, <1>3 DEF MakerRuns, makeVars
  <2>10. ReadyListed'
    <3>1. \A t \in Tasks : t \in ToSet(ready') <=> status'[t] \in {"READY", "RUNNING"}
      BY <2>1, <2>2, <2>3, <2>4, <2>5, <2>6, <2>7
    <3>2. \A t \in Tasks : status'[t] = "RUNNING" => t = cur'
      BY <2>3, <2>6, <2>7
    <3> QED
      BY <2>1, <2>2, <2>7, <3>1, <3>2 DEF ReadyListed, next
  <2>11. MadeSoFar'
    <3>1. \A t \in Tasks : /\ status'[t] \in {"none", "CREATED"} => status'[t] = status[t]
                           /\ status'[t] \in {"READY", "RUNNING"} => status[t] \in {"READY", "RUNNING"}
      <4> SUFFICES ASSUME NEW t \in Tasks
                   PROVE  /\ status'[t] \in {"none", "CREATED"} => status'[t] = status[t]
                          /\ status'[t] \in {"READY", "RUNNING"} => status[t] \in {"READY", "RUNNING"}
        OBVIOUS
      <4>1. status[t] \in {"none", "CREATED", "READY", "RUNNING"}
        BY <1>1 DEF TypeOK
      <4>2. status'[t] = st[t] \/ (t = next /\ status'[t] = "RUNNING")
        BY <2>3, <2>7
      <4>3. st[t] \in {"none", "CREATED", "READY"}
        BY <2>3, <2>6
      <4> QED
        BY <2>5, <2>6, <4>1, <4>2, <4>3
    <3> QED
      BY <1>1, <1>2, <1>3, <3>1 DEF MadeSoFar, makeVars
  <2>12. ChildSoFar' /\ CounterAhead'
    BY <1>1, <1>2, <1>3, <2>4, <2>7 DEF ChildSoFar, CounterAhead, makeVars
  <2>13. PidsDistinct' /\ DescriptorOwned'
    BY <1>1, <1>2 DEF PidsDistinct, Made, DescriptorOwned
  <2> QED
    BY <2>8, <2>9, <2>10, <2>11, <2>12, <2>13 DEF TssInv
<1>5. CASE ~ (ticks[cur] - 1 <= 0)
  <2>1. /\ ticks' = [ticks EXCEPT ![cur] = @ - 1]
        /\ UNCHANGED <<cur, ready, status, inTick, iflag>>
    BY <1>5 DEF task_time_ticks
  <2>2. ticks' \in [Tasks -> 1..Slice]
    BY <1>1, <1>3, <1>5, <2>1 DEF TypeOK
  <2> QED
    BY <1>1, <1>2, <2>1, <2>2 DEF TssInv, TypeOK, MakerRuns, ReadyListed, MadeSoFar,
       ChildSoFar, CounterAhead, PidsDistinct, Made, DescriptorOwned, makeVars
<1> QED
  BY <1>4, <1>5
\* Every step of the system keeps the invariant.
LEMMA TssStep == TssInv /\ [Next]_vars => TssInv'
<1> SUFFICES ASSUME TssInv, [Next]_vars
             PROVE  TssInv'
  OBVIOUS
<1>1. CASE task_time_ticks
  BY <1>1, TickInv
<1>2. CASE TickReturn
  <2>1. TypeOK /\ MakerRuns /\ inTick[cur] /\ cur \in Tasks
    BY <1>2 DEF TssInv, TypeOK, TickReturn
  <2>2. \A c \in Tasks : at[c] = "run"
    BY <2>1 DEF MakerRuns
  <2>3. TypeOK'
    <3>1. inTick' \in [Tasks -> BOOLEAN] /\ iflag' \in BOOLEAN
      BY <1>2, <2>1 DEF TickReturn, TypeOK
    <3> QED
      BY <1>2, <2>1, <3>1 DEF TickReturn, TypeOK, taskVars, makeVars
  <2>4. MakerRuns'
    BY <1>2, <2>1, <2>2 DEF TickReturn, MakerRuns, makeVars
  <2> QED
    BY <1>2, <2>3, <2>4 DEF TickReturn, TssInv, ReadyListed, MadeSoFar, ChildSoFar,
       CounterAhead, PidsDistinct, Made, DescriptorOwned, taskVars, makeVars
<1>3. ASSUME NEW c \in Tasks,
             AssignPid(c) \/ Enqueue(c) \/ AllocSelector(c) \/ SetTss(c) \/ FillChild(c)
      PROVE  TssInv'
  BY <1>3, AssignPidInv, EnqueueInv, AllocSelectorInv, SetTssInv, FillChildInv
<1>4. ASSUME NEW c \in Tasks, NoPage(c)
      PROVE  TssInv'
  BY <1>4 DEF NoPage, TssInv, TypeOK, Modes, MakerRuns, ReadyListed, MadeSoFar, ChildSoFar,
     CounterAhead, PidsDistinct, Made, DescriptorOwned, taskVars, makeVars
<1>5. ASSUME NEW c \in Tasks, SysHalt(c)
      PROVE  TssInv'
  <2>1. TypeOK /\ MakerRuns
    BY DEF TssInv
  <2>2. mode' \in Modes /\ iflag' \in BOOLEAN /\ iflag' = FALSE
    BY <1>5 DEF SysHalt, Modes
  <2>3. TypeOK'
    BY <1>5, <2>1, <2>2 DEF SysHalt, TypeOK, taskVars, makeVars
  <2>4. MakerRuns'
    BY <1>5, <2>1, <2>2 DEF SysHalt, MakerRuns, makeVars
  <2> QED
    BY <1>5, <2>3, <2>4 DEF SysHalt, TssInv, ReadyListed, MadeSoFar, ChildSoFar,
       CounterAhead, PidsDistinct, Made, DescriptorOwned, taskVars, makeVars
<1>6. ASSUME NEW c \in Tasks, NEW t \in Tasks, init_task(c, t) \/ sys_fork(c, t)
      PROVE  TssInv'
  BY <1>6, BeginMakingInv DEF init_task, sys_fork
<1>7. CASE UNCHANGED vars
  BY <1>7 DEF vars, TssInv, TypeOK, MakerRuns, ReadyListed, MadeSoFar, ChildSoFar,
     CounterAhead, PidsDistinct, Made, DescriptorOwned, taskVars, makeVars
<1> QED
  BY <1>1, <1>2, <1>3, <1>4, <1>5, <1>6, <1>7 DEF Next, KernelStep

-----------------------------------------------------------------------------
(* The theorems.                                                           *)

\* Only the running task is making another, the ready list starts with it, and
\* what is half made is known: TssInv holds in every state.
THEOREM TssInvariant == Spec => []TssInv
BY TssInit, TssStep, PTL DEF Spec

\* The state of the TSS tasks has its type in every state.
THEOREM TssTypeCorrect == Spec => []TypeOK
<1>1. TssInv => TypeOK
  BY DEF TssInv
<1> QED
  BY <1>1, TssInvariant, PTL

\* No task runs before init_task, and sys_fork behind it, completed its TSS:
\* the gate and the saved flag keep interrupts disabled between the two.
THEOREM HalfMadeTasksWait == Spec => []NeverRunsHalfMade
<1>1. TssInv => NeverRunsHalfMade
  <2> SUFFICES ASSUME TssInv PROVE NeverRunsHalfMade
    OBVIOUS
  <2>1. TypeOK /\ MakerRuns /\ ReadyListed /\ MadeSoFar
    BY DEF TssInv
  <2>2. cur \in Tasks /\ status[cur] \in {"READY", "RUNNING"}
    BY <2>1, CurListed DEF TypeOK
  <2>3. ASSUME NEW c \in Tasks
        PROVE  child[c] # cur
    <3>1. CASE at[c] = "run"
      BY <2>1, <2>2, <3>1, TssAssumption DEF MakerRuns
    <3>2. CASE at[c] # "run"
      BY <2>1, <3>2 DEF MakerRuns
    <3> QED
      BY <3>1, <3>2
  <2>4. tss[cur] # "none"
    BY <2>1, <2>2, <2>3 DEF MadeSoFar
  <2> QED
    BY <2>3, <2>4 DEF NeverRunsHalfMade, BeingMade
<1> QED
  BY <1>1, TssInvariant, PTL

\* alloc_pid gives no pid twice, however many tasks fork.
THEOREM PidsAreDistinct == Spec => []PidsDistinct
<1>1. TssInv => PidsDistinct
  BY DEF TssInv
<1> QED
  BY <1>1, TssInvariant, PTL

\* A task with a TSS owns the descriptor its selector names: the one that
\* gdt_alloc_seg found is still free when gdt_segment_set takes it.
THEOREM DescriptorsAreOwned == Spec => []DescriptorOwned
<1>1. TssInv => DescriptorOwned
  BY DEF TssInv
<1> QED
  BY <1>1, TssInvariant, PTL

\* A step of the TSS tasks is a step of the round-robin queue or leaves it
\* alone.
LEMMA ReadyStep ==
    ASSUME TssInv, [Next]_vars
    PROVE  RR!RRNext \/ UNCHANGED ready
<1>1. TypeOK /\ MakerRuns /\ ReadyListed /\ ChildSoFar
  BY DEF TssInv
<1>2. CASE task_time_ticks
  <2>1. CASE ticks[cur] - 1 <= 0
    <3>1. ready' = Append(Tail(ready), cur)
      BY <1>1, <1>2, <2>1, RequeueCur DEF task_time_ticks
    <3> QED
      BY <1>1, <3>1 DEF ReadyListed, RR!RRNext, RR!Turn
  <2>2. CASE ~ (ticks[cur] - 1 <= 0)
    BY <1>2, <2>2 DEF task_time_ticks
  <2> QED
    BY <2>1, <2>2
<1>3. ASSUME NEW c \in Tasks, Enqueue(c)
      PROVE  RR!RRNext
  <2>1. cur = c /\ child[c] \in Tasks /\ status[child[c]] = "CREATED"
        /\ ready' = task_set_ready(ready, child[c])
    BY <1>1, <1>3, TssAssumption DEF Enqueue, Runs, MakerRuns, ChildSoFar, TypeOK
  <2>2. child[c] \notin ToSet(ready)
    BY <1>1, <2>1 DEF ReadyListed
  <2>3. ready' = Append(ready, child[c])
    BY <1>1, <2>1, <2>2, ReadyNew
  <2> QED
    BY <2>1, <2>2, <2>3 DEF RR!RRNext, RR!Join, RR!ToSet, ToSet
<1>4. CASE TickReturn
  BY <1>4 DEF TickReturn
<1>5. ASSUME NEW c \in Tasks,
             AssignPid(c) \/ AllocSelector(c) \/ SetTss(c) \/ FillChild(c) \/ NoPage(c) \/ SysHalt(c)
      PROVE  UNCHANGED ready
  BY <1>5 DEF AssignPid, AllocSelector, SetTss, FillChild, NoPage, SysHalt
<1>6. ASSUME NEW c \in Tasks, NEW t \in Tasks, init_task(c, t) \/ sys_fork(c, t)
      PROVE  UNCHANGED ready
  BY <1>6 DEF init_task, sys_fork, BeginMaking
<1>7. CASE UNCHANGED vars
  BY <1>7 DEF vars
<1> QED
  BY <1>2, <1>3, <1>4, <1>5, <1>6, <1>7 DEF Next, KernelStep

\* The scheduler of tss_old.c implements the round-robin queue.
THEOREM TssTasksAreRoundRobin == Spec => ReadyIsRoundRobin
<1>1. Init => RR!RRInit
  BY DEF Init, RR!RRInit
<1>2. TssInv /\ [Next]_vars => [RR!RRNext]_ready
  BY ReadyStep
<1> QED
  BY <1>1, <1>2, TssInvariant, PTL DEF Spec, ReadyIsRoundRobin, RR!RRSpec
=============================================================================
