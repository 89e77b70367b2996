-------------------------- MODULE SchedulerProofs --------------------------
(***************************************************************************)
(* The scheduler's safety properties, for any number of tasks, any time    *)
(* slice and any sleeping times, and for both readings of the two lines    *)
(* WalkVisitsTail and SleepByAddress select.  Then the start of the kernel *)
(* (module Boot), which hands the scheduler the state it expects, so that  *)
(* these properties hold of the kernel as it is started; and why a far     *)
(* jump misses its task.                                                   *)
(***************************************************************************)
EXTENDS Boot, KListSeqProofs

-----------------------------------------------------------------------------
(* Facts about the functions of task.c.                                    *)

\* task_dispatch makes curr_task the first task of the ready list, or the
\* idle task when the list is empty.
LEMMA DispatchFacts ==
    ASSUME mode \in Modes,
           NEW rl \in Seq(Tasks), NEW st \in [AllTasks -> States],
           task_dispatch(rl, st)
    PROVE  /\ curr' \in AllTasks
           /\ state' \in [AllTasks -> States]
           /\ mode' \in Modes
           /\ mode' = "ok" => mode = "ok"
           /\ curr' = Idle => rl = << >>
           /\ curr' # Idle => rl # << >> /\ Head(rl) = curr'
<1> DEFINE to == task_next_run(rl)
<1>1. /\ to \in AllTasks
      /\ to = Idle => rl = << >>
      /\ to # Idle => rl # << >> /\ Head(rl) = to
  BY TasksAssumption DEF task_next_run, klist_len, AllTasks
<1>2. curr' = to
  BY DEF task_dispatch
<1>3. state' \in [AllTasks -> States]
  BY <1>1 DEF task_dispatch, States
<1>4. mode' \in Modes /\ (mode' = "ok" => mode = "ok")
  BY DEF task_dispatch, Modes
<1> QED
  BY <1>1, <1>2, <1>3, <1>4

\* Only tasks other than the idle task are on the two queues.
LEMMA QueueTypes ==
    ASSUME TypeOK
    PROVE  /\ Ready \subseteq Tasks /\ Ready \subseteq AllTasks
           /\ Sleeping \subseteq Tasks /\ Sleeping \subseteq AllTasks
<1>1. /\ \A i \in DOMAIN readyList : readyList[i] \in Tasks
      /\ \A i \in DOMAIN sleepList : sleepList[i] \in Tasks
  BY DEF TypeOK
<1> QED
  BY <1>1 DEF Ready, Sleeping, ToSet, AllTasks

\* The running task is on the ready list when it is not the idle task.
LEMMA CurrReady ==
    ASSUME TypeOK, RunningIsHead, mode = "ok", curr # Idle
    PROVE  curr \in Ready /\ curr \in Tasks
<1>1. readyList \in Seq(Tasks) /\ readyList # << >> /\ Head(readyList) = curr
  BY DEF TypeOK, RunningIsHead
<1>2. 1 \in DOMAIN readyList /\ readyList[1] = curr
  BY <1>1
<1> QED
  BY <1>1, <1>2 DEF Ready, ToSet

\* Blocking the running task takes exactly that task off the ready list.
LEMMA BlockFacts ==
    ASSUME TypeOK, RunningIsHead, QueuesExclusive, mode = "ok", curr # Idle
    PROVE  /\ task_set_block(readyList, curr) \in Seq(Tasks)
           /\ IsInjective(task_set_block(readyList, curr))
           /\ ToSet(task_set_block(readyList, curr)) = Ready \ {curr}
<1>1. curr \in ToSet(readyList)
  BY CurrReady DEF Ready
<1>2. readyList \in Seq(Tasks) /\ IsInjective(readyList)
  BY DEF TypeOK, QueuesExclusive
<1> QED
  BY <1>1, <1>2, RemoveUnlinks DEF task_set_block, Ready

\* Sending the running task to the back neither adds nor loses a task.
LEMMA RequeueFacts ==
    ASSUME TypeOK, RunningIsHead, QueuesExclusive, mode = "ok"
    PROVE  /\ Requeue(readyList, curr) \in Seq(Tasks)
           /\ IsInjective(Requeue(readyList, curr))
           /\ ToSet(Requeue(readyList, curr)) = Ready
<1>1. CASE curr = Idle
  BY <1>1 DEF Requeue, task_set_ready, task_set_block, Ready, TypeOK, QueuesExclusive
<1>2. CASE curr # Idle
  <2> DEFINE rl == task_set_block(readyList, curr)
  <2>1. rl \in Seq(Tasks) /\ IsInjective(rl) /\ ToSet(rl) = Ready \ {curr}
    BY <1>2, BlockFacts
  <2>2. curr \in Ready /\ curr \in Tasks
    BY <1>2, CurrReady
  <2> HIDE DEF rl
  <2>3. /\ klist_append(rl, curr) \in Seq(Tasks)
        /\ IsInjective(klist_append(rl, curr))
        /\ ToSet(klist_append(rl, curr)) = ToSet(rl) \cup {curr}
    BY <2>1, <2>2, AppendLinks
  <2>4. Requeue(readyList, curr) = klist_append(rl, curr)
    BY <1>2 DEF Requeue, task_set_ready, rl
  <2> QED
    BY <2>1, <2>2, <2>3, <2>4
<1> QED
  BY <1>1, <1>2

\* task_set_ready writes a legal state.
LEMMA ReadyStateType ==
    ASSUME NEW st \in [AllTasks -> States], NEW t
    PROVE  ReadyState(st, t) \in [AllTasks -> States]
BY DEF ReadyState, States

-----------------------------------------------------------------------------
(* What a torn append leaves of a list.                                    *)

\* Without its last node, a list keeps all the others.
LEMMA FrontFacts ==
    ASSUME NEW S, NEW list \in Seq(S), IsInjective(list), list # << >>
    PROVE  /\ Front(list) \in Seq(S) /\ IsInjective(Front(list))
           /\ ToSet(Front(list)) = ToSet(list) \ {Last(list)}
           /\ Last(list) \in ToSet(list)
<1>1. /\ Len(list) \in Nat \ {0} /\ DOMAIN list = 1..Len(list)
      /\ \A k \in 1..Len(list) : list[k] \in S
  OBVIOUS
<1> DEFINE n == Len(list)
           r == SubSeq(list, 1, n - 1)
<1>2. /\ r \in Seq(S) /\ Len(r) = n - 1 /\ DOMAIN r = 1..(n - 1)
      /\ \A k \in 1..(n - 1) : r[k] = list[k]
  BY <1>1
<1>3. Front(list) = r
  BY DEF Front
<1>4. Last(list) = list[n] /\ list[n] \in ToSet(list)
  BY <1>1 DEF Last, ToSet
<1>5. IsInjective(r)
  BY <1>1, <1>2 DEF IsInjective
<1>6. ToSet(r) = ToSet(list) \ {list[n]}
  <2>1. ASSUME NEW k \in 1..(n - 1) PROVE r[k] \in ToSet(list) \ {list[n]}
    BY <1>1, <1>2 DEF IsInjective, ToSet
  <2>2. ASSUME NEW k \in 1..n, list[k] # list[n] PROVE list[k] \in ToSet(r)
    <3>1. k \in 1..(n - 1)
      BY <1>1, <2>2
    <3> QED
      BY <1>2, <3>1 DEF ToSet
  <2>3. /\ ToSet(r) = {r[k] : k \in 1..(n - 1)}
        /\ ToSet(list) = {list[k] : k \in 1..n}
    BY <1>1, <1>2 DEF ToSet
  <2> HIDE DEF r, n
  <2> QED
    BY <2>1, <2>2, <2>3
<1> QED
  BY <1>2, <1>3, <1>4, <1>5, <1>6

\* An append to a list whose last node is not yet known to tail.prev loses that
\* node and no other.
LEMMA OverwriteFacts ==
    ASSUME NEW S, NEW list \in Seq(S), IsInjective(list), list # << >>,
           NEW t \in S, t \notin ToSet(list)
    PROVE  /\ OverwriteLast(list, t) \in Seq(S) /\ IsInjective(OverwriteLast(list, t))
           /\ ToSet(OverwriteLast(list, t)) = (ToSet(list) \ {Last(list)}) \cup {t}
           /\ OverwriteLast(list, t) # << >>
<1>1. /\ Front(list) \in Seq(S) /\ IsInjective(Front(list))
      /\ ToSet(Front(list)) = ToSet(list) \ {Last(list)}
  BY FrontFacts
<1>2. t \notin ToSet(Front(list))
  BY <1>1
<1> QED
  BY <1>1, <1>2, AppendLinks DEF OverwriteLast

\* The same of the append that the tick handler makes to the ready list.
LEMMA AppendCutFacts ==
    ASSUME NEW S, NEW list \in Seq(S), IsInjective(list), list # << >>,
           NEW t \in S, t \notin ToSet(list), NEW p
    PROVE  /\ AppendCut(list, p, t) \in Seq(S) /\ IsInjective(AppendCut(list, p, t))
           /\ ToSet(AppendCut(list, p, t)) \subseteq ToSet(list) \cup {t}
           /\ t \in ToSet(AppendCut(list, p, t))
           /\ \A x \in ToSet(list) :
                x \in ToSet(AppendCut(list, p, t)) \/ (p = "linked" /\ x = Last(list))
           /\ AppendCut(list, p, t) # << >>
<1>1. CASE p = "linked"
  BY <1>1, OverwriteFacts DEF AppendCut
<1>2. CASE p # "linked"
  BY <1>2, AppendLinks DEF AppendCut
<1> QED
  BY <1>1, <1>2

\* The first node of a list with others, and what is left without it.
LEMMA TailFacts ==
    ASSUME NEW S, NEW list \in Seq(S), IsInjective(list), Len(list) > 1
    PROVE  /\ Tail(list) \in Seq(S) /\ IsInjective(Tail(list)) /\ Tail(list) # << >>
           /\ ToSet(Tail(list)) = ToSet(list) \ {Head(list)}
           /\ klist_remove(list, Head(list)) = Tail(list)
           /\ Last(Tail(list)) = Last(list)
           /\ Head(list) \in ToSet(list) /\ Head(list) \in S
<1>1. list # << >> /\ 1 \in DOMAIN list /\ Head(list) = list[1] /\ Head(list) \in S
  OBVIOUS
<1>2. Head(list) \in ToSet(list)
  BY <1>1 DEF ToSet
<1>3. klist_remove(list, Head(list)) = Tail(list)
  BY <1>1, RemoveFirstNode
<1>4. IsInjective(Tail(list)) /\ ToSet(Tail(list)) = ToSet(list) \ {Head(list)}
  <2> DEFINE h == Head(list)
  <2>1. h \in ToSet(list) /\ klist_remove(list, h) = Tail(list)
    BY <1>2, <1>3
  <2> HIDE DEF h
  <2>2. /\ IsInjective(klist_remove(list, h))
        /\ ToSet(klist_remove(list, h)) = ToSet(list) \ {h}
    BY <2>1, RemoveUnlinks
  <2> QED
    BY <2>1, <2>2 DEF h
<1>5. /\ Tail(list) \in Seq(S) /\ Len(Tail(list)) = Len(list) - 1 /\ Tail(list) # << >>
      /\ Tail(list)[Len(list) - 1] = list[Len(list)]
  OBVIOUS
<1>6. Last(Tail(list)) = Last(list)
  BY <1>5 DEF Last
<1> QED
  BY <1>1, <1>2, <1>3, <1>4, <1>5, <1>6

\* A slice that ends inside an append loses the interrupted task or the one it
\* appends, and no other.
LEMMA RequeueCutFacts ==
    ASSUME NEW S, NEW list \in Seq(S), IsInjective(list), Len(list) > 1, NEW p
    PROVE  LET r == RequeueCut(list, p, Head(list))
           IN  /\ r \in Seq(S) /\ IsInjective(r) /\ r # << >>
               /\ ToSet(r) \subseteq ToSet(list)
               /\ \A x \in ToSet(list) :
                    x \in ToSet(r) \/ (p = "linked" /\ x \in {Head(list), Last(list)})
<1> DEFINE h == Head(list)
           l == Tail(list)
<1>1. /\ l \in Seq(S) /\ IsInjective(l) /\ l # << >> /\ ToSet(l) = ToSet(list) \ {h}
      /\ klist_remove(list, h) = l /\ Last(l) = Last(list)
      /\ h \in ToSet(list) /\ h \in S
  BY TailFacts
<1>2. CASE p = "linked" /\ Len(list) = 2
  BY <1>1, <1>2 DEF RequeueCut
<1>3. CASE ~(p = "linked" /\ Len(list) = 2)
  <2>1. RequeueCut(list, p, h) = AppendCut(l, p, h)
    BY <1>1, <1>3 DEF RequeueCut
  <2>2. h \notin ToSet(l)
    BY <1>1
  <2> HIDE DEF h, l
  <2>3. /\ AppendCut(l, p, h) \in Seq(S) /\ IsInjective(AppendCut(l, p, h))
        /\ ToSet(AppendCut(l, p, h)) \subseteq ToSet(l) \cup {h}
        /\ h \in ToSet(AppendCut(l, p, h))
        /\ \A x \in ToSet(l) :
                x \in ToSet(AppendCut(l, p, h)) \/ (p = "linked" /\ x = Last(l))
        /\ AppendCut(l, p, h) # << >>
    BY <1>1, <2>2, AppendCutFacts
  <2> QED
    BY <1>1, <2>1, <2>3 DEF h
<1> QED
  BY <1>2, <1>3

-----------------------------------------------------------------------------
(* Facts that several actions need.                                        *)

\* While nothing is torn, every created task is queued.
LEMMA OkQueued ==
    ASSUME NoTaskLost, mode = "ok" PROVE TasksQueued
BY DEF NoTaskLost, TasksQueued

\* The idle task creates nothing, so it never stands inside an append.
LEMMA IdleOutside ==
    ASSUME ChildKnown PROVE ctx[Idle] \notin InitPoints
BY DEF ChildKnown, AllTasks

\* Outside an append of the running task nobody stands inside one.
LEMMA NoCut ==
    ASSUME CutByRunning, mode = "ok", ~CutAppend
    PROVE  \A t \in Tasks : ctx[t] \notin {"linked", "tailed"}
BY DEF CutByRunning, CutAppend

\* Steps that neither begin nor end a creation keep what is known of them.
LEMMA ChildKept ==
    ASSUME TypeOK, ChildKnown, child' = child,
           \A t \in AllTasks :
               /\ ctx'[t] \in InitPoints <=> ctx[t] \in InitPoints
               /\ ctx'[t] \in {"found", "made"} <=> ctx[t] \in {"found", "made"}
               /\ ctx'[t] = "none" <=> ctx[t] = "none"
               /\ ctx'[t] = "new" <=> ctx[t] = "new"
    PROVE  ChildKnown'
<1>1. \A t \in AllTasks : child[t] # NoTask => child[t] \in AllTasks
  BY DEF TypeOK, AllTasks
<1> QED
  BY <1>1 DEF ChildKnown

\* Steps that only move the own code of tasks on, and leave the queues and the
\* tick handler alone.
LEMMA QueuesKept ==
    ASSUME IndInv, mode = "ok", TypeOK', ChildKnown', CutByRunning',
           UNCHANGED <<curr, readyList, sleepList, sleepTicks, irq, cursor, inService>>,
           \A t \in Sleeping : ctx'[t] = ctx[t],
           \A t \in Ready : ctx'[t] \notin {"none", "new", "sleep0"},
           \A t \in Created' :
               t \in Created /\ (ctx[t] = "sleep0" => ctx'[t] = "sleep0" \/ t \in Ready)
    PROVE  IndInv'
<1>1. Ready' = Ready /\ Sleeping' = Sleeping
  BY DEF Ready, Sleeping
<1>2. TasksQueued
  BY OkQueued DEF IndInv
<1>3. NoTaskLost'
  <2>1. \A t \in Created' : TaskQueued(t)'
    BY <1>1, <1>2 DEF TasksQueued, TaskQueued
  <2> QED
    BY <2>1 DEF NoTaskLost
<1>4. RunningIsHead' /\ QueuesExclusive'
  BY <1>1 DEF IndInv, RunningIsHead, QueuesExclusive
<1>5. ReadyCreated' /\ SleepersParked'
  BY <1>1 DEF IndInv, ReadyCreated, SleepersParked
<1>6. OneTickPending' /\ HolderReady' /\ WalkAtomic'
  BY <1>1 DEF IndInv, OneTickPending, HolderReady, WalkAtomic
<1> QED
  BY <1>3, <1>4, <1>5, <1>6 DEF IndInv

-----------------------------------------------------------------------------
(* The invariant holds initially.                                          *)

\* The state behind task_manager_init and task_first_init satisfies IndInv.
LEMMA InitInv == Init => IndInv
<1> SUFFICES ASSUME Init PROVE IndInv
  OBVIOUS
<1> USE TasksAssumption, NumbersAssumption
<1>1. TypeOK
  <2>1. /\ sel \in [AllTasks -> 0..GdtSlots] /\ found \in [AllTasks -> 0..GdtSlots]
        /\ gdt \in [Descriptors -> AllTasks \cup {NoTask}]
    BY DEF Init, AllTasks, Descriptors
  <2>2. state \in [AllTasks -> States] /\ ctx \in [AllTasks -> Contexts]
        /\ irq \in [AllTasks -> IrqPoints]
    BY DEF Init, States, Contexts, InitPoints, IrqPoints
  <2>3. readyList \in Seq(Tasks) /\ sleepList \in Seq(Tasks)
        /\ taskList \in Seq(AllTasks) /\ taskLen \in Int
    BY DEF Init, AllTasks
  <2>4. slice \in [AllTasks -> 1..TimeSlice] /\ sleepTicks \in [AllTasks -> Int]
        /\ ticks \in 0..(TickWrap - 1)
    BY DEF Init
  <2>5. curr \in AllTasks /\ child \in [AllTasks -> Tasks \cup {NoTask}]
        /\ cursor \in Tasks \cup {SleepTail} /\ inService \in BOOLEAN /\ mode \in Modes
    BY DEF Init, AllTasks, Modes
  <2> QED
    BY <2>1, <2>2, <2>3, <2>4, <2>5 DEF TypeOK
<1>2. Ready = {First} /\ Sleeping = {} /\ IsInjective(readyList) /\ IsInjective(sleepList)
  BY DEF Init, Ready, Sleeping, ToSet, IsInjective
<1>3. RunningIsHead
  BY DEF Init, RunningIsHead
<1>4. QueuesExclusive
  BY <1>2 DEF QueuesExclusive
<1>5. ReadyCreated /\ NoTaskLost /\ SleepersParked
  BY <1>2 DEF Init, ReadyCreated, NoTaskLost, TaskQueued, SleepersParked, Created, AllTasks
<1>6. OneTickPending /\ HolderReady /\ WalkAtomic /\ ChildKnown /\ CutByRunning
  BY DEF Init, OneTickPending, HolderReady, WalkAtomic, ChildKnown, CutByRunning,
     CutAppend, AllTasks, InitPoints
<1> QED
  BY <1>1, <1>3, <1>4, <1>5, <1>6 DEF IndInv

-----------------------------------------------------------------------------
(* Every action preserves the invariant.                                   *)

\* The timer interrupt, up to the dispatch at the end of a slice.
LEMMA TickSliceInv == IndInv /\ TickSlice => IndInv'
<1> SUFFICES ASSUME IndInv, TickSlice PROVE IndInv'
  OBVIOUS
<1> USE TasksAssumption, NumbersAssumption
<1>1. /\ TypeOK /\ RunningIsHead /\ QueuesExclusive /\ ReadyCreated /\ NoTaskLost
      /\ SleepersParked /\ OneTickPending /\ HolderReady /\ WalkAtomic /\ ChildKnown
      /\ CutByRunning
  BY DEF IndInv
<1>2. /\ mode = "ok" /\ irq[curr] = "no" /\ inService = FALSE
      /\ curr \in AllTasks
  BY <1>1 DEF TickSlice, InterruptsOn, TypeOK
<1>3. /\ irq' = [irq EXCEPT ![curr] = "walk"] /\ inService' = TRUE
      /\ ticks' = (ticks + 1) % TickWrap
      /\ UNCHANGED <<sleepList, taskList, taskLen, sleepTicks, sel, gdt, found,
                     ctx, child, cursor>>
  BY DEF TickSlice, descVars
<1>4. TasksQueued
  BY <1>1, <1>2, OkQueued
<1>5. curr = Idle \/ curr \in Ready
  BY <1>1, <1>2, CurrReady
<1>6. /\ curr' \in AllTasks /\ state' \in [AllTasks -> States] /\ mode' \in Modes
      /\ readyList' \in Seq(Tasks) /\ slice' \in [AllTasks -> 1..TimeSlice]
      /\ IsInjective(readyList') /\ Ready' \subseteq Ready /\ RunningIsHead'
      /\ mode' = "ok" => Ready' = Ready
      /\ NoTaskLost' /\ CutByRunning'
  <2>1. CASE slice[curr] - 1 = 0 /\ ~CutAppend
    <3> DEFINE rl == Requeue(readyList, curr)
               st == ReadyState(state, curr)
    <3>1. rl \in Seq(Tasks) /\ IsInjective(rl) /\ ToSet(rl) = Ready
      BY <1>1, <1>2, RequeueFacts
    <3>2. st \in [AllTasks -> States]
      BY <1>1, ReadyStateType DEF TypeOK
    <3>3. readyList' = rl /\ task_dispatch(rl, st)
          /\ slice' = [slice EXCEPT ![curr] = TimeSlice]
      BY <2>1 DEF TickSlice, SliceEnds
    <3> HIDE DEF rl, st
    <3>4. mode \in Modes
      BY <1>1 DEF TypeOK
    <3>5. /\ curr' \in AllTasks /\ state' \in [AllTasks -> States] /\ mode' \in Modes
          /\ curr' = Idle => rl = << >>
          /\ curr' # Idle => rl # << >> /\ Head(rl) = curr'
      BY <3>1, <3>2, <3>3, <3>4, DispatchFacts
    <3>6. slice' \in [AllTasks -> 1..TimeSlice]
      BY <1>1, <3>3 DEF TypeOK
    <3>7. Ready' = Ready /\ Sleeping' = Sleeping
      BY <1>3, <3>1, <3>3 DEF Ready, Sleeping
    <3>8. NoTaskLost'
      BY <1>3, <1>4, <3>7 DEF TasksQueued, TaskQueued, NoTaskLost, Created
    <3>9. CutByRunning'
      <4>1. \A t \in Tasks : ctx'[t] \notin {"linked", "tailed"}
        BY <1>1, <1>2, <1>3, <2>1, NoCut
      <4>2. ctx'[Idle] \notin {"linked", "tailed"}
        BY <1>1, <1>3, IdleOutside DEF InitPoints
      <4> QED
        BY <3>5, <4>1, <4>2 DEF CutByRunning, CutAppend, AllTasks
    <3> QED
      BY <3>1, <3>3, <3>5, <3>6, <3>7, <3>8, <3>9 DEF RunningIsHead
  <2>2. CASE slice[curr] - 1 = 0 /\ CutAppend
    <3> DEFINE rl == RequeueCut(readyList, ctx[curr], curr)
    <3>1. curr # Idle
      BY <1>1, <2>2, IdleOutside DEF CutAppend, InitPoints
    <3>2. /\ readyList \in Seq(Tasks) /\ IsInjective(readyList) /\ Len(readyList) > 1
          /\ Head(readyList) = curr /\ Last(readyList) = child[curr] /\ curr \in Tasks
      BY <1>1, <1>2, <2>2, <3>1 DEF TypeOK, QueuesExclusive, RunningIsHead, CutByRunning,
         AllTasks
    <3>3. /\ rl \in Seq(Tasks) /\ IsInjective(rl) /\ rl # << >>
          /\ ToSet(rl) \subseteq Ready
          /\ \A x \in Ready :
                x \in ToSet(rl) \/ (ctx[curr] = "linked" /\ x \in {curr, child[curr]})
      BY <3>2, RequeueCutFacts DEF Ready
    <3>4. /\ readyList' = rl /\ curr' = task_next_run(rl) /\ mode' = "torn"
          /\ state' = [ReadyState(state, curr) EXCEPT ![task_next_run(rl)] = "RUNNING"]
          /\ slice' = [slice EXCEPT ![curr] = TimeSlice]
      BY <2>2 DEF TickSlice, SliceEnds
    <3> HIDE DEF rl
    <3>5. curr' \in AllTasks
      BY <3>3, <3>4 DEF task_next_run, klist_len, AllTasks
    <3>6. state' \in [AllTasks -> States]
      BY <1>1, <3>4, ReadyStateType DEF TypeOK, States
    <3>7. slice' \in [AllTasks -> 1..TimeSlice]
      BY <1>1, <3>4 DEF TypeOK
    <3>8. Ready' = ToSet(rl) /\ Sleeping' = Sleeping /\ Created' = Created
      BY <1>3, <3>4 DEF Ready, Sleeping, Created
    <3>9. NoTaskLost'
      <4> SUFFICES ASSUME NEW t \in Created
                   PROVE  \/ TaskQueued(t)'
                          \/ ctx'[curr] = "linked" /\ t \in {curr, child'[curr]}
        BY <3>2, <3>4, <3>8 DEF NoTaskLost
      <4> QED
        BY <1>3, <1>4, <3>3, <3>8 DEF TasksQueued, TaskQueued
    <3> QED
      BY <3>3, <3>4, <3>5, <3>6, <3>7, <3>8, <3>9 DEF RunningIsHead, CutByRunning, Modes
  <2>3. CASE slice[curr] - 1 # 0
    <3>1. slice' = [slice EXCEPT ![curr] = @ - 1]
          /\ UNCHANGED <<readyList, curr, state, mode>>
      BY <2>3 DEF TickSlice
    <3>2. slice' \in [AllTasks -> 1..TimeSlice]
      BY <1>1, <1>2, <2>3, <3>1 DEF TypeOK
    <3>3. RunningIsHead'
      BY <1>1, <1>2, <1>3, <3>1 DEF RunningIsHead
    <3>4. NoTaskLost' /\ CutByRunning'
      BY <1>1, <1>3, <3>1
         DEF NoTaskLost, TaskQueued, Created, Ready, Sleeping, CutByRunning, CutAppend
    <3> QED
      BY <1>1, <1>2, <3>1, <3>2, <3>3, <3>4 DEF TypeOK, QueuesExclusive, Ready
  <2> QED
    BY <2>1, <2>2, <2>3
<1>7. TypeOK'
  <2>1. irq' \in [AllTasks -> IrqPoints]
    BY <1>1, <1>3 DEF TypeOK, IrqPoints
  <2>2. ticks' \in 0..(TickWrap - 1)
    BY <1>1, <1>3 DEF TypeOK
  <2> QED
    BY <1>1, <1>3, <1>6, <2>1, <2>2 DEF TypeOK
<1>8. \A t \in AllTasks : irq[t] = "no"
  BY <1>1, <1>2 DEF OneTickPending
<1>9. irq'[curr] = "walk" /\ \A t \in AllTasks : t # curr => irq'[t] = "no"
  BY <1>1, <1>2, <1>3, <1>8 DEF TypeOK
<1>10. Sleeping' = Sleeping
  BY <1>3 DEF Sleeping
<1>11. QueuesExclusive' /\ ReadyCreated'
  BY <1>1, <1>3, <1>6, <1>10 DEF QueuesExclusive, ReadyCreated
<1>12. ChildKnown'
  BY <1>1, <1>3, ChildKept
<1>13. SleepersParked'
  <2>1. \A t \in Sleeping : t \in AllTasks /\ t # curr
    BY <1>1, <1>5, QueueTypes DEF QueuesExclusive
  <2> QED
    BY <1>1, <1>3, <1>9, <1>10, <2>1 DEF SleepersParked
<1>14. OneTickPending' /\ WalkAtomic'
  BY <1>2, <1>3, <1>6, <1>9 DEF OneTickPending, WalkAtomic
<1>15. HolderReady'
  BY <1>5, <1>6, <1>9 DEF HolderReady, AllTasks
<1> QED
  BY <1>6, <1>7, <1>11, <1>12, <1>13, <1>14, <1>15 DEF IndInv

\* The start of the sleep-list walk.
LEMMA WalkStartInv == IndInv /\ WalkStart => IndInv'
<1> SUFFICES ASSUME IndInv, WalkStart PROVE IndInv'
  OBVIOUS
<1> USE TasksAssumption
<1>1. /\ TypeOK /\ RunningIsHead /\ QueuesExclusive /\ ReadyCreated /\ NoTaskLost
      /\ SleepersParked /\ OneTickPending /\ HolderReady /\ WalkAtomic /\ ChildKnown
      /\ CutByRunning
  BY DEF IndInv
<1>2. /\ mode = "ok" /\ irq[curr] = "walk" /\ irq' = [irq EXCEPT ![curr] = "visit"]
      /\ cursor' = klist_get_first_node(sleepList, SleepTail)
      /\ UNCHANGED <<curr, readyList, sleepList, taskList, taskLen, state, slice,
                     sleepTicks, sel, gdt, found, ctx, child, inService, ticks, mode>>
  BY DEF WalkStart, descVars
<1>3. Ready' = Ready /\ Sleeping' = Sleeping /\ curr \in AllTasks
  BY <1>1, <1>2 DEF Ready, Sleeping, TypeOK
<1>4. cursor' \in Sleeping \cup {SleepTail} /\ Sleeping \subseteq Tasks
  <2>1. sleepList \in Seq(Tasks)
    BY <1>1 DEF TypeOK
  <2>2. CASE sleepList = << >>
    BY <2>1, <2>2, <1>2 DEF klist_get_first_node, Sleeping, ToSet
  <2>3. CASE sleepList # << >>
    <3>1. 1 \in DOMAIN sleepList /\ Head(sleepList) = sleepList[1]
      BY <2>1, <2>3
    <3> QED
      BY <2>1, <2>3, <3>1, <1>2 DEF klist_get_first_node, Sleeping, ToSet
  <2> QED
    BY <2>2, <2>3
<1>5. TypeOK'
  <2>1. irq' \in [AllTasks -> IrqPoints]
    BY <1>1, <1>2 DEF TypeOK, IrqPoints
  <2> QED
    BY <1>1, <1>2, <1>4, <2>1 DEF TypeOK
<1>6. /\ irq'[curr] = "visit"
      /\ \A t \in AllTasks : t # curr => irq'[t] = irq[t] /\ irq[t] = "no"
  BY <1>1, <1>2, <1>3 DEF TypeOK, OneTickPending
<1>7. RunningIsHead'
  BY <1>1, <1>2, <1>6 DEF RunningIsHead
<1>8. QueuesExclusive' /\ ReadyCreated' /\ NoTaskLost' /\ CutByRunning'
  BY <1>1, <1>2, <1>3
     DEF QueuesExclusive, ReadyCreated, NoTaskLost, TaskQueued, Created, CutByRunning,
     CutAppend
<1>13. ChildKnown'
  BY <1>1, <1>2, ChildKept
<1>9. SleepersParked'
  <2>1. \A t \in Sleeping : t # curr /\ t \in AllTasks
    BY <1>1, <1>2, <1>4 DEF SleepersParked, AllTasks
  <2> QED
    BY <1>1, <1>2, <1>3, <1>6, <2>1 DEF SleepersParked
<1>10. OneTickPending'
  BY <1>1, <1>2, <1>3, <1>6 DEF OneTickPending
<1>11. WalkAtomic'
  BY <1>2, <1>3, <1>4, <1>6 DEF WalkAtomic
<1>12. HolderReady'
  BY <1>1, <1>2, <1>3, <1>6 DEF HolderReady, AllTasks
<1> QED
  BY <1>5, <1>7, <1>8, <1>9, <1>10, <1>11, <1>12, <1>13 DEF IndInv

\* One round of the walk at a sleeping task.
LEMMA WalkTaskInv == IndInv /\ WalkTask => IndInv'
<1> SUFFICES ASSUME IndInv, WalkTask PROVE IndInv'
  OBVIOUS
<1> USE TasksAssumption
<1>1. /\ TypeOK /\ RunningIsHead /\ QueuesExclusive /\ ReadyCreated /\ NoTaskLost
      /\ SleepersParked /\ OneTickPending /\ HolderReady /\ WalkAtomic /\ ChildKnown
      /\ CutByRunning
  BY DEF IndInv
<1>2. /\ mode = "ok" /\ irq[curr] = "visit" /\ cursor # SleepTail
      /\ cursor' = klist_get_next_node(sleepList, cursor, SleepTail)
      /\ sleepTicks' = [sleepTicks EXCEPT ![cursor] = @ - 1]
      /\ UNCHANGED <<curr, taskList, taskLen, slice, sel, gdt, found, ctx, irq,
                     child, inService, ticks>>
  BY DEF WalkTask, descVars
<1>3. cursor \in Sleeping /\ cursor \in Tasks /\ cursor # Idle /\ Sleeping \subseteq Tasks
  BY <1>1, <1>2 DEF WalkAtomic, TypeOK, Sleeping, ToSet
<1>4. cursor' = SleepTail \/ cursor' \in Sleeping \ {cursor}
  BY <1>1, <1>2, <1>3, NextNodeLinked DEF TypeOK, QueuesExclusive, Sleeping
<1>5. sleepTicks' \in [AllTasks -> Int] /\ sleepTicks'[cursor] = sleepTicks[cursor] - 1
      /\ \A t \in AllTasks : t # cursor => sleepTicks'[t] = sleepTicks[t]
  <2>1. sleepTicks \in [AllTasks -> Int] /\ cursor \in AllTasks
    BY <1>1, <1>3 DEF TypeOK, AllTasks
  <2> QED
    BY <1>2, <2>1
<1>6. ctx[cursor] = "sleep" /\ sleepTicks[cursor] > 0 /\ sleepTicks[cursor] \in Int
  BY <1>1, <1>3 DEF SleepersParked, TypeOK, AllTasks
<1>7. TasksQueued
  BY <1>1, <1>2, OkQueued
<1>8. Created' = Created /\ OneTickPending'
  BY <1>1, <1>2 DEF Created, OneTickPending
<1>9. ChildKnown'
  BY <1>1, <1>2, ChildKept
<1>10. CASE sleepTicks[cursor] - 1 = 0
  <2>1. WakeUp(cursor)
    BY <1>10 DEF WalkTask
  <2>2. /\ sleepList' \in Seq(Tasks) /\ IsInjective(sleepList')
        /\ Sleeping' = Sleeping \ {cursor}
    BY <1>1, <1>3, <2>1, RemoveUnlinks DEF TypeOK, QueuesExclusive, Sleeping, WakeUp
  <2>3. cursor \notin Ready
    BY <1>1, <1>3 DEF QueuesExclusive
  <2>4. state' \in [AllTasks -> States]
    BY <1>1, <2>1, ReadyStateType DEF TypeOK, WakeUp
  <2>5. SleepersParked'
    BY <1>1, <1>2, <1>3, <1>5, <2>2 DEF SleepersParked, AllTasks
  <2>6. CASE ~CutAppend
    <3>1. readyList' = klist_append(readyList, cursor) /\ mode' = mode
      BY <1>3, <2>1, <2>6 DEF WakeUp, task_set_ready
    <3>2. /\ readyList' \in Seq(Tasks) /\ IsInjective(readyList')
          /\ Ready' = Ready \cup {cursor} /\ readyList' # << >>
          /\ readyList # << >> => Head(readyList') = Head(readyList)
      BY <1>1, <1>3, <3>1, <2>3, AppendLinks DEF TypeOK, QueuesExclusive, Ready
    <3>3. TypeOK'
      BY <1>1, <1>2, <1>3, <1>4, <1>5, <2>2, <2>4, <3>1, <3>2 DEF TypeOK
    <3>4. RunningIsHead'
      BY <1>1, <1>2, <3>1, <3>2 DEF RunningIsHead
    <3>5. QueuesExclusive' /\ ReadyCreated'
      BY <1>1, <1>2, <1>6, <2>2, <3>2 DEF QueuesExclusive, ReadyCreated
    <3>6. NoTaskLost'
      BY <1>2, <1>7, <1>8, <2>2, <3>2 DEF TasksQueued, TaskQueued, NoTaskLost
    <3>7. HolderReady' /\ WalkAtomic'
      BY <1>1, <1>2, <1>4, <2>2, <3>1, <3>2 DEF HolderReady, WalkAtomic
    <3>8. CutByRunning'
      BY <1>1, <1>2, <2>6, NoCut DEF CutByRunning, CutAppend
    <3> QED
      BY <1>8, <1>9, <2>5, <3>3, <3>4, <3>5, <3>6, <3>7, <3>8 DEF IndInv
  <2>7. CASE CutAppend
    <3> DEFINE rl == AppendCut(readyList, ctx[curr], cursor)
    <3>1. readyList' = rl /\ mode' = "torn"
      BY <2>1, <2>7 DEF WakeUp
    <3>2. /\ readyList \in Seq(Tasks) /\ IsInjective(readyList) /\ readyList # << >>
          /\ Last(readyList) = child[curr]
      BY <1>1, <1>2, <2>7 DEF TypeOK, QueuesExclusive, CutByRunning
    <3>3. curr \in Tasks
      BY <1>1, <2>7, IdleOutside DEF CutAppend, InitPoints, TypeOK, AllTasks
    <3>4. /\ rl \in Seq(Tasks) /\ IsInjective(rl)
          /\ ToSet(rl) \subseteq Ready \cup {cursor} /\ cursor \in ToSet(rl)
          /\ \A x \in Ready : x \in ToSet(rl) \/ (ctx[curr] = "linked" /\ x = child[curr])
      BY <1>3, <2>3, <3>2, AppendCutFacts DEF Ready
    <3> HIDE DEF rl
    <3>5. Ready' = ToSet(rl)
      BY <3>1 DEF Ready
    <3>6. TypeOK'
      BY <1>1, <1>2, <1>3, <1>4, <1>5, <2>2, <2>4, <3>1, <3>4 DEF TypeOK, Modes
    <3>7. QueuesExclusive' /\ ReadyCreated'
      BY <1>1, <1>2, <1>6, <2>2, <3>1, <3>4, <3>5 DEF QueuesExclusive, ReadyCreated
    <3>8. NoTaskLost'
      <4> SUFFICES ASSUME NEW t \in Created
                   PROVE  \/ TaskQueued(t)'
                          \/ ctx'[curr] = "linked" /\ t \in {curr, child'[curr]}
        BY <1>8, <3>1, <3>3 DEF NoTaskLost
      <4> QED
        BY <1>2, <1>7, <2>2, <3>4, <3>5 DEF TasksQueued, TaskQueued
    <3>9. RunningIsHead' /\ HolderReady' /\ WalkAtomic' /\ CutByRunning'
      BY <3>1 DEF RunningIsHead, HolderReady, WalkAtomic, CutByRunning
    <3> QED
      BY <1>8, <1>9, <2>5, <3>6, <3>7, <3>8, <3>9 DEF IndInv
  <2> QED
    BY <2>6, <2>7
<1>11. CASE sleepTicks[cursor] - 1 # 0
  <2>1. UNCHANGED <<sleepList, readyList, state, mode>>
    BY <1>11 DEF WalkTask
  <2>2. Ready' = Ready /\ Sleeping' = Sleeping
    BY <2>1 DEF Ready, Sleeping
  <2>3. TypeOK'
    BY <1>1, <1>2, <1>3, <1>4, <1>5, <2>1 DEF TypeOK
  <2>4. RunningIsHead' /\ QueuesExclusive' /\ ReadyCreated'
    BY <1>1, <1>2, <2>1, <2>2 DEF RunningIsHead, QueuesExclusive, ReadyCreated
  <2>5. SleepersParked'
    <3>1. sleepTicks'[cursor] > 0
      BY <1>5, <1>6, <1>11
    <3> QED
      BY <1>1, <1>2, <1>3, <1>5, <2>2, <3>1 DEF SleepersParked, AllTasks
  <2>6. HolderReady' /\ CutByRunning'
    BY <1>1, <1>2, <2>1, <2>2 DEF HolderReady, CutByRunning, CutAppend
  <2>7. WalkAtomic'
    BY <1>1, <1>2, <1>4, <2>1, <2>2 DEF WalkAtomic
  <2>8. NoTaskLost'
    BY <1>2, <1>7, <1>8, <2>2 DEF TasksQueued, TaskQueued, NoTaskLost
  <2> QED
    BY <1>8, <1>9, <2>3, <2>4, <2>5, <2>6, <2>7, <2>8 DEF IndInv
<1> QED
  BY <1>10, <1>11

\* The end of the walk and the dispatch that follows it.
LEMMA WalkEndInv == IndInv /\ WalkEnd => IndInv'
<1> SUFFICES ASSUME IndInv, WalkEnd PROVE IndInv'
  OBVIOUS
<1> USE TasksAssumption
<1>1. /\ TypeOK /\ RunningIsHead /\ QueuesExclusive /\ ReadyCreated /\ NoTaskLost
      /\ SleepersParked /\ OneTickPending /\ HolderReady /\ WalkAtomic /\ ChildKnown
      /\ CutByRunning
  BY DEF IndInv
<1>2. /\ mode = "ok" /\ irq[curr] = "visit" /\ irq' = [irq EXCEPT ![curr] = "eoi"]
      /\ UNCHANGED <<readyList, sleepList, taskList, slice, sleepTicks, sel, gdt, found, ctx, child, cursor, inService, ticks>>
  BY DEF WalkEnd, descVars
<1>3. Ready' = Ready /\ Sleeping' = Sleeping /\ curr \in AllTasks
  BY <1>1, <1>2 DEF Ready, Sleeping, TypeOK
<1>4. /\ curr' \in AllTasks /\ state' \in [AllTasks -> States] /\ mode' \in Modes
      /\ RunningIsHead' /\ CutByRunning'
  <2>1. CASE WalkVisitsTail /\ taskLen - 1 = 0
    <3>1. mode' = "corrupt" /\ UNCHANGED <<curr, state>>
      BY <2>1 DEF WalkEnd
    <3> QED
      BY <1>1, <3>1 DEF TypeOK, RunningIsHead, CutByRunning, Modes
  <2>2. CASE ~(WalkVisitsTail /\ taskLen - 1 = 0)
    <3>1. task_dispatch(readyList, state)
      BY <2>2 DEF WalkEnd
    <3>2. readyList \in Seq(Tasks) /\ state \in [AllTasks -> States] /\ mode \in Modes
      BY <1>1 DEF TypeOK
    <3>3. /\ curr' \in AllTasks /\ state' \in [AllTasks -> States] /\ mode' \in Modes
          /\ curr' = Idle => readyList = << >>
          /\ curr' # Idle => readyList # << >> /\ Head(readyList) = curr'
      BY <3>1, <3>2, DispatchFacts
    <3>4. CutByRunning'
      <4>1. CASE CutAppend
        <5>1. curr # Idle
          BY <1>1, <4>1, IdleOutside DEF CutAppend, InitPoints
        <5>2. curr' = curr
          BY <1>1, <1>2, <3>3, <5>1 DEF RunningIsHead
        <5> QED
          BY <1>1, <1>2, <5>2 DEF CutByRunning, CutAppend
      <4>2. CASE ~CutAppend
        <5>1. ctx[Idle] \notin {"linked", "tailed"}
          BY <1>1, IdleOutside DEF InitPoints
        <5> QED
          BY <1>1, <1>2, <3>3, <4>2, <5>1, NoCut DEF CutByRunning, CutAppend, AllTasks
      <4> QED
        BY <4>1, <4>2
    <3> QED
      BY <1>2, <3>3, <3>4 DEF RunningIsHead
  <2> QED
    BY <2>1, <2>2
<1>5. TypeOK'
  <2>1. irq' \in [AllTasks -> IrqPoints]
    BY <1>1, <1>2 DEF TypeOK, IrqPoints
  <2>2. taskLen' \in Int
    BY <1>1 DEF TypeOK, WalkEnd
  <2> QED
    BY <1>1, <1>2, <1>4, <2>1, <2>2 DEF TypeOK
<1>6. /\ irq'[curr] = "eoi"
      /\ \A t \in AllTasks : t # curr => irq'[t] = irq[t] /\ irq[t] = "no"
  BY <1>1, <1>2, <1>3 DEF TypeOK, OneTickPending
<1>7. QueuesExclusive' /\ ReadyCreated' /\ NoTaskLost' /\ ChildKnown'
  <2>1. TasksQueued
    BY <1>1, <1>2, OkQueued
  <2>2. NoTaskLost'
    BY <1>2, <1>3, <2>1 DEF TasksQueued, TaskQueued, NoTaskLost, Created
  <2>3. ChildKnown'
    BY <1>1, <1>2, ChildKept
  <2> QED
    BY <1>1, <1>2, <1>3, <2>2, <2>3 DEF QueuesExclusive, ReadyCreated
<1>8. SleepersParked'
  <2>1. \A t \in Sleeping : t # curr /\ t \in AllTasks
    BY <1>1, <1>2, QueueTypes DEF SleepersParked
  <2> QED
    BY <1>1, <1>2, <1>3, <1>6, <2>1 DEF SleepersParked
<1>9. OneTickPending' /\ WalkAtomic'
  BY <1>1, <1>2, <1>3, <1>4, <1>6 DEF OneTickPending, WalkAtomic
<1>10. HolderReady'
  BY <1>1, <1>2, <1>3, <1>6 DEF HolderReady, AllTasks
<1> QED
  BY <1>4, <1>5, <1>7, <1>8, <1>9, <1>10 DEF IndInv

\* The acknowledgement and the return from the interrupt.
LEMMA TickEoiInv == IndInv /\ TickEoi => IndInv'
<1> SUFFICES ASSUME IndInv, TickEoi PROVE IndInv'
  OBVIOUS
<1> USE TasksAssumption
<1>1. /\ TypeOK /\ RunningIsHead /\ QueuesExclusive /\ ReadyCreated /\ NoTaskLost
      /\ SleepersParked /\ OneTickPending /\ HolderReady /\ WalkAtomic /\ ChildKnown
      /\ CutByRunning
  BY DEF IndInv
<1>2. /\ mode = "ok" /\ irq[curr] = "eoi" /\ irq' = [irq EXCEPT ![curr] = "no"]
      /\ inService' = FALSE
      /\ UNCHANGED <<curr, readyList, sleepList, taskList, taskLen, state, slice,
                     sleepTicks, sel, gdt, found, ctx, child, cursor, ticks, mode>>
  BY DEF TickEoi, descVars
<1>3. Ready' = Ready /\ Sleeping' = Sleeping /\ curr \in AllTasks
  BY <1>1, <1>2 DEF Ready, Sleeping, TypeOK
<1>4. \A t \in AllTasks : irq'[t] = "no"
  BY <1>1, <1>2, <1>3 DEF TypeOK, OneTickPending
<1>5. TypeOK'
  <2>1. irq' \in [AllTasks -> IrqPoints]
    BY <1>1, <1>2 DEF TypeOK, IrqPoints
  <2> QED
    BY <1>1, <1>2, <2>1 DEF TypeOK
<1>6. RunningIsHead' /\ QueuesExclusive' /\ ReadyCreated' /\ NoTaskLost' /\ CutByRunning'
  BY <1>1, <1>2, <1>3
     DEF RunningIsHead, QueuesExclusive, ReadyCreated, NoTaskLost, TaskQueued, Created,
     CutByRunning, CutAppend
<1>9. ChildKnown'
  BY <1>1, <1>2, ChildKept
<1>7. SleepersParked'
  BY <1>1, <1>2, <1>3, <1>4, QueueTypes DEF SleepersParked
<1>8. OneTickPending' /\ WalkAtomic' /\ HolderReady'
  BY <1>2, <1>3, <1>4 DEF OneTickPending, WalkAtomic, HolderReady, AllTasks
<1> QED
  BY <1>5, <1>6, <1>7, <1>8, <1>9 DEF IndInv

\* sys_sched_yield with several ready tasks.
LEMMA YieldInv == IndInv /\ sys_sched_yield => IndInv'
<1> SUFFICES ASSUME IndInv, sys_sched_yield PROVE IndInv'
  OBVIOUS
<1> USE TasksAssumption
<1>1. /\ TypeOK /\ RunningIsHead /\ QueuesExclusive /\ ReadyCreated /\ NoTaskLost
      /\ SleepersParked /\ OneTickPending /\ HolderReady /\ WalkAtomic /\ ChildKnown
      /\ CutByRunning
  BY DEF IndInv
<1>2. /\ mode = "ok" /\ curr # Idle /\ irq[curr] = "no" /\ ctx[curr] = "run"
      /\ readyList' = Requeue(readyList, curr)
      /\ task_dispatch(Requeue(readyList, curr), ReadyState(state, curr))
      /\ ctx' = [ctx EXCEPT ![curr] = "yield"]
      /\ UNCHANGED <<sleepList, taskList, taskLen, slice, sleepTicks, sel, gdt, found, irq, child, cursor, inService, ticks>>
  BY DEF sys_sched_yield, TaskRuns, descVars
<1>3. curr \in Ready /\ curr \in Tasks /\ curr \in AllTasks
  BY <1>1, <1>2, CurrReady DEF AllTasks
<1>4. /\ readyList' \in Seq(Tasks) /\ IsInjective(readyList') /\ Ready' = Ready
      /\ Sleeping' = Sleeping
  BY <1>1, <1>2, RequeueFacts DEF Ready, Sleeping
<1>5. /\ curr' \in AllTasks /\ state' \in [AllTasks -> States] /\ mode' \in Modes
      /\ RunningIsHead'
  <2>1. ReadyState(state, curr) \in [AllTasks -> States] /\ mode \in Modes
    BY <1>1, ReadyStateType DEF TypeOK
  <2> QED
    BY <1>2, <1>4, <2>1, DispatchFacts DEF RunningIsHead
<1>6. /\ ctx' \in [AllTasks -> Contexts] /\ ctx'[curr] = "yield"
      /\ \A t \in AllTasks : t # curr => ctx'[t] = ctx[t]
  BY <1>1, <1>2, <1>3 DEF TypeOK, Contexts
<1>16. CutByRunning'
  <2>1. ~CutAppend /\ ctx'[Idle] \notin {"linked", "tailed"}
    BY <1>1, <1>2, <1>3, <1>6, IdleOutside DEF CutAppend, InitPoints, AllTasks
  <2>2. \A t \in Tasks : ctx'[t] \notin {"linked", "tailed"}
    BY <1>1, <1>2, <1>6, <2>1, NoCut DEF AllTasks
  <2> QED
    BY <1>5, <2>1, <2>2 DEF CutByRunning, CutAppend, AllTasks
<1>7. TypeOK'
  BY <1>1, <1>2, <1>4, <1>5, <1>6 DEF TypeOK
<1>8. QueuesExclusive'
  BY <1>1, <1>2, <1>4 DEF QueuesExclusive
<1>9. Ready \subseteq AllTasks /\ Sleeping \subseteq AllTasks /\ curr \notin Sleeping
  BY <1>1, <1>3, QueueTypes DEF QueuesExclusive
<1>10. ReadyCreated'
  BY <1>1, <1>4, <1>6, <1>9 DEF ReadyCreated
<1>11. NoTaskLost'
  <2>1. TasksQueued
    BY <1>1, <1>2, OkQueued
  <2>2. \A t \in Created' : t \in Created /\ TaskQueued(t)'
    BY <1>2, <1>3, <1>4, <1>6, <2>1 DEF TasksQueued, TaskQueued, Created, AllTasks
  <2> QED
    BY <2>2 DEF NoTaskLost
<1>12. SleepersParked'
  BY <1>1, <1>2, <1>4, <1>6, <1>9 DEF SleepersParked
<1>13. OneTickPending' /\ HolderReady'
  BY <1>1, <1>2, <1>4 DEF OneTickPending, HolderReady
<1>14. WalkAtomic'
  BY <1>1, <1>2, <1>3, <1>5 DEF WalkAtomic
<1>15. ChildKnown'
  BY <1>1, <1>2, <1>6, ChildKept DEF InitPoints
<1> QED
  BY <1>5, <1>7, <1>8, <1>10, <1>11, <1>12, <1>13, <1>14, <1>15, <1>16 DEF IndInv

\* sys_sleep with the current task as its operand.
LEMMA SleepCurrentInv ==
    ASSUME NEW ms \in SleepMs PROVE IndInv /\ SleepCurrent(ms) => IndInv'
<1> SUFFICES ASSUME IndInv, SleepCurrent(ms) PROVE IndInv'
  OBVIOUS
<1> USE TasksAssumption, NumbersAssumption
<1>1. /\ TypeOK /\ RunningIsHead /\ QueuesExclusive /\ ReadyCreated /\ NoTaskLost
      /\ SleepersParked /\ OneTickPending /\ HolderReady /\ WalkAtomic /\ ChildKnown
      /\ CutByRunning
  BY DEF IndInv
<1> DEFINE rl == task_set_block(readyList, curr)
<1>2. /\ mode = "ok" /\ curr # Idle /\ irq[curr] = "no" /\ ctx[curr] = "run"
      /\ readyList' = rl
      /\ UNCHANGED <<taskList, taskLen, slice, sel, gdt, found, irq, child,
                     cursor, inService, ticks>>
  BY DEF SleepCurrent, TaskRuns, descVars
<1>3. curr \in Ready /\ curr \in Tasks /\ curr \in AllTasks /\ curr \notin Sleeping
  BY <1>1, <1>2, CurrReady DEF AllTasks, QueuesExclusive
<1>4. rl \in Seq(Tasks) /\ IsInjective(rl) /\ Ready' = Ready \ {curr}
  BY <1>1, <1>2, BlockFacts DEF Ready
<1> HIDE DEF rl
<1>5. Ready \subseteq AllTasks /\ Sleeping \subseteq AllTasks
  BY <1>1, QueueTypes
<1>6. \A t \in AllTasks : irq[t] = "visit" => t = curr
  BY <1>1, <1>2 DEF WalkAtomic
<1>10. TasksQueued
  BY <1>1, <1>2, OkQueued
<1>11. /\ \A t \in Tasks : ctx[t] \notin {"linked", "tailed"}
       /\ ctx[Idle] \notin {"linked", "tailed"}
  BY <1>1, <1>2, NoCut, IdleOutside DEF CutAppend, InitPoints
<1>7. HolderReady' /\ OneTickPending'
  BY <1>1, <1>2, <1>4 DEF HolderReady, OneTickPending
<1>8. CASE ms = 0
  <2>1. /\ task_dispatch(rl, state) /\ ctx' = [ctx EXCEPT ![curr] = "sleep0"]
        /\ UNCHANGED <<sleepTicks, sleepList>>
    BY <1>8 DEF SleepCurrent, rl
  <2>2. /\ curr' \in AllTasks /\ state' \in [AllTasks -> States] /\ mode' \in Modes
        /\ RunningIsHead'
    BY <1>1, <1>2, <1>4, <2>1, DispatchFacts DEF RunningIsHead, TypeOK
  <2>3. /\ ctx' \in [AllTasks -> Contexts] /\ ctx'[curr] = "sleep0"
        /\ \A t \in AllTasks : t # curr => ctx'[t] = ctx[t]
    BY <1>1, <1>3, <2>1 DEF TypeOK, Contexts
  <2>4. TypeOK'
    BY <1>1, <1>2, <1>4, <2>1, <2>2, <2>3 DEF TypeOK
  <2>5. Sleeping' = Sleeping
    BY <2>1 DEF Sleeping
  <2>6. QueuesExclusive'
    BY <1>1, <1>2, <1>4, <2>1, <2>5 DEF QueuesExclusive
  <2>7. ReadyCreated'
    BY <1>1, <1>4, <1>5, <2>3 DEF ReadyCreated
  <2>8. NoTaskLost'
    <3>1. \A t \in Created' : t \in Created /\ TaskQueued(t)'
      BY <1>2, <1>3, <1>4, <1>10, <2>3, <2>5 DEF TasksQueued, TaskQueued, Created, AllTasks
    <3> QED
      BY <3>1 DEF NoTaskLost
  <2>12. CutByRunning'
    BY <1>11, <2>2, <2>3 DEF CutByRunning, CutAppend, AllTasks
  <2>9. SleepersParked'
    BY <1>1, <1>2, <1>3, <1>5, <2>1, <2>3, <2>5 DEF SleepersParked
  <2>10. WalkAtomic'
    BY <1>2, <1>6, <1>3, <2>2 DEF WalkAtomic
  <2>11. ChildKnown'
    BY <1>1, <1>2, <2>3, ChildKept DEF InitPoints
  <2> QED
    BY <1>7, <2>2, <2>4, <2>6, <2>7, <2>8, <2>9, <2>10, <2>11, <2>12 DEF IndInv
<1>9. CASE ms # 0
  <2> DEFINE st == [state EXCEPT ![curr] = "SLEEP"]
  <2>1. /\ sleepTicks' = [sleepTicks EXCEPT ![curr] = ms]
        /\ sleepList' = klist_append(sleepList, curr)
        /\ task_dispatch(rl, st)
        /\ ctx' = [ctx EXCEPT ![curr] = "sleep"]
    BY <1>9 DEF SleepCurrent, rl
  <2>2. st \in [AllTasks -> States] /\ mode \in Modes
    BY <1>1, <1>3 DEF TypeOK, States
  <2> HIDE DEF st
  <2>3. /\ curr' \in AllTasks /\ state' \in [AllTasks -> States] /\ mode' \in Modes
        /\ RunningIsHead'
    BY <1>2, <1>4, <2>1, <2>2, DispatchFacts DEF RunningIsHead
  <2>4. /\ ctx' \in [AllTasks -> Contexts] /\ ctx'[curr] = "sleep"
        /\ \A t \in AllTasks : t # curr => ctx'[t] = ctx[t]
    BY <1>1, <1>3, <2>1 DEF TypeOK, Contexts
  <2>5. /\ sleepTicks' \in [AllTasks -> Int] /\ sleepTicks'[curr] = ms /\ ms > 0
        /\ \A t \in AllTasks : t # curr => sleepTicks'[t] = sleepTicks[t]
    BY <1>1, <1>3, <1>9, <2>1 DEF TypeOK
  <2>6. /\ sleepList' \in Seq(Tasks) /\ IsInjective(sleepList')
        /\ Sleeping' = Sleeping \cup {curr}
    BY <1>1, <1>3, <2>1, AppendLinks DEF TypeOK, QueuesExclusive, Sleeping
  <2>7. TypeOK'
    BY <1>1, <1>2, <1>4, <2>3, <2>4, <2>5, <2>6 DEF TypeOK
  <2>8. QueuesExclusive'
    BY <1>1, <1>2, <1>4, <2>6 DEF QueuesExclusive
  <2>9. ReadyCreated'
    BY <1>1, <1>4, <1>5, <2>4 DEF ReadyCreated
  <2>10. NoTaskLost'
    <3>1. \A t \in Created' : t \in Created /\ TaskQueued(t)'
      BY <1>2, <1>3, <1>4, <1>10, <2>4, <2>6 DEF TasksQueued, TaskQueued, Created, AllTasks
    <3> QED
      BY <3>1 DEF NoTaskLost
  <2>14. CutByRunning'
    BY <1>11, <2>3, <2>4 DEF CutByRunning, CutAppend, AllTasks
  <2>11. SleepersParked'
    BY <1>1, <1>2, <1>3, <1>5, <2>4, <2>5, <2>6 DEF SleepersParked
  <2>12. WalkAtomic'
    BY <1>2, <1>6, <1>3, <2>3 DEF WalkAtomic
  <2>13. ChildKnown'
    BY <1>1, <1>2, <2>4, ChildKept DEF InitPoints
  <2> QED
    BY <1>7, <2>3, <2>7, <2>8, <2>9, <2>10, <2>11, <2>12, <2>13, <2>14 DEF IndInv
<1> QED
  BY <1>8, <1>9

\* sys_sleep as it is written.
LEMMA SleepAddressInv ==
    ASSUME NEW ms \in SleepMs PROVE IndInv /\ SleepAddress(ms) => IndInv'
<1> SUFFICES ASSUME IndInv, SleepAddress(ms) PROVE IndInv'
  OBVIOUS
<1> USE TasksAssumption
<1>1. /\ mode = "ok" /\ curr # Idle /\ irq[curr] = "no" /\ ctx[curr] = "run"
      /\ UNCHANGED <<curr, readyList, sleepList, taskList, taskLen, state, slice,
                     sleepTicks, sel, gdt, found, irq, child, cursor, inService, ticks>>
  BY DEF SleepAddress, TaskRuns, descVars
<1>2. /\ TypeOK /\ ChildKnown /\ CutByRunning /\ SleepersParked /\ ReadyCreated
      /\ curr \in AllTasks /\ Ready \subseteq AllTasks /\ Sleeping \subseteq AllTasks
  BY QueueTypes DEF IndInv, TypeOK
<1>3. CASE ms = 0
  <2>1. UNCHANGED <<ctx, mode>>
    BY <1>3 DEF SleepAddress
  <2>2. Created' = Created /\ TypeOK' /\ ChildKnown' /\ CutByRunning'
    BY <1>1, <1>2, <2>1 DEF Created, TypeOK, ChildKnown, CutByRunning, CutAppend
  <2> QED
    BY <1>1, <1>2, <2>1, <2>2, QueuesKept DEF ReadyCreated
<1>4. CASE ms # 0
  <2>1. ctx' = [ctx EXCEPT ![curr] = "sleep"] /\ mode' = "corrupt"
    BY <1>4 DEF SleepAddress
  <2>2. /\ ctx' \in [AllTasks -> Contexts] /\ ctx'[curr] = "sleep"
        /\ \A t \in AllTasks : t # curr => ctx'[t] = ctx[t]
    BY <1>2, <2>1 DEF TypeOK, Contexts
  <2>3. TypeOK' /\ CutByRunning'
    BY <1>1, <1>2, <2>1, <2>2 DEF TypeOK, CutByRunning, Modes
  <2>4. ChildKnown'
    BY <1>1, <1>2, <2>2, ChildKept DEF InitPoints
  <2>5. /\ \A t \in Sleeping : ctx'[t] = ctx[t]
        /\ \A t \in Ready : ctx'[t] \notin {"none", "new", "sleep0"}
    BY <1>1, <1>2, <2>2 DEF SleepersParked, ReadyCreated
  <2>6. \A t \in Created' : t \in Created /\ (ctx[t] = "sleep0" => ctx'[t] = "sleep0")
    BY <1>1, <2>2 DEF Created, AllTasks
  <2> QED
    BY <1>1, <2>3, <2>4, <2>5, <2>6, QueuesKept
<1> QED
  BY <1>3, <1>4

\* The return from a call that switched to another task.  A task that called
\* sys_sleep(0) was lost to the ready list, so it does not come here.
LEMMA SyscallReturnInv == IndInv /\ SyscallReturn => IndInv'
<1> SUFFICES ASSUME IndInv, SyscallReturn PROVE IndInv'
  OBVIOUS
<1> USE TasksAssumption
<1>1. /\ mode = "ok" /\ ctx[curr] \in {"yield", "sleep", "sleep0"}
      /\ ctx' = [ctx EXCEPT ![curr] = "run"]
      /\ UNCHANGED <<curr, readyList, sleepList, taskList, taskLen, state, slice,
                     sleepTicks, sel, gdt, found, irq, child, cursor, inService, ticks, mode>>
  BY DEF SyscallReturn, descVars
<1>2. /\ TypeOK /\ ChildKnown /\ CutByRunning /\ SleepersParked /\ ReadyCreated
      /\ RunningIsHead /\ QueuesExclusive /\ NoTaskLost
      /\ curr \in AllTasks /\ Ready \subseteq AllTasks /\ Sleeping \subseteq Tasks
      /\ Sleeping \subseteq AllTasks
  BY QueueTypes DEF IndInv, TypeOK
<1>3. /\ ctx' \in [AllTasks -> Contexts] /\ ctx'[curr] = "run"
      /\ \A t \in AllTasks : t # curr => ctx'[t] = ctx[t]
  BY <1>1, <1>2 DEF TypeOK, Contexts
<1>4. TypeOK'
  BY <1>1, <1>2, <1>3 DEF TypeOK
<1>5. CutByRunning'
  <2>1. ~CutAppend
    BY <1>1 DEF CutAppend
  <2>2. \A t \in Tasks : ctx'[t] \notin {"linked", "tailed"}
    BY <1>1, <1>2, <1>3, <2>1, NoCut DEF AllTasks
  <2> QED
    BY <1>1, <1>3, <2>2 DEF CutByRunning, CutAppend
<1>6. ChildKnown'
  BY <1>1, <1>2, <1>3, ChildKept DEF InitPoints
<1>7. curr # Idle => curr \in Ready
  BY <1>1, <1>2, CurrReady
<1>8. curr \notin Sleeping
  BY <1>2, <1>7 DEF QueuesExclusive
<1>9. /\ \A t \in Sleeping : ctx'[t] = ctx[t]
      /\ \A t \in Ready : ctx'[t] \notin {"none", "new", "sleep0"}
  BY <1>2, <1>3, <1>8 DEF ReadyCreated
<1>10. \A t \in Created' : t \in Created
                           /\ (ctx[t] = "sleep0" => ctx'[t] = "sleep0" \/ t \in Ready)
  BY <1>1, <1>2, <1>3, <1>7 DEF Created, AllTasks
<1> QED
  BY <1>1, <1>4, <1>5, <1>6, <1>9, <1>10, QueuesKept

\* Steps of task_init that only move the creator on, and that nobody else sees.
LEMMA CreatorMoves ==
    ASSUME IndInv, TypeOK', mode = "ok", NEW to \in InitPoints \ {"found", "linked", "tailed"},
           ctx[curr] \in InitPoints, ctx' = [ctx EXCEPT ![curr] = to],
           to = "made" <=> ctx[curr] = "found", ctx[curr] # "made",
           UNCHANGED <<curr, readyList, sleepList, sleepTicks, irq, child, cursor, inService>>
    PROVE  IndInv'
<1> USE TasksAssumption
<1>1. /\ TypeOK /\ ChildKnown /\ CutByRunning /\ SleepersParked /\ ReadyCreated
      /\ curr \in AllTasks /\ Ready \subseteq AllTasks /\ Sleeping \subseteq AllTasks
  BY QueueTypes DEF IndInv, TypeOK
<1>2. ctx'[curr] = to /\ \A t \in AllTasks : t # curr => ctx'[t] = ctx[t]
  BY <1>1 DEF TypeOK
<1>3. ChildKnown'
  BY <1>1, <1>2, ChildKept DEF InitPoints
<1>4. CutByRunning'
  <2>1. \A t \in Tasks : ctx'[t] \notin {"linked", "tailed"}
    BY <1>1, <1>2 DEF CutByRunning, AllTasks
  <2> QED
    BY <1>2, <2>1 DEF CutByRunning, CutAppend
<1>5. /\ \A t \in Sleeping : ctx'[t] = ctx[t]
      /\ \A t \in Ready : ctx'[t] \notin {"none", "new", "sleep0"}
  BY <1>1, <1>2 DEF SleepersParked, ReadyCreated, InitPoints
<1>6. \A t \in Created' : t \in Created /\ (ctx[t] = "sleep0" => ctx'[t] = "sleep0")
  BY <1>2 DEF Created, AllTasks, InitPoints
<1> QED
  BY <1>3, <1>4, <1>5, <1>6, QueuesKept

\* The lowest descriptor without attributes, or 0.
LEMMA FirstFreeFacts ==
    /\ FirstFree \in 0..GdtSlots
    /\ FirstFree = 0 <=> \A d \in Descriptors : gdt[d] # NoTask
    /\ FirstFree # 0 => FirstFree \in Descriptors /\ gdt[FirstFree] = NoTask
    /\ \A d \in Descriptors : gdt[d] = NoTask => FirstFree <= d
<1> USE NumbersAssumption
<1> DEFINE free == {d \in Descriptors : gdt[d] = NoTask}
<1>1. CASE free = {}
  BY <1>1 DEF FirstFree
<1>2. CASE free # {}
  <2>1. \E d \in free : \A e \in free : d <= e
    <3>1. free \subseteq Nat /\ free # {}
      BY <1>2 DEF Descriptors
    <3> HIDE DEF free
    <3>2. PICK x \in free : \A y \in free : ~(<<y, x>> \in OpToRel(<, Nat))
      BY <3>1, NatLessThanWellFounded, WFMin, Zenon
    <3>3. ASSUME NEW y \in free PROVE x <= y
      <4>1. x \in Nat /\ y \in Nat
        BY <3>1
      <4>2. ~(y < x)
        BY <3>2, <4>1 DEF OpToRel
      <4> QED
        BY <4>1, <4>2
    <3> QED
      BY <3>3
  <2>2. FirstFree = CHOOSE d \in free : \A e \in free : d <= e
    BY <1>2 DEF FirstFree
  <2>3. FirstFree \in free /\ \A e \in free : FirstFree <= e
    BY <2>1, <2>2
  <2> QED
    BY <2>3 DEF Descriptors
<1> QED
  BY <1>1, <1>2

\* The search for a descriptor at the start of task_init.
LEMMA TaskInitFindInv ==
    ASSUME NEW t \in Tasks PROVE IndInv /\ TaskInitFind(t) => IndInv'
<1> SUFFICES ASSUME IndInv, TaskInitFind(t) PROVE IndInv'
  OBVIOUS
<1> USE TasksAssumption
<1>1. /\ mode = "ok" /\ curr # Idle /\ ctx[curr] = "run" /\ ctx[t] = "none"
      /\ found' = [found EXCEPT ![curr] = FirstFree]
      /\ child' = [child EXCEPT ![curr] = t]
      /\ ctx' = [ctx EXCEPT ![curr] = "found", ![t] = "new"]
      /\ UNCHANGED <<curr, readyList, sleepList, taskList, taskLen, state, slice,
                     sleepTicks, sel, gdt, irq, cursor, inService, ticks, mode>>
  BY DEF TaskInitFind, TaskRuns
<1>2. /\ TypeOK /\ ChildKnown /\ CutByRunning /\ SleepersParked /\ ReadyCreated
      /\ curr \in AllTasks /\ Ready \subseteq AllTasks /\ Sleeping \subseteq AllTasks
      /\ t \in AllTasks /\ t # curr
  BY <1>1, QueueTypes DEF IndInv, TypeOK, AllTasks
<1>3. /\ ctx' \in [AllTasks -> Contexts] /\ ctx'[curr] = "found" /\ ctx'[t] = "new"
      /\ \A u \in AllTasks : u \notin {curr, t} => ctx'[u] = ctx[u]
  BY <1>1, <1>2 DEF TypeOK, Contexts, InitPoints
<1>4. /\ child' \in [AllTasks -> Tasks \cup {NoTask}] /\ child'[curr] = t
      /\ \A u \in AllTasks : u # curr => child'[u] = child[u]
  BY <1>1, <1>2 DEF TypeOK
<1>5. TypeOK'
  <2>1. found' \in [AllTasks -> 0..GdtSlots]
    BY <1>1, <1>2, FirstFreeFacts DEF TypeOK
  <2> QED
    BY <1>1, <1>2, <1>3, <1>4, <2>1 DEF TypeOK
<1>6. CutByRunning'
  <2>1. ~CutAppend
    BY <1>1 DEF CutAppend
  <2>2. \A u \in Tasks : ctx'[u] \notin {"linked", "tailed"}
    BY <1>1, <1>2, <1>3, <2>1, NoCut DEF AllTasks
  <2> QED
    BY <1>1, <1>3, <2>2 DEF CutByRunning, CutAppend
<1>7. ChildKnown'
  <2>1. \A u \in AllTasks : child[u] # NoTask => child[u] \in AllTasks
    BY <1>2 DEF TypeOK, AllTasks
  <2>2. \A u \in AllTasks : child[u] # t
    BY <1>1, <1>2 DEF ChildKnown
  <2>3. child'[Idle] = NoTask
    BY <1>1, <1>2, <1>4 DEF ChildKnown, AllTasks
  <2>4. \A u \in AllTasks : child'[u] # NoTask <=> ctx'[u] \in InitPoints
    BY <1>1, <1>2, <1>3, <1>4 DEF ChildKnown, InitPoints
  <2>5. ASSUME NEW u \in AllTasks, child'[u] # NoTask
        PROVE  ctx'[child'[u]] # "none"
               /\ (ctx'[child'[u]] = "new" <=> ctx'[u] \in {"found", "made"})
    <3>1. CASE u = curr
      BY <1>3, <1>4, <3>1
    <3>2. CASE u # curr
      <4>1. child'[u] = child[u] /\ child[u] \in AllTasks /\ child[u] # t /\ u # t
        BY <1>1, <1>2, <1>4, <2>1, <2>2, <2>5, <3>2 DEF ChildKnown, InitPoints
      <4> QED
        BY <1>1, <1>2, <1>3, <2>5, <3>2, <4>1 DEF ChildKnown
    <3> QED
      BY <3>1, <3>2
  <2>6. \A u, v \in AllTasks : child'[u] # NoTask /\ child'[u] = child'[v] => u = v
    BY <1>2, <1>4, <2>2 DEF ChildKnown
  <2> QED
    BY <2>3, <2>4, <2>5, <2>6 DEF ChildKnown
<1>8. /\ \A u \in Sleeping : ctx'[u] = ctx[u]
      /\ \A u \in Ready : ctx'[u] \notin {"none", "new", "sleep0"}
  BY <1>1, <1>2, <1>3 DEF SleepersParked, ReadyCreated
<1>9. \A u \in Created' : u \in Created /\ (ctx[u] = "sleep0" => ctx'[u] = "sleep0")
  BY <1>1, <1>3 DEF Created, AllTasks
<1> QED
  BY <1>1, <1>5, <1>6, <1>7, <1>8, <1>9, QueuesKept

\* The rest of tss_init, and the fields of the new task.
LEMMA TaskInitMakeInv == IndInv /\ TaskInitMake => IndInv'
<1> SUFFICES ASSUME IndInv, TaskInitMake PROVE IndInv'
  OBVIOUS
<1> USE TasksAssumption, NumbersAssumption
<1>1. /\ mode = "ok" /\ ctx[curr] = "found" /\ ctx' = [ctx EXCEPT ![curr] = "made"]
      /\ gdt' = [d \in Descriptors |-> IF d = found[curr] THEN child[curr] ELSE gdt[d]]
      /\ sel' = [sel EXCEPT ![child[curr]] = found[curr]]
      /\ state' = [state EXCEPT ![child[curr]] = "CREATED"]
      /\ slice' = [slice EXCEPT ![child[curr]] = TimeSlice]
      /\ UNCHANGED <<curr, readyList, sleepList, taskList, taskLen, sleepTicks,
                     found, irq, child, cursor, inService, ticks, mode>>
  BY DEF TaskInitMake, Advances, Stands
<1>2. TypeOK /\ curr \in AllTasks /\ child[curr] \in Tasks \cup {NoTask}
      /\ found[curr] \in 0..GdtSlots
  BY DEF IndInv, TypeOK
<1>3. TypeOK'
  <2>1. gdt' \in [Descriptors -> AllTasks \cup {NoTask}]
    BY <1>1, <1>2 DEF TypeOK, AllTasks
  <2>2. sel' \in [AllTasks -> 0..GdtSlots]
    BY <1>1, <1>2 DEF TypeOK
  <2>3. state' \in [AllTasks -> States]
    BY <1>1, <1>2 DEF TypeOK, States
  <2>4. slice' \in [AllTasks -> 1..TimeSlice]
    <3>1. TimeSlice \in 1..TimeSlice /\ slice \in [AllTasks -> 1..TimeSlice]
      BY <1>2 DEF TypeOK
    <3> QED
      BY <1>1, <3>1
  <2>5. ctx' \in [AllTasks -> Contexts]
    BY <1>1, <1>2 DEF TypeOK, Contexts, InitPoints
  <2> QED
    BY <1>1, <1>2, <2>1, <2>2, <2>3, <2>4, <2>5 DEF TypeOK
<1> QED
  BY <1>1, <1>3, CreatorMoves DEF InitPoints

\* The assignment that makes the new task visible on the ready list.
LEMMA ReadyLinkInv == IndInv /\ ReadyLink => IndInv'
<1> SUFFICES ASSUME IndInv, ReadyLink PROVE IndInv'
  OBVIOUS
<1> USE TasksAssumption
<1> DEFINE c == child[curr]
<1>1. /\ TypeOK /\ RunningIsHead /\ QueuesExclusive /\ ReadyCreated /\ NoTaskLost
      /\ SleepersParked /\ OneTickPending /\ HolderReady /\ WalkAtomic /\ ChildKnown
      /\ CutByRunning
  BY DEF IndInv
<1>2. /\ mode = "ok" /\ irq[curr] = "no" /\ ctx[curr] = "made"
      /\ ctx' = [ctx EXCEPT ![curr] = "linked", ![c] = "run"]
      /\ readyList' = task_set_ready(readyList, c)
      /\ UNCHANGED <<curr, sleepList, taskList, taskLen, state, slice, sleepTicks,
                     sel, gdt, found, irq, child, cursor, inService, ticks, mode>>
  BY DEF ReadyLink, Stands, descVars
<1>3. /\ curr \in AllTasks /\ curr # Idle /\ c \in Tasks /\ c \in AllTasks
      /\ c # Idle /\ ctx[c] = "new" /\ c # curr
  <2>1. curr \in AllTasks /\ child[curr] \in Tasks \cup {NoTask}
    BY <1>1 DEF TypeOK
  <2>2. child[curr] # NoTask /\ curr # Idle
    BY <1>1, <1>2, <2>1, IdleOutside DEF ChildKnown, InitPoints
  <2>3. ctx[c] = "new"
    BY <1>1, <1>2, <2>1, <2>2 DEF ChildKnown
  <2> QED
    BY <1>2, <2>1, <2>2, <2>3 DEF AllTasks
<1>4. c \notin Ready /\ c \notin Sleeping /\ Ready \subseteq AllTasks
      /\ Sleeping \subseteq AllTasks
  BY <1>1, <1>3, QueueTypes DEF ReadyCreated, SleepersParked
<1> HIDE DEF c
<1>5. /\ ctx' \in [AllTasks -> Contexts] /\ ctx'[curr] = "linked" /\ ctx'[c] = "run"
      /\ \A t \in AllTasks : t \notin {c, curr} => ctx'[t] = ctx[t]
  BY <1>1, <1>2, <1>3 DEF TypeOK, Contexts, InitPoints
<1>6. readyList \in Seq(Tasks) /\ readyList # << >> /\ Head(readyList) = curr
      /\ IsInjective(readyList) /\ curr \in Ready /\ curr \in Tasks
  BY <1>1, <1>2, <1>3, CurrReady DEF TypeOK, RunningIsHead, QueuesExclusive
<1>7. readyList' = klist_append(readyList, c)
  BY <1>2, <1>3 DEF task_set_ready
<1>8. /\ readyList' \in Seq(Tasks) /\ IsInjective(readyList') /\ Ready' = Ready \cup {c}
      /\ readyList' # << >> /\ Head(readyList') = curr
  BY <1>3, <1>4, <1>6, <1>7, AppendLinks DEF Ready
<1>9. Len(readyList') > 1 /\ Last(readyList') = c
  BY <1>3, <1>6, <1>7 DEF klist_append, Last
<1>10. Sleeping' = Sleeping
  BY <1>2 DEF Sleeping
<1>11. TypeOK'
  BY <1>1, <1>2, <1>5, <1>8 DEF TypeOK
<1>12. RunningIsHead' /\ QueuesExclusive'
  BY <1>1, <1>2, <1>3, <1>4, <1>8, <1>10 DEF RunningIsHead, QueuesExclusive
<1>13. ReadyCreated'
  BY <1>1, <1>4, <1>5, <1>8 DEF ReadyCreated
<1>14. NoTaskLost'
  <2>1. TasksQueued
    BY <1>1, <1>2, OkQueued
  <2>2. \A t \in Created' : TaskQueued(t)'
    BY <1>3, <1>5, <1>6, <1>8, <1>10, <2>1 DEF TasksQueued, TaskQueued, Created, AllTasks
  <2> QED
    BY <2>2 DEF NoTaskLost
<1>15. SleepersParked'
  BY <1>1, <1>2, <1>4, <1>5, <1>10 DEF SleepersParked
<1>16. OneTickPending' /\ HolderReady' /\ WalkAtomic'
  BY <1>1, <1>2, <1>8, <1>10 DEF OneTickPending, HolderReady, WalkAtomic
<1>17. ChildKnown'
  <2>1. \A u \in AllTasks : child[u] # NoTask => child[u] \in AllTasks
    BY <1>1 DEF TypeOK, AllTasks
  <2>2. child[c] = NoTask
    BY <1>1, <1>3 DEF ChildKnown, InitPoints
  <2>3. \A u \in AllTasks : child[u] = c => u = curr
    BY <1>1, <1>3 DEF ChildKnown, c, AllTasks
  <2>4. \A u \in AllTasks : child[u] # NoTask <=> ctx'[u] \in InitPoints
    BY <1>1, <1>2, <1>3, <1>5, <2>2 DEF ChildKnown, InitPoints
  <2>5. ASSUME NEW u \in AllTasks, child[u] # NoTask
        PROVE  ctx'[child[u]] # "none"
               /\ (ctx'[child[u]] = "new" <=> ctx'[u] \in {"found", "made"})
    <3>1. CASE u = curr
      BY <1>5, <3>1 DEF c
    <3>2. CASE u # curr
      <4>1. child[u] \in AllTasks /\ child[u] # c /\ u # c
        BY <2>1, <2>2, <2>3, <2>5, <3>2
      <4> QED
        BY <1>1, <1>2, <1>5, <2>5, <3>2, <4>1 DEF ChildKnown
    <3> QED
      BY <3>1, <3>2
  <2>6. \A u, v \in AllTasks : child[u] # NoTask /\ child[u] = child[v] => u = v
    BY <1>1 DEF ChildKnown
  <2>7. child[Idle] = NoTask /\ child' = child
    BY <1>1, <1>2 DEF ChildKnown
  <2> QED
    BY <2>4, <2>5, <2>6, <2>7 DEF ChildKnown
<1>18. CutByRunning'
  <2>1. \A t \in Tasks : ctx[t] \notin {"linked", "tailed"}
    BY <1>1, <1>2, NoCut DEF CutAppend
  <2> QED
    BY <1>2, <1>3, <1>5, <1>9, <2>1 DEF CutByRunning, c, AllTasks
<1> QED
  BY <1>11, <1>12, <1>13, <1>14, <1>15, <1>16, <1>17, <1>18 DEF IndInv

\* The other two assignments of the append to the ready list.
LEMMA ReadyFinishInv == IndInv /\ ReadyFinish => IndInv'
<1> SUFFICES ASSUME IndInv, ReadyFinish PROVE IndInv'
  OBVIOUS
<1> USE TasksAssumption
<1>1. UNCHANGED <<curr, readyList, sleepList, taskList, taskLen, state, slice,
                  sleepTicks, sel, gdt, found, irq, child, cursor, inService, ticks, mode>>
  BY DEF ReadyFinish, descVars
<1>2. /\ TypeOK /\ ChildKnown /\ CutByRunning /\ SleepersParked /\ ReadyCreated
      /\ curr \in AllTasks /\ Ready \subseteq AllTasks /\ Sleeping \subseteq AllTasks
  BY QueueTypes DEF IndInv, TypeOK
<1>3. CASE Advances("linked", "tailed")
  <2>1. mode = "ok" /\ ctx[curr] = "linked" /\ ctx' = [ctx EXCEPT ![curr] = "tailed"]
    BY <1>3 DEF Advances, Stands
  <2>2. /\ ctx' \in [AllTasks -> Contexts] /\ ctx'[curr] = "tailed"
        /\ \A t \in AllTasks : t # curr => ctx'[t] = ctx[t]
    BY <1>2, <2>1 DEF TypeOK, Contexts, InitPoints
  <2>3. TypeOK'
    BY <1>1, <1>2, <2>2 DEF TypeOK
  <2>4. ChildKnown'
    BY <1>1, <1>2, <2>1, <2>2, ChildKept DEF InitPoints
  <2>5. CutByRunning'
    BY <1>1, <1>2, <2>1, <2>2 DEF CutByRunning, CutAppend, AllTasks
  <2>6. /\ \A t \in Sleeping : ctx'[t] = ctx[t]
        /\ \A t \in Ready : ctx'[t] \notin {"none", "new", "sleep0"}
    BY <1>2, <2>1, <2>2 DEF SleepersParked, ReadyCreated
  <2>7. \A t \in Created' : t \in Created /\ (ctx[t] = "sleep0" => ctx'[t] = "sleep0")
    BY <2>1, <2>2 DEF Created, AllTasks
  <2> QED
    BY <1>1, <2>1, <2>3, <2>4, <2>5, <2>6, <2>7, QueuesKept
<1>4. CASE Advances("tailed", "counted")
  <2>1. mode = "ok" /\ ctx[curr] = "tailed" /\ ctx' = [ctx EXCEPT ![curr] = "counted"]
    BY <1>4 DEF Advances, Stands
  <2>2. TypeOK'
    <3>1. ctx' \in [AllTasks -> Contexts]
      BY <1>2, <2>1 DEF TypeOK, Contexts, InitPoints
    <3> QED
      BY <1>1, <1>2, <3>1 DEF TypeOK
  <2> QED
    BY <1>1, <2>1, <2>2, CreatorMoves DEF InitPoints
<1> QED
  BY <1>3, <1>4 DEF ReadyFinish

\* The state field of the new task.
LEMMA TaskInitStateInv == IndInv /\ TaskInitState => IndInv'
<1> SUFFICES ASSUME IndInv, TaskInitState PROVE IndInv'
  OBVIOUS
<1>1. /\ mode = "ok" /\ ctx[curr] = "counted" /\ ctx' = [ctx EXCEPT ![curr] = "ready"]
      /\ state' = ReadyState(state, child[curr])
      /\ UNCHANGED <<curr, readyList, sleepList, taskList, taskLen, slice, sleepTicks,
                     sel, gdt, found, irq, child, cursor, inService, ticks, mode>>
  BY DEF TaskInitState, Advances, Stands, descVars
<1>2. TypeOK'
  <2>1. TypeOK /\ curr \in AllTasks
    BY DEF IndInv, TypeOK
  <2>2. ctx' \in [AllTasks -> Contexts] /\ state' \in [AllTasks -> States]
    BY <1>1, <2>1, ReadyStateType DEF TypeOK, Contexts, InitPoints
  <2> QED
    BY <1>1, <2>1, <2>2 DEF TypeOK
<1> QED
  BY <1>1, <1>2, CreatorMoves DEF InitPoints

\* The append to task_list, its first assignment: it touches neither queue.
LEMMA ListLinkInv == IndInv /\ ListLink => IndInv'
<1> SUFFICES ASSUME IndInv, ListLink PROVE IndInv'
  OBVIOUS
<1> USE TasksAssumption
<1>1. /\ mode = "ok" /\ ctx[curr] = "ready" /\ ctx' = [ctx EXCEPT ![curr] = "listLinked"]
      /\ taskList' = IF ListCut THEN OverwriteLast(taskList, child[curr])
                                ELSE klist_append(taskList, child[curr])
      /\ mode' = IF ListCut THEN "torn" ELSE mode
      /\ UNCHANGED <<curr, readyList, sleepList, taskLen, state, slice, sleepTicks,
                     sel, gdt, found, irq, child, cursor, inService, ticks>>
  BY DEF ListLink, Advances, Stands, descVars
<1>2. TypeOK /\ ChildKnown /\ curr \in AllTasks
  BY DEF IndInv, TypeOK
<1>3. child[curr] \in AllTasks
  BY <1>1, <1>2, SMTT(30) DEF ChildKnown, TypeOK, AllTasks, InitPoints
<1>4. taskList' \in Seq(AllTasks)
  <2>1. taskList \in Seq(AllTasks) /\ Front(taskList) \in Seq(AllTasks)
    BY <1>2 DEF TypeOK, Front
  <2> QED
    BY <1>1, <1>3, <2>1 DEF OverwriteLast, klist_append
<1>5. ctx' \in [AllTasks -> Contexts] /\ mode' \in Modes
  BY <1>1, <1>2 DEF TypeOK, Contexts, InitPoints, Modes
<1>6. TypeOK'
  BY <1>1, <1>2, <1>4, <1>5 DEF TypeOK
<1> QED
  BY <1>1, <1>6, CreatorMoves DEF InitPoints

\* Its second assignment.
LEMMA ListTailInv == IndInv /\ ListTail => IndInv'
<1> SUFFICES ASSUME IndInv, ListTail PROVE IndInv'
  OBVIOUS
<1>1. /\ mode = "ok" /\ ctx[curr] = "listLinked"
      /\ ctx' = [ctx EXCEPT ![curr] = "listTailed"]
      /\ UNCHANGED <<curr, readyList, sleepList, taskList, taskLen, state, slice,
                     sleepTicks, sel, gdt, found, irq, child, cursor, inService, ticks, mode>>
  BY DEF ListTail, Advances, Stands, descVars
<1>2. TypeOK'
  <2>1. TypeOK /\ ctx' \in [AllTasks -> Contexts]
    BY <1>1 DEF IndInv, TypeOK, Contexts, InitPoints
  <2> QED
    BY <1>1, <2>1 DEF TypeOK
<1> QED
  BY <1>1, <1>2, CreatorMoves DEF InitPoints

\* Its third, and the return from task_init.
LEMMA ListCountInv == IndInv /\ ListCount => IndInv'
<1> SUFFICES ASSUME IndInv, ListCount PROVE IndInv'
  OBVIOUS
<1> USE TasksAssumption
<1>1. /\ mode = "ok" /\ ctx[curr] = "listTailed" /\ ctx' = [ctx EXCEPT ![curr] = "run"]
      /\ taskLen' = taskLen + 1 /\ child' = [child EXCEPT ![curr] = NoTask]
      /\ UNCHANGED <<curr, readyList, sleepList, taskList, state, slice, sleepTicks,
                     sel, gdt, found, irq, cursor, inService, ticks, mode>>
  BY DEF ListCount, Advances, Stands, descVars
<1>2. /\ TypeOK /\ ChildKnown /\ CutByRunning /\ SleepersParked /\ ReadyCreated
      /\ curr \in AllTasks /\ Ready \subseteq AllTasks /\ Sleeping \subseteq AllTasks
  BY QueueTypes DEF IndInv, TypeOK
<1>3. /\ ctx' \in [AllTasks -> Contexts] /\ ctx'[curr] = "run"
      /\ \A t \in AllTasks : t # curr => ctx'[t] = ctx[t]
  BY <1>1, <1>2 DEF TypeOK, Contexts
<1>4. /\ child' \in [AllTasks -> Tasks \cup {NoTask}] /\ child'[curr] = NoTask
      /\ \A t \in AllTasks : t # curr => child'[t] = child[t]
  BY <1>1, <1>2 DEF TypeOK
<1>5. TypeOK'
  BY <1>1, <1>2, <1>3, <1>4 DEF TypeOK
<1>6. CutByRunning'
  <2>1. ~CutAppend
    BY <1>1 DEF CutAppend
  <2>2. \A t \in Tasks : ctx'[t] \notin {"linked", "tailed"}
    BY <1>1, <1>2, <1>3, <2>1, NoCut DEF AllTasks
  <2> QED
    BY <1>1, <1>3, <2>2 DEF CutByRunning, CutAppend
<1>7. ChildKnown'
  <2>1. \A t \in AllTasks : child'[t] # NoTask => t # curr /\ child'[t] = child[t]
                                                 /\ child[t] \in AllTasks
    BY <1>2, <1>4 DEF TypeOK, AllTasks
  <2>2. child'[Idle] = NoTask
    BY <1>2, <1>4 DEF ChildKnown, AllTasks
  <2>3. \A t \in AllTasks : child'[t] # NoTask <=> ctx'[t] \in InitPoints
    BY <1>2, <1>3, <1>4 DEF ChildKnown, InitPoints
  <2>4. \A t \in AllTasks :
            child'[t] # NoTask =>
                /\ ctx'[child'[t]] # "none"
                /\ ctx'[child'[t]] = "new" <=> ctx'[t] \in {"found", "made"}
    BY <1>1, <1>2, <1>3, <2>1 DEF ChildKnown
  <2>5. \A t, u \in AllTasks : child'[t] # NoTask /\ child'[t] = child'[u] => t = u
    BY <1>2, <2>1 DEF ChildKnown
  <2> QED
    BY <2>2, <2>3, <2>4, <2>5 DEF ChildKnown
<1>8. /\ \A t \in Sleeping : ctx'[t] = ctx[t]
      /\ \A t \in Ready : ctx'[t] \notin {"none", "new", "sleep0"}
  BY <1>1, <1>2, <1>3 DEF SleepersParked, ReadyCreated
<1>9. \A t \in Created' : t \in Created /\ (ctx[t] = "sleep0" => ctx'[t] = "sleep0")
  BY <1>1, <1>3 DEF Created, AllTasks
<1> QED
  BY <1>1, <1>5, <1>6, <1>7, <1>8, <1>9, QueuesKept

-----------------------------------------------------------------------------
(* The invariant holds in every reachable state.                           *)

\* Every step of the scheduler, and a step that changes nothing, preserves
\* the invariant.
LEMMA NextInv == IndInv /\ [Next]_vars => IndInv'
<1> SUFFICES ASSUME IndInv, [Next]_vars PROVE IndInv'
  OBVIOUS
<1>1. CASE TickSlice
  BY <1>1, TickSliceInv
<1>2. CASE WalkStart
  BY <1>2, WalkStartInv
<1>3. CASE WalkTask
  BY <1>3, WalkTaskInv
<1>4. CASE WalkEnd
  BY <1>4, WalkEndInv
<1>5. CASE TickEoi
  BY <1>5, TickEoiInv
<1>6. CASE sys_sched_yield
  BY <1>6, YieldInv
<1>7. ASSUME NEW ms \in SleepMs, sys_sleep(ms) PROVE IndInv'
  BY <1>7, SleepCurrentInv, SleepAddressInv DEF sys_sleep
<1>8. CASE SyscallReturn
  BY <1>8, SyscallReturnInv
<1>9. ASSUME NEW t \in Tasks, TaskInitFind(t) PROVE IndInv'
  BY <1>9, TaskInitFindInv
<1>10. CASE TaskInitMake
  BY <1>10, TaskInitMakeInv
<1>11. CASE ReadyLink
  BY <1>11, ReadyLinkInv
<1>12. CASE ReadyFinish
  BY <1>12, ReadyFinishInv
<1>13. CASE TaskInitState
  BY <1>13, TaskInitStateInv
<1>14. CASE ListLink
  BY <1>14, ListLinkInv
<1>15. CASE ListTail
  BY <1>15, ListTailInv
<1>16. CASE ListCount
  BY <1>16, ListCountInv
<1>17. CASE UNCHANGED vars
  BY <1>17, SMTT(30) DEF vars, descVars, IndInv, TypeOK, RunningIsHead, QueuesExclusive,
     ReadyCreated, NoTaskLost, TaskQueued, SleepersParked, OneTickPending, HolderReady,
     WalkAtomic, ChildKnown, CutByRunning, CutAppend, Ready, Sleeping, Created
<1> QED
  BY <1>1, <1>2, <1>3, <1>4, <1>5, <1>6, <1>7, <1>8, <1>9, <1>10, <1>11, <1>12, <1>13,
     <1>14, <1>15, <1>16, <1>17
  DEF Next

\* The inductive invariant is an invariant of the scheduler.
THEOREM SchedulerInvariant == Spec => []IndInv
BY InitInv, NextInv, PTL DEF Spec

\* Type correctness: in particular the slice counter of a task always is
\* between 1 and the time slice, and a queue never holds the idle task.
THEOREM TypeCorrect == Spec => []TypeOK
<1>1. IndInv => TypeOK
  BY DEF IndInv
<1> QED
  BY <1>1, SchedulerInvariant, PTL

\* curr_task and the ready list agree whenever another context can run.
THEOREM RunningTaskIsHead == Spec => []RunningIsHead
<1>1. IndInv => RunningIsHead
  BY DEF IndInv
<1> QED
  BY <1>1, SchedulerInvariant, PTL

\* No task is linked twice through its run_node.
THEOREM OneQueuePerTask == Spec => []QueuesExclusive
<1>1. IndInv => QueuesExclusive
  BY DEF IndInv
<1> QED
  BY <1>1, SchedulerInvariant, PTL

\* A created task stays on a queue unless it called sys_sleep(0), or a tick cut
\* the append of task_init: then the interrupted creator or the task it creates
\* is lost, and nobody else.
THEOREM TasksAreKept == Spec => []NoTaskLost
<1>1. IndInv => NoTaskLost
  BY DEF IndInv
<1> QED
  BY <1>1, SchedulerInvariant, PTL

\* A sleeping task stands in sys_sleep with time left to wait.
THEOREM SleepersAreParked == Spec => []SleepersParked
<1>1. IndInv => SleepersParked
  BY DEF IndInv
<1> QED
  BY <1>1, SchedulerInvariant, PTL

\* At most one timer interrupt is unacknowledged.
THEOREM AtMostOneTick == Spec => []OneTickPending
<1>1. IndInv => OneTickPending
  BY DEF IndInv
<1> QED
  BY <1>1, SchedulerInvariant, PTL

\* The idle task never halts the processor with the timer blocked: a task
\* that holds the unfinished tick is ready, and with a ready task the idle
\* task does not run.
THEOREM IdleWakes == Spec => []IdleCanBeWoken
<1>1. IndInv => IdleCanBeWoken
  <2> SUFFICES ASSUME IndInv, mode = "ok", curr = Idle, irq[Idle] = "no"
               PROVE  ~inService
    BY DEF IdleCanBeWoken
  <2>1. Ready = {}
    BY DEF IndInv, RunningIsHead, Ready, ToSet
  <2>2. \A t \in AllTasks : irq[t] = "no"
    BY <2>1 DEF IndInv, HolderReady, AllTasks
  <2> QED
    BY <2>2 DEF IndInv, OneTickPending
<1> QED
  BY <1>1, SchedulerInvariant, PTL

-----------------------------------------------------------------------------
(* The ready list implements the abstract round-robin queue.               *)

\* Sending the running task to the back is a turn of the queue; the idle task
\* is not in line.
LEMMA RequeueIsTurn ==
    ASSUME IndInv, mode = "ok", readyList' = Requeue(readyList, curr)
    PROVE  [RR!RRNext]_readyList
<1>1. CASE curr = Idle
  BY <1>1 DEF Requeue, task_set_ready, task_set_block
<1>2. CASE curr # Idle
  <2>1. /\ readyList \in Seq(Tasks) /\ IsInjective(readyList)
        /\ readyList # << >> /\ Head(readyList) = curr
    BY <1>2 DEF IndInv, TypeOK, QueuesExclusive, RunningIsHead
  <2>2. klist_remove(readyList, curr) = Tail(readyList)
    BY <2>1, RemoveFirstNode
  <2>3. readyList' = Append(Tail(readyList), Head(readyList))
    BY <1>2, <2>1, <2>2 DEF Requeue, task_set_ready, task_set_block, klist_append
  <2> QED
    BY <2>1, <2>3 DEF RR!RRNext, RR!Turn
<1> QED
  BY <1>1, <1>2

\* Appending a task that is not ready is a newcomer's joining.
LEMMA ReadyIsJoin ==
    ASSUME NEW t \in Tasks, t \notin Ready, readyList' = task_set_ready(readyList, t)
    PROVE  [RR!RRNext]_readyList
<1>1. t # Idle
  BY TasksAssumption
<1>2. readyList' = Append(readyList, t)
  BY <1>1 DEF task_set_ready, klist_append
<1> QED
  BY <1>2 DEF RR!RRNext, RR!Join, RR!ToSet, Ready, ToSet

\* Every step of the scheduler is a step of the queue or leaves it alone.
LEMMA QueueStep == IndInv /\ [Next]_vars => (mode' # "torn" => [RR!RRNext]_readyList)
<1> SUFFICES ASSUME IndInv, [Next]_vars, mode' # "torn" PROVE [RR!RRNext]_readyList
  OBVIOUS
<1>1. CASE TickSlice
  <2>1. CASE slice[curr] - 1 = 0
    <3>1. mode = "ok" /\ readyList' = Requeue(readyList, curr)
      BY <1>1, <2>1 DEF TickSlice, SliceEnds
    <3> QED
      BY <3>1, RequeueIsTurn
  <2>2. CASE slice[curr] - 1 # 0
    BY <1>1, <2>2 DEF TickSlice
  <2> QED
    BY <2>1, <2>2
<1>2. CASE WalkTask
  <2>1. CASE sleepTicks[cursor] - 1 = 0
    <3>1. readyList' = task_set_ready(readyList, cursor)
      BY <1>2, <2>1 DEF WalkTask, WakeUp
    <3>2. cursor \in Sleeping
      BY <1>2 DEF WalkTask, IndInv, WalkAtomic
    <3>3. cursor \in Tasks /\ cursor \notin Ready
      BY <3>2, QueueTypes DEF IndInv, QueuesExclusive
    <3> QED
      BY <3>1, <3>3, ReadyIsJoin
  <2>2. CASE sleepTicks[cursor] - 1 # 0
    BY <1>2, <2>2 DEF WalkTask
  <2> QED
    BY <2>1, <2>2
<1>3. CASE sys_sched_yield
  <2>1. mode = "ok" /\ readyList' = Requeue(readyList, curr)
    BY <1>3 DEF sys_sched_yield, TaskRuns
  <2> QED
    BY <2>1, RequeueIsTurn
<1>4. ASSUME NEW ms \in SleepMs, SleepCurrent(ms) PROVE [RR!RRNext]_readyList
  <2>1. mode = "ok" /\ curr # Idle /\ readyList' = klist_remove(readyList, curr)
    BY <1>4 DEF SleepCurrent, TaskRuns, task_set_block
  <2>2. /\ readyList \in Seq(Tasks) /\ IsInjective(readyList)
        /\ readyList # << >> /\ Head(readyList) = curr
    BY <2>1 DEF IndInv, TypeOK, QueuesExclusive, RunningIsHead
  <2>3. readyList' = Tail(readyList)
    BY <2>1, <2>2, RemoveFirstNode
  <2> QED
    BY <2>2, <2>3 DEF RR!RRNext, RR!Leave
<1>5. CASE ReadyLink
  <2>1. ctx[curr] = "made" /\ readyList' = task_set_ready(readyList, child[curr])
    BY <1>5 DEF ReadyLink, Stands
  <2>2. child[curr] \in Tasks /\ ctx[child[curr]] = "new"
    BY <2>1 DEF IndInv, ChildKnown, TypeOK, InitPoints
  <2>3. child[curr] \notin Ready
    BY <2>2 DEF IndInv, ReadyCreated
  <2> QED
    BY <2>1, <2>2, <2>3, ReadyIsJoin
<1>6. CASE \/ WalkStart \/ WalkEnd \/ TickEoi \/ SyscallReturn
           \/ \E t \in Tasks : TaskInitFind(t)
           \/ TaskInitMake \/ ReadyFinish \/ TaskInitState
           \/ ListLink \/ ListTail \/ ListCount
  BY <1>6 DEF WalkStart, WalkEnd, TickEoi, SyscallReturn, TaskInitFind, TaskInitMake,
     ReadyFinish, TaskInitState, ListLink, ListTail, ListCount
<1>7. ASSUME NEW ms \in SleepMs, SleepAddress(ms) PROVE [RR!RRNext]_readyList
  BY <1>7 DEF SleepAddress
<1>8. CASE UNCHANGED vars
  BY <1>8 DEF vars
<1> QED
  BY <1>1, <1>2, <1>3, <1>4, <1>5, <1>6, <1>7, <1>8 DEF Next, sys_sleep

\* The ready list of core/task.c is a round-robin queue, unless an append to it
\* is torn: nobody is overtaken, queued twice or dropped from the middle.
THEOREM SchedulerIsRoundRobin == Spec => ReadyIsRoundRobin
<1>1. Init => RR!RRInit
  BY DEF Init, RR!RRInit
<1> QED
  BY <1>1, QueueStep, SchedulerInvariant, PTL DEF Spec, ReadyIsRoundRobin

-----------------------------------------------------------------------------
(* The list of all tasks, across the preemptions of task_init.              *)

\* The points at which a creator has linked its task into task_list.
Listed == {"listLinked", "listTailed"}

\* TaskListComplete made inductive: only created tasks are on the list.
ListInv ==
    /\ TaskListComplete
    /\ taskList # << >>
    /\ \A t \in Tasks : t \in ToSet(taskList) => t \in Created

\* Initially the idle and the first task are on task_list.
LEMMA ListInit == Init => ListInv
<1> SUFFICES ASSUME Init PROVE ListInv
  OBVIOUS
<1> USE TasksAssumption
<1>1. taskList = <<Idle, First>> /\ Idle # First
  BY DEF Init
<1>2. IsInjective(taskList) /\ ToSet(taskList) = {Idle, First} /\ taskList # << >>
  BY <1>1 DEF IsInjective, ToSet
<1>3. Created = {First} /\ \A u \in Tasks : child[u] = NoTask
  BY DEF Init, Created, AllTasks
<1> QED
  BY <1>2, <1>3 DEF ListInv, TaskListComplete

\* Steps that leave the list alone, create no task and let no creator get as
\* far as the list.
LEMMA ListKept ==
    ASSUME ListInv, taskList' = taskList, mode = "ok", Created' = Created,
           \A t \in Created, u \in Tasks :
               child'[u] = t /\ ctx'[u] \notin Listed <=> child[u] = t /\ ctx[u] \notin Listed
    PROVE  ListInv'
<1>1. \A t \in Created :
        (\A u \in Tasks : child'[u] = t => ctx'[u] \in Listed) <=>
        (\A u \in Tasks : child[u] = t => ctx[u] \in Listed)
  OBVIOUS
<1>2. TaskListComplete'
  BY <1>1 DEF ListInv, TaskListComplete, Listed
<1> QED
  BY <1>2 DEF ListInv

\* The same of a step that moves only the running task's own code, between two
\* points that are not behind the list.
LEMMA ListKeptByMove ==
    ASSUME IndInv, ListInv, taskList' = taskList, mode = "ok", child' = child,
           NEW p \in Contexts, ctx' = [ctx EXCEPT ![curr] = p],
           ctx[curr] \in Listed <=> p \in Listed,
           ctx[curr] \notin {"none", "new"}, p \notin {"none", "new"}
    PROVE  ListInv'
<1>1. ctx'[curr] = p /\ \A t \in AllTasks : t # curr => ctx'[t] = ctx[t]
  BY DEF IndInv, TypeOK
<1>2. Created' = Created
  BY <1>1 DEF Created, AllTasks
<1>3. \A u \in Tasks : ctx'[u] \in Listed <=> ctx[u] \in Listed
  BY <1>1 DEF AllTasks
<1> QED
  BY <1>2, <1>3, ListKept

\* The same of a step that moves nobody's own code.
LEMMA ListKeptByTick ==
    ASSUME IndInv, ListInv, mode = "ok", UNCHANGED <<taskList, child, ctx>>
    PROVE  ListInv'
BY ListKept DEF Created

\* The new task becomes visible, and is not on task_list.
LEMMA ListReadyLink == IndInv /\ ListInv /\ ReadyLink => ListInv'
<1> SUFFICES ASSUME IndInv, ListInv, ReadyLink PROVE ListInv'
  OBVIOUS
<1> USE TasksAssumption
<1> DEFINE c == child[curr]
<1>1. /\ mode = "ok" /\ ctx[curr] = "made" /\ mode' = mode
      /\ ctx' = [ctx EXCEPT ![curr] = "linked", ![c] = "run"]
      /\ UNCHANGED <<taskList, child>>
  BY DEF ReadyLink, Stands
<1>2. TypeOK /\ ChildKnown /\ curr \in AllTasks
  BY DEF IndInv, TypeOK
<1>3. curr \in Tasks /\ c \in Tasks /\ c \in AllTasks /\ ctx[c] = "new" /\ c # curr
  <2>1. child[curr] # NoTask /\ curr # Idle
    BY <1>1, <1>2, IdleOutside DEF ChildKnown, InitPoints
  <2>2. ctx[c] = "new" /\ c \in Tasks
    BY <1>1, <1>2, <2>1 DEF ChildKnown, TypeOK
  <2> QED
    BY <1>1, <1>2, <2>1, <2>2 DEF AllTasks
<1>4. c \notin Created /\ c \notin ToSet(taskList)
  BY <1>3 DEF Created, ListInv
<1> HIDE DEF c
<1>5. /\ ctx'[curr] = "linked" /\ ctx'[c] = "run"
      /\ \A t \in AllTasks : t \notin {c, curr} => ctx'[t] = ctx[t]
  BY <1>1, <1>2, <1>3 DEF TypeOK
<1>6. Created' = Created \cup {c}
  BY <1>1, <1>3, <1>5 DEF Created, AllTasks
<1>7. \A t \in Created, u \in Tasks :
        child'[u] = t /\ ctx'[u] \notin Listed <=> child[u] = t /\ ctx[u] \notin Listed
  BY <1>1, <1>3, <1>5 DEF Listed, AllTasks
<1>8. TaskListComplete'
  <2>1. ASSUME NEW t \in Created
        PROVE  t \in ToSet(taskList) <=> \A u \in Tasks : child'[u] = t => ctx'[u] \in Listed
    BY <1>1, <1>7 DEF ListInv, TaskListComplete, Listed
  <2>2. ~ \A u \in Tasks : child'[u] = c => ctx'[u] \in Listed
    BY <1>1, <1>3, <1>5 DEF c, Listed
  <2> QED
    BY <1>1, <1>4, <1>6, <2>1, <2>2, ZenonT(30) DEF ListInv, TaskListComplete, Listed
<1> QED
  BY <1>1, <1>6, <1>8 DEF ListInv

\* The append to task_list.
LEMMA ListListLink == IndInv /\ ListInv /\ ListLink => ListInv'
<1> SUFFICES ASSUME IndInv, ListInv, ListLink PROVE ListInv'
  OBVIOUS
<1> USE TasksAssumption
<1> DEFINE c == child[curr]
<1>1. /\ mode = "ok" /\ ctx[curr] = "ready" /\ ctx' = [ctx EXCEPT ![curr] = "listLinked"]
      /\ taskList' = IF ListCut THEN OverwriteLast(taskList, c) ELSE klist_append(taskList, c)
      /\ mode' = IF ListCut THEN "torn" ELSE mode
      /\ child' = child
  BY DEF ListLink, Advances, Stands
<1>2. TypeOK /\ ChildKnown /\ curr \in AllTasks /\ taskList \in Seq(AllTasks)
      /\ IsInjective(taskList) /\ taskList # << >>
  BY DEF IndInv, TypeOK, ListInv, TaskListComplete
<1>3. curr \in Tasks /\ c \in Tasks /\ c \in AllTasks /\ c \in Created
  <2>1. child[curr] # NoTask /\ curr # Idle
    BY <1>1, <1>2, IdleOutside DEF ChildKnown, InitPoints
  <2>2. ctx[c] \notin {"none", "new"} /\ c \in Tasks
    BY <1>1, <1>2, <2>1, ZenonT(30) DEF ChildKnown, TypeOK
  <2> QED
    BY <1>2, <2>1, <2>2 DEF AllTasks, Created
<1>4. c \notin ToSet(taskList)
  BY <1>1, <1>3 DEF ListInv, TaskListComplete
<1>5. \A u \in AllTasks : child[u] = c => u = curr
  BY <1>2, <1>3 DEF ChildKnown
<1> HIDE DEF c
<1>6. /\ ctx'[curr] = "listLinked"
      /\ \A t \in AllTasks : t # curr => ctx'[t] = ctx[t]
  BY <1>1, <1>2 DEF TypeOK
<1>7. Created' = Created
  BY <1>1, <1>6 DEF Created, AllTasks
<1>8. CASE ListCut
  <2>1. /\ IsInjective(taskList') /\ taskList' # << >>
        /\ ToSet(taskList') \subseteq ToSet(taskList) \cup {c}
    BY <1>1, <1>2, <1>3, <1>4, <1>8, OverwriteFacts
  <2> QED
    BY <1>1, <1>3, <1>7, <1>8, <2>1 DEF ListInv, TaskListComplete
<1>9. CASE ~ListCut
  <2>1. /\ IsInjective(taskList') /\ taskList' # << >>
        /\ ToSet(taskList') = ToSet(taskList) \cup {c}
    BY <1>1, <1>2, <1>3, <1>4, <1>9, AppendLinks
  <2>2. ASSUME NEW t \in Created
        PROVE  t \in ToSet(taskList') <=>
                    \A u \in Tasks : child'[u] = t => ctx'[u] \in {"listLinked", "listTailed"}
    <3>1. CASE t = c
      BY <1>1, <1>5, <1>6, <2>1, <3>1 DEF AllTasks
    <3>2. CASE t # c
      <4>1. \A u \in Tasks : child[u] = t => ctx'[u] = ctx[u]
        BY <1>6, <3>2 DEF c, AllTasks
      <4> QED
        BY <1>1, <2>1, <3>2, <4>1 DEF ListInv, TaskListComplete
    <3> QED
      BY <3>1, <3>2
  <2> QED
    BY <1>3, <1>7, <2>1, <2>2 DEF ListInv, TaskListComplete
<1> QED
  BY <1>8, <1>9

\* A creation begins, or ends.
LEMMA ListCreation ==
    ASSUME IndInv, ListInv, ListCount \/ \E t \in Tasks : TaskInitFind(t)
    PROVE  ListInv'
<1> USE TasksAssumption
<1>1. TypeOK /\ ChildKnown /\ curr \in AllTasks
  BY DEF IndInv, TypeOK
<1>2. CASE ListCount
  <2>1. /\ mode = "ok" /\ ctx[curr] = "listTailed" /\ ctx' = [ctx EXCEPT ![curr] = "run"]
        /\ child' = [child EXCEPT ![curr] = NoTask] /\ taskList' = taskList
    BY <1>2 DEF ListCount, Advances, Stands
  <2>2. /\ ctx'[curr] = "run" /\ \A t \in AllTasks : t # curr => ctx'[t] = ctx[t]
        /\ child'[curr] = NoTask /\ \A t \in AllTasks : t # curr => child'[t] = child[t]
    BY <1>1, <2>1 DEF TypeOK
  <2>3. Created' = Created
    BY <2>1, <2>2 DEF Created, AllTasks
  <2>4. \A t \in Created, u \in Tasks :
            child'[u] = t /\ ctx'[u] \notin Listed <=> child[u] = t /\ ctx[u] \notin Listed
    BY <2>1, <2>2 DEF Listed, Created, AllTasks
  <2> QED
    BY <2>1, <2>3, <2>4, ListKept
<1>3. ASSUME NEW t \in Tasks, TaskInitFind(t) PROVE ListInv'
  <2>1. /\ mode = "ok" /\ ctx[curr] = "run" /\ ctx[t] = "none"
        /\ ctx' = [ctx EXCEPT ![curr] = "found", ![t] = "new"]
        /\ child' = [child EXCEPT ![curr] = t] /\ taskList' = taskList
    BY <1>3 DEF TaskInitFind, TaskRuns
  <2>2. /\ ctx'[curr] = "found" /\ ctx'[t] = "new" /\ t # curr /\ t \in AllTasks
        /\ \A u \in AllTasks : u \notin {curr, t} => ctx'[u] = ctx[u]
        /\ child'[curr] = t /\ \A u \in AllTasks : u # curr => child'[u] = child[u]
    BY <1>1, <2>1 DEF TypeOK, AllTasks
  <2>3. Created' = Created /\ t \notin Created
    BY <2>1, <2>2 DEF Created, AllTasks
  <2>4. child[curr] = NoTask /\ child[t] = NoTask
    BY <1>1, <2>1, <2>2 DEF ChildKnown, InitPoints
  <2>5. \A c \in Created, u \in Tasks :
            child'[u] = c /\ ctx'[u] \notin Listed <=> child[u] = c /\ ctx[u] \notin Listed
    <3> SUFFICES ASSUME NEW c \in Created, NEW u \in Tasks
                 PROVE  child'[u] = c /\ ctx'[u] \notin Listed
                            <=> child[u] = c /\ ctx[u] \notin Listed
      OBVIOUS
    <3>1. c # NoTask /\ c # t /\ u \in AllTasks
      BY <2>3 DEF Created, AllTasks
    <3>2. CASE u = curr
      BY <2>2, <2>4, <3>1, <3>2
    <3>3. CASE u = t
      BY <2>2, <2>4, <3>1, <3>3
    <3>4. CASE u \notin {curr, t}
      BY <2>2, <3>1, <3>4
    <3> QED
      BY <3>2, <3>3, <3>4
  <2> QED
    BY <2>1, <2>3, <2>5, ListKept
<1> QED
  BY <1>2, <1>3

\* Every step keeps the list complete.
LEMMA ListNext == IndInv /\ ListInv /\ [Next]_vars => ListInv'
<1> SUFFICES ASSUME IndInv, ListInv, [Next]_vars PROVE ListInv'
  OBVIOUS
<1>1. CASE TickSlice \/ WalkStart \/ WalkTask \/ WalkEnd \/ TickEoi
  <2>1. mode = "ok" /\ UNCHANGED <<taskList, child, ctx>>
    BY <1>1 DEF TickSlice, WalkStart, WalkTask, WalkEnd, TickEoi
  <2> QED
    BY <2>1, ListKeptByTick
<1>2. CASE sys_sched_yield
  <2>1. mode = "ok" /\ ctx[curr] = "run" /\ ctx' = [ctx EXCEPT ![curr] = "yield"]
        /\ UNCHANGED <<taskList, child>>
    BY <1>2 DEF sys_sched_yield, TaskRuns
  <2>2. "yield" \in Contexts /\ "yield" \notin Listed /\ ctx[curr] \notin Listed
        /\ ctx[curr] \notin {"none", "new"} /\ "yield" \notin {"none", "new"}
    BY <2>1 DEF Contexts, Listed
  <2> QED
    BY <2>1, <2>2, ListKeptByMove
<1>3. ASSUME NEW ms \in SleepMs, sys_sleep(ms) PROVE ListInv'
  <2>1. /\ mode = "ok" /\ ctx[curr] = "run" /\ UNCHANGED <<taskList, child>>
        /\ \/ ctx' = ctx \/ ctx' = [ctx EXCEPT ![curr] = "sleep"]
           \/ ctx' = [ctx EXCEPT ![curr] = "sleep0"]
    BY <1>3 DEF sys_sleep, SleepCurrent, SleepAddress, TaskRuns
  <2> QED
    BY <2>1, ListKeptByMove, ListKeptByTick DEF Contexts, Listed
<1>4. CASE SyscallReturn
  <2>1. /\ mode = "ok" /\ ctx[curr] \in {"yield", "sleep", "sleep0"}
        /\ ctx' = [ctx EXCEPT ![curr] = "run"] /\ UNCHANGED <<taskList, child>>
    BY <1>4 DEF SyscallReturn
  <2>2. "run" \in Contexts /\ "run" \notin Listed /\ ctx[curr] \notin Listed
        /\ ctx[curr] \notin {"none", "new"} /\ "run" \notin {"none", "new"}
    BY <2>1 DEF Contexts, Listed
  <2> QED
    BY <2>1, <2>2, ListKeptByMove
<1>5. CASE TaskInitMake
  <2>1. mode = "ok" /\ ctx[curr] = "found" /\ ctx' = [ctx EXCEPT ![curr] = "made"]
        /\ UNCHANGED <<taskList, child>>
    BY <1>5 DEF TaskInitMake, Advances, Stands
  <2> QED
    BY <2>1, ListKeptByMove DEF Contexts, InitPoints, Listed
<1>6. CASE ReadyFinish
  <2>1. /\ mode = "ok" /\ UNCHANGED <<taskList, child>>
        /\ \/ ctx[curr] = "linked" /\ ctx' = [ctx EXCEPT ![curr] = "tailed"]
           \/ ctx[curr] = "tailed" /\ ctx' = [ctx EXCEPT ![curr] = "counted"]
    BY <1>6 DEF ReadyFinish, Advances, Stands
  <2> QED
    BY <2>1, ListKeptByMove DEF Contexts, InitPoints, Listed
<1>7. CASE TaskInitState
  <2>1. mode = "ok" /\ ctx[curr] = "counted" /\ ctx' = [ctx EXCEPT ![curr] = "ready"]
        /\ UNCHANGED <<taskList, child>>
    BY <1>7 DEF TaskInitState, Advances, Stands
  <2> QED
    BY <2>1, ListKeptByMove DEF Contexts, InitPoints, Listed
<1>8. CASE ListTail
  <2>1. /\ mode = "ok" /\ ctx[curr] = "listLinked"
        /\ ctx' = [ctx EXCEPT ![curr] = "listTailed"] /\ UNCHANGED <<taskList, child>>
    BY <1>8 DEF ListTail, Advances, Stands
  <2> QED
    BY <2>1, ListKeptByMove DEF Contexts, InitPoints, Listed
<1>9. CASE UNCHANGED vars
  BY <1>9 DEF vars, ListInv, TaskListComplete, Created
<1> QED
  BY <1>1, <1>2, <1>3, <1>4, <1>5, <1>6, <1>7, <1>8, <1>9, ListReadyLink, ListListLink,
     ListCreation
  DEF Next

\* Every created task is on task_list once, as soon as its creator has come
\* that far, until two creators meet in the append to it.
THEOREM TasksAreListed == Spec => []TaskListComplete
<1>1. ListInv => TaskListComplete
  BY DEF ListInv
<1> QED
  BY <1>1, ListInit, ListNext, SchedulerInvariant, PTL DEF Spec

-----------------------------------------------------------------------------
(* Why a far jump misses its task.                                         *)

Full == \A d \in Descriptors : gdt[d] # NoTask

\* The tasks tss_init has been through.
Made(t) == t = Idle \/ t \in Created \/ \E u \in Tasks : child[u] = t /\ ctx[u] = "made"

\* A descriptor and the task whose TSS it describes know each other; a selector
\* names a descriptor in use, which may have been given to another task since;
\* and a task without one was made when none was left.
TableInv ==
    /\ \A d \in Descriptors : gdt[d] # NoTask => sel[gdt[d]] = d
    /\ \A t \in AllTasks : sel[t] # 0 => gdt[sel[t]] # NoTask
    /\ \A t \in AllTasks : sel[t] # 0 => Made(t)
    /\ \A t \in AllTasks : Made(t) /\ sel[t] = 0 => Full
    /\ \A t \in Tasks : ctx[t] = "found" /\ found[t] = 0 => Full

\* The idle and the first task have the first two descriptors.
LEMMA TableInit == Init => TableInv
<1> SUFFICES ASSUME Init PROVE TableInv
  OBVIOUS
<1> USE TasksAssumption, NumbersAssumption
<1>1. 1 \in Descriptors /\ 2 \in Descriptors /\ Idle # First /\ First \in AllTasks
      /\ Idle \in AllTasks /\ NoTask \notin AllTasks /\ 0 \notin Descriptors
  BY DEF Descriptors, AllTasks
<1>2. /\ sel[Idle] = 1 /\ sel[First] = 2 /\ gdt[1] = Idle /\ gdt[2] = First
      /\ \A t \in AllTasks : t \notin {Idle, First} => sel[t] = 0
      /\ \A d \in Descriptors : d \notin {1, 2} => gdt[d] = NoTask
  BY <1>1 DEF Init
<1>3. /\ \A t \in AllTasks : Made(t) <=> t \in {Idle, First}
      /\ \A t \in Tasks : ctx[t] # "found"
  BY <1>1 DEF Init, Made, Created, AllTasks
<1>4. \A t \in AllTasks : sel[t] # 0 => t \in {Idle, First}
  BY <1>2
<1>5. \A d \in Descriptors : gdt[d] # NoTask => sel[gdt[d]] = d
  BY <1>2
<1>6. \A t \in AllTasks : sel[t] # 0 => gdt[sel[t]] # NoTask
  BY <1>1, <1>2, <1>4
<1> QED
  BY <1>1, <1>2, <1>3, <1>4, <1>5, <1>6 DEF TableInv

\* Steps that touch neither the table nor what a creator has found.
LEMMA TableKept ==
    ASSUME TableInv, UNCHANGED <<sel, gdt>>,
           \A t \in AllTasks : Made(t)' <=> Made(t),
           \A t \in Tasks : ctx'[t] = "found" => ctx[t] = "found" /\ found'[t] = found[t]
    PROVE  TableInv'
<1>1. Full' <=> Full
  BY DEF Full
<1> QED
  BY <1>1 DEF TableInv

\* Steps that move only the running task's own code, between two points that
\* are not behind the search or the TSS.
LEMMA TableKeptByMove ==
    ASSUME IndInv, TableInv, UNCHANGED <<sel, gdt, found, child>>,
           NEW p \in Contexts \ {"found", "made", "none", "new"},
           ctx' = [ctx EXCEPT ![curr] = p],
           ctx[curr] \notin {"found", "made", "none", "new"}
    PROVE  TableInv'
<1>1. ctx'[curr] = p /\ \A t \in AllTasks : t # curr => ctx'[t] = ctx[t]
  BY DEF IndInv, TypeOK
<1>2. Created' = Created
  BY <1>1 DEF Created, AllTasks
<1>3. \A u \in Tasks : (ctx'[u] = "made" <=> ctx[u] = "made")
                       /\ (ctx'[u] = "found" <=> ctx[u] = "found")
  BY <1>1 DEF AllTasks
<1>4. \A t \in AllTasks : Made(t)' <=> Made(t)
  BY <1>2, <1>3 DEF Made
<1> QED
  BY <1>3, <1>4, TableKept

\* The search: the creator learns that the table is full, or of a descriptor
\* without attributes.
LEMMA TableFind ==
    ASSUME NEW t \in Tasks PROVE IndInv /\ TableInv /\ TaskInitFind(t) => TableInv'
<1> SUFFICES ASSUME IndInv, TableInv, TaskInitFind(t) PROVE TableInv'
  OBVIOUS
<1> USE TasksAssumption
<1>1. /\ mode = "ok" /\ curr # Idle /\ ctx[curr] = "run" /\ ctx[t] = "none"
      /\ found' = [found EXCEPT ![curr] = FirstFree]
      /\ child' = [child EXCEPT ![curr] = t]
      /\ ctx' = [ctx EXCEPT ![curr] = "found", ![t] = "new"]
      /\ UNCHANGED <<sel, gdt>>
  BY DEF TaskInitFind, TaskRuns
<1>2. TypeOK /\ ChildKnown /\ curr \in AllTasks /\ t \in AllTasks /\ t # curr
  BY <1>1 DEF IndInv, TypeOK, AllTasks
<1>3. /\ ctx'[curr] = "found" /\ ctx'[t] = "new"
      /\ \A u \in AllTasks : u \notin {curr, t} => ctx'[u] = ctx[u]
      /\ child'[curr] = t /\ \A u \in AllTasks : u # curr => child'[u] = child[u]
      /\ found'[curr] = FirstFree /\ \A u \in AllTasks : u # curr => found'[u] = found[u]
  BY <1>1, <1>2 DEF TypeOK
<1>4. Created' = Created
  BY <1>1, <1>3 DEF Created, AllTasks
<1>5. \A u \in Tasks : ctx'[u] = "made" <=> ctx[u] = "made"
  BY <1>1, <1>2, <1>3 DEF AllTasks
<1>6. \A x \in AllTasks : Made(x)' <=> Made(x)
  <2>1. \A u \in Tasks : ctx[u] = "made" => child'[u] = child[u]
    BY <1>1, <1>3 DEF AllTasks
  <2> QED
    BY <1>4, <1>5, <2>1 DEF Made
<1>7. Full' <=> Full
  BY <1>1 DEF Full
<1>8. ASSUME NEW u \in Tasks, ctx'[u] = "found", found'[u] = 0 PROVE Full
  <2>1. CASE u = curr
    BY <1>3, <1>8, <2>1, FirstFreeFacts DEF Full
  <2>2. CASE u # curr
    BY <1>1, <1>2, <1>3, <1>8, <2>2 DEF TableInv, AllTasks
  <2> QED
    BY <2>1, <2>2
<1> QED
  BY <1>1, <1>6, <1>7, <1>8 DEF TableInv

\* The descriptor is filled, for a task that had none.
LEMMA TableMake == IndInv /\ TableInv /\ TaskInitMake => TableInv'
<1> SUFFICES ASSUME IndInv, TableInv, TaskInitMake PROVE TableInv'
  OBVIOUS
<1> USE TasksAssumption, NumbersAssumption
<1> DEFINE c == child[curr]
           f == found[curr]
<1>1. /\ mode = "ok" /\ ctx[curr] = "found" /\ ctx' = [ctx EXCEPT ![curr] = "made"]
      /\ gdt' = [d \in Descriptors |-> IF d = f THEN c ELSE gdt[d]]
      /\ sel' = [sel EXCEPT ![c] = f]
      /\ UNCHANGED <<found, child>>
  BY DEF TaskInitMake, Advances, Stands
<1>2. TypeOK /\ ChildKnown /\ curr \in AllTasks
  BY DEF IndInv, TypeOK
<1>3. curr \in Tasks /\ c \in Tasks /\ c \in AllTasks /\ ctx[c] = "new" /\ c # curr
  <2>1. child[curr] # NoTask /\ curr # Idle
    BY <1>1, <1>2, IdleOutside DEF ChildKnown, InitPoints
  <2>2. ctx[c] = "new" /\ c \in Tasks
    BY <1>1, <1>2, <2>1 DEF ChildKnown, TypeOK
  <2> QED
    BY <1>1, <1>2, <2>1, <2>2 DEF AllTasks
<1>4. \A u \in AllTasks : child[u] = c => u = curr
  BY <1>2, <1>3 DEF ChildKnown
<1>5. ~Made(c)
  BY <1>1, <1>3, <1>4 DEF Made, Created, AllTasks
<1>6. sel[c] = 0 /\ f \in 0..GdtSlots /\ (f # 0 => f \in Descriptors)
      /\ (f = 0 => Full)
  BY <1>1, <1>2, <1>3, <1>5 DEF TableInv, TypeOK, Descriptors
<1> HIDE DEF c, f
<1>7. /\ sel'[c] = f /\ \A t \in AllTasks : t # c => sel'[t] = sel[t]
      /\ \A d \in Descriptors : gdt'[d] = IF d = f THEN c ELSE gdt[d]
  BY <1>1, <1>2, <1>3 DEF TypeOK
<1>8. /\ ctx'[curr] = "made" /\ \A t \in AllTasks : t # curr => ctx'[t] = ctx[t]
  BY <1>1, <1>2 DEF TypeOK
<1>9. c # NoTask /\ NoTask \notin AllTasks
  BY <1>3 DEF AllTasks
<1>10. Full => Full'
  BY <1>7, <1>9 DEF Full
<1>11. \A d \in Descriptors : gdt'[d] # NoTask => sel'[gdt'[d]] = d
  <2>1. \A d \in Descriptors : gdt[d] # NoTask => gdt[d] \in AllTasks /\ gdt[d] # c
    <3>1. 0 \notin Descriptors
      BY DEF Descriptors
    <3> QED
      BY <1>2, <1>6, <3>1 DEF TableInv, TypeOK
  <2> QED
    BY <1>7, <2>1 DEF TableInv
<1>12. \A t \in AllTasks : sel'[t] # 0 => gdt'[sel'[t]] # NoTask
  <2>1. ASSUME NEW t \in AllTasks, t # c, sel[t] # 0
        PROVE  gdt'[sel[t]] # NoTask
    <3>1. sel[t] \in Descriptors /\ gdt[sel[t]] # NoTask
      BY <1>2, <2>1 DEF TypeOK, TableInv, Descriptors
    <3> QED
      BY <1>7, <1>9, <3>1
  <2> QED
    BY <1>6, <1>7, <1>9, <2>1
<1>13. \A t \in AllTasks : Made(t)' <=> Made(t) \/ t = c
  <2>1. Created' = Created
    BY <1>1, <1>8 DEF Created, AllTasks
  <2>2. \A u \in Tasks : u # curr => (ctx'[u] = "made" <=> ctx[u] = "made")
    BY <1>8 DEF AllTasks
  <2>3. child'[curr] = c /\ ctx'[curr] = "made" /\ ctx[curr] # "made"
    BY <1>1, <1>8 DEF c
  <2> QED
    BY <1>1, <1>3, <2>1, <2>2, <2>3 DEF Made
<1>14. \A t \in AllTasks : Made(t)' /\ sel'[t] = 0 => Full'
  BY <1>6, <1>7, <1>10, <1>13 DEF TableInv
<1>15. \A t \in AllTasks : sel'[t] # 0 => Made(t)'
  BY <1>7, <1>13 DEF TableInv
<1>16. \A t \in Tasks : ctx'[t] = "found" /\ found'[t] = 0 => Full'
  BY <1>1, <1>8, <1>10 DEF TableInv, AllTasks
<1> QED
  BY <1>11, <1>12, <1>14, <1>15, <1>16 DEF TableInv

\* The new task becomes visible.
LEMMA TableReadyLink == IndInv /\ TableInv /\ ReadyLink => TableInv'
<1> SUFFICES ASSUME IndInv, TableInv, ReadyLink PROVE TableInv'
  OBVIOUS
<1> USE TasksAssumption
<1> DEFINE c == child[curr]
<1>1. /\ mode = "ok" /\ ctx[curr] = "made"
      /\ ctx' = [ctx EXCEPT ![curr] = "linked", ![c] = "run"]
      /\ UNCHANGED <<sel, gdt, found, child>>
  BY DEF ReadyLink, Stands, descVars
<1>2. TypeOK /\ ChildKnown /\ curr \in AllTasks
  BY DEF IndInv, TypeOK
<1>3. curr \in Tasks /\ c \in Tasks /\ c \in AllTasks /\ ctx[c] = "new" /\ c # curr
  <2>1. child[curr] # NoTask /\ curr # Idle
    BY <1>1, <1>2, IdleOutside DEF ChildKnown, InitPoints
  <2>2. ctx[c] = "new" /\ c \in Tasks
    BY <1>1, <1>2, <2>1 DEF ChildKnown, TypeOK
  <2> QED
    BY <1>1, <1>2, <2>1, <2>2 DEF AllTasks
<1>4. Made(c)
  BY <1>1, <1>3 DEF Made
<1> HIDE DEF c
<1>5. /\ ctx'[curr] = "linked" /\ ctx'[c] = "run"
      /\ \A t \in AllTasks : t \notin {c, curr} => ctx'[t] = ctx[t]
  BY <1>1, <1>2, <1>3 DEF TypeOK
<1>6. Created' = Created \cup {c}
  BY <1>1, <1>3, <1>5 DEF Created, AllTasks
<1>7. \A t \in AllTasks : Made(t)' <=> Made(t)
  <2>1. \A u \in Tasks : ctx'[u] = "made" <=> ctx[u] = "made" /\ u # curr
    BY <1>3, <1>5 DEF AllTasks
  <2>2. \A t \in AllTasks : child[curr] = t => t = c
    BY DEF c
  <2> QED
    BY <1>1, <1>4, <1>6, <2>1, <2>2 DEF Made
<1>8. \A t \in Tasks : ctx'[t] = "found" => ctx[t] = "found"
  BY <1>5 DEF AllTasks
<1> QED
  BY <1>1, <1>7, <1>8, TableKept

\* A far jump from inside task_dispatch misses its task only if the table is
\* full, or the task's descriptor was given to another one.
LEMMA DispatchMisses ==
    ASSUME IndInv, TableInv, NEW to \in AllTasks, to = Idle \/ to \in Created, ~Reaches(to)
    PROVE  Full \/ \E t, u \in AllTasks : t # u /\ sel[t] = sel[u] /\ sel[t] # 0
<1>1. sel[to] \in 0..GdtSlots /\ (sel[to] # 0 => sel[to] \in Descriptors)
  BY DEF IndInv, TypeOK, Descriptors
<1>2. CASE sel[to] = 0
  BY <1>2 DEF TableInv, Made
<1>3. CASE sel[to] # 0
  <2>1. gdt[sel[to]] # NoTask /\ gdt[sel[to]] # to /\ gdt[sel[to]] \in AllTasks
    BY <1>1, <1>3 DEF TableInv, Reaches, IndInv, TypeOK
  <2>2. sel[gdt[sel[to]]] = sel[to]
    BY <1>1, <1>3, <2>1 DEF TableInv
  <2> QED
    BY <1>3, <2>1, <2>2
<1> QED
  BY <1>2, <1>3

\* So much for a dispatch whose ready list holds created tasks.
LEMMA DispatchExplained ==
    ASSUME IndInv, TableInv, mode = "ok", UNCHANGED <<sel, gdt>>,
           NEW rl \in Seq(Tasks), ToSet(rl) \subseteq Ready, NEW st, task_dispatch(rl, st)
    PROVE  FaultExplained'
<1>1. task_next_run(rl) \in AllTasks
      /\ (task_next_run(rl) = Idle \/ task_next_run(rl) \in Created)
  <2>1. CASE rl = << >>
    BY <2>1 DEF task_next_run, klist_len, AllTasks
  <2>2. CASE rl # << >>
    <3>1. task_next_run(rl) = rl[1] /\ rl[1] \in ToSet(rl) /\ rl[1] \in Tasks
      BY <2>2 DEF task_next_run, klist_len, ToSet
    <3> QED
      BY <3>1 DEF IndInv, ReadyCreated, Created, AllTasks
  <2> QED
    BY <2>1, <2>2
<1>2. mode' = "fault" => ~Reaches(task_next_run(rl))
  BY DEF task_dispatch
<1>3. mode' = "fault" => Full \/ \E t, u \in AllTasks : t # u /\ sel[t] = sel[u] /\ sel[t] # 0
  BY <1>1, <1>2, DispatchMisses
<1> QED
  BY <1>3 DEF FaultExplained, Full

\* Steps of the timer handler and calls that may switch.
LEMMA FaultStep == IndInv /\ TableInv /\ FaultExplained /\ [Next]_vars => FaultExplained'
<1> SUFFICES ASSUME IndInv, TableInv, FaultExplained, [Next]_vars PROVE FaultExplained'
  OBVIOUS
<1>1. TypeOK /\ RunningIsHead /\ QueuesExclusive /\ readyList \in Seq(Tasks)
  BY DEF IndInv, TypeOK
<1>2. CASE TickSlice
  <2>1. mode = "ok" /\ UNCHANGED <<sel, gdt>>
    BY <1>2 DEF TickSlice, descVars
  <2>2. CASE slice[curr] - 1 = 0 /\ ~CutAppend
    <3>1. task_dispatch(Requeue(readyList, curr), ReadyState(state, curr))
      BY <1>2, <2>2 DEF TickSlice, SliceEnds
    <3>2. Requeue(readyList, curr) \in Seq(Tasks)
          /\ ToSet(Requeue(readyList, curr)) = Ready
      BY <1>1, <2>1, RequeueFacts
    <3> QED
      BY <2>1, <3>1, <3>2, DispatchExplained
  <2>3. CASE ~(slice[curr] - 1 = 0 /\ ~CutAppend)
    <3>1. mode' # "fault"
      BY <1>2, <2>1, <2>3 DEF TickSlice, SliceEnds
    <3> QED
      BY <3>1 DEF FaultExplained
  <2> QED
    BY <2>2, <2>3
<1>3. CASE WalkEnd
  <2>1. mode = "ok" /\ UNCHANGED <<sel, gdt>>
    BY <1>3 DEF WalkEnd, descVars
  <2>2. CASE WalkVisitsTail /\ taskLen - 1 = 0
    BY <1>3, <2>2 DEF WalkEnd, FaultExplained
  <2>3. CASE ~(WalkVisitsTail /\ taskLen - 1 = 0)
    <3>1. task_dispatch(readyList, state) /\ ToSet(readyList) = Ready
      BY <1>3, <2>3 DEF WalkEnd, Ready
    <3> QED
      BY <1>1, <2>1, <3>1, DispatchExplained
  <2> QED
    BY <2>2, <2>3
<1>4. CASE sys_sched_yield
  <2>1. /\ mode = "ok" /\ UNCHANGED <<sel, gdt>>
        /\ task_dispatch(Requeue(readyList, curr), ReadyState(state, curr))
    BY <1>4 DEF sys_sched_yield, TaskRuns, descVars
  <2>2. Requeue(readyList, curr) \in Seq(Tasks)
        /\ ToSet(Requeue(readyList, curr)) = Ready
    BY <1>1, <2>1, RequeueFacts
  <2> QED
    BY <2>1, <2>2, DispatchExplained
<1>5. ASSUME NEW ms \in SleepMs, sys_sleep(ms) PROVE FaultExplained'
  <2>1. CASE SleepByAddress
    BY <1>5, <2>1 DEF sys_sleep, SleepAddress, TaskRuns, FaultExplained
  <2>2. CASE ~SleepByAddress
    <3> DEFINE rl == task_set_block(readyList, curr)
    <3>1. /\ mode = "ok" /\ curr # Idle /\ UNCHANGED <<sel, gdt>>
          /\ task_dispatch(rl, state)
             \/ task_dispatch(rl, [state EXCEPT ![curr] = "SLEEP"])
      BY <1>5, <2>2 DEF sys_sleep, SleepCurrent, TaskRuns, descVars
    <3>2. rl \in Seq(Tasks) /\ ToSet(rl) \subseteq Ready
      BY <1>1, <3>1, BlockFacts
    <3> HIDE DEF rl
    <3> QED
      BY <3>1, <3>2, DispatchExplained
  <2> QED
    BY <2>1, <2>2
<1>6. CASE \/ WalkStart \/ WalkTask \/ TickEoi \/ SyscallReturn
           \/ \E t \in Tasks : TaskInitFind(t)
           \/ TaskInitMake \/ ReadyLink \/ ReadyFinish \/ TaskInitState
           \/ ListLink \/ ListTail \/ ListCount
  <2>1. mode' # "fault"
    BY <1>6 DEF WalkStart, WalkTask, WakeUp, TickEoi, SyscallReturn, TaskInitFind, TaskRuns,
       TaskInitMake, ReadyLink, ReadyFinish, TaskInitState, ListLink, ListTail, ListCount,
       Advances, Stands
  <2> QED
    BY <2>1 DEF FaultExplained
<1>7. CASE UNCHANGED vars
  BY <1>7 DEF vars, descVars, FaultExplained
<1> QED
  BY <1>2, <1>3, <1>4, <1>5, <1>6, <1>7 DEF Next

\* Every step keeps the table's invariant.
LEMMA TableNext == IndInv /\ TableInv /\ [Next]_vars => TableInv'
<1> SUFFICES ASSUME IndInv, TableInv, [Next]_vars PROVE TableInv'
  OBVIOUS
<1>1. ASSUME UNCHANGED <<sel, gdt, found, child, ctx>> PROVE TableInv'
  <2>1. \A t \in AllTasks : Made(t)' <=> Made(t)
    BY <1>1 DEF Made, Created
  <2> QED
    BY <1>1, <2>1, TableKept
<1>2. CASE TickSlice \/ WalkStart \/ WalkTask \/ WalkEnd \/ TickEoi \/ UNCHANGED vars
  <2>1. UNCHANGED <<sel, gdt, found, child, ctx>>
    BY <1>2 DEF TickSlice, WalkStart, WalkTask, WalkEnd, TickEoi, vars, descVars
  <2> QED
    BY <1>1, <2>1
<1>3. CASE sys_sched_yield
  <2>1. ctx[curr] = "run" /\ ctx' = [ctx EXCEPT ![curr] = "yield"]
        /\ UNCHANGED <<sel, gdt, found, child>>
    BY <1>3 DEF sys_sched_yield, TaskRuns, descVars
  <2>2. "yield" \in Contexts \ {"found", "made", "none", "new"}
    BY DEF Contexts
  <2> QED
    BY <2>1, <2>2, TableKeptByMove
<1>4. ASSUME NEW ms \in SleepMs, sys_sleep(ms) PROVE TableInv'
  <2>1. /\ ctx[curr] = "run" /\ UNCHANGED <<sel, gdt, found, child>>
        /\ \/ ctx' = ctx \/ ctx' = [ctx EXCEPT ![curr] = "sleep"]
           \/ ctx' = [ctx EXCEPT ![curr] = "sleep0"]
    BY <1>4 DEF sys_sleep, SleepCurrent, SleepAddress, TaskRuns, descVars
  <2>2. {"sleep", "sleep0"} \subseteq Contexts \ {"found", "made", "none", "new"}
    BY DEF Contexts
  <2> QED
    BY <1>1, <2>1, <2>2, TableKeptByMove
<1>5. CASE SyscallReturn
  <2>1. /\ ctx[curr] \in {"yield", "sleep", "sleep0"} /\ ctx' = [ctx EXCEPT ![curr] = "run"]
        /\ UNCHANGED <<sel, gdt, found, child>>
    BY <1>5 DEF SyscallReturn, descVars
  <2>2. "run" \in Contexts \ {"found", "made", "none", "new"}
    BY DEF Contexts
  <2> QED
    BY <2>1, <2>2, TableKeptByMove
<1>6. CASE ReadyFinish \/ TaskInitState \/ ListLink \/ ListTail
  <2>1. /\ UNCHANGED <<sel, gdt, found, child>>
        /\ ctx[curr] \in {"linked", "tailed", "counted", "ready", "listLinked"}
        /\ \E p \in {"tailed", "counted", "ready", "listLinked", "listTailed"} :
                ctx' = [ctx EXCEPT ![curr] = p]
    BY <1>6 DEF ReadyFinish, TaskInitState, ListLink, ListTail, Advances, Stands, descVars
  <2>2. {"tailed", "counted", "ready", "listLinked", "listTailed"}
            \subseteq Contexts \ {"found", "made", "none", "new"}
    BY DEF Contexts, InitPoints
  <2> QED
    BY <2>1, <2>2, TableKeptByMove
<1>7. CASE ListCount
  <2>1. /\ ctx[curr] = "listTailed" /\ ctx' = [ctx EXCEPT ![curr] = "run"]
        /\ child' = [child EXCEPT ![curr] = NoTask] /\ UNCHANGED <<sel, gdt, found>>
    BY <1>7 DEF ListCount, Advances, Stands, descVars
  <2>2. /\ ctx'[curr] = "run" /\ \A t \in AllTasks : t # curr => ctx'[t] = ctx[t]
        /\ \A t \in AllTasks : t # curr => child'[t] = child[t]
    BY <2>1 DEF IndInv, TypeOK
  <2>3. Created' = Created
    BY <2>1, <2>2 DEF Created, AllTasks
  <2>4. \A u \in Tasks : /\ ctx'[u] = "made" <=> ctx[u] = "made"
                         /\ ctx[u] = "made" => child'[u] = child[u]
                         /\ ctx'[u] = "found" => ctx[u] = "found"
    BY <2>1, <2>2 DEF AllTasks
  <2>5. \A t \in AllTasks : Made(t)' <=> Made(t)
    BY <2>3, <2>4 DEF Made
  <2> QED
    BY <2>1, <2>4, <2>5, TableKept
<1> QED
  BY <1>2, <1>3, <1>4, <1>5, <1>6, <1>7, TableFind, TableMake, TableReadyLink DEF Next

\* A switch never misses its task as long as the descriptor table has a free
\* entry and no two tasks hold the same selector, as they do when two creators
\* are interleaved between gdt_alloc_desc and gdt_segment_set.
THEOREM FaultsExplained == Spec => []FaultExplained
<1>1. Init => FaultExplained
  BY DEF Init, FaultExplained
<1> QED
  BY <1>1, TableInit, TableNext, FaultStep, SchedulerInvariant, PTL DEF Spec

-----------------------------------------------------------------------------
(* The start of the kernel.                                                *)

Steps == {"log_init", "gdt_init", "memory_init", "irq_init", "pagetable_init",
          "timer_init", "klist_init", "idle_tss", "idle_list", "syscall_init",
          "main", "first_ready", "first_list", "first_curr", "tasks"}

\* The calls behind which the idle task, and the first task, have been made.
IdleMade == {"idle_list", "syscall_init", "main", "first_ready", "first_list", "first_curr"}
FirstMade == {"first_list", "first_curr"}
BootMade(t) == (t = Idle /\ step \in IdleMade) \/ (t = First /\ step \in FirstMade)

\* The descriptor each of them takes.
BootSel(t) == IF t = Idle THEN 1 ELSE 2

\* No tick has been taken yet: the one that is leaves for the idle task or for
\* an exception.
Undisturbed == mode = "ok" /\ curr = NoTask

\* What the calls executed so far have entered in the descriptor table.
DescBuilt ==
    /\ sel = [t \in AllTasks |-> IF BootMade(t) THEN BootSel(t) ELSE 0]
    /\ gdt = [d \in Descriptors |->
                 IF d = 1 /\ step \in IdleMade THEN Idle
                 ELSE IF d = 2 /\ step \in FirstMade THEN First ELSE NoTask]
    /\ found = [t \in AllTasks |-> 0]

\* What the calls executed so far have built.
Built ==
    /\ readyList = IF step \in FirstMade THEN <<First>> ELSE << >>
    /\ sleepList = << >>
    /\ taskList = CASE step = "first_curr" -> <<Idle, First>>
                    [] step \in IdleMade \ {"idle_list", "first_curr"} -> <<Idle>>
                    [] OTHER -> << >>
    /\ taskLen = Len(taskList)
    /\ state = [t \in AllTasks |->
                   IF t = First /\ step = "first_curr" THEN "READY" ELSE "CREATED"]
    /\ slice = [t \in AllTasks |-> TimeSlice]
    /\ sleepTicks = [t \in AllTasks |-> 0]
    /\ DescBuilt
    /\ ctx = [t \in AllTasks |-> IF BootMade(t) THEN "run" ELSE "none"]
    /\ irq = [t \in AllTasks |-> "no"]
    /\ child = [t \in AllTasks |-> NoTask]
    /\ cursor = SleepTail
    /\ inService = FALSE
    /\ ticks = 0

\* The boot is correct so far, and once it has handed over, the scheduler is.
BootInv ==
    /\ step \in Steps
    /\ step # "tasks" /\ Undisturbed => Built
    /\ step = "tasks" => IndInv /\ ListInv

-----------------------------------------------------------------------------
(* The boot.                                                                *)

\* Each call is followed by the next one of the list.
LEMMA NextCall ==
    /\ Does("log_init") => step' = "gdt_init"
    /\ Does("gdt_init") => step' = "memory_init"
    /\ Does("memory_init") => step' = "irq_init"
    /\ Does("irq_init") => step' = "pagetable_init"
    /\ Does("pagetable_init") => step' = "timer_init"
    /\ Does("timer_init") => step' = "klist_init"
    /\ Does("klist_init") => step' = "idle_tss"
    /\ Does("idle_tss") => step' = "idle_list"
    /\ Does("idle_list") => step' = "syscall_init"
    /\ Does("syscall_init") => step' = "main"
    /\ Does("main") => step' = "first_ready"
    /\ Does("first_ready") => step' = "first_list"
    /\ Does("first_list") => step' = "first_curr"
    /\ Does("first_curr") => step' = "tasks"
<1>1. Len(Order) = 15 /\ DOMAIN Order = 1..15
  BY DEF Order
<1> QED
  BY <1>1 DEF Does, Order

\* Before the first call nothing is built.
LEMMA BuiltInit == BootInit => BootInv
<1> SUFFICES ASSUME BootInit PROVE BootInv
  OBVIOUS
<1>1. step = "log_init"
  BY DEF BootInit, Order
<1>2. \A t \in AllTasks : ~BootMade(t)
  BY <1>1 DEF BootMade, IdleMade, FirstMade
<1>3. DescBuilt
  BY <1>1, <1>2 DEF BootInit, DescBuilt, IdleMade, FirstMade
<1>4. ctx = [t \in AllTasks |-> IF BootMade(t) THEN "run" ELSE "none"]
  BY <1>2 DEF BootInit
<1>5. Built
  BY <1>1, <1>2, <1>3, <1>4 DEF BootInit, Built, IdleMade, FirstMade
<1> QED
  BY <1>1, <1>5 DEF BootInv, Steps

\* The tick that finds no current task ends the boot: what was running is
\* never resumed.
LEMMA EarlyTickEnds == EarlyTick => ~Undisturbed' /\ step' = step
<1> SUFFICES ASSUME EarlyTick PROVE ~Undisturbed' /\ step' = step
  OBVIOUS
<1>1. mode' # "ok" \/ curr' = Idle
  BY DEF EarlyTick
<1>2. NoTask # Idle
  BY TasksAssumption
<1> QED
  BY <1>1, <1>2 DEF EarlyTick, bootVars, Undisturbed

\* A call that makes no task leaves the descriptor table.
LEMMA DescKept ==
    ASSUME DescBuilt, UNCHANGED <<sel, gdt, found>>,
           step \in IdleMade <=> step' \in IdleMade, step \in FirstMade <=> step' \in FirstMade
    PROVE  DescBuilt'
BY DEF DescBuilt, BootMade

\* A call that changes nothing the scheduler uses leaves what is built.
LEMMA OtherBuilt ==
    ASSUME BootInv, OtherInit \/ irq_init \/ main
    PROVE  Built' /\ step' \in Steps \ {"tasks"}
<1>1. UNCHANGED vars
  BY DEF OtherInit, irq_init, main
<1>2. \/ step = "log_init" /\ step' = "gdt_init"
      \/ step = "memory_init" /\ step' = "irq_init"
      \/ step = "irq_init" /\ step' = "pagetable_init"
      \/ step = "pagetable_init" /\ step' = "timer_init"
      \/ step = "syscall_init" /\ step' = "main"
      \/ step = "main" /\ step' = "first_ready"
  BY NextCall DEF OtherInit, irq_init, main, Does
<1>3. Built
  <2>1. mode = "ok" /\ curr = NoTask
    BY DEF OtherInit, irq_init, main, Does
  <2> QED
    BY <1>2, <2>1 DEF BootInv, Undisturbed
<1>4. \A t : BootMade(t)' <=> BootMade(t)
  BY <1>2 DEF BootMade, IdleMade, FirstMade
<1>5. ctx' = [t \in AllTasks |-> IF BootMade(t)' THEN "run" ELSE "none"]
  BY <1>1, <1>3, <1>4 DEF Built, vars
<1>6. DescBuilt'
  BY <1>1, <1>2, <1>3, DescKept DEF Built, vars, descVars, IdleMade, FirstMade
<1>8. /\ readyList' = IF step' \in FirstMade THEN <<First>> ELSE << >>
      /\ taskList' = CASE step' = "first_curr" -> <<Idle, First>>
                       [] step' \in IdleMade \ {"idle_list", "first_curr"} -> <<Idle>>
                       [] OTHER -> << >>
  BY <1>1, <1>2, <1>3 DEF Built, vars, IdleMade, FirstMade
<1>9. state' = [t \in AllTasks |->
                   IF t = First /\ step' = "first_curr" THEN "READY" ELSE "CREATED"]
  BY <1>1, <1>2, <1>3 DEF Built, vars
<1>10. Built'
  BY <1>1, <1>3, <1>5, <1>6, <1>8, <1>9 DEF Built, vars
<1> QED
  BY <1>2, <1>10 DEF Steps

\* The descriptors are cleared, the timer is started, or the lists are made:
\* there is no task yet.
LEMMA EmptyBuilt ==
    ASSUME BootInv, gdt_init \/ timer_init \/ ManagerLists
    PROVE  Built' /\ step' \in Steps \ {"tasks"}
<1>1. \/ gdt_init /\ step = "gdt_init" /\ step' = "memory_init"
      \/ timer_init /\ step = "timer_init" /\ step' = "klist_init"
      \/ ManagerLists /\ step = "klist_init" /\ step' = "idle_tss"
  BY NextCall DEF gdt_init, timer_init, ManagerLists, Does
<1>2. Built
  <2>1. mode = "ok" /\ curr = NoTask
    BY DEF gdt_init, timer_init, ManagerLists, Does
  <2> QED
    BY <1>1, <2>1 DEF BootInv, Undisturbed
<1>3. \A t : ~BootMade(t)' /\ ~BootMade(t)
  BY <1>1 DEF BootMade, IdleMade, FirstMade
<1>4. /\ UNCHANGED <<state, slice, sleepTicks, ctx, irq, child, cursor, inService>>
      /\ readyList' = << >> /\ sleepList' = << >> /\ taskList' = << >> /\ taskLen' = 0
      /\ ticks' = 0
  BY <1>1, <1>2 DEF gdt_init, timer_init, ManagerLists, Built, IdleMade, FirstMade
<1>5. ctx' = [t \in AllTasks |-> IF BootMade(t)' THEN "run" ELSE "none"]
  BY <1>2, <1>3, <1>4 DEF Built
<1>6. DescBuilt'
  <2>1. step' \notin IdleMade /\ step' \notin FirstMade
        /\ step \notin IdleMade /\ step \notin FirstMade
    BY <1>1 DEF IdleMade, FirstMade
  <2>2. /\ UNCHANGED <<sel, found>>
        /\ gdt' = gdt \/ gdt' = [d \in Descriptors |-> NoTask]
    BY <1>1 DEF gdt_init, timer_init, ManagerLists, descVars
  <2> QED
    BY <1>2, <1>3, <2>1, <2>2 DEF Built, DescBuilt
<1>7. state' = [t \in AllTasks |->
                   IF t = First /\ step' = "first_curr" THEN "READY" ELSE "CREATED"]
  BY <1>1, <1>2, <1>4 DEF Built
<1>8. Built'
  BY <1>1, <1>2, <1>4, <1>5, <1>6, <1>7 DEF Built, IdleMade, FirstMade
<1> QED
  BY <1>1, <1>8 DEF Steps

\* What MakeTask does with the first free descriptor.
LEMMA MakeTaskBuilds ==
    ASSUME Built, NEW t \in AllTasks, MakeTask(t), FirstFree = BootSel(t),
           \A u \in AllTasks : BootMade(u)' <=> BootMade(u) \/ u = t,
           t = Idle => step \notin IdleMade /\ step' \in IdleMade /\ step \notin FirstMade
                        /\ step' \notin FirstMade,
           t # Idle => t = First /\ step \in IdleMade /\ step' \in IdleMade
                        /\ step \notin FirstMade /\ step' \in FirstMade
    PROVE  /\ DescBuilt'
           /\ ctx' = [u \in AllTasks |-> IF BootMade(u)' THEN "run" ELSE "none"]
           /\ slice' = [u \in AllTasks |-> TimeSlice]
<1>1. sel' = [u \in AllTasks |-> IF BootMade(u)' THEN BootSel(u) ELSE 0]
  BY DEF Built, DescBuilt, MakeTask
<1>2. gdt' = [d \in Descriptors |->
                 IF d = 1 /\ step' \in IdleMade THEN Idle
                 ELSE IF d = 2 /\ step' \in FirstMade THEN First ELSE NoTask]
  <2>1. CASE t = Idle
    BY <2>1 DEF Built, DescBuilt, MakeTask, BootSel
  <2>2. CASE t # Idle
    BY <2>2 DEF Built, DescBuilt, MakeTask, BootSel
  <2> QED
    BY <2>1, <2>2
<1>3. ctx' = [u \in AllTasks |-> IF BootMade(u)' THEN "run" ELSE "none"]
  BY DEF Built, MakeTask
<1>4. found' = [u \in AllTasks |-> 0] /\ slice' = [u \in AllTasks |-> TimeSlice]
  BY DEF Built, DescBuilt, MakeTask
<1> QED
  BY <1>1, <1>2, <1>3, <1>4 DEF DescBuilt

\* The idle task is made; task_set_ready leaves it off the ready list.
LEMMA IdleTssBuilt ==
    ASSUME BootInv, IdleTss
    PROVE  Built' /\ step' \in Steps \ {"tasks"}
<1> USE TasksAssumption, NumbersAssumption
<1>1. step = "idle_tss" /\ step' = "idle_list" /\ MakeTask(Idle)
  BY NextCall DEF IdleTss, Does
<1>2. Built
  BY <1>1 DEF BootInv, Undisturbed, IdleTss, Does
<1>3. readyList = << >> /\ taskList = << >>
  BY <1>1, <1>2 DEF Built, IdleMade, FirstMade
<1>4. \A u \in AllTasks : BootMade(u)' <=> BootMade(u) \/ u = Idle
  BY <1>1 DEF BootMade, IdleMade, FirstMade
<1>5. /\ DescBuilt'
      /\ ctx' = [u \in AllTasks |-> IF BootMade(u)' THEN "run" ELSE "none"]
      /\ slice' = [u \in AllTasks |-> TimeSlice]
  <2>1. FirstFree = BootSel(Idle)
    <3>1. 1 \in Descriptors /\ gdt[1] = NoTask
      BY <1>1, <1>2 DEF Built, DescBuilt, Descriptors, IdleMade, FirstMade
    <3> QED
      BY <3>1, FirstFreeFacts DEF BootSel, Descriptors
  <2>2. step \notin IdleMade /\ step' \in IdleMade /\ step \notin FirstMade
        /\ step' \notin FirstMade
    BY <1>1 DEF IdleMade, FirstMade
  <2> QED
    BY <1>1, <1>2, <1>4, <2>1, <2>2, MakeTaskBuilds DEF AllTasks
<1>6. /\ readyList' = << >>
      /\ state' = [state EXCEPT ![Idle] = "CREATED"]
      /\ UNCHANGED <<sleepList, taskList, taskLen, sleepTicks, irq, child, cursor,
                     inService, ticks>>
  BY <1>3 DEF IdleTss, task_set_ready, ReadyState
<1>7. state' = [t \in AllTasks |->
                   IF t = First /\ step' = "first_curr" THEN "READY" ELSE "CREATED"]
  BY <1>1, <1>2, <1>6 DEF Built
<1>8. Built'
  BY <1>1, <1>2, <1>3, <1>5, <1>6, <1>7 DEF Built, IdleMade, FirstMade
<1> QED
  BY <1>1, <1>8 DEF Steps

\* The idle task is entered in task_list.
LEMMA IdleListBuilt ==
    ASSUME BootInv, IdleList
    PROVE  Built' /\ step' \in Steps \ {"tasks"}
<1>1. step = "idle_list" /\ step' = "syscall_init"
  BY NextCall DEF IdleList, Does
<1>2. Built
  BY <1>1 DEF BootInv, Undisturbed, IdleList, Does
<1>3. /\ taskList' = <<Idle>> /\ taskLen' = 1
      /\ UNCHANGED <<readyList, sleepList, state, slice, sleepTicks, sel, gdt, found,
                     ctx, irq, child, cursor, inService, ticks>>
  BY <1>1, <1>2 DEF Built, IdleList, descVars, klist_append, IdleMade, FirstMade
<1>4. \A t : BootMade(t)' <=> BootMade(t)
  BY <1>1 DEF BootMade, IdleMade, FirstMade
<1>5. ctx' = [t \in AllTasks |-> IF BootMade(t)' THEN "run" ELSE "none"]
  BY <1>2, <1>3, <1>4 DEF Built
<1>6. DescBuilt'
  BY <1>1, <1>2, <1>3, DescKept DEF Built, IdleMade, FirstMade
<1>7. state' = [t \in AllTasks |->
                   IF t = First /\ step' = "first_curr" THEN "READY" ELSE "CREATED"]
  BY <1>1, <1>2, <1>3 DEF Built
<1>8. readyList' = << >>
  BY <1>1, <1>2, <1>3 DEF Built, IdleMade, FirstMade
<1>9. Built'
  BY <1>1, <1>2, <1>3, <1>5, <1>6, <1>7, <1>8 DEF Built, IdleMade, FirstMade
<1> QED
  BY <1>1, <1>9 DEF Steps

\* The first task is made and linked into the ready list.
LEMMA FirstReadyBuilt ==
    ASSUME BootInv, FirstReady
    PROVE  Built' /\ step' \in Steps \ {"tasks"}
<1> USE TasksAssumption, NumbersAssumption
<1>1. step = "first_ready" /\ step' = "first_list" /\ MakeTask(First)
  BY NextCall DEF FirstReady, Does
<1>2. Built
  BY <1>1 DEF BootInv, Undisturbed, FirstReady, Does
<1>3. readyList = << >> /\ taskList = <<Idle>>
  BY <1>1, <1>2 DEF Built, IdleMade, FirstMade
<1>4. \A u \in AllTasks : BootMade(u)' <=> BootMade(u) \/ u = First
  BY <1>1 DEF BootMade, IdleMade, FirstMade
<1>5. /\ DescBuilt'
      /\ ctx' = [u \in AllTasks |-> IF BootMade(u)' THEN "run" ELSE "none"]
      /\ slice' = [u \in AllTasks |-> TimeSlice]
  <2>1. FirstFree = BootSel(First)
    <3>1. 1 \in Descriptors /\ gdt[1] = Idle /\ Idle # NoTask /\ 2 \in Descriptors
          /\ gdt[2] = NoTask
      BY <1>1, <1>2 DEF Built, DescBuilt, Descriptors, IdleMade, FirstMade
    <3>2. FirstFree \in 0..GdtSlots /\ FirstFree <= 2 /\ FirstFree # 0 /\ FirstFree # 1
      BY <3>1, FirstFreeFacts
    <3> QED
      BY <3>2 DEF BootSel
  <2>2. step \in IdleMade /\ step' \in IdleMade /\ step \notin FirstMade
        /\ step' \in FirstMade /\ First \in AllTasks /\ First # Idle
    BY <1>1 DEF IdleMade, FirstMade, AllTasks
  <2> QED
    BY <1>1, <1>2, <1>4, <2>1, <2>2, MakeTaskBuilds
<1>6. /\ readyList' = <<First>>
      /\ state' = [state EXCEPT ![First] = "CREATED"]
      /\ UNCHANGED <<sleepList, taskList, taskLen, sleepTicks, irq, child, cursor,
                     inService, ticks>>
  BY <1>3 DEF FirstReady, task_set_ready, klist_append
<1>7. state' = [t \in AllTasks |->
                   IF t = First /\ step' = "first_curr" THEN "READY" ELSE "CREATED"]
  BY <1>1, <1>2, <1>6 DEF Built
<1>8. Built'
  BY <1>1, <1>2, <1>3, <1>5, <1>6, <1>7 DEF Built, IdleMade, FirstMade
<1> QED
  BY <1>1, <1>8 DEF Steps

\* A second node behind a single one.
LEMMA AppendSecond ==
    ASSUME NEW a, NEW b
    PROVE  Append(<<a>>, b) = <<a, b>>
<1>1. <<a>> \in Seq({a, b}) /\ <<a, b>> \in Seq({a, b}) /\ Len(<<a, b>>) = 2
  OBVIOUS
<1>2. /\ Append(<<a>>, b) \in Seq({a, b}) /\ Len(Append(<<a>>, b)) = 2
      /\ Append(<<a>>, b)[1] = a /\ Append(<<a>>, b)[2] = b
  BY <1>1
<1>3. \A i \in 1..2 : Append(<<a>>, b)[i] = <<a, b>>[i]
  BY <1>2
<1> QED
  BY <1>1, <1>2, <1>3, SeqEqual

\* The first task is entered in task_list, and its state is set.
LEMMA FirstListBuilt ==
    ASSUME BootInv, FirstList
    PROVE  Built' /\ step' \in Steps \ {"tasks"}
<1> USE TasksAssumption
<1>1. step = "first_list" /\ step' = "first_curr"
  BY NextCall DEF FirstList, Does
<1>2. Built
  BY <1>1 DEF BootInv, Undisturbed, FirstList, Does
<1>3. /\ taskList' = <<Idle, First>> /\ taskLen' = 2
      /\ state' = [state EXCEPT ![First] = "READY"]
      /\ UNCHANGED <<readyList, sleepList, slice, sleepTicks, sel, gdt, found,
                     ctx, irq, child, cursor, inService, ticks>>
  <2>1. taskList = <<Idle>> /\ taskLen = 1
    BY <1>1, <1>2 DEF Built, IdleMade, FirstMade
  <2>2. taskList' = Append(taskList, First) /\ taskLen' = taskLen + 1
    BY DEF FirstList, klist_append
  <2>3. taskList' = <<Idle, First>> /\ taskLen' = 2
    BY <2>1, <2>2, AppendSecond
  <2> QED
    BY <2>3 DEF FirstList, ReadyState, descVars
<1>4. \A t : BootMade(t)' <=> BootMade(t)
  BY <1>1 DEF BootMade, IdleMade, FirstMade
<1>5. ctx' = [t \in AllTasks |-> IF BootMade(t)' THEN "run" ELSE "none"]
  BY <1>2, <1>3, <1>4 DEF Built
<1>6. DescBuilt'
  BY <1>1, <1>2, <1>3, DescKept DEF Built, IdleMade, FirstMade
<1>7. state' = [t \in AllTasks |->
                   IF t = First /\ step' = "first_curr" THEN "READY" ELSE "CREATED"]
  BY <1>1, <1>2, <1>3 DEF Built
<1>8. readyList' = <<First>>
  BY <1>1, <1>2, <1>3 DEF Built, IdleMade, FirstMade
<1>9. Built'
  BY <1>1, <1>2, <1>3, <1>5, <1>6, <1>7, <1>8 DEF Built, IdleMade, FirstMade
<1> QED
  BY <1>1, <1>9 DEF Steps

\* With curr_task set, the state is the one the scheduler starts from.
LEMMA FirstCurrBuilt ==
    ASSUME BootInv, FirstCurr
    PROVE  Init' /\ step' = "tasks"
<1> USE TasksAssumption
<1>1. step = "first_curr" /\ step' = "tasks" /\ mode = "ok"
  BY NextCall DEF FirstCurr, Does
<1>2. Built
  BY <1>1 DEF BootInv, Undisturbed, FirstCurr, Does
<1>3. \A t \in AllTasks : BootMade(t) <=> t \in {Idle, First}
  BY <1>1 DEF BootMade, IdleMade, FirstMade
<1>4. /\ sel = [t \in AllTasks |-> IF t = Idle THEN 1 ELSE IF t = First THEN 2 ELSE 0]
      /\ gdt = [d \in Descriptors |->
                   IF d = 1 THEN Idle ELSE IF d = 2 THEN First ELSE NoTask]
      /\ found = [t \in AllTasks |-> 0]
  BY <1>1, <1>2, <1>3 DEF Built, DescBuilt, BootSel, IdleMade, FirstMade
<1>5. ctx = [t \in AllTasks |-> IF t \in {Idle, First} THEN "run" ELSE "none"]
  BY <1>2, <1>3 DEF Built
<1>6. state = [t \in AllTasks |-> IF t = First THEN "READY" ELSE "CREATED"]
  BY <1>1, <1>2 DEF Built
<1>7. /\ readyList = <<First>> /\ sleepList = << >> /\ taskList = <<Idle, First>>
      /\ taskLen = 2
  BY <1>1, <1>2 DEF Built, IdleMade, FirstMade
<1>8. /\ curr' = First
      /\ UNCHANGED <<readyList, sleepList, taskList, taskLen, state, slice, sleepTicks,
                     sel, gdt, found, ctx, irq, child, cursor, inService, ticks, mode>>
  BY DEF FirstCurr, descVars
<1> QED
  BY <1>1, <1>2, <1>4, <1>5, <1>6, <1>7, <1>8 DEF Built, Init

\* Every step of the start, every early tick and every step of the scheduler
\* behind it preserves the invariant.
LEMMA BootNextInv == BootInv /\ [BootNext]_allVars => BootInv'
<1> SUFFICES ASSUME BootInv, [BootNext]_allVars PROVE BootInv'
  OBVIOUS
<1>1. ASSUME Built', step' \in Steps \ {"tasks"} PROVE BootInv'
  BY <1>1 DEF BootInv
<1>2. CASE OtherInit \/ irq_init \/ main
  BY <1>1, <1>2, OtherBuilt
<1>3. CASE gdt_init \/ timer_init \/ ManagerLists
  BY <1>1, <1>3, EmptyBuilt
<1>4. CASE IdleTss
  BY <1>1, <1>4, IdleTssBuilt
<1>5. CASE IdleList
  BY <1>1, <1>5, IdleListBuilt
<1>6. CASE FirstReady
  BY <1>1, <1>6, FirstReadyBuilt
<1>7. CASE FirstList
  BY <1>1, <1>7, FirstListBuilt
<1>8. CASE FirstCurr
  <2>1. Init' /\ step' = "tasks"
    BY <1>8, FirstCurrBuilt
  <2>2. Init' => IndInv' /\ ListInv'
    BY InitInv, ListInit, PTL
  <2> QED
    BY <2>1, <2>2 DEF BootInv, Steps
<1>9. CASE EarlyTick
  <2>1. step # "tasks"
    BY <1>9, TasksAssumption DEF EarlyTick, BootInv, IndInv, TypeOK, AllTasks
  <2> QED
    BY <1>9, <2>1, EarlyTickEnds DEF BootInv
<1>10. CASE TaskStep
  <2>1. step = "tasks" /\ step' = "tasks" /\ Next
    BY <1>10 DEF TaskStep, bootVars
  <2>2. IndInv' /\ ListInv'
    BY <2>1, NextInv, ListNext DEF BootInv
  <2> QED
    BY <2>1, <2>2 DEF BootInv, Steps
<1>11. CASE UNCHANGED allVars
  <2>1. UNCHANGED vars /\ step' = step
    BY <1>11 DEF allVars, bootVars
  <2>2. IndInv /\ ListInv => IndInv' /\ ListInv'
    BY <2>1, NextInv, ListNext
  <2>3. Built => Built'
    BY <2>1 DEF Built, DescBuilt, vars, descVars, BootMade
  <2>4. Undisturbed' => Undisturbed
    BY <2>1 DEF Undisturbed, vars
  <2> QED
    BY <2>1, <2>2, <2>3, <2>4 DEF BootInv
<1> QED
  BY <1>2, <1>3, <1>4, <1>5, <1>6, <1>7, <1>8, <1>9, <1>10, <1>11
  DEF BootNext, BootStep

\* The boot's invariant.
THEOREM BootInvariant == BootSpec => []BootInv
BY BuiltInit, BootNextInv, PTL DEF BootSpec

\* The steps that end in the scheduler's hands: the one that hands over, and
\* the scheduler's own.
LEMMA AfterBoot ==
    ASSUME BootInv, [BootNext]_allVars, step' = "tasks"
    PROVE  \/ step # "tasks" /\ Init'
           \/ step = "tasks" /\ IndInv /\ ListInv /\ [Next]_vars
<1>1. CASE step = "tasks"
  <2>1. ~BootStep
    BY <1>1 DEF BootStep, OtherInit, gdt_init, irq_init, timer_init, ManagerLists,
       IdleTss, IdleList, main, FirstReady, FirstList, FirstCurr, Does
  <2>2. ~EarlyTick
    BY <1>1, TasksAssumption DEF EarlyTick, BootInv, IndInv, TypeOK, AllTasks
  <2> QED
    BY <1>1, <2>1, <2>2 DEF BootInv, BootNext, TaskStep, allVars
<1>2. CASE step # "tasks"
  <2>1. ~(OtherInit \/ irq_init \/ main)
    BY OtherBuilt
  <2>2. ~(gdt_init \/ timer_init \/ ManagerLists)
    BY EmptyBuilt
  <2>3. ~IdleTss /\ ~IdleList /\ ~FirstReady /\ ~FirstList
    BY IdleTssBuilt, IdleListBuilt, FirstReadyBuilt, FirstListBuilt
  <2>4. ~EarlyTick /\ ~TaskStep /\ ~UNCHANGED allVars
    BY <1>2, EarlyTickEnds DEF TaskStep, allVars, bootVars
  <2>5. FirstCurr
    BY <2>1, <2>2, <2>3, <2>4 DEF BootNext, BootStep
  <2> QED
    BY <1>2, <2>5, FirstCurrBuilt
<1> QED
  BY <1>1, <1>2

\* kernel_init and task_first_init hand the scheduler the state it starts from,
\* whichever ticks arrive meanwhile.
THEOREM BootHandsOver == BootSpec => HandsOver
<1>1. BootInv /\ [BootNext]_allVars => [step # "tasks" /\ step' = "tasks" => Init']_allVars
  BY AfterBoot
<1> QED
  BY <1>1, BootInvariant, PTL DEF BootSpec, HandsOver

\* The scheduler's invariants hold of the kernel as it is started, from the
\* moment task_first_init has set curr_task.
THEOREM StartedSchedulerInvariant == BootSpec => [](step = "tasks" => IndInv /\ TaskListComplete)
<1>1. BootInv => (step = "tasks" => IndInv /\ TaskListComplete)
  BY DEF BootInv, ListInv
<1> QED
  BY <1>1, BootInvariant, PTL
=============================================================================
