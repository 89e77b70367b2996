--------------------------- MODULE ThreadsProofs ---------------------------
(***************************************************************************)
(* The kernel threads and their semaphore, for any number of threads, any  *)
(* initial value and any width of the counter.                             *)
(***************************************************************************)
EXTENDS Threads, KListSeqProofs

-----------------------------------------------------------------------------
(* The inductive invariant.                                                *)

\* Every thread on the ready list other than the running one has the status
\* that thread_dispatch asks for: a thread that blocks never goes on running.
OthersReady ==
    mode = "ok" => \A t \in ToSet(readyList) : t # cur => status[t] = "READY"

\* The running thread is in its own code or in the loop of thread_sem_wait,
\* there with interrupts disabled; the waiters are in that loop.
Standing ==
    mode = "ok" =>
        /\ point[cur] \in {"run", "loop"}
        /\ point[cur] = "loop" => ~intr
        /\ \A t \in ToSet(waitList) : point[t] = "loop"

\* A thread has at most one permit, and none while it waits for one.
OnePermit ==
    \A t \in AllThreads : holds[t] \in {0, 1} /\ (point[t] = "loop" => holds[t] = 0)

ThreadsInv ==
    /\ TypeOK /\ OneListPerThread /\ OthersReady /\ Standing /\ OnePermit
    /\ NoLostWakeup /\ PermitsRespected /\ HeldTickAnswered

-----------------------------------------------------------------------------
(* Facts about the functions of task_old.c.                                *)

\* thread_dispatch with a ready list on which every thread is READY: the first
\* one runs, and no thread but the caller and that one is moved.
LEMMA DispatchFacts ==
    ASSUME TypeOK, NEW rl \in Seq(AllThreads), NEW st \in [AllThreads -> Statuses],
           NEW p \in {"loop", "tick"}, thread_dispatch(rl, st, p),
           rl # << >>, \A t \in ToSet(rl) : st[t] = "READY"
    PROVE  /\ readyList' = rl /\ mode' = mode
           /\ cur' = Head(rl) /\ cur' \in AllThreads /\ cur' \in ToSet(rl)
           /\ status' \in [AllThreads -> Statuses]
           /\ \A t \in ToSet(rl) : t # cur' => status'[t] = "READY"
           /\ point' \in [AllThreads -> Points] /\ point'[cur'] \in {"run", "loop"}
           /\ \A t \in AllThreads : t # cur /\ t # cur' => point'[t] = point[t]
           /\ \A t \in AllThreads : t # cur => (point'[t] = "loop" <=> point[t] = "loop")
           /\ point'[cur] = "loop" <=> p = "loop"
           /\ point'[cur] # "none"
           /\ intr' \in BOOLEAN /\ (point'[cur'] = "loop" => ~intr')
           /\ inService' \in BOOLEAN
           /\ inService' => /\ inService \/ p = "tick"
                            /\ cur' = cur => p # "tick"
                            /\ cur' # cur => point[cur'] # "tick" /\ point'[cur] = p
<1> DEFINE h == Head(rl)
<1>1. h \in AllThreads /\ h \in ToSet(rl)
  <2>1. 1 \in DOMAIN rl /\ rl[1] = h /\ h \in AllThreads
    OBVIOUS
  <2> QED
    BY <2>1 DEF ToSet
<1>2. st[h] = "READY" /\ cur \in AllThreads /\ point \in [AllThreads -> Points]
      /\ ToSet(rl) \subseteq AllThreads
  BY <1>1, ListFinite DEF TypeOK
<1>3. CASE h # cur
  <2>1. /\ readyList' = rl /\ mode' = mode /\ cur' = h
        /\ status' = [st EXCEPT ![h] = "RUNNING"]
        /\ intr' = (point[h] = "tick") /\ inService' = TickHeld(p, point[h])
        /\ point' = [point EXCEPT ![cur] = p, ![h] = IF @ = "loop" THEN "loop" ELSE "run"]
    BY <1>2, <1>3 DEF thread_dispatch, ResumeFlag
  <2> HIDE DEF h
  <2>2. /\ point' \in [AllThreads -> Points]
        /\ point'[cur] = p /\ point'[h] = IF point[h] = "loop" THEN "loop" ELSE "run"
        /\ \A t \in AllThreads : t # cur /\ t # h => point'[t] = point[t]
    BY <1>1, <1>2, <1>3, <2>1 DEF Points
  <2>3. status' \in [AllThreads -> Statuses] /\ \A t \in ToSet(rl) : t # h => status'[t] = "READY"
    BY <1>1, <1>2, <2>1 DEF Statuses
  <2>4. intr' \in BOOLEAN /\ (point'[h] = "loop" => ~intr')
    <3>1. intr' \in BOOLEAN /\ (intr' <=> point[h] = "tick")
      BY <2>1, Zenon
    <3> QED
      BY <2>2, <3>1
  <2>5. /\ inService' \in BOOLEAN
        /\ inService' => (inService \/ p = "tick") /\ point[h] # "tick"
    BY <2>1, Zenon DEF TickHeld
  <2> QED
    BY <1>1, <1>2, <1>3, <2>1, <2>2, <2>3, <2>4, <2>5 DEF h
<1>4. CASE h = cur
  <2>1. /\ readyList' = rl /\ mode' = mode /\ cur' = h
        /\ status' = st /\ intr' = (p = "tick") /\ inService' = TickHeld(p, p)
        /\ point' = [point EXCEPT ![cur] = IF p = "loop" THEN "loop" ELSE "run"]
    BY <1>4 DEF thread_dispatch, ResumeFlag
  <2> HIDE DEF h
  <2>2. /\ point' \in [AllThreads -> Points]
        /\ point'[cur] = IF p = "loop" THEN "loop" ELSE "run"
        /\ \A t \in AllThreads : t # cur => point'[t] = point[t]
    BY <1>2, <2>1 DEF Points
  <2>3. intr' \in BOOLEAN /\ (point'[h] = "loop" => ~intr')
    <3>1. intr' \in BOOLEAN /\ (intr' <=> p = "tick")
      BY <2>1, Zenon
    <3> QED
      BY <1>4, <2>2, <3>1
  <2>4. /\ inService' \in BOOLEAN
        /\ inService' => (inService \/ p = "tick") /\ p # "tick"
    BY <2>1, Zenon DEF TickHeld
  <2> QED
    BY <1>1, <1>2, <1>4, <2>1, <2>2, <2>3, <2>4 DEF h
<1> QED
  BY <1>3, <1>4

\* thread_set_ready of the running thread: the same threads are ready.
LEMMA RequeueFacts ==
    ASSUME TypeOK, OneListPerThread, mode = "ok"
    PROVE  /\ thread_set_ready(readyList, cur) \in Seq(AllThreads)
           /\ thread_set_ready(readyList, cur) # << >>
           /\ IsInjective(thread_set_ready(readyList, cur))
           /\ ToSet(thread_set_ready(readyList, cur)) = ToSet(readyList)
<1> DEFINE l == klist_remove(readyList, cur)
<1>1. /\ readyList \in Seq(AllThreads) /\ IsInjective(readyList)
      /\ cur \in ToSet(readyList) /\ cur \in AllThreads
  BY DEF TypeOK, OneListPerThread
<1>2. l \in Seq(AllThreads) /\ IsInjective(l) /\ ToSet(l) = ToSet(readyList) \ {cur}
  BY <1>1, RemoveUnlinks
<1> HIDE DEF l
<1>3. /\ klist_append(l, cur) \in Seq(AllThreads) /\ klist_append(l, cur) # << >>
      /\ IsInjective(klist_append(l, cur))
      /\ ToSet(klist_append(l, cur)) = ToSet(l) \cup {cur}
  BY <1>1, <1>2, AppendLinks
<1> QED
  BY <1>1, <1>2, <1>3 DEF l, thread_set_ready

\* A new thread joins the ready list at the back, a woken one at the front.
LEMMA JoinFacts ==
    ASSUME NEW rl \in Seq(AllThreads), IsInjective(rl),
           NEW t \in AllThreads, t \notin ToSet(rl)
    PROVE  /\ thread_set_ready(rl, t) \in Seq(AllThreads)
           /\ IsInjective(thread_set_ready(rl, t))
           /\ ToSet(thread_set_ready(rl, t)) = ToSet(rl) \cup {t}
           /\ thread_push_ready(rl, t) \in Seq(AllThreads)
           /\ IsInjective(thread_push_ready(rl, t))
           /\ ToSet(thread_push_ready(rl, t)) = ToSet(rl) \cup {t}
<1>1. klist_remove(rl, t) = rl
  BY RemoveAbsent
<1> QED
  BY <1>1, AppendLinks, PushLinks DEF thread_set_ready, thread_push_ready

\* A set of threads is finite, and its size changes by at most one with one
\* thread.
LEMMA ThreadSets ==
    ASSUME NEW S \in SUBSET AllThreads, NEW t \in AllThreads
    PROVE  /\ IsFiniteSet(S) /\ Cardinality(S) \in Nat
           /\ t \notin S => Cardinality(S \cup {t}) = Cardinality(S) + 1
           /\ t \in S => Cardinality(S \ {t}) = Cardinality(S) - 1
<1>1. IsFiniteSet(AllThreads)
  BY ThreadsAssumption, FS_AddElement DEF AllThreads
<1>2. IsFiniteSet(S)
  BY <1>1, FS_Subset
<1>3. Cardinality(S) \in Nat
  BY <1>2, FS_CardinalityType
<1> QED
  BY <1>2, <1>3, FS_AddElement, FS_RemoveElement

-----------------------------------------------------------------------------
(* The invariant holds initially.                                          *)

\* The threads that have a permit, as PermitsRespected counts them.
Holders == {t \in AllThreads : holds[t] > 0}

\* The state behind main_thread_init and sem_init satisfies ThreadsInv.
LEMMA ThreadsInit == Init => ThreadsInv
<1> SUFFICES ASSUME Init PROVE ThreadsInv
  OBVIOUS
<1> USE ThreadsAssumption
<1>1. TypeOK
  <2>1. /\ saved \in [AllThreads -> BOOLEAN] /\ intr \in BOOLEAN
        /\ inService \in BOOLEAN /\ pageZero \in BOOLEAN
    BY DEF Init
  <2>2. cur \in AllThreads /\ readyList \in Seq(AllThreads) /\ waitList \in Seq(AllThreads)
    BY DEF Init, AllThreads
  <2>3. /\ status \in [AllThreads -> Statuses] /\ ticks \in [AllThreads -> 1..Ticks]
        /\ point \in [AllThreads -> Points] /\ holds \in [AllThreads -> Nat]
    BY DEF Init, Statuses, Points
  <2> QED
    BY <2>1, <2>2, <2>3 DEF Init, TypeOK
<1>2. /\ ToSet(readyList) = {Main} /\ ToSet(waitList) = {} /\ IsInjective(readyList)
      /\ IsInjective(waitList) /\ Started = {Main}
  BY DEF Init, ToSet, IsInjective, Started, AllThreads
<1>3. OneListPerThread /\ OthersReady
  BY <1>2 DEF Init, OneListPerThread, OthersReady
<1>4. Standing /\ OnePermit
  BY <1>2 DEF Init, Standing, OnePermit, AllThreads
<1>5. NoLostWakeup
  BY DEF Init, NoLostWakeup
<1>6. PermitsRespected
  <2>1. {t \in AllThreads : holds[t] > 0} = {}
    BY DEF Init
  <2>2. Cardinality({t \in AllThreads : holds[t] > 0}) = 0
    BY <2>1, FS_EmptySet
  <2>3. value = InitValue /\ signals = 0 /\ InitValue \in Nat
    BY DEF Init
  <2> QED
    BY <2>2, <2>3 DEF PermitsRespected
<1>7. HeldTickAnswered
  BY DEF Init, HeldTickAnswered
<1> QED
  BY <1>1, <1>3, <1>4, <1>5, <1>6, <1>7 DEF ThreadsInv
-----------------------------------------------------------------------------
(* Every operation keeps the invariant.                                    *)

\* thread_start links a thread that was on no list.
LEMMA StartInv ==
    ASSUME ThreadsInv, NEW t \in Workers,
           mode = "ok", point[cur] = "run", point[t] = "none", pageZero' \in BOOLEAN,
           readyList' = thread_set_ready(readyList, t),
           status' = [status EXCEPT ![t] = "READY"],
           point' = [point EXCEPT ![t] = "start"],
           UNCHANGED <<cur, waitList, value, ticks, saved, holds, signals, intr, inService, mode>>
    PROVE  ThreadsInv'
<1> USE ThreadsAssumption
<1>1. /\ TypeOK /\ OneListPerThread /\ OthersReady /\ Standing /\ OnePermit
      /\ NoLostWakeup /\ PermitsRespected /\ HeldTickAnswered
  BY DEF ThreadsInv
<1>2. /\ mode = "ok" /\ point[cur] = "run" /\ point[t] = "none" /\ t \in AllThreads
      /\ readyList' = thread_set_ready(readyList, t)
      /\ status' = [status EXCEPT ![t] = "READY"] /\ point' = [point EXCEPT ![t] = "start"]
      /\ UNCHANGED <<cur, waitList, value, ticks, saved, holds, signals, intr, inService, mode>>
  BY DEF AllThreads
<1>3. t # cur /\ t \notin ToSet(readyList) /\ t \notin ToSet(waitList)
      /\ ToSet(readyList) \subseteq AllThreads /\ ToSet(waitList) \subseteq AllThreads
  BY <1>1, <1>2, ListFinite DEF OneListPerThread, Started, TypeOK
<1>4. /\ readyList' \in Seq(AllThreads) /\ IsInjective(readyList')
      /\ ToSet(readyList') = ToSet(readyList) \cup {t}
  <2>1. readyList \in Seq(AllThreads) /\ IsInjective(readyList)
    BY <1>1, <1>2 DEF OneListPerThread, TypeOK
  <2> QED
    BY <1>2, <1>3, <2>1, JoinFacts
<1>5. \A x \in AllThreads : point'[x] = IF x = t THEN "start" ELSE point[x]
  BY <1>1, <1>2 DEF TypeOK
<1>6. TypeOK'
  <2>1. status' \in [AllThreads -> Statuses] /\ point' \in [AllThreads -> Points]
    BY <1>1, <1>2 DEF TypeOK, Statuses, Points
  <2> QED
    BY <1>1, <1>2, <1>4, <2>1 DEF TypeOK
<1>7. OneListPerThread'
  <2>1. Started' = Started \cup {t}
    BY <1>2, <1>5 DEF Started
  <2> QED
    BY <1>1, <1>2, <1>3, <1>4, <2>1 DEF OneListPerThread
<1>8. OthersReady'
  BY <1>1, <1>2, <1>3, <1>4 DEF OthersReady, TypeOK
<1>9. Standing' /\ OnePermit'
  BY <1>1, <1>2, <1>3, <1>5 DEF Standing, OnePermit, TypeOK
<1>10. NoLostWakeup'
  <2>1. \A x \in AllThreads : x \in Woken' <=> x \in Woken
    BY <1>2, <1>3, <1>4, <1>5 DEF Woken
  <2>2. Woken' \subseteq AllThreads /\ Woken \subseteq AllThreads
    BY <1>2, <1>3, <1>4 DEF Woken
  <2>3. Woken' = Woken
    BY <2>1, <2>2
  <2> QED
    BY <1>1, <1>2, <2>3 DEF NoLostWakeup
<1>11. PermitsRespected'
  BY <1>1, <1>2 DEF PermitsRespected
<1>12. HeldTickAnswered'
  BY <1>1, <1>2, <1>3, <1>4, <1>5 DEF HeldTickAnswered
<1> QED
  BY <1>6, <1>7, <1>8, <1>9, <1>10, <1>11, <1>12 DEF ThreadsInv

\* A second thread at address 0 ends what the model follows.
LEMMA OverwriteInv ==
    ASSUME ThreadsInv, mode' = "corrupt",
           UNCHANGED <<cur, readyList, waitList, value, status, ticks, point, saved, holds,
                       signals, intr, inService, pageZero>>
    PROVE  ThreadsInv'
BY DEF ThreadsInv, TypeOK, OneListPerThread, OthersReady, Standing, OnePermit,
   NoLostWakeup, Woken, PermitsRespected, HeldTickAnswered

\* A thread that blocks moves from the ready list to the semaphore's list, and
\* another thread runs if there is one.
LEMMA BlockInv ==
    ASSUME ThreadsInv, mode = "ok", holds[cur] = 0, Block,
           saved' \in [AllThreads -> BOOLEAN]
    PROVE  ThreadsInv'
<1> USE ThreadsAssumption
<1> DEFINE rl == klist_remove(readyList, cur)
           st == [status EXCEPT ![cur] = "BLOCKED"]
<1>1. /\ TypeOK /\ OneListPerThread /\ OthersReady /\ Standing /\ OnePermit
      /\ NoLostWakeup /\ PermitsRespected /\ HeldTickAnswered
  BY DEF ThreadsInv
<1>2. /\ value = 0 /\ waitList' = klist_append(waitList, cur)
      /\ thread_dispatch(rl, st, "loop") /\ UNCHANGED <<value, ticks, holds, signals, pageZero>>
  BY DEF Block
<1>3. /\ cur \in AllThreads /\ cur \in ToSet(readyList) /\ cur \notin ToSet(waitList)
      /\ ToSet(readyList) \subseteq AllThreads /\ ToSet(waitList) \subseteq AllThreads
  BY <1>1, ListFinite DEF OneListPerThread, TypeOK
<1>4. rl \in Seq(AllThreads) /\ IsInjective(rl) /\ ToSet(rl) = ToSet(readyList) \ {cur}
  BY <1>1, <1>3, RemoveUnlinks DEF TypeOK, OneListPerThread
<1>5. /\ waitList' \in Seq(AllThreads) /\ IsInjective(waitList')
      /\ ToSet(waitList') = ToSet(waitList) \cup {cur}
  BY <1>1, <1>2, <1>3, AppendLinks DEF TypeOK, OneListPerThread
<1>6. st \in [AllThreads -> Statuses] /\ \A t \in ToSet(rl) : st[t] = "READY"
  BY <1>1, <1>3, <1>4 DEF TypeOK, Statuses, OthersReady
<1> HIDE DEF rl, st
<1>7. PermitsRespected'
  BY <1>1, <1>2 DEF PermitsRespected
<1>8. CASE rl = << >>
  <2>1. /\ mode' = "corrupt" /\ status' = st /\ readyList' = rl
        /\ UNCHANGED <<cur, point, intr, inService>>
    BY <1>2, <1>8 DEF thread_dispatch
  <2>2. TypeOK'
    BY <1>1, <1>2, <1>4, <1>5, <1>6, <2>1 DEF TypeOK
  <2>3. OneListPerThread' /\ OthersReady' /\ Standing' /\ OnePermit' /\ HeldTickAnswered'
    BY <1>1, <1>2, <2>1 DEF OneListPerThread, OthersReady, Standing, OnePermit,
       HeldTickAnswered
  <2>4. NoLostWakeup'
    <3>1. Woken' \in SUBSET AllThreads
      BY <1>3, <1>4, <2>1 DEF Woken
    <3>2. Cardinality(Woken') \in Nat
      BY <1>3, <3>1, ThreadSets
    <3> QED
      BY <1>2, <3>2 DEF NoLostWakeup
  <2> QED
    BY <1>7, <2>2, <2>3, <2>4 DEF ThreadsInv
<1>9. CASE rl # << >>
  <2>1. /\ readyList' = rl /\ mode' = mode
        /\ cur' \in AllThreads /\ cur' \in ToSet(rl)
        /\ status' \in [AllThreads -> Statuses]
        /\ \A t \in ToSet(rl) : t # cur' => status'[t] = "READY"
        /\ point' \in [AllThreads -> Points] /\ point'[cur'] \in {"run", "loop"}
        /\ \A t \in AllThreads : t # cur /\ t # cur' => point'[t] = point[t]
        /\ \A t \in AllThreads : t # cur => (point'[t] = "loop" <=> point[t] = "loop")
        /\ point'[cur] = "loop"
        /\ intr' \in BOOLEAN /\ (point'[cur'] = "loop" => ~intr')
        /\ inService' \in BOOLEAN
        /\ inService' => inService /\ (cur' # cur => point[cur'] # "tick")
    BY <1>1, <1>2, <1>4, <1>6, <1>9, DispatchFacts
  <2>2. TypeOK'
    BY <1>1, <1>2, <1>4, <1>5, <2>1 DEF TypeOK
  <2>3. OneListPerThread'
    <3>1. Started' = Started
      <4>1. cur \in Started /\ cur' \in Started
        BY <1>1, <1>3, <1>4, <2>1 DEF OneListPerThread
      <4>2. \A t \in AllThreads : point'[t] = "none" <=> point[t] = "none"
        BY <2>1, <4>1 DEF Started
      <4> QED
        BY <4>2 DEF Started
    <3> QED
      BY <1>1, <1>3, <1>4, <1>5, <2>1, <3>1 DEF OneListPerThread
  <2>4. OthersReady'
    BY <2>1 DEF OthersReady
  <2>5. Standing'
    BY <1>1, <1>3, <1>5, <2>1 DEF Standing
  <2>6. OnePermit'
    BY <1>1, <1>2, <2>1 DEF OnePermit
  <2>7. NoLostWakeup'
    <3>1. Woken' \in SUBSET AllThreads
      BY <1>3, <1>4, <2>1 DEF Woken
    <3>2. Cardinality(Woken') \in Nat
      BY <1>3, <3>1, ThreadSets
    <3> QED
      BY <1>2, <3>2 DEF NoLostWakeup
  <2>8. HeldTickAnswered'
    <3> SUFFICES ASSUME inService'
                 PROVE  \E t \in ToSet(readyList') : t # cur' /\ point'[t] = "tick"
      BY DEF HeldTickAnswered
    <3>1. PICK t \in ToSet(readyList) : t # cur /\ point[t] = "tick"
      BY <1>1, <2>1 DEF HeldTickAnswered
    <3>2. t # cur' /\ t \in ToSet(rl) /\ point'[t] = "tick"
      BY <1>3, <1>4, <2>1, <3>1
    <3> QED
      BY <2>1, <3>2
  <2> QED
    BY <1>7, <2>2, <2>3, <2>4, <2>5, <2>6, <2>7, <2>8 DEF ThreadsInv
<1> QED
  BY <1>8, <1>9

\* A thread that leaves thread_sem_wait takes one permit, and when it had been
\* woken for it one woken thread less is there.
LEMMA TakeInv ==
    ASSUME ThreadsInv, mode = "ok", holds[cur] = 0, Take,
           saved' \in [AllThreads -> BOOLEAN], intr' \in BOOLEAN,
           UNCHANGED <<cur, readyList, waitList, status, ticks, signals, inService,
                       pageZero, mode>>
    PROVE  ThreadsInv'
<1> USE ThreadsAssumption
<1>1. /\ TypeOK /\ OneListPerThread /\ OthersReady /\ Standing /\ OnePermit
      /\ NoLostWakeup /\ PermitsRespected /\ HeldTickAnswered
  BY DEF ThreadsInv
<1>2. /\ value > 0 /\ value' = value - 1 /\ holds' = [holds EXCEPT ![cur] = @ + 1]
      /\ point' = [point EXCEPT ![cur] = "run"]
  BY DEF Take
<1>3. /\ cur \in AllThreads /\ cur \in ToSet(readyList) /\ cur \notin ToSet(waitList)
      /\ ToSet(readyList) \subseteq AllThreads /\ ToSet(waitList) \subseteq AllThreads
  BY <1>1, ListFinite DEF OneListPerThread, TypeOK
<1>4. \A x \in AllThreads : /\ point'[x] = IF x = cur THEN "run" ELSE point[x]
                            /\ holds'[x] = IF x = cur THEN 1 ELSE holds[x]
  BY <1>1, <1>2, <1>3 DEF TypeOK
<1>5. TypeOK'
  <2>1. value' \in 0..(ValueWrap - 1)
    BY <1>1, <1>2 DEF TypeOK
  <2>2. holds' \in [AllThreads -> Nat] /\ point' \in [AllThreads -> Points]
    BY <1>1, <1>2, <1>3 DEF TypeOK, Points
  <2> QED
    BY <1>1, <2>1, <2>2 DEF TypeOK
<1>6. OneListPerThread'
  <2>1. Started' = Started
    BY <1>1, <1>4 DEF Started, Standing
  <2> QED
    BY <1>1, <2>1 DEF OneListPerThread
<1>7. OthersReady' /\ Standing' /\ OnePermit'
  BY <1>1, <1>3, <1>4 DEF OthersReady, Standing, OnePermit
<1>8. NoLostWakeup'
  <2>1. Woken' = Woken \ {cur} /\ Woken \in SUBSET AllThreads
    BY <1>3, <1>4 DEF Woken
  <2>2. Cardinality(Woken \ {cur}) >= Cardinality(Woken) - 1
    <3>1. CASE cur \in Woken
      BY <1>3, <2>1, <3>1, ThreadSets
    <3>2. CASE cur \notin Woken
      <4>1. Woken \ {cur} = Woken
        BY <3>2
      <4>2. Cardinality(Woken \ {cur}) = Cardinality(Woken)
        BY <4>1
      <4>3. Cardinality(Woken) \in Nat
        BY <1>3, <2>1, ThreadSets
      <4> QED
        BY <4>2, <4>3
    <3> QED
      BY <3>1, <3>2
  <2>3. Cardinality(Woken) \in Nat /\ Cardinality(Woken \ {cur}) \in Nat /\ value \in Nat
    <3>1. Woken \ {cur} \in SUBSET AllThreads
      BY <2>1
    <3>2. Cardinality(Woken) \in Nat
      BY <1>3, <2>1, ThreadSets
    <3>3. Cardinality(Woken \ {cur}) \in Nat
      BY <1>3, <3>1, ThreadSets
    <3> QED
      BY <1>1, <3>2, <3>3 DEF TypeOK
  <2> QED
    BY <1>1, <1>2, <2>1, <2>2, <2>3 DEF NoLostWakeup
<1>9. PermitsRespected'
  <2>1. Holders' = Holders \cup {cur} /\ cur \notin Holders /\ Holders \in SUBSET AllThreads
    BY <1>3, <1>4 DEF Holders
  <2>2. Cardinality(Holders \cup {cur}) = Cardinality(Holders) + 1 /\ Cardinality(Holders) \in Nat
    BY <1>3, <2>1, ThreadSets
  <2>3. Cardinality(Holders) + value <= InitValue + signals /\ value \in Nat
    BY <1>1 DEF PermitsRespected, Holders, TypeOK
  <2>4. Cardinality(Holders') + value' <= InitValue + signals
    BY <1>2, <2>1, <2>2, <2>3
  <2> QED
    BY <2>4 DEF PermitsRespected, Holders
<1>10. HeldTickAnswered'
  BY <1>1, <1>3, <1>4 DEF HeldTickAnswered
<1> QED
  BY <1>5, <1>6, <1>7, <1>8, <1>9, <1>10 DEF ThreadsInv

\* thread_sem_post moves the first waiter to the ready list, in the loop where
\* it tests the value, so that one woken thread more is there for the permit.
LEMMA PostInv ==
    ASSUME ThreadsInv, thread_sem_post
    PROVE  ThreadsInv'
<1> USE ThreadsAssumption
<1>1. /\ TypeOK /\ OneListPerThread /\ OthersReady /\ Standing /\ OnePermit
      /\ NoLostWakeup /\ PermitsRespected /\ HeldTickAnswered
  BY DEF ThreadsInv
<1>2. /\ mode = "ok" /\ point[cur] = "run" /\ MayPost /\ Wake
      /\ value' = (value + 1) % ValueWrap
      /\ holds' = [holds EXCEPT ![cur] = IF @ > 0 THEN @ - 1 ELSE @]
      /\ signals' = IF holds[cur] > 0 THEN signals ELSE signals + 1
      /\ UNCHANGED <<cur, ticks, point, saved, intr, inService, pageZero, mode>>
  BY DEF thread_sem_post
<1>3. /\ cur \in AllThreads /\ cur \in ToSet(readyList) /\ cur \notin ToSet(waitList)
      /\ ToSet(readyList) \subseteq AllThreads /\ ToSet(waitList) \subseteq AllThreads
  BY <1>1, <1>2, ListFinite DEF OneListPerThread, TypeOK
<1>4. value' \in 0..(ValueWrap - 1) /\ value' <= value + 1 /\ value \in Nat
  <2>1. value \in Nat /\ value + 1 <= ValueWrap /\ ValueWrap \in Nat /\ ValueWrap > 0
    BY <1>1 DEF TypeOK
  <2>2. (value + 1) % ValueWrap \in 0..(ValueWrap - 1)
    BY <2>1
  <2>3. CASE value + 1 = ValueWrap
    BY <1>2, <2>1, <2>2, <2>3
  <2>4. CASE value + 1 < ValueWrap
    <3>1. (value + 1) % ValueWrap = value + 1
      BY <2>1, <2>4
    <3> QED
      BY <1>2, <2>1, <2>4, <3>1
  <2> QED
    BY <2>1, <2>3, <2>4
<1>5. holds[cur] \in {0, 1}
      /\ \A x \in AllThreads : holds'[x] = IF x = cur THEN 0 ELSE holds[x]
  <2>1. holds \in [AllThreads -> Nat] /\ holds[cur] \in {0, 1}
    BY <1>1, <1>3 DEF OnePermit, TypeOK
  <2> QED
    BY <1>2, <1>3, <2>1
<1>6. holds' \in [AllThreads -> Nat] /\ signals' \in 0..MaxSignals
  BY <1>1, <1>2, <1>3, <1>5 DEF TypeOK, MayPost
<1>7. OnePermit'
  BY <1>1, <1>2, <1>5 DEF OnePermit
<1>8. PermitsRespected'
  <2>1. Holders' = Holders \ {cur} /\ Holders \in SUBSET AllThreads
    BY <1>5 DEF Holders
  <2>2. /\ Cardinality(Holders) \in Nat
        /\ cur \in Holders => Cardinality(Holders \ {cur}) = Cardinality(Holders) - 1
    BY <1>3, <2>1, ThreadSets
  <2>3. Cardinality(Holders) + value <= InitValue + signals /\ signals \in Nat
    BY <1>1 DEF PermitsRespected, Holders, TypeOK
  <2>4. CASE holds[cur] > 0
    <3>1. cur \in Holders /\ signals' = signals
      BY <1>2, <1>3, <2>4 DEF Holders
    <3>2. Cardinality(Holders') = Cardinality(Holders) - 1
      BY <2>1, <2>2, <3>1
    <3>3. Cardinality(Holders') + value' <= InitValue + signals'
      BY <1>4, <2>2, <2>3, <3>1, <3>2
    <3> QED
      BY <3>3 DEF PermitsRespected, Holders
  <2>5. CASE ~ (holds[cur] > 0)
    <3>1. cur \notin Holders /\ signals' = signals + 1
      BY <1>2, <2>5 DEF Holders
    <3>2. Holders' = Holders
      BY <2>1, <3>1
    <3>3. Cardinality(Holders') = Cardinality(Holders)
      BY <3>2
    <3>4. Cardinality(Holders') + value' <= InitValue + signals'
      BY <1>4, <2>2, <2>3, <3>1, <3>3
    <3> QED
      BY <3>4 DEF PermitsRespected, Holders
  <2> QED
    BY <2>4, <2>5
<1>9. CASE waitList = << >>
  <2>1. UNCHANGED <<waitList, readyList, status>>
    BY <1>2, <1>9 DEF Wake
  <2>2. TypeOK'
    BY <1>1, <1>2, <1>4, <1>6, <2>1 DEF TypeOK
  <2>3. OneListPerThread' /\ OthersReady' /\ Standing' /\ HeldTickAnswered'
    BY <1>1, <1>2, <2>1 DEF OneListPerThread, Started, OthersReady, Standing,
       HeldTickAnswered
  <2>4. NoLostWakeup'
    BY <1>9, <2>1 DEF NoLostWakeup
  <2> QED
    BY <1>7, <1>8, <2>2, <2>3, <2>4 DEF ThreadsInv
<1>10. CASE waitList # << >>
  <2> DEFINE h == Head(waitList)
  <2>1. h \in AllThreads /\ h \in ToSet(waitList)
    <3>1. waitList \in Seq(AllThreads)
      BY <1>1 DEF TypeOK
    <3>2. 1 \in DOMAIN waitList /\ waitList[1] = h /\ h \in AllThreads
      BY <1>10, <3>1
    <3> QED
      BY <3>2 DEF ToSet
  <2>2. /\ waitList' = klist_remove(waitList, h)
        /\ readyList' = thread_push_ready(readyList, h)
        /\ status' = [status EXCEPT ![h] = "READY"]
    BY <1>2, <1>10 DEF Wake
  <2> HIDE DEF h
  <2>3. h # cur /\ h \notin ToSet(readyList) /\ point[h] = "loop"
    BY <1>1, <1>2, <1>3, <2>1 DEF OneListPerThread, Standing
  <2>4. /\ waitList' \in Seq(AllThreads) /\ IsInjective(waitList')
        /\ ToSet(waitList') = ToSet(waitList) \ {h}
    BY <1>1, <1>2, <2>1, <2>2, RemoveUnlinks DEF TypeOK, OneListPerThread
  <2>5. /\ readyList' \in Seq(AllThreads) /\ IsInjective(readyList')
        /\ ToSet(readyList') = ToSet(readyList) \cup {h}
    BY <1>1, <1>2, <2>1, <2>2, <2>3, JoinFacts DEF TypeOK, OneListPerThread
  <2>6. TypeOK'
    <3>1. status' \in [AllThreads -> Statuses]
      BY <1>1, <2>1, <2>2 DEF TypeOK, Statuses
    <3> QED
      BY <1>1, <1>2, <1>4, <1>6, <2>4, <2>5, <3>1 DEF TypeOK
  <2>7. OneListPerThread'
    <3>1. Started' = Started
      BY <1>2 DEF Started
    <3> QED
      BY <1>1, <1>2, <1>3, <2>1, <2>4, <2>5, <3>1 DEF OneListPerThread
  <2>8. OthersReady' /\ Standing'
    BY <1>1, <1>2, <1>3, <2>1, <2>2, <2>4, <2>5 DEF OthersReady, Standing, TypeOK
  <2>9. NoLostWakeup'
    <3>1. h \notin Woken /\ Woken \in SUBSET AllThreads
      BY <1>3, <2>3 DEF Woken
    <3>2. \A x \in AllThreads : x \in Woken' <=> x \in Woken \cup {h}
      BY <1>2, <1>3, <2>1, <2>3, <2>5 DEF Woken
    <3>3. Woken' \subseteq AllThreads
      BY <1>2, <1>3, <2>1, <2>5 DEF Woken
    <3>4. Woken' = Woken \cup {h}
      BY <2>1, <3>1, <3>2, <3>3
    <3>5. Cardinality(Woken \cup {h}) = Cardinality(Woken) + 1 /\ Cardinality(Woken) \in Nat
      BY <2>1, <3>1, ThreadSets
    <3>6. Cardinality(Woken) >= value
      BY <1>1, <1>10 DEF NoLostWakeup
    <3>7. Cardinality(Woken') >= value'
      BY <1>4, <3>4, <3>5, <3>6
    <3> QED
      BY <3>7 DEF NoLostWakeup
  <2>10. HeldTickAnswered'
    BY <1>1, <1>2, <2>5 DEF HeldTickAnswered
  <2> QED
    BY <1>7, <1>8, <2>6, <2>7, <2>8, <2>9, <2>10 DEF ThreadsInv
<1> QED
  BY <1>9, <1>10

\* The tick changes which thread runs, not which threads are ready or woken.
LEMMA TickInv ==
    ASSUME ThreadsInv, thread_time_ticks
    PROVE  ThreadsInv'
<1> USE ThreadsAssumption
<1>1. /\ TypeOK /\ OneListPerThread /\ OthersReady /\ Standing /\ OnePermit
      /\ NoLostWakeup /\ PermitsRespected /\ HeldTickAnswered
  BY DEF ThreadsInv
<1>2. /\ mode = "ok" /\ intr /\ ~inService /\ cur \in AllThreads /\ point[cur] = "run"
      /\ UNCHANGED <<waitList, value, saved, holds, signals, pageZero>>
  BY <1>1 DEF thread_time_ticks, Standing, TypeOK
<1>3. CASE ticks[cur] > 1
  <2>1. ticks' = [ticks EXCEPT ![cur] = @ - 1]
        /\ UNCHANGED <<cur, readyList, status, point, intr, inService, mode>>
    <3>1. ticks[cur] \in 1..Ticks
      BY <1>1, <1>2 DEF TypeOK
    <3>2. ~ (ticks[cur] <= 1)
      BY <1>3, <3>1
    <3> QED
      BY <3>2 DEF thread_time_ticks
  <2>2. ticks' \in [AllThreads -> 1..Ticks]
    BY <1>1, <1>2, <1>3, <2>1 DEF TypeOK
  <2>3. TypeOK'
    BY <1>1, <1>2, <2>1, <2>2 DEF TypeOK
  <2> QED
    BY <1>1, <1>2, <2>1, <2>3 DEF ThreadsInv, OneListPerThread, Started, OthersReady, Standing,
       OnePermit, NoLostWakeup, Woken, PermitsRespected, HeldTickAnswered
<1>4. CASE ~ (ticks[cur] > 1)
  <2> DEFINE rl == thread_set_ready(readyList, cur)
             st == [status EXCEPT ![cur] = "READY"]
  <2>1. /\ ticks' = [ticks EXCEPT ![cur] = Ticks]
        /\ thread_dispatch(rl, st, "tick")
    BY <1>4 DEF thread_time_ticks
  <2>2. /\ rl \in Seq(AllThreads) /\ rl # << >> /\ IsInjective(rl)
        /\ ToSet(rl) = ToSet(readyList) /\ ToSet(readyList) \subseteq AllThreads
        /\ ToSet(waitList) \subseteq AllThreads
        /\ cur \in ToSet(readyList) /\ cur \notin ToSet(waitList)
    BY <1>1, <1>2, RequeueFacts, ListFinite DEF TypeOK, OneListPerThread
  <2>3. st \in [AllThreads -> Statuses] /\ \A t \in ToSet(rl) : st[t] = "READY"
    BY <1>1, <1>2, <2>2 DEF TypeOK, Statuses, OthersReady
  <2> HIDE DEF rl, st
  <2>4. /\ readyList' = rl /\ mode' = mode
        /\ cur' \in AllThreads /\ cur' \in ToSet(rl)
        /\ status' \in [AllThreads -> Statuses]
        /\ \A t \in ToSet(rl) : t # cur' => status'[t] = "READY"
        /\ point' \in [AllThreads -> Points] /\ point'[cur'] \in {"run", "loop"}
        /\ \A t \in AllThreads : t # cur /\ t # cur' => point'[t] = point[t]
        /\ \A t \in AllThreads : t # cur => (point'[t] = "loop" <=> point[t] = "loop")
        /\ point'[cur] # "loop" /\ point'[cur] # "none"
        /\ intr' \in BOOLEAN /\ (point'[cur'] = "loop" => ~intr')
        /\ inService' \in BOOLEAN
        /\ inService' => cur' # cur /\ point'[cur] = "tick"
    BY <1>1, <2>1, <2>2, <2>3, DispatchFacts
  <2>5. \A t \in AllThreads : point'[t] = "loop" <=> point[t] = "loop"
    BY <1>2, <2>4
  <2>6. TypeOK'
    <3>1. ticks' \in [AllThreads -> 1..Ticks]
      BY <1>1, <1>2, <2>1 DEF TypeOK
    <3> QED
      BY <1>1, <1>2, <2>2, <2>4, <3>1 DEF TypeOK
  <2>7. OneListPerThread'
    <3>1. Started' = Started
      <4>1. cur \in Started /\ cur' \in Started
        BY <1>1, <1>2, <2>2, <2>4 DEF OneListPerThread
      <4>2. \A t \in AllThreads : point'[t] = "none" <=> point[t] = "none"
        BY <2>4, <4>1 DEF Started
      <4> QED
        BY <4>2 DEF Started
    <3> QED
      BY <1>1, <1>2, <2>2, <2>4, <3>1 DEF OneListPerThread
  <2>8. OthersReady' /\ OnePermit'
    BY <1>1, <1>2, <2>4, <2>5 DEF OthersReady, OnePermit
  <2>9. Standing'
    BY <1>1, <1>2, <2>2, <2>4, <2>5 DEF Standing
  <2>10. NoLostWakeup' /\ PermitsRespected'
    <3>1. \A x \in AllThreads : x \in Woken' <=> x \in Woken
      BY <2>2, <2>4, <2>5 DEF Woken
    <3>2. Woken' \subseteq AllThreads /\ Woken \subseteq AllThreads
      BY <2>2, <2>4 DEF Woken
    <3>3. Woken' = Woken
      BY <3>1, <3>2
    <3> QED
      BY <1>1, <1>2, <3>3 DEF NoLostWakeup, PermitsRespected
  <2>11. HeldTickAnswered'
    BY <2>2, <2>4 DEF HeldTickAnswered
  <2> QED
    BY <2>6, <2>7, <2>8, <2>9, <2>10, <2>11 DEF ThreadsInv
<1> QED
  BY <1>3, <1>4

\* Every step of the threads keeps the invariant.
LEMMA ThreadsStep == ThreadsInv /\ [Next]_vars => ThreadsInv'
<1> SUFFICES ASSUME ThreadsInv, [Next]_vars
             PROVE  ThreadsInv'
  OBVIOUS
<1>1. TypeOK /\ OnePermit
  BY DEF ThreadsInv
<1>2. ASSUME NEW t \in Workers, thread_start(t)
      PROVE  ThreadsInv'
  <2>1. /\ mode = "ok" /\ point[cur] = "run" /\ point[t] = "none"
        /\ UNCHANGED <<cur, waitList, value, ticks, saved, holds, signals, intr, inService>>
    BY <1>2 DEF thread_start
  <2>2. CASE /\ UNCHANGED pageZero \/ pageZero' = TRUE
             /\ readyList' = thread_set_ready(readyList, t)
             /\ status' = [status EXCEPT ![t] = "READY"]
             /\ point' = [point EXCEPT ![t] = "start"]
             /\ UNCHANGED mode
    <3>1. pageZero' \in BOOLEAN
      BY <1>1, <2>2 DEF TypeOK
    <3> QED
      BY <2>1, <2>2, <3>1, StartInv
  <2>3. CASE mode' = "corrupt" /\ UNCHANGED <<pageZero, readyList, status, point>>
    BY <2>1, <2>3, OverwriteInv
  <2> QED
    BY <1>2, <2>2, <2>3 DEF thread_start
<1>3. CASE thread_sem_wait
  <2>1. mode = "ok" /\ holds[cur] = 0 /\ saved' \in [AllThreads -> BOOLEAN]
    BY <1>1, <1>3 DEF thread_sem_wait, TypeOK
  <2>2. CASE Block
    BY <2>1, <2>2, BlockInv
  <2>3. CASE Take /\ UNCHANGED <<cur, readyList, waitList, status, ticks, signals, intr,
                                  inService, pageZero, mode>>
    <3>1. intr' \in BOOLEAN
      BY <1>1, <2>3 DEF TypeOK
    <3> QED
      BY <2>1, <2>3, <3>1, TakeInv
  <2> QED
    BY <1>3, <2>2, <2>3 DEF thread_sem_wait
<1>4. CASE RetryWait
  <2>1. mode = "ok" /\ holds[cur] = 0 /\ saved' \in [AllThreads -> BOOLEAN]
    BY <1>1, <1>4 DEF RetryWait, TypeOK, OnePermit
  <2>2. CASE Block
    BY <2>1, <2>2, BlockInv
  <2>3. CASE Take /\ intr' = saved[cur]
             /\ UNCHANGED <<cur, readyList, waitList, status, ticks, signals, inService,
                             pageZero, mode>>
    <3>1. intr' \in BOOLEAN
      BY <1>1, <2>3 DEF TypeOK
    <3> QED
      BY <2>1, <2>3, <3>1, TakeInv
  <2> QED
    BY <1>4, <2>2, <2>3 DEF RetryWait
<1>5. CASE thread_sem_post
  BY <1>5, PostInv
<1>6. CASE thread_time_ticks
  BY <1>6, TickInv
<1>7. CASE UNCHANGED vars
  BY <1>7 DEF vars, ThreadsInv, TypeOK, OneListPerThread, Started, OthersReady, Standing,
     OnePermit, NoLostWakeup, Woken, PermitsRespected, HeldTickAnswered
<1> QED
  BY <1>2, <1>3, <1>4, <1>5, <1>6, <1>7 DEF Next

-----------------------------------------------------------------------------
(* The theorems.                                                           *)

\* ThreadsInv holds in every state.
THEOREM ThreadsInvariant == Spec => []ThreadsInv
BY ThreadsInit, ThreadsStep, PTL DEF Spec

\* The state of the threads has its type in every state.
THEOREM ThreadsTypeCorrect == Spec => []TypeOK
<1>1. ThreadsInv => TypeOK
  BY DEF ThreadsInv
<1> QED
  BY <1>1, ThreadsInvariant, PTL

\* A thread is linked into the ready list or the semaphore's list, never both,
\* until the last ready thread blocks or a second one is built at address 0.
THEOREM ThreadsOnOneList == Spec => []OneListPerThread
<1>1. ThreadsInv => OneListPerThread
  BY DEF ThreadsInv
<1> QED
  BY <1>1, ThreadsInvariant, PTL

\* thread_sem_post wakes a thread for every permit while threads wait, whatever
\* newcomers take and whenever the woken threads run.
THEOREM WakeupsAreKept == Spec => []NoLostWakeup
<1>1. ThreadsInv => NoLostWakeup
  BY DEF ThreadsInv
<1> QED
  BY <1>1, ThreadsInvariant, PTL

\* thread_sem_wait lets in no more threads than the initial value and the
\* signals allow.
THEOREM PermitsAreRespected == Spec => []PermitsRespected
<1>1. ThreadsInv => PermitsRespected
  BY DEF ThreadsInv
<1> QED
  BY <1>1, ThreadsInvariant, PTL

\* While pic_send_eoi is outstanding, a ready thread stands in the timer handler
\* and sends it when it is switched to, however threads block and wake.
THEOREM HeldTickIsAnswered == Spec => []HeldTickAnswered
<1>1. ThreadsInv => HeldTickAnswered
  BY DEF ThreadsInv
<1> QED
  BY <1>1, ThreadsInvariant, PTL

-----------------------------------------------------------------------------
(* The order of the lists.                                                 *)

\* s stands in front of u on the list.
Before(list, s, u) == \E a, b \in DOMAIN list : a < b /\ list[a] = s /\ list[b] = u

\* A node that joins at the back or at the front changes no order,
LEMMA JoinKeepsOrder ==
    ASSUME NEW S, NEW list \in Seq(S), NEW x \in S, NEW s, NEW u, Before(list, s, u)
    PROVE  Before(klist_append(list, x), s, u) /\ Before(klist_push(list, x), s, u)
<1>1. PICK a \in DOMAIN list, b \in DOMAIN list : a < b /\ list[a] = s /\ list[b] = u
  BY DEF Before
<1>2. DOMAIN list = 1..Len(list) /\ Len(list) \in Nat
  OBVIOUS
<1>3. Before(klist_append(list, x), s, u)
  <2> DEFINE r == Append(list, x)
  <2>1. DOMAIN r = 1..(Len(list) + 1) /\ \A k \in 1..Len(list) : r[k] = list[k]
    OBVIOUS
  <2>2. a \in DOMAIN r /\ b \in DOMAIN r /\ r[a] = s /\ r[b] = u
    BY <1>1, <1>2, <2>1
  <2> HIDE DEF r
  <2>3. Before(r, s, u)
    BY <1>1, <2>2 DEF Before
  <2> QED
    BY <2>3 DEF r, klist_append
<1>4. Before(klist_push(list, x), s, u)
  <2> DEFINE r == <<x>> \o list
  <2>1. DOMAIN r = 1..(Len(list) + 1) /\ \A k \in 1..Len(list) : r[k + 1] = list[k]
    OBVIOUS
  <2>2. /\ a + 1 \in DOMAIN r /\ b + 1 \in DOMAIN r
        /\ r[a + 1] = s /\ r[b + 1] = u /\ a + 1 < b + 1
    BY <1>1, <1>2, <2>1
  <2> HIDE DEF r
  <2>3. Before(r, s, u)
    BY <2>2 DEF Before
  <2> QED
    BY <2>3 DEF r, klist_push
<1> QED
  BY <1>3, <1>4

\* and one that is unlinked none among the others.
LEMMA RemoveKeepsOrder ==
    ASSUME NEW S, NEW list \in Seq(S), IsInjective(list), NEW x, NEW s, NEW u,
           s # x, u # x, Before(list, s, u)
    PROVE  Before(klist_remove(list, x), s, u)
<1>1. PICK a \in DOMAIN list, b \in DOMAIN list : a < b /\ list[a] = s /\ list[b] = u
  BY DEF Before
<1>2. DOMAIN list = 1..Len(list) /\ Len(list) \in Nat
  OBVIOUS
<1>3. CASE x \notin ToSet(list)
  BY <1>3, RemoveAbsent
<1>4. CASE x \in ToSet(list)
  <2>1. PICK i \in 1..Len(list) : list[i] = x
    BY <1>2, <1>4 DEF ToSet
  <2> DEFINE r == klist_remove(list, x)
             To(k) == IF k < i THEN k ELSE k - 1
  <2>2. /\ r \in Seq(S) /\ Len(r) = Len(list) - 1
        /\ \A k \in 1..(Len(list) - 1) : r[k] = IF k <= i - 1 THEN list[k] ELSE list[k + 1]
    BY <2>1, RemoveElements
  <2> HIDE DEF r
  <2>3. DOMAIN r = 1..(Len(list) - 1)
    BY <2>2
  <2>4. a # i /\ b # i
    BY <1>1, <2>1
  <2>5. To(a) \in DOMAIN r /\ To(b) \in DOMAIN r /\ To(a) < To(b)
    BY <1>1, <1>2, <2>3, <2>4
  <2>6. ASSUME NEW k \in 1..Len(list), k # i PROVE r[To(k)] = list[k]
    <3>1. CASE k < i
      BY <1>2, <2>2, <2>6, <3>1
    <3>2. CASE k > i
      BY <1>2, <2>2, <2>6, <3>2
    <3> QED
      BY <2>6, <3>1, <3>2
  <2>7. r[To(a)] = s /\ r[To(b)] = u
    BY <1>1, <1>2, <2>4, <2>6
  <2> HIDE DEF To
  <2> QED
    BY <2>5, <2>7 DEF Before, r
<1> QED
  BY <1>3, <1>4

\* Nobody but the running thread gives up its place: of two other ready threads
\* the one in front stays in front, and of two waiters the one that came
\* first stays in front or is woken while the other still waits.
OrderKept ==
    /\ \A s, u \in ToSet(readyList) \ {cur} :
            Before(readyList, s, u) => Before(readyList', s, u)
    /\ \A s, u \in ToSet(waitList) :
            Before(waitList, s, u) =>
                \/ Before(waitList', s, u)
                \/ s \notin ToSet(waitList') /\ u \in ToSet(waitList')

LEMMA OrderStep ==
    ASSUME ThreadsInv, [Next]_vars
    PROVE  OrderKept
<1>1. /\ readyList \in Seq(AllThreads) /\ waitList \in Seq(AllThreads)
      /\ cur \in AllThreads
  BY DEF ThreadsInv, TypeOK
<1>2. ASSUME mode = "ok"
      PROVE  /\ IsInjective(readyList) /\ IsInjective(waitList)
             /\ ToSet(readyList) \cap ToSet(waitList) = {}
             /\ ToSet(readyList) \cup ToSet(waitList) = Started
  BY <1>2 DEF ThreadsInv, OneListPerThread
<1>3. ASSUME readyList' = readyList, waitList' = waitList
      PROVE  OrderKept
  BY <1>3 DEF OrderKept
<1>4. ASSUME NEW t \in Workers, thread_start(t)
      PROVE  OrderKept
  <2>1. /\ mode = "ok" /\ waitList' = waitList
        /\ t \in AllThreads /\ t \notin ToSet(readyList)
    BY <1>2, <1>4 DEF thread_start, Started, AllThreads
  <2>2. CASE readyList' = thread_set_ready(readyList, t)
    <3>1. readyList' = klist_append(readyList, t)
      BY <1>1, <2>1, <2>2, RemoveAbsent DEF thread_set_ready
    <3> QED
      BY <1>1, <2>1, <3>1, JoinKeepsOrder DEF OrderKept
  <2>3. CASE readyList' = readyList
    BY <1>3, <2>1, <2>3
  <2> QED
    BY <1>4, <2>2, <2>3 DEF thread_start
<1>5. ASSUME mode = "ok", Block
      PROVE  OrderKept
  <2>1. waitList' = klist_append(waitList, cur) /\ readyList' = klist_remove(readyList, cur)
    BY <1>5 DEF Block, thread_dispatch
  <2>2. ASSUME NEW s \in ToSet(readyList) \ {cur}, NEW u \in ToSet(readyList) \ {cur},
               Before(readyList, s, u)
        PROVE  Before(readyList', s, u)
    BY <1>1, <1>2, <1>5, <2>1, <2>2, RemoveKeepsOrder
  <2>3. ASSUME NEW s, NEW u, Before(waitList, s, u)
        PROVE  Before(waitList', s, u)
    BY <1>1, <2>1, <2>3, JoinKeepsOrder
  <2> QED
    BY <2>2, <2>3 DEF OrderKept
<1>6. CASE thread_sem_wait \/ RetryWait
  BY <1>3, <1>5, <1>6 DEF thread_sem_wait, RetryWait
<1>7. CASE thread_sem_post
  <2>1. mode = "ok" /\ Wake
    BY <1>7 DEF thread_sem_post
  <2>2. CASE waitList # << >>
    <3> DEFINE h == Head(waitList)
    <3>1. /\ waitList' = klist_remove(waitList, h)
          /\ readyList' = thread_push_ready(readyList, h)
      BY <2>1, <2>2 DEF Wake
    <3>2. h \in AllThreads /\ 1 \in DOMAIN waitList /\ waitList[1] = h
      BY <1>1, <2>2
    <3>3. h \in ToSet(waitList) /\ h \notin ToSet(readyList)
      BY <1>2, <2>1, <3>2 DEF ToSet
    <3> HIDE DEF h
    <3>4. readyList' = klist_push(readyList, h)
      BY <1>1, <3>1, <3>3, RemoveAbsent DEF thread_push_ready
    <3>5. ToSet(waitList') = ToSet(waitList) \ {h}
      BY <1>1, <1>2, <2>1, <3>1, <3>3, RemoveUnlinks
    <3>6. ASSUME NEW s \in ToSet(waitList), NEW u \in ToSet(waitList), Before(waitList, s, u)
          PROVE  \/ Before(waitList', s, u)
                 \/ s \notin ToSet(waitList') /\ u \in ToSet(waitList')
      <4>1. u # h
        <5>1. PICK a \in DOMAIN waitList, b \in DOMAIN waitList :
                a < b /\ waitList[a] = s /\ waitList[b] = u
          BY <3>6 DEF Before
        <5>2. b # 1
          BY <1>1, <5>1
        <5> QED
          BY <1>2, <2>1, <3>2, <5>1, <5>2 DEF IsInjective
      <4>2. CASE s = h
        BY <3>5, <4>1, <4>2
      <4>3. CASE s # h
        BY <1>1, <1>2, <2>1, <3>1, <3>6, <4>1, <4>3, RemoveKeepsOrder
      <4> QED
        BY <4>2, <4>3
    <3>7. ASSUME NEW s, NEW u, Before(readyList, s, u)
          PROVE  Before(readyList', s, u)
      BY <1>1, <3>2, <3>4, <3>7, JoinKeepsOrder
    <3> QED
      BY <3>6, <3>7 DEF OrderKept
  <2> QED
    BY <1>3, <2>1, <2>2 DEF Wake
<1>8. CASE thread_time_ticks
  <2>1. mode = "ok" /\ waitList' = waitList
    BY <1>8 DEF thread_time_ticks
  <2>2. CASE readyList' = thread_set_ready(readyList, cur)
    <3> DEFINE l == klist_remove(readyList, cur)
    <3>1. l \in Seq(AllThreads)
      <4>1. CASE cur \in ToSet(readyList)
        BY <1>1, <1>2, <2>1, <4>1, RemoveUnlinks
      <4>2. CASE cur \notin ToSet(readyList)
        BY <1>1, <4>2, RemoveAbsent
      <4> QED
        BY <4>1, <4>2
    <3>2. ASSUME NEW s \in ToSet(readyList) \ {cur}, NEW u \in ToSet(readyList) \ {cur},
                 Before(readyList, s, u)
          PROVE  Before(l, s, u)
      BY <1>1, <1>2, <2>1, <3>2, RemoveKeepsOrder
    <3>3. readyList' = klist_append(l, cur)
      BY <2>2 DEF thread_set_ready
    <3> HIDE DEF l
    <3>4. ASSUME NEW s \in ToSet(readyList) \ {cur}, NEW u \in ToSet(readyList) \ {cur},
                 Before(readyList, s, u)
          PROVE  Before(readyList', s, u)
      BY <1>1, <3>1, <3>2, <3>3, <3>4, JoinKeepsOrder
    <3> QED
      BY <2>1, <3>4 DEF OrderKept
  <2> QED
    BY <1>3, <1>8, <2>1, <2>2 DEF thread_time_ticks, thread_dispatch
<1>9. CASE UNCHANGED vars
  BY <1>3, <1>9 DEF vars
<1> QED
  BY <1>4, <1>6, <1>7, <1>8, <1>9 DEF Next

\* The ready list and the semaphore's list are fair queues: only the running
\* thread goes to the back or leaves, new threads join at the back, a woken one
\* is put in front of all without changing their order, and threads are woken in
\* the order in which thread_sem_wait blocked them.
THEOREM NobodyIsOvertaken == Spec => [][OrderKept]_vars
<1>1. ThreadsInv /\ [Next]_vars => [OrderKept]_vars
  BY OrderStep
<1> QED
  BY <1>1, ThreadsInvariant, PTL DEF Spec
=============================================================================
