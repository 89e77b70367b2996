----------------------------- MODULE KListProofs -----------------------------
(***************************************************************************)
(* The pointers of klist.c, for any number of nodes: with the operations   *)
(* bracketed by irq_enter_protection and irq_leave_protection, the list    *)
(* stays well formed, and each operation is the one on sequences that the  *)
(* scheduler's model uses.                                                 *)
(***************************************************************************)
EXTENDS KList, KListSeqProofs, WellFoundedInduction

\* The k-th node of the list s, counted from the head sentinel, which is 0, to
\* the tail sentinel behind the last one.
Place(s, k) == IF k = 0 THEN HeadNode ELSE IF k <= Len(s) THEN s[k] ELSE TailNode

\* The forward pointers lead through the nodes of s.
Forward(s) == \A k \in 0..Len(s) : next[Place(s, k)] = Place(s, k + 1)

\* The backward pointers do, except the ones into the places X.
Backward(s, X) == \A k \in (0..Len(s)) \ X : prev[Place(s, k + 1)] = Place(s, k)

\* Both, and the length is counted.
Settled(s) == Backward(s, {}) /\ len = Len(s)

\* The node of an append or a push is not yet on the list.
Fresh(c, s) == node[c] \in Nodes /\ node[c] \notin ToSet(s)

\* What holds between the assignments of klist_append,
Appending(c, s) ==
    /\ pc[c] = "append1" => Fresh(c, s) /\ Settled(s)
    /\ pc[c] = "append2" => /\ Fresh(c, s) /\ Settled(s)
                            /\ next[node[c]] = TailNode /\ prev[node[c]] = prev[TailNode]
    /\ pc[c] = "append3" => /\ Len(s) > 0 /\ node[c] = s[Len(s)]
                            /\ Backward(s, {Len(s)}) /\ len = Len(s) - 1

\* of klist_push,
Pushing(c, s) ==
    /\ pc[c] = "push1" => Fresh(c, s) /\ Settled(s)
    /\ pc[c] = "push2" => /\ Fresh(c, s) /\ Settled(s)
                          /\ next[node[c]] = next[HeadNode] /\ prev[node[c]] = HeadNode
    /\ pc[c] = "push3" => /\ Fresh(c, s) /\ Backward(s, {0}) /\ len = Len(s)
                          /\ next[node[c]] = next[HeadNode] /\ prev[node[c]] = HeadNode
                          /\ prev[next[HeadNode]] = node[c]
    /\ pc[c] = "count" => Backward(s, {}) /\ len = Len(s) - 1

\* of klist_remove and klist_pop.
Removing(c, s) ==
    /\ pc[c] = "find" => /\ node[c] \in Nodes /\ Settled(s)
                         /\ temp[c] \in ToSet(s) \cup {TailNode, Null}
    /\ pc[c] = "unlink" => /\ temp[c] \in Nodes /\ len = Len(s) + 1
                           /\ \E k \in 0..Len(s) :
                                 /\ pre[c] = Place(s, k) /\ next[temp[c]] = Place(s, k + 1)
                                 /\ Backward(s, {k})
    /\ pc[c] = "pop2" => /\ Len(s) > 0 /\ len = Len(s) /\ Backward(s, {1})
                         /\ prev[Place(s, 2)] = HeadNode
    /\ pc[c] = "uncount" => Backward(s, {}) /\ len = Len(s) + 1

\* The list is s, as far as the operation under way has come.
Shape(s) ==
    /\ IsInjective(s)
    /\ Forward(s)
    /\ next[TailNode] = Null
    /\ Quiescent => Settled(s)
    /\ \A c \in Contexts : Appending(c, s) /\ Pushing(c, s) /\ Removing(c, s)

\* At most one context is inside an operation.
Alone == \A c, d \in Contexts : pc[c] # "idle" /\ pc[d] # "idle" => c = d

-----------------------------------------------------------------------------
(* The walk from the head.                                                  *)

\* The first of a nonempty set of numbers exists, and is in the set.
LEMMA Least ==
    ASSUME NEW S \in SUBSET Nat, S # {}
    PROVE  \E m \in S : \A n \in S : m <= n
<1>1. PICK x \in S : \A y \in S : ~ (<<y, x>> \in OpToRel(<, Nat))
  BY NatLessThanWellFounded, WFMin, Zenon
<1>2. ASSUME NEW y \in S
      PROVE  x <= y
  <2>1. x \in Nat /\ y \in Nat
    OBVIOUS
  <2>2. ~ (y < x)
    BY <1>1, <2>1 DEF OpToRel
  <2> QED
    BY <2>1, <2>2
<1> QED
  BY <1>2

\* The places of a list are different nodes.
LEMMA PlaceFacts ==
    ASSUME ListNodes, NEW s \in Seq(Nodes), IsInjective(s)
    PROVE  /\ Len(s) \in Nat
           /\ \A k \in 0..(Len(s) + 1) : Place(s, k) \in Linkable
           /\ \A k \in 0..Len(s) : Place(s, k) # TailNode
           /\ \A k \in 1..(Len(s) + 1) : Place(s, k) # HeadNode
           /\ \A k, l \in 0..(Len(s) + 1) : Place(s, k) = Place(s, l) => k = l
           /\ \A k \in 1..Len(s) : Place(s, k) = s[k] /\ s[k] \in Nodes
           /\ Place(s, 0) = HeadNode /\ Place(s, Len(s) + 1) = TailNode
           /\ Null \notin Linkable
<1>1. Len(s) \in Nat /\ DOMAIN s = 1..Len(s) /\ \A k \in 1..Len(s) : s[k] \in Nodes
  OBVIOUS
<1>2. /\ Place(s, 0) = HeadNode /\ Place(s, Len(s) + 1) = TailNode
      /\ \A k \in 1..Len(s) : Place(s, k) = s[k]
  BY <1>1 DEF Place
<1>3. \A k \in 1..Len(s) : s[k] # HeadNode /\ s[k] # TailNode
  BY <1>1 DEF ListNodes
<1>4. \A k \in 0..(Len(s) + 1) : k = 0 \/ k \in 1..Len(s) \/ k = Len(s) + 1
  BY <1>1
<1>5. \A k \in 0..(Len(s) + 1) : Place(s, k) \in Linkable
  BY <1>1, <1>2, <1>4 DEF Linkable, Sentinels
<1>6. \A k \in 0..Len(s) : Place(s, k) # TailNode
  BY <1>1, <1>2, <1>3 DEF ListNodes, Place
<1>7. \A k \in 1..(Len(s) + 1) : Place(s, k) # HeadNode
  BY <1>1, <1>2, <1>3 DEF ListNodes, Place
<1>8. \A k, l \in 1..Len(s) : s[k] = s[l] => k = l
  BY <1>1 DEF IsInjective
<1>9. ASSUME NEW k \in 0..(Len(s) + 1), NEW l \in 0..(Len(s) + 1),
             Place(s, k) = Place(s, l)
      PROVE  k = l
  BY <1>1, <1>2, <1>3, <1>4, <1>8, <1>9 DEF ListNodes
<1>10. Null \notin Linkable
  BY DEF ListNodes, Linkable, Sentinels
<1> QED
  BY <1>1, <1>2, <1>5, <1>6, <1>7, <1>9, <1>10

\* A walk along the forward pointers meets the nodes that these lead through.
LEMMA ChainOf ==
    ASSUME ListNodes, NEW s \in Seq(Nodes), IsInjective(s), Forward(s), next[TailNode] = Null
    PROVE  Chain = s
<1> DEFINE N == Cardinality(Nodes)
           D == 0..(N + 1)
           F == [k \in D |-> IF k <= Len(s) + 1 THEN Place(s, k) ELSE Null]
<1>1. N \in Nat /\ Len(s) \in Nat /\ Len(s) <= N
  BY ListLength, FS_CardinalityType DEF ListNodes
<1> HIDE DEF N
<1>2. F = [k \in D |-> IF k = 0 THEN HeadNode
                       ELSE IF F[k - 1] \in Linkable THEN next[F[k - 1]] ELSE Null]
  <2>1. ASSUME NEW k \in D
        PROVE  F[k] = IF k = 0 THEN HeadNode
                      ELSE IF F[k - 1] \in Linkable THEN next[F[k - 1]] ELSE Null
    <3>1. CASE k = 0
      BY <1>1, <3>1, PlaceFacts
    <3>2. CASE k \in 1..(Len(s) + 1)
      <4>1. k - 1 \in 0..Len(s) /\ k - 1 \in D /\ (k - 1) + 1 = k
        BY <1>1, <3>2
      <4>2. F[k - 1] = Place(s, k - 1) /\ F[k] = Place(s, k)
        BY <1>1, <3>2, <4>1
      <4>3. next[Place(s, k - 1)] = Place(s, k)
        BY <4>1 DEF Forward
      <4>4. Place(s, k - 1) \in Linkable
        BY <1>1, <4>1, PlaceFacts
      <4> QED
        BY <3>2, <4>2, <4>3, <4>4
    <3>3. CASE k = Len(s) + 2
      <4>1. F[k - 1] = TailNode /\ F[k] = Null /\ k # 0
        BY <1>1, <3>3, PlaceFacts
      <4> QED
        BY <4>1 DEF Linkable, Sentinels
    <3>4. CASE k > Len(s) + 2
      <4>1. F[k - 1] = Null /\ F[k] = Null /\ k # 0
        BY <1>1, <3>4
      <4> QED
        BY <4>1, PlaceFacts
    <3> QED
      BY <1>1, <3>1, <3>2, <3>3, <3>4
  <2> QED
    BY <2>1
<1> HIDE DEF F
<1>3. Along = [k \in D |-> IF k = 0 THEN HeadNode
                           ELSE IF Along[k - 1] \in Linkable THEN next[Along[k - 1]] ELSE Null]
  BY <1>2 DEF Along, N
<1>4. ASSUME NEW k \in D PROVE Along[k] = F[k]
  <2> DEFINE Bad == {l \in D : Along[l] # F[l]}
  <2>1. SUFFICES ASSUME Bad # {} PROVE FALSE
    OBVIOUS
  <2>2. PICK m \in Bad : \A l \in Bad : m <= l
    <3>1. Bad \in SUBSET Nat
      BY <1>1
    <3> QED
      BY <2>1, <3>1, Least
  <2>3. m \in D /\ Along[m] # F[m] /\ m \in Nat
    BY <1>1
  <2>4. CASE m = 0
    <3>1. Along[m] = HeadNode /\ F[m] = HeadNode
      BY <1>2, <1>3, <2>3, <2>4
    <3> QED
      BY <2>3, <3>1
  <2>5. CASE m # 0
    <3>1. m - 1 \in D /\ ~(m <= m - 1)
      BY <1>1, <2>3, <2>5
    <3>2. Along[m - 1] = F[m - 1]
      BY <2>2, <3>1
    <3>3. Along[m] = IF F[m - 1] \in Linkable THEN next[F[m - 1]] ELSE Null
      BY <1>3, <2>3, <2>5, <3>2
    <3>4. F[m] = IF F[m - 1] \in Linkable THEN next[F[m - 1]] ELSE Null
      BY <1>2, <2>3, <2>5
    <3> QED
      BY <2>3, <3>3, <3>4
  <2> QED
    BY <2>4, <2>5
<1>5. /\ DOMAIN Along = D
      /\ \A k \in 0..(Len(s) + 1) : k \in D /\ Along[k] = Place(s, k)
      /\ \A k \in D : k > Len(s) + 1 => Along[k] = Null
  BY <1>1, <1>3, <1>4 DEF F
<1>6. TailAt = {Len(s) + 1}
  <2>1. \A k \in D : Along[k] = TailNode <=> k = Len(s) + 1
    <3>1. TailNode # Null
      BY DEF ListNodes
    <3>2. \A k \in 0..Len(s) : Along[k] # TailNode
      BY <1>1, <1>5, PlaceFacts
    <3>3. Along[Len(s) + 1] = TailNode
      BY <1>1, <1>5, PlaceFacts
    <3> QED
      BY <1>1, <1>5, <3>1, <3>2, <3>3
  <2> QED
    BY <1>1, <1>5, <2>1 DEF TailAt
<1>7. Min(TailAt) - 1 = Len(s)
  <2>1. Min({Len(s) + 1}) = Len(s) + 1
    BY <1>1 DEF Min
  <2> QED
    BY <1>1, <1>6, <2>1
<1>8. Chain = [k \in 1..Len(s) |-> Along[k]]
  BY <1>6, <1>7 DEF Chain
<1>9. \A k \in 1..Len(s) : Along[k] = s[k]
  BY <1>1, <1>5, PlaceFacts
<1>10. s = [k \in 1..Len(s) |-> s[k]]
  OBVIOUS
<1> QED
  BY <1>8, <1>9, <1>10

\* The places of a list behind klist_append,
LEMMA PlaceAppend ==
    ASSUME ListNodes, NEW s \in Seq(Nodes), IsInjective(s), NEW n \in Nodes, n \notin ToSet(s)
    PROVE  LET r == klist_append(s, n)
           IN  /\ r \in Seq(Nodes) /\ IsInjective(r) /\ Len(r) = Len(s) + 1
               /\ r[Len(r)] = n
               /\ \A k \in 0..Len(s) : Place(r, k) = Place(s, k)
               /\ Place(r, Len(s) + 1) = n
<1> DEFINE r == klist_append(s, n)
<1>1. r \in Seq(Nodes) /\ IsInjective(r)
  BY AppendLinks
<1>2. /\ Len(s) \in Nat /\ Len(r) = Len(s) + 1 /\ r[Len(s) + 1] = n
      /\ \A k \in 1..Len(s) : r[k] = s[k]
  BY DEF klist_append
<1> HIDE DEF r
<1>3. \A k \in 0..Len(s) : Place(r, k) = Place(s, k)
  BY <1>2 DEF Place
<1>4. Place(r, Len(s) + 1) = n
  BY <1>2 DEF Place
<1> QED
  BY <1>1, <1>2, <1>3, <1>4 DEF r

\* behind klist_push,
LEMMA PlacePush ==
    ASSUME ListNodes, NEW s \in Seq(Nodes), IsInjective(s), NEW n \in Nodes, n \notin ToSet(s)
    PROVE  LET r == klist_push(s, n)
           IN  /\ r \in Seq(Nodes) /\ IsInjective(r) /\ Len(r) = Len(s) + 1
               /\ Place(r, 0) = HeadNode /\ Place(r, 1) = n
               /\ \A k \in 2..(Len(s) + 2) : Place(r, k) = Place(s, k - 1)
<1> DEFINE r == klist_push(s, n)
<1>1. r \in Seq(Nodes) /\ IsInjective(r)
  BY PushLinks
<1>2. /\ Len(s) \in Nat /\ Len(r) = Len(s) + 1 /\ r[1] = n
      /\ \A k \in 2..(Len(s) + 1) : r[k] = s[k - 1]
  BY DEF klist_push
<1> HIDE DEF r
<1>3. Place(r, 0) = HeadNode /\ Place(r, 1) = n
  BY <1>2 DEF Place
<1>4. \A k \in 2..(Len(s) + 2) : Place(r, k) = Place(s, k - 1)
  BY <1>2 DEF Place
<1> QED
  BY <1>1, <1>2, <1>3, <1>4 DEF r

\* and behind klist_remove of its i-th node.
LEMMA PlaceRemove ==
    ASSUME ListNodes, NEW s \in Seq(Nodes), IsInjective(s), NEW i \in 1..Len(s)
    PROVE  LET r == klist_remove(s, s[i])
           IN  /\ r \in Seq(Nodes) /\ IsInjective(r) /\ Len(r) = Len(s) - 1
               /\ ToSet(r) = ToSet(s) \ {s[i]}
               /\ \A k \in 0..(i - 1) : Place(r, k) = Place(s, k)
               /\ \A k \in i..Len(s) : Place(r, k) = Place(s, k + 1)
<1> DEFINE r == klist_remove(s, s[i])
<1>1. /\ Len(s) \in Nat /\ i \in Nat /\ 1 <= i /\ i <= Len(s)
      /\ DOMAIN s = 1..Len(s) /\ s[i] \in ToSet(s)
  BY DEF ToSet
<1>2. r \in Seq(Nodes) /\ IsInjective(r) /\ ToSet(r) = ToSet(s) \ {s[i]}
  BY <1>1, RemoveUnlinks
<1>3. /\ Len(r) = Len(s) - 1
      /\ \A k \in 1..(Len(s) - 1) : r[k] = IF k <= i - 1 THEN s[k] ELSE s[k + 1]
  BY RemoveElements
<1> HIDE DEF r
<1>5. /\ Len(r) = Len(s) - 1
      /\ \A k \in 1..(i - 1) : r[k] = s[k]
      /\ \A k \in i..(Len(s) - 1) : r[k] = s[k + 1]
  BY <1>1, <1>3
<1>6. \A k \in 0..(i - 1) : Place(r, k) = Place(s, k)
  BY <1>1, <1>5 DEF Place
<1>7. \A k \in i..Len(s) : Place(r, k) = Place(s, k + 1)
  BY <1>1, <1>5 DEF Place
<1> QED
  BY <1>2, <1>5, <1>6, <1>7 DEF r

-----------------------------------------------------------------------------
(* One context at a time.                                                   *)

\* With interrupts disabled around an operation, nobody else is inside one.
LEMMA OthersIdle ==
    ASSUME ListNodes, TypeOK, Alone, Protected, NEW c \in Contexts, pc[c] # "idle" \/ MayStart(c)
    PROVE  /\ \A d \in Contexts : d # c => pc[d] = "idle"
           /\ MayStart(c) => Quiescent
<1>1. PICK task \in Contexts : task # Handler /\ Contexts = {task, Handler}
  BY DEF ListNodes
<1>2. CASE MayStart(c)
  <2>1. \A d \in Contexts : pc[d] = "idle"
    BY <1>1, <1>2 DEF MayStart
  <2> QED
    BY <2>1 DEF Quiescent
<1>3. CASE ~MayStart(c)
  BY <1>3 DEF Alone
<1> QED
  BY <1>2, <1>3

\* A step inside an operation: what holds for the context that takes it holds.
LEMMA StepInside ==
    ASSUME ListNodes, TypeOK, NEW c \in Contexts, \A d \in Contexts : d # c => pc[d] = "idle",
           NEW l \in Labels \ {"idle"}, pc' = [pc EXCEPT ![c] = l],
           NEW s \in Seq(Nodes), IsInjective(s), Forward(s)', next'[TailNode] = Null,
           Appending(c, s)', Pushing(c, s)', Removing(c, s)'
    PROVE  Alone' /\ Shape(s)'
<1>1. pc \in [Contexts -> Labels]
  BY DEF TypeOK
<1>2. pc'[c] = l /\ \A d \in Contexts : d # c => pc'[d] = "idle"
  BY <1>1
<1>3. Alone' /\ ~Quiescent'
  BY <1>2 DEF Alone, Quiescent
<1>4. ASSUME NEW d \in Contexts
      PROVE  Appending(d, s)' /\ Pushing(d, s)' /\ Removing(d, s)'
  <2>1. CASE d = c
    BY <2>1
  <2>2. CASE d # c
    BY <1>2, <2>2 DEF Appending, Pushing, Removing
  <2> QED
    BY <2>1, <2>2
<1> QED
  BY <1>3, <1>4 DEF Shape

\* A return: the list must be whole and counted.
LEMMA StepReturns ==
    ASSUME ListNodes, TypeOK, NEW c \in Contexts, \A d \in Contexts : d # c => pc[d] = "idle",
           Return(c), UNCHANGED <<next, prev>>,
           NEW s \in Seq(Nodes), Shape(s), Backward(s, {}), len' = Len(s)
    PROVE  TypeOK' /\ Alone' /\ Shape(s)'
<1>1. /\ pc \in [Contexts -> Labels] /\ pc' = [pc EXCEPT ![c] = "idle"]
      /\ Len(s) \in Nat
  BY DEF TypeOK, Return, Goto
<1>2. \A d \in Contexts : pc'[d] = "idle"
  BY <1>1
<1>3. TypeOK'
  <2>1. pc' \in [Contexts -> Labels]
    BY <1>1 DEF Labels
  <2>2. node' \in [Contexts -> Nodes \cup {Null}]
    BY DEF TypeOK, Return
  <2>3. temp' \in [Contexts -> Linkable \cup {Null}] /\ pre' \in [Contexts -> Linkable \cup {Null}]
    BY DEF TypeOK, Return
  <2> QED
    BY <1>1, <2>1, <2>2, <2>3 DEF TypeOK
<1>4. Forward(s)' /\ next'[TailNode] = Null /\ Backward(s, {})'
  BY DEF Shape, Forward, Backward
<1> QED
  BY <1>2, <1>3, <1>4 DEF Shape, Alone, Quiescent, Settled, Appending, Pushing, Removing

\* A node that is not on the list is at none of its places.
LEMMA FreshApart ==
    ASSUME ListNodes, NEW s \in Seq(Nodes), IsInjective(s), NEW n \in Nodes, n \notin ToSet(s)
    PROVE  \A k \in 0..(Len(s) + 1) : Place(s, k) # n
<1>1. Len(s) \in Nat /\ DOMAIN s = 1..Len(s)
  OBVIOUS
<1>2. \A k \in 1..Len(s) : s[k] # n
  BY <1>1 DEF ToSet
<1> QED
  BY <1>1, <1>2 DEF ListNodes, Place

-----------------------------------------------------------------------------
(* klist_append.                                                            *)

\* The call of an operation, from the idle state of every context.
LEMMA CallShape ==
    ASSUME ListNodes, TypeOK, Alone, Protected, NEW s \in Seq(Nodes), Shape(s),
           NEW c \in Contexts, NEW n \in Nodes,
           NEW label \in {"append1", "push1", "find"}, Call(c, n, label)
    PROVE  TypeOK' /\ Alone' /\ Shape(s)'
<1>1. /\ \A d \in Contexts : d # c => pc[d] = "idle"
      /\ Quiescent
  BY OthersIdle DEF Call
<1>2. /\ pc' = [pc EXCEPT ![c] = label] /\ node' = [node EXCEPT ![c] = n]
      /\ temp' = [temp EXCEPT ![c] = IF label = "find" THEN next[HeadNode] ELSE Null]
      /\ UNCHANGED <<next, prev, len, pre>>
  BY DEF Call
<1>3. Settled(s) /\ IsInjective(s) /\ Forward(s) /\ next[TailNode] = Null
  BY <1>1 DEF Shape
<1>4. label # "find" => n \notin ToSet(s)
  <2>1. Chain = s
    BY <1>3, ChainOf
  <2> QED
    BY <2>1 DEF Call, Linked, ToSet
<1>5. next[HeadNode] \in ToSet(s) \cup {TailNode}
  <2>1. next[HeadNode] = Place(s, 1) /\ Len(s) \in Nat
    BY <1>3, PlaceFacts DEF Forward
  <2>2. DOMAIN s = 1..Len(s)
    OBVIOUS
  <2> QED
    BY <2>1, <2>2 DEF Place, ToSet
<1>6. TypeOK'
  <2>1. HeadNode \in Linkable /\ next[HeadNode] \in Linkable \cup {Null}
    BY DEF TypeOK, Linkable, Sentinels
  <2>2. pc' \in [Contexts -> Labels]
    BY <1>2 DEF TypeOK, Labels
  <2>3. temp' \in [Contexts -> Linkable \cup {Null}]
    BY <1>2, <2>1 DEF TypeOK
  <2>4. node' \in [Contexts -> Nodes \cup {Null}]
    BY <1>2 DEF TypeOK
  <2> QED
    BY <1>2, <2>2, <2>3, <2>4 DEF TypeOK
<1>7. pc'[c] = label /\ node'[c] = n /\ (label = "find" => temp'[c] = next[HeadNode])
  BY <1>2 DEF TypeOK
<1>8. Forward(s)' /\ next'[TailNode] = Null /\ Settled(s)'
  BY <1>2, <1>3 DEF Forward, Settled, Backward
<1>9. Appending(c, s)' /\ Pushing(c, s)'
  BY <1>4, <1>7, <1>8 DEF Appending, Pushing, Fresh
<1>10. Removing(c, s)'
  BY <1>5, <1>7, <1>8 DEF Removing
<1> QED
  BY <1>1, <1>2, <1>3, <1>6, <1>8, <1>9, <1>10, StepInside DEF Labels

\* The new node's own pointers, of klist_append.
LEMMA AppendLinkShape ==
    ASSUME ListNodes, TypeOK, Alone, Protected, NEW s \in Seq(Nodes), Shape(s),
           NEW c \in Contexts, AppendLink(c)
    PROVE  TypeOK' /\ Alone' /\ Shape(s)'
<1>1. /\ pc[c] = "append1" /\ pc' = [pc EXCEPT ![c] = "append2"]
      /\ next' = [next EXCEPT ![node[c]] = TailNode]
      /\ prev' = [prev EXCEPT ![node[c]] = prev[TailNode]]
      /\ UNCHANGED <<len, node, temp, pre>>
  BY DEF AppendLink, At, Goto
<1>2. \A d \in Contexts : d # c => pc[d] = "idle"
  BY <1>1, OthersIdle
<1>3. /\ IsInjective(s) /\ Forward(s) /\ next[TailNode] = Null /\ Settled(s)
      /\ node[c] \in Nodes /\ node[c] \notin ToSet(s)
  BY <1>1 DEF Shape, Appending, Fresh
<1>4. /\ Len(s) \in Nat
      /\ \A k \in 0..(Len(s) + 1) : Place(s, k) # node[c] /\ Place(s, k) \in Linkable
      /\ Place(s, Len(s) + 1) = TailNode /\ TailNode # node[c]
  BY <1>3, FreshApart, PlaceFacts DEF ListNodes
<1>5. node[c] \in Linkable /\ TailNode \in Linkable
  BY <1>3 DEF Linkable, Sentinels
<1>6. TypeOK'
  <2>1. next' \in [Linkable -> Linkable \cup {Null}] /\ prev' \in [Linkable -> Linkable \cup {Null}]
    BY <1>1, <1>5 DEF TypeOK
  <2>2. pc' \in [Contexts -> Labels]
    BY <1>1 DEF TypeOK, Labels
  <2> QED
    BY <1>1, <2>1, <2>2 DEF TypeOK
<1>7. /\ \A m \in Linkable : m # node[c] => next'[m] = next[m] /\ prev'[m] = prev[m]
      /\ next'[node[c]] = TailNode /\ prev'[node[c]] = prev[TailNode]
  BY <1>1, <1>5 DEF TypeOK
<1>8. Forward(s)' /\ next'[TailNode] = Null
  BY <1>3, <1>4, <1>5, <1>7 DEF Forward
<1>9. Settled(s)'
  BY <1>1, <1>3, <1>4, <1>7 DEF Settled, Backward
<1>10. pc'[c] = "append2"
  BY <1>1 DEF TypeOK
<1>11. Appending(c, s)' /\ Pushing(c, s)' /\ Removing(c, s)'
  BY <1>1, <1>3, <1>4, <1>5, <1>7, <1>9, <1>10 DEF Appending, Pushing, Removing, Fresh
<1> QED
  BY <1>1, <1>2, <1>3, <1>6, <1>8, <1>11, StepInside DEF Labels

\* The node becomes the last of the list.
LEMMA AppendForwardShape ==
    ASSUME ListNodes, TypeOK, Alone, Protected, NEW s \in Seq(Nodes), Shape(s),
           NEW c \in Contexts, AppendForward(c)
    PROVE  /\ TypeOK' /\ Alone'
           /\ \E n \in Nodes \ ToSet(s) : Shape(klist_append(s, n))'
<1>1. /\ pc[c] = "append2" /\ pc' = [pc EXCEPT ![c] = "append3"]
      /\ next' = [next EXCEPT ![prev[TailNode]] = node[c]]
      /\ UNCHANGED <<prev, len, node, temp, pre>>
  BY DEF AppendForward, At, Goto
<1>2. \A d \in Contexts : d # c => pc[d] = "idle"
  BY <1>1, OthersIdle
<1>3. /\ IsInjective(s) /\ Forward(s) /\ next[TailNode] = Null /\ Settled(s)
      /\ node[c] \in Nodes /\ node[c] \notin ToSet(s)
      /\ next[node[c]] = TailNode /\ prev[node[c]] = prev[TailNode]
  BY <1>1 DEF Shape, Appending, Fresh
<1>4. PICK n \in Nodes \ ToSet(s) : n = node[c]
  BY <1>3
<1>5. PICK r \in Seq(Nodes) :
         /\ r = klist_append(s, n) /\ IsInjective(r) /\ Len(r) = Len(s) + 1
         /\ r[Len(r)] = n
         /\ \A k \in 0..Len(s) : Place(r, k) = Place(s, k)
         /\ Place(r, Len(s) + 1) = n
  BY <1>3, PlaceAppend
<1>6. /\ Len(s) \in Nat
      /\ \A k \in 0..(Len(s) + 1) : Place(s, k) # n /\ Place(s, k) \in Linkable
      /\ \A k, l \in 0..(Len(s) + 1) : Place(s, k) = Place(s, l) => k = l
      /\ Place(s, Len(s) + 1) = TailNode /\ TailNode # n
      /\ Place(r, Len(s) + 2) = TailNode
  BY <1>3, <1>5, FreshApart, PlaceFacts DEF ListNodes, Place
<1>7. prev[TailNode] = Place(s, Len(s))
  BY <1>3, <1>6 DEF Settled, Backward
<1>8. /\ next'[Place(s, Len(s))] = n
      /\ \A m \in Linkable : m # Place(s, Len(s)) => next'[m] = next[m]
  BY <1>1, <1>4, <1>6, <1>7 DEF TypeOK
<1>9. TypeOK'
  <2>1. next' \in [Linkable -> Linkable \cup {Null}]
    BY <1>1, <1>3 DEF TypeOK, Linkable
  <2>2. pc' \in [Contexts -> Labels]
    BY <1>1 DEF TypeOK, Labels
  <2> QED
    BY <1>1, <2>1, <2>2 DEF TypeOK
<1>10. n \in Linkable /\ next'[n] = TailNode /\ next'[TailNode] = Null
  BY <1>3, <1>4, <1>6, <1>8 DEF Linkable, Sentinels
<1>11. Forward(r)'
  <2>1. ASSUME NEW k \in 0..Len(r) PROVE next'[Place(r, k)] = Place(r, k + 1)
    <3>1. CASE k < Len(s)
      <4>1. Place(r, k) = Place(s, k) /\ Place(r, k + 1) = Place(s, k + 1)
        BY <1>5, <1>6, <3>1
      <4>2. Place(s, k) # Place(s, Len(s)) /\ Place(s, k) \in Linkable
        BY <1>6, <3>1
      <4>3. next[Place(s, k)] = Place(s, k + 1)
        BY <1>3, <1>6, <3>1 DEF Forward
      <4> QED
        BY <1>8, <4>1, <4>2, <4>3
    <3>2. CASE k = Len(s)
      BY <1>5, <1>6, <1>8, <3>2
    <3>3. CASE k = Len(s) + 1
      BY <1>5, <1>6, <1>10, <3>3
    <3> QED
      BY <1>5, <1>6, <3>1, <3>2, <3>3
  <2> QED
    BY <2>1 DEF Forward
<1>12. Backward(r, {Len(r)})'
  <2>1. ASSUME NEW k \in (0..Len(r)) \ {Len(r)} PROVE prev[Place(r, k + 1)] = Place(r, k)
    <3>1. CASE k < Len(s)
      <4>1. Place(r, k) = Place(s, k) /\ Place(r, k + 1) = Place(s, k + 1)
        BY <1>5, <1>6, <3>1
      <4> QED
        BY <1>3, <1>6, <3>1, <4>1 DEF Settled, Backward
    <3>2. CASE k = Len(s)
      BY <1>3, <1>4, <1>5, <1>6, <1>7, <3>2
    <3> QED
      BY <1>5, <1>6, <3>1, <3>2
  <2> QED
    BY <1>1, <2>1 DEF Backward
<1>13. pc'[c] = "append3"
  BY <1>1 DEF TypeOK
<1>14. Appending(c, r)' /\ Pushing(c, r)' /\ Removing(c, r)'
  BY <1>1, <1>3, <1>4, <1>5, <1>6, <1>12, <1>13 DEF Appending, Pushing, Removing, Settled
<1>15. Alone' /\ Shape(r)'
  BY <1>1, <1>2, <1>5, <1>10, <1>11, <1>14, StepInside DEF Labels
<1> QED
  BY <1>5, <1>9, <1>15

\* The tail sentinel points back at it.
LEMMA AppendBackwardShape ==
    ASSUME ListNodes, TypeOK, Alone, Protected, NEW s \in Seq(Nodes), Shape(s),
           NEW c \in Contexts, AppendBackward(c)
    PROVE  TypeOK' /\ Alone' /\ Shape(s)'
<1>1. /\ pc[c] = "append3" /\ pc' = [pc EXCEPT ![c] = "count"]
      /\ prev' = [prev EXCEPT ![TailNode] = node[c]]
      /\ UNCHANGED <<next, len, node, temp, pre>>
  BY DEF AppendBackward, At, Goto
<1>2. \A d \in Contexts : d # c => pc[d] = "idle"
  BY <1>1, OthersIdle
<1>3. /\ IsInjective(s) /\ Forward(s) /\ next[TailNode] = Null
      /\ Len(s) > 0 /\ node[c] = s[Len(s)] /\ Backward(s, {Len(s)}) /\ len = Len(s) - 1
  BY <1>1 DEF Shape, Appending
<1>4. /\ Len(s) \in Nat /\ TailNode \in Linkable
      /\ \A k \in 0..(Len(s) + 1) : Place(s, k) \in Linkable
      /\ \A k \in 0..Len(s) : Place(s, k) # TailNode
      /\ Place(s, Len(s) + 1) = TailNode /\ Place(s, Len(s)) = s[Len(s)] /\ s[Len(s)] \in Nodes
  BY <1>3, PlaceFacts DEF Linkable, Sentinels
<1>5. /\ prev'[TailNode] = s[Len(s)]
      /\ \A m \in Linkable : m # TailNode => prev'[m] = prev[m]
  BY <1>1, <1>3, <1>4 DEF TypeOK
<1>6. TypeOK'
  <2>1. prev' \in [Linkable -> Linkable \cup {Null}]
    BY <1>1, <1>3, <1>4 DEF TypeOK, Linkable
  <2>2. pc' \in [Contexts -> Labels]
    BY <1>1 DEF TypeOK, Labels
  <2> QED
    BY <1>1, <2>1, <2>2 DEF TypeOK
<1>7. Backward(s, {})'
  <2>1. ASSUME NEW k \in 0..Len(s) PROVE prev'[Place(s, k + 1)] = Place(s, k)
    <3>1. CASE k = Len(s)
      BY <1>4, <1>5, <3>1
    <3>2. CASE k # Len(s)
      <4>1. k + 1 \in 0..Len(s)
        BY <1>4, <3>2
      <4>2. prev[Place(s, k + 1)] = Place(s, k)
        BY <1>3, <3>2 DEF Backward
      <4> QED
        BY <1>4, <1>5, <4>1, <4>2
    <3> QED
      BY <3>1, <3>2
  <2> QED
    BY <2>1 DEF Backward
<1>8. Forward(s)' /\ next'[TailNode] = Null
  BY <1>1, <1>3 DEF Forward
<1>9. pc'[c] = "count"
  BY <1>1 DEF TypeOK
<1>10. Appending(c, s)' /\ Pushing(c, s)' /\ Removing(c, s)'
  BY <1>1, <1>3, <1>7, <1>9 DEF Appending, Pushing, Removing
<1> QED
  BY <1>1, <1>2, <1>3, <1>6, <1>8, <1>10, StepInside DEF Labels

-----------------------------------------------------------------------------
(* klist_push.                                                              *)

\* The new node's own pointers, of klist_push.
LEMMA PushLinkShape ==
    ASSUME ListNodes, TypeOK, Alone, Protected, NEW s \in Seq(Nodes), Shape(s),
           NEW c \in Contexts, PushLink(c)
    PROVE  TypeOK' /\ Alone' /\ Shape(s)'
<1>1. /\ pc[c] = "push1" /\ pc' = [pc EXCEPT ![c] = "push2"]
      /\ prev' = [prev EXCEPT ![node[c]] = HeadNode]
      /\ next' = [next EXCEPT ![node[c]] = next[HeadNode]]
      /\ UNCHANGED <<len, node, temp, pre>>
  BY DEF PushLink, At, Goto
<1>2. \A d \in Contexts : d # c => pc[d] = "idle"
  BY <1>1, OthersIdle
<1>3. /\ IsInjective(s) /\ Forward(s) /\ next[TailNode] = Null /\ Settled(s)
      /\ node[c] \in Nodes /\ node[c] \notin ToSet(s)
  BY <1>1 DEF Shape, Pushing, Fresh
<1>4. /\ Len(s) \in Nat
      /\ \A k \in 0..(Len(s) + 1) : Place(s, k) # node[c] /\ Place(s, k) \in Linkable
      /\ Place(s, 0) = HeadNode /\ HeadNode # node[c] /\ TailNode # node[c]
  BY <1>3, FreshApart, PlaceFacts DEF ListNodes
<1>5. node[c] \in Linkable /\ TailNode \in Linkable /\ HeadNode \in Linkable
  BY <1>3 DEF Linkable, Sentinels
<1>6. TypeOK'
  <2>1. next' \in [Linkable -> Linkable \cup {Null}] /\ prev' \in [Linkable -> Linkable \cup {Null}]
    BY <1>1, <1>5 DEF TypeOK
  <2>2. pc' \in [Contexts -> Labels]
    BY <1>1 DEF TypeOK, Labels
  <2> QED
    BY <1>1, <2>1, <2>2 DEF TypeOK
<1>7. /\ \A m \in Linkable : m # node[c] => next'[m] = next[m] /\ prev'[m] = prev[m]
      /\ next'[node[c]] = next[HeadNode] /\ prev'[node[c]] = HeadNode
  BY <1>1, <1>5 DEF TypeOK
<1>8. Forward(s)' /\ next'[TailNode] = Null
  BY <1>3, <1>4, <1>5, <1>7 DEF Forward
<1>9. Settled(s)'
  BY <1>1, <1>3, <1>4, <1>7 DEF Settled, Backward
<1>10. pc'[c] = "push2"
  BY <1>1 DEF TypeOK
<1>11. Appending(c, s)' /\ Pushing(c, s)' /\ Removing(c, s)'
  BY <1>1, <1>3, <1>4, <1>5, <1>7, <1>9, <1>10 DEF Appending, Pushing, Removing, Fresh
<1> QED
  BY <1>1, <1>2, <1>3, <1>6, <1>8, <1>11, StepInside DEF Labels

\* The first node points back at the new one.
LEMMA PushBackwardShape ==
    ASSUME ListNodes, TypeOK, Alone, Protected, NEW s \in Seq(Nodes), Shape(s),
           NEW c \in Contexts, PushBackward(c)
    PROVE  TypeOK' /\ Alone' /\ Shape(s)'
<1>1. /\ pc[c] = "push2" /\ pc' = [pc EXCEPT ![c] = "push3"]
      /\ prev' = [prev EXCEPT ![next[HeadNode]] = node[c]]
      /\ UNCHANGED <<next, len, node, temp, pre>>
  BY DEF PushBackward, At, Goto
<1>2. \A d \in Contexts : d # c => pc[d] = "idle"
  BY <1>1, OthersIdle
<1>3. /\ IsInjective(s) /\ Forward(s) /\ next[TailNode] = Null /\ Settled(s)
      /\ node[c] \in Nodes /\ node[c] \notin ToSet(s)
      /\ next[node[c]] = next[HeadNode] /\ prev[node[c]] = HeadNode
  BY <1>1 DEF Shape, Pushing, Fresh
<1>4. /\ Len(s) \in Nat
      /\ \A k \in 0..(Len(s) + 1) : Place(s, k) # node[c] /\ Place(s, k) \in Linkable
      /\ \A k, l \in 0..(Len(s) + 1) : Place(s, k) = Place(s, l) => k = l
      /\ Place(s, 0) = HeadNode
  BY <1>3, FreshApart, PlaceFacts
<1>5. next[HeadNode] = Place(s, 1) /\ node[c] \in Linkable
  BY <1>3, <1>4 DEF Forward, Linkable
<1>6. TypeOK'
  <2>1. prev' \in [Linkable -> Linkable \cup {Null}]
    BY <1>1, <1>5 DEF TypeOK
  <2>2. pc' \in [Contexts -> Labels]
    BY <1>1 DEF TypeOK, Labels
  <2> QED
    BY <1>1, <2>1, <2>2 DEF TypeOK
<1>7. /\ \A m \in Linkable : m # Place(s, 1) => prev'[m] = prev[m]
      /\ prev'[Place(s, 1)] = node[c]
  BY <1>1, <1>4, <1>5 DEF TypeOK
<1>8. Forward(s)' /\ next'[TailNode] = Null
  BY <1>1, <1>3 DEF Forward
<1>9. Backward(s, {0})'
  <2>1. ASSUME NEW k \in (0..Len(s)) \ {0} PROVE prev'[Place(s, k + 1)] = Place(s, k)
    <3>1. Place(s, k + 1) # Place(s, 1) /\ Place(s, k + 1) \in Linkable
      BY <1>4
    <3>2. prev[Place(s, k + 1)] = Place(s, k)
      BY <1>3 DEF Settled, Backward
    <3> QED
      BY <1>7, <3>1, <3>2
  <2> QED
    BY <2>1 DEF Backward
<1>10. prev'[node[c]] = HeadNode /\ prev'[next[HeadNode]] = node[c]
  BY <1>3, <1>4, <1>5, <1>7
<1>11. pc'[c] = "push3"
  BY <1>1 DEF TypeOK
<1>12. Appending(c, s)' /\ Pushing(c, s)' /\ Removing(c, s)'
  BY <1>1, <1>3, <1>9, <1>10, <1>11 DEF Appending, Pushing, Removing, Fresh, Settled
<1> QED
  BY <1>1, <1>2, <1>3, <1>6, <1>8, <1>12, StepInside DEF Labels

\* The node becomes the first of the list.
LEMMA PushForwardShape ==
    ASSUME ListNodes, TypeOK, Alone, Protected, NEW s \in Seq(Nodes), Shape(s),
           NEW c \in Contexts, PushForward(c)
    PROVE  /\ TypeOK' /\ Alone'
           /\ \E n \in Nodes \ ToSet(s) : Shape(klist_push(s, n))'
<1>1. /\ pc[c] = "push3" /\ pc' = [pc EXCEPT ![c] = "count"]
      /\ next' = [next EXCEPT ![HeadNode] = node[c]]
      /\ UNCHANGED <<prev, len, node, temp, pre>>
  BY DEF PushForward, At, Goto
<1>2. \A d \in Contexts : d # c => pc[d] = "idle"
  BY <1>1, OthersIdle
<1>3. /\ IsInjective(s) /\ Forward(s) /\ next[TailNode] = Null
      /\ Backward(s, {0}) /\ len = Len(s)
      /\ node[c] \in Nodes /\ node[c] \notin ToSet(s)
      /\ next[node[c]] = next[HeadNode] /\ prev[node[c]] = HeadNode
      /\ prev[next[HeadNode]] = node[c]
  BY <1>1 DEF Shape, Pushing, Fresh
<1>4. PICK n \in Nodes \ ToSet(s) : n = node[c]
  BY <1>3
<1>5. PICK r \in Seq(Nodes) :
         /\ r = klist_push(s, n) /\ IsInjective(r) /\ Len(r) = Len(s) + 1
         /\ Place(r, 0) = HeadNode /\ Place(r, 1) = n
         /\ \A k \in 2..(Len(s) + 2) : Place(r, k) = Place(s, k - 1)
  BY <1>3, PlacePush
<1>6. /\ Len(s) \in Nat
      /\ \A k \in 0..(Len(s) + 1) : Place(s, k) # n /\ Place(s, k) \in Linkable
      /\ \A k \in 1..(Len(s) + 1) : Place(s, k) # HeadNode
      /\ Place(s, 0) = HeadNode /\ n # HeadNode
  BY <1>3, FreshApart, PlaceFacts DEF ListNodes
<1>7. next[HeadNode] = Place(s, 1) /\ n \in Linkable /\ HeadNode \in Linkable
  BY <1>3, <1>6 DEF Forward, Linkable, Sentinels
<1>8. /\ next'[HeadNode] = n
      /\ \A m \in Linkable : m # HeadNode => next'[m] = next[m]
  BY <1>1, <1>4, <1>7 DEF TypeOK
<1>9. TypeOK'
  <2>1. next' \in [Linkable -> Linkable \cup {Null}]
    BY <1>1, <1>4, <1>7 DEF TypeOK
  <2>2. pc' \in [Contexts -> Labels]
    BY <1>1 DEF TypeOK, Labels
  <2> QED
    BY <1>1, <2>1, <2>2 DEF TypeOK
<1>10. next'[n] = Place(s, 1) /\ next'[TailNode] = Null
  BY <1>3, <1>4, <1>6, <1>7, <1>8 DEF ListNodes, Linkable, Sentinels
<1>11. Forward(r)'
  <2>1. ASSUME NEW k \in 0..Len(r) PROVE next'[Place(r, k)] = Place(r, k + 1)
    <3>1. CASE k = 0
      BY <1>5, <1>8, <3>1
    <3>2. CASE k = 1
      <4>1. Place(r, 2) = Place(s, 1)
        BY <1>5, <1>6
      <4> QED
        BY <1>5, <1>10, <3>2, <4>1
    <3>3. CASE k > 1
      <4>1. /\ Place(r, k) = Place(s, k - 1) /\ Place(r, k + 1) = Place(s, k)
            /\ k - 1 \in 1..Len(s) /\ (k - 1) + 1 = k
        BY <1>5, <1>6, <3>3
      <4>2. next[Place(s, k - 1)] = Place(s, k)
        <5>1. k - 1 \in 0..Len(s)
          BY <1>6, <4>1
        <5> QED
          BY <1>3, <4>1, <5>1 DEF Forward
      <4>3. Place(s, k - 1) # HeadNode /\ Place(s, k - 1) \in Linkable
        BY <1>6, <4>1
      <4> QED
        BY <1>8, <4>1, <4>2, <4>3
    <3> QED
      BY <1>5, <1>6, <3>1, <3>2, <3>3
  <2> QED
    BY <2>1 DEF Forward
<1>12. Backward(r, {})'
  <2>1. ASSUME NEW k \in 0..Len(r) PROVE prev[Place(r, k + 1)] = Place(r, k)
    <3>1. CASE k = 0
      BY <1>3, <1>4, <1>5, <3>1
    <3>2. CASE k = 1
      <4>1. Place(r, 2) = Place(s, 1)
        BY <1>5, <1>6
      <4> QED
        BY <1>3, <1>4, <1>5, <1>7, <3>2, <4>1
    <3>3. CASE k > 1
      <4>1. /\ Place(r, k) = Place(s, k - 1) /\ Place(r, k + 1) = Place(s, k)
            /\ k - 1 \in (0..Len(s)) \ {0} /\ (k - 1) + 1 = k
        BY <1>5, <1>6, <3>3
      <4> QED
        BY <1>3, <4>1 DEF Backward
    <3> QED
      BY <1>5, <1>6, <3>1, <3>2, <3>3
  <2> QED
    BY <1>1, <2>1 DEF Backward
<1>13. pc'[c] = "count"
  BY <1>1 DEF TypeOK
<1>14. Appending(c, r)' /\ Pushing(c, r)' /\ Removing(c, r)'
  BY <1>1, <1>3, <1>5, <1>6, <1>12, <1>13 DEF Appending, Pushing, Removing
<1>15. Alone' /\ Shape(r)'
  BY <1>1, <1>2, <1>5, <1>10, <1>11, <1>14, StepInside DEF Labels
<1> QED
  BY <1>5, <1>9, <1>15

-----------------------------------------------------------------------------
(* klist_remove and klist_pop.                                              *)

\* The pointer over the i-th node takes it off the walk.
LEMMA ForwardRemove ==
    ASSUME ListNodes, TypeOK, NEW s \in Seq(Nodes), IsInjective(s), Forward(s),
           next[TailNode] = Null,
           NEW i \in 1..Len(s),
           next' = [next EXCEPT ![Place(s, i - 1)] = Place(s, i + 1)]
    PROVE  /\ Forward(klist_remove(s, s[i]))' /\ next'[TailNode] = Null
           /\ next'[s[i]] = Place(s, i + 1)
           /\ next' \in [Linkable -> Linkable \cup {Null}]
<1>1. PICK r \in Seq(Nodes) :
         /\ r = klist_remove(s, s[i]) /\ Len(r) = Len(s) - 1
         /\ \A k \in 0..(i - 1) : Place(r, k) = Place(s, k)
         /\ \A k \in i..Len(s) : Place(r, k) = Place(s, k + 1)
  BY PlaceRemove
<1>2. /\ Len(s) \in Nat /\ i \in Nat /\ i > 0 /\ i <= Len(s)
      /\ \A k \in 0..(Len(s) + 1) : Place(s, k) \in Linkable
      /\ \A k, l \in 0..(Len(s) + 1) : Place(s, k) = Place(s, l) => k = l
      /\ Place(s, Len(s) + 1) = TailNode /\ Place(s, i) = s[i]
  BY PlaceFacts
<1>3. /\ next'[Place(s, i - 1)] = Place(s, i + 1)
      /\ \A m \in Linkable : m # Place(s, i - 1) => next'[m] = next[m]
      /\ next' \in [Linkable -> Linkable \cup {Null}]
  <2>1. Place(s, i - 1) \in Linkable /\ Place(s, i + 1) \in Linkable
    BY <1>2
  <2> QED
    BY <2>1 DEF TypeOK
<1>4. \A k \in 0..(Len(s) + 1) : k # i - 1 => next'[Place(s, k)] = next[Place(s, k)]
  <2>1. i - 1 \in 0..(Len(s) + 1)
    BY <1>2
  <2> QED
    BY <1>2, <1>3, <2>1
<1>5. ASSUME NEW k \in 0..Len(r) PROVE next'[Place(r, k)] = Place(r, k + 1)
  <2>1. CASE k < i - 1
    <3>1. Place(r, k) = Place(s, k) /\ Place(r, k + 1) = Place(s, k + 1)
      BY <1>1, <1>2, <2>1
    <3>2. next'[Place(s, k)] = next[Place(s, k)] /\ next[Place(s, k)] = Place(s, k + 1)
      BY <1>1, <1>2, <1>4, <2>1 DEF Forward
    <3> QED
      BY <3>1, <3>2
  <2>2. CASE k = i - 1
    <3>1. Place(r, k) = Place(s, i - 1) /\ Place(r, k + 1) = Place(s, i + 1)
      BY <1>1, <1>2, <2>2
    <3> QED
      BY <1>3, <3>1
  <2>3. CASE k > i - 1
    <3>1. k \in i..Len(s) /\ k + 1 \in i..Len(s) /\ (k + 1) + 1 = k + 2
      BY <1>1, <1>2, <2>3
    <3>2. Place(r, k) = Place(s, k + 1) /\ Place(r, k + 1) = Place(s, k + 2)
      BY <1>1, <3>1
    <3>3. k + 1 \in 0..Len(s) /\ k + 1 \in 0..(Len(s) + 1) /\ k + 1 # i - 1
      BY <1>2, <2>3, <3>1
    <3>4. next'[Place(s, k + 1)] = next[Place(s, k + 1)]
      BY <1>4, <3>3
    <3>5. next[Place(s, k + 1)] = Place(s, k + 2)
      BY <3>1, <3>3 DEF Forward
    <3> QED
      BY <3>2, <3>4, <3>5
  <2> QED
    BY <1>1, <1>2, <2>1, <2>2, <2>3
<1>6. Forward(r)'
  BY <1>5 DEF Forward
<1>7. next'[TailNode] = Null
  BY <1>2, <1>4
<1>8. next'[s[i]] = Place(s, i + 1)
  <2>1. next'[Place(s, i)] = next[Place(s, i)]
    BY <1>2, <1>4
  <2>2. next[Place(s, i)] = Place(s, i + 1)
    BY <1>2 DEF Forward
  <2> QED
    BY <1>2, <2>1, <2>2
<1> QED
  BY <1>1, <1>3, <1>6, <1>7, <1>8

\* The backward pointers of the list without its i-th node.
LEMMA BackwardRemove ==
    ASSUME ListNodes, NEW s \in Seq(Nodes), IsInjective(s), NEW i \in 1..Len(s),
           \A k \in 0..Len(s) : k # i - 1 /\ k # i => prev[Place(s, k + 1)] = Place(s, k)
    PROVE  Backward(klist_remove(s, s[i]), {i - 1})
<1>1. PICK r \in Seq(Nodes) :
         /\ r = klist_remove(s, s[i]) /\ Len(r) = Len(s) - 1
         /\ \A k \in 0..(i - 1) : Place(r, k) = Place(s, k)
         /\ \A k \in i..Len(s) : Place(r, k) = Place(s, k + 1)
  BY PlaceRemove
<1>2. Len(s) \in Nat /\ i \in Nat /\ i > 0 /\ i <= Len(s)
  OBVIOUS
<1>3. ASSUME NEW k \in (0..Len(r)) \ {i - 1} PROVE prev[Place(r, k + 1)] = Place(r, k)
  <2>1. CASE k < i - 1
    <3>1. Place(r, k) = Place(s, k) /\ Place(r, k + 1) = Place(s, k + 1)
      BY <1>1, <1>2, <2>1
    <3>2. prev[Place(s, k + 1)] = Place(s, k)
      BY <1>1, <1>2, <2>1
    <3> QED
      BY <3>1, <3>2
  <2>2. CASE k > i - 1
    <3>1. k \in i..Len(s) /\ k + 1 \in i..Len(s) /\ k + 1 # i /\ k + 1 # i - 1
      BY <1>1, <1>2, <2>2
    <3>2. Place(r, k) = Place(s, k + 1) /\ Place(r, k + 1) = Place(s, (k + 1) + 1)
      BY <1>1, <3>1
    <3>3. prev[Place(s, (k + 1) + 1)] = Place(s, k + 1)
      BY <1>2, <3>1
    <3> QED
      BY <3>2, <3>3
  <2> QED
    BY <1>1, <1>2, <2>1, <2>2
<1> QED
  BY <1>1, <1>3 DEF Backward

\* The search goes on.
LEMMA RemoveFindShape ==
    ASSUME ListNodes, TypeOK, Alone, Protected, NEW s \in Seq(Nodes), Shape(s),
           NEW c \in Contexts, RemoveFind(c)
    PROVE  TypeOK' /\ Alone' /\ Shape(s)'
<1>1. /\ pc[c] = "find" /\ temp[c] # Null /\ temp' = [temp EXCEPT ![c] = next[temp[c]]]
      /\ UNCHANGED <<next, prev, len, pc, node, pre>>
  BY DEF RemoveFind, At
<1>2. \A d \in Contexts : d # c => pc[d] = "idle"
  BY <1>1, OthersIdle
<1>3. /\ IsInjective(s) /\ Forward(s) /\ next[TailNode] = Null /\ Settled(s)
      /\ node[c] \in Nodes /\ temp[c] \in ToSet(s) \cup {TailNode}
  BY <1>1 DEF Shape, Removing
<1>4. next[temp[c]] \in ToSet(s) \cup {TailNode, Null}
  <2>1. CASE temp[c] = TailNode
    BY <1>3, <2>1
  <2>2. CASE temp[c] \in ToSet(s)
    <3>1. Len(s) \in Nat /\ DOMAIN s = 1..Len(s)
      OBVIOUS
    <3>2. PICK k \in 1..Len(s) : temp[c] = s[k]
      BY <2>2, <3>1 DEF ToSet
    <3>3. next[temp[c]] = Place(s, k + 1)
      <4>1. Place(s, k) = s[k] /\ k \in 0..Len(s)
        BY <1>3, <3>1, PlaceFacts
      <4> QED
        BY <1>3, <3>2, <4>1 DEF Forward
    <3>4. Place(s, k + 1) = TailNode \/ (k + 1 \in 1..Len(s) /\ Place(s, k + 1) = s[k + 1])
      BY <3>1 DEF Place
    <3> QED
      BY <3>1, <3>3, <3>4 DEF ToSet
  <2> QED
    BY <1>3, <2>1, <2>2
<1>5. TypeOK'
  <2>1. temp[c] \in Linkable /\ next[temp[c]] \in Linkable \cup {Null}
    BY <1>1 DEF TypeOK
  <2>2. temp' \in [Contexts -> Linkable \cup {Null}]
    BY <1>1, <2>1 DEF TypeOK
  <2> QED
    BY <1>1, <2>2 DEF TypeOK
<1>6. pc' = [pc EXCEPT ![c] = "find"] /\ pc'[c] = "find" /\ temp'[c] = next[temp[c]]
  BY <1>1 DEF TypeOK
<1>7. Forward(s)' /\ next'[TailNode] = Null /\ Settled(s)'
  BY <1>1, <1>3 DEF Forward, Settled, Backward
<1>8. Appending(c, s)' /\ Pushing(c, s)' /\ Removing(c, s)'
  BY <1>1, <1>3, <1>4, <1>6, <1>7 DEF Appending, Pushing, Removing
<1> QED
  BY <1>2, <1>3, <1>5, <1>6, <1>7, <1>8, StepInside DEF Labels

\* The node is found, and the pointer in front of it goes over it.
LEMMA RemoveForwardShape ==
    ASSUME ListNodes, TypeOK, Alone, Protected, NEW s \in Seq(Nodes), Shape(s),
           NEW c \in Contexts, RemoveForward(c)
    PROVE  /\ TypeOK' /\ Alone'
           /\ \E n \in Nodes : Shape(klist_remove(s, n))'
<1>1. /\ pc[c] = "find" /\ temp[c] = node[c] /\ pc' = [pc EXCEPT ![c] = "unlink"]
      /\ pre' = [pre EXCEPT ![c] = prev[temp[c]]]
      /\ next' = [next EXCEPT ![prev[temp[c]]] = next[temp[c]]]
      /\ UNCHANGED <<prev, len, node, temp>>
  BY DEF RemoveForward, At, Goto
<1>2. \A d \in Contexts : d # c => pc[d] = "idle"
  BY <1>1, OthersIdle
<1>3. /\ IsInjective(s) /\ Forward(s) /\ next[TailNode] = Null /\ Settled(s)
      /\ node[c] \in Nodes /\ temp[c] \in ToSet(s)
  BY <1>1 DEF ListNodes, Shape, Removing
<1>4. PICK i \in 1..Len(s) : temp[c] = s[i]
  BY <1>3 DEF ToSet
<1>5. /\ Len(s) \in Nat /\ i \in 0..Len(s) /\ i - 1 \in 0..Len(s) /\ (i - 1) + 1 = i
      /\ \A k \in 0..(Len(s) + 1) : Place(s, k) \in Linkable
      /\ Place(s, i) = s[i] /\ s[i] \in Nodes
  BY <1>3, PlaceFacts
<1>6. prev[temp[c]] = Place(s, i - 1) /\ next[temp[c]] = Place(s, i + 1)
  BY <1>3, <1>4, <1>5 DEF Settled, Backward, Forward
<1>7. PICK r \in Seq(Nodes) :
         /\ r = klist_remove(s, s[i]) /\ IsInjective(r) /\ Len(r) = Len(s) - 1
         /\ \A k \in 0..(i - 1) : Place(r, k) = Place(s, k)
         /\ \A k \in i..Len(s) : Place(r, k) = Place(s, k + 1)
  BY <1>3, PlaceRemove
<1>8. /\ Forward(r)' /\ next'[TailNode] = Null /\ next'[temp[c]] = Place(s, i + 1)
      /\ next' \in [Linkable -> Linkable \cup {Null}]
  <2>1. next' = [next EXCEPT ![Place(s, i - 1)] = Place(s, i + 1)]
    BY <1>1, <1>6
  <2>2. /\ Forward(klist_remove(s, s[i]))' /\ next'[TailNode] = Null
        /\ next'[s[i]] = Place(s, i + 1) /\ next' \in [Linkable -> Linkable \cup {Null}]
    BY <1>3, <2>1, ForwardRemove
  <2> QED
    BY <1>4, <1>7, <2>2
<1>9. Backward(r, {i - 1})'
  <2>1. \A k \in 0..Len(s) : k # i - 1 /\ k # i => prev[Place(s, k + 1)] = Place(s, k)
    BY <1>3 DEF Settled, Backward
  <2>2. Backward(r, {i - 1})
    BY <1>3, <1>7, <2>1, BackwardRemove
  <2> QED
    BY <1>1, <2>2 DEF Backward
<1>10. TypeOK'
  <2>1. pre' \in [Contexts -> Linkable \cup {Null}]
    <3>1. prev[temp[c]] \in Linkable
      BY <1>5, <1>6
    <3> QED
      BY <1>1, <3>1 DEF TypeOK
  <2>2. pc' \in [Contexts -> Labels]
    BY <1>1 DEF TypeOK, Labels
  <2> QED
    BY <1>1, <1>8, <2>1, <2>2 DEF TypeOK
<1>11. /\ pc'[c] = "unlink" /\ pre'[c] = Place(s, i - 1)
  BY <1>1, <1>6 DEF TypeOK
<1>12. /\ i - 1 \in 0..Len(r) /\ Place(r, i - 1) = Place(s, i - 1)
       /\ Place(r, (i - 1) + 1) = Place(s, i + 1)
  BY <1>5, <1>7
<1>13. Removing(c, r)'
  <2>1. \E k \in 0..Len(r) : /\ pre'[c] = Place(r, k) /\ next'[temp'[c]] = Place(r, k + 1)
                             /\ Backward(r, {k})'
    BY <1>1, <1>8, <1>9, <1>11, <1>12
  <2>2. temp'[c] \in Nodes /\ len' = Len(r) + 1
    BY <1>1, <1>3, <1>5, <1>7 DEF Settled
  <2> QED
    BY <1>11, <2>1, <2>2 DEF Removing
<1>14. Appending(c, r)' /\ Pushing(c, r)'
  BY <1>11 DEF Appending, Pushing
<1>15. Alone' /\ Shape(r)'
  BY <1>1, <1>2, <1>7, <1>8, <1>13, <1>14, StepInside DEF Labels
<1> QED
  BY <1>5, <1>7, <1>10, <1>15

\* The node behind the removed one points back over it.
LEMMA RemoveBackwardShape ==
    ASSUME ListNodes, TypeOK, Alone, Protected, NEW s \in Seq(Nodes), Shape(s),
           NEW c \in Contexts, RemoveBackward(c)
    PROVE  TypeOK' /\ Alone' /\ Shape(s)'
<1>1. /\ pc[c] = "unlink" /\ pc' = [pc EXCEPT ![c] = "uncount"]
      /\ prev' = [prev EXCEPT ![next[temp[c]]] = pre[c]]
      /\ UNCHANGED <<next, len, node, temp, pre>>
  BY DEF RemoveBackward, At, Goto
<1>2. \A d \in Contexts : d # c => pc[d] = "idle"
  BY <1>1, OthersIdle
<1>3. /\ IsInjective(s) /\ Forward(s) /\ next[TailNode] = Null /\ len = Len(s) + 1
      /\ \E k \in 0..Len(s) : /\ pre[c] = Place(s, k) /\ next[temp[c]] = Place(s, k + 1)
                              /\ Backward(s, {k})
  BY <1>1 DEF Shape, Removing
<1>4. PICK k \in 0..Len(s) : /\ pre[c] = Place(s, k) /\ next[temp[c]] = Place(s, k + 1)
                             /\ Backward(s, {k})
  BY <1>3
<1>5. /\ Len(s) \in Nat
      /\ \A l \in 0..(Len(s) + 1) : Place(s, l) \in Linkable
      /\ \A l, m \in 0..(Len(s) + 1) : Place(s, l) = Place(s, m) => l = m
  BY <1>3, PlaceFacts
<1>6. Place(s, k) \in Linkable /\ Place(s, k + 1) \in Linkable
  BY <1>5
<1>7. /\ prev' \in [Linkable -> Linkable \cup {Null}]
      /\ prev'[Place(s, k + 1)] = Place(s, k)
      /\ \A m \in Linkable : m # Place(s, k + 1) => prev'[m] = prev[m]
  BY <1>1, <1>4, <1>6 DEF TypeOK
<1>8. Backward(s, {})'
  <2>1. ASSUME NEW l \in 0..Len(s) PROVE prev'[Place(s, l + 1)] = Place(s, l)
    <3>1. CASE l = k
      BY <1>7, <3>1
    <3>2. CASE l # k
      <4>1. Place(s, l + 1) # Place(s, k + 1) /\ Place(s, l + 1) \in Linkable
        BY <1>5, <3>2
      <4>2. prev[Place(s, l + 1)] = Place(s, l)
        BY <1>4, <3>2 DEF Backward
      <4> QED
        BY <1>7, <4>1, <4>2
    <3> QED
      BY <3>1, <3>2
  <2> QED
    BY <2>1 DEF Backward
<1>9. TypeOK'
  <2>1. pc' \in [Contexts -> Labels]
    BY <1>1 DEF TypeOK, Labels
  <2> QED
    BY <1>1, <1>7, <2>1 DEF TypeOK
<1>10. Forward(s)' /\ next'[TailNode] = Null
  BY <1>1, <1>3 DEF Forward
<1>11. pc'[c] = "uncount" /\ len' = Len(s) + 1
  BY <1>1, <1>3 DEF TypeOK
<1>12. Appending(c, s)' /\ Pushing(c, s)' /\ Removing(c, s)'
  BY <1>8, <1>11 DEF Appending, Pushing, Removing
<1> QED
  BY <1>1, <1>2, <1>3, <1>9, <1>10, <1>12, StepInside DEF Labels

\* klist_pop: the second node points back at the head sentinel.
LEMMA PopBackwardShape ==
    ASSUME ListNodes, TypeOK, Alone, Protected, NEW s \in Seq(Nodes), Shape(s),
           NEW c \in Contexts, PopBackward(c)
    PROVE  TypeOK' /\ Alone' /\ Shape(s)'
<1>1. /\ MayStart(c) /\ next[HeadNode] # TailNode /\ pc' = [pc EXCEPT ![c] = "pop2"]
      /\ node' = [node EXCEPT ![c] = next[HeadNode]]
      /\ prev' = [prev EXCEPT ![next[next[HeadNode]]] = HeadNode]
      /\ UNCHANGED <<next, len, temp, pre>>
  BY DEF PopBackward, Goto
<1>2. /\ \A d \in Contexts : d # c => pc[d] = "idle"
      /\ Quiescent
  BY <1>1, OthersIdle
<1>3. IsInjective(s) /\ Forward(s) /\ next[TailNode] = Null /\ Settled(s)
  BY <1>2 DEF Shape
<1>4. /\ Len(s) \in Nat
      /\ \A l \in 0..(Len(s) + 1) : Place(s, l) \in Linkable
      /\ \A l, m \in 0..(Len(s) + 1) : Place(s, l) = Place(s, m) => l = m
      /\ \A l \in 1..Len(s) : Place(s, l) = s[l] /\ s[l] \in Nodes
      /\ Place(s, 0) = HeadNode /\ Place(s, Len(s) + 1) = TailNode
  BY <1>3, PlaceFacts
<1>5. next[HeadNode] = Place(s, 1)
  BY <1>3, <1>4 DEF Forward
<1>6. Len(s) > 0 /\ Place(s, 1) \in Nodes
  <2>1. Len(s) # 0
    BY <1>1, <1>4, <1>5
  <2> QED
    BY <1>4, <2>1
<1>7. next[next[HeadNode]] = Place(s, 2) /\ Place(s, 2) \in Linkable /\ HeadNode \in Linkable
  BY <1>3, <1>4, <1>5, <1>6 DEF Forward, Linkable, Sentinels
<1>8. /\ prev' \in [Linkable -> Linkable \cup {Null}]
      /\ prev'[Place(s, 2)] = HeadNode
      /\ \A m \in Linkable : m # Place(s, 2) => prev'[m] = prev[m]
  BY <1>1, <1>7 DEF TypeOK
<1>9. Backward(s, {1})'
  <2>1. ASSUME NEW l \in (0..Len(s)) \ {1} PROVE prev'[Place(s, l + 1)] = Place(s, l)
    <3>1. Place(s, l + 1) # Place(s, 2) /\ Place(s, l + 1) \in Linkable
      BY <1>4, <1>6
    <3>2. prev[Place(s, l + 1)] = Place(s, l)
      BY <1>3 DEF Settled, Backward
    <3> QED
      BY <1>8, <3>1, <3>2
  <2> QED
    BY <2>1 DEF Backward
<1>10. TypeOK'
  <2>1. pc' \in [Contexts -> Labels] /\ node' \in [Contexts -> Nodes \cup {Null}]
    BY <1>1, <1>5, <1>6 DEF TypeOK, Labels
  <2> QED
    BY <1>1, <1>8, <2>1 DEF TypeOK
<1>11. Forward(s)' /\ next'[TailNode] = Null
  BY <1>1, <1>3 DEF Forward
<1>12. pc'[c] = "pop2" /\ len' = Len(s)
  BY <1>1, <1>3 DEF TypeOK, Settled
<1>13. Appending(c, s)' /\ Pushing(c, s)' /\ Removing(c, s)'
  BY <1>6, <1>8, <1>9, <1>12 DEF Appending, Pushing, Removing
<1> QED
  BY <1>1, <1>2, <1>3, <1>10, <1>11, <1>13, StepInside DEF Labels

\* The head sentinel points at the second node.
LEMMA PopForwardShape ==
    ASSUME ListNodes, TypeOK, Alone, Protected, NEW s \in Seq(Nodes), Shape(s),
           NEW c \in Contexts, PopForward(c)
    PROVE  /\ TypeOK' /\ Alone'
           /\ \E n \in Nodes : Shape(klist_remove(s, n))'
<1>1. /\ pc[c] = "pop2" /\ pc' = [pc EXCEPT ![c] = "uncount"]
      /\ next' = [next EXCEPT ![HeadNode] = next[next[HeadNode]]]
      /\ UNCHANGED <<prev, len, node, temp, pre>>
  BY DEF PopForward, At, Goto
<1>2. \A d \in Contexts : d # c => pc[d] = "idle"
  BY <1>1, OthersIdle
<1>3. /\ IsInjective(s) /\ Forward(s) /\ next[TailNode] = Null
      /\ Len(s) > 0 /\ len = Len(s) /\ Backward(s, {1}) /\ prev[Place(s, 2)] = HeadNode
  BY <1>1 DEF Shape, Removing
<1>4. /\ Len(s) \in Nat
      /\ Place(s, 0) = HeadNode
      /\ \A l \in 1..Len(s) : Place(s, l) = s[l] /\ s[l] \in Nodes
  BY <1>3, PlaceFacts
<1>5. /\ 1 \in 1..Len(s) /\ s[1] \in Nodes /\ 1 - 1 = 0 /\ 1 + 1 = 2
  BY <1>3, <1>4
<1>6. next[HeadNode] = Place(s, 1) /\ next[Place(s, 1)] = Place(s, 2)
  BY <1>3, <1>4 DEF Forward
<1>7. PICK r \in Seq(Nodes) :
         /\ r = klist_remove(s, s[1]) /\ IsInjective(r) /\ Len(r) = Len(s) - 1
         /\ \A k \in 0..(1 - 1) : Place(r, k) = Place(s, k)
         /\ \A k \in 1..Len(s) : Place(r, k) = Place(s, k + 1)
  BY <1>3, <1>5, PlaceRemove
<1>8. /\ Forward(r)' /\ next'[TailNode] = Null
      /\ next' \in [Linkable -> Linkable \cup {Null}]
  <2>1. next' = [next EXCEPT ![Place(s, 1 - 1)] = Place(s, 1 + 1)]
    BY <1>1, <1>4, <1>5, <1>6
  <2>2. /\ Forward(klist_remove(s, s[1]))' /\ next'[TailNode] = Null
        /\ next' \in [Linkable -> Linkable \cup {Null}]
    BY <1>3, <1>5, <2>1, ForwardRemove
  <2> QED
    BY <1>7, <2>2
<1>9. Backward(r, {})'
  <2>1. Backward(r, {1 - 1})
    <3>1. \A k \in 0..Len(s) : k # 1 - 1 /\ k # 1 => prev[Place(s, k + 1)] = Place(s, k)
      BY <1>3 DEF Backward
    <3> QED
      BY <1>3, <1>5, <1>7, <3>1, BackwardRemove
  <2>2. Place(r, 1) = Place(s, 2) /\ Place(r, 0) = HeadNode
    BY <1>4, <1>5, <1>7
  <2>3. prev[Place(r, 0 + 1)] = Place(r, 0)
    BY <1>3, <2>2
  <2> QED
    BY <1>1, <2>1, <2>3 DEF Backward
<1>10. TypeOK'
  <2>1. pc' \in [Contexts -> Labels]
    BY <1>1 DEF TypeOK, Labels
  <2> QED
    BY <1>1, <1>8, <2>1 DEF TypeOK
<1>11. pc'[c] = "uncount" /\ len' = Len(r) + 1
  BY <1>1, <1>3, <1>4, <1>7 DEF TypeOK
<1>12. Appending(c, r)' /\ Pushing(c, r)' /\ Removing(c, r)'
  BY <1>9, <1>11 DEF Appending, Pushing, Removing
<1>13. Alone' /\ Shape(r)'
  BY <1>1, <1>2, <1>7, <1>8, <1>12, StepInside DEF Labels
<1> QED
  BY <1>5, <1>7, <1>10, <1>13

\* The returns: the length is brought in line with the list.
LEMMA ReturnShape ==
    ASSUME ListNodes, TypeOK, Alone, Protected, NEW s \in Seq(Nodes), Shape(s),
           NEW c \in Contexts, CountUp(c) \/ CountDown(c) \/ RemoveNotFound(c)
    PROVE  TypeOK' /\ Alone' /\ Shape(s)'
<1>1. pc[c] \in {"count", "uncount", "find"} /\ Return(c) /\ UNCHANGED <<next, prev>>
  BY DEF CountUp, CountDown, RemoveNotFound, At
<1>2. \A d \in Contexts : d # c => pc[d] = "idle"
  BY <1>1, OthersIdle
<1>3. Backward(s, {}) /\ len' = Len(s)
  <2>1. Len(s) \in Nat
    OBVIOUS
  <2>2. CASE CountUp(c)
    <3>1. pc[c] = "count" /\ len' = len + 1
      BY <2>2 DEF CountUp, At
    <3>2. Backward(s, {}) /\ len = Len(s) - 1
      BY <3>1 DEF Shape, Pushing
    <3> QED
      BY <2>1, <3>1, <3>2
  <2>3. CASE CountDown(c)
    <3>1. pc[c] = "uncount" /\ len' = len - 1
      BY <2>3 DEF CountDown, At
    <3>2. Backward(s, {}) /\ len = Len(s) + 1
      BY <3>1 DEF Shape, Removing
    <3> QED
      BY <2>1, <3>1, <3>2
  <2>4. CASE RemoveNotFound(c)
    BY <2>4 DEF RemoveNotFound, At, Shape, Removing, Settled
  <2> QED
    BY <2>2, <2>3, <2>4
<1> QED
  BY <1>1, <1>2, <1>3, StepReturns

-----------------------------------------------------------------------------
(* The invariant.                                                           *)

\* The pointers are those of some list without repetition, and one operation
\* at most is under way.
KInv == TypeOK /\ Alone /\ \E s \in Seq(Nodes) : Shape(s)

\* The operation that a step of the pointers is, on the list s.
Becomes(s, r) ==
    \/ r = s
    \/ \E n \in Nodes \ ToSet(s) : r = klist_append(s, n) \/ r = klist_push(s, n)
    \/ \E n \in Nodes : r = klist_remove(s, n)

\* klist_init leaves the empty list.
LEMMA InitShape ==
    ASSUME ListNodes, Init
    PROVE  TypeOK /\ Alone /\ Shape(<< >>)
<1>1. HeadNode \in Linkable /\ TailNode \in Linkable /\ HeadNode # TailNode
  BY DEF ListNodes, Linkable, Sentinels
<1>2. /\ next[HeadNode] = TailNode /\ next[TailNode] = Null /\ prev[TailNode] = HeadNode
      /\ len = 0 /\ \A c \in Contexts : pc[c] = "idle"
  BY <1>1 DEF Init
<1>3. TypeOK
  <2>1. next \in [Linkable -> Linkable \cup {Null}] /\ prev \in [Linkable -> Linkable \cup {Null}]
    BY <1>1 DEF Init
  <2>2. pc \in [Contexts -> Labels] /\ len \in Nat
    BY DEF Init, Labels
  <2>3. /\ node \in [Contexts -> Nodes \cup {Null}]
        /\ temp \in [Contexts -> Linkable \cup {Null}] /\ pre \in [Contexts -> Linkable \cup {Null}]
    BY DEF Init
  <2> QED
    BY <2>1, <2>2, <2>3 DEF TypeOK
<1>4. Alone
  BY <1>2 DEF Alone
<1>5. /\ << >> \in Seq(Nodes) /\ Len(<< >>) = 0
      /\ Place(<< >>, 0) = HeadNode /\ Place(<< >>, 1) = TailNode
  BY DEF Place
<1>6. IsInjective(<< >>)
  BY DEF IsInjective
<1>7. Forward(<< >>) /\ Settled(<< >>)
  BY <1>2, <1>5 DEF Forward, Settled, Backward
<1>8. \A c \in Contexts : Appending(c, << >>) /\ Pushing(c, << >>) /\ Removing(c, << >>)
  BY <1>2 DEF Appending, Pushing, Removing
<1> QED
  BY <1>2, <1>3, <1>4, <1>6, <1>7, <1>8 DEF Shape

\* Every step keeps the list one, and makes of it what the operation on
\* sequences makes of it, or nothing.
LEMMA NextShape ==
    ASSUME ListNodes, TypeOK, Alone, Protected, NEW s \in Seq(Nodes), Shape(s), [Next]_vars
    PROVE  /\ TypeOK' /\ Alone'
           /\ \E r \in Seq(Nodes) : Becomes(s, r) /\ Shape(r)'
<1>1. CASE TypeOK' /\ Alone' /\ Shape(s)'
  BY <1>1 DEF Becomes
<1>2. IsInjective(s)
  BY DEF Shape
<1>3. CASE UNCHANGED vars
  <2>1. TypeOK' /\ Alone' /\ Shape(s)'
    BY <1>3 DEF vars, TypeOK, Alone, Shape, Quiescent, Forward, Settled, Backward,
         Appending, Pushing, Removing, Fresh
  <2> QED
    BY <1>1, <2>1
<1>4. ASSUME NEW c \in Contexts, NEW n \in Nodes,
             NEW label \in {"append1", "push1", "find"}, Call(c, n, label)
      PROVE  TypeOK' /\ Alone' /\ Shape(s)'
  BY <1>4, CallShape
<1>5. ASSUME NEW c \in Contexts, AppendForward(c)
      PROVE  TypeOK' /\ Alone' /\ \E r \in Seq(Nodes) : Becomes(s, r) /\ Shape(r)'
  <2>1. PICK n \in Nodes \ ToSet(s) : Shape(klist_append(s, n))'
    BY <1>5, AppendForwardShape
  <2>2. klist_append(s, n) \in Seq(Nodes)
    BY <1>2, AppendLinks
  <2>3. TypeOK' /\ Alone'
    BY <1>5, AppendForwardShape
  <2> QED
    BY <2>1, <2>2, <2>3 DEF Becomes
<1>6. ASSUME NEW c \in Contexts, PushForward(c)
      PROVE  TypeOK' /\ Alone' /\ \E r \in Seq(Nodes) : Becomes(s, r) /\ Shape(r)'
  <2>1. PICK n \in Nodes \ ToSet(s) : Shape(klist_push(s, n))'
    BY <1>6, PushForwardShape
  <2>2. klist_push(s, n) \in Seq(Nodes)
    BY <1>2, PushLinks
  <2>3. TypeOK' /\ Alone'
    BY <1>6, PushForwardShape
  <2> QED
    BY <2>1, <2>2, <2>3 DEF Becomes
<1>7. ASSUME NEW c \in Contexts, RemoveForward(c) \/ PopForward(c)
      PROVE  TypeOK' /\ Alone' /\ \E r \in Seq(Nodes) : Becomes(s, r) /\ Shape(r)'
  <2>1. TypeOK' /\ Alone' /\ \E n \in Nodes : Shape(klist_remove(s, n))'
    BY <1>7, RemoveForwardShape, PopForwardShape
  <2>2. PICK n \in Nodes : Shape(klist_remove(s, n))'
    BY <2>1
  <2>3. klist_remove(s, n) \in Seq(Nodes)
    BY <1>2, RemoveUnlinks, RemoveAbsent
  <2> QED
    BY <2>1, <2>2, <2>3 DEF Becomes
<1>8. CASE Next
  <2>1. PICK c \in Contexts :
            \/ \E n \in Nodes, label \in {"append1", "push1", "find"} : Call(c, n, label)
            \/ Step(c)
    BY <1>8 DEF Next
  <2>2. CASE \E n \in Nodes, label \in {"append1", "push1", "find"} : Call(c, n, label)
    BY <1>1, <1>4, <2>2
  <2>3. CASE AppendForward(c) \/ PushForward(c) \/ RemoveForward(c) \/ PopForward(c)
    BY <1>5, <1>6, <1>7, <2>3
  <2>4. CASE \/ AppendLink(c) \/ AppendBackward(c) \/ PushLink(c) \/ PushBackward(c)
             \/ CountUp(c) \/ CountDown(c) \/ RemoveNotFound(c)
             \/ RemoveFind(c) \/ RemoveBackward(c) \/ PopBackward(c)
    <3>1. TypeOK' /\ Alone' /\ Shape(s)'
      BY <2>4, AppendLinkShape, AppendBackwardShape, PushLinkShape, PushBackwardShape,
         ReturnShape, RemoveFindShape, RemoveBackwardShape, PopBackwardShape
    <3> QED
      BY <1>1, <3>1
  <2> QED
    BY <2>1, <2>2, <2>3, <2>4 DEF Step
<1> QED
  BY <1>3, <1>8

\* The pointers are a list without repetition at every step of every operation.
\* It is the invariant that ListWellFormed and the refinement rest on.
THEOREM ListInvariant ==
    ASSUME ListNodes, Protected
    PROVE  Spec => []KInv
<1>1. ASSUME Init PROVE KInv
  <2>1. << >> \in Seq(Nodes)
    OBVIOUS
  <2> QED
    BY <1>1, <2>1, InitShape DEF KInv
<1>2. ASSUME KInv, [Next]_vars PROVE KInv'
  <2>1. PICK s \in Seq(Nodes) : Shape(s)
    BY <1>2 DEF KInv
  <2>2. /\ TypeOK' /\ Alone'
        /\ \E r \in Seq(Nodes) : Becomes(s, r) /\ Shape(r)'
    BY <1>2, <2>1, NextShape DEF KInv
  <2> QED
    BY <2>2 DEF KInv
<1> QED
  BY <1>1, <1>2, PTL DEF Spec

\* What a walk from the head meets is the list.
LEMMA WalkIsList ==
    ASSUME ListNodes
    PROVE  \A s \in Seq(Nodes) : Shape(s) => Chain = s
<1> SUFFICES ASSUME NEW s \in Seq(Nodes), Shape(s) PROVE Chain = s
  OBVIOUS
<1>1. IsInjective(s) /\ Forward(s) /\ next[TailNode] = Null
  BY DEF Shape
<1> QED
  BY <1>1, ChainOf

\* For any number of nodes and any turns of the task and the handler: outside
\* an operation every node's successor points back at it, and len counts the
\* nodes a walk from the head meets.
THEOREM ListStaysWellFormed ==
    ASSUME ListNodes, Protected
    PROVE  Spec => []ListWellFormed
<1>1. ASSUME KInv PROVE ListWellFormed
  <2>1. PICK s \in Seq(Nodes) : Shape(s)
    BY <1>1 DEF KInv
  <2>2. Chain = s /\ IsInjective(s) /\ Forward(s)
    BY <2>1, WalkIsList DEF Shape
  <2>3. Linked = ToSet(s)
    BY <2>2 DEF Linked, ToSet
  <2>4. ASSUME Quiescent
        PROVE  /\ \A n \in Linked \cup {HeadNode} : prev[next[n]] = n
               /\ len = Cardinality(Linked)
    <3>1. Settled(s)
      BY <2>1, <2>4 DEF Shape
    <3>2. /\ Len(s) \in Nat /\ DOMAIN s = 1..Len(s) /\ Place(s, 0) = HeadNode
          /\ \A k \in 1..Len(s) : Place(s, k) = s[k]
      BY <2>2, PlaceFacts
    <3>3. \A k \in 0..Len(s) : prev[next[Place(s, k)]] = Place(s, k)
      BY <2>2, <3>1 DEF Settled, Forward, Backward
    <3>4. \A n \in Linked \cup {HeadNode} : \E k \in 0..Len(s) : n = Place(s, k)
      <4>1. \A n \in ToSet(s) : \E k \in 1..Len(s) : n = s[k]
        BY <3>2 DEF ToSet
      <4> QED
        BY <2>3, <3>2, <4>1
    <3>5. len = Cardinality(Linked)
      BY <2>2, <2>3, <3>1, ListLength DEF Settled
    <3> QED
      BY <3>3, <3>4, <3>5
  <2> QED
    BY <1>1, <2>4 DEF KInv, ListWellFormed
<1> QED
  BY <1>1, ListInvariant, PTL

\* The linked list of klist.c implements the sequence of KListSpec: each
\* operation changes the walk from the head in one assignment, by what the
\* operation on sequences says, for any number of nodes.
THEOREM ListIsSequence ==
    ASSUME ListNodes, Protected
    PROVE  Spec => ListIsASequence
<1>1. ASSUME Init PROVE Abstract!SpecInit
  <2>1. << >> \in Seq(Nodes)
    OBVIOUS
  <2> QED
    BY <1>1, <2>1, InitShape, WalkIsList DEF Abstract!SpecInit
<1>2. ASSUME KInv, [Next]_vars, (\A s \in Seq(Nodes) : Shape(s) => Chain = s)'
      PROVE  [Abstract!SpecNext]_Chain
  <2>1. PICK s \in Seq(Nodes) : Shape(s)
    BY <1>2 DEF KInv
  <2>2. PICK r \in Seq(Nodes) : Becomes(s, r) /\ Shape(r)'
    BY <1>2, <2>1, NextShape DEF KInv
  <2>3. Chain = s
    BY <2>1, WalkIsList
  <2>4. Chain' = r
    BY <1>2, <2>2
  <2>5. CASE r = s
    BY <2>3, <2>4, <2>5
  <2>6. CASE \E n \in Nodes \ ToSet(s) : r = klist_append(s, n) \/ r = klist_push(s, n)
    BY <2>3, <2>4, <2>6 DEF Abstract!SpecNext, Abstract!klist_append, Abstract!klist_push,
       Abstract!ToSet, klist_append, klist_push, ToSet
  <2>7. CASE \E n \in Nodes : r = klist_remove(s, n)
    <3>1. PICK n \in Nodes : r = klist_remove(s, n)
      BY <2>7
    <3>2. klist_remove(s, n) = Abstract!klist_remove(s, n)
      BY DEF klist_remove, RemoveFirst, RemoveAt, SelectInSeq, Min,
         Abstract!klist_remove, Abstract!RemoveFirst, Abstract!RemoveAt,
         Abstract!SelectInSeq, Abstract!Min
    <3> QED
      BY <2>3, <2>4, <3>1, <3>2 DEF Abstract!SpecNext
  <2> QED
    BY <2>2, <2>5, <2>6, <2>7 DEF Becomes
<1> QED
  BY <1>1, <1>2, WalkIsList, ListInvariant, PTL DEF Spec, ListIsASequence, Abstract!Spec
=============================================================================
