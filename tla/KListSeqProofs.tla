-------------------------- MODULE KListSeqProofs --------------------------
(***************************************************************************)
(* What the list operations of klist.c do to the set of linked nodes and   *)
(* to the order of the list, for lists of any length.                      *)
(***************************************************************************)
EXTENDS KListSeq, SequenceTheorems, FiniteSetTheorems, TLAPS

\* klist_append of a node that is not on the list links it once, at the end,
\* and leaves the nodes that were linked where they were.
LEMMA AppendLinks ==
    ASSUME NEW S, NEW list \in Seq(S), NEW node \in S,
           IsInjective(list), node \notin ToSet(list)
    PROVE  /\ klist_append(list, node) \in Seq(S)
           /\ IsInjective(klist_append(list, node))
           /\ ToSet(klist_append(list, node)) = ToSet(list) \cup {node}
           /\ klist_append(list, node) # << >>
           /\ list # << >> => Head(klist_append(list, node)) = Head(list)
<1> DEFINE r == Append(list, node)
<1>1. /\ r \in Seq(S) /\ r # << >> /\ Len(r) = Len(list) + 1
      /\ \A i \in 1..Len(list) : r[i] = list[i]
      /\ r[Len(list) + 1] = node
      /\ Len(list) \in Nat
  BY AppendProperties
<1>2. DOMAIN r = 1..(Len(list) + 1) /\ DOMAIN list = 1..Len(list)
  BY <1>1
<1> HIDE DEF r
<1>3. IsInjective(r)
  BY <1>1, <1>2 DEF IsInjective, ToSet
<1>4. ToSet(r) = ToSet(list) \cup {node}
  BY <1>1, <1>2 DEF ToSet
<1>5. list # << >> => Head(r) = Head(list)
  BY <1>1
<1> QED
  BY <1>1, <1>3, <1>4, <1>5 DEF r, klist_append

\* On a list without repetition klist_remove unlinks the node at the only
\* place where it stands.
LEMMA RemoveIsRemoveAt ==
    ASSUME NEW S, NEW list \in Seq(S), IsInjective(list),
           NEW i \in 1..Len(list)
    PROVE  klist_remove(list, list[i]) = RemoveAt(list, i)
<1> DEFINE I == {j \in 1..Len(list) : list[j] = list[i]}
<1>1. I = {i}
  BY DEF IsInjective
<1>2. Min({i}) = i
  BY DEF Min
<1>3. SelectInSeq(list, LAMBDA v : v = list[i]) = i
  BY <1>1, <1>2 DEF SelectInSeq
<1> QED
  BY <1>3 DEF klist_remove, RemoveFirst

\* What klist_remove of the i-th node leaves: the nodes before it where they
\* were, the nodes behind it one place further to the front.
LEMMA RemoveElements ==
    ASSUME NEW S, NEW list \in Seq(S), IsInjective(list),
           NEW i \in 1..Len(list)
    PROVE  LET r == klist_remove(list, list[i])
           IN  /\ r \in Seq(S)
               /\ Len(r) = Len(list) - 1
               /\ \A k \in 1..(Len(list) - 1) :
                     r[k] = IF k <= i - 1 THEN list[k] ELSE list[k + 1]
<1> DEFINE r == RemoveAt(list, i)
           a == SubSeq(list, 1, i - 1)
           b == SubSeq(list, i + 1, Len(list))
<1>2. klist_remove(list, list[i]) = r
  BY RemoveIsRemoveAt
<1>3. Len(list) \in Nat /\ i \in Int /\ DOMAIN list = 1..Len(list)
  OBVIOUS
<1>4. /\ a \in Seq(S) /\ Len(a) = i - 1
      /\ \A k \in 1..(i - 1) : a[k] = list[k]
  <2>1. \A k \in 1..(i - 1) : list[k] \in S
    BY <1>3
  <2> QED
    BY <2>1, <1>3, SubSeqProperties
<1>5. /\ b \in Seq(S) /\ Len(b) = Len(list) - i
      /\ \A k \in 1..(Len(list) - i) : b[k] = list[i + k]
  <2>1. \A k \in (i + 1)..Len(list) : list[k] \in S
    BY <1>3
  <2> QED
    BY <2>1, <1>3, SubSeqProperties
<1> HIDE DEF a, b
<1>6. /\ r \in Seq(S)
      /\ Len(r) = Len(list) - 1
      /\ \A k \in 1..(Len(list) - 1) :
            r[k] = IF k <= i - 1 THEN list[k] ELSE list[k + 1]
  <2>1. r = a \o b
    BY DEF RemoveAt, a, b
  <2> HIDE DEF r
  <2>2. /\ r \in Seq(S)
        /\ Len(r) = Len(a) + Len(b)
        /\ \A k \in 1..Len(a) + Len(b) :
              r[k] = IF k <= Len(a) THEN a[k] ELSE b[k - Len(a)]
    BY <2>1, <1>4, <1>5, ConcatProperties
  <2> DEFINE m == Len(a)
             n == Len(a) + Len(b)
  <2>3. m = i - 1 /\ n = Len(list) - 1
    BY <1>3, <1>4, <1>5
  <2>5. Len(r) = n /\ \A k \in 1..n : r[k] = IF k <= m THEN a[k] ELSE b[k - m]
    BY <2>2
  <2> HIDE DEF m, n
  <2>4. ASSUME NEW k \in 1..(Len(list) - 1)
        PROVE  r[k] = IF k <= i - 1 THEN list[k] ELSE list[k + 1]
    <3>1. CASE k <= i - 1
      <4>1. r[k] = a[k]
        BY <3>1, <2>3, <2>5
      <4>2. k \in 1..(i - 1)
        BY <3>1, <1>3
      <4> QED
        BY <4>1, <4>2, <3>1, <1>4
    <3>2. CASE ~(k <= i - 1)
      <4>1. r[k] = b[k - (i - 1)]
        BY <3>2, <2>3, <2>5
      <4>2. k - (i - 1) \in 1..(Len(list) - i) /\ i + (k - (i - 1)) = k + 1
        BY <3>2, <1>3
      <4>3. b[k - (i - 1)] = list[i + (k - (i - 1))]
        BY <4>2, <1>5
      <4> QED
        BY <4>1, <4>2, <4>3, <3>2
    <3> QED
      BY <3>1, <3>2
  <2> QED
    BY <2>2, <2>3, <2>4, <2>5
<1> QED
  BY <1>2, <1>6

\* klist_remove of a linked node unlinks that node and no other, keeps every
\* other node linked once, and keeps the order of the others.
LEMMA RemoveUnlinks ==
    ASSUME NEW S, NEW list \in Seq(S), NEW node \in ToSet(list),
           IsInjective(list)
    PROVE  /\ klist_remove(list, node) \in Seq(S)
           /\ IsInjective(klist_remove(list, node))
           /\ ToSet(klist_remove(list, node)) = ToSet(list) \ {node}
<1>1. PICK i \in 1..Len(list) : list[i] = node
  BY DEF ToSet
<1> DEFINE r == klist_remove(list, node)
<1>3. Len(list) \in Nat /\ i \in Int /\ DOMAIN list = 1..Len(list)
  OBVIOUS
<1>6. /\ r \in Seq(S)
      /\ Len(r) = Len(list) - 1
      /\ \A k \in 1..(Len(list) - 1) :
            r[k] = IF k <= i - 1 THEN list[k] ELSE list[k + 1]
  BY <1>1, RemoveElements
<1> HIDE DEF r
<1>7. DOMAIN r = 1..(Len(list) - 1)
  BY <1>6
<1>8. IsInjective(r)
  <2> SUFFICES ASSUME NEW j \in 1..(Len(list) - 1), NEW k \in 1..(Len(list) - 1),
                      r[j] = r[k]
               PROVE  j = k
    BY <1>7 DEF IsInjective
  <2>1. ASSUME NEW x \in 1..Len(list), NEW y \in 1..Len(list), list[x] = list[y]
        PROVE  x = y
    BY <2>1, <1>3 DEF IsInjective
  <2>2. j \in 1..Len(list) /\ j + 1 \in 1..Len(list)
    BY <1>3
  <2>3. k \in 1..Len(list) /\ k + 1 \in 1..Len(list)
    BY <1>3
  <2>4. /\ r[j] = IF j <= i - 1 THEN list[j] ELSE list[j + 1]
        /\ r[k] = IF k <= i - 1 THEN list[k] ELSE list[k + 1]
    BY <1>6
  <2>5. CASE j <= i - 1 /\ k <= i - 1
    <3>1. list[j] = list[k]
      BY <2>4, <2>5
    <3> QED
      BY <3>1, <2>1, <2>2, <2>3
  <2>6. CASE j <= i - 1 /\ ~(k <= i - 1)
    <3>1. list[j] = list[k + 1]
      BY <2>4, <2>6
    <3>2. j = k + 1
      BY <3>1, <2>1, <2>2, <2>3
    <3> QED
      BY <3>2, <2>6, <1>3
  <2>7. CASE ~(j <= i - 1) /\ k <= i - 1
    <3>1. list[j + 1] = list[k]
      BY <2>4, <2>7
    <3>2. j + 1 = k
      BY <3>1, <2>1, <2>2, <2>3
    <3> QED
      BY <3>2, <2>7, <1>3
  <2>8. CASE ~(j <= i - 1) /\ ~(k <= i - 1)
    <3>1. list[j + 1] = list[k + 1]
      BY <2>4, <2>8
    <3>2. j + 1 = k + 1
      BY <3>1, <2>1, <2>2, <2>3
    <3> QED
      BY <3>2, <1>3
  <2> QED
    BY <2>5, <2>6, <2>7, <2>8
<1>9. ToSet(r) \subseteq ToSet(list) \ {node}
  <2> SUFFICES ASSUME NEW k \in 1..(Len(list) - 1)
               PROVE  \E j \in 1..Len(list) : list[j] = r[k] /\ list[j] # node
    BY <1>3, <1>7 DEF ToSet
  <2>1. \A j \in 1..Len(list) : j # i => list[j] # node
    BY <1>1, <1>3 DEF IsInjective
  <2>2. CASE k <= i - 1
    <3>1. r[k] = list[k] /\ k \in 1..Len(list) /\ k # i
      BY <2>2, <1>3, <1>6
    <3> QED
      BY <3>1, <2>1
  <2>3. CASE ~(k <= i - 1)
    <3>1. r[k] = list[k + 1] /\ k + 1 \in 1..Len(list) /\ k + 1 # i
      BY <2>3, <1>3, <1>6
    <3> QED
      BY <3>1, <2>1
  <2> QED
    BY <2>2, <2>3
<1>10. ToSet(list) \ {node} \subseteq ToSet(r)
  <2> SUFFICES ASSUME NEW j \in 1..Len(list), list[j] # node
               PROVE  \E k \in 1..(Len(list) - 1) : r[k] = list[j]
    BY <1>3, <1>7 DEF ToSet
  <2>1. CASE j < i
    BY <2>1, <1>3, <1>6
  <2>2. CASE j > i
    <3>1. j - 1 \in 1..(Len(list) - 1) /\ r[j - 1] = list[j]
      BY <2>2, <1>3, <1>6
    <3> QED
      BY <3>1
  <2>3. j # i
    BY <1>1
  <2> QED
    BY <2>1, <2>2, <2>3, <1>3
<1> QED
  BY <1>6, <1>8, <1>9, <1>10 DEF r

\* klist_get_next_node of a linked node is another linked node or the tail
\* sentinel.
LEMMA NextNodeLinked ==
    ASSUME NEW S, NEW list \in Seq(S), NEW node \in ToSet(list), NEW tail,
           IsInjective(list)
    PROVE  \/ klist_get_next_node(list, node, tail) = tail
           \/ klist_get_next_node(list, node, tail) \in ToSet(list) \ {node}
<1> DEFINE i == CHOOSE j \in DOMAIN list : list[j] = node
<1>1. i \in DOMAIN list /\ list[i] = node
  BY DEF ToSet
<1>2. DOMAIN list = 1..Len(list) /\ Len(list) \in Nat
  OBVIOUS
<1> HIDE DEF i
<1>3. CASE i = Len(list)
  BY <1>3 DEF klist_get_next_node, i
<1>4. CASE i # Len(list)
  <2>1. klist_get_next_node(list, node, tail) = list[i + 1]
    BY <1>4 DEF klist_get_next_node, i
  <2>2. i + 1 \in DOMAIN list /\ i + 1 # i
    BY <1>1, <1>2, <1>4
  <2> QED
    BY <1>1, <2>1, <2>2 DEF ToSet, IsInjective
<1> QED
  BY <1>3, <1>4

\* Removing the first node of a list leaves the rest of it in order.
LEMMA RemoveFirstNode ==
    ASSUME NEW S, NEW list \in Seq(S), IsInjective(list), list # << >>
    PROVE  klist_remove(list, Head(list)) = Tail(list)
<1>1. Len(list) \in Nat /\ 1 \in 1..Len(list) /\ list[1] = Head(list)
  OBVIOUS
<1>2. klist_remove(list, Head(list)) = RemoveAt(list, 1)
  BY <1>1, RemoveIsRemoveAt
<1>3. RemoveAt(list, 1) = SubSeq(list, 1, 0) \o SubSeq(list, 2, Len(list))
  BY DEF RemoveAt
<1>4. SubSeq(list, 1, 0) = << >>
  BY SubSeqEmpty
<1>5. SubSeq(list, 2, Len(list)) = Tail(list)
  BY TailIsSubSeq
<1>6. << >> \o Tail(list) = Tail(list)
  BY HeadTailProperties, ConcatEmptySeq
<1> QED
  BY <1>2, <1>3, <1>4, <1>5, <1>6

\* klist_remove of a node that is not linked leaves the list as it was.
LEMMA RemoveAbsent ==
    ASSUME NEW S, NEW list \in Seq(S), NEW node, node \notin ToSet(list)
    PROVE  klist_remove(list, node) = list
<1>1. DOMAIN list = 1..Len(list)
  OBVIOUS
<1>2. ~ \E i \in 1..Len(list) : list[i] = node
  BY <1>1 DEF ToSet
<1> QED
  BY <1>2 DEF klist_remove, RemoveFirst

\* The first node of a list that is removed and appended goes to the back: the
\* same nodes are linked, each once, and the others move up in order.
LEMMA FirstToBack ==
    ASSUME NEW S, NEW list \in Seq(S), IsInjective(list), list # << >>
    PROVE  LET r == klist_append(klist_remove(list, Head(list)), Head(list))
           IN  /\ r = Append(Tail(list), Head(list))
               /\ r \in Seq(S) /\ IsInjective(r) /\ r # << >>
               /\ ToSet(r) = ToSet(list)
<1> DEFINE h == Head(list)
           l == klist_remove(list, h)
<1>1. h \in S /\ h \in ToSet(list)
  <2>1. 1 \in DOMAIN list /\ list[1] = h /\ h \in S
    OBVIOUS
  <2> QED
    BY <2>1 DEF ToSet
<1>2. l = Tail(list)
  BY RemoveFirstNode
<1>3. l \in Seq(S) /\ IsInjective(l) /\ ToSet(l) = ToSet(list) \ {h}
  BY <1>1, RemoveUnlinks
<1> HIDE DEF l, h
<1>4. /\ klist_append(l, h) \in Seq(S) /\ IsInjective(klist_append(l, h))
      /\ ToSet(klist_append(l, h)) = ToSet(l) \cup {h}
      /\ klist_append(l, h) # << >>
  BY <1>1, <1>3, AppendLinks
<1>5. klist_append(l, h) = Append(Tail(list), h)
  BY <1>2 DEF klist_append
<1> QED
  BY <1>1, <1>3, <1>4, <1>5 DEF l, h

\* klist_push of a node that is not on the list links it once, in front of the
\* others.
LEMMA PushLinks ==
    ASSUME NEW S, NEW list \in Seq(S), NEW node \in S,
           IsInjective(list), node \notin ToSet(list)
    PROVE  /\ klist_push(list, node) \in Seq(S)
           /\ IsInjective(klist_push(list, node))
           /\ ToSet(klist_push(list, node)) = ToSet(list) \cup {node}
           /\ klist_push(list, node) # << >>
<1> DEFINE r == <<node>> \o list
<1>1. Len(list) \in Nat /\ DOMAIN list = 1..Len(list)
  OBVIOUS
<1>2. /\ r \in Seq(S) /\ Len(r) = Len(list) + 1 /\ DOMAIN r = 1..(Len(list) + 1)
      /\ r[1] = node /\ \A i \in 1..Len(list) : r[i + 1] = list[i]
  OBVIOUS
<1> HIDE DEF r
<1>3. \A i \in 2..(Len(list) + 1) : i - 1 \in DOMAIN list /\ r[i] = list[i - 1]
  <2> SUFFICES ASSUME NEW i \in 2..(Len(list) + 1)
               PROVE  i - 1 \in DOMAIN list /\ r[i] = list[i - 1]
    OBVIOUS
  <2>1. i - 1 \in 1..Len(list) /\ (i - 1) + 1 = i
    BY <1>1
  <2> QED
    BY <1>1, <1>2, <2>1
<1>4. \A i \in DOMAIN list : list[i] # node
  BY DEF ToSet
<1>5. IsInjective(r)
  <2> SUFFICES ASSUME NEW a \in DOMAIN r, NEW b \in DOMAIN r, r[a] = r[b]
               PROVE  a = b
    BY DEF IsInjective
  <2>1. (a = 1 \/ a \in 2..(Len(list) + 1)) /\ (b = 1 \/ b \in 2..(Len(list) + 1))
    BY <1>1, <1>2
  <2>2. CASE a = 1 \/ b = 1
    BY <1>2, <1>3, <1>4, <2>1, <2>2
  <2>3. CASE a # 1 /\ b # 1
    <3>1. a - 1 \in DOMAIN list /\ b - 1 \in DOMAIN list /\ list[a - 1] = list[b - 1]
      BY <1>3, <2>1, <2>3
    <3>2. a - 1 = b - 1
      BY <3>1 DEF IsInjective
    <3> QED
      BY <1>1, <2>1, <2>3, <3>2
  <2> QED
    BY <2>2, <2>3
<1>6. ToSet(r) = ToSet(list) \cup {node}
  <2>1. ASSUME NEW x \in ToSet(r)
        PROVE  x \in ToSet(list) \cup {node}
    <3>1. PICK i \in DOMAIN r : r[i] = x
      BY DEF ToSet
    <3>2. CASE i = 1
      BY <1>2, <3>1, <3>2
    <3>3. CASE i # 1
      <4>1. i - 1 \in DOMAIN list /\ list[i - 1] = x
        BY <1>1, <1>2, <1>3, <3>1, <3>3
      <4> QED
        BY <4>1 DEF ToSet
    <3> QED
      BY <3>2, <3>3
  <2>2. ASSUME NEW x \in ToSet(list)
        PROVE  x \in ToSet(r)
    <3>1. PICK i \in 1..Len(list) : list[i] = x
      BY <1>1 DEF ToSet
    <3>2. i + 1 \in DOMAIN r /\ r[i + 1] = x
      BY <1>1, <1>2, <3>1
    <3> QED
      BY <3>2 DEF ToSet
  <2>3. node \in ToSet(r)
    BY <1>1, <1>2 DEF ToSet
  <2> QED
    BY <2>1, <2>2, <2>3
<1>7. r # << >>
  BY <1>1, <1>2
<1> QED
  BY <1>2, <1>5, <1>6, <1>7 DEF r, klist_push

\* The nodes linked into a list are nodes, and finitely many.
LEMMA ListFinite ==
    ASSUME NEW S, NEW list \in Seq(S)
    PROVE  ToSet(list) \subseteq S /\ IsFiniteSet(ToSet(list))
<1>1. Len(list) \in Nat /\ DOMAIN list = 1..Len(list) /\ \A i \in DOMAIN list : list[i] \in S
  OBVIOUS
<1>2. ToSet(list) \subseteq S
  BY <1>1 DEF ToSet
<1>3. list \in Surjection(1..Len(list), ToSet(list))
  BY <1>1 DEF Surjection, ToSet
<1>4. IsFiniteSet(1..Len(list))
  BY <1>1, FS_Interval
<1> QED
  BY <1>2, <1>3, <1>4, FS_Surjection

\* A list has as many nodes as its length says, and no more than there are.
LEMMA ListLength ==
    ASSUME NEW S, NEW list \in Seq(S), IsInjective(list)
    PROVE  /\ Cardinality(ToSet(list)) = Len(list)
           /\ IsFiniteSet(S) => Len(list) <= Cardinality(S)
<1> DEFINE I == 1..Len(list)
<1>1. Len(list) \in Nat /\ DOMAIN list = I /\ \A i \in I : list[i] \in S
  OBVIOUS
<1>2. IsFiniteSet(I) /\ Cardinality(I) = Len(list)
  <2>1. ASSUME NEW n \in Nat PROVE IsFiniteSet(1..n) /\ Cardinality(1..n) = n
    <3>1. 1 \in Int /\ n \in Int
      OBVIOUS
    <3>2. IsFiniteSet(1..n) /\ Cardinality(1..n) = IF 1 > n THEN 0 ELSE n - 1 + 1
      BY <3>1, FS_Interval, Zenon
    <3> QED
      BY <3>2
  <2> QED
    BY <1>1, <2>1
<1>3. list \in Surjection(I, ToSet(list)) /\ list \in Injection(I, ToSet(list))
  BY <1>1 DEF Surjection, Injection, IsInjective, ToSet
<1>4. ASSUME IsFiniteSet(S) PROVE Cardinality(I) <= Cardinality(S)
  <2>1. list \in Injection(I, S)
    BY <1>1 DEF Injection, IsInjective
  <2> QED
    BY <1>4, <2>1, FS_Injection
<1> QED
  BY <1>2, <1>3, <1>4, FS_Surjection
=============================================================================
