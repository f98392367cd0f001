---------------------------- MODULE TopoSortProofs ----------------------------
(***************************************************************************)
(* Proofs about Graph::topo_order, for every graph, malformed ones         *)
(* included: the order is topological at every moment, and the sort fails  *)
(* exactly on the graphs that graph.h says it rejects.                     *)
(*                                                                         *)
(* TopoSort has no specification of its own.  SortInv is an invariant of   *)
(* its steps; ExecutorProofs and the proofs of the other users combine it  *)
(* with steps of their own.                                                *)
(***************************************************************************)
EXTENDS TopoSort, FiniteSetTheorems, WellFoundedInduction, TLAPS

SortPhases == {"producers", "indegrees", "seed", "pop", "visit"}

Elements(s) == {s[a] : a \in DOMAIN s}

Distinct(s) == \A a, b \in DOMAIN s : s[a] = s[b] => a = b

-----------------------------------------------------------------------------
(* Queues.                                                                 *)

\* An element sits at some position, and each position holds one.
LEMMA ElementAt ==
  ASSUME NEW S, NEW s \in Seq(S), NEW x
  PROVE  /\ Len(s) \in Nat /\ DOMAIN s = 1 .. Len(s)
         /\ x \in Elements(s) <=> \E a \in 1 .. Len(s) : s[a] = x
<1>1. Len(s) \in Nat /\ DOMAIN s = 1 .. Len(s) OBVIOUS
<1>2. x \in Elements(s) <=> \E a \in DOMAIN s : s[a] = x BY DEF Elements
<1> QED BY <1>1, <1>2, Zenon

\* A new element at the end.
LEMMA AppendElements ==
  ASSUME NEW S, NEW s \in Seq(S), NEW x \in S
  PROVE  /\ Append(s, x) \in Seq(S)
         /\ Elements(Append(s, x)) = Elements(s) \cup {x}
         /\ Distinct(s) /\ x \notin Elements(s) => Distinct(Append(s, x))
<1> DEFINE r == Append(s, x)
           n == Len(s)
<1>1. /\ n \in Nat /\ DOMAIN s = 1 .. n
      /\ r \in Seq(S) /\ Len(r) = n + 1
      /\ \A a \in 1 .. n : r[a] = s[a]
      /\ r[n + 1] = x
  OBVIOUS
<1>2. DOMAIN r = 1 .. n + 1 BY <1>1
<1> HIDE DEF r, n
<1>3. \A a \in 1 .. n + 1 : a \in 1 .. n \/ a = n + 1 BY <1>1
<1>4. \A a \in 1 .. n : a \in 1 .. n + 1 /\ a # n + 1 BY <1>1
<1>5. n + 1 \in 1 .. n + 1 BY <1>1
<1>6. Elements(r) \subseteq Elements(s) \cup {x}
  BY <1>1, <1>2, <1>3, Zenon DEF Elements
<1>7. Elements(s) \cup {x} \subseteq Elements(r)
  BY <1>1, <1>2, <1>4, <1>5, Zenon DEF Elements
<1>8. ASSUME Distinct(s), x \notin Elements(s) PROVE Distinct(r)
  <2>1. \A a \in 1 .. n : s[a] # x BY <1>1, <1>8, Zenon DEF Elements
  <2> QED BY <1>1, <1>2, <1>3, <1>8, <2>1, Zenon DEF Distinct
<1> QED BY <1>1, <1>6, <1>7, <1>8 DEF r

\* The first element taken off.
LEMMA TailElements ==
  ASSUME NEW S, NEW s \in Seq(S), s # <<>>, Distinct(s)
  PROVE  /\ Head(s) \in S /\ Head(s) \in Elements(s)
         /\ Tail(s) \in Seq(S) /\ Distinct(Tail(s))
         /\ Elements(Tail(s)) = Elements(s) \ {Head(s)}
<1> DEFINE r == Tail(s)
           n == Len(s)
<1>1. /\ n \in Nat /\ n >= 1 /\ DOMAIN s = 1 .. n
      /\ Head(s) = s[1] /\ s[1] \in S
      /\ r \in Seq(S) /\ Len(r) = n - 1
      /\ \A a \in 1 .. n - 1 : r[a] = s[a + 1]
  OBVIOUS
<1>2. DOMAIN r = 1 .. n - 1 BY <1>1
<1> HIDE DEF r, n
<1>3. \A a \in 1 .. n - 1 : a + 1 \in 1 .. n /\ a + 1 # 1 BY <1>1
<1>4. \A a \in 1 .. n : a = 1 \/ (a - 1 \in 1 .. n - 1 /\ r[a - 1] = s[a])
  <2> TAKE a \in 1 .. n
  <2>1. CASE a # 1
    <3>1. a - 1 \in 1 .. n - 1 /\ (a - 1) + 1 = a BY <2>1, <1>1
    <3> QED BY <3>1, <1>1
  <2> QED BY <2>1
<1>5. 1 \in 1 .. n BY <1>1
<1>6. \A a \in 1 .. n - 1 : r[a] # s[1]
  BY <1>1, <1>3, <1>5, Zenon DEF Distinct
<1>7. Elements(r) \subseteq Elements(s) \ {s[1]}
  BY <1>1, <1>2, <1>3, <1>6, Zenon DEF Elements
<1>8. Elements(s) \ {s[1]} \subseteq Elements(r)
  <2> SUFFICES ASSUME NEW x \in Elements(s), x # s[1] PROVE x \in Elements(r)
    OBVIOUS
  <2>1. PICK a \in 1 .. n : s[a] = x BY <1>1, Zenon DEF Elements
  <2>2. a - 1 \in DOMAIN r /\ r[a - 1] = x BY <2>1, <1>2, <1>4
  <2> QED BY <2>2, Zenon DEF Elements
<1>9. Distinct(r)
  <2> SUFFICES ASSUME NEW a \in 1 .. n - 1, NEW b \in 1 .. n - 1, r[a] = r[b]
               PROVE  a = b
    BY <1>2 DEF Distinct
  <2>1. s[a + 1] = s[b + 1] BY <1>1
  <2>2. a + 1 = b + 1 BY <2>1, <1>1, <1>3, Zenon DEF Distinct
  <2> QED BY <2>2, <1>1
<1>10. s[1] \in Elements(s) BY <1>1, <1>5, Zenon DEF Elements
<1> QED BY <1>1, <1>7, <1>8, <1>9, <1>10 DEF r
-----------------------------------------------------------------------------
(* What the passes keep.                                                   *)

\* A set of numbers that has 0, and the successor of each of its members.
LEMMA Induction ==
  ASSUME NEW S \in SUBSET Nat, 0 \in S, \A n \in S : n + 1 \in S
  PROVE  S = Nat
<1> SUFFICES ASSUME Nat \ S # {} PROVE FALSE OBVIOUS
<1>1. PICK n \in Nat \ S : \A m \in Nat \ S : <<m, n>> \notin OpToRel(<, Nat)
  BY WFMin, NatLessThanWellFounded
<1>2. \A m \in Nat \ S : ~(m < n) BY <1>1 DEF OpToRel
<1>3. n # 0 /\ n \in Nat BY <1>1
<1>4. n - 1 \in Nat /\ n - 1 < n /\ (n - 1) + 1 = n BY <1>3
<1>5. n - 1 \in S BY <1>2, <1>4
<1> QED BY <1>1, <1>4, <1>5

\* One more id is looked at.
Upon(S, n, s) == IF n \in S THEN s ELSE Append(s, n)

IsKept(S, f, l) == f = [n \in 0 .. l |-> IF n = 0 THEN <<>> ELSE Upon(S, n - 1, f[n - 1])]

LEMMA KeptExists ==
  ASSUME NEW S, NEW l \in Nat
  PROVE  \E f : IsKept(S, f, l)
<1> DEFINE N == {k \in Nat : \E f : IsKept(S, f, k)}
<1>1. 0 \in N
  <2>1. IsKept(S, [n \in 0 .. 0 |-> <<>>], 0) BY DEF IsKept
  <2> QED BY <2>1
<1>2. ASSUME NEW m \in N PROVE m + 1 \in N
  <2>1. PICK f : IsKept(S, f, m) OBVIOUS
  <2> DEFINE g == [n \in 0 .. m + 1 |-> IF n = m + 1 THEN Upon(S, m, f[m]) ELSE f[n]]
  <2>2. f = [n \in 0 .. m |-> IF n = 0 THEN <<>> ELSE Upon(S, n - 1, f[n - 1])]
    BY <2>1 DEF IsKept
  <2>3. m \in Nat OBVIOUS
  <2>4. ASSUME NEW n \in 0 .. m + 1
        PROVE  g[n] = IF n = 0 THEN <<>> ELSE Upon(S, n - 1, g[n - 1])
    <3>1. CASE n = m + 1
      <4>1. g[n - 1] = f[m] /\ n - 1 = m BY <3>1, <2>3
      <4> QED BY <3>1, <4>1, <2>3
    <3>2. CASE n # m + 1
      <4>1. n \in 0 .. m /\ g[n] = f[n] BY <3>2, <2>3
      <4>2. CASE n = 0 BY <4>1, <4>2, <2>2
      <4>3. CASE n # 0
        <5>1. n - 1 \in 0 .. m + 1 /\ n - 1 # m + 1 BY <4>1, <4>3, <2>3
        <5>2. g[n - 1] = f[n - 1] BY <5>1
        <5>3. f[n] = Upon(S, n - 1, f[n - 1]) BY <4>1, <4>3, <2>2, Zenon
        <5> QED BY <4>1, <4>3, <5>2, <5>3
      <4> QED BY <4>2, <4>3
    <3> QED BY <3>1, <3>2
  <2> HIDE DEF g
  <2>5. g = [n \in 0 .. m + 1 |-> g[n]] BY DEF g
  <2>6. g = [n \in 0 .. m + 1 |-> IF n = 0 THEN <<>> ELSE Upon(S, n - 1, g[n - 1])]
    BY <2>4, <2>5
  <2>7. IsKept(S, g, m + 1) BY <2>6 DEF IsKept
  <2>8. m + 1 \in Nat BY <2>3
  <2> QED BY <2>7, <2>8
<1> HIDE DEF N
<1>3. N \in SUBSET Nat BY DEF N
<1>4. N = Nat BY <1>1, <1>2, <1>3, Induction
<1> QED BY <1>4 DEF N

\* They are listed once each, each behind those with smaller ids.
Below(S, n) == {i \in 0 .. n - 1 : i \notin S}

LEMMA BelowGrows ==
  ASSUME NEW S, NEW n \in Nat
  PROVE  /\ IsFiniteSet(Below(S, n)) /\ Cardinality(Below(S, n)) \in Nat
         /\ n \in S => Below(S, n + 1) = Below(S, n)
         /\ n \notin S =>
              /\ Below(S, n + 1) = Below(S, n) \cup {n}
              /\ Cardinality(Below(S, n + 1)) = Cardinality(Below(S, n)) + 1
<1>1. IsFiniteSet(0 .. n - 1) BY FS_Interval
<1>2. IsFiniteSet(Below(S, n)) BY <1>1, FS_Subset DEF Below
<1>3. Cardinality(Below(S, n)) \in Nat BY <1>2, FS_CardinalityType
<1>4. n \notin Below(S, n) BY DEF Below
<1>5. n \in S => Below(S, n + 1) = Below(S, n) BY DEF Below
<1>6. n \notin S => Below(S, n + 1) = Below(S, n) \cup {n} BY DEF Below
<1> QED BY <1>2, <1>3, <1>4, <1>5, <1>6, FS_AddElement

LEMMA AllButIs ==
  ASSUME NEW n \in Nat, NEW S
  PROVE  /\ AllBut(n, S) \in Seq(Nat) /\ Distinct(AllBut(n, S))
         /\ Elements(AllBut(n, S)) = {i \in 0 .. n - 1 : i \notin S}
         /\ Len(AllBut(n, S)) = Cardinality(Below(S, n))
         /\ \A i \in 0 .. n - 1 : i \notin S =>
               /\ Cardinality(Below(S, i)) \in 0 .. Len(AllBut(n, S)) - 1
               /\ AllBut(n, S)[Cardinality(Below(S, i)) + 1] = i
<1> DEFINE kept == CHOOSE f : IsKept(S, f, n)
           At(i) == Cardinality(Below(S, i))
           Listed(s, l) == /\ s \in Seq(Nat) /\ Distinct(s)
                           /\ Elements(s) = Below(S, l) /\ Len(s) = At(l)
                           /\ \A i \in 0 .. l - 1 : i \notin S =>
                                 At(i) \in 0 .. Len(s) - 1 /\ s[At(i) + 1] = i
           N == {l \in Nat : l <= n => Listed(kept[l], l)}
<1>1. IsKept(S, kept, n) BY KeptExists, Zenon
<1>2. AllBut(n, S) = kept[n] BY DEF AllBut, IsKept, Upon
<1> HIDE DEF kept
<1>3. \A l \in 0 .. n : kept[l] = IF l = 0 THEN <<>> ELSE Upon(S, l - 1, kept[l - 1])
  BY <1>1, Zenon DEF IsKept
<1>4. 0 \in N
  <2>1. kept[0] = <<>> BY <1>3
  <2>2. <<>> \in Seq(Nat) /\ Distinct(<<>>) /\ Elements(<<>>) = {} /\ Len(<<>>) = 0
    BY DEF Distinct, Elements
  <2>3. Below(S, 0) = {} BY DEF Below
  <2>4. At(0) = 0 BY <2>3, FS_EmptySet
  <2>5. Listed(kept[0], 0) BY <2>1, <2>2, <2>3, <2>4
  <2> QED BY <2>5
<1>5. ASSUME NEW l \in N PROVE l + 1 \in N
  <2> SUFFICES ASSUME l + 1 <= n PROVE Listed(kept[l + 1], l + 1) OBVIOUS
  <2>1. l \in Nat /\ l <= n /\ Listed(kept[l], l) OBVIOUS
  <2> DEFINE s == kept[l]
  <2>2. kept[l + 1] = Upon(S, l, s)
    <3>1. l + 1 \in 0 .. n /\ l + 1 # 0 /\ (l + 1) - 1 = l BY <2>1
    <3> QED BY <1>3, <3>1
  <2>3. /\ s \in Seq(Nat) /\ Distinct(s) /\ Elements(s) = Below(S, l) /\ Len(s) = At(l)
        /\ \A i \in 0 .. l - 1 : i \notin S => At(i) \in 0 .. Len(s) - 1 /\ s[At(i) + 1] = i
    BY <2>1
  <2> HIDE DEF N, s, At
  <2>4. \A i \in 0 .. (l + 1) - 1 : i \in 0 .. l - 1 \/ i = l BY <2>1
  <2>5. CASE l \in S
    <3>1. kept[l + 1] = s BY <2>2, <2>5 DEF Upon
    <3>2. Below(S, l + 1) = Below(S, l) BY <2>1, <2>5, BelowGrows
    <3>3. At(l + 1) = At(l) BY <3>2 DEF At
    <3> QED BY <2>3, <2>4, <2>5, <3>1, <3>2, <3>3
  <2>6. CASE l \notin S
    <3>1. kept[l + 1] = Append(s, l) BY <2>2, <2>6 DEF Upon
    <3>2. l \notin Elements(s) BY <2>1, <2>3 DEF Below
    <3>3. /\ Append(s, l) \in Seq(Nat) /\ Elements(Append(s, l)) = Elements(s) \cup {l}
          /\ Distinct(Append(s, l))
      BY <2>1, <2>3, <3>2, AppendElements
    <3>4. /\ Below(S, l + 1) = Below(S, l) \cup {l} /\ At(l + 1) = At(l) + 1 /\ At(l) \in Nat
      BY <2>1, <2>6, BelowGrows DEF At
    <3>5. /\ Len(Append(s, l)) = Len(s) + 1 /\ Append(s, l)[Len(s) + 1] = l
          /\ \A k \in 1 .. Len(s) : Append(s, l)[k] = s[k]
      BY <2>1, <2>3
    <3>6. ASSUME NEW i \in 0 .. (l + 1) - 1, i \notin S
          PROVE  At(i) \in 0 .. At(l + 1) - 1 /\ Append(s, l)[At(i) + 1] = i
      <4>1. CASE i = l BY <4>1, <2>3, <3>4, <3>5
      <4>2. CASE i # l
        <5>1. At(i) \in 0 .. Len(s) - 1 /\ s[At(i) + 1] = i BY <2>3, <2>4, <3>6, <4>2
        <5>2. At(i) + 1 \in 1 .. Len(s) BY <5>1, <2>3, <3>4
        <5> QED BY <5>1, <5>2, <2>3, <3>4, <3>5
      <4> QED BY <4>1, <4>2
    <3> QED BY <2>3, <3>1, <3>3, <3>4, <3>5, <3>6
  <2> QED BY <2>5, <2>6
<1> HIDE DEF N
<1>6. N \in SUBSET Nat BY DEF N
<1>7. N = Nat BY <1>4, <1>5, <1>6, Induction
<1>8. n \in N /\ n <= n BY <1>7
<1>9. Listed(kept[n], n) BY <1>8 DEF N
<1> QED BY <1>2, <1>9 DEF Below
-----------------------------------------------------------------------------
(* What the types say.                                                     *)

\* The tables of a graph, and the node ids.
LEMMA GraphTypes ==
  ASSUME IsGraph(graph)
  PROVE  /\ NumNodes \in Nat /\ Nodes = 0 .. NumNodes - 1
         /\ IsFiniteSet(Nodes) /\ IsFiniteSet(TensorIds) /\ TensorIds \subseteq Nat
         /\ graph.kind \in [TensorIds -> Kinds]
         /\ graph.inputs \in [Nodes -> Seq(Int)]
         /\ graph.outputs \in [Nodes -> Seq(Int)]
<1> DEFINE c == Cardinality(DOMAIN graph.kind)
<1>1. NumNodes \in Nat /\ c \in Nat
  BY FS_CardinalityType DEF IsGraph, NumNodes, Nodes
<1>2. graph.inputs \in [0 .. NumNodes - 1 -> Seq(Int)]
  BY DEF IsGraph, NumNodes, Nodes
<1>3. graph.kind \in [0 .. c - 1 -> Kinds] BY DEF IsGraph
<1>4. Nodes = 0 .. NumNodes - 1 BY <1>2 DEF Nodes
<1>5. TensorIds = 0 .. c - 1 BY <1>3 DEF TensorIds
<1>6. TensorIds \subseteq Nat BY <1>1, <1>5
<1>7. graph.outputs \in [Nodes -> Seq(Int)] BY <1>4 DEF IsGraph, NumNodes, Nodes
<1>8. IsFiniteSet(Nodes) /\ IsFiniteSet(TensorIds)
  BY DEF IsGraph, Nodes, TensorIds
<1> QED BY <1>1, <1>2, <1>3, <1>4, <1>5, <1>6, <1>7, <1>8

\* The inputs of a node are finitely many integers.
LEMMA InputTypes ==
  ASSUME IsGraph(graph), NEW i \in Nodes
  PROVE  /\ graph.inputs[i] \in Seq(Int)
         /\ DOMAIN graph.inputs[i] = 1 .. Len(graph.inputs[i])
         /\ Len(graph.inputs[i]) \in Nat
         /\ IsFiniteSet(DOMAIN graph.inputs[i])
<1>1. graph.inputs[i] \in Seq(Int) BY GraphTypes
<1>2. /\ DOMAIN graph.inputs[i] = 1 .. Len(graph.inputs[i])
      /\ Len(graph.inputs[i]) \in Nat
  BY <1>1
<1> QED BY <1>1, <1>2, FS_Interval

\* A slot is a node and a position in its inputs, or in its outputs.
LEMMA Slots ==
  /\ \A i \in Nodes : \A k \in DOMAIN graph.inputs[i] :
        <<i, k>> \in InputSlots /\ InputAt(<<i, k>>) = graph.inputs[i][k]
  /\ \A i \in Nodes : \A k \in DOMAIN graph.outputs[i] :
        <<i, k>> \in OutputSlots /\ OutputAt(<<i, k>>) = graph.outputs[i][k]
  /\ \A s \in InputSlots : s[1] \in Nodes /\ s[2] \in DOMAIN graph.inputs[s[1]]
  /\ \A s \in OutputSlots : s[1] \in Nodes /\ s[2] \in DOMAIN graph.outputs[s[1]]
BY DEF InputSlots, OutputSlots, InputAt, OutputAt

-----------------------------------------------------------------------------
(* The invariant.                                                          *)

SortTypes ==
    /\ IsGraph(graph)
    /\ order \in Seq(Nodes) /\ ready \in Seq(Nodes)
    /\ indeg \in [Nodes -> Int] /\ dep \in 0 .. NumNodes
    /\ phase \in {"producers", "indegrees"} => order = <<>> /\ ready = <<>> /\ dep = 0
    /\ phase = "seed" => order = <<>>
    /\ phase = "visit" => order # <<>>

\* What the first scan has established: producer is the table of writers.
Linked ==
    /\ \A s \in OutputSlots : OutputAt(s) \in TensorIds
    /\ \A r, s \in OutputSlots : OutputAt(r) = OutputAt(s) => r = s
    /\ producer \in [TensorIds -> Nodes \cup {-1}]
    /\ \A s \in OutputSlots : producer[OutputAt(s)] = s[1]
    /\ \A t \in TensorIds :
          producer[t] # -1 => \E s \in OutputSlots : OutputAt(s) = t

\* What the second scan has established.
Checked ==
    \A s \in InputSlots :
        /\ InputAt(s) \in TensorIds
        /\ \/ producer[InputAt(s)] # -1
           \/ graph.kind[InputAt(s)] \in {"input", "weight"}

\* The nodes whose place in the order node i has been told of: while the
\* consumers of the node popped last are visited, the later ones do not know
\* of it yet.
Settled(i) ==
    IF phase = "visit" /\ i >= dep
    THEN Elements(order) \ {order[Len(order)]} ELSE Elements(order)

\* The inputs of i that wait for a producer.
Open(i) ==
    {k \in DOMAIN graph.inputs[i] :
        /\ producer[graph.inputs[i][k]] # -1
        /\ producer[graph.inputs[i][k]] \notin Settled(i)}

\* The in-degree counts the open inputs, and a node has left the waiting
\* ones, once, exactly when it has none.
QueueInv ==
    /\ \A i \in Nodes : indeg[i] = Cardinality(Open(i))
    /\ Distinct(order) /\ Distinct(ready)
    /\ Elements(order) \cap Elements(ready) = {}
    /\ \A i \in Nodes :
          i \in Elements(order) \cup Elements(ready)
              <=> indeg[i] = 0 /\ (phase = "seed" => i < dep)

SortInv ==
    /\ SortTypes
    /\ phase \in {"indegrees", "seed", "pop", "visit", "sorted"} => Linked
    /\ phase \in {"seed", "pop", "visit", "sorted"} => Checked
    /\ phase \in {"seed", "pop", "visit"} => QueueInv
    /\ phase \in SortPhases \cup {"sorted", "failed"} => OrderIsTopological
    /\ phase = "sorted" => Len(order) = NumNodes
    /\ phase = "failed" => ~WellFormed

\* p feeds i when one of the inputs of i is produced by p.
LEMMA FeedsIsProduces ==
  ASSUME IsGraph(graph), Linked, Checked, NEW p \in Nodes, NEW i \in Nodes
  PROVE  Feeds(p, i) <=> \E k \in DOMAIN graph.inputs[i] :
                            producer[graph.inputs[i][k]] = p
<1>1. ASSUME Feeds(p, i)
      PROVE  \E k \in DOMAIN graph.inputs[i] : producer[graph.inputs[i][k]] = p
  <2>1. PICK k \in DOMAIN graph.outputs[p], m \in DOMAIN graph.inputs[i] :
           graph.outputs[p][k] = graph.inputs[i][m]
    BY <1>1 DEF Feeds
  <2>2. /\ <<p, k>> \in OutputSlots
        /\ OutputAt(<<p, k>>) = graph.outputs[p][k]
    BY Slots
  <2>3. producer[OutputAt(<<p, k>>)] = <<p, k>>[1] BY <2>2 DEF Linked
  <2> QED BY <2>1, <2>2, <2>3
<1>2. ASSUME NEW m \in DOMAIN graph.inputs[i], producer[graph.inputs[i][m]] = p
      PROVE  Feeds(p, i)
  <2>0. p # -1 BY GraphTypes
  <2>1. /\ <<i, m>> \in InputSlots /\ InputAt(<<i, m>>) = graph.inputs[i][m]
    BY Slots
  <2>2. graph.inputs[i][m] \in TensorIds BY <2>1 DEF Checked
  <2>3. PICK s \in OutputSlots : OutputAt(s) = graph.inputs[i][m]
    BY <2>2, <2>0, <1>2 DEF Linked
  <2>4. s[1] = p BY <2>3, <1>2 DEF Linked
  <2>5. /\ s[2] \in DOMAIN graph.outputs[p]
        /\ graph.outputs[p][s[2]] = graph.inputs[i][m]
    BY <2>3, <2>4, Slots DEF OutputAt
  <2> QED BY <2>5 DEF Feeds
<1> QED BY <1>1, <1>2

\* What is before a node in an order is in the order.
LEMMA OrderTypes ==
  ASSUME SortTypes
  PROVE  /\ Len(order) \in Nat /\ DOMAIN order = 1 .. Len(order)
         /\ Len(ready) \in Nat /\ DOMAIN ready = 1 .. Len(ready)
         /\ Elements(order) \subseteq Nodes /\ Elements(ready) \subseteq Nodes
         /\ NumNodes \in Nat /\ Nodes = 0 .. NumNodes - 1 /\ dep \in Nat
<1>1. NumNodes \in Nat /\ Nodes = 0 .. NumNodes - 1
  BY GraphTypes DEF SortTypes
<1>2. /\ Len(order) \in Nat /\ DOMAIN order = 1 .. Len(order)
      /\ \A a \in DOMAIN order : order[a] \in Nodes
  BY DEF SortTypes
<1>3. /\ Len(ready) \in Nat /\ DOMAIN ready = 1 .. Len(ready)
      /\ \A a \in DOMAIN ready : ready[a] \in Nodes
  BY DEF SortTypes
<1>4. Elements(order) \subseteq Nodes /\ Elements(ready) \subseteq Nodes
  BY <1>2, <1>3 DEF Elements
<1>5. dep \in Nat BY <1>1 DEF SortTypes
<1> QED BY <1>1, <1>2, <1>3, <1>4, <1>5

\* The definitions read the graph, the producers and the order only.
LEMMA SameGraph ==
  ASSUME graph' = graph
  PROVE  /\ Nodes' = Nodes /\ NumNodes' = NumNodes /\ TensorIds' = TensorIds
         /\ InputSlots' = InputSlots /\ OutputSlots' = OutputSlots
         /\ \A s : InputAt(s)' = InputAt(s) /\ OutputAt(s)' = OutputAt(s)
         /\ \A p, i : Feeds(p, i)' <=> Feeds(p, i)
         /\ WellFormed' <=> WellFormed
         /\ IsGraph(graph)' <=> IsGraph(graph)
         /\ producer' = producer => (Linked' <=> Linked) /\ (Checked' <=> Checked)
         /\ order' = order => (OrderIsTopological' <=> OrderIsTopological)
BY DEF Nodes, NumNodes, TensorIds, InputSlots, OutputSlots, InputAt, OutputAt,
       Feeds, WellFormed, Cyclic, Linked, Checked, OrderIsTopological

\* Nothing is ordered yet: every order condition holds.
LEMMA EmptyOrder ==
  ASSUME order = <<>>
  PROVE  OrderIsTopological /\ Elements(order) = {} /\ Distinct(order)
BY DEF OrderIsTopological, Elements, Distinct

-----------------------------------------------------------------------------
(* The steps.                                                              *)

\* The first scan links every output to its writer, or finds two writers.
LEMMA ScanProducersKeeps == SortInv /\ ScanProducers => SortInv'
<1> SUFFICES ASSUME SortInv, ScanProducers PROVE SortInv' OBVIOUS
<1>1. /\ graph' = graph /\ order' = order /\ ready' = ready /\ dep' = dep
      /\ indeg' = indeg /\ phase = "producers"
      /\ phase' \in {"indegrees", "failed"}
  BY DEF ScanProducers
<1>2. order = <<>> /\ ready = <<>> /\ dep = 0
  BY <1>1 DEF SortInv, SortTypes
<1>3. SortTypes' BY <1>1, <1>2, SameGraph DEF SortInv, SortTypes
<1>4. OrderIsTopological' BY <1>1, <1>2, EmptyOrder, SameGraph
<1>5. CASE phase' = "indegrees"
  <2>1. /\ \A s \in OutputSlots : OutputAt(s) \in TensorIds
        /\ \A r, s \in OutputSlots : OutputAt(r) = OutputAt(s) => r = s
        /\ producer' = [t \in TensorIds |->
              IF \E s \in OutputSlots : OutputAt(s) = t
              THEN (CHOOSE s \in OutputSlots : OutputAt(s) = t)[1] ELSE -1]
    BY <1>5 DEF ScanProducers
  <2>2. ASSUME NEW s \in OutputSlots PROVE producer'[OutputAt(s)] = s[1]
    <3>1. (CHOOSE r \in OutputSlots : OutputAt(r) = OutputAt(s)) = s
      BY <2>1
    <3> QED BY <2>1, <3>1
  <2>3. ASSUME NEW t \in TensorIds, ~\E s \in OutputSlots : OutputAt(s) = t
        PROVE  producer'[t] = -1
    BY <2>1, <2>3
  <2>4. \A t \in TensorIds :
          producer'[t] # -1 => \E s \in OutputSlots : OutputAt(s) = t
    BY <2>3
  <2>5. \A t \in TensorIds : producer'[t] \in Nodes \cup {-1}
    BY <2>2, <2>3, Slots
  <2>6. producer' \in [TensorIds -> Nodes \cup {-1}] BY <2>1, <2>5
  <2>7. Linked' BY <1>1, <2>1, <2>2, <2>4, <2>6, SameGraph DEF Linked
  <2> QED BY <1>3, <1>4, <1>5, <2>7 DEF SortInv
<1>6. CASE phase' = "failed"
  <2>1. ~WellFormed BY <1>6 DEF ScanProducers, WellFormed
  <2>2. ~WellFormed' BY <2>1, <1>1, SameGraph
  <2> QED BY <1>3, <1>4, <1>6, <2>2 DEF SortInv
<1> QED BY <1>1, <1>5, <1>6

\* The second scan counts the inputs that some node produces, or finds one
\* that nobody does.
LEMMA ScanConsumersKeeps == SortInv /\ ScanConsumers => SortInv'
<1> SUFFICES ASSUME SortInv, ScanConsumers PROVE SortInv' OBVIOUS
<1>1. /\ graph' = graph /\ order' = order /\ ready' = ready /\ dep' = dep
      /\ producer' = producer /\ phase = "indegrees"
      /\ phase' \in {"seed", "failed"}
  BY DEF ScanConsumers
<1>2. order = <<>> /\ ready = <<>> /\ dep = 0
  BY <1>1 DEF SortInv, SortTypes
<1>3. Linked BY <1>1 DEF SortInv
<1>4. IsGraph(graph) BY DEF SortInv, SortTypes
<1>5. OrderIsTopological' BY <1>1, <1>2, EmptyOrder, SameGraph
<1>6. CASE phase' = "seed"
  <2> DEFINE produced(i) == {k \in DOMAIN graph.inputs[i] :
                                producer[graph.inputs[i][k]] # -1}
  <2>1. /\ Checked
        /\ indeg' = [i \in Nodes |-> Cardinality(produced(i))]
    BY <1>6 DEF ScanConsumers, Checked
  <2>2. ASSUME NEW i \in Nodes PROVE Cardinality(produced(i)) \in Nat
    <3>1. IsFiniteSet(DOMAIN graph.inputs[i]) BY <1>4, InputTypes
    <3>2. IsFiniteSet(produced(i)) BY <3>1, FS_Subset
    <3> QED BY <3>2, FS_CardinalityType
  <2>3. SortTypes'
    BY <1>1, <1>2, <1>6, <2>1, <2>2, SameGraph DEF SortInv, SortTypes
  <2>4. \A i \in Nodes : Open(i)' = produced(i)
    BY <1>1, <1>2, <1>6, EmptyOrder DEF Open, Settled, Elements
  <2>5. /\ Elements(order') = {} /\ Elements(ready') = {}
        /\ Distinct(order') /\ Distinct(ready')
    BY <1>1, <1>2 DEF Elements, Distinct
  <2>6. \A i \in Nodes : ~(i < dep') BY <1>1, <1>2, <1>4, GraphTypes
  <2>7. QueueInv'
    BY <2>1, <2>4, <2>5, <2>6, <1>1, <1>6, SameGraph DEF QueueInv
  <2> QED BY <1>1, <1>3, <1>5, <1>6, <2>1, <2>3, <2>7, SameGraph DEF SortInv
<1>7. CASE phase' = "failed"
  <2>1. SortTypes' BY <1>1, <1>7, SameGraph DEF SortInv, SortTypes, ScanConsumers
  <2>2. PICK s \in InputSlots :
           ~ (/\ InputAt(s) \in TensorIds
              /\ \/ producer[InputAt(s)] # -1
                 \/ graph.kind[InputAt(s)] \in {"input", "weight"})
    BY <1>7 DEF ScanConsumers
  <2>3. ASSUME NEW r \in OutputSlots, OutputAt(r) = InputAt(s)
        PROVE  producer[InputAt(s)] # -1
    BY <2>3, <1>3, <1>4, GraphTypes, Slots DEF Linked
  <2>4. ~WellFormed BY <2>2, <2>3 DEF WellFormed
  <2>5. ~WellFormed' BY <2>4, <1>1, SameGraph
  <2> QED BY <1>5, <1>7, <2>1, <2>5 DEF SortInv
<1> QED BY <1>1, <1>6, <1>7

\* One node more has been looked at.
LEMMA SeedReadyKeeps == SortInv /\ SeedReady => SortInv'
<1> SUFFICES ASSUME SortInv, SeedReady PROVE SortInv' OBVIOUS
<1>1. /\ graph' = graph /\ order' = order /\ producer' = producer /\ indeg' = indeg
      /\ phase = "seed" /\ phase' = "seed" /\ dep' = dep + 1 /\ dep < NumNodes
      /\ ready' = IF indeg[dep] = 0 THEN Append(ready, dep) ELSE ready
  BY DEF SeedReady
<1>2. order = <<>> /\ SortTypes /\ Linked /\ Checked /\ QueueInv
  BY <1>1 DEF SortInv, SortTypes
<1>t. /\ Len(ready) \in Nat /\ DOMAIN ready = 1 .. Len(ready)
      /\ NumNodes \in Nat /\ Nodes = 0 .. NumNodes - 1 /\ dep \in Nat
      /\ ready \in Seq(Nodes)
  BY <1>2, OrderTypes DEF SortTypes
<1>3. dep \in Nodes BY <1>1, <1>t
<1>4. dep \notin Elements(ready) BY <1>1, <1>2, <1>3, <1>t DEF QueueInv
<1>5. /\ ready' \in Seq(Nodes) /\ Distinct(ready')
      /\ Elements(ready') = Elements(ready) \cup (IF indeg[dep] = 0 THEN {dep} ELSE {})
  <2>1. Distinct(ready) BY <1>2 DEF QueueInv
  <2>2. CASE indeg[dep] = 0
    <3>1. ready' = Append(ready, dep) BY <1>1, <2>2
    <3> QED BY <3>1, <2>1, <2>2, <1>3, <1>4, <1>t, AppendElements
  <2>3. CASE indeg[dep] # 0
    <3>1. ready' = ready BY <1>1, <2>3
    <3> QED BY <3>1, <2>1, <2>3, <1>t
  <2> QED BY <2>2, <2>3
<1>6. SortTypes'
  BY <1>1, <1>2, <1>5, <1>t, SameGraph DEF SortTypes
<1>7. \A i \in Nodes : Open(i)' = Open(i)
  BY <1>1 DEF Open, Settled
<1>8. Elements(order) = {} /\ Distinct(order) BY <1>2, EmptyOrder
<1>9. \A i \in Nodes :
         i \in Elements(order') \cup Elements(ready') <=> indeg'[i] = 0 /\ i < dep'
  <2> TAKE i \in Nodes
  <2>1. i \in Elements(ready) <=> indeg[i] = 0 /\ i < dep
    BY <1>1, <1>2, <1>8 DEF QueueInv
  <2>2. i < dep' <=> i < dep \/ i = dep BY <1>1, <1>t
  <2> QED BY <2>1, <2>2, <1>1, <1>5, <1>8
<1>10. QueueInv'
  BY <1>1, <1>2, <1>5, <1>7, <1>8, <1>9, SameGraph DEF QueueInv
<1> QED BY <1>1, <1>2, <1>6, <1>10, EmptyOrder, SameGraph DEF SortInv

\* A step that only moves on to the phase "pop" leaves nobody in the dark.
LEMMA TurnToPop ==
  ASSUME SortInv, graph' = graph, producer' = producer, indeg' = indeg,
         ready' = ready, order' = order, dep' = dep,
         phase \in {"seed", "visit"}, phase' = "pop", dep = NumNodes
  PROVE  SortInv'
<1>1. /\ SortTypes /\ Linked /\ Checked /\ QueueInv /\ OrderIsTopological
  BY DEF SortInv, SortPhases
<1>t. NumNodes \in Nat /\ Nodes = 0 .. NumNodes - 1 BY <1>1, OrderTypes
<1>2. \A i \in Nodes : i < dep /\ ~(i >= dep) BY <1>t
<1>3. \A i \in Nodes : Open(i)' = Open(i)
  BY <1>2 DEF Open, Settled
<1>4. QueueInv' BY <1>1, <1>2, <1>3, SameGraph DEF QueueInv
<1>5. SortTypes' BY <1>1, SameGraph DEF SortTypes
<1> QED BY <1>1, <1>4, <1>5, SameGraph DEF SortInv

\* The head of the queue waits for nothing, so all that feeds it is ordered.
LEMMA PopReadyKeeps == SortInv /\ PopReady => SortInv'
<1> SUFFICES ASSUME SortInv, PopReady PROVE SortInv' OBVIOUS
<1> DEFINE h == Head(ready)
           n == Len(order)
<1>1. /\ graph' = graph /\ producer' = producer /\ indeg' = indeg
      /\ phase = "pop" /\ phase' = "visit" /\ dep' = 0 /\ ready # <<>>
      /\ order' = Append(order, h) /\ ready' = Tail(ready)
  BY DEF PopReady
<1>2. SortTypes /\ Linked /\ Checked /\ QueueInv /\ OrderIsTopological
  BY <1>1 DEF SortInv, SortPhases
<1>t. /\ n \in Nat /\ DOMAIN order = 1 .. n
      /\ Len(ready) \in Nat /\ DOMAIN ready = 1 .. Len(ready)
      /\ NumNodes \in Nat /\ Nodes = 0 .. NumNodes - 1
      /\ ready \in Seq(Nodes) /\ order \in Seq(Nodes)
  BY <1>2, OrderTypes DEF SortTypes
<1>3. /\ h \in Nodes /\ h \in Elements(ready)
      /\ ready' \in Seq(Nodes) /\ Distinct(ready')
      /\ Elements(ready') = Elements(ready) \ {h}
  BY <1>1, <1>2, <1>t, TailElements DEF QueueInv
<1>4. /\ order' \in Seq(Nodes) /\ Len(order') = n + 1 /\ DOMAIN order' = 1 .. n + 1
      /\ \A a \in 1 .. n : order'[a] = order[a]
      /\ order'[n + 1] = h /\ order' # <<>>
  BY <1>1, <1>3, <1>t
<1>5. h \notin Elements(order) BY <1>2, <1>3 DEF QueueInv
<1>6. Elements(order') = Elements(order) \cup {h} /\ Distinct(order')
  BY <1>1, <1>2, <1>3, <1>5, <1>t, AppendElements DEF QueueInv
<1> HIDE DEF h, n
<1>10. \A i \in Nodes : Open(i)' = Open(i)
  <2>1. \A i \in Nodes : i >= 0 BY <1>t
  <2>2. \A i \in Nodes : Settled(i)' = Elements(order') \ {h}
    BY <2>1, <1>1, <1>4 DEF Settled
  <2>3. \A i \in Nodes : Settled(i) = Elements(order) BY <1>1 DEF Settled
  <2>4. Elements(order') \ {h} = Elements(order) BY <1>5, <1>6
  <2> QED BY <2>2, <2>3, <2>4, <1>1 DEF Open
<1>11. SortTypes'
  <2>1. dep' \in 0 .. NumNodes /\ indeg' \in [Nodes -> Int] /\ IsGraph(graph)'
    BY <1>1, <1>2, <1>t, SameGraph DEF SortTypes
  <2> QED BY <2>1, <1>1, <1>3, <1>4, SameGraph DEF SortTypes
<1>12. QueueInv'
  <2>1. Elements(order') \cup Elements(ready') = Elements(order) \cup Elements(ready)
    BY <1>3, <1>6
  <2>2. Elements(order') \cap Elements(ready') = {}
    BY <1>2, <1>3, <1>6 DEF QueueInv
  <2> QED BY <2>1, <2>2, <1>1, <1>2, <1>3, <1>6, <1>10, SameGraph DEF QueueInv
<1>13. OrderIsTopological'
  <2>1. ASSUME NEW p \in Nodes, Feeds(p, h)
        PROVE  \E a \in 1 .. n : order[a] = p
    <3>1. PICK k \in DOMAIN graph.inputs[h] : producer[graph.inputs[h][k]] = p
      BY <2>1, <1>2, <1>3, FeedsIsProduces DEF SortTypes
    <3>2. indeg[h] = 0 BY <1>1, <1>2, <1>3 DEF QueueInv
    <3>3. IsFiniteSet(Open(h))
      BY <1>2, <1>3, InputTypes, FS_Subset DEF Open, SortTypes
    <3>4. Open(h) = {} BY <3>2, <3>3, <1>2, <1>3, FS_EmptySet DEF QueueInv
    <3>5. p \in Elements(order) BY <3>1, <3>4, <1>1, <1>t DEF Open, Settled
    <3> QED BY <3>5, <1>t DEF Elements
  <2>2. ASSUME NEW b \in DOMAIN order', NEW p \in Nodes, Feeds(p, order'[b])
        PROVE  \E a \in 1 .. b - 1 : order'[a] = p
    <3>1. CASE b = n + 1
      <4>1. PICK a \in 1 .. n : order[a] = p BY <2>1, <2>2, <3>1, <1>4
      <4>2. a \in 1 .. b - 1 /\ order'[a] = p BY <4>1, <3>1, <1>4, <1>t
      <4> QED BY <4>2
    <3>2. CASE b # n + 1
      <4>1. b \in 1 .. n /\ order'[b] = order[b] BY <2>2, <3>2, <1>4, <1>t
      <4>2. PICK a \in 1 .. b - 1 : order[a] = p
        BY <4>1, <2>2, <1>2, <1>t DEF OrderIsTopological
      <4>3. a \in 1 .. n BY <4>1, <1>t
      <4> QED BY <4>2, <4>3, <1>4
    <3> QED BY <3>1, <3>2
  <2>3. \A a, b \in DOMAIN order' : order'[a] = order'[b] => a = b
    BY <1>6 DEF Distinct
  <2> QED BY <2>2, <2>3, <1>1, SameGraph DEF OrderIsTopological
<1> QED BY <1>1, <1>2, <1>11, <1>12, <1>13, SameGraph DEF SortInv

\* One consumer more knows of the node popped last, and is queued when that
\* was all it waited for.
LEMMA VisitConsumerKeeps == SortInv /\ VisitConsumer => SortInv'
<1> SUFFICES ASSUME SortInv, VisitConsumer PROVE SortInv' OBVIOUS
<1> DEFINE last == order[Len(order)]
           from == InputsFrom(last, dep)
           k == Cardinality(from)
<1>1. /\ graph' = graph /\ producer' = producer /\ order' = order
      /\ phase = "visit" /\ phase' = "visit" /\ dep' = dep + 1 /\ dep < NumNodes
      /\ indeg' = [indeg EXCEPT ![dep] = @ - k]
      /\ ready' = IF k > 0 /\ indeg[dep] = k THEN Append(ready, dep) ELSE ready
  BY DEF VisitConsumer
<1>2. SortTypes /\ Linked /\ Checked /\ QueueInv /\ OrderIsTopological
  BY <1>1 DEF SortInv, SortPhases
<1>t. /\ Len(order) \in Nat /\ DOMAIN order = 1 .. Len(order) /\ order # <<>>
      /\ NumNodes \in Nat /\ Nodes = 0 .. NumNodes - 1 /\ dep \in Nat
      /\ ready \in Seq(Nodes) /\ order \in Seq(Nodes) /\ indeg \in [Nodes -> Int]
      /\ Elements(order) \subseteq Nodes
  BY <1>1, <1>2, OrderTypes DEF SortTypes
<1>3. dep \in Nodes BY <1>1, <1>t
<1>4. last \in Elements(order) /\ last # -1
  <2>1. Len(order) \in DOMAIN order BY <1>t
  <2>2. last \in Elements(order) BY <2>1, Zenon DEF Elements
  <2> QED BY <2>2, <1>t
<1> HIDE DEF last
<1>5. IsFiniteSet(Open(dep)) /\ IsFiniteSet(from)
  <2>1. IsFiniteSet(DOMAIN graph.inputs[dep])
    BY <1>2, <1>3, InputTypes DEF SortTypes
  <2>2. Open(dep) \subseteq DOMAIN graph.inputs[dep] BY DEF Open
  <2>3. from \subseteq DOMAIN graph.inputs[dep] BY DEF InputsFrom
  <2> QED BY <2>1, <2>2, <2>3, FS_Subset
<1>6. from \subseteq Open(dep)
  <2>1. dep >= dep BY <1>t
  <2>2. Settled(dep) = Elements(order) \ {last} BY <2>1, <1>1 DEF Settled, last
  <2> QED BY <2>2, <1>4 DEF Open, InputsFrom
<1>7. \A i \in Nodes : Open(i)' = IF i = dep THEN Open(i) \ from ELSE Open(i)
  <2> TAKE i \in Nodes
  <2>1. CASE i = dep
    <3>1. i >= dep /\ ~(i >= dep') BY <2>1, <1>1, <1>t
    <3>2. Settled(i) = Elements(order) \ {last} BY <3>1, <1>1 DEF Settled, last
    <3>3. Settled(i)' = Elements(order) BY <3>1, <1>1 DEF Settled
    <3>4. Open(i)' = Open(i) \ from
      BY <3>2, <3>3, <2>1, <1>1, <1>4 DEF Open, InputsFrom
    <3> QED BY <3>4, <2>1
  <2>2. CASE i # dep
    <3>1. i >= dep <=> i >= dep' BY <2>2, <1>1, <1>t
    <3>2. Settled(i)' = Settled(i) BY <3>1, <1>1 DEF Settled
    <3>3. Open(i)' = Open(i) BY <3>2, <1>1 DEF Open
    <3> QED BY <3>3, <2>2
  <2> QED BY <2>1, <2>2
<1>8. k \in Nat /\ indeg[dep] \in Nat /\ k <= indeg[dep]
      /\ Cardinality(Open(dep) \ from) = indeg[dep] - k
  <2>1. Open(dep) \cap from = from BY <1>6
  <2>2. Cardinality(Open(dep) \ from) = Cardinality(Open(dep)) - k
    BY <1>5, <2>1, FS_Difference
  <2>3. k \in Nat /\ Cardinality(Open(dep)) \in Nat BY <1>5, FS_CardinalityType
  <2>4. k <= Cardinality(Open(dep)) BY <1>5, <1>6, FS_Subset
  <2>5. Cardinality(Open(dep)) = indeg[dep] BY <1>2, <1>3 DEF QueueInv
  <2> QED BY <2>2, <2>3, <2>4, <2>5
<1> HIDE DEF k, from
<1>9. /\ indeg' \in [Nodes -> Int]
      /\ \A i \in Nodes : indeg'[i] = IF i = dep THEN indeg[i] - k ELSE indeg[i]
  BY <1>1, <1>3, <1>8, <1>t
<1>10. \A i \in Nodes : indeg'[i] = Cardinality(Open(i)')
  BY <1>2, <1>7, <1>8, <1>9 DEF QueueInv
<1>11. \A i \in Nodes : i \in Elements(order) \cup Elements(ready) <=> indeg[i] = 0
  BY <1>1, <1>2 DEF QueueInv
<1>12. /\ ready' \in Seq(Nodes) /\ Distinct(ready')
       /\ Elements(order) \cap Elements(ready') = {}
       /\ \A i \in Nodes :
             i \in Elements(order) \cup Elements(ready') <=> indeg'[i] = 0
  <2>1. CASE k > 0 /\ indeg[dep] = k
    <3>1. dep \notin Elements(order) \cup Elements(ready)
      BY <2>1, <1>3, <1>8, <1>11
    <3>2. /\ ready' \in Seq(Nodes) /\ Distinct(ready')
          /\ Elements(ready') = Elements(ready) \cup {dep}
      BY <2>1, <3>1, <1>1, <1>2, <1>3, <1>t, AppendElements DEF QueueInv
    <3>3. indeg'[dep] = 0 BY <2>1, <1>3, <1>8, <1>9
    <3>4. Elements(order) \cap Elements(ready') = {}
      BY <3>1, <3>2, <1>2 DEF QueueInv
    <3>5. \A i \in Nodes : i # dep => indeg'[i] = indeg[i] BY <1>9
    <3>6. ASSUME NEW i \in Nodes
          PROVE  i \in Elements(order) \cup Elements(ready') <=> indeg'[i] = 0
      <4>1. CASE i = dep BY <4>1, <3>2, <3>3
      <4>2. CASE i # dep
        <5>1. indeg'[i] = indeg[i] BY <4>2, <3>5
        <5>2. i \in Elements(ready') <=> i \in Elements(ready) BY <4>2, <3>2
        <5> QED BY <5>1, <5>2, <1>11
      <4> QED BY <4>1, <4>2
    <3> QED BY <3>2, <3>4, <3>6
  <2>2. CASE ~(k > 0 /\ indeg[dep] = k)
    <3>1. ready' = ready BY <2>2, <1>1
    <3>2. indeg'[dep] = 0 <=> indeg[dep] = 0 BY <2>2, <1>3, <1>8, <1>9
    <3>3. \A i \in Nodes : indeg'[i] = 0 <=> indeg[i] = 0 BY <3>2, <1>9, Zenon
    <3> QED BY <3>1, <3>3, <1>2, <1>11, <1>t DEF QueueInv
  <2> QED BY <2>1, <2>2
<1>13. SortTypes'
  <2>1. dep' \in 0 .. NumNodes /\ IsGraph(graph)'
    BY <1>1, <1>2, <1>t, SameGraph DEF SortTypes
  <2> QED BY <2>1, <1>1, <1>9, <1>12, <1>t, SameGraph DEF SortTypes
<1>14. QueueInv'
  BY <1>1, <1>2, <1>10, <1>12, SameGraph DEF QueueInv
<1> QED BY <1>1, <1>2, <1>13, <1>14, SameGraph DEF SortInv

\* An order of all the nodes in which none comes before one that feeds it
\* rules out a cycle: its first node in the order would have no feeder.
LEMMA NoCycle ==
  ASSUME SortTypes, OrderIsTopological, Elements(order) = Nodes
  PROVE  ~Cyclic
<1> SUFFICES ASSUME NEW S \in SUBSET Nodes, S # {},
                    \A i \in S : \E p \in S : Feeds(p, i)
             PROVE  FALSE
  BY DEF Cyclic
<1>t. Len(order) \in Nat /\ DOMAIN order = 1 .. Len(order) BY OrderTypes
<1> DEFINE T == {a \in 1 .. Len(order) : order[a] \in S}
<1>1. T \subseteq Nat /\ T # {}
  <2>1. PICK i \in S : TRUE OBVIOUS
  <2>2. i \in Elements(order) OBVIOUS
  <2>3. PICK a \in DOMAIN order : order[a] = i BY <2>2, Zenon DEF Elements
  <2> QED BY <2>3, <1>t
<1>2. PICK a \in T : \A b \in T : <<b, a>> \notin OpToRel(<, Nat)
  BY <1>1, WFMin, NatLessThanWellFounded
<1>3. \A b \in T : ~(b < a) BY <1>1, <1>2 DEF OpToRel
<1>4. PICK p \in S : Feeds(p, order[a]) OBVIOUS
<1>5. PICK b \in 1 .. a - 1 : order[b] = p
  BY <1>4, <1>t DEF OrderIsTopological
<1>6. b \in T /\ b < a BY <1>5, <1>4, <1>t
<1> QED BY <1>3, <1>6

\* An order with as many entries as there are nodes, all different, holds
\* every node.
LEMMA CompleteOrder ==
  ASSUME SortTypes, Distinct(order)
  PROVE  Len(order) = NumNodes <=> Elements(order) = Nodes
<1>t. /\ Len(order) \in Nat /\ DOMAIN order = 1 .. Len(order)
      /\ order \in [1 .. Len(order) -> Nodes] /\ NumNodes \in Nat
      /\ IsFiniteSet(Nodes)
  BY OrderTypes, GraphTypes DEF SortTypes
<1> DEFINE I == 1 .. Len(order)
<1>1. IsFiniteSet(I) /\ Cardinality(I) = Len(order) BY <1>t, FS_Interval
<1>2. order \in Injection(I, Nodes)
  BY <1>t DEF Injection, IsInjective, Distinct
<1>3. Len(order) = NumNodes <=> order \in Surjection(I, Nodes)
  BY <1>1, <1>2, <1>t, FS_Injection DEF NumNodes
<1>4. order \in Surjection(I, Nodes) <=> \A i \in Nodes : \E a \in I : order[a] = i
  BY <1>t DEF Surjection
<1>5. Elements(order) \subseteq Nodes BY OrderTypes
<1>6. Elements(order) = Nodes <=> \A i \in Nodes : \E a \in I : order[a] = i
  BY <1>5, <1>t, Zenon DEF Elements
<1> QED BY <1>3, <1>4, <1>6

\* With nothing queued, all nodes are ordered or each of the others waits for
\* one of the others.
LEMMA EndSortKeeps == SortInv /\ EndSort => SortInv'
<1> SUFFICES ASSUME SortInv, EndSort PROVE SortInv' OBVIOUS
<1>1. /\ graph' = graph /\ producer' = producer /\ order' = order
      /\ indeg' = indeg /\ ready' = ready /\ dep' = dep
      /\ phase = "pop" /\ ready = <<>>
      /\ phase' = IF Len(order) = NumNodes THEN "sorted" ELSE "failed"
  BY DEF EndSort
<1>2. SortTypes /\ Linked /\ Checked /\ QueueInv /\ OrderIsTopological
  BY <1>1 DEF SortInv, SortPhases
<1>3. SortTypes' BY <1>1, <1>2, SameGraph DEF SortTypes
<1>4. OrderIsTopological' BY <1>1, <1>2, SameGraph
<1>5. CASE Len(order) = NumNodes
  BY <1>1, <1>2, <1>3, <1>4, <1>5, SameGraph DEF SortInv
<1>6. CASE Len(order) # NumNodes
  <2> DEFINE S == Nodes \ Elements(order)
  <2>1. S # {}
    <3>1. Elements(order) # Nodes
      BY <1>2, <1>6, CompleteOrder DEF QueueInv
    <3>2. Elements(order) \subseteq Nodes BY <1>2, OrderTypes
    <3> QED BY <3>1, <3>2
  <2>2. ASSUME NEW i \in S PROVE \E p \in S : Feeds(p, i)
    <3>1. Elements(ready) = {} BY <1>1 DEF Elements
    <3>2. indeg[i] # 0 BY <3>1, <1>1, <1>2 DEF QueueInv
    <3>3. Open(i) # {} BY <3>2, <1>2, FS_EmptySet DEF QueueInv
    <3>4. PICK m \in DOMAIN graph.inputs[i] :
             /\ producer[graph.inputs[i][m]] # -1
             /\ producer[graph.inputs[i][m]] \notin Elements(order)
      BY <3>3, <1>1 DEF Open, Settled
    <3>5. graph.inputs[i][m] \in TensorIds
      BY <1>2, Slots DEF Checked
    <3>6. producer[graph.inputs[i][m]] \in Nodes BY <3>4, <3>5, <1>2 DEF Linked
    <3>7. Feeds(producer[graph.inputs[i][m]], i)
      BY <3>6, <1>2, FeedsIsProduces DEF SortTypes
    <3> QED BY <3>4, <3>6, <3>7
  <2>3. Cyclic BY <2>1, <2>2 DEF Cyclic
  <2>4. ~WellFormed BY <2>3 DEF WellFormed
  <2>5. ~WellFormed' BY <2>4, <1>1, SameGraph
  <2> QED BY <1>1, <1>3, <1>4, <1>6, <2>5 DEF SortInv
<1> QED BY <1>5, <1>6

\* What the steps of topo_order leave alone.
LEMMA SortStep ==
  ASSUME SortNext
  PROVE  /\ graph' = graph
         /\ phase \in SortPhases
         /\ phase' \in SortPhases \cup {"sorted", "failed"}
<1>1. CASE ScanProducers BY <1>1 DEF ScanProducers, SortPhases
<1>2. CASE ScanConsumers BY <1>2 DEF ScanConsumers, SortPhases
<1>3. CASE SeedReady BY <1>3 DEF SeedReady, SortPhases
<1>4. CASE StartPopping BY <1>4 DEF StartPopping, SortPhases
<1>5. CASE PopReady BY <1>5 DEF PopReady, SortPhases
<1>6. CASE VisitConsumer BY <1>6 DEF VisitConsumer, SortPhases
<1>7. CASE EndVisit BY <1>7 DEF EndVisit, SortPhases
<1>8. CASE EndSort BY <1>8 DEF EndSort, SortPhases
<1> QED BY <1>1, <1>2, <1>3, <1>4, <1>5, <1>6, <1>7, <1>8 DEF SortNext

\* Every step of topo_order keeps the invariant.
LEMMA SortInvNext == SortInv /\ SortNext => SortInv'
<1>1. SortInv /\ StartPopping => SortInv' BY TurnToPop DEF StartPopping
<1>2. SortInv /\ EndVisit => SortInv' BY TurnToPop DEF EndVisit
<1> QED
  BY <1>1, <1>2, ScanProducersKeeps, ScanConsumersKeeps, SeedReadyKeeps,
     PopReadyKeeps, VisitConsumerKeeps, EndSortKeeps DEF SortNext

\* So does every step of a user of topo_order that leaves the variables of the
\* sort alone, or goes on from a finished one.
LEMMA SortInvFrame ==
  ASSUME SortInv, graph' = graph, producer' = producer, order' = order,
         indeg' = indeg, ready' = ready, dep' = dep,
         phase' = phase \/ phase' \notin SortPhases \cup {"sorted", "failed"}
  PROVE  SortInv'
<1>1. SortTypes'
  BY SameGraph DEF SortInv, SortTypes, SortPhases
<1>2. CASE phase' = phase
  <2>1. \A i \in Nodes : Open(i)' = Open(i) BY <1>2 DEF Open, Settled
  <2>2. QueueInv => QueueInv' BY <1>2, <2>1, SameGraph DEF QueueInv
  <2> QED BY <1>1, <1>2, <2>2, SameGraph DEF SortInv
<1>3. CASE phase' \notin SortPhases \cup {"sorted", "failed"}
  BY <1>1, <1>3 DEF SortInv, SortPhases
<1> QED BY <1>2, <1>3

\* Where topo_order begins.
LEMMA SortInvInit == SortInit => SortInv
<1> SUFFICES ASSUME SortInit PROVE SortInv OBVIOUS
<1>1. /\ IsGraph(graph) /\ phase = "producers" /\ order = <<>> /\ ready = <<>>
      /\ dep = 0 /\ indeg = [i \in Nodes |-> 0]
  BY GraphsAssumption DEF SortInit
<1>2. NumNodes \in Nat BY <1>1, GraphTypes
<1>3. SortTypes BY <1>1, <1>2 DEF SortTypes
<1> QED BY <1>1, <1>3, EmptyOrder DEF SortInv

\* What the sort promises, at every moment of it.
LEMMA SortInvImplies ==
  ASSUME SortInv
  PROVE  /\ FailsExactlyWhenMalformed
         /\ phase = "sorted" =>
              /\ Elements(order) = Nodes /\ Distinct(order)
              /\ Linked /\ Checked /\ OrderIsTopological
<1>1. ASSUME phase = "sorted"
      PROVE  /\ Len(order) = NumNodes /\ Elements(order) = Nodes /\ Distinct(order)
             /\ Linked /\ Checked /\ OrderIsTopological /\ WellFormed
  <2>1. /\ SortTypes /\ Linked /\ Checked /\ OrderIsTopological
        /\ Len(order) = NumNodes
    BY <1>1 DEF SortInv
  <2>2. Distinct(order) BY <2>1 DEF OrderIsTopological, Distinct
  <2>3. Elements(order) = Nodes BY <2>1, <2>2, CompleteOrder
  <2>4. ~Cyclic BY <2>1, <2>3, NoCycle
  <2>5. \A s \in InputSlots :
          \/ graph.kind[InputAt(s)] \in {"input", "weight"}
          \/ \E r \in OutputSlots : OutputAt(r) = InputAt(s)
    BY <2>1 DEF Linked, Checked
  <2>6. WellFormed BY <2>1, <2>4, <2>5 DEF WellFormed, Linked, Checked
  <2> QED BY <2>1, <2>2, <2>3, <2>6
<1>2. phase = "failed" => ~WellFormed BY DEF SortInv
<1> QED BY <1>1, <1>2 DEF FailsExactlyWhenMalformed
=============================================================================
