----------------------------- MODULE FusionProofs -----------------------------
(***************************************************************************)
(* Proofs about fuse_matmul_bias_gelu, for every graph that the executor   *)
(* would run: the fused graph can be sorted, no chain is left in it, and   *)
(* if every chain ends its Add in a bias, no value changes.                *)
(***************************************************************************)
EXTENDS Fusion, TopoSortProofs

-----------------------------------------------------------------------------
(* The values of tensors.                                                  *)

Maker(g, t) == CHOOSE i \in Makers(g, t) : TRUE

\* What a tensor is worth when val says what the inputs of its maker are.
Given(g, val, t) ==
    IF Makers(g, t) = {} THEN <<"bound", g.name[t]>> ELSE Result(g, Maker(g, t), t, val)

\* The tensors that the node computing t reads.
Reads(g, t) ==
    IF Makers(g, t) = {} THEN {}
    ELSE {g.inputs[Maker(g, t)][k] : k \in DOMAIN g.inputs[Maker(g, t)]}

\* No kernel looks at an input that its node does not have.
HasOperands(g) ==
    \A i \in DOMAIN g.inputs :
        /\ g.op[i] \in {"MatMul", "Add"} => {1, 2} \subseteq DOMAIN g.inputs[i]
        /\ g.op[i] \in {"Gelu", "GeluTanh"} => 1 \in DOMAIN g.inputs[i]
        /\ g.op[i] \in FusedOps => {1, 2, 3} \subseteq DOMAIN g.inputs[i]

\* No tensor is computed from itself: from any set of tensors one can be
\* taken that is computed from none of them.
Founded(g) ==
    /\ HasOperands(g)
    /\ IsFiniteSet(DOMAIN g.kind)
    /\ \A t \in DOMAIN g.kind : Reads(g, t) \subseteq DOMAIN g.kind
    /\ \A T \in (SUBSET DOMAIN g.kind) \ {{}} : \E t \in T : Reads(g, t) \cap T = {}

\* A result depends on what the node does to its inputs, and on nothing else.
LEMMA ResultSame ==
  ASSUME NEW g, NEW i \in DOMAIN g.inputs, NEW t, NEW f, HasOperands(g),
         NEW h, NEW j, NEW u, NEW e, h.op[j] = g.op[i], h.rows[u] = g.rows[t],
         DOMAIN h.inputs[j] = DOMAIN g.inputs[i], DOMAIN h.outputs[j] = DOMAIN g.outputs[i],
         \A k \in DOMAIN g.inputs[i] :
            /\ e[h.inputs[j][k]] = f[g.inputs[i][k]]
            /\ h.rows[h.inputs[j][k]] = g.rows[g.inputs[i][k]],
         \A k \in DOMAIN g.outputs[i] : h.outputs[j][k] = u <=> g.outputs[i][k] = t
  PROVE  Result(h, j, u, e) = Result(g, i, t, f)
<1> DEFINE in(k) == g.inputs[i][k]
           to(k) == h.inputs[j][k]
<1>1. ASSUME NEW k, k \in DOMAIN g.inputs[i]
      PROVE  e[to(k)] = f[in(k)] /\ h.rows[to(k)] = g.rows[in(k)]
  BY <1>1
<1>2. CASE g.op[i] \in {"MatMul", "Add"}
  <2>1. {1, 2} \subseteq DOMAIN g.inputs[i] BY <1>2 DEF HasOperands
  <2>2. /\ e[to(1)] = f[in(1)] /\ h.rows[to(1)] = g.rows[in(1)]
        /\ e[to(2)] = f[in(2)] /\ h.rows[to(2)] = g.rows[in(2)]
    BY <1>1, <2>1
  <2>3. CASE g.op[i] = "MatMul" BY <2>2, <2>3 DEF Result, FusedOps
  <2>4. CASE g.op[i] = "Add" BY <2>2, <2>4 DEF Result, FusedOps
  <2> QED BY <1>2, <2>3, <2>4
<1>3. CASE g.op[i] \in {"Gelu", "GeluTanh"}
  <2>1. 1 \in DOMAIN g.inputs[i] BY <1>3 DEF HasOperands
  <2>2. e[to(1)] = f[in(1)] BY <1>1, <2>1
  <2>3. g.op[i] \notin {"MatMul", "Add"} BY <1>3
  <2> QED BY <1>3, <2>2, <2>3 DEF Result, FusedOps
<1>4. CASE g.op[i] \in FusedOps
  <2>1. {1, 2, 3} \subseteq DOMAIN g.inputs[i] BY <1>4 DEF HasOperands
  <2>2. /\ e[to(1)] = f[in(1)] /\ h.rows[to(1)] = g.rows[in(1)] /\ e[to(2)] = f[in(2)]
        /\ e[to(3)] = f[in(3)] /\ h.rows[to(3)] = g.rows[in(3)]
    BY <1>1, <2>1
  <2>3. g.op[i] \notin {"MatMul", "Add", "Gelu", "GeluTanh"} BY <1>4 DEF FusedOps
  <2> QED BY <1>4, <2>2, <2>3 DEF Result
<1>5. CASE g.op[i] \notin {"MatMul", "Add", "Gelu", "GeluTanh"} \cup FusedOps
  <2> DEFINE args == [k \in DOMAIN g.inputs[i] |-> f[in(k)]]
             put == CHOOSE k \in DOMAIN g.outputs[i] : g.outputs[i][k] = t
  <2>1. [k \in DOMAIN h.inputs[j] |-> e[to(k)]] = args OBVIOUS
  <2>2. (CHOOSE k \in DOMAIN h.outputs[j] : h.outputs[j][k] = u) = put OBVIOUS
  <2> DEFINE v(n, a) == <<g.op[i], n, a>>
  <2>3. /\ Result(g, i, t, f) = v(put, args)
        /\ Result(h, j, u, e) = v(CHOOSE k \in DOMAIN h.outputs[j] : h.outputs[j][k] = u,
                                  [k \in DOMAIN h.inputs[j] |-> e[to(k)]])
    BY <1>5 DEF Result
  <2> HIDE DEF v, args, put
  <2> QED BY <2>1, <2>2, <2>3
<1> QED BY <1>2, <1>3, <1>4, <1>5

LEMMA ResultByInputs ==
  ASSUME NEW g, NEW i \in DOMAIN g.inputs, NEW t, NEW f, NEW h, HasOperands(g),
         \A k \in DOMAIN g.inputs[i] : f[g.inputs[i][k]] = h[g.inputs[i][k]]
  PROVE  Result(g, i, t, f) = Result(g, i, t, h)
BY ResultSame

LEMMA GivenByReads ==
  ASSUME NEW g, NEW f, NEW h, NEW t, HasOperands(g), \A u \in Reads(g, t) : f[u] = h[u]
  PROVE  Given(g, f, t) = Given(g, h, t)
<1>1. CASE Makers(g, t) = {} BY <1>1 DEF Given
<1>2. CASE Makers(g, t) # {}
  <2>1. Maker(g, t) \in DOMAIN g.inputs BY <1>2 DEF Maker, Makers
  <2>2. \A k \in DOMAIN g.inputs[Maker(g, t)] :
          f[g.inputs[Maker(g, t)][k]] = h[g.inputs[Maker(g, t)][k]]
    BY <1>2 DEF Reads
  <2>3. Result(g, Maker(g, t), t, f) = Result(g, Maker(g, t), t, h)
    BY <2>1, <2>2, ResultByInputs
  <2> QED BY <1>2, <2>3 DEF Given
<1> QED BY <1>1, <1>2

IsValue(g, val) == val = [t \in DOMAIN g.kind |-> Given(g, val, t)]

\* There are such values: one tensor after the other can be given its value.
LEMMA ValueExists ==
  ASSUME NEW g, Founded(g)
  PROVE  \E val : IsValue(g, val)
<1> DEFINE T == DOMAIN g.kind
           N == Cardinality(T)
           Part(D, f) == /\ D \subseteq T
                         /\ \A t \in D : Reads(g, t) \subseteq D /\ f[t] = Given(g, f, t)
           S == {n \in Nat : n <= N =>
                    \E D, f : Part(D, f) /\ IsFiniteSet(D) /\ Cardinality(D) = n}
<1>1. IsFiniteSet(T) /\ N \in Nat BY FS_CardinalityType DEF Founded
<1>2. 0 \in S
  <2>1. Part({}, <<>>) OBVIOUS
  <2>2. IsFiniteSet({}) /\ Cardinality({}) = 0 BY FS_EmptySet
  <2> HIDE DEF Part, N
  <2> QED BY <2>1, <2>2
<1>3. ASSUME NEW n \in S PROVE n + 1 \in S
  <2> SUFFICES ASSUME n + 1 <= N
               PROVE  \E D, f : Part(D, f) /\ IsFiniteSet(D) /\ Cardinality(D) = n + 1
    OBVIOUS
  <2>1. PICK D, f : Part(D, f) /\ IsFiniteSet(D) /\ Cardinality(D) = n
    <3> HIDE DEF Part, N
    <3>1. n \in S /\ n \in Nat OBVIOUS
    <3>2. n <= N BY <1>1, <3>1
    <3> QED BY <3>1, <3>2, Zenon
  <2>2. T \ D # {}
    <3> SUFFICES ASSUME T = D PROVE FALSE BY <2>1
    <3> QED BY <2>1, <1>1
  <2>3. PICK t \in T \ D : Reads(g, t) \cap (T \ D) = {} BY <2>2, Zenon DEF Founded
  <2>4. Reads(g, t) \subseteq D /\ t \notin Reads(g, t) BY <2>3, Zenon DEF Founded
  <2> DEFINE h == [u \in T |-> IF u = t THEN Given(g, f, t) ELSE f[u]]
  <2>5. \A u \in D : h[u] = f[u] BY <2>1, <2>3
  <2>6. h[t] = Given(g, f, t) BY <2>3
  <2> HIDE DEF h
  <2>7. ASSUME NEW u \in D \cup {t}
        PROVE  Reads(g, u) \subseteq D \cup {t} /\ h[u] = Given(g, h, u)
    <3>1. Reads(g, u) \subseteq D BY <2>1, <2>4
    <3>2. \A x \in Reads(g, u) : f[x] = h[x] BY <3>1, <2>5
    <3>3. Given(g, f, u) = Given(g, h, u) BY <3>2, GivenByReads DEF Founded
    <3>4. h[u] = Given(g, f, u) BY <2>1, <2>5, <2>6
    <3> QED BY <3>1, <3>3, <3>4
  <2>8. Part(D \cup {t}, h) BY <2>1, <2>3, <2>7
  <2>9. IsFiniteSet(D \cup {t}) /\ Cardinality(D \cup {t}) = n + 1
    BY <2>1, <2>3, FS_AddElement
  <2> HIDE DEF Part
  <2> QED BY <2>8, <2>9
<1> HIDE DEF S
<1>4. S \in SUBSET Nat BY DEF S
<1>5. S = Nat BY <1>2, <1>3, <1>4, Induction
<1>6. PICK D, f : Part(D, f) /\ IsFiniteSet(D) /\ Cardinality(D) = N
  <2> HIDE DEF Part
  <2>1. N \in S /\ N <= N BY <1>1, <1>5
  <2> QED BY <2>1, Zenon DEF S
<1>7. D = T BY <1>1, <1>6, FS_Subset
<1> DEFINE val == [t \in T |-> f[t]]
<1>8. ASSUME NEW t \in T PROVE val[t] = Given(g, val, t)
  <2>1. Reads(g, t) \subseteq T /\ f[t] = Given(g, f, t) BY <1>6, <1>7
  <2>2. \A u \in Reads(g, t) : f[u] = val[u] BY <2>1
  <2>3. val[t] = f[t] OBVIOUS
  <2> HIDE DEF val
  <2> QED BY <2>1, <2>2, <2>3, GivenByReads DEF Founded
<1>9. IsValue(g, val)
  <2>1. val = [t \in T |-> val[t]] OBVIOUS
  <2> HIDE DEF val
  <2>2. [t \in T |-> val[t]] = [t \in T |-> Given(g, val, t)] BY <1>8, Zenon
  <2> QED BY <2>1, <2>2, Zenon DEF IsValue
<1> QED BY <1>9

\* And only one of each.
LEMMA ValueUnique ==
  ASSUME NEW g, NEW f, NEW h, Founded(g), IsValue(g, f), IsValue(g, h)
  PROVE  f = h
<1> DEFINE T == DOMAIN g.kind
           D == {t \in T : f[t] # h[t]}
<1>1. /\ f = [t \in T |-> Given(g, f, t)] /\ h = [t \in T |-> Given(g, h, t)]
  BY DEF IsValue
<1>2. D = {}
  <2> SUFFICES ASSUME D # {} PROVE FALSE OBVIOUS
  <2>1. PICK t \in D : Reads(g, t) \cap D = {} BY Zenon DEF Founded
  <2>2. t \in T /\ Reads(g, t) \subseteq T BY <2>1, Zenon DEF Founded
  <2>3. \A u \in Reads(g, t) : f[u] = h[u] BY <2>1, <2>2
  <2>4. Given(g, f, t) = Given(g, h, t) BY <2>3, GivenByReads DEF Founded
  <2>5. f[t] = Given(g, f, t) /\ h[t] = Given(g, h, t) BY <1>1, <2>2, Zenon
  <2> QED BY <2>1, <2>4, <2>5
<1>3. \A t \in T : f[t] = h[t] BY <1>2
<1>4. f = [t \in T |-> f[t]] /\ h = [t \in T |-> h[t]] BY <1>1
<1>5. [t \in T |-> f[t]] = [t \in T |-> h[t]] BY <1>3
<1> QED BY <1>4, <1>5, Zenon

LEMMA ValueIs ==
  ASSUME NEW g, Founded(g)
  PROVE  /\ IsValue(g, Value(g))
         /\ \A val : IsValue(g, val) => val = Value(g)
<1>1. Value(g) = CHOOSE val : IsValue(g, val)
  BY DEF Value, IsValue, Given, Maker
<1>2. IsValue(g, Value(g)) BY <1>1, ValueExists, Zenon
<1> QED BY <1>2, ValueUnique
-----------------------------------------------------------------------------
(* Graphs that can be sorted.                                              *)

Named(s) == {s[k] : k \in DOMAIN s}

Sortable(g) ==
    /\ IsGraph(g)
    /\ \A i \in DOMAIN g.inputs :
         /\ \A k \in DOMAIN g.inputs[i] :
              /\ g.inputs[i][k] \in DOMAIN g.kind
              /\ g.kind[g.inputs[i][k]] \in {"input", "weight"} \/ Makers(g, g.inputs[i][k]) # {}
         /\ \A k \in DOMAIN g.outputs[i] :
              /\ g.outputs[i][k] \in DOMAIN g.kind /\ Makers(g, g.outputs[i][k]) = {i}
              /\ \A l \in DOMAIN g.outputs[i] : g.outputs[i][l] = g.outputs[i][k] => l = k
    /\ \A S \in (SUBSET DOMAIN g.inputs) \ {{}} :
         \E i \in S : \A k \in DOMAIN g.inputs[i] : Makers(g, g.inputs[i][k]) \cap S = {}

LEMMA SortableIsWellFormed ==
  ASSUME Sortable(graph)
  PROVE  WellFormed
<1>1. IsGraph(graph) BY DEF Sortable
<1>2. /\ Nodes = DOMAIN graph.inputs /\ DOMAIN graph.outputs = Nodes
      /\ TensorIds = DOMAIN graph.kind
  BY <1>1, GraphTypes DEF Nodes, TensorIds
<1>a. ASSUME NEW i \in Nodes, NEW k \in DOMAIN graph.outputs[i]
      PROVE  /\ graph.outputs[i][k] \in TensorIds /\ Makers(graph, graph.outputs[i][k]) = {i}
             /\ \A l \in DOMAIN graph.outputs[i] : graph.outputs[i][l] = graph.outputs[i][k] => l = k
  BY <1>2 DEF Sortable
<1>b. ASSUME NEW i \in Nodes, NEW k \in DOMAIN graph.inputs[i]
      PROVE  /\ graph.inputs[i][k] \in TensorIds
             /\ \/ graph.kind[graph.inputs[i][k]] \in {"input", "weight"}
                \/ Makers(graph, graph.inputs[i][k]) # {}
  BY <1>2 DEF Sortable
<1>3. ASSUME NEW s \in OutputSlots
      PROVE  /\ s[1] \in Nodes /\ s[2] \in DOMAIN graph.outputs[s[1]]
             /\ OutputAt(s) = graph.outputs[s[1]][s[2]] /\ s = <<s[1], s[2]>>
             /\ OutputAt(s) \in TensorIds /\ Makers(graph, OutputAt(s)) = {s[1]}
  <2>1. /\ s[1] \in Nodes /\ s[2] \in DOMAIN graph.outputs[s[1]] /\ s = <<s[1], s[2]>>
        /\ OutputAt(s) = graph.outputs[s[1]][s[2]]
    BY DEF OutputSlots, OutputAt
  <2> QED BY <1>a, <2>1
<1>4. ASSUME NEW s \in InputSlots
      PROVE  /\ InputAt(s) \in TensorIds
             /\ graph.kind[InputAt(s)] \in {"input", "weight"} \/ Makers(graph, InputAt(s)) # {}
  <2>1. /\ s[1] \in Nodes /\ s[2] \in DOMAIN graph.inputs[s[1]]
        /\ InputAt(s) = graph.inputs[s[1]][s[2]]
    BY Slots DEF InputAt
  <2> QED BY <1>b, <2>1
<1>5. ASSUME NEW r \in OutputSlots, NEW s \in OutputSlots, OutputAt(r) = OutputAt(s)
      PROVE  r = s
  <2>1. r[1] = s[1] BY <1>3, <1>5
  <2>2. r[2] = s[2] BY <1>a, <1>3, <1>5, <2>1
  <2> QED BY <1>3, <2>1, <2>2, Zenon
<1>6. ASSUME NEW t, Makers(graph, t) # {} PROVE \E r \in OutputSlots : OutputAt(r) = t
  <2>1. PICK i \in Nodes : \E k \in DOMAIN graph.outputs[i] : graph.outputs[i][k] = t
    BY <1>2, <1>6 DEF Makers
  <2>2. PICK k \in DOMAIN graph.outputs[i] : graph.outputs[i][k] = t BY <2>1
  <2> QED BY <2>2, Slots
<1>7. ~Cyclic
  <2> SUFFICES ASSUME NEW S \in (SUBSET Nodes) \ {{}}, \A i \in S : \E p \in S : Feeds(p, i)
               PROVE  FALSE
    BY DEF Cyclic
  <2>1. PICK i \in S : \A k \in DOMAIN graph.inputs[i] : Makers(graph, graph.inputs[i][k]) \cap S = {}
    BY <1>2, Zenon DEF Sortable
  <2>2. PICK p \in S : Feeds(p, i) OBVIOUS
  <2>3. PICK k \in DOMAIN graph.outputs[p], l \in DOMAIN graph.inputs[i] :
          graph.outputs[p][k] = graph.inputs[i][l]
    BY <2>2 DEF Feeds
  <2>4. p \in Makers(graph, graph.inputs[i][l]) BY <1>2, <2>3 DEF Makers
  <2> QED BY <2>1, <2>4
<1> QED BY <1>3, <1>4, <1>5, <1>6, <1>7, Zenon DEF WellFormed

\* A graph that can be sorted computes no tensor from itself.
LEMMA SortableIsFounded ==
  ASSUME NEW g, Sortable(g), HasOperands(g)
  PROVE  Founded(g)
<1> DEFINE T == DOMAIN g.kind
           N == DOMAIN g.inputs
<1>1. IsFiniteSet(T) BY DEF Sortable, IsGraph
<1>2. ASSUME NEW t, Makers(g, t) # {}
      PROVE  /\ Maker(g, t) \in N /\ Maker(g, t) \in Makers(g, t)
             /\ Reads(g, t) = Named(g.inputs[Maker(g, t)])
  <2>1. Maker(g, t) \in Makers(g, t) BY <1>2 DEF Maker
  <2> QED BY <1>2, <2>1 DEF Makers, Reads, Named
<1>3. ASSUME NEW t \in T PROVE Reads(g, t) \subseteq T
  <2>1. CASE Makers(g, t) = {} BY <2>1 DEF Reads
  <2>2. CASE Makers(g, t) # {} BY <1>2, <2>2 DEF Sortable, Named
  <2> QED BY <2>1, <2>2
<1>4. ASSUME NEW D \in (SUBSET T) \ {{}} PROVE \E t \in D : Reads(g, t) \cap D = {}
  <2> DEFINE S == {i \in N : \E t \in D : i \in Makers(g, t)}
  <2>1. CASE S = {}
    <3>1. PICK t \in D : TRUE OBVIOUS
    <3>2. Makers(g, t) = {} BY <2>1 DEF Makers
    <3> QED BY <3>1, <3>2 DEF Reads
  <2>2. CASE S # {}
    <3>1. PICK i \in S : \A k \in DOMAIN g.inputs[i] : Makers(g, g.inputs[i][k]) \cap S = {}
      <4>1. S \in (SUBSET N) \ {{}} BY <2>2
      <4> HIDE DEF S
      <4> QED BY <4>1, Zenon DEF Sortable
    <3>2. PICK t \in D : i \in Makers(g, t) OBVIOUS
    <3>3. Makers(g, t) = {i} BY <3>2 DEF Sortable, Makers
    <3>4. Maker(g, t) = i BY <3>3 DEF Maker
    <3>5. Reads(g, t) = Named(g.inputs[i]) BY <1>2, <3>3, <3>4
    <3>6. CASE Reads(g, t) \cap D = {} BY <3>6
    <3>7. CASE Reads(g, t) \cap D # {}
      <4>1. PICK u \in D : u \in Named(g.inputs[i]) BY <3>5, <3>7
      <4>2. Makers(g, u) \cap S = {} BY <3>1, <4>1 DEF Named
      <4>3. Makers(g, u) \subseteq S BY DEF Makers
      <4>4. Makers(g, u) = {} BY <4>2, <4>3
      <4>5. Reads(g, u) \cap D = {} BY <4>4 DEF Reads
      <4> QED BY <4>1, <4>5
    <3> QED BY <3>6, <3>7
  <2> QED BY <2>1, <2>2
<1> QED BY <1>1, <1>3, <1>4 DEF Founded
-----------------------------------------------------------------------------
(* The chains.                                                             *)

\* The values of a function on a finite set.
LEMMA ImageIs ==
  ASSUME NEW S, IsFiniteSet(S), NEW f, f = [x \in S |-> f[x]]
  PROVE  /\ IsFiniteSet({f[x] : x \in S})
         /\ (\A x, y \in S : f[x] = f[y] => x = y)
              => Cardinality({f[x] : x \in S}) = Cardinality(S)
<1> DEFINE T == {f[x] : x \in S}
<1>1. f \in Surjection(S, T)
  <2>1. f \in [S -> T] OBVIOUS
  <2>2. \A t \in T : \E x \in S : f[x] = t OBVIOUS
  <2> QED BY <2>1, <2>2 DEF Surjection
<1>2. (\A x, y \in S : f[x] = f[y] => x = y) => f \in Injection(S, T)
  BY <1>1 DEF Surjection, Injection, IsInjective
<1> QED BY <1>1, <1>2, FS_Surjection

\* Where the nodes of a graph read t, and the first of them: Uses and
\* Consumer, of any graph.
UsesIn(g, t) ==
    {s \in UNION {{i} \X DOMAIN g.inputs[i] : i \in DOMAIN g.inputs} : g.inputs[s[1]][s[2]] = t}
ConsumerIn(g, t) ==
    CHOOSE i \in {s[1] : s \in UsesIn(g, t)} : \A s \in UsesIn(g, t) : i <= s[1]

LEMMA UsesFinite ==
  ASSUME NEW g, IsGraph(g), NEW t
  PROVE  IsFiniteSet(UsesIn(g, t)) /\ DOMAIN g.inputs \subseteq Nat
<1> DEFINE N == DOMAIN g.inputs
           f == [i \in N |-> {i} \X DOMAIN g.inputs[i]]
           R == {f[i] : i \in N}
<1>1. IsFiniteSet(N) /\ N = 0 .. Cardinality(N) - 1 /\ g.inputs \in [N -> Seq(Int)]
  BY DEF IsGraph
<1>2. f = [i \in N |-> f[i]] OBVIOUS
<1>3. \A i \in N : f[i] = {i} \X DOMAIN g.inputs[i] OBVIOUS
<1> HIDE DEF f
<1>4. IsFiniteSet(R) BY <1>1, <1>2, ImageIs
<1>5. ASSUME NEW T \in R PROVE IsFiniteSet(T)
  <2>1. PICK i \in N : T = {i} \X DOMAIN g.inputs[i] BY <1>3
  <2>2. g.inputs[i] \in Seq(Int) BY <1>1
  <2>3. DOMAIN g.inputs[i] = 1 .. Len(g.inputs[i]) /\ Len(g.inputs[i]) \in Nat BY <2>2
  <2>4. IsFiniteSet({i}) /\ IsFiniteSet(DOMAIN g.inputs[i])
    <3>1. IsFiniteSet({i}) BY FS_Singleton
    <3>2. 1 \in Int /\ Len(g.inputs[i]) \in Int BY <2>3
    <3>3. IsFiniteSet(1 .. Len(g.inputs[i])) BY <3>2, FS_Interval
    <3> QED BY <2>3, <3>1, <3>3
  <2> QED BY <2>1, <2>4, FS_Product
<1>6. UNION {{i} \X DOMAIN g.inputs[i] : i \in N} = UNION R BY <1>3
<1> HIDE DEF R
<1>7. IsFiniteSet(UNION R) BY <1>4, <1>5, FS_UNION
<1>8. UsesIn(g, t) \in SUBSET UNION R BY <1>6 DEF UsesIn
<1>9. IsFiniteSet(UsesIn(g, t)) BY <1>7, <1>8, FS_Subset
<1>10. Cardinality(N) \in Nat BY <1>1, FS_CardinalityType
<1>11. N \subseteq Nat
  <2> HIDE DEF N
  <2> QED BY <1>1, <1>10
<1> QED BY <1>9, <1>11

\* A tensor that is used once is read in one place.
LEMMA OneUse ==
  ASSUME NEW g, IsGraph(g), NEW t, Cardinality(UsesIn(g, t)) = 1
  PROVE  /\ ConsumerIn(g, t) \in DOMAIN g.inputs
         /\ \E k \in DOMAIN g.inputs[ConsumerIn(g, t)] :
              /\ g.inputs[ConsumerIn(g, t)][k] = t
              /\ \A i \in DOMAIN g.inputs : \A l \in DOMAIN g.inputs[i] :
                    g.inputs[i][l] = t => i = ConsumerIn(g, t) /\ l = k
<1>1. PICK s : UsesIn(g, t) = {s} BY UsesFinite, FS_Singleton
<1>2. {r[1] : r \in UsesIn(g, t)} = {s[1]} BY <1>1
<1>3. s \in UsesIn(g, t) BY <1>1
<1>4. /\ s[1] \in DOMAIN g.inputs /\ s[2] \in DOMAIN g.inputs[s[1]]
      /\ g.inputs[s[1]][s[2]] = t
  BY <1>3 DEF UsesIn
<1>5. s[1] <= s[1] BY <1>4, UsesFinite
<1>6. ConsumerIn(g, t) = s[1]
  <2>1. ConsumerIn(g, t) = CHOOSE i \in {s[1]} : \A r \in {s} : i <= r[1]
    BY <1>1, <1>2 DEF ConsumerIn
  <2> QED BY <1>5, <2>1
<1>7. ASSUME NEW i \in DOMAIN g.inputs, NEW l \in DOMAIN g.inputs[i], g.inputs[i][l] = t
      PROVE  i = s[1] /\ l = s[2]
  <2>1. <<i, l>> \in UsesIn(g, t) BY <1>7 DEF UsesIn
  <2>2. <<i, l>> = s BY <1>1, <2>1
  <2> QED BY <2>2
<1> QED BY <1>4, <1>6, <1>7

\* Fusable and Chain, of any graph.
FusableIn(g, t) ==
    /\ g.kind[t] = "intermediate"
    /\ Cardinality(UsesIn(g, t)) = 1
    /\ \A k \in DOMAIN g.results : g.results[k] # t
ChainIn(g, m, a, x) ==
    LET t0 == g.outputs[m][1]
        t1 == g.outputs[a][1]
    IN  /\ g.op[m] = "MatMul" /\ Len(g.outputs[m]) = 1
        /\ FusableIn(g, t0) /\ a = ConsumerIn(g, t0)
        /\ g.op[a] = "Add" /\ Len(g.inputs[a]) = 2 /\ Len(g.outputs[a]) = 1
        /\ g.inputs[a] # <<t0, t0>>
        /\ FusableIn(g, t1) /\ x = ConsumerIn(g, t1)
        /\ Len(g.inputs[x]) = 1 /\ Len(g.outputs[x]) = 1
        /\ g.op[x] \in {"Gelu", "GeluTanh"}

LEMMA UsesAre ==
  \A t : /\ Uses(t) = UsesIn(graph, t) /\ Consumer(t) = ConsumerIn(graph, t)
         /\ Fusable(t) <=> FusableIn(graph, t)
BY DEF Uses, Consumer, UsesIn, ConsumerIn, InputSlots, InputAt, Nodes, Fusable, FusableIn

LEMMA ChainsAre ==
  \A m, a, g : /\ Chain(m, a, g) <=> ChainIn(graph, m, a, g)
               /\ Chain(m, a, g)' <=> ChainIn(graph', m, a, g)
BY DEF Uses, Consumer, UsesIn, ConsumerIn, InputSlots, InputAt, Nodes, Fusable, FusableIn,
       Chain, ChainIn

LEMMA SeqOf ==
  ASSUME NEW S, NEW T, NEW s \in Seq(S), \A k \in DOMAIN s : s[k] \in T
  PROVE  s \in Seq(T)
<1>1. s \in [1 .. Len(s) -> T] /\ Len(s) \in Nat
  <2>1. s = [k \in 1 .. Len(s) |-> s[k]] /\ DOMAIN s = 1 .. Len(s) /\ Len(s) \in Nat OBVIOUS
  <2> QED BY <2>1
<1> QED BY <1>1

\* What is assumed of the graph that is handed to the pass.
LEMMA SourceIs ==
  ASSUME graph \in Graphs
  PROVE  /\ Sortable(graph) /\ HasOperands(graph) /\ IsGraph(graph)
         /\ DOMAIN graph.inputs = Nodes /\ DOMAIN graph.outputs = Nodes
         /\ DOMAIN graph.kind = TensorIds
         /\ NumNodes \in Nat /\ Nodes = 0 .. NumNodes - 1
         /\ \A i \in Nodes :
              /\ graph.inputs[i] \in Seq(TensorIds) /\ graph.outputs[i] \in Seq(TensorIds)
              /\ \A k \in DOMAIN graph.inputs[i] :
                   \/ graph.kind[graph.inputs[i][k]] \in {"input", "weight"}
                   \/ \E p \in Nodes : graph.inputs[i][k] \in Named(graph.outputs[p])
              /\ \A p \in Nodes : \A k \in DOMAIN graph.outputs[i], l \in DOMAIN graph.outputs[p] :
                   graph.outputs[i][k] = graph.outputs[p][l] => p = i /\ l = k
<1>1. IsGraph(graph) BY GraphsAssumption
<1>2. /\ DOMAIN graph.inputs = Nodes /\ DOMAIN graph.outputs = Nodes
      /\ DOMAIN graph.kind = TensorIds /\ NumNodes \in Nat /\ Nodes = 0 .. NumNodes - 1
      /\ \A i \in Nodes : graph.inputs[i] \in Seq(Int) /\ graph.outputs[i] \in Seq(Int)
  BY <1>1, GraphTypes DEF Nodes, TensorIds
<1>3. Sortable(graph) BY <1>1, FusionAssumption DEF Sortable
<1>4. HasOperands(graph)
  <2> SUFFICES ASSUME NEW i \in Nodes
      PROVE  /\ graph.op[i] \in {"MatMul", "Add"} => {1, 2} \subseteq DOMAIN graph.inputs[i]
             /\ graph.op[i] \in {"Gelu", "GeluTanh"} => 1 \in DOMAIN graph.inputs[i]
             /\ graph.op[i] \in FusedOps => {1, 2, 3} \subseteq DOMAIN graph.inputs[i]
    BY <1>2 DEF HasOperands
  <2>1. /\ graph.op[i] \in {"MatMul", "Add"} => Len(graph.inputs[i]) = 2
        /\ graph.op[i] \in {"Gelu", "GeluTanh"} => Len(graph.inputs[i]) = 1
        /\ graph.op[i] \in FusedOps => Len(graph.inputs[i]) = 3
    BY <1>2, FusionAssumption
  <2>2. DOMAIN graph.inputs[i] = 1 .. Len(graph.inputs[i]) BY <1>2
  <2>3. /\ Len(graph.inputs[i]) = 1 => 1 \in DOMAIN graph.inputs[i]
        /\ Len(graph.inputs[i]) = 2 => {1, 2} \subseteq DOMAIN graph.inputs[i]
        /\ Len(graph.inputs[i]) = 3 => {1, 2, 3} \subseteq DOMAIN graph.inputs[i]
    <3>1. 1 .. 1 = {1} /\ 1 .. 2 = {1, 2} /\ 1 .. 3 = {1, 2, 3} OBVIOUS
    <3> QED BY <2>2, <3>1
  <2> QED BY <2>1, <2>3
<1>5. ASSUME NEW i \in Nodes
      PROVE  /\ \A k \in DOMAIN graph.inputs[i] : graph.inputs[i][k] \in TensorIds
             /\ \A k \in DOMAIN graph.outputs[i] :
                  /\ graph.outputs[i][k] \in TensorIds
                  /\ Makers(graph, graph.outputs[i][k]) = {i}
                  /\ \A l \in DOMAIN graph.outputs[i] :
                       graph.outputs[i][l] = graph.outputs[i][k] => l = k
             /\ \A k \in DOMAIN graph.inputs[i] :
                  \/ graph.kind[graph.inputs[i][k]] \in {"input", "weight"}
                  \/ Makers(graph, graph.inputs[i][k]) # {}
  BY <1>2, <1>3 DEF Sortable
<1>6. ASSUME NEW i \in Nodes
      PROVE  graph.inputs[i] \in Seq(TensorIds) /\ graph.outputs[i] \in Seq(TensorIds)
  <2>1. graph.inputs[i] \in Seq(Int) /\ graph.outputs[i] \in Seq(Int) BY <1>2
  <2>2. /\ \A k \in DOMAIN graph.inputs[i] : graph.inputs[i][k] \in TensorIds
        /\ \A k \in DOMAIN graph.outputs[i] : graph.outputs[i][k] \in TensorIds
    BY <1>5
  <2> QED BY <2>1, <2>2, SeqOf
<1>7. \A t : Makers(graph, t) = {i \in Nodes : t \in Named(graph.outputs[i])}
  BY <1>2 DEF Makers, Named
<1>8. ASSUME NEW i \in Nodes, NEW p \in Nodes, NEW k \in DOMAIN graph.outputs[i],
             NEW l \in DOMAIN graph.outputs[p], graph.outputs[i][k] = graph.outputs[p][l]
      PROVE  p = i /\ l = k
  <2>1. {p} = {i} BY <1>5, <1>8
  <2> QED BY <1>5, <1>8, <2>1
<1>9. ASSUME NEW i \in Nodes, NEW k \in DOMAIN graph.inputs[i]
      PROVE  \/ graph.kind[graph.inputs[i][k]] \in {"input", "weight"}
             \/ \E p \in Nodes : graph.inputs[i][k] \in Named(graph.outputs[p])
  BY <1>5, <1>7
<1> QED BY <1>1, <1>2, <1>3, <1>4, <1>6, <1>8, <1>9

MatchInv ==
    /\ ni \in 0 .. NumNodes
    /\ \A m \in 0 .. ni - 1 : \A a, g \in Nodes : Chain(m, a, g) => m \in DOMAIN chains
    /\ \A m \in DOMAIN chains :
          /\ m \in Nodes /\ chains[m].add \in Nodes /\ chains[m].act \in Nodes
          /\ Chain(m, chains[m].add, chains[m].act)
          /\ chains[m].bias = Bias(m, chains[m].add)

Matched == source \in Graphs /\ graph = source /\ MatchInv

Anchors == DOMAIN chains
Adder(m) == chains[m].add
Actor(m) == chains[m].act
T0(m) == graph.outputs[m][1]
T1(m) == graph.outputs[Adder(m)][1]

\* A tensor that nobody but one input of one node knows.
Private(t, i, k) ==
    /\ t \in TensorIds /\ graph.kind[t] = "intermediate"
    /\ \A x \in DOMAIN graph.results : graph.results[x] # t
    /\ k \in DOMAIN graph.inputs[i] /\ graph.inputs[i][k] = t
    /\ \A j \in Nodes : \A l \in DOMAIN graph.inputs[j] :
          graph.inputs[j][l] = t => j = i /\ l = k

\* All that is known of a chain.
LEMMA ChainIs ==
  ASSUME Matched, NEW m \in Anchors
  PROVE  /\ m \in Nodes /\ graph.op[m] = "MatMul"
         /\ DOMAIN graph.inputs[m] = {1, 2} /\ DOMAIN graph.outputs[m] = {1}
         /\ Adder(m) \in Nodes /\ graph.op[Adder(m)] = "Add"
         /\ DOMAIN graph.inputs[Adder(m)] = {1, 2} /\ DOMAIN graph.outputs[Adder(m)] = {1}
         /\ Actor(m) \in Nodes /\ graph.op[Actor(m)] \in {"Gelu", "GeluTanh"}
         /\ DOMAIN graph.inputs[Actor(m)] = {1} /\ DOMAIN graph.outputs[Actor(m)] = {1}
         /\ chains[m].bias # T0(m)
         /\ \/ Private(T0(m), Adder(m), 1) /\ chains[m].bias = graph.inputs[Adder(m)][2]
            \/ Private(T0(m), Adder(m), 2) /\ chains[m].bias = graph.inputs[Adder(m)][1]
         /\ Private(T1(m), Actor(m), 1)
<1> DEFINE a == Adder(m)
           g == Actor(m)
<1>1. graph \in Graphs BY DEF Matched
<1>2. m \in Nodes /\ a \in Nodes /\ g \in Nodes /\ chains[m].bias = Bias(m, a) /\ Chain(m, a, g)
  BY DEF Matched, MatchInv, Anchors, Adder, Actor
<1>3. /\ graph.op[m] = "MatMul" /\ Len(graph.outputs[m]) = 1
      /\ Fusable(T0(m)) /\ a = Consumer(T0(m))
      /\ graph.op[a] = "Add" /\ Len(graph.inputs[a]) = 2 /\ Len(graph.outputs[a]) = 1
      /\ graph.inputs[a] # <<T0(m), T0(m)>>
      /\ Fusable(T1(m)) /\ g = Consumer(T1(m))
      /\ Len(graph.inputs[g]) = 1 /\ Len(graph.outputs[g]) = 1
      /\ graph.op[g] \in {"Gelu", "GeluTanh"}
  BY <1>2 DEF Chain, T0, T1
<1> HIDE DEF a, g
<1>4. \A i \in Nodes : graph.inputs[i] \in Seq(TensorIds) /\ graph.outputs[i] \in Seq(TensorIds)
  BY <1>1, SourceIs
<1>5. Len(graph.inputs[m]) = 2 BY <1>1, <1>2, <1>3, FusionAssumption, SourceIs
<1>6. /\ DOMAIN graph.inputs[m] = {1, 2} /\ DOMAIN graph.outputs[m] = {1}
      /\ DOMAIN graph.inputs[a] = {1, 2} /\ DOMAIN graph.outputs[a] = {1}
      /\ DOMAIN graph.inputs[g] = {1} /\ DOMAIN graph.outputs[g] = {1}
  BY <1>2, <1>3, <1>4, <1>5
<1>7. T0(m) \in TensorIds /\ T1(m) \in TensorIds
  <2>1. graph.outputs[m][1] \in TensorIds /\ graph.outputs[a][1] \in TensorIds
    BY <1>2, <1>4, <1>6
  <2> QED BY <2>1 DEF T0, T1, a
<1>8. ASSUME NEW t, Fusable(t), t \in TensorIds
      PROVE  \E k \in DOMAIN graph.inputs[Consumer(t)] : Private(t, Consumer(t), k)
  <2>1. PICK k \in DOMAIN graph.inputs[Consumer(t)] :
              /\ graph.inputs[Consumer(t)][k] = t
              /\ \A i \in Nodes : \A l \in DOMAIN graph.inputs[i] :
                    graph.inputs[i][l] = t => i = Consumer(t) /\ l = k
    <3>1. Cardinality(UsesIn(graph, t)) = 1 /\ Consumer(t) = ConsumerIn(graph, t)
      BY <1>8, UsesAre DEF Fusable
    <3>2. IsGraph(graph) /\ DOMAIN graph.inputs = Nodes BY <1>1, SourceIs
    <3> QED BY <3>1, <3>2, OneUse
  <2> QED BY <1>8, <2>1 DEF Private, Fusable
<1>9. \E k \in {1, 2} : Private(T0(m), a, k) BY <1>3, <1>6, <1>7, <1>8
<1>10. Private(T1(m), g, 1) BY <1>3, <1>6, <1>7, <1>8
<1>11. chains[m].bias = IF graph.inputs[a][1] = T0(m) THEN graph.inputs[a][2] ELSE graph.inputs[a][1]
  BY <1>2 DEF Bias, T0
<1>12. \/ Private(T0(m), a, 1) /\ chains[m].bias = graph.inputs[a][2] /\ chains[m].bias # T0(m)
       \/ Private(T0(m), a, 2) /\ chains[m].bias = graph.inputs[a][1] /\ chains[m].bias # T0(m)
  BY <1>2, <1>6, <1>9, <1>11 DEF Private
<1> QED BY <1>2, <1>3, <1>6, <1>10, <1>12 DEF a, g
-----------------------------------------------------------------------------
(* What is kept.                                                           *)

Stay == Nodes \ DroppedNodes
Live == TensorIds \ DroppedTensors

\* The node of the source that computes what node i of the new graph does.
LastOf(i) == IF i \in Anchors THEN Actor(i) ELSE i

LEMMA DroppedAre ==
  ASSUME Matched
  PROVE  /\ \A i : i \in DroppedNodes <=> \E m \in Anchors : i = Adder(m) \/ i = Actor(m)
         /\ \A t : t \in DroppedTensors <=> \E m \in Anchors : t = T0(m) \/ t = T1(m)
         /\ Anchors \subseteq Stay /\ DroppedNodes \subseteq Nodes
         /\ DroppedTensors \subseteq TensorIds
<1>1. \A i : i \in DroppedNodes <=> \E m \in Anchors : i = Adder(m) \/ i = Actor(m)
  BY DEF DroppedNodes, Anchors, Adder, Actor
<1>2. \A t : t \in DroppedTensors <=> \E m \in Anchors : t = T0(m) \/ t = T1(m)
  BY DEF DroppedTensors, Anchors, Adder, T0, T1
<1>3. ASSUME NEW m \in Anchors PROVE m \in Stay
  <2>1. m \in Nodes /\ graph.op[m] = "MatMul" BY ChainIs
  <2>2. \A n \in Anchors : graph.op[Adder(n)] = "Add" /\ graph.op[Actor(n)] \in {"Gelu", "GeluTanh"}
    BY ChainIs
  <2> QED BY <1>1, <2>1, <2>2 DEF Stay
<1>4. \A m \in Anchors : Adder(m) \in Nodes /\ Actor(m) \in Nodes BY ChainIs
<1>5. \A m \in Anchors : T0(m) \in TensorIds /\ T1(m) \in TensorIds BY ChainIs DEF Private
<1> QED BY <1>1, <1>2, <1>3, <1>4, <1>5

\* A node of the new graph reads what a node of the source reads, an anchor
\* also what its Add reads.
LEMMA FusedNodeIs ==
  ASSUME Matched, NEW i \in Stay
  PROVE  /\ InputsOf(i) \in Seq(TensorIds) /\ OutputsOf(i) \in Seq(TensorIds)
         /\ LastOf(i) \in Nodes /\ OutputsOf(i) = graph.outputs[LastOf(i)]
         /\ i \notin Anchors => InputsOf(i) = graph.inputs[i]
         /\ i \in Anchors =>
              /\ DOMAIN InputsOf(i) = {1, 2, 3} /\ chains[i].bias \in TensorIds
              /\ InputsOf(i)[1] = graph.inputs[i][1] /\ InputsOf(i)[2] = graph.inputs[i][2]
              /\ InputsOf(i)[3] = chains[i].bias
         /\ \A k \in DOMAIN InputsOf(i) :
              \E l \in {1, 2} :
                \/ k \in DOMAIN graph.inputs[i] /\ InputsOf(i)[k] = graph.inputs[i][k]
                \/ /\ i \in Anchors /\ l \in DOMAIN graph.inputs[Adder(i)]
                   /\ InputsOf(i)[k] = graph.inputs[Adder(i)][l]
                   /\ InputsOf(i)[k] # T0(i)
<1>1. graph \in Graphs BY DEF Matched
<1>2. i \in Nodes BY DEF Stay
<1>3. \A j \in Nodes : graph.inputs[j] \in Seq(TensorIds) /\ graph.outputs[j] \in Seq(TensorIds)
  BY <1>1, SourceIs
<1>4. CASE i \notin Anchors
  <2>1. InputsOf(i) = graph.inputs[i] /\ OutputsOf(i) = graph.outputs[i] /\ LastOf(i) = i
    BY <1>4 DEF InputsOf, OutputsOf, LastOf, Anchors
  <2> QED BY <1>2, <1>3, <1>4, <2>1
<1>5. CASE i \in Anchors
  <2> DEFINE b == chains[i].bias
  <2>1. /\ InputsOf(i) = <<graph.inputs[i][1], graph.inputs[i][2], b>>
        /\ OutputsOf(i) = graph.outputs[Actor(i)] /\ LastOf(i) = Actor(i)
    BY <1>5 DEF InputsOf, OutputsOf, LastOf, Anchors, Actor
  <2>2. /\ Adder(i) \in Nodes /\ Actor(i) \in Nodes
        /\ DOMAIN graph.inputs[i] = {1, 2} /\ DOMAIN graph.inputs[Adder(i)] = {1, 2}
        /\ b # T0(i) /\ \E l \in {1, 2} : b = graph.inputs[Adder(i)][l]
    BY <1>5, ChainIs
  <2>3. b \in TensorIds BY <1>3, <2>2
  <2>4. graph.inputs[i][1] \in TensorIds /\ graph.inputs[i][2] \in TensorIds
    BY <1>2, <1>3, <2>2
  <2> HIDE DEF b
  <2>5. /\ DOMAIN InputsOf(i) = {1, 2, 3} /\ InputsOf(i) \in Seq(TensorIds)
        /\ InputsOf(i)[1] = graph.inputs[i][1] /\ InputsOf(i)[2] = graph.inputs[i][2]
        /\ InputsOf(i)[3] = b
    <3>1. 1 .. 3 = {1, 2, 3} OBVIOUS
    <3> QED BY <2>1, <2>3, <2>4, <3>1
  <2>6. ASSUME NEW k \in DOMAIN InputsOf(i)
        PROVE  \E l \in {1, 2} :
                \/ k \in DOMAIN graph.inputs[i] /\ InputsOf(i)[k] = graph.inputs[i][k]
                \/ /\ i \in Anchors /\ l \in DOMAIN graph.inputs[Adder(i)]
                   /\ InputsOf(i)[k] = graph.inputs[Adder(i)][l]
                   /\ InputsOf(i)[k] # T0(i)
    <3>1. CASE k \in {1, 2} BY <2>2, <2>5, <3>1
    <3>2. CASE k = 3 BY <1>5, <2>2, <2>5, <3>2
    <3> QED BY <2>5, <3>1, <3>2
  <2>7. graph.outputs[Actor(i)] \in Seq(TensorIds) BY <1>3, <2>2
  <2> QED BY <1>5, <2>1, <2>2, <2>3, <2>5, <2>6, <2>7 DEF b
<1> QED BY <1>4, <1>5

\* The lists of what is kept.
LEMMA KeptNodesAre ==
  ASSUME Matched
  PROVE  /\ Len(KeptNodes) \in Nat /\ DOMAIN KeptNodes = 1 .. Len(KeptNodes)
         /\ \A j \in 0 .. Len(KeptNodes) - 1 : KeptNodes[j + 1] \in Stay
         /\ \A i \in Stay : \E j \in 0 .. Len(KeptNodes) - 1 : KeptNodes[j + 1] = i
         /\ \A j, k \in 0 .. Len(KeptNodes) - 1 : KeptNodes[j + 1] = KeptNodes[k + 1] => j = k
         /\ Len(KeptNodes) = Cardinality(Stay)
<1> DEFINE K == KeptNodes
           n == Len(K)
<1>1. NumNodes \in Nat /\ Nodes = 0 .. NumNodes - 1 BY SourceIs DEF Matched
<1>2. /\ K \in Seq(Nat) /\ Distinct(K)
      /\ Elements(K) = {i \in 0 .. NumNodes - 1 : i \notin DroppedNodes}
      /\ Len(K) = Cardinality(Below(DroppedNodes, NumNodes))
  BY <1>1, AllButIs DEF KeptNodes
<1>3. Stay = {i \in 0 .. NumNodes - 1 : i \notin DroppedNodes} BY <1>1 DEF Stay
<1>4. Below(DroppedNodes, NumNodes) = Stay BY <1>3 DEF Below
<1> HIDE DEF K
<1>5. n \in Nat /\ DOMAIN K = 1 .. n /\ n = Cardinality(Stay) BY <1>2, <1>4
<1> HIDE DEF n
<1>6. \A j \in 0 .. n - 1 : j + 1 \in 1 .. n BY <1>5
<1>7. \A j \in 0 .. n - 1 : K[j + 1] \in Stay BY <1>2, <1>3, <1>5, <1>6 DEF Elements
<1>8. ASSUME NEW i \in Stay PROVE \E j \in 0 .. n - 1 : K[j + 1] = i
  <2>1. PICK a \in 1 .. n : K[a] = i BY <1>2, <1>3, <1>5 DEF Elements
  <2>2. a - 1 \in 0 .. n - 1 /\ (a - 1) + 1 = a BY <1>5
  <2> QED BY <2>1, <2>2
<1>9. ASSUME NEW j \in 0 .. n - 1, NEW k \in 0 .. n - 1, K[j + 1] = K[k + 1] PROVE j = k
  <2>1. j + 1 = k + 1 BY <1>2, <1>5, <1>6, <1>9 DEF Distinct
  <2> QED BY <2>1
<1> QED BY <1>5, <1>7, <1>8, <1>9 DEF K, n

LEMMA KeptTensorsAre ==
  ASSUME Matched
  PROVE  /\ Len(Kept) \in Nat /\ Len(Kept) = Cardinality(Live)
         /\ \A t \in 0 .. Len(Kept) - 1 : Kept[t + 1] \in Live /\ Remap(Kept[t + 1]) = t
         /\ \A t \in Live : Remap(t) \in 0 .. Len(Kept) - 1 /\ Kept[Remap(t) + 1] = t
<1> DEFINE K == Kept
           n == Len(K)
           N == Cardinality(TensorIds)
<1>1. N \in Nat /\ TensorIds = 0 .. N - 1
  <2>1. IsGraph(graph) BY SourceIs DEF Matched
  <2>2. IsFiniteSet(TensorIds) BY <2>1, GraphTypes
  <2>3. TensorIds = 0 .. N - 1 BY <2>1 DEF IsGraph, TensorIds
  <2> QED BY <2>2, <2>3, FS_CardinalityType
<1> HIDE DEF N
<1>2. Kept = AllBut(N, DroppedTensors) BY DEF Kept, N
<1>3. /\ K \in Seq(Nat) /\ Distinct(K)
      /\ Elements(K) = {i \in 0 .. N - 1 : i \notin DroppedTensors}
      /\ Len(K) = Cardinality(Below(DroppedTensors, N))
      /\ \A i \in 0 .. N - 1 : i \notin DroppedTensors =>
            /\ Cardinality(Below(DroppedTensors, i)) \in 0 .. Len(K) - 1
            /\ K[Cardinality(Below(DroppedTensors, i)) + 1] = i
  BY <1>1, <1>2, AllButIs
<1>4. Live = {i \in 0 .. N - 1 : i \notin DroppedTensors} BY <1>1 DEF Live
<1>5. Below(DroppedTensors, N) = Live BY <1>4 DEF Below
<1>6. ASSUME NEW t \in Live PROVE Remap(t) = Cardinality(Below(DroppedTensors, t))
  <2>1. {u \in TensorIds \ DroppedTensors : u < t} = Below(DroppedTensors, t)
    BY <1>1, <1>4 DEF Below
  <2> QED BY <2>1 DEF Remap
<1> HIDE DEF K
<1>7. n \in Nat /\ DOMAIN K = 1 .. n /\ n = Cardinality(Live) BY <1>3, <1>5
<1>8. ASSUME NEW t \in Live PROVE Remap(t) \in 0 .. n - 1 /\ K[Remap(t) + 1] = t
  BY <1>3, <1>4, <1>6
<1> HIDE DEF n
<1>9. ASSUME NEW t \in 0 .. n - 1 PROVE K[t + 1] \in Live /\ Remap(K[t + 1]) = t
  <2>1. t + 1 \in 1 .. n /\ t \in Int BY <1>7
  <2>2. K[t + 1] \in Live BY <1>3, <1>4, <1>7, <2>1 DEF Elements
  <2> DEFINE r == Remap(K[t + 1])
  <2>3. r \in 0 .. n - 1 /\ K[r + 1] = K[t + 1] BY <1>8, <2>2
  <2> HIDE DEF r
  <2>4. r + 1 \in 1 .. n BY <1>7, <2>3
  <2>5. r + 1 = t + 1 BY <1>3, <1>7, <2>1, <2>3, <2>4 DEF Distinct
  <2>6. r = t BY <1>7, <2>3, <2>5
  <2> QED BY <2>2, <2>6 DEF r
<1> QED BY <1>7, <1>8, <1>9 DEF K, n

\* What the new graph would name, seen from the source.
LEMMA NamesDroppedIs ==
  ASSUME Matched
  PROVE  ~NamesDropped <=>
           \A i \in Stay :
             /\ \A k \in DOMAIN InputsOf(i) : InputsOf(i)[k] \in Live
             /\ \A k \in DOMAIN OutputsOf(i) : OutputsOf(i)[k] \in Live
<1> DEFINE K == KeptNodes
           n == Len(K)
           Names(i) == \/ \E k \in DOMAIN InputsOf(i) : InputsOf(i)[k] \in DroppedTensors
                       \/ \E k \in DOMAIN OutputsOf(i) : OutputsOf(i)[k] \in DroppedTensors
<1>1. NamesDropped <=> \E a \in DOMAIN K : Names(K[a]) BY DEF NamesDropped
<1>2. n \in Nat /\ DOMAIN K = 1 .. n BY KeptNodesAre
<1>3. \A i \in Stay : \E j \in 0 .. n - 1 : K[j + 1] = i BY KeptNodesAre
<1>4. \A j \in 0 .. n - 1 : K[j + 1] \in Stay BY KeptNodesAre
<1> HIDE DEF K, n, Names
<1>5. \A a \in 1 .. n : K[a] \in Stay
  <2> TAKE a \in 1 .. n
  <2>1. a - 1 \in 0 .. n - 1 /\ (a - 1) + 1 = a BY <1>2
  <2> QED BY <1>4, <2>1
<1>6. \A i \in Stay : \E a \in 1 .. n : K[a] = i
  <2> TAKE i \in Stay
  <2>1. PICK j \in 0 .. n - 1 : K[j + 1] = i BY <1>3
  <2>2. j + 1 \in 1 .. n BY <1>2
  <2> QED BY <2>1, <2>2
<1>7. NamesDropped <=> \E i \in Stay : Names(i) BY <1>1, <1>2, <1>5, <1>6
<1>8. ASSUME NEW i \in Stay
      PROVE  ~Names(i) <=>
               /\ \A k \in DOMAIN InputsOf(i) : InputsOf(i)[k] \in Live
               /\ \A k \in DOMAIN OutputsOf(i) : OutputsOf(i)[k] \in Live
  <2>1. InputsOf(i) \in Seq(TensorIds) /\ OutputsOf(i) \in Seq(TensorIds) BY FusedNodeIs
  <2>2. /\ \A k \in DOMAIN InputsOf(i) : InputsOf(i)[k] \in TensorIds
        /\ \A k \in DOMAIN OutputsOf(i) : OutputsOf(i)[k] \in TensorIds
    BY <2>1
  <2> QED BY <2>2 DEF Names, Live
<1> QED BY <1>7, <1>8

\* Two chains have nothing in common.
LEMMA Untangled ==
  ASSUME Matched, ~NamesDropped, NEW m \in Anchors, NEW n \in Anchors
  PROVE  /\ Adder(m) = Adder(n) => m = n
         /\ Actor(m) = Actor(n) => m = n
         /\ T0(m) = T0(n) => m = n
         /\ T1(m) = T1(n) => m = n
         /\ T0(m) # T1(n) /\ Adder(m) # Actor(n) /\ m # Adder(n) /\ m # Actor(n)
<1>1. graph \in Graphs BY DEF Matched
<1>2. \A i, p \in Nodes : \A k \in DOMAIN graph.outputs[i], l \in DOMAIN graph.outputs[p] :
         graph.outputs[i][k] = graph.outputs[p][l] => p = i
  BY <1>1, SourceIs
<1>3. \A x \in Anchors :
         /\ x \in Nodes /\ graph.op[x] = "MatMul" /\ DOMAIN graph.outputs[x] = {1}
         /\ Adder(x) \in Nodes /\ graph.op[Adder(x)] = "Add" /\ DOMAIN graph.outputs[Adder(x)] = {1}
         /\ DOMAIN graph.inputs[Adder(x)] = {1, 2}
         /\ Actor(x) \in Nodes /\ graph.op[Actor(x)] \in {"Gelu", "GeluTanh"}
         /\ Private(T1(x), Actor(x), 1)
         /\ \/ Private(T0(x), Adder(x), 1) /\ chains[x].bias = graph.inputs[Adder(x)][2]
            \/ Private(T0(x), Adder(x), 2) /\ chains[x].bias = graph.inputs[Adder(x)][1]
  BY ChainIs
<1>4. T0(m) = T0(n) => m = n BY <1>2, <1>3 DEF T0
<1>5. T1(m) = T1(n) => Adder(m) = Adder(n) BY <1>2, <1>3 DEF T1
<1>6. /\ T0(m) # T1(n) /\ Adder(m) # Actor(n) /\ m # Adder(n) /\ m # Actor(n)
  <2>1. Adder(m) # Actor(n) /\ m # Adder(n) /\ m # Actor(n) BY <1>3
  <2>2. T0(m) # T1(n) BY <1>2, <1>3, <2>1 DEF T0, T1
  <2> QED BY <2>1, <2>2
<1>7. Actor(m) = Actor(n) => T1(m) = T1(n)
  <2>1. T1(m) = graph.inputs[Actor(m)][1] /\ T1(n) = graph.inputs[Actor(n)][1]
    BY <1>3 DEF Private
  <2> QED BY <2>1
<1>8. ASSUME Adder(m) = Adder(n) PROVE m = n
  <2> SUFFICES ASSUME m # n PROVE FALSE OBVIOUS
  <2>1. T0(m) # T0(n) BY <1>4
  <2>2. chains[m].bias = T0(n) BY <1>3, <1>8, <2>1 DEF Private
  <2>3. m \in Stay BY DroppedAre
  <2>4. 3 \in DOMAIN InputsOf(m) /\ InputsOf(m)[3] = chains[m].bias BY <2>3, FusedNodeIs
  <2>5. chains[m].bias \in Live BY <2>3, <2>4, NamesDroppedIs
  <2>6. T0(n) \in DroppedTensors BY DroppedAre
  <2> QED BY <2>2, <2>5, <2>6 DEF Live
<1> QED BY <1>4, <1>5, <1>6, <1>7, <1>8

\* Who writes a tensor that is kept is kept, or ends a chain.
LEMMA MakerStays ==
  ASSUME Matched, NEW p \in Nodes, NEW t \in Named(graph.outputs[p]), t \in Live
  PROVE  \E i \in Stay : LastOf(i) = p
<1>1. \A m \in Anchors : DOMAIN graph.outputs[m] = {1} /\ DOMAIN graph.outputs[Adder(m)] = {1}
  BY ChainIs
<1>2. \A m \in Anchors : T0(m) \notin Live /\ T1(m) \notin Live BY DroppedAre DEF Live
<1>3. \A m \in Anchors : p # m /\ p # Adder(m)
  BY <1>1, <1>2 DEF Named, T0, T1
<1>4. CASE p \in DroppedNodes
  <2>1. PICK m \in Anchors : p = Actor(m) BY <1>3, <1>4, DroppedAre
  <2>2. m \in Stay BY DroppedAre
  <2> QED BY <2>1, <2>2 DEF LastOf
<1>5. CASE p \notin DroppedNodes
  <2>1. p \in Stay /\ p \notin Anchors BY <1>3, <1>5 DEF Stay
  <2> QED BY <2>1 DEF LastOf
<1> QED BY <1>4, <1>5

LEMMA LastApart ==
  ASSUME Matched, ~NamesDropped, NEW i \in Stay, NEW j \in Stay, LastOf(i) = LastOf(j)
  PROVE  i = j
<1>1. \A m \in Anchors : Actor(m) \notin Stay BY DroppedAre DEF Stay
<1>2. i \in Anchors <=> j \in Anchors BY <1>1 DEF LastOf
<1>3. CASE i \in Anchors /\ j \in Anchors BY <1>3, Untangled DEF LastOf
<1>4. CASE i \notin Anchors /\ j \notin Anchors BY <1>4 DEF LastOf
<1> QED BY <1>2, <1>3, <1>4
-----------------------------------------------------------------------------
(* The new graph.                                                          *)

NodeAt(j) == KeptNodes[j + 1]
TensorAt(t) == Kept[t + 1]
NewNodes == 0 .. Len(KeptNodes) - 1
NewTensors == 0 .. Len(Kept) - 1

\* Its tables are those of the source, of what is kept, with new names.
LEMMA RebuiltIs ==
  ASSUME Matched, ~NamesDropped
  PROVE  /\ DOMAIN Rebuilt.kind = NewTensors /\ DOMAIN Rebuilt.inputs = NewNodes
         /\ \A t \in NewTensors :
              /\ TensorAt(t) \in Live /\ Remap(TensorAt(t)) = t
              /\ Rebuilt.kind[t] = graph.kind[TensorAt(t)]
              /\ Rebuilt.rows[t] = graph.rows[TensorAt(t)]
              /\ Rebuilt.name[t] = graph.name[TensorAt(t)]
         /\ \A j \in NewNodes :
              /\ NodeAt(j) \in Stay
              /\ Rebuilt.op[j] = OpOf(NodeAt(j))
              /\ DOMAIN Rebuilt.inputs[j] = DOMAIN InputsOf(NodeAt(j))
              /\ DOMAIN Rebuilt.outputs[j] = DOMAIN OutputsOf(NodeAt(j))
              /\ \A k \in DOMAIN InputsOf(NodeAt(j)) :
                   /\ Rebuilt.inputs[j][k] \in NewTensors
                   /\ TensorAt(Rebuilt.inputs[j][k]) = InputsOf(NodeAt(j))[k]
              /\ \A k \in DOMAIN OutputsOf(NodeAt(j)) :
                   /\ Rebuilt.outputs[j][k] \in NewTensors
                   /\ TensorAt(Rebuilt.outputs[j][k]) = OutputsOf(NodeAt(j))[k]
         /\ DOMAIN Rebuilt.results = DOMAIN graph.results
         /\ \A k \in DOMAIN graph.results :
              /\ Rebuilt.results[k] \in NewTensors
              /\ TensorAt(Rebuilt.results[k]) = graph.results[k]
         /\ IsGraph(Rebuilt)
<1> DEFINE R == Rebuilt
<1>1. /\ R.kind = [t \in NewTensors |-> graph.kind[TensorAt(t)]]
      /\ R.rows = [t \in NewTensors |-> graph.rows[TensorAt(t)]]
      /\ R.name = [t \in NewTensors |-> graph.name[TensorAt(t)]]
      /\ R.op = [j \in NewNodes |-> OpOf(NodeAt(j))]
      /\ R.inputs = [j \in NewNodes |-> RemapAll(InputsOf(NodeAt(j)))]
      /\ R.outputs = [j \in NewNodes |-> RemapAll(OutputsOf(NodeAt(j)))]
      /\ R.results = RemapAll(graph.results)
  BY DEF Rebuilt, NewTensors, NewNodes, TensorAt, NodeAt
<1> HIDE DEF R
<1>2. /\ Len(KeptNodes) \in Nat /\ Len(Kept) \in Nat
      /\ \A j \in NewNodes : NodeAt(j) \in Stay
      /\ \A t \in NewTensors : TensorAt(t) \in Live /\ Remap(TensorAt(t)) = t
      /\ \A t \in Live : Remap(t) \in NewTensors /\ TensorAt(Remap(t)) = t
  BY KeptNodesAre, KeptTensorsAre DEF NewNodes, NewTensors, NodeAt, TensorAt
<1>3. \A i \in Stay :
        /\ InputsOf(i) \in Seq(Live) /\ OutputsOf(i) \in Seq(Live)
  <2> TAKE i \in Stay
  <2>1. InputsOf(i) \in Seq(TensorIds) /\ OutputsOf(i) \in Seq(TensorIds) BY FusedNodeIs
  <2>2. /\ \A k \in DOMAIN InputsOf(i) : InputsOf(i)[k] \in Live
        /\ \A k \in DOMAIN OutputsOf(i) : OutputsOf(i)[k] \in Live
    BY NamesDroppedIs
  <2> QED BY <2>1, <2>2, SeqOf
<1>4. graph.results \in Seq(Live)
  <2>1. /\ graph.results \in Seq(0 .. Cardinality(DOMAIN graph.kind) - 1)
        /\ DOMAIN graph.kind = 0 .. Cardinality(DOMAIN graph.kind) - 1
    BY GraphsAssumption DEF Matched, IsGraph
  <2>2. \A m \in Anchors : \A k \in DOMAIN graph.results :
          graph.results[k] # T0(m) /\ graph.results[k] # T1(m)
    BY ChainIs DEF Private
  <2>3. \A k \in DOMAIN graph.results : graph.results[k] \in Live
    <3> TAKE k \in DOMAIN graph.results
    <3>1. graph.results[k] \in TensorIds BY <2>1 DEF TensorIds
    <3> QED BY <2>2, <3>1, DroppedAre DEF Live
  <2> QED BY <2>1, <2>3, SeqOf
<1>5. ASSUME NEW q \in Seq(Live)
      PROVE  /\ DOMAIN RemapAll(q) = DOMAIN q /\ RemapAll(q) \in Seq(NewTensors)
             /\ \A k \in DOMAIN q : /\ RemapAll(q)[k] \in NewTensors
                                    /\ TensorAt(RemapAll(q)[k]) = q[k]
  <2>1. /\ DOMAIN RemapAll(q) = DOMAIN q
        /\ \A k \in DOMAIN q : RemapAll(q)[k] = Remap(q[k])
    BY DEF RemapAll
  <2>2. /\ \A k \in DOMAIN q : /\ RemapAll(q)[k] \in NewTensors
                               /\ TensorAt(RemapAll(q)[k]) = q[k]
    BY <1>2, <2>1
  <2>3. RemapAll(q) \in Seq(NewTensors)
    <3>1. RemapAll(q) = [k \in 1 .. Len(q) |-> Remap(q[k])] /\ Len(q) \in Nat
      BY DEF RemapAll
    <3>2. \A k \in 1 .. Len(q) : Remap(q[k]) \in NewTensors BY <1>2
    <3> QED BY <3>1, <3>2
  <2> QED BY <2>1, <2>2, <2>3
<1>6. ASSUME NEW j \in NewNodes
      PROVE  /\ R.inputs[j] = RemapAll(InputsOf(NodeAt(j)))
             /\ R.outputs[j] = RemapAll(OutputsOf(NodeAt(j)))
             /\ InputsOf(NodeAt(j)) \in Seq(Live) /\ OutputsOf(NodeAt(j)) \in Seq(Live)
  BY <1>1, <1>2, <1>3
<1>7. DOMAIN R.kind = NewTensors /\ DOMAIN R.inputs = NewNodes BY <1>1
<1>8. IsGraph(R)
  <2>1. /\ IsFiniteSet(NewTensors) /\ IsFiniteSet(NewNodes)
        /\ Cardinality(NewTensors) = Len(Kept) /\ Cardinality(NewNodes) = Len(KeptNodes)
    <3>1. ASSUME NEW n \in Nat PROVE IsFiniteSet(0 .. n - 1) /\ Cardinality(0 .. n - 1) = n
      <4>1. 0 \in Int /\ n - 1 \in Int OBVIOUS
      <4>2. /\ IsFiniteSet(0 .. n - 1)
            /\ Cardinality(0 .. n - 1) = IF 0 > n - 1 THEN 0 ELSE (n - 1) - 0 + 1
        BY <4>1, FS_Interval
      <4> QED BY <4>2
    <3> QED BY <1>2, <3>1 DEF NewTensors, NewNodes
  <2>2. R.kind \in [NewTensors -> Kinds]
    <3>1. graph.kind \in [TensorIds -> Kinds] BY GraphsAssumption, GraphTypes DEF Matched
    <3> QED BY <1>1, <1>2, <3>1 DEF Live
  <2>3. NewTensors \subseteq Int BY DEF NewTensors
  <2>4. ASSUME NEW q \in Seq(NewTensors) PROVE q \in Seq(Int)
    <3>0. \A k \in DOMAIN q : q[k] \in NewTensors OBVIOUS
    <3>1. \A k \in DOMAIN q : q[k] \in Int BY <2>3, <3>0
    <3> QED BY <3>1, SeqOf
  <2>5. R.inputs \in [NewNodes -> Seq(Int)] /\ R.outputs \in [NewNodes -> Seq(Int)]
    BY <1>1, <1>5, <1>6, <2>4
  <2>6. R.results \in Seq(NewTensors) BY <1>1, <1>4, <1>5
  <2>7. /\ 0 .. Cardinality(DOMAIN R.kind) - 1 = NewTensors
        /\ 0 .. Cardinality(DOMAIN R.inputs) - 1 = NewNodes
    BY <1>7, <2>1 DEF NewTensors, NewNodes
  <2> QED BY <1>7, <2>1, <2>2, <2>5, <2>6, <2>7 DEF IsGraph
<1>9. /\ DOMAIN R.results = DOMAIN graph.results
      /\ \A k \in DOMAIN graph.results :
              R.results[k] \in NewTensors /\ TensorAt(R.results[k]) = graph.results[k]
  BY <1>1, <1>4, <1>5
<1>10. ASSUME NEW j \in NewNodes
       PROVE  /\ NodeAt(j) \in Stay
              /\ R.op[j] = OpOf(NodeAt(j))
              /\ DOMAIN R.inputs[j] = DOMAIN InputsOf(NodeAt(j))
              /\ DOMAIN R.outputs[j] = DOMAIN OutputsOf(NodeAt(j))
              /\ \A k \in DOMAIN InputsOf(NodeAt(j)) :
                   /\ R.inputs[j][k] \in NewTensors
                   /\ TensorAt(R.inputs[j][k]) = InputsOf(NodeAt(j))[k]
              /\ \A k \in DOMAIN OutputsOf(NodeAt(j)) :
                   /\ R.outputs[j][k] \in NewTensors
                   /\ TensorAt(R.outputs[j][k]) = OutputsOf(NodeAt(j))[k]
  BY <1>1, <1>2, <1>5, <1>6
<1>11. \A t \in NewTensors :
              /\ TensorAt(t) \in Live /\ Remap(TensorAt(t)) = t
              /\ R.kind[t] = graph.kind[TensorAt(t)]
              /\ R.rows[t] = graph.rows[TensorAt(t)]
              /\ R.name[t] = graph.name[TensorAt(t)]
  BY <1>1, <1>2
<1> QED BY <1>7, <1>8, <1>9, <1>10, <1>11 DEF R

LEMMA RebuiltMakers ==
  ASSUME Matched, ~NamesDropped, NEW t \in NewTensors
  PROVE  Makers(Rebuilt, t) = {j \in NewNodes : TensorAt(t) \in Named(graph.outputs[LastOf(NodeAt(j))])}
<1> DEFINE R == Rebuilt
<1>1. /\ DOMAIN R.inputs = NewNodes
      /\ \A u \in NewTensors : Remap(TensorAt(u)) = u
      /\ \A j \in NewNodes :
           /\ NodeAt(j) \in Stay
           /\ DOMAIN R.outputs[j] = DOMAIN OutputsOf(NodeAt(j))
           /\ \A k \in DOMAIN OutputsOf(NodeAt(j)) :
                   /\ R.outputs[j][k] \in NewTensors
                   /\ TensorAt(R.outputs[j][k]) = OutputsOf(NodeAt(j))[k]
  BY RebuiltIs
<1> HIDE DEF R
<1>2. \A i \in Stay : OutputsOf(i) = graph.outputs[LastOf(i)] BY FusedNodeIs
<1>3. ASSUME NEW j \in NewNodes
      PROVE  (\E k \in DOMAIN R.outputs[j] : R.outputs[j][k] = t)
               <=> TensorAt(t) \in Named(graph.outputs[LastOf(NodeAt(j))])
  <2> DEFINE o == OutputsOf(NodeAt(j))
  <2>1. o = graph.outputs[LastOf(NodeAt(j))] BY <1>1, <1>2
  <2>2. \A k \in DOMAIN o : R.outputs[j][k] = t <=> o[k] = TensorAt(t) BY <1>1
  <2>3. DOMAIN R.outputs[j] = DOMAIN o BY <1>1
  <2> HIDE DEF o
  <2> QED BY <2>1, <2>2, <2>3 DEF Named
<1>4. Makers(R, t) = {j \in NewNodes : \E k \in DOMAIN R.outputs[j] : R.outputs[j][k] = t}
  BY <1>1 DEF Makers
<1> QED BY <1>3, <1>4 DEF R

\* An edge of the new graph, seen from the source.
LEMMA RebuiltFeeds ==
  ASSUME Matched, ~NamesDropped, NEW j \in NewNodes, NEW k \in DOMAIN Rebuilt.inputs[j],
         NEW p \in NewNodes
  PROVE  p \in Makers(Rebuilt, Rebuilt.inputs[j][k])
           <=> InputsOf(NodeAt(j))[k] \in Named(graph.outputs[LastOf(NodeAt(p))])
<1>1. /\ Rebuilt.inputs[j][k] \in NewTensors
      /\ TensorAt(Rebuilt.inputs[j][k]) = InputsOf(NodeAt(j))[k]
  BY RebuiltIs
<1> QED BY <1>1, RebuiltMakers

\* Fusing closes no cycle: a cycle through fused nodes leads, in the source,
\* through the last nodes of their chains, and back to their anchors or
\* their sums.
LEMMA NoNewCycle ==
  ASSUME Matched, ~NamesDropped, NEW S \in (SUBSET NewNodes) \ {{}}
  PROVE  \E j \in S : \A k \in DOMAIN Rebuilt.inputs[j] :
            Makers(Rebuilt, Rebuilt.inputs[j][k]) \cap S = {}
<1> SUFFICES ASSUME \A j \in S : \E k \in DOMAIN Rebuilt.inputs[j] :
                        Makers(Rebuilt, Rebuilt.inputs[j][k]) \cap S # {}
             PROVE  FALSE
  OBVIOUS
<1> DEFINE Old == {NodeAt(j) : j \in S}
           Ends == {LastOf(i) : i \in Old}
           Fed(i, k) == \E p \in Ends : graph.inputs[i][k] \in Named(graph.outputs[p])
           Loop(i) == \E k \in DOMAIN graph.inputs[i] : Fed(i, k)
           Sums == {Adder(m) : m \in Old \cap Anchors}
           Starts == {m \in Old \cap Anchors : Loop(m)}
           All == Ends \cup Sums \cup Starts
<1>1. Old \subseteq Stay
  <2>1. \A j \in NewNodes : NodeAt(j) \in Stay BY RebuiltIs
  <2> QED BY <2>1
<1>2. ASSUME NEW i \in Old
      PROVE  \E k \in DOMAIN InputsOf(i) : \E p \in Ends :
                InputsOf(i)[k] \in Named(graph.outputs[p])
  <2>1. PICK j \in S : i = NodeAt(j) OBVIOUS
  <2>2. PICK k \in DOMAIN Rebuilt.inputs[j], p \in S : p \in Makers(Rebuilt, Rebuilt.inputs[j][k])
    BY <2>1
  <2>3. InputsOf(i)[k] \in Named(graph.outputs[LastOf(NodeAt(p))])
    BY <2>1, <2>2, RebuiltFeeds
  <2>4. k \in DOMAIN InputsOf(i) BY <2>1, <2>2, RebuiltIs
  <2>5. LastOf(NodeAt(p)) \in Ends OBVIOUS
  <2> QED BY <2>3, <2>4, <2>5
<1> HIDE DEF Old
<1>3. \A m \in Anchors :
        /\ Adder(m) \in Nodes /\ Actor(m) \in Nodes
        /\ DOMAIN graph.outputs[m] = {1} /\ DOMAIN graph.outputs[Adder(m)] = {1}
        /\ 1 \in DOMAIN graph.inputs[Actor(m)] /\ graph.inputs[Actor(m)][1] = T1(m)
        /\ \E k \in DOMAIN graph.inputs[Adder(m)] : graph.inputs[Adder(m)][k] = T0(m)
  BY ChainIs DEF Private
<1>4. ASSUME NEW m \in Anchors
      PROVE  T0(m) \in Named(graph.outputs[m]) /\ T1(m) \in Named(graph.outputs[Adder(m)])
  BY <1>3 DEF Named, T0, T1
<1>5. ASSUME NEW i \in Old
      PROVE  \/ Loop(i)
             \/ i \in Anchors /\ Loop(Adder(i))
  <2>1. PICK k \in DOMAIN InputsOf(i), p \in Ends : InputsOf(i)[k] \in Named(graph.outputs[p])
    BY <1>2
  <2>2. \E l \in {1, 2} :
           \/ k \in DOMAIN graph.inputs[i] /\ InputsOf(i)[k] = graph.inputs[i][k]
           \/ /\ i \in Anchors /\ l \in DOMAIN graph.inputs[Adder(i)]
              /\ InputsOf(i)[k] = graph.inputs[Adder(i)][l]
    BY <1>1, FusedNodeIs
  <2> HIDE DEF Ends
  <2> QED BY <2>1, <2>2
<1>6. All \in (SUBSET Nodes) \ {{}}
  <2>1. \A i \in Old : LastOf(i) \in Nodes BY <1>1, FusedNodeIs
  <2>2. Sums \subseteq Nodes /\ Starts \subseteq Nodes BY <1>1, <1>3 DEF Stay
  <2>3. Ends # {}
    <3>1. PICK j \in S : TRUE OBVIOUS
    <3>2. NodeAt(j) \in Old BY DEF Old
    <3> QED BY <3>2
  <2>4. Ends \subseteq Nodes BY <2>1
  <2> HIDE DEF Ends, Sums, Starts
  <2> QED BY <2>2, <2>3, <2>4
<1>7. ASSUME NEW i \in All
      PROVE  \E k \in DOMAIN graph.inputs[i] : \E p \in All :
                graph.inputs[i][k] \in Named(graph.outputs[p])
  <2>1. ASSUME Loop(i)
        PROVE  \E k \in DOMAIN graph.inputs[i] : \E p \in All :
                  graph.inputs[i][k] \in Named(graph.outputs[p])
    <3> HIDE DEF Ends, Sums, Starts
    <3> QED BY <2>1
  <2>2. ASSUME NEW m \in Old, m \in Anchors, i = Actor(m)
        PROVE  \E k \in DOMAIN graph.inputs[i] : \E p \in All :
                  graph.inputs[i][k] \in Named(graph.outputs[p])
    <3>1. Adder(m) \in Sums BY <2>2
    <3> HIDE DEF Ends, Sums, Starts
    <3>2. Adder(m) \in All BY <3>1
    <3> HIDE DEF All
    <3> QED BY <1>3, <1>4, <2>2, <3>2
  <2>3. ASSUME NEW m \in Old, m \in Anchors, i = Adder(m), Loop(m)
        PROVE  \E k \in DOMAIN graph.inputs[i] : \E p \in All :
                  graph.inputs[i][k] \in Named(graph.outputs[p])
    <3>1. m \in Starts BY <2>3
    <3> HIDE DEF Ends, Sums, Starts
    <3>2. m \in All BY <3>1
    <3> HIDE DEF All
    <3> QED BY <1>3, <1>4, <2>3, <3>2
  <2>4. CASE i \in Ends
    <3>1. PICK m \in Old : i = LastOf(m) BY <2>4
    <3>2. CASE m \in Anchors BY <2>2, <3>1, <3>2 DEF LastOf
    <3>3. CASE m \notin Anchors
      <4>1. i = m /\ Loop(m) BY <1>5, <3>1, <3>3 DEF LastOf
      <4> HIDE DEF Loop
      <4> QED BY <2>1, <4>1
    <3> QED BY <3>2, <3>3
  <2>5. CASE i \in Sums
    <3>1. PICK m \in Old \cap Anchors : i = Adder(m) BY <2>5
    <3>2. Loop(m) \/ Loop(i) BY <1>5, <3>1
    <3> HIDE DEF Loop
    <3> QED BY <2>1, <2>3, <3>1, <3>2
  <2>6. CASE i \in Starts
    <3>1. Loop(i) BY <2>6
    <3> HIDE DEF Loop
    <3> QED BY <2>1, <3>1
  <2> QED BY <2>4, <2>5, <2>6
<1> HIDE DEF All
<1>8. Sortable(graph) /\ DOMAIN graph.inputs = Nodes BY SourceIs DEF Matched
<1>9. PICK i \in All : \A k \in DOMAIN graph.inputs[i] : Makers(graph, graph.inputs[i][k]) \cap All = {}
  BY <1>6, <1>8 DEF Sortable
<1>10. PICK k \in DOMAIN graph.inputs[i], p \in All : graph.inputs[i][k] \in Named(graph.outputs[p])
  BY <1>7
<1>11. p \in Makers(graph, graph.inputs[i][k]) BY <1>6, <1>8, <1>10 DEF Makers, Named
<1> QED BY <1>9, <1>11

LEMMA RebuiltSortable ==
  ASSUME Matched, ~NamesDropped
  PROVE  Sortable(Rebuilt)
<1> DEFINE R == Rebuilt
<1>1. /\ IsGraph(R) /\ DOMAIN R.kind = NewTensors /\ DOMAIN R.inputs = NewNodes
      /\ \A t \in NewTensors :
           TensorAt(t) \in Live /\ Remap(TensorAt(t)) = t /\ R.kind[t] = graph.kind[TensorAt(t)]
      /\ \A j \in NewNodes :
           /\ NodeAt(j) \in Stay
           /\ DOMAIN R.inputs[j] = DOMAIN InputsOf(NodeAt(j))
           /\ DOMAIN R.outputs[j] = DOMAIN OutputsOf(NodeAt(j))
           /\ \A k \in DOMAIN R.inputs[j] :
                R.inputs[j][k] \in NewTensors /\ TensorAt(R.inputs[j][k]) = InputsOf(NodeAt(j))[k]
           /\ \A k \in DOMAIN R.outputs[j] :
                R.outputs[j][k] \in NewTensors /\ TensorAt(R.outputs[j][k]) = OutputsOf(NodeAt(j))[k]
  BY RebuiltIs
<1>2. \A t \in NewTensors :
        Makers(R, t) = {j \in NewNodes : TensorAt(t) \in Named(graph.outputs[LastOf(NodeAt(j))])}
  BY RebuiltMakers
<1> HIDE DEF R
<1>3. graph \in Graphs BY DEF Matched
<1>4. ASSUME NEW j \in NewNodes, NEW k \in DOMAIN R.inputs[j]
      PROVE  /\ R.inputs[j][k] \in DOMAIN R.kind
             /\ R.kind[R.inputs[j][k]] \in {"input", "weight"} \/ Makers(R, R.inputs[j][k]) # {}
  <2> DEFINE i == NodeAt(j)
             u == InputsOf(i)[k]
  <2>1. i \in Stay /\ k \in DOMAIN InputsOf(i) /\ R.inputs[j][k] \in NewTensors
        /\ TensorAt(R.inputs[j][k]) = u /\ u \in Live
    BY <1>1
  <2>2. R.kind[R.inputs[j][k]] = graph.kind[u] BY <1>1, <2>1
  <2>3. \E x \in Nodes : \E l \in DOMAIN graph.inputs[x] : u = graph.inputs[x][l]
    <3>1. \/ k \in DOMAIN graph.inputs[i] /\ u = graph.inputs[i][k]
          \/ i \in Anchors /\ \E l \in DOMAIN graph.inputs[Adder(i)] : u = graph.inputs[Adder(i)][l]
      BY <2>1, FusedNodeIs
    <3>2. i \in Nodes /\ (i \in Anchors => Adder(i) \in Nodes) BY <2>1, ChainIs DEF Stay
    <3> HIDE DEF i, u
    <3> QED BY <3>1, <3>2
  <2>4. \/ graph.kind[u] \in {"input", "weight"}
        \/ \E p \in Nodes : u \in Named(graph.outputs[p])
    BY <1>3, <2>3, SourceIs
  <2> HIDE DEF i, u
  <2>5. ASSUME NEW p \in Nodes, u \in Named(graph.outputs[p]) PROVE Makers(R, R.inputs[j][k]) # {}
    <3>1. PICK y \in Stay : LastOf(y) = p BY <2>1, <2>5, MakerStays
    <3>2. PICK q \in NewNodes : NodeAt(q) = y BY KeptNodesAre DEF NewNodes, NodeAt
    <3>3. q \in Makers(R, R.inputs[j][k]) BY <1>2, <2>1, <2>5, <3>1, <3>2
    <3> QED BY <3>3
  <2> QED BY <1>1, <2>1, <2>2, <2>4, <2>5
<1>5. ASSUME NEW j \in NewNodes, NEW k \in DOMAIN R.outputs[j]
      PROVE  /\ R.outputs[j][k] \in DOMAIN R.kind /\ Makers(R, R.outputs[j][k]) = {j}
             /\ \A l \in DOMAIN R.outputs[j] : R.outputs[j][l] = R.outputs[j][k] => l = k
  <2> DEFINE i == NodeAt(j)
             t == R.outputs[j][k]
  <2>1. i \in Stay /\ t \in NewTensors /\ TensorAt(t) = OutputsOf(i)[k] BY <1>1
  <2>2. OutputsOf(i) = graph.outputs[LastOf(i)] /\ LastOf(i) \in Nodes BY <2>1, FusedNodeIs
  <2>3. \A y \in Stay : LastOf(y) \in Nodes BY FusedNodeIs
  <2>4. k \in DOMAIN graph.outputs[LastOf(i)] /\ TensorAt(t) = graph.outputs[LastOf(i)][k]
    BY <1>1, <2>1, <2>2
  <2>5. \A p \in Nodes : \A l \in DOMAIN graph.outputs[p] :
           graph.outputs[LastOf(i)][k] = graph.outputs[p][l] => p = LastOf(i) /\ l = k
    BY <1>3, <2>2, <2>4, SourceIs
  <2>6. ASSUME NEW q \in NewNodes
        PROVE  TensorAt(t) \in Named(graph.outputs[LastOf(NodeAt(q))]) <=> q = j
    <3>1. NodeAt(q) \in Stay BY <1>1
    <3>2. TensorAt(t) \in Named(graph.outputs[LastOf(i)]) BY <2>4 DEF Named
    <3>3. ASSUME TensorAt(t) \in Named(graph.outputs[LastOf(NodeAt(q))]) PROVE q = j
      <4>1. LastOf(NodeAt(q)) = LastOf(i) BY <2>3, <2>4, <2>5, <3>1, <3>3 DEF Named
      <4>2. NodeAt(q) = NodeAt(j) BY <2>1, <3>1, <4>1, LastApart
      <4> QED BY <4>2, KeptNodesAre DEF NodeAt, NewNodes
    <3> QED BY <3>2, <3>3
  <2>7. Makers(R, t) = {j} BY <1>2, <2>1, <2>6
  <2>8. ASSUME NEW l \in DOMAIN R.outputs[j], R.outputs[j][l] = t PROVE l = k
    <3>1. l \in DOMAIN graph.outputs[LastOf(i)] /\ TensorAt(t) = graph.outputs[LastOf(i)][l]
      BY <1>1, <2>2, <2>8
    <3> QED BY <2>2, <2>4, <2>5, <3>1
  <2> QED BY <1>1, <2>1, <2>7, <2>8
<1>6. \A S \in (SUBSET NewNodes) \ {{}} :
        \E j \in S : \A k \in DOMAIN R.inputs[j] : Makers(R, R.inputs[j][k]) \cap S = {}
  BY NoNewCycle DEF R
<1> QED BY <1>1, <1>4, <1>5, <1>6 DEF Sortable, R
-----------------------------------------------------------------------------
(* What the pass has done.                                                 *)

\* A tensor of the new graph that may go could have gone from the source.
LEMMA FusableBefore ==
  ASSUME Matched, ~NamesDropped, NEW t \in NewTensors, FusableIn(Rebuilt, t),
         NodeAt(ConsumerIn(Rebuilt, t)) \notin Anchors
  PROVE  /\ FusableIn(graph, TensorAt(t))
         /\ ConsumerIn(graph, TensorAt(t)) = NodeAt(ConsumerIn(Rebuilt, t))
<1> DEFINE R == Rebuilt
           a == ConsumerIn(R, t)
           u == TensorAt(t)
           y == NodeAt(a)
<1>1. /\ IsGraph(R) /\ DOMAIN R.inputs = NewNodes
      /\ \A x \in NewTensors : TensorAt(x) \in Live /\ Remap(TensorAt(x)) = x
      /\ R.kind[t] = graph.kind[u]
      /\ \A j \in NewNodes :
           /\ NodeAt(j) \in Stay
           /\ DOMAIN R.inputs[j] = DOMAIN InputsOf(NodeAt(j))
           /\ \A k \in DOMAIN R.inputs[j] :
                R.inputs[j][k] \in NewTensors /\ TensorAt(R.inputs[j][k]) = InputsOf(NodeAt(j))[k]
      /\ DOMAIN R.results = DOMAIN graph.results
      /\ \A k \in DOMAIN graph.results :
           R.results[k] \in NewTensors /\ TensorAt(R.results[k]) = graph.results[k]
  BY RebuiltIs
<1> HIDE DEF R
<1>3. /\ R.kind[t] = "intermediate" /\ Cardinality(UsesIn(R, t)) = 1
      /\ \A k \in DOMAIN R.results : R.results[k] # t
  BY DEF FusableIn, R
<1>2. y \notin Anchors BY DEF R
<1>4. /\ a \in NewNodes
      /\ \E k \in DOMAIN R.inputs[a] :
           /\ R.inputs[a][k] = t
           /\ \A j \in NewNodes : \A l \in DOMAIN R.inputs[j] :
                 R.inputs[j][l] = t => j = a /\ l = k
  BY <1>1, <1>3, OneUse
<1> HIDE DEF a
<1>5. PICK k \in DOMAIN R.inputs[a] :
           /\ R.inputs[a][k] = t
           /\ \A j \in NewNodes : \A l \in DOMAIN R.inputs[j] :
                 R.inputs[j][l] = t => j = a /\ l = k
  BY <1>4
<1>6. y \in Stay /\ y \notin Anchors /\ y \in Nodes BY <1>1, <1>2, <1>4 DEF Stay
<1>7. graph \in Graphs /\ IsGraph(graph) /\ DOMAIN graph.inputs = Nodes
  BY SourceIs DEF Matched
<1>8. InputsOf(y) = graph.inputs[y] BY <1>6, FusedNodeIs
<1>9. k \in DOMAIN graph.inputs[y] /\ graph.inputs[y][k] = u
  BY <1>1, <1>4, <1>5, <1>8
<1>10. u \in Live BY <1>1
<1> HIDE DEF y, u
<1>11. ASSUME NEW i \in Stay, NEW l \in DOMAIN InputsOf(i), InputsOf(i)[l] = u
       PROVE  i = y /\ l = k
  <2>1. PICK j \in NewNodes : NodeAt(j) = i BY KeptNodesAre DEF NewNodes, NodeAt
  <2>2. l \in DOMAIN R.inputs[j] /\ R.inputs[j][l] \in NewTensors /\ TensorAt(R.inputs[j][l]) = u
    BY <1>1, <1>11, <2>1
  <2>3. R.inputs[j][l] = t BY <1>1, <2>2 DEF u
  <2> QED BY <1>5, <2>1, <2>2, <2>3 DEF y
<1>12. ASSUME NEW i \in Nodes, NEW l \in DOMAIN graph.inputs[i], graph.inputs[i][l] = u
       PROVE  i = y /\ l = k
  <2>1. CASE i \in Stay /\ i \notin Anchors
    <3>1. InputsOf(i) = graph.inputs[i] BY <2>1, FusedNodeIs
    <3> QED BY <1>11, <1>12, <2>1, <3>1
  <2>2. CASE i \in Anchors
    <3>1. i \in Stay BY <2>2, DroppedAre
    <3>2. DOMAIN graph.inputs[i] = {1, 2} BY <2>2, ChainIs
    <3>3. l \in DOMAIN InputsOf(i) /\ InputsOf(i)[l] = u BY <1>12, <2>2, <3>1, <3>2, FusedNodeIs
    <3>4. i = y BY <1>11, <3>1, <3>3
    <3> QED BY <1>6, <2>2, <3>4
  <2>3. ASSUME NEW n \in Anchors, i = Adder(n) PROVE FALSE
    <3>1. T0(n) \notin Live BY DroppedAre DEF Live
    <3>2. DOMAIN graph.inputs[i] = {1, 2} BY <2>3, ChainIs
    <3>3. u = T0(n) \/ u = chains[n].bias
      <4>1. \/ graph.inputs[i][1] = T0(n) /\ chains[n].bias = graph.inputs[i][2]
            \/ graph.inputs[i][2] = T0(n) /\ chains[n].bias = graph.inputs[i][1]
        BY <2>3, ChainIs DEF Private
      <4> QED BY <1>12, <3>2, <4>1
    <3>4. u = chains[n].bias BY <1>10, <3>1, <3>3
    <3>5. n \in Stay BY DroppedAre
    <3>6. 3 \in DOMAIN InputsOf(n) /\ InputsOf(n)[3] = u BY <3>4, <3>5, FusedNodeIs
    <3>7. n = y BY <1>11, <3>5, <3>6
    <3> QED BY <1>6, <3>7
  <2>4. ASSUME NEW n \in Anchors, i = Actor(n) PROVE FALSE
    <3>1. T1(n) \notin Live BY DroppedAre DEF Live
    <3>2. DOMAIN graph.inputs[i] = {1} /\ graph.inputs[i][1] = T1(n) BY <2>4, ChainIs DEF Private
    <3> QED BY <1>10, <1>12, <3>1, <3>2
  <2> QED BY <2>1, <2>2, <2>3, <2>4, DroppedAre DEF Stay
<1>13. UsesIn(graph, u) = {<<y, k>>}
  <2>1. <<y, k>> \in UsesIn(graph, u) BY <1>6, <1>7, <1>9 DEF UsesIn
  <2>2. ASSUME NEW s \in UsesIn(graph, u) PROVE s = <<y, k>>
    <3>1. /\ s[1] \in Nodes /\ s[2] \in DOMAIN graph.inputs[s[1]] /\ s = <<s[1], s[2]>>
          /\ graph.inputs[s[1]][s[2]] = u
      BY <1>7 DEF UsesIn
    <3>2. s[1] = y /\ s[2] = k BY <1>12, <3>1
    <3> QED BY <3>1, <3>2
  <2> QED BY <2>1, <2>2
<1>14. Cardinality(UsesIn(graph, u)) = 1 BY <1>13, FS_Singleton
<1>15. ConsumerIn(graph, u) = y BY <1>6, <1>7, <1>9, <1>14, OneUse
<1>16. graph.kind[u] = "intermediate" BY <1>1, <1>3
<1>17. ASSUME NEW x \in DOMAIN graph.results PROVE graph.results[x] # u
  <2> SUFFICES ASSUME graph.results[x] = u PROVE FALSE OBVIOUS
  <2>1. R.results[x] \in NewTensors /\ TensorAt(R.results[x]) = TensorAt(t) BY <1>1 DEF u
  <2>2. R.results[x] = t BY <1>1, <2>1
  <2> QED BY <1>1, <1>3, <2>2
<1>18. FusableIn(graph, u) BY <1>14, <1>16, <1>17 DEF FusableIn
<1> QED BY <1>15, <1>18 DEF u, y, a, R

\* A chain of the new graph would be one of the source, which the pass has
\* looked for at every node.
LEMMA NoChainLeft ==
  ASSUME Matched, ~NamesDropped, ni = NumNodes,
         NEW m \in NewNodes, NEW a \in NewNodes, NEW g \in NewNodes
  PROVE  ~ChainIn(Rebuilt, m, a, g)
<1> SUFFICES ASSUME ChainIn(Rebuilt, m, a, g) PROVE FALSE OBVIOUS
<1> DEFINE R == Rebuilt
           x == NodeAt(m)
           y == NodeAt(a)
           z == NodeAt(g)
           t0 == R.outputs[m][1]
           t1 == R.outputs[a][1]
<1>1. /\ R.op[m] = "MatMul" /\ Len(R.outputs[m]) = 1
      /\ FusableIn(R, t0) /\ a = ConsumerIn(R, t0)
      /\ R.op[a] = "Add" /\ Len(R.inputs[a]) = 2 /\ Len(R.outputs[a]) = 1
      /\ FusableIn(R, t1) /\ g = ConsumerIn(R, t1)
      /\ Len(R.inputs[g]) = 1 /\ Len(R.outputs[g]) = 1
      /\ R.op[g] \in {"Gelu", "GeluTanh"}
  BY DEF ChainIn
<1>2. /\ IsGraph(R) /\ DOMAIN R.inputs = NewNodes
      /\ \A j \in NewNodes :
           /\ NodeAt(j) \in Stay /\ R.op[j] = OpOf(NodeAt(j))
           /\ DOMAIN R.inputs[j] = DOMAIN InputsOf(NodeAt(j))
           /\ DOMAIN R.outputs[j] = DOMAIN OutputsOf(NodeAt(j))
           /\ \A k \in DOMAIN R.outputs[j] :
                R.outputs[j][k] \in NewTensors /\ TensorAt(R.outputs[j][k]) = OutputsOf(NodeAt(j))[k]
  BY RebuiltIs
<1> HIDE DEF R
<1>3. \A i \in Anchors : OpOf(i) \in FusedOps BY DEF OpOf, Anchors, FusedOp, FusedOps
<1>4. x \notin Anchors /\ y \notin Anchors /\ z \notin Anchors
  BY <1>1, <1>2, <1>3 DEF FusedOps
<1>5. x \in Stay /\ y \in Stay /\ z \in Stay BY <1>2
<1>6. x \in Nodes /\ y \in Nodes /\ z \in Nodes BY <1>5 DEF Stay
<1>7. \A i \in {x, y, z} :
        InputsOf(i) = graph.inputs[i] /\ OutputsOf(i) = graph.outputs[i] /\ OpOf(i) = graph.op[i]
  BY <1>4, <1>5, FusedNodeIs DEF OpOf, OutputsOf, Anchors
<1>8. graph \in Graphs BY DEF Matched
<1>9. \A i \in Nodes : graph.inputs[i] \in Seq(TensorIds) /\ graph.outputs[i] \in Seq(TensorIds)
  BY <1>8, SourceIs
<1>10. \A j \in NewNodes : R.inputs[j] \in Seq(Int) /\ R.outputs[j] \in Seq(Int)
  BY <1>2 DEF IsGraph
<1>11. /\ graph.op[x] = "MatMul" /\ graph.op[y] = "Add" /\ graph.op[z] \in {"Gelu", "GeluTanh"}
  BY <1>1, <1>2, <1>7
<1> HIDE DEF x, y, z
<1>12. ASSUME NEW s \in Seq(Int), NEW r \in Seq(TensorIds), DOMAIN s = DOMAIN r
       PROVE  Len(s) = Len(r)
  <2>1. 1 .. Len(s) = 1 .. Len(r) /\ Len(s) \in Nat /\ Len(r) \in Nat BY <1>12
  <2> QED BY <2>1
<1>13. /\ Len(graph.outputs[x]) = 1
       /\ Len(graph.inputs[y]) = 2 /\ Len(graph.outputs[y]) = 1
       /\ Len(graph.inputs[z]) = 1 /\ Len(graph.outputs[z]) = 1
  <2>1. /\ DOMAIN R.outputs[m] = DOMAIN graph.outputs[x]
        /\ DOMAIN R.outputs[a] = DOMAIN graph.outputs[y]
        /\ DOMAIN R.outputs[g] = DOMAIN graph.outputs[z]
        /\ DOMAIN R.inputs[a] = DOMAIN graph.inputs[y]
        /\ DOMAIN R.inputs[g] = DOMAIN graph.inputs[z]
    BY <1>2, <1>7 DEF x, y, z
  <2> QED BY <1>1, <1>6, <1>9, <1>10, <1>12, <2>1
<1>14. /\ t0 \in NewTensors /\ TensorAt(t0) = graph.outputs[x][1]
       /\ t1 \in NewTensors /\ TensorAt(t1) = graph.outputs[y][1]
  <2>1. ASSUME NEW s \in Seq(Int), Len(s) = 1 PROVE 1 \in DOMAIN s BY <2>1
  <2>2. 1 \in DOMAIN R.outputs[m] /\ 1 \in DOMAIN R.outputs[a] BY <1>1, <1>10, <2>1
  <2>3. OutputsOf(x) = graph.outputs[x] /\ OutputsOf(y) = graph.outputs[y] BY <1>7
  <2> QED BY <1>2, <2>2, <2>3 DEF x, y
<1> HIDE DEF t0, t1
<1>15. FusableIn(graph, graph.outputs[x][1]) /\ ConsumerIn(graph, graph.outputs[x][1]) = y
  <2>1. NodeAt(ConsumerIn(R, t0)) \notin Anchors BY <1>1, <1>4 DEF y
  <2>2. FusableIn(graph, TensorAt(t0)) /\ ConsumerIn(graph, TensorAt(t0)) = NodeAt(ConsumerIn(R, t0))
    BY <1>1, <1>14, <2>1, FusableBefore DEF R
  <2> QED BY <1>1, <1>14, <2>2 DEF y
<1>16. FusableIn(graph, graph.outputs[y][1]) /\ ConsumerIn(graph, graph.outputs[y][1]) = z
  <2>1. NodeAt(ConsumerIn(R, t1)) \notin Anchors BY <1>1, <1>4 DEF z
  <2>2. FusableIn(graph, TensorAt(t1)) /\ ConsumerIn(graph, TensorAt(t1)) = NodeAt(ConsumerIn(R, t1))
    BY <1>1, <1>14, <2>1, FusableBefore DEF R
  <2> QED BY <1>1, <1>14, <2>2 DEF z
<1>17. graph.inputs[y] # <<graph.outputs[x][1], graph.outputs[x][1]>>
  <2> DEFINE u == graph.outputs[x][1]
  <2> SUFFICES ASSUME graph.inputs[y] = <<u, u>> PROVE FALSE OBVIOUS
  <2>1. Cardinality(UsesIn(graph, u)) = 1 BY <1>15 DEF FusableIn
  <2>2. IsGraph(graph) /\ DOMAIN graph.inputs = Nodes BY <1>8, SourceIs
  <2>3. PICK k : \A i \in Nodes : \A l \in DOMAIN graph.inputs[i] : graph.inputs[i][l] = u => l = k
    BY <2>1, <2>2, OneUse
  <2>4. 1 \in DOMAIN graph.inputs[y] /\ 2 \in DOMAIN graph.inputs[y]
    BY <1>6, <1>9, <1>13
  <2>5. graph.inputs[y][1] = u /\ graph.inputs[y][2] = u OBVIOUS
  <2> HIDE DEF u
  <2>6. 1 = k /\ 2 = k BY <1>6, <2>3, <2>4, <2>5
  <2> QED BY <2>6
<1>18. Chain(x, y, z)
  <2>1. ChainIn(graph, x, y, z) BY <1>11, <1>13, <1>15, <1>16, <1>17 DEF ChainIn
  <2> QED BY <2>1, ChainsAre
<1>19. x \in 0 .. ni - 1 BY <1>6, <1>8, SourceIs
<1>20. x \in Anchors BY <1>6, <1>18, <1>19 DEF Matched, MatchInv, Anchors
<1> QED BY <1>4, <1>20

\* Each chain costs two nodes and two tensors.
LEMMA DroppedCounted ==
  ASSUME Matched, ~NamesDropped
  PROVE  /\ Cardinality(NewNodes) = NumNodes - 2 * Cardinality(Anchors)
         /\ Cardinality(NewTensors) = Cardinality(TensorIds) - 2 * Cardinality(Anchors)
<1> DEFINE c == Cardinality(Anchors)
           A == {Adder(m) : m \in Anchors}
           G == {Actor(m) : m \in Anchors}
           X == {T0(m) : m \in Anchors}
           Y == {T1(m) : m \in Anchors}
<1>1. graph \in Graphs /\ IsGraph(graph) BY SourceIs DEF Matched
<1>2. IsFiniteSet(Nodes) /\ IsFiniteSet(TensorIds) BY <1>1, GraphTypes
<1>3. Anchors \subseteq Nodes BY DroppedAre DEF Stay
<1>4. IsFiniteSet(Anchors) /\ c \in Nat BY <1>2, <1>3, FS_Subset, FS_CardinalityType
<1>5. ASSUME NEW f, f = [m \in Anchors |-> f[m]], \A m, n \in Anchors : f[m] = f[n] => m = n
      PROVE  IsFiniteSet({f[m] : m \in Anchors}) /\ Cardinality({f[m] : m \in Anchors}) = c
  BY <1>4, <1>5, ImageIs
<1>6. IsFiniteSet(A) /\ Cardinality(A) = c
  <2> DEFINE f == [m \in Anchors |-> Adder(m)]
  <2>1. A = {f[m] : m \in Anchors} /\ f = [m \in Anchors |-> f[m]] OBVIOUS
  <2>2. \A m, n \in Anchors : f[m] = f[n] => m = n BY Untangled
  <2> HIDE DEF f, A, c
  <2> QED BY <1>5, <2>1, <2>2
<1>7. IsFiniteSet(G) /\ Cardinality(G) = c
  <2> DEFINE f == [m \in Anchors |-> Actor(m)]
  <2>1. G = {f[m] : m \in Anchors} /\ f = [m \in Anchors |-> f[m]] OBVIOUS
  <2>2. \A m, n \in Anchors : f[m] = f[n] => m = n BY Untangled
  <2> HIDE DEF f, G, c
  <2> QED BY <1>5, <2>1, <2>2
<1>8. IsFiniteSet(X) /\ Cardinality(X) = c
  <2> DEFINE f == [m \in Anchors |-> T0(m)]
  <2>1. X = {f[m] : m \in Anchors} /\ f = [m \in Anchors |-> f[m]] OBVIOUS
  <2>2. \A m, n \in Anchors : f[m] = f[n] => m = n BY Untangled
  <2> HIDE DEF f, X, c
  <2> QED BY <1>5, <2>1, <2>2
<1>9. IsFiniteSet(Y) /\ Cardinality(Y) = c
  <2> DEFINE f == [m \in Anchors |-> T1(m)]
  <2>1. Y = {f[m] : m \in Anchors} /\ f = [m \in Anchors |-> f[m]] OBVIOUS
  <2>2. \A m, n \in Anchors : f[m] = f[n] => m = n BY Untangled
  <2> HIDE DEF f, Y, c
  <2> QED BY <1>5, <2>1, <2>2
<1>10. A \cap G = {} /\ X \cap Y = {} BY Untangled
<1>11. DroppedNodes = A \cup G /\ DroppedTensors = X \cup Y BY DroppedAre
<1> HIDE DEF A, G, X, Y, c
<1>12. Cardinality(DroppedNodes) = 2 * c
  <2>1. Cardinality(A \cup G) = Cardinality(A) + Cardinality(G) - Cardinality(A \cap G)
    BY <1>6, <1>7, FS_Union
  <2>2. Cardinality(A \cap G) = 0 BY <1>10, FS_EmptySet
  <2> QED BY <1>4, <1>6, <1>7, <1>11, <2>1, <2>2
<1>13. Cardinality(DroppedTensors) = 2 * c
  <2>1. Cardinality(X \cup Y) = Cardinality(X) + Cardinality(Y) - Cardinality(X \cap Y)
    BY <1>8, <1>9, FS_Union
  <2>2. Cardinality(X \cap Y) = 0 BY <1>10, FS_EmptySet
  <2> QED BY <1>4, <1>8, <1>9, <1>11, <2>1, <2>2
<1>14. /\ Cardinality(Stay) = NumNodes - 2 * c
       /\ Cardinality(Live) = Cardinality(TensorIds) - 2 * c
  <2>1. Nodes \cap DroppedNodes = DroppedNodes /\ TensorIds \cap DroppedTensors = DroppedTensors
    BY DroppedAre
  <2>2. Cardinality(Nodes \ DroppedNodes) = Cardinality(Nodes) - Cardinality(Nodes \cap DroppedNodes)
    BY <1>2, FS_Difference
  <2>3. Cardinality(TensorIds \ DroppedTensors)
          = Cardinality(TensorIds) - Cardinality(TensorIds \cap DroppedTensors)
    BY <1>2, FS_Difference
  <2> QED BY <1>12, <1>13, <2>1, <2>2, <2>3 DEF Stay, Live, NumNodes
<1>15. ASSUME NEW n \in Nat PROVE Cardinality(0 .. n - 1) = n
  <2>1. 0 \in Int /\ n - 1 \in Int OBVIOUS
  <2>2. Cardinality(0 .. n - 1) = IF 0 > n - 1 THEN 0 ELSE (n - 1) - 0 + 1
    BY <2>1, FS_Interval
  <2> QED BY <2>2
<1> QED BY <1>14, <1>15, KeptNodesAre, KeptTensorsAre DEF NewNodes, NewTensors, c
-----------------------------------------------------------------------------
(* The values of the new graph.                                            *)

\* If every chain ends in a bias, no tensor that is dropped is named.
LEMMA NamesKept ==
  ASSUME Matched, BiasChains
  PROVE  ~NamesDropped
<1>1. graph \in Graphs /\ graph = source BY DEF Matched
<1>2. \A m \in Anchors :
        /\ m \in Nodes /\ graph.op[m] = "MatMul" /\ DOMAIN graph.outputs[m] = {1}
        /\ DOMAIN graph.inputs[m] = {1, 2}
        /\ Adder(m) \in Nodes /\ graph.op[Adder(m)] = "Add" /\ DOMAIN graph.outputs[Adder(m)] = {1}
        /\ Actor(m) \in Nodes /\ graph.op[Actor(m)] \in {"Gelu", "GeluTanh"}
        /\ Adder(m) \notin Stay /\ Actor(m) \notin Stay
  BY ChainIs, DroppedAre DEF Stay
<1>3. \A m \in Anchors : \A j \in Nodes : \A l \in DOMAIN graph.inputs[j] :
        /\ graph.inputs[j][l] = T0(m) => j = Adder(m)
        /\ graph.inputs[j][l] = T1(m) => j = Actor(m)
  BY ChainIs DEF Private
<1>4. \A m \in Anchors : \A p \in Nodes : \A l \in DOMAIN graph.outputs[p] :
        /\ graph.outputs[p][l] = T0(m) => p = m
        /\ graph.outputs[p][l] = T1(m) => p = Adder(m)
  BY <1>1, <1>2, SourceIs DEF T0, T1
<1>5. \A m, n \in Anchors : chains[m].bias # T0(n)
  BY <1>1 DEF BiasChains, Anchors, T0
<1>6. ASSUME NEW i \in Stay, NEW k \in DOMAIN InputsOf(i), NEW n \in Anchors,
             InputsOf(i)[k] = T0(n) \/ InputsOf(i)[k] = T1(n)
      PROVE  FALSE
  <2>1. i \in Nodes BY DEF Stay
  <2>2. k \notin DOMAIN graph.inputs[i] \/ InputsOf(i)[k] # graph.inputs[i][k]
    BY <1>2, <1>3, <1>6, <2>1
  <2>3. PICK l : /\ i \in Anchors /\ l \in DOMAIN graph.inputs[Adder(i)]
                 /\ InputsOf(i)[k] = graph.inputs[Adder(i)][l]
    BY <2>2, FusedNodeIs
  <2>4. InputsOf(i)[k] # T1(n)
    <3>1. Adder(i) # Actor(n) BY <1>2, <2>3
    <3> QED BY <1>2, <1>3, <2>3, <3>1
  <2>5. k = 3 /\ InputsOf(i)[3] = chains[i].bias BY <1>2, <2>2, <2>3, FusedNodeIs
  <2> QED BY <1>5, <1>6, <2>3, <2>4, <2>5
<1>7. ASSUME NEW i \in Stay, NEW k \in DOMAIN OutputsOf(i), NEW n \in Anchors,
             OutputsOf(i)[k] = T0(n) \/ OutputsOf(i)[k] = T1(n)
      PROVE  FALSE
  <2>1. OutputsOf(i) = graph.outputs[LastOf(i)] /\ LastOf(i) \in Nodes BY FusedNodeIs
  <2>2. LastOf(i) = n \/ LastOf(i) = Adder(n) BY <1>4, <1>7, <2>1
  <2>3. CASE i \in Anchors BY <1>2, <2>2, <2>3 DEF LastOf
  <2>4. CASE i \notin Anchors BY <1>2, <2>2, <2>4 DEF LastOf
  <2> QED BY <2>3, <2>4
<1>8. ASSUME NEW i \in Stay
      PROVE  /\ \A k \in DOMAIN InputsOf(i) : InputsOf(i)[k] \in Live
             /\ \A k \in DOMAIN OutputsOf(i) : OutputsOf(i)[k] \in Live
  <2>1. InputsOf(i) \in Seq(TensorIds) /\ OutputsOf(i) \in Seq(TensorIds) BY FusedNodeIs
  <2>2. /\ \A k \in DOMAIN InputsOf(i) : InputsOf(i)[k] \in TensorIds
        /\ \A k \in DOMAIN OutputsOf(i) : OutputsOf(i)[k] \in TensorIds
    BY <2>1
  <2> QED BY <1>6, <1>7, <2>2, DroppedAre DEF Live
<1> QED BY <1>8, NamesDroppedIs

LEMMA RebuiltHasOperands ==
  ASSUME Matched, ~NamesDropped
  PROVE  HasOperands(Rebuilt)
<1> DEFINE R == Rebuilt
<1>1. /\ DOMAIN R.inputs = NewNodes
      /\ \A j \in NewNodes :
           /\ NodeAt(j) \in Stay /\ R.op[j] = OpOf(NodeAt(j))
           /\ DOMAIN R.inputs[j] = DOMAIN InputsOf(NodeAt(j))
  BY RebuiltIs
<1> HIDE DEF R
<1>2. HasOperands(graph) /\ DOMAIN graph.inputs = Nodes BY SourceIs DEF Matched
<1>3. ASSUME NEW i \in Stay
      PROVE  /\ OpOf(i) \in {"MatMul", "Add"} => {1, 2} \subseteq DOMAIN InputsOf(i)
             /\ OpOf(i) \in {"Gelu", "GeluTanh"} => 1 \in DOMAIN InputsOf(i)
             /\ OpOf(i) \in FusedOps => {1, 2, 3} \subseteq DOMAIN InputsOf(i)
  <2>1. CASE i \in Anchors
    <3>1. OpOf(i) \in FusedOps BY <2>1 DEF OpOf, Anchors, FusedOp, FusedOps
    <3>2. DOMAIN InputsOf(i) = {1, 2, 3} BY <2>1, FusedNodeIs
    <3> QED BY <3>1, <3>2 DEF FusedOps
  <2>2. CASE i \notin Anchors
    <3>1. OpOf(i) = graph.op[i] /\ InputsOf(i) = graph.inputs[i]
      BY <2>2, FusedNodeIs DEF OpOf, Anchors
    <3>2. i \in Nodes BY DEF Stay
    <3> QED BY <1>2, <3>1, <3>2 DEF HasOperands
  <2> QED BY <2>1, <2>2
<1> QED BY <1>1, <1>3 DEF HasOperands, R

\* What a chain that ends in a bias computes is what the fused node does.
LEMMA ChainComputes ==
  ASSUME Matched, BiasChains, NEW m \in Anchors
  PROVE  LET V == Value(graph)
             x == graph.inputs[m][1]
             y == graph.inputs[m][2]
             b == chains[m].bias
             u == graph.outputs[Actor(m)][1]
         IN  V[u] = Act(graph.op[Actor(m)],
                        SumBias(<<"matmul", V[x], V[y]>>, graph.rows[x],
                                V[b], graph.rows[b], graph.rows[u]))
<1> DEFINE V == Value(graph)
           a == Adder(m)
           g == Actor(m)
           x == graph.inputs[m][1]
           y == graph.inputs[m][2]
           b == chains[m].bias
           u == graph.outputs[g][1]
           rows(t) == graph.rows[t]
<1>1. graph \in Graphs /\ graph = source BY DEF Matched
<1>2. Sortable(graph) /\ HasOperands(graph) BY <1>1, SourceIs
<1>3. V = [t \in TensorIds |-> Given(graph, V, t)]
  BY <1>2, SortableIsFounded, ValueIs DEF IsValue, TensorIds
<1>4. /\ m \in Nodes /\ a \in Nodes /\ g \in Nodes
      /\ graph.op[m] = "MatMul" /\ graph.op[a] = "Add" /\ graph.op[g] \in {"Gelu", "GeluTanh"}
      /\ 1 \in DOMAIN graph.outputs[m] /\ 1 \in DOMAIN graph.outputs[a]
      /\ 1 \in DOMAIN graph.outputs[g]
      /\ graph.inputs[g][1] = T1(m)
      /\ \/ graph.inputs[a][1] = T0(m) /\ graph.inputs[a][2] = b
         \/ graph.inputs[a][2] = T0(m) /\ graph.inputs[a][1] = b
  BY ChainIs DEF Private
<1> HIDE DEF V, a, g
<1>5. ASSUME NEW i \in Nodes, 1 \in DOMAIN graph.outputs[i]
      PROVE  V[graph.outputs[i][1]] = Result(graph, i, graph.outputs[i][1], V)
  <2> DEFINE t == graph.outputs[i][1]
  <2>1. t \in TensorIds /\ Makers(graph, t) = {i}
    <3>1. DOMAIN graph.inputs = Nodes /\ DOMAIN graph.kind = TensorIds BY <1>1, SourceIs
    <3>2. \A k \in DOMAIN graph.outputs[i] :
            graph.outputs[i][k] \in TensorIds /\ Makers(graph, graph.outputs[i][k]) = {i}
      BY <1>2, <3>1 DEF Sortable
    <3> QED BY <1>5, <3>2
  <2> HIDE DEF t
  <2>2. Maker(graph, t) = i BY <2>1 DEF Maker
  <2>3. Given(graph, V, t) = Result(graph, i, t, V) BY <2>1, <2>2 DEF Given
  <2>4. V[t] = Given(graph, V, t) BY <1>3, <2>1, Zenon
  <2> QED BY <2>3, <2>4 DEF t
<1>6. V[T0(m)] = <<"matmul", V[x], V[y]>>
  <2>1. V[T0(m)] = Result(graph, m, T0(m), V) BY <1>4, <1>5 DEF T0
  <2> QED BY <1>4, <2>1 DEF Result, FusedOps
<1>7. V[T1(m)] = Sum(V[graph.inputs[a][1]], rows(graph.inputs[a][1]),
                    V[graph.inputs[a][2]], rows(graph.inputs[a][2]))
  <2>1. V[T1(m)] = Result(graph, a, T1(m), V) BY <1>4, <1>5 DEF T1, a
  <2> QED BY <1>4, <2>1 DEF Result, FusedOps
<1>8. V[u] = Act(graph.op[g], V[T1(m)])
  <2>1. V[u] = Result(graph, g, u, V) BY <1>4, <1>5
  <2>2. graph.op[g] \notin {"MatMul", "Add"} BY <1>4
  <2> QED BY <1>4, <2>1, <2>2 DEF Result, FusedOps
<1>9. /\ rows(T0(m)) = rows(x) /\ rows(T1(m)) = rows(graph.inputs[a][1])
      /\ rows(u) = rows(T1(m)) /\ rows(graph.inputs[a][2]) \in {1, rows(graph.inputs[a][1])}
  <2>1. ASSUME NEW i \in Nodes, graph.op[i] \in {"MatMul", "Add", "Gelu", "GeluTanh"},
               1 \in DOMAIN graph.outputs[i]
        PROVE  rows(graph.outputs[i][1]) = rows(graph.inputs[i][1])
    BY <1>1, <2>1, FusionAssumption, SourceIs
  <2>2. rows(graph.inputs[a][2]) \in {1, rows(graph.inputs[a][1])}
    BY <1>1, <1>4, FusionAssumption, SourceIs
  <2>3. rows(T0(m)) = rows(x) BY <1>4, <2>1 DEF T0
  <2>4. rows(T1(m)) = rows(graph.inputs[a][1]) BY <1>4, <2>1 DEF T1, a
  <2>5. rows(u) = rows(T1(m)) BY <1>4, <2>1
  <2> QED BY <2>2, <2>3, <2>4, <2>5
<1>10. rows(b) = 1 BY <1>1 DEF BiasChains, Anchors
<1> DEFINE p == <<"matmul", V[x], V[y]>>
<1> HIDE DEF p, b, u, x, y, rows
<1>11. V[T1(m)] = SumBias(p, rows(x), V[b], rows(b), rows(u))
  <2>0. V[T0(m)] = p BY <1>6 DEF p
  <2>1. CASE graph.inputs[a][1] = T0(m) /\ graph.inputs[a][2] = b
    <3>1. V[T1(m)] = Sum(p, rows(x), V[b], 1) BY <1>7, <1>9, <1>10, <2>0, <2>1
    <3>2. rows(u) = rows(x) BY <1>9, <2>1
    <3> QED BY <1>10, <3>1, <3>2 DEF SumBias
  <2>2. CASE graph.inputs[a][2] = T0(m) /\ graph.inputs[a][1] = b
    <3>1. rows(x) = 1 /\ rows(u) = 1 /\ rows(T0(m)) = 1 BY <1>9, <1>10, <2>2
    <3>2. V[T1(m)] = Sum(V[b], 1, p, 1) BY <1>7, <1>10, <2>0, <2>2, <3>1
    <3>3. {V[b], p} = {p, V[b]} OBVIOUS
    <3>4. V[T1(m)] = Sum(p, 1, V[b], 1) BY <3>2, <3>3 DEF Sum
    <3> QED BY <1>10, <3>1, <3>4 DEF SumBias
  <2> QED BY <1>4, <2>1, <2>2
<1> QED BY <1>8, <1>11 DEF V, a, g, p, b, u, x, y, rows

\* What node j of the new graph stores is what the source has there.
LEMMA RebuiltResult ==
  ASSUME Matched, ~NamesDropped, BiasChains, NEW t \in NewTensors, NEW j \in NewNodes,
         j \in Makers(Rebuilt, t), NEW W,
         \A u \in NewTensors : W[u] = Value(graph)[TensorAt(u)]
  PROVE  Result(Rebuilt, j, t, W) = Value(graph)[TensorAt(t)]
<1> DEFINE R == Rebuilt
           V == Value(graph)
           i == NodeAt(j)
           u == TensorAt(t)
<1>1. /\ \A v \in NewTensors : /\ TensorAt(v) \in Live /\ Remap(TensorAt(v)) = v
                               /\ R.rows[v] = graph.rows[TensorAt(v)]
      /\ i \in Stay /\ R.op[j] = OpOf(i)
      /\ DOMAIN R.inputs[j] = DOMAIN InputsOf(i)
      /\ DOMAIN R.outputs[j] = DOMAIN OutputsOf(i)
      /\ \A k \in DOMAIN InputsOf(i) :
           /\ R.inputs[j][k] \in NewTensors
           /\ TensorAt(R.inputs[j][k]) = InputsOf(i)[k]
      /\ \A k \in DOMAIN OutputsOf(i) :
           /\ R.outputs[j][k] \in NewTensors
           /\ TensorAt(R.outputs[j][k]) = OutputsOf(i)[k]
  BY RebuiltIs
<1>2. u \in Named(graph.outputs[LastOf(i)]) BY RebuiltMakers
<1> HIDE DEF R, V
<1>3. \A k \in DOMAIN InputsOf(i) :
        /\ W[R.inputs[j][k]] = V[InputsOf(i)[k]]
        /\ R.rows[R.inputs[j][k]] = graph.rows[InputsOf(i)[k]]
  BY <1>1 DEF V
<1>4. R.rows[t] = graph.rows[u] BY <1>1
<1>5. graph \in Graphs BY DEF Matched
<1>6. Sortable(graph) /\ HasOperands(graph) /\ DOMAIN graph.inputs = Nodes
      /\ DOMAIN graph.kind = TensorIds
  BY <1>5, SourceIs
<1>7. V = [v \in TensorIds |-> Given(graph, V, v)]
  BY <1>6, SortableIsFounded, ValueIs DEF IsValue, V
<1>8. i \in Nodes BY <1>1 DEF Stay
<1>9. CASE i \notin Anchors
  <2>1. /\ R.op[j] = graph.op[i] /\ InputsOf(i) = graph.inputs[i]
        /\ OutputsOf(i) = graph.outputs[i] /\ LastOf(i) = i
    BY <1>1, <1>9, FusedNodeIs DEF OpOf, OutputsOf, LastOf, Anchors
  <2>2. \A k \in DOMAIN graph.outputs[i] : R.outputs[j][k] = t <=> graph.outputs[i][k] = u
    BY <1>1, <2>1
  <2>3. Result(R, j, t, W) = Result(graph, i, u, V)
    <3>1. /\ DOMAIN R.inputs[j] = DOMAIN graph.inputs[i]
          /\ DOMAIN R.outputs[j] = DOMAIN graph.outputs[i]
          /\ \A k \in DOMAIN graph.inputs[i] :
               /\ W[R.inputs[j][k]] = V[graph.inputs[i][k]]
               /\ R.rows[R.inputs[j][k]] = graph.rows[graph.inputs[i][k]]
      BY <1>1, <1>3, <2>1
    <3> HIDE DEF i, u
    <3> QED BY <1>4, <1>6, <1>8, <2>1, <2>2, <3>1, ResultSame
  <2>4. u \in TensorIds /\ Makers(graph, u) = {i}
    <3>1. PICK k \in DOMAIN graph.outputs[i] : u = graph.outputs[i][k] BY <1>2, <2>1 DEF Named
    <3>2. \A l \in DOMAIN graph.outputs[i] :
            graph.outputs[i][l] \in TensorIds /\ Makers(graph, graph.outputs[i][l]) = {i}
      BY <1>6, <1>8 DEF Sortable
    <3> QED BY <3>1, <3>2
  <2> HIDE DEF i, u
  <2>5. Maker(graph, u) = i BY <2>4 DEF Maker
  <2>6. V[u] = Given(graph, V, u) BY <1>7, <2>4, Zenon
  <2>7. Given(graph, V, u) = Result(graph, i, u, V) BY <2>4, <2>5 DEF Given
  <2> QED BY <2>3, <2>6, <2>7 DEF R, V, u
<1>10. CASE i \in Anchors
  <2> DEFINE x == graph.inputs[i][1]
             y == graph.inputs[i][2]
             b == chains[i].bias
  <2>1. /\ DOMAIN InputsOf(i) = {1, 2, 3} /\ InputsOf(i)[1] = x /\ InputsOf(i)[2] = y
        /\ InputsOf(i)[3] = b
    BY <1>1, <1>10, FusedNodeIs
  <2>2. /\ W[R.inputs[j][1]] = V[x] /\ W[R.inputs[j][2]] = V[y] /\ W[R.inputs[j][3]] = V[b]
        /\ R.rows[R.inputs[j][1]] = graph.rows[x] /\ R.rows[R.inputs[j][3]] = graph.rows[b]
    BY <1>3, <2>1
  <2>3. R.op[j] = FusedOp(graph.op[Actor(i)]) BY <1>1, <1>10 DEF OpOf, Anchors, Actor
  <2>4. graph.op[Actor(i)] \in {"Gelu", "GeluTanh"} /\ DOMAIN graph.outputs[Actor(i)] = {1}
    BY <1>10, ChainIs
  <2>5. u = graph.outputs[Actor(i)][1] BY <1>2, <1>10, <2>4 DEF Named, LastOf
  <2>6. V[u] = Act(graph.op[Actor(i)],
                   SumBias(<<"matmul", V[x], V[y]>>, graph.rows[x], V[b], graph.rows[b], graph.rows[u]))
    BY <1>10, <2>5, ChainComputes DEF V
  <2> HIDE DEF x, y, b, u
  <2>7. ASSUME NEW v PROVE Act(FusedOp(graph.op[Actor(i)]), v) = Act(graph.op[Actor(i)], v)
    BY <2>4 DEF Act, FusedOp
  <2>8. R.op[j] \in FusedOps /\ R.op[j] \notin {"MatMul", "Add", "Gelu", "GeluTanh"}
    BY <2>3 DEF FusedOp, FusedOps
  <2>9. Result(R, j, t, W)
          = Act(R.op[j], SumBias(<<"matmul", W[R.inputs[j][1]], W[R.inputs[j][2]]>>,
                                 R.rows[R.inputs[j][1]],
                                 W[R.inputs[j][3]], R.rows[R.inputs[j][3]], R.rows[t]))
    BY <2>8 DEF Result
  <2> QED BY <1>4, <2>2, <2>3, <2>6, <2>7, <2>9 DEF R, V, u
<1> QED BY <1>9, <1>10

LEMMA RebuiltValues ==
  ASSUME Matched, BiasChains, NEW t \in NewTensors
  PROVE  Value(Rebuilt)[t] = Value(graph)[TensorAt(t)]
<1> DEFINE R == Rebuilt
           V == Value(graph)
           W == [u \in NewTensors |-> V[TensorAt(u)]]
<1>1. ~NamesDropped BY NamesKept
<1>2. Sortable(R) /\ HasOperands(R) /\ Founded(R)
  BY <1>1, RebuiltSortable, RebuiltHasOperands, SortableIsFounded
<1>3. /\ DOMAIN R.kind = NewTensors /\ DOMAIN R.inputs = NewNodes
      /\ \A u \in NewTensors : TensorAt(u) \in Live /\ R.name[u] = graph.name[TensorAt(u)]
  BY <1>1, RebuiltIs
<1>4. \A u \in NewTensors :
        Makers(R, u) = {j \in NewNodes : TensorAt(u) \in Named(graph.outputs[LastOf(NodeAt(j))])}
  BY <1>1, RebuiltMakers
<1>5. graph \in Graphs BY DEF Matched
<1>6. Sortable(graph) /\ HasOperands(graph) /\ DOMAIN graph.inputs = Nodes
      /\ DOMAIN graph.outputs = Nodes /\ DOMAIN graph.kind = TensorIds
  BY <1>5, SourceIs
<1>7. V = [v \in TensorIds |-> Given(graph, V, v)]
  BY <1>6, SortableIsFounded, ValueIs DEF IsValue
<1>8. \A u \in NewTensors : W[u] = Value(graph)[TensorAt(u)] OBVIOUS
<1> HIDE DEF R, V, W
<1>9. ASSUME NEW u \in NewTensors PROVE V[TensorAt(u)] = Given(R, W, u)
  <2>1. CASE Makers(R, u) = {}
    <3>1. TensorAt(u) \in Live /\ TensorAt(u) \in TensorIds BY <1>3 DEF Live
    <3>2. Makers(graph, TensorAt(u)) = {}
      <4> SUFFICES ASSUME NEW p \in Makers(graph, TensorAt(u)) PROVE FALSE OBVIOUS
      <4>1. p \in Nodes /\ TensorAt(u) \in Named(graph.outputs[p])
        BY <1>6 DEF Makers, Named
      <4>2. PICK y \in Stay : LastOf(y) = p BY <3>1, <4>1, MakerStays
      <4>3. PICK j \in NewNodes : NodeAt(j) = y BY KeptNodesAre DEF NewNodes, NodeAt
      <4> QED BY <1>4, <2>1, <4>1, <4>2, <4>3
    <3>3. V[TensorAt(u)] = Given(graph, V, TensorAt(u)) BY <1>7, <3>1, Zenon
    <3>4. Given(graph, V, TensorAt(u)) = <<"bound", graph.name[TensorAt(u)]>>
      BY <3>2 DEF Given
    <3>5. Given(R, W, u) = <<"bound", R.name[u]>> BY <2>1 DEF Given
    <3> QED BY <1>3, <3>3, <3>4, <3>5
  <2>2. CASE Makers(R, u) # {}
    <3>1. Maker(R, u) \in Makers(R, u) BY <2>2 DEF Maker
    <3>2. Maker(R, u) \in NewNodes BY <1>4, <3>1
    <3>3. Result(R, Maker(R, u), u, W) = V[TensorAt(u)]
      BY <1>1, <1>8, <3>1, <3>2, RebuiltResult DEF R, V
    <3> QED BY <2>2, <3>3 DEF Given
  <2> QED BY <2>1, <2>2
<1>10. IsValue(R, W)
  <2>1. W = [u \in NewTensors |-> V[TensorAt(u)]] BY DEF W
  <2>2. [u \in NewTensors |-> V[TensorAt(u)]] = [u \in NewTensors |-> Given(R, W, u)]
    BY <1>9, Zenon
  <2>3. W = [u \in DOMAIN R.kind |-> Given(R, W, u)] BY <1>3, <2>1, <2>2, Zenon
  <2> QED BY <2>3, Zenon DEF IsValue
<1>11. W = Value(R) BY <1>2, <1>10, ValueIs
<1> QED BY <1>8, <1>11 DEF R
-----------------------------------------------------------------------------
(* The invariant.                                                          *)

\* Until the rebuild the graph is the source and chains holds the chains of
\* the nodes examined; what the rebuild has made is well-formed and sorted as
\* any other graph is.
FuseInv ==
    /\ source \in Graphs
    /\ phase \in {"match", "threw", "sorted", "failed"} \cup SortPhases
    /\ phase = "match" => Matched /\ order = <<>> /\ ready = <<>> /\ dep = 0
    /\ phase \notin {"match", "threw"} => SortInv /\ WellFormed
    /\ PreservesBiasChains
    /\ NothingLeftToFuse

LEMMA FuseInitInv == FuseInit => FuseInv
<1> SUFFICES ASSUME FuseInit PROVE FuseInv OBVIOUS
<1>1. /\ source \in Graphs /\ graph = source /\ phase = "match" /\ ni = 0 /\ chains = <<>>
      /\ order = <<>> /\ ready = <<>> /\ dep = 0
  BY DEF FuseInit
<1>2. NumNodes \in Nat BY <1>1, SourceIs
<1>3. DOMAIN chains = {} BY <1>1
<1>4. ni \in 0 .. NumNodes /\ \A m \in 0 .. ni - 1 : FALSE BY <1>1, <1>2
<1>5. Matched BY <1>1, <1>3, <1>4 DEF Matched, MatchInv
<1>6. PreservesBiasChains /\ NothingLeftToFuse
  BY <1>1 DEF PreservesBiasChains, NothingLeftToFuse, Fused
<1> QED BY <1>1, <1>5, <1>6 DEF FuseInv

\* A node begins one chain, if any: who reads its result is unique.
LEMMA MatchAnchorKeeps == FuseInv /\ MatchAnchor => FuseInv'
<1> SUFFICES ASSUME FuseInv, MatchAnchor PROVE FuseInv' OBVIOUS
<1> DEFINE found == {c \in {ni} \X Nodes \X Nodes : Chain(c[1], c[2], c[3])}
           new == CHOOSE c \in found : TRUE
           D == DOMAIN chains \cup {c[1] : c \in found}
<1>1. /\ phase = "match" /\ ni < NumNodes /\ ni' = ni + 1
      /\ chains' = [m \in D |-> IF m \in DOMAIN chains THEN chains[m]
                                ELSE [add |-> new[2], act |-> new[3], bias |-> Bias(m, new[2])]]
      /\ UNCHANGED <<graph, phase, producer, indeg, ready, order, dep, source>>
  BY DEF MatchAnchor, sortVars
<1>2. /\ Matched /\ MatchInv /\ source \in Graphs /\ graph = source
      /\ order = <<>> /\ ready = <<>> /\ dep = 0
  BY <1>1 DEF FuseInv, Matched
<1>3. NumNodes \in Nat /\ Nodes = 0 .. NumNodes - 1 BY <1>2, SourceIs
<1>4. ni \in Nodes /\ ni + 1 \in 0 .. NumNodes BY <1>1, <1>2, <1>3 DEF MatchInv
<1>5. /\ Nodes' = Nodes /\ NumNodes' = NumNodes
      /\ \A m, a, g : Chain(m, a, g)' <=> Chain(m, a, g)
      /\ \A m, a : Bias(m, a)' = Bias(m, a)
  BY <1>1, ChainsAre DEF Nodes, NumNodes, Bias
<1>6. \A c \in found : c = <<c[1], c[2], c[3]>> /\ c[1] = ni /\ c[2] \in Nodes /\ c[3] \in Nodes
                       /\ Chain(ni, c[2], c[3])
  OBVIOUS
<1>7. ASSUME NEW a \in Nodes, NEW g \in Nodes, Chain(ni, a, g) PROVE ni \in D
  <2>1. <<ni, a, g>> \in found BY <1>7
  <2> HIDE DEF found
  <2>2. <<ni, a, g>>[1] = ni OBVIOUS
  <2> QED BY <2>1, <2>2
<1>8. found # {} => new \in found
  <2> HIDE DEF found
  <2> QED OBVIOUS
<1> HIDE DEF found, new
<1>9. DOMAIN chains' = D BY <1>1
<1>10. ASSUME NEW m \in D
       PROVE  /\ m \in Nodes /\ chains'[m].add \in Nodes /\ chains'[m].act \in Nodes
              /\ Chain(m, chains'[m].add, chains'[m].act)
              /\ chains'[m].bias = Bias(m, chains'[m].add)
  <2>1. CASE m \in DOMAIN chains
    <3>1. chains'[m] = chains[m] BY <1>1, <2>1
    <3> QED BY <1>2, <2>1, <3>1 DEF MatchInv
  <2>2. CASE m \notin DOMAIN chains
    <3>1. chains'[m] = [add |-> new[2], act |-> new[3], bias |-> Bias(m, new[2])] BY <1>1, <2>2
    <3>2. found # {} /\ m = ni BY <1>6, <2>2
    <3>3. new[2] \in Nodes /\ new[3] \in Nodes /\ Chain(ni, new[2], new[3]) BY <1>6, <1>8, <3>2
    <3>4. /\ chains'[m].add = new[2] /\ chains'[m].act = new[3]
          /\ chains'[m].bias = Bias(m, new[2])
      BY <3>1
    <3> QED BY <1>4, <3>2, <3>3, <3>4
  <2> QED BY <2>1, <2>2
<1>11. ASSUME NEW m \in 0 .. ni' - 1, NEW a \in Nodes, NEW g \in Nodes, Chain(m, a, g)
       PROVE  m \in D
  <2>1. m = ni \/ m \in 0 .. ni - 1 BY <1>1, <1>3, <1>4
  <2> HIDE DEF D
  <2>2. DOMAIN chains \subseteq D BY DEF D
  <2> QED BY <1>2, <1>7, <1>11, <2>1, <2>2 DEF MatchInv
<1> HIDE DEF D
<1>12. MatchInv' BY <1>1, <1>4, <1>5, <1>9, <1>10, <1>11 DEF MatchInv
<1>13. Matched' BY <1>1, <1>2, <1>12 DEF Matched
<1>14. PreservesBiasChains' /\ NothingLeftToFuse'
  BY <1>1 DEF PreservesBiasChains, NothingLeftToFuse, Fused
<1> QED BY <1>1, <1>2, <1>13, <1>14 DEF FuseInv

\* The rebuild: everything above comes together.
LEMMA RebuildKeeps == FuseInv /\ Rebuild => FuseInv'
<1> SUFFICES ASSUME FuseInv, Rebuild PROVE FuseInv' OBVIOUS
<1>1. /\ phase = "match" /\ ni = NumNodes
      /\ UNCHANGED <<ready, order, dep, source, ni, chains>>
      /\ NamesDropped => phase' = "threw"
      /\ ~NamesDropped =>
           /\ graph' = Rebuilt /\ phase' = "producers"
           /\ indeg' = [i \in DOMAIN Rebuilt.inputs |-> 0]
  BY DEF Rebuild, fuseOnlyVars
<1>2. /\ Matched /\ source \in Graphs /\ graph = source
      /\ order = <<>> /\ ready = <<>> /\ dep = 0
  BY <1>1 DEF FuseInv, Matched
<1>3. BiasChains' <=> BiasChains BY <1>1 DEF BiasChains
<1>4. CASE NamesDropped
  <2>1. ~BiasChains BY <1>2, <1>4, NamesKept
  <2>2. PreservesBiasChains' BY <1>3, <2>1 DEF PreservesBiasChains
  <2>3. NothingLeftToFuse' BY <1>1, <1>4 DEF NothingLeftToFuse, Fused
  <2> QED BY <1>1, <1>2, <1>4, <2>2, <2>3 DEF FuseInv
<1>5. CASE ~NamesDropped
  <2>1. graph' = Rebuilt /\ phase' = "producers" BY <1>1, <1>5
  <2>2. /\ IsGraph(Rebuilt) /\ DOMAIN Rebuilt.kind = NewTensors /\ DOMAIN Rebuilt.inputs = NewNodes
        /\ \A t \in NewTensors : /\ TensorAt(t) \in Live
                                 /\ Rebuilt.name[t] = graph.name[TensorAt(t)]
        /\ DOMAIN Rebuilt.results = DOMAIN graph.results
        /\ \A k \in DOMAIN graph.results :
              Rebuilt.results[k] \in NewTensors /\ TensorAt(Rebuilt.results[k]) = graph.results[k]
    BY <1>2, <1>5, RebuiltIs
  <2>3. TensorIds' = NewTensors /\ Nodes' = NewNodes BY <2>1, <2>2 DEF TensorIds, Nodes
  <2>4. WellFormed'
    <3>0. Sortable(Rebuilt) BY <1>2, <1>5, RebuiltSortable
    <3> HIDE DEF Rebuilt
    <3>1. Sortable(graph)' BY <2>1, <3>0
    <3>2. Sortable(graph)' => WellFormed' BY SortableIsWellFormed, PTL
    <3> QED BY <3>1, <3>2
  <2>5. SortInv'
    <3>1. IsGraph(graph)' BY <2>1, <2>2 DEF IsGraph
    <3>2. order' = <<>> /\ ready' = <<>> /\ dep' = 0 BY <1>1, <1>2
    <3>3. NumNodes' \in Nat BY <2>2, <2>3, FS_CardinalityType DEF NumNodes, IsGraph
    <3>4. indeg' \in [Nodes' -> Int] BY <1>1, <1>5, <2>2, <2>3
    <3>5. SortTypes' BY <2>1, <3>1, <3>2, <3>3, <3>4 DEF SortTypes
    <3>6. OrderIsTopological' BY <3>2 DEF OrderIsTopological
    <3> QED BY <2>1, <3>5, <3>6 DEF SortInv
  <2>6. NothingLeftToFuse'
    <3>1. \A m, a, g \in NewNodes : ~Chain(m, a, g)'
      BY <1>1, <1>2, <1>5, <2>1, NoChainLeft, ChainsAre
    <3>2. /\ Cardinality(NewNodes) = NumNodes - 2 * Cardinality(DOMAIN chains)
          /\ Cardinality(NewTensors) = Cardinality(TensorIds) - 2 * Cardinality(DOMAIN chains)
      BY <1>2, <1>5, DroppedCounted DEF Anchors
    <3>3. /\ NumNodes = Cardinality(DOMAIN source.inputs)
          /\ Cardinality(TensorIds) = Cardinality(DOMAIN source.kind)
      BY <1>2 DEF NumNodes, Nodes, TensorIds
    <3>4. NumNodes' = Cardinality(NewNodes) BY <2>3 DEF NumNodes
    <3> QED BY <1>1, <2>3, <3>1, <3>2, <3>3, <3>4 DEF NothingLeftToFuse
  <2>7. BiasChains => SameValues'
    <3> SUFFICES ASSUME BiasChains PROVE SameValues' OBVIOUS
    <3>1. ASSUME NEW t \in NewTensors
          PROVE  \E u \in DOMAIN source.kind :
                    /\ source.name[u] = Rebuilt.name[t]
                    /\ Value(Rebuilt)[t] = Value(source)[u]
      <4>1. TensorAt(t) \in DOMAIN source.kind BY <1>2, <2>2 DEF Live, TensorIds
      <4>2. Value(Rebuilt)[t] = Value(source)[TensorAt(t)] BY <1>2, RebuiltValues
      <4> QED BY <1>2, <2>2, <4>1, <4>2
    <3>2. [k \in DOMAIN Rebuilt.results |-> Rebuilt.name[Rebuilt.results[k]]]
            = [k \in DOMAIN source.results |-> source.name[source.results[k]]]
      BY <1>2, <2>2
    <3>3. Value(graph)' = Value(Rebuilt) BY <2>1 DEF Value, Makers, Result
    <3>4. Value(source)' = Value(source) BY <1>1 DEF Value, Makers, Result
    <3> QED BY <1>1, <2>1, <2>3, <3>1, <3>2, <3>3, <3>4 DEF SameValues
  <2>8. PreservesBiasChains' BY <1>3, <2>1, <2>7 DEF PreservesBiasChains
  <2> QED BY <1>1, <1>2, <2>1, <2>4, <2>5, <2>6, <2>8 DEF FuseInv, SortPhases
<1> QED BY <1>4, <1>5

LEMMA FuseSortKeeps == FuseInv /\ SortNext /\ UNCHANGED fuseOnlyVars => FuseInv'
<1> SUFFICES ASSUME FuseInv, SortNext, UNCHANGED fuseOnlyVars PROVE FuseInv' OBVIOUS
<1>1. /\ graph' = graph /\ phase \in SortPhases
      /\ phase' \in SortPhases \cup {"sorted", "failed"}
  BY SortStep
<1>2. phase' # "producers"
  BY DEF SortNext, ScanProducers, ScanConsumers, SeedReady, StartPopping, PopReady,
         VisitConsumer, EndVisit, EndSort
<1>3. phase \notin {"match", "threw"} /\ phase' \notin {"match", "threw"} BY <1>1 DEF SortPhases
<1>4. SortInv' BY <1>3, SortInvNext DEF FuseInv
<1>5. WellFormed' BY <1>1, <1>3, SameGraph DEF FuseInv
<1>6. PreservesBiasChains' /\ NothingLeftToFuse'
  BY <1>2, <1>3 DEF PreservesBiasChains, NothingLeftToFuse, Fused
<1>7. source' = source BY DEF fuseOnlyVars
<1> QED BY <1>1, <1>3, <1>4, <1>5, <1>6, <1>7 DEF FuseInv

LEMMA FuseStutter == FuseInv /\ UNCHANGED fuseVars => FuseInv'
<1> SUFFICES ASSUME FuseInv, UNCHANGED fuseVars PROVE FuseInv' OBVIOUS
<1>1. UNCHANGED <<graph, phase, producer, indeg, ready, order, dep, source, ni, chains>>
  BY DEF fuseVars, sortVars, fuseOnlyVars
<1>2. MatchInv' <=> MatchInv BY <1>1, ChainsAre DEF MatchInv, NumNodes, Nodes, Bias
<1>3. Matched' <=> Matched BY <1>1, <1>2 DEF Matched
<1>4. SortInv => SortInv' BY <1>1, SortInvFrame
<1>5. WellFormed' <=> WellFormed BY <1>1, SameGraph
<1>6. SameValues' <=> SameValues BY <1>1 DEF SameValues, TensorIds, Value, Makers, Result
<1>7. BiasChains' <=> BiasChains BY <1>1 DEF BiasChains
<1>8. PreservesBiasChains' <=> PreservesBiasChains
  BY <1>1, <1>6, <1>7 DEF PreservesBiasChains, Fused
<1>9. NothingLeftToFuse' <=> NothingLeftToFuse
  BY <1>1, ChainsAre DEF NothingLeftToFuse, Fused, Nodes, NumNodes, TensorIds
<1> QED BY <1>1, <1>3, <1>4, <1>5, <1>8, <1>9 DEF FuseInv

\* The invariant of the pass (fusion.cpp) over any graph that can be run.
THEOREM FuseInvariant == FuseSpec => []FuseInv
<1>1. FuseInv /\ [FuseNext \/ FuseDone]_fuseVars => FuseInv'
  BY MatchAnchorKeeps, RebuildKeeps, FuseSortKeeps, FuseStutter DEF FuseNext, FuseDone
<1> QED BY <1>1, FuseInitInv, PTL DEF FuseSpec

\* fusion.h, "numerics must be preserved": if every chain that the pass takes
\* ends its Add in a bias, it does not throw, every tensor that is left has
\* the value it had, and the results are the same ones.
THEOREM BiasChainsKeepValues == FuseSpec => []PreservesBiasChains
<1>1. FuseInv => PreservesBiasChains BY DEF FuseInv
<1> QED BY <1>1, FuseInvariant, PTL

\* fusion.h, "Fuse every MatMul -> Add(bias) -> Gelu/GeluTanh chain": the new
\* graph has none, and two nodes and two tensors less for each.
THEOREM EveryChainIsFused == FuseSpec => []NothingLeftToFuse
<1>1. FuseInv => NothingLeftToFuse BY DEF FuseInv
<1> QED BY <1>1, FuseInvariant, PTL

\* fusion_test.cpp, "EXPECT_NO_THROW(fused.topo_order())": whatever is fused,
\* the fused node closes no cycle and the new graph can be sorted.
THEOREM FusedAlwaysSorts == FuseSpec => []FusedGraphSorts
<1>1. FuseInv => FusedGraphSorts
  <2> SUFFICES ASSUME FuseInv, phase = "failed" PROVE FALSE BY DEF FusedGraphSorts
  <2>1. SortInv /\ WellFormed BY DEF FuseInv
  <2> QED BY <2>1, SortInvImplies DEF FailsExactlyWhenMalformed
<1> QED BY <1>1, FuseInvariant, PTL
=============================================================================
