------------------------ MODULE ConstantFoldingProofs ------------------------
(***************************************************************************)
(* Proofs about fold_constants, for every graph that has the properties of *)
(* FoldAssumption, whatever data is missing and whichever operators have a *)
(* kernel: the pass folds the least set of nodes that is closed under      *)
(* folding, throws exactly when one of them lacks data, and no tensor      *)
(* changes its value.                                                      *)
(***************************************************************************)
EXTENDS ConstantFolding, TopoSortProofs, TLAPS

-----------------------------------------------------------------------------
(* The values of tensors.                                                  *)

Maker(g, t) == CHOOSE i \in Makers(g, t) : TRUE

\* What a tensor is worth when val says what the inputs of its maker are.
Given(g, bindings, val, t) ==
    IF Makers(g, t) = {}
    THEN IF t \in DOMAIN bindings THEN bindings[t] ELSE Data(t)
    ELSE LET i == Maker(g, t)
         IN  Kernel(g.op[i], CHOOSE k \in DOMAIN g.outputs[i] : g.outputs[i][k] = t,
                    [k \in DOMAIN g.inputs[i] |-> val[g.inputs[i][k]]])

\* The tensors that the node computing t reads.
Reads(g, t) ==
    IF Makers(g, t) = {} THEN {}
    ELSE {g.inputs[Maker(g, t)][k] : k \in DOMAIN g.inputs[Maker(g, t)]}

\* No tensor is computed from itself: from any set of tensors one can be
\* taken that is computed from none of them.
Founded(g) ==
    /\ IsFiniteSet(DOMAIN g.kind)
    /\ \A t \in DOMAIN g.kind : Reads(g, t) \subseteq DOMAIN g.kind
    /\ \A T \in (SUBSET DOMAIN g.kind) \ {{}} : \E t \in T : Reads(g, t) \cap T = {}

\* A value depends on the tensors read, and on nothing else.
LEMMA GivenByReads ==
  ASSUME NEW g, NEW b, NEW f, NEW h, NEW t, \A u \in Reads(g, t) : f[u] = h[u]
  PROVE  Given(g, b, f, t) = Given(g, b, h, t)
<1>1. CASE Makers(g, t) = {} BY <1>1 DEF Given
<1>2. CASE Makers(g, t) # {}
  <2> DEFINE i == Maker(g, t)
             ins == g.inputs[i]
  <2>1. \A k \in DOMAIN ins : f[ins[k]] = h[ins[k]] BY <1>2 DEF Reads
  <2>2. [k \in DOMAIN ins |-> f[ins[k]]] = [k \in DOMAIN ins |-> h[ins[k]]] BY <2>1
  <2> DEFINE v(args) == Kernel(g.op[i], CHOOSE k \in DOMAIN g.outputs[i] : g.outputs[i][k] = t, args)
  <2>3. /\ Given(g, b, f, t) = v([k \in DOMAIN ins |-> f[ins[k]]])
        /\ Given(g, b, h, t) = v([k \in DOMAIN ins |-> h[ins[k]]])
    BY <1>2 DEF Given
  <2> HIDE DEF v
  <2> QED BY <2>2, <2>3
<1> QED BY <1>1, <1>2

IsValue(g, b, val) == val = [t \in DOMAIN g.kind |-> Given(g, b, val, t)]

\* There are such values: one tensor after the other can be given its value.
LEMMA ValueExists ==
  ASSUME NEW g, NEW b, Founded(g)
  PROVE  \E val : IsValue(g, b, val)
<1> DEFINE T == DOMAIN g.kind
           N == Cardinality(T)
           Part(D, f) == /\ D \subseteq T
                         /\ \A t \in D : Reads(g, t) \subseteq D /\ f[t] = Given(g, b, f, t)
           S == {n \in Nat : n <= N =>
                    \E D, f : Part(D, f) /\ IsFiniteSet(D) /\ Cardinality(D) = n}
<1>1. IsFiniteSet(T) /\ N \in Nat BY FS_CardinalityType DEF Founded
<1>2. 0 \in S
  <2>1. Part({}, <<>>) OBVIOUS
  <2>2. IsFiniteSet({}) /\ Cardinality({}) = 0 BY FS_EmptySet
  <2> HIDE DEF Part, N
  <2> QED BY <2>1, <2>2
<1>3. ASSUME NEW n \in S PROVE n + 1 \in S
  <2> SUFFICES ASSUME n + 1 <= N
               PROVE  \E D, f : Part(D, f) /\ IsFiniteSet(D) /\ Cardinality(D) = n + 1
    OBVIOUS
  <2>1. PICK D, f : Part(D, f) /\ IsFiniteSet(D) /\ Cardinality(D) = n
    <3> HIDE DEF Part, N
    <3>1. n \in S /\ n \in Nat OBVIOUS
    <3>2. n <= N BY <1>1, <3>1
    <3> QED BY <3>1, <3>2, Zenon
  <2>2. T \ D # {}
    <3> SUFFICES ASSUME T = D PROVE FALSE BY <2>1
    <3> QED BY <2>1, <1>1
  <2>3. PICK t \in T \ D : Reads(g, t) \cap (T \ D) = {} BY <2>2, Zenon DEF Founded
  <2>4. Reads(g, t) \subseteq D /\ t \notin Reads(g, t) BY <2>3, Zenon DEF Founded
  <2> DEFINE h == [u \in T |-> IF u = t THEN Given(g, b, f, t) ELSE f[u]]
  <2>5. \A u \in D : h[u] = f[u] BY <2>1, <2>3
  <2>6. h[t] = Given(g, b, f, t) BY <2>3
  <2> HIDE DEF h
  <2>7. ASSUME NEW u \in D \cup {t}
        PROVE  Reads(g, u) \subseteq D \cup {t} /\ h[u] = Given(g, b, h, u)
    <3>1. Reads(g, u) \subseteq D BY <2>1, <2>4
    <3>2. \A x \in Reads(g, u) : f[x] = h[x] BY <3>1, <2>5
    <3>3. Given(g, b, f, u) = Given(g, b, h, u) BY <3>2, GivenByReads
    <3>4. h[u] = Given(g, b, f, u) BY <2>1, <2>5, <2>6
    <3> QED BY <3>1, <3>3, <3>4
  <2>8. Part(D \cup {t}, h) BY <2>1, <2>3, <2>7
  <2>9. IsFiniteSet(D \cup {t}) /\ Cardinality(D \cup {t}) = n + 1
    BY <2>1, <2>3, FS_AddElement
  <2> HIDE DEF Part
  <2> QED BY <2>8, <2>9
<1> HIDE DEF S
<1>4. S \in SUBSET Nat BY DEF S
<1>5. S = Nat BY <1>2, <1>3, <1>4, Induction
<1>6. PICK D, f : Part(D, f) /\ IsFiniteSet(D) /\ Cardinality(D) = N
  <2> HIDE DEF Part
  <2>1. N \in S /\ N <= N BY <1>1, <1>5
  <2> QED BY <2>1, Zenon DEF S
<1>7. D = T BY <1>1, <1>6, FS_Subset
<1> DEFINE val == [t \in T |-> f[t]]
<1>8. ASSUME NEW t \in T PROVE val[t] = Given(g, b, val, t)
  <2>1. Reads(g, t) \subseteq T /\ f[t] = Given(g, b, f, t) BY <1>6, <1>7
  <2>2. \A u \in Reads(g, t) : f[u] = val[u] BY <2>1
  <2>3. val[t] = f[t] OBVIOUS
  <2> HIDE DEF val
  <2> QED BY <2>1, <2>2, <2>3, GivenByReads
<1>9. IsValue(g, b, val)
  <2>1. val = [t \in T |-> val[t]] OBVIOUS
  <2> HIDE DEF val
  <2>2. [t \in T |-> val[t]] = [t \in T |-> Given(g, b, val, t)] BY <1>8, Zenon
  <2> QED BY <2>1, <2>2, Zenon DEF IsValue
<1> QED BY <1>9

\* And only one of each.
LEMMA ValueUnique ==
  ASSUME NEW g, NEW b, NEW f, NEW h, Founded(g), IsValue(g, b, f), IsValue(g, b, h)
  PROVE  f = h
<1> DEFINE T == DOMAIN g.kind
           D == {t \in T : f[t] # h[t]}
<1>1. /\ f = [t \in T |-> Given(g, b, f, t)] /\ h = [t \in T |-> Given(g, b, h, t)]
  BY DEF IsValue
<1>2. D = {}
  <2> SUFFICES ASSUME D # {} PROVE FALSE OBVIOUS
  <2>1. PICK t \in D : Reads(g, t) \cap D = {} BY Zenon DEF Founded
  <2>2. t \in T /\ Reads(g, t) \subseteq T BY <2>1, Zenon DEF Founded
  <2>3. \A u \in Reads(g, t) : f[u] = h[u] BY <2>1, <2>2
  <2>4. Given(g, b, f, t) = Given(g, b, h, t) BY <2>3, GivenByReads
  <2>5. f[t] = Given(g, b, f, t) /\ h[t] = Given(g, b, h, t) BY <1>1, <2>2, Zenon
  <2> QED BY <2>1, <2>4, <2>5
<1>3. \A t \in T : f[t] = h[t] BY <1>2
<1>4. f = [t \in T |-> f[t]] /\ h = [t \in T |-> h[t]] BY <1>1
<1>5. [t \in T |-> f[t]] = [t \in T |-> h[t]] BY <1>3
<1> QED BY <1>4, <1>5, Zenon

LEMMA ValueIs ==
  ASSUME NEW g, NEW b, Founded(g)
  PROVE  /\ IsValue(g, b, Value(g, b))
         /\ \A val : IsValue(g, b, val) => val = Value(g, b)
<1>1. Value(g, b) = CHOOSE val : IsValue(g, b, val)
  BY DEF Value, IsValue, Given, Maker
<1>2. IsValue(g, b, Value(g, b)) BY <1>1, ValueExists, Zenon
<1> QED BY <1>2, ValueUnique
-----------------------------------------------------------------------------
(* The nodes that are kept.                                                *)

\* They are listed once each.
LEMMA KeptAre ==
  ASSUME NumNodes \in Nat
  PROVE  /\ KeptNodes \in Seq(Nat) /\ Distinct(KeptNodes)
         /\ Elements(KeptNodes) = {i \in 0 .. NumNodes - 1 : i \notin folded}
BY AllButIs DEF KeptNodes
-----------------------------------------------------------------------------
(* What is assumed of the graph handed to the pass.                        *)

Reading(i) == {source.inputs[i][k] : k \in DOMAIN source.inputs[i]}
Writing(i) == {source.outputs[i][k] : k \in DOMAIN source.outputs[i]}
Written(F) == UNION {Writing(i) : i \in F}
Tensors == DOMAIN source.kind
Weights == {t \in Tensors : source.kind[t] = "weight"}

LEMMA SourceFacts ==
  ASSUME source \in Graphs
  PROVE  /\ IsGraph(source) /\ IsFiniteSet(SourceNodes) /\ IsFiniteSet(Tensors)
         /\ Cardinality(SourceNodes) \in Nat
         /\ SourceNodes = 0 .. Cardinality(SourceNodes) - 1
         /\ \A i \in SourceNodes :
              /\ source.outputs[i] \in Seq(Int)
              /\ Reading(i) \subseteq Tensors /\ Writing(i) \subseteq Tensors
              /\ \A t \in Writing(i) : Makers(source, t) = {i}
              /\ \A t \in Writing(i) : source.kind[t] \notin {"input", "weight"}
         /\ \A t : Makers(source, t) \subseteq SourceNodes
         /\ \A t : \A i \in Makers(source, t) : t \in Writing(i)
<1>1. IsGraph(source) BY GraphsAssumption
<1>2. IsFiniteSet(SourceNodes) /\ IsFiniteSet(Tensors) BY <1>1 DEF IsGraph, SourceNodes, Tensors
<1>3. Cardinality(SourceNodes) \in Nat BY <1>2, FS_CardinalityType
<1>4. source.inputs \in [0 .. Cardinality(SourceNodes) - 1 -> Seq(Int)]
      /\ source.outputs \in [0 .. Cardinality(SourceNodes) - 1 -> Seq(Int)]
  BY <1>1 DEF IsGraph, SourceNodes
<1>5. SourceNodes = 0 .. Cardinality(SourceNodes) - 1 BY <1>4 DEF SourceNodes
<1>6. ASSUME NEW i \in SourceNodes
      PROVE  /\ source.outputs[i] \in Seq(Int)
             /\ Reading(i) \subseteq Tensors /\ Writing(i) \subseteq Tensors
             /\ \A t \in Writing(i) : Makers(source, t) = {i}
             /\ \A t \in Writing(i) : source.kind[t] \notin {"input", "weight"}
  <2>1. source.outputs[i] \in Seq(Int) BY <1>4, <1>5
  <2>2. /\ \A k \in DOMAIN source.inputs[i] : source.inputs[i][k] \in DOMAIN source.kind
        /\ \A k \in DOMAIN source.outputs[i] :
             /\ source.outputs[i][k] \in DOMAIN source.kind
             /\ source.kind[source.outputs[i][k]] \notin {"input", "weight"}
             /\ Makers(source, source.outputs[i][k]) = {i}
    BY FoldAssumption, Zenon DEF SourceNodes
  <2> QED BY <2>1, <2>2, Zenon DEF Reading, Writing, Tensors
<1>7. \A t : Makers(source, t) \subseteq SourceNodes BY DEF Makers, SourceNodes
<1>8. \A t : \A i \in Makers(source, t) : t \in Writing(i) BY DEF Makers, Writing
<1> QED BY <1>1, <1>2, <1>3, <1>5, <1>6, <1>7, <1>8

\* The node that computes a tensor of the graph reads what the tensor reads.
LEMMA SourceReads ==
  ASSUME source \in Graphs, NEW i \in SourceNodes, NEW t \in Writing(i)
  PROVE  Maker(source, t) = i /\ Reads(source, t) = Reading(i)
<1>1. Makers(source, t) = {i} BY SourceFacts
<1>2. Maker(source, t) = i BY <1>1 DEF Maker
<1> QED BY <1>1, <1>2 DEF Reads, Reading

LEMMA SourceFounded == ASSUME source \in Graphs PROVE Founded(source)
<1>1. ASSUME NEW t, Makers(source, t) # {}
      PROVE  /\ Maker(source, t) \in SourceNodes /\ t \in Writing(Maker(source, t))
             /\ Maker(source, t) \in Makers(source, t)
             /\ Reads(source, t) = Reading(Maker(source, t))
  <2>1. Maker(source, t) \in Makers(source, t) BY <1>1 DEF Maker
  <2> QED BY <1>1, <2>1, SourceFacts DEF Reads, Reading
<1>2. ASSUME NEW t PROVE Reads(source, t) \subseteq Tensors
  <2>1. CASE Makers(source, t) = {} BY <2>1 DEF Reads
  <2>2. CASE Makers(source, t) # {} BY <1>1, <2>2, SourceFacts
  <2> QED BY <2>1, <2>2
<1>3. ASSUME NEW T \in (SUBSET Tensors) \ {{}}
      PROVE  \E t \in T : Reads(source, t) \cap T = {}
  <2>1. CASE \E t \in T : Makers(source, t) = {}
    <3>1. PICK t \in T : Makers(source, t) = {} BY <2>1
    <3>2. Reads(source, t) = {} BY <3>1 DEF Reads
    <3> QED BY <3>2
  <2>2. CASE \A t \in T : Makers(source, t) # {}
    <3> DEFINE S == {Maker(source, t) : t \in T}
    <3>1. S \in (SUBSET DOMAIN source.inputs) \ {{}}
      <4>1. S \subseteq SourceNodes BY <1>1, <2>2
      <4> QED BY <4>1 DEF SourceNodes
    <3>2. PICK i \in S : \A k \in DOMAIN source.inputs[i] :
                            Makers(source, source.inputs[i][k]) \cap S = {}
      BY <3>1, FoldAssumption, Zenon
    <3>3. PICK t \in T : i = Maker(source, t) BY <3>2
    <3>4. Reads(source, t) = Reading(i) BY <1>1, <2>2, <3>3
    <3>5. ASSUME NEW u \in Reading(i), u \in T PROVE FALSE
      <4>1. PICK k \in DOMAIN source.inputs[i] : source.inputs[i][k] = u BY DEF Reading
      <4>2. Makers(source, u) \cap S = {} BY <3>2, <4>1
      <4>3. Maker(source, u) \in Makers(source, u) /\ Maker(source, u) \in S
        BY <1>1, <2>2, <3>5
      <4> QED BY <4>2, <4>3
    <3> QED BY <3>4, <3>5
  <2> QED BY <2>1, <2>2
<1>4. IsFiniteSet(Tensors) BY SourceFacts
<1> QED BY <1>2, <1>3, <1>4 DEF Founded, Tensors
-----------------------------------------------------------------------------
(* The least set that is closed under folding.                             *)

\* A kernel is there, and all inputs are constants once F has been folded.
CanFold(i, F) ==
    /\ source.op[i] \in Registered /\ Reading(i) # {} /\ Writing(i) # {}
    /\ Reading(i) \subseteq data \cup Weights \cup Written(F)

LEMMA ClosedIs ==
  ASSUME source \in Graphs, NEW F \in SUBSET SourceNodes
  PROVE  ClosedUnderFolding(F) <=> \A i \in SourceNodes : CanFold(i, F) => i \in F
<1>1. ASSUME NEW i \in SourceNodes
      PROVE  CanFold(i, F) <=>
               /\ source.op[i] \in Registered
               /\ {source.inputs[i][k] : k \in DOMAIN source.inputs[i]} # {}
               /\ source.outputs[i] # <<>>
               /\ \A t \in {source.inputs[i][k] : k \in DOMAIN source.inputs[i]} :
                     \/ t \in data \/ source.kind[t] = "weight"
                     \/ \E p \in F : \E k \in DOMAIN source.outputs[p] :
                           source.outputs[p][k] = t
  <2>1. Writing(i) # {} <=> source.outputs[i] # <<>>
    <3>1. source.outputs[i] \in Seq(Int) BY SourceFacts
    <3> DEFINE s == source.outputs[i]
    <3>2. DOMAIN s = 1 .. Len(s) /\ Len(s) \in Nat /\ (s = <<>> <=> Len(s) = 0) BY <3>1
    <3> HIDE DEF s
    <3>3. s # <<>> <=> DOMAIN s # {} BY <3>2
    <3> QED BY <3>3, Zenon DEF Writing, s
  <2>2. \A t : t \in Written(F) <=> \E p \in F : \E k \in DOMAIN source.outputs[p] :
                                       source.outputs[p][k] = t
    BY DEF Written, Writing
  <2>3. \A t \in Reading(i) : t \in Weights <=> source.kind[t] = "weight"
    BY SourceFacts DEF Weights
  <2> QED BY <2>1, <2>2, <2>3, Zenon DEF CanFold, Reading
<1> QED BY <1>1, Zenon DEF ClosedUnderFolding

LEMMA LeastClosedIs ==
  ASSUME source \in Graphs
  PROVE  /\ LeastClosed \in SUBSET SourceNodes /\ ClosedUnderFolding(LeastClosed)
         /\ \A R \in SUBSET SourceNodes : ClosedUnderFolding(R) => LeastClosed \subseteq R
<1> DEFINE IsLeast(F) == /\ ClosedUnderFolding(F)
                         /\ \A R \in SUBSET SourceNodes : ClosedUnderFolding(R) => F \subseteq R
           L == {i \in SourceNodes :
                    \A R \in SUBSET SourceNodes : ClosedUnderFolding(R) => i \in R}
<1>1. L \in SUBSET SourceNodes OBVIOUS
<1>2. \A R \in SUBSET SourceNodes : ClosedUnderFolding(R) => L \subseteq R OBVIOUS
<1> HIDE DEF L
<1>3. ClosedUnderFolding(L)
  <2> SUFFICES ASSUME NEW i \in SourceNodes, CanFold(i, L) PROVE i \in L BY <1>1, ClosedIs
  <2>1. ASSUME NEW R \in SUBSET SourceNodes, ClosedUnderFolding(R) PROVE i \in R
    <3>1. Written(L) \subseteq Written(R) BY <1>2, <2>1, Zenon DEF Written
    <3>2. CanFold(i, R) BY <3>1 DEF CanFold
    <3> QED BY <2>1, <3>2, ClosedIs
  <2> QED BY <2>1 DEF L
<1>4. IsLeast(L) BY <1>2, <1>3
<1>5. LeastClosed = CHOOSE F \in SUBSET SourceNodes : IsLeast(F) BY DEF LeastClosed
<1>6. LeastClosed \in SUBSET SourceNodes /\ IsLeast(LeastClosed)
  <2> HIDE DEF IsLeast
  <2> QED BY <1>1, <1>4, <1>5, Zenon
<1> QED BY <1>6
-----------------------------------------------------------------------------
(* The inductive invariant.                                                *)

\* Some node that has to be folded reads a weight without data.
DataMissing ==
    \E i \in LeastClosed : \E k \in DOMAIN source.inputs[i] :
        /\ source.kind[source.inputs[i][k]] = "weight"
        /\ source.inputs[i][k] \notin data

\* What has been folded so far: constants and kinds are those of the tensors
\* that the folded nodes write, and no node is folded that need not be.
FoldedInv ==
    /\ source \in Graphs /\ folded \in SUBSET SourceNodes
    /\ \A t \in data : t \in Tensors /\ source.kind[t] \in {"input", "weight"}
    /\ isConst = data \cup Weights \cup Written(folded)
    /\ DOMAIN constants = data \cup Written(folded)
    /\ \A t \in DOMAIN constants : constants[t] = Value(source, <<>>)[t]
    /\ \A i \in folded : Reading(i) \subseteq DOMAIN constants
    /\ kind = [t \in Tensors |-> IF t \in Written(folded) THEN "weight" ELSE source.kind[t]]
    /\ folded \subseteq LeastClosed

\* Where the pass is: what a pass without a change has left is not foldable.
PassInv ==
    /\ phase = "fold" =>
         /\ graph = source /\ ni \in 0 .. NumNodes /\ changed \in BOOLEAN
         /\ ~changed => \A i \in 0 .. ni - 1 : ~Foldable(i)
    /\ phase = "threw" => DataMissing
    /\ phase = "producers" =>
         /\ folded = LeastClosed
         /\ NumNodes = Cardinality(SourceNodes) - Cardinality(folded)
         /\ graph.kind = kind
         /\ Value(graph, constants) = Value(source, <<>>)

FoldInv == FoldedInv /\ PassInv
-----------------------------------------------------------------------------
(* It holds from the start, and is kept by the steps of a pass.            *)

LEMMA FoldInitInv == FoldInit => FoldInv
<1> SUFFICES ASSUME FoldInit PROVE FoldInv OBVIOUS
<1>1. /\ source \in Graphs /\ graph = source /\ phase = "fold" /\ folded = {} /\ ni = 0
      /\ changed = FALSE /\ kind = source.kind
      /\ data \in SUBSET {t \in TensorIds : graph.kind[t] \in {"input", "weight"}}
      /\ constants = [t \in data |-> Data(t)]
      /\ isConst = data \cup {t \in TensorIds : graph.kind[t] = "weight"}
  BY DEF FoldInit
<1>2. Written(folded) = {} BY <1>1 DEF Written
<1>3. IsGraph(source) /\ IsFiniteSet(Tensors) BY <1>1, SourceFacts
<1>4. \A t \in data : t \in Tensors /\ source.kind[t] \in {"input", "weight"}
  BY <1>1 DEF TensorIds, Tensors
<1>5. \A t \in DOMAIN constants : constants[t] = Value(source, <<>>)[t]
  <2> SUFFICES ASSUME NEW t \in data PROVE Data(t) = Value(source, <<>>)[t] BY <1>1
  <2>1. t \in Tensors /\ source.kind[t] \in {"input", "weight"} BY <1>4
  <2>2. Makers(source, t) = {}
    <3> SUFFICES ASSUME NEW i \in Makers(source, t) PROVE FALSE OBVIOUS
    <3>1. i \in SourceNodes /\ t \in Writing(i) BY <1>1, SourceFacts
    <3> QED BY <1>1, <2>1, <3>1, SourceFacts
  <2>3. IsValue(source, <<>>, Value(source, <<>>)) BY <1>1, SourceFounded, ValueIs
  <2>4. Value(source, <<>>)[t] = Given(source, <<>>, Value(source, <<>>), t)
    BY <2>1, <2>3, Zenon DEF IsValue, Tensors
  <2>5. t \notin DOMAIN <<>> OBVIOUS
  <2> QED BY <2>2, <2>4, <2>5, Zenon DEF Given
<1>6. kind = [t \in Tensors |-> IF t \in Written(folded) THEN "weight" ELSE source.kind[t]]
  <2>1. source.kind = [t \in Tensors |-> source.kind[t]]
    BY <1>1, GraphTypes, <1>3 DEF TensorIds, Tensors
  <2>2. [t \in Tensors |-> source.kind[t]]
          = [t \in Tensors |-> IF t \in Written(folded) THEN "weight" ELSE source.kind[t]]
    BY <1>2
  <2> QED BY <1>1, <2>1, <2>2, Zenon
<1>7. FoldedInv
  <2>1. isConst = data \cup Weights \cup Written(folded)
    BY <1>1, <1>2 DEF TensorIds, Tensors, Weights
  <2>2. DOMAIN constants = data \cup Written(folded) BY <1>1, <1>2
  <2> QED BY <1>1, <1>4, <1>5, <1>6, <2>1, <2>2 DEF FoldedInv
<1>8. PassInv
  <2>1. NumNodes \in Nat BY <1>1, <1>3, GraphTypes
  <2>2. ni \in 0 .. NumNodes /\ \A i \in 0 .. ni - 1 : FALSE BY <1>1, <2>1
  <2> QED BY <1>1, <2>2 DEF PassInv
<1> QED BY <1>7, <1>8 DEF FoldInv

\* While the pass runs, the graph it looks at is the one it was handed.
LEMMA DuringPass ==
  ASSUME FoldInv, phase = "fold", ni < NumNodes
  PROVE  /\ graph = source /\ source \in Graphs /\ ni \in SourceNodes
         /\ NumNodes \in Nat /\ ni + 1 \in 0 .. NumNodes
         /\ Ins(ni) = Reading(ni) /\ Outs(ni) = Writing(ni)
         /\ Foldable(ni) => ni \notin folded /\ CanFold(ni, folded)
<1>1. graph = source /\ ni \in 0 .. NumNodes /\ source \in Graphs
  BY DEF FoldInv, PassInv, FoldedInv
<1>2. NumNodes = Cardinality(SourceNodes) BY <1>1 DEF NumNodes, Nodes, SourceNodes
<1>3. NumNodes \in Nat /\ ni \in SourceNodes /\ ni + 1 \in 0 .. NumNodes
  BY <1>1, <1>2, SourceFacts
<1>4. Ins(ni) = Reading(ni) /\ Outs(ni) = Writing(ni) BY <1>1 DEF Ins, Outs, Reading, Writing
<1>5. Foldable(ni) => ni \notin folded /\ CanFold(ni, folded)
  BY <1>1, <1>4 DEF Foldable, CanFold, FoldInv, FoldedInv
<1> QED BY <1>1, <1>3, <1>4, <1>5

\* What can be folded belongs to the least closed set.
LEMMA FoldableIsDue ==
  ASSUME FoldedInv, NEW i \in SourceNodes, CanFold(i, folded)
  PROVE  i \in LeastClosed
<1>1. /\ LeastClosed \in SUBSET SourceNodes /\ ClosedUnderFolding(LeastClosed)
      /\ source \in Graphs
  BY LeastClosedIs DEF FoldedInv
<1>2. Written(folded) \subseteq Written(LeastClosed) BY DEF FoldedInv, Written
<1>3. CanFold(i, LeastClosed) BY <1>2 DEF CanFold
<1> QED BY <1>1, <1>3, ClosedIs

\* A step that changes neither the tables of the pass nor its input.
LEMMA FoldedFrame ==
  ASSUME FoldedInv,
         UNCHANGED <<source, data, constants, isConst, kind, folded>>
  PROVE  FoldedInv' /\ LeastClosed' = LeastClosed
<1>1. LeastClosed' = LeastClosed BY DEF LeastClosed, ClosedUnderFolding, SourceNodes
<1>2. /\ Weights' = Weights /\ Tensors' = Tensors /\ SourceNodes' = SourceNodes
      /\ Written(folded)' = Written(folded)
      /\ \A i : Reading(i)' = Reading(i)
  BY DEF Weights, Tensors, SourceNodes, Written, Writing, Reading
<1> QED BY <1>1, <1>2 DEF FoldedInv

LEMMA SkipNodeKeeps == FoldInv /\ SkipNode => FoldInv'
<1> SUFFICES ASSUME FoldInv, SkipNode PROVE FoldInv' OBVIOUS
<1>1. /\ phase = "fold" /\ ni < NumNodes /\ ~Foldable(ni) /\ ni' = ni + 1
      /\ UNCHANGED <<source, data, constants, isConst, kind, folded>>
      /\ graph' = graph /\ phase' = phase /\ changed' = changed
  BY DEF SkipNode, sortVars
<1>2. ni + 1 \in 0 .. NumNodes /\ graph = source BY <1>1, DuringPass
<1>3. FoldedInv' BY <1>1, FoldedFrame DEF FoldInv
<1>4. NumNodes' = NumNodes /\ \A i : Foldable(i)' = Foldable(i)
  BY <1>1 DEF NumNodes, Nodes, Foldable, Ins, Outs
<1>5. ASSUME ~changed, NEW i \in 0 .. ni' - 1 PROVE ~Foldable(i)'
  <2>1. i = ni \/ i \in 0 .. ni - 1 BY <1>1, <1>2 DEF FoldInv, PassInv
  <2> QED BY <1>1, <1>4, <1>5, <2>1 DEF FoldInv, PassInv
<1>6. PassInv' BY <1>1, <1>2, <1>4, <1>5 DEF FoldInv, PassInv
<1> QED BY <1>3, <1>6 DEF FoldInv

LEMMA AnotherPassKeeps == FoldInv /\ AnotherPass => FoldInv'
<1> SUFFICES ASSUME FoldInv, AnotherPass PROVE FoldInv' OBVIOUS
<1>1. /\ phase = "fold" /\ ni' = 0 /\ changed' = FALSE /\ ni = NumNodes
      /\ UNCHANGED <<source, data, constants, isConst, kind, folded>>
      /\ graph' = graph /\ phase' = phase
  BY DEF AnotherPass, sortVars
<1>2. FoldedInv' BY <1>1, FoldedFrame DEF FoldInv
<1>3. NumNodes' = NumNodes /\ 0 \in 0 .. NumNodes
  BY <1>1 DEF NumNodes, Nodes, FoldInv, PassInv
<1>4. ni' \in 0 .. NumNodes' /\ \A i \in 0 .. ni' - 1 : FALSE BY <1>1, <1>3
<1>5. PassInv' BY <1>1, <1>4 DEF FoldInv, PassInv
<1> QED BY <1>2, <1>5 DEF FoldInv

LEMMA NodeWithoutDataKeeps == FoldInv /\ NodeWithoutData => FoldInv'
<1> SUFFICES ASSUME FoldInv, NodeWithoutData PROVE FoldInv' OBVIOUS
<1>1. /\ phase = "fold" /\ ni < NumNodes /\ Foldable(ni) /\ phase' = "threw"
      /\ ~(Ins(ni) \subseteq DOMAIN constants)
      /\ UNCHANGED <<source, data, constants, isConst, kind, folded>>
  BY DEF NodeWithoutData, foldOnlyVars
<1>2. FoldedInv' /\ LeastClosed' = LeastClosed BY <1>1, FoldedFrame DEF FoldInv
<1>3. /\ ni \in SourceNodes /\ Ins(ni) = Reading(ni) /\ CanFold(ni, folded)
      /\ source \in Graphs
  BY <1>1, DuringPass
<1>4. ni \in LeastClosed BY <1>3, FoldableIsDue DEF FoldInv
<1>5. DataMissing
  <2>1. PICK k \in DOMAIN source.inputs[ni] : source.inputs[ni][k] \notin DOMAIN constants
    BY <1>1, <1>3 DEF Reading
  <2> DEFINE t == source.inputs[ni][k]
  <2>2. t \in data \cup Weights \cup Written(folded) /\ DOMAIN constants = data \cup Written(folded)
    BY <1>3, <2>1 DEF Reading, CanFold, FoldInv, FoldedInv
  <2>3. t \in Weights /\ t \notin data BY <2>1, <2>2
  <2> QED BY <1>4, <2>3 DEF DataMissing, Weights
<1>6. DataMissing' BY <1>1, <1>2, <1>5 DEF DataMissing
<1>7. PassInv' BY <1>1, <1>6 DEF PassInv
<1> QED BY <1>2, <1>7 DEF FoldInv

LEMMA FoldNodeKeeps == FoldInv /\ FoldNode => FoldInv'
<1> SUFFICES ASSUME FoldInv, FoldNode PROVE FoldInv' OBVIOUS
<1> DEFINE value == Value(source, <<>>)
           new == Written(folded) \cup Writing(ni)
<1>1. /\ phase = "fold" /\ ni < NumNodes /\ Foldable(ni) /\ Ins(ni) \subseteq DOMAIN constants
      /\ constants' = [t \in DOMAIN constants \cup Outs(ni) |->
                         IF t \in DOMAIN constants THEN constants[t] ELSE Evaluated(ni)[t]]
      /\ isConst' = isConst \cup Outs(ni)
      /\ kind' = [t \in TensorIds |-> IF t \in Outs(ni) THEN "weight" ELSE kind[t]]
      /\ folded' = folded \cup {ni} /\ changed' = TRUE /\ ni' = ni + 1
      /\ source' = source /\ data' = data /\ graph' = graph /\ phase' = phase
  BY DEF FoldNode, sortVars
<1>2. /\ graph = source /\ source \in Graphs /\ ni \in SourceNodes
      /\ ni + 1 \in 0 .. NumNodes
      /\ Ins(ni) = Reading(ni) /\ Outs(ni) = Writing(ni) /\ CanFold(ni, folded)
  BY <1>1, DuringPass
<1>3. FoldedInv BY DEF FoldInv
<1>4. /\ LeastClosed' = LeastClosed /\ Weights' = Weights /\ Tensors' = Tensors
      /\ SourceNodes' = SourceNodes /\ \A i : Reading(i)' = Reading(i)
      /\ \A F : Written(F)' = UNION {Writing(i) : i \in F'}
  BY <1>1 DEF LeastClosed, ClosedUnderFolding, SourceNodes, Weights, Tensors, Written,
              Writing, Reading
<1>5. Written(folded)' = new BY <1>1, <1>4 DEF Written
<1>6. ni \in LeastClosed BY <1>2, <1>3, FoldableIsDue
<1>7. ASSUME NEW t \in Writing(ni) PROVE Evaluated(ni)[t] = value[t]
  <2> DEFINE ins == source.inputs[ni]
             v(args) == Kernel(source.op[ni],
                               CHOOSE k \in DOMAIN source.outputs[ni] : source.outputs[ni][k] = t,
                               args)
  <2>1. Evaluated(ni)[t] = v([k \in DOMAIN ins |-> constants[ins[k]]])
    BY <1>2 DEF Evaluated
  <2>2. IsValue(source, <<>>, value) BY <1>2, SourceFounded, ValueIs
  <2>3. t \in Tensors /\ Makers(source, t) = {ni} /\ Maker(source, t) = ni
    BY <1>2, SourceFacts, SourceReads
  <2>4. value[t] = Given(source, <<>>, value, t)
    <3> HIDE DEF value
    <3> QED BY <2>2, <2>3, Zenon DEF IsValue, Tensors
  <2>5. Given(source, <<>>, value, t) = v([k \in DOMAIN ins |-> value[ins[k]]])
    <3> HIDE DEF value
    <3> QED BY <2>3 DEF Given
  <2>6. \A k \in DOMAIN ins : constants[ins[k]] = value[ins[k]]
    BY <1>1, <1>2, <1>3 DEF FoldedInv, Reading
  <2>7. [k \in DOMAIN ins |-> constants[ins[k]]] = [k \in DOMAIN ins |-> value[ins[k]]]
    <3> HIDE DEF value
    <3> QED BY <2>6
  <2> HIDE DEF v, value
  <2> QED BY <2>1, <2>4, <2>5, <2>7
<1>8. ASSUME NEW t \in DOMAIN constants' PROVE constants'[t] = value[t]
  <2>1. CASE t \in DOMAIN constants
    <3>1. constants'[t] = constants[t] BY <1>1, <2>1
    <3> QED BY <1>3, <2>1, <3>1 DEF FoldedInv
  <2>2. CASE t \notin DOMAIN constants
    <3>1. t \in Writing(ni) /\ constants'[t] = Evaluated(ni)[t] BY <1>1, <1>2, <2>2
    <3> QED BY <1>7, <3>1
  <2> QED BY <2>1, <2>2
<1> HIDE DEF value
<1>9. DOMAIN constants' = data \cup new BY <1>1, <1>2, <1>3 DEF FoldedInv
<1>10. isConst' = data \cup Weights \cup new BY <1>1, <1>2, <1>3 DEF FoldedInv
<1>11. kind' = [t \in Tensors |-> IF t \in new THEN "weight" ELSE source.kind[t]]
  <2>1. TensorIds = Tensors BY <1>2 DEF TensorIds, Tensors
  <2>2. \A t \in Tensors : kind[t] = IF t \in Written(folded) THEN "weight" ELSE source.kind[t]
    BY <1>3, Zenon DEF FoldedInv
  <2> HIDE DEF new
  <2>3. \A t : t \in new <=> t \in Written(folded) \/ t \in Writing(ni) BY DEF new
  <2>4. [t \in Tensors |-> IF t \in Outs(ni) THEN "weight" ELSE kind[t]]
          = [t \in Tensors |-> IF t \in new THEN "weight" ELSE source.kind[t]]
    BY <1>2, <2>2, <2>3
  <2> QED BY <1>1, <2>1, <2>4, Zenon
<1>12. ASSUME NEW i \in folded' PROVE Reading(i) \subseteq DOMAIN constants'
  <2>1. DOMAIN constants \subseteq DOMAIN constants' BY <1>1
  <2>2. CASE i = ni BY <1>1, <1>2, <2>1, <2>2
  <2>3. CASE i # ni BY <1>1, <1>3, <2>1, <2>3 DEF FoldedInv
  <2> QED BY <2>2, <2>3
<1>13. FoldedInv'
  <2>1. source' \in Graphs /\ folded' \in SUBSET SourceNodes' BY <1>1, <1>2, <1>3, <1>4 DEF FoldedInv
  <2>2. \A t \in data' : t \in Tensors' /\ source'.kind[t] \in {"input", "weight"}
    BY <1>1, <1>3, <1>4 DEF FoldedInv
  <2>3. isConst' = data' \cup Weights' \cup Written(folded)'
        /\ DOMAIN constants' = data' \cup Written(folded)'
    BY <1>1, <1>4, <1>5, <1>9, <1>10
  <2>4. \A t \in DOMAIN constants' : constants'[t] = Value(source', <<>>)[t]
    BY <1>1, <1>8 DEF value
  <2>5. \A i \in folded' : Reading(i)' \subseteq DOMAIN constants' BY <1>4, <1>12
  <2>6. kind' = [t \in Tensors' |-> IF t \in Written(folded)' THEN "weight" ELSE source'.kind[t]]
    BY <1>1, <1>4, <1>5, <1>11
  <2>7. folded' \subseteq LeastClosed' BY <1>1, <1>3, <1>4, <1>6 DEF FoldedInv
  <2> QED BY <2>1, <2>2, <2>3, <2>4, <2>5, <2>6, <2>7 DEF FoldedInv
<1>14. PassInv'
  <2>1. NumNodes' = NumNodes BY <1>1 DEF NumNodes, Nodes
  <2> QED BY <1>1, <1>2, <2>1 DEF PassInv
<1> QED BY <1>13, <1>14 DEF FoldInv
-----------------------------------------------------------------------------
(* The graph without the folded nodes.                                     *)

\* Node j of it is a kept node of the source, and each kept node is there.
LEMMA RebuiltNodes ==
  ASSUME source \in Graphs, graph = source, folded \in SUBSET SourceNodes
  PROVE  /\ Len(KeptNodes) \in Nat
         /\ Len(KeptNodes) = Cardinality(SourceNodes) - Cardinality(folded)
         /\ \A j \in 0 .. Len(KeptNodes) - 1 : KeptNodes[j + 1] \in SourceNodes \ folded
         /\ \A i \in SourceNodes \ folded :
               \E j \in 0 .. Len(KeptNodes) - 1 : KeptNodes[j + 1] = i
<1> DEFINE K == KeptNodes
           n == Len(K)
           R == SourceNodes \ folded
<1>1. /\ IsFiniteSet(SourceNodes) /\ NumNodes \in Nat
      /\ SourceNodes = 0 .. NumNodes - 1 /\ NumNodes = Cardinality(SourceNodes)
  BY SourceFacts DEF NumNodes, Nodes, SourceNodes
<1>2. K \in Seq(Nat) /\ Distinct(K) /\ Elements(K) = R
  <2>1. {i \in 0 .. NumNodes - 1 : i \notin folded} = R BY <1>1
  <2> QED BY <1>1, <2>1, KeptAre
<1> HIDE DEF K
<1>3. n \in Nat /\ DOMAIN K = 1 .. n BY <1>2
<1> HIDE DEF n
<1>4. \A a \in 1 .. n : K[a] \in R BY <1>2, <1>3, Zenon DEF Elements
<1>5. \A i \in R : \E a \in 1 .. n : K[a] = i BY <1>2, <1>3, Zenon DEF Elements
<1>6. K \in [1 .. n -> R]
  <2>1. K = [a \in 1 .. n |-> K[a]] BY <1>2, <1>3
  <2> QED BY <1>4, <2>1
<1>d. /\ IsFiniteSet(SourceNodes \ folded)
      /\ Cardinality(SourceNodes \ folded)
           = Cardinality(SourceNodes) - Cardinality(SourceNodes \cap folded)
  <2>1. IsFiniteSet(SourceNodes) BY <1>1
  <2> QED BY <2>1, FS_Difference, Zenon
<1>7. n = Cardinality(R)
  <2>1. K \in Injection(1 .. n, R)
    BY <1>2, <1>3, <1>6 DEF Injection, IsInjective, Distinct
  <2>2. K \in Surjection(1 .. n, R) BY <1>5, <1>6 DEF Surjection
  <2>3. IsFiniteSet(R) /\ IsFiniteSet(1 .. n) /\ Cardinality(1 .. n) = n
    BY <1>d, <1>3, FS_Interval
  <2> QED BY <2>1, <2>2, <2>3, FS_Injection
<1>8. Cardinality(R) = Cardinality(SourceNodes) - Cardinality(folded)
  <2>1. SourceNodes \cap folded = folded OBVIOUS
  <2> QED BY <1>d, <2>1
<1>9. \A j \in 0 .. n - 1 : K[j + 1] \in R
  <2>1. \A j \in 0 .. n - 1 : j + 1 \in 1 .. n BY <1>3
  <2> QED BY <1>4, <2>1
<1>10. ASSUME NEW i \in R PROVE \E j \in 0 .. n - 1 : K[j + 1] = i
  <2>1. PICK a \in 1 .. n : K[a] = i BY <1>5
  <2>2. a - 1 \in 0 .. n - 1 /\ (a - 1) + 1 = a BY <1>3
  <2> QED BY <2>1, <2>2
<1> QED BY <1>3, <1>7, <1>8, <1>9, <1>10 DEF K, n

\* Every tensor has in it the value that it has in the source.
LEMMA RebuiltValues ==
  ASSUME FoldedInv, graph = source
  PROVE  Value(Rebuilt, constants) = Value(source, <<>>)
<1> DEFINE g == Rebuilt
           b == constants
           K == KeptNodes
           N == 0 .. Len(K) - 1
           v == Value(source, <<>>)
<1>1. source \in Graphs /\ folded \in SUBSET SourceNodes BY DEF FoldedInv
<1>2. /\ \A j \in N : K[j + 1] \in SourceNodes \ folded
      /\ \A i \in SourceNodes \ folded : \E j \in N : K[j + 1] = i
  BY <1>1, RebuiltNodes
<1>3. /\ g.kind = kind /\ DOMAIN g.inputs = N
      /\ \A j \in N : /\ g.op[j] = source.op[K[j + 1]]
                      /\ g.inputs[j] = source.inputs[K[j + 1]]
                      /\ g.outputs[j] = source.outputs[K[j + 1]]
  BY DEF Rebuilt
<1>4. DOMAIN g.kind = Tensors BY <1>3, Zenon DEF FoldedInv
<1> HIDE DEF g, K, N
<1>5. \A t : Makers(g, t) = {j \in N : K[j + 1] \in Makers(source, t)}
  BY <1>2, <1>3 DEF Makers, SourceNodes
<1>6. Founded(source) /\ IsValue(source, <<>>, v) BY <1>1, SourceFounded, ValueIs
<1>7. \A t \in Tensors : v[t] = Given(source, <<>>, v, t)
  BY <1>6, Zenon DEF IsValue, Tensors
<1> HIDE DEF v
<1>8. ASSUME NEW t \in Tensors
      PROVE  Reads(g, t) \subseteq Reads(source, t)
             /\ Given(source, <<>>, v, t) = Given(g, b, v, t)
  <2>1. CASE Makers(g, t) # {}
    <3> DEFINE j == Maker(g, t)
               i == K[j + 1]
    <3>1. j \in Makers(g, t) BY <2>1 DEF Maker
    <3>2. j \in N /\ i \in Makers(source, t) BY <1>5, <3>1
    <3>3. i \in SourceNodes /\ t \in Writing(i) BY <1>1, <3>2, SourceFacts
    <3>4. Makers(source, t) # {} /\ Maker(source, t) = i BY <1>1, <3>2, <3>3, SourceReads
    <3>5. g.op[j] = source.op[i] /\ g.inputs[j] = source.inputs[i]
          /\ g.outputs[j] = source.outputs[i]
      BY <1>3, <3>2
    <3> HIDE DEF j, i
    <3>6. Reads(g, t) = Reads(source, t)
      BY <2>1, <3>4, <3>5 DEF Reads, j
    <3>7. Given(g, b, v, t)
            = Kernel(g.op[j], CHOOSE k \in DOMAIN g.outputs[j] : g.outputs[j][k] = t,
                     [k \in DOMAIN g.inputs[j] |-> v[g.inputs[j][k]]])
      BY <2>1 DEF Given, j
    <3>8. Given(source, <<>>, v, t)
            = Kernel(source.op[i],
                     CHOOSE k \in DOMAIN source.outputs[i] : source.outputs[i][k] = t,
                     [k \in DOMAIN source.inputs[i] |-> v[source.inputs[i][k]]])
      BY <3>4 DEF Given
    <3> QED BY <3>5, <3>6, <3>7, <3>8
  <2>2. CASE Makers(g, t) = {}
    <3>1. Reads(g, t) = {} BY <2>2 DEF Reads
    <3>2. Given(g, b, v, t) = IF t \in DOMAIN b THEN b[t] ELSE Data(t)
      BY <2>2 DEF Given
    <3>3. CASE t \in DOMAIN b
      <4>1. b[t] = v[t] BY <3>3 DEF FoldedInv, v
      <4> QED BY <1>7, <3>1, <3>2, <3>3, <4>1
    <3>4. CASE t \notin DOMAIN b
      <4>1. Makers(source, t) = {}
        <5> SUFFICES ASSUME NEW i \in Makers(source, t) PROVE FALSE OBVIOUS
        <5>1. i \in SourceNodes /\ t \in Writing(i) BY <1>1, SourceFacts
        <5>2. i \notin folded
          <6>1. t \notin Written(folded) BY <3>4 DEF FoldedInv
          <6> QED BY <5>1, <6>1 DEF Written
        <5>3. PICK j \in N : K[j + 1] = i BY <1>2, <5>1, <5>2
        <5> QED BY <1>5, <2>2, <5>3
      <4>2. Given(source, <<>>, v, t) = Data(t)
        <5>1. t \notin DOMAIN <<>> OBVIOUS
        <5> QED BY <4>1, <5>1, Zenon DEF Given
      <4> QED BY <3>1, <3>2, <3>4, <4>2
    <3> QED BY <3>3, <3>4
  <2> QED BY <2>1, <2>2
<1>9. Founded(g)
  <2>1. IsFiniteSet(DOMAIN g.kind) BY <1>4, <1>6 DEF Founded, Tensors
  <2>2. \A t \in Tensors : Reads(g, t) \subseteq Tensors
    BY <1>6, <1>8, Zenon DEF Founded, Tensors
  <2>3. ASSUME NEW T \in (SUBSET Tensors) \ {{}} PROVE \E t \in T : Reads(g, t) \cap T = {}
    <3>1. PICK t \in T : Reads(source, t) \cap T = {} BY <1>6, Zenon DEF Founded, Tensors
    <3>2. t \in Tensors OBVIOUS
    <3>3. Reads(g, t) \subseteq Reads(source, t) BY <1>8, <3>2
    <3> QED BY <3>1, <3>3
  <2> QED BY <1>4, <2>1, <2>2, <2>3 DEF Founded
<1>10. IsValue(g, b, v)
  <2>1. v = [t \in Tensors |-> Given(source, <<>>, v, t)]
    BY <1>6, Zenon DEF IsValue, Tensors
  <2>2. [t \in Tensors |-> Given(source, <<>>, v, t)] = [t \in Tensors |-> Given(g, b, v, t)]
    BY <1>8
  <2> QED BY <1>4, <2>1, <2>2, Zenon DEF IsValue
<1>11. v = Value(g, b) BY <1>9, <1>10, ValueIs
<1> QED BY <1>11 DEF v, g

LEMMA RebuildKeeps == FoldInv /\ Rebuild => FoldInv'
<1> SUFFICES ASSUME FoldInv, Rebuild PROVE FoldInv' OBVIOUS
<1>1. /\ phase = "fold" /\ ni = NumNodes /\ ~changed
      /\ graph' = Rebuilt /\ phase' = "producers"
      /\ UNCHANGED <<source, data, constants, isConst, kind, folded>>
  BY DEF Rebuild, foldOnlyVars
<1>2. FoldedInv /\ graph = source /\ source \in Graphs /\ folded \in SUBSET SourceNodes
      /\ \A i \in 0 .. ni - 1 : ~Foldable(i)
  BY <1>1 DEF FoldInv, PassInv, FoldedInv
<1>3. FoldedInv' /\ LeastClosed' = LeastClosed BY <1>1, <1>2, FoldedFrame
<1>4. folded = LeastClosed
  <2>1. ClosedUnderFolding(folded)
    <3> SUFFICES ASSUME NEW i \in SourceNodes, CanFold(i, folded) PROVE i \in folded
      BY <1>2, ClosedIs
    <3>1. i \in 0 .. ni - 1 BY <1>1, <1>2, SourceFacts DEF NumNodes, Nodes, SourceNodes
    <3>2. Ins(i) = Reading(i) /\ Outs(i) = Writing(i)
      BY <1>2 DEF Ins, Outs, Reading, Writing
    <3>3. i \notin folded => Foldable(i)
      BY <1>2, <3>2 DEF Foldable, CanFold, FoldedInv
    <3> QED BY <1>2, <3>1, <3>3
  <2> QED BY <1>2, <2>1, LeastClosedIs DEF FoldedInv
<1>5. NumNodes' = Cardinality(SourceNodes) - Cardinality(folded)
  <2> DEFINE n == Len(KeptNodes)
  <2>1. n \in Nat /\ n = Cardinality(SourceNodes) - Cardinality(folded)
    BY <1>2, RebuiltNodes
  <2>2. DOMAIN graph'.inputs = 0 .. n - 1 BY <1>1 DEF Rebuilt
  <2> HIDE DEF n
  <2>3. Cardinality(0 .. n - 1) = n BY <2>1, FS_Interval
  <2>4. NumNodes' = Cardinality(DOMAIN graph'.inputs) BY DEF NumNodes, Nodes
  <2> QED BY <2>1, <2>2, <2>3, <2>4
<1>6. graph'.kind = kind BY <1>1 DEF Rebuilt
<1>7. Value(graph', constants) = Value(source, <<>>) BY <1>1, <1>2, RebuiltValues
<1>8. SourceNodes' = SourceNodes BY <1>1 DEF SourceNodes
<1>9. PassInv' BY <1>1, <1>3, <1>4, <1>5, <1>6, <1>7, <1>8 DEF PassInv
<1> QED BY <1>3, <1>9 DEF FoldInv

\* The sort of the new graph leaves everything else alone.
LEMMA SortKeepsFold == FoldInv /\ SortNext /\ UNCHANGED foldOnlyVars => FoldInv'
<1> SUFFICES ASSUME FoldInv, SortNext, UNCHANGED foldOnlyVars PROVE FoldInv' OBVIOUS
<1>1. UNCHANGED <<source, data, constants, isConst, kind, folded>> BY DEF foldOnlyVars
<1>2. FoldedInv' BY <1>1, FoldedFrame DEF FoldInv
<1>3. phase' \notin {"fold", "threw", "producers"}
  BY DEF SortNext, ScanProducers, ScanConsumers, SeedReady, StartPopping, PopReady,
         VisitConsumer, EndVisit, EndSort
<1> QED BY <1>2, <1>3 DEF FoldInv, PassInv

THEOREM FoldInvariant == FoldSpec => []FoldInv
<1>1. FoldInv /\ [FoldNext \/ FoldDone]_foldVars => FoldInv'
  <2> SUFFICES ASSUME FoldInv, [FoldNext \/ FoldDone]_foldVars PROVE FoldInv' OBVIOUS
  <2>1. CASE SkipNode BY <2>1, SkipNodeKeeps
  <2>2. CASE NodeWithoutData BY <2>2, NodeWithoutDataKeeps
  <2>3. CASE FoldNode BY <2>3, FoldNodeKeeps
  <2>4. CASE AnotherPass BY <2>4, AnotherPassKeeps
  <2>5. CASE Rebuild BY <2>5, RebuildKeeps
  <2>6. CASE SortNext /\ UNCHANGED foldOnlyVars BY <2>6, SortKeepsFold
  <2>7. CASE UNCHANGED foldVars
    <3>1. UNCHANGED <<source, data, constants, isConst, kind, folded>>
          /\ graph' = graph /\ phase' = phase /\ ni' = ni /\ changed' = changed
      BY <2>7 DEF foldVars, foldOnlyVars, sortVars
    <3>2. FoldedInv' /\ LeastClosed' = LeastClosed BY <3>1, FoldedFrame DEF FoldInv
    <3>3. /\ NumNodes' = NumNodes /\ SourceNodes' = SourceNodes
          /\ DataMissing' = DataMissing /\ \A i : Foldable(i)' = Foldable(i)
      BY <3>1, <3>2 DEF NumNodes, Nodes, SourceNodes, DataMissing, Foldable, Ins, Outs
    <3>4. PassInv' BY <3>1, <3>2, <3>3 DEF FoldInv, PassInv
    <3> QED BY <3>2, <3>4 DEF FoldInv
  <2> QED BY <2>1, <2>2, <2>3, <2>4, <2>5, <2>6, <2>7 DEF FoldNext, FoldDone
<1> QED BY <1>1, FoldInitInv, PTL DEF FoldSpec
-----------------------------------------------------------------------------
(* What follows from it.                                                   *)

\* fold_constants folds the least set of nodes that is closed under folding,
\* in whatever order the nodes are listed; the graph it returns has the other
\* nodes, and the kinds say which tensors have become weights.
THEOREM ReachesTheFixpoint == FoldSpec => []FoldsToFixpoint
<1>1. FoldInv => FoldsToFixpoint
  <2> SUFFICES ASSUME FoldInv, phase = "producers"
               PROVE  /\ folded = LeastClosed
                      /\ NumNodes = Cardinality(SourceNodes) - Cardinality(folded)
                      /\ \A t \in TensorIds :
                            graph.kind[t] = IF \E i \in folded : \E k \in DOMAIN source.outputs[i] :
                                                   source.outputs[i][k] = t
                                            THEN "weight" ELSE source.kind[t]
    BY DEF FoldsToFixpoint
  <2>1. /\ folded = LeastClosed
        /\ NumNodes = Cardinality(SourceNodes) - Cardinality(folded)
        /\ graph.kind = kind
    BY DEF FoldInv, PassInv
  <2>2. kind = [t \in Tensors |-> IF t \in Written(folded) THEN "weight" ELSE source.kind[t]]
    BY DEF FoldInv, FoldedInv
  <2>3. \A t \in TensorIds : graph.kind[t] = IF t \in Written(folded) THEN "weight"
                                             ELSE source.kind[t]
    BY <2>1, <2>2 DEF TensorIds
  <2>4. \A t : t \in Written(folded) <=> \E i \in folded : \E k \in DOMAIN source.outputs[i] :
                                            source.outputs[i][k] = t
    BY DEF Written, Writing
  <2> QED BY <2>1, <2>3, <2>4
<1> QED BY <1>1, FoldInvariant, PTL

\* It throws exactly when one of those nodes reads a weight it has no data of.
THEOREM ThrowsOnlyWithoutData == FoldSpec => []ThrowsExactlyWithoutData
<1>1. FoldInv => ThrowsExactlyWithoutData
  <2> SUFFICES ASSUME FoldInv, phase \in {"threw", "producers"}
               PROVE  phase = "threw" <=> DataMissing
    BY DEF ThrowsExactlyWithoutData, DataMissing
  <2>1. CASE phase = "threw" BY <2>1 DEF FoldInv, PassInv
  <2>2. CASE phase = "producers"
    <3> SUFFICES ASSUME NEW i \in LeastClosed, NEW k \in DOMAIN source.inputs[i],
                        source.kind[source.inputs[i][k]] = "weight",
                        source.inputs[i][k] \notin data
                 PROVE  FALSE
      BY <2>2 DEF DataMissing
    <3> DEFINE t == source.inputs[i][k]
    <3>1. i \in folded /\ FoldedInv BY <2>2 DEF FoldInv, PassInv
    <3>2. t \in Written(folded)
      <4>1. t \in Reading(i) BY DEF Reading
      <4> QED BY <3>1, <4>1 DEF FoldedInv
    <3>3. PICK p \in folded : t \in Writing(p) BY <3>2 DEF Written
    <3>4. p \in SourceNodes /\ source \in Graphs BY <3>1 DEF FoldedInv
    <3>5. source.kind[t] \notin {"input", "weight"} BY <3>3, <3>4, SourceFacts
    <3> QED BY <3>5
  <2> QED BY <2>1, <2>2
<1> QED BY <1>1, FoldInvariant, PTL

\* No constant is ever wrong, and the folded graph gives every tensor the value
\* that the graph handed to the pass gives it.
THEOREM ValuesAreKept == FoldSpec => []FoldKeepsValues
<1>1. FoldInv => FoldKeepsValues
  BY DEF FoldInv, FoldedInv, PassInv, FoldKeepsValues
<1> QED BY <1>1, FoldInvariant, PTL
=============================================================================
