-------------------------------- MODULE Fusion --------------------------------
(***************************************************************************)
(* fuse_matmul_bias_gelu (src/optimizer/fusion.cpp): every MatMul -> Add   *)
(* -> Gelu chain becomes one node of a new, compacted graph, which is then *)
(* sorted (TopoSort) as the executor would.  One action per node examined, *)
(* one for the rebuild.                                                    *)
(*                                                                         *)
(* A graph has three more tables than in TopoSort: op (op_type of a node), *)
(* rows and name (of a tensor).  All tensors have the same number of       *)
(* columns, so a tensor is a bias, numel = N, when it has one row.         *)
(*                                                                         *)
(* Numbers are terms, built the way the kernels compute (Release build: no *)
(* MTRT_ASSERT).                                                           *)
(***************************************************************************)
EXTENDS TopoSort

FusedOps == {"FusedMatMulBiasGelu", "FusedMatMulBiasGeluTanh"}

\* A graph that the executor would run: it can be sorted (graph.h), and its
\* nodes have the operands and the shapes that the kernels ask for.
ASSUME FusionAssumption ==
    \A g \in Graphs :
        /\ \A i \in DOMAIN g.inputs :
             LET in == g.inputs[i]  out == g.outputs[i]  op == g.op[i]
             IN  /\ \A k \in DOMAIN in :
                       /\ in[k] \in DOMAIN g.kind
                       /\ g.kind[in[k]] \in {"input", "weight"} \/ Makers(g, in[k]) # {}
                 /\ \A k \in DOMAIN out :
                       /\ out[k] \in DOMAIN g.kind /\ Makers(g, out[k]) = {i}
                       /\ \A l \in DOMAIN out : out[l] = out[k] => l = k
                 /\ op \in {"MatMul", "Add"} => Len(in) = 2
                 /\ op \in {"Gelu", "GeluTanh"} => Len(in) = 1
                 /\ op \in FusedOps => Len(in) = 3
                 /\ op = "Add" => g.rows[in[2]] \in {1, g.rows[in[1]]}
                 /\ op \in {"MatMul", "Add", "Gelu", "GeluTanh"} =>
                       \A k \in DOMAIN out : g.rows[out[k]] = g.rows[in[1]]
        /\ \A S \in (SUBSET DOMAIN g.inputs) \ {{}} :
             \E i \in S : \A k \in DOMAIN g.inputs[i] :
                Makers(g, g.inputs[i][k]) \cap S = {}

VARIABLES
    source,   \* the graph handed to the pass
    ni,       \* the node examined next
    chains    \* fusion_at_anchor: what each matching MatMul is fused with

fuseOnlyVars == <<source, ni, chains>>
fuseVars == <<sortVars, fuseOnlyVars>>

FusedOp(act) ==
    IF act = "Gelu" THEN "FusedMatMulBiasGelu" ELSE "FusedMatMulBiasGeluTanh"

FuseInit ==
    /\ source \in Graphs
    /\ graph = source
    /\ phase = "match"
    /\ producer = [t \in TensorIds |-> -1]
    /\ indeg = [i \in Nodes |-> 0]
    /\ ready = <<>> /\ order = <<>> /\ dep = 0
    /\ ni = 0 /\ chains = <<>>
-----------------------------------------------------------------------------
\* consumer_counts: one per input that names t, whoever lists it.
Uses(t) == {s \in InputSlots : InputAt(s) = t}

\* Mutant: a tensor with several consumers may go.
FusableUnlessResult(t) ==
    /\ graph.kind[t] = "intermediate" /\ Uses(t) # {}
    /\ \A k \in DOMAIN graph.results : graph.results[k] # t

\* is_fusable_intermediate.
Fusable(t) ==
    /\ graph.kind[t] = "intermediate"
    /\ Cardinality(Uses(t)) = 1
    /\ \A k \in DOMAIN graph.results : graph.results[k] # t

\* The first node that reads t.
Consumer(t) ==
    CHOOSE i \in {s[1] : s \in Uses(t)} : \A s \in Uses(t) : i <= s[1]

\* Nodes m, a and g are a chain that the pass takes for one it can fuse.
Chain(m, a, g) ==
    /\ graph.op[m] = "MatMul" /\ Len(graph.outputs[m]) = 1
    /\ LET t0 == graph.outputs[m][1] IN Fusable(t0) /\ a = Consumer(t0)
    /\ graph.op[a] = "Add"
    /\ Len(graph.inputs[a]) = 2 /\ Len(graph.outputs[a]) = 1
    /\ graph.inputs[a] # <<graph.outputs[m][1], graph.outputs[m][1]>>
    /\ LET t1 == graph.outputs[a][1] IN Fusable(t1) /\ g = Consumer(t1)
    /\ Len(graph.inputs[g]) = 1 /\ Len(graph.outputs[g]) = 1
    /\ graph.op[g] \in {"Gelu", "GeluTanh"}

\* The operand of the Add that is not the product.
Bias(m, a) ==
    IF graph.inputs[a][1] = graph.outputs[m][1]
    THEN graph.inputs[a][2] ELSE graph.inputs[a][1]

\* Mutant: the pass stops at the first chain.
MatchAnchorOnce ==
    /\ phase = "match" /\ ni < NumNodes
    /\ LET found == {c \in {ni} \X Nodes \X Nodes : Chain(c[1], c[2], c[3])}
       IN  chains' = IF chains # <<>> THEN chains
                     ELSE [m \in {c[1] : c \in found} |->
                             LET c == CHOOSE c \in found : TRUE
                             IN  [add |-> c[2], act |-> c[3], bias |-> Bias(m, c[2])]]
    /\ ni' = ni + 1
    /\ UNCHANGED <<sortVars, source>>

\* One iteration of the matching loop.
MatchAnchor ==
    /\ phase = "match" /\ ni < NumNodes
    /\ LET found == {c \in {ni} \X Nodes \X Nodes : Chain(c[1], c[2], c[3])}
       IN  chains' = [m \in DOMAIN chains \cup {c[1] : c \in found} |->
                        IF m \in DOMAIN chains THEN chains[m]
                        ELSE LET c == CHOOSE c \in found : TRUE
                             IN  [add |-> c[2], act |-> c[3], bias |-> Bias(m, c[2])]]
    /\ ni' = ni + 1
    /\ UNCHANGED <<sortVars, source>>
-----------------------------------------------------------------------------
(* The rebuild.                                                            *)

DroppedNodes == UNION {{chains[m].add, chains[m].act} : m \in DOMAIN chains}

DroppedTensors ==
    UNION {{graph.outputs[m][1], graph.outputs[chains[m].add][1]} : m \in DOMAIN chains}

\* The tensors and nodes that are kept, in order; a node m stands for the
\* fused node when it is an anchor.
Kept == AllBut(Cardinality(TensorIds), DroppedTensors)

\* Mutant: the MatMul is dropped as well, and nothing takes its place.
KeptNodesNoAnchor == AllBut(NumNodes, DroppedNodes \cup DOMAIN chains)

KeptNodes == AllBut(NumNodes, DroppedNodes)

OpOf(m) ==
    IF m \in DOMAIN chains THEN FusedOp(graph.op[chains[m].act]) ELSE graph.op[m]
InputsOf(m) ==
    IF m \in DOMAIN chains
    THEN <<graph.inputs[m][1], graph.inputs[m][2], chains[m].bias>>
    ELSE graph.inputs[m]
OutputsOf(m) ==
    IF m \in DOMAIN chains THEN graph.outputs[chains[m].act] ELSE graph.outputs[m]

\* remap: ids count the kept tensors before.
Remap(t) == Cardinality({u \in TensorIds \ DroppedTensors : u < t})
RemapAll(s) == [k \in DOMAIN s |-> Remap(s[k])]

Rebuilt ==
    LET T == 0 .. Len(Kept) - 1
        N == 0 .. Len(KeptNodes) - 1
    IN  [kind |-> [t \in T |-> graph.kind[Kept[t + 1]]],
         rows |-> [t \in T |-> graph.rows[Kept[t + 1]]],
         name |-> [t \in T |-> graph.name[Kept[t + 1]]],
         op |-> [i \in N |-> OpOf(KeptNodes[i + 1])],
         inputs |-> [i \in N |-> RemapAll(InputsOf(KeptNodes[i + 1]))],
         outputs |-> [i \in N |-> RemapAll(OutputsOf(KeptNodes[i + 1]))],
         results |-> RemapAll(graph.results)]

\* A dropped tensor is still named somewhere: remap.at throws.
NamesDropped ==
    \E i \in DOMAIN KeptNodes :
        \/ \E k \in DOMAIN InputsOf(KeptNodes[i]) : InputsOf(KeptNodes[i])[k] \in DroppedTensors
        \/ \E k \in DOMAIN OutputsOf(KeptNodes[i]) : OutputsOf(KeptNodes[i])[k] \in DroppedTensors

\* The new graph takes the place of the old one, ready to be sorted.
Rebuild ==
    /\ phase = "match" /\ ni = NumNodes
    /\ IF NamesDropped
       THEN phase' = "threw" /\ UNCHANGED <<graph, producer, indeg>>
       ELSE /\ graph' = Rebuilt
            /\ phase' = "producers"
            /\ producer' = [t \in DOMAIN Rebuilt.kind |-> -1]
            /\ indeg' = [i \in DOMAIN Rebuilt.inputs |-> 0]
    /\ UNCHANGED <<ready, order, dep, fuseOnlyVars>>

FuseNext == MatchAnchor \/ Rebuild \/ (SortNext /\ UNCHANGED fuseOnlyVars)

FuseDone == phase \in {"sorted", "failed", "threw"} /\ UNCHANGED fuseVars

FuseSpec == FuseInit /\ [][FuseNext \/ FuseDone]_fuseVars
-----------------------------------------------------------------------------
(* What the kernels compute.                                               *)

\* add_f32: element by element, or b's one row added to every row of a.
Sum(a, rowsA, b, rowsB) ==
    IF rowsA = rowsB THEN <<"sum", {a, b}>> ELSE <<"sum_rows", a, b>>

\* fused_matmul_bias_act_f32 reads the first row of the bias and no other,
\* and writes as many rows as A has.
SumBias(a, rowsA, b, rowsB, rowsOut) ==
    LET sum == Sum(a, rowsA, IF rowsB = 1 THEN b ELSE <<"first_row", b>>, 1)
    IN  IF rowsOut = rowsA THEN sum ELSE <<"first_row_only", sum>>

Act(op, a) ==
    IF op \in {"Gelu", "FusedMatMulBiasGelu"} THEN <<"gelu", a>> ELSE <<"gelu_tanh", a>>

\* What node i of g stores in tensor t when val says what its inputs are.
Result(g, i, t, val) ==
    LET in(k) == g.inputs[i][k]
        product == <<"matmul", val[in(1)], val[in(2)]>>
    IN  CASE g.op[i] = "MatMul" -> product
          [] g.op[i] = "Add" -> Sum(val[in(1)], g.rows[in(1)], val[in(2)], g.rows[in(2)])
          [] g.op[i] \in {"Gelu", "GeluTanh"} -> Act(g.op[i], val[in(1)])
          [] g.op[i] \in FusedOps ->
               Act(g.op[i], SumBias(product, g.rows[in(1)], val[in(3)], g.rows[in(3)], g.rows[t]))
          [] OTHER ->
               <<g.op[i], CHOOSE k \in DOMAIN g.outputs[i] : g.outputs[i][k] = t,
                 [k \in DOMAIN g.inputs[i] |-> val[in(k)]]>>

\* The value of every tensor of the graph g, given the values bound by name.
Value(g) ==
    LET val[t \in DOMAIN g.kind] ==
          IF Makers(g, t) = {} THEN <<"bound", g.name[t]>>
          ELSE Result(g, CHOOSE i \in Makers(g, t) : TRUE, t, val)
    IN  val
-----------------------------------------------------------------------------
(* Properties.                                                             *)

\* The new graph is there and has yet to be sorted.
Fused == phase = "producers"

\* What the documentation calls a chain: what is added is a bias (one row),
\* and not itself a product that is fused away.
BiasChains ==
    \A m \in DOMAIN chains :
        /\ source.rows[chains[m].bias] = 1
        /\ \A p \in DOMAIN chains : chains[m].bias # source.outputs[p][1]

\* Every tensor of the new graph has the value that the tensor of its name
\* had, and the same tensors are results, in the same order.
SameValues ==
    /\ \A t \in TensorIds : \E u \in DOMAIN source.kind :
          source.name[u] = graph.name[t] /\ Value(graph)[t] = Value(source)[u]
    /\ [k \in DOMAIN graph.results |-> graph.name[graph.results[k]]]
         = [k \in DOMAIN source.results |-> source.name[source.results[k]]]

\* fusion.h: "numerics must be preserved".  This holds, exactly, of graphs in
\* which every chain the pass takes ends its Add in a bias.
PreservesBiasChains == BiasChains => phase # "threw" /\ (Fused => SameValues)

\* The same of every graph the executor would run.
PreservesNumerics == Fused => SameValues

\* fusion.h: "no other node depends on the eliminated tensors": no id that
\* the rebuild looks up has been eliminated.
NothingDependsOnDropped == phase # "threw"

\* fusion.h: "Fuse every MatMul -> Add(bias) -> Gelu/GeluTanh chain": none is
\* left, and each costs the graph two nodes and two tensors.
NothingLeftToFuse ==
    Fused =>
        /\ \A m, a, g \in Nodes : ~Chain(m, a, g)
        /\ NumNodes = Cardinality(DOMAIN source.inputs) - 2 * Cardinality(DOMAIN chains)
        /\ Cardinality(TensorIds) = Cardinality(DOMAIN source.kind) - 2 * Cardinality(DOMAIN chains)

\* fusion_test.cpp: "EXPECT_NO_THROW(fused.topo_order())": the fused node,
\* in the place of the MatMul, closes no cycle.
FusedGraphSorts == phase # "failed"
=============================================================================
