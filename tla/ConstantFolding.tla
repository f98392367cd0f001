--------------------------- MODULE ConstantFolding ---------------------------
(***************************************************************************)
(* fold_constants (src/optimizer/const_fold.cpp): passes over the nodes,   *)
(* each evaluating the nodes whose inputs are all constants, until a pass  *)
(* changes nothing; then the graph without those nodes, which is sorted    *)
(* (TopoSort) as the executor would.  One action per node examined.        *)
(*                                                                         *)
(* A graph has one more table than in TopoSort: op, the operator of a node *)
(* (its type and dtype).  Numbers are terms: an operator, which of its     *)
(* outputs, and the values of its inputs.                                  *)
(***************************************************************************)
EXTENDS TopoSort

CONSTANT Registered   \* the operators that the registry has a kernel for

\* What the pass relies on and does not check: nodes name tensors of the graph,
\* a tensor has one producer and a weight or an input none, and no cycle.
ASSUME FoldAssumption ==
    \A g \in Graphs :
        /\ \A i \in DOMAIN g.inputs :
             /\ \A k \in DOMAIN g.inputs[i] : g.inputs[i][k] \in DOMAIN g.kind
             /\ \A k \in DOMAIN g.outputs[i] :
                  /\ g.outputs[i][k] \in DOMAIN g.kind
                  /\ g.kind[g.outputs[i][k]] \notin {"input", "weight"}
                  /\ Makers(g, g.outputs[i][k]) = {i}
        /\ \A S \in (SUBSET DOMAIN g.inputs) \ {{}} :
             \E i \in S : \A k \in DOMAIN g.inputs[i] :
                Makers(g, g.inputs[i][k]) \cap S = {}

VARIABLES
    source,    \* the graph handed to the pass
    data,      \* the tensors whose data is handed to the pass
    constants, \* FoldResult::constants
    isConst,   \* is_const, as the set of tensors
    kind,      \* the kinds in the working copy of the tensors
    folded,    \* the nodes evaluated so far
    ni,        \* the node examined next
    changed    \* a node has been evaluated in this pass

foldOnlyVars == <<source, data, constants, isConst, kind, folded, ni, changed>>
foldVars == <<sortVars, foldOnlyVars>>

\* The data of a tensor that no node computes.
Data(t) == <<"data", t>>

\* What the kernel of an operator stores in its k-th output.
Kernel(op, k, args) == <<op, k, args>>

\* The data may be short of a weight, and may include that of an input.
FoldInit ==
    /\ source \in Graphs
    /\ graph = source
    /\ phase = "fold"
    /\ producer = [t \in TensorIds |-> -1]
    /\ indeg = [i \in Nodes |-> 0]
    /\ ready = <<>> /\ order = <<>> /\ dep = 0
    /\ data \in SUBSET {t \in TensorIds : graph.kind[t] \in {"input", "weight"}}
    /\ constants = [t \in data |-> Data(t)]
    /\ isConst = data \cup {t \in TensorIds : graph.kind[t] = "weight"}
    /\ kind = graph.kind
    /\ folded = {} /\ ni = 0 /\ changed = FALSE
-----------------------------------------------------------------------------
Ins(i) == {graph.inputs[i][k] : k \in DOMAIN graph.inputs[i]}
Outs(i) == {graph.outputs[i][k] : k \in DOMAIN graph.outputs[i]}

\* Mutant: a node that has been evaluated is looked at again.
FoldableAgain(i) ==
    /\ Ins(i) # {} /\ Ins(i) \subseteq isConst /\ Outs(i) # {}
    /\ graph.op[i] \in Registered

\* The node has yet to be evaluated, reads constants only, and has a kernel.
Foldable(i) ==
    /\ i \notin folded
    /\ Ins(i) # {} /\ Ins(i) \subseteq isConst /\ Outs(i) # {}
    /\ graph.op[i] \in Registered

SkipNode ==
    /\ phase = "fold" /\ ni < NumNodes /\ ~Foldable(ni)
    /\ ni' = ni + 1
    /\ UNCHANGED <<sortVars, source, data, constants, isConst, kind, folded, changed>>

\* Mutant: a node whose data is missing is left for the executor.
NodeWithoutDataSkipped ==
    /\ phase = "fold" /\ ni < NumNodes
    /\ Foldable(ni) /\ ~(Ins(ni) \subseteq DOMAIN constants)
    /\ ni' = ni + 1
    /\ UNCHANGED <<sortVars, source, data, constants, isConst, kind, folded, changed>>

\* A weight is a constant even when its data is missing: constants.at throws.
NodeWithoutData ==
    /\ phase = "fold" /\ ni < NumNodes
    /\ Foldable(ni) /\ ~(Ins(ni) \subseteq DOMAIN constants)
    /\ phase' = "threw"
    /\ UNCHANGED <<graph, producer, indeg, ready, order, dep, foldOnlyVars>>

\* The outputs of node i, as its kernel computes them from the constants.
Evaluated(i) ==
    [t \in Outs(i) |->
        Kernel(graph.op[i], CHOOSE k \in DOMAIN graph.outputs[i] : graph.outputs[i][k] = t,
               [k \in DOMAIN graph.inputs[i] |-> constants[graph.inputs[i][k]]])]

\* Mutant: only the first output becomes a constant.
FoldNodeFirstOutput ==
    /\ phase = "fold" /\ ni < NumNodes
    /\ Foldable(ni) /\ Ins(ni) \subseteq DOMAIN constants
    /\ constants' = [t \in DOMAIN constants \cup {graph.outputs[ni][1]} |->
                       IF t \in DOMAIN constants THEN constants[t] ELSE Evaluated(ni)[t]]
    /\ isConst' = isConst \cup Outs(ni)
    /\ kind' = [t \in TensorIds |-> IF t \in Outs(ni) THEN "weight" ELSE kind[t]]
    /\ folded' = folded \cup {ni}
    /\ changed' = TRUE
    /\ ni' = ni + 1
    /\ UNCHANGED <<sortVars, source, data>>

\* The node is evaluated; its outputs become constants, and weights.
FoldNode ==
    /\ phase = "fold" /\ ni < NumNodes
    /\ Foldable(ni) /\ Ins(ni) \subseteq DOMAIN constants
    /\ constants' = [t \in DOMAIN constants \cup Outs(ni) |->
                       IF t \in DOMAIN constants THEN constants[t] ELSE Evaluated(ni)[t]]
    /\ isConst' = isConst \cup Outs(ni)
    /\ kind' = [t \in TensorIds |-> IF t \in Outs(ni) THEN "weight" ELSE kind[t]]
    /\ folded' = folded \cup {ni}
    /\ changed' = TRUE
    /\ ni' = ni + 1
    /\ UNCHANGED <<sortVars, source, data>>

AnotherPass ==
    /\ phase = "fold" /\ ni = NumNodes /\ changed
    /\ ni' = 0 /\ changed' = FALSE
    /\ UNCHANGED <<sortVars, source, data, constants, isConst, kind, folded>>
-----------------------------------------------------------------------------
\* The nodes that are kept, in order.
KeptNodes == AllBut(NumNodes, folded)

\* The same tensors, with their new kinds, and the nodes that are kept.
Rebuilt ==
    LET N == 0 .. Len(KeptNodes) - 1
    IN  [kind |-> kind,
         op |-> [i \in N |-> graph.op[KeptNodes[i + 1]]],
         inputs |-> [i \in N |-> graph.inputs[KeptNodes[i + 1]]],
         outputs |-> [i \in N |-> graph.outputs[KeptNodes[i + 1]]],
         results |-> graph.results]

\* Mutant: one pass and no more.
RebuildAtOnce ==
    /\ phase = "fold" /\ ni = NumNodes
    /\ graph' = Rebuilt
    /\ phase' = "producers"
    /\ indeg' = [i \in DOMAIN Rebuilt.inputs |-> 0]
    /\ UNCHANGED <<producer, ready, order, dep, foldOnlyVars>>

Rebuild ==
    /\ phase = "fold" /\ ni = NumNodes /\ ~changed
    /\ graph' = Rebuilt
    /\ phase' = "producers"
    /\ indeg' = [i \in DOMAIN Rebuilt.inputs |-> 0]
    /\ UNCHANGED <<producer, ready, order, dep, foldOnlyVars>>

FoldNext ==
    \/ SkipNode \/ NodeWithoutData \/ FoldNode \/ AnotherPass \/ Rebuild
    \/ (SortNext /\ UNCHANGED foldOnlyVars)

FoldDone == phase \in {"sorted", "failed", "threw"} /\ UNCHANGED foldVars

FoldSpec == FoldInit /\ [][FoldNext \/ FoldDone]_foldVars /\ WF_foldVars(FoldNext)
-----------------------------------------------------------------------------
(* Properties.                                                             *)

SourceNodes == DOMAIN source.inputs

\* The value of every tensor of the graph g when its run is handed bindings.
Value(g, bindings) ==
    LET val[t \in DOMAIN g.kind] ==
          IF Makers(g, t) = {}
          THEN IF t \in DOMAIN bindings THEN bindings[t] ELSE Data(t)
          ELSE LET i == CHOOSE i \in Makers(g, t) : TRUE
               IN  Kernel(g.op[i], CHOOSE k \in DOMAIN g.outputs[i] : g.outputs[i][k] = t,
                          [k \in DOMAIN g.inputs[i] |-> val[g.inputs[i][k]]])
    IN  val

\* const_fold_test.cpp, PreservesNumerics: run with the new constants, the new
\* graph gives every tensor the value it had; and no constant is ever wrong,
\* also in the middle of the pass.
FoldKeepsValues ==
    LET old == Value(source, <<>>)
    IN  /\ \A t \in DOMAIN constants : constants[t] = old[t]
        /\ phase = "producers" => Value(graph, constants) = old

\* S contains every node that folding the nodes of S makes it possible to fold.
ClosedUnderFolding(S) ==
    \A i \in SourceNodes :
        LET reads == {source.inputs[i][k] : k \in DOMAIN source.inputs[i]}
        IN  /\ source.op[i] \in Registered
            /\ reads # {} /\ source.outputs[i] # <<>>
            /\ \A t \in reads :
                  \/ t \in data \/ source.kind[t] = "weight"
                  \/ \E p \in S : \E k \in DOMAIN source.outputs[p] : source.outputs[p][k] = t
            => i \in S

LeastClosed == CHOOSE S \in SUBSET SourceNodes :
                  /\ ClosedUnderFolding(S)
                  /\ \A R \in SUBSET SourceNodes : ClosedUnderFolding(R) => S \subseteq R

\* const_fold.h: "Iterates to a fixpoint so a folded output can enable folding
\* its consumers".  It is the least one, in whatever order the nodes are
\* listed; the others are left as they were, and the kinds say which is which.
FoldsToFixpoint ==
    phase = "producers" =>
        /\ folded = LeastClosed
        /\ NumNodes = Cardinality(SourceNodes) - Cardinality(folded)
        /\ \A t \in TensorIds :
              graph.kind[t] = IF \E i \in folded : \E k \in DOMAIN source.outputs[i] :
                                     source.outputs[i][k] = t
                              THEN "weight" ELSE source.kind[t]

\* The pass throws exactly when a node it would fold reads a weight that it
\* was not given the data of, whichever node it comes to first.
ThrowsExactlyWithoutData ==
    phase \in {"threw", "producers"} =>
        (phase = "threw" <=>
            \E i \in LeastClosed : \E k \in DOMAIN source.inputs[i] :
                /\ source.kind[source.inputs[i][k]] = "weight"
                /\ source.inputs[i][k] \notin data)

\* The passes come to an end, and the folded graph can be sorted.
FoldEnds == <>(phase \in {"sorted", "threw"})
=============================================================================
