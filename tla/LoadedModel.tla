---------------------------- MODULE LoadedModel -----------------------------
(***************************************************************************)
(* LoadedModel (include/mtrt/frontend/json_loader.h), the graph and the    *)
(* weights that a frontend builds up, item by item, from a file.  Shared   *)
(* by JsonLoader and OnnxLoader; it has no specification of its own.       *)
(*                                                                         *)
(* Names and operators are strings, a payload is a sequence of bytes, and  *)
(* a byte is <<whose, position>>.  Tensor ids are 0-based.                 *)
(***************************************************************************)
EXTENDS Integers, FiniteSets, SequencesExt

CONSTANTS
    Files,   \* the files that may be loaded
    Builds   \* a subset of BOOLEAN: are assertions compiled in?

\* What a parser returns: lists of records.  A node has four fields in either
\* format, whatever an attribute is.
IsList(L) == L \in Seq(Range(L))
IsNodeList(L) ==
    IsList(L) /\ \A n \in Range(L) :
        n \in [op : STRING, inputs : Seq(STRING), outputs : Seq(STRING), attrs : {n.attrs}]

ASSUME FilesAssumption ==
    \A f \in Files :
        \/ /\ f.format = "json"
           /\ IsList(f.tensors) /\ IsNodeList(f.nodes)
           /\ f.inputs \in Seq(STRING) /\ f.outputs \in Seq(STRING)
        \/ /\ f.format = "onnx"
           /\ IsList(f.input) /\ IsList(f.output) /\ IsList(f.value_info)
           /\ IsList(f.initializer) /\ IsNodeList(f.node)

VARIABLES
    file, debug,
    phase,     \* "loading"; "loaded", "threw" a GraphError, "aborted"
    part, k,   \* the list of the file that is being read, items read of it
    graph,     \* [tensors, nodes, inputs, outputs]
    idOf,      \* name_to_id
    weights,   \* LoadedModel::weights, by id
    meta       \* what an ONNX file has said of a name so far

loadVars == <<file, debug, phase, part, k, graph, idOf, weights, meta>>

DTypes == {"f32", "i32", "i8"}
Width(dtype) == IF dtype = "i8" THEN 1 ELSE 4
NumelOf(shape) == FoldLeft(LAMBDA n, d : n * d, 1, shape)
BytesOf(t) == NumelOf(t.shape) * Width(t.dtype)

\* Attribute is a variant of int, float and ints.
AttrTypes == {"int", "float", "ints"}
ReadableAttrs(node) == \A a \in node.attrs : a.type \in AttrTypes

LoadInit(first) ==
    /\ file \in Files /\ debug \in Builds
    /\ phase = "loading" /\ part = first[file.format] /\ k = 0
    /\ graph = [tensors |-> <<>>, nodes |-> <<>>, inputs |-> <<>>, outputs |-> <<>>]
    /\ idOf = <<>> /\ weights = <<>> /\ meta = <<>>

NextId == Len(graph.tensors)

\* The map with value under key.
With(map, key, value) ==
    [x \in DOMAIN map \cup {key} |-> IF x = key THEN value ELSE map[x]]

\* weights.emplace keeps what is there; data<float>() in a build with assertions
\* aborts for a dtype that is not four bytes wide.
KeepWeight(id, dtype, bytes) ==
    /\ weights' = IF id \in DOMAIN weights THEN weights ELSE With(weights, id, bytes)
    /\ phase' = IF debug /\ Width(dtype) # 4 THEN "aborted" ELSE phase

Throw ==
    /\ phase' = "threw"
    /\ UNCHANGED <<file, debug, part, k, graph, idOf, weights, meta>>

\* Item k + 1 of list L of the file is at hand.
Reading(p, L) == phase = "loading" /\ part = p /\ k < Len(L)

\* The end of list L: on to the next part, or the load is done.
EndOf(p, L, next) ==
    /\ phase = "loading" /\ part = p /\ k = Len(L)
    /\ part' = next /\ k' = 0
    /\ phase' = IF next = "end" THEN "loaded" ELSE phase
    /\ UNCHANGED <<file, debug, graph, idOf, weights, meta>>

Ids(names) == [x \in DOMAIN names |-> idOf[names[x]]]

\* mark_input and mark_output
Mark(list, id) ==
    /\ graph' = [graph EXCEPT ![list] = Append(@, id)]
    /\ k' = k + 1
-----------------------------------------------------------------------------
(* What has been loaded, with names in place of ids.                       *)

NameOf(id) == graph.tensors[id + 1].name
NamesOf(ids) == [x \in DOMAIN ids |-> NameOf(ids[x])]
ByName ==
    [tensors |-> Range(graph.tensors),
     nodes   |-> [x \in DOMAIN graph.nodes |->
                    [graph.nodes[x] EXCEPT !.inputs = NamesOf(@), !.outputs = NamesOf(@)]],
     inputs  |-> NamesOf(graph.inputs), outputs |-> NamesOf(graph.outputs),
     data    |-> {<<NameOf(id), weights[id]>> : id \in DOMAIN weights}]
=============================================================================
