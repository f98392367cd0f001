----------------------------- MODULE OnnxLoader -----------------------------
(***************************************************************************)
(* load_onnx_model (src/frontend/onnx/onnx_loader.cpp), once the protobuf  *)
(* is parsed.  A tensor exists from the first item that names it, and its  *)
(* kind is fixed then, from the roles its name has in the whole file.      *)
(***************************************************************************)
EXTENDS LoadedModel

Dynamic == -1   \* a dimension without a value
OnnxOps == {"MatMul", "Add", "Gelu", "Relu", "Softmax", "Reshape", "Transpose",
            "LayerNormalization"}
OpFromOnnx(op) == IF op = "LayerNormalization" THEN "LayerNorm" ELSE op

ValueInfos == file.input \o file.output \o file.value_info
NamesIn(list) == {e.name : e \in Range(list)}
InitializerNames == NamesIn(file.initializer)
InputNames == NamesIn(file.input) \ InitializerNames

\* Mutant: what is an input is asked first; older files list weights there.
KindOfInputFirst(name) ==
    IF name \in NamesIn(file.input) THEN "input"
    ELSE IF name \in InitializerNames THEN "weight"
    ELSE IF name \in NamesIn(file.output) THEN "output" ELSE "intermediate"
KindOf(name) ==
    IF name \in InitializerNames THEN "weight"
    ELSE IF name \in InputNames THEN "input"
    ELSE IF name \in NamesIn(file.output) THEN "output" ELSE "intermediate"

\* record: the last entry for a name counts.
OnnxRecord ==
    /\ Reading("meta", ValueInfos)
    /\ LET v == ValueInfos[k + 1]
       IN  IF v.dtype \notin DTypes \/ Dynamic \in Range(v.shape) THEN Throw
           ELSE /\ meta' = With(meta, v.name, [dtype |-> v.dtype, shape |-> v.shape])
                /\ k' = k + 1
                /\ UNCHANGED <<file, debug, phase, part, graph, idOf, weights>>

\* Mutant: a tensor is added each time it is named.
EnsureAgain(M, S, name) ==
    IF ~S.ok THEN S
    ELSE IF name \notin DOMAIN M THEN [S EXCEPT !.ok = FALSE]
    ELSE [ok |-> TRUE, idOf |-> With(S.idOf, name, Len(S.tensors)),
          tensors |-> Append(S.tensors, [name |-> name, dtype |-> M[name].dtype,
                                         shape |-> M[name].shape, kind |-> KindOf(name)])]

\* ensure_tensor, for one name after the other; S is the graph's tensors, the
\* ids, and whether every name had a shape; M is meta.
Ensure(M, S, name) ==
    IF ~S.ok \/ name \in DOMAIN S.idOf THEN S
    ELSE IF name \notin DOMAIN M THEN [S EXCEPT !.ok = FALSE]
    ELSE [ok |-> TRUE, idOf |-> With(S.idOf, name, Len(S.tensors)),
          tensors |-> Append(S.tensors, [name |-> name, dtype |-> M[name].dtype,
                                         shape |-> M[name].shape, kind |-> KindOf(name)])]
EnsureAll(M, names) ==
    LET after[n \in 0 .. Len(names)] ==
            IF n = 0 THEN [ok |-> TRUE, idOf |-> idOf, tensors |-> graph.tensors]
            ELSE Ensure(M, after[n - 1], names[n])
    IN  after[Len(names)]

\* tensor_from_initializer: the payload is raw bytes, or typed elements of
\* four bytes each.
Payload(t) ==
    IF t.raw # <<>> THEN t.raw
    ELSE [x \in 1 .. 4 * Len(t.typed) |-> t.typed[((x - 1) \div 4) + 1][((x - 1) % 4) + 1]]
HasPayload(t) ==
    IF t.raw # <<>> THEN Len(t.raw) = BytesOf(t)
    ELSE t.dtype \in {"f32", "i32"} /\ Len(t.typed) = NumelOf(t.shape)

OnnxInitializer ==
    /\ Reading("initializer", file.initializer)
    /\ LET t == file.initializer[k + 1]
           M == With(meta, t.name, [dtype |-> t.dtype, shape |-> t.shape])
           S == EnsureAll(M, <<t.name>>)
       IN  IF t.dtype \notin DTypes \/ ~HasPayload(t) THEN Throw
           ELSE /\ meta' = M
                /\ graph' = [graph EXCEPT !.tensors = S.tensors]
                /\ idOf' = S.idOf
                /\ KeepWeight(S.idOf[t.name], t.dtype, Payload(t))
                /\ k' = k + 1
                /\ UNCHANGED <<file, debug, part>>

OnnxNode ==
    /\ Reading("node", file.node)
    /\ LET n == file.node[k + 1]
           S == EnsureAll(meta, n.inputs \o n.outputs)
       IN  IF n.op \notin OnnxOps \/ ~S.ok \/ ~ReadableAttrs(n) THEN Throw
           ELSE /\ graph' = [graph EXCEPT !.tensors = S.tensors, !.nodes = Append(@,
                      [op |-> OpFromOnnx(n.op), attrs |-> n.attrs,
                       inputs |-> [x \in DOMAIN n.inputs |-> S.idOf[n.inputs[x]]],
                       outputs |-> [x \in DOMAIN n.outputs |-> S.idOf[n.outputs[x]]]])]
                /\ idOf' = S.idOf
                /\ k' = k + 1
                /\ UNCHANGED <<file, debug, phase, part, weights, meta>>

\* mark_input skips initializers, mark_output skips nothing.
OnnxMark(p, list) ==
    /\ Reading(p, file[p])
    /\ LET name == file[p][k + 1].name
           S == EnsureAll(meta, <<name>>)
       IN  IF p = "input" /\ name \in InitializerNames
           THEN k' = k + 1 /\ UNCHANGED <<graph, idOf>>
           ELSE /\ graph' = [graph EXCEPT !.tensors = S.tensors,
                                          ![list] = Append(@, S.idOf[name])]
                /\ idOf' = S.idOf
                /\ k' = k + 1
    /\ UNCHANGED <<file, debug, phase, part, weights, meta>>

OnnxStep ==
    \/ OnnxRecord \/ OnnxInitializer \/ OnnxNode
    \/ OnnxMark("input", "inputs") \/ OnnxMark("output", "outputs")
    \/ EndOf("meta", ValueInfos, "initializer")
    \/ EndOf("initializer", file.initializer, "node") \/ EndOf("node", file.node, "input")
    \/ EndOf("input", file.input, "output") \/ EndOf("output", file.output, "end")
-----------------------------------------------------------------------------
(* The file read as a whole.                                               *)

Declared == InitializerNames \cup NamesIn(ValueInfos)
Mentioned == InitializerNames \cup NamesIn(file.input) \cup NamesIn(file.output)
             \cup UNION {Range(n.inputs) \cup Range(n.outputs) : n \in Range(file.node)}
OnnxSupported ==
    /\ \A v \in Range(ValueInfos) : v.dtype \in DTypes /\ Dynamic \notin Range(v.shape)
    /\ \A t \in Range(file.initializer) : t.dtype \in DTypes /\ HasPayload(t)
    /\ \A n \in Range(file.node) : n.op \in OnnxOps /\ ReadableAttrs(n)
    /\ Mentioned \subseteq Declared

\* The last entry of a list for a name counts, except among initializers: the
\* tensor and its weight are those of the first.
FirstOf(list, name) ==
    list[CHOOSE i \in DOMAIN list :
             list[i].name = name /\ \A j \in 1 .. i - 1 : list[j].name # name]
LastOf(list, name) ==
    list[CHOOSE i \in DOMAIN list :
             list[i].name = name /\ \A j \in i + 1 .. Len(list) : list[j].name # name]
EntryOf(name) ==
    IF name \in InitializerNames THEN FirstOf(file.initializer, name) ELSE LastOf(ValueInfos, name)

\* The first n entries of input, but for the weights among them.
Announced[n \in 0 .. Len(file.input)] ==
    IF n = 0 THEN <<>>
    ELSE IF file.input[n].name \in InitializerNames THEN Announced[n - 1]
    ELSE Append(Announced[n - 1], file.input[n].name)

OnnxMeans ==
    [tensors |-> {[name |-> n, dtype |-> EntryOf(n).dtype, shape |-> EntryOf(n).shape,
                   kind |-> KindOf(n)] : n \in Mentioned},
     nodes   |-> [x \in DOMAIN file.node |-> [file.node[x] EXCEPT !.op = OpFromOnnx(@)]],
     inputs  |-> Announced[Len(file.input)],
     outputs |-> [x \in DOMAIN file.output |-> file.output[x].name],
     data    |-> {<<n, Payload(EntryOf(n))>> : n \in InitializerNames}]
=============================================================================
