---------------------------- MODULE MCFrontends -----------------------------
(***************************************************************************)
(* One model exported in both formats, and what can be wrong with either   *)
(* file: one item at a time is replaced, in each position it can have.     *)
(***************************************************************************)
EXTENDS Frontends

T(name, kind, dtype, shape) == [name |-> name, kind |-> kind, dtype |-> dtype, shape |-> shape]
N(op, ins, outs, attrs) == [op |-> op, inputs |-> ins, outputs |-> outs, attrs |-> attrs]
A(name, type, value) == [name |-> name, type |-> type, value |-> value]
LastAxis == {A("axis", "int", "default")}

ModelTensors == <<T("x", "input", "f32", <<1, 2>>), T("W", "weight", "f32", <<2, 1>>),
                  T("b", "weight", "f32", <<1>>), T("t0", "intermediate", "f32", <<1, 1>>),
                  T("t1", "intermediate", "f32", <<1, 1>>), T("y", "output", "f32", <<1, 1>>)>>
ModelNodes == <<N("MatMul", <<"x", "W">>, <<"t0">>, {}), N("Add", <<"t0", "b">>, <<"t1">>, {}),
                N("Softmax", <<"t1">>, <<"y">>, LastAxis)>>
BytesFor(t) == [x \in 1 .. BytesOf(t) |-> <<t.name, x>>]
Blob == BytesFor(ModelTensors[2]) \o BytesFor(ModelTensors[3])

\* export_models.py
JsonTensorOf(t) ==
    IF t.kind = "weight"
    THEN t @@ [offset |-> IF t.name = "b" THEN 8 ELSE 0, nbytes |-> BytesOf(t)] ELSE t
Json == [format |-> "json", blob |-> Blob, nodes |-> ModelNodes,
         inputs |-> <<"x">>, outputs |-> <<"y">>,
         tensors |-> [i \in DOMAIN ModelTensors |-> JsonTensorOf(ModelTensors[i])]]

\* export_onnx.py
Info(t) == [name |-> t.name, dtype |-> t.dtype, shape |-> t.shape]
Initializer(t) == Info(t) @@ [raw |-> BytesFor(t), typed |-> <<>>]
OfKind(kind) == SelectSeq(ModelTensors, LAMBDA t : t.kind = kind)
Mapped(f(_), s) == [i \in DOMAIN s |-> f(s[i])]
OnnxFile == [format |-> "onnx", node |-> ModelNodes,
             input |-> Mapped(Info, OfKind("input")), output |-> Mapped(Info, OfKind("output")),
             value_info |-> Mapped(Info, OfKind("intermediate")),
             initializer |-> Mapped(Initializer, OfKind("weight"))]

\* The files with entry i of a list replaced by g(entry), for each i.
Edited(f, list, g(_)) == {[f EXCEPT ![list][i] = g(f[list][i])] : i \in DOMAIN f[list]}
Quantised(t) == IF t.kind = "weight" THEN [t EXCEPT !.dtype = "i8"] ELSE t

\* Weights in one byte, described as such: the blob has room for more.
JsonByteWeights ==
    [Json EXCEPT !.tensors = [i \in DOMAIN ModelTensors |-> JsonTensorOf(Quantised(ModelTensors[i]))]]

JsonFiles ==
    {Json, JsonByteWeights, [Json EXCEPT !.blob = SubSeq(Blob, 1, 11)],
     [Json EXCEPT !.inputs = <<"x", "z">>], [Json EXCEPT !.outputs = <<"y", "t0">>],
     [Json EXCEPT !.outputs = <<"z">>], [Json EXCEPT !.tensors = Reverse(Json.tensors)],
     [Json EXCEPT !.nodes = Reverse(ModelNodes)]}
    \cup Edited(Json, "tensors", LAMBDA t : [t EXCEPT !.name = "W"])
    \cup Edited(Json, "tensors", LAMBDA t : [t EXCEPT !.dtype = "f16"])
    \cup Edited(Json, "tensors", LAMBDA t : [t EXCEPT !.dtype = "i32"])
    \cup Edited(Json, "tensors", LAMBDA t : [t EXCEPT !.kind = "constant"])
    \cup Edited(Json, "tensors", LAMBDA t : [t EXCEPT !.shape = <<2, 2>>])
    \cup Edited(Json, "tensors", LAMBDA t : [t EXCEPT !.name = "other"])
    \cup Edited(Json, "nodes", LAMBDA n : [n EXCEPT !.attrs = {A("mode", "string", "v")}])

TypedPayload(t) ==
    [t EXCEPT !.raw = <<>>, !.typed = [e \in 1 .. NumelOf(t.shape) |->
                                          SubSeq(t.raw, 4 * e - 3, 4 * e)]]
OnnxFiles ==
    {OnnxFile, [OnnxFile EXCEPT !.initializer = Reverse(@)],
     \* weights among the inputs, as older files have them
     [OnnxFile EXCEPT !.input = @ \o Mapped(Info, OfKind("weight"))],
     \* an input, or an intermediate, that is returned
     [OnnxFile EXCEPT !.output = @ \o OnnxFile.input],
     [OnnxFile EXCEPT !.output = @ \o OnnxFile.value_info],
     [OnnxFile EXCEPT !.value_info = <<@[1]>>],
     [OnnxFile EXCEPT !.value_info = Append(@, [name |-> "unused", dtype |-> "f32", shape |-> <<3>>])],
     [OnnxFile EXCEPT !.node = Reverse(@)],
     \* a name described twice, in two ways
     [OnnxFile EXCEPT !.value_info = <<[@[1] EXCEPT !.shape = <<3>>]>> \o @],
     [OnnxFile EXCEPT !.initializer = Append(@, [@[1] EXCEPT !.dtype = "i32", !.shape = <<1, 2>>])],
     [OnnxFile EXCEPT !.initializer =
         Append(@, [@[2] EXCEPT !.dtype = "i8", !.raw = SubSeq(@, 1, 1)])]}
    \cup Edited(OnnxFile, "initializer", TypedPayload)
    \cup Edited(OnnxFile, "initializer", LAMBDA t : [t EXCEPT !.raw = <<>>])
    \cup Edited(OnnxFile, "initializer", LAMBDA t : [t EXCEPT !.shape = <<2, 2>>])
    \cup Edited(OnnxFile, "initializer", LAMBDA t : [t EXCEPT !.dtype = "i64"])
    \cup Edited(OnnxFile, "initializer", LAMBDA t :
                   [t EXCEPT !.dtype = "i8", !.raw = SubSeq(@, 1, NumelOf(t.shape))])
    \cup UNION {Edited(OnnxFile, list, LAMBDA v : [v EXCEPT !.shape = <<-1, 1>>]) :
                   list \in {"input", "output", "value_info"}}
    \cup UNION {Edited(OnnxFile, list, LAMBDA v : [v EXCEPT !.dtype = "i64"]) :
                   list \in {"input", "output", "value_info"}}
    \cup Edited(OnnxFile, "node", LAMBDA n : [n EXCEPT !.op = "Conv"])
    \cup Edited(OnnxFile, "node", LAMBDA n : [n EXCEPT !.op = "LayerNormalization"])
    \cup Edited(OnnxFile, "node", LAMBDA n : [n EXCEPT !.attrs = {A("mode", "string", "v")}])
    \cup Edited(OnnxFile, "node", LAMBDA n : [n EXCEPT !.inputs = Append(@, "z")])

MCModel ==
    [tensors |-> {T(t.name, t.kind, t.dtype, t.shape) : t \in Range(ModelTensors)},
     nodes |-> ModelNodes, inputs |-> <<"x">>, outputs |-> <<"y">>,
     data |-> {<<t.name, BytesFor(t)>> : t \in Range(OfKind("weight"))}]
MCExports ==
    {Json, [Json EXCEPT !.tensors = Reverse(Json.tensors)],
     OnnxFile, [OnnxFile EXCEPT !.initializer = Reverse(@)],
     [OnnxFile EXCEPT !.input = @ \o Mapped(Info, OfKind("weight"))]}
    \cup Edited(OnnxFile, "initializer", TypedPayload)

MCFiles == JsonFiles \cup OnnxFiles
=============================================================================
