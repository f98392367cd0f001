----------------------------- MODULE Frontends ------------------------------
(***************************************************************************)
(* The two frontends, one IR: a file of either format is loaded, and the   *)
(* result is what the passes and the executors work on.                    *)
(***************************************************************************)
EXTENDS JsonLoader, OnnxLoader

CONSTANTS
    Model,     \* a model by names: tensors, nodes, inputs, outputs, data
    Exports    \* files of either format that it may be exported to

FirstPart == [json |-> "tensors", onnx |-> "meta"]
FromOnnx == file.format = "onnx"

FrontendInit == LoadInit(FirstPart)

FrontendStep == IF FromOnnx THEN OnnxStep ELSE JsonStep

FrontendDone == phase # "loading" /\ UNCHANGED loadVars

FrontendSpec == FrontendInit /\ [][FrontendStep \/ FrontendDone]_loadVars
-----------------------------------------------------------------------------
(* Properties.                                                             *)

Supported == IF FromOnnx THEN OnnxSupported ELSE JsonSupported
WeightTypes ==
    {t.dtype : t \in IF FromOnnx THEN Range(file.initializer)
                     ELSE {u \in Range(file.tensors) : u.kind = "weight"}}
Means == IF FromOnnx THEN OnnxMeans ELSE JsonMeans

\* A load ends well for exactly the files that are whole and inside the
\* supported subset, however far the loader has come when it meets the item
\* that is not; it aborts only in a build with assertions, on a one-byte
\* weight, which both loaders copy through data<float>().
LoadsExactlySupported ==
    /\ phase = "loaded" => Supported
    /\ phase = "threw" => ~Supported
    /\ phase = "aborted" => debug /\ "i8" \in WeightTypes

\* The graph and the weights in memory are what the file describes by names,
\* whatever ids the order of the file gave to them; one model comes out the
\* same from either format (onnx_frontend_test.cpp, SameOutputAsJsonFrontend).
LoadedIsDescribed ==
    phase = "loaded" =>
        /\ ByName = Means
        /\ file \in Exports => ByName = Model
        /\ Len(graph.tensors) = Cardinality({t.name : t \in Range(graph.tensors)})

\* What the executor will neither allocate nor compute, the caller can bind:
\* every tensor of kind weight has its data, fold_constants never misses any,
\* and in ONNX, where kinds follow from roles, every input is announced.
CallersBindEverything ==
    phase = "loaded" =>
        \A t \in 0 .. NextId - 1 :
            /\ graph.tensors[t + 1].kind = "weight" <=> t \in DOMAIN weights
            /\ FromOnnx /\ graph.tensors[t + 1].kind = "input" => t \in Range(graph.inputs)
=============================================================================
