----------------------------- MODULE JsonLoader -----------------------------
(***************************************************************************)
(* load_json_model (src/frontend/json/json_loader.cpp).  The file and its  *)
(* blob of weights have been read and parsed: a file is a record of lists, *)
(* with every key the loader asks for.  An offset plus a size does not     *)
(* reach 2^64.                                                             *)
(***************************************************************************)
EXTENDS LoadedModel

\* A weight has its whole payload, and no more, inside the blob.
WeightFits(t) == t.offset + t.nbytes <= Len(file.blob) /\ t.nbytes = BytesOf(t)

\* Mutant: the end of the payload is not checked against its shape.
AcceptsTensorAnySize(t) ==
    /\ t.dtype \in DTypes
    /\ t.kind \in {"input", "output", "weight", "intermediate"}
    /\ t.name \notin DOMAIN idOf
    /\ t.kind = "weight" => t.offset + t.nbytes <= Len(file.blob)
AcceptsTensor(t) ==
    /\ t.dtype \in DTypes
    /\ t.kind \in {"input", "output", "weight", "intermediate"}
    /\ t.name \notin DOMAIN idOf
    /\ t.kind = "weight" => WeightFits(t)

JsonTensor ==
    /\ Reading("tensors", file.tensors)
    /\ LET t == file.tensors[k + 1]
       IN  IF ~AcceptsTensor(t) THEN Throw
           ELSE /\ graph' = [graph EXCEPT !.tensors = Append(@,
                      [name |-> t.name, dtype |-> t.dtype, shape |-> t.shape, kind |-> t.kind])]
                /\ idOf' = With(idOf, t.name, NextId)
                /\ IF t.kind = "weight"
                   THEN KeepWeight(NextId, t.dtype,
                                   SubSeq(file.blob, t.offset + 1, t.offset + t.nbytes))
                   ELSE UNCHANGED <<weights, phase>>
                /\ k' = k + 1
                /\ UNCHANGED <<file, debug, part, meta>>

JsonNode ==
    /\ Reading("nodes", file.nodes)
    /\ LET n == file.nodes[k + 1]
       IN  IF ~(Range(n.inputs) \cup Range(n.outputs) \subseteq DOMAIN idOf /\ ReadableAttrs(n))
           THEN Throw
           ELSE /\ graph' = [graph EXCEPT !.nodes = Append(@,
                      [n EXCEPT !.inputs = Ids(@), !.outputs = Ids(@)])]
                /\ k' = k + 1
                /\ UNCHANGED <<file, debug, phase, part, idOf, weights, meta>>

JsonMark(list) ==
    /\ Reading(list, file[list])
    /\ LET name == file[list][k + 1]
       IN  IF name \notin DOMAIN idOf THEN Throw
           ELSE Mark(list, idOf[name])
                /\ UNCHANGED <<file, debug, phase, part, idOf, weights, meta>>

JsonStep ==
    \/ JsonTensor \/ JsonNode \/ JsonMark("inputs") \/ JsonMark("outputs")
    \/ EndOf("tensors", file.tensors, "nodes") \/ EndOf("nodes", file.nodes, "inputs")
    \/ EndOf("inputs", file.inputs, "outputs") \/ EndOf("outputs", file.outputs, "end")
-----------------------------------------------------------------------------
(* The file read as a whole.                                               *)

JsonNames == {t.name : t \in Range(file.tensors)}
JsonSupported ==
    /\ Cardinality(JsonNames) = Len(file.tensors)
    /\ \A t \in Range(file.tensors) :
          /\ t.dtype \in DTypes
          /\ t.kind \in {"input", "output", "weight", "intermediate"}
          /\ t.kind = "weight" => WeightFits(t)
    /\ \A n \in Range(file.nodes) :
          Range(n.inputs) \cup Range(n.outputs) \subseteq JsonNames /\ ReadableAttrs(n)
    /\ Range(file.inputs) \cup Range(file.outputs) \subseteq JsonNames

JsonMeans ==
    [tensors |-> {[name |-> t.name, dtype |-> t.dtype, shape |-> t.shape, kind |-> t.kind] :
                     t \in Range(file.tensors)},
     nodes |-> file.nodes, inputs |-> file.inputs, outputs |-> file.outputs,
     data |-> {<<t.name, SubSeq(file.blob, t.offset + 1, t.offset + t.nbytes)>> :
                  t \in {u \in Range(file.tensors) : u.kind = "weight"}}]
=============================================================================
