----------------------------- MODULE Evaluator -----------------------------
(***************************************************************************)
(* What an executor promises its caller (include/mtrt/executor.h, and      *)
(* backends/cuda/cuda_executor.h for the device): a call takes values for  *)
(* inputs and weights, keeps those it was given before, and answers with   *)
(* what the graph computes from the values in force.  There are no orders, *)
(* no storage, no kernels and no allocators in it.  CudaExecutor.tla,      *)
(* which covers both executors, implements it.                             *)
(***************************************************************************)
EXTENDS Naturals

VARIABLES
    graph,
    status,   \* "building", "failed", "ready", "running" or "gone"
    given,    \* the value in force of each source
    answer,   \* what the last call returned
    calls     \* how many calls there have been

vars == <<graph, status, given, answer, calls>>

\* Values are terms.
NoValue == <<"none">>
Computed(i, k, args) == <<"computed", i, k, args>>

\* Output k of node i is t.
Writes(i, k, t) == graph.outputs[i][k] = t
Produced(t) == \E i \in DOMAIN graph.outputs : \E k \in DOMAIN graph.outputs[i] : Writes(i, k, t)

\* What a caller gives.
Sources == {t \in DOMAIN graph.kind : graph.kind[t] \in {"input", "weight"} /\ ~Produced(t)}

\* What is given for t in call r.  A tensor without elements has no value.
GivenBy(t, r) == IF graph.bytes[t] = 0 THEN NoValue ELSE <<"bound", t, r>>

\* What the graph computes from what is given.
Value ==
    LET val[t \in DOMAIN graph.kind] ==
          IF graph.bytes[t] = 0 THEN NoValue
          ELSE IF Produced(t)
          THEN LET i == CHOOSE i \in DOMAIN graph.outputs :
                           \E k \in DOMAIN graph.outputs[i] : Writes(i, k, t)
                   k == CHOOSE k \in DOMAIN graph.outputs[i] : Writes(i, k, t)
               IN  Computed(i, k, [a \in DOMAIN graph.inputs[i] |-> val[graph.inputs[i][a]]])
          ELSE IF t \in Sources THEN given[t] ELSE NoValue
    IN  val

Init ==
    /\ status = "building"
    /\ given = [t \in Sources |-> NoValue]
    /\ answer = <<>>
    /\ calls = 0

\* The sources of G are given in call r, the others keep what they have.
Give(G, r) == given' = [t \in Sources |-> IF t \in G THEN GivenBy(t, r) ELSE given[t]]

\* The constructor returns; it may have been given the weights.
Built(W) ==
    /\ status = "building" /\ W \subseteq {t \in Sources : graph.kind[t] = "weight"}
    /\ status' = "ready"
    /\ Give(W, 0)
    /\ UNCHANGED <<graph, answer, calls>>

\* The constructor throws.
Reject ==
    /\ status = "building"
    /\ status' = "failed"
    /\ UNCHANGED <<graph, given, answer, calls>>

\* A call begins, and every source has a value.  What was returned before
\* need not be valid any more.
Call(G) ==
    /\ status = "ready"
    /\ G \subseteq Sources
    /\ \A t \in Sources \ G : given[t] = NoValue => graph.bytes[t] = 0
    /\ status' = "running"
    /\ Give(G, calls + 1)
    /\ answer' = <<>>
    /\ calls' = calls + 1
    /\ UNCHANGED graph

\* A call throws at once: a part of what it brought is in force, each value
\* as a whole.
Refuse(G) ==
    /\ status = "ready"
    /\ G \subseteq Sources
    /\ Give(G, calls + 1)
    /\ answer' = <<>>
    /\ calls' = calls + 1
    /\ UNCHANGED <<graph, status>>

\* A call throws in the middle.  What was given stays.
Abandon ==
    /\ status = "running"
    /\ status' = "ready"
    /\ UNCHANGED <<graph, given, answer, calls>>

\* A call returns what the results of the graph mean; what was given is as it
\* was.
Return ==
    /\ status = "running"
    /\ status' = "ready"
    /\ answer' = [k \in DOMAIN graph.results |-> Value[graph.results[k]]]
    /\ UNCHANGED <<graph, given, calls>>

\* The executor is destroyed; what it returned remains.
Destroy ==
    /\ status = "ready"
    /\ status' = "gone"
    /\ given' = [t \in Sources |-> NoValue]
    /\ UNCHANGED <<graph, answer, calls>>

Next ==
    \/ \E G \in SUBSET Sources : Built(G) \/ Call(G) \/ Refuse(G)
    \/ Reject \/ Abandon \/ Return \/ Destroy

SafetySpec == Init /\ [][Next]_vars
=============================================================================
