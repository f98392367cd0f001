----------------------------- MODULE MCExecutor -----------------------------
(* Small graphs for the executor.  A tensor occupies one or two cells, and the
   arena aligns to two. *)
EXTENDS CudaExecutor

OneOrTwo(i) == {<<a>> : a \in 0 .. i}
               \cup {s \in (0 .. i) \X (0 .. i) : s[1] < s[2]}

\* Every dag of four nodes over an input 0, intermediates 1 .. 3 and the
\* output 4, with a weight 5 read by the last node.
Dags(sizes) ==
    {[kind |-> [t \in 0 .. 5 |-> IF t = 0 THEN "input"
                                 ELSE IF t = 4 THEN "output"
                                 ELSE IF t = 5 THEN "weight" ELSE "intermediate"],
      bytes |-> [t \in 0 .. 5 |-> IF t \in 1 .. 3 THEN z[t] ELSE 1],
      inputs |-> [i \in 0 .. 3 |->
                    IF i = 0 THEN <<0>> ELSE IF i = 1 THEN a
                    ELSE IF i = 2 THEN b ELSE Append(c, 5)],
      outputs |-> [i \in 0 .. 3 |-> <<i + 1>>],
      results |-> <<4>>] :
        a \in OneOrTwo(1), b \in OneOrTwo(2), c \in OneOrTwo(3),
        z \in {x \in [1 .. 3 -> sizes] : x[1] # x[2]}}

\* Two outputs of one node, one of them consumed as well as returned.
Split2 ==
    [kind |-> (0 :> "input" @@ 1 :> "intermediate" @@ 2 :> "output"
               @@ 3 :> "output"),
     bytes |-> [t \in 0 .. 3 |-> 2],
     inputs |-> (0 :> <<1, 2>> @@ 1 :> <<0>>),
     outputs |-> (0 :> <<3>> @@ 1 :> <<1, 2>>),
     results |-> <<3, 2>>]

(* Where things go wrong: constructors that throw, and runs that are handed
   an unknown id. *)
Line(kind, n) ==
    [kind |-> kind,
     bytes |-> [t \in DOMAIN kind |-> 1],
     inputs |-> [i \in 0 .. n - 1 |-> <<i>>],
     outputs |-> [i \in 0 .. n - 1 |-> <<i + 1>>],
     results |-> <<n>>]

Kind(n) == [t \in 0 .. n |-> IF t = 0 THEN "input"
                             ELSE IF t = n THEN "output" ELSE "intermediate"]

\* A node with no outputs, a cycle, a node whose kernel does not resolve.
NoOutputs == [Line(Kind(3), 3) EXCEPT !.outputs[2] = <<>>, !.results = <<2>>]
Loop == [Line(Kind(3), 3) EXCEPT !.inputs[1] = <<1, 3>>]
LongLine == Line(Kind(5), 5)

\* Two inputs and a weight, so that a run may bind some of them again.
TwoInputs ==
    [kind |-> [t \in 0 .. 5 |-> IF t < 2 THEN "input" ELSE IF t = 2 THEN "weight"
                                ELSE IF t = 5 THEN "output" ELSE "intermediate"],
     bytes |-> [t \in 0 .. 5 |-> 1],
     inputs |-> (0 :> <<0, 2>> @@ 1 :> <<3, 1>> @@ 2 :> <<4, 0>>),
     outputs |-> (0 :> <<3>> @@ 1 :> <<4>> @@ 2 :> <<5>>),
     results |-> <<5, 0>>]

MCGraphs == Dags({1, 3}) \cup
    {Split2, NoOutputs, Loop, LongLine, TwoInputs, Line(Kind(3), 3)}

\* A graph whose declared output is of kind intermediate: the loader takes
\* the list of outputs and the kinds of the tensors from the file, separately.
IntermediateOutput ==
    {[kind |-> [t \in 0 .. 4 |-> IF t = 0 THEN "input"
                                 ELSE IF t = 4 THEN "output" ELSE "intermediate"],
      bytes |-> [t \in 0 .. 4 |-> 1],
      inputs |-> [i \in 0 .. 3 |-> <<i>>],
      outputs |-> [i \in 0 .. 3 |-> <<i + 1>>],
      results |-> r] : r \in {<<4>>, <<4, 1>>, <<4, 2>>}}
=============================================================================
