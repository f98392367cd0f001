------------------------------- MODULE MCFusion -------------------------------
(* Small graphs for the fusion pass: over an input of two rows (0), a square
   weight (1) and a bias of one row (2), nodes that each write one tensor from
   tensors with smaller ids.  Shapes are those the kernels accept. *)
EXTENDS Fusion

\* A node: its op type and its inputs.
MatMul(a, b) == [op |-> "MatMul", in |-> <<a, b>>]
Add(a, b) == [op |-> "Add", in |-> <<a, b>>]
Unary(act, a) == [op |-> act, in |-> <<a>>]

\* The graph of the nodes in nodes, listed backwards if back; node j of the
\* sequence writes tensor j + 2, the last of them and the extra results are
\* returned, the last is of kind output.
Build(nodes, extra, back) ==
    LET n == Len(nodes)
        at(i) == IF back THEN n - i ELSE i + 1
        rows[t \in 0 .. n + 2] ==
            IF t < 3 THEN (IF t = 2 THEN 1 ELSE 2) ELSE rows[nodes[t - 2].in[1]]
    IN  [kind |-> [t \in 0 .. n + 2 |-> IF t = 0 THEN "input" ELSE IF t < 3 THEN "weight"
                                        ELSE IF t = n + 2 THEN "output" ELSE "intermediate"],
         rows |-> rows,
         name |-> [t \in 0 .. n + 2 |-> t],
         op |-> [i \in 0 .. n - 1 |-> nodes[at(i)].op],
         inputs |-> [i \in 0 .. n - 1 |-> nodes[at(i)].in],
         outputs |-> [i \in 0 .. n - 1 |-> <<at(i) + 2>>],
         results |-> Append(extra, n + 2)]

\* The kernels accept the shapes: the second factor is square, the addend has
\* as many rows as the other or one.
ShapesFit(g) ==
    \A i \in DOMAIN g.op :
        /\ g.op[i] = "MatMul" => g.rows[g.inputs[i][2]] = 2
        /\ g.op[i] = "Add" => g.rows[g.inputs[i][2]] \in {1, g.rows[g.inputs[i][1]]}

Acts == {"Gelu", "GeluTanh"}

\* Every chain with any operands, followed by a node that may read any
\* tensor; any of the tensors may be a result as well.
OneChain ==
    {Build(<<MatMul(x, 1), Add(a[1], a[2]), Unary(act, g), last>>, extra, back) :
        x \in {0, 2}, a \in (0 .. 3) \X (0 .. 3), g \in {3, 4}, act \in Acts,
        last \in {Add(5, 2), Add(5, 3), Add(3, 3), MatMul(4, 1), Unary("Gelu", 5)},
        extra \in {<<>>, <<3>>, <<5, 4>>}, back \in BOOLEAN}

\* Two products that end in one sum.
Paired ==
    {Build(<<MatMul(x, 1), MatMul(y, 1), Add(3, 4), Unary(act, 5), Add(6, e)>>, <<>>, back) :
        x \in {0, 2}, y \in {0, 1, 2}, e \in {0, 2, 4}, act \in Acts, back \in BOOLEAN}

\* Two products, two sums and two activations: two chains, side by side or one
\* behind the other.
TwoChains ==
    {Build(<<MatMul(x, 1), MatMul(y, 1), Add(3, b), Unary(act, 5), Add(4, c),
             Unary("Gelu", d), Add(6, e)>>, <<>>, back) :
        x \in {0, 2}, y \in {0, 1, 2}, b \in {0, 2, 4}, c \in {2, 3, 6},
        d \in {5, 7}, e \in {2, 8}, act \in Acts, back \in BOOLEAN}

\* A second product computed from the result of the first chain.
Stacked ==
    {Build(<<MatMul(0, 1), Add(3, b), Unary(act, 4), MatMul(5, w), Add(6, c),
             Unary("GeluTanh", 7)>>, <<>>, back) :
        b \in {0, 2}, c \in {0, 2, 5}, w \in {0, 1, 5}, act \in Acts, back \in BOOLEAN}

MCGraphs == {g \in OneChain \cup Paired \cup TwoChains \cup Stacked : ShapesFit(g)}
=============================================================================
