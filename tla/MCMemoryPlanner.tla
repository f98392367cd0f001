--------------------------- MODULE MCMemoryPlanner ---------------------------
(* Small graphs for topo_order and plan_memory.  For the sort: every pair of
   nodes over three tensors and the ids just outside, and every way to wire
   three nodes.  For the placement: every dag of four nodes in which node i
   writes tensor i + 1 from one or two tensors with smaller ids, with every
   choice of sizes, straddling the alignment, and two other shapes. *)
EXTENDS MemoryPlanner, TLC

SeqsUpTo(S, len) == UNION {[1 .. l -> S] : l \in 0 .. len}

\* Two nodes, zero or one output each, up to two inputs each, all ids from
\* -1 to 3 with tensors 0 to 2: malformed graphs of every kind.
AnyPair ==
    {[kind |-> (0 :> "input" @@ 1 :> "intermediate" @@ 2 :> "output"),
      bytes |-> [t \in 0 .. 2 |-> 1],
      inputs |-> [i \in 0 .. 1 |-> IF i = 0 THEN a ELSE b],
      outputs |-> [i \in 0 .. 1 |-> IF i = 0 THEN c ELSE d],
      results |-> <<2>>] :
        a \in SeqsUpTo({-1, 0, 1, 3}, 2), b \in SeqsUpTo({0, 1, 2}, 2),
        c \in SeqsUpTo({-1, 1, 2}, 2), d \in SeqsUpTo(0 .. 3, 1)}

\* The order of a node's inputs makes no difference to the sort.
Ascending == {s \in SeqsUpTo(0 .. 3, 2) : Len(s) = 2 => s[1] <= s[2]}

\* Three nodes, node i writes tensor i + 1 and reads up to two of the four
\* tensors, the same one twice included: every cycle, every diamond.
AnyWiring ==
    {[kind |-> [t \in 0 .. 3 |-> IF t = 0 THEN "weight" ELSE "intermediate"],
      bytes |-> [t \in 0 .. 3 |-> 1],
      inputs |-> w,
      outputs |-> [i \in 0 .. 2 |-> <<i + 1>>],
      results |-> <<>>] : w \in [0 .. 2 -> Ascending]}

\* One or two distinct inputs among the tensors 0 .. i.
OneOrTwo(i) == {<<a>> : a \in 0 .. i}
              \cup {s \in (0 .. i) \X (0 .. i) : s[1] < s[2]}

Dags(sizes) ==
    {[kind |-> [t \in 0 .. 4 |-> IF t = 0 THEN "input"
                                 ELSE IF t = 4 THEN "output" ELSE "intermediate"],
      bytes |-> [t \in 0 .. 4 |-> IF t \in 1 .. 3 THEN z[t] ELSE 1],
      inputs |-> [i \in 0 .. 3 |->
                    IF i = 0 THEN <<0>> ELSE IF i = 1 THEN a
                    ELSE IF i = 2 THEN b ELSE c],
      outputs |-> [i \in 0 .. 3 |-> <<i + 1>>],
      results |-> <<4>>] :
        a \in OneOrTwo(1), b \in OneOrTwo(2), c \in OneOrTwo(3),
        z \in [1 .. 3 -> sizes]}

\* A chain of five intermediates whose nodes are listed backwards, one with
\* two outputs, and an intermediate nobody writes.
Chain(z) ==
    [kind |-> [t \in 0 .. 6 |-> IF t = 0 THEN "weight" ELSE "intermediate"],
     bytes |-> [t \in 0 .. 6 |-> IF t = 0 THEN 1 ELSE z[t]],
     inputs |-> (0 :> <<4, 2>> @@ 1 :> <<3>> @@ 2 :> <<1, 1>> @@ 3 :> <<0>>),
     outputs |-> (0 :> <<5>> @@ 1 :> <<4>> @@ 2 :> <<3>> @@ 3 :> <<1, 2>>),
     results |-> <<5>>]

\* Tensors 1 and 2 are gone when 3 is born, 4 lives with all of them, and a
\* large 3 covers the offsets that 1 and 2 had: blocks within a block.
Nested(z) ==
    [kind |-> [t \in 0 .. 6 |-> IF t = 0 THEN "input" ELSE IF t > 4 THEN "output"
                                ELSE "intermediate"],
     bytes |-> [t \in 0 .. 6 |-> IF t \in 1 .. 4 THEN z[t] ELSE 1],
     inputs |-> (0 :> <<0>> @@ 1 :> <<1, 2>> @@ 2 :> <<5>> @@ 3 :> <<3, 4>>),
     outputs |-> (0 :> <<1, 2, 4>> @@ 1 :> <<5>> @@ 2 :> <<3>> @@ 3 :> <<6>>),
     results |-> <<6>>]

MCGraphs ==
    AnyPair \cup AnyWiring \cup Dags({1, 2, 3}) \cup {Chain(z) : z \in [1 .. 6 -> {1, 3}]}
    \cup {Nested(z) : z \in [1 .. 4 -> {1, 2, 5}]}
=============================================================================
