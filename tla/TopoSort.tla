------------------------------ MODULE TopoSort ------------------------------
(***************************************************************************)
(* Graph::topo_order (src/graph/graph.cpp): the checks on producers and    *)
(* consumers, then Kahn's algorithm with a FIFO of ready nodes.  It runs   *)
(* in one thread; a loop whose order matters has one action per iteration  *)
(* (seeding the queue, popping it, visiting the consumers of the popped    *)
(* node), the two validating scans are one action each.                    *)
(*                                                                         *)
(* Ids are 0-based, as in the code.  A graph comes from outside (a loader, *)
(* or a test that calls add_tensor and add_node), so any graph may come,   *)
(* malformed ones included.  All GraphErrors are one outcome, "failed".    *)
(*                                                                         *)
(* topo_order is called by plan_memory, by the executor and on a rewritten *)
(* graph, so SortNext is a part of the next-state relations of             *)
(* MemoryPlanner, Executor, Fusion and ConstantFolding; TopoSort has no    *)
(* specification of its own.                                               *)
(***************************************************************************)
EXTENDS Integers, FiniteSets, Sequences

CONSTANT Graphs   \* the graphs that topo_order may be called on

Kinds == {"input", "weight", "intermediate", "output"}   \* TensorKind

\* What the type Graph guarantees: tables of tensors and nodes, and nodes
\* that name tensors by integers, in range or not.  What else a tensor or a
\* node has is a table of the module that looks at it.
IsGraph(g) ==
    LET T == 0 .. Cardinality(DOMAIN g.kind) - 1
        N == 0 .. Cardinality(DOMAIN g.inputs) - 1
    IN  /\ IsFiniteSet(DOMAIN g.kind) /\ IsFiniteSet(DOMAIN g.inputs)
        /\ g.kind \in [T -> Kinds]
        /\ g.inputs \in [N -> Seq(Int)] /\ g.outputs \in [N -> Seq(Int)]
        /\ g.results \in Seq(T)   \* graph_outputs()

ASSUME GraphsAssumption == \A g \in Graphs : IsGraph(g)

VARIABLES
    graph,
    phase,      \* what is being done to the graph
    producer,   \* producer[t]: the node that writes t, or -1
    indeg,      \* indeg[i]: inputs of i whose producer is not yet ordered
    ready,      \* the FIFO of nodes with in-degree zero
    order,      \* the result so far
    dep         \* loop variable: the node being seeded or visited

sortVars == <<graph, phase, producer, indeg, ready, order, dep>>

TensorIds == DOMAIN graph.kind
Nodes == DOMAIN graph.inputs
NumNodes == Cardinality(Nodes)

\* <<i, k>> for the k-th input or output of node i.
InputSlots == UNION {{i} \X DOMAIN graph.inputs[i] : i \in Nodes}
OutputSlots == UNION {{i} \X DOMAIN graph.outputs[i] : i \in Nodes}
InputAt(s) == graph.inputs[s[1]][s[2]]
OutputAt(s) == graph.outputs[s[1]][s[2]]

\* The inputs of node i that p produces: as many entries for i in
\* consumers[p], all next to each other because nodes are linked in order.
InputsFrom(p, i) ==
    {k \in DOMAIN graph.inputs[i] : producer[graph.inputs[i][k]] = p}

\* The nodes of a graph that write a tensor.
Makers(g, t) ==
    {i \in DOMAIN g.inputs : \E k \in DOMAIN g.outputs[i] : g.outputs[i][k] = t}

\* The ids below n that are not in S, in order: what a pass that rewrites a
\* graph keeps of it.
AllBut(n, S) ==
    LET kept[m \in 0 .. n] ==
          IF m = 0 THEN <<>>
          ELSE IF m - 1 \in S THEN kept[m - 1] ELSE Append(kept[m - 1], m - 1)
    IN  kept[n]

SortInit ==
    /\ graph \in Graphs
    /\ phase = "producers"
    /\ producer = [t \in TensorIds |-> -1]
    /\ indeg = [i \in Nodes |-> 0]
    /\ ready = <<>> /\ order = <<>> /\ dep = 0

\* The first scan: every written tensor exists and has one producer.
ScanProducers ==
    /\ phase = "producers"
    /\ IF /\ \A s \in OutputSlots : OutputAt(s) \in TensorIds
          /\ \A r, s \in OutputSlots : OutputAt(r) = OutputAt(s) => r = s
       THEN /\ phase' = "indegrees"
            /\ producer' = [t \in TensorIds |->
                  IF \E s \in OutputSlots : OutputAt(s) = t
                  THEN (CHOOSE s \in OutputSlots : OutputAt(s) = t)[1] ELSE -1]
       ELSE phase' = "failed" /\ UNCHANGED producer
    /\ UNCHANGED <<graph, indeg, ready, order, dep>>

\* The second scan: every tensor read exists, and is produced unless it is an
\* input or a weight; an input counts once for each time a node lists it.
ScanConsumers ==
    /\ phase = "indegrees"
    /\ IF \A s \in InputSlots :
             /\ InputAt(s) \in TensorIds
             /\ \/ producer[InputAt(s)] # -1
                \/ graph.kind[InputAt(s)] \in {"input", "weight"}
       THEN /\ phase' = "seed"
            /\ indeg' = [i \in Nodes |->
                  Cardinality({k \in DOMAIN graph.inputs[i] :
                                  producer[graph.inputs[i][k]] # -1})]
       ELSE phase' = "failed" /\ UNCHANGED indeg
    /\ UNCHANGED <<graph, producer, ready, order, dep>>

\* One iteration of the loop that queues the nodes with in-degree zero.
SeedReady ==
    /\ phase = "seed" /\ dep < NumNodes
    /\ ready' = IF indeg[dep] = 0 THEN Append(ready, dep) ELSE ready
    /\ dep' = dep + 1
    /\ UNCHANGED <<graph, phase, producer, indeg, order>>

StartPopping ==
    /\ phase = "seed" /\ dep = NumNodes
    /\ phase' = "pop"
    /\ UNCHANGED <<graph, producer, indeg, ready, order, dep>>

\* The head of the queue joins the order and its consumers are visited.
PopReady ==
    /\ phase = "pop" /\ ready # <<>>
    /\ order' = Append(order, Head(ready))
    /\ ready' = Tail(ready)
    /\ dep' = 0
    /\ phase' = "visit"
    /\ UNCHANGED <<graph, producer, indeg>>

\* Mutant: a node is queued each time one of its producers is ordered.
VisitConsumerEager ==
    /\ phase = "visit" /\ dep < NumNodes
    /\ LET k == Cardinality(InputsFrom(order[Len(order)], dep))
       IN  /\ indeg' = [indeg EXCEPT ![dep] = @ - k]
           /\ ready' = IF k > 0 THEN Append(ready, dep) ELSE ready
    /\ dep' = dep + 1
    /\ UNCHANGED <<graph, phase, producer, order>>

\* Mutant: the in-degree is decremented once per consumer, not per input.
VisitConsumerOnce ==
    /\ phase = "visit" /\ dep < NumNodes
    /\ LET k == IF InputsFrom(order[Len(order)], dep) = {} THEN 0 ELSE 1
       IN  /\ indeg' = [indeg EXCEPT ![dep] = @ - k]
           /\ ready' = IF k > 0 /\ indeg[dep] = k THEN Append(ready, dep) ELSE ready
    /\ dep' = dep + 1
    /\ UNCHANGED <<graph, phase, producer, order>>

\* One consumer of the node popped last: its in-degree drops by as many
\* inputs as it takes from that node, and it is queued when it reaches zero.
VisitConsumer ==
    /\ phase = "visit" /\ dep < NumNodes
    /\ LET k == Cardinality(InputsFrom(order[Len(order)], dep))
       IN  /\ indeg' = [indeg EXCEPT ![dep] = @ - k]
           /\ ready' = IF k > 0 /\ indeg[dep] = k THEN Append(ready, dep) ELSE ready
    /\ dep' = dep + 1
    /\ UNCHANGED <<graph, phase, producer, order>>

EndVisit ==
    /\ phase = "visit" /\ dep = NumNodes
    /\ phase' = "pop"
    /\ UNCHANGED <<graph, producer, indeg, ready, order, dep>>

\* The queue is empty: the order is complete, or the graph has a cycle.
EndSort ==
    /\ phase = "pop" /\ ready = <<>>
    /\ phase' = IF Len(order) = NumNodes THEN "sorted" ELSE "failed"
    /\ UNCHANGED <<graph, producer, indeg, ready, order, dep>>

SortNext ==
    \/ ScanProducers \/ ScanConsumers \/ SeedReady \/ StartPopping
    \/ PopReady \/ VisitConsumer \/ EndVisit \/ EndSort
-----------------------------------------------------------------------------
(* Properties.                                                             *)

\* i takes an input from p, read off the graph alone.
Feeds(p, i) ==
    \E k \in DOMAIN graph.outputs[p], m \in DOMAIN graph.inputs[i] :
        graph.outputs[p][k] = graph.inputs[i][m]

\* The graph has a cycle: some nodes each take an input from one of them.
Cyclic ==
    \E S \in (SUBSET Nodes) \ {{}} : \A i \in S : \E p \in S : Feeds(p, i)

WellFormed ==
    /\ \A s \in OutputSlots : OutputAt(s) \in TensorIds
    /\ \A s \in InputSlots : InputAt(s) \in TensorIds
    /\ \A r, s \in OutputSlots : OutputAt(r) = OutputAt(s) => r = s
    /\ \A s \in InputSlots :
          \/ graph.kind[InputAt(s)] \in {"input", "weight"}
          \/ \E r \in OutputSlots : OutputAt(r) = InputAt(s)
    /\ ~Cyclic

\* At every moment the order holds no node twice and no node before one that
\* feeds it, and what is queued has all it needs ordered or is being visited:
\* the executor runs kernels in this order without looking back.
OrderIsTopological ==
    /\ \A a, b \in DOMAIN order : order[a] = order[b] => a = b
    /\ \A b \in DOMAIN order : \A p \in Nodes :
          Feeds(p, order[b]) => \E a \in 1 .. b - 1 : order[a] = p

\* graph.h: "Throws GraphError on a cycle or a tensor consumed but never
\* produced (and not Input/Weight)": exactly the well-formed graphs are
\* ordered, and ordered completely.
FailsExactlyWhenMalformed ==
    /\ phase = "failed" => ~WellFormed
    /\ phase = "sorted" => WellFormed /\ Len(order) = NumNodes
=============================================================================
