------------------------------ MODULE Executor ------------------------------
(***************************************************************************)
(* Executor (src/runtime/executor.cpp): the constructor gives every tensor *)
(* storage, with one of two allocators, and run() binds the caller's       *)
(* tensors and calls the kernels in topological order.                     *)
(*                                                                         *)
(* A Tensor is the sequence of memory cells it covers, so two tensors      *)
(* share storage when they share cells: a view of the arena, a binding     *)
(* that shares the caller's storage, a result that shares the pool's.  The *)
(* empty sequence is a default-constructed Tensor.                         *)
(*                                                                         *)
(* Numbers are abstracted to terms: what a kernel computes is <<node, k,   *)
(* inputs>>, what a caller binds is named by the run that bound it.  Cell  *)
(* j of a tensor with value v holds <<v, j>>, and a tensor whose cells do  *)
(* not hold the pieces of one value in order has no value any more.        *)
(*                                                                         *)
(* A kernel is two actions, because it does not read all its inputs before *)
(* it writes its first output (a matrix product clears its output first):  *)
(* from KernelBegin on its outputs are scratch, at KernelEnd it has read   *)
(* its inputs.                                                             *)
(***************************************************************************)
EXTENDS MemoryPlanner, TLC

CONSTANTS
    Allocators,    \* AllocatorKind: "naive", "planned"; CudaExecutor has a
                   \* third kind, "device"
    Unregistered,  \* op types, named by their node, with no kernel for the
                   \* node's dtype, or with shapes the executor rejects
    UnknownIds,    \* ids of no tensor that a caller may bind
    MaxRuns        \* bound: how often run() is called

VARIABLES
    allocator,
    pool,      \* pool_: the Tensor of each id
    mem,       \* what the cells hold
    plan,      \* plan_: the nodes whose kernel has been resolved, in order
    pc,        \* run(): how many kernels have ended
    runs,      \* how many runs have begun
    bound,     \* history: the run whose binding of an id is in force, or 0
    results    \* the Tensors returned by the last run

execOnlyVars == <<allocator, pool, mem, plan, pc, runs, bound, results>>
execVars == <<planVars, execOnlyVars>>

\* Terms.
Bound(t, r) == <<"bound", t, r>>
Computed(i, k, args) == <<"computed", i, k, args>>
NoValue == <<"none">>
Scratch == <<"scratch">>

\* Cells.
OwnCells(t) == [j \in 1 .. graph.bytes[t] |-> <<"own", t, j>>]
\* Mutant: every view starts at the beginning of the arena.
ArenaCellsAtZero(t) == [j \in 1 .. graph.bytes[t] |-> <<"arena", j>>]
ArenaCells(t) == [j \in 1 .. graph.bytes[t] |-> <<"arena", offset[t] + j>>]
CallerCells(t, r) == [j \in 1 .. graph.bytes[t] |-> <<"caller", t, r, j>>]

\* The value a tensor holds in the memory m.
ValueIn(m, tensor) ==
    IF tensor = <<>> \/ tensor[1] \notin DOMAIN m THEN NoValue
    ELSE LET v == m[tensor[1]][1]
         IN  IF \A j \in DOMAIN tensor :
                   tensor[j] \in DOMAIN m /\ m[tensor[j]] = <<v, j>>
             THEN v ELSE NoValue

\* The memory m after the value val[t] is written to each tensor t of S.
Written(m, S, val) ==
    LET cells == UNION {{<<pool[t][j], val[t], j>> : j \in DOMAIN pool[t]} : t \in S}
    IN  [c \in DOMAIN m \cup {w[1] : w \in cells} |->
            IF \E w \in cells : w[1] = c
            THEN LET w == CHOOSE w \in cells : w[1] = c IN <<w[2], w[3]>>
            ELSE m[c]]

Intermediates == Planned
External == {t \in TensorIds : graph.kind[t] \in {"input", "weight"}}
Outputs(i) == {graph.outputs[i][k] : k \in DOMAIN graph.outputs[i]}

ExecInit ==
    /\ PlanInit
    /\ allocator \in Allocators
    /\ pool = [t \in TensorIds |-> <<>>]
    /\ mem = <<>>
    /\ plan = <<>> /\ pc = 0 /\ runs = 0
    /\ bound = [t \in TensorIds |-> 0]
    /\ results = <<>>
-----------------------------------------------------------------------------
(* The constructor.                                                        *)

\* Storage under the naive allocator: outputs and intermediates own theirs.
AllocateNaive ==
    /\ phase = "sorted" /\ allocator = "naive"
    /\ pool' = [t \in TensorIds |->
                  IF graph.kind[t] \in {"output", "intermediate"}
                  THEN OwnCells(t) ELSE <<>>]
    /\ phase' = "resolve"
    /\ UNCHANGED <<graph, producer, indeg, ready, order, dep, planOnlyVars,
                   allocator, mem, plan, pc, runs, bound, results>>

\* Under the planned one outputs own theirs, intermediates view the arena.
AllocatePlanned ==
    /\ phase = "planned"
    /\ pool' = [t \in TensorIds |->
                  IF graph.kind[t] = "output" THEN OwnCells(t)
                  ELSE IF t \in Intermediates THEN ArenaCells(t) ELSE <<>>]
    /\ phase' = "resolve"
    /\ UNCHANGED <<graph, producer, indeg, ready, order, dep, planOnlyVars,
                   allocator, mem, plan, pc, runs, bound, results>>

\* The kernel of the next node: shapes validated, at least one output, a
\* kernel registered.  Otherwise the constructor throws.
ResolveKernel ==
    /\ phase = "resolve" /\ Len(plan) < Len(order)
    /\ LET i == order[Len(plan) + 1]
       IN  IF i \notin Unregistered /\ graph.outputs[i] # <<>>
           THEN plan' = Append(plan, i) /\ UNCHANGED phase
           ELSE phase' = "failed" /\ UNCHANGED plan
    /\ UNCHANGED <<graph, producer, indeg, ready, order, dep, planOnlyVars,
                   allocator, pool, mem, pc, runs, bound, results>>

FinishSetup ==
    /\ phase = "resolve" /\ Len(plan) = Len(order)
    /\ phase' = "idle"
    /\ UNCHANGED <<graph, producer, indeg, ready, order, dep, planOnlyVars,
                   execOnlyVars>>
-----------------------------------------------------------------------------
(* run().                                                                  *)

\* The caller's tensors for B hold the values it binds in run r.
CallerHolds(B, r) ==
    /\ mem' = [c \in DOMAIN mem \cup UNION {{CallerCells(t, r)[j] : j \in 1 .. graph.bytes[t]} : t \in B} |->
                 IF c \in DOMAIN mem THEN mem[c] ELSE <<Bound(c[2], r), c[4]>>]
    /\ bound' = [t \in TensorIds |-> IF t \in B THEN r ELSE bound[t]]

\* The pool when the tensors of B share the caller's storage.
SharedWithCaller(B, r) ==
    [t \in TensorIds |-> IF t \in B THEN CallerCells(t, r) ELSE pool[t]]

\* What the bindings of B do in run r.
BindAll(B, r) == pool' = SharedWithCaller(B, r) /\ CallerHolds(B, r)

\* The caller binds inputs and weights, all of them the first time; later it
\* may bind fewer, and the pool keeps the others.
CallerBinds(B) == B \subseteq External /\ (\A t \in External \ B : bound[t] # 0)

BeginRun(B) ==
    /\ phase = "idle" /\ runs < MaxRuns
    /\ CallerBinds(B)
    /\ runs' = runs + 1
    /\ BindAll(B, runs + 1)
    /\ pc' = 0 /\ results' = <<>>
    /\ phase' = IF plan = <<>> THEN "return" ELSE "call"
    /\ UNCHANGED <<graph, producer, indeg, ready, order, dep, planOnlyVars,
                   allocator, plan>>

\* A binding of an unknown id throws in the middle of the loop.  The order of
\* an unordered_map is any order, so any part D of B may be bound by then.
BeginRunUnknown(B, D) ==
    /\ phase = "idle" /\ runs < MaxRuns
    /\ CallerBinds(B)
    /\ UnknownIds # {} /\ D \subseteq B
    /\ runs' = runs + 1
    /\ BindAll(D, runs + 1)
    /\ phase' = "threw" /\ results' = <<>>
    /\ UNCHANGED <<graph, producer, indeg, ready, order, dep, planOnlyVars,
                   allocator, plan, pc>>

\* The caller catches the exception; the executor can be used again.
CatchRun ==
    /\ phase = "threw"
    /\ phase' = "idle"
    /\ UNCHANGED <<graph, producer, indeg, ready, order, dep, planOnlyVars,
                   execOnlyVars>>

KernelBegin ==
    /\ phase = "call"
    /\ LET out == Outputs(plan[pc + 1])
       IN  mem' = Written(mem, out, [t \in out |-> Scratch])
    /\ phase' = "kernel"
    /\ UNCHANGED <<graph, producer, indeg, ready, order, dep, planOnlyVars,
                   allocator, pool, plan, pc, runs, bound, results>>

\* What the kernel of node i computes for its output tensor t, its inputs
\* being read from memory.
Result(i, t) ==
    Computed(i, CHOOSE k \in DOMAIN graph.outputs[i] : graph.outputs[i][k] = t,
             [k \in DOMAIN graph.inputs[i] |-> ValueIn(mem, pool[graph.inputs[i][k]])])

\* Mutant: the same step again and again.
KernelEndNoAdvance ==
    /\ phase = "kernel"
    /\ LET i == plan[pc + 1]
       IN  mem' = Written(mem, Outputs(i), [t \in Outputs(i) |-> Result(i, t)])
    /\ phase' = "call"
    /\ UNCHANGED <<graph, producer, indeg, ready, order, dep, planOnlyVars,
                   allocator, pool, plan, pc, runs, bound, results>>

\* Mutant: a kernel works in place, its first operand becomes its result.
KernelEndInPlace ==
    /\ phase = "kernel"
    /\ LET i == plan[pc + 1]
           over == Outputs(i) \cup {graph.inputs[i][1]}
       IN  mem' = Written(mem, over, [t \in over |-> Result(i, graph.outputs[i][1])])
    /\ pc' = pc + 1
    /\ phase' = IF pc + 1 = Len(plan) THEN "return" ELSE "call"
    /\ UNCHANGED <<graph, producer, indeg, ready, order, dep, planOnlyVars,
                   allocator, pool, plan, runs, bound, results>>

KernelEnd ==
    /\ phase = "kernel"
    /\ LET i == plan[pc + 1]
       IN  mem' = Written(mem, Outputs(i), [t \in Outputs(i) |-> Result(i, t)])
    /\ pc' = pc + 1
    /\ phase' = IF pc + 1 = Len(plan) THEN "return" ELSE "call"
    /\ UNCHANGED <<graph, producer, indeg, ready, order, dep, planOnlyVars,
                   allocator, pool, plan, runs, bound, results>>

\* The graph outputs are returned as Tensors that share the pool's storage.
ReturnOutputs ==
    /\ phase = "return"
    /\ results' = [k \in DOMAIN graph.results |-> pool[graph.results[k]]]
    /\ phase' = "returned"
    /\ UNCHANGED <<graph, producer, indeg, ready, order, dep, planOnlyVars,
                   allocator, pool, mem, plan, pc, runs, bound>>

\* The caller has looked at the results and may call again.
LeaveRun ==
    /\ phase = "returned"
    /\ phase' = "idle"
    /\ UNCHANGED <<graph, producer, indeg, ready, order, dep, planOnlyVars,
                   execOnlyVars>>
-----------------------------------------------------------------------------
\* plan_memory runs under the planned allocator only.
Planning == allocator = "planned" /\ PlanOnlyNext /\ UNCHANGED execOnlyVars

Sorting == SortNext /\ UNCHANGED <<planOnlyVars, execOnlyVars>>

\* What goes on by itself once the constructor or run() has been called.
ExecStep ==
    \/ Sorting \/ Planning
    \/ AllocateNaive \/ AllocatePlanned \/ ResolveKernel \/ FinishSetup
    \/ KernelBegin \/ KernelEnd \/ ReturnOutputs

Call == \E B \in SUBSET External :
            BeginRun(B) \/ \E D \in SUBSET B : BeginRunUnknown(B, D)

ExecDone ==
    /\ phase = "failed" \/ (phase = "idle" /\ runs = MaxRuns)
    /\ UNCHANGED execVars

ExecNext == ExecStep \/ Call \/ CatchRun \/ LeaveRun \/ ExecDone

ExecSpec == ExecInit /\ [][ExecNext]_execVars /\ WF_execVars(ExecStep)
-----------------------------------------------------------------------------
(* Properties.                                                             *)

\* What a tensor means: the binding in force, or what its producer computes
\* from the meaning of its inputs.  It is read off the graph; no order of
\* execution and no storage has a part in it.  A tensor without elements has
\* nothing to say.
Meaning ==
    LET val[t \in TensorIds] ==
          IF graph.bytes[t] = 0 THEN NoValue
          ELSE IF producer[t] = -1 THEN Bound(t, bound[t])
          ELSE LET i == producer[t]
               IN  Computed(i, CHOOSE k \in DOMAIN graph.outputs[i] :
                                   graph.outputs[i][k] = t,
                            [k \in DOMAIN graph.inputs[i] |-> val[graph.inputs[i][k]]])
    IN  val

InRun == phase \in {"call", "kernel", "return"}

\* The results of a run are what the graph computes from the bindings in
\* force, whichever allocator placed the tensors and whatever earlier runs,
\* finished or thrown out of, left in the pool (memory_test.cpp,
\* NaiveAndPlannedAgree; executor.h: outputs are handled identically under
\* both allocators; cuda_executor.cpp for the device).  What the device
\* returned stays when the executor is gone.
ResultsAreMeaning ==
    phase \in {"returned", "destroyed"} =>
        \A k \in DOMAIN results :
            ValueIn(mem, results[k]) = Meaning[graph.results[k]]

\* The tensor has its value by now and a later step, or the caller, still
\* needs it.
Needed(t) ==
    \/ t \in External /\ producer[t] = -1
    \/ /\ producer[t] # -1
       /\ Position(producer[t]) < pc
       /\ \/ t \notin Intermediates \/ allocator = "naive"
          \/ \E p \in pc + 1 .. Len(plan) :
                \E k \in DOMAIN graph.inputs[plan[p]] : graph.inputs[plan[p]][k] = t

\* While a run is going on, no kernel has written over a tensor that a later
\* kernel reads or the run returns: sharing the arena is invisible.
NeededTensorsIntact ==
    InRun => \A t \in TensorIds :
                Needed(t) => ValueIn(mem, pool[t]) = Meaning[t]

\* Two tensors of the pool share a cell only where the plan says they may:
\* both are intermediates, and their lifetimes do not overlap.
SharingIsPlanned ==
    phase \in {"idle", "call", "kernel", "return", "returned", "threw"} =>
        \A t, u \in TensorIds :
            t # u /\ (\E j \in DOMAIN pool[t], m \in DOMAIN pool[u] : pool[t][j] = pool[u][m])
                => /\ allocator # "naive"
                   /\ t \in Intermediates /\ u \in Intermediates
                   /\ live[t].last < live[u].first \/ live[u].last < live[t].first

\* Every run that begins returns or, on the device, throws.
RunReturns == InRun ~> phase \in {"returned", "threw"}
=============================================================================
