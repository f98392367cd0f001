---------------------------- MODULE CudaExecutor -----------------------------
(***************************************************************************)
(* CudaExecutor (backends/cuda/cuda_executor.cpp): the whole graph on      *)
(* the device.  It is Executor with a third allocation: every input,       *)
(* weight and output has a buffer of its own, the intermediates are views  *)
(* of one arena laid out by the same planner.  Weights are uploaded once,  *)
(* by the constructor; a run uploads the one input, dispatches on the name *)
(* of each operator, and copies the one output into a vector of the host.  *)
(* The cells of Executor serve for device memory, cells "host" for what a  *)
(* run returns.                                                            *)
(***************************************************************************)
EXTENDS Executor

OnDevice == allocator = "device"
InputsOf(g) == {t \in DOMAIN g.kind : g.kind[t] = "input"}

\* cuda_executor.h: run() binds "the single graph input" and returns "the
\* single graph output"; every kernel writes its node's first output.
ForDevice(g) ==
    /\ Cardinality(InputsOf(g)) = 1 /\ Len(g.results) = 1
    /\ \A i \in DOMAIN g.outputs : Len(g.outputs[i]) = 1

CudaInit == ExecInit /\ (OnDevice => ForDevice(graph))

DevicePlanning == PlanOnlyNext /\ UNCHANGED execOnlyVars

\* The rest of the constructor, after plan_memory.
AllocateDevice ==
    /\ phase = "planned"
    /\ pool' = [t \in TensorIds |->
                  IF t \in Intermediates THEN ArenaCells(t) ELSE OwnCells(t)]
    /\ mem' = LET weights == {t \in TensorIds : graph.kind[t] = "weight"}
              IN  [c \in UNION {{OwnCells(t)[j] : j \in 1 .. graph.bytes[t]} : t \in weights}
                     |-> <<Bound(c[2], 0), c[3]>>]
    /\ plan' = order
    /\ phase' = "idle"
    /\ UNCHANGED <<graph, producer, indeg, ready, order, dep, planOnlyVars,
                   allocator, pc, runs, bound, results>>

\* run(): the input is copied into its buffer.  The order of the nodes is
\* computed again, with the same result.
Upload ==
    /\ phase = "idle" /\ runs < MaxRuns
    /\ runs' = runs + 1
    /\ mem' = Written(mem, InputsOf(graph), [t \in InputsOf(graph) |-> Bound(t, runs + 1)])
    /\ bound' = [t \in TensorIds |-> IF t \in InputsOf(graph) THEN runs + 1 ELSE bound[t]]
    /\ pc' = 0 /\ results' = <<>>
    /\ phase' = IF plan = <<>> THEN "return" ELSE "call"
    /\ UNCHANGED <<graph, producer, indeg, ready, order, dep, planOnlyVars,
                   allocator, pool, plan>>

\* An operator is found to be unsupported only when its turn has come.
LaunchKernel == phase = "call" /\ plan[pc + 1] \notin Unregistered /\ KernelBegin

RejectKernel ==
    /\ phase = "call" /\ plan[pc + 1] \in Unregistered
    /\ phase' = "threw"
    /\ UNCHANGED <<graph, producer, indeg, ready, order, dep, planOnlyVars, execOnlyVars>>

HostCells(t) == [j \in 1 .. graph.bytes[t] |-> <<"host", t, runs, j>>]

\* Mutant: the caller is handed the buffer itself.
DownloadNothing ==
    /\ phase = "return"
    /\ results' = <<pool[graph.results[1]]>>
    /\ phase' = "returned"
    /\ UNCHANGED <<graph, producer, indeg, ready, order, dep, planOnlyVars,
                   allocator, pool, mem, plan, pc, runs, bound>>

Download ==
    /\ phase = "return"
    /\ LET t == graph.results[1]
       IN  /\ results' = <<HostCells(t)>>
           /\ mem' = [c \in DOMAIN mem \cup {HostCells(t)[j] : j \in DOMAIN pool[t]} |->
                        IF c \in DOMAIN mem THEN mem[c] ELSE mem[pool[t][c[4]]]]
    /\ phase' = "returned"
    /\ UNCHANGED <<graph, producer, indeg, ready, order, dep, planOnlyVars,
                   allocator, pool, plan, pc, runs, bound>>

\* The destructor: the owned buffers and the arena.
Destroy ==
    /\ phase = "idle"
    /\ pool' = [t \in TensorIds |-> <<>>]
    /\ mem' = [c \in {x \in DOMAIN mem : x[1] = "host"} |-> mem[c]]
    /\ phase' = "destroyed"
    /\ UNCHANGED <<graph, producer, indeg, ready, order, dep, planOnlyVars,
                   allocator, plan, pc, runs, bound, results>>
-----------------------------------------------------------------------------
DeviceStep ==
    \/ Sorting \/ DevicePlanning \/ AllocateDevice
    \/ LaunchKernel \/ RejectKernel \/ KernelEnd \/ Download

DeviceNext == DeviceStep \/ Upload \/ CatchRun \/ LeaveRun \/ Destroy

CudaStep == (~OnDevice /\ ExecStep) \/ (OnDevice /\ DeviceStep)
CudaNext ==
    \/ ~OnDevice /\ ExecNext
    \/ OnDevice /\ DeviceNext
    \/ OnDevice /\ phase \in {"failed", "destroyed"} /\ UNCHANGED execVars

CudaSpec == CudaInit /\ [][CudaNext]_execVars /\ WF_execVars(CudaStep)
-----------------------------------------------------------------------------
(* What an executor promises (Evaluator).                                  *)

Status ==
    IF phase = "failed" THEN "failed"
    ELSE IF InRun THEN "running"
    ELSE IF phase \in {"idle", "returned", "threw"} THEN "ready"
    ELSE IF phase = "destroyed" THEN "gone"
    ELSE "building"

\* What the caller gives: inputs and weights that no node writes.
Sources ==
    {t \in External : \A i \in DOMAIN graph.outputs :
                         \A k \in DOMAIN graph.outputs[i] : graph.outputs[i][k] # t}

Abstract == INSTANCE Evaluator WITH
    status <- Status,
    given <- [t \in Sources |-> ValueIn(mem, pool[t])],
    answer <- [k \in DOMAIN results |-> ValueIn(mem, results[k])],
    calls <- runs

\* Both executors implement Evaluator: what lies in memory for the inputs and
\* weights, the caller's own storage on the CPU, changes in calls only, whole
\* values at a time, also when a call throws; no kernel touches it; a call
\* answers with what the graph computes from it; and what was returned, which
\* on the CPU shares the pool's storage, stays as it is until the next call,
\* on the device also after the executor (executor.h:44, executor.cpp:128-133
\* and 159-165, cuda_executor.cpp).
RefinesEvaluator == Abstract!SafetySpec
=============================================================================
