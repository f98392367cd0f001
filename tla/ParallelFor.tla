---------------------------- MODULE ParallelFor ----------------------------
(***************************************************************************)
(* What ThreadPool::parallel_for promises its caller, with no threads in   *)
(* it (backends/cpu/thread_pool.h, the comment above parallel_for): fn is  *)
(* run on every index of [0, n), on none of them twice, and the call       *)
(* returns only when all of them are done.  ThreadPool.tla implements it.  *)
(***************************************************************************)
EXTENDS Naturals

CONSTANTS
    MaxN,      \* bound: the largest n given to parallel_for
    MaxCalls   \* bound: how many dispatching calls are made

VARIABLES
    phase,   \* "outside" a call, "inside" one, or "closed" (pool destroyed)
    n,       \* the n of the latest call
    ran,     \* ran[i]: how often the latest call's fn has been run on i
    calls    \* how many calls have been made

vars == <<phase, n, ran, calls>>

Indices == 0 .. MaxN - 1

Init ==
    /\ phase = "outside"
    /\ n = 0
    /\ ran = [i \in Indices |-> 0]
    /\ calls = 0

\* The caller enters parallel_for(k, fn) with something to do.
Call(k) ==
    /\ phase = "outside"
    /\ calls < MaxCalls
    /\ phase' = "inside"
    /\ n' = k
    /\ ran' = [i \in Indices |-> 0]
    /\ calls' = calls + 1

\* A contiguous chunk of indices nobody has touched is run by somebody.
Work(b, e) ==
    /\ phase = "inside"
    /\ b < e /\ e <= n
    /\ \A i \in b .. e - 1 : ran[i] = 0
    /\ ran' = [i \in Indices |-> IF i \in b .. e - 1 THEN 1 ELSE ran[i]]
    /\ UNCHANGED <<phase, n, calls>>

\* The call returns once every index has been run.
Return ==
    /\ phase = "inside"
    /\ \A i \in 0 .. n - 1 : ran[i] = 1
    /\ phase' = "outside"
    /\ UNCHANGED <<n, ran, calls>>

\* The pool is destroyed, between calls only.
Close ==
    /\ phase = "outside"
    /\ phase' = "closed"
    /\ UNCHANGED <<n, ran, calls>>

Progress == Return \/ \E b, e \in 0 .. MaxN : Work(b, e)

Next == Progress \/ Close \/ \E k \in 1 .. MaxN : Call(k)

SafetySpec == Init /\ [][Next]_vars

Spec == SafetySpec /\ WF_vars(Progress)
=============================================================================
