----------------------------- MODULE ThreadPool -----------------------------
(***************************************************************************)
(* The CPU thread pool (backends/cpu/thread_pool.{h,cpp}): one owner       *)
(* thread that calls parallel_for and at last destroys the pool, and the   *)
(* workers that run worker_loop.                                           *)
(*                                                                         *)
(* Grain of atomicity.  A block that holds mtx_ is one action, the test of *)
(* a wait predicate and the decision to sleep included, because            *)
(* condition_variable::wait releases the mutex and blocks in one step.     *)
(* What the code does without mtx_ is an action of its own: the two        *)
(* cv_.notify_all() calls, the load of fn_ctx_/fn_tramp_ by a worker that  *)
(* has already released the lock, and the run of the callable.  Both       *)
(* condition variables may wake spuriously.                                *)
(*                                                                         *)
(* fn_ctx holds the number of the call whose callable it points to, so a   *)
(* pointer to the stack frame of a call that has returned can be told from *)
(* a live one.                                                             *)
(***************************************************************************)
EXTENDS Integers, FiniteSets, Sequences

CONSTANTS
    NumThreads,            \* the constructor's argument; <= 0 means "ask"
    HardwareConcurrency,   \* what hardware_concurrency() answers, maybe 0
    MaxN,                  \* bound: the largest n given to parallel_for
    MaxCalls               \* bound: how many dispatching calls are made

ASSUME ConstantsAssumption ==
    /\ NumThreads \in Int
    /\ HardwareConcurrency \in Nat
    /\ MaxN \in Nat
    /\ MaxCalls \in Nat

\* The number of threads the constructor starts.
PoolSize ==
    LET asked == IF NumThreads > 0 THEN NumThreads ELSE HardwareConcurrency
    IN  IF asked < 1 THEN 1 ELSE asked

Workers == 1 .. PoolSize
Indices == 0 .. MaxN - 1

VARIABLES
    ranges,   \* ranges_: the chunks [b, e) of the latest dispatch
    next,     \* next_: how many of them have been claimed
    active,   \* active_: how many are running or unclaimed
    stop,     \* stop_
    fn_ctx,   \* fn_ctx_ and fn_tramp_: the call they belong to, 0 = nullptr
    wpc,      \* where each worker is in worker_loop
    range,    \* each worker's local variable range
    ctx,      \* the call whose callable each worker has loaded
    opc,      \* where the owner is
    n,        \* the argument n of the latest dispatching call
    calls,    \* how many dispatching calls have been made
    ran       \* history: how often the latest fn has been run on each index

poolVars == <<ranges, next, active, stop, fn_ctx>>
workerVars == <<wpc, range, ctx>>
ownerVars == <<opc, n, calls>>
vars == <<poolVars, workerVars, ownerVars, ran>>

WorkerPC == {"idle", "asleep", "claimed", "running", "finishing", "exited"}
OwnerPC == {"outside", "notify", "await", "blocked",
            "stopping", "joining", "destroyed"}

\* The owner has entered a dispatching parallel_for and not returned.
InCall == opc \in {"notify", "await", "blocked"}

Busy == {w \in Workers : wpc[w] \in {"claimed", "running", "finishing"}}

(***************************************************************************)
(* How [0, k) is split: chunk = ceil(k / t), chunks of that length and a   *)
(* shorter last one.                                                       *)
(***************************************************************************)
Chunk(k) == (k + PoolSize - 1) \div PoolSize

Split(k) ==
    [j \in 1 .. (k - 1) \div Chunk(k) + 1 |->
        <<(j - 1) * Chunk(k), IF j * Chunk(k) < k THEN j * Chunk(k) ELSE k>>]

IndicesOf(r) == r[1] .. r[2] - 1

Init ==
    /\ ranges = <<>> /\ next = 0 /\ active = 0
    /\ stop = FALSE /\ fn_ctx = 0
    /\ wpc = [w \in Workers |-> "idle"]
    /\ range = [w \in Workers |-> <<0, 0>>]
    /\ ctx = [w \in Workers |-> 0]
    /\ opc = "outside" /\ n = 0 /\ calls = 0
    /\ ran = [i \in Indices |-> 0]
-----------------------------------------------------------------------------
(* The owner: parallel_for, then the destructor.                           *)

\* Mutant: notify_one instead of notify_all.
NotifyOneWorker ==
    \/ \E w \in Workers : wpc[w] = "asleep" /\ wpc' = [wpc EXCEPT ![w] = "idle"]
    \/ (\A w \in Workers : wpc[w] # "asleep") /\ UNCHANGED wpc

NotifyAllWorkers ==
    wpc' = [w \in Workers |-> IF wpc[w] = "asleep" THEN "idle" ELSE wpc[w]]

\* Mutant: active_ counts the threads, not the ranges.
DispatchCountsThreads(k) ==
    /\ opc = "outside"
    /\ calls < MaxCalls
    /\ k > 0
    /\ calls' = calls + 1 /\ n' = k /\ fn_ctx' = calls + 1
    /\ ranges' = Split(k) /\ next' = 0 /\ active' = PoolSize
    /\ opc' = "notify"
    /\ ran' = [i \in Indices |-> 0]
    /\ UNCHANGED <<stop, workerVars>>

\* parallel_for(k, fn) up to the end of its critical section.  A call with
\* k <= 0 returns before the lock and changes nothing.
Dispatch(k) ==
    /\ opc = "outside"
    /\ calls < MaxCalls
    /\ k > 0
    /\ calls' = calls + 1
    /\ n' = k
    /\ fn_ctx' = calls + 1
    /\ ranges' = Split(k)
    /\ next' = 0
    /\ active' = Len(Split(k))
    /\ opc' = "notify"
    /\ ran' = [i \in Indices |-> 0]
    /\ UNCHANGED <<stop, workerVars>>

\* cv_.notify_all() after the lock is released.
NotifyWorkers ==
    /\ opc = "notify"
    /\ opc' = "await"
    /\ NotifyAllWorkers
    /\ UNCHANGED <<poolVars, range, ctx, n, calls, ran>>

\* Mutant: the call returns when every range is claimed.
AwaitAllClaimed ==
    /\ opc = "await"
    /\ next = Len(ranges)
    /\ opc' = "outside"
    /\ UNCHANGED <<poolVars, workerVars, n, calls, ran>>

\* done_cv_.wait tests its predicate under the lock: return, or sleep.
AwaitReturn ==
    /\ opc = "await"
    /\ active = 0
    /\ opc' = "outside"
    /\ UNCHANGED <<poolVars, workerVars, n, calls, ran>>

AwaitBlock ==
    /\ opc = "await"
    /\ active # 0
    /\ opc' = "blocked"
    /\ UNCHANGED <<poolVars, workerVars, n, calls, ran>>

OwnerSpuriousWake ==
    /\ opc = "blocked"
    /\ opc' = "await"
    /\ UNCHANGED <<poolVars, workerVars, n, calls, ran>>

\* ~ThreadPool: stop_ under the lock, then notify, then join every thread.
Destroy ==
    /\ opc = "outside"
    /\ stop' = TRUE
    /\ opc' = "stopping"
    /\ UNCHANGED <<ranges, next, active, fn_ctx, workerVars, n, calls, ran>>

NotifyStop ==
    /\ opc = "stopping"
    /\ opc' = "joining"
    /\ NotifyAllWorkers
    /\ UNCHANGED <<poolVars, range, ctx, n, calls, ran>>

Join ==
    /\ opc = "joining"
    /\ \A w \in Workers : wpc[w] = "exited"
    /\ opc' = "destroyed"
    /\ UNCHANGED <<poolVars, workerVars, n, calls, ran>>
-----------------------------------------------------------------------------
(* A worker.                                                               *)

\* Mutant: the increment of next_ is not protected and may be lost.
ClaimRacy(w) ==
    /\ wpc[w] = "idle"
    /\ next < Len(ranges)
    /\ range' = [range EXCEPT ![w] = ranges[next + 1]]
    /\ next' \in {next, next + 1}
    /\ wpc' = [wpc EXCEPT ![w] = "claimed"]
    /\ UNCHANGED <<ranges, active, stop, fn_ctx, ctx, ownerVars, ran>>

\* Under the lock with a range left: range = ranges_[next_++].
Claim(w) ==
    /\ wpc[w] = "idle"
    /\ next < Len(ranges)
    /\ range' = [range EXCEPT ![w] = ranges[next + 1]]
    /\ next' = next + 1
    /\ wpc' = [wpc EXCEPT ![w] = "claimed"]
    /\ UNCHANGED <<ranges, active, stop, fn_ctx, ctx, ownerVars, ran>>

\* The predicate is true because of stop_, and nothing is left: return.
Exit(w) ==
    /\ wpc[w] = "idle"
    /\ stop /\ next >= Len(ranges)
    /\ wpc' = [wpc EXCEPT ![w] = "exited"]
    /\ UNCHANGED <<poolVars, range, ctx, ownerVars, ran>>

\* The predicate is false: wait on cv_.
Sleep(w) ==
    /\ wpc[w] = "idle"
    /\ ~stop /\ next >= Len(ranges)
    /\ wpc' = [wpc EXCEPT ![w] = "asleep"]
    /\ UNCHANGED <<poolVars, range, ctx, ownerVars, ran>>

WorkerSpuriousWake(w) ==
    /\ wpc[w] = "asleep"
    /\ wpc' = [wpc EXCEPT ![w] = "idle"]
    /\ UNCHANGED <<poolVars, range, ctx, ownerVars, ran>>

\* fn_tramp_ and fn_ctx_ are loaded after the lock has been released.
Load(w) ==
    /\ wpc[w] = "claimed"
    /\ ctx' = [ctx EXCEPT ![w] = fn_ctx]
    /\ wpc' = [wpc EXCEPT ![w] = "running"]
    /\ UNCHANGED <<poolVars, range, ownerVars, ran>>

\* The callable runs on the claimed range.  ran counts for the callable of
\* the latest call only.
Run(w) ==
    /\ wpc[w] = "running"
    /\ ran' = [i \in Indices |->
                  IF i \in IndicesOf(range[w]) /\ ctx[w] = calls
                  THEN ran[i] + 1 ELSE ran[i]]
    /\ wpc' = [wpc EXCEPT ![w] = "finishing"]
    /\ UNCHANGED <<poolVars, range, ctx, ownerVars>>

\* Mutant: the last worker does not notify done_cv_.
FinishSilently(w) ==
    /\ wpc[w] = "finishing"
    /\ active' = active - 1
    /\ wpc' = [wpc EXCEPT ![w] = "idle"]
    /\ UNCHANGED <<ranges, next, stop, fn_ctx, range, ctx, ownerVars, ran>>

\* if (--active_ == 0) done_cv_.notify_all(), both under the lock.
Finish(w) ==
    /\ wpc[w] = "finishing"
    /\ active' = active - 1
    /\ wpc' = [wpc EXCEPT ![w] = "idle"]
    /\ opc' = IF active - 1 = 0 /\ opc = "blocked" THEN "await" ELSE opc
    /\ UNCHANGED <<ranges, next, stop, fn_ctx, range, ctx, n, calls, ran>>
-----------------------------------------------------------------------------
WorkerStep(w) ==
    Claim(w) \/ Exit(w) \/ Sleep(w) \/ Load(w) \/ Run(w) \/ Finish(w)

\* What the owner does once it is inside a call or inside the destructor.
OwnerStep == NotifyWorkers \/ AwaitReturn \/ AwaitBlock \/ NotifyStop \/ Join

\* The pool is gone: nothing more happens.
Destroyed == opc = "destroyed" /\ UNCHANGED vars

Next ==
    \/ \E k \in 1 .. MaxN : Dispatch(k)
    \/ OwnerStep
    \/ OwnerSpuriousWake
    \/ Destroy
    \/ \E w \in Workers : WorkerStep(w) \/ WorkerSpuriousWake(w)
    \/ Destroyed

Spec == Init /\ [][Next]_vars

\* The operating system runs every thread that can run, so each thread is
\* weakly fair.  Spurious wake-ups, new calls and the destructor may never
\* come.
Fairness == WF_vars(OwnerStep) /\ \A w \in Workers : WF_vars(WorkerStep(w))

FairSpec == Spec /\ Fairness
-----------------------------------------------------------------------------
(* Properties.                                                             *)

TypeOK ==
    /\ ranges \in Seq(Int \X Int)
    /\ next \in 0 .. Len(ranges)
    /\ active \in Nat
    /\ stop \in BOOLEAN
    /\ fn_ctx \in 0 .. MaxCalls
    /\ wpc \in [Workers -> WorkerPC]
    /\ range \in [Workers -> Int \X Int]
    /\ ctx \in [Workers -> 0 .. MaxCalls]
    /\ opc \in OwnerPC
    /\ n \in 0 .. MaxN
    /\ calls \in 0 .. MaxCalls
    /\ ran \in [Indices -> Nat]

\* Each chunk is run once and none is missing: while the owner is outside a
\* call, the last callable has run exactly once on every index of [0, n)
\* and never beyond it (thread_pool.h: "Blocks until all chunks finish").
\* Violating it takes a claim, a decrement or a wake-up in the wrong order.
ExactlyOnce ==
    ~InCall =>
        \A i \in Indices : ran[i] = IF i < n THEN 1 ELSE 0

\* thread_pool.h: "`fn` lives on the caller's stack for the (blocking)
\* duration, so storing a pointer to it is safe".  A worker between its
\* claim and its decrement keeps the caller inside the call, what it is about
\* to load or has loaded is the callable of that same call, and the unlocked
\* load therefore races with no store.
NoDanglingCallable ==
    \A w \in Busy :
        /\ InCall
        /\ fn_ctx = calls
        /\ wpc[w] \in {"running", "finishing"} => ctx[w] = calls

\* active_ is what its comment says: the ranges running or unclaimed.
ActiveCountsOpenRanges ==
    active = Cardinality(Busy) + (Len(ranges) - next)

\* No two workers ever work on the same index at once.
DisjointWork ==
    \A v, w \in Busy :
        v # w => IndicesOf(range[v]) \cap IndicesOf(range[w]) = {}

\* Nobody sleeps on a predicate that is true unless a notify_all is still to
\* come: for cv_ the one that follows the critical section of parallel_for or
\* of the destructor, for done_cv_ none, because it is called under the lock.
NoLostWakeup ==
    /\ \A w \in Workers :
          wpc[w] = "asleep" =>
              (next < Len(ranges) => opc = "notify")
              /\ (stop => opc = "stopping")
    /\ opc = "blocked" => active > 0

\* ranges_ and fn_ctx_ are replaced only when no worker holds a range of the
\* previous dispatch, and the previous dispatch is used up.
ReplacedOnlyWhenIdle ==
    [][(ranges' # ranges \/ fn_ctx' # fn_ctx)
          => Busy = {} /\ next = Len(ranges)]_vars

\* Why the properties above hold, as an inductive invariant.  The accounting
\* layer: active_ is exact, and zero whenever the owner is not inside a call.
AInv ==
    /\ TypeOK
    /\ ActiveCountsOpenRanges
    /\ ~InCall => active = 0
    /\ fn_ctx = calls
    /\ \A w \in Workers : wpc[w] \in {"running", "finishing"} => ctx[w] = calls

\* The ranges are the split of [0, n), or there has been no dispatch yet.
RangesFromSplit ==
    \/ n = 0 /\ ranges = <<>>
    \/ n > 0 /\ ranges = Split(n)

\* Index i lies in a range nobody has claimed.
Unclaimed(i) ==
    \E j \in next + 1 .. Len(ranges) : i \in IndicesOf(ranges[j])

\* Worker w has claimed a range with i in it, and has yet to run it.
Holds(w, i) == w \in Busy /\ i \in IndicesOf(range[w])
StillToRun(w, i) == Holds(w, i) /\ wpc[w] \in {"claimed", "running"}

\* The index layer: each index of [0, n) is unclaimed, held by one worker, or
\* done, and it has been run, once, when it is no longer to be run.
IndexInv ==
    /\ \A w \in Busy : IndicesOf(range[w]) \subseteq 0 .. n - 1
    /\ \A i \in Indices :
        /\ Unclaimed(i) => \A w \in Workers : ~Holds(w, i)
        /\ \A v, w \in Workers : Holds(v, i) /\ Holds(w, i) => v = w
        /\ ran[i] = IF \/ i >= n
                       \/ Unclaimed(i)
                       \/ \E w \in Workers : StillToRun(w, i)
                    THEN 0 ELSE 1

\* The inductive invariant: whatever interleaving led here, every index is
\* accounted for and every worker at work belongs to the call in progress.
IInv == AInv /\ RangesFromSplit /\ IndexInv

\* Once the destructor has begun, every worker exits and join returns.
ShutdownCompletes == (opc = "stopping") ~> (opc = "destroyed")

\* The pool implements the abstract parallel_for: what ran, in which call,
\* and when the call may return.
Abstract == INSTANCE ParallelFor WITH
    phase <- IF InCall THEN "inside"
             ELSE IF opc = "outside" THEN "outside" ELSE "closed"

RefinesParallelFor == Abstract!SafetySpec

\* The same with liveness: a dispatched call makes progress until it returns.
ImplementsParallelFor == Abstract!Spec
=============================================================================
