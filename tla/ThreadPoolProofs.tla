-------------------------- MODULE ThreadPoolProofs --------------------------
(***************************************************************************)
(* Theorems about the thread pool for every pool size, every n and every   *)
(* number of calls.  The argument has two layers.  The accounting layer    *)
(* (AInv) ties active_ to the ranges that are open and shows that no       *)
(* worker outlives the call whose callable it runs.  The index layer       *)
(* (IInv) follows each index of [0, n) from unclaimed, through the one     *)
(* worker that holds it, to run exactly once.                              *)
(***************************************************************************)
EXTENDS ThreadPool, FiniteSetTheorems, TLAPS

-----------------------------------------------------------------------------
(* Splitting [0, k).                                                       *)

\* The pool has at least one thread, whatever the constructor was given.
LEMMA PoolSizePos == PoolSize \in Nat /\ PoolSize >= 1
  BY ConstantsAssumption DEF PoolSize

\* Workers are finitely many.
LEMMA WorkersFinite == IsFiniteSet(Workers)
  BY PoolSizePos, FS_Interval DEF Workers

\* Rounding up a positive n gives a positive chunk length.
LEMMA ChunkPos ==
  ASSUME NEW k \in Nat, k > 0
  PROVE  Chunk(k) \in Nat /\ Chunk(k) >= 1
<1>1. PoolSize \in Nat /\ PoolSize >= 1 BY PoolSizePos
<1>2. k + PoolSize - 1 >= PoolSize BY <1>1
<1> DEFINE q == (k + PoolSize - 1) \div PoolSize
<1>3. q \in Int /\ k + PoolSize - 1 < PoolSize * (q + 1)
  BY <1>1, SMTT(30)
<1>4. q >= 1
  <2>1. CASE q <= 0
    <3>1. PoolSize * (q + 1) <= PoolSize BY <2>1, <1>1, <1>3, SMTT(30)
    <3> QED BY <3>1, <1>1, <1>2, <1>3
  <2> QED BY <2>1, <1>3
<1> QED BY <1>3, <1>4 DEF Chunk

\* What Split returns is a sequence of pairs of integers.
LEMMA SplitType ==
  ASSUME NEW k \in Nat, k > 0
  PROVE  /\ Split(k) \in Seq(Int \X Int)
         /\ Len(Split(k)) = (k - 1) \div Chunk(k) + 1
         /\ Len(Split(k)) \in Nat
<1> DEFINE c == Chunk(k)
<1> DEFINE m == (k - 1) \div c + 1
<1>1. c \in Nat /\ c >= 1 BY ChunkPos
<1> HIDE DEF c
<1>2. m \in Nat BY <1>1, SMTT(30)
<1> HIDE DEF m
<1>3. \A j \in 1 .. m :
        <<(j - 1) * c, IF j * c < k THEN j * c ELSE k>> \in Int \X Int
  BY <1>1, <1>2
<1>4. Split(k) = [j \in 1 .. m |->
                    <<(j - 1) * c, IF j * c < k THEN j * c ELSE k>>]
  BY DEF Split, c, m
<1> QED BY <1>2, <1>3, <1>4 DEF m, c

\* Every chunk lies within [0, k).
LEMMA SplitWithin ==
  ASSUME NEW k \in Nat, k > 0, NEW j \in 1 .. Len(Split(k))
  PROVE  IndicesOf(Split(k)[j]) \subseteq 0 .. k - 1
<1> DEFINE c == Chunk(k)
<1>1. c \in Nat /\ c >= 1 BY ChunkPos
<1>2. Len(Split(k)) = (k - 1) \div Chunk(k) + 1 /\ Len(Split(k)) \in Nat
  BY SplitType
<1>3. Split(k)[j] = <<(j - 1) * c, IF j * c < k THEN j * c ELSE k>>
  BY <1>2 DEF Split
<1> HIDE DEF c
<1>4. (j - 1) * c \in Nat /\ j * c \in Nat BY <1>1, <1>2, SMTT(30)
<1> QED BY <1>3, <1>4, <1>1 DEF IndicesOf

\* Two different chunks share no index.
LEMMA SplitDisjoint ==
  ASSUME NEW k \in Nat, k > 0,
         NEW i \in 1 .. Len(Split(k)), NEW j \in 1 .. Len(Split(k)), i < j
  PROVE  IndicesOf(Split(k)[i]) \cap IndicesOf(Split(k)[j]) = {}
<1> DEFINE c == Chunk(k)
<1>1. c \in Nat /\ c >= 1 BY ChunkPos
<1>2. Len(Split(k)) = (k - 1) \div Chunk(k) + 1 /\ Len(Split(k)) \in Nat
  BY SplitType
<1>3. /\ Split(k)[i] = <<(i - 1) * c, IF i * c < k THEN i * c ELSE k>>
      /\ Split(k)[j] = <<(j - 1) * c, IF j * c < k THEN j * c ELSE k>>
  BY <1>2 DEF Split
<1> HIDE DEF c
<1>4. i * c \in Nat /\ (j - 1) * c \in Nat /\ j * c \in Nat /\ (i - 1) * c \in Nat
  BY <1>1, <1>2, SMTT(30)
<1>5. i * c <= (j - 1) * c BY <1>1, <1>2, SMTT(30)
<1> QED BY <1>3, <1>4, <1>5, <1>1 DEF IndicesOf

\* Every index of [0, k) is in some chunk.
LEMMA SplitCovers ==
  ASSUME NEW k \in Nat, k > 0, NEW i \in 0 .. k - 1
  PROVE  \E j \in 1 .. Len(Split(k)) : i \in IndicesOf(Split(k)[j])
<1> DEFINE c == Chunk(k)
<1> DEFINE j == i \div c + 1
<1>1. c \in Nat /\ c >= 1 BY ChunkPos
<1>2. Len(Split(k)) = (k - 1) \div c + 1 BY SplitType
<1> HIDE DEF c
<1>3. i \div c \in Nat /\ (i \div c) * c <= i /\ i < (i \div c + 1) * c
  BY <1>1, SMTT(30)
<1>4. i \div c <= (k - 1) \div c BY <1>1, SMTT(30)
<1>5. j \in 1 .. Len(Split(k)) BY <1>2, <1>3, <1>4, <1>1, SMTT(30)
<1>6. Split(k)[j] = <<(j - 1) * c, IF j * c < k THEN j * c ELSE k>>
  BY <1>2, <1>5 DEF Split, c
<1>7. j - 1 = i \div c BY <1>3
<1>8. i \in IndicesOf(Split(k)[j]) BY <1>3, <1>6, <1>7, <1>1, SMTT(30) DEF IndicesOf
<1> QED BY <1>5, <1>8
-----------------------------------------------------------------------------
(* The accounting layer.                                                   *)

\* The workers at work are finitely many, and there are none exactly when
\* their number is zero.
LEMMA BusyFinite ==
  /\ IsFiniteSet(Busy)
  /\ Cardinality(Busy) \in Nat
  /\ Cardinality(Busy) = 0 <=> Busy = {}
<1>1. Busy \subseteq Workers BY DEF Busy
<1>2. IsFiniteSet(Busy) BY <1>1, WorkersFinite, FS_Subset
<1> QED BY <1>2, FS_CardinalityType, FS_EmptySet

\* While no worker is at work the owner is outside a call only with every
\* range claimed, and conversely: the arithmetic both layers need.
LEMMA OutsideMeansIdle ==
  ASSUME AInv, active = 0
  PROVE  Busy = {} /\ next = Len(ranges)
<1>1. /\ active = Cardinality(Busy) + (Len(ranges) - next)
      /\ next \in 0 .. Len(ranges) /\ Len(ranges) \in Nat
  BY DEF AInv, TypeOK, ActiveCountsOpenRanges
<1>2. Cardinality(Busy) \in Nat /\ active = 0 BY BusyFinite
<1>3. Cardinality(Busy) = 0 /\ next = Len(ranges) BY <1>1, <1>2
<1> QED BY <1>3, BusyFinite

\* The accounting invariant holds before anything has happened.
LEMMA AInvInit == Init => AInv
<1> SUFFICES ASSUME Init PROVE AInv
  OBVIOUS
<1>1. TypeOK
  <2>1. ranges = <<>> /\ ranges \in Seq(Int \X Int) /\ Len(ranges) = 0
    BY DEF Init
  <2>2. <<0, 0>> \in Int \X Int OBVIOUS
  <2>3. range \in [Workers -> Int \X Int] BY <2>2 DEF Init
  <2>4. wpc \in [Workers -> WorkerPC] /\ opc \in OwnerPC
    BY DEF Init, WorkerPC, OwnerPC
  <2>5. ctx \in [Workers -> 0 .. MaxCalls]
    BY ConstantsAssumption DEF Init
  <2>6. ran \in [Indices -> Nat] BY DEF Init
  <2>7. stop \in BOOLEAN BY DEF Init
  <2>8. /\ next = 0 /\ active = 0 /\ fn_ctx = 0 /\ n = 0 /\ calls = 0
    BY DEF Init
  <2>9. /\ next \in 0 .. Len(ranges) /\ active \in Nat
        /\ fn_ctx \in 0 .. MaxCalls /\ n \in 0 .. MaxN /\ calls \in 0 .. MaxCalls
    BY <2>1, <2>8, ConstantsAssumption
  <2> QED BY <2>1, <2>3, <2>4, <2>5, <2>6, <2>7, <2>9 DEF TypeOK
<1>2. Busy = {} BY DEF Init, Busy
<1>3. ActiveCountsOpenRanges
  BY <1>2, FS_EmptySet DEF Init, ActiveCountsOpenRanges
<1> QED BY <1>1, <1>3 DEF Init, AInv, InCall

\* Every step of the owner and of the workers keeps the accounting invariant.
LEMMA AInvNext == AInv /\ [Next]_vars => AInv'
<1> SUFFICES ASSUME AInv, [Next]_vars
             PROVE  AInv'
  OBVIOUS
<1> USE DEF AInv
<1>t. /\ ranges \in Seq(Int \X Int) /\ Len(ranges) \in Nat
      /\ next \in 0 .. Len(ranges) /\ active \in Nat
      /\ calls \in 0 .. MaxCalls /\ n \in 0 .. MaxN
      /\ wpc \in [Workers -> WorkerPC] /\ opc \in OwnerPC
      /\ active = Cardinality(Busy) + (Len(ranges) - next)
  BY DEF TypeOK, ActiveCountsOpenRanges
<1>c. MaxN \in Nat /\ MaxCalls \in Nat BY ConstantsAssumption
<1>1. ASSUME NEW k \in 1 .. MaxN, Dispatch(k) PROVE AInv'
  <2>1. active = 0 BY <1>1 DEF Dispatch, InCall
  <2>2. Busy = {} BY <2>1, OutsideMeansIdle
  <2>3. Busy' = {} BY <1>1, <2>2 DEF Dispatch, Busy, workerVars
  <2>4. /\ ranges' \in Seq(Int \X Int) /\ Len(ranges') \in Nat
        /\ active' = Len(ranges')
    BY <1>1, <1>c, SplitType DEF Dispatch
  <2>5. ActiveCountsOpenRanges'
    BY <1>1, <2>3, <2>4, FS_EmptySet DEF Dispatch, ActiveCountsOpenRanges
  <2>6. TypeOK'
    BY <1>1, <1>c, <1>t, <2>4
       DEF Dispatch, TypeOK, workerVars, OwnerPC
  <2>7. \A w \in Workers : wpc'[w] \notin {"running", "finishing"}
    BY <2>3 DEF Busy
  <2> QED BY <1>1, <2>5, <2>6, <2>7 DEF Dispatch, InCall
<1>2. ASSUME \/ NotifyWorkers \/ NotifyStop PROVE AInv'
  <2>1. /\ \A w \in Workers : wpc'[w] = IF wpc[w] = "asleep" THEN "idle" ELSE wpc[w]
        /\ wpc' \in [Workers -> WorkerPC]
        /\ UNCHANGED <<poolVars, range, ctx, n, calls, ran>>
    BY <1>2, <1>t DEF NotifyWorkers, NotifyStop, NotifyAllWorkers, WorkerPC
  <2>2. Busy' = Busy BY <2>1 DEF Busy
  <2>3. TypeOK'
    BY <1>2, <2>1 DEF TypeOK, NotifyWorkers, NotifyStop, OwnerPC, poolVars
  <2>4. ActiveCountsOpenRanges'
    BY <2>1, <2>2 DEF ActiveCountsOpenRanges, poolVars
  <2>5. ~InCall' => active' = 0
    BY <1>2, <2>1 DEF InCall, NotifyWorkers, NotifyStop, poolVars
  <2> QED BY <2>1, <2>3, <2>4, <2>5 DEF poolVars
<1>3. ASSUME AwaitReturn \/ AwaitBlock \/ OwnerSpuriousWake \/ Destroy \/ Join
      PROVE  AInv'
  <2>1. UNCHANGED <<ranges, next, active, fn_ctx, workerVars, n, calls, ran>>
    BY <1>3
       DEF AwaitReturn, AwaitBlock, OwnerSpuriousWake, Destroy, Join, poolVars
  <2>2. Busy' = Busy BY <2>1 DEF Busy, workerVars
  <2>3. TypeOK'
    BY <1>3, <2>1
       DEF AwaitReturn, AwaitBlock, OwnerSpuriousWake, Destroy, Join,
           poolVars, TypeOK, workerVars, OwnerPC
  <2>4. ActiveCountsOpenRanges'
    BY <2>1, <2>2 DEF ActiveCountsOpenRanges
  <2>5. ~InCall' => active' = 0
    BY <1>3, <2>1
       DEF InCall, AwaitReturn, AwaitBlock, OwnerSpuriousWake, Destroy, Join
  <2> QED BY <2>1, <2>3, <2>4, <2>5 DEF workerVars
<1>4. ASSUME NEW w \in Workers, Claim(w) PROVE AInv'
  <2>1. Busy' = Busy \cup {w} /\ w \notin Busy
    BY <1>4, <1>t DEF Claim, Busy
  <2>2. Cardinality(Busy') = Cardinality(Busy) + 1
    BY <2>1, BusyFinite, FS_AddElement
  <2>3. ranges[next + 1] \in Int \X Int /\ next' \in 0 .. Len(ranges)
    BY <1>4, <1>t DEF Claim
  <2>4. TypeOK'
    BY <1>4, <1>t, <2>3 DEF Claim, TypeOK, WorkerPC, ownerVars
  <2>5. ActiveCountsOpenRanges'
    BY <1>4, <1>t, <2>2, BusyFinite DEF Claim, ActiveCountsOpenRanges
  <2> QED BY <1>4, <1>t, <2>4, <2>5 DEF Claim, ownerVars, InCall
<1>5. ASSUME NEW w \in Workers, Exit(w) \/ Sleep(w) \/ WorkerSpuriousWake(w)
      PROVE  AInv'
  <2>1. UNCHANGED <<poolVars, range, ctx, ownerVars, ran>>
    BY <1>5 DEF Exit, Sleep, WorkerSpuriousWake
  <2>2. /\ wpc' \in [Workers -> WorkerPC]
        /\ \A v \in Workers : /\ wpc'[v] # wpc[v] => v = w
                              /\ wpc[w] \notin {"claimed", "running", "finishing"}
                              /\ wpc'[w] \notin {"claimed", "running", "finishing"}
    BY <1>5, <1>t DEF Exit, Sleep, WorkerSpuriousWake, WorkerPC
  <2>3. Busy' = Busy BY <2>2 DEF Busy
  <2>4. TypeOK' BY <2>1, <2>2 DEF TypeOK, poolVars, ownerVars
  <2>5. ActiveCountsOpenRanges'
    BY <2>1, <2>3 DEF ActiveCountsOpenRanges, poolVars
  <2> QED BY <2>1, <2>2, <2>4, <2>5 DEF poolVars, ownerVars, InCall
<1>6. ASSUME NEW w \in Workers, Load(w) PROVE AInv'
  <2>1. Busy' = Busy BY <1>6, <1>t DEF Load, Busy
  <2>2. TypeOK'
    BY <1>6, <1>t DEF Load, TypeOK, WorkerPC, poolVars, ownerVars
  <2>3. ActiveCountsOpenRanges'
    BY <1>6, <2>1 DEF Load, ActiveCountsOpenRanges, poolVars
  <2>4. \A v \in Workers : wpc'[v] \in {"running", "finishing"} => ctx'[v] = calls'
    BY <1>6, <1>t DEF Load, TypeOK, ownerVars
  <2> QED BY <1>6, <2>2, <2>3, <2>4 DEF Load, poolVars, ownerVars, InCall
<1>7. ASSUME NEW w \in Workers, Run(w) PROVE AInv'
  <2>1. Busy' = Busy BY <1>7, <1>t DEF Run, Busy
  <2>2. ran' \in [Indices -> Nat] BY <1>7 DEF Run, TypeOK
  <2>3. TypeOK'
    BY <1>7, <1>t, <2>2 DEF Run, TypeOK, WorkerPC, poolVars, ownerVars
  <2>4. ActiveCountsOpenRanges'
    BY <1>7, <2>1 DEF Run, ActiveCountsOpenRanges, poolVars
  <2>5. \A v \in Workers : wpc'[v] \in {"running", "finishing"} => ctx'[v] = calls'
    BY <1>7, <1>t DEF Run, ownerVars
  <2> QED BY <1>7, <2>3, <2>4, <2>5 DEF Run, poolVars, ownerVars, InCall
<1>8. ASSUME NEW w \in Workers, Finish(w) PROVE AInv'
  <2>1. Busy' = Busy \ {w} /\ w \in Busy
    BY <1>8, <1>t DEF Finish, Busy
  <2>2. Cardinality(Busy') = Cardinality(Busy) - 1
    BY <2>1, BusyFinite, FS_RemoveElement
  <2>3. Cardinality(Busy) >= 1 /\ Cardinality(Busy) \in Nat
    BY <2>1, BusyFinite
  <2>4. active >= 1 BY <2>3, <1>t
  <2>5. InCall BY <2>4
  <2>6. TypeOK'
    BY <1>8, <1>t, <2>4 DEF Finish, TypeOK, WorkerPC, OwnerPC
  <2>7. ActiveCountsOpenRanges'
    BY <1>8, <1>t, <2>2, <2>3 DEF Finish, ActiveCountsOpenRanges
  <2>8. InCall' BY <1>8, <2>5 DEF Finish, InCall
  <2>9. \A v \in Workers : wpc'[v] \in {"running", "finishing"} => ctx'[v] = calls'
    BY <1>8, <1>t DEF Finish
  <2> QED BY <1>8, <2>6, <2>7, <2>8, <2>9 DEF Finish
<1>9. CASE Destroyed \/ UNCHANGED vars
  <2>1. UNCHANGED vars BY <1>9 DEF Destroyed
  <2> QED
    BY <2>1 DEF vars, poolVars, workerVars, ownerVars, TypeOK,
                ActiveCountsOpenRanges, Busy, InCall
<1> QED
  BY <1>1, <1>2, <1>3, <1>4, <1>5, <1>6, <1>7, <1>8, <1>9
     DEF Next, OwnerStep, WorkerStep

\* The accounting invariant holds in every reachable state.
THEOREM AccountingInvariant == Spec => []AInv
  BY AInvInit, AInvNext, PTL DEF Spec

\* Type correctness, for every pool size and every sequence of calls.
THEOREM TypeCorrect == Spec => []TypeOK
<1>1. AInv => TypeOK BY DEF AInv
<1> QED BY <1>1, AccountingInvariant, PTL

\* active_ counts the ranges running or unclaimed (thread_pool.h, line 76).
THEOREM ActiveIsExact == Spec => []ActiveCountsOpenRanges
<1>1. AInv => ActiveCountsOpenRanges BY DEF AInv
<1> QED BY <1>1, AccountingInvariant, PTL

\* A worker between its claim and its decrement only ever holds the callable
\* of a caller that is still blocked in the same parallel_for.
THEOREM CallableNeverDangles == Spec => []NoDanglingCallable
<1>1. AInv => NoDanglingCallable
  <2> SUFFICES ASSUME AInv, NEW w \in Busy
               PROVE  /\ InCall
                      /\ fn_ctx = calls
                      /\ wpc[w] \in {"running", "finishing"} => ctx[w] = calls
    BY DEF NoDanglingCallable
  <2>1. active # 0 BY OutsideMeansIdle
  <2> QED BY <2>1 DEF AInv, Busy
<1> QED BY <1>1, AccountingInvariant, PTL

\* The plan of a dispatch is replaced only when nobody works on the old one.
THEOREM PlanReplacedOnlyWhenIdle == Spec => ReplacedOnlyWhenIdle
<1>1. AInv /\ [Next]_vars
        => [(ranges' # ranges \/ fn_ctx' # fn_ctx)
               => Busy = {} /\ next = Len(ranges)]_vars
  <2> SUFFICES ASSUME AInv, Next, ranges' # ranges \/ fn_ctx' # fn_ctx
               PROVE  Busy = {} /\ next = Len(ranges)
    BY DEF vars, poolVars
  <2>1. \E k \in 1 .. MaxN : Dispatch(k)
    BY DEF Next, OwnerStep, WorkerStep, NotifyWorkers, AwaitReturn, AwaitBlock,
           OwnerSpuriousWake, Destroy, NotifyStop, Join, Claim, Exit, Sleep,
           WorkerSpuriousWake, Load, Run, Finish, Destroyed, vars, poolVars
  <2>2. active = 0 BY <2>1 DEF Dispatch, AInv, InCall
  <2> QED BY <2>2, OutsideMeansIdle
<1> QED BY <1>1, AccountingInvariant, PTL DEF Spec, ReplacedOnlyWhenIdle
-----------------------------------------------------------------------------
(* The index layer.                                                        *)

\* The facts about the ranges that the steps below use, in one place.
LEMMA RangesFacts ==
  ASSUME n \in Nat, RangesFromSplit
  PROVE  /\ Len(ranges) \in Nat
         /\ \A j \in 1 .. Len(ranges) :
               /\ ranges[j] \in Int \X Int
               /\ IndicesOf(ranges[j]) \subseteq 0 .. n - 1
         /\ \A i, j \in 1 .. Len(ranges) :
               i # j => IndicesOf(ranges[i]) \cap IndicesOf(ranges[j]) = {}
         /\ \A i \in 0 .. n - 1 :
               \E j \in 1 .. Len(ranges) : i \in IndicesOf(ranges[j])
<1>1. CASE n = 0 /\ ranges = <<>>
  BY <1>1
<1>2. CASE n > 0 /\ ranges = Split(n)
  <2>1. Len(ranges) \in Nat /\ ranges \in Seq(Int \X Int) BY <1>2, SplitType
  <2>2. \A j \in 1 .. Len(ranges) :
               /\ ranges[j] \in Int \X Int
               /\ IndicesOf(ranges[j]) \subseteq 0 .. n - 1
    BY <1>2, <2>1, SplitWithin
  <2>3. ASSUME NEW i \in 1 .. Len(ranges), NEW j \in 1 .. Len(ranges), i # j
        PROVE  IndicesOf(ranges[i]) \cap IndicesOf(ranges[j]) = {}
    <3>1. CASE i < j BY <3>1, <1>2, SplitDisjoint
    <3>2. CASE j < i
      <4>1. IndicesOf(ranges[j]) \cap IndicesOf(ranges[i]) = {}
        BY <3>2, <1>2, SplitDisjoint
      <4> QED BY <4>1
    <3> QED BY <3>1, <3>2, <2>3
  <2>4. \A i \in 0 .. n - 1 :
               \E j \in 1 .. Len(ranges) : i \in IndicesOf(ranges[j])
    BY <1>2, SplitCovers
  <2> QED BY <2>1, <2>2, <2>3, <2>4
<1> QED BY <1>1, <1>2 DEF RangesFromSplit

\* Before the first dispatch there is no index to account for.
LEMMA IInvInit == Init => IInv
<1> SUFFICES ASSUME Init PROVE IInv
  OBVIOUS
<1>1. AInv BY AInvInit
<1>2. Len(ranges) = 0 /\ next = 0 /\ n = 0 BY DEF Init
<1>3. \A w \in Workers : w \notin Busy BY DEF Init, Busy
<1>4. \A i \in Indices : ran[i] = 0 BY DEF Init
<1>5. RangesFromSplit BY DEF Init, RangesFromSplit
<1>6. IndexInv
  <2>1. \A w \in Busy : FALSE BY <1>3 DEF Busy
  <2>2. \A i \in Indices : /\ ~Unclaimed(i)
                           /\ \A w \in Workers : ~Holds(w, i) /\ ~StillToRun(w, i)
    BY <1>2, <2>1 DEF Unclaimed, Holds, StillToRun
  <2>3. \A i \in Indices : i >= n BY <1>2, ConstantsAssumption DEF Indices
  <2> QED BY <1>4, <2>1, <2>2, <2>3 DEF IndexInv
<1> QED BY <1>1, <1>5, <1>6 DEF IInv

\* A step that leaves the ranges, the claims and the history alone, and moves
\* no worker in or out of work or past the run, keeps IndexInv.
LEMMA IndexInvFrame ==
  ASSUME IndexInv,
         UNCHANGED <<ranges, next, n, range, ran>>,
         \A w \in Workers :
            /\ w \in Busy' <=> w \in Busy
            /\ wpc'[w] \in {"claimed", "running"} <=> wpc[w] \in {"claimed", "running"}
  PROVE  IndexInv'
<1>1. \A i \in Indices : Unclaimed(i)' <=> Unclaimed(i) BY DEF Unclaimed
<1>2. \A i \in Indices : \A w \in Workers : Holds(w, i)' <=> Holds(w, i) BY DEF Holds
<1>3. \A i \in Indices : \A w \in Workers : StillToRun(w, i)' <=> StillToRun(w, i)
  BY DEF StillToRun, Holds
<1>4. \A w \in Workers : w \in Busy' =>
         IndicesOf(range'[w]) \subseteq 0 .. n' - 1
  BY DEF IndexInv, Busy
<1> QED BY <1>1, <1>2, <1>3, <1>4, ZenonT(30) DEF IndexInv, Busy

\* A dispatch leaves every index of the new [0, n) unclaimed, and none run.
LEMMA IndexInvDispatch ==
  ASSUME IInv, NEW k \in 1 .. MaxN, Dispatch(k)
  PROVE  RangesFromSplit' /\ IndexInv'
<1>1. Busy = {} BY OutsideMeansIdle DEF IInv, AInv, Dispatch, InCall
<1>2. Busy' = {} BY <1>1 DEF Dispatch, Busy, workerVars
<1>3. /\ n' = k /\ n' \in Nat /\ ranges' = Split(n') /\ next' = 0
      /\ \A i \in Indices : ran'[i] = 0
  BY ConstantsAssumption DEF Dispatch
<1>4. RangesFromSplit' BY <1>3 DEF RangesFromSplit
<1>5. \A w \in Workers, i \in Indices : ~Holds(w, i)' /\ ~StillToRun(w, i)'
  BY <1>2 DEF Holds, StillToRun
<1>6. \A i \in Indices : i >= n' \/ Unclaimed(i)'
  <2> SUFFICES ASSUME NEW i \in Indices, i < n' PROVE Unclaimed(i)'
    BY <1>3 DEF Indices
  <2>1. i \in 0 .. k - 1 BY <1>3 DEF Indices
  <2>2. \E j \in 1 .. Len(Split(k)) : i \in IndicesOf(Split(k)[j])
    BY <2>1, SplitCovers
  <2>3. \E j \in next' + 1 .. Len(ranges') : i \in IndicesOf(ranges'[j])
    BY <2>2, <1>3
  <2> QED BY <2>3 DEF Unclaimed, IndicesOf
<1>7. IndexInv' BY <1>2, <1>3, <1>5, <1>6 DEF IndexInv
<1> QED BY <1>4, <1>7

\* A claim moves the indices of one range from unclaimed to held.
LEMMA IndexInvClaim ==
  ASSUME IInv, NEW w \in Workers, Claim(w)
  PROVE  IndexInv'
<1> DEFINE r == ranges[next + 1]
<1>t. /\ wpc \in [Workers -> WorkerPC] /\ range \in [Workers -> Int \X Int]
      /\ next \in 0 .. Len(ranges) /\ n \in Nat /\ Len(ranges) \in Nat
  BY ConstantsAssumption DEF IInv, AInv, TypeOK
<1>r. /\ \A j \in 1 .. Len(ranges) : IndicesOf(ranges[j]) \subseteq 0 .. n - 1
      /\ \A i, j \in 1 .. Len(ranges) :
            i # j => IndicesOf(ranges[i]) \cap IndicesOf(ranges[j]) = {}
  BY <1>t, RangesFacts DEF IInv
<1>1. /\ wpc[w] = "idle" /\ next < Len(ranges) /\ next + 1 \in 1 .. Len(ranges)
      /\ range' = [range EXCEPT ![w] = r] /\ next' = next + 1
      /\ wpc' = [wpc EXCEPT ![w] = "claimed"]
      /\ ranges' = ranges /\ n' = n /\ ran' = ran
  BY <1>t DEF Claim, ownerVars
<1>2. Busy' = Busy \cup {w} /\ w \notin Busy BY <1>1, <1>t DEF Busy
<1>3. \A v \in Workers : v # w => range'[v] = range[v] /\ wpc'[v] = wpc[v]
  BY <1>1, <1>t
<1>4. range'[w] = r /\ wpc'[w] = "claimed" BY <1>1, <1>t
<1>5. \A i \in Indices : Unclaimed(i) <=> Unclaimed(i)' \/ i \in IndicesOf(r)
  BY <1>1, <1>t DEF Unclaimed
<1>6. ASSUME NEW i \in Indices, Unclaimed(i)' PROVE i \notin IndicesOf(r)
  <2>1. PICK j \in next + 2 .. Len(ranges) : i \in IndicesOf(ranges[j])
    BY <1>1, <1>t, <1>6 DEF Unclaimed
  <2>2. j # next + 1 /\ j \in 1 .. Len(ranges) BY <2>1, <1>t
  <2>3. IndicesOf(ranges[j]) \cap IndicesOf(ranges[next + 1]) = {}
    BY <2>2, <1>1, <1>r
  <2> QED BY <2>1, <2>3
<1>7. \A i \in Indices : /\ Holds(w, i)' <=> i \in IndicesOf(r)
                         /\ StillToRun(w, i)' <=> i \in IndicesOf(r)
  BY <1>2, <1>4 DEF Holds, StillToRun
<1>8. \A v \in Workers, i \in Indices :
         v # w => /\ Holds(v, i)' <=> Holds(v, i)
                  /\ StillToRun(v, i)' <=> StillToRun(v, i)
  BY <1>2, <1>3 DEF Holds, StillToRun
<1>9. \A i \in Indices : ~Holds(w, i) /\ ~StillToRun(w, i)
  BY <1>2 DEF Holds, StillToRun
<1>10. \A v \in Busy' : IndicesOf(range'[v]) \subseteq 0 .. n' - 1
  BY <1>1, <1>2, <1>3, <1>4, <1>r DEF IInv, IndexInv, Busy
<1>11. ASSUME NEW i \in Indices
       PROVE  /\ Unclaimed(i)' => \A v \in Workers : ~Holds(v, i)'
              /\ \A u, v \in Workers : Holds(u, i)' /\ Holds(v, i)' => u = v
              /\ \/ i >= n'
                 \/ Unclaimed(i)'
                 \/ \E v \in Workers : StillToRun(v, i)'
                 <=> \/ i >= n
                     \/ Unclaimed(i)
                     \/ \E v \in Workers : StillToRun(v, i)
  <2>1. /\ Unclaimed(i) => \A v \in Workers : ~Holds(v, i)
        /\ \A u, v \in Workers : Holds(u, i) /\ Holds(v, i) => u = v
    BY DEF IInv, IndexInv
  <2>2. Unclaimed(i)' => \A v \in Workers : ~Holds(v, i)'
    BY <2>1, <1>5, <1>6, <1>7, <1>8
  <2>3. \A u, v \in Workers : Holds(u, i)' /\ Holds(v, i)' => u = v
    BY <2>1, <1>5, <1>7, <1>8
  <2>4. \/ i >= n'
        \/ Unclaimed(i)'
        \/ \E v \in Workers : StillToRun(v, i)'
        <=> \/ i >= n
            \/ Unclaimed(i)
            \/ \E v \in Workers : StillToRun(v, i)
    BY <1>1, <1>5, <1>7, <1>8, <1>9
  <2> QED BY <2>2, <2>3, <2>4
<1>12. \A i \in Indices :
          ran'[i] = IF \/ i >= n'
                       \/ Unclaimed(i)'
                       \/ \E v \in Workers : StillToRun(v, i)'
                    THEN 0 ELSE 1
  BY <1>1, <1>11 DEF IInv, IndexInv
<1> QED BY <1>10, <1>11, <1>12 DEF IndexInv

\* Running a range moves its indices from still to run to run once.
LEMMA IndexInvRun ==
  ASSUME IInv, NEW w \in Workers, Run(w)
  PROVE  IndexInv'
<1>t. /\ wpc \in [Workers -> WorkerPC] /\ range \in [Workers -> Int \X Int]
      /\ n \in Nat /\ ctx[w] = calls
  BY ConstantsAssumption DEF IInv, AInv, TypeOK, Run
<1>1. /\ wpc[w] = "running" /\ wpc' = [wpc EXCEPT ![w] = "finishing"]
      /\ ranges' = ranges /\ next' = next /\ range' = range /\ n' = n
      /\ \A i \in Indices :
            ran'[i] = IF i \in IndicesOf(range[w]) THEN ran[i] + 1 ELSE ran[i]
  BY <1>t DEF Run, poolVars, ownerVars
<1>2. Busy' = Busy /\ w \in Busy BY <1>1, <1>t DEF Busy
<1>3. \A i \in Indices : Unclaimed(i)' <=> Unclaimed(i) BY <1>1 DEF Unclaimed
<1>4. \A v \in Workers, i \in Indices :
         /\ Holds(v, i)' <=> Holds(v, i)
         /\ v # w => (StillToRun(v, i)' <=> StillToRun(v, i))
  BY <1>1, <1>2, <1>t DEF Holds, StillToRun
<1>5. \A i \in Indices : /\ ~StillToRun(w, i)'
                         /\ StillToRun(w, i) <=> i \in IndicesOf(range[w])
                         /\ Holds(w, i) <=> i \in IndicesOf(range[w])
  BY <1>1, <1>2, <1>t DEF Holds, StillToRun
<1>6. \A v \in Workers, i \in Indices : StillToRun(v, i) => Holds(v, i)
  BY DEF StillToRun
<1>7. \A i \in Indices : i \in IndicesOf(range[w]) => ~(i >= n)
  BY <1>2, <1>t DEF IInv, IndexInv
<1>8. ASSUME NEW i \in Indices
      PROVE  ran'[i] = IF \/ i >= n'
                          \/ Unclaimed(i)'
                          \/ \E v \in Workers : StillToRun(v, i)'
                       THEN 0 ELSE 1
  <2>1. /\ Unclaimed(i) => \A v \in Workers : ~Holds(v, i)
        /\ \A u, v \in Workers : Holds(u, i) /\ Holds(v, i) => u = v
        /\ ran[i] = IF \/ i >= n
                       \/ Unclaimed(i)
                       \/ \E v \in Workers : StillToRun(v, i)
                    THEN 0 ELSE 1
    BY DEF IInv, IndexInv
  <2>2. CASE i \in IndicesOf(range[w])
    <3>1. ~Unclaimed(i)' /\ ~(i >= n') BY <2>1, <2>2, <1>1, <1>3, <1>5, <1>7
    <3>2. \A v \in Workers : ~StillToRun(v, i)'
      BY <2>1, <2>2, <1>4, <1>5, <1>6
    <3>3. ran'[i] = 1 BY <2>1, <2>2, <1>1, <1>5
    <3> QED BY <3>1, <3>2, <3>3
  <2>3. CASE i \notin IndicesOf(range[w])
    <3>1. \A v \in Workers : StillToRun(v, i)' <=> StillToRun(v, i)
      BY <2>3, <1>4, <1>5
    <3> QED BY <3>1, <2>1, <2>3, <1>1, <1>3
  <2> QED BY <2>2, <2>3
<1>9. \A v \in Busy' : IndicesOf(range'[v]) \subseteq 0 .. n' - 1
  BY <1>1, <1>2 DEF IInv, IndexInv
<1>10. \A i \in Indices :
          /\ Unclaimed(i)' => \A v \in Workers : ~Holds(v, i)'
          /\ \A u, v \in Workers : Holds(u, i)' /\ Holds(v, i)' => u = v
  BY <1>3, <1>4 DEF IInv, IndexInv
<1> QED BY <1>8, <1>9, <1>10 DEF IndexInv

\* The end of a range lets go of indices that have been run.
LEMMA IndexInvFinish ==
  ASSUME IInv, NEW w \in Workers, Finish(w)
  PROVE  IndexInv'
<1>t. wpc \in [Workers -> WorkerPC] BY DEF IInv, AInv, TypeOK
<1>1. /\ wpc[w] = "finishing" /\ wpc' = [wpc EXCEPT ![w] = "idle"]
      /\ ranges' = ranges /\ next' = next /\ range' = range /\ n' = n /\ ran' = ran
  BY DEF Finish
<1>2. Busy' = Busy \ {w} BY <1>1, <1>t DEF Busy
<1>3. \A i \in Indices : Unclaimed(i)' <=> Unclaimed(i) BY <1>1 DEF Unclaimed
<1>4. \A v \in Workers, i \in Indices :
         /\ Holds(v, i)' => Holds(v, i)
         /\ StillToRun(v, i)' <=> StillToRun(v, i)
  BY <1>1, <1>2, <1>t DEF Holds, StillToRun
<1>5. \A v \in Busy' : IndicesOf(range'[v]) \subseteq 0 .. n' - 1
  BY <1>1, <1>2 DEF IInv, IndexInv
<1> QED BY <1>1, <1>3, <1>4, <1>5 DEF IInv, IndexInv

\* Every step keeps the inductive invariant.
LEMMA IInvNext == IInv /\ [Next]_vars => IInv'
<1> SUFFICES ASSUME IInv, [Next]_vars
             PROVE  RangesFromSplit' /\ IndexInv'
  BY AInvNext DEF IInv
<1>t. wpc \in [Workers -> WorkerPC] BY DEF IInv, AInv, TypeOK
<1>1. ASSUME NEW k \in 1 .. MaxN, Dispatch(k)
      PROVE  RangesFromSplit' /\ IndexInv'
  BY <1>1, IndexInvDispatch
<1>2. ASSUME UNCHANGED <<ranges, n>> PROVE RangesFromSplit'
  BY <1>2 DEF IInv, RangesFromSplit
<1>3. ASSUME NEW w \in Workers, Claim(w) PROVE RangesFromSplit' /\ IndexInv'
  BY <1>3, <1>2, IndexInvClaim DEF Claim, ownerVars
<1>4. ASSUME NEW w \in Workers, Run(w) PROVE RangesFromSplit' /\ IndexInv'
  BY <1>4, <1>2, IndexInvRun DEF Run, poolVars, ownerVars
<1>5. ASSUME NEW w \in Workers, Finish(w) PROVE RangesFromSplit' /\ IndexInv'
  BY <1>5, <1>2, IndexInvFinish DEF Finish
<1>6. ASSUME NEW w \in Workers,
             Exit(w) \/ Sleep(w) \/ WorkerSpuriousWake(w) \/ Load(w)
      PROVE  RangesFromSplit' /\ IndexInv'
  <2>1. UNCHANGED <<ranges, next, n, range, ran>>
    BY <1>6 DEF Exit, Sleep, WorkerSpuriousWake, Load, poolVars, ownerVars
  <2>2. \A v \in Workers :
            /\ v \in Busy' <=> v \in Busy
            /\ wpc'[v] \in {"claimed", "running"} <=> wpc[v] \in {"claimed", "running"}
    BY <1>6, <1>t DEF Exit, Sleep, WorkerSpuriousWake, Load, Busy
  <2>3. IndexInv BY DEF IInv
  <2>4. IndexInv' BY <2>1, <2>2, <2>3, IndexInvFrame
  <2> QED BY <2>1, <2>4, <1>2
<1>7. CASE OwnerStep \/ OwnerSpuriousWake \/ Destroy \/ Destroyed \/ UNCHANGED vars
  <2>1. UNCHANGED <<ranges, next, n, range, ran>>
    BY <1>7 DEF OwnerStep, NotifyWorkers, AwaitReturn, AwaitBlock, NotifyStop,
                Join, OwnerSpuriousWake, Destroy, Destroyed, vars, poolVars,
                workerVars, ownerVars
  <2>2. \/ UNCHANGED wpc
        \/ wpc' = [v \in Workers |-> IF wpc[v] = "asleep" THEN "idle" ELSE wpc[v]]
    BY <1>7 DEF OwnerStep, NotifyWorkers, AwaitReturn, AwaitBlock, NotifyStop,
                Join, OwnerSpuriousWake, Destroy, Destroyed, vars, workerVars,
                NotifyAllWorkers
  <2>3. \A v \in Workers :
            /\ v \in Busy' <=> v \in Busy
            /\ wpc'[v] \in {"claimed", "running"} <=> wpc[v] \in {"claimed", "running"}
    BY <2>2 DEF Busy
  <2>4. IndexInv BY DEF IInv
  <2>5. IndexInv' BY <2>1, <2>3, <2>4, IndexInvFrame
  <2> QED BY <2>1, <2>5, <1>2
<1> QED
  BY <1>1, <1>3, <1>4, <1>5, <1>6, <1>7 DEF Next, WorkerStep

\* The inductive invariant holds in every reachable state.
THEOREM InductiveInvariant == Spec => []IInv
  BY IInvInit, IInvNext, PTL DEF Spec

\* When parallel_for has returned, the callable has run exactly once on every
\* index of [0, n) and on no other.
THEOREM RunsExactlyOnce == Spec => []ExactlyOnce
<1>1. IInv => ExactlyOnce
  <2> SUFFICES ASSUME IInv, ~InCall, NEW i \in Indices
               PROVE  ran[i] = IF i < n THEN 1 ELSE 0
    BY DEF ExactlyOnce
  <2>1. Busy = {} /\ next = Len(ranges)
    BY OutsideMeansIdle DEF IInv, AInv
  <2>2. \A w \in Workers : ~StillToRun(w, i)
    BY <2>1 DEF StillToRun, Holds
  <2>3. n \in Nat /\ i \in Nat /\ next \in Nat
    BY ConstantsAssumption DEF IInv, AInv, TypeOK, Indices
  <2>4. ~Unclaimed(i) BY <2>1, <2>3 DEF Unclaimed
  <2> QED BY <2>2, <2>3, <2>4 DEF IInv, IndexInv
<1> QED BY <1>1, InductiveInvariant, PTL

\* No two workers ever work on a common index.
THEOREM WorkIsDisjoint == Spec => []DisjointWork
<1>1. IInv => DisjointWork
  <2> SUFFICES ASSUME IInv, NEW v \in Busy, NEW w \in Busy, v # w,
                      NEW i \in IndicesOf(range[v]), i \in IndicesOf(range[w])
               PROVE  FALSE
    BY DEF DisjointWork
  <2>1. n \in 0 .. MaxN /\ MaxN \in Nat
    BY ConstantsAssumption DEF IInv, AInv, TypeOK
  <2>2. i \in 0 .. n - 1 BY DEF IInv, IndexInv
  <2>3. i \in Indices BY <2>1, <2>2 DEF Indices
  <2> QED BY <2>3 DEF IInv, IndexInv, Holds, Busy
<1> QED BY <1>1, InductiveInvariant, PTL
-----------------------------------------------------------------------------
(* The sleeping layer.                                                      *)

\* NoLostWakeup is inductive with the accounting layer and this fact: once
\* stop_ is set the owner is in the destructor and makes no further call.
WakeInv ==
    /\ AInv
    /\ NoLostWakeup
    /\ stop => opc \in {"stopping", "joining", "destroyed"}

\* Before the first call everybody is awake.
LEMMA WakeInvInit == Init => WakeInv
  BY AInvInit DEF Init, WakeInv, NoLostWakeup

\* Every step keeps it: whatever makes a predicate true is followed by the
\* notify_all that the predicate's sleepers need.
LEMMA WakeInvNext == WakeInv /\ [Next]_vars => WakeInv'
<1> SUFFICES ASSUME WakeInv, [Next]_vars
             PROVE  /\ NoLostWakeup'
                    /\ stop' => opc' \in {"stopping", "joining", "destroyed"}
  BY AInvNext DEF WakeInv
<1>t. /\ ranges \in Seq(Int \X Int) /\ Len(ranges) \in Nat
      /\ next \in 0 .. Len(ranges) /\ active \in Nat /\ stop \in BOOLEAN
      /\ wpc \in [Workers -> WorkerPC] /\ opc \in OwnerPC
  BY DEF WakeInv, AInv, TypeOK
<1>w. /\ \A w \in Workers :
            wpc[w] = "asleep" => /\ next < Len(ranges) => opc = "notify"
                                 /\ stop => opc = "stopping"
      /\ opc = "blocked" => active > 0
      /\ stop => opc \in {"stopping", "joining", "destroyed"}
  BY DEF WakeInv, NoLostWakeup
<1>1. ASSUME NEW k \in 1 .. MaxN, Dispatch(k)
      PROVE  NoLostWakeup' /\ (stop' => opc' \in {"stopping", "joining", "destroyed"})
  BY <1>1, <1>w DEF Dispatch, workerVars, NoLostWakeup
<1>2. ASSUME NotifyWorkers \/ NotifyStop
      PROVE  NoLostWakeup' /\ (stop' => opc' \in {"stopping", "joining", "destroyed"})
  <2>1. \A w \in Workers : wpc'[w] # "asleep"
    BY <1>2 DEF NotifyWorkers, NotifyStop, NotifyAllWorkers
  <2>2. opc' \in {"await", "joining"} /\ stop' = stop
    BY <1>2 DEF NotifyWorkers, NotifyStop, poolVars
  <2>3. stop => opc' = "joining"
    BY <1>2, <1>w DEF NotifyWorkers, NotifyStop
  <2> QED BY <2>1, <2>2, <2>3 DEF NoLostWakeup
<1>3. ASSUME AwaitReturn \/ AwaitBlock \/ OwnerSpuriousWake \/ Join
      PROVE  NoLostWakeup' /\ (stop' => opc' \in {"stopping", "joining", "destroyed"})
  <2>1. UNCHANGED <<ranges, next, active, stop, wpc>>
    BY <1>3 DEF AwaitReturn, AwaitBlock, OwnerSpuriousWake, Join, poolVars,
                workerVars
  <2>2. opc \notin {"notify", "stopping"} /\ (opc' = "blocked" => active # 0)
    BY <1>3 DEF AwaitReturn, AwaitBlock, OwnerSpuriousWake, Join
  <2>3. stop => opc' = "destroyed"
    BY <1>3, <1>w DEF AwaitReturn, AwaitBlock, OwnerSpuriousWake, Join
  <2> QED BY <2>1, <2>2, <2>3, <1>t, <1>w DEF NoLostWakeup
<1>4. ASSUME Destroy
      PROVE  NoLostWakeup' /\ (stop' => opc' \in {"stopping", "joining", "destroyed"})
  <2>1. active = 0 BY <1>4 DEF Destroy, WakeInv, AInv, InCall
  <2>2. next = Len(ranges) BY <2>1, OutsideMeansIdle DEF WakeInv
  <2>3. opc' = "stopping" /\ UNCHANGED <<ranges, next>> BY <1>4 DEF Destroy
  <2> QED BY <2>2, <2>3, <1>t DEF NoLostWakeup
<1>5. ASSUME NEW w \in Workers,
             Claim(w) \/ Exit(w) \/ Sleep(w) \/ WorkerSpuriousWake(w)
                 \/ Load(w) \/ Run(w)
      PROVE  NoLostWakeup' /\ (stop' => opc' \in {"stopping", "joining", "destroyed"})
  <2>1. UNCHANGED <<ranges, active, stop, opc>> /\ next' >= next
    BY <1>5, <1>t DEF Claim, Exit, Sleep, WorkerSpuriousWake, Load, Run, poolVars,
                      ownerVars
  <2>2. \A v \in Workers : wpc'[v] = "asleep" =>
           wpc[v] = "asleep" \/ (~stop /\ next >= Len(ranges))
    BY <1>5, <1>t DEF Claim, Exit, Sleep, WorkerSpuriousWake, Load, Run
  <2>3. next' \in Int BY <1>5, <1>t DEF Claim, Exit, Sleep, WorkerSpuriousWake,
                                      Load, Run, poolVars
  <2> QED BY <2>1, <2>2, <2>3, <1>t, <1>w DEF NoLostWakeup
<1>6. ASSUME NEW w \in Workers, Finish(w)
      PROVE  NoLostWakeup' /\ (stop' => opc' \in {"stopping", "joining", "destroyed"})
  <2>1. /\ UNCHANGED <<ranges, next, stop>>
        /\ opc' = IF active - 1 = 0 /\ opc = "blocked" THEN "await" ELSE opc
        /\ active' = active - 1
    BY <1>6 DEF Finish
  <2>2. \A v \in Workers : wpc'[v] = "asleep" => wpc[v] = "asleep"
    BY <1>6, <1>t DEF Finish
  <2> QED BY <2>1, <2>2, <1>t, <1>w DEF NoLostWakeup
<1>7. CASE Destroyed \/ UNCHANGED vars
  BY <1>7, <1>w DEF Destroyed, vars, poolVars, workerVars, ownerVars, NoLostWakeup
<1> QED
  BY <1>1, <1>2, <1>3, <1>4, <1>5, <1>6, <1>7 DEF Next, OwnerStep, WorkerStep

\* Nobody sleeps on a predicate that is true unless the notify_all that wakes
\* him is still to come.
THEOREM NobodySleepsForever == Spec => []NoLostWakeup
<1>1. WakeInv => NoLostWakeup BY DEF WakeInv
<1> QED BY <1>1, WakeInvInit, WakeInvNext, PTL DEF Spec
-----------------------------------------------------------------------------
(* The pool implements ParallelFor: every step of the pool is a step of the *)
(* abstract call, or leaves it where it is.                                 *)

\* Every step of the pool is a step of parallel_for or changes nothing of it.
LEMMA RefinementStep ==
  ASSUME IInv, [Next]_vars
  PROVE  [Abstract!Next]_Abstract!vars
<1>t. /\ wpc \in [Workers -> WorkerPC] /\ range \in [Workers -> Int \X Int]
      /\ n \in Nat /\ n <= MaxN /\ MaxN \in Nat /\ opc \in OwnerPC
      /\ ran \in [Indices -> Nat] /\ calls \in Nat
  BY ConstantsAssumption DEF IInv, AInv, TypeOK
<1>i. Indices = Abstract!Indices BY DEF Indices, Abstract!Indices
<1>1. ASSUME NEW k \in 1 .. MaxN, Dispatch(k) PROVE Abstract!Next
  <2>1. Abstract!Call(k)
    BY <1>1, <1>i DEF Dispatch, Abstract!Call, InCall
  <2> QED BY <2>1 DEF Abstract!Next
<1>2. ASSUME AwaitReturn PROVE Abstract!Next
  <2>1. Busy = {} /\ next = Len(ranges)
    BY <1>2, OutsideMeansIdle DEF IInv, AwaitReturn
  <2>2. \A i \in 0 .. n - 1 : ran[i] = 1
    <3> SUFFICES ASSUME NEW i \in 0 .. n - 1 PROVE ran[i] = 1
      OBVIOUS
    <3>1. i \in Indices /\ ~(i >= n) BY <1>t DEF Indices
    <3>2. \A w \in Workers : ~StillToRun(w, i) BY <2>1 DEF StillToRun, Holds
    <3>3. next \in Nat BY DEF IInv, AInv, TypeOK
    <3>4. ~Unclaimed(i) BY <2>1, <3>3 DEF Unclaimed
    <3> QED BY <3>1, <3>2, <3>4 DEF IInv, IndexInv
  <2>3. Abstract!Return
    BY <1>2, <2>2 DEF AwaitReturn, Abstract!Return, InCall
  <2> QED BY <2>3 DEF Abstract!Next, Abstract!Progress
<1>3. ASSUME Destroy PROVE Abstract!Next
  <2>1. Abstract!Close BY <1>3 DEF Destroy, Abstract!Close, InCall
  <2> QED BY <2>1 DEF Abstract!Next
<1>4. ASSUME NEW w \in Workers, Run(w) PROVE [Abstract!Next]_Abstract!vars
  <2> DEFINE b == range[w][1]
  <2> DEFINE e == range[w][2]
  <2>1. w \in Busy /\ InCall /\ ctx[w] = calls
    <3>1. w \in Busy /\ ctx[w] = calls BY <1>4, <1>t DEF Run, Busy, IInv, AInv
    <3>2. active # 0 BY <3>1, OutsideMeansIdle DEF IInv
    <3> QED BY <3>1, <3>2 DEF IInv, AInv
  <2>2. b \in Int /\ e \in Int /\ IndicesOf(range[w]) = b .. e - 1
    BY <1>t DEF IndicesOf
  <2>3. b .. e - 1 \subseteq 0 .. n - 1
    BY <2>1, <2>2 DEF IInv, IndexInv
  <2>4. \A i \in b .. e - 1 : ran[i] = 0
    <3> SUFFICES ASSUME NEW i \in b .. e - 1 PROVE ran[i] = 0
      OBVIOUS
    <3>0. i \in 0 .. n - 1 BY <2>3
    <3>1. i \in Indices
      <4>1. n \in 0 .. MaxN /\ MaxN \in Nat
        BY <1>t, ConstantsAssumption
      <4> QED BY <3>0, <4>1, SMTT(30) DEF Indices
    <3>2. StillToRun(w, i)
      BY <1>4, <2>1, <2>2 DEF StillToRun, Holds, Run
    <3> QED BY <3>1, <3>2 DEF IInv, IndexInv
  <2>5. ran' = [i \in Indices |-> IF i \in b .. e - 1 THEN 1 ELSE ran[i]]
    <3>1. ran' = [i \in Indices |->
                    IF i \in b .. e - 1 THEN ran[i] + 1 ELSE ran[i]]
      BY <1>4, <2>1, <2>2 DEF Run
    <3>2. \A i \in Indices :
             (IF i \in b .. e - 1 THEN ran[i] + 1 ELSE ran[i])
             = (IF i \in b .. e - 1 THEN 1 ELSE ran[i])
      BY <2>4
    <3> QED BY <3>1, <3>2
  <2>6. UNCHANGED <<opc, n, calls>> BY <1>4 DEF Run, ownerVars
  <2> HIDE DEF b, e
  <2>7. CASE b < e
    <3>1. b \in 0 .. n - 1 /\ e - 1 \in 0 .. n - 1 BY <2>2, <2>3, <2>7
    <3>2. b \in 0 .. MaxN /\ e \in 0 .. MaxN /\ e <= n
      BY <3>1, <2>2, <1>t
    <3>3. Abstract!Work(b, e)
      BY <2>1, <2>4, <2>5, <2>6, <2>7, <3>2, <1>i DEF Abstract!Work, InCall
    <3> QED BY <3>2, <3>3 DEF Abstract!Next, Abstract!Progress
  <2>8. CASE ~(b < e)
    <3>1. \A i \in Indices : i \notin b .. e - 1 BY <2>2, <2>8 DEF Indices
    <3>2. ran' = ran BY <2>5, <3>1, <1>t
    <3> QED BY <3>2, <2>6 DEF Abstract!vars, InCall
  <2> QED BY <2>7, <2>8
<1>5. ASSUME NEW w \in Workers,
             \/ Claim(w) \/ Exit(w) \/ Sleep(w) \/ WorkerSpuriousWake(w)
             \/ Load(w) \/ Finish(w)
      PROVE  UNCHANGED Abstract!vars
  <2>1. UNCHANGED <<n, calls, ran>>
    BY <1>5 DEF Claim, Exit, Sleep, WorkerSpuriousWake, Load, Finish, ownerVars
  <2>2. opc' = opc \/ (opc = "blocked" /\ opc' = "await")
    BY <1>5 DEF Claim, Exit, Sleep, WorkerSpuriousWake, Load, Finish, ownerVars
  <2> QED BY <2>1, <2>2 DEF Abstract!vars, InCall
<1>6. ASSUME \/ NotifyWorkers \/ AwaitBlock \/ OwnerSpuriousWake
             \/ NotifyStop \/ Join \/ Destroyed \/ UNCHANGED vars
      PROVE  UNCHANGED Abstract!vars
  BY <1>6 DEF NotifyWorkers, AwaitBlock, OwnerSpuriousWake, NotifyStop, Join,
              Destroyed, vars, ownerVars, Abstract!vars, InCall
<1> QED
  BY <1>1, <1>2, <1>3, <1>4, <1>5, <1>6 DEF Next, OwnerStep, WorkerStep

\* The pool refines the abstract parallel_for: indices are run only inside a
\* call, none twice, and the call returns only when all of them are done.
THEOREM Refinement == Spec => RefinesParallelFor
<1>1. Init => Abstract!Init
  BY DEF Init, Abstract!Init, Abstract!Indices, Indices, InCall
<1>2. IInv /\ [Next]_vars => [Abstract!Next]_Abstract!vars
  BY RefinementStep
<1> QED
  BY <1>1, <1>2, InductiveInvariant, PTL
     DEF Spec, RefinesParallelFor, Abstract!SafetySpec
=============================================================================
