---------------------------- MODULE KvDecodeProofs ----------------------------
(***************************************************************************)
(* Proofs about the two decoders, for every number of layers, every prompt *)
(* and length, and however many tokens are asked for: the cache always     *)
(* holds what a recomputation would give, and therefore both decoders      *)
(* generate the same ids.                                                  *)
(***************************************************************************)
EXTENDS KvDecode, WellFoundedInduction, TLAPS

\* A set of numbers that has 0, and the successor of each of its members.
LEMMA Induction ==
  ASSUME NEW S \in SUBSET Nat, 0 \in S, \A n \in S : n + 1 \in S
  PROVE  S = Nat
<1> SUFFICES ASSUME Nat \ S # {} PROVE FALSE OBVIOUS
<1>1. PICK n \in Nat \ S : \A m \in Nat \ S : <<m, n>> \notin OpToRel(<, Nat)
  BY WFMin, NatLessThanWellFounded
<1>2. \A m \in Nat \ S : ~(m < n) BY <1>1 DEF OpToRel
<1>3. n # 0 /\ n \in Nat BY <1>1
<1>4. n - 1 \in Nat /\ n - 1 < n /\ (n - 1) + 1 = n BY <1>3
<1>5. n - 1 \in S BY <1>2, <1>4
<1> QED BY <1>1, <1>4, <1>5
-----------------------------------------------------------------------------
(* What a recomputation gives.                                             *)

\* The rows that enter the first layer, and the rows that leave a layer.
Embedded(s, n) == [i \in 0 .. n - 1 |-> Embed(s[i + 1], i)]
Through(rows, n) ==
    [i \in 0 .. n - 1 |-> Layer(rows[i], [j \in 0 .. i |-> rows[j]])]

\* The rows between the first l layers.
IsStack(f, s, n, l) ==
    f = [k \in 0 .. l |-> IF k = 0 THEN Embedded(s, n) ELSE Through(f[k - 1], n)]

LEMMA StackExists ==
  ASSUME NEW s, NEW n, NEW l \in Nat
  PROVE  \E f : IsStack(f, s, n, l)
<1> DEFINE S == {k \in Nat : \E f : IsStack(f, s, n, k)}
<1>1. 0 \in S
  <2>1. IsStack([k \in 0 .. 0 |-> Embedded(s, n)], s, n, 0) BY DEF IsStack
  <2> QED BY <2>1
<1>2. ASSUME NEW m \in S PROVE m + 1 \in S
  <2>1. PICK f : IsStack(f, s, n, m) OBVIOUS
  <2> DEFINE g == [k \in 0 .. m + 1 |-> IF k = m + 1 THEN Through(f[m], n) ELSE f[k]]
  <2>2. f = [k \in 0 .. m |-> IF k = 0 THEN Embedded(s, n) ELSE Through(f[k - 1], n)]
    BY <2>1 DEF IsStack
  <2>3. m \in Nat OBVIOUS
  <2>4. ASSUME NEW k \in 0 .. m + 1
        PROVE  g[k] = IF k = 0 THEN Embedded(s, n) ELSE Through(g[k - 1], n)
    <3>1. CASE k = m + 1
      <4>1. g[k - 1] = f[m] BY <3>1, <2>3
      <4> QED BY <3>1, <4>1, <2>3
    <3>2. CASE k # m + 1
      <4>1. k \in 0 .. m /\ g[k] = f[k] BY <3>2, <2>3
      <4>2. CASE k = 0 BY <4>1, <4>2, <2>2
      <4>3. CASE k # 0
        <5>1. k - 1 \in 0 .. m + 1 /\ k - 1 # m + 1 BY <4>1, <4>3, <2>3
        <5>2. g[k - 1] = f[k - 1] BY <5>1
        <5>3. f[k] = Through(f[k - 1], n) BY <4>1, <4>3, <2>2, Zenon
        <5> QED BY <4>1, <4>3, <5>2, <5>3
      <4> QED BY <4>2, <4>3
    <3> QED BY <3>1, <3>2
  <2> HIDE DEF g
  <2>5. g = [k \in 0 .. m + 1 |-> g[k]] BY DEF g
  <2>6. g = [k \in 0 .. m + 1 |-> IF k = 0 THEN Embedded(s, n) ELSE Through(g[k - 1], n)]
    BY <2>4, <2>5
  <2> QED BY <2>3, <2>6 DEF IsStack
<1> HIDE DEF S
<1>3. S \in SUBSET Nat BY DEF S
<1>4. S = Nat BY <1>1, <1>2, <1>3, Induction
<1> QED BY <1>4 DEF S

LEMMA StackUnique ==
  ASSUME NEW s, NEW n, NEW a \in Nat, NEW b \in Nat, NEW f, NEW g,
         IsStack(f, s, n, a), IsStack(g, s, n, b)
  PROVE  \A k \in Nat : k <= a /\ k <= b => f[k] = g[k]
<1> DEFINE S == {k \in Nat : k <= a /\ k <= b => f[k] = g[k]}
<1>1. /\ \A k \in 0 .. a : f[k] = IF k = 0 THEN Embedded(s, n) ELSE Through(f[k - 1], n)
      /\ \A k \in 0 .. b : g[k] = IF k = 0 THEN Embedded(s, n) ELSE Through(g[k - 1], n)
  BY Zenon DEF IsStack
<1>2. 0 \in S BY <1>1
<1>3. ASSUME NEW k \in S PROVE k + 1 \in S
  <2> SUFFICES ASSUME k + 1 <= a, k + 1 <= b PROVE f[k + 1] = g[k + 1] OBVIOUS
  <2>1. k + 1 \in 0 .. a /\ k + 1 \in 0 .. b /\ k + 1 # 0 /\ (k + 1) - 1 = k OBVIOUS
  <2>2. f[k] = g[k] OBVIOUS
  <2>3. f[k + 1] = Through(f[k], n) /\ g[k + 1] = Through(g[k], n) BY <1>1, <2>1
  <2> QED BY <2>2, <2>3
<1> HIDE DEF S
<1>4. S \in SUBSET Nat BY DEF S
<1>5. S = Nat BY <1>2, <1>3, <1>4, Induction
<1> QED BY <1>5 DEF S

\* Layer by layer.
LEMMA RecomputedLayers ==
  ASSUME NEW s, NEW n
  PROVE  /\ Recomputed(s, n, 0) = Embedded(s, n)
         /\ \A l \in Nat : Recomputed(s, n, l + 1) = Through(Recomputed(s, n, l), n)
<1> DEFINE Rows(l) == CHOOSE f : IsStack(f, s, n, l)
<1>1. ASSUME NEW l \in Nat PROVE Recomputed(s, n, l) = Rows(l)[l]
  BY DEF Recomputed, IsStack, Embedded, Through
<1>2. ASSUME NEW l \in Nat PROVE IsStack(Rows(l), s, n, l)
  BY StackExists
<1> HIDE DEF Rows
<1>3. Recomputed(s, n, 0) = Embedded(s, n)
  <2>1. Rows(0)[0] = Embedded(s, n)
    <3>1. Rows(0) = [k \in 0 .. 0 |-> IF k = 0 THEN Embedded(s, n) ELSE Through(Rows(0)[k - 1], n)]
      BY <1>2 DEF IsStack
    <3>2. 0 \in 0 .. 0 OBVIOUS
    <3> QED BY <3>1, <3>2, Zenon
  <2> QED BY <1>1, <2>1
<1>4. ASSUME NEW l \in Nat PROVE Recomputed(s, n, l + 1) = Through(Recomputed(s, n, l), n)
  <2>1. l + 1 \in Nat /\ l + 1 \in 0 .. l + 1 /\ l + 1 # 0 /\ (l + 1) - 1 = l
        /\ l <= l /\ l <= l + 1
    OBVIOUS
  <2>2. Rows(l + 1)[l] = Rows(l)[l] BY <1>2, <2>1, StackUnique
  <2>3. Rows(l + 1)[l + 1] = Through(Rows(l + 1)[(l + 1) - 1], n)
    <3>1. Rows(l + 1) = [k \in 0 .. l + 1 |-> IF k = 0 THEN Embedded(s, n)
                                              ELSE Through(Rows(l + 1)[k - 1], n)]
      BY <1>2, <2>1 DEF IsStack
    <3> QED BY <2>1, <3>1, Zenon
  <2>4. Recomputed(s, n, l + 1) = Rows(l + 1)[l + 1] BY <1>1, <2>1
  <2>5. Recomputed(s, n, l) = Rows(l)[l] BY <1>1
  <2> QED BY <2>1, <2>2, <2>3, <2>4, <2>5
<1> QED BY <1>3, <1>4

\* Two sequences that begin with the same m tokens.
Agree(s, t, m) == \A i \in 1 .. m : s[i] = t[i]

\* Attention is causal: what happens behind a position has no effect on it,
\* so neither has the padding nor the length of the graph.
LEMMA Causal ==
  ASSUME NEW s, NEW t, NEW m \in Nat, NEW n \in Nat, m <= n,
         Agree(s, t, m)
  PROVE  \A l \in Nat : \A i \in 0 .. m - 1 :
            Recomputed(s, n, l)[i] = Recomputed(t, m, l)[i]
<1> DEFINE S == {k \in Nat : \A j \in 0 .. m - 1 :
                               Recomputed(s, n, k)[j] = Recomputed(t, m, k)[j]}
<1>1. 0 \in S
  <2> SUFFICES ASSUME NEW j \in 0 .. m - 1
               PROVE  Recomputed(s, n, 0)[j] = Recomputed(t, m, 0)[j]
    OBVIOUS
  <2>1. j \in 0 .. n - 1 /\ j \in 0 .. m - 1 /\ j + 1 \in 1 .. m OBVIOUS
  <2>2. Embedded(s, n)[j] = Embed(s[j + 1], j) /\ Embedded(t, m)[j] = Embed(t[j + 1], j)
    BY <2>1 DEF Embedded
  <2>3. s[j + 1] = t[j + 1] BY <2>1 DEF Agree
  <2> QED BY <2>2, <2>3, RecomputedLayers
<1>2. ASSUME NEW k \in S PROVE k + 1 \in S
  <2> SUFFICES ASSUME NEW j \in 0 .. m - 1
               PROVE  Recomputed(s, n, k + 1)[j] = Recomputed(t, m, k + 1)[j]
    OBVIOUS
  <2> DEFINE f == Recomputed(s, n, k)
             g == Recomputed(t, m, k)
  <2>1. \A x \in 0 .. m - 1 : f[x] = g[x] OBVIOUS
  <2>2. Recomputed(s, n, k + 1) = Through(f, n) /\ Recomputed(t, m, k + 1) = Through(g, m)
    BY RecomputedLayers
  <2> HIDE DEF f, g
  <2>3. j \in 0 .. n - 1 /\ j \in 0 .. m - 1 /\ \A x \in 0 .. j : x \in 0 .. m - 1
    OBVIOUS
  <2>4. [x \in 0 .. j |-> f[x]] = [x \in 0 .. j |-> g[x]] BY <2>1, <2>3
  <2>5. /\ Through(f, n)[j] = Layer(f[j], [x \in 0 .. j |-> f[x]])
        /\ Through(g, m)[j] = Layer(g[j], [x \in 0 .. j |-> g[x]])
    BY <2>3 DEF Through
  <2> QED BY <2>1, <2>2, <2>4, <2>5
<1> HIDE DEF S
<1>3. S \in SUBSET Nat BY DEF S
<1>4. S = Nat BY <1>1, <1>2, <1>3, Induction
<1> QED BY <1>4 DEF S
-----------------------------------------------------------------------------
(* One step of the cached decoder.                                         *)

\* If the cache holds the rows of the tokens before, a step with the next
\* token computes the last rows of a recomputation that includes it.
LEMMA StepRows ==
  ASSUME pos \in Nat, NEW t, NEW token, t[pos + 1] = token, Step(token),
         \A l \in 1 .. Layers : \A j \in 0 .. pos - 1 :
            cache[l][j] = Recomputed(t, pos + 1, l - 1)[j]
  PROVE  /\ cache' = [l \in 1 .. Layers |->
                        [cache[l] EXCEPT ![pos] = Recomputed(t, pos + 1, l - 1)[pos]]]
         /\ next' = Predict(Recomputed(t, pos + 1, Layers)[pos])
         /\ pos' = pos + 1
<1> DEFINE n == pos + 1
           Attend(x, l) == Layer(x, [j \in 0 .. pos |-> IF j = pos THEN x ELSE cache[l][j]])
           IsRow(f) == f = [l \in 0 .. Layers |->
                              IF l = 0 THEN Embed(token, pos) ELSE Attend(f[l - 1], l)]
           row == CHOOSE f : IsRow(f)
           want == [l \in 0 .. Layers |-> Recomputed(t, n, l)[pos]]
<1>1. /\ cache' = [l \in 1 .. Layers |-> [cache[l] EXCEPT ![pos] = row[l - 1]]]
      /\ next' = Predict(row[Layers]) /\ pos' = pos + 1
  BY DEF Step
<1>2. Layers \in Nat BY DecodeAssumption
<1>3. Recomputed(t, n, 0)[pos] = Embed(token, pos)
  <2>1. pos \in 0 .. n - 1 OBVIOUS
  <2>2. Embedded(t, n)[pos] = Embed(t[pos + 1], pos) BY <2>1 DEF Embedded
  <2> QED BY <2>2, RecomputedLayers
<1>4. ASSUME NEW l \in 1 .. Layers
      PROVE  Recomputed(t, n, l)[pos] = Attend(Recomputed(t, n, l - 1)[pos], l)
  <2> DEFINE before == Recomputed(t, n, l - 1)
  <2>1. l - 1 \in Nat /\ (l - 1) + 1 = l BY <1>2
  <2>2. Recomputed(t, n, l) = Through(before, n) BY <2>1, RecomputedLayers
  <2>3. \A j \in 0 .. pos - 1 : cache[l][j] = before[j] OBVIOUS
  <2> HIDE DEF before
  <2>4. pos \in 0 .. n - 1 OBVIOUS
  <2>5. Through(before, n)[pos] = Layer(before[pos], [j \in 0 .. pos |-> before[j]])
    BY <2>4 DEF Through
  <2>6. ASSUME NEW j \in 0 .. pos
        PROVE  before[j] = IF j = pos THEN before[pos] ELSE cache[l][j]
    <3>1. j # pos => j \in 0 .. pos - 1 OBVIOUS
    <3> QED BY <3>1, <2>3
  <2>7. [j \in 0 .. pos |-> before[j]]
          = [j \in 0 .. pos |-> IF j = pos THEN before[pos] ELSE cache[l][j]]
    BY <2>6
  <2>8. Attend(before[pos], l)
          = Layer(before[pos], [j \in 0 .. pos |-> IF j = pos THEN before[pos] ELSE cache[l][j]])
    OBVIOUS
  <2>9. Recomputed(t, n, l)[pos] = Attend(before[pos], l)
    BY <2>2, <2>5, <2>7, <2>8, Zenon
  <2> QED BY <2>9 DEF before
<1> HIDE DEF Attend, n
<1>5. IsRow(want)
  <2>1. ASSUME NEW l \in 0 .. Layers
        PROVE  want[l] = IF l = 0 THEN Embed(token, pos) ELSE Attend(want[l - 1], l)
    <3>1. CASE l = 0 BY <3>1, <1>3
    <3>2. CASE l # 0
      <4>1. l \in 1 .. Layers /\ l - 1 \in 0 .. Layers BY <3>2, <1>2
      <4>2. want[l] = Recomputed(t, n, l)[pos]
            /\ want[l - 1] = Recomputed(t, n, l - 1)[pos]
        BY <4>1
      <4> QED BY <3>2, <4>1, <4>2, <1>4
    <3> QED BY <3>1, <3>2
  <2>2. want = [l \in 0 .. Layers |-> want[l]] OBVIOUS
  <2> HIDE DEF want
  <2>3. [l \in 0 .. Layers |-> want[l]]
          = [l \in 0 .. Layers |->
               IF l = 0 THEN Embed(token, pos) ELSE Attend(want[l - 1], l)]
    BY <2>1, Zenon
  <2> QED BY <2>2, <2>3, Zenon
<1> HIDE DEF want
<1>6. IsRow(row) BY <1>5, Zenon
<1> HIDE DEF row
<1>7. \A l \in 0 .. Layers : row[l] = Recomputed(t, n, l)[pos]
  <2> DEFINE S == {l \in Nat : l <= Layers => row[l] = Recomputed(t, n, l)[pos]}
  <2>0. \A l \in 0 .. Layers :
           row[l] = IF l = 0 THEN Embed(token, pos) ELSE Attend(row[l - 1], l)
    BY <1>6, Zenon
  <2>1. 0 \in S
    <3>1. 0 \in 0 .. Layers BY <1>2
    <3> QED BY <2>0, <3>1, <1>3
  <2>2. ASSUME NEW l \in S PROVE l + 1 \in S
    <3> SUFFICES ASSUME l + 1 <= Layers PROVE row[l + 1] = Recomputed(t, n, l + 1)[pos]
      OBVIOUS
    <3>1. /\ l + 1 \in 0 .. Layers /\ l + 1 \in 1 .. Layers /\ l + 1 # 0
          /\ (l + 1) - 1 = l
      BY <1>2
    <3>2. row[l] = Recomputed(t, n, l)[pos]
      <4>1. l \in S OBVIOUS
      <4>2. l <= Layers BY <1>2
      <4> QED BY <4>1, <4>2, Zenon
    <3>3. row[l + 1] = Attend(row[l], l + 1) BY <2>0, <3>1
    <3>4. Recomputed(t, n, l + 1)[pos] = Attend(Recomputed(t, n, l)[pos], l + 1)
      BY <1>4, <3>1
    <3> QED BY <3>2, <3>3, <3>4
  <2> HIDE DEF S
  <2>3. S \in SUBSET Nat BY DEF S
  <2>4. S = Nat BY <2>1, <2>2, <2>3, Induction
  <2> QED BY <2>4, <1>2 DEF S
<1>8. \A l \in 1 .. Layers : row[l - 1] = Recomputed(t, n, l - 1)[pos]
  <2>1. \A l \in 1 .. Layers : l - 1 \in 0 .. Layers BY <1>2
  <2> QED BY <2>1, <1>7
<1>9. row[Layers] = Recomputed(t, n, Layers)[pos] BY <1>2, <1>7
<1> QED BY <1>1, <1>8, <1>9 DEF n
-----------------------------------------------------------------------------
(* Sequences whose elements are of any kind.                               *)

IsSeq(s) == \E S : s \in Seq(S)

LEMMA Appended ==
  ASSUME NEW s, IsSeq(s), NEW v
  PROVE  /\ IsSeq(Append(s, v))
         /\ Len(s) \in Nat /\ Len(Append(s, v)) = Len(s) + 1
         /\ \A i \in 1 .. Len(s) : Append(s, v)[i] = s[i]
         /\ Append(s, v)[Len(s) + 1] = v
<1>1. PICK S : s \in Seq(S) BY DEF IsSeq
<1> DEFINE T == S \cup {v}
<1>2. s \in Seq(T) /\ v \in T BY <1>1
<1> HIDE DEF T
<1>3. Append(s, v) \in Seq(T) BY <1>2
<1>4. IsSeq(Append(s, v)) BY <1>3, Zenon DEF IsSeq
<1> QED BY <1>2, <1>4

LEMMA Joined ==
  ASSUME NEW s, IsSeq(s), NEW t, IsSeq(t)
  PROVE  /\ IsSeq(s \o t)
         /\ Len(s) \in Nat /\ Len(t) \in Nat /\ Len(s \o t) = Len(s) + Len(t)
         /\ \A i \in 1 .. Len(s) : (s \o t)[i] = s[i]
         /\ \A i \in 1 .. Len(t) : (s \o t)[Len(s) + i] = t[i]
<1>1. PICK S : s \in Seq(S) BY DEF IsSeq
<1>2. PICK T : t \in Seq(T) BY DEF IsSeq
<1> DEFINE U == S \cup T
<1>3. s \in Seq(U) /\ t \in Seq(U) BY <1>1, <1>2
<1> HIDE DEF U
<1>4. s \o t \in Seq(U) BY <1>3
<1>5. IsSeq(s \o t) BY <1>4, Zenon DEF IsSeq
<1> QED BY <1>3, <1>5

LEMMA Part ==
  ASSUME NEW s, IsSeq(s), NEW a \in Nat, NEW b \in Nat, 1 <= a, a <= b + 1, b <= Len(s)
  PROVE  /\ Len(SubSeq(s, a, b)) = b - a + 1
         /\ DOMAIN SubSeq(s, a, b) = 1 .. b - a + 1
         /\ \A i \in 1 .. b - a + 1 : SubSeq(s, a, b)[i] = s[a + i - 1]
<1>1. PICK S : s \in Seq(S) BY DEF IsSeq
<1>2. CASE a <= b
  <2>1. a \in 1 .. Len(s) /\ b \in a .. Len(s) BY <1>1, <1>2
  <2> QED BY <1>1, <2>1
<1>3. CASE a = b + 1 BY <1>1, <1>3
<1> QED BY <1>2, <1>3
-----------------------------------------------------------------------------
(* The inductive invariant.                                                *)

\* The tokens known to the cached decoder: the prompt and what it emitted.
Tokens == prompt \o gen

\* What recomputing the first n tokens of s predicts to come next.
Predicted(s, n) == Predict(Recomputed(s, n, Layers)[n - 1])

\* What each variable is.
Shape ==
    /\ prompt \in Prompts /\ IsSeq(prompt) /\ Len(prompt) \in Nat /\ Len(prompt) > 0
    /\ maxNew \in Nat /\ length \in Nat
    /\ IsSeq(seq) /\ IsSeq(gen)
    /\ phase \in {"graph", "prefill", "decode", "done"}
    /\ pos \in Nat
    /\ cache = [l \in 1 .. Layers |-> cache[l]]
    /\ \A l \in 1 .. Layers : DOMAIN cache[l] = 0 .. MaxCtx - 1

\* How far each phase has come.
Progress ==
    /\ Len(gen) <= maxNew /\ pos <= Len(prompt) + Len(gen)
    /\ phase = "graph" => pos = 0
    /\ phase \in {"graph", "prefill"} => gen = <<>>
    /\ phase \in {"decode", "done"} => pos = Len(prompt) + Len(gen)
    /\ phase = "done" => Len(gen) = maxNew

\* The cache, and the token predicted from it.
CacheInv ==
    /\ \A l \in 1 .. Layers :
         /\ \A j \in pos .. MaxCtx - 1 : cache[l][j] = Zero
         /\ \A j \in 0 .. pos - 1 : cache[l][j] = Recomputed(Tokens, pos, l - 1)[j]
    /\ pos > 0 => next = Predicted(Tokens, pos)

\* Each token emitted was predicted from those before it.
GenInv ==
    \A k \in Len(prompt) + 1 .. Len(prompt) + Len(gen) :
        Tokens[k] = Predicted(Tokens, k - 1)

\* So was each token that the graph added to the prompt.
SeqInv ==
    /\ Len(prompt) <= Len(seq) /\ Len(seq) <= Len(prompt) + maxNew
    /\ \A k \in 1 .. Len(prompt) : seq[k] = prompt[k]
    /\ \A k \in Len(prompt) + 1 .. Len(seq) : seq[k] = Predicted(seq, k - 1)
    /\ phase # "graph" => ~GraphGoesOn

DecodeInv == Shape /\ Progress /\ CacheInv /\ GenInv /\ SeqInv
\* The prediction depends on the tokens it is made from, and on nothing else.
LEMMA SamePrediction ==
  ASSUME NEW s, NEW t, NEW m \in Nat, m > 0, NEW n \in Nat, m <= n, Agree(s, t, m)
  PROVE  Predict(Recomputed(s, n, Layers)[m - 1]) = Predicted(t, m)
<1>1. Layers \in Nat /\ m - 1 \in 0 .. m - 1 /\ m <= m BY DecodeAssumption
<1>2. \A l \in Nat : \A i \in 0 .. m - 1 :
         Recomputed(s, n, l)[i] = Recomputed(t, m, l)[i]
  BY Causal
<1>3. Recomputed(s, n, Layers)[m - 1] = Recomputed(t, m, Layers)[m - 1]
  BY <1>1, <1>2, Zenon
<1> QED BY <1>3, Zenon DEF Predicted
-----------------------------------------------------------------------------
(* It holds from the start.                                                *)

LEMMA InitInv == DecodeInit => DecodeInv
<1> SUFFICES ASSUME DecodeInit PROVE DecodeInv OBVIOUS
<1>1. prompt \in Seq(Int) /\ Len(prompt) \in Nat /\ Len(prompt) > 0 /\ prompt \in Prompts
  BY DecodeAssumption DEF DecodeInit
<1>2. maxNew \in Nat /\ length \in Nat /\ Layers \in Nat /\ seq = prompt /\ gen = <<>>
      /\ pos = 0 /\ phase = "graph"
  BY DecodeAssumption DEF DecodeInit
<1>3. IsSeq(prompt) /\ IsSeq(gen) /\ Len(gen) = 0
  <2>1. gen \in Seq(Int) /\ Len(gen) = 0 BY <1>2
  <2> QED BY <1>1, <2>1, Zenon DEF IsSeq
<1>4. cache = [l \in 1 .. Layers |-> [j \in 0 .. MaxCtx - 1 |-> Zero]] BY DEF DecodeInit
<1>5. Shape
  <2>1. cache = [l \in 1 .. Layers |-> cache[l]] BY <1>4, Zenon
  <2>2. \A l \in 1 .. Layers : DOMAIN cache[l] = 0 .. MaxCtx - 1 BY <1>4, Zenon
  <2>3. IsSeq(seq) BY <1>2, <1>3
  <2> QED BY <1>1, <1>2, <1>3, <2>1, <2>2, <2>3 DEF Shape
<1>6. Progress BY <1>1, <1>2, <1>3 DEF Progress
<1>7. CacheInv
  <2>1. \A l \in 1 .. Layers : cache[l] = [j \in 0 .. MaxCtx - 1 |-> Zero]
    BY <1>4, Zenon
  <2>a. \A l \in 1 .. Layers : \A j \in pos .. MaxCtx - 1 : cache[l][j] = Zero
    BY <1>2, <2>1, Zenon
  <2>2. ~(pos > 0) /\ \A j : j \notin 0 .. pos - 1 BY <1>2
  <2> QED BY <2>a, <2>2 DEF CacheInv
<1>8. GenInv BY <1>1, <1>3 DEF GenInv
<1>9. SeqInv BY <1>1, <1>2 DEF SeqInv
<1> QED BY <1>5, <1>6, <1>7, <1>8, <1>9 DEF DecodeInv
-----------------------------------------------------------------------------
(* The graph.                                                              *)

LEMMA GraphStepKeeps == DecodeInv /\ GraphStep => DecodeInv'
<1> SUFFICES ASSUME DecodeInv, GraphStep PROVE DecodeInv' OBVIOUS
<1>1. /\ phase = "graph" /\ GraphGoesOn
      /\ seq' = Append(seq, Predict(Recomputed(Ids, length, Layers)[Len(seq) - 1]))
      /\ prompt' = prompt /\ maxNew' = maxNew /\ length' = length /\ phase' = phase
      /\ cache' = cache /\ pos' = pos /\ next' = next /\ gen' = gen
  BY DEF GraphStep
<1> DEFINE n == Len(seq)
<1>2. IsSeq(seq) /\ n \in Nat /\ Len(prompt) \in Nat /\ Len(prompt) > 0 /\ maxNew \in Nat
      /\ length \in Nat /\ Len(prompt) <= n
  BY Appended DEF DecodeInv, Shape, SeqInv
<1>3. n < length /\ n < Len(prompt) + maxNew
  <2>1. Len(Generated) = n - Len(prompt)
    <3>1. Len(SubSeq(seq, Len(prompt) + 1, n)) = n - (Len(prompt) + 1) + 1
      BY <1>2, Part
    <3> QED BY <3>1, <1>2 DEF Generated
  <2> QED BY <1>1, <1>2, <2>1 DEF GraphGoesOn
<1>4. Predict(Recomputed(Ids, length, Layers)[n - 1]) = Predicted(seq, n)
  <2>1. Agree(Ids, seq, n) BY <1>2, <1>3 DEF Ids, Agree
  <2>2. n > 0 /\ n <= length BY <1>2, <1>3
  <2> QED BY <1>2, <2>1, <2>2, SamePrediction
<1>5. /\ IsSeq(seq') /\ Len(seq') = n + 1
      /\ \A i \in 1 .. n : seq'[i] = seq[i]
      /\ seq'[n + 1] = Predicted(seq, n)
  BY <1>1, <1>2, <1>4, Appended
<1>6. Shape'
  <2>1. MaxCtx' = MaxCtx BY <1>1 DEF MaxCtx
  <2> QED BY <1>1, <1>5, <2>1 DEF DecodeInv, Shape
<1>7. Progress' BY <1>1 DEF DecodeInv, Progress
<1>8. CacheInv'
  <2>1. MaxCtx' = MaxCtx /\ Tokens' = Tokens BY <1>1 DEF MaxCtx, Tokens
  <2> QED BY <1>1, <2>1 DEF DecodeInv, CacheInv, Predicted
<1>9. GenInv'
  <2>1. Tokens' = Tokens BY <1>1 DEF Tokens
  <2> QED BY <1>1, <2>1 DEF DecodeInv, GenInv, Predicted
<1>10. SeqInv'
  <2>1. ASSUME NEW k \in Len(prompt) + 1 .. n + 1 PROVE seq'[k] = Predicted(seq', k - 1)
    <3>1. k - 1 \in Nat /\ k - 1 > 0 /\ k - 1 <= n /\ k - 1 <= k - 1 BY <1>2
    <3>2. seq'[k] = Predicted(seq, k - 1)
      <4>1. CASE k = n + 1
        <5>1. k - 1 = n BY <4>1, <1>2
        <5> QED BY <4>1, <5>1, <1>5
      <4>2. CASE k # n + 1
        <5>1. k \in Len(prompt) + 1 .. n /\ k \in 1 .. n BY <4>2, <1>2
        <5> QED BY <5>1, <1>5 DEF DecodeInv, SeqInv
      <4> QED BY <4>1, <4>2
    <3>3. Agree(seq, seq', k - 1) BY <1>2, <1>5, <3>1 DEF Agree
    <3>4. Predicted(seq, k - 1) = Predicted(seq', k - 1)
      BY <3>1, <3>3, SamePrediction DEF Predicted
    <3> QED BY <3>2, <3>4
  <2>2. \A k \in Len(prompt) + 1 .. Len(seq') : seq'[k] = Predicted(seq', k - 1)
    BY <1>5, <2>1
  <2>3. \A k \in 1 .. Len(prompt) : seq'[k] = prompt[k]
    <3>1. \A k \in 1 .. Len(prompt) : k \in 1 .. n BY <1>2
    <3> QED BY <3>1, <1>5 DEF DecodeInv, SeqInv
  <2>4. Len(prompt) <= Len(seq') /\ Len(seq') <= Len(prompt) + maxNew
    BY <1>2, <1>3, <1>5
  <2> QED BY <1>1, <2>2, <2>3, <2>4 DEF SeqInv, Predicted
<1> QED BY <1>6, <1>7, <1>8, <1>9, <1>10 DEF DecodeInv
-----------------------------------------------------------------------------
(* The cached decoder.                                                     *)

\* What feeding one more token does to the cache.
LEMMA StepKeepsCache ==
  ASSUME Shape, CacheInv, pos < MaxCtx, MaxCtx \in Nat, MaxCtx' = MaxCtx, NEW token,
         Step(token), Agree(Tokens, Tokens', pos), Tokens'[pos + 1] = token
  PROVE  /\ CacheInv' /\ pos' = pos + 1
         /\ cache' = [l \in 1 .. Layers |-> cache'[l]]
         /\ \A l \in 1 .. Layers : DOMAIN cache'[l] = 0 .. MaxCtx - 1
<1> DEFINE t == Tokens'
           n == pos + 1
<1>1. pos \in Nat /\ Layers \in Nat BY DecodeAssumption DEF Shape
<1>2. \A l \in 1 .. Layers : \A j \in 0 .. pos - 1 :
         cache[l][j] = Recomputed(t, n, l - 1)[j]
  <2> SUFFICES ASSUME NEW l \in 1 .. Layers, NEW j \in 0 .. pos - 1
               PROVE  cache[l][j] = Recomputed(t, n, l - 1)[j]
    OBVIOUS
  <2>1. Agree(t, Tokens, pos) BY DEF Agree
  <2>2. l - 1 \in Nat BY <1>1
  <2>3. pos <= n /\ n \in Nat BY <1>1
  <2>4. cache[l][j] = Recomputed(Tokens, pos, l - 1)[j] BY DEF CacheInv
  <2> HIDE DEF t, n
  <2>5. Recomputed(t, n, l - 1)[j] = Recomputed(Tokens, pos, l - 1)[j]
    BY <1>1, <2>1, <2>2, <2>3, Causal
  <2> QED BY <2>4, <2>5
<1>3. t[pos + 1] = token OBVIOUS
<1>4. /\ cache' = [l \in 1 .. Layers |->
                     [cache[l] EXCEPT ![pos] = Recomputed(t, n, l - 1)[pos]]]
      /\ next' = Predict(Recomputed(t, n, Layers)[pos])
      /\ pos' = pos + 1
  <2> HIDE DEF t
  <2> QED BY <1>1, <1>2, <1>3, StepRows
<1> HIDE DEF t
<1>5. \A l \in 1 .. Layers :
         cache'[l] = [cache[l] EXCEPT ![pos] = Recomputed(t, n, l - 1)[pos]]
  BY <1>4, Zenon
<1>6. cache' = [l \in 1 .. Layers |-> cache'[l]] BY <1>4, <1>5, Zenon
<1>7. ASSUME NEW l \in 1 .. Layers
      PROVE  /\ DOMAIN cache'[l] = 0 .. MaxCtx - 1
             /\ \A j \in pos + 1 .. MaxCtx - 1 : cache'[l][j] = Zero
             /\ \A j \in 0 .. pos : cache'[l][j] = Recomputed(t, n, l - 1)[j]
  <2> DEFINE c == cache[l]
             r == Recomputed(t, n, l - 1)
  <2>1. DOMAIN c = 0 .. MaxCtx - 1 BY DEF Shape
  <2>2. \A j \in pos .. MaxCtx - 1 : c[j] = Zero BY DEF CacheInv
  <2>3. \A j \in 0 .. pos - 1 : c[j] = r[j] BY <1>2
  <2>4. cache'[l] = [c EXCEPT ![pos] = r[pos]] BY <1>5
  <2> HIDE DEF c, r
  <2>5. DOMAIN cache'[l] = 0 .. MaxCtx - 1 BY <2>1, <2>4, Zenon
  <2>6. \A j \in 0 .. MaxCtx - 1 : cache'[l][j] = IF j = pos THEN r[pos] ELSE c[j]
    BY <2>1, <2>4
  <2>7. ASSUME NEW j \in pos + 1 .. MaxCtx - 1 PROVE cache'[l][j] = Zero
    <3>1. j \in 0 .. MaxCtx - 1 /\ j # pos /\ j \in pos .. MaxCtx - 1 BY <1>1
    <3> QED BY <3>1, <2>2, <2>6
  <2>8. ASSUME NEW j \in 0 .. pos PROVE cache'[l][j] = r[j]
    <3>1. j \in 0 .. MaxCtx - 1 BY <1>1
    <3>2. j # pos => j \in 0 .. pos - 1 BY <1>1
    <3> QED BY <3>1, <3>2, <2>3, <2>6
  <2> QED BY <2>5, <2>7, <2>8 DEF r
<1>8. CacheInv'
  <2>1. ASSUME NEW l \in 1 .. Layers
        PROVE  /\ \A j \in pos' .. MaxCtx - 1 : cache'[l][j] = Zero
               /\ \A j \in 0 .. pos' - 1 : cache'[l][j] = Recomputed(t, pos', l - 1)[j]
    <3>1. pos' = n /\ pos' - 1 = pos BY <1>1, <1>4
    <3> QED BY <1>7, <3>1
  <2>2. next' = Predict(Recomputed(t, pos', Layers)[pos' - 1])
    <3>1. pos' = n /\ pos' - 1 = pos BY <1>1, <1>4
    <3> QED BY <1>4, <3>1
  <2> QED BY <2>1, <2>2 DEF CacheInv, Predicted, t
<1> QED BY <1>4, <1>6, <1>7, <1>8

\* How many tokens there are, and which.
LEMMA TokensAre ==
  ASSUME Shape
  PROVE  /\ Len(prompt) \in Nat /\ Len(gen) \in Nat
         /\ \A i \in 1 .. Len(prompt) : Tokens[i] = prompt[i]
         /\ \A i \in 1 .. Len(gen) : Tokens[Len(prompt) + i] = gen[i]
<1>1. IsSeq(prompt) /\ IsSeq(gen) BY DEF Shape
<1>2. /\ Len(prompt) \in Nat /\ Len(gen) \in Nat
      /\ \A i \in 1 .. Len(prompt) : (prompt \o gen)[i] = prompt[i]
      /\ \A i \in 1 .. Len(gen) : (prompt \o gen)[Len(prompt) + i] = gen[i]
  BY <1>1, Joined
<1> QED BY <1>2, Zenon DEF Tokens

LEMMA PrefillKeeps == DecodeInv /\ Prefill => DecodeInv'
<1> SUFFICES ASSUME DecodeInv, Prefill PROVE DecodeInv' OBVIOUS
<1>1. /\ phase = "prefill" /\ pos < Len(prompt) /\ Step(prompt[pos + 1])
      /\ prompt' = prompt /\ maxNew' = maxNew /\ length' = length /\ phase' = phase
      /\ seq' = seq /\ gen' = gen
  BY DEF Prefill
<1>2. Shape /\ Progress /\ CacheInv /\ GenInv /\ SeqInv BY DEF DecodeInv
<1>3. pos \in Nat /\ Len(prompt) \in Nat /\ Len(gen) \in Nat /\ maxNew \in Nat
  BY <1>2, TokensAre DEF Shape
<1>4. MaxCtx' = MaxCtx /\ Tokens' = Tokens BY <1>1 DEF MaxCtx, Tokens
<1>5. MaxCtx \in Nat /\ pos < MaxCtx BY <1>1, <1>3 DEF MaxCtx
<1>6. Agree(Tokens, Tokens', pos) BY <1>4 DEF Agree
<1>7. Tokens'[pos + 1] = prompt[pos + 1]
  <2>1. pos + 1 \in 1 .. Len(prompt) BY <1>1, <1>3
  <2> QED BY <1>2, <1>4, <2>1, TokensAre
<1>8. /\ CacheInv' /\ pos' = pos + 1
      /\ cache' = [l \in 1 .. Layers |-> cache'[l]]
      /\ \A l \in 1 .. Layers : DOMAIN cache'[l] = 0 .. MaxCtx - 1
  BY <1>1, <1>2, <1>4, <1>5, <1>6, <1>7, StepKeepsCache
<1>9. Shape' BY <1>1, <1>2, <1>3, <1>4, <1>8 DEF Shape
<1>10. Progress' BY <1>1, <1>2, <1>3, <1>8 DEF Progress
<1>11. GenInv' BY <1>1, <1>2, <1>4 DEF GenInv, Predicted
<1>12. SeqInv'
  <2>1. GraphGoesOn' = GraphGoesOn BY <1>1 DEF GraphGoesOn, Generated
  <2> QED BY <1>1, <1>2, <2>1 DEF SeqInv, Predicted
<1> QED BY <1>8, <1>9, <1>10, <1>11, <1>12 DEF DecodeInv

LEMMA DecodeKeeps == DecodeInv /\ Decode => DecodeInv'
<1> SUFFICES ASSUME DecodeInv, Decode PROVE DecodeInv' OBVIOUS
<1>1. /\ phase = "decode" /\ Len(gen) < maxNew /\ gen' = Append(gen, next) /\ Step(next)
      /\ prompt' = prompt /\ maxNew' = maxNew /\ length' = length /\ phase' = phase
      /\ seq' = seq
  BY DEF Decode
<1>2. Shape /\ Progress /\ CacheInv /\ GenInv /\ SeqInv BY DEF DecodeInv
<1>3. pos \in Nat /\ Len(prompt) \in Nat /\ Len(gen) \in Nat /\ maxNew \in Nat
      /\ Len(prompt) > 0 /\ pos = Len(prompt) + Len(gen)
  BY <1>1, <1>2, TokensAre DEF Shape, Progress
<1>4. MaxCtx' = MaxCtx BY <1>1 DEF MaxCtx
<1>5. MaxCtx \in Nat /\ pos < MaxCtx BY <1>1, <1>3 DEF MaxCtx
<1>6. /\ IsSeq(gen') /\ Len(gen') = Len(gen) + 1
      /\ \A i \in 1 .. Len(gen) : gen'[i] = gen[i]
      /\ gen'[Len(gen) + 1] = next
  BY <1>1, <1>2, Appended DEF Shape
<1>7. /\ \A i \in 1 .. Len(prompt) : Tokens'[i] = prompt[i]
      /\ \A i \in 1 .. Len(gen) + 1 : Tokens'[Len(prompt) + i] = gen'[i]
  <2>1. IsSeq(prompt) /\ IsSeq(gen') BY <1>2, <1>6 DEF Shape
  <2>2. Tokens' = prompt \o gen' BY <1>1 DEF Tokens
  <2>3. /\ \A i \in 1 .. Len(prompt) : (prompt \o gen')[i] = prompt[i]
        /\ \A i \in 1 .. Len(gen') : (prompt \o gen')[Len(prompt) + i] = gen'[i]
    BY <2>1, Joined
  <2> QED BY <1>6, <2>2, <2>3
<1>8. Agree(Tokens, Tokens', pos)
  <2> SUFFICES ASSUME NEW i \in 1 .. pos PROVE Tokens[i] = Tokens'[i] BY DEF Agree
  <2>1. CASE i <= Len(prompt)
    <3>1. i \in 1 .. Len(prompt) BY <1>3, <2>1
    <3> QED BY <1>2, <1>7, <3>1, TokensAre
  <2>2. CASE ~(i <= Len(prompt))
    <3>1. i - Len(prompt) \in 1 .. Len(gen) /\ i - Len(prompt) \in 1 .. Len(gen) + 1
          /\ Len(prompt) + (i - Len(prompt)) = i
      BY <1>3, <2>2
    <3>2. Tokens[i] = gen[i - Len(prompt)] BY <1>2, <3>1, TokensAre
    <3>3. Tokens'[i] = gen'[i - Len(prompt)] BY <1>7, <3>1
    <3> QED BY <1>6, <3>1, <3>2, <3>3
  <2> QED BY <2>1, <2>2
<1>9. Tokens'[pos + 1] = next
  <2>1. Len(gen) + 1 \in 1 .. Len(gen) + 1 /\ Len(prompt) + (Len(gen) + 1) = pos + 1
    BY <1>3
  <2> QED BY <1>6, <1>7, <2>1
<1>10. /\ CacheInv' /\ pos' = pos + 1
       /\ cache' = [l \in 1 .. Layers |-> cache'[l]]
       /\ \A l \in 1 .. Layers : DOMAIN cache'[l] = 0 .. MaxCtx - 1
  BY <1>1, <1>2, <1>4, <1>5, <1>8, <1>9, StepKeepsCache
<1>11. Shape' BY <1>1, <1>2, <1>3, <1>4, <1>6, <1>10 DEF Shape
<1>12. Progress' BY <1>1, <1>2, <1>3, <1>6, <1>10 DEF Progress
<1>13. GenInv'
  <2>1. ASSUME NEW k \in Len(prompt) + 1 .. pos + 1
        PROVE  Tokens'[k] = Predicted(Tokens', k - 1)
    <3>1. k - 1 \in Nat /\ k - 1 > 0 /\ k - 1 <= k - 1 /\ k - 1 <= pos BY <1>3
    <3>2. Agree(Tokens, Tokens', k - 1) BY <1>3, <1>8, <3>1 DEF Agree
    <3>3. Predicted(Tokens, k - 1) = Predicted(Tokens', k - 1)
      BY <3>1, <3>2, SamePrediction DEF Predicted
    <3>4. CASE k = pos + 1
      <4>1. k - 1 = pos /\ pos > 0 BY <1>3, <3>4
      <4>2. next = Predicted(Tokens, pos) BY <1>2, <4>1 DEF CacheInv
      <4> QED BY <1>9, <3>3, <3>4, <4>1, <4>2
    <3>5. CASE k # pos + 1
      <4>1. k \in Len(prompt) + 1 .. Len(prompt) + Len(gen) /\ k \in 1 .. pos BY <1>3, <3>5
      <4>2. Tokens[k] = Predicted(Tokens, k - 1) BY <1>2, <4>1 DEF GenInv
      <4>3. Tokens'[k] = Tokens[k] BY <1>8, <4>1 DEF Agree
      <4> QED BY <3>3, <4>2, <4>3
    <3> QED BY <3>4, <3>5
  <2>2. Len(prompt) + Len(gen') = pos + 1 BY <1>3, <1>6
  <2> QED BY <1>1, <2>1, <2>2 DEF GenInv, Predicted
<1>14. SeqInv' 
  <2>1. GraphGoesOn' = GraphGoesOn BY <1>1 DEF GraphGoesOn, Generated
  <2> QED BY <1>1, <1>2, <2>1 DEF SeqInv, Predicted
<1> QED BY <1>10, <1>11, <1>12, <1>13, <1>14 DEF DecodeInv

LEMMA EndsKeep == DecodeInv /\ (EndGraph \/ EndPrefill \/ EndDecode \/ DecodeDone)
                    => DecodeInv'
<1> SUFFICES ASSUME DecodeInv, EndGraph \/ EndPrefill \/ EndDecode \/ DecodeDone
             PROVE  DecodeInv'
  OBVIOUS
<1>1. /\ prompt' = prompt /\ maxNew' = maxNew /\ length' = length /\ seq' = seq
      /\ cache' = cache /\ pos' = pos /\ next' = next /\ gen' = gen
  BY DEF EndGraph, EndPrefill, EndDecode, DecodeDone, vars
<1>2. Shape /\ Progress /\ CacheInv /\ GenInv /\ SeqInv BY DEF DecodeInv
<1>3. MaxCtx' = MaxCtx /\ Tokens' = Tokens /\ GraphGoesOn' = GraphGoesOn
  BY <1>1 DEF MaxCtx, Tokens, GraphGoesOn, Generated
<1>4. \/ phase = "graph" /\ ~GraphGoesOn /\ phase' = "prefill"
      \/ phase = "prefill" /\ pos = Len(prompt) /\ phase' = "decode"
      \/ phase = "decode" /\ Len(gen) = maxNew /\ phase' = "done"
      \/ phase = "done" /\ phase' = "done"
  BY DEF EndGraph, EndPrefill, EndDecode, DecodeDone, vars
<1>5. Shape' BY <1>1, <1>2, <1>3, <1>4 DEF Shape
<1>6. Progress'
  <2>1. phase = "prefill" => Len(gen) = 0 BY <1>2 DEF Progress
  <2>2. Len(prompt) \in Nat /\ Len(gen) \in Nat /\ pos \in Nat BY <1>2, TokensAre DEF Shape
  <2> QED BY <1>1, <1>2, <1>4, <2>1, <2>2 DEF Progress
<1>7. CacheInv' BY <1>1, <1>2, <1>3 DEF CacheInv, Predicted
<1>8. GenInv' BY <1>1, <1>2, <1>3 DEF GenInv, Predicted
<1>9. SeqInv' BY <1>1, <1>2, <1>3, <1>4 DEF SeqInv, Predicted
<1> QED BY <1>5, <1>6, <1>7, <1>8, <1>9 DEF DecodeInv

\* Every reachable state of the two decoders satisfies the invariant.
THEOREM DecodeInvariant == DecodeSpec => []DecodeInv
<1>1. DecodeInv /\ [DecodeNext]_vars => DecodeInv'
  <2> SUFFICES ASSUME DecodeInv, [DecodeNext]_vars PROVE DecodeInv' OBVIOUS
  <2>1. CASE GraphStep BY <2>1, GraphStepKeeps
  <2>2. CASE Prefill BY <2>2, PrefillKeeps
  <2>3. CASE Decode BY <2>3, DecodeKeeps
  <2>4. CASE EndGraph \/ EndPrefill \/ EndDecode \/ DecodeDone BY <2>4, EndsKeep
  <2>5. CASE UNCHANGED vars
    <3>1. MaxCtx' = MaxCtx /\ Tokens' = Tokens /\ GraphGoesOn' = GraphGoesOn
      BY <2>5 DEF vars, MaxCtx, Tokens, GraphGoesOn, Generated
    <3> QED
      BY <2>5, <3>1
      DEF vars, DecodeInv, Shape, Progress, CacheInv, GenInv, SeqInv, Predicted
  <2> QED BY <2>1, <2>2, <2>3, <2>4, <2>5 DEF DecodeNext
<1> QED BY <1>1, InitInv, PTL DEF DecodeSpec
-----------------------------------------------------------------------------
(* What follows from it.                                                   *)

\* The cache of KVDecoder always holds, for every layer and position passed,
\* what recomputing all tokens fed so far would put there, and nothing else:
\* the reason why a step need not touch the earlier positions.
THEOREM CacheAlwaysRight == DecodeSpec => []CacheIsRecomputation
<1>1. DecodeInv => CacheIsRecomputation
  <2> SUFFICES ASSUME DecodeInv PROVE CacheIsRecomputation OBVIOUS
  <2>1. Shape /\ Progress /\ CacheInv BY DEF DecodeInv
  <2>2. Len(prompt) \in Nat /\ Len(gen) \in Nat /\ pos \in Nat /\ IsSeq(prompt) /\ IsSeq(gen)
    BY <2>1, TokensAre DEF Shape
  <2>3. IsSeq(prompt \o gen) /\ pos <= Len(prompt \o gen)
    <3>1. Len(prompt \o gen) = Len(prompt) + Len(gen) /\ IsSeq(prompt \o gen)
      BY <2>2, Joined
    <3> QED BY <2>1, <2>2, <3>1 DEF Progress
  <2>4. Agree(Fed, Tokens, pos)
    <3>1. 1 \in Nat /\ 1 <= 1 /\ 1 <= pos + 1 /\ pos - 1 + 1 = pos BY <2>2
    <3>2. \A i \in 1 .. pos - 1 + 1 : SubSeq(prompt \o gen, 1, pos)[i] = (prompt \o gen)[1 + i - 1]
      BY <2>2, <2>3, <3>1, Part
    <3>3. \A i \in 1 .. pos : 1 + i - 1 = i BY <2>2
    <3> QED BY <3>1, <3>2, <3>3 DEF Fed, Tokens, Agree
  <2>5. ASSUME NEW l \in 1 .. Layers, NEW j \in 0 .. pos - 1
        PROVE  cache[l][j] = Recomputed(Fed, pos, l - 1)[j]
    <3>1. cache[l][j] = Recomputed(Tokens, pos, l - 1)[j] BY <2>1 DEF CacheInv
    <3>2. l - 1 \in Nat /\ pos <= pos BY <2>2
    <3>3. Recomputed(Fed, pos, l - 1)[j] = Recomputed(Tokens, pos, l - 1)[j]
      BY <2>2, <2>4, <3>2, Causal
    <3> QED BY <3>1, <3>3
  <2>6. \A l \in 1 .. Layers : \A j \in pos .. MaxCtx - 1 : cache[l][j] = Zero
    BY <2>1 DEF CacheInv
  <2> QED BY <2>5, <2>6 DEF CacheIsRecomputation
<1> QED BY <1>1, DecodeInvariant, PTL

\* As far as the graph's sequence goes, the cached decoder emits the same.
LEMMA SameTokens ==
  ASSUME DecodeInv, phase = "done"
  PROVE  \A i \in 1 .. Len(seq) : seq[i] = Tokens[i]
<1>1. Shape /\ Progress /\ GenInv /\ SeqInv BY DEF DecodeInv
<1>2. Len(prompt) \in Nat /\ Len(prompt) > 0 /\ Len(gen) \in Nat /\ maxNew \in Nat
      /\ Len(gen) = maxNew
  BY <1>1, TokensAre DEF Shape, Progress
<1>3. Len(seq) \in Nat /\ Len(seq) <= Len(prompt) + maxNew
  BY <1>1, Appended DEF Shape, SeqInv
<1> DEFINE S == {n \in Nat : n <= Len(seq) => Agree(seq, Tokens, n)}
<1>4. 0 \in S BY DEF Agree
<1>5. ASSUME NEW n \in S PROVE n + 1 \in S
  <2> SUFFICES ASSUME n + 1 <= Len(seq) PROVE Agree(seq, Tokens, n + 1) OBVIOUS
  <2>1. n \in Nat /\ n <= Len(seq) BY <1>3
  <2>2. Agree(seq, Tokens, n) BY <2>1
  <2> HIDE DEF S
  <2>3. seq[n + 1] = Tokens[n + 1]
    <3>1. CASE n + 1 <= Len(prompt)
      <4>1. n + 1 \in 1 .. Len(prompt) BY <2>1, <3>1, <1>2
      <4> QED BY <1>1, <4>1, TokensAre DEF SeqInv
    <3>2. CASE ~(n + 1 <= Len(prompt))
      <4>1. /\ n + 1 \in Len(prompt) + 1 .. Len(seq)
            /\ n + 1 \in Len(prompt) + 1 .. Len(prompt) + Len(gen)
            /\ (n + 1) - 1 = n /\ n > 0 /\ n <= n
        BY <1>2, <1>3, <2>1, <3>2
      <4>2. seq[n + 1] = Predicted(seq, n) BY <1>1, <4>1 DEF SeqInv
      <4>3. Tokens[n + 1] = Predicted(Tokens, n) BY <1>1, <4>1 DEF GenInv
      <4>4. Predicted(seq, n) = Predicted(Tokens, n)
        BY <2>1, <2>2, <4>1, SamePrediction DEF Predicted
      <4> QED BY <4>2, <4>3, <4>4
    <3> QED BY <3>1, <3>2
  <2>4. ASSUME NEW i \in 1 .. n + 1 PROVE seq[i] = Tokens[i]
    <3>1. i = n + 1 \/ i \in 1 .. n BY <2>1
    <3> QED BY <2>2, <2>3, <3>1 DEF Agree
  <2> QED BY <2>4 DEF Agree
<1> HIDE DEF S
<1>6. S \in SUBSET Nat BY DEF S
<1>7. S = Nat BY <1>4, <1>5, <1>6, Induction
<1>8. Agree(seq, Tokens, Len(seq)) BY <1>3, <1>7 DEF S
<1> QED BY <1>8 DEF Agree

\* When both decoders of --mode bench are through, what the graph generated is
\* what the cached decoder generated, id by id, as far as the graph has
\* positions; the cached decoder always generates what was asked for.
THEOREM DecodersAgree == DecodeSpec => []SameIds
<1>1. DecodeInv => SameIds
  <2> SUFFICES ASSUME DecodeInv, phase = "done"
               PROVE  /\ \A k \in DOMAIN Generated : k \in DOMAIN gen /\ Generated[k] = gen[k]
                      /\ Len(gen) = maxNew
                      /\ Len(Generated) < maxNew => Len(seq) >= length
    BY DEF SameIds
  <2>1. Shape /\ Progress /\ SeqInv BY DEF DecodeInv
  <2>2. Len(prompt) \in Nat /\ Len(gen) \in Nat /\ maxNew \in Nat /\ length \in Nat
        /\ Len(gen) = maxNew /\ IsSeq(seq) /\ IsSeq(gen)
    BY <2>1, TokensAre DEF Shape, Progress
  <2>3. Len(seq) \in Nat /\ Len(prompt) <= Len(seq) /\ Len(seq) <= Len(prompt) + maxNew
    BY <2>1, <2>2, Appended DEF SeqInv
  <2> DEFINE a == Len(prompt) + 1
             m == Len(seq) - Len(prompt)
  <2>4. a \in Nat /\ 1 <= a /\ a <= Len(seq) + 1 /\ Len(seq) - a + 1 = m
        /\ Len(seq) <= Len(seq)
    BY <2>2, <2>3
  <2>5. DOMAIN Generated = 1 .. m /\ \A i \in 1 .. m : Generated[i] = seq[a + i - 1]
    <3>1. /\ DOMAIN SubSeq(seq, a, Len(seq)) = 1 .. Len(seq) - a + 1
          /\ \A i \in 1 .. Len(seq) - a + 1 : SubSeq(seq, a, Len(seq))[i] = seq[a + i - 1]
      BY <2>2, <2>3, <2>4, Part
    <3> QED BY <2>4, <3>1 DEF Generated
  <2>6. DOMAIN gen = 1 .. Len(gen) BY <2>2 DEF IsSeq
  <2>7. ASSUME NEW k \in 1 .. m PROVE k \in DOMAIN gen /\ Generated[k] = gen[k]
    <3>1. k \in 1 .. Len(gen) /\ Len(prompt) + k \in 1 .. Len(seq)
          /\ a + k - 1 = Len(prompt) + k
      BY <2>2, <2>3
    <3>2. seq[Len(prompt) + k] = Tokens[Len(prompt) + k] BY <3>1, SameTokens
    <3>3. Tokens[Len(prompt) + k] = gen[k] BY <2>1, <3>1, TokensAre
    <3>4. Generated[k] = seq[Len(prompt) + k] BY <2>5, <3>1
    <3> QED BY <2>6, <3>1, <3>2, <3>3, <3>4
  <2>8. Len(Generated) < maxNew => Len(seq) >= length
    BY <2>1, <2>2, <2>3 DEF SeqInv, GraphGoesOn
  <2> QED BY <2>2, <2>5, <2>7, <2>8
<1> QED BY <1>1, DecodeInvariant, PTL
=============================================================================
