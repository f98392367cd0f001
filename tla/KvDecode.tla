------------------------------ MODULE KvDecode ------------------------------
(***************************************************************************)
(* Greedy decoding (src/tools/run_gpt2.cpp), in the order of --mode bench: *)
(* generate_graph recomputes a static graph of `length` positions for each *)
(* token; then generate_kv feeds one token at a time to a KVDecoder, which *)
(* keeps the keys and values of every layer and position in a cache.       *)
(*                                                                         *)
(* Numbers are terms: a row of activations is what it was computed from,   *)
(* and the token with the largest logit is a function of the last row.     *)
(* Both decoders apply the same layer to a row and the rows it attends to, *)
(* so equal terms mean equal ids, whatever the weights; rounding, which    *)
(* could break a tie between logits, is left out.                          *)
(***************************************************************************)
EXTENDS Integers, Sequences

CONSTANTS
    Layers,      \* KVDecoder::L
    Prompts,     \* the prompts, each a non-empty sequence of tokens
    Lengths,     \* the numbers of positions a graph may have been exported for
    Positions,   \* the rows of wpe, the position embedding
    MaxNew       \* bound of --max-new

ASSUME DecodeAssumption ==
    /\ Layers \in Nat /\ Positions \in Nat /\ MaxNew \in Nat
    /\ Lengths \subseteq 1 .. Positions
    /\ \A p \in Prompts : p \in Seq(Int) /\ Len(p) > 0

VARIABLES
    prompt,    \* --ids
    maxNew,    \* --max-new
    length,    \* S, the positions of the graph
    phase,     \* what main is at
    seq,       \* generate_graph: the prompt and what follows it so far
    cache,     \* Kc and Vc: cache[l][j], the row that layer l keeps of position j
    pos,       \* generate_kv: the position of the next token
    next,      \* generate_kv: the token predicted last
    gen        \* generate_kv: the ids generated so far

vars == <<prompt, maxNew, length, phase, seq, cache, pos, next, gen>>

Padding == 0   \* the token of the positions behind the sequence

Zero == <<>>   \* a row of the cache that has not been written

\* The rows that the cache has per layer.
MaxCtx == Len(prompt) + maxNew + 1

DecodeInit ==
    /\ prompt \in Prompts
    /\ maxNew \in 0 .. MaxNew
    /\ length \in Lengths
    /\ phase = "graph"
    /\ seq = prompt
    /\ cache = [l \in 1 .. Layers |-> [j \in 0 .. MaxCtx - 1 |-> Zero]]
    /\ pos = 0 /\ next = Padding /\ gen = <<>>
-----------------------------------------------------------------------------
(* What both decoders compute with.                                        *)

\* wte[token] + wpe[p]; behind wpe there is no telling what is read.
Embed(token, p) == IF p < Positions THEN <<token, p>> ELSE <<token, "outside">>

\* A layer: attention of x over rows, and the rest of the block.
Layer(x, rows) == <<x, rows>>

\* The index of the largest logit computed from x.
Predict(x) == <<"argmax", x>>

\* The rows that enter layer l + 1 when the first n tokens of s go through the
\* graph all at once; the attention is causal.
Recomputed(s, n, l) ==
    LET rows[k \in 0 .. l] ==
          IF k = 0 THEN [i \in 0 .. n - 1 |-> Embed(s[i + 1], i)]
          ELSE LET before == rows[k - 1]
               IN  [i \in 0 .. n - 1 |->
                      Layer(before[i], [j \in 0 .. i |-> before[j]])]
    IN  rows[l]
-----------------------------------------------------------------------------
(* generate_graph.                                                         *)

Generated == SubSeq(seq, Len(prompt) + 1, Len(seq))

GraphGoesOn == Len(Generated) < maxNew /\ Len(seq) < length

\* The sequence, padded to the length of the graph.
Ids == [i \in 1 .. length |-> IF i <= Len(seq) THEN seq[i] ELSE Padding]

\* Mutant: the logits are read one row behind.
GraphStepNextRow ==
    /\ phase = "graph" /\ GraphGoesOn
    /\ LET row == IF Len(seq) < length - 1 THEN Len(seq) ELSE length - 1
       IN  seq' = Append(seq, Predict(Recomputed(Ids, length, Layers)[row]))
    /\ UNCHANGED <<prompt, maxNew, length, phase, cache, pos, next, gen>>

\* One run of the graph: the logits of the last token of the sequence.
GraphStep ==
    /\ phase = "graph" /\ GraphGoesOn
    /\ seq' = Append(seq, Predict(Recomputed(Ids, length, Layers)[Len(seq) - 1]))
    /\ UNCHANGED <<prompt, maxNew, length, phase, cache, pos, next, gen>>

EndGraph ==
    /\ phase = "graph" /\ ~GraphGoesOn
    /\ phase' = "prefill"
    /\ UNCHANGED <<prompt, maxNew, length, seq, cache, pos, next, gen>>
-----------------------------------------------------------------------------
(* generate_kv.                                                            *)

\* Mutant: the new row is appended to the cache after the attention.
StepAppendsLate(token) ==
    LET row[l \in 0 .. Layers] ==
          IF l = 0 THEN Embed(token, pos)
          ELSE Layer(row[l - 1], [j \in 0 .. pos |-> cache[l][j]])
    IN  /\ cache' = [l \in 1 .. Layers |-> [cache[l] EXCEPT ![pos] = row[l - 1]]]
        /\ next' = Predict(row[Layers])
        /\ pos' = pos + 1

\* KVDecoder::step: the layers one after the other, each appending the new
\* row to its cache and attending to the rows up to it.
Step(token) ==
    LET row[l \in 0 .. Layers] ==
          IF l = 0 THEN Embed(token, pos)
          ELSE LET x == row[l - 1]
               IN  Layer(x, [j \in 0 .. pos |-> IF j = pos THEN x ELSE cache[l][j]])
    IN  /\ cache' = [l \in 1 .. Layers |-> [cache[l] EXCEPT ![pos] = row[l - 1]]]
        /\ next' = Predict(row[Layers])
        /\ pos' = pos + 1

\* The prompt, one token at a time.
Prefill ==
    /\ phase = "prefill" /\ pos < Len(prompt)
    /\ Step(prompt[pos + 1])
    /\ UNCHANGED <<prompt, maxNew, length, phase, seq, gen>>

EndPrefill ==
    /\ phase = "prefill" /\ pos = Len(prompt)
    /\ phase' = "decode"
    /\ UNCHANGED <<prompt, maxNew, length, seq, cache, pos, next, gen>>

\* The predicted token is emitted and fed back, the last one too.
Decode ==
    /\ phase = "decode" /\ Len(gen) < maxNew
    /\ gen' = Append(gen, next)
    /\ Step(next)
    /\ UNCHANGED <<prompt, maxNew, length, phase, seq>>

EndDecode ==
    /\ phase = "decode" /\ Len(gen) = maxNew
    /\ phase' = "done"
    /\ UNCHANGED <<prompt, maxNew, length, seq, cache, pos, next, gen>>

DecodeDone == phase = "done" /\ UNCHANGED vars

DecodeNext ==
    \/ GraphStep \/ EndGraph \/ Prefill \/ EndPrefill \/ Decode \/ EndDecode
    \/ DecodeDone

DecodeSpec == DecodeInit /\ [][DecodeNext]_vars
-----------------------------------------------------------------------------
(* Properties.                                                             *)

\* The tokens fed to the KVDecoder so far.
Fed == SubSeq(prompt \o gen, 1, pos)

\* Every layer's cache holds for each position passed the row that a
\* recomputation of all tokens fed so far gives, and nothing behind them: what
\* lets a step leave the earlier positions alone.
CacheIsRecomputation ==
    \A l \in 1 .. Layers :
        /\ \A j \in pos .. MaxCtx - 1 : cache[l][j] = Zero
        /\ \A j \in 0 .. pos - 1 : cache[l][j] = Recomputed(Fed, pos, l - 1)[j]

\* RESULTS.md: "identical tokens".  The graph generates what was asked for, or
\* as much as it has positions for, and the ids are those of the cached
\* decoder, which goes on for longer.
SameIds ==
    phase = "done" =>
        /\ \A k \in DOMAIN Generated : k \in DOMAIN gen /\ Generated[k] = gen[k]
        /\ Len(gen) = maxNew
        /\ Len(Generated) < maxNew => Len(seq) >= length

\* run_gpt2.cpp: "--mode bench : run both, assert identical output ids".
BenchAgrees == phase = "done" => Generated = gen
=============================================================================
