----------------------------- MODULE DraftCache -----------------------------
(***************************************************************************)
(* The draft context's llama.cpp KV memory, restricted to the one sequence *)
(* the drafter uses (seq_id 0).  llama.cpp is not in the repository: these *)
(* operators are what dspark_engine.cpp relies on.                         *)
(*                                                                         *)
(* A cache holds the cells of a run of consecutive positions.  A batch     *)
(* that does not continue the run at the next position is refused (the     *)
(* engine's comment: "continue consecutively (Y = X + 1)"), as is one that *)
(* does not fit the context, and an empty one; a refused batch leaves the  *)
(* cache as it was.                                                        *)
(***************************************************************************)
EXTENDS Integers, Sequences, Functions

CONSTANT NCtx       \* cells of the draft context (llama_n_ctx)

ASSUME NCtxAssumption == NCtx \in Nat

Empty == [first |-> 0, last |-> -1, cell |-> << >>]

\* The caches whose cells are drawn from Cell.
IsCache(kv, Cell) ==
    \/ kv = Empty
    \/ /\ kv = [first |-> kv.first, last |-> kv.last, cell |-> kv.cell]
       /\ kv.first \in Nat
       /\ kv.last \in Nat
       /\ kv.first <= kv.last
       /\ kv.last - kv.first < NCtx
       /\ kv.cell \in [kv.first .. kv.last -> Cell]

\* llama_memory_seq_pos_max: -1 when nothing is held.
SeqPosMax(kv) == kv.last

\* llama_memory_seq_rm(mem, 0, p0, -1): every cell from position p0 on goes.
SeqRm(kv, p0) ==
    IF p0 > kv.last THEN kv
    ELSE IF p0 <= kv.first THEN Empty
    ELSE [first |-> kv.first,
          last  |-> p0 - 1,
          cell  |-> Restrict(kv.cell, kv.first .. p0 - 1)]

\* Will llama_decode take a batch of n cells at positions first, first+1, ...
CanDecode(kv, first, n) ==
    /\ n > 0
    /\ kv = Empty \/ first = SeqPosMax(kv) + 1
    /\ IF kv = Empty THEN n <= NCtx ELSE kv.last - kv.first + 1 + n <= NCtx

\* llama_decode of the batch cells, the first of them at position first.
Decode(kv, first, cells) ==
    LET start == IF kv = Empty THEN first ELSE kv.first
        last  == first + Len(cells) - 1
    IN  [first |-> start,
         last  |-> last,
         cell  |-> [p \in start .. last |->
                      IF p < first THEN kv.cell[p] ELSE cells[p - first + 1]]]
=============================================================================
