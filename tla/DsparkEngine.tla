---------------------------- MODULE DsparkEngine ----------------------------
(***************************************************************************)
(* dspark_engine: the edge's drafter for one session.  Its KV cache holds  *)
(* the confirmed prefix (prompt features and accepted tokens) followed, at *)
(* times, by the noise block of the last draft or by what a failed         *)
(* injection left behind; kv_confirmed_max says where the confirmed part   *)
(* ends.                                                                   *)
(*                                                                         *)
(* The operations are operators from an engine state to the set of its     *)
(* outcomes, so that the service can apply them inside its handlers.  The  *)
(* behaviour specification at the end is the engine alone, called in any   *)
(* order with any run of packets a server may ship.                        *)
(***************************************************************************)
EXTENDS DraftCache, SequencesExt

CONSTANTS
    Token,            \* token ids
    TokenZero,        \* the token whose id is 0
    Features,         \* hidden states of a token in its context
    Noise,            \* a cell written by the anchor/mask block of run_draft
    BlockSize,        \* trained block size of the draft model
    NUbatch,          \* llama_n_ubatch: packets decoded per injected chunk
    InferenceFaults,  \* may encode, decode or unpacking fail by itself?
    MaxPos, MaxRun    \* bounds: first position and length of a shipped run

Packet == [token : Token, position : Nat, features : Features]
Cell   == Packet \cup {Noise}

ASSUME EngineAssumption ==
    /\ TokenZero \in Token
    /\ Noise \notin Packet
    /\ BlockSize \in Nat \ {0}
    /\ NUbatch \in Nat \ {0}
    /\ InferenceFaults \in BOOLEAN
    /\ MaxPos \in Nat
    /\ MaxRun \in Nat

VARIABLE engine

\* Mutant: last_token_id starts out as LLAMA_TOKEN_NULL.
InitEngine_NullToken == [kv |-> Empty, kv_confirmed_max |-> -1, last_token_id |-> -1]

\* dspark_engine(): empty cache, no confirmed position, no last token.
InitEngine == [kv |-> Empty, kv_confirmed_max |-> -1, last_token_id |-> TokenZero]

\* The packets of consecutive positions that gather() assembles.
RunFrom(first, contents) ==
    [i \in 1 .. Len(contents) |-> [token    |-> contents[i].token,
                                   position |-> first + i - 1,
                                   features |-> contents[i].features]]

-----------------------------------------------------------------------------
\* The cache once the first n packets of the run have been decoded into it.
After(kv, tokens, n) ==
    IF n = 0 THEN kv ELSE Decode(kv, tokens[1].position, SubSeq(tokens, 1, n))

\* Where inject_features starts a chunk, and where that chunk ends.
Offsets(tokens) == {o \in 0 .. Len(tokens) - 1 : o % NUbatch = 0}

ChunkEnd(tokens, o) ==
    IF o + NUbatch < Len(tokens) THEN o + NUbatch ELSE Len(tokens)

ChunkFits(kv, tokens, o) ==
    CanDecode(After(kv, tokens, o), tokens[o + 1].position, ChunkEnd(tokens, o) - o)

\* inject_features: how many packets may have been decoded when it returns.
\* It returns true when that is all of them, and false after the chunks
\* before the one that failed, which stay in the cache.
InjectFeatures(kv, tokens) ==
    {n \in {0} \cup {ChunkEnd(tokens, o) : o \in Offsets(tokens)} :
        /\ \A o \in Offsets(tokens) : o < n => ChunkFits(kv, tokens, o)
        /\ n < Len(tokens) => InferenceFaults \/ ~ChunkFits(kv, tokens, n)}

\* Adopt the last of the injected packets as last_token_id and high-water mark.
Confirm(e, tokens) ==
    IF tokens = << >> THEN e
    ELSE [e EXCEPT !.last_token_id    = Last(tokens).token,
                   !.kv_confirmed_max = Last(tokens).position]

\* Mutant: the mark moves on even if a chunk failed.
Injected_ConfirmsAnyway(e, kv, tokens, n) ==
    Confirm([e EXCEPT !.kv = After(kv, tokens, n)], tokens)

\* What prefill and draft make of an injection into cache kv that got n far.
Injected(e, kv, tokens, n) ==
    LET held == [e EXCEPT !.kv = After(kv, tokens, n)]
    IN  IF n = Len(tokens) THEN Confirm(held, tokens) ELSE held

\* Mutant: prefill empties the cache before it injects.
PrefillOutcomes_ClearsCache(e, tokens) ==
    {[engine |-> Injected([e EXCEPT !.kv_confirmed_max = -1], Empty, tokens, n),
      ok |-> n = Len(tokens)] : n \in InjectFeatures(Empty, tokens)}

\* prefill(): nothing is truncated first.
PrefillOutcomes(e, tokens) ==
    {[engine |-> Injected(e, e.kv, tokens, n), ok |-> n = Len(tokens)] :
        n \in InjectFeatures(e.kv, tokens)}

\* A draft call that returns res.ok = false, leaving the engine as e.
Failure(e) == [engine |-> e, ok |-> FALSE, draft_tokens |-> << >>]

\* Mutant: the request's max_draft_tokens is not looked at.
BlockLength_Ignores(max_draft_tokens) == BlockSize

\* How many tokens run_draft() drafts.
BlockLength(max_draft_tokens) ==
    IF max_draft_tokens < BlockSize THEN max_draft_tokens ELSE BlockSize

\* run_draft(): decode [anchor, mask, ...] after the last cell, then take up to
\* n_draft sampled tokens; a low confidence or an empty candidate list ends the
\* block early.  "from" records what the block was computed from.
RunDraft(e, anchor, max_draft_tokens) ==
    LET n_draft == BlockLength(max_draft_tokens)
        first   == SeqPosMax(e.kv) + 1
        fits    == CanDecode(e.kv, first, n_draft)
        noised  == [e EXCEPT !.kv = Decode(e.kv, first, [i \in 1 .. n_draft |-> Noise])]
        blocks  == {[engine |-> noised, ok |-> TRUE, draft_tokens |-> block,
                     from |-> [kv |-> e.kv, anchor |-> anchor]] :
                       block \in BoundedSeq(Token, n_draft)}
    IN  {out \in blocks : fits} \cup {out \in {Failure(e)} : InferenceFaults \/ ~fits}

\* Token id 0 stands for "no anchor given".
AnchorOf(e, req) ==
    IF req.anchor_token # TokenZero THEN req.anchor_token ELSE e.last_token_id

\* Where draft() starts to drop the cache: behind the high-water mark.
CutFrom_KeepsOneNoiseCell(e) == e.kv_confirmed_max + 2    \* mutant
CutFrom_CutsTheMark(e)       == e.kv_confirmed_max        \* mutant
CutFrom(e)                   == e.kv_confirmed_max + 1

\* draft(): drop everything after the high-water mark, inject the accepted
\* tokens, then draft from the anchor.
DraftOutcomes(e, req) ==
    LET kv       == SeqRm(e.kv, CutFrom(e))
        tokens   == req.accepted_tokens
        reach    == InjectFeatures(kv, tokens)
        grown(n) == Injected(e, kv, tokens, n)
    IN  {Failure(grown(n)) : n \in reach \ {Len(tokens)}}
        \cup
        UNION {RunDraft(grown(n), AnchorOf(grown(n), req), req.max_draft_tokens) :
                 n \in reach \cap {Len(tokens)}}

-----------------------------------------------------------------------------
(***************************************************************************)
(* The engine alone.  The calls come serialized (the service holds the     *)
(* session mutex) and in any order; a prefill starts at position 0, as the *)
(* server's does, and a draft's accepted run starts anywhere, as it does   *)
(* once a call was lost.                                                   *)
(***************************************************************************)
Content == [token : Token, features : Features]
Runs    == {RunFrom(p, c) : p \in 0 .. MaxPos, c \in BoundedSeq(Content, MaxRun)}
Prompts == {RunFrom(0, c) : c \in BoundedSeq(Content, MaxRun)}

Init == engine = InitEngine

Prefill == \E tokens \in Prompts : \E out \in PrefillOutcomes(engine, tokens) :
              engine' = out.engine

Draft == \E tokens \in Runs, anchor \in Token, max \in 0 .. BlockSize :
            \E out \in DraftOutcomes(engine, [accepted_tokens  |-> tokens,
                                             anchor_token     |-> anchor,
                                             max_draft_tokens |-> max]) :
               engine' = out.engine

Reset == engine' = InitEngine

Next == Prefill \/ Draft \/ Reset

Spec == Init /\ [][Next]_engine

-----------------------------------------------------------------------------
\* Stated of an engine state, so that the proofs can speak of intermediate ones.
WellTyped(e) ==
    /\ e = [kv               |-> e.kv,
            kv_confirmed_max |-> e.kv_confirmed_max,
            last_token_id    |-> e.last_token_id]
    /\ IsCache(e.kv, Cell)
    /\ e.kv_confirmed_max \in Nat \cup {-1}
    /\ e.last_token_id \in Token

MarkHeld(e) ==
    e.kv_confirmed_max >= 0 => e.kv_confirmed_max \in e.kv.first .. e.kv.last

CleanUpToMark(e) ==
    \A p \in e.kv.first .. e.kv.last :
        p <= e.kv_confirmed_max => /\ e.kv.cell[p] \in Packet
                                  /\ e.kv.cell[p].position = p

\* The engine's state is of the types its fields declare.
TypeOK == WellTyped(engine)

\* The high-water mark never points outside the cache: whatever was lost or
\* failed before, truncating after it leaves a cache that ends exactly there,
\* which is what lets the next accepted run continue (dspark_engine.cpp:253).
ConfirmedHeld == MarkHeld(engine)

\* Up to the mark the cache holds target features at their own positions, and
\* no cell of a noise block was ever adopted as a confirmed one
\* (dspark_engine.h:118).
ConfirmedClean == CleanUpToMark(engine)

\* A failed or refused call never costs confirmed positions: the mark goes back
\* only by emptying the session.
MarkRetreatsOnlyByReset ==
    [][engine'.kv_confirmed_max < engine.kv_confirmed_max => engine' = InitEngine]_engine

\* The confirmed prefix, of which HeldPrefix states what may become of it.
Held == SeqRm(engine.kv, engine.kv_confirmed_max + 1)

Promise == INSTANCE HeldPrefix WITH held <- Held

\* Every call, failed or not, changes the confirmed prefix in one of the ways
\* HeldPrefix allows: by a whole shipped run, by giving it up, or not at all.
HeldSpec == Promise!Spec
=============================================================================
