----------------------------- MODULE RemoteImpl -----------------------------
(***************************************************************************)
(* common_speculative_impl_draft_remote_dspark, the server's side of the   *)
(* remote drafter, with its gRPC client and the slot that drives it.       *)
(*                                                                         *)
(* A hidden state depends on the whole prefix that led to it, so the       *)
(* features of a position are that prefix: two packets are equal iff the   *)
(* target was in the same state.                                           *)
(*                                                                         *)
(* The edge is the environment here: it answers a call with anything.      *)
(* RemoteDspark puts the daemon in its place.  The slot (llama.cpp's       *)
(* server, outside the repository) decodes a prompt, lets the drafter      *)
(* begin, and then alternates draft, decode and acceptance.                *)
(***************************************************************************)
EXTENDS Integers, Sequences, SequencesExt

CONSTANTS
    Vocabulary,       \* tokens the target can emit
    Media,            \* what an embedding batch decodes at a position
    EmbdBatches,      \* may a prompt hold embedding positions?
    n_max,            \* params.n_max
    BlockSize,        \* block_size from the handshake
    MaxPrompt,        \* bound: length of a prompt
    MaxLen,           \* bound: context size of the slot
    MaxGenerations    \* bound: generations started

ASSUME RemoteAssumption ==
    /\ Media \notin Vocabulary
    /\ EmbdBatches \in BOOLEAN
    /\ {n_max, BlockSize, MaxPrompt, MaxLen, MaxGenerations} \subseteq Nat \ {0}
    /\ MaxPrompt < MaxLen

VARIABLES
    drafter,      \* is there a drafter, i.e. did the handshake succeed?
    feats,        \* position -> packet of the position's last token decode
    prefilled, n_sent, prev_n_past, step_id,
    stats,        \* draft_tokens, accepted_tokens, fallback_steps (dspark_stats.h)
    ctx,          \* the slot: committed tokens, n_past of them
    id_last,      \* the slot: sampled, not yet decoded
    block,        \* the slot: the draft to verify
    pc,           \* where the server's thread is
    generation,   \* generations begun
    call, reply,  \* the client's outstanding RPC and its outcome
    shipped,      \* history: packets handed to the client since begin()
    verified      \* history: draft tokens the target has accepted

slot      == <<ctx, id_last, block, generation>>
book      == <<prefilled, n_sent, prev_n_past, step_id>>
rpc       == <<call, reply>>
history   == <<shipped, verified>>
vars == <<drafter, feats, book, stats, slot, pc, rpc, history>>

NoCall  == [kind |-> "none"]
NoReply == [pending |-> TRUE]

n_past == Len(ctx)

max_draft_tokens == IF n_max < BlockSize THEN n_max ELSE BlockSize

-----------------------------------------------------------------------------
\* The packet process() captures for the last position of a prefix.
PacketOf(prefix) ==
    [token |-> Last(prefix), position |-> Len(prefix) - 1, features |-> prefix]

\* Mutant: what a position already holds is not captured over.
Process_KeepsFirst(f, seq, first) ==
    LET captured == IF drafter
                    THEN {p \in first .. Len(seq) - 1 : seq[p + 1] # Media} ELSE {}
    IN  [p \in DOMAIN f \cup captured |->
            IF p \notin DOMAIN f THEN PacketOf(SubSeq(seq, 1, p + 1)) ELSE f[p]]

\* process() after tokens at positions first, ... of seq were decoded: each is
\* captured over what its position held.  Embedding batches are not captured: at
\* their positions what an earlier decode left stays.  Without a drafter nothing
\* is captured.  A layer that was not extracted ends process() early; the
\* constructor asked for the extraction of exactly the layers it reads here.
Process(f, seq, first) ==
    LET captured == IF drafter
                    THEN {p \in first .. Len(seq) - 1 : seq[p + 1] # Media} ELSE {}
    IN  [p \in DOMAIN f \cup captured |->
            IF p \in captured THEN PacketOf(SubSeq(seq, 1, p + 1)) ELSE f[p]]

Missing(lo, hi) == \E p \in lo .. hi : p \notin DOMAIN feats

Gather(lo, hi) == [i \in 1 .. hi - lo + 1 |-> feats[lo + i - 1]]

Send(c) == call' = c /\ reply' = NoReply

-----------------------------------------------------------------------------
Init ==
    /\ drafter = FALSE
    /\ feats = << >>
    /\ prefilled = FALSE /\ n_sent = -1 /\ prev_n_past = -1 /\ step_id = 0
    /\ stats = [draft_tokens |-> 0, accepted_tokens |-> 0,
                fallback_steps |-> 0]
    /\ ctx = << >> /\ id_last = Media /\ block = << >> /\ generation = 0
    /\ pc = "start"
    /\ call = NoCall /\ reply = NoReply
    /\ shipped = << >> /\ verified = 0

\* The constructor's InitSession: refused or unreachable, the server runs on
\* without a drafter.
Handshake(ok) ==
    /\ pc = "start"
    /\ drafter' = ok
    /\ pc' = "idle"
    /\ UNCHANGED <<feats, book, stats, slot, rpc, history>>

\* Mutants: a field is not cleared between generations.
Forget_KeepsSent ==
    prefilled' = FALSE /\ n_sent' = n_sent /\ prev_n_past' = -1 /\ step_id' = 0

Forget_KeepsPrevPast ==
    prefilled' = FALSE /\ n_sent' = -1 /\ prev_n_past' = prev_n_past /\ step_id' = 0

\* begin() starts the books of a generation.
Forget == prefilled' = FALSE /\ n_sent' = -1 /\ prev_n_past' = -1 /\ step_id' = 0

\* A request arrives: the slot keeps n_cached tokens it has in common with the
\* prompt, decodes the others (process() sees them before begin()), samples the
\* first token and begins.
Begin(prompt, n_cached, sampled) ==
    /\ pc = "idle"
    /\ generation < MaxGenerations
    /\ n_cached < Len(prompt)
    /\ IsPrefix(SubSeq(prompt, 1, n_cached), ctx)
    /\ generation' = generation + 1
    /\ ctx' = prompt
    /\ id_last' = sampled
    /\ LET captured == Process(feats, prompt, n_cached)
       IN  feats' = [p \in {q \in DOMAIN captured : q < Len(prompt)} |-> captured[p]]
    /\ Forget
    /\ shipped' = << >>
    /\ IF drafter
       THEN Send([kind |-> "Reset", generation |-> generation']) /\ pc' = "resetting"
       ELSE UNCHANGED rpc /\ pc' = "ready"
    /\ UNCHANGED <<drafter, stats, block, verified>>

Prompts == BoundedSeq(Vocabulary \cup (IF EmbdBatches THEN {Media} ELSE {}), MaxPrompt)

BeginSome ==
    \E prompt \in Prompts \ {<< >>}, sampled \in Vocabulary :
        \E n_cached \in 0 .. Len(prompt) - 1 : Begin(prompt, n_cached, sampled)

\* begin() does not look at what drafter->reset() returns.
ResetReturn ==
    /\ pc = "resetting"
    /\ reply # NoReply
    /\ call' = NoCall /\ reply' = NoReply
    /\ pc' = "ready"
    /\ UNCHANGED <<drafter, feats, book, stats, slot, history>>

-----------------------------------------------------------------------------
\* draft()'s acceptance accounting: all of what was committed since the
\* previous draft but the freshly sampled token was drafted.
Account ==
    LET accepted == n_past - prev_n_past - 1
    IN  /\ stats' = [stats EXCEPT !.accepted_tokens =
                        IF prev_n_past >= 0 /\ accepted > 0 THEN @ + accepted ELSE @]
        /\ prev_n_past' = n_past

\* The slot drafts while a full block and the sampled token still fit.
Drafting == pc = "ready" /\ n_past + 1 + n_max <= MaxLen

\* draft() returns without a call: no drafter.
DraftNone ==
    /\ Drafting
    /\ ~drafter
    /\ block' = << >>
    /\ pc' = "verify"
    /\ UNCHANGED <<drafter, feats, book, stats, ctx, id_last, generation, rpc, history>>

\* draft() returns early: a position it has to ship was never captured.
DraftMissing ==
    /\ Drafting
    /\ drafter
    /\ Missing(IF prefilled THEN n_sent + 1 ELSE 0, n_past - 1)
    /\ Account
    /\ step_id' = IF prefilled THEN step_id + 1 ELSE step_id
    /\ block' = << >>
    /\ pc' = "verify"
    /\ UNCHANGED <<drafter, feats, prefilled, n_sent, ctx, id_last, generation, rpc, history>>

\* The first draft of a generation ships the whole committed prefix.
ShipPrefill ==
    /\ Drafting
    /\ drafter
    /\ ~prefilled
    /\ ~Missing(0, n_past - 1)
    /\ Account
    /\ LET tokens == Gather(0, n_past - 1)
       IN  /\ Send([kind |-> "Prefill", generation |-> generation, tokens |-> tokens])
           /\ shipped' = shipped \o tokens
    /\ pc' = "prefilling"
    /\ UNCHANGED <<drafter, feats, prefilled, n_sent, step_id, slot, verified>>

\* The request draft() builds once n_sent positions were shipped before it.
DraftCall(sent, accepted) ==
    [kind             |-> "Draft",
     generation       |-> generation,
     step_id          |-> step_id + 1,
     position         |-> IF sent < 0 THEN 0 ELSE sent,
     accepted_tokens  |-> accepted,
     max_draft_tokens |-> max_draft_tokens,
     anchor_token     |-> id_last]

\* Mutant: the prefix that prefill() shipped is not marked as sent.
PrefillReturn_NotSent ==
    /\ pc = "prefilling"
    /\ reply # NoReply
    /\ prefilled' = TRUE
    /\ n_sent' = n_sent
    /\ step_id' = step_id + 1
    /\ Send(DraftCall(n_past - 1, << >>))
    /\ pc' = "drafting"
    /\ UNCHANGED <<drafter, feats, prev_n_past, stats, slot, history>>

\* Mutant: a prefill that failed is tried again until it succeeds.
PrefillReturn_Retries ==
    /\ pc = "prefilling"
    /\ reply # NoReply
    /\ IF reply.ok
       THEN /\ prefilled' = TRUE
            /\ n_sent' = n_past - 1
            /\ step_id' = step_id + 1
            /\ Send(DraftCall(n_past - 1, << >>))
            /\ pc' = "drafting"
       ELSE Send(call) /\ UNCHANGED <<prefilled, n_sent, step_id, pc>>
    /\ UNCHANGED <<drafter, feats, prev_n_past, stats, slot, history>>

\* draft() goes on whatever prefill() returned, with nothing left to ship.
PrefillReturn ==
    /\ pc = "prefilling"
    /\ reply # NoReply
    /\ prefilled' = TRUE
    /\ n_sent' = n_past - 1
    /\ step_id' = step_id + 1
    /\ Send(DraftCall(n_past - 1, << >>))
    /\ pc' = "drafting"
    /\ UNCHANGED <<drafter, feats, prev_n_past, stats, slot, history>>

\* Later drafts ship what was committed since; it counts as sent before the
\* call is made.
ShipDraft ==
    /\ Drafting
    /\ drafter
    /\ prefilled
    /\ ~Missing(n_sent + 1, n_past - 1)
    /\ Account
    /\ step_id' = step_id + 1
    /\ LET accepted == Gather(n_sent + 1, n_past - 1)
       IN  /\ Send(DraftCall(n_sent, accepted))
           /\ shipped' = shipped \o accepted
    /\ n_sent' = n_past - 1
    /\ pc' = "drafting"
    /\ UNCHANGED <<drafter, feats, prefilled, slot, verified>>

\* A good answer is the block to verify; any other is a fallback step.
DraftReturn ==
    /\ pc = "drafting"
    /\ reply # NoReply
    /\ IF reply.ok
       THEN /\ stats' = [stats EXCEPT !.draft_tokens = @ + Len(reply.draft_tokens)]
            /\ block' = reply.draft_tokens
       ELSE /\ stats' = [stats EXCEPT !.fallback_steps = @ + 1]
            /\ block' = << >>
    /\ call' = NoCall /\ reply' = NoReply
    /\ pc' = "verify"
    /\ UNCHANGED <<drafter, feats, book, ctx, id_last, generation, history>>

-----------------------------------------------------------------------------
\* The slot decodes id_last and the block, process() captures all of it, and
\* the target keeps the first n_accepted drafts: it disagrees with the next.
Verify(n_accepted, sampled) ==
    LET decoded == ctx \o <<id_last>> \o block
    IN  /\ pc = "verify"
        /\ n_accepted <= Len(block)
        /\ n_accepted < Len(block) => sampled # block[n_accepted + 1]
        /\ feats' = Process(feats, decoded, n_past)
        /\ ctx' = SubSeq(decoded, 1, n_past + 1 + n_accepted)
        /\ id_last' = sampled
        /\ block' = << >>
        /\ verified' = verified + n_accepted
        /\ pc' = "ready"
        /\ UNCHANGED <<drafter, book, stats, generation, rpc, shipped>>

VerifySome ==
    \E n_accepted \in 0 .. BlockSize, sampled \in Vocabulary : Verify(n_accepted, sampled)

\* Generations end between two drafts: a stop token, the token limit, a client
\* that went away, or a full context.  The slot keeps ctx as its prompt cache.
Finish ==
    /\ pc = "ready"
    /\ pc' = "idle"
    /\ UNCHANGED <<drafter, feats, book, stats, slot, rpc, history>>

\* The environment: the outstanding call comes back, one way or the other.
Replies == [ok : {TRUE}, draft_tokens : BoundedSeq(Vocabulary, max_draft_tokens)]
           \cup [ok : {FALSE}]

Answer(r) ==
    /\ call # NoCall
    /\ reply = NoReply
    /\ reply' = r
    /\ UNCHANGED <<drafter, feats, book, stats, slot, pc, call, history>>

Respond == \E r \in Replies : Answer(r)

Shut == pc = "idle" /\ generation = MaxGenerations /\ UNCHANGED vars

Server ==
    \/ ResetReturn \/ PrefillReturn \/ DraftReturn
    \/ DraftNone \/ DraftMissing \/ ShipPrefill \/ ShipDraft
    \/ VerifySome \/ Finish

Next == (\E ok \in BOOLEAN : Handshake(ok)) \/ BeginSome \/ Server \/ Respond \/ Shut

Spec == Init /\ [][Next]_vars

-----------------------------------------------------------------------------
Run == pc \notin {"start", "idle"}

\* The fields are of the types the class declares, whatever the edge answers.
TypeOK ==
    /\ drafter \in BOOLEAN
    /\ DOMAIN feats \subseteq 0 .. MaxLen - 1
    /\ prefilled \in BOOLEAN
    /\ n_sent \in -1 .. n_past - 1
    /\ prev_n_past \in -1 .. MaxLen
    /\ step_id \in Nat
    /\ stats \in [draft_tokens : Nat, accepted_tokens : Nat, fallback_steps : Nat]
    /\ ctx \in Seq(Vocabulary \cup {Media}) /\ n_past <= MaxLen
    /\ id_last \in Vocabulary \cup {Media}
    /\ block \in Seq(Vocabulary) /\ Len(block) <= max_draft_tokens
    /\ pc \in {"start", "idle", "resetting", "ready", "prefilling", "drafting", "verify"}

\* What is captured at the position of a committed token is the target's state
\* there, never that of a rejected draft or of an earlier generation
\* (remote_dspark_impl.h:39, 104, 155).  It says nothing of the positions of an
\* embedding batch: nothing is captured there, and begin() keeps what was there
\* (see ShippedIsDecoded).
FeatsFresh ==
    drafter /\ Run =>
        \A p \in DOMAIN feats :
            p < n_past /\ ctx[p + 1] # Media => feats[p] = PacketOf(SubSeq(ctx, 1, p + 1))

\* What went to the edge since begin() are the committed positions from 0 on, none
\* twice and none skipped, and at a Draft call all of them; for a token it is the
\* token's own packet, never that of a rejected draft (remote_dspark_impl.h:43, 193).
\* Which packet went for the position of an embedding it does not say.
ShippedIsCommitted ==
    Run => /\ Len(shipped) <= n_past
           /\ pc = "drafting" => Len(shipped) = n_past
           /\ \A i \in 1 .. Len(shipped) :
                 /\ shipped[i].position = i - 1
                 /\ ctx[i] # Media => shipped[i] = PacketOf(SubSeq(ctx, 1, i))

\* What the comments say of all positions: the features shipped for one are what
\* the target decoded there for this prompt, "process() has already captured this
\* prompt's features into `feats` at positions 0 .. N-1" (remote_dspark_impl.h:105)
\* and "a re-decoded position overwrites its stale value" (:155).  False once a
\* prompt holds embeddings: at their positions the packet of an earlier prompt
\* stays and is shipped.
ShippedIsDecoded ==
    Run => \A i \in 1 .. Len(shipped) : shipped[i].features = SubSeq(ctx, 1, i)

\* The acceptance accounting never counts a token that was not a draft, across
\* fallback steps and generations (remote_dspark_impl.h:199).
AcceptedWithinProposed ==
    stats.accepted_tokens <= verified /\ verified <= stats.draft_tokens
=============================================================================
