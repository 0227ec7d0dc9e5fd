------------------------- MODULE RemoteImpl_proofs -------------------------
(***************************************************************************)
(* Proofs about the server's side of the remote drafter, for any           *)
(* vocabulary, block sizes, prompts and lengths, and any number of         *)
(* generations, against an edge that may answer anything.                  *)
(*                                                                         *)
(* What was shipped is read from what is captured, so its invariant rests  *)
(* on the captured positions being fresh (Fresh), and both on where n_sent *)
(* stands at each point of draft() (Books).                                *)
(***************************************************************************)
EXTENDS RemoteImpl, SequenceTheorems, TLAPS

Slots  == Vocabulary \cup {Media}
Packet == [token : Vocabulary, position : Nat, features : Seq(Slots)]

\* What TypeOK leaves open: what the packets and the reply are, and that a draft
\* is only asked for when a block of it fits.
Typed ==
    /\ TypeOK
    /\ \A p \in DOMAIN feats : feats[p] \in Packet /\ feats[p].position = p
    /\ shipped \in Seq(Packet)
    /\ verified \in Nat
    /\ generation \in Nat
    /\ reply = NoReply \/ reply \in Replies
    /\ pc \in {"prefilling", "drafting", "verify"} => n_past + 1 + n_max <= MaxLen
    /\ pc = "start" => ~drafter
    /\ ~drafter => DOMAIN feats = {}

\* A generation has a context, and a sampled token to continue it with.
Begun ==
    /\ ~EmbdBatches => ctx \in Seq(Vocabulary)
    /\ Run => n_past > 0 /\ id_last \in Vocabulary

\* FeatsFresh, which also holds between generations: begin() relies on it there.
FreshFor(f, seq) ==
    \A p \in DOMAIN f :
        p < Len(seq) /\ seq[p + 1] # Media => f[p] = PacketOf(SubSeq(seq, 1, p + 1))

Fresh == FreshFor(feats, ctx)

\* n_sent is the last position that was shipped, but during prefill(); a draft
\* after the first has something to ship.
Books ==
    Run => /\ Len(shipped) = IF pc = "prefilling" THEN n_past ELSE n_sent + 1
           /\ ~prefilled => n_sent = -1
           /\ pc \in {"resetting", "prefilling"} => ~prefilled
           /\ pc = "ready" /\ prefilled => n_sent < n_past - 1
           /\ pc = "drafting" => n_sent = n_past - 1

\* What was shipped is the committed prefix, as far as it goes.
Shipped ==
    Run => \A i \in 1 .. Len(shipped) :
              /\ shipped[i].position = i - 1
              /\ ctx[i] # Media => shipped[i] = PacketOf(SubSeq(ctx, 1, i))

\* The outstanding call is the one the thread waits for, and a Draft's accepted
\* tokens are the last of what was shipped.
Calls ==
    /\ pc \notin {"resetting", "prefilling", "drafting"} => call = NoCall /\ reply = NoReply
    /\ pc = "resetting" => call = [kind |-> "Reset", generation |-> generation]
    /\ pc = "prefilling" =>
          call = [kind |-> "Prefill", generation |-> generation, tokens |-> shipped]
    /\ pc = "drafting" =>
          /\ call.kind = "Draft" /\ call.generation = generation
          /\ call.step_id = step_id
          /\ call.max_draft_tokens = max_draft_tokens
          /\ LET tokens == call.accepted_tokens
                 before == Len(shipped) - Len(tokens)
             IN  /\ tokens \in Seq(Packet) /\ before >= 0
                 /\ \A i \in 1 .. Len(tokens) : tokens[i] = shipped[before + i]

\* Where the acceptance accounting stands: a verified block is not yet accounted
\* for when the next draft() begins, and a drafted one is not yet verified.
Unaccounted ==
    IF pc = "ready" /\ prev_n_past >= 0 THEN n_past - prev_n_past - 1 ELSE 0

Accounts ==
    /\ Unaccounted >= 0
    /\ stats.accepted_tokens + Unaccounted <= verified
    /\ verified + Len(block) <= stats.draft_tokens
    /\ pc # "verify" => block = << >>
    /\ pc = "resetting" \/ ~drafter => prev_n_past = -1
    /\ pc \in {"prefilling", "drafting", "verify"} => prev_n_past \in {-1, n_past}

\* The inductive invariant.
Inv == Typed /\ Begun /\ Fresh /\ Books /\ Shipped /\ Calls /\ Accounts
-----------------------------------------------------------------------------
(* Prefixes, captures and what is gathered from them.                      *)

\* A prefix of a sequence is that of another that agrees with it so far.
LEMMA SamePrefix ==
    ASSUME NEW s \in Seq(Slots), NEW t \in Seq(Slots),
           NEW n \in Nat, n <= Len(s), n <= Len(t),
           \A i \in 1 .. n : s[i] = t[i]
    PROVE  SubSeq(s, 1, n) = SubSeq(t, 1, n)
  <1>1. /\ SubSeq(s, 1, n) \in Seq(Slots) /\ Len(SubSeq(s, 1, n)) = n
        /\ SubSeq(t, 1, n) \in Seq(Slots) /\ Len(SubSeq(t, 1, n)) = n
    BY SubSeqProperties, ElementOfSeq
  <1>2. \A i \in 1 .. n : SubSeq(s, 1, n)[i] = SubSeq(t, 1, n)[i]
    BY SubSeqProperties, ElementOfSeq
  <1>3. QED BY <1>1, <1>2, SeqEqual, Zenon

\* The packet of a prefix that ends in a token is that token's.
LEMMA PacketOfPrefix ==
    ASSUME NEW s \in Seq(Slots), NEW p \in Nat, p < Len(s), s[p + 1] # Media
    PROVE  /\ PacketOf(SubSeq(s, 1, p + 1)) \in Packet
           /\ PacketOf(SubSeq(s, 1, p + 1)).position = p
  <1> DEFINE prefix == SubSeq(s, 1, p + 1)
  <1>1. prefix \in Seq(Slots) /\ Len(prefix) = p + 1
    BY SubSeqProperties, ElementOfSeq
  <1>2. prefix[p + 1] = s[p + 1] /\ s[p + 1] \in Vocabulary
    BY SubSeqProperties, ElementOfSeq DEF Slots
  <1> HIDE DEF prefix
  <1>3. PacketOf(prefix) \in Packet /\ PacketOf(prefix).position = p
    BY <1>1, <1>2 DEF PacketOf, Last, Packet
  <1>4. QED BY <1>3 DEF prefix

Captured(f) == \A p \in DOMAIN f : f[p] \in Packet /\ f[p].position = p

\* process() holds packets at their positions, and at each position of the batch
\* that of the prefix decoded there.
LEMMA ProcessCaptures ==
    ASSUME NEW f, NEW seq \in Seq(Slots), NEW first \in Nat, Captured(f)
    PROVE  /\ Captured(Process(f, seq, first))
           /\ DOMAIN f \subseteq DOMAIN Process(f, seq, first)
           /\ DOMAIN Process(f, seq, first) \subseteq DOMAIN f \cup first .. Len(seq) - 1
           /\ ~drafter => DOMAIN Process(f, seq, first) = DOMAIN f
           /\ \A p \in DOMAIN f \ (first .. Len(seq) - 1) :
                 Process(f, seq, first)[p] = f[p]
           /\ \A p \in first .. Len(seq) - 1 :
                 drafter /\ seq[p + 1] # Media
                    => Process(f, seq, first)[p] = PacketOf(SubSeq(seq, 1, p + 1))
  <1> DEFINE captured == IF drafter THEN {p \in first .. Len(seq) - 1 : seq[p + 1] # Media}
                                    ELSE {}
             g == Process(f, seq, first)
             P(p) == PacketOf(SubSeq(seq, 1, p + 1))
  <1>1. g = [p \in DOMAIN f \cup captured |-> IF p \in captured THEN P(p) ELSE f[p]]
    BY DEF Process
  <1>2. \A p \in captured : P(p) \in Packet /\ P(p).position = p
    BY PacketOfPrefix
  <1> HIDE DEF g, P
  <1>3. Captured(g)
    BY <1>1, <1>2 DEF Captured
  <1>4. /\ DOMAIN g = DOMAIN f \cup captured
        /\ \A p \in DOMAIN g : g[p] = IF p \in captured THEN P(p) ELSE f[p]
    BY <1>1
  <1>5. captured \subseteq first .. Len(seq) - 1 /\ (~drafter => captured = {})
    OBVIOUS
  <1>6. \A p \in first .. Len(seq) - 1 : drafter /\ seq[p + 1] # Media => p \in captured
    OBVIOUS
  <1> HIDE DEF captured
  <1>7. \A p \in DOMAIN f \ (first .. Len(seq) - 1) : g[p] = f[p]
    BY <1>4, <1>5
  <1>8. \A p \in first .. Len(seq) - 1 : drafter /\ seq[p + 1] # Media => g[p] = P(p)
    BY <1>4, <1>6
  <1>9. DOMAIN f \subseteq DOMAIN g /\ DOMAIN g \subseteq DOMAIN f \cup first .. Len(seq) - 1
    BY <1>4, <1>5
  <1>10. ~drafter => DOMAIN g = DOMAIN f
    BY <1>4, <1>5
  <1>11. QED BY <1>3, <1>7, <1>8, <1>9, <1>10 DEF g, P

\* What is fresh for a sequence is so for another, as far as the two agree.
LEMMA FreshAgrees ==
    ASSUME NEW f, NEW s \in Seq(Slots), NEW t \in Seq(Slots), FreshFor(f, s),
           NEW n \in Nat, n <= Len(s), n <= Len(t), \A i \in 1 .. n : s[i] = t[i],
           NEW p \in DOMAIN f, p \in Nat, p < n, t[p + 1] # Media
    PROVE  f[p] = PacketOf(SubSeq(t, 1, p + 1))
  <1>1. p < Len(s) /\ s[p + 1] # Media
    <2>1. p + 1 \in 1 .. n /\ Len(s) \in Nat
      OBVIOUS
    <2>2. s[p + 1] = t[p + 1]
      BY <2>1
    <2>3. QED BY <2>1, <2>2
  <1>2. f[p] = PacketOf(SubSeq(s, 1, p + 1))
    BY <1>1 DEF FreshFor
  <1>3. SubSeq(s, 1, p + 1) = SubSeq(t, 1, p + 1)
    <2> DEFINE m == p + 1
    <2>1. m \in Nat /\ m <= n /\ m <= Len(s) /\ m <= Len(t)
      OBVIOUS
    <2> HIDE DEF m
    <2>2. \A i \in 1 .. m : s[i] = t[i]
      BY <2>1
    <2>3. SubSeq(s, 1, m) = SubSeq(t, 1, m)
      BY <2>1, <2>2, SamePrefix
    <2>4. QED BY <2>3 DEF m
  <1>4. QED BY <1>2, <1>3

\* A batch that continues a prefix of what was decoded leaves fresh captures.
LEMMA ProcessFreshens ==
    ASSUME NEW f, NEW s \in Seq(Slots), NEW t \in Seq(Slots), FreshFor(f, s),
           NEW n \in Nat, n <= Len(s), n <= Len(t), \A i \in 1 .. n : s[i] = t[i],
           Captured(f), DOMAIN f \subseteq Nat, drafter \/ DOMAIN f = {}
    PROVE  FreshFor(Process(f, t, n), t)
  <1> DEFINE g == Process(f, t, n)
  <1>1. /\ DOMAIN g \subseteq DOMAIN f \cup n .. Len(t) - 1
        /\ ~drafter => DOMAIN g = DOMAIN f
    BY ProcessCaptures
  <1>2. /\ \A p \in DOMAIN f \ (n .. Len(t) - 1) : g[p] = f[p]
        /\ \A p \in n .. Len(t) - 1 :
              drafter /\ t[p + 1] # Media => g[p] = PacketOf(SubSeq(t, 1, p + 1))
    BY ZenonT(40), ProcessCaptures
  <1> HIDE DEF g
  <1>3. ASSUME NEW p \in DOMAIN g, p < Len(t), t[p + 1] # Media
        PROVE  g[p] = PacketOf(SubSeq(t, 1, p + 1))
    <2>1. p \in Nat /\ drafter
      BY <1>1
    <2>2. CASE p \in n .. Len(t) - 1
      BY <1>2, <1>3, <2>1, <2>2
    <2>3. CASE p \notin n .. Len(t) - 1
      <3>1. p \in DOMAIN f /\ p < n /\ g[p] = f[p]
        BY <1>1, <1>2, <1>3, <2>1, <2>3
      <3>2. QED BY <1>3, <2>1, <3>1, FreshAgrees
    <2>4. QED BY <2>2, <2>3
  <1>4. QED BY <1>3 DEF FreshFor, g

\* What draft() gathers, when nothing of it is missing.
LEMMA Gathered ==
    ASSUME NEW lo \in Nat, NEW hi \in Int, lo <= hi + 1, Captured(feats), ~Missing(lo, hi)
    PROVE  /\ Gather(lo, hi) \in Seq(Packet)
           /\ Len(Gather(lo, hi)) = hi - lo + 1
           /\ \A i \in 1 .. hi - lo + 1 : /\ Gather(lo, hi)[i] = feats[lo + i - 1]
                                          /\ Gather(lo, hi)[i].position = lo + i - 1
                                          /\ lo + i - 1 \in DOMAIN feats
  <1> DEFINE n == hi - lo + 1
             g == [i \in 1 .. n |-> feats[lo + i - 1]]
  <1>1. n \in Nat
    OBVIOUS
  <1>2. \A i \in 1 .. n : lo + i - 1 \in DOMAIN feats
    BY DEF Missing
  <1>3. \A i \in 1 .. n : g[i] \in Packet /\ g[i].position = lo + i - 1
    BY <1>2 DEF Captured
  <1>4. g \in [1 .. n -> Packet]
    BY <1>3
  <1>5. g \in Seq(Packet) /\ Len(g) = n
    BY <1>1, <1>4
  <1>6. QED BY <1>2, <1>3, <1>5 DEF Gather
-----------------------------------------------------------------------------
(* The steps that leave the slot's context and the captures alone.         *)

LEMMA Sizes ==
    /\ n_max \in Nat \ {0} /\ MaxPrompt \in Nat \ {0} /\ MaxLen \in Nat \ {0}
    /\ MaxPrompt < MaxLen
    /\ max_draft_tokens \in Nat /\ max_draft_tokens <= n_max
    /\ Media \notin Vocabulary
  BY RemoteAssumption DEF max_draft_tokens

LEMMA InitStep ==
    ASSUME Init
    PROVE  Inv
  <1> USE DEF Init
  <1>1. TypeOK
    <2>1. stats \in [draft_tokens : Nat, accepted_tokens : Nat, fallback_steps : Nat]
      OBVIOUS
    <2>2. n_past = 0 /\ ctx \in Seq(Vocabulary \cup {Media}) /\ block \in Seq(Vocabulary)
      BY DEF n_past
    <2>3. Len(block) = 0 /\ DOMAIN feats = {}
      OBVIOUS
    <2>4. /\ drafter = FALSE /\ prefilled = FALSE /\ n_sent = -1 /\ prev_n_past = -1
          /\ step_id = 0 /\ id_last = Media /\ pc = "start"
      OBVIOUS
    <2> HIDE DEF Init
    <2>5. n_sent \in -1 .. n_past - 1 /\ prev_n_past \in -1 .. MaxLen /\ n_past <= MaxLen
      BY <2>2, <2>4, Sizes
    <2>6. DOMAIN feats \subseteq 0 .. MaxLen - 1 /\ Len(block) <= max_draft_tokens
      BY <2>3, Sizes
    <2>7. QED BY <2>1, <2>2, <2>4, <2>5, <2>6 DEF TypeOK
  <1>2. DOMAIN feats = {}
    OBVIOUS
  <1>3. Typed
    BY <1>1, <1>2 DEF Typed
  <1>4. Fresh /\ Books /\ Shipped
    BY <1>2 DEF Fresh, FreshFor, Books, Shipped, Run
  <1>5. Accounts
    BY DEF Accounts, Unaccounted
  <1>6. Begun
    BY DEF Begun, Run
  <1>7. Calls
    BY DEF Calls
  <1>8. QED BY <1>3, <1>4, <1>5, <1>6, <1>7 DEF Inv

\* A step that leaves context and captures alone keeps what is captured fresh.
LEMMA FreshStays ==
    ASSUME Fresh, UNCHANGED <<feats, ctx>>
    PROVE  Fresh'
  BY DEF Fresh, FreshFor, PacketOf, Last

\* ... and a generation begun,
LEMMA BegunStays ==
    ASSUME Begun, Run' => Run, UNCHANGED <<ctx, id_last>>
    PROVE  Begun'
  BY DEF Begun, n_past

\* ... and what was shipped, if it ships nothing.
LEMMA ShippedStays ==
    ASSUME Shipped, Run, UNCHANGED <<shipped, ctx>>
    PROVE  Shipped'
  BY DEF Shipped, PacketOf, Last

LEMMA HandshakeStep ==
    ASSUME Inv, NEW ok \in BOOLEAN, Handshake(ok)
    PROVE  Inv'
  <1> USE DEF Inv, Handshake, slot, book, rpc, history
  <1>1. Typed'
    BY DEF Typed, TypeOK, n_past, Replies, NoReply, max_draft_tokens
  <1>2. Fresh'
    BY FreshStays
  <1>3. Books' /\ Shipped'
    BY DEF Books, Shipped, Run
  <1>4. Accounts'
    BY DEF Accounts, Unaccounted, n_past, Typed
  <1>5. Begun'
    BY DEF Begun, Run
  <1>6. Calls'
    BY DEF Calls
  <1>7. QED BY <1>1, <1>2, <1>3, <1>4, <1>5, <1>6

LEMMA ResetReturnStep ==
    ASSUME Inv, ResetReturn
    PROVE  Inv'
  <1> USE DEF Inv, ResetReturn, slot, book, history
  <1>1. Typed'
    BY DEF Typed, TypeOK, n_past, Replies, NoReply, max_draft_tokens
  <1>2. Fresh'
    BY FreshStays
  <1>3. Books'
    BY DEF Books, Run, n_past
  <1>4. Shipped'
    BY ShippedStays DEF Run
  <1>5. Accounts'
    BY DEF Accounts, Unaccounted, n_past
  <1>6. Begun'
    BY BegunStays DEF Inv, Run
  <1>7. Calls'
    BY DEF Calls
  <1>8. QED BY <1>1, <1>2, <1>3, <1>4, <1>5, <1>6, <1>7

LEMMA FinishStep ==
    ASSUME Inv, Finish
    PROVE  Inv'
  <1> USE DEF Inv, Finish, slot, book, rpc, history
  <1>1. Typed'
    BY DEF Typed, TypeOK, n_past, Replies, NoReply, max_draft_tokens
  <1>2. Fresh'
    BY FreshStays
  <1>3. Books' /\ Shipped'
    BY DEF Books, Shipped, Run
  <1>4. Accounts'
    BY DEF Accounts, Unaccounted, n_past, Typed, TypeOK
  <1>5. Begun'
    BY BegunStays DEF Inv, Run
  <1>6. Calls'
    BY DEF Calls
  <1>7. QED BY <1>1, <1>2, <1>3, <1>4, <1>5, <1>6

LEMMA AnswerStep ==
    ASSUME Inv, NEW r \in Replies, Answer(r)
    PROVE  Inv'
  <1> USE DEF Inv, Answer, slot, book, history
  <1>1. Typed'
    BY DEF Typed, TypeOK, n_past, Replies, NoReply, max_draft_tokens
  <1>2. Fresh'
    BY FreshStays
  <1>3. Books' /\ Shipped'
    BY DEF Books, Shipped, Run, n_past, PacketOf, Last
  <1>4. Accounts'
    BY DEF Accounts, Unaccounted, n_past
  <1>5. Begun'
    BY BegunStays DEF Inv, Run
  <1>6. Calls'
    BY DEF Calls, max_draft_tokens
  <1>7. QED BY <1>1, <1>2, <1>3, <1>4, <1>5, <1>6

LEMMA DraftNoneStep ==
    ASSUME Inv, DraftNone
    PROVE  Inv'
  <1> USE DEF Inv, DraftNone, Drafting, book, rpc, history
  <1>1. Typed'
    <2>1. block' \in Seq(Vocabulary) /\ Len(block') <= max_draft_tokens
      BY Sizes
    <2>2. TypeOK'
      BY <2>1 DEF Typed, TypeOK, n_past, max_draft_tokens
    <2>3. QED BY <2>2 DEF Typed, n_past, Replies, NoReply, max_draft_tokens
  <1>2. Fresh'
    BY FreshStays
  <1>3. Books'
    BY DEF Books, Run, n_past
  <1>4. Shipped'
    BY ShippedStays DEF Run
  <1>5. Accounts'
    BY DEF Accounts, Unaccounted, n_past, Typed, TypeOK
  <1>6. Begun'
    BY BegunStays DEF Inv, Run
  <1>7. Calls'
    BY DEF Calls
  <1>8. QED BY <1>1, <1>2, <1>3, <1>4, <1>5, <1>6, <1>7
-----------------------------------------------------------------------------
(* draft().                                                                *)

\* A draft accounts for all that was verified before it.
LEMMA AccountSettles ==
    ASSUME Inv, Drafting, Account
    PROVE  /\ stats' \in [draft_tokens : Nat, accepted_tokens : Nat, fallback_steps : Nat]
           /\ stats'.draft_tokens = stats.draft_tokens
           /\ stats'.accepted_tokens <= verified
           /\ prev_n_past' = n_past
           /\ n_past \in Nat /\ n_past <= MaxLen
  <1> DEFINE accepted == n_past - prev_n_past - 1
             total == IF prev_n_past >= 0 /\ accepted > 0
                      THEN stats.accepted_tokens + accepted ELSE stats.accepted_tokens
  <1>1. /\ stats \in [draft_tokens : Nat, accepted_tokens : Nat, fallback_steps : Nat]
        /\ prev_n_past \in Int /\ n_past \in Nat /\ n_past <= MaxLen /\ verified \in Nat
    BY Sizes DEF Inv, Typed, TypeOK, n_past
  <1>2. stats' = [stats EXCEPT !.accepted_tokens = total] /\ prev_n_past' = n_past
    BY DEF Account
  <1>3. total \in Nat /\ total <= verified
    BY <1>1 DEF Inv, Accounts, Unaccounted, Drafting
  <1> HIDE DEF total
  <1>4. QED BY <1>1, <1>2, <1>3

LEMMA DraftMissingStep ==
    ASSUME Inv, DraftMissing
    PROVE  Inv'
  <1> USE DEF DraftMissing, rpc, history
  <1>1. pc = "ready" /\ n_past + 1 + n_max <= MaxLen /\ drafter
    BY DEF Drafting
  <1>2. /\ stats' \in [draft_tokens : Nat, accepted_tokens : Nat, fallback_steps : Nat]
        /\ stats'.draft_tokens = stats.draft_tokens
        /\ stats'.accepted_tokens <= verified
        /\ prev_n_past' = n_past
        /\ n_past \in Nat /\ n_past <= MaxLen
    BY AccountSettles
  <1>3. Typed'
    <2>1. block' \in Seq(Vocabulary) /\ Len(block') <= max_draft_tokens
      BY Sizes
    <2>2. step_id' \in Nat
      BY DEF Inv, Typed, TypeOK
    <2>3. TypeOK'
      BY SMTT(20), <1>2, <2>1, <2>2, Sizes DEF Inv, Typed, TypeOK, n_past, max_draft_tokens
    <2>4. QED BY <1>1, <2>3 DEF Inv, Typed, n_past, Replies, NoReply, max_draft_tokens
  <1>4. Fresh'
    BY FreshStays DEF Inv
  <1>5. Books'
    BY <1>1 DEF Inv, Books, Run, n_past
  <1>6. Shipped'
    BY <1>1, ShippedStays DEF Inv, Run
  <1>7. Accounts'
    BY <1>1, <1>2 DEF Inv, Accounts, Unaccounted, n_past, Typed, TypeOK
  <1>8. Begun'
    BY <1>1, BegunStays DEF Inv, Run
  <1>9. Calls'
    BY <1>1 DEF Inv, Calls
  <1>10. QED BY <1>3, <1>4, <1>5, <1>6, <1>7, <1>8, <1>9 DEF Inv

\* What a draft ships continues the committed prefix, which it then is.
LEMMA ShipsCommitted ==
    ASSUME Inv, Drafting, drafter, ~Missing(n_sent + 1, n_past - 1),
           shipped' = shipped \o Gather(n_sent + 1, n_past - 1),
           UNCHANGED ctx, pc' \in {"prefilling", "drafting"}
    PROVE  /\ shipped' \in Seq(Packet) /\ Len(shipped') = n_past /\ Shipped'
           /\ LET more == Gather(n_sent + 1, n_past - 1)
              IN  /\ more \in Seq(Packet) /\ Len(more) = n_past - n_sent - 1
                  /\ \A i \in 1 .. Len(more) : more[i] = shipped'[n_sent + 1 + i]
  <1> DEFINE more == Gather(n_sent + 1, n_past - 1)
  <1>1. /\ n_sent \in Int /\ n_sent >= -1 /\ n_past \in Nat /\ n_sent <= n_past - 1
        /\ shipped \in Seq(Packet) /\ Captured(feats)
        /\ Len(shipped) = n_sent + 1
    BY DEF Inv, Typed, TypeOK, Captured, n_past, Books, Drafting, Run
  <1>2. /\ more \in Seq(Packet) /\ Len(more) = n_past - n_sent - 1
        /\ \A i \in 1 .. n_past - n_sent - 1 :
              /\ more[i] = feats[n_sent + i]
              /\ more[i].position = n_sent + i
              /\ n_sent + i \in DOMAIN feats
    <2> DEFINE lo == n_sent + 1
               hi == n_past - 1
    <2>1. lo \in Nat /\ hi \in Int /\ lo <= hi + 1 /\ ~Missing(lo, hi)
      BY <1>1
    <2> HIDE DEF lo, hi
    <2>2. /\ Gather(lo, hi) \in Seq(Packet)
          /\ Len(Gather(lo, hi)) = hi - lo + 1
          /\ \A i \in 1 .. hi - lo + 1 : /\ Gather(lo, hi)[i] = feats[lo + i - 1]
                                         /\ Gather(lo, hi)[i].position = lo + i - 1
                                         /\ lo + i - 1 \in DOMAIN feats
      BY <1>1, <2>1, Gathered
    <2>3. hi - lo + 1 = n_past - n_sent - 1 /\ \A i \in Int : lo + i - 1 = n_sent + i
      BY <1>1 DEF lo, hi
    <2>4. QED BY <2>2, <2>3 DEF lo, hi
  <1> HIDE DEF more
  <1>3. shipped' = shipped \o more
    BY DEF more
  <1>4. /\ shipped' \in Seq(Packet) /\ Len(shipped') = n_past
        /\ \A i \in 1 .. n_past :
              shipped'[i] = IF i <= n_sent + 1 THEN shipped[i] ELSE more[i - n_sent - 1]
    <2> DEFINE both == shipped \o more
    <2>1. /\ both \in Seq(Packet) /\ Len(both) = Len(shipped) + Len(more)
          /\ \A i \in 1 .. Len(shipped) + Len(more) :
                both[i] = IF i <= Len(shipped) THEN shipped[i] ELSE more[i - Len(shipped)]
      BY ZenonT(40), <1>1, <1>2, ConcatProperties
    <2> HIDE DEF both
    <2>2. Len(shipped) + Len(more) = n_past
      BY <1>1, <1>2
    <2>3. \A i \in 1 .. n_past : i - Len(shipped) = i - n_sent - 1
      BY <1>1
    <2>4. shipped' = both
      BY <1>3 DEF both
    <2>5. QED BY <1>1, <2>1, <2>2, <2>3, <2>4
  <1>5. ASSUME NEW i \in 1 .. n_past
        PROVE  /\ shipped'[i].position = i - 1
               /\ ctx[i] # Media => shipped'[i] = PacketOf(SubSeq(ctx, 1, i))
    <2>1. CASE i <= n_sent + 1
      BY <1>1, <1>4, <2>1 DEF Inv, Shipped, Run, Drafting
    <2>2. CASE i > n_sent + 1
      <3> DEFINE j == i - n_sent - 1
                 p == i - 1
      <3>1. j \in 1 .. n_past - n_sent - 1 /\ n_sent + j = p
            /\ p + 1 = i /\ i - 1 = p /\ p \in Nat /\ p < n_past
        BY <1>1, <2>2
      <3> HIDE DEF p
      <3>2. shipped'[i] = more[j] /\ more[j] = feats[p] /\ more[j].position = p
            /\ p \in DOMAIN feats
        <4>1. more[j] = feats[n_sent + j] /\ more[j].position = n_sent + j
              /\ n_sent + j \in DOMAIN feats
          BY <1>2, <3>1
        <4>2. shipped'[i] = more[j]
          <5>1. ~(i <= n_sent + 1) /\ i \in 1 .. n_past
            BY <1>1, <2>2
          <5>2. shipped'[i] = more[i - n_sent - 1]
            BY <5>1, <1>4
          <5>3. QED BY <5>2
        <4> HIDE DEF j
        <4>3. QED BY <3>1, <4>1, <4>2
      <3> HIDE DEF j
      <3>3. p < n_past /\ (ctx[p + 1] # Media => feats[p] = PacketOf(SubSeq(ctx, 1, p + 1)))
        BY <3>1, <3>2 DEF Inv, Fresh, FreshFor, n_past
      <3>4. shipped'[i].position = p /\ i - 1 = p
        BY <3>1, <3>2
      <3>5. ctx[i] # Media => shipped'[i] = PacketOf(SubSeq(ctx, 1, i))
        BY <3>1, <3>2, <3>3
      <3>6. QED BY <3>4, <3>5
    <2>3. i <= n_sent + 1 \/ i > n_sent + 1
      BY <1>1
    <2>4. QED BY <2>1, <2>2, <2>3, Zenon
  <1>6. Shipped'
    BY <1>4, <1>5 DEF Shipped, PacketOf, Last
  <1>7. \A i \in 1 .. Len(more) : more[i] = shipped'[n_sent + 1 + i]
    <2> SUFFICES ASSUME NEW i \in 1 .. Len(more) PROVE more[i] = shipped'[n_sent + 1 + i]
      OBVIOUS
    <2> DEFINE j == n_sent + 1 + i
    <2>1. j \in 1 .. n_past /\ ~(j <= n_sent + 1) /\ j - n_sent - 1 = i
      BY <1>1, <1>2
    <2> HIDE DEF j
    <2>2. shipped'[j] = more[i]
      BY <1>4, <2>1
    <2>3. QED BY <2>2 DEF j
  <1>8. QED BY <1>2, <1>4, <1>6, <1>7 DEF more
LEMMA ShipPrefillStep ==
    ASSUME Inv, ShipPrefill
    PROVE  Inv'
  <1> USE DEF ShipPrefill, slot
  <1>1. pc = "ready" /\ n_past + 1 + n_max <= MaxLen /\ drafter /\ ~prefilled /\ reply' = NoReply
    BY DEF Drafting, Send
  <1>2. /\ stats' \in [draft_tokens : Nat, accepted_tokens : Nat, fallback_steps : Nat]
        /\ stats'.draft_tokens = stats.draft_tokens
        /\ stats'.accepted_tokens <= verified
        /\ prev_n_past' = n_past
        /\ n_past \in Nat /\ n_past <= MaxLen
    BY AccountSettles
  <1>3. n_sent + 1 = 0
    BY <1>1 DEF Inv, Books, Run
  <1>4. shipped' \in Seq(Packet) /\ Len(shipped') = n_past /\ Shipped'
    BY <1>3, ShipsCommitted
  <1>5. Typed'
    <2>1. TypeOK'
      BY SMTT(20), <1>2, Sizes DEF Inv, Typed, TypeOK, n_past, max_draft_tokens
    <2>2. QED BY <1>1, <1>4, <2>1 DEF Inv, Typed, n_past
  <1>6. Fresh'
    BY FreshStays DEF Inv
  <1>7. Books'
    BY <1>1, <1>3, <1>4 DEF Inv, Books, Run, n_past
  <1>8. Accounts'
    BY <1>1, <1>2 DEF Inv, Accounts, Unaccounted, n_past, Typed, TypeOK
  <1>9. Begun'
    BY <1>1, BegunStays DEF Inv, Run
  <1>10. Calls'
    <2>1. shipped' = Gather(0, n_past - 1)
      <3>1. shipped = << >>
        BY <1>1, <1>3 DEF Inv, Typed, Books, Run
      <3>2. Gather(0, n_past - 1) \in Seq(Packet)
        BY <1>3, ShipsCommitted
      <3>3. QED BY <3>1, <3>2, ConcatEmptySeq
    <2>2. QED BY <1>1, <2>1 DEF Calls, Send
  <1>11. QED BY <1>4, <1>5, <1>6, <1>7, <1>8, <1>9, <1>10 DEF Inv

LEMMA PrefillReturnStep ==
    ASSUME Inv, PrefillReturn
    PROVE  Inv'
  <1> USE DEF PrefillReturn, slot, history
  <1>1. reply' = NoReply
    BY DEF Send
  <1>2. Typed'
    <2>1. n_sent' \in -1 .. n_past - 1 /\ step_id' \in Nat
      BY DEF Inv, Typed, TypeOK, n_past
    <2>2. TypeOK'
      BY <2>1 DEF Inv, Typed, TypeOK, n_past, max_draft_tokens
    <2>3. QED BY <1>1, <2>2 DEF Inv, Typed, n_past
  <1>3. Fresh'
    BY FreshStays DEF Inv
  <1>4. Books'
    BY DEF Inv, Typed, TypeOK, Books, Run, n_past
  <1>5. Shipped'
    BY ShippedStays DEF Inv, Run
  <1>6. Accounts'
    BY DEF Inv, Accounts, Unaccounted, n_past, Typed, TypeOK
  <1>7. Begun'
    BY BegunStays DEF Inv, Run
  <1>8. Calls'
    BY <1>1 DEF Inv, Typed, Calls, Send, DraftCall, max_draft_tokens, n_past
  <1>9. QED BY <1>2, <1>3, <1>4, <1>5, <1>6, <1>7, <1>8 DEF Inv

LEMMA ShipDraftStep ==
    ASSUME Inv, ShipDraft
    PROVE  Inv'
  <1> USE DEF ShipDraft, slot
  <1>1. pc = "ready" /\ n_past + 1 + n_max <= MaxLen /\ drafter /\ prefilled /\ reply' = NoReply
    BY DEF Drafting, Send
  <1>2. /\ stats' \in [draft_tokens : Nat, accepted_tokens : Nat, fallback_steps : Nat]
        /\ stats'.draft_tokens = stats.draft_tokens
        /\ stats'.accepted_tokens <= verified
        /\ prev_n_past' = n_past
        /\ n_past \in Nat /\ n_past <= MaxLen
    BY AccountSettles
  <1>3. shipped' \in Seq(Packet) /\ Len(shipped') = n_past /\ Shipped'
    BY ShipsCommitted
  <1>4. Typed'
    <2>1. n_sent' \in -1 .. n_past - 1 /\ step_id' \in Nat
      BY <1>2 DEF Inv, Typed, TypeOK, n_past
    <2>2. /\ drafter' \in BOOLEAN /\ DOMAIN feats' \subseteq 0 .. MaxLen - 1
          /\ prefilled' \in BOOLEAN
          /\ ctx' \in Seq(Vocabulary \cup {Media}) /\ n_past' <= MaxLen
          /\ id_last' \in Vocabulary \cup {Media}
          /\ block' \in Seq(Vocabulary) /\ Len(block') <= max_draft_tokens
      BY DEF Inv, Typed, TypeOK, n_past
    <2>3. n_past' = n_past /\ pc' = "drafting"
      BY DEF n_past
    <2>4. n_sent' \in -1 .. n_past' - 1 /\ step_id' \in Nat /\ prev_n_past' \in -1 .. MaxLen
      BY <1>2, <2>1, <2>3, Sizes
    <2>5. TypeOK'
      BY <1>2, <2>2, <2>3, <2>4 DEF TypeOK
    <2>6. QED BY <1>1, <1>3, <2>5 DEF Inv, Typed, n_past
  <1>5. Fresh'
    BY FreshStays DEF Inv
  <1>6. Books'
    BY <1>1, <1>2, <1>3 DEF Inv, Books, Run, n_past
  <1>7. Accounts'
    BY <1>1, <1>2 DEF Inv, Accounts, Unaccounted, n_past, Typed, TypeOK
  <1>8. Begun'
    BY <1>1, BegunStays DEF Inv, Run
  <1>9. Calls'
    <2> DEFINE tokens == Gather(n_sent + 1, n_past - 1)
    <2>1. /\ tokens \in Seq(Packet) /\ Len(tokens) = n_past - n_sent - 1
          /\ \A i \in 1 .. Len(tokens) : tokens[i] = shipped'[n_sent + 1 + i]
      BY ShipsCommitted
    <2>2. /\ call' = DraftCall(n_sent, tokens) /\ step_id' = step_id + 1
          /\ generation' = generation /\ pc' = "drafting"
      BY DEF Send
    <2>3. n_sent \in Int /\ n_sent >= -1 /\ n_past \in Nat
      BY <1>2 DEF Inv, Typed, TypeOK
    <2> HIDE DEF tokens, ShipDraft
    <2>4. /\ call'.kind = "Draft" /\ call'.generation = generation'
          /\ call'.step_id = step_id' /\ call'.max_draft_tokens = max_draft_tokens'
          /\ call'.accepted_tokens = tokens
      BY <2>2 DEF DraftCall, max_draft_tokens
    <2>5. Len(shipped') - Len(tokens) = n_sent + 1 /\ n_sent + 1 >= 0
      BY <1>3, <2>1, <2>3
    <2>6. /\ call'.accepted_tokens \in Seq(Packet)
          /\ Len(shipped') - Len(call'.accepted_tokens) >= 0
          /\ \A i \in 1 .. Len(call'.accepted_tokens) :
                call'.accepted_tokens[i] =
                    shipped'[Len(shipped') - Len(call'.accepted_tokens) + i]
      BY <2>1, <2>4, <2>5
    <2>7. QED BY <2>2, <2>4, <2>6 DEF Calls
  <1>10. QED BY <1>3, <1>4, <1>5, <1>6, <1>7, <1>8, <1>9 DEF Inv

LEMMA DraftReturnStep ==
    ASSUME Inv, DraftReturn
    PROVE  Inv'
  <1> USE DEF DraftReturn, book, history
  <1>1. /\ stats' \in [draft_tokens : Nat, accepted_tokens : Nat, fallback_steps : Nat]
        /\ block' \in Seq(Vocabulary) /\ Len(block') <= max_draft_tokens
        /\ stats'.accepted_tokens = stats.accepted_tokens
        /\ verified + Len(block') <= stats'.draft_tokens
    <2>1. /\ stats \in [draft_tokens : Nat, accepted_tokens : Nat, fallback_steps : Nat]
          /\ verified \in Nat /\ verified <= stats.draft_tokens
      BY DEF Inv, Typed, TypeOK, Accounts
    <2>2. CASE reply.ok
      <3> DEFINE n == stats.draft_tokens + Len(reply.draft_tokens)
      <3>1. reply.draft_tokens \in BoundedSeq(Vocabulary, max_draft_tokens)
        BY <2>2 DEF Inv, Typed, Replies
      <3>2. reply.draft_tokens \in Seq(Vocabulary)
            /\ Len(reply.draft_tokens) <= max_draft_tokens
        BY <3>1, Sizes DEF BoundedSeq, SeqOf
      <3>3. n \in Nat /\ verified + Len(reply.draft_tokens) <= n
        BY <2>1, <3>2
      <3>4. stats' = [stats EXCEPT !.draft_tokens = n] /\ block' = reply.draft_tokens
        BY <2>2
      <3> HIDE DEF n
      <3>5. QED BY <2>1, <3>2, <3>3, <3>4
    <2>3. CASE ~reply.ok
      <3> DEFINE n == stats.fallback_steps + 1
      <3>1. n \in Nat
        BY <2>1
      <3>2. stats' = [stats EXCEPT !.fallback_steps = n] /\ block' = << >>
        BY <2>3
      <3> HIDE DEF n
      <3>3. /\ stats' \in [draft_tokens : Nat, accepted_tokens : Nat, fallback_steps : Nat]
            /\ stats'.accepted_tokens = stats.accepted_tokens
            /\ stats'.draft_tokens = stats.draft_tokens
        BY <2>1, <3>1, <3>2
      <3>4. block' \in Seq(Vocabulary) /\ Len(block') = 0
        BY <3>2
      <3>5. QED BY <2>1, <3>3, <3>4, Sizes
    <2>4. QED BY <2>2, <2>3
  <1>2. Typed'
    <2>1. TypeOK'
      BY <1>1 DEF Inv, Typed, TypeOK, n_past, max_draft_tokens
    <2>2. QED BY <2>1 DEF Inv, Typed, n_past, NoReply
  <1>3. Fresh'
    BY FreshStays DEF Inv
  <1>4. Books'
    BY DEF Inv, Typed, TypeOK, Books, Run, n_past
  <1>5. Shipped'
    BY ShippedStays DEF Inv, Run
  <1>6. Accounts'
    BY <1>1 DEF Inv, Accounts, Unaccounted, n_past, Typed, TypeOK
  <1>7. Begun'
    BY BegunStays DEF Inv, Run
  <1>8. Calls'
    BY DEF Inv, Calls
  <1>9. QED BY <1>2, <1>3, <1>4, <1>5, <1>6, <1>7, <1>8 DEF Inv
-----------------------------------------------------------------------------
(* The steps that decode: begin() after a prompt, and verification.        *)

LEMMA BeginStep ==
    ASSUME Inv, NEW prompt \in Prompts \ {<< >>}, NEW sampled \in Vocabulary,
           NEW n_cached \in 0 .. Len(prompt) - 1, Begin(prompt, n_cached, sampled)
    PROVE  Inv'
  <1> DEFINE captured == Process(feats, prompt, n_cached)
  <1>1. prompt \in Seq(Slots) /\ Len(prompt) \in Nat \ {0} /\ Len(prompt) <= MaxPrompt
    BY Sizes DEF Prompts, BoundedSeq, SeqOf, Slots
  <1>2. n_cached \in Nat /\ n_cached < Len(prompt)
    BY <1>1
  <1>3. Captured(feats) /\ ctx \in Seq(Slots)
    BY DEF Inv, Typed, TypeOK, Captured, Slots
  <1>4. /\ Captured(captured)
        /\ DOMAIN captured \subseteq DOMAIN feats \cup n_cached .. Len(prompt) - 1
    BY <1>1, <1>2, <1>3, ProcessCaptures
  <1> HIDE DEF captured
  <1>5. feats' = [p \in {q \in DOMAIN captured : q < Len(prompt)} |-> captured[p]]
    BY DEF Begin, captured
  <1>6. /\ pc = "idle" /\ ctx' = prompt /\ id_last' = sampled /\ shipped' = << >>
        /\ drafter' = drafter /\ stats' = stats /\ block' = block /\ verified' = verified
        /\ generation' = generation + 1
        /\ prefilled' = FALSE /\ n_sent' = -1 /\ prev_n_past' = -1 /\ step_id' = 0
    BY DEF Begin, Forget
  <1>7. /\ pc' \in {"resetting", "ready"} /\ (~drafter => pc' = "ready")
        /\ reply' = NoReply \/ reply' = reply
    BY DEF Begin, Send, rpc
  <1>8. DOMAIN feats \subseteq Nat /\ (~drafter => DOMAIN feats = {})
    BY DEF Inv, Typed, TypeOK
  <1>9. /\ Captured(feats') /\ DOMAIN feats' \subseteq 0 .. Len(prompt) - 1
        /\ ~drafter => DOMAIN feats' = {}
    <2>1. DOMAIN captured \subseteq Nat
      BY <1>2, <1>4, <1>8
    <2>2. ~drafter => DOMAIN captured = {}
      BY <1>1, <1>2, <1>3, <1>8, ProcessCaptures DEF captured
    <2>3. QED BY <1>1, <1>4, <1>5, <2>1, <2>2 DEF Captured
  <1>10. Typed'
    <2>1. TypeOK'
      <3>1. stats \in [draft_tokens : Nat, accepted_tokens : Nat, fallback_steps : Nat]
            /\ drafter \in BOOLEAN /\ block \in Seq(Vocabulary)
            /\ Len(block) <= max_draft_tokens
        BY DEF Inv, Typed, TypeOK
      <3>2. DOMAIN feats' \subseteq 0 .. MaxLen - 1
        BY <1>1, <1>9, Sizes
      <3>3. n_sent' \in -1 .. Len(prompt) - 1 /\ prev_n_past' \in -1 .. MaxLen
        BY <1>1, <1>6, Sizes
      <3>4. ctx' \in Seq(Slots) /\ Len(ctx') <= MaxLen /\ n_sent' \in -1 .. Len(ctx') - 1
        <4>1. Len(prompt) <= MaxLen
          BY <1>1, Sizes
        <4>2. QED BY <1>1, <1>6, <3>3, <4>1
      <3>5. step_id' \in Nat /\ prefilled' \in BOOLEAN
        BY <1>6
      <3>6. QED BY <1>6, <1>7, <3>1, <3>2, <3>3, <3>4, <3>5
               DEF TypeOK, n_past, Slots, max_draft_tokens
    <2>2. shipped' \in Seq(Packet)
      BY <1>6
    <2>3. reply' = NoReply \/ reply' \in Replies
      BY <1>7 DEF Inv, Typed
    <2>4. generation' \in Nat /\ verified' \in Nat
      BY <1>6 DEF Inv, Typed
    <2>5. Replies' = Replies /\ NoReply' = NoReply
      BY DEF Replies, NoReply, max_draft_tokens
    <2>6. QED BY <1>6, <1>7, <1>9, <2>1, <2>2, <2>3, <2>4, <2>5 DEF Typed, Captured
  <1>11. Fresh'
    <2>1. /\ n_cached <= Len(ctx)
          /\ \A i \in 1 .. n_cached : ctx[i] = prompt[i]
      <3> DEFINE prefix == SubSeq(prompt, 1, n_cached)
      <3>1. prefix \in Seq(Slots) /\ Len(prefix) = n_cached
            /\ \A i \in 1 .. n_cached : prefix[i] = prompt[i]
        BY <1>1, <1>2, SubSeqProperties, ElementOfSeq
      <3>2. IsPrefix(prefix, ctx)
        BY DEF Begin
      <3> HIDE DEF prefix
      <3>3. n_cached <= Len(ctx) /\ SubSeq(prefix, 1, n_cached) = SubSeq(ctx, 1, n_cached)
        BY <3>1, <3>2 DEF IsPrefix
      <3>4. \A i \in 1 .. n_cached : /\ SubSeq(prefix, 1, n_cached)[i] = prefix[i]
                                     /\ SubSeq(ctx, 1, n_cached)[i] = ctx[i]
        BY <1>2, <1>3, <3>1, <3>3, SubSeqProperties, ElementOfSeq
      <3>5. QED BY <3>1, <3>3, <3>4
    <2>2. FreshFor(feats, ctx)
      BY DEF Inv, Fresh
    <2>3. FreshFor(captured, prompt)
      BY <1>1, <1>2, <1>3, <1>8, <2>1, <2>2, ProcessFreshens DEF captured
    <2>4. FreshFor(feats', prompt)
      BY <1>5, <2>3 DEF FreshFor
    <2>5. QED BY <1>6, <2>4 DEF Fresh, FreshFor, PacketOf, Last
  <1>12. Books' /\ Shipped'
    BY <1>6, <1>7 DEF Books, Shipped, Run
  <1>13. Accounts'
    BY <1>6, <1>7 DEF Inv, Accounts, Unaccounted, n_past
  <1>14. Begun'
    <2>1. ~EmbdBatches => prompt \in Seq(Vocabulary)
      BY DEF Prompts, BoundedSeq, SeqOf
    <2>2. QED BY <1>1, <1>6, <2>1 DEF Begun, n_past
  <1>15. Calls'
    BY <1>6 DEF Inv, Calls, Begin, Send, rpc
  <1>16. QED BY <1>10, <1>11, <1>12, <1>13, <1>14, <1>15 DEF Inv
LEMMA VerifyStep ==
    ASSUME Inv, NEW n_accepted \in Nat, NEW sampled \in Vocabulary, Verify(n_accepted, sampled)
    PROVE  Inv'
  <1> DEFINE decoded == ctx \o <<id_last>> \o block
             kept == n_past + 1 + n_accepted
  <1>1. /\ pc = "verify" /\ n_accepted <= Len(block)
        /\ feats' = Process(feats, decoded, n_past)
        /\ ctx' = SubSeq(decoded, 1, kept)
        /\ id_last' = sampled /\ block' = << >> /\ pc' = "ready"
        /\ verified' = verified + n_accepted
        /\ drafter' = drafter /\ stats' = stats /\ generation' = generation
        /\ reply' = reply /\ shipped' = shipped
        /\ prefilled' = prefilled /\ n_sent' = n_sent /\ prev_n_past' = prev_n_past
        /\ step_id' = step_id
    BY DEF Verify, book, rpc
  <1>2. /\ ctx \in Seq(Slots) /\ id_last \in Slots /\ block \in Seq(Slots)
        /\ Len(block) <= n_max /\ n_past + 1 + n_max <= MaxLen
        /\ n_past \in Nat /\ n_past = Len(ctx)
    BY SMTT(20), <1>1, Sizes DEF Inv, Typed, TypeOK, Slots, n_past
  <1>3. /\ decoded \in Seq(Slots)
        /\ Len(decoded) = n_past + 1 + Len(block)
        /\ \A i \in 1 .. n_past : decoded[i] = ctx[i]
    BY <1>2
  <1> HIDE DEF decoded
  <1>4. kept \in Nat /\ kept <= Len(decoded) /\ n_past < kept /\ kept <= MaxLen
        /\ Len(decoded) <= MaxLen
    BY <1>1, <1>2, <1>3, Sizes
  <1>5. /\ ctx' \in Seq(Slots) /\ Len(ctx') = kept
        /\ \A i \in 1 .. kept : ctx'[i] = decoded[i]
    <2>1. \A i \in 1 .. kept : decoded[i] \in Slots
      BY <1>3, <1>4
    <2>2. QED BY <1>1, <1>4, <2>1, SubSeqProperties
  <1> HIDE DEF kept
  <1>6. /\ Captured(feats) /\ DOMAIN feats \subseteq 0 .. MaxLen - 1
        /\ ~drafter => DOMAIN feats = {}
    BY DEF Inv, Typed, TypeOK, Captured
  <1>7. /\ Captured(feats')
        /\ DOMAIN feats' \subseteq DOMAIN feats \cup n_past .. Len(decoded) - 1
    BY <1>1, <1>2, <1>3, <1>6, ProcessCaptures
  <1>8. ~drafter => DOMAIN feats' = {}
    BY <1>1, <1>2, <1>3, <1>6, ProcessCaptures
  <1>9. Typed'
    <2>1. DOMAIN feats' \subseteq 0 .. MaxLen - 1
      <3>1. n_past .. Len(decoded) - 1 \subseteq 0 .. MaxLen - 1
        BY <1>2, <1>3, <1>4, Sizes
      <3>2. QED BY <1>6, <1>7, <3>1
    <2>2. n_sent' \in -1 .. Len(ctx') - 1
      BY <1>1, <1>2, <1>4, <1>5 DEF Inv, Typed, TypeOK
    <2>3. block' \in Seq(Vocabulary) /\ Len(block') <= max_draft_tokens
      BY <1>1, Sizes
    <2>4. TypeOK'
      BY <1>1, <1>4, <1>5, <2>1, <2>2, <2>3
         DEF Inv, Typed, TypeOK, n_past, Slots, max_draft_tokens
    <2>5. verified' \in Nat
      BY <1>1 DEF Inv, Typed
    <2>6. reply' = NoReply' \/ reply' \in Replies'
      BY <1>1 DEF Inv, Typed, Replies, NoReply, max_draft_tokens
    <2>7. QED BY <1>1, <1>7, <1>8, <2>4, <2>5, <2>6 DEF Inv, Typed, Captured
  <1>10. Fresh'
    <2>1. FreshFor(feats', decoded)
      <3>1. /\ FreshFor(feats, ctx) /\ DOMAIN feats \subseteq Nat
            /\ drafter \/ DOMAIN feats = {}
            /\ n_past <= Len(ctx) /\ n_past <= Len(decoded)
            /\ \A i \in 1 .. n_past : ctx[i] = decoded[i]
        BY <1>2, <1>3, <1>4, <1>6 DEF Inv, Fresh
      <3>2. FreshFor(Process(feats, decoded, n_past), decoded)
        BY <1>2, <1>3, <1>6, <3>1, ProcessFreshens
      <3>3. QED BY <1>1, <3>2
    <2>2. ASSUME NEW p \in DOMAIN feats', p < Len(ctx'), ctx'[p + 1] # Media
          PROVE  feats'[p] = PacketOf(SubSeq(ctx', 1, p + 1))
      <3>1. p \in Nat
        BY <1>2, <1>6, <1>7
      <3>2. QED BY <1>3, <1>4, <1>5, <2>1, <2>2, <3>1, FreshAgrees
    <2>3. QED BY <2>2 DEF Fresh, FreshFor, PacketOf, Last
  <1>11. /\ Len(shipped) = n_sent + 1 /\ n_sent <= n_past - 1 /\ n_sent \in Int
         /\ ~prefilled => n_sent = -1
    BY <1>1 DEF Inv, Books, Run, Typed, TypeOK
  <1>12. Books'
    <2>1. n_sent < Len(ctx') - 1
      BY <1>2, <1>4, <1>5, <1>11
    <2>2. QED BY <1>1, <1>11, <2>1 DEF Books, Run, n_past
  <1>13. Shipped'
    <2>1. ASSUME NEW i \in 1 .. Len(shipped)
          PROVE  /\ shipped[i].position = i - 1
                 /\ ctx'[i] # Media => shipped[i] = PacketOf(SubSeq(ctx', 1, i))
      <3>1. i \in 1 .. n_past /\ i \in 1 .. kept
        BY <1>2, <1>4, <1>11
      <3>2. shipped[i].position = i - 1
            /\ (ctx[i] # Media => shipped[i] = PacketOf(SubSeq(ctx, 1, i)))
        BY <1>1 DEF Inv, Shipped, Run
      <3>3. ctx'[i] = ctx[i] /\ SubSeq(ctx', 1, i) = SubSeq(ctx, 1, i)
        <4>1. \A k \in 1 .. i : ctx'[k] = ctx[k]
          <5>1. \A k \in 1 .. i : k \in 1 .. n_past /\ k \in 1 .. kept
            BY <1>2, <1>4, <3>1
          <5>2. QED BY <1>3, <1>5, <5>1
        <4>2. i \in Nat /\ i <= Len(ctx) /\ i <= Len(ctx')
          BY <1>2, <1>4, <1>5, <3>1
        <4>3. SubSeq(ctx', 1, i) = SubSeq(ctx, 1, i)
          BY <1>2, <1>5, <4>1, <4>2, SamePrefix
        <4>4. ctx'[i] = ctx[i]
          BY <1>2, <3>1, <4>1
        <4>5. QED BY <4>3, <4>4
      <3>4. QED BY <3>2, <3>3
    <2>2. QED BY <1>1, <2>1 DEF Shipped, PacketOf, Last
  <1>14. Accounts'
    <2>1. n_past' = n_past + 1 + n_accepted
      BY <1>5 DEF n_past, kept
    <2>2. /\ stats.accepted_tokens <= verified /\ verified + Len(block) <= stats.draft_tokens
          /\ ~drafter => prev_n_past = -1
          /\ prev_n_past \in {-1, n_past}
          /\ verified \in Nat /\ stats.accepted_tokens \in Nat /\ stats.draft_tokens \in Nat
      BY <1>1 DEF Inv, Accounts, Unaccounted, Typed, TypeOK
    <2>3. Unaccounted' \in {0, n_accepted}
      BY SMTT(20), <1>1, <1>2, <2>1, <2>2 DEF Unaccounted
    <2>4. Len(block') = 0
      BY <1>1
    <2>5. QED BY <1>1, <1>2, <2>2, <2>3, <2>4 DEF Accounts
  <1>15. Begun'
    <2>1. ~EmbdBatches => decoded \in Seq(Vocabulary)
      BY <1>1 DEF Inv, Begun, Run, Typed, TypeOK, decoded
    <2>2. ~EmbdBatches => ctx' \in Seq(Vocabulary)
      BY <1>1, <1>3, <1>4, <2>1, SubSeqProperties, ElementOfSeq
    <2>3. QED BY <1>1, <1>2, <1>4, <1>5, <2>2 DEF Begun, n_past
  <1>16. Calls'
    BY <1>1 DEF Inv, Calls, Verify, rpc
  <1>17. QED BY <1>9, <1>10, <1>12, <1>13, <1>14, <1>15, <1>16 DEF Inv
-----------------------------------------------------------------------------
(* The invariant, and what follows from it.                                *)

LEMMA StutterStep ==
    ASSUME Inv, UNCHANGED vars
    PROVE  Inv'
  <1> USE DEF Inv, vars, slot, book, rpc, history
  <1>1. Typed'
    BY DEF Typed, TypeOK, n_past, Replies, NoReply, max_draft_tokens
  <1>2. Fresh'
    BY FreshStays
  <1>3. Books' /\ Shipped'
    BY DEF Books, Shipped, Run, n_past, PacketOf, Last
  <1>4. Accounts'
    BY DEF Accounts, Unaccounted, n_past
  <1>5. Begun'
    BY BegunStays DEF Inv, Run
  <1>6. Calls'
    BY DEF Calls, max_draft_tokens
  <1>7. QED BY <1>1, <1>2, <1>3, <1>4, <1>5, <1>6

LEMMA ServerStep ==
    ASSUME Inv, Server
    PROVE  Inv'
  <1>1. CASE ResetReturn
    BY <1>1, ResetReturnStep
  <1>2. CASE PrefillReturn
    BY <1>2, PrefillReturnStep
  <1>3. CASE DraftReturn
    BY <1>3, DraftReturnStep
  <1>4. CASE DraftNone
    BY <1>4, DraftNoneStep
  <1>5. CASE DraftMissing
    BY <1>5, DraftMissingStep
  <1>6. CASE ShipPrefill
    BY <1>6, ShipPrefillStep
  <1>7. CASE ShipDraft
    BY <1>7, ShipDraftStep
  <1>8. CASE VerifySome
    <2>1. PICK n_accepted \in 0 .. BlockSize, sampled \in Vocabulary :
              Verify(n_accepted, sampled)
      BY <1>8 DEF VerifySome
    <2>2. n_accepted \in Nat
      BY RemoteAssumption
    <2>3. QED BY <2>1, <2>2, VerifyStep
  <1>9. CASE Finish
    BY <1>9, FinishStep
  <1>10. QED BY <1>1, <1>2, <1>3, <1>4, <1>5, <1>6, <1>7, <1>8, <1>9 DEF Server

LEMMA BeginSomeStep ==
    ASSUME Inv, BeginSome
    PROVE  Inv'
  BY BeginStep DEF BeginSome

LEMMA NextStep ==
    ASSUME Inv, [Next]_vars
    PROVE  Inv'
  <1>1. CASE \E ok \in BOOLEAN : Handshake(ok)
    BY <1>1, HandshakeStep
  <1>2. CASE BeginSome
    BY <1>2, BeginSomeStep
  <1>3. CASE Server
    BY <1>3, ServerStep
  <1>4. CASE Respond
    BY <1>4, AnswerStep DEF Respond
  <1>5. CASE Shut
    BY <1>5, StutterStep DEF Shut
  <1>6. CASE UNCHANGED vars
    BY <1>6, StutterStep
  <1>7. QED BY <1>1, <1>2, <1>3, <1>4, <1>5, <1>6 DEF Next

\* What is captured, shipped and counted stays in step with the committed context
\* at every point where the server's thread waits (remote_dspark_impl.h:150).
THEOREM Inductive == Spec => []Inv
  <1>1. Init => Inv
    BY InitStep
  <1>2. Inv /\ [Next]_vars => Inv'
    BY NextStep
  <1>3. QED BY <1>1, <1>2, PTL DEF Spec

\* The server's fields are of their types and its sums stay within the context,
\* whatever the edge answers and however long the server runs.
THEOREM TypeCorrect == Spec => []TypeOK
  <1>1. Inv => TypeOK
    BY DEF Inv, Typed
  <1>2. QED BY <1>1, Inductive, PTL

\* What is captured at a committed token's position is the target's state there,
\* over rejected drafts and prompts that reuse part of the last one
\* (remote_dspark_impl.h:39, 104, 155).  Positions of embeddings may hold anything.
THEOREM CapturesAreFresh == Spec => []FeatsFresh
  <1>1. Inv => FeatsFresh
    BY DEF Inv, Fresh, FreshFor, FeatsFresh, n_past
  <1>2. QED BY <1>1, Inductive, PTL

\* What the edge was sent in a generation is the committed prefix from its start,
\* each position once, all of them when a draft is asked for, and for every token
\* its own packet (remote_dspark_impl.h:43, 193).  For the position of an embedding
\* it may be any packet.
THEOREM ShipsWhatIsCommitted == Spec => []ShippedIsCommitted
  <1>1. Inv => ShippedIsCommitted
    <2> SUFFICES ASSUME Inv, Run PROVE ShippedIsCommitted
      BY DEF ShippedIsCommitted
    <2>1. n_past \in Nat /\ n_sent \in -1 .. n_past - 1
      BY DEF Inv, Typed, TypeOK, n_past
    <2>2. Len(shipped) <= n_past /\ (pc = "drafting" => Len(shipped) = n_past)
      BY <2>1 DEF Inv, Books
    <2>3. QED BY <2>2 DEF Inv, Shipped, ShippedIsCommitted
  <1>2. QED BY <1>1, Inductive, PTL

\* A generation without embedding positions has shipped just what the target
\* decoded, whatever the prompts before it held: "a re-decoded position overwrites
\* its stale value" (remote_dspark_impl.h:155) wherever the batch is one of tokens.
THEOREM ShipsWhatWasDecoded == Spec => [](ctx \in Seq(Vocabulary) => ShippedIsDecoded)
  <1>1. Inv => (ctx \in Seq(Vocabulary) => ShippedIsDecoded)
    <2> SUFFICES ASSUME Inv, ctx \in Seq(Vocabulary), Run, NEW i \in 1 .. Len(shipped)
                 PROVE  shipped[i].features = SubSeq(ctx, 1, i)
      BY DEF ShippedIsDecoded
    <2>1. n_past \in Nat /\ Len(shipped) \in Nat /\ Len(shipped) <= n_past
      <3>1. n_past \in Nat /\ n_sent \in -1 .. n_past - 1
        BY DEF Inv, Typed, TypeOK, n_past
      <3>2. QED BY <3>1 DEF Inv, Books
    <2>2. i \in 1 .. Len(ctx)
      BY <2>1 DEF n_past
    <2>3. ctx[i] # Media
      BY <2>2, RemoteAssumption DEF RemoteAssumption
    <2>4. shipped[i] = PacketOf(SubSeq(ctx, 1, i))
      BY <2>3 DEF Inv, Shipped
    <2>5. QED BY <2>4 DEF PacketOf
  <1>2. QED BY <1>1, Inductive, PTL

\* The acceptance rate a client reads never counts a token that was not drafted
\* and verified, across fallback steps and generations (remote_dspark_impl.h:199).
THEOREM AcceptanceIsCounted == Spec => []AcceptedWithinProposed
  <1>1. Inv => AcceptedWithinProposed
    <2> SUFFICES ASSUME Inv PROVE AcceptedWithinProposed
      OBVIOUS
    <2>1. /\ stats.accepted_tokens \in Nat /\ stats.draft_tokens \in Nat /\ verified \in Nat
          /\ block \in Seq(Vocabulary) /\ n_past \in Nat /\ prev_n_past \in Int
      BY Sizes DEF Inv, Typed, TypeOK, n_past
    <2>2. Unaccounted \in Int
      BY <2>1 DEF Unaccounted
    <2>3. Len(block) \in Nat
      BY <2>1
    <2>4. QED BY <2>1, <2>2, <2>3 DEF Inv, Accounts, AcceptedWithinProposed
  <1>2. QED BY <1>1, Inductive, PTL
=============================================================================
