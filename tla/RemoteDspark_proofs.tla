------------------------ MODULE RemoteDspark_proofs ------------------------
(***************************************************************************)
(* Proofs about server, network and daemon together, for any vocabulary,   *)
(* sizes, number of generations and number of faults.                      *)
(*                                                                         *)
(* The proofs about the server (RemoteImpl_proofs) and about the engine    *)
(* (DsparkEngine_proofs) are instantiated here; that the operators they    *)
(* speak of are the ones RemoteDspark uses is the first section.  What is  *)
(* added is what relates the two sides: which call is on the wire, and     *)
(* what the engine holds of what the server shipped.                       *)
(***************************************************************************)
EXTENDS RemoteDspark, SequenceTheorems, TLAPS

ImplProofs == INSTANCE RemoteImpl_proofs WITH EmbdBatches <- FALSE

EngineProofs == INSTANCE DsparkEngine_proofs WITH
              Token <- Vocabulary, Features <- Seq(Vocabulary),
              MaxPos <- MaxLen, MaxRun <- MaxLen

LEMMA SameCache ==
    /\ Engine!Empty = EngineProofs!Empty
    /\ \A kv : Engine!SeqPosMax(kv) = EngineProofs!SeqPosMax(kv)
    /\ \A kv, p : Engine!SeqRm(kv, p) = EngineProofs!SeqRm(kv, p)
    /\ \A kv, p, n : Engine!CanDecode(kv, p, n) = EngineProofs!CanDecode(kv, p, n)
    /\ \A kv, p, t : Engine!Decode(kv, p, t) = EngineProofs!Decode(kv, p, t)
  <1> USE DEF Engine!Empty, EngineProofs!Empty, Engine!SeqPosMax, EngineProofs!SeqPosMax
  <1>1. \A kv, p : Engine!SeqRm(kv, p) = EngineProofs!SeqRm(kv, p)
    BY DEF Engine!SeqRm, EngineProofs!SeqRm, Engine!Restrict, EngineProofs!Restrict
  <1>2. \A kv, p, n : Engine!CanDecode(kv, p, n) = EngineProofs!CanDecode(kv, p, n)
    BY DEF Engine!CanDecode, EngineProofs!CanDecode
  <1>3. \A kv, p, t : Engine!Decode(kv, p, t) = EngineProofs!Decode(kv, p, t)
    BY DEF Engine!Decode, EngineProofs!Decode
  <1>4. QED BY <1>1, <1>2, <1>3

LEMMA SameInjection ==
    /\ \A kv, t : Engine!InjectFeatures(kv, t) = EngineProofs!InjectFeatures(kv, t)
    /\ \A e, kv, t, n : Engine!Injected(e, kv, t, n) = EngineProofs!Injected(e, kv, t, n)
  <1>1. \A kv, t, n : Engine!After(kv, t, n) = EngineProofs!After(kv, t, n)
    BY SameCache DEF Engine!After, EngineProofs!After
  <1>2. /\ \A t : Engine!Offsets(t) = EngineProofs!Offsets(t)
        /\ \A t, o : Engine!ChunkEnd(t, o) = EngineProofs!ChunkEnd(t, o)
    BY DEF Engine!Offsets, EngineProofs!Offsets, Engine!ChunkEnd, EngineProofs!ChunkEnd
  <1>3. \A kv, t, o : Engine!ChunkFits(kv, t, o) = EngineProofs!ChunkFits(kv, t, o)
    BY <1>1, <1>2, SameCache DEF Engine!ChunkFits, EngineProofs!ChunkFits
  <1>4. \A kv, t : Engine!InjectFeatures(kv, t) = EngineProofs!InjectFeatures(kv, t)
    BY <1>2, <1>3 DEF Engine!InjectFeatures, EngineProofs!InjectFeatures
  <1>5. \A e, t : Engine!Confirm(e, t) = EngineProofs!Confirm(e, t)
    BY DEF Engine!Confirm, EngineProofs!Confirm, Engine!Last, EngineProofs!Last
  <1>6. \A e, kv, t, n : Engine!Injected(e, kv, t, n) = EngineProofs!Injected(e, kv, t, n)
    BY <1>1, <1>5 DEF Engine!Injected, EngineProofs!Injected
  <1>7. QED BY <1>4, <1>6

LEMMA SameEngine ==
    /\ Engine!InitEngine = EngineProofs!InitEngine
    /\ \A e, t : Engine!PrefillOutcomes(e, t) = EngineProofs!PrefillOutcomes(e, t)
    /\ \A e, r : Engine!DraftOutcomes(e, r) = EngineProofs!DraftOutcomes(e, r)
  <1>1. Engine!InitEngine = EngineProofs!InitEngine
    BY SameCache DEF Engine!InitEngine, EngineProofs!InitEngine
  <1>2. \A e, t : Engine!PrefillOutcomes(e, t) = EngineProofs!PrefillOutcomes(e, t)
    BY SameInjection DEF Engine!PrefillOutcomes, EngineProofs!PrefillOutcomes
  <1>3. /\ \A e : Engine!Failure(e) = EngineProofs!Failure(e)
        /\ \A m : Engine!BlockLength(m) = EngineProofs!BlockLength(m)
        /\ \A S, n : Engine!BoundedSeq(S, n) = EngineProofs!BoundedSeq(S, n)
    BY DEF Engine!Failure, EngineProofs!Failure, Engine!BlockLength, EngineProofs!BlockLength,
           Engine!BoundedSeq, EngineProofs!BoundedSeq, Engine!SeqOf, EngineProofs!SeqOf
  <1>4. \A e, a, m : Engine!RunDraft(e, a, m) = EngineProofs!RunDraft(e, a, m)
    <2> TAKE e, a, m
    <2>1. /\ Engine!BlockLength(m) = EngineProofs!BlockLength(m)
          /\ Engine!BoundedSeq(Vocabulary, EngineProofs!BlockLength(m)) = EngineProofs!BoundedSeq(Vocabulary, EngineProofs!BlockLength(m))
          /\ Engine!SeqPosMax(e.kv) = EngineProofs!SeqPosMax(e.kv)
          /\ Engine!Failure(e) = EngineProofs!Failure(e)
      BY <1>3, SameCache
    <2>2. QED BY <2>1, SameCache DEF Engine!RunDraft, EngineProofs!RunDraft
  <1>5. /\ \A e : Engine!CutFrom(e) = EngineProofs!CutFrom(e)
        /\ \A e, r : Engine!AnchorOf(e, r) = EngineProofs!AnchorOf(e, r)
    BY DEF Engine!CutFrom, EngineProofs!CutFrom, Engine!AnchorOf, EngineProofs!AnchorOf
  <1>6. \A e, r : Engine!DraftOutcomes(e, r) = EngineProofs!DraftOutcomes(e, r)
    BY <1>3, <1>4, <1>5, SameCache, SameInjection
       DEF Engine!DraftOutcomes, EngineProofs!DraftOutcomes
  <1>7. QED BY <1>1, <1>2, <1>6


LEMMA SameHelpers ==
    /\ Impl!NoCall = ImplProofs!NoCall /\ Impl!NoReply = ImplProofs!NoReply
    /\ Impl!n_past = ImplProofs!n_past
    /\ Impl!max_draft_tokens = ImplProofs!max_draft_tokens
    /\ Impl!Replies = ImplProofs!Replies /\ Impl!Prompts = ImplProofs!Prompts
    /\ \A f, t, n : Impl!Process(f, t, n) = ImplProofs!Process(f, t, n)
    /\ \A lo, hi : Impl!Missing(lo, hi) = ImplProofs!Missing(lo, hi)
    /\ \A lo, hi : Impl!Gather(lo, hi) = ImplProofs!Gather(lo, hi)
    /\ \A n, t : Impl!DraftCall(n, t) = ImplProofs!DraftCall(n, t)
    /\ \A c : Impl!Send(c) <=> ImplProofs!Send(c)
    /\ Impl!Account <=> ImplProofs!Account
    /\ Impl!Forget <=> ImplProofs!Forget
    /\ Impl!Drafting <=> ImplProofs!Drafting
    /\ Impl!Run <=> ImplProofs!Run
  <1> USE DEF Impl!NoCall, ImplProofs!NoCall, Impl!NoReply, ImplProofs!NoReply, Impl!n_past, ImplProofs!n_past, Impl!max_draft_tokens, ImplProofs!max_draft_tokens
  <1>1. Impl!Replies = ImplProofs!Replies /\ Impl!Prompts = ImplProofs!Prompts
    BY DEF Impl!Replies, ImplProofs!Replies, Impl!Prompts, ImplProofs!Prompts, Impl!BoundedSeq, ImplProofs!BoundedSeq, Impl!SeqOf, ImplProofs!SeqOf
  <1>2. \A f, t, n : Impl!Process(f, t, n) = ImplProofs!Process(f, t, n)
    BY DEF Impl!Process, ImplProofs!Process, Impl!PacketOf, ImplProofs!PacketOf, Impl!Last, ImplProofs!Last
  <1>3. /\ \A lo, hi : Impl!Missing(lo, hi) = ImplProofs!Missing(lo, hi)
        /\ \A lo, hi : Impl!Gather(lo, hi) = ImplProofs!Gather(lo, hi)
        /\ \A n, t : Impl!DraftCall(n, t) = ImplProofs!DraftCall(n, t)
    BY DEF Impl!Missing, ImplProofs!Missing, Impl!Gather, ImplProofs!Gather, Impl!DraftCall, ImplProofs!DraftCall
  <1>4. /\ \A c : Impl!Send(c) <=> ImplProofs!Send(c)
        /\ Impl!Account <=> ImplProofs!Account
        /\ Impl!Forget <=> ImplProofs!Forget
        /\ Impl!Drafting <=> ImplProofs!Drafting
    BY DEF Impl!Send, ImplProofs!Send, Impl!Account, ImplProofs!Account, Impl!Forget, ImplProofs!Forget, Impl!Drafting, ImplProofs!Drafting
  <1>5. Impl!Run <=> ImplProofs!Run
    BY DEF Impl!Run, ImplProofs!Run
  <1>6. QED BY <1>1, <1>2, <1>3, <1>4, <1>5

LEMMA SameActions ==
    /\ Impl!Init => ImplProofs!Init
    /\ \A ok : Impl!Handshake(ok) => ImplProofs!Handshake(ok)
    /\ Impl!BeginSome => ImplProofs!BeginSome
    /\ Impl!Server => ImplProofs!Server
    /\ Impl!Respond => ImplProofs!Respond
    /\ Impl!Shut => ImplProofs!Shut
    /\ (UNCHANGED Impl!vars) => UNCHANGED ImplProofs!vars
  <1> USE SameHelpers DEF Impl!slot, ImplProofs!slot, Impl!book, ImplProofs!book, Impl!rpc, ImplProofs!rpc, Impl!history, ImplProofs!history, Impl!vars, ImplProofs!vars
  <1>1. Impl!Init => ImplProofs!Init
    BY DEF Impl!Init, ImplProofs!Init
  <1>2. \A ok : Impl!Handshake(ok) => ImplProofs!Handshake(ok)
    BY DEF Impl!Handshake, ImplProofs!Handshake
  <1>3. Impl!BeginSome => ImplProofs!BeginSome
    BY DEF Impl!BeginSome, ImplProofs!BeginSome, Impl!Begin, ImplProofs!Begin, Impl!IsPrefix, ImplProofs!IsPrefix
  <1>4. Impl!Server => ImplProofs!Server
    <2>1. Impl!ResetReturn => ImplProofs!ResetReturn
      BY DEF Impl!ResetReturn, ImplProofs!ResetReturn
    <2>2. Impl!PrefillReturn => ImplProofs!PrefillReturn
      BY DEF Impl!PrefillReturn, ImplProofs!PrefillReturn
    <2>3. Impl!DraftReturn => ImplProofs!DraftReturn
      BY DEF Impl!DraftReturn, ImplProofs!DraftReturn
    <2>4. Impl!DraftNone => ImplProofs!DraftNone
      BY DEF Impl!DraftNone, ImplProofs!DraftNone
    <2>5. Impl!DraftMissing => ImplProofs!DraftMissing
      BY DEF Impl!DraftMissing, ImplProofs!DraftMissing
    <2>6. Impl!ShipPrefill => ImplProofs!ShipPrefill
      BY DEF Impl!ShipPrefill, ImplProofs!ShipPrefill
    <2>7. Impl!ShipDraft => ImplProofs!ShipDraft
      BY DEF Impl!ShipDraft, ImplProofs!ShipDraft
    <2>8. Impl!VerifySome => ImplProofs!VerifySome
      BY DEF Impl!VerifySome, ImplProofs!VerifySome, Impl!Verify, ImplProofs!Verify
    <2>9. Impl!Finish => ImplProofs!Finish
      BY DEF Impl!Finish, ImplProofs!Finish
    <2>10. QED BY <2>1, <2>2, <2>3, <2>4, <2>5, <2>6, <2>7, <2>8, <2>9
              DEF Impl!Server, ImplProofs!Server
  <1>5. Impl!Respond => ImplProofs!Respond
    BY DEF Impl!Respond, ImplProofs!Respond, Impl!Answer, ImplProofs!Answer
  <1>6. Impl!Shut => ImplProofs!Shut
    BY DEF Impl!Shut, ImplProofs!Shut
  <1>7. QED BY <1>1, <1>2, <1>3, <1>4, <1>5, <1>6


LEMMA Assumptions ==
    /\ EngineProofs!NCtxAssumption /\ EngineProofs!EngineAssumption
    /\ ImplProofs!RemoteAssumption
  BY CompositionAssumption, NoiseAssumption
     DEF EngineProofs!NCtxAssumption, EngineProofs!EngineAssumption,
         EngineProofs!Packet, Engine!Packet, ImplProofs!RemoteAssumption

LEMMA ImplKept ==
    ASSUME ImplProofs!Inv, [Impl!Next]_(Impl!vars)
    PROVE  ImplProofs!Inv'
  <1>1. [ImplProofs!Next]_(ImplProofs!vars)
    BY SameActions DEF Impl!Next, ImplProofs!Next
  <1>2. QED BY <1>1, Assumptions, ImplProofs!NextStep

LEMMA ServerShape ==
    ASSUME Impl!Server \/ Impl!BeginSome
    PROVE  /\ pc \in {"resetting", "prefilling", "drafting"} => reply # Impl!NoReply
           /\ reply' = Impl!NoReply \/ UNCHANGED Impl!rpc
           /\ drafter' = drafter
  <1>1. CASE Impl!BeginSome
    BY <1>1 DEF Impl!BeginSome, Impl!Begin, Impl!Send, Impl!rpc
  <1>2. CASE Impl!Server
    BY <1>2 DEF Impl!Server, Impl!ResetReturn, Impl!PrefillReturn, Impl!DraftReturn,
         Impl!DraftNone, Impl!DraftMissing, Impl!ShipPrefill, Impl!ShipDraft,
         Impl!VerifySome, Impl!Verify, Impl!Finish, Impl!Drafting, Impl!Send, Impl!rpc
  <1>3. QED BY <1>1, <1>2

\* Where a step of the server's thread goes.
LEMMA ServerGoes ==
    ASSUME Impl!Server, step_id \in Nat
    PROVE  /\ Impl!Run
           /\ pc' # "resetting"
           /\ pc = "resetting" => pc' = "ready"
           /\ step_id' \in {step_id, step_id + 1}
  <1> USE DEF Impl!Run, Impl!slot, Impl!book, Impl!history
  <1>1. CASE Impl!ResetReturn \/ Impl!PrefillReturn \/ Impl!DraftReturn
    BY <1>1 DEF Impl!ResetReturn, Impl!PrefillReturn, Impl!DraftReturn
  <1>2. CASE Impl!DraftNone \/ Impl!DraftMissing
    BY <1>2 DEF Impl!DraftNone, Impl!DraftMissing, Impl!Drafting
  <1>3. CASE Impl!ShipPrefill \/ Impl!ShipDraft
    BY <1>3 DEF Impl!ShipPrefill, Impl!ShipDraft, Impl!Drafting
  <1>4. CASE Impl!VerifySome \/ Impl!Finish
    BY <1>4 DEF Impl!VerifySome, Impl!Verify, Impl!Finish
  <1>5. QED BY <1>1, <1>2, <1>3, <1>4 DEF Impl!Server
-----------------------------------------------------------------------------
(* The server against the daemon is the server against any edge.           *)

\* What the daemon's handlers rely on of a call, late ones included.
WellFormed(c) ==
    /\ c.kind \in {"Reset", "Prefill", "Draft"}
    /\ c.kind = "Draft" => c.max_draft_tokens = Impl!max_draft_tokens

Wired == \A c \in wire : WellFormed(c)

\* A call the server's thread makes is of the shape the handlers expect.
LEMMA CallsAreWellFormed ==
    ASSUME Impl!Server \/ Impl!BeginSome, Impl!rpc' # Impl!rpc, call' # Impl!NoCall
    PROVE  WellFormed(call')
  <1>1. CASE Impl!BeginSome
    BY <1>1 DEF Impl!BeginSome, Impl!Begin, Impl!Send, Impl!rpc, WellFormed
  <1>2. CASE Impl!ResetReturn \/ Impl!DraftReturn
    BY <1>2 DEF Impl!ResetReturn, Impl!DraftReturn
  <1>3. CASE Impl!ShipPrefill
    BY <1>3 DEF Impl!ShipPrefill, Impl!Send, WellFormed
  <1>4. CASE Impl!PrefillReturn
    BY <1>4 DEF Impl!PrefillReturn, Impl!Send, Impl!DraftCall, WellFormed
  <1>5. CASE Impl!ShipDraft
    BY <1>5 DEF Impl!ShipDraft, Impl!Send, Impl!DraftCall, WellFormed
  <1>6. CASE Impl!DraftNone \/ Impl!DraftMissing \/ Impl!VerifySome \/ Impl!Finish
    BY <1>6 DEF Impl!DraftNone, Impl!DraftMissing, Impl!VerifySome, Impl!Verify, Impl!Finish
  <1>7. QED BY <1>1, <1>2, <1>3, <1>4, <1>5, <1>6 DEF Impl!Server

\* Every other step leaves the wire's calls, or takes some off.
LEMMA WireOnlyShrinks ==
    ASSUME [Next]_vars, ~(Begin \/ ServerStep)
    PROVE  wire' \subseteq wire
  BY DEF Next, vars, Handshake, Handle, Serve, LoseRequest, LoseReply, BreakOff, Restart,
         Vanish, Shut

LEMMA WiredStep ==
    ASSUME Wired, [Next]_vars
    PROVE  Wired'
  <1>1. CASE Begin \/ ServerStep
    <2>1. /\ Impl!Server \/ Impl!BeginSome
          /\ wire' = IF Impl!rpc' # Impl!rpc /\ call' # Impl!NoCall THEN wire \cup {call'} ELSE wire
      BY <1>1 DEF Begin, ServerStep, Dispatch
    <2>2. \A c \in wire' : WellFormed(c)
      BY <2>1, CallsAreWellFormed DEF Wired
    <2>3. QED BY <2>2 DEF Wired, WellFormed, Impl!max_draft_tokens
  <1>2. CASE ~(Begin \/ ServerStep)
    BY <1>2, WireOnlyShrinks DEF Wired, WellFormed, Impl!max_draft_tokens
  <1>3. QED BY <1>1, <1>2

\* What the daemon answers to a call is an answer RemoteImpl expects.
LEMMA RepliesFit ==
    ASSUME NEW c, WellFormed(c), NEW out \in Outcomes(c)
    PROVE  out.reply \in Impl!Replies
  <1> DEFINE max == Impl!max_draft_tokens
  <1>1. max \in 0 .. BlockSize
    BY CompositionAssumption DEF Impl!max_draft_tokens
  <1> HIDE DEF max
  <1>2. Refused \in Impl!Replies
    BY DEF Refused, Impl!Replies
  <1>3. ASSUME NEW tokens \in Impl!BoundedSeq(Vocabulary, max)
        PROVE  Good(tokens) \in Impl!Replies
    BY <1>3 DEF Good, Impl!Replies, max
  <1>4. << >> \in Impl!BoundedSeq(Vocabulary, max)
    BY <1>1 DEF Impl!BoundedSeq, Impl!SeqOf
  <1>5. CASE ~session.live
    BY <1>2, <1>5 DEF Outcomes, Outcome
  <1>6. CASE session.live /\ c.kind = "Reset"
    BY <1>3, <1>4, <1>6 DEF Outcomes, ResetOutcomes, Outcome
  <1>7. CASE session.live /\ c.kind = "Prefill"
    BY <1>2, <1>3, <1>4, <1>7 DEF Outcomes, PrefillOutcomes, Outcome
  <1>8. CASE session.live /\ c.kind = "Draft"
    <2>1. out \in DraftOutcomes(c) /\ c.max_draft_tokens = max
      BY <1>8 DEF Outcomes, WellFormed, max
    <2>2. CASE out.reply = Refused
      BY <1>2, <2>2
    <2>3. CASE out.reply # Refused
      <3>1. PICK o \in Engine!DraftOutcomes(engine, c) : o.ok /\ out.reply = Good(o.draft_tokens)
        BY <2>1, <2>3 DEF DraftOutcomes, Outcome
      <3>2. PICK e, a : o \in Engine!RunDraft(e, a, max)
        BY <2>1, <3>1 DEF Engine!DraftOutcomes, Engine!Failure
      <3>3. o.draft_tokens \in Engine!BoundedSeq(Vocabulary, Engine!BlockLength(max))
        BY <3>1, <3>2 DEF Engine!RunDraft, Engine!Failure
      <3>4. Engine!BlockLength(max) = max
        BY <1>1, CompositionAssumption DEF Engine!BlockLength
      <3>5. o.draft_tokens \in Impl!BoundedSeq(Vocabulary, max)
        BY <3>3, <3>4 DEF Impl!BoundedSeq, Impl!SeqOf, Engine!BoundedSeq, Engine!SeqOf
      <3>6. QED BY <1>3, <3>1, <3>5
    <2>4. QED BY <2>2, <2>3
  <1>9. QED BY <1>5, <1>6, <1>7, <1>8 DEF WellFormed

\* Served or failed, the server sees an answer or nothing.
LEMMA AnswersFit ==
    ASSUME Wired, NEW c \in wire, NEW out \in Outcomes(c), NEW delivered,
           Serve(c, out, delivered)
    PROVE  Impl!Respond \/ UNCHANGED Impl!vars
  <1>1. out.reply \in Impl!Replies /\ Refused \in Impl!Replies
    BY RepliesFit DEF Wired, Refused, Impl!Replies
  <1>2. CASE Awaited(c)
    BY <1>1, <1>2 DEF Serve, Impl!Respond
  <1>3. CASE ~Awaited(c)
    BY <1>3 DEF Serve, server, Impl!vars, Impl!slot, Impl!book, Impl!rpc, Impl!history
  <1>4. QED BY <1>2, <1>3

LEMMA ServerRefines ==
    ASSUME Wired, [Next]_vars
    PROVE  [Impl!Next]_(Impl!vars)
  <1> USE DEF Impl!Next
  <1>0. UNCHANGED server => UNCHANGED Impl!vars
    BY DEF server, Impl!vars, Impl!slot, Impl!book, Impl!rpc, Impl!history
  <1>1. Refused \in Impl!Replies
    BY DEF Refused, Impl!Replies
  <1>2. CASE \E ok \in BOOLEAN : Handshake(ok)
    BY <1>2 DEF Handshake
  <1>3. CASE Begin \/ ServerStep
    BY <1>3 DEF Begin, ServerStep
  <1>4. CASE Handle
    BY <1>4, AnswersFit DEF Handle
  <1>5. CASE LoseReply
    BY <1>5, AnswersFit DEF LoseReply, Hit
  <1>6. CASE LoseRequest \/ BreakOff
    BY <1>1, <1>6 DEF LoseRequest, BreakOff, Impl!Respond
  <1>7. CASE Restart
    BY <1>0, <1>1, <1>7 DEF Restart, Impl!Respond
  <1>8. CASE Vanish
    BY <1>0, <1>8 DEF Vanish
  <1>9. CASE Shut \/ UNCHANGED vars
    BY <1>0, <1>9 DEF Shut, vars
  <1>10. QED BY <1>2, <1>3, <1>4, <1>5, <1>6, <1>7, <1>8, <1>9 DEF Next

\* Whatever the network loses, delays or cuts off, and however often the daemon
\* restarts, the server goes through nothing that RemoteImpl does not allow; what
\* is proved of it there holds here (README.md:129).
THEOREM ServerUnharmed == Spec => ServerSpec
  <1>1. Init => Impl!Init /\ Wired
    BY DEF Init, Wired
  <1>2. Wired /\ [Next]_vars => Wired' /\ [Impl!Next]_(Impl!vars)
    BY WiredStep, ServerRefines
  <1>3. QED BY <1>1, <1>2, PTL DEF Spec, ServerSpec, Impl!Spec
-----------------------------------------------------------------------------
(* What is shipped is what the engine may be given.                        *)

\* What was shipped are packets of consecutive positions, the first of them 0.
LEMMA ShippedIsRun ==
    ASSUME ImplProofs!Inv, Impl!Run
    PROVE  /\ shipped \in Seq(EngineProofs!Packet)
           /\ \A i \in 1 .. Len(shipped) : shipped[i].position = i - 1
           /\ EngineProofs!IsRun(shipped)
           /\ EngineProofs!PartOf(shipped, shipped)
           /\ shipped # << >> => shipped[1].position = 0
  <1>1. /\ ctx \in Seq(Vocabulary)
        /\ shipped \in Seq(ImplProofs!Packet)
        /\ \A i \in 1 .. Len(shipped) :
              /\ shipped[i].position = i - 1
              /\ ctx[i] # Media => shipped[i] = ImplProofs!PacketOf(SubSeq(ctx, 1, i))
        /\ Len(shipped) <= Len(ctx)
    <2>1. ImplProofs!Run
      BY SameHelpers
    <2>2. /\ ctx \in Seq(Vocabulary)
          /\ shipped \in Seq(ImplProofs!Packet)
          /\ \A i \in 1 .. Len(shipped) :
                /\ shipped[i].position = i - 1
                /\ ctx[i] # Media => shipped[i] = ImplProofs!PacketOf(SubSeq(ctx, 1, i))
      BY <2>1 DEF ImplProofs!Inv, ImplProofs!Begun, ImplProofs!Typed, ImplProofs!Shipped
    <2>3. n_sent + 1 <= Len(ctx)
      BY <2>2 DEF ImplProofs!Inv, ImplProofs!Typed, ImplProofs!TypeOK, ImplProofs!n_past
    <2>4. Len(shipped) <= Len(ctx)
      BY <2>1, <2>2, <2>3 DEF ImplProofs!Inv, ImplProofs!Books, ImplProofs!n_past
    <2>5. QED BY <2>2, <2>4
  <1>2. Media \notin Vocabulary
    BY CompositionAssumption
  <1>3. ASSUME NEW i \in 1 .. Len(shipped)
        PROVE  shipped[i] \in EngineProofs!Packet
    <2>1. i \in Nat /\ i > 0 /\ i <= Len(ctx) /\ ctx[i] \in Vocabulary
      BY <1>1
    <2> DEFINE prefix == SubSeq(ctx, 1, i)
    <2>2. prefix \in Seq(Vocabulary) /\ Len(prefix) = i
      BY <1>1, <2>1, SubSeqProperties
    <2>3. prefix[i] \in Vocabulary
      BY <2>1, <2>2
    <2>4. shipped[i] = ImplProofs!PacketOf(prefix)
      BY <1>1, <1>2, <2>1
    <2> HIDE DEF prefix
    <2>5. QED BY <2>1, <2>2, <2>3, <2>4
             DEF ImplProofs!PacketOf, ImplProofs!Last, EngineProofs!Packet
  <1>4. shipped \in Seq(EngineProofs!Packet) /\ Len(shipped) \in Nat
    BY <1>1, <1>3, ElementOfSeq, SeqDef
  <1>5. \A i \in 1 .. Len(shipped) : shipped[i].position = i - 1
    BY <1>1
  <1>6. EngineProofs!IsRun(shipped)
    BY <1>4, <1>5 DEF EngineProofs!IsRun
  <1>7. EngineProofs!PartOf(shipped, shipped)
    BY <1>4, <1>5 DEF EngineProofs!PartOf
  <1>8. shipped # << >> => shipped[1].position = 0
    BY <1>4, <1>5, EmptySeq
  <1>9. QED BY <1>4, <1>5, <1>6, <1>7, <1>8

\* ... and so are the accepted tokens of the Draft the server waits for.
LEMMA AcceptedIsRun ==
    ASSUME ImplProofs!Inv, pc = "drafting"
    PROVE  /\ EngineProofs!IsRun(call.accepted_tokens)
           /\ EngineProofs!PartOf(call.accepted_tokens, shipped)
           /\ call.accepted_tokens # << >> =>
                 call.accepted_tokens[1].position + Len(call.accepted_tokens) = Len(shipped)
           /\ Len(shipped) = Len(ctx)
  <1> DEFINE tokens == call.accepted_tokens
             before == Len(shipped) - Len(tokens)
  <1>1. Impl!Run
    BY DEF Impl!Run
  <1>2. /\ shipped \in Seq(EngineProofs!Packet)
        /\ \A i \in 1 .. Len(shipped) : shipped[i].position = i - 1
    BY <1>1, ShippedIsRun
  <1>3. /\ tokens \in Seq(ImplProofs!Packet) /\ before >= 0
        /\ \A i \in 1 .. Len(tokens) : tokens[i] = shipped[before + i]
    BY DEF ImplProofs!Inv, ImplProofs!Calls
  <1>4. Len(shipped) = Len(ctx)
    <2>1. n_sent \in Int /\ ctx \in Seq(Vocabulary \cup {Media})
      BY DEF ImplProofs!Inv, ImplProofs!Typed, ImplProofs!TypeOK, ImplProofs!n_past
    <2>2. QED BY <1>1, <2>1, SameHelpers DEF ImplProofs!Inv, ImplProofs!Books, ImplProofs!n_past
  <1>5. before \in Nat /\ Len(tokens) \in Nat /\ Len(shipped) \in Nat
        /\ Len(shipped) = before + Len(tokens)
    BY <1>2, <1>3
  <1> HIDE DEF before, tokens
  <1>6. ASSUME NEW i \in 1 .. Len(tokens)
        PROVE  /\ tokens[i] \in EngineProofs!Packet
               /\ tokens[i].position = before + i - 1
               /\ tokens[i].position < Len(shipped)
               /\ tokens[i] = shipped[tokens[i].position + 1]
    <2>1. before + i \in 1 .. Len(shipped) /\ before + i - 1 + 1 = before + i
      BY <1>5
    <2>2. tokens[i] = shipped[before + i]
      BY <1>3
    <2>3. shipped[before + i].position = before + i - 1
      BY <1>2, <1>5, <2>1
    <2>4. QED BY <1>2, <1>5, <2>1, <2>2, <2>3
  <1>7. tokens \in Seq(EngineProofs!Packet)
    BY <1>3, <1>5, <1>6, ElementOfSeq, SeqDef
  <1>8. EngineProofs!IsRun(tokens)
    BY <1>5, <1>6, <1>7 DEF EngineProofs!IsRun
  <1>9. EngineProofs!PartOf(tokens, shipped)
    BY <1>6 DEF EngineProofs!PartOf
  <1>10. tokens # << >> => tokens[1].position + Len(tokens) = Len(shipped)
    BY <1>5, <1>6, <1>7, EmptySeq
  <1>11. QED BY <1>4, <1>8, <1>9, <1>10 DEF tokens

\* A step of the server's thread takes nothing back of what was shipped.
LEMMA ShippedGrows ==
    ASSUME ImplProofs!Inv, Impl!Server
    PROVE  /\ Len(shipped') >= Len(shipped)
           /\ \A i \in 1 .. Len(shipped) : shipped'[i] = shipped[i]
  <1>1. shipped \in Seq(ImplProofs!Packet) /\ Len(shipped) \in Nat
    BY DEF ImplProofs!Inv, ImplProofs!Typed
  <1>2. CASE UNCHANGED shipped
    BY <1>1, <1>2
  <1>3. ASSUME NEW lo, NEW hi, hi - lo + 1 \in Nat, shipped' = shipped \o Impl!Gather(lo, hi)
        PROVE  /\ Len(shipped') >= Len(shipped)
               /\ \A i \in 1 .. Len(shipped) : shipped'[i] = shipped[i]
    <2> DEFINE n == hi - lo + 1
               more == Impl!Gather(lo, hi)
               S == {feats[lo + i - 1] : i \in 1 .. n} \cup ImplProofs!Packet
    <2>1. more = [i \in 1 .. n |-> feats[lo + i - 1]]
      BY DEF Impl!Gather
    <2>2. more \in [1 .. n -> S] /\ n \in Nat
      BY <1>3, <2>1
    <2> HIDE DEF S, n
    <2>3. more \in Seq(S)
      BY <2>2
    <2>4. shipped \in Seq(S)
      BY <1>1 DEF S
    <2> HIDE DEF more
    <2>5. shipped' = shipped \o more
      BY <1>3 DEF more
    <2>6. QED BY <1>1, <2>3, <2>4, <2>5, ConcatProperties
  <1>4. CASE Impl!ShipPrefill \/ Impl!ShipDraft
    <2>1. n_sent \in Int /\ n_sent <= Len(ctx) - 1 /\ Len(ctx) \in Nat
      BY DEF ImplProofs!Inv, ImplProofs!Typed, ImplProofs!TypeOK, ImplProofs!n_past
    <2>2. CASE shipped' = shipped \o Impl!Gather(0, Len(ctx) - 1)
      BY <1>3, <2>1, <2>2
    <2>3. CASE shipped' = shipped \o Impl!Gather(n_sent + 1, Len(ctx) - 1)
      BY <1>3, <2>1, <2>3
    <2>4. QED BY <1>4, <2>2, <2>3 DEF Impl!ShipPrefill, Impl!ShipDraft, Impl!n_past
  <1>5. CASE ~(Impl!ShipPrefill \/ Impl!ShipDraft)
    <2>1. UNCHANGED shipped
      BY <1>5 DEF Impl!Server, Impl!ResetReturn, Impl!PrefillReturn, Impl!DraftReturn,
            Impl!DraftNone, Impl!DraftMissing, Impl!VerifySome, Impl!Verify, Impl!Finish,
            Impl!history
    <2>2. QED BY <1>2, <2>1
  <1>6. QED BY <1>4, <1>5
-----------------------------------------------------------------------------
(* What the engine holds, over lost replies, lost Prefill and Draft calls, *)
(* restarts and calls that never come back, as long as a Reset is neither  *)
(* lost nor any call served late.                                          *)

ResetsArrive == "Reset" \notin LostRequests /\ LateCalls = {}

\* Only the call the server waits for may be on the wire.
Outstanding == \A c \in wire : c = call /\ reply = Impl!NoReply

\* A session that is not in the daemon's table has nothing, and a server without
\* a drafter has none.
Sessions ==
    /\ session \in [live : BOOLEAN, last_step_id : Nat]
    /\ ~session.live => session = NoSession /\ engine = Engine!InitEngine
    /\ ~drafter => ~session.live

\* When a Reset has come back, however it has, the session is as new.
Cleared ==
    pc = "resetting" /\ reply # Impl!NoReply =>
        session.last_step_id = 0 /\ engine = Engine!InitEngine

Guarded == Impl!Run /\ pc # "resetting" => session.last_step_id <= step_id

Held ==
    /\ EngineProofs!EngineInv(engine)
    /\ drafter /\ Impl!Run /\ pc # "resetting" =>
          EngineProofs!Holds(engine.kv, engine.kv_confirmed_max, shipped)

\* The inductive invariant.
Inv ==
    /\ ImplProofs!Inv /\ Wired
    /\ Outstanding /\ Sessions /\ Cleared /\ Guarded /\ Held

\* A new engine holds nothing, so nothing that was not shipped.
LEMMA NewHolds ==
    /\ EngineProofs!EngineInv(Engine!InitEngine)
    /\ \A s : EngineProofs!Holds(Engine!InitEngine.kv, Engine!InitEngine.kv_confirmed_max, s)
    /\ Engine!InitEngine.kv = Engine!Empty
    /\ Engine!InitEngine.kv_confirmed_max = -1
  <1>1. /\ EngineProofs!EngineInv(EngineProofs!InitEngine)
        /\ EngineProofs!InitEngine.kv = EngineProofs!Empty
        /\ EngineProofs!InitEngine.kv_confirmed_max = -1
    BY Assumptions, EngineProofs!NewEngine
  <1>2. \A s, m : EngineProofs!Holds(EngineProofs!Empty, m, s)
    BY DEF EngineProofs!Holds, EngineProofs!Empty
  <1>3. QED BY <1>1, <1>2, SameEngine, SameCache

\* What the server waits for, seen from the wire.
LEMMA OnTheWire ==
    ASSUME Inv, NEW c \in wire
    PROVE  /\ c = call /\ reply = Impl!NoReply /\ Awaited(c)
           /\ WellFormed(c)
           /\ wire \ {c} = {}
           /\ Impl!Run
           /\ c.kind = "Reset" <=> pc = "resetting"
           /\ c.kind = "Prefill" <=> pc = "prefilling"
           /\ c.kind = "Draft" <=> pc = "drafting"
           /\ pc = "prefilling" => c.tokens = shipped
           /\ pc = "drafting" => c.step_id = step_id
  <1>1. c = call /\ reply = Impl!NoReply /\ wire \ {c} = {}
    BY DEF Inv, Outstanding
  <1>2. WellFormed(c)
    BY DEF Inv, Wired
  <1>3. /\ pc \notin {"resetting", "prefilling", "drafting"} => call = ImplProofs!NoCall
        /\ pc = "resetting" => call.kind = "Reset"
        /\ pc = "prefilling" => call.kind = "Prefill" /\ call.tokens = shipped
        /\ pc = "drafting" => call.kind = "Draft" /\ call.step_id = step_id
    BY DEF Inv, ImplProofs!Inv, ImplProofs!Calls
  <1>4. pc \in {"resetting", "prefilling", "drafting"}
    BY <1>1, <1>2, <1>3 DEF WellFormed, ImplProofs!NoCall
  <1>5. QED BY <1>1, <1>2, <1>3, <1>4 DEF Impl!Run, Awaited

\* What a handler does for the outstanding call, whether the reply gets through
\* or not.
LEMMA CallEffect ==
    ASSUME Inv, NEW c \in wire, NEW out \in Outcomes(c)
    PROVE  /\ out.session \in [live : BOOLEAN, last_step_id : Nat]
           /\ out.session.live = session.live
           /\ ~session.live => out.session = session /\ out.engine = engine
           /\ EngineProofs!EngineInv(out.engine)
           /\ pc = "resetting" =>
                 out.session.last_step_id = 0 /\ out.engine = Engine!InitEngine
           /\ pc # "resetting" =>
                 /\ out.session.last_step_id <= step_id
                 /\ drafter => EngineProofs!Holds(out.engine.kv,
                                                  out.engine.kv_confirmed_max, shipped)
  <1>1. /\ session \in [live : BOOLEAN, last_step_id : Nat]
        /\ ~session.live => session.last_step_id = 0 /\ engine = Engine!InitEngine
        /\ EngineProofs!EngineInv(engine)
        /\ step_id \in Nat
        /\ ImplProofs!Inv
    BY DEF Inv, Sessions, NoSession, Held, ImplProofs!Inv, ImplProofs!Typed, ImplProofs!TypeOK
  <1>2. /\ c = call /\ WellFormed(c) /\ Impl!Run
        /\ c.kind = "Reset" <=> pc = "resetting"
        /\ c.kind = "Prefill" <=> pc = "prefilling"
        /\ c.kind = "Draft" <=> pc = "drafting"
        /\ pc = "prefilling" => c.tokens = shipped
        /\ pc = "drafting" => c.step_id = step_id
    BY OnTheWire
  <1>3. /\ pc # "resetting" => session.last_step_id <= step_id
        /\ drafter /\ pc # "resetting" =>
              EngineProofs!Holds(engine.kv, engine.kv_confirmed_max, shipped)
        /\ ~session.live \/ drafter
    BY <1>2 DEF Inv, Guarded, Held, Sessions
  <1>4. CASE ~session.live
    <2>1. out.session = session /\ out.engine = engine
      BY <1>4 DEF Outcomes, Outcome
    <2>2. QED BY <1>1, <1>3, <1>4, <2>1
  <1>5. CASE session.live /\ c.kind = "Reset"
    <2>1. out.session = [session EXCEPT !.last_step_id = 0] /\ out.engine = Engine!InitEngine
      BY <1>5 DEF Outcomes, ResetOutcomes, Outcome
    <2>2. out.session \in [live : BOOLEAN, last_step_id : Nat]
          /\ out.session.live = session.live /\ out.session.last_step_id = 0
      BY <1>1, <2>1
    <2>3. QED BY <1>2, <1>5, <2>1, <2>2, NewHolds
  <1>6. CASE session.live /\ c.kind = "Prefill"
    <2>1. PICK o \in Engine!PrefillOutcomes(engine, shipped) :
             out.session = session /\ out.engine = o.engine
      BY <1>2, <1>6 DEF Outcomes, PrefillOutcomes, Outcome
    <2>2. o \in EngineProofs!PrefillOutcomes(engine, shipped)
      BY SameEngine
    <2>3. /\ EngineProofs!IsRun(shipped) /\ EngineProofs!PartOf(shipped, shipped)
          /\ shipped # << >> => shipped[1].position = 0
      BY <1>1, <1>2, ShippedIsRun
    <2>4. EngineProofs!Holds(engine.kv, engine.kv_confirmed_max, shipped)
      BY <1>2, <1>3, <1>6
    <2>5. /\ EngineProofs!EngineInv(o.engine)
          /\ EngineProofs!Holds(o.engine.kv, o.engine.kv_confirmed_max, shipped)
      BY <1>1, <2>2, <2>3, <2>4, Assumptions, EngineProofs!PrefillEffect
    <2>6. QED BY <1>1, <1>2, <1>3, <1>6, <2>1, <2>5
  <1>7. CASE session.live /\ c.kind = "Draft"
    <2>1. CASE out = Outcome(session, engine, Refused, NoSource)
      <3>1. out.session = session /\ out.engine = engine
        BY <2>1 DEF Outcome
      <3>2. QED BY <1>1, <1>2, <1>3, <1>7, <3>1
    <2>2. CASE out # Outcome(session, engine, Refused, NoSource)
      <3>1. PICK o \in Engine!DraftOutcomes(engine, c) :
               /\ out.session = [session EXCEPT !.last_step_id = step_id]
               /\ out.engine = o.engine
        BY <1>2, <1>7, <2>2 DEF Outcomes, DraftOutcomes, Outcome, GuardAfter
      <3>2. o \in EngineProofs!DraftOutcomes(engine, c)
        BY SameEngine
      <3>3. /\ EngineProofs!IsRun(c.accepted_tokens)
            /\ EngineProofs!PartOf(c.accepted_tokens, shipped)
        BY <1>1, <1>2, <1>7, AcceptedIsRun
      <3>4. c.max_draft_tokens \in 0 .. BlockSize
        BY <1>2, <1>7, CompositionAssumption DEF WellFormed, Impl!max_draft_tokens
      <3>5. EngineProofs!Holds(engine.kv, engine.kv_confirmed_max, shipped)
        BY <1>2, <1>3, <1>7
      <3>6. /\ EngineProofs!EngineInv(o.engine)
            /\ EngineProofs!Holds(o.engine.kv, o.engine.kv_confirmed_max, shipped)
        BY <1>1, <3>2, <3>3, <3>4, <3>5, Assumptions, EngineProofs!DraftEffect
      <3>7. /\ out.session \in [live : BOOLEAN, last_step_id : Nat]
            /\ out.session.live = session.live /\ out.session.last_step_id = step_id
        BY <1>1, <3>1
      <3>8. out.engine = o.engine
        BY <3>1
      <3>9. QED BY <1>1, <1>2, <1>7, <3>6, <3>7, <3>8
    <2>3. QED BY <2>1, <2>2
  <1>8. QED BY <1>2, <1>4, <1>5, <1>6, <1>7 DEF WellFormed
LEMMA LinkInit ==
    ASSUME Init
    PROVE  Inv
  <1>1. Impl!Init /\ session = NoSession /\ engine = Engine!InitEngine /\ wire = {}
    BY DEF Init
  <1>2. ImplProofs!Inv
    BY <1>1, SameActions, Assumptions, ImplProofs!InitStep
  <1>3. pc = "start" /\ ~drafter /\ reply = Impl!NoReply
    BY <1>1 DEF Impl!Init
  <1>4. Wired /\ Outstanding
    BY <1>1 DEF Wired, Outstanding
  <1>5. Sessions
    BY <1>1 DEF Sessions, NoSession
  <1>6. Cleared /\ Guarded /\ Held
    BY <1>1, <1>3, NewHolds DEF Cleared, Guarded, Held, Impl!Run
  <1>7. QED BY <1>2, <1>4, <1>5, <1>6 DEF Inv

LEMMA HandshakeKeeps ==
    ASSUME Inv, NEW ok \in BOOLEAN, Handshake(ok)
    PROVE  Outstanding' /\ Sessions' /\ Cleared' /\ Guarded' /\ Held'
  <1>1. /\ pc = "start" /\ pc' = "idle" /\ drafter' = ok
        /\ call' = call /\ reply' = reply /\ shipped' = shipped
        /\ session' = [NoSession EXCEPT !.live = ok]
        /\ engine' = engine /\ wire' = wire
    BY DEF Handshake, Impl!Handshake, Impl!rpc, Impl!history
  <1>2. ~drafter
    BY <1>1 DEF Inv, ImplProofs!Inv, ImplProofs!Typed
  <1>3. engine = Engine!InitEngine
    BY <1>2 DEF Inv, Sessions
  <1>4. /\ session'.live = ok /\ session' \in [live : BOOLEAN, last_step_id : Nat]
        /\ ~ok => session' = NoSession
    BY <1>1 DEF NoSession
  <1>5. Outstanding'
    BY <1>1 DEF Inv, Outstanding, Impl!NoReply
  <1>6. Sessions'
    BY <1>1, <1>3, <1>4, SameEngine DEF Sessions, NoSession, Engine!InitEngine, Engine!Empty
  <1>7. Cleared' /\ Guarded' /\ Held'
    BY <1>1, <1>3, NewHolds DEF Cleared, Guarded, Held, Impl!Run
  <1>8. QED BY <1>5, <1>6, <1>7

\* The server's thread never runs on while its call is on the wire.
LEMMA NothingOnTheWire ==
    ASSUME Inv, Impl!Server \/ Impl!BeginSome
    PROVE  wire = {}
  <1> SUFFICES ASSUME NEW c \in wire PROVE FALSE
    OBVIOUS
  <1>1. /\ reply = Impl!NoReply /\ WellFormed(c) /\ Impl!Run
        /\ c.kind = "Reset" <=> pc = "resetting"
        /\ c.kind = "Prefill" <=> pc = "prefilling"
        /\ c.kind = "Draft" <=> pc = "drafting"
    BY OnTheWire
  <1>2. pc \in {"resetting", "prefilling", "drafting"} /\ pc # "idle"
    BY <1>1 DEF WellFormed, Impl!Run
  <1>3. CASE Impl!BeginSome
    BY <1>2, <1>3 DEF Impl!BeginSome, Impl!Begin
  <1>4. CASE Impl!Server
    BY <1>1, <1>2, <1>4, ServerShape
  <1>5. QED BY <1>3, <1>4

LEMMA DispatchKeeps ==
    ASSUME Inv, Impl!Server \/ Impl!BeginSome, Dispatch
    PROVE  Outstanding'
  <1>1. wire = {}
    BY NothingOnTheWire
  <1>2. CASE UNCHANGED Impl!rpc
    BY <1>1, <1>2 DEF Dispatch, Outstanding
  <1>3. CASE ~UNCHANGED Impl!rpc
    <2>1. reply' = Impl!NoReply
      BY <1>3, ServerShape
    <2>2. wire' \subseteq {call'}
      BY <1>1 DEF Dispatch
    <2>3. QED BY <2>1, <2>2 DEF Outstanding, Impl!NoReply
  <1>4. QED BY <1>2, <1>3

LEMMA BeginKeeps ==
    ASSUME Inv, Begin
    PROVE  Outstanding' /\ Sessions' /\ Cleared' /\ Guarded' /\ Held'
  <1>1. /\ Impl!BeginSome /\ Dispatch
        /\ session' = session /\ engine' = engine
    BY DEF Begin, Dispatch, edge
  <1>2. /\ drafter' = drafter /\ step_id' = 0
        /\ IF drafter THEN reply' = Impl!NoReply /\ pc' = "resetting"
           ELSE pc' = "ready"
    BY <1>1 DEF Impl!BeginSome, Impl!Begin, Impl!Forget, Impl!Send
  <1>3. Outstanding'
    BY <1>1, DispatchKeeps
  <1>4. Sessions'
    BY <1>1, <1>2 DEF Inv, Sessions, NoSession, Engine!InitEngine, Engine!Empty
  <1>5. Cleared'
    BY <1>2 DEF Cleared, Impl!NoReply
  <1>6. Guarded'
    BY <1>1, <1>2 DEF Inv, Sessions, Guarded, NoSession
  <1>7. Held'
    BY <1>1, <1>2 DEF Inv, Held, EngineProofs!EngineInv, EngineProofs!WellTyped,
           EngineProofs!MarkHeld, EngineProofs!CleanUpToMark
  <1>8. QED BY <1>3, <1>4, <1>5, <1>6, <1>7

LEMMA ServerStepKeeps ==
    ASSUME Inv, ServerStep
    PROVE  Outstanding' /\ Sessions' /\ Cleared' /\ Guarded' /\ Held'
  <1>1. /\ Impl!Server /\ Dispatch
        /\ session' = session /\ engine' = engine
    BY DEF ServerStep, Dispatch, edge
  <1>2. step_id \in Nat /\ ImplProofs!Inv /\ session.last_step_id \in Nat
    BY DEF Inv, ImplProofs!Inv, ImplProofs!Typed, ImplProofs!TypeOK, Sessions
  <1>3. /\ Impl!Run /\ pc' # "resetting" /\ drafter' = drafter
        /\ step_id' \in {step_id, step_id + 1}
        /\ pc = "resetting" => reply # Impl!NoReply
    BY <1>1, <1>2, ServerGoes, ServerShape
  <1>4. Outstanding'
    BY <1>1, DispatchKeeps
  <1>5. Sessions'
    BY <1>1, <1>3 DEF Inv, Sessions, NoSession, Engine!InitEngine, Engine!Empty
  <1>6. Cleared'
    BY <1>3 DEF Cleared
  <1>7. CASE pc = "resetting"
    <2>1. session.last_step_id = 0 /\ engine = Engine!InitEngine
      BY <1>3, <1>7 DEF Inv, Cleared
    <2>2. Guarded' /\ Held'
      BY <1>1, <1>2, <1>3, <2>1, NewHolds DEF Guarded, Held
    <2>3. QED BY <1>4, <1>5, <1>6, <2>2
  <1>8. CASE pc # "resetting"
    <2>1. Guarded'
      BY <1>1, <1>2, <1>3, <1>8 DEF Inv, Guarded
    <2>2. /\ EngineProofs!EngineInv(engine)
          /\ drafter => EngineProofs!Holds(engine.kv, engine.kv_confirmed_max, shipped)
      BY <1>3, <1>8 DEF Inv, Held
    <2>3. /\ Len(shipped') >= Len(shipped)
          /\ \A i \in 1 .. Len(shipped) : shipped'[i] = shipped[i]
          /\ Len(shipped) \in Nat /\ Len(shipped') \in Nat
      <3>1. ImplProofs!Inv'
        BY <1>1, <1>2, ImplKept DEF Impl!Next
      <3>2. QED BY <1>1, <1>2, <3>1, ShippedGrows DEF ImplProofs!Inv, ImplProofs!Typed
    <2>4. /\ engine.kv.first \in Nat
          /\ \A p \in engine.kv.first .. engine.kv.last : p \in Nat
      BY <2>2 DEF EngineProofs!EngineInv, EngineProofs!WellTyped, EngineProofs!IsCache,
             EngineProofs!Empty
    <2>5. drafter => EngineProofs!Holds(engine.kv, engine.kv_confirmed_max, shipped')
      <3> SUFFICES ASSUME drafter, NEW p \in engine.kv.first .. engine.kv.last,
                          p <= engine.kv_confirmed_max
                   PROVE  p < Len(shipped') /\ engine.kv.cell[p] = shipped'[p + 1]
        BY DEF EngineProofs!Holds
      <3>1. p \in Nat /\ p < Len(shipped) /\ engine.kv.cell[p] = shipped[p + 1]
        BY <2>2, <2>4 DEF EngineProofs!Holds
      <3>2. p + 1 \in 1 .. Len(shipped)
        BY <2>3, <3>1
      <3>3. shipped'[p + 1] = shipped[p + 1]
        BY <2>3, <3>2
      <3>4. QED BY <2>3, <3>1, <3>3
    <2>6. Held'
      BY <1>1, <1>3, <2>2, <2>5 DEF Held, EngineProofs!Holds
    <2>7. QED BY <1>4, <1>5, <1>6, <2>1, <2>6
  <1>9. QED BY <1>7, <1>8
LEMMA ServeKeeps ==
    ASSUME Inv, NEW c \in wire, NEW out \in Outcomes(c), NEW delivered, Serve(c, out, delivered)
    PROVE  Outstanding' /\ Sessions' /\ Cleared' /\ Guarded' /\ Held'
  <1>1. /\ Awaited(c) /\ wire \ {c} = {} /\ Impl!Run
    BY OnTheWire
  <1>2. /\ wire' = {} /\ session' = out.session /\ engine' = out.engine
        /\ pc' = pc /\ drafter' = drafter /\ shipped' = shipped /\ step_id' = step_id
    BY <1>1 DEF Serve, Impl!Answer, Impl!book, Impl!history
  <1>3. /\ out.session \in [live : BOOLEAN, last_step_id : Nat]
        /\ out.session.live = session.live
        /\ ~session.live => out.session = session /\ out.engine = engine
        /\ EngineProofs!EngineInv(out.engine)
        /\ pc = "resetting" =>
              out.session.last_step_id = 0 /\ out.engine = Engine!InitEngine
        /\ pc # "resetting" =>
              /\ out.session.last_step_id <= step_id
              /\ drafter => EngineProofs!Holds(out.engine.kv,
                                               out.engine.kv_confirmed_max, shipped)
    BY CallEffect
  <1>4. Outstanding'
    BY <1>2 DEF Outstanding
  <1>5. Sessions'
    BY <1>2, <1>3 DEF Inv, Sessions, NoSession, Engine!InitEngine, Engine!Empty
  <1>6. Cleared'
    BY <1>2, <1>3 DEF Cleared, Engine!InitEngine, Engine!Empty
  <1>7. Guarded'
    BY <1>2, <1>3 DEF Guarded
  <1>8. Held'
    BY <1>2, <1>3 DEF Held
  <1>9. QED BY <1>4, <1>5, <1>6, <1>7, <1>8

LEMMA LoseRequestKeeps ==
    ASSUME ResetsArrive, Inv, LoseRequest
    PROVE  Outstanding' /\ Sessions' /\ Cleared' /\ Guarded' /\ Held'
  <1>1. call \in wire /\ call.kind # "Reset"
    BY DEF ResetsArrive, LoseRequest, Hit
  <1>2. wire \ {call} = {} /\ pc # "resetting"
    BY <1>1, OnTheWire
  <1>3. /\ wire' = {} /\ session' = session /\ engine' = engine
        /\ pc' = pc /\ drafter' = drafter /\ shipped' = shipped /\ step_id' = step_id
    BY <1>2 DEF LoseRequest, Impl!Answer, Impl!book, Impl!history, edge
  <1>4. QED BY <1>2, <1>3
            DEF Inv, Outstanding, Sessions, NoSession, Engine!InitEngine, Engine!Empty, Cleared,
                Guarded, Held, Impl!Run

LEMMA RestartKeeps ==
    ASSUME Inv, Restart
    PROVE  Outstanding' /\ Sessions' /\ Cleared' /\ Guarded' /\ Held'
  <1>1. /\ session' = NoSession /\ engine' = Engine!InitEngine /\ wire' = {}
        /\ pc' = pc /\ drafter' = drafter /\ shipped' = shipped /\ step_id' = step_id
    BY DEF Restart, Impl!Answer, Impl!book, Impl!history, server
  <1>2. step_id \in Nat
    BY DEF Inv, ImplProofs!Inv, ImplProofs!Typed, ImplProofs!TypeOK
  <1>3. Outstanding' /\ Sessions' /\ Cleared' /\ Guarded'
    BY <1>1, <1>2
       DEF Outstanding, Sessions, NoSession, Cleared, Guarded, Engine!InitEngine, Engine!Empty
  <1>4. Held'
    BY <1>1, NewHolds DEF Held
  <1>5. QED BY <1>3, <1>4

\* A step that leaves all but the wire, which it may take calls off, alone.
LEMMA QuietKeeps ==
    ASSUME Inv, UNCHANGED <<server, edge>>, wire' \subseteq wire
    PROVE  Outstanding' /\ Sessions' /\ Cleared' /\ Guarded' /\ Held'
  <1>1. /\ session' = session /\ engine' = engine /\ call' = call /\ reply' = reply
        /\ pc' = pc /\ drafter' = drafter /\ shipped' = shipped /\ step_id' = step_id
    BY DEF server, edge
  <1>2. QED BY <1>1
            DEF Inv, Outstanding, Sessions, NoSession, Engine!InitEngine, Engine!Empty, Cleared,
                Guarded, Held, Impl!Run, Impl!NoReply

LEMMA LinkStep ==
    ASSUME ResetsArrive, Inv, [Next]_vars
    PROVE  Inv'
  <1>1. ImplProofs!Inv' /\ Wired'
    BY WiredStep, ServerRefines, ImplKept DEF Inv
  <1>2. Outstanding' /\ Sessions' /\ Cleared' /\ Guarded' /\ Held'
    <2>1. CASE \E ok \in BOOLEAN : Handshake(ok)
      BY <2>1, HandshakeKeeps
    <2>2. CASE Begin
      BY <2>2, BeginKeeps
    <2>3. CASE ServerStep
      BY <2>3, ServerStepKeeps
    <2>4. CASE Handle
      BY <2>4, ServeKeeps DEF Handle
    <2>5. CASE LoseRequest
      BY <2>5, LoseRequestKeeps
    <2>6. CASE LoseReply
      BY <2>6, ServeKeeps DEF LoseReply, Hit
    <2>7. CASE BreakOff
      BY <2>7 DEF BreakOff, Hit, ResetsArrive
    <2>8. CASE Restart
      BY <2>8, RestartKeeps
    <2>9. CASE Vanish
      BY <2>9, QuietKeeps DEF Vanish
    <2>10. CASE Shut \/ UNCHANGED vars
      BY <2>10, QuietKeeps DEF Shut, vars
    <2>11. QED BY <2>1, <2>2, <2>3, <2>4, <2>5, <2>6, <2>7, <2>8, <2>9, <2>10 DEF Next
  <1>3. QED BY <1>1, <1>2 DEF Inv

\* Server and daemon agree on the call under way, on the session and on what was
\* shipped in it, as long as Resets arrive (begin, DraftServiceImpl::Reset).
THEOREM Linked == ResetsArrive => (Spec => []Inv)
  <1> SUFFICES ASSUME ResetsArrive PROVE Spec => []Inv
    OBVIOUS
  <1>1. Init => Inv
    BY LinkInit
  <1>2. Inv /\ [Next]_vars => Inv'
    BY LinkStep
  <1>3. QED BY <1>1, <1>2, PTL DEF Spec

\* However many replies and Prefill and Draft requests are lost, and however
\* often the daemon restarts, what the engine has confirmed is the server's own
\* shipped prefix, position by position.  A Reset that is lost, or a handler that
\* runs late, may leave the last generation's cells confirmed: the hypothesis.
THEOREM ConfirmedWasShipped == ResetsArrive => (Spec => []HeldWasShipped)
  <1> SUFFICES ASSUME ResetsArrive PROVE Spec => []HeldWasShipped
    OBVIOUS
  <1>1. Inv => HeldWasShipped
    BY DEF Inv, Held, HeldWasShipped, EngineProofs!Holds
  <1>2. Spec => []Inv
    BY Linked
  <1>3. QED BY <1>1, <1>2, PTL

\* The daemon never takes a fresh Draft for a replayed one under the same
\* failures, restarts and lost calls included (grpc_service.cpp:188).
THEOREM GuardStaysBehind == ResetsArrive => (Spec => []GuardBehindCounter)
  <1> SUFFICES ASSUME ResetsArrive PROVE Spec => []GuardBehindCounter
    OBVIOUS
  <1>1. Inv => GuardBehindCounter
    BY DEF Inv, Guarded, GuardBehindCounter
  <1>2. Spec => []Inv
    BY Linked
  <1>3. QED BY <1>1, <1>2, PTL
-----------------------------------------------------------------------------
(* What a block was drafted on, when no Prefill is lost either and the     *)
(* engine fails only where the cache is full.                              *)

CallsArrive == LostRequests \subseteq {"Draft"} /\ LateCalls = {}

EngineHolds == ~InferenceFaults

\* The engine of a live session holds the prefix from position 0 on once the
\* server takes it to be prefilled, and is new until then; the first Draft, which
\* has nothing to ship, finds all of it confirmed.
Prefilled ==
    session.live /\ Impl!Run =>
        /\ ~prefilled /\ pc \in {"ready", "verify"} => engine = Engine!InitEngine
        /\ pc = "prefilling" =>
              IF reply = Impl!NoReply THEN engine = Engine!InitEngine
              ELSE engine.kv_confirmed_max = Len(ctx) - 1 /\ engine.kv.first = 0
        /\ prefilled => engine.kv_confirmed_max >= 0 /\ engine.kv.first = 0
        /\ pc = "drafting" /\ reply = Impl!NoReply /\ call.accepted_tokens = << >> =>
              engine.kv_confirmed_max = Len(ctx) - 1

\* A cache from position 0 to the last committed one that holds what was shipped
\* is the cache of the committed prefix.
LEMMA ShippedIsCommittedCache ==
    ASSUME ImplProofs!Inv, pc = "drafting", NEW kv,
           EngineProofs!IsCache(kv, EngineProofs!Cell),
           kv.first = 0, kv.last = Len(ctx) - 1,
           EngineProofs!Holds(kv, Len(ctx) - 1, shipped)
    PROVE  kv = CommittedCache
  <1>1. Impl!Run /\ ImplProofs!Run
    BY SameHelpers DEF Impl!Run
  <1>2. /\ ctx \in Seq(Vocabulary) /\ Len(ctx) > 0 /\ Len(ctx) \in Nat
    BY <1>1 DEF ImplProofs!Inv, ImplProofs!Begun, ImplProofs!n_past
  <1>3. Len(shipped) = Len(ctx)
    BY AcceptedIsRun
  <1>4. \A i \in 1 .. Len(shipped) : shipped[i] = Impl!PacketOf(SubSeq(ctx, 1, i))
    <2> TAKE i \in 1 .. Len(shipped)
    <2>1. ctx[i] \in Vocabulary /\ Media \notin Vocabulary
      BY <1>2, <1>3, CompositionAssumption
    <2>2. shipped[i] = ImplProofs!PacketOf(SubSeq(ctx, 1, i))
      BY <1>1, <2>1 DEF ImplProofs!Inv, ImplProofs!Shipped
    <2>3. QED BY <2>2 DEF ImplProofs!PacketOf, Impl!PacketOf, ImplProofs!Last, Impl!Last
  <1>5. /\ kv = [first |-> kv.first, last |-> kv.last, cell |-> kv.cell]
        /\ kv.cell \in [0 .. Len(ctx) - 1 -> EngineProofs!Cell]
    BY <1>2 DEF EngineProofs!IsCache, EngineProofs!Empty
  <1>6. \A p \in 0 .. Len(ctx) - 1 : kv.cell[p] = Impl!PacketOf(SubSeq(ctx, 1, p + 1))
    <2> TAKE p \in 0 .. Len(ctx) - 1
    <2>1. p \in kv.first .. kv.last /\ p <= Len(ctx) - 1
      BY <1>2
    <2>2. kv.cell[p] = shipped[p + 1]
      BY <2>1 DEF EngineProofs!Holds
    <2>3. p + 1 \in 1 .. Len(shipped)
      BY <1>2, <1>3
    <2>4. QED BY <1>4, <2>2, <2>3
  <1>7. kv.cell = [p \in 0 .. Len(ctx) - 1 |-> Impl!PacketOf(SubSeq(ctx, 1, p + 1))]
    BY <1>5, <1>6
  <1>8. QED BY <1>5, <1>7 DEF CommittedCache

\* The ways of the server's thread, as far as the engine's part goes.
LEMMA ServerPath ==
    ASSUME Impl!Server
    PROVE  \/ pc = "resetting" /\ pc' = "ready" /\ prefilled' = prefilled
           \/ /\ pc = "prefilling" /\ reply # Impl!NoReply
              /\ pc' = "drafting" /\ reply' = Impl!NoReply /\ ctx' = ctx
           \/ pc = "ready" /\ ~prefilled /\ pc' = "prefilling" /\ ~prefilled' /\ reply' = Impl!NoReply
           \/ /\ pc = "ready" /\ prefilled /\ pc' = "drafting" /\ reply' = Impl!NoReply
              /\ call'.accepted_tokens = Impl!Gather(n_sent + 1, Len(ctx) - 1)
           \/ /\ pc \in {"drafting", "ready", "verify"} /\ pc' \in {"ready", "verify", "idle"}
              /\ prefilled' = prefilled
  <1> USE DEF Impl!slot, Impl!book, Impl!Drafting
  <1>1. CASE Impl!ResetReturn
    BY <1>1 DEF Impl!ResetReturn
  <1>2. CASE Impl!PrefillReturn
    BY <1>2 DEF Impl!PrefillReturn, Impl!Send
  <1>3. CASE Impl!ShipPrefill
    BY <1>3 DEF Impl!ShipPrefill, Impl!Send
  <1>4. CASE Impl!ShipDraft
    BY <1>4 DEF Impl!ShipDraft, Impl!Send, Impl!DraftCall, Impl!n_past
  <1>5. CASE Impl!DraftReturn \/ Impl!DraftNone \/ Impl!DraftMissing \/ Impl!VerifySome \/ Impl!Finish
    BY <1>5 DEF Impl!DraftReturn, Impl!DraftNone, Impl!DraftMissing, Impl!VerifySome, Impl!Verify,
         Impl!Finish
  <1>6. QED BY <1>1, <1>2, <1>3, <1>4, <1>5 DEF Impl!Server

\* Where the books stand when the engine's part depends on them.
LEMMA BooksStand ==
    ASSUME ImplProofs!Inv, Impl!Run
    PROVE  /\ Len(ctx) \in Nat /\ Len(ctx) > 0 /\ Len(ctx) <= MaxLen
           /\ prefilled \in BOOLEAN /\ n_sent \in Int
           /\ pc \in {"resetting", "prefilling"} => ~prefilled
           /\ pc = "drafting" => prefilled
           /\ pc = "prefilling" => Len(shipped) = Len(ctx)
           /\ pc = "ready" /\ prefilled => n_sent < Len(ctx) - 1
  <1>1. ImplProofs!Run
    BY SameHelpers
  <1>2. /\ ctx \in Seq(Vocabulary) /\ Len(ctx) > 0
        /\ prefilled \in BOOLEAN /\ n_sent \in Int /\ Len(ctx) <= MaxLen
    BY <1>1 DEF ImplProofs!Inv, ImplProofs!Begun, ImplProofs!n_past, ImplProofs!Typed,
           ImplProofs!TypeOK
  <1>3. QED BY <1>1, <1>2 DEF ImplProofs!Inv, ImplProofs!Books, ImplProofs!n_past

LEMMA ServerStepPrefills ==
    ASSUME Inv, Prefilled, ServerStep
    PROVE  Prefilled'
  <1> SUFFICES ASSUME session.live, Impl!Run' PROVE Prefilled'
    BY DEF Prefilled, ServerStep, Dispatch, edge
  <1>1. /\ Impl!Server /\ engine' = engine /\ session' = session /\ ImplProofs!Inv
    BY DEF ServerStep, Dispatch, edge, Inv
  <1>2. step_id \in Nat
    BY <1>1 DEF ImplProofs!Inv, ImplProofs!Typed, ImplProofs!TypeOK
  <1>3. Impl!Run /\ (pc = "resetting" => reply # Impl!NoReply)
    BY <1>1, <1>2, ServerGoes, ServerShape
  <1>4. /\ Len(ctx) \in Nat /\ Len(ctx) > 0 /\ prefilled \in BOOLEAN /\ n_sent \in Int
        /\ pc \in {"resetting", "prefilling"} => ~prefilled
        /\ pc = "drafting" => prefilled
        /\ pc = "ready" /\ prefilled => n_sent < Len(ctx) - 1
    BY <1>1, <1>3, BooksStand
  <1>5. CASE pc = "resetting" /\ pc' = "ready" /\ prefilled' = prefilled
    <2>1. engine = Engine!InitEngine
      BY <1>3, <1>5 DEF Inv, Cleared
    <2>2. QED BY <1>1, <1>4, <1>5, <2>1, SameEngine DEF Prefilled, Engine!InitEngine, Engine!Empty
  <1>6. CASE /\ pc = "prefilling" /\ reply # Impl!NoReply
             /\ pc' = "drafting" /\ reply' = Impl!NoReply /\ ctx' = ctx
    <2>1. engine.kv_confirmed_max = Len(ctx) - 1 /\ engine.kv.first = 0
      BY <1>3, <1>6 DEF Prefilled
    <2>2. QED BY <1>1, <1>4, <1>6, <2>1 DEF Prefilled
  <1>7. CASE pc = "ready" /\ ~prefilled /\ pc' = "prefilling" /\ ~prefilled' /\ reply' = Impl!NoReply
    <2>1. engine = Engine!InitEngine
      BY <1>3, <1>7 DEF Prefilled
    <2>2. QED BY <1>1, <1>7, <2>1 DEF Prefilled, Impl!NoReply, Engine!InitEngine, Engine!Empty
  <1>8. CASE /\ pc = "ready" /\ prefilled /\ pc' = "drafting" /\ reply' = Impl!NoReply
             /\ call'.accepted_tokens = Impl!Gather(n_sent + 1, Len(ctx) - 1)
    <2>1. engine.kv_confirmed_max >= 0 /\ engine.kv.first = 0
      BY <1>3, <1>8 DEF Prefilled
    <2>2. call'.accepted_tokens # << >>
      <3> DEFINE n == Len(ctx) - 1 - (n_sent + 1) + 1
      <3>1. n > 0 /\ n \in Nat
        BY <1>4, <1>8
      <3>2. call'.accepted_tokens = [i \in 1 .. n |-> feats[n_sent + 1 + i - 1]]
        BY <1>8 DEF Impl!Gather
      <3> HIDE DEF n
      <3>3. 1 \in DOMAIN call'.accepted_tokens
        BY <3>1, <3>2
      <3>4. QED BY <3>3
    <2>3. QED BY <1>1, <1>8, <2>1, <2>2 DEF Prefilled
  <1>9. CASE /\ pc \in {"drafting", "ready", "verify"} /\ pc' \in {"ready", "verify", "idle"}
             /\ prefilled' = prefilled
    <2>1. /\ prefilled => engine.kv_confirmed_max >= 0 /\ engine.kv.first = 0
          /\ ~prefilled => engine = Engine!InitEngine
      BY <1>3, <1>4, <1>9 DEF Prefilled
    <2>2. QED BY <1>1, <1>9, <2>1 DEF Prefilled, Engine!InitEngine, Engine!Empty
  <1>10. QED BY <1>1, <1>5, <1>6, <1>7, <1>8, <1>9, ServerPath
\* What a handler's outcome means for the engine's part, whether the reply gets
\* through or not.
LEMMA CallPrefills ==
    ASSUME EngineHolds, Inv, Prefilled, session.live, NEW c \in wire, NEW out \in Outcomes(c)
    PROVE  /\ pc = "prefilling" =>
                 out.engine.kv_confirmed_max = Len(ctx) - 1 /\ out.engine.kv.first = 0
           /\ pc = "drafting" =>
                 /\ out.engine.kv_confirmed_max >= 0 /\ out.engine.kv.first = 0
                 /\ out.reply.ok => out.source.kv = CommittedCache
  <1>1. /\ c = call /\ WellFormed(c) /\ Impl!Run /\ reply = Impl!NoReply
        /\ c.kind = "Prefill" <=> pc = "prefilling"
        /\ c.kind = "Draft" <=> pc = "drafting"
        /\ pc = "prefilling" => c.tokens = shipped
    BY OnTheWire
  <1>2. /\ ImplProofs!Inv /\ EngineProofs!EngineInv(engine) /\ drafter
        /\ Len(ctx) \in Nat /\ Len(ctx) > 0 /\ Len(ctx) <= MaxLen
        /\ pc = "drafting" => prefilled
        /\ pc = "prefilling" => Len(shipped) = Len(ctx)
    BY <1>1, BooksStand DEF Inv, Held, Sessions
  <1>3. CASE pc = "prefilling"
    <2>1. PICK o \in Engine!PrefillOutcomes(engine, shipped) : out.engine = o.engine
      BY <1>1, <1>3 DEF Outcomes, PrefillOutcomes, Outcome
    <2>2. engine = Engine!InitEngine
      BY <1>1, <1>3 DEF Prefilled
    <2>3. o \in EngineProofs!PrefillOutcomes(EngineProofs!InitEngine, shipped)
      BY <2>2, SameEngine
    <2>4. /\ EngineProofs!IsRun(shipped) /\ shipped \in Seq(EngineProofs!Packet)
          /\ shipped # << >> => shipped[1].position = 0
      BY <1>1, <1>2, ShippedIsRun
    <2>5. Len(shipped) = Len(ctx) /\ Len(shipped) <= NCtx /\ shipped # << >>
      BY <1>2, <1>3, <2>4, EmptySeq, CompositionAssumption
    <2>6. o.engine.kv_confirmed_max = Len(shipped) - 1 /\ o.engine.kv.first = 0
      BY <2>3, <2>4, <2>5, Assumptions, EngineProofs!PrefillTakesAll DEF EngineHolds
    <2>7. QED BY <1>3, <2>1, <2>5, <2>6
  <1>4. CASE pc = "drafting"
    <2>1. engine.kv_confirmed_max >= 0 /\ engine.kv.first = 0
      BY <1>1, <1>2, <1>4 DEF Prefilled
    <2>2. CASE out = Outcome(session, engine, Refused, NoSource)
      <3>1. out.engine = engine /\ ~out.reply.ok
        BY <2>2 DEF Outcome, Refused
      <3>2. QED BY <1>4, <2>1, <3>1
    <2>3. CASE out # Outcome(session, engine, Refused, NoSource)
      <3>1. PICK o \in Engine!DraftOutcomes(engine, c) :
               /\ out.engine = o.engine
               /\ out.reply = IF o.ok THEN Good(o.draft_tokens) ELSE Refused
               /\ out.source = IF o.ok THEN o.from ELSE NoSource
        BY <1>1, <1>4, <2>3 DEF Outcomes, DraftOutcomes, Outcome
      <3>2. o \in EngineProofs!DraftOutcomes(engine, c)
        BY SameEngine
      <3> DEFINE tokens == c.accepted_tokens
                 m == o.engine.kv_confirmed_max
      <3>3. /\ EngineProofs!IsRun(tokens)
            /\ EngineProofs!PartOf(tokens, shipped)
            /\ tokens # << >> => tokens[1].position + Len(tokens) = Len(shipped)
            /\ Len(shipped) = Len(ctx)
        BY <1>1, <1>2, <1>4, AcceptedIsRun
      <3>4. c.max_draft_tokens \in 0 .. BlockSize
        BY <1>1, <1>4, CompositionAssumption DEF WellFormed, Impl!max_draft_tokens
      <3>5. EngineProofs!Holds(engine.kv, engine.kv_confirmed_max, shipped)
        BY <1>1, <1>2, <1>4 DEF Inv, Held
      <3>6. EngineProofs!IsRun(tokens) /\ EngineProofs!PartOf(tokens, shipped)
        BY <3>3
      <3>7. EngineProofs!EngineAssumption /\ EngineProofs!NCtxAssumption
        BY Assumptions
      <3>8. /\ EngineProofs!EngineInv(o.engine)
            /\ m >= engine.kv_confirmed_max
            /\ engine.kv_confirmed_max >= 0 => o.engine.kv.first = engine.kv.first
        BY <1>2, <3>2, <3>6, <3>4, <3>5, <3>7, EngineProofs!DraftEffect
      <3>9. o.ok => /\ EngineProofs!IsCache(o.from.kv, EngineProofs!Cell)
                    /\ o.from.kv.last = m
                    /\ EngineProofs!Holds(o.from.kv, m, shipped)
        BY <1>2, <3>2, <3>6, <3>4, <3>5, <3>7, EngineProofs!DraftEffect
      <3>10. o.ok => /\ engine.kv_confirmed_max >= 0 => o.from.kv.first = engine.kv.first
                     /\ m = IF tokens = << >> THEN engine.kv_confirmed_max
                            ELSE tokens[1].position + Len(tokens) - 1
        <4>1. o.ok => o.from.kv.first = engine.kv.first
          BY <1>2, <2>1, <3>2, <3>6, <3>4, <3>5, <3>7, EngineProofs!DraftStarts
        <4>2. o.ok => m = IF tokens = << >> THEN engine.kv_confirmed_max
                          ELSE tokens[1].position + Len(tokens) - 1
          BY <1>2, <3>2, <3>6, <3>4, <3>5, <3>7, EngineProofs!DraftEnds
        <4>3. QED BY <4>1, <4>2
      <3>11. m >= 0 /\ o.engine.kv.first = 0
        <4>1. engine.kv_confirmed_max \in Int /\ m \in Int
          BY <1>2, <3>8 DEF EngineProofs!EngineInv, EngineProofs!WellTyped
        <4>2. QED BY <2>1, <3>8, <4>1
      <3>12. ASSUME o.ok PROVE o.from.kv = CommittedCache
        <4>1. CASE tokens = << >>
          <5>1. m = engine.kv_confirmed_max /\ engine.kv_confirmed_max = Len(ctx) - 1
            BY <1>1, <1>4, <3>9, <3>10, <3>12, <4>1 DEF Prefilled
          <5>2. o.from.kv.last = Len(ctx) - 1 /\ o.from.kv.first = 0
            BY <2>1, <3>9, <3>10, <3>12, <5>1
          <5>3. QED BY <1>2, <1>4, <3>9, <3>10, <3>12, <5>1, <5>2, ShippedIsCommittedCache
        <4>2. CASE tokens # << >>
          <5>1. m = tokens[1].position + Len(tokens) - 1
            BY <3>9, <3>10, <3>12, <4>2
          <5>2. m = Len(ctx) - 1
            <6>1. tokens \in Seq(EngineProofs!Packet) /\ tokens # << >>
              BY <3>3, <4>2 DEF EngineProofs!IsRun
            <6> HIDE DEF tokens
            <6>2. Len(tokens) \in Nat /\ tokens[1] \in EngineProofs!Packet
              BY <6>1, EmptySeq
            <6>3. tokens[1].position \in Nat
              BY <6>2 DEF EngineProofs!Packet
            <6>4. QED BY <1>2, <3>3, <4>2, <5>1, <6>2, <6>3
          <5>3. o.from.kv.last = Len(ctx) - 1 /\ o.from.kv.first = 0
            BY <2>1, <3>9, <3>10, <3>12, <5>2
          <5>4. QED BY <1>2, <1>4, <3>9, <3>10, <3>12, <5>2, <5>3, ShippedIsCommittedCache
        <4>3. QED BY <4>1, <4>2
      <3>13. o.ok \/ ~out.reply.ok
        BY <3>1 DEF Refused
      <3>14. out.engine = o.engine /\ (o.ok => out.source = o.from)
        BY <3>1
      <3>15. QED BY <1>4, <3>11, <3>12, <3>13, <3>14
    <2>4. QED BY <2>2, <2>3
  <1>5. QED BY <1>3, <1>4

\* Only an answer of a live session brings a block.
LEMMA NoSessionRefuses ==
    ASSUME ~session.live, NEW c, NEW out \in Outcomes(c)
    PROVE  ~out.reply.ok
  BY DEF Outcomes, Outcome, Refused

LEMMA ServePrefills ==
    ASSUME EngineHolds, Inv, Prefilled, DraftGrounded,
           NEW c \in wire, NEW out \in Outcomes(c), NEW delivered \in BOOLEAN,
           Serve(c, out, delivered)
    PROVE  Prefilled' /\ DraftGrounded'
  <1>1. /\ Awaited(c) /\ Impl!Run /\ WellFormed(c)
        /\ c.kind = "Reset" <=> pc = "resetting"
        /\ c.kind = "Prefill" <=> pc = "prefilling"
        /\ c.kind = "Draft" <=> pc = "drafting"
    BY OnTheWire
  <1>2. /\ session' = out.session /\ engine' = out.engine
        /\ pc' = pc /\ prefilled' = prefilled /\ ctx' = ctx
        /\ reply' = IF delivered THEN out.reply ELSE Refused
        /\ source' = IF delivered THEN out.source ELSE source
    BY <1>1 DEF Serve, Impl!Answer, Impl!book, Impl!slot
  <1>3. reply' # Impl!NoReply'
    <2>1. out.reply \in Impl!Replies
      BY <1>1, RepliesFit
    <2>2. \A r \in Impl!Replies : DOMAIN r \in {{"ok", "draft_tokens"}, {"ok"}}
      BY DEF Impl!Replies
    <2>3. DOMAIN Refused = {"ok"} /\ DOMAIN [pending |-> TRUE] = {"pending"}
      BY DEF Refused
    <2>4. DOMAIN out.reply # {"pending"}
      BY <2>1, <2>2
    <2>5. QED BY <1>2, <2>3, <2>4 DEF Impl!NoReply
  <1>4. pc \in {"resetting", "prefilling", "drafting"}
        /\ (pc \in {"resetting", "prefilling"} => ~prefilled)
    BY <1>1, BooksStand DEF WellFormed, Inv
  <1>5. out.session.live = session.live
    BY CallEffect
  <1>6. Prefilled'
    <2>1. CASE ~session.live
      BY <1>2, <1>5, <2>1 DEF Prefilled
    <2>2. CASE session.live
      <3>1. /\ pc = "prefilling" =>
                  out.engine.kv_confirmed_max = Len(ctx) - 1 /\ out.engine.kv.first = 0
            /\ pc = "drafting" =>
                  /\ out.engine.kv_confirmed_max >= 0 /\ out.engine.kv.first = 0
        BY <2>2, CallPrefills
      <3>2. QED BY <1>2, <1>3, <1>4, <3>1 DEF Prefilled
    <2>3. QED BY <2>1, <2>2
  <1>7. DraftGrounded'
    <2> SUFFICES ASSUME pc = "drafting", reply'.ok PROVE source'.kv = CommittedCache'
      BY <1>2 DEF DraftGrounded, Answered
    <2>1. delivered /\ out.reply.ok
      BY <1>2 DEF Refused
    <2>2. session.live
      BY <2>1, NoSessionRefuses
    <2>3. out.source.kv = CommittedCache
      BY <2>1, <2>2, CallPrefills
    <2>4. CommittedCache' = CommittedCache
      BY <1>2 DEF CommittedCache, Impl!PacketOf, Impl!Last
    <2>5. QED BY <1>2, <2>1, <2>3, <2>4
  <1>8. QED BY <1>6, <1>7

\* A step that leaves the slot, the engine and what was drafted on alone, and the
\* session or has it go.
LEMMA RestPrefills ==
    ASSUME Inv, Prefilled, DraftGrounded,
           UNCHANGED <<ctx, pc, prefilled, call, source>>,
           \/ UNCHANGED <<session, engine, reply>>
           \/ ~session'.live /\ (reply' = reply \/ ~reply'.ok)
           \/ /\ UNCHANGED <<session, engine>>
              /\ reply = Impl!NoReply /\ ~reply'.ok /\ pc # "prefilling"
    PROVE  Prefilled' /\ DraftGrounded'
  <1>1. DraftGrounded'
    BY DEF DraftGrounded, Answered, CommittedCache, Impl!PacketOf, Impl!Last, Impl!NoReply
  <1>2. Prefilled'
    BY DEF Prefilled, Impl!Run, Impl!NoReply, Engine!InitEngine, Engine!Empty
  <1>3. QED BY <1>1, <1>2
LEMMA GroundedStep ==
    ASSUME CallsArrive, EngineHolds, Inv, Prefilled, DraftGrounded, [Next]_vars
    PROVE  Prefilled' /\ DraftGrounded'
  <1> USE DEF edge
  <1>1. CASE \E ok \in BOOLEAN : Handshake(ok)
    <2>1. pc' = "idle"
      BY <1>1 DEF Handshake, Impl!Handshake
    <2>2. QED BY <2>1 DEF Prefilled, DraftGrounded, Answered, Impl!Run
  <1>2. CASE Begin
    <2>1. /\ pc' \in {"resetting", "ready"} /\ prefilled' = FALSE
          /\ drafter' = drafter /\ (drafter => pc' = "resetting")
          /\ session' = session /\ engine' = engine
      BY <1>2 DEF Begin, Dispatch, Impl!BeginSome, Impl!Begin, Impl!Forget
    <2>2. pc' = "ready" => ~session'.live
      BY <2>1 DEF Inv, Sessions
    <2>3. QED BY <2>1, <2>2 DEF Prefilled, DraftGrounded, Answered
  <1>3. CASE ServerStep
    <2>1. Prefilled'
      BY <1>3, ServerStepPrefills
    <2>2. pc' = "drafting" => reply' = Impl!NoReply'
      BY <1>3, ServerPath DEF ServerStep, Impl!NoReply
    <2>3. QED BY <2>1, <2>2 DEF DraftGrounded, Answered
  <1>4. CASE Handle
    BY <1>4, ServePrefills DEF Handle
  <1>5. CASE LoseReply
    BY <1>5, ServePrefills DEF LoseReply, Hit
  <1>6. CASE LoseRequest
    <2>1. call \in wire /\ call.kind = "Draft" /\ reply = Impl!NoReply
      BY <1>6 DEF LoseRequest, Hit, CallsArrive, Awaited
    <2>2. pc # "prefilling"
      BY <2>1, OnTheWire
    <2>3. /\ UNCHANGED <<ctx, pc, prefilled, call, source, session, engine>> /\ ~reply'.ok
      BY <1>6 DEF LoseRequest, Impl!Answer, Refused, Impl!slot, Impl!book
    <2>4. QED BY <2>1, <2>2, <2>3, RestPrefills
  <1>7. CASE BreakOff
    BY <1>7 DEF BreakOff, Hit, CallsArrive
  <1>8. CASE Restart
    <2>1. /\ UNCHANGED <<ctx, pc, prefilled, call, source>> /\ ~session'.live
          /\ reply' = reply \/ ~reply'.ok
      BY <1>8 DEF Restart, Impl!Answer, Refused, Impl!slot, Impl!book, server, NoSession
    <2>2. QED BY <2>1, RestPrefills
  <1>9. CASE Vanish \/ Shut \/ UNCHANGED vars
    <2>1. UNCHANGED <<ctx, pc, prefilled, call, source, session, engine, reply>>
      BY <1>9 DEF Vanish, Shut, vars, server
    <2>2. QED BY <2>1, RestPrefills
  <1>10. QED BY <1>1, <1>2, <1>3, <1>4, <1>5, <1>6, <1>7, <1>8, <1>9 DEF Next

\* With an engine that fails only for want of room, and with Resets and Prefills
\* that arrive, every block the server gets to verify was drafted on the whole
\* committed prefix and on nothing else, whichever Draft calls and replies are
\* lost and however often the daemon restarts (remote_dspark_impl.h:193).
THEOREM BlocksAreGrounded == CallsArrive /\ EngineHolds => (Spec => []DraftGrounded)
  <1> SUFFICES ASSUME CallsArrive, EngineHolds PROVE Spec => []DraftGrounded
    OBVIOUS
  <1>1. Spec => []Inv
    BY CompositionAssumption, Linked DEF CallsArrive, ResetsArrive
  <1>2. Init => Prefilled /\ DraftGrounded
    BY DEF Init, Impl!Init, Prefilled, DraftGrounded, Answered, Impl!Run
  <1>3. Inv /\ Prefilled /\ DraftGrounded /\ [Next]_vars => Prefilled' /\ DraftGrounded'
    BY GroundedStep
  <1>4. QED BY <1>1, <1>2, <1>3, PTL DEF Spec
=============================================================================
