---------------------------- MODULE RemoteDspark ----------------------------
(***************************************************************************)
(* The server and the edge daemon together: RemoteImpl's calls cross the   *)
(* network to the daemon's handlers, which apply them to the session's     *)
(* engine under the session mutex, one at a time.                          *)
(*                                                                         *)
(* gRPC retries nothing and no call carries a deadline.  A call may fail   *)
(* before the daemon saw it or after it was served; its connection may     *)
(* break while the handler still waits for the mutex, and the handler runs *)
(* later; the daemon may restart, which empties its table of sessions; and *)
(* a call may vanish, its peer gone without closing the connection.        *)
(***************************************************************************)
EXTENDS Integers, Sequences, SequencesExt

CONSTANTS
    Vocabulary, TokenZero, Media, Noise,
    n_max, BlockSize, NUbatch, NCtx,
    InferenceFaults,  \* may the engine fail by itself?
    MaxPrompt, MaxLen, MaxGenerations,
    LostRequests,     \* kinds of calls whose request may be lost,
    LostReplies,      \* ... whose reply may be lost,
    LateCalls,        \* ... whose handler may outlive their connection,
    VanishingCalls,   \* ... that may never come back
    Restarts,         \* may the daemon restart?
    MaxFaults         \* bound: faults in a behaviour

ASSUME CompositionAssumption ==
    /\ TokenZero \in Vocabulary
    /\ Media \notin Vocabulary
    /\ {n_max, BlockSize, NUbatch, MaxPrompt, MaxLen, MaxGenerations} \subseteq Nat \ {0}
    /\ NCtx \in Nat /\ NCtx >= MaxLen
    /\ MaxPrompt < MaxLen
    /\ InferenceFaults \in BOOLEAN
    /\ UNION {LostRequests, LostReplies, LateCalls, VanishingCalls}
          \subseteq {"Reset", "Prefill", "Draft"}
    /\ Restarts \in BOOLEAN
    /\ MaxFaults \in Nat

VARIABLES
    drafter, feats, prefilled, n_sent, prev_n_past, step_id, stats,
    ctx, id_last, block, pc, generation, call, reply, shipped, verified,
    session,      \* the daemon's session: in the table? and its last_step_id
    engine,       \* the session's engine
    wire,         \* calls whose handler has not run yet
    source,       \* history: what the block in the reply was drafted from
    faults        \* faults still to come

Impl == INSTANCE RemoteImpl WITH EmbdBatches <- FALSE

Engine == INSTANCE DsparkEngine WITH
              Token <- Vocabulary, Features <- Seq(Vocabulary),
              MaxPos <- MaxLen, MaxRun <- MaxLen

ASSUME NoiseAssumption == Noise \notin Engine!Packet

server == <<drafter, feats, prefilled, n_sent, prev_n_past, step_id, stats,
            ctx, id_last, block, pc, generation, call, reply, shipped, verified>>
edge   == <<session, engine>>
vars   == <<server, edge, wire, source, faults>>

NoSession == [live |-> FALSE, last_step_id |-> 0]
NoSource  == [kv |-> Engine!Empty, anchor |-> Media]

Init ==
    /\ Impl!Init
    /\ session = NoSession
    /\ engine = Engine!InitEngine
    /\ wire = {}
    /\ source = NoSource
    /\ faults = MaxFaults

-----------------------------------------------------------------------------
(* The server's steps.                                                     *)

\* InitSession: a session is made exactly when the server is told it was.
Handshake(ok) ==
    /\ Impl!Handshake(ok)
    /\ session' = [NoSession EXCEPT !.live = ok]
    /\ UNCHANGED <<engine, wire, source, faults>>

\* A step of the server's thread puts the call it makes on the wire.
Dispatch ==
    /\ wire' = IF Impl!rpc' # Impl!rpc /\ call' # Impl!NoCall THEN wire \cup {call'} ELSE wire
    /\ UNCHANGED <<edge, faults>>

Begin == Impl!BeginSome /\ Dispatch /\ UNCHANGED source

ServerStep ==
    /\ Impl!Server
    /\ Dispatch
    /\ source' = IF pc = "drafting" THEN NoSource ELSE source

-----------------------------------------------------------------------------
(* The daemon's handlers: their outcomes for a call, as records of the     *)
(* session and engine they leave, the reply, and what a block came from.   *)

Outcome(s, e, r, from) == [session |-> s, engine |-> e, reply |-> r, source |-> from]

Refused == [ok |-> FALSE]
Good(tokens) == [ok |-> TRUE, draft_tokens |-> tokens]

\* Mutants: Reset leaves the engine, or the replay guard, as it was.
ResetOutcomes_KeepsEngine ==
    {Outcome([session EXCEPT !.last_step_id = 0], engine, Good(<< >>), NoSource)}

ResetOutcomes_KeepsGuard ==
    {Outcome(session, Engine!InitEngine, Good(<< >>), NoSource)}

ResetOutcomes ==
    {Outcome([session EXCEPT !.last_step_id = 0], Engine!InitEngine, Good(<< >>), NoSource)}

PrefillOutcomes(c) ==
    {Outcome(session, out.engine, IF out.ok THEN Good(<< >>) ELSE Refused, NoSource) :
        out \in Engine!PrefillOutcomes(engine, c.tokens)}

\* The replay guard after a Draft of this step.
GuardAfter(step) == step

\* The replay guard, which moves on before the engine is asked.
DraftOutcomes(c) ==
    IF c.step_id <= session.last_step_id
    THEN {Outcome(session, engine, Refused, NoSource)}
    ELSE {Outcome([session EXCEPT !.last_step_id = GuardAfter(c.step_id)], out.engine,
                  IF out.ok THEN Good(out.draft_tokens) ELSE Refused,
                  IF out.ok THEN out.from ELSE NoSource) :
            out \in Engine!DraftOutcomes(engine, c)}

Outcomes(c) ==
    IF ~session.live THEN {Outcome(session, engine, Refused, NoSource)}
    ELSE CASE c.kind = "Reset"   -> ResetOutcomes
           [] c.kind = "Prefill" -> PrefillOutcomes(c)
           [] c.kind = "Draft"   -> DraftOutcomes(c)

\* Is the server still waiting for this call?
Awaited(c) == c = call /\ reply = Impl!NoReply

Serve(c, out, delivered) ==
    /\ wire' = wire \ {c}
    /\ session' = out.session
    /\ engine' = out.engine
    /\ IF Awaited(c)
       THEN /\ Impl!Answer(IF delivered THEN out.reply ELSE Refused)
            /\ source' = IF delivered THEN out.source ELSE source
       ELSE UNCHANGED <<server, source>>

Handle == \E c \in wire : \E out \in Outcomes(c) :
             Serve(c, out, TRUE) /\ UNCHANGED faults

-----------------------------------------------------------------------------
(* The network and the daemon fail.                                        *)

Fault == faults > 0 /\ faults' = faults - 1

\* A fault of the outstanding call, which the daemon has not served yet.
Hit(kinds) == Fault /\ call.kind \in kinds /\ Awaited(call) /\ call \in wire

\* The daemon never saw the call.
LoseRequest ==
    /\ Hit(LostRequests)
    /\ wire' = wire \ {call}
    /\ Impl!Answer(Refused)
    /\ UNCHANGED <<edge, source>>

\* The daemon served the call, but the answer is lost.
LoseReply ==
    /\ Hit(LostReplies)
    /\ \E out \in Outcomes(call) : Serve(call, out, FALSE)

\* The connection breaks with the handler still to run.
BreakOff ==
    /\ Hit(LateCalls)
    /\ Impl!Answer(Refused)
    /\ UNCHANGED <<edge, wire, source>>

\* The daemon restarts: no session, and no handler left.
Restart ==
    /\ Restarts /\ Fault
    /\ session.live
    /\ session' = NoSession
    /\ engine' = Engine!InitEngine
    /\ wire' = {}
    /\ IF call \in wire /\ Awaited(call)
       THEN Impl!Answer(Refused) ELSE UNCHANGED server
    /\ UNCHANGED source

\* The peer is gone without a word; the client has no deadline to notice.
Vanish ==
    /\ Hit(VanishingCalls)
    /\ wire' = wire \ {call}
    /\ UNCHANGED <<server, edge, source>>

Shut == Impl!Shut /\ wire = {} /\ UNCHANGED vars

Next ==
    \/ \E ok \in BOOLEAN : Handshake(ok)
    \/ Begin
    \/ ServerStep
    \/ Handle
    \/ LoseRequest \/ LoseReply \/ BreakOff \/ Restart \/ Vanish
    \/ Shut

Spec == Init /\ [][Next]_vars

\* The server's thread and the daemon's handlers run on; faults and requests
\* need not come.
FairSpec == Spec /\ WF_vars(ServerStep) /\ WF_vars(Handle)

-----------------------------------------------------------------------------
TypeOK ==
    /\ session \in [live : BOOLEAN, last_step_id : Nat]
    /\ Engine!TypeOK
    /\ \A c \in wire : c.kind \in {"Reset", "Prefill", "Draft"} /\ c.generation <= generation
    /\ faults \in 0 .. MaxFaults

\* Against the real daemon and network, the server behaves as RemoteImpl does
\* against any edge: in particular no block is longer than it asked for, so the
\* verify batch fits (README.md:129).
ServerSpec == Impl!Spec

\* The cache a server's committed prefix would make.
CommittedCache ==
    [first |-> 0, last |-> Len(ctx) - 1,
     cell  |-> [p \in 0 .. Len(ctx) - 1 |-> Impl!PacketOf(SubSeq(ctx, 1, p + 1))]]

Answered == pc = "drafting" /\ reply # Impl!NoReply /\ reply.ok

\* A block the server gets to verify was drafted on the committed prefix, all of
\* it and nothing else (remote_dspark_impl.h:193).
DraftGrounded == Answered => source.kv = CommittedCache

\* Once its session was reset for the generation, the edge's confirmed positions
\* hold what the server shipped in it for them, whatever got lost since.
HeldWasShipped ==
    drafter /\ Impl!Run /\ pc # "resetting" =>
        \A p \in engine.kv.first .. engine.kv.last :
            p <= engine.kv_confirmed_max =>
                p < Len(shipped) /\ engine.kv.cell[p] = shipped[p + 1]

\* The replay guard never runs ahead of the server's step counter, which would
\* have it refuse a fresh Draft as a stale one (grpc_service.cpp:188).
GuardBehindCounter ==
    Impl!Run /\ pc # "resetting" => session.last_step_id <= step_id

\* A generation ends, whatever happens to its calls (remote_dspark_impl.h:253).
GenerationCompletes == Impl!Run ~> pc = "idle"
=============================================================================
