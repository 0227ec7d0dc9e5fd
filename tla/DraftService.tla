----------------------------- MODULE DraftService -----------------------------
(***************************************************************************)
(* dspark_service_impl at the level of its locks: handlers of several      *)
(* servers' calls run on gRPC's threads, take the table mutex and a        *)
(* session's mutex, use the session's engine and tell the renderer.  What  *)
(* the engine computes is DsparkEngine's business; here it is busy for a   *)
(* while and returns any block, or fails.                                  *)
(*                                                                         *)
(* A server makes one call at a time, as RemoteImpl's does, but may give   *)
(* one up when its connection breaks; the handler then runs on.  Sessions  *)
(* are never removed, so one that was made is always found.                *)
(***************************************************************************)
EXTENDS WatchRenderer

CONSTANTS
    Server,           \* servers that use this daemon
    Token,
    BlockSize,
    Watch,            \* is the daemon run with --watch?
    MaxCalls,         \* bound: calls made by all servers
    MaxAbandoned      \* bound: calls given up

ASSUME ServiceAssumption ==
    /\ BlockSize \in Nat \ {0}
    /\ Watch \in BOOLEAN
    /\ MaxCalls \in Nat
    /\ MaxAbandoned \in Nat

VARIABLES
    sessions,         \* session id -> its mutex's holder and last_step_id
    next_session_id,
    sessions_mtx,     \* holder of the table's mutex
    handlers,         \* calls being handled
    servers,          \* what each server knows and waits for
    abandoned,        \* calls given up so far
    given,            \* history: tokens given to an engine since a reset
    refused           \* history: drafts the target rejected since a reset

table  == <<sessions, next_session_id, sessions_mtx>>
client == <<servers, abandoned, refused>>
vars   == <<table, handlers, client, renderer, given>>

Free == << >>      \* holder of a mutex nobody holds; else a call's id

NewServer == [sid |-> 0, next |-> "InitSession", step_id |-> 0, anchor |-> << >>,
              block |-> << >>, calls |-> 0, waiting |-> FALSE]

Init ==
    /\ sessions = << >>
    /\ next_session_id = 1
    /\ sessions_mtx = Free
    /\ handlers = {}
    /\ servers = [s \in Server |-> NewServer]
    /\ abandoned = 0
    /\ RendererInit
    /\ given = << >>
    /\ refused = << >>

-----------------------------------------------------------------------------
(* The servers (RemoteImpl, reduced to the calls it makes).                *)

\* Server s, which becomes `server`, makes a call.
Issue(s, kind, tokens, server) ==
    /\ ~servers[s].waiting
    /\ MapThenSumSet(LAMBDA t : servers[t].calls, Server) < MaxCalls
    /\ servers' = [servers EXCEPT ![s] =
          [server EXCEPT !.calls = @ + 1, !.waiting = TRUE, !.block = << >>]]
    /\ handlers' = handlers \cup
          {[id |-> <<s, servers[s].calls + 1>>, kind |-> kind, sid |-> server.sid,
            step_id |-> server.step_id, tokens |-> tokens, block |-> << >>,
            at |-> IF kind = "InitSession" THEN "create" ELSE "find"]}
    /\ UNCHANGED <<table, abandoned, renderer, given>>

CallInit(s) ==
    /\ servers[s].next = "InitSession"
    /\ Issue(s, "InitSession", << >>, [servers[s] EXCEPT !.next = "none"])
    /\ UNCHANGED refused

\* begin(), possible between any two calls after the handshake.
CallReset(s) ==
    /\ servers[s].sid # 0
    /\ Issue(s, "Reset", << >>, [servers[s] EXCEPT !.next = "Prefill", !.step_id = 0])
    /\ refused' = << >>

CallPrefill(s) ==
    /\ servers[s].next = "Prefill"
    /\ \E t, anchor \in Token :
          Issue(s, "Prefill", <<t>>, [servers[s] EXCEPT !.next = "Draft", !.anchor = <<anchor>>])
    /\ UNCHANGED refused

\* A generation's first Draft ships nothing; a later one the previous anchor and
\* the drafts before the first that the target rejected.
CallDraft(s) ==
    /\ servers[s].next = "Draft"
    /\ LET last  == servers[s]
           block == last.block
       IN  IF last.step_id = 0
           THEN Issue(s, "Draft", << >>, [last EXCEPT !.step_id = 1]) /\ UNCHANGED refused
           ELSE \E k \in 0 .. Len(block), anchor \in Token :
                   /\ k < Len(block) => anchor # block[k + 1]
                   /\ Issue(s, "Draft", last.anchor \o SubSeq(block, 1, k),
                            [last EXCEPT !.step_id = @ + 1, !.anchor = <<anchor>>])
                   /\ refused' = refused \o SubSeq(block, k + 1, IF k < Len(block) THEN k + 1 ELSE k)

\* The connection breaks: the server goes on, and so does the handler.
Abandon(s) ==
    /\ servers[s].waiting
    /\ servers[s].sid # 0
    /\ abandoned < MaxAbandoned
    /\ abandoned' = abandoned + 1
    /\ servers' = [servers EXCEPT ![s].waiting = FALSE]
    /\ UNCHANGED <<table, handlers, renderer, given, refused>>

-----------------------------------------------------------------------------
(* The handlers.                                                           *)

\* The handler goes on as g.
To(h, g) == handlers' = (handlers \ {h}) \cup {g} /\ UNCHANGED client

Caller(h) == servers[h.id[1]]

\* The handler returns; its server, if it still waits for it, becomes `server`.
Return(h, server) ==
    /\ handlers' = handlers \ {h}
    /\ servers' = IF Caller(h).waiting /\ Caller(h).calls = h.id[2]
                  THEN [servers EXCEPT ![h.id[1]] = [server EXCEPT !.waiting = FALSE]]
                  ELSE servers
    /\ UNCHANGED <<abandoned, refused>>

Tell(event) == IF Watch THEN event ELSE UNCHANGED renderer

\* InitSession makes the engine outside every lock, and may fail to, ...
Create(h) ==
    /\ h.at = "create"
    /\ To(h, [h EXCEPT !.at = "insert"]) \/ Return(h, Caller(h))
    /\ UNCHANGED <<table, renderer, given>>

NewSession == [mtx |-> Free, last_step_id |-> 0]

\* sessions[next_session_id] = ...
Stored(session) ==
    sessions' = [i \in DOMAIN sessions \cup {next_session_id} |->
                    IF i = next_session_id THEN session ELSE sessions[i]]

\* Mutant: the id is not taken.
Insert_KeepsId(h) ==
    /\ h.at = "insert"
    /\ sessions_mtx = Free
    /\ Stored(NewSession)
    /\ Return(h, [Caller(h) EXCEPT !.sid = next_session_id, !.next = "Reset"])
    /\ UNCHANGED <<next_session_id, sessions_mtx, renderer, given>>

\* ... and puts it into the table under the next id.
Insert(h) ==
    /\ h.at = "insert"
    /\ sessions_mtx = Free
    /\ Stored(NewSession)
    /\ next_session_id' = next_session_id + 1
    /\ Return(h, [Caller(h) EXCEPT !.sid = next_session_id, !.next = "Reset"])
    /\ UNCHANGED <<sessions_mtx, renderer, given>>

\* get_session() looks the session up; Reset does so itself and keeps the
\* table locked.
Find(h) ==
    /\ h.at = "find"
    /\ sessions_mtx = Free
    /\ sessions_mtx' = IF h.kind = "Reset" THEN h.id ELSE Free
    /\ To(h, [h EXCEPT !.at = "lock"])
    /\ UNCHANGED <<sessions, next_session_id, renderer, given>>

Stale(h) == h.kind = "Draft" /\ h.step_id <= sessions[h.sid].last_step_id

\* Mutant: the session is locked whoever holds it.
LockSession_Anyway(h) ==
    /\ h.at = "lock"
    /\ ~Stale(h)
    /\ sessions' = [sessions EXCEPT
          ![h.sid].mtx = h.id,
          ![h.sid].last_step_id = IF h.kind = "Draft" THEN h.step_id ELSE @]
    /\ To(h, [h EXCEPT !.at = h.kind])
    /\ UNCHANGED <<next_session_id, sessions_mtx, renderer, given>>

\* The handler takes the session's mutex; a Draft passes the replay guard.
LockSession(h) ==
    /\ h.at = "lock"
    /\ ~Stale(h)
    /\ sessions[h.sid].mtx = Free
    /\ sessions' = [sessions EXCEPT
          ![h.sid].mtx = h.id,
          ![h.sid].last_step_id = IF h.kind = "Draft" THEN h.step_id ELSE @]
    /\ To(h, [h EXCEPT !.at = h.kind])
    /\ UNCHANGED <<next_session_id, sessions_mtx, renderer, given>>

\* Mutant: a refused Draft does not give the mutex back.
Refuse_KeepsLock(h) ==
    /\ h.at = "lock"
    /\ Stale(h)
    /\ sessions[h.sid].mtx = Free
    /\ sessions' = [sessions EXCEPT ![h.sid].mtx = h.id]
    /\ Return(h, Caller(h))
    /\ UNCHANGED <<next_session_id, sessions_mtx, renderer, given>>

\* A Draft whose step was already seen is refused, and the renderer not told.
Refuse(h) ==
    /\ h.at = "lock"
    /\ Stale(h)
    /\ sessions[h.sid].mtx = Free
    /\ Return(h, Caller(h))
    /\ UNCHANGED <<table, renderer, given>>

Unlock(h) == sessions' = [sessions EXCEPT ![h.sid].mtx = Free]

\* Prefill tells the renderer before it calls the engine ...
Announce(h) ==
    /\ h.at = "Prefill"
    /\ Tell(on_accepted(h.tokens))
    /\ given' = given \o h.tokens
    /\ To(h, [h EXCEPT !.at = "ingest"])
    /\ UNCHANGED table

\* ... and answers whether the engine took the run; the server does not look.
Ingest(h) ==
    /\ h.at = "ingest"
    /\ Unlock(h)
    /\ Return(h, Caller(h))
    /\ UNCHANGED <<next_session_id, sessions_mtx, renderer, given>>

\* Draft: the engine makes a block, or fails with none; first the verdict on the
\* previous block is told, ...
Judge(h) ==
    /\ h.at = "Draft"
    /\ \E block \in BoundedSeq(Token, BlockSize) :
          To(h, [h EXCEPT !.at = "preview", !.block = block])
    /\ Tell(on_verdict(h.tokens))
    /\ given' = given \o h.tokens
    /\ UNCHANGED table

\* ... then the new block, and the handler answers with it.
Preview(h) ==
    /\ h.at = "preview"
    /\ Tell(on_draft(h.block))
    /\ Unlock(h)
    /\ Return(h, [Caller(h) EXCEPT !.block = h.block])
    /\ UNCHANGED <<next_session_id, sessions_mtx, given>>

\* Reset clears the engine and the replay guard and unlocks the session, ...
ResetEngine(h) ==
    /\ h.at = "Reset"
    /\ sessions' = [sessions EXCEPT ![h.sid] = NewSession]
    /\ given' = << >>
    /\ To(h, [h EXCEPT !.at = "signal"])
    /\ UNCHANGED <<next_session_id, sessions_mtx, renderer>>

\* ... tells the renderer and only then unlocks the table.
Signal(h) ==
    /\ h.at = "signal"
    /\ Tell(on_reset)
    /\ sessions_mtx' = Free
    /\ Return(h, Caller(h))
    /\ UNCHANGED <<sessions, next_session_id, given>>

Handle(h) ==
    \/ Create(h) \/ Insert(h)
    \/ Find(h) \/ LockSession(h) \/ Refuse(h)
    \/ Announce(h) \/ Ingest(h)
    \/ Judge(h) \/ Preview(h)
    \/ ResetEngine(h) \/ Signal(h)

Draw == Worker /\ UNCHANGED <<table, handlers, client, given>>

Call(s) == CallInit(s) \/ CallReset(s) \/ CallPrefill(s) \/ CallDraft(s)

Next ==
    \/ \E s \in Server : Call(s) \/ Abandon(s)
    \/ \E h \in handlers : Handle(h)
    \/ Draw

Spec == Init /\ [][Next]_vars

\* gRPC's threads run; nothing is asked of the renderer's worker, of the servers
\* or of their connections.
FairSpec ==
    /\ Spec
    /\ \A s \in Server, n \in 1 .. MaxCalls :
          WF_vars(\E h \in handlers : h.id = <<s, n>> /\ Handle(h))

-----------------------------------------------------------------------------
Ids == Server \X (1 .. MaxCalls)

\* The service's fields and the calls it handles (grpc_service.h:39).
TypeOK ==
    /\ DOMAIN sessions = 1 .. next_session_id - 1
    /\ \A i \in DOMAIN sessions : sessions[i].mtx \in Ids \cup {Free}
    /\ sessions_mtx \in Ids \cup {Free}
    /\ \A h \in handlers :
          /\ h.id \in Ids
          /\ h.at \notin {"create", "insert"} => h.sid \in DOMAIN sessions
    /\ \A s \in Server : servers[s].sid \in 0 .. next_session_id - 1

\* Every server has a session, hence an engine, of its own, however the
\* handshakes interleave (grpc_service.cpp:49, 58).
SessionsUnshared ==
    \A s, t \in Server : s # t /\ servers[s].sid # 0 => servers[s].sid # servers[t].sid

\* One handler at a time is at a session's engine, also when handlers were
\* abandoned (grpc_service.cpp:94, 122, 186).
AtEngine(h) == h.at \in {"Prefill", "ingest", "Draft", "preview", "Reset"}

EngineExclusive ==
    \A g, h \in handlers : AtEngine(g) /\ AtEngine(h) /\ g.sid = h.sid => g = h

\* Every call returns, although Reset holds the table while it waits for a
\* session and abandoned handlers hold locks too, and whether or not the
\* preview is ever drawn (watch_renderer.h:17).
CallsReturn == \A s \in Server : servers[s].waiting ~> ~servers[s].waiting

\* All events were drawn and no call is in progress.
Quiet == queue = << >> /\ handlers = {}

\* With one server the preview shows as confirmed what its engine was given
\* since the last reset, each token once (watch_renderer.h:25, 31).
ConfirmedIsGiven == Watch /\ Quiet => Shown("confirmed") = given

\* ... and as pending only the block that waits for its verdict.
PendingIsCurrent == Shown("pending") = pending_tokens

\* ... and as rejected the drafts the target rejected (README.md:75).
RejectedWasRejected == Watch /\ Quiet => Shown("rejected") = refused
=============================================================================
