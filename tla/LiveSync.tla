------------------------------ MODULE LiveSync ------------------------------
(***************************************************************************)
(* What the page shows of the running programs, against what is so: log    *)
(* lines and status transitions are pushed over an event stream            *)
(* (app/api/logs), and the status and the server's statistics are polled   *)
(* as well (components/dashboard/live-sync.tsx, lib/store.ts).  The stream *)
(* keeps its order and breaks; the answers to polls overtake each other,   *)
(* the stream's events and, when they come late, the truth.                *)
(***************************************************************************)
EXTENDS Naturals, FiniteSets, SequencesExt

CONSTANTS
    StatusPoll, SpecPoll,   \* the polls of either kind that are under way at once
    SpecResponse,           \* what the server can be found to be, see MetricsPanel
    MaxLogLines,            \* lines the manager keeps of a program
    Backlog,                \* lines a new stream begins with
    MaxLogs, MaxHistory,    \* lines and responses the page keeps
    MaxOps, MaxLosses       \* things that happen at the host; things that break

ASSUME LiveAssumption ==
    /\ {MaxLogLines, Backlog, MaxLogs, MaxHistory} \subseteq Nat \ {0}
    /\ MaxOps \in Nat /\ MaxLosses \in Nat
    /\ StatusPoll \cap SpecPoll = {}
    /\ "down" \in SpecResponse
    /\ SpecResponse \subseteq {"down", "up", "disconnected", "connected"}

VARIABLES
    manager,            \* the process manager: logSeq, and logs and status by process
    spec,               \* what /api/spec would find at the server
    connected, queue,   \* the stream, and its events on their way
    answers,            \* the polls under way
    page,               \* the store: logs, status, spec, specHistory
    ops, losses

vars == <<manager, spec, connected, queue, answers, page, ops, losses>>

ProcId == {"server", "daemon"}
ProcState == {"stopped", "starting", "running", "exited", "error"}

Measured == SpecResponse \ {"down", "up"}   \* the responses with statistics
Poll == StatusPoll \cup SpecPoll
Line == [id : 1 .. 2 * MaxOps, proc : ProcId]
Idle == [at |-> "idle"]

TypeOK ==
    /\ manager.logSeq \in 0 .. 2 * MaxOps
    /\ \A p \in ProcId :
          /\ \A i \in DOMAIN manager.logs[p] : manager.logs[p][i] \in [id : Nat, proc : {p}]
          /\ Len(manager.logs[p]) <= MaxLogLines
    /\ page.status \in [ProcId -> ProcState] /\ manager.status \in [ProcId -> ProcState]
    /\ page.spec \in SpecResponse /\ spec \in SpecResponse
    /\ ToSet(page.specHistory) \subseteq Measured /\ Len(page.specHistory) <= MaxHistory
    /\ ToSet(page.logs) \subseteq Line /\ Len(page.logs) <= MaxLogs
    /\ queue # <<>> => connected
    /\ \A q \in Poll : answers[q].at \in {"idle", "answered"}

blank == [logSeq |-> 0, logs |-> [p \in ProcId |-> <<>>],
          status |-> [p \in ProcId |-> "stopped"]]

Init ==
    /\ manager = blank
    /\ spec = "down"
    /\ connected = FALSE /\ queue = <<>>
    /\ answers = [q \in Poll |-> Idle]
    /\ page = [logs |-> <<>>, status |-> blank.status, spec |-> "down", specHistory |-> <<>>]
    /\ ops = 0 /\ losses = 0

LastOf(s, n) == SubSeq(s, Max({1, Len(s) - n + 1}), Len(s))

-----------------------------------------------------------------------------
(* The process manager: each effect is kept, and emitted as an event *)

pushLog(m, p) ==
    LET line == [id |-> m.logSeq + 1, proc |-> p] IN
    [m EXCEPT !.logSeq = @ + 1,
              !.logs[p] = LastOf(Append(@, line), MaxLogLines),
              !.emitted = Append(@, [event |-> "log", line |-> line])]

updateStatus(m, p, state) ==
    [m EXCEPT !.status[p] = state,
              !.emitted = Append(@, [event |-> "status", proc |-> p, state |-> state])]

\* Where a turn of the event loop starts from: the manager, with process p's
\* lines or, when it is started anew, without.
Turn(p, kept) ==
    [logSeq |-> manager.logSeq, emitted |-> <<>>, status |-> manager.status,
     logs |-> [manager.logs EXCEPT ![p] = IF kept THEN @ ELSE <<>>]]

\* One turn of the event loop leaves the manager as `after`.
Happens(after) ==
    /\ ops < MaxOps /\ ops' = ops + 1
    /\ manager' = [logSeq |-> after.logSeq, logs |-> after.logs, status |-> after.status]
    /\ queue' = IF connected THEN queue \o after.emitted ELSE queue
    /\ UNCHANGED <<spec, connected, answers, page, losses>>

start(p) ==
    LET kept == Turn(p, TRUE)
        starting == updateStatus(Turn(p, FALSE), p, "starting") IN
    /\ manager.status[p] # "running"
    /\ \/ Happens(updateStatus(pushLog(kept, p), p, "error"))                    \* no binary
       \/ Happens(updateStatus(pushLog(pushLog(starting, p), p), p, "error"))    \* spawn throws
       \/ Happens(updateStatus(pushLog(starting, p), p, "running"))

stop(p) ==
    IF manager.status[p] = "running" THEN Happens(pushLog(Turn(p, TRUE), p))
    ELSE Happens(updateStatus(Turn(p, TRUE), p, "stopped"))

onData(p) == manager.status[p] = "running" /\ Happens(pushLog(Turn(p, TRUE), p))

\* The child's "exit" event, or the "error" event of one that never ran.
onExit(p) ==
    /\ manager.status[p] = "running"
    /\ \E state \in {"exited", "error"} :
          Happens(updateStatus(pushLog(Turn(p, TRUE), p), p, state))

\* The server comes, goes, and finds or loses its edge; or the saved address
\* stops being the one it was started with, or is so again.
SpecChanges ==
    /\ ops < MaxOps /\ ops' = ops + 1
    /\ spec' \in SpecResponse \ {spec}
    /\ UNCHANGED <<manager, connected, queue, answers, page, losses>>

-----------------------------------------------------------------------------
(* The event stream *)

\* The lines of all processes, sorted by their numbers: the k-th is the one that
\* k lines, itself among them, are not after.
allLogs ==
    LET all == manager.logs["server"] \o manager.logs["daemon"]
        place == [i \in DOMAIN all |-> Cardinality({j \in DOMAIN all :
                     \/ all[j].id < all[i].id
                     \/ all[j].id = all[i].id /\ j <= i})]
    IN  [k \in DOMAIN all |-> all[CHOOSE i \in DOMAIN all : place[i] = k]]

BacklogEvent == [event |-> "backlog", logs |-> LastOf(allLogs, Backlog), status |-> manager.status]

\* Mutant: what was said before is replayed a process at a time.
Connect_Unsorted ==
    /\ ~connected /\ connected' = TRUE
    /\ queue' = <<[BacklogEvent EXCEPT
          !.logs = LastOf(manager.logs["server"] \o manager.logs["daemon"], Backlog)]>>
    /\ UNCHANGED <<manager, spec, answers, page, ops, losses>>

\* GET /api/logs: the backlog and the subscription are of one moment.  The
\* browser opens the stream, and again whenever it broke.
Connect ==
    /\ ~connected /\ connected' = TRUE
    /\ queue' = <<BacklogEvent>>
    /\ UNCHANGED <<manager, spec, answers, page, ops, losses>>

Drop ==
    /\ connected /\ connected' = FALSE
    /\ losses < MaxLosses /\ losses' = losses + 1
    /\ queue' = <<>>
    /\ UNCHANGED <<manager, spec, answers, page, ops>>

appendLog(pg, line) == [pg EXCEPT !.logs = LastOf(Append(@, line), MaxLogs)]

\* Mutant: a backlog is added to what the page has.
setBacklog_Appends(pg, lines, status) ==
    [pg EXCEPT !.logs = LastOf(@ \o lines, MaxLogs), !.status = status]

setBacklog(pg, lines, status) ==
    [pg EXCEPT !.logs = LastOf(lines, MaxLogs), !.status = status]

setStatus(pg, p, state) == [pg EXCEPT !.status[p] = state]

Handled(pg, e) ==
    CASE e.event = "backlog" -> setBacklog(pg, e.logs, e.status)
      [] e.event = "log" -> appendLog(pg, e.line)
      [] e.event = "status" -> setStatus(pg, e.proc, e.state)

Deliver ==
    /\ queue # <<>> /\ queue' = Tail(queue)
    /\ page' = Handled(page, Head(queue))
    /\ UNCHANGED <<manager, spec, connected, answers, ops, losses>>

clearLogs ==
    /\ page.logs # <<>> /\ page' = [page EXCEPT !.logs = <<>>]
    /\ UNCHANGED <<manager, spec, connected, queue, answers, ops, losses>>

-----------------------------------------------------------------------------
(* The polls.  An answer holds what was so when the route read it. *)

Answered(q, answer) ==
    /\ answers[q] = Idle
    /\ answers' = [answers EXCEPT ![q] = answer]
    /\ UNCHANGED <<manager, spec, connected, queue, page, ops, losses>>

\* Mutant: a page that has its event stream does not poll.
PollStatus_AsFallback(q) ==
    /\ q \in StatusPoll /\ ~connected
    /\ Answered(q, [at |-> "answered", status |-> manager.status])

\* The timer of pollStatus, or an action, whose answer carries the status too.
PollStatus(q) ==
    q \in StatusPoll /\ Answered(q, [at |-> "answered", status |-> manager.status])

PollSpec(q) ==
    q \in SpecPoll /\ Answered(q, [at |-> "answered", spec |-> spec])

gotStatus(q) ==
    /\ q \in StatusPoll
    /\ page' = [page EXCEPT !.status = answers[q].status]

Measurements(history, response) ==
    IF response \in Measured THEN LastOf(Append(history, response), MaxHistory) ELSE history

\* Mutant: an unreachable server leaves the last statistics standing.
gotSpec_KeepsLast(q) ==
    /\ q \in SpecPoll
    /\ page' = IF answers[q].spec = "down" THEN page
               ELSE [page EXCEPT !.spec = answers[q].spec, !.specHistory = Measurements(@, answers[q].spec)]

gotSpec(q) ==
    /\ q \in SpecPoll
    /\ page' = [page EXCEPT !.spec = answers[q].spec, !.specHistory = Measurements(@, answers[q].spec)]

\* A failed pollStatus changes nothing; a failed pollSpec sets null, which the
\* page shows as it shows a server that is down.
Failed(q) ==
    /\ losses < MaxLosses /\ losses' = losses + 1
    /\ page' = IF q \in StatusPoll THEN page ELSE [page EXCEPT !.spec = "down"]

Receive(q) ==
    /\ answers[q] # Idle /\ answers' = [answers EXCEPT ![q] = Idle]
    /\ \/ Failed(q)
       \/ (gotStatus(q) \/ gotSpec(q)) /\ UNCHANGED losses
    /\ UNCHANGED <<manager, spec, connected, queue, ops>>

-----------------------------------------------------------------------------
\* The dashboard's own process dies and is started again: line numbers start over.
Restart ==
    /\ losses < MaxLosses /\ losses' = losses + 1
    /\ manager' = blank
    /\ connected' = FALSE /\ queue' = <<>>
    /\ answers' = [q \in Poll |-> Idle]
    /\ page' = IF \E q \in SpecPoll : answers[q] # Idle THEN [page EXCEPT !.spec = "down"] ELSE page
    /\ UNCHANGED <<spec, ops>>

Next ==
    \/ \E p \in ProcId : start(p) \/ stop(p) \/ onData(p) \/ onExit(p)
    \/ SpecChanges \/ Restart
    \/ Connect \/ Drop \/ Deliver \/ clearLogs
    \/ \E q \in Poll : PollStatus(q) \/ PollSpec(q) \/ Receive(q)

Spec == Init /\ [][Next]_vars

\* The browser reconnects, its timers fire, and what is sent and not lost
\* arrives.  Nothing is assumed of the programs or of the user.
FairSpec ==
    /\ Spec
    /\ WF_vars(Connect) /\ WF_vars(Deliver)
    /\ \A q \in Poll : WF_vars(PollStatus(q) \/ PollSpec(q)) /\ WF_vars(Receive(q))

-----------------------------------------------------------------------------
(* What the user sees *)

\* A card offers to start a program that is not running, and to restart or
\* stop one that is, by the status the page has of it.
Controls(status) == IF status \in {"running", "starting"} THEN {"restart", "stop"} ELSE {"start"}
Badge(state) == [label |-> state, pulse |-> state \in {"starting", "running"}]

\* The clock of a card runs while its program does.
ElapsedShown(status) == status = "running"

Card(status) == [badge |-> Badge(status), controls |-> Controls(status),
                 clock |-> ElapsedShown(status)]

\* "up" is a server without /debug/spec, the last two are its remote_dspark.
ConnectionPill(response) ==
    IF response = "connected" THEN "edge connected" ELSE "edge disconnected"

\* The cards show the numbers of the response they are made from, the charts
\* those of the history up to its last.
MetricsPanel(response, history) ==
    IF response \notin Measured THEN [waiting |-> TRUE]
    ELSE [pill |-> ConnectionPill(response), cards |-> response, charts |-> Last(history)]

\* The lines of all processes or of one, in their order, keyed by their numbers.
LogsPanel(lines, filter) ==
    [i \in {i \in DOMAIN lines : filter \in {"all", lines[i].proc}} |->
        [key |-> lines[i].id, label |-> lines[i].proc]]

-----------------------------------------------------------------------------
(* Properties *)

\* Whatever the filter, no line is shown twice or out of order (backlog,
\* appendLog; a line's number is React's key of it), across reconnections,
\* restarts and trimming.
LinesOnce ==
    \A filter \in {"all"} \cup ProcId :
       LET shown == LogsPanel(page.logs, filter) IN
       \A i, j \in DOMAIN shown : i < j => shown[i].key < shown[j].key

\* The page when all that is on its way has arrived.
Arrived ==
    LET after[n \in 0 .. Len(queue)] ==
            IF n = 0 THEN page ELSE Handled(after[n - 1], queue[n])
    IN  after[Len(queue)]

\* No line is skipped (app/api/logs): once what is on its way has arrived, the
\* page has every line that the manager still has and that is younger than
\* the oldest one shown, with no seam between backlog and live lines.
NothingSkipped ==
    LET arrived == {line.id : line \in ToSet(Arrived.logs)}
        held == {line.id : line \in UNION {ToSet(manager.logs[p]) : p \in ProcId}} IN
    connected =>
       \A i \in held : (\E j \in arrived : j < i) => i \in arrived

\* The cards end up right (SSE and "status fallback" polls, live-sync.tsx:40):
\* a late answer or a broken stream misleads the user only for a time.
CardsCatchUp ==
    <>[](\A p \in ProcId : Card(page.status[p]) = Card(manager.status[p]))

\* So does the metrics panel, with its cards and the end of its charts: a server
\* that is gone, or has lost its edge, is not shown as connected for ever.
MetricsCatchUp ==
    <>[](MetricsPanel(page.spec, page.specHistory) = MetricsPanel(spec, <<spec>>))
=============================================================================
