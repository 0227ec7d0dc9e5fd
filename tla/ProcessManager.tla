--------------------------- MODULE ProcessManager ---------------------------
(***************************************************************************)
(* The dashboard's process manager (lib/process-manager.ts) with the route *)
(* that drives it (app/api/process/route.ts) and the operating system's    *)
(* side of its children.                                                   *)
(*                                                                         *)
(* JavaScript runs a handler to its next await without interruption: start *)
(* is one step, stop() one up to its promise, and a timer or an event of a *)
(* child one each.  The state "starting" and the pid-less "running" of a   *)
(* child whose program cannot be executed are left within the same turn of *)
(* the event loop and therefore do not appear.                             *)
(***************************************************************************)
EXTENDS Naturals

CONSTANTS
    Child,      \* the processes the operating system can make, by their pids
    Post,       \* the POST handlers that may be at work at once
    Config,     \* the configurations a request can carry
    None,       \* null
    MayCrash    \* may the dashboard itself die and be started again?

ProcId == {"server", "daemon"}

ASSUME ManagerAssumption ==
    /\ Child \subseteq Nat
    /\ None \notin Child /\ None \notin Config /\ None \notin ProcId
    /\ MayCrash \in BOOLEAN

VARIABLES
    procs,      \* what the manager knows of each process: its child and status
    stops,      \* the promises of stop() that have not settled
    posts,      \* the POST handlers: where each one waits
    file,       \* the saved configuration, or the defaults when there is none
    children    \* the operating system's processes

vars == <<procs, stops, posts, file, children>>

ProcState == {"stopped", "running", "exited", "error"}
Signal == {"SIGINT", "SIGTERM", "SIGKILL"}
Exit == Signal \cup {"zero", "nonzero"}

Proc == [child : Child \cup {None}, state : ProcState, pid : Child \cup {None}]
Stop == [post : Post, proc : ProcId, child : Child, pid : Child, termed : BOOLEAN]

\* A child is alive, a zombie ("dead") until its exit event, and then gone.
\* "proc" is whose it is, None when the manager that made it died.
ChildState == [life : {"none", "alive", "dead", "gone"}, proc : ProcId \cup {None},
               signals : SUBSET Signal, exit : Exit \cup {None}]

TypeOK ==
    /\ procs \in [ProcId -> Proc]
    /\ stops \subseteq Stop
    /\ posts \in [Post -> [at : {"idle", "asleep", "stopping"}, config : Config \cup {None}]]
    /\ file \in Config
    /\ children \in [Child -> ChildState]

blankProc == [child |-> None, state |-> "stopped", pid |-> None]
Idle == [at |-> "idle", config |-> None]

Init ==
    /\ procs = [p \in ProcId |-> blankProc]
    /\ stops = {}
    /\ posts = [r \in Post |-> Idle]
    /\ file \in Config
    /\ children = [c \in Child |-> [life |-> "none", proc |-> None, signals |-> {}, exit |-> None]]

-----------------------------------------------------------------------------
(* The manager *)

\* Mutant: the guard looks at the state a start passes through, too late.
Refused_WhileStarting(p) == procs[p].child # None /\ procs[p].state = "starting"

Refused(p) == procs[p].child # None /\ procs[p].state = "running"

updateStatus(p, state, pid) == [procs[p] EXCEPT !.state = state, !.pid = pid]

\* A signal for a child that ended already goes nowhere.
Signalled(c, signal) ==
    IF children[c].life = "alive" THEN [children[c] EXCEPT !.signals = @ \cup {signal}]
    ELSE children[c]

MissingBinary(p) ==
    /\ procs' = [procs EXCEPT ![p].state = "error"]
    /\ UNCHANGED children

SpawnThrows(p) ==
    /\ procs' = [procs EXCEPT ![p] = updateStatus(p, "error", None)]
    /\ UNCHANGED children

\* spawn() returns a child; its program runs, or its "error" event comes at once.
Spawned(p) ==
    \E c \in Child, executed \in BOOLEAN :
       /\ children[c].life = "none"
       /\ \A d \in Child : d < c => children[d].life # "none"
       /\ children' = [children EXCEPT ![c].life = IF executed THEN "alive" ELSE "gone",
                                       ![c].proc = IF executed THEN p ELSE None]
       /\ procs' = [procs EXCEPT ![p] =
             [child |-> c, state |-> IF executed THEN "running" ELSE "error",
              pid |-> IF executed THEN c ELSE None]]

\* start(): ok is whether it returns or throws.
Start(p, ok) ==
    IF ok THEN ~Refused(p) /\ Spawned(p)
    ELSE \/ Refused(p) /\ UNCHANGED <<procs, children>>
         \/ ~Refused(p) /\ (MissingBinary(p) \/ SpawnThrows(p))

Stoppable(p) == procs[p].child # None /\ procs[p].pid # None

\* stop(), for every process of P, up to its promise.
StopNow(r, P) ==
    LET live == {p \in P : Stoppable(p)} IN
    /\ procs' = [p \in ProcId |->
          IF p \in P \ live THEN [procs[p] EXCEPT !.state = "stopped"] ELSE procs[p]]
    /\ children' = [c \in Child |->
          IF \E p \in live : procs[p].child = c THEN Signalled(c, "SIGINT") ELSE children[c]]
    /\ stops' = stops \cup
          {[post |-> r, proc |-> p, child |-> procs[p].child, pid |-> procs[p].pid,
            termed |-> FALSE] : p \in live}

\* t1, 2.5 seconds on: whatever child the process has by now.
Terminate(s) ==
    /\ s \in stops /\ ~s.termed
    /\ stops' = (stops \ {s}) \cup {[s EXCEPT !.termed = TRUE]}
    /\ children' = [c \in Child |->
          IF c = procs[s.proc].child THEN Signalled(c, "SIGTERM") ELSE children[c]]
    /\ UNCHANGED <<procs, posts, file>>

\* Mutant: the promise is left to the exit event.
Kill_Waits(s) ==
    /\ s \in stops /\ s.termed /\ "SIGKILL" \notin children[s.pid].signals
    /\ children' = [children EXCEPT ![s.pid] = Signalled(s.pid, "SIGKILL")]
    /\ UNCHANGED <<procs, stops, posts, file>>

\* Mutant: the second escalation is as soft as the first.
Kill_Softly(s) ==
    /\ s \in stops /\ s.termed
    /\ stops' = stops \ {s}
    /\ children' = [children EXCEPT ![s.pid] = Signalled(s.pid, "SIGTERM")]
    /\ UNCHANGED <<procs, posts, file>>

\* t2, 5 seconds on: kill by pid, and stop waiting.
Kill(s) ==
    /\ s \in stops /\ s.termed
    /\ stops' = stops \ {s}
    /\ children' = [children EXCEPT ![s.pid] = Signalled(s.pid, "SIGKILL")]
    /\ UNCHANGED <<procs, posts, file>>

Gone == [life |-> "gone", proc |-> None, signals |-> {}, exit |-> None]

\* Mutant: the timers of a stop() outlive the child.
OnExit_KeepsTimers(c) ==
    LET p == children[c].proc
        how == children[c].exit
        state == IF how \in {"zero", "SIGINT", "SIGTERM"} THEN "exited" ELSE "error" IN
    /\ children[c].life = "dead" /\ p # None
    /\ procs' = [procs EXCEPT ![p] = [updateStatus(p, state, None) EXCEPT !.child = None]]
    /\ children' = [children EXCEPT ![c] = Gone]
    /\ UNCHANGED <<stops, posts, file>>

\* "exit": start()'s listener first, then the one of every stop() of this child.
\* The other listener, of "error", hears besides of a child that cannot be executed
\* (see Start) of a signal that could not be sent.  That is left out: the manager's
\* children are its own user's, and may always be signalled.
OnExit(c) ==
    LET p == children[c].proc
        how == children[c].exit
        state == IF how \in {"zero", "SIGINT", "SIGTERM"} THEN "exited" ELSE "error" IN
    /\ children[c].life = "dead" /\ p # None
    /\ procs' = [procs EXCEPT ![p] = [updateStatus(p, state, None) EXCEPT !.child = None]]
    /\ stops' = {s \in stops : s.child # c}
    /\ children' = [children EXCEPT ![c] = Gone]
    /\ UNCHANGED <<posts, file>>

-----------------------------------------------------------------------------
(* The route: POST /api/process *)

\* Mutant: a file that could not be written reads as nothing.
saveConfig_Undefined(config) == file' \in {config, None}

\* Writing the file is best effort.
saveConfig(config) == file' \in {config, file}

PostStart(r, p, config) ==
    /\ posts[r] = Idle
    /\ saveConfig(config)
    /\ \E ok \in BOOLEAN : Start(p, ok)
    /\ UNCHANGED <<stops, posts>>

PostStop(r, P, config) ==
    /\ posts[r] = Idle
    /\ saveConfig(config)
    /\ StopNow(r, P)
    /\ posts' = [posts EXCEPT ![r].at = "stopping"]

\* The daemon is started; the server 1.2 seconds later, unless that threw.
PostQuickstart(r, config) ==
    /\ posts[r] = Idle
    /\ saveConfig(config)
    /\ \E ok \in BOOLEAN :
          /\ Start("daemon", ok)
          /\ posts' = IF ok THEN [posts EXCEPT ![r] = [at |-> "asleep", config |-> config]]
                      ELSE posts
    /\ UNCHANGED stops

Wake(r) ==
    /\ posts[r].at = "asleep"
    /\ posts' = [posts EXCEPT ![r] = Idle]
    /\ \E ok \in BOOLEAN : Start("server", ok)
    /\ UNCHANGED <<stops, file>>

\* A handler answers when every stop() it waits for has settled.
Reply(r) ==
    /\ posts[r].at = "stopping"
    /\ \A s \in stops : s.post # r
    /\ posts' = [posts EXCEPT ![r] = Idle]
    /\ UNCHANGED <<procs, stops, file, children>>

Handle(r) ==
    \/ \E config \in Config :
          \/ \E p \in ProcId : PostStart(r, p, config) \/ PostStop(r, {p}, config)
          \/ PostStop(r, ProcId, config)
          \/ PostQuickstart(r, config)
    \/ Wake(r)
    \/ Reply(r)

-----------------------------------------------------------------------------
(* The operating system *)

\* A child ends by itself, or of a signal it was sent.
Dies(c) ==
    /\ children[c].life = "alive"
    /\ \E how \in {"zero", "nonzero"} \cup children[c].signals :
          children' = [children EXCEPT ![c] =
             IF children[c].proc = None THEN Gone
             ELSE [@ EXCEPT !.life = "dead", !.signals = {}, !.exit = how]]
    /\ UNCHANGED <<procs, stops, posts, file>>

\* The dashboard dies, and is started again with an empty manager.
Crash ==
    /\ MayCrash
    /\ procs' = [p \in ProcId |-> blankProc]
    /\ stops' = {}
    /\ posts' = [r \in Post |-> Idle]
    /\ children' = [c \in Child |->
          IF children[c].life = "dead" THEN Gone ELSE [children[c] EXCEPT !.proc = None, !.signals = {}]]
    /\ UNCHANGED file

Next ==
    \/ \E r \in Post : Handle(r)
    \/ \E s \in stops : Terminate(s) \/ Kill(s)
    \/ \E c \in Child : Dies(c) \/ OnExit(c)
    \/ Crash

Spec == Init /\ [][Next]_vars

\* Timers fire and events are delivered.  Nothing is assumed of the children:
\* signals can be ignored, and even a killed process may hang in the kernel.
FairSpec ==
    /\ Spec
    /\ \A r \in Post :
          /\ WF_vars(Reply(r))
          /\ WF_vars(Wake(r))
          /\ \A p \in ProcId : WF_vars(\E s \in stops :
                s.post = r /\ s.proc = p /\ (Terminate(s) \/ Kill(s)))
    /\ \A c \in Child : WF_vars(OnExit(c))

-----------------------------------------------------------------------------
(* Properties *)

Unreaped(p) == {c \in Child : children[c].proc = p /\ children[c].life \in {"alive", "dead"}}

\* What the dashboard shows is so (start, stop and the listeners of a child):
\* a process is "running" exactly while it has a child whose exit event has
\* not come, that child is the one the manager holds, and there is no other.
StatusTruth ==
    \A p \in ProcId :
       Unreaped(p) = IF procs[p].state = "running" THEN {procs[p].child} ELSE {}

\* The escalation of stop() reaches the child it was called for: while its
\* timers are armed that child is the process's current one and its pid is not
\* free for another process (t1 kills whatever child is current, t2 a pid).
SignalsHitOwn ==
    \A s \in stops :
       /\ s.pid = s.child
       /\ s.child \in Unreaped(s.proc)
       /\ procs[s.proc].child = s.child

\* stop() settles even if its child never ends: the handler answers.
StopReturns == \A r \in Post : posts[r].at = "stopping" ~> posts[r].at # "stopping"

\* A child that stop() was called for ends or is killed, whatever happens to
\* the process meanwhile, unless the dashboard itself dies.
StopEnds ==
    \A c \in Child :
       (\E s \in stops : s.child = c)
          ~> \/ children[c].life # "alive" \/ "SIGKILL" \in children[c].signals
             \/ children[c].proc = None

\* The manager keeps its promise about the operating system's processes.
Sup == INSTANCE Supervisor WITH
    running <- [p \in ProcId |-> Unreaped(p)],
    used <- {c \in Child : children[c].life # "none"}
OneAtATime == Sup!Spec
=============================================================================
