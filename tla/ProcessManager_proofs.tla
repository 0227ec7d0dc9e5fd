----------------------- MODULE ProcessManager_proofs -----------------------
(***************************************************************************)
(* Proofs about the process manager, for any number of handlers, children  *)
(* and configurations, with and without a restart of the dashboard.        *)
(*                                                                         *)
(* StatusTruth and SignalsHitOwn need each other (an exit event drops the  *)
(* stops of its child, and those are the ones of its process), and both    *)
(* need that a pid is known exactly of what runs: Inv is their conjunction.*)
(***************************************************************************)
EXTENDS ProcessManager, TLAPS

\* A process has a pid exactly while it runs, and it is its child's.
PidOfRunning ==
    \A p \in ProcId :
       IF procs[p].state = "running"
       THEN procs[p].child \in Child /\ procs[p].pid = procs[p].child
       ELSE procs[p].pid = None

\* The part of TypeOK that the manager's own steps change, and the rest.
ManagerTyped ==
    /\ procs \in [ProcId -> Proc]
    /\ stops \subseteq Stop
    /\ children \in [Child -> ChildState]

RouteTyped ==
    /\ posts \in [Post -> [at : {"idle", "asleep", "stopping"}, config : Config \cup {None}]]
    /\ file \in Config

\* The inductive invariant.
ManagerInv == ManagerTyped /\ PidOfRunning /\ StatusTruth /\ SignalsHitOwn
Inv == ManagerInv /\ RouteTyped

\* What Supervisor sees of a step: its own, or none.
Supervised == [Sup!Next]_(Sup!vars)

-----------------------------------------------------------------------------
(* Children and whose they are.                                            *)

\* Whose a child is depends on its life and its process alone.
LEMMA UnreapedSame ==
    ASSUME \A c \in Child : children'[c].life = children[c].life /\ children'[c].proc = children[c].proc
    PROVE  /\ \A p \in ProcId : Unreaped(p)' = Unreaped(p)
           /\ UNCHANGED Sup!vars
  <1>1. \A p : Unreaped(p)' = Unreaped(p)
    BY DEF Unreaped
  <1>2. {c \in Child : children[c].life # "none"}' = {c \in Child : children[c].life # "none"}
    OBVIOUS
  <1>3. [p \in ProcId |-> Unreaped(p)]' = [p \in ProcId |-> Unreaped(p)]
    BY <1>1
  <1>4. QED BY <1>1, <1>2, <1>3 DEF Sup!vars

\* A signal changes neither.
LEMMA SignalledSame ==
    ASSUME ManagerTyped, NEW c \in Child, NEW signal \in Signal
    PROVE  /\ Signalled(c, signal) \in ChildState
           /\ Signalled(c, signal).life = children[c].life
           /\ Signalled(c, signal).proc = children[c].proc
  BY DEF ManagerTyped, Signalled, ChildState

\* What a process that does not run has: no pid, no child that is not reaped,
\* and nobody who waits for it to stop.
LEMMA NotRunning ==
    ASSUME ManagerInv, NEW p \in ProcId, procs[p].state # "running"
    PROVE  /\ procs[p].pid = None
           /\ Unreaped(p) = {}
           /\ \A s \in stops : s.proc # p
  BY DEF ManagerInv, PidOfRunning, StatusTruth, SignalsHitOwn

\* start() is refused exactly if the process runs.
LEMMA RefusedRuns ==
    ASSUME ManagerInv, NEW p \in ProcId, ~Refused(p)
    PROVE  procs[p].state # "running"
  BY ManagerAssumption DEF Refused, ManagerInv, PidOfRunning

-----------------------------------------------------------------------------
(* The manager's steps keep its invariant, and are steps of Supervisor.    *)

\* A step that only changes the state shown of processes that do not run.
LEMMA OnlyShown ==
    ASSUME ManagerInv, procs' \in [ProcId -> Proc],
           \A p \in ProcId : procs'[p] = procs[p]
              \/ /\ procs[p].state # "running" /\ procs'[p].state # "running"
                 /\ procs'[p].pid = None,
           UNCHANGED <<stops, children>>
    PROVE  ManagerInv' /\ Supervised
  <1>1. /\ \A p \in ProcId : Unreaped(p)' = Unreaped(p)
        /\ UNCHANGED Sup!vars
    BY UnreapedSame
  <1>2. ManagerTyped'
    BY DEF ManagerInv, ManagerTyped
  <1>3. PidOfRunning'
    BY DEF ManagerInv, PidOfRunning
  <1>4. StatusTruth'
    BY <1>1 DEF ManagerInv, StatusTruth
  <1>5. SignalsHitOwn'
    <2> SUFFICES ASSUME NEW s \in stops
                 PROVE  /\ s.pid = s.child
                        /\ s.child \in Unreaped(s.proc)'
                        /\ procs'[s.proc].child = s.child
      BY DEF SignalsHitOwn
    <2>1. s.proc \in ProcId
      BY DEF ManagerInv, ManagerTyped, Stop
    <2>2. procs[s.proc].state = "running"
      BY <2>1, NotRunning
    <2>3. procs'[s.proc] = procs[s.proc]
      BY <2>1, <2>2
    <2>4. QED BY <1>1, <2>1, <2>3 DEF ManagerInv, SignalsHitOwn
  <1>6. QED BY <1>1, <1>2, <1>3, <1>4, <1>5 DEF ManagerInv, Supervised

\* spawn() for a process that does not run: it gets the only child, or none.
LEMMA SpawnedStep ==
    ASSUME ManagerInv, NEW p \in ProcId, procs[p].state # "running",
           Spawned(p), stops' = stops
    PROVE  ManagerInv' /\ Supervised
  <1>1. PICK c \in Child, executed \in BOOLEAN :
           /\ children[c].life = "none"
           /\ children' = [children EXCEPT ![c].life = IF executed THEN "alive" ELSE "gone",
                                           ![c].proc = IF executed THEN p ELSE None]
           /\ procs' = [procs EXCEPT ![p] =
                 [child |-> c, state |-> IF executed THEN "running" ELSE "error",
                  pid |-> IF executed THEN c ELSE None]]
    BY DEF Spawned
  <1>2. /\ procs \in [ProcId -> Proc] /\ children \in [Child -> ChildState]
        /\ stops \subseteq Stop
    BY DEF ManagerInv, ManagerTyped
  <1>3. /\ children'[c] = [children[c] EXCEPT !.life = IF executed THEN "alive" ELSE "gone",
                                             !.proc = IF executed THEN p ELSE None]
        /\ \A d \in Child : d # c => children'[d] = children[d]
        /\ DOMAIN children' = Child
    BY <1>1, <1>2
  <1>4. /\ children'[c].life = IF executed THEN "alive" ELSE "gone"
        /\ children'[c].proc = IF executed THEN p ELSE None
        /\ children'[c] \in ChildState
    BY <1>2, <1>3 DEF ChildState
  <1>5. /\ procs'[p] = [child |-> c, state |-> IF executed THEN "running" ELSE "error",
                        pid |-> IF executed THEN c ELSE None]
        /\ procs'[p] \in Proc
        /\ \A q \in ProcId : q # p => procs'[q] = procs[q]
        /\ procs' \in [ProcId -> Proc]
    BY <1>1, <1>2 DEF Proc, ProcState
  <1>6. Unreaped(p) = {} /\ \A s \in stops : s.proc # p
    BY NotRunning
  <1>7. \A q \in ProcId : Unreaped(q)' = IF q = p /\ executed THEN {c} ELSE Unreaped(q)
    BY <1>1, <1>3, <1>4, <1>6, ManagerAssumption DEF Unreaped
  <1>8. ManagerTyped'
    BY <1>1, <1>2, <1>4, <1>5 DEF ManagerTyped
  <1>9. PidOfRunning'
    BY <1>5 DEF ManagerInv, PidOfRunning
  <1>10. StatusTruth'
    <2> SUFFICES ASSUME NEW q \in ProcId
                 PROVE  Unreaped(q)' = IF procs'[q].state = "running" THEN {procs'[q].child} ELSE {}
      BY DEF StatusTruth
    <2>1. CASE q = p
      BY <1>5, <1>6, <1>7, <2>1
    <2>2. CASE q # p
      BY <1>5, <1>7, <2>2 DEF ManagerInv, StatusTruth
    <2>3. QED BY <2>1, <2>2
  <1>11. SignalsHitOwn'
    <2> SUFFICES ASSUME NEW s \in stops
                 PROVE  /\ s.pid = s.child
                        /\ s.child \in Unreaped(s.proc)'
                        /\ procs'[s.proc].child = s.child
      BY DEF SignalsHitOwn
    <2>1. s.proc \in ProcId /\ s.proc # p
      BY <1>2, <1>6 DEF Stop
    <2>2. QED BY <1>5, <1>7, <2>1 DEF ManagerInv, SignalsHitOwn
  <1>12. {d \in Child : children[d].life # "none"}' = {d \in Child : children[d].life # "none"} \cup {c}
    BY <1>3, <1>4
  <1>13. Supervised
    <2>1. CASE executed
      <3>1. [q \in ProcId |-> Unreaped(q)]' = [[q \in ProcId |-> Unreaped(q)] EXCEPT ![p] = {c}]
        BY <1>7, <2>1
      <3>2. Sup!Begin(p)
        BY <1>1, <1>6, <1>12, <3>1 DEF Sup!Begin
      <3>3. QED BY <3>2 DEF Supervised, Sup!Next
    <2>2. CASE ~executed
      <3>1. [q \in ProcId |-> Unreaped(q)]' = [q \in ProcId |-> Unreaped(q)]
        BY <1>7, <2>2
      <3>2. Sup!Fail
        BY <1>1, <1>12, <3>1 DEF Sup!Fail
      <3>3. QED BY <3>2 DEF Supervised, Sup!Next
    <2>3. QED BY <2>1, <2>2
  <1>14. QED BY <1>8, <1>9, <1>10, <1>11, <1>13 DEF ManagerInv

\* start(), whether it returns or throws.
LEMMA StartStep ==
    ASSUME ManagerInv, NEW p \in ProcId, NEW ok \in BOOLEAN, Start(p, ok), stops' = stops
    PROVE  ManagerInv' /\ Supervised
  <1>1. procs \in [ProcId -> Proc]
    BY DEF ManagerInv, ManagerTyped
  <1>2. CASE ~Refused(p) /\ Spawned(p)
    BY <1>2, RefusedRuns, SpawnedStep
  <1>3. CASE Refused(p) /\ UNCHANGED <<procs, children>>
    <2>1. procs' \in [ProcId -> Proc]
      BY <1>1, <1>3
    <2>2. QED BY <1>3, <2>1, OnlyShown
  <1>4. CASE ~Refused(p) /\ MissingBinary(p)
    <2>1. procs[p].state # "running" /\ procs[p].pid = None
      BY <1>4, RefusedRuns, NotRunning
    <2>2. /\ procs' \in [ProcId -> Proc]
          /\ procs'[p].state = "error" /\ procs'[p].pid = procs[p].pid
          /\ \A q \in ProcId : q # p => procs'[q] = procs[q]
      BY <1>1, <1>4 DEF MissingBinary, Proc, ProcState
    <2>3. children' = children
      BY <1>4 DEF MissingBinary
    <2>4. QED BY <2>1, <2>2, <2>3, OnlyShown
  <1>5. CASE ~Refused(p) /\ SpawnThrows(p)
    <2>1. procs[p].state # "running"
      BY <1>5, RefusedRuns
    <2>2. updateStatus(p, "error", None) \in Proc
          /\ updateStatus(p, "error", None).state = "error"
          /\ updateStatus(p, "error", None).pid = None
      BY <1>1 DEF updateStatus, Proc, ProcState
    <2>3. /\ procs' \in [ProcId -> Proc]
          /\ procs'[p].state = "error" /\ procs'[p].pid = None
          /\ \A q \in ProcId : q # p => procs'[q] = procs[q]
      BY <1>1, <1>5, <2>2 DEF SpawnThrows
    <2>4. children' = children
      BY <1>5 DEF SpawnThrows
    <2>5. QED BY <2>1, <2>3, <2>4, OnlyShown
  <1>6. QED BY <1>2, <1>3, <1>4, <1>5 DEF Start

\* A signal, to any children: nothing else of them changes.
LEMMA SignalStep ==
    ASSUME ManagerInv, NEW signal \in Signal, NEW C \in SUBSET Child,
           children' = [c \in Child |-> IF c \in C THEN Signalled(c, signal) ELSE children[c]]
    PROVE  /\ children' \in [Child -> ChildState]
           /\ \A p \in ProcId : Unreaped(p)' = Unreaped(p)
           /\ UNCHANGED Sup!vars
  <1>1. \A c \in Child : /\ children'[c] \in ChildState
                         /\ children'[c].life = children[c].life
                         /\ children'[c].proc = children[c].proc
    BY SignalledSame DEF ManagerInv, ManagerTyped
  <1>2. QED BY <1>1, UnreapedSame

\* stop() up to its promise: what runs gets a signal and is waited for.
LEMMA StopNowStep ==
    ASSUME ManagerInv, NEW r \in Post, NEW P \in SUBSET ProcId, StopNow(r, P)
    PROVE  ManagerInv' /\ Supervised
  <1> DEFINE live == {p \in P : Stoppable(p)}
             asked == {[post |-> r, proc |-> p, child |-> procs[p].child, pid |-> procs[p].pid,
                        termed |-> FALSE] : p \in live}
  <1>1. /\ procs' = [p \in ProcId |->
              IF p \in P \ live THEN [procs[p] EXCEPT !.state = "stopped"] ELSE procs[p]]
        /\ children' = [c \in Child |->
              IF \E p \in live : procs[p].child = c THEN Signalled(c, "SIGINT") ELSE children[c]]
        /\ stops' = stops \cup asked
    BY DEF StopNow
  <1>2. /\ procs \in [ProcId -> Proc] /\ stops \subseteq Stop
    BY DEF ManagerInv, ManagerTyped
  <1>3. \A p \in live : /\ p \in ProcId /\ procs[p].state = "running"
                        /\ procs[p].child \in Child /\ procs[p].pid = procs[p].child
    BY DEF ManagerInv, PidOfRunning, Stoppable
  <1>4. \A p \in P \ live : procs[p].state # "running" /\ procs[p].pid = None
    BY ManagerAssumption DEF ManagerInv, PidOfRunning, Stoppable
  <1>5. /\ children' \in [Child -> ChildState]
        /\ \A p \in ProcId : Unreaped(p)' = Unreaped(p)
        /\ UNCHANGED Sup!vars
    <2> DEFINE C == {c \in Child : \E p \in live : procs[p].child = c}
    <2>1. children' = [c \in Child |-> IF c \in C THEN Signalled(c, "SIGINT") ELSE children[c]]
      BY <1>1
    <2>2. C \in SUBSET Child /\ "SIGINT" \in Signal
      BY DEF Signal
    <2> HIDE DEF C
    <2>3. QED BY <2>1, <2>2, SignalStep
  <1>6. \A p \in ProcId :
           /\ procs'[p] \in Proc
           /\ procs'[p].child = procs[p].child /\ procs'[p].pid = procs[p].pid
           /\ p \in P \ live => procs'[p].state = "stopped"
           /\ p \notin P \ live => procs'[p] = procs[p]
    BY <1>1, <1>2 DEF Proc, ProcState
  <1>7. asked \subseteq Stop
    <2> SUFFICES ASSUME NEW p \in live
                 PROVE  [post |-> r, proc |-> p, child |-> procs[p].child, pid |-> procs[p].pid,
                         termed |-> FALSE] \in Stop
      OBVIOUS
    <2>1. p \in ProcId /\ procs[p].child \in Child /\ procs[p].pid \in Child
      BY <1>3
    <2> HIDE DEF live
    <2>2. QED BY <2>1 DEF Stop
  <1>8. ManagerTyped'
    BY <1>1, <1>2, <1>5, <1>6, <1>7 DEF ManagerTyped
  <1>9. PidOfRunning'
    BY <1>4, <1>6 DEF ManagerInv, PidOfRunning
  <1>10. StatusTruth'
    BY <1>4, <1>5, <1>6 DEF ManagerInv, StatusTruth
  <1>11. SignalsHitOwn'
    <2> SUFFICES ASSUME NEW s \in stops'
                 PROVE  /\ s.pid = s.child
                        /\ s.child \in Unreaped(s.proc)'
                        /\ procs'[s.proc].child = s.child
      BY DEF SignalsHitOwn
    <2>1. CASE s \in stops
      <3>1. s.proc \in ProcId
        BY <1>2, <2>1 DEF Stop
      <3>2. QED BY <1>5, <1>6, <2>1, <3>1 DEF ManagerInv, SignalsHitOwn
    <2>2. CASE s \in asked
      <3>1. PICK p \in live : s.proc = p /\ s.child = procs[p].child /\ s.pid = procs[p].pid
        BY <2>2
      <3>2. Unreaped(p) = {procs[p].child}
        BY <1>3 DEF ManagerInv, StatusTruth
      <3>3. QED BY <1>3, <1>5, <1>6, <3>1, <3>2
    <2>3. QED BY <1>1, <2>1, <2>2
  <1>12. QED BY <1>5, <1>8, <1>9, <1>10, <1>11 DEF ManagerInv, Supervised

\* The timers of a stop().
LEMMA TimerStep ==
    ASSUME ManagerInv, NEW s \in stops, Terminate(s) \/ Kill(s)
    PROVE  ManagerInv' /\ Supervised
  <1>1. /\ procs \in [ProcId -> Proc] /\ stops \subseteq Stop
        /\ children \in [Child -> ChildState]
    BY DEF ManagerInv, ManagerTyped
  <1>2. procs' = procs
    BY DEF Terminate, Kill
  <1>3. /\ children' \in [Child -> ChildState]
        /\ \A p \in ProcId : Unreaped(p)' = Unreaped(p)
        /\ UNCHANGED Sup!vars
    <2>1. CASE Terminate(s)
      <3> DEFINE C == {c \in Child : c = procs[s.proc].child}
      <3>1. children' = [c \in Child |-> IF c \in C THEN Signalled(c, "SIGTERM") ELSE children[c]]
        BY <2>1 DEF Terminate
      <3>2. C \in SUBSET Child /\ "SIGTERM" \in Signal
        BY DEF Signal
      <3> HIDE DEF C
      <3>3. QED BY <3>1, <3>2, SignalStep
    <2>2. CASE Kill(s)
      <3>1. s.pid \in Child
        BY <1>1 DEF Stop
      <3>2. children' = [c \in Child |-> IF c \in {s.pid} THEN Signalled(c, "SIGKILL") ELSE children[c]]
        BY <1>1, <2>2, <3>1 DEF Kill
      <3>3. {s.pid} \in SUBSET Child /\ "SIGKILL" \in Signal
        BY <3>1 DEF Signal
      <3>4. QED BY <3>2, <3>3, SignalStep
    <2>3. QED BY <2>1, <2>2
  <1>4. \A t \in stops' : /\ t \in Stop
                          /\ \E u \in stops : t.proc = u.proc /\ t.child = u.child /\ t.pid = u.pid
    <2>1. CASE Terminate(s)
      <3>1. stops' = (stops \ {s}) \cup {[s EXCEPT !.termed = TRUE]}
        BY <2>1 DEF Terminate
      <3>2. [s EXCEPT !.termed = TRUE] \in Stop
        BY <1>1 DEF Stop
      <3>3. /\ [s EXCEPT !.termed = TRUE].proc = s.proc
            /\ [s EXCEPT !.termed = TRUE].child = s.child
            /\ [s EXCEPT !.termed = TRUE].pid = s.pid
        BY <1>1 DEF Stop
      <3>4. QED BY <1>1, <3>1, <3>2, <3>3
    <2>2. CASE Kill(s)
      BY <1>1, <2>2 DEF Kill
    <2>3. QED BY <2>1, <2>2
  <1>5. ManagerTyped'
    BY <1>1, <1>2, <1>3, <1>4 DEF ManagerTyped
  <1>6. PidOfRunning' /\ StatusTruth'
    BY <1>2, <1>3 DEF ManagerInv, PidOfRunning, StatusTruth
  <1>7. SignalsHitOwn'
    BY <1>1, <1>2, <1>3, <1>4 DEF ManagerInv, SignalsHitOwn, Stop
  <1>8. QED BY <1>3, <1>5, <1>6, <1>7 DEF ManagerInv, Supervised
\* What an exit event leaves of a process's record.
LEMMA ForgetChild ==
    ASSUME NEW p \in ProcId, procs \in [ProcId -> Proc], NEW state \in ProcState
    PROVE  LET status == [updateStatus(p, state, None) EXCEPT !.child = None] IN
           status \in Proc /\ status.state = state /\ status.pid = None
  BY DEF updateStatus, Proc

\* An exit event: the process has no child any more, and nobody waits for it.
LEMMA OnExitStep ==
    ASSUME ManagerInv, NEW c \in Child, OnExit(c)
    PROVE  ManagerInv' /\ Supervised
  <1> DEFINE p == children[c].proc
             how == children[c].exit
             state == IF how \in {"zero", "SIGINT", "SIGTERM"} THEN "exited" ELSE "error"
  <1>1. /\ procs \in [ProcId -> Proc] /\ stops \subseteq Stop
        /\ children \in [Child -> ChildState]
    BY DEF ManagerInv, ManagerTyped
  <1>2. /\ children[c].life = "dead" /\ p # None
        /\ procs' = [procs EXCEPT ![p] = [updateStatus(p, state, None) EXCEPT !.child = None]]
        /\ stops' = {s \in stops : s.child # c}
        /\ children' = [children EXCEPT ![c] = Gone]
    BY DEF OnExit
  <1>3. p \in ProcId
    BY <1>1, <1>2 DEF ChildState
  <1>4. /\ procs'[p].state = state /\ procs'[p].pid = None
        /\ \A q \in ProcId : q # p => procs'[q] = procs[q]
        /\ procs' \in [ProcId -> Proc]
    <2> DEFINE status == [updateStatus(p, state, None) EXCEPT !.child = None]
    <2>1. state \in ProcState
      BY DEF ProcState
    <2> HIDE DEF state
    <2>2. status \in Proc /\ status.state = state /\ status.pid = None
      BY <1>1, <1>3, <2>1, ForgetChild
    <2>3. procs' = [procs EXCEPT ![p] = status]
      BY <1>2
    <2> HIDE DEF status, p
    <2>4. QED BY <1>1, <1>3, <2>2, <2>3
  <1>5. state # "running"
    OBVIOUS
  <1>6. c \in Unreaped(p)
    BY <1>2 DEF Unreaped
  <1>7. Unreaped(p) = {c} /\ procs[p].state = "running"
    BY <1>3, <1>6 DEF ManagerInv, StatusTruth
  <1>8. Gone \in ChildState
    BY DEF Gone, ChildState
  <1>9. /\ children'[c] = Gone
        /\ \A d \in Child : d # c => children'[d] = children[d]
        /\ children' \in [Child -> ChildState]
    BY <1>1, <1>2, <1>8
  <1>10. \A q \in ProcId : Unreaped(q)' = IF q = p THEN {} ELSE Unreaped(q)
    <2> SUFFICES ASSUME NEW q \in ProcId
                 PROVE  Unreaped(q)' = IF q = p THEN {} ELSE Unreaped(q)
      OBVIOUS
    <2>1. Unreaped(q)' = Unreaped(q) \ {c}
      BY <1>9 DEF Unreaped, Gone
    <2>2. q # p => c \notin Unreaped(q)
      BY DEF Unreaped
    <2>3. QED BY <1>7, <2>1, <2>2
  <1>11. \A s \in stops' : s \in stops /\ s.proc \in ProcId /\ s.proc # p
    <2> SUFFICES ASSUME NEW s \in stops, s.child # c
                 PROVE  s.proc \in ProcId /\ s.proc # p
      BY <1>2
    <2>1. s.proc \in ProcId /\ s.child \in Unreaped(s.proc)
      BY <1>1 DEF ManagerInv, SignalsHitOwn, Stop
    <2>2. QED BY <1>7, <2>1
  <1> HIDE DEF p, state
  <1>12. ManagerTyped'
    BY <1>1, <1>4, <1>9, <1>11 DEF ManagerTyped
  <1>13. PidOfRunning'
    BY <1>4, <1>5 DEF ManagerInv, PidOfRunning
  <1>14. StatusTruth'
    BY <1>4, <1>5, <1>10 DEF ManagerInv, StatusTruth
  <1>15. SignalsHitOwn'
    BY <1>4, <1>10, <1>11 DEF ManagerInv, SignalsHitOwn
  <1>16. Supervised
    <2>1. [q \in ProcId |-> Unreaped(q)]' = [[q \in ProcId |-> Unreaped(q)] EXCEPT ![p] = {}]
      BY <1>3, <1>10
    <2>2. {d \in Child : children[d].life # "none"}' = {d \in Child : children[d].life # "none"}
      BY <1>2, <1>9 DEF Gone
    <2>3. Sup!End(p)
      BY <1>3, <1>7, <2>1, <2>2 DEF Sup!End
    <2>4. QED BY <1>3, <2>3 DEF Supervised, Sup!Next
  <1>17. QED BY <1>12, <1>13, <1>14, <1>15, <1>16 DEF ManagerInv

\* A child's end is not known before its exit event; one that nobody holds is gone.
LEMMA DiesStep ==
    ASSUME ManagerInv, NEW c \in Child, Dies(c)
    PROVE  ManagerInv' /\ Supervised
  <1>1. /\ procs \in [ProcId -> Proc] /\ stops \subseteq Stop
        /\ children \in [Child -> ChildState]
    BY DEF ManagerInv, ManagerTyped
  <1>2. UNCHANGED <<procs, stops>> /\ children[c].life = "alive"
    BY DEF Dies
  <1>3. PICK how \in {"zero", "nonzero"} \cup children[c].signals :
           children' = [children EXCEPT ![c] =
              IF children[c].proc = None THEN Gone
              ELSE [@ EXCEPT !.life = "dead", !.signals = {}, !.exit = how]]
    BY DEF Dies
  <1>4. how \in Exit
    BY <1>1 DEF ChildState, Exit
  <1>5. /\ children'[c] \in ChildState
        /\ children'[c].proc = children[c].proc
        /\ children'[c].life = IF children[c].proc = None THEN "gone" ELSE "dead"
        /\ \A d \in Child : d # c => children'[d] = children[d]
        /\ children' \in [Child -> ChildState]
    <2>1. CASE children[c].proc = None
      <3>1. children' = [children EXCEPT ![c] = Gone]
        BY <1>3, <2>1
      <3>2. Gone.life = "gone" /\ Gone.proc = None
        BY DEF Gone
      <3>3. Gone \in ChildState
        BY DEF Gone, ChildState
      <3>4. QED BY <1>1, <2>1, <3>1, <3>2, <3>3
    <2>2. CASE children[c].proc # None
      <3> DEFINE dead == [children[c] EXCEPT !.life = "dead", !.signals = {}, !.exit = how]
      <3>1. children[c] \in ChildState
        BY <1>1
      <3>2. dead \in ChildState /\ dead.life = "dead" /\ dead.proc = children[c].proc
        BY <1>4, <3>1 DEF ChildState
      <3>3. children' = [children EXCEPT ![c] = dead]
        BY <1>3, <2>2
      <3> HIDE DEF dead
      <3>4. QED BY <1>1, <2>2, <3>2, <3>3
    <2>3. QED BY <2>1, <2>2
  <1>6. \A p \in ProcId : Unreaped(p)' = Unreaped(p)
    <2> SUFFICES ASSUME NEW p \in ProcId, NEW d \in Child
                 PROVE  d \in Unreaped(p)' <=> d \in Unreaped(p)
      BY DEF Unreaped
    <2>1. p # None
      BY ManagerAssumption
    <2>2. QED BY <1>2, <1>5, <2>1 DEF Unreaped
  <1>7. [p \in ProcId |-> Unreaped(p)]' = [p \in ProcId |-> Unreaped(p)]
    BY <1>6
  <1>8. {d \in Child : children[d].life # "none"}' = {d \in Child : children[d].life # "none"}
    BY <1>2, <1>5
  <1>9. ManagerTyped'
    BY <1>1, <1>2, <1>5 DEF ManagerTyped
  <1>10. PidOfRunning' /\ StatusTruth'
    BY <1>2, <1>6 DEF ManagerInv, PidOfRunning, StatusTruth
  <1>11. SignalsHitOwn'
    BY <1>1, <1>2, <1>6 DEF ManagerInv, SignalsHitOwn, Stop
  <1>12. QED BY <1>7, <1>8, <1>9, <1>10, <1>11 DEF ManagerInv, Supervised, Sup!vars

\* A restart of the dashboard: nobody holds the children, and nobody waits.
LEMMA CrashStep ==
    ASSUME ManagerInv, Crash
    PROVE  ManagerInv' /\ Supervised
  <1>1. children \in [Child -> ChildState]
    BY DEF ManagerInv, ManagerTyped
  <1>2. /\ procs' = [p \in ProcId |-> blankProc] /\ stops' = {}
        /\ children' = [c \in Child |->
              IF children[c].life = "dead" THEN Gone
              ELSE [children[c] EXCEPT !.proc = None, !.signals = {}]]
    BY DEF Crash
  <1>3. \A c \in Child : /\ children'[c] \in ChildState
                         /\ children'[c].proc = None
                         /\ children'[c].life = "none" <=> children[c].life = "none"
    BY <1>1, <1>2 DEF Gone, ChildState
  <1>4. \A p \in ProcId : Unreaped(p)' = {}
    BY <1>3, ManagerAssumption DEF Unreaped
  <1>5. blankProc \in Proc /\ blankProc.state # "running" /\ blankProc.pid = None
    BY DEF blankProc, Proc, ProcState
  <1>6. ManagerTyped'
    BY <1>2, <1>3, <1>5 DEF ManagerTyped
  <1>7. PidOfRunning' /\ StatusTruth' /\ SignalsHitOwn'
    BY <1>2, <1>4, <1>5 DEF PidOfRunning, StatusTruth, SignalsHitOwn
  <1>8. Supervised
    <2>1. [p \in ProcId |-> Unreaped(p)]' = [p \in ProcId |-> {}]
      BY <1>4
    <2>2. {c \in Child : children[c].life # "none"}' = {c \in Child : children[c].life # "none"}
      BY <1>3
    <2>3. Sup!LoseAll
      BY <2>1, <2>2 DEF Sup!LoseAll
    <2>4. QED BY <2>3 DEF Supervised, Sup!Next
  <1>9. QED BY <1>6, <1>7, <1>8 DEF ManagerInv

\* Steps that the manager has no part in.
LEMMA OtherStep ==
    ASSUME ManagerInv, UNCHANGED <<procs, stops, children>>
    PROVE  ManagerInv' /\ Supervised
  <1>1. /\ \A p \in ProcId : Unreaped(p)' = Unreaped(p)
        /\ UNCHANGED Sup!vars
    BY UnreapedSame
  <1>2. ManagerTyped' /\ PidOfRunning' /\ StatusTruth'
    BY <1>1 DEF ManagerInv, ManagerTyped, PidOfRunning, StatusTruth
  <1>3. SignalsHitOwn'
    BY <1>1 DEF ManagerInv, ManagerTyped, SignalsHitOwn, Stop
  <1>4. QED BY <1>1, <1>2, <1>3 DEF ManagerInv, Supervised

-----------------------------------------------------------------------------
(* The route.                                                              *)

\* A saved configuration is one: a write that fails leaves the one before.
LEMMA SaveStep ==
    ASSUME RouteTyped, NEW config \in Config, saveConfig(config)
    PROVE  file' \in Config
  BY DEF RouteTyped, saveConfig

\* A request's step is the manager's, between reading it and answering.
LEMMA HandleStep ==
    ASSUME Inv, NEW r \in Post, Handle(r)
    PROVE  Inv' /\ Supervised
  <1> DEFINE Waits == [at : {"idle", "asleep", "stopping"}, config : Config \cup {None}]
  <1>1. posts \in [Post -> Waits] /\ file \in Config
    BY DEF Inv, RouteTyped
  <1>2. Idle \in Waits
    BY DEF Idle
  <1>3. ASSUME NEW config \in Config, NEW p \in ProcId, PostStart(r, p, config)
        PROVE  Inv' /\ Supervised
    <2>1. PICK ok \in BOOLEAN : Start(p, ok)
      BY <1>3 DEF PostStart
    <2>2. stops' = stops /\ posts' = posts /\ saveConfig(config)
      BY <1>3 DEF PostStart
    <2>3. RouteTyped'
      BY <1>1, <2>2, SaveStep DEF Inv, RouteTyped
    <2>4. QED BY <2>1, <2>2, <2>3, StartStep DEF Inv
  <1>4. ASSUME NEW config \in Config, NEW P \in SUBSET ProcId, PostStop(r, P, config)
        PROVE  Inv' /\ Supervised
    <2>1. StopNow(r, P) /\ saveConfig(config) /\ posts' = [posts EXCEPT ![r].at = "stopping"]
      BY <1>4 DEF PostStop
    <2>2. posts' \in [Post -> Waits]
      BY <1>1, <2>1
    <2>3. RouteTyped'
      BY <2>1, <2>2, SaveStep DEF Inv, RouteTyped
    <2>4. QED BY <2>1, <2>3, StopNowStep DEF Inv
  <1>5. ASSUME NEW config \in Config, PostQuickstart(r, config)
        PROVE  Inv' /\ Supervised
    <2>1. PICK ok \in BOOLEAN :
             /\ Start("daemon", ok)
             /\ posts' = IF ok THEN [posts EXCEPT ![r] = [at |-> "asleep", config |-> config]]
                         ELSE posts
      BY <1>5 DEF PostQuickstart
    <2>2. stops' = stops /\ saveConfig(config) /\ "daemon" \in ProcId
      BY <1>5 DEF PostQuickstart, ProcId
    <2>3. posts' \in [Post -> Waits]
      BY <1>1, <2>1
    <2>4. RouteTyped'
      BY <2>2, <2>3, SaveStep DEF Inv, RouteTyped
    <2>5. QED BY <2>1, <2>2, <2>4, StartStep DEF Inv
  <1>6. ASSUME Wake(r) PROVE Inv' /\ Supervised
    <2>1. PICK ok \in BOOLEAN : Start("server", ok)
      BY <1>6 DEF Wake
    <2>2. stops' = stops /\ file' = file /\ posts' = [posts EXCEPT ![r] = Idle] /\ "server" \in ProcId
      BY <1>6 DEF Wake, ProcId
    <2>3. RouteTyped'
      BY <1>1, <1>2, <2>2 DEF RouteTyped
    <2>4. QED BY <2>1, <2>2, <2>3, StartStep DEF Inv
  <1>7. ASSUME Reply(r) PROVE Inv' /\ Supervised
    <2>1. UNCHANGED <<procs, stops, file, children>> /\ posts' = [posts EXCEPT ![r] = Idle]
      BY <1>7 DEF Reply
    <2>2. RouteTyped'
      BY <1>1, <1>2, <2>1 DEF RouteTyped
    <2>3. QED BY <2>1, <2>2, OtherStep DEF Inv
  <1>8. \A p \in ProcId : {p} \in SUBSET ProcId
    OBVIOUS
  <1>9. QED BY <1>3, <1>4, <1>5, <1>6, <1>7, <1>8 DEF Handle

\* Every step keeps the invariant and is one of Supervisor, or none.
LEMMA NextStep ==
    ASSUME Inv, [Next]_vars
    PROVE  Inv' /\ Supervised
  <1>1. CASE \E r \in Post : Handle(r)
    BY <1>1, HandleStep
  <1>2. ASSUME NEW s \in stops, Terminate(s) \/ Kill(s)
        PROVE  Inv' /\ Supervised
    <2>1. RouteTyped'
      BY <1>2 DEF Inv, RouteTyped, Terminate, Kill
    <2>2. QED BY <1>2, <2>1, TimerStep DEF Inv
  <1>3. ASSUME NEW c \in Child, Dies(c) \/ OnExit(c)
        PROVE  Inv' /\ Supervised
    <2>1. RouteTyped'
      BY <1>3 DEF Inv, RouteTyped, Dies, OnExit
    <2>2. QED BY <1>3, <2>1, DiesStep, OnExitStep DEF Inv
  <1>4. CASE Crash
    <2>1. RouteTyped'
      BY <1>4 DEF Inv, RouteTyped, Crash, Idle
    <2>2. QED BY <1>4, <2>1, CrashStep DEF Inv
  <1>5. CASE UNCHANGED vars
    <2>1. RouteTyped'
      BY <1>5 DEF Inv, RouteTyped, vars
    <2>2. QED BY <1>5, <2>1, OtherStep DEF Inv, vars
  <1>6. QED BY <1>1, <1>2, <1>3, <1>4, <1>5 DEF Next

\* No child has been made yet.
LEMMA InitStep ==
    ASSUME Init
    PROVE  Inv /\ Sup!Init
  <1>1. \A c \in Child : children[c] = [life |-> "none", proc |-> None, signals |-> {}, exit |-> None]
    BY DEF Init
  <1>2. \A p \in ProcId : Unreaped(p) = {}
    BY <1>1 DEF Unreaped
  <1>3. ManagerTyped
    BY DEF Init, ManagerTyped, blankProc, Proc, ProcState, ChildState
  <1>4. RouteTyped
    BY DEF Init, RouteTyped, Idle
  <1>5. PidOfRunning /\ StatusTruth /\ SignalsHitOwn
    BY <1>2 DEF Init, PidOfRunning, StatusTruth, SignalsHitOwn, blankProc
  <1>6. Sup!Init
    BY <1>1, <1>2 DEF Sup!Init
  <1>7. QED BY <1>3, <1>4, <1>5, <1>6 DEF Inv, ManagerInv

-----------------------------------------------------------------------------
(* Theorems.                                                               *)

\* The invariant holds always.
THEOREM Inductive == Spec => []Inv
  <1>1. Init => Inv
    BY InitStep
  <1>2. Inv /\ [Next]_vars => Inv'
    BY NextStep
  <1>3. QED BY <1>1, <1>2, PTL DEF Spec

\* Every variable of the manager, the route and the system keeps its type: in
\* particular the saved configuration is one, whatever writes failed.
THEOREM TypeCorrect == Spec => []TypeOK
  <1>1. Inv => TypeOK
    BY DEF Inv, ManagerInv, ManagerTyped, RouteTyped, TypeOK
  <1>2. QED BY <1>1, Inductive, PTL

\* What the dashboard shows as running is the one child that is not reaped,
\* for any number of requests in any order, and across its own restarts.
THEOREM StatusIsTrue == Spec => []StatusTruth
  <1>1. Inv => StatusTruth
    BY DEF Inv, ManagerInv
  <1>2. QED BY <1>1, Inductive, PTL

\* The timers of stop() signal the child it was called for and no other.
THEOREM SignalsReachOwn == Spec => []SignalsHitOwn
  <1>1. Inv => SignalsHitOwn
    BY DEF Inv, ManagerInv
  <1>2. QED BY <1>1, Inductive, PTL

\* The manager and its route implement Supervisor: the server and the daemon
\* have at most one child each, and none comes back.
THEOREM ImplementsSupervisor == Spec => OneAtATime
  <1>1. Init => Sup!Init
    BY InitStep
  <1>2. Inv /\ [Next]_vars => [Sup!Next]_(Sup!vars)
    BY NextStep DEF Supervised
  <1>3. QED BY <1>1, <1>2, Inductive, PTL DEF Spec, OneAtATime, Sup!Spec
=============================================================================
