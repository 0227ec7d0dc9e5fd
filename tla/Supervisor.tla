----------------------------- MODULE Supervisor -----------------------------
(***************************************************************************)
(* What the dashboard's process manager promises of the operating system's *)
(* processes, whatever it shows of them: the server and the daemon run at  *)
(* most once each, and a child that ended does not come back.  A restart   *)
(* of the dashboard loses its children: from then on they are nobody's.    *)
(***************************************************************************)
CONSTANTS ProcId, Child

VARIABLES
    running,    \* of each process, the children that run
    used        \* the children made so far

vars == <<running, used>>

Init ==
    /\ running = [p \in ProcId |-> {}]
    /\ used = {}

Begin(p) ==
    /\ running[p] = {}
    /\ \E c \in Child \ used :
          /\ running' = [running EXCEPT ![p] = {c}]
          /\ used' = used \cup {c}

\* A child that could not execute its program was made, and never ran.
Fail ==
    /\ \E c \in Child \ used : used' = used \cup {c}
    /\ UNCHANGED running

End(p) ==
    /\ running[p] # {}
    /\ running' = [running EXCEPT ![p] = {}]
    /\ UNCHANGED used

LoseAll ==
    /\ running' = [p \in ProcId |-> {}]
    /\ UNCHANGED used

Next == (\E p \in ProcId : Begin(p) \/ End(p)) \/ Fail \/ LoseAll

Spec == Init /\ [][Next]_vars
=============================================================================
