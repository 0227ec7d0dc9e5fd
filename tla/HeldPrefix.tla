----------------------------- MODULE HeldPrefix -----------------------------
(***************************************************************************)
(* What a drafter's session promises about the target features it holds:   *)
(* they are a run of consecutive positions that only grows at its end, by  *)
(* whole shipped runs, and is otherwise given up as a whole.  Noise blocks *)
(* and half-injected chunks are invisible here.                            *)
(***************************************************************************)
EXTENDS DraftCache

CONSTANT Runs       \* the runs of packets a server may ship

VARIABLE held

Init == held = Empty

\* Prefill or Draft took the whole run: it starts the prefix or continues it.
Grow ==
    \E run \in Runs :
        /\ run # << >>
        /\ CanDecode(held, run[1].position, Len(run))
        /\ held' = Decode(held, run[1].position, run)

Clear == held' = Empty

Next == Grow \/ Clear

Spec == Init /\ [][Next]_held
=============================================================================
