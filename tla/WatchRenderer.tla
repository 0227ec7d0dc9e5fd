---------------------------- MODULE WatchRenderer ----------------------------
(***************************************************************************)
(* watch_renderer: the daemon's --watch preview.  gRPC threads append      *)
(* events to a queue; one worker thread turns them into a transcript of    *)
(* regions, of which redraw() prints the tail.  The transcript and         *)
(* pending_tokens belong to the worker alone, so taking an event and       *)
(* handling it is one step.  The daemon never destroys its renderer, so    *)
(* stop_ is left out.                                                      *)
(***************************************************************************)
EXTENDS Integers, Sequences, SequencesExt

VARIABLES
    queue,            \* events not yet handled
    transcript,       \* regions, oldest first
    pending_tokens    \* the block that waits for its verdict

renderer == <<queue, transcript, pending_tokens>>

RendererInit == queue = << >> /\ transcript = << >> /\ pending_tokens = << >>

-----------------------------------------------------------------------------
(* The gRPC threads' side: enqueue and return.                             *)

\* Mutant: an event waits until the one before it was drawn.
Enqueue_Waits(type, tokens) ==
    /\ queue = << >>
    /\ queue' = <<[type |-> type, tokens |-> tokens]>>
    /\ UNCHANGED <<transcript, pending_tokens>>

Enqueue(type, tokens) ==
    /\ queue' = Append(queue, [type |-> type, tokens |-> tokens])
    /\ UNCHANGED <<transcript, pending_tokens>>

on_accepted(tokens) == IF tokens = << >> THEN UNCHANGED renderer
                                         ELSE Enqueue("accepted", tokens)
on_verdict(tokens)  == Enqueue("verdict", tokens)
on_draft(tokens)    == Enqueue("draft", tokens)
on_reset            == Enqueue("reset", << >>)

-----------------------------------------------------------------------------
(* The worker's side.                                                      *)

\* A region for the tokens, unless there are none.
Region(tokens, st) == IF tokens = << >> THEN << >> ELSE <<[text |-> tokens, st |-> st]>>

\* How much of a is also how b begins.
Match(a, b) ==
    CHOOSE n \in 0 .. Len(a) :
        /\ n <= Len(b) /\ SubSeq(a, 1, n) = SubSeq(b, 1, n)
        /\ n = Len(a) \/ n = Len(b) \/ a[n + 1] # b[n + 1]

From(tokens, n) == SubSeq(tokens, n, Len(tokens))

\* The transcript without the pending regions at its end.
Settled ==
    LET keep == {n \in 0 .. Len(transcript) :
                    \A i \in n + 1 .. Len(transcript) : transcript[i].st = "pending"}
    IN  SubSeq(transcript, 1, CHOOSE n \in keep : \A m \in keep : n <= m)

\* Mutant: what the server committed in place of a rejected draft is not shown.
Judged_DropsCorrection(accepted) ==
    LET match == Match(pending_tokens, accepted)
    IN  Settled \o Region(SubSeq(pending_tokens, 1, match), "confirmed")
                \o Region(SubSeq(From(pending_tokens, match + 1), 1,
                                 IF match < Len(pending_tokens) THEN 1 ELSE 0), "rejected")

\* The transcript once the pending block was compared with the accepted tokens:
\* what they agree on, the first draft they do not, and the rest of the accepted.
Judged(accepted) ==
    LET match == Match(pending_tokens, accepted)
    IN  Settled \o Region(SubSeq(pending_tokens, 1, match), "confirmed")
                \o Region(SubSeq(From(pending_tokens, match + 1), 1,
                                 IF match < Len(pending_tokens) THEN 1 ELSE 0), "rejected")
                \o Region(From(accepted, match + 1), "confirmed")

handle_accepted(tokens) ==
    /\ transcript' = transcript \o Region(tokens, "confirmed")
    /\ UNCHANGED pending_tokens

handle_draft(tokens) ==
    /\ transcript' = transcript \o Region(tokens, "pending")
    /\ pending_tokens' = IF tokens = << >> THEN pending_tokens ELSE tokens

handle_verdict(accepted) ==
    /\ transcript' = IF pending_tokens = << >>
                     THEN transcript \o Region(accepted, "confirmed")
                     ELSE Judged(accepted)
    /\ pending_tokens' = << >>

\* Mutant: the pending block outlives its generation.
handle_reset_KeepsPending == transcript' = << >> /\ UNCHANGED pending_tokens

handle_reset == transcript' = << >> /\ pending_tokens' = << >>

\* worker_loop takes the oldest event.
Worker ==
    /\ queue # << >>
    /\ queue' = Tail(queue)
    /\ LET ev == Head(queue)
       IN  \/ ev.type = "accepted" /\ handle_accepted(ev.tokens)
           \/ ev.type = "draft"    /\ handle_draft(ev.tokens)
           \/ ev.type = "verdict"  /\ handle_verdict(ev.tokens)
           \/ ev.type = "reset"    /\ handle_reset

-----------------------------------------------------------------------------
\* The text of the regions in a state, one after the other.
Shown(st) == FlattenSeq([i \in 1 .. Len(transcript) |->
                            IF transcript[i].st = st THEN transcript[i].text ELSE << >>])
=============================================================================
