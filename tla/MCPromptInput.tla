--------------------------- MODULE MCPromptInput ---------------------------
(***************************************************************************)
(* An instance of PromptInput, with and without a provider.  Two           *)
(* submissions overlap, the second beginning and ending before or after    *)
(* the first; a screenshot is asked for under either.  A single file fills *)
(* the input, so that a second one is already too many; the input is       *)
(* mounted twice, so that what the first one began can end in the second.  *)
(***************************************************************************)
EXTENDS PromptInput
MCBatch == {<<"good">>, <<"good", "good">>, <<"other type", "good", "too large">>}
=============================================================================
