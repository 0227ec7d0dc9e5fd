--------------------------- MODULE MCDsparkEngine ---------------------------
(***************************************************************************)
(* A draft context of five cells, runs of up to three packets injected in  *)
(* chunks of two, and a block of two: a run that spans two chunks, a chunk *)
(* that fails after another went in, a run that does not continue the      *)
(* cache and a full context all occur.                                     *)
(***************************************************************************)
EXTENDS DsparkEngine
=============================================================================
