--------------------------- MODULE MCRemoteDspark ---------------------------
(***************************************************************************)
(* Server, network and daemon with one or two faults of chosen kinds on    *)
(* calls of chosen kinds, so that each run asks what one sort of failure   *)
(* does.  Contexts of four and five tokens hold a prompt and up to three   *)
(* drafts: one before the fault, one that meets it, one after it.  Both    *)
(* sides have the same context size, as in run_demo.sh and the presets.    *)
(***************************************************************************)
EXTENDS RemoteDspark
=============================================================================
