---------------------------- MODULE MCRemoteImpl ----------------------------
(***************************************************************************)
(* The server against an edge that may answer anything: two generations on *)
(* one slot, so that the second can reuse part of the first's context, and *)
(* a context long enough that a draft follows an accepted, a rejected and  *)
(* a failed one.  Prompts may hold embedding positions: of these "server"  *)
(* says nothing but that they are shipped once and in order, and           *)
(* "embeddings" shows what is shipped for them.                            *)
(***************************************************************************)
EXTENDS RemoteImpl, TLC

Permuted == Permutations(Vocabulary)
=============================================================================
