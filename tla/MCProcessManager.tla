-------------------------- MODULE MCProcessManager --------------------------
(***************************************************************************)
(* Three children over all: the server, the daemon and a restart of either *)
(* or a second generation of one; two handlers at a time.                  *)
(***************************************************************************)
EXTENDS ProcessManager
=============================================================================
