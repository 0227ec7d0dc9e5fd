----------------------------- MODULE MCLiveSync -----------------------------
(***************************************************************************)
(* An instance of LiveSync.  Two polls of each kind are under way beside   *)
(* the stream's events, so that an answer can be overtaken by a later      *)
(* poll's.  Two things happen at the host or its server; a start is up to  *)
(* four lines and states of one turn, so that two fill the two lines that  *)
(* the manager keeps of a program and the page of all, and a backlog of    *)
(* one line leaves lines out.  One thing breaks: the stream, an answer or  *)
(* the dashboard itself.                                                   *)
(***************************************************************************)
EXTENDS LiveSync
=============================================================================
