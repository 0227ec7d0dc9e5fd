--------------------------- MODULE MCDraftService ---------------------------
(***************************************************************************)
(* The daemon with two servers, for its locks, and with one, for its       *)
(* preview.  Six calls of a server are the handshake and a generation up   *)
(* to its third Draft, and a Reset may come between any two; with eight    *)
(* the other server makes its handshake and a Reset, or both come to a     *)
(* Draft.                                                                  *)
(***************************************************************************)
EXTENDS DraftService
=============================================================================
