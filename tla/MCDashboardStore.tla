-------------------------- MODULE MCDashboardStore --------------------------
(***************************************************************************)
(* An instance of DashboardStore.  One call of each kind is enough for a   *)
(* save, a start and a stop to overtake each other and the load; two edits *)
(* for one made before a call and one under it; one lost call.  Two        *)
(* numbers are edited by hand beside the presets and the other fields they *)
(* stand for (DashboardConfig).                                            *)
(***************************************************************************)
EXTENDS DashboardStore
=============================================================================
