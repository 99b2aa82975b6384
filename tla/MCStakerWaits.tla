--------------------------- MODULE MCStakerWaits ---------------------------
(***************************************************************************)
(* One get_sigs handler, enough to block the only thread the executor      *)
(* starts with; two connections of which one may be lost.                  *)
(***************************************************************************)
EXTENDS StakerWaits

MCHandlers == {"sigs"}
MCTasks == {"round", "skip", "sync", "sigs"}
=============================================================================
