----------------------------- MODULE MCNodeRpc -----------------------------
(***************************************************************************)
(* One client beside the self-test, caches of one entry, and one power     *)
(* failure.                                                                *)
(***************************************************************************)
EXTENDS NodeRpc
=============================================================================
