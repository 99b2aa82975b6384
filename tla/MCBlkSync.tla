----------------------------- MODULE MCBlkSync -----------------------------
(***************************************************************************)
(* Two peers and five heights.  The third block alone exceeds the limit,   *)
(* the first two fit exactly, the last two do not fit together.            *)
(***************************************************************************)
EXTENDS BlkSync

MCSize == <<1, 2, 5, 2, 2>>
=============================================================================
