--------------------------- MODULE MCDiffExchange ---------------------------
(***************************************************************************)
(* Three stakers, of whom two decide: s1 and s2 know each other; s3 knows  *)
(* s1, where it has to share a queue of one place with s2, and itself, and *)
(* can be left behind.                                                     *)
(***************************************************************************)
EXTENDS DiffExchange

CONSTANTS s1, s2, s3

MCRoutes == [s \in Stakers |-> CASE s = s1 -> {s2} [] s = s2 -> {s1} [] s = s3 -> {s1, s3}]
=============================================================================
