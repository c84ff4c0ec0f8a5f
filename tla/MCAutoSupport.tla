--------------------------- MODULE MCAutoSupport ----------------------------
(***************************************************************************)
(* Instances of AutoSupport for TLC.                                       *)
(***************************************************************************)
EXTENDS AutoSupport

=============================================================================
