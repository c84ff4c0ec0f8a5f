------------------------------- MODULE Clock --------------------------------
(***************************************************************************)
(* The time that limits on callers and statistics are measured by, in a    *)
(* unit their modules choose.  It runs to MaxTime, a bound of the model.   *)
(***************************************************************************)
EXTENDS Naturals

CONSTANT MaxTime

ASSUME TimeAssumption == MaxTime \in Nat

VARIABLE now

Tick == now < MaxTime /\ now' = now + 1

=============================================================================
