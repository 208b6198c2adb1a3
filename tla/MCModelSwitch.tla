---------------------------- MODULE MCModelSwitch ----------------------------
(* Two models of different dimensions, one of them in the environment.        *)
EXTENDS ModelSwitch
CONSTANTS f, t
Sizes == [p \in Pins |-> IF p = f THEN 1 ELSE 2]
=============================================================================
