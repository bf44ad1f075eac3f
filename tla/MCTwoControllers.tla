------------------------- MODULE MCTwoControllers -------------------------
(***************************************************************************)
(* Values of the constants of TwoControllers for TLC.                      *)
(***************************************************************************)
EXTENDS TwoControllers

CONSTANT v1

NoCrds     == {}
NoSecrets  == {}
Specs1     == {v1}
NoDrift    == {}
===========================================================================
