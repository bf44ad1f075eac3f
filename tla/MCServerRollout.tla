-------------------------- MODULE MCServerRollout --------------------------
(***************************************************************************)
(* Values of the constants of ServerRollout for TLC.                       *)
(***************************************************************************)
EXTENDS ServerRollout

CONSTANTS i1, i2

TwoImages == {i1, i2}
===========================================================================
