------------------------ MODULE MCInstanceIdentity ------------------------
(***************************************************************************)
(* Values of the constants of InstanceIdentity for TLC.                    *)
(***************************************************************************)
EXTENDS InstanceIdentity

CONSTANTS a, b

TwoVeleros == {a, b}
===========================================================================
