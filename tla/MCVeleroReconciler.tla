------------------------ MODULE MCVeleroReconciler ------------------------
(***************************************************************************)
(* Values of the constants of VeleroReconciler for TLC.                    *)
(***************************************************************************)
EXTENDS ClusterAccess

CONSTANTS crd, p1, v1, bad

NoCrds      == {}
OneCrd      == {crd}
OneSecret   == {p1}

Specs1      == {v1}
SpecsBad    == {v1, bad}
Supported1  == {v1}

NoDrift     == {}
DriftBoth   == {"wlNs", "sa"}
===========================================================================
