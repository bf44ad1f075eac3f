------------------------- MODULE MCImageResolution -------------------------
(***************************************************************************)
(* Values of the constants of ImageResolution for TLC.                     *)
(***************************************************************************)
EXTENDS ImageResolution

CONSTANTS aws, here, there

\* The versions on both sides of both ends of the window.
EdgeVersions == {[minor |-> 16, pre |-> TRUE], [minor |-> 16, pre |-> FALSE],
                 [minor |-> 19, pre |-> TRUE], [minor |-> 19, pre |-> FALSE]}

OnePlugin    == {aws}
TwoLocations == {here, there}
OneLocation  == {here}
=============================================================================
