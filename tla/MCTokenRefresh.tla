--------------------------- MODULE MCTokenRefresh ---------------------------
(***************************************************************************)
(* Values of the constants of TokenRefresh for TLC.                        *)
(***************************************************************************)
EXTENDS TokenRefresh

\* With a poll interval of 3 and a safeguard of 4: shorter than both together,
\* so that every pass refreshes, and longer.
Granted    == {6, 9}
HourOnly   == {6}
=============================================================================
