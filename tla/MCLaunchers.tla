---------------------------- MODULE MCLaunchers ----------------------------
(***************************************************************************)
(* Instance of Launchers for TLC: nice values with -1 among them, and      *)
(* increments that stay in the range and that do not.                      *)
(***************************************************************************)
EXTENDS Launchers

MCIncrement == {-4, -1, 1, 2, 9}
MCLowest == -3
=============================================================================
