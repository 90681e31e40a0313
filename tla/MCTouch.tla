------------------------------ MODULE MCTouch ------------------------------
(***************************************************************************)
(* Instance of Touch for TLC.                                              *)
(***************************************************************************)
EXTENDS Touch

MCYear1900 == -9

Reading(l, d, s, u) == [local |-> l, standard |-> d, system |-> s, utc |-> u]

\* In winter with TZ another zone than the system's, under UTC throughout, and
\* in summer, when standard time and UTC are an hour behind local time.
MCReadings ==
  {Reading(5, 5, 4, 3), Reading(5, 5, 5, 5), Reading(5, 6, 5, 6)}

\* A ref_file of today, whose seconds are no valid nanoseconds, and an old one.
MCRefTimes == {<<20, 21>>, <<2, 3>>}
=============================================================================
