----------------------------- MODULE MCMetrics -----------------------------
(***************************************************************************)
(* An instance of Metrics for TLC: half seconds, windows of two seconds.   *)
(* The ranges lie before hilt's now, across it, within the second it is in *)
(* and after it, or have no whole second in them.                          *)
(***************************************************************************)
EXTENDS Metrics

MCAsked == {<<1, 7>>, <<1, 14>>, <<3, 12>>, <<7, 9>>, <<8, 14>>, <<10, 14>>, <<2, 3>>}
=============================================================================
