--------------------------- MODULE MCQueryWindow ---------------------------
(***************************************************************************)
(* The instances of QueryWindow that TLC checks: an interval of four       *)
(* seconds, a duration of two intervals and filters on, before and after   *)
(* the borders of intervals.                                               *)
(***************************************************************************)
EXTENDS QueryWindow

MCStamps == {-1, 1, 4, 6, 7, 8, 9, 12, 15}
MCTimes  == 0..20
=============================================================================
