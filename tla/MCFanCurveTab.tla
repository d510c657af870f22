--------------------------- MODULE MCFanCurveTab ---------------------------
(* A small instance of FanCurveTab for TLC.  The points of the table that
   profiles begin with are a degree apart and next to the limits; the tables
   of the profiles differ as soon as one of them is saved. *)
EXTENDS FanCurveTab

CONSTANTS p, q

OneTable == {<<P(60, 2), P(61, 98)>>}
=============================================================================
