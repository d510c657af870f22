---------------------------- MODULE MCFanControl ----------------------------
(* Small instances of FanControl for TLC. *)
EXTENDS FanControl

P(t, s) == [temp |-> t, speed |-> s]

(* A rising curve, and one that is out of order and asks for more than the fan
   can do. *)
Rising   == <<P(55, 30), P(70, 85)>>
Unsorted == <<P(60, 90), P(45, 20), P(80, 140)>>

TwoCurves == {Rising, Unsorted}
=============================================================================
