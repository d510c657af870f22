----------------------------- MODULE MCFanCurve -----------------------------
(***************************************************************************)
(* interpolate_fan_curve over every table of up to MaxPoints points with   *)
(* the given temperatures and speeds, in any order, swept from below its   *)
(* lowest to above its highest temperature.                                *)
(***************************************************************************)
EXTENDS FanCurve

CONSTANTS SomeTemps, SomeSpeeds, MaxPoints, Lowest, Highest

ASSUME SweepAssumption ==
  /\ SomeTemps \subseteq Byte /\ SomeSpeeds \subseteq Byte
  /\ MaxPoints \in Nat
  /\ Lowest \in Int /\ Highest \in Int

VARIABLES table, reading

vars == <<table, reading>>

SomePoint == [temp : SomeTemps, speed : SomeSpeeds]

Init ==
  /\ table \in UNION {[1 .. n -> SomePoint] : n \in 0 .. MaxPoints}
  /\ reading = Lowest

(* The CPU warms up by the smallest amount a reading can show. *)
Warm ==
  /\ reading < Highest
  /\ reading' = reading + 1
  /\ UNCHANGED table

Spec == Init /\ [][Warm]_vars

(* The speed never leaves the range of the speeds of the table, whatever the
   order of its points: no sign, rounding or segment of a table can make the
   fan slower than its slowest or faster than its fastest point. *)
WithinTable ==
  table # << >> =>
    /\ \E i \in 1 .. Len(table) : table[i].speed <= Interpolate(table, reading)
    /\ \E i \in 1 .. Len(table) : table[i].speed >= Interpolate(table, reading)

(* On a table with distinct temperatures in order, the curve goes through
   every point. *)
ThroughPoints ==
  StrictlySorted(table) =>
    \A i \in 1 .. Len(table) :
      reading = At(table[i]) => Interpolate(table, reading) = table[i].speed

(* A warmer CPU never gets a slower fan, on a table whose speeds rise; its
   temperatures may repeat, and need not even be in order. *)
NeverSlowerWhenWarmer ==
  [][SpeedsRise(table)
       => Interpolate(table, reading) <= Interpolate(table', reading')]_vars
=============================================================================
