------------------------------ MODULE FanCurve ------------------------------
(***************************************************************************)
(* Fan curves (tccd-daemon/src/workers/fan.rs): the speed a table of       *)
(* <temperature, speed> points prescribes at a temperature.                *)
(*                                                                         *)
(* Temperatures of a table are whole degrees and speeds whole percents,    *)
(* both u8; nothing keeps a client from sending an empty table, one whose  *)
(* points are out of order or repeat a temperature, or speeds above 100.   *)
(* A reading is a number of 1/Unit degrees: the kernel reports             *)
(* millidegrees.  The code computes with f64 where this module computes    *)
(* with exact fractions; the two can differ only where the fraction is     *)
(* within a rounding error of a half.                                      *)
(***************************************************************************)
EXTENDS Integers, Sequences

CONSTANT Unit   \* readings per degree

ASSUME UnitAssumption == Unit \in Nat \ {0}

Byte == 0 .. 255

(* FanTableEntry *)
Point == [temp : Byte, speed : Byte]
Table == Seq(Point)

(* The temperature of a point, as a reading. *)
At(p) == p.temp * Unit

(* Half away from zero, the rounding of f64::round, of a fraction that is not
   negative. *)
Rounded(num, den) == (2 * num + den) \div (2 * den)

(* Mutant of Between: the fraction is taken from the upper point. *)
BetweenReversed(lo, hi, t) ==
  LET range == At(hi) - At(lo) IN
  IF range = 0
  THEN hi.speed
  ELSE Rounded(lo.speed * range + (At(hi) - t) * (hi.speed - lo.speed), range)

(* The line from lo to hi at the reading t, rounded. *)
Between(lo, hi, t) ==
  LET range == At(hi) - At(lo) IN
  IF range = 0
  THEN hi.speed
  ELSE Rounded(lo.speed * range + (t - At(lo)) * (hi.speed - lo.speed), range)

(* The first point after the first one that is not below the reading. *)
IsUpper(table, t, i) ==
  /\ t <= At(table[i])
  /\ \A j \in 2 .. i - 1 : At(table[j]) < t

Upper(table, t) == CHOOSE i \in 2 .. Len(table) : IsUpper(table, t, i)

(* Mutants of interpolate_fan_curve: the segment starts one point too early;
   above the last point the curve goes on from the first. *)
InterpolateFromFirst(table, t) ==
  IF table = << >> THEN 0
  ELSE IF Len(table) = 1 \/ t <= At(table[1]) THEN table[1].speed
  ELSE IF t >= At(table[Len(table)]) THEN table[Len(table)].speed
  ELSE Between(table[1], table[Upper(table, t)], t)

InterpolateWrapping(table, t) ==
  IF table = << >> THEN 0
  ELSE IF Len(table) = 1 \/ t <= At(table[1]) THEN table[1].speed
  ELSE IF t > At(table[Len(table)]) THEN 0
  ELSE Between(table[Upper(table, t) - 1], table[Upper(table, t)], t)

(* interpolate_fan_curve *)
Interpolate(table, t) ==
  IF table = << >> THEN 0
  ELSE IF Len(table) = 1 \/ t <= At(table[1]) THEN table[1].speed
  ELSE IF t >= At(table[Len(table)]) THEN table[Len(table)].speed
  ELSE Between(table[Upper(table, t) - 1], table[Upper(table, t)], t)

-----------------------------------------------------------------------------
(* What a table has to be for the curve to rise with the temperature, and to go
   through each of its points.  The daemon checks neither. *)

SpeedsRise(table) ==
  \A i, j \in 1 .. Len(table) : i < j => table[i].speed <= table[j].speed

StrictlySorted(table) ==
  \A i, j \in 1 .. Len(table) : i < j => table[i].temp < table[j].temp
=============================================================================
