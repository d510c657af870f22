------------------------------ MODULE MCDaemon ------------------------------
(* Small instances of Daemon for TLC. *)
EXTENDS Daemon

CONSTANTS d1, d2, a, fb, f1, c1, c2, t1, t2

(* A profile with both tables and every CPU setting, and one without a table
   for the GPU fan and without an energy preference. *)
Full(c, t) == [control |-> TRUE, cpu |-> c, gpu |-> c,
               tuning |-> [k \in Tunables |-> t]]
Partial(c, t) ==
  [control |-> TRUE, cpu |-> c, gpu |-> None,
   tuning |-> [governor |-> t, turbo |-> t, epp |-> None]]

BuiltInIds == <<d1, d2>>
BuiltIns   == <<Full(c1, t1), Partial(c2, t2)>>
CurvesOnly == <<Partial(c1, t1), Partial(c2, t1)>>

OneBuiltInId == <<d1>>
OnePartial   == <<Partial(c1, t1)>>

(* set_fan_curve may give each of them any of the curves. *)
WithCurves(bodies) ==
  bodies \cup {[b EXCEPT !.cpu = c] : b \in bodies, c \in Curves}

TwoBodies  == WithCurves({Full(c1, t1), Partial(c2, t2)})
TwoCurves  == WithCurves({Partial(c1, t1)})
=============================================================================
