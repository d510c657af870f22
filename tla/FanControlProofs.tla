-------------------------- MODULE FanControlProofs --------------------------
(***************************************************************************)
(* Theorems about FanControl, for any interface to the hardware, curves,   *)
(* temperatures and duties to start from.                                  *)
(***************************************************************************)
EXTENDS FanControl, TLAPS

-----------------------------------------------------------------------------
(* What is known of the curves, with nothing to sweep *)

CurveP == INSTANCE FanCurveProofs
            WITH SomeTemps <- {}, SomeSpeeds <- {}, MaxPoints <- 0, Lowest <- 0,
                 Highest <- 0, table <- << >>, reading <- 0

LEMMA SameCurve ==
  /\ CurveP!Byte = Byte /\ CurveP!Point = Point /\ CurveP!Table = Table
  /\ \A table, t : CurveP!Interpolate(table, t) = Interpolate(table, t)
BY DEF CurveP!Byte, CurveP!Point, CurveP!Table, CurveP!Interpolate, CurveP!At,
  CurveP!Upper, CurveP!IsUpper, CurveP!Between, CurveP!Rounded,
  Byte, Point, Table, Interpolate, At, Upper, IsUpper, Between, Rounded

(* A curve prescribes a number, never less than the speed of some point. *)
LEMMA CurveFacts ==
  ASSUME NEW table \in Table, NEW t \in Int
  PROVE  /\ Interpolate(table, t) \in Int
         /\ table # << >> =>
              \E i \in 1 .. Len(table) : table[i].speed <= Interpolate(table, t)
<1>1. {} \subseteq CurveP!Byte /\ 0 \in Nat /\ 0 \in Int OBVIOUS
<1>2. CurveP!Interpolate(table, t) \in Int
  BY <1>1, UnitAssumption, SameCurve, CurveP!InterpolateInt
<1>3. ASSUME table # << >>
      PROVE  \E i, j \in 1 .. Len(table) :
               /\ table[i].speed <= CurveP!Interpolate(table, t)
               /\ CurveP!Interpolate(table, t) <= table[j].speed
  BY <1>1, <1>3, UnitAssumption, SameCurve, CurveP!InterpolateWithin
<1>q. QED BY <1>2, <1>3, SameCurve

LEMMA Points ==
  ASSUME NEW table \in Table
  PROVE  /\ Len(table) \in Nat
         /\ table # << >> => Len(table) # 0
         /\ \A i \in 1 .. Len(table) : table[i].speed \in Byte /\ table[i].speed \in Nat
<1>1. table \in Seq(Point) BY DEF Table
<1>2. \A p \in Point : p.speed \in Byte BY DEF Point
<1>3. Byte \subseteq Nat BY DEF Byte
<1>4. /\ Len(table) \in Nat
      /\ table # << >> => Len(table) # 0
      /\ \A i \in 1 .. Len(table) : table[i] \in Point
  BY <1>1
<1>q. QED BY <1>2, <1>3, <1>4

(* A nonempty set of natural numbers has a least element. *)
LEMMA LeastNumber ==
  ASSUME NEW T \in SUBSET Nat, T # {}
  PROVE  \E n \in T : \A m \in T : n <= m
BY UnitAssumption, CurveP!LeastNumber

-----------------------------------------------------------------------------
(* Numbers *)

Scales == {200, 255}

(* The conversion to a duty and back is exact on percents. *)
LEMMA RoundTrip ==
  ASSUME NEW scale \in Scales, NEW c \in 0 .. 100
  PROVE  /\ Rounded(c * scale, 100) \in 0 .. scale
         /\ Rounded(Rounded(c * scale, 100) * 100, scale) = c
<1>1. CASE scale = 200
  <2> DEFINE d == Rounded(c * 200, 100)
  <2>1. d = 2 * c BY DEF Rounded
  <2> HIDE DEF d
  <2>2. Rounded(d * 100, 200) = c BY <2>1 DEF Rounded
  <2>q. QED BY <1>1, <2>1, <2>2 DEF d
<1>2. CASE scale = 255
  <2> DEFINE d == Rounded(c * 255, 100)
  <2>1. /\ d \in Int /\ 200 * d <= 510 * c + 100 /\ 510 * c + 100 < 200 * d + 200
    BY DEF Rounded
  <2> HIDE DEF d
  <2>2. d \in 0 .. 255 BY <2>1
  <2>3. Rounded(d * 100, 255) = c BY <2>1 DEF Rounded
  <2>q. QED BY <1>2, <2>2, <2>3 DEF d
<1>q. QED BY <1>1, <1>2 DEF Scales

LEMMA PercentRange ==
  ASSUME NEW scale \in Scales, NEW d \in 0 .. scale
  PROVE  Rounded(d * 100, scale) \in 0 .. 100
<1>1. CASE scale = 200 BY <1>1 DEF Rounded
<1>2. CASE scale = 255 BY <1>2 DEF Rounded
<1>q. QED BY <1>1, <1>2 DEF Scales

LEMMA Clamping ==
  ASSUME NEW s \in Int
  PROVE  Clamped(s) \in 0 .. 100 /\ (s \in 0 .. 100 => Clamped(s) = s)
BY DEF Clamped

(* A step goes to the target or 20 points towards it. *)
LEMMA Stepping ==
  ASSUME NEW c \in 0 .. 100, NEW t \in Int, c # t
  PROVE  LET s == StepTowards(c, t) IN
         /\ s \in Int
         /\ Distance(c, Clamped(s)) <= 20
         /\ \/ Clamped(s) = Clamped(t)
            \/ Distance(Clamped(s), Clamped(t)) < Distance(c, Clamped(t))
         /\ \A low \in 0 .. 100 : low <= c /\ low <= t => low <= Clamped(s)
BY DEF StepTowards, Clamped, Distance

-----------------------------------------------------------------------------
(* The hardware *)

LEMMA Interfaces ==
  ASSUME io \in Families
  PROVE  FanCount \in 1 .. 8 /\ Scale \in Scales /\ CpuFan \in Fans
BY FanAssumption DEF FanCount, Scale, Scales, CpuFan, Fans

LEMMA Duties ==
  ASSUME io \in Families, NEW s \in Int
  PROVE  ToDuty(s) \in 0 .. Scale /\ ToPercent(ToDuty(s)) = Clamped(s)
BY Interfaces, Clamping, RoundTrip DEF ToDuty, ToPercent

LEMMA Percents ==
  ASSUME io \in Families, NEW d \in 0 .. Scale
  PROVE  ToPercent(d) \in 0 .. 100
BY Interfaces, PercentRange DEF ToPercent

(* A mode asks for a number. *)
LEMMA Targets ==
  ASSUME NEW m \in Mode, m # NoMode, NEW t \in Int
  PROVE  /\ Target(m, t) \in Int
         /\ m.kind = "curve" => m.table \in Table /\ Target(m, t) = Interpolate(m.table, t)
<1>1. CASE m \in {Manual(s) : s \in Byte}
  <2>1. PICK s \in Byte : m = Manual(s) BY <1>1
  <2>q. QED BY <2>1 DEF Manual, Target, Byte
<1>2. CASE m \in {Curve(c) : c \in Curves}
  <2>1. PICK c \in Curves : m = Curve(c) BY <1>2
  <2>2. c \in Table BY FanAssumption
  <2>3. m.kind = "curve" /\ m.table = c BY <2>1 DEF Curve
  <2>4. Target(m, t) = Interpolate(c, t) BY <2>3 DEF Target
  <2>q. QED BY <2>2, <2>3, <2>4, CurveFacts
<1>q. QED BY <1>1, <1>2 DEF Mode

-----------------------------------------------------------------------------
(* Types *)

LEMMA InitTypes == Init => TypeOK
<1>1. SUFFICES ASSUME Init PROVE TypeOK OBVIOUS
<1>2. io \in Families BY <1>1 DEF Init
<1>3. FanCount \in 1 .. 8 /\ Scale \in Scales /\ CpuFan \in Fans BY <1>2, Interfaces
<1>4. duty \in [Fans -> 0 .. Scale] BY <1>1 DEF Init
<1>5. modes \in [Keys -> Mode]
  <2>1. PICK s \in SpeedRead(CpuFan, Faults) :
          modes = [f \in Keys |-> IF f = CpuFan THEN Manual(s) ELSE NoMode]
    BY <1>1 DEF Init
  <2>2. ToPercent(duty[CpuFan]) \in 0 .. 100 BY <1>2, <1>3, <1>4, Percents
  <2>3. s \in Byte BY <2>1, <2>2 DEF SpeedRead, Byte
  <2>4. Manual(s) \in Mode /\ NoMode \in Mode BY <2>3 DEF Mode
  <2>q. QED BY <2>1, <2>4
<1>6. driven \in {1, FanCount} /\ fan \in 0 .. driven
  <2>1. driven \in {1, FanCount} /\ fan = 0 BY <1>1 DEF Init
  <2>q. QED BY <1>3, <2>1
<1>q. QED BY <1>1, <1>2, <1>4, <1>5, <1>6 DEF Init, TypeOK

(* The fan the task drives is one of the hardware. *)
LEMMA DrivenIsFan ==
  ASSUME TypeOK, fan < driven
  PROVE  fan \in Fans /\ fan \in Keys /\ driven \in Nat
BY Interfaces DEF TypeOK, Fans, Keys

LEMMA SetFanSpeedTypes ==
  ASSUME TypeOK, NEW f \in Fans, NEW s \in Int, SetFanSpeed(f, s, Faults)
  PROVE  duty' \in [Fans -> 0 .. Scale]
<1>1. ToDuty(s) \in 0 .. Scale /\ 0 \in 0 .. Scale /\ duty \in [Fans -> 0 .. Scale]
  BY Duties, Interfaces DEF TypeOK, Scales
<1>2. CASE duty' = [duty EXCEPT ![f] = ToDuty(s)] BY <1>1, <1>2
<1>3. CASE \E lost \in SUBSET Fans :
             duty' = [g \in Fans |-> IF g = f THEN ToDuty(s)
                                     ELSE IF g \in lost THEN 0 ELSE duty[g]]
  BY <1>1, <1>3
<1>4. CASE UNCHANGED duty BY <1>1, <1>4
<1>q. QED BY <1>2, <1>3, <1>4 DEF SetFanSpeed

LEMMA DriveFanTypes ==
  ASSUME TypeOK, DriveFan(Faults)
  PROVE  TypeOK'
<1>1. fan \in Fans /\ fan \in Keys /\ driven \in Nat BY DrivenIsFan DEF DriveFan
<1>2. duty' \in [Fans -> 0 .. Scale]
  <2>1. CASE UNCHANGED duty BY <2>1 DEF TypeOK
  <2>2. CASE modes[fan] # NoMode /\ duty' # duty
    <3>1. PICK current \in SpeedRead(fan, Faults) :
            SetFanSpeed(fan, StepTowards(current, Target(modes[fan], sample)), Faults)
      BY <2>2 DEF DriveFan
    <3>2. Target(modes[fan], sample) \in Int BY <1>1, <2>2, Targets DEF TypeOK
    <3>3. ToPercent(duty[fan]) \in 0 .. 100 BY <1>1, Percents DEF TypeOK
    <3>4. current \in Int BY <3>1, <3>3 DEF SpeedRead
    <3>5. StepTowards(current, Target(modes[fan], sample)) \in Int
      BY <3>2, <3>4 DEF StepTowards
    <3>q. QED BY <1>1, <3>1, <3>5, SetFanSpeedTypes
  <2>q. QED BY <2>1, <2>2 DEF DriveFan
<1>3. /\ UNCHANGED <<io, modes, cpuTemp, driven, phase, sample>>
      /\ fan' = fan + 1 /\ fan < driven
  BY DEF DriveFan
<1>4. fan' \in 0 .. driven BY <1>1, <1>3 DEF TypeOK
<1>5. /\ Fans' = Fans /\ Scale' = Scale /\ Keys' = Keys /\ FanCount' = FanCount
  BY <1>3 DEF Fans, Scale, Keys, FanCount
<1>q. QED BY <1>2, <1>3, <1>4, <1>5 DEF TypeOK

LEMMA SetModeTypes ==
  ASSUME TypeOK, NEW f \in Keys, NEW m \in Mode, SetMode(f, m)
  PROVE  TypeOK'
<1>1. UNCHANGED <<io, duty, cpuTemp, driven, phase, sample, fan>> BY DEF SetMode
<1>2. modes' \in [Keys -> Mode] BY DEF SetMode, TypeOK
<1>3. /\ Fans' = Fans /\ Scale' = Scale /\ Keys' = Keys /\ FanCount' = FanCount
  BY <1>1 DEF Fans, Scale, Keys, FanCount
<1>q. QED BY <1>1, <1>2, <1>3 DEF TypeOK

LEMMA NextTypes == TypeOK /\ [Next]_vars => TypeOK'
<1>1. SUFFICES ASSUME TypeOK, [Next]_vars PROVE TypeOK' OBVIOUS
<1>2. CpuFan \in Keys /\ GpuFan \in Keys BY DEF Keys
<1>3. io' = io => /\ Fans' = Fans /\ Scale' = Scale /\ Keys' = Keys
                  /\ FanCount' = FanCount
  BY DEF Fans, Scale, Keys, FanCount
<1>4. CASE DriveFan(Faults) BY <1>1, <1>4, DriveFanTypes
<1>5. ASSUME NEW s \in ManualSpeeds, SetManualSpeed(s) PROVE TypeOK'
  <2>1. Manual(s) \in Mode BY FanAssumption DEF Mode
  <2>q. QED BY <1>1, <1>2, <1>5, <2>1, SetModeTypes DEF SetManualSpeed
<1>6. ASSUME NEW c \in Curves, SetCpuCurve(c) \/ SetGpuCurve(c) PROVE TypeOK'
  <2>1. Curve(c) \in Mode BY DEF Mode
  <2>q. QED BY <1>1, <1>2, <1>6, <2>1, SetModeTypes DEF SetCpuCurve, SetGpuCurve
<1>7. CASE Sample(Faults)
  <2>1. /\ sample' \in {cpuTemp, 50 * Unit} /\ phase' = "sampled"
        /\ UNCHANGED <<io, modes, duty, cpuTemp, driven, fan>>
    BY <1>7 DEF Sample
  <2>2. sample' \in Int BY <1>1, <2>1, FanAssumption, UnitAssumption DEF TypeOK
  <2>q. QED BY <1>1, <1>3, <2>1, <2>2 DEF TypeOK
<1>8. CASE Lock
  <2>1. /\ fan' = 0 /\ phase' = "driving"
        /\ UNCHANGED <<io, modes, duty, cpuTemp, driven, sample>>
    BY <1>8 DEF Lock
  <2>2. driven \in Nat BY <1>1, Interfaces DEF TypeOK
  <2>3. fan' \in 0 .. driven BY <2>1, <2>2
  <2>q. QED BY <1>1, <1>3, <2>1, <2>3 DEF TypeOK
<1>9. CASE Unlock BY <1>1, <1>3, <1>9 DEF Unlock, TypeOK
<1>10. CASE Heat BY <1>1, <1>3, <1>10 DEF Heat, TypeOK
<1>11. CASE UNCHANGED vars BY <1>1, <1>3, <1>11 DEF vars, TypeOK
<1>q. QED
  BY <1>1, <1>4, <1>5, <1>6, <1>7, <1>8, <1>9, <1>10, <1>11 DEF Next, Tick

(* Every variable keeps its type: no target, no rounding and no failure makes a
   duty the hardware does not have (TypeOK). *)
THEOREM TypeCorrect == Spec => []TypeOK
BY InitTypes, NextTypes, PTL DEF Spec

-----------------------------------------------------------------------------
(* How a fan moves *)

(* Without an unreadable speed, a step changes no fan but the one the task is at,
   and that one as a step towards its target says. *)
LEMMA Moves ==
  ASSUME TypeOK, "read" \notin Faults, [Next]_vars, NEW f \in Fans
  PROVE  /\ io' = io
         /\ Speed(f) \in 0 .. 100
         /\ duty'[f] = duty[f] => Speed(f)' = Speed(f)
         /\ duty'[f] # duty[f] =>
              LET target == Target(modes[f], sample) IN
              /\ f = fan /\ modes[f] \in Mode /\ modes[f] # NoMode
              /\ target \in Int /\ Speed(f) # target
              /\ Speed(f)' = Clamped(StepTowards(Speed(f), target))
<1>1. io' = io
  BY DEF Next, Tick, Sample, Lock, DriveFan, Unlock, Heat, SetManualSpeed, SetCpuCurve,
         SetGpuCurve, SetMode, vars
<1>2. Scale' = Scale BY <1>1 DEF Scale
<1>3. Speed(f) \in 0 .. 100 BY Percents DEF TypeOK, Speed
<1>4. duty'[f] = duty[f] => Speed(f)' = Speed(f) BY <1>2 DEF Speed, ToPercent
<1>5. ASSUME duty'[f] # duty[f]
      PROVE  LET target == Target(modes[f], sample) IN
              /\ f = fan /\ modes[f] \in Mode /\ modes[f] # NoMode
              /\ target \in Int /\ Speed(f) # target
              /\ Speed(f)' = Clamped(StepTowards(Speed(f), target))
  <2>1. DriveFan(Faults)
    BY <1>5 DEF Next, Tick, Sample, Lock, Unlock, Heat, SetManualSpeed, SetCpuCurve,
                SetGpuCurve, SetMode, vars
  <2>2. fan \in Fans /\ fan \in Keys BY <2>1, DrivenIsFan DEF DriveFan
  <2> DEFINE target == Target(modes[fan], sample)
             s == StepTowards(Speed(fan), target)
  <2>3. /\ modes[fan] # NoMode /\ Speed(fan) # target
        /\ SetFanSpeed(fan, s, Faults)
    BY <1>5, <2>1 DEF DriveFan, SpeedRead, Speed
  <2>4. modes[fan] \in Mode /\ target \in Int
    BY <2>2, <2>3, Targets DEF TypeOK
  <2>5. Speed(fan) \in 0 .. 100 BY <2>2, Percents DEF TypeOK, Speed
  <2> HIDE DEF target
  <2>6. s \in Int BY <2>3, <2>4, <2>5, Stepping
  <2> HIDE DEF s
  <2>7. f = fan /\ duty'[fan] = ToDuty(s)
    <3>1. duty \in [Fans -> 0 .. Scale] BY DEF TypeOK
    <3>2. CASE duty' = [duty EXCEPT ![fan] = ToDuty(s)] BY <1>5, <2>2, <3>1, <3>2
    <3>3. CASE duty' = [g \in Fans |-> IF g = fan THEN ToDuty(s)
                                       ELSE IF g \in {} THEN 0 ELSE duty[g]]
      BY <1>5, <2>2, <3>1, <3>3
    <3>q. QED BY <1>5, <2>3, <3>2, <3>3 DEF SetFanSpeed
  <2>8. Speed(f)' = ToPercent(ToDuty(s))
    <3>1. f = fan /\ duty'[f] = ToDuty(s) BY <2>7
    <3>2. Speed(f)' = Rounded(duty'[f] * 100, Scale) BY <1>2 DEF Speed, ToPercent
    <3>q. QED BY <3>1, <3>2 DEF ToPercent
  <2>9. ToPercent(ToDuty(s)) = Clamped(s) BY <2>6, Duties DEF TypeOK
  <2>q. QED BY <2>3, <2>4, <2>7, <2>8, <2>9 DEF s, target
<1>q. QED BY <1>1, <1>3, <1>4, <1>5

(* The lowest speed of a table is that of a point, and no curve gets below it. *)
LEMMA SlowestIsLow ==
  ASSUME NEW table \in Table, table # << >>
  PROVE  /\ Slowest(table) \in Nat
         /\ \A t \in Int : Slowest(table) <= Interpolate(table, t)
<1> DEFINE S(i) == table[i].speed
           T == {S(i) : i \in 1 .. Len(table)}
<1>1. /\ Len(table) \in Nat /\ Len(table) # 0 /\ 1 \in 1 .. Len(table)
      /\ \A i \in 1 .. Len(table) : S(i) \in Byte /\ S(i) \in Nat
  BY Points
<1>2. T \in SUBSET Nat /\ T # {} BY <1>1
<1>3. PICK n \in T : \A m \in T : n <= m
  <2> HIDE DEF T
  <2>q. QED BY <1>2, LeastNumber
<1>4. PICK k \in 1 .. Len(table) : n = S(k) BY <1>3
<1>5. \A i \in 1 .. Len(table) : n <= S(i) BY <1>3
<1>6. /\ Slowest(table) \in Byte
      /\ \A i \in 1 .. Len(table) : Slowest(table) <= table[i].speed
  <2>1. n \in Byte BY <1>1, <1>4
  <2>2. /\ \E i \in 1 .. Len(table) : n = table[i].speed
        /\ \A i \in 1 .. Len(table) : n <= table[i].speed
    BY <1>4, <1>5
  <2>q. QED BY <2>1, <2>2, Zenon DEF Slowest
<1>7. ASSUME NEW t \in Int PROVE Slowest(table) <= Interpolate(table, t)
  <2>2. PICK i \in 1 .. Len(table) : table[i].speed <= Interpolate(table, t)
    BY CurveFacts
  <2> DEFINE low == Slowest(table)
             s == table[i].speed
             v == Interpolate(table, t)
  <2>3. low \in Byte /\ low <= s /\ s <= v BY <1>6, <2>2, Zenon
  <2>4. s \in Nat /\ v \in Int BY <1>1, CurveFacts
  <2> HIDE DEF low, s, v
  <2>5. low <= v BY <2>3, <2>4 DEF Byte
  <2>q. QED BY <2>5 DEF low, v
<1>8. Slowest(table) \in Nat
  <2> DEFINE low == Slowest(table)
  <2>1. low \in Byte BY <1>6, Zenon
  <2> HIDE DEF low
  <2>2. low \in Nat BY <2>1 DEF Byte
  <2>q. QED BY <2>2 DEF low
<1>q. QED BY <1>7, <1>8, Zenon

LEMMA Apart == \A c \in Int : Distance(c, c) = 0
BY DEF Distance

LEMMA SmoothStep ==
  ASSUME TypeOK, "read" \notin Faults, [Next]_vars, NEW f \in Fans
  PROVE  Distance(Speed(f), Speed(f)') <= 20
<1>1. CASE duty'[f] = duty[f]
  <2>1. Speed(f)' = Speed(f) /\ Speed(f) \in Int BY <1>1, Moves
  <2>q. QED BY <2>1, Apart
<1>2. CASE duty'[f] # duty[f] BY <1>2, Moves, Stepping
<1>q. QED BY <1>1, <1>2

LEMMA ClosesStep ==
  ASSUME TypeOK, "read" \notin Faults, [Next]_vars, NEW f \in Fans, duty'[f] # duty[f]
  PROVE  LET target == Clamped(Target(modes[f], sample)) IN
         /\ f = fan
         /\ \/ Speed(f)' = target
            \/ Distance(Speed(f)', target) < Distance(Speed(f), target)
<1> DEFINE target == Target(modes[f], sample)
<1>1. /\ f = fan /\ target \in Int /\ Speed(f) \in 0 .. 100 /\ Speed(f) # target
      /\ Speed(f)' = Clamped(StepTowards(Speed(f), target))
  BY Moves
<1> HIDE DEF target
<1>2. \/ Speed(f)' = Clamped(target)
      \/ Distance(Speed(f)', Clamped(target)) < Distance(Speed(f), Clamped(target))
  BY <1>1, Stepping
<1>q. QED BY <1>1, <1>2 DEF target

LEMMA FloorStep ==
  ASSUME TypeOK, "read" \notin Faults, [Next]_vars, NEW f \in Fans,
         modes[f].kind = "curve", modes[f].table # << >>,
         Slowest(modes[f].table) <= Speed(f)
  PROVE  Slowest(modes[f].table) <= Speed(f)'
<1>1. CASE duty'[f] = duty[f] BY <1>1, Moves
<1>2. CASE duty'[f] # duty[f]
  <2> DEFINE target == Target(modes[f], sample)
  <2>1. /\ modes[f] \in Mode /\ modes[f] # NoMode /\ sample \in Int
        /\ target \in Int /\ Speed(f) \in 0 .. 100 /\ Speed(f) # target
        /\ Speed(f)' = Clamped(StepTowards(Speed(f), target))
    BY <1>2, Moves DEF TypeOK
  <2>2. modes[f].table \in Table /\ target = Interpolate(modes[f].table, sample)
    BY <2>1, Targets
  <2> HIDE DEF target
  <2>3. /\ Slowest(modes[f].table) \in Nat
        /\ Slowest(modes[f].table) <= target
        /\ Slowest(modes[f].table) <= Speed(f)
    BY <2>1, <2>2, SlowestIsLow
  <2> DEFINE low == Slowest(modes[f].table)
             c == Speed(f)
  <2>4. low \in Nat /\ low <= target /\ low <= c /\ c \in 0 .. 100
    BY <2>1, <2>3, Zenon
  <2> HIDE DEF low, c
  <2>5. low \in 0 .. 100 BY <2>1, <2>4
  <2>6. low <= Speed(f)' BY <2>1, <2>4, <2>5, Stepping DEF c
  <2>q. QED BY <2>6 DEF low
<1>q. QED BY <1>1, <1>2

-----------------------------------------------------------------------------

(* Whatever the targets, whichever handler changes a mode within a tick and however
   the hardware counts its duties: no step moves a fan by more than 20 points, as
   long as speeds can be read (Smooth). *)
THEOREM MovesSmoothly ==
  ASSUME "read" \notin Faults
  PROVE  Spec => Smooth
<1>1. TypeOK /\ [Next]_vars =>
        [\A f \in Fans : Distance(Speed(f), Speed(f)') <= 20]_vars
  BY SmoothStep
<1>q. QED BY <1>1, TypeCorrect, PTL DEF Spec, Smooth

(* A step moves one fan, to its target or closer to it, and the call that sets the
   duties of all fans leaves the others (Closes). *)
THEOREM MovesCloser ==
  ASSUME "read" \notin Faults
  PROVE  Spec => Closes
<1>1. TypeOK /\ [Next]_vars =>
        [\A f \in Fans :
           duty'[f] # duty[f] =>
             LET target == Clamped(Target(modes[f], sample)) IN
             /\ f = fan
             /\ \/ Speed(f)' = target
                \/ Distance(Speed(f)', target) < Distance(Speed(f), target)]_vars
  BY ClosesStep
<1>q. QED BY <1>1, TypeCorrect, PTL DEF Spec, Closes

(* A fan on a curve does not fall below the slowest speed of the curve once it has
   reached it, whatever the curve, also when the temperature cannot be read or
   writes fail (FloorKept). *)
THEOREM KeepsTheFloor ==
  ASSUME "read" \notin Faults
  PROVE  Spec => FloorKept
<1>1. TypeOK /\ [Next]_vars =>
        [\A f \in Fans :
           LET table == modes[f].table IN
           modes[f].kind = "curve" /\ table # << >> /\ Slowest(table) <= Speed(f)
             => Slowest(table) <= Speed(f)']_vars
  <2>1. SUFFICES ASSUME TypeOK, [Next]_vars, NEW f \in Fans,
                        modes[f].kind = "curve", modes[f].table # << >>,
                        Slowest(modes[f].table) <= Speed(f)
                 PROVE  Slowest(modes[f].table) <= Speed(f)'
    BY Zenon
  <2>q. QED BY <2>1, FloorStep
<1>q. QED BY <1>1, TypeCorrect, PTL DEF Spec, FloorKept
=============================================================================
