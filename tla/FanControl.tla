----------------------------- MODULE FanControl -----------------------------
(***************************************************************************)
(* The fan task of the daemon (tccd-daemon/src/workers/fan.rs) on the      *)
(* hardware interfaces of io.rs and tuxedo_io.rs.                          *)
(*                                                                         *)
(* Every tick the task samples the CPU temperature, takes the lock of the  *)
(* modes, and moves each fan that has a mode at most 20 points towards its *)
(* target.  The lock is held from the first fan to the last, so handlers   *)
(* change modes only between ticks or between the sample and the lock.     *)
(*                                                                         *)
(* When it starts, the daemon takes the interface it finds: the ioctls of  *)
(* Clevo or of Uniwill hardware, or sysfs.  A fan's duty is a number from  *)
(* 0 to Scale: a PWM byte, or on Uniwill hardware up to 200.  On Clevo     *)
(* hardware one call sets every fan, and the duties of the others are read *)
(* just before.                                                            *)
(***************************************************************************)
EXTENDS FanCurve

CONSTANTS
  Families,      \* the interfaces the daemon may find
  SysFsFans,     \* fans that sysfs shows
  Curves,        \* tables handlers may load
  ManualSpeeds,  \* speeds set_fan_speed_percent may be called with
  Readings,      \* CPU temperatures
  StartDuties,   \* duties the firmware may have left the fans at
  Faults         \* which of "count", "temp", "read" and "write" can fail

ASSUME FanAssumption ==
  /\ Families \subseteq {"clevo", "uniwill", "sysfs"}
  /\ SysFsFans \in 1 .. 8
  /\ Curves \subseteq Table
  /\ ManualSpeeds \subseteq Byte
  /\ Readings \subseteq Int
  /\ StartDuties \subseteq 0 .. 255
  /\ Faults \subseteq {"count", "temp", "read", "write"}

VARIABLES
  io,       \* the interface to the hardware
  modes,    \* FanControlTask::modes, NoMode where the map has no entry
  duty,     \* the duty of each fan, in the hardware
  cpuTemp,  \* the CPU temperature
  driven,   \* fan_count: how many fans the task drives
  phase,    \* of the task: "sleep", "sampled" or "driving"
  sample,   \* temp: the temperature the tick works with
  fan       \* fan_idx: the fan to be driven next

vars == <<io, modes, duty, cpuTemp, driven, phase, sample, fan>>

CpuFan == 0
GpuFan == 1

(* get_fan_count, the hardware's full duty, and whether one write carries the
   duties of all fans. *)
FanCount == IF io = "clevo" THEN 3 ELSE IF io = "uniwill" THEN 2 ELSE SysFsFans
Scale == IF io = "uniwill" THEN 200 ELSE 255
Packed == io = "clevo"

Fans == 0 .. FanCount - 1

(* The keys the map of modes can have; a key that is no fan is never read. *)
Keys == Fans \cup {CpuFan, GpuFan}

NoMode == [kind |-> "none", speed |-> 0, table |-> << >>]
Manual(s) == [kind |-> "manual", speed |-> s, table |-> << >>]
Curve(c) == [kind |-> "curve", speed |-> 0, table |-> c]

(* FanMode.  Speeds are u8 at the D-Bus interface, or what was read back from
   the hardware. *)
Mode ==
  {NoMode} \cup {Manual(s) : s \in Byte} \cup {Curve(c) : c \in Curves}

-----------------------------------------------------------------------------
(* The hardware interface *)

(* Mutant of Clamped: no clamp. *)
Unclamped(s) == s

(* speed.clamp(0, 100) *)
Clamped(s) == IF s < 0 THEN 0 ELSE IF s > 100 THEN 100 ELSE s

(* set_fan_speed_percent and get_fan_speed_percent convert with f64::round. *)
ToDuty(s) == Rounded(Clamped(s) * Scale, 100)
ToPercent(d) == Rounded(d * 100, Scale)

(* unwrap_or(0): a read that fails counts as a standing fan.  Here and below,
   broken says which of the calls to the hardware may fail. *)
SpeedRead(f, broken) ==
  {ToPercent(duty[f])} \cup (IF "read" \in broken THEN {0} ELSE {})

(* Mutant of SetFanSpeed: packing leaves the other fans at zero. *)
SetFanSpeedAlone(f, s, broken) ==
  duty' = [g \in Fans |-> IF g = f THEN ToDuty(s)
                          ELSE IF Packed THEN 0 ELSE duty[g]]

(* TuxedoIO::set_fan_speed_percent, its error ignored by the task. *)
SetFanSpeed(f, s, broken) ==
  \/ /\ ~ Packed
     /\ duty' = [duty EXCEPT ![f] = ToDuty(s)]
  \/ /\ Packed
     /\ \E lost \in SUBSET (IF "read" \in broken THEN Fans \ {f} ELSE {}) :
          duty' = [g \in Fans |-> IF g = f THEN ToDuty(s)
                                  ELSE IF g \in lost THEN 0 ELSE duty[g]]
  \/ /\ "write" \in broken
     /\ UNCHANGED duty

-----------------------------------------------------------------------------
(* The start of the task, and what happens around it *)

(* FanControlTask::new makes the speed the fan runs at its manual target;
   get_fan_count().unwrap_or(1) is asked once, and only sysfs can fail. *)
Init ==
  /\ io \in Families
  /\ duty \in [Fans -> StartDuties \cap 0 .. Scale]
  /\ \E s \in SpeedRead(CpuFan, Faults) :
       modes = [f \in Keys |-> IF f = CpuFan THEN Manual(s) ELSE NoMode]
  /\ cpuTemp \in Readings
  /\ driven \in {FanCount} \cup
                (IF io = "sysfs" /\ "count" \in Faults THEN {1} ELSE {})
  /\ phase = "sleep"
  /\ sample = 0
  /\ fan = 0

(* The temperature changes. *)
Heat ==
  /\ cpuTemp' \in Readings \ {cpuTemp}
  /\ UNCHANGED <<io, modes, duty, driven, phase, sample, fan>>

(* A handler has the lock of the modes. *)
SetMode(f, m) ==
  /\ phase # "driving"
  /\ modes' = [modes EXCEPT ![f] = m]
  /\ UNCHANGED <<io, duty, cpuTemp, driven, phase, sample, fan>>

(* set_fan_speed_percent calls set_manual_speed for fan 0 only; the speed is
   the client's byte. *)
SetManualSpeed(s) == SetMode(CpuFan, Manual(s))
SetCpuCurve(c) == SetMode(CpuFan, Curve(c))
SetGpuCurve(c) == SetMode(GpuFan, Curve(c))

-----------------------------------------------------------------------------
(* A tick *)

(* get_cpu_temperature().unwrap_or(50.0), before the modes are locked. *)
Sample(broken) ==
  /\ phase = "sleep"
  /\ sample' \in {cpuTemp} \cup (IF "temp" \in broken THEN {50 * Unit} ELSE {})
  /\ phase' = "sampled"
  /\ UNCHANGED <<io, modes, duty, cpuTemp, driven, fan>>

(* Mutant of Lock: the loop does not start over at fan 0. *)
LockAndGoOn ==
  /\ phase = "sampled"
  /\ phase' = "driving"
  /\ UNCHANGED <<io, modes, duty, cpuTemp, driven, sample, fan>>

(* The modes are locked, and the loop over the fans starts. *)
Lock ==
  /\ phase = "sampled"
  /\ phase' = "driving"
  /\ fan' = 0
  /\ UNCHANGED <<io, modes, duty, cpuTemp, driven, sample>>

Target(m, t) ==
  IF m.kind = "manual" THEN m.speed ELSE Interpolate(m.table, t)

(* Mutant of StepTowards: no smoothing. *)
JumpTo(current, target) == target

(* current + signum(diff) * min(20, |diff|) *)
StepTowards(current, target) ==
  IF target > current + 20 THEN current + 20
  ELSE IF target < current - 20 THEN current - 20
  ELSE target

(* Mutant of DriveFan: it reads the speed of fan 0 for every fan. *)
DriveFanBySpeedOfFirst(broken) ==
  /\ phase = "driving"
  /\ fan < driven
  /\ \/ modes[fan] = NoMode /\ UNCHANGED duty
     \/ /\ modes[fan] # NoMode
        /\ SetFanSpeed(fan, StepTowards(ToPercent(duty[CpuFan]),
                                        Target(modes[fan], sample)), broken)
  /\ fan' = fan + 1
  /\ UNCHANGED <<io, modes, cpuTemp, driven, phase, sample>>

(* One round of the loop over the fans. *)
DriveFan(broken) ==
  /\ phase = "driving"
  /\ fan < driven
  /\ \/ /\ modes[fan] = NoMode
        /\ UNCHANGED duty
     \/ /\ modes[fan] # NoMode
        /\ \E current \in SpeedRead(fan, broken) :
             LET target == Target(modes[fan], sample) IN
             IF current = target THEN UNCHANGED duty
             ELSE SetFanSpeed(fan, StepTowards(current, target), broken)
  /\ fan' = fan + 1
  /\ UNCHANGED <<io, modes, cpuTemp, driven, phase, sample>>

(* The lock is released and the task sleeps. *)
Unlock ==
  /\ phase = "driving"
  /\ fan = driven
  /\ phase' = "sleep"
  /\ UNCHANGED <<io, modes, duty, cpuTemp, driven, sample, fan>>

Tick(broken) == Sample(broken) \/ Lock \/ DriveFan(broken) \/ Unlock

Next ==
  \/ Tick(Faults)
  \/ Heat
  \/ \E s \in ManualSpeeds : SetManualSpeed(s)
  \/ \E c \in Curves : SetCpuCurve(c) \/ SetGpuCurve(c)

Spec == Init /\ [][Next]_vars

(* The task is an endless loop of a tokio runtime: it keeps running.  Nothing
   obliges a client to call or the temperature to change. *)
FairSpec == Spec /\ WF_vars(Tick(Faults))

-----------------------------------------------------------------------------
(* Properties *)

(* Every variable has its type; a duty never exceeds what the hardware takes. *)
TypeOK ==
  /\ io \in Families
  /\ modes \in [Keys -> Mode]
  /\ duty \in [Fans -> 0 .. Scale]
  /\ cpuTemp \in Readings
  /\ driven \in {1, FanCount}
  /\ phase \in {"sleep", "sampled", "driving"}
  /\ sample \in Int
  /\ fan \in 0 .. driven

Speed(f) == ToPercent(duty[f])
Distance(s, t) == IF s < t THEN t - s ELSE s - t

(* The README: "20%/tick smoothing".  No step moves a fan by more than 20
   points as it is read back, whatever the target, whichever handler changed
   the mode in the middle of a tick, and on every scale of duties: the
   conversions to a duty and back are exact on percents.  It fails as soon as
   a read of a speed fails, which the task takes for a standing fan. *)
Smooth ==
  [][\A f \in Fans : Distance(Speed(f), Speed(f)') <= 20]_vars

(* Only the fan the task is at moves, and it gets to the target of its mode or
   closer to it, never past it; the write for one fan leaves the others as they
   are, also where one call carries them all. *)
Closes ==
  [][\A f \in Fans :
       duty'[f] # duty[f] =>
         LET target == Clamped(Target(modes[f], sample)) IN
         /\ f = fan
         /\ \/ Speed(f)' = target
            \/ Distance(Speed(f)', target) < Distance(Speed(f), target)]_vars

(* The lowest speed of a table. *)
Slowest(table) ==
  CHOOSE s \in Byte : /\ \E i \in 1 .. Len(table) : s = table[i].speed
                      /\ \A i \in 1 .. Len(table) : s <= table[i].speed

(* A fan on a curve that runs at least at the slowest speed of the curve does
   not fall below it while the curve stays loaded, also when the temperature
   cannot be read, or a write fails. *)
FloorKept ==
  [][\A f \in Fans :
       LET table == modes[f].table IN
       modes[f].kind = "curve" /\ table # << >> /\ Slowest(table) <= Speed(f)
         => Slowest(table) <= Speed(f)']_vars

(* The fan runs at its target, as far as the hardware goes. *)
Settled(f) ==
  modes[f] # NoMode => Speed(f) = Clamped(Target(modes[f], cpuTemp))

(* Once clients leave the modes alone, the temperature stands still and the
   hardware answers again, every fan the task drives reaches its target and
   stays there, from wherever the failures have left it. *)
SettlesWhenLeftAlone ==
  <>[][Tick({})]_vars => \A f \in 0 .. 7 : <>[](f < driven => Settled(f))
=============================================================================
