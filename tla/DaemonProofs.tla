---------------------------- MODULE DaemonProofs ----------------------------
(***************************************************************************)
(* Theorems about Daemon, for any profiles, settings, requests and curves: *)
(* the types, that the handlers use the store as ProfileStore says, what   *)
(* the power worker leaves behind while handlers, the fan task and the     *)
(* supply go on around it, and what the answer of a handler means.         *)
(***************************************************************************)
EXTENDS Daemon, TLAPS

-----------------------------------------------------------------------------
(* The store behind the daemon *)

StoreP == INSTANCE ProfileStoreProofs

(* What the theorems about the store speak of is the store of the daemon. *)
LEMMA SameStore ==
  /\ Store!TypeOK <=> StoreP!TypeOK
  /\ Store!Init <=> StoreP!Init
  /\ Store!vars = StoreP!vars
  /\ Store!BuiltInsIntact <=> StoreP!BuiltInsIntact
  /\ Store!UniqueIds <=> StoreP!UniqueIds
  /\ Store!AckedOnDisk <=> StoreP!AckedOnDisk
BY DEF Store!TypeOK, StoreP!TypeOK, Store!Init, StoreP!Init, Store!vars, StoreP!vars,
  Store!BuiltInsIntact, StoreP!BuiltInsIntact, Store!Profile, StoreP!Profile,
  Store!Settings, StoreP!Settings, Store!DefaultProfiles, StoreP!DefaultProfiles,
  Store!DefaultSettings, StoreP!DefaultSettings, Store!File, StoreP!File,
  Store!UniqueIds, StoreP!UniqueIds, Store!Distinct, StoreP!Distinct,
  Store!AckedOnDisk, StoreP!AckedOnDisk, Store!LoadProfiles, StoreP!LoadProfiles,
  Store!LoadSettings, StoreP!LoadSettings, Store!Customs, StoreP!Customs,
  Store!IsDefault, StoreP!IsDefault

LEMMA SameNext == Store!Next <=> StoreP!Next
BY DEF Store!Next, StoreP!Next, Store!Start, StoreP!Start, Store!Stop, StoreP!Stop,
  Store!Method, StoreP!Method, Store!SaveStep, StoreP!SaveStep,
  Store!CreateProfile, StoreP!CreateProfile, Store!CopyProfile, StoreP!CopyProfile,
  Store!UpdateProfile, StoreP!UpdateProfile, Store!DeleteProfile, StoreP!DeleteProfile,
  Store!SetActiveProfile, StoreP!SetActiveProfile, Store!UpdateSettings, StoreP!UpdateSettings,
  Store!Save, StoreP!Save, Store!Refuse, StoreP!Refuse, Store!OpenProfiles, StoreP!OpenProfiles,
  Store!WriteProfiles, StoreP!WriteProfiles, Store!SaveProfilesFails, StoreP!SaveProfilesFails,
  Store!OpenSettings, StoreP!OpenSettings, Store!WriteSettings, StoreP!WriteSettings,
  Store!SaveSettingsFails, StoreP!SaveSettingsFails, Store!LoadProfiles, StoreP!LoadProfiles,
  Store!LoadSettings, StoreP!LoadSettings, Store!Customs, StoreP!Customs,
  Store!IsDefault, StoreP!IsDefault, Store!Profile, StoreP!Profile, Store!Has, StoreP!Has,
  Store!First, StoreP!First, Store!Without, StoreP!Without, Store!Valid, StoreP!Valid,
  Store!DefaultProfiles, StoreP!DefaultProfiles,
  Store!DefaultSettings, StoreP!DefaultSettings

LEMMA SameSteps == [Store!Next]_(Store!vars) <=> [StoreP!Next]_(StoreP!vars)
<1>1. Store!vars' = StoreP!vars' BY DEF Store!vars, StoreP!vars
<1>q. QED BY <1>1, SameStore, SameNext

StoreOK == Store!TypeOK /\ Store!BuiltInsIntact

LEMMA InitStoreOK == Store!Init => StoreOK
<1>1. StoreP!Init => StoreP!TypeOK /\ StoreP!BuiltInsIntact
  BY DaemonAssumption, StoreP!InitTypeOK, StoreP!InitBuiltInsIntact
<1>q. QED BY <1>1, SameStore DEF StoreOK

LEMMA NextStoreOK == StoreOK /\ [Store!Next]_(Store!vars) => StoreOK'
<1>1. StoreP!TypeOK /\ [StoreP!Next]_(StoreP!vars) => StoreP!TypeOK'
  BY DaemonAssumption, StoreP!NextTypeOK
<1>2. StoreP!TypeOK /\ StoreP!BuiltInsIntact /\ [StoreP!Next]_(StoreP!vars)
        => StoreP!BuiltInsIntact'
  BY DaemonAssumption, StoreP!NextBuiltInsIntact
<1>3. StoreOK <=> StoreP!TypeOK /\ StoreP!BuiltInsIntact BY SameStore DEF StoreOK
<1>4. StoreOK' <=> StoreP!TypeOK' /\ StoreP!BuiltInsIntact' BY <1>3, PTL
<1>5. [Store!Next]_(Store!vars) <=> [StoreP!Next]_(StoreP!vars) BY SameSteps
<1>q. QED BY <1>1, <1>2, <1>3, <1>4, <1>5

LEMMA FirstOfStore ==
  ASSUME StoreOK, NEW id, Store!Has(profiles, id)
  PROVE  /\ profiles \in Seq(Store!Profile)
         /\ Store!First(profiles, id) \in 1 .. Len(profiles)
         /\ profiles[Store!First(profiles, id)].id = id
<1>1. profiles \in Seq(StoreP!Profile) /\ StoreP!Has(profiles, id)
  BY SameStore DEF StoreOK, StoreP!TypeOK, Store!Has, StoreP!Has
<1>2. /\ StoreP!First(profiles, id) \in 1 .. Len(profiles)
      /\ profiles[StoreP!First(profiles, id)].id = id
  BY <1>1, DaemonAssumption, StoreP!FirstProperties
<1>3. Store!First(profiles, id) = StoreP!First(profiles, id)
  BY DEF Store!First, StoreP!First
<1>q. QED BY <1>1, <1>2, <1>3 DEF Store!Profile, StoreP!Profile

LEMMA FirstOfNext ==
  ASSUME StoreOK', NEW id, Store!Has(profiles', id)
  PROVE  /\ Store!First(profiles', id) \in 1 .. Len(profiles')
         /\ profiles'[Store!First(profiles', id)].id = id
<1>1. PICK s \in Seq(StoreP!Profile) : s = profiles'
  <2>1. profiles' \in Seq(Store!Profile) BY DEF StoreOK, Store!TypeOK
  <2>q. QED BY <2>1 DEF Store!Profile, StoreP!Profile
<1>2. StoreP!Has(s, id) BY <1>1 DEF Store!Has, StoreP!Has
<1>3. StoreP!First(s, id) \in 1 .. Len(s) /\ s[StoreP!First(s, id)].id = id
  BY <1>2, DaemonAssumption, StoreP!FirstProperties
<1>4. Store!First(s, id) = StoreP!First(s, id)
  BY DEF Store!First, StoreP!First
<1>q. QED BY <1>1, <1>3, <1>4

(* The body of a profile that is there. *)
LEMMA BodyOfKnown ==
  ASSUME StoreOK, NEW id
  PROVE  /\ Store!Has(profiles, id) => BodyOf(id) \in Bodies
         /\ ~ Store!Has(profiles, id) => BodyOf(id) = None
         /\ None \notin Bodies
<1>1. ASSUME Store!Has(profiles, id) PROVE BodyOf(id) \in Bodies
  <2>1. /\ profiles \in Seq(Store!Profile)
        /\ Store!First(profiles, id) \in 1 .. Len(profiles)
    BY <1>1, FirstOfStore
  <2>2. profiles[Store!First(profiles, id)] \in Store!Profile BY <2>1
  <2>q. QED BY <1>1, <2>2 DEF BodyOf, Store!Profile
<1>2. ~ Store!Has(profiles, id) => BodyOf(id) = None BY DEF BodyOf
<1>3. None \notin Bodies BY DaemonAssumption
<1>q. QED BY <1>1, <1>2, <1>3

-----------------------------------------------------------------------------
(* Types *)

Request == [kind : {"none", "activate", "edit", "curve", "manual"}, id : Ids,
            state : PowerStates, curve : Curves \cup {None}]

Modes == [{"cpu", "gpu"} -> Curves \cup {Manual, None}]

(* Where a handler or the worker is says what it has: a profile that exists, a
   curve. *)
Typed ==
  /\ StoreOK
  /\ TypeOK
  /\ request \in Request
  /\ request.kind = "curve" => request.curve \in Curves
  /\ handler \in {"waiting", "curve"} => request.kind = "curve"
  /\ handler \in Steps \/ (handler = "saving" /\ request.kind = "activate")
       => Store!Has(profiles, request.id)
  /\ worker \in Steps => snapshot \in Bodies

LEMMA NoRequestTyped == NoRequest \in Request
BY DaemonAssumption DEF NoRequest, Request, PowerStates, Store!StoreAssumption

LEMMA InitTyped == Init => Typed
<1> SUFFICES ASSUME Init PROVE Typed OBVIOUS
<1>1. StoreOK BY InitStoreOK DEF Init
<1>2. NoRequest \in Request /\ NoRequest.kind = "none"
  BY NoRequestTyped DEF NoRequest
<1>3. modes \in Modes BY DEF Init, AtStart, Modes
<1>4. tunings \in [Tunables -> Tunings] BY DEF Init
<1>5. TypeOK
  BY <1>1, <1>2, <1>3, <1>4
  DEF Init, Store!Init, StoreOK, TypeOK, Modes, Request, Steps, Tunables
<1>q. QED BY <1>1, <1>2, <1>5 DEF Init, Typed, Steps, Tunables

(* A method of the store begins to save or is refused. *)
LEMMA MethodGoesOn ==
  ASSUME pc = "idle",
         \/ \E p : Store!CreateProfile(p)
         \/ \E id, newId : Store!CopyProfile(id, newId)
         \/ \E id, p : Store!UpdateProfile(id, p)
         \/ \E id : Store!DeleteProfile(id)
         \/ \E id, s : Store!SetActiveProfile(id, s)
         \/ \E f : Store!UpdateSettings(f)
         \/ \E m : Store!Refuse(m)
  PROVE  pc' # "down"
<1>1. ASSUME NEW p, Store!CreateProfile(p) PROVE pc' # "down"
  BY <1>1 DEF Store!CreateProfile, Store!Refuse, Store!Save
<1>2. ASSUME NEW id, NEW newId, Store!CopyProfile(id, newId) PROVE pc' # "down"
  BY <1>1, <1>2 DEF Store!CopyProfile, Store!Refuse
<1>3. ASSUME NEW id, NEW p, Store!UpdateProfile(id, p) PROVE pc' # "down"
  BY <1>3 DEF Store!UpdateProfile, Store!Refuse, Store!Save
<1>4. ASSUME NEW id, Store!DeleteProfile(id) PROVE pc' # "down"
  BY <1>4 DEF Store!DeleteProfile, Store!Refuse, Store!Save
<1>5. ASSUME NEW id, NEW s, Store!SetActiveProfile(id, s) PROVE pc' # "down"
  BY <1>5 DEF Store!SetActiveProfile, Store!Refuse, Store!Save
<1>6. ASSUME NEW f, Store!UpdateSettings(f) PROVE pc' # "down"
  BY <1>6 DEF Store!UpdateSettings, Store!Save
<1>7. ASSUME NEW m, Store!Refuse(m) PROVE pc' # "down"
  BY <1>7 DEF Store!Refuse
<1>q. QED BY <1>1, <1>2, <1>3, <1>4, <1>5, <1>6, <1>7

LEMMA SaveStepGoesOn ==
  ASSUME Store!SaveStep
  PROVE  pc' # "down" /\ UNCHANGED <<profiles, settings>>
BY DEF Store!SaveStep, Store!OpenProfiles, Store!WriteProfiles, Store!SaveProfilesFails,
       Store!OpenSettings, Store!WriteSettings, Store!SaveSettingsFails

(* The profile mapped to a state: set_fan_curve finds one or is refused. *)
LEMMA MappedTyped ==
  ASSUME StoreOK, NEW s
  PROVE  Mapped(s) \in Bodies \cup {None}
BY BodyOfKnown DEF Mapped

LEMMA BodiesAreBody ==
  ASSUME NEW b \in Bodies
  PROVE  b \in Body /\ AsHandled(b) \in Body
BY DaemonAssumption DEF Body, AsHandled

LEMMA ApplyTyped ==
  ASSUME modes \in Modes, tunings \in [Tunables -> Tunings],
         NEW b \in Body, NEW k \in Steps, Apply(k, b)
  PROVE  modes' \in Modes /\ tunings' \in [Tunables -> Tunings]
<1>1. CASE k \in {"cpu", "gpu"}
  <2>1. ApplyCurve(k, b) /\ UNCHANGED tunings BY <1>1 DEF Apply, Tunables
  <2>2. b[k] \in Curves \cup {None} BY <1>1 DEF Body
  <2>q. QED BY <1>1, <2>1, <2>2 DEF ApplyCurve, Modes
<1>2. CASE k \in Tunables
  <2>1. ApplyTuning(k, b) /\ UNCHANGED modes BY <1>2 DEF Apply, Tunables
  <2>2. b.tuning[k] \in Tunings \cup {None} BY <1>2 DEF Body
  <2>q. QED BY <1>2, <2>1, <2>2 DEF ApplyTuning
<1>q. QED BY <1>1, <1>2 DEF Steps

-----------------------------------------------------------------------------
(* Every step of the daemon is a step of the store, or leaves it alone. *)

LEMMA SetFanCurveSteps ==
  ASSUME Typed, SetFanCurve
  PROVE  Store!Next
<1> DEFINE id == settings.stateMap[request.state]
<1>1. /\ handler = "waiting" /\ pc = "idle"
      /\ request.curve \in Curves
      /\ id \in Ids
  <2>1. handler = "waiting" BY DEF SetFanCurve
  <2>2. pc = "idle"
    BY <2>1 DEF Typed, TypeOK
  <2>3. request.curve \in Curves /\ request.state \in PowerStates
    BY <2>1 DEF Typed, Request
  <2>4. settings.stateMap \in [PowerStates -> Ids]
    BY DEF Typed, StoreOK, Store!TypeOK, Store!Settings
  <2>q. QED BY <2>1, <2>2, <2>3, <2>4
<1>2. ASSUME BodyOf(id) = None, Store!Refuse("update") PROVE Store!Next
  <2>1. ~ Store!Has(profiles, id)
    BY <1>2, BodyOfKnown DEF Typed
  <2>2. PICK b : b \in Bodies
    <3>1. 1 \in 1 .. Len(DefaultIds)
      BY DaemonAssumption DEF Store!StoreAssumption
    <3>q. QED BY <3>1, DaemonAssumption DEF Store!StoreAssumption
  <2>3. [id |-> id, body |-> b] \in Store!Profile
    BY <1>1, <2>2 DEF Store!Profile
  <2>4. Store!UpdateProfile(id, [id |-> id, body |-> b])
    BY <1>1, <1>2, <2>1 DEF Store!UpdateProfile
  <2>q. QED BY <1>1, <2>3, <2>4 DEF Store!Next, Store!Method
<1>3. ASSUME BodyOf(id) # None,
             Store!UpdateProfile(id, [id |-> id,
                body |-> [BodyOf(id) EXCEPT !.cpu = request.curve]])
      PROVE  Store!Next
  <2>1. BodyOf(id) \in Bodies
    BY <1>3, BodyOfKnown DEF Typed
  <2>2. [BodyOf(id) EXCEPT !.cpu = request.curve] \in Bodies
    BY <1>1, <2>1, DaemonAssumption
  <2>3. [id |-> id, body |-> [BodyOf(id) EXCEPT !.cpu = request.curve]]
          \in Store!Profile
    BY <1>1, <2>2 DEF Store!Profile
  <2>q. QED BY <1>1, <1>3, <2>3 DEF Store!Next, Store!Method
<1>q. QED BY <1>2, <1>3 DEF SetFanCurve, Mapped

LEMMA StoreSteps ==
  ASSUME Typed, [Next]_vars
  PROVE  [Store!Next]_(Store!vars)
<1>1. CASE Start \/ Stop BY <1>1 DEF Start, Stop, Store!Next
<1>2. CASE StartUp \/ Flip \/ TickBegins \/ TickEnds \/ Poll \/ TakeSnapshot
           \/ WorkerApplies \/ HandlerApplies \/ RunCurve \/ SetManual
           \/ UNCHANGED vars
  BY <1>2 DEF StartUp, Flip, TickBegins, TickEnds, Poll, TakeSnapshot, WorkerApplies,
              HandlerApplies, RunCurve, SetManual, vars, store, Store!vars
<1>3. CASE Saving BY <1>3 DEF Saving, Store!Next
<1>4. CASE SetFanCurve BY <1>4, SetFanCurveSteps
<1>5. CASE Call
  <2>1. ASSUME NEW id \in Ids, NEW s \in PowerStates, Activate(id, s)
        PROVE  Store!Next
    BY <2>1 DEF Activate, Store!Next, Store!Method
  <2>2. ASSUME NEW c \in Curves, CallSetFanCurve(c) PROVE UNCHANGED Store!vars
    BY <2>2 DEF CallSetFanCurve, store, Store!vars
  <2>3. CASE Edit BY <2>3 DEF Edit, Store!Next, Store!Method
  <2>4. CASE CallSetManual BY <2>4 DEF CallSetManual, store, Store!vars
  <2>q. QED BY <1>5, <2>1, <2>2, <2>3, <2>4 DEF Call
<1>q. QED BY <1>1, <1>2, <1>3, <1>4, <1>5 DEF Next

-----------------------------------------------------------------------------
(* Every step keeps the types. *)

(* A handler that begins. *)
LEMMA BeginTyped ==
  ASSUME Typed, StoreOK', handler \in {"idle", "waiting"}, NEW r \in Request, Begin(r),
         pc' # "down",
         r.kind = "curve" => r.curve \in Curves,
         r.kind = "activate" /\ pc' # "idle" => Store!Has(profiles', r.id)
  PROVE  Typed'
<1>1. /\ request' = r
      /\ handler' = IF pc' = "idle" THEN "idle" ELSE "saving"
      /\ UNCHANGED <<power, modes, tunings, ticking, worker, lastPower, snapshot,
                     switched>>
  BY DEF Begin, hardware
<1>2. disturbed' \in BOOLEAN /\ overlap' \in BOOLEAN
  BY DEF Begin, Typed, TypeOK
<1>3. TypeOK'
  <2>1. Store!TypeOK' BY DEF StoreOK
  <2>2. r.state \in PowerStates /\ r.id \in Ids BY DEF Request
  <2>q. QED BY <1>1, <1>2, <2>1, <2>2 DEF Typed, TypeOK
<1>4. Store!Has(profiles, request.id)' <=> Store!Has(profiles', r.id)
  BY <1>1 DEF Store!Has
<1>q. QED BY <1>1, <1>3, <1>4 DEF Typed, Steps, Tunables

LEMMA CallTyped ==
  ASSUME Typed, StoreOK', Call
  PROVE  Typed'
<1>1. ASSUME NEW id \in Ids, NEW s \in PowerStates, Activate(id, s) PROVE Typed'
  <2> DEFINE r == [NoRequest EXCEPT !.kind = "activate", !.id = id, !.state = s]
  <2>1. handler = "idle" /\ Store!SetActiveProfile(id, s) /\ Begin(r)
    BY <1>1 DEF Activate
  <2>2. r \in Request /\ r.kind = "activate" /\ r.id = id
    BY NoRequestTyped DEF Request
  <2>3. pc = "idle" BY <2>1 DEF Typed, TypeOK
  <2>4. pc' # "down" BY <2>1, <2>3, MethodGoesOn
  <2>5. pc' # "idle" => Store!Has(profiles', id)
    BY <2>1, <2>3 DEF Store!SetActiveProfile, Store!Refuse, Store!Has
  <2> HIDE DEF r
  <2>q. QED BY <2>1, <2>2, <2>4, <2>5, BeginTyped
<1>2. ASSUME NEW c \in Curves, CallSetFanCurve(c) PROVE Typed'
  <2> DEFINE r == [NoRequest EXCEPT !.kind = "curve", !.state = power, !.curve = c]
  <2>1. /\ handler = "idle" /\ handler' = "waiting" /\ request' = r
        /\ UNCHANGED <<profiles, settings, profilesFile, settingsFile, pc, op, reply,
                       power, modes, tunings, ticking, worker, lastPower, snapshot,
                       switched, disturbed, overlap>>
    BY <1>2 DEF CallSetFanCurve, store, hardware, history
  <2>2. r \in Request /\ r.kind = "curve" /\ r.curve = c
    BY NoRequestTyped DEF Request, Typed, TypeOK
  <2> HIDE DEF r
  <2>3. TypeOK'
    <3>1. r.state \in PowerStates /\ r.id \in Ids BY <2>2 DEF Request
    <3>2. Store!TypeOK' BY DEF StoreOK
    <3>q. QED BY <2>1, <3>1, <3>2 DEF Typed, TypeOK
  <2>q. QED BY <2>1, <2>2, <2>3 DEF Typed, Steps, Tunables
<1>3. CASE Edit
  <2> DEFINE r == [NoRequest EXCEPT !.kind = "edit"]
  <2>1. /\ handler = "idle" /\ Begin(r)
        /\ \/ \E p \in Store!Profile : Store!CreateProfile(p)
           \/ \E id, newId \in Ids : Store!CopyProfile(id, newId)
           \/ \E id \in Ids, p \in Store!Profile : Store!UpdateProfile(id, p)
           \/ \E id \in Ids : Store!DeleteProfile(id)
           \/ \E f \in Flags : Store!UpdateSettings(f)
    BY <1>3 DEF Edit
  <2>2. r \in Request /\ r.kind = "edit" BY NoRequestTyped DEF Request
  <2>3. pc = "idle" BY <2>1 DEF Typed, TypeOK
  <2> HIDE DEF r
  <2>4. pc' # "down" BY <2>1, <2>3, MethodGoesOn
  <2>q. QED BY <2>1, <2>2, <2>4, BeginTyped
<1>4. CASE CallSetManual
  <2> DEFINE r == [NoRequest EXCEPT !.kind = "manual"]
  <2>1. /\ handler = "idle" /\ handler' = "manual" /\ request' = r
        /\ UNCHANGED <<profiles, settings, profilesFile, settingsFile, pc, op, reply,
                       power, modes, tunings, ticking, worker, lastPower, snapshot,
                       switched, disturbed, overlap>>
    BY <1>4 DEF CallSetManual, store, hardware, history
  <2>2. r \in Request /\ r.kind = "manual" BY NoRequestTyped DEF Request
  <2> HIDE DEF r
  <2>3. TypeOK'
    <3>1. r.state \in PowerStates /\ r.id \in Ids BY <2>2 DEF Request
    <3>2. Store!TypeOK' BY DEF StoreOK
    <3>q. QED BY <2>1, <3>1, <3>2 DEF Typed, TypeOK
  <2>q. QED BY <2>1, <2>2, <2>3 DEF Typed, Steps, Tunables
<1>q. QED BY <1>1, <1>2, <1>3, <1>4 DEF Call

LEMMA SetFanCurveTyped ==
  ASSUME Typed, StoreOK', SetFanCurve
  PROVE  Typed'
<1>1. /\ handler = "waiting" /\ Begin(request)
      /\ \/ \E m : Store!Refuse(m)
         \/ \E id, p : Store!UpdateProfile(id, p)
  BY DEF SetFanCurve
<1>2. /\ pc = "idle" /\ request \in Request /\ request.kind = "curve"
      /\ request.curve \in Curves
  BY <1>1 DEF Typed, TypeOK
<1>3. pc' # "down" BY <1>1, <1>2, MethodGoesOn
<1>4. PICK r \in Request : r = request BY <1>2
<1>5. Begin(r) BY <1>1, <1>4
<1>q. QED BY <1>1, <1>2, <1>3, <1>4, <1>5, BeginTyped

LEMMA SavingTyped ==
  ASSUME Typed, StoreOK', Saving
  PROVE  Typed'
<1>1. /\ handler = "saving"
      /\ handler' = IF pc' # "idle" THEN "saving"
                    ELSE IF reply' = "ok" /\ request.kind = "activate" THEN "cpu"
                    ELSE IF reply' = "ok" /\ request.kind = "curve" THEN "curve"
                    ELSE "idle"
      /\ UNCHANGED <<power, modes, tunings, ticking, worker, lastPower, snapshot,
                     request, switched, disturbed, overlap>>
      /\ pc' # "down" /\ UNCHANGED profiles
  BY SaveStepGoesOn DEF Saving, hardware, history
<1>2. TypeOK'
  <2>1. Store!TypeOK' BY DEF StoreOK
  <2>2. handler' \in {"idle", "saving", "curve", "cpu"} BY <1>1
  <2>3. pc' = "idle" <=> handler' # "saving" BY <1>1
  <2>q. QED BY <1>1, <2>1, <2>2, <2>3 DEF Typed, TypeOK, Steps, Tunables
<1>3. Store!Has(profiles, request.id)' <=> Store!Has(profiles, request.id)
  BY <1>1 DEF Store!Has
<1>q. QED BY <1>1, <1>2, <1>3 DEF Typed, Steps, Tunables

LEMMA Parts ==
  ASSUME Typed
  PROVE  /\ power \in PowerStates /\ modes \in Modes
         /\ tunings \in [Tunables -> Tunings] /\ ticking \in BOOLEAN
         /\ worker \in {"poll", "snapshot"} \cup Steps
         /\ lastPower \in PowerStates \cup {"unknown"}
         /\ snapshot \in Bodies \cup {None}
         /\ worker \in Steps => snapshot \in Bodies
         /\ switched \in BOOLEAN /\ disturbed \in BOOLEAN /\ overlap \in BOOLEAN
BY DEF Typed, TypeOK, Modes

(* What the steps that leave the store and the request alone do to the rest. *)
Aside ==
  /\ UNCHANGED <<profiles, pc, request>>
  /\ power' \in PowerStates /\ modes' \in Modes
  /\ tunings' \in [Tunables -> Tunings] /\ ticking' \in BOOLEAN
  /\ lastPower' \in PowerStates \cup {"unknown"}
  /\ worker' \in {"poll", "snapshot"} \cup Steps
  /\ snapshot' \in Bodies \cup {None}
  /\ worker' \in Steps => snapshot' \in Bodies
  /\ \/ handler' = handler
     \/ handler \in {"startup", "curve", "manual"} \cup Steps /\ handler' = "idle"
     \/ handler \in Steps /\ handler' \in Steps
  /\ switched' \in BOOLEAN /\ disturbed' \in BOOLEAN /\ overlap' \in BOOLEAN

LEMMA AsideTyped ==
  ASSUME Typed, StoreOK', Aside
  PROVE  Typed'
<1>1. Store!TypeOK' BY DEF StoreOK
<1>2. /\ handler' \in {"down", "startup", "idle", "waiting", "saving", "curve",
                       "manual"} \cup Steps
      /\ handler' = "down" <=> handler = "down"
      /\ handler' = "saving" <=> handler = "saving"
      /\ handler' \in {"waiting", "curve"} => handler' = handler
      /\ handler' \in Steps => handler \in Steps
  BY DEF Aside, Typed, TypeOK, Steps, Tunables
<1>3. TypeOK' BY <1>1, <1>2 DEF Aside, Typed, TypeOK, Modes
<1>4. Store!Has(profiles, request.id)' <=> Store!Has(profiles, request.id)
  BY DEF Aside, Store!Has
<1>q. QED BY <1>2, <1>3, <1>4 DEF Aside, Typed

LEMMA StartStopTyped ==
  ASSUME Typed, StoreOK', Start \/ Stop
  PROVE  Typed'
<1>1. Store!TypeOK' BY DEF StoreOK
<1>2. CASE Start
  <2>1. /\ handler = "down" /\ handler' = "startup" /\ pc' = "idle"
        /\ UNCHANGED <<power, modes, tunings, ticking, worker, lastPower, snapshot,
                       request, switched, disturbed, overlap>>
    BY <1>2 DEF Start, Store!Start, hardware, history
  <2>2. TypeOK' BY <1>1, <2>1 DEF Typed, TypeOK
  <2>q. QED BY <2>1, <2>2 DEF Typed, Steps, Tunables
<1>3. CASE Stop
  <2>1. /\ handler' = "down" /\ pc' = "down" /\ worker' = "poll"
        /\ lastPower' = "unknown" /\ snapshot' = None /\ request' = NoRequest
        /\ ticking' = FALSE /\ switched' = FALSE /\ disturbed' = FALSE
        /\ overlap' = FALSE /\ UNCHANGED <<power, tunings>>
    BY <1>3 DEF Stop, Store!Stop
  <2>2. modes' \in Modes BY <1>3 DEF Stop, AtStart, Modes
  <2>3. NoRequest \in Request /\ NoRequest.kind = "none"
    BY NoRequestTyped DEF NoRequest
  <2>4. NoRequest.id \in Ids /\ NoRequest.state \in PowerStates
    BY <2>3 DEF Request
  <2>5. TypeOK' BY <1>1, <2>1, <2>2, <2>4 DEF Typed, TypeOK, Modes
  <2>q. QED BY <2>1, <2>3, <2>5 DEF Typed, Steps, Tunables
<1>q. QED BY <1>2, <1>3

(* Start-up loads the curves of the profile mapped to the power state or, failing
   that, of the first profile, which is built in. *)
LEMMA StartUpTyped ==
  ASSUME Typed, StoreOK', StartUp
  PROVE  Typed'
<1>1. /\ handler = "startup" /\ handler' = "idle"
      /\ UNCHANGED <<profiles, pc, request, power, tunings, ticking, worker,
                     lastPower, snapshot, switched, disturbed, overlap>>
  BY DEF StartUp, store, history
<1>2. PICK s \in PowerStates :
        LET b == AsHandled(IF Mapped(s) = None THEN profiles[1].body ELSE Mapped(s)) IN
        modes' = [f \in {"cpu", "gpu"} |->
                    IF b.control /\ b[f] # None THEN b[f] ELSE modes[f]]
  BY DEF StartUp, Typed, TypeOK, PowerStates
<1>3. profiles[1].body \in Bodies
  <2>1. profiles \in Seq(Store!Profile) /\ 1 \in 1 .. Len(profiles)
    BY DaemonAssumption
    DEF Typed, StoreOK, Store!TypeOK, Store!BuiltInsIntact, Store!StoreAssumption
  <2>2. profiles[1] \in Store!Profile BY <2>1
  <2>q. QED BY <2>2 DEF Store!Profile
<1>4. PICK c \in Bodies : c = IF Mapped(s) = None THEN profiles[1].body ELSE Mapped(s)
  BY <1>3, MappedTyped DEF Typed
<1>5. PICK b \in Body : b = AsHandled(c) BY BodiesAreBody
<1>6. modes' = [f \in {"cpu", "gpu"} |->
                  IF b.control /\ b[f] # None THEN b[f] ELSE modes[f]]
  BY <1>2, <1>4, <1>5
<1>7. b.cpu \in Curves \cup {None} /\ b.gpu \in Curves \cup {None} BY DEF Body
<1>8. modes \in Modes BY DEF Typed, TypeOK, Modes
<1>9. modes' \in Modes BY <1>6, <1>7, <1>8 DEF Modes
<1>a. Aside BY <1>1, <1>9, Parts DEF Aside
<1>q. QED BY <1>a, AsideTyped

LEMMA WorkerTyped ==
  ASSUME Typed, StoreOK', Poll \/ TakeSnapshot \/ WorkerApplies
  PROVE  Typed'
<1>1. /\ UNCHANGED <<profiles, pc, request, power, ticking, handler, overlap>>
      /\ \/ UNCHANGED <<switched, disturbed>>
         \/ switched' = TRUE /\ disturbed' = FALSE
  BY DEF Poll, TakeSnapshot, WorkerApplies, store, history
<1>2. modes \in Modes /\ tunings \in [Tunables -> Tunings]
  BY Parts
<1>3. CASE Poll
  <2>1. /\ UNCHANGED <<modes, tunings, snapshot>> /\ lastPower' = power
        /\ worker' \in {"poll", "snapshot"}
    BY <1>3 DEF Poll, hardware
  <2>a. Aside BY <1>1, <1>2, <2>1, Parts DEF Aside, Steps, Tunables
  <2>q. QED BY <2>a, AsideTyped
<1>4. CASE TakeSnapshot
  <2>1. /\ UNCHANGED <<modes, tunings, lastPower>> /\ snapshot' = Mapped(lastPower)
        /\ worker' = IF snapshot' = None THEN "poll" ELSE "cpu"
    BY <1>4 DEF TakeSnapshot, hardware
  <2>2. Mapped(lastPower) \in Bodies \cup {None} BY MappedTyped DEF Typed
  <2>a. Aside BY <1>1, <1>2, <2>1, <2>2, Parts DEF Aside, Steps, Tunables
  <2>q. QED BY <2>a, AsideTyped
<1>5. CASE WorkerApplies
  <2>1. /\ worker \in Steps /\ Apply(worker, snapshot) /\ UNCHANGED <<lastPower, snapshot>>
        /\ worker' = IF After[worker] = "done" THEN "poll" ELSE After[worker]
    BY <1>5 DEF WorkerApplies
  <2>2. PICK b \in Body, k \in Steps : Apply(k, b)
    BY <2>1, BodiesAreBody DEF Typed
  <2>3. modes' \in Modes /\ tunings' \in [Tunables -> Tunings]
    BY <1>2, <2>2, ApplyTyped
  <2>4. worker' \in {"poll"} \cup Steps
    BY <2>1 DEF After, Steps, Tunables
  <2>a. Aside BY <1>1, <2>1, <2>3, <2>4, Parts DEF Aside
  <2>q. QED BY <2>a, AsideTyped
<1>q. QED BY <1>3, <1>4, <1>5

LEMMA HandlerTyped ==
  ASSUME Typed, StoreOK', HandlerApplies \/ RunCurve \/ SetManual
  PROVE  Typed'
<1>1. /\ UNCHANGED <<profiles, pc, request, power, ticking, worker, lastPower,
                     snapshot, switched, overlap>>
      /\ disturbed' = disturbed \/ disturbed' = TRUE
  BY DEF HandlerApplies, RunCurve, SetManual, store, history
<1>2. modes \in Modes /\ tunings \in [Tunables -> Tunings]
  BY Parts
<1>3. CASE HandlerApplies
  <2>1. /\ handler \in Steps /\ Apply(handler, AsHandled(BodyOf(request.id)))
        /\ handler' = IF After[handler] = "done" THEN "idle" ELSE After[handler]
    BY <1>3 DEF HandlerApplies
  <2>2. BodyOf(request.id) \in Bodies BY <2>1, BodyOfKnown DEF Typed
  <2>3. PICK b \in Body, k \in Steps : Apply(k, b)
    BY <2>1, <2>2, BodiesAreBody
  <2>4. modes' \in Modes /\ tunings' \in [Tunables -> Tunings]
    BY <1>2, <2>3, ApplyTyped
  <2>5. handler' = "idle" \/ handler' \in Steps
    BY <2>1 DEF After, Steps, Tunables
  <2>a. Aside BY <1>1, <2>1, <2>4, <2>5, Parts DEF Aside
  <2>q. QED BY <2>a, AsideTyped
<1>4. CASE RunCurve
  <2>1. /\ handler = "curve" /\ handler' = "idle" /\ UNCHANGED tunings
        /\ modes' = [modes EXCEPT !.cpu = request.curve]
    BY <1>4 DEF RunCurve
  <2>2. request.curve \in Curves BY <2>1 DEF Typed
  <2>3. modes' \in Modes BY <1>2, <2>1, <2>2 DEF Modes
  <2>a. Aside BY <1>1, <1>2, <2>1, <2>3, Parts DEF Aside
  <2>q. QED BY <2>a, AsideTyped
<1>5. CASE SetManual
  <2>1. /\ handler = "manual" /\ handler' = "idle" /\ UNCHANGED tunings
        /\ modes' = [modes EXCEPT !.cpu = Manual]
    BY <1>5 DEF SetManual
  <2>2. modes' \in Modes BY <1>2, <2>1 DEF Modes
  <2>a. Aside BY <1>1, <1>2, <2>1, <2>2, Parts DEF Aside
  <2>q. QED BY <2>a, AsideTyped
<1>q. QED BY <1>3, <1>4, <1>5

LEMMA NextTyped == Typed /\ [Next]_vars => Typed'
<1> SUFFICES ASSUME Typed, [Next]_vars PROVE Typed' OBVIOUS
<1>1. StoreOK' BY StoreSteps, NextStoreOK DEF Typed
<1>2. CASE Start \/ Stop BY <1>1, <1>2, StartStopTyped
<1>3. CASE StartUp BY <1>1, <1>3, StartUpTyped
<1>4. CASE Flip \/ TickBegins \/ TickEnds \/ UNCHANGED vars
  <2>1. /\ UNCHANGED <<profiles, pc, request, modes, tunings, worker, lastPower,
                       snapshot, handler, switched, disturbed, overlap>>
        /\ power' \in PowerStates /\ ticking' \in BOOLEAN
    BY <1>4 DEF Flip, TickBegins, TickEnds, vars, store, hardware, history, Typed,
                TypeOK
  <2>a. Aside BY <1>1, <2>1, Parts DEF Aside
  <2>q. QED BY <2>a, AsideTyped, <1>1
<1>5. CASE Poll \/ TakeSnapshot \/ WorkerApplies BY <1>1, <1>5, WorkerTyped
<1>6. CASE Call BY <1>1, <1>6, CallTyped
<1>7. CASE SetFanCurve BY <1>1, <1>7, SetFanCurveTyped
<1>8. CASE Saving BY <1>1, <1>8, SavingTyped
<1>9. CASE HandlerApplies \/ RunCurve \/ SetManual BY <1>1, <1>9, HandlerTyped
<1>q. QED BY <1>2, <1>3, <1>4, <1>5, <1>6, <1>7, <1>8, <1>9 DEF Next

(* Every variable of the daemon has its type, for any profiles, requests and
   faults, and the handler and the store agree on whether a method runs. *)
THEOREM TypeCorrect == Spec => []TypeOK
<1>1. Typed => TypeOK BY DEF Typed
<1>q. QED BY <1>1, InitTyped, NextTyped, PTL DEF Spec

LEMMA AlwaysTyped == Spec => []Typed
BY InitTyped, NextTyped, PTL DEF Spec

(* Handlers, worker and fan task together use the store as ProfileStore describes
   it: what its theorems say of the store alone, they say of the daemon's. *)
THEOREM UsesTheStore == Spec => Store!Spec
<1>1. Init => Store!Init BY DEF Init
<1>2. Typed /\ [Next]_vars => [Store!Next]_(Store!vars) BY StoreSteps
<1>q. QED BY <1>1, <1>2, AlwaysTyped, PTL DEF Spec, Store!Spec

LEMMA StoreKeepsItsWord ==
  ASSUME TrustedClients
  PROVE  Spec => []Store!UniqueIds /\ []Store!AckedOnDisk
<1>1. Store!Spec => StoreP!Spec
  BY SameStore, SameSteps, PTL DEF Store!Spec, StoreP!Spec
<1>2. StoreP!Spec => []StoreP!UniqueIds
  BY DaemonAssumption, StoreP!IdsUnique
<1>3. StoreP!Spec => []StoreP!AckedOnDisk
  BY DaemonAssumption, StoreP!AcksDurable
<1>q. QED BY <1>1, <1>2, <1>3, SameStore, UsesTheStore, PTL

-----------------------------------------------------------------------------
(* Applying a profile, step by step *)

(* The part of Shows that is about one step of applying a profile. *)
StepShown(k, b) ==
  /\ k \in {"cpu", "gpu"} /\ b.control /\ b[k] # None => modes[k] = b[k]
  /\ k \in Tunables /\ b.tuning[k] # None => tunings[k] = b.tuning[k]

(* The steps that come before a step. *)
Before == [cpu |-> {}, gpu |-> {"cpu"}, governor |-> {"cpu", "gpu"},
           turbo |-> {"cpu", "gpu", "governor"},
           epp |-> {"cpu", "gpu", "governor", "turbo"}]

LEMMA ShowsSteps ==
  ASSUME NEW b, \A k \in Steps : StepShown(k, b)
  PROVE  Shows(b)
BY DEF StepShown, Shows, Steps, Tunables

LEMMA SameShown ==
  ASSUME UNCHANGED <<modes, tunings>>, NEW k, NEW b
  PROVE  StepShown(k, b)' <=> StepShown(k, b)
BY DEF StepShown

(* Applying a step shows it, and hides no other. *)
LEMMA ApplyShows ==
  ASSUME DOMAIN modes = {"cpu", "gpu"}, DOMAIN tunings = Tunables,
         "tuning" \notin HardwareFaults, NEW k \in Steps, NEW b, Apply(k, b)
  PROVE  /\ StepShown(k, b)'
         /\ \A j \in Steps : j # k /\ StepShown(j, b) => StepShown(j, b)'
         /\ DOMAIN modes' = {"cpu", "gpu"} /\ DOMAIN tunings' = Tunables
<1>1. CASE k \in {"cpu", "gpu"}
  <2>1. ApplyCurve(k, b) /\ UNCHANGED tunings BY <1>1 DEF Apply, Tunables
  <2>q. QED BY <1>1, <2>1 DEF ApplyCurve, StepShown, Steps, Tunables
<1>2. CASE k \in Tunables
  <2>1. ApplyTuning(k, b) /\ UNCHANGED modes BY <1>2 DEF Apply, Tunables
  <2>q. QED BY <1>2, <2>1 DEF ApplyTuning, StepShown, Steps, Tunables
<1>q. QED BY <1>1, <1>2 DEF Steps

-----------------------------------------------------------------------------
(* The worker leaves the mapped profile behind. *)

Places ==
  /\ power \in PowerStates
  /\ DOMAIN modes = {"cpu", "gpu"} /\ DOMAIN tunings = Tunables
  /\ worker \in {"poll", "snapshot"} \cup Steps
  /\ handler \in {"down", "startup", "idle", "waiting", "saving", "curve", "manual"}
               \cup Steps

(* Nothing has been switched before the daemon serves, and the worker goes on from
   polling only with a power state. *)
Begun ==
  /\ handler \in {"down", "startup"} => worker = "poll" /\ ~ switched
  /\ worker # "poll" => lastPower # "unknown"
  /\ switched => lastPower # "unknown"

(* From the snapshot on, and until a handler begins, no handler is at work, the
   snapshot is the profile of the power state, and what the worker has applied of
   it is still there. *)
Undisturbed ==
  switched /\ ~ disturbed =>
    /\ handler \in {"idle", "waiting", "manual"}
    /\ worker = "poll" /\ Mapped(lastPower) # None =>
         \A k \in Steps : StepShown(k, Mapped(lastPower))
    /\ worker \in Steps =>
         /\ snapshot = Mapped(lastPower)
         /\ \A k \in Before[worker] : StepShown(k, snapshot)

IInv == Places /\ Begun /\ Undisturbed

LEMMA InvInStep == IInv => InStepWithPower
<1>1. SUFFICES ASSUME IInv, switched, ~ disturbed, AtRest, Mapped(power) # None
               PROVE  Shows(Mapped(power))
  BY DEF InStepWithPower
<1>2. worker = "poll" /\ lastPower = power BY <1>1 DEF AtRest
<1>3. \A k \in Steps : StepShown(k, Mapped(power))
  BY <1>1, <1>2 DEF IInv, Undisturbed
<1>q. QED BY <1>3, ShowsSteps

LEMMA InitInv == Init => IInv
BY DEF Init, IInv, Places, Begun, Undisturbed, AtStart, Tunables

LEMMA SameProfiles ==
  ASSUME UNCHANGED <<profiles, settings, lastPower>>
  PROVE  Mapped(lastPower)' = Mapped(lastPower)
BY DEF Mapped, BodyOf, Store!Has, Store!First

(* Steps that change neither the profiles nor the hardware. *)
LEMMA IdleSteps ==
  ASSUME IInv,
         UNCHANGED <<profiles, settings, hardware, worker, lastPower, snapshot, switched>>,
         power' \in PowerStates,
         handler' = handler \/ handler' \in {"idle", "waiting", "manual"} \/ disturbed',
         handler' \in {"down", "startup", "idle", "waiting", "saving", "curve",
                      "manual"} \cup Steps,
         handler' \in {"down", "startup"} => handler \in {"down", "startup"},
         disturbed => disturbed'
  PROVE  IInv'
<1>1. UNCHANGED <<modes, tunings>> BY DEF hardware
<1>2. Places' BY <1>1 DEF IInv, Places
<1>3. Begun' BY DEF IInv, Begun
<1>4. Undisturbed'
  <2>1. Mapped(lastPower)' = Mapped(lastPower) BY SameProfiles
  <2>2. \A k, b : StepShown(k, b)' <=> StepShown(k, b) BY <1>1, SameShown
  <2>q. QED BY <2>1, <2>2 DEF IInv, Undisturbed
<1>q. QED BY <1>2, <1>3, <1>4 DEF IInv

(* A handler that begins either disturbs, or the store has refused and nothing has
   changed. *)
LEMMA BeginKeepsInv ==
  ASSUME IInv, NEW r, Begin(r), handler \in {"idle", "waiting"},
         pc' = "idle" => UNCHANGED <<profiles, settings>>
  PROVE  IInv'
<1>1. /\ UNCHANGED <<power, hardware, worker, lastPower, snapshot, switched>>
      /\ handler' = IF pc' = "idle" THEN "idle" ELSE "saving"
      /\ disturbed' = (disturbed \/ pc' # "idle")
  BY DEF Begin
<1>2. power' \in PowerStates BY <1>1 DEF IInv, Places
<1>3. CASE pc' = "idle"
  <2>1. UNCHANGED <<profiles, settings>> /\ handler' = "idle" BY <1>1, <1>3
  <2>q. QED BY <1>1, <1>2, <2>1, IdleSteps
<1>4. CASE pc' # "idle"
  <2>1. disturbed' /\ handler' = "saving" BY <1>1, <1>4
  <2>2. Places' BY <1>1, <1>2, <2>1 DEF IInv, Places, hardware
  <2>3. Begun' BY <1>1, <2>1 DEF IInv, Begun
  <2>4. Undisturbed' BY <2>1 DEF Undisturbed
  <2>q. QED BY <2>2, <2>3, <2>4 DEF IInv
<1>q. QED BY <1>3, <1>4

(* A method of the store that is not going on to save has changed nothing. *)
LEMMA RefusalChangesNothing ==
  ASSUME \/ \E p : Store!CreateProfile(p)
         \/ \E id, newId : Store!CopyProfile(id, newId)
         \/ \E id, p : Store!UpdateProfile(id, p)
         \/ \E id : Store!DeleteProfile(id)
         \/ \E id, s : Store!SetActiveProfile(id, s)
         \/ \E f : Store!UpdateSettings(f)
         \/ \E m : Store!Refuse(m),
         pc' = "idle"
  PROVE  UNCHANGED <<profiles, settings>>
<1>1. ASSUME NEW p, Store!CreateProfile(p) PROVE UNCHANGED <<profiles, settings>>
  BY <1>1 DEF Store!CreateProfile, Store!Refuse, Store!Save
<1>2. ASSUME NEW id, NEW newId, Store!CopyProfile(id, newId)
      PROVE  UNCHANGED <<profiles, settings>>
  BY <1>1, <1>2 DEF Store!CopyProfile, Store!Refuse
<1>3. ASSUME NEW id, NEW p, Store!UpdateProfile(id, p)
      PROVE  UNCHANGED <<profiles, settings>>
  BY <1>3 DEF Store!UpdateProfile, Store!Refuse, Store!Save
<1>4. ASSUME NEW id, Store!DeleteProfile(id) PROVE UNCHANGED <<profiles, settings>>
  BY <1>4 DEF Store!DeleteProfile, Store!Refuse, Store!Save
<1>5. ASSUME NEW id, NEW s, Store!SetActiveProfile(id, s)
      PROVE  UNCHANGED <<profiles, settings>>
  BY <1>5 DEF Store!SetActiveProfile, Store!Refuse, Store!Save
<1>6. ASSUME NEW f, Store!UpdateSettings(f) PROVE UNCHANGED <<profiles, settings>>
  BY <1>6 DEF Store!UpdateSettings, Store!Save
<1>7. ASSUME NEW m, Store!Refuse(m) PROVE UNCHANGED <<profiles, settings>>
  BY <1>7 DEF Store!Refuse
<1>q. QED BY <1>1, <1>2, <1>3, <1>4, <1>5, <1>6, <1>7

LEMMA CallKeepsInv ==
  ASSUME IInv, Call
  PROVE  IInv'
<1>1. ASSUME NEW id \in Ids, NEW s \in PowerStates, Activate(id, s) PROVE IInv'
  <2>1. /\ handler = "idle" /\ Store!SetActiveProfile(id, s)
        /\ Begin([NoRequest EXCEPT !.kind = "activate", !.id = id, !.state = s])
    BY <1>1 DEF Activate
  <2>2. pc' = "idle" => UNCHANGED <<profiles, settings>>
    BY <2>1, RefusalChangesNothing
  <2>q. QED BY <2>1, <2>2, BeginKeepsInv
<1>2. ASSUME NEW c \in Curves, CallSetFanCurve(c) PROVE IInv'
  <2>1. /\ UNCHANGED <<profiles, settings, hardware, worker, lastPower, snapshot,
                       switched, disturbed, power>>
        /\ handler = "idle" /\ handler' = "waiting"
    BY <1>2 DEF CallSetFanCurve, store, history
  <2>2. power' \in PowerStates BY <2>1 DEF IInv, Places
  <2>q. QED BY <2>1, <2>2, IdleSteps
<1>3. CASE Edit
  <2>1. /\ handler = "idle"
        /\ Begin([NoRequest EXCEPT !.kind = "edit"])
        /\ \/ \E p \in Store!Profile : Store!CreateProfile(p)
           \/ \E id, newId \in Ids : Store!CopyProfile(id, newId)
           \/ \E id \in Ids, p \in Store!Profile : Store!UpdateProfile(id, p)
           \/ \E id \in Ids : Store!DeleteProfile(id)
           \/ \E f \in Flags : Store!UpdateSettings(f)
    BY <1>3 DEF Edit
  <2>2. pc' = "idle" => UNCHANGED <<profiles, settings>>
    BY <2>1, RefusalChangesNothing
  <2>q. QED BY <2>1, <2>2, BeginKeepsInv
<1>4. CASE CallSetManual
  <2>1. /\ UNCHANGED <<profiles, settings, hardware, worker, lastPower, snapshot,
                       switched, disturbed, power>>
        /\ handler = "idle" /\ handler' = "manual"
    BY <1>4 DEF CallSetManual, store, history
  <2>2. power' \in PowerStates BY <2>1 DEF IInv, Places
  <2>q. QED BY <2>1, <2>2, IdleSteps
<1>q. QED BY <1>1, <1>2, <1>3, <1>4 DEF Call

LEMMA SetFanCurveKeepsInv ==
  ASSUME IInv, SetFanCurve
  PROVE  IInv'
<1>1. handler = "waiting" /\ Begin(request) BY DEF SetFanCurve
<1>2. \/ \E m : Store!Refuse(m)
      \/ \E id, p : Store!UpdateProfile(id, p)
  BY DEF SetFanCurve
<1>3. pc' = "idle" => UNCHANGED <<profiles, settings>>
  BY <1>2, RefusalChangesNothing
<1>q. QED BY <1>1, <1>3, BeginKeepsInv

LEMMA SetManualKeepsInv ==
  ASSUME IInv, SetManual
  PROVE  IInv'
<1>1. /\ handler = "manual" /\ handler' = "idle" /\ disturbed' = TRUE
      /\ modes' = [modes EXCEPT !.cpu = Manual]
      /\ UNCHANGED <<power, tunings, worker, lastPower, switched>>
  BY DEF SetManual
<1>2. Places' BY <1>1 DEF IInv, Places
<1>3. Begun' BY <1>1 DEF IInv, Begun
<1>4. Undisturbed' BY <1>1 DEF Undisturbed
<1>q. QED BY <1>2, <1>3, <1>4 DEF IInv

(* The steps of a handler that has begun. *)
LEMMA HandlerKeepsInv ==
  ASSUME IInv, Saving \/ HandlerApplies \/ RunCurve
  PROVE  IInv'
<1>1. /\ UNCHANGED <<power, worker, lastPower, snapshot, history>>
      /\ handler \in {"saving", "curve"} \cup Steps
      /\ handler' \in {"idle", "saving", "curve"} \cup Steps
  <2>1. CASE Saving BY <2>1 DEF Saving, Steps
  <2>2. CASE HandlerApplies BY <2>2 DEF HandlerApplies, Steps, Tunables, After
  <2>3. CASE RunCurve BY <2>3 DEF RunCurve
  <2>q. QED BY <2>1, <2>2, <2>3
<1>2. DOMAIN modes' = DOMAIN modes /\ DOMAIN tunings' = DOMAIN tunings
  <2>1. CASE Saving BY <2>1 DEF Saving, hardware
  <2>2. CASE HandlerApplies
    BY <2>2 DEF HandlerApplies, Apply, ApplyCurve, ApplyTuning
  <2>3. CASE RunCurve BY <2>3 DEF RunCurve
  <2>q. QED BY <2>1, <2>2, <2>3
<1>3. ~ (switched /\ ~ disturbed) BY <1>1 DEF IInv, Undisturbed, Steps, Tunables
<1>4. Places' BY <1>1, <1>2 DEF IInv, Places
<1>5. Begun' BY <1>1 DEF IInv, Begun, history, Steps, Tunables
<1>6. Undisturbed' BY <1>1, <1>3 DEF Undisturbed, history
<1>q. QED BY <1>4, <1>5, <1>6 DEF IInv

LEMMA StartStopKeepsInv ==
  ASSUME IInv, Start \/ StartUp \/ Stop
  PROVE  IInv'
<1>1. CASE Start
  <2>1. /\ handler = "down" /\ handler' = "startup"
        /\ UNCHANGED <<power, modes, tunings, worker, lastPower, switched>>
    BY <1>1 DEF Start, hardware, history
  <2>q. QED BY <2>1 DEF IInv, Places, Begun, Undisturbed
<1>2. CASE StartUp
  <2>1. /\ handler = "startup" /\ handler' = "idle"
        /\ UNCHANGED <<power, tunings, worker, lastPower, switched>>
        /\ DOMAIN modes' = {"cpu", "gpu"}
    BY <1>2 DEF StartUp, history
  <2>q. QED BY <2>1 DEF IInv, Places, Begun, Undisturbed
<1>3. CASE Stop
  BY <1>3 DEF Stop, IInv, Places, Begun, Undisturbed, AtStart
<1>q. QED BY <1>1, <1>2, <1>3

LEMMA AroundKeepsInv ==
  ASSUME IInv, Flip \/ TickBegins \/ TickEnds
  PROVE  IInv'
<1>1. UNCHANGED <<profiles, settings, hardware, worker, lastPower, snapshot, switched,
                  handler, disturbed>>
  BY DEF Flip, TickBegins, TickEnds, store, history
<1>2. power' \in PowerStates BY DEF Flip, TickBegins, TickEnds, IInv, Places
<1>3. handler' \in {"down", "startup", "idle", "waiting", "saving", "curve", "manual"}
                    \cup Steps
  BY <1>1 DEF IInv, Places
<1>q. QED BY <1>1, <1>2, <1>3, IdleSteps

(* The steps of the worker. *)
LEMMA PollKeepsInv ==
  ASSUME IInv, Poll
  PROVE  IInv'
<1>1. /\ handler \notin {"down", "startup"} /\ worker = "poll" /\ lastPower' = power
      /\ worker' = IF lastPower \notin {"unknown", power} THEN "snapshot" ELSE "poll"
      /\ UNCHANGED <<profiles, settings, power, modes, tunings, snapshot, handler,
                     switched, disturbed>>
      /\ power \in PowerStates
  BY DEF Poll, Running, IInv, Places, store, hardware, history
<1>2. power # "unknown" BY <1>1 DEF PowerStates
<1>3. Places' BY <1>1 DEF IInv, Places
<1>4. Begun' BY <1>1, <1>2 DEF IInv, Begun
<1>5. Undisturbed'
  <2>1. CASE lastPower = power
    <3>1. Mapped(lastPower)' = Mapped(lastPower) BY <1>1, <2>1, SameProfiles
    <3>2. \A k, b : StepShown(k, b)' <=> StepShown(k, b) BY <1>1, SameShown
    <3>q. QED BY <1>1, <2>1, <3>1, <3>2 DEF IInv, Undisturbed, Steps, Tunables
  <2>2. CASE lastPower = "unknown"
    BY <1>1, <2>2 DEF IInv, Begun, Undisturbed
  <2>3. CASE lastPower \notin {"unknown", power}
    BY <1>1, <2>3 DEF IInv, Undisturbed, Steps, Tunables
  <2>q. QED BY <2>1, <2>2, <2>3
<1>q. QED BY <1>3, <1>4, <1>5 DEF IInv

LEMMA TakeSnapshotKeepsInv ==
  ASSUME IInv, TakeSnapshot
  PROVE  IInv'
<1>1. /\ worker = "snapshot" /\ ~ StoreLocked
      /\ snapshot' = Mapped(lastPower)
      /\ worker' = IF snapshot' = None THEN "poll" ELSE "cpu"
      /\ UNCHANGED <<profiles, settings, power, modes, tunings, lastPower, handler>>
  BY DEF TakeSnapshot, store, hardware
<1>2. lastPower # "unknown" BY <1>1 DEF IInv, Begun
<1>3. handler \in {"idle", "waiting", "manual"}
  BY <1>1 DEF IInv, Places, Begun, StoreLocked
<1>4. Mapped(lastPower)' = Mapped(lastPower) BY <1>1, SameProfiles
<1>5. Places' BY <1>1 DEF IInv, Places, Steps
<1>6. Begun' BY <1>1, <1>2, <1>3 DEF IInv, Begun
<1>7. Undisturbed'
  BY <1>1, <1>3, <1>4 DEF Undisturbed, Before, Steps, Tunables
<1>q. QED BY <1>5, <1>6, <1>7 DEF IInv

LEMMA WorkerAppliesKeepsInv ==
  ASSUME IInv, "tuning" \notin HardwareFaults, WorkerApplies
  PROVE  IInv'
<1>1. /\ worker \in Steps /\ Apply(worker, snapshot)
      /\ worker' = IF After[worker] = "done" THEN "poll" ELSE After[worker]
      /\ UNCHANGED <<profiles, settings, power, lastPower, snapshot, handler,
                     switched, disturbed>>
      /\ DOMAIN modes = {"cpu", "gpu"} /\ DOMAIN tunings = Tunables
  BY DEF WorkerApplies, IInv, Places, store, history
<1>b. PICK b : b = snapshot OBVIOUS
<1>2. PICK k \in Steps : k = worker /\ b = snapshot BY <1>1, <1>b
<1>3. Apply(k, b) BY <1>1, <1>2
<1>4. /\ StepShown(k, b)'
      /\ \A j \in Steps : j # k /\ StepShown(j, b) => StepShown(j, b)'
      /\ DOMAIN modes' = {"cpu", "gpu"} /\ DOMAIN tunings' = Tunables
  BY <1>1, <1>3, ApplyShows
<1>5. worker' \in {"poll"} \cup Steps
  BY <1>1 DEF Steps, Tunables, After
<1>6. Places' BY <1>1, <1>4, <1>5 DEF IInv, Places
<1>7. Begun' BY <1>1, <1>5 DEF IInv, Begun, Steps, Tunables
<1>8. Undisturbed'
  <2>1. SUFFICES ASSUME switched, ~ disturbed
                 PROVE  Undisturbed'
    BY <1>1 DEF Undisturbed
  <2>2. /\ handler \in {"idle", "waiting", "manual"}
        /\ b = Mapped(lastPower)
        /\ \A j \in Before[k] : StepShown(j, b)
    BY <1>1, <1>2, <2>1 DEF IInv, Undisturbed
  <2>3. b = Mapped(lastPower)' /\ b = snapshot'
    <3>1. Mapped(lastPower)' = Mapped(lastPower) BY <1>1, SameProfiles
    <3>q. QED BY <1>1, <1>2, <2>2, <3>1
  <2>4. Before[k] \subseteq Steps \ {k}
    BY DEF Before, Steps, Tunables
  <2>5. \A j \in Before[k] \cup {k} : StepShown(j, b)'
    BY <1>4, <2>2, <2>4
  <2>6. /\ worker' \in Steps => Before[worker'] = Before[k] \cup {k}
        /\ worker' = "poll" => Steps = Before[k] \cup {k}
    BY <1>1, <1>2 DEF Before, After, Steps, Tunables
  <2>7. /\ worker' \in Steps => \A j \in Before[worker'] : StepShown(j, b)'
        /\ worker' = "poll" => \A j \in Steps : StepShown(j, b)'
    BY <2>5, <2>6
  <2>q. QED BY <1>1, <2>2, <2>3, <2>7 DEF Undisturbed
<1>q. QED BY <1>6, <1>7, <1>8 DEF IInv

LEMMA StepInv ==
  ASSUME IInv, "tuning" \notin HardwareFaults, [Next]_vars
  PROVE  IInv'
<1>1. CASE Start \/ StartUp \/ Stop BY <1>1, StartStopKeepsInv
<1>2. CASE Flip \/ TickBegins \/ TickEnds BY <1>2, AroundKeepsInv
<1>3. CASE Poll BY <1>3, PollKeepsInv
<1>4. CASE TakeSnapshot BY <1>4, TakeSnapshotKeepsInv
<1>5. CASE WorkerApplies BY <1>5, WorkerAppliesKeepsInv
<1>6. CASE Call BY <1>6, CallKeepsInv
<1>7. CASE SetFanCurve BY <1>7, SetFanCurveKeepsInv
<1>8. CASE Saving \/ HandlerApplies \/ RunCurve BY <1>8, HandlerKeepsInv
<1>9. CASE SetManual BY <1>9, SetManualKeepsInv
<1>10. CASE UNCHANGED vars
  <2>1. UNCHANGED <<profiles, settings, hardware, worker, lastPower, snapshot,
                    switched, disturbed, handler, power>>
    BY <1>10 DEF vars, store, history
  <2>2. /\ power' \in PowerStates
        /\ handler' \in {"down", "startup", "idle", "waiting", "saving", "curve",
                         "manual"} \cup Steps
    BY <2>1 DEF IInv, Places
  <2>q. QED BY <2>1, <2>2, IdleSteps
<1>q. QED
  BY <1>1, <1>2, <1>3, <1>4, <1>5, <1>6, <1>7, <1>8, <1>9, <1>10 DEF Next

(* For every set of profiles, requests and curves: once the worker has switched to
   the profile of a power state, and until a handler begins, the hardware runs that
   profile whenever the worker is at rest and has seen the state.  The writes of
   the CPU settings are taken not to fail: the worker logs such an error and goes
   on. *)
THEOREM StaysInStep ==
  ASSUME "tuning" \notin HardwareFaults
  PROVE  Spec => []InStepWithPower
<1>1. Init => IInv BY InitInv
<1>2. IInv /\ [Next]_vars => IInv' BY StepInv
<1>3. IInv => InStepWithPower BY InvInStep
<1>q. QED BY <1>1, <1>2, <1>3, PTL DEF Spec

-----------------------------------------------------------------------------
(* An answer means the profile is applied. *)

(* What a handler was asked is in the store. *)
Asked ==
  /\ request.kind = "activate" => settings.stateMap[request.state] = request.id
  /\ request.kind = "curve" => /\ Mapped(request.state) # None
                               /\ Mapped(request.state).cpu = request.curve

(* While a handler has the store locked, what it was asked stays there; the worker
   begins to apply nothing, and what the handler has applied stays too. *)
Held ==
  StoreLocked =>
    /\ Asked
    /\ ~ overlap => worker \notin Steps
    /\ handler # "saving" => reply = "ok"
    /\ handler \in Steps => request.kind = "activate"
    /\ handler \in Steps /\ ~ overlap =>
         \A k \in Before[handler] : StepShown(k, AsHandled(BodyOf(request.id)))

LEMMA SameAsked ==
  ASSUME UNCHANGED <<profiles, settings, request>>, Asked
  PROVE  Asked' /\ BodyOf(request.id)' = BodyOf(request.id)
BY DEF Asked, Mapped, BodyOf, Store!Has, Store!First

(* Steps around a handler at work. *)
LEMMA AroundHeld ==
  ASSUME Held,
         UNCHANGED <<profiles, settings, request, reply, handler, overlap>>,
         UNCHANGED <<modes, tunings>> \/ (StoreLocked => overlap),
         worker' \in Steps /\ StoreLocked => worker \in Steps
  PROVE  Held'
<1> SUFFICES ASSUME StoreLocked' PROVE Held' BY DEF Held
<1>1. StoreLocked BY DEF StoreLocked
<1>2. Asked' /\ BodyOf(request.id)' = BodyOf(request.id)
  BY <1>1, SameAsked DEF Held
<1>3. ~ overlap' => worker' \notin Steps BY <1>1 DEF Held
<1>4. (handler' # "saving" => reply' = "ok") /\ (handler' \in Steps => request'.kind = "activate")
  BY <1>1 DEF Held
<1>5. ASSUME handler' \in Steps, ~ overlap', NEW k \in Before[handler']
      PROVE  StepShown(k, AsHandled(BodyOf(request.id)))'
  <2>1. UNCHANGED <<modes, tunings>> BY <1>1, <1>5
  <2>2. k \in Before[handler] BY <1>5
  <2>3. StepShown(k, AsHandled(BodyOf(request.id))) BY <1>1, <1>5, <2>2 DEF Held
  <2>4. PICK b : b = AsHandled(BodyOf(request.id)) OBVIOUS
  <2>5. StepShown(k, b)' BY <2>1, <2>3, <2>4, SameShown
  <2>6. b = AsHandled(BodyOf(request.id))' BY <1>2, <2>4 DEF AsHandled
  <2>q. QED BY <2>5, <2>6
<1>q. QED BY <1>2, <1>3, <1>4, <1>5 DEF Held

(* A handler that goes on to save has the store. *)
LEMMA BeginHeld ==
  ASSUME NEW r, Begin(r), handler' = "saving" => Asked'
  PROVE  Held'
<1>1. handler' \in {"idle", "saving"} /\ overlap' = (worker \in Steps) /\ worker' = worker
  BY DEF Begin
<1>2. StoreLocked' => handler' = "saving"
  BY <1>1 DEF StoreLocked, Steps, Tunables
<1>q. QED BY <1>1, <1>2 DEF Held, Steps, Tunables

LEMMA ActivateHeld ==
  ASSUME Typed, NEW id \in Ids, NEW s \in PowerStates, Activate(id, s)
  PROVE  Held'
<1> DEFINE r == [NoRequest EXCEPT !.kind = "activate", !.id = id, !.state = s]
<1>1. /\ handler = "idle" /\ Store!SetActiveProfile(id, s) /\ Begin(r)
  BY DEF Activate
<1>2. pc = "idle" BY <1>1 DEF Typed, TypeOK
<1>3. r.kind = "activate" /\ r.id = id /\ r.state = s BY DEF NoRequest
<1>4. request' = r /\ (handler' = "saving" => pc' # "idle") BY <1>1 DEF Begin
<1>5. ASSUME pc' # "idle" PROVE settings'.stateMap[s] = id
  <2>1. settings' = [settings EXCEPT !.stateMap[s] = id]
    BY <1>1, <1>2, <1>5 DEF Store!SetActiveProfile, Store!Refuse
  <2>2. settings \in Store!Settings BY DEF Typed, StoreOK, Store!TypeOK
  <2>q. QED BY <2>1, <2>2 DEF Store!Settings
<1> HIDE DEF r
<1>6. handler' = "saving" => Asked' BY <1>3, <1>4, <1>5 DEF Asked
<1>q. QED BY <1>1, <1>6, BeginHeld

(* The curve is found where it has been put, as no other profile has that id. *)
LEMMA SetFanCurveHeld ==
  ASSUME Typed, StoreOK', Store!UniqueIds', SetFanCurve
  PROVE  Held'
<1> DEFINE id == settings.stateMap[request.state]
           pos == Store!First(profiles, id)
           p == [id |-> id, body |-> [BodyOf(id) EXCEPT !.cpu = request.curve]]
<1>1. handler = "waiting" /\ Begin(request) BY DEF SetFanCurve
<1>2. pc = "idle" /\ request.kind = "curve" /\ request.curve \in Curves
  BY <1>1 DEF Typed, TypeOK
<1>3. request' = request /\ (handler' = "saving" => pc' # "idle")
  BY <1>1 DEF Begin
<1>4. ASSUME pc' # "idle" PROVE Asked'
  <2>1. Store!UpdateProfile(id, p) BY <1>2, <1>4 DEF SetFanCurve, Store!Refuse, Mapped
  <2>2. /\ Store!Has(profiles, id) /\ UNCHANGED settings
        /\ profiles' = [profiles EXCEPT ![pos] = p]
    BY <1>2, <1>4, <2>1 DEF Store!UpdateProfile, Store!Refuse
  <2>3. pos \in 1 .. Len(profiles) /\ profiles[pos].id = id /\ profiles \in Seq(Store!Profile)
    BY <2>2, FirstOfStore DEF Typed
  <2>4. BodyOf(id) \in Bodies BY <2>2, BodyOfKnown DEF Typed
  <2>5. [BodyOf(id) EXCEPT !.cpu = request.curve] \in Bodies
    BY <1>2, <2>4, DaemonAssumption
  <2>6. p.id = id /\ p.body = [BodyOf(id) EXCEPT !.cpu = request.curve] OBVIOUS
  <2>7. p.body.cpu = request.curve
    <3>1. BodyOf(id) \in Body BY <2>4, DaemonAssumption
    <3>q. QED BY <2>6, <3>1 DEF Body
  <2> HIDE DEF p
  <2>8. Len(profiles') = Len(profiles) /\ profiles'[pos] = p BY <2>2, <2>3
  <2>9. Store!Has(profiles', id) BY <2>3, <2>6, <2>8 DEF Store!Has
  <2>10. /\ Store!First(profiles', id) \in 1 .. Len(profiles')
         /\ profiles'[Store!First(profiles', id)].id = id
    BY <2>9, FirstOfNext
  <2>11. Store!First(profiles', id) = pos
    BY <2>3, <2>6, <2>8, <2>10 DEF Store!UniqueIds, Store!Distinct
  <2>12. id' = id BY <1>3, <2>2
  <2>13. Mapped(request.state)' = p.body
    <3>1. Mapped(request.state)' = IF Store!Has(profiles', id')
                                   THEN profiles'[Store!First(profiles', id')].body
                                   ELSE None
      BY DEF Mapped, BodyOf
    <3> HIDE DEF id, pos
    <3>q. QED BY <2>8, <2>9, <2>11, <2>12, <3>1
  <2>14. p.body # None BY <2>5, <2>6, DaemonAssumption
  <2>q. QED BY <1>2, <1>3, <2>7, <2>13, <2>14 DEF Asked
<1>q. QED BY <1>1, <1>3, <1>4, BeginHeld

LEMMA SavingHeld ==
  ASSUME Typed, Held, Saving
  PROVE  Held'
<1>1. /\ handler = "saving"
      /\ handler' = IF pc' # "idle" THEN "saving"
                    ELSE IF reply' = "ok" /\ request.kind = "activate" THEN "cpu"
                    ELSE IF reply' = "ok" /\ request.kind = "curve" THEN "curve"
                    ELSE "idle"
      /\ UNCHANGED <<profiles, settings, request, worker, overlap>>
  BY SaveStepGoesOn DEF Saving, history
<1>2. StoreLocked BY <1>1 DEF StoreLocked
<1>3. Asked' BY <1>1, <1>2, SameAsked DEF Held
<1>4. ~ overlap' => worker' \notin Steps BY <1>1, <1>2 DEF Held
<1>5. handler' \in {"saving", "cpu", "curve", "idle"} BY <1>1
<1>6. handler' \in {"cpu", "curve"} => reply' = "ok" BY <1>1
<1>7. handler' = "cpu" => request'.kind = "activate" BY <1>1
<1>8. Before["cpu"] = {} BY DEF Before
<1>q. QED
  BY <1>3, <1>4, <1>5, <1>6, <1>7, <1>8 DEF Held, StoreLocked, Steps, Tunables

LEMMA HandlerAppliesHeld ==
  ASSUME Typed, Held, "tuning" \notin HardwareFaults, HandlerApplies
  PROVE  /\ Held'
         /\ handler' = "idle" /\ ~ overlap =>
              \A k \in Steps : StepShown(k, AsHandled(BodyOf(request.id)))'
<1>1. /\ handler \in Steps /\ Apply(handler, AsHandled(BodyOf(request.id)))
      /\ handler' = IF After[handler] = "done" THEN "idle" ELSE After[handler]
      /\ UNCHANGED <<profiles, settings, request, reply, worker, overlap>>
  BY DEF HandlerApplies, store, history
<1>2. StoreLocked BY <1>1 DEF StoreLocked
<1>3. Asked' /\ BodyOf(request.id)' = BodyOf(request.id)
  BY <1>1, <1>2, SameAsked DEF Held
<1>4. /\ ~ overlap' => worker' \notin Steps
      /\ reply' = "ok" /\ request'.kind = "activate"
  <2>1. handler # "saving" BY <1>1 DEF Steps, Tunables
  <2>q. QED BY <1>1, <1>2, <2>1 DEF Held
<1>b. PICK b : b = AsHandled(BodyOf(request.id)) OBVIOUS
<1>5. PICK k \in Steps : k = handler /\ b = AsHandled(BodyOf(request.id))
  BY <1>1, <1>b
<1>6. b = AsHandled(BodyOf(request.id))' BY <1>3, <1>5 DEF AsHandled
<1>7. handler' = "idle" \/ handler' \in Steps
  BY <1>1 DEF After, Steps, Tunables
<1>8. /\ StepShown(k, b)'
      /\ \A j \in Steps : j # k /\ StepShown(j, b) => StepShown(j, b)'
  <2>1. Apply(k, b) BY <1>1, <1>5
  <2>2. DOMAIN modes = {"cpu", "gpu"} /\ DOMAIN tunings = Tunables
    BY Parts DEF Modes
  <2>q. QED BY <2>1, <2>2, ApplyShows
<1>9. /\ handler' \in Steps => Before[handler'] = Before[k] \cup {k}
      /\ handler' = "idle" => Steps = Before[k] \cup {k}
  BY <1>1, <1>5 DEF Before, After, Steps, Tunables
<1>10. ASSUME ~ overlap PROVE \A j \in Before[k] \cup {k} : StepShown(j, b)'
  <2>1. \A j \in Before[k] : StepShown(j, b) BY <1>1, <1>2, <1>5, <1>10 DEF Held
  <2>2. Before[k] \subseteq Steps \ {k} BY DEF Before, Steps, Tunables
  <2>q. QED BY <1>8, <2>1, <2>2
<1>11. /\ handler' \in Steps /\ ~ overlap => \A j \in Before[handler'] : StepShown(j, b)'
       /\ handler' = "idle" /\ ~ overlap => \A j \in Steps : StepShown(j, b)'
  BY <1>9, <1>10
<1>12. Held'
  BY <1>1, <1>3, <1>4, <1>6, <1>7, <1>11 DEF Held, StoreLocked, Steps, Tunables
<1>q. QED BY <1>6, <1>11, <1>12

LEMMA NextHeld ==
  ASSUME "tuning" \notin HardwareFaults
  PROVE  Typed /\ Held /\ [Next]_vars /\ Typed' /\ Store!UniqueIds' => Held'
<1> SUFFICES ASSUME Typed, Held, [Next]_vars, Typed', Store!UniqueIds'
             PROVE  Held'
  OBVIOUS
<1>1. ASSUME ~ StoreLocked' PROVE Held' BY <1>1 DEF Held
<1>2. CASE Start \/ StartUp \/ Stop \/ RunCurve \/ SetManual
  <2>1. handler' \in {"startup", "idle", "down"}
    BY <1>2 DEF Start, StartUp, Stop, RunCurve, SetManual
  <2>q. QED BY <1>1, <2>1 DEF StoreLocked, Steps, Tunables
<1>3. CASE Flip \/ TickBegins \/ TickEnds \/ Poll \/ UNCHANGED vars
  <2>1. /\ UNCHANGED <<profiles, settings, request, reply, handler, overlap, modes,
                       tunings>>
        /\ worker' = worker \/ worker' \in {"poll", "snapshot"}
    BY <1>3 DEF Flip, TickBegins, TickEnds, Poll, vars, store, hardware, history
  <2>q. QED BY <2>1, AroundHeld DEF Steps, Tunables
<1>4. CASE TakeSnapshot
  <2>1. ~ StoreLocked /\ handler' = handler BY <1>4 DEF TakeSnapshot
  <2>q. QED BY <1>1, <2>1 DEF StoreLocked
<1>5. CASE WorkerApplies
  <2>1. /\ UNCHANGED <<profiles, settings, request, reply, handler, overlap>>
        /\ worker \in Steps
    BY <1>5 DEF WorkerApplies, store, history
  <2>2. StoreLocked => overlap
    BY <2>1 DEF Held
  <2>q. QED BY <2>1, <2>2, AroundHeld
<1>6. CASE Call
  <2>1. ASSUME NEW id \in Ids, NEW s \in PowerStates, Activate(id, s) PROVE Held'
    BY <2>1, ActivateHeld
  <2>2. ASSUME NEW c \in Curves, CallSetFanCurve(c) PROVE Held'
    BY <1>1, <2>2 DEF CallSetFanCurve, StoreLocked, Steps, Tunables
  <2>3. CASE Edit
    <3> DEFINE r == [NoRequest EXCEPT !.kind = "edit"]
    <3>1. Begin(r) BY <2>3 DEF Edit
    <3>2. r.kind = "edit" BY DEF NoRequest
    <3>3. Asked' BY <3>1, <3>2 DEF Begin, Asked
    <3> HIDE DEF r
    <3>q. QED BY <3>1, <3>3, BeginHeld
  <2>4. CASE CallSetManual
    BY <1>1, <2>4 DEF CallSetManual, StoreLocked, Steps, Tunables
  <2>q. QED BY <1>6, <2>1, <2>2, <2>3, <2>4 DEF Call
<1>7. CASE SetFanCurve BY <1>7, SetFanCurveHeld DEF Typed
<1>8. CASE Saving BY <1>8, SavingHeld
<1>9. CASE HandlerApplies BY <1>9, HandlerAppliesHeld
<1>q. QED
  BY <1>2, <1>3, <1>4, <1>5, <1>6, <1>7, <1>8, <1>9 DEF Next

LEMMA AnswerStep ==
  ASSUME Typed, Held, "tuning" \notin HardwareFaults, [Next]_vars, Typed',
         Store!AckedOnDisk',
         handler' = "idle", handler \in Steps \cup {"curve"}, ~ overlap
  PROVE  AppliedAsAsked'
<1>1. StoreLocked /\ handler # "saving" BY DEF StoreLocked, Steps, Tunables
<1>2. reply = "ok" /\ Asked BY <1>1 DEF Held
<1>3. HandlerApplies \/ RunCurve \/ Stop
  BY DEF Next, Start, StartUp, Flip, TickBegins, TickEnds, Poll, TakeSnapshot,
         WorkerApplies, Call, Activate, Edit, CallSetFanCurve, CallSetManual, SetManual,
         SetFanCurve, Saving, vars, Steps, Tunables
<1>4. HandlerApplies \/ RunCurve BY <1>3 DEF Stop
<1>5. UNCHANGED <<profiles, settings, request, reply>>
  BY <1>4 DEF HandlerApplies, RunCurve, store
<1>6. /\ Asked' /\ BodyOf(request.id)' = BodyOf(request.id)
      /\ reply' = "ok"
  BY <1>2, <1>5, SameAsked
<1>7. CASE HandlerApplies
  <2>1. handler \in Steps BY <1>7 DEF HandlerApplies
  <2>2. request'.kind = "activate" BY <1>1, <1>5, <2>1 DEF Held
  <2>3. Mapped(request.state)' = BodyOf(request.id)'
    BY <1>6, <2>2 DEF Asked, Mapped, BodyOf
  <2>4. BodyOf(request.id)' # None
    BY <1>6, <2>1, BodyOfKnown DEF Typed
  <2>5. PICK b : b = AsHandled(BodyOf(request.id))' OBVIOUS
  <2>6. \A k \in Steps : StepShown(k, b)'
    BY <1>7, <2>5, HandlerAppliesHeld
  <2>7. Shows(b)' BY <2>6 DEF StepShown, Shows, Steps, Tunables
  <2>8. Shows(AsHandled(Mapped(request.state)))'
    <3>1. b = AsHandled(Mapped(request.state))' BY <2>3, <2>5 DEF AsHandled
    <3>q. QED BY <2>7, <3>1 DEF Shows
  <2>q. QED BY <1>6, <2>2, <2>3, <2>4, <2>8 DEF AppliedAsAsked
<1>8. CASE RunCurve
  <2>1. handler = "curve" /\ modes' = [modes EXCEPT !.cpu = request.curve]
    BY <1>8 DEF RunCurve
  <2>2. request'.kind = "curve" BY <1>5, <2>1 DEF Typed
  <2>3. modes'.cpu = request'.curve BY <1>5, <2>1, Parts DEF Modes
  <2>4. Mapped(request.state)' # None /\ Mapped(request.state)'.cpu = request'.curve
    BY <1>6, <2>2 DEF Asked
  <2>q. QED BY <1>6, <2>2, <2>3, <2>4 DEF AppliedAsAsked
<1>q. QED BY <1>4, <1>7, <1>8

(* For every set of profiles, requests, curves and faults of the disk: when
   set_active_profile or set_fan_curve answers that it has done what it was asked,
   the hardware runs it and the disk has it, if the worker was not applying another
   profile when the handler began.  Clients send back the profile they were given,
   and the writes of the CPU settings do not fail. *)
THEOREM AnswersHold ==
  ASSUME TrustedClients, "tuning" \notin HardwareFaults
  PROVE  Spec => AnsweredMeansApplied
<1>1. Init => Held BY DEF Init, Held, StoreLocked, Steps, Tunables
<1>2. Typed /\ Held /\ [Next]_vars /\ Typed' /\ Store!UniqueIds' => Held'
  BY NextHeld
<1>3. Typed /\ Held /\ [Next]_vars /\ Typed' /\ Store!AckedOnDisk'
        => [handler' = "idle" /\ handler \in Steps \cup {"curve"} /\ ~ overlap
              => AppliedAsAsked']_vars
  BY AnswerStep
<1>q. QED
  BY <1>1, <1>2, <1>3, AlwaysTyped, StoreKeepsItsWord, PTL
  DEF Spec, AnsweredMeansApplied
=============================================================================
