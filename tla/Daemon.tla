------------------------------- MODULE Daemon -------------------------------
(***************************************************************************)
(* The daemon as a whole (tccd-daemon/src/main.rs, workers/power.rs): the  *)
(* D-Bus handlers, the worker that switches profiles when the power state  *)
(* changes, and the fan task, around one ProfileStore.                     *)
(*                                                                         *)
(* The handlers that change anything take &mut self, so they run one at a  *)
(* time.  The worker and the fan task are tasks of their own on a runtime  *)
(* with several threads.  What they share is guarded by two mutexes: that  *)
(* of the store, which a handler holds from its first look at the store    *)
(* until it returns and the worker only while it clones a profile, and     *)
(* that of the fan modes, which the fan task holds for one tick.  The      *)
(* hardware is not guarded.                                                *)
(***************************************************************************)
EXTENDS Naturals, Sequences

CONSTANTS
  Ids, DefaultIds, FallbackId, Bodies, FactoryBodies,   \* see ProfileStore
  Flags, DefaultFlags, TrustedClients, Faults, MaxProfiles,
  Curves,          \* fan tables
  Tunings,         \* values of the CPU settings of a profile
  None,            \* a curve or a setting that a profile does not have
  Manual,          \* the CPU fan runs at a fixed speed
  Requests,        \* which of "activate", "curve", "edit" and "manual" come
  HardwareFaults,  \* which of "power" (its reading) and "tuning" can fail
  MayStop          \* TRUE: the daemon may stop and be started again

PowerStates == {"ac", "bat"}

VARIABLES
  profiles, settings, profilesFile, settingsFile, pc, op, reply

Store == INSTANCE ProfileStore

VARIABLES
  power,      \* what is_ac_power reads
  modes,      \* the modes of the fan task: cpu (fan 0) and gpu (fan 1)
  tunings,    \* the CPU settings in the hardware
  ticking,    \* the fan task holds the mutex of the modes
  worker,     \* where the power worker is
  lastPower,  \* its last_on_ac, "unknown" before the first poll
  snapshot,   \* the profile it is applying
  handler,    \* where the handler that runs is
  request,    \* what it was asked
  switched,   \* history: the worker has switched since the daemon started
  disturbed,  \* history: a handler has begun since the worker's snapshot
  overlap     \* history: the worker was applying when this handler began

store == <<profiles, settings, profilesFile, settingsFile, pc, op, reply>>
hardware == <<modes, tunings>>
history == <<switched, disturbed, overlap>>
vars == <<store, power, hardware, ticking, worker, lastPower, snapshot,
          handler, request, history>>

-----------------------------------------------------------------------------
(* Profiles on the hardware *)

(* The CPU settings a profile carries, in the order they are written. *)
Tunables == {"governor", "turbo", "epp"}
Steps == {"cpu", "gpu"} \cup Tunables
After == [cpu |-> "gpu", gpu |-> "governor", governor |-> "turbo",
          turbo |-> "epp", epp |-> "done"]

(* What a profile holds besides its id: fan.use_control, the tables for the
   two fans, and the CPU settings. *)
Body == [control : BOOLEAN, cpu : Curves \cup {None}, gpu : Curves \cup {None},
         tuning : [Tunables -> Tunings \cup {None}]]

ASSUME DaemonAssumption ==
  /\ Bodies \subseteq Body
  /\ \A b \in Bodies, c \in Curves : [b EXCEPT !.cpu = c] \in Bodies
  /\ None \notin Curves \cup Tunings \cup Body
  /\ Manual \notin Curves \cup {None}
  /\ Requests \subseteq {"activate", "curve", "edit", "manual"}
  /\ HardwareFaults \subseteq {"power", "tuning"}
  /\ MayStop \in BOOLEAN
  /\ Store!StoreAssumption
  /\ DefaultIds # << >>

(* get_profile *)
BodyOf(id) ==
  IF Store!Has(profiles, id) THEN profiles[Store!First(profiles, id)].body
                             ELSE None

(* The profile mapped to a power state. *)
Mapped(s) == BodyOf(settings.stateMap[s])

(* Handlers and start-up look at the table of the GPU fan only when there is
   one for the CPU fan; the worker looks at each of them. *)
AsHandled(b) == IF b.cpu = None THEN [b EXCEPT !.gpu = None] ELSE b

(* The mode of a fan becomes the table of the profile, if it has one and
   controls the fans: that takes the mutex of the modes. *)
ApplyCurve(f, b) ==
  \/ /\ b.control /\ b[f] # None
     /\ ~ ticking
     /\ modes' = [modes EXCEPT ![f] = b[f]]
  \/ /\ ~ (b.control /\ b[f] # None)
     /\ UNCHANGED modes

(* A CPU setting is written best-effort: an error is logged. *)
ApplyTuning(k, b) ==
  \/ /\ b.tuning[k] # None
     /\ tunings' = [tunings EXCEPT ![k] = b.tuning[k]]
  \/ /\ b.tuning[k] = None \/ "tuning" \in HardwareFaults
     /\ UNCHANGED tunings

Apply(step, b) ==
  \/ step \in {"cpu", "gpu"} /\ ApplyCurve(step, b) /\ UNCHANGED tunings
  \/ step \in Tunables /\ ApplyTuning(step, b) /\ UNCHANGED modes

(* The hardware runs as the profile says, where it says something. *)
Shows(b) ==
  /\ \A f \in {"cpu", "gpu"} : b.control /\ b[f] # None => modes[f] = b[f]
  /\ \A k \in Tunables : b.tuning[k] # None => tunings[k] = b.tuning[k]

-----------------------------------------------------------------------------
(* Start, stop, and the power supply *)

AtStart == [cpu |-> Manual, gpu |-> None]
NoRequest == [kind |-> "none", id |-> FallbackId, state |-> "ac", curve |-> None]

Init ==
  /\ Store!Init
  /\ power \in PowerStates
  /\ modes = AtStart
  /\ tunings \in {[k \in Tunables |-> t] : t \in Tunings}
  /\ ticking = FALSE
  /\ worker = "poll" /\ lastPower = "unknown" /\ snapshot = None
  /\ handler = "down" /\ request = NoRequest
  /\ switched = FALSE /\ disturbed = FALSE /\ overlap = FALSE

Start ==
  /\ handler = "down"
  /\ Store!Start
  /\ handler' = "startup"
  /\ UNCHANGED <<power, hardware, ticking, worker, lastPower, snapshot,
                 request, history>>

(* main loads the curves of the profile mapped to the power state, or of the
   first profile, before it spawns the worker and serves the handlers. *)
StartUp ==
  /\ handler = "startup"
  /\ ~ ticking
  /\ \E s \in {power} \cup (IF "power" \in HardwareFaults THEN {"ac"} ELSE {}) :
       LET b == AsHandled(IF Mapped(s) = None THEN profiles[1].body
                                              ELSE Mapped(s)) IN
       modes' = [f \in {"cpu", "gpu"} |->
                   IF b.control /\ b[f] # None THEN b[f] ELSE modes[f]]
  /\ handler' = "idle"
  /\ UNCHANGED <<store, power, tunings, ticking, worker, lastPower, snapshot,
                 request, history>>

(* The CPU settings stay in the hardware; the fan task starts afresh. *)
Stop ==
  /\ MayStop
  /\ Store!Stop
  /\ modes' = AtStart
  /\ ticking' = FALSE
  /\ worker' = "poll" /\ lastPower' = "unknown" /\ snapshot' = None
  /\ handler' = "down" /\ request' = NoRequest
  /\ switched' = FALSE /\ disturbed' = FALSE /\ overlap' = FALSE
  /\ UNCHANGED <<power, tunings>>

(* The supply is plugged in or pulled out. *)
Flip ==
  /\ power' \in PowerStates \ {power}
  /\ UNCHANGED <<store, hardware, ticking, worker, lastPower, snapshot,
                 handler, request, history>>

(* The fan task takes and releases the mutex of the modes. *)
TickBegins ==
  /\ handler # "down"
  /\ ~ ticking
  /\ ticking' = TRUE
  /\ UNCHANGED <<store, power, hardware, worker, lastPower, snapshot,
                 handler, request, history>>

(* Mutant of StoreLocked: a handler releases the mutex when it has saved. *)
LockedWhileSaving == handler = "saving"

(* A handler that changes the store holds its mutex until it returns. *)
StoreLocked == handler \in {"saving", "curve"} \cup Steps

(* Mutant of TickEnds: the fan task looks something up in the store before it
   releases the modes. *)
TickEndsAfterStore ==
  /\ ticking
  /\ ~ StoreLocked
  /\ ticking' = FALSE
  /\ UNCHANGED <<store, power, hardware, worker, lastPower, snapshot,
                 handler, request, history>>

TickEnds ==
  /\ ticking
  /\ ticking' = FALSE
  /\ UNCHANGED <<store, power, hardware, worker, lastPower, snapshot,
                 handler, request, history>>

-----------------------------------------------------------------------------
(* The power worker *)

Running == handler \notin {"down", "startup"}

(* Mutant of Poll: the reading is kept only when it is a change. *)
PollKeepsChanges ==
  /\ Running
  /\ worker = "poll"
  /\ \/ /\ lastPower # "unknown" /\ lastPower # power
        /\ lastPower' = power
        /\ worker' = "snapshot"
     \/ /\ lastPower = "unknown" \/ lastPower = power
        /\ UNCHANGED <<lastPower, worker>>
  /\ UNCHANGED <<store, power, hardware, ticking, snapshot, handler, request,
                 history>>

(* A poll that reads the power state.  The first one has nothing to compare
   its reading with; one that fails changes nothing. *)
Poll ==
  /\ Running
  /\ worker = "poll"
  /\ lastPower' = power
  /\ worker' = IF lastPower \notin {"unknown", power} THEN "snapshot" ELSE "poll"
  /\ UNCHANGED <<store, power, hardware, ticking, snapshot, handler, request,
                 history>>

(* The mapped profile is cloned under the mutex of the store. *)
TakeSnapshot ==
  /\ worker = "snapshot"
  /\ ~ StoreLocked
  /\ snapshot' = Mapped(lastPower)
  /\ worker' = IF snapshot' = None THEN "poll" ELSE "cpu"
  /\ switched' = TRUE
  /\ disturbed' = FALSE
  /\ UNCHANGED <<store, power, hardware, ticking, lastPower, handler, request,
                 overlap>>

(* Mutant of WorkerApplies: it goes to sleep after the fans. *)
WorkerAppliesCurves ==
  /\ worker \in Steps
  /\ Apply(worker, snapshot)
  /\ worker' = IF worker = "gpu" THEN "poll" ELSE After[worker]
  /\ UNCHANGED <<store, power, ticking, lastPower, snapshot, handler, request,
                 history>>

WorkerApplies ==
  /\ worker \in Steps
  /\ Apply(worker, snapshot)
  /\ worker' = IF After[worker] = "done" THEN "poll" ELSE After[worker]
  /\ UNCHANGED <<store, power, ticking, lastPower, snapshot, handler, request,
                 history>>

-----------------------------------------------------------------------------
(* The handlers *)

(* A handler has called the store and goes on to save, unless the store has
   refused. *)
Begin(r) ==
  /\ request' = r
  /\ handler' = IF pc' = "idle" THEN "idle" ELSE "saving"
  /\ disturbed' = (disturbed \/ pc' # "idle")
  /\ overlap' = (worker \in Steps)
  /\ UNCHANGED <<power, hardware, ticking, worker, lastPower, snapshot, switched>>

(* set_active_profile *)
Activate(id, s) ==
  /\ "activate" \in Requests
  /\ handler = "idle"
  /\ Store!SetActiveProfile(id, s)
  /\ Begin([NoRequest EXCEPT !.kind = "activate", !.id = id, !.state = s])

(* create_profile, copy_profile, update_profile, delete_profile and
   set_global_settings. *)
Edit ==
  /\ "edit" \in Requests
  /\ handler = "idle"
  /\ \/ \E p \in Store!Profile : Store!CreateProfile(p)
     \/ \E id, newId \in Ids : Store!CopyProfile(id, newId)
     \/ \E id \in Ids, p \in Store!Profile : Store!UpdateProfile(id, p)
     \/ \E id \in Ids : Store!DeleteProfile(id)
     \/ \E f \in Flags : Store!UpdateSettings(f)
  /\ Begin([NoRequest EXCEPT !.kind = "edit"])

(* set_fan_curve reads the power state before it waits for the store. *)
CallSetFanCurve(c) ==
  /\ "curve" \in Requests
  /\ handler = "idle"
  /\ request' = [NoRequest EXCEPT !.kind = "curve", !.state = power, !.curve = c]
  /\ handler' = "waiting"
  /\ UNCHANGED <<store, power, hardware, ticking, worker, lastPower, snapshot,
                 history>>

(* It updates the profile mapped to the state it has read; one that does not
   exist is refused here, a built-in one by the store. *)
SetFanCurve ==
  /\ handler = "waiting"
  /\ LET id == settings.stateMap[request.state] IN
     \/ /\ Mapped(request.state) = None
        /\ Store!Refuse("update")
     \/ /\ Mapped(request.state) # None
        /\ Store!UpdateProfile(
             id, [id |-> id,
                  body |-> [Mapped(request.state) EXCEPT !.cpu = request.curve]])
  /\ Begin(request)

(* Mutant of Saving: the handler goes on without waiting for the save. *)
SavingGoesOn ==
  /\ handler = "saving"
  /\ Store!SaveStep
  /\ handler' = IF request.kind = "activate" THEN "cpu" ELSE "idle"
  /\ UNCHANGED <<power, hardware, ticking, worker, lastPower, snapshot,
                 request, history>>

(* The store saves; when it is done the handler applies what it was asked, or
   returns. *)
Saving ==
  /\ handler = "saving"
  /\ Store!SaveStep
  /\ handler' = IF pc' # "idle" THEN "saving"
                ELSE IF reply' = "ok" /\ request.kind = "activate" THEN "cpu"
                ELSE IF reply' = "ok" /\ request.kind = "curve" THEN "curve"
                ELSE "idle"
  /\ UNCHANGED <<power, hardware, ticking, worker, lastPower, snapshot,
                 request, history>>

(* set_active_profile applies the profile it has assigned. *)
HandlerApplies ==
  /\ handler \in Steps
  /\ Apply(handler, AsHandled(BodyOf(request.id)))
  /\ handler' = IF After[handler] = "done" THEN "idle" ELSE After[handler]
  /\ UNCHANGED <<store, power, ticking, worker, lastPower, snapshot, request,
                 history>>

(* Mutant of RunCurve: it starts the curve of the power state of the moment. *)
RunMappedCurve ==
  /\ handler = "curve"
  /\ ~ ticking
  /\ Mapped(power) # None
  /\ modes' = [modes EXCEPT !.cpu = Mapped(power).cpu]
  /\ handler' = "idle"
  /\ UNCHANGED <<store, power, tunings, ticking, worker, lastPower, snapshot,
                 request, history>>

(* set_fan_curve starts the curve. *)
RunCurve ==
  /\ handler = "curve"
  /\ ~ ticking
  /\ modes' = [modes EXCEPT !.cpu = request.curve]
  /\ handler' = "idle"
  /\ UNCHANGED <<store, power, tunings, ticking, worker, lastPower, snapshot,
                 request, history>>

(* set_fan_speed_percent does not look at the store: it waits for the modes. *)
CallSetManual ==
  /\ "manual" \in Requests
  /\ handler = "idle"
  /\ request' = [NoRequest EXCEPT !.kind = "manual"]
  /\ handler' = "manual"
  /\ UNCHANGED <<store, power, hardware, ticking, worker, lastPower, snapshot,
                 history>>

SetManual ==
  /\ handler = "manual"
  /\ ~ ticking
  /\ modes' = [modes EXCEPT !.cpu = Manual]
  /\ disturbed' = TRUE
  /\ handler' = "idle"
  /\ UNCHANGED <<store, power, tunings, ticking, worker, lastPower, snapshot,
                 request, switched, overlap>>

Call ==
  \/ \E id \in Ids, s \in PowerStates : Activate(id, s)
  \/ \E c \in Curves : CallSetFanCurve(c)
  \/ Edit
  \/ CallSetManual

Next ==
  \/ Start \/ StartUp \/ Stop
  \/ Flip
  \/ TickBegins \/ TickEnds
  \/ Poll \/ TakeSnapshot \/ WorkerApplies
  \/ Call \/ SetFanCurve \/ Saving \/ HandlerApplies \/ RunCurve \/ SetManual

Spec == Init /\ [][Next]_vars

(* The tasks, each at one place at a time. *)
Main == Start \/ StartUp
Worker == Poll \/ TakeSnapshot \/ WorkerApplies
Handler == SetFanCurve \/ Saving \/ HandlerApplies \/ RunCurve \/ SetManual

(* Tasks keep running.  Both mutexes are tokio's, which are handed out in the
   order they are asked for: whoever waits for one that is free again and
   again gets it, hence strong fairness of each task that waits.  Nothing obliges
   a client to call, the supply to change or the fan task to tick. *)
FairSpec ==
  /\ Spec
  /\ SF_vars(Main)
  /\ WF_vars(TickEnds)
  /\ SF_vars(Worker)
  /\ SF_vars(Handler)

-----------------------------------------------------------------------------
(* Properties *)

(* Every variable has its type, and the handler and the store agree on whether
   a method runs. *)
TypeOK ==
  /\ Store!TypeOK
  /\ power \in PowerStates
  /\ modes \in [{"cpu", "gpu"} -> Curves \cup {Manual, None}]
  /\ tunings \in [Tunables -> Tunings]
  /\ ticking \in BOOLEAN
  /\ worker \in {"poll", "snapshot"} \cup Steps
  /\ lastPower \in PowerStates \cup {"unknown"}
  /\ snapshot \in Bodies \cup {None}
  /\ handler \in {"down", "startup", "idle", "waiting", "saving", "curve", "manual"}
               \cup Steps
  /\ request.state \in PowerStates /\ request.id \in Ids
  /\ switched \in BOOLEAN /\ disturbed \in BOOLEAN /\ overlap \in BOOLEAN
  /\ pc = "down" <=> handler = "down"
  /\ pc \notin {"down", "idle"} <=> handler = "saving"

(* The worker sleeps and has seen the power state. *)
AtRest == worker = "poll" /\ lastPower = power

(* Once the worker has switched, and until a handler begins, the hardware runs
   the profile mapped to the power state whenever the worker is at rest and
   has seen the current state: however often the supply changed while it was
   applying, and whichever handler was in the middle of its work when the
   state changed.  The snapshot is taken under the mutex that a handler holds
   until it has applied what it has assigned, and that is what this rests on. *)
InStepWithPower ==
  switched /\ ~ disturbed /\ AtRest /\ Mapped(power) # None
    => Shows(Mapped(power))

(* The hardware runs, and the disk has, what the last request asked for. *)
AppliedAsAsked ==
  LET b == Mapped(request.state) IN
  /\ reply = "ok" /\ Store!AckedOnDisk
  /\ b # None
  /\ request.kind = "activate" => Shows(AsHandled(b))
  /\ request.kind = "curve" => modes.cpu = b.cpu

(* A handler that assigned a profile or changed the curve of one answers when
   the hardware runs it and the disk has it, if the worker was not applying
   another when it began. *)
AnsweredMeansApplied ==
  [][handler' = "idle" /\ handler \in Steps \cup {"curve"} /\ ~ overlap
       => AppliedAsAsked']_vars

(* Every call is answered, whoever holds which mutex: the four kinds of Requests,
   those that the store refuses, and the start-up before them. *)
EveryCallAnswered == handler # "idle" ~> handler = "idle"

(* If the supply stops changing, the worker comes to rest having seen it,
   however busy clients keep the store. *)
ComesToRest ==
  <>[][UNCHANGED power]_power => <>[]AtRest

(* Nobody is about to apply anything: the worker has seen the power state, and the
   last call, which was about that state if there was one, has been answered. *)
AllDone == AtRest /\ handler = "idle" /\ request.state = power

(* The README: "Polls AC/battery state, auto-applies mapped profile on
   transition".  When the worker has dealt with a transition and all is done, the
   hardware runs the profile mapped to the state. *)
MappedProfileApplied ==
  [][AllDone' /\ worker \in Steps /\ Mapped(power)' # None
       => Shows(Mapped(power))']_vars
=============================================================================
