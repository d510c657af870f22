# tcc-rs in TLA+

tcc-rs controls TUXEDO laptops: `tccd-daemon`, a root service on D-Bus, keeps
power profiles and drives fans and CPU settings; `tccd-tui` is a terminal
client. These modules model the parts of both that keep state, TLC checks them
on small instances, and TLAPS proves every safety property the runs check, of each
of these parts, for all instances.

## The system

| component | state | operations | talks to |
|---|---|---|---|
| profile store (`profiles.rs`) | profiles, settings, `profiles.json`, `settings.json` | load, create, copy, update, delete, assign, save | the file system; called with its mutex held |
| fan task (`workers/fan.rs`) | a mode per fan (manual speed or curve) | one tick: sample, compute, step towards the target, write | the fans, through `io.rs` / `tuxedo_io.rs`; modes are set by handlers and the power worker |
| fan curve (`workers/fan.rs`) | none | interpolation between the points of a table | used by the fan task |
| power worker (`workers/power.rs`) | last power state | poll, clone the mapped profile, apply it | store (mutex), fan modes (mutex), CPU settings (unguarded) |
| D-Bus handlers (`main.rs`) | none of their own | one handler at a time changes anything (`&mut self`); each holds the store's mutex until it returns | all of the above |
| profiles tab (`update.rs`, `main.rs` of the TUI) | list, selection, editor, form | keys, tasks that call the daemon, messages that come back | the daemon, through one client behind a mutex |
| fan curve tab (TUI) | the points shown, the points last received, the selected one | keys, saves, periodic queries of the poller | the same client |
| form tabs (TUI) | a form per tab, whether it is loaded, the capabilities | keys, saves, questions | the same client |
| pollers (TUI) | connection status, readings | periodic queries | the same client |
| hardware settings (keyboard, charging, display, webcam, GPU) | in-memory settings of the daemon, sysfs, ioctls | get and set | sysfs |

What is hard here: the process can end between two writes of one operation, and
each write can fail; the worker applies a profile it cloned earlier, while
handlers write to the same hardware; two mutexes are taken in an order no type
checks; the fan task works on readings that may fail, through percentages that
are rounded twice; the TUI's tasks overtake each other.

What makes each part right:

- store: built-in profiles are never changed; ids are unique; what was answered
  Ok is on disk; a fault costs at most the operation it hits; assignments name
  profiles that exist;
- fan curve: within the table, through its points, rising with the temperature if
  the speeds of the table rise;
- fan task: steps of at most 20 points, always towards the target, never below
  the floor of the curve, and at rest at the target in the end;
- worker and handlers: the hardware follows the supply; an answer means the
  profile is on disk and on the hardware; nothing blocks for ever;
- profiles tab: it ends up showing what the daemon has; edits are not lost; what
  is saved under a profile's id is that profile;
- fan curve tab: curves stay in order; what is unsaved is what the user typed;
  the curve of the active profile is shown in the end;
- pollers: the status tells whether the client could connect, nobody keeps the
  client, and once everything is up the dashboard shows it;
- form tabs: a form that was asked for alone keeps its edits and, where it has
  none, shows what the daemon has; it follows the capabilities; a question ends
  in a form or in an error.

## Modules

| module | models | notes |
|---|---|---|
| `WriteThrough` | what a file-backed value promises | abstract: a save fails, tears the file or completes, and start-up reads what is there |
| `ProfileStore` | `profiles.rs` | one action per method; a method's save is the `fs::write` of each file in two steps (truncated, filled), each of which can fail or be the last thing the process does |
| `FanCurve` | `interpolate_fan_curve` | `f64` by exact fractions, `as i32` by what it does |
| `FanControl` | the fan task's tick, statement by statement, with the readings and conversions of both hardware interfaces | extends `FanCurve`; `io` is the interface the daemon finds when it starts: it decides how many fans there are, the scale of their duties (Uniwill 200, else 255) and whether one write carries them all (Clevo) |
| `Daemon` | start-up, handlers, power worker, the fan task's mutex | instantiates `ProfileStore`: its steps are steps of the store |
| `ProfileEditor` | the profiles tab, its tasks and messages | instantiates `ProfileStore` for the daemon behind it |
| `FanCurveTab` | the fan curve tab, its tasks, the poller of the curve, and the daemon's handlers for it | the daemon is a table per profile and the active one |
| `FormTabs` | the six form tabs, their tasks and messages, and the daemon's getters and setters behind them | the settings that live in the daemon's memory, and those the hardware answers for |
| `Connection` | the client of the TUI and its mutex, both pollers, the tasks that wait with them, the channel, the connection status, the bus and the daemon coming and going, leaving | what the other tabs show is left to their modules |
| `MC...` | instances for TLC | constants only |
| `ProfileStoreProofs` | lemmas on sequences of profiles; the theorems | |
| `FanCurveProofs` | lemmas on rounding and interpolation; the theorems | the lemmas are about `FanCurve`, the theorems about the sweep in `MCFanCurve` |
| `FanControlProofs` | lemmas on duties and percents; the theorems | instantiates `FanCurveProofs` for its lemmas |
| `DaemonProofs` | the theorems about the daemon as a whole | instantiates `ProfileStoreProofs`, whose lemmas it uses |
| `FanCurveTabProofs` | lemmas on insertion and removal; the theorems | |
| `ConnectionProofs` | lemmas on queues; the theorems | |
| `ProfileEditorProofs` | lemmas on queues of calls, messages and tasks; the theorems | instantiates `ProfileStoreProofs` |
| `FormTabsProofs` | lemmas on questions and answers under way; the theorems | |

Correspondence, where it is not by name:

- `ProfileStore`: `pc` is where the method that runs is (`"idle"`: the mutex is
  free), `op` which method, `reply` what it answered last. The content of a
  profile besides its id is one value, a body; the settings besides the state
  map are one value, a flag. A torn file does not parse, and the code then
  starts from the defaults. `MaxProfiles` bounds the vector.
- `FanControl`: the fans are driven one after the other in a tick; `phase` is where
  the task is, `fan` the fan it drives next. `driven` is how many fans the task
  counted when it started. `Faults` lists which readings and writes can fail;
  actions take as a parameter which of them may, so that `SettlesWhenLeftAlone` can
  speak of a hardware that answers again.
- `Connection`: a task at the mutex of the client is in `queue`, and the first one
  has it; `request` is its call. A poller that is done with one call and at once
  asks for the client again goes to the end of the queue in the same step. The
  supply and its profile are one number that grows (`Changes` bounds it), so a
  stale reading can be told from a fresh one. Leaving drops everything but a call
  that was sent. `last` is a history variable.
- `Daemon`: `handler` and `worker` are program counters. A step of either that
  needs the fan modes waits while the fan task holds them (`ticking`).
  `switched`, `disturbed` and `overlap` are history variables for the
  properties and never guard a step. `set_fan_curve` and `set_fan_speed_percent`
  are a step up to their first wait, for the store (`"waiting"`) or for the modes
  (`"manual"`), and the rest of the handler. A call begins when no other is being
  answered, as these handlers take `&mut self`.
- `ProfileEditor`: a task is the sequence of calls it will make; the one that
  has the client is in `calls`. `form` is the form and the JSON it was read
  from, which come and go together; `form.of` is the id in that JSON.
  `MaxLoad` bounds how many tasks and messages may be left when a key is typed
  that starts another.

- `FanCurveTab`: a curve on its way is the curve itself; a profile without a
  table has the empty curve, as `parse_fan_curve_response` gives it. `saving` is
  the part of a save between its two calls, with the client locked. A profile in
  `BuiltIn` is one for which `set_fan_curve` fails. `edited` is a history
  variable; `MaxEdits` bounds the keys that change points, as the points are a
  growing sequence. `ShowsActiveCurve` can say "for ever" only because of that bound:
  the code lets a user edit again, so it is about what follows the last edit. Keys of the tab while another tab is shown change nothing,
  and which tab is shown is left out.

- `FormTabs`: the fields of a form are two groups, those that a getter reads from
  the hardware (`"read"`: charging profile and priority, brightness) and those
  the daemon remembers (`"kept"`: the rest, thresholds included). A group has one
  value and is editable or not. `alone` and `failed` are history variables. What
  the setters write to the hardware and no getter reads back (keyboard, charge
  thresholds) is not kept; the display is taken to be readable. `Faults` with
  `"read"`, a getter that fails to read the hardware and answers from memory, is
  left out of the run, as a form then shows the memory by design. In the run the
  only value besides the default is one with crossed thresholds, which the
  charging tab does not send, so on the charging tab the `"kept"` group is never saved at
  another value; on the webcam tab, where nothing is crossed, it is.

Left out of these modules, as no property is about it: notifications, help,
logging, the text of forms, `poll` intervals (a poll or a tick can come at any
time), the pause flag of the fan task, which only tests set.

## Runs

| run | question | bounds |
|---|---|---|
| `ProfileStore_faults` | What survives the process ending between any two steps and writes that fail? Do built-ins stay, ids stay unique, and assignments resolve? | 1 built-in and the fallback id among 3 ids, 2 bodies, 3 profiles; both files torn or unwritable at any point |
| `FanCurve` | Is the interpolation right on any table a client can send? | tables of at most 3 points in any order, swept over all their temperatures |
| `FanControl` | Is every step smooth, towards the target and above the floor, with temperatures, writes and the fan count that fail? Does each driven fan come to rest? | all three interfaces, with two fans in sysfs; a curve in order and one out of order with a speed above 100; two readings, which with the 50 degrees of a failed one are below the first point, between two and above the last; a manual speed above 100 |
| `Daemon_switch` | Does the worker end on the mapped profile; does an answered activation hold? | 2 profiles, one with everything, one with neither GPU table nor energy preference; restarts |
| `Daemon_edit` | The same when profiles and curves are edited meanwhile | 1 built-in, 1 custom id |
| `Daemon_live` | Is every call answered; does the worker come to rest? | calls of all four kinds (activations, curves, edits, manual speeds), also those the store refuses; 1 built-in id and the fallback id, 1 curve; fairness below |
| `ProfileEditor_keys` | Is what the tab shows right in the end, and are edits kept? | 1 built-in, 1 custom id, 2 tasks or messages |
| `FanCurveTab_poll` | Do curves stay in order, is what is unsaved the user's, and is the active profile's curve shown in the end? | 2 profiles, one built in, 2 edits, 2 tasks or messages; points a degree apart and next to 0 and 100% |
| `FormTabs_keys` | Does a form keep its edits, show what the daemon and the hardware have, and follow the capabilities; is a question answered? | charging and webcam tabs, 2 values, 2 tasks or messages; the daemon stops and starts, writes to the hardware fail |
| `Connection` | Does the status tell the truth; are outages shown; does the TUI catch up once all is up; is every command answered, and truthfully? | one command beside the two pollers, so that three tasks wait for the client; the supply changes once; the bus, the daemon, calls and connections fail at any moment |
| `Daemon_race` (violation) | README.md:82: is the mapped profile applied after a transition? Asked when the worker has seen the supply and no handler runs | no: a `set_active_profile` between two steps of the worker is answered Ok, the worker goes on with its clone, and when both are done the hardware runs a mixture of the two profiles |
| `ProfileEditor_late` (violation) | `model.rs:195`: is the JSON the profile being edited? | no: a detail that arrives late is saved under another profile's id |

Two profiles, two power states and two ids are enough for every relation the
code tests (same id, other id, built-in or not, assigned or not); a third custom
id or body adds no guard that tells it apart. Of the form tabs the charging tab is
the one whose form follows the capabilities and has both groups of fields, and
the webcam tab the one that asks twice; the others do less of the same. The interpolation looks at two
neighbouring points, so three points show every position of a pair. Smoothing
is a function of one duty and one target, so two curves, two manual speeds and
two temperatures give steps up, down, shorter than 20 and none.

Fairness, in `FanControl` (`FairSpec`): the tick goes on and comes again (a
tokio interval), while clients may do what they like or nothing.
In `Daemon`: strong fairness for each task that waits for a mutex: `Main`, which
starts up, the `Worker` and the `Handler` that runs (tokio's mutexes are fair
queues), weak fairness for the fan task releasing the modes, which waits for
nobody. A task is at one place at a time, so fairness of the task is fairness of
the step it is at. No fairness for calls, the supply or the end of the process:
nobody has to plug in a laptop. `Daemon_live` has one custom profile, under the
fallback id, and one curve: what a profile contains is never a condition of
waiting, only whether it exists, is built in, and has a table for the step. Its
writes of the CPU settings may fail, those of the disk do not: a failed save ends
sooner.
In `Connection`: the pollers, the tasks and the loop of the TUI go on (weak: a
task at the mutex is in a queue, and whoever has the client makes his call), and a
call that has reached the daemon ends, as `Daemon_live` shows of its handlers. A
daemon that hung would be another matter: calls have no time limit, so the task
that made one would keep the client, and the pollers, with it, would stop with the
status as it is. No fairness for what fails, for what is down to come up, nor for
keys.
In `FanCurveTab`: the poller is a loop and the tasks are queued for the client,
whose mutex is fair (strong fairness), and the loop of the TUI takes every
message (weak). No fairness for keys and the supply. In `FormTabs`: the same queue
and loop, with weak fairness for the tasks of each tab, since nothing but such a
task takes what enables it; none for the daemon, whose start nobody promises: a
call to a daemon that is down fails.

`AnsweredMeansApplied` leaves out handlers that began while the worker was
applying a clone: `Daemon_race` shows why. `UniqueIds` and `AckedOnDisk` assume
clients that send back the profile they were given (`TrustedClients`):
`update_profile` stores whatever id the JSON carries. The TUI itself can break
that assumption, by `ProfileEditor_late`.

## What the code does that no run shows

- `update_profile` with JSON whose id is a built-in's is answered Ok, but
  `save_profiles` filters the profile out: it is gone after a restart.
- Deleting an assigned profile leaves the power state assigned to
  `__default_custom_profile__`, which names no profile; start-up then takes the
  first one, and the worker none.
- On Clevo hardware a failed read of another fan's duty counts as 0 and is
  written back: the fan stops, where `tuxedo_io.rs:301` means to leave it alone.
- `set_fan_curve` goes to whichever profile is active when the daemon gets it,
  which need not be the one the tab showed; on a built-in profile it is refused,
  and the read-back replaces the edits.
- `'s'` on the fan curve tab makes the points count as saved (`update.rs:490`)
  before the daemon has them. A curve that the poller has read before the save
  runs then replaces them until the read-back; a key typed in between works on
  the old curve, counts as an edit that the read-back spares, and the next `'s'`
  takes the first save back. `WORKLOG.md:163` says "Fixed poller overwriting
  edits".
- Esc on a form tab leaves "Loading" until the key of the tab is pressed again.
  On the webcam tab that key does not ask again (`update.rs:1378` leaves `loaded`);
  Tab does.
- The marks of a form stay after a save (`clear_dirty` is not called), so `'s'`
  sends it again. Two saves are two tasks, and the later one may run first.
- The key of a form tab pressed twice before the first answer asks twice, and the
  second answer replaces what has been typed since the first: `EditsKept` is about
  forms that were asked for alone.
- `get_charging_settings` does not read the thresholds back: after a restart of the
  daemon the form shows the defaults, and a save writes them over the hardware's.
  The start threshold is written before the end threshold, so the kernel may
  refuse one that is above the old end.
- The capabilities are asked for once, when the TUI starts (`main.rs:60`); if that
  call fails, the charging form cannot be edited until the TUI is started again.
- The fast poller sends `ConnectionRestored` only after an error. If a call fails
  while the connection is good (the fan cannot be read, the daemon is not there) and
  the bus refuses the new connection, the old one stays, the next polls succeed, and
  the bar says "Disconnected" for good: `Overlooked` in `Connection`, which
  `CatchesUp` has to except. While the daemon is not there, or its fan cannot be
  read, the bar goes back and forth once a second, with two notifications each time,
  as `connect()` only needs the bus.
- A command fails at once if the client has no proxy, or one whose connection is
  gone: only the fast poller connects again.
- On the form tabs `'q'` leaves, whether or not there is a form, unless a text field
  has the focus; the comment at `update.rs:92` says "only when no form is active".
- The TUI never sends `ScheduleShutdown` or `CancelShutdown`: `update` pushes neither
  command.
- A failed read of a fan's speed counts as 0: a fan at full speed is then set to
  20% or less in one step.
- `set_fan_speed_percent` takes any byte: above 100 the task writes at every
  tick and never finds the fan at its target.
- A transition between start-up's reading and the worker's first poll is missed
  until the next one.
- `set_active_profile` ignores a GPU table when there is no CPU table; the
  worker applies it.

## Proofs

`ProfileStoreProofs` proves of `ProfileStore`, for any sets of ids, bodies and
faults and any built-in profiles with distinct ids
(`StoreAssumption`):

- `TypeCorrect`: `TypeOK`, which is inductive as it stands;
- `BuiltInsSafe`: `BuiltInsIntact`, inductive with `TypeOK`: update and delete
  refuse built-in ids before they look for the first match, so the match is
  behind the built-ins, and loading puts them in front of what it reads;
- `IdsUnique`: `UniqueIds`, with trusted clients. It needs `BuiltInsIntact`:
  only then does "not built-in" mean "behind the front", and loading custom
  profiles behind the built-ins keeps ids apart;
- `AcksDurable`: `AckedOnDisk`. The induction goes through the save: `Steps`
  says which method may be at which `pc`, `HalfWay` that once profiles.json is
  written, and until the method answers, it holds what memory holds;
- `AssignmentsKept`: `AssignmentsStayKnown`, with trusted clients, an action property
  that needs no more than types: appending and replacing keep every id, removing
  loses one, and that is the one that falls back;
- `ProfilesRefine` and `AssignmentsRefine`: every step of the store is a step of
  `WriteThrough`, or a stutter, under the refinement mappings in `ProfileStore`.

The lemmas before them are about removing, replacing and appending
in sequences with distinct ids and about the subsequence of the custom ones.

`FanCurveTabProofs` proves of `FanCurveTab`, for any profiles, tables and bounds
(`TabAssumption`):

- `TypeCorrect`: `TypeOK`; that the selection stays a point of the curve is what
  the arithmetic of the keys and `Within` come to;
- `UnsavedIsEdited`: `UnsavedMeansEdited`, inductive as it stands;
- `TablesStayInOrder`: `StaysInOrder`, if the tables profiles begin with are in
  order. The invariant is `EveryCurveInOrder`: a table is what a task saved, which
  was taken from the points, which a message may have replaced, so all of them
  have to be in order. Of the keys, insertion is the one to show something about:
  the mean, rounded, lies between its neighbours.

`FanCurveProofs` proves of the sweep in `MCFanCurve`, for tables of any length with
any points (bytes), in any order, at any temperature:

- `NeverOutsideTheTable`: `WithinTable`. Between two points the fraction is rounded
  to an integer that lies between their speeds (`BetweenWithin`), and the segment
  that is used is one of the table, whatever the order (`LowerIsBelow`);
- `GoesThroughPoints`: `ThroughPoints`, for temperatures that are distinct and in
  order;
- `NeverSlower`: `NeverSlowerWhenWarmer`. The proof does not need the temperatures
  to be in order: the upper point is the first one that is not below the reading,
  so that it moves along the table as the reading rises, and it is enough that the
  speeds rise along the table.

`FanControlProofs` proves of `FanControl`, for any curves, temperatures, duties to
start with and requests, and for each of the three interfaces:

- `TypeCorrect`: `TypeOK`, inductive as it stands: a duty stays on its scale because
  a target is clamped before it is converted;
- `MovesSmoothly`, `MovesCloser`, `KeepsTheFloor`: `Smooth`, `Closes`, `FloorKept`,
  if reads of a speed do not fail (`"read"` is not in `Faults`, as in the run: a
  failed read counts as a standing fan, and then none of the three holds). They
  rest on one lemma, `Moves`, on what the one step that writes does to each fan, and
  on `RoundTrip`: a percent converted to a duty and back is itself. `Closes` lets a
  fan reach its target without getting nearer by the percents read back: duty 254 of
  255 already reads as 100%. The floor needs `InterpolateWithin`, and 50 degrees,
  which is what a failed read of the temperature counts as, is a reading like any
  other.

`DaemonProofs` proves of `Daemon`, for any profiles, settings, requests, curves and
faults of the disk (`DaemonAssumption`):

- `TypeCorrect`: `TypeOK`. The invariant, `Typed`, adds what the place of a handler
  says of its request: who applies a profile has one that exists, who runs a curve
  has one;
- `UsesTheStore`: handlers, worker and fan task together implement `ProfileStore`.
  Every step is a step of the store or leaves its variables alone, for which the
  types are needed: `set_fan_curve` calls `update_profile` with a profile it builds.
  So what `ProfileStoreProofs` says of the store holds in the daemon, and the next
  proofs use it;
- `StaysInStep`: `InStepWithPower`. The invariant, `Undisturbed`, says that from the
  snapshot on, until a handler begins, no handler holds the store, the snapshot is
  still the mapped profile, and what the worker has applied of it is still in the
  hardware. It is kept because a handler holds the store's mutex to its end;
- `AnswersHold`: `AnsweredMeansApplied`. The invariant, `Held`, says that while a
  handler holds the store, what it was asked is in the store, the worker begins to
  apply nothing, and what the handler has applied is still in the hardware. That the
  curve is found where `update_profile` has put it needs unique ids, and that the
  answer is on disk needs `AckedOnDisk`: both are `ProfileStoreProofs`', with clients
  that send back the profile they were given. The runs have no faults of the disk;
  the theorem has all of them.

The last two assume that writes of the CPU settings do not fail (`"tuning"` is not
in `HardwareFaults`, as in their runs): an error there is logged, and the hardware
then is not what the profile says.

`ConnectionProofs` proves of `Connection`, for any number of commands and changes,
whatever fails:

- `TypeCorrect`: `TypeOK`, which says that nobody is in the queue for the client
  twice. The invariant adds `Waiting`, that who is in the queue is at a place where
  it waits, and `CallOfHolder`, that a call is that of the first in the queue;
- `StatusTruthful`: `StatusIsLastConnect`, by induction over the channel: only the
  fast poller sends the two messages that are about the connection, and the last one
  in the channel is what the status will be;
- `OkIsTrue`: `OkMeansCarried`, that a command reported as done was carried out, which
  is the part of `CommandsAnswered` that needs no fairness. The invariant follows the
  outcome back through the channel to the task that still has the client: it is
  never that of another task's call. The converse does not hold: the daemon may go
  after it has carried a call out and before its answer arrives.

`ProfileEditorProofs` proves of `ProfileEditor`, for any profiles, ids and bound
(`EditorAssumption`, which asks of `None` and `"list"` only that they are neither a
form nor assignments, and no id), with a store whose disk does not fail: what
faults do to the store is in `ProfileStoreProofs`:

- `TypeCorrect`: `TypeOK`. The invariant, `Typed`, says what is under way: a task
  reads again, behind each call that changes something, what that call may have
  changed, and the one that asks for a profile does nothing else; the call that the
  daemon is busy with is the first. The types of the store are `ProfileStoreProofs`';
- `UsesTheStore`: every step is a step of `ProfileStore` or leaves it alone;
- `QuietIsFresh`: `QuietMeansFresh`. The invariant, `Fresh`, says of the list and of
  the assignments: a task will still read them, or the last message about them in
  the channel is what the daemon has, or there is none and the tab shows it. A
  call that changes either leaves its task with the reading still to do, and an
  answer to that goes to the end of the channel, which is why order of tasks does
  not matter. Before the tab was shown for the first time there are no assignments
  (`Unasked`);
- `HoldsItsProfile` and `EditsAreKept`: `OpenedAloneHoldsItsProfile` and, as an action
  property, `EditsKept`. Neither is inductive. The invariant, `EditorOK`, says of an
  editor that was opened alone that there is one answer on its way at the most, in
  one of the three queues, that it is for the profile of the view, and none once the
  fields are there. No other key asks for a profile, and `TaskType` is what says
  that a task which does is done after it.

`FormTabsProofs` proves of `FormTabs`, for any tabs, values and bound
(`FormTabsAssumption`):

- `TypeCorrect`: `TypeOK`. The invariant, `Typed`, adds that a form is there only in a
  tab that counts as loaded, that what can be edited in it is part of what the tab
  shows (for charging, of what the hardware supports), and that it is dirty only
  if there was something to edit; of tasks and messages, that only the webcam tab
  is asked for devices, that its data comes once they are listed, and that the
  capabilities belong to no tab;
- `EditsAreKept`: `EditsKept`. The invariant has two parts. `CapsFirst`: the
  capabilities are asked for once, and until they have come nothing of the charging
  form can be edited or saved. `AloneOK`: of a tab that was asked for alone one
  question or answer is on its way at the most, and while it has a form, only the
  question that the capabilities have raised, for a form with no field to edit;
- `ChargingFollows`: `ChargingFollowsCapabilities`, inductive with the types;
- `UnmarkedShowsCurrent`: `UnmarkedIsCurrent`, if reads of the hardware do not fail
  (`"read"` is not in `Faults`, as in the run: a getter that fails answers from
  memory). Besides `EditsKept`'s invariant it needs that a message on its way to such
  a tab agrees with the daemon in what the form will show: a save would make it
  stale, and there is none on its way with it.

Every invariant and every action property of the runs is stated by one of these
theorems. Only model-checked: what must eventually happen (`SettlesWhenLeftAlone`,
`EveryCallAnswered`, `ComesToRest`, `CatchesUp`, `OutageIsShown`, `CommandsAnswered`,
`ShowsActiveCurve`, `AskedIsAnswered`), since liveness under fairness is beyond the
proof system. What the two violation runs show has no theorem either, of course.

## Not modelled, and the plan

In this order:

1. In `FormTabs`, the GPU readings of the power tab and the shutdown timer.

Not planned: rendering (`views/`), the mock daemon, the hardware example,
parsing of sysfs text and the encodings of the ioctls.
