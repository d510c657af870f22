------------------------------- MODULE FormTabs -------------------------------
(***************************************************************************)
(* The tabs of the TUI that show settings in a form (tccd-tui/src/         *)
(* update.rs, main.rs): settings, keyboard, charging, power, display and   *)
(* webcam, with the handlers of the daemon behind them                     *)
(* (tccd-daemon/src/main.rs).                                              *)
(*                                                                         *)
(* A tab asks for its data the first time it is shown; the answer becomes  *)
(* a form.  Esc throws the form away, 's' sends it if a field is marked.   *)
(* The daemon keeps what it is sent in memory, and answers with that,      *)
(* except for the values it reads from the hardware.  What the charging    *)
(* form lets the user edit depends on the capabilities of the hardware,    *)
(* for which the TUI asks once, when it starts.                            *)
(***************************************************************************)
EXTENDS Naturals, Sequences, SequencesExt

CONSTANTS
  Tabs,     \* the tabs there are
  Values,   \* of a group of fields
  Default,  \* what the daemon starts from, and a form without the field sends
  Crossed,  \* thresholds of which the lower one is not lower
  None,     \* no form
  Faults,   \* "write" and "read" of the hardware, "down": the daemon stops
  MaxLoad   \* bound: keys spawn no task with this many tasks and messages left

(* The fields of a form fall into two groups: those the daemon reads from the
   hardware when it is asked, and those it remembers.  Charging has the profile
   and the priority in the one and the thresholds in the other, display the
   brightness and the rest; the other tabs have the latter group only. *)
Groups(t) == IF t \in {"charging", "display"} THEN {"read", "kept"} ELSE {"kept"}
Content == [{"read", "kept"} -> Values]
Factory == [g \in {"read", "kept"} |-> Default]

Form == [content : Content, editable : SUBSET {"read", "kept"}, dirty : BOOLEAN]

ASSUME FormTabsAssumption ==
  /\ Tabs \subseteq {"settings", "keyboard", "charging", "power", "display", "webcam"}
  /\ Default \in Values /\ Crossed \subseteq Values \ {Default}
  /\ None \notin Tabs \cup Form
  /\ Faults \subseteq {"write", "read", "down"}
  /\ MaxLoad \in Nat

VARIABLES
  caps,      \* what the TUI takes the hardware to support for charging
  loaded,    \* of each tab
  form,      \* of each tab: the content, which groups can be edited, dirty
  devices,   \* the webcam tab has its list of devices
  tasks,     \* tasks that wait for the client
  mailbox,   \* the channel
  up,        \* the daemon runs
  memory,    \* what the daemon remembers
  hardware,  \* what the fields have that are read from the hardware
  supported, \* the groups of the charging tab that the hardware supports
  alone,     \* history: nothing of the tab was on its way when it was asked for
             \* last, and the daemon has not stopped since
  failed     \* history: a call for the tab has failed since then

screen == <<caps, loaded, form, devices>>
daemon == <<up, memory, hardware, supported>>
history == <<alone, failed>>
vars == <<screen, tasks, mailbox, daemon, history>>

Task(kind, t) == [kind |-> kind, tab |-> t, content |-> Factory]

(* Data for t, or a question for it, is on its way. *)
Fetching(t) ==
  \/ \E i \in 1 .. Len(tasks) : tasks[i].tab = t /\ tasks[i].kind # "save"
  \/ \E i \in 1 .. Len(mailbox) : mailbox[i].tab = t
Saving(t) == \E i \in 1 .. Len(tasks) : tasks[i].tab = t /\ tasks[i].kind = "save"

Load == Len(tasks) + Len(mailbox)

-----------------------------------------------------------------------------
(* Keys *)

(* dispatch_commands *)
Spawn(task) ==
  /\ Load < MaxLoad
  /\ tasks' = Append(tasks, task)

(* A key asks the daemon for the data of t. *)
Ask(t, kind) ==
  /\ Spawn(Task(kind, t))
  /\ alone' = [alone EXCEPT ![t] = ~ Fetching(t) /\ ~ Saving(t)]
  /\ failed' = [failed EXCEPT ![t] = FALSE]
  /\ UNCHANGED <<mailbox, daemon>>

(* What the tab asks for: the webcam tab for its devices first. *)
First(t) == IF t = "webcam" THEN "devices" ELSE "data"

(* Mutant of ShowTab: it asks each time. *)
ShowTabAgain(t) == Ask(t, First(t)) /\ UNCHANGED screen

(* '4' to '9': the tab is shown. *)
ShowTab(t) ==
  /\ ~ loaded[t]
  /\ Ask(t, First(t))
  /\ UNCHANGED screen

(* Tab and Shift+Tab on the webcam tab. *)
SwitchDevice ==
  /\ "webcam" \in Tabs
  /\ devices
  /\ form' = [form EXCEPT !["webcam"] = None]
  /\ Ask("webcam", "data")
  /\ UNCHANGED <<caps, loaded, devices>>

(* A key changes a field; the field stays marked. *)
EditField(t) ==
  /\ form[t] # None
  /\ \E g \in form[t].editable, v \in Values :
       form' = [form EXCEPT ![t].content[g] = v, ![t].dirty = TRUE]
  /\ UNCHANGED <<caps, loaded, devices, tasks, mailbox, daemon, history>>

(* charging_form_to_json and the like: a field that is shown as not available
   is sent as its default. *)
ToJson(f) ==
  [g \in {"read", "kept"} |-> IF g \in f.editable THEN f.content[g] ELSE Default]

(* Mutant of SaveForm: what is sent counts as saved. *)
SaveFormAndClear(t) ==
  /\ form[t] # None
  /\ form[t].dirty
  /\ t = "charging" => ToJson(form[t])["kept"] \notin Crossed
  /\ Spawn([Task("save", t) EXCEPT !.content = ToJson(form[t])])
  /\ form' = [form EXCEPT ![t].dirty = FALSE]
  /\ UNCHANGED <<caps, loaded, devices, mailbox, daemon, history>>

(* 's': save_form.  The marks stay. *)
SaveForm(t) ==
  /\ form[t] # None
  /\ form[t].dirty
  /\ t = "charging" => ToJson(form[t])["kept"] \notin Crossed
  /\ Spawn([Task("save", t) EXCEPT !.content = ToJson(form[t])])
  /\ UNCHANGED <<screen, mailbox, daemon, history>>

(* Mutant of DiscardForm: the tab still counts as loaded. *)
DiscardFormOnly(t) ==
  /\ form' = [form EXCEPT ![t] = None]
  /\ UNCHANGED <<caps, loaded, devices, tasks, mailbox, daemon, history>>

(* Esc: discard_form_changes.  The webcam tab does not ask again. *)
DiscardForm(t) ==
  /\ form' = [form EXCEPT ![t] = None]
  /\ loaded' = [loaded EXCEPT ![t] = @ /\ t = "webcam"]
  /\ UNCHANGED <<caps, devices, tasks, mailbox, daemon, history>>

Key(t) == ShowTab(t) \/ EditField(t) \/ SaveForm(t) \/ DiscardForm(t)

-----------------------------------------------------------------------------
(* The tasks and the handlers *)

Readable(t) ==
  \/ t = "charging" /\ "read" \in supported
  \/ t = "display"

(* get_global_settings and the like; the hardware has the last word. *)
Answers(t) ==
  {IF Readable(t) THEN [memory[t] EXCEPT !["read"] = hardware[t]] ELSE memory[t]}
    \cup (IF "read" \in Faults THEN {memory[t]} ELSE {})

Take(i) == tasks' = RemoveAt(tasks, i)
Send(t, kind, data) ==
  mailbox' = Append(mailbox, [tab |-> t, kind |-> kind, data |-> data])

RunFetch(t) ==
  /\ up
  /\ \E i \in 1 .. Len(tasks) :
       /\ tasks[i].tab = t
       /\ \/ tasks[i].kind = "data" /\ \E c \in Answers(t) : Send(t, "data", c)
          \/ tasks[i].kind = "devices" /\ Send(t, "devices", Factory)
       /\ Take(i)
  /\ UNCHANGED <<screen, daemon, history>>

(* The start-up of the TUI: get_capabilities. *)
RunFetchCapabilities ==
  /\ up
  /\ \E i \in 1 .. Len(tasks) : tasks[i].kind = "caps" /\ Take(i)
  /\ Send(None, "caps", supported)
  /\ UNCHANGED <<screen, daemon, history>>

(* set_global_settings and the like: the hardware first, if it takes it, then
   the memory. *)
RunSave(t) ==
  /\ up
  /\ \E i \in 1 .. Len(tasks) :
       /\ tasks[i].tab = t /\ tasks[i].kind = "save"
       /\ \/ /\ Readable(t)
             /\ hardware' = [hardware EXCEPT ![t] = tasks[i].content["read"]]
          \/ /\ ~ Readable(t) \/ "write" \in Faults
             /\ UNCHANGED hardware
       /\ memory' = [memory EXCEPT ![t] = tasks[i].content]
       /\ Take(i)
  /\ UNCHANGED <<screen, mailbox, up, supported, history>>

(* A call that fails has no message for the model but a notification. *)
CallFails(t) ==
  /\ ~ up
  /\ \E i \in 1 .. Len(tasks) : tasks[i].tab = t /\ Take(i)
  /\ failed' = [u \in Tabs |-> failed[u] \/ u = t]
  /\ UNCHANGED <<screen, mailbox, daemon, alone>>

(* A task of t gets the client. *)
RunTask(t) == RunFetch(t) \/ RunSave(t) \/ CallFails(t)

(* The daemon stops; its settings are on disk, the rest is not. *)
Stop ==
  /\ "down" \in Faults
  /\ up
  /\ up' = FALSE
  /\ memory' = [t \in Tabs |-> IF t = "settings" THEN memory[t] ELSE Factory]
  /\ alone' = [t \in Tabs |-> FALSE]
  /\ UNCHANGED <<screen, tasks, mailbox, hardware, supported, failed>>

Start ==
  /\ ~ up
  /\ up' = TRUE
  /\ UNCHANGED <<screen, tasks, mailbox, memory, hardware, supported, history>>

-----------------------------------------------------------------------------
(* handle_data *)

(* The next message is of this kind. *)
Receive(kind) ==
  /\ mailbox # << >>
  /\ Head(mailbox).kind = kind
  /\ mailbox' = Tail(mailbox)
  /\ UNCHANGED <<daemon, history>>

(* parse_charging_form and the like. *)
ParseForm(t, c) ==
  [content |-> c, dirty |-> FALSE,
   editable |-> IF t = "charging" THEN caps ELSE Groups(t)]

(* SettingsData and the like: a new form, whatever the old one holds.  The
   controls of a webcam do not count as its data. *)
ReceiveData ==
  /\ Receive("data")
  /\ LET t == Head(mailbox).tab IN
     /\ form' = [form EXCEPT ![t] = ParseForm(t, Head(mailbox).data)]
     /\ loaded' = [loaded EXCEPT ![t] = @ \/ t # "webcam"]
  /\ UNCHANGED <<caps, devices, tasks>>

(* Mutant of ReceiveDevices: the controls are left to the user. *)
ReceiveDevicesOnly ==
  /\ Receive("devices")
  /\ devices' = TRUE
  /\ loaded' = [loaded EXCEPT !["webcam"] = TRUE]
  /\ UNCHANGED <<caps, form, tasks>>

(* WebcamDevices: the controls of the first one are asked for. *)
ReceiveDevices ==
  /\ Receive("devices")
  /\ devices' = TRUE
  /\ loaded' = [loaded EXCEPT !["webcam"] = TRUE]
  /\ tasks' = Append(tasks, Task("data", "webcam"))
  /\ UNCHANGED <<caps, form>>

(* Mutant of ReceiveCapabilities: a form that is there stays. *)
ReceiveCapabilitiesOnly ==
  /\ Receive("caps")
  /\ caps' = Head(mailbox).data
  /\ UNCHANGED <<loaded, form, devices, tasks>>

(* Capabilities: a charging form that is there is asked for again. *)
ReceiveCapabilities ==
  /\ Receive("caps")
  /\ caps' = Head(mailbox).data
  /\ tasks' = IF "charging" \in Tabs /\ loaded["charging"]
              THEN Append(tasks, Task("data", "charging")) ELSE tasks
  /\ UNCHANGED <<loaded, form, devices>>

-----------------------------------------------------------------------------
Init ==
  /\ caps = {} /\ devices = FALSE
  /\ loaded = [t \in Tabs |-> FALSE] /\ form = [t \in Tabs |-> None]
  /\ tasks = <<Task("caps", None)>> /\ mailbox = << >>
  /\ up = TRUE
  /\ memory = [t \in Tabs |-> Factory]
  /\ hardware \in [Tabs -> Values]
  /\ \A t \in Tabs : "read" \notin Groups(t) => hardware[t] = Default
  /\ supported \in SUBSET {"read", "kept"}
  /\ alone = [t \in Tabs |-> FALSE] /\ failed = [t \in Tabs |-> FALSE]

Next ==
  \/ \E t \in Tabs : Key(t) \/ RunTask(t)
  \/ SwitchDevice
  \/ RunFetchCapabilities \/ CallFails(None) \/ Stop \/ Start
  \/ ReceiveData \/ ReceiveDevices \/ ReceiveCapabilities

Spec == Init /\ [][Next]_vars

(* The mutex of the client is a fair queue, in which a call is answered or
   fails, and the loop of the TUI takes each message.  Nothing obliges the user,
   or whoever starts the daemon. *)
FairSpec ==
  /\ Spec
  /\ \A t \in Tabs : WF_vars(RunTask(t))
  /\ WF_vars(ReceiveData \/ ReceiveDevices \/ ReceiveCapabilities)

-----------------------------------------------------------------------------
(* Properties *)

TaskType == [kind : {"data", "devices", "caps", "save"},
             tab : Tabs \cup {None}, content : Content]
MessageType == [tab : Tabs, kind : {"data", "devices"}, data : Content] \cup
               [tab : {None}, kind : {"caps"}, data : {supported}]

(* Every variable has its type, and a tab that will not ask has its form; of the
   webcam tab that only holds for the devices. *)
TypeOK ==
  /\ caps \in SUBSET {"read", "kept"}
  /\ loaded \in [Tabs -> BOOLEAN] /\ devices \in BOOLEAN
  /\ form \in [Tabs -> {None} \cup Form]
  /\ \A t \in Tabs : form[t] # None => form[t].editable \subseteq Groups(t)
  /\ \A t \in Tabs : loaded[t] = IF t = "webcam" THEN devices ELSE form[t] # None
  /\ tasks \in Seq(TaskType) /\ mailbox \in Seq(MessageType)
  /\ up \in BOOLEAN
  /\ memory \in [Tabs -> Content] /\ hardware \in [Tabs -> Values]
  /\ supported \in SUBSET {"read", "kept"}
  /\ alone \in [Tabs -> BOOLEAN] /\ failed \in [Tabs -> BOOLEAN]

(* The charging form offers what the hardware supports as far as the TUI knows,
   whichever of the two answers comes first, and if not, a new form is on its
   way or the daemon could not be asked for it. *)
ChargingFollowsCapabilities ==
  "charging" \in Tabs /\ form["charging"] # None =>
    \/ form["charging"].editable = caps
    \/ Fetching("charging")
    \/ failed["charging"]

(* Edits are not replaced: when a tab was asked for with nothing of it on its
   way and the user has changed its form, no answer is coming that would take
   the changes away, not even the one that the capabilities ask for. *)
EditsKept ==
  \A t \in Tabs : alone[t] /\ form[t] # None /\ form[t].dirty => ~ Fetching(t)

(* A form of such a tab without marks shows what the daemon remembers and what
   the hardware has, in every field that can be edited. *)
UnmarkedIsCurrent ==
  \A t \in Tabs : alone[t] /\ form[t] # None /\ ~ form[t].dirty =>
    \A g \in form[t].editable :
      form[t].content[g] = IF g = "read" THEN hardware[t] ELSE memory[t][g]

(* A tab that has asked gets its form, through as many questions as it takes,
   or a call for it fails. *)
AskedIsAnswered ==
  \A t \in Tabs : Fetching(t) ~> form[t] # None \/ failed[t]
=============================================================================
