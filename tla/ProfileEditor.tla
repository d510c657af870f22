---------------------------- MODULE ProfileEditor ----------------------------
(***************************************************************************)
(* The profiles tab of the TUI (tccd-tui/src/update.rs, main.rs) with the  *)
(* profile store of the daemon behind it.                                  *)
(*                                                                         *)
(* update() turns a key or a message into a new model and commands.  Each  *)
(* command becomes a task of its own; a task waits for the mutex of the    *)
(* one D-Bus client, makes its calls one after the other, and sends what   *)
(* it has read through a channel back to update().  Tasks are spawned on   *)
(* a runtime with several threads, so they may get the mutex in any order; *)
(* the channel keeps the order of its messages.                            *)
(*                                                                         *)
(* The TUI is the only client here, and the daemon runs all the time.      *)
(***************************************************************************)
EXTENDS Naturals, Sequences

CONSTANTS
  Ids, DefaultIds, FallbackId, Bodies, FactoryBodies, PowerStates,
  Flags, DefaultFlags, TrustedClients, Faults, MaxProfiles,  \* see ProfileStore
  NewIds,   \* the ids generate_profile_id returns
  None,     \* a form, or assignments, that have not arrived
  MaxLoad   \* bound: keys spawn no task with this many tasks and messages left

VARIABLES
  profiles, settings, profilesFile, settingsFile, pc, op, reply

Store == INSTANCE ProfileStore

(* editor_form and what it was read from: the profile it is of, and what the
   fields hold, with their marks taken together. *)
Form == [of : Ids, body : Bodies, changed : BOOLEAN, editable : BOOLEAN]

ASSUME EditorAssumption ==
  /\ Store!StoreAssumption
  /\ NewIds \subseteq Ids /\ "list" \notin Ids
  /\ None \notin Form \cup [PowerStates -> Ids]
  /\ ~ TrustedClients /\ Faults = {}
  /\ MaxLoad \in Nat

VARIABLES
  list,      \* ProfilesState::profiles
  selected,  \* selected_index, from 0
  view,      \* "list", or the id of ProfileView::Editor
  form,      \* editing_json and editor_form, which come and go together
  unsaved,   \* editor_dirty
  assigned,  \* ac_profile_id and bat_profile_id
  tasks,     \* tasks that wait for the client, each the calls it will make
  calls,     \* what is left to call for the task that has the client
  mailbox,   \* the channel
  alone      \* history: nothing of another profile was there, or on its way,
             \* when the editor was opened

store == <<profiles, settings, profilesFile, settingsFile, pc, op, reply>>
screen == <<list, selected, view, form, unsaved, assigned, alone>>
vars == <<store, screen, tasks, calls, mailbox>>

-----------------------------------------------------------------------------
(* Commands *)

Call(kind, id) == [kind |-> kind, id |-> id]

FetchProfiles == <<Call("list", None)>>
FetchAssignments == <<Call("assignments", None)>>
FetchProfileDetail(id) == <<Call("detail", id)>>
CopyProfile(id) == <<Call("copy", id)>> \o FetchProfiles

(* Mutant of DeleteProfile: only the list is read again. *)
DeleteAndFetchProfiles(id) == <<Call("delete", id)>> \o FetchProfiles

DeleteProfile(id) == <<Call("delete", id)>> \o FetchProfiles \o FetchAssignments
SetActiveProfile(id, s) ==
  <<[kind |-> "assign", id |-> id, state |-> s]>> \o FetchAssignments

(* Mutant of SaveProfile: the editor is brought up to date as well. *)
SaveProfileAndFetch(id, p) ==
  <<[kind |-> "update", id |-> id, profile |-> p]>> \o FetchProfiles
    \o FetchProfileDetail(id)

SaveProfile(id, p) ==
  <<[kind |-> "update", id |-> id, profile |-> p]>> \o FetchProfiles

Load == Len(tasks) + (IF calls = << >> THEN 0 ELSE 1) + Len(mailbox)

(* dispatch_commands *)
Spawn(new) ==
  /\ Load < MaxLoad
  /\ tasks' = tasks \o new
  /\ UNCHANGED <<store, calls, mailbox>>

(* A profile is on its way to the editor. *)
DetailComing ==
  \/ \E i \in 1 .. Len(tasks) : \E j \in 1 .. Len(tasks[i]) : tasks[i][j].kind = "detail"
  \/ \E i \in 1 .. Len(calls) : calls[i].kind = "detail"
  \/ \E i \in 1 .. Len(mailbox) : mailbox[i].kind = "detail"

-----------------------------------------------------------------------------
(* Keys *)

(* is_default_profile goes by the underscores around the id. *)
IsDefaultProfile(id) == Store!IsDefault(id) \/ id = FallbackId

InList == view = "list" /\ selected < Len(list)
Selected == list[selected + 1].id

(* '2': the profiles tab. *)
ShowTab ==
  /\ Spawn(<<FetchProfiles, FetchAssignments>>)
  /\ UNCHANGED screen

MoveSelection ==
  /\ view = "list"
  /\ \/ selected > 0 /\ selected' = selected - 1
     \/ selected + 1 < Len(list) /\ selected' = selected + 1
  /\ UNCHANGED <<store, list, view, form, unsaved, assigned, alone, tasks, calls,
                 mailbox>>

(* Enter.  A form that is still there stays. *)
Open ==
  /\ InList
  /\ view' = Selected
  /\ unsaved' = FALSE
  /\ alone' = (form = None /\ ~ DetailComing)
  /\ Spawn(<<FetchProfileDetail(Selected)>>)
  /\ UNCHANGED <<list, selected, form, assigned>>

(* 'c', 'd', 'a' and 'b'. *)
ListCommand ==
  /\ InList
  /\ \/ Spawn(<<CopyProfile(Selected)>>)
     \/ ~ IsDefaultProfile(Selected) /\ Spawn(<<DeleteProfile(Selected)>>)
     \/ \E s \in PowerStates : Spawn(<<SetActiveProfile(Selected, s)>>)
  /\ UNCHANGED screen

(* A key that changes a field of the form, to what it was before too: a field
   stays marked. *)
EditField ==
  /\ view # "list"
  /\ form # None
  /\ form.editable
  /\ \E b \in Bodies :
       form' = [form EXCEPT !.body = b, !.changed = TRUE]
  /\ unsaved' = TRUE
  /\ UNCHANGED <<store, list, selected, view, assigned, alone, tasks, calls,
                 mailbox>>

(* Up, Down and Tab look at the fields again. *)
MoveFocus ==
  /\ view # "list"
  /\ form # None
  /\ unsaved' = form.changed
  /\ UNCHANGED <<store, list, selected, view, form, assigned, alone, tasks, calls,
                 mailbox>>

(* apply_profile_form: every field of the form takes the place of what the JSON
   has; nothing of the id. *)
ApplyProfileForm(f) == [id |-> f.of, body |-> f.body]

(* 's': the fields of the form over the JSON they were read from, under the id
   of the view.  The fields keep their marks. *)
Save ==
  /\ view # "list"
  /\ ~ IsDefaultProfile(view)
  /\ form # None
  /\ Spawn(<<SaveProfile(view, ApplyProfileForm(form))>>)
  /\ unsaved' = FALSE
  /\ UNCHANGED <<list, selected, view, form, assigned, alone>>

(* Esc and 'q'. *)
Close ==
  /\ view # "list"
  /\ view' = "list"
  /\ form' = None
  /\ unsaved' = FALSE
  /\ UNCHANGED <<store, list, selected, assigned, alone, tasks, calls, mailbox>>

Key ==
  \/ ShowTab \/ MoveSelection \/ Open \/ ListCommand
  \/ EditField \/ MoveFocus \/ Save \/ Close

-----------------------------------------------------------------------------
(* Tasks and the daemon *)

Start == Store!Start /\ UNCHANGED <<screen, tasks, calls, mailbox>>

(* One of the tasks gets the client. *)
Lock ==
  /\ calls = << >>
  /\ \E i \in 1 .. Len(tasks) :
       /\ calls' = tasks[i]
       /\ tasks' = Store!Without(tasks, i)
  /\ UNCHANGED <<store, screen, mailbox>>

(* The daemon begins a call that changes its store.  When it has answered, Ok
   or not, the task goes on. *)
Invoke ==
  /\ calls # << >>
  /\ LET c == Head(calls) IN
     \/ c.kind = "copy" /\ \E new \in NewIds : Store!CopyProfile(c.id, new)
     \/ c.kind = "delete" /\ Store!DeleteProfile(c.id)
     \/ c.kind = "update" /\ Store!UpdateProfile(c.id, c.profile)
     \/ c.kind = "assign" /\ Store!SetActiveProfile(c.id, c.state)
  /\ calls' = IF pc' = "idle" THEN Tail(calls) ELSE calls
  /\ UNCHANGED <<screen, tasks, mailbox>>

SaveInDaemon ==
  /\ Store!SaveStep
  /\ calls' = IF pc' = "idle" THEN Tail(calls) ELSE calls
  /\ UNCHANGED <<screen, tasks, mailbox>>

(* What a query sends back: a profile that does not exist is an error, and
   nothing for the model. *)
Answer(c) ==
  CASE c.kind = "list" -> <<[kind |-> "list", data |-> profiles]>>
    [] c.kind = "assignments" -> <<[kind |-> "assignments", data |-> settings.stateMap]>>
    [] c.kind = "detail" ->
         IF Store!Has(profiles, c.id)
         THEN <<[kind |-> "detail", data |-> profiles[Store!First(profiles, c.id)]]>>
         ELSE << >>

Query ==
  /\ calls # << >>
  /\ Head(calls).kind \in {"list", "assignments", "detail"}
  /\ pc = "idle"
  /\ mailbox' = mailbox \o Answer(Head(calls))
  /\ calls' = Tail(calls)
  /\ UNCHANGED <<store, screen, tasks>>

-----------------------------------------------------------------------------
(* handle_data *)

Receive(kind) ==
  /\ mailbox # << >>
  /\ Head(mailbox).kind = kind
  /\ mailbox' = Tail(mailbox)
  /\ UNCHANGED <<store, tasks, calls>>

(* Mutant of ReceiveList: the editor follows the selection. *)
ReceiveListAndFollow ==
  /\ Receive("list")
  /\ list' = Head(mailbox).data
  /\ selected' = IF selected < Len(list') THEN selected ELSE Len(list') - 1
  /\ view' = IF view = "list" THEN view ELSE list'[selected' + 1].id
  /\ UNCHANGED <<form, unsaved, assigned, alone>>

(* Mutant of ReceiveList: the selection stays. *)
ReceiveListUnclamped ==
  /\ Receive("list")
  /\ list' = Head(mailbox).data
  /\ UNCHANGED <<selected, view, form, unsaved, assigned, alone>>

ReceiveList ==
  /\ Receive("list")
  /\ list' = Head(mailbox).data
  /\ selected' = IF selected < Len(list') THEN selected
                 ELSE IF list' = << >> THEN 0 ELSE Len(list') - 1
  /\ UNCHANGED <<view, form, unsaved, assigned, alone>>

(* parse_profile_form *)
ParseProfileForm(p) ==
  [of |-> p.id, body |-> p.body, changed |-> FALSE,
   editable |-> ~ IsDefaultProfile(view)]

(* The fields can be edited unless the view is that of a built-in profile;
   what profile the message is about is not looked at. *)
ReceiveDetail ==
  /\ Receive("detail")
  /\ form' = ParseProfileForm(Head(mailbox).data)
  /\ UNCHANGED <<list, selected, view, unsaved, assigned, alone>>

ReceiveAssignments ==
  /\ Receive("assignments")
  /\ assigned' = Head(mailbox).data
  /\ UNCHANGED <<list, selected, view, form, unsaved, alone>>

-----------------------------------------------------------------------------
Init ==
  /\ Store!Init
  /\ list = << >> /\ selected = 0 /\ assigned = None
  /\ view = "list" /\ form = None /\ unsaved = FALSE
  /\ tasks = << >> /\ calls = << >> /\ mailbox = << >>
  /\ alone = FALSE

Next ==
  \/ Key
  \/ Start \/ Lock \/ Invoke \/ SaveInDaemon \/ Query
  \/ ReceiveList \/ ReceiveDetail \/ ReceiveAssignments

Spec == Init /\ [][Next]_vars

-----------------------------------------------------------------------------
(* Properties *)

(* Every variable of the screen has its type, and the selection is a line of
   the list. *)
TypeOK ==
  /\ Store!TypeOK
  /\ list \in Seq(Store!Profile)
  /\ selected \in Nat /\ (selected < Len(list) \/ selected = 0)
  /\ view \in Ids \cup {"list"}
  /\ form \in {None} \cup Form
  /\ unsaved \in BOOLEAN /\ alone \in BOOLEAN
  /\ assigned \in [PowerStates -> Ids] \cup {None}

Quiet == tasks = << >> /\ calls = << >> /\ mailbox = << >>

(* When nothing is on its way any more, the tab shows the profiles and the
   assignments of the daemon, in whatever order the tasks got the client and
   whichever calls the daemon refused: each task reads again what its call may
   have changed before it releases the client, and the channel keeps the
   newest for last. *)
QuietMeansFresh ==
  Quiet /\ list # << >> => list = profiles /\ assigned = settings.stateMap

(* An editor that was opened with nothing of another profile there or on its
   way holds the profile it was opened on, whatever happens to the list. *)
OpenedAloneHoldsItsProfile ==
  alone /\ view # "list" /\ form # None => form.of = view

(* In such an editor no message touches the fields once they are there, and
   changes that are announced as unsaved are in them. *)
EditsKept ==
  [][alone /\ view # "list" /\ form # None /\ view' = view =>
       /\ form' # form => unsaved' /\ form'.changed
       /\ unsaved' => form'.changed]_vars

(* model.rs says of the JSON the editor keeps: "Serialized JSON of the profile
   being edited".  What it saves under the id of a profile is that profile. *)
SavesTheProfileEdited ==
  \A i \in 1 .. Len(tasks) : \A j \in 1 .. Len(tasks[i]) :
    tasks[i][j].kind = "update" => tasks[i][j].profile.id = tasks[i][j].id
=============================================================================
