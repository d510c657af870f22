----------------------------- MODULE FanCurveTab -----------------------------
(***************************************************************************)
(* The fan curve tab of the TUI (tccd-tui/src/update.rs, main.rs), the     *)
(* poller that reads the curve again and again (poller.rs), and the        *)
(* handlers of the daemon that answer (tccd-daemon/src/main.rs).           *)
(*                                                                         *)
(* The tab keeps the points it shows and the points the daemon has sent    *)
(* last; the difference is what is unsaved.  Keys change the former,       *)
(* messages both.  What profile a curve belongs to is the daemon's         *)
(* business: it goes by the power state at the time of the call.           *)
(***************************************************************************)
EXTENDS Naturals, Sequences, SequencesExt

CONSTANTS
  Profiles,  \* the profiles that can be active
  BuiltIn,   \* those that update_profile refuses
  Tables,    \* the tables profiles may have to begin with
  MaxEdits,  \* bound: keys that change the points
  MaxLoad    \* bound: tasks and messages on their way

Point == [temp : 0 .. 255, speed : 0 .. 255]

ASSUME TabAssumption ==
  /\ BuiltIn \subseteq Profiles
  /\ Tables \subseteq Seq(Point)
  /\ MaxEdits \in Nat /\ MaxLoad \in Nat

VARIABLES
  active,    \* the profile the daemon resolves the power state to
  table,     \* the table of each profile, << >> where it has none
  points,    \* curve_points
  original,  \* original_points
  selected,  \* selected_point, from 0
  tasks,     \* tasks that wait for the client
  saving,    \* the task that has the client has saved and will read back
  mailbox,   \* curves on their way to update()
  edits,     \* for MaxEdits
  edited     \* history: a key has changed the points since they were last
             \* loaded, saved or discarded

daemon == <<active, table>>
tab == <<points, original, selected, edits, edited>>
vars == <<daemon, tab, tasks, saving, mailbox>>

P(t, s) == [temp |-> t, speed |-> s]

(* is_dirty *)
Unsaved == points # original

-----------------------------------------------------------------------------
(* Keys *)

Load == Len(tasks) + Len(mailbox)

Fetch == [kind |-> "fetch", curve |-> << >>]

(* '3': the tab is opened. *)
ShowTab ==
  /\ Load < MaxLoad
  /\ tasks' = Append(tasks, Fetch)
  /\ UNCHANGED <<daemon, tab, saving, mailbox>>

(* Left and Right. *)
MoveSelection ==
  /\ \/ selected > 0 /\ selected' = selected - 1
     \/ selected + 1 < Len(points) /\ selected' = selected + 1
  /\ UNCHANGED <<daemon, points, original, edits, edited, tasks, saving, mailbox>>

(* A key makes s of the points and selects the point at position n. *)
Edit(s, n) ==
  /\ edits < MaxEdits
  /\ edits' = edits + 1
  /\ points' = s
  /\ selected' = n
  /\ edited' = TRUE
  /\ UNCHANGED <<daemon, original, tasks, saving, mailbox>>

(* Up and Down. *)
Adjust ==
  /\ selected < Len(points)
  /\ LET now == points[selected + 1].speed IN
     \E s \in {IF now + 5 < 100 THEN now + 5 ELSE 100,
               IF now > 5 THEN now - 5 ELSE 0} :
       Edit([points EXCEPT ![selected + 1].speed = s], selected)

(* The mean of two numbers, f64::round. *)
Mean(a, b) == (a + b + 1) \div 2

(* The point half way to the next one, or to full speed at 100 degrees. *)
Between(i) ==
  LET here == points[i]
      next == IF i < Len(points) THEN points[i + 1] ELSE P(100, 100)
  IN  P(Mean(here.temp, next.temp), Mean(here.speed, next.speed))

(* Mutant of InsertPoint: it goes in front of the selected one. *)
InsertPointBefore ==
  /\ selected < Len(points)
  /\ Edit(InsertAt(points, selected + 1, Between(selected + 1)), selected)

(* 'i' *)
InsertPoint ==
  /\ selected < Len(points)
  /\ Edit(InsertAt(points, selected + 2, Between(selected + 1)), selected + 1)

(* 'x': neither the first nor the last. *)
RemovePoint ==
  /\ Len(points) > 2
  /\ selected > 0 /\ selected < Len(points) - 1
  /\ Edit(RemoveAt(points, selected + 1), selected)

(* default_fan_curve *)
DefaultCurve == <<P(0, 0), P(40, 20), P(60, 40), P(80, 70), P(100, 100)>>

(* 'r' *)
Reset == Edit(DefaultCurve, 0)

(* 's': what is shown counts as saved from here on. *)
Save ==
  /\ Unsaved
  /\ Load < MaxLoad
  /\ original' = points
  /\ edited' = FALSE
  /\ tasks' = Append(tasks, [kind |-> "save", curve |-> points])
  /\ UNCHANGED <<daemon, points, selected, edits, saving, mailbox>>

(* selected_point, brought back into s. *)
Within(s) ==
  IF selected < Len(s) THEN selected ELSE IF s = << >> THEN 0 ELSE Len(s) - 1

(* Esc *)
Discard ==
  /\ Unsaved
  /\ points' = original
  /\ selected' = Within(original)
  /\ edited' = FALSE
  /\ UNCHANGED <<daemon, original, edits, tasks, saving, mailbox>>

Key ==
  \/ ShowTab \/ MoveSelection
  \/ Adjust \/ InsertPoint \/ RemovePoint \/ Reset
  \/ Save \/ Discard

-----------------------------------------------------------------------------
(* The tasks, the poller, and the daemon *)

(* The supply changes, or another profile is assigned to it. *)
Switch ==
  /\ active' \in Profiles \ {active}
  /\ UNCHANGED <<table, tab, tasks, saving, mailbox>>

(* get_active_fan_curve *)
SendCurve == mailbox' = Append(mailbox, table[active])

(* A task that fetches the curve gets the client. *)
RunFetch ==
  /\ ~ saving
  /\ \E i \in 1 .. Len(tasks) :
       /\ tasks[i] = Fetch
       /\ tasks' = RemoveAt(tasks, i)
  /\ SendCurve
  /\ UNCHANGED <<daemon, tab, saving>>

(* A task that saves gets it: set_fan_curve writes to the profile that is
   active now, unless that is built in. *)
RunSave ==
  /\ ~ saving
  /\ \E i \in 1 .. Len(tasks) :
       /\ tasks[i].kind = "save"
       /\ tasks' = RemoveAt(tasks, i)
       /\ table' = IF active \in BuiltIn THEN table
                   ELSE [table EXCEPT ![active] = tasks[i].curve]
  /\ saving' = TRUE
  /\ UNCHANGED <<active, tab, mailbox>>

(* It reads the curve back before it releases the client. *)
ReadBack ==
  /\ saving
  /\ SendCurve
  /\ saving' = FALSE
  /\ UNCHANGED <<daemon, tab, tasks>>

(* spawn_medium *)
Poll ==
  /\ ~ saving
  /\ Load < MaxLoad
  /\ SendCurve
  /\ UNCHANGED <<daemon, tab, tasks, saving>>

-----------------------------------------------------------------------------
(* handle_data, FanCurveData *)

(* Mutants of ReceiveCurve: the selection stays; the new original counts when
   it looks for unsaved edits; only the first curve is shown. *)
ReceiveCurveUnclamped ==
  /\ mailbox # << >>
  /\ mailbox' = Tail(mailbox)
  /\ original' = Head(mailbox)
  /\ points' = IF Unsaved THEN points ELSE Head(mailbox)
  /\ edited' = (edited /\ Unsaved)
  /\ UNCHANGED <<daemon, selected, edits, tasks, saving>>

ReceiveCurveOriginalFirst ==
  /\ mailbox # << >>
  /\ mailbox' = Tail(mailbox)
  /\ original' = Head(mailbox)
  /\ \/ points # original' /\ UNCHANGED <<points, selected, edited>>
     \/ /\ points = original'
        /\ points' = Head(mailbox) /\ selected' = Within(points')
        /\ edited' = FALSE
  /\ UNCHANGED <<daemon, edits, tasks, saving>>

ReceiveCurveOnce ==
  /\ mailbox # << >>
  /\ mailbox' = Tail(mailbox)
  /\ IF points = << >>
     THEN /\ points' = Head(mailbox) /\ original' = Head(mailbox)
          /\ selected' = Within(points') /\ edited' = FALSE
     ELSE UNCHANGED <<points, original, selected, edited>>
  /\ UNCHANGED <<daemon, edits, tasks, saving>>

(* Unsaved edits stay; what they are compared with, and what Esc goes back
   to, is the new curve. *)
ReceiveCurve ==
  /\ mailbox # << >>
  /\ mailbox' = Tail(mailbox)
  /\ original' = Head(mailbox)
  /\ \/ Unsaved /\ UNCHANGED <<points, selected, edited>>
     \/ /\ ~ Unsaved
        /\ points' = Head(mailbox)
        /\ selected' = Within(points')
        /\ edited' = FALSE
  /\ UNCHANGED <<daemon, edits, tasks, saving>>

-----------------------------------------------------------------------------
Init ==
  /\ active \in Profiles
  /\ table \in [Profiles -> Tables]
  /\ points = << >> /\ original = << >> /\ selected = 0
  /\ tasks = << >> /\ saving = FALSE /\ mailbox = << >>
  /\ edits = 0 /\ edited = FALSE

Next ==
  \/ Key
  \/ Switch \/ RunFetch \/ RunSave \/ ReadBack \/ Poll
  \/ ReceiveCurve

Spec == Init /\ [][Next]_vars

(* The poller and the tasks are tasks of a runtime that keeps running, the
   mutex of the client is a fair queue, and the loop of the TUI takes each
   message.  Nothing obliges the user or the supply. *)
FairSpec ==
  /\ Spec
  /\ SF_vars(Poll) /\ SF_vars(RunFetch) /\ SF_vars(RunSave) /\ WF_vars(ReadBack)
  /\ WF_vars(ReceiveCurve)

-----------------------------------------------------------------------------
(* Properties *)

(* Every variable has its type, and the selection is a point of the curve. *)
TypeOK ==
  /\ active \in Profiles
  /\ table \in [Profiles -> Seq(Point)]
  /\ points \in Seq(Point) /\ original \in Seq(Point)
  /\ selected \in Nat /\ (selected < Len(points) \/ selected = 0)
  /\ tasks \in Seq([kind : {"fetch", "save"}, curve : Seq(Point)])
  /\ saving \in BOOLEAN
  /\ mailbox \in Seq(Seq(Point))
  /\ edits \in 0 .. MaxEdits
  /\ edited \in BOOLEAN

(* The temperatures of a curve rise, or stay, from left to right, and its
   numbers are degrees and percents. *)
InOrder(c) ==
  /\ \A i \in 1 .. Len(c) : c[i].temp <= 100 /\ c[i].speed <= 100
  /\ \A i, j \in 1 .. Len(c) : i < j => c[i].temp <= c[j].temp

(* The daemon interpolates tables as they come, and only those in order are
   met at their points.  Neither insertions next to points that are one degree
   apart, removals and resets, nor saves into whichever profile is active then,
   put a table out of order. *)
StaysInOrder == \A p \in Profiles : InOrder(table[p])

(* What the tab announces as unsaved is the user's: it compares two curves that
   messages replace, and no order of saves, refusals, switches and late answers
   makes them differ without a key that changed the points. *)
UnsavedMeansEdited == Unsaved => edited

(* Once the active profile stays the same, the tab shows its curve, whatever
   was saved and refused, unless it has unsaved edits. *)
ShowsActiveCurve ==
  <>[][UNCHANGED active]_active => <>[](Unsaved \/ points = table[active])
=============================================================================
