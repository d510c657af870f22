---------------------------- MODULE WriteThrough ----------------------------
(***************************************************************************)
(* What a client may rely on for one of the two files of the profile       *)
(* store: the value in memory is written through to disk by every change,  *)
(* but not atomically.  While a save is in progress the saved value may be *)
(* the old one, none at all, or the new one; at any other time it is the   *)
(* one the last save left, and a restart brings back exactly that.  Once a *)
(* save has succeeded nothing older can come back.                         *)
(***************************************************************************)
CONSTANTS
  Values,   \* what can be stored
  Nothing   \* what is loaded when the file is absent or does not parse

VARIABLES
  current,  \* the value in memory, Nothing while the process is down
  durable,  \* the value a process that starts now would load
  phase     \* "off", "ready" or "saving"

wvars == <<current, durable, phase>>

Init == current = Nothing /\ durable = Nothing /\ phase = "off"

Restart ==
  /\ phase = "off"
  /\ phase' = "ready"
  /\ current' = durable
  /\ UNCHANGED durable

Off ==
  /\ phase # "off"
  /\ phase' = "off"
  /\ current' = Nothing
  /\ UNCHANGED durable

Change ==
  /\ phase = "ready"
  /\ phase' = "saving"
  /\ current' \in Values
  /\ UNCHANGED durable

Tear ==
  /\ phase = "saving"
  /\ durable' = Nothing
  /\ UNCHANGED <<current, phase>>

Sync ==
  /\ phase = "saving"
  /\ phase' = "ready"
  /\ durable' = current
  /\ UNCHANGED current

Fail ==
  /\ phase = "saving"
  /\ phase' = "ready"
  /\ UNCHANGED <<current, durable>>

Next == Restart \/ Off \/ Change \/ Tear \/ Sync \/ Fail

Spec == Init /\ [][Next]_wvars
=============================================================================
